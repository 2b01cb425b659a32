------------------------------ MODULE MemPFix -------------------------------
(***************************************************************************)
(* Fixed-sized memory pools: kernel/mempfix.c.  A block is its index;      *)
(* mpfmb[o][b] is the word next of its MPFMB: INDEX_ALLOC while the block  *)
(* is allocated, else the link of the list freelist.  The blocks from      *)
(* unused on have never been allocated.                                    *)
(***************************************************************************)
EXTENDS WaitObj, Integers

CONSTANTS
  Mpf,     \* the memory pools
  ampf,    \* those for dynamic creation, in table order
  mpfinib, \* attribute and number of blocks of the others
  CMpf     \* the packets T_CMPF with which acre_mpf is called

ASSUME MpfAssumption ==
  /\ Mpf \subseteq Wobj /\ ampf \in Seq(Mpf) /\ IsInjective(ampf)
  /\ CMpf \cup {mpfinib[o] : o \in Mpf \ ToSet(ampf)}
       \subseteq [mpfatr : {"TA_NULL", "TA_TPRI"}, blkcnt : Nat \ {0}]

INDEX_NULL == -1
INDEX_ALLOC == -2

NewPool(blkcnt) == [fblkcnt |-> blkcnt, unused |-> 0, freelist |-> INDEX_NULL]

initialize_mempfix(k1) ==
  LET inib(o) == IF o \in ToSet(ampf) THEN [mpfatr |-> "TA_NOEXS", blkcnt |-> 0] ELSE mpfinib[o]
  IN  extend(k1, [wobjatr    |-> extend(k1.wobjatr, [o \in Mpf |-> inib(o).mpfatr]),
                  blkcnt     |-> [o \in Mpf |-> inib(o).blkcnt],
                  mpfmb      |-> [o \in Mpf |-> [b \in 0 .. inib(o).blkcnt - 1 |-> INDEX_NULL]],
                  mpf        |-> [o \in Mpf |-> NewPool(inib(o).blkcnt)],
                  free_mpfcb |-> ampf])

(* The block that get_mpf_block returns. *)
next_block(o) == IF k.mpf[o].freelist # INDEX_NULL THEN k.mpf[o].freelist ELSE k.mpf[o].unused

get_mpf_block(o) ==
  LET b == next_block(o)
      d == k.mpf[o]
      n == IF d.freelist # INDEX_NULL THEN [d EXCEPT !.freelist = k.mpfmb[o][b]]
           ELSE [d EXCEPT !.unused = d.unused + 1]
  IN  [k EXCEPT !.mpf[o] = [n EXCEPT !.fblkcnt = d.fblkcnt - 1], !.mpfmb[o][b] = INDEX_ALLOC]

(* Without memory for the blocks or their table acre_mpf changes nothing. *)
acre_mpf(pk) ==
  /\ CHECK_TSKCTX_UNL /\ k.free_mpfcb # <<>>
  /\ LET o == Head(k.free_mpfcb)
     IN  k' = [create_obj(k, o, pk.mpfatr) EXCEPT
                 !.free_mpfcb = Tail(@), !.blkcnt[o] = pk.blkcnt,
                 !.mpfmb[o] = [b \in 0 .. pk.blkcnt - 1 |-> INDEX_NULL],
                 !.mpf[o] = NewPool(pk.blkcnt)]

del_mpf(o) ==
  /\ CHECK_TSKCTX_UNL /\ obj_exists(o) /\ o \in ToSet(ampf)
  /\ k' = t_leave([delete_obj(k, o) EXCEPT !.free_mpfcb = Append(@, o)])

(* get_mpf, and tget_mpf with a timeout > 0. *)
get_mpf(o, tmout) ==
  /\ CHECK_DISPATCH /\ obj_exists(o)
  /\ k' = IF k.mpf[o].fblkcnt > 0 THEN get_mpf_block(o) ELSE wait_with("MPF", o, tmout, NULL)

pget_mpf(o) == /\ CHECK_TSKCTX_UNL /\ obj_exists(o) /\ k.mpf[o].fblkcnt > 0
               /\ k' = get_mpf_block(o)

(* Fault: a block that is free already is accepted. *)
is_allocated_any(o, b) == b < k.mpf[o].unused

(* The checks of rel_mpf, without which it returns E_PAR. *)
is_allocated(o, b) == b < k.mpf[o].unused /\ k.mpfmb[o][b] = INDEX_ALLOC

release_block(o, b) ==
  LET d == k.mpf[o]
  IN  IF k.wait_queue[o] # <<>> THEN complete_head(k, o, b)
      ELSE [k EXCEPT !.mpf[o] = [d EXCEPT !.fblkcnt = d.fblkcnt + 1, !.freelist = b],
                     !.mpfmb[o][b] = d.freelist]

rel_mpf(o, b) == /\ CHECK_TSKCTX_UNL /\ obj_exists(o) /\ is_allocated(o, b)
                 /\ k' = t_leave(release_block(o, b))

ini_mpf(o) ==
  /\ CHECK_TSKCTX_UNL /\ obj_exists(o)
  /\ k' = t_leave([init_wait_queues(k, o) EXCEPT !.mpf[o] = NewPool(k.blkcnt[o])])

MpfCalls ==
  \/ \E pk \in CMpf : acre_mpf(pk)
  \/ \E o \in Mpf :
       \/ del_mpf(o) \/ ini_mpf(o) \/ pget_mpf(o)
       \/ \E b \in 0 .. k.blkcnt[o] - 1 : rel_mpf(o, b)
       \/ \E b \in BOOLEAN : get_mpf(o, b)

(* A memory pool as a channel of blocks, the last one released first. *)
MpfPar(o) == [cap |-> k.blkcnt[o], order |-> "LIFO",
              ini |-> [i \in 1 .. k.blkcnt[o] |-> i - 1]]
MpfBuf(o) == chain(k.mpf[o].freelist, k.mpfmb[o], INDEX_NULL)
             \o [i \in 1 .. k.blkcnt[o] - k.mpf[o].unused |-> k.mpf[o].unused + i - 1]

-----------------------------------------------------------------------------
(* A block is free or allocated, never both: the free blocks are those of  *)
(* the list, each once, and those never allocated; the others are marked   *)
(* INDEX_ALLOC; and fblkcnt is their number, so that a block is refused    *)
(* exactly when there is none.                                             *)
MpfBlocksOK ==
  \A o \in Mpf : obj_exists(o) =>
    LET q == MpfBuf(o)
    IN  /\ IsInjective(q) /\ Len(q) = k.mpf[o].fblkcnt
        /\ \A b \in 0 .. k.blkcnt[o] - 1 : 
             b \in ToSet(q) <=> b >= k.mpf[o].unused \/ k.mpfmb[o][b] # INDEX_ALLOC
=============================================================================
