---------------------------- MODULE PriDataQueue ----------------------------
(***************************************************************************)
(* Priority data queues: kernel/pridataq.c.  The buffer is a table of      *)
(* pdqcnt[o] blocks (PDQMB).  A block is in the list of the data, p_head,  *)
(* in the list p_freelist, or has an index >= unused.  The lists, linked   *)
(* by p_next, are sequences of block indexes; pdqmb[o][b] is the datum of  *)
(* a block, with its priority.                                             *)
(***************************************************************************)
EXTENDS WaitObj

CONSTANTS
  Pdq,     \* the priority data queues
  apdq,    \* those for dynamic creation, in table order
  pdqinib, \* attribute, size and maximum priority of the others
  CPdq,    \* the packets T_CPDQ with which acre_pdq is called
  PdqData  \* the data, records with a field pri

ASSUME PdqAssumption ==
  /\ Pdq \subseteq Wobj /\ apdq \in Seq(Pdq) /\ IsInjective(apdq) /\ Pdq \subseteq DOMAIN rwait
  /\ CPdq \cup {pdqinib[o] : o \in Pdq \ ToSet(apdq)}
       \subseteq [pdqatr : {"TA_NULL", "TA_TPRI"}, pdqcnt : Nat, maxdpri : Nat \ {0}]
  /\ \A d \in PdqData : d.pri \in Nat \ {0}

NoPdqData == [count |-> 0, p_head |-> <<>>, unused |-> 0, p_freelist |-> <<>>]

initialize_pridataq(k1) ==
  LET inib(o) == IF o \in ToSet(apdq) THEN [pdqatr |-> "TA_NOEXS", pdqcnt |-> 0, maxdpri |-> 0]
                 ELSE pdqinib[o]
  IN  extend(k1, [wobjatr    |-> extend(k1.wobjatr, [o \in Pdq |-> inib(o).pdqatr]),
                  pdqcnt     |-> [o \in Pdq |-> inib(o).pdqcnt],
                  maxdpri    |-> [o \in Pdq |-> inib(o).maxdpri],
                  pdqmb      |-> [o \in Pdq |-> [b \in 0 .. inib(o).pdqcnt - 1 |-> NULL]],
                  pdq        |-> [o \in Pdq |-> NoPdqData],
                  free_pdqcb |-> apdq])

(* The place of a datum of priority pri: before the first one of a lower   *)
(* priority.                                                               *)
place(k1, o, pri) ==
  LET q     == k1.pdq[o].p_head
      later == {i \in 1 .. Len(q) : k1.pdqmb[o][q[i]].pri > pri}
  IN  IF later = {} THEN Len(q) + 1 ELSE CHOOSE i \in later : \A j \in later : i <= j

enqueue_pridata(k1, o, data) ==
  LET d    == k1.pdq[o]
      free == d.p_freelist # <<>>
      b    == IF free THEN Head(d.p_freelist) ELSE d.unused
  IN  [k1 EXCEPT !.pdqmb[o][b] = data,
                 !.pdq[o] = [count      |-> d.count + 1,
                             p_head     |-> InsertAt(d.p_head, place(k1, o, data.pri), b),
                             unused     |-> IF free THEN d.unused ELSE d.unused + 1,
                             p_freelist |-> IF free THEN Tail(d.p_freelist) ELSE <<>>]]

(* Fault: the block is not returned to the free list. *)
dequeue_pridata_leak(k1, o) ==
  LET d == k1.pdq[o]
  IN  [k1 EXCEPT !.pdq[o] = [d EXCEPT !.count = d.count - 1, !.p_head = Tail(d.p_head)]]

dequeue_pridata(k1, o) ==
  LET d == k1.pdq[o]
  IN  [k1 EXCEPT !.pdq[o] = [d EXCEPT !.count = d.count - 1, !.p_head = Tail(d.p_head),
                                      !.p_freelist = <<Head(d.p_head)>> \o d.p_freelist]]

can_send_pri(o) == k.wait_queue[rwait[o]] # <<>> \/ k.pdq[o].count < k.pdqcnt[o]
send_pridata(o, data) ==
  IF k.wait_queue[rwait[o]] # <<>> THEN complete_head(k, rwait[o], data)
  ELSE enqueue_pridata(k, o, data)

can_receive_pri(o) == k.pdq[o].count > 0 \/ k.wait_queue[o] # <<>>
receive_pridata(o) ==
  LET sender == k.winfo_data[Head(k.wait_queue[o])]
      k1 == IF k.pdq[o].count > 0 THEN dequeue_pridata(k, o) ELSE k
      k2 == IF k.pdq[o].count > 0 THEN enqueue_pridata(k1, o, sender) ELSE k1
  IN  IF k.wait_queue[o] # <<>> THEN complete_head(k2, o, NULL) ELSE k1

-----------------------------------------------------------------------------
acre_pdq(pk) ==
  /\ CHECK_TSKCTX_UNL /\ k.free_pdqcb # <<>>
  /\ LET o == Head(k.free_pdqcb)
     IN  k' = [create_obj(k, o, pk.pdqatr) EXCEPT
                 !.free_pdqcb = Tail(@), !.pdqcnt[o] = pk.pdqcnt, !.maxdpri[o] = pk.maxdpri,
                 !.pdqmb[o] = [b \in 0 .. pk.pdqcnt - 1 |-> NULL], !.pdq[o] = NoPdqData]

del_pdq(o) ==
  /\ CHECK_TSKCTX_UNL /\ obj_exists(o) /\ o \in ToSet(apdq)
  /\ k' = t_leave([delete_obj(k, o) EXCEPT !.free_pdqcb = Append(@, o)])

(* Not E_NOEXS or E_PAR. *)
may_send(o, data) == obj_exists(o) /\ data.pri <= k.maxdpri[o]

(* snd_pdq, and tsnd_pdq with a timeout > 0. *)
snd_pdq(o, data, tmout) ==
  /\ CHECK_DISPATCH /\ may_send(o, data)
  /\ k' = IF can_send_pri(o) THEN t_leave(send_pridata(o, data))
          ELSE wait_with("SPDQ", o, tmout, data)

psnd_pdq(o, data) == /\ CHECK_TSKCTX_UNL /\ may_send(o, data) /\ can_send_pri(o)
                     /\ k' = t_leave(send_pridata(o, data))
ipsnd_pdq(o, data) == /\ CHECK_INTCTX_UNL /\ may_send(o, data) /\ can_send_pri(o)
                      /\ k' = i_leave(send_pridata(o, data))

(* rcv_pdq, and trcv_pdq with a timeout > 0. *)
rcv_pdq(o, tmout) ==
  /\ CHECK_DISPATCH /\ obj_exists(o)
  /\ k' = IF can_receive_pri(o) THEN t_leave(receive_pridata(o))
          ELSE wait_with("RPDQ", rwait[o], tmout, NULL)

prcv_pdq(o) == /\ CHECK_TSKCTX_UNL /\ obj_exists(o) /\ can_receive_pri(o)
               /\ k' = t_leave(receive_pridata(o))

ini_pdq(o) ==
  /\ CHECK_TSKCTX_UNL /\ obj_exists(o)
  /\ k' = t_leave([init_wait_queues(k, o) EXCEPT !.pdq[o] = NoPdqData])

PdqCalls ==
  \/ \E pk \in CPdq : acre_pdq(pk)
  \/ \E o \in Pdq :
       \/ del_pdq(o) \/ ini_pdq(o) \/ prcv_pdq(o)
       \/ \E d \in PdqData : psnd_pdq(o, d) \/ ipsnd_pdq(o, d)
       \/ \E b \in BOOLEAN : rcv_pdq(o, b) \/ \E d \in PdqData : snd_pdq(o, d, b)

(* A priority data queue as a channel. *)
PdqPar(o) == [cap |-> k.pdqcnt[o], order |-> "PRI", ini |-> <<>>]
PdqBuf(o) == [i \in 1 .. Len(k.pdq[o].p_head) |-> k.pdqmb[o][k.pdq[o].p_head[i]]]

-----------------------------------------------------------------------------
(* No block of the buffer is lost or in use twice, whatever the order in   *)
(* which data come and go: the blocks below unused are in exactly one of   *)
(* the two lists, count is the number of data, and a block that is taken   *)
(* from the table is inside it.                                            *)
PdqBlocksOK ==
  \A o \in Pdq : LET d == k.pdq[o]
                     l == d.p_head \o d.p_freelist
                 IN  /\ IsInjective(l) /\ ToSet(l) = 0 .. d.unused - 1
                     /\ Len(d.p_head) = d.count /\ d.unused <= k.pdqcnt[o]
=============================================================================
