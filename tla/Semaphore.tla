----------------------------- MODULE Semaphore ------------------------------
(***************************************************************************)
(* Semaphores: kernel/semaphore.c.                                         *)
(***************************************************************************)
EXTENDS WaitObj

CONSTANTS
  Sem,     \* the semaphores
  asem,    \* those for dynamic creation, in table order
  seminib, \* attribute, initial and maximum count of the others
  CSem     \* the packets T_CSEM with which acre_sem is called

(* The configurator and acre_sem check isemcnt <= maxsem and maxsem >= 1. *)
ASSUME SemAssumption ==
  /\ Sem \subseteq Wobj /\ asem \in Seq(Sem) /\ IsInjective(asem)
  /\ CSem \cup {seminib[o] : o \in Sem \ ToSet(asem)}
       \subseteq [sematr : {"TA_NULL", "TA_TPRI"}, isemcnt : Nat, maxsem : Nat \ {0}]
  /\ \A c \in CSem : c.isemcnt <= c.maxsem

initialize_semaphore(k1) ==
  LET inib(o) == IF o \in ToSet(asem) THEN [sematr |-> "TA_NOEXS", isemcnt |-> 0, maxsem |-> 0]
                 ELSE seminib[o]
  IN  extend(k1, [wobjatr    |-> extend(k1.wobjatr, [o \in Sem |-> inib(o).sematr]),
                  semcnt     |-> [o \in Sem |-> inib(o).isemcnt],
                  isemcnt    |-> [o \in Sem |-> inib(o).isemcnt],
                  maxsem     |-> [o \in Sem |-> inib(o).maxsem],
                  free_semcb |-> asem])

acre_sem(pk) ==
  /\ CHECK_TSKCTX_UNL /\ k.free_semcb # <<>>
  /\ LET o == Head(k.free_semcb)
     IN  k' = [create_obj(k, o, pk.sematr) EXCEPT
                 !.free_semcb = Tail(@), !.semcnt[o] = pk.isemcnt,
                 !.isemcnt[o] = pk.isemcnt, !.maxsem[o] = pk.maxsem]

(* Fault: no dispatch after the waiting tasks are released. *)
del_sem_silent(o) ==
  /\ CHECK_TSKCTX_UNL /\ obj_exists(o) /\ o \in ToSet(asem)
  /\ k' = Void(k, [delete_obj(k, o) EXCEPT !.free_semcb = Append(@, o)])

del_sem(o) ==
  /\ CHECK_TSKCTX_UNL /\ obj_exists(o) /\ o \in ToSet(asem)
  /\ k' = t_leave([delete_obj(k, o) EXCEPT !.free_semcb = Append(@, o)])

(* The body of sig_sem and isig_sem, without the error E_QOVR. *)
signal_sem(o) ==
  IF k.wait_queue[o] # <<>> THEN complete_head(k, o, NULL)
  ELSE [k EXCEPT !.semcnt[o] = @ + 1]

can_signal(o) == obj_exists(o) /\ (k.wait_queue[o] # <<>> \/ k.semcnt[o] < k.maxsem[o])

sig_sem(o) == CHECK_TSKCTX_UNL /\ can_signal(o) /\ k' = t_leave(signal_sem(o))
isig_sem(o) == CHECK_INTCTX_UNL /\ can_signal(o) /\ k' = i_leave(signal_sem(o))

(* wai_sem, and twai_sem with a timeout > 0. *)
wai_sem(o, tmout) ==
  /\ CHECK_DISPATCH /\ obj_exists(o)
  /\ k' = IF k.semcnt[o] >= 1 THEN [k EXCEPT !.semcnt[o] = @ - 1]
          ELSE wait_with("SEM", o, tmout, NULL)

pol_sem(o) ==
  /\ CHECK_TSKCTX_UNL /\ obj_exists(o) /\ k.semcnt[o] >= 1
  /\ k' = [k EXCEPT !.semcnt[o] = @ - 1]

ini_sem(o) ==
  /\ CHECK_TSKCTX_UNL /\ obj_exists(o)
  /\ k' = t_leave([init_wait_queue(k, o) EXCEPT !.semcnt[o] = k.isemcnt[o]])

SemCalls ==
  \/ \E pk \in CSem : acre_sem(pk)
  \/ \E o \in Sem : \/ del_sem(o) \/ sig_sem(o) \/ isig_sem(o) \/ pol_sem(o) \/ ini_sem(o)
                    \/ \E b \in BOOLEAN : wai_sem(o, b)

(* A semaphore as a channel of identical resources. *)
SemItem == "resource"
SemPar(o) == [cap |-> k.maxsem[o], order |-> "FIFO",
              ini |-> [i \in 1 .. k.isemcnt[o] |-> SemItem]]
SemBuf(o) == [i \in 1 .. k.semcnt[o] |-> SemItem]
=============================================================================
