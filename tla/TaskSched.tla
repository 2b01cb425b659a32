------------------------------ MODULE TaskSched ------------------------------
(***************************************************************************)
(* The scheduler of the TOPPERS/ASP kernel: kernel/task.c and the queue    *)
(* primitives of include/queue.h and kernel/wait.h that it uses.           *)
(*                                                                         *)
(* The kernel's global data is one record k whose fields carry the names   *)
(* of the source's variables (ready_queue, p_schedtsk, ...) and of the     *)
(* fields of the TCB (k.tstat[t], k.priority[t], ...).  A C function that  *)
(* changes the kernel's data is an operator from k to k, so that a service *)
(* call is the composition of the functions it calls, in its order.        *)
(*                                                                         *)
(* A function that returns "a dispatch is necessary" sets k.dspreq, which  *)
(* accumulates the results of one service call; the call itself decides    *)
(* what to do with it (dispatch, reqflg, or (void)).                       *)
(***************************************************************************)
EXTENDS Naturals, Sequences, FiniteSets, SequencesExt

CONSTANTS
  Task,       \* the tasks (the entries of tcb_table)
  TNUM_TPRI,  \* number of task priorities; 0 is the highest
  Wobj,       \* the synchronization objects with a WOBJCB
  NULL        \* the null pointer

ASSUME TnumTpriAssumption == TNUM_TPRI \in Nat \ {0}
ASSUME NullAssumption == NULL \notin Task

TPRI == 0 .. TNUM_TPRI - 1

(***************************************************************************)
(* tstat is a word of flags: the empty set is TS_DORMANT.  TSTAT_*         *)
(* predicates of task.h.                                                   *)
(***************************************************************************)
WobjcbKind == {"SEM", "FLG", "SDTQ", "SPDQ", "MBX", "MPF", "MTX"}  \* >= TS_WAIT_SEM
WobjKind == {"RDTQ", "RPDQ"} \cup WobjcbKind                       \* >= TS_WAIT_RDTQ
WaitKind == {"SLP", "DLY"} \cup WobjKind
TstatFlag == {"RUNNABLE", "WAITING", "SUSPENDED"} \cup WaitKind

TS_DORMANT == {}
TS_RUNNABLE == {"RUNNABLE"}
TS_SUSPENDED == {"SUSPENDED"}
TS_WAITING(kind) == {"WAITING", kind}

TSTAT_DORMANT(k, t) == k.tstat[t] = TS_DORMANT
TSTAT_RUNNABLE(k, t) == "RUNNABLE" \in k.tstat[t]
TSTAT_WAITING(k, t) == "WAITING" \in k.tstat[t]
TSTAT_SUSPENDED(k, t) == "SUSPENDED" \in k.tstat[t]
TSTAT_WAIT(k, t, kind) == kind \in k.tstat[t]
TSTAT_WAIT_WOBJ(k, t) == \E w \in WobjKind : TSTAT_WAIT(k, t, w)
TSTAT_WAIT_WOBJCB(k, t) == \E w \in WobjcbKind : TSTAT_WAIT(k, t, w)

-----------------------------------------------------------------------------
(***************************************************************************)
(* Queues (queue.h): a doubly linked list is the sequence of its entries.  *)
(* queue_insert_prev(head, e) appends, queue_insert_next(head, e) prepends.*)
(***************************************************************************)
queue_insert_prev(q, e) == Append(q, e)
queue_insert_next(q, e) == <<e>> \o q
queue_delete(q, e) == LET i == CHOOSE j \in 1 .. Len(q) : q[j] = e
                      IN  [j \in 1 .. Len(q) - 1 |-> IF j < i THEN q[j] ELSE q[j + 1]]

(* Insertion before the first entry whose priority is lower than t's. *)
queue_insert_tpri(k, q, t) ==
  LET later == {i \in 1 .. Len(q) : k.priority[t] < k.priority[q[i]]}
      i     == IF later = {} THEN Len(q) + 1
               ELSE CHOOSE j \in later : \A m \in later : j <= m
  IN  SubSeq(q, 1, i - 1) \o <<t>> \o SubSeq(q, i, Len(q))

(* An object whose wait queue is in task priority order; TA_CEILING has    *)
(* the TA_TPRI bit, and so has TA_NOEXS, which has every bit.              *)
TA_TPRI(k, o) == k.wobjatr[o] \in {"TA_TPRI", "TA_CEILING", "TA_NOEXS"}

wobj_change_priority(k, o, t) ==
  IF TA_TPRI(k, o)
  THEN [k EXCEPT !.wait_queue[o] = queue_insert_tpri(k, queue_delete(@, t), t)]
  ELSE k

-----------------------------------------------------------------------------
(***************************************************************************)
(* The ready queue.  ready_primap is the set of the bits that are 1.       *)
(***************************************************************************)
primap_search(k) == CHOOSE p \in k.ready_primap : \A q \in k.ready_primap : p <= q

search_schedtsk(k) == Head(k.ready_queue[primap_search(k)])

(* Fault: a task of the same priority becomes p_schedtsk. *)
make_runnable_le(k, t) ==
  LET pri == k.priority[t]
      top == k.p_schedtsk = NULL \/ pri <= k.priority[k.p_schedtsk]
  IN  [k EXCEPT !.ready_queue[pri] = queue_insert_prev(@, t),
                !.ready_primap = @ \cup {pri},
                !.p_schedtsk = IF top THEN t ELSE @,
                !.dspreq = @ \/ (top /\ k.dspflg)]

make_runnable(k, t) ==
  LET pri == k.priority[t]
      top == k.p_schedtsk = NULL \/ pri < k.priority[k.p_schedtsk]
  IN  [k EXCEPT !.ready_queue[pri] = queue_insert_prev(@, t),
                !.ready_primap = @ \cup {pri},
                !.p_schedtsk = IF top THEN t ELSE @,
                !.dspreq = @ \/ (top /\ k.dspflg)]

(* Fault: the bit of an empty queue stays set. *)
ready_delete_bit(k, t, pri) == [k EXCEPT !.ready_queue[pri] = queue_delete(@, t)]

(* t leaves the ready queue of priority pri, whose bit is cleared when it  *)
(* becomes empty.                                                          *)
ready_delete(k, t, pri) ==
  LET rest == queue_delete(k.ready_queue[pri], t)
  IN  [k EXCEPT !.ready_queue[pri] = rest,
                !.ready_primap = IF rest = <<>> THEN @ \ {pri} ELSE @]

make_non_runnable(k, t) ==
  LET pri == k.priority[t]
      k1  == ready_delete(k, t, pri)
  IN  IF k.p_schedtsk # t
      THEN k1
      ELSE [k1 EXCEPT !.p_schedtsk =
                        IF k1.ready_queue[pri] # <<>> THEN Head(k1.ready_queue[pri])
                        ELSE IF k1.ready_primap = {} THEN NULL
                        ELSE search_schedtsk(k1),
                      !.dspreq = @ \/ k.dspflg]

(* Fault: queued wakeup requests survive the end of the task. *)
make_dormant_wup(k, t) ==
  [k EXCEPT !.tstat[t] = TS_DORMANT,
            !.bpriority[t] = k.ipriority[t],
            !.priority[t] = k.ipriority[t]]

make_dormant(k, t) ==
  [k EXCEPT !.tstat[t] = TS_DORMANT,
            !.bpriority[t] = k.ipriority[t],
            !.priority[t] = k.ipriority[t],
            !.wupque[t] = FALSE]

(* The task restarts at start_r with an empty stack: the local variables   *)
(* of the service call it was in are gone.                                 *)
activate_context(k, t) == [k EXCEPT !.winfo[t] = "none", !.newbpri[t] = NULL]

make_active(k, t) ==
  make_runnable([activate_context(k, t) EXCEPT !.tstat[t] = TS_RUNNABLE], t)

(* Fault: the task goes to the head of the queue also for chg_pri. *)
change_ready_head(k, t, newpri, mtxmode) ==
  LET oldpri == k.priority[t]
      k1 == ready_delete([k EXCEPT !.priority[t] = newpri], t, oldpri)
      k2 == [k1 EXCEPT !.ready_queue[newpri] = queue_insert_next(@, t),
                       !.ready_primap = @ \cup {newpri}]
  IN  [k2 EXCEPT !.p_schedtsk = search_schedtsk(k2),
                 !.dspreq = @ \/ (search_schedtsk(k2) # k.p_schedtsk /\ k.dspflg)]

(* Fault: a task that overtakes p_schedtsk is not reported. *)
change_ready_silent(k, t, newpri, mtxmode) ==
  LET k1 == ready_delete([k EXCEPT !.priority[t] = newpri], t, k.priority[t])
      k2 == [k1 EXCEPT !.ready_queue[newpri] = IF mtxmode THEN queue_insert_next(@, t)
                                               ELSE queue_insert_prev(@, t),
                       !.ready_primap = @ \cup {newpri}]
      sched == search_schedtsk(k2)
  IN  [k2 EXCEPT !.p_schedtsk = sched,
                 !.dspreq = @ \/ (k.p_schedtsk = t /\ sched # t /\ k.dspflg)]

(* Fault: at the priority of p_schedtsk, the new head does not replace it. *)
change_ready_lt(k, t, newpri, mtxmode) ==
  LET oldpri == k.priority[t]
      k1 == ready_delete([k EXCEPT !.priority[t] = newpri], t, oldpri)
      k2 == [k1 EXCEPT !.ready_queue[newpri] = IF mtxmode THEN queue_insert_next(@, t)
                                               ELSE queue_insert_prev(@, t),
                       !.ready_primap = @ \cup {newpri}]
      sched == IF k.p_schedtsk = t
               THEN IF newpri >= oldpri THEN search_schedtsk(k2) ELSE t
               ELSE IF newpri < k2.priority[k.p_schedtsk] THEN t ELSE k.p_schedtsk
  IN  [k2 EXCEPT !.p_schedtsk = sched,
                 !.dspreq = @ \/ (sched # k.p_schedtsk /\ k.dspflg)]

(* A runnable task moves to the queue of its new priority, to its head in  *)
(* mtxmode.                                                                *)
change_ready(k, t, newpri, mtxmode) ==
  LET oldpri == k.priority[t]
      k1 == ready_delete([k EXCEPT !.priority[t] = newpri], t, oldpri)
      k2 == [k1 EXCEPT !.ready_queue[newpri] = IF mtxmode THEN queue_insert_next(@, t)
                                               ELSE queue_insert_prev(@, t),
                       !.ready_primap = @ \cup {newpri}]
      schedpri == k2.priority[k.p_schedtsk]
      overtakes == IF mtxmode THEN newpri <= schedpri ELSE newpri < schedpri
      sched == IF k.p_schedtsk = t
               THEN IF newpri >= oldpri THEN search_schedtsk(k2) ELSE t
               ELSE IF overtakes THEN t ELSE k.p_schedtsk
  IN  [k2 EXCEPT !.p_schedtsk = sched,
                 !.dspreq = @ \/ (sched # k.p_schedtsk /\ k.dspflg)]

(* Fault: a waiting task keeps its place in the wait queue. *)
change_priority_stay(k, t, newpri, mtxmode) ==
  IF TSTAT_RUNNABLE(k, t) THEN change_ready(k, t, newpri, mtxmode)
  ELSE [k EXCEPT !.priority[t] = newpri]

change_priority(k, t, newpri, mtxmode) ==
  IF TSTAT_RUNNABLE(k, t)
  THEN change_ready(k, t, newpri, mtxmode)
  ELSE LET k1 == [k EXCEPT !.priority[t] = newpri]
       IN  IF TSTAT_WAIT_WOBJCB(k, t) THEN wobj_change_priority(k1, k.p_wobjcb[t], t) ELSE k1

rotate_ready_queue(k, pri) ==
  LET q == k.ready_queue[pri]
      r == queue_insert_prev(Tail(q), Head(q))
  IN  IF Len(q) < 2
      THEN k
      ELSE [k EXCEPT !.ready_queue[pri] = r,
                     !.p_schedtsk = IF @ = Head(q) THEN Head(r) ELSE @,
                     !.dspreq = @ \/ (k.p_schedtsk = Head(q) /\ k.dspflg)]
-----------------------------------------------------------------------------
(***************************************************************************)
(* What the scheduler's data must satisfy between service calls.           *)
(***************************************************************************)
SchedType(k) ==
  /\ {"tstat", "priority", "ready_queue", "ready_primap", "p_schedtsk", "dspflg",
      "dspreq"} \subseteq DOMAIN k
  /\ k.tstat \in [Task -> SUBSET TstatFlag]
  /\ k.priority \in [Task -> TPRI]
  /\ k.ready_queue \in [TPRI -> Seq(Task)]
  /\ k.ready_primap \in SUBSET TPRI
  /\ k.p_schedtsk \in Task \cup {NULL}
  /\ k.dspflg \in BOOLEAN
  /\ k.dspreq \in BOOLEAN

Runnable(k) == {t \in Task : TSTAT_RUNNABLE(k, t)}

(* The ready queue holds the tasks of R, each exactly once, in the queue   *)
(* of its priority, and the bit map marks the non-empty queues.            *)
ReadyQueueOK(k, R) ==
  /\ \A p \in TPRI : \A i \in 1 .. Len(k.ready_queue[p]) :
       k.ready_queue[p][i] \in R /\ k.priority[k.ready_queue[p][i]] = p
  /\ \A p \in TPRI : \A i, j \in 1 .. Len(k.ready_queue[p]) :
       k.ready_queue[p][i] = k.ready_queue[p][j] => i = j
  /\ \A t \in R : \E i \in 1 .. Len(k.ready_queue[k.priority[t]]) :
       k.ready_queue[k.priority[t]][i] = t
  /\ \A p \in TPRI : p \in k.ready_primap <=> k.ready_queue[p] # <<>>

(* p_schedtsk is the head of the highest-priority non-empty ready queue. *)
SchedtskOK(k) ==
  /\ k.p_schedtsk = NULL <=> k.ready_primap = {}
  /\ k.p_schedtsk # NULL =>
       /\ k.priority[k.p_schedtsk] \in k.ready_primap
       /\ k.p_schedtsk = Head(k.ready_queue[k.priority[k.p_schedtsk]])
       /\ \A q \in k.ready_primap : k.priority[k.p_schedtsk] <= q
=============================================================================
