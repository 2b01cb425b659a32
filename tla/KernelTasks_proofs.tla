------------------------- MODULE KernelTasks_proofs ------------------------
(***************************************************************************)
(* The life of a task and the order of the ready tasks, for every          *)
(* configuration: DormantOK and PrecedenceStable as theorems.              *)
(*                                                                         *)
(* Life(x, S, a, f) says that the dormant tasks of S have their initial    *)
(* values, that the attributes of the tasks are a and the free list is f.  *)
(* A function that neither creates nor deletes a task preserves it for     *)
(* the a and f it finds; a service call is a chain of such functions, and  *)
(* between make_non_runnable and make_dormant the task that ends is        *)
(* outside S.                                                              *)
(***************************************************************************)
EXTENDS Kernel_proofs

LifeType(x) ==
  /\ {"tstat", "priority", "bpriority", "ipriority", "wupque", "actque", "tskatr",
      "free_tcb"} \subseteq DOMAIN x
  /\ DOMAIN x.tstat = Task /\ DOMAIN x.priority = Task /\ DOMAIN x.bpriority = Task
  /\ DOMAIN x.ipriority = Task /\ DOMAIN x.wupque = Task /\ DOMAIN x.actque = Task

Settled(x, t) ==
  /\ x.priority[t] = x.ipriority[t] /\ x.bpriority[t] = x.ipriority[t]
  /\ ~x.wupque[t] /\ ~x.actque[t]

Life(x, S, a, f) ==
  /\ LifeType(x) /\ x.tskatr = a /\ x.free_tcb = f
  /\ \A t \in S : x.tstat[t] = {} => Settled(x, t)

(* The free list is exactly the tasks that do not exist. *)
ListOK(a, f) == \A t \in Task : a[t] = "TA_NOEXS" <=> t \in Range(f)

LifeOK(x) == Life(x, Task, x.tskatr, x.free_tcb) /\ ListOK(x.tskatr, x.free_tcb)

(* The functions of the ready queue change no field of Life, but for the   *)
(* priority of a task that is not dormant.                                 *)
LEMMA LifeReady ==
  ASSUME NEW S, NEW a, NEW f, NEW j, Life(j, S, a, f), NEW t, NEW p
  PROVE  /\ Life(make_runnable(j, t), S, a, f) /\ Life(make_non_runnable(j, t), S, a, f)
         /\ Life(rotate_ready_queue(j, p), S, a, f)
<1>1. Life(make_runnable(j, t), S, a, f) /\ Life(rotate_ready_queue(j, p), S, a, f)
  BY DEF Life, LifeType, Settled, make_runnable, rotate_ready_queue
<1>2. Life(make_non_runnable(j, t), S, a, f)
  BY DEF Life, LifeType, Settled, make_non_runnable, ready_delete
<1> QED BY <1>1, <1>2

(* change_priority of a task that is not dormant leaves the dormant ones   *)
(* alone.                                                                  *)
LEMMA LifePriority ==
  ASSUME NEW S, NEW a, NEW f, NEW j, Life(j, S, a, f), NEW t, NEW p, NEW mode,
         j.tstat[t] # {}
  PROVE  Life(change_priority(j, t, p, mode), S, a, f)
<1>1. Life([j EXCEPT !.priority[t] = p], S, a, f)
  BY DEF Life, LifeType, Settled
<1>2. PICK y : y = [j EXCEPT !.priority[t] = p]
  OBVIOUS
<1>3. Life(change_ready(j, t, p, mode), S, a, f)
  <2>1. PICK d : d = ready_delete(y, t, j.priority[t])
    OBVIOUS
  <2>2. Life(d, S, a, f)
    BY <1>1, <1>2, <2>1 DEF Life, LifeType, Settled, ready_delete
  <2>3. PICK e : e = [d EXCEPT !.ready_queue[p] = IF mode THEN queue_insert_next(@, t)
                                                  ELSE queue_insert_prev(@, t),
                               !.ready_primap = @ \cup {p}]
    OBVIOUS
  <2>4. Life(e, S, a, f)
    BY <2>2, <2>3 DEF Life, LifeType, Settled
  <2>5. PICK s, b : change_ready(j, t, p, mode) = [e EXCEPT !.p_schedtsk = s, !.dspreq = b]
    BY <1>2, <2>1, <2>3, ZenonT(60) DEF change_ready
  <2> QED BY <2>4, <2>5 DEF Life, LifeType, Settled
<1>4. ASSUME NEW o PROVE Life(wobj_change_priority(y, o, t), S, a, f)
  BY <1>1, <1>2 DEF Life, LifeType, Settled, wobj_change_priority
<1> QED BY <1>1, <1>2, <1>3, <1>4 DEF change_priority

(* A task that becomes dormant has its initial values. *)
LEMMA LifeTask ==
  ASSUME NEW a, NEW f, NEW j, NEW t \in Task, Life(j, Task \ {t}, a, f)
  PROVE  /\ Life(make_dormant(j, t), Task \ {t}, a, f)
         /\ make_dormant(j, t).actque = j.actque
         /\ ~j.actque[t] => Life(make_dormant(j, t), Task, a, f)
         /\ Life(make_active(j, t), Task, a, f)
<1>1. Life(make_dormant(j, t), Task \ {t}, a, f) /\ make_dormant(j, t).actque = j.actque
  BY DEF Life, LifeType, Settled, make_dormant
<1>2. ASSUME ~j.actque[t] PROVE Life(make_dormant(j, t), Task, a, f)
  BY <1>2 DEF Life, LifeType, Settled, make_dormant, TS_DORMANT
<1>3. Life([activate_context(j, t) EXCEPT !.tstat[t] = TS_RUNNABLE], Task, a, f)
  BY DEF Life, LifeType, Settled, activate_context, TS_RUNNABLE
<1>4. Life(make_active(j, t), Task, a, f)
  BY <1>3, LifeReady DEF make_active
<1> QED BY <1>1, <1>2, <1>4

(* The functions of kernel/wait.c. *)
LEMMA LifeWait ==
  ASSUME NEW S, NEW a, NEW f, NEW j, Life(j, S, a, f), NEW t, NEW e
  PROVE  /\ Life(wait_dequeue_wobj(j, t), S, a, f) /\ Life(wait_dequeue_tmevtb(j, t), S, a, f)
         /\ Life(set_wercd(j, t, e), S, a, f)
         /\ Life(make_non_wait(j, t), S, a, f)
         /\ Life(wait_complete(j, t), S, a, f) /\ Life(wait_release(j, t), S, a, f)
         /\ Life(wait_tmout(j, t), S, a, f) /\ Life(wait_tmout_ok(j, t), S, a, f)
<1>1. ASSUME NEW y, Life(y, S, a, f)
      PROVE  /\ Life(wait_dequeue_wobj(y, t), S, a, f)
             /\ Life(wait_dequeue_tmevtb(y, t), S, a, f)
  BY <1>1 DEF Life, LifeType, Settled, wait_dequeue_wobj, wait_dequeue_tmevtb
<1>2. ASSUME NEW y, Life(y, S, a, f), NEW w
      PROVE  Life(set_wercd(y, t, w), S, a, f)
  BY <1>2 DEF Life, LifeType, Settled, set_wercd
<1>3. ASSUME NEW y, Life(y, S, a, f)
      PROVE  Life(make_non_wait(y, t), S, a, f)
  <2>1. /\ Life([y EXCEPT !.tstat[t] = TS_SUSPENDED], S, a, f)
        /\ Life([y EXCEPT !.tstat[t] = TS_RUNNABLE], S, a, f)
    BY <1>3 DEF Life, LifeType, Settled, TS_SUSPENDED, TS_RUNNABLE
  <2> QED BY <2>1, LifeReady DEF make_non_wait
<1> QED BY <1>1, <1>2, <1>3 DEF wait_complete, wait_release, wait_tmout, wait_tmout_ok

(* The dispatcher and the ends of the service calls. *)
LEMMA LifeLeave ==
  ASSUME NEW S, NEW a, NEW f, NEW j, Life(j, S, a, f), NEW i, NEW x
  PROVE  /\ Life(dispatcher(j), S, a, f) /\ Life(t_leave(j), S, a, f)
         /\ Life(i_leave(j), S, a, f) /\ Life(Void(i, j), S, a, f)
         /\ Life(enable_dispatch(j), S, a, f)
         /\ Life(make_wait(j), S, a, f) /\ Life(make_wait_tmevtb(j, x), S, a, f)
<1>1. ASSUME NEW y, Life(y, S, a, f)
      PROVE  /\ Life(dispatcher(y), S, a, f) /\ Life(t_leave(y), S, a, f)
             /\ Life(i_leave(y), S, a, f) /\ Life(Void(i, y), S, a, f)
  BY <1>1 DEF Life, LifeType, Settled, dispatcher, t_leave, i_leave, Void
<1>2. Life([j EXCEPT !.dspflg = TRUE], S, a, f)
  BY DEF Life, LifeType, Settled
<1>3. Life(enable_dispatch(j), S, a, f)
  BY <1>1, <1>2 DEF enable_dispatch
<1>4. Life(make_non_runnable(j, j.p_runtsk), S, a, f)
  BY LifeReady
<1>5. Life(Void(j, make_non_runnable(j, j.p_runtsk)), S, a, f)
  BY <1>4 DEF Life, LifeType, Settled, Void
<1>6. Life(make_wait(j), S, a, f) /\ Life(make_wait_tmevtb(j, x), S, a, f)
  BY <1>5 DEF Life, LifeType, Settled, make_wait, make_wait_tmevtb
<1> QED BY <1>1, <1>3, <1>6

(* end_task without mutexes: a task that stays dormant has no queued       *)
(* activation request.                                                     *)
LEMMA LifeEnd ==
  ASSUME NEW a, NEW f, NEW j, NEW t \in Task, Life(j, Task \ {t}, a, f), NoMutex(j)
  PROVE  Life(end_task(j, t), Task, a, f)
<1>1. PICK d : d = make_dormant(j, t)
  OBVIOUS
<1>2. end_task(j, t) = IF d.actque[t] THEN make_active([d EXCEPT !.actque[t] = FALSE], t)
                       ELSE d
  BY <1>1, NoMutexEnd
<1>3. /\ Life(d, Task \ {t}, a, f) /\ d.actque = j.actque
      /\ ~j.actque[t] => Life(d, Task, a, f)
  BY <1>1, LifeTask
<1>4. Life([d EXCEPT !.actque[t] = FALSE], Task \ {t}, a, f)
  BY <1>3 DEF Life, LifeType, Settled
<1>5. Life(make_active([d EXCEPT !.actque[t] = FALSE], t), Task, a, f)
  BY <1>4, LifeTask
<1> QED BY <1>2, <1>3, <1>5

(* chg_pri changes the priority of a task that is not dormant. *)
LEMMA LifeChgPri ==
  ASSUME NEW a, NEW f, NEW j, Life(j, Task, a, f), NoMutex(j), NEW t \in Task, NEW p
  PROVE  Life(chg_pri_locked(j, t, p), Task, a, f)
<1>1. j.mutex_queue[t] = <<>>
  BY DEF NoMutex
<1>2. CASE j.tstat[t] = {}
  <2>1. chg_pri_locked(j, t, p) = j
    BY <1>1, <1>2 DEF chg_pri_locked, TSTAT_DORMANT, TS_DORMANT
  <2> QED BY <2>1
<1>3. CASE j.tstat[t] # {}
  <2>1. PICK y : y = [j EXCEPT !.bpriority[t] = p]
    OBVIOUS
  <2>2. Life(y, Task, a, f) /\ y.tstat[t] # {}
    BY <1>3, <2>1 DEF Life, LifeType, Settled
  <2>3. Life(t_leave(change_priority(y, t, p, FALSE)), Task, a, f)
    BY <2>2, LifePriority, LifeLeave
  <2> QED BY <2>1, <2>3, NoMutexChgPri
<1> QED BY <1>2, <1>3

-----------------------------------------------------------------------------
(* acre_tsk takes the first TCB of the free list and gives it its initial  *)
(* values.                                                                 *)
LEMMA LifeCreate ==
  ASSUME IInv(k), LifeOK(k), NEW p \in TPRI, NEW b \in BOOLEAN, acre_tsk(p, b)
  PROVE  LifeOK(k')
<1>1. /\ Static(k) /\ k.free_tcb # <<>> /\ k.free_tcb \in Seq(Task)
      /\ k.tskatr \in [Task -> {"TA_NULL", "TA_NOEXS"}]
  BY DEF acre_tsk, IInv, Static, Data
<1>2. PICK t \in Task : t = Head(k.free_tcb)
  BY <1>1
<1>3. PICK a : a = [k.tskatr EXCEPT ![t] = "TA_NULL"]
  OBVIOUS
<1>4. PICK f : f = Tail(k.free_tcb)
  OBVIOUS
<1>5. PICK y : y = [k EXCEPT !.free_tcb = Tail(@), !.tskatr[t] = "TA_NULL",
                             !.ipriority[t] = p, !.actque[t] = FALSE,
                             !.mutex_queue[t] = <<>>]
  OBVIOUS
<1>6. Life(y, Task \ {t}, a, f) /\ ~y.actque[t]
  BY <1>3, <1>4, <1>5 DEF LifeOK, Life, LifeType, Settled
<1>7. k' = t_leave(IF b THEN make_active(make_dormant(y, t), t) ELSE make_dormant(y, t))
  BY <1>2, <1>5 DEF acre_tsk
<1>8. Life(k', Task, a, f)
  <2> HIDE <1>2, <1>3, <1>4, <1>5
  <2>1. Life(make_dormant(y, t), Task, a, f) /\ Life(make_dormant(y, t), Task \ {t}, a, f)
    BY <1>6, LifeTask
  <2>2. Life(make_active(make_dormant(y, t), t), Task, a, f)
    BY <2>1, LifeTask
  <2> QED BY <1>7, <2>1, <2>2, LifeLeave
<1>9. ListOK(a, f)
  <2>1. /\ FreeOK(k) /\ ListOK(k.tskatr, k.free_tcb)
    BY <1>1 DEF Static, LifeOK
  <2>2. PICK q \in Seq(Task) : q = k.free_tcb
    BY <1>1
  <2>3. /\ q # <<>> /\ t = q[1] /\ f \in Seq(Task) /\ Len(f) = Len(q) - 1
        /\ \A i \in 1 .. Len(f) : f[i] = q[i + 1]
    BY <1>1, <1>2, <1>4, <2>2
  <2>4. \A i, n \in 1 .. Len(q) : q[i] = q[n] => i = n
    BY <2>1, <2>2 DEF FreeOK
  <2>5. \A u \in Task : u \in Range(f) <=> u \in Range(q) /\ u # t
    <3>1. ASSUME NEW u \in Task, u \in Range(f) PROVE u \in Range(q) /\ u # t
      <4>1. PICK i \in 1 .. Len(f) : u = f[i]
        BY <3>1, <2>3 DEF Range
      <4>2. i + 1 \in 1 .. Len(q) /\ u = q[i + 1] /\ 1 \in 1 .. Len(q)
        BY <4>1, <2>2, <2>3
      <4> QED BY <4>2, <2>3, <2>4 DEF Range
    <3>2. ASSUME NEW u \in Task, u \in Range(q), u # t PROVE u \in Range(f)
      <4>1. PICK i \in 1 .. Len(q) : u = q[i]
        BY <3>2 DEF Range
      <4>2. i - 1 \in 1 .. Len(f) /\ f[i - 1] = u
        BY <4>1, <3>2, <2>3
      <4> QED BY <4>2, <2>3 DEF Range
    <3> QED BY <3>1, <3>2
  <2> QED BY <2>1, <2>2, <2>5, <1>1, <1>3 DEF ListOK
<1> QED BY <1>8, <1>9 DEF LifeOK, Life

(* del_tsk puts the TCB at the end of the free list. *)
LEMMA LifeDelete ==
  ASSUME IInv(k), LifeOK(k), NEW t \in Task, del_tsk(t)
  PROVE  LifeOK(k')
<1>1. /\ Static(k) /\ k.free_tcb \in Seq(Task)
      /\ k.tskatr \in [Task -> {"TA_NULL", "TA_NOEXS"}]
  BY DEF IInv, Static, Data
<1>2. PICK a : a = [k.tskatr EXCEPT ![t] = "TA_NOEXS"]
  OBVIOUS
<1>3. PICK f : f = Append(k.free_tcb, t)
  OBVIOUS
<1>4. Life(k', Task, a, f)
  BY <1>2, <1>3 DEF del_tsk, LifeOK, Life, LifeType, Settled
<1>5. ListOK(a, f)
  <2>1. ListOK(k.tskatr, k.free_tcb)
    BY DEF LifeOK
  <2>2. PICK q \in Seq(Task) : q = k.free_tcb
    BY <1>1
  <2>3. /\ Len(f) = Len(q) + 1 /\ f[Len(q) + 1] = t /\ Len(q) \in Nat
        /\ DOMAIN f = 1 .. Len(q) + 1 /\ DOMAIN q = 1 .. Len(q)
        /\ \A i \in 1 .. Len(q) : f[i] = q[i]
    BY <1>3, <2>2
  <2>4. \A u \in Task : u \in Range(f) <=> u \in Range(q) \/ u = t
    <3>1. ASSUME NEW u \in Task, u \in Range(f) PROVE u \in Range(q) \/ u = t
      <4>1. PICK i \in 1 .. Len(q) + 1 : u = f[i]
        BY <3>1, <2>3 DEF Range
      <4> QED BY <4>1, <2>3 DEF Range
    <3>2. ASSUME NEW u \in Task, u \in Range(q) PROVE u \in Range(f)
      <4>1. PICK i \in 1 .. Len(q) : u = q[i]
        BY <3>2, <2>3 DEF Range
      <4>2. i \in DOMAIN f /\ f[i] = u
        BY <4>1, <2>3
      <4> QED BY <4>2 DEF Range
    <3>3. t \in Range(f)
      BY <2>3 DEF Range
    <3> QED BY <3>1, <3>2, <3>3
  <2> QED BY <2>1, <2>2, <2>4, <1>1, <1>2 DEF ListOK
<1> QED BY <1>4, <1>5 DEF LifeOK, Life

(* Every step preserves LifeOK; only acre_tsk and del_tsk change the       *)
(* attributes of the tasks and the free list.                              *)
LEMMA NextLife ==
  ASSUME IInv(k), NoMutex(k), LifeOK(k), [Next]_k
  PROVE  LifeOK(k')
<1> DEFINE L(x) == Life(x, Task, k.tskatr, k.free_tcb)
<1>a. L(k) /\ ListOK(k.tskatr, k.free_tcb) /\ LifeType(k)
  BY DEF LifeOK, Life
<1>b. L(k') => LifeOK(k')
  BY <1>a DEF LifeOK, Life
<1>c. ASSUME NEW j, L(j), NEW t
      PROVE  /\ L(make_runnable(j, t)) /\ L(make_non_runnable(j, t))
             /\ L(rotate_ready_queue(j, t))
             /\ L(wait_complete(j, t)) /\ L(wait_release(j, t))
             /\ L(wait_tmout(j, t)) /\ L(wait_tmout_ok(j, t))
             /\ L(wait_dequeue_wobj(j, t)) /\ L(wait_dequeue_tmevtb(j, t))
             /\ L(dispatcher(j)) /\ L(t_leave(j)) /\ L(i_leave(j)) /\ L(Void(t, j))
             /\ L(enable_dispatch(j)) /\ L(make_wait(j)) /\ L(make_wait_tmevtb(j, t))
  BY <1>c, LifeReady, LifeWait, LifeLeave
<1>d. ASSUME NEW j, L(j), NEW t \in Task
      PROVE  L(make_active(j, t))
  <2>1. Life(j, Task \ {t}, k.tskatr, k.free_tcb)
    BY <1>d DEF Life
  <2> QED BY <2>1, LifeTask
<1>1. CASE k' = k
  BY <1>1
<1>2. CASE Startup
  <2>1. CASE initialize_task
    <3>1. PICK t \in Task : t = torder[k.boot]
      <4>1. k.boot \in 1 .. Len(torder) /\ torder \in Seq(Task)
        BY <2>1, TableAssumption DEF initialize_task, IInv, Context, Boot, Static, Data
      <4> QED BY <4>1
    <3>2. PICK y : y = [k EXCEPT !.actque[t] = FALSE, !.mutex_queue[t] = <<>>]
      OBVIOUS
    <3>3. Life(y, Task \ {t}, k.tskatr, k.free_tcb) /\ ~y.actque[t]
      BY <3>2, <1>a DEF Life, LifeType, Settled
    <3>4. PICK z : z = IF t \in TaAct THEN Void(k, make_active(make_dormant(y, t), t))
                       ELSE make_dormant(y, t)
      OBVIOUS
    <3>5. k' = [z EXCEPT !.boot = @ + 1]
      BY <2>1, <3>1, <3>2, <3>4 DEF initialize_task
    <3>6. L(make_dormant(y, t))
      BY <3>3, LifeTask
    <3>7. L(z)
      BY <3>4, <3>6, <1>c, <1>d
    <3> HIDE <3>1, <3>2, <3>4
    <3>8. L(k')
      BY <3>5, <3>7 DEF Life, LifeType, Settled
    <3> QED BY <3>8, <1>b
  <2>2. CASE start_dispatch
    <3>1. L([k EXCEPT !.kerflg = TRUE])
      BY <1>a DEF Life, LifeType, Settled
    <3> QED BY <2>2, <3>1, <1>b, <1>c DEF start_dispatch
  <2> QED BY <1>2, <2>1, <2>2 DEF Startup
<1>3. CASE TaskManage
  <2>1. ASSUME NEW p \in TPRI, NEW b \in BOOLEAN, acre_tsk(p, b)
        PROVE  LifeOK(k')
    BY <2>1, LifeCreate
  <2>2. ASSUME NEW t \in Task, del_tsk(t)
        PROVE  LifeOK(k')
    BY <2>2, LifeDelete
  <2>3. ASSUME NEW t \in Task, can_act(t) \/ chg_pri_ini(t)
        PROVE  LifeOK(k')
    <3>1. L(k')
      BY <2>3, <1>a DEF Life, LifeType, Settled, can_act, chg_pri_ini
    <3> QED BY <3>1, <1>b
  <2>4. ASSUME NEW t \in Task, act_tsk(t) \/ iact_tsk(t)
        PROVE  LifeOK(k')
    <3>1. CASE k.tstat[t] = {}
      <4>1. activate(t) = make_active(k, t)
        BY <3>1 DEF activate, TSTAT_DORMANT, TS_DORMANT
      <4> QED BY <2>4, <4>1, <1>a, <1>b, <1>c, <1>d DEF act_tsk, iact_tsk
    <3>2. CASE k.tstat[t] # {}
      <4>1. activate(t) = [k EXCEPT !.actque[t] = TRUE]
        BY <3>2 DEF activate, TSTAT_DORMANT, TS_DORMANT
      <4>2. L([k EXCEPT !.actque[t] = TRUE])
        BY <3>2, <1>a DEF Life, LifeType, Settled
      <4> QED BY <2>4, <4>1, <4>2, <1>b, <1>c DEF act_tsk, iact_tsk
    <3> QED BY <3>1, <3>2
  <2>5. ASSUME NEW t \in Task, ter_tsk(t)
        PROVE  LifeOK(k')
    <3>1. PICK y : y = IF TSTAT_RUNNABLE(k, t) THEN Void(k, make_non_runnable(k, t))
                       ELSE IF TSTAT_WAITING(k, t)
                            THEN wait_dequeue_tmevtb(wait_dequeue_wobj(k, t), t)
                            ELSE k
      OBVIOUS
    <3>2. NoMutex(y)
      BY <3>1, NoMutexReady, NoMutexTask, NoMutexLeave
    <3>3. L(y)
      BY <3>1, <1>a, <1>c
    <3>4. k' = t_leave(end_task(y, t))
      BY <2>5, <3>1 DEF ter_tsk
    <3> HIDE <3>1
    <3>5. Life(y, Task \ {t}, k.tskatr, k.free_tcb)
      BY <3>3 DEF Life
    <3>6. L(end_task(y, t))
      BY <3>2, <3>5, LifeEnd
    <3> QED BY <3>4, <3>6, <1>b, <1>c
  <2>6. ASSUME NEW t \in Task, NEW p \in TPRI, chg_pri(t, p)
        PROVE  LifeOK(k')
    BY <2>6, <1>a, <1>b, LifeChgPri DEF chg_pri
  <2>7. CASE chg_pri_ini_lock
    <3>1. k.p_runtsk \in Task /\ Static(k)
      BY <2>7, TaskContext DEF chg_pri_ini_lock
    <3>2. PICK c \in [tskid : Task, pri : TPRI] : c = k.newbpri[k.p_runtsk]
      BY <2>7, <3>1 DEF chg_pri_ini_lock, Static, Data
    <3>3. PICK y : y = [k EXCEPT !.newbpri[k.p_runtsk] = NULL]
      OBVIOUS
    <3>4. k' = chg_pri_locked(y, c.tskid, c.pri)
      BY <2>7, <3>2, <3>3 DEF chg_pri_ini_lock
    <3>5. NoMutex(y) /\ c.tskid \in Task /\ L(y)
      BY <3>3, <1>a DEF NoMutex, Life, LifeType, Settled
    <3> QED BY <3>4, <3>5, <1>b, LifeChgPri
  <2>8. CASE ext_tsk
    <3>1. PICK t \in Task : t = k.p_runtsk
      BY <2>8, TaskContext DEF ext_tsk
    <3>2. PICK y : y = [k EXCEPT !.disdsp = FALSE, !.ipmflg = TRUE, !.dspflg = TRUE]
      OBVIOUS
    <3>3. NoMutex(y) /\ L(y)
      BY <3>2, <1>a DEF NoMutex, Life, LifeType, Settled
    <3>4. k' = dispatcher(end_task(make_non_runnable(y, t), t))
      BY <2>8, <3>1, <3>2 DEF ext_tsk
    <3> HIDE <3>1, <3>2
    <3>5. NoMutex(make_non_runnable(y, t)) /\ L(make_non_runnable(y, t))
      BY <3>3, <1>c, NoMutexReady
    <3>6. Life(make_non_runnable(y, t), Task \ {t}, k.tskatr, k.free_tcb)
      BY <3>5 DEF Life
    <3>7. L(end_task(make_non_runnable(y, t), t))
      BY <3>5, <3>6, LifeEnd
    <3> QED BY <3>4, <3>7, <1>b, <1>c
  <2> QED BY <1>3, <2>1, <2>2, <2>3, <2>4, <2>5, <2>6, <2>7, <2>8 DEF TaskManage
<1>4. CASE TaskSync
  <2>1. ASSUME NEW b \in BOOLEAN, slp_tsk(b) \/ dly_tsk
        PROVE  LifeOK(k')
    <3>1. ASSUME NEW w PROVE L(begin_wait(w))
      BY <1>a DEF Life, LifeType, Settled, begin_wait, TS_WAITING
    <3>2. L([k EXCEPT !.wupque[k.p_runtsk] = FALSE])
      BY <1>a DEF Life, LifeType, Settled
    <3>3. L(make_wait_tmout(begin_wait("SLP"), b))
      BY <3>1, <1>c DEF make_wait_tmout
    <3>4. L(make_wait_tmevtb(begin_wait("DLY"), "wait_tmout_ok"))
      BY <3>1, <1>c
    <3> QED BY <2>1, <3>2, <3>3, <3>4, <1>b, <1>c DEF slp_tsk, dly_tsk
  <2>2. ASSUME NEW t \in Task, wup_tsk(t) \/ iwup_tsk(t)
        PROVE  LifeOK(k')
    <3>1. k.tstat[t] # {}
      BY <2>2 DEF wup_tsk, iwup_tsk, can_wakeup, TSTAT_DORMANT, TS_DORMANT
    <3>2. L([k EXCEPT !.wupque[t] = TRUE])
      BY <3>1, <1>a DEF Life, LifeType, Settled
    <3>3. L(wakeup(t))
      BY <3>2, <1>a, <1>c DEF wakeup
    <3> QED BY <2>2, <3>3, <1>b, <1>c DEF wup_tsk, iwup_tsk
  <2>3. ASSUME NEW t \in Task, rel_wai(t) \/ irel_wai(t)
        PROVE  LifeOK(k')
    BY <2>3, <1>a, <1>b, <1>c DEF rel_wai, irel_wai
  <2>4. ASSUME NEW t \in Task, can_wup(t)
        PROVE  LifeOK(k')
    <3>1. L(k')
      BY <2>4, <1>a DEF Life, LifeType, Settled, can_wup
    <3> QED BY <3>1, <1>b
  <2>5. ASSUME NEW t \in Task, sus_tsk(t) \/ rsm_tsk(t)
        PROVE  LifeOK(k')
    <3>1. /\ L([k EXCEPT !.tstat[t] = TS_SUSPENDED])
          /\ L([k EXCEPT !.tstat[t] = @ \cup TS_SUSPENDED])
          /\ L([k EXCEPT !.tstat[t] = TS_RUNNABLE])
      BY <1>a DEF Life, LifeType, Settled, TS_SUSPENDED, TS_RUNNABLE
    <3>2. TSTAT_WAITING(k, t) => L([k EXCEPT !.tstat[t] = @ \ TS_SUSPENDED])
      BY <1>a DEF Life, LifeType, Settled, TS_SUSPENDED, TSTAT_WAITING
    <3> QED BY <2>5, <3>1, <3>2, <1>b, <1>c DEF sus_tsk, rsm_tsk
  <2> QED BY <1>4, <2>1, <2>2, <2>3, <2>4, <2>5 DEF TaskSync
<1>5. CASE SysManage
  <2>1. ASSUME NEW p \in TPRI, rot_rdq(p) \/ irot_rdq(p)
        PROVE  LifeOK(k')
    BY <2>1, <1>a, <1>b, <1>c DEF rot_rdq, irot_rdq
  <2>2. CASE loc_cpu \/ unl_cpu \/ iloc_cpu \/ iunl_cpu \/ dis_dsp
    <3>1. L(k')
      BY <2>2, <1>a DEF Life, LifeType, Settled, loc_cpu, unl_cpu, iloc_cpu, iunl_cpu, dis_dsp
    <3> QED BY <3>1, <1>b
  <2>3. CASE ena_dsp
    <3>1. L([k EXCEPT !.disdsp = FALSE])
      BY <1>a DEF Life, LifeType, Settled
    <3> QED BY <2>3, <3>1, <1>b, <1>c DEF ena_dsp
  <2>4. ASSUME NEW b \in BOOLEAN, chg_ipm(b)
        PROVE  LifeOK(k')
    <3>1. PICK y : y = [k EXCEPT !.ipmflg = b]
      OBVIOUS
    <3>2. L(y) /\ L([y EXCEPT !.dspflg = FALSE])
      BY <3>1, <1>a DEF Life, LifeType, Settled
    <3> QED BY <2>4, <3>1, <3>2, <1>b, <1>c DEF chg_ipm
  <2> QED BY <1>5, <2>1, <2>2, <2>3, <2>4 DEF SysManage
<1>6. CASE Processor
  <2>1. CASE wait_return \/ int_entry
    <3>1. L(k')
      BY <2>1, <1>a DEF Life, LifeType, Settled, wait_return, int_entry
    <3> QED BY <3>1, <1>b
  <2>2. CASE ret_int
    <3>1. PICK y : y = [k EXCEPT !.excpt_nest_count = @ - 1, !.lock = FALSE]
      OBVIOUS
    <3>2. L(y) /\ L([y EXCEPT !.reqflg = FALSE])
      BY <3>1, <1>a DEF Life, LifeType, Settled
    <3> QED BY <2>2, <3>1, <3>2, <1>b, <1>c DEF ret_int
  <2>3. CASE idle_loop
    <3>1. L([k EXCEPT !.reqflg = FALSE])
      BY <1>a DEF Life, LifeType, Settled
    <3> QED BY <2>3, <3>1, <1>b, <1>c DEF idle_loop
  <2>4. ASSUME NEW t \in Task, signal_time(t)
        PROVE  LifeOK(k')
    <3>1. L([k EXCEPT !.tmevtb[t] = "none"])
      BY <1>a DEF Life, LifeType, Settled
    <3> QED BY <2>4, <3>1, <1>b, <1>c DEF signal_time
  <2> QED BY <1>6, <2>1, <2>2, <2>3, <2>4 DEF Processor
<1> QED BY <1>1, <1>2, <1>3, <1>4, <1>5, <1>6 DEF Next

-----------------------------------------------------------------------------
(* A dormant task has its initial priorities and no queued request, and    *)
(* the free list of acre_tsk and del_tsk is exactly the TCBs that no task  *)
(* uses, in every reachable state: no service call on a task that ends or  *)
(* has ended leaves something behind for its next life.                    *)
THEOREM KernelDormantOK == Spec => []DormantOK
<1>1. Init => IInv(k) /\ NoMutex(k) /\ LifeOK(k)
  <2>1. Init => NoMutex(k)
    BY DEF Init, KInit, NoMutex
  <2>2. ASSUME Init PROVE LifeOK(k)
    <3>1. /\ k.tskatr = [t \in Task |-> IF t \in Range(atcb) THEN "TA_NOEXS" ELSE "TA_NULL"]
          /\ k.free_tcb = atcb
      BY <2>2 DEF Init, KInit
    <3>2. ListOK(k.tskatr, k.free_tcb)
      BY <3>1 DEF ListOK
    <3>3. Life(k, Task, k.tskatr, k.free_tcb)
      BY <2>2, TableAssumption DEF Init, KInit, Life, LifeType, Settled
    <3> QED BY <3>2, <3>3 DEF LifeOK
  <2> QED BY <2>1, <2>2, InitIInv
<1>2. (IInv(k) /\ NoMutex(k) /\ LifeOK(k)) /\ [Next]_k => (IInv(k) /\ NoMutex(k) /\ LifeOK(k))'
  BY NextIInv, NextNoMutex, NextLife
<1>3. IInv(k) /\ LifeOK(k) => DormantOK
  <2> SUFFICES ASSUME IInv(k), LifeOK(k) PROVE DormantOK
    OBVIOUS
  <2>1. \A t \in Task : TSTAT_DORMANT(k, t) /\ exists(t) =>
          /\ k.priority[t] = k.ipriority[t] /\ k.bpriority[t] = k.ipriority[t]
          /\ ~k.wupque[t] /\ ~k.actque[t]
    BY DEF LifeOK, Life, Settled, TSTAT_DORMANT, TS_DORMANT
  <2>2. \A t \in Task : ~exists(t) <=> t \in Range(k.free_tcb)
    BY DEF LifeOK, ListOK, exists
  <2>3. \A t \in Task : ~exists(t) => TSTAT_DORMANT(k, t)
    BY DEF IInv, Static, NoexsOK, exists, TSTAT_DORMANT, TS_DORMANT
  <2> QED BY <2>1, <2>2, <2>3 DEF DormantOK
<1> QED BY <1>1, <1>2, <1>3, PTL DEF Spec

-----------------------------------------------------------------------------
(***************************************************************************)
(* The order of the ready tasks: PrecedenceStable as a theorem.            *)
(*                                                                         *)
(* Ord(q, r, t): in the ready queues r two tasks other than t are in the   *)
(* order they have in the ready queues q, and t is nowhere but at a tail.  *)
(* Every step moves at most one task t in this way (NULL if none).         *)
(***************************************************************************)
ReadyQueues == [TPRI -> Seq(Task)]

Ord(q, r, t) ==
  \A p \in TPRI : \A i, n \in 1 .. Len(r[p]) : i < n =>
    /\ r[p][i] # t
    /\ r[p][n] # t => \E a, b \in 1 .. Len(q[p]) : a < b /\ q[p][a] = r[p][i] /\ q[p][b] = r[p][n]

Absent(r, t) == \A p \in TPRI : \A i \in 1 .. Len(r[p]) : r[p][i] # t

(* No task of these queues is in order with itself only by chance: a step  *)
(* with Ord satisfies PrecedenceStable.                                    *)
LEMMA OrdStable ==
  ASSUME NEW j, ReadyQueueOK(j, Runnable(j)), j.ready_queue \in ReadyQueues,
         j.priority \in [Task -> TPRI],
         NEW r, ReadyQueueOK(r, Runnable(r)), r.ready_queue \in ReadyQueues,
         r.priority \in [Task -> TPRI],
         NEW m, Ord(j.ready_queue, r.ready_queue, m),
         NEW t \in Task, NEW u \in Task, Before(j, t, u), Before(r, u, t)
  PROVE  t = Last(r.ready_queue[r.priority[t]])
<1>1. PICK p \in TPRI : p = r.priority[u]
  OBVIOUS
<1>2. PICK q \in Seq(Task) : q = r.ready_queue[p]
  BY DEF ReadyQueues
<1>3. PICK i, n \in 1 .. Len(q) : i < n /\ q[i] = u /\ q[n] = t
  BY <1>1, <1>2 DEF Before
<1>4. q[i] # m /\ (q[n] # m =>
        \E a, b \in 1 .. Len(j.ready_queue[p]) :
           a < b /\ j.ready_queue[p][a] = q[i] /\ j.ready_queue[p][b] = q[n])
  BY <1>2, <1>3 DEF Ord
<1>5. PICK s \in TPRI : s = j.priority[t]
  OBVIOUS
<1>6. PICK c, d \in 1 .. Len(j.ready_queue[s]) :
        c < d /\ j.ready_queue[s][c] = t /\ j.ready_queue[s][d] = u
  BY <1>5 DEF Before
<1>7. q[n] = m
  <2> SUFFICES ASSUME q[n] # m PROVE FALSE
    OBVIOUS
  <2>1. PICK a, b \in 1 .. Len(j.ready_queue[p]) :
          a < b /\ j.ready_queue[p][a] = u /\ j.ready_queue[p][b] = t
    BY <1>3, <1>4
  <2>2. j.priority[t] = p
    BY <2>1 DEF ReadyQueueOK
  <2>3. s = p
    BY <2>2, <1>5
  <2>5. \A x, y \in 1 .. Len(j.ready_queue[p]) :
          j.ready_queue[p][x] = j.ready_queue[p][y] => x = y
    BY DEF ReadyQueueOK
  <2>6. b = c /\ a = d
    BY <2>1, <2>3, <2>5, <1>6
  <2>4. a \in Nat /\ b \in Nat /\ c \in Nat /\ d \in Nat
    BY <2>1, <1>6
  <2> QED BY <2>1, <2>4, <2>6, <1>6
<1>8. n = Len(q)
  <2> SUFFICES ASSUME n # Len(q) PROVE FALSE
    OBVIOUS
  <2>1. n < Len(q) /\ Len(q) \in 1 .. Len(q)
    BY <1>2, <1>3
  <2>2. q[n] # m
    BY <2>1, <1>2, <1>3 DEF Ord
  <2> QED BY <2>2, <1>7
<1>9. r.priority[t] = p
  BY <1>2, <1>3 DEF ReadyQueueOK
<1> QED BY <1>2, <1>3, <1>8, <1>9 DEF Last

(* Nothing moves. *)
LEMMA OrdSame ==
  ASSUME NEW q \in ReadyQueues, NEW t, Absent(q, t)
  PROVE  Ord(q, q, t)
<1> SUFFICES ASSUME NEW p \in TPRI, NEW i \in 1 .. Len(q[p]), NEW n \in 1 .. Len(q[p]), i < n
             PROVE  /\ q[p][i] # t
                    /\ \E a, b \in 1 .. Len(q[p]) : a < b /\ q[p][a] = q[p][i] /\ q[p][b] = q[p][n]
  BY DEF Ord
<1> QED BY DEF Absent

(* t leaves its queue. *)
LEMMA OrdDelete ==
  ASSUME NEW q \in ReadyQueues, NEW pri \in TPRI, NEW c \in 1 .. Len(q[pri]),
         \A i, n \in 1 .. Len(q[pri]) : q[pri][i] = q[pri][n] => i = n,
         \A p \in TPRI \ {pri} : \A i \in 1 .. Len(q[p]) : q[p][i] # q[pri][c],
         NEW r, r = [q EXCEPT ![pri] = queue_delete(@, q[pri][c])]
  PROVE  r \in ReadyQueues /\ Ord(q, r, q[pri][c]) /\ Absent(r, q[pri][c])
<1>1. PICK s \in Seq(Task) : s = q[pri]
  BY DEF ReadyQueues
<1>2. PICK d : d = queue_delete(s, s[c])
  OBVIOUS
<1>3. /\ d \in Seq(Task) /\ Len(d) = Len(s) - 1
      /\ \A i \in 1 .. Len(s) - 1 : d[i] = IF i < c THEN s[i] ELSE s[i + 1]
  BY <1>1, <1>2, QueueDelete, ZenonT(60)
<1>4. r \in ReadyQueues /\ r[pri] = d /\ \A p \in TPRI \ {pri} : r[p] = q[p]
  BY <1>1, <1>2, <1>3 DEF ReadyQueues
<1>5. Len(s) \in Nat /\ c \in 1 .. Len(s)
  BY <1>1
<1>6. Absent(r, s[c])
  <2> SUFFICES ASSUME NEW p \in TPRI, NEW i \in 1 .. Len(r[p]) PROVE r[p][i] # s[c]
    BY DEF Absent
  <2>1. CASE p # pri
    BY <2>1, <1>1, <1>4
  <2>2. CASE p = pri
    <3>1. /\ i \in 1 .. Len(s) - 1 /\ i \in 1 .. Len(s) /\ i + 1 \in 1 .. Len(s)
          /\ r[p][i] = IF i < c THEN s[i] ELSE s[i + 1]
      BY <2>2, <1>3, <1>4, <1>5
    <3> QED BY <3>1, <1>1, <1>5
  <2> QED BY <2>1, <2>2
<1>7. Ord(q, r, s[c])
  <2> SUFFICES ASSUME NEW p \in TPRI, NEW i \in 1 .. Len(r[p]), NEW n \in 1 .. Len(r[p]), i < n
               PROVE  /\ r[p][i] # s[c]
                      /\ \E a, b \in 1 .. Len(q[p]) :
                           a < b /\ q[p][a] = r[p][i] /\ q[p][b] = r[p][n]
    BY DEF Ord
  <2>3. r[p][i] # s[c]
    BY <1>6 DEF Absent
  <2>1. CASE p # pri
    BY <2>1, <2>3, <1>4
  <2>2. CASE p = pri
    <3>1. PICK a : a = IF i < c THEN i ELSE i + 1
      OBVIOUS
    <3>2. PICK b : b = IF n < c THEN n ELSE n + 1
      OBVIOUS
    <3>3. a \in 1 .. Len(s) /\ b \in 1 .. Len(s) /\ a < b /\ s[a] = d[i] /\ s[b] = d[n]
      BY <2>2, <3>1, <3>2, <1>3, <1>4, <1>5
    <3> QED BY <2>2, <2>3, <3>3, <1>1, <1>4
  <2> QED BY <2>1, <2>2
<1> QED BY <1>1, <1>4, <1>6, <1>7

(* t enters a queue at the tail. *)
LEMMA OrdAppend ==
  ASSUME NEW q, NEW r \in ReadyQueues, NEW t \in Task, Ord(q, r, t), Absent(r, t),
         NEW pri \in TPRI, NEW s, s = [r EXCEPT ![pri] = queue_insert_prev(@, t)]
  PROVE  s \in ReadyQueues /\ Ord(q, s, t)
<1>1. /\ s \in ReadyQueues /\ \A p \in TPRI \ {pri} : s[p] = r[p]
      /\ Len(s[pri]) = Len(r[pri]) + 1 /\ Len(r[pri]) \in Nat
      /\ \A i \in 1 .. Len(r[pri]) : s[pri][i] = r[pri][i]
      /\ s[pri][Len(r[pri]) + 1] = t
  BY DEF ReadyQueues, queue_insert_prev
<1>2. SUFFICES ASSUME NEW p \in TPRI, NEW i \in 1 .. Len(s[p]), NEW n \in 1 .. Len(s[p]), i < n
               PROVE  /\ s[p][i] # t
                      /\ s[p][n] # t => \E a, b \in 1 .. Len(q[p]) :
                           a < b /\ q[p][a] = s[p][i] /\ q[p][b] = s[p][n]
  BY <1>1 DEF Ord
<1>o. ASSUME i \in 1 .. Len(r[p]), n \in 1 .. Len(r[p])
      PROVE  /\ r[p][i] # t
             /\ r[p][n] # t => \E a, b \in 1 .. Len(q[p]) :
                  a < b /\ q[p][a] = r[p][i] /\ q[p][b] = r[p][n]
  BY <1>2, <1>o DEF Ord
<1>3. CASE p # pri
  BY <1>1, <1>o, <1>3
<1>4. CASE p = pri
  <2>1. i \in 1 .. Len(r[p]) /\ (n = Len(r[p]) + 1 \/ n \in 1 .. Len(r[p]))
    BY <1>1, <1>2, <1>4
  <2>2. CASE n = Len(r[p]) + 1
    BY <2>1, <2>2, <1>1, <1>4 DEF Absent
  <2>3. CASE n \in 1 .. Len(r[p])
    <3>1. s[p][i] = r[p][i] /\ s[p][n] = r[p][n]
      BY <2>1, <2>3, <1>1, <1>4
    <3> QED BY <2>1, <2>3, <3>1, <1>o
  <2> QED BY <2>1, <2>2, <2>3
<1> QED BY <1>3, <1>4

(* rot_rdq moves the head of a queue to its tail. *)
LEMMA OrdRotate ==
  ASSUME NEW q \in ReadyQueues, NEW pri \in TPRI, Len(q[pri]) >= 2,
         \A i, n \in 1 .. Len(q[pri]) : q[pri][i] = q[pri][n] => i = n,
         \A p \in TPRI \ {pri} : \A i \in 1 .. Len(q[p]) : q[p][i] # Head(q[pri]),
         NEW r, r = [q EXCEPT ![pri] = queue_insert_prev(Tail(q[pri]), Head(q[pri]))]
  PROVE  r \in ReadyQueues /\ Ord(q, r, Head(q[pri]))
<1>1. PICK s \in Seq(Task) : s = q[pri]
  BY DEF ReadyQueues
<1>2. PICK l \in Nat : l = Len(s) /\ l >= 2
  BY <1>1
<1>3. PICK h \in Task : h = Head(s) /\ h = s[1]
  BY <1>1, <1>2
<1>4. PICK a : a = Append(Tail(s), h)
  OBVIOUS
<1>5. /\ a \in Seq(Task) /\ Len(a) = l /\ a[l] = h
      /\ \A i \in 1 .. l - 1 : a[i] = s[i + 1]
  BY <1>1, <1>2, <1>3, <1>4
<1>6. r \in ReadyQueues /\ r[pri] = a /\ \A p \in TPRI \ {pri} : r[p] = q[p]
  BY <1>1, <1>3, <1>4, <1>5 DEF ReadyQueues, queue_insert_prev
<1>7. SUFFICES ASSUME NEW p \in TPRI, NEW i \in 1 .. Len(r[p]), NEW n \in 1 .. Len(r[p]), i < n
               PROVE  /\ r[p][i] # h
                      /\ r[p][n] # h => \E c, b \in 1 .. Len(q[p]) :
                           c < b /\ q[p][c] = r[p][i] /\ q[p][b] = r[p][n]
  BY <1>1, <1>3, <1>6 DEF Ord
<1>8. CASE p # pri
  BY <1>1, <1>3, <1>6, <1>7, <1>8
<1>9. CASE p = pri
  <2>1. /\ i \in 1 .. l - 1 /\ i + 1 \in 1 .. l /\ 1 \in 1 .. l /\ a[i] = s[i + 1]
        /\ i + 1 # 1
    BY <1>2, <1>5, <1>6, <1>7, <1>9
  <2>2. a[i] # h
    BY <2>1, <1>1, <1>2, <1>3
  <2>3. ASSUME a[n] # h
        PROVE  /\ n + 1 \in 1 .. l /\ i + 1 < n + 1 /\ a[n] = s[n + 1]
    BY <2>3, <1>2, <1>5, <1>6, <1>7, <1>9
  <2> QED BY <2>1, <2>2, <2>3, <1>1, <1>2, <1>6, <1>9
<1> QED BY <1>8, <1>9

(* Queued(x, q, t): a state in which the ready queues are in order with q  *)
(* and t is not in them; InOrder when t may be at a tail.                  *)
OrderType(x) ==
  /\ {"ready_queue", "priority", "ipriority"} \subseteq DOMAIN x
  /\ x.ready_queue \in ReadyQueues
  /\ x.priority \in [Task -> TPRI] /\ x.ipriority \in [Task -> TPRI]

InOrder(x, q, t) == OrderType(x) /\ Ord(q, x.ready_queue, t)
Removable(x, q, t) == InOrder(x, q, t) /\ Absent(x.ready_queue, t)

(* The functions that leave the ready queue alone keep both. *)
SameQueues(x, r) ==
  OrderType(x) => OrderType(r) /\ r.ready_queue = x.ready_queue

(* What only changes a task's state or the processor leaves the ready      *)
(* queue alone.                                                            *)
LEMMA OrderFrame ==
  ASSUME NEW j, NEW t, NEW i, NEW e
  PROVE  /\ SameQueues(j, dispatcher(j)) /\ SameQueues(j, t_leave(j))
         /\ SameQueues(j, i_leave(j)) /\ SameQueues(j, Void(i, j))
         /\ SameQueues(j, make_dormant(j, t)) /\ SameQueues(j, enable_dispatch(j))
         /\ SameQueues(j, wait_dequeue_wobj(j, t)) /\ SameQueues(j, wait_dequeue_tmevtb(j, t))
         /\ SameQueues(j, set_wercd(j, t, e))
         /\ SameQueues(j, [j EXCEPT !.tstat[t] = e])
         /\ SameQueues(j, [activate_context(j, t) EXCEPT !.tstat[t] = e])
         /\ SameQueues(j, [j EXCEPT !.actque[t] = e])
<1>1. /\ SameQueues(j, dispatcher(j)) /\ SameQueues(j, t_leave(j))
      /\ SameQueues(j, i_leave(j)) /\ SameQueues(j, Void(i, j))
  BY DEF SameQueues, OrderType, dispatcher, t_leave, i_leave, Void
<1>2. SameQueues(j, make_dormant(j, t))
  BY DEF SameQueues, OrderType, make_dormant
<1>3. /\ SameQueues(j, wait_dequeue_wobj(j, t)) /\ SameQueues(j, wait_dequeue_tmevtb(j, t))
      /\ SameQueues(j, set_wercd(j, t, e))
  BY DEF SameQueues, OrderType, wait_dequeue_wobj, wait_dequeue_tmevtb, set_wercd
<1>4. /\ SameQueues(j, [j EXCEPT !.tstat[t] = e])
      /\ SameQueues(j, [activate_context(j, t) EXCEPT !.tstat[t] = e])
      /\ SameQueues(j, [j EXCEPT !.actque[t] = e])
  BY DEF SameQueues, OrderType, activate_context
<1>5. SameQueues(j, enable_dispatch(j))
  BY DEF SameQueues, OrderType, enable_dispatch, dispatcher
<1> QED BY <1>1, <1>2, <1>3, <1>4, <1>5

(* A task that was not in the ready queue becomes runnable. *)
LEMMA OrderInsert ==
  ASSUME NEW q, NEW j, NEW t \in Task, Removable(j, q, t)
  PROVE  /\ InOrder(make_runnable(j, t), q, t) /\ InOrder(make_active(j, t), q, t)
         /\ InOrder(make_non_wait(j, t), q, t)
<1>1. ASSUME NEW y, Removable(y, q, t)
      PROVE  InOrder(make_runnable(y, t), q, t)
  <2>1. PICK r : r = make_runnable(y, t)
    OBVIOUS
  <2>2. PICK pri \in TPRI : pri = y.priority[t]
    BY <1>1 DEF Removable, InOrder, OrderType
  <2>3. /\ r.ready_queue = [y.ready_queue EXCEPT ![pri] = queue_insert_prev(@, t)]
        /\ r.priority = y.priority /\ r.ipriority = y.ipriority
        /\ {"ready_queue", "priority", "ipriority"} \subseteq DOMAIN r
    BY <1>1, <2>1, <2>2 DEF make_runnable, Removable, InOrder, OrderType
  <2>4. r.ready_queue \in ReadyQueues /\ Ord(q, r.ready_queue, t)
    BY <1>1, <2>2, <2>3, OrdAppend DEF Removable, InOrder, OrderType
  <2>5. InOrder(r, q, t)
    BY <1>1, <2>3, <2>4 DEF Removable, InOrder, OrderType
  <2> QED BY <2>1, <2>5
<1>2. /\ Removable([activate_context(j, t) EXCEPT !.tstat[t] = TS_RUNNABLE], q, t)
      /\ Removable([j EXCEPT !.tstat[t] = TS_RUNNABLE], q, t)
      /\ Removable([j EXCEPT !.tstat[t] = TS_SUSPENDED], q, t)
  BY DEF Removable, InOrder, OrderType, activate_context
<1>3. InOrder(make_active(j, t), q, t)
  BY <1>1, <1>2 DEF make_active
<1>4. InOrder(make_non_wait(j, t), q, t)
  <2>1. InOrder([j EXCEPT !.tstat[t] = TS_SUSPENDED], q, t)
    BY <1>2 DEF Removable
  <2> QED BY <1>1, <1>2, <2>1 DEF make_non_wait
<1> QED BY <1>1, <1>3, <1>4

(* A task leaves the ready queue: y has the ready queue of j. *)
LEMMA OrderRemove ==
  ASSUME NEW j, Static(j), NEW t \in Task, "RUNNABLE" \in j.tstat[t],
         NEW y, OrderType(y), y.ready_queue = j.ready_queue, y.priority = j.priority
  PROVE  Removable(make_non_runnable(y, t), j.ready_queue, t)
<1>1. PICK q \in ReadyQueues : q = j.ready_queue
  BY DEF Static, Data, SchedType, ReadyQueues
<1>2. PICK pri \in TPRI : pri = j.priority[t]
  BY DEF Static, Data, SchedType
<1>3. ReadyQueueOK(j, Runnable(j)) /\ t \in Runnable(j)
  BY DEF Static, Runnable, TSTAT_RUNNABLE
<1>4. PICK c \in 1 .. Len(q[pri]) : q[pri][c] = t
  BY <1>1, <1>2, <1>3 DEF ReadyQueueOK
<1>5. \A i, n \in 1 .. Len(q[pri]) : q[pri][i] = q[pri][n] => i = n
  BY <1>1, <1>3 DEF ReadyQueueOK
<1>6. \A p \in TPRI \ {pri} : \A i \in 1 .. Len(q[p]) : q[p][i] # q[pri][c]
  BY <1>1, <1>2, <1>3, <1>4 DEF ReadyQueueOK
<1>7. PICK r : r = [q EXCEPT ![pri] = queue_delete(@, q[pri][c])]
  OBVIOUS
<1>8. r \in ReadyQueues /\ Ord(q, r, q[pri][c]) /\ Absent(r, q[pri][c])
  BY ONLY <1>1, <1>2, <1>4, <1>5, <1>6, <1>7, OrdDelete, SMTT(60)
<1>9. PICK n : n = make_non_runnable(y, t)
  OBVIOUS
<1>10. /\ n.ready_queue = r /\ n.priority = y.priority /\ n.ipriority = y.ipriority
       /\ {"ready_queue", "priority", "ipriority"} \subseteq DOMAIN n
  <2>1. PICK d : d = ready_delete(y, t, pri)
    OBVIOUS
  <2>2. /\ d.ready_queue = r /\ d.priority = y.priority /\ d.ipriority = y.ipriority
        /\ {"ready_queue", "priority", "ipriority"} \subseteq DOMAIN d
    BY <2>1, <1>1, <1>4, <1>7 DEF ready_delete, OrderType
  <2>3. n = d \/ \E s, b : n = [d EXCEPT !.p_schedtsk = s, !.dspreq = b]
    BY <2>1, <1>2, <1>9 DEF make_non_runnable
  <2> QED BY <2>2, <2>3
<1>11. Removable(n, q, t)
  BY <1>4, <1>8, <1>10 DEF Removable, InOrder, OrderType
<1> QED BY <1>1, <1>9, <1>11

(* A task that is not runnable is not in the ready queue. *)
LEMMA OrderStart ==
  ASSUME NEW j, Static(j)
  PROVE  /\ OrderType(j) /\ InOrder(j, j.ready_queue, NULL)
         /\ \A t \in Task : "RUNNABLE" \notin j.tstat[t] => Removable(j, j.ready_queue, t)
<1>1. OrderType(j)
  BY DEF OrderType, Static, Data, SchedType, KernelFields, ReadyQueues
<1>2. \A p \in TPRI : \A i \in 1 .. Len(j.ready_queue[p]) :
        j.ready_queue[p][i] \in Runnable(j)
  BY DEF Static, ReadyQueueOK
<1>3. Absent(j.ready_queue, NULL)
  BY <1>2, NullAssumption DEF Absent, Runnable
<1>4. \A t \in Task : "RUNNABLE" \notin j.tstat[t] => Absent(j.ready_queue, t)
  BY <1>2 DEF Absent, Runnable, TSTAT_RUNNABLE
<1>5. j.ready_queue \in ReadyQueues
  BY <1>1 DEF OrderType
<1> QED BY <1>1, <1>3, <1>4, <1>5, OrdSame DEF InOrder, Removable

(* chg_pri moves a runnable task to the tail of the queue of its priority. *)
LEMMA OrderPriority ==
  ASSUME NEW j, Static(j), NEW t \in Task, NEW p \in TPRI,
         NEW y, Frame(j, y, {"bpriority"})
  PROVE  \E m : InOrder(change_priority(y, t, p, FALSE), j.ready_queue, m)
<1>1. /\ OrderType(y) /\ y.ready_queue = j.ready_queue /\ y.priority = j.priority
      /\ y.tstat = j.tstat
  <2>1. OrderType(j) /\ KernelFields \subseteq DOMAIN j
    BY OrderStart DEF Static, Data
  <2> QED BY <2>1 DEF Frame, KernelFields, OrderType
<1>2. CASE "RUNNABLE" \notin j.tstat[t]
  <2>1. PICK r : r = change_priority(y, t, p, FALSE)
    OBVIOUS
  <2>2. PICK z : z = [y EXCEPT !.priority[t] = p]
    OBVIOUS
  <2>3. OrderType(z) /\ z.ready_queue = j.ready_queue
    BY <1>1, <2>2 DEF OrderType
  <2>4. r = z \/ \E o : r = wobj_change_priority(z, o, t)
    BY <1>1, <1>2, <2>1, <2>2 DEF change_priority, TSTAT_RUNNABLE
  <2>5. OrderType(r) /\ r.ready_queue = j.ready_queue
    BY <2>3, <2>4 DEF OrderType, wobj_change_priority
  <2>6. InOrder(r, j.ready_queue, NULL)
    BY <2>5, OrderStart DEF InOrder
  <2> QED BY <2>1, <2>6
<1>3. CASE "RUNNABLE" \in j.tstat[t]
  <2>1. PICK r : r = change_ready(y, t, p, FALSE)
    OBVIOUS
  <2>2. PICK pri \in TPRI : pri = j.priority[t]
    BY DEF Static, Data, SchedType
  <2>3. PICK d : d = ready_delete([y EXCEPT !.priority[t] = p], t, pri)
    OBVIOUS
  <2>4. PICK n : n = make_non_runnable(y, t)
    OBVIOUS
  <2>5. Removable(n, j.ready_queue, t)
    BY <1>1, <1>3, <2>4, OrderRemove
  <2>6. /\ d.ready_queue = [y.ready_queue EXCEPT ![pri] = queue_delete(@, t)]
        /\ d.priority = [y.priority EXCEPT ![t] = p] /\ d.ipriority = y.ipriority
        /\ {"ready_queue", "priority", "ipriority"} \subseteq DOMAIN d
    BY <2>3, <1>1 DEF ready_delete, OrderType
  <2>7. n.ready_queue = [y.ready_queue EXCEPT ![pri] = queue_delete(@, t)]
    <3>1. PICK e : e = ready_delete(y, t, pri)
      OBVIOUS
    <3>2. /\ e.ready_queue = [y.ready_queue EXCEPT ![pri] = queue_delete(@, t)]
          /\ "ready_queue" \in DOMAIN e
      BY <3>1, <1>1 DEF ready_delete, OrderType
    <3>3. n = e \/ \E s, b : n = [e EXCEPT !.p_schedtsk = s, !.dspreq = b]
      BY <3>1, <2>2, <2>4, <1>1 DEF make_non_runnable
    <3> QED BY <3>2, <3>3
  <2>8. OrderType(d) /\ Ord(j.ready_queue, d.ready_queue, t) /\ Absent(d.ready_queue, t)
    BY <2>5, <2>6, <2>7, <1>1 DEF OrderType, Removable, InOrder
  <2>9. PICK s, b : r = [[d EXCEPT !.ready_queue[p] = queue_insert_prev(@, t),
                                   !.ready_primap = @ \cup {p}]
                         EXCEPT !.p_schedtsk = s, !.dspreq = b]
    BY <2>1, <2>2, <2>3, <1>1, ZenonT(60) DEF change_ready
  <2>10. /\ r.ready_queue = [d.ready_queue EXCEPT ![p] = queue_insert_prev(@, t)]
         /\ r.priority = d.priority /\ r.ipriority = d.ipriority
         /\ {"ready_queue", "priority", "ipriority"} \subseteq DOMAIN r
    BY <2>8, <2>9 DEF OrderType
  <2>11. r.ready_queue \in ReadyQueues /\ Ord(j.ready_queue, r.ready_queue, t)
    BY <2>8, <2>10, OrdAppend DEF OrderType
  <2>12. InOrder(r, j.ready_queue, t)
    BY <2>8, <2>10, <2>11 DEF InOrder, OrderType
  <2>13. change_priority(y, t, p, FALSE) = r
    BY <2>1, <1>1, <1>3 DEF change_priority, TSTAT_RUNNABLE
  <2> QED BY <2>12, <2>13
<1> QED BY <1>2, <1>3

(* rot_rdq and irot_rdq. *)
LEMMA OrderRotate ==
  ASSUME NEW j, Static(j), NEW p \in TPRI
  PROVE  \E m : InOrder(rotate_ready_queue(j, p), j.ready_queue, m)
<1>1. OrderType(j) /\ InOrder(j, j.ready_queue, NULL)
  BY OrderStart
<1>2. CASE Len(j.ready_queue[p]) < 2
  BY <1>1, <1>2 DEF rotate_ready_queue
<1>3. CASE ~(Len(j.ready_queue[p]) < 2)
  <2>1. PICK q \in ReadyQueues : q = j.ready_queue
    BY <1>1 DEF OrderType
  <2>2. PICK s \in Seq(Task) : s = q[p]
    BY DEF ReadyQueues
  <2>3. Len(s) \in Nat /\ Len(s) >= 2 /\ Head(s) = s[1] /\ 1 \in 1 .. Len(s)
    BY <2>1, <2>2, <1>3
  <2>4. ReadyQueueOK(j, Runnable(j))
    BY DEF Static
  <2>5. \A i, n \in 1 .. Len(q[p]) : q[p][i] = q[p][n] => i = n
    BY <2>1, <2>4 DEF ReadyQueueOK
  <2>6. \A o \in TPRI \ {p} : \A i \in 1 .. Len(q[o]) : q[o][i] # Head(q[p])
    <3>1. j.priority[Head(q[p])] = p
      BY <2>1, <2>2, <2>3, <2>4 DEF ReadyQueueOK
    <3> QED BY <2>1, <2>4, <3>1 DEF ReadyQueueOK
  <2>7. PICK z : z = [q EXCEPT ![p] = queue_insert_prev(Tail(q[p]), Head(q[p]))]
    OBVIOUS
  <2>8. z \in ReadyQueues /\ Ord(q, z, Head(q[p]))
    BY <2>2, <2>3, <2>5, <2>6, <2>7, OrdRotate
  <2>9. PICK r : r = rotate_ready_queue(j, p)
    OBVIOUS
  <2>10. /\ r.ready_queue = z /\ r.priority = j.priority /\ r.ipriority = j.ipriority
         /\ {"ready_queue", "priority", "ipriority"} \subseteq DOMAIN r
    BY <2>1, <2>7, <2>9, <1>1, <1>3 DEF rotate_ready_queue, OrderType
  <2>11. InOrder(r, q, Head(q[p]))
    BY <2>8, <2>10, <1>1 DEF InOrder, OrderType
  <2> QED BY <2>1, <2>9, <2>11
<1> QED BY <1>2, <1>3

(* end_task without mutexes. *)
LEMMA OrderEnd ==
  ASSUME NEW q, NEW j, NEW t \in Task, Removable(j, q, t), NoMutex(j)
  PROVE  InOrder(end_task(j, t), q, t)
<1>1. PICK d : d = make_dormant(j, t)
  OBVIOUS
<1>2. end_task(j, t) = IF d.actque[t] THEN make_active([d EXCEPT !.actque[t] = FALSE], t)
                       ELSE d
  BY <1>1, NoMutexEnd
<1>3. Removable(d, q, t)
  BY <1>1, OrderFrame DEF Removable, InOrder, SameQueues
<1> HIDE <1>1
<1>4. Removable([d EXCEPT !.actque[t] = FALSE], q, t)
  BY <1>3 DEF Removable, InOrder, OrderType
<1>5. InOrder(make_active([d EXCEPT !.actque[t] = FALSE], t), q, t)
  BY <1>4, OrderInsert
<1> QED BY <1>2, <1>3, <1>5 DEF Removable

(* Every step of the kernel moves at most one task in the ready queues. *)
LEMMA NextOrder ==
  ASSUME IInv(k), NoMutex(k), [Next]_k
  PROVE  \E m : Ord(k.ready_queue, k'.ready_queue, m)
<1> DEFINE Q == k.ready_queue
           O(x) == \E m : InOrder(x, Q, m)
<1>a. /\ Static(k) /\ OrderType(k) /\ InOrder(k, Q, NULL)
      /\ \A t \in Task : "RUNNABLE" \notin k.tstat[t] => Removable(k, Q, t)
  BY OrderStart DEF IInv
<1>b. SUFFICES O(k')
  BY DEF InOrder
<1>c. ASSUME NEW j, O(j), NEW i
      PROVE  O(dispatcher(j)) /\ O(t_leave(j)) /\ O(i_leave(j)) /\ O(Void(i, j))
             /\ O(enable_dispatch(j))
  <2>1. PICK m : InOrder(j, Q, m)
    BY <1>c
  <2>2. /\ SameQueues(j, dispatcher(j)) /\ SameQueues(j, t_leave(j))
        /\ SameQueues(j, i_leave(j)) /\ SameQueues(j, Void(i, j))
        /\ SameQueues(j, enable_dispatch(j))
    BY OrderFrame
  <2>3. ASSUME NEW y, SameQueues(j, y) PROVE O(y)
    BY <2>1, <2>3 DEF InOrder, SameQueues
  <2> QED BY <2>2, <2>3
<1>d. ASSUME NEW y, OrderType(y), y.ready_queue = Q
      PROVE  O(y)
  <2>1. InOrder(y, Q, NULL)
    BY <1>d, <1>a DEF InOrder
  <2> QED BY <2>1
<1>e. ASSUME NEW t \in Task, NEW j, Removable(j, Q, t)
      PROVE  /\ O(make_runnable(j, t)) /\ O(make_active(j, t)) /\ O(make_non_wait(j, t))
             /\ O(j)
  BY <1>e, OrderInsert DEF Removable
<1>f. ASSUME NEW t \in Task, NEW j, Removable(j, Q, t), NEW e, NEW i
      PROVE  /\ Removable(wait_dequeue_wobj(j, t), Q, t)
             /\ Removable(wait_dequeue_tmevtb(j, t), Q, t)
             /\ Removable(set_wercd(j, t, e), Q, t) /\ Removable(make_dormant(j, t), Q, t)
             /\ Removable(Void(i, j), Q, t)
  <2>1. /\ SameQueues(j, wait_dequeue_wobj(j, t)) /\ SameQueues(j, wait_dequeue_tmevtb(j, t))
        /\ SameQueues(j, set_wercd(j, t, e)) /\ SameQueues(j, make_dormant(j, t))
        /\ SameQueues(j, Void(i, j))
    BY OrderFrame
  <2>2. ASSUME NEW y, SameQueues(j, y) PROVE Removable(y, Q, t)
    BY <1>f, <2>2 DEF Removable, InOrder, SameQueues
  <2> QED BY <2>1, <2>2
<1>g. ASSUME NEW t \in Task, NEW j, Removable(j, Q, t)
      PROVE  /\ O(wait_complete(j, t)) /\ O(wait_release(j, t))
             /\ O(wait_tmout(j, t)) /\ O(wait_tmout_ok(j, t))
  <2>1. /\ Removable(set_wercd(wait_dequeue_tmevtb(j, t), t, "E_OK"), Q, t)
        /\ Removable(set_wercd(wait_dequeue_tmevtb(wait_dequeue_wobj(j, t), t), t, "E_RLWAI"), Q, t)
        /\ Removable(set_wercd(wait_dequeue_wobj(j, t), t, "E_TMOUT"), Q, t)
        /\ Removable(set_wercd(j, t, "E_OK"), Q, t)
    BY <1>f, <1>g
  <2> QED BY <2>1, <1>e DEF wait_complete, wait_release, wait_tmout, wait_tmout_ok
<1>1. CASE k' = k
  BY <1>1, <1>a
<1>2. CASE Startup
  <2>1. CASE initialize_task
    <3>1. PICK t \in Task : t = torder[k.boot] /\ "RUNNABLE" \notin k.tstat[t]
      <4>1. k.boot \in 1 .. Len(torder) /\ torder \in Seq(Task)
        BY <2>1, TableAssumption DEF initialize_task, IInv, Context, Boot, Static, Data
      <4>2. torder[k.boot] \in Task /\ k.tstat[torder[k.boot]] = {}
        BY <2>1, <4>1 DEF IInv, Context, Boot, initialize_task
      <4> QED BY <4>2
    <3>2. PICK y : y = [k EXCEPT !.actque[t] = FALSE, !.mutex_queue[t] = <<>>]
      OBVIOUS
    <3>3. Removable(y, Q, t)
      BY <3>1, <3>2, <1>a DEF Removable, InOrder, OrderType
    <3>4. PICK z : z = IF t \in TaAct THEN Void(k, make_active(make_dormant(y, t), t))
                       ELSE make_dormant(y, t)
      OBVIOUS
    <3>5. k' = [z EXCEPT !.boot = @ + 1]
      BY <2>1, <3>1, <3>2, <3>4 DEF initialize_task
    <3> HIDE <3>2
    <3>6. Removable(make_dormant(y, t), Q, t)
      BY <3>3, <1>f
    <3>7. O(z)
      BY <3>4, <3>6, <1>c, <1>e
    <3> HIDE <3>1, <3>4
    <3> QED BY <3>5, <3>7 DEF InOrder, OrderType
  <2>2. CASE start_dispatch
    <3>1. O([k EXCEPT !.kerflg = TRUE])
      BY <1>a, <1>d DEF OrderType
    <3> QED BY <2>2, <3>1, <1>c DEF start_dispatch
  <2> QED BY <1>2, <2>1, <2>2 DEF Startup
<1>3. CASE TaskManage
  <2>1. ASSUME NEW p \in TPRI, NEW b \in BOOLEAN, acre_tsk(p, b)
        PROVE  O(k')
    <3>1. PICK t \in Task : t = Head(k.free_tcb) /\ "RUNNABLE" \notin k.tstat[t]
      <4>1. k.free_tcb \in Seq(Task) /\ k.free_tcb # <<>> /\ FreeOK(k) /\ NoexsOK(k, Task)
        BY <2>1, <1>a DEF acre_tsk, Static, Data
      <4>2. Head(k.free_tcb) = k.free_tcb[1] /\ 1 \in 1 .. Len(k.free_tcb)
            /\ Head(k.free_tcb) \in Task
        BY <4>1
      <4> QED BY <4>1, <4>2 DEF FreeOK, NoexsOK
    <3>2. PICK y : y = [k EXCEPT !.free_tcb = Tail(@), !.tskatr[t] = "TA_NULL",
                                 !.ipriority[t] = p, !.actque[t] = FALSE,
                                 !.mutex_queue[t] = <<>>]
      OBVIOUS
    <3>3. Removable(y, Q, t)
      BY <3>1, <3>2, <1>a DEF Removable, InOrder, OrderType
    <3>4. k' = t_leave(IF b THEN make_active(make_dormant(y, t), t) ELSE make_dormant(y, t))
      BY <2>1, <3>1, <3>2 DEF acre_tsk
    <3> HIDE <3>1, <3>2
    <3>5. Removable(make_dormant(y, t), Q, t)
      BY <3>3, <1>f
    <3> QED BY <3>4, <3>5, <1>c, <1>e
  <2>2. ASSUME NEW t \in Task, del_tsk(t) \/ can_act(t) \/ chg_pri_ini(t)
        PROVE  O(k')
    <3>1. OrderType(k') /\ k'.ready_queue = Q
      BY <2>2, <1>a DEF OrderType, del_tsk, can_act, chg_pri_ini
    <3> QED BY <3>1, <1>d
  <2>3. ASSUME NEW t \in Task, act_tsk(t) \/ iact_tsk(t)
        PROVE  O(k')
    <3>1. O(activate(t))
      <4>1. CASE k.tstat[t] = {}
        BY <4>1, <1>a, <1>e DEF activate, TSTAT_DORMANT, TS_DORMANT
      <4>2. CASE k.tstat[t] # {}
        <5>1. OrderType([k EXCEPT !.actque[t] = TRUE]) /\ [k EXCEPT !.actque[t] = TRUE].ready_queue = Q
          BY <1>a DEF OrderType
        <5> QED BY <4>2, <5>1, <1>d DEF activate, TSTAT_DORMANT, TS_DORMANT
      <4> QED BY <4>1, <4>2
    <3> QED BY <2>3, <3>1, <1>c DEF act_tsk, iact_tsk
  <2>4. ASSUME NEW t \in Task, ter_tsk(t)
        PROVE  O(k')
    <3>1. PICK y : y = IF TSTAT_RUNNABLE(k, t) THEN Void(k, make_non_runnable(k, t))
                       ELSE IF TSTAT_WAITING(k, t)
                            THEN wait_dequeue_tmevtb(wait_dequeue_wobj(k, t), t)
                            ELSE k
      OBVIOUS
    <3>2. NoMutex(y)
      BY <3>1, NoMutexReady, NoMutexTask, NoMutexLeave
    <3>3. Removable(y, Q, t)
      <4>1. CASE "RUNNABLE" \in k.tstat[t]
        <5>1. Removable(make_non_runnable(k, t), Q, t)
          BY <4>1, <1>a, OrderRemove
        <5> QED BY <4>1, <5>1, <3>1, <1>f DEF TSTAT_RUNNABLE
      <4>2. CASE "RUNNABLE" \notin k.tstat[t]
        BY <4>2, <3>1, <1>a, <1>f DEF TSTAT_RUNNABLE
      <4> QED BY <4>1, <4>2
    <3>4. k' = t_leave(end_task(y, t))
      BY <2>4, <3>1 DEF ter_tsk
    <3> HIDE <3>1
    <3>5. O(end_task(y, t))
      BY <3>2, <3>3, OrderEnd
    <3> QED BY <3>4, <3>5, <1>c
  <2>5. ASSUME NEW j, Static(j), j.ready_queue = Q, NoMutex(j), NEW t \in Task, NEW p \in TPRI
        PROVE  O(chg_pri_locked(j, t, p))
    <3>1. OrderType(j) /\ O(j)
      BY <2>5, <1>d, OrderStart
    <3>2. PICK y : y = [j EXCEPT !.bpriority[t] = p]
      OBVIOUS
    <3>3. Frame(j, y, {"bpriority"})
      BY <3>2, <2>5 DEF Frame, Static, Data
    <3>4. O(change_priority(y, t, p, FALSE))
      BY <3>3, <2>5, OrderPriority
    <3>5. \/ chg_pri_locked(j, t, p) = j
          \/ chg_pri_locked(j, t, p) = t_leave(change_priority(y, t, p, FALSE))
      BY <3>2, <2>5, NoMutexChgPri
    <3>6. O(t_leave(change_priority(y, t, p, FALSE)))
      BY <3>4, <1>c
    <3> QED BY <3>1, <3>5, <3>6
  <2>6. ASSUME NEW t \in Task, NEW p \in TPRI, chg_pri(t, p)
        PROVE  O(k')
    BY <2>5, <2>6, <1>a DEF chg_pri
  <2>7. CASE chg_pri_ini_lock
    <3>1. k.p_runtsk \in Task /\ Static(k)
      BY <2>7, TaskContext DEF chg_pri_ini_lock
    <3>2. PICK c \in [tskid : Task, pri : TPRI] : c = k.newbpri[k.p_runtsk]
      BY <2>7, <3>1 DEF chg_pri_ini_lock, Static, Data
    <3>3. PICK y : y = [k EXCEPT !.newbpri[k.p_runtsk] = NULL]
      OBVIOUS
    <3>4. k' = chg_pri_locked(y, c.tskid, c.pri)
      BY <2>7, <3>2, <3>3 DEF chg_pri_ini_lock
    <3>5. /\ NoMutex(y) /\ c.tskid \in Task /\ c.pri \in TPRI /\ y.ready_queue = Q
          /\ y.newbpri = [k.newbpri EXCEPT ![k.p_runtsk] = NULL] /\ Frame(k, y, {"newbpri"})
      BY <3>1, <3>3 DEF NoMutex, Frame, Static, Data, KernelFields
    <3>6. TaskType(y) /\ Frame(k, y, MinorFields)
      BY <3>1, <3>5 DEF TaskType, Static, Data, KernelFields, Frame, MinorFields
    <3>7. Static(y)
      BY <3>1, <3>6, Minor DEF Call
    <3> QED BY <3>4, <3>5, <3>7, <2>5
  <2>8. CASE ext_tsk
    <3>1. PICK t \in Task : t = k.p_runtsk /\ "RUNNABLE" \in k.tstat[t]
      BY <2>8, TaskContext DEF ext_tsk
    <3>2. PICK y : y = [k EXCEPT !.disdsp = FALSE, !.ipmflg = TRUE, !.dspflg = TRUE]
      OBVIOUS
    <3>3. NoMutex(y) /\ OrderType(y) /\ y.ready_queue = Q /\ y.priority = k.priority
      BY <3>2, <1>a DEF NoMutex, OrderType
    <3>4. k' = dispatcher(end_task(make_non_runnable(y, t), t))
      BY <2>8, <3>1, <3>2 DEF ext_tsk
    <3> HIDE <3>2
    <3>5. NoMutex(make_non_runnable(y, t))
      BY <3>3, NoMutexReady
    <3>6. Removable(make_non_runnable(y, t), Q, t)
      BY <3>1, <3>3, <1>a, OrderRemove
    <3>7. O(end_task(make_non_runnable(y, t), t))
      BY <3>5, <3>6, OrderEnd
    <3> QED BY <3>4, <3>7, <1>c
  <2> QED BY <1>3, <2>1, <2>2, <2>3, <2>4, <2>6, <2>7, <2>8 DEF TaskManage
<1>4. CASE TaskSync
  <2>1. ASSUME NEW b \in BOOLEAN, slp_tsk(b) \/ dly_tsk
        PROVE  O(k')
    <3>1. PICK t \in Task : t = k.p_runtsk /\ "RUNNABLE" \in k.tstat[t]
      BY <2>1, TaskContext DEF slp_tsk, dly_tsk, CHECK_DISPATCH, CHECK_TSKCTX_UNL
    <3>2. ASSUME NEW w, NEW c
          PROVE  O(make_wait(begin_wait(w))) /\ O(make_wait_tmevtb(begin_wait(w), c))
      <4>1. PICK y : y = begin_wait(w)
        OBVIOUS
      <4>2. OrderType(y) /\ y.ready_queue = Q /\ y.priority = k.priority /\ y.p_runtsk = t
        BY <4>1, <3>1, <1>a DEF begin_wait, OrderType, Static, Data, KernelFields
      <4>3. Removable(make_non_runnable(y, t), Q, t)
        BY <3>1, <4>2, <1>a, OrderRemove
      <4>4. Removable(Void(y, make_non_runnable(y, t)), Q, t)
        BY <4>3, <1>f
      <4>5. PICK z : z = Void(y, make_non_runnable(y, t))
        OBVIOUS
      <4>6. /\ make_wait(y) = [z EXCEPT !.winfo[t] = "NULL"]
            /\ make_wait_tmevtb(y, c) = [z EXCEPT !.winfo[t] = "p_tmevtb", !.tmevtb[t] = c]
        BY <4>2, <4>5 DEF make_wait, make_wait_tmevtb
      <4>7. Removable(z, Q, t)
        BY <4>4, <4>5
      <4>8. O([z EXCEPT !.winfo[t] = "NULL"]) /\ O([z EXCEPT !.winfo[t] = "p_tmevtb", !.tmevtb[t] = c])
        BY <4>7 DEF Removable, InOrder, OrderType
      <4> QED BY <4>1, <4>6, <4>8
    <3>3. O([k EXCEPT !.wupque[k.p_runtsk] = FALSE])
      BY <1>a, <1>d DEF OrderType
    <3>4. O(make_wait_tmout(begin_wait("SLP"), b))
      BY <3>2 DEF make_wait_tmout
    <3> QED BY <2>1, <3>2, <3>3, <3>4, <1>c DEF slp_tsk, dly_tsk
  <2>2. ASSUME NEW t \in Task, wup_tsk(t) \/ iwup_tsk(t)
        PROVE  O(k')
    <3>1. O([k EXCEPT !.wupque[t] = TRUE])
      BY <1>a, <1>d DEF OrderType
    <3>2. "SLP" \in k.tstat[t] => "RUNNABLE" \notin k.tstat[t]
      BY <1>a DEF Static, WaitsOK, WaitOK
    <3>3. O(wakeup(t))
      BY <3>1, <3>2, <1>a, <1>g DEF wakeup, TSTAT_WAIT
    <3> QED BY <2>2, <3>3, <1>c DEF wup_tsk, iwup_tsk
  <2>3. ASSUME NEW t \in Task, rel_wai(t) \/ irel_wai(t)
        PROVE  O(k')
    <3>1. "RUNNABLE" \notin k.tstat[t]
      BY <2>3, <1>a DEF rel_wai, irel_wai, TSTAT_WAITING, Static, WaitsOK, WaitOK
    <3> QED BY <2>3, <3>1, <1>a, <1>c, <1>g DEF rel_wai, irel_wai
  <2>4. ASSUME NEW t \in Task, can_wup(t)
        PROVE  O(k')
    <3>1. OrderType(k') /\ k'.ready_queue = Q
      BY <2>4, <1>a DEF OrderType, can_wup
    <3> QED BY <3>1, <1>d
  <2>5. ASSUME NEW t \in Task, NEW e
        PROVE  /\ OrderType([k EXCEPT !.tstat[t] = e])
               /\ [k EXCEPT !.tstat[t] = e].ready_queue = Q
               /\ [k EXCEPT !.tstat[t] = e].priority = k.priority
    BY <1>a DEF OrderType
  <2>6. ASSUME NEW t \in Task, sus_tsk(t)
        PROVE  O(k')
    <3>1. CASE TSTAT_RUNNABLE(k, t)
      <4>1. PICK y : y = [k EXCEPT !.tstat[t] = TS_SUSPENDED]
        OBVIOUS
      <4>2. k' = t_leave(make_non_runnable(y, t))
        BY <2>6, <3>1, <4>1 DEF sus_tsk
      <4>3. Removable(make_non_runnable(y, t), Q, t)
        BY <3>1, <4>1, <2>5, <1>a, OrderRemove DEF TSTAT_RUNNABLE
      <4>4. O(make_non_runnable(y, t))
        BY <4>3 DEF Removable
      <4> QED BY <4>2, <4>4, <1>c
    <3>2. CASE ~TSTAT_RUNNABLE(k, t)
      BY <2>6, <3>2, <2>5, <1>d DEF sus_tsk
    <3> QED BY <3>1, <3>2
  <2>7. ASSUME NEW t \in Task, rsm_tsk(t)
        PROVE  O(k')
    <3>1. CASE TSTAT_WAITING(k, t)
      BY <2>7, <3>1, <2>5, <1>d DEF rsm_tsk
    <3>2. CASE ~TSTAT_WAITING(k, t)
      <4>1. PICK y : y = [k EXCEPT !.tstat[t] = TS_RUNNABLE]
        OBVIOUS
      <4>2. k' = t_leave(make_runnable(y, t))
        BY <2>7, <3>2, <4>1 DEF rsm_tsk
      <4>3. "RUNNABLE" \notin k.tstat[t]
        BY <2>7, <1>a DEF rsm_tsk, TSTAT_SUSPENDED, Static, WaitsOK, WaitOK
      <4>4. Removable(y, Q, t)
        BY <4>1, <4>3, <2>5, <1>a DEF Removable, InOrder
      <4> QED BY <4>2, <4>4, <1>c, <1>e
    <3> QED BY <3>1, <3>2
  <2> QED BY <1>4, <2>1, <2>2, <2>3, <2>4, <2>6, <2>7 DEF TaskSync
<1>5. CASE SysManage
  <2>1. ASSUME NEW p \in TPRI, rot_rdq(p) \/ irot_rdq(p)
        PROVE  O(k')
    BY <2>1, <1>a, <1>c, OrderRotate DEF rot_rdq, irot_rdq
  <2>2. CASE loc_cpu \/ unl_cpu \/ iloc_cpu \/ iunl_cpu \/ dis_dsp
    <3>1. OrderType(k') /\ k'.ready_queue = Q
      BY <2>2, <1>a DEF OrderType, loc_cpu, unl_cpu, iloc_cpu, iunl_cpu, dis_dsp
    <3> QED BY <3>1, <1>d
  <2>3. CASE ena_dsp
    <3>1. O([k EXCEPT !.disdsp = FALSE])
      BY <1>a, <1>d DEF OrderType
    <3> QED BY <2>3, <3>1, <1>c DEF ena_dsp
  <2>4. ASSUME NEW b \in BOOLEAN, chg_ipm(b)
        PROVE  O(k')
    <3>1. PICK y : y = [k EXCEPT !.ipmflg = b]
      OBVIOUS
    <3>2. OrderType(y) /\ y.ready_queue = Q
      BY <3>1, <1>a DEF OrderType
    <3>3. O(y) /\ O([y EXCEPT !.dspflg = FALSE])
      BY <3>2, <1>d DEF OrderType
    <3> QED BY <2>4, <3>1, <3>3, <1>c DEF chg_ipm
  <2> QED BY <1>5, <2>1, <2>2, <2>3, <2>4 DEF SysManage
<1>6. CASE Processor
  <2>1. CASE wait_return \/ int_entry
    <3>1. OrderType(k') /\ k'.ready_queue = Q
      BY <2>1, <1>a DEF OrderType, wait_return, int_entry
    <3> QED BY <3>1, <1>d
  <2>2. CASE ret_int
    <3>1. PICK y : y = [k EXCEPT !.excpt_nest_count = @ - 1, !.lock = FALSE]
      OBVIOUS
    <3>2. OrderType(y) /\ y.ready_queue = Q
      BY <3>1, <1>a DEF OrderType
    <3>3. O(y) /\ O([y EXCEPT !.reqflg = FALSE])
      BY <3>2, <1>d DEF OrderType
    <3> QED BY <2>2, <3>1, <3>3, <1>c DEF ret_int
  <2>3. CASE idle_loop
    <3>1. O([k EXCEPT !.reqflg = FALSE])
      BY <1>a, <1>d DEF OrderType
    <3> QED BY <2>3, <3>1, <1>c DEF idle_loop
  <2>4. ASSUME NEW t \in Task, signal_time(t)
        PROVE  O(k')
    <3>1. "RUNNABLE" \notin k.tstat[t]
      BY <2>4, <1>a DEF signal_time, Static, WaitsOK, WaitOK
    <3>2. Removable([k EXCEPT !.tmevtb[t] = "none"], Q, t)
      BY <3>1, <1>a DEF Removable, InOrder, OrderType
    <3> QED BY <2>4, <3>2, <1>c, <1>g DEF signal_time
  <2> QED BY <1>6, <2>1, <2>2, <2>3, <2>4 DEF Processor
<1> QED BY <1>1, <1>2, <1>3, <1>4, <1>5, <1>6 DEF Next

(* Among tasks of the same priority a task loses its place to another only *)
(* by moving to the tail: a preempted task keeps its precedence, whatever  *)
(* calls and interrupts intervene, for every number of tasks.              *)
THEOREM KernelPrecedenceStable == Spec => PrecedenceStable
<1>1. Init => IInv(k) /\ NoMutex(k)
  <2>1. Init => NoMutex(k)
    BY DEF Init, KInit, NoMutex
  <2> QED BY <2>1, InitIInv
<1>2. (IInv(k) /\ NoMutex(k)) /\ [Next]_k => (IInv(k) /\ NoMutex(k))'
  BY NextIInv, NextNoMutex
<1>3. (IInv(k) /\ NoMutex(k)) /\ IInv(k)' /\ [Next]_k =>
        [\A t, u \in Task :
           Before(k, t, u) /\ Before(k', u, t) /\ k'.priority[t] = k.priority[t]
             => t = Last(k'.ready_queue[k'.priority[t]])]_k
  <2> SUFFICES ASSUME IInv(k), NoMutex(k), IInv(k'), [Next]_k,
                      NEW t \in Task, NEW u \in Task, Before(k, t, u), Before(k', u, t)
               PROVE  t = Last(k'.ready_queue[k'.priority[t]])
    OBVIOUS
  <2>1. /\ ReadyQueueOK(k, Runnable(k)) /\ k.ready_queue \in ReadyQueues
        /\ k.priority \in [Task -> TPRI]
        /\ ReadyQueueOK(k', Runnable(k')) /\ k'.ready_queue \in ReadyQueues
        /\ k'.priority \in [Task -> TPRI]
    BY DEF IInv, Static, Data, SchedType, ReadyQueues
  <2>2. PICK m : Ord(k.ready_queue, k'.ready_queue, m)
    BY NextOrder
  <2> QED BY <2>1, <2>2, OrdStable
<1> QED BY <1>1, <1>2, <1>3, PTL DEF Spec, PrecedenceStable
=============================================================================
