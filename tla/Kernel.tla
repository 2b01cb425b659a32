------------------------------- MODULE Kernel -------------------------------
(***************************************************************************)
(* The task part of the TOPPERS/ASP kernel as a state machine: start-up,   *)
(* the service calls of kernel/task_manage.c, kernel/task_sync.c and the   *)
(* system-state calls of kernel/sys_manage.c and kernel/interrupt.c, the   *)
(* dispatcher and the interrupt exit of arch/arm_gcc/common/core_support.S *)
(* and the time-out callbacks of kernel/wait.c.                            *)
(*                                                                         *)
(* A service call runs with the CPU locked and is one action; it is made   *)
(* by the running task (nest count 0) or by the innermost interrupt        *)
(* handler.  A call that only returns an error code, or only reads, leaves *)
(* the state unchanged and has no action.                                  *)
(*                                                                         *)
(* Next is the kernel without mutexes; module Mutex adds them.             *)
(***************************************************************************)
EXTENDS MutexHooks

CONSTANTS
  torder,      \* torder_table: the statically created tasks, in order
  atcb,        \* the TCBs for dynamic creation, in table order
  tinib_pri,   \* their initial priorities (tinib_table[].ipriority)
  TaAct,       \* the static tasks with attribute TA_ACT
  MaxNest      \* bound: interrupt handlers active at the same time

ASSUME TableAssumption ==
  /\ torder \in Seq(Task) /\ atcb \in Seq(Task)
  /\ Range(torder) \cap Range(atcb) = {}
  /\ \A i, j \in 1 .. Len(torder) : torder[i] = torder[j] => i = j
  /\ \A i, j \in 1 .. Len(atcb) : atcb[i] = atcb[j] => i = j
  /\ tinib_pri \in [Task -> TPRI]
ASSUME MaxNestAssumption == MaxNest \in Nat

VARIABLE k

-----------------------------------------------------------------------------
(***************************************************************************)
(* Start-up.  initialize_task runs once per static task (k.boot counts     *)
(* them), with interrupts disabled; start_dispatch then starts the first   *)
(* task.                                                                   *)
(***************************************************************************)
KInit ==
  [tstat       |-> [t \in Task |-> TS_DORMANT],
   tskatr      |-> [t \in Task |-> IF t \in Range(atcb) THEN "TA_NOEXS" ELSE "TA_NULL"],
   ipriority   |-> tinib_pri,
   bpriority   |-> tinib_pri,
   priority    |-> tinib_pri,
   actque      |-> [t \in Task |-> FALSE],
   wupque      |-> [t \in Task |-> FALSE],
   winfo       |-> [t \in Task |-> "none"],
   tmevtb      |-> [t \in Task |-> "none"],
   newbpri     |-> [t \in Task |-> NULL],
   mutex_queue |-> [t \in Task |-> <<>>],
   p_wobjcb    |-> [t \in Task |-> NULL],
   wait_queue  |-> [o \in Wobj |-> <<>>],
   wobjatr     |-> [o \in Wobj |-> "TA_NULL"],
   free_tcb    |-> atcb,
   ready_queue |-> [p \in TPRI |-> <<>>],
   ready_primap |-> {},
   p_schedtsk  |-> NULL,
   p_runtsk    |-> NULL,
   reqflg      |-> FALSE,
   disdsp      |-> FALSE,
   ipmflg      |-> TRUE,
   dspflg      |-> TRUE,
   dspreq      |-> FALSE,
   lock        |-> TRUE,
   excpt_nest_count |-> 1,
   boot        |-> 1,
   kerflg      |-> FALSE]

Init == k = KInit

(* dispatcher_0: p_schedtsk becomes the running task; without one the      *)
(* processor goes to the idle loop, which counts as a non-task context.    *)
dispatcher(k1) ==
  [k1 EXCEPT !.p_runtsk = k1.p_schedtsk,
             !.excpt_nest_count = IF k1.p_schedtsk = NULL THEN 1 ELSE 0,
             !.lock = FALSE,
             !.dspreq = FALSE]

initialize_task ==
  /\ ~k.kerflg /\ k.boot <= Len(torder)
  /\ LET t  == torder[k.boot]
         k1 == make_dormant([k EXCEPT !.actque[t] = FALSE, !.mutex_queue[t] = <<>>], t)
         k2 == IF t \in TaAct THEN Void(k, make_active(k1, t)) ELSE k1
     IN  k' = [k2 EXCEPT !.boot = @ + 1]

start_dispatch ==
  /\ ~k.kerflg /\ k.boot > Len(torder)
  /\ k' = dispatcher([k EXCEPT !.kerflg = TRUE])

-----------------------------------------------------------------------------
(***************************************************************************)
(* Contexts.                                                               *)
(***************************************************************************)
Idle == k.p_runtsk = NULL /\ k.excpt_nest_count = 1

(* A task that has just been dispatched inside a waiting call is about to  *)
(* read its WINFO with the CPU still locked.                               *)
Resuming == /\ k.kerflg /\ k.excpt_nest_count = 0
            /\ k.p_runtsk # NULL /\ k.winfo[k.p_runtsk] # "none"

TSKCTX == k.kerflg /\ k.excpt_nest_count = 0 /\ ~Resuming
INTCTX == k.kerflg /\ k.excpt_nest_count > 0 /\ ~Idle

(* CHECK_TSKCTX_UNL, CHECK_DISPATCH and CHECK_INTCTX_UNL; a task inside    *)
(* chg_pri (see below) makes no other call.                                *)
CHECK_TSKCTX_UNL == TSKCTX /\ ~k.lock /\ k.newbpri[k.p_runtsk] = NULL
CHECK_DISPATCH == CHECK_TSKCTX_UNL /\ k.dspflg
CHECK_INTCTX_UNL == INTCTX /\ ~k.lock

exists(t) == k.tskatr[t] # "TA_NOEXS"

(* Fault: the handler's request for a dispatch is forgotten. *)
i_leave_silent(k1) == [k1 EXCEPT !.dspreq = FALSE]

(* if (dspreq) dispatch();  and  if (dspreq) reqflg = true;                *)
t_leave(k1) == IF k1.dspreq THEN dispatcher(k1) ELSE k1
i_leave(k1) == [k1 EXCEPT !.reqflg = @ \/ k1.dspreq, !.dspreq = FALSE]

-----------------------------------------------------------------------------
(***************************************************************************)
(* task_manage.c                                                           *)
(***************************************************************************)
acre_tsk(ipri, ta_act) ==
  /\ CHECK_TSKCTX_UNL /\ k.free_tcb # <<>>
  /\ LET t  == Head(k.free_tcb)
         k1 == make_dormant([k EXCEPT !.free_tcb = Tail(@), !.tskatr[t] = "TA_NULL",
                                      !.ipriority[t] = ipri, !.actque[t] = FALSE,
                                      !.mutex_queue[t] = <<>>], t)
     IN  k' = t_leave(IF ta_act THEN make_active(k1, t) ELSE k1)

(* Fault: the TCB is not returned to the free list. *)
del_tsk_leak(t) ==
  /\ CHECK_TSKCTX_UNL /\ exists(t)
  /\ t \in Range(atcb) /\ TSTAT_DORMANT(k, t)
  /\ k' = [k EXCEPT !.tskatr[t] = "TA_NOEXS"]

del_tsk(t) ==
  /\ CHECK_TSKCTX_UNL /\ exists(t)
  /\ t \in Range(atcb) /\ TSTAT_DORMANT(k, t)
  /\ k' = [k EXCEPT !.tskatr[t] = "TA_NOEXS", !.free_tcb = Append(@, t)]

(* The body of act_tsk and iact_tsk. *)
can_activate(t) == exists(t) /\ (TSTAT_DORMANT(k, t) \/ ~k.actque[t])
activate(t) == IF TSTAT_DORMANT(k, t) THEN make_active(k, t)
               ELSE [k EXCEPT !.actque[t] = TRUE]

act_tsk(t) == CHECK_TSKCTX_UNL /\ can_activate(t) /\ k' = t_leave(activate(t))
iact_tsk(t) == CHECK_INTCTX_UNL /\ can_activate(t) /\ k' = i_leave(activate(t))

can_act(t) == /\ CHECK_TSKCTX_UNL /\ exists(t)
              /\ k' = [k EXCEPT !.actque[t] = FALSE]

(* The end of ext_tsk and ter_tsk: the task's mutexes are released, it     *)
(* becomes dormant and restarts for a queued activation request.           *)
end_task(k1, t) ==
  LET k2 == make_dormant(IF k1.mutex_queue[t] # <<>> THEN mutex_release_all(k1, t) ELSE k1, t)
  IN  IF k2.actque[t] THEN make_active([k2 EXCEPT !.actque[t] = FALSE], t) ELSE k2

ext_tsk ==
  /\ TSKCTX /\ k.newbpri[k.p_runtsk] = NULL
  /\ LET t  == k.p_runtsk
         k1 == [k EXCEPT !.disdsp = FALSE, !.ipmflg = TRUE, !.dspflg = TRUE]
     IN  k' = dispatcher(end_task(make_non_runnable(k1, t), t))

ter_tsk(t) ==
  /\ CHECK_TSKCTX_UNL /\ exists(t)
  /\ t # k.p_runtsk /\ ~TSTAT_DORMANT(k, t)
  /\ LET k1 == IF TSTAT_RUNNABLE(k, t) THEN Void(k, make_non_runnable(k, t))
               ELSE IF TSTAT_WAITING(k, t)
                    THEN wait_dequeue_tmevtb(wait_dequeue_wobj(k, t), t)
                    ELSE k
     IN  k' = t_leave(end_task(k1, t))

(* The locked part of chg_pri on the kernel state k1. *)
chg_pri_locked(k1, t, newbpri) ==
  LET holds == k1.mutex_queue[t] # <<>>
      k2    == [k1 EXCEPT !.bpriority[t] = newbpri]
  IN  IF /\ k1.tskatr[t] # "TA_NOEXS" /\ ~TSTAT_DORMANT(k1, t)
         /\ holds \/ TSTAT_WAIT(k1, t, "MTX") => mutex_check_ceilpri(k1, t, newbpri)
      THEN IF holds /\ mutex_scan_ceilmtx(k2, t) THEN k2
           ELSE t_leave(change_priority(k2, t, newbpri, FALSE))
      ELSE k1

chg_pri(t, newbpri) ==
  /\ CHECK_TSKCTX_UNL
  /\ k' = chg_pri_locked(k, t, newbpri)

(* Fault: the priority is taken in its external representation. *)
chg_pri_ini_ext(t) ==
  /\ CHECK_TSKCTX_UNL
  /\ k' = [k EXCEPT !.newbpri[k.p_runtsk] = [tskid |-> t, pri |-> k.ipriority[t] + 1]]

(* chg_pri(t, TPRI_INI) reads t's initial priority before it locks the     *)
(* CPU, so the call is two steps; other tasks may run in between.          *)
chg_pri_ini(t) ==
  /\ CHECK_TSKCTX_UNL
  /\ k' = [k EXCEPT !.newbpri[k.p_runtsk] = [tskid |-> t, pri |-> k.ipriority[t]]]

chg_pri_ini_lock ==
  /\ TSKCTX /\ ~k.lock /\ k.newbpri[k.p_runtsk] # NULL
  /\ LET c == k.newbpri[k.p_runtsk]
     IN  k' = chg_pri_locked([k EXCEPT !.newbpri[k.p_runtsk] = NULL],
                             c.tskid, c.pri)

-----------------------------------------------------------------------------
(***************************************************************************)
(* task_sync.c                                                             *)
(***************************************************************************)
begin_wait(kind) == [k EXCEPT !.tstat[k.p_runtsk] = TS_WAITING(kind)]

(* slp_tsk and tslp_tsk: tmout is TRUE for a timeout > 0. *)
slp_tsk(tmout) ==
  /\ CHECK_DISPATCH
  /\ k' = IF k.wupque[k.p_runtsk] THEN [k EXCEPT !.wupque[k.p_runtsk] = FALSE]
          ELSE dispatcher(make_wait_tmout(begin_wait("SLP"), tmout))

dly_tsk ==
  /\ CHECK_DISPATCH
  /\ k' = dispatcher(make_wait_tmevtb(begin_wait("DLY"), "wait_tmout_ok"))

(* dispatch() returns inside the waiting call: ercd = winfo.wercd. *)
wait_return ==
  /\ Resuming
  /\ k' = [k EXCEPT !.winfo[k.p_runtsk] = "none"]

can_wakeup(t) == /\ exists(t) /\ ~TSTAT_DORMANT(k, t)
                 /\ TSTAT_WAIT(k, t, "SLP") \/ ~k.wupque[t]
wakeup(t) == IF TSTAT_WAIT(k, t, "SLP") THEN wait_complete(k, t)
             ELSE [k EXCEPT !.wupque[t] = TRUE]

wup_tsk(t) == CHECK_TSKCTX_UNL /\ can_wakeup(t) /\ k' = t_leave(wakeup(t))
iwup_tsk(t) == CHECK_INTCTX_UNL /\ can_wakeup(t) /\ k' = i_leave(wakeup(t))

can_wup(t) == /\ CHECK_TSKCTX_UNL /\ exists(t) /\ ~TSTAT_DORMANT(k, t)
              /\ k' = [k EXCEPT !.wupque[t] = FALSE]

rel_wai(t) == /\ CHECK_TSKCTX_UNL /\ exists(t) /\ TSTAT_WAITING(k, t)
              /\ k' = t_leave(wait_release(k, t))
irel_wai(t) == /\ CHECK_INTCTX_UNL /\ exists(t) /\ TSTAT_WAITING(k, t)
               /\ k' = i_leave(wait_release(k, t))

(* Fault: a task suspends itself while dispatching is disabled. *)
sus_tsk_self(t) ==
  /\ CHECK_TSKCTX_UNL /\ exists(t)
  /\ ~TSTAT_DORMANT(k, t) /\ ~TSTAT_SUSPENDED(k, t)
  /\ k' = IF TSTAT_RUNNABLE(k, t)
          THEN t_leave(make_non_runnable([k EXCEPT !.tstat[t] = TS_SUSPENDED], t))
          ELSE [k EXCEPT !.tstat[t] = @ \cup TS_SUSPENDED]

sus_tsk(t) ==
  /\ CHECK_TSKCTX_UNL /\ exists(t)
  /\ t = k.p_runtsk => k.dspflg
  /\ ~TSTAT_DORMANT(k, t) /\ ~TSTAT_SUSPENDED(k, t)
  /\ k' = IF TSTAT_RUNNABLE(k, t)
          THEN t_leave(make_non_runnable([k EXCEPT !.tstat[t] = TS_SUSPENDED], t))
          ELSE [k EXCEPT !.tstat[t] = @ \cup TS_SUSPENDED]

rsm_tsk(t) ==
  /\ CHECK_TSKCTX_UNL /\ exists(t) /\ TSTAT_SUSPENDED(k, t)
  /\ k' = IF TSTAT_WAITING(k, t)
          THEN [k EXCEPT !.tstat[t] = @ \ TS_SUSPENDED]
          ELSE t_leave(make_runnable([k EXCEPT !.tstat[t] = TS_RUNNABLE], t))

-----------------------------------------------------------------------------
(***************************************************************************)
(* sys_manage.c and chg_ipm of interrupt.c                                 *)
(***************************************************************************)
rot_rdq(pri) == CHECK_TSKCTX_UNL /\ k' = t_leave(rotate_ready_queue(k, pri))
irot_rdq(pri) == CHECK_INTCTX_UNL /\ k' = i_leave(rotate_ready_queue(k, pri))

loc_cpu == /\ TSKCTX /\ k.newbpri[k.p_runtsk] = NULL
           /\ k' = [k EXCEPT !.lock = TRUE]
unl_cpu == /\ TSKCTX /\ k.newbpri[k.p_runtsk] = NULL
           /\ k' = [k EXCEPT !.lock = FALSE]
iloc_cpu == INTCTX /\ k' = [k EXCEPT !.lock = TRUE]
iunl_cpu == INTCTX /\ k' = [k EXCEPT !.lock = FALSE]

(* if (p_runtsk != p_schedtsk) dispatch(); *)
enable_dispatch(k1) ==
  LET k2 == [k1 EXCEPT !.dspflg = TRUE]
  IN  IF k2.p_runtsk # k2.p_schedtsk THEN dispatcher(k2) ELSE k2

dis_dsp == CHECK_TSKCTX_UNL /\ k' = [k EXCEPT !.disdsp = TRUE, !.dspflg = FALSE]

ena_dsp ==
  /\ CHECK_TSKCTX_UNL
  /\ LET k1 == [k EXCEPT !.disdsp = FALSE]
     IN  k' = IF k.ipmflg THEN enable_dispatch(k1) ELSE k1

(* enaall: the new mask is TIPM_ENAALL. *)
chg_ipm(enaall) ==
  /\ CHECK_TSKCTX_UNL
  /\ LET k1 == [k EXCEPT !.ipmflg = enaall]
     IN  k' = IF ~enaall THEN [k1 EXCEPT !.dspflg = FALSE]
              ELSE IF k.disdsp THEN k1 ELSE enable_dispatch(k1)

-----------------------------------------------------------------------------
(***************************************************************************)
(* Interrupts (core_support.S).                                            *)
(***************************************************************************)
int_entry ==
  /\ k.kerflg /\ ~k.lock /\ ~Resuming
  /\ k.excpt_nest_count < MaxNest + (IF k.p_runtsk = NULL THEN 1 ELSE 0)
  /\ k' = [k EXCEPT !.excpt_nest_count = @ + 1]

(* ret_int: only the outermost handler, returning to a task, looks at      *)
(* reqflg.  The return restores the interrupted context's unlocked state.  *)
ret_int ==
  /\ INTCTX
  /\ LET k1 == [k EXCEPT !.excpt_nest_count = @ - 1, !.lock = FALSE]
         k2 == [k1 EXCEPT !.reqflg = FALSE]
     IN  k' = IF k1.excpt_nest_count > 0 \/ ~k.reqflg THEN k1
              ELSE IF k.dspflg /\ k.p_runtsk # k.p_schedtsk THEN dispatcher(k2)
              ELSE k2

(* dispatcher_2: the idle loop leaves when an interrupt has set reqflg. *)
idle_loop ==
  /\ k.kerflg /\ Idle /\ k.reqflg
  /\ k' = dispatcher([k EXCEPT !.reqflg = FALSE])

(* One iteration of signal_time's loop in the timer handler: t's time      *)
(* event block leaves the heap and its callback runs.                      *)
signal_time(t) ==
  /\ CHECK_INTCTX_UNL /\ k.tmevtb[t] # "none"
  /\ LET k1 == [k EXCEPT !.tmevtb[t] = "none"]
     IN  k' = i_leave(IF k.tmevtb[t] = "wait_tmout" THEN wait_tmout(k1, t)
                      ELSE wait_tmout_ok(k1, t))

-----------------------------------------------------------------------------
(***************************************************************************)
(* The kernel without mutexes: mutex_queue is always empty.                *)
(***************************************************************************)
Startup == initialize_task \/ start_dispatch

TaskManage ==
  \/ \E p \in TPRI, b \in BOOLEAN : acre_tsk(p, b)
  \/ \E t \in Task : \/ del_tsk(t) \/ act_tsk(t) \/ iact_tsk(t) \/ can_act(t)
                     \/ ter_tsk(t)
                     \/ chg_pri_ini(t)
                     \/ \E p \in TPRI : chg_pri(t, p)
  \/ chg_pri_ini_lock
  \/ ext_tsk

TaskSync ==
  \/ \E b \in BOOLEAN : slp_tsk(b)
  \/ dly_tsk
  \/ \E t \in Task : \/ wup_tsk(t) \/ iwup_tsk(t) \/ can_wup(t)
                     \/ rel_wai(t) \/ irel_wai(t) \/ sus_tsk(t) \/ rsm_tsk(t)

SysManage ==
  \/ \E p \in TPRI : rot_rdq(p) \/ irot_rdq(p)
  \/ loc_cpu \/ unl_cpu \/ iloc_cpu \/ iunl_cpu
  \/ dis_dsp \/ ena_dsp
  \/ \E b \in BOOLEAN : chg_ipm(b)

Processor ==
  \/ wait_return \/ int_entry \/ ret_int \/ idle_loop
  \/ \E t \in Task : signal_time(t)

Next == Startup \/ TaskManage \/ TaskSync \/ SysManage \/ Processor

Spec == Init /\ [][Next]_k
-----------------------------------------------------------------------------
(***************************************************************************)
(* Properties.                                                             *)
(***************************************************************************)

(* Every field of the kernel's data has the type of the C variable. *)
TypeOK ==
  /\ SchedType(k)
  /\ k.ipriority \in [Task -> TPRI] /\ k.bpriority \in [Task -> TPRI]
  /\ k.actque \in [Task -> BOOLEAN] /\ k.wupque \in [Task -> BOOLEAN]
  /\ k.winfo \in [Task -> Winfo] /\ k.tmevtb \in [Task -> Callback]
  /\ k.newbpri \in [Task -> [tskid : Task, pri : TPRI] \cup {NULL}]
  /\ k.free_tcb \in Seq(Task)
  /\ k.p_runtsk \in Task \cup {NULL}
  /\ {k.reqflg, k.disdsp, k.ipmflg, k.lock, k.kerflg} \subseteq BOOLEAN
  /\ k.excpt_nest_count \in 0 .. MaxNest + 1

(* The ready queue holds the runnable tasks, each exactly once, in the     *)
(* queue of its priority; the bit map marks the non-empty queues; and      *)
(* p_schedtsk is the head of the highest-priority non-empty queue (what    *)
(* bit_task of test/bit_kernel.c checks at run time).                      *)
SchedInv == ReadyQueueOK(k, Runnable(k)) /\ SchedtskOK(k)

(* No dispatch is lost, though it is made or requested only when a         *)
(* function has returned true: with dispatching enabled the running task   *)
(* is the one to be scheduled; a handler in which they differ has set      *)
(* reqflg, and so has the handler that ended the idle state.               *)
NoLostDispatch ==
  k.kerflg =>
    /\ k.excpt_nest_count = 0 => k.p_runtsk # NULL
    /\ k.excpt_nest_count = 0 /\ k.dspflg => k.p_runtsk = k.p_schedtsk
    /\ k.excpt_nest_count > 0 /\ k.dspflg /\ k.p_runtsk # k.p_schedtsk => k.reqflg

(* The running task is runnable in every context: no handler and no other  *)
(* task takes it out of the ready queue, also while dispatching is         *)
(* disabled; the idle state has dispatching enabled.                       *)
RunningOK ==
  /\ k.p_runtsk # NULL => TSTAT_RUNNABLE(k, k.p_runtsk)
  /\ k.p_runtsk = NULL => k.dspflg
  /\ k.dspflg = (~k.disdsp /\ k.ipmflg)

(* The union WINFO is read as a pointer exactly while the task waits, its  *)
(* time event block is in the heap exactly while WINFO points to it, and   *)
(* a task that was released finds an error code in it (comment on WINFO in *)
(* kernel/task.h).                                                         *)
WinfoOK ==
  \A t \in Task :
    /\ TSTAT_WAITING(k, t) => k.winfo[t] \in {"NULL", "p_tmevtb"}
    /\ k.tmevtb[t] # "none" <=> TSTAT_WAITING(k, t) /\ k.winfo[t] = "p_tmevtb"
    /\ ~TSTAT_WAITING(k, t) /\ ~TSTAT_DORMANT(k, t) => k.winfo[t] \in {"none"} \cup Wercd
    /\ k.tmevtb[t] = "wait_tmout_ok" <=> TSTAT_WAIT(k, t, "DLY")
    /\ k.winfo[t] = "E_TMOUT" => ~TSTAT_WAITING(k, t)

(* A dormant task has its initial values and no queued request (comment on *)
(* the TCB in kernel/task.h); the free list is exactly the non-existent    *)
(* tasks.                                                                  *)
DormantOK ==
  /\ \A t \in Task : TSTAT_DORMANT(k, t) /\ exists(t) =>
       /\ k.priority[t] = k.ipriority[t] /\ k.bpriority[t] = k.ipriority[t]
       /\ ~k.wupque[t] /\ ~k.actque[t]
  /\ \A t \in Task : ~exists(t) <=> t \in Range(k.free_tcb)
  /\ \A t \in Task : ~exists(t) => TSTAT_DORMANT(k, t)

(* Precedence among tasks of the same priority changes only by moving a    *)
(* task to the tail: a preempted task keeps its place before the others.   *)
Before(k1, t, u) ==
  LET q == k1.ready_queue[k1.priority[t]]
  IN  \E i, j \in 1 .. Len(q) : i < j /\ q[i] = t /\ q[j] = u

PrecedenceStable ==
  [][\A t, u \in Task :
       Before(k, t, u) /\ Before(k', u, t) /\ k'.priority[t] = k.priority[t]
         => t = Last(k'.ready_queue[k'.priority[t]])]_k

(* chg_pri(t, TPRI_INI) gives the task t the base priority it starts with  *)
(* (include/kernel.h, asp_spec: TPRI_INI is the initial priority of the    *)
(* task the call is made on).                                              *)
ChgPriIniOK ==
  [][\A t \in Task :
       k.newbpri[t] # NULL /\ k'.newbpri[t] = NULL /\ k.p_runtsk = t =>
         LET u == k.newbpri[t].tskid
         IN  ~TSTAT_DORMANT(k, u) => k'.bpriority[u] = k.ipriority[u]]_k
=============================================================================
