------------------------------- MODULE Mutex --------------------------------
(***************************************************************************)
(* Mutexes with the priority ceiling protocol: kernel/mutex.c, on top of   *)
(* the task part of the kernel (module Kernel) and the functions of module *)
(* MutexHooks.  The synchronization objects Wobj are the mutexes.          *)
(*                                                                         *)
(* The fields wait_queue[m], wobjatr[m] (mtxatr), p_loctsk[m] and          *)
(* ceilpri[m] are those of MTXCB and MTXINIB; mutex_queue[t] is the queue  *)
(* of the mutexes task t holds.  A free mutex (TA_NOEXS) is linked in      *)
(* free_mtxcb through its wait_queue, so code that takes the wait queue of *)
(* a free mutex for a queue of tasks, or links a mutex that is in one      *)
(* mutex_queue into another, corrupts memory: k.undef is then TRUE and     *)
(* nothing more is said about the system.                                  *)
(***************************************************************************)
EXTENDS Kernel

CONSTANTS
  mtxatr,   \* the attributes of the static mutexes (mtxinib_table)
  mtxceil,  \* their ceiling priorities
  amtx      \* the mutexes for dynamic creation, in table order

ASSUME MutexAssumption ==
  /\ mtxatr \in [Wobj -> {"TA_NULL", "TA_TPRI", "TA_CEILING"}]
  /\ mtxceil \in [Wobj -> TPRI] /\ amtx \in Seq(Wobj)
  /\ \A i, j \in 1 .. Len(amtx) : amtx[i] = amtx[j] => i = j

initialize_mutex ==
  LET mtx == [wobjatr    |-> [m \in Wobj |-> IF m \in Range(amtx) THEN "TA_NOEXS"
                                             ELSE mtxatr[m]],
              p_loctsk   |-> [m \in Wobj |-> NULL],
              ceilpri    |-> mtxceil,
              free_mtxcb |-> amtx,
              undef      |-> FALSE]
  IN  [f \in DOMAIN KInit \cup DOMAIN mtx |-> IF f \in DOMAIN mtx THEN mtx[f] ELSE KInit[f]]

InitMutex == k = initialize_mutex

-----------------------------------------------------------------------------
mutex_calc_priority(k1, t) ==
  LET held == {m \in Range(k1.mutex_queue[t]) : MTX_CEILING(k1, m)}
  IN  Min({k1.bpriority[t]} \cup {k1.ceilpri[m] : m \in held})

mutex_raise_priority(k1, t, newpri) ==
  IF newpri < k1.priority[t] THEN change_priority(k1, t, newpri, TRUE) ELSE k1

mutex_drop_priority(k1, t, oldpri) ==
  LET newpri == mutex_calc_priority(k1, t)
  IN  IF oldpri = k1.priority[t] /\ newpri # k1.priority[t]
      THEN change_priority(k1, t, newpri, TRUE) ELSE k1

(* m is linked in the mutex_queue of some task. *)
linked(k1, m) == \E t \in Task : m \in Range(k1.mutex_queue[t])

mutex_acquire(k1, t, m) ==
  LET k2 == [k1 EXCEPT !.p_loctsk[m] = t,
                       !.mutex_queue[t] = queue_insert_next(@, m),
                       !.undef = @ \/ linked(k1, m)]
  IN  IF MTX_CEILING(k1, m) THEN mutex_raise_priority(k2, t, k1.ceilpri[m]) ELSE k2

-----------------------------------------------------------------------------
(* pk_cmtx->ceilpri is an external priority, 1 .. TNUM_TPRI. *)
acre_mtx(atr, pk_ceilpri) ==
  /\ CHECK_TSKCTX_UNL /\ k.free_mtxcb # <<>>
  /\ LET m == Head(k.free_mtxcb)
     IN  k' = [k EXCEPT !.free_mtxcb = Tail(@), !.wobjatr[m] = atr,
                        !.ceilpri[m] = pk_ceilpri, !.wait_queue[m] = <<>>,
                        !.p_loctsk[m] = NULL]

del_mtx(m) ==
  /\ CHECK_TSKCTX_UNL /\ mtx_exists(k, m) /\ m \in Range(amtx)
  /\ k' = t_leave([init_wait_queue(k, m) EXCEPT !.wobjatr[m] = "TA_NOEXS",
                                                !.free_mtxcb = Append(@, m)])

(* Not E_NOEXS, E_ILUSE or E_OBJ. *)
may_lock(m) == /\ mtx_exists(k, m) /\ k.p_loctsk[m] # k.p_runtsk
               /\ MTX_CEILING(k, m) => k.bpriority[k.p_runtsk] >= k.ceilpri[m]

(* loc_mtx, and tloc_mtx with a timeout > 0. *)
loc_mtx(m, tmout) ==
  /\ CHECK_DISPATCH /\ may_lock(m)
  /\ k' = IF k.p_loctsk[m] = NULL THEN Void(k, mutex_acquire(k, k.p_runtsk, m))
          ELSE dispatcher(wobj_make_wait_tmout(begin_wait("MTX"), m, tmout))

ploc_mtx(m) ==
  /\ CHECK_TSKCTX_UNL /\ may_lock(m) /\ k.p_loctsk[m] = NULL
  /\ k' = Void(k, mutex_acquire(k, k.p_runtsk, m))

(* Fault: the mutex stays in its former holder's queue. *)
unl_mtx_linked(m) ==
  /\ CHECK_TSKCTX_UNL /\ mtx_exists(k, m) /\ k.p_loctsk[m] = k.p_runtsk
  /\ k' = t_leave(mutex_release(k, m))

(* Fault: the result of mutex_drop_priority is ignored. *)
unl_mtx_silent(m) ==
  /\ CHECK_TSKCTX_UNL /\ mtx_exists(k, m) /\ k.p_loctsk[m] = k.p_runtsk
  /\ LET t  == k.p_runtsk
         k1 == [k EXCEPT !.mutex_queue[t] = queue_delete(@, m)]
         k2 == IF MTX_CEILING(k, m) THEN mutex_drop_priority(k1, t, k.ceilpri[m]) ELSE k1
     IN  k' = t_leave(mutex_release(Void(k, k2), m))

unl_mtx(m) ==
  /\ CHECK_TSKCTX_UNL /\ mtx_exists(k, m) /\ k.p_loctsk[m] = k.p_runtsk
  /\ LET t  == k.p_runtsk
         k1 == [k EXCEPT !.mutex_queue[t] = queue_delete(@, m)]
         k2 == IF MTX_CEILING(k, m) THEN mutex_drop_priority(k1, t, k.ceilpri[m]) ELSE k1
     IN  k' = t_leave(mutex_release(k2, m))

(* Fault: the mutex stays in the queue of the task that held it. *)
ini_mtx_linked(m) ==
  /\ CHECK_TSKCTX_UNL /\ mtx_exists(k, m)
  /\ k' = t_leave([init_wait_queue(k, m) EXCEPT !.p_loctsk[m] = NULL])

(* Fault: no dispatch after the tasks are released. *)
ini_mtx_silent(m) ==
  /\ CHECK_TSKCTX_UNL /\ mtx_exists(k, m) /\ k.p_loctsk[m] # NULL
  /\ LET t  == k.p_loctsk[m]
         k1 == [init_wait_queue(k, m) EXCEPT !.mutex_queue[t] = queue_delete(@, m),
                                             !.p_loctsk[m] = NULL]
     IN  k' = Void(k, IF MTX_CEILING(k, m) THEN mutex_drop_priority(k1, t, k.ceilpri[m])
                      ELSE k1)

(* Unlike the other calls, ini_mtx has no check for TA_NOEXS. *)
ini_mtx(m) ==
  /\ CHECK_TSKCTX_UNL
  /\ LET t  == k.p_loctsk[m]
         k1 == init_wait_queue(k, m)
         k2 == [k1 EXCEPT !.mutex_queue[t] = queue_delete(@, m), !.p_loctsk[m] = NULL]
         k3 == IF MTX_CEILING(k, m) THEN mutex_drop_priority(k2, t, k.ceilpri[m]) ELSE k2
     IN  k' = IF ~mtx_exists(k, m) THEN [k EXCEPT !.undef = TRUE]
              ELSE t_leave(IF t = NULL THEN k1 ELSE k3)

-----------------------------------------------------------------------------
MutexCalls ==
  \/ \E m \in Wobj : \/ ploc_mtx(m) \/ unl_mtx(m) \/ ini_mtx(m) \/ del_mtx(m)
                     \/ \E b \in BOOLEAN : loc_mtx(m, b)
  \/ \E atr \in {"TA_NULL", "TA_TPRI", "TA_CEILING"}, p \in 1 .. TNUM_TPRI : acre_mtx(atr, p)

NextMutex == /\ ~k.undef
             /\ \/ Startup \/ TaskManage \/ TaskSync \/ SysManage \/ Processor
                \/ MutexCalls

SpecMutex == InitMutex /\ [][NextMutex]_k

(* A program that keeps to two rules the kernel does not check: it deletes *)
(* no mutex that is locked and initializes none that is not registered.    *)
OrderlyCalls ==
  \/ \E m \in Wobj : \/ ploc_mtx(m) \/ unl_mtx(m)
                     \/ mtx_exists(k, m) /\ ini_mtx(m)
                     \/ k.p_loctsk[m] = NULL /\ del_mtx(m)
                     \/ \E b \in BOOLEAN : loc_mtx(m, b)
  \/ \E atr \in {"TA_NULL", "TA_TPRI", "TA_CEILING"}, p \in 1 .. TNUM_TPRI : acre_mtx(atr, p)

NextOrderly == \/ Startup \/ TaskManage \/ TaskSync \/ SysManage \/ Processor
               \/ OrderlyCalls

SpecOrderly == InitMutex /\ [][NextOrderly]_k
-----------------------------------------------------------------------------
(* A mutex is in the mutex_queue of the task that p_loctsk names, once, and*)
(* in no other, also after a timeout, a forced release or a termination of *)
(* the holder or of a waiting task (bit_mutex_task of bit_mutex.c).        *)
MutexQueueOK ==
  /\ \A t \in Task, m \in Wobj : m \in Range(k.mutex_queue[t]) <=> k.p_loctsk[m] = t
  /\ \A t \in Task : IsInjective(k.mutex_queue[t])

(* A mutex nobody holds has no waiting task, so no task waits for ever for *)
(* a mutex that is free; and the holder is an active task.                 *)
NoOrphanWaiter ==
  \A m \in Wobj :
    /\ k.p_loctsk[m] = NULL /\ mtx_exists(k, m) => k.wait_queue[m] = <<>>
    /\ k.p_loctsk[m] # NULL => ~TSTAT_DORMANT(k, k.p_loctsk[m])

(* The current priority of a task is the highest of its base priority and  *)
(* the ceilings of the mutexes it holds (bit_mutex_task).                  *)
PriorityOK ==
  \A t \in Task : ~TSTAT_DORMANT(k, t) => k.priority[t] = mutex_calc_priority(k, t)

(* Neither a holder of a mutex nor a task that waits for it has a base     *)
(* priority above its ceiling (bit_mutex_mutex).                           *)
CeilingOK ==
  \A m \in Wobj : k.wobjatr[m] = "TA_CEILING" =>
    \A t \in Task : k.p_loctsk[m] = t \/ t \in Range(k.wait_queue[m])
                      => k.bpriority[t] >= k.ceilpri[m]

(* The wait queue of m holds exactly the tasks that wait for m, each once, *)
(* in the order of their current priorities if m has that attribute, also  *)
(* after a change of a waiting task's priority (bit_mutex_mutex).          *)
WaitQueueOK ==
  \A m \in Wobj : mtx_exists(k, m) =>
    LET q == k.wait_queue[m]
    IN  /\ \A t \in Task : t \in Range(q)
             <=> TSTAT_WAIT(k, t, "MTX") /\ k.p_wobjcb[t] = m
        /\ IsInjective(q)
        /\ TA_TPRI(k, m) => \A i, j \in 1 .. Len(q) :
                              i < j => k.priority[q[i]] <= k.priority[q[j]]

(* A service call on a mutex that is not registered is refused, and no     *)
(* call corrupts the kernel's queues (error check (b) of doc/design.txt).  *)
NoCorruption == ~k.undef
=============================================================================
