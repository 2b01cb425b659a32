----------------------------- MODULE MutexHooks -----------------------------
(***************************************************************************)
(* The functions of kernel/mutex.c that the task part of the kernel calls, *)
(* in the code through the pointers mtxhook_check_ceilpri,                 *)
(* mtxhook_scan_ceilmtx and mtxhook_release_all, which initialize_mutex    *)
(* sets.  The callers call them only for a task that holds or waits for a  *)
(* mutex, so without mutexes (module Kernel alone) they are never called.  *)
(*                                                                         *)
(* wobjatr[m] (mtxatr), ceilpri[m] and p_loctsk[m] are the fields of a     *)
(* mutex m, mutex_queue[t] is the queue of the mutexes task t holds, and   *)
(* undef is explained in module Mutex.                                     *)
(***************************************************************************)
EXTENDS Wait

MTX_CEILING(k1, m) == k1.wobjatr[m] \in {"TA_CEILING", "TA_NOEXS"}
mtx_exists(k1, m) == k1.wobjatr[m] # "TA_NOEXS"

(* Fault: the mutex that t waits for is not looked at. *)
mutex_check_ceilpri_held(k1, t, pri) ==
  \A m \in Range(k1.mutex_queue[t]) : MTX_CEILING(k1, m) => pri >= k1.ceilpri[m]

(* Base priority pri is not above the ceiling of a mutex that t holds or   *)
(* waits for.                                                              *)
mutex_check_ceilpri(k1, t, pri) ==
  LET held == Range(k1.mutex_queue[t])
      awaited == IF TSTAT_WAIT(k1, t, "MTX") THEN {k1.p_wobjcb[t]} ELSE {}
  IN  \A m \in held \cup awaited : MTX_CEILING(k1, m) => pri >= k1.ceilpri[m]

(* Fault: a mutex that t holds does not keep its priority raised. *)
mutex_scan_ceilmtx_none(k1, t) == FALSE

mutex_scan_ceilmtx(k1, t) == \E m \in Range(k1.mutex_queue[t]) : MTX_CEILING(k1, m)

(* Fault: the new holder runs at its old priority. *)
mutex_pass_low(k1, m) ==
  LET t  == Head(k1.wait_queue[m])
      k2 == set_wercd(wait_dequeue_tmevtb([k1 EXCEPT !.wait_queue[m] = Tail(@)], t), t, "E_OK")
  IN  make_non_wait([k2 EXCEPT !.p_loctsk[m] = t,
                               !.mutex_queue[t] = queue_insert_prev(@, m)], t)

(* Fault: the priority is raised when the task is in the ready queue. *)
mutex_pass_late(k1, m) ==
  LET t == Head(k1.wait_queue[m])
  IN  [mutex_pass_low(k1, m) EXCEPT
         !.priority[t] = IF MTX_CEILING(k1, m) /\ k1.ceilpri[m] < @ THEN k1.ceilpri[m] ELSE @]

(* Fault: the time event block of the new holder stays in the heap. *)
mutex_pass_timer(k1, m) ==
  LET t == Head(k1.wait_queue[m])
  IN  make_non_wait([set_wercd(k1, t, "E_OK") EXCEPT
                       !.wait_queue[m] = Tail(@), !.p_loctsk[m] = t,
                       !.mutex_queue[t] = queue_insert_prev(@, m),
                       !.priority[t] = IF MTX_CEILING(k1, m) /\ k1.ceilpri[m] < @
                                       THEN k1.ceilpri[m] ELSE @], t)

(* m passes to the head of its wait queue, whose priority is raised before *)
(* it enters the ready queue.                                              *)
mutex_pass(k1, m) ==
  LET t  == Head(k1.wait_queue[m])
      k2 == set_wercd(wait_dequeue_tmevtb([k1 EXCEPT !.wait_queue[m] = Tail(@)], t), t, "E_OK")
      k3 == [k2 EXCEPT !.p_loctsk[m] = t,
                       !.mutex_queue[t] = queue_insert_prev(@, m),
                       !.priority[t] = IF MTX_CEILING(k1, m) /\ k1.ceilpri[m] < @
                                       THEN k1.ceilpri[m] ELSE @]
  IN  make_non_wait(k3, t)

(* Fault: the tasks that wait are forgotten. *)
mutex_release_lost(k1, m) == [k1 EXCEPT !.p_loctsk[m] = NULL]

mutex_release(k1, m) ==
  IF ~mtx_exists(k1, m) THEN [k1 EXCEPT !.undef = TRUE]
  ELSE IF k1.wait_queue[m] = <<>> THEN [k1 EXCEPT !.p_loctsk[m] = NULL]
  ELSE mutex_pass(k1, m)

(* The iteration of mutex_release_all: the first mutex in t's queue. *)
mutex_release_first(k1, t) ==
  mutex_release([k1 EXCEPT !.mutex_queue[t] = Tail(@)], Head(k1.mutex_queue[t]))

(* Fault: only one of the task's mutexes is released. *)
mutex_release_all_one(k1, t) == mutex_release_first(k1, t)

mutex_release_all(k1, t) ==
  LET loop[n \in 0 .. Len(k1.mutex_queue[t])] ==
        IF n = 0 THEN k1 ELSE mutex_release_first(loop[n - 1], t)
  IN  loop[Len(k1.mutex_queue[t])]
=============================================================================
