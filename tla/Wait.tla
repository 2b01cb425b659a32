-------------------------------- MODULE Wait --------------------------------
(***************************************************************************)
(* Waiting states: kernel/wait.h and kernel/wait.c.                        *)
(*                                                                         *)
(* WINFO is a union of the time event block pointer p_tmevtb (while the    *)
(* task waits) and of the error code wercd (once it has been released).    *)
(* k.winfo[t] is that one word:                                            *)
(*   "none"      t is in no wait                                           *)
(*   "NULL"      p_tmevtb = NULL (the wait has no timeout)                 *)
(*   "p_tmevtb"  p_tmevtb points to t's time event block                   *)
(*   an E_ code  wercd                                                     *)
(* k.tmevtb[t] is the callback of t's time event block while the block is  *)
(* in the time event heap, "none" otherwise (module TimeEvent models the   *)
(* heap).                                                                  *)
(***************************************************************************)
EXTENDS TaskSched

Wercd == {"E_OK", "E_TMOUT", "E_RLWAI", "E_DLT"}
Winfo == {"none", "NULL", "p_tmevtb"} \cup Wercd
Callback == {"none", "wait_tmout", "wait_tmout_ok"}

(* (void) f(...): the result of f is ignored. *)
Void(k, k1) == [k1 EXCEPT !.dspreq = k.dspreq]

make_wait(k) ==
  LET t == k.p_runtsk
  IN  [Void(k, make_non_runnable(k, t)) EXCEPT !.winfo[t] = "NULL"]

(* A wait with a timeout; a RELTIM wait (dly_tsk) has its own callback. *)
make_wait_tmevtb(k, callback) ==
  LET t == k.p_runtsk
  IN  [Void(k, make_non_runnable(k, t)) EXCEPT !.winfo[t] = "p_tmevtb",
                                              !.tmevtb[t] = callback]

(* tmout is TRUE for a timeout value > 0 and FALSE for TMO_FEVR. *)
make_wait_tmout(k, tmout) ==
  IF tmout THEN make_wait_tmevtb(k, "wait_tmout") ELSE make_wait(k)

make_non_wait(k, t) ==
  IF TSTAT_SUSPENDED(k, t)
  THEN [k EXCEPT !.tstat[t] = TS_SUSPENDED]
  ELSE make_runnable([k EXCEPT !.tstat[t] = TS_RUNNABLE], t)

wait_dequeue_wobj(k, t) ==
  IF TSTAT_WAIT_WOBJ(k, t)
  THEN [k EXCEPT !.wait_queue[k.p_wobjcb[t]] = queue_delete(@, t)]
  ELSE k

(* p_tmevtb is compared with NULL, which is also the word E_OK. *)
wait_dequeue_tmevtb(k, t) ==
  IF k.winfo[t] \in {"NULL", "E_OK"} THEN k ELSE [k EXCEPT !.tmevtb[t] = "none"]

set_wercd(k, t, ercd) == [k EXCEPT !.winfo[t] = ercd]

(* Fault: the time event block stays in the heap. *)
wait_complete_timer(k, t) == make_non_wait(set_wercd(k, t, "E_OK"), t)

wait_complete(k, t) ==
  make_non_wait(set_wercd(wait_dequeue_tmevtb(k, t), t, "E_OK"), t)

(* Fault: the task stays in the wait queue. *)
wait_release_queue(k, t) ==
  make_non_wait(set_wercd(wait_dequeue_tmevtb(k, t), t, "E_RLWAI"), t)

wait_release(k, t) ==
  make_non_wait(
    set_wercd(wait_dequeue_tmevtb(wait_dequeue_wobj(k, t), t), t, "E_RLWAI"), t)

(* The callbacks; signal_time has taken the block out of the heap. *)
wait_tmout(k, t) == make_non_wait(set_wercd(wait_dequeue_wobj(k, t), t, "E_TMOUT"), t)
wait_tmout_ok(k, t) == make_non_wait(set_wercd(k, t, "E_OK"), t)

wobj_queue_insert(k, o) ==
  [k EXCEPT !.wait_queue[o] = IF TA_TPRI(k, o) THEN queue_insert_tpri(k, @, k.p_runtsk)
                              ELSE queue_insert_prev(@, k.p_runtsk)]

wobj_make_wait_tmout(k, o, tmout) ==
  [wobj_queue_insert(make_wait_tmout(k, tmout), o) EXCEPT !.p_wobjcb[k.p_runtsk] = o]

(* The iteration of init_wait_queue: the head of the queue is released. *)
wait_delete_head(k, o) ==
  LET t  == Head(k.wait_queue[o])
      k1 == [k EXCEPT !.wait_queue[o] = Tail(@)]
  IN  make_non_wait(set_wercd(wait_dequeue_tmevtb(k1, t), t, "E_DLT"), t)

(* Every waiting task is released with E_DLT, from the head of the queue. *)
init_wait_queue(k, o) ==
  LET loop[n \in 0 .. Len(k.wait_queue[o])] ==
        IF n = 0 THEN k ELSE wait_delete_head(loop[n - 1], o)
  IN  loop[Len(k.wait_queue[o])]
=============================================================================
