------------------------------ MODULE WaitObj -------------------------------
(***************************************************************************)
(* What the synchronization and communication objects other than mutexes   *)
(* have in common, on top of the task part of the kernel.                  *)
(*                                                                         *)
(* The WINFO of a waiting task is extended with fields of its own for each *)
(* kind of object (WINFO_FLG, WINFO_DTQ, WINFO_PDQ, WINFO_MBX, WINFO_MPF), *)
(* through which the data pass: k.winfo_data[t] is that part, NULL while   *)
(* there is none.  It is on t's stack and is gone when the call returns.   *)
(*                                                                         *)
(* A data queue has two wait queues.  swait_queue is wait_queue[o];        *)
(* rwait_queue, which is not part of the WOBJCB, is wait_queue[rwait[o]].  *)
(***************************************************************************)
EXTENDS Kernel

CONSTANTS rwait   \* the second wait queue of each object that has one

ASSUME RwaitAssumption ==
  /\ \A o \in DOMAIN rwait : o \in Wobj /\ rwait[o] \in Wobj \ DOMAIN rwait
  /\ \A o, x \in DOMAIN rwait : rwait[o] = rwait[x] => o = x

(* k1 with the given fields added or replaced; also for functions. *)
extend(k1, fields) ==
  [f \in DOMAIN k1 \cup DOMAIN fields |-> IF f \in DOMAIN fields THEN fields[f] ELSE k1[f]]

initialize_winfo(k1) == extend(k1, [winfo_data |-> [t \in Task |-> NULL]])

obj_exists(o) == k.wobjatr[o] # "TA_NOEXS"

(* ercd = winfo.wercd, and the rest of the WINFO goes with the call. *)
wait_return_obj ==
  /\ Resuming
  /\ k' = [k EXCEPT !.winfo[k.p_runtsk] = "none", !.winfo_data[k.p_runtsk] = NULL]

(* The running task waits at queue o with the WINFO part x. *)
wait_with(kind, o, tmout, x) ==
  dispatcher(wobj_make_wait_tmout([begin_wait(kind) EXCEPT !.winfo_data[k.p_runtsk] = x],
                                  o, tmout))

(* Fault: the task stays in the wait queue. *)
complete_head_stay(k1, o, x) ==
  LET t == Head(k1.wait_queue[o])
  IN  wait_complete([k1 EXCEPT !.winfo_data[t] = IF x = NULL THEN @ ELSE x], t)

(* The first task leaves the wait queue o, and its wait is completed.  The *)
(* data x, unless NULL, are written to its WINFO.                          *)
complete_head(k1, o, x) ==
  LET t == Head(k1.wait_queue[o])
  IN  wait_complete([k1 EXCEPT !.wait_queue[o] = Tail(@),
                               !.winfo_data[t] = IF x = NULL THEN @ ELSE x], t)

(* init_wait_queue for each wait queue of o. *)
init_wait_queues(k1, o) ==
  IF o \in DOMAIN rwait THEN init_wait_queue(init_wait_queue(k1, o), rwait[o])
  ELSE init_wait_queue(k1, o)

(* An object is taken from its free list, or returned to it. *)
create_obj(k1, o, atr) == [k1 EXCEPT !.wobjatr[o] = atr]
delete_obj(k1, o) == [init_wait_queues(k1, o) EXCEPT !.wobjatr[o] = "TA_NOEXS"]

(* The entries of the list that starts at head, is linked by next and ends *)
(* with nil; a list that does not end has more entries than there are.     *)
chain(head, next, nil) ==
  LET n == Cardinality(DOMAIN next)
      entry[i \in 0 .. n] == IF i = 0 THEN head
                             ELSE IF entry[i - 1] = nil THEN nil ELSE next[entry[i - 1]]
  IN  [i \in 1 .. Cardinality({j \in 0 .. n : entry[j] # nil}) |-> entry[i - 1]]

-----------------------------------------------------------------------------
(* A wait queue holds exactly the tasks that wait there, each once, and is *)
(* in the order of their current priorities if the object has that         *)
(* attribute; nobody waits for an object that does not exist.              *)
WobjQueueOK ==
  \A o \in Wobj :
    LET q == k.wait_queue[o]
    IN  /\ \A t \in Task : t \in ToSet(q)
             <=> TSTAT_WAITING(k, t) /\ TSTAT_WAIT_WOBJ(k, t) /\ k.p_wobjcb[t] = o
        /\ IsInjective(q)
        /\ q # <<>> => obj_exists(o) /\ o \notin {rwait[r] : r \in {s \in DOMAIN rwait : ~obj_exists(s)}}
        /\ TA_TPRI(k, o) => \A i, j \in 1 .. Len(q) :
                              i < j => k.priority[q[i]] <= k.priority[q[j]]
=============================================================================
