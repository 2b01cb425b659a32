------------------------- MODULE SyncObjects_proofs -------------------------
(***************************************************************************)
(* The synchronization and communication objects, for every number of      *)
(* tasks, priorities and objects of each kind, and every set of creation   *)
(* packets, data and messages.                                             *)
(*                                                                         *)
(* The inductive invariant is IInv of Kernel_proofs, the tables of the     *)
(* task part, and QInv, which relates the states of the tasks to the wait  *)
(* queues of the objects, their attributes and the free lists.  In the     *)
(* middle of a service call QInv(x, X) leaves out the tasks X, which have  *)
(* left the wait queues and are still in the state they waited in.  FInv   *)
(* adds the conditions of the tasks that wait for event flags; PInv and    *)
(* LInv the lists of blocks of priority data queues and memory pools.      *)
(***************************************************************************)
EXTENDS SyncObjects, Kernel_proofs, FiniteSetTheorems

FreeLists == {"free_semcb", "free_flgcb", "free_dtqcb", "free_pdqcb", "free_mbxcb",
              "free_mpfcb"}

(* The objects that a free list may hold. *)
ObjSet == [free_semcb |-> Sem, free_flgcb |-> Flg, free_dtqcb |-> Dtq,
           free_pdqcb |-> Pdq, free_mbxcb |-> Mbx, free_mpfcb |-> Mpf]

RwaitSet == {rwait[o] : o \in DOMAIN rwait}

QFields == {"tstat", "priority", "p_wobjcb", "wait_queue", "wobjatr", "mutex_queue"}
             \cup FreeLists

QType(x) ==
  /\ QFields \subseteq DOMAIN x
  /\ x.tstat \in [Task -> SUBSET TstatFlag] /\ x.priority \in [Task -> TPRI]
  /\ x.p_wobjcb \in [Task -> Wobj \cup {NULL}] /\ x.wait_queue \in [Wobj -> Seq(Task)]
  /\ x.wobjatr \in [Wobj -> {"TA_NULL", "TA_TPRI", "TA_NOEXS"}]
  /\ x.mutex_queue = [t \in Task |-> <<>>]

AtWobj(ts) == \E w \in WobjKind : w \in ts

(* The object of the wait queue o exists. *)
Usable(x, o) ==
  /\ x.wobjatr[o] # "TA_NOEXS"
  /\ \A r \in DOMAIN rwait : rwait[r] = o => x.wobjatr[r] # "TA_NOEXS"

(* The wait queues hold the waiting tasks. *)
QueuesOK(x, X) ==
  /\ \A t \in Task, o \in Wobj :
       In(x.wait_queue[o], t) <=> AtWobj(x.tstat[t]) /\ x.p_wobjcb[t] = o /\ t \notin X
  /\ \A o \in Wobj : Distinct(x.wait_queue[o])
  /\ \A o \in Wobj : x.wait_queue[o] # <<>> => Usable(x, o)
  /\ \A o \in Wobj : TA_TPRI(x, o) => Ordered(x.wait_queue[o], x.priority)

(* A task waits for one thing, and at the second wait queue of an object   *)
(* if the object is not in its TCB as a WOBJCB.                            *)
KindOK(ts, o) ==
  AtWobj(ts) => /\ o \in Wobj /\ "WAITING" \in ts
                /\ "RUNNABLE" \notin ts /\ "SLP" \notin ts /\ "DLY" \notin ts
                /\ (\A w \in WobjcbKind : w \notin ts) => o \in RwaitSet

(* An rwait_queue is in the order of arrival; a free list holds objects    *)
(* that do not exist, each once.                                           *)
AtrOK(x) ==
  /\ \A o \in RwaitSet : x.wobjatr[o] = "TA_NULL"
  /\ \A f \in FreeLists :
       /\ x[f] \in Seq(ObjSet[f]) /\ Distinct(x[f])
       /\ \A o \in Wobj : In(x[f], o) => x.wobjatr[o] = "TA_NOEXS"

QInv(x, X) ==
  /\ QType(x) /\ QueuesOK(x, X) /\ AtrOK(x)
  /\ \A t \in Task : KindOK(x.tstat[t], x.p_wobjcb[t])

-----------------------------------------------------------------------------
(***************************************************************************)
(* Steps that leave the fields of QInv alone, or all but the fields F.     *)
(***************************************************************************)
Same(j, r, F) == QFields \subseteq DOMAIN r /\ \A f \in QFields \ F : r[f] = j[f]

(* Two steps in a row. *)
LEMMA SameTrans ==
  ASSUME NEW j, NEW r, NEW s, NEW F, Same(j, r, F), Same(r, s, F)
  PROVE  Same(j, s, F)
BY DEF Same

(* The field equalities behind Same. *)
LEMMA SameFields ==
  ASSUME NEW j, NEW r, Same(j, r, {})
  PROVE  /\ r.tstat = j.tstat /\ r.priority = j.priority /\ r.p_wobjcb = j.p_wobjcb
         /\ r.wait_queue = j.wait_queue /\ r.wobjatr = j.wobjatr
         /\ r.mutex_queue = j.mutex_queue /\ \A f \in FreeLists : r[f] = j[f]
BY DEF Same, QFields

(* AtrOK is about the attributes and the free lists. *)
LEMMA AtrSame ==
  ASSUME NEW j, NEW r, AtrOK(j), r.wobjatr = j.wobjatr, \A f \in FreeLists : r[f] = j[f]
  PROVE  AtrOK(r)
BY DEF AtrOK

(* QInv is about these fields only. *)
LEMMA QSame ==
  ASSUME NEW j, NEW X, QInv(j, X), NEW r, Same(j, r, {})
  PROVE  QInv(r, X)
<1>1. /\ r.tstat = j.tstat /\ r.priority = j.priority /\ r.p_wobjcb = j.p_wobjcb
      /\ r.wait_queue = j.wait_queue /\ r.wobjatr = j.wobjatr
      /\ r.mutex_queue = j.mutex_queue /\ \A f \in FreeLists : r[f] = j[f]
  BY SameFields
<1>2. QFields \subseteq DOMAIN r
  BY DEF Same
<1>3. QType(r) /\ AtrOK(r)
  BY <1>1, <1>2, AtrSame DEF QInv, QType
<1>4. QueuesOK(r, X) /\ (\A t \in Task : KindOK(r.tstat[t], r.p_wobjcb[t]))
  BY <1>1 DEF QInv, QueuesOK, TA_TPRI, Usable
<1> QED BY <1>3, <1>4 DEF QInv

(* The functions of the ready queue and of the ends of calls. *)
LEMMA SameReady ==
  ASSUME NEW j, QFields \subseteq DOMAIN j, NEW t, NEW p, NEW i
  PROVE  /\ Same(j, make_runnable(j, t), {}) /\ Same(j, make_non_runnable(j, t), {})
         /\ Same(j, activate_context(j, t), {})
         /\ Same(j, dispatcher(j), {}) /\ Same(j, t_leave(j), {})
         /\ Same(j, i_leave(j), {}) /\ Same(j, Void(i, j), {})
         /\ Same(j, wait_dequeue_tmevtb(j, t), {}) /\ Same(j, set_wercd(j, t, p), {})
<1>1. Same(j, make_runnable(j, t), {})
  BY DEF Same, QFields, FreeLists, make_runnable
<1>2. Same(j, make_non_runnable(j, t), {})
  BY DEF Same, QFields, FreeLists, make_non_runnable, ready_delete
<1>3. Same(j, activate_context(j, t), {}) /\ Same(j, dispatcher(j), {})
  BY DEF Same, QFields, FreeLists, activate_context, dispatcher
<1>4. /\ Same(j, t_leave(j), {}) /\ Same(j, i_leave(j), {})
      /\ Same(j, Void(i, j), {})
  BY DEF Same, QFields, FreeLists, dispatcher, t_leave, i_leave, Void
<1>5. Same(j, wait_dequeue_tmevtb(j, t), {}) /\ Same(j, set_wercd(j, t, p), {})
  BY DEF Same, QFields, FreeLists, wait_dequeue_tmevtb, set_wercd
<1> QED BY <1>1, <1>2, <1>3, <1>4, <1>5

(* The fields of the objects are not the kernel's. *)
Outer(j, r) == Frame(j, r, KernelFields)

(* Two steps in a row. *)
LEMMA OuterTrans ==
  ASSUME NEW j, NEW r, NEW s, Outer(j, r), Outer(r, s)
  PROVE  Outer(j, s)
BY DEF Outer, Frame

(* The functions on tasks and on wait queues. *)
LEMMA OuterReady ==
  ASSUME NEW j, NEW t, NEW o, NEW p, NEW i
  PROVE  /\ Outer(j, make_runnable(j, t)) /\ Outer(j, make_non_runnable(j, t))
         /\ Outer(j, make_non_wait(j, t)) /\ Outer(j, activate_context(j, t))
         /\ Outer(j, make_active(j, t)) /\ Outer(j, make_dormant(j, t))
         /\ Outer(j, dispatcher(j)) /\ Outer(j, t_leave(j)) /\ Outer(j, i_leave(j))
         /\ Outer(j, Void(i, j)) /\ Outer(j, wait_dequeue_wobj(j, t))
         /\ Outer(j, wait_dequeue_tmevtb(j, t)) /\ Outer(j, set_wercd(j, t, p))
         /\ Outer(j, wait_delete_head(j, o))
<1>1. \A x, u : Outer(x, make_runnable(x, u)) /\ Outer(x, make_non_runnable(x, u))
  <2> SUFFICES ASSUME NEW x, NEW u
               PROVE  Outer(x, make_runnable(x, u)) /\ Outer(x, make_non_runnable(x, u))
    OBVIOUS
  <2>1. Outer(x, make_runnable(x, u))
    BY DEF Outer, Frame, KernelFields, make_runnable
  <2>2. Outer(x, make_non_runnable(x, u))
    BY DEF Outer, Frame, KernelFields, make_non_runnable, ready_delete
  <2> QED BY <2>1, <2>2
<1>2. \A x, u : Outer(x, make_non_wait(x, u))
  <2> SUFFICES ASSUME NEW x, NEW u PROVE Outer(x, make_non_wait(x, u))
    OBVIOUS
  <2>1. \A ts : Outer(x, [x EXCEPT !.tstat[u] = ts])
    BY DEF Outer, Frame, KernelFields
  <2> QED BY <1>1, <2>1, OuterTrans DEF make_non_wait
<1>3. \A x, u : Outer(x, activate_context(x, u)) /\ Outer(x, make_dormant(x, u))
  <2> SUFFICES ASSUME NEW x, NEW u
               PROVE  Outer(x, activate_context(x, u)) /\ Outer(x, make_dormant(x, u))
    OBVIOUS
  <2>1. Outer(x, activate_context(x, u))
    BY DEF Outer, Frame, KernelFields, activate_context
  <2>2. Outer(x, make_dormant(x, u))
    BY DEF Outer, Frame, KernelFields, make_dormant
  <2> QED BY <2>1, <2>2
<1>4. Outer(j, make_active(j, t))
  <2>1. \A x, ts : Outer(x, [x EXCEPT !.tstat[t] = ts])
    BY DEF Outer, Frame, KernelFields
  <2> QED BY <1>1, <1>3, <2>1, OuterTrans DEF make_active
<1>5. \A x : Outer(x, dispatcher(x)) /\ Outer(x, t_leave(x)) /\ Outer(x, i_leave(x))
  <2> SUFFICES ASSUME NEW x
               PROVE  Outer(x, dispatcher(x)) /\ Outer(x, t_leave(x)) /\ Outer(x, i_leave(x))
    OBVIOUS
  <2>1. Outer(x, dispatcher(x))
    BY DEF Outer, Frame, KernelFields, dispatcher
  <2>2. Outer(x, x)
    BY DEF Outer, Frame
  <2>3. Outer(x, i_leave(x))
    BY DEF Outer, Frame, KernelFields, i_leave
  <2> QED BY <2>1, <2>2, <2>3 DEF t_leave
<1>6. \A x, u : Outer(x, wait_dequeue_tmevtb(x, u)) /\ Outer(x, wait_dequeue_wobj(x, u))
  BY DEF Outer, Frame, KernelFields, wait_dequeue_tmevtb, wait_dequeue_wobj
<1>7. \A x, u, e : Outer(x, set_wercd(x, u, e)) /\ Outer(x, Void(e, x))
  BY DEF Outer, Frame, KernelFields, set_wercd, Void
<1>8. Outer(j, wait_delete_head(j, o))
  <2>1. PICK u : u = Head(j.wait_queue[o])
    OBVIOUS
  <2>2. PICK y : y = [j EXCEPT !.wait_queue[o] = Tail(@)]
    OBVIOUS
  <2>3. Outer(j, y)
    BY <2>2 DEF Outer, Frame, KernelFields
  <2>4. PICK w : w = wait_dequeue_tmevtb(y, u)
    OBVIOUS
  <2>5. PICK z : z = set_wercd(w, u, "E_DLT")
    OBVIOUS
  <2>6. wait_delete_head(j, o) = make_non_wait(z, u)
    BY <2>1, <2>2, <2>4, <2>5 DEF wait_delete_head
  <2>7. Outer(y, w) /\ Outer(w, z) /\ Outer(z, make_non_wait(z, u))
    BY <1>2, <1>6, <1>7, <2>4, <2>5
  <2> QED BY <2>3, <2>6, <2>7, OuterTrans
<1> QED BY <1>1, <1>2, <1>3, <1>4, <1>5, <1>6, <1>7, <1>8

(* A step that changes only task states, and not who waits for an object:  *)
(* X1 takes the place of X.                                                *)
LEMMA QStat ==
  ASSUME NEW j, NEW X, QInv(j, X),
         NEW r, Same(j, r, {"tstat"}), r.tstat \in [Task -> SUBSET TstatFlag], NEW X1,
         \A u \in Task : AtWobj(r.tstat[u]) /\ u \notin X1
                           <=> AtWobj(j.tstat[u]) /\ u \notin X,
         \A u \in Task : KindOK(r.tstat[u], r.p_wobjcb[u])
  PROVE  QInv(r, X1)
<1>1. /\ r.priority = j.priority /\ r.p_wobjcb = j.p_wobjcb
      /\ r.wait_queue = j.wait_queue /\ r.wobjatr = j.wobjatr
      /\ r.mutex_queue = j.mutex_queue /\ \A f \in FreeLists : r[f] = j[f]
  BY DEF Same, QFields, FreeLists
<1>2. QFields \subseteq DOMAIN r
  BY DEF Same
<1>3. QType(r) /\ AtrOK(r)
  BY <1>1, <1>2, AtrSame DEF QInv, QType
<1>4. QueuesOK(r, X1)
  <2>1. \A u \in Task, m \in Wobj :
          In(r.wait_queue[m], u) <=> AtWobj(r.tstat[u]) /\ r.p_wobjcb[u] = m /\ u \notin X1
    BY <1>1 DEF QInv, QueuesOK
  <2> QED BY <2>1, <1>1 DEF QInv, QueuesOK, TA_TPRI, Usable
<1> QED BY <1>3, <1>4 DEF QInv

(* t leaves the wait queue o, if it was in it. *)
LEMMA QTake ==
  ASSUME NEW j, NEW X, QInv(j, X), NEW t \in Task, NEW o \in Wobj,
         t \in X \/ ~AtWobj(j.tstat[t]) \/ j.p_wobjcb[t] = o,
         NEW r, Same(j, r, {"wait_queue"}), NEW q \in Seq(Task),
         r.wait_queue = [j.wait_queue EXCEPT ![o] = q], Distinct(q),
         \A u \in Task : In(q, u) <=> In(j.wait_queue[o], u) /\ u # t,
         Ordered(j.wait_queue[o], j.priority) => Ordered(q, j.priority),
         j.wait_queue[o] = <<>> => q = <<>>
  PROVE  QInv(r, X \cup {t})
<1>1. /\ r.tstat = j.tstat /\ r.priority = j.priority /\ r.p_wobjcb = j.p_wobjcb
      /\ r.wobjatr = j.wobjatr
      /\ r.mutex_queue = j.mutex_queue /\ \A f \in FreeLists : r[f] = j[f]
  BY DEF Same, QFields, FreeLists
<1>2. QFields \subseteq DOMAIN r
  BY DEF Same
<1>3. j.wait_queue \in [Wobj -> Seq(Task)]
  BY DEF QInv, QType
<1>4. /\ r.wait_queue \in [Wobj -> Seq(Task)] /\ r.wait_queue[o] = q
      /\ \A n \in Wobj : n # o => r.wait_queue[n] = j.wait_queue[n]
  BY <1>3
<1>5. QType(r) /\ AtrOK(r)
  BY <1>1, <1>2, <1>4, AtrSame DEF QInv, QType
<1>6. QueuesOK(r, X \cup {t})
  <2>1. ASSUME NEW u \in Task, NEW n \in Wobj
        PROVE  In(r.wait_queue[n], u)
                 <=> AtWobj(r.tstat[u]) /\ r.p_wobjcb[u] = n /\ u \notin X \cup {t}
    <3>1. In(j.wait_queue[n], u) <=> AtWobj(j.tstat[u]) /\ j.p_wobjcb[u] = n /\ u \notin X
      BY DEF QInv, QueuesOK
    <3> QED BY <3>1, <1>1, <1>4
  <2>2. \A n \in Wobj : Distinct(r.wait_queue[n])
    BY <1>4 DEF QInv, QueuesOK
  <2>3. \A n \in Wobj : r.wait_queue[n] # <<>> => Usable(r, n)
    BY <1>1, <1>4 DEF QInv, QueuesOK, Usable
  <2>4. \A n \in Wobj : TA_TPRI(r, n) => Ordered(r.wait_queue[n], r.priority)
    BY <1>1, <1>4 DEF QInv, QueuesOK, TA_TPRI
  <2> QED BY <2>1, <2>2, <2>3, <2>4 DEF QueuesOK
<1> QED BY <1>1, <1>5, <1>6 DEF QInv

(* wait_dequeue_wobj: a waiting task leaves the wait queue it is in. *)
LEMMA QDequeue ==
  ASSUME NEW j, QInv(j, {}), NEW t \in Task, NEW r, r = wait_dequeue_wobj(j, t)
  PROVE  QInv(r, {t}) /\ Same(j, r, {"wait_queue"})
<1>0. QFields \subseteq DOMAIN j
  BY DEF QInv, QType
<1>1. CASE ~AtWobj(j.tstat[t])
  <2>1. r = j
    BY <1>1 DEF AtWobj, wait_dequeue_wobj, TSTAT_WAIT_WOBJ, TSTAT_WAIT
  <2>2. Same(j, r, {"tstat"}) /\ r.tstat \in [Task -> SUBSET TstatFlag]
    BY <1>0, <2>1 DEF Same, QInv, QType
  <2>3. \A u \in Task : AtWobj(r.tstat[u]) /\ u \notin {t}
                          <=> AtWobj(j.tstat[u]) /\ u \notin {}
    BY <1>1, <2>1
  <2>4. \A u \in Task : KindOK(r.tstat[u], r.p_wobjcb[u])
    BY <2>1 DEF QInv
  <2>5. QInv(r, {t})
    BY ONLY <2>2, <2>3, <2>4, QInv(j, {}), QStat
  <2> QED BY <2>1, <2>5, <1>0 DEF Same
<1>2. CASE AtWobj(j.tstat[t])
  <2>1. PICK o \in Wobj : o = j.p_wobjcb[t]
    BY <1>2 DEF QInv, KindOK
  <2>2. PICK q : q = queue_delete(j.wait_queue[o], t)
    OBVIOUS
  <2>4. r = [j EXCEPT !.wait_queue[o] = q]
    BY <1>2, <2>1, <2>2 DEF AtWobj, wait_dequeue_wobj, TSTAT_WAIT_WOBJ, TSTAT_WAIT
  <2>5. j.wait_queue[o] \in Seq(Task) /\ Distinct(j.wait_queue[o]) /\ In(j.wait_queue[o], t)
    BY <1>2, <2>1 DEF QInv, QType, QueuesOK
  <2>6. /\ q \in Seq(Task) /\ Distinct(q)
        /\ \A u \in Task : In(q, u) <=> In(j.wait_queue[o], u) /\ u # t
    BY <2>2, <2>5, Deleted
  <2>7. Ordered(j.wait_queue[o], j.priority) => Ordered(q, j.priority)
    <3>1. PICK a : a = j.wait_queue[o]
      OBVIOUS
    <3>2. ASSUME NEW pri, Ordered(a, pri) PROVE Ordered(q, pri)
      <4>1. \A x \in Task : x # t => pri[x] = pri[x]
        OBVIOUS
      <4>2. a \in Seq(Task) /\ Distinct(a) /\ In(a, t) /\ q = queue_delete(a, t)
        BY <2>2, <2>5, <3>1
      <4> QED BY ONLY <3>2, <4>1, <4>2, DeletedOrdered, t \in Task
    <3> QED BY <3>1, <3>2
  <2>8. j.wait_queue[o] # <<>>
    BY <2>5 DEF In
  <2>9. Same(j, r, {"wait_queue"}) /\ r.wait_queue = [j.wait_queue EXCEPT ![o] = q]
    BY <1>0, <2>4 DEF Same, QFields, FreeLists
  <2> HIDE <2>2, <2>4
  <2>10. QInv(r, {} \cup {t})
    BY ONLY <2>1, <2>6, <2>7, <2>8, <2>9, QInv(j, {}), QTake, t \in Task
  <2>11. {} \cup {t} = {t}
    OBVIOUS
  <2> QED BY <2>9, <2>10, <2>11
<1> QED BY <1>1, <1>2
-----------------------------------------------------------------------------
(***************************************************************************)
(* The end of a wait.                                                      *)
(***************************************************************************)

(* make_non_wait: a task that has left its wait queue waits no more. *)
LEMMA QNonWait ==
  ASSUME NEW j, NEW X, QInv(j, X), NEW t \in Task,
         t \in X \/ ~AtWobj(j.tstat[t]), NEW X1, X1 \subseteq X, X \subseteq X1 \cup {t},
         NEW r, r = make_non_wait(j, t)
  PROVE  /\ QInv(r, X1) /\ Same(j, r, {"tstat"})
         /\ r.tstat[t] # {} /\ ~AtWobj(r.tstat[t])
         /\ \A u \in Task \ {t} : r.tstat[u] = j.tstat[u]
<1>1. PICK ts \in {{"SUSPENDED"}, {"RUNNABLE"}} :
        \/ r = [j EXCEPT !.tstat[t] = ts]
        \/ r = make_runnable([j EXCEPT !.tstat[t] = ts], t)
  BY DEF make_non_wait, TS_SUSPENDED, TS_RUNNABLE
<1>2. PICK y : y = [j EXCEPT !.tstat[t] = ts]
  OBVIOUS
<1>3. QFields \subseteq DOMAIN y /\ QFields \subseteq DOMAIN j /\ "tstat" \in DOMAIN j
  BY <1>2 DEF QInv, QType, QFields, FreeLists
<1>4. y.tstat = [j.tstat EXCEPT ![t] = ts] /\ Same(j, y, {"tstat"})
  BY <1>2, <1>3 DEF Same
<1>5. r = y \/ r = make_runnable(y, t)
  BY <1>1, <1>2
<1> HIDE <1>1, <1>2
<1>6. Same(y, r, {})
  <2>1. Same(y, make_runnable(y, t), {})
    BY <1>3, SameReady
  <2>2. Same(y, y, {})
    BY <1>3 DEF Same
  <2> QED BY <2>1, <2>2, <1>5
<1>7. r.tstat = y.tstat
  BY <1>6, SameFields
<1>8. Same(j, r, {"tstat"})
  BY <1>4, <1>6 DEF Same
<1>9. j.tstat \in [Task -> SUBSET TstatFlag]
  BY DEF QInv, QType
<1>10. ts \subseteq TstatFlag /\ ts # {} /\ ~AtWobj(ts)
  BY DEF TstatFlag, AtWobj, WobjKind, WobjcbKind
<1>11. r.tstat \in [Task -> SUBSET TstatFlag]
  BY <1>4, <1>7, <1>9, <1>10
<1>12. r.tstat[t] = ts /\ \A u \in Task \ {t} : r.tstat[u] = j.tstat[u]
  BY <1>4, <1>7, <1>9
<1>13. \A u \in Task : KindOK(r.tstat[u], r.p_wobjcb[u])
  <2>1. r.p_wobjcb = j.p_wobjcb
    BY <1>8 DEF Same, QFields, FreeLists
  <2>2. KindOK(ts, r.p_wobjcb[t])
    BY <1>10 DEF KindOK
  <2> QED BY <1>12, <2>1, <2>2 DEF QInv
<1>15. \A u \in Task : AtWobj(r.tstat[u]) /\ u \notin X1
                         <=> AtWobj(j.tstat[u]) /\ u \notin X
  BY <1>10, <1>12
<1>16. QInv(r, X1)
  BY ONLY <1>8, <1>11, <1>13, <1>15, QInv(j, X), QStat
<1> QED BY <1>8, <1>10, <1>12, <1>16

(* The ends of a wait: completion, forced release and timeout. *)
LEMMA QWaitEnd ==
  ASSUME NEW j, QInv(j, {}), NEW t \in Task,
         NEW r, \/ r \in {wait_release(j, t), wait_tmout(j, t)}
                \/ ~AtWobj(j.tstat[t]) /\ r \in {wait_complete(j, t), wait_tmout_ok(j, t)}
  PROVE  QInv(r, {})
<1>0. QFields \subseteq DOMAIN j
  BY DEF QInv, QType
<1>1. CASE r \in {wait_release(j, t), wait_tmout(j, t)}
  <2>1. PICK y : y = wait_dequeue_wobj(j, t)
    OBVIOUS
  <2>2. QInv(y, {t})
    BY <2>1, QDequeue
  <2>3. PICK z : /\ r = make_non_wait(z, t)
                 /\ \/ z = set_wercd(wait_dequeue_tmevtb(y, t), t, "E_RLWAI")
                    \/ z = set_wercd(y, t, "E_TMOUT")
    BY <1>1, <2>1 DEF wait_release, wait_tmout
  <2>4. QFields \subseteq DOMAIN y
    BY <2>2 DEF QInv, QType
  <2>5. Same(y, z, {})
    <3>1. PICK w : w = wait_dequeue_tmevtb(y, t)
      OBVIOUS
    <3>2. Same(y, w, {})
      BY <3>1, <2>4, SameReady
    <3>3. QFields \subseteq DOMAIN w
      BY <3>2 DEF Same
    <3>4. Same(w, set_wercd(w, t, "E_RLWAI"), {})
      BY <3>3, SameReady
    <3>5. Same(y, set_wercd(y, t, "E_TMOUT"), {})
      BY <2>4, SameReady
    <3> QED BY <2>3, <3>1, <3>2, <3>4, <3>5, SameTrans
  <2>6. QInv(z, {t})
    BY <2>2, <2>5, QSame
  <2> HIDE <2>1
  <2> QED BY <2>3, <2>6, QNonWait
<1>2. CASE ~AtWobj(j.tstat[t]) /\ r \in {wait_complete(j, t), wait_tmout_ok(j, t)}
  <2>1. PICK z : /\ r = make_non_wait(z, t)
                 /\ \/ z = set_wercd(wait_dequeue_tmevtb(j, t), t, "E_OK")
                    \/ z = set_wercd(j, t, "E_OK")
    BY <1>2 DEF wait_complete, wait_tmout_ok
  <2>2. Same(j, z, {})
    <3>1. PICK w : w = wait_dequeue_tmevtb(j, t)
      OBVIOUS
    <3>2. Same(j, w, {})
      BY <3>1, <1>0, SameReady
    <3>3. QFields \subseteq DOMAIN w
      BY <3>2 DEF Same
    <3>4. Same(w, set_wercd(w, t, "E_OK"), {})
      BY <3>3, SameReady
    <3>5. Same(j, set_wercd(j, t, "E_OK"), {})
      BY <1>0, SameReady
    <3> QED BY <2>1, <3>1, <3>2, <3>4, <3>5, SameTrans
  <2>3. QInv(z, {}) /\ z.tstat = j.tstat
    BY <2>2, QSame, SameFields
  <2> QED BY <1>2, <2>1, <2>3, QNonWait
<1> QED BY <1>1, <1>2


(* The head t of the wait queue of o leaves it. *)
LEMMA QTakeHead ==
  ASSUME NEW j, NEW X, QInv(j, X), NEW o \in Wobj,
         j.wait_queue[o] # <<>>, NEW t, t = Head(j.wait_queue[o]),
         NEW r, r = WithoutHead(j, o)
  PROVE  /\ t \in Task /\ t \notin X /\ AtWobj(j.tstat[t]) /\ "WAITING" \in j.tstat[t]
         /\ In(j.wait_queue[o], t) /\ QInv(r, X \cup {t})
         /\ Same(j, r, {"wait_queue"})
         /\ Shorter(r.wait_queue[o], j.wait_queue[o])
<1>1. PICK q : q = j.wait_queue[o]
  OBVIOUS
<1>2. q \in Seq(Task) /\ Distinct(q) /\ q # <<>> /\ j.wait_queue \in [Wobj -> Seq(Task)]
  BY <1>1 DEF QInv, QType, QueuesOK
<1>3. /\ t \in Task /\ In(q, t) /\ Tail(q) \in Seq(Task) /\ Distinct(Tail(q))
      /\ Len(Tail(q)) = Len(q) - 1
      /\ \A u \in Task : In(Tail(q), u) <=> In(q, u) /\ u # t
      /\ \A pri : Ordered(q, pri) => Ordered(Tail(q), pri)
  BY <1>1, <1>2, HeadTaken
<1>4. PICK a \in Seq(Task) : a = Tail(q)
  BY <1>3
<1>5. QFields \subseteq DOMAIN j /\ "wait_queue" \in DOMAIN j
  BY DEF QInv, QType, QFields, FreeLists
<1>6. Same(j, r, {"wait_queue"}) /\ r.wait_queue = [j.wait_queue EXCEPT ![o] = a]
  BY <1>1, <1>4, <1>5 DEF Same, QFields, FreeLists, WithoutHead
<1>7. AtWobj(j.tstat[t]) /\ j.p_wobjcb[t] = o /\ t \notin X
  BY <1>1, <1>3 DEF QInv, QueuesOK
<1>8. "WAITING" \in j.tstat[t]
  BY <1>3, <1>7 DEF QInv, KindOK
<1>9. QInv(r, X \cup {t})
  <2>1. /\ Distinct(a) /\ \A u \in Task : In(a, u) <=> In(j.wait_queue[o], u) /\ u # t
    BY <1>1, <1>3, <1>4
  <2>2. Ordered(j.wait_queue[o], j.priority) => Ordered(a, j.priority)
    BY <1>1, <1>3, <1>4
  <2>3. t \in X \/ ~AtWobj(j.tstat[t]) \/ j.p_wobjcb[t] = o
    BY <1>7
  <2>4. j.wait_queue[o] = <<>> => a = <<>>
    OBVIOUS
  <2>5. t \in Task
    BY <1>3
  <2> QED BY ONLY QInv(j, X), o \in Wobj, a \in Seq(Task), <1>6, <2>1, <2>2, <2>3,
                  <2>4, <2>5, QTake
<1>10. r.wait_queue[o] = a
  BY <1>2, <1>6
<1> QED BY <1>1, <1>3, <1>4, <1>6, <1>7, <1>8, <1>9, <1>10 DEF Shorter

(* The head t of the wait queue of o waits. *)
LEMMA WaitHead ==
  ASSUME NEW j, NEW X, QInv(j, X), NEW o \in Wobj,
         j.wait_queue[o] # <<>>, NEW t, t = Head(j.wait_queue[o])
  PROVE  t \in Task /\ t \notin X /\ "WAITING" \in j.tstat[t]
<1>1. PICK y : y = WithoutHead(j, o)
  OBVIOUS
<1>2. QInv(j, X) /\ o \in Wobj /\ j.wait_queue[o] # <<>>
  OBVIOUS
<1>3. /\ t \in Task /\ t \notin X /\ AtWobj(j.tstat[t]) /\ "WAITING" \in j.tstat[t]
      /\ In(j.wait_queue[o], t) /\ QInv(y, X \cup {t})
      /\ Same(j, y, {"wait_queue"})
  BY ONLY <1>1, <1>2, t = Head(j.wait_queue[o]), QTakeHead, SMTT(60)
<1> QED BY <1>3

(* wait_delete_head: the head of the queue is released and the rest stays. *)
LEMMA QDeleteHead ==
  ASSUME NEW j, QInv(j, {}), NEW o \in Wobj, j.wait_queue[o] # <<>>,
         NEW r, r = wait_delete_head(j, o)
  PROVE  /\ QInv(r, {}) /\ Same(j, r, {"wait_queue", "tstat"})
         /\ Shorter(r.wait_queue[o], j.wait_queue[o])
         /\ \A n \in Wobj \ {o} : r.wait_queue[n] = j.wait_queue[n]
<1>1. PICK t : t = Head(j.wait_queue[o])
  OBVIOUS
<1>2. PICK y : y = WithoutHead(j, o)
  OBVIOUS
<1>3. PICK w : w = wait_dequeue_tmevtb(y, t)
  OBVIOUS
<1>4. PICK z : z = set_wercd(w, t, "E_DLT")
  OBVIOUS
<1>5. r = make_non_wait(z, t)
  BY <1>1, <1>2, <1>3, <1>4 DEF wait_delete_head, WithoutHead
<1>6. /\ t \in Task /\ QInv(y, {} \cup {t}) /\ Same(j, y, {"wait_queue"})
      /\ Shorter(y.wait_queue[o], j.wait_queue[o])
  <2>1. QInv(j, {}) /\ o \in Wobj /\ j.wait_queue[o] # <<>>
    OBVIOUS
  <2> QED BY ONLY <1>1, <1>2, <2>1, QTakeHead
<1>16. \A n \in Wobj \ {o} : y.wait_queue[n] = j.wait_queue[n]
  BY <1>2 DEF WithoutHead, QInv, QType
<1> HIDE <1>1, <1>2
<1>14. QFields \subseteq DOMAIN y
  BY <1>6 DEF Same
<1>7. Same(y, w, {})
  BY <1>3, <1>14, SameReady
<1>15. QFields \subseteq DOMAIN w
  BY <1>7 DEF Same
<1>8. Same(w, z, {})
  BY <1>4, <1>15, SameReady
<1> HIDE <1>3, <1>4
<1>9. Same(y, z, {})
  BY <1>7, <1>8, SameTrans
<1>10. QInv(z, {t})
  BY <1>6, <1>9, QSame
<1>11. QInv(r, {}) /\ Same(z, r, {"tstat"})
  BY <1>5, <1>6, <1>10, QNonWait
<1>12. z.wait_queue = y.wait_queue /\ r.wait_queue = z.wait_queue
  BY <1>9, <1>11 DEF Same, QFields, FreeLists
<1>13. Same(j, r, {"wait_queue", "tstat"})
  BY <1>6, <1>9, <1>11 DEF Same
<1> QED BY <1>6, <1>11, <1>12, <1>13, <1>16

-----------------------------------------------------------------------------
(***************************************************************************)
(* The owner of a mutex.                                                   *)
(***************************************************************************)
(* change_priority: t gets the priority p and, if it waits, its place in   *)
(* the wait queue.                                                         *)
LEMMA QChangePri ==
  ASSUME NEW j, NEW t \in Task, QInv(j, {}), NEW p \in TPRI,
         NEW mode \in BOOLEAN, NEW r, r = change_priority(j, t, p, mode)
  PROVE  /\ QInv(r, {}) /\ Same(j, r, {"priority", "wait_queue"})
<1>1. QType(j) /\ QFields \subseteq DOMAIN j
  BY DEF QInv, QType
<1>2. PICK y : y = [j EXCEPT !.priority[t] = p]
  OBVIOUS
<1>3. /\ Same(j, y, {"priority"}) /\ y.priority = [j.priority EXCEPT ![t] = p]
  BY <1>1, <1>2 DEF Same, QFields, FreeLists
<1>4. y.priority \in [Task -> TPRI] /\ y.priority[t] = p
      /\ \A u \in Task \ {t} : y.priority[u] = j.priority[u]
  BY <1>1, <1>3 DEF QType
<1>5. PICK o : o = j.p_wobjcb[t]
  OBVIOUS
<1>17. /\ AtWobj(j.tstat[t]) /\ TA_TPRI(j, o) => TSTAT_WAIT_WOBJCB(j, t)
       /\ TSTAT_WAIT_WOBJCB(j, t) => AtWobj(j.tstat[t])
  <2>1. TSTAT_WAIT_WOBJCB(j, t) => AtWobj(j.tstat[t])
    BY DEF TSTAT_WAIT_WOBJCB, TSTAT_WAIT, AtWobj, WobjKind
  <2>2. ASSUME AtWobj(j.tstat[t]), ~TSTAT_WAIT_WOBJCB(j, t) PROVE ~TA_TPRI(j, o)
    <3>1. o \in RwaitSet
      BY <2>2, <1>5 DEF QInv, KindOK, TSTAT_WAIT_WOBJCB, TSTAT_WAIT
    <3> QED BY <3>1 DEF QInv, AtrOK, TA_TPRI
  <2> QED BY <2>1, <2>2
<1>6. PICK W : W = IF AtWobj(j.tstat[t]) /\ "RUNNABLE" \notin j.tstat[t] /\ TA_TPRI(j, o)
                   THEN [j.wait_queue EXCEPT ![o] = queue_insert_tpri(y, queue_delete(@, t), t)]
                   ELSE j.wait_queue
  OBVIOUS
<1>7. /\ Same(j, r, {"priority", "wait_queue"}) /\ r.priority = y.priority
      /\ r.wait_queue = W
  <2>1. CASE "RUNNABLE" \in j.tstat[t]
    <3>1. r = change_ready(j, t, p, mode)
      BY <2>1 DEF change_priority, TSTAT_RUNNABLE
    <3>2. Same(j, r, {"priority"}) /\ r.priority = [j.priority EXCEPT ![t] = p]
      BY <1>1, <3>1, ZenonT(60) DEF change_ready, ready_delete, Same, QFields, FreeLists
    <3>3. r.wait_queue = j.wait_queue
      BY <3>2 DEF Same, QFields, FreeLists
    <3> QED BY <2>1, <3>2, <3>3, <1>3, <1>6 DEF Same
  <2>2. CASE "RUNNABLE" \notin j.tstat[t] /\ ~TSTAT_WAIT_WOBJCB(j, t)
    <3>1. ~TSTAT_WAIT_WOBJCB(j, t) /\ ~(AtWobj(j.tstat[t]) /\ TA_TPRI(j, o))
      BY <2>2, <1>17
    <3>2. r = y
      BY <2>2, <3>1, <1>2 DEF change_priority, TSTAT_RUNNABLE
    <3>3. r.wait_queue = j.wait_queue
      BY <3>2, <1>3 DEF Same, QFields, FreeLists
    <3> QED BY <3>1, <3>2, <3>3, <1>3, <1>6 DEF Same
  <2>3. CASE "RUNNABLE" \notin j.tstat[t] /\ TSTAT_WAIT_WOBJCB(j, t)
    <3>1. TSTAT_WAIT_WOBJCB(j, t) /\ AtWobj(j.tstat[t])
      BY <2>3, <1>17
    <3>2. r = wobj_change_priority(y, o, t)
      BY <2>3, <3>1, <1>2, <1>5 DEF change_priority, TSTAT_RUNNABLE
    <3>3. /\ QFields \subseteq DOMAIN y /\ y.wait_queue = j.wait_queue
          /\ TA_TPRI(y, o) = TA_TPRI(j, o)
      BY <1>3 DEF Same, QFields, FreeLists, TA_TPRI
    <3>4. CASE TA_TPRI(j, o)
      <4>1. r = [y EXCEPT !.wait_queue[o] = queue_insert_tpri(y, queue_delete(@, t), t)]
        BY <3>2, <3>3, <3>4 DEF wobj_change_priority
      <4>2. Same(y, r, {"wait_queue"}) /\ r.wait_queue = W
        BY <2>3, <3>1, <3>3, <3>4, <4>1, <1>6 DEF Same, QFields, FreeLists
      <4>3. r.priority = y.priority
        BY <4>2 DEF Same, QFields, FreeLists
      <4> QED BY <4>2, <4>3, <1>3 DEF Same
    <3>5. CASE ~TA_TPRI(j, o)
      <4>1. r = y
        BY <3>2, <3>3, <3>5 DEF wobj_change_priority
      <4> QED BY <3>3, <3>5, <4>1, <1>3, <1>6 DEF Same
    <3> QED BY <3>4, <3>5
  <2> QED BY <2>1, <2>2, <2>3
<1>8. /\ r.tstat = j.tstat /\ r.p_wobjcb = j.p_wobjcb /\ r.wobjatr = j.wobjatr
      /\ r.mutex_queue = j.mutex_queue /\ (\A f \in FreeLists : r[f] = j[f])
      /\ QFields \subseteq DOMAIN r
  BY <1>7 DEF Same, QFields, FreeLists
<1>9. /\ W \in [Wobj -> Seq(Task)] /\ \A n \in Wobj : Distinct(W[n])
      /\ \A n \in Wobj, u \in Task : In(W[n], u) <=> In(j.wait_queue[n], u)
      /\ \A n \in Wobj : j.wait_queue[n] = <<>> => W[n] = <<>>
      /\ \A n \in Wobj : TA_TPRI(j, n) => Ordered(W[n], y.priority)
  <2>1. ASSUME NEW n \in Wobj, TA_TPRI(j, n), ~In(j.wait_queue[n], t)
        PROVE  Ordered(j.wait_queue[n], y.priority)
    <3>1. j.wait_queue[n] \in Seq(Task) /\ Ordered(j.wait_queue[n], j.priority)
      BY <2>1 DEF QInv, QType, QueuesOK
    <3>2. PICK q \in Seq(Task) : q = j.wait_queue[n]
      BY <3>1
    <3>3. ASSUME NEW i \in 1 .. Len(q) PROVE y.priority[q[i]] = j.priority[q[i]]
      <4>1. q[i] \in Task /\ q[i] # t
        BY <2>1, <3>2 DEF In
      <4> QED BY <4>1, <1>4
    <3> QED BY <3>1, <3>2, <3>3 DEF Ordered
  <2>2. /\ j.wait_queue \in [Wobj -> Seq(Task)] /\ \A n \in Wobj : Distinct(j.wait_queue[n])
        /\ \A n \in Wobj : In(j.wait_queue[n], t) <=> AtWobj(j.tstat[t]) /\ n = o
    BY <1>5 DEF QInv, QType, QueuesOK
  <2>3. AtWobj(j.tstat[t]) => "RUNNABLE" \notin j.tstat[t] /\ o \in Wobj
    BY <1>5 DEF QInv, KindOK
  <2>4. CASE ~AtWobj(j.tstat[t]) \/ ~TA_TPRI(j, o)
    <3>1. W = j.wait_queue
      BY <2>4, <1>6
    <3> QED BY <2>1, <2>2, <2>4, <3>1
  <2>5. CASE AtWobj(j.tstat[t]) /\ TA_TPRI(j, o)
    <3>1. PICK q \in Seq(Task) : q = j.wait_queue[o]
      BY <2>2, <2>3, <2>5
    <3>2. Distinct(q) /\ In(q, t) /\ Ordered(q, j.priority)
      BY <2>2, <2>3, <2>5, <3>1 DEF QInv, QueuesOK
    <3>3. PICK a : a = queue_delete(q, t)
      OBVIOUS
    <3>4. /\ a \in Seq(Task) /\ Distinct(a)
          /\ \A u \in Task : In(a, u) <=> In(q, u) /\ u # t
      BY <3>2, <3>3, Deleted
    <3>5. Ordered(a, y.priority)
      <4>1. PICK pri : pri = j.priority
        OBVIOUS
      <4>2. PICK new : new = y.priority
        OBVIOUS
      <4>3. Ordered(q, pri) /\ \A u \in Task : u # t => new[u] = pri[u]
        BY <3>2, <4>1, <4>2, <1>4
      <4>4. Ordered(a, new)
        BY ONLY <3>2, <3>3, <4>3, q \in Seq(Task), t \in Task, DeletedOrdered
      <4> QED BY <4>2, <4>4
    <3>6. PICK b : b = queue_insert_tpri(y, a, t)
      OBVIOUS
    <3>7. /\ b \in Seq(Task) /\ Distinct(b)
          /\ \A u \in Task : In(b, u) <=> In(a, u) \/ u = t
          /\ Ordered(b, y.priority)
      BY <3>4, <3>5, <3>6, <1>4, InsertedTpri
    <3>8. W = [j.wait_queue EXCEPT ![o] = b]
      BY <2>3, <2>5, <3>1, <3>3, <3>6, <1>6
    <3>9. /\ W \in [Wobj -> Seq(Task)] /\ W[o] = b
          /\ \A n \in Wobj \ {o} : W[n] = j.wait_queue[n]
      BY <2>2, <2>3, <2>5, <3>7, <3>8
    <3>10. \A u \in Task : In(b, u) <=> In(q, u)
      BY <3>2, <3>4, <3>7
    <3>11. q # <<>>
      BY <3>2 DEF In
    <3> HIDE <3>8, <3>6, <3>3
    <3> QED BY <2>1, <2>2, <3>1, <3>7, <3>9, <3>10, <3>11
  <2> QED BY <2>4, <2>5
<1> HIDE <1>6, <1>2
<1>10. QType(r) /\ AtrOK(r)
  BY <1>1, <1>4, <1>7, <1>8, <1>9, AtrSame DEF QType, QInv
<1>12. QueuesOK(r, {})
  <2>1. \A u \in Task, n \in Wobj :
          In(r.wait_queue[n], u) <=> AtWobj(r.tstat[u]) /\ r.p_wobjcb[u] = n /\ u \notin {}
    BY <1>7, <1>8, <1>9 DEF QInv, QueuesOK
  <2>2. \A n \in Wobj : r.wait_queue[n] # <<>> => Usable(r, n)
    BY <1>7, <1>8, <1>9 DEF QInv, QueuesOK, Usable
  <2>3. \A n \in Wobj : TA_TPRI(r, n) => Ordered(r.wait_queue[n], r.priority)
    BY <1>7, <1>8, <1>9 DEF TA_TPRI
  <2> QED BY <2>1, <2>2, <2>3, <1>7, <1>9 DEF QueuesOK
<1>15. \A u \in Task : KindOK(r.tstat[u], r.p_wobjcb[u])
  BY <1>8 DEF QInv
<1> QED BY <1>7, <1>10, <1>12, <1>15 DEF QInv

(* Leaving out a task that waits for no mutex. *)
LEMMA QWeaken ==
  ASSUME NEW j, QInv(j, {}), NEW t \in Task, ~AtWobj(j.tstat[t])
  PROVE  QInv(j, {t})
<1>1. Same(j, j, {"tstat"}) /\ j.tstat \in [Task -> SUBSET TstatFlag]
  BY DEF Same, QInv, QType
<1>2. \A u \in Task : AtWobj(j.tstat[u]) /\ u \notin {t}
                        <=> AtWobj(j.tstat[u]) /\ u \notin {}
  OBVIOUS
<1>3. \A u \in Task : KindOK(j.tstat[u], j.p_wobjcb[u])
  BY DEF QInv
<1> QED BY ONLY <1>1, <1>2, <1>3, QInv(j, {}), QStat

(* make_dormant: a task that is in no queue gets its initial values. *)
LEMMA QDormant ==
  ASSUME NEW j, NEW t \in Task, QInv(j, {t}),
         j.ipriority[t] \in TPRI, NEW r, r = make_dormant(j, t)
  PROVE  QInv(r, {}) /\ r.tstat[t] = {} /\ Same(j, r, {"tstat", "priority"})
<1>1. QType(j) /\ QFields \subseteq DOMAIN j
  BY DEF QInv, QType
<1>2. PICK p \in TPRI : p = j.ipriority[t]
  OBVIOUS
<1>3. /\ Same(j, r, {"tstat", "priority"})
      /\ r.tstat = [j.tstat EXCEPT ![t] = {}]
      /\ r.priority = [j.priority EXCEPT ![t] = p]
  BY <1>1, <1>2 DEF Same, QFields, FreeLists, make_dormant, TS_DORMANT
<1>4. /\ r.p_wobjcb = j.p_wobjcb /\ r.wait_queue = j.wait_queue /\ r.wobjatr = j.wobjatr
      /\ r.mutex_queue = j.mutex_queue /\ (\A f \in FreeLists : r[f] = j[f])
      /\ QFields \subseteq DOMAIN r
  BY <1>3 DEF Same, QFields, FreeLists
<1>5. /\ r.tstat \in [Task -> SUBSET TstatFlag] /\ r.tstat[t] = {}
      /\ r.priority \in [Task -> TPRI] /\ r.priority[t] = p
      /\ \A u \in Task \ {t} : r.tstat[u] = j.tstat[u] /\ r.priority[u] = j.priority[u]
  BY <1>1, <1>3 DEF QType
<1> HIDE <1>2
<1>6. QType(r) /\ AtrOK(r)
  BY <1>1, <1>4, <1>5, AtrSame DEF QType, QInv
<1>7. \A n \in Wobj : ~In(j.wait_queue[n], t)
  BY DEF QInv, QueuesOK
<1>8. ~AtWobj({})
  BY DEF AtWobj
<1>9. QueuesOK(r, {})
  <2>1. ASSUME NEW u \in Task, NEW n \in Wobj
        PROVE  In(r.wait_queue[n], u) <=> AtWobj(r.tstat[u]) /\ r.p_wobjcb[u] = n /\ u \notin {}
    <3>1. In(j.wait_queue[n], u) <=> AtWobj(j.tstat[u]) /\ j.p_wobjcb[u] = n /\ u \notin {t}
      BY DEF QInv, QueuesOK
    <3> QED BY <3>1, <1>4, <1>5, <1>8
  <2>2. \A n \in Wobj : r.wait_queue[n] # <<>> => Usable(r, n)
    BY <1>4 DEF QInv, QueuesOK, Usable
  <2>3. ASSUME NEW n \in Wobj, TA_TPRI(r, n)
        PROVE  Ordered(r.wait_queue[n], r.priority)
    <3>1. j.wait_queue[n] \in Seq(Task) /\ Ordered(j.wait_queue[n], j.priority)
      BY <1>1, <1>4, <2>3 DEF QInv, QType, QueuesOK, TA_TPRI
    <3>2. PICK w \in Seq(Task) : w = j.wait_queue[n]
      BY <3>1
    <3>3. ASSUME NEW i \in 1 .. Len(w) PROVE r.priority[w[i]] = j.priority[w[i]]
      <4>1. w[i] \in Task /\ w[i] # t
        BY <3>2, <1>7 DEF In
      <4> QED BY <4>1, <1>5
    <3> QED BY <3>1, <3>2, <3>3, <1>4 DEF Ordered
  <2> QED BY <2>1, <2>2, <2>3, <1>4 DEF QInv, QueuesOK
<1>12. ASSUME NEW u \in Task PROVE KindOK(r.tstat[u], r.p_wobjcb[u])
  <2>1. KindOK({}, r.p_wobjcb[u])
    BY <1>8 DEF KindOK
  <2> QED BY <2>1, <1>4, <1>5 DEF QInv
<1> QED BY <1>3, <1>5, <1>6, <1>9, <1>12 DEF QInv

(* make_active: a dormant task becomes runnable. *)
LEMMA QActive ==
  ASSUME NEW j, QInv(j, {}), NEW t \in Task, j.tstat[t] = {},
         NEW r, r = make_active(j, t)
  PROVE  QInv(r, {})
<1>1. PICK y : y = activate_context(j, t)
  OBVIOUS
<1>2. PICK z : z = [y EXCEPT !.tstat[t] = {"RUNNABLE"}]
  OBVIOUS
<1>3. r = make_runnable(z, t)
  BY <1>1, <1>2 DEF make_active, TS_RUNNABLE
<1>4. QFields \subseteq DOMAIN j
  BY DEF QInv, QType
<1>5. Same(j, y, {})
  BY <1>1, <1>4, SameReady
<1> HIDE <1>1
<1>6. QFields \subseteq DOMAIN y /\ y.tstat = j.tstat /\ y.p_wobjcb = j.p_wobjcb
  BY <1>5 DEF Same, QFields, FreeLists
<1>7. Same(y, z, {"tstat"}) /\ z.tstat = [j.tstat EXCEPT ![t] = {"RUNNABLE"}]
  BY <1>2, <1>6 DEF Same, QFields, FreeLists
<1> HIDE <1>2
<1>8. Same(j, z, {"tstat"}) /\ QFields \subseteq DOMAIN z /\ z.p_wobjcb = j.p_wobjcb
  BY <1>5, <1>6, <1>7 DEF Same, QFields, FreeLists
<1>9. j.tstat \in [Task -> SUBSET TstatFlag] /\ {"RUNNABLE"} \subseteq TstatFlag
  BY DEF QInv, QType, TstatFlag
<1>10. /\ z.tstat \in [Task -> SUBSET TstatFlag] /\ z.tstat[t] = {"RUNNABLE"}
       /\ \A u \in Task \ {t} : z.tstat[u] = j.tstat[u]
  BY <1>7, <1>9
<1>11. \A u \in Task : AtWobj(z.tstat[u]) /\ u \notin {}
                         <=> AtWobj(j.tstat[u]) /\ u \notin {}
  <2>1. ~AtWobj({}) /\ ~AtWobj({"RUNNABLE"})
    BY DEF AtWobj, WobjKind, WobjcbKind
  <2> QED BY <1>10, <2>1
<1>13. \A u \in Task : KindOK(z.tstat[u], z.p_wobjcb[u])
  <2>1. \A o : KindOK({"RUNNABLE"}, o)
    BY DEF KindOK, AtWobj, WobjKind, WobjcbKind
  <2> QED BY <2>1, <1>8, <1>10 DEF QInv
<1>14. QInv(z, {})
  BY ONLY <1>8, <1>10, <1>11, <1>13, QInv(j, {}), QStat
<1>15. Same(z, r, {})
  BY <1>3, <1>8, SameReady
<1> QED BY <1>14, <1>15, QSame

(* The state x of the loop of init_wait_queue after n iterations. *)
InitWaitAt(j, x, o, n) ==
  /\ QInv(x, {}) /\ Same(j, x, {"wait_queue", "tstat"}) /\ CallOf(j, x, Task)
  /\ Len(x.wait_queue[o]) = Len(j.wait_queue[o]) - n
  /\ Outer(j, x) /\ \A u \in Wobj \ {o} : x.wait_queue[u] = j.wait_queue[u]

(* One iteration. *)
LEMMA InitWaitStep ==
  ASSUME NEW j, NEW o \in Wobj, Len(j.wait_queue[o]) \in Nat,
         NEW n \in 1 .. Len(j.wait_queue[o]), NEW x, InitWaitAt(j, x, o, n - 1),
         NEW r, r = wait_delete_head(x, o)
  PROVE  InitWaitAt(j, r, o, n)
<1>1. QInv(x, {}) /\ Same(j, x, {"wait_queue", "tstat"}) /\ CallOf(j, x, Task)
  BY DEF InitWaitAt
<1>2. Len(x.wait_queue[o]) > 0
  BY DEF InitWaitAt
<1>3. x.wait_queue[o] # <<>>
  BY <1>2
<1>4. /\ QInv(r, {}) /\ Same(x, r, {"wait_queue", "tstat"})
      /\ Shorter(r.wait_queue[o], x.wait_queue[o])
      /\ \A u \in Wobj \ {o} : r.wait_queue[u] = x.wait_queue[u]
  BY <1>1, <1>3, QDeleteHead
<1>5. PICK t : t = Head(x.wait_queue[o])
  OBVIOUS
<1>6. t \in Task /\ "WAITING" \in x.tstat[t]
  BY <1>1, <1>3, <1>5, WaitHead
<1>7. Static(x)
  BY <1>1, StaticCases DEF CallOf
<1>8. CallOf(x, r, Task)
  BY ONLY <1>5, <1>6, <1>7, o \in Wobj, r = wait_delete_head(x, o), DeleteHeadCall
<1>9. CallOf(j, r, Task)
  BY <1>1, <1>8, CallTrans
<1>10. Same(j, r, {"wait_queue", "tstat"})
  BY <1>1, <1>4, SameTrans
<1>11. Len(r.wait_queue[o]) = Len(j.wait_queue[o]) - n
  BY <1>4 DEF InitWaitAt, Shorter
<1>12. Outer(x, r)
  BY OuterReady
<1>13. Outer(j, r)
  BY <1>12, OuterTrans DEF InitWaitAt
<1> QED BY <1>4, <1>9, <1>10, <1>11, <1>13 DEF InitWaitAt

(* init_wait_queue releases every task that waits for o. *)
LEMMA InitWait ==
  ASSUME NEW j, QInv(j, {}), Static(j), NEW o \in Wobj,
         NEW r, r = init_wait_queue(j, o)
  PROVE  /\ QInv(r, {}) /\ Same(j, r, {"wait_queue", "tstat"})
         /\ CallOf(j, r, Task) /\ r.wait_queue[o] = <<>>
         /\ Outer(j, r) /\ \A n \in Wobj \ {o} : r.wait_queue[n] = j.wait_queue[n]
<1>1. j.wait_queue[o] \in Seq(Task)
  BY DEF QInv, QType
<1>2. PICK N \in Nat : N = Len(j.wait_queue[o])
  BY <1>1
<1>3. PICK f : LoopTo(TRUE, j, o, f, N) /\ r = f[N]
  BY <1>2, InitWaitLoop
<1> DEFINE T == {n \in 0 .. N : InitWaitAt(j, f[n], o, n)}
<1>4. 0 \in T
  <2>1. Same(j, j, {"wait_queue", "tstat"})
    BY DEF Same, QInv, QType
  <2>2. CallOf(j, j, Task)
    BY CallRefl, StaticCases
  <2>3. InitWaitAt(j, j, o, 0)
    BY <1>2, <2>1, <2>2 DEF Outer, Frame, InitWaitAt
  <2> QED BY <1>3, <2>3 DEF LoopTo
<1>5. ASSUME NEW n \in 1 .. N, n - 1 \in T PROVE n \in T
  <2>1. f[n] = wait_delete_head(f[n - 1], o)
    BY <1>3 DEF LoopTo, LoopStep
  <2>2. InitWaitAt(j, f[n - 1], o, n - 1)
    BY <1>5
  <2>3. InitWaitAt(j, f[n], o, n)
    BY ONLY <1>2, <2>1, <2>2, o \in Wobj, n \in 1 .. N, InitWaitStep
  <2> QED BY <2>3
<1>6. \A n \in 1 .. N : n - 1 \in T => n \in T
  BY <1>5
<1> HIDE DEF T
<1>7. \A n \in 0 .. N : n \in T
  BY <1>4, <1>6, LoopInduction
<1>8. InitWaitAt(j, r, o, N)
  BY <1>3, <1>7 DEF T
<1>9. r.wait_queue[o] \in Seq(Task) /\ Len(r.wait_queue[o]) = 0
  BY <1>2, <1>8 DEF InitWaitAt, QInv, QType
<1> QED BY <1>8, <1>9 DEF InitWaitAt

-----------------------------------------------------------------------------
(***************************************************************************)
(* The actions on tasks.                                                   *)
(***************************************************************************)
QOK(x) == QInv(x, {})

(* The functions that leave the fields of QInv alone. *)
LEMMA QKeeps ==
  ASSUME NEW j, QOK(j), NEW t, NEW i
  PROVE  /\ QOK(make_runnable(j, t)) /\ QOK(make_non_runnable(j, t)) /\ QOK(dispatcher(j))
         /\ QOK(t_leave(j)) /\ QOK(i_leave(j)) /\ QOK(Void(i, j))
<1>1. QFields \subseteq DOMAIN j
  BY DEF QOK, QInv, QType
<1>2. /\ Same(j, make_runnable(j, t), {}) /\ Same(j, make_non_runnable(j, t), {})
      /\ Same(j, dispatcher(j), {})
      /\ Same(j, t_leave(j), {}) /\ Same(j, i_leave(j), {}) /\ Same(j, Void(i, j), {})
  BY <1>1, SameReady
<1> QED BY <1>2, QSame DEF QOK

(* No task owns a mutex. *)
LEMMA QNoMutex ==
  ASSUME NEW j, NEW X, QInv(j, X)
  PROVE  NoMutex(j)
BY DEF QInv, QType, QFields, NoMutex

(* A task that is runnable, or not waiting, or delayed, is in no wait      *)
(* queue.                                                                  *)
LEMMA NotWaiting ==
  ASSUME NEW j, QOK(j), NEW t \in Task,
         \/ "RUNNABLE" \in j.tstat[t] \/ "WAITING" \notin j.tstat[t] \/ "DLY" \in j.tstat[t]
  PROVE  ~AtWobj(j.tstat[t])
BY DEF QOK, QInv, KindOK

(* end_task: t has left the ready queue and its wait queue. *)
LEMMA QEnd ==
  ASSUME NEW j, NEW t \in Task, QInv(j, {t}), j.ipriority[t] \in TPRI,
         NEW r, r = end_task(j, t)
  PROVE  QOK(r)
<1>1. NoMutex(j)
  BY QNoMutex
<1>2. PICK d : d = make_dormant(j, t)
  OBVIOUS
<1>3. r = IF d.actque[t] THEN make_active([d EXCEPT !.actque[t] = FALSE], t) ELSE d
  BY <1>1, <1>2, NoMutexEnd
<1>4. QInv(d, {}) /\ d.tstat[t] = {}
  BY <1>2, QDormant
<1> HIDE <1>2
<1>5. CASE ~d.actque[t]
  BY <1>3, <1>4, <1>5 DEF QOK
<1>6. CASE d.actque[t]
  <2>1. PICK a : a = [d EXCEPT !.actque[t] = FALSE]
    OBVIOUS
  <2>2. Same(d, a, {})
    BY <1>4, <2>1 DEF QInv, QType, Same, QFields, FreeLists
  <2>3. QInv(a, {}) /\ a.tstat = d.tstat
    BY <1>4, <2>2, QSame, SameFields
  <2>4. r = make_active(a, t)
    BY <1>3, <1>6, <2>1
  <2>5. a.tstat[t] = {}
    BY <1>4, <2>3
  <2> QED BY ONLY t \in Task, <2>3, <2>4, <2>5, QActive DEF QOK
<1> QED BY <1>5, <1>6

(* ter_tsk. *)
LEMMA QTerminate ==
  ASSUME IInv(k), QOK(k), NEW t \in Task, ter_tsk(t)
  PROVE  QOK(k')
<1>3. PICK y : y = TerRemoved(t)
  OBVIOUS
<1>4. k' = t_leave(end_task(y, t))
  BY <1>3 DEF ter_tsk, TSTAT_RUNNABLE, TSTAT_WAITING, TerRemoved
<1>5. StaticBut(y, t) /\ y.tstat = k.tstat
  BY <1>3, TerRemove
<1>6. QInv(y, {t})
  <2>1. QInv(k, {}) /\ QFields \subseteq DOMAIN k
    BY DEF QOK, QInv, QType
  <2>3. CASE "RUNNABLE" \in k.tstat[t]
    <3>1. y = Void(k, make_non_runnable(k, t))
      BY <1>3, <2>3 DEF TerRemoved
    <3>2. QOK(y)
      BY <3>1, QKeeps
    <3>3. ~AtWobj(y.tstat[t])
      BY <1>5, <2>3, NotWaiting
    <3> QED BY ONLY t \in Task, <3>2, <3>3, QWeaken DEF QOK
  <2>4. CASE "RUNNABLE" \notin k.tstat[t] /\ "WAITING" \in k.tstat[t]
    <3>1. PICK w : w = wait_dequeue_wobj(k, t)
      OBVIOUS
    <3>2. QInv(w, {t})
      BY <2>1, <3>1, QDequeue
    <3>3. y = wait_dequeue_tmevtb(w, t)
      BY <1>3, <2>4, <3>1 DEF TerRemoved
    <3> HIDE <3>1
    <3>4. QFields \subseteq DOMAIN w
      BY <3>2 DEF QInv, QType
    <3>5. Same(w, y, {})
      BY <3>3, <3>4, SameReady
    <3> QED BY <3>2, <3>5, QSame
  <2>5. CASE "RUNNABLE" \notin k.tstat[t] /\ "WAITING" \notin k.tstat[t]
    <3>1. y = k
      BY <1>3, <2>5 DEF TerRemoved
    <3>2. ~AtWobj(k.tstat[t])
      BY <2>5, NotWaiting
    <3> QED BY <2>1, <3>1, <3>2, QWeaken
  <2> QED BY <2>3, <2>4, <2>5
<1> HIDE <1>3
<1>7. y.ipriority[t] \in TPRI
  BY <1>5 DEF StaticBut, Data
<1>8. QOK(end_task(y, t))
  BY ONLY t \in Task, <1>6, <1>7, QEnd
<1> QED BY <1>4, <1>8, QKeeps

(* ext_tsk. *)
LEMMA QExit ==
  ASSUME IInv(k), QOK(k), ext_tsk
  PROVE  QOK(k')
<1>1. /\ Static(k) /\ k.p_runtsk \in Task /\ "RUNNABLE" \in k.tstat[k.p_runtsk]
  BY TaskContext DEF ext_tsk
<1>2. PICK t \in Task : t = k.p_runtsk
  BY <1>1
<1>3. PICK j : j = [k EXCEPT !.disdsp = FALSE, !.ipmflg = TRUE, !.dspflg = TRUE]
  OBVIOUS
<1>4. PICK n : n = make_non_runnable(j, t)
  OBVIOUS
<1>5. k' = dispatcher(end_task(n, t))
  BY <1>2, <1>3, <1>4 DEF ext_tsk
<1>6. Same(k, j, {}) /\ j.ipriority = k.ipriority
  BY <1>1, <1>3 DEF QOK, QInv, QType, Same, QFields, FreeLists, Static, Data, KernelFields
<1>7. QOK(j) /\ j.tstat = k.tstat
  BY <1>6, QSame, SameFields DEF QOK
<1> HIDE <1>3
<1>8. QOK(n) /\ n.tstat = j.tstat
  <2>1. Same(j, n, {})
    BY <1>4, <1>7, SameReady DEF QOK, QInv, QType
  <2> QED BY <1>7, <2>1, QSame, SameFields DEF QOK
<1>9. n.ipriority = j.ipriority
  BY <1>4 DEF make_non_runnable, ready_delete
<1> HIDE <1>4
<1>10. ~AtWobj(n.tstat[t])
  BY <1>1, <1>2, <1>7, <1>8, NotWaiting
<1>11. QInv(n, {t})
  BY <1>8, <1>10, QWeaken DEF QOK
<1>12. n.ipriority[t] \in TPRI
  BY <1>1, <1>6, <1>9 DEF Static, Data
<1>13. QOK(end_task(n, t))
  BY ONLY t \in Task, <1>11, <1>12, QEnd
<1> QED BY <1>5, <1>13, QKeeps

(* chg_pri. *)
LEMMA QChgPri ==
  ASSUME QOK(k), NEW t \in Task, NEW p \in TPRI, chg_pri(t, p)
  PROVE  QOK(k')
<1>1. NoMutex(k)
  BY QNoMutex DEF QOK
<1>2. PICK y : y = [k EXCEPT !.bpriority[t] = p]
  OBVIOUS
<1>3. k' = k \/ k' = t_leave(change_priority(y, t, p, FALSE))
  BY <1>1, <1>2, NoMutexChgPri DEF chg_pri
<1>4. Same(k, y, {})
  BY <1>2 DEF QOK, QInv, QType, Same, QFields, FreeLists
<1> HIDE <1>2
<1>5. QInv(y, {})
  BY <1>4, QSame DEF QOK
<1>6. QOK(change_priority(y, t, p, FALSE))
  BY <1>5, QChangePri DEF QOK
<1> QED BY <1>3, <1>6, QKeeps

(* initialize_task. *)
LEMMA QInitTask ==
  ASSUME IInv(k), QOK(k), initialize_task
  PROVE  QOK(k')
<1>1. k.boot \in 1 .. Len(torder) /\ ~k.kerflg
  BY DEF initialize_task, IInv, Static, Data, Context, Boot
<1>2. PICK t : t = torder[k.boot]
  OBVIOUS
<1>3. t \in Task /\ k.tstat[t] = {}
  <2>1. PICK i \in 1 .. Len(torder) : i = k.boot
    BY <1>1
  <2>2. t = torder[i] /\ i >= k.boot
    BY <1>2, <2>1
  <2>3. t \in Task
    BY <2>2, TableAssumption
  <2>4. k.tstat[torder[i]] = {}
    BY <1>1, <2>2 DEF IInv, Context, Boot
  <2> QED BY <2>2, <2>3, <2>4
<1>4. PICK y : y = [k EXCEPT !.actque[t] = FALSE, !.mutex_queue[t] = <<>>]
  OBVIOUS
<1>5. PICK d : d = make_dormant(y, t)
  OBVIOUS
<1>6. PICK z : z = IF t \in TaAct THEN Void(k, make_active(d, t)) ELSE d
  OBVIOUS
<1>7. k' = [z EXCEPT !.boot = @ + 1]
  BY <1>2, <1>4, <1>5, <1>6 DEF initialize_task
<1>8. Same(k, y, {}) /\ y.ipriority[t] \in TPRI
  <2>1. k.mutex_queue = [u \in Task |-> <<>>]
    BY DEF QOK, QInv, QType
  <2>2. [k.mutex_queue EXCEPT ![t] = <<>>] = k.mutex_queue
    BY <1>3, <2>1
  <2>3. Same(k, y, {"mutex_queue"}) /\ y.mutex_queue = [k.mutex_queue EXCEPT ![t] = <<>>]
    BY <1>4 DEF QOK, QInv, QType, Same, QFields, FreeLists
  <2>4. y.ipriority = k.ipriority /\ k.ipriority \in [Task -> TPRI]
    BY <1>4 DEF IInv, Static, Data, KernelFields
  <2> QED BY <1>3, <2>2, <2>3, <2>4 DEF Same
<1> HIDE <1>2, <1>4
<1>9. QInv(y, {}) /\ y.tstat = k.tstat
  BY <1>8, QSame, SameFields DEF QOK
<1>10. ~AtWobj(y.tstat[t])
  BY <1>3, <1>9 DEF AtWobj
<1>11. QInv(y, {t})
  BY ONLY <1>3, <1>9, <1>10, QWeaken
<1>12. QOK(d) /\ d.tstat[t] = {}
  BY ONLY <1>3, <1>5, <1>8, <1>11, QDormant DEF QOK
<1> HIDE <1>5
<1>13. QOK(z)
  <2>1. QOK(make_active(d, t))
    BY <1>3, <1>12, QActive DEF QOK
  <2> QED BY <1>6, <1>12, <2>1, QKeeps
<1> HIDE <1>6
<1>14. Same(z, k', {})
  BY <1>7, <1>13 DEF Same, QFields, FreeLists, QOK, QInv, QType
<1> QED BY <1>13, <1>14, QSame DEF QOK

(* act_tsk and iact_tsk of a dormant task, and rel_wai. *)
LEMMA QSimpleCalls ==
  ASSUME QOK(k), NEW t \in Task,
         (k.tstat[t] = {} /\ (act_tsk(t) \/ iact_tsk(t))) \/ rel_wai(t)
  PROVE  QOK(k')
<1>1. CASE k.tstat[t] = {} /\ (act_tsk(t) \/ iact_tsk(t))
  <2>1. activate(t) = make_active(k, t)
    BY <1>1 DEF activate, TSTAT_DORMANT, TS_DORMANT
  <2>2. QOK(activate(t))
    BY <1>1, <2>1, QActive DEF QOK
  <2> QED BY <1>1, <2>2, QKeeps DEF act_tsk, iact_tsk
<1>2. CASE rel_wai(t)
  <2>1. QOK(wait_release(k, t))
    BY QWaitEnd DEF QOK
  <2> QED BY <1>2, <2>1, QKeeps DEF rel_wai
<1> QED BY <1>1, <1>2

(* The time-out callbacks. *)
LEMMA QSignalTime ==
  ASSUME IInv(k), QOK(k), NEW t \in Task, signal_time(t)
  PROVE  QOK(k')
<1>1. PICK y : y = [k EXCEPT !.tmevtb[t] = "none"]
  OBVIOUS
<1>2. QOK(y) /\ y.tstat = k.tstat
  <2>1. Same(k, y, {})
    BY <1>1 DEF Same, QFields, FreeLists, QOK, QInv, QType
  <2> QED BY <2>1, QSame, SameFields DEF QOK
<1>3. k' = i_leave(IF k.tmevtb[t] = "wait_tmout" THEN wait_tmout(y, t) ELSE wait_tmout_ok(y, t))
  BY <1>1 DEF signal_time
<1> HIDE <1>1
<1>4. CASE k.tmevtb[t] = "wait_tmout"
  <2>1. QOK(wait_tmout(y, t))
    BY <1>2, QWaitEnd DEF QOK
  <2> QED BY <1>3, <1>4, <2>1, QKeeps
<1>5. CASE k.tmevtb[t] # "wait_tmout"
  <2>1. k.tmevtb[t] = "wait_tmout_ok"
    BY <1>5 DEF signal_time, IInv, Static, Data, Callback
  <2>2. "DLY" \in k.tstat[t]
    BY <2>1 DEF IInv, Static, WaitsOK, WaitOK
  <2>3. ~AtWobj(y.tstat[t])
    BY <1>2, <2>2, NotWaiting
  <2>4. QOK(wait_tmout_ok(y, t))
    BY <1>2, <2>3, QWaitEnd DEF QOK
  <2> QED BY <1>3, <1>5, <2>4, QKeeps
<1> QED BY <1>4, <1>5

(* The actions that change no field of QInv. *)
LEMMA QFrameCalls ==
  ASSUME QOK(k), \/ start_dispatch \/ wait_return_obj \/ int_entry \/ ret_int \/ idle_loop
  PROVE  QOK(k')
<1>1. QInv(k, {}) /\ QFields \subseteq DOMAIN k
  BY DEF QOK, QInv, QType
<1>2. CASE wait_return_obj \/ int_entry
  <2>1. Same(k, k', {})
    BY <1>1, <1>2 DEF Same, QFields, FreeLists, wait_return_obj, int_entry
  <2> QED BY <1>1, <2>1, QSame DEF QOK
<1>3. CASE start_dispatch \/ ret_int \/ idle_loop
  <2>1. PICK a, b, c, d : /\ a = [k EXCEPT !.kerflg = TRUE] /\ b = [k EXCEPT !.reqflg = FALSE]
                          /\ c = [k EXCEPT !.excpt_nest_count = @ - 1, !.lock = FALSE]
                          /\ d = [c EXCEPT !.reqflg = FALSE]
    OBVIOUS
  <2>2. k' = c \/ k' = d \/ k' = dispatcher(a) \/ k' = dispatcher(b) \/ k' = dispatcher(d)
    BY <1>3, <2>1 DEF start_dispatch, ret_int, idle_loop
  <2>3. Same(k, a, {}) /\ Same(k, b, {}) /\ Same(k, c, {}) /\ Same(k, d, {})
    BY <1>1, <2>1 DEF Same, QFields, FreeLists
  <2>4. QOK(a) /\ QOK(b) /\ QOK(c) /\ QOK(d)
    BY ONLY <1>1, <2>3, QSame DEF QOK
  <2> HIDE <2>1
  <2> QED BY <2>2, <2>4, QKeeps
<1> QED BY <1>2, <1>3

-----------------------------------------------------------------------------
(***************************************************************************)
(* The parts of the calls on objects.                                      *)
(***************************************************************************)

(* t joins the wait queue o, which becomes q. *)
Joins(j, r, t, kind, o, q) ==
  /\ Same(j, r, {"tstat", "wait_queue", "p_wobjcb"})
  /\ r.tstat = [j.tstat EXCEPT ![t] = {"WAITING", kind}]
  /\ r.p_wobjcb = [j.p_wobjcb EXCEPT ![t] = o]
  /\ r.wait_queue = [j.wait_queue EXCEPT ![o] = q]
  /\ q \in Seq(Task) /\ Distinct(q)
  /\ \A u \in Task : In(q, u) <=> In(j.wait_queue[o], u) \/ u = t
  /\ TA_TPRI(j, o) => Ordered(q, j.priority)

(* The kinds of waits at o: the queue of the WOBJCB, or an rwait_queue. *)
WaitsAt(kind, o) == kind \in WobjcbKind \/ (kind \in WobjKind /\ o \in RwaitSet)

(* A runnable task starts to wait for an object that exists. *)
LEMMA QJoins ==
  ASSUME NEW j, QOK(j), NEW t \in Task, "RUNNABLE" \in j.tstat[t], NEW o \in Wobj,
         NEW kind, WaitsAt(kind, o), Usable(j, o), NEW r, NEW q, Joins(j, r, t, kind, o, q)
  PROVE  QOK(r)
<1>1. /\ QType(j) /\ QueuesOK(j, {}) /\ AtrOK(j)
      /\ \A u \in Task : KindOK(j.tstat[u], j.p_wobjcb[u])
  BY DEF QOK, QInv
<1>2. ~AtWobj(j.tstat[t]) /\ AtWobj({"WAITING", kind})
  BY NotWaiting DEF AtWobj, WaitsAt, WobjKind
<1>3. /\ r.priority = j.priority /\ r.mutex_queue = j.mutex_queue /\ r.wobjatr = j.wobjatr
      /\ (\A f \in FreeLists : r[f] = j[f]) /\ QFields \subseteq DOMAIN r
  BY DEF Joins, Same, QFields, FreeLists
<1>4. /\ r.tstat = [j.tstat EXCEPT ![t] = {"WAITING", kind}]
      /\ r.p_wobjcb = [j.p_wobjcb EXCEPT ![t] = o]
      /\ r.wait_queue = [j.wait_queue EXCEPT ![o] = q]
      /\ q \in Seq(Task) /\ Distinct(q)
      /\ \A u \in Task : In(q, u) <=> In(j.wait_queue[o], u) \/ u = t
      /\ TA_TPRI(j, o) => Ordered(q, j.priority)
  BY DEF Joins
<1>5. /\ r.tstat[t] = {"WAITING", kind} /\ r.p_wobjcb[t] = o /\ r.wait_queue[o] = q
      /\ \A u \in Task \ {t} : r.tstat[u] = j.tstat[u] /\ r.p_wobjcb[u] = j.p_wobjcb[u]
      /\ \A n \in Wobj \ {o} : r.wait_queue[n] = j.wait_queue[n]
  BY <1>1, <1>4 DEF QType
<1>6. QType(r)
  <2>1. r.tstat \in [Task -> SUBSET TstatFlag]
    <3>1. {"WAITING", kind} \in SUBSET TstatFlag
      BY DEF WaitsAt, TstatFlag, WaitKind, WobjKind
    <3> QED BY <1>1, <1>4, <3>1 DEF QType
  <2>2. r.p_wobjcb \in [Task -> Wobj \cup {NULL}] /\ r.wait_queue \in [Wobj -> Seq(Task)]
    BY <1>1, <1>4 DEF QType
  <2> QED BY <1>1, <1>3, <2>1, <2>2 DEF QType
<1>7. \A n \in Wobj : Usable(r, n) = Usable(j, n) /\ TA_TPRI(r, n) = TA_TPRI(j, n)
  BY <1>3 DEF Usable, TA_TPRI
<1>8. QueuesOK(r, {})
  <2>1. ASSUME NEW u \in Task, NEW n \in Wobj
        PROVE  In(r.wait_queue[n], u) <=> AtWobj(r.tstat[u]) /\ r.p_wobjcb[u] = n
    <3>1. In(j.wait_queue[n], u) <=> AtWobj(j.tstat[u]) /\ j.p_wobjcb[u] = n
      BY <1>1 DEF QueuesOK
    <3>2. CASE n = o
      BY <1>2, <1>4, <1>5, <3>1, <3>2, ZenonT(60)
    <3>3. CASE n # o
      BY <1>2, <1>5, <3>1, <3>3
    <3> QED BY <3>2, <3>3
  <2>2. ASSUME NEW n \in Wobj
        PROVE  /\ Distinct(r.wait_queue[n])
               /\ r.wait_queue[n] # <<>> => Usable(r, n)
               /\ TA_TPRI(r, n) => Ordered(r.wait_queue[n], r.priority)
    <3>1. /\ Distinct(j.wait_queue[n])
          /\ j.wait_queue[n] # <<>> => Usable(j, n)
          /\ TA_TPRI(j, n) => Ordered(j.wait_queue[n], j.priority)
      BY <1>1 DEF QueuesOK
    <3>2. CASE n = o
      BY <1>3, <1>4, <1>5, <1>7, <3>2
    <3>3. CASE n # o
      BY <1>3, <1>5, <1>7, <3>1, <3>3
    <3> QED BY <3>2, <3>3
  <2> QED BY <2>1, <2>2 DEF QueuesOK
<1>9. \A u \in Task : KindOK(r.tstat[u], r.p_wobjcb[u])
  <2>1. KindOK({"WAITING", kind}, o)
    BY DEF KindOK, WaitsAt, WobjKind, WobjcbKind
  <2> QED BY <1>1, <1>5, <2>1
<1>10. AtrOK(r)
  BY <1>1, <1>3, AtrSame
<1> QED BY <1>6, <1>8, <1>9, <1>10 DEF QOK, QInv

(* The running task joins the wait queue o and another one runs. *)
LEMMA QStartWait ==
  ASSUME NEW k1, Static(k1), QOK(k1), k1.kerflg, k1.dspflg, NEW t \in Task,
         t = k1.p_runtsk, "RUNNABLE" \in k1.tstat[t], NEW o \in Wobj, Usable(k1, o),
         NEW kind, WaitsAt(kind, o), NEW tmout \in BOOLEAN,
         NEW x, x = [k1 EXCEPT !.tstat[t] = {"WAITING", kind}],
         NEW r, r = dispatcher(wobj_make_wait_tmout(x, o, tmout))
  PROVE  /\ IInv(r) /\ QOK(r) /\ Outer(k1, r)
         /\ \A n \in Wobj, u \in Task : In(r.wait_queue[n], u)
              => In(k1.wait_queue[n], u) \/ (n = o /\ u = t)
<1>1. Static(k1) /\ t \in Task /\ t = k1.p_runtsk /\ "RUNNABLE" \in k1.tstat[t]
  OBVIOUS
<1>2. kind \in WaitKind \ {"DLY"}
  BY DEF WaitsAt, WaitKind, WobjKind, WobjcbKind
<1>6. PICK w : w = make_wait_tmout(x, tmout)
  OBVIOUS
<1>7. /\ Static(w) /\ SameContext(k1, w)
      /\ w.tstat = [k1.tstat EXCEPT ![t] = {"WAITING", kind}]
      /\ Frame(k1, w, {"tstat", "winfo", "tmevtb"} \cup ReadyFields)
  <2>1. \E a, b : Waits(k1, t, w, kind, x, a, b)
    <3>1. CASE tmout
      <4>1. w = make_wait_tmevtb(x, "wait_tmout")
        BY <1>6, <3>1 DEF make_wait_tmout
      <4> WITNESS "p_tmevtb", "wait_tmout"
      <4> QED BY <1>2, <4>1 DEF Waits
    <3>2. CASE ~tmout
      <4>1. w = make_wait(x)
        BY <1>6, <3>2 DEF make_wait_tmout
      <4> WITNESS "NULL", "none"
      <4> QED BY <1>2, <4>1 DEF Waits
    <3> QED BY <3>1, <3>2
  <2>2. PICK a, b : Waits(k1, t, w, kind, x, a, b)
    BY <2>1
  <2>3. Static(w) /\ SameContext(k1, w)
    BY ONLY <1>1, <2>2, WaitStarts
  <2>4. StartsWait(k1, w, t, kind)
    BY ONLY <1>1, <2>2, WaitStarts
  <2>5. Frame(k1, w, {"tstat", "winfo", "tmevtb"} \cup ReadyFields)
    BY ONLY <1>1, <2>2, WaitStarts
  <2> QED BY <2>3, <2>4, <2>5 DEF StartsWait
<1>8. KernelFields \subseteq DOMAIN w /\ QFields \subseteq DOMAIN w
  <2>1. QFields \subseteq DOMAIN k1
    BY DEF QOK, QInv, QType
  <2> QED BY <1>7, <2>1 DEF Frame, Static, Data
<1>9. w.p_runtsk = t /\ x.p_runtsk = t
  BY <1>1, <1>7 DEF SameContext, Static, Data, KernelFields
<1>10. /\ Same(k1, w, {"tstat"}) /\ w.wait_queue = k1.wait_queue
       /\ w.priority = k1.priority /\ TA_TPRI(w, o) = TA_TPRI(k1, o)
  <2>1. Same(k1, w, {"tstat"})
    BY <1>7, <1>8 DEF Same, QFields, FreeLists, Frame, ReadyFields
  <2> QED BY <2>1 DEF Same, QFields, FreeLists, TA_TPRI
<1>11. PICK q : q = IF TA_TPRI(k1, o) THEN queue_insert_tpri(w, k1.wait_queue[o], t)
                    ELSE queue_insert_prev(k1.wait_queue[o], t)
  OBVIOUS
<1>12. PICK z : z = [w EXCEPT !.wait_queue[o] = q, !.p_wobjcb[t] = o]
  OBVIOUS
<1>13. r = dispatcher(z)
  <2>2. PICK u : u = [w EXCEPT !.wait_queue[o] = q]
    OBVIOUS
  <2>3. wobj_queue_insert(w, o) = u
    <3>1. CASE TA_TPRI(k1, o)
      BY <1>8, <1>9, <1>10, <1>11, <2>2, <3>1 DEF wobj_queue_insert, QFields, FreeLists
    <3>2. CASE ~TA_TPRI(k1, o)
      BY <1>8, <1>9, <1>10, <1>11, <2>2, <3>2 DEF wobj_queue_insert, QFields, FreeLists
    <3> QED BY <3>1, <3>2
  <2>4. wobj_make_wait_tmout(x, o, tmout) = [u EXCEPT !.p_wobjcb[t] = o]
    BY <1>6, <1>9, <2>3 DEF wobj_make_wait_tmout
  <2>5. [u EXCEPT !.p_wobjcb[t] = o] = z
    BY <1>8, <1>12, <2>2 DEF QFields, FreeLists
  <2> QED BY <2>4, <2>5
<1> HIDE <1>6
<1>14. /\ Frame(w, z, QueueFields) /\ Same(w, z, {"wait_queue", "p_wobjcb"})
       /\ z.wait_queue = [k1.wait_queue EXCEPT ![o] = q]
       /\ z.p_wobjcb = [w.p_wobjcb EXCEPT ![t] = o]
  BY <1>8, <1>10, <1>12 DEF Frame, QueueFields, Same, QFields, FreeLists
<1>15. IInv(r)
  <2>1. StaticOf(w, Task)
    BY <1>7, StaticCases
  <2>2. CallOf(w, z, Task)
    BY <1>8, <1>14, <2>1, KeptTables DEF Frame, Kept
  <2>3. Static(z) /\ SameContext(w, z)
    BY <2>2, StaticCases DEF CallOf
  <2>4. z.kerflg /\ z.dspflg
    BY <1>7, <2>3 DEF SameContext
  <2> HIDE <1>12
  <2> QED BY <1>13, <2>3, <2>4, Dispatcher
<1>16. /\ q \in Seq(Task) /\ Distinct(q)
       /\ \A u \in Task : In(q, u) <=> In(k1.wait_queue[o], u) \/ u = t
       /\ TA_TPRI(k1, o) => Ordered(q, k1.priority)
  <2>1. PICK c : c = k1.wait_queue[o]
    OBVIOUS
  <2>2. /\ c \in Seq(Task) /\ Distinct(c) /\ ~In(c, t)
        /\ TA_TPRI(k1, o) => Ordered(c, k1.priority)
    <3>1. ~AtWobj(k1.tstat[t])
      BY NotWaiting
    <3> QED BY <2>1, <3>1 DEF QOK, QInv, QType, QueuesOK
  <2>3. CASE TA_TPRI(k1, o)
    <3>1. q = queue_insert_tpri(w, c, t)
      BY <1>11, <2>1, <2>3
    <3>2. w.priority \in [Task -> TPRI]
      BY <1>7 DEF Static, Data, SchedType
    <3>3. /\ q \in Seq(Task) /\ Distinct(q) /\ \A u \in Task : In(q, u) <=> In(c, u) \/ u = t
      BY ONLY t \in Task, <2>2, <3>1, <3>2, InsertedTpri
    <3>4. Ordered(c, w.priority) => Ordered(q, w.priority)
      BY ONLY t \in Task, <2>2, <3>1, <3>2, InsertedTpri
    <3> QED BY <1>10, <2>1, <2>2, <2>3, <3>3, <3>4
  <2>4. CASE ~TA_TPRI(k1, o)
    <3>1. q = Append(c, t)
      BY <1>11, <2>1, <2>4 DEF queue_insert_prev
    <3>2. PICK n \in Nat : n = Len(c)
      BY <2>2
    <3>3. /\ q \in Seq(Task) /\ Len(q) = n + 1 /\ q[n + 1] = t
          /\ \A i \in 1 .. n : q[i] = c[i]
      BY <2>2, <3>1, <3>2
    <3>4. InsertedAt(c, t, n + 1, q)
      BY <3>2, <3>3 DEF InsertedAt
    <3>5. Distinct(q) /\ \A u \in Task : In(q, u) <=> In(c, u) \/ u = t
      BY ONLY t \in Task, <2>2, <3>3, <3>4, Inserted
    <3> QED BY <2>1, <2>4, <3>3, <3>5
  <2> QED BY <2>3, <2>4
<1>17. Joins(k1, z, t, kind, o, q)
  <2>1. z.tstat = [k1.tstat EXCEPT ![t] = {"WAITING", kind}]
    BY <1>7, <1>14 DEF Same, QFields, FreeLists
  <2>2. z.p_wobjcb = [k1.p_wobjcb EXCEPT ![t] = o]
    BY <1>10, <1>14 DEF Same, QFields, FreeLists
  <2>3. Same(k1, z, {"tstat", "wait_queue", "p_wobjcb"})
    BY <1>10, <1>14 DEF Same
  <2> QED BY <1>14, <1>16, <2>1, <2>2, <2>3 DEF Joins
<1> HIDE <1>11, <1>12
<1>18. QOK(z)
  BY ONLY QOK(k1), <1>1, <1>17, o \in Wobj, Usable(k1, o), WaitsAt(kind, o), QJoins
<1>19. Outer(k1, w)
  BY <1>7 DEF Outer, Frame, ReadyFields, KernelFields
<1>20. Outer(w, z)
  BY <1>14 DEF Outer, Frame, QueueFields, KernelFields
<1>21. Outer(k1, r)
  BY <1>13, <1>19, <1>20, OuterTrans, OuterReady
<1>22. \A n \in Wobj, u \in Task : In(r.wait_queue[n], u)
         => In(k1.wait_queue[n], u) \/ (n = o /\ u = t)
  <2>1. r.wait_queue = z.wait_queue
    <3>1. Same(z, r, {})
      <4>1. QFields \subseteq DOMAIN z
        BY <1>18 DEF QOK, QInv, QType
      <4>2. Same(z, dispatcher(z), {})
        BY ONLY <4>1, SameReady
      <4> QED BY <1>13, <4>2
    <3> QED BY <3>1, SameFields
  <2>2. z.wait_queue[o] = q /\ \A n \in Wobj \ {o} : z.wait_queue[n] = k1.wait_queue[n]
    BY <1>14 DEF QOK, QInv, QType
  <2> QED BY <1>16, <2>1, <2>2
<1> QED BY <1>13, <1>15, <1>18, <1>21, <1>22, QKeeps

ObjFields == KernelFields \cup FreeLists

(* A call that changes only the data of an object, or the WINFO of tasks. *)
DataOnly(j, r) == ObjFields \subseteq DOMAIN r /\ \A f \in ObjFields : r[f] = j[f]

(* What every part of a call keeps. *)
ObjCall(j, r) == CallOf(j, r, Task) /\ QOK(r)

(* The data of the objects stay as they are. *)
DataFrame(j, r) == Frame(j, r, KernelFields \cup {"winfo_data"})

(* k.winfo_data has an entry for every task. *)
WType(x) == "winfo_data" \in DOMAIN x /\ DOMAIN x.winfo_data = Task

(* Nobody joins the wait queue of an event flag, and the conditions of     *)
(* those that stay there are as before.                                    *)
Calm(j, r) ==
  /\ WType(r)
  /\ \A o \in Flg, t \in Task :
       In(r.wait_queue[o], t) => In(j.wait_queue[o], t) /\ r.winfo_data[t] = j.winfo_data[t]

(* Two parts in a row. *)
LEMMA CalmTrans ==
  ASSUME NEW j, NEW y, NEW r, Calm(j, y), Calm(y, r)
  PROVE  Calm(j, r)
BY DEF Calm

(* The ends of calls leave the wait queues and the WINFOs alone. *)
LEMMA CalmKeeps ==
  ASSUME NEW j, WType(j), NEW r, DOMAIN r = DOMAIN j, r.winfo_data = j.winfo_data,
         r.wait_queue = j.wait_queue
  PROVE  Calm(j, r)
BY DEF Calm, WType

(* The functions of the task part leave the WINFOs alone. *)
LEMMA OuterWinfo ==
  ASSUME NEW j, WType(j), NEW r, Outer(j, r)
  PROVE  WType(r) /\ r.winfo_data = j.winfo_data
<1>1. "winfo_data" \notin KernelFields
  BY DEF KernelFields
<1> QED BY <1>1 DEF WType, Outer, Frame

(* Wait queues that are emptied. *)
LEMMA CalmShrinks ==
  ASSUME NEW j, WType(j), NEW r, Outer(j, r),
         \A n \in Wobj : r.wait_queue[n] \in {<<>>, j.wait_queue[n]}
  PROVE  Calm(j, r)
<1>1. WType(r) /\ r.winfo_data = j.winfo_data
  BY OuterWinfo
<1>2. Flg \subseteq Wobj
  BY FlgAssumption
<1>3. \A u : ~In(<<>>, u)
  BY DEF In
<1> QED BY <1>1, <1>2, <1>3 DEF Calm

(* The fields of QInv are among these. *)
LEMMA QObjFields == QFields \subseteq ObjFields
BY DEF QFields, ObjFields, FreeLists, KernelFields

(* Such a call keeps the invariant. *)
LEMMA DataCall ==
  ASSUME NEW j, Static(j), QOK(j), NEW r, DataOnly(j, r)
  PROVE  ObjCall(j, r) /\ Static(r) /\ r.dspreq = j.dspreq
<1>1. Kept(j, r, {})
  BY DEF DataOnly, ObjFields, Kept
<1>2. CallOf(j, r, Task)
  BY <1>1, KeptTables, StaticCases
<1>3. Same(j, r, {})
  BY QObjFields DEF DataOnly, Same
<1>4. QOK(r)
  BY ONLY QOK(j), <1>3, QSame DEF QOK
<1>5. r.dspreq = j.dspreq
  BY DEF DataOnly, ObjFields, KernelFields
<1> QED BY <1>2, <1>4, <1>5, StaticCases DEF ObjCall, CallOf

(* Two parts in a row. *)
LEMMA ObjTrans ==
  ASSUME NEW j, NEW y, NEW r, ObjCall(j, y), ObjCall(y, r)
  PROVE  ObjCall(j, r)
BY CallTrans DEF ObjCall

(* The wait of t, which is in no wait queue any more, is completed. *)
LEMMA Released ==
  ASSUME NEW j, Static(j), NEW t \in Task, "WAITING" \in j.tstat[t],
         NEW y, Kept(j, y, {}), QInv(y, {t}), NEW r, r = wait_complete(y, t)
  PROVE  /\ ObjCall(j, r) /\ Outer(y, r) /\ r.wait_queue = y.wait_queue
         /\ ~AtWobj(r.tstat[t])
<1>1. PICK d : d = wait_dequeue_tmevtb(y, t)
  OBVIOUS
<1>2. PICK z : z = set_wercd(d, t, "E_OK")
  OBVIOUS
<1>3. r = make_non_wait(z, t)
  BY <1>1, <1>2 DEF wait_complete
<1>4. CallOf(j, r, Task)
  <2>1. StaticOf(j, Task) /\ Task \in SUBSET Task /\ "E_OK" \in Wercd
    BY StaticCases DEF Wercd
  <2>2. z = set_wercd(wait_dequeue_tmevtb(y, t), t, "E_OK")
    BY <1>1, <1>2
  <2>3. Passing(j, z, t)
    BY ONLY t \in Task, "WAITING" \in j.tstat[t], Kept(j, y, {}), <2>1, <2>2, Dequeueing
  <2> QED BY ONLY t \in Task, "WAITING" \in j.tstat[t], <1>3, <2>1, <2>3, PassCall
<1>5. Same(y, d, {}) /\ QInv(d, {t})
  <2>1. QFields \subseteq DOMAIN y
    BY DEF QInv, QType
  <2>2. Same(y, d, {})
    BY ONLY <1>1, <2>1, SameReady
  <2> QED BY <2>2, QSame
<1>6. Same(d, z, {}) /\ QInv(z, {t})
  <2>1. QFields \subseteq DOMAIN d
    BY <1>5 DEF Same
  <2>2. Same(d, z, {})
    BY ONLY <1>2, <2>1, SameReady
  <2> QED BY <1>5, <2>2, QSame
<1>7. QInv(r, {}) /\ Same(z, r, {"tstat"}) /\ ~AtWobj(r.tstat[t])
  BY ONLY t \in Task, <1>3, <1>6, t \in {t}, {} \subseteq {t}, {t} \subseteq {} \cup {t},
          QNonWait
<1>8. r.wait_queue = y.wait_queue
  BY <1>5, <1>6, <1>7 DEF Same, QFields
<1>9. Outer(y, d) /\ Outer(d, z) /\ Outer(z, r)
  BY <1>1, <1>2, <1>3, OuterReady
<1>10. Outer(y, r)
  BY <1>9, OuterTrans
<1> QED BY <1>4, <1>7, <1>8, <1>10 DEF ObjCall, QOK

(* The first task of a wait queue gets its data and is released. *)
LEMMA Completes ==
  ASSUME NEW j, Static(j), QOK(j), WType(j), NEW o \in Wobj, j.wait_queue[o] # <<>>, NEW x,
         NEW r, r = complete_head(j, o, x)
  PROVE  ObjCall(j, r) /\ DataFrame(j, r) /\ Calm(j, r)
<1>1. PICK t : t = Head(j.wait_queue[o])
  OBVIOUS
<1>2. PICK h : h = WithoutHead(j, o)
  OBVIOUS
<1>3. /\ t \in Task /\ "WAITING" \in j.tstat[t] /\ In(j.wait_queue[o], t)
      /\ QInv(h, {} \cup {t}) /\ Same(j, h, {"wait_queue"})
  BY ONLY QOK(j), o \in Wobj, j.wait_queue[o] # <<>>, <1>1, <1>2, QTakeHead DEF QOK
<1>4. PICK y : y = [h EXCEPT !.winfo_data[t] = IF x = NULL THEN @ ELSE x]
  OBVIOUS
<1>5. [j EXCEPT !.wait_queue[o] = Tail(@),
                !.winfo_data[t] = IF x = NULL THEN @ ELSE x] = y
  BY <1>2, <1>4 DEF WithoutHead
<1>6. r = wait_complete(y, t)
  BY <1>1, <1>5 DEF complete_head
<1>7. /\ Kept(j, y, {}) /\ Same(h, y, {}) /\ DataFrame(j, y)
      /\ WType(y) /\ \A u \in Task \ {t} : y.winfo_data[u] = j.winfo_data[u]
  <2>1. /\ Kept(j, h, {}) /\ DataFrame(j, h) /\ KernelFields \subseteq DOMAIN h
        /\ WType(h) /\ h.winfo_data = j.winfo_data
    BY <1>2 DEF Kept, WithoutHead, QueueFields, Static, Data, DataFrame, Frame, KernelFields,
                WType
  <2>2. /\ Frame(h, y, {"winfo_data"}) /\ WType(y)
        /\ \A u \in Task \ {t} : y.winfo_data[u] = h.winfo_data[u]
    BY <1>4, <2>1 DEF Frame, WType
  <2>3. QFields \subseteq DOMAIN h /\ "winfo_data" \notin QFields
        /\ "winfo_data" \notin KernelFields
    BY <1>3 DEF Same, QFields, FreeLists, KernelFields
  <2>4. Same(h, y, {})
    BY <2>2, <2>3 DEF Frame, Same
  <2>5. Kept(j, y, {})
    BY <2>1, <2>2, <2>3 DEF Frame, Kept
  <2>6. DataFrame(j, y)
    BY <2>1, <2>2 DEF Frame, DataFrame
  <2> QED BY <2>1, <2>2, <2>4, <2>5, <2>6
<1> HIDE <1>2, <1>4, <1>5
<1>8. QInv(y, {t})
  BY ONLY <1>3, <1>7, QSame, {} \cup {t} = {t}
<1>9. /\ ObjCall(j, r) /\ Outer(y, r) /\ r.wait_queue = y.wait_queue
      /\ ~AtWobj(r.tstat[t])
  BY ONLY Static(j), <1>3, <1>6, <1>7, <1>8, Released
<1>10. DataFrame(j, r)
  BY <1>7, <1>9 DEF DataFrame, Outer, Frame
<1>11. Calm(j, r)
  <2>1. WType(r) /\ r.winfo_data = y.winfo_data
    BY <1>7, <1>9, OuterWinfo
  <2>2. ASSUME NEW n \in Wobj, NEW u \in Task, In(r.wait_queue[n], u)
        PROVE  u # t /\ In(j.wait_queue[n], u)
    <3>1. u # t
      BY <1>9, <2>2 DEF ObjCall, QOK, QInv, QueuesOK
    <3>2. In(y.wait_queue[n], u)
      BY <1>9, <2>2
    <3>3. AtWobj(y.tstat[u]) /\ y.p_wobjcb[u] = n
      BY <1>8, <3>2 DEF QInv, QueuesOK
    <3>4. y.tstat = j.tstat /\ y.p_wobjcb = j.p_wobjcb
      BY <1>3, <1>7 DEF Same, QFields
    <3> QED BY <3>1, <3>3, <3>4 DEF QOK, QInv, QueuesOK
  <2>3. Flg \subseteq Wobj
    BY FlgAssumption
  <2> QED BY <1>7, <2>1, <2>2, <2>3 DEF Calm
<1> QED BY <1>9, <1>10, <1>11

(* The running task waits with its data in its WINFO. *)
LEMMA WaitWith ==
  ASSUME IInv(k), QOK(k), WType(k), CHECK_DISPATCH, NEW o \in Wobj, Usable(k, o),
         NEW kind, WaitsAt(kind, o), NEW tmout \in BOOLEAN, NEW x,
         NEW r, r = wait_with(kind, o, tmout, x)
  PROVE  /\ IInv(r) /\ QOK(r) /\ DataFrame(k, r)
         /\ WType(r) /\ r.winfo_data = [k.winfo_data EXCEPT ![k.p_runtsk] = x]
         /\ \A n \in Wobj, u \in Task : In(r.wait_queue[n], u)
              => (In(k.wait_queue[n], u) /\ u # k.p_runtsk) \/ (n = o /\ u = k.p_runtsk)
<1>1. /\ Static(k) /\ k.kerflg /\ k.p_runtsk \in Task /\ k.dspflg
      /\ "RUNNABLE" \in k.tstat[k.p_runtsk]
  BY TaskContext DEF CHECK_DISPATCH, CHECK_TSKCTX_UNL
<1>2. PICK t \in Task : t = k.p_runtsk
  BY <1>1
<1>3. PICK d : d = [k EXCEPT !.winfo_data[t] = x]
  OBVIOUS
<1>4. KernelFields \subseteq DOMAIN k /\ QFields \subseteq DOMAIN k
  BY <1>1 DEF Static, Data, QOK, QInv, QType
<1>5. Frame(k, d, {"winfo_data"}) /\ "winfo_data" \notin KernelFields \cup FreeLists
  BY <1>3 DEF Frame, KernelFields, FreeLists
<1>6. DataOnly(k, d)
  BY <1>4, <1>5 DEF Frame, DataOnly, ObjFields, QFields
<1>7. Static(d) /\ QOK(d)
  BY <1>1, <1>6, DataCall DEF ObjCall
<1>8. d.p_runtsk = t /\ d.tstat = k.tstat /\ d.kerflg /\ d.dspflg /\ d.wobjatr = k.wobjatr
  BY <1>1, <1>2, <1>6 DEF DataOnly, ObjFields, KernelFields
<1>9. PICK y : y = [d EXCEPT !.tstat[t] = {"WAITING", kind}]
  OBVIOUS
<1>10. r = dispatcher(wobj_make_wait_tmout(y, o, tmout))
  <2>1. [begin_wait(kind) EXCEPT !.winfo_data[t] = x] = y
    BY <1>2, <1>3, <1>9 DEF begin_wait, TS_WAITING
  <2> QED BY <1>2, <2>1 DEF wait_with
<1>11. Usable(d, o)
  BY <1>8 DEF Usable
<1>12. "RUNNABLE" \in d.tstat[t]
  BY <1>1, <1>2, <1>8
<1>13. WType(d) /\ d.winfo_data = [k.winfo_data EXCEPT ![t] = x]
  BY <1>3 DEF WType
<1> HIDE <1>2, <1>3
<1>14. /\ IInv(r) /\ QOK(r) /\ Outer(d, r)
       /\ \A n \in Wobj, u \in Task : In(r.wait_queue[n], u)
            => In(d.wait_queue[n], u) \/ (n = o /\ u = t)
  BY ONLY <1>7, <1>8, <1>9, <1>10, <1>11, <1>12, t \in Task, o \in Wobj, WaitsAt(kind, o),
          tmout \in BOOLEAN, QStartWait
<1>15. DataFrame(k, r)
  BY <1>5, <1>14 DEF Outer, DataFrame, Frame
<1>16. WType(r) /\ r.winfo_data = [k.winfo_data EXCEPT ![k.p_runtsk] = x]
  BY <1>2, <1>13, <1>14, OuterWinfo
<1>17. ASSUME NEW n \in Wobj, NEW u \in Task, In(r.wait_queue[n], u)
       PROVE  (In(k.wait_queue[n], u) /\ u # k.p_runtsk) \/ (n = o /\ u = k.p_runtsk)
  <2>1. d.wait_queue = k.wait_queue
    BY <1>6 DEF DataOnly, ObjFields, KernelFields
  <2>2. ~In(k.wait_queue[n], t)
    <3>1. ~AtWobj(k.tstat[t])
      BY <1>1, <1>2, NotWaiting
    <3> QED BY <3>1 DEF QOK, QInv, QueuesOK
  <2> QED BY <1>2, <1>14, <1>17, <2>1, <2>2
<1> QED BY <1>14, <1>15, <1>16, <1>17

(* init_wait_queues empties the wait queues of an object. *)
LEMMA InitWaits ==
  ASSUME NEW j, QOK(j), Static(j), NEW o \in Wobj, NEW r, r = init_wait_queues(j, o)
  PROVE  /\ QOK(r) /\ Same(j, r, {"wait_queue", "tstat"}) /\ CallOf(j, r, Task)
         /\ Outer(j, r) /\ r.wait_queue[o] = <<>>
         /\ o \in DOMAIN rwait => r.wait_queue[rwait[o]] = <<>>
         /\ \A n \in Wobj : r.wait_queue[n] \in {<<>>, j.wait_queue[n]}
<1>1. PICK y : y = init_wait_queue(j, o)
  OBVIOUS
<1>2. /\ QOK(y) /\ Same(j, y, {"wait_queue", "tstat"}) /\ CallOf(j, y, Task)
      /\ Outer(j, y) /\ y.wait_queue[o] = <<>>
      /\ \A n \in Wobj \ {o} : y.wait_queue[n] = j.wait_queue[n]
  BY ONLY QOK(j), Static(j), o \in Wobj, <1>1, InitWait DEF QOK
<1>3. CASE o \notin DOMAIN rwait
  BY <1>1, <1>2, <1>3 DEF init_wait_queues
<1>4. CASE o \in DOMAIN rwait
  <2>1. PICK w : w = rwait[o]
    OBVIOUS
  <2>2. w \in Wobj /\ w # o
    BY <1>4, <2>1, RwaitAssumption
  <2>3. r = init_wait_queue(y, w)
    BY <1>1, <1>4, <2>1 DEF init_wait_queues
  <2>4. Static(y)
    BY <1>2, StaticCases DEF CallOf
  <2>5. /\ QOK(r) /\ Same(y, r, {"wait_queue", "tstat"}) /\ CallOf(y, r, Task)
        /\ Outer(y, r) /\ r.wait_queue[w] = <<>>
        /\ \A n \in Wobj \ {w} : r.wait_queue[n] = y.wait_queue[n]
    BY ONLY <1>2, <2>2, <2>3, <2>4, InitWait DEF QOK
  <2>6. Same(j, r, {"wait_queue", "tstat"}) /\ CallOf(j, r, Task) /\ Outer(j, r)
    BY <1>2, <2>5, SameTrans, CallTrans, OuterTrans
  <2> QED BY <1>2, <2>1, <2>2, <2>5, <2>6
<1> QED BY <1>3, <1>4

(* An object is of one kind. *)
LEMMA Kinds ==
  ASSUME NEW f \in FreeLists
  PROVE  /\ ObjSet[f] \subseteq Wobj /\ ObjSet[f] \cap RwaitSet = {}
         /\ \A g \in FreeLists \ {f} : ObjSet[f] \cap ObjSet[g] = {}
<1>1. DOMAIN ObjectSets = 1 .. 7
  BY DEF ObjectSets
<1>2. /\ ObjectSets[1] = Sem /\ ObjectSets[2] = Flg /\ ObjectSets[3] = Dtq
      /\ ObjectSets[4] = Pdq /\ ObjectSets[5] = Mbx /\ ObjectSets[6] = Mpf
      /\ ObjectSets[7] = RwaitSet
  BY DEF ObjectSets, RwaitSet
<1>3. \A i, j \in 1 .. 7 : i # j => ObjectSets[i] \cap ObjectSets[j] = {}
  BY <1>1, ObjectsAssumption
<1>4. /\ ObjSet["free_semcb"] = ObjectSets[1] /\ ObjSet["free_flgcb"] = ObjectSets[2]
      /\ ObjSet["free_dtqcb"] = ObjectSets[3] /\ ObjSet["free_pdqcb"] = ObjectSets[4]
      /\ ObjSet["free_mbxcb"] = ObjectSets[5] /\ ObjSet["free_mpfcb"] = ObjectSets[6]
  BY <1>2 DEF ObjSet
<1>5. ObjSet[f] \subseteq Wobj
  BY <1>2, <1>4, SemAssumption, FlgAssumption, DtqAssumption, PdqAssumption, MbxAssumption,
     MpfAssumption DEF FreeLists
<1>6. PICK i \in 1 .. 6 : ObjSet[f] = ObjectSets[i]
                          /\ \A g \in FreeLists \ {f} : \E j \in (1 .. 6) \ {i} : ObjSet[g] = ObjectSets[j]
  <2> USE DEF FreeLists
  <2>1. CASE f = "free_semcb"
    BY <1>4, <2>1
  <2>2. CASE f = "free_flgcb"
    BY <1>4, <2>2
  <2>3. CASE f = "free_dtqcb"
    BY <1>4, <2>3
  <2>4. CASE f = "free_pdqcb"
    BY <1>4, <2>4
  <2>5. CASE f = "free_mbxcb"
    BY <1>4, <2>5
  <2>6. CASE f = "free_mpfcb"
    BY <1>4, <2>6
  <2> QED BY <2>1, <2>2, <2>3, <2>4, <2>5, <2>6
<1>7. ObjSet[f] \cap RwaitSet = {}
  BY <1>2, <1>3, <1>6
<1>8. ASSUME NEW g \in FreeLists \ {f} PROVE ObjSet[f] \cap ObjSet[g] = {}
  <2>1. PICK j \in (1 .. 6) \ {i} : ObjSet[g] = ObjectSets[j]
    BY <1>6
  <2>2. i \in 1 .. 7 /\ j \in 1 .. 7 /\ i # j
    OBVIOUS
  <2> QED BY ONLY <1>3, <1>6, <2>1, <2>2
<1> QED BY <1>5, <1>7, <1>8

(* The object o gets the attribute a, and its free list becomes q. *)
Retypes(j, r, f, o, a, q) ==
  /\ ObjFields \subseteq DOMAIN r
  /\ r.wobjatr = [j.wobjatr EXCEPT ![o] = a] /\ r[f] = q
  /\ \A g \in ObjFields \ {"wobjatr", f} : r[g] = j[g]

(* That keeps the invariant while nobody waits for o. *)
LEMMA QRetyped ==
  ASSUME NEW j, Static(j), QOK(j), NEW f \in FreeLists, NEW o \in ObjSet[f],
         j.wait_queue[o] = <<>>, o \in DOMAIN rwait => j.wait_queue[rwait[o]] = <<>>,
         NEW a \in {"TA_NULL", "TA_TPRI", "TA_NOEXS"}, NEW q \in Seq(ObjSet[f]), Distinct(q),
         \A n \in Wobj : In(q, n) => (n # o /\ In(j[f], n)) \/ (n = o /\ a = "TA_NOEXS"),
         NEW r, Retypes(j, r, f, o, a, q)
  PROVE  ObjCall(j, r) /\ r.dspreq = j.dspreq
<1>1. /\ QType(j) /\ QueuesOK(j, {}) /\ AtrOK(j)
      /\ \A u \in Task : KindOK(j.tstat[u], j.p_wobjcb[u])
  BY DEF QOK, QInv
<1>2. /\ o \in Wobj /\ o \notin RwaitSet /\ \A g \in FreeLists \ {f} : o \notin ObjSet[g]
  BY Kinds
<1>3. /\ r.wobjatr = [j.wobjatr EXCEPT ![o] = a] /\ r[f] = q
      /\ \A g \in ObjFields \ {"wobjatr", f} : r[g] = j[g]
      /\ ObjFields \subseteq DOMAIN r
  BY DEF Retypes
<1>4. \A g \in KernelFields \ {"wobjatr"} : r[g] = j[g]
  <2>1. f \notin KernelFields
    BY DEF FreeLists, KernelFields
  <2> QED BY <1>3, <2>1 DEF ObjFields
<1>5. CallOf(j, r, Task) /\ r.dspreq = j.dspreq
  <2>1. Kept(j, r, {})
    BY <1>3, <1>4 DEF Kept, QueueFields, ObjFields
  <2>2. CallOf(j, r, Task)
    BY <2>1, KeptTables, StaticCases
  <2> QED BY <1>4, <2>2 DEF KernelFields
<1>6. /\ r.tstat = j.tstat /\ r.priority = j.priority /\ r.p_wobjcb = j.p_wobjcb
      /\ r.wait_queue = j.wait_queue /\ r.mutex_queue = j.mutex_queue
  BY <1>4 DEF KernelFields
<1>7. r.wobjatr[o] = a /\ \A n \in Wobj \ {o} : r.wobjatr[n] = j.wobjatr[n]
  BY <1>1, <1>2, <1>3 DEF QType
<1>8. QType(r)
  <2>1. r.wobjatr \in [Wobj -> {"TA_NULL", "TA_TPRI", "TA_NOEXS"}]
    BY <1>1, <1>3 DEF QType
  <2>2. QFields \subseteq DOMAIN r
    BY <1>3, QObjFields
  <2> QED BY <1>1, <1>6, <2>1, <2>2 DEF QType
<1>9. AtrOK(r)
  <2>1. \A n \in RwaitSet : r.wobjatr[n] = "TA_NULL"
    <3>1. RwaitSet \subseteq Wobj
      BY RwaitAssumption DEF RwaitSet
    <3> QED BY <1>1, <1>2, <1>7, <3>1 DEF AtrOK
  <2>2. ASSUME NEW g \in FreeLists
        PROVE  /\ r[g] \in Seq(ObjSet[g]) /\ Distinct(r[g])
               /\ \A n \in Wobj : In(r[g], n) => r.wobjatr[n] = "TA_NOEXS"
    <3>1. /\ j[g] \in Seq(ObjSet[g]) /\ Distinct(j[g])
          /\ \A n \in Wobj : In(j[g], n) => j.wobjatr[n] = "TA_NOEXS"
      BY <1>1 DEF AtrOK
    <3>2. CASE g = f
      BY <1>3, <1>7, <3>1, <3>2
    <3>3. CASE g # f
      <4>1. r[g] = j[g]
        <5>1. g # "wobjatr"
          BY DEF FreeLists
        <5> QED BY <1>3, <3>3, <5>1 DEF ObjFields
      <4>2. ~In(j[g], o)
        <5>1. o \notin ObjSet[g]
          BY <1>2, <3>3
        <5> QED BY <3>1, <5>1 DEF In
      <4> QED BY <1>7, <3>1, <4>1, <4>2
    <3> QED BY <3>2, <3>3
  <2> QED BY <2>1, <2>2 DEF AtrOK
<1>10. QueuesOK(r, {})
  <2>1. ASSUME NEW n \in Wobj, r.wait_queue[n] # <<>>
        PROVE  Usable(r, n)
    <3>1. Usable(j, n) /\ n # o
      BY <1>1, <1>6, <2>1 DEF QueuesOK
    <3>2. ASSUME NEW w \in DOMAIN rwait, rwait[w] = n
          PROVE  w # o /\ w \in Wobj
      BY <1>6, <2>1, <3>2, RwaitAssumption
    <3> QED BY <1>7, <3>1, <3>2 DEF Usable
  <2>2. ASSUME NEW n \in Wobj, TA_TPRI(r, n)
        PROVE  Ordered(r.wait_queue[n], r.priority)
    <3>1. CASE n = o
      BY <1>6, <3>1 DEF Ordered
    <3>2. CASE n # o
      BY <1>1, <1>6, <1>7, <2>2, <3>2 DEF QueuesOK, TA_TPRI
    <3> QED BY <3>1, <3>2
  <2> QED BY <1>1, <1>6, <2>1, <2>2 DEF QueuesOK
<1> QED BY <1>1, <1>5, <1>6, <1>8, <1>9, <1>10 DEF ObjCall, QOK, QInv

(* acre_*: an object of the free list is created. *)
LEMMA QCreated ==
  ASSUME NEW j, Static(j), QOK(j), NEW f \in FreeLists, j[f] # <<>>, NEW o, o = Head(j[f]),
         NEW a \in {"TA_NULL", "TA_TPRI"}, NEW r, Retypes(j, r, f, o, a, Tail(j[f]))
  PROVE  ObjCall(j, r) /\ r.dspreq = j.dspreq
<1>1. /\ QueuesOK(j, {}) /\ j[f] \in Seq(ObjSet[f]) /\ Distinct(j[f])
      /\ \A n \in Wobj : In(j[f], n) => j.wobjatr[n] = "TA_NOEXS"
  BY DEF QOK, QInv, AtrOK
<1>2. PICK q : q = Tail(j[f])
  OBVIOUS
<1>3. /\ o \in ObjSet[f] /\ In(j[f], o) /\ q \in Seq(ObjSet[f]) /\ Distinct(q)
      /\ \A n \in ObjSet[f] : In(q, n) <=> In(j[f], n) /\ n # o
  BY <1>1, <1>2, HeadTaken
<1>4. o \in Wobj /\ j.wobjatr[o] = "TA_NOEXS"
  BY <1>1, <1>3, Kinds
<1>5. j.wait_queue[o] = <<>>
  BY <1>1, <1>4 DEF QueuesOK, Usable
<1>6. o \in DOMAIN rwait => j.wait_queue[rwait[o]] = <<>>
  BY <1>1, <1>4, RwaitAssumption DEF QueuesOK, Usable
<1>7. \A n \in Wobj : In(q, n) => n # o /\ In(j[f], n)
  <2>1. \A n \in Wobj : In(q, n) => n \in ObjSet[f]
    BY <1>3 DEF In
  <2> QED BY <1>3, <2>1
<1>8. a \in {"TA_NULL", "TA_TPRI", "TA_NOEXS"} /\ Retypes(j, r, f, o, a, q)
  BY <1>2
<1> QED BY ONLY Static(j), QOK(j), f \in FreeLists, <1>3, <1>5, <1>6, <1>7, <1>8, QRetyped

(* del_*: the tasks that wait for an object are released, and it returns   *)
(* to its free list.                                                       *)
LEMMA QDeleted ==
  ASSUME NEW j, Static(j), QOK(j), NEW f \in FreeLists, NEW o \in ObjSet[f],
         j.wobjatr[o] # "TA_NOEXS",
         NEW r, r = [delete_obj(j, o) EXCEPT ![f] = Append(@, o)]
  PROVE  /\ ObjCall(j, r) /\ Frame(j, r, ObjFields)
         /\ WType(j) => Calm(j, r)
<1>1. PICK y : y = init_wait_queues(j, o)
  OBVIOUS
<1>2. o \in Wobj /\ f \notin KernelFields
  BY Kinds DEF FreeLists, KernelFields
<1>3. /\ QOK(y) /\ Same(j, y, {"wait_queue", "tstat"}) /\ CallOf(j, y, Task)
      /\ Outer(j, y) /\ y.wait_queue[o] = <<>>
      /\ o \in DOMAIN rwait => y.wait_queue[rwait[o]] = <<>>
      /\ \A n \in Wobj : y.wait_queue[n] \in {<<>>, j.wait_queue[n]}
  BY ONLY QOK(j), Static(j), <1>1, <1>2, InitWaits
<1>4. y.wobjatr[o] # "TA_NOEXS" /\ Static(y)
  <2>1. y.wobjatr = j.wobjatr
    BY <1>3 DEF Same, QFields, FreeLists
  <2> QED BY <1>3, <2>1, StaticCases DEF CallOf
<1>5. /\ y[f] \in Seq(ObjSet[f]) /\ Distinct(y[f]) /\ ~In(y[f], o)
  BY <1>2, <1>3, <1>4 DEF QOK, QInv, AtrOK
<1>6. PICK q : q = Append(y[f], o)
  OBVIOUS
<1>7. /\ q \in Seq(ObjSet[f]) /\ Distinct(q)
      /\ \A n \in ObjSet[f] : In(q, n) <=> In(y[f], n) \/ n = o
  <2>1. PICK c : c = y[f]
    OBVIOUS
  <2>2. PICK n \in Nat : n = Len(c)
    BY <1>5, <2>1
  <2>3. /\ q \in Seq(ObjSet[f]) /\ Len(q) = n + 1 /\ q[n + 1] = o
        /\ \A i \in 1 .. n : q[i] = c[i]
    <3>1. q = Append(c, o) /\ c \in Seq(ObjSet[f])
      BY <1>5, <1>6, <2>1
    <3> QED BY ONLY <2>2, <3>1, o \in ObjSet[f]
  <2>4. InsertedAt(c, o, n + 1, q)
    BY <2>2, <2>3 DEF InsertedAt
  <2> HIDE <1>6
  <2> QED BY <1>5, <2>1, <2>3, <2>4, Inserted
<1>8. \A n \in Wobj : In(q, n) => (n # o /\ In(y[f], n)) \/ n = o
  <2>1. \A n \in Wobj : In(q, n) => n \in ObjSet[f]
    BY <1>7 DEF In
  <2> QED BY <1>7, <2>1
<1>9. Retypes(y, r, f, o, "TA_NOEXS", q) /\ Frame(y, r, ObjFields)
  <2>1. ObjFields \subseteq DOMAIN y
    BY <1>3 DEF Same, QFields, ObjFields, CallOf, StaticOf, Data
  <2>2. r = [[y EXCEPT !.wobjatr[o] = "TA_NOEXS"] EXCEPT ![f] = Append(@, o)]
    BY <1>1 DEF delete_obj
  <2>3. f # "wobjatr" /\ f \in DOMAIN y /\ "wobjatr" \in DOMAIN y
    BY <1>2, <2>1 DEF ObjFields, KernelFields
  <2> HIDE <1>1
  <2> QED BY <1>6, <2>1, <2>2, <2>3 DEF Retypes, Frame, ObjFields, KernelFields
<1>10. ObjCall(y, r)
  BY ONLY <1>3, <1>4, <1>7, <1>8, <1>9, f \in FreeLists, o \in ObjSet[f],
          "TA_NOEXS" \in {"TA_NULL", "TA_TPRI", "TA_NOEXS"}, QRetyped
<1>11. ObjCall(j, r)
  BY <1>3, <1>10, ObjTrans DEF ObjCall
<1>12. Frame(j, r, ObjFields)
  BY <1>3, <1>9 DEF Frame, Outer, ObjFields
<1>13. ASSUME WType(j) PROVE Calm(j, r)
  <2>1. Calm(j, y)
    BY ONLY <1>3, <1>13, CalmShrinks
  <2>2. "winfo_data" \notin ObjFields /\ "wait_queue" \in ObjFields \ {"wobjatr", f}
    BY <1>2 DEF ObjFields, KernelFields, FreeLists
  <2>3. DOMAIN r = DOMAIN y /\ r.winfo_data = y.winfo_data /\ r.wait_queue = y.wait_queue
    BY <1>9, <2>1, <2>2 DEF Frame, Retypes, Calm, WType
  <2>4. Calm(y, r)
    BY <2>1, <2>3, CalmKeeps DEF Calm
  <2> QED BY <2>1, <2>4, CalmTrans
<1> QED BY <1>11, <1>12, <1>13

-----------------------------------------------------------------------------
(***************************************************************************)
(* The calls on objects.                                                   *)
(***************************************************************************)
ObjInv(x) == IInv(x) /\ QOK(x) /\ WType(x)

(* A call changes the kernel's tables and the data F of a kind of objects. *)
Touches(r, F) == Frame(k, r, ObjFields \cup {"winfo_data"} \cup F) /\ Calm(k, r)

(* F are the fields of the objects of one kind. *)
Own(F) == F \cap (ObjFields \cup {"winfo_data"}) = {}

(* The fields of the invariant are there. *)
LEMMA ObjDomain ==
  ASSUME ObjInv(k)
  PROVE  ObjFields \subseteq DOMAIN k /\ Static(k) /\ QOK(k) /\ WType(k)
BY DEF ObjInv, IInv, Static, Data, QOK, QInv, QType, QFields, ObjFields

(* The ends of calls. *)
LEMMA Leaves ==
  ASSUME NEW y, QOK(y), NEW F, Touches(y, F), NEW r, r \in {t_leave(y), i_leave(y)}
  PROVE  QOK(r) /\ Touches(r, F) /\ WType(r)
<1>1. Outer(y, r) /\ QOK(r)
  BY OuterReady, QKeeps
<1>2. r.wait_queue = y.wait_queue
  <2>1. QFields \subseteq DOMAIN y
    BY DEF QOK, QInv, QType
  <2>2. Same(y, r, {})
    BY ONLY <2>1, SameReady, r \in {t_leave(y), i_leave(y)}
  <2> QED BY <2>2, SameFields
<1>3. WType(y)
  BY DEF Touches, Calm
<1>4. DOMAIN r = DOMAIN y /\ r.winfo_data = y.winfo_data /\ WType(r)
  BY <1>1, <1>3, OuterWinfo DEF Outer, Frame
<1>5. Calm(y, r)
  BY <1>2, <1>3, <1>4, CalmKeeps
<1>6. Calm(k, r)
  BY <1>5, CalmTrans DEF Touches
<1> QED BY <1>1, <1>4, <1>6 DEF Touches, Outer, Frame, ObjFields

(* A service call of a task. *)
LEMMA TaskCall ==
  ASSUME ObjInv(k), CHECK_TSKCTX_UNL, NEW y, ObjCall(k, y), NEW r, r = t_leave(y),
         NEW F, Touches(y, F)
  PROVE  ObjInv(r) /\ Touches(r, F)
<1>1. k.kerflg /\ k.excpt_nest_count = 0 /\ IInv(k)
  BY DEF CHECK_TSKCTX_UNL, TSKCTX, ObjInv
<1>2. Call(k, y) /\ QOK(y)
  BY StaticCases DEF ObjCall, CallOf, Call
<1>3. IInv(r)
  BY <1>1, <1>2, CallTaskLeave
<1> QED BY <1>2, <1>3, Leaves DEF ObjInv

(* The same without a dispatch. *)
LEMMA PlainCall ==
  ASSUME ObjInv(k), CHECK_TSKCTX_UNL, NEW y, ObjCall(k, y), y.dspreq = k.dspreq,
         NEW F, Touches(y, F)
  PROVE  ObjInv(y)
<1>1. k.kerflg /\ k.excpt_nest_count = 0 /\ IInv(k)
  BY DEF CHECK_TSKCTX_UNL, TSKCTX, ObjInv
<1>2. Call(k, y) /\ QOK(y)
  BY StaticCases DEF ObjCall, CallOf, Call
<1> QED BY <1>1, <1>2, CallReturn DEF ObjInv, Touches, Calm

(* A service call of an interrupt handler. *)
LEMMA HandlerCall ==
  ASSUME ObjInv(k), CHECK_INTCTX_UNL, NEW y, ObjCall(k, y), NEW r, r = i_leave(y),
         NEW F, Touches(y, F)
  PROVE  ObjInv(r) /\ Touches(r, F)
<1>1. k.kerflg /\ k.excpt_nest_count > 0 /\ IInv(k)
  BY DEF CHECK_INTCTX_UNL, INTCTX, ObjInv
<1>2. Call(k, y) /\ QOK(y)
  BY StaticCases DEF ObjCall, CallOf, Call
<1>3. IInv(r)
  BY <1>1, <1>2, CallIntLeave
<1> QED BY <1>2, <1>3, Leaves DEF ObjInv

(* A change of the data of an object. *)
LEMMA Fields ==
  ASSUME NEW j, Static(j), QOK(j), WType(j), ObjFields \subseteq DOMAIN j,
         NEW F, Own(F), NEW r, Frame(j, r, F)
  PROVE  ObjCall(j, r) /\ r.dspreq = j.dspreq /\ Calm(j, r)
<1>1. DataOnly(j, r)
  BY DEF DataOnly, Frame, Own
<1>2. DOMAIN r = DOMAIN j /\ r.winfo_data = j.winfo_data /\ r.wait_queue = j.wait_queue
  BY DEF Frame, Own, WType, ObjFields, KernelFields
<1> QED BY <1>1, <1>2, DataCall, CalmKeeps

(* The same in the state in which the call starts. *)
LEMMA FieldCall ==
  ASSUME ObjInv(k), NEW F, Own(F), NEW r, Frame(k, r, F)
  PROVE  ObjCall(k, r) /\ r.dspreq = k.dspreq /\ Touches(r, F)
<1>1. ObjFields \subseteq DOMAIN k /\ Static(k) /\ QOK(k) /\ WType(k)
  BY ObjDomain
<1>2. ObjCall(k, r) /\ r.dspreq = k.dspreq /\ Calm(k, r)
  BY <1>1, Fields
<1> QED BY <1>2 DEF Touches, Frame

(* acre_* as a whole. *)
LEMMA CreateCall ==
  ASSUME ObjInv(k), CHECK_TSKCTX_UNL, NEW f \in FreeLists, k[f] # <<>>,
         NEW o, o = Head(k[f]), NEW a \in {"TA_NULL", "TA_TPRI"},
         NEW y, y = [[k EXCEPT !.wobjatr[o] = a] EXCEPT ![f] = Tail(@)],
         NEW F, Own(F), NEW r, Frame(y, r, F)
  PROVE  /\ ObjInv(r) /\ Touches(r, F) /\ o \in ObjSet[f] /\ k.wobjatr[o] = "TA_NOEXS"
         /\ r.wait_queue = k.wait_queue /\ k.wait_queue[o] = <<>>
<1>1. ObjFields \subseteq DOMAIN k /\ Static(k) /\ QOK(k) /\ WType(k)
  BY ObjDomain
<1>2. /\ f # "wobjatr" /\ f \in DOMAIN k /\ "wobjatr" \in DOMAIN k
      /\ f \notin {"wait_queue", "winfo_data"} /\ "wait_queue" \in DOMAIN k
  BY <1>1 DEF FreeLists, ObjFields, KernelFields
<1>3. /\ DOMAIN y = DOMAIN k /\ y[f] = Tail(k[f]) /\ y.wobjatr = [k.wobjatr EXCEPT ![o] = a]
      /\ \A g \in DOMAIN k \ {"wobjatr", f} : y[g] = k[g]
  BY <1>2
<1>4. ObjFields \subseteq DOMAIN r /\ DOMAIN r = DOMAIN k
      /\ \A g \in DOMAIN k \ ({"wobjatr", f} \cup F) : r[g] = k[g]
  BY <1>1, <1>3 DEF Frame
<1>5. /\ r[f] = Tail(k[f]) /\ r.wobjatr = [k.wobjatr EXCEPT ![o] = a]
      /\ r.wait_queue = k.wait_queue /\ r.winfo_data = k.winfo_data
  <2>1. /\ f \notin F /\ "wobjatr" \notin F /\ "wait_queue" \notin F
        /\ "winfo_data" \notin F /\ "winfo_data" \in DOMAIN k
    BY <1>1 DEF ObjFields, KernelFields, Own, WType
  <2>2. r[f] = Tail(k[f]) /\ r.wobjatr = [k.wobjatr EXCEPT ![o] = a]
    BY <1>2, <1>3, <2>1 DEF Frame
  <2> QED BY <1>2, <1>4, <2>1, <2>2
<1>6. Retypes(k, r, f, o, a, Tail(k[f]))
  BY <1>1, <1>4, <1>5 DEF Retypes, Own
<1>7. ObjCall(k, r) /\ r.dspreq = k.dspreq
  BY <1>1, <1>6, QCreated
<1>8. Touches(r, F)
  <2>1. Calm(k, r)
    BY <1>1, <1>4, <1>5, CalmKeeps
  <2> QED BY <1>4, <2>1 DEF Touches, Frame, ObjFields, KernelFields
<1>9. o \in ObjSet[f] /\ k.wobjatr[o] = "TA_NOEXS" /\ k.wait_queue[o] = <<>>
  <2>1. /\ k[f] \in Seq(ObjSet[f]) /\ Distinct(k[f])
        /\ \A n \in Wobj : In(k[f], n) => k.wobjatr[n] = "TA_NOEXS"
    BY <1>1 DEF QOK, QInv, AtrOK
  <2>2. o \in ObjSet[f] /\ In(k[f], o)
    BY <2>1, HeadTaken
  <2>3. o \in Wobj
    BY <2>2, Kinds
  <2> QED BY <1>1, <2>1, <2>2, <2>3 DEF QOK, QInv, QueuesOK, Usable
<1> QED BY <1>5, <1>7, <1>8, <1>9, PlainCall

(* del_* as a whole. *)
LEMMA DeleteCall ==
  ASSUME ObjInv(k), CHECK_TSKCTX_UNL, NEW f \in FreeLists, NEW o \in ObjSet[f], obj_exists(o),
         NEW r, r = t_leave([delete_obj(k, o) EXCEPT ![f] = Append(@, o)])
  PROVE  ObjInv(r) /\ Touches(r, {})
<1>1. Static(k) /\ QOK(k) /\ WType(k)
  BY ObjDomain
<1>2. PICK y : y = [delete_obj(k, o) EXCEPT ![f] = Append(@, o)]
  OBVIOUS
<1>3. ObjCall(k, y) /\ Frame(k, y, ObjFields) /\ Calm(k, y)
  BY <1>1, <1>2, QDeleted DEF obj_exists
<1>4. Touches(y, {})
  BY <1>3 DEF Touches, Frame
<1>5. r = t_leave(y)
  BY <1>2
<1> QED BY <1>3, <1>4, <1>5, TaskCall

(* ini_* as a whole. *)
LEMMA IniCall ==
  ASSUME ObjInv(k), CHECK_TSKCTX_UNL, NEW o \in Wobj,
         NEW y, y \in {init_wait_queue(k, o), init_wait_queues(k, o)},
         NEW F, Own(F), NEW z, Frame(y, z, F),
         NEW r, r = t_leave(z)
  PROVE  ObjInv(r) /\ Touches(r, F) /\ r.wait_queue[o] = <<>>
<1>1. ObjFields \subseteq DOMAIN k /\ Static(k) /\ QOK(k) /\ WType(k)
  BY ObjDomain
<1>2. /\ QOK(y) /\ CallOf(k, y, Task) /\ Outer(k, y) /\ y.wait_queue[o] = <<>>
      /\ \A n \in Wobj : y.wait_queue[n] \in {<<>>, k.wait_queue[n]}
  BY <1>1, InitWait, InitWaits DEF QOK
<1>3. Static(y) /\ ObjFields \subseteq DOMAIN y /\ WType(y)
  BY <1>1, <1>2, StaticCases, OuterWinfo DEF CallOf, Outer, Frame
<1>4. ObjCall(y, z) /\ Calm(y, z)
  BY <1>2, <1>3, Fields
<1>5. ObjCall(k, z)
  BY <1>2, <1>4, ObjTrans DEF ObjCall
<1>6. Touches(z, F)
  <2>1. Calm(k, y)
    BY <1>1, <1>2, CalmShrinks
  <2>2. Calm(k, z)
    BY <1>4, <2>1, CalmTrans
  <2> QED BY <1>2, <2>2 DEF Touches, Outer, Frame, ObjFields
<1>7. r.wait_queue[o] = <<>>
  <2>1. z.wait_queue = y.wait_queue /\ QFields \subseteq DOMAIN z
    BY <1>3, QObjFields DEF Frame, Own, ObjFields, KernelFields
  <2>2. Same(z, r, {})
    BY ONLY <2>1, SameReady, r = t_leave(z)
  <2> QED BY <1>2, <2>1, <2>2, SameFields
<1> QED BY <1>5, <1>6, <1>7, TaskCall

(* The two kinds of wait queues of an object that exists. *)
LEMMA UsableQueues ==
  ASSUME QOK(k), NEW f \in FreeLists, NEW o \in ObjSet[f], obj_exists(o)
  PROVE  /\ o \in Wobj /\ Usable(k, o)
         /\ o \in DOMAIN rwait => /\ rwait[o] \in Wobj /\ rwait[o] \in RwaitSet
                                  /\ Usable(k, rwait[o])
<1>1. o \in Wobj /\ o \notin RwaitSet
  BY Kinds
<1>2. Usable(k, o)
  BY <1>1 DEF Usable, RwaitSet, obj_exists
<1>3. ASSUME o \in DOMAIN rwait
      PROVE  rwait[o] \in Wobj /\ rwait[o] \in RwaitSet /\ Usable(k, rwait[o])
  <2>1. rwait[o] \in Wobj /\ rwait[o] \in RwaitSet
    BY <1>3, RwaitAssumption DEF RwaitSet
  <2>2. k.wobjatr[rwait[o]] = "TA_NULL"
    BY <2>1 DEF QOK, QInv, AtrOK
  <2> QED BY <1>3, <2>1, <2>2, RwaitAssumption DEF Usable, obj_exists
<1> QED BY <1>1, <1>2, <1>3

(* A task starts to wait for an object. *)
LEMMA WaitStart ==
  ASSUME ObjInv(k), CHECK_DISPATCH, NEW f \in FreeLists, NEW o \in ObjSet[f], obj_exists(o),
         NEW kind, NEW q, \/ q = o /\ kind \in WobjcbKind
                          \/ o \in DOMAIN rwait /\ q = rwait[o] /\ kind \in {"RDTQ", "RPDQ"},
         NEW tmout \in BOOLEAN, NEW x, NEW r, r = wait_with(kind, q, tmout, x)
  PROVE  /\ ObjInv(r) /\ DataFrame(k, r)
         /\ r.winfo_data = [k.winfo_data EXCEPT ![k.p_runtsk] = x]
         /\ \A n \in Wobj, u \in Task : In(r.wait_queue[n], u)
              => (In(k.wait_queue[n], u) /\ u # k.p_runtsk) \/ (n = q /\ u = k.p_runtsk)
<1>1. IInv(k) /\ QOK(k) /\ WType(k)
  BY DEF ObjInv
<1>2. q \in Wobj /\ Usable(k, q)
  BY <1>1, UsableQueues
<1>3. WaitsAt(kind, q)
  <2>1. CASE kind \in WobjcbKind
    BY <2>1 DEF WaitsAt
  <2>2. CASE kind \notin WobjcbKind
    <3>1. q \in RwaitSet
      BY <1>1, <2>2, UsableQueues
    <3>2. kind \in WobjKind
      BY <2>2 DEF WobjKind
    <3> QED BY <3>1, <3>2 DEF WaitsAt
  <2> QED BY <2>1, <2>2
<1>4. /\ IInv(r) /\ QOK(r) /\ DataFrame(k, r)
      /\ WType(r) /\ r.winfo_data = [k.winfo_data EXCEPT ![k.p_runtsk] = x]
      /\ \A n \in Wobj, u \in Task : In(r.wait_queue[n], u)
           => (In(k.wait_queue[n], u) /\ u # k.p_runtsk) \/ (n = q /\ u = k.p_runtsk)
  BY ONLY <1>1, <1>2, <1>3, CHECK_DISPATCH, tmout \in BOOLEAN,
          r = wait_with(kind, q, tmout, x), WaitWith
<1> QED BY <1>4 DEF ObjInv

(* The same for an object that is not an event flag. *)
LEMMA WaitCall ==
  ASSUME ObjInv(k), CHECK_DISPATCH, NEW f \in FreeLists \ {"free_flgcb"},
         NEW o \in ObjSet[f], obj_exists(o),
         NEW kind, NEW q, \/ q = o /\ kind \in WobjcbKind
                          \/ o \in DOMAIN rwait /\ q = rwait[o] /\ kind \in {"RDTQ", "RPDQ"},
         NEW tmout \in BOOLEAN, NEW x, NEW r, r = wait_with(kind, q, tmout, x)
  PROVE  ObjInv(r) /\ Touches(r, {})
<1>1. PICK t : t = k.p_runtsk
  OBVIOUS
<1>2. /\ ObjInv(r) /\ DataFrame(k, r)
      /\ r.winfo_data = [k.winfo_data EXCEPT ![t] = x]
      /\ \A n \in Wobj, u \in Task : In(r.wait_queue[n], u)
           => (In(k.wait_queue[n], u) /\ u # t) \/ (n = q /\ u = t)
  BY <1>1, WaitStart
<1>3. Flg \subseteq Wobj /\ q \notin Flg
  <2>1. "free_flgcb" \in FreeLists /\ ObjSet["free_flgcb"] = Flg
    BY DEF FreeLists, ObjSet
  <2>2. Flg \subseteq Wobj /\ Flg \cap RwaitSet = {} /\ Flg \cap ObjSet[f] = {}
    BY <2>1, Kinds
  <2>3. QOK(k)
    BY DEF ObjInv
  <2> QED BY <2>2, <2>3, UsableQueues
<1>4. WType(r) /\ WType(k)
  BY <1>2 DEF ObjInv
<1>5. \A u \in Task \ {t} : r.winfo_data[u] = k.winfo_data[u]
  BY <1>2, <1>4 DEF WType
<1>6. Calm(k, r)
  BY <1>2, <1>3, <1>4, <1>5 DEF Calm
<1> QED BY <1>2, <1>6 DEF Touches, DataFrame, Frame, ObjFields

(* A waiting task is served. *)
LEMMA ServeCall ==
  ASSUME ObjInv(k), NEW o \in Wobj, k.wait_queue[o] # <<>>, NEW x
  PROVE  ObjCall(k, complete_head(k, o, x)) /\ Touches(complete_head(k, o, x), {})
<1>1. Static(k) /\ QOK(k) /\ WType(k)
  BY ObjDomain
<1>2. PICK r : r = complete_head(k, o, x)
  OBVIOUS
<1>3. ObjCall(k, r) /\ DataFrame(k, r) /\ Calm(k, r)
  BY <1>1, <1>2, Completes
<1>4. Touches(r, {})
  BY <1>3 DEF Touches, DataFrame, Frame, ObjFields
<1> QED BY <1>2, <1>3, <1>4

SemFields == {"semcnt", "isemcnt", "maxsem"}

(* The calls on semaphores. *)
LEMMA SemInv ==
  ASSUME ObjInv(k), SemCalls
  PROVE  ObjInv(k') /\ Touches(k', SemFields)
<1>0. Own(SemFields)
  BY DEF Own, SemFields, ObjFields, KernelFields, FreeLists
<1>1. /\ "free_semcb" \in FreeLists \ {"free_flgcb"} 
      /\ ObjSet["free_semcb"] = Sem /\ Sem \subseteq Wobj
  BY Kinds DEF FreeLists, ObjSet
<1>2. ObjFields \subseteq DOMAIN k /\ Static(k) /\ QOK(k)
  BY ObjDomain
<1>3. \A r : Touches(r, {}) => Touches(r, SemFields)
  BY DEF Touches, Frame
<1>4. ASSUME NEW pk \in CSem, acre_sem(pk)
      PROVE  ObjInv(k') /\ Touches(k', SemFields)
  <2>1. PICK o, y : /\ o = Head(k.free_semcb)
                    /\ y = [[k EXCEPT !.wobjatr[o] = pk.sematr] EXCEPT !.free_semcb = Tail(@)]
    OBVIOUS
  <2>2. Frame(y, k', SemFields)
    BY <1>4, <2>1 DEF acre_sem, create_obj, Frame, SemFields
  <2>3. pk.sematr \in {"TA_NULL", "TA_TPRI"}
    BY <1>4, SemAssumption
  <2>4. CHECK_TSKCTX_UNL /\ k["free_semcb"] # <<>>
    BY <1>4 DEF acre_sem
  <2> QED BY ONLY ObjInv(k), <1>0, <1>1, <2>1, <2>2, <2>3, <2>4, CreateCall
<1>5. ASSUME NEW o \in Sem, del_sem(o)
      PROVE  ObjInv(k') /\ Touches(k', SemFields)
  <2>1. k' = t_leave([delete_obj(k, o) EXCEPT !["free_semcb"] = Append(@, o)])
        /\ CHECK_TSKCTX_UNL /\ obj_exists(o)
    BY <1>5 DEF del_sem
  <2> QED BY ONLY ObjInv(k), <1>1, <1>3, <2>1, o \in Sem, DeleteCall
<1>6. ASSUME NEW o \in Sem
      PROVE  ObjCall(k, signal_sem(o)) /\ Touches(signal_sem(o), SemFields)
  <2>1. CASE k.wait_queue[o] # <<>>
    BY <1>1, <1>3, <2>1, ServeCall DEF signal_sem
  <2>2. CASE k.wait_queue[o] = <<>>
    <3>1. Frame(k, signal_sem(o), SemFields)
      BY <2>2 DEF signal_sem, Frame, SemFields
    <3> QED BY <1>0, <3>1, FieldCall
  <2> QED BY <2>1, <2>2
<1>7. ASSUME NEW o \in Sem, sig_sem(o) \/ isig_sem(o)
      PROVE  ObjInv(k') /\ Touches(k', SemFields)
  BY <1>6, <1>7, TaskCall, HandlerCall DEF sig_sem, isig_sem
<1>8. ASSUME NEW o \in Sem, NEW r, r = [k EXCEPT !.semcnt[o] = @ - 1], CHECK_TSKCTX_UNL
      PROVE  ObjInv(r) /\ Touches(r, SemFields)
  <2>1. Frame(k, r, SemFields)
    BY <1>8 DEF Frame, SemFields
  <2> QED BY <1>0, <1>8, <2>1, FieldCall, PlainCall
<1>9. ASSUME NEW o \in Sem, NEW b \in BOOLEAN, wai_sem(o, b)
      PROVE  ObjInv(k') /\ Touches(k', SemFields)
  <2>1. CASE k.semcnt[o] >= 1
    BY <1>8, <1>9, <2>1 DEF wai_sem, CHECK_DISPATCH
  <2>2. CASE ~(k.semcnt[o] >= 1)
    <3>1. k' = wait_with("SEM", o, b, NULL) /\ CHECK_DISPATCH /\ obj_exists(o)
      BY <1>9, <2>2 DEF wai_sem
    <3>2. "SEM" \in WobjcbKind
      BY DEF WobjcbKind
    <3> QED BY ONLY ObjInv(k), <1>1, <1>3, <3>1, <3>2, o \in Sem, b \in BOOLEAN, WaitCall
  <2> QED BY <2>1, <2>2
<1>10. ASSUME NEW o \in Sem, pol_sem(o)
       PROVE  ObjInv(k') /\ Touches(k', SemFields)
  BY <1>8, <1>10 DEF pol_sem
<1>11. ASSUME NEW o \in Sem, ini_sem(o)
       PROVE  ObjInv(k') /\ Touches(k', SemFields)
  <2>1. PICK y, z : /\ y = init_wait_queue(k, o) /\ z = [y EXCEPT !.semcnt[o] = k.isemcnt[o]]
                    /\ k' = t_leave(z) /\ CHECK_TSKCTX_UNL
    BY <1>11 DEF ini_sem
  <2>2. Frame(y, z, SemFields)
    BY <2>1 DEF Frame, SemFields
  <2>3. y \in {init_wait_queue(k, o), init_wait_queues(k, o)} /\ o \in Wobj
    BY <1>1, <2>1
  <2> QED BY ONLY ObjInv(k), <1>0, <2>1, <2>2, <2>3, IniCall
<1> QED BY <1>4, <1>5, <1>7, <1>9, <1>10, <1>11 DEF SemCalls

(* A waiting task is served after a change of the object's data. *)
LEMMA ServeAfter ==
  ASSUME ObjInv(k), NEW o \in Wobj, k.wait_queue[o] # <<>>, NEW F, Own(F),
         NEW y, Frame(k, y, F), NEW x, NEW r, r = complete_head(y, o, x)
  PROVE  ObjCall(k, r) /\ Touches(r, F)
<1>1. ObjCall(k, y) /\ Touches(y, F)
  BY FieldCall
<1>2. Static(y) /\ QOK(y) /\ WType(y)
  BY <1>1, StaticCases DEF ObjCall, CallOf, Touches, Calm
<1>3. y.wait_queue = k.wait_queue
  <2>1. "wait_queue" \in DOMAIN k /\ "wait_queue" \notin F
    BY ObjDomain DEF ObjFields, KernelFields, Own
  <2> QED BY <2>1 DEF Frame
<1>4. ObjCall(y, r) /\ DataFrame(y, r) /\ Calm(y, r)
  BY <1>2, <1>3, Completes
<1>5. Touches(r, F)
  <2>1. Calm(k, r)
    BY <1>1, <1>4, CalmTrans DEF Touches
  <2> QED BY <1>1, <1>4, <2>1 DEF Touches, DataFrame, Frame, ObjFields
<1> QED BY <1>1, <1>4, <1>5, ObjTrans

MbxFields == {"mpri", "maxmpri", "pk_head", "pk_last", "pk_next"}

(* The calls on mailboxes. *)
LEMMA MbxInv ==
  ASSUME ObjInv(k), MbxCalls
  PROVE  ObjInv(k') /\ Touches(k', MbxFields)
<1>0. Own(MbxFields)
  BY DEF Own, MbxFields, ObjFields, KernelFields, FreeLists
<1>1. /\ "free_mbxcb" \in FreeLists \ {"free_flgcb"}
      /\ ObjSet["free_mbxcb"] = Mbx /\ Mbx \subseteq Wobj
  BY Kinds DEF FreeLists, ObjSet
<1>2. \A r : Touches(r, {}) => Touches(r, MbxFields)
  BY DEF Touches, Frame
<1>3. ASSUME NEW pk \in CMbx, acre_mbx(pk)
      PROVE  ObjInv(k') /\ Touches(k', MbxFields)
  <2>1. PICK o, y : /\ o = Head(k.free_mbxcb)
                    /\ y = [[k EXCEPT !.wobjatr[o] = pk.tpri] EXCEPT !.free_mbxcb = Tail(@)]
    OBVIOUS
  <2>2. Frame(y, k', MbxFields)
    BY <1>3, <2>1 DEF acre_mbx, create_obj, Frame, MbxFields
  <2>3. pk.tpri \in {"TA_NULL", "TA_TPRI"}
    BY <1>3, MbxAssumption
  <2>4. CHECK_TSKCTX_UNL /\ k["free_mbxcb"] # <<>>
    BY <1>3 DEF acre_mbx
  <2> QED BY ONLY ObjInv(k), <1>0, <1>1, <2>1, <2>2, <2>3, <2>4, CreateCall
<1>4. ASSUME NEW o \in Mbx, del_mbx(o)
      PROVE  ObjInv(k') /\ Touches(k', MbxFields)
  <2>1. k' = t_leave([delete_obj(k, o) EXCEPT !["free_mbxcb"] = Append(@, o)])
        /\ CHECK_TSKCTX_UNL /\ obj_exists(o)
    BY <1>4 DEF del_mbx
  <2> QED BY ONLY ObjInv(k), <1>1, <1>2, <2>1, o \in Mbx, DeleteCall
<1>5. ASSUME NEW o \in Mbx, NEW r, Frame(k, r, MbxFields), CHECK_TSKCTX_UNL
      PROVE  ObjInv(r) /\ Touches(r, MbxFields)
  BY <1>0, <1>5, FieldCall, PlainCall
<1>6. ASSUME NEW o \in Mbx, NEW m \in Msg, snd_mbx(o, m)
      PROVE  ObjInv(k') /\ Touches(k', MbxFields)
  <2>1. CASE k.wait_queue[o] # <<>>
    <3>1. PICK y : y = complete_head(k, o, m)
      OBVIOUS
    <3>2. ObjCall(k, y) /\ Touches(y, MbxFields)
      BY <1>1, <1>2, <2>1, <3>1, ServeCall
    <3>3. k' = t_leave(y) /\ CHECK_TSKCTX_UNL
      BY <1>6, <2>1, <3>1 DEF snd_mbx
    <3> QED BY ONLY ObjInv(k), <3>2, <3>3, TaskCall
  <2>2. CASE k.wait_queue[o] = <<>>
    <3>1. \A y, p : Frame(y, link(y, o, p, m), MbxFields)
      BY DEF link, Frame, MbxFields
    <3>2. \A v, w : /\ Frame(k, [k EXCEPT !.pk_next[m] = v], MbxFields)
                    /\ Frame(k, [k EXCEPT !.pk_next[m] = v, !.pk_last[o] = w], MbxFields)
      BY DEF Frame, MbxFields
    <3>3. \A y, z : Frame(k, y, MbxFields) /\ Frame(y, z, MbxFields) => Frame(k, z, MbxFields)
      BY DEF Frame
    <3>4. Frame(k, enqueue_msg(k, o, m), MbxFields)
      <4>1. PICK y : y = [k EXCEPT !.pk_next[m] = NULL, !.pk_last[o] = m]
        OBVIOUS
      <4>2. \E p : enqueue_msg(k, o, m) = link(y, o, p, m)
        BY <4>1 DEF enqueue_msg
      <4>3. Frame(k, y, MbxFields)
        BY <3>2, <4>1
      <4> HIDE <4>1
      <4> QED BY <3>1, <3>3, <4>2, <4>3
    <3>5. Frame(k, enqueue_msg_pri(k, o, m), MbxFields)
      <4>1. \E v, p : enqueue_msg_pri(k, o, m) = link([k EXCEPT !.pk_next[m] = v], o, p, m)
        BY DEF enqueue_msg_pri
      <4>2. PICK v, p : enqueue_msg_pri(k, o, m) = link([k EXCEPT !.pk_next[m] = v], o, p, m)
        BY <4>1
      <4>3. PICK y : y = [k EXCEPT !.pk_next[m] = v]
        OBVIOUS
      <4>4. Frame(k, y, MbxFields)
        BY <3>2, <4>3
      <4>5. enqueue_msg_pri(k, o, m) = link(y, o, p, m)
        BY <4>2, <4>3
      <4> HIDE <4>3
      <4> QED BY <3>1, <3>3, <4>4, <4>5
    <3> QED BY <1>5, <1>6, <2>2, <3>4, <3>5 DEF snd_mbx
  <2> QED BY <2>1, <2>2
<1>7. ASSUME NEW o \in Mbx
      PROVE  Frame(k, take_msg(o), MbxFields)
  BY DEF take_msg, Frame, MbxFields
<1>8. ASSUME NEW o \in Mbx, NEW b \in BOOLEAN, rcv_mbx(o, b)
      PROVE  ObjInv(k') /\ Touches(k', MbxFields)
  <2>1. CASE k.pk_head[o] # NULL
    BY <1>5, <1>7, <1>8, <2>1 DEF rcv_mbx, CHECK_DISPATCH
  <2>2. CASE k.pk_head[o] = NULL
    <3>1. k' = wait_with("MBX", o, b, NULL) /\ CHECK_DISPATCH /\ obj_exists(o)
      BY <1>8, <2>2 DEF rcv_mbx
    <3>2. "MBX" \in WobjcbKind
      BY DEF WobjcbKind
    <3> QED BY ONLY ObjInv(k), <1>1, <1>2, <3>1, <3>2, o \in Mbx, b \in BOOLEAN, WaitCall
  <2> QED BY <2>1, <2>2
<1>9. ASSUME NEW o \in Mbx, prcv_mbx(o)
      PROVE  ObjInv(k') /\ Touches(k', MbxFields)
  BY <1>5, <1>7, <1>9 DEF prcv_mbx
<1>10. ASSUME NEW o \in Mbx, ini_mbx(o)
      PROVE  ObjInv(k') /\ Touches(k', MbxFields)
  <2>1. PICK y, z : /\ y = init_wait_queues(k, o) /\ z = [y EXCEPT !.pk_head[o] = NULL]
                    /\ k' = t_leave(z) /\ CHECK_TSKCTX_UNL
    BY <1>10 DEF ini_mbx
  <2>2. Frame(y, z, MbxFields)
    BY <2>1 DEF Frame, MbxFields
  <2>3. y \in {init_wait_queue(k, o), init_wait_queues(k, o)} /\ o \in Wobj
    BY <1>1, <2>1
  <2> QED BY ONLY ObjInv(k), <1>0, <2>1, <2>2, <2>3, IniCall
<1> QED BY <1>3, <1>4, <1>6, <1>8, <1>9, <1>10 DEF MbxCalls

MpfFields == {"blkcnt", "mpfmb", "mpf"}

(* The calls on fixed-sized memory pools. *)
LEMMA MpfInv ==
  ASSUME ObjInv(k), MpfCalls
  PROVE  ObjInv(k') /\ Touches(k', MpfFields)
<1>0. Own(MpfFields)
  BY DEF Own, MpfFields, ObjFields, KernelFields, FreeLists
<1>1. /\ "free_mpfcb" \in FreeLists \ {"free_flgcb"}
      /\ ObjSet["free_mpfcb"] = Mpf /\ Mpf \subseteq Wobj
  BY Kinds DEF FreeLists, ObjSet
<1>2. \A r : Touches(r, {}) => Touches(r, MpfFields)
  BY DEF Touches, Frame
<1>3. ASSUME NEW pk \in CMpf, acre_mpf(pk)
      PROVE  ObjInv(k') /\ Touches(k', MpfFields)
  <2>1. PICK o, y : /\ o = Head(k.free_mpfcb)
                    /\ y = [[k EXCEPT !.wobjatr[o] = pk.mpfatr] EXCEPT !.free_mpfcb = Tail(@)]
    OBVIOUS
  <2>2. Frame(y, k', MpfFields)
    BY <1>3, <2>1 DEF acre_mpf, create_obj, Frame, MpfFields
  <2>3. pk.mpfatr \in {"TA_NULL", "TA_TPRI"}
    BY <1>3, MpfAssumption
  <2>4. CHECK_TSKCTX_UNL /\ k["free_mpfcb"] # <<>>
    BY <1>3 DEF acre_mpf
  <2> QED BY ONLY ObjInv(k), <1>0, <1>1, <2>1, <2>2, <2>3, <2>4, CreateCall
<1>4. ASSUME NEW o \in Mpf, del_mpf(o)
      PROVE  ObjInv(k') /\ Touches(k', MpfFields)
  <2>1. k' = t_leave([delete_obj(k, o) EXCEPT !["free_mpfcb"] = Append(@, o)])
        /\ CHECK_TSKCTX_UNL /\ obj_exists(o)
    BY <1>4 DEF del_mpf
  <2> QED BY ONLY ObjInv(k), <1>1, <1>2, <2>1, o \in Mpf, DeleteCall
<1>5. ASSUME NEW o \in Mpf, CHECK_TSKCTX_UNL
      PROVE  ObjInv(get_mpf_block(o)) /\ Touches(get_mpf_block(o), MpfFields)
  <2>1. Frame(k, get_mpf_block(o), MpfFields)
    BY DEF get_mpf_block, Frame, MpfFields
  <2> QED BY <1>0, <1>5, <2>1, FieldCall, PlainCall
<1>6. ASSUME NEW o \in Mpf, NEW b \in BOOLEAN, get_mpf(o, b)
      PROVE  ObjInv(k') /\ Touches(k', MpfFields)
  <2>1. CASE k.mpf[o].fblkcnt > 0
    BY <1>5, <1>6, <2>1 DEF get_mpf, CHECK_DISPATCH
  <2>2. CASE ~(k.mpf[o].fblkcnt > 0)
    <3>1. k' = wait_with("MPF", o, b, NULL) /\ CHECK_DISPATCH /\ obj_exists(o)
      BY <1>6, <2>2 DEF get_mpf
    <3>2. "MPF" \in WobjcbKind
      BY DEF WobjcbKind
    <3> QED BY ONLY ObjInv(k), <1>1, <1>2, <3>1, <3>2, o \in Mpf, b \in BOOLEAN, WaitCall
  <2> QED BY <2>1, <2>2
<1>7. ASSUME NEW o \in Mpf, pget_mpf(o)
      PROVE  ObjInv(k') /\ Touches(k', MpfFields)
  BY <1>5, <1>7 DEF pget_mpf
<1>8. ASSUME NEW o \in Mpf, NEW b, rel_mpf(o, b)
      PROVE  ObjInv(k') /\ Touches(k', MpfFields)
  <2>1. ObjCall(k, release_block(o, b)) /\ Touches(release_block(o, b), MpfFields)
    <3>1. CASE k.wait_queue[o] # <<>>
      BY <1>1, <1>2, <3>1, ServeCall DEF release_block
    <3>2. CASE k.wait_queue[o] = <<>>
      <4>1. Frame(k, release_block(o, b), MpfFields)
        BY <3>2 DEF release_block, Frame, MpfFields
      <4> QED BY <1>0, <4>1, FieldCall
    <3> QED BY <3>1, <3>2
  <2> QED BY <1>8, <2>1, TaskCall DEF rel_mpf
<1>9. ASSUME NEW o \in Mpf, ini_mpf(o)
      PROVE  ObjInv(k') /\ Touches(k', MpfFields)
  <2>1. PICK y, z : /\ y = init_wait_queues(k, o) /\ z = [y EXCEPT !.mpf[o] = NewPool(k.blkcnt[o])]
                    /\ k' = t_leave(z) /\ CHECK_TSKCTX_UNL
    BY <1>9 DEF ini_mpf
  <2>2. Frame(y, z, MpfFields)
    BY <2>1 DEF Frame, MpfFields
  <2>3. y \in {init_wait_queue(k, o), init_wait_queues(k, o)} /\ o \in Wobj
    BY <1>1, <2>1
  <2> QED BY ONLY ObjInv(k), <1>0, <2>1, <2>2, <2>3, IniCall
<1> QED BY <1>3, <1>4, <1>6, <1>7, <1>8, <1>9 DEF MpfCalls

DtqFields == {"dtqcnt", "dtqmb", "dtq"}

(* The calls on data queues. *)
LEMMA DtqInv ==
  ASSUME ObjInv(k), DtqCalls
  PROVE  ObjInv(k') /\ Touches(k', DtqFields)
<1>0. Own(DtqFields)
  BY DEF Own, DtqFields, ObjFields, KernelFields, FreeLists
<1>1. /\ "free_dtqcb" \in FreeLists \ {"free_flgcb"}
      /\ ObjSet["free_dtqcb"] = Dtq /\ Dtq \subseteq Wobj
  BY Kinds DEF FreeLists, ObjSet
<1>2. \A r : Touches(r, {}) => Touches(r, DtqFields)
  BY DEF Touches, Frame
<1>3. ASSUME NEW pk \in CDtq, acre_dtq(pk)
      PROVE  ObjInv(k') /\ Touches(k', DtqFields)
  <2>1. PICK o, y : /\ o = Head(k.free_dtqcb)
                    /\ y = [[k EXCEPT !.wobjatr[o] = pk.dtqatr] EXCEPT !.free_dtqcb = Tail(@)]
    OBVIOUS
  <2>2. Frame(y, k', DtqFields)
    BY <1>3, <2>1 DEF acre_dtq, create_obj, Frame, DtqFields
  <2>3. pk.dtqatr \in {"TA_NULL", "TA_TPRI"}
    BY <1>3, DtqAssumption
  <2>4. CHECK_TSKCTX_UNL /\ k["free_dtqcb"] # <<>>
    BY <1>3 DEF acre_dtq
  <2> QED BY ONLY ObjInv(k), <1>0, <1>1, <2>1, <2>2, <2>3, <2>4, CreateCall
<1>4. ASSUME NEW o \in Dtq, del_dtq(o)
      PROVE  ObjInv(k') /\ Touches(k', DtqFields)
  <2>1. k' = t_leave([delete_obj(k, o) EXCEPT !["free_dtqcb"] = Append(@, o)])
        /\ CHECK_TSKCTX_UNL /\ obj_exists(o)
    BY <1>4 DEF del_dtq
  <2> QED BY ONLY ObjInv(k), <1>1, <1>2, <2>1, o \in Dtq, DeleteCall
<1>5. ASSUME NEW y, NEW o, NEW d
      PROVE  Frame(y, enqueue_data(y, o, d), DtqFields) /\ Frame(y, dequeue_data(y, o), DtqFields)
  BY DEF enqueue_data, dequeue_data, Frame, DtqFields
<1>6. \A y, z : Frame(k, y, DtqFields) /\ Frame(y, z, DtqFields) => Frame(k, z, DtqFields)
  BY DEF Frame
<1>7. Dtq \subseteq DOMAIN rwait /\ \A o \in Dtq : rwait[o] \in Wobj
  BY DtqAssumption, RwaitAssumption
<1>8. ASSUME NEW o \in Dtq, NEW d
      PROVE  ObjCall(k, send_data(o, d)) /\ Touches(send_data(o, d), DtqFields)
  <2>1. CASE k.wait_queue[rwait[o]] # <<>>
    BY <1>2, <1>7, <2>1, ServeCall DEF send_data
  <2>2. CASE k.wait_queue[rwait[o]] = <<>>
    BY <1>0, <1>5, <2>2, FieldCall DEF send_data
  <2> QED BY <2>1, <2>2
<1>9. ASSUME NEW o \in Dtq, NEW d
      PROVE  ObjCall(k, force_send_data(o, d)) /\ Touches(force_send_data(o, d), DtqFields)
  <2>1. CASE k.wait_queue[rwait[o]] # <<>>
    BY <1>2, <1>7, <2>1, ServeCall DEF force_send_data
  <2>2. CASE k.wait_queue[rwait[o]] = <<>>
    <3>1. Frame(k, force_enqueue_data(k, o, d), DtqFields)
      BY DEF force_enqueue_data, Frame, DtqFields
    <3> QED BY <1>0, <2>2, <3>1, FieldCall DEF force_send_data
  <2> QED BY <2>1, <2>2
<1>10. ASSUME NEW o \in Dtq
       PROVE  ObjCall(k, receive_data(o)) /\ Touches(receive_data(o), DtqFields)
  <2>1. PICK s : s = k.winfo_data[Head(k.wait_queue[o])]
    OBVIOUS
  <2>2. PICK y : y = IF k.dtq[o].count > 0 THEN dequeue_data(k, o) ELSE k
    OBVIOUS
  <2>3. PICK z : z = IF k.dtq[o].count > 0 THEN enqueue_data(y, o, s) ELSE y
    OBVIOUS
  <2>4. Frame(k, k, DtqFields)
    BY DEF Frame
  <2>5. Frame(k, y, DtqFields) /\ Frame(k, z, DtqFields)
    BY <1>5, <1>6, <2>2, <2>3, <2>4
  <2>6. receive_data(o) = IF k.wait_queue[o] # <<>> THEN complete_head(z, o, NULL) ELSE y
    BY <2>1, <2>2, <2>3 DEF receive_data
  <2>7. o \in Wobj
    BY <1>1
  <2> HIDE <2>1, <2>2, <2>3
  <2>8. CASE k.wait_queue[o] # <<>>
    BY <1>0, <2>5, <2>6, <2>7, <2>8, ServeAfter
  <2>9. CASE k.wait_queue[o] = <<>>
    BY <1>0, <2>5, <2>6, <2>9, FieldCall
  <2> QED BY <2>8, <2>9
<1>11. ASSUME NEW o \in Dtq, NEW d, NEW b \in BOOLEAN, snd_dtq(o, d, b)
       PROVE  ObjInv(k') /\ Touches(k', DtqFields)
  <2>1. CASE can_send(o)
    <3>1. k' = t_leave(send_data(o, d)) /\ CHECK_TSKCTX_UNL
      BY <1>11, <2>1 DEF snd_dtq, CHECK_DISPATCH
    <3> QED BY <1>8, <3>1, TaskCall
  <2>2. CASE ~can_send(o)
    <3>1. k' = wait_with("SDTQ", o, b, d) /\ CHECK_DISPATCH /\ obj_exists(o)
      BY <1>11, <2>2 DEF snd_dtq
    <3>2. "SDTQ" \in WobjcbKind
      BY DEF WobjcbKind
    <3> QED BY ONLY ObjInv(k), <1>1, <1>2, <3>1, <3>2, o \in Dtq, b \in BOOLEAN, WaitCall
  <2> QED BY <2>1, <2>2
<1>12. ASSUME NEW o \in Dtq, NEW b \in BOOLEAN, rcv_dtq(o, b)
       PROVE  ObjInv(k') /\ Touches(k', DtqFields)
  <2>1. CASE can_receive(o)
    <3>1. k' = t_leave(receive_data(o)) /\ CHECK_TSKCTX_UNL
      BY <1>12, <2>1 DEF rcv_dtq, CHECK_DISPATCH
    <3> QED BY <1>10, <3>1, TaskCall
  <2>2. CASE ~can_receive(o)
    <3>1. PICK q : q = rwait[o]
      OBVIOUS
    <3>2. k' = wait_with("RDTQ", q, b, NULL) /\ CHECK_DISPATCH /\ obj_exists(o)
      BY <1>12, <2>2, <3>1 DEF rcv_dtq
    <3>3. o \in DOMAIN rwait /\ "RDTQ" \in {"RDTQ", "RPDQ"}
      BY <1>7
    <3> QED BY ONLY ObjInv(k), <1>1, <1>2, <3>1, <3>2, <3>3, o \in Dtq, b \in BOOLEAN, WaitCall
  <2> QED BY <2>1, <2>2
<1>13. ASSUME NEW o \in Dtq, NEW d, psnd_dtq(o, d) \/ ipsnd_dtq(o, d)
       PROVE  ObjInv(k') /\ Touches(k', DtqFields)
  BY <1>8, <1>13, TaskCall, HandlerCall DEF psnd_dtq, ipsnd_dtq
<1>14. ASSUME NEW o \in Dtq, NEW d, fsnd_dtq(o, d) \/ ifsnd_dtq(o, d)
       PROVE  ObjInv(k') /\ Touches(k', DtqFields)
  BY <1>9, <1>14, TaskCall, HandlerCall DEF fsnd_dtq, ifsnd_dtq
<1>15. ASSUME NEW o \in Dtq, prcv_dtq(o)
       PROVE  ObjInv(k') /\ Touches(k', DtqFields)
  BY <1>10, <1>15, TaskCall DEF prcv_dtq
<1>16. ASSUME NEW o \in Dtq, ini_dtq(o)
      PROVE  ObjInv(k') /\ Touches(k', DtqFields)
  <2>1. PICK y, z : /\ y = init_wait_queues(k, o) /\ z = [y EXCEPT !.dtq[o] = [count |-> 0, head |-> 0, tail |-> 0]]
                    /\ k' = t_leave(z) /\ CHECK_TSKCTX_UNL
    BY <1>16 DEF ini_dtq
  <2>2. Frame(y, z, DtqFields)
    BY <2>1 DEF Frame, DtqFields
  <2>3. y \in {init_wait_queue(k, o), init_wait_queues(k, o)} /\ o \in Wobj
    BY <1>1, <2>1
  <2> QED BY ONLY ObjInv(k), <1>0, <2>1, <2>2, <2>3, IniCall
<1> QED BY <1>3, <1>4, <1>11, <1>12, <1>13, <1>14, <1>15, <1>16 DEF DtqCalls

PdqFields == {"pdqcnt", "maxdpri", "pdqmb", "pdq"}

(* The calls on priority data queues. *)
LEMMA PdqInv ==
  ASSUME ObjInv(k), PdqCalls
  PROVE  ObjInv(k') /\ Touches(k', PdqFields)
<1>0. Own(PdqFields)
  BY DEF Own, PdqFields, ObjFields, KernelFields, FreeLists
<1>1. /\ "free_pdqcb" \in FreeLists \ {"free_flgcb"}
      /\ ObjSet["free_pdqcb"] = Pdq /\ Pdq \subseteq Wobj
  BY Kinds DEF FreeLists, ObjSet
<1>2. \A r : Touches(r, {}) => Touches(r, PdqFields)
  BY DEF Touches, Frame
<1>3. ASSUME NEW pk \in CPdq, acre_pdq(pk)
      PROVE  ObjInv(k') /\ Touches(k', PdqFields)
  <2>1. PICK o, y : /\ o = Head(k.free_pdqcb)
                    /\ y = [[k EXCEPT !.wobjatr[o] = pk.pdqatr] EXCEPT !.free_pdqcb = Tail(@)]
    OBVIOUS
  <2>2. Frame(y, k', PdqFields)
    BY <1>3, <2>1 DEF acre_pdq, create_obj, Frame, PdqFields
  <2>3. pk.pdqatr \in {"TA_NULL", "TA_TPRI"}
    BY <1>3, PdqAssumption
  <2>4. CHECK_TSKCTX_UNL /\ k["free_pdqcb"] # <<>>
    BY <1>3 DEF acre_pdq
  <2> QED BY ONLY ObjInv(k), <1>0, <1>1, <2>1, <2>2, <2>3, <2>4, CreateCall
<1>4. ASSUME NEW o \in Pdq, del_pdq(o)
      PROVE  ObjInv(k') /\ Touches(k', PdqFields)
  <2>1. k' = t_leave([delete_obj(k, o) EXCEPT !["free_pdqcb"] = Append(@, o)])
        /\ CHECK_TSKCTX_UNL /\ obj_exists(o)
    BY <1>4 DEF del_pdq
  <2> QED BY ONLY ObjInv(k), <1>1, <1>2, <2>1, o \in Pdq, DeleteCall
<1>5. ASSUME NEW y, NEW o, NEW d
      PROVE  Frame(y, enqueue_pridata(y, o, d), PdqFields) /\ Frame(y, dequeue_pridata(y, o), PdqFields)
  BY DEF enqueue_pridata, dequeue_pridata, Frame, PdqFields
<1>6. \A y, z : Frame(k, y, PdqFields) /\ Frame(y, z, PdqFields) => Frame(k, z, PdqFields)
  BY DEF Frame
<1>7. Pdq \subseteq DOMAIN rwait /\ \A o \in Pdq : rwait[o] \in Wobj
  BY PdqAssumption, RwaitAssumption
<1>8. ASSUME NEW o \in Pdq, NEW d
      PROVE  ObjCall(k, send_pridata(o, d)) /\ Touches(send_pridata(o, d), PdqFields)
  <2>1. CASE k.wait_queue[rwait[o]] # <<>>
    BY <1>2, <1>7, <2>1, ServeCall DEF send_pridata
  <2>2. CASE k.wait_queue[rwait[o]] = <<>>
    BY <1>0, <1>5, <2>2, FieldCall DEF send_pridata
  <2> QED BY <2>1, <2>2
<1>10. ASSUME NEW o \in Pdq
       PROVE  ObjCall(k, receive_pridata(o)) /\ Touches(receive_pridata(o), PdqFields)
  <2>1. PICK s : s = k.winfo_data[Head(k.wait_queue[o])]
    OBVIOUS
  <2>2. PICK y : y = IF k.pdq[o].count > 0 THEN dequeue_pridata(k, o) ELSE k
    OBVIOUS
  <2>3. PICK z : z = IF k.pdq[o].count > 0 THEN enqueue_pridata(y, o, s) ELSE y
    OBVIOUS
  <2>4. Frame(k, k, PdqFields)
    BY DEF Frame
  <2>5. Frame(k, y, PdqFields) /\ Frame(k, z, PdqFields)
    BY <1>5, <1>6, <2>2, <2>3, <2>4
  <2>6. receive_pridata(o) = IF k.wait_queue[o] # <<>> THEN complete_head(z, o, NULL) ELSE y
    BY <2>1, <2>2, <2>3 DEF receive_pridata
  <2>7. o \in Wobj
    BY <1>1
  <2> HIDE <2>1, <2>2, <2>3
  <2>8. CASE k.wait_queue[o] # <<>>
    BY <1>0, <2>5, <2>6, <2>7, <2>8, ServeAfter
  <2>9. CASE k.wait_queue[o] = <<>>
    BY <1>0, <2>5, <2>6, <2>9, FieldCall
  <2> QED BY <2>8, <2>9
<1>11. ASSUME NEW o \in Pdq, NEW d, NEW b \in BOOLEAN, snd_pdq(o, d, b)
       PROVE  ObjInv(k') /\ Touches(k', PdqFields)
  <2>1. CASE can_send_pri(o)
    <3>1. k' = t_leave(send_pridata(o, d)) /\ CHECK_TSKCTX_UNL
      BY <1>11, <2>1 DEF snd_pdq, CHECK_DISPATCH
    <3> QED BY <1>8, <3>1, TaskCall
  <2>2. CASE ~can_send_pri(o)
    <3>1. k' = wait_with("SPDQ", o, b, d) /\ CHECK_DISPATCH /\ obj_exists(o)
      BY <1>11, <2>2 DEF snd_pdq, may_send
    <3>2. "SPDQ" \in WobjcbKind
      BY DEF WobjcbKind
    <3> QED BY ONLY ObjInv(k), <1>1, <1>2, <3>1, <3>2, o \in Pdq, b \in BOOLEAN, WaitCall
  <2> QED BY <2>1, <2>2
<1>12. ASSUME NEW o \in Pdq, NEW b \in BOOLEAN, rcv_pdq(o, b)
       PROVE  ObjInv(k') /\ Touches(k', PdqFields)
  <2>1. CASE can_receive_pri(o)
    <3>1. k' = t_leave(receive_pridata(o)) /\ CHECK_TSKCTX_UNL
      BY <1>12, <2>1 DEF rcv_pdq, CHECK_DISPATCH
    <3> QED BY <1>10, <3>1, TaskCall
  <2>2. CASE ~can_receive_pri(o)
    <3>1. PICK q : q = rwait[o]
      OBVIOUS
    <3>2. k' = wait_with("RPDQ", q, b, NULL) /\ CHECK_DISPATCH /\ obj_exists(o)
      BY <1>12, <2>2, <3>1 DEF rcv_pdq
    <3>3. o \in DOMAIN rwait /\ "RPDQ" \in {"RDTQ", "RPDQ"}
      BY <1>7
    <3> QED BY ONLY ObjInv(k), <1>1, <1>2, <3>1, <3>2, <3>3, o \in Pdq, b \in BOOLEAN, WaitCall
  <2> QED BY <2>1, <2>2
<1>13. ASSUME NEW o \in Pdq, NEW d, psnd_pdq(o, d) \/ ipsnd_pdq(o, d)
       PROVE  ObjInv(k') /\ Touches(k', PdqFields)
  BY <1>8, <1>13, TaskCall, HandlerCall DEF psnd_pdq, ipsnd_pdq
<1>15. ASSUME NEW o \in Pdq, prcv_pdq(o)
       PROVE  ObjInv(k') /\ Touches(k', PdqFields)
  BY <1>10, <1>15, TaskCall DEF prcv_pdq
<1>16. ASSUME NEW o \in Pdq, ini_pdq(o)
      PROVE  ObjInv(k') /\ Touches(k', PdqFields)
  <2>1. PICK y, z : /\ y = init_wait_queues(k, o) /\ z = [y EXCEPT !.pdq[o] = NoPdqData]
                    /\ k' = t_leave(z) /\ CHECK_TSKCTX_UNL
    BY <1>16 DEF ini_pdq
  <2>2. Frame(y, z, PdqFields)
    BY <2>1 DEF Frame, PdqFields
  <2>3. y \in {init_wait_queue(k, o), init_wait_queues(k, o)} /\ o \in Wobj
    BY <1>1, <2>1
  <2> QED BY ONLY ObjInv(k), <1>0, <2>1, <2>2, <2>3, IniCall
<1> QED BY <1>3, <1>4, <1>11, <1>12, <1>13, <1>15, <1>16 DEF PdqCalls

-----------------------------------------------------------------------------
(***************************************************************************)
(* Event flags.                                                            *)
(***************************************************************************)
FType(x) == "flgptn" \in DOMAIN x /\ DOMAIN x.flgptn = Flg

(* The flag o does not meet the condition of the waiting task t. *)
Unmet(x, o, t) == ~meets(x.flgptn[o], x.winfo_data[t].waiptn, x.winfo_data[t].wfmode)

(* No task waits for a condition that its flag meets. *)
FInv(x) ==
  FType(x) /\ \A o \in Flg, t \in Task : In(x.wait_queue[o], t) => Unmet(x, o, t)

(* A pattern with fewer bits meets fewer conditions. *)
LEMMA MeetsLess ==
  ASSUME NEW p, NEW q, q \subseteq p, NEW w, NEW m, meets(q, w, m)
  PROVE  meets(p, w, m)
BY DEF meets

(* FInv is kept while patterns only lose bits and nobody joins a queue. *)
LEMMA FCalm ==
  ASSUME NEW j, FInv(j), NEW r, Calm(j, r), FType(r),
         \A o \in Flg : r.wait_queue[o] # <<>> => r.flgptn[o] \subseteq j.flgptn[o]
  PROVE  FInv(r)
<1>1. ASSUME NEW o \in Flg, NEW t \in Task, In(r.wait_queue[o], t)
      PROVE  Unmet(r, o, t)
  <2>1. In(j.wait_queue[o], t) /\ r.winfo_data[t] = j.winfo_data[t]
    BY <1>1 DEF Calm
  <2>2. Unmet(j, o, t)
    BY <2>1 DEF FInv
  <2>3. r.wait_queue[o] # <<>>
    BY <1>1 DEF In
  <2> QED BY <2>1, <2>2, <2>3, MeetsLess DEF Unmet
<1> QED BY <1>1 DEF FInv

FlgFields == {"flgptn", "iflgptn", "flgatr"}

(* take_flg clears the flag, or leaves it alone. *)
LEMMA TakeFlg ==
  ASSUME NEW x, FType(x), NEW o \in Flg, NEW r, r = take_flg(x, o)
  PROVE  /\ Frame(x, r, {"flgptn"}) /\ FType(r) /\ r.flgptn[o] \subseteq x.flgptn[o]
         /\ \A n \in Flg \ {o} : r.flgptn[n] = x.flgptn[n]
BY DEF take_flg, Frame, FType

(* What the walk over the wait queue of o does at t. *)
Walked(x, r, o, t) ==
  /\ ObjCall(x, r) /\ Frame(x, r, KernelFields \cup {"winfo_data", "flgptn"})
  /\ FType(r) /\ Calm(x, r)
  /\ r.flgptn[o] \subseteq x.flgptn[o] /\ \A n \in Flg \ {o} : r.flgptn[n] = x.flgptn[n]
  /\ \A u \in Task \ {t} : In(x.wait_queue[o], u) => In(r.wait_queue[o], u)
  /\ In(r.wait_queue[o], t) => Unmet(r, o, t)

(* The condition of t is met or not. *)
LEMMA WakeOne ==
  ASSUME NEW x, Static(x), QOK(x), WType(x), FType(x), NEW o \in Flg, NEW t \in Task,
         In(x.wait_queue[o], t), NEW r, r = wake_one(x, o, t)
  PROVE  Walked(x, r, o, t)
<1>1. o \in Wobj
  BY FlgAssumption
<1>2. PICK w : w = x.winfo_data[t]
  OBVIOUS
<1>3. CASE ~check_flg_cond(x, o, w.waiptn, w.wfmode)
  <2>1. r = x
    BY <1>2, <1>3 DEF wake_one
  <2>2. ObjCall(x, x)
    BY CallRefl, StaticCases DEF ObjCall
  <2>3. Calm(x, x)
    BY CalmKeeps
  <2>4. Unmet(x, o, t)
    BY <1>2, <1>3 DEF Unmet, check_flg_cond
  <2> QED BY <2>1, <2>2, <2>3, <2>4 DEF Walked, Frame
<1>4. CASE check_flg_cond(x, o, w.waiptn, w.wfmode)
  <2>1. PICK f : f = take_flg(x, o)
    OBVIOUS
  <2>2. /\ Frame(x, f, {"flgptn"}) /\ FType(f) /\ f.flgptn[o] \subseteq x.flgptn[o]
        /\ \A n \in Flg \ {o} : f.flgptn[n] = x.flgptn[n]
    BY <2>1, TakeFlg
  <2>3. PICK p : p = x.flgptn[o]
    OBVIOUS
  <2>4. PICK y : y = [f EXCEPT !.wait_queue[o] = queue_delete(@, t),
                               !.winfo_data[t].flgptn = p]
    OBVIOUS
  <2>5. r = wait_complete(y, t)
    BY <1>2, <1>4, <2>1, <2>3, <2>4 DEF wake_one
  <2> HIDE <2>1, <2>3
  <2>6. KernelFields \subseteq DOMAIN x /\ QFields \subseteq DOMAIN x
    BY DEF Static, Data, QOK, QInv, QType
  <2>7. /\ QType(x) /\ QueuesOK(x, {}) /\ \A u \in Task : KindOK(x.tstat[u], x.p_wobjcb[u])
    BY DEF QOK, QInv
  <2>8. PICK c : c = x.wait_queue[o]
    OBVIOUS
  <2>9. c \in Seq(Task) /\ Distinct(c) /\ In(c, t)
    BY <1>1, <2>7, <2>8 DEF QType, QueuesOK
  <2>10. PICK q : q = queue_delete(c, t)
    OBVIOUS
  <2>11. /\ q \in Seq(Task) /\ Distinct(q)
         /\ \A u \in Task : In(q, u) <=> In(c, u) /\ u # t
    BY <2>9, <2>10, Deleted
  <2>12. Ordered(c, x.priority) => Ordered(q, x.priority)
    BY <2>9, <2>10, DeletedOrdered
  <2> HIDE <2>10
  <2>13. /\ Frame(x, y, {"flgptn", "wait_queue", "winfo_data"})
         /\ y.wait_queue = [x.wait_queue EXCEPT ![o] = q]
         /\ y.flgptn = f.flgptn /\ WType(y)
         /\ \A u \in Task \ {t} : y.winfo_data[u] = x.winfo_data[u]
    <3>1. /\ "wait_queue" \in DOMAIN f /\ "flgptn" \in DOMAIN f /\ "winfo_data" \in DOMAIN f
          /\ f.wait_queue = x.wait_queue /\ f.winfo_data = x.winfo_data
          /\ DOMAIN f.winfo_data = Task
      BY <2>2, <2>6 DEF Frame, KernelFields, WType, FType
    <3>2. /\ Frame(f, y, {"wait_queue", "winfo_data"}) /\ y.flgptn = f.flgptn /\ WType(y)
          /\ \A u \in Task \ {t} : y.winfo_data[u] = f.winfo_data[u]
      BY <2>4, <3>1 DEF Frame, WType
    <3>3. y.wait_queue = [x.wait_queue EXCEPT ![o] = q]
      <4>1. y.wait_queue = [f.wait_queue EXCEPT ![o] = queue_delete(@, t)]
        BY <2>4, <3>1
      <4> QED BY <2>8, <2>10, <3>1, <4>1
    <3>4. Frame(x, y, {"flgptn", "wait_queue", "winfo_data"})
      BY <2>2, <3>2 DEF Frame
    <3> QED BY <3>1, <3>2, <3>3, <3>4
  <2> HIDE <2>4
  <2>14. /\ "flgptn" \notin KernelFields /\ "winfo_data" \notin KernelFields
         /\ "flgptn" \notin QFields /\ "winfo_data" \notin QFields
    BY DEF KernelFields, QFields, FreeLists
  <2>15. Kept(x, y, {}) /\ Same(x, y, {"wait_queue"})
    BY <2>6, <2>13, <2>14 DEF Kept, Same, Frame, QueueFields
  <2>16. AtWobj(x.tstat[t]) /\ x.p_wobjcb[t] = o
    BY <1>1, <2>7 DEF QueuesOK
  <2>17. QInv(y, {t})
    <3>1. QInv(x, {}) /\ o \in Wobj /\ t \in Task
      BY <1>1 DEF QOK
    <3>2. \A u \in Task : In(q, u) <=> In(x.wait_queue[o], u) /\ u # t
      BY <2>8, <2>11
    <3>3. Ordered(x.wait_queue[o], x.priority) => Ordered(q, x.priority)
      BY <2>8, <2>12
    <3>4. x.wait_queue[o] = <<>> => q = <<>>
      BY <2>8, <2>9 DEF In
    <3>5. QInv(y, {} \cup {t})
      BY ONLY <2>11, <2>13, <2>15, <2>16, <3>1, <3>2, <3>3, <3>4, QTake
    <3> QED BY ONLY <3>5, {} \cup {t} = {t}
  <2>18. "WAITING" \in x.tstat[t]
    BY <2>7, <2>16 DEF KindOK
  <2>19. /\ ObjCall(x, r) /\ Outer(y, r) /\ r.wait_queue = y.wait_queue
         /\ ~AtWobj(r.tstat[t])
    BY ONLY Static(x), t \in Task, <2>5, <2>15, <2>17, <2>18, Released
  <2>20. WType(r) /\ r.winfo_data = y.winfo_data /\ FType(r) /\ r.flgptn = f.flgptn
    <3>1. "flgptn" \in DOMAIN y
      BY <2>2, <2>13 DEF Frame, FType
    <3>2. r.flgptn = y.flgptn /\ "flgptn" \in DOMAIN r
      BY <2>14, <2>19, <3>1 DEF Outer, Frame
    <3> QED BY <2>2, <2>13, <2>19, <3>2, OuterWinfo DEF FType
  <2>21. Frame(x, r, KernelFields \cup {"winfo_data", "flgptn"})
    BY <2>13, <2>19 DEF Outer, Frame, KernelFields
  <2>22. r.wait_queue[o] = q /\ \A n \in Wobj \ {o} : r.wait_queue[n] = x.wait_queue[n]
    BY <1>1, <2>7, <2>13, <2>19 DEF QType
  <2>23. ~In(r.wait_queue[o], t) /\ \A u \in Task \ {t} : In(x.wait_queue[o], u) => In(q, u)
    BY <2>8, <2>11, <2>22
  <2>24. Calm(x, r)
    <3>1. ASSUME NEW n \in Flg, NEW u \in Task, In(r.wait_queue[n], u)
          PROVE  In(x.wait_queue[n], u) /\ r.winfo_data[u] = x.winfo_data[u]
      <4>1. n \in Wobj
        BY FlgAssumption
      <4>2. u # t /\ In(x.wait_queue[n], u)
        <5>1. CASE n = o
          BY <2>8, <2>11, <2>22, <3>1, <5>1
        <5>2. CASE n # o
          BY <2>7, <2>16, <2>22, <3>1, <4>1, <5>2 DEF QueuesOK
        <5> QED BY <5>1, <5>2
      <4> QED BY <2>13, <2>20, <4>2
    <3> QED BY <2>20, <3>1 DEF Calm
  <2> QED BY <2>2, <2>19, <2>20, <2>21, <2>22, <2>23, <2>24 DEF Walked
<1> QED BY <1>3, <1>4

(* The states that the walk of set_pattern over the queue q goes through. *)
WalkTo(j, o, q, f, N) ==
  Sequence(f, N) /\ f[0] = j /\ \A n \in 1 .. N : f[n] = wake_one(f[n - 1], o, q[n])

(* There is such a sequence, of any length. *)
LEMMA WalkExists ==
  ASSUME NEW j, NEW o, NEW q, NEW N \in Nat
  PROVE  \E f : WalkTo(j, o, q, f, N)
<1> DEFINE T == {m \in 0 .. N : \E f : WalkTo(j, o, q, f, m)}
<1>1. 0 \in T
  <2>1. PICK f : f = [n \in 0 .. 0 |-> j]
    OBVIOUS
  <2>2. WalkTo(j, o, q, f, 0)
    BY <2>1 DEF WalkTo, Sequence
  <2> QED BY <2>2
<1>2. ASSUME NEW m \in 1 .. N, m - 1 \in T PROVE m \in T
  <2>1. PICK f : WalkTo(j, o, q, f, m - 1)
    BY <1>2
  <2>2. PICK v : v = wake_one(f[m - 1], o, q[m])
    OBVIOUS
  <2>3. PICK g : g = [n \in 0 .. m |-> IF n = m THEN v ELSE f[n]]
    OBVIOUS
  <2>4. Sequence(g, m) /\ g[0] = j
    BY <2>1, <2>3 DEF WalkTo, Sequence
  <2>5. \A n \in 0 .. m - 1 : g[n] = f[n]
    BY <2>3
  <2>6. g[m] = v
    BY <2>3
  <2>7. ASSUME NEW n \in 1 .. m PROVE g[n] = wake_one(g[n - 1], o, q[n])
    <3>1. g[n - 1] = f[n - 1]
      BY <2>5
    <3>2. CASE n = m
      BY <2>2, <2>6, <3>1, <3>2
    <3>3. CASE n # m
      <4>1. f[n] = wake_one(f[n - 1], o, q[n])
        BY <2>1, <3>3 DEF WalkTo
      <4>2. g[n] = f[n]
        BY <2>5, <3>3
      <4> QED BY <3>1, <4>1, <4>2
    <3> QED BY <3>2, <3>3
  <2>8. WalkTo(j, o, q, g, m)
    BY <2>4, <2>7 DEF WalkTo
  <2> QED BY <2>8
<1>3. \A m \in 1 .. N : m - 1 \in T => m \in T
  BY <1>2
<1> HIDE DEF T
<1>4. \A m \in 0 .. N : m \in T
  BY <1>1, <1>3, LoopInduction
<1> QED BY <1>4 DEF T

WalkBody(j, o, q, N, f) ==
  [n \in 0 .. N |-> IF n = 0 THEN j ELSE wake_one(f[n - 1], o, q[n])]

(* So the recursive function that the walk is exists. *)
LEMMA WalkDefined ==
  ASSUME NEW j, NEW o, NEW q, NEW N \in Nat
  PROVE  /\ \E f : f = WalkBody(j, o, q, N, f)
         /\ \A f : f = WalkBody(j, o, q, N, f) => WalkTo(j, o, q, f, N)
<1>1. PICK f : WalkTo(j, o, q, f, N)
  BY WalkExists
<1>2. PICK e : e = WalkBody(j, o, q, N, f)
  OBVIOUS
<1>3. \A n \in 0 .. N : f[n] = e[n]
  BY <1>1, <1>2 DEF WalkTo, WalkBody
<1>4. f = [n \in 0 .. N |-> f[n]]
  BY <1>1 DEF WalkTo, Sequence
<1>5. e = [n \in 0 .. N |-> e[n]]
  BY <1>2 DEF WalkBody
<1>6. f = e
  BY <1>3, <1>4, <1>5
<1>7. ASSUME NEW g, g = WalkBody(j, o, q, N, g)
      PROVE  WalkTo(j, o, q, g, N)
  <2>0. Sequence(g, N)
    BY <1>7 DEF WalkBody, Sequence
  <2>1. \A n \in 0 .. N : g[n] = IF n = 0 THEN j ELSE wake_one(g[n - 1], o, q[n])
    BY <1>7 DEF WalkBody
  <2>2. g[0] = j
    BY <2>1
  <2>3. \A n \in 1 .. N : g[n] = wake_one(g[n - 1], o, q[n])
    BY <2>1
  <2> QED BY <2>0, <2>2, <2>3 DEF WalkTo
<1> QED BY <1>2, <1>6, <1>7

WithBits(o, s) == [k EXCEPT !.flgptn[o] = @ \cup s]

(* set_pattern is the last state of its walk. *)
LEMMA SetPatternWalk ==
  ASSUME NEW o, NEW s, NEW q, q = k.wait_queue[o], NEW N \in Nat, N = Len(q),
         NEW j, j = WithBits(o, s)
  PROVE  \E f : WalkTo(j, o, q, f, N) /\ set_pattern(o, s) = f[N]
<1> DEFINE E(f) == [n \in 0 .. Len(k.wait_queue[o]) |->
                      IF n = 0 THEN [k EXCEPT !.flgptn[o] = @ \cup s]
                      ELSE wake_one(f[n - 1], o, k.wait_queue[o][n])]
<1>1. \A f : E(f) = WalkBody(j, o, q, N, f)
  BY DEF WalkBody, WithBits
<1>2. \E f : f = E(f)
  <2> HIDE DEF E
  <2>1. PICK f : f = WalkBody(j, o, q, N, f)
    BY WalkDefined
  <2>2. f = E(f)
    BY <1>1, <2>1
  <2> QED BY <2>2
<1>3. PICK g : g = CHOOSE f : f = E(f)
  OBVIOUS
<1>4. g = E(g)
  BY <1>2, <1>3
<1>5. set_pattern(o, s) = g[Len(k.wait_queue[o])]
  BY <1>3 DEF set_pattern
<1>6. g = WalkBody(j, o, q, N, g)
  BY <1>1, <1>4
<1> HIDE <1>3
<1> HIDE DEF E
<1>7. WalkTo(j, o, q, g, N)
  BY <1>6, WalkDefined
<1> QED BY <1>5, <1>7

(* The state x of the walk over the first n tasks of the queue q of o. *)
WalkedTo(j, x, o, q, n) ==
  /\ ObjCall(j, x) /\ Frame(j, x, KernelFields \cup {"winfo_data", "flgptn"})
  /\ FType(x) /\ Calm(j, x) /\ \A m \in Flg \ {o} : x.flgptn[m] = j.flgptn[m]
  /\ \A i \in n + 1 .. Len(q) : In(x.wait_queue[o], q[i])
  /\ \A i \in 1 .. n : In(x.wait_queue[o], q[i]) => Unmet(x, o, q[i])

(* The walk at the task after that. *)
LEMMA WalkStep ==
  ASSUME NEW j, NEW o \in Flg, NEW q \in Seq(Task), Distinct(q), NEW n \in 1 .. Len(q),
         NEW x, WalkedTo(j, x, o, q, n - 1), NEW r, r = wake_one(x, o, q[n])
  PROVE  WalkedTo(j, r, o, q, n)
<1>1. /\ Static(x) /\ QOK(x) /\ WType(x) /\ FType(x)
  BY StaticCases DEF WalkedTo, ObjCall, CallOf, Calm
<1>2. PICK t : t = q[n]
  OBVIOUS
<1>3. t \in Task /\ In(x.wait_queue[o], t)
  BY <1>2 DEF WalkedTo
<1>4. Walked(x, r, o, t)
  BY <1>1, <1>2, <1>3, WakeOne
<1>5. ObjCall(j, r) /\ Calm(j, r) /\ FType(r)
  BY <1>4, ObjTrans, CalmTrans DEF WalkedTo, Walked
<1>6. Frame(j, r, KernelFields \cup {"winfo_data", "flgptn"})
  BY <1>4 DEF WalkedTo, Walked, Frame
<1>7. \A m \in Flg \ {o} : r.flgptn[m] = j.flgptn[m]
  BY <1>4 DEF WalkedTo, Walked
<1>8. ASSUME NEW i \in n + 1 .. Len(q) PROVE In(r.wait_queue[o], q[i])
  <2>1. q[i] \in Task /\ q[i] # t /\ In(x.wait_queue[o], q[i])
    BY <1>2 DEF WalkedTo, Distinct
  <2> QED BY <1>4, <2>1 DEF Walked
<1>9. ASSUME NEW i \in 1 .. n, In(r.wait_queue[o], q[i]) PROVE Unmet(r, o, q[i])
  <2>1. CASE i = n
    BY <1>2, <1>4, <1>9, <2>1 DEF Walked
  <2>2. CASE i # n
    <3>1. PICK u : u = q[i]
      OBVIOUS
    <3>2. i \in 1 .. n - 1 /\ u \in Task
      BY <2>2, <3>1
    <3>3. In(x.wait_queue[o], u) /\ r.winfo_data[u] = x.winfo_data[u]
      BY <1>4, <1>9, <3>1, <3>2 DEF Walked, Calm
    <3>4. Unmet(x, o, u)
      BY <3>1, <3>2, <3>3 DEF WalkedTo
    <3>5. r.flgptn[o] \subseteq x.flgptn[o]
      BY <1>4 DEF Walked
    <3> QED BY <3>1, <3>3, <3>4, <3>5, MeetsLess DEF Unmet
  <2> QED BY <2>1, <2>2
<1> QED BY <1>5, <1>6, <1>7, <1>8, <1>9 DEF WalkedTo

(* set_pattern leaves no task whose condition is met. *)
LEMMA SetPattern ==
  ASSUME ObjInv(k), FInv(k), NEW o \in Flg, NEW s, NEW r, r = set_pattern(o, s)
  PROVE  ObjCall(k, r) /\ Touches(r, FlgFields) /\ FInv(r)
<1>1. ObjFields \subseteq DOMAIN k /\ Static(k) /\ QOK(k) /\ WType(k) /\ FType(k)
  BY ObjDomain DEF FInv
<1>2. PICK q : q = k.wait_queue[o]
  OBVIOUS
<1>3. q \in Seq(Task) /\ Distinct(q)
  BY <1>1, <1>2, FlgAssumption DEF QOK, QInv, QType, QueuesOK
<1>4. PICK N \in Nat : N = Len(q)
  BY <1>3
<1>5. PICK j : j = WithBits(o, s)
  OBVIOUS
<1>6. PICK f : WalkTo(j, o, q, f, N) /\ r = f[N]
  BY <1>2, <1>4, <1>5, SetPatternWalk
<1>7. /\ Frame(k, j, {"flgptn"}) /\ FType(j) /\ j.wait_queue = k.wait_queue
      /\ \A m \in Flg \ {o} : j.flgptn[m] = k.flgptn[m]
  BY <1>1, <1>5 DEF WithBits, Frame, FType, ObjFields, KernelFields
<1> HIDE <1>5
<1>8. Own({"flgptn"})
  BY DEF Own, ObjFields, KernelFields, FreeLists
<1>9. ObjCall(k, j) /\ Calm(k, j)
  BY <1>1, <1>7, <1>8, Fields
<1>10. Static(j) /\ QOK(j) /\ WType(j)
  BY <1>9, StaticCases DEF ObjCall, CallOf, Calm
<1> DEFINE T == {n \in 0 .. N : WalkedTo(j, f[n], o, q, n)}
<1>11. 0 \in T
  <2>1. ObjCall(j, j)
    BY <1>10, CallRefl, StaticCases DEF ObjCall
  <2>2. Calm(j, j)
    BY <1>10, CalmKeeps
  <2>3. \A i \in 1 .. Len(q) : In(j.wait_queue[o], q[i])
    BY <1>2, <1>7 DEF In
  <2>4. WalkedTo(j, j, o, q, 0)
    BY <1>7, <2>1, <2>2, <2>3 DEF WalkedTo, Frame
  <2> QED BY <1>6, <2>4 DEF WalkTo
<1>12. ASSUME NEW n \in 1 .. N, n - 1 \in T PROVE n \in T
  <2>1. f[n] = wake_one(f[n - 1], o, q[n])
    BY <1>6 DEF WalkTo
  <2>2. WalkedTo(j, f[n - 1], o, q, n - 1)
    BY <1>12
  <2>3. WalkedTo(j, f[n], o, q, n)
    BY ONLY <1>3, <1>4, <2>1, <2>2, o \in Flg, n \in 1 .. N, WalkStep
  <2> QED BY <2>3
<1>13. \A n \in 1 .. N : n - 1 \in T => n \in T
  BY <1>12
<1> HIDE DEF T
<1>14. \A n \in 0 .. N : n \in T
  BY <1>11, <1>13, LoopInduction
<1>15. WalkedTo(j, r, o, q, N)
  BY <1>6, <1>14 DEF T
<1>16. ObjCall(k, r) /\ Calm(k, r)
  BY <1>9, <1>15, ObjTrans, CalmTrans DEF WalkedTo
<1>17. Frame(k, r, ObjFields \cup {"winfo_data"} \cup FlgFields)
  BY <1>7, <1>15 DEF WalkedTo, Frame, ObjFields, FlgFields
<1>18. ASSUME NEW m \in Flg, NEW t \in Task, In(r.wait_queue[m], t)
       PROVE  Unmet(r, m, t)
  <2>1. In(k.wait_queue[m], t) /\ r.winfo_data[t] = k.winfo_data[t]
    BY <1>16, <1>18 DEF Calm
  <2>2. CASE m = o
    <3>1. PICK i \in 1 .. N : q[i] = t
      BY <1>2, <1>4, <2>1, <2>2 DEF In
    <3> QED BY <1>15, <1>18, <2>2, <3>1 DEF WalkedTo
  <2>3. CASE m # o
    <3>1. r.flgptn[m] = k.flgptn[m]
      BY <1>7, <1>15, <2>3 DEF WalkedTo
    <3> QED BY <2>1, <3>1 DEF FInv, Unmet
  <2> QED BY <2>2, <2>3
<1> QED BY <1>15, <1>16, <1>17, <1>18 DEF Touches, FInv, WalkedTo

(* A call that leaves the patterns alone, and in which nobody joins. *)
LEMMA FKeeps ==
  ASSUME FInv(k), NEW F, "flgptn" \notin F, NEW r, Touches(r, F)
  PROVE  FInv(r)
<1>1. "flgptn" \notin ObjFields \cup {"winfo_data"} \cup F
  BY DEF ObjFields, KernelFields, FreeLists
<1>2. r.flgptn = k.flgptn /\ FType(r)
  BY <1>1 DEF Touches, Frame, FInv, FType
<1> QED BY <1>2, FCalm DEF Touches

(* The ends of calls. *)
LEMMA FLeaves ==
  ASSUME NEW y, QOK(y), WType(y), FInv(y), NEW r, r \in {t_leave(y), i_leave(y)}
  PROVE  FInv(r) /\ FType(r) /\ r.flgptn = y.flgptn
<1>1. Outer(y, r)
  BY OuterReady
<1>2. r.wait_queue = y.wait_queue
  <2>1. QFields \subseteq DOMAIN y
    BY DEF QOK, QInv, QType
  <2>2. Same(y, r, {})
    BY ONLY <2>1, SameReady, r \in {t_leave(y), i_leave(y)}
  <2> QED BY <2>2, SameFields
<1>3. "flgptn" \notin KernelFields
  BY DEF KernelFields
<1>4. r.flgptn = y.flgptn /\ FType(r) /\ DOMAIN r = DOMAIN y
  BY <1>1, <1>3 DEF Outer, Frame, FInv, FType
<1>5. Calm(y, r)
  BY <1>1, <1>2, <1>4, OuterWinfo, CalmKeeps
<1> QED BY <1>4, <1>5, FCalm

(* What the calls on event flags keep. *)
FlgKept(r) ==
  ObjInv(r) /\ FInv(r) /\ Frame(k, r, ObjFields \cup {"winfo_data"} \cup FlgFields)

(* A call that only takes bits from the flag o. *)
LEMMA FlgLess ==
  ASSUME ObjInv(k), FInv(k), CHECK_TSKCTX_UNL, NEW o \in Flg,
         NEW r, Frame(k, r, {"flgptn"}), FType(r), r.flgptn[o] \subseteq k.flgptn[o],
         \A n \in Flg \ {o} : r.flgptn[n] = k.flgptn[n]
  PROVE  FlgKept(r)
<1>1. Own({"flgptn"})
  BY DEF Own, ObjFields, KernelFields, FreeLists
<1>2. ObjCall(k, r) /\ r.dspreq = k.dspreq /\ Touches(r, {"flgptn"})
  BY <1>1, FieldCall
<1>3. ObjInv(r)
  BY <1>2, PlainCall
<1>4. FInv(r)
  BY <1>2, FCalm DEF Touches
<1> QED BY <1>3, <1>4 DEF FlgKept, Frame, FlgFields

(* wai_flg, when the condition is not met. *)
LEMMA FlgWait ==
  ASSUME ObjInv(k), FInv(k), CHECK_DISPATCH, NEW o \in Flg, obj_exists(o),
         NEW p, NEW m, ~check_flg_cond(k, o, p, m), NEW b \in BOOLEAN,
         NEW x, x.waiptn = p, x.wfmode = m, NEW r, r = wait_with("FLG", o, b, x)
  PROVE  FlgKept(r)
<1>1. "free_flgcb" \in FreeLists /\ o \in ObjSet["free_flgcb"] /\ "FLG" \in WobjcbKind
  BY DEF FreeLists, ObjSet, WobjcbKind
<1>2. PICK f, kind, t : f = "free_flgcb" /\ kind = "FLG" /\ t = k.p_runtsk
  OBVIOUS
<1>3. /\ ObjInv(r) /\ DataFrame(k, r)
      /\ r.winfo_data = [k.winfo_data EXCEPT ![t] = x]
      /\ \A n \in Wobj, u \in Task : In(r.wait_queue[n], u)
           => (In(k.wait_queue[n], u) /\ u # t) \/ (n = o /\ u = t)
  <2>1. f \in FreeLists /\ o \in ObjSet[f] /\ kind \in WobjcbKind /\ r = wait_with(kind, o, b, x)
    BY <1>1, <1>2
  <2>2. t = k.p_runtsk
    BY <1>2
  <2> QED BY ONLY ObjInv(k), CHECK_DISPATCH, obj_exists(o), b \in BOOLEAN, <2>1, <2>2, WaitStart
<1>4. DOMAIN k.winfo_data = Task
  BY DEF ObjInv, WType
<1>5. r.flgptn = k.flgptn /\ FType(r)
  BY <1>3 DEF DataFrame, Frame, KernelFields, FInv, FType
<1>6. ASSUME NEW n \in Flg, NEW u \in Task, In(r.wait_queue[n], u)
      PROVE  Unmet(r, n, u)
  <2>1. n \in Wobj
    BY FlgAssumption
  <2>2. CASE In(k.wait_queue[n], u) /\ u # t
    <3>1. r.winfo_data[u] = k.winfo_data[u]
      BY <1>3, <1>4, <2>2
    <3> QED BY <1>5, <2>2, <3>1 DEF FInv, Unmet
  <2>3. CASE n = o /\ u = t
    <3>1. r.winfo_data[u] = x
      BY <1>3, <1>4, <2>3
    <3> QED BY <1>5, <2>3, <3>1 DEF Unmet, check_flg_cond
  <2> QED BY <1>3, <1>6, <2>1, <2>2, <2>3
<1>7. FInv(r)
  BY <1>5, <1>6 DEF FInv
<1> QED BY <1>3, <1>7 DEF FlgKept, DataFrame, Frame, ObjFields

(* The calls on event flags. *)
LEMMA FlgInv ==
  ASSUME ObjInv(k), FInv(k), FlgCalls
  PROVE  FlgKept(k')
<1>0. Own(FlgFields)
  BY DEF Own, FlgFields, ObjFields, KernelFields, FreeLists
<1>1. "free_flgcb" \in FreeLists /\ ObjSet["free_flgcb"] = Flg /\ Flg \subseteq Wobj
  BY FlgAssumption DEF FreeLists, ObjSet
<1>2. ObjFields \subseteq DOMAIN k /\ Static(k) /\ QOK(k) /\ WType(k) /\ FType(k)
  BY ObjDomain DEF FInv
<1>3. ASSUME NEW pk \in CFlg, acre_flg(pk)
      PROVE  FlgKept(k')
  <2>1. PICK o, y : /\ o = Head(k.free_flgcb)
                    /\ y = [[k EXCEPT !.wobjatr[o] = pk.tpri] EXCEPT !.free_flgcb = Tail(@)]
    OBVIOUS
  <2>2. Frame(y, k', FlgFields)
    BY <1>3, <2>1 DEF acre_flg, create_obj, Frame, FlgFields
  <2>3. pk.tpri \in {"TA_NULL", "TA_TPRI"}
    BY <1>3, FlgAssumption
  <2>4. CHECK_TSKCTX_UNL /\ k["free_flgcb"] # <<>>
    BY <1>3 DEF acre_flg
  <2>5. /\ ObjInv(k') /\ Touches(k', FlgFields) /\ o \in Flg
        /\ k'.wait_queue = k.wait_queue /\ k.wait_queue[o] = <<>>
    <3>1. ObjInv(k') /\ Touches(k', FlgFields)
      BY ONLY ObjInv(k), <1>0, <1>1, <2>1, <2>2, <2>3, <2>4, CreateCall
    <3>2. o \in ObjSet["free_flgcb"]
      BY ONLY ObjInv(k), <1>0, <1>1, <2>1, <2>2, <2>3, <2>4, CreateCall
    <3>3. k'.wait_queue = k.wait_queue
      <4>1. "wait_queue" \in DOMAIN k
        BY <1>2 DEF ObjFields, KernelFields
      <4>2. y.wait_queue = k.wait_queue /\ "wait_queue" \in DOMAIN y
        BY <2>1, <4>1
      <4> QED BY <2>2, <4>2 DEF Frame, FlgFields
    <3>4. k.wait_queue[o] = <<>>
      <4>1. k.wobjatr[o] = "TA_NOEXS" /\ o \in Wobj
        BY ONLY ObjInv(k), <1>0, <1>1, <2>1, <2>2, <2>3, <2>4, <3>2, CreateCall
      <4> QED BY <1>2, <4>1 DEF QOK, QInv, QueuesOK, Usable
    <3> QED BY <1>1, <3>1, <3>2, <3>3, <3>4
  <2>6. FType(k') /\ \A n \in Flg \ {o} : k'.flgptn[n] = k.flgptn[n]
    <3>1. "flgptn" \in DOMAIN k /\ "flgptn" \notin {"free_flgcb", "wobjatr", "flgatr", "iflgptn"}
      BY <1>2 DEF FType
    <3>2. k'.flgptn = [k.flgptn EXCEPT ![o] = pk.iflgptn] /\ DOMAIN k' = DOMAIN k
      BY <1>3, <2>1, <3>1 DEF acre_flg, create_obj
    <3> QED BY <1>2, <3>1, <3>2 DEF FType
  <2>7. \A n \in Flg : k'.wait_queue[n] # <<>> => k'.flgptn[n] \subseteq k.flgptn[n]
    BY <2>5, <2>6
  <2>8. FInv(k')
    BY <2>5, <2>6, <2>7, FCalm DEF Touches
  <2> QED BY <2>5, <2>8 DEF FlgKept, Touches
<1>4. ASSUME NEW o \in Flg, del_flg(o)
      PROVE  FlgKept(k')
  <2>1. k' = t_leave([delete_obj(k, o) EXCEPT !["free_flgcb"] = Append(@, o)])
        /\ CHECK_TSKCTX_UNL /\ obj_exists(o)
    BY <1>4 DEF del_flg
  <2>2. ObjInv(k') /\ Touches(k', {})
    BY ONLY ObjInv(k), <1>1, <2>1, o \in Flg, DeleteCall
  <2>3. FInv(k')
    BY <2>2, FKeeps
  <2> QED BY <2>2, <2>3 DEF FlgKept, Touches, Frame
<1>5. ASSUME NEW o \in Flg, ini_flg(o)
      PROVE  FlgKept(k')
  <2>1. PICK y, z : /\ y = init_wait_queue(k, o) /\ z = [y EXCEPT !.flgptn[o] = k.iflgptn[o]]
                    /\ k' = t_leave(z) /\ CHECK_TSKCTX_UNL
    BY <1>5 DEF ini_flg
  <2>2. Frame(y, z, FlgFields)
    BY <2>1 DEF Frame, FlgFields
  <2>3. y \in {init_wait_queue(k, o), init_wait_queues(k, o)} /\ o \in Wobj
    BY <1>1, <2>1
  <2>4. ObjInv(k') /\ Touches(k', FlgFields) /\ k'.wait_queue[o] = <<>>
    BY ONLY ObjInv(k), <1>0, <2>1, <2>2, <2>3, IniCall
  <2>5. Outer(k, y)
    BY ONLY <1>2, <2>1, <2>3, InitWait DEF QOK
  <2>6. Outer(z, k')
    BY <2>1, OuterReady
  <2>7. "flgptn" \notin KernelFields
    BY DEF KernelFields
  <2>8. y.flgptn = k.flgptn /\ "flgptn" \in DOMAIN y
    BY <1>2, <2>5, <2>7 DEF Outer, Frame, FType
  <2>9. z.flgptn = [k.flgptn EXCEPT ![o] = k.iflgptn[o]] /\ "flgptn" \in DOMAIN z
    BY <2>1, <2>8
  <2>10. k'.flgptn = z.flgptn /\ "flgptn" \in DOMAIN k'
    BY <2>6, <2>7, <2>9 DEF Outer, Frame
  <2>11. FType(k') /\ \A n \in Flg \ {o} : k'.flgptn[n] = k.flgptn[n]
    BY <1>2, <2>9, <2>10 DEF FType
  <2>12. FInv(k')
    BY <2>4, <2>11, FCalm DEF Touches
  <2> QED BY <2>4, <2>12 DEF FlgKept, Touches
<1>6. ASSUME NEW o \in Flg, NEW p, set_flg(o, p) \/ iset_flg(o, p)
      PROVE  FlgKept(k')
  <2>1. PICK y : y = set_pattern(o, p)
    OBVIOUS
  <2>2. ObjCall(k, y) /\ Touches(y, FlgFields) /\ FInv(y)
    BY <2>1, SetPattern
  <2>3. QOK(y) /\ WType(y)
    BY <2>2 DEF ObjCall, Touches, Calm
  <2>4. CASE set_flg(o, p)
    <3>1. CHECK_TSKCTX_UNL /\ k' = t_leave(y)
      BY <2>1, <2>4 DEF set_flg
    <3>2. ObjInv(k') /\ Touches(k', FlgFields)
      BY <2>2, <3>1, TaskCall
    <3>3. FInv(k')
      BY <2>2, <2>3, <3>1, FLeaves
    <3> QED BY <3>2, <3>3 DEF FlgKept, Touches
  <2>5. CASE iset_flg(o, p)
    <3>1. CHECK_INTCTX_UNL /\ k' = i_leave(y)
      BY <2>1, <2>5 DEF iset_flg
    <3>2. ObjInv(k') /\ Touches(k', FlgFields)
      BY <2>2, <3>1, HandlerCall
    <3>3. FInv(k')
      BY <2>2, <2>3, <3>1, FLeaves
    <3> QED BY <3>2, <3>3 DEF FlgKept, Touches
  <2> QED BY <1>6, <2>4, <2>5
<1>7. ASSUME NEW o \in Flg, NEW p, clr_flg(o, p)
      PROVE  FlgKept(k')
  <2>1. CHECK_TSKCTX_UNL /\ Frame(k, k', {"flgptn"})
    BY <1>7 DEF clr_flg, Frame
  <2>2. k'.flgptn = [k.flgptn EXCEPT ![o] = @ \cap p] /\ FType(k')
    BY <1>2, <1>7 DEF clr_flg, FType
  <2>3. /\ k'.flgptn[o] \subseteq k.flgptn[o]
        /\ \A n \in Flg \ {o} : k'.flgptn[n] = k.flgptn[n]
    BY <1>2, <2>2 DEF FType
  <2> QED BY <2>1, <2>2, <2>3, FlgLess
<1>8. ASSUME NEW o \in Flg, CHECK_TSKCTX_UNL, k' = take_flg(k, o)
      PROVE  FlgKept(k')
  BY <1>2, <1>8, TakeFlg, FlgLess
<1>9. ASSUME NEW o \in Flg, NEW p, NEW m, pol_flg(o, p, m)
      PROVE  FlgKept(k')
  BY <1>8, <1>9 DEF pol_flg
<1>10. ASSUME NEW o \in Flg, NEW p, NEW m, NEW b \in BOOLEAN, wai_flg(o, p, m, b)
       PROVE  FlgKept(k')
  <2>1. CASE check_flg_cond(k, o, p, m)
    BY <1>8, <1>10, <2>1 DEF wai_flg, CHECK_DISPATCH
  <2>2. CASE ~check_flg_cond(k, o, p, m)
    <3>1. PICK x : x = [waiptn |-> p, wfmode |-> m, flgptn |-> {}]
      OBVIOUS
    <3>2. CHECK_DISPATCH /\ obj_exists(o) /\ k' = wait_with("FLG", o, b, x)
      BY <1>10, <2>2, <3>1 DEF wai_flg, may_wait
    <3>3. x.waiptn = p /\ x.wfmode = m
      BY <3>1
    <3> QED BY ONLY ObjInv(k), FInv(k), o \in Flg, b \in BOOLEAN, <2>2, <3>2, <3>3, FlgWait
  <2> QED BY <2>1, <2>2
<1> QED BY <1>3, <1>4, <1>5, <1>6, <1>7, <1>9, <1>10 DEF FlgCalls

-----------------------------------------------------------------------------
(***************************************************************************)
(* The calls on tasks leave the objects alone, and nobody begins to wait.  *)
(***************************************************************************)
Tabled(x) == QFields \subseteq DOMAIN x /\ DOMAIN x.tstat = Task

Quiet(j, r) ==
  Tabled(j) => /\ Tabled(r) /\ Outer(j, r) /\ r.p_wobjcb = j.p_wobjcb
               /\ \A u \in Task : AtWobj(r.tstat[u]) => AtWobj(j.tstat[u])

(* Two steps in a row. *)
LEMMA QuietTrans ==
  ASSUME NEW j, NEW y, NEW r, Quiet(j, y), Quiet(y, r)
  PROVE  Quiet(j, r)
<1>1. SUFFICES ASSUME Tabled(j)
               PROVE  /\ Tabled(r) /\ Outer(j, r) /\ r.p_wobjcb = j.p_wobjcb
                      /\ \A u \in Task : AtWobj(r.tstat[u]) => AtWobj(j.tstat[u])
  BY DEF Quiet
<1>2. Tabled(y) /\ Outer(j, y) /\ y.p_wobjcb = j.p_wobjcb
      /\ \A u \in Task : AtWobj(y.tstat[u]) => AtWobj(j.tstat[u])
  BY <1>1 DEF Quiet
<1>3. Tabled(r) /\ Outer(y, r) /\ r.p_wobjcb = y.p_wobjcb
      /\ \A u \in Task : AtWobj(r.tstat[u]) => AtWobj(y.tstat[u])
  BY <1>2 DEF Quiet
<1> QED BY <1>2, <1>3, OuterTrans

(* A change of other fields. *)
LEMMA QuietFields ==
  ASSUME NEW j, NEW r, NEW F, F \subseteq KernelFields \ {"tstat", "p_wobjcb"}, Frame(j, r, F)
  PROVE  Quiet(j, r)
<1>1. {"tstat", "p_wobjcb"} \subseteq QFields
  BY DEF QFields
<1> QED BY <1>1 DEF Quiet, Tabled, Outer, Frame

(* A task gets a state in which it does not wait for an object. *)
LEMMA QuietStat ==
  ASSUME NEW j, NEW t, NEW ts, ~AtWobj(ts), NEW r, r = [j EXCEPT !.tstat[t] = ts]
  PROVE  Quiet(j, r)
<1>1. SUFFICES ASSUME Tabled(j)
               PROVE  /\ Tabled(r) /\ Outer(j, r) /\ r.p_wobjcb = j.p_wobjcb
                      /\ \A u \in Task : AtWobj(r.tstat[u]) => AtWobj(j.tstat[u])
  BY DEF Quiet
<1>2. "tstat" \in DOMAIN j /\ "p_wobjcb" \in DOMAIN j
  BY <1>1 DEF Tabled, QFields
<1>3. r.tstat = [j.tstat EXCEPT ![t] = ts] /\ r.p_wobjcb = j.p_wobjcb /\ DOMAIN r = DOMAIN j
  BY <1>2
<1>4. Tabled(r) /\ \A u \in Task : r.tstat[u] = IF u = t THEN ts ELSE j.tstat[u]
  BY <1>1, <1>3 DEF Tabled
<1>5. Outer(j, r)
  BY DEF Outer, Frame, KernelFields
<1> QED BY <1>3, <1>4, <1>5

(* The functions on the ready queue, and the ends of calls. *)
LEMMA QuietReady ==
  ASSUME NEW j, NEW t, NEW p, NEW i
  PROVE  /\ Quiet(j, make_runnable(j, t)) /\ Quiet(j, make_non_runnable(j, t))
         /\ Quiet(j, activate_context(j, t)) /\ Quiet(j, dispatcher(j))
         /\ Quiet(j, t_leave(j)) /\ Quiet(j, i_leave(j)) /\ Quiet(j, Void(i, j))
         /\ Quiet(j, wait_dequeue_tmevtb(j, t)) /\ Quiet(j, set_wercd(j, t, p))
<1>1. ASSUME NEW r, Outer(j, r), QFields \subseteq DOMAIN j => Same(j, r, {})
      PROVE  Quiet(j, r)
  BY <1>1, SameFields DEF Quiet, Tabled, Same
<1> QED BY <1>1, OuterReady, SameReady

(* The functions on one task. *)
LEMMA QuietTask ==
  ASSUME NEW j, NEW t
  PROVE  /\ Quiet(j, make_non_wait(j, t)) /\ Quiet(j, make_active(j, t))
         /\ Quiet(j, make_dormant(j, t)) /\ Quiet(j, wait_dequeue_wobj(j, t))
<1>1. ~AtWobj({}) /\ ~AtWobj({"RUNNABLE"}) /\ ~AtWobj({"SUSPENDED"})
  BY DEF AtWobj, WobjKind, WobjcbKind
<1>2. Quiet(j, make_non_wait(j, t))
  <2>1. PICK y : y = [j EXCEPT !.tstat[t] = {"RUNNABLE"}]
    OBVIOUS
  <2>2. PICK s : s = [j EXCEPT !.tstat[t] = {"SUSPENDED"}]
    OBVIOUS
  <2>3. make_non_wait(j, t) = s \/ make_non_wait(j, t) = make_runnable(y, t)
    BY <2>1, <2>2 DEF make_non_wait, TS_SUSPENDED, TS_RUNNABLE
  <2>4. Quiet(j, y) /\ Quiet(j, s)
    BY <1>1, <2>1, <2>2, QuietStat
  <2> HIDE <2>1, <2>2
  <2> QED BY <2>3, <2>4, QuietReady, QuietTrans
<1>3. Quiet(j, make_active(j, t))
  <2>1. PICK a : a = activate_context(j, t)
    OBVIOUS
  <2>2. PICK y : y = [a EXCEPT !.tstat[t] = {"RUNNABLE"}]
    OBVIOUS
  <2>3. make_active(j, t) = make_runnable(y, t)
    BY <2>1, <2>2 DEF make_active, TS_RUNNABLE
  <2>4. Quiet(j, a)
    BY <2>1, QuietReady
  <2>5. Quiet(a, y)
    BY <1>1, <2>2, QuietStat
  <2>6. Quiet(y, make_runnable(y, t))
    BY QuietReady
  <2> HIDE <2>1, <2>2
  <2> QED BY <2>3, <2>4, <2>5, <2>6, QuietTrans
<1>4. Quiet(j, make_dormant(j, t))
  <2>1. PICK r : r = make_dormant(j, t)
    OBVIOUS
  <2>2. PICK s : s = [j EXCEPT !.tstat[t] = {}]
    OBVIOUS
  <2>3. Frame(s, r, {"priority", "bpriority", "wupque"})
    BY <2>1, <2>2 DEF make_dormant, TS_DORMANT, Frame
  <2>4. Quiet(s, r)
    <3>1. {"priority", "bpriority", "wupque"} \subseteq KernelFields \ {"tstat", "p_wobjcb"}
      BY DEF KernelFields
    <3> QED BY ONLY <2>3, <3>1, QuietFields
  <2>5. Quiet(j, s)
    BY <1>1, <2>2, QuietStat
  <2> QED BY ONLY <2>1, <2>4, <2>5, QuietTrans
<1>5. Quiet(j, wait_dequeue_wobj(j, t))
  <2>1. Frame(j, wait_dequeue_wobj(j, t), {"wait_queue"})
    BY DEF wait_dequeue_wobj, Frame
  <2>2. {"wait_queue"} \subseteq KernelFields \ {"tstat", "p_wobjcb"}
    BY DEF KernelFields
  <2> QED BY ONLY <2>1, <2>2, QuietFields
<1> QED BY <1>2, <1>3, <1>4, <1>5

(* The ends of a wait. *)
LEMMA QuietWaitEnd ==
  ASSUME NEW j, NEW t
  PROVE  /\ Quiet(j, wait_release(j, t)) /\ Quiet(j, wait_tmout(j, t))
         /\ Quiet(j, wait_tmout_ok(j, t))
<1>1. ASSUME NEW x, NEW e PROVE Quiet(x, make_non_wait(set_wercd(x, t, e), t))
  <2>1. PICK y : y = set_wercd(x, t, e)
    OBVIOUS
  <2>2. Quiet(x, y) /\ Quiet(y, make_non_wait(y, t))
    BY <2>1, QuietReady, QuietTask
  <2> QED BY ONLY <2>1, <2>2, QuietTrans
<1>2. PICK w : w = wait_dequeue_wobj(j, t)
  OBVIOUS
<1>3. PICK m : m = wait_dequeue_tmevtb(w, t)
  OBVIOUS
<1>4. Quiet(j, w) /\ Quiet(w, m)
  BY <1>2, <1>3, QuietReady, QuietTask
<1>5. /\ wait_release(j, t) = make_non_wait(set_wercd(m, t, "E_RLWAI"), t)
      /\ wait_tmout(j, t) = make_non_wait(set_wercd(w, t, "E_TMOUT"), t)
      /\ wait_tmout_ok(j, t) = make_non_wait(set_wercd(j, t, "E_OK"), t)
  BY <1>2, <1>3 DEF wait_release, wait_tmout, wait_tmout_ok
<1> HIDE <1>2, <1>3
<1> QED BY <1>1, <1>4, <1>5, QuietTrans

(* end_task. *)
LEMMA QuietEnd ==
  ASSUME NEW j, NoMutex(j), NEW t \in Task
  PROVE  Quiet(j, end_task(j, t))
<1>1. PICK d : d = make_dormant(j, t)
  OBVIOUS
<1>2. PICK a : a = [d EXCEPT !.actque[t] = FALSE]
  OBVIOUS
<1>3. end_task(j, t) = IF d.actque[t] THEN make_active(a, t) ELSE d
  BY <1>1, <1>2, NoMutexEnd
<1>4. Quiet(j, d)
  BY <1>1, QuietTask
<1>5. Quiet(d, a)
  <2>1. Frame(d, a, {"actque"})
    BY <1>2 DEF Frame
  <2>2. {"actque"} \subseteq KernelFields \ {"tstat", "p_wobjcb"}
    BY DEF KernelFields
  <2> QED BY ONLY <2>1, <2>2, QuietFields
<1>6. Quiet(a, make_active(a, t))
  BY QuietTask
<1> HIDE <1>1, <1>2
<1> QED BY <1>3, <1>4, <1>5, <1>6, QuietTrans

(* change_priority. *)
LEMMA QuietChangePri ==
  ASSUME NEW j, QOK(j), NEW t \in Task, NEW p \in TPRI,
         NEW r, r = change_priority(j, t, p, FALSE)
  PROVE  Quiet(j, r)
<1>1. Same(j, r, {"priority", "wait_queue"})
  BY QChangePri DEF QOK
<1>2. Outer(j, r)
  <2>1. Outer(j, change_ready(j, t, p, FALSE))
    <3>1. PICK a : a = ready_delete([j EXCEPT !.priority[t] = p], t, j.priority[t])
      OBVIOUS
    <3>2. PICK b : b = [a EXCEPT !.ready_queue[p] = queue_insert_prev(@, t),
                                 !.ready_primap = @ \cup {p}]
      OBVIOUS
    <3>3. \E s, d : change_ready(j, t, p, FALSE) = [b EXCEPT !.p_schedtsk = s, !.dspreq = d]
      BY <3>1, <3>2 DEF change_ready
    <3>4. Outer(j, a)
      BY <3>1 DEF ready_delete, Outer, Frame, KernelFields
    <3>5. Outer(a, b)
      BY <3>2 DEF Outer, Frame, KernelFields
    <3>6. Outer(b, change_ready(j, t, p, FALSE))
      BY <3>3 DEF Outer, Frame, KernelFields
    <3> QED BY <3>4, <3>5, <3>6, OuterTrans
  <2>2. PICK y : y = [j EXCEPT !.priority[t] = p]
    OBVIOUS
  <2>3. Outer(j, y)
    BY <2>2 DEF Outer, Frame, KernelFields
  <2>4. Outer(y, wobj_change_priority(y, j.p_wobjcb[t], t)) /\ Outer(y, y)
    BY DEF wobj_change_priority, Outer, Frame, KernelFields
  <2>5. \/ r = change_ready(j, t, p, FALSE) \/ r = y
        \/ r = wobj_change_priority(y, j.p_wobjcb[t], t)
    BY <2>2 DEF change_priority
  <2>6. PICK c, w : /\ c = change_ready(j, t, p, FALSE)
                    /\ w = wobj_change_priority(y, j.p_wobjcb[t], t)
    OBVIOUS
  <2>7. Outer(j, c) /\ Outer(y, w) /\ (r = c \/ r = y \/ r = w)
    BY <2>1, <2>4, <2>5, <2>6
  <2> QED BY ONLY <2>3, <2>7, OuterTrans
<1> QED BY <1>1, <1>2 DEF Quiet, Tabled, Same, QFields

(* Then nobody joins the wait queue of an event flag. *)
LEMMA QuietCalm ==
  ASSUME QOK(k), WType(k), NEW r, Quiet(k, r), QOK(r)
  PROVE  WType(r) /\ Touches(r, {})
<1>1. Tabled(k)
  BY DEF QOK, QInv, QType, Tabled
<1>2. /\ Outer(k, r) /\ r.p_wobjcb = k.p_wobjcb
      /\ \A u \in Task : AtWobj(r.tstat[u]) => AtWobj(k.tstat[u])
  BY <1>1 DEF Quiet
<1>3. WType(r) /\ r.winfo_data = k.winfo_data
  BY <1>2, OuterWinfo
<1>4. ASSUME NEW o \in Flg, NEW u \in Task, In(r.wait_queue[o], u)
      PROVE  In(k.wait_queue[o], u)
  <2>1. o \in Wobj
    BY FlgAssumption
  <2>2. AtWobj(r.tstat[u]) /\ r.p_wobjcb[u] = o
    BY <1>4, <2>1 DEF QOK, QInv, QueuesOK
  <2>3. AtWobj(k.tstat[u]) /\ k.p_wobjcb[u] = o
    BY <1>2, <2>2
  <2> QED BY <2>1, <2>3 DEF QOK, QInv, QueuesOK
<1>5. Calm(k, r)
  BY <1>3, <1>4 DEF Calm
<1> QED BY <1>2, <1>3, <1>5 DEF Touches, Outer, Frame, ObjFields

(* The task calls that can be told apart by their parts. *)
LEMMA QuietCalls ==
  ASSUME IInv(k), QOK(k),
         \/ int_entry \/ ret_int \/ idle_loop \/ start_dispatch \/ ext_tsk
         \/ \E t \in Task : \/ TSTAT_DORMANT(k, t) /\ (act_tsk(t) \/ iact_tsk(t))
                            \/ ter_tsk(t) \/ rel_wai(t) \/ signal_time(t)
                            \/ \E p \in TPRI : chg_pri(t, p)
  PROVE  Quiet(k, k')
<1>0. /\ {"excpt_nest_count", "lock", "reqflg", "kerflg"} \subseteq KernelFields \ {"tstat", "p_wobjcb"}
      /\ {"disdsp", "ipmflg", "dspflg"} \subseteq KernelFields \ {"tstat", "p_wobjcb"}
      /\ {"tmevtb"} \subseteq KernelFields \ {"tstat", "p_wobjcb"}
      /\ {"bpriority"} \subseteq KernelFields \ {"tstat", "p_wobjcb"}
  BY DEF KernelFields
<1>1. CASE int_entry \/ ret_int \/ idle_loop \/ start_dispatch
  <2>1. PICK a, b, c, d : /\ a = [k EXCEPT !.kerflg = TRUE] /\ b = [k EXCEPT !.reqflg = FALSE]
                          /\ c = [k EXCEPT !.excpt_nest_count = @ - 1, !.lock = FALSE]
                          /\ d = [c EXCEPT !.reqflg = FALSE]
    OBVIOUS
  <2>2. PICK e : e = [k EXCEPT !.excpt_nest_count = @ + 1]
    OBVIOUS
  <2>3. \/ k' = c \/ k' = d \/ k' = dispatcher(a) \/ k' = dispatcher(b)
        \/ k' = dispatcher(d) \/ k' = e
    BY <1>1, <2>1, <2>2 DEF start_dispatch, ret_int, idle_loop, int_entry
  <2> DEFINE F == {"excpt_nest_count", "lock", "reqflg", "kerflg"}
  <2>4. Frame(k, a, F) /\ Frame(k, b, F) /\ Frame(k, c, F) /\ Frame(k, d, F) /\ Frame(k, e, F)
    BY <2>1, <2>2 DEF Frame
  <2>5. F \subseteq KernelFields \ {"tstat", "p_wobjcb"}
    BY <1>0
  <2> HIDE DEF F
  <2> HIDE <2>1, <2>2
  <2>6. Quiet(k, a) /\ Quiet(k, b) /\ Quiet(k, c) /\ Quiet(k, d) /\ Quiet(k, e)
    BY ONLY <2>4, <2>5, QuietFields
  <2>7. Quiet(a, dispatcher(a)) /\ Quiet(b, dispatcher(b)) /\ Quiet(d, dispatcher(d))
    BY ONLY QuietReady
  <2> QED BY ONLY <2>3, <2>6, <2>7, QuietTrans
<1>2. ASSUME NEW y, Quiet(k, y), k' \in {t_leave(y), i_leave(y), dispatcher(y)}
      PROVE  Quiet(k, k')
  <2>1. Quiet(y, k')
    BY <1>2, QuietReady
  <2> QED BY ONLY <1>2, <2>1, QuietTrans
<1>3. ASSUME NEW t \in Task, TSTAT_DORMANT(k, t) /\ (act_tsk(t) \/ iact_tsk(t))
      PROVE  Quiet(k, k')
  <2>1. activate(t) = make_active(k, t)
    BY <1>3 DEF activate
  <2>2. Quiet(k, activate(t))
    BY <2>1, QuietTask
  <2> QED BY <1>2, <1>3, <2>2 DEF act_tsk, iact_tsk
<1>4. ASSUME NEW t \in Task, rel_wai(t)
      PROVE  Quiet(k, k')
  BY <1>2, <1>4, QuietWaitEnd DEF rel_wai
<1>5. ASSUME NEW t \in Task, signal_time(t)
      PROVE  Quiet(k, k')
  <2>1. PICK y : y = [k EXCEPT !.tmevtb[t] = "none"]
    OBVIOUS
  <2>2. Frame(k, y, {"tmevtb"})
    BY <2>1 DEF Frame
  <2>3. Quiet(k, y)
    BY ONLY <1>0, <2>2, QuietFields
  <2>4. k' = i_leave(wait_tmout(y, t)) \/ k' = i_leave(wait_tmout_ok(y, t))
    BY <1>5, <2>1 DEF signal_time
  <2> HIDE <2>1
  <2>5. Quiet(k, wait_tmout(y, t)) /\ Quiet(k, wait_tmout_ok(y, t))
    BY <2>3, QuietWaitEnd, QuietTrans
  <2> QED BY <1>2, <2>4, <2>5
<1>6. ASSUME NEW t \in Task, ter_tsk(t)
      PROVE  Quiet(k, k')
  <2>1. PICK y : y = TerRemoved(t)
    OBVIOUS
  <2>2. k' = t_leave(end_task(y, t))
    BY <1>6, <2>1 DEF ter_tsk, TSTAT_RUNNABLE, TSTAT_WAITING, TerRemoved
  <2>3. PICK n, w : n = make_non_runnable(k, t) /\ w = wait_dequeue_wobj(k, t)
    OBVIOUS
  <2>4. Quiet(k, n) /\ Quiet(n, Void(k, n)) /\ Quiet(k, w) /\ Quiet(w, wait_dequeue_tmevtb(w, t))
    BY <2>3, QuietReady, QuietTask
  <2>5. y = Void(k, n) \/ y = wait_dequeue_tmevtb(w, t) \/ y = k
    BY <2>1, <2>3 DEF TerRemoved
  <2>6. Quiet(k, y)
    <3>1. Quiet(k, k)
      BY DEF Quiet, Outer, Frame
    <3> QED BY ONLY <2>4, <2>5, <3>1, QuietTrans
  <2>7. NoMutex(y)
    <3>1. NoMutex(k)
      BY QNoMutex DEF QOK
    <3>2. NoMutex(n) /\ NoMutex(Void(k, n)) /\ NoMutex(w) /\ NoMutex(wait_dequeue_tmevtb(w, t))
      BY <2>3, <3>1, NoMutexReady, NoMutexTask, NoMutexLeave
    <3> QED BY <2>5, <3>1, <3>2
  <2> HIDE <2>1
  <2>8. Quiet(y, end_task(y, t))
    BY <2>7, QuietEnd
  <2>9. Quiet(k, end_task(y, t))
    BY ONLY <2>6, <2>8, QuietTrans
  <2> QED BY <1>2, <2>2, <2>9
<1>7. CASE ext_tsk
  <2>1. k.p_runtsk \in Task
    BY <1>7, TaskContext DEF ext_tsk
  <2>2. PICK t \in Task : t = k.p_runtsk
    BY <2>1
  <2>3. PICK j : j = [k EXCEPT !.disdsp = FALSE, !.ipmflg = TRUE, !.dspflg = TRUE]
    OBVIOUS
  <2>4. PICK n : n = make_non_runnable(j, t)
    OBVIOUS
  <2>5. k' = dispatcher(end_task(n, t))
    BY <1>7, <2>2, <2>3, <2>4 DEF ext_tsk
  <2>6. Frame(k, j, {"disdsp", "ipmflg", "dspflg"})
    BY <2>3 DEF Frame
  <2>7. Quiet(k, j)
    BY ONLY <1>0, <2>6, QuietFields
  <2>8. Quiet(j, n)
    BY <2>4, QuietReady
  <2>9. NoMutex(n)
    <3>1. NoMutex(k)
      BY QNoMutex DEF QOK
    <3>2. NoMutex(j)
      BY <2>6, <3>1 DEF NoMutex, Frame
    <3> QED BY <2>4, <3>2, NoMutexReady
  <2> HIDE <2>2, <2>3, <2>4
  <2>10. Quiet(n, end_task(n, t))
    BY <2>9, QuietEnd
  <2>11. Quiet(k, end_task(n, t))
    BY ONLY <2>7, <2>8, <2>10, QuietTrans
  <2> QED BY <1>2, <2>5, <2>11
<1>8. ASSUME NEW t \in Task, NEW p \in TPRI, chg_pri(t, p)
      PROVE  Quiet(k, k')
  <2>1. NoMutex(k)
    BY QNoMutex DEF QOK
  <2>2. PICK y : y = [k EXCEPT !.bpriority[t] = p]
    OBVIOUS
  <2>3. k' = k \/ k' = t_leave(change_priority(y, t, p, FALSE))
    BY <1>8, <2>1, <2>2, NoMutexChgPri DEF chg_pri
  <2>4. Same(k, y, {}) /\ Frame(k, y, {"bpriority"})
    BY <2>2 DEF QOK, QInv, QType, Same, QFields, FreeLists, Frame
  <2> HIDE <2>2
  <2>5. QOK(y)
    BY <2>4, QSame DEF QOK
  <2>6. Quiet(k, y)
    BY ONLY <1>0, <2>4, QuietFields
  <2>7. Quiet(y, change_priority(y, t, p, FALSE))
    BY <2>5, QuietChangePri
  <2>8. Quiet(k, change_priority(y, t, p, FALSE))
    BY ONLY <2>6, <2>7, QuietTrans
  <2>9. Quiet(k, k)
    BY DEF Quiet, Outer, Frame
  <2> QED BY <1>2, <2>3, <2>8, <2>9
<1> QED BY <1>1, <1>3, <1>4, <1>5, <1>6, <1>7, <1>8

(* initialize_task. *)
LEMMA QuietInitTask ==
  ASSUME initialize_task
  PROVE  Quiet(k, k')
<1>1. PICK t : t = torder[k.boot]
  OBVIOUS
<1>2. PICK y : y = [k EXCEPT !.actque[t] = FALSE, !.mutex_queue[t] = <<>>]
  OBVIOUS
<1>3. PICK d : d = make_dormant(y, t)
  OBVIOUS
<1>4. PICK a : a = make_active(d, t)
  OBVIOUS
<1>5. PICK z : z = IF t \in TaAct THEN Void(k, a) ELSE d
  OBVIOUS
<1>6. k' = [z EXCEPT !.boot = @ + 1]
  BY <1>1, <1>2, <1>3, <1>4, <1>5 DEF initialize_task
<1>7. Frame(k, y, {"actque", "mutex_queue"}) /\ Frame(z, k', {"boot"})
  BY <1>2, <1>6 DEF Frame
<1>8. /\ {"actque", "mutex_queue"} \subseteq KernelFields \ {"tstat", "p_wobjcb"}
      /\ {"boot"} \subseteq KernelFields \ {"tstat", "p_wobjcb"}
  BY DEF KernelFields
<1>9. Quiet(k, y) /\ Quiet(z, k')
  BY ONLY <1>7, <1>8, QuietFields
<1>10. Quiet(y, d) /\ Quiet(d, a) /\ Quiet(a, Void(k, a))
  BY <1>3, <1>4, QuietReady, QuietTask
<1> HIDE <1>2, <1>3, <1>4, <1>6
<1>11. Quiet(d, z)
  <2>1. Quiet(d, d)
    BY DEF Quiet, Outer, Frame
  <2> QED BY ONLY <1>5, <1>10, <2>1, QuietTrans
<1> QED BY ONLY <1>9, <1>10, <1>11, QuietTrans

(* wait_return_obj: the running task is in no wait queue. *)
LEMMA ReturnCall ==
  ASSUME ObjInv(k), wait_return_obj
  PROVE  ObjInv(k') /\ Touches(k', {})
<1>1. ObjFields \subseteq DOMAIN k /\ Static(k) /\ QOK(k) /\ WType(k) /\ IInv(k)
  BY ObjDomain DEF ObjInv
<1>2. k.kerflg /\ k.excpt_nest_count = 0 /\ k.p_runtsk \in Task
      /\ "RUNNABLE" \in k.tstat[k.p_runtsk]
  BY <1>1 DEF IInv, wait_return_obj, Resuming, Context, Dispatched, Running, Static, Data
<1>3. PICK t \in Task : t = k.p_runtsk
  BY <1>2
<1>4. PICK r : r = [k EXCEPT !.winfo[t] = "none"]
  OBVIOUS
<1>5. IInv(r)
  BY <1>1, <1>3, <1>4, WaitReturned DEF wait_return_obj
<1>6. k' = [r EXCEPT !.winfo_data[t] = NULL]
  BY <1>3, <1>4 DEF wait_return_obj
<1>7. /\ "winfo_data" \in DOMAIN k /\ "winfo_data" \notin ObjFields
      /\ "winfo" \in DOMAIN k /\ "winfo_data" \in DOMAIN r
  BY <1>1, <1>4 DEF WType, ObjFields, KernelFields, FreeLists
<1>8. /\ Frame(r, k', {"winfo_data"}) /\ Frame(k, k', {"winfo", "winfo_data"})
      /\ k'.winfo_data = [k.winfo_data EXCEPT ![t] = NULL]
      /\ r.kerflg = k.kerflg /\ r.excpt_nest_count = k.excpt_nest_count
  BY <1>1, <1>4, <1>6, <1>7 DEF Frame, ObjFields, KernelFields
<1> HIDE <1>4, <1>6
<1>9. Kept(r, k', {}) /\ k'.dspreq = r.dspreq
  BY <1>5, <1>7, <1>8 DEF Kept, Frame, ObjFields, IInv, Static, Data, KernelFields
<1>10. Static(r) /\ CallOf(r, k', Task)
  BY <1>5, <1>9, KeptTables, StaticCases DEF IInv
<1>11. Call(r, k')
  BY <1>10, StaticCases DEF CallOf, Call
<1>12. IInv(k')
  BY ONLY <1>2, <1>5, <1>8, <1>9, <1>11, CallReturn
<1>13. QOK(k')
  BY <1>1, QFrameCalls
<1>14. WType(k') /\ \A u \in Task \ {t} : k'.winfo_data[u] = k.winfo_data[u]
  BY <1>1, <1>7, <1>8 DEF WType, Frame
<1>15. Calm(k, k')
  <2>1. k'.wait_queue = k.wait_queue
    BY <1>1, <1>8 DEF Frame, ObjFields, KernelFields
  <2>2. ~AtWobj(k.tstat[t])
    BY <1>1, <1>2, <1>3, NotWaiting
  <2>3. \A o \in Flg : ~In(k.wait_queue[o], t)
    BY <1>1, <2>2, FlgAssumption DEF QOK, QInv, QueuesOK
  <2> QED BY <1>14, <2>1, <2>3 DEF Calm
<1>16. Frame(k, k', ObjFields \cup {"winfo_data"} \cup {})
  BY <1>8 DEF Frame, ObjFields, KernelFields
<1> QED BY <1>12, <1>13, <1>14, <1>15, <1>16 DEF ObjInv, Touches

(* What happens to the tasks. *)
LEMMA TaskInv ==
  ASSUME ObjInv(k), TaskCalls
  PROVE  ObjInv(k') /\ Touches(k', {})
<1>1. IInv(k) /\ QOK(k) /\ WType(k) /\ NoMutex(k)
  BY QNoMutex DEF ObjInv, QOK
<1>2. ASSUME IInv(k'), QOK(k'), Quiet(k, k')
      PROVE  ObjInv(k') /\ Touches(k', {})
  BY <1>1, <1>2, QuietCalm DEF ObjInv
<1>3. CASE initialize_task
  BY <1>1, <1>2, <1>3, InitializeTask, QInitTask, QuietInitTask
<1>4. CASE int_entry \/ ret_int \/ idle_loop \/ start_dispatch
  BY <1>1, <1>2, <1>4, IntEntry, IntReturn, IdleLoop, StartDispatch, QFrameCalls, QuietCalls
<1>5. CASE ext_tsk
  BY <1>1, <1>2, <1>5, Exit, QExit, QuietCalls
<1>6. ASSUME NEW t \in Task, TSTAT_DORMANT(k, t) /\ (act_tsk(t) \/ iact_tsk(t))
      PROVE  ObjInv(k') /\ Touches(k', {})
  <2>1. k.tstat[t] = {}
    BY <1>6 DEF TSTAT_DORMANT, TS_DORMANT
  <2>2. IInv(k') /\ QOK(k')
    BY <1>1, <1>6, <2>1, SimpleCalls, QSimpleCalls
  <2>3. Quiet(k, k')
    BY <1>1, <1>6, QuietCalls
  <2> QED BY <1>2, <2>2, <2>3
<1>7. ASSUME NEW t \in Task, ter_tsk(t)
      PROVE  ObjInv(k') /\ Touches(k', {})
  BY <1>1, <1>2, <1>7, Terminate, QTerminate, QuietCalls
<1>8. ASSUME NEW t \in Task, rel_wai(t)
      PROVE  ObjInv(k') /\ Touches(k', {})
  BY <1>1, <1>2, <1>8, SimpleCalls, QSimpleCalls, QuietCalls
<1>9. ASSUME NEW t \in Task, signal_time(t)
      PROVE  ObjInv(k') /\ Touches(k', {})
  BY <1>1, <1>2, <1>9, SignalTime, QSignalTime, QuietCalls
<1>10. ASSUME NEW t \in Task, NEW p \in TPRI, chg_pri(t, p)
       PROVE  ObjInv(k') /\ Touches(k', {})
  BY <1>1, <1>2, <1>10, ChgPri, QChgPri, QuietCalls
<1> QED BY <1>3, <1>4, <1>5, <1>6, <1>7, <1>8, <1>9, <1>10, ReturnCall DEF TaskCalls, Startup

-----------------------------------------------------------------------------
(***************************************************************************)
(* The initial states.                                                     *)
(***************************************************************************)

(* The kinds of objects with the free lists G have been initialized. *)
Stage(x, G) ==
  /\ InitFields(x) /\ WType(x)
  /\ x.wobjatr \in [Wobj -> {"TA_NULL", "TA_TPRI", "TA_NOEXS"}]
  /\ \A o \in RwaitSet : x.wobjatr[o] = "TA_NULL"
  /\ \A f \in G : /\ f \in DOMAIN x /\ x[f] \in Seq(ObjSet[f]) /\ Distinct(x[f])
                  /\ \A o \in Wobj : In(x[f], o) => x.wobjatr[o] = "TA_NOEXS"

(* The list of the objects for dynamic creation. *)
LEMMA ListIn ==
  ASSUME NEW S, NEW q \in Seq(S), IsInjective(q)
  PROVE  Distinct(q) /\ \A o : In(q, o) => o \in ToSet(q)
BY DEF IsInjective, Distinct, In, ToSet

(* e are the fields F of the objects with the free list f, which is q at   *)
(* first; a are their attributes.                                          *)
AddsKind(j, G, f, q, a, F, e) ==
  /\ G \subseteq FreeLists /\ f \in FreeLists \ G /\ Own(F)
  /\ q \in Seq(ObjSet[f]) /\ IsInjective(q)
  /\ a \in [ObjSet[f] -> {"TA_NULL", "TA_TPRI", "TA_NOEXS"}]
  /\ \A o \in ToSet(q) : a[o] = "TA_NOEXS"
  /\ DOMAIN e = F \cup {f, "wobjatr"} /\ e[f] = q /\ e.wobjatr = extend(j.wobjatr, a)

Added(j, r, f, F) ==
  /\ DOMAIN r = DOMAIN j \cup F \cup {f}
  /\ \A g \in DOMAIN j \ (F \cup {f, "wobjatr"}) : r[g] = j[g]

(* The fields of one kind of objects are added. *)
LEMMA StageStep ==
  ASSUME NEW j, NEW G, NEW f, NEW q, NEW a, NEW F, NEW e, AddsKind(j, G, f, q, a, F, e),
         Stage(j, G), NEW r, r = extend(j, e)
  PROVE  Stage(r, G \cup {f}) /\ Added(j, r, f, F) /\ \A g \in F : r[g] = e[g]
<1> USE DEF AddsKind
<1>1. /\ DOMAIN r = DOMAIN j \cup F \cup {f, "wobjatr"} /\ \A g \in DOMAIN e : r[g] = e[g]
      /\ \A g \in DOMAIN j \ (F \cup {f, "wobjatr"}) : r[g] = j[g]
  BY DEF extend
<1>2. KernelFields \subseteq DOMAIN j /\ "wobjatr" \in KernelFields
      /\ "winfo_data" \in DOMAIN j /\ DOMAIN j.winfo_data = Task
  BY DEF Stage, InitFields, KernelFields, WType
<1>3. /\ f \notin KernelFields /\ f # "wobjatr" /\ f # "winfo_data" /\ F \cap KernelFields = {}
      /\ "winfo_data" \notin F \cup {"wobjatr"} /\ F \cap FreeLists = {}
      /\ "wobjatr" \notin FreeLists
  BY DEF FreeLists, KernelFields, Own, ObjFields
<1>4. r[f] = q /\ r.wobjatr = extend(j.wobjatr, a) /\ \A g \in F : r[g] = e[g]
  BY <1>1
<1>5. InitFields(r) /\ WType(r)
  <2>1. r["winfo_data"] = j["winfo_data"]
    BY <1>1, <1>2, <1>3
  <2>2. \A g \in KernelFields \ {"wobjatr"} : r[g] = j[g]
    BY <1>1, <1>2, <1>3
  <2> QED BY <1>1, <1>2, <2>1, <2>2 DEF InitFields, WType, Stage
<1>6. /\ ObjSet[f] \subseteq Wobj /\ ObjSet[f] \cap RwaitSet = {}
      /\ \A g \in FreeLists \ {f} : ObjSet[f] \cap ObjSet[g] = {}
  BY Kinds
<1>7. /\ j.wobjatr \in [Wobj -> {"TA_NULL", "TA_TPRI", "TA_NOEXS"}]
      /\ \A o \in RwaitSet : j.wobjatr[o] = "TA_NULL"
  BY DEF Stage
<1>8. /\ r.wobjatr \in [Wobj -> {"TA_NULL", "TA_TPRI", "TA_NOEXS"}]
      /\ \A o \in ObjSet[f] : r.wobjatr[o] = a[o]
      /\ \A o \in Wobj \ ObjSet[f] : r.wobjatr[o] = j.wobjatr[o]
  BY <1>4, <1>6, <1>7 DEF extend
<1>9. RwaitSet \subseteq Wobj
  BY RwaitAssumption DEF RwaitSet
<1>10. \A o \in RwaitSet : r.wobjatr[o] = "TA_NULL"
  BY <1>6, <1>7, <1>8, <1>9
<1>11. ASSUME NEW g \in G \cup {f}
       PROVE  /\ g \in DOMAIN r /\ r[g] \in Seq(ObjSet[g]) /\ Distinct(r[g])
              /\ \A o \in Wobj : In(r[g], o) => r.wobjatr[o] = "TA_NOEXS"
  <2>1. CASE g = f
    <3>1. Distinct(q) /\ \A o : In(q, o) => o \in ToSet(q)
      BY ListIn
    <3>2. \A o : In(q, o) => o \in ObjSet[f]
      BY DEF In
    <3> QED BY <1>1, <1>4, <1>8, <2>1, <3>1, <3>2
  <2>2. CASE g # f
    <3>1. /\ g \in DOMAIN j /\ j[g] \in Seq(ObjSet[g]) /\ Distinct(j[g])
          /\ \A o \in Wobj : In(j[g], o) => j.wobjatr[o] = "TA_NOEXS"
      BY <1>11, <2>2 DEF Stage
    <3>2. r[g] = j[g] /\ g \in DOMAIN r
      BY <1>1, <1>3, <1>11, <2>2, <3>1
    <3>3. \A o : In(j[g], o) => o \in ObjSet[g]
      BY <3>1 DEF In
    <3>4. ObjSet[g] \cap ObjSet[f] = {}
      BY <1>6, <1>11, <2>2
    <3> QED BY <1>8, <3>1, <3>2, <3>3, <3>4
  <2> QED BY <2>1, <2>2
<1> QED BY <1>1, <1>2, <1>4, <1>5, <1>8, <1>10, <1>11 DEF Stage, Added

(* The attributes of the objects of one kind. *)
LEMMA Attributes ==
  ASSUME NEW S, NEW q \in Seq(S), NEW a, a = [o \in S |-> a[o]],
         \A o \in S : a[o] \in IF o \in ToSet(q) THEN {"TA_NOEXS"} ELSE {"TA_NULL", "TA_TPRI"}
  PROVE  /\ a \in [S -> {"TA_NULL", "TA_TPRI", "TA_NOEXS"}]
         /\ \A o \in ToSet(q) : a[o] = "TA_NOEXS"
<1>1. ToSet(q) \subseteq S
  BY DEF ToSet
<1>2. \A o \in S : a[o] \in {"TA_NULL", "TA_TPRI", "TA_NOEXS"}
  OBVIOUS
<1> QED BY <1>1, <1>2

(* initialize_semaphore. *)
LEMMA StageSem ==
  ASSUME NEW j, NEW G, G \subseteq FreeLists, Stage(j, G), "free_semcb" \notin G,
         NEW r, r = initialize_semaphore(j)
  PROVE  Stage(r, G \cup {"free_semcb"}) /\ Added(j, r, "free_semcb", SemFields)
<1>1. PICK n : n = [o \in Sem |-> IF o \in ToSet(asem)
                                  THEN [sematr |-> "TA_NOEXS", isemcnt |-> 0, maxsem |-> 0]
                                  ELSE seminib[o]]
  OBVIOUS
<1>2. PICK a : a = [o \in Sem |-> n[o].sematr]
  OBVIOUS
<1>3. PICK e : e = [wobjatr    |-> extend(j.wobjatr, a),
                    semcnt     |-> [o \in Sem |-> n[o].isemcnt],
                    isemcnt    |-> [o \in Sem |-> n[o].isemcnt],
                    maxsem     |-> [o \in Sem |-> n[o].maxsem],
                    free_semcb |-> asem]
  OBVIOUS
<1>4. r = extend(j, e)
  BY <1>1, <1>2, <1>3 DEF initialize_semaphore
<1>5. \A o \in Sem : a[o] \in IF o \in ToSet(asem) THEN {"TA_NOEXS"} ELSE {"TA_NULL", "TA_TPRI"}
  BY <1>1, <1>2, SemAssumption
<1>6. a = [o \in Sem |-> a[o]] /\ asem \in Seq(Sem) /\ IsInjective(asem)
  BY <1>2, SemAssumption
<1>7. /\ a \in [Sem -> {"TA_NULL", "TA_TPRI", "TA_NOEXS"}]
      /\ \A o \in ToSet(asem) : a[o] = "TA_NOEXS"
  BY ONLY <1>5, <1>6, Attributes
<1>8. /\ DOMAIN e = SemFields \cup {"free_semcb", "wobjatr"} /\ e["free_semcb"] = asem
      /\ e["wobjatr"] = extend(j.wobjatr, a)
  BY <1>3 DEF SemFields
<1>9. "free_semcb" \in FreeLists \ G /\ ObjSet["free_semcb"] = Sem /\ Own(SemFields)
  BY DEF FreeLists, ObjSet, Own, SemFields, ObjFields, KernelFields
<1>10. PICK f, q : f = "free_semcb" /\ q = asem
  OBVIOUS
<1>11. AddsKind(j, G, f, q, a, SemFields, e)
  BY ONLY G \subseteq FreeLists, <1>6, <1>7, <1>8, <1>9, <1>10 DEF AddsKind
<1>12. Stage(r, G \cup {f}) /\ Added(j, r, f, SemFields)
  BY ONLY Stage(j, G), <1>4, <1>11, StageStep
<1> QED BY ONLY <1>10, <1>12

(* initialize_eventflag. *)
LEMMA StageFlg ==
  ASSUME NEW j, NEW G, G \subseteq FreeLists, Stage(j, G), "free_flgcb" \notin G,
         NEW r, r = initialize_eventflag(j)
  PROVE  /\ Stage(r, G \cup {"free_flgcb"}) /\ Added(j, r, "free_flgcb", FlgFields) /\ FType(r)
<1>1. PICK n : n = [o \in Flg |-> IF o \in ToSet(aflg)
                                  THEN [tpri |-> "TA_NOEXS", atr |-> {}, iflgptn |-> {}]
                                  ELSE flginib[o]]
  OBVIOUS
<1>2. PICK a : a = [o \in Flg |-> n[o].tpri]
  OBVIOUS
<1>3. PICK e : e = [wobjatr    |-> extend(j.wobjatr, a),
                    flgptn     |-> [o \in Flg |-> n[o].iflgptn],
                    iflgptn    |-> [o \in Flg |-> n[o].iflgptn],
                    flgatr     |-> [o \in Flg |-> n[o].atr],
                    free_flgcb |-> aflg]
  OBVIOUS
<1>4. r = extend(j, e)
  BY <1>1, <1>2, <1>3 DEF initialize_eventflag
<1>5. \A o \in Flg : a[o] \in IF o \in ToSet(aflg) THEN {"TA_NOEXS"} ELSE {"TA_NULL", "TA_TPRI"}
  BY <1>1, <1>2, FlgAssumption
<1>6. a = [o \in Flg |-> a[o]] /\ aflg \in Seq(Flg) /\ IsInjective(aflg)
  BY <1>2, FlgAssumption
<1>7. /\ a \in [Flg -> {"TA_NULL", "TA_TPRI", "TA_NOEXS"}]
      /\ \A o \in ToSet(aflg) : a[o] = "TA_NOEXS"
  BY ONLY <1>5, <1>6, Attributes
<1>8. /\ DOMAIN e = FlgFields \cup {"free_flgcb", "wobjatr"} /\ e["free_flgcb"] = aflg
      /\ e["wobjatr"] = extend(j.wobjatr, a)
  BY <1>3 DEF FlgFields
<1>9. "free_flgcb" \in FreeLists \ G /\ ObjSet["free_flgcb"] = Flg /\ Own(FlgFields)
  BY DEF FreeLists, ObjSet, Own, FlgFields, ObjFields, KernelFields
<1>10. PICK f, q : f = "free_flgcb" /\ q = aflg
  OBVIOUS
<1>11. AddsKind(j, G, f, q, a, FlgFields, e)
  BY ONLY G \subseteq FreeLists, <1>6, <1>7, <1>8, <1>9, <1>10 DEF AddsKind
<1>12. Stage(r, G \cup {f}) /\ Added(j, r, f, FlgFields)
  BY ONLY Stage(j, G), <1>4, <1>11, StageStep
<1>13. FType(r)
  <2>1. "flgptn" \in FlgFields /\ "flgptn" \in DOMAIN e /\ DOMAIN e["flgptn"] = Flg
    BY <1>3 DEF FlgFields
  <2>2. r["flgptn"] = e["flgptn"]
    BY ONLY <1>4, <2>1 DEF extend
  <2> QED BY ONLY <1>12, <2>1, <2>2 DEF FType, Added
<1> QED BY ONLY <1>10, <1>12, <1>13

(* initialize_dataqueue. *)
LEMMA StageDtq ==
  ASSUME NEW j, NEW G, G \subseteq FreeLists, Stage(j, G), "free_dtqcb" \notin G,
         NEW r, r = initialize_dataqueue(j)
  PROVE  /\ Stage(r, G \cup {"free_dtqcb"}) /\ Added(j, r, "free_dtqcb", DtqFields)
<1>1. PICK n : n = [o \in Dtq |-> IF o \in ToSet(adtq)
                                  THEN [dtqatr |-> "TA_NOEXS", dtqcnt |-> 0]
                                  ELSE dtqinib[o]]
  OBVIOUS
<1>2. PICK a : a = [o \in Dtq |-> n[o].dtqatr]
  OBVIOUS
<1>3. PICK e : e = [wobjatr    |-> extend(j.wobjatr, a),
                    dtqcnt     |-> [o \in Dtq |-> n[o].dtqcnt],
                    dtqmb      |-> [o \in Dtq |-> [i \in 0 .. n[o].dtqcnt - 1 |-> NULL]],
                    dtq        |-> [o \in Dtq |-> [count |-> 0, head |-> 0, tail |-> 0]],
                    free_dtqcb |-> adtq]
  OBVIOUS
<1>4. r = extend(j, e)
  BY <1>1, <1>2, <1>3 DEF initialize_dataqueue
<1>5. \A o \in Dtq : a[o] \in IF o \in ToSet(adtq) THEN {"TA_NOEXS"} ELSE {"TA_NULL", "TA_TPRI"}
  BY <1>1, <1>2, DtqAssumption
<1>6. a = [o \in Dtq |-> a[o]] /\ adtq \in Seq(Dtq) /\ IsInjective(adtq)
  BY <1>2, DtqAssumption
<1>7. /\ a \in [Dtq -> {"TA_NULL", "TA_TPRI", "TA_NOEXS"}]
      /\ \A o \in ToSet(adtq) : a[o] = "TA_NOEXS"
  BY ONLY <1>5, <1>6, Attributes
<1>8. /\ DOMAIN e = DtqFields \cup {"free_dtqcb", "wobjatr"} /\ e["free_dtqcb"] = adtq
      /\ e["wobjatr"] = extend(j.wobjatr, a)
  BY <1>3 DEF DtqFields
<1>9. "free_dtqcb" \in FreeLists \ G /\ ObjSet["free_dtqcb"] = Dtq /\ Own(DtqFields)
  BY DEF FreeLists, ObjSet, Own, DtqFields, ObjFields, KernelFields
<1>10. PICK f, q : f = "free_dtqcb" /\ q = adtq
  OBVIOUS
<1>11. AddsKind(j, G, f, q, a, DtqFields, e)
  BY ONLY G \subseteq FreeLists, <1>6, <1>7, <1>8, <1>9, <1>10 DEF AddsKind
<1>12. Stage(r, G \cup {f}) /\ Added(j, r, f, DtqFields)
  BY ONLY Stage(j, G), <1>4, <1>11, StageStep
<1> QED BY ONLY <1>10, <1>12

(* initialize_pridataq. *)
LEMMA StagePdq ==
  ASSUME NEW j, NEW G, G \subseteq FreeLists, Stage(j, G), "free_pdqcb" \notin G,
         NEW r, r = initialize_pridataq(j)
  PROVE  Stage(r, G \cup {"free_pdqcb"}) /\ Added(j, r, "free_pdqcb", PdqFields)
<1>1. PICK n : n = [o \in Pdq |-> IF o \in ToSet(apdq)
                                  THEN [pdqatr |-> "TA_NOEXS", pdqcnt |-> 0, maxdpri |-> 0]
                                  ELSE pdqinib[o]]
  OBVIOUS
<1>2. PICK a : a = [o \in Pdq |-> n[o].pdqatr]
  OBVIOUS
<1>3. PICK e : e = [wobjatr    |-> extend(j.wobjatr, a),
                    pdqcnt     |-> [o \in Pdq |-> n[o].pdqcnt],
                    maxdpri    |-> [o \in Pdq |-> n[o].maxdpri],
                    pdqmb      |-> [o \in Pdq |-> [b \in 0 .. n[o].pdqcnt - 1 |-> NULL]],
                    pdq        |-> [o \in Pdq |-> NoPdqData],
                    free_pdqcb |-> apdq]
  OBVIOUS
<1>4. r = extend(j, e)
  BY <1>1, <1>2, <1>3 DEF initialize_pridataq
<1>5. \A o \in Pdq : a[o] \in IF o \in ToSet(apdq) THEN {"TA_NOEXS"} ELSE {"TA_NULL", "TA_TPRI"}
  BY <1>1, <1>2, PdqAssumption
<1>6. a = [o \in Pdq |-> a[o]] /\ apdq \in Seq(Pdq) /\ IsInjective(apdq)
  BY <1>2, PdqAssumption
<1>7. /\ a \in [Pdq -> {"TA_NULL", "TA_TPRI", "TA_NOEXS"}]
      /\ \A o \in ToSet(apdq) : a[o] = "TA_NOEXS"
  BY ONLY <1>5, <1>6, Attributes
<1>8. /\ DOMAIN e = PdqFields \cup {"free_pdqcb", "wobjatr"} /\ e["free_pdqcb"] = apdq
      /\ e["wobjatr"] = extend(j.wobjatr, a)
  BY <1>3 DEF PdqFields
<1>9. "free_pdqcb" \in FreeLists \ G /\ ObjSet["free_pdqcb"] = Pdq /\ Own(PdqFields)
  BY DEF FreeLists, ObjSet, Own, PdqFields, ObjFields, KernelFields
<1>10. PICK f, q : f = "free_pdqcb" /\ q = apdq
  OBVIOUS
<1>11. AddsKind(j, G, f, q, a, PdqFields, e)
  BY ONLY G \subseteq FreeLists, <1>6, <1>7, <1>8, <1>9, <1>10 DEF AddsKind
<1>12. Stage(r, G \cup {f}) /\ Added(j, r, f, PdqFields)
  BY ONLY Stage(j, G), <1>4, <1>11, StageStep
<1> QED BY ONLY <1>10, <1>12

(* initialize_mailbox. *)
LEMMA StageMbx ==
  ASSUME NEW j, NEW G, G \subseteq FreeLists, Stage(j, G), "free_mbxcb" \notin G,
         NEW r, r = initialize_mailbox(j)
  PROVE  /\ Stage(r, G \cup {"free_mbxcb"}) /\ Added(j, r, "free_mbxcb", MbxFields)
<1>1. PICK n : n = [o \in Mbx |-> IF o \in ToSet(ambx)
                                  THEN [tpri |-> "TA_NOEXS", mpri |-> FALSE, maxmpri |-> 1]
                                  ELSE mbxinib[o]]
  OBVIOUS
<1>2. PICK a : a = [o \in Mbx |-> n[o].tpri]
  OBVIOUS
<1>3. PICK e : e = [wobjatr    |-> extend(j.wobjatr, a),
                    mpri       |-> [o \in Mbx |-> n[o].mpri],
                    maxmpri    |-> [o \in Mbx |-> n[o].maxmpri],
                    pk_head    |-> [o \in Mbx |-> NULL],
                    pk_last    |-> [o \in Mbx |-> NULL],
                    pk_next    |-> [m \in Msg |-> NULL],
                    free_mbxcb |-> ambx]
  OBVIOUS
<1>4. r = extend(j, e)
  BY <1>1, <1>2, <1>3 DEF initialize_mailbox
<1>5. \A o \in Mbx : a[o] \in IF o \in ToSet(ambx) THEN {"TA_NOEXS"} ELSE {"TA_NULL", "TA_TPRI"}
  BY <1>1, <1>2, MbxAssumption
<1>6. a = [o \in Mbx |-> a[o]] /\ ambx \in Seq(Mbx) /\ IsInjective(ambx)
  BY <1>2, MbxAssumption
<1>7. /\ a \in [Mbx -> {"TA_NULL", "TA_TPRI", "TA_NOEXS"}]
      /\ \A o \in ToSet(ambx) : a[o] = "TA_NOEXS"
  BY ONLY <1>5, <1>6, Attributes
<1>8. /\ DOMAIN e = MbxFields \cup {"free_mbxcb", "wobjatr"} /\ e["free_mbxcb"] = ambx
      /\ e["wobjatr"] = extend(j.wobjatr, a)
  BY <1>3 DEF MbxFields
<1>9. "free_mbxcb" \in FreeLists \ G /\ ObjSet["free_mbxcb"] = Mbx /\ Own(MbxFields)
  BY DEF FreeLists, ObjSet, Own, MbxFields, ObjFields, KernelFields
<1>10. PICK f, q : f = "free_mbxcb" /\ q = ambx
  OBVIOUS
<1>11. AddsKind(j, G, f, q, a, MbxFields, e)
  BY ONLY G \subseteq FreeLists, <1>6, <1>7, <1>8, <1>9, <1>10 DEF AddsKind
<1>12. Stage(r, G \cup {f}) /\ Added(j, r, f, MbxFields)
  BY ONLY Stage(j, G), <1>4, <1>11, StageStep
<1> QED BY ONLY <1>10, <1>12

(* initialize_mempfix. *)
LEMMA StageMpf ==
  ASSUME NEW j, NEW G, G \subseteq FreeLists, Stage(j, G), "free_mpfcb" \notin G,
         NEW r, r = initialize_mempfix(j)
  PROVE  /\ Stage(r, G \cup {"free_mpfcb"}) /\ Added(j, r, "free_mpfcb", MpfFields)
<1>1. PICK n : n = [o \in Mpf |-> IF o \in ToSet(ampf)
                                  THEN [mpfatr |-> "TA_NOEXS", blkcnt |-> 0]
                                  ELSE mpfinib[o]]
  OBVIOUS
<1>2. PICK a : a = [o \in Mpf |-> n[o].mpfatr]
  OBVIOUS
<1>3. PICK e : e = [wobjatr    |-> extend(j.wobjatr, a),
                    blkcnt     |-> [o \in Mpf |-> n[o].blkcnt],
                    mpfmb      |-> [o \in Mpf |-> [b \in 0 .. n[o].blkcnt - 1 |-> INDEX_NULL]],
                    mpf        |-> [o \in Mpf |-> NewPool(n[o].blkcnt)],
                    free_mpfcb |-> ampf]
  OBVIOUS
<1>4. r = extend(j, e)
  BY <1>1, <1>2, <1>3 DEF initialize_mempfix
<1>5. \A o \in Mpf : a[o] \in IF o \in ToSet(ampf) THEN {"TA_NOEXS"} ELSE {"TA_NULL", "TA_TPRI"}
  BY <1>1, <1>2, MpfAssumption
<1>6. a = [o \in Mpf |-> a[o]] /\ ampf \in Seq(Mpf) /\ IsInjective(ampf)
  BY <1>2, MpfAssumption
<1>7. /\ a \in [Mpf -> {"TA_NULL", "TA_TPRI", "TA_NOEXS"}]
      /\ \A o \in ToSet(ampf) : a[o] = "TA_NOEXS"
  BY ONLY <1>5, <1>6, Attributes
<1>8. /\ DOMAIN e = MpfFields \cup {"free_mpfcb", "wobjatr"} /\ e["free_mpfcb"] = ampf
      /\ e["wobjatr"] = extend(j.wobjatr, a)
  BY <1>3 DEF MpfFields
<1>9. "free_mpfcb" \in FreeLists \ G /\ ObjSet["free_mpfcb"] = Mpf /\ Own(MpfFields)
  BY DEF FreeLists, ObjSet, Own, MpfFields, ObjFields, KernelFields
<1>10. PICK f, q : f = "free_mpfcb" /\ q = ampf
  OBVIOUS
<1>11. AddsKind(j, G, f, q, a, MpfFields, e)
  BY ONLY G \subseteq FreeLists, <1>6, <1>7, <1>8, <1>9, <1>10 DEF AddsKind
<1>12. Stage(r, G \cup {f}) /\ Added(j, r, f, MpfFields)
  BY ONLY Stage(j, G), <1>4, <1>11, StageStep
<1> QED BY ONLY <1>10, <1>12

(* A field that is not of this kind stays, and so do the patterns. *)
LEMMA AddedFType ==
  ASSUME NEW j, NEW r, NEW f \in FreeLists, NEW F, "flgptn" \notin F, Added(j, r, f, F), FType(j)
  PROVE  FType(r)
<1>1. "flgptn" \in DOMAIN j \ (F \cup {f, "wobjatr"})
  BY DEF FType, FreeLists
<1>2. r["flgptn"] = j["flgptn"] /\ "flgptn" \in DOMAIN r
  BY ONLY <1>1, Added(j, r, f, F) DEF Added
<1> QED BY ONLY <1>2, FType(j) DEF FType

(* initialize_winfo, and the objects of no kind yet. *)
LEMMA StageNone ==
  ASSUME NEW x, x = initialize_winfo(KInit)
  PROVE  Stage(x, {})
<1>1. PICK e : e = [winfo_data |-> [t \in Task |-> NULL]]
  OBVIOUS
<1>2. DOMAIN e = {"winfo_data"} /\ DOMAIN e["winfo_data"] = Task
  BY <1>1
<1>3. x = extend(KInit, e)
  BY <1>1 DEF initialize_winfo
<1>4. DOMAIN KInit = KernelFields
  BY DEF KInit, KernelFields
<1>5. PICK i : i = KInit
  OBVIOUS
<1>6. "winfo_data" \notin KernelFields /\ "wobjatr" \in KernelFields
  BY DEF KernelFields
<1>7. /\ DOMAIN x = KernelFields \cup {"winfo_data"}
      /\ x["winfo_data"] = e["winfo_data"] /\ \A f \in KernelFields : x[f] = i[f]
  BY ONLY <1>2, <1>3, <1>4, <1>5, <1>6 DEF extend
<1>8. InitFields(x) /\ WType(x)
  BY ONLY <1>2, <1>5, <1>7 DEF InitFields, WType
<1>9. i["wobjatr"] = [o \in Wobj |-> "TA_NULL"]
  BY <1>5 DEF KInit
<1>10. RwaitSet \subseteq Wobj
  BY RwaitAssumption DEF RwaitSet
<1> QED BY ONLY <1>6, <1>7, <1>8, <1>9, <1>10 DEF Stage

(* All the kinds of objects. *)
LEMMA StageAll ==
  ASSUME NEW x, x = initialize_objects
  PROVE  Stage(x, FreeLists) /\ FType(x)
<1>1. PICK x0 : x0 = initialize_winfo(KInit)
  OBVIOUS
<1>2. PICK x1 : x1 = initialize_semaphore(x0)
  OBVIOUS
<1>3. PICK x2 : x2 = initialize_eventflag(x1)
  OBVIOUS
<1>4. PICK x3 : x3 = initialize_dataqueue(x2)
  OBVIOUS
<1>5. PICK x4 : x4 = initialize_pridataq(x3)
  OBVIOUS
<1>6. PICK x5 : x5 = initialize_mailbox(x4)
  OBVIOUS
<1>7. x = initialize_mempfix(x5)
  BY ONLY x = initialize_objects, <1>1, <1>2, <1>3, <1>4, <1>5, <1>6 DEF initialize_objects
<1>8. Stage(x0, {})
  BY <1>1, StageNone
<1>9. PICK G1 : G1 = {} \cup {"free_semcb"}
  OBVIOUS
<1>10. PICK G2 : G2 = G1 \cup {"free_flgcb"}
  OBVIOUS
<1>11. PICK G3 : G3 = G2 \cup {"free_dtqcb"}
  OBVIOUS
<1>12. PICK G4 : G4 = G3 \cup {"free_pdqcb"}
  OBVIOUS
<1>13. PICK G5 : G5 = G4 \cup {"free_mbxcb"}
  OBVIOUS
<1>14. /\ G1 \subseteq FreeLists /\ "free_flgcb" \notin G1
       /\ G2 \subseteq FreeLists /\ "free_dtqcb" \notin G2
       /\ G3 \subseteq FreeLists /\ "free_pdqcb" \notin G3
       /\ G4 \subseteq FreeLists /\ "free_mbxcb" \notin G4
       /\ G5 \subseteq FreeLists /\ "free_mpfcb" \notin G5
       /\ G5 \cup {"free_mpfcb"} = FreeLists
  BY <1>9, <1>10, <1>11, <1>12, <1>13 DEF FreeLists
<1>15. Stage(x1, G1)
  <2>1. {} \subseteq FreeLists /\ "free_semcb" \notin {}
    OBVIOUS
  <2> QED BY ONLY <1>2, <1>8, <1>9, <2>1, StageSem
<1>16. Stage(x2, G2) /\ FType(x2)
  BY ONLY <1>3, <1>10, <1>14, <1>15, StageFlg
<1>17. /\ "flgptn" \notin DtqFields /\ "flgptn" \notin PdqFields /\ "flgptn" \notin MbxFields
       /\ "flgptn" \notin MpfFields
       /\ \A f \in {"free_dtqcb", "free_pdqcb", "free_mbxcb", "free_mpfcb"} : f \in FreeLists
  BY DEF DtqFields, PdqFields, MbxFields, MpfFields, FreeLists
<1>18. Stage(x3, G3) /\ FType(x3)
  <2>1. Stage(x3, G3) /\ Added(x2, x3, "free_dtqcb", DtqFields)
    BY ONLY <1>4, <1>11, <1>14, <1>16, StageDtq
  <2> QED BY ONLY <1>16, <1>17, <2>1, AddedFType
<1>19. Stage(x4, G4) /\ FType(x4)
  <2>1. Stage(x4, G4) /\ Added(x3, x4, "free_pdqcb", PdqFields)
    BY ONLY <1>5, <1>12, <1>14, <1>18, StagePdq
  <2> QED BY ONLY <1>17, <1>18, <2>1, AddedFType
<1>20. Stage(x5, G5) /\ FType(x5)
  <2>1. Stage(x5, G5) /\ Added(x4, x5, "free_mbxcb", MbxFields)
    BY ONLY <1>6, <1>13, <1>14, <1>19, StageMbx
  <2> QED BY ONLY <1>17, <1>19, <2>1, AddedFType
<1>21. Stage(x, FreeLists) /\ FType(x)
  <2>1. Stage(x, FreeLists) /\ Added(x5, x, "free_mpfcb", MpfFields)
    BY ONLY <1>7, <1>14, <1>20, StageMpf
  <2> QED BY ONLY <1>17, <1>20, <2>1, AddedFType
<1> QED BY <1>21

(* Nobody waits when the kernel starts. *)
LEMMA StageInv ==
  ASSUME NEW x, Stage(x, FreeLists), FType(x)
  PROVE  ObjInv(x) /\ FInv(x)
<1>1. InitFields(x) /\ WType(x)
  BY DEF Stage
<1>2. IInv(x)
  BY <1>1, InitFieldsIInv
<1>3. /\ x.tstat = [t \in Task |-> {}] /\ x.priority = tinib_pri
      /\ x.p_wobjcb = [t \in Task |-> NULL] /\ x.wait_queue = [o \in Wobj |-> <<>>]
      /\ x.mutex_queue = [t \in Task |-> <<>>]
  BY <1>1 DEF InitFields, KInit, KernelFields, TS_DORMANT
<1>4. QType(x)
  <2>1. QFields \subseteq DOMAIN x
    BY DEF Stage, InitFields, KernelFields, QFields
  <2>2. x.wait_queue \in [Wobj -> Seq(Task)]
    BY <1>3
  <2>3. /\ x.tstat \in [Task -> SUBSET TstatFlag] /\ x.priority \in [Task -> TPRI]
        /\ x.p_wobjcb \in [Task -> Wobj \cup {NULL}]
    BY <1>3, TableAssumption
  <2> QED BY <1>3, <2>1, <2>2, <2>3 DEF QType, Stage
<1>5. \A o \in Wobj, t \in Task : ~In(x.wait_queue[o], t)
  BY <1>3 DEF In
<1>6. \A t \in Task : ~AtWobj(x.tstat[t])
  BY <1>3 DEF AtWobj
<1>7. \A o \in Wobj : Distinct(x.wait_queue[o]) /\ Ordered(x.wait_queue[o], x.priority)
  BY <1>3 DEF Distinct, Ordered
<1>8. QueuesOK(x, {})
  BY <1>3, <1>5, <1>6, <1>7 DEF QueuesOK
<1>9. AtrOK(x)
  BY DEF Stage, AtrOK
<1>10. QOK(x)
  BY <1>4, <1>6, <1>8, <1>9 DEF QOK, QInv, KindOK
<1>11. Flg \subseteq Wobj
  BY FlgAssumption
<1> QED BY <1>1, <1>2, <1>5, <1>10, <1>11 DEF ObjInv, FInv

(* Every initial state satisfies the invariant. *)
LEMMA InitInv ==
  ASSUME InitObjects
  PROVE  ObjInv(k) /\ FInv(k)
<1>1. PICK p \in Program : k = extend(initialize_objects, [program |-> p])
  BY DEF InitObjects
<1>2. PICK x : x = initialize_objects
  OBVIOUS
<1>3. PICK e : e = [program |-> p]
  OBVIOUS
<1>4. DOMAIN e = {"program"} /\ k = extend(x, e)
  BY <1>1, <1>2, <1>3
<1>5. Stage(x, FreeLists) /\ FType(x)
  BY <1>2, StageAll
<1>6. DOMAIN k = DOMAIN x \cup {"program"} /\ \A f \in DOMAIN x \ {"program"} : k[f] = x[f]
  BY ONLY <1>4 DEF extend
<1>7. "program" \notin KernelFields \cup FreeLists \cup {"winfo_data", "flgptn"}
  BY DEF KernelFields, FreeLists
<1>8. \A f \in KernelFields \cup FreeLists \cup {"winfo_data", "flgptn"} :
        f \in DOMAIN x /\ f \in DOMAIN k /\ k[f] = x[f]
  BY <1>5, <1>6, <1>7 DEF Stage, InitFields, WType, FType
<1>9. k.wobjatr = x.wobjatr /\ k.winfo_data = x.winfo_data /\ k.flgptn = x.flgptn
  BY <1>8 DEF KernelFields
<1>10. InitFields(k)
  BY <1>5, <1>8 DEF Stage, InitFields
<1>11. WType(k) /\ FType(k)
  BY <1>5, <1>8, <1>9 DEF Stage, WType, FType
<1>12. \A f \in FreeLists : f \in DOMAIN k /\ k[f] = x[f]
  BY <1>8
<1>13. Stage(k, FreeLists)
  BY <1>5, <1>9, <1>10, <1>11, <1>12 DEF Stage
<1> QED BY <1>11, <1>13, StageInv

(* Every step keeps it: the calls on tasks, and those on each kind. *)
LEMMA NextInv ==
  ASSUME ObjInv(k), FInv(k), [NextObjects]_k
  PROVE  ObjInv(k') /\ FInv(k')
<1>1. /\ "flgptn" \notin {} /\ "flgptn" \notin SemFields /\ "flgptn" \notin DtqFields
      /\ "flgptn" \notin PdqFields /\ "flgptn" \notin MbxFields /\ "flgptn" \notin MpfFields
  BY DEF SemFields, DtqFields, PdqFields, MbxFields, MpfFields
<1>2. CASE k' = k
  BY ONLY <1>2, ObjInv(k), FInv(k)
<1>3. CASE TaskCalls
  BY <1>1, <1>3, TaskInv, FKeeps
<1>4. CASE SemCalls
  BY <1>1, <1>4, SemInv, FKeeps
<1>5. CASE FlgCalls
  BY <1>5, FlgInv DEF FlgKept
<1>6. CASE DtqCalls
  BY <1>1, <1>6, DtqInv, FKeeps
<1>7. CASE PdqCalls
  BY <1>1, <1>7, PdqInv, FKeeps
<1>8. CASE MbxCalls
  BY <1>1, <1>8, MbxInv, FKeeps
<1>9. CASE MpfCalls
  BY <1>1, <1>9, MpfInv, FKeeps
<1>10. NextObjects \/ k' = k
  OBVIOUS
<1> QED BY ONLY <1>2, <1>3, <1>4, <1>5, <1>6, <1>7, <1>8, <1>9, <1>10 DEF NextObjects

-----------------------------------------------------------------------------
(* The inductive invariant: the tables of the task part, the wait queues   *)
(* and free lists of the objects, and the conditions of the tasks that     *)
(* wait for event flags.                                                   *)
THEOREM ObjectsInvariant == SpecObjects => [](ObjInv(k) /\ FInv(k))
<1>1. InitObjects => ObjInv(k) /\ FInv(k)
  BY InitInv
<1>2. ObjInv(k) /\ FInv(k) /\ [NextObjects]_k => (ObjInv(k) /\ FInv(k))'
  <2>1. ASSUME ObjInv(k), FInv(k), [NextObjects]_k
        PROVE  ObjInv(k') /\ FInv(k')
    BY <2>1, NextInv
  <2> QED BY <2>1
<1> QED BY <1>1, <1>2, PTL DEF SpecObjects

(* The task part of the kernel stays consistent under the calls on all     *)
(* kinds of objects: the ready queue is in order, no dispatch is lost, the *)
(* running task is runnable, and every time event block and WINFO matches  *)
(* the state of its task, though one call releases several tasks.          *)
THEOREM ObjectsKernel == SpecObjects => []KernelInv
<1>1. ObjInv(k) => KernelInv
  BY IInvSched, IInvDispatch, IInvRunning, IInvWinfo DEF ObjInv, KernelInv
<1> QED BY <1>1, ObjectsInvariant, PTL

(* The wait queues of an object hold exactly the tasks that wait there,    *)
(* each once and in the order the attribute asks for, and only while the   *)
(* object exists: no timeout, rel_wai, ter_tsk, chg_pri, initialization or *)
(* deletion leaves a task in a queue, or waiting outside of one.           *)
THEOREM ObjectsWaitQueues == SpecObjects => []WobjQueueOK
<1>1. ObjInv(k) => WobjQueueOK
  <2> SUFFICES ASSUME ObjInv(k), NEW o \in Wobj, NEW q, q = k.wait_queue[o]
               PROVE  /\ \A t \in Task : t \in ToSet(q)
                           <=> TSTAT_WAITING(k, t) /\ TSTAT_WAIT_WOBJ(k, t) /\ k.p_wobjcb[t] = o
                      /\ IsInjective(q)
                      /\ q # <<>> => obj_exists(o)
                           /\ o \notin {rwait[r] : r \in {s \in DOMAIN rwait : ~obj_exists(s)}}
                      /\ TA_TPRI(k, o) => \A i, j \in 1 .. Len(q) :
                              i < j => k.priority[q[i]] <= k.priority[q[j]]
    BY DEF WobjQueueOK
  <2>1. QType(k) /\ QueuesOK(k, {}) /\ \A t \in Task : KindOK(k.tstat[t], k.p_wobjcb[t])
    BY DEF ObjInv, QOK, QInv
  <2>2. q \in Seq(Task)
    BY <2>1 DEF QType
  <2>3. /\ Distinct(q) /\ \A t \in Task : In(q, t) <=> AtWobj(k.tstat[t]) /\ k.p_wobjcb[t] = o
    BY <2>1 DEF QueuesOK
  <2>4. TA_TPRI(k, o) => Ordered(q, k.priority)
    BY <2>1 DEF QueuesOK
  <2>5. \A t \in Task : t \in ToSet(q) <=> In(q, t)
    BY <2>2 DEF ToSet, In
  <2>6. IsInjective(q)
    BY <2>2, <2>3 DEF IsInjective, Distinct
  <2>7. \A t \in Task : AtWobj(k.tstat[t]) <=> TSTAT_WAITING(k, t) /\ TSTAT_WAIT_WOBJ(k, t)
    BY <2>1 DEF AtWobj, KindOK, TSTAT_WAITING, TSTAT_WAIT, TSTAT_WAIT_WOBJ
  <2>8. TA_TPRI(k, o) => \A i, j \in 1 .. Len(q) :
                           i < j => k.priority[q[i]] <= k.priority[q[j]]
    BY <2>4 DEF Ordered
  <2>9. q # <<>> => obj_exists(o)
                      /\ o \notin {rwait[r] : r \in {s \in DOMAIN rwait : ~obj_exists(s)}}
    BY <2>1 DEF QueuesOK, Usable, obj_exists
  <2> QED BY <2>3, <2>5, <2>6, <2>7, <2>8, <2>9
<1> QED BY <1>1, ObjectsInvariant, PTL

(* No task waits for a condition its event flag meets, for any number of   *)
(* waiting tasks, patterns and bits: the walk of set_flg over the queue,   *)
(* from which it removes tasks while TA_CLR clears the flag, skips nobody. *)
THEOREM ObjectsNoMissedFlag == SpecObjects => []NoMissedFlag
<1>1. ObjInv(k) /\ FInv(k) => NoMissedFlag
  <2> SUFFICES ASSUME ObjInv(k), FInv(k), NEW o \in Flg, NEW t \in ToSet(k.wait_queue[o])
               PROVE  ~check_flg_cond(k, o, k.winfo_data[t].waiptn, k.winfo_data[t].wfmode)
    BY DEF NoMissedFlag
  <2>1. o \in Wobj
    BY FlgAssumption
  <2>2. k.wait_queue[o] \in Seq(Task)
    BY <2>1 DEF ObjInv, QOK, QInv, QType
  <2>3. t \in Task /\ In(k.wait_queue[o], t)
    BY <2>2 DEF ToSet, In
  <2>4. Unmet(k, o, t)
    BY <2>3 DEF FInv
  <2> QED BY <2>4 DEF Unmet, check_flg_cond
<1> QED BY <1>1, ObjectsInvariant, PTL

-----------------------------------------------------------------------------
(***************************************************************************)
(* The blocks of the priority data queues.                                 *)
(***************************************************************************)

(* The two lists h and q share the blocks below u. *)
Shared(h, q, u) ==
  /\ h \in Seq(Nat) /\ q \in Seq(Nat) /\ u \in Nat /\ Distinct(h) /\ Distinct(q)
  /\ Len(h) + Len(q) = u
  /\ \A b \in Nat : b < u <=> In(h, b) \/ In(q, b)
  /\ \A b \in Nat : ~(In(h, b) /\ In(q, b))

(* The management block d of a queue with n blocks. *)
BlocksOK(d, n) ==
  /\ DOMAIN d = {"count", "p_head", "unused", "p_freelist"}
  /\ Shared(d.p_head, d.p_freelist, d.unused) /\ d.count = Len(d.p_head) /\ d.unused <= n

PType(x) ==
  /\ {"pdq", "pdqcnt"} \subseteq DOMAIN x /\ DOMAIN x.pdq = Pdq /\ x.pdqcnt \in [Pdq -> Nat]

PInv(x) == PType(x) /\ \A o \in Pdq : BlocksOK(x.pdq[o], x.pdqcnt[o])

(* a is q with the entry e added. *)
OneMore(S, q, e, a) ==
  /\ a \in Seq(S) /\ Len(a) = Len(q) + 1 /\ Distinct(a)
  /\ \A x \in S : In(a, x) <=> In(q, x) \/ x = e

(* InsertAt adds one entry. *)
LEMMA EntryAdded ==
  ASSUME NEW S, NEW q \in Seq(S), Distinct(q), NEW e \in S, ~In(q, e),
         NEW p \in 1 .. Len(q) + 1, NEW a, a = InsertAt(q, p, e)
  PROVE  OneMore(S, q, e, a)
<1>1. a = SubSeq(q, 1, p - 1) \o <<e>> \o SubSeq(q, p, Len(q))
  BY DEF InsertAt
<1>2. a \in Seq(S) /\ InsertedAt(q, e, p, a)
  BY <1>1, SplitInsert
<1>3. Distinct(a) /\ \A x \in S : In(a, x) <=> In(q, x) \/ x = e
  BY ONLY <1>2, q \in Seq(S), Distinct(q), e \in S, ~In(q, e), Inserted
<1> QED BY <1>2, <1>3 DEF InsertedAt, OneMore

(* A block of the free list is linked into the list of data. *)
LEMMA SharedReuse ==
  ASSUME NEW h, NEW q, NEW u, Shared(h, q, u), q # <<>>, NEW p \in 1 .. Len(h) + 1
  PROVE  Shared(InsertAt(h, p, Head(q)), Tail(q), u) /\ Len(InsertAt(h, p, Head(q))) = Len(h) + 1
<1>1. PICK a : a = InsertAt(h, p, Head(q))
  OBVIOUS
<1>2. PICK e, t : e = Head(q) /\ t = Tail(q)
  OBVIOUS
<1>3. h \in Seq(Nat) /\ q \in Seq(Nat) /\ u \in Nat /\ Distinct(h) /\ Distinct(q)
  BY DEF Shared
<1>4. /\ e \in Nat /\ In(q, e) /\ t \in Seq(Nat) /\ Distinct(t) /\ Len(t) = Len(q) - 1
      /\ \A x \in Nat : In(t, x) <=> In(q, x) /\ x # e
  BY ONLY <1>2, <1>3, q # <<>>, HeadTaken
<1>7. ~In(h, e)
  BY <1>4 DEF Shared
<1>8. /\ a \in Seq(Nat) /\ Len(a) = Len(h) + 1 /\ Distinct(a)
      /\ \A x \in Nat : In(a, x) <=> In(h, x) \/ x = e
  <2>1. a = InsertAt(h, p, e) /\ e \in Nat
    BY <1>1, <1>2, <1>4
  <2>2. OneMore(Nat, h, e, a)
    BY ONLY <1>3, <1>7, <2>1, p \in 1 .. Len(h) + 1, EntryAdded
  <2> QED BY <2>2 DEF OneMore
<1>10. Len(a) + Len(t) = u
  <2>1. Len(h) + Len(q) = u /\ Len(h) \in Nat /\ Len(q) \in Nat
    BY <1>3 DEF Shared
  <2> QED BY ONLY <1>4, <1>8, <2>1
<1>11. Shared(a, t, u)
  BY <1>3, <1>4, <1>8, <1>10 DEF Shared
<1> QED BY <1>1, <1>2, <1>8, <1>11

(* The first unused block is linked into the list of data. *)
LEMMA SharedFresh ==
  ASSUME NEW h, NEW u, Shared(h, <<>>, u), NEW p \in 1 .. Len(h) + 1
  PROVE  Shared(InsertAt(h, p, u), <<>>, u + 1) /\ Len(InsertAt(h, p, u)) = Len(h) + 1
<1>1. PICK a : a = InsertAt(h, p, u)
  OBVIOUS
<1>2. PICK q : q = <<>>
  OBVIOUS
<1>3. h \in Seq(Nat) /\ u \in Nat /\ Distinct(h) /\ Len(h) = u
  BY DEF Shared
<1>4. q \in Seq(Nat) /\ Distinct(q) /\ Len(q) = 0 /\ \A x : ~In(q, x)
  BY <1>2 DEF Distinct, In
<1>7. \A b \in Nat : b < u <=> In(h, b)
  BY <1>2, <1>4 DEF Shared
<1>8. ~In(h, u)
  BY <1>3, <1>7
<1>9. /\ a \in Seq(Nat) /\ Len(a) = Len(h) + 1 /\ Distinct(a)
      /\ \A x \in Nat : In(a, x) <=> In(h, x) \/ x = u
  <2>1. OneMore(Nat, h, u, a)
    BY ONLY <1>1, <1>3, <1>8, p \in 1 .. Len(h) + 1, EntryAdded
  <2> QED BY <2>1 DEF OneMore
<1>11. \A b \in Nat : b < u + 1 <=> In(a, b)
  BY ONLY <1>3, <1>7, <1>9
<1>12. Len(a) + Len(q) = u + 1 /\ u + 1 \in Nat
  BY ONLY <1>3, <1>4, <1>9
<1>13. Shared(a, q, u + 1)
  BY <1>4, <1>9, <1>11, <1>12 DEF Shared
<1> QED BY <1>1, <1>2, <1>9, <1>13

(* The block of the first datum goes to the free list. *)
LEMMA SharedFreed ==
  ASSUME NEW h, NEW q, NEW u, Shared(h, q, u), h # <<>>
  PROVE  /\ Shared(Tail(h), <<Head(h)>> \o q, u) /\ Len(Tail(h)) = Len(h) - 1
         /\ <<Head(h)>> \o q # <<>>
<1>1. PICK e, t : e = Head(h) /\ t = Tail(h)
  OBVIOUS
<1>2. h \in Seq(Nat) /\ q \in Seq(Nat) /\ u \in Nat /\ Distinct(h) /\ Distinct(q)
  BY DEF Shared
<1>3. /\ e \in Nat /\ In(h, e) /\ t \in Seq(Nat) /\ Distinct(t) /\ Len(t) = Len(h) - 1
      /\ \A x \in Nat : In(t, x) <=> In(h, x) /\ x # e
  BY ONLY <1>1, <1>2, h # <<>>, HeadTaken
<1>4. PICK a : a = <<e>> \o q
  OBVIOUS
<1>5. ~In(q, e)
  BY <1>3 DEF Shared
<1>6. a \in Seq(Nat) /\ InsertedAt(q, e, 1, a)
  <2>1. /\ a \in Seq(Nat) /\ Len(a) = 1 + Len(q)
        /\ \A i \in 1 .. 1 + Len(q) : a[i] = IF i <= 1 THEN <<e>>[i] ELSE q[i - 1]
    <3>1. PICK s : s = <<e>>
      OBVIOUS
    <3>2. s \in Seq(Nat) /\ Len(s) = 1 /\ s[1] = e
      BY <1>3, <3>1
    <3> QED BY <1>2, <1>4, <3>1, <3>2, ConcatProperties
  <2>2. Len(q) \in Nat
    BY <1>2
  <2> QED BY <2>1, <2>2 DEF InsertedAt
<1>7. Distinct(a) /\ \A x \in Nat : In(a, x) <=> In(q, x) \/ x = e
  BY ONLY <1>2, <1>3, <1>5, <1>6, Inserted
<1>8. Len(a) = Len(q) + 1 /\ a # <<>>
  <2>1. Len(a) = Len(q) + 1 /\ Len(q) \in Nat
    BY <1>2, <1>6 DEF InsertedAt
  <2> QED BY <2>1
<1>9. Len(t) + Len(a) = u
  <2>1. Len(h) + Len(q) = u /\ Len(h) \in Nat /\ Len(q) \in Nat
    BY <1>2 DEF Shared
  <2> QED BY ONLY <1>3, <1>8, <2>1
<1>10. Shared(t, a, u)
  BY <1>2, <1>3, <1>6, <1>7, <1>9 DEF Shared
<1> QED BY <1>1, <1>3, <1>4, <1>8, <1>10

(* place is a position of the list, or the one after its end. *)
LEMMA Place ==
  ASSUME NEW x, NEW o, x.pdq[o].p_head \in Seq(Nat), NEW pri
  PROVE  place(x, o, pri) \in 1 .. Len(x.pdq[o].p_head) + 1
<1> DEFINE q     == x.pdq[o].p_head
           later == {i \in 1 .. Len(q) : x.pdqmb[o][q[i]].pri > pri}
           p     == IF later = {} THEN Len(q) + 1 ELSE CHOOSE i \in later : \A j \in later : i <= j
<1>1. place(x, o, pri) = p
  BY DEF place
<1>2. later \subseteq 1 .. Len(q) /\ Len(q) \in Nat
  OBVIOUS
<1>3. /\ later = {} => p = Len(q) + 1
      /\ (\E i \in later : \A j \in later : i <= j) => p \in later
  BY <1>2
<1> HIDE DEF p, later, q
<1>4. later \in SUBSET Nat
  BY ONLY <1>2
<1>5. p \in 1 .. Len(q) + 1
  <2>1. CASE later = {}
    BY ONLY <1>2, <1>3, <2>1
  <2>2. CASE later # {}
    <3>1. \E i \in later : \A j \in later : i <= j
      BY ONLY <1>4, <2>2, LeastPriority
    <3>2. p \in later
      BY ONLY <1>3, <3>1
    <3> QED BY ONLY <1>2, <3>2
  <2> QED BY <2>1, <2>2
<1> QED BY <1>1, <1>5 DEF q

(* enqueue_pridata finds a block. *)
LEMMA PridataAdded ==
  ASSUME NEW x, PInv(x), NEW o \in Pdq, NEW d,
         x.pdq[o].count < x.pdqcnt[o] \/ x.pdq[o].p_freelist # <<>>,
         NEW r, r = enqueue_pridata(x, o, d)
  PROVE  PInv(r) /\ Frame(x, r, {"pdq", "pdqmb"})
<1>1. PICK c : c = x.pdq[o]
  OBVIOUS
<1>2. PICK n \in Nat : n = x.pdqcnt[o]
  BY DEF PInv, PType
<1>3. PICK p : p = place(x, o, d.pri)
  OBVIOUS
<1>4. BlocksOK(c, n)
  BY <1>1, <1>2 DEF PInv
<1>5. /\ c.p_head \in Seq(Nat) /\ c.p_freelist \in Seq(Nat) /\ c.unused \in Nat
      /\ Len(c.p_head) \in Nat
  BY <1>4 DEF BlocksOK, Shared
<1>6. p \in 1 .. Len(c.p_head) + 1
  BY <1>1, <1>3, <1>5, Place
<1>7. PICK e : e = IF c.p_freelist # <<>>
                   THEN [count |-> c.count + 1, p_head |-> InsertAt(c.p_head, p, Head(c.p_freelist)),
                         unused |-> c.unused, p_freelist |-> Tail(c.p_freelist)]
                   ELSE [count |-> c.count + 1, p_head |-> InsertAt(c.p_head, p, c.unused),
                         unused |-> c.unused + 1, p_freelist |-> <<>>]
  OBVIOUS
<1>8. BlocksOK(e, n)
  <2>1. CASE c.p_freelist # <<>>
    <3>1. /\ Shared(InsertAt(c.p_head, p, Head(c.p_freelist)), Tail(c.p_freelist), c.unused)
          /\ Len(InsertAt(c.p_head, p, Head(c.p_freelist))) = Len(c.p_head) + 1
      BY ONLY <1>4, <1>6, <2>1, SharedReuse DEF BlocksOK
    <3>2. /\ e.count = c.count + 1 /\ e.p_head = InsertAt(c.p_head, p, Head(c.p_freelist))
          /\ e.unused = c.unused /\ e.p_freelist = Tail(c.p_freelist)
          /\ DOMAIN e = {"count", "p_head", "unused", "p_freelist"}
      BY ONLY <1>7, <2>1
    <3>3. c.count = Len(c.p_head) /\ c.unused <= n
      BY <1>4 DEF BlocksOK
    <3> QED BY ONLY <3>1, <3>2, <3>3 DEF BlocksOK
  <2>2. CASE c.p_freelist = <<>>
    <3>1. Shared(c.p_head, <<>>, c.unused) /\ c.count = Len(c.p_head)
      BY ONLY <1>4, <2>2 DEF BlocksOK
    <3>2. /\ Shared(InsertAt(c.p_head, p, c.unused), <<>>, c.unused + 1)
          /\ Len(InsertAt(c.p_head, p, c.unused)) = Len(c.p_head) + 1
      BY ONLY <1>6, <3>1, SharedFresh
    <3>3. /\ e.count = c.count + 1 /\ e.p_head = InsertAt(c.p_head, p, c.unused)
          /\ e.unused = c.unused + 1 /\ e.p_freelist = <<>>
          /\ DOMAIN e = {"count", "p_head", "unused", "p_freelist"}
      BY ONLY <1>7, <2>2
    <3>4. c.unused = c.count
      BY <1>5, <3>1 DEF Shared
    <3>5. c.count < n
      BY <1>1, <1>2, <2>2
    <3>6. c.unused + 1 <= n
      BY ONLY <1>2, <1>5, <3>4, <3>5
    <3> QED BY ONLY <3>1, <3>2, <3>3, <3>6 DEF BlocksOK
  <2> QED BY <2>1, <2>2
<1>9. PICK b : b = IF c.p_freelist # <<>> THEN Head(c.p_freelist) ELSE c.unused
  OBVIOUS
<1>10. r = [x EXCEPT !.pdqmb[o][b] = d, !.pdq[o] = e]
  <2>1. CASE c.p_freelist # <<>>
    BY <1>1, <1>3, <1>7, <1>9, <2>1 DEF enqueue_pridata
  <2>2. CASE c.p_freelist = <<>>
    BY <1>1, <1>3, <1>7, <1>9, <2>2 DEF enqueue_pridata
  <2> QED BY <2>1, <2>2
<1>11. Frame(x, r, {"pdq", "pdqmb"}) /\ r.pdq = [x.pdq EXCEPT ![o] = e]
  BY <1>10 DEF Frame, PInv, PType
<1>12. PType(r) /\ r.pdqcnt = x.pdqcnt
  BY <1>11 DEF Frame, PInv, PType
<1>13. \A m \in Pdq : BlocksOK(r.pdq[m], r.pdqcnt[m])
  BY <1>2, <1>8, <1>11, <1>12 DEF PInv, PType
<1> QED BY <1>11, <1>12, <1>13 DEF PInv

(* dequeue_pridata returns the block. *)
LEMMA PridataTaken ==
  ASSUME NEW x, PInv(x), NEW o \in Pdq, x.pdq[o].count > 0, NEW r, r = dequeue_pridata(x, o)
  PROVE  PInv(r) /\ Frame(x, r, {"pdq"}) /\ r.pdq[o].p_freelist # <<>>
<1>1. PICK c : c = x.pdq[o]
  OBVIOUS
<1>2. PICK n \in Nat : n = x.pdqcnt[o]
  BY DEF PInv, PType
<1>3. BlocksOK(c, n)
  BY <1>1, <1>2 DEF PInv
<1>4. c.p_head \in Seq(Nat) /\ c.p_head # <<>> /\ c.count = Len(c.p_head)
  BY <1>1, <1>3 DEF BlocksOK, Shared
<1>5. PICK e : e = [c EXCEPT !.count = c.count - 1, !.p_head = Tail(c.p_head),
                             !.p_freelist = <<Head(c.p_head)>> \o c.p_freelist]
  OBVIOUS
<1>6. r = [x EXCEPT !.pdq[o] = e]
  BY <1>1, <1>5 DEF dequeue_pridata
<1>7. BlocksOK(e, n) /\ e.p_freelist # <<>>
  <2>1. /\ Shared(Tail(c.p_head), <<Head(c.p_head)>> \o c.p_freelist, c.unused)
        /\ Len(Tail(c.p_head)) = Len(c.p_head) - 1 /\ <<Head(c.p_head)>> \o c.p_freelist # <<>>
    BY ONLY <1>3, <1>4, SharedFreed DEF BlocksOK
  <2>2. /\ e.count = c.count - 1 /\ e.p_head = Tail(c.p_head) /\ e.unused = c.unused
        /\ e.p_freelist = <<Head(c.p_head)>> \o c.p_freelist
    BY <1>3, <1>5 DEF BlocksOK
  <2>3. DOMAIN e = DOMAIN c
    BY <1>5
  <2> QED BY <1>3, <1>4, <2>1, <2>2, <2>3 DEF BlocksOK
<1>8. Frame(x, r, {"pdq"}) /\ r.pdq = [x.pdq EXCEPT ![o] = e]
  BY <1>6 DEF Frame, PInv, PType
<1>9. PType(r) /\ r.pdqcnt = x.pdqcnt
  BY <1>8 DEF Frame, PInv, PType
<1>10. \A m \in Pdq : BlocksOK(r.pdq[m], r.pdqcnt[m])
  BY <1>2, <1>7, <1>8, <1>9 DEF PInv, PType
<1>11. r.pdq[o] = e
  BY <1>8 DEF PInv, PType
<1> QED BY <1>7, <1>8, <1>9, <1>10, <1>11 DEF PInv

(* The data of the objects, and what the calls on a queue do to its own. *)
Blocks(j, r) ==
  /\ {"pdq", "pdqcnt"} \subseteq DOMAIN r /\ r.pdq = j.pdq /\ r.pdqcnt = j.pdqcnt

(* PInv is about these two fields. *)
LEMMA PSame ==
  ASSUME NEW j, PInv(j), NEW r, Blocks(j, r)
  PROVE  PInv(r)
BY DEF PInv, PType, Blocks

(* The other calls leave them alone. *)
LEMMA PFrame ==
  ASSUME NEW j, PInv(j), NEW F, "pdq" \notin F, "pdqcnt" \notin F,
         NEW r, Frame(j, r, ObjFields \cup {"winfo_data"} \cup F)
  PROVE  PInv(r)
<1>1. /\ "pdq" \notin ObjFields \cup {"winfo_data"} \cup F
      /\ "pdqcnt" \notin ObjFields \cup {"winfo_data"} \cup F
  BY DEF ObjFields, KernelFields, FreeLists
<1>2. Blocks(j, r)
  BY <1>1 DEF Blocks, Frame, PInv, PType
<1> QED BY <1>2, PSame

(* The same for calls, and for their ends. *)
LEMMA PKeeps ==
  ASSUME PInv(k), NEW F, "pdq" \notin F, "pdqcnt" \notin F, NEW r, Touches(r, F)
  PROVE  PInv(r)
BY PFrame DEF Touches

(* The functions on tasks. *)
LEMMA POuter ==
  ASSUME NEW j, PInv(j), NEW r, Outer(j, r) \/ DataFrame(j, r)
  PROVE  PInv(r)
<1>1. PICK F : F = {}
  OBVIOUS
<1>2. Frame(j, r, ObjFields \cup {"winfo_data"} \cup F)
  BY <1>1 DEF Outer, DataFrame, Frame, ObjFields
<1> QED BY <1>1, <1>2, PFrame

(* complete_head leaves the data of the objects alone. *)
LEMMA HeadFrame ==
  ASSUME NEW j, NEW o, NEW x
  PROVE  DataFrame(j, complete_head(j, o, x))
<1>1. PICK t : t = Head(j.wait_queue[o])
  OBVIOUS
<1>2. PICK y : y = [j EXCEPT !.wait_queue[o] = Tail(@), !.winfo_data[t] = IF x = NULL THEN @ ELSE x]
  OBVIOUS
<1>3. complete_head(j, o, x) = wait_complete(y, t)
  BY <1>1, <1>2 DEF complete_head
<1>4. DataFrame(j, y)
  BY <1>2 DEF DataFrame, Frame, KernelFields
<1>5. Outer(y, wait_complete(y, t))
  BY OuterReady, OuterTrans DEF wait_complete
<1> QED BY <1>3, <1>4, <1>5 DEF DataFrame, Outer, Frame

(* An empty queue. *)
LEMMA PEmptied ==
  ASSUME NEW x, PInv(x), NEW o \in Pdq, NEW n \in Nat, NEW r,
         {"pdq", "pdqcnt"} \subseteq DOMAIN r, r.pdq = [x.pdq EXCEPT ![o] = NoPdqData],
         r.pdqcnt = [x.pdqcnt EXCEPT ![o] = n]
  PROVE  PInv(r)
<1>1. BlocksOK(NoPdqData, n)
  BY DEF BlocksOK, NoPdqData, Shared, Distinct, In
<1>2. PType(r)
  BY DEF PInv, PType
<1>3. \A m \in Pdq : BlocksOK(r.pdq[m], r.pdqcnt[m])
  BY <1>1 DEF PInv, PType
<1> QED BY <1>2, <1>3 DEF PInv

(* The calls on priority data queues. *)
LEMMA PdqBlocks ==
  ASSUME ObjInv(k), PInv(k), PdqCalls
  PROVE  PInv(k')
<1>1. /\ "free_pdqcb" \in FreeLists \ {"free_flgcb"}
      /\ ObjSet["free_pdqcb"] = Pdq /\ Pdq \subseteq Wobj
  BY Kinds DEF FreeLists, ObjSet
<1>2. \A r : Touches(r, {}) => PInv(r)
  BY PKeeps
<1>3. \A y : PInv(y) => PInv(t_leave(y)) /\ PInv(i_leave(y))
  BY OuterReady, POuter
<1>4. Pdq \subseteq DOMAIN rwait /\ \A o \in Pdq : rwait[o] \in Wobj
  BY PdqAssumption, RwaitAssumption
<1>5. ASSUME NEW pk \in CPdq, acre_pdq(pk)
      PROVE  PInv(k')
  <2>1. PICK o : o = Head(k.free_pdqcb)
    OBVIOUS
  <2>2. o \in Pdq
    <3>1. k["free_pdqcb"] \in Seq(Pdq) /\ k["free_pdqcb"] # <<>>
      BY <1>1, <1>5 DEF ObjInv, QOK, QInv, AtrOK, acre_pdq
    <3> QED BY <2>1, <3>1
  <2>3. /\ k' = [create_obj(k, o, pk.pdqatr) EXCEPT
                   !.free_pdqcb = Tail(@), !.pdqcnt[o] = pk.pdqcnt, !.maxdpri[o] = pk.maxdpri,
                   !.pdqmb[o] = [b \in 0 .. pk.pdqcnt - 1 |-> NULL], !.pdq[o] = NoPdqData]
    BY <1>5, <2>1 DEF acre_pdq
  <2>4. pk.pdqcnt \in Nat
    BY PdqAssumption
  <2>5. /\ {"pdq", "pdqcnt"} \subseteq DOMAIN k' /\ k'.pdq = [k.pdq EXCEPT ![o] = NoPdqData]
        /\ k'.pdqcnt = [k.pdqcnt EXCEPT ![o] = pk.pdqcnt]
    BY <2>3 DEF create_obj, PInv, PType
  <2> QED BY ONLY PInv(k), <2>2, <2>4, <2>5, PEmptied
<1>6. ASSUME NEW o \in Pdq, del_pdq(o)
      PROVE  PInv(k')
  <2>1. k' = t_leave([delete_obj(k, o) EXCEPT !["free_pdqcb"] = Append(@, o)])
        /\ CHECK_TSKCTX_UNL /\ obj_exists(o)
    BY <1>6 DEF del_pdq
  <2>2. Touches(k', {})
    BY ONLY ObjInv(k), <1>1, <2>1, o \in Pdq, DeleteCall
  <2> QED BY <1>2, <2>2
<1>7. ASSUME NEW o \in Pdq, NEW d, can_send_pri(o)
      PROVE  PInv(send_pridata(o, d))
  <2>1. CASE k.wait_queue[rwait[o]] # <<>>
    BY <2>1, HeadFrame, POuter DEF send_pridata
  <2>2. CASE k.wait_queue[rwait[o]] = <<>>
    <3>1. k.pdq[o].count < k.pdqcnt[o]
      BY <1>7, <2>2 DEF can_send_pri
    <3> QED BY <2>2, <3>1, PridataAdded DEF send_pridata
  <2> QED BY <2>1, <2>2
<1>8. ASSUME NEW o \in Pdq
      PROVE  PInv(receive_pridata(o))
  <2>1. PICK s : s = k.winfo_data[Head(k.wait_queue[o])]
    OBVIOUS
  <2>2. PICK y : y = IF k.pdq[o].count > 0 THEN dequeue_pridata(k, o) ELSE k
    OBVIOUS
  <2>3. PICK z : z = IF k.pdq[o].count > 0 THEN enqueue_pridata(y, o, s) ELSE y
    OBVIOUS
  <2>4. receive_pridata(o) = IF k.wait_queue[o] # <<>> THEN complete_head(z, o, NULL) ELSE y
    BY <2>1, <2>2, <2>3 DEF receive_pridata
  <2>5. PInv(y) /\ PInv(z)
    <3>1. CASE k.pdq[o].count > 0
      <4>1. PInv(y) /\ y.pdq[o].p_freelist # <<>>
        BY <2>2, <3>1, PridataTaken
      <4> QED BY <2>3, <3>1, <4>1, PridataAdded
    <3>2. CASE ~(k.pdq[o].count > 0)
      BY <2>2, <2>3, <3>2
    <3> QED BY <3>1, <3>2
  <2>6. PInv(complete_head(z, o, NULL))
    BY <2>5, HeadFrame, POuter
  <2> QED BY <2>4, <2>5, <2>6
<1>9. ASSUME NEW o \in Pdq, NEW d, NEW b \in BOOLEAN, snd_pdq(o, d, b)
      PROVE  PInv(k')
  <2>1. CASE can_send_pri(o)
    BY <1>3, <1>7, <1>9, <2>1 DEF snd_pdq
  <2>2. CASE ~can_send_pri(o)
    <3>1. k' = wait_with("SPDQ", o, b, d) /\ CHECK_DISPATCH /\ obj_exists(o)
      BY <1>9, <2>2 DEF snd_pdq, may_send
    <3>2. "SPDQ" \in WobjcbKind
      BY DEF WobjcbKind
    <3>3. Touches(k', {})
      BY ONLY ObjInv(k), <1>1, <3>1, <3>2, o \in Pdq, b \in BOOLEAN, WaitCall
    <3> QED BY <1>2, <3>3
  <2> QED BY <2>1, <2>2
<1>10. ASSUME NEW o \in Pdq, NEW b \in BOOLEAN, rcv_pdq(o, b)
       PROVE  PInv(k')
  <2>1. CASE can_receive_pri(o)
    BY <1>3, <1>8, <1>10, <2>1 DEF rcv_pdq
  <2>2. CASE ~can_receive_pri(o)
    <3>1. PICK q : q = rwait[o]
      OBVIOUS
    <3>2. k' = wait_with("RPDQ", q, b, NULL) /\ CHECK_DISPATCH /\ obj_exists(o)
      BY <1>10, <2>2, <3>1 DEF rcv_pdq
    <3>3. o \in DOMAIN rwait /\ "RPDQ" \in {"RDTQ", "RPDQ"}
      BY <1>4
    <3>4. Touches(k', {})
      BY ONLY ObjInv(k), <1>1, <3>1, <3>2, <3>3, o \in Pdq, b \in BOOLEAN, WaitCall
    <3> QED BY <1>2, <3>4
  <2> QED BY <2>1, <2>2
<1>11. ASSUME NEW o \in Pdq, NEW d, psnd_pdq(o, d) \/ ipsnd_pdq(o, d)
       PROVE  PInv(k')
  BY <1>3, <1>7, <1>11 DEF psnd_pdq, ipsnd_pdq
<1>12. ASSUME NEW o \in Pdq, prcv_pdq(o)
       PROVE  PInv(k')
  BY <1>3, <1>8, <1>12 DEF prcv_pdq
<1>13. ASSUME NEW o \in Pdq, ini_pdq(o)
       PROVE  PInv(k')
  <2>1. PICK y, z : /\ y = init_wait_queues(k, o) /\ z = [y EXCEPT !.pdq[o] = NoPdqData]
                    /\ k' = t_leave(z)
    BY <1>13 DEF ini_pdq
  <2>2. Static(k) /\ QOK(k) /\ o \in Wobj
    BY <1>1 DEF ObjInv, IInv
  <2>3. Outer(k, y)
    BY ONLY <2>1, <2>2, InitWaits
  <2>4. PInv(y)
    BY ONLY PInv(k), <2>3, POuter
  <2>5. y.pdqcnt[o] \in Nat /\ y.pdqcnt = [y.pdqcnt EXCEPT ![o] = y.pdqcnt[o]]
    BY <2>4 DEF PInv, PType
  <2>6. PICK n \in Nat : n = y.pdqcnt[o]
    BY <2>5
  <2>7. /\ {"pdq", "pdqcnt"} \subseteq DOMAIN z /\ z.pdq = [y.pdq EXCEPT ![o] = NoPdqData]
        /\ z.pdqcnt = [y.pdqcnt EXCEPT ![o] = n]
    BY <2>1, <2>4, <2>5, <2>6 DEF PInv, PType
  <2>8. PInv(z)
    BY ONLY <2>4, <2>7, o \in Pdq, n \in Nat, PEmptied
  <2> QED BY <1>3, <2>1, <2>8
<1> QED BY <1>5, <1>6, <1>9, <1>10, <1>11, <1>12, <1>13 DEF PdqCalls

-----------------------------------------------------------------------------
(***************************************************************************)
(* The blocks of the memory pools.                                         *)
(***************************************************************************)

(* The i-th block of the list s, or INDEX_NULL after its end. *)
Entry(s, i) == IF i <= Len(s) THEN s[i] ELSE INDEX_NULL

(* s is linked from the block first on by the words mb. *)
Linked(s, first, mb) ==
  first = Entry(s, 1) /\ \A i \in 1 .. Len(s) : mb[s[i]] = Entry(s, i + 1)

(* s are the released blocks: the blocks below u that are not allocated. *)
Free(s, mb, u) ==
  /\ s \in Seq(Nat) /\ Distinct(s) /\ u \in Nat
  /\ \A b \in Nat : In(s, b) <=> b < u /\ mb[b] # INDEX_ALLOC

(* The management block d and the words mb of a pool of n blocks with the  *)
(* free list s.                                                            *)
PoolOK(s, d, mb, n) ==
  /\ d = [fblkcnt |-> d.fblkcnt, unused |-> d.unused, freelist |-> d.freelist]
  /\ DOMAIN mb = 0 .. n - 1
  /\ Free(s, mb, d.unused) /\ Linked(s, d.freelist, mb)
  /\ d.unused <= n /\ d.fblkcnt = Len(s) + (n - d.unused)

LType(x) ==
  /\ {"mpf", "mpfmb", "blkcnt"} \subseteq DOMAIN x
  /\ x.mpf = [o \in Mpf |-> x.mpf[o]] /\ x.mpfmb = [o \in Mpf |-> x.mpfmb[o]]
  /\ x.blkcnt \in [Mpf -> Nat]

LInv(x) == LType(x) /\ \A o \in Mpf : \E s : PoolOK(s, x.mpf[o], x.mpfmb[o], x.blkcnt[o])

(* A new or initialized pool has no released block. *)
LEMMA PoolNew ==
  ASSUME NEW n \in Nat, NEW mb, DOMAIN mb = 0 .. n - 1
  PROVE  PoolOK(<<>>, NewPool(n), mb, n)
<1>1. PICK s : s = <<>>
  OBVIOUS
<1>2. s \in Seq(Nat) /\ Len(s) = 0 /\ Distinct(s) /\ \A b : ~In(s, b)
  BY <1>1 DEF Distinct, In
<1>3. PICK d : d = NewPool(n)
  OBVIOUS
<1>4. /\ d = [fblkcnt |-> d.fblkcnt, unused |-> d.unused, freelist |-> d.freelist]
      /\ d.fblkcnt = n /\ d.unused = 0 /\ d.freelist = INDEX_NULL
  BY <1>3 DEF NewPool
<1>5. Free(s, mb, 0)
  BY <1>2 DEF Free
<1>6. Linked(s, INDEX_NULL, mb)
  BY <1>2 DEF Linked, Entry
<1>7. PoolOK(s, d, mb, n)
  BY <1>2, <1>4, <1>5, <1>6 DEF PoolOK
<1> QED BY <1>1, <1>3, <1>7

(* The list is empty when freelist is INDEX_NULL. *)
LEMMA PoolEmpty ==
  ASSUME NEW s, NEW d, NEW mb, NEW n, PoolOK(s, d, mb, n)
  PROVE  /\ d.freelist = INDEX_NULL <=> s = <<>>
         /\ s # <<>> => d.freelist = Head(s)
<1>1. s \in Seq(Nat) /\ d.freelist = Entry(s, 1)
  BY DEF PoolOK, Free, Linked
<1>2. CASE s = <<>>
  BY <1>1, <1>2 DEF Entry
<1>3. CASE s # <<>>
  <2>1. PICK m \in Nat : m = Len(s) /\ m > 0
    BY <1>1, <1>3, EmptySeq
  <2>2. s[1] \in Nat /\ Head(s) = s[1]
    BY <1>1, <1>3, <2>1
  <2>3. d.freelist = s[1]
    BY <1>1, <2>1 DEF Entry
  <2> QED BY <1>3, <2>2, <2>3 DEF INDEX_NULL
<1> QED BY <1>2, <1>3

(* The first block of the list is allocated. *)
LEMMA PoolReuse ==
  ASSUME NEW s, NEW d, NEW mb, NEW n \in Nat, PoolOK(s, d, mb, n), s # <<>>, NEW b, b = Head(s),
         NEW e, e = [fblkcnt |-> d.fblkcnt - 1, unused |-> d.unused, freelist |-> mb[b]],
         NEW r, r = [mb EXCEPT ![b] = INDEX_ALLOC]
  PROVE  PoolOK(Tail(s), e, r, n)
<1>1. /\ s \in Seq(Nat) /\ Distinct(s) /\ d.unused \in Nat
      /\ \A c \in Nat : In(s, c) <=> c < d.unused /\ mb[c] # INDEX_ALLOC
  BY DEF PoolOK, Free
<1>2. PICK t : t = Tail(s)
  OBVIOUS
<1>3. /\ b \in Nat /\ In(s, b) /\ t \in Seq(Nat) /\ Distinct(t) /\ Len(t) = Len(s) - 1
      /\ \A c \in Nat : In(t, c) <=> In(s, c) /\ c # b
  BY ONLY <1>1, <1>2, s # <<>>, b = Head(s), HeadTaken
<1>4. PICK m \in Nat : m = Len(s) /\ m > 0
  BY <1>1, EmptySeq
<1>5. s[1] = b /\ \A i \in 1 .. m - 1 : t[i] = s[i + 1]
  BY <1>1, <1>2, <1>4
<1>6. DOMAIN mb = 0 .. n - 1 /\ d.unused <= n /\ d.fblkcnt = m + (n - d.unused)
  BY <1>4 DEF PoolOK
<1>7. b < d.unused /\ b \in 0 .. n - 1
  BY <1>1, <1>3, <1>6
<1>8. DOMAIN r = 0 .. n - 1 /\ r[b] = INDEX_ALLOC /\ \A c \in Nat : c # b => r[c] = mb[c]
  <2>1. ASSUME NEW c \in Nat, c # b PROVE r[c] = mb[c]
    BY <1>6, <2>1
  <2> QED BY <1>6, <1>7, <2>1
<1>9. Free(t, r, d.unused)
  BY <1>1, <1>3, <1>8 DEF Free
<1>10. Linked(t, mb[b], r)
  <2>1. \A i \in 1 .. m : mb[s[i]] = Entry(s, i + 1)
    BY <1>4 DEF PoolOK, Linked
  <2>2. \A i \in Nat : i >= 1 => Entry(t, i) = Entry(s, i + 1)
    BY <1>3, <1>4, <1>5 DEF Entry
  <2>3. mb[b] = Entry(t, 1)
    BY <1>4, <1>5, <2>1, <2>2
  <2>4. ASSUME NEW i \in 1 .. Len(t)
        PROVE  r[t[i]] = Entry(t, i + 1)
    <3>1. i \in 1 .. m - 1 /\ i + 1 \in 1 .. m /\ i + 1 \in Nat /\ i + 1 # 1
      BY <1>3, <1>4
    <3>2. t[i] = s[i + 1] /\ s[i + 1] \in Nat /\ s[i + 1] # s[1]
      BY <1>1, <1>4, <1>5, <3>1 DEF Distinct
    <3>3. r[t[i]] = mb[s[i + 1]]
      BY <1>5, <1>8, <3>2
    <3> QED BY <2>1, <2>2, <3>1, <3>3
  <2> QED BY <2>3, <2>4 DEF Linked
<1>11. d.fblkcnt - 1 = Len(t) + (n - d.unused)
  <2>1. PICK u \in Nat : u = d.unused
    BY <1>1
  <2>2. Len(t) = m - 1 /\ d.fblkcnt = m + (n - u)
    BY <1>3, <1>4, <1>6, <2>1
  <2> QED BY ONLY <2>1, <2>2, m \in Nat, n \in Nat
<1>12. PoolOK(t, e, r, n)
  BY <1>6, <1>8, <1>9, <1>10, <1>11 DEF PoolOK
<1> QED BY <1>2, <1>12

(* The first block that was never allocated is allocated. *)
LEMMA PoolFresh ==
  ASSUME NEW d, NEW mb, NEW n \in Nat, PoolOK(<<>>, d, mb, n), d.fblkcnt > 0, NEW b, b = d.unused,
         NEW e, e = [fblkcnt |-> d.fblkcnt - 1, unused |-> d.unused + 1, freelist |-> d.freelist],
         NEW r, r = [mb EXCEPT ![b] = INDEX_ALLOC]
  PROVE  PoolOK(<<>>, e, r, n)
<1>1. PICK s : s = <<>>
  OBVIOUS
<1>2. s \in Seq(Nat) /\ Len(s) = 0 /\ Distinct(s) /\ \A c : ~In(s, c)
  BY <1>1 DEF Distinct, In
<1>3. /\ d.unused \in Nat /\ d.unused <= n /\ d.fblkcnt = n - d.unused
      /\ DOMAIN mb = 0 .. n - 1 /\ d.freelist = INDEX_NULL
  BY <1>2 DEF PoolOK, Free, Linked, Entry
<1>4. \A c \in Nat : ~(c < d.unused /\ mb[c] # INDEX_ALLOC)
  BY <1>1, <1>2 DEF PoolOK, Free
<1>5. b \in Nat /\ b \in 0 .. n - 1 /\ b + 1 <= n /\ b + 1 \in Nat
  BY <1>3
<1>6. DOMAIN r = 0 .. n - 1 /\ r[b] = INDEX_ALLOC /\ \A c \in Nat : c # b => r[c] = mb[c]
  <2>1. ASSUME NEW c \in Nat, c # b PROVE r[c] = mb[c]
    BY <1>3, <2>1
  <2> QED BY <1>3, <1>5, <2>1
<1>7. \A c \in Nat : ~(c < b + 1 /\ r[c] # INDEX_ALLOC)
  BY <1>4, <1>5, <1>6
<1>8. Free(s, r, b + 1)
  BY <1>2, <1>5, <1>7 DEF Free
<1>9. Linked(s, d.freelist, r)
  BY <1>2, <1>3 DEF Linked, Entry
<1>10. d.fblkcnt - 1 = Len(s) + (n - (b + 1))
  BY <1>2, <1>3, <1>5
<1>11. PoolOK(s, e, r, n)
  BY <1>5, <1>6, <1>8, <1>9, <1>10 DEF PoolOK
<1> QED BY <1>1, <1>11

(* A block is released to the list. *)
LEMMA PoolRelease ==
  ASSUME NEW s, NEW d, NEW mb, NEW n \in Nat, PoolOK(s, d, mb, n),
         NEW b \in Nat, b < d.unused, mb[b] = INDEX_ALLOC,
         NEW e, e = [fblkcnt |-> d.fblkcnt + 1, unused |-> d.unused, freelist |-> b],
         NEW r, r = [mb EXCEPT ![b] = d.freelist]
  PROVE  PoolOK(<<b>> \o s, e, r, n)
<1>1. /\ s \in Seq(Nat) /\ Distinct(s) /\ d.unused \in Nat
      /\ \A c \in Nat : In(s, c) <=> c < d.unused /\ mb[c] # INDEX_ALLOC
  BY DEF PoolOK, Free
<1>2. PICK t : t = <<b>> \o s
  OBVIOUS
<1>3. PICK m \in Nat : m = Len(s)
  BY <1>1
<1>4. /\ t \in Seq(Nat) /\ Len(t) = m + 1 /\ t[1] = b
      /\ \A i \in 1 .. m : t[i + 1] = s[i]
  <2>1. PICK u : u = <<b>>
    OBVIOUS
  <2>2. u \in Seq(Nat) /\ Len(u) = 1 /\ u[1] = b
    BY <2>1
  <2>3. /\ t \in Seq(Nat) /\ Len(t) = Len(u) + Len(s)
        /\ \A i \in 1 .. Len(u) + Len(s) : t[i] = IF i <= Len(u) THEN u[i] ELSE s[i - Len(u)]
    BY <1>1, <1>2, <2>1, <2>2, ConcatProperties
  <2>4. \A i \in 1 .. 1 + m : t[i] = IF i <= 1 THEN u[i] ELSE s[i - 1]
    BY <1>3, <2>2, <2>3
  <2>5. \A i \in 1 .. m : i + 1 \in 1 .. 1 + m /\ ~(i + 1 <= 1) /\ (i + 1) - 1 = i
    BY <1>3
  <2>6. 1 \in 1 .. 1 + m
    BY <1>3
  <2> QED BY <1>3, <2>2, <2>3, <2>4, <2>5, <2>6
<1>5. InsertedAt(s, b, 1, t)
  <2>1. ASSUME NEW i \in 1 .. m + 1
        PROVE  t[i] = IF i < 1 THEN s[i] ELSE IF i = 1 THEN b ELSE s[i - 1]
    <3>1. CASE i = 1
      BY <1>4, <3>1
    <3>2. CASE i # 1
      <4>1. i - 1 \in 1 .. m /\ (i - 1) + 1 = i
        BY <3>2
      <4> QED BY <1>4, <3>2, <4>1
    <3> QED BY <3>1, <3>2
  <2> QED BY <1>3, <1>4, <2>1 DEF InsertedAt
<1>6. ~In(s, b)
  BY <1>1
<1>7. Distinct(t) /\ \A c \in Nat : In(t, c) <=> In(s, c) \/ c = b
  <2>1. s \in Seq(Nat) /\ Distinct(s) /\ t \in Seq(Nat)
    BY <1>1, <1>4
  <2> QED BY ONLY <1>5, <1>6, <2>1, b \in Nat, Inserted
<1>8. DOMAIN mb = 0 .. n - 1 /\ d.unused <= n /\ d.fblkcnt = m + (n - d.unused)
  BY <1>3 DEF PoolOK
<1>9. b \in 0 .. n - 1
  BY <1>1, <1>8
<1>10. DOMAIN r = 0 .. n - 1 /\ r[b] = d.freelist /\ \A c \in Nat : c # b => r[c] = mb[c]
  <2>1. ASSUME NEW c \in Nat, c # b PROVE r[c] = mb[c]
    BY <1>8, <2>1
  <2> QED BY <1>8, <1>9, <2>1
<1>11. /\ \A i \in 1 .. m : mb[s[i]] = Entry(s, i + 1)
       /\ d.freelist = Entry(s, 1)
  BY <1>3 DEF PoolOK, Linked
<1>12. d.freelist # INDEX_ALLOC
  BY <1>1, <1>3, <1>11 DEF Entry, INDEX_ALLOC, INDEX_NULL
<1>13. Free(t, r, d.unused)
  BY <1>1, <1>4, <1>7, <1>10, <1>12 DEF Free
<1>14. Linked(t, b, r)
  <2>1. \A i \in Nat : i >= 1 => Entry(t, i + 1) = Entry(s, i)
    <3>1. ASSUME NEW i \in Nat, i >= 1 PROVE Entry(t, i + 1) = Entry(s, i)
      <4>1. CASE i <= m
        BY <1>3, <1>4, <3>1, <4>1 DEF Entry
      <4>2. CASE ~(i <= m)
        BY <1>3, <1>4, <3>1, <4>2 DEF Entry
      <4> QED BY <4>1, <4>2
    <3> QED BY <3>1
  <2>2. b = Entry(t, 1)
    BY <1>3, <1>4 DEF Entry
  <2>3. ASSUME NEW i \in 1 .. Len(t)
        PROVE  r[t[i]] = Entry(t, i + 1)
    <3>1. CASE i = 1
      <4>1. Entry(t, 1 + 1) = Entry(s, 1)
        BY <2>1
      <4> QED BY <1>4, <1>10, <1>11, <3>1, <4>1
    <3>2. CASE i # 1
      <4>1. PICK l \in 1 .. m : i = l + 1
        <5>1. i - 1 \in 1 .. m /\ i = (i - 1) + 1
          BY <1>4, <3>2
        <5> QED BY <5>1
      <4>2. t[i] = s[l] /\ s[l] \in Nat /\ In(s, s[l])
        BY <1>1, <1>3, <1>4, <4>1 DEF In
      <4>3. r[t[i]] = mb[s[l]]
        BY <1>6, <1>10, <4>2
      <4>4. mb[s[l]] = Entry(s, i)
        BY <1>11, <4>1
      <4>5. i \in Nat /\ i >= 1
        BY <4>1
      <4> QED BY <2>1, <4>3, <4>4, <4>5
    <3> QED BY <3>1, <3>2
  <2> QED BY <2>2, <2>3 DEF Linked
<1>15. d.fblkcnt + 1 = Len(t) + (n - d.unused)
  BY <1>1, <1>4, <1>8
<1>16. PoolOK(t, e, r, n)
  BY <1>8, <1>10, <1>13, <1>14, <1>15 DEF PoolOK
<1> QED BY <1>2, <1>16

(* Distinct blocks below n are at most n. *)
LEMMA FewBlocks ==
  ASSUME NEW s \in Seq(Nat), Distinct(s), NEW n \in Nat, \A b \in Nat : In(s, b) => b < n
  PROVE  Len(s) <= n
<1>1. PICK m \in Nat : m = Len(s)
  OBVIOUS
<1>2. PICK S, T : S = 1 .. m /\ T = 0 .. n - 1
  OBVIOUS
<1>3. /\ IsFiniteSet(S) /\ IsFiniteSet(T) /\ Cardinality(S) = m /\ Cardinality(T) = n
  <2>1. IsFiniteSet(1 .. m) /\ Cardinality(1 .. m) = IF 1 > m THEN 0 ELSE m - 1 + 1
    BY FS_Interval
  <2>2. /\ IsFiniteSet(0 .. n - 1)
        /\ Cardinality(0 .. n - 1) = IF 0 > n - 1 THEN 0 ELSE n - 1 - 0 + 1
    <3>1. PICK l \in Int : l = n - 1
      OBVIOUS
    <3>2. IsFiniteSet(0 .. l) /\ Cardinality(0 .. l) = IF 0 > l THEN 0 ELSE l - 0 + 1
      BY ONLY l \in Int, FS_Interval
    <3> QED BY <3>1, <3>2
  <2> QED BY <1>2, <2>1, <2>2
<1>4. \A i \in S : s[i] \in T
  BY <1>1, <1>2 DEF In
<1>5. PICK f : f = [i \in S |-> s[i]]
  OBVIOUS
<1>6. f \in [S -> T]
  BY <1>4, <1>5
<1>7. \A x, y \in S : f[x] = f[y] => x = y
  BY <1>1, <1>2, <1>5 DEF Distinct
<1>8. ~(Cardinality(T) < Cardinality(S))
  BY ONLY <1>3, <1>6, <1>7, FS_PigeonHole
<1> QED BY <1>1, <1>3, <1>8

(* chain returns the linked list. *)
LEMMA ChainOf ==
  ASSUME NEW s \in Seq(Nat), NEW n \in Nat, Len(s) <= n, NEW mb, DOMAIN mb = 0 .. n - 1,
         NEW first, Linked(s, first, mb)
  PROVE  chain(first, mb, INDEX_NULL) = s
<1>1. PICK m \in Nat : m = Len(s) /\ m <= n
  OBVIOUS
<1>2. Cardinality(DOMAIN mb) = n
  <2>1. PICK l \in Int : l = n - 1
    OBVIOUS
  <2>2. Cardinality(0 .. l) = IF 0 > l THEN 0 ELSE l - 0 + 1
    BY ONLY l \in Int, FS_Interval
  <2> QED BY <2>1, <2>2
<1> DEFINE E(f) == [i \in 0 .. Cardinality(DOMAIN mb) |->
                      IF i = 0 THEN first
                      ELSE IF f[i - 1] = INDEX_NULL THEN INDEX_NULL ELSE mb[f[i - 1]]]
<1>3. /\ first = Entry(s, 1) /\ \A i \in 1 .. m : mb[s[i]] = Entry(s, i + 1)
      /\ \A i \in 1 .. m : Entry(s, i) = s[i] /\ s[i] # INDEX_NULL
      /\ \A i \in Nat : i > m => Entry(s, i) = INDEX_NULL
  BY <1>1 DEF Linked, Entry, INDEX_NULL
<1>4. ASSUME NEW i \in 1 .. n
      PROVE  Entry(s, i + 1) = IF Entry(s, i) = INDEX_NULL THEN INDEX_NULL ELSE mb[Entry(s, i)]
  <2>1. CASE i <= m
    BY <1>1, <1>3, <2>1
  <2>2. CASE i > m
    BY <1>1, <1>3, <2>2
  <2> QED BY <1>1, <2>1, <2>2
<1>5. \E f : f = E(f)
  <2>1. PICK w : w = [i \in 0 .. n |-> Entry(s, i + 1)]
    OBVIOUS
  <2>2. \A i \in 1 .. n : w[i - 1] = Entry(s, i)
    <3>1. ASSUME NEW i \in 1 .. n PROVE w[i - 1] = Entry(s, i)
      <4>1. i - 1 \in 0 .. n /\ (i - 1) + 1 = i
        OBVIOUS
      <4> QED BY <2>1, <4>1
    <3> QED BY <3>1
  <2>3. ASSUME NEW i \in 0 .. n
        PROVE  w[i] = IF i = 0 THEN first
                      ELSE IF w[i - 1] = INDEX_NULL THEN INDEX_NULL ELSE mb[w[i - 1]]
    <3>1. CASE i = 0
      BY <1>3, <2>1, <3>1
    <3>2. CASE i # 0
      <4>1. i \in 1 .. n
        BY <3>2
      <4>2. w[i] = Entry(s, i + 1) /\ w[i - 1] = Entry(s, i)
        BY <2>1, <2>2, <4>1
      <4> QED BY <1>4, <3>2, <4>1, <4>2
    <3> QED BY <3>1, <3>2
  <2>4. w = E(w)
    BY <1>2, <2>1, <2>3
  <2> QED BY <2>4
<1>6. PICK g : g = CHOOSE f : f = E(f)
  OBVIOUS
<1>7. g = E(g)
  BY <1>5, <1>6
<1>8. chain(first, mb, INDEX_NULL)
        = [i \in 1 .. Cardinality({j \in 0 .. Cardinality(DOMAIN mb) : g[j] # INDEX_NULL}) |-> g[i - 1]]
  BY <1>6 DEF chain
<1>9. \A i \in 0 .. n : g[i] = IF i = 0 THEN first
                               ELSE IF g[i - 1] = INDEX_NULL THEN INDEX_NULL ELSE mb[g[i - 1]]
  BY <1>2, <1>7
<1> HIDE <1>6, <1>7
<1> HIDE DEF E
<1>10. \A i \in 0 .. n : g[i] = Entry(s, i + 1)
  <2>1. PICK T : T = {i \in 0 .. n : g[i] = Entry(s, i + 1)}
    OBVIOUS
  <2>2. 0 \in T
    BY <1>3, <1>9, <2>1
  <2>3. ASSUME NEW i \in 1 .. n, i - 1 \in T PROVE i \in T
    <3>1. g[i - 1] = Entry(s, i)
      <4>1. (i - 1) + 1 = i
        OBVIOUS
      <4> QED BY <2>1, <2>3, <4>1
    <3>2. i \in 0 .. n /\ i # 0
      OBVIOUS
    <3>3. g[i] = Entry(s, i + 1)
      BY <1>4, <1>9, <3>1, <3>2
    <3> QED BY <2>1, <3>2, <3>3
  <2>4. \A i \in 0 .. n : i \in T
    BY ONLY n \in Nat, <2>2, <2>3, LoopInduction
  <2> QED BY <2>1, <2>4
<1>11. {j \in 0 .. n : g[j] # INDEX_NULL} = 0 .. m - 1
  <2>1. ASSUME NEW j \in 0 .. n PROVE g[j] # INDEX_NULL <=> j \in 0 .. m - 1
    <3>1. CASE j < m
      <4>1. j + 1 \in 1 .. m /\ j \in 0 .. m - 1
        BY <3>1
      <4>2. g[j] = Entry(s, j + 1) /\ Entry(s, j + 1) # INDEX_NULL
        BY ONLY <1>3, <1>10, <4>1, j \in 0 .. n
      <4> QED BY ONLY <4>1, <4>2
    <3>2. CASE j >= m
      <4>1. j + 1 \in Nat /\ j + 1 > m
        BY <1>1, <3>2
      <4> QED BY <1>1, <1>3, <1>10, <3>2, <4>1
    <3> QED BY <1>1, <3>1, <3>2
  <2>2. \A j \in 0 .. m - 1 : j \in 0 .. n
    BY <1>1
  <2> QED BY <2>1, <2>2
<1>12. Cardinality(0 .. m - 1) = m
  <2>1. PICK l \in Int : l = m - 1
    BY <1>1
  <2>2. Cardinality(0 .. l) = IF 0 > l THEN 0 ELSE l - 0 + 1
    BY ONLY l \in Int, FS_Interval
  <2> QED BY <2>1, <2>2
<1>13. chain(first, mb, INDEX_NULL) = [i \in 1 .. m |-> g[i - 1]]
  BY ONLY <1>2, <1>8, <1>11, <1>12
<1>14. \A i \in 1 .. m : g[i - 1] = s[i]
  <2>1. ASSUME NEW i \in 1 .. m PROVE g[i - 1] = s[i]
    <3>1. i - 1 \in 0 .. n /\ (i - 1) + 1 = i
      BY <1>1
    <3> QED BY <1>3, <1>10, <3>1
  <2> QED BY <2>1
<1>15. s = [i \in 1 .. m |-> s[i]]
  BY <1>1
<1> QED BY ONLY <1>13, <1>14, <1>15

(* q is s followed by the l numbers from u on. *)
Parts(q, s, m, l, u) ==
  /\ s \in Seq(Nat) /\ Len(s) = m /\ q \in Seq(Nat) /\ Len(q) = m + l
  /\ \A i \in 1 .. m : q[i] = s[i]
  /\ \A i \in 1 .. l : q[m + i] = u + i - 1

(* The concatenation is such a q. *)
LEMMA PartsOf ==
  ASSUME NEW s \in Seq(Nat), NEW m \in Nat, m = Len(s), NEW l \in Nat, NEW u \in Nat,
         NEW q, q = s \o [i \in 1 .. l |-> u + i - 1]
  PROVE  Parts(q, s, m, l, u)
<1>1. PICK t : t = [i \in 1 .. l |-> u + i - 1]
  OBVIOUS
<1>2. t \in Seq(Nat) /\ Len(t) = l /\ \A i \in 1 .. l : t[i] = u + i - 1
  <2>1. \A i \in 1 .. l : u + i - 1 \in Nat
    OBVIOUS
  <2> QED BY <1>1, <2>1
<1>3. /\ q \in Seq(Nat) /\ Len(q) = Len(s) + Len(t)
      /\ \A i \in 1 .. Len(s) + Len(t) : q[i] = IF i <= Len(s) THEN s[i] ELSE t[i - Len(s)]
  <2>1. q = s \o t
    BY <1>1
  <2> QED BY ONLY <1>2, <2>1, s \in Seq(Nat), ConcatProperties
<1>4. \A i \in 1 .. m + l : q[i] = IF i <= m THEN s[i] ELSE t[i - m]
  BY ONLY <1>2, <1>3, m = Len(s)
<1>5. ASSUME NEW i \in 1 .. m PROVE q[i] = s[i]
  <2>1. i \in 1 .. m + l /\ i <= m
    OBVIOUS
  <2> QED BY ONLY <1>4, <2>1
<1>6. ASSUME NEW i \in 1 .. l PROVE q[m + i] = u + i - 1
  <2>1. m + i \in 1 .. m + l /\ ~(m + i <= m) /\ (m + i) - m = i
    OBVIOUS
  <2> QED BY ONLY <1>2, <1>4, <2>1, i \in 1 .. l
<1> QED BY ONLY <1>2, <1>3, <1>5, <1>6, s \in Seq(Nat), m = Len(s) DEF Parts

(* What it holds. *)
LEMMA PartsIn ==
  ASSUME NEW m \in Nat, NEW l \in Nat, NEW u \in Nat, NEW s, NEW q, Parts(q, s, m, l, u),
         Distinct(s), \A b \in Nat : In(s, b) => b < u
  PROVE  /\ IsInjective(q)
         /\ \A b \in Nat : b \in ToSet(q) <=> In(s, b) \/ (u <= b /\ b < u + l)
<1>1. /\ s \in Seq(Nat) /\ Len(s) = m /\ q \in Seq(Nat) /\ DOMAIN q = 1 .. m + l
      /\ \A i \in 1 .. m : q[i] = s[i]
      /\ \A i \in 1 .. l : q[m + i] = u + i - 1
  BY DEF Parts
<1>2. \A i, j \in 1 .. m : s[i] = s[j] => i = j
  BY <1>1 DEF Distinct
<1>3. \A i \in 1 .. m : q[i] \in Nat /\ q[i] < u /\ In(s, q[i])
  <2>1. ASSUME NEW i \in 1 .. m PROVE q[i] \in Nat /\ q[i] < u /\ In(s, q[i])
    <3>1. s[i] \in Nat /\ q[i] = s[i]
      BY <1>1
    <3>2. In(s, s[i])
      BY <1>1 DEF In
    <3> QED BY <3>1, <3>2
  <2> QED BY <2>1
<1>4. ASSUME NEW i \in 1 .. m + l
      PROVE  i \in 1 .. m \/ \E j \in 1 .. l : i = m + j
  <2>1. CASE i <= m
    BY <2>1
  <2>2. CASE i > m
    <3>1. i - m \in 1 .. l /\ i = m + (i - m)
      BY <2>2
    <3> QED BY <3>1
  <2> QED BY <2>1, <2>2
<1>5. ASSUME NEW i \in 1 .. m + l, NEW j \in 1 .. m + l, q[i] = q[j]
      PROVE  i = j
  <2>1. CASE i \in 1 .. m /\ j \in 1 .. m
    BY ONLY <1>1, <1>2, <1>5, <2>1
  <2>2. ASSUME NEW c \in 1 .. l, j = m + c, i \in 1 .. m PROVE FALSE
    <3>1. q[j] = u + c - 1 /\ q[i] < u
      BY ONLY <1>1, <1>3, <2>2
    <3> QED BY ONLY <1>5, <3>1, c \in 1 .. l, u \in Nat, l \in Nat
  <2>3. ASSUME NEW c \in 1 .. l, i = m + c, j \in 1 .. m PROVE FALSE
    <3>1. q[i] = u + c - 1 /\ q[j] < u
      BY ONLY <1>1, <1>3, <2>3
    <3> QED BY ONLY <1>5, <3>1, c \in 1 .. l, u \in Nat, l \in Nat
  <2>4. ASSUME NEW c \in 1 .. l, NEW e \in 1 .. l, i = m + c, j = m + e PROVE i = j
    <3>1. q[i] = u + c - 1 /\ q[j] = u + e - 1
      BY ONLY <1>1, <2>4
    <3>2. u + c - 1 = u + e - 1
      BY ONLY <1>5, <3>1
    <3>3. c = e
      BY ONLY <3>2, c \in 1 .. l, e \in 1 .. l, u \in Nat, l \in Nat
    <3> QED BY ONLY <2>4, <3>3
  <2> QED BY ONLY <1>4, <2>1, <2>2, <2>3, <2>4, i \in 1 .. m + l, j \in 1 .. m + l
<1>6. IsInjective(q)
  BY ONLY <1>1, <1>5 DEF IsInjective
<1>7. \A b : b \in ToSet(q) <=> \E i \in 1 .. m + l : q[i] = b
  BY ONLY <1>1, m \in Nat, l \in Nat DEF ToSet
<1>8. ASSUME NEW b \in Nat, NEW i \in 1 .. m + l, q[i] = b
      PROVE  In(s, b) \/ (u <= b /\ b < u + l)
  <2>1. CASE i \in 1 .. m
    BY ONLY <1>3, <1>8, <2>1
  <2>2. ASSUME NEW c \in 1 .. l, i = m + c PROVE u <= b /\ b < u + l
    <3>1. b = u + c - 1
      BY ONLY <1>1, <1>8, <2>2
    <3> QED BY ONLY <3>1, c \in 1 .. l, u \in Nat, l \in Nat
  <2> QED BY ONLY <1>4, <2>1, <2>2, i \in 1 .. m + l
<1>9. ASSUME NEW b \in Nat, In(s, b) PROVE \E i \in 1 .. m + l : q[i] = b
  <2>1. PICK i \in 1 .. m : s[i] = b
    BY ONLY <1>1, <1>9 DEF In
  <2>2. i \in 1 .. m + l
    OBVIOUS
  <2>3. q[i] = b
    BY ONLY <1>1, <2>1
  <2> QED BY ONLY <2>2, <2>3
<1>10. ASSUME NEW b \in Nat, u <= b, b < u + l PROVE \E i \in 1 .. m + l : q[i] = b
  <2>1. PICK c \in 1 .. l : c = b - u + 1
    <3>1. b - u + 1 \in 1 .. l
      BY ONLY <1>10, b \in Nat, u \in Nat, l \in Nat
    <3> QED BY ONLY <3>1
  <2>2. m + c \in 1 .. m + l /\ u + c - 1 = b
    BY ONLY <2>1, b \in Nat, u \in Nat, l \in Nat, m \in Nat
  <2>3. q[m + c] = b
    BY ONLY <1>1, <2>2, c \in 1 .. l
  <2> QED BY ONLY <2>2, <2>3
<1> QED BY ONLY <1>6, <1>7, <1>8, <1>9, <1>10

(* The free list and the blocks that were never allocated. *)
FreeBlocks(d, mb, n) ==
  chain(d.freelist, mb, INDEX_NULL) \o [i \in 1 .. n - d.unused |-> d.unused + i - 1]

(* They are the free blocks, each once. *)
LEMMA PoolBlocks ==
  ASSUME NEW s, NEW d, NEW mb, NEW n \in Nat, PoolOK(s, d, mb, n), NEW q, q = FreeBlocks(d, mb, n)
  PROVE  /\ IsInjective(q) /\ Len(q) = d.fblkcnt
         /\ \A b \in 0 .. n - 1 : b \in ToSet(q) <=> b >= d.unused \/ mb[b] # INDEX_ALLOC
<1>1. PICK u \in Nat : u = d.unused /\ u <= n
  BY DEF PoolOK, Free
<1>2. /\ s \in Seq(Nat) /\ Distinct(s) /\ d.fblkcnt = Len(s) + (n - u) /\ DOMAIN mb = 0 .. n - 1
      /\ Linked(s, d.freelist, mb)
      /\ \A b \in Nat : In(s, b) <=> b < u /\ mb[b] # INDEX_ALLOC
  BY <1>1 DEF PoolOK, Free
<1>3. PICK m \in Nat : m = Len(s)
  BY <1>2
<1>4. m <= n
  <2>1. \A b \in Nat : In(s, b) => b < n
    BY <1>1, <1>2
  <2> QED BY ONLY <1>2, <1>3, <2>1, n \in Nat, FewBlocks
<1>5. chain(d.freelist, mb, INDEX_NULL) = s
  BY ONLY <1>2, <1>3, <1>4, n \in Nat, ChainOf
<1>6. PICK l \in Nat : l = n - u
  BY <1>1
<1>7. q = s \o [i \in 1 .. l |-> u + i - 1]
  BY <1>1, <1>5, <1>6 DEF FreeBlocks
<1>8. Parts(q, s, m, l, u)
  BY ONLY <1>2, <1>3, <1>7, l \in Nat, u \in Nat, PartsOf
<1>9. \A b \in Nat : In(s, b) => b < u
  BY ONLY <1>2
<1>10. /\ IsInjective(q)
       /\ \A b \in Nat : b \in ToSet(q) <=> In(s, b) \/ (u <= b /\ b < u + l)
  BY ONLY <1>2, <1>8, <1>9, m \in Nat, l \in Nat, u \in Nat, PartsIn
<1>11. Len(q) = d.fblkcnt
  <2>1. Len(q) = m + l
    BY ONLY <1>8 DEF Parts
  <2> QED BY ONLY <1>2, <1>3, <1>6, <2>1
<1>12. ASSUME NEW b \in 0 .. n - 1
       PROVE  b \in ToSet(q) <=> b >= u \/ mb[b] # INDEX_ALLOC
  <2>1. b \in Nat /\ b < u + l
    BY ONLY <1>6, b \in 0 .. n - 1, n \in Nat, u \in Nat
  <2>2. b \in ToSet(q) <=> In(s, b) \/ u <= b
    BY ONLY <1>10, <2>1
  <2>3. In(s, b) <=> b < u /\ mb[b] # INDEX_ALLOC
    BY ONLY <1>2, <2>1
  <2>4. b < u <=> ~(b >= u)
    BY ONLY <2>1, u \in Nat
  <2>5. u <= b <=> b >= u
    BY ONLY <2>1, u \in Nat
  <2> QED BY ONLY <2>2, <2>3, <2>4, <2>5
<1> QED BY ONLY <1>1, <1>10, <1>11, <1>12

(* LInv is about the three fields of the pools. *)
LEMMA LFrame ==
  ASSUME NEW j, LInv(j), NEW F, F \cap {"mpf", "mpfmb", "blkcnt"} = {},
         NEW r, Frame(j, r, ObjFields \cup {"winfo_data"} \cup F)
  PROVE  LInv(r)
<1>1. {"mpf", "mpfmb", "blkcnt"} \cap (ObjFields \cup {"winfo_data"} \cup F) = {}
  BY DEF ObjFields, KernelFields, FreeLists
<1>2. \A f \in {"mpf", "mpfmb", "blkcnt"} : f \in DOMAIN r /\ r[f] = j[f]
  BY <1>1 DEF Frame, LInv, LType
<1>3. r.mpf = j.mpf /\ r.mpfmb = j.mpfmb /\ r.blkcnt = j.blkcnt
  BY <1>2
<1> QED BY <1>2, <1>3 DEF LInv, LType

(* The calls on other objects, and on tasks. *)
LEMMA LKeeps ==
  ASSUME LInv(k), NEW F, F \cap {"mpf", "mpfmb", "blkcnt"} = {}, NEW r, Touches(r, F)
  PROVE  LInv(r)
BY LFrame DEF Touches

(* The functions on tasks. *)
LEMMA LOuter ==
  ASSUME NEW j, LInv(j), NEW r, Outer(j, r) \/ DataFrame(j, r)
  PROVE  LInv(r)
<1>1. PICK F : F = {}
  OBVIOUS
<1>2. Frame(j, r, ObjFields \cup {"winfo_data"} \cup F)
  BY <1>1 DEF Outer, DataFrame, Frame, ObjFields
<1> QED BY <1>1, <1>2, LFrame

(* One pool changes. *)
LEMMA LChanged ==
  ASSUME NEW x, LInv(x), NEW o \in Mpf, NEW s, NEW e, NEW mb, NEW n \in Nat, PoolOK(s, e, mb, n),
         NEW r, {"mpf", "mpfmb", "blkcnt"} \subseteq DOMAIN r,
         r.mpf = [x.mpf EXCEPT ![o] = e], r.mpfmb = [x.mpfmb EXCEPT ![o] = mb],
         r.blkcnt = [x.blkcnt EXCEPT ![o] = n]
  PROVE  LInv(r)
<1>1. LType(r)
  BY DEF LInv, LType
<1>2. ASSUME NEW m \in Mpf PROVE \E z : PoolOK(z, r.mpf[m], r.mpfmb[m], r.blkcnt[m])
  <2>1. CASE m = o
    BY <2>1 DEF LInv, LType
  <2>2. CASE m # o
    <3>1. r.mpf[m] = x.mpf[m] /\ r.mpfmb[m] = x.mpfmb[m] /\ r.blkcnt[m] = x.blkcnt[m]
      BY <2>2 DEF LInv, LType
    <3> QED BY <3>1 DEF LInv
  <2> QED BY <2>1, <2>2
<1> QED BY <1>1, <1>2 DEF LInv

(* The record of a pool is known by its fields. *)
LEMMA PoolFields ==
  ASSUME NEW d, d = [x \in {"fblkcnt", "unused", "freelist"} |-> d[x]]
  PROVE  d = [fblkcnt |-> d.fblkcnt, unused |-> d.unused, freelist |-> d.freelist]
OBVIOUS

(* get_mpf_block finds a block when fblkcnt says so. *)
LEMMA BlockGot ==
  ASSUME LInv(k), NEW o \in Mpf, k.mpf[o].fblkcnt > 0, NEW r, r = get_mpf_block(o)
  PROVE  LInv(r)
<1>1. PICK d, mb : d = k.mpf[o] /\ mb = k.mpfmb[o]
  OBVIOUS
<1>2. PICK n \in Nat : n = k.blkcnt[o]
  BY DEF LInv, LType
<1>3. PICK s : PoolOK(s, d, mb, n)
  BY <1>1, <1>2 DEF LInv
<1>4. PICK b : b = IF d.freelist # INDEX_NULL THEN d.freelist ELSE d.unused
  OBVIOUS
<1>5. PICK z : z = [mb EXCEPT ![b] = INDEX_ALLOC]
  OBVIOUS
<1>6. PICK e : e = IF d.freelist # INDEX_NULL
                   THEN [fblkcnt |-> d.fblkcnt - 1, unused |-> d.unused, freelist |-> mb[b]]
                   ELSE [fblkcnt |-> d.fblkcnt - 1, unused |-> d.unused + 1, freelist |-> d.freelist]
  OBVIOUS
<1>7. PICK y : y = IF d.freelist # INDEX_NULL THEN [d EXCEPT !.freelist = mb[b]]
                   ELSE [d EXCEPT !.unused = d.unused + 1]
  OBVIOUS
<1>8. r = [k EXCEPT !.mpf[o] = [y EXCEPT !.fblkcnt = d.fblkcnt - 1], !.mpfmb[o][b] = INDEX_ALLOC]
  BY <1>1, <1>4, <1>7 DEF get_mpf_block, next_block
<1>9. [y EXCEPT !.fblkcnt = d.fblkcnt - 1] = e
  <2>1. PICK f, u, l : d = [fblkcnt |-> f, unused |-> u, freelist |-> l]
    BY <1>3 DEF PoolOK
  <2>2. CASE d.freelist # INDEX_NULL
    <3>1. PICK a, c : a = d.fblkcnt - 1 /\ c = mb[b]
      OBVIOUS
    <3>2. PICK v : v = [[d EXCEPT !.freelist = c] EXCEPT !.fblkcnt = a]
      OBVIOUS
    <3>3. v = [x \in {"fblkcnt", "unused", "freelist"} |-> v[x]]
      BY ONLY <2>1, <3>2
    <3>4. v.fblkcnt = a /\ v.unused = u /\ v.freelist = c
      BY ONLY <2>1, <3>2
    <3>5. v = [fblkcnt |-> a, unused |-> u, freelist |-> c]
      BY ONLY <3>3, <3>4, PoolFields
    <3>6. d.unused = u
      BY ONLY <2>1
    <3>7. y = [d EXCEPT !.freelist = c] /\ e = [fblkcnt |-> a, unused |-> u, freelist |-> c]
      BY ONLY <1>6, <1>7, <2>2, <3>1, <3>6
    <3> QED BY ONLY <3>1, <3>2, <3>5, <3>7, Zenon
  <2>3. CASE d.freelist = INDEX_NULL
    <3>1. PICK a, c : a = d.fblkcnt - 1 /\ c = d.unused + 1
      OBVIOUS
    <3>2. PICK v : v = [[d EXCEPT !.unused = c] EXCEPT !.fblkcnt = a]
      OBVIOUS
    <3>3. v = [x \in {"fblkcnt", "unused", "freelist"} |-> v[x]]
      BY ONLY <2>1, <3>2
    <3>4. v.fblkcnt = a /\ v.unused = c /\ v.freelist = l
      BY ONLY <2>1, <3>2
    <3>5. v = [fblkcnt |-> a, unused |-> c, freelist |-> l]
      BY ONLY <3>3, <3>4, PoolFields
    <3>6. d.freelist = l
      BY ONLY <2>1
    <3>7. y = [d EXCEPT !.unused = c] /\ e = [fblkcnt |-> a, unused |-> c, freelist |-> l]
      BY ONLY <1>6, <1>7, <2>3, <3>1, <3>6
    <3> QED BY ONLY <3>1, <3>2, <3>5, <3>7, Zenon
  <2> QED BY <2>2, <2>3
<1>10. /\ {"mpf", "mpfmb", "blkcnt"} \subseteq DOMAIN r
       /\ r.mpf = [k.mpf EXCEPT ![o] = e] /\ r.mpfmb = [k.mpfmb EXCEPT ![o] = z]
       /\ r.blkcnt = [k.blkcnt EXCEPT ![o] = n]
  BY <1>1, <1>2, <1>5, <1>8, <1>9 DEF LInv, LType
<1>11. \E t : PoolOK(t, e, z, n)
  <2>1. /\ d.freelist = INDEX_NULL <=> s = <<>>
        /\ s # <<>> => d.freelist = Head(s)
    BY ONLY <1>3, PoolEmpty
  <2>2. CASE s # <<>>
    <3>1. /\ b = Head(s)
          /\ e = [fblkcnt |-> d.fblkcnt - 1, unused |-> d.unused, freelist |-> mb[b]]
      BY ONLY <1>4, <1>6, <2>1, <2>2
    <3>2. PoolOK(Tail(s), e, z, n)
      BY ONLY <1>3, <1>5, <2>2, <3>1, n \in Nat, PoolReuse
    <3> QED BY <3>2
  <2>3. CASE s = <<>>
    <3>1. /\ b = d.unused /\ d.fblkcnt > 0
          /\ e = [fblkcnt |-> d.fblkcnt - 1, unused |-> d.unused + 1, freelist |-> d.freelist]
      BY <1>1, <1>4, <1>6, <2>1, <2>3
    <3>2. PoolOK(<<>>, d, mb, n)
      BY ONLY <1>3, <2>3
    <3>3. PoolOK(<<>>, e, z, n)
      BY ONLY <1>5, <3>1, <3>2, n \in Nat, PoolFresh
    <3> QED BY <3>3
  <2> QED BY <2>2, <2>3
<1> QED BY ONLY LInv(k), o \in Mpf, n \in Nat, <1>10, <1>11, LChanged

(* release_block takes back an allocated block. *)
LEMMA BlockReleased ==
  ASSUME LInv(k), NEW o \in Mpf, NEW b \in 0 .. k.blkcnt[o] - 1, is_allocated(o, b),
         NEW r, r = release_block(o, b)
  PROVE  LInv(r)
<1>1. CASE k.wait_queue[o] # <<>>
  BY <1>1, HeadFrame, LOuter DEF release_block
<1>2. CASE k.wait_queue[o] = <<>>
  <2>1. PICK d, mb : d = k.mpf[o] /\ mb = k.mpfmb[o]
    OBVIOUS
  <2>2. PICK n \in Nat : n = k.blkcnt[o]
    BY DEF LInv, LType
  <2>3. PICK s : PoolOK(s, d, mb, n)
    BY <2>1, <2>2 DEF LInv
  <2>4. PICK e : e = [fblkcnt |-> d.fblkcnt + 1, unused |-> d.unused, freelist |-> b]
    OBVIOUS
  <2>5. PICK z : z = [mb EXCEPT ![b] = d.freelist]
    OBVIOUS
  <2>6. [d EXCEPT !.fblkcnt = d.fblkcnt + 1, !.freelist = b] = e
    <3>1. PICK f, u, l : d = [fblkcnt |-> f, unused |-> u, freelist |-> l]
      BY <2>3 DEF PoolOK
    <3>2. PICK a : a = d.fblkcnt + 1
      OBVIOUS
    <3>3. PICK v : v = [d EXCEPT !.fblkcnt = a, !.freelist = b]
      OBVIOUS
    <3>4. v = [x \in {"fblkcnt", "unused", "freelist"} |-> v[x]]
      BY ONLY <3>1, <3>3
    <3>5. v.fblkcnt = a /\ v.unused = u /\ v.freelist = b
      BY ONLY <3>1, <3>3
    <3>6. v = [fblkcnt |-> a, unused |-> u, freelist |-> b]
      BY ONLY <3>4, <3>5, PoolFields
    <3>7. d.unused = u
      BY ONLY <3>1
    <3>8. e = [fblkcnt |-> a, unused |-> u, freelist |-> b]
      BY ONLY <2>4, <3>2, <3>7
    <3> QED BY ONLY <3>2, <3>3, <3>6, <3>8, Zenon
  <2>7. r = [k EXCEPT !.mpf[o] = [d EXCEPT !.fblkcnt = d.fblkcnt + 1, !.freelist = b],
                      !.mpfmb[o][b] = d.freelist]
    BY <1>2, <2>1 DEF release_block
  <2>8. /\ {"mpf", "mpfmb", "blkcnt"} \subseteq DOMAIN r
        /\ r.mpf = [k.mpf EXCEPT ![o] = e] /\ r.mpfmb = [k.mpfmb EXCEPT ![o] = z]
        /\ r.blkcnt = [k.blkcnt EXCEPT ![o] = n]
    BY <2>1, <2>2, <2>5, <2>6, <2>7 DEF LInv, LType
  <2>9. b \in Nat /\ b < d.unused /\ mb[b] = INDEX_ALLOC
    BY <2>1, <2>2 DEF is_allocated
  <2>10. PoolOK(<<b>> \o s, e, z, n)
    BY ONLY <2>3, <2>4, <2>5, <2>9, n \in Nat, PoolRelease
  <2> QED BY ONLY LInv(k), o \in Mpf, n \in Nat, <2>8, <2>10, LChanged
<1> QED BY <1>1, <1>2

(* The calls on memory pools. *)
LEMMA MpfBlocks ==
  ASSUME ObjInv(k), LInv(k), MpfCalls
  PROVE  LInv(k')
<1>1. /\ "free_mpfcb" \in FreeLists \ {"free_flgcb"}
      /\ ObjSet["free_mpfcb"] = Mpf /\ Mpf \subseteq Wobj
  BY Kinds DEF FreeLists, ObjSet
<1>2. \A r : Touches(r, {}) => LInv(r)
  BY LKeeps
<1>3. \A y : LInv(y) => LInv(t_leave(y))
  BY OuterReady, LOuter
<1>4. ASSUME NEW pk \in CMpf, acre_mpf(pk)
      PROVE  LInv(k')
  <2>1. PICK o : o = Head(k.free_mpfcb)
    OBVIOUS
  <2>2. o \in Mpf
    <3>1. k["free_mpfcb"] \in Seq(Mpf) /\ k["free_mpfcb"] # <<>>
      BY <1>1, <1>4 DEF ObjInv, QOK, QInv, AtrOK, acre_mpf
    <3> QED BY <2>1, <3>1
  <2>3. PICK n \in Nat : n = pk.blkcnt
    BY MpfAssumption
  <2>4. PICK mb : mb = [b \in 0 .. n - 1 |-> INDEX_NULL]
    OBVIOUS
  <2>5. k' = [create_obj(k, o, pk.mpfatr) EXCEPT
                !.free_mpfcb = Tail(@), !.blkcnt[o] = n, !.mpfmb[o] = mb, !.mpf[o] = NewPool(n)]
    BY <1>4, <2>1, <2>3, <2>4 DEF acre_mpf
  <2>6. PICK r : r = k'
    OBVIOUS
  <2>7. /\ {"mpf", "mpfmb", "blkcnt"} \subseteq DOMAIN r
        /\ r.mpf = [k.mpf EXCEPT ![o] = NewPool(n)] /\ r.mpfmb = [k.mpfmb EXCEPT ![o] = mb]
        /\ r.blkcnt = [k.blkcnt EXCEPT ![o] = n]
    BY <2>5, <2>6 DEF create_obj, LInv, LType
  <2>8. PoolOK(<<>>, NewPool(n), mb, n)
    <3>1. DOMAIN mb = 0 .. n - 1
      BY <2>4
    <3> QED BY ONLY <3>1, n \in Nat, PoolNew
  <2>9. LInv(r)
    BY ONLY LInv(k), n \in Nat, <2>2, <2>7, <2>8, LChanged
  <2> QED BY <2>6, <2>9
<1>5. ASSUME NEW o \in Mpf, del_mpf(o)
      PROVE  LInv(k')
  <2>1. k' = t_leave([delete_obj(k, o) EXCEPT !["free_mpfcb"] = Append(@, o)])
        /\ CHECK_TSKCTX_UNL /\ obj_exists(o)
    BY <1>5 DEF del_mpf
  <2>2. Touches(k', {})
    BY ONLY ObjInv(k), <1>1, <2>1, o \in Mpf, DeleteCall
  <2> QED BY <1>2, <2>2
<1>6. ASSUME NEW o \in Mpf, NEW b \in BOOLEAN, get_mpf(o, b)
      PROVE  LInv(k')
  <2>1. CASE k.mpf[o].fblkcnt > 0
    BY <1>6, <2>1, BlockGot DEF get_mpf
  <2>2. CASE ~(k.mpf[o].fblkcnt > 0)
    <3>1. k' = wait_with("MPF", o, b, NULL) /\ CHECK_DISPATCH /\ obj_exists(o)
      BY <1>6, <2>2 DEF get_mpf
    <3>2. "MPF" \in WobjcbKind
      BY DEF WobjcbKind
    <3>3. Touches(k', {})
      BY ONLY ObjInv(k), <1>1, <3>1, <3>2, o \in Mpf, b \in BOOLEAN, WaitCall
    <3> QED BY <1>2, <3>3
  <2> QED BY <2>1, <2>2
<1>7. ASSUME NEW o \in Mpf, pget_mpf(o)
      PROVE  LInv(k')
  BY <1>7, BlockGot DEF pget_mpf
<1>8. ASSUME NEW o \in Mpf, NEW b \in 0 .. k.blkcnt[o] - 1, rel_mpf(o, b)
      PROVE  LInv(k')
  BY <1>3, <1>8, BlockReleased DEF rel_mpf
<1>9. ASSUME NEW o \in Mpf, ini_mpf(o)
      PROVE  LInv(k')
  <2>1. PICK y, z : /\ y = init_wait_queues(k, o)
                    /\ z = [y EXCEPT !.mpf[o] = NewPool(k.blkcnt[o])] /\ k' = t_leave(z)
    BY <1>9 DEF ini_mpf
  <2>2. Static(k) /\ QOK(k) /\ o \in Wobj
    BY <1>1 DEF ObjInv, IInv
  <2>3. Outer(k, y)
    BY ONLY <2>1, <2>2, InitWaits
  <2>4. LInv(y)
    BY ONLY LInv(k), <2>3, LOuter
  <2>5. y.blkcnt = k.blkcnt
    <3>1. "blkcnt" \in DOMAIN k /\ "blkcnt" \notin KernelFields
      BY DEF LInv, LType, KernelFields
    <3> QED BY <2>3, <3>1 DEF Outer, Frame
  <2>6. PICK n \in Nat : n = y.blkcnt[o]
    BY <2>4 DEF LInv, LType
  <2>7. PICK mb : mb = y.mpfmb[o]
    OBVIOUS
  <2>8. DOMAIN mb = 0 .. n - 1
    BY <2>4, <2>6, <2>7 DEF LInv, PoolOK
  <2>9. PoolOK(<<>>, NewPool(n), mb, n)
    BY ONLY <2>8, n \in Nat, PoolNew
  <2>10. z = [y EXCEPT !.mpf[o] = NewPool(n)]
    BY ONLY <2>1, <2>5, <2>6
  <2>11. /\ {"mpf", "mpfmb", "blkcnt"} \subseteq DOMAIN z
         /\ z.mpf = [y.mpf EXCEPT ![o] = NewPool(n)] /\ z.mpfmb = [y.mpfmb EXCEPT ![o] = mb]
         /\ z.blkcnt = [y.blkcnt EXCEPT ![o] = n]
    BY ONLY <2>4, <2>6, <2>7, <2>10, o \in Mpf DEF LInv, LType
  <2>12. LInv(z)
    BY ONLY <2>4, <2>9, <2>11, o \in Mpf, n \in Nat, LChanged
  <2> QED BY <1>3, <2>1, <2>12
<1> QED BY <1>4, <1>5, <1>6, <1>7, <1>8, <1>9 DEF MpfCalls

-----------------------------------------------------------------------------
(***************************************************************************)
(* The blocks from the initial states on.                                  *)
(***************************************************************************)

(* Both parts are about these fields. *)
BlockFields == {"pdq", "pdqcnt", "mpf", "mpfmb", "blkcnt"}

(* The initialization of other objects leaves them alone. *)
LEMMA ExtendKeeps ==
  ASSUME NEW j, NEW e, NEW r, r = extend(j, e)
  PROVE  /\ PInv(j) /\ "pdq" \notin DOMAIN e /\ "pdqcnt" \notin DOMAIN e => PInv(r)
         /\ LInv(j) /\ {"mpf", "mpfmb", "blkcnt"} \cap DOMAIN e = {} => LInv(r)
<1>1. DOMAIN r = DOMAIN j \cup DOMAIN e /\ \A f \in DOMAIN j \ DOMAIN e : r[f] = j[f]
  BY DEF extend
<1>2. ASSUME PInv(j), "pdq" \notin DOMAIN e, "pdqcnt" \notin DOMAIN e
      PROVE  PInv(r)
  <2>1. Blocks(j, r)
    BY ONLY <1>1, <1>2 DEF Blocks, PInv, PType
  <2> QED BY <1>2, <2>1, PSame
<1>3. ASSUME LInv(j), {"mpf", "mpfmb", "blkcnt"} \cap DOMAIN e = {}
      PROVE  LInv(r)
  <2>1. \A f \in {"mpf", "mpfmb", "blkcnt"} : f \in DOMAIN r /\ r[f] = j[f]
    BY ONLY <1>1, <1>3 DEF LInv, LType
  <2>2. r.mpf = j.mpf /\ r.mpfmb = j.mpfmb /\ r.blkcnt = j.blkcnt
    BY ONLY <2>1
  <2> QED BY ONLY LInv(j), <1>3, <2>1, <2>2 DEF LInv, LType
<1> QED BY <1>2, <1>3

(* initialize_pridataq: no block is in use. *)
LEMMA InitPdq ==
  ASSUME NEW j, NEW r, r = initialize_pridataq(j)
  PROVE  PInv(r)
<1>1. PICK n : n = [o \in Pdq |-> IF o \in ToSet(apdq)
                                  THEN [pdqatr |-> "TA_NOEXS", pdqcnt |-> 0, maxdpri |-> 0]
                                  ELSE pdqinib[o]]
  OBVIOUS
<1>2. PICK e : e = [wobjatr    |-> extend(j.wobjatr, [o \in Pdq |-> n[o].pdqatr]),
                    pdqcnt     |-> [o \in Pdq |-> n[o].pdqcnt],
                    maxdpri    |-> [o \in Pdq |-> n[o].maxdpri],
                    pdqmb      |-> [o \in Pdq |-> [b \in 0 .. n[o].pdqcnt - 1 |-> NULL]],
                    pdq        |-> [o \in Pdq |-> NoPdqData],
                    free_pdqcb |-> apdq]
  OBVIOUS
<1>3. r = extend(j, e)
  BY <1>1, <1>2 DEF initialize_pridataq
<1>4. /\ "pdqcnt" \in DOMAIN e /\ "pdq" \in DOMAIN e
      /\ e["pdq"] = [o \in Pdq |-> NoPdqData] /\ e["pdqcnt"] = [o \in Pdq |-> n[o].pdqcnt]
  BY <1>2
<1>5. \A o \in Pdq : n[o].pdqcnt \in Nat
  BY <1>1, PdqAssumption
<1>6. /\ {"pdq", "pdqcnt"} \subseteq DOMAIN r
      /\ r["pdqcnt"] = e["pdqcnt"] /\ r["pdq"] = e["pdq"]
  BY ONLY <1>3, <1>4 DEF extend
<1>7. \A n1 \in Nat : BlocksOK(NoPdqData, n1)
  BY DEF BlocksOK, NoPdqData, Shared, Distinct, In
<1> QED BY ONLY <1>4, <1>5, <1>6, <1>7 DEF PInv, PType

(* initialize_mempfix: every block is free. *)
LEMMA InitMpf ==
  ASSUME NEW j, NEW r, r = initialize_mempfix(j)
  PROVE  LInv(r) /\ (PInv(j) => PInv(r))
<1>1. PICK n : n = [o \in Mpf |-> IF o \in ToSet(ampf)
                                  THEN [mpfatr |-> "TA_NOEXS", blkcnt |-> 0]
                                  ELSE mpfinib[o]]
  OBVIOUS
<1>2. PICK e : e = [wobjatr    |-> extend(j.wobjatr, [o \in Mpf |-> n[o].mpfatr]),
                    blkcnt     |-> [o \in Mpf |-> n[o].blkcnt],
                    mpfmb      |-> [o \in Mpf |-> [b \in 0 .. n[o].blkcnt - 1 |-> INDEX_NULL]],
                    mpf        |-> [o \in Mpf |-> NewPool(n[o].blkcnt)],
                    free_mpfcb |-> ampf]
  OBVIOUS
<1>3. r = extend(j, e)
  BY <1>1, <1>2 DEF initialize_mempfix
<1>4. PICK c, m, d : /\ c = [o \in Mpf |-> n[o].blkcnt]
                     /\ m = [o \in Mpf |-> [b \in 0 .. n[o].blkcnt - 1 |-> INDEX_NULL]]
                     /\ d = [o \in Mpf |-> NewPool(n[o].blkcnt)]
  OBVIOUS
<1>5. /\ DOMAIN e = {"wobjatr", "blkcnt", "mpfmb", "mpf", "free_mpfcb"}
      /\ e["blkcnt"] = c /\ e["mpfmb"] = m /\ e["mpf"] = d
  BY ONLY <1>2, <1>4
<1>6. /\ {"mpf", "mpfmb", "blkcnt"} \subseteq DOMAIN r
      /\ r["blkcnt"] = c /\ r["mpfmb"] = m /\ r["mpf"] = d
  BY ONLY <1>3, <1>5 DEF extend
<1>7. \A o \in Mpf : n[o].blkcnt \in Nat
  BY <1>1, MpfAssumption
<1>8. LType(r)
  BY ONLY <1>4, <1>6, <1>7 DEF LType
<1>9. ASSUME NEW o \in Mpf PROVE \E s : PoolOK(s, r.mpf[o], r.mpfmb[o], r.blkcnt[o])
  <2>1. PICK i \in Nat : i = n[o].blkcnt
    BY <1>7
  <2>2. PICK mb : mb = [b \in 0 .. i - 1 |-> INDEX_NULL]
    OBVIOUS
  <2>3. DOMAIN mb = 0 .. i - 1
    BY <2>2
  <2>4. PoolOK(<<>>, NewPool(i), mb, i)
    BY ONLY <2>3, i \in Nat, PoolNew
  <2>5. r.mpf[o] = NewPool(i) /\ r.mpfmb[o] = mb /\ r.blkcnt[o] = i
    BY ONLY o \in Mpf, <1>4, <1>6, <2>1, <2>2
  <2> QED BY ONLY <2>4, <2>5
<1>10. PInv(j) => PInv(r)
  <2>1. "pdq" \notin DOMAIN e /\ "pdqcnt" \notin DOMAIN e
    BY <1>5
  <2> QED BY ONLY <1>3, <2>1, ExtendKeeps
<1> QED BY <1>8, <1>9, <1>10 DEF LInv

(* initialize_mailbox. *)
LEMMA InitMbx ==
  ASSUME NEW j, PInv(j), NEW r, r = initialize_mailbox(j)
  PROVE  PInv(r)
<1>1. PICK w, m, x, h, l, p :
        /\ m = [o \in Mbx |-> (IF o \in ToSet(ambx)
                               THEN [tpri |-> "TA_NOEXS", mpri |-> FALSE, maxmpri |-> 1]
                               ELSE mbxinib[o]).mpri]
        /\ x = [o \in Mbx |-> (IF o \in ToSet(ambx)
                               THEN [tpri |-> "TA_NOEXS", mpri |-> FALSE, maxmpri |-> 1]
                               ELSE mbxinib[o]).maxmpri]
        /\ w = extend(j.wobjatr,
                      [o \in Mbx |-> (IF o \in ToSet(ambx)
                                      THEN [tpri |-> "TA_NOEXS", mpri |-> FALSE, maxmpri |-> 1]
                                      ELSE mbxinib[o]).tpri])
        /\ h = [o \in Mbx |-> NULL] /\ l = [o \in Mbx |-> NULL] /\ p = [o \in Msg |-> NULL]
  OBVIOUS
<1>2. PICK e : e = [wobjatr |-> w, mpri |-> m, maxmpri |-> x, pk_head |-> h, pk_last |-> l,
                    pk_next |-> p, free_mbxcb |-> ambx]
  OBVIOUS
<1>3. r = extend(j, e)
  BY ONLY r = initialize_mailbox(j), <1>1, <1>2 DEF initialize_mailbox
<1>4. "pdq" \notin DOMAIN e /\ "pdqcnt" \notin DOMAIN e
  BY ONLY <1>2
<1> QED BY ONLY PInv(j), <1>3, <1>4, ExtendKeeps

(* The blocks in the initial states. *)
LEMMA InitBlocks ==
  ASSUME InitObjects
  PROVE  PInv(k) /\ LInv(k)
<1>1. PICK p \in Program : k = extend(initialize_objects, [program |-> p])
  BY DEF InitObjects
<1>2. PICK x3 : x3 = initialize_dataqueue(initialize_eventflag(initialize_semaphore(initialize_winfo(KInit))))
  OBVIOUS
<1>3. PICK x4 : x4 = initialize_pridataq(x3)
  OBVIOUS
<1>4. PICK x5 : x5 = initialize_mailbox(x4)
  OBVIOUS
<1>5. PICK x : x = initialize_mempfix(x5)
  OBVIOUS
<1>6. x = initialize_objects
  BY ONLY <1>2, <1>3, <1>4, <1>5 DEF initialize_objects
<1>7. PInv(x4)
  BY ONLY <1>3, InitPdq
<1>8. PInv(x5)
  BY ONLY <1>4, <1>7, InitMbx
<1>9. PInv(x) /\ LInv(x)
  BY ONLY <1>5, <1>8, InitMpf
<1>10. PICK e : e = [program |-> p]
  OBVIOUS
<1>11. DOMAIN e = {"program"}
  BY ONLY <1>10
<1>12. k = extend(x, e)
  BY ONLY <1>1, <1>6, <1>10
<1>13. "pdq" \notin DOMAIN e /\ "pdqcnt" \notin DOMAIN e /\ {"mpf", "mpfmb", "blkcnt"} \cap DOMAIN e = {}
  BY ONLY <1>11
<1> QED BY ONLY <1>9, <1>12, <1>13, ExtendKeeps

(* Every step keeps the blocks. *)
LEMMA NextBlocks ==
  ASSUME ObjInv(k), FInv(k), PInv(k), LInv(k), [NextObjects]_k
  PROVE  PInv(k') /\ LInv(k')
<1>1. ASSUME NEW F, F \cap BlockFields = {}, Touches(k', F)
      PROVE  PInv(k') /\ LInv(k')
  <2>1. "pdq" \notin F /\ "pdqcnt" \notin F /\ F \cap {"mpf", "mpfmb", "blkcnt"} = {}
    BY ONLY <1>1 DEF BlockFields
  <2> QED BY ONLY PInv(k), LInv(k), <1>1, <2>1, PKeeps, LKeeps
<1>2. /\ {} \cap BlockFields = {} /\ SemFields \cap BlockFields = {}
      /\ DtqFields \cap BlockFields = {} /\ MbxFields \cap BlockFields = {}
  BY DEF SemFields, DtqFields, MbxFields, BlockFields
<1>3. CASE k' = k
  BY ONLY <1>3, PInv(k), LInv(k)
<1>4. CASE TaskCalls
  BY ONLY ObjInv(k), <1>1, <1>2, <1>4, TaskInv
<1>5. CASE SemCalls
  BY ONLY ObjInv(k), <1>1, <1>2, <1>5, SemInv
<1>6. CASE FlgCalls
  <2>1. Frame(k, k', ObjFields \cup {"winfo_data"} \cup FlgFields)
    BY <1>6, FlgInv DEF FlgKept
  <2>2. "pdq" \notin FlgFields /\ "pdqcnt" \notin FlgFields /\ FlgFields \cap {"mpf", "mpfmb", "blkcnt"} = {}
    BY DEF FlgFields
  <2> QED BY ONLY PInv(k), LInv(k), <2>1, <2>2, PFrame, LFrame
<1>7. CASE DtqCalls
  BY ONLY ObjInv(k), <1>1, <1>2, <1>7, DtqInv
<1>8. CASE PdqCalls
  <2>1. Touches(k', PdqFields)
    BY <1>8, PdqInv
  <2>2. PdqFields \cap {"mpf", "mpfmb", "blkcnt"} = {}
    BY DEF PdqFields
  <2> QED BY ONLY ObjInv(k), PInv(k), LInv(k), <1>8, <2>1, <2>2, PdqBlocks, LKeeps
<1>9. CASE MbxCalls
  BY ONLY ObjInv(k), <1>1, <1>2, <1>9, MbxInv
<1>10. CASE MpfCalls
  <2>1. Touches(k', MpfFields)
    BY <1>10, MpfInv
  <2>2. "pdq" \notin MpfFields /\ "pdqcnt" \notin MpfFields
    BY DEF MpfFields
  <2> QED BY ONLY ObjInv(k), PInv(k), LInv(k), <1>10, <2>1, <2>2, MpfBlocks, PKeeps
<1>11. NextObjects \/ k' = k
  OBVIOUS
<1> QED BY ONLY <1>3, <1>4, <1>5, <1>6, <1>7, <1>8, <1>9, <1>10, <1>11 DEF NextObjects

(* The second inductive invariant: the lists of blocks of the priority     *)
(* data queues and of the memory pools.                                    *)
THEOREM ObjectsBlocks == SpecObjects => [](PInv(k) /\ LInv(k))
<1>1. InitObjects => PInv(k) /\ LInv(k)
  BY InitBlocks
<1>2. /\ PInv(k) /\ LInv(k) /\ (ObjInv(k) /\ FInv(k)) /\ [NextObjects]_k
      => (PInv(k) /\ LInv(k))'
  <2>1. ASSUME ObjInv(k), FInv(k), PInv(k), LInv(k), [NextObjects]_k
        PROVE  PInv(k') /\ LInv(k')
    BY ONLY <2>1, NextBlocks
  <2> QED BY <2>1
<1> QED BY <1>1, <1>2, ObjectsInvariant, PTL DEF SpecObjects

(* Two lists that share the blocks below u, one after the other. *)
LEMMA SharedBlocks ==
  ASSUME NEW h, NEW q, NEW u, Shared(h, q, u), NEW l, l = h \o q
  PROVE  IsInjective(l) /\ ToSet(l) = 0 .. u - 1
<1>1. /\ h \in Seq(Nat) /\ q \in Seq(Nat) /\ u \in Nat /\ Distinct(h) /\ Distinct(q)
      /\ \A b \in Nat : b < u <=> In(h, b) \/ In(q, b)
      /\ \A b \in Nat : ~(In(h, b) /\ In(q, b))
  BY DEF Shared
<1>2. PICK n \in Nat : n = Len(h)
  BY <1>1
<1>3. PICK m \in Nat : m = Len(q)
  BY <1>1
<1>4. /\ l \in Seq(Nat) /\ Len(l) = n + m
      /\ \A i \in 1 .. n + m : l[i] = IF i <= n THEN h[i] ELSE q[i - n]
  BY ONLY l = h \o q, <1>1, <1>2, <1>3, ConcatProperties
<1>5. /\ \A i \in 1 .. n : h[i] \in Nat /\ In(h, h[i])
      /\ \A i \in 1 .. m : q[i] \in Nat /\ In(q, q[i])
      /\ \A i, j \in 1 .. n : h[i] = h[j] => i = j
      /\ \A i, j \in 1 .. m : q[i] = q[j] => i = j
  BY ONLY <1>1, <1>2, <1>3 DEF In, Distinct
<1>6. DOMAIN l = 1 .. n + m
  BY ONLY <1>4
<1>7. ASSUME NEW i \in 1 .. n + m, NEW j \in 1 .. n + m, l[i] = l[j], i <= n, j > n
      PROVE  FALSE
  <2>1. i \in 1 .. n /\ j - n \in 1 .. m
    BY ONLY <1>7, n \in Nat, m \in Nat
  <2>2. l[i] = h[i] /\ l[j] = q[j - n]
    BY ONLY <1>4, <1>7, n \in Nat, m \in Nat
  <2> QED BY ONLY <1>1, <1>5, <1>7, <2>1, <2>2
<1>8. ASSUME NEW i \in 1 .. n + m, NEW j \in 1 .. n + m, l[i] = l[j]
      PROVE  i = j
  <2>1. CASE i <= n /\ j <= n
    BY ONLY <1>4, <1>5, <1>8, <2>1, n \in Nat, m \in Nat
  <2>2. CASE i > n /\ j > n
    <3>1. i - n \in 1 .. m /\ j - n \in 1 .. m
      BY ONLY <1>8, <2>2, n \in Nat, m \in Nat
    <3>2. q[i - n] = q[j - n]
      BY ONLY <1>4, <1>8, <2>2, n \in Nat, m \in Nat
    <3>3. i - n = j - n
      BY ONLY <1>5, <3>1, <3>2
    <3> QED BY ONLY <1>8, <3>3, n \in Nat, m \in Nat
  <2>3. CASE i <= n /\ j > n
    BY ONLY <1>7, <1>8, <2>3
  <2>4. CASE i > n /\ j <= n
    BY ONLY <1>7, <1>8, <2>4
  <2> QED BY ONLY <1>8, <2>1, <2>2, <2>3, <2>4, n \in Nat, m \in Nat
<1>9. IsInjective(l)
  BY ONLY <1>6, <1>8 DEF IsInjective
<1>10. ASSUME NEW b \in Nat PROVE b \in ToSet(l) <=> b < u
  <2>1. ASSUME NEW i \in 1 .. n + m, b = l[i] PROVE b < u
    <3>1. CASE i <= n
      <4>1. i \in 1 .. n /\ l[i] = h[i]
        BY ONLY <1>4, <2>1, <3>1, n \in Nat, m \in Nat
      <4> QED BY ONLY <1>1, <1>5, <2>1, <4>1
    <3>2. CASE i > n
      <4>1. i - n \in 1 .. m /\ l[i] = q[i - n]
        BY ONLY <1>4, <2>1, <3>2, n \in Nat, m \in Nat
      <4> QED BY ONLY <1>1, <1>5, <2>1, <4>1
    <3> QED BY ONLY <3>1, <3>2, <2>1, n \in Nat, m \in Nat
  <2>2. ASSUME b < u PROVE \E i \in 1 .. n + m : b = l[i]
    <3>1. CASE In(h, b)
      <4>1. PICK i \in 1 .. n : h[i] = b
        BY ONLY <1>1, <1>2, <3>1 DEF In
      <4>2. i \in 1 .. n + m /\ l[i] = b
        BY ONLY <1>4, <4>1, n \in Nat, m \in Nat
      <4> QED BY ONLY <4>2
    <3>2. CASE In(q, b)
      <4>1. PICK i \in 1 .. m : q[i] = b
        BY ONLY <1>1, <1>3, <3>2 DEF In
      <4>2. PICK j : j = n + i
        OBVIOUS
      <4>3. j \in 1 .. n + m /\ j > n /\ j - n = i
        BY ONLY <4>1, <4>2, n \in Nat, m \in Nat
      <4>4. l[j] = b
        BY ONLY <1>4, <4>1, <4>3, n \in Nat, m \in Nat
      <4> QED BY ONLY <4>3, <4>4
    <3> QED BY ONLY b \in Nat, <1>1, <2>2, <3>1, <3>2
  <2> QED BY ONLY <1>6, <2>1, <2>2 DEF ToSet
<1>11. ToSet(l) \subseteq Nat
  BY ONLY <1>4 DEF ToSet
<1>12. ToSet(l) = 0 .. u - 1
  <2>1. \A b : b \in 0 .. u - 1 <=> b \in Nat /\ b < u
    BY ONLY <1>1
  <2>2. \A b : b \in ToSet(l) <=> b \in Nat /\ b < u
    BY ONLY <1>10, <1>11
  <2>3. PICK A, B : A = ToSet(l) /\ B = 0 .. u - 1
    OBVIOUS
  <2>4. \A b : b \in A <=> b \in B
    BY ONLY <2>1, <2>2, <2>3
  <2>5. A = B
    BY ONLY <2>4
  <2> QED BY ONLY <2>3, <2>5
<1> QED BY ONLY <1>9, <1>12

(* Every block of a priority data queue is in its queue or in its free     *)
(* list, never in both or twice, or was never used: no datum overwrites    *)
(* another and no block is lost, through all the orders in which tasks and *)
(* handlers send, receive, initialize and delete.                          *)
THEOREM ObjectsPdqBlocks == SpecObjects => []PdqBlocksOK
<1>1. PInv(k) /\ LInv(k) => PdqBlocksOK
  <2> SUFFICES ASSUME PInv(k), NEW o \in Pdq, NEW d, d = k.pdq[o],
                      NEW l, l = d.p_head \o d.p_freelist
               PROVE  /\ IsInjective(l) /\ ToSet(l) = 0 .. d.unused - 1
                      /\ Len(d.p_head) = d.count /\ d.unused <= k.pdqcnt[o]
    BY DEF PdqBlocksOK
  <2>1. Shared(d.p_head, d.p_freelist, d.unused) /\ d.count = Len(d.p_head) /\ d.unused <= k.pdqcnt[o]
    BY DEF PInv, BlocksOK
  <2>2. IsInjective(l) /\ ToSet(l) = 0 .. d.unused - 1
    <3>1. PICK h, f, u : h = d.p_head /\ f = d.p_freelist /\ u = d.unused
      OBVIOUS
    <3>2. Shared(h, f, u) /\ l = h \o f
      BY ONLY l = d.p_head \o d.p_freelist, <2>1, <3>1
    <3>3. IsInjective(l) /\ ToSet(l) = 0 .. u - 1
      BY ONLY <3>2, SharedBlocks
    <3> QED BY ONLY <3>1, <3>3
  <2> QED BY ONLY <2>1, <2>2
<1> QED BY <1>1, ObjectsBlocks, PTL

(* A block of a memory pool is free or allocated, never both: the list of  *)
(* released blocks has no cycle and holds each once, the others are marked *)
(* as allocated, and fblkcnt counts the free ones, though the list is      *)
(* threaded through the words of the blocks themselves.                    *)
THEOREM ObjectsMpfBlocks == SpecObjects => []MpfBlocksOK
<1>1. PInv(k) /\ LInv(k) => MpfBlocksOK
  <2> SUFFICES ASSUME LInv(k), NEW o \in Mpf, NEW q, q = MpfBuf(o)
               PROVE  /\ IsInjective(q) /\ Len(q) = k.mpf[o].fblkcnt
                      /\ \A b \in 0 .. k.blkcnt[o] - 1 :
                           b \in ToSet(q) <=> b >= k.mpf[o].unused \/ k.mpfmb[o][b] # INDEX_ALLOC
    BY DEF MpfBlocksOK
  <2>1. PICK d, mb : d = k.mpf[o] /\ mb = k.mpfmb[o]
    OBVIOUS
  <2>2. PICK n \in Nat : n = k.blkcnt[o]
    BY DEF LInv, LType
  <2>3. PICK s : PoolOK(s, d, mb, n)
    BY <2>1, <2>2 DEF LInv
  <2>4. q = FreeBlocks(d, mb, n)
    BY ONLY q = MpfBuf(o), <2>1, <2>2 DEF MpfBuf, FreeBlocks
  <2>5. /\ IsInjective(q) /\ Len(q) = d.fblkcnt
        /\ \A b \in 0 .. n - 1 : b \in ToSet(q) <=> b >= d.unused \/ mb[b] # INDEX_ALLOC
    BY ONLY n \in Nat, <2>3, <2>4, PoolBlocks
  <2> QED BY ONLY <2>1, <2>2, <2>5
<1> QED BY <1>1, ObjectsBlocks, PTL
=============================================================================
