---------------------------- MODULE Mutex_proofs ----------------------------
(***************************************************************************)
(* The mutexes, for every number of tasks, mutexes and priorities, in a    *)
(* program that deletes no locked mutex and initializes only registered    *)
(* ones (SpecOrderly).                                                     *)
(*                                                                         *)
(* The inductive invariant is IInv of Kernel_proofs, the tables of the     *)
(* task part, and MInv, which relates the owners, the mutex queues, the    *)
(* wait queues and the priorities.  In the middle of a service call parts  *)
(* of it do not hold: MInv(x, X, Y, L) leaves out the tasks X, which have  *)
(* left the wait queues, the priorities of the tasks Y, and the mutexes L, *)
(* which have left the queue of their owner.                               *)
(***************************************************************************)
EXTENDS Mutex, Kernel_proofs, TLAPS

MtxFields == {"tstat", "priority", "bpriority", "mutex_queue", "p_wobjcb", "wait_queue",
              "wobjatr", "p_loctsk", "ceilpri", "free_mtxcb", "undef"}

MtxType(x) ==
  /\ MtxFields \subseteq DOMAIN x
  /\ x.tstat \in [Task -> SUBSET TstatFlag]
  /\ x.priority \in [Task -> TPRI] /\ x.bpriority \in [Task -> TPRI]
  /\ x.mutex_queue \in [Task -> Seq(Wobj)] /\ x.p_wobjcb \in [Task -> Wobj \cup {NULL}]
  /\ x.wait_queue \in [Wobj -> Seq(Task)]
  /\ x.wobjatr \in [Wobj -> {"TA_NULL", "TA_TPRI", "TA_CEILING", "TA_NOEXS"}]
  /\ x.p_loctsk \in [Wobj -> Task \cup {NULL}]
  /\ x.ceilpri \in [Wobj -> 0 .. TNUM_TPRI]
  /\ x.free_mtxcb \in Seq(Wobj) /\ x.undef = FALSE


(* The mutex queues hold the locked mutexes; an owner is active. *)
OwnersOK(x, L) ==
  /\ \A t \in Task, m \in Wobj : In(x.mutex_queue[t], m) <=> x.p_loctsk[m] = t /\ m \notin L
  /\ \A t \in Task : Distinct(x.mutex_queue[t])
  /\ \A m \in Wobj : x.p_loctsk[m] # NULL =>
       x.wobjatr[m] # "TA_NOEXS" /\ x.tstat[x.p_loctsk[m]] # {}

(* The wait queues hold the waiting tasks; one that has a task is owned. *)
QueuesOK(x, X) ==
  /\ \A t \in Task, m \in Wobj :
       In(x.wait_queue[m], t) <=> "MTX" \in x.tstat[t] /\ x.p_wobjcb[t] = m /\ t \notin X
  /\ \A m \in Wobj : Distinct(x.wait_queue[m])
  /\ \A m \in Wobj : x.p_loctsk[m] = NULL => x.wait_queue[m] = <<>>
  /\ \A m \in Wobj : TA_TPRI(x, m) => Ordered(x.wait_queue[m], x.priority)

(* The only objects are mutexes, and a task waits for one thing. *)
KindOK(ts, o) ==
  /\ \A w \in WobjKind : w \in ts => w = "MTX"
  /\ "MTX" \in ts => /\ o \in Wobj /\ "WAITING" \in ts
                     /\ "RUNNABLE" \notin ts /\ "SLP" \notin ts /\ "DLY" \notin ts

CeilOK(x) ==
  \A t \in Task, m \in Wobj :
    MTX_CEILING(x, m) /\ (x.p_loctsk[m] = t \/ In(x.wait_queue[m], t))
      => x.ceilpri[m] <= x.bpriority[t]

Ceiled(x, t, m) == In(x.mutex_queue[t], m) /\ MTX_CEILING(x, m)

(* p is what mutex_calc_priority computes for t, and t has that priority. *)
PriIs(x, t, p) ==
  /\ p <= x.bpriority[t]
  /\ \A m \in Wobj : Ceiled(x, t, m) => p <= x.ceilpri[m]
  /\ p = x.bpriority[t] \/ \E m \in Wobj : Ceiled(x, t, m) /\ p = x.ceilpri[m]

PriOK(x, t) == PriIs(x, t, x.priority[t])

FreeMtxOK(x) ==
  /\ \A m \in Wobj : In(x.free_mtxcb, m) => x.wobjatr[m] = "TA_NOEXS"
  /\ Distinct(x.free_mtxcb)

MInv(x, X, Y, L) ==
  /\ MtxType(x) /\ OwnersOK(x, L) /\ QueuesOK(x, X)
  /\ \A t \in Task : KindOK(x.tstat[t], x.p_wobjcb[t])
  /\ CeilOK(x) /\ (\A t \in Task \ Y : PriOK(x, t)) /\ FreeMtxOK(x)

-----------------------------------------------------------------------------
(***************************************************************************)
(* Steps that leave the fields of MInv alone, or all but the fields F.     *)
(***************************************************************************)
SameMtx(j, r, F) == MtxFields \subseteq DOMAIN r /\ \A f \in MtxFields \ F : r[f] = j[f]

(* Two steps in a row. *)
LEMMA SameTrans ==
  ASSUME NEW j, NEW r, NEW s, NEW F, SameMtx(j, r, F), SameMtx(r, s, F)
  PROVE  SameMtx(j, s, F)
BY DEF SameMtx

(* The field equalities behind SameMtx. *)
LEMMA SameFields ==
  ASSUME NEW j, NEW r, SameMtx(j, r, {})
  PROVE  /\ r.tstat = j.tstat /\ r.priority = j.priority /\ r.bpriority = j.bpriority
         /\ r.mutex_queue = j.mutex_queue /\ r.p_wobjcb = j.p_wobjcb
         /\ r.wait_queue = j.wait_queue /\ r.wobjatr = j.wobjatr /\ r.p_loctsk = j.p_loctsk
         /\ r.ceilpri = j.ceilpri /\ r.free_mtxcb = j.free_mtxcb /\ r.undef = j.undef
BY DEF SameMtx, MtxFields

(* MInv is about these fields only. *)
LEMMA MSame ==
  ASSUME NEW j, NEW X, NEW Y, NEW L, MInv(j, X, Y, L), NEW r, SameMtx(j, r, {})
  PROVE  MInv(r, X, Y, L)
<1>1. /\ r.tstat = j.tstat /\ r.priority = j.priority /\ r.bpriority = j.bpriority
      /\ r.mutex_queue = j.mutex_queue /\ r.p_wobjcb = j.p_wobjcb
      /\ r.wait_queue = j.wait_queue /\ r.wobjatr = j.wobjatr /\ r.p_loctsk = j.p_loctsk
      /\ r.ceilpri = j.ceilpri /\ r.free_mtxcb = j.free_mtxcb /\ r.undef = j.undef
  BY SameFields
<1>2. MtxFields \subseteq DOMAIN r
  BY DEF SameMtx
<1>3. MtxType(r) /\ OwnersOK(r, L)
  BY <1>1, <1>2 DEF MInv, MtxType, OwnersOK
<1>4. QueuesOK(r, X) /\ (\A t \in Task : KindOK(r.tstat[t], r.p_wobjcb[t]))
  BY <1>1 DEF MInv, QueuesOK, TA_TPRI
<1>5. CeilOK(r) /\ (\A t \in Task \ Y : PriOK(r, t)) /\ FreeMtxOK(r)
  BY <1>1 DEF MInv, CeilOK, PriOK, PriIs, Ceiled, MTX_CEILING, FreeMtxOK
<1> QED BY <1>3, <1>4, <1>5 DEF MInv

(* The functions of the ready queue and of the ends of calls. *)
LEMMA SameReady ==
  ASSUME NEW j, MtxFields \subseteq DOMAIN j, NEW t, NEW p, NEW i
  PROVE  /\ SameMtx(j, make_runnable(j, t), {}) /\ SameMtx(j, make_non_runnable(j, t), {})
         /\ SameMtx(j, rotate_ready_queue(j, p), {}) /\ SameMtx(j, activate_context(j, t), {})
         /\ SameMtx(j, dispatcher(j), {}) /\ SameMtx(j, t_leave(j), {})
         /\ SameMtx(j, i_leave(j), {}) /\ SameMtx(j, Void(i, j), {})
         /\ SameMtx(j, wait_dequeue_tmevtb(j, t), {}) /\ SameMtx(j, set_wercd(j, t, p), {})
<1>1. SameMtx(j, make_runnable(j, t), {}) /\ SameMtx(j, rotate_ready_queue(j, p), {})
  BY DEF SameMtx, MtxFields, make_runnable, rotate_ready_queue
<1>2. SameMtx(j, make_non_runnable(j, t), {})
  BY DEF SameMtx, MtxFields, make_non_runnable, ready_delete
<1>3. SameMtx(j, activate_context(j, t), {}) /\ SameMtx(j, dispatcher(j), {})
  BY DEF SameMtx, MtxFields, activate_context, dispatcher
<1>4. /\ SameMtx(j, t_leave(j), {}) /\ SameMtx(j, i_leave(j), {})
      /\ SameMtx(j, Void(i, j), {})
  BY DEF SameMtx, MtxFields, dispatcher, t_leave, i_leave, Void
<1>5. SameMtx(j, wait_dequeue_tmevtb(j, t), {}) /\ SameMtx(j, set_wercd(j, t, p), {})
  BY DEF SameMtx, MtxFields, wait_dequeue_tmevtb, set_wercd
<1> QED BY <1>1, <1>2, <1>3, <1>4, <1>5

(* A step that changes only task states, and not who waits for a mutex:    *)
(* X1 takes the place of X.                                                *)
LEMMA MStat ==
  ASSUME NEW j, NEW X, NEW Y, NEW L, MInv(j, X, Y, L),
         NEW r, SameMtx(j, r, {"tstat"}), r.tstat \in [Task -> SUBSET TstatFlag], NEW X1,
         \A u \in Task : "MTX" \in r.tstat[u] /\ u \notin X1
                           <=> "MTX" \in j.tstat[u] /\ u \notin X,
         \A u \in Task : r.tstat[u] = {} => j.tstat[u] = {},
         \A u \in Task : KindOK(r.tstat[u], r.p_wobjcb[u])
  PROVE  MInv(r, X1, Y, L)
<1>1. /\ r.priority = j.priority /\ r.bpriority = j.bpriority
      /\ r.mutex_queue = j.mutex_queue /\ r.p_wobjcb = j.p_wobjcb
      /\ r.wait_queue = j.wait_queue /\ r.wobjatr = j.wobjatr /\ r.p_loctsk = j.p_loctsk
      /\ r.ceilpri = j.ceilpri /\ r.free_mtxcb = j.free_mtxcb /\ r.undef = j.undef
  BY DEF SameMtx, MtxFields
<1>2. MtxFields \subseteq DOMAIN r
  BY DEF SameMtx
<1>6. MtxType(r)
  BY <1>1, <1>2 DEF MInv, MtxType
<1>3. OwnersOK(r, L)
  <2>1. \A m \in Wobj : r.p_loctsk[m] # NULL =>
          r.p_loctsk[m] \in Task /\ r.wobjatr[m] # "TA_NOEXS" /\ r.tstat[r.p_loctsk[m]] # {}
    <3>1. ASSUME NEW m \in Wobj, r.p_loctsk[m] # NULL
          PROVE  /\ r.p_loctsk[m] \in Task /\ r.wobjatr[m] # "TA_NOEXS"
                 /\ r.tstat[r.p_loctsk[m]] # {}
      <4>1. PICK t \in Task : t = j.p_loctsk[m]
        BY <1>1, <3>1 DEF MInv, MtxType
      <4>2. r.wobjatr[m] # "TA_NOEXS" /\ j.tstat[t] # {}
        BY <1>1, <3>1, <4>1 DEF MInv, OwnersOK
      <4> QED BY <1>1, <4>1, <4>2
    <3> QED BY <3>1
  <2> QED BY <1>1, <2>1 DEF MInv, OwnersOK
<1>4. QueuesOK(r, X1)
  <2>1. \A u \in Task, m \in Wobj :
          In(r.wait_queue[m], u) <=> "MTX" \in r.tstat[u] /\ r.p_wobjcb[u] = m /\ u \notin X1
    BY <1>1 DEF MInv, QueuesOK
  <2> QED BY <2>1, <1>1 DEF MInv, QueuesOK, TA_TPRI
<1>5. CeilOK(r) /\ (\A t \in Task \ Y : PriOK(r, t)) /\ FreeMtxOK(r)
  BY <1>1 DEF MInv, CeilOK, PriOK, PriIs, Ceiled, MTX_CEILING, FreeMtxOK
<1> QED BY <1>3, <1>4, <1>5, <1>6 DEF MInv

(* t leaves the wait queue of m, if it was in it. *)
LEMMA MTake ==
  ASSUME NEW j, NEW X, NEW Y, NEW L, MInv(j, X, Y, L), NEW t \in Task, NEW m \in Wobj,
         t \in X \/ "MTX" \notin j.tstat[t] \/ j.p_wobjcb[t] = m,
         NEW r, SameMtx(j, r, {"wait_queue"}), NEW q \in Seq(Task),
         r.wait_queue = [j.wait_queue EXCEPT ![m] = q], Distinct(q),
         \A u \in Task : In(q, u) <=> In(j.wait_queue[m], u) /\ u # t,
         Ordered(j.wait_queue[m], j.priority) => Ordered(q, j.priority),
         j.wait_queue[m] = <<>> => q = <<>>
  PROVE  MInv(r, X \cup {t}, Y, L)
<1>1. /\ r.tstat = j.tstat /\ r.priority = j.priority /\ r.bpriority = j.bpriority
      /\ r.mutex_queue = j.mutex_queue /\ r.p_wobjcb = j.p_wobjcb
      /\ r.wobjatr = j.wobjatr /\ r.p_loctsk = j.p_loctsk
      /\ r.ceilpri = j.ceilpri /\ r.free_mtxcb = j.free_mtxcb /\ r.undef = j.undef
  BY DEF SameMtx, MtxFields
<1>2. MtxFields \subseteq DOMAIN r
  BY DEF SameMtx
<1>3. j.wait_queue \in [Wobj -> Seq(Task)]
  BY DEF MInv, MtxType
<1>4. r.wait_queue \in [Wobj -> Seq(Task)] /\ r.wait_queue[m] = q
      /\ \A n \in Wobj : n # m => r.wait_queue[n] = j.wait_queue[n]
  BY <1>3
<1>9. MtxType(r)
  BY <1>1, <1>2, <1>4 DEF MInv, MtxType
<1>5. OwnersOK(r, L)
  BY <1>1 DEF MInv, OwnersOK
<1>6. QueuesOK(r, X \cup {t})
  <2>1. ASSUME NEW u \in Task, NEW n \in Wobj
        PROVE  In(r.wait_queue[n], u)
                 <=> "MTX" \in r.tstat[u] /\ r.p_wobjcb[u] = n /\ u \notin X \cup {t}
    <3>1. In(j.wait_queue[n], u) <=> "MTX" \in j.tstat[u] /\ j.p_wobjcb[u] = n /\ u \notin X
      BY DEF MInv, QueuesOK
    <3> QED BY <3>1, <1>1, <1>4
  <2>2. \A n \in Wobj : Distinct(r.wait_queue[n])
    BY <1>4 DEF MInv, QueuesOK
  <2>3. \A n \in Wobj : r.p_loctsk[n] = NULL => r.wait_queue[n] = <<>>
    BY <1>1, <1>4 DEF MInv, QueuesOK
  <2>4. \A n \in Wobj : TA_TPRI(r, n) => Ordered(r.wait_queue[n], r.priority)
    BY <1>1, <1>4 DEF MInv, QueuesOK, TA_TPRI
  <2> QED BY <2>1, <2>2, <2>3, <2>4 DEF QueuesOK
<1>7. CeilOK(r)
  BY <1>1, <1>4 DEF MInv, CeilOK, MTX_CEILING
<1>8. (\A u \in Task \ Y : PriOK(r, u)) /\ FreeMtxOK(r)
  BY <1>1 DEF MInv, PriOK, PriIs, Ceiled, MTX_CEILING, FreeMtxOK
<1> QED BY <1>1, <1>5, <1>6, <1>7, <1>8, <1>9 DEF MInv

(* wait_dequeue_wobj: a waiting task leaves the wait queue it is in. *)
LEMMA MDequeue ==
  ASSUME NEW j, NEW Y, NEW L, MInv(j, {}, Y, L), NEW t \in Task,
         NEW r, r = wait_dequeue_wobj(j, t)
  PROVE  MInv(r, {t}, Y, L) /\ SameMtx(j, r, {"wait_queue"})
<1>0. MtxFields \subseteq DOMAIN j
  BY DEF MInv, MtxType
<1>1. CASE "MTX" \notin j.tstat[t]
  <2>1. r = j
    <3>1. KindOK(j.tstat[t], j.p_wobjcb[t])
      BY DEF MInv
    <3> QED BY <1>1, <3>1 DEF KindOK, wait_dequeue_wobj, TSTAT_WAIT_WOBJ, TSTAT_WAIT
  <2>2. SameMtx(j, r, {"tstat"}) /\ r.tstat \in [Task -> SUBSET TstatFlag]
    BY <1>0, <2>1 DEF SameMtx, MInv, MtxType
  <2>3. \A u \in Task : "MTX" \in r.tstat[u] /\ u \notin {t}
                          <=> "MTX" \in j.tstat[u] /\ u \notin {}
    BY <1>1, <2>1
  <2>4. \A u \in Task : KindOK(r.tstat[u], r.p_wobjcb[u])
    BY <2>1 DEF MInv
  <2>5. \A u \in Task : r.tstat[u] = {} => j.tstat[u] = {}
    BY <2>1
  <2>6. MInv(r, {t}, Y, L)
    BY ONLY <2>2, <2>3, <2>4, <2>5, MInv(j, {}, Y, L), MStat
  <2> QED BY <2>1, <2>6, <1>0 DEF SameMtx
<1>2. CASE "MTX" \in j.tstat[t]
  <2>1. PICK m \in Wobj : m = j.p_wobjcb[t]
    BY <1>2 DEF MInv, KindOK
  <2>2. PICK q : q = queue_delete(j.wait_queue[m], t)
    OBVIOUS
  <2>3. "MTX" \in WobjKind
    BY DEF WobjKind, WobjcbKind
  <2>4. r = [j EXCEPT !.wait_queue[m] = q]
    BY <1>2, <2>1, <2>2, <2>3 DEF wait_dequeue_wobj, TSTAT_WAIT_WOBJ, TSTAT_WAIT
  <2>5. j.wait_queue[m] \in Seq(Task) /\ Distinct(j.wait_queue[m]) /\ In(j.wait_queue[m], t)
    BY <1>2, <2>1 DEF MInv, MtxType, QueuesOK
  <2>6. /\ q \in Seq(Task) /\ Distinct(q)
        /\ \A u \in Task : In(q, u) <=> In(j.wait_queue[m], u) /\ u # t
    BY <2>2, <2>5, Deleted
  <2>7. Ordered(j.wait_queue[m], j.priority) => Ordered(q, j.priority)
    <3>2. ASSUME NEW pri, Ordered(j.wait_queue[m], pri) PROVE Ordered(q, pri)
      <4>1. \A x \in Task : x # t => pri[x] = pri[x]
        OBVIOUS
      <4> QED BY ONLY <2>2, <2>5, <3>2, <4>1, DeletedOrdered, t \in Task
    <3> QED BY <3>2
  <2>8. j.wait_queue[m] # <<>>
    BY <2>5 DEF In
  <2>9. SameMtx(j, r, {"wait_queue"}) /\ r.wait_queue = [j.wait_queue EXCEPT ![m] = q]
    BY <1>0, <2>4 DEF SameMtx, MtxFields
  <2> HIDE <2>2, <2>4
  <2>10. MInv(r, {} \cup {t}, Y, L)
    BY ONLY <2>1, <2>6, <2>7, <2>8, <2>9, MInv(j, {}, Y, L), MTake, t \in Task
  <2>11. {} \cup {t} = {t}
    OBVIOUS
  <2> QED BY <2>9, <2>10, <2>11
<1> QED BY <1>1, <1>2

-----------------------------------------------------------------------------
(***************************************************************************)
(* The end of a wait.                                                      *)
(***************************************************************************)

(* make_non_wait: a task that has left its wait queue waits no more. *)
LEMMA MNonWait ==
  ASSUME NEW j, NEW X, NEW Y, NEW L, MInv(j, X, Y, L), NEW t \in Task,
         t \in X \/ "MTX" \notin j.tstat[t], NEW X1, X1 \subseteq X, X \subseteq X1 \cup {t},
         NEW r, r = make_non_wait(j, t)
  PROVE  /\ MInv(r, X1, Y, L) /\ SameMtx(j, r, {"tstat"})
         /\ r.tstat[t] # {} /\ "MTX" \notin r.tstat[t]
         /\ \A u \in Task \ {t} : r.tstat[u] = j.tstat[u]
<1>1. PICK ts \in {{"SUSPENDED"}, {"RUNNABLE"}} :
        \/ r = [j EXCEPT !.tstat[t] = ts]
        \/ r = make_runnable([j EXCEPT !.tstat[t] = ts], t)
  BY DEF make_non_wait, TS_SUSPENDED, TS_RUNNABLE
<1>2. PICK y : y = [j EXCEPT !.tstat[t] = ts]
  OBVIOUS
<1>3. MtxFields \subseteq DOMAIN y /\ MtxFields \subseteq DOMAIN j /\ "tstat" \in DOMAIN j
  BY <1>2 DEF MInv, MtxType, MtxFields
<1>4. y.tstat = [j.tstat EXCEPT ![t] = ts] /\ SameMtx(j, y, {"tstat"})
  BY <1>2, <1>3 DEF SameMtx
<1>5. r = y \/ r = make_runnable(y, t)
  BY <1>1, <1>2
<1> HIDE <1>1, <1>2
<1>6. SameMtx(y, r, {})
  <2>1. SameMtx(y, make_runnable(y, t), {})
    BY <1>3, SameReady
  <2>2. SameMtx(y, y, {})
    BY <1>3 DEF SameMtx
  <2> QED BY <2>1, <2>2, <1>5
<1>7. r.tstat = y.tstat
  BY <1>6, SameFields
<1>8. SameMtx(j, r, {"tstat"})
  BY <1>4, <1>6 DEF SameMtx
<1>9. j.tstat \in [Task -> SUBSET TstatFlag]
  BY DEF MInv, MtxType
<1>10. ts \subseteq TstatFlag /\ ts # {} /\ "MTX" \notin ts
  BY DEF TstatFlag
<1>11. r.tstat \in [Task -> SUBSET TstatFlag]
  BY <1>4, <1>7, <1>9, <1>10
<1>12. r.tstat[t] = ts /\ \A u \in Task \ {t} : r.tstat[u] = j.tstat[u]
  BY <1>4, <1>7, <1>9
<1>13. \A u \in Task : KindOK(r.tstat[u], r.p_wobjcb[u])
  <2>1. r.p_wobjcb = j.p_wobjcb
    BY <1>8 DEF SameMtx, MtxFields
  <2>2. KindOK(ts, r.p_wobjcb[t])
    BY <1>10 DEF KindOK, WobjKind, WobjcbKind
  <2> QED BY <1>12, <2>1, <2>2 DEF MInv
<1>14. \A u \in Task : r.tstat[u] = {} => j.tstat[u] = {}
  BY <1>10, <1>12
<1>15. \A u \in Task : "MTX" \in r.tstat[u] /\ u \notin X1
                         <=> "MTX" \in j.tstat[u] /\ u \notin X
  BY <1>10, <1>12
<1>16. MInv(r, X1, Y, L)
  BY ONLY <1>8, <1>11, <1>13, <1>14, <1>15, MInv(j, X, Y, L), MStat
<1> QED BY <1>8, <1>10, <1>12, <1>16

(* The ends of a wait: completion, forced release and timeout. *)
LEMMA MWaitEnd ==
  ASSUME NEW j, MInv(j, {}, {}, {}), NEW t \in Task,
         NEW r, \/ r \in {wait_release(j, t), wait_tmout(j, t)}
                \/ "MTX" \notin j.tstat[t] /\ r \in {wait_complete(j, t), wait_tmout_ok(j, t)}
  PROVE  MInv(r, {}, {}, {})
<1>0. MtxFields \subseteq DOMAIN j
  BY DEF MInv, MtxType
<1>1. CASE r \in {wait_release(j, t), wait_tmout(j, t)}
  <2>1. PICK y : y = wait_dequeue_wobj(j, t)
    OBVIOUS
  <2>2. MInv(y, {t}, {}, {})
    BY <2>1, MDequeue
  <2>3. PICK z : /\ r = make_non_wait(z, t)
                 /\ \/ z = set_wercd(wait_dequeue_tmevtb(y, t), t, "E_RLWAI")
                    \/ z = set_wercd(y, t, "E_TMOUT")
    BY <1>1, <2>1 DEF wait_release, wait_tmout
  <2>4. MtxFields \subseteq DOMAIN y
    BY <2>2 DEF MInv, MtxType
  <2>5. SameMtx(y, z, {})
    <3>1. PICK w : w = wait_dequeue_tmevtb(y, t)
      OBVIOUS
    <3>2. SameMtx(y, w, {})
      BY <3>1, <2>4, SameReady
    <3>3. MtxFields \subseteq DOMAIN w
      BY <3>2 DEF SameMtx
    <3>4. SameMtx(w, set_wercd(w, t, "E_RLWAI"), {})
      BY <3>3, SameReady
    <3>5. SameMtx(y, set_wercd(y, t, "E_TMOUT"), {})
      BY <2>4, SameReady
    <3> QED BY <2>3, <3>1, <3>2, <3>4, <3>5, SameTrans
  <2>6. MInv(z, {t}, {}, {})
    BY <2>2, <2>5, MSame
  <2> HIDE <2>1
  <2> QED BY <2>3, <2>6, MNonWait
<1>2. CASE "MTX" \notin j.tstat[t] /\ r \in {wait_complete(j, t), wait_tmout_ok(j, t)}
  <2>1. PICK z : /\ r = make_non_wait(z, t)
                 /\ \/ z = set_wercd(wait_dequeue_tmevtb(j, t), t, "E_OK")
                    \/ z = set_wercd(j, t, "E_OK")
    BY <1>2 DEF wait_complete, wait_tmout_ok
  <2>2. SameMtx(j, z, {})
    <3>1. PICK w : w = wait_dequeue_tmevtb(j, t)
      OBVIOUS
    <3>2. SameMtx(j, w, {})
      BY <3>1, <1>0, SameReady
    <3>3. MtxFields \subseteq DOMAIN w
      BY <3>2 DEF SameMtx
    <3>4. SameMtx(w, set_wercd(w, t, "E_OK"), {})
      BY <3>3, SameReady
    <3>5. SameMtx(j, set_wercd(j, t, "E_OK"), {})
      BY <1>0, SameReady
    <3> QED BY <2>1, <3>1, <3>2, <3>4, <3>5, SameTrans
  <2>3. MInv(z, {}, {}, {}) /\ z.tstat = j.tstat
    BY <2>2, MSame, SameFields
  <2> QED BY <1>2, <2>1, <2>3, MNonWait
<1> QED BY <1>1, <1>2


(* The head t of the wait queue of m leaves it. *)
LEMMA MTakeHead ==
  ASSUME NEW j, NEW X, NEW Y, NEW L, MInv(j, X, Y, L), NEW m \in Wobj,
         j.wait_queue[m] # <<>>, NEW t, t = Head(j.wait_queue[m]),
         NEW r, r = WithoutHead(j, m)
  PROVE  /\ t \in Task /\ t \notin X /\ "MTX" \in j.tstat[t] /\ "WAITING" \in j.tstat[t]
         /\ In(j.wait_queue[m], t) /\ MInv(r, X \cup {t}, Y, L)
         /\ SameMtx(j, r, {"wait_queue"})
         /\ Shorter(r.wait_queue[m], j.wait_queue[m])
<1>1. PICK q : q = j.wait_queue[m]
  OBVIOUS
<1>2. q \in Seq(Task) /\ Distinct(q) /\ q # <<>> /\ j.wait_queue \in [Wobj -> Seq(Task)]
  BY <1>1 DEF MInv, MtxType, QueuesOK
<1>3. /\ t \in Task /\ In(q, t) /\ Tail(q) \in Seq(Task) /\ Distinct(Tail(q))
      /\ Len(Tail(q)) = Len(q) - 1
      /\ \A u \in Task : In(Tail(q), u) <=> In(q, u) /\ u # t
      /\ \A pri : Ordered(q, pri) => Ordered(Tail(q), pri)
  BY <1>1, <1>2, HeadTaken
<1>4. PICK a \in Seq(Task) : a = Tail(q)
  BY <1>3
<1>5. MtxFields \subseteq DOMAIN j /\ "wait_queue" \in DOMAIN j
  BY DEF MInv, MtxType, MtxFields
<1>6. SameMtx(j, r, {"wait_queue"}) /\ r.wait_queue = [j.wait_queue EXCEPT ![m] = a]
  BY <1>1, <1>4, <1>5 DEF SameMtx, MtxFields, WithoutHead
<1>7. "MTX" \in j.tstat[t] /\ j.p_wobjcb[t] = m /\ t \notin X
  BY <1>1, <1>3 DEF MInv, QueuesOK
<1>8. "WAITING" \in j.tstat[t]
  BY <1>3, <1>7 DEF MInv, KindOK
<1>9. MInv(r, X \cup {t}, Y, L)
  <2>1. /\ Distinct(a) /\ \A u \in Task : In(a, u) <=> In(j.wait_queue[m], u) /\ u # t
    BY <1>1, <1>3, <1>4
  <2>2. Ordered(j.wait_queue[m], j.priority) => Ordered(a, j.priority)
    BY <1>1, <1>3, <1>4
  <2>3. t \in X \/ "MTX" \notin j.tstat[t] \/ j.p_wobjcb[t] = m
    BY <1>7
  <2>4. j.wait_queue[m] = <<>> => a = <<>>
    OBVIOUS
  <2>5. t \in Task
    BY <1>3
  <2> QED BY ONLY MInv(j, X, Y, L), m \in Wobj, a \in Seq(Task), <1>6, <2>1, <2>2, <2>3,
                  <2>4, <2>5, MTake
<1>10. r.wait_queue[m] = a
  BY <1>2, <1>6
<1> QED BY <1>1, <1>3, <1>4, <1>6, <1>7, <1>8, <1>9, <1>10 DEF Shorter

(* The head t of the wait queue of m waits. *)
LEMMA WaitHead ==
  ASSUME NEW j, NEW X, NEW Y, NEW L, MInv(j, X, Y, L), NEW m \in Wobj,
         j.wait_queue[m] # <<>>, NEW t, t = Head(j.wait_queue[m])
  PROVE  t \in Task /\ t \notin X /\ "WAITING" \in j.tstat[t]
<1>1. PICK y : y = WithoutHead(j, m)
  OBVIOUS
<1>2. MInv(j, X, Y, L) /\ m \in Wobj /\ j.wait_queue[m] # <<>>
  OBVIOUS
<1>3. /\ t \in Task /\ t \notin X /\ "MTX" \in j.tstat[t] /\ "WAITING" \in j.tstat[t]
      /\ In(j.wait_queue[m], t) /\ MInv(y, X \cup {t}, Y, L)
      /\ SameMtx(j, y, {"wait_queue"})
  BY ONLY <1>1, <1>2, t = Head(j.wait_queue[m]), MTakeHead, SMTT(60)
<1> QED BY <1>3

(* wait_delete_head: the head of the queue is released and the rest stays. *)
LEMMA MDeleteHead ==
  ASSUME NEW j, MInv(j, {}, {}, {}), NEW m \in Wobj, j.wait_queue[m] # <<>>,
         NEW r, r = wait_delete_head(j, m)
  PROVE  /\ MInv(r, {}, {}, {}) /\ SameMtx(j, r, {"wait_queue", "tstat"})
         /\ Shorter(r.wait_queue[m], j.wait_queue[m])
<1>1. PICK t : t = Head(j.wait_queue[m])
  OBVIOUS
<1>2. PICK y : y = WithoutHead(j, m)
  OBVIOUS
<1>3. PICK w : w = wait_dequeue_tmevtb(y, t)
  OBVIOUS
<1>4. PICK z : z = set_wercd(w, t, "E_DLT")
  OBVIOUS
<1>5. r = make_non_wait(z, t)
  BY <1>1, <1>2, <1>3, <1>4 DEF wait_delete_head, WithoutHead
<1>6. /\ t \in Task /\ MInv(y, {} \cup {t}, {}, {}) /\ SameMtx(j, y, {"wait_queue"})
      /\ Shorter(y.wait_queue[m], j.wait_queue[m])
  <2>1. MInv(j, {}, {}, {}) /\ m \in Wobj /\ j.wait_queue[m] # <<>>
    OBVIOUS
  <2> QED BY ONLY <1>1, <1>2, <2>1, MTakeHead
<1> HIDE <1>1, <1>2
<1>14. MtxFields \subseteq DOMAIN y
  BY <1>6 DEF SameMtx
<1>7. SameMtx(y, w, {})
  BY <1>3, <1>14, SameReady
<1>15. MtxFields \subseteq DOMAIN w
  BY <1>7 DEF SameMtx
<1>8. SameMtx(w, z, {})
  BY <1>4, <1>15, SameReady
<1> HIDE <1>3, <1>4
<1>9. SameMtx(y, z, {})
  BY <1>7, <1>8, SameTrans
<1>10. MInv(z, {t}, {}, {})
  BY <1>6, <1>9, MSame
<1>11. MInv(r, {}, {}, {}) /\ SameMtx(z, r, {"tstat"})
  BY <1>5, <1>6, <1>10, MNonWait
<1>12. z.wait_queue = y.wait_queue /\ r.wait_queue = z.wait_queue
  BY <1>9, <1>11 DEF SameMtx, MtxFields
<1>13. SameMtx(j, r, {"wait_queue", "tstat"})
  BY <1>6, <1>9, <1>11 DEF SameMtx
<1> QED BY <1>6, <1>11, <1>12, <1>13

-----------------------------------------------------------------------------
(***************************************************************************)
(* The owner of a mutex.                                                   *)
(***************************************************************************)

(* The priority of t once it holds m. *)
RaisedPri(x, t, m) == IF MTX_CEILING(x, m) /\ x.ceilpri[m] < x.priority[t]
                      THEN x.ceilpri[m] ELSE x.priority[t]

(* t becomes the owner of m, in r. *)
Owns(j, r, t, m, q) ==
  /\ SameMtx(j, r, {"p_loctsk", "mutex_queue", "priority"})
  /\ r.p_loctsk = [j.p_loctsk EXCEPT ![m] = t]
  /\ r.mutex_queue = [j.mutex_queue EXCEPT ![t] = q]
  /\ r.priority = [j.priority EXCEPT ![t] = RaisedPri(j, t, m)]
  /\ q \in Seq(Wobj) /\ Distinct(q)
  /\ \A n \in Wobj : In(q, n) <=> In(j.mutex_queue[t], n) \/ n = m

(* A mutex that is in no mutex queue gets an owner, which waits for none.  *)
LEMMA MOwn ==
  ASSUME NEW j, NEW X, NEW Y, NEW L, MInv(j, X, Y, L), NEW m \in Wobj, L \subseteq {m},
         NEW t \in Task, t \in X \/ "MTX" \notin j.tstat[t], j.tstat[t] # {},
         mtx_exists(j, m), j.p_loctsk[m] = NULL \/ m \in L,
         MTX_CEILING(j, m) => j.ceilpri[m] <= j.bpriority[t],
         NEW r, NEW q, Owns(j, r, t, m, q)
  PROVE  MInv(r, X, Y, {})
<1> DEFINE p == RaisedPri(j, t, m)
<1>1. /\ r.tstat = j.tstat /\ r.bpriority = j.bpriority /\ r.p_wobjcb = j.p_wobjcb
      /\ r.wait_queue = j.wait_queue /\ r.wobjatr = j.wobjatr
      /\ r.ceilpri = j.ceilpri /\ r.free_mtxcb = j.free_mtxcb /\ r.undef = j.undef
      /\ MtxFields \subseteq DOMAIN r
  BY DEF Owns, SameMtx, MtxFields
<1>2. MtxType(j)
  BY DEF MInv
<1>3. p \in TPRI /\ p <= j.priority[t] /\ (MTX_CEILING(j, m) => p <= j.ceilpri[m])
  <2>1. j.priority[t] \in 0 .. TNUM_TPRI - 1 /\ j.ceilpri[m] \in 0 .. TNUM_TPRI
    BY <1>2 DEF MtxType, TPRI
  <2> QED BY <2>1, TnumTpriAssumption DEF RaisedPri, TPRI
<1>4. /\ r.p_loctsk \in [Wobj -> Task \cup {NULL}] /\ r.p_loctsk[m] = t
      /\ \A n \in Wobj \ {m} : r.p_loctsk[n] = j.p_loctsk[n]
  BY <1>2 DEF Owns, MtxType
<1>5. /\ r.mutex_queue \in [Task -> Seq(Wobj)] /\ r.mutex_queue[t] = q
      /\ \A u \in Task \ {t} : r.mutex_queue[u] = j.mutex_queue[u]
  BY <1>2 DEF Owns, MtxType
<1>6. /\ r.priority \in [Task -> TPRI] /\ r.priority[t] = p
      /\ \A u \in Task \ {t} : r.priority[u] = j.priority[u]
  BY <1>2, <1>3 DEF Owns, MtxType
<1>7. Distinct(q) /\ \A n \in Wobj : In(q, n) <=> In(j.mutex_queue[t], n) \/ n = m
  BY DEF Owns
<1>8. MtxType(r)
  BY <1>1, <1>2, <1>4, <1>5, <1>6 DEF MtxType
<1>9. OwnersOK(r, {})
  <2>1. ASSUME NEW u \in Task, NEW n \in Wobj
        PROVE  In(r.mutex_queue[u], n) <=> r.p_loctsk[n] = u /\ n \notin {}
    <3>1. In(j.mutex_queue[u], n) <=> j.p_loctsk[n] = u /\ n \notin L
      BY DEF MInv, OwnersOK
    <3>2. CASE n = m
      <4>1. ~In(j.mutex_queue[u], n)
        BY <3>1, <3>2, NullAssumption
      <4> QED BY <3>2, <4>1, <1>4, <1>5, <1>7
    <3>3. CASE n # m
      BY <3>1, <3>3, <1>4, <1>5, <1>7
    <3> QED BY <3>2, <3>3
  <2>2. \A u \in Task : Distinct(r.mutex_queue[u])
    BY <1>5, <1>7 DEF MInv, OwnersOK
  <2>3. \A n \in Wobj : r.p_loctsk[n] # NULL =>
          r.wobjatr[n] # "TA_NOEXS" /\ r.tstat[r.p_loctsk[n]] # {}
    BY <1>1, <1>4 DEF MInv, OwnersOK, mtx_exists
  <2> QED BY <2>1, <2>2, <2>3 DEF OwnersOK
<1>10. \A n \in Wobj : ~In(j.wait_queue[n], t)
  BY DEF MInv, QueuesOK
<1>11. QueuesOK(r, X)
  <2>1. \A u \in Task, n \in Wobj :
          In(r.wait_queue[n], u) <=> "MTX" \in r.tstat[u] /\ r.p_wobjcb[u] = n /\ u \notin X
    BY <1>1 DEF MInv, QueuesOK
  <2>2. \A n \in Wobj : r.p_loctsk[n] = NULL => r.wait_queue[n] = <<>>
    BY <1>1, <1>4, NullAssumption DEF MInv, QueuesOK
  <2>3. ASSUME NEW n \in Wobj, TA_TPRI(r, n)
        PROVE  Ordered(r.wait_queue[n], r.priority)
    <3>1. j.wait_queue[n] \in Seq(Task) /\ Ordered(j.wait_queue[n], j.priority)
      BY <1>1, <1>2, <2>3 DEF MInv, MtxType, QueuesOK, TA_TPRI
    <3>2. PICK w \in Seq(Task) : w = j.wait_queue[n]
      BY <3>1
    <3>3. ASSUME NEW i \in 1 .. Len(w) PROVE r.priority[w[i]] = j.priority[w[i]]
      <4>1. w[i] \in Task /\ w[i] # t
        BY <3>2, <1>10 DEF In
      <4> QED BY <4>1, <1>6
    <3> QED BY <3>1, <3>2, <3>3, <1>1 DEF Ordered
  <2> QED BY <2>1, <2>2, <2>3, <1>1 DEF MInv, QueuesOK
<1>12. CeilOK(r)
  <2> SUFFICES ASSUME NEW u \in Task, NEW n \in Wobj, MTX_CEILING(r, n),
                      r.p_loctsk[n] = u \/ In(r.wait_queue[n], u)
               PROVE  r.ceilpri[n] <= r.bpriority[u]
    BY DEF CeilOK
  <2>1. MTX_CEILING(j, n)
    BY <1>1 DEF MTX_CEILING
  <2>2. CASE j.p_loctsk[n] = u \/ In(j.wait_queue[n], u)
    BY <2>1, <2>2, <1>1 DEF MInv, CeilOK
  <2>3. CASE n = m /\ u = t
    BY <2>1, <2>3, <1>1
  <2> QED BY <2>2, <2>3, <1>1, <1>4
<1>13. ASSUME NEW u \in Task \ Y PROVE PriOK(r, u)
  <2>1. PriIs(j, u, j.priority[u])
    BY DEF MInv, PriOK
  <2>2. \A n \in Wobj : MTX_CEILING(r, n) <=> MTX_CEILING(j, n)
    BY <1>1 DEF MTX_CEILING
  <2>3. CASE u # t
    <3>1. \A n \in Wobj : Ceiled(r, u, n) <=> Ceiled(j, u, n)
      BY <2>2, <2>3, <1>5 DEF Ceiled
    <3> QED BY <2>1, <2>3, <3>1, <1>1, <1>6 DEF PriOK, PriIs
  <2>4. CASE u = t
    <3>1. \A n \in Wobj : Ceiled(r, t, n) <=> Ceiled(j, t, n) \/ (n = m /\ MTX_CEILING(j, m))
      BY <2>2, <1>5, <1>7 DEF Ceiled
    <3>2. j.priority[t] \in Nat /\ j.bpriority[t] \in Nat /\ \A n \in Wobj : j.ceilpri[n] \in Nat
      BY <1>2, TnumTpriAssumption DEF MtxType, TPRI
    <3>3. p \in Nat
      BY <1>3, TnumTpriAssumption DEF TPRI
    <3>4. /\ j.priority[t] <= j.bpriority[t]
          /\ \A n \in Wobj : Ceiled(j, t, n) => j.priority[t] <= j.ceilpri[n]
          /\ \/ j.priority[t] = j.bpriority[t]
             \/ \E n \in Wobj : Ceiled(j, t, n) /\ j.priority[t] = j.ceilpri[n]
      BY <2>1, <2>4 DEF PriIs
    <3>5. p = j.priority[t] \/ (MTX_CEILING(j, m) /\ p = j.ceilpri[m])
      BY DEF RaisedPri
    <3> HIDE DEF p
    <3>6. p <= j.bpriority[t]
      BY <3>2, <3>3, <3>4, <1>3
    <3>7. \A n \in Wobj : Ceiled(r, t, n) => p <= j.ceilpri[n]
      BY <3>1, <3>2, <3>3, <3>4, <1>3
    <3>8. p = j.bpriority[t] \/ \E n \in Wobj : Ceiled(r, t, n) /\ p = j.ceilpri[n]
      BY <3>1, <3>4, <3>5
    <3> QED BY <2>4, <3>6, <3>7, <3>8, <1>1, <1>6 DEF PriOK, PriIs
  <2> QED BY <2>3, <2>4
<1>14. FreeMtxOK(r) /\ \A u \in Task : KindOK(r.tstat[u], r.p_wobjcb[u])
  BY <1>1 DEF MInv, FreeMtxOK
<1> QED BY <1>8, <1>9, <1>11, <1>12, <1>13, <1>14 DEF MInv

(* m leaves the mutex queue of its owner t, and gets no owner, or keeps t  *)
(* for the moment: L1 is then {m}.                                         *)
Unlinks(j, r, t, m, q, L1) ==
  /\ SameMtx(j, r, {"p_loctsk", "mutex_queue"})
  /\ \/ L1 = {m} /\ r.p_loctsk = j.p_loctsk
     \/ L1 = {} /\ r.p_loctsk = [j.p_loctsk EXCEPT ![m] = NULL] /\ j.wait_queue[m] = <<>>
  /\ r.mutex_queue = [j.mutex_queue EXCEPT ![t] = q]
  /\ q \in Seq(Wobj) /\ Distinct(q)
  /\ \A n \in Wobj : In(q, n) <=> In(j.mutex_queue[t], n) /\ n # m

Locks(j, t, m) == j.p_loctsk[m] = t

(* Then only the priority of t may be wrong. *)
LEMMA MUnlink ==
  ASSUME NEW j, NEW X, NEW Y, MInv(j, X, Y, {}), NEW m \in Wobj,
         NEW t \in Task, Locks(j, t, m),
         NEW r, NEW q, NEW L1, Unlinks(j, r, t, m, q, L1)
  PROVE  /\ MInv(r, X, Y \cup {t}, L1)
         /\ r.priority = j.priority /\ r.tstat = j.tstat /\ r.wait_queue = j.wait_queue
         /\ r.wobjatr = j.wobjatr /\ r.ceilpri = j.ceilpri
         /\ r.bpriority = j.bpriority /\ r.mutex_queue[t] = q
<1>1. /\ r.tstat = j.tstat /\ r.bpriority = j.bpriority /\ r.p_wobjcb = j.p_wobjcb
      /\ r.wait_queue = j.wait_queue /\ r.wobjatr = j.wobjatr /\ r.priority = j.priority
      /\ r.ceilpri = j.ceilpri /\ r.free_mtxcb = j.free_mtxcb /\ r.undef = j.undef
      /\ MtxFields \subseteq DOMAIN r
  BY DEF Unlinks, SameMtx, MtxFields
<1>2. MtxType(j)
  BY DEF MInv
<1>3. j.p_loctsk[m] = t
  BY DEF Locks
<1>4. /\ r.p_loctsk \in [Wobj -> Task \cup {NULL}]
      /\ \A n \in Wobj \ {m} : r.p_loctsk[n] = j.p_loctsk[n]
      /\ \/ L1 = {m} /\ r.p_loctsk[m] = t
         \/ L1 = {} /\ r.p_loctsk[m] = NULL /\ j.wait_queue[m] = <<>>
  <2>1. j.p_loctsk \in [Wobj -> Task \cup {NULL}]
    BY <1>2 DEF MtxType
  <2>2. \/ L1 = {m} /\ r.p_loctsk = j.p_loctsk
        \/ L1 = {} /\ r.p_loctsk = [j.p_loctsk EXCEPT ![m] = NULL] /\ j.wait_queue[m] = <<>>
    BY DEF Unlinks
  <2>3. CASE L1 = {m} /\ r.p_loctsk = j.p_loctsk
    BY <1>3, <2>1, <2>3
  <2>4. CASE L1 = {} /\ r.p_loctsk = [j.p_loctsk EXCEPT ![m] = NULL] /\ j.wait_queue[m] = <<>>
    BY <2>1, <2>4
  <2> QED BY <2>2, <2>3, <2>4
<1>5. /\ r.mutex_queue \in [Task -> Seq(Wobj)] /\ r.mutex_queue[t] = q
      /\ \A u \in Task \ {t} : r.mutex_queue[u] = j.mutex_queue[u]
  BY <1>2 DEF Unlinks, MtxType
<1>7. Distinct(q) /\ \A n \in Wobj : In(q, n) <=> In(j.mutex_queue[t], n) /\ n # m
  BY DEF Unlinks
<1>8. MtxType(r)
  BY <1>1, <1>2, <1>4, <1>5 DEF MtxType
<1>9. OwnersOK(r, L1)
  <2>1. ASSUME NEW u \in Task, NEW n \in Wobj
        PROVE  In(r.mutex_queue[u], n) <=> r.p_loctsk[n] = u /\ n \notin L1
    <3>1. In(j.mutex_queue[u], n) <=> j.p_loctsk[n] = u
      BY DEF MInv, OwnersOK
    <3>2. CASE n = m
      <4>1. ~In(r.mutex_queue[u], n)
        BY <1>3, <3>1, <3>2, <1>5, <1>7
      <4> QED BY <3>2, <4>1, <1>4, NullAssumption
    <3>3. CASE n # m
      BY <3>1, <3>3, <1>4, <1>5, <1>7
    <3> QED BY <3>2, <3>3
  <2>2. \A u \in Task : Distinct(r.mutex_queue[u])
    BY <1>5, <1>7 DEF MInv, OwnersOK
  <2>3. ASSUME NEW n \in Wobj, r.p_loctsk[n] # NULL
        PROVE  r.wobjatr[n] # "TA_NOEXS" /\ r.tstat[r.p_loctsk[n]] # {}
    <3>1. r.p_loctsk[n] = j.p_loctsk[n]
      BY <1>3, <2>3, <1>4
    <3> QED BY <2>3, <3>1, <1>1 DEF MInv, OwnersOK
  <2> QED BY <2>1, <2>2, <2>3 DEF OwnersOK
<1>11. QueuesOK(r, X)
  <2>1. \A u \in Task, n \in Wobj :
          In(r.wait_queue[n], u) <=> "MTX" \in r.tstat[u] /\ r.p_wobjcb[u] = n /\ u \notin X
    BY <1>1 DEF MInv, QueuesOK
  <2>2. \A n \in Wobj : r.p_loctsk[n] = NULL => r.wait_queue[n] = <<>>
    BY <1>1, <1>4, NullAssumption DEF MInv, QueuesOK
  <2>3. \A n \in Wobj : TA_TPRI(r, n) => Ordered(r.wait_queue[n], r.priority)
    BY <1>1 DEF MInv, QueuesOK, TA_TPRI
  <2> QED BY <2>1, <2>2, <2>3, <1>1 DEF MInv, QueuesOK
<1>12. CeilOK(r)
  <2> SUFFICES ASSUME NEW u \in Task, NEW n \in Wobj, MTX_CEILING(r, n),
                      r.p_loctsk[n] = u \/ In(r.wait_queue[n], u)
               PROVE  r.ceilpri[n] <= r.bpriority[u]
    BY DEF CeilOK
  <2>1. MTX_CEILING(j, n)
    BY <1>1 DEF MTX_CEILING
  <2>2. j.p_loctsk[n] = u \/ In(j.wait_queue[n], u)
    BY <1>3, <1>1, <1>4, NullAssumption
  <2> QED BY <2>1, <2>2, <1>1 DEF MInv, CeilOK
<1>13. ASSUME NEW u \in Task \ (Y \cup {t}) PROVE PriOK(r, u)
  <2>1. PriIs(j, u, j.priority[u])
    BY DEF MInv, PriOK
  <2>2. \A n \in Wobj : Ceiled(r, u, n) <=> Ceiled(j, u, n)
    BY <1>1, <1>5 DEF Ceiled, MTX_CEILING
  <2> QED BY <2>1, <2>2, <1>1 DEF PriOK, PriIs
<1>14. FreeMtxOK(r) /\ \A u \in Task : KindOK(r.tstat[u], r.p_wobjcb[u])
  BY <1>1 DEF MInv, FreeMtxOK
<1> QED BY <1>1, <1>5, <1>8, <1>9, <1>11, <1>12, <1>13, <1>14 DEF MInv

(* A mutex that is in no mutex queue and has no waiting task is freed. *)
LEMMA MFreed ==
  ASSUME NEW j, NEW X, NEW Y, NEW m \in Wobj, MInv(j, X, Y, {m}), j.wait_queue[m] = <<>>,
         NEW r, SameMtx(j, r, {"p_loctsk"}), r.p_loctsk = [j.p_loctsk EXCEPT ![m] = NULL]
  PROVE  MInv(r, X, Y, {})
<1>1. /\ r.tstat = j.tstat /\ r.bpriority = j.bpriority /\ r.p_wobjcb = j.p_wobjcb
      /\ r.wait_queue = j.wait_queue /\ r.wobjatr = j.wobjatr /\ r.priority = j.priority
      /\ r.ceilpri = j.ceilpri /\ r.free_mtxcb = j.free_mtxcb /\ r.undef = j.undef
      /\ r.mutex_queue = j.mutex_queue /\ MtxFields \subseteq DOMAIN r
  BY DEF SameMtx, MtxFields
<1>2. MtxType(j)
  BY DEF MInv
<1>4. /\ r.p_loctsk \in [Wobj -> Task \cup {NULL}] /\ r.p_loctsk[m] = NULL
      /\ \A n \in Wobj \ {m} : r.p_loctsk[n] = j.p_loctsk[n]
  BY <1>2 DEF MtxType
<1>8. MtxType(r)
  BY <1>1, <1>2, <1>4 DEF MtxType
<1>9. OwnersOK(r, {})
  <2>1. ASSUME NEW u \in Task, NEW n \in Wobj
        PROVE  In(r.mutex_queue[u], n) <=> r.p_loctsk[n] = u /\ n \notin {}
    <3>1. In(j.mutex_queue[u], n) <=> j.p_loctsk[n] = u /\ n \notin {m}
      BY DEF MInv, OwnersOK
    <3> QED BY <3>1, <1>1, <1>4, NullAssumption
  <2>2. ASSUME NEW n \in Wobj, r.p_loctsk[n] # NULL
        PROVE  r.wobjatr[n] # "TA_NOEXS" /\ r.tstat[r.p_loctsk[n]] # {}
    <3>1. r.p_loctsk[n] = j.p_loctsk[n]
      BY <2>2, <1>4
    <3> QED BY <2>2, <3>1, <1>1 DEF MInv, OwnersOK
  <2> QED BY <2>1, <2>2, <1>1 DEF MInv, OwnersOK
<1>11. QueuesOK(r, X)
  <2>1. \A n \in Wobj : r.p_loctsk[n] = NULL => r.wait_queue[n] = <<>>
    BY <1>1, <1>4 DEF MInv, QueuesOK
  <2> QED BY <2>1, <1>1 DEF MInv, QueuesOK, TA_TPRI
<1>12. CeilOK(r)
  <2> SUFFICES ASSUME NEW u \in Task, NEW n \in Wobj, MTX_CEILING(r, n),
                      r.p_loctsk[n] = u \/ In(r.wait_queue[n], u)
               PROVE  r.ceilpri[n] <= r.bpriority[u]
    BY DEF CeilOK
  <2>1. MTX_CEILING(j, n)
    BY <1>1 DEF MTX_CEILING
  <2>2. j.p_loctsk[n] = u \/ In(j.wait_queue[n], u)
    BY <1>1, <1>4, NullAssumption
  <2> QED BY <2>1, <2>2, <1>1 DEF MInv, CeilOK
<1>13. \A u \in Task \ Y : PriOK(r, u)
  BY <1>1 DEF MInv, PriOK, PriIs, Ceiled, MTX_CEILING
<1>14. FreeMtxOK(r) /\ \A u \in Task : KindOK(r.tstat[u], r.p_wobjcb[u])
  BY <1>1 DEF MInv, FreeMtxOK
<1> QED BY <1>8, <1>9, <1>11, <1>12, <1>13, <1>14 DEF MInv

-----------------------------------------------------------------------------
(***************************************************************************)
(* mutex_release.                                                          *)
(***************************************************************************)
ReleaseFields == {"wait_queue", "p_loctsk", "mutex_queue", "priority", "tstat"}

(* A task that is in no wait queue is not touched. *)
Released(j, r, X) ==
  /\ SameMtx(j, r, ReleaseFields)
  /\ \A v \in Task : v \in X \/ "MTX" \notin j.tstat[v] =>
       /\ r.mutex_queue[v] = j.mutex_queue[v] /\ r.tstat[v] = j.tstat[v]
       /\ r.priority[v] = j.priority[v]

(* A mutex queue with one more entry at its end or at its head. *)
LEMMA MutexLinked ==
  ASSUME NEW q \in Seq(Wobj), Distinct(q), NEW m \in Wobj, ~In(q, m),
         NEW a, a \in {queue_insert_prev(q, m), queue_insert_next(q, m)}
  PROVE  a \in Seq(Wobj) /\ Distinct(a) /\ \A n \in Wobj : In(a, n) <=> In(q, n) \/ n = m
<1>1. PICK p : a \in Seq(Wobj) /\ InsertedAt(q, m, p, a)
  <2>1. CASE a = queue_insert_prev(q, m)
    <3>1. a \in Seq(Wobj) /\ InsertedAt(q, m, Len(q) + 1, a)
      BY <2>1, QueueInsertPrev
    <3> QED BY <3>1
  <2>2. CASE a = queue_insert_next(q, m)
    <3>1. a \in Seq(Wobj) /\ InsertedAt(q, m, 1, a)
      BY <2>2, QueueInsertNext
    <3> QED BY <3>1
  <2> QED BY <2>1, <2>2
<1> QED BY <1>1, Inserted

(* mutex_pass: the head of the wait queue becomes the owner. *)
LEMMA MPass ==
  ASSUME NEW j, NEW X, NEW Y, NEW m \in Wobj, MInv(j, X, Y, {m}), j.p_loctsk[m] # NULL,
         j.wait_queue[m] # <<>>, NEW r, r = mutex_pass(j, m)
  PROVE  MInv(r, X, Y, {}) /\ Released(j, r, X)
<1>1. PICK t : t = Head(j.wait_queue[m])
  OBVIOUS
<1>2. PICK y : y = WithoutHead(j, m)
  OBVIOUS
<1>3. PICK w : w = wait_dequeue_tmevtb(y, t)
  OBVIOUS
<1>4. PICK z : z = set_wercd(w, t, "E_OK")
  OBVIOUS
<1>5. PICK x : x = [z EXCEPT !.p_loctsk[m] = t,
                             !.mutex_queue[t] = queue_insert_prev(@, m),
                             !.priority[t] = IF MTX_CEILING(j, m) /\ j.ceilpri[m] < @
                                             THEN j.ceilpri[m] ELSE @]
  OBVIOUS
<1>6. r = make_non_wait(x, t)
  BY <1>1, <1>2, <1>3, <1>4, <1>5 DEF mutex_pass, WithoutHead
<1>7. /\ t \in Task /\ t \notin X /\ "MTX" \in j.tstat[t] /\ In(j.wait_queue[m], t)
      /\ MInv(y, X \cup {t}, Y, {m}) /\ SameMtx(j, y, {"wait_queue"})
  <2>1. MInv(j, X, Y, {m}) /\ m \in Wobj /\ j.wait_queue[m] # <<>>
    OBVIOUS
  <2> QED BY ONLY <1>1, <1>2, <2>1, MTakeHead, SMTT(60)
<1> HIDE <1>1, <1>2
<1>14. MtxFields \subseteq DOMAIN y
  BY <1>7 DEF SameMtx
<1>8. SameMtx(y, w, {})
  BY <1>3, <1>14, SameReady
<1>15. MtxFields \subseteq DOMAIN w
  BY <1>8 DEF SameMtx
<1>9. SameMtx(w, z, {})
  BY <1>4, <1>15, SameReady
<1> HIDE <1>3, <1>4
<1>10. SameMtx(y, z, {})
  BY <1>8, <1>9, SameTrans
<1>11. MInv(z, X \cup {t}, Y, {m})
  BY <1>7, <1>10, MSame
<1>12. SameMtx(j, z, {"wait_queue"})
  BY <1>7, <1>10 DEF SameMtx
<1>13. /\ z.tstat = j.tstat /\ z.bpriority = j.bpriority /\ z.wobjatr = j.wobjatr
       /\ z.priority = j.priority /\ z.ceilpri = j.ceilpri
       /\ z.mutex_queue = j.mutex_queue /\ z.p_loctsk = j.p_loctsk
       /\ MtxFields \subseteq DOMAIN z
  BY <1>12 DEF SameMtx, MtxFields
<1>16. PICK q : q = queue_insert_prev(z.mutex_queue[t], m)
  OBVIOUS
<1>17. Owns(z, x, t, m, q)
  <2>1. z.mutex_queue[t] \in Seq(Wobj) /\ Distinct(z.mutex_queue[t])
    BY <1>7, <1>11 DEF MInv, MtxType, OwnersOK
  <2>2. ~In(z.mutex_queue[t], m)
    BY <1>7, <1>11 DEF MInv, OwnersOK
  <2>3. /\ q \in Seq(Wobj) /\ Distinct(q)
        /\ \A n \in Wobj : In(q, n) <=> In(z.mutex_queue[t], n) \/ n = m
    BY <2>1, <2>2, <1>16, MutexLinked
  <2>4. SameMtx(z, x, {"p_loctsk", "mutex_queue", "priority"})
    BY <1>5, <1>13 DEF SameMtx
  <2>5. x.p_loctsk = [z.p_loctsk EXCEPT ![m] = t]
    BY <1>5, <1>13 DEF MtxFields
  <2>6. x.mutex_queue = [z.mutex_queue EXCEPT ![t] = q]
    BY <1>5, <1>13, <1>16 DEF MtxFields
  <2>7. x.priority = [z.priority EXCEPT ![t] = RaisedPri(z, t, m)]
    BY <1>5, <1>13 DEF MtxFields, RaisedPri, MTX_CEILING
  <2> QED BY <2>3, <2>4, <2>5, <2>6, <2>7 DEF Owns
<1>18. /\ mtx_exists(z, m) /\ z.tstat[t] # {}
       /\ MTX_CEILING(z, m) => z.ceilpri[m] <= z.bpriority[t]
  <2>1. mtx_exists(z, m)
    BY <1>13 DEF MInv, OwnersOK, mtx_exists
  <2>2. MTX_CEILING(j, m) => j.ceilpri[m] <= j.bpriority[t]
    BY <1>7 DEF MInv, CeilOK
  <2> QED BY <2>1, <2>2, <1>7, <1>13 DEF MTX_CEILING
<1> HIDE <1>5, <1>16
<1>19. MInv(x, X \cup {t}, Y, {})
  <2>1. t \in X \cup {t} /\ m \in {m} /\ {m} \subseteq {m}
    OBVIOUS
  <2> QED BY ONLY <1>7, <1>11, <1>17, <1>18, <2>1, m \in Wobj, MOwn
<1>20. /\ MInv(r, X, Y, {}) /\ SameMtx(x, r, {"tstat"})
       /\ \A u \in Task \ {t} : r.tstat[u] = x.tstat[u]
  <2>1. t \in X \cup {t} /\ X \subseteq X \cup {t} /\ X \cup {t} \subseteq X \cup {t}
    OBVIOUS
  <2> QED BY ONLY <1>6, <1>7, <1>19, <2>1, MNonWait
<1>21. SameMtx(z, x, {"p_loctsk", "mutex_queue", "priority"})
  BY <1>17 DEF Owns
<1>22. SameMtx(j, r, ReleaseFields)
  BY <1>12, <1>20, <1>21 DEF SameMtx, ReleaseFields
<1>23. ASSUME NEW v \in Task, v \in X \/ "MTX" \notin j.tstat[v]
       PROVE  /\ r.mutex_queue[v] = j.mutex_queue[v] /\ r.tstat[v] = j.tstat[v]
              /\ r.priority[v] = j.priority[v]
  <2>1. v # t
    BY <1>7, <1>23
  <2>2. r.mutex_queue = x.mutex_queue /\ r.priority = x.priority /\ x.tstat = z.tstat
    BY <1>20, <1>21 DEF SameMtx, MtxFields
  <2>3. x.mutex_queue[v] = z.mutex_queue[v] /\ x.priority[v] = z.priority[v]
    BY <2>1, <1>7, <1>11, <1>17 DEF Owns, MInv, MtxType
  <2> QED BY <2>1, <2>2, <2>3, <1>13, <1>20
<1> QED BY <1>20, <1>22, <1>23 DEF Released

(* mutex_release: m, which has left the queue of its owner, passes to the  *)
(* head of its wait queue or is free.                                      *)
LEMMA MRelease ==
  ASSUME NEW j, NEW X, NEW Y, NEW m \in Wobj, MInv(j, X, Y, {m}), j.p_loctsk[m] # NULL,
         NEW r, r = mutex_release(j, m)
  PROVE  MInv(r, X, Y, {}) /\ Released(j, r, X)
<1>1. mtx_exists(j, m)
  BY DEF MInv, OwnersOK, mtx_exists
<1>2. CASE j.wait_queue[m] = <<>>
  <2>1. r = [j EXCEPT !.p_loctsk[m] = NULL]
    BY <1>1, <1>2 DEF mutex_release
  <2>2. MtxFields \subseteq DOMAIN j
    BY DEF MInv, MtxType
  <2>3. SameMtx(j, r, {"p_loctsk"}) /\ r.p_loctsk = [j.p_loctsk EXCEPT ![m] = NULL]
    BY <2>1, <2>2 DEF SameMtx, MtxFields
  <2>4. MInv(r, X, Y, {})
    BY ONLY <2>3, <1>2, MInv(j, X, Y, {m}), m \in Wobj, MFreed
  <2>5. r.mutex_queue = j.mutex_queue /\ r.tstat = j.tstat /\ r.priority = j.priority
    BY <2>3 DEF SameMtx, MtxFields
  <2>6. SameMtx(j, r, ReleaseFields)
    BY <2>3 DEF SameMtx, ReleaseFields
  <2> QED BY <2>4, <2>5, <2>6 DEF Released
<1>3. CASE j.wait_queue[m] # <<>>
  <2>1. r = mutex_pass(j, m)
    BY <1>1, <1>3 DEF mutex_release
  <2> QED BY <1>3, <2>1, MPass
<1> QED BY <1>2, <1>3

-----------------------------------------------------------------------------
(***************************************************************************)
(* Priorities.                                                             *)
(***************************************************************************)

(* mutex_calc_priority computes the value PriIs describes. *)
LEMMA CalcPriority ==
  ASSUME NEW j, MtxType(j), NEW t \in Task, NEW p, p = mutex_calc_priority(j, t)
  PROVE  p \in TPRI /\ PriIs(j, t, p) /\ \A n \in TPRI : PriIs(j, t, n) => n = p
<1> DEFINE S == {j.bpriority[t]} \cup
                {j.ceilpri[m] : m \in {n \in Range(j.mutex_queue[t]) : MTX_CEILING(j, n)}}
<1>1. p = Min(S)
  BY DEF mutex_calc_priority
<1>2. \A m \in Wobj : m \in Range(j.mutex_queue[t]) <=> In(j.mutex_queue[t], m)
  <2>1. j.mutex_queue[t] \in Seq(Wobj)
    BY DEF MtxType
  <2> QED BY <2>1 DEF Range, In
<1>3. Range(j.mutex_queue[t]) \subseteq Wobj
  <2>1. j.mutex_queue[t] \in Seq(Wobj)
    BY DEF MtxType
  <2> QED BY <2>1 DEF Range
<1>4. \A m \in Wobj : j.ceilpri[m] \in Nat
  BY DEF MtxType
<1>5. j.bpriority[t] \in TPRI /\ TPRI \subseteq Nat
  BY TnumTpriAssumption DEF MtxType, TPRI
<1>6. \A s : s \in S <=> s = j.bpriority[t] \/ \E m \in Wobj : Ceiled(j, t, m) /\ s = j.ceilpri[m]
  BY <1>2, <1>3 DEF Ceiled
<1> HIDE DEF S
<1>7. S \in SUBSET Nat /\ S # {}
  BY <1>4, <1>5, <1>6
<1>8. p \in S /\ \A s \in S : p <= s
  <2>1. \E s \in S : \A n \in S : s <= n
    BY <1>7, LeastPriority
  <2> QED BY <1>1, <2>1 DEF Min
<1>9. p \in TPRI
  <2>1. p \in Nat /\ p <= j.bpriority[t]
    BY <1>6, <1>7, <1>8
  <2> QED BY <2>1, <1>5, TnumTpriAssumption DEF TPRI
<1>10. PriIs(j, t, p)
  BY <1>6, <1>8 DEF PriIs
<1>11. ASSUME NEW n \in TPRI, PriIs(j, t, n) PROVE n = p
  <2>1. n \in S /\ \A s \in S : n <= s
    BY <1>6, <1>11 DEF PriIs
  <2> QED BY <2>1, <1>5, <1>8, <1>9
<1> QED BY <1>9, <1>10, <1>11

(* change_priority: t gets the priority p and, if it waits, its place in   *)
(* the wait queue.                                                         *)
LEMMA MChangePri ==
  ASSUME NEW j, NEW L, NEW t \in Task, MInv(j, {}, {t}, L), NEW p \in TPRI,
         NEW mode \in BOOLEAN, PriIs(j, t, p), NEW r, r = change_priority(j, t, p, mode)
  PROVE  /\ MInv(r, {}, {}, L) /\ SameMtx(j, r, {"priority", "wait_queue"})
<1>1. MtxType(j) /\ MtxFields \subseteq DOMAIN j
  BY DEF MInv, MtxType
<1>2. PICK y : y = [j EXCEPT !.priority[t] = p]
  OBVIOUS
<1>3. /\ SameMtx(j, y, {"priority"}) /\ y.priority = [j.priority EXCEPT ![t] = p]
  BY <1>1, <1>2 DEF SameMtx, MtxFields
<1>4. y.priority \in [Task -> TPRI] /\ y.priority[t] = p
      /\ \A u \in Task \ {t} : y.priority[u] = j.priority[u]
  BY <1>1, <1>3 DEF MtxType
<1>5. PICK m : m = j.p_wobjcb[t]
  OBVIOUS
<1>6. PICK W : W = IF "MTX" \in j.tstat[t] /\ "RUNNABLE" \notin j.tstat[t] /\ TA_TPRI(j, m)
                   THEN [j.wait_queue EXCEPT ![m] = queue_insert_tpri(y, queue_delete(@, t), t)]
                   ELSE j.wait_queue
  OBVIOUS
<1>7. /\ SameMtx(j, r, {"priority", "wait_queue"}) /\ r.priority = y.priority
      /\ r.wait_queue = W
  <2>1. CASE "RUNNABLE" \in j.tstat[t]
    <3>1. r = change_ready(j, t, p, mode)
      BY <2>1 DEF change_priority, TSTAT_RUNNABLE
    <3>2. SameMtx(j, r, {"priority"}) /\ r.priority = [j.priority EXCEPT ![t] = p]
      BY <1>1, <3>1 DEF change_ready, ready_delete, SameMtx, MtxFields
    <3>3. r.wait_queue = j.wait_queue
      BY <3>2 DEF SameMtx, MtxFields
    <3> QED BY <2>1, <3>2, <3>3, <1>3, <1>6 DEF SameMtx
  <2>2. CASE "RUNNABLE" \notin j.tstat[t] /\ "MTX" \notin j.tstat[t]
    <3>1. ~TSTAT_WAIT_WOBJCB(j, t)
      BY <2>2 DEF MInv, KindOK, TSTAT_WAIT_WOBJCB, TSTAT_WAIT, WobjKind
    <3>2. r = y
      BY <2>2, <3>1, <1>2 DEF change_priority, TSTAT_RUNNABLE
    <3>3. r.wait_queue = j.wait_queue
      BY <3>2, <1>3 DEF SameMtx, MtxFields
    <3> QED BY <2>2, <3>2, <3>3, <1>3, <1>6 DEF SameMtx
  <2>3. CASE "RUNNABLE" \notin j.tstat[t] /\ "MTX" \in j.tstat[t]
    <3>1. TSTAT_WAIT_WOBJCB(j, t)
      BY <2>3 DEF TSTAT_WAIT_WOBJCB, TSTAT_WAIT, WobjcbKind
    <3>2. r = wobj_change_priority(y, m, t)
      BY <2>3, <3>1, <1>2, <1>5 DEF change_priority, TSTAT_RUNNABLE
    <3>3. /\ MtxFields \subseteq DOMAIN y /\ y.wait_queue = j.wait_queue
          /\ TA_TPRI(y, m) = TA_TPRI(j, m)
      BY <1>3 DEF SameMtx, MtxFields, TA_TPRI
    <3>4. CASE TA_TPRI(j, m)
      <4>1. r = [y EXCEPT !.wait_queue[m] = queue_insert_tpri(y, queue_delete(@, t), t)]
        BY <3>2, <3>3, <3>4 DEF wobj_change_priority
      <4>2. SameMtx(y, r, {"wait_queue"}) /\ r.wait_queue = W
        BY <2>3, <3>3, <3>4, <4>1, <1>6 DEF SameMtx, MtxFields
      <4>3. r.priority = y.priority
        BY <4>2 DEF SameMtx, MtxFields
      <4> QED BY <4>2, <4>3, <1>3 DEF SameMtx
    <3>5. CASE ~TA_TPRI(j, m)
      <4>1. r = y
        BY <3>2, <3>3, <3>5 DEF wobj_change_priority
      <4> QED BY <3>3, <3>5, <4>1, <1>3, <1>6 DEF SameMtx
    <3> QED BY <3>4, <3>5
  <2> QED BY <2>1, <2>2, <2>3
<1>8. /\ r.tstat = j.tstat /\ r.bpriority = j.bpriority /\ r.p_wobjcb = j.p_wobjcb
      /\ r.wobjatr = j.wobjatr /\ r.p_loctsk = j.p_loctsk /\ r.mutex_queue = j.mutex_queue
      /\ r.ceilpri = j.ceilpri /\ r.free_mtxcb = j.free_mtxcb /\ r.undef = j.undef
      /\ MtxFields \subseteq DOMAIN r
  BY <1>7 DEF SameMtx, MtxFields
<1>9. /\ W \in [Wobj -> Seq(Task)] /\ \A n \in Wobj : Distinct(W[n])
      /\ \A n \in Wobj, u \in Task : In(W[n], u) <=> In(j.wait_queue[n], u)
      /\ \A n \in Wobj : j.wait_queue[n] = <<>> => W[n] = <<>>
      /\ \A n \in Wobj : TA_TPRI(j, n) => Ordered(W[n], y.priority)
  <2>1. ASSUME NEW n \in Wobj, TA_TPRI(j, n), ~In(j.wait_queue[n], t)
        PROVE  Ordered(j.wait_queue[n], y.priority)
    <3>1. j.wait_queue[n] \in Seq(Task) /\ Ordered(j.wait_queue[n], j.priority)
      BY <2>1 DEF MInv, MtxType, QueuesOK
    <3>2. PICK q \in Seq(Task) : q = j.wait_queue[n]
      BY <3>1
    <3>3. ASSUME NEW i \in 1 .. Len(q) PROVE y.priority[q[i]] = j.priority[q[i]]
      <4>1. q[i] \in Task /\ q[i] # t
        BY <2>1, <3>2 DEF In
      <4> QED BY <4>1, <1>4
    <3> QED BY <3>1, <3>2, <3>3 DEF Ordered
  <2>2. /\ j.wait_queue \in [Wobj -> Seq(Task)] /\ \A n \in Wobj : Distinct(j.wait_queue[n])
        /\ \A n \in Wobj : In(j.wait_queue[n], t) <=> "MTX" \in j.tstat[t] /\ n = m
    BY <1>5 DEF MInv, MtxType, QueuesOK
  <2>3. "MTX" \in j.tstat[t] => "RUNNABLE" \notin j.tstat[t] /\ m \in Wobj
    BY <1>5 DEF MInv, KindOK
  <2>4. CASE "MTX" \notin j.tstat[t] \/ ~TA_TPRI(j, m)
    <3>1. W = j.wait_queue
      BY <2>4, <1>6
    <3> QED BY <2>1, <2>2, <2>4, <3>1
  <2>5. CASE "MTX" \in j.tstat[t] /\ TA_TPRI(j, m)
    <3>1. PICK q \in Seq(Task) : q = j.wait_queue[m]
      BY <2>2, <2>3, <2>5
    <3>2. Distinct(q) /\ In(q, t) /\ Ordered(q, j.priority)
      BY <2>2, <2>3, <2>5, <3>1 DEF MInv, QueuesOK
    <3>3. PICK a : a = queue_delete(q, t)
      OBVIOUS
    <3>4. /\ a \in Seq(Task) /\ Distinct(a)
          /\ \A u \in Task : In(a, u) <=> In(q, u) /\ u # t
      BY <3>2, <3>3, Deleted
    <3>5. Ordered(a, y.priority)
      <4>1. PICK pri : pri = j.priority
        OBVIOUS
      <4>2. PICK new : new = y.priority
        OBVIOUS
      <4>3. Ordered(q, pri) /\ \A u \in Task : u # t => new[u] = pri[u]
        BY <3>2, <4>1, <4>2, <1>4
      <4>4. Ordered(a, new)
        BY ONLY <3>2, <3>3, <4>3, q \in Seq(Task), t \in Task, DeletedOrdered
      <4> QED BY <4>2, <4>4
    <3>6. PICK b : b = queue_insert_tpri(y, a, t)
      OBVIOUS
    <3>7. /\ b \in Seq(Task) /\ Distinct(b)
          /\ \A u \in Task : In(b, u) <=> In(a, u) \/ u = t
          /\ Ordered(b, y.priority)
      BY <3>4, <3>5, <3>6, <1>4, InsertedTpri
    <3>8. W = [j.wait_queue EXCEPT ![m] = b]
      BY <2>3, <2>5, <3>1, <3>3, <3>6, <1>6
    <3>9. /\ W \in [Wobj -> Seq(Task)] /\ W[m] = b
          /\ \A n \in Wobj \ {m} : W[n] = j.wait_queue[n]
      BY <2>2, <2>3, <2>5, <3>7, <3>8
    <3>10. \A u \in Task : In(b, u) <=> In(q, u)
      BY <3>2, <3>4, <3>7
    <3>11. q # <<>>
      BY <3>2 DEF In
    <3> HIDE <3>8, <3>6, <3>3
    <3> QED BY <2>1, <2>2, <3>1, <3>7, <3>9, <3>10, <3>11
  <2> QED BY <2>4, <2>5
<1> HIDE <1>6, <1>2
<1>10. MtxType(r)
  BY <1>1, <1>4, <1>7, <1>8, <1>9 DEF MtxType
<1>11. OwnersOK(r, L)
  BY <1>8 DEF MInv, OwnersOK
<1>12. QueuesOK(r, {})
  <2>1. \A u \in Task, n \in Wobj :
          In(r.wait_queue[n], u) <=> "MTX" \in r.tstat[u] /\ r.p_wobjcb[u] = n /\ u \notin {}
    BY <1>7, <1>8, <1>9 DEF MInv, QueuesOK
  <2>2. \A n \in Wobj : r.p_loctsk[n] = NULL => r.wait_queue[n] = <<>>
    BY <1>7, <1>8, <1>9 DEF MInv, QueuesOK
  <2>3. \A n \in Wobj : TA_TPRI(r, n) => Ordered(r.wait_queue[n], r.priority)
    BY <1>7, <1>8, <1>9 DEF TA_TPRI
  <2> QED BY <2>1, <2>2, <2>3, <1>7, <1>9 DEF QueuesOK
<1>13. CeilOK(r)
  BY <1>7, <1>8, <1>9 DEF MInv, CeilOK, MTX_CEILING
<1>14. ASSUME NEW u \in Task PROVE PriOK(r, u)
  <2>1. \A n \in Wobj : Ceiled(r, u, n) <=> Ceiled(j, u, n)
    BY <1>8 DEF Ceiled, MTX_CEILING
  <2>2. PriIs(j, u, r.priority[u])
    <3>1. CASE u = t
      BY <3>1, <1>4, <1>7
    <3>2. CASE u # t
      BY <3>2, <1>4, <1>7 DEF MInv, PriOK
    <3> QED BY <3>1, <3>2
  <2> QED BY <2>1, <2>2, <1>8 DEF PriOK, PriIs
<1>15. FreeMtxOK(r) /\ \A u \in Task : KindOK(r.tstat[u], r.p_wobjcb[u])
  BY <1>8 DEF MInv, FreeMtxOK
<1>16. MInv(r, {}, {}, L)
  BY <1>10, <1>11, <1>12, <1>13, <1>14, <1>15 DEF MInv
<1> QED BY <1>7, <1>16

(* mutex_drop_priority, for a task that has lost a mutex of ceiling old. *)
LEMMA MDrop ==
  ASSUME NEW j, NEW L, NEW t \in Task, MInv(j, {}, {t}, L), NEW old,
         j.priority[t] = old \/ PriOK(j, t), NEW r, r = mutex_drop_priority(j, t, old)
  PROVE  MInv(r, {}, {}, L) /\ SameMtx(j, r, {"priority", "wait_queue"})
<1>1. PICK p : p = mutex_calc_priority(j, t)
  OBVIOUS
<1>2. p \in TPRI /\ PriIs(j, t, p) /\ \A n \in TPRI : PriIs(j, t, n) => n = p
  BY <1>1, CalcPriority DEF MInv
<1>3. r = IF old = j.priority[t] /\ p # j.priority[t] THEN change_priority(j, t, p, TRUE) ELSE j
  BY <1>1 DEF mutex_drop_priority
<1> HIDE <1>1
<1>4. CASE old = j.priority[t] /\ p # j.priority[t]
  <2>1. r = change_priority(j, t, p, TRUE)
    BY <1>3, <1>4
  <2> QED BY <1>2, <2>1, MChangePri
<1>5. CASE ~(old = j.priority[t] /\ p # j.priority[t])
  <2>1. r = j
    BY <1>3, <1>5
  <2>2. PriOK(j, t)
    BY <1>2, <1>5 DEF PriOK
  <2>3. MInv(j, {}, {}, L)
    BY <2>2 DEF MInv
  <2>4. SameMtx(j, j, {"priority", "wait_queue"})
    BY DEF MInv, MtxType, SameMtx
  <2> QED BY <2>1, <2>3, <2>4
<1> QED BY <1>4, <1>5

(* Leaving out a task that waits for no mutex. *)
LEMMA MWeaken ==
  ASSUME NEW j, NEW Y, NEW L, MInv(j, {}, Y, L), NEW t \in Task, "MTX" \notin j.tstat[t]
  PROVE  MInv(j, {t}, Y, L)
<1>1. SameMtx(j, j, {"tstat"}) /\ j.tstat \in [Task -> SUBSET TstatFlag]
  BY DEF SameMtx, MInv, MtxType
<1>2. \A u \in Task : "MTX" \in j.tstat[u] /\ u \notin {t}
                        <=> "MTX" \in j.tstat[u] /\ u \notin {}
  OBVIOUS
<1>3. \A u \in Task : KindOK(j.tstat[u], j.p_wobjcb[u])
  BY DEF MInv
<1>4. \A u \in Task : j.tstat[u] = {} => j.tstat[u] = {}
  OBVIOUS
<1> QED BY ONLY <1>1, <1>2, <1>3, <1>4, MInv(j, {}, Y, L), MStat

(* make_dormant: a task that is in no queue gets its initial values. *)
LEMMA MDormant ==
  ASSUME NEW j, NEW t \in Task, MInv(j, {t}, {t}, {}), j.mutex_queue[t] = <<>>,
         j.ipriority[t] \in TPRI, NEW r, r = make_dormant(j, t)
  PROVE  MInv(r, {}, {}, {}) /\ r.tstat[t] = {} /\ SameMtx(j, r, {"tstat", "bpriority", "priority"})
<1>1. MtxType(j) /\ MtxFields \subseteq DOMAIN j
  BY DEF MInv, MtxType
<1>2. PICK p \in TPRI : p = j.ipriority[t]
  OBVIOUS
<1>3. /\ SameMtx(j, r, {"tstat", "bpriority", "priority"})
      /\ r.tstat = [j.tstat EXCEPT ![t] = {}]
      /\ r.bpriority = [j.bpriority EXCEPT ![t] = p]
      /\ r.priority = [j.priority EXCEPT ![t] = p]
  BY <1>1, <1>2 DEF SameMtx, MtxFields, make_dormant, TS_DORMANT
<1>4. /\ r.p_wobjcb = j.p_wobjcb /\ r.wait_queue = j.wait_queue
      /\ r.wobjatr = j.wobjatr /\ r.p_loctsk = j.p_loctsk /\ r.mutex_queue = j.mutex_queue
      /\ r.ceilpri = j.ceilpri /\ r.free_mtxcb = j.free_mtxcb /\ r.undef = j.undef
      /\ MtxFields \subseteq DOMAIN r
  BY <1>3 DEF SameMtx, MtxFields
<1>5. /\ r.tstat \in [Task -> SUBSET TstatFlag] /\ r.tstat[t] = {}
      /\ r.bpriority \in [Task -> TPRI] /\ r.bpriority[t] = p
      /\ r.priority \in [Task -> TPRI] /\ r.priority[t] = p
      /\ \A u \in Task \ {t} : /\ r.tstat[u] = j.tstat[u] /\ r.bpriority[u] = j.bpriority[u]
                               /\ r.priority[u] = j.priority[u]
  BY <1>1, <1>3 DEF MtxType
<1> HIDE <1>2
<1>6. MtxType(r)
  BY <1>1, <1>4, <1>5 DEF MtxType
<1>7. \A n \in Wobj : ~In(j.mutex_queue[t], n) /\ j.p_loctsk[n] # t /\ ~In(j.wait_queue[n], t)
  <2>1. \A n \in Wobj : ~In(j.mutex_queue[t], n)
    BY DEF In
  <2> QED BY <2>1 DEF MInv, OwnersOK, QueuesOK
<1>8. OwnersOK(r, {})
  <2>1. ASSUME NEW n \in Wobj, r.p_loctsk[n] # NULL
        PROVE  r.wobjatr[n] # "TA_NOEXS" /\ r.tstat[r.p_loctsk[n]] # {}
    <3>1. PICK u \in Task \ {t} : u = j.p_loctsk[n]
      BY <2>1, <1>1, <1>4, <1>7 DEF MtxType
    <3>2. j.wobjatr[n] # "TA_NOEXS" /\ j.tstat[u] # {}
      BY <2>1, <3>1, <1>4 DEF MInv, OwnersOK
    <3> QED BY <3>1, <3>2, <1>4, <1>5
  <2> QED BY <2>1, <1>4 DEF MInv, OwnersOK
<1>9. QueuesOK(r, {})
  <2>1. ASSUME NEW u \in Task, NEW n \in Wobj
        PROVE  In(r.wait_queue[n], u) <=> "MTX" \in r.tstat[u] /\ r.p_wobjcb[u] = n /\ u \notin {}
    <3>1. In(j.wait_queue[n], u) <=> "MTX" \in j.tstat[u] /\ j.p_wobjcb[u] = n /\ u \notin {t}
      BY DEF MInv, QueuesOK
    <3> QED BY <3>1, <1>4, <1>5
  <2>3. ASSUME NEW n \in Wobj, TA_TPRI(r, n)
        PROVE  Ordered(r.wait_queue[n], r.priority)
    <3>1. j.wait_queue[n] \in Seq(Task) /\ Ordered(j.wait_queue[n], j.priority)
      BY <1>1, <1>4, <2>3 DEF MInv, MtxType, QueuesOK, TA_TPRI
    <3>2. PICK w \in Seq(Task) : w = j.wait_queue[n]
      BY <3>1
    <3>3. ASSUME NEW i \in 1 .. Len(w) PROVE r.priority[w[i]] = j.priority[w[i]]
      <4>1. w[i] \in Task /\ w[i] # t
        BY <3>2, <1>7 DEF In
      <4> QED BY <4>1, <1>5
    <3> QED BY <3>1, <3>2, <3>3, <1>4 DEF Ordered
  <2> QED BY <2>1, <2>3, <1>4 DEF MInv, QueuesOK
<1>10. CeilOK(r)
  <2> SUFFICES ASSUME NEW u \in Task, NEW n \in Wobj, MTX_CEILING(r, n),
                      r.p_loctsk[n] = u \/ In(r.wait_queue[n], u)
               PROVE  r.ceilpri[n] <= r.bpriority[u]
    BY DEF CeilOK
  <2>1. MTX_CEILING(j, n)
    BY <1>4 DEF MTX_CEILING
  <2>2. u # t
    BY <1>4, <1>7
  <2> QED BY <2>1, <2>2, <1>4, <1>5 DEF MInv, CeilOK
<1>11. ASSUME NEW u \in Task PROVE PriOK(r, u)
  <2>1. \A n \in Wobj : Ceiled(r, u, n) <=> Ceiled(j, u, n)
    BY <1>4 DEF Ceiled, MTX_CEILING
  <2>2. CASE u = t
    <3>1. \A n \in Wobj : ~Ceiled(j, t, n)
      BY <1>7 DEF Ceiled
    <3>2. p <= p
      BY TnumTpriAssumption DEF TPRI
    <3> QED BY <2>1, <2>2, <3>1, <3>2, <1>5 DEF PriOK, PriIs
  <2>3. CASE u # t
    BY <2>1, <2>3, <1>4, <1>5 DEF MInv, PriOK, PriIs
  <2> QED BY <2>2, <2>3
<1>12. ASSUME NEW u \in Task PROVE KindOK(r.tstat[u], r.p_wobjcb[u])
  <2>1. KindOK({}, r.p_wobjcb[u])
    BY DEF KindOK
  <2> QED BY <2>1, <1>4, <1>5 DEF MInv
<1>13. FreeMtxOK(r)
  BY <1>4 DEF MInv, FreeMtxOK
<1> QED BY <1>3, <1>5, <1>6, <1>8, <1>9, <1>10, <1>11, <1>12, <1>13 DEF MInv

(* make_active: a dormant task becomes runnable. *)
LEMMA MActive ==
  ASSUME NEW j, MInv(j, {}, {}, {}), NEW t \in Task, j.tstat[t] = {},
         NEW r, r = make_active(j, t)
  PROVE  MInv(r, {}, {}, {})
<1>1. PICK y : y = activate_context(j, t)
  OBVIOUS
<1>2. PICK z : z = [y EXCEPT !.tstat[t] = {"RUNNABLE"}]
  OBVIOUS
<1>3. r = make_runnable(z, t)
  BY <1>1, <1>2 DEF make_active, TS_RUNNABLE
<1>4. MtxFields \subseteq DOMAIN j
  BY DEF MInv, MtxType
<1>5. SameMtx(j, y, {})
  BY <1>1, <1>4, SameReady
<1> HIDE <1>1
<1>6. MtxFields \subseteq DOMAIN y /\ y.tstat = j.tstat /\ y.p_wobjcb = j.p_wobjcb
  BY <1>5 DEF SameMtx, MtxFields
<1>7. SameMtx(y, z, {"tstat"}) /\ z.tstat = [j.tstat EXCEPT ![t] = {"RUNNABLE"}]
  BY <1>2, <1>6 DEF SameMtx, MtxFields
<1> HIDE <1>2
<1>8. SameMtx(j, z, {"tstat"}) /\ MtxFields \subseteq DOMAIN z /\ z.p_wobjcb = j.p_wobjcb
  BY <1>5, <1>6, <1>7 DEF SameMtx, MtxFields
<1>9. j.tstat \in [Task -> SUBSET TstatFlag] /\ {"RUNNABLE"} \subseteq TstatFlag
  BY DEF MInv, MtxType, TstatFlag
<1>10. /\ z.tstat \in [Task -> SUBSET TstatFlag] /\ z.tstat[t] = {"RUNNABLE"}
       /\ \A u \in Task \ {t} : z.tstat[u] = j.tstat[u]
  BY <1>7, <1>9
<1>11. \A u \in Task : "MTX" \in z.tstat[u] /\ u \notin {}
                         <=> "MTX" \in j.tstat[u] /\ u \notin {}
  BY <1>10
<1>12. \A u \in Task : z.tstat[u] = {} => j.tstat[u] = {}
  BY <1>10
<1>13. \A u \in Task : KindOK(z.tstat[u], z.p_wobjcb[u])
  <2>1. \A o : KindOK({"RUNNABLE"}, o)
    BY DEF KindOK, WobjKind, WobjcbKind
  <2> QED BY <2>1, <1>8, <1>10 DEF MInv
<1>14. MInv(z, {}, {}, {})
  BY ONLY <1>8, <1>10, <1>11, <1>12, <1>13, MInv(j, {}, {}, {}), MStat
<1>15. SameMtx(z, r, {})
  BY <1>3, <1>8, SameReady
<1> QED BY <1>14, <1>15, MSame

(* The raised priority is one of the task priorities. *)
LEMMA RaisedType ==
  ASSUME NEW j, MtxType(j), NEW t \in Task, NEW m \in Wobj
  PROVE  RaisedPri(j, t, m) \in TPRI
<1>1. j.priority[t] \in 0 .. TNUM_TPRI - 1 /\ j.ceilpri[m] \in 0 .. TNUM_TPRI
  BY DEF MtxType, TPRI
<1> QED BY <1>1, TnumTpriAssumption DEF RaisedPri, TPRI

(* The queues and the fields of the mutexes are not part of the tables. *)
MtxOnly == {"wait_queue", "mutex_queue", "p_wobjcb", "wobjatr", "p_loctsk", "ceilpri",
            "free_mtxcb", "undef"}

(* The tables of the task part do not depend on the fields of the mutexes. *)
LEMMA MtxFrame ==
  ASSUME NEW j, NEW S, StaticOf(j, S), NEW r, Frame(j, r, MtxOnly)
  PROVE  CallOf(j, r, S) /\ r.tstat = j.tstat
<1>1. KernelFields \subseteq DOMAIN r /\ \A f \in KernelFields \ MtxOnly : r[f] = j[f]
  BY DEF Frame, StaticOf, Data
<1>2. Kept(j, r, {})
  BY <1>1 DEF Kept, KernelFields, MtxOnly, QueueFields
<1> QED BY <1>2, KeptTables

(* mutex_release, also while the task that held m is about to end. *)
LEMMA ReleaseCall ==
  ASSUME NEW j, NEW X, NEW Y, NEW m \in Wobj, MInv(j, X, Y, {m}), j.p_loctsk[m] # NULL,
         NEW S \in SUBSET Task, Task \ X \subseteq S, StaticOf(j, S),
         NEW r, r = mutex_release(j, m)
  PROVE  CallOf(j, r, S)
<1>1. mtx_exists(j, m)
  BY DEF MInv, OwnersOK, mtx_exists
<1>2. CASE j.wait_queue[m] = <<>>
  <2>1. r = [j EXCEPT !.p_loctsk[m] = NULL]
    BY <1>1, <1>2 DEF mutex_release
  <2>2. Frame(j, r, MtxOnly)
    BY <2>1 DEF Frame, MtxOnly
  <2> QED BY <2>2, MtxFrame
<1>3. CASE j.wait_queue[m] # <<>>
  <2>1. r = mutex_pass(j, m)
    BY <1>1, <1>3 DEF mutex_release
  <2>2. PICK t : t = Head(j.wait_queue[m])
    OBVIOUS
  <2>3. PICK y : y = WithoutHead(j, m)
    OBVIOUS
  <2>4. PICK z : z = set_wercd(wait_dequeue_tmevtb(y, t), t, "E_OK")
    OBVIOUS
  <2>5. PICK x : x = [z EXCEPT !.p_loctsk[m] = t,
                               !.mutex_queue[t] = queue_insert_prev(@, m),
                               !.priority[t] = IF MTX_CEILING(j, m) /\ j.ceilpri[m] < @
                                               THEN j.ceilpri[m] ELSE @]
    OBVIOUS
  <2>6. r = make_non_wait(x, t)
    BY <2>1, <2>2, <2>3, <2>4, <2>5 DEF mutex_pass, WithoutHead
  <2>7. t \in Task /\ t \notin X /\ "WAITING" \in j.tstat[t]
    BY <1>3, <2>2, WaitHead
  <2>8. t \in S
    BY <2>7
  <2>9. Kept(j, y, {})
    BY <2>3 DEF Kept, WithoutHead, QueueFields, StaticOf, Data
  <2>10. Passing(j, z, t) /\ z.priority = j.priority
    <3>1. "E_OK" \in Wercd
      BY DEF Wercd
    <3> QED BY ONLY <2>4, <2>7, <2>8, <2>9, <3>1, StaticOf(j, S), S \in SUBSET Task, Dequeueing
  <2> HIDE <2>2, <2>3, <2>4
  <2>11. /\ KernelFields \subseteq DOMAIN j /\ KernelFields \subseteq DOMAIN z
         /\ j.priority \in [Task -> TPRI]
    BY <2>10 DEF Passing, Kept, StaticOf, Data, SchedType
  <2>12. x.priority = [j.priority EXCEPT ![t] = RaisedPri(j, t, m)]
    BY <2>5, <2>10, <2>11 DEF KernelFields, RaisedPri
  <2>13. /\ x.priority \in [Task -> TPRI]
         /\ \A v \in Task \ {t} : x.priority[v] = j.priority[v]
    <3>1. RaisedPri(j, t, m) \in TPRI
      BY <2>7, RaisedType DEF MInv
    <3> QED BY <3>1, <2>11, <2>12
  <2>14. Frame(z, x, {"p_loctsk", "mutex_queue", "priority"})
    BY <2>5 DEF Frame
  <2>15. x.winfo = z.winfo /\ x.tmevtb = z.tmevtb
    BY <2>11, <2>14 DEF Frame, KernelFields
  <2>16. Kept(j, x, PassFields)
    BY <2>10, <2>14 DEF Passing, Frame, Kept, PassFields, QueueFields, KernelFields
  <2>17. Passing(j, x, t)
    BY <2>10, <2>13, <2>15, <2>16 DEF Passing
  <2> HIDE <2>5
  <2> QED BY ONLY <2>6, <2>7, <2>8, <2>17, StaticOf(j, S), S \in SUBSET Task, PassCall
<1> QED BY <1>2, <1>3

(* The state x of the loop of init_wait_queue after n iterations. *)
InitWaitAt(j, x, m, n) ==
  /\ MInv(x, {}, {}, {}) /\ SameMtx(j, x, {"wait_queue", "tstat"}) /\ CallOf(j, x, Task)
  /\ Len(x.wait_queue[m]) = Len(j.wait_queue[m]) - n

(* One iteration. *)
LEMMA InitWaitStep ==
  ASSUME NEW j, NEW m \in Wobj, Len(j.wait_queue[m]) \in Nat,
         NEW n \in 1 .. Len(j.wait_queue[m]), NEW x, InitWaitAt(j, x, m, n - 1),
         NEW r, r = wait_delete_head(x, m)
  PROVE  InitWaitAt(j, r, m, n)
<1>1. MInv(x, {}, {}, {}) /\ SameMtx(j, x, {"wait_queue", "tstat"}) /\ CallOf(j, x, Task)
  BY DEF InitWaitAt
<1>2. Len(x.wait_queue[m]) > 0
  BY DEF InitWaitAt
<1>3. x.wait_queue[m] # <<>>
  BY <1>2
<1>4. /\ MInv(r, {}, {}, {}) /\ SameMtx(x, r, {"wait_queue", "tstat"})
      /\ Shorter(r.wait_queue[m], x.wait_queue[m])
  BY <1>1, <1>3, MDeleteHead
<1>5. PICK t : t = Head(x.wait_queue[m])
  OBVIOUS
<1>6. t \in Task /\ "WAITING" \in x.tstat[t]
  BY <1>1, <1>3, <1>5, WaitHead
<1>7. Static(x)
  BY <1>1, StaticCases DEF CallOf
<1>8. CallOf(x, r, Task)
  BY ONLY <1>5, <1>6, <1>7, m \in Wobj, r = wait_delete_head(x, m), DeleteHeadCall
<1>9. CallOf(j, r, Task)
  BY <1>1, <1>8, CallTrans
<1>10. SameMtx(j, r, {"wait_queue", "tstat"})
  BY <1>1, <1>4, SameTrans
<1>11. Len(r.wait_queue[m]) = Len(j.wait_queue[m]) - n
  BY <1>4 DEF InitWaitAt, Shorter
<1> QED BY <1>4, <1>9, <1>10, <1>11 DEF InitWaitAt

(* init_wait_queue releases every task that waits for m. *)
LEMMA InitWait ==
  ASSUME NEW j, MInv(j, {}, {}, {}), Static(j), NEW m \in Wobj,
         NEW r, r = init_wait_queue(j, m)
  PROVE  /\ MInv(r, {}, {}, {}) /\ SameMtx(j, r, {"wait_queue", "tstat"})
         /\ CallOf(j, r, Task) /\ r.wait_queue[m] = <<>>
<1>1. j.wait_queue[m] \in Seq(Task)
  BY DEF MInv, MtxType
<1>2. PICK N \in Nat : N = Len(j.wait_queue[m])
  BY <1>1
<1>3. PICK f : LoopTo(TRUE, j, m, f, N) /\ r = f[N]
  BY <1>2, InitWaitLoop
<1> DEFINE T == {n \in 0 .. N : InitWaitAt(j, f[n], m, n)}
<1>4. 0 \in T
  <2>1. SameMtx(j, j, {"wait_queue", "tstat"})
    BY DEF SameMtx, MInv, MtxType
  <2>2. CallOf(j, j, Task)
    BY CallRefl, StaticCases
  <2>3. InitWaitAt(j, j, m, 0)
    BY <1>2, <2>1, <2>2 DEF InitWaitAt
  <2> QED BY <1>3, <2>3 DEF LoopTo
<1>5. ASSUME NEW n \in 1 .. N, n - 1 \in T PROVE n \in T
  <2>1. f[n] = wait_delete_head(f[n - 1], m)
    BY <1>3 DEF LoopTo, LoopStep
  <2>2. InitWaitAt(j, f[n - 1], m, n - 1)
    BY <1>5
  <2>3. InitWaitAt(j, f[n], m, n)
    BY ONLY <1>2, <2>1, <2>2, m \in Wobj, n \in 1 .. N, InitWaitStep
  <2> QED BY <2>3
<1>6. \A n \in 1 .. N : n - 1 \in T => n \in T
  BY <1>5
<1> HIDE DEF T
<1>7. \A n \in 0 .. N : n \in T
  BY <1>4, <1>6, LoopInduction
<1>8. InitWaitAt(j, r, m, N)
  BY <1>3, <1>7 DEF T
<1>9. r.wait_queue[m] \in Seq(Task) /\ Len(r.wait_queue[m]) = 0
  BY <1>2, <1>8 DEF InitWaitAt, MInv, MtxType
<1> QED BY <1>8, <1>9 DEF InitWaitAt

FirstOf(j, t, m) == m = Head(j.mutex_queue[t])
FirstUnlinked(j, t) == [j EXCEPT !.mutex_queue[t] = Tail(@)]

(* The state x of the loop of mutex_release_all after n iterations. *)
ReleaseAt(j, x, t, n) ==
  /\ MInv(x, {t}, {t}, {}) /\ CallOf(j, x, Task \ {t}) /\ x.tstat[t] = j.tstat[t]
  /\ Len(x.mutex_queue[t]) = Len(j.mutex_queue[t]) - n

(* The first mutex leaves the queue of the task that ends. *)
LEMMA UnlinkFirst ==
  ASSUME NEW x, NEW t \in Task, NEW X, X = {t}, MInv(x, X, X, {}), x.mutex_queue[t] # <<>>,
         NEW m, FirstOf(x, t, m), NEW y, y = FirstUnlinked(x, t)
  PROVE  /\ m \in Wobj /\ MInv(y, X, X, {m}) /\ Locks(y, t, m)
         /\ y.tstat = x.tstat /\ Shorter(y.mutex_queue[t], x.mutex_queue[t])
<1>1. x.mutex_queue[t] \in Seq(Wobj) /\ Distinct(x.mutex_queue[t]) /\ MtxType(x)
  BY DEF MInv, MtxType, OwnersOK
<1>2. PICK q : q = Tail(x.mutex_queue[t])
  OBVIOUS
<1>3. /\ m \in Wobj /\ In(x.mutex_queue[t], m) /\ q \in Seq(Wobj) /\ Distinct(q)
      /\ Len(q) = Len(x.mutex_queue[t]) - 1
      /\ \A n \in Wobj : In(q, n) <=> In(x.mutex_queue[t], n) /\ n # m
  BY <1>1, <1>2, HeadTaken DEF FirstOf
<1>4. x.p_loctsk[m] = t /\ Locks(x, t, m)
  BY <1>3 DEF MInv, OwnersOK, Locks
<1>5. y = [x EXCEPT !.mutex_queue[t] = q]
  BY <1>2 DEF FirstUnlinked
<1>6. /\ SameMtx(x, y, {"p_loctsk", "mutex_queue"}) /\ y.p_loctsk = x.p_loctsk
      /\ y.mutex_queue = [x.mutex_queue EXCEPT ![t] = q]
  BY <1>1, <1>5 DEF SameMtx, MtxType, MtxFields
<1>7. Unlinks(x, y, t, m, q, {m})
  BY <1>3, <1>6 DEF Unlinks
<1> HIDE <1>2, <1>5
<1>8. PICK L1 : L1 = {m}
  OBVIOUS
<1>9. MInv(x, X, X, {}) /\ Unlinks(x, y, t, m, q, L1)
  BY <1>7, <1>8
<1>10. MInv(y, X, X \cup {t}, L1) /\ y.tstat = x.tstat /\ y.mutex_queue[t] = q
  BY ONLY <1>3, <1>4, <1>9, t \in Task, MUnlink
<1>11. X \cup {t} = X
  OBVIOUS
<1> QED BY <1>3, <1>4, <1>6, <1>8, <1>10, <1>11 DEF Shorter, Locks

(* One iteration. *)
LEMMA ReleaseStep ==
  ASSUME NEW j, NEW t \in Task, Len(j.mutex_queue[t]) \in Nat,
         NEW n \in 1 .. Len(j.mutex_queue[t]), NEW x, ReleaseAt(j, x, t, n - 1),
         NEW r, r = mutex_release_first(x, t)
  PROVE  ReleaseAt(j, r, t, n)
<1>1. MInv(x, {t}, {t}, {}) /\ CallOf(j, x, Task \ {t}) /\ x.tstat[t] = j.tstat[t]
  BY DEF ReleaseAt
<1>2. Len(x.mutex_queue[t]) > 0
  BY DEF ReleaseAt
<1>3. x.mutex_queue[t] # <<>>
  BY <1>2
<1>4. PICK m : FirstOf(x, t, m)
  BY DEF FirstOf
<1>5. PICK y : y = FirstUnlinked(x, t)
  OBVIOUS
<1>6. /\ m \in Wobj /\ MInv(y, {t}, {t}, {m}) /\ y.p_loctsk[m] # NULL
      /\ y.tstat = x.tstat /\ Shorter(y.mutex_queue[t], x.mutex_queue[t])
  <2>0. Locks(y, t, m)
    BY <1>1, <1>3, <1>4, <1>5, UnlinkFirst
  <2>1. m \in Wobj /\ y.tstat = x.tstat
    BY <1>1, <1>3, <1>4, <1>5, UnlinkFirst
  <2>2. MInv(y, {t}, {t}, {m})
    BY <1>1, <1>3, <1>4, <1>5, UnlinkFirst
  <2>3. Shorter(y.mutex_queue[t], x.mutex_queue[t])
    BY <1>1, <1>3, <1>4, <1>5, UnlinkFirst
  <2> QED BY <2>0, <2>1, <2>2, <2>3, NullAssumption DEF Locks
<1>7. r = mutex_release(y, m)
  BY <1>4, <1>5 DEF mutex_release_first, FirstUnlinked, FirstOf
<1>8. StaticOf(x, Task \ {t})
  BY <1>1 DEF CallOf
<1>9. Frame(x, y, MtxOnly)
  BY <1>5 DEF Frame, FirstUnlinked, MtxOnly
<1>10. CallOf(x, y, Task \ {t})
  BY <1>8, <1>9, MtxFrame
<1> HIDE <1>4, <1>5
<1>11. MInv(r, {t}, {t}, {}) /\ Released(y, r, {t})
  BY ONLY <1>6, <1>7, MRelease
<1>12. CallOf(y, r, Task \ {t})
  <2>1. StaticOf(y, Task \ {t}) /\ Task \ {t} \in SUBSET Task
    BY <1>10 DEF CallOf
  <2> QED BY ONLY <1>6, <1>7, <2>1, ReleaseCall
<1>13. CallOf(j, r, Task \ {t})
  BY <1>1, <1>10, <1>12, CallTrans
<1>14. r.mutex_queue[t] = y.mutex_queue[t] /\ r.tstat[t] = y.tstat[t]
  BY <1>11 DEF Released
<1>15. Len(r.mutex_queue[t]) = Len(j.mutex_queue[t]) - n
  <2>1. Len(x.mutex_queue[t]) = Len(j.mutex_queue[t]) - (n - 1)
    BY DEF ReleaseAt
  <2>2. Len(r.mutex_queue[t]) = Len(x.mutex_queue[t]) - 1
    BY <1>6, <1>14 DEF Shorter
  <2> QED BY <2>1, <2>2
<1> QED BY <1>1, <1>6, <1>11, <1>13, <1>14, <1>15 DEF ReleaseAt

(* mutex_release_all releases every mutex of the task that ends. *)
LEMMA ReleaseAll ==
  ASSUME NEW j, NEW t \in Task, MInv(j, {t}, {t}, {}), StaticOf(j, Task \ {t}),
         NEW r, r = mutex_release_all(j, t)
  PROVE  /\ MInv(r, {t}, {t}, {}) /\ CallOf(j, r, Task \ {t}) /\ r.tstat[t] = j.tstat[t]
         /\ r.mutex_queue[t] = <<>>
<1>1. j.mutex_queue[t] \in Seq(Wobj)
  BY DEF MInv, MtxType
<1>2. PICK N \in Nat : N = Len(j.mutex_queue[t])
  BY <1>1
<1>3. PICK f : LoopTo(FALSE, j, t, f, N) /\ r = f[N]
  BY <1>2, ReleaseAllLoop
<1> DEFINE T == {n \in 0 .. N : ReleaseAt(j, f[n], t, n)}
<1>4. 0 \in T
  <2>1. CallOf(j, j, Task \ {t})
    BY CallRefl
  <2>2. ReleaseAt(j, j, t, 0)
    BY <1>2, <2>1 DEF ReleaseAt
  <2> QED BY <1>3, <2>2 DEF LoopTo
<1>5. ASSUME NEW n \in 1 .. N, n - 1 \in T PROVE n \in T
  <2>1. f[n] = mutex_release_first(f[n - 1], t)
    BY <1>3 DEF LoopTo, LoopStep
  <2>2. ReleaseAt(j, f[n - 1], t, n - 1)
    BY <1>5
  <2>3. ReleaseAt(j, f[n], t, n)
    BY ONLY <1>2, <2>1, <2>2, t \in Task, n \in 1 .. N, ReleaseStep
  <2> QED BY <2>3
<1>6. \A n \in 1 .. N : n - 1 \in T => n \in T
  BY <1>5
<1> HIDE DEF T
<1>7. \A n \in 0 .. N : n \in T
  BY <1>4, <1>6, LoopInduction
<1>8. ReleaseAt(j, r, t, N)
  BY <1>3, <1>7 DEF T
<1>9. r.mutex_queue[t] \in Seq(Wobj) /\ Len(r.mutex_queue[t]) = 0
  BY <1>2, <1>8 DEF ReleaseAt, MInv, MtxType
<1> QED BY <1>8, <1>9 DEF ReleaseAt

-----------------------------------------------------------------------------
(***************************************************************************)
(* The end of a task.                                                      *)
(***************************************************************************)

(* MInv with more priorities left out. *)
LEMMA MRelax ==
  ASSUME NEW j, NEW X, NEW Y, NEW L, MInv(j, X, Y, L), NEW Y1, Y \subseteq Y1
  PROVE  MInv(j, X, Y1, L)
BY DEF MInv

(* What end_task promises to ext_tsk and ter_tsk. *)
Ended(j, r, t) ==
  /\ Static(r) /\ SameContext(j, r) /\ Reports(j, r)
  /\ \A u \in Task \ {t} : "RUNNABLE" \in j.tstat[u] => "RUNNABLE" \in r.tstat[u]

(* end_task: t has left the ready queue, its wait queue and the time event *)
(* heap; its mutexes are released before it becomes dormant.               *)
LEMMA MEnd ==
  ASSUME NEW j, NEW t \in Task, StaticBut(j, t), MInv(j, {t}, {t}, {}),
         j.tskatr[t] # "TA_NOEXS", NEW r, r = end_task(j, t)
  PROVE  MInv(r, {}, {}, {}) /\ Ended(j, r, t)
<1>1. StaticOf(j, Task \ {t}) /\ j.tmevtb[t] = "none"
  BY StaticCases
<1>2. PICK y : y = IF j.mutex_queue[t] # <<>> THEN mutex_release_all(j, t) ELSE j
  OBVIOUS
<1>3. /\ MInv(y, {t}, {t}, {}) /\ CallOf(j, y, Task \ {t}) /\ y.tstat[t] = j.tstat[t]
      /\ y.mutex_queue[t] = <<>>
  <2>1. CASE j.mutex_queue[t] # <<>>
    <3>1. y = mutex_release_all(j, t)
      BY <1>2, <2>1
    <3>2. MInv(y, {t}, {t}, {}) /\ CallOf(j, y, Task \ {t})
      BY <1>1, <3>1, ReleaseAll
    <3>3. y.tstat[t] = j.tstat[t] /\ y.mutex_queue[t] = <<>>
      BY <1>1, <3>1, ReleaseAll
    <3> QED BY <3>2, <3>3
  <2>2. CASE j.mutex_queue[t] = <<>>
    <3>1. y = j
      BY <1>2, <2>2
    <3> QED BY <1>1, <2>2, <3>1, CallRefl
  <2> QED BY <2>1, <2>2
<1>4. /\ StaticOf(y, Task \ {t}) /\ SameContext(j, y) /\ Reports(j, y) /\ Keeps(j, y)
      /\ y.tskatr = j.tskatr /\ y.tmevtb[t] = j.tmevtb[t]
  BY <1>3 DEF CallOf
<1>5. StaticBut(y, t)
  BY <1>1, <1>4, StaticCases
<1>6. PICK d : d = make_dormant(y, t)
  OBVIOUS
<1>7. r = IF d.actque[t] THEN make_active([d EXCEPT !.actque[t] = FALSE], t) ELSE d
  BY <1>2, <1>6 DEF end_task
<1> HIDE <1>2
<1>8. y.tskatr[t] # "TA_NOEXS"
  BY <1>4
<1>9. /\ Static(r) /\ SameContext(y, r) /\ Reports(y, r)
      /\ \A u \in Task \ {t} : "RUNNABLE" \in y.tstat[u] => "RUNNABLE" \in r.tstat[u]
  <2>1. Static(r) /\ SameContext(y, r)
    BY ONLY t \in Task, <1>5, <1>6, <1>7, <1>8, DormantRestart
  <2>2. Reports(y, r)
    BY ONLY t \in Task, <1>5, <1>6, <1>7, <1>8, DormantRestart
  <2>3. \A u \in Task \ {t} : "RUNNABLE" \in y.tstat[u] => "RUNNABLE" \in r.tstat[u]
    BY ONLY t \in Task, <1>5, <1>6, <1>7, <1>8, DormantRestart
  <2> QED BY <2>1, <2>2, <2>3
<1>10. Ended(j, r, t)
  <2>1. SameContext(j, r)
    BY <1>4, <1>9 DEF SameContext
  <2>2. Reports(j, r)
    BY <1>4, <1>9 DEF SameContext, Reports
  <2> QED BY <1>4, <1>9, <2>1, <2>2 DEF Ended, Keeps
<1>11. y.ipriority[t] \in TPRI
  BY <1>5 DEF StaticBut, Data
<1>12. MInv(d, {}, {}, {}) /\ d.tstat[t] = {}
  BY ONLY t \in Task, <1>3, <1>6, <1>11, MDormant
<1>13. MInv(r, {}, {}, {})
  <2>1. CASE ~d.actque[t]
    BY <1>7, <1>12, <2>1
  <2>2. CASE d.actque[t]
    <3>1. PICK a : a = [d EXCEPT !.actque[t] = FALSE]
      OBVIOUS
    <3>2. SameMtx(d, a, {})
      BY <1>12, <3>1 DEF MInv, MtxType, SameMtx, MtxFields
    <3>3. MInv(a, {}, {}, {}) /\ a.tstat = d.tstat
      BY <1>12, <3>2, MSame, SameFields
    <3>4. r = make_active(a, t)
      BY <1>7, <2>2, <3>1
    <3>5. a.tstat[t] = {}
      BY <1>12, <3>3
    <3> QED BY ONLY t \in Task, <3>3, <3>4, <3>5, MActive
  <2> QED BY <2>1, <2>2
<1> QED BY <1>10, <1>13

-----------------------------------------------------------------------------
(***************************************************************************)
(* The actions of module Kernel.                                           *)
(***************************************************************************)
MutexOK(x) == MInv(x, {}, {}, {})

(* The functions that leave the fields of MInv alone. *)
LEMMA MKeeps ==
  ASSUME NEW j, MutexOK(j), NEW t, NEW p, NEW i
  PROVE  /\ MutexOK(make_runnable(j, t)) /\ MutexOK(make_non_runnable(j, t))
         /\ MutexOK(rotate_ready_queue(j, p)) /\ MutexOK(dispatcher(j))
         /\ MutexOK(t_leave(j)) /\ MutexOK(i_leave(j)) /\ MutexOK(Void(i, j))
<1>1. MtxFields \subseteq DOMAIN j
  BY DEF MutexOK, MInv, MtxType
<1>2. /\ SameMtx(j, make_runnable(j, t), {}) /\ SameMtx(j, make_non_runnable(j, t), {})
      /\ SameMtx(j, rotate_ready_queue(j, p), {}) /\ SameMtx(j, dispatcher(j), {})
      /\ SameMtx(j, t_leave(j), {}) /\ SameMtx(j, i_leave(j), {})
      /\ SameMtx(j, Void(i, j), {})
  BY <1>1, SameReady
<1> QED BY <1>2, MSame DEF MutexOK

(* ter_tsk. *)
LEMMA MTerminate ==
  ASSUME IInv(k), MutexOK(k), NEW t \in Task, ter_tsk(t)
  PROVE  IInv(k') /\ MutexOK(k')
<1>1. /\ Static(k) /\ k.kerflg /\ k.excpt_nest_count = 0 /\ k.p_runtsk \in Task
      /\ "RUNNABLE" \in k.tstat[k.p_runtsk]
  BY TaskContext DEF ter_tsk, CHECK_TSKCTX_UNL
<1>2. t # k.p_runtsk /\ k.tskatr[t] # "TA_NOEXS"
  BY DEF ter_tsk, exists
<1>3. PICK y : y = TerRemoved(t)
  OBVIOUS
<1>4. k' = t_leave(end_task(y, t))
  BY <1>3 DEF ter_tsk, TSTAT_RUNNABLE, TSTAT_WAITING, TerRemoved
<1>5. /\ StaticBut(y, t) /\ SameContext(k, y) /\ y.tskatr = k.tskatr /\ y.tstat = k.tstat
      /\ y.dspreq = k.dspreq
      /\ k.dspflg => y.p_schedtsk = k.p_schedtsk
  BY <1>3, TerRemove
<1>6. MInv(y, {t}, {}, {})
  <2>1. MInv(k, {}, {}, {}) /\ MtxFields \subseteq DOMAIN k
    BY DEF MutexOK, MInv, MtxType
  <2>2. KindOK(k.tstat[t], k.p_wobjcb[t])
    BY <2>1 DEF MInv
  <2>3. CASE "RUNNABLE" \in k.tstat[t]
    <3>1. y = Void(k, make_non_runnable(k, t))
      BY <1>3, <2>3 DEF TerRemoved
    <3>2. MutexOK(y)
      BY <3>1, MKeeps
    <3>3. "MTX" \notin y.tstat[t]
      BY <1>5, <2>2, <2>3 DEF KindOK
    <3> QED BY ONLY t \in Task, <3>2, <3>3, MWeaken DEF MutexOK
  <2>4. CASE "RUNNABLE" \notin k.tstat[t] /\ "WAITING" \in k.tstat[t]
    <3>1. PICK w : w = wait_dequeue_wobj(k, t)
      OBVIOUS
    <3>2. MInv(w, {t}, {}, {})
      BY <2>1, <3>1, MDequeue
    <3>3. y = wait_dequeue_tmevtb(w, t)
      BY <1>3, <2>4, <3>1 DEF TerRemoved
    <3> HIDE <3>1
    <3>4. MtxFields \subseteq DOMAIN w
      BY <3>2 DEF MInv, MtxType
    <3>5. SameMtx(w, y, {})
      BY <3>3, <3>4, SameReady
    <3> QED BY <3>2, <3>5, MSame
  <2>5. CASE "RUNNABLE" \notin k.tstat[t] /\ "WAITING" \notin k.tstat[t]
    <3>1. y = k
      BY <1>3, <2>5 DEF TerRemoved
    <3>2. "MTX" \notin k.tstat[t]
      BY <2>2, <2>5 DEF KindOK
    <3> QED BY <2>1, <3>1, <3>2, MWeaken
  <2> QED BY <2>3, <2>4, <2>5
<1> HIDE <1>3
<1>7. PICK r : r = end_task(y, t)
  OBVIOUS
<1>8. MInv(r, {}, {}, {}) /\ Ended(y, r, t)
  <2>1. MInv(y, {t}, {t}, {})
    BY <1>6, MRelax
  <2>2. y.tskatr[t] # "TA_NOEXS"
    BY <1>2, <1>5
  <2> QED BY ONLY t \in Task, <1>5, <1>7, <2>1, <2>2, MEnd
<1>9. k' = t_leave(r)
  BY <1>4, <1>7
<1> HIDE <1>7
<1>10. /\ Static(r) /\ SameContext(y, r) /\ Reports(y, r)
       /\ \A u \in Task \ {t} : "RUNNABLE" \in y.tstat[u] => "RUNNABLE" \in r.tstat[u]
  BY <1>8 DEF Ended
<1>11. SameContext(k, r) /\ Reports(k, r) /\ "RUNNABLE" \in r.tstat[k.p_runtsk]
  BY <1>1, <1>2, <1>5, <1>10 DEF SameContext, Reports
<1>12. IInv(k')
  BY <1>1, <1>9, <1>10, <1>11, TaskLeave
<1> QED BY <1>8, <1>9, <1>12, MKeeps DEF MutexOK

(* ext_tsk. *)
LEMMA MExit ==
  ASSUME IInv(k), MutexOK(k), ext_tsk
  PROVE  IInv(k') /\ MutexOK(k')
<1>1. /\ Static(k) /\ k.kerflg /\ k.p_runtsk \in Task
      /\ "RUNNABLE" \in k.tstat[k.p_runtsk] /\ k.tskatr[k.p_runtsk] # "TA_NOEXS"
  BY TaskContext DEF ext_tsk
<1>2. PICK t \in Task : t = k.p_runtsk
  BY <1>1
<1>3. PICK j : j = [k EXCEPT !.disdsp = FALSE, !.ipmflg = TRUE, !.dspflg = TRUE]
  OBVIOUS
<1>4. PICK n : n = make_non_runnable(j, t)
  OBVIOUS
<1>5. PICK r : r = end_task(n, t)
  OBVIOUS
<1>6. k' = dispatcher(r)
  BY <1>2, <1>3, <1>4, <1>5 DEF ext_tsk
<1>7. /\ j.disdsp = FALSE /\ j.ipmflg = TRUE /\ j.dspflg = TRUE
      /\ j.p_runtsk = k.p_runtsk /\ j.reqflg = k.reqflg /\ j.lock = k.lock
      /\ j.excpt_nest_count = k.excpt_nest_count /\ j.boot = k.boot /\ j.kerflg = k.kerflg
      /\ j.dspreq = k.dspreq /\ j.tskatr = k.tskatr
      /\ Frame(k, j, ContextFields \cup {"dspreq"})
  BY <1>1, <1>3 DEF Static, Data, KernelFields, Frame, ContextFields
<1>8. ContextType(j) /\ FlagOK(j)
  BY <1>1, <1>7 DEF ContextType, FlagOK, Static, Data, SchedType
<1>9. MutexOK(j)
  <2>1. SameMtx(k, j, {})
    BY <1>3 DEF MutexOK, MInv, MtxType, SameMtx, MtxFields
  <2> QED BY <2>1, MSame DEF MutexOK
<1> HIDE <1>3
<1>10. Static(j) /\ j.tstat = k.tstat
  BY <1>1, <1>7, <1>8, ContextChange
<1>11. "RUNNABLE" \in j.tstat[t] /\ j.tskatr[t] # "TA_NOEXS"
  BY <1>1, <1>2, <1>7, <1>10
<1> HIDE <1>2
<1>12. StaticBut(n, t) /\ SameContext(j, n) /\ n.tskatr = j.tskatr /\ n.tstat = j.tstat
  BY <1>4, <1>10, <1>11, RemovedReady
<1>13. MInv(n, {}, {}, {})
  BY <1>4, <1>9, MKeeps DEF MutexOK
<1> HIDE <1>4
<1>14. MInv(n, {t}, {t}, {})
  <2>1. "MTX" \notin n.tstat[t]
    BY <1>11, <1>12, <1>13 DEF MInv, KindOK
  <2>2. MInv(n, {t}, {}, {})
    BY <1>13, <2>1, MWeaken
  <2> QED BY <2>2, MRelax
<1>15. n.tskatr[t] # "TA_NOEXS"
  BY <1>11, <1>12
<1>16. MInv(r, {}, {}, {}) /\ Ended(n, r, t)
  BY ONLY t \in Task, <1>5, <1>12, <1>14, <1>15, MEnd
<1> HIDE <1>5
<1>17. Static(r) /\ r.kerflg /\ r.dspflg
  BY <1>1, <1>7, <1>12, <1>16 DEF SameContext, Ended
<1>18. IInv(k')
  BY <1>6, <1>17, Dispatcher
<1> QED BY <1>6, <1>16, <1>18, MKeeps DEF MutexOK

(* The base priority that chg_pri accepts is not above a ceiling. *)
LEMMA BaseCeil ==
  ASSUME NEW j, MutexOK(j), NEW t \in Task, NEW p \in TPRI,
         j.mutex_queue[t] # <<>> \/ "MTX" \in j.tstat[t] => mutex_check_ceilpri(j, t, p),
         NEW m \in Wobj, MTX_CEILING(j, m), j.p_loctsk[m] = t \/ In(j.wait_queue[m], t)
  PROVE  j.ceilpri[m] <= p
<1>1. /\ j.mutex_queue[t] \in Seq(Wobj) /\ j.wait_queue[m] \in Seq(Task)
      /\ j.ceilpri[m] \in 0 .. TNUM_TPRI /\ p \in 0 .. TNUM_TPRI - 1
  BY DEF MutexOK, MInv, MtxType, TPRI
<1>2. CASE j.p_loctsk[m] = t
  <2>1. In(j.mutex_queue[t], m)
    BY <1>2 DEF MutexOK, MInv, OwnersOK
  <2>2. m \in Range(j.mutex_queue[t]) /\ j.mutex_queue[t] # <<>>
    BY <1>1, <2>1, RangeIn DEF In
  <2>3. p >= j.ceilpri[m]
    BY <2>2 DEF mutex_check_ceilpri
  <2> QED BY <1>1, <2>3
<1>3. CASE In(j.wait_queue[m], t)
  <2>1. "MTX" \in j.tstat[t] /\ j.p_wobjcb[t] = m
    BY <1>3 DEF MutexOK, MInv, QueuesOK
  <2>2. p >= j.ceilpri[m]
    BY <2>1 DEF mutex_check_ceilpri, TSTAT_WAIT
  <2> QED BY <1>1, <2>2
<1> QED BY <1>2, <1>3

(* Then the assignment to bpriority leaves only t's priority open. *)
LEMMA MSetBase ==
  ASSUME NEW j, MutexOK(j), NEW t \in Task, NEW p \in TPRI,
         j.mutex_queue[t] # <<>> \/ "MTX" \in j.tstat[t] => mutex_check_ceilpri(j, t, p),
         NEW y, y = WithBase(j, t, p)
  PROVE  /\ MInv(y, {}, {t}, {}) /\ SameMtx(j, y, {"bpriority"}) /\ y.bpriority[t] = p
<1>1. MInv(j, {}, {}, {}) /\ MtxType(j)
  BY DEF MutexOK, MInv
<1>2. SameMtx(j, y, {"bpriority"}) /\ y.bpriority = [j.bpriority EXCEPT ![t] = p]
  BY <1>1 DEF WithBase, SameMtx, MtxType, MtxFields
<1>3. /\ y.tstat = j.tstat /\ y.priority = j.priority /\ y.mutex_queue = j.mutex_queue
      /\ y.p_wobjcb = j.p_wobjcb
      /\ y.wait_queue = j.wait_queue /\ y.wobjatr = j.wobjatr /\ y.p_loctsk = j.p_loctsk
      /\ y.ceilpri = j.ceilpri /\ y.free_mtxcb = j.free_mtxcb /\ y.undef = j.undef
      /\ MtxFields \subseteq DOMAIN y
  BY <1>2 DEF SameMtx, MtxFields
<1>4. /\ y.bpriority \in [Task -> TPRI] /\ y.bpriority[t] = p
      /\ \A u \in Task \ {t} : y.bpriority[u] = j.bpriority[u]
  BY <1>1, <1>2 DEF MtxType
<1>5. MtxType(y) /\ OwnersOK(y, {})
  BY <1>1, <1>3, <1>4 DEF MInv, MtxType, OwnersOK
<1>6. QueuesOK(y, {}) /\ (\A u \in Task : KindOK(y.tstat[u], y.p_wobjcb[u])) /\ FreeMtxOK(y)
  BY <1>1, <1>3 DEF MInv, QueuesOK, TA_TPRI, FreeMtxOK
<1>7. CeilOK(y)
  <2> SUFFICES ASSUME NEW u \in Task, NEW m \in Wobj, MTX_CEILING(y, m),
                      y.p_loctsk[m] = u \/ In(y.wait_queue[m], u)
               PROVE  y.ceilpri[m] <= y.bpriority[u]
    BY DEF CeilOK
  <2>1. MTX_CEILING(j, m) /\ (j.p_loctsk[m] = u \/ In(j.wait_queue[m], u))
    BY <1>3 DEF MTX_CEILING
  <2>2. CASE u # t
    BY <1>1, <1>3, <1>4, <2>1, <2>2 DEF MInv, CeilOK
  <2>3. CASE u = t
    <3>1. j.ceilpri[m] <= p
      BY <2>1, <2>3, BaseCeil
    <3> QED BY <1>3, <1>4, <2>3, <3>1
  <2> QED BY <2>2, <2>3
<1>8. \A u \in Task \ {t} : PriOK(y, u)
  BY <1>1, <1>3, <1>4 DEF MInv, PriOK, PriIs, Ceiled, MTX_CEILING
<1> QED BY <1>2, <1>4, <1>5, <1>6, <1>7, <1>8 DEF MInv

(* A task that holds a ceiling mutex keeps the priority it has. *)
LEMMA HeldPriority ==
  ASSUME NEW j, MutexOK(j), NEW t \in Task, NEW y, MInv(y, {}, {t}, {}),
         SameMtx(j, y, {"bpriority"}), NEW m \in Wobj, Ceiled(y, t, m)
  PROVE  MutexOK(y)
<1>1. /\ y.priority = j.priority /\ y.mutex_queue = j.mutex_queue
      /\ y.wobjatr = j.wobjatr /\ y.ceilpri = j.ceilpri /\ y.p_loctsk = j.p_loctsk
  BY DEF SameMtx, MtxFields
<1>2. \A n \in Wobj : Ceiled(y, t, n) <=> Ceiled(j, t, n)
  BY <1>1 DEF Ceiled, MTX_CEILING
<1>3. PriIs(j, t, j.priority[t])
  BY DEF MutexOK, MInv, PriOK
<1>4. y.p_loctsk[m] = t /\ MTX_CEILING(y, m) /\ MTX_CEILING(j, m) /\ j.p_loctsk[m] = t
  BY <1>1 DEF MInv, OwnersOK, Ceiled, MTX_CEILING
<1>5. y.ceilpri[m] <= y.bpriority[t] /\ j.ceilpri[m] <= j.bpriority[t]
  BY <1>4 DEF MutexOK, MInv, CeilOK
<1>6. /\ y.ceilpri[m] \in 0 .. TNUM_TPRI /\ j.priority[t] \in 0 .. TNUM_TPRI - 1
      /\ y.bpriority[t] \in 0 .. TNUM_TPRI - 1 /\ j.bpriority[t] \in 0 .. TNUM_TPRI - 1
  BY DEF MutexOK, MInv, MtxType, TPRI
<1>7. j.priority[t] <= j.ceilpri[m]
  BY <1>2, <1>3 DEF PriIs
<1>8. j.priority[t] <= y.bpriority[t]
  BY <1>1, <1>5, <1>6, <1>7, TnumTpriAssumption
<1>9. \A n \in Wobj : Ceiled(y, t, n) => j.priority[t] <= y.ceilpri[n]
  BY <1>1, <1>2, <1>3 DEF PriIs
<1>10. \E n \in Wobj : Ceiled(y, t, n) /\ j.priority[t] = y.ceilpri[n]
  <2>1. CASE j.priority[t] = j.bpriority[t]
    <3>1. j.priority[t] = y.ceilpri[m]
      BY <1>1, <1>5, <1>6, <1>7, <2>1, TnumTpriAssumption
    <3> QED BY <3>1
  <2>2. CASE j.priority[t] # j.bpriority[t]
    BY <1>1, <1>2, <1>3, <2>2 DEF PriIs
  <2> QED BY <2>1, <2>2
<1>11. PriOK(y, t)
  BY <1>1, <1>8, <1>9, <1>10 DEF PriOK, PriIs
<1> QED BY <1>11 DEF MInv, MutexOK

(* The locked part of chg_pri. *)
LEMMA MChgPriLocked ==
  ASSUME NEW j, IInv(j), MutexOK(j), j.kerflg, j.excpt_nest_count = 0, NEW t \in Task,
         NEW p \in TPRI, NEW r, r = chg_pri_locked(j, t, p)
  PROVE  IInv(r) /\ MutexOK(r)
<1>1. PICK y : y = WithBase(j, t, p)
  OBVIOUS
<1>2. PICK z : z = change_priority(y, t, p, FALSE)
  OBVIOUS
<1>3. \/ r = j
      \/ /\ j.mutex_queue[t] # <<>> \/ "MTX" \in j.tstat[t] => mutex_check_ceilpri(j, t, p)
         /\ \/ r = y /\ mutex_scan_ceilmtx(y, t)
            \/ r = t_leave(z) /\ ~(j.mutex_queue[t] # <<>> /\ mutex_scan_ceilmtx(y, t))
  BY <1>1, <1>2 DEF chg_pri_locked, WithBase, TSTAT_WAIT
<1>4. IInv(y) /\ y.kerflg /\ y.excpt_nest_count = 0
  BY <1>1, SetBase
<1>5. CASE r # j
  <2>1. j.mutex_queue[t] # <<>> \/ "MTX" \in j.tstat[t] => mutex_check_ceilpri(j, t, p)
    BY <1>3, <1>5
  <2>2. MInv(y, {}, {t}, {}) /\ SameMtx(j, y, {"bpriority"}) /\ y.bpriority[t] = p
    BY <1>1, <2>1, MSetBase
  <2>3. y.mutex_queue[t] \in Seq(Wobj) /\ y.mutex_queue = j.mutex_queue
    BY <2>2 DEF MInv, MtxType, SameMtx, MtxFields
  <2>4. mutex_scan_ceilmtx(y, t) <=> \E m \in Wobj : Ceiled(y, t, m)
    <3>1. \A m \in Range(y.mutex_queue[t]) : m \in Wobj
      BY <2>3 DEF Range
    <3>2. \A m : m \in Range(y.mutex_queue[t]) <=> In(y.mutex_queue[t], m)
      BY <2>3, RangeIn
    <3> QED BY <3>1, <3>2 DEF mutex_scan_ceilmtx, Ceiled
  <2> HIDE <1>1
  <2>5. CASE mutex_scan_ceilmtx(y, t) /\ r = y
    <3>1. PICK m \in Wobj : Ceiled(y, t, m)
      BY <2>4, <2>5
    <3>2. MutexOK(y)
      BY <2>2, <3>1, HeldPriority
    <3> QED BY <1>4, <2>5, <3>2
  <2>6. CASE r = t_leave(z) /\ ~(j.mutex_queue[t] # <<>> /\ mutex_scan_ceilmtx(y, t))
    <3>1. \A m \in Wobj : ~Ceiled(y, t, m)
      <4>1. \A m \in Wobj : Ceiled(y, t, m) => j.mutex_queue[t] # <<>>
        BY <2>3 DEF Ceiled, In
      <4> QED BY <2>4, <2>6, <4>1
    <3>2. PriIs(y, t, p)
      BY <2>2, <3>1 DEF PriIs, TPRI
    <3>3. MInv(z, {}, {}, {})
      BY ONLY t \in Task, p \in TPRI, <1>2, <2>2, <3>2, MChangePri
    <3>4. Call(y, z)
      BY <1>2, <1>4, ChangePriority DEF IInv, Call
    <3> HIDE <1>2
    <3>5. IInv(r)
      BY <1>4, <2>6, <3>4, CallTaskLeave
    <3> QED BY <2>6, <3>3, <3>5, MKeeps DEF MutexOK
  <2> QED BY <1>3, <1>5, <2>5, <2>6
<1> QED BY <1>5

(* chg_pri, and its second step for TPRI_INI. *)
LEMMA MChgPri ==
  ASSUME IInv(k), MutexOK(k),
         (\E t \in Task, p \in TPRI : chg_pri(t, p)) \/ chg_pri_ini_lock
  PROVE  IInv(k') /\ MutexOK(k')
<1>1. CASE \E t \in Task, p \in TPRI : chg_pri(t, p)
  <2>1. PICK t \in Task, p \in TPRI : chg_pri(t, p)
    BY <1>1
  <2>2. k.kerflg /\ k.excpt_nest_count = 0 /\ k' = chg_pri_locked(k, t, p)
    BY <2>1, TaskContext DEF chg_pri, CHECK_TSKCTX_UNL
  <2> QED BY <2>2, MChgPriLocked
<1>2. CASE chg_pri_ini_lock
  <2>1. PICK y : y = NewbpriUsed
    OBVIOUS
  <2>2. IInv(y) /\ y.kerflg /\ y.excpt_nest_count = 0
    BY <1>2, <2>1, IniLocked
  <2>3. PICK t \in Task, p \in TPRI : k' = chg_pri_locked(y, t, p)
    BY <1>2, <2>1, IniLocked
  <2>4. SameMtx(k, y, {})
    BY <2>1 DEF NewbpriUsed, SameMtx, MtxFields, MutexOK, MInv, MtxType
  <2>5. MutexOK(y)
    BY <2>4, MSame DEF MutexOK
  <2> HIDE <2>1
  <2> QED BY <2>2, <2>3, <2>5, MChgPriLocked
<1> QED BY <1>1, <1>2

WithStat(j, t, ts) == [j EXCEPT !.tstat[t] = ts]

(* A change of t's state that does not touch its wait for a mutex. *)
LEMMA MSetStat ==
  ASSUME NEW j, MutexOK(j), NEW t \in Task, NEW ts \in SUBSET TstatFlag, ts # {},
         "MTX" \in ts <=> "MTX" \in j.tstat[t], KindOK(ts, j.p_wobjcb[t]),
         NEW y, y = WithStat(j, t, ts)
  PROVE  MutexOK(y)
<1>1. MInv(j, {}, {}, {}) /\ MtxType(j)
  BY DEF MutexOK, MInv
<1>2. SameMtx(j, y, {"tstat"}) /\ y.tstat = [j.tstat EXCEPT ![t] = ts]
  BY <1>1 DEF WithStat, SameMtx, MtxType, MtxFields
<1>3. /\ y.tstat \in [Task -> SUBSET TstatFlag] /\ y.tstat[t] = ts
      /\ \A u \in Task \ {t} : y.tstat[u] = j.tstat[u]
  BY <1>1, <1>2 DEF MtxType
<1>4. y.p_wobjcb = j.p_wobjcb
  BY <1>2 DEF SameMtx, MtxFields
<1>5. \A u \in Task : "MTX" \in y.tstat[u] /\ u \notin {} <=> "MTX" \in j.tstat[u] /\ u \notin {}
  BY <1>3
<1>6. \A u \in Task : y.tstat[u] = {} => j.tstat[u] = {}
  BY <1>3
<1>7. \A u \in Task : KindOK(y.tstat[u], y.p_wobjcb[u])
  <2> SUFFICES ASSUME NEW u \in Task PROVE KindOK(y.tstat[u], y.p_wobjcb[u])
    OBVIOUS
  <2>1. KindOK(j.tstat[u], j.p_wobjcb[u])
    BY <1>1 DEF MInv
  <2>2. CASE u = t
    BY <1>3, <1>4, <2>2
  <2>3. CASE u # t
    BY <1>3, <1>4, <2>1, <2>3
  <2> QED BY <2>2, <2>3
<1>8. MInv(y, {}, {}, {})
  BY ONLY <1>1, <1>2, <1>3, <1>5, <1>6, <1>7, MStat
<1> QED BY <1>8 DEF MutexOK

(* The states of a task that runs, is suspended, sleeps or is delayed. *)
LEMMA PlainStat ==
  ASSUME NEW ts, ts \in {{"RUNNABLE"}, {"SUSPENDED"}, {"WAITING", "SLP"}, {"WAITING", "DLY"}},
         NEW o
  PROVE  ts \in SUBSET TstatFlag /\ ts # {} /\ "MTX" \notin ts /\ KindOK(ts, o)
BY DEF TstatFlag, WaitKind, WobjKind, WobjcbKind, KindOK

(* A task that is not in a wait has no wait for a mutex. *)
LEMMA NotWaiting ==
  ASSUME NEW j, MutexOK(j), NEW t \in Task,
         \/ "RUNNABLE" \in j.tstat[t] \/ "WAITING" \notin j.tstat[t]
         \/ "SLP" \in j.tstat[t] \/ "DLY" \in j.tstat[t]
  PROVE  "MTX" \notin j.tstat[t]
<1>1. KindOK(j.tstat[t], j.p_wobjcb[t])
  BY DEF MutexOK, MInv
<1> QED BY <1>1 DEF KindOK

(* make_wait leaves the fields of MInv alone. *)
LEMMA MMakeWait ==
  ASSUME NEW j, MutexOK(j), NEW x
  PROVE  MutexOK(make_wait(j)) /\ MutexOK(make_wait_tmevtb(j, x))
<1>1. PICK n : n = Void(j, make_non_runnable(j, j.p_runtsk))
  OBVIOUS
<1>2. MutexOK(n)
  BY <1>1, MKeeps
<1>3. PICK a, b : /\ a = [n EXCEPT !.winfo[j.p_runtsk] = "NULL"]
                  /\ b = [n EXCEPT !.winfo[j.p_runtsk] = "p_tmevtb", !.tmevtb[j.p_runtsk] = x]
  OBVIOUS
<1>4. make_wait(j) = a /\ make_wait_tmevtb(j, x) = b
  BY <1>1, <1>3 DEF make_wait, make_wait_tmevtb
<1> HIDE <1>1
<1>5. SameMtx(n, a, {}) /\ SameMtx(n, b, {})
  BY <1>2, <1>3 DEF SameMtx, MtxFields, MutexOK, MInv, MtxType
<1> QED BY <1>2, <1>4, <1>5, MSame DEF MutexOK

(* slp_tsk and dly_tsk. *)
LEMMA MSleep ==
  ASSUME IInv(k), MutexOK(k), (\E b \in BOOLEAN : slp_tsk(b)) \/ dly_tsk
  PROVE  MutexOK(k')
<1>1. PICK t \in Task : t = k.p_runtsk /\ "RUNNABLE" \in k.tstat[t]
  BY TaskContext DEF slp_tsk, dly_tsk, CHECK_DISPATCH, CHECK_TSKCTX_UNL
<1>2. PICK v : v = [k EXCEPT !.wupque[k.p_runtsk] = FALSE]
  OBVIOUS
<1>3. MutexOK(v)
  <2>1. SameMtx(k, v, {})
    BY <1>2 DEF SameMtx, MtxFields, MutexOK, MInv, MtxType
  <2> QED BY <2>1, MSame DEF MutexOK
<1>4. PICK s, d : s = begin_wait("SLP") /\ d = begin_wait("DLY")
  OBVIOUS
<1>5. s = WithStat(k, t, {"WAITING", "SLP"}) /\ d = WithStat(k, t, {"WAITING", "DLY"})
  BY <1>1, <1>4 DEF begin_wait, WithStat, TS_WAITING
<1>6. "MTX" \notin k.tstat[t]
  BY <1>1, NotWaiting
<1>7. MutexOK(s)
  <2>1. PICK ts : ts = {"WAITING", "SLP"}
    OBVIOUS
  <2>2. ts \in SUBSET TstatFlag /\ ts # {} /\ "MTX" \notin ts /\ KindOK(ts, k.p_wobjcb[t])
    BY <2>1, PlainStat
  <2>3. s = WithStat(k, t, ts)
    BY <1>5, <2>1
  <2> QED BY ONLY MutexOK(k), t \in Task, <1>6, <2>2, <2>3, MSetStat
<1>8. MutexOK(d)
  <2>1. PICK ts : ts = {"WAITING", "DLY"}
    OBVIOUS
  <2>2. ts \in SUBSET TstatFlag /\ ts # {} /\ "MTX" \notin ts /\ KindOK(ts, k.p_wobjcb[t])
    BY <2>1, PlainStat
  <2>3. d = WithStat(k, t, ts)
    BY <1>5, <2>1
  <2> QED BY ONLY MutexOK(k), t \in Task, <1>6, <2>2, <2>3, MSetStat
<1>9. \/ k' = v
      \/ k' = dispatcher(make_wait(s)) \/ k' = dispatcher(make_wait_tmevtb(s, "wait_tmout"))
      \/ k' = dispatcher(make_wait_tmevtb(d, "wait_tmout_ok"))
  BY <1>2, <1>4 DEF slp_tsk, dly_tsk, make_wait_tmout
<1> HIDE <1>2, <1>4, <1>5
<1> QED BY <1>3, <1>7, <1>8, <1>9, MMakeWait, MKeeps

(* sus_tsk and rsm_tsk: also a task that waits for a mutex is suspended.   *)
LEMMA MSuspend ==
  ASSUME IInv(k), MutexOK(k), NEW t \in Task, sus_tsk(t) \/ rsm_tsk(t)
  PROVE  MutexOK(k')
<1>1. MInv(k, {}, {}, {}) /\ KindOK(k.tstat[t], k.p_wobjcb[t])
      /\ k.tstat[t] \in SUBSET TstatFlag
  BY DEF MutexOK, MInv, MtxType
<1>2. PICK a, b : a = k.tstat[t] \cup {"SUSPENDED"} /\ b = k.tstat[t] \ {"SUSPENDED"}
  OBVIOUS
<1>3. /\ a \in SUBSET TstatFlag /\ a # {} /\ b \in SUBSET TstatFlag
      /\ "MTX" \in a <=> "MTX" \in k.tstat[t]
      /\ "MTX" \in b <=> "MTX" \in k.tstat[t]
      /\ KindOK(a, k.p_wobjcb[t]) /\ KindOK(b, k.p_wobjcb[t])
  <2>1. "SUSPENDED" \in TstatFlag
    BY DEF TstatFlag
  <2>2. \A w \in WobjKind : w # "SUSPENDED"
    BY DEF WobjKind, WobjcbKind
  <2>3. /\ a \in SUBSET TstatFlag /\ a # {} /\ b \in SUBSET TstatFlag
        /\ "MTX" \in a <=> "MTX" \in k.tstat[t]
        /\ "MTX" \in b <=> "MTX" \in k.tstat[t]
    BY <1>1, <1>2, <2>1
  <2>4. KindOK(a, k.p_wobjcb[t])
    BY <1>1, <1>2, <2>2 DEF KindOK
  <2>5. KindOK(b, k.p_wobjcb[t])
    BY <1>1, <1>2, <2>2 DEF KindOK
  <2> QED BY <2>3, <2>4, <2>5
<1>4. PICK c, d : c = {"SUSPENDED"} /\ d = {"RUNNABLE"}
  OBVIOUS
<1>5. /\ c \in SUBSET TstatFlag /\ c # {} /\ "MTX" \notin c /\ KindOK(c, k.p_wobjcb[t])
      /\ d \in SUBSET TstatFlag /\ d # {} /\ "MTX" \notin d /\ KindOK(d, k.p_wobjcb[t])
  BY <1>4, PlainStat
<1>6. \/ "RUNNABLE" \in k.tstat[t] /\ k' = t_leave(make_non_runnable(WithStat(k, t, c), t))
      \/ k' = WithStat(k, t, a)
      \/ "WAITING" \in k.tstat[t] /\ k' = WithStat(k, t, b)
      \/ "WAITING" \notin k.tstat[t] /\ k' = t_leave(make_runnable(WithStat(k, t, d), t))
  <2>1. CASE sus_tsk(t)
    BY <1>2, <1>4, <2>1 DEF sus_tsk, WithStat, TSTAT_RUNNABLE, TS_SUSPENDED
  <2>2. CASE rsm_tsk(t)
    BY <1>2, <1>4, <2>2 DEF rsm_tsk, WithStat, TSTAT_WAITING, TS_SUSPENDED, TS_RUNNABLE
  <2> QED BY <2>1, <2>2
<1>7. MutexOK(WithStat(k, t, a))
  BY ONLY MutexOK(k), t \in Task, <1>3, MSetStat
<1>8. ASSUME "WAITING" \in k.tstat[t] PROVE MutexOK(WithStat(k, t, b))
  <2>1. b # {}
    BY <1>2, <1>8
  <2> QED BY ONLY MutexOK(k), t \in Task, <1>3, <2>1, MSetStat
<1>9. ASSUME "RUNNABLE" \in k.tstat[t] PROVE MutexOK(WithStat(k, t, c))
  <2>1. "MTX" \notin k.tstat[t]
    BY <1>9, NotWaiting
  <2> QED BY ONLY MutexOK(k), t \in Task, <1>5, <2>1, MSetStat
<1>10. ASSUME "WAITING" \notin k.tstat[t] PROVE MutexOK(WithStat(k, t, d))
  <2>1. "MTX" \notin k.tstat[t]
    BY <1>10, NotWaiting
  <2> QED BY ONLY MutexOK(k), t \in Task, <1>5, <2>1, MSetStat
<1> HIDE <1>2, <1>4
<1> QED BY <1>6, <1>7, <1>8, <1>9, <1>10, MKeeps

(* The mutex queue of t is initialized. *)
Emptied(j, y, t) ==
  /\ SameMtx(j, y, {"mutex_queue"}) /\ y.mutex_queue = [j.mutex_queue EXCEPT ![t] = <<>>]
  /\ y.ipriority[t] \in TPRI

(* A task that is created or initialized was dormant and held nothing.     *)
LEMMA MFresh ==
  ASSUME NEW j, MutexOK(j), NEW t \in Task, j.tstat[t] = {}, NEW y, Emptied(j, y, t),
         NEW d, d = make_dormant(y, t)
  PROVE  MutexOK(d) /\ d.tstat[t] = {}
<1>1. MInv(j, {}, {}, {}) /\ j.mutex_queue \in [Task -> Seq(Wobj)]
  BY DEF MutexOK, MInv, MtxType
<1>2. \A m \in Wobj : j.p_loctsk[m] # t
  <2>1. \A m \in Wobj : j.p_loctsk[m] # NULL => j.tstat[j.p_loctsk[m]] # {}
    BY <1>1 DEF MInv, OwnersOK
  <2> QED BY <2>1, NullAssumption
<1>3. \A m \in Wobj : ~In(j.mutex_queue[t], m)
  BY <1>1, <1>2 DEF MInv, OwnersOK
<1>4. j.mutex_queue[t] = <<>>
  <2>1. PICK q \in Seq(Wobj) : q = j.mutex_queue[t]
    BY <1>1
  <2>2. Len(q) = 0
    <3>1. \A i \in 1 .. Len(q) : q[i] \in Wobj
      OBVIOUS
    <3>2. \A i \in 1 .. Len(q) : FALSE
      BY <1>3, <2>1, <3>1 DEF In
    <3> QED BY <3>2
  <2> QED BY <2>1, <2>2
<1>5. y.mutex_queue = j.mutex_queue
  <2>1. y.mutex_queue = [u \in Task |-> j.mutex_queue[u]]
    BY <1>1, <1>4 DEF Emptied
  <2> QED BY <1>1, <2>1
<1>6. SameMtx(j, y, {})
  BY <1>5 DEF Emptied, SameMtx, MtxFields
<1>7. MInv(y, {}, {}, {}) /\ y.tstat = j.tstat
  BY <1>1, <1>6, MSame, SameFields
<1>8. MInv(y, {t}, {}, {})
  <2>1. "MTX" \notin y.tstat[t]
    BY <1>7
  <2> QED BY <1>7, <2>1, MWeaken
<1>9. MInv(y, {t}, {t}, {}) /\ y.mutex_queue[t] = <<>> /\ y.ipriority[t] \in TPRI
  BY <1>4, <1>5, <1>8, MRelax DEF Emptied
<1> QED BY ONLY t \in Task, d = make_dormant(y, t), <1>9, MDormant DEF MutexOK

(* initialize_task. *)
LEMMA MInitTask ==
  ASSUME IInv(k), MutexOK(k), initialize_task
  PROVE  MutexOK(k')
<1>1. k.boot \in 1 .. Len(torder) /\ ~k.kerflg
  BY DEF initialize_task, IInv, Static, Data, Context, Boot
<1>2. PICK t : t = torder[k.boot]
  OBVIOUS
<1>3. t \in Task /\ k.tstat[t] = {}
  <2>1. PICK i \in 1 .. Len(torder) : i = k.boot
    BY <1>1
  <2>2. t = torder[i] /\ i >= k.boot
    BY <1>2, <2>1
  <2>3. t \in Task
    BY <2>2, TableAssumption
  <2>4. k.tstat[torder[i]] = {}
    BY <1>1, <2>2 DEF IInv, Context, Boot
  <2> QED BY <2>2, <2>3, <2>4
<1>4. PICK y : y = [k EXCEPT !.actque[t] = FALSE, !.mutex_queue[t] = <<>>]
  OBVIOUS
<1>5. PICK d : d = make_dormant(y, t)
  OBVIOUS
<1>6. PICK z : z = IF t \in TaAct THEN Void(k, make_active(d, t)) ELSE d
  OBVIOUS
<1>7. k' = [z EXCEPT !.boot = @ + 1]
  BY <1>2, <1>4, <1>5, <1>6 DEF initialize_task
<1>8. Emptied(k, y, t)
  <2>1. /\ SameMtx(k, y, {"mutex_queue"})
        /\ y.mutex_queue = [k.mutex_queue EXCEPT ![t] = <<>>]
    BY <1>4 DEF SameMtx, MtxFields, MutexOK, MInv, MtxType
  <2>2. y.ipriority = k.ipriority /\ k.ipriority \in [Task -> TPRI]
    BY <1>4 DEF IInv, Static, Data, KernelFields
  <2> QED BY <1>3, <2>1, <2>2 DEF Emptied
<1> HIDE <1>2, <1>4
<1>9. MutexOK(d) /\ d.tstat[t] = {}
  BY <1>3, <1>5, <1>8, MFresh
<1> HIDE <1>5
<1>10. MutexOK(z)
  <2>1. MutexOK(make_active(d, t))
    BY <1>3, <1>9, MActive DEF MutexOK
  <2> QED BY <1>6, <1>9, <2>1, MKeeps
<1> HIDE <1>6
<1>11. SameMtx(z, k', {})
  BY <1>7, <1>10 DEF SameMtx, MtxFields, MutexOK, MInv, MtxType
<1> QED BY <1>10, <1>11, MSame DEF MutexOK

(* acre_tsk. *)
LEMMA MCreate ==
  ASSUME IInv(k), MutexOK(k), NEW p \in TPRI, NEW b \in BOOLEAN, acre_tsk(p, b)
  PROVE  MutexOK(k')
<1>1. Static(k) /\ k.free_tcb \in Seq(Task) /\ k.free_tcb # <<>>
  BY DEF acre_tsk, IInv, Static, Data
<1>2. PICK t : t = Head(k.free_tcb)
  OBVIOUS
<1>3. t \in Task /\ t = k.free_tcb[1] /\ 1 \in 1 .. Len(k.free_tcb)
  BY <1>1, <1>2
<1>4. k.tstat[t] = {}
  BY <1>1, <1>3 DEF Static, FreeOK, NoexsOK
<1>5. PICK y : y = [k EXCEPT !.free_tcb = Tail(@), !.tskatr[t] = "TA_NULL",
                             !.ipriority[t] = p, !.actque[t] = FALSE,
                             !.mutex_queue[t] = <<>>]
  OBVIOUS
<1>6. PICK d : d = make_dormant(y, t)
  OBVIOUS
<1>7. k' = t_leave(IF b THEN make_active(d, t) ELSE d)
  BY <1>2, <1>5, <1>6 DEF acre_tsk
<1>8. Emptied(k, y, t)
  <2>1. /\ SameMtx(k, y, {"mutex_queue"})
        /\ y.mutex_queue = [k.mutex_queue EXCEPT ![t] = <<>>]
    BY <1>5 DEF SameMtx, MtxFields, MutexOK, MInv, MtxType
  <2>2. y.ipriority = [k.ipriority EXCEPT ![t] = p] /\ k.ipriority \in [Task -> TPRI]
    BY <1>1, <1>5 DEF Static, Data, KernelFields
  <2> QED BY <1>3, <2>1, <2>2 DEF Emptied
<1> HIDE <1>2, <1>5
<1>9. MutexOK(d) /\ d.tstat[t] = {}
  BY <1>3, <1>4, <1>6, <1>8, MFresh
<1> HIDE <1>6
<1>10. MutexOK(make_active(d, t))
  BY <1>3, <1>9, MActive DEF MutexOK
<1> QED BY <1>7, <1>9, <1>10, MKeeps

(* act_tsk, iact_tsk, wup_tsk, iwup_tsk, rel_wai and irel_wai. *)
LEMMA MSimpleCalls ==
  ASSUME IInv(k), MutexOK(k), NEW t \in Task,
         \/ act_tsk(t) \/ iact_tsk(t) \/ wup_tsk(t) \/ iwup_tsk(t)
         \/ rel_wai(t) \/ irel_wai(t)
  PROVE  MutexOK(k')
<1>1. PICK a, w : a = [k EXCEPT !.actque[t] = TRUE] /\ w = [k EXCEPT !.wupque[t] = TRUE]
  OBVIOUS
<1>2. MutexOK(a) /\ MutexOK(w)
  <2>1. SameMtx(k, a, {}) /\ SameMtx(k, w, {})
    BY <1>1 DEF SameMtx, MtxFields, MutexOK, MInv, MtxType
  <2> QED BY <2>1, MSame DEF MutexOK
<1>3. MutexOK(activate(t))
  <2>1. CASE k.tstat[t] = {}
    <3>1. activate(t) = make_active(k, t)
      BY <2>1 DEF activate, TSTAT_DORMANT, TS_DORMANT
    <3> QED BY <2>1, <3>1, MActive DEF MutexOK
  <2>2. CASE k.tstat[t] # {}
    BY <1>1, <1>2, <2>2 DEF activate, TSTAT_DORMANT, TS_DORMANT
  <2> QED BY <2>1, <2>2
<1>4. MutexOK(wakeup(t))
  <2>1. CASE "SLP" \in k.tstat[t]
    <3>1. "MTX" \notin k.tstat[t]
      BY <2>1, NotWaiting
    <3>2. wakeup(t) = wait_complete(k, t)
      BY <2>1 DEF wakeup, TSTAT_WAIT
    <3> QED BY <3>1, <3>2, MWaitEnd DEF MutexOK
  <2>2. CASE "SLP" \notin k.tstat[t]
    BY <1>1, <1>2, <2>2 DEF wakeup, TSTAT_WAIT
  <2> QED BY <2>1, <2>2
<1>5. MutexOK(wait_release(k, t))
  BY MWaitEnd DEF MutexOK
<1>6. \/ k' = t_leave(activate(t)) \/ k' = i_leave(activate(t))
      \/ k' = t_leave(wakeup(t)) \/ k' = i_leave(wakeup(t))
      \/ k' = t_leave(wait_release(k, t)) \/ k' = i_leave(wait_release(k, t))
  BY DEF act_tsk, iact_tsk, wup_tsk, iwup_tsk, rel_wai, irel_wai
<1> QED BY <1>3, <1>4, <1>5, <1>6, MKeeps

(* The time-out callbacks: a wait for a mutex ends without the mutex.      *)
LEMMA MSignalTime ==
  ASSUME IInv(k), MutexOK(k), NEW t \in Task, signal_time(t)
  PROVE  MutexOK(k')
<1>1. PICK y : y = [k EXCEPT !.tmevtb[t] = "none"]
  OBVIOUS
<1>2. MutexOK(y) /\ y.tstat = k.tstat
  <2>1. SameMtx(k, y, {})
    BY <1>1 DEF SameMtx, MtxFields, MutexOK, MInv, MtxType
  <2> QED BY <2>1, MSame, SameFields DEF MutexOK
<1>3. k' = i_leave(IF k.tmevtb[t] = "wait_tmout" THEN wait_tmout(y, t) ELSE wait_tmout_ok(y, t))
  BY <1>1 DEF signal_time
<1> HIDE <1>1
<1>4. CASE k.tmevtb[t] = "wait_tmout"
  <2>1. MutexOK(wait_tmout(y, t))
    BY <1>2, MWaitEnd DEF MutexOK
  <2> QED BY <1>3, <1>4, <2>1, MKeeps
<1>5. CASE k.tmevtb[t] # "wait_tmout"
  <2>1. k.tmevtb[t] = "wait_tmout_ok"
    BY <1>5 DEF signal_time, IInv, Static, Data, Callback
  <2>2. "DLY" \in k.tstat[t]
    BY <2>1 DEF IInv, Static, WaitsOK, WaitOK
  <2>3. "MTX" \notin y.tstat[t]
    BY <1>2, <2>2, NotWaiting
  <2>4. MutexOK(wait_tmout_ok(y, t))
    BY <1>2, <2>3, MWaitEnd DEF MutexOK
  <2> QED BY <1>3, <1>5, <2>4, MKeeps
<1> QED BY <1>4, <1>5

(* The actions that change no field of MInv. *)
LEMMA MFrameCalls ==
  ASSUME IInv(k), MutexOK(k),
         \/ start_dispatch \/ wait_return \/ int_entry \/ ret_int \/ idle_loop
         \/ loc_cpu \/ unl_cpu \/ iloc_cpu \/ iunl_cpu \/ dis_dsp
         \/ \E t \in Task : del_tsk(t) \/ can_act(t) \/ chg_pri_ini(t) \/ can_wup(t)
  PROVE  MutexOK(k')
<1>1. MInv(k, {}, {}, {}) /\ MtxFields \subseteq DOMAIN k
  BY DEF MutexOK, MInv, MtxType
<1>2. CASE \/ wait_return \/ int_entry
           \/ loc_cpu \/ unl_cpu \/ iloc_cpu \/ iunl_cpu \/ dis_dsp
  <2>1. SameMtx(k, k', {})
    BY <1>1, <1>2 DEF SameMtx, MtxFields, wait_return, int_entry, loc_cpu, unl_cpu,
                      iloc_cpu, iunl_cpu, dis_dsp
  <2> QED BY <1>1, <2>1, MSame DEF MutexOK
<1>3. ASSUME NEW t \in Task, del_tsk(t) \/ can_act(t) \/ chg_pri_ini(t) \/ can_wup(t)
      PROVE  MutexOK(k')
  <2>1. SameMtx(k, k', {})
    BY <1>1, <1>3 DEF SameMtx, MtxFields, del_tsk, can_act, chg_pri_ini, can_wup
  <2> QED BY <1>1, <2>1, MSame DEF MutexOK
<1>4. CASE start_dispatch \/ ret_int \/ idle_loop
  <2>1. PICK a, b, c, d : /\ a = [k EXCEPT !.kerflg = TRUE] /\ b = [k EXCEPT !.reqflg = FALSE]
                          /\ c = [k EXCEPT !.excpt_nest_count = @ - 1, !.lock = FALSE]
                          /\ d = [c EXCEPT !.reqflg = FALSE]
    OBVIOUS
  <2>2. k' = c \/ k' = d \/ k' = dispatcher(a) \/ k' = dispatcher(b) \/ k' = dispatcher(d)
    BY <1>4, <2>1 DEF start_dispatch, ret_int, idle_loop
  <2>3. SameMtx(k, a, {}) /\ SameMtx(k, b, {}) /\ SameMtx(k, c, {}) /\ SameMtx(k, d, {})
    BY <1>1, <2>1 DEF SameMtx, MtxFields
  <2>4. MutexOK(a) /\ MutexOK(b) /\ MutexOK(c) /\ MutexOK(d)
    BY ONLY <1>1, <2>3, MSame DEF MutexOK
  <2> HIDE <2>1
  <2> QED BY <2>2, <2>4, MKeeps
<1> QED BY <1>2, <1>3, <1>4

(* rot_rdq, ena_dsp and chg_ipm. *)
LEMMA MSysCalls ==
  ASSUME IInv(k), MutexOK(k),
         \/ \E p \in TPRI : rot_rdq(p) \/ irot_rdq(p)
         \/ ena_dsp \/ \E b \in BOOLEAN : chg_ipm(b)
  PROVE  MutexOK(k')
<1>1. MInv(k, {}, {}, {}) /\ MtxFields \subseteq DOMAIN k
  BY DEF MutexOK, MInv, MtxType
<1>2. CASE \E p \in TPRI : rot_rdq(p) \/ irot_rdq(p)
  BY <1>2, MKeeps DEF rot_rdq, irot_rdq
<1>3. ASSUME NEW y, MutexOK(y) PROVE MutexOK(enable_dispatch(y))
  <2>1. PICK z : z = [y EXCEPT !.dspflg = TRUE]
    OBVIOUS
  <2>2. SameMtx(y, z, {})
    BY <1>3, <2>1 DEF SameMtx, MtxFields, MutexOK, MInv, MtxType
  <2>3. MutexOK(z)
    BY <1>3, <2>2, MSame DEF MutexOK
  <2>4. enable_dispatch(y) = z \/ enable_dispatch(y) = dispatcher(z)
    BY <2>1 DEF enable_dispatch
  <2> HIDE <2>1
  <2> QED BY <2>3, <2>4, MKeeps
<1>4. CASE ena_dsp
  <2>1. PICK y : y = [k EXCEPT !.disdsp = FALSE]
    OBVIOUS
  <2>2. SameMtx(k, y, {})
    BY <1>1, <2>1 DEF SameMtx, MtxFields
  <2>3. MutexOK(y)
    BY <1>1, <2>2, MSame DEF MutexOK
  <2> QED BY <1>3, <1>4, <2>1, <2>3 DEF ena_dsp
<1>5. ASSUME NEW b \in BOOLEAN, chg_ipm(b) PROVE MutexOK(k')
  <2>1. PICK y, z : y = [k EXCEPT !.ipmflg = b] /\ z = [y EXCEPT !.dspflg = FALSE]
    OBVIOUS
  <2>2. SameMtx(k, y, {}) /\ SameMtx(k, z, {})
    BY <1>1, <2>1 DEF SameMtx, MtxFields
  <2>3. MutexOK(y) /\ MutexOK(z)
    BY <1>1, <2>2, MSame DEF MutexOK
  <2> QED BY <1>3, <1>5, <2>1, <2>3 DEF chg_ipm
<1> QED BY <1>2, <1>4, <1>5

-----------------------------------------------------------------------------
(***************************************************************************)
(* The service calls on mutexes.                                           *)
(***************************************************************************)
Raises(j, t, p) == p < j.priority[t]
PriSet(j, r, t, p) == r.priority = [j.priority EXCEPT ![t] = p]
StaysSched(j, r, t) == j.p_schedtsk = t => r.p_schedtsk = t

(* change_priority of a runnable task that gets a higher priority: if it   *)
(* is p_schedtsk it stays so.                                              *)
LEMMA RaiseReady ==
  ASSUME NEW j, Static(j), MtxFields \subseteq DOMAIN j, NEW t \in Task,
         "RUNNABLE" \in j.tstat[t], NEW p \in TPRI, Raises(j, t, p),
         NEW r, r = change_priority(j, t, p, TRUE)
  PROVE  SameMtx(j, r, {"priority"}) /\ PriSet(j, r, t, p) /\ StaysSched(j, r, t)
<1>1. r = change_ready(j, t, p, TRUE)
  BY DEF change_priority, TSTAT_RUNNABLE
<1>2. SameMtx(j, r, {"priority"}) /\ r.priority = [j.priority EXCEPT ![t] = p]
  BY <1>1 DEF change_ready, ready_delete, SameMtx, MtxFields
<1>3. j.p_schedtsk = t => r.p_schedtsk = t
  <2>1. KernelFields \subseteq DOMAIN j /\ j.priority[t] \in TPRI
    BY DEF Static, Data, SchedType
  <2>2. ~(p >= j.priority[t])
    BY <2>1 DEF Raises, TPRI
  <2> QED BY <1>1, <2>1, <2>2 DEF change_ready, ready_delete, KernelFields
<1> QED BY <1>2, <1>3 DEF PriSet, StaysSched

Linked(j, t, m) == [j EXCEPT !.p_loctsk[m] = t,
                             !.mutex_queue[t] = queue_insert_next(@, m),
                             !.undef = @ \/ linked(j, m)]

(* The first part of mutex_acquire. *)
LEMMA MLinked ==
  ASSUME NEW j, MutexOK(j), NEW t \in Task, NEW m \in Wobj, j.p_loctsk[m] = NULL,
         NEW y, y = Linked(j, t, m)
  PROVE  /\ SameMtx(j, y, {"p_loctsk", "mutex_queue"})
         /\ y.p_loctsk = [j.p_loctsk EXCEPT ![m] = t]
         /\ y.mutex_queue = [j.mutex_queue EXCEPT ![t] = queue_insert_next(j.mutex_queue[t], m)]
<1>1. MtxType(j) /\ OwnersOK(j, {})
  BY DEF MutexOK, MInv
<1>2. ~linked(j, m)
  <2>1. ASSUME NEW u \in Task PROVE m \notin Range(j.mutex_queue[u])
    <3>1. j.mutex_queue[u] \in Seq(Wobj)
      BY <1>1 DEF MtxType
    <3>2. ~In(j.mutex_queue[u], m)
      BY <1>1, NullAssumption DEF OwnersOK
    <3> QED BY <3>1, <3>2, RangeIn
  <2> QED BY <2>1 DEF linked
<1>3. MtxFields \subseteq DOMAIN j /\ j.undef = FALSE
  BY <1>1 DEF MtxType
<1> QED BY <1>2, <1>3 DEF Linked, SameMtx, MtxFields

(* mutex_acquire by a runnable task that may lock the mutex. *)
LEMMA MAcquire ==
  ASSUME NEW j, Static(j), MutexOK(j), NEW t \in Task, "RUNNABLE" \in j.tstat[t],
         NEW m \in Wobj, mtx_exists(j, m), j.p_loctsk[m] = NULL,
         MTX_CEILING(j, m) => j.bpriority[t] >= j.ceilpri[m],
         NEW r, r = mutex_acquire(j, t, m)
  PROVE  /\ MutexOK(r) /\ Static(r) /\ SameContext(j, r) /\ Keeps(j, r)
         /\ StaysSched(j, r, t)
<1>1. MtxType(j) /\ OwnersOK(j, {}) /\ MInv(j, {}, {}, {})
  BY DEF MutexOK, MInv
<1>2. PICK y : y = Linked(j, t, m)
  OBVIOUS
<1>3. PICK p : p = j.ceilpri[m]
  OBVIOUS
<1>4. PICK q : q = queue_insert_next(j.mutex_queue[t], m)
  OBVIOUS
<1>5. /\ SameMtx(j, y, {"p_loctsk", "mutex_queue"})
      /\ y.p_loctsk = [j.p_loctsk EXCEPT ![m] = t]
      /\ y.mutex_queue = [j.mutex_queue EXCEPT ![t] = q]
  BY <1>2, <1>4, MLinked
<1>6. /\ y.priority = j.priority /\ y.tstat = j.tstat /\ MtxFields \subseteq DOMAIN y
  BY <1>5 DEF SameMtx, MtxFields
<1>7. q \in Seq(Wobj) /\ Distinct(q) /\ \A n \in Wobj : In(q, n) <=> In(j.mutex_queue[t], n) \/ n = m
  <2>1. j.mutex_queue[t] \in Seq(Wobj) /\ Distinct(j.mutex_queue[t])
    BY <1>1 DEF MtxType, OwnersOK
  <2>2. ~In(j.mutex_queue[t], m)
    BY <1>1, NullAssumption DEF OwnersOK
  <2> QED BY <1>4, <2>1, <2>2, MutexLinked
<1>8. Frame(j, y, MtxOnly)
  BY <1>2 DEF Linked, Frame, MtxOnly
<1>9. /\ Static(y) /\ SameContext(j, y) /\ Keeps(j, y)
  <2>1. StaticOf(j, Task)
    BY StaticCases
  <2>2. CallOf(j, y, Task)
    BY <1>8, <2>1, MtxFrame
  <2> QED BY <2>2, StaticCases DEF CallOf
<1>10. y.p_schedtsk = j.p_schedtsk
  BY <1>8 DEF Frame, MtxOnly, Static, Data, KernelFields
<1>11. r = IF MTX_CEILING(j, m) /\ p < j.priority[t] THEN change_priority(y, t, p, TRUE) ELSE y
  <2>1. mutex_acquire(j, t, m) = IF MTX_CEILING(j, m)
                                 THEN mutex_raise_priority(Linked(j, t, m), t, j.ceilpri[m])
                                 ELSE Linked(j, t, m)
    BY DEF mutex_acquire, Linked
  <2>2. r = IF MTX_CEILING(j, m) THEN mutex_raise_priority(y, t, p) ELSE y
    BY <1>2, <1>3, <2>1
  <2> QED BY <1>6, <2>2 DEF mutex_raise_priority
<1> HIDE <1>2, <1>4
<1>12. /\ Static(r) /\ SameContext(j, r) /\ Keeps(j, r)
       /\ j.p_schedtsk = t => r.p_schedtsk = t
       /\ SameMtx(j, r, {"p_loctsk", "mutex_queue", "priority"})
       /\ r.p_loctsk = y.p_loctsk /\ r.mutex_queue = y.mutex_queue
       /\ r.priority = [j.priority EXCEPT ![t] = RaisedPri(j, t, m)]
  <2>1. CASE MTX_CEILING(j, m) /\ p < j.priority[t]
    <3>1. r = change_priority(y, t, p, TRUE)
      BY <1>11, <2>1
    <3>2. p \in TPRI
      <4>1. RaisedPri(j, t, m) \in TPRI
        BY <1>1, RaisedType
      <4> QED BY <1>3, <2>1, <4>1 DEF RaisedPri
    <3>3. "RUNNABLE" \in y.tstat[t] /\ Raises(y, t, p)
      BY <1>6, <2>1 DEF Raises
    <3>4. Static(r) /\ SameContext(y, r) /\ Keeps(y, r)
      BY ONLY <1>9, t \in Task, <3>1, <3>2, ChangePriority
    <3>5. SameMtx(y, r, {"priority"})
      BY ONLY <1>9, <1>6, t \in Task, <3>1, <3>2, <3>3, RaiseReady
    <3>6. PriSet(y, r, t, p)
      BY ONLY <1>9, <1>6, t \in Task, <3>1, <3>2, <3>3, RaiseReady
    <3>7. StaysSched(y, r, t)
      BY ONLY <1>9, <1>6, t \in Task, <3>1, <3>2, <3>3, RaiseReady
    <3>8. SameContext(j, r) /\ Keeps(j, r)
      BY <1>9, <3>4 DEF SameContext, Keeps
    <3>9. SameMtx(j, r, {"p_loctsk", "mutex_queue", "priority"})
      BY <1>5, <3>5 DEF SameMtx
    <3>10. r.p_loctsk = y.p_loctsk /\ r.mutex_queue = y.mutex_queue
      BY <3>5 DEF SameMtx, MtxFields
    <3>11. RaisedPri(j, t, m) = p
      BY <1>3, <2>1 DEF RaisedPri
    <3> QED BY <1>6, <1>10, <3>4, <3>6, <3>7, <3>8, <3>9, <3>10, <3>11
            DEF PriSet, StaysSched
  <2>2. CASE ~(MTX_CEILING(j, m) /\ p < j.priority[t])
    <3>1. r = y
      BY <1>11, <2>2
    <3>2. RaisedPri(j, t, m) = j.priority[t]
      BY <1>3, <2>2 DEF RaisedPri
    <3>3. j.priority = [j.priority EXCEPT ![t] = j.priority[t]]
      BY <1>1 DEF MtxType
    <3>4. SameMtx(j, y, {"p_loctsk", "mutex_queue", "priority"})
      BY <1>5 DEF SameMtx
    <3> QED BY <1>6, <1>9, <1>10, <3>1, <3>2, <3>3, <3>4
  <2> QED BY <2>1, <2>2
<1>13. Owns(j, r, t, m, q)
  BY <1>5, <1>7, <1>12 DEF Owns
<1>14. MInv(r, {}, {}, {})
  <2>1. "MTX" \notin j.tstat[t]
    BY NotWaiting
  <2>2. j.tstat[t] # {} /\ {} \subseteq {m}
    OBVIOUS
  <2>3. MTX_CEILING(j, m) => j.ceilpri[m] <= j.bpriority[t]
    BY <1>1 DEF MtxType, TPRI
  <2> QED BY <1>1, <1>13, <2>1, <2>2, <2>3, MOwn
<1> QED BY <1>12, <1>14 DEF MutexOK, StaysSched

(* loc_mtx and ploc_mtx of a mutex that nobody holds: the priority of the  *)
(* running task may be raised, but it stays the task to run.               *)
LEMMA MLock ==
  ASSUME IInv(k), MutexOK(k), TSKCTX, NEW m \in Wobj, may_lock(m), k.p_loctsk[m] = NULL,
         NEW r, r = Void(k, mutex_acquire(k, k.p_runtsk, m))
  PROVE  IInv(r) /\ MutexOK(r)
<1>1. /\ Static(k) /\ k.kerflg /\ k.excpt_nest_count = 0 /\ ~k.dspreq
      /\ k.dspflg => k.p_runtsk = k.p_schedtsk
  BY TaskContext
<1>2. PICK t \in Task : t = k.p_runtsk /\ "RUNNABLE" \in k.tstat[t]
  BY TaskContext
<1>3. mtx_exists(k, m) /\ (MTX_CEILING(k, m) => k.bpriority[t] >= k.ceilpri[m])
  BY <1>2 DEF may_lock
<1>4. PICK y : y = mutex_acquire(k, t, m)
  OBVIOUS
<1>5. MutexOK(y) /\ Static(y) /\ SameContext(k, y) /\ Keeps(k, y) /\ StaysSched(k, y, t)
  BY <1>1, <1>2, <1>3, <1>4, MAcquire
<1>6. r = Void(k, y)
  BY <1>2, <1>4
<1> HIDE <1>4
<1>7. r = [y EXCEPT !.dspreq = FALSE]
  BY <1>1, <1>6 DEF Void, Static, Data, SchedType
<1>8. Frame(y, r, {"dspreq"}) /\ r.dspreq = FALSE
  BY <1>5, <1>7 DEF Frame, Static, Data, KernelFields
<1>9. SameContext(y, r)
  BY <1>5, <1>8 DEF SameContext, Frame, Static, Data, KernelFields
<1>10. ContextType(r) /\ FlagOK(r)
  <2>1. /\ y.dspflg \in BOOLEAN /\ y.p_runtsk \in Task \cup {NULL}
        /\ y.reqflg \in BOOLEAN /\ y.disdsp \in BOOLEAN /\ y.ipmflg \in BOOLEAN
        /\ y.lock \in BOOLEAN /\ y.kerflg \in BOOLEAN
        /\ y.excpt_nest_count \in 0 .. MaxNest + 1 /\ y.boot \in Nat /\ FlagOK(y)
    BY <1>5 DEF Static, Data, SchedType
  <2>2. FlagOK(r)
    BY <1>9, <2>1, Zenon DEF FlagOK, SameContext
  <2> QED BY <1>8, <1>9, <2>1, <2>2, Zenon DEF ContextType, SameContext
<1>11. /\ Static(r) /\ r.tstat = y.tstat /\ r.p_schedtsk = y.p_schedtsk
  <2>1. Frame(y, r, ContextFields \cup {"dspreq"})
    BY <1>8 DEF Frame
  <2> QED BY <1>5, <1>10, <2>1, ContextChange
<1>12. Context(r)
  <2>1. /\ r.kerflg /\ r.excpt_nest_count = 0 /\ r.p_runtsk = t /\ r.dspflg = k.dspflg
    BY <1>1, <1>2, <1>5, <1>9 DEF SameContext
  <2>2. "RUNNABLE" \in r.tstat[t]
    BY <1>2, <1>5, <1>11 DEF Keeps
  <2>3. r.dspflg => r.p_schedtsk = t
    BY <1>1, <1>2, <1>5, <1>11, <2>1 DEF StaysSched
  <2> QED BY <1>8, <2>1, <2>2, <2>3, NullAssumption DEF Context, Boot, Running, Dispatched
<1> QED BY <1>5, <1>6, <1>11, <1>12, MKeeps DEF IInv

(* t joins the wait queue of m, which becomes q. *)
Blocks(j, r, t, m, q) ==
  /\ SameMtx(j, r, {"tstat", "wait_queue", "p_wobjcb"})
  /\ r.tstat = [j.tstat EXCEPT ![t] = {"WAITING", "MTX"}]
  /\ r.p_wobjcb = [j.p_wobjcb EXCEPT ![t] = m]
  /\ r.wait_queue = [j.wait_queue EXCEPT ![m] = q]
  /\ q \in Seq(Task) /\ Distinct(q)
  /\ \A u \in Task : In(q, u) <=> In(j.wait_queue[m], u) \/ u = t
  /\ TA_TPRI(j, m) => Ordered(q, j.priority)

(* A task that may lock m starts to wait for its owner. *)
LEMMA MBlocks ==
  ASSUME NEW j, MutexOK(j), NEW t \in Task, "RUNNABLE" \in j.tstat[t], NEW m \in Wobj,
         NEW h \in Task, Locks(j, h, m),
         MTX_CEILING(j, m) => j.bpriority[t] >= j.ceilpri[m],
         NEW r, NEW q, Blocks(j, r, t, m, q)
  PROVE  MutexOK(r)
<1>1. /\ MtxType(j) /\ OwnersOK(j, {}) /\ QueuesOK(j, {}) /\ CeilOK(j) /\ FreeMtxOK(j)
      /\ \A u \in Task : KindOK(j.tstat[u], j.p_wobjcb[u])
      /\ \A u \in Task : PriOK(j, u)
  BY DEF MutexOK, MInv
<1>2. "MTX" \notin j.tstat[t]
  BY NotWaiting
<1>3. /\ r.priority = j.priority /\ r.bpriority = j.bpriority
      /\ r.mutex_queue = j.mutex_queue /\ r.wobjatr = j.wobjatr /\ r.p_loctsk = j.p_loctsk
      /\ r.ceilpri = j.ceilpri /\ r.free_mtxcb = j.free_mtxcb /\ r.undef = j.undef
      /\ MtxFields \subseteq DOMAIN r
  BY DEF Blocks, SameMtx, MtxFields
<1>4. /\ r.tstat = [j.tstat EXCEPT ![t] = {"WAITING", "MTX"}]
      /\ r.p_wobjcb = [j.p_wobjcb EXCEPT ![t] = m]
      /\ r.wait_queue = [j.wait_queue EXCEPT ![m] = q]
      /\ q \in Seq(Task) /\ Distinct(q)
      /\ \A u \in Task : In(q, u) <=> In(j.wait_queue[m], u) \/ u = t
      /\ TA_TPRI(j, m) => Ordered(q, j.priority)
  BY DEF Blocks
<1>5. /\ r.tstat[t] = {"WAITING", "MTX"} /\ r.p_wobjcb[t] = m /\ r.wait_queue[m] = q
      /\ \A u \in Task \ {t} : r.tstat[u] = j.tstat[u] /\ r.p_wobjcb[u] = j.p_wobjcb[u]
      /\ \A n \in Wobj \ {m} : r.wait_queue[n] = j.wait_queue[n]
  BY <1>1, <1>4 DEF MtxType
<1>6. MtxType(r)
  <2>1. r.tstat \in [Task -> SUBSET TstatFlag]
    BY <1>1, <1>4 DEF MtxType, TstatFlag, WaitKind, WobjKind, WobjcbKind
  <2>2. r.p_wobjcb \in [Task -> Wobj \cup {NULL}] /\ r.wait_queue \in [Wobj -> Seq(Task)]
    BY <1>1, <1>4 DEF MtxType
  <2> QED BY <1>1, <1>3, <2>1, <2>2 DEF MtxType
<1>7. \A n \in Wobj : MTX_CEILING(r, n) = MTX_CEILING(j, n) /\ TA_TPRI(r, n) = TA_TPRI(j, n)
  BY <1>3 DEF MTX_CEILING, TA_TPRI
<1>8. OwnersOK(r, {})
  <2>1. ASSUME NEW n \in Wobj, r.p_loctsk[n] # NULL
        PROVE  r.wobjatr[n] # "TA_NOEXS" /\ r.tstat[r.p_loctsk[n]] # {}
    <3>1. PICK u \in Task : u = j.p_loctsk[n]
      BY <1>1, <1>3, <2>1 DEF MtxType
    <3>2. j.tstat[u] # {} /\ j.wobjatr[n] # "TA_NOEXS"
      BY <1>1, <1>3, <2>1, <3>1 DEF OwnersOK
    <3>3. r.tstat[u] # {}
      BY <1>5, <3>2
    <3> QED BY <1>3, <3>1, <3>2, <3>3
  <2> QED BY <1>1, <1>3, <2>1 DEF OwnersOK
<1>9. QueuesOK(r, {})
  <2>1. ASSUME NEW u \in Task, NEW n \in Wobj
        PROVE  In(r.wait_queue[n], u) <=> "MTX" \in r.tstat[u] /\ r.p_wobjcb[u] = n
    <3>1. In(j.wait_queue[n], u) <=> "MTX" \in j.tstat[u] /\ j.p_wobjcb[u] = n
      BY <1>1 DEF QueuesOK
    <3>2. CASE n = m
      BY <1>2, <1>4, <1>5, <3>1, <3>2
    <3>3. CASE n # m
      BY <1>2, <1>5, <3>1, <3>3
    <3> QED BY <3>2, <3>3
  <2>2. ASSUME NEW n \in Wobj
        PROVE  /\ Distinct(r.wait_queue[n])
               /\ r.p_loctsk[n] = NULL => r.wait_queue[n] = <<>>
               /\ TA_TPRI(r, n) => Ordered(r.wait_queue[n], r.priority)
    <3>1. /\ Distinct(j.wait_queue[n])
          /\ j.p_loctsk[n] = NULL => j.wait_queue[n] = <<>>
          /\ TA_TPRI(j, n) => Ordered(j.wait_queue[n], j.priority)
      BY <1>1 DEF QueuesOK
    <3>2. CASE n = m
      <4>1. r.p_loctsk[m] # NULL
        BY <1>3, NullAssumption DEF Locks
      <4> QED BY <1>3, <1>4, <1>5, <1>7, <3>2, <4>1
    <3>3. CASE n # m
      BY <1>3, <1>5, <1>7, <3>1, <3>3
    <3> QED BY <3>2, <3>3
  <2> QED BY <2>1, <2>2 DEF QueuesOK
<1>10. \A u \in Task : KindOK(r.tstat[u], r.p_wobjcb[u])
  <2>1. KindOK(r.tstat[t], r.p_wobjcb[t])
    BY <1>5 DEF KindOK, WobjKind, WobjcbKind
  <2> QED BY <1>1, <1>5, <2>1
<1>11. CeilOK(r)
  <2> SUFFICES ASSUME NEW u \in Task, NEW n \in Wobj, MTX_CEILING(j, n),
                      j.p_loctsk[n] = u \/ In(r.wait_queue[n], u)
               PROVE  j.ceilpri[n] <= j.bpriority[u]
    BY <1>3, <1>7 DEF CeilOK
  <2>1. CASE j.p_loctsk[n] = u \/ In(j.wait_queue[n], u)
    BY <1>1, <2>1 DEF CeilOK
  <2>2. CASE ~(j.p_loctsk[n] = u \/ In(j.wait_queue[n], u))
    <3>1. n = m /\ u = t
      BY <1>4, <1>5, <2>2
    <3>2. j.ceilpri[m] \in Int /\ j.bpriority[t] \in Int
      BY <1>1 DEF MtxType, TPRI
    <3>3. j.bpriority[t] >= j.ceilpri[m]
      BY <3>1
    <3> QED BY <3>1, <3>2, <3>3
  <2> QED BY <2>1, <2>2
<1>12. \A u \in Task : PriOK(r, u)
  BY <1>1, <1>3, <1>7 DEF PriOK, PriIs, Ceiled
<1>13. FreeMtxOK(r)
  BY <1>1, <1>3 DEF FreeMtxOK
<1> QED BY <1>6, <1>8, <1>9, <1>10, <1>11, <1>12, <1>13 DEF MutexOK, MInv

(* loc_mtx of a locked mutex: the running task waits and another one runs. *)
LEMMA MLockWait ==
  ASSUME IInv(k), MutexOK(k), CHECK_DISPATCH, NEW m \in Wobj, may_lock(m),
         k.p_loctsk[m] # NULL, NEW tmout \in BOOLEAN,
         NEW r, r = dispatcher(wobj_make_wait_tmout(begin_wait("MTX"), m, tmout))
  PROVE  IInv(r) /\ MutexOK(r)
<1>1. /\ Static(k) /\ k.kerflg /\ k.dspflg
  BY TaskContext DEF CHECK_DISPATCH, CHECK_TSKCTX_UNL
<1>2. PICK t \in Task : t = k.p_runtsk /\ "RUNNABLE" \in k.tstat[t]
  BY TaskContext DEF CHECK_DISPATCH, CHECK_TSKCTX_UNL
<1>3. MTX_CEILING(k, m) => k.bpriority[t] >= k.ceilpri[m]
  BY <1>2 DEF may_lock
<1>4. PICK h \in Task : Locks(k, h, m)
  BY DEF MutexOK, MInv, MtxType, Locks
<1>5. PICK x : x = [k EXCEPT !.tstat[t] = {"WAITING", "MTX"}]
  OBVIOUS
<1>6. PICK w : w = make_wait_tmout(x, tmout)
  OBVIOUS
<1>7. /\ Static(w) /\ SameContext(k, w)
      /\ w.tstat = [k.tstat EXCEPT ![t] = {"WAITING", "MTX"}]
      /\ Frame(k, w, {"tstat", "winfo", "tmevtb"} \cup ReadyFields)
  <2>1. \E a, b : Waits(k, t, w, "MTX", x, a, b)
    <3>1. CASE tmout
      <4>1. w = make_wait_tmevtb(x, "wait_tmout")
        BY <1>6, <3>1 DEF make_wait_tmout
      <4> WITNESS "p_tmevtb", "wait_tmout"
      <4> QED BY <1>5, <4>1 DEF Waits, WaitKind, WobjKind, WobjcbKind
    <3>2. CASE ~tmout
      <4>1. w = make_wait(x)
        BY <1>6, <3>2 DEF make_wait_tmout
      <4> WITNESS "NULL", "none"
      <4> QED BY <1>5, <4>1 DEF Waits, WaitKind, WobjKind, WobjcbKind
    <3> QED BY <3>1, <3>2
  <2>2. PICK a, b : Waits(k, t, w, "MTX", x, a, b)
    BY <2>1
  <2>3. Static(w) /\ SameContext(k, w)
    BY ONLY t \in Task, <1>1, <1>2, <2>2, WaitStarts
  <2>4. StartsWait(k, w, t, "MTX")
    BY ONLY t \in Task, <1>1, <1>2, <2>2, WaitStarts
  <2>5. Frame(k, w, {"tstat", "winfo", "tmevtb"} \cup ReadyFields)
    BY ONLY t \in Task, <1>1, <1>2, <2>2, WaitStarts
  <2> QED BY <2>3, <2>4, <2>5 DEF StartsWait
<1>8. KernelFields \subseteq DOMAIN w /\ MtxFields \subseteq DOMAIN w
  <2>1. MtxFields \subseteq DOMAIN k
    BY DEF MutexOK, MInv, MtxType
  <2> QED BY <1>7, <2>1 DEF Frame, Static, Data
<1>9. w.p_runtsk = t /\ x.p_runtsk = t
  BY <1>1, <1>2, <1>5, <1>7 DEF SameContext, Static, Data, KernelFields
<1>10. /\ SameMtx(k, w, {"tstat"}) /\ w.wait_queue = k.wait_queue
       /\ w.priority = k.priority /\ TA_TPRI(w, m) = TA_TPRI(k, m)
  <2>1. SameMtx(k, w, {"tstat"})
    BY <1>7, <1>8 DEF SameMtx, MtxFields, Frame, ReadyFields
  <2> QED BY <2>1 DEF SameMtx, MtxFields, TA_TPRI
<1>11. PICK q : q = IF TA_TPRI(k, m) THEN queue_insert_tpri(w, k.wait_queue[m], t)
                    ELSE queue_insert_prev(k.wait_queue[m], t)
  OBVIOUS
<1>12. PICK z : z = [w EXCEPT !.wait_queue[m] = q, !.p_wobjcb[t] = m]
  OBVIOUS
<1>13. r = dispatcher(z)
  <2>1. begin_wait("MTX") = x
    BY <1>2, <1>5 DEF begin_wait, TS_WAITING
  <2>2. PICK u : u = [w EXCEPT !.wait_queue[m] = q]
    OBVIOUS
  <2>3. wobj_queue_insert(w, m) = u
    <3>1. CASE TA_TPRI(k, m)
      BY <1>8, <1>9, <1>10, <1>11, <2>2, <3>1 DEF wobj_queue_insert, MtxFields
    <3>2. CASE ~TA_TPRI(k, m)
      BY <1>8, <1>9, <1>10, <1>11, <2>2, <3>2 DEF wobj_queue_insert, MtxFields
    <3> QED BY <3>1, <3>2
  <2>4. wobj_make_wait_tmout(x, m, tmout) = [u EXCEPT !.p_wobjcb[t] = m]
    BY <1>6, <1>9, <2>3 DEF wobj_make_wait_tmout
  <2>5. [u EXCEPT !.p_wobjcb[t] = m] = z
    BY <1>8, <1>12, <2>2 DEF MtxFields
  <2> QED BY <2>1, <2>4, <2>5
<1> HIDE <1>5, <1>6
<1>14. /\ Frame(w, z, MtxOnly) /\ SameMtx(w, z, {"wait_queue", "p_wobjcb"})
       /\ z.wait_queue = [k.wait_queue EXCEPT ![m] = q]
       /\ z.p_wobjcb = [w.p_wobjcb EXCEPT ![t] = m]
  BY <1>8, <1>10, <1>12 DEF Frame, MtxOnly, SameMtx, MtxFields
<1>15. IInv(r)
  <2>1. StaticOf(w, Task)
    BY <1>7, StaticCases
  <2>2. CallOf(w, z, Task)
    BY <1>14, <2>1, MtxFrame
  <2>3. Static(z) /\ SameContext(w, z)
    BY <2>2, StaticCases DEF CallOf
  <2>4. z.kerflg /\ z.dspflg
    BY <1>1, <1>7, <2>3 DEF SameContext
  <2> HIDE <1>12
  <2> QED BY <1>13, <2>3, <2>4, Dispatcher
<1>16. /\ q \in Seq(Task) /\ Distinct(q)
       /\ \A u \in Task : In(q, u) <=> In(k.wait_queue[m], u) \/ u = t
       /\ TA_TPRI(k, m) => Ordered(q, k.priority)
  <2>1. PICK c : c = k.wait_queue[m]
    OBVIOUS
  <2>2. /\ c \in Seq(Task) /\ Distinct(c) /\ ~In(c, t)
        /\ TA_TPRI(k, m) => Ordered(c, k.priority)
    <3>1. "MTX" \notin k.tstat[t]
      BY <1>2, NotWaiting
    <3> QED BY <2>1, <3>1 DEF MutexOK, MInv, MtxType, QueuesOK
  <2>3. CASE TA_TPRI(k, m)
    <3>1. q = queue_insert_tpri(w, c, t)
      BY <1>11, <2>1, <2>3
    <3>2. w.priority \in [Task -> TPRI]
      BY <1>7 DEF Static, Data, SchedType
    <3>3. /\ q \in Seq(Task) /\ Distinct(q) /\ \A u \in Task : In(q, u) <=> In(c, u) \/ u = t
      BY ONLY t \in Task, <2>2, <3>1, <3>2, InsertedTpri
    <3>4. Ordered(c, w.priority) => Ordered(q, w.priority)
      BY ONLY t \in Task, <2>2, <3>1, <3>2, InsertedTpri
    <3> QED BY <1>10, <2>1, <2>2, <2>3, <3>3, <3>4
  <2>4. CASE ~TA_TPRI(k, m)
    <3>1. q = Append(c, t)
      BY <1>11, <2>1, <2>4 DEF queue_insert_prev
    <3>2. PICK n \in Nat : n = Len(c)
      BY <2>2
    <3>3. /\ q \in Seq(Task) /\ Len(q) = n + 1 /\ q[n + 1] = t
          /\ \A i \in 1 .. n : q[i] = c[i]
      BY <2>2, <3>1, <3>2
    <3>4. InsertedAt(c, t, n + 1, q)
      BY <3>2, <3>3 DEF InsertedAt
    <3>5. Distinct(q) /\ \A u \in Task : In(q, u) <=> In(c, u) \/ u = t
      BY ONLY t \in Task, <2>2, <3>3, <3>4, Inserted
    <3> QED BY <2>1, <2>4, <3>3, <3>5
  <2> QED BY <2>3, <2>4
<1>17. Blocks(k, z, t, m, q)
  <2>1. z.tstat = [k.tstat EXCEPT ![t] = {"WAITING", "MTX"}]
    BY <1>7, <1>14 DEF SameMtx, MtxFields
  <2>2. z.p_wobjcb = [k.p_wobjcb EXCEPT ![t] = m]
    BY <1>10, <1>14 DEF SameMtx, MtxFields
  <2>3. SameMtx(k, z, {"tstat", "wait_queue", "p_wobjcb"})
    BY <1>10, <1>14 DEF SameMtx
  <2> QED BY <1>14, <1>16, <2>1, <2>2, <2>3 DEF Blocks
<1> HIDE <1>11, <1>12
<1>18. MutexOK(z)
  BY <1>2, <1>3, <1>4, <1>17, MBlocks
<1> QED BY <1>13, <1>15, <1>18, MKeeps

(* loc_mtx, with or without a timeout, and ploc_mtx. *)
LEMMA MLockCalls ==
  ASSUME IInv(k), MutexOK(k), NEW m \in Wobj,
         ploc_mtx(m) \/ \E b \in BOOLEAN : loc_mtx(m, b)
  PROVE  IInv(k') /\ MutexOK(k')
<1>1. PICK r : r = k'
  OBVIOUS
<1>2. CASE k.p_loctsk[m] = NULL
  <2>1. TSKCTX /\ may_lock(m) /\ r = Void(k, mutex_acquire(k, k.p_runtsk, m))
    BY <1>1, <1>2 DEF ploc_mtx, loc_mtx, CHECK_DISPATCH, CHECK_TSKCTX_UNL
  <2> QED BY <1>1, <1>2, <2>1, MLock
<1>3. CASE k.p_loctsk[m] # NULL
  <2>1. PICK b \in BOOLEAN : loc_mtx(m, b)
    BY <1>3 DEF ploc_mtx
  <2>2. /\ CHECK_DISPATCH /\ may_lock(m)
        /\ r = dispatcher(wobj_make_wait_tmout(begin_wait("MTX"), m, b))
    BY <1>1, <1>3, <2>1 DEF loc_mtx
  <2> QED BY <1>1, <1>3, <2>2, MLockWait
<1> QED BY <1>2, <1>3

(* change_priority as a part of a service call. *)
LEMMA ChangeCall ==
  ASSUME NEW j, StaticOf(j, Task), NEW t \in Task, NEW p \in TPRI,
         NEW r, r = change_priority(j, t, p, TRUE)
  PROVE  CallOf(j, r, Task)
<1>1. Static(j)
  BY StaticCases
<1>2. Static(r) /\ SameContext(j, r) /\ Reports(j, r) /\ Keeps(j, r)
  BY <1>1, ChangePriority
<1>3. r.tskatr = j.tskatr
  <2>1. KernelFields \subseteq DOMAIN j
    BY <1>1 DEF Static, Data
  <2> QED BY <2>1 DEF change_priority, change_ready, ready_delete, wobj_change_priority,
                      KernelFields
<1> QED BY <1>2, <1>3, StaticCases DEF CallOf

(* The priority of a task that has lost m, unless it is that of m's        *)
(* ceiling, is still what mutex_calc_priority computes.                    *)
LEMMA UnlinkPri ==
  ASSUME NEW j, MutexOK(j), NEW m \in Wobj, NEW t \in Task,
         NEW y, NEW q, NEW L1, Unlinks(j, y, t, m, q, L1)
  PROVE  /\ y.priority[t] = j.ceilpri[m] \/ PriOK(y, t)
         /\ ~MTX_CEILING(j, m) => PriOK(y, t)
<1>1. /\ y.priority = j.priority /\ y.bpriority = j.bpriority /\ y.wobjatr = j.wobjatr
      /\ y.ceilpri = j.ceilpri
  BY DEF Unlinks, SameMtx, MtxFields
<1>2. y.mutex_queue[t] = q
  BY DEF Unlinks, MutexOK, MInv, MtxType
<1>3. \A n \in Wobj : In(q, n) <=> In(j.mutex_queue[t], n) /\ n # m
  BY DEF Unlinks
<1>4. \A n \in Wobj : Ceiled(y, t, n) <=> Ceiled(j, t, n) /\ n # m
  BY <1>1, <1>2, <1>3 DEF Ceiled, MTX_CEILING
<1>5. PriIs(j, t, j.priority[t])
  BY DEF MutexOK, MInv, PriOK
<1>6. ASSUME j.priority[t] # j.ceilpri[m] \/ ~Ceiled(j, t, m) PROVE PriOK(y, t)
  BY <1>1, <1>4, <1>5, <1>6 DEF PriOK, PriIs
<1> QED BY <1>1, <1>6 DEF Ceiled

(* m leaves the queue of its owner t, which may drop its priority. *)
LEMMA MUnlinkDrop ==
  ASSUME NEW j, Static(j), MutexOK(j), NEW m \in Wobj, NEW t \in Task, Locks(j, t, m),
         NEW y, NEW q, NEW L1, Unlinks(j, y, t, m, q, L1), Frame(j, y, MtxOnly),
         NEW r, r = IF MTX_CEILING(j, m) THEN mutex_drop_priority(y, t, j.ceilpri[m]) ELSE y
  PROVE  /\ MInv(r, {}, {}, L1) /\ CallOf(j, r, Task)
         /\ SameMtx(y, r, {"priority", "wait_queue"})
<1>1. MInv(y, {}, {t}, L1)
  <2>1. MInv(j, {}, {}, {})
    BY DEF MutexOK
  <2>2. MInv(y, {}, {} \cup {t}, L1)
    BY <2>1, MUnlink
  <2>3. {} \cup {t} = {t}
    OBVIOUS
  <2> QED BY <2>2, <2>3
<1>2. y.priority[t] = j.ceilpri[m] \/ PriOK(y, t)
  BY UnlinkPri
<1>3. ~MTX_CEILING(j, m) => PriOK(y, t)
  BY UnlinkPri
<1>4. CallOf(j, y, Task)
  <2>1. StaticOf(j, Task)
    BY StaticCases
  <2> QED BY <2>1, MtxFrame
<1>5. CASE MTX_CEILING(j, m)
  <2>1. PICK old : old = j.ceilpri[m]
    OBVIOUS
  <2>2. r = mutex_drop_priority(y, t, old)
    BY <1>5, <2>1
  <2>3. y.priority[t] = old \/ PriOK(y, t)
    BY <1>2, <2>1
  <2>4. MInv(r, {}, {}, L1) /\ SameMtx(y, r, {"priority", "wait_queue"})
    BY ONLY t \in Task, <1>1, <2>2, <2>3, MDrop
  <2>5. CallOf(y, r, Task)
    <3>1. PICK p : p = mutex_calc_priority(y, t)
      OBVIOUS
    <3>2. MtxType(y)
      BY <1>1 DEF MInv
    <3>3. p \in TPRI
      BY ONLY t \in Task, <3>1, <3>2, CalcPriority
    <3>4. r = change_priority(y, t, p, TRUE) \/ r = y
      BY <2>2, <3>1 DEF mutex_drop_priority
    <3>5. StaticOf(y, Task)
      BY <1>4 DEF CallOf
    <3> HIDE <3>1
    <3> QED BY ONLY t \in Task, <3>3, <3>4, <3>5, ChangeCall, CallRefl
  <2> QED BY <1>4, <2>4, <2>5, CallTrans
<1>6. CASE ~MTX_CEILING(j, m)
  <2>1. r = y
    BY <1>6
  <2>2. MInv(y, {}, {}, L1)
    BY <1>1, <1>3, <1>6 DEF MInv
  <2>3. SameMtx(y, y, {"priority", "wait_queue"})
    BY <1>1 DEF SameMtx, MInv, MtxType
  <2> QED BY <1>4, <2>1, <2>2, <2>3
<1> QED BY <1>5, <1>6

(* The queue of the owner t of m without m. *)
LEMMA QueueWithout ==
  ASSUME NEW j, MutexOK(j), NEW m \in Wobj, NEW t \in Task, Locks(j, t, m),
         NEW q, q = queue_delete(j.mutex_queue[t], m)
  PROVE  /\ q \in Seq(Wobj) /\ Distinct(q)
         /\ \A n \in Wobj : In(q, n) <=> In(j.mutex_queue[t], n) /\ n # m
<1>1. PICK a : a = j.mutex_queue[t]
  OBVIOUS
<1>2. a \in Seq(Wobj) /\ Distinct(a) /\ In(a, m)
  BY <1>1 DEF MutexOK, MInv, MtxType, OwnersOK, Locks
<1>3. q = queue_delete(a, m)
  BY <1>1
<1>4. q \in Seq(Wobj) /\ Distinct(q)
  BY ONLY m \in Wobj, <1>2, <1>3, Deleted
<1>5. \A n \in Wobj : In(q, n) <=> In(a, n) /\ n # m
  BY ONLY m \in Wobj, <1>2, <1>3, Deleted
<1> QED BY <1>1, <1>4, <1>5

(* unl_mtx: the mutex goes to the head of its wait queue. *)
LEMMA MUnlock ==
  ASSUME IInv(k), MutexOK(k), NEW m \in Wobj, unl_mtx(m)
  PROVE  IInv(k') /\ MutexOK(k')
<1>1. Static(k) /\ k.kerflg /\ k.excpt_nest_count = 0
  BY TaskContext DEF unl_mtx, CHECK_TSKCTX_UNL
<1>2. PICK t \in Task : t = k.p_runtsk /\ Locks(k, t, m)
  BY TaskContext DEF unl_mtx, CHECK_TSKCTX_UNL, Locks
<1>3. PICK q : q = queue_delete(k.mutex_queue[t], m)
  OBVIOUS
<1>4. PICK y : y = [k EXCEPT !.mutex_queue[t] = q]
  OBVIOUS
<1>5. PICK z : z = IF MTX_CEILING(k, m) THEN mutex_drop_priority(y, t, k.ceilpri[m]) ELSE y
  OBVIOUS
<1>6. PICK r : r = mutex_release(z, m)
  OBVIOUS
<1>7. MtxFields \subseteq DOMAIN k
  BY DEF MutexOK, MInv, MtxType
<1>8. k' = t_leave(r)
  <2>1. y = [k EXCEPT !.mutex_queue[t] = queue_delete(@, m)]
    BY <1>3, <1>4, <1>7 DEF MtxFields
  <2> HIDE <1>3, <1>4
  <2> QED BY <1>2, <1>5, <1>6, <2>1 DEF unl_mtx
<1>9. /\ q \in Seq(Wobj) /\ Distinct(q)
      /\ \A n \in Wobj : In(q, n) <=> In(k.mutex_queue[t], n) /\ n # m
  BY <1>2, <1>3, QueueWithout
<1>10. Frame(k, y, MtxOnly)
  BY <1>4 DEF Frame, MtxOnly
<1>11. Unlinks(k, y, t, m, q, {m})
  <2>1. /\ SameMtx(k, y, {"mutex_queue"}) /\ y.p_loctsk = k.p_loctsk
        /\ y.mutex_queue = [k.mutex_queue EXCEPT ![t] = q]
    BY <1>4, <1>7 DEF SameMtx, MtxFields
  <2> QED BY <1>9, <2>1 DEF Unlinks, SameMtx
<1> HIDE <1>3, <1>4
<1>12. MInv(z, {}, {}, {m}) /\ CallOf(k, z, Task) /\ SameMtx(y, z, {"priority", "wait_queue"})
  BY <1>1, <1>2, <1>5, <1>10, <1>11, MUnlinkDrop
<1> HIDE <1>5
<1>13. z.p_loctsk[m] # NULL
  <2>1. z.p_loctsk = y.p_loctsk
    BY <1>12 DEF SameMtx, MtxFields
  <2>2. y.p_loctsk = k.p_loctsk
    BY <1>10, <1>11 DEF Unlinks
  <2> QED BY <1>2, <2>1, <2>2, NullAssumption DEF Locks
<1>14. MInv(r, {}, {}, {})
  BY <1>6, <1>12, <1>13, MRelease
<1>15. CallOf(z, r, Task)
  <2>1. StaticOf(z, Task) /\ Task \in SUBSET Task /\ Task \ {} \subseteq Task
    BY <1>12 DEF CallOf
  <2> QED BY <1>6, <1>12, <1>13, <2>1, ReleaseCall
<1> HIDE <1>6
<1>16. Call(k, r)
  <2>1. CallOf(k, r, Task)
    BY <1>12, <1>15, CallTrans
  <2> QED BY <2>1, StaticCases DEF CallOf, Call
<1>17. IInv(k')
  BY <1>1, <1>8, <1>16, CallTaskLeave
<1> QED BY <1>8, <1>14, <1>17, MKeeps DEF MutexOK

(* ini_mtx of a registered mutex. *)
LEMMA MInitMtx ==
  ASSUME IInv(k), MutexOK(k), NEW m \in Wobj, mtx_exists(k, m), ini_mtx(m)
  PROVE  IInv(k') /\ MutexOK(k')
<1>1. Static(k) /\ k.kerflg /\ k.excpt_nest_count = 0
  BY TaskContext DEF ini_mtx, CHECK_TSKCTX_UNL
<1>2. PICK j : j = init_wait_queue(k, m)
  OBVIOUS
<1>3. MInv(j, {}, {}, {})
  BY <1>1, <1>2, InitWait DEF MutexOK
<1>4. SameMtx(k, j, {"wait_queue", "tstat"})
  BY <1>1, <1>2, InitWait DEF MutexOK
<1>5. CallOf(k, j, Task)
  BY <1>1, <1>2, InitWait DEF MutexOK
<1>6. j.wait_queue[m] = <<>>
  BY <1>1, <1>2, InitWait DEF MutexOK
<1>7. MutexOK(j) /\ Static(j) /\ MtxFields \subseteq DOMAIN j
  BY <1>3, <1>5, StaticCases DEF MutexOK, MInv, MtxType, CallOf
<1>8. /\ j.p_loctsk = k.p_loctsk /\ j.ceilpri = k.ceilpri
      /\ MTX_CEILING(j, m) = MTX_CEILING(k, m)
  BY <1>4 DEF SameMtx, MtxFields, MTX_CEILING
<1>9. CASE k.p_loctsk[m] = NULL
  <2>1. k' = t_leave(j)
    BY <1>2, <1>9 DEF ini_mtx
  <2>2. Call(k, j)
    BY <1>5, StaticCases DEF CallOf, Call
  <2> HIDE <1>2
  <2>3. IInv(k')
    BY <1>1, <2>1, <2>2, CallTaskLeave
  <2> QED BY <1>7, <2>1, <2>3, MKeeps
<1>10. CASE k.p_loctsk[m] # NULL
  <2>1. PICK t \in Task : t = k.p_loctsk[m]
    BY <1>10 DEF MutexOK, MInv, MtxType
  <2>2. Locks(j, t, m)
    BY <1>8, <2>1 DEF Locks
  <2>3. PICK q : q = queue_delete(j.mutex_queue[t], m)
    OBVIOUS
  <2>4. PICK y : y = [j EXCEPT !.mutex_queue[t] = q, !.p_loctsk[m] = NULL]
    OBVIOUS
  <2>5. PICK z : z = IF MTX_CEILING(j, m) THEN mutex_drop_priority(y, t, j.ceilpri[m]) ELSE y
    OBVIOUS
  <2>6. k' = t_leave(z)
    <3>1. y = [j EXCEPT !.mutex_queue[t] = queue_delete(@, m), !.p_loctsk[m] = NULL]
      BY <1>7, <2>3, <2>4 DEF MtxFields
    <3>2. z = IF MTX_CEILING(k, m) THEN mutex_drop_priority(y, t, k.ceilpri[m]) ELSE y
      BY <1>8, <2>5
    <3> HIDE <2>3, <2>4, <2>5
    <3> QED BY <1>2, <1>10, <2>1, <3>1, <3>2 DEF ini_mtx
  <2> HIDE <1>2
  <2>7. /\ q \in Seq(Wobj) /\ Distinct(q)
        /\ \A n \in Wobj : In(q, n) <=> In(j.mutex_queue[t], n) /\ n # m
    BY ONLY m \in Wobj, t \in Task, <1>7, <2>2, <2>3, QueueWithout
  <2>8. Frame(j, y, MtxOnly)
    BY <2>4 DEF Frame, MtxOnly
  <2>9. Unlinks(j, y, t, m, q, {})
    <3>1. /\ SameMtx(j, y, {"p_loctsk", "mutex_queue"})
          /\ y.p_loctsk = [j.p_loctsk EXCEPT ![m] = NULL]
          /\ y.mutex_queue = [j.mutex_queue EXCEPT ![t] = q]
      BY <1>7, <2>4 DEF SameMtx, MtxFields
    <3> QED BY <1>6, <2>7, <3>1 DEF Unlinks
  <2> HIDE <2>3, <2>4
  <2>10. MInv(z, {}, {}, {}) /\ CallOf(j, z, Task)
    BY ONLY m \in Wobj, t \in Task, <1>7, <2>2, <2>5, <2>8, <2>9, MUnlinkDrop
  <2> HIDE <2>5
  <2>11. Call(k, z)
    <3>1. CallOf(k, z, Task)
      BY <1>5, <2>10, CallTrans
    <3> QED BY <3>1, StaticCases DEF CallOf, Call
  <2>12. IInv(k')
    BY <1>1, <2>6, <2>11, CallTaskLeave
  <2> QED BY <2>6, <2>10, <2>12, MKeeps DEF MutexOK
<1> QED BY <1>9, <1>10

(* The mutex m, which nobody holds, gets the attribute atr and the ceiling *)
(* c, and the free list becomes F.                                         *)
Retyped(j, r, m, atr, c, F) ==
  /\ SameMtx(j, r, {"wobjatr", "ceilpri", "free_mtxcb"})
  /\ r.wobjatr = [j.wobjatr EXCEPT ![m] = atr] /\ r.ceilpri = [j.ceilpri EXCEPT ![m] = c]
  /\ r.free_mtxcb = F
  /\ atr \in {"TA_NULL", "TA_TPRI", "TA_CEILING", "TA_NOEXS"} /\ c \in 0 .. TNUM_TPRI
  /\ F \in Seq(Wobj) /\ Distinct(F)
  /\ \A n \in Wobj : In(F, n) => r.wobjatr[n] = "TA_NOEXS"

(* Creation and deletion touch no queue of tasks or of locked mutexes. *)
LEMMA MRetyped ==
  ASSUME NEW j, MutexOK(j), NEW m \in Wobj, j.p_loctsk[m] = NULL,
         NEW r, NEW atr, NEW c, NEW F, Retyped(j, r, m, atr, c, F)
  PROVE  MutexOK(r)
<1>1. /\ MtxType(j) /\ OwnersOK(j, {}) /\ QueuesOK(j, {}) /\ CeilOK(j)
      /\ \A u \in Task : KindOK(j.tstat[u], j.p_wobjcb[u])
      /\ \A u \in Task : PriOK(j, u)
  BY DEF MutexOK, MInv
<1>2. /\ r.priority = j.priority /\ r.bpriority = j.bpriority /\ r.tstat = j.tstat
      /\ r.mutex_queue = j.mutex_queue /\ r.p_wobjcb = j.p_wobjcb
      /\ r.wait_queue = j.wait_queue /\ r.p_loctsk = j.p_loctsk /\ r.undef = j.undef
      /\ MtxFields \subseteq DOMAIN r
  BY DEF Retyped, SameMtx, MtxFields
<1>3. /\ r.wobjatr = [j.wobjatr EXCEPT ![m] = atr] /\ r.ceilpri = [j.ceilpri EXCEPT ![m] = c]
      /\ r.free_mtxcb = F
      /\ atr \in {"TA_NULL", "TA_TPRI", "TA_CEILING", "TA_NOEXS"} /\ c \in 0 .. TNUM_TPRI
      /\ F \in Seq(Wobj) /\ Distinct(F)
      /\ \A n \in Wobj : In(F, n) => r.wobjatr[n] = "TA_NOEXS"
  BY DEF Retyped
<1>4. \A n \in Wobj \ {m} : /\ r.wobjatr[n] = j.wobjatr[n] /\ r.ceilpri[n] = j.ceilpri[n]
                            /\ MTX_CEILING(r, n) = MTX_CEILING(j, n)
                            /\ TA_TPRI(r, n) = TA_TPRI(j, n)
  BY <1>1, <1>3 DEF MtxType, MTX_CEILING, TA_TPRI
<1>5. MtxType(r)
  <2>1. /\ r.wobjatr \in [Wobj -> {"TA_NULL", "TA_TPRI", "TA_CEILING", "TA_NOEXS"}]
        /\ r.ceilpri \in [Wobj -> 0 .. TNUM_TPRI]
    BY <1>1, <1>3 DEF MtxType
  <2> QED BY <1>1, <1>2, <1>3, <2>1 DEF MtxType
<1>6. /\ \A u \in Task : ~In(j.mutex_queue[u], m) /\ j.p_loctsk[m] # u
      /\ j.wait_queue[m] = <<>>
  BY <1>1, NullAssumption DEF OwnersOK, QueuesOK
<1>7. \A x : ~In(j.wait_queue[m], x) /\ Ordered(j.wait_queue[m], x)
  BY <1>6 DEF In, Ordered
<1>8. OwnersOK(r, {})
  <2>1. ASSUME NEW n \in Wobj, r.p_loctsk[n] # NULL
        PROVE  r.wobjatr[n] # "TA_NOEXS" /\ r.tstat[r.p_loctsk[n]] # {}
    <3>1. n # m
      BY <1>2, <2>1
    <3> QED BY <1>1, <1>2, <1>4, <2>1, <3>1 DEF OwnersOK
  <2> QED BY <1>1, <1>2, <2>1 DEF OwnersOK
<1>9. QueuesOK(r, {})
  <2>1. ASSUME NEW n \in Wobj, TA_TPRI(r, n)
        PROVE  Ordered(r.wait_queue[n], r.priority)
    <3>1. CASE n = m
      BY <1>2, <1>7, <3>1
    <3>2. CASE n # m
      BY <1>1, <1>2, <1>4, <2>1, <3>2 DEF QueuesOK
    <3> QED BY <3>1, <3>2
  <2> QED BY <1>1, <1>2, <2>1 DEF QueuesOK
<1>10. CeilOK(r)
  <2> SUFFICES ASSUME NEW u \in Task, NEW n \in Wobj, MTX_CEILING(r, n),
                      j.p_loctsk[n] = u \/ In(j.wait_queue[n], u)
               PROVE  r.ceilpri[n] <= j.bpriority[u]
    BY <1>2 DEF CeilOK
  <2>1. n # m
    BY <1>6, <1>7
  <2> QED BY <1>1, <1>4, <2>1 DEF CeilOK
<1>11. \A u \in Task : PriOK(r, u)
  <2> SUFFICES ASSUME NEW u \in Task PROVE PriOK(r, u)
    OBVIOUS
  <2>1. PriIs(j, u, j.priority[u])
    BY <1>1 DEF PriOK
  <2>2. \A n \in Wobj : Ceiled(r, u, n) <=> Ceiled(j, u, n)
    BY <1>2, <1>4, <1>6 DEF Ceiled
  <2>3. \A n \in Wobj : Ceiled(j, u, n) => r.ceilpri[n] = j.ceilpri[n]
    BY <1>4, <1>6 DEF Ceiled
  <2> QED BY <1>2, <2>1, <2>2, <2>3 DEF PriOK, PriIs
<1>12. FreeMtxOK(r)
  BY <1>3 DEF FreeMtxOK
<1>13. \A u \in Task : KindOK(r.tstat[u], r.p_wobjcb[u])
  BY <1>1, <1>2
<1> QED BY <1>5, <1>8, <1>9, <1>10, <1>11, <1>12, <1>13 DEF MutexOK, MInv

(* del_mtx of a mutex that is not locked. *)
LEMMA MDelete ==
  ASSUME IInv(k), MutexOK(k), NEW m \in Wobj, k.p_loctsk[m] = NULL, del_mtx(m)
  PROVE  IInv(k') /\ MutexOK(k')
<1>1. Static(k) /\ k.kerflg /\ k.excpt_nest_count = 0
  BY TaskContext DEF del_mtx, CHECK_TSKCTX_UNL
<1>2. PICK j : j = init_wait_queue(k, m)
  OBVIOUS
<1>3. MInv(j, {}, {}, {})
  BY <1>1, <1>2, InitWait DEF MutexOK
<1>4. SameMtx(k, j, {"wait_queue", "tstat"})
  BY <1>1, <1>2, InitWait DEF MutexOK
<1>5. CallOf(k, j, Task)
  BY <1>1, <1>2, InitWait DEF MutexOK
<1>6. /\ j.p_loctsk[m] = NULL /\ j.wobjatr[m] # "TA_NOEXS"
      /\ MtxFields \subseteq DOMAIN j
  BY <1>4 DEF SameMtx, MtxFields, del_mtx, mtx_exists
<1>7. PICK F : F = Append(j.free_mtxcb, m)
  OBVIOUS
<1>8. PICK y : y = [j EXCEPT !.wobjatr[m] = "TA_NOEXS", !.free_mtxcb = F]
  OBVIOUS
<1>9. k' = t_leave(y)
  <2>1. y = [j EXCEPT !.wobjatr[m] = "TA_NOEXS", !.free_mtxcb = Append(@, m)]
    BY <1>6, <1>7, <1>8 DEF MtxFields
  <2> HIDE <1>7, <1>8
  <2> QED BY <1>2, <2>1 DEF del_mtx
<1> HIDE <1>2
<1>10. F \in Seq(Wobj) /\ Distinct(F) /\ \A n \in Wobj : In(F, n) <=> In(j.free_mtxcb, n) \/ n = m
  <2>1. PICK a : a = j.free_mtxcb
    OBVIOUS
  <2>2. a \in Seq(Wobj) /\ Distinct(a) /\ ~In(a, m)
    BY <1>3, <1>6, <2>1 DEF MInv, MtxType, FreeMtxOK
  <2>3. F \in {queue_insert_prev(a, m), queue_insert_next(a, m)}
    BY <1>7, <2>1 DEF queue_insert_prev
  <2>4. F \in Seq(Wobj) /\ Distinct(F) /\ \A n \in Wobj : In(F, n) <=> In(a, n) \/ n = m
    BY ONLY m \in Wobj, <2>2, <2>3, MutexLinked
  <2> QED BY <2>1, <2>4
<1>11. /\ SameMtx(j, y, {"wobjatr", "free_mtxcb"}) /\ y.free_mtxcb = F
       /\ y.wobjatr = [j.wobjatr EXCEPT ![m] = "TA_NOEXS"] /\ y.ceilpri = j.ceilpri
  BY <1>6, <1>8 DEF SameMtx, MtxFields
<1>12. Retyped(j, y, m, "TA_NOEXS", j.ceilpri[m], F)
  <2>1. /\ j.ceilpri[m] \in 0 .. TNUM_TPRI /\ y.ceilpri = [j.ceilpri EXCEPT ![m] = j.ceilpri[m]]
    BY <1>3, <1>11 DEF MInv, MtxType
  <2>2. \A n \in Wobj : In(F, n) => y.wobjatr[n] = "TA_NOEXS"
    <3>1. \A n \in Wobj : In(j.free_mtxcb, n) => j.wobjatr[n] = "TA_NOEXS"
      BY <1>3 DEF MInv, FreeMtxOK
    <3>2. y.wobjatr[m] = "TA_NOEXS" /\ \A n \in Wobj \ {m} : y.wobjatr[n] = j.wobjatr[n]
      BY <1>3, <1>11 DEF MInv, MtxType
    <3> QED BY <1>10, <3>1, <3>2
  <2>3. SameMtx(j, y, {"wobjatr", "ceilpri", "free_mtxcb"})
    BY <1>11 DEF SameMtx
  <2> QED BY <1>10, <1>11, <2>1, <2>2, <2>3 DEF Retyped
<1>13. CallOf(j, y, Task)
  <2>1. Frame(j, y, MtxOnly)
    BY <1>8 DEF Frame, MtxOnly
  <2>2. StaticOf(j, Task)
    BY <1>5 DEF CallOf
  <2> QED BY <2>1, <2>2, MtxFrame
<1> HIDE <1>7, <1>8
<1>14. MutexOK(y)
  BY <1>3, <1>6, <1>12, MRetyped DEF MutexOK
<1>15. Call(k, y)
  <2>1. CallOf(k, y, Task)
    BY <1>5, <1>13, CallTrans
  <2> QED BY <2>1, StaticCases DEF CallOf, Call
<1>16. IInv(k')
  BY <1>1, <1>9, <1>15, CallTaskLeave
<1> QED BY <1>9, <1>14, <1>16, MKeeps

(* acre_mtx takes the head of the free list. *)
LEMMA MCreateMtx ==
  ASSUME IInv(k), MutexOK(k), NEW atr \in {"TA_NULL", "TA_TPRI", "TA_CEILING"},
         NEW p \in 1 .. TNUM_TPRI, acre_mtx(atr, p)
  PROVE  IInv(k') /\ MutexOK(k')
<1>1. Static(k) /\ k.kerflg /\ k.excpt_nest_count = 0 /\ k.free_mtxcb # <<>>
  BY TaskContext DEF acre_mtx, CHECK_TSKCTX_UNL
<1>2. /\ MtxType(k) /\ OwnersOK(k, {}) /\ QueuesOK(k, {}) /\ FreeMtxOK(k)
      /\ MtxFields \subseteq DOMAIN k
  BY DEF MutexOK, MInv, MtxType
<1>3. PICK a : a = k.free_mtxcb
  OBVIOUS
<1>4. a \in Seq(Wobj) /\ Distinct(a) /\ a # <<>>
  BY <1>1, <1>2, <1>3 DEF MtxType, FreeMtxOK
<1>5. PICK m, F : m = Head(a) /\ F = Tail(a)
  OBVIOUS
<1>6. Head(a) \in Wobj /\ In(a, Head(a)) /\ Tail(a) \in Seq(Wobj) /\ Distinct(Tail(a))
  BY ONLY <1>4, HeadTaken
<1>7. \A x \in Wobj : In(Tail(a), x) <=> In(a, x) /\ x # Head(a)
  BY ONLY <1>4, HeadTaken
<1>8. /\ m \in Wobj /\ In(a, m) /\ F \in Seq(Wobj) /\ Distinct(F)
      /\ \A x \in Wobj : In(F, x) <=> In(a, x) /\ x # m
  BY <1>5, <1>6, <1>7
<1>9. PICK y : y = [k EXCEPT !.free_mtxcb = F, !.wobjatr[m] = atr, !.ceilpri[m] = p,
                             !.wait_queue[m] = <<>>, !.p_loctsk[m] = NULL]
  OBVIOUS
<1>10. k' = y
  <2>1. y = [k EXCEPT !.free_mtxcb = Tail(@), !.wobjatr[m] = atr, !.ceilpri[m] = p,
                      !.wait_queue[m] = <<>>, !.p_loctsk[m] = NULL]
    BY <1>2, <1>3, <1>5, <1>9 DEF MtxFields
  <2> HIDE <1>9
  <2> QED BY <1>3, <1>5, <2>1 DEF acre_mtx
<1> HIDE <1>5
<1>11. k.wobjatr[m] = "TA_NOEXS" /\ k.p_loctsk[m] = NULL /\ k.wait_queue[m] = <<>>
  BY <1>2, <1>3, <1>8 DEF FreeMtxOK, OwnersOK, QueuesOK
<1>12. /\ SameMtx(k, y, {"free_mtxcb", "wobjatr", "ceilpri", "wait_queue", "p_loctsk"})
       /\ y.free_mtxcb = F /\ y.wobjatr = [k.wobjatr EXCEPT ![m] = atr]
       /\ y.ceilpri = [k.ceilpri EXCEPT ![m] = p]
       /\ y.wait_queue = [k.wait_queue EXCEPT ![m] = <<>>]
       /\ y.p_loctsk = [k.p_loctsk EXCEPT ![m] = NULL]
  BY <1>2, <1>9 DEF SameMtx, MtxFields
<1>13. y.wait_queue = k.wait_queue /\ y.p_loctsk = k.p_loctsk
  <2>1. \A f : \A S, T : f \in [S -> T] => \A x \in S : [f EXCEPT ![x] = f[x]] = f
    OBVIOUS
  <2>2. k.wait_queue \in [Wobj -> Seq(Task)] /\ k.p_loctsk \in [Wobj -> Task \cup {NULL}]
    BY <1>2 DEF MtxType
  <2>3. /\ y.wait_queue = [k.wait_queue EXCEPT ![m] = k.wait_queue[m]]
        /\ y.p_loctsk = [k.p_loctsk EXCEPT ![m] = k.p_loctsk[m]]
    BY <1>11, <1>12
  <2> QED BY <1>8, <2>1, <2>2, <2>3
<1>14. Frame(k, y, MtxOnly)
  BY <1>9 DEF Frame, MtxOnly
<1> HIDE <1>9
<1>15. Retyped(k, y, m, atr, p, F)
  <2>1. SameMtx(k, y, {"wobjatr", "ceilpri", "free_mtxcb"})
    BY <1>12, <1>13 DEF SameMtx, MtxFields
  <2>2. \A n \in Wobj : In(F, n) => y.wobjatr[n] = "TA_NOEXS"
    <3>1. \A n \in Wobj : In(k.free_mtxcb, n) => k.wobjatr[n] = "TA_NOEXS"
      BY <1>2 DEF FreeMtxOK
    <3>2. \A n \in Wobj \ {m} : y.wobjatr[n] = k.wobjatr[n]
      BY <1>2, <1>12 DEF MtxType
    <3> QED BY <1>3, <1>8, <3>1, <3>2
  <2>3. p \in 0 .. TNUM_TPRI
    BY TnumTpriAssumption
  <2> QED BY <1>8, <1>12, <2>1, <2>2, <2>3 DEF Retyped
<1>16. MutexOK(y)
  BY <1>8, <1>11, <1>15, MRetyped
<1>17. IInv(y)
  <2>1. StaticOf(k, Task)
    BY <1>1, StaticCases
  <2>2. CallOf(k, y, Task)
    BY <1>14, <2>1, MtxFrame
  <2>3. Call(k, y)
    BY <2>2, StaticCases DEF CallOf, Call
  <2>4. y.dspreq = k.dspreq
    BY <1>1, <1>14 DEF Frame, MtxOnly, Static, Data, KernelFields
  <2> QED BY <1>1, <2>3, <2>4, CallReturn
<1> QED BY <1>10, <1>16, <1>17

-----------------------------------------------------------------------------
(***************************************************************************)
(* The inductive invariant and the theorems.                               *)
(***************************************************************************)

(* initialize_mutex: no mutex is locked and those of amtx are free. *)
LEMMA InitMutexOK ==
  ASSUME InitMutex
  PROVE  IInv(k) /\ MutexOK(k)
<1>1. /\ KernelFields \subseteq DOMAIN k /\ MtxFields \subseteq DOMAIN k
      /\ \A f \in KernelFields \ {"wobjatr"} : k[f] = KInit[f]
  BY DEF InitMutex, initialize_mutex, KInit, KernelFields, MtxFields
<1>2. IInv(k)
  BY <1>1, InitFieldsIInv DEF InitFields
<1>3. /\ k.tstat = [t \in Task |-> {}] /\ k.priority = tinib_pri /\ k.bpriority = tinib_pri
      /\ k.mutex_queue = [t \in Task |-> <<>>] /\ k.p_wobjcb = [t \in Task |-> NULL]
      /\ k.wait_queue = [m \in Wobj |-> <<>>]
  BY <1>1 DEF KInit, KernelFields, TS_DORMANT
<1>4. /\ k.wobjatr = [m \in Wobj |-> IF m \in Range(amtx) THEN "TA_NOEXS" ELSE mtxatr[m]]
      /\ k.p_loctsk = [m \in Wobj |-> NULL] /\ k.ceilpri = mtxceil
      /\ k.free_mtxcb = amtx /\ k.undef = FALSE
  BY DEF InitMutex, initialize_mutex
<1>5. MtxType(k)
  <2>1. /\ k.tstat \in [Task -> SUBSET TstatFlag]
        /\ k.priority \in [Task -> TPRI] /\ k.bpriority \in [Task -> TPRI]
    BY <1>3, TableAssumption
  <2>2. /\ k.mutex_queue \in [Task -> Seq(Wobj)] /\ k.p_wobjcb \in [Task -> Wobj \cup {NULL}]
        /\ k.wait_queue \in [Wobj -> Seq(Task)]
    <3>1. <<>> \in Seq(Wobj) /\ <<>> \in Seq(Task)
      OBVIOUS
    <3> QED BY <1>3, <3>1
  <2>3. k.wobjatr \in [Wobj -> {"TA_NULL", "TA_TPRI", "TA_CEILING", "TA_NOEXS"}]
    <3>1. \A m \in Wobj : mtxatr[m] \in {"TA_NULL", "TA_TPRI", "TA_CEILING"}
      BY MutexAssumption
    <3> QED BY <1>4, <3>1
  <2>4. k.ceilpri \in [Wobj -> 0 .. TNUM_TPRI]
    <3>1. TPRI \subseteq 0 .. TNUM_TPRI
      BY TnumTpriAssumption DEF TPRI
    <3>2. mtxceil \in [Wobj -> TPRI]
      BY MutexAssumption
    <3> QED BY <1>4, <3>1, <3>2
  <2>5. k.p_loctsk \in [Wobj -> Task \cup {NULL}] /\ k.free_mtxcb \in Seq(Wobj)
    BY <1>4, MutexAssumption
  <2> QED BY <1>1, <1>4, <2>1, <2>2, <2>3, <2>4, <2>5 DEF MtxType
<1>6. \A x : ~In(<<>>, x) /\ Ordered(<<>>, x)
  BY DEF In, Ordered
<1>7. Distinct(<<>>)
  BY DEF Distinct
<1>8. OwnersOK(k, {})
  BY <1>3, <1>4, <1>6, <1>7, NullAssumption DEF OwnersOK
<1>9. QueuesOK(k, {})
  BY <1>3, <1>4, <1>6, <1>7 DEF QueuesOK
<1>10. \A t \in Task : KindOK(k.tstat[t], k.p_wobjcb[t])
  BY <1>3 DEF KindOK
<1>11. CeilOK(k)
  BY <1>3, <1>4, <1>6, NullAssumption DEF CeilOK
<1>12. \A t \in Task : PriOK(k, t)
  <2> SUFFICES ASSUME NEW t \in Task PROVE PriOK(k, t)
    OBVIOUS
  <2>1. k.priority[t] = k.bpriority[t] /\ k.bpriority[t] \in TPRI
    BY <1>3, <1>5 DEF MtxType
  <2>2. \A m \in Wobj : ~Ceiled(k, t, m)
    BY <1>3, <1>6 DEF Ceiled
  <2> QED BY <2>1, <2>2 DEF PriOK, PriIs, TPRI
<1>13. FreeMtxOK(k)
  <2>1. Distinct(amtx)
    BY MutexAssumption DEF Distinct
  <2>2. \A m \in Wobj : In(amtx, m) => m \in Range(amtx)
    BY MutexAssumption, RangeIn
  <2> QED BY <1>4, <2>1, <2>2 DEF FreeMtxOK
<1> QED BY <1>2, <1>5, <1>8, <1>9, <1>10, <1>11, <1>12, <1>13 DEF MutexOK, MInv

(* Every step preserves the invariant: one case per action. *)
LEMMA NextMutexOK ==
  ASSUME IInv(k), MutexOK(k), [NextOrderly]_k
  PROVE  IInv(k') /\ MutexOK(k')
<1>1. CASE k' = k
  BY <1>1
<1>2. CASE Startup
  BY <1>2, InitializeTask, StartDispatch, MInitTask, MFrameCalls DEF Startup
<1>3. CASE TaskManage
  <2>1. CASE \E p \in TPRI, b \in BOOLEAN : acre_tsk(p, b)
    BY <2>1, Create, MCreate
  <2>2. ASSUME NEW t \in Task, ter_tsk(t)
        PROVE  IInv(k') /\ MutexOK(k')
    BY <2>2, MTerminate
  <2>3. ASSUME NEW t \in Task, act_tsk(t) \/ iact_tsk(t)
        PROVE  IInv(k') /\ MutexOK(k')
    BY <2>3, SimpleCalls, MSimpleCalls
  <2>4. ASSUME NEW t \in Task, del_tsk(t) \/ can_act(t) \/ chg_pri_ini(t)
        PROVE  IInv(k') /\ MutexOK(k')
    BY <2>4, Delete, MinorCalls, MFrameCalls
  <2>5. CASE (\E t \in Task, p \in TPRI : chg_pri(t, p)) \/ chg_pri_ini_lock
    BY <2>5, MChgPri
  <2>6. CASE ext_tsk
    BY <2>6, MExit
  <2> QED BY <1>3, <2>1, <2>2, <2>3, <2>4, <2>5, <2>6 DEF TaskManage
<1>4. CASE TaskSync
  <2>1. CASE (\E b \in BOOLEAN : slp_tsk(b)) \/ dly_tsk
    BY <2>1, Waiting, MSleep
  <2>2. ASSUME NEW t \in Task, wup_tsk(t) \/ iwup_tsk(t) \/ rel_wai(t) \/ irel_wai(t)
        PROVE  IInv(k') /\ MutexOK(k')
    BY <2>2, SimpleCalls, MSimpleCalls
  <2>3. ASSUME NEW t \in Task, can_wup(t)
        PROVE  IInv(k') /\ MutexOK(k')
    BY <2>3, MinorCalls, MFrameCalls
  <2>4. ASSUME NEW t \in Task, sus_tsk(t) \/ rsm_tsk(t)
        PROVE  IInv(k') /\ MutexOK(k')
    BY <2>4, Suspend, Resume, MSuspend
  <2> QED BY <1>4, <2>1, <2>2, <2>3, <2>4 DEF TaskSync
<1>5. CASE SysManage
  <2>1. CASE \E p \in TPRI : rot_rdq(p) \/ irot_rdq(p)
    BY <2>1, RotateCalls, MSysCalls
  <2>2. CASE loc_cpu \/ unl_cpu \/ iloc_cpu \/ iunl_cpu
    BY <2>2, LockCalls, MFrameCalls
  <2>3. CASE dis_dsp
    BY <2>3, DispatchCalls, MFrameCalls
  <2>4. CASE ena_dsp \/ \E b \in BOOLEAN : chg_ipm(b)
    BY <2>4, DispatchCalls, MSysCalls
  <2> QED BY <1>5, <2>1, <2>2, <2>3, <2>4 DEF SysManage
<1>6. CASE Processor
  <2>1. ASSUME NEW t \in Task, signal_time(t)
        PROVE  IInv(k') /\ MutexOK(k')
    BY <2>1, SignalTime, MSignalTime
  <2>2. CASE wait_return \/ int_entry \/ ret_int \/ idle_loop
    <3>1. IInv(k')
      BY <2>2, WaitReturn, IntEntry, IntReturn, IdleLoop
    <3>2. MutexOK(k')
      BY <2>2, MFrameCalls
    <3> QED BY <3>1, <3>2
  <2> QED BY <1>6, <2>1, <2>2 DEF Processor
<1>7. CASE OrderlyCalls
  <2>1. ASSUME NEW m \in Wobj, ploc_mtx(m) \/ \E b \in BOOLEAN : loc_mtx(m, b)
        PROVE  IInv(k') /\ MutexOK(k')
    BY <2>1, MLockCalls
  <2>2. ASSUME NEW m \in Wobj, unl_mtx(m)
        PROVE  IInv(k') /\ MutexOK(k')
    BY <2>2, MUnlock
  <2>3. ASSUME NEW m \in Wobj, mtx_exists(k, m) /\ ini_mtx(m)
        PROVE  IInv(k') /\ MutexOK(k')
    BY <2>3, MInitMtx
  <2>4. ASSUME NEW m \in Wobj, k.p_loctsk[m] = NULL /\ del_mtx(m)
        PROVE  IInv(k') /\ MutexOK(k')
    BY <2>4, MDelete
  <2>5. ASSUME NEW atr \in {"TA_NULL", "TA_TPRI", "TA_CEILING"}, NEW p \in 1 .. TNUM_TPRI,
               acre_mtx(atr, p)
        PROVE  IInv(k') /\ MutexOK(k')
    BY <2>5, MCreateMtx
  <2> QED BY <1>7, <2>1, <2>2, <2>3, <2>4, <2>5 DEF OrderlyCalls
<1> QED BY <1>1, <1>2, <1>3, <1>4, <1>5, <1>6, <1>7 DEF NextOrderly

(* The tables of the task part and those of the mutexes, in every state of *)
(* a program that deletes no locked mutex and initializes only registered  *)
(* ones.                                                                   *)
THEOREM MutexInvariant == SpecOrderly => [](IInv(k) /\ MutexOK(k))
<1>1. InitMutex => IInv(k) /\ MutexOK(k)
  BY InitMutexOK
<1>2. (IInv(k) /\ MutexOK(k)) /\ [NextOrderly]_k => (IInv(k) /\ MutexOK(k))'
  BY NextMutexOK
<1> QED BY <1>1, <1>2, PTL DEF SpecOrderly

(* Whatever times out, is released, terminated or passed on, a mutex is in *)
(* the queue of the task that p_loctsk names, once, and in no other.       *)
THEOREM MutexQueues == SpecOrderly => []MutexQueueOK
<1>1. IInv(k) /\ MutexOK(k) => MutexQueueOK
  <2> SUFFICES ASSUME MutexOK(k) PROVE MutexQueueOK
    OBVIOUS
  <2>1. MtxType(k) /\ OwnersOK(k, {})
    BY DEF MutexOK, MInv
  <2>2. ASSUME NEW t \in Task
        PROVE  /\ \A m \in Wobj : m \in Range(k.mutex_queue[t]) <=> k.p_loctsk[m] = t
               /\ IsInjective(k.mutex_queue[t])
    <3>1. PICK q \in Seq(Wobj) : q = k.mutex_queue[t]
      BY <2>1 DEF MtxType
    <3>2. Distinct(q) /\ \A m \in Wobj : In(q, m) <=> k.p_loctsk[m] = t
      BY <2>1, <3>1 DEF OwnersOK
    <3>3. \A m \in Wobj : m \in Range(q) <=> In(q, m)
      BY RangeIn
    <3>4. IsInjective(q)
      BY <3>2 DEF IsInjective, Distinct
    <3> QED BY <3>1, <3>2, <3>3, <3>4
  <2> QED BY <2>2 DEF MutexQueueOK
<1> QED BY <1>1, MutexInvariant, PTL

(* No task waits for a mutex that is free, and a holder is not dormant. *)
THEOREM MutexNoOrphan == SpecOrderly => []NoOrphanWaiter
<1>1. IInv(k) /\ MutexOK(k) => NoOrphanWaiter
  BY DEF MutexOK, MInv, OwnersOK, QueuesOK, NoOrphanWaiter, TSTAT_DORMANT, TS_DORMANT
<1> QED BY <1>1, MutexInvariant, PTL

(* Every active task has the priority that mutex_calc_priority would       *)
(* compute, although the kernel recomputes it only when a mutex of that    *)
(* ceiling is released or the base priority changes.                       *)
THEOREM MutexPriority == SpecOrderly => []PriorityOK
<1>1. IInv(k) /\ MutexOK(k) => PriorityOK
  <2> SUFFICES ASSUME MutexOK(k), NEW t \in Task
               PROVE  k.priority[t] = mutex_calc_priority(k, t)
    BY DEF PriorityOK
  <2>1. PICK p : p = mutex_calc_priority(k, t)
    OBVIOUS
  <2>2. MtxType(k) /\ PriIs(k, t, k.priority[t])
    BY DEF MutexOK, MInv, PriOK
  <2>3. \A n \in TPRI : PriIs(k, t, n) => n = p
    BY <2>1, <2>2, CalcPriority
  <2>4. k.priority[t] \in TPRI
    BY <2>2 DEF MtxType
  <2> QED BY <2>1, <2>2, <2>3, <2>4
<1> QED BY <1>1, MutexInvariant, PTL

(* No holder of a ceiling mutex and no task that waits for one has a base  *)
(* priority above the ceiling, also after chg_pri.                         *)
THEOREM MutexCeiling == SpecOrderly => []CeilingOK
<1>1. IInv(k) /\ MutexOK(k) => CeilingOK
  <2> SUFFICES ASSUME MutexOK(k), NEW m \in Wobj, k.wobjatr[m] = "TA_CEILING", NEW t \in Task,
                      k.p_loctsk[m] = t \/ t \in Range(k.wait_queue[m])
               PROVE  k.bpriority[t] >= k.ceilpri[m]
    BY DEF CeilingOK
  <2>1. MtxType(k) /\ CeilOK(k)
    BY DEF MutexOK, MInv
  <2>2. PICK q \in Seq(Task) : q = k.wait_queue[m]
    BY <2>1 DEF MtxType
  <2>3. t \in Range(q) => In(q, t)
    BY RangeIn
  <2>4. MTX_CEILING(k, m)
    BY DEF MTX_CEILING
  <2>5. k.ceilpri[m] <= k.bpriority[t]
    BY <2>1, <2>2, <2>3, <2>4 DEF CeilOK
  <2>6. k.ceilpri[m] \in Int /\ k.bpriority[t] \in Int
    BY <2>1 DEF MtxType, TPRI
  <2> QED BY <2>5, <2>6
<1> QED BY <1>1, MutexInvariant, PTL

(* The wait queue of a mutex holds exactly the tasks that wait for it,     *)
(* each once, in the order of their current priorities if it has that      *)
(* attribute, also while mutexes raise and drop those priorities.          *)
THEOREM MutexWaitQueue == SpecOrderly => []WaitQueueOK
<1>1. IInv(k) /\ MutexOK(k) => WaitQueueOK
  <2> SUFFICES ASSUME MutexOK(k), NEW m \in Wobj, NEW q, q = k.wait_queue[m]
               PROVE  /\ \A t \in Task : t \in Range(q)
                           <=> TSTAT_WAIT(k, t, "MTX") /\ k.p_wobjcb[t] = m
                      /\ IsInjective(q)
                      /\ TA_TPRI(k, m) => \A i, j \in 1 .. Len(q) :
                              i < j => k.priority[q[i]] <= k.priority[q[j]]
    BY DEF WaitQueueOK
  <2>1. MtxType(k) /\ QueuesOK(k, {})
    BY DEF MutexOK, MInv
  <2>2. q \in Seq(Task)
    BY <2>1 DEF MtxType
  <2>3. /\ Distinct(q) /\ \A t \in Task : In(q, t) <=> "MTX" \in k.tstat[t] /\ k.p_wobjcb[t] = m
    BY <2>1 DEF QueuesOK
  <2>4. TA_TPRI(k, m) => Ordered(q, k.priority)
    BY <2>1 DEF QueuesOK
  <2>5. \A t \in Task : t \in Range(q) <=> In(q, t)
    BY <2>2, RangeIn
  <2>6. IsInjective(q)
    BY <2>2, <2>3 DEF IsInjective, Distinct
  <2>7. \A t \in Task : t \in Range(q) <=> TSTAT_WAIT(k, t, "MTX") /\ k.p_wobjcb[t] = m
    BY <2>3, <2>5 DEF TSTAT_WAIT
  <2>8. TA_TPRI(k, m) => \A i, j \in 1 .. Len(q) :
                           i < j => k.priority[q[i]] <= k.priority[q[j]]
    BY <2>4 DEF Ordered
  <2> QED BY <2>6, <2>7, <2>8
<1> QED BY <1>1, MutexInvariant, PTL

(* No queue of the kernel is corrupted by a program that keeps to the two  *)
(* rules; MCMutex_del and MCMutex_ini show that each of them is needed.    *)
THEOREM MutexNoCorruption == SpecOrderly => []NoCorruption
<1>1. IInv(k) /\ MutexOK(k) => NoCorruption
  BY DEF MutexOK, MInv, MtxType, NoCorruption
<1> QED BY <1>1, MutexInvariant, PTL

(* What Kernel_proofs shows of the kernel without mutexes holds with them: *)
(* raising and dropping priorities and passing mutexes on keep the ready   *)
(* queue in order, lose no dispatch and no time event block.               *)
THEOREM MutexKernel == SpecOrderly => [](SchedInv /\ NoLostDispatch /\ RunningOK /\ WinfoOK)
<1>1. IInv(k) => SchedInv /\ NoLostDispatch /\ RunningOK /\ WinfoOK
  BY IInvSched, IInvDispatch, IInvRunning, IInvWinfo
<1> QED BY <1>1, MutexInvariant, PTL
=============================================================================
