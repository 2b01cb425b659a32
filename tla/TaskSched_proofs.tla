-------------------------- MODULE TaskSched_proofs --------------------------
EXTENDS TaskSched, TLAPS, SequenceTheorems, WellFoundedInduction

(* The lemmas about the kernel's scheduler that hold for every number of    *)
(* tasks and of priorities: what each function of task.c does to a ready   *)
(* queue that satisfies ReadyQueueOK and SchedtskOK.                       *)

(* queue_delete takes the entry at i out and moves the later ones up. *)
LEMMA QueueDelete ==
  ASSUME NEW S, NEW q \in Seq(S), NEW i \in 1 .. Len(q),
         \A m, n \in 1 .. Len(q) : q[m] = q[n] => m = n
  PROVE  LET r == queue_delete(q, q[i])
         IN  /\ r \in Seq(S) /\ Len(r) = Len(q) - 1
             /\ \A j \in 1 .. Len(q) - 1 : r[j] = IF j < i THEN q[j] ELSE q[j + 1]
<1> DEFINE c == CHOOSE j \in 1 .. Len(q) : q[j] = q[i]
           r == [j \in 1 .. Len(q) - 1 |-> IF j < i THEN q[j] ELSE q[j + 1]]
<1>1. c = i
  OBVIOUS
<1>2. queue_delete(q, q[i]) = r
  BY <1>1 DEF queue_delete
<1>3. Len(q) \in Nat /\ Len(q) - 1 \in Nat
  OBVIOUS
<1>4. \A j \in 1 .. Len(q) - 1 : r[j] \in S
  BY <1>3
<1>5. r \in Seq(S) /\ Len(r) = Len(q) - 1
  BY <1>3, <1>4, IsASeq
<1> QED
  BY <1>2, <1>5

(* queue_insert_prev and queue_insert_next: a is q with e inserted at m.   *)
InsertedAt(q, e, m, a) ==
  /\ Len(a) = Len(q) + 1 /\ m \in 1 .. Len(q) + 1
  /\ \A i \in 1 .. Len(q) + 1 : a[i] = IF i < m THEN q[i] ELSE IF i = m THEN e ELSE q[i - 1]

(* queue_insert_prev inserts at the tail and keeps the head of a queue that *)
(* is not empty.                                                           *)
LEMMA QueueInsertPrev ==
  ASSUME NEW S, NEW q \in Seq(S), NEW e \in S
  PROVE  LET a == queue_insert_prev(q, e)
         IN  /\ a \in Seq(S) /\ a # <<>> /\ InsertedAt(q, e, Len(q) + 1, a)
             /\ Head(a) = IF q = <<>> THEN e ELSE Head(q)
<1>1. Len(q) \in Nat
  OBVIOUS
<1>2. PICK a : a = Append(q, e)
  OBVIOUS
<1>3. /\ a \in Seq(S) /\ a # <<>> /\ Len(a) = Len(q) + 1
      /\ \A i \in 1 .. Len(q) : a[i] = q[i]
      /\ a[Len(q) + 1] = e
  BY <1>2, AppendProperties
<1>4. Head(a) = IF q = <<>> THEN e ELSE Head(q)
  BY <1>2, HeadTailAppend
<1>5. InsertedAt(q, e, Len(q) + 1, a)
  BY <1>1, <1>3 DEF InsertedAt
<1> QED
  BY <1>2, <1>3, <1>4, <1>5 DEF queue_insert_prev

(* queue_insert_next inserts at the head. *)
LEMMA QueueInsertNext ==
  ASSUME NEW S, NEW q \in Seq(S), NEW e \in S
  PROVE  LET a == queue_insert_next(q, e)
         IN  a \in Seq(S) /\ a # <<>> /\ InsertedAt(q, e, 1, a) /\ Head(a) = e
<1>1. Len(q) \in Nat /\ <<e>> \in Seq(S) /\ Len(<<e>>) = 1 /\ <<e>>[1] = e
  OBVIOUS
<1>2. PICK u : u = <<e>>
  OBVIOUS
<1>3. PICK a : a = u \o q
  OBVIOUS
<1>4. /\ a \in Seq(S) /\ Len(a) = 1 + Len(q)
      /\ \A i \in 1 .. 1 + Len(q) : a[i] = IF i <= 1 THEN u[i] ELSE q[i - 1]
  BY <1>1, <1>2, <1>3, ConcatProperties
<1>5. a[1] = e /\ u[1] = e /\ 1 \in 1 .. 1 + Len(q)
  BY <1>1, <1>2, <1>4
<1>6. InsertedAt(q, e, 1, a)
  BY <1>1, <1>4, <1>5 DEF InsertedAt
<1>7. a # <<>> /\ Head(a) = e
  BY <1>1, <1>4, <1>5
<1> QED
  BY <1>2, <1>3, <1>4, <1>6, <1>7 DEF queue_insert_next

(* The least-number principle for sets of priorities. *)
LEMMA LeastPriority ==
  ASSUME NEW S \in SUBSET Nat, S # {}
  PROVE  \E p \in S : \A q \in S : p <= q
<1>1. PICK R : R = OpToRel(<, Nat)
  OBVIOUS
<1>2. IsWellFoundedOn(R, Nat)
  BY <1>1, NatLessThanWellFounded
<1>3. PICK p \in S : \A q \in S : ~(<<q, p>> \in R)
  BY <1>2, WFMin
<1>4. \A q \in S : ~(q < p)
  BY <1>1, <1>3 DEF OpToRel
<1> QED
  BY <1>4

(* The fields a function of the scheduler may change; it leaves the others *)
(* alone.                                                                  *)
ReadyFields == {"ready_queue", "ready_primap", "p_schedtsk", "dspreq"}

Frame(k, r, F) == DOMAIN r = DOMAIN k /\ \A f \in DOMAIN k \ F : r[f] = k[f]

(* What a function that changes the ready queue promises to its caller: a  *)
(* new p_schedtsk is reported, unless dispatching is disabled.             *)
Reports(k, r) ==
  /\ k.dspreq => r.dspreq
  /\ k.dspflg /\ r.p_schedtsk # k.p_schedtsk => r.dspreq
  /\ r.dspreq => k.dspreq \/ k.dspflg

(* ReadyQueueOK is about three fields only. *)
LEMMA SameReadyQueue ==
  ASSUME NEW k, NEW R, ReadyQueueOK(k, R), NEW r, r.ready_queue = k.ready_queue,
         r.ready_primap = k.ready_primap, r.priority = k.priority
  PROVE  ReadyQueueOK(r, R)
<1>1. \A p \in TPRI : \A i \in 1 .. Len(r.ready_queue[p]) :
        r.ready_queue[p][i] \in R /\ r.priority[r.ready_queue[p][i]] = p
  BY DEF ReadyQueueOK
<1>2. \A p \in TPRI : \A i, j \in 1 .. Len(r.ready_queue[p]) :
        r.ready_queue[p][i] = r.ready_queue[p][j] => i = j
  BY DEF ReadyQueueOK
<1>3. \A t \in R : \E i \in 1 .. Len(r.ready_queue[r.priority[t]]) :
        r.ready_queue[r.priority[t]][i] = t
  BY DEF ReadyQueueOK
<1>4. \A p \in TPRI : p \in r.ready_primap <=> r.ready_queue[p] # <<>>
  BY DEF ReadyQueueOK
<1> QED BY <1>1, <1>2, <1>3, <1>4 DEF ReadyQueueOK

(* A task enters the queue of its priority at any place. *)
LEMMA ReadyInsert ==
  ASSUME NEW k, SchedType(k), NEW R \in SUBSET Task, ReadyQueueOK(k, R),
         NEW t \in Task \ R, NEW pri \in TPRI, pri = k.priority[t],
         NEW a \in Seq(Task), a # <<>>, NEW m, InsertedAt(k.ready_queue[pri], t, m, a),
         NEW r, r.ready_queue = [k.ready_queue EXCEPT ![pri] = a],
         r.ready_primap = k.ready_primap \cup {pri}, r.priority = k.priority
  PROVE  ReadyQueueOK(r, R \cup {t})
<1>1. PICK q \in Seq(Task) : q = k.ready_queue[pri]
  BY DEF SchedType
<1>2. PICK n \in Nat : n = Len(q)
  BY <1>1
<1>3. /\ \A p \in TPRI \ {pri} : r.ready_queue[p] = k.ready_queue[p]
      /\ r.ready_queue[pri] = a
  BY DEF SchedType
<1>4. /\ Len(a) = n + 1 /\ m \in 1 .. n + 1
      /\ \A i \in 1 .. n + 1 : a[i] = IF i < m THEN q[i] ELSE IF i = m THEN t ELSE q[i - 1]
  BY <1>1, <1>2 DEF InsertedAt
<1>5. \A i \in 1 .. n : q[i] # t /\ q[i] \in R /\ k.priority[q[i]] = pri
  BY <1>1, <1>2 DEF ReadyQueueOK
<1>6. \A i, j \in 1 .. n : q[i] = q[j] => i = j
  BY <1>1, <1>2 DEF ReadyQueueOK
<1>7. ASSUME NEW i \in 1 .. n + 1
      PROVE  \/ i = m /\ a[i] = t
             \/ i < m /\ i \in 1 .. n /\ a[i] = q[i]
             \/ i > m /\ i - 1 \in 1 .. n /\ a[i] = q[i - 1]
  BY <1>4
<1>8. ASSUME NEW p \in TPRI, NEW i \in 1 .. Len(r.ready_queue[p])
      PROVE  r.ready_queue[p][i] \in R \cup {t} /\ r.priority[r.ready_queue[p][i]] = p
  <2>1. CASE p # pri
    BY <2>1, <1>3 DEF ReadyQueueOK
  <2>2. CASE p = pri
    <3>1. i \in 1 .. n + 1 /\ r.ready_queue[p][i] = a[i]
      BY <2>2, <1>3, <1>4
    <3>2. a[i] = t \/ \E j \in 1 .. n : a[i] = q[j]
      BY <3>1, <1>7
    <3> QED BY <3>1, <3>2, <2>2, <1>5
  <2> QED BY <2>1, <2>2
<1>9. ASSUME NEW p \in TPRI, NEW i \in 1 .. Len(r.ready_queue[p]),
             NEW j \in 1 .. Len(r.ready_queue[p]),
             r.ready_queue[p][i] = r.ready_queue[p][j]
      PROVE  i = j
  <2>1. CASE p # pri
    BY <2>1, <1>9, <1>3 DEF ReadyQueueOK
  <2>2. CASE p = pri
    <3>1. i \in 1 .. n + 1 /\ j \in 1 .. n + 1 /\ a[i] = a[j]
      BY <2>2, <1>3, <1>4, <1>9
    <3>2. \/ i = m /\ a[i] = t
          \/ i < m /\ i \in 1 .. n /\ a[i] = q[i]
          \/ i > m /\ i - 1 \in 1 .. n /\ a[i] = q[i - 1]
      BY <3>1, <1>7
    <3>3. \/ j = m /\ a[j] = t
          \/ j < m /\ j \in 1 .. n /\ a[j] = q[j]
          \/ j > m /\ j - 1 \in 1 .. n /\ a[j] = q[j - 1]
      BY <3>1, <1>7
    <3>4. m \in 1 .. n + 1
      BY <1>4
    <3> QED BY <3>1, <3>2, <3>3, <3>4, <1>5, <1>6
  <2> QED BY <2>1, <2>2
<1>10. ASSUME NEW u \in R \cup {t}
       PROVE  \E i \in 1 .. Len(r.ready_queue[r.priority[u]]) :
                r.ready_queue[r.priority[u]][i] = u
  <2>1. k.priority[u] \in TPRI
    BY DEF SchedType
  <2>2. CASE u = t
    <3>1. r.ready_queue[r.priority[u]] = a /\ m \in 1 .. Len(a) /\ a[m] = t
      BY <2>2, <1>3, <1>4
    <3> QED BY <3>1, <2>2
  <2>3. CASE u # t /\ k.priority[u] = pri
    <3>1. PICK j \in 1 .. n : q[j] = u
      BY <2>3, <1>1, <1>2 DEF ReadyQueueOK
    <3>2. \E i \in 1 .. n + 1 : a[i] = u
      <4>1. CASE j < m
        BY <4>1, <3>1, <1>4
      <4>2. CASE ~(j < m)
        <5>1. j + 1 \in 1 .. n + 1 /\ ~(j + 1 < m) /\ j + 1 # m /\ (j + 1) - 1 = j
          BY <4>2, <1>4
        <5> QED BY <5>1, <3>1, <1>4
      <4> QED BY <4>1, <4>2
    <3> QED BY <3>2, <2>3, <1>3, <1>4
  <2>4. CASE u # t /\ k.priority[u] # pri
    BY <2>1, <2>4, <1>3 DEF ReadyQueueOK
  <2> QED BY <2>2, <2>3, <2>4
<1>11. \A p \in TPRI : p \in r.ready_primap <=> r.ready_queue[p] # <<>>
  BY <1>3 DEF ReadyQueueOK
<1> QED
  BY <1>8, <1>9, <1>10, <1>11 DEF ReadyQueueOK

(* make_runnable, called for a task that is not in the ready queue. *)
LEMMA MakeRunnable ==
  ASSUME NEW k, SchedType(k), NEW R \in SUBSET Task,
         ReadyQueueOK(k, R), SchedtskOK(k), NEW t \in Task \ R,
         NEW r, r = make_runnable(k, t)
  PROVE  /\ SchedType(r) /\ ReadyQueueOK(r, R \cup {t}) /\ SchedtskOK(r)
         /\ Reports(k, r) /\ Frame(k, r, ReadyFields)
<1>1. r = make_runnable(k, t)
  OBVIOUS
<1>2. PICK pri \in TPRI : pri = k.priority[t]
  BY DEF SchedType
<1>3. PICK q \in Seq(Task) : q = k.ready_queue[pri]
  BY DEF SchedType
<1>4. PICK a : a = queue_insert_prev(q, t)
  OBVIOUS
<1>5. PICK top \in BOOLEAN : top <=> k.p_schedtsk = NULL \/ pri < k.priority[k.p_schedtsk]
  OBVIOUS
<1>6. /\ r.ready_queue = [k.ready_queue EXCEPT ![pri] = a]
      /\ r.ready_primap = k.ready_primap \cup {pri}
      /\ r.p_schedtsk = IF top THEN t ELSE k.p_schedtsk
      /\ r.dspreq <=> k.dspreq \/ (top /\ k.dspflg)
      /\ r.dspreq \in BOOLEAN
      /\ Frame(k, r, ReadyFields)
  BY <1>1, <1>2, <1>3, <1>4, <1>5
  DEF make_runnable, queue_insert_prev, SchedType, Frame, ReadyFields
<1>8. Reports(k, r)
  BY <1>6 DEF Reports
<1>7. /\ r.priority = k.priority /\ r.tstat = k.tstat /\ r.dspflg = k.dspflg
      /\ DOMAIN r = DOMAIN k
  BY <1>6 DEF Frame, ReadyFields, SchedType
<1>9. /\ a \in Seq(Task) /\ a # <<>> /\ InsertedAt(q, t, Len(q) + 1, a)
      /\ Head(a) = IF q = <<>> THEN t ELSE Head(q)
  BY <1>4, QueueInsertPrev
<1>10. /\ \A p \in TPRI \ {pri} : r.ready_queue[p] = k.ready_queue[p]
       /\ r.ready_queue[pri] = a
  BY <1>2, <1>6 DEF SchedType
<1>11. SchedType(r)
  BY <1>2, <1>6, <1>7, <1>9 DEF SchedType
<1>14. ReadyQueueOK(r, R \cup {t})
  <2>1. /\ InsertedAt(k.ready_queue[pri], t, Len(q) + 1, a)
        /\ r.ready_queue = [k.ready_queue EXCEPT ![pri] = a]
        /\ r.ready_primap = k.ready_primap \cup {pri}
    BY <1>3, <1>6, <1>9
  <2>2. a \in Seq(Task) /\ a # <<>>
    BY <1>9
  <2> QED BY <2>1, <2>2, <1>2, <1>7, ReadyInsert, ZenonT(60)
<1>15. SchedtskOK(r)
  <2>1. /\ r.ready_primap = k.ready_primap \cup {pri} /\ r.priority[t] = pri
        /\ r.priority[t] \in r.ready_primap /\ k.ready_primap \in SUBSET TPRI
        /\ TPRI \subseteq Nat
    BY <1>2, <1>6, <1>7 DEF SchedType, TPRI
  <2>2. CASE k.p_schedtsk = NULL \/ pri < k.priority[k.p_schedtsk]
    <3>1. r.p_schedtsk = t /\ r.p_schedtsk # NULL
      BY <2>2, <1>5, <1>6, NullAssumption
    <3>2. pri \notin k.ready_primap /\ \A p \in r.ready_primap : pri <= p
      <4>1. CASE k.p_schedtsk = NULL
        BY <4>1, <2>1 DEF SchedtskOK
      <4>2. CASE k.p_schedtsk # NULL
        <5>1. PICK sp \in Nat : sp = k.priority[k.p_schedtsk]
          BY <4>2, <2>1 DEF SchedType
        <5>2. pri < sp /\ pri \in Nat /\ \A p \in k.ready_primap : p \in Nat /\ sp <= p
          BY <4>2, <5>1, <2>1, <2>2 DEF SchedtskOK
        <5>3. \A p \in k.ready_primap : pri < p
          BY <5>2
        <5> QED BY <5>2, <5>3, <2>1
      <4> QED BY <4>1, <4>2
    <3>3. q = <<>>
      BY <3>2, <1>3 DEF ReadyQueueOK
    <3>4. Head(a) = t
      BY <3>3, <1>9
    <3> QED BY <3>1, <3>2, <3>4, <2>1, <1>10 DEF SchedtskOK
  <2>3. CASE k.p_schedtsk # NULL /\ ~(pri < k.priority[k.p_schedtsk])
    <3>1. PICK s \in Task : s = k.p_schedtsk
      BY <2>3 DEF SchedType
    <3>2. PICK sp \in TPRI : sp = k.priority[s]
      BY <3>1 DEF SchedType
    <3>3. /\ r.p_schedtsk = s /\ s # NULL /\ sp <= pri /\ sp \in k.ready_primap
          /\ s = Head(k.ready_queue[sp]) /\ \A p \in k.ready_primap : sp <= p
      BY <3>1, <3>2, <2>1, <2>3, <1>5, <1>6 DEF SchedtskOK
    <3>4. s = Head(r.ready_queue[sp])
      <4>1. CASE sp = pri
        <5>1. q # <<>>
          BY <4>1, <3>3, <1>3 DEF ReadyQueueOK
        <5>2. Head(a) = Head(q)
          BY <5>1, <1>9
        <5> QED BY <4>1, <5>2, <3>3, <1>3, <1>10
      <4>2. CASE sp # pri
        BY <4>2, <3>3, <1>10
      <4> QED BY <4>1, <4>2
    <3> QED BY <3>2, <3>3, <3>4, <2>1, <1>7 DEF SchedtskOK
  <2> QED BY <2>2, <2>3
<1> QED
  BY <1>6, <1>8, <1>11, <1>14, <1>15

(* The head of a non-empty ready queue. *)
LEMMA ReadyHead ==
  ASSUME NEW k, SchedType(k), NEW R \in SUBSET Task, ReadyQueueOK(k, R),
         NEW p \in TPRI, k.ready_queue[p] # <<>>
  PROVE  LET h == Head(k.ready_queue[p])
         IN  h = k.ready_queue[p][1] /\ h \in R /\ k.priority[h] = p
<1>1. PICK q \in Seq(Task) : q = k.ready_queue[p]
  BY DEF SchedType
<1>2. q # <<>> /\ 1 \in 1 .. Len(q) /\ Head(q) = q[1]
  BY <1>1
<1>3. q[1] \in R /\ k.priority[q[1]] = p
  BY <1>1, <1>2 DEF ReadyQueueOK
<1> QED
  BY <1>1, <1>2, <1>3

(* search_schedtsk finds the head of the highest-priority non-empty queue. *)
LEMMA SearchSchedtsk ==
  ASSUME NEW k, SchedType(k), NEW R \in SUBSET Task, ReadyQueueOK(k, R),
         k.ready_primap # {}
  PROVE  LET s == search_schedtsk(k)
         IN  /\ s \in R /\ k.priority[s] \in k.ready_primap
             /\ s = Head(k.ready_queue[k.priority[s]])
             /\ \A q \in k.ready_primap : k.priority[s] <= q
<1>1. k.ready_primap \in SUBSET Nat /\ k.ready_primap \in SUBSET TPRI
  BY DEF SchedType, TPRI
<1>2. \E p \in k.ready_primap : \A q \in k.ready_primap : p <= q
  BY <1>1, LeastPriority
<1>3. PICK p : p = primap_search(k)
  OBVIOUS
<1>4. p \in k.ready_primap /\ \A q \in k.ready_primap : p <= q
  BY <1>2, <1>3 DEF primap_search
<1>5. p \in TPRI /\ k.ready_queue[p] # <<>>
  BY <1>1, <1>4 DEF ReadyQueueOK
<1>6. PICK s : s = Head(k.ready_queue[p])
  OBVIOUS
<1>7. s \in R /\ k.priority[s] = p
  BY <1>5, <1>6, ReadyHead
<1>8. search_schedtsk(k) = s
  BY <1>3, <1>6 DEF search_schedtsk
<1> QED
  BY <1>4, <1>6, <1>7, <1>8

(* The other queues, and the head of the queue t leaves if t is not its    *)
(* head, stay as they are.                                                 *)
OthersKept(k, r, t, pri) ==
  /\ \A p \in TPRI \ {pri} : r.ready_queue[p] = k.ready_queue[p]
  /\ Head(k.ready_queue[pri]) # t =>
       r.ready_queue[pri] # <<>> /\ Head(r.ready_queue[pri]) = Head(k.ready_queue[pri])

(* ready_delete takes t out of the queue of pri.  t's priority may have    *)
(* been changed before, from j to k.                                       *)
LEMMA ReadyDelete ==
  ASSUME NEW k, SchedType(k), NEW R \in SUBSET Task, NEW t \in R, NEW pri \in TPRI,
         NEW j, ReadyQueueOK(j, R), j.ready_queue = k.ready_queue,
         j.ready_primap = k.ready_primap, j.priority[t] = pri,
         \A u \in R \ {t} : j.priority[u] = k.priority[u],
         NEW r, r = ready_delete(k, t, pri)
  PROVE  /\ SchedType(r) /\ ReadyQueueOK(r, R \ {t})
         /\ Frame(k, r, {"ready_queue", "ready_primap"})
         /\ OthersKept(k, r, t, pri)
<1>1. r = ready_delete(k, t, pri)
  OBVIOUS
<1>2. PICK q \in Seq(Task) : q = k.ready_queue[pri]
  BY DEF SchedType
<1>3. PICK n \in Nat : n = Len(q)
  BY <1>2
<1>4. PICK d \in 1 .. n : q[d] = t
  BY <1>2, <1>3 DEF ReadyQueueOK
<1>5. \A a, b \in 1 .. n : q[a] = q[b] => a = b
  BY <1>2, <1>3 DEF ReadyQueueOK
<1>6. PICK rest : rest = queue_delete(q, t)
  OBVIOUS
<1>7. /\ rest \in Seq(Task) /\ Len(rest) = n - 1
      /\ \A a \in 1 .. n - 1 : rest[a] = IF a < d THEN q[a] ELSE q[a + 1]
  <2>1. d \in 1 .. Len(q) /\ \A a, b \in 1 .. Len(q) : q[a] = q[b] => a = b
    BY <1>3, <1>4, <1>5
  <2>2. rest = queue_delete(q, q[d])
    BY <1>4, <1>6
  <2> HIDE <1>3, <1>4, <1>5, <1>6
  <2>3. /\ rest \in Seq(Task) /\ Len(rest) = Len(q) - 1
        /\ \A a \in 1 .. Len(q) - 1 : rest[a] = IF a < d THEN q[a] ELSE q[a + 1]
    BY <2>1, <2>2, QueueDelete
  <2> QED BY <2>3, <1>3
<1>8. /\ r.ready_queue = [k.ready_queue EXCEPT ![pri] = rest]
      /\ r.ready_primap = IF rest = <<>> THEN k.ready_primap \ {pri} ELSE k.ready_primap
      /\ Frame(k, r, {"ready_queue", "ready_primap"})
  BY <1>1, <1>2, <1>6 DEF ready_delete, Frame, SchedType
<1>9. /\ r.ready_queue[pri] = rest
      /\ \A p \in TPRI \ {pri} : r.ready_queue[p] = k.ready_queue[p]
      /\ r.priority = k.priority
  BY <1>8 DEF SchedType, Frame
<1>10. SchedType(r)
  BY <1>7, <1>8, ZenonT(60) DEF SchedType, Frame
<1>11. \A a \in 1 .. n : q[a] \in R /\ j.priority[q[a]] = pri
  BY <1>2, <1>3 DEF ReadyQueueOK
<1>12. ReadyQueueOK(r, R \ {t})
  <2>1. ASSUME NEW p \in TPRI, NEW i \in 1 .. Len(r.ready_queue[p])
        PROVE  r.ready_queue[p][i] \in R \ {t} /\ r.priority[r.ready_queue[p][i]] = p
    <3>1. CASE p # pri
      <4>1. r.ready_queue[p][i] \in R /\ j.priority[r.ready_queue[p][i]] = p
        BY <3>1, <1>9 DEF ReadyQueueOK
      <4> QED BY <4>1, <3>1, <1>9
    <3>2. CASE p = pri
      <4>1. i \in 1 .. n - 1 /\ r.ready_queue[p][i] = rest[i]
        BY <3>2, <1>7, <1>9
      <4>2. PICK a \in 1 .. n : a # d /\ rest[i] = q[a]
        <5>1. CASE i < d
          BY <5>1, <4>1, <1>7
        <5>2. CASE ~(i < d)
          BY <5>2, <4>1, <1>7
        <5> QED BY <5>1, <5>2
      <4>3. q[a] # t
        BY <4>2, <1>4, <1>5
      <4> QED BY <4>1, <4>2, <4>3, <3>2, <1>9, <1>11
    <3> QED BY <3>1, <3>2
  <2>2. ASSUME NEW p \in TPRI, NEW i \in 1 .. Len(r.ready_queue[p]),
               NEW m \in 1 .. Len(r.ready_queue[p]),
               r.ready_queue[p][i] = r.ready_queue[p][m]
        PROVE  i = m
    <3>1. CASE p # pri
      BY <3>1, <2>2, <1>9 DEF ReadyQueueOK
    <3>2. CASE p = pri
      <4>1. i \in 1 .. n - 1 /\ m \in 1 .. n - 1 /\ rest[i] = rest[m]
        BY <3>2, <2>2, <1>7, <1>9
      <4> QED BY <4>1, <1>5, <1>7
    <3> QED BY <3>1, <3>2
  <2>3. ASSUME NEW u \in R \ {t}
        PROVE  \E i \in 1 .. Len(r.ready_queue[r.priority[u]]) :
                 r.ready_queue[r.priority[u]][i] = u
    <3>1. r.priority[u] = j.priority[u] /\ r.priority[u] \in TPRI
      BY <1>9 DEF SchedType
    <3>2. CASE r.priority[u] # pri
      BY <3>1, <3>2, <1>9 DEF ReadyQueueOK
    <3>3. CASE r.priority[u] = pri
      <4>1. PICK a \in 1 .. n : q[a] = u
        <5>1. \E a \in 1 .. Len(j.ready_queue[j.priority[u]]) : j.ready_queue[j.priority[u]][a] = u
          BY DEF ReadyQueueOK
        <5>2. j.ready_queue[j.priority[u]] = q
          BY <3>1, <3>3, <1>2
        <5> QED BY <5>1, <5>2, <1>3
      <4>2. \E i \in 1 .. n - 1 : rest[i] = u
        <5>1. CASE a < d
          BY <5>1, <4>1, <1>7
        <5>2. CASE a > d
          <6>1. a - 1 \in 1 .. n - 1 /\ ~(a - 1 < d) /\ (a - 1) + 1 = a
            BY <5>2
          <6> QED BY <6>1, <4>1, <1>7
        <5> QED BY <5>1, <5>2, <4>1, <1>4
      <4> QED BY <4>2, <3>3, <1>7, <1>9
    <3> QED BY <3>2, <3>3
  <2>4. \A p \in TPRI : p \in r.ready_primap <=> r.ready_queue[p] # <<>>
    <3>1. q # <<>>
      BY <1>3, <1>4
    <3> QED BY <3>1, <1>2, <1>8, <1>9 DEF ReadyQueueOK
  <2> QED BY <2>1, <2>2, <2>3, <2>4 DEF ReadyQueueOK
<1>13. ASSUME Head(q) # t
       PROVE  rest # <<>> /\ Head(rest) = Head(q)
  <2>1. Head(q) = q[1] /\ 1 \in 1 .. n
    BY <1>3, <1>4
  <2>2. 1 < d /\ 1 \in 1 .. n - 1
    BY <2>1, <1>4, <1>13
  <2>3. rest[1] = q[1] /\ Len(rest) >= 1
    BY <2>2, <1>7
  <2> QED BY <2>1, <2>3, <1>7
<1> QED
  BY <1>1, <1>2, <1>8, <1>9, <1>10, <1>12, <1>13 DEF OthersKept

(* make_non_runnable, called for a task that is in the ready queue. *)
LEMMA MakeNonRunnable ==
  ASSUME NEW k, SchedType(k), NEW R \in SUBSET Task,
         ReadyQueueOK(k, R), SchedtskOK(k), NEW t \in R,
         NEW r, r = make_non_runnable(k, t)
  PROVE  /\ SchedType(r) /\ ReadyQueueOK(r, R \ {t}) /\ SchedtskOK(r)
         /\ Reports(k, r) /\ Frame(k, r, ReadyFields)
         /\ k.p_schedtsk # t => r.p_schedtsk = k.p_schedtsk
<1>1. r = make_non_runnable(k, t)
  OBVIOUS
<1>2. PICK pri \in TPRI : pri = k.priority[t]
  BY DEF SchedType
<1>3. PICK d : d = ready_delete(k, t, pri)
  OBVIOUS
<1>4. /\ SchedType(d) /\ ReadyQueueOK(d, R \ {t})
      /\ Frame(k, d, {"ready_queue", "ready_primap"})
      /\ \A p \in TPRI \ {pri} : d.ready_queue[p] = k.ready_queue[p]
      /\ Head(k.ready_queue[pri]) # t =>
           d.ready_queue[pri] # <<>> /\ Head(d.ready_queue[pri]) = Head(k.ready_queue[pri])
  <2>1. PICK j : j = k
    OBVIOUS
  <2>2. /\ ReadyQueueOK(j, R) /\ j.ready_queue = k.ready_queue
        /\ j.ready_primap = k.ready_primap
        /\ j.priority[t] = pri /\ \A u \in R \ {t} : j.priority[u] = k.priority[u]
    BY <2>1, <1>2
  <2> HIDE <2>1, <1>2
  <2>3. /\ SchedType(d) /\ ReadyQueueOK(d, R \ {t})
        /\ Frame(k, d, {"ready_queue", "ready_primap"}) /\ OthersKept(k, d, t, pri)
    BY <2>2, <1>3, ReadyDelete
  <2> QED BY <2>3 DEF OthersKept
<1>5. /\ d.priority = k.priority /\ d.tstat = k.tstat /\ d.dspflg = k.dspflg
      /\ d.p_schedtsk = k.p_schedtsk /\ d.dspreq = k.dspreq /\ DOMAIN d = DOMAIN k
  BY <1>4 DEF Frame, SchedType
<1>6. /\ d.ready_primap \in SUBSET TPRI /\ TPRI \subseteq Nat
      /\ \A p \in TPRI : p \in d.ready_primap <=> d.ready_queue[p] # <<>>
      /\ \A p \in TPRI : p \in k.ready_primap <=> k.ready_queue[p] # <<>>
      /\ k.ready_primap \in SUBSET TPRI
  <2>1. d.ready_primap \in SUBSET TPRI /\ k.ready_primap \in SUBSET TPRI
    BY <1>4 DEF SchedType
  <2>2. TPRI \subseteq Nat
    BY DEF TPRI
  <2>3. /\ \A p \in TPRI : p \in d.ready_primap <=> d.ready_queue[p] # <<>>
        /\ \A p \in TPRI : p \in k.ready_primap <=> k.ready_queue[p] # <<>>
    BY <1>4 DEF ReadyQueueOK
  <2> QED BY <2>1, <2>2, <2>3
<1>7. pri \in k.ready_primap /\ k.p_schedtsk # NULL
  <2>1. PICK q \in Seq(Task) : q = k.ready_queue[pri]
    BY DEF SchedType
  <2>2. \E i \in 1 .. Len(q) : q[i] = t
    BY <2>1, <1>2 DEF ReadyQueueOK
  <2>3. q # <<>>
    BY <2>2
  <2> QED BY <2>1, <2>3, <1>6 DEF SchedtskOK
<1>8. d.ready_primap \subseteq k.ready_primap
  <2>1. ASSUME NEW p \in d.ready_primap PROVE p \in k.ready_primap
    <3>1. CASE p = pri
      BY <3>1, <1>7
    <3>2. CASE p # pri
      BY <3>2, <1>4, <1>6
    <3> QED BY <3>1, <3>2
  <2> QED BY <2>1
<1>9. PICK s \in Task : s = k.p_schedtsk
  BY <1>7 DEF SchedType
<1>10. PICK sp \in TPRI : sp = k.priority[s]
  BY <1>9 DEF SchedType
<1>11. /\ sp \in k.ready_primap /\ s = Head(k.ready_queue[sp])
       /\ \A p \in k.ready_primap : sp <= p
  BY <1>7, <1>9, <1>10 DEF SchedtskOK
<1>12. CASE s # t
  <2>1. r = d
    BY <1>1, <1>2, <1>3, <1>9, <1>12 DEF make_non_runnable
  <2>2. sp \in d.ready_primap /\ s = Head(d.ready_queue[sp])
    <3>1. CASE sp = pri
      BY <3>1, <1>4, <1>6, <1>11, <1>12
    <3>2. CASE sp # pri
      BY <3>2, <1>4, <1>6, <1>11
    <3> QED BY <3>1, <3>2
  <2>3. SchedtskOK(d)
    BY <2>2, <1>5, <1>7, <1>8, <1>9, <1>10, <1>11 DEF SchedtskOK
  <2>4. Reports(k, d) /\ Frame(k, d, ReadyFields)
    BY <1>4, <1>5 DEF Reports, Frame, ReadyFields
  <2> QED BY <2>1, <2>3, <2>4, <1>4, <1>5
<1>13. CASE s = t
  <2>1. sp = pri
    BY <1>2, <1>10, <1>13
  <2>2. PICK n : n = IF d.ready_queue[pri] # <<>> THEN Head(d.ready_queue[pri])
                     ELSE IF d.ready_primap = {} THEN NULL ELSE search_schedtsk(d)
    OBVIOUS
  <2>3. /\ n = NULL <=> d.ready_primap = {}
        /\ n # NULL => /\ n \in R \ {t} /\ d.priority[n] \in d.ready_primap
                       /\ n = Head(d.ready_queue[d.priority[n]])
                       /\ \A p \in d.ready_primap : d.priority[n] <= p
    <3>1. CASE d.ready_queue[pri] # <<>>
      <4>1. n \in R \ {t} /\ d.priority[n] = pri /\ n = Head(d.ready_queue[pri])
        BY <2>2, <3>1, <1>4, ReadyHead
      <4>2. n # NULL
        BY <4>1, NullAssumption
      <4>3. pri \in d.ready_primap
        BY <3>1, <1>6
      <4> QED BY <4>1, <4>2, <4>3, <1>8, <1>11, <2>1
    <3>2. CASE d.ready_queue[pri] = <<>> /\ d.ready_primap = {}
      BY <2>2, <3>2
    <3>3. CASE d.ready_queue[pri] = <<>> /\ d.ready_primap # {}
      <4>1. n = search_schedtsk(d)
        BY <2>2, <3>3
      <4>2. R \ {t} \in SUBSET Task
        OBVIOUS
      <4>3. /\ n \in R \ {t} /\ d.priority[n] \in d.ready_primap
            /\ n = Head(d.ready_queue[d.priority[n]])
            /\ \A p \in d.ready_primap : d.priority[n] <= p
        BY <3>3, <4>1, <4>2, <1>4, SearchSchedtsk
      <4> QED BY <4>3, <3>3, NullAssumption
    <3> QED BY <3>1, <3>2, <3>3
  <2>4. /\ r.p_schedtsk = n /\ r.dspreq = (k.dspreq \/ k.dspflg)
        /\ r.ready_queue = d.ready_queue /\ r.ready_primap = d.ready_primap
        /\ r.tstat = d.tstat /\ r.priority = d.priority /\ r.dspflg = d.dspflg
        /\ DOMAIN r = DOMAIN d /\ \A f \in DOMAIN d \ ReadyFields : r[f] = d[f]
    <3>1. r = [d EXCEPT !.p_schedtsk = n, !.dspreq = k.dspreq \/ k.dspflg]
      BY <1>1, <1>2, <1>3, <1>5, <1>9, <1>13, <2>2 DEF make_non_runnable
    <3>2. {"tstat", "priority", "ready_queue", "ready_primap", "p_schedtsk", "dspflg",
           "dspreq"} \subseteq DOMAIN d
      BY <1>4 DEF SchedType
    <3> HIDE <1>1, <1>3, <2>2
    <3> QED BY <3>1, <3>2 DEF ReadyFields
  <2>5. r.dspreq \in BOOLEAN
    BY <2>4
  <2>6. n \in Task \cup {NULL}
    BY <2>3
  <2>7. SchedType(r)
    BY <2>4, <2>5, <2>6, <1>4 DEF SchedType
  <2>8. ReadyQueueOK(r, R \ {t})
    BY <2>4, <1>4, SameReadyQueue
  <2>9. SchedtskOK(r)
    BY <2>3, <2>4 DEF SchedtskOK
  <2>10. Reports(k, r)
    BY <2>4 DEF Reports
  <2>11. Frame(k, r, ReadyFields)
    BY <2>4, <1>4 DEF Frame, ReadyFields
  <2> QED BY <1>9, <1>13, <2>7, <2>8, <2>9, <2>10, <2>11
<1> QED
  BY <1>12, <1>13


(* change_ready moves a task of the ready queue to the queue of newpri. *)
LEMMA ChangeReady ==
  ASSUME NEW k, SchedType(k), NEW R \in SUBSET Task,
         ReadyQueueOK(k, R), SchedtskOK(k), NEW t \in R,
         NEW newpri \in TPRI, NEW mtxmode \in BOOLEAN,
         NEW r, r = change_ready(k, t, newpri, mtxmode)
  PROVE  /\ SchedType(r) /\ ReadyQueueOK(r, R) /\ SchedtskOK(r)
         /\ Reports(k, r) /\ Frame(k, r, ReadyFields \cup {"priority"})
<1>1. PICK oldpri \in TPRI : oldpri = k.priority[t]
  BY DEF SchedType
<1>2. PICK j : j = [k EXCEPT !.priority[t] = newpri]
  OBVIOUS
<1>3. /\ j.priority = [k.priority EXCEPT ![t] = newpri]
      /\ j.ready_queue = k.ready_queue /\ j.ready_primap = k.ready_primap
      /\ j.tstat = k.tstat /\ j.p_schedtsk = k.p_schedtsk /\ j.dspflg = k.dspflg
      /\ j.dspreq = k.dspreq /\ Frame(k, j, {"priority"})
  BY <1>2 DEF SchedType, Frame
<1>4. /\ j.priority[t] = newpri /\ \A u \in Task \ {t} : j.priority[u] = k.priority[u]
      /\ j.priority \in [Task -> TPRI]
  BY <1>3 DEF SchedType
<1>5. SchedType(j)
  BY <1>3, <1>4 DEF SchedType, Frame
<1>6. PICK d : d = ready_delete(j, t, oldpri)
  OBVIOUS
<1>7. /\ SchedType(d) /\ ReadyQueueOK(d, R \ {t})
      /\ Frame(j, d, {"ready_queue", "ready_primap"}) /\ OthersKept(j, d, t, oldpri)
  <2>1. /\ k.ready_queue = j.ready_queue /\ k.ready_primap = j.ready_primap
        /\ k.priority[t] = oldpri /\ \A u \in R \ {t} : k.priority[u] = j.priority[u]
    BY <1>1, <1>3, <1>4
  <2> QED BY <2>1, <1>5, <1>6, ReadyDelete
<1>8. /\ d.priority = j.priority /\ d.tstat = k.tstat /\ d.dspflg = k.dspflg
      /\ d.p_schedtsk = k.p_schedtsk /\ d.dspreq = k.dspreq
  BY <1>3, <1>5, <1>7 DEF Frame, SchedType
<1>9. PICK q \in Seq(Task) : q = d.ready_queue[newpri]
  BY <1>7 DEF SchedType
<1>10. PICK a : a = IF mtxmode THEN queue_insert_next(q, t) ELSE queue_insert_prev(q, t)
  OBVIOUS
<1>11. /\ a \in Seq(Task) /\ a # <<>>
       /\ Head(a) = IF mtxmode \/ q = <<>> THEN t ELSE Head(q)
       /\ \E m : InsertedAt(q, t, m, a)
  <2>1. CASE mtxmode
    <3>1. a = queue_insert_next(q, t)
      BY <2>1, <1>10
    <3>2. a \in Seq(Task) /\ a # <<>> /\ InsertedAt(q, t, 1, a) /\ Head(a) = t
      BY <3>1, QueueInsertNext, ZenonT(60)
    <3> QED BY <2>1, <3>2
  <2>2. CASE ~mtxmode
    <3>1. a = queue_insert_prev(q, t)
      BY <2>2, <1>10
    <3> QED BY <2>2, <3>1, QueueInsertPrev
  <2> QED BY <2>1, <2>2
<1>12. PICK e : e = [d EXCEPT !.ready_queue[newpri] = a,
                              !.ready_primap = @ \cup {newpri}]
  OBVIOUS
<1>13. /\ e.ready_queue = [d.ready_queue EXCEPT ![newpri] = a]
       /\ e.ready_primap = d.ready_primap \cup {newpri}
       /\ e.priority = j.priority /\ e.tstat = k.tstat /\ e.dspflg = k.dspflg
       /\ e.p_schedtsk = k.p_schedtsk /\ e.dspreq = k.dspreq
       /\ Frame(d, e, {"ready_queue", "ready_primap"})
  BY <1>7, <1>8, <1>12 DEF SchedType, Frame
<1>14. /\ e.ready_queue[newpri] = a
       /\ \A p \in TPRI \ {newpri} : e.ready_queue[p] = d.ready_queue[p]
  BY <1>7, <1>13 DEF SchedType
<1>15. SchedType(e)
  BY <1>7, <1>8, <1>11, <1>13, ZenonT(60) DEF SchedType, Frame
<1>16. ReadyQueueOK(e, R)
  <2>1. PICK m : InsertedAt(d.ready_queue[newpri], t, m, a)
    BY <1>9, <1>11
  <2>2. PICK S \in SUBSET Task : S = R \ {t} /\ t \in Task \ S
    OBVIOUS
  <2>3. ReadyQueueOK(d, S) /\ newpri = d.priority[t] /\ e.priority = d.priority
    BY <2>2, <1>4, <1>7, <1>8, <1>13
  <2>4. ReadyQueueOK(e, S \cup {t})
    BY <2>1, <2>2, <2>3, <1>7, <1>11, <1>13, ReadyInsert, ZenonT(60)
  <2>5. S \cup {t} = R
    BY <2>2
  <2> QED BY <2>4, <2>5
<1>17. PICK s \in Task : s = k.p_schedtsk
  <2>1. k.ready_primap # {}
    <3>1. PICK x \in Seq(Task) : x = k.ready_queue[oldpri]
      BY DEF SchedType
    <3>2. \E i \in 1 .. Len(x) : x[i] = t
      BY <3>1, <1>1 DEF ReadyQueueOK
    <3>3. x # <<>>
      BY <3>2
    <3> QED BY <3>1, <3>3 DEF ReadyQueueOK
  <2> QED BY <2>1 DEF SchedtskOK, SchedType
<1>18. PICK sp \in TPRI : sp = k.priority[s]
  BY <1>17 DEF SchedType
<1>19. /\ sp \in k.ready_primap /\ s = Head(k.ready_queue[sp])
       /\ \A p \in k.ready_primap : sp <= p
  BY <1>17, <1>18, NullAssumption DEF SchedtskOK
<1>20. PICK n : n = IF s = t THEN IF newpri >= oldpri THEN search_schedtsk(e) ELSE t
                    ELSE IF IF mtxmode THEN newpri <= sp ELSE newpri < sp THEN t ELSE s
  OBVIOUS
<1>21. r = [e EXCEPT !.p_schedtsk = n, !.dspreq = k.dspreq \/ (n # k.p_schedtsk /\ k.dspflg)]
  <2>1. e = LET k1 == ready_delete([k EXCEPT !.priority[t] = newpri], t, oldpri)
            IN  [k1 EXCEPT !.ready_queue[newpri] = IF mtxmode THEN queue_insert_next(@, t)
                                                   ELSE queue_insert_prev(@, t),
                           !.ready_primap = @ \cup {newpri}]
    BY <1>2, <1>6, <1>9, <1>10, <1>12
  <2>2. s # t => e.priority[s] = sp
    BY <1>4, <1>13, <1>17, <1>18
  <2> DEFINE x == IF k.p_schedtsk = t
                  THEN IF newpri >= k.priority[t] THEN search_schedtsk(e) ELSE t
                  ELSE IF IF mtxmode THEN newpri <= e.priority[k.p_schedtsk]
                          ELSE newpri < e.priority[k.p_schedtsk]
                       THEN t ELSE k.p_schedtsk
  <2>3. r = [e EXCEPT !.p_schedtsk = x, !.dspreq = @ \/ (x # k.p_schedtsk /\ k.dspflg)]
    BY <1>1, <2>1 DEF change_ready
  <2>4. x = n
    BY <1>1, <1>17, <1>20, <2>2
  <2> QED BY <2>3, <2>4, <1>13
<1>22. /\ d.ready_primap \subseteq k.ready_primap
       /\ \A p \in TPRI : p \in d.ready_primap <=> d.ready_queue[p] # <<>>
       /\ \A p \in TPRI : p \in k.ready_primap <=> k.ready_queue[p] # <<>>
       /\ k.ready_primap \in SUBSET TPRI
       /\ TPRI \subseteq Nat
  <2>1. /\ \A p \in TPRI : p \in d.ready_primap <=> d.ready_queue[p] # <<>>
        /\ \A p \in TPRI : p \in k.ready_primap <=> k.ready_queue[p] # <<>>
    BY <1>7 DEF ReadyQueueOK
  <2>2. d.ready_primap \in SUBSET TPRI /\ k.ready_primap \in SUBSET TPRI
    BY <1>7 DEF SchedType
  <2>3. TPRI \subseteq Nat
    BY DEF TPRI
  <2>4. oldpri \in k.ready_primap
    <3>1. PICK x \in Seq(Task) : x = k.ready_queue[oldpri]
      BY DEF SchedType
    <3>2. \E i \in 1 .. Len(x) : x[i] = t
      BY <3>1, <1>1 DEF ReadyQueueOK
    <3>3. x # <<>>
      BY <3>2
    <3> QED BY <3>1, <3>3 DEF ReadyQueueOK
  <2>5. ASSUME NEW p \in d.ready_primap PROVE p \in k.ready_primap
    <3>1. CASE p = oldpri
      BY <3>1, <2>4
    <3>2. CASE p # oldpri
      BY <3>2, <1>3, <1>7, <2>1, <2>2 DEF OthersKept
    <3> QED BY <3>1, <3>2
  <2> QED BY <2>1, <2>2, <2>3, <2>5
<1>23. /\ n \in Task /\ e.priority[n] \in e.ready_primap
       /\ n = Head(e.ready_queue[e.priority[n]])
       /\ \A p \in e.ready_primap : e.priority[n] <= p
  <2>1. /\ e.priority[t] = newpri /\ newpri \in e.ready_primap
        /\ e.ready_primap = d.ready_primap \cup {newpri}
    BY <1>4, <1>13
  <2>2. ASSUME newpri < sp
        PROVE  Head(a) = t
    <3>1. newpri \notin k.ready_primap
      BY <2>2, <1>19, <1>22
    <3>2. newpri \notin d.ready_primap
      BY <3>1, <1>22
    <3>3. q = <<>>
      BY <3>2, <1>9, <1>22
    <3> QED BY <3>3, <1>11
  <2>3. ASSUME newpri <= sp, Head(a) = t, n = t
        PROVE  /\ n \in Task /\ e.priority[n] \in e.ready_primap
               /\ n = Head(e.ready_queue[e.priority[n]])
               /\ \A p \in e.ready_primap : e.priority[n] <= p
    <3>1. \A p \in e.ready_primap : newpri <= p
      <4>1. ASSUME NEW p \in e.ready_primap PROVE newpri <= p
        <5>1. CASE p = newpri
          BY <5>1, <1>22
        <5>2. CASE p # newpri
          <6>1. p \in k.ready_primap
            BY <5>2, <2>1, <1>22
          <6>2. sp <= p /\ sp \in Nat /\ p \in Nat /\ newpri \in Nat
            BY <6>1, <1>19, <1>22
          <6> QED BY <6>2, <2>3
        <5> QED BY <5>1, <5>2
      <4> QED BY <4>1
    <3> QED BY <3>1, <2>1, <2>3, <1>14
  <2>4. CASE s = t /\ newpri >= oldpri
    <3>1. n = search_schedtsk(e) /\ e.ready_primap # {}
      BY <2>1, <2>4, <1>20
    <3> QED BY <3>1, <1>15, <1>16, SearchSchedtsk
  <2>5. CASE s = t /\ ~(newpri >= oldpri)
    <3>1. n = t /\ newpri < sp /\ newpri <= sp
      BY <2>5, <1>1, <1>18, <1>20, <1>22
    <3> QED BY <3>1, <2>2, <2>3
  <2>6. CASE s # t /\ (newpri < sp \/ (mtxmode /\ newpri = sp))
    <3>1. n = t /\ newpri <= sp
      BY <2>6, <1>20, <1>22
    <3>2. Head(a) = t
      BY <2>2, <2>6, <1>11
    <3> QED BY <3>1, <3>2, <2>3
  <2>7. CASE s # t /\ ~(newpri < sp \/ (mtxmode /\ newpri = sp))
    <3>1. n = s /\ sp <= newpri /\ e.priority[n] = sp
      BY <2>7, <1>4, <1>13, <1>18, <1>20, <1>22
    <3>2. sp \in d.ready_primap /\ s = Head(d.ready_queue[sp])
      <4>1. CASE sp = oldpri
        BY <4>1, <2>7, <1>3, <1>7, <1>19, <1>22 DEF OthersKept
      <4>2. CASE sp # oldpri
        BY <4>2, <1>3, <1>7, <1>19, <1>22 DEF OthersKept
      <4> QED BY <4>1, <4>2
    <3>3. s = Head(e.ready_queue[sp])
      <4>1. CASE sp = newpri
        <5>1. ~mtxmode /\ q # <<>>
          BY <4>1, <2>7, <3>2, <1>9, <1>22
        <5>2. Head(a) = Head(q)
          BY <5>1, <1>11
        <5> QED BY <4>1, <5>2, <3>2, <1>9, <1>14
      <4>2. CASE sp # newpri
        BY <4>2, <3>2, <1>14
      <4> QED BY <4>1, <4>2
    <3>4. \A p \in e.ready_primap : sp <= p
      BY <2>1, <3>1, <1>19, <1>22
    <3> QED BY <3>1, <3>2, <3>3, <3>4, <2>1
  <2> QED BY <2>4, <2>5, <2>6, <2>7
<1>24. /\ r.p_schedtsk = n /\ r.dspreq = (k.dspreq \/ (n # k.p_schedtsk /\ k.dspflg))
       /\ r.ready_queue = e.ready_queue /\ r.ready_primap = e.ready_primap
       /\ r.tstat = e.tstat /\ r.priority = e.priority /\ r.dspflg = e.dspflg
       /\ DOMAIN r = DOMAIN e /\ \A f \in DOMAIN e \ ReadyFields : r[f] = e[f]
  <2>1. {"tstat", "priority", "ready_queue", "ready_primap", "p_schedtsk", "dspflg",
         "dspreq"} \subseteq DOMAIN e
    BY <1>15 DEF SchedType
  <2> QED BY ONLY <2>1, <1>21 DEF ReadyFields
<1>25. SchedType(r)
  <2>1. r.dspreq \in BOOLEAN
    BY <1>24
  <2> QED BY <2>1, <1>15, <1>23, <1>24 DEF SchedType
<1>26. ReadyQueueOK(r, R)
  BY <1>16, <1>24, SameReadyQueue
<1>27. SchedtskOK(r)
  <2>1. n # NULL /\ e.ready_primap # {}
    BY <1>23, NullAssumption
  <2> QED BY <2>1, <1>23, <1>24 DEF SchedtskOK
<1>28. Reports(k, r)
  BY <1>24 DEF Reports
<1>29. Frame(k, r, ReadyFields \cup {"priority"})
  BY <1>3, <1>7, <1>13, <1>24 DEF Frame, ReadyFields
<1> QED
  BY <1>25, <1>26, <1>27, <1>28, <1>29

(* rotate_ready_queue moves the head of a queue to its tail. *)
LEMMA RotateReadyQueue ==
  ASSUME NEW k, SchedType(k), NEW R \in SUBSET Task,
         ReadyQueueOK(k, R), SchedtskOK(k), NEW pri \in TPRI,
         NEW r, r = rotate_ready_queue(k, pri)
  PROVE  /\ SchedType(r) /\ ReadyQueueOK(r, R) /\ SchedtskOK(r)
         /\ Reports(k, r) /\ Frame(k, r, ReadyFields)
<1>1. PICK q \in Seq(Task) : q = k.ready_queue[pri]
  BY DEF SchedType
<1>2. PICK n \in Nat : n = Len(q)
  BY <1>1
<1>3. CASE n < 2
  <2>1. r = k
    BY <1>1, <1>2, <1>3 DEF rotate_ready_queue
  <2> QED BY <2>1 DEF Reports, Frame
<1>4. CASE ~(n < 2)
  <2>1. PICK a : a = Append(Tail(q), Head(q))
    OBVIOUS
  <2>2. /\ a \in Seq(Task) /\ Len(a) = n /\ a # <<>>
        /\ \A i \in 1 .. n - 1 : a[i] = q[i + 1]
        /\ a[n] = q[1]
    <3>1. PICK u \in Seq(Task) : /\ u = Tail(q) /\ Len(u) = n - 1
                                 /\ \A i \in 1 .. n - 1 : u[i] = q[i + 1]
      <4>1. q # <<>>
        BY <1>2, <1>4
      <4>2. PICK u : u = Tail(q)
        OBVIOUS
      <4>3. /\ u \in Seq(Task) /\ Len(u) = Len(q) - 1
            /\ \A i \in 1 .. Len(u) : u[i] = q[i + 1]
        BY <4>1, <4>2, HeadTailProperties
      <4> QED BY <4>2, <4>3, <1>2
    <3>2. q[1] \in Task /\ Head(q) = q[1]
      BY <1>2, <1>4
    <3>3. a = Append(u, q[1])
      BY <2>1, <3>1, <3>2
    <3>4. /\ a \in Seq(Task) /\ a # <<>> /\ Len(a) = Len(u) + 1
          /\ \A i \in 1 .. Len(u) : a[i] = u[i]
          /\ a[Len(u) + 1] = q[1]
      BY <3>2, <3>3, AppendProperties
    <3> QED BY <3>1, <3>4, <1>2, <1>4
  <2>3. Head(a) = q[2] /\ Head(q) = q[1] /\ q[1] # q[2]
    <3>1. \A i, j \in 1 .. n : q[i] = q[j] => i = j
      BY <1>1, <1>2 DEF ReadyQueueOK
    <3> QED BY <3>1, <2>2, <1>2, <1>4
  <2>4. PICK x : x = IF k.p_schedtsk = q[1] THEN q[2] ELSE k.p_schedtsk
    OBVIOUS
  <2>5. r = [k EXCEPT !.ready_queue[pri] = a, !.p_schedtsk = x,
                      !.dspreq = @ \/ (k.p_schedtsk = q[1] /\ k.dspflg)]
    BY <1>1, <1>2, <1>4, <2>1, <2>3, <2>4 DEF rotate_ready_queue, queue_insert_prev
  <2>6. /\ r.ready_queue = [k.ready_queue EXCEPT ![pri] = a] /\ r.p_schedtsk = x
        /\ r.dspreq = (k.dspreq \/ (k.p_schedtsk = q[1] /\ k.dspflg))
        /\ r.ready_primap = k.ready_primap /\ r.priority = k.priority
        /\ r.tstat = k.tstat /\ r.dspflg = k.dspflg
        /\ DOMAIN r = DOMAIN k /\ Frame(k, r, ReadyFields)
    <3>1. {"tstat", "priority", "ready_queue", "ready_primap", "p_schedtsk", "dspflg",
           "dspreq"} \subseteq DOMAIN k
      BY DEF SchedType
    <3> QED BY ONLY <2>5, <3>1 DEF ReadyFields, Frame
  <2>7. /\ r.ready_queue[pri] = a
        /\ \A p \in TPRI \ {pri} : r.ready_queue[p] = k.ready_queue[p]
    BY <2>6 DEF SchedType
  <2>8. \A i \in 1 .. n : q[i] \in R /\ k.priority[q[i]] = pri
    BY <1>1, <1>2 DEF ReadyQueueOK
  <2>9. \A i, j \in 1 .. n : q[i] = q[j] => i = j
    BY <1>1, <1>2 DEF ReadyQueueOK
  <2>10. ASSUME NEW i \in 1 .. n
         PROVE  \/ i < n /\ i + 1 \in 1 .. n /\ a[i] = q[i + 1]
                \/ i = n /\ 1 \in 1 .. n /\ a[i] = q[1]
    BY <2>2
  <2>11. x \in Task \cup {NULL}
    BY <2>4, <1>2, <1>4 DEF SchedType
  <2>12. SchedType(r)
    <3>1. r.dspreq \in BOOLEAN
      BY <2>6
    <3> QED BY <3>1, <2>2, <2>6, <2>11 DEF SchedType
  <2>13. ReadyQueueOK(r, R)
    <3>1. ASSUME NEW p \in TPRI, NEW i \in 1 .. Len(r.ready_queue[p])
          PROVE  r.ready_queue[p][i] \in R /\ r.priority[r.ready_queue[p][i]] = p
      <4>1. CASE p # pri
        BY <4>1, <2>6, <2>7 DEF ReadyQueueOK
      <4>2. CASE p = pri
        <5>1. i \in 1 .. n /\ r.ready_queue[p][i] = a[i]
          BY <4>2, <2>2, <2>7
        <5> QED BY <5>1, <4>2, <2>6, <2>8, <2>10
      <4> QED BY <4>1, <4>2
    <3>2. ASSUME NEW p \in TPRI, NEW i \in 1 .. Len(r.ready_queue[p]),
                 NEW j \in 1 .. Len(r.ready_queue[p]),
                 r.ready_queue[p][i] = r.ready_queue[p][j]
          PROVE  i = j
      <4>1. CASE p # pri
        BY <4>1, <3>2, <2>7 DEF ReadyQueueOK
      <4>2. CASE p = pri
        <5>1. i \in 1 .. n /\ j \in 1 .. n /\ a[i] = a[j]
          BY <4>2, <3>2, <2>2, <2>7
        <5>2. \/ i < n /\ i + 1 \in 1 .. n /\ a[i] = q[i + 1]
              \/ i = n /\ 1 \in 1 .. n /\ a[i] = q[1]
          BY <5>1, <2>10
        <5>3. \/ j < n /\ j + 1 \in 1 .. n /\ a[j] = q[j + 1]
              \/ j = n /\ 1 \in 1 .. n /\ a[j] = q[1]
          BY <5>1, <2>10
        <5> QED BY <5>1, <5>2, <5>3, <2>9
      <4> QED BY <4>1, <4>2
    <3>3. ASSUME NEW t \in R
          PROVE  \E i \in 1 .. Len(r.ready_queue[r.priority[t]]) :
                   r.ready_queue[r.priority[t]][i] = t
      <4>1. k.priority[t] \in TPRI
        BY DEF SchedType
      <4>2. CASE k.priority[t] # pri
        BY <4>1, <4>2, <2>6, <2>7 DEF ReadyQueueOK
      <4>3. CASE k.priority[t] = pri
        <5>1. PICK i \in 1 .. n : q[i] = t
          BY <4>3, <1>1, <1>2 DEF ReadyQueueOK
        <5>2. \E j \in 1 .. n : a[j] = t
          <6>1. CASE i = 1
            BY <6>1, <5>1, <2>2, <1>4
          <6>2. CASE i # 1
            <7>1. i - 1 \in 1 .. n - 1 /\ i - 1 \in 1 .. n /\ (i - 1) + 1 = i
              BY <6>2
            <7> QED BY <7>1, <5>1, <2>2
          <6> QED BY <6>1, <6>2
        <5> QED BY <5>2, <4>3, <2>2, <2>6, <2>7
      <4> QED BY <4>2, <4>3
    <3>4. \A p \in TPRI : p \in r.ready_primap <=> r.ready_queue[p] # <<>>
      <4>1. q # <<>>
        BY <1>2, <1>4
      <4> QED BY <4>1, <1>1, <2>2, <2>6, <2>7 DEF ReadyQueueOK
    <3> QED BY <3>1, <3>2, <3>3, <3>4 DEF ReadyQueueOK
  <2>14. SchedtskOK(r)
    <3>1. pri \in k.ready_primap
      <4>1. q # <<>>
        BY <1>2, <1>4
      <4> QED BY <4>1, <1>1 DEF ReadyQueueOK
    <3>2. k.p_schedtsk # NULL
      BY <3>1 DEF SchedtskOK
    <3>3. PICK s \in Task : s = k.p_schedtsk
      BY <3>2 DEF SchedType
    <3>4. PICK sp \in TPRI : sp = k.priority[s]
      BY <3>3 DEF SchedType
    <3>5. /\ sp \in k.ready_primap /\ s = Head(k.ready_queue[sp])
          /\ \A p \in k.ready_primap : sp <= p
      BY <3>2, <3>3, <3>4 DEF SchedtskOK
    <3>6. CASE s = q[1]
      <4>1. x = q[2] /\ sp = pri /\ k.priority[x] = pri /\ x \in Task
        <5>1. x = q[2] /\ 1 \in 1 .. n /\ 2 \in 1 .. n
          <6>1. x = q[2]
            BY <3>3, <3>6, <2>4, Zenon
          <6>2. 1 \in 1 .. n /\ 2 \in 1 .. n
            BY <1>4
          <6> QED BY <6>1, <6>2
        <5>2. q[1] \in R /\ q[2] \in R /\ k.priority[q[1]] = pri /\ k.priority[q[2]] = pri
          BY <5>1, <2>8
        <5> QED BY <5>1, <5>2, <3>4, <3>6
      <4> QED BY <4>1, <3>1, <3>5, <2>3, <2>6, <2>7, NullAssumption DEF SchedtskOK
    <3>7. CASE s # q[1]
      <4>1. x = s /\ sp # pri
        BY <3>3, <3>5, <3>7, <2>3, <2>4, <1>1
      <4>2. r.p_schedtsk = s /\ r.priority[s] = sp /\ r.ready_queue[sp] = k.ready_queue[sp]
        BY <4>1, <3>4, <2>6, <2>7
      <4>3. s # NULL /\ r.ready_primap = k.ready_primap /\ k.ready_primap # {}
        BY <3>1, <2>6, NullAssumption
      <4> QED BY <4>2, <4>3, <3>5 DEF SchedtskOK
    <3> QED BY <3>6, <3>7
  <2>15. Reports(k, r)
    BY <2>4, <2>6 DEF Reports
  <2> QED BY <2>6, <2>12, <2>13, <2>14, <2>15
<1> QED BY <1>3, <1>4
=============================================================================
