-------------------------- MODULE TimeEvent_proofs ---------------------------
(***************************************************************************)
(* Time events for every number of handlers, every length of a tick and    *)
(* every width of EVTTIM: TypeOK, IndexOK, HeapOrdered, NotEarly,          *)
(* LefttimOK and NotLate as theorems.                                      *)
(*                                                                         *)
(* The inductive invariant is TimeInv. HeapOK says that the nodes are      *)
(* ordered by the wrapped comparison and that the indexes are their        *)
(* positions; ClockOK how the three clocks belong together; EventsOK that  *)
(* the wrapped time of every event is its exact time, kept in the ghost    *)
(* wait, rounded up to a millisecond; BlocksOK which handlers are          *)
(* registered.                                                             *)
(*                                                                         *)
(* The loops tmevt_up, tmevt_down and initialize_cyclic are recursive      *)
(* functions. What holds of them for every number of iterations is shown   *)
(* by the least number for which it would not hold (Least and              *)
(* SetInduction).                                                          *)
(***************************************************************************)
EXTENDS TimeEvent, TLAPS, SequenceTheorems, WellFoundedInduction

(***************************************************************************)
(* Induction.  Everything that is proved about a loop is the membership of *)
(* the number of its iterations in a set.                                  *)
(***************************************************************************)
LEMMA Least ==
  ASSUME NEW S, S \subseteq Nat, S # {}
  PROVE  \E m \in S : \A x \in S : m <= x
<1>1. PICK R : R = OpToRel(<, Nat) OBVIOUS
<1>2. IsWellFoundedOn(R, Nat) BY <1>1, NatLessThanWellFounded
<1>3. PICK p \in S : \A q \in S : ~(<<q, p>> \in R) BY <1>2, WFMin
<1>4. \A q \in S : ~(q < p) BY <1>1, <1>3 DEF OpToRel
<1> QED BY <1>4

(* A set that has 0 and with m - 1 also m has every number up to n. *)
LEMMA SetInduction ==
  ASSUME NEW n \in Nat, NEW T, 0 \in T, \A m \in 1 .. n : m - 1 \in T => m \in T
  PROVE  \A m \in 0 .. n : m \in T
<1> DEFINE S == {m \in 0 .. n : m \notin T}
<1> SUFFICES S = {} OBVIOUS
<1>1. SUFFICES ASSUME S # {} PROVE FALSE OBVIOUS
<1>2. S \subseteq Nat OBVIOUS
<1> HIDE DEF S
<1>3. PICK m \in S : \A x \in S : m <= x BY <1>1, <1>2, Least
<1>4. m \in 0 .. n /\ m \notin T BY DEF S
<1>5. m # 0 BY <1>4
<1>6. m - 1 \in 0 .. n /\ m - 1 \notin S BY <1>3, <1>4, <1>5
<1>7. m - 1 \in T BY <1>6 DEF S
<1> QED BY <1>4, <1>5, <1>7

(***************************************************************************)
(* The loop of tmevt_up, as the sequence of the states it goes through.    *)
(***************************************************************************)
UpTo(h, i, time, f, m) ==
  /\ DOMAIN f = 0 .. m /\ f[0] = [heap |-> h, place |-> i]
  /\ \A n \in 1 .. m : f[n] = up_step(f[n - 1], time)

(* tmevt_up is the last of a sequence of iterations, each determined by    *)
(* the one before it.                                                      *)
LEMMA UpLoop ==
  ASSUME NEW h, NEW i, NEW time, Len(h.node) \in Nat
  PROVE  \E f : UpTo(h, i, time, f, Len(h.node)) /\ tmevt_up(h, i, time) = f[Len(h.node)]
<1>1. PICK N \in Nat : N = Len(h.node) OBVIOUS
<1>2. PICK r : r = [heap |-> h, place |-> i] OBVIOUS
<1> DEFINE T == {m \in 0 .. N : \E f : UpTo(h, i, time, f, m)}
<1>3. 0 \in T
  <2>1. PICK f : f = [n \in 0 .. 0 |-> r] OBVIOUS
  <2>2. UpTo(h, i, time, f, 0) BY <1>2, <2>1 DEF UpTo
  <2> QED BY <2>2
<1>4. ASSUME NEW m \in 1 .. N, m - 1 \in T PROVE m \in T
  <2>1. PICK f : UpTo(h, i, time, f, m - 1) BY <1>4
  <2>2. PICK g : g = [n \in 0 .. m |-> IF n = m THEN up_step(f[m - 1], time) ELSE f[n]] OBVIOUS
  <2>3. DOMAIN g = 0 .. m /\ g[0] = [heap |-> h, place |-> i] BY <2>1, <2>2 DEF UpTo
  <2>4. \A n \in 0 .. m - 1 : g[n] = f[n] BY <2>2
  <2>5. g[m] = up_step(f[m - 1], time) BY <2>2
  <2>6. ASSUME NEW n \in 1 .. m PROVE g[n] = up_step(g[n - 1], time)
    <3>1. g[n - 1] = f[n - 1] BY <2>4
    <3>2. CASE n = m BY <2>5, <3>1, <3>2
    <3>3. CASE n # m
      <4>1. f[n] = up_step(f[n - 1], time) BY <2>1, <3>3 DEF UpTo
      <4>2. g[n] = f[n] BY <2>4, <3>3
      <4> QED BY <3>1, <4>1, <4>2
    <3> QED BY <3>2, <3>3
  <2>7. UpTo(h, i, time, g, m) BY <2>3, <2>6 DEF UpTo
  <2> QED BY <2>7
<1>5. N \in T
  <2>1. \A m \in 1 .. N : m - 1 \in T => m \in T BY <1>4
  <2> HIDE DEF T
  <2>2. \A m \in 0 .. N : m \in T BY <1>3, <2>1, SetInduction
  <2> QED BY <2>2
<1> DEFINE E(f) == [n \in 0 .. Len(h.node) |-> IF n = 0 THEN [heap |-> h, place |-> i]
                                               ELSE up_step(f[n - 1], time)]
<1>6. \E f : f = E(f)
  <2>1. PICK f : UpTo(h, i, time, f, N) BY <1>5
  <2>2. \A n \in 0 .. N : f[n] = E(f)[n] BY <1>1, <2>1 DEF UpTo
  <2>3. DOMAIN f = 0 .. N /\ DOMAIN E(f) = 0 .. N BY <1>1, <2>1 DEF UpTo
  <2>4. f = [n \in 0 .. N |-> f[n]] BY <2>1 DEF UpTo
  <2>5. PICK d : d = E(f) OBVIOUS
  <2>6. d = [n \in 0 .. N |-> d[n]] BY <1>1, <2>5
  <2>7. \A n \in 0 .. N : f[n] = d[n] BY <2>2, <2>5
  <2>8. f = d BY <2>4, <2>6, <2>7
  <2> QED BY <2>5, <2>8
<1>7. PICK g : g = CHOOSE f : f = E(f) OBVIOUS
<1>8. g = E(g) BY <1>6, <1>7
<1>9. tmevt_up(h, i, time) = g[Len(h.node)] BY <1>7 DEF tmevt_up
<1>10. UpTo(h, i, time, g, Len(h.node))
  <2>1. DOMAIN g = 0 .. N /\ \A n \in 0 .. N : g[n] = IF n = 0 THEN r ELSE up_step(g[n - 1], time)
    BY <1>1, <1>2, <1>8
  <2>2. g[0] = r BY <2>1
  <2>3. \A n \in 1 .. N : g[n] = up_step(g[n - 1], time) BY <2>1
  <2> QED BY <1>1, <1>2, <2>1, <2>2, <2>3 DEF UpTo
<1> QED BY <1>9, <1>10
-----------------------------------------------------------------------------
(***************************************************************************)
(* The heap.  D(t, m) is the distance of t from m, by which times are      *)
(* compared.                                                               *)
(***************************************************************************)
D(t, m) == (t - m) % EVTTIM_MOD

Node == [time : EVTTIM, p_tmevtb : Event]

HeapType(h) == /\ DOMAIN h = {"node", "index"} /\ h.node \in Seq(Node)
               /\ DOMAIN h.index = Event

(* The heap between two operations, ordered by the distance from m. *)
HeapLinks(h) ==
  /\ \A j \in 1 .. Len(h.node) : h.index[h.node[j].p_tmevtb] = j
  /\ \A x \in Event : h.index[x] # 0 => /\ h.index[x] \in 1 .. Len(h.node)
                                        /\ h.node[h.index[x]].p_tmevtb = x
HeapOrder(h, m) ==
  \A j \in 2 .. Len(h.node) : D(h.node[PARENT(j)].time, m) <= D(h.node[j].time, m)

HeapOK(h, m) == HeapType(h) /\ HeapLinks(h) /\ HeapOrder(h, m)

(***************************************************************************)
(* The heap inside an operation: the place i is empty, and is wanted for   *)
(* event e at time t.                                                      *)
(***************************************************************************)
Links(h, n, i, e) ==
  /\ HeapType(h) /\ Len(h.node) = n /\ i \in 1 .. n
  /\ \A j \in 1 .. n : j # i => /\ h.node[j].p_tmevtb # e
                                /\ h.index[h.node[j].p_tmevtb] = j
  /\ \A x \in Event : x # e /\ h.index[x] # 0 =>
       /\ h.index[x] \in 1 .. n /\ h.index[x] # i
       /\ h.node[h.index[x]].p_tmevtb = x

Order(h, n, i, m) ==
  /\ \A j \in 2 .. n : j # i /\ PARENT(j) # i =>
       D(h.node[PARENT(j)].time, m) <= D(h.node[j].time, m)
  /\ \A j \in 2 .. n : PARENT(j) = i /\ i > 1 =>
       D(h.node[PARENT(i)].time, m) <= D(h.node[j].time, m)

Below(h, n, i, t, m) == \A j \in 2 .. n : PARENT(j) = i => D(t, m) <= D(h.node[j].time, m)
Above(h, i, t, m) == i > 1 => D(h.node[PARENT(i)].time, m) <= D(t, m)

(* The registered events other than e, and their times, are the same in g and h. *)
TimeOf(h, x) == h.node[h.index[x]].time
Same(g, h, e) ==
  \A x \in Event : x # e => /\ h.index[x] = 0 <=> g.index[x] = 0
                            /\ g.index[x] # 0 => TimeOf(h, x) = TimeOf(g, x)

(* The parent of a node is before it, and the children of i are 2i and 2i  *)
(* + 1.                                                                    *)
LEMMA Parents ==
  /\ \A j \in Nat : j > 1 => PARENT(j) \in Nat /\ PARENT(j) >= 1 /\ PARENT(j) < j
  /\ \A i, j \in Nat : PARENT(j) = i <=> (j = 2 * i \/ j = 2 * i + 1)
  BY DEF PARENT

(* What the assumption says about each constant. *)
LEMMA Constants ==
  /\ EVTTIM_MOD \in Nat \ {0} /\ TIC_NUME \in Nat \ {0} /\ TIC_DENO \in Nat \ {0}
  /\ TMAX_RELTIM \in Int /\ TMAX_RELTIM < EVTTIM_MOD
  BY TimeAssumption, SMTT(60)

(* A remainder by M of a number between -M and 2M. *)
LEMMA Remainder ==
  ASSUME NEW M \in Nat \ {0}, NEW a \in Int, -M < a, a < 2 * M
  PROVE  a % M = IF a < 0 THEN a + M ELSE IF a < M THEN a ELSE a - M
  OBVIOUS

(* The distance of a time from min_time is a word of EVTTIM. *)
LEMMA Distances ==
  ASSUME NEW m \in EVTTIM
  PROVE  \A t \in EVTTIM : D(t, m) \in EVTTIM /\ D(t, m) = IF t < m THEN t - m + EVTTIM_MOD ELSE t - m
<1> SUFFICES ASSUME NEW t \in EVTTIM
             PROVE D(t, m) \in EVTTIM /\ D(t, m) = IF t < m THEN t - m + EVTTIM_MOD ELSE t - m
  OBVIOUS
<1>1. PICK M \in Nat \ {0} : M = EVTTIM_MOD BY Constants
<1>2. PICK a \in Int : a = t - m BY <1>1 DEF EVTTIM
<1>3. -M < a /\ a < M BY <1>1, <1>2 DEF EVTTIM
<1>4. -M < a /\ a < 2 * M BY <1>3
<1>5. a % M = IF a < 0 THEN a + M ELSE IF a < M THEN a ELSE a - M BY <1>4, Remainder
<1>6. a % M = IF a < 0 THEN a + M ELSE a BY <1>3, <1>5
<1> QED BY <1>1, <1>2, <1>3, <1>6 DEF D, EVTTIM

(* A node is put in a place. *)
LEMMA PutHeap ==
  ASSUME NEW h, HeapType(h), NEW i \in 1 .. Len(h.node), NEW x \in Node, NEW w, w = put(h, i, x)
  PROVE  /\ HeapType(w) /\ Len(w.node) = Len(h.node)
         /\ w.node = [h.node EXCEPT ![i] = x]
         /\ w.index = [h.index EXCEPT ![x.p_tmevtb] = i]
<1>1. /\ DOMAIN w = {"node", "index"} /\ w.node = [h.node EXCEPT ![i] = x]
      /\ w.index = [h.index EXCEPT ![x.p_tmevtb] = i]
  BY DEF put, HeapType
<1>2. w.node \in Seq(Node) /\ Len(w.node) = Len(h.node) BY <1>1 DEF HeapType
<1> QED BY <1>1, <1>2 DEF HeapType

(* Moving node p into the hole at i makes a hole at p and keeps the other  *)
(* links.                                                                  *)
LEMMA MoveLinks ==
  ASSUME NEW h, NEW n, NEW i, NEW e, Links(h, n, i, e), NEW p \in 1 .. n, p # i,
         NEW w, w = put(h, i, h.node[p])
  PROVE  /\ Links(w, n, p, e) /\ Same(h, w, e)
         /\ w.node = [h.node EXCEPT ![i] = h.node[p]]
<1>0. HeapType(h) /\ Len(h.node) = n /\ i \in 1 .. n BY DEF Links
<1>1. PICK v : v = h.node[p] OBVIOUS
<1>2. v \in Node BY <1>0, <1>1 DEF HeapType
<1>3. /\ HeapType(w) /\ Len(w.node) = n
      /\ w.node = [h.node EXCEPT ![i] = v] /\ w.index = [h.index EXCEPT ![v.p_tmevtb] = i]
  BY <1>0, <1>1, <1>2, PutHeap
<1>4. PICK x0 \in Event : x0 = v.p_tmevtb BY <1>2 DEF Node
<1>5. x0 # e /\ h.index[x0] = p BY <1>1, <1>4 DEF Links
<1>6. /\ w.node[i] = v /\ \A j \in 1 .. n : j # i => w.node[j] = h.node[j]
  BY <1>0, <1>3 DEF HeapType
<1>7. w.index[x0] = i /\ \A x \in Event : x # x0 => w.index[x] = h.index[x]
  BY <1>0, <1>3, <1>4 DEF HeapType
<1>8. \A j \in 1 .. n : h.node[j].p_tmevtb \in Event
  <2>1. \A j \in 1 .. n : h.node[j] \in Node BY <1>0 DEF HeapType
  <2> QED BY <2>1 DEF Node
<1>9. ASSUME NEW j \in 1 .. n, j # p
      PROVE  w.node[j].p_tmevtb # e /\ w.index[w.node[j].p_tmevtb] = j
  <2>1. CASE j = i BY <1>4, <1>5, <1>6, <1>7, <2>1
  <2>2. CASE j # i
    <3>1. h.node[j].p_tmevtb # e /\ h.index[h.node[j].p_tmevtb] = j BY <2>2 DEF Links
    <3>2. h.node[j].p_tmevtb # x0 BY <1>5, <1>9, <3>1
    <3> QED BY <1>6, <1>7, <1>8, <2>2, <3>1, <3>2
  <2> QED BY <2>1, <2>2
<1>10. ASSUME NEW x \in Event, x # e
       PROVE  /\ w.index[x] = 0 <=> h.index[x] = 0
              /\ w.index[x] # 0 => /\ w.index[x] \in 1 .. n /\ w.index[x] # p
                                   /\ w.node[w.index[x]].p_tmevtb = x
                                   /\ TimeOf(w, x) = TimeOf(h, x)
  <2>1. CASE x = x0
    <3>1. w.index[x] = i /\ h.index[x] = p BY <1>5, <1>7, <2>1
    <3>2. i # 0 /\ p # 0 BY <1>0
    <3> QED BY <1>0, <1>1, <1>4, <1>6, <2>1, <3>1, <3>2 DEF TimeOf
  <2>2. CASE x # x0
    <3>1. w.index[x] = h.index[x] BY <1>7, <2>2
    <3>2. CASE h.index[x] # 0
      <4>1. h.index[x] \in 1 .. n /\ h.index[x] # i /\ h.node[h.index[x]].p_tmevtb = x
        BY <1>10, <3>2 DEF Links
      <4>2. h.index[x] # p BY <1>1, <1>4, <2>2, <4>1
      <4>3. w.node[h.index[x]] = h.node[h.index[x]] BY <1>6, <4>1
      <4> QED BY <3>1, <4>1, <4>2, <4>3 DEF TimeOf
    <3> QED BY <3>1, <3>2
  <2> QED BY <2>1, <2>2
<1>11. Links(w, n, p, e) BY <1>3, <1>9, <1>10 DEF Links
<1>12. Same(h, w, e) BY <1>10 DEF Same
<1> QED BY <1>1, <1>3, <1>11, <1>12

(***************************************************************************)
(* The search towards the root.                                            *)
(***************************************************************************)
UpState(g, r, n, e, t, m) ==
  /\ Links(r.heap, n, r.place, e) /\ Same(g, r.heap, e)
  /\ Order(r.heap, n, r.place, m) /\ Below(r.heap, n, r.place, t, m)

(* If two changes keep every event but e, so does one after the other. *)
LEMMA SameTrans ==
  ASSUME NEW g, NEW h, NEW w, NEW e, Same(g, h, e), Same(h, w, e)
  PROVE  Same(g, w, e)
  BY DEF Same

(* The times in the places of a heap, as distances. *)
LEMMA NodeTimes ==
  ASSUME NEW h, NEW n, NEW i, NEW e, Links(h, n, i, e), NEW m \in EVTTIM
  PROVE  \A j \in 1 .. n : h.node[j] \in Node /\ D(h.node[j].time, m) \in Nat
<1>1. \A j \in 1 .. n : h.node[j] \in Node BY DEF Links, HeapType
<1>2. \A j \in 1 .. n : h.node[j].time \in EVTTIM BY <1>1 DEF Node
<1>3. \A t \in EVTTIM : D(t, m) \in Nat BY Distances DEF EVTTIM
<1> QED BY <1>1, <1>2, <1>3

(* One iteration of tmevt_up keeps its loop invariant UpState and moves    *)
(* the hole up.                                                            *)
LEMMA UpMove ==
  ASSUME NEW g, NEW r, NEW n \in Nat, NEW e, NEW t \in EVTTIM, NEW m \in EVTTIM,
         UpState(g, r, n, e, t, m), r.place # 1,
         ~(D(r.heap.node[PARENT(r.place)].time, m) <= D(t, m)),
         NEW q, q = [heap |-> put(r.heap, r.place, r.heap.node[PARENT(r.place)]),
                     place |-> PARENT(r.place)]
  PROVE  UpState(g, q, n, e, t, m) /\ q.place \in Nat /\ q.place < r.place
<1>1. PICK h, i, p, w : h = r.heap /\ i = r.place /\ p = PARENT(i) /\ w = q.heap OBVIOUS
<1>2. /\ Links(h, n, i, e) /\ Same(g, h, e) /\ Order(h, n, i, m) /\ Below(h, n, i, t, m)
      /\ i # 1 /\ ~(D(h.node[p].time, m) <= D(t, m)) /\ w = put(h, i, h.node[p]) /\ q.place = p
  BY <1>1 DEF UpState
<1>3. i \in 2 .. n BY <1>2 DEF Links
<1>4. p \in 1 .. n /\ p < i BY <1>1, <1>3, Parents
<1>5. /\ Links(w, n, p, e) /\ Same(h, w, e) /\ w.node = [h.node EXCEPT ![i] = h.node[p]]
  BY <1>2, <1>4, MoveLinks
<1>6. DOMAIN h.node = 1 .. n BY <1>2 DEF Links, HeapType
<1>7. w.node[i] = h.node[p] /\ \A j \in 1 .. n : j # i => w.node[j] = h.node[j] BY <1>3, <1>5, <1>6
<1>8. \A j \in 1 .. n : D(h.node[j].time, m) \in Nat BY <1>2, NodeTimes
<1>9. D(t, m) \in Nat BY Distances DEF EVTTIM
<1>10. ASSUME NEW j \in 2 .. n
       PROVE  /\ j # p /\ PARENT(j) # p => D(w.node[PARENT(j)].time, m) <= D(w.node[j].time, m)
              /\ PARENT(j) = p /\ p > 1 => D(w.node[PARENT(p)].time, m) <= D(w.node[j].time, m)
              /\ PARENT(j) = p => D(t, m) <= D(w.node[j].time, m)
  <2>1. PARENT(j) \in 1 .. n /\ PARENT(j) < j BY Parents
  <2>2. p > 1 => PARENT(p) \in 1 .. n /\ PARENT(p) < p BY <1>4, Parents
  <2>3. j # i /\ PARENT(j) # i => D(h.node[PARENT(j)].time, m) <= D(h.node[j].time, m)
    BY <1>2 DEF Order
  <2>4. PARENT(j) = i => D(h.node[p].time, m) <= D(h.node[j].time, m)
    BY <1>1, <1>2, <1>3 DEF Order
  <2>5. p > 1 => D(h.node[PARENT(p)].time, m) <= D(h.node[p].time, m)
    <3>1. SUFFICES ASSUME p > 1 PROVE D(h.node[PARENT(p)].time, m) <= D(h.node[p].time, m)
      OBVIOUS
    <3>2. p \in 2 .. n /\ p # i /\ PARENT(p) # i BY <1>4, <2>2, <3>1, <1>3
    <3> QED BY <1>2, <3>2 DEF Order
  <2>6. D(t, m) <= D(h.node[p].time, m) BY <1>2, <1>4, <1>8, <1>9
  <2>7. PICK dj \in Nat, dp \in Nat : dj = D(h.node[j].time, m) /\ dp = D(h.node[p].time, m)
    BY <1>4, <1>8
  <2>8. ASSUME j # p, PARENT(j) # p
        PROVE  D(w.node[PARENT(j)].time, m) <= D(w.node[j].time, m)
    <3>1. j # i BY <1>1, <2>8
    <3>2. w.node[j] = h.node[j] BY <1>7, <3>1
    <3>3. CASE PARENT(j) = i BY <1>7, <2>4, <3>2, <3>3
    <3>4. CASE PARENT(j) # i
      <4>1. w.node[PARENT(j)] = h.node[PARENT(j)] BY <1>7, <2>1, <3>4
      <4> QED BY <2>3, <3>1, <3>2, <3>4, <4>1
    <3> QED BY <3>3, <3>4
  <2>9. ASSUME PARENT(j) = p
        PROVE  D(h.node[p].time, m) <= D(w.node[j].time, m)
    <3>1. CASE j = i BY <1>4, <1>7, <1>8, <3>1
    <3>2. CASE j # i
      <4>1. w.node[j] = h.node[j] BY <1>7, <3>2
      <4>2. p # i BY <1>4, <1>3
      <4> QED BY <2>3, <2>9, <3>2, <4>1, <4>2
    <3> QED BY <3>1, <3>2
  <2>10. PICK dw \in Nat : dw = D(w.node[j].time, m)
    <3>1. CASE j = i BY <1>4, <1>7, <1>8, <3>1
    <3>2. CASE j # i BY <1>7, <1>8, <3>2
    <3> QED BY <3>1, <3>2
  <2>11. ASSUME PARENT(j) = p, p > 1
         PROVE  D(w.node[PARENT(p)].time, m) <= D(w.node[j].time, m)
    <3>1. PARENT(p) \in 1 .. n /\ PARENT(p) # i BY <1>3, <1>4, <2>2, <2>11
    <3>2. w.node[PARENT(p)] = h.node[PARENT(p)] BY <1>7, <3>1
    <3>3. PICK dq \in Nat : dq = D(h.node[PARENT(p)].time, m) BY <1>8, <3>1
    <3>4. dq <= dp /\ dp <= dw BY <2>5, <2>7, <2>9, <2>10, <2>11, <3>3
    <3>5. dq <= dw BY <3>4
    <3> QED BY <2>10, <3>2, <3>3, <3>5
  <2>12. ASSUME PARENT(j) = p PROVE D(t, m) <= D(w.node[j].time, m)
    <3>1. PICK d \in Nat : d = D(t, m) BY <1>9
    <3>2. d <= dp /\ dp <= dw BY <2>6, <2>7, <2>9, <2>10, <2>12, <3>1
    <3>3. d <= dw BY <3>2
    <3> QED BY <2>10, <3>1, <3>3
  <2> QED BY <2>8, <2>11, <2>12
<1>11. Order(w, n, p, m) BY <1>10 DEF Order
<1>12. Below(w, n, p, t, m) BY <1>10 DEF Below
<1>13. Same(g, w, e) BY <1>2, <1>5, SameTrans
<1>14. q.heap = w /\ q.place = p /\ p \in Nat /\ p < r.place BY <1>1, <1>2, <1>4
<1> QED BY <1>5, <1>11, <1>12, <1>13, <1>14 DEF UpState

(* When the search ends, the place fits. *)
LEMMA Up ==
  ASSUME NEW g, NEW h, NEW n \in Nat, NEW i, NEW e, NEW t \in EVTTIM, min_time \in EVTTIM,
         UpState(g, [heap |-> h, place |-> i], n, e, t, min_time),
         NEW r, r = tmevt_up(h, i, t)
  PROVE  UpState(g, r, n, e, t, min_time) /\ Above(r.heap, r.place, t, min_time)
<1>0. PICK m \in EVTTIM : m = min_time OBVIOUS
<1>1. PICK r0 : r0 = [heap |-> h, place |-> i] OBVIOUS
<1>2. UpState(g, r0, n, e, t, m) /\ r0.heap = h /\ r0.place = i BY <1>0, <1>1
<1>3. Len(h.node) = n /\ i \in 1 .. n BY <1>2 DEF UpState, Links
<1>4. PICK f : UpTo(h, i, t, f, n) /\ r = f[n] BY <1>3, UpLoop
<1>5. f[0] = r0 /\ \A k \in 1 .. n : f[k] = up_step(f[k - 1], t) BY <1>1, <1>4 DEF UpTo
<1> DEFINE Inv(k) == /\ UpState(g, f[k], n, e, t, m)
                     /\ f[k].place \in Nat /\ (up_done(f[k], t) \/ f[k].place <= i - k)
           T == {k \in 0 .. n : Inv(k)}
<1>6. 0 \in T BY <1>2, <1>3, <1>5
<1>7. ASSUME NEW k \in 1 .. n, k - 1 \in T PROVE k \in T
  <2>1. PICK a, b : a = f[k - 1] /\ b = f[k] OBVIOUS
  <2>2. b = up_step(a, t) BY <1>5, <2>1
  <2>3. /\ UpState(g, a, n, e, t, m) /\ a.place \in Nat
        /\ up_done(a, t) \/ a.place <= i - (k - 1)
    BY <1>7, <2>1
  <2>4. CASE up_done(a, t)
    <3>1. b = a BY <2>2, <2>4 DEF up_step
    <3>2. UpState(g, b, n, e, t, m) /\ b.place \in Nat /\ up_done(b, t) BY <2>3, <2>4, <3>1
    <3> QED BY <2>1, <3>2
  <2>5. CASE ~up_done(a, t)
    <3>1. a.place # 1 /\ ~(D(a.heap.node[PARENT(a.place)].time, m) <= D(t, m))
      BY <1>0, <2>5 DEF up_done, EVTTIM_LE, D
    <3>2. b = [heap |-> put(a.heap, a.place, a.heap.node[PARENT(a.place)]),
               place |-> PARENT(a.place)]
      BY <2>2, <2>5 DEF up_step
    <3>3. UpState(g, b, n, e, t, m) /\ b.place \in Nat /\ b.place < a.place
      BY <2>3, <3>1, <3>2, UpMove
    <3>4. b.place <= i - k BY <1>3, <2>3, <2>5, <3>3
    <3> QED BY <2>1, <3>3, <3>4
  <2> QED BY <2>4, <2>5
<1>8. n \in T
  <2>1. \A k \in 1 .. n : k - 1 \in T => k \in T BY <1>7
  <2> HIDE DEF T
  <2>2. \A k \in 0 .. n : k \in T BY <1>6, <2>1, SetInduction
  <2> QED BY <2>2
<1>9. UpState(g, r, n, e, t, m) /\ (up_done(r, t) \/ r.place <= i - n) BY <1>4, <1>8
<1>10. r.place \in 1 .. n BY <1>9 DEF UpState, Links
<1>11. up_done(r, t) BY <1>3, <1>9, <1>10
<1>12. Above(r.heap, r.place, t, m) BY <1>0, <1>11 DEF up_done, Above, EVTTIM_LE, D
<1> QED BY <1>0, <1>9, <1>12

(***************************************************************************)
(* The search towards the leaves.                                          *)
(***************************************************************************)
DownTo(h, i, time, f, m) ==
  /\ DOMAIN f = 0 .. m /\ f[0] = [heap |-> h, place |-> i]
  /\ \A n \in 1 .. m : f[n] = down_step(f[n - 1], time)

(* tmevt_down is the last of a sequence of iterations, each determined by  *)
(* the one before it.                                                      *)
LEMMA DownLoop ==
  ASSUME NEW h, NEW i, NEW time, Len(h.node) \in Nat
  PROVE  \E f : DownTo(h, i, time, f, Len(h.node)) /\ tmevt_down(h, i, time) = f[Len(h.node)]
<1>1. PICK N \in Nat : N = Len(h.node) OBVIOUS
<1>2. PICK r : r = [heap |-> h, place |-> i] OBVIOUS
<1> DEFINE T == {m \in 0 .. N : \E f : DownTo(h, i, time, f, m)}
<1>3. 0 \in T
  <2>1. PICK f : f = [n \in 0 .. 0 |-> r] OBVIOUS
  <2>2. DownTo(h, i, time, f, 0) BY <1>2, <2>1 DEF DownTo
  <2> QED BY <2>2
<1>4. ASSUME NEW m \in 1 .. N, m - 1 \in T PROVE m \in T
  <2>1. PICK f : DownTo(h, i, time, f, m - 1) BY <1>4
  <2>2. PICK g : g = [n \in 0 .. m |-> IF n = m THEN down_step(f[m - 1], time) ELSE f[n]] OBVIOUS
  <2>3. DOMAIN g = 0 .. m /\ g[0] = [heap |-> h, place |-> i] BY <2>1, <2>2 DEF DownTo
  <2>4. \A n \in 0 .. m - 1 : g[n] = f[n] BY <2>2
  <2>5. g[m] = down_step(f[m - 1], time) BY <2>2
  <2>6. ASSUME NEW n \in 1 .. m PROVE g[n] = down_step(g[n - 1], time)
    <3>1. g[n - 1] = f[n - 1] BY <2>4
    <3>2. CASE n = m BY <2>5, <3>1, <3>2
    <3>3. CASE n # m
      <4>1. f[n] = down_step(f[n - 1], time) BY <2>1, <3>3 DEF DownTo
      <4>2. g[n] = f[n] BY <2>4, <3>3
      <4> QED BY <3>1, <4>1, <4>2
    <3> QED BY <3>2, <3>3
  <2>7. DownTo(h, i, time, g, m) BY <2>3, <2>6 DEF DownTo
  <2> QED BY <2>7
<1>5. N \in T
  <2>1. \A m \in 1 .. N : m - 1 \in T => m \in T BY <1>4
  <2> HIDE DEF T
  <2>2. \A m \in 0 .. N : m \in T BY <1>3, <2>1, SetInduction
  <2> QED BY <2>2
<1> DEFINE E(f) == [n \in 0 .. Len(h.node) |-> IF n = 0 THEN [heap |-> h, place |-> i]
                                               ELSE down_step(f[n - 1], time)]
<1>6. \E f : f = E(f)
  <2>1. PICK f : DownTo(h, i, time, f, N) BY <1>5
  <2>2. \A n \in 0 .. N : f[n] = E(f)[n] BY <1>1, <2>1 DEF DownTo
  <2>3. DOMAIN f = 0 .. N /\ DOMAIN E(f) = 0 .. N BY <1>1, <2>1 DEF DownTo
  <2>4. f = [n \in 0 .. N |-> f[n]] BY <2>1 DEF DownTo
  <2>5. PICK d : d = E(f) OBVIOUS
  <2>6. d = [n \in 0 .. N |-> d[n]] BY <1>1, <2>5
  <2>7. \A n \in 0 .. N : f[n] = d[n] BY <2>2, <2>5
  <2>8. f = d BY <2>4, <2>6, <2>7
  <2> QED BY <2>5, <2>8
<1>7. PICK g : g = CHOOSE f : f = E(f) OBVIOUS
<1>8. g = E(g) BY <1>6, <1>7
<1>9. tmevt_down(h, i, time) = g[Len(h.node)] BY <1>7 DEF tmevt_down
<1>10. DownTo(h, i, time, g, Len(h.node))
  <2>1. DOMAIN g = 0 .. N /\ \A n \in 0 .. N : g[n] = IF n = 0 THEN r ELSE down_step(g[n - 1], time)
    BY <1>1, <1>2, <1>8
  <2>2. g[0] = r BY <2>1
  <2>3. \A n \in 1 .. N : g[n] = down_step(g[n - 1], time) BY <2>1
  <2> QED BY <1>1, <1>2, <2>1, <2>2, <2>3 DEF DownTo
<1> QED BY <1>9, <1>10

DownState(g, r, n, e, t, m) ==
  /\ Links(r.heap, n, r.place, e) /\ Same(g, r.heap, e)
  /\ Order(r.heap, n, r.place, m) /\ Above(r.heap, r.place, t, m)

(* The child to which the search goes is the earlier one. *)
LEMMA EarlyChild ==
  ASSUME NEW h, NEW n \in Nat, NEW i, NEW e, Links(h, n, i, e), min_time \in EVTTIM,
         LCHILD(i) <= n, NEW c, c = early_child(h, i)
  PROVE  /\ c \in 2 .. n /\ PARENT(c) = i /\ i < c
         /\ \A j \in 2 .. n : PARENT(j) = i =>
              D(h.node[c].time, min_time) <= D(h.node[j].time, min_time)
<1>1. Len(h.node) = n /\ i \in 1 .. n BY DEF Links
<1>2. PICK m \in EVTTIM : m = min_time OBVIOUS
<1>3. \A j \in 1 .. n : D(h.node[j].time, m) \in Nat BY NodeTimes
<1>4. PICK l \in 2 .. n : l = 2 * i BY <1>1 DEF LCHILD
<1>5. \A j \in 2 .. n : PARENT(j) = i <=> (j = l \/ j = l + 1) BY <1>1, <1>4, Parents
<1>6. c = IF l + 1 <= n /\ D(h.node[l + 1].time, m) < D(h.node[l].time, m) THEN l + 1 ELSE l
  BY <1>1, <1>2, <1>4 DEF early_child, LCHILD, EVTTIM_LT, D
<1>7. c \in 2 .. n /\ PARENT(c) = i /\ i < c BY <1>1, <1>4, <1>5, <1>6
<1>8. ASSUME NEW j \in 2 .. n, PARENT(j) = i
      PROVE  D(h.node[c].time, m) <= D(h.node[j].time, m)
  <2>1. PICK dl \in Nat : dl = D(h.node[l].time, m) BY <1>3, <1>4
  <2>2. j = l \/ j = l + 1 BY <1>5, <1>8
  <2>3. CASE l + 1 <= n
    <3>1. PICK dr \in Nat : dr = D(h.node[l + 1].time, m) BY <1>3, <1>4, <2>3
    <3>2. c = IF dr < dl THEN l + 1 ELSE l BY <1>6, <2>1, <2>3, <3>1
    <3>3. D(h.node[c].time, m) = IF dr < dl THEN dr ELSE dl BY <2>1, <3>1, <3>2
    <3>4. D(h.node[j].time, m) \in {dl, dr} BY <2>1, <2>2, <3>1
    <3> QED BY <3>3, <3>4
  <2>4. CASE ~(l + 1 <= n)
    <3>1. c = l /\ j = l BY <1>4, <1>6, <2>2, <2>4
    <3> QED BY <2>1, <3>1
  <2> QED BY <2>3, <2>4
<1> QED BY <1>2, <1>7, <1>8

(* One iteration of tmevt_down keeps its loop invariant DownState and      *)
(* moves the hole down.                                                    *)
LEMMA DownMove ==
  ASSUME NEW g, NEW r, NEW n \in Nat, NEW e, NEW t \in EVTTIM, NEW m \in EVTTIM, m = min_time,
         DownState(g, r, n, e, t, m), LCHILD(r.place) <= n,
         ~(D(t, m) <= D(r.heap.node[early_child(r.heap, r.place)].time, m)),
         NEW q, q = [heap |-> put(r.heap, r.place, r.heap.node[early_child(r.heap, r.place)]),
                     place |-> early_child(r.heap, r.place)]
  PROVE  DownState(g, q, n, e, t, m) /\ q.place \in Nat /\ q.place > r.place
<1>1. PICK h, i, c, w : h = r.heap /\ i = r.place /\ c = early_child(h, i) /\ w = q.heap OBVIOUS
<1>2. /\ Links(h, n, i, e) /\ Same(g, h, e) /\ Order(h, n, i, m) /\ Above(h, i, t, m)
      /\ ~(D(t, m) <= D(h.node[c].time, m)) /\ w = put(h, i, h.node[c]) /\ q.place = c
  BY <1>1 DEF DownState
<1>3. i \in 1 .. n /\ DOMAIN h.node = 1 .. n BY <1>2 DEF Links, HeapType
<1>4. LCHILD(i) <= n BY <1>1
<1>5. /\ c \in 2 .. n /\ PARENT(c) = i /\ i < c
      /\ \A j \in 2 .. n : PARENT(j) = i => D(h.node[c].time, m) <= D(h.node[j].time, m)
  <2>1. min_time \in EVTTIM OBVIOUS
  <2>2. /\ c \in 2 .. n /\ PARENT(c) = i /\ i < c
        /\ \A j \in 2 .. n : PARENT(j) = i =>
             D(h.node[c].time, min_time) <= D(h.node[j].time, min_time)
    <3>1. Links(h, n, i, e) /\ c = early_child(h, i) BY <1>1, <1>2
    <3> QED BY ONLY n \in Nat, <1>4, <2>1, <3>1, EarlyChild
  <2> QED BY <2>2
<1>6. /\ Links(w, n, c, e) /\ Same(h, w, e) /\ w.node = [h.node EXCEPT ![i] = h.node[c]]
  <2>1. c \in 1 .. n /\ c # i BY <1>3, <1>5
  <2> QED BY <1>2, <2>1, MoveLinks
<1>7. w.node[i] = h.node[c] /\ \A j \in 1 .. n : j # i => w.node[j] = h.node[j] BY <1>3, <1>6
<1>8. \A j \in 1 .. n : D(h.node[j].time, m) \in Nat BY <1>2, NodeTimes
<1>9. D(t, m) \in Nat BY Distances DEF EVTTIM
<1>10. ASSUME NEW j \in 2 .. n
       PROVE  /\ j # c /\ PARENT(j) # c => D(w.node[PARENT(j)].time, m) <= D(w.node[j].time, m)
              /\ PARENT(j) = c => D(w.node[PARENT(c)].time, m) <= D(w.node[j].time, m)
  <2>1. PARENT(j) \in 1 .. n /\ PARENT(j) < j BY Parents
  <2>3. j # i /\ PARENT(j) # i => D(h.node[PARENT(j)].time, m) <= D(h.node[j].time, m)
    BY <1>2 DEF Order
  <2>8. ASSUME j # c, PARENT(j) # c
        PROVE  D(w.node[PARENT(j)].time, m) <= D(w.node[j].time, m)
    <3>1. CASE j = i
      <4>1. D(h.node[PARENT(i)].time, m) <= D(h.node[c].time, m)
        BY <1>2, <1>5, <3>1 DEF Order
      <4>2. w.node[PARENT(j)] = h.node[PARENT(i)] BY <1>7, <2>1, <3>1
      <4> QED BY <1>7, <3>1, <4>1, <4>2
    <3>2. CASE j # i /\ PARENT(j) = i
      <4>1. D(h.node[c].time, m) <= D(h.node[j].time, m) BY <1>5, <3>2
      <4>2. w.node[j] = h.node[j] BY <1>7, <3>2
      <4> QED BY <1>7, <3>2, <4>1, <4>2
    <3>3. CASE j # i /\ PARENT(j) # i
      <4>1. w.node[PARENT(j)] = h.node[PARENT(j)] /\ w.node[j] = h.node[j] BY <1>7, <2>1, <3>3
      <4> QED BY <2>3, <3>3, <4>1
    <3> QED BY <3>1, <3>2, <3>3
  <2>9. ASSUME PARENT(j) = c
        PROVE  D(w.node[PARENT(c)].time, m) <= D(w.node[j].time, m)
    <3>1. j # i /\ PARENT(j) # i BY <1>3, <1>5, <2>1, <2>9
    <3>2. D(h.node[c].time, m) <= D(h.node[j].time, m) BY <2>3, <2>9, <3>1
    <3>3. w.node[j] = h.node[j] /\ w.node[PARENT(c)] = h.node[c] BY <1>5, <1>7, <3>1
    <3> QED BY <3>2, <3>3
  <2> QED BY <2>8, <2>9
<1>11. Order(w, n, c, m) BY <1>10 DEF Order
<1>12. Above(w, c, t, m)
  <2>1. D(h.node[c].time, m) <= D(t, m)
    <3>1. PICK a \in Nat, b \in Nat : a = D(t, m) /\ b = D(h.node[c].time, m) BY <1>5, <1>8, <1>9
    <3>2. ~(a <= b) BY <1>2, <3>1
    <3>3. b <= a BY <3>2
    <3> QED BY <3>1, <3>3
  <2> QED BY <1>5, <1>7, <2>1 DEF Above
<1>13. Same(g, w, e) BY <1>2, <1>6, SameTrans
<1>14. q.heap = w /\ q.place = c /\ c \in Nat /\ c > r.place BY <1>1, <1>2, <1>3, <1>5
<1> QED BY <1>6, <1>11, <1>12, <1>13, <1>14 DEF DownState

(* tmevt_down ends at a place below which no event is earlier. *)
LEMMA Down ==
  ASSUME NEW g, NEW h, NEW n \in Nat, NEW i, NEW e, NEW t \in EVTTIM, min_time \in EVTTIM,
         DownState(g, [heap |-> h, place |-> i], n, e, t, min_time),
         NEW r, r = tmevt_down(h, i, t)
  PROVE  DownState(g, r, n, e, t, min_time) /\ Below(r.heap, n, r.place, t, min_time)
<1>0. PICK m \in EVTTIM : m = min_time OBVIOUS
<1>1. PICK r0 : r0 = [heap |-> h, place |-> i] OBVIOUS
<1>2. DownState(g, r0, n, e, t, m) /\ r0.heap = h /\ r0.place = i BY <1>0, <1>1
<1>3. Len(h.node) = n /\ i \in 1 .. n BY <1>2 DEF DownState, Links
<1>4. PICK f : DownTo(h, i, t, f, n) /\ r = f[n] BY <1>3, DownLoop
<1>5. f[0] = r0 /\ \A k \in 1 .. n : f[k] = down_step(f[k - 1], t) BY <1>1, <1>4 DEF DownTo
<1> DEFINE Inv(k) == /\ DownState(g, f[k], n, e, t, m)
                     /\ f[k].place \in Nat /\ (down_done(f[k], t) \/ f[k].place >= i + k)
           T == {k \in 0 .. n : Inv(k)}
<1>6. 0 \in T BY <1>2, <1>3, <1>5
<1>7. ASSUME NEW k \in 1 .. n, k - 1 \in T PROVE k \in T
  <2>1. PICK a, b : a = f[k - 1] /\ b = f[k] OBVIOUS
  <2>2. b = down_step(a, t) BY <1>5, <2>1
  <2>3. /\ DownState(g, a, n, e, t, m) /\ a.place \in Nat
        /\ down_done(a, t) \/ a.place >= i + (k - 1)
    BY <1>7, <2>1
  <2>4. CASE down_done(a, t)
    <3>1. b = a BY <2>2, <2>4 DEF down_step
    <3>2. DownState(g, b, n, e, t, m) /\ b.place \in Nat /\ down_done(b, t) BY <2>3, <2>4, <3>1
    <3> QED BY <2>1, <3>2
  <2>5. CASE ~down_done(a, t)
    <3>0. Len(a.heap.node) = n BY <2>3 DEF DownState, Links
    <3>1. /\ LCHILD(a.place) <= n
          /\ ~(D(t, m) <= D(a.heap.node[early_child(a.heap, a.place)].time, m))
      BY <1>0, <2>3, <2>5, <3>0 DEF down_done, EVTTIM_LE, D, LCHILD
    <3>2. b = [heap |-> put(a.heap, a.place, a.heap.node[early_child(a.heap, a.place)]),
               place |-> early_child(a.heap, a.place)]
      BY <2>2, <2>5 DEF down_step
    <3>3. DownState(g, b, n, e, t, m) /\ b.place \in Nat /\ b.place > a.place
      BY <1>0, <2>3, <3>1, <3>2, DownMove
    <3>4. b.place >= i + k BY <1>3, <2>3, <2>5, <3>3
    <3> QED BY <2>1, <3>3, <3>4
  <2> QED BY <2>4, <2>5
<1>8. n \in T
  <2>1. \A k \in 1 .. n : k - 1 \in T => k \in T BY <1>7
  <2> HIDE DEF T
  <2>2. \A k \in 0 .. n : k \in T BY <1>6, <2>1, SetInduction
  <2> QED BY <2>2
<1>9. DownState(g, r, n, e, t, m) /\ (down_done(r, t) \/ r.place >= i + n) BY <1>4, <1>8
<1>10. Links(r.heap, n, r.place, e) BY <1>9 DEF DownState
<1>11. r.place \in 1 .. n /\ Len(r.heap.node) = n BY <1>10 DEF Links
<1>12. down_done(r, t) BY <1>3, <1>9, <1>11
<1>13. Below(r.heap, n, r.place, t, m)
  <2>1. PICK w, p : w = r.heap /\ p = r.place OBVIOUS
  <2>2. Links(w, n, p, e) /\ p \in 1 .. n BY <1>10, <1>11, <2>1
  <2>3. LCHILD(p) > n \/ D(t, m) <= D(w.node[early_child(w, p)].time, m)
    BY <1>0, <1>11, <1>12, <2>1 DEF down_done, EVTTIM_LE, D
  <2>4. ASSUME NEW j \in 2 .. n, PARENT(j) = p PROVE D(t, m) <= D(w.node[j].time, m)
    <3>1. j = 2 * p \/ j = 2 * p + 1 BY <2>2, <2>4, Parents
    <3>2. LCHILD(p) <= n BY <2>2, <3>1 DEF LCHILD
    <3>3. PICK c : c = early_child(w, p) OBVIOUS
    <3>4. c \in 2 .. n /\ D(w.node[c].time, m) <= D(w.node[j].time, m)
      BY <1>0, <2>2, <2>4, <3>2, <3>3, EarlyChild
    <3>5. D(t, m) <= D(w.node[c].time, m) BY <2>2, <2>3, <3>2, <3>3 DEF LCHILD
    <3>6. PICK a \in Nat, b \in Nat, d \in Nat :
            a = D(t, m) /\ b = D(w.node[c].time, m) /\ d = D(w.node[j].time, m)
      <4>1. \A x \in 1 .. n : D(w.node[x].time, m) \in Nat BY <2>2, NodeTimes
      <4>2. D(t, m) \in Nat BY Distances DEF EVTTIM
      <4> QED BY <3>4, <4>1, <4>2
    <3>7. a <= b /\ b <= d BY <3>4, <3>5, <3>6
    <3>8. a <= d BY <3>7
    <3> QED BY <3>6, <3>8
  <2> QED BY <2>1, <2>4 DEF Below
<1> QED BY <1>0, <1>9, <1>13
-----------------------------------------------------------------------------
(***************************************************************************)
(* The operations.                                                         *)
(***************************************************************************)
(* The node is put in the place that was found. *)
LEMMA PlaceNode ==
  ASSUME NEW g, NEW h, NEW n \in Nat, NEW i, NEW e \in Event, NEW t \in EVTTIM, NEW m \in EVTTIM,
         Links(h, n, i, e), Same(g, h, e), Order(h, n, i, m), Below(h, n, i, t, m),
         Above(h, i, t, m), NEW x, x = [time |-> t, p_tmevtb |-> e], NEW w, w = put(h, i, x)
  PROVE  /\ HeapOK(w, m) /\ Same(g, w, e) /\ Len(w.node) = n
         /\ w.index[e] # 0 /\ TimeOf(w, e) = t
<1>0. HeapType(h) /\ Len(h.node) = n /\ i \in 1 .. n BY DEF Links
<1>1. x \in Node /\ x.time = t /\ x.p_tmevtb = e BY DEF Node
<1>2. /\ HeapType(w) /\ Len(w.node) = n
      /\ w.node = [h.node EXCEPT ![i] = x] /\ w.index = [h.index EXCEPT ![e] = i]
  BY <1>0, <1>1, PutHeap
<1>3. w.node[i] = x /\ \A j \in 1 .. n : j # i => w.node[j] = h.node[j]
  BY <1>0, <1>2 DEF HeapType
<1>4. w.index[e] = i /\ \A y \in Event : y # e => w.index[y] = h.index[y]
  BY <1>0, <1>2 DEF HeapType
<1>5. \A j \in 1 .. n : h.node[j].p_tmevtb \in Event
  <2>1. \A j \in 1 .. n : h.node[j] \in Node BY NodeTimes
  <2> QED BY <2>1 DEF Node
<1>6. ASSUME NEW j \in 1 .. n PROVE w.index[w.node[j].p_tmevtb] = j
  <2>1. CASE j = i BY <1>1, <1>3, <1>4, <2>1
  <2>2. CASE j # i
    <3>1. h.node[j].p_tmevtb # e /\ h.index[h.node[j].p_tmevtb] = j BY <2>2 DEF Links
    <3> QED BY <1>3, <1>4, <1>5, <2>2, <3>1
  <2> QED BY <2>1, <2>2
<1>7. ASSUME NEW y \in Event, w.index[y] # 0
      PROVE  w.index[y] \in 1 .. n /\ w.node[w.index[y]].p_tmevtb = y
  <2>1. CASE y = e BY <1>0, <1>1, <1>3, <1>4, <2>1
  <2>2. CASE y # e
    <3>1. w.index[y] = h.index[y] BY <1>4, <2>2
    <3>2. h.index[y] \in 1 .. n /\ h.index[y] # i /\ h.node[h.index[y]].p_tmevtb = y
      BY <1>7, <2>2, <3>1 DEF Links
    <3> QED BY <1>3, <3>1, <3>2
  <2> QED BY <2>1, <2>2
<1>8. HeapLinks(w) BY <1>2, <1>6, <1>7 DEF HeapLinks
<1>9. ASSUME NEW j \in 2 .. n
      PROVE  D(w.node[PARENT(j)].time, m) <= D(w.node[j].time, m)
  <2>1. PARENT(j) \in 1 .. n /\ PARENT(j) < j BY Parents
  <2>2. CASE j = i
    <3>1. w.node[PARENT(j)] = h.node[PARENT(i)] BY <1>3, <2>1, <2>2
    <3>2. D(h.node[PARENT(i)].time, m) <= D(t, m) BY <2>2 DEF Above
    <3> QED BY <1>1, <1>3, <2>2, <3>1, <3>2
  <2>3. CASE j # i /\ PARENT(j) = i
    <3>1. w.node[j] = h.node[j] BY <1>3, <2>3
    <3>2. D(t, m) <= D(h.node[j].time, m) BY <2>3 DEF Below
    <3> QED BY <1>1, <1>3, <2>3, <3>1, <3>2
  <2>4. CASE j # i /\ PARENT(j) # i
    <3>1. w.node[j] = h.node[j] /\ w.node[PARENT(j)] = h.node[PARENT(j)] BY <1>3, <2>1, <2>4
    <3>2. D(h.node[PARENT(j)].time, m) <= D(h.node[j].time, m) BY <2>4 DEF Order
    <3> QED BY <3>1, <3>2
  <2> QED BY <2>2, <2>3, <2>4
<1>10. HeapOrder(w, m) BY <1>2, <1>9 DEF HeapOrder
<1>11. Same(h, w, e)
  <2> SUFFICES ASSUME NEW y \in Event, y # e
               PROVE  /\ w.index[y] = 0 <=> h.index[y] = 0
                      /\ h.index[y] # 0 => TimeOf(w, y) = TimeOf(h, y)
    BY DEF Same
  <2>1. w.index[y] = h.index[y] BY <1>4
  <2>2. h.index[y] # 0 => h.index[y] \in 1 .. n /\ h.index[y] # i BY DEF Links
  <2> QED BY <1>3, <2>1, <2>2 DEF TimeOf
<1>12. Same(g, w, e) BY <1>11, SameTrans
<1>13. w.index[e] # 0 /\ TimeOf(w, e) = t BY <1>0, <1>1, <1>3, <1>4 DEF TimeOf
<1> QED BY <1>2, <1>8, <1>10, <1>12, <1>13 DEF HeapOK

(* tmevtb_insert registers e at t and leaves the other events alone. *)
LEMMA Insert ==
  ASSUME NEW h, NEW e \in Event, NEW t \in EVTTIM, min_time \in EVTTIM, HeapOK(h, min_time),
         h.index[e] = 0, NEW w, w = tmevtb_insert(h, e, t)
  PROVE  /\ HeapOK(w, min_time) /\ Same(h, w, e) /\ w.index[e] # 0 /\ TimeOf(w, e) = t
<1>0. PICK m \in EVTTIM : m = min_time OBVIOUS
<1>1. PICK x : x = [time |-> t, p_tmevtb |-> e] OBVIOUS
<1>2. PICK a : a = [h EXCEPT !.node = Append(@, x)] OBVIOUS
<1>3. PICK n \in Nat : n = Len(h.node) + 1 BY DEF HeapOK, HeapType
<1>4. PICK r : r = tmevt_up(a, n, t) OBVIOUS
<1>5. w = put(r.heap, r.place, x)
  BY <1>1, <1>2, <1>3, <1>4 DEF tmevtb_insert
<1>6. x \in Node BY <1>1 DEF Node
<1>7. HeapType(h) /\ HeapLinks(h) /\ HeapOrder(h, m) BY <1>0 DEF HeapOK
<1>8. DOMAIN a = {"node", "index"} /\ a.node = Append(h.node, x) /\ a.index = h.index
  BY <1>2, <1>7 DEF HeapType
<1>9. /\ a.node \in Seq(Node) /\ Len(a.node) = n
      /\ \A j \in 1 .. n - 1 : a.node[j] = h.node[j]
  BY <1>3, <1>6, <1>7, <1>8 DEF HeapType
<1>10. HeapType(a) BY <1>7, <1>8, <1>9 DEF HeapType
<1>11. \A y \in Event : h.index[y] # 0 => h.index[y] \in 1 .. n - 1 /\ h.node[h.index[y]].p_tmevtb = y
  BY <1>3, <1>7 DEF HeapLinks, HeapType
<1>12. \A j \in 1 .. n - 1 : h.index[h.node[j].p_tmevtb] = j BY <1>3, <1>7 DEF HeapLinks, HeapType
<1>13. Links(a, n, n, e)
  <2>1. n \in 1 .. n BY <1>3, <1>7 DEF HeapType
  <2>2. ASSUME NEW j \in 1 .. n, j # n
        PROVE  a.node[j].p_tmevtb # e /\ a.index[a.node[j].p_tmevtb] = j
    <3>1. j \in 1 .. n - 1 BY <2>2
    <3>2. a.node[j] = h.node[j] /\ h.index[h.node[j].p_tmevtb] = j BY <1>9, <1>12, <3>1
    <3> QED BY <1>8, <3>1, <3>2
  <2>3. ASSUME NEW y \in Event, y # e, a.index[y] # 0
        PROVE  a.index[y] \in 1 .. n /\ a.index[y] # n /\ a.node[a.index[y]].p_tmevtb = y
    <3>1. h.index[y] \in 1 .. n - 1 /\ h.node[h.index[y]].p_tmevtb = y BY <1>8, <1>11, <2>3
    <3> QED BY <1>8, <1>9, <3>1
  <2> QED BY <1>9, <1>10, <2>1, <2>2, <2>3 DEF Links
<1>14. Same(h, a, e)
  <2> SUFFICES ASSUME NEW y \in Event, y # e
               PROVE  /\ a.index[y] = 0 <=> h.index[y] = 0
                      /\ h.index[y] # 0 => TimeOf(a, y) = TimeOf(h, y)
    BY DEF Same
  <2> QED BY <1>8, <1>9, <1>11 DEF TimeOf
<1>15. Order(a, n, n, m) /\ Below(a, n, n, t, m)
  <2>1. \A j \in 2 .. n : PARENT(j) \in 1 .. n /\ PARENT(j) < j BY Parents
  <2>2. \A j \in 2 .. n : PARENT(j) # n
    <3> SUFFICES ASSUME NEW j \in 2 .. n PROVE PARENT(j) # n OBVIOUS
    <3> QED BY <2>1
  <2>3. ASSUME NEW j \in 2 .. n, j # n
        PROVE  D(a.node[PARENT(j)].time, m) <= D(a.node[j].time, m)
    <3>1. j \in 2 .. n - 1 /\ PARENT(j) \in 1 .. n - 1 BY <2>1, <2>3
    <3>2. D(h.node[PARENT(j)].time, m) <= D(h.node[j].time, m)
      BY <1>3, <1>7, <3>1 DEF HeapOrder, HeapType
    <3>3. a.node[j] = h.node[j] /\ a.node[PARENT(j)] = h.node[PARENT(j)] BY <1>9, <3>1
    <3> QED BY <3>2, <3>3
  <2> QED BY <2>2, <2>3 DEF Order, Below
<1>16. UpState(h, [heap |-> a, place |-> n], n, e, t, m) BY <1>13, <1>14, <1>15 DEF UpState
<1>17. UpState(h, r, n, e, t, m) /\ Above(r.heap, r.place, t, m) BY <1>0, <1>4, <1>16, Up
<1>18. /\ Links(r.heap, n, r.place, e) /\ Same(h, r.heap, e) /\ Order(r.heap, n, r.place, m)
       /\ Below(r.heap, n, r.place, t, m)
  BY <1>17 DEF UpState
<1> QED BY <1>0, <1>1, <1>5, <1>17, <1>18, PlaceNode

(***************************************************************************)
(* The last node is taken away, and the index of e is cleared.             *)
(***************************************************************************)
Cut(h, e, a) ==
  /\ DOMAIN a = {"node", "index"} /\ a.node = Front(h.node)
  /\ a.index = [h.index EXCEPT ![e] = 0]

(* The heap without its last node, and e taken out. *)
LEMMA CutHeap ==
  ASSUME NEW h, NEW m \in EVTTIM, HeapOK(h, m), NEW e \in Event, h.index[e] # 0,
         NEW a, Cut(h, e, a), NEW n, n = Len(h.node) - 1
  PROVE  /\ n \in Nat /\ HeapType(a) /\ Len(a.node) = n /\ n + 1 = Len(h.node)
         /\ \A j \in 1 .. n : a.node[j] = h.node[j]
         /\ a.index[e] = 0 /\ \A x \in Event : x # e => a.index[x] = h.index[x]
<1>1. HeapType(h) /\ h.index[e] \in 1 .. Len(h.node) BY DEF HeapOK, HeapLinks
<1>2. n \in Nat /\ n + 1 = Len(h.node) BY <1>1 DEF HeapType
<1>3. a.node \in Seq(Node) /\ Len(a.node) = n /\ \A j \in 1 .. n : a.node[j] = h.node[j]
  <2>1. PICK s \in Seq(Node) : s = h.node BY <1>1 DEF HeapType
  <2>2. a.node = SubSeq(s, 1, n) BY <1>2, <2>1 DEF Cut, Front
  <2>3. n + 1 = Len(s) BY <1>2, <2>1
  <2>4. \A j \in 1 .. n : s[j] \in Node BY <1>2, <2>1, <2>3
  <2>5. Len(SubSeq(s, 1, n)) = n /\ \A j \in 1 .. n : SubSeq(s, 1, n)[j] = s[j]
    BY <1>2, <2>3
  <2>6. SubSeq(s, 1, n) \in Seq(Node) BY <1>2, <2>3, <2>4
  <2> QED BY <2>1, <2>2, <2>5, <2>6
<1>4. /\ DOMAIN a.index = Event /\ a.index[e] = 0
      /\ \A x \in Event : x # e => a.index[x] = h.index[x]
  BY <1>1 DEF HeapType, Cut
<1> QED BY <1>2, <1>3, <1>4 DEF HeapType, Cut

(* e had the last node itself. *)
LEMMA CutLast ==
  ASSUME NEW h, NEW m \in EVTTIM, HeapOK(h, m), NEW e \in Event, h.index[e] # 0,
         NEW a, Cut(h, e, a), h.index[e] = Len(h.node)
  PROVE  HeapOK(a, m) /\ Same(h, a, e) /\ a.index[e] = 0
<1>1. PICK n : n = Len(h.node) - 1 OBVIOUS
<1>2. /\ n \in Nat /\ HeapType(a) /\ Len(a.node) = n /\ n + 1 = Len(h.node)
      /\ \A j \in 1 .. n : a.node[j] = h.node[j]
      /\ a.index[e] = 0 /\ \A x \in Event : x # e => a.index[x] = h.index[x]
  BY <1>1, CutHeap
<1>3. HeapType(h) /\ HeapLinks(h) /\ HeapOrder(h, m) BY DEF HeapOK
<1>4. h.node[n + 1].p_tmevtb = e BY <1>2, <1>3 DEF HeapLinks
<1>5. \A j \in 1 .. n : h.node[j].p_tmevtb \in Event
  <2>1. \A j \in 1 .. n : h.node[j] \in Node BY <1>2, <1>3 DEF HeapType
  <2> QED BY <2>1 DEF Node
<1>6. \A j \in 1 .. n : h.index[h.node[j].p_tmevtb] = j BY <1>2, <1>3 DEF HeapLinks
<1>7. ASSUME NEW j \in 1 .. n PROVE a.index[a.node[j].p_tmevtb] = j
  <2>1. h.node[j].p_tmevtb # e BY <1>2, <1>6
  <2> QED BY <1>2, <1>5, <1>6, <2>1
<1>8. ASSUME NEW x \in Event, x # e, h.index[x] # 0
      PROVE  h.index[x] \in 1 .. n /\ h.node[h.index[x]].p_tmevtb = x
  <2>1. h.index[x] \in 1 .. n + 1 /\ h.node[h.index[x]].p_tmevtb = x
    BY <1>2, <1>3, <1>8 DEF HeapLinks
  <2>2. h.index[x] # n + 1 BY <1>4, <1>8, <2>1
  <2> QED BY <1>2, <2>1, <2>2
<1>9. HeapLinks(a)
  <2>1. ASSUME NEW x \in Event, a.index[x] # 0
        PROVE  a.index[x] \in 1 .. n /\ a.node[a.index[x]].p_tmevtb = x
    <3>1. x # e BY <1>2, <2>1
    <3>2. a.index[x] = h.index[x] BY <1>2, <3>1
    <3>3. h.index[x] \in 1 .. n /\ h.node[h.index[x]].p_tmevtb = x BY <1>8, <2>1, <3>1, <3>2
    <3> QED BY <1>2, <3>2, <3>3
  <2> QED BY <1>2, <1>7, <2>1 DEF HeapLinks
<1>10. HeapOrder(a, m)
  <2>1. ASSUME NEW j \in 2 .. n PROVE D(a.node[PARENT(j)].time, m) <= D(a.node[j].time, m)
    <3>1. PARENT(j) \in 1 .. n BY <1>2, Parents
    <3>2. D(h.node[PARENT(j)].time, m) <= D(h.node[j].time, m) BY <1>2, <1>3 DEF HeapOrder
    <3>3. a.node[j] = h.node[j] /\ a.node[PARENT(j)] = h.node[PARENT(j)] BY <1>2, <3>1
    <3> QED BY <3>2, <3>3
  <2> QED BY <1>2, <2>1 DEF HeapOrder
<1>11. Same(h, a, e) BY <1>2, <1>8 DEF Same, TimeOf
<1> QED BY <1>2, <1>9, <1>10, <1>11 DEF HeapOK

(* The place of e is empty, and is wanted for the last node, v. *)
LEMMA CutHole ==
  ASSUME NEW h, NEW m \in EVTTIM, HeapOK(h, m), NEW e \in Event, h.index[e] # 0,
         NEW a, Cut(h, e, a), h.index[e] # Len(h.node), NEW n, n = Len(h.node) - 1,
         NEW v, v = Last(h.node), NEW i, i = h.index[e]
  PROVE  /\ n \in Nat /\ v \in Node /\ v.p_tmevtb # e /\ a.index[e] = 0
         /\ Links(a, n, i, v.p_tmevtb) /\ Order(a, n, i, m)
         /\ \A j \in 2 .. n : PARENT(j) = i => D(h.node[i].time, m) <= D(a.node[j].time, m)
         /\ i > 1 => D(a.node[PARENT(i)].time, m) <= D(h.node[i].time, m)
         /\ \A x \in Event : x # e /\ x # v.p_tmevtb =>
              /\ a.index[x] = h.index[x]
              /\ h.index[x] # 0 => TimeOf(a, x) = TimeOf(h, x)
         /\ h.index[v.p_tmevtb] # 0 /\ TimeOf(h, v.p_tmevtb) = v.time
<1>2. /\ n \in Nat /\ HeapType(a) /\ Len(a.node) = n /\ n + 1 = Len(h.node)
      /\ \A j \in 1 .. n : a.node[j] = h.node[j]
      /\ a.index[e] = 0 /\ \A x \in Event : x # e => a.index[x] = h.index[x]
  BY CutHeap
<1>3. HeapType(h) /\ HeapLinks(h) /\ HeapOrder(h, m) BY DEF HeapOK
<1>4. i \in 1 .. n /\ h.node[i].p_tmevtb = e BY <1>2, <1>3 DEF HeapLinks
<1>5. v = h.node[n + 1] BY <1>2 DEF Last
<1>6. \A j \in 1 .. n + 1 : h.node[j] \in Node BY <1>2, <1>3 DEF HeapType
<1>7. \A j \in 1 .. n + 1 : h.node[j].p_tmevtb \in Event /\ h.node[j].time \in EVTTIM
  BY <1>6 DEF Node
<1>8. PICK y \in Event : y = v.p_tmevtb BY <1>2, <1>5, <1>7
<1>9. \A j \in 1 .. n + 1 : h.index[h.node[j].p_tmevtb] = j BY <1>2, <1>3 DEF HeapLinks
<1>10. h.index[y] = n + 1 BY <1>2, <1>5, <1>8, <1>9
<1>11. y # e BY <1>2, <1>4, <1>10
<1>12. v \in Node /\ TimeOf(h, y) = v.time /\ h.index[y] # 0 BY <1>2, <1>5, <1>6, <1>10 DEF TimeOf
<1>13. ASSUME NEW x \in Event, x # e, x # y, h.index[x] # 0
       PROVE  h.index[x] \in 1 .. n /\ h.index[x] # i /\ h.node[h.index[x]].p_tmevtb = x
  <2>1. h.index[x] \in 1 .. n + 1 /\ h.node[h.index[x]].p_tmevtb = x
    BY <1>2, <1>3, <1>13 DEF HeapLinks
  <2>2. h.index[x] # n + 1 /\ h.index[x] # i BY <1>4, <1>5, <1>8, <1>13, <2>1
  <2> QED BY <1>2, <2>1, <2>2
<1>14. Links(a, n, i, y)
  <2>1. ASSUME NEW j \in 1 .. n, j # i
        PROVE  a.node[j].p_tmevtb # y /\ a.index[a.node[j].p_tmevtb] = j
    <3>1. a.node[j] = h.node[j] /\ h.index[h.node[j].p_tmevtb] = j BY <1>2, <1>9
    <3>2. h.node[j].p_tmevtb \in Event BY <1>2, <1>7
    <3>3. h.node[j].p_tmevtb # y BY <1>2, <1>10, <3>1
    <3>4. h.node[j].p_tmevtb # e BY <1>2, <2>1, <3>1
    <3> QED BY <1>2, <3>1, <3>2, <3>3, <3>4
  <2>2. ASSUME NEW x \in Event, x # y, a.index[x] # 0
        PROVE  a.index[x] \in 1 .. n /\ a.index[x] # i /\ a.node[a.index[x]].p_tmevtb = x
    <3>1. x # e BY <1>2, <2>2
    <3>2. a.index[x] = h.index[x] BY <1>2, <3>1
    <3>3. h.index[x] \in 1 .. n /\ h.index[x] # i /\ h.node[h.index[x]].p_tmevtb = x
      BY <1>13, <2>2, <3>1, <3>2
    <3> QED BY <1>2, <3>2, <3>3
  <2> QED BY <1>2, <1>4, <2>1, <2>2 DEF Links
<1>15. \A j \in 1 .. n : D(h.node[j].time, m) \in Nat
  <2>1. \A t \in EVTTIM : D(t, m) \in Nat BY Distances DEF EVTTIM
  <2> QED BY <1>2, <1>7, <2>1
<1>16. ASSUME NEW j \in 2 .. n
       PROVE  D(h.node[PARENT(j)].time, m) <= D(h.node[j].time, m) /\ PARENT(j) \in 1 .. n
  BY <1>2, <1>3, Parents DEF HeapOrder
<1>17. ASSUME NEW j \in 2 .. n, PARENT(j) = i
       PROVE  D(h.node[i].time, m) <= D(a.node[j].time, m)
  <2>1. D(h.node[i].time, m) <= D(h.node[j].time, m) BY <1>16, <1>17
  <2>2. a.node[j] = h.node[j] BY <1>2
  <2> QED BY <2>1, <2>2
<1>18. ASSUME i > 1
       PROVE  D(a.node[PARENT(i)].time, m) <= D(h.node[i].time, m) /\ PARENT(i) \in 1 .. n
  <2>1. i \in 2 .. n BY <1>4, <1>18
  <2> QED BY <1>2, <1>16, <2>1
<1>19. Order(a, n, i, m)
  <2>1. ASSUME NEW j \in 2 .. n PROVE D(a.node[PARENT(j)].time, m) <= D(a.node[j].time, m)
    BY <1>2, <1>16
  <2>2. ASSUME NEW j \in 2 .. n, PARENT(j) = i, i > 1
        PROVE  D(a.node[PARENT(i)].time, m) <= D(a.node[j].time, m)
    <3>1. PICK p \in Nat, q \in Nat, d \in Nat :
            /\ p = D(a.node[PARENT(i)].time, m) /\ q = D(h.node[i].time, m)
            /\ d = D(a.node[j].time, m)
      <4>1. PARENT(i) \in 1 .. n /\ j \in 1 .. n BY <1>18, <2>2
      <4>2. a.node[PARENT(i)] = h.node[PARENT(i)] /\ a.node[j] = h.node[j] BY <1>2, <4>1
      <4> QED BY <1>4, <1>15, <4>1, <4>2
    <3>2. p <= q /\ q <= d BY <1>17, <1>18, <2>2, <3>1
    <3>3. p <= d BY <3>2
    <3> QED BY <3>1, <3>3
  <2> QED BY <2>1, <2>2 DEF Order
<1>20. \A x \in Event : x # e /\ x # y =>
         a.index[x] = h.index[x] /\ (h.index[x] # 0 => TimeOf(a, x) = TimeOf(h, x))
  BY <1>2, <1>13, SMTT(60) DEF TimeOf
<1> QED BY <1>2, <1>8, <1>11, <1>12, <1>14, <1>17, <1>18, <1>19, <1>20

(* The last node of h, v, is to take the place of e in a. *)
Hole(h, m, e, a, n, v) ==
  /\ HeapOK(h, m) /\ h.index[e] # 0 /\ Cut(h, e, a) /\ h.index[e] # Len(h.node)
  /\ n = Len(h.node) - 1 /\ v = Last(h.node)

(* Place p of b, which is a with nodes moved, is right for event y at time t. *)
Fits(a, b, p, n, y, t, m) ==
  /\ Links(b, n, p, y) /\ Same(a, b, y) /\ Order(b, n, p, m)
  /\ Below(b, n, p, t, m) /\ Above(b, p, t, m)

(* The last node, v, is put in the place that was found for it. *)
LEMMA Refill ==
  ASSUME NEW h, NEW m \in EVTTIM, NEW e \in Event, NEW a, NEW n, NEW v, Hole(h, m, e, a, n, v),
         NEW b, NEW p, Fits(a, b, p, n, v.p_tmevtb, v.time, m), NEW w, w = put(b, p, v)
  PROVE  HeapOK(w, m) /\ Same(h, w, e) /\ w.index[e] = 0
<1>0. /\ HeapOK(h, m) /\ h.index[e] # 0 /\ Cut(h, e, a) /\ h.index[e] # Len(h.node)
      /\ n = Len(h.node) - 1 /\ v = Last(h.node)
  BY DEF Hole
<1>1. PICK i, y, t : i = h.index[e] /\ y = v.p_tmevtb /\ t = v.time OBVIOUS
<1>2. /\ n \in Nat /\ v \in Node /\ v.p_tmevtb # e /\ a.index[e] = 0
      /\ \A x \in Event : x # e /\ x # v.p_tmevtb =>
              /\ a.index[x] = h.index[x]
              /\ h.index[x] # 0 => TimeOf(a, x) = TimeOf(h, x)
      /\ h.index[v.p_tmevtb] # 0 /\ TimeOf(h, v.p_tmevtb) = v.time
  BY <1>0, <1>1, CutHole
<1>3. y = v.p_tmevtb /\ y \in Event /\ t \in EVTTIM BY <1>1, <1>2 DEF Node
<1>4. v = [time |-> t, p_tmevtb |-> y] BY <1>1, <1>2 DEF Node
<1>5. /\ Links(b, n, p, y) /\ Same(a, b, y) /\ Order(b, n, p, m) /\ Below(b, n, p, t, m)
      /\ Above(b, p, t, m)
  BY <1>1 DEF Fits
<1>6. HeapOK(w, m) /\ Same(a, w, y) /\ w.index[y] # 0 /\ TimeOf(w, y) = t
  <2>1. w = put(b, p, v) /\ n \in Nat BY <1>2
  <2> QED BY ONLY <1>4, <1>3, <1>5, <2>1, m \in EVTTIM, PlaceNode
<1>7. w.index[e] = 0 BY <1>2, <1>3, <1>6 DEF Same
<1>8. ASSUME NEW x \in Event, x # e
      PROVE  /\ w.index[x] = 0 <=> h.index[x] = 0
             /\ h.index[x] # 0 => TimeOf(w, x) = TimeOf(h, x)
  <2>1. CASE x = y BY <1>1, <1>2, <1>3, <1>6, <2>1
  <2>2. CASE x # y
    <3>1. /\ w.index[x] = 0 <=> a.index[x] = 0
          /\ a.index[x] # 0 => TimeOf(w, x) = TimeOf(a, x)
      BY <1>6, <2>2 DEF Same
    <3>2. a.index[x] = h.index[x] /\ (h.index[x] # 0 => TimeOf(a, x) = TimeOf(h, x))
      BY <1>2, <1>3, <1>8, <2>2
    <3> QED BY <3>1, <3>2
  <2> QED BY <2>1, <2>2
<1>9. Same(h, w, e) BY <1>8 DEF Same
<1> QED BY <1>6, <1>7, <1>9

(* tmevtb_delete is right if the last node goes down from the place of e. *)
LEMMA RefillDown ==
  ASSUME NEW h, min_time \in EVTTIM, HeapOK(h, min_time), NEW e \in Event, h.index[e] # 0,
         NEW a, Cut(h, e, a), h.index[e] # Len(h.node), NEW v, v = Last(h.node),
         NEW t, t = v.time, NEW i, i = h.index[e], Above(a, i, t, min_time),
         NEW r, r = tmevt_down(a, i, t), NEW w, w = put(r.heap, r.place, v)
  PROVE  HeapOK(w, min_time) /\ Same(h, w, e) /\ w.index[e] = 0
<1>1. PICK m \in EVTTIM : m = min_time OBVIOUS
<1>2. PICK n : n = Len(h.node) - 1 OBVIOUS
<1>3. n \in Nat /\ v \in Node /\ Links(a, n, i, v.p_tmevtb) /\ Order(a, n, i, m)
  BY <1>1, <1>2, CutHole
<1>4. PICK y : y = v.p_tmevtb /\ t \in EVTTIM BY <1>3 DEF Node
<1>5. DownState(a, [heap |-> a, place |-> i], n, y, t, m)
  <2>1. Same(a, a, y) BY DEF Same
  <2> QED BY <1>1, <1>3, <1>4, <2>1 DEF DownState
<1>6. DownState(a, r, n, y, t, m) /\ Below(r.heap, n, r.place, t, m)
  BY <1>1, <1>3, <1>4, <1>5, Down
<1>7. PICK b, p : b = r.heap /\ p = r.place OBVIOUS
<1>8. Fits(a, b, p, n, y, t, m) /\ w = put(b, p, v)
  BY <1>4, <1>6, <1>7 DEF DownState, Fits
<1>9. HeapOK(h, m) BY <1>1
<1>10. HeapOK(w, m) /\ Same(h, w, e) /\ w.index[e] = 0
  <2>1. e \in Event /\ m \in EVTTIM /\ Hole(h, m, e, a, n, v) BY <1>2, <1>9 DEF Hole
  <2>2. Fits(a, b, p, n, v.p_tmevtb, v.time, m) /\ w = put(b, p, v) BY <1>4, <1>8
  <2> QED BY ONLY <2>1, <2>2, Refill
<1> QED BY <1>1, <1>10

(* The hole at i, where e was, is moved up for the last node v of time t. *)
Raised(h, e, a, v, t, i, c, r, w) ==
  /\ v = Last(h.node) /\ t = v.time /\ i = h.index[e] /\ c = put(a, i, a.node[PARENT(i)])
  /\ r = tmevt_up(c, PARENT(i), t) /\ w = put(r.heap, r.place, v)

(* tmevtb_delete is right if the last node goes up from the place of e. *)
LEMMA RefillUp ==
  ASSUME NEW h, min_time \in EVTTIM, HeapOK(h, min_time), NEW e \in Event, h.index[e] # 0,
         NEW a, Cut(h, e, a), h.index[e] # Len(h.node),
         NEW v, NEW t, NEW i, NEW c, NEW r, NEW w, Raised(h, e, a, v, t, i, c, r, w),
         ~Above(a, i, t, min_time)
  PROVE  HeapOK(w, min_time) /\ Same(h, w, e) /\ w.index[e] = 0
<1> USE DEF Raised
<1>1. PICK m \in EVTTIM : m = min_time OBVIOUS
<1>2. PICK n : n = Len(h.node) - 1 OBVIOUS
<1>3. n \in Nat /\ v \in Node /\ Links(a, n, i, v.p_tmevtb) /\ Order(a, n, i, m)
  BY <1>1, <1>2, CutHole
<1>4. PICK y : y = v.p_tmevtb /\ t \in EVTTIM BY <1>3 DEF Node
<1>5. PICK r0 : r0 = [heap |-> a, place |-> i] OBVIOUS
<1>6. Links(a, n, i, y) /\ i \in 2 .. n
  <2>1. i > 1 BY DEF Above
  <2>2. Links(a, n, i, y) BY <1>3, <1>4
  <2>3. i \in 1 .. n BY <2>2 DEF Links
  <2> QED BY <2>1, <2>2, <2>3, <1>3
<1>7. \A j \in 1 .. n : D(a.node[j].time, m) \in Nat BY <1>3, <1>6, NodeTimes
<1>8. PARENT(i) \in 1 .. n BY <1>3, <1>6, Parents
<1>9. PICK d \in Nat, dp \in Nat : d = D(t, m) /\ dp = D(a.node[PARENT(i)].time, m) /\ d < dp
  <2>1. D(t, m) \in Nat
    <3>1. \A x \in EVTTIM : D(x, m) \in Nat BY Distances DEF EVTTIM
    <3> QED BY <1>4, <3>1
  <2>2. ~(D(a.node[PARENT(i)].time, m) <= D(t, m)) BY <1>1 DEF Above
  <2> QED BY <1>7, <1>8, <2>1, <2>2
<1>10. Below(a, n, i, t, m)
  <2>1. ASSUME NEW j \in 2 .. n, PARENT(j) = i PROVE D(t, m) <= D(a.node[j].time, m)
    <3>1. PICK dj \in Nat : dj = D(a.node[j].time, m) BY <1>7
    <3>2. D(a.node[PARENT(i)].time, m) <= D(a.node[j].time, m) BY <1>3, <1>6, <2>1 DEF Order
    <3>3. dp <= dj BY <1>9, <3>1, <3>2
    <3>4. d <= dj BY <1>9, <3>3
    <3> QED BY <1>9, <3>1, <3>4
  <2> QED BY <2>1 DEF Below
<1>11. UpState(a, r0, n, y, t, m)
  <2>1. Same(a, a, y) BY DEF Same
  <2> QED BY <1>3, <1>5, <1>6, <1>10, <2>1 DEF UpState
<1>12. PICK q : q = [heap |-> c, place |-> PARENT(i)] OBVIOUS
<1>13. UpState(a, q, n, y, t, m)
  <2>1. /\ r0.place # 1 /\ ~(D(r0.heap.node[PARENT(r0.place)].time, m) <= D(t, m))
        /\ q = [heap |-> put(r0.heap, r0.place, r0.heap.node[PARENT(r0.place)]),
                place |-> PARENT(r0.place)]
    <3>1. ~(dp <= d) BY <1>9
    <3>2. r0.heap = a /\ r0.place = i BY <1>5
    <3>3. ~(D(a.node[PARENT(i)].time, m) <= D(t, m)) BY <1>9, <3>1
    <3>4. i # 1 BY <1>6
    <3>5. q = [heap |-> put(a, i, a.node[PARENT(i)]), place |-> PARENT(i)] BY <1>12
    <3> QED BY <3>2, <3>3, <3>4, <3>5
  <2>2. n \in Nat /\ t \in EVTTIM /\ m \in EVTTIM BY <1>3, <1>4
  <2> QED BY ONLY <1>11, <2>1, <2>2, UpMove
<1>14. UpState(a, r, n, y, t, m) /\ Above(r.heap, r.place, t, m)
  <2>1. PICK p : p = PARENT(i) OBVIOUS
  <2>2. UpState(a, [heap |-> c, place |-> p], n, y, t, min_time) /\ r = tmevt_up(c, p, t)
    BY <1>1, <1>12, <1>13, <2>1
  <2>3. n \in Nat /\ t \in EVTTIM /\ min_time \in EVTTIM BY <1>3, <1>4
  <2>4. UpState(a, r, n, y, t, min_time) /\ Above(r.heap, r.place, t, min_time)
    BY ONLY <2>2, <2>3, Up
  <2> QED BY <1>1, <2>4
<1>15. PICK b, p : b = r.heap /\ p = r.place OBVIOUS
<1>16. Fits(a, b, p, n, y, t, m) /\ w = put(b, p, v)
  BY <1>4, <1>14, <1>15 DEF UpState, Fits
<1>17. HeapOK(h, m) BY <1>1
<1>18. HeapOK(w, m) /\ Same(h, w, e) /\ w.index[e] = 0
  <2>1. e \in Event /\ m \in EVTTIM /\ Hole(h, m, e, a, n, v) BY <1>2, <1>17 DEF Hole
  <2>2. Fits(a, b, p, n, v.p_tmevtb, v.time, m) /\ w = put(b, p, v) BY <1>4, <1>16
  <2> QED BY ONLY <2>1, <2>2, Refill
<1> QED BY <1>1, <1>18

(* tmevtb_delete unregisters e and leaves the other events alone. *)
LEMMA Delete ==
  ASSUME NEW h, min_time \in EVTTIM, HeapOK(h, min_time), NEW e \in Event, h.index[e] # 0,
         NEW w, w = tmevtb_delete(h, e)
  PROVE  HeapOK(w, min_time) /\ Same(h, w, e) /\ w.index[e] = 0
<1>1. PICK m \in EVTTIM : m = min_time OBVIOUS
<1>2. PICK a : a = [h EXCEPT !.node = Front(@), !.index[e] = 0] OBVIOUS
<1>3. Cut(h, e, a) BY <1>2 DEF Cut, HeapOK, HeapType
<1>4. w = IF h.index[e] = Len(h.node) THEN a ELSE replace_by_last(a, h.index[e], Last(h.node))
  BY <1>2 DEF tmevtb_delete
<1>5. CASE h.index[e] = Len(h.node)
  <2>1. w = a /\ HeapOK(h, m) BY <1>1, <1>4, <1>5
  <2>2. HeapOK(a, m) /\ Same(h, a, e) /\ a.index[e] = 0 BY <1>3, <1>5, <2>1, CutLast
  <2> QED BY <1>1, <2>1, <2>2
<1>6. CASE h.index[e] # Len(h.node)
  <2>1. PICK v, t, i : v = Last(h.node) /\ t = v.time /\ i = h.index[e] OBVIOUS
  <2>2. w = replace_by_last(a, i, v) BY <1>4, <1>6, <2>1
  <2>5. i > 1 => D(a.node[PARENT(i)].time, m) \in Nat /\ D(t, m) \in Nat
    <3>1. SUFFICES ASSUME i > 1 PROVE D(a.node[PARENT(i)].time, m) \in Nat /\ D(t, m) \in Nat
      OBVIOUS
    <3>2. PICK n : n = Len(h.node) - 1 OBVIOUS
    <3>3. HeapOK(h, m) BY <1>1
    <3>4. n \in Nat /\ v \in Node /\ Links(a, n, i, v.p_tmevtb)
      BY <1>3, <1>6, <2>1, <3>2, <3>3, CutHole
    <3>5. i \in 2 .. n BY <3>1, <3>4 DEF Links
    <3>6. PARENT(i) \in 1 .. n BY <3>4, <3>5, Parents
    <3>7. D(a.node[PARENT(i)].time, m) \in Nat BY <3>4, <3>6, NodeTimes
    <3>8. t \in EVTTIM BY <2>1, <3>4 DEF Node
    <3>9. \A x \in EVTTIM : D(x, m) \in Nat BY Distances DEF EVTTIM
    <3> QED BY <3>7, <3>8, <3>9
  <2>3. CASE i > 1 /\ EVTTIM_LT(v.time, a.node[PARENT(i)].time)
    <3>1. PICK c : c = put(a, i, a.node[PARENT(i)]) OBVIOUS
    <3>2. PICK r : r = tmevt_up(c, PARENT(i), t) OBVIOUS
    <3>3. w = put(r.heap, r.place, v) BY <2>1, <2>2, <2>3, <3>1, <3>2 DEF replace_by_last
    <3>4. D(t, m) < D(a.node[PARENT(i)].time, m) BY <1>1, <2>1, <2>3 DEF EVTTIM_LT, D
    <3>5. ~Above(a, i, t, min_time) BY <1>1, <2>3, <2>5, <3>4 DEF Above
    <3>6. e \in Event /\ min_time \in EVTTIM /\ h.index[e] # 0 /\ HeapOK(h, min_time) OBVIOUS
    <3>7. Raised(h, e, a, v, t, i, c, r, w) BY <2>1, <3>1, <3>2, <3>3 DEF Raised
    <3> QED BY ONLY <1>3, <1>6, <3>5, <3>6, <3>7, RefillUp
  <2>4. CASE ~(i > 1 /\ EVTTIM_LT(v.time, a.node[PARENT(i)].time))
    <3>1. PICK r : r = tmevt_down(a, i, t) OBVIOUS
    <3>2. w = put(r.heap, r.place, v) BY <2>1, <2>2, <2>4, <3>1 DEF replace_by_last
    <3>3. i > 1 => ~(D(t, m) < D(a.node[PARENT(i)].time, m)) BY <1>1, <2>1, <2>4 DEF EVTTIM_LT, D
    <3>4. Above(a, i, t, min_time) BY <1>1, <2>5, <3>3 DEF Above
    <3>5. e \in Event /\ min_time \in EVTTIM /\ h.index[e] # 0 /\ HeapOK(h, min_time) OBVIOUS
    <3> QED BY ONLY <1>3, <1>6, <2>1, <3>1, <3>2, <3>4, <3>5, RefillDown
  <2> QED BY <2>3, <2>4
<1> QED BY <1>5, <1>6

(* The event at the root. *)
LEMMA Root ==
  ASSUME NEW h, NEW m \in EVTTIM, HeapOK(h, m), h.node # <<>>
  PROVE  /\ Len(h.node) >= 1 /\ Head(h.node) = h.node[1] /\ Head(h.node).p_tmevtb \in Event
         /\ h.index[Head(h.node).p_tmevtb] = 1
         /\ Head(h.node).time = TimeOf(h, Head(h.node).p_tmevtb)
<1>1. HeapType(h) /\ HeapLinks(h) BY DEF HeapOK
<1>2. Len(h.node) \in Nat /\ Len(h.node) >= 1 /\ Head(h.node) = h.node[1] BY <1>1 DEF HeapType
<1>3. h.node[1] \in Node BY <1>1, <1>2 DEF HeapType
<1>4. h.node[1].p_tmevtb \in Event BY <1>3 DEF Node
<1>5. h.index[h.node[1].p_tmevtb] = 1 BY <1>1, <1>2 DEF HeapLinks
<1> QED BY <1>2, <1>4, <1>5 DEF TimeOf

(* tmevtb_delete_top unregisters the event at the root. *)
LEMMA DeleteTop ==
  ASSUME NEW h, min_time \in EVTTIM, HeapOK(h, min_time), h.node # <<>>,
         NEW e, e = Head(h.node).p_tmevtb, NEW w, w = tmevtb_delete_top(h)
  PROVE  HeapOK(w, min_time) /\ Same(h, w, e) /\ w.index[e] = 0
<1>1. PICK m \in EVTTIM : m = min_time OBVIOUS
<1>2. HeapOK(h, m) BY <1>1
<1>3. Len(h.node) >= 1 /\ e \in Event /\ h.index[e] = 1 BY <1>2, Root
<1>4. PICK a : a = [h EXCEPT !.node = Front(@), !.index[e] = 0] OBVIOUS
<1>5. Cut(h, e, a) BY <1>4 DEF Cut, HeapOK, HeapType
<1>6. PICK v, t : v = Last(h.node) /\ t = v.time OBVIOUS
<1>7. PICK r : r = tmevt_down(a, 1, t) OBVIOUS
<1>8. w = IF a.node = <<>> THEN a ELSE put(r.heap, r.place, v)
  BY <1>4, <1>6, <1>7 DEF tmevtb_delete_top
<1>9. h.index[e] # 0 BY <1>3
<1>10. PICK n : n = Len(h.node) - 1 OBVIOUS
<1>11. n \in Nat /\ Len(a.node) = n /\ n + 1 = Len(h.node) /\ HeapType(a)
  BY <1>2, <1>3, <1>5, <1>9, <1>10, CutHeap
<1>12. a.node = <<>> <=> n = 0 BY <1>11 DEF HeapType
<1>13. CASE n = 0
  <2>1. h.index[e] = Len(h.node) BY <1>3, <1>11, <1>13
  <2>2. HeapOK(a, m) /\ Same(h, a, e) /\ a.index[e] = 0
    BY <1>2, <1>3, <1>5, <1>9, <2>1, CutLast
  <2> QED BY <1>1, <1>8, <1>12, <1>13, <2>2
<1>14. CASE n # 0
  <2>1. h.index[e] # Len(h.node)
    <3>1. n + 1 # 1 BY <1>11, <1>14
    <3> QED BY <1>3, <1>11, <3>1
  <2>2. Above(a, 1, t, min_time) BY DEF Above
  <2>3. w = put(r.heap, r.place, v) BY <1>8, <1>12, <1>14
  <2>4. PICK i : i = h.index[e] OBVIOUS
  <2>5. Above(a, i, t, min_time) /\ r = tmevt_down(a, i, t) BY <1>3, <1>7, <2>2, <2>4
  <2>6. e \in Event /\ min_time \in EVTTIM /\ HeapOK(h, min_time) BY <1>3
  <2> QED BY ONLY <1>5, <1>6, <1>9, <2>1, <2>3, <2>4, <2>5, <2>6, RefillDown
<1> QED BY <1>13, <1>14

(* No registered event is before the one at the root. *)
LEMMA RootFirst ==
  ASSUME NEW h, NEW m \in EVTTIM, HeapOK(h, m)
  PROVE  \A j \in 1 .. Len(h.node) : D(h.node[1].time, m) <= D(h.node[j].time, m)
<1>1. HeapType(h) /\ HeapOrder(h, m) BY DEF HeapOK
<1>2. PICK n \in Nat : n = Len(h.node) BY <1>1 DEF HeapType
<1>3. \A j \in 1 .. n : h.node[j] \in Node BY <1>1, <1>2 DEF HeapType
<1>4. \A j \in 1 .. n : D(h.node[j].time, m) \in Nat
  <2>1. \A j \in 1 .. n : h.node[j].time \in EVTTIM BY <1>3 DEF Node
  <2>2. \A t \in EVTTIM : D(t, m) \in Nat BY Distances DEF EVTTIM
  <2> QED BY <2>1, <2>2
<1> DEFINE S == {j \in 1 .. n : ~(D(h.node[1].time, m) <= D(h.node[j].time, m))}
<1>5. SUFFICES ASSUME S # {} PROVE FALSE BY <1>2
<1>6. S \subseteq Nat OBVIOUS
<1> HIDE DEF S
<1>7. PICK j \in S : \A k \in S : j <= k BY <1>5, <1>6, Least
<1>8. j \in 1 .. n /\ ~(D(h.node[1].time, m) <= D(h.node[j].time, m)) BY DEF S
<1>9. j # 1 BY <1>4, <1>8
<1>10. j \in 2 .. n BY <1>8, <1>9
<1>11. PARENT(j) \in 1 .. n /\ PARENT(j) < j BY <1>10, Parents
<1>12. PARENT(j) \notin S BY <1>6, <1>7, <1>11
<1>13. D(h.node[1].time, m) <= D(h.node[PARENT(j)].time, m) BY <1>11, <1>12 DEF S
<1>14. D(h.node[PARENT(j)].time, m) <= D(h.node[j].time, m) BY <1>1, <1>2, <1>10 DEF HeapOrder
<1>15. PICK a \in Nat, b \in Nat, c \in Nat :
         /\ a = D(h.node[1].time, m) /\ b = D(h.node[PARENT(j)].time, m)
         /\ c = D(h.node[j].time, m)
  <2>1. 1 \in 1 .. n BY <1>8
  <2> QED BY <1>4, <1>8, <1>11, <2>1
<1>16. a <= b /\ b <= c /\ ~(a <= c) BY <1>8, <1>13, <1>14, <1>15
<1> QED BY <1>16
-----------------------------------------------------------------------------
(***************************************************************************)
(* The heap that initialize_cyclic leaves: the handlers with TA_STA are    *)
(* registered at their phase.                                              *)
(***************************************************************************)
CycTo(f, m) ==
  /\ DOMAIN f = 0 .. m /\ f[0] = emptyHeap
  /\ \A n \in 1 .. m : f[n] = tmevtb_insert(f[n - 1], TaSta[n], cycphs[TaSta[n]])

(* initialize_cyclic is the last of a sequence of insertions in table      *)
(* order.                                                                  *)
LEMMA CycLoop ==
  ASSUME Len(TaSta) \in Nat
  PROVE  \E f : CycTo(f, Len(TaSta)) /\ initialize_cyclic = f[Len(TaSta)]
<1>1. PICK N \in Nat : N = Len(TaSta) OBVIOUS
<1> DEFINE T == {m \in 0 .. N : \E f : CycTo(f, m)}
<1>3. 0 \in T
  <2>1. PICK f : f = [n \in 0 .. 0 |-> emptyHeap] OBVIOUS
  <2>2. CycTo(f, 0) BY <2>1 DEF CycTo
  <2> QED BY <2>2
<1>4. ASSUME NEW m \in 1 .. N, m - 1 \in T PROVE m \in T
  <2>1. PICK f : CycTo(f, m - 1) BY <1>4
  <2>0. PICK v : v = tmevtb_insert(f[m - 1], TaSta[m], cycphs[TaSta[m]]) OBVIOUS
  <2>2. PICK g : g = [n \in 0 .. m |-> IF n = m THEN v ELSE f[n]] OBVIOUS
  <2>3. DOMAIN g = 0 .. m /\ g[0] = emptyHeap BY <2>1, <2>2 DEF CycTo
  <2>4. \A n \in 0 .. m - 1 : g[n] = f[n] BY <2>2
  <2>5. g[m] = v BY <2>2
  <2>6. ASSUME NEW n \in 1 .. m
        PROVE  g[n] = tmevtb_insert(g[n - 1], TaSta[n], cycphs[TaSta[n]])
    <3>1. g[n - 1] = f[n - 1] BY <2>4
    <3>2. CASE n = m BY <2>0, <2>5, <3>1, <3>2
    <3>3. CASE n # m
      <4>1. f[n] = tmevtb_insert(f[n - 1], TaSta[n], cycphs[TaSta[n]]) BY <2>1, <3>3 DEF CycTo
      <4>2. g[n] = f[n] BY <2>4, <3>3
      <4> QED BY <3>1, <4>1, <4>2
    <3> QED BY <3>2, <3>3
  <2>7. CycTo(g, m) BY <2>3, <2>6 DEF CycTo
  <2> QED BY <2>7
<1>5. N \in T
  <2>1. \A m \in 1 .. N : m - 1 \in T => m \in T BY <1>4
  <2> HIDE DEF T
  <2>2. \A m \in 0 .. N : m \in T BY <1>3, <2>1, SetInduction
  <2> QED BY <2>2
<1> DEFINE E(f) == [n \in 0 .. Len(TaSta) |-> IF n = 0 THEN emptyHeap
                      ELSE tmevtb_insert(f[n - 1], TaSta[n], cycphs[TaSta[n]])]
<1>6. \E f : f = E(f)
  <2>1. PICK f : CycTo(f, N) BY <1>5
  <2>2. \A n \in 0 .. N : f[n] = E(f)[n] BY <1>1, <2>1 DEF CycTo
  <2>3. DOMAIN f = 0 .. N /\ DOMAIN E(f) = 0 .. N BY <1>1, <2>1 DEF CycTo
  <2>4. f = [n \in 0 .. N |-> f[n]] BY <2>1 DEF CycTo
  <2>5. PICK d : d = E(f) OBVIOUS
  <2>6. d = [n \in 0 .. N |-> d[n]] BY <1>1, <2>5
  <2>7. \A n \in 0 .. N : f[n] = d[n] BY <2>2, <2>5
  <2>8. f = d BY <2>4, <2>6, <2>7
  <2> QED BY <2>5, <2>8
<1>7. PICK g : g = CHOOSE f : f = E(f) OBVIOUS
<1>8. g = E(g) BY <1>6, <1>7
<1>9. initialize_cyclic = g[Len(TaSta)] BY <1>7 DEF initialize_cyclic
<1>10. CycTo(g, Len(TaSta))
  <2>1. /\ DOMAIN g = 0 .. N
        /\ \A n \in 0 .. N : g[n] = IF n = 0 THEN emptyHeap
                                    ELSE tmevtb_insert(g[n - 1], TaSta[n], cycphs[TaSta[n]])
    BY <1>1, <1>8
  <2>2. g[0] = emptyHeap BY <2>1
  <2>3. \A n \in 1 .. N : g[n] = tmevtb_insert(g[n - 1], TaSta[n], cycphs[TaSta[n]]) BY <2>1
  <2> QED BY <1>1, <2>1, <2>2, <2>3 DEF CycTo
<1> QED BY <1>9, <1>10

(* The handlers in the first k entries of TaSta are registered at their phase. *)
Registered(h, k) ==
  \A x \in Event :
    /\ h.index[x] # 0 <=> \E i \in 1 .. k : TaSta[i] = x
    /\ h.index[x] # 0 => TimeOf(h, x) = cycphs[x]

(* The table TaSta lists different cyclic handlers, whose phases are words *)
(* of EVTTIM.                                                              *)
LEMMA StaticCyclic ==
  /\ Len(TaSta) \in Nat /\ DOMAIN TaSta = 1 .. Len(TaSta)
  /\ \A i \in 1 .. Len(TaSta) : TaSta[i] \in Cyc /\ TaSta[i] \in Event
  /\ \A i, j \in 1 .. Len(TaSta) : TaSta[i] = TaSta[j] => i = j
  /\ \A c \in Cyc : cycphs[c] \in EVTTIM
<1>1. TaSta \in Seq(Cyc) /\ IsInjective(TaSta) BY TimeAssumption
<1>2. Len(TaSta) \in Nat /\ DOMAIN TaSta = 1 .. Len(TaSta) BY <1>1
<1>3. \A i \in 1 .. Len(TaSta) : TaSta[i] \in Cyc BY <1>1
<1>4. \A i, j \in 1 .. Len(TaSta) : TaSta[i] = TaSta[j] => i = j BY <1>1, <1>2 DEF IsInjective
<1>5. \A c \in Cyc : cycphs[c] \in RELTIM BY TimeAssumption
<1>6. RELTIM \subseteq EVTTIM BY Constants DEF RELTIM, EVTTIM
<1> QED BY <1>2, <1>3, <1>4, <1>5, <1>6 DEF Event

(* initialize_cyclic registers the handlers with TA_STA at their phases,   *)
(* in a heap.                                                              *)
LEMMA InitHeap ==
  ASSUME min_time = 0
  PROVE  HeapOK(initialize_cyclic, min_time) /\ Registered(initialize_cyclic, Len(TaSta))
<1>0. min_time \in EVTTIM BY Constants DEF EVTTIM
<1>1. PICK N \in Nat : N = Len(TaSta) BY StaticCyclic
<1>2. PICK f : CycTo(f, N) /\ initialize_cyclic = f[N] BY <1>1, CycLoop
<1>3. /\ f[0] = emptyHeap
      /\ \A n \in 1 .. N : f[n] = tmevtb_insert(f[n - 1], TaSta[n], cycphs[TaSta[n]])
  BY <1>2 DEF CycTo
<1> DEFINE T == {k \in 0 .. N : HeapOK(f[k], min_time) /\ Registered(f[k], k)}
<1>4. 0 \in T
  <2>1. PICK h : h = emptyHeap OBVIOUS
  <2>2. h.node = <<>> /\ h.index = [e \in Event |-> 0] /\ DOMAIN h = {"node", "index"}
    BY <2>1 DEF emptyHeap
  <2>3. h.node \in Seq(Node) /\ Len(h.node) = 0 BY <2>2
  <2>4. \A x \in Event : h.index[x] = 0 BY <2>2
  <2>5. HeapOK(h, min_time)
    BY <2>2, <2>3, <2>4 DEF HeapOK, HeapType, HeapLinks, HeapOrder
  <2>6. Registered(h, 0) BY <2>4 DEF Registered
  <2> QED BY <1>3, <2>1, <2>5, <2>6
<1>5. ASSUME NEW k \in 1 .. N, k - 1 \in T PROVE k \in T
  <2>1. PICK h, w, c, t : h = f[k - 1] /\ w = f[k] /\ c = TaSta[k] /\ t = cycphs[c] OBVIOUS
  <2>2. w = tmevtb_insert(h, c, t) BY <1>3, <2>1
  <2>3. HeapOK(h, min_time) /\ Registered(h, k - 1) BY <1>5, <2>1
  <2>4. c \in Event /\ c \in Cyc BY <1>1, <2>1, StaticCyclic
  <2>5. t \in EVTTIM BY <2>1, <2>4, StaticCyclic
  <2>6. ASSUME NEW i \in 1 .. k - 1 PROVE TaSta[i] # c
    <3>1. i \in 1 .. N /\ k \in 1 .. N /\ i # k OBVIOUS
    <3> QED BY <1>1, <2>1, <3>1, StaticCyclic
  <2>7. h.index[c] = 0
    <3>1. h.index[c] # 0 <=> \E i \in 1 .. k - 1 : TaSta[i] = c BY <2>3, <2>4 DEF Registered
    <3> QED BY <2>6, <3>1
  <2>8. HeapOK(w, min_time) /\ Same(h, w, c) /\ w.index[c] # 0 /\ TimeOf(w, c) = t
    BY ONLY <1>0, <2>2, <2>3, <2>4, <2>5, <2>7, Insert
  <2>9. ASSUME NEW x \in Event
        PROVE  /\ w.index[x] # 0 <=> \E i \in 1 .. k : TaSta[i] = x
               /\ w.index[x] # 0 => TimeOf(w, x) = cycphs[x]
    <3>1. CASE x = c
      <4>1. \E i \in 1 .. k : TaSta[i] = x BY <2>1, <3>1
      <4> QED BY <2>1, <2>8, <3>1, <4>1
    <3>2. CASE x # c
      <4>1. /\ w.index[x] = 0 <=> h.index[x] = 0
            /\ h.index[x] # 0 => TimeOf(w, x) = TimeOf(h, x)
        BY <2>8, <3>2 DEF Same
      <4>2. /\ h.index[x] # 0 <=> \E i \in 1 .. k - 1 : TaSta[i] = x
            /\ h.index[x] # 0 => TimeOf(h, x) = cycphs[x]
        BY <2>3 DEF Registered
      <4>3. (\E i \in 1 .. k - 1 : TaSta[i] = x) <=> \E i \in 1 .. k : TaSta[i] = x
        BY <2>1, <3>2
      <4> QED BY <4>1, <4>2, <4>3
    <3> QED BY <3>1, <3>2
  <2>10. Registered(w, k) BY <2>9 DEF Registered
  <2> QED BY <2>1, <2>8, <2>10
<1>6. N \in T
  <2>1. \A k \in 1 .. N : k - 1 \in T => k \in T BY <1>5
  <2> HIDE DEF T
  <2>2. \A k \in 0 .. N : k \in T BY <1>4, <2>1, SetInduction
  <2> QED BY <2>2
<1> QED BY <1>1, <1>2, <1>6
-----------------------------------------------------------------------------
(***************************************************************************)
(* Time.  Now is the true time of the last tick, in 1/TIC_DENO ms after    *)
(* min_time: next_time and next_subtime are one tick ahead of it.          *)
(***************************************************************************)
Now(n, s, m) == D(n, m) * TIC_DENO + s - TIC_NUME

(* current_time is the last tick to the millisecond, and is no more than a *)
(* tick ahead of min_time.                                                 *)
ClockOK(c, m, n, s) ==
  /\ c \in EVTTIM /\ m \in EVTTIM /\ n \in EVTTIM /\ s \in 0 .. TIC_DENO - 1
  /\ D(c, m) * TIC_DENO <= Now(n, s, m) /\ Now(n, s, m) < (D(c, m) + 1) * TIC_DENO
  /\ Now(n, s, m) < TIC_NUME + TIC_DENO

(* The time t in the heap is the time asked for, w after the last tick,    *)
(* rounded up to a millisecond.                                            *)
Rounded(t, w, now, m) == w \in Int /\ D(t, m) * TIC_DENO - now - w \in 0 .. TIC_DENO - 1

EventsOK(h, wt, now, m) ==
  /\ DOMAIN wt = Event
  /\ \A e \in Event : h.index[e] # 0 => Rounded(TimeOf(h, e), wt[e], now, m)

(* The control blocks of the handlers agree with the heap. *)
BlocksOK(h, as, cs, et, nx) ==
  /\ DOMAIN as = Alm /\ cs \in [Cyc -> BOOLEAN] /\ DOMAIN et = Cyc /\ nx \subseteq Event
  /\ \A a \in Alm : as[a] \in BOOLEAN /\ (h.index[a] # 0 <=> as[a])
  /\ \A c \in Cyc : cs[c] \in BOOLEAN /\ (h.index[c] # 0 <=> cs[c])
  /\ \A c \in Cyc : h.index[c] # 0 => et[c] = TimeOf(h, c)
  /\ \A e \in nx : h.index[e] = 0

(* The inductive invariant. *)
TimeInv ==
  /\ HeapOK(heap, min_time)
  /\ ClockOK(current_time, min_time, next_time, next_subtime)
  /\ EventsOK(heap, wait, Now(next_time, next_subtime, min_time), min_time)
  /\ BlocksOK(heap, almsta, cycsta, evttim, noexs)
  /\ sigtim \in {"out", "loop", "callback"}
  /\ sigtim = "out" => min_time = current_time

(* Products with a positive number, as far as the tick needs them. *)
LEMMA Product ==
  ASSUME NEW a \in Int, NEW b \in Int, NEW q \in Nat \ {0}
  PROVE  /\ a * q \in Int /\ (a + b) * q = a * q + b * q /\ (a - b) * q = a * q - b * q
         /\ 1 * q = q /\ (a + 1) * q = a * q + q
         /\ a <= b => a * q <= b * q
         /\ a < b => a * q + q <= b * q
         /\ a * q < b * q + q => a <= b
         /\ a * q < b * q => a < b
<1>1. /\ a * q \in Int /\ (a + b) * q = a * q + b * q /\ (a - b) * q = a * q - b * q
      /\ 1 * q = q /\ (a + 1) * q = a * q + q
  OBVIOUS
<1>2. ASSUME NEW k \in Nat PROVE k * q \in Nat OBVIOUS
<1>3. ASSUME NEW x \in Int, NEW y \in Int, x <= y PROVE x * q <= y * q
  <2>1. PICK k \in Nat : k = y - x BY <1>3
  <2>2. k * q \in Nat BY <1>2
  <2>3. k * q = y * q - x * q BY <2>1
  <2>4. x * q \in Int /\ y * q \in Int OBVIOUS
  <2> QED BY <2>2, <2>3, <2>4
<1>4. a < b => a * q + q <= b * q
  <2>1. SUFFICES ASSUME a < b PROVE a * q + q <= b * q OBVIOUS
  <2>2. (a + 1) * q <= b * q BY <1>3, <2>1
  <2> QED BY <1>1, <2>2
<1>5. a * q < b * q + q => a <= b
  <2>1. SUFFICES ASSUME ~(a <= b) PROVE ~(a * q < b * q + q) OBVIOUS
  <2>2. b + 1 <= a BY <2>1
  <2>3. (b + 1) * q <= a * q BY <1>3, <2>2
  <2>4. (b + 1) * q = b * q + q /\ b * q \in Int OBVIOUS
  <2> QED BY <1>1, <2>3, <2>4
<1>6. a * q < b * q => a < b
  <2>1. SUFFICES ASSUME ~(a < b) PROVE ~(a * q < b * q) OBVIOUS
  <2>2. b <= a BY <2>1
  <2>3. b * q <= a * q BY <1>3, <2>2
  <2>4. b * q \in Int OBVIOUS
  <2> QED BY <1>1, <2>3, <2>4
<1> QED BY <1>1, <1>3, <1>4, <1>5, <1>6

(* A time k ms after t. *)
LEMMA Later ==
  ASSUME NEW m \in EVTTIM, NEW t \in EVTTIM, NEW k \in Nat, D(t, m) + k < EVTTIM_MOD,
         NEW u, u = (t + k) % EVTTIM_MOD
  PROVE  u \in EVTTIM /\ D(u, m) = D(t, m) + k
<1>1. PICK M \in Nat \ {0} : M = EVTTIM_MOD BY Constants
<1>2. D(t, m) \in EVTTIM /\ D(t, m) = IF t < m THEN t - m + M ELSE t - m BY <1>1, Distances
<1>3. t \in 0 .. M - 1 /\ m \in 0 .. M - 1 /\ D(t, m) \in 0 .. M - 1 BY <1>1, <1>2 DEF EVTTIM
<1>4. k < M BY <1>1, <1>3
<1>5. PICK a \in Int : a = t + k BY <1>3
<1>6. -M < a /\ a < 2 * M BY <1>3, <1>4, <1>5
<1>7. a % M = IF a < 0 THEN a + M ELSE IF a < M THEN a ELSE a - M BY <1>6, Remainder
<1>8. u = IF a < M THEN a ELSE a - M BY <1>1, <1>3, <1>5, <1>7
<1>9. u \in EVTTIM BY <1>1, <1>6, <1>8, <1>3, <1>5 DEF EVTTIM
<1>10. D(u, m) = IF u < m THEN u - m + M ELSE u - m BY <1>1, <1>9, Distances
<1>11. u \in Int BY <1>1, <1>9 DEF EVTTIM
<1>12. PICK d \in Int : d = D(t, m) BY <1>3
<1>13. d = IF t < m THEN t - m + M ELSE t - m BY <1>2, <1>12
<1>14. d + k < M BY <1>1, <1>12
<1>15. D(u, m) = d + k BY <1>3, <1>5, <1>8, <1>10, <1>11, <1>13, <1>14
<1> QED BY <1>9, <1>12, <1>15

(* min_time is moved to c. *)
LEMMA Moved ==
  ASSUME NEW m \in EVTTIM, NEW c \in EVTTIM
  PROVE  /\ D(c, c) = 0
         /\ \A t \in EVTTIM : D(c, m) <= D(t, m) => D(t, c) = D(t, m) - D(c, m)
<1>1. PICK M \in Nat \ {0} : M = EVTTIM_MOD BY Constants
<1>2. c \in 0 .. M - 1 /\ m \in 0 .. M - 1 BY <1>1 DEF EVTTIM
<1>3. D(c, m) = (IF c < m THEN c - m + M ELSE c - m) /\ D(c, c) = c - c BY <1>1, <1>2, Distances
<1>4. ASSUME NEW t \in EVTTIM, D(c, m) <= D(t, m) PROVE D(t, c) = D(t, m) - D(c, m)
  <2>1. t \in 0 .. M - 1 BY <1>1 DEF EVTTIM
  <2>2. /\ D(t, m) = IF t < m THEN t - m + M ELSE t - m
        /\ D(t, c) = IF t < c THEN t - c + M ELSE t - c
    BY <1>1, Distances
  <2>3. PICK dt \in Int, dc \in Int : dt = D(t, m) /\ dc = D(c, m)
    <3>1. D(t, m) \in EVTTIM /\ D(c, m) \in EVTTIM BY Distances
    <3>2. EVTTIM \subseteq Int BY <1>1 DEF EVTTIM
    <3> QED BY <3>1, <3>2
  <2>4. dc <= dt BY <1>4, <2>3
  <2>5. dc = (IF c < m THEN c - m + M ELSE c - m) /\ dt = (IF t < m THEN t - m + M ELSE t - m)
    BY <1>3, <2>2, <2>3
  <2>6. D(t, c) = dt - dc BY <1>2, <2>1, <2>2, <2>4, <2>5
  <2> QED BY <2>3, <2>6
<1> QED BY <1>2, <1>3, <1>4

(* What ClockOK says, multiplied out: current_time is the present, rounded *)
(* down.                                                                   *)
LEMMA ClockFacts ==
  ASSUME NEW c, NEW m, NEW n, NEW s, ClockOK(c, m, n, s)
  PROVE  /\ c \in EVTTIM /\ m \in EVTTIM /\ n \in EVTTIM
         /\ D(c, m) \in Nat /\ D(n, m) \in Nat /\ s \in Nat /\ s < TIC_DENO
         /\ Now(n, s, m) \in Int /\ D(c, m) <= D(n, m)
         /\ Now(n, s, m) = D(n, m) * TIC_DENO + s - TIC_NUME
         /\ D(c, m) * TIC_DENO <= Now(n, s, m)
         /\ Now(n, s, m) < D(c, m) * TIC_DENO + TIC_DENO
         /\ Now(n, s, m) < TIC_NUME + TIC_DENO
<1>1. PICK Q \in Nat \ {0}, N \in Nat \ {0} : Q = TIC_DENO /\ N = TIC_NUME BY Constants
<1>2. c \in EVTTIM /\ m \in EVTTIM /\ n \in EVTTIM /\ s \in 0 .. Q - 1 BY <1>1 DEF ClockOK
<1>3. D(c, m) \in EVTTIM /\ D(n, m) \in EVTTIM BY <1>2, Distances
<1>4. EVTTIM \subseteq Nat BY Constants DEF EVTTIM
<1>5. PICK dc \in Nat, dn \in Nat : dc = D(c, m) /\ dn = D(n, m)
  <2>1. D(c, m) \in Nat /\ D(n, m) \in Nat BY <1>3, <1>4
  <2> QED BY <2>1
<1>0. PICK now : now = Now(n, s, m) OBVIOUS
<1>6. now = dn * Q + s - N BY <1>1, <1>0, <1>5 DEF Now
<1>7. dc * Q <= now /\ now < (dc + 1) * Q /\ now < N + Q BY <1>1, <1>0, <1>5 DEF ClockOK
<1>8. dn * Q \in Int /\ dc * Q \in Int /\ (dc + 1) * Q = dc * Q + Q BY Product
<1>9. now \in Int BY <1>2, <1>6, <1>8
<1>10. dc * Q < dn * Q + Q BY <1>2, <1>6, <1>7, <1>8
<1>11. dc <= dn BY <1>10, Product
<1> QED BY <1>1, <1>2, <1>0, <1>5, <1>6, <1>7, <1>8, <1>9, <1>11

(* Two ticks and the longest relative time fit in EVTTIM. *)
LEMMA Span ==
  ASSUME NEW x \in Nat, NEW k \in RELTIM,
         x * TIC_DENO <= 2 * TIC_NUME + 2 * TIC_DENO - 2
  PROVE  x + k < EVTTIM_MOD /\ k \in Nat
<1>1. PICK Q \in Nat \ {0}, N \in Nat \ {0}, M \in Nat \ {0}, L \in Int :
        Q = TIC_DENO /\ N = TIC_NUME /\ M = EVTTIM_MOD /\ L = TMAX_RELTIM
  BY Constants
<1>2. 2 * N + 2 * Q - 2 < (M - L) * Q BY <1>1, TimeAssumption
<1>3. PICK y \in Int : y = M - L OBVIOUS
<1>4. x * Q \in Int /\ y * Q \in Int BY Product
<1>5. x * Q < y * Q BY <1>1, <1>2, <1>3, <1>4
<1>6. x < y BY <1>5, Product
<1>7. k \in Nat /\ k <= L BY <1>1 DEF RELTIM
<1> QED BY <1>1, <1>3, <1>6, <1>7

(* An event that is registered for reltim after base_time. *)
LEMMA RestartTime ==
  ASSUME NEW c, NEW m, NEW n, NEW s, ClockOK(c, m, n, s), NEW k \in RELTIM,
         NEW b, b = (IF s > 0 THEN 1 ELSE 0), NEW u, u = (n + b + k) % EVTTIM_MOD
  PROVE  /\ u \in EVTTIM /\ D(c, m) < D(u, m)
         /\ Rounded(u, k * TIC_DENO + TIC_NUME, Now(n, s, m), m)
<1>1. PICK Q \in Nat \ {0}, N \in Nat \ {0} : Q = TIC_DENO /\ N = TIC_NUME BY Constants
<1>2. PICK dc \in Nat, dn \in Nat, now \in Int :
        dc = D(c, m) /\ dn = D(n, m) /\ now = Now(n, s, m)
  BY ClockFacts
<1>3. /\ dc * Q <= now /\ now < dc * Q + Q /\ now < N + Q /\ now = dn * Q + s - N
      /\ s \in Nat /\ s < Q /\ dc <= dn
  BY <1>1, <1>2, ClockFacts
<1>4. m \in EVTTIM /\ n \in EVTTIM BY DEF ClockOK
<1>5. b \in {0, 1} BY <1>3
<1>6. PICK x \in Nat : x = dn + b BY <1>5
<1>7. dn * Q \in Int /\ dc * Q \in Int BY Product
<1>8. x * Q = dn * Q + b * Q /\ b * Q = IF s > 0 THEN Q ELSE 0 BY <1>3, <1>5, <1>6
<1>9. x * Q <= 2 * N + 2 * Q - 2 BY <1>3, <1>7, <1>8
<1>10. x + k < EVTTIM_MOD /\ k \in Nat BY <1>1, <1>9, Span
<1>11. PICK z \in Nat : z = b + k BY <1>5, <1>10
<1>12. D(n, m) + z < EVTTIM_MOD BY <1>2, <1>6, <1>10, <1>11, <1>5
<1>13. n \in Int BY <1>4, Constants DEF EVTTIM
<1>14. u = (n + z) % EVTTIM_MOD
  <2>1. n + b + k = n + z BY <1>5, <1>10, <1>11, <1>13
  <2> QED BY <2>1
<1>15. u \in EVTTIM /\ D(u, m) = D(n, m) + z BY <1>4, <1>12, <1>14, Later
<1>16. D(u, m) = x + k BY <1>2, <1>5, <1>6, <1>10, <1>11, <1>15
<1>17. PICK du \in Nat : du = x + k /\ du = D(u, m) BY <1>10, <1>16
<1>18. du * Q = x * Q + k * Q /\ k * Q \in Int BY <1>10, <1>17, Product
<1>19. dc < du
  <2>1. CASE s > 0 BY <1>3, <1>6, <1>10, <1>17, <2>1
  <2>2. CASE ~(s > 0)
    <3>1. dc * Q < dn * Q BY <1>3, <1>7, <2>2
    <3>2. dc < dn BY <3>1, Product
    <3> QED BY <1>5, <1>6, <1>10, <1>17, <3>2
  <2> QED BY <2>1, <2>2
<1>20. PICK w \in Int : w = k * Q + N BY <1>18
<1>21. du * Q - now - w = b * Q - s /\ b * Q \in Int
  BY <1>3, <1>5, <1>7, <1>8, <1>18, <1>20
<1>22. du * Q - now - w \in 0 .. Q - 1 BY <1>3, <1>8, <1>21
<1>23. Rounded(u, w, now, m) BY <1>1, <1>17, <1>22 DEF Rounded
<1> QED BY <1>1, <1>2, <1>15, <1>17, <1>19, <1>20, <1>23

(* The next activation of a cyclic handler that is due. *)
LEMMA PeriodTime ==
  ASSUME NEW c, NEW m, NEW n, NEW s, ClockOK(c, m, n, s), NEW k \in RELTIM,
         NEW t \in EVTTIM, D(t, m) <= D(c, m), NEW w, Rounded(t, w, Now(n, s, m), m),
         NEW u, u = (t + k) % EVTTIM_MOD
  PROVE  u \in EVTTIM /\ Rounded(u, w + k * TIC_DENO, Now(n, s, m), m)
<1>1. PICK Q \in Nat \ {0}, N \in Nat \ {0} : Q = TIC_DENO /\ N = TIC_NUME BY Constants
<1>2. PICK dc \in Nat, now \in Int : dc = D(c, m) /\ now = Now(n, s, m) BY ClockFacts
<1>3. dc * Q <= now /\ now < N + Q BY <1>1, <1>2, ClockFacts
<1>4. m \in EVTTIM BY DEF ClockOK
<1>5. PICK dt \in Nat : dt = D(t, m)
  <2>1. D(t, m) \in EVTTIM BY <1>4, Distances
  <2>2. EVTTIM \subseteq Nat BY Constants DEF EVTTIM
  <2> QED BY <2>1, <2>2
<1>6. dt * Q <= dc * Q /\ dt * Q \in Int /\ dc * Q \in Int BY <1>2, <1>5, Product
<1>7. dt * Q <= 2 * N + 2 * Q - 2 BY <1>3, <1>6
<1>8. dt + k < EVTTIM_MOD /\ k \in Nat BY <1>1, <1>7, Span
<1>9. u \in EVTTIM /\ D(u, m) = dt + k BY <1>4, <1>5, <1>8, Later
<1>10. (dt + k) * Q = dt * Q + k * Q /\ k * Q \in Int BY <1>8, Product
<1>11. w \in Int /\ dt * Q - now - w \in 0 .. Q - 1 BY <1>1, <1>2, <1>5 DEF Rounded
<1>12. w + k * Q \in Int /\ (dt + k) * Q - now - (w + k * Q) \in 0 .. Q - 1
  BY <1>6, <1>10, <1>11
<1>13. Rounded(u, w + k * Q, now, m) BY <1>1, <1>9, <1>12 DEF Rounded
<1> QED BY <1>1, <1>2, <1>9, <1>13

(* Quotient and remainder. *)
LEMMA Division ==
  ASSUME NEW a \in Nat, NEW q \in Nat \ {0}
  PROVE  /\ a \div q \in Nat /\ a % q \in 0 .. q - 1 /\ a = (a \div q) * q + (a % q)
  OBVIOUS

(* 0 is a relative time. *)
LEMMA Phase0 == 0 \in RELTIM
<1>1. EVTTIM_MOD \in Nat /\ EVTTIM_MOD # 0 /\ TMAX_RELTIM = (EVTTIM_MOD \div 2) - 1
  BY TimeAssumption
<1>2. CASE EVTTIM_MOD >= 2 BY <1>1, <1>2 DEF RELTIM
<1>3. CASE EVTTIM_MOD = 1 BY <1>1, <1>3, TimeAssumption DEF RELTIM
<1> QED BY <1>1, <1>2, <1>3

(* signal_time adds a tick to next_time. *)
LEMMA TickTime ==
  ASSUME NEW m, NEW n, NEW s, ClockOK(m, m, n, s), NEW v, v = s + (TIC_NUME % TIC_DENO),
         NEW n2, n2 = (n + (TIC_NUME \div TIC_DENO) + (v \div TIC_DENO)) % EVTTIM_MOD,
         NEW s2, s2 = v % TIC_DENO
  PROVE  ClockOK(n, m, n2, s2) /\ Now(n2, s2, m) = Now(n, s, m) + TIC_NUME
<1>1. PICK Q \in Nat \ {0}, N \in Nat \ {0} : Q = TIC_DENO /\ N = TIC_NUME BY Constants
<1>2. PICK dn \in Nat, now \in Int : dn = D(n, m) /\ now = Now(n, s, m) BY ClockFacts
<1>3. m \in EVTTIM /\ n \in EVTTIM BY DEF ClockOK
<1>4. D(m, m) = 0 BY <1>3, Moved
<1>5. now < Q /\ now = dn * Q + s - N /\ s \in Nat /\ s < Q
  <2>1. now < D(m, m) * Q + Q BY <1>1, <1>2, ClockFacts
  <2>2. now = dn * Q + s - N /\ s \in Nat /\ s < Q BY <1>1, <1>2, ClockFacts
  <2> QED BY <1>4, <2>1, <2>2
<1>6. PICK k \in Nat, j \in Nat : k = N \div Q /\ j = N % Q /\ j < Q /\ N = k * Q + j
  <2>1. N \in Nat OBVIOUS
  <2>2. N \div Q \in Nat /\ N % Q \in 0 .. Q - 1 /\ N = (N \div Q) * Q + (N % Q)
    BY <2>1, Division
  <2> QED BY <2>2
<1>7. v \in Nat /\ v = s + j BY <1>1, <1>5, <1>6
<1>8. PICK a \in Nat : a = v \div Q /\ s2 \in 0 .. Q - 1 /\ v = a * Q + s2
  BY <1>1, <1>7, Division
<1>9. PICK x \in Nat, z \in Nat : x = dn + k + a /\ z = k + a OBVIOUS
<1>10. dn * Q \in Int /\ k * Q \in Int /\ a * Q \in Int BY Product
<1>11. x * Q = dn * Q + k * Q + a * Q
  <2>1. (dn + k + a) * Q = (dn + k) * Q + a * Q BY Product
  <2>2. (dn + k) * Q = dn * Q + k * Q BY Product
  <2> QED BY <1>9, <2>1, <2>2
<1>12. x * Q + s2 = now + 2 * N
  <2>1. PICK A \in Int, B \in Int, C \in Int : A = dn * Q /\ B = k * Q /\ C = a * Q BY <1>10
  <2>2. /\ x * Q = A + B + C /\ now = A + s - N /\ N = B + j /\ s + j = C + s2
    BY <1>5, <1>6, <1>7, <1>8, <1>11, <2>1
  <2>3. s2 \in Int /\ s \in Int /\ j \in Int BY <1>5, <1>8
  <2>4. A + B + C + s2 = now + 2 * N BY <2>2, <2>3
  <2> QED BY <2>2, <2>4
<1>13. x * Q \in Int /\ x * Q <= 2 * N + 2 * Q - 2 BY <1>5, <1>8, <1>10, <1>11, <1>12
<1>14. x < EVTTIM_MOD
  <2>1. 0 \in RELTIM BY Phase0
  <2> QED BY <1>1, <1>13, <2>1, Span
<1>15. D(n, m) + z < EVTTIM_MOD BY <1>2, <1>9, <1>14
<1>16. n2 = (n + z) % EVTTIM_MOD
  <2>1. n \in Int BY <1>3, Constants DEF EVTTIM
  <2>2. n + k + a = n + z BY <1>9, <2>1
  <2> QED BY <1>1, <1>6, <1>8, <2>2
<1>17. n2 \in EVTTIM /\ D(n2, m) = D(n, m) + z BY <1>3, <1>15, <1>16, Later
<1>18. D(n2, m) = x BY <1>2, <1>9, <1>17
<1>19. Now(n2, s2, m) = x * Q + s2 - N BY <1>1, <1>18 DEF Now
<1>20. Now(n2, s2, m) = now + N
  <2>1. PICK A \in Int : A = x * Q BY <1>13
  <2>2. A + s2 = now + 2 * N /\ Now(n2, s2, m) = A + s2 - N BY <1>12, <1>19, <2>1
  <2>3. PICK B \in Int : B = A + s2 BY <1>8
  <2>4. B - N = now + N BY <2>2, <2>3
  <2>5. Now(n2, s2, m) = B - N BY <2>2, <2>3
  <2> QED BY <2>4, <2>5
<1>21. dn * Q <= now + N /\ now + N < (dn + 1) * Q /\ now + N < N + Q
  <2>1. (dn + 1) * Q = dn * Q + Q BY Product
  <2> QED BY <1>5, <1>10, <2>1
<1>22. ClockOK(n, m, n2, s2) BY <1>1, <1>2, <1>3, <1>8, <1>17, <1>20, <1>21 DEF ClockOK
<1> QED BY <1>1, <1>2, <1>20, <1>22

(* min_time catches up with current_time. *)
LEMMA EndTime ==
  ASSUME NEW c, NEW m, NEW n, NEW s, ClockOK(c, m, n, s)
  PROVE  /\ ClockOK(c, c, n, s)
         /\ \A t \in EVTTIM : \A w : D(c, m) < D(t, m) /\ Rounded(t, w, Now(n, s, m), m) =>
              0 < D(t, c) /\ Rounded(t, w, Now(n, s, c), c)
<1>1. PICK Q \in Nat \ {0}, N \in Nat \ {0} : Q = TIC_DENO /\ N = TIC_NUME BY Constants
<1>2. PICK dc \in Nat, dn \in Nat, now \in Int :
        dc = D(c, m) /\ dn = D(n, m) /\ now = Now(n, s, m)
  BY ClockFacts
<1>3. /\ dc * Q <= now /\ now < dc * Q + Q /\ now < N + Q /\ now = dn * Q + s - N
      /\ s \in Nat /\ s < Q /\ dc <= dn
  BY <1>1, <1>2, ClockFacts
<1>4. c \in EVTTIM /\ m \in EVTTIM /\ n \in EVTTIM BY DEF ClockOK
<1>5. D(c, c) = 0 BY <1>4, Moved
<1>6. D(n, c) = dn - dc BY <1>2, <1>3, <1>4, Moved
<1>7. dn * Q \in Int /\ dc * Q \in Int /\ (dn - dc) * Q = dn * Q - dc * Q BY Product
<1>8. PICK now2 \in Int : now2 = Now(n, s, c) /\ now2 = now - dc * Q
  <2>1. Now(n, s, c) = (dn - dc) * Q + s - N BY <1>1, <1>6 DEF Now
  <2>2. Now(n, s, c) = now - dc * Q BY <1>3, <1>7, <2>1
  <2> QED BY <1>7, <2>2
<1>9. 0 * Q = 0 /\ (0 + 1) * Q = Q OBVIOUS
<1>10. 0 <= now2 /\ now2 < Q /\ now2 < N + Q BY <1>3, <1>7, <1>8
<1>11. ClockOK(c, c, n, s) BY <1>1, <1>3, <1>4, <1>5, <1>8, <1>9, <1>10 DEF ClockOK
<1>12. ASSUME NEW t \in EVTTIM, NEW w, D(c, m) < D(t, m), Rounded(t, w, now, m)
       PROVE  0 < D(t, c) /\ Rounded(t, w, now2, c)
  <2>1. PICK dt \in Nat : dt = D(t, m)
    <3>1. D(t, m) \in EVTTIM BY <1>4, Distances
    <3>2. EVTTIM \subseteq Nat BY Constants DEF EVTTIM
    <3> QED BY <3>1, <3>2
  <2>2. dc < dt BY <1>2, <1>12, <2>1
  <2>3. D(t, c) = dt - dc
    <3>1. D(c, m) <= D(t, m) BY <1>2, <2>1, <2>2
    <3> QED BY <1>2, <1>4, <2>1, <3>1, Moved
  <2>4. (dt - dc) * Q = dt * Q - dc * Q /\ dt * Q \in Int BY Product
  <2>5. w \in Int /\ dt * Q - now - w \in 0 .. Q - 1 BY <1>1, <1>12, <2>1 DEF Rounded
  <2>6. (dt - dc) * Q - now2 - w \in 0 .. Q - 1 BY <1>7, <1>8, <2>4, <2>5
  <2>7. Rounded(t, w, now2, c) BY <1>1, <2>3, <2>5, <2>6 DEF Rounded
  <2> QED BY <2>2, <2>3, <2>7
<1> QED BY <1>2, <1>8, <1>11, <1>12

(* A tick takes the same from the time left and from the distance to the   *)
(* present.                                                                *)
LEMMA TickRounded ==
  ASSUME NEW t \in EVTTIM, NEW m \in EVTTIM, NEW now \in Int, NEW w, Rounded(t, w, now, m)
  PROVE  Rounded(t, w - TIC_NUME, now + TIC_NUME, m)
<1>1. PICK Q \in Nat \ {0}, N \in Nat \ {0} : Q = TIC_DENO /\ N = TIC_NUME BY Constants
<1>2. PICK dt \in Nat : dt = D(t, m)
  <2>1. D(t, m) \in EVTTIM BY Distances
  <2>2. EVTTIM \subseteq Nat BY Constants DEF EVTTIM
  <2> QED BY <2>1, <2>2
<1>3. w \in Int /\ dt * Q - now - w \in 0 .. Q - 1 /\ dt * Q \in Int
  BY <1>1, <1>2, Product DEF Rounded
<1>4. w - N \in Int /\ dt * Q - (now + N) - (w - N) \in 0 .. Q - 1 BY <1>3
<1> QED BY <1>1, <1>2, <1>4 DEF Rounded
-----------------------------------------------------------------------------
(***************************************************************************)
(* The steps.                                                              *)
(***************************************************************************)
(* Event e is registered or unregistered, the others are left alone. *)
LEMMA EventSet ==
  ASSUME NEW h, NEW wt, NEW now, NEW m, EventsOK(h, wt, now, m), NEW w, NEW e \in Event,
         Same(h, w, e), NEW k, w.index[e] # 0 => Rounded(TimeOf(w, e), k, now, m),
         NEW wt2, wt2 = [wt EXCEPT ![e] = k]
  PROVE  EventsOK(w, wt2, now, m)
<1>1. DOMAIN wt = Event BY DEF EventsOK
<1>2. DOMAIN wt2 = Event /\ wt2[e] = k /\ \A x \in Event : x # e => wt2[x] = wt[x] BY <1>1
<1>3. ASSUME NEW x \in Event, w.index[x] # 0
      PROVE  Rounded(TimeOf(w, x), wt2[x], now, m)
  <2>1. CASE x = e BY <1>2, <1>3, <2>1
  <2>2. CASE x # e
    <3>1. h.index[x] # 0 /\ TimeOf(w, x) = TimeOf(h, x) /\ wt2[x] = wt[x]
      BY <1>2, <1>3, <2>2 DEF Same
    <3>2. Rounded(TimeOf(h, x), wt[x], now, m) BY <3>1 DEF EventsOK
    <3> QED BY <3>1, <3>2
  <2> QED BY <2>1, <2>2
<1> QED BY <1>2, <1>3 DEF EventsOK

(* An alarm is no cyclic handler. *)
LEMMA Disjoint == \A a \in Alm, c \in Cyc : a # c /\ a \in Event /\ c \in Event
  BY TimeAssumption DEF Event

(* The block of alarm a is changed. *)
LEMMA BlocksAlarm ==
  ASSUME NEW h, NEW as, NEW cs, NEW et, NEW nx, BlocksOK(h, as, cs, et, nx),
         NEW w, NEW a \in Alm, Same(h, w, a), NEW b \in BOOLEAN, w.index[a] # 0 <=> b,
         NEW as2, as2 = [as EXCEPT ![a] = b],
         NEW nx2, nx2 \subseteq nx \cup {a}, a \in nx2 => ~b
  PROVE  BlocksOK(w, as2, cs, et, nx2)
<1>1. a \in Event BY Disjoint DEF Event
<1>2. \A x \in Event : x # a => /\ w.index[x] = 0 <=> h.index[x] = 0
                                /\ h.index[x] # 0 => TimeOf(w, x) = TimeOf(h, x)
  BY DEF Same
<1>3. DOMAIN as = Alm BY DEF BlocksOK
<1>4. DOMAIN as2 = Alm /\ as2[a] = b /\ \A x \in Alm : x # a => as2[x] = as[x] BY <1>3
<1>5. nx2 \subseteq Event BY <1>1 DEF BlocksOK
<1>6. ASSUME NEW x \in Alm PROVE as2[x] \in BOOLEAN /\ (w.index[x] # 0 <=> as2[x])
  <2>1. CASE x = a BY <1>4, <2>1
  <2>2. CASE x # a
    <3>1. x \in Event BY DEF Event
    <3>2. as[x] \in BOOLEAN /\ (h.index[x] # 0 <=> as[x]) BY DEF BlocksOK
    <3>3. as2[x] = as[x] /\ (w.index[x] = 0 <=> h.index[x] = 0) BY <1>2, <1>4, <2>2, <3>1
    <3> QED BY <3>2, <3>3
  <2> QED BY <2>1, <2>2
<1>7. ASSUME NEW x \in Cyc
      PROVE  /\ cs[x] \in BOOLEAN /\ (w.index[x] # 0 <=> cs[x])
             /\ w.index[x] # 0 => et[x] = TimeOf(w, x)
  <2>1. x \in Event /\ x # a BY Disjoint DEF Event
  <2>2. /\ cs[x] \in BOOLEAN /\ (h.index[x] # 0 <=> cs[x])
        /\ h.index[x] # 0 => et[x] = TimeOf(h, x)
    BY DEF BlocksOK
  <2> QED BY <1>2, <2>1, <2>2
<1>8. ASSUME NEW x \in nx2 PROVE w.index[x] = 0
  <2>1. CASE x = a BY <1>8, <2>1
  <2>2. CASE x # a
    <3>1. x \in Event /\ h.index[x] = 0 BY <1>5, <2>2 DEF BlocksOK
    <3> QED BY <1>2, <2>2, <3>1
  <2> QED BY <2>1, <2>2
<1>9. cs \in [Cyc -> BOOLEAN] /\ DOMAIN et = Cyc BY DEF BlocksOK
<1> QED BY <1>4, <1>5, <1>6, <1>7, <1>8, <1>9 DEF BlocksOK

(* et2 differs from et at c only. *)
But(et, et2, c) == DOMAIN et2 = DOMAIN et /\ \A x \in Cyc : x # c => et2[x] = et[x]

(* The block of cyclic handler c is changed. *)
LEMMA BlocksCyclic ==
  ASSUME NEW h, NEW as, NEW cs, NEW et, NEW nx, BlocksOK(h, as, cs, et, nx),
         NEW w, NEW c \in Cyc, Same(h, w, c), NEW b \in BOOLEAN, w.index[c] # 0 <=> b,
         NEW cs2, cs2 = [cs EXCEPT ![c] = b],
         NEW et2, But(et, et2, c), b => et2[c] = TimeOf(w, c),
         NEW nx2, nx2 \subseteq nx \cup {c}, c \in nx2 => ~b
  PROVE  BlocksOK(w, as, cs2, et2, nx2)
<1>1. c \in Event BY Disjoint DEF Event
<1>2. \A x \in Event : x # c => /\ w.index[x] = 0 <=> h.index[x] = 0
                                /\ h.index[x] # 0 => TimeOf(w, x) = TimeOf(h, x)
  BY DEF Same
<1>3. DOMAIN cs = Cyc /\ DOMAIN et = Cyc BY DEF BlocksOK
<1>4. cs2 \in [Cyc -> BOOLEAN] /\ cs2[c] = b /\ \A x \in Cyc : x # c => cs2[x] = cs[x]
  <2>1. cs \in [Cyc -> BOOLEAN] BY DEF BlocksOK
  <2> QED BY <2>1
<1>5. nx2 \subseteq Event BY <1>1 DEF BlocksOK
<1>6. ASSUME NEW x \in Alm PROVE as[x] \in BOOLEAN /\ (w.index[x] # 0 <=> as[x])
  <2>1. x \in Event /\ x # c BY Disjoint DEF Event
  <2>2. as[x] \in BOOLEAN /\ (h.index[x] # 0 <=> as[x]) BY DEF BlocksOK
  <2> QED BY <1>2, <2>1, <2>2
<1>7. ASSUME NEW x \in Cyc
      PROVE  /\ cs2[x] \in BOOLEAN /\ (w.index[x] # 0 <=> cs2[x])
             /\ w.index[x] # 0 => et2[x] = TimeOf(w, x)
  <2>1. CASE x = c BY <1>4, <2>1
  <2>2. CASE x # c
    <3>1. x \in Event BY DEF Event
    <3>2. /\ cs[x] \in BOOLEAN /\ (h.index[x] # 0 <=> cs[x])
          /\ h.index[x] # 0 => et[x] = TimeOf(h, x)
      BY DEF BlocksOK
    <3>3. et2[x] = et[x] BY <2>2 DEF But
    <3>4. cs2[x] = cs[x] BY <1>4, <2>2
    <3> QED BY <1>2, <2>2, <3>1, <3>2, <3>3, <3>4
  <2> QED BY <2>1, <2>2
<1>8. ASSUME NEW x \in nx2 PROVE w.index[x] = 0
  <2>1. CASE x = c BY <1>8, <2>1
  <2>2. CASE x # c
    <3>1. x \in Event /\ h.index[x] = 0 BY <1>5, <2>2 DEF BlocksOK
    <3> QED BY <1>2, <2>2, <3>1
  <2> QED BY <2>1, <2>2
<1>9. DOMAIN as = Alm /\ DOMAIN et2 = Cyc BY <1>3 DEF BlocksOK, But
<1> QED BY <1>4, <1>5, <1>6, <1>7, <1>8, <1>9 DEF BlocksOK

(* A handler is started, whether it was started before or not. *)
LEMMA Restart ==
  ASSUME NEW h, NEW e \in Event, NEW t \in EVTTIM, min_time \in EVTTIM, HeapOK(h, min_time),
         NEW started \in BOOLEAN, h.index[e] # 0 <=> started,
         NEW w, w = tmevtb_insert(IF started THEN tmevtb_delete(h, e) ELSE h, e, t)
  PROVE  HeapOK(w, min_time) /\ Same(h, w, e) /\ w.index[e] # 0 /\ TimeOf(w, e) = t
<1>1. CASE started
  <2>1. PICK d : d = tmevtb_delete(h, e) OBVIOUS
  <2>2. h.index[e] # 0 BY <1>1
  <2>3. HeapOK(d, min_time) /\ Same(h, d, e) /\ d.index[e] = 0 BY <2>1, <2>2, Delete
  <2>4. w = tmevtb_insert(d, e, t) BY <1>1, <2>1
  <2>5. HeapOK(w, min_time) /\ Same(d, w, e) /\ w.index[e] # 0 /\ TimeOf(w, e) = t
    BY ONLY <2>3, <2>4, e \in Event, t \in EVTTIM, min_time \in EVTTIM, Insert
  <2> QED BY <2>3, <2>5, SameTrans
<1>2. CASE ~started
  <2>1. w = tmevtb_insert(h, e, t) /\ h.index[e] = 0 BY <1>2
  <2> QED BY <2>1, Insert
<1> QED BY <1>1, <1>2

(* A step that does not touch the clock. *)
LEMMA HandlerStep ==
  ASSUME TimeInv, UNCHANGED clock, HeapOK(heap', min_time),
         EventsOK(heap', wait', Now(next_time, next_subtime, min_time), min_time),
         BlocksOK(heap', almsta', cycsta', evttim', noexs'),
         sigtim' \in {"out", "loop", "callback"}, sigtim' = "out" => sigtim = "out"
  PROVE  TimeInv'
  BY DEF TimeInv, clock

(* An event that is registered (again) has the exact time asked for,       *)
(* rounded up, and is after the present tick.                              *)
LEMMA RestartStep ==
  ASSUME TimeInv, NEW e \in Event, NEW k \in RELTIM, NEW started \in BOOLEAN,
         heap.index[e] # 0 <=> started, restart(e, started, k)
  PROVE  /\ HeapOK(heap', min_time) /\ Same(heap, heap', e) /\ heap'.index[e] # 0
         /\ EventsOK(heap', wait', Now(next_time, next_subtime, min_time), min_time)
         /\ TimeOf(heap', e) = (base_time + k) % EVTTIM_MOD
         /\ D(current_time, min_time) < D(TimeOf(heap', e), min_time)
<1>1. PICK c, m, n, s, now :
        /\ c = current_time /\ m = min_time /\ n = next_time /\ s = next_subtime
        /\ now = Now(n, s, m)
  OBVIOUS
<1>2. /\ ClockOK(c, m, n, s) /\ HeapOK(heap, min_time) /\ EventsOK(heap, wait, now, m)
  BY <1>1 DEF TimeInv
<1>3. PICK b : b = (IF s > 0 THEN 1 ELSE 0) OBVIOUS
<1>4. PICK u : u = (n + b + k) % EVTTIM_MOD OBVIOUS
<1>5. base_time = n + b BY <1>1, <1>3 DEF base_time
<1>6. u = (base_time + k) % EVTTIM_MOD BY <1>4, <1>5
<1>7. PICK x : x = k * TIC_DENO + TIC_NUME OBVIOUS
<1>8. u \in EVTTIM /\ D(c, m) < D(u, m) /\ Rounded(u, x, now, m)
  BY <1>1, <1>2, <1>3, <1>4, <1>7, RestartTime
<1>9. min_time \in EVTTIM BY <1>1, <1>2 DEF ClockOK
<1>10. PICK w : w = heap' OBVIOUS
<1>11. w = tmevtb_insert(IF started THEN tmevtb_delete(heap, e) ELSE heap, e, u)
  BY <1>6, <1>10 DEF restart
<1>12. HeapOK(w, min_time) /\ Same(heap, w, e) /\ w.index[e] # 0 /\ TimeOf(w, e) = u
  BY <1>2, <1>8, <1>9, <1>11, Restart
<1>13. wait' = [wait EXCEPT ![e] = x] BY <1>7 DEF restart
<1>14. EventsOK(w, wait', now, m) BY <1>2, <1>8, <1>12, <1>13, EventSet
<1> QED BY <1>1, <1>6, <1>8, <1>10, <1>12, <1>14

(* An event that is taken out leaves the others as they are. *)
LEMMA StopStep ==
  ASSUME TimeInv, NEW e \in Event, heap.index[e] # 0, heap' = tmevtb_delete(heap, e),
         wait' = [wait EXCEPT ![e] = 0]
  PROVE  /\ HeapOK(heap', min_time) /\ Same(heap, heap', e) /\ heap'.index[e] = 0
         /\ EventsOK(heap', wait', Now(next_time, next_subtime, min_time), min_time)
<1>1. PICK m, now : m = min_time /\ now = Now(next_time, next_subtime, min_time) OBVIOUS
<1>2. HeapOK(heap, min_time) /\ EventsOK(heap, wait, now, m) /\ min_time \in EVTTIM
  BY <1>1 DEF TimeInv, ClockOK
<1>3. PICK w : w = heap' OBVIOUS
<1>4. HeapOK(w, min_time) /\ Same(heap, w, e) /\ w.index[e] = 0 BY <1>2, <1>3, Delete
<1>5. EventsOK(w, wait', now, m) BY <1>2, <1>4, EventSet
<1> QED BY <1>1, <1>3, <1>4, <1>5

(* sta_alm preserves the invariant; the alarm is after the present tick. *)
LEMMA StaAlm ==
  ASSUME TimeInv, NEW a \in Alm, NEW t \in RELTIM, sta_alm(a, t)
  PROVE  /\ TimeInv' /\ Same(heap, heap', a) /\ UNCHANGED clock
         /\ D(current_time, min_time) < D(TimeOf(heap', a), min_time)
<1>1. BlocksOK(heap, almsta, cycsta, evttim, noexs) BY DEF TimeInv
<1>2. almsta[a] \in BOOLEAN /\ (heap.index[a] # 0 <=> almsta[a]) BY <1>1 DEF BlocksOK
<1>3. PICK started \in BOOLEAN : started = almsta[a] BY <1>2
<1>4. restart(a, started, t) /\ (heap.index[a] # 0 <=> started) BY <1>2, <1>3 DEF sta_alm
<1>5. a \in Event BY DEF Event
<1>6. /\ HeapOK(heap', min_time) /\ Same(heap, heap', a) /\ heap'.index[a] # 0
      /\ EventsOK(heap', wait', Now(next_time, next_subtime, min_time), min_time)
      /\ D(current_time, min_time) < D(TimeOf(heap', a), min_time)
  BY <1>4, <1>5, RestartStep
<1>7. /\ almsta' = [almsta EXCEPT ![a] = TRUE] /\ cycsta' = cycsta /\ evttim' = evttim
      /\ noexs' = noexs /\ a \notin noexs /\ sigtim' = sigtim /\ UNCHANGED clock
  BY DEF sta_alm
<1>8. noexs \subseteq noexs \cup {a} OBVIOUS
<1>9. heap'.index[a] # 0 <=> TRUE BY <1>6
<1>10. BlocksOK(heap', almsta', cycsta, evttim, noexs)
  BY <1>1, <1>6, <1>7, <1>8, <1>9, BlocksAlarm
<1>11. BlocksOK(heap', almsta', cycsta', evttim', noexs') BY <1>7, <1>10
<1>12. sigtim' \in {"out", "loop", "callback"} /\ (sigtim' = "out" => sigtim = "out")
  BY <1>7 DEF TimeInv
<1> QED BY <1>6, <1>7, <1>11, <1>12, HandlerStep

(* stp_alm preserves the invariant. *)
LEMMA StpAlm ==
  ASSUME TimeInv, NEW a \in Alm, stp_alm(a)
  PROVE  TimeInv' /\ Same(heap, heap', a) /\ heap'.index[a] = 0 /\ UNCHANGED clock
<1>1. BlocksOK(heap, almsta, cycsta, evttim, noexs) BY DEF TimeInv
<1>2. /\ almsta[a] /\ heap' = tmevtb_delete(heap, a) /\ wait' = [wait EXCEPT ![a] = 0]
      /\ almsta' = [almsta EXCEPT ![a] = FALSE] /\ cycsta' = cycsta /\ evttim' = evttim
      /\ noexs' = noexs /\ sigtim' = sigtim /\ UNCHANGED clock
  BY DEF stp_alm
<1>3. heap.index[a] # 0 BY <1>1, <1>2 DEF BlocksOK
<1>4. a \in Event BY DEF Event
<1>5. /\ HeapOK(heap', min_time) /\ Same(heap, heap', a) /\ heap'.index[a] = 0
      /\ EventsOK(heap', wait', Now(next_time, next_subtime, min_time), min_time)
  BY <1>2, <1>3, <1>4, StopStep
<1>6. heap'.index[a] # 0 <=> FALSE BY <1>5
<1>7. noexs \subseteq noexs \cup {a} OBVIOUS
<1>8. BlocksOK(heap', almsta', cycsta, evttim, noexs)
  BY <1>1, <1>2, <1>5, <1>6, <1>7, BlocksAlarm
<1>9. BlocksOK(heap', almsta', cycsta', evttim', noexs') BY <1>2, <1>8
<1>10. sigtim' \in {"out", "loop", "callback"} /\ (sigtim' = "out" => sigtim = "out")
  BY <1>2 DEF TimeInv
<1> QED BY <1>2, <1>5, <1>9, <1>10, HandlerStep

(* acre_alm preserves the invariant. *)
LEMMA AcreAlm ==
  ASSUME TimeInv, NEW a \in Alm, acre_alm(a)
  PROVE  TimeInv' /\ Same(heap, heap', a) /\ heap'.index[a] = 0 /\ UNCHANGED clock
<1>1. BlocksOK(heap, almsta, cycsta, evttim, noexs) /\ HeapOK(heap, min_time)
      /\ EventsOK(heap, wait, Now(next_time, next_subtime, min_time), min_time)
  BY DEF TimeInv
<1>2. /\ a \in noexs /\ noexs' = noexs \ {a} /\ almsta' = [almsta EXCEPT ![a] = FALSE]
      /\ heap' = heap /\ wait' = wait /\ cycsta' = cycsta /\ evttim' = evttim
      /\ sigtim' = sigtim /\ UNCHANGED clock
  BY DEF acre_alm
<1>3. heap.index[a] = 0 BY <1>1, <1>2 DEF BlocksOK
<1>4. Same(heap, heap, a) BY DEF Same
<1>5. heap.index[a] # 0 <=> FALSE BY <1>3
<1>6. noexs' \subseteq noexs \cup {a} BY <1>2
<1>7. BlocksOK(heap, almsta', cycsta, evttim, noexs')
  BY <1>1, <1>2, <1>4, <1>5, <1>6, BlocksAlarm
<1>8. sigtim' \in {"out", "loop", "callback"} /\ (sigtim' = "out" => sigtim = "out")
  BY <1>2 DEF TimeInv
<1>9. /\ HeapOK(heap', min_time) /\ BlocksOK(heap', almsta', cycsta', evttim', noexs')
      /\ EventsOK(heap', wait', Now(next_time, next_subtime, min_time), min_time)
  BY <1>1, <1>2, <1>7
<1> QED BY <1>2, <1>3, <1>4, <1>8, <1>9, HandlerStep

(* del_alm takes a started alarm out of the heap and preserves the         *)
(* invariant.                                                              *)
LEMMA DelAlm ==
  ASSUME TimeInv, NEW a \in Alm, del_alm(a)
  PROVE  TimeInv' /\ Same(heap, heap', a) /\ heap'.index[a] = 0 /\ UNCHANGED clock
<1>1. BlocksOK(heap, almsta, cycsta, evttim, noexs) /\ HeapOK(heap, min_time)
      /\ EventsOK(heap, wait, Now(next_time, next_subtime, min_time), min_time)
  BY DEF TimeInv
<1>2. /\ heap' = (IF almsta[a] THEN tmevtb_delete(heap, a) ELSE heap)
      /\ wait' = [wait EXCEPT ![a] = 0] /\ noexs' = noexs \cup {a}
      /\ almsta' = [almsta EXCEPT ![a] = FALSE] /\ cycsta' = cycsta /\ evttim' = evttim
      /\ sigtim' = sigtim /\ UNCHANGED clock
  BY DEF del_alm
<1>3. almsta[a] \in BOOLEAN /\ (heap.index[a] # 0 <=> almsta[a]) BY <1>1 DEF BlocksOK
<1>4. a \in Event BY DEF Event
<1>5. /\ HeapOK(heap', min_time) /\ Same(heap, heap', a) /\ heap'.index[a] = 0
      /\ EventsOK(heap', wait', Now(next_time, next_subtime, min_time), min_time)
  <2>1. CASE almsta[a]
    <3>1. heap' = tmevtb_delete(heap, a) /\ heap.index[a] # 0 BY <1>2, <1>3, <2>1
    <3> QED BY <1>2, <1>4, <3>1, StopStep
  <2>2. CASE ~almsta[a]
    <3>1. heap' = heap /\ heap.index[a] = 0 BY <1>2, <1>3, <2>2
    <3>2. Same(heap, heap, a) BY DEF Same
    <3>3. PICK m, now : m = min_time /\ now = Now(next_time, next_subtime, min_time) OBVIOUS
    <3>4. EventsOK(heap, wait', now, m) BY <1>1, <1>2, <1>4, <3>1, <3>2, <3>3, EventSet
    <3> QED BY <1>1, <3>1, <3>2, <3>3, <3>4
  <2> QED BY <2>1, <2>2
<1>6. heap'.index[a] # 0 <=> FALSE BY <1>5
<1>7. noexs' \subseteq noexs \cup {a} BY <1>2
<1>8. BlocksOK(heap', almsta', cycsta, evttim, noexs')
  BY <1>1, <1>2, <1>5, <1>6, <1>7, BlocksAlarm
<1>9. BlocksOK(heap', almsta', cycsta', evttim', noexs') BY <1>2, <1>8
<1>10. sigtim' \in {"out", "loop", "callback"} /\ (sigtim' = "out" => sigtim = "out")
  BY <1>2 DEF TimeInv
<1> QED BY <1>2, <1>5, <1>9, <1>10, HandlerStep

(* Phases and cycles are relative times. *)
LEMMA Phase ==
  \A c \in Cyc : c \in Event /\ cycphs[c] \in RELTIM /\ cyctim[c] \in RELTIM
  BY TimeAssumption DEF Event

(* sta_cyc preserves the invariant; the handler is after the present tick. *)
LEMMA StaCyc ==
  ASSUME TimeInv, NEW c \in Cyc, sta_cyc(c)
  PROVE  /\ TimeInv' /\ Same(heap, heap', c) /\ UNCHANGED clock
         /\ D(current_time, min_time) < D(TimeOf(heap', c), min_time)
<1>1. BlocksOK(heap, almsta, cycsta, evttim, noexs) BY DEF TimeInv
<1>2. cycsta[c] \in BOOLEAN /\ (heap.index[c] # 0 <=> cycsta[c]) /\ DOMAIN evttim = Cyc
  BY <1>1 DEF BlocksOK
<1>3. PICK started \in BOOLEAN, t \in RELTIM : started = cycsta[c] /\ t = cycphs[c]
  BY <1>2, Phase
<1>4. restart(c, started, t) /\ (heap.index[c] # 0 <=> started) BY <1>2, <1>3 DEF sta_cyc
<1>5. c \in Event BY DEF Event
<1>6. /\ HeapOK(heap', min_time) /\ Same(heap, heap', c) /\ heap'.index[c] # 0
      /\ EventsOK(heap', wait', Now(next_time, next_subtime, min_time), min_time)
      /\ TimeOf(heap', c) = (base_time + t) % EVTTIM_MOD
      /\ D(current_time, min_time) < D(TimeOf(heap', c), min_time)
  BY <1>4, <1>5, RestartStep
<1>7. /\ cycsta' = [cycsta EXCEPT ![c] = TRUE] /\ almsta' = almsta
      /\ evttim' = [evttim EXCEPT ![c] = (base_time + t) % EVTTIM_MOD]
      /\ noexs' = noexs /\ c \notin noexs /\ sigtim' = sigtim /\ UNCHANGED clock
  BY <1>3 DEF sta_cyc
<1>8. noexs \subseteq noexs \cup {c} OBVIOUS
<1>9. heap'.index[c] # 0 <=> TRUE BY <1>6
<1>10. But(evttim, evttim', c) /\ evttim'[c] = TimeOf(heap', c) BY <1>2, <1>6, <1>7 DEF But
<1>11. BlocksOK(heap', almsta, cycsta', evttim', noexs)
  <2>1. cycsta' = [cycsta EXCEPT ![c] = TRUE] /\ c \notin noexs BY <1>7
  <2> QED BY <1>1, <1>6, <1>8, <1>9, <1>10, <2>1, BlocksCyclic
<1>12. BlocksOK(heap', almsta', cycsta', evttim', noexs') BY <1>7, <1>11
<1>13. sigtim' \in {"out", "loop", "callback"} /\ (sigtim' = "out" => sigtim = "out")
  BY <1>7 DEF TimeInv
<1> QED BY <1>6, <1>7, <1>12, <1>13, HandlerStep

(* stp_cyc preserves the invariant. *)
LEMMA StpCyc ==
  ASSUME TimeInv, NEW c \in Cyc, stp_cyc(c)
  PROVE  TimeInv' /\ Same(heap, heap', c) /\ heap'.index[c] = 0 /\ UNCHANGED clock
<1>1. BlocksOK(heap, almsta, cycsta, evttim, noexs) BY DEF TimeInv
<1>2. /\ cycsta[c] /\ heap' = tmevtb_delete(heap, c) /\ wait' = [wait EXCEPT ![c] = 0]
      /\ cycsta' = [cycsta EXCEPT ![c] = FALSE] /\ almsta' = almsta /\ evttim' = evttim
      /\ noexs' = noexs /\ sigtim' = sigtim /\ UNCHANGED clock
  BY DEF stp_cyc
<1>3. heap.index[c] # 0 BY <1>1, <1>2 DEF BlocksOK
<1>4. c \in Event BY DEF Event
<1>5. /\ HeapOK(heap', min_time) /\ Same(heap, heap', c) /\ heap'.index[c] = 0
      /\ EventsOK(heap', wait', Now(next_time, next_subtime, min_time), min_time)
  BY <1>2, <1>3, <1>4, StopStep
<1>6. heap'.index[c] # 0 <=> FALSE BY <1>5
<1>7. noexs \subseteq noexs \cup {c} OBVIOUS
<1>8. But(evttim, evttim, c) BY DEF But
<1>9. BlocksOK(heap', almsta, cycsta', evttim, noexs)
  BY <1>1, <1>2, <1>5, <1>6, <1>7, <1>8, BlocksCyclic
<1>10. BlocksOK(heap', almsta', cycsta', evttim', noexs') BY <1>2, <1>9
<1>11. sigtim' \in {"out", "loop", "callback"} /\ (sigtim' = "out" => sigtim = "out")
  BY <1>2 DEF TimeInv
<1> QED BY <1>2, <1>5, <1>10, <1>11, HandlerStep

(* acre_cyc preserves the invariant, with TA_STA and without. *)
LEMMA AcreCyc ==
  ASSUME TimeInv, NEW c \in Cyc, NEW sta \in BOOLEAN, acre_cyc(c, sta)
  PROVE  /\ TimeInv' /\ Same(heap, heap', c) /\ UNCHANGED clock
         /\ heap'.index[c] # 0 => D(current_time, min_time) < D(TimeOf(heap', c), min_time)
<1>1. BlocksOK(heap, almsta, cycsta, evttim, noexs) /\ HeapOK(heap, min_time)
      /\ EventsOK(heap, wait, Now(next_time, next_subtime, min_time), min_time)
  BY DEF TimeInv
<1>2. /\ c \in noexs /\ noexs' = noexs \ {c} /\ cycsta' = [cycsta EXCEPT ![c] = sta]
      /\ almsta' = almsta /\ sigtim' = sigtim /\ UNCHANGED clock
  BY DEF acre_cyc
<1>3. heap.index[c] = 0 /\ DOMAIN evttim = Cyc BY <1>1, <1>2 DEF BlocksOK
<1>4. noexs' \subseteq noexs \cup {c} /\ c \notin noexs' BY <1>2
<1>5. sigtim' \in {"out", "loop", "callback"} /\ (sigtim' = "out" => sigtim = "out")
  BY <1>2 DEF TimeInv
<1>6. c \in Event BY DEF Event
<1>7. CASE sta
  <2>1. PICK t \in RELTIM : t = cycphs[c] BY Phase
  <2>2. /\ restart(c, FALSE, t) /\ (heap.index[c] # 0 <=> FALSE)
        /\ evttim' = [evttim EXCEPT ![c] = (base_time + t) % EVTTIM_MOD]
    BY <1>3, <1>7, <2>1 DEF acre_cyc
  <2>3. /\ HeapOK(heap', min_time) /\ Same(heap, heap', c) /\ heap'.index[c] # 0
        /\ EventsOK(heap', wait', Now(next_time, next_subtime, min_time), min_time)
        /\ TimeOf(heap', c) = (base_time + t) % EVTTIM_MOD
        /\ D(current_time, min_time) < D(TimeOf(heap', c), min_time)
    <3>1. PICK started \in BOOLEAN : started = FALSE OBVIOUS
    <3>2. restart(c, started, t) /\ (heap.index[c] # 0 <=> started) BY <2>2, <3>1
    <3> QED BY <1>6, <3>2, RestartStep
  <2>4. But(evttim, evttim', c) /\ evttim'[c] = TimeOf(heap', c) BY <1>3, <2>2, <2>3 DEF But
  <2>5. heap'.index[c] # 0 <=> sta BY <1>7, <2>3
  <2>6. BlocksOK(heap', almsta, cycsta', evttim', noexs')
    BY <1>1, <1>2, <1>4, <2>3, <2>4, <2>5, BlocksCyclic, ZenonT(60)
  <2>7. BlocksOK(heap', almsta', cycsta', evttim', noexs') BY <1>2, <2>6
  <2> QED BY <1>2, <1>5, <2>3, <2>7, HandlerStep
<1>8. CASE ~sta
  <2>1. heap' = heap /\ evttim' = evttim /\ wait' = wait BY <1>8 DEF acre_cyc
  <2>2. Same(heap, heap, c) BY DEF Same
  <2>3. But(evttim, evttim, c) BY DEF But
  <2>4. heap.index[c] # 0 <=> sta BY <1>3, <1>8
  <2>5. BlocksOK(heap, almsta, cycsta', evttim, noexs')
    BY <1>1, <1>2, <1>4, <1>8, <2>2, <2>3, <2>4, BlocksCyclic
  <2>6. /\ HeapOK(heap', min_time) /\ BlocksOK(heap', almsta', cycsta', evttim', noexs')
        /\ EventsOK(heap', wait', Now(next_time, next_subtime, min_time), min_time)
    BY <1>1, <1>2, <2>1, <2>5
  <2> QED BY <1>2, <1>3, <1>5, <2>1, <2>2, <2>6, HandlerStep
<1> QED BY <1>7, <1>8

(* del_cyc takes a started handler out of the heap and preserves the       *)
(* invariant.                                                              *)
LEMMA DelCyc ==
  ASSUME TimeInv, NEW c \in Cyc, del_cyc(c)
  PROVE  TimeInv' /\ Same(heap, heap', c) /\ heap'.index[c] = 0 /\ UNCHANGED clock
<1>1. BlocksOK(heap, almsta, cycsta, evttim, noexs) /\ HeapOK(heap, min_time)
      /\ EventsOK(heap, wait, Now(next_time, next_subtime, min_time), min_time)
  BY DEF TimeInv
<1>2. /\ heap' = (IF cycsta[c] THEN tmevtb_delete(heap, c) ELSE heap)
      /\ wait' = [wait EXCEPT ![c] = 0] /\ noexs' = noexs \cup {c}
      /\ cycsta' = [cycsta EXCEPT ![c] = FALSE] /\ almsta' = almsta
      /\ evttim' = [evttim EXCEPT ![c] = 0] /\ sigtim' = sigtim /\ UNCHANGED clock
  BY DEF del_cyc
<1>3. cycsta[c] \in BOOLEAN /\ (heap.index[c] # 0 <=> cycsta[c]) /\ DOMAIN evttim = Cyc
  BY <1>1 DEF BlocksOK
<1>4. c \in Event BY DEF Event
<1>5. /\ HeapOK(heap', min_time) /\ Same(heap, heap', c) /\ heap'.index[c] = 0
      /\ EventsOK(heap', wait', Now(next_time, next_subtime, min_time), min_time)
  <2>1. CASE cycsta[c]
    <3>1. heap' = tmevtb_delete(heap, c) /\ heap.index[c] # 0 BY <1>2, <1>3, <2>1
    <3> QED BY <1>2, <1>4, <3>1, StopStep
  <2>2. CASE ~cycsta[c]
    <3>1. heap' = heap /\ heap.index[c] = 0 BY <1>2, <1>3, <2>2
    <3>2. Same(heap, heap, c) BY DEF Same
    <3>3. PICK m, now : m = min_time /\ now = Now(next_time, next_subtime, min_time) OBVIOUS
    <3>4. EventsOK(heap, wait', now, m) BY <1>1, <1>2, <1>4, <3>1, <3>2, <3>3, EventSet
    <3> QED BY <1>1, <3>1, <3>2, <3>3, <3>4
  <2> QED BY <2>1, <2>2
<1>6. heap'.index[c] # 0 <=> FALSE BY <1>5
<1>7. noexs' \subseteq noexs \cup {c} BY <1>2
<1>8. But(evttim, evttim', c) BY <1>2, <1>3 DEF But
<1>9. BlocksOK(heap', almsta, cycsta', evttim', noexs')
  <2>1. cycsta' = [cycsta EXCEPT ![c] = FALSE] BY <1>2
  <2> QED BY <1>1, <1>5, <1>6, <1>7, <1>8, <2>1, BlocksCyclic
<1>10. BlocksOK(heap', almsta', cycsta', evttim', noexs') BY <1>2, <1>9
<1>11. sigtim' \in {"out", "loop", "callback"} /\ (sigtim' = "out" => sigtim = "out")
  BY <1>2 DEF TimeInv
<1> QED BY <1>2, <1>5, <1>10, <1>11, HandlerStep

(* The event at the root, when the loop takes it as due. *)
LEMMA DueEvent ==
  ASSUME TimeInv, due, NEW e, e = Head(heap.node).p_tmevtb
  PROVE  /\ e \in Event /\ heap.node # <<>> /\ heap.index[e] = 1
         /\ Head(heap.node).time = TimeOf(heap, e) /\ TimeOf(heap, e) \in EVTTIM
         /\ D(TimeOf(heap, e), min_time) <= D(current_time, min_time)
         /\ Rounded(TimeOf(heap, e), wait[e], Now(next_time, next_subtime, min_time), min_time)
<1>1. PICK m : m = min_time OBVIOUS
<1>2. heap.node # <<>> BY DEF due
<1>3. m \in EVTTIM /\ HeapOK(heap, m) BY <1>1 DEF TimeInv, ClockOK
<1>4. /\ Len(heap.node) >= 1 /\ Head(heap.node) = heap.node[1] /\ e \in Event
      /\ heap.index[e] = 1 /\ Head(heap.node).time = TimeOf(heap, e)
  BY <1>2, <1>3, Root
<1>5. D(TimeOf(heap, e), m) <= D(current_time, m) BY <1>1, <1>4 DEF due, EVTTIM_LE, D
<1>6. heap.index[e] # 0 BY <1>4
<1>7. Rounded(TimeOf(heap, e), wait[e], Now(next_time, next_subtime, min_time), min_time)
  BY <1>4, <1>6 DEF TimeInv, EventsOK
<1>8. heap.node[1] \in Node BY <1>3, <1>4 DEF HeapOK, HeapType
<1>9. TimeOf(heap, e) \in EVTTIM BY <1>4, <1>8 DEF Node
<1> QED BY <1>1, <1>2, <1>4, <1>5, <1>7, <1>9

(* The loop of signal_time takes a due alarm from the heap and preserves   *)
(* the invariant.                                                          *)
LEMMA CallAlmhdr ==
  ASSUME TimeInv, NEW a \in Alm, call_almhdr(a)
  PROVE  TimeInv' /\ sigtim' = "callback"
<1>1. BlocksOK(heap, almsta, cycsta, evttim, noexs) BY DEF TimeInv
<1>2. /\ due /\ a = Head(heap.node).p_tmevtb /\ heap' = tmevtb_delete_top(heap)
      /\ wait' = [wait EXCEPT ![a] = 0] /\ almsta' = [almsta EXCEPT ![a] = FALSE]
      /\ cycsta' = cycsta /\ evttim' = evttim /\ noexs' = noexs /\ sigtim' = "callback"
      /\ UNCHANGED clock
  BY DEF call_almhdr
<1>3. PICK m, now : m = min_time /\ now = Now(next_time, next_subtime, min_time) OBVIOUS
<1>4. HeapOK(heap, min_time) /\ EventsOK(heap, wait, now, m) /\ min_time \in EVTTIM
  BY <1>3 DEF TimeInv, ClockOK
<1>5. a \in Event /\ heap.node # <<>> BY <1>2, DueEvent
<1>6. PICK w : w = heap' OBVIOUS
<1>7. HeapOK(w, min_time) /\ Same(heap, w, a) /\ w.index[a] = 0
  BY <1>2, <1>4, <1>5, <1>6, DeleteTop
<1>8. EventsOK(w, wait', now, m) BY <1>2, <1>4, <1>5, <1>7, EventSet
<1>9. w.index[a] # 0 <=> FALSE BY <1>7
<1>10. noexs \subseteq noexs \cup {a} OBVIOUS
<1>11. BlocksOK(w, almsta', cycsta, evttim, noexs)
  BY <1>1, <1>2, <1>7, <1>9, <1>10, BlocksAlarm
<1>12. /\ HeapOK(heap', min_time) /\ BlocksOK(heap', almsta', cycsta', evttim', noexs')
       /\ EventsOK(heap', wait', Now(next_time, next_subtime, min_time), min_time)
  BY <1>2, <1>3, <1>6, <1>7, <1>8, <1>11
<1> QED BY <1>2, <1>12, HandlerStep

(* A due cyclic handler is registered again one cycle after its planned    *)
(* time; this preserves the invariant.                                     *)
LEMMA CallCychdr ==
  ASSUME TimeInv, NEW c \in Cyc, call_cychdr(c)
  PROVE  TimeInv' /\ sigtim' = "callback"
<1>1. BlocksOK(heap, almsta, cycsta, evttim, noexs) BY DEF TimeInv
<1>2. PICK u : u = (evttim[c] + cyctim[c]) % EVTTIM_MOD OBVIOUS
<1>3. /\ due /\ c = Head(heap.node).p_tmevtb
      /\ heap' = tmevtb_insert(tmevtb_delete_top(heap), c, u)
      /\ evttim' = [evttim EXCEPT ![c] = u]
      /\ wait' = [wait EXCEPT ![c] = @ + cyctim[c] * TIC_DENO]
      /\ sigtim' = "callback" /\ UNCHANGED <<noexs, clock, almsta, cycsta>>
  BY <1>2 DEF call_cychdr
<1>4. PICK ct, m, n, s, now :
        /\ ct = current_time /\ m = min_time /\ n = next_time /\ s = next_subtime
        /\ now = Now(n, s, m)
  OBVIOUS
<1>5. /\ ClockOK(ct, m, n, s) /\ HeapOK(heap, min_time) /\ EventsOK(heap, wait, now, m)
      /\ min_time \in EVTTIM
  BY <1>4 DEF TimeInv, ClockOK
<1>6. PICK t : t = TimeOf(heap, c) OBVIOUS
<1>7. /\ c \in Event /\ heap.node # <<>> /\ heap.index[c] = 1 /\ t \in EVTTIM
      /\ D(t, m) <= D(ct, m) /\ Rounded(t, wait[c], now, m)
  BY <1>3, <1>4, <1>6, DueEvent
<1>8. evttim[c] = t BY <1>1, <1>6, <1>7 DEF BlocksOK
<1>9. PICK k \in RELTIM : k = cyctim[c] BY Phase
<1>10. PICK w0, w1 : w0 = wait[c] /\ w1 = w0 + k * TIC_DENO OBVIOUS
<1>11. u = (t + k) % EVTTIM_MOD BY <1>2, <1>8, <1>9
<1>12. u \in EVTTIM /\ Rounded(u, w1, now, m)
  BY <1>4, <1>5, <1>7, <1>10, <1>11, PeriodTime
<1>13. PICK d : d = tmevtb_delete_top(heap) OBVIOUS
<1>14. HeapOK(d, min_time) /\ Same(heap, d, c) /\ d.index[c] = 0
  BY <1>3, <1>5, <1>7, <1>13, DeleteTop
<1>15. PICK w : w = heap' OBVIOUS
<1>16. w = tmevtb_insert(d, c, u) BY <1>3, <1>13, <1>15
<1>17. HeapOK(w, min_time) /\ Same(d, w, c) /\ w.index[c] # 0 /\ TimeOf(w, c) = u
  BY ONLY <1>5, <1>7, <1>12, <1>14, <1>16, Insert
<1>18. Same(heap, w, c) BY <1>14, <1>17, SameTrans
<1>19. EventsOK(w, wait', now, m)
  <2>1. wait' = [wait EXCEPT ![c] = w1] BY <1>3, <1>5, <1>7, <1>9, <1>10 DEF EventsOK
  <2>2. Rounded(TimeOf(w, c), w1, now, m) BY <1>12, <1>17
  <2> QED BY <1>5, <1>7, <1>18, <2>1, <2>2, EventSet
<1>20. BlocksOK(w, almsta, cycsta, evttim', noexs)
  <2>1. But(evttim, evttim', c) /\ evttim'[c] = TimeOf(w, c) BY <1>1, <1>3, <1>17 DEF But, BlocksOK
  <2>2. cycsta[c] \in BOOLEAN /\ (heap.index[c] # 0 <=> cycsta[c])
        /\ cycsta \in [Cyc -> BOOLEAN]
    BY <1>1 DEF BlocksOK
  <2>3. PICK b \in BOOLEAN : b = cycsta[c] BY <2>2
  <2>4. b = TRUE BY <1>7, <2>2, <2>3
  <2>5. PICK cs2 : cs2 = [cycsta EXCEPT ![c] = b] OBVIOUS
  <2>6. cs2 = cycsta BY <2>2, <2>3, <2>5
  <2>7. c \notin noexs BY <1>1, <1>7 DEF BlocksOK
  <2>8. w.index[c] # 0 <=> b BY <1>17, <2>4
  <2>9. noexs \subseteq noexs \cup {c} OBVIOUS
  <2>10. BlocksOK(w, almsta, cs2, evttim', noexs)
    BY <1>1, <1>18, <2>1, <2>5, <2>7, <2>8, <2>9, BlocksCyclic
  <2> QED BY <2>6, <2>10
<1>21. /\ HeapOK(heap', min_time) /\ BlocksOK(heap', almsta', cycsta', evttim', noexs')
       /\ EventsOK(heap', wait', Now(next_time, next_subtime, min_time), min_time)
       /\ UNCHANGED clock
  BY <1>3, <1>4, <1>15, <1>17, <1>19, <1>20
<1> QED BY <1>3, <1>21, HandlerStep

(* The advance of the clock by a fractional tick preserves the invariant. *)
LEMMA Tick ==
  ASSUME TimeInv, tick
  PROVE  TimeInv' /\ sigtim' = "loop"
<1>1. PICK v : v = next_subtime + (TIC_NUME % TIC_DENO) OBVIOUS
<1>2. /\ sigtim = "out" /\ sigtim' = "loop" /\ current_time' = next_time
      /\ next_time' = (next_time + (TIC_NUME \div TIC_DENO) + (v \div TIC_DENO)) % EVTTIM_MOD
      /\ next_subtime' = v % TIC_DENO
      /\ wait' = [e \in Event |-> IF Enqueued(e) THEN wait[e] - TIC_NUME ELSE 0]
      /\ noexs' = noexs /\ heap' = heap /\ min_time' = min_time /\ almsta' = almsta
      /\ cycsta' = cycsta /\ evttim' = evttim
  BY <1>1 DEF tick
<1>3. PICK m, n, s, now, n2, s2 :
        /\ m = min_time /\ n = next_time /\ s = next_subtime /\ now = Now(n, s, m)
        /\ n2 = next_time' /\ s2 = next_subtime'
  OBVIOUS
<1>4. ClockOK(m, m, n, s) BY <1>2, <1>3 DEF TimeInv
<1>5. ClockOK(n, m, n2, s2) /\ Now(n2, s2, m) = now + TIC_NUME
  <2>1. /\ v = s + (TIC_NUME % TIC_DENO) /\ s2 = v % TIC_DENO
        /\ n2 = (n + (TIC_NUME \div TIC_DENO) + (v \div TIC_DENO)) % EVTTIM_MOD
    BY <1>1, <1>2, <1>3
  <2> QED BY <1>3, <1>4, <2>1, TickTime
<1>6. HeapOK(heap, m) /\ EventsOK(heap, wait, now, m) BY <1>3 DEF TimeInv
<1>7. m \in EVTTIM /\ now \in Int BY <1>3, <1>4, ClockFacts
<1>8. EventsOK(heap, wait', now + TIC_NUME, m)
  <2>1. ASSUME NEW e \in Event, heap.index[e] # 0
        PROVE  Rounded(TimeOf(heap, e), wait'[e], now + TIC_NUME, m)
    <3>1. wait'[e] = wait[e] - TIC_NUME BY <1>2, <2>1 DEF Enqueued
    <3>2. Rounded(TimeOf(heap, e), wait[e], now, m) BY <1>6, <2>1 DEF EventsOK
    <3>3. TimeOf(heap, e) \in EVTTIM
      <4>1. heap.index[e] \in 1 .. Len(heap.node) BY <1>6, <2>1 DEF HeapOK, HeapLinks
      <4>2. heap.node[heap.index[e]] \in Node BY <1>6, <4>1 DEF HeapOK, HeapType
      <4> QED BY <4>2 DEF Node, TimeOf
    <3>4. PICK x : x = wait[e] OBVIOUS
    <3>5. Rounded(TimeOf(heap, e), x - TIC_NUME, now + TIC_NUME, m)
      BY <1>7, <3>2, <3>3, <3>4, TickRounded
    <3> QED BY <3>1, <3>4, <3>5
  <2>2. DOMAIN wait' = Event BY <1>2
  <2> QED BY <2>1, <2>2 DEF EventsOK
<1>9. BlocksOK(heap, almsta, cycsta, evttim, noexs) BY DEF TimeInv
<1>10. ClockOK(current_time', min_time', next_time', next_subtime') BY <1>2, <1>3, <1>5
<1>11. EventsOK(heap', wait', Now(next_time', next_subtime', min_time'), min_time')
  BY <1>2, <1>3, <1>5, <1>8
<1>12. HeapOK(heap', min_time') BY <1>2, <1>3, <1>6
<1>13. BlocksOK(heap', almsta', cycsta', evttim', noexs') BY <1>2, <1>9
<1> QED BY <1>2, <1>10, <1>11, <1>12, <1>13 DEF TimeInv

(* When the loop ends, every registered event is after current_time. *)
LEMMA NotDue ==
  ASSUME TimeInv, ~due
  PROVE  \A e \in Event : heap.index[e] # 0 =>
           TimeOf(heap, e) \in EVTTIM /\ D(current_time, min_time) < D(TimeOf(heap, e), min_time)
<1> SUFFICES ASSUME NEW e \in Event, heap.index[e] # 0
             PROVE  /\ TimeOf(heap, e) \in EVTTIM
                    /\ D(current_time, min_time) < D(TimeOf(heap, e), min_time)
  OBVIOUS
<1>1. PICK m \in EVTTIM : m = min_time BY DEF TimeInv, ClockOK
<1>2. HeapOK(heap, m) BY <1>1 DEF TimeInv
<1>3. PICK j \in 1 .. Len(heap.node) : j = heap.index[e] BY <1>2 DEF HeapOK, HeapLinks
<1>4. heap.node[j] \in Node BY <1>2 DEF HeapOK, HeapType
<1>5. TimeOf(heap, e) = heap.node[j].time /\ TimeOf(heap, e) \in EVTTIM
  BY <1>3, <1>4 DEF TimeOf, Node
<1>6. heap.node # <<>> BY <1>2, <1>3 DEF HeapOK, HeapType
<1>7. Head(heap.node) = heap.node[1] /\ Len(heap.node) >= 1 BY <1>2, <1>6, Root
<1>8. ~(D(heap.node[1].time, m) <= D(current_time, m)) BY <1>1, <1>6, <1>7 DEF due, EVTTIM_LE, D
<1>9. D(heap.node[1].time, m) <= D(heap.node[j].time, m) BY <1>2, RootFirst
<1>10. heap.node[1] \in Node
  <2>1. 1 \in 1 .. Len(heap.node) BY <1>3
  <2> QED BY <1>2, <2>1 DEF HeapOK, HeapType
<1>11. heap.node[1].time \in EVTTIM BY <1>10 DEF Node
<1>12. \A t \in EVTTIM : D(t, m) \in Int BY Distances, Constants DEF EVTTIM
<1>13. current_time \in EVTTIM BY DEF TimeInv, ClockOK
<1>14. PICK a \in Int, b \in Int, d \in Int :
         a = D(current_time, m) /\ b = D(heap.node[1].time, m) /\ d = D(heap.node[j].time, m)
  BY <1>5, <1>11, <1>12, <1>13
<1>15. ~(b <= a) /\ b <= d BY <1>8, <1>9, <1>14
<1>16. a < d BY <1>15
<1> QED BY <1>1, <1>5, <1>14, <1>16

(* When the loop of signal_time ends every event is after the present, and *)
(* min_time may follow current_time.                                       *)
LEMMA LoopEnd ==
  ASSUME TimeInv, loop_end
  PROVE  /\ TimeInv' /\ heap' = heap /\ min_time' = current_time
         /\ \A e \in Event : heap.index[e] # 0 => 0 < D(TimeOf(heap, e), current_time)
<1>1. /\ ~due /\ min_time' = current_time /\ sigtim' = "out"
      /\ UNCHANGED <<noexs, heap, current_time, next_time, next_subtime, almsta, cycsta, evttim, wait>>
  BY DEF loop_end
<1>2. PICK c, m, n, s :
        c = current_time /\ m = min_time /\ n = next_time /\ s = next_subtime
  OBVIOUS
<1>3. /\ ClockOK(c, m, n, s) /\ HeapOK(heap, m) /\ EventsOK(heap, wait, Now(n, s, m), m)
      /\ c \in EVTTIM /\ m \in EVTTIM
  BY <1>2 DEF TimeInv, ClockOK
<1>4. \A e \in Event : heap.index[e] # 0 =>
        TimeOf(heap, e) \in EVTTIM /\ D(c, m) < D(TimeOf(heap, e), m)
  BY <1>1, <1>2, NotDue
<1>5. ClockOK(c, c, n, s) BY <1>3, EndTime
<1>6. ASSUME NEW e \in Event, heap.index[e] # 0
      PROVE  0 < D(TimeOf(heap, e), c) /\ Rounded(TimeOf(heap, e), wait[e], Now(n, s, c), c)
  <2>1. PICK t, w : t = TimeOf(heap, e) /\ w = wait[e] OBVIOUS
  <2>2. t \in EVTTIM /\ D(c, m) < D(t, m) BY <1>4, <1>6, <2>1
  <2>3. Rounded(t, w, Now(n, s, m), m) BY <1>3, <1>6, <2>1 DEF EventsOK
  <2>4. 0 < D(t, c) /\ Rounded(t, w, Now(n, s, c), c) BY <1>3, <2>2, <2>3, EndTime
  <2> QED BY <2>1, <2>4
<1>7. EventsOK(heap, wait, Now(n, s, c), c) BY <1>3, <1>6 DEF EventsOK
<1>8. HeapOK(heap, c)
  <2>1. HeapType(heap) /\ HeapLinks(heap) /\ HeapOrder(heap, m) BY <1>3 DEF HeapOK
  <2>2. ASSUME NEW j \in 1 .. Len(heap.node)
        PROVE  heap.node[j].time \in EVTTIM /\ D(c, m) < D(heap.node[j].time, m)
    <3>1. heap.node[j] \in Node BY <2>1 DEF HeapType
    <3>2. PICK x \in Event : x = heap.node[j].p_tmevtb BY <3>1 DEF Node
    <3>3. heap.index[x] = j BY <2>1, <3>2 DEF HeapLinks
    <3>4. TimeOf(heap, x) = heap.node[j].time /\ heap.index[x] # 0 BY <3>3 DEF TimeOf
    <3> QED BY <1>4, <3>4
  <2>3. \A t \in EVTTIM : D(t, m) \in Int BY <1>3, Distances, Constants DEF EVTTIM
  <2>4. ASSUME NEW j \in 1 .. Len(heap.node)
        PROVE  D(heap.node[j].time, c) = D(heap.node[j].time, m) - D(c, m)
    <3>1. PICK t \in EVTTIM : t = heap.node[j].time BY <2>2
    <3>2. D(c, m) < D(t, m) BY <2>2, <3>1
    <3>3. D(c, m) <= D(t, m) BY <1>3, <2>3, <3>2
    <3> QED BY <1>3, <3>1, <3>3, Moved
  <2>5. ASSUME NEW j \in 2 .. Len(heap.node)
        PROVE  D(heap.node[PARENT(j)].time, c) <= D(heap.node[j].time, c)
    <3>1. PARENT(j) \in 1 .. Len(heap.node) BY <2>1, Parents DEF HeapType
    <3>2. j \in 1 .. Len(heap.node) OBVIOUS
    <3>3. PICK p \in Int, q \in Int, d \in Int :
            p = D(heap.node[PARENT(j)].time, m) /\ q = D(heap.node[j].time, m) /\ d = D(c, m)
      BY <1>3, <2>2, <2>3, <3>1, <3>2
    <3>4. p <= q BY <2>1, <3>3 DEF HeapOrder
    <3>5. D(heap.node[PARENT(j)].time, c) = p - d /\ D(heap.node[j].time, c) = q - d
      BY <2>4, <3>1, <3>2, <3>3
    <3> QED BY <3>4, <3>5
  <2> QED BY <2>1, <2>5 DEF HeapOK, HeapOrder
<1>9. BlocksOK(heap, almsta, cycsta, evttim, noexs) BY DEF TimeInv
<1>10. ClockOK(current_time', min_time', next_time', next_subtime') BY <1>1, <1>2, <1>5
<1>11. EventsOK(heap', wait', Now(next_time', next_subtime', min_time'), min_time')
  BY <1>1, <1>2, <1>7
<1>12. HeapOK(heap', min_time') BY <1>1, <1>2, <1>8
<1>13. BlocksOK(heap', almsta', cycsta', evttim', noexs') BY <1>1, <1>9
<1>14. TimeInv' BY <1>1, <1>10, <1>11, <1>12, <1>13 DEF TimeInv
<1> QED BY <1>1, <1>2, <1>6, <1>14
-----------------------------------------------------------------------------
(***************************************************************************)
(* The theorems.                                                           *)
(***************************************************************************)
LEMMA TimeInit ==
  ASSUME Init
  PROVE  TimeInv
<1>1. PICK Q \in Nat \ {0}, N \in Nat \ {0} : Q = TIC_DENO /\ N = TIC_NUME BY Constants
<1>2. min_time = 0 /\ current_time = 0 /\ 0 \in EVTTIM BY Constants DEF Init, EVTTIM
<1>3. HeapOK(heap, min_time) /\ Registered(heap, Len(TaSta)) BY <1>2, InitHeap DEF Init
<1>4. PICK k \in Nat, j \in Nat : k = N \div Q /\ j = N % Q /\ j < Q /\ N = k * Q + j
  <2>1. N \in Nat OBVIOUS
  <2>2. N \div Q \in Nat /\ N % Q \in 0 .. Q - 1 /\ N = (N \div Q) * Q + (N % Q)
    BY <2>1, Division
  <2> QED BY <2>2
<1>5. next_time = k /\ next_subtime = j BY <1>1, <1>4 DEF Init
<1>6. k < EVTTIM_MOD
  <2>1. k * Q \in Int BY Product
  <2>2. k * Q <= 2 * N + 2 * Q - 2 BY <1>4, <2>1
  <2>3. 0 \in RELTIM BY Phase0
  <2>4. k + 0 < EVTTIM_MOD BY <1>1, <2>2, <2>3, Span
  <2> QED BY <2>4
<1>7. k \in EVTTIM BY <1>6, Constants DEF EVTTIM
<1>8. D(k, 0) = k /\ D(0, 0) = 0 BY <1>2, <1>7, Distances DEF EVTTIM
<1>9. Now(k, j, 0) = 0
  <2>1. PICK A \in Int : A = k * Q BY Product
  <2>2. Now(k, j, 0) = A + j - N BY <1>1, <1>8, <2>1 DEF Now
  <2>3. N = A + j BY <1>4, <2>1
  <2> QED BY <2>2, <2>3
<1>10. ClockOK(current_time, min_time, next_time, next_subtime)
  <2>1. 0 * Q = 0 /\ (0 + 1) * Q = Q OBVIOUS
  <2> QED BY <1>1, <1>2, <1>4, <1>5, <1>7, <1>8, <1>9, <2>1 DEF ClockOK
<1>11. \A x \in Event :
         /\ heap.index[x] # 0 <=> x \in Range(TaSta)
         /\ heap.index[x] # 0 => TimeOf(heap, x) = cycphs[x]
  <2>1. \A x : x \in Range(TaSta) <=> \E i \in 1 .. Len(TaSta) : TaSta[i] = x
    BY StaticCyclic DEF Range
  <2> QED BY <1>3, <2>1 DEF Registered
<1>12. \A x \in Range(TaSta) : x \in Cyc /\ cycphs[x] \in EVTTIM BY StaticCyclic DEF Range
<1>13. EventsOK(heap, wait, Now(next_time, next_subtime, min_time), min_time)
  <2>1. wait = [e \in Event |-> IF e \in Range(TaSta) THEN cycphs[e] * TIC_DENO ELSE 0]
    BY DEF Init
  <2>2. ASSUME NEW e \in Event, heap.index[e] # 0
        PROVE  Rounded(TimeOf(heap, e), wait[e], 0, 0)
    <3>1. PICK t \in EVTTIM : t = cycphs[e] BY <1>11, <1>12, <2>2
    <3>2. wait[e] = t * Q /\ TimeOf(heap, e) = t BY <1>1, <1>11, <2>1, <2>2, <3>1
    <3>3. D(t, 0) = t /\ t \in Int BY <1>2, Distances, Constants DEF EVTTIM
    <3>4. PICK A \in Int : A = t * Q BY <3>3, Product
    <3>5. A - 0 - A \in 0 .. Q - 1 OBVIOUS
    <3> QED BY <1>1, <3>2, <3>3, <3>4, <3>5 DEF Rounded
  <2> QED BY <1>2, <1>5, <1>9, <2>1, <2>2 DEF EventsOK
<1>14. BlocksOK(heap, almsta, cycsta, evttim, noexs)
  <2>1. /\ almsta = [a \in Alm |-> FALSE] /\ cycsta = [c \in Cyc |-> c \in Range(TaSta)]
        /\ evttim = [c \in Cyc |-> IF c \in Range(TaSta) THEN cycphs[c] ELSE 0]
        /\ noexs = Dyn
    BY DEF Init
  <2>2. noexs \subseteq Event /\ \A e \in noexs : e \notin Range(TaSta)
    BY <2>1, TimeAssumption
  <2>3. ASSUME NEW a \in Alm PROVE almsta[a] \in BOOLEAN /\ (heap.index[a] # 0 <=> almsta[a])
    <3>1. a \in Event /\ a \notin Range(TaSta) BY <1>12, Disjoint DEF Event
    <3> QED BY <1>11, <2>1, <3>1
  <2>4. ASSUME NEW c \in Cyc
        PROVE  /\ cycsta[c] \in BOOLEAN /\ (heap.index[c] # 0 <=> cycsta[c])
               /\ heap.index[c] # 0 => evttim[c] = TimeOf(heap, c)
    <3>1. c \in Event BY DEF Event
    <3>2. PICK b \in BOOLEAN : b <=> c \in Range(TaSta) OBVIOUS
    <3>3. cycsta[c] = b BY <2>1, <3>2
    <3>4. heap.index[c] # 0 <=> b BY <1>11, <3>1, <3>2
    <3>5. heap.index[c] # 0 => evttim[c] = TimeOf(heap, c) BY <1>11, <2>1, <3>1
    <3> QED BY <3>3, <3>4, <3>5
  <2>5. DOMAIN almsta = Alm /\ cycsta \in [Cyc -> BOOLEAN] /\ DOMAIN evttim = Cyc BY <2>1
  <2>6. \A e \in noexs : heap.index[e] = 0 BY <1>11, <2>2
  <2> QED BY <2>2, <2>3, <2>4, <2>5, <2>6 DEF BlocksOK
<1> QED BY <1>2, <1>3, <1>10, <1>13, <1>14 DEF TimeInv, Init

(* Every step preserves the invariant. *)
LEMMA TimeNext ==
  ASSUME TimeInv, [Next]_vars
  PROVE  TimeInv'
<1>1. CASE tick BY <1>1, Tick
<1>2. CASE callback_return
  <2>1. /\ UNCHANGED clock /\ heap' = heap /\ almsta' = almsta /\ cycsta' = cycsta
        /\ evttim' = evttim /\ wait' = wait /\ noexs' = noexs /\ sigtim' = "loop"
    BY <1>2 DEF callback_return
  <2> QED BY <2>1 DEF TimeInv, clock
<1>3. CASE loop_end BY <1>3, LoopEnd
<1>4. ASSUME NEW a \in Alm, stp_alm(a) PROVE TimeInv' BY <1>4, StpAlm
<1>5. ASSUME NEW a \in Alm, call_almhdr(a) PROVE TimeInv' BY <1>5, CallAlmhdr
<1>6. ASSUME NEW a \in Alm, acre_alm(a) PROVE TimeInv' BY <1>6, AcreAlm
<1>7. ASSUME NEW a \in Alm, del_alm(a) PROVE TimeInv' BY <1>7, DelAlm
<1>8. ASSUME NEW a \in Alm, NEW t \in RELTIM, sta_alm(a, t) PROVE TimeInv' BY <1>8, StaAlm
<1>9. ASSUME NEW c \in Cyc, sta_cyc(c) PROVE TimeInv' BY <1>9, StaCyc
<1>10. ASSUME NEW c \in Cyc, stp_cyc(c) PROVE TimeInv' BY <1>10, StpCyc
<1>11. ASSUME NEW c \in Cyc, call_cychdr(c) PROVE TimeInv' BY <1>11, CallCychdr
<1>12. ASSUME NEW c \in Cyc, del_cyc(c) PROVE TimeInv' BY <1>12, DelCyc
<1>13. ASSUME NEW c \in Cyc, NEW sta \in BOOLEAN, acre_cyc(c, sta) PROVE TimeInv'
  BY <1>13, AcreCyc
<1>14. CASE UNCHANGED vars BY <1>14 DEF TimeInv, vars, clock
<1> QED
  BY <1>1, <1>2, <1>3, <1>4, <1>5, <1>6, <1>7, <1>8, <1>9, <1>10, <1>11, <1>12, <1>13, <1>14
  DEF Next

(***************************************************************************)
(* The inductive invariant holds in every reachable state.                 *)
(***************************************************************************)
THEOREM TimeInvariant == Spec => []TimeInv
<1>1. Init => TimeInv BY TimeInit
<1>2. TimeInv /\ [Next]_vars => TimeInv' BY TimeNext
<1> QED BY <1>1, <1>2, PTL DEF Spec

(* Every time in the heap and the clock is a word of EVTTIM, however often *)
(* time wraps around.                                                      *)
THEOREM TimeTypeOK == Spec => []TypeOK
<1>1. ASSUME TimeInv PROVE TypeOK
  <2>1. HeapType(heap) BY <1>1 DEF TimeInv, HeapOK
  <2>2. \A i \in 1 .. Len(heap.node) : heap.node[i] \in Node BY <2>1 DEF HeapType
  <2>3. \A i \in 1 .. Len(heap.node) : heap.node[i].time \in EVTTIM BY <2>2 DEF Node
  <2>4. ClockOK(current_time, min_time, next_time, next_subtime) BY <1>1 DEF TimeInv
  <2>5. sigtim \in {"out", "loop", "callback"} BY <1>1 DEF TimeInv
  <2> QED BY <2>3, <2>4, <2>5 DEF TypeOK, ClockOK
<1>2. TimeInv => TypeOK BY <1>1
<1> QED BY <1>2, TimeInvariant, PTL

(* A handler is started exactly if its event is registered, and the index  *)
(* of every event block is the position of its node, for any number of     *)
(* handlers and after any sequence of the heap's operations.               *)
THEOREM TimeIndexOK == Spec => []IndexOK
<1>1. ASSUME TimeInv PROVE IndexOK
  <2>1. HeapLinks(heap) /\ BlocksOK(heap, almsta, cycsta, evttim, noexs)
    BY <1>1 DEF TimeInv, HeapOK
  <2>2. \A i \in 1 .. Len(heap.node) : heap.index[heap.node[i].p_tmevtb] = i
    BY <2>1 DEF HeapLinks
  <2> QED BY <2>1, <2>2 DEF IndexOK, BlocksOK, Enqueued
<1>2. TimeInv => IndexOK BY <1>1
<1> QED BY <1>2, TimeInvariant, PTL

(* In the heap no event is before the one at its parent, neither by the    *)
(* comparison of the wrapped times nor in true time.                       *)
THEOREM TimeHeapOrdered == Spec => []HeapOrdered
<1>1. ASSUME TimeInv, NEW i \in 2 .. Len(heap.node), NEW n, NEW p,
             n = heap.node[i], p = heap.node[PARENT(i)]
      PROVE  /\ EVTTIM_LE(p.time, n.time)
             /\ TIC_DENO = 1 => wait[p.p_tmevtb] <= wait[n.p_tmevtb]
  <2>1. PICK m \in EVTTIM, now \in Int :
          m = min_time /\ now = Now(next_time, next_subtime, min_time)
    BY <1>1, ClockFacts DEF TimeInv
  <2>2. HeapOK(heap, m) /\ EventsOK(heap, wait, now, m) BY <1>1, <2>1 DEF TimeInv
  <2>3. HeapType(heap) /\ HeapLinks(heap) /\ HeapOrder(heap, m) BY <2>2 DEF HeapOK
  <2>4. D(p.time, m) <= D(n.time, m) BY <1>1, <2>3 DEF HeapOrder
  <2>5. EVTTIM_LE(p.time, n.time) BY <2>1, <2>4 DEF EVTTIM_LE, D
  <2>6. PARENT(i) \in 1 .. Len(heap.node) /\ i \in 1 .. Len(heap.node)
    BY <2>3, Parents DEF HeapType
  <2>7. ASSUME NEW j \in 1 .. Len(heap.node)
        PROVE  /\ heap.node[j].time \in EVTTIM
               /\ Rounded(heap.node[j].time, wait[heap.node[j].p_tmevtb], now, m)
    <3>1. heap.node[j] \in Node BY <2>3 DEF HeapType
    <3>2. PICK x \in Event : x = heap.node[j].p_tmevtb BY <3>1 DEF Node
    <3>3. heap.index[x] = j BY <2>3, <3>2 DEF HeapLinks
    <3>4. TimeOf(heap, x) = heap.node[j].time /\ heap.index[x] # 0 BY <3>3 DEF TimeOf
    <3>5. Rounded(TimeOf(heap, x), wait[x], now, m) BY <2>2, <3>4 DEF EventsOK
    <3> QED BY <3>1, <3>2, <3>4, <3>5 DEF Node
  <2>8. ASSUME TIC_DENO = 1 PROVE wait[p.p_tmevtb] <= wait[n.p_tmevtb]
    <3>1. \A t \in EVTTIM : D(t, m) \in Int BY Distances, Constants DEF EVTTIM
    <3>2. PICK dp \in Int, dn \in Int : dp = D(p.time, m) /\ dn = D(n.time, m)
      BY <1>1, <2>6, <2>7, <3>1
    <3>3. PICK wp, wn : wp = wait[p.p_tmevtb] /\ wn = wait[n.p_tmevtb] OBVIOUS
    <3>4. Rounded(p.time, wp, now, m) /\ Rounded(n.time, wn, now, m)
      BY <1>1, <2>6, <2>7, <3>3
    <3>5. /\ wp \in Int /\ wn \in Int /\ dp * 1 - now - wp \in 0 .. 0
          /\ dn * 1 - now - wn \in 0 .. 0
      BY <2>8, <3>2, <3>4 DEF Rounded
    <3>6. dp <= dn BY <2>4, <3>2
    <3>7. wp <= wn BY <3>5, <3>6
    <3> QED BY <3>3, <3>7
  <2> QED BY <2>5, <2>8
<1>2. TimeInv => HeapOrdered BY <1>1 DEF HeapOrdered
<1> QED BY <1>2, TimeInvariant, PTL

(* No callback runs before its time: what the loop of signal_time takes as *)
(* due has waited for at least the time that was asked for.                *)
THEOREM TimeNotEarly == Spec => []NotEarly
<1>1. ASSUME TimeInv, due PROVE wait[Head(heap.node).p_tmevtb] <= 0
  <2>1. PICK e : e = Head(heap.node).p_tmevtb OBVIOUS
  <2>2. PICK Q \in Nat \ {0} : Q = TIC_DENO BY Constants
  <2>3. PICK c, m, n, s, now :
          /\ c = current_time /\ m = min_time /\ n = next_time /\ s = next_subtime
          /\ now = Now(n, s, m)
    OBVIOUS
  <2>4. ClockOK(c, m, n, s) BY <1>1, <2>3 DEF TimeInv
  <2>5. PICK dc \in Nat : dc = D(c, m) /\ dc * Q <= now /\ now \in Int /\ m \in EVTTIM
    BY <2>2, <2>3, <2>4, ClockFacts
  <2>6. PICK t, w : t = TimeOf(heap, e) /\ w = wait[e] OBVIOUS
  <2>7. t \in EVTTIM /\ D(t, m) <= D(c, m) /\ Rounded(t, w, now, m)
    BY <1>1, <2>1, <2>3, <2>6, DueEvent
  <2>8. PICK dt \in Int : dt = D(t, m) BY <2>5, <2>7, Distances, Constants DEF EVTTIM
  <2>9. dt * Q <= dc * Q /\ dt * Q \in Int /\ dc * Q \in Int BY <2>5, <2>7, <2>8, Product
  <2>10. w \in Int /\ dt * Q - now - w \in 0 .. Q - 1 BY <2>2, <2>7, <2>8 DEF Rounded
  <2>11. w <= 0 BY <2>5, <2>9, <2>10
  <2> QED BY <2>1, <2>6, <2>11
<1>2. TimeInv => NotEarly BY <1>1 DEF NotEarly
<1> QED BY <1>2, TimeInvariant, PTL

(* The time that ref_alm and ref_cyc report, in numbers: du is the event,  *)
(* dn the next tick, w what is left from the last tick, r the rounding.    *)
LEMMA LeftTime ==
  ASSUME NEW Q \in Nat \ {0}, NEW N \in Nat, NEW du \in Nat, NEW dn \in Nat, NEW s \in 0 .. Q - 1,
         NEW w \in Int, du * Q - (dn * Q + s - N) - w \in 0 .. Q - 1,
         NEW b, b = (IF s > 0 THEN 1 ELSE 0), NEW l \in Int,
         l = IF du <= dn THEN 0 ELSE du - dn - b
  PROVE  IF w - N <= 0 THEN l * Q = 0 ELSE l * Q < w - N + Q /\ w - N < l * Q + Q
<1>1. PICK g \in Int : g = du - dn OBVIOUS
<1>2. PICK A \in Int, U \in Int, V \in Int : A = g * Q /\ U = du * Q /\ V = dn * Q BY Product
<1>3. A = U - V BY <1>1, <1>2, Product
<1>4. PICK r \in 0 .. Q - 1 : w - N = A - s - r
  <2>1. PICK r \in 0 .. Q - 1 : r = U - (V + s - N) - w BY <1>2
  <2>2. w - N = A - s - r BY <1>3, <2>1
  <2> QED BY <2>2
<1>5. b \in {0, 1} OBVIOUS
<1>6. CASE g <= 0
  <2>1. l = 0 BY <1>1, <1>6
  <2>2. A <= 0
    <3>1. g * Q <= 0 * Q BY <1>6, Product
    <3>2. 0 * Q = 0 OBVIOUS
    <3> QED BY <1>2, <3>1, <3>2
  <2>3. w - N <= 0 BY <1>4, <2>2
  <2> QED BY <2>1, <2>3
<1>7. CASE g > 0
  <2>1. l = g - b BY <1>1, <1>5, <1>7
  <2>2. PICK B \in Int : B = l * Q BY Product
  <2>3. B = IF s > 0 THEN A - Q ELSE A
    <3>1. CASE s > 0
      <4>1. l = g - 1 BY <2>1, <3>1
      <4>2. (g - 1) * Q = g * Q - 1 * Q /\ 1 * Q = Q BY Product
      <4> QED BY <1>2, <2>2, <3>1, <4>1, <4>2
    <3>2. CASE ~(s > 0)
      <4>1. l = g BY <2>1, <3>2
      <4> QED BY <1>2, <2>2, <3>2, <4>1
    <3> QED BY <3>1, <3>2
  <2>4. A >= Q
    <3>1. 0 * Q + Q <= g * Q BY <1>7, Product
    <3>2. 0 * Q = 0 OBVIOUS
    <3> QED BY <1>2, <3>1, <3>2
  <2>5. CASE w - N <= 0
    <3>1. A <= s + r BY <1>4, <2>5
    <3>2. A < Q + Q BY <1>4, <3>1
    <3>3. g <= 1
      <4>1. g * Q < 1 * Q + Q /\ 1 * Q = Q BY <1>2, <3>2
      <4> QED BY <4>1, Product
    <3>4. g = 1 /\ A = Q BY <1>2, <1>7, <3>3
    <3>5. s > 0 BY <1>4, <3>1, <3>4
    <3>6. B = 0 BY <2>3, <3>4, <3>5
    <3> QED BY <2>2, <2>5, <3>6
  <2>6. CASE ~(w - N <= 0)
    <3>1. B < A - s - r + Q /\ A - s - r < B + Q BY <1>4, <2>3
    <3>2. B < w - N + Q /\ w - N < B + Q BY <1>4, <3>1
    <3> QED BY <2>2, <2>6, <3>2
  <2> QED BY <2>5, <2>6
<1> QED BY <1>6, <1>7

(* A left time is the difference of the distances. *)
LEMMA Left ==
  ASSUME NEW m \in EVTTIM, NEW t \in EVTTIM, NEW n \in EVTTIM, NEW b \in {0, 1},
         D(n, m) < D(t, m)
  PROVE  (t - (n + b)) % EVTTIM_MOD = D(t, m) - D(n, m) - b
<1>1. PICK M \in Nat \ {0} : M = EVTTIM_MOD BY Constants
<1>2. t \in 0 .. M - 1 /\ n \in 0 .. M - 1 /\ m \in 0 .. M - 1 BY <1>1 DEF EVTTIM
<1>3. /\ D(t, m) = IF t < m THEN t - m + M ELSE t - m
      /\ D(n, m) = IF n < m THEN n - m + M ELSE n - m
  BY <1>1, Distances
<1>4. PICK dt \in Int, dn \in Int : dt = D(t, m) /\ dn = D(n, m)
  <2>1. D(t, m) \in EVTTIM /\ D(n, m) \in EVTTIM BY Distances
  <2>2. EVTTIM \subseteq Int BY <1>1 DEF EVTTIM
  <2> QED BY <2>1, <2>2
<1>5. /\ dn < dt /\ dt = IF t < m THEN t - m + M ELSE t - m
      /\ dn = IF n < m THEN n - m + M ELSE n - m
  BY <1>3, <1>4
<1>6. PICK a \in Int : a = t - (n + b) BY <1>2
<1>7. -M <= a /\ a < 2 * M BY <1>2, <1>5, <1>6
<1>8. a % M = IF a < 0 THEN a + M ELSE IF a < M THEN a ELSE a - M
  <2>1. CASE a = -M BY <2>1
  <2>2. CASE a # -M
    <3>1. -M < a BY <1>7, <2>2
    <3> QED BY <1>7, <3>1, Remainder
  <2> QED BY <2>1, <2>2
<1>9. a % M = dt - dn - b BY <1>2, <1>5, <1>6, <1>8
<1> QED BY <1>1, <1>4, <1>6, <1>9

(* The left time that ref_alm and ref_cyc report is right to the           *)
(* millisecond, and 0 exactly when the event is handled in the next tick.  *)
THEOREM TimeLefttimOK == Spec => []LefttimOK
<1>1. ASSUME TimeInv, NEW e \in Event, Enqueued(e), NEW l, l = tmevt_lefttim(e) * TIC_DENO,
             NEW x, x = wait[e] - TIC_NUME
      PROVE  IF x <= 0 THEN l = 0 ELSE l < x + TIC_DENO /\ x < l + TIC_DENO
  <2>1. PICK Q \in Nat \ {0}, N \in Nat : Q = TIC_DENO /\ N = TIC_NUME BY Constants
  <2>2. PICK m, n, s, b :
          /\ m = min_time /\ n = next_time /\ s = next_subtime
          /\ b = (IF s > 0 THEN 1 ELSE 0)
    OBVIOUS
  <2>3. ClockOK(current_time, m, n, s) BY <1>1, <2>2 DEF TimeInv
  <2>4. /\ m \in EVTTIM /\ n \in EVTTIM /\ s \in 0 .. Q - 1
        /\ Now(n, s, m) = D(n, m) * Q + s - N
    BY <2>1, <2>3, ClockFacts DEF ClockOK
  <2>5. PICK t, w : t = TimeOf(heap, e) /\ w = wait[e] OBVIOUS
  <2>6. heap.index[e] # 0 /\ HeapOK(heap, m) BY <1>1, <2>2 DEF Enqueued, TimeInv
  <2>7. t \in EVTTIM
    <3>1. heap.index[e] \in 1 .. Len(heap.node) BY <2>6 DEF HeapOK, HeapLinks
    <3>2. heap.node[heap.index[e]] \in Node BY <2>6, <3>1 DEF HeapOK, HeapType
    <3> QED BY <2>5, <3>2 DEF Node, TimeOf
  <2>8. Rounded(t, w, Now(n, s, m), m) BY <1>1, <2>2, <2>5, <2>6 DEF TimeInv, EventsOK
  <2>9. PICK du \in Nat, dn \in Nat : du = D(t, m) /\ dn = D(n, m)
    <3>1. D(t, m) \in EVTTIM /\ D(n, m) \in EVTTIM BY <2>4, <2>7, Distances
    <3>2. EVTTIM \subseteq Nat BY Constants DEF EVTTIM
    <3> QED BY <3>1, <3>2
  <2>10. w \in Int /\ du * Q - (dn * Q + s - N) - w \in 0 .. Q - 1
    BY <2>1, <2>4, <2>8, <2>9 DEF Rounded
  <2>11. PICK k : k = tmevt_lefttim(e) OBVIOUS
  <2>12. b \in {0, 1} BY <2>2, <2>4
  <2>13. k = IF du <= dn THEN 0 ELSE du - dn - b
    <3>1. k = IF D(t, m) <= D(n, m) THEN 0 ELSE (t - (n + b)) % EVTTIM_MOD
      BY <2>2, <2>5, <2>11 DEF tmevt_lefttim, TimeOf, EVTTIM_LE, D, base_time
    <3>2. CASE du <= dn BY <2>9, <3>1, <3>2
    <3>3. CASE ~(du <= dn)
      <4>1. D(n, m) < D(t, m) BY <2>9, <3>3
      <4>2. (t - (n + b)) % EVTTIM_MOD = D(t, m) - D(n, m) - b
        BY <2>4, <2>7, <2>12, <4>1, Left
      <4> QED BY <2>9, <3>1, <3>3, <4>2
    <3> QED BY <3>2, <3>3
  <2>14. k \in Int BY <2>12, <2>13
  <2>15. IF w - N <= 0 THEN k * Q = 0 ELSE k * Q < w - N + Q /\ w - N < k * Q + Q
    BY ONLY <2>2, <2>4, <2>10, <2>13, <2>14, Q \in Nat \ {0}, N \in Nat, du \in Nat, dn \in Nat,
            LeftTime
  <2>16. l = k * Q /\ x = w - N BY <1>1, <2>1, <2>5, <2>11
  <2> QED BY <2>1, <2>15, <2>16
<1>2. TimeInv => LefttimOK BY <1>1 DEF LefttimOK
<1> QED BY <1>2, TimeInvariant, PTL

(* Outside signal_time every registered event is after current_time. *)
Ahead == sigtim = "out" =>
  \A e \in Event : heap.index[e] # 0 => 0 < D(TimeOf(heap, e), min_time)

(* An operation on e that leaves the clock alone. *)
LEMMA AheadStep ==
  ASSUME TimeInv, Ahead, NEW e \in Event, Same(heap, heap', e), UNCHANGED clock,
         sigtim' = "out" => sigtim = "out",
         heap'.index[e] # 0 => D(current_time, min_time) < D(TimeOf(heap', e), min_time)
  PROVE  Ahead'
<1>1. SUFFICES ASSUME sigtim' = "out", NEW x \in Event, heap'.index[x] # 0
               PROVE  0 < D(TimeOf(heap', x), min_time)
  BY DEF Ahead, clock
<1>2. sigtim = "out" /\ current_time = min_time BY <1>1 DEF TimeInv
<1>3. D(current_time, min_time) = 0
  <2>1. min_time \in EVTTIM BY DEF TimeInv, ClockOK
  <2>2. D(min_time, min_time) = 0 BY <2>1, Moved
  <2> QED BY <1>2, <2>2
<1>4. CASE x = e BY <1>1, <1>3, <1>4
<1>5. CASE x # e
  <2>1. heap.index[x] # 0 /\ TimeOf(heap', x) = TimeOf(heap, x) BY <1>1, <1>5 DEF Same
  <2>2. 0 < D(TimeOf(heap, x), min_time) BY <1>2, <2>1 DEF Ahead
  <2> QED BY <2>1, <2>2
<1> QED BY <1>4, <1>5

(* After signal_time no event is registered that was due a whole           *)
(* millisecond ago.  The handlers with TA_STA must not have the phase 0,   *)
(* of which the configurator warns: they are registered before the first   *)
(* tick, which handles them late.                                          *)
THEOREM TimeNotLate ==
  ASSUME \A c \in Range(TaSta) : cycphs[c] > 0
  PROVE  Spec => []NotLate
<1>1. ASSUME Init PROVE Ahead
  <2>1. min_time = 0 /\ 0 \in EVTTIM BY <1>1, Constants DEF Init, EVTTIM
  <2>2. Registered(heap, Len(TaSta)) BY <1>1, <2>1, InitHeap DEF Init
  <2>3. SUFFICES ASSUME NEW e \in Event, heap.index[e] # 0
                 PROVE  0 < D(TimeOf(heap, e), min_time)
    BY DEF Ahead
  <2>4. TimeOf(heap, e) = cycphs[e] /\ \E i \in 1 .. Len(TaSta) : TaSta[i] = e
    BY <2>2, <2>3 DEF Registered
  <2>5. e \in Range(TaSta) BY <2>4, StaticCyclic DEF Range
  <2>6. e \in Cyc BY <2>4, StaticCyclic
  <2>7. PICK t \in EVTTIM : t = cycphs[e] BY <2>6, StaticCyclic
  <2>8. t > 0 /\ t \in Int BY <2>5, <2>7, Constants DEF EVTTIM
  <2>9. D(t, 0) = t BY <2>1, <2>8, Distances
  <2> QED BY <2>1, <2>4, <2>7, <2>8, <2>9
<1>2. ASSUME TimeInv, Ahead, [Next]_vars PROVE Ahead'
  <2>1. CASE tick
    <3>1. sigtim' = "loop" BY <2>1 DEF tick
    <3> QED BY <3>1 DEF Ahead
  <2>2. CASE callback_return
    <3>1. sigtim' = "loop" BY <2>2 DEF callback_return
    <3> QED BY <3>1 DEF Ahead
  <2>3. CASE loop_end
    <3>1. /\ heap' = heap /\ min_time' = current_time
          /\ \A e \in Event : heap.index[e] # 0 => 0 < D(TimeOf(heap, e), current_time)
      BY <1>2, <2>3, LoopEnd
    <3> QED BY <3>1 DEF Ahead
  <2>4. ASSUME NEW a \in Alm, call_almhdr(a) PROVE Ahead'
    <3>1. sigtim' = "callback" BY <2>4 DEF call_almhdr
    <3> QED BY <3>1 DEF Ahead
  <2>5. ASSUME NEW c \in Cyc, call_cychdr(c) PROVE Ahead'
    <3>1. sigtim' = "callback" BY <2>5 DEF call_cychdr
    <3> QED BY <3>1 DEF Ahead
  <2>6. ASSUME NEW a \in Alm, stp_alm(a) \/ acre_alm(a) \/ del_alm(a) PROVE Ahead'
    <3>1. Same(heap, heap', a) /\ heap'.index[a] = 0 /\ UNCHANGED clock
      BY <1>2, <2>6, StpAlm, AcreAlm, DelAlm
    <3>2. sigtim' = sigtim BY <2>6 DEF stp_alm, acre_alm, del_alm
    <3>3. a \in Event BY DEF Event
    <3> QED BY <1>2, <3>1, <3>2, <3>3, AheadStep
  <2>7. ASSUME NEW a \in Alm, NEW t \in RELTIM, sta_alm(a, t) PROVE Ahead'
    <3>1. /\ Same(heap, heap', a) /\ UNCHANGED clock
          /\ D(current_time, min_time) < D(TimeOf(heap', a), min_time)
      BY <1>2, <2>7, StaAlm
    <3>2. sigtim' = sigtim BY <2>7 DEF sta_alm
    <3>3. a \in Event BY DEF Event
    <3> QED BY <1>2, <3>1, <3>2, <3>3, AheadStep
  <2>8. ASSUME NEW c \in Cyc, stp_cyc(c) \/ del_cyc(c) PROVE Ahead'
    <3>1. Same(heap, heap', c) /\ heap'.index[c] = 0 /\ UNCHANGED clock
      BY <1>2, <2>8, StpCyc, DelCyc
    <3>2. sigtim' = sigtim BY <2>8 DEF stp_cyc, del_cyc
    <3>3. c \in Event BY DEF Event
    <3> QED BY <1>2, <3>1, <3>2, <3>3, AheadStep
  <2>9. ASSUME NEW c \in Cyc, sta_cyc(c) PROVE Ahead'
    <3>1. /\ Same(heap, heap', c) /\ UNCHANGED clock
          /\ D(current_time, min_time) < D(TimeOf(heap', c), min_time)
      BY <1>2, <2>9, StaCyc
    <3>2. sigtim' = sigtim BY <2>9 DEF sta_cyc
    <3>3. c \in Event BY DEF Event
    <3> QED BY <1>2, <3>1, <3>2, <3>3, AheadStep
  <2>10. ASSUME NEW c \in Cyc, NEW sta \in BOOLEAN, acre_cyc(c, sta) PROVE Ahead'
    <3>1. /\ Same(heap, heap', c) /\ UNCHANGED clock
          /\ heap'.index[c] # 0 => D(current_time, min_time) < D(TimeOf(heap', c), min_time)
      BY <1>2, <2>10, AcreCyc
    <3>2. sigtim' = sigtim BY <2>10 DEF acre_cyc
    <3>3. c \in Event BY DEF Event
    <3> QED BY <1>2, <3>1, <3>2, <3>3, AheadStep
  <2>11. CASE UNCHANGED vars BY <1>2, <2>11 DEF Ahead, vars, clock
  <2> QED
    BY <1>2, <2>1, <2>2, <2>3, <2>4, <2>5, <2>6, <2>7, <2>8, <2>9, <2>10, <2>11 DEF Next
<1>3. ASSUME TimeInv, Ahead PROVE NotLate
  <2>1. SUFFICES ASSUME sigtim = "out", NEW e \in Event, Enqueued(e)
                 PROVE  wait[e] > 1 - TIC_DENO
    BY DEF NotLate
  <2>2. PICK Q \in Nat \ {0} : Q = TIC_DENO BY Constants
  <2>3. PICK m, n, s, now : m = min_time /\ n = next_time /\ s = next_subtime /\ now = Now(n, s, m)
    OBVIOUS
  <2>4. ClockOK(m, m, n, s) BY <1>3, <2>1, <2>3 DEF TimeInv
  <2>5. m \in EVTTIM /\ now \in Int /\ now < D(m, m) * Q + Q BY <2>2, <2>3, <2>4, ClockFacts
  <2>6. now < Q
    <3>1. D(m, m) = 0 BY <2>5, Moved
    <3> QED BY <2>5, <3>1
  <2>7. PICK t, w : t = TimeOf(heap, e) /\ w = wait[e] OBVIOUS
  <2>8. heap.index[e] # 0 /\ HeapOK(heap, m) BY <1>3, <2>1, <2>3 DEF Enqueued, TimeInv
  <2>9. t \in EVTTIM
    <3>1. heap.index[e] \in 1 .. Len(heap.node) BY <2>8 DEF HeapOK, HeapLinks
    <3>2. heap.node[heap.index[e]] \in Node BY <2>8, <3>1 DEF HeapOK, HeapType
    <3> QED BY <2>7, <3>2 DEF Node, TimeOf
  <2>10. PICK dt \in Nat : dt = D(t, m)
    <3>1. D(t, m) \in EVTTIM BY <2>5, <2>9, Distances
    <3>2. EVTTIM \subseteq Nat BY Constants DEF EVTTIM
    <3> QED BY <3>1, <3>2
  <2>11. 0 < dt BY <1>3, <2>1, <2>3, <2>7, <2>8, <2>10 DEF Ahead
  <2>12. Rounded(t, w, now, m) BY <1>3, <2>3, <2>7, <2>8 DEF TimeInv, EventsOK
  <2>13. w \in Int /\ dt * Q - now - w \in 0 .. Q - 1 BY <2>2, <2>10, <2>12 DEF Rounded
  <2>14. 0 * Q + Q <= dt * Q /\ 0 * Q = 0 /\ dt * Q \in Int BY <2>11, Product
  <2>15. w > 1 - Q BY <2>5, <2>6, <2>13, <2>14
  <2> QED BY <2>2, <2>7, <2>15
<1>4. Init => Ahead BY <1>1
<1>5. TimeInv /\ Ahead /\ [Next]_vars => Ahead' BY <1>2
<1>6. TimeInv /\ Ahead => NotLate BY <1>3
<1> QED BY <1>4, <1>5, <1>6, TimeInvariant, PTL DEF Spec
=============================================================================
