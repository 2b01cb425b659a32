--------------------------- MODULE LogTask_proofs ----------------------------
(***************************************************************************)
(* The serial driver, the log and the log task, for every number of tasks  *)
(* and every size of the buffers.                                          *)
(*                                                                         *)
(* The first part is about the operations of the driver: what each does to *)
(* the two semaphores, to the two ring buffers and to the flow control.    *)
(* SerialInv lists what holds between two steps of the driver. The         *)
(* resource of a semaphore is in exactly one place: in the semaphore, with *)
(* a task inside the critical part, or given to the callback that will     *)
(* signal it.                                                              *)
(***************************************************************************)
EXTENDS LogTask, TLAPS, SequenceTheorems, FiniteSetTheorems, WellFoundedInduction

RingOK(r, size) ==
  /\ DOMAIN r = {"buf", "rd", "wr", "count"}
  /\ DOMAIN r.buf = 0 .. size - 1
  /\ r.rd \in 0 .. size - 1 /\ r.count \in 0 .. size
  /\ r.wr = IF r.rd + r.count < size THEN r.rd + r.count ELSE r.rd + r.count - size

(* A remainder by n of a number below 2n is one comparison, as in INC_PTR. *)
LEMMA ModWrap ==
  ASSUME NEW n \in Nat \ {0}, NEW a \in 0 .. 2 * n - 1
  PROVE  a % n = IF a < n THEN a ELSE a - n
  OBVIOUS

(* The word at place i of a queue that starts at place h of a ring. *)
LEMMA Place ==
  ASSUME NEW size \in Nat \ {0}, NEW h \in 0 .. size - 1, NEW i \in 1 .. size
  PROVE  /\ (h + i - 1) % size = IF h + i - 1 < size THEN h + i - 1 ELSE h + i - 1 - size
         /\ (h + i - 1) % size \in 0 .. size - 1
<1>1. h + i - 1 \in 0 .. 2 * size - 1 OBVIOUS
<1>2. PICK a \in 0 .. 2 * size - 1 : a = h + i - 1 BY <1>1
<1>3. a % size = IF a < size THEN a ELSE a - size BY ModWrap
<1> QED BY <1>2, <1>3

(* A queue kept in n words of a buffer b from place h. *)
Queue(b, h, n, size) == [i \in 1 .. n |-> b[(h + i - 1) % size]]

(* A function on 1 .. n is a sequence. *)
LEMMA FcnSeq ==
  ASSUME NEW S, NEW n \in Nat, NEW f, \A i \in 1 .. n : f[i] \in S
  PROVE  [i \in 1 .. n |-> f[i]] \in Seq(S)
  BY IsASeq

(* A queue in a ring is a sequence of its n words. *)
LEMMA QueueSeq ==
  ASSUME NEW size \in Nat \ {0}, NEW b, NEW h, NEW n \in Nat
  PROVE  /\ \E S : Queue(b, h, n, size) \in Seq(S)
         /\ Len(Queue(b, h, n, size)) = n
         /\ DOMAIN Queue(b, h, n, size) = 1 .. n
         /\ \A i \in 1 .. n : Queue(b, h, n, size)[i] = b[(h + i - 1) % size]
<1> DEFINE S == {b[(h + i - 1) % size] : i \in 1 .. n}
<1>1. PICK q : q = [i \in 1 .. n |-> b[(h + i - 1) % size]] OBVIOUS
<1>2. \A i \in 1 .. n : q[i] \in S BY <1>1
<1>3. DOMAIN q = 1 .. n /\ \A i \in 1 .. n : q[i] = b[(h + i - 1) % size] BY <1>1
<1> HIDE DEF S
<1>4. [i \in 1 .. n |-> q[i]] \in Seq(S) BY <1>2, FcnSeq
<1>5. q = [i \in 1 .. n |-> q[i]] BY <1>1
<1>6. q \in Seq(S) BY <1>4, <1>5
<1>7. Len(q) = n BY <1>6, <1>3
<1> QED BY <1>1, <1>3, <1>6, <1>7 DEF Queue, S

(* A queue is empty exactly if it has no words. *)
LEMMA QueueEmpty ==
  ASSUME NEW size \in Nat \ {0}, NEW b, NEW h, NEW n \in Nat
  PROVE  Queue(b, h, n, size) = <<>> <=> n = 0
  BY QueueSeq DEF Queue

(* A word written at the write pointer is behind the queue and changes     *)
(* nothing of it.                                                          *)
LEMMA QueuePut ==
  ASSUME NEW size \in Nat \ {0}, NEW b, NEW h \in 0 .. size - 1, NEW n \in 0 .. size - 1, NEW c,
         DOMAIN b = 0 .. size - 1, NEW w,
         w = IF h + n < size THEN h + n ELSE h + n - size
  PROVE  SubSeq(Queue([b EXCEPT ![w] = c], h, n + 1, size), 1, n) = Queue(b, h, n, size)
<1> DEFINE d == [b EXCEPT ![w] = c]
<1>1. \A i \in 1 .. n : d[(h + i - 1) % size] = b[(h + i - 1) % size]
  <2> SUFFICES ASSUME NEW i \in 1 .. n PROVE d[(h + i - 1) % size] = b[(h + i - 1) % size]
    OBVIOUS
  <2>1. PICK p : p = (h + i - 1) % size OBVIOUS
  <2>2. p \in 0 .. size - 1 /\ p # w BY <2>1, Place
  <2> QED BY <2>1, <2>2
<1>2. PICK q : q = Queue(d, h, n + 1, size) OBVIOUS
<1>3. Len(q) = n + 1 /\ \A i \in 1 .. n + 1 : q[i] = d[(h + i - 1) % size]
  BY <1>2, QueueSeq DEF Queue
<1>4. SubSeq(q, 1, n) = [i \in 1 .. n |-> q[i]]
  OBVIOUS
<1>5. [i \in 1 .. n |-> q[i]] = [i \in 1 .. n |-> b[(h + i - 1) % size]]
  <2>1. \A i \in 1 .. n : q[i] = d[(h + i - 1) % size] BY <1>3
  <2> HIDE DEF d
  <2>2. \A i \in 1 .. n : q[i] = b[(h + i - 1) % size] BY <1>1, <2>1
  <2> QED BY <2>2, Zenon
<1> QED BY <1>2, <1>4, <1>5 DEF Queue

(* A queue with one word more begins with the queue. *)
LEMMA QueuePrefix ==
  ASSUME NEW size \in Nat \ {0}, NEW b, NEW h, NEW n \in Nat
  PROVE  SubSeq(Queue(b, h, n + 1, size), 1, n) = Queue(b, h, n, size)
<1>1. PICK q : q = Queue(b, h, n + 1, size) OBVIOUS
<1>2. Len(q) = n + 1 /\ \A i \in 1 .. n + 1 : q[i] = b[(h + i - 1) % size]
  <2>1. PICK m \in Nat : m = n + 1 OBVIOUS
  <2>2. /\ Len(Queue(b, h, m, size)) = m
        /\ \A i \in 1 .. m : Queue(b, h, m, size)[i] = b[(h + i - 1) % size]
    BY QueueSeq
  <2> QED BY <1>1, <2>1, <2>2
<1>3. SubSeq(q, 1, n) = [i \in 1 .. n |-> q[i]]
  OBVIOUS
<1>4. \A i \in 1 .. n : q[i] = b[(h + i - 1) % size]
  BY <1>2
<1>5. [i \in 1 .. n |-> q[i]] = [i \in 1 .. n |-> b[(h + i - 1) % size]]
  BY <1>4, Zenon
<1> QED BY <1>1, <1>3, <1>5 DEF Queue

(* Tail, under a name that is expanded only where it is wanted. *)
Rest(q) == Tail(q)

(* The word at place h of buffer b may have changed in d; k is the next place. *)
Advance(b, h, d, k, size) ==
  /\ k = IF h + 1 < size THEN h + 1 ELSE 0
  /\ \A i \in 0 .. size - 1 : i # h => d[i] = b[i]

(* Taking the oldest word leaves the others. *)
LEMMA QueueGet ==
  ASSUME NEW size \in Nat \ {0}, NEW b, NEW h \in 0 .. size - 1, NEW n \in 1 .. size, NEW k,
         NEW m, m = n - 1, NEW d, Advance(b, h, d, k, size)
  PROVE  /\ Queue(d, k, m, size) = Rest(Queue(b, h, n, size))
         /\ Head(Queue(b, h, n, size)) = b[h]
         /\ Queue(b, h, n, size) # <<>>
<1> USE DEF Advance
<1>0. n \in Nat /\ n - 1 \in Nat OBVIOUS
<1>1. \A i \in 1 .. n - 1 : d[(k + i - 1) % size] = b[(h + (i + 1) - 1) % size]
  <2> SUFFICES ASSUME NEW i \in 1 .. n - 1
               PROVE d[(k + i - 1) % size] = b[(h + (i + 1) - 1) % size]
    OBVIOUS
  <2>1. PICK j \in 1 .. size : j = i + 1 OBVIOUS
  <2>2. PICK p : p = (h + j - 1) % size OBVIOUS
  <2>3. p = (IF h + j - 1 < size THEN h + j - 1 ELSE h + j - 1 - size) /\ p \in 0 .. size - 1
    BY <2>2, Place
  <2>4. PICK v : v = (k + i - 1) % size OBVIOUS
  <2>5. v = (IF k + i - 1 < size THEN k + i - 1 ELSE k + i - 1 - size)
    BY <2>4, Place
  <2>6. v = p /\ p # h BY <2>1, <2>3, <2>5
  <2>7. d[v] = b[p] BY <2>3, <2>6
  <2> QED BY <2>1, <2>2, <2>4, <2>7
<1>2. PICK q : q = Queue(b, h, n, size) OBVIOUS
<1>3. PICK S : q \in Seq(S) BY <1>0, <1>2, QueueSeq
<1>4. Len(q) = n /\ \A i \in 1 .. n : q[i] = b[(h + i - 1) % size]
  <2>1. /\ Len(Queue(b, h, n, size)) = n
        /\ \A i \in 1 .. n : Queue(b, h, n, size)[i] = b[(h + i - 1) % size]
    <3> HIDE DEF Advance
    <3>1. Len(Queue(b, h, n, size)) = n BY <1>0, QueueSeq
    <3>2. \A i \in 1 .. n : Queue(b, h, n, size)[i] = b[(h + i - 1) % size]
      BY <1>0 DEF Queue
    <3> QED BY <3>1, <3>2
  <2> QED BY <1>2, <2>1
<1>5. q # <<>> BY <1>2, QueueEmpty
<1>6. Tail(q) = [i \in 1 .. n - 1 |-> q[i + 1]]
  <2>1. PICK r : r = Tail(q) OBVIOUS
  <2>2. r \in Seq(S) /\ Len(r) = n - 1 /\ \A i \in 1 .. Len(r) : r[i] = q[i + 1]
    BY <1>3, <1>4, <1>5, <2>1, HeadTailProperties
  <2>3. r = [i \in 1 .. n - 1 |-> r[i]] BY <2>2
  <2>4. \A i \in 1 .. n - 1 : r[i] = q[i + 1] BY <2>2
  <2>5. r = [i \in 1 .. n - 1 |-> q[i + 1]] BY <2>3, <2>4
  <2> QED BY <2>1, <2>5
<1>7. \A i \in 1 .. n - 1 : q[i + 1] = d[(k + i - 1) % size]
  <2> SUFFICES ASSUME NEW i \in 1 .. n - 1 PROVE q[i + 1] = d[(k + i - 1) % size] OBVIOUS
  <2>1. PICK j \in 1 .. n : j = i + 1 OBVIOUS
  <2>2. q[j] = b[(h + j - 1) % size] BY <1>4
  <2>3. d[(k + i - 1) % size] = b[(h + (i + 1) - 1) % size] BY <1>1
  <2> QED BY <2>1, <2>2, <2>3
<1>8. Tail(q) = [i \in 1 .. n - 1 |-> d[(k + i - 1) % size]] BY <1>6, <1>7, Zenon
<1>9. Head(q) = b[h]
  <2>1. Head(q) = q[1] BY <1>3, <1>5
  <2>2. q[1] = b[(h + 1 - 1) % size] BY <1>4
  <2>3. (h + 1 - 1) % size = h BY Place
  <2> QED BY <2>1, <2>2, <2>3
<1> QED BY <1>2, <1>5, <1>8, <1>9 DEF Queue, Rest

(* A word that replaces the oldest one of a full ring. *)
LEMMA QueueOverwrite ==
  ASSUME NEW size \in Nat \ {0}, NEW b, NEW h \in 0 .. size - 1, NEW c,
         DOMAIN b = 0 .. size - 1, NEW k,
         k = IF h + 1 < size THEN h + 1 ELSE 0
  PROVE  SubSeq(Queue([b EXCEPT ![h] = c], k, size, size), 1, size - 1)
           = Tail(Queue(b, h, size, size))
<1>1. PICK d : d = [b EXCEPT ![h] = c] OBVIOUS
<1>2. Queue(d, k, size - 1, size) = Rest(Queue(b, h, size, size))
  <2>2. PICK m : m = size - 1 OBVIOUS
  <2>1. size \in 1 .. size /\ Advance(b, h, d, k, size) BY <1>1 DEF Advance
  <2>3. Queue(d, k, m, size) = Rest(Queue(b, h, size, size)) BY <2>1, <2>2, QueueGet
  <2> QED BY <2>2, <2>3
<1>3. size - 1 \in Nat /\ (size - 1) + 1 = size OBVIOUS
<1>4. SubSeq(Queue(d, k, size, size), 1, size - 1) = Queue(d, k, size - 1, size)
  BY <1>3, QueuePrefix
<1> QED BY <1>1, <1>2, <1>4 DEF Rest

(* The contents of a ring are the queue at its read pointer. *)
LEMMA RingContents ==
  ASSUME NEW r, NEW size
  PROVE  contents(r, size) = Queue(r.buf, r.rd, r.count, size)
  BY DEF contents, Queue

(* The ring of serial_initialize is consistent and empty. *)
LEMMA RingEmpty ==
  ASSUME NEW size \in Nat \ {0}
  PROVE  RingOK(ring(size), size) /\ contents(ring(size), size) = <<>>
<1>1. RingOK(ring(size), size) BY DEF RingOK, ring
<1>2. ring(size).count = 0 BY DEF ring
<1> QED BY <1>1, <1>2, RingContents, QueueEmpty

(* A ring that is not full keeps what it has and gets one word at its end. *)
LEMMA RingPut ==
  ASSUME NEW size \in Nat \ {0}, NEW r, RingOK(r, size), r.count < size, NEW c,
         NEW p, p = ring_put(r, c, size)
  PROVE  /\ RingOK(p, size) /\ p.count = r.count + 1
         /\ Len(contents(r, size)) = r.count /\ Len(contents(p, size)) = r.count + 1
         /\ SubSeq(contents(p, size), 1, Len(contents(r, size))) = contents(r, size)
<1> USE DEF RingOK
<1>1. /\ DOMAIN p = {"buf", "rd", "wr", "count"}
      /\ p.buf = [r.buf EXCEPT ![r.wr] = c] /\ p.rd = r.rd /\ p.count = r.count + 1
      /\ p.wr = IF r.wr + 1 = size THEN 0 ELSE r.wr + 1
  BY DEF ring_put, INC_PTR
<1>2. RingOK(p, size)
  <2>1. DOMAIN p.buf = 0 .. size - 1 BY <1>1
  <2>2. PICK h, n, w : h = r.rd /\ n = r.count /\ w = r.wr OBVIOUS
  <2>3. /\ h \in 0 .. size - 1 /\ n \in 0 .. size - 1
        /\ w = IF h + n < size THEN h + n ELSE h + n - size
    BY <2>2
  <2>4. (IF w + 1 = size THEN 0 ELSE w + 1)
          = IF h + (n + 1) < size THEN h + (n + 1) ELSE h + (n + 1) - size
    BY <2>3
  <2> QED BY <1>1, <2>1, <2>2, <2>3, <2>4
<1>3. r.count \in Nat /\ r.count + 1 \in Nat /\ r.count \in 0 .. size - 1 OBVIOUS
<1>4. Len(contents(r, size)) = r.count
  <2>1. Len(Queue(r.buf, r.rd, r.count, size)) = r.count BY <1>3, QueueSeq
  <2> QED BY <2>1, RingContents
<1>5. Len(contents(p, size)) = r.count + 1
  <2>1. Len(Queue(p.buf, p.rd, p.count, size)) = p.count BY <1>1, <1>3, QueueSeq
  <2> QED BY <1>1, <2>1, RingContents
<1>6. SubSeq(Queue([r.buf EXCEPT ![r.wr] = c], r.rd, r.count + 1, size), 1, r.count)
        = Queue(r.buf, r.rd, r.count, size)
  <2>1. PICK h, n, w, b : h = r.rd /\ n = r.count /\ w = r.wr /\ b = r.buf OBVIOUS
  <2>2. /\ h \in 0 .. size - 1 /\ n \in 0 .. size - 1 /\ DOMAIN b = 0 .. size - 1
        /\ w = IF h + n < size THEN h + n ELSE h + n - size
    BY <2>1
  <2>3. SubSeq(Queue([b EXCEPT ![w] = c], h, n + 1, size), 1, n) = Queue(b, h, n, size)
    BY <2>2, QueuePut
  <2> QED BY <2>1, <2>3
<1>7. SubSeq(contents(p, size), 1, r.count) = contents(r, size)
  BY <1>1, <1>6, RingContents
<1> QED BY <1>1, <1>2, <1>4, <1>5, <1>7

(* A ring that is not empty gives its oldest word and keeps the others. *)
LEMMA RingGet ==
  ASSUME NEW size \in Nat \ {0}, NEW r, RingOK(r, size), r.count > 0,
         NEW g, g = ring_get(r, size)
  PROVE  /\ RingOK(g, size) /\ g.count = r.count - 1
         /\ contents(r, size) # <<>>
         /\ contents(g, size) = Tail(contents(r, size))
         /\ Head(contents(r, size)) = r.buf[r.rd]
<1> USE DEF RingOK
<1>1. /\ DOMAIN g = {"buf", "rd", "wr", "count"}
      /\ g.buf = [r.buf EXCEPT ![r.rd] = NUL] /\ g.wr = r.wr /\ g.count = r.count - 1
      /\ g.rd = IF r.rd + 1 = size THEN 0 ELSE r.rd + 1
  BY DEF ring_get, INC_PTR
<1>3. g.rd = IF r.rd + 1 < size THEN r.rd + 1 ELSE 0 BY <1>1
<1>2. RingOK(g, size)
  <2>1. DOMAIN g.buf = 0 .. size - 1 BY <1>1
  <2>2. PICK h, n, w, k : h = r.rd /\ n = r.count /\ w = r.wr /\ k = g.rd OBVIOUS
  <2>3. /\ h \in 0 .. size - 1 /\ n \in 1 .. size /\ k = IF h + 1 < size THEN h + 1 ELSE 0
        /\ w = IF h + n < size THEN h + n ELSE h + n - size
    BY <1>3, <2>2
  <2>4. k \in 0 .. size - 1 /\ w = IF k + (n - 1) < size THEN k + (n - 1) ELSE k + (n - 1) - size
    BY <2>3
  <2>5. g.rd = k /\ g.wr = w /\ g.count = n - 1 /\ g.count \in 0 .. size BY <1>1, <2>2, <2>3
  <2> QED BY <1>1, <2>1, <2>4, <2>5
<1>4. /\ Queue(g.buf, g.rd, r.count - 1, size) = Tail(Queue(r.buf, r.rd, r.count, size))
      /\ Head(Queue(r.buf, r.rd, r.count, size)) = r.buf[r.rd]
      /\ Queue(r.buf, r.rd, r.count, size) # <<>>
  <2>1. r.count \in 1 .. size /\ r.rd \in 0 .. size - 1 /\ DOMAIN r.buf = 0 .. size - 1 OBVIOUS
  <2>2. PICK h, n, k, b : h = r.rd /\ n = r.count /\ k = g.rd /\ b = r.buf OBVIOUS
  <2>3. /\ Queue([b EXCEPT ![h] = NUL], k, n - 1, size) = Tail(Queue(b, h, n, size))
        /\ Head(Queue(b, h, n, size)) = b[h]
        /\ Queue(b, h, n, size) # <<>>
    <3>1. /\ h \in 0 .. size - 1 /\ n \in 1 .. size /\ DOMAIN b = 0 .. size - 1
          /\ k = IF h + 1 < size THEN h + 1 ELSE 0
      BY <1>3, <2>1, <2>2
    <3>2. PICK c : c = NUL OBVIOUS
    <3>0. PICK d : d = [b EXCEPT ![h] = c] OBVIOUS
    <3>4. Advance(b, h, d, k, size) BY <3>0, <3>1 DEF Advance
    <3>5. PICK m : m = n - 1 OBVIOUS
    <3>3. /\ Queue(d, k, m, size) = Rest(Queue(b, h, n, size))
          /\ Head(Queue(b, h, n, size)) = b[h]
          /\ Queue(b, h, n, size) # <<>>
      <4>1. h \in 0 .. size - 1 BY <3>1
      <4>2. n \in 1 .. size BY <3>1
      <4>3. size \in Nat \ {0} OBVIOUS
      <4> QED BY ONLY <4>1, <4>2, <4>3, <3>4, <3>5, QueueGet
    <3> QED BY <3>0, <3>2, <3>3, <3>5 DEF Rest
  <2> QED BY <1>1, <2>2, <2>3
<1> QED BY <1>1, <1>2, <1>4, RingContents

(* What a step may do to the transmit buffer, v before it and w after it. *)
SndStep(v, w) ==
  \/ w.openflag = v.openflag /\ w.snd = v.snd /\ w.sent = v.sent
  \/ /\ v.openflag /\ w.openflag /\ w.snd = v.snd
     /\ v.snd.count = 0 \/ w.sent \in {FC_START, FC_STOP}
  \/ /\ v.openflag /\ w.openflag /\ w.sent = v.sent /\ v.snd.count < SndBufsz
     /\ \E c : w.snd = ring_put(v.snd, c, SndBufsz)
  \/ /\ v.openflag /\ w.openflag /\ w.sent = v.snd.buf[v.snd.rd] /\ v.snd.count > 0
     /\ w.snd = ring_get(v.snd, SndBufsz)
  \/ v.openflag /\ ~w.openflag /\ w.snd = v.snd /\ w.sent = v.sent
  \/ ~v.openflag /\ w.openflag /\ w.snd = ring(SndBufsz) /\ w.sent = v.sent

(* And to the receive buffer. *)
RcvStep(v, w) ==
  \/ w.openflag = v.openflag /\ w.rcv = v.rcv /\ w.got = v.got
  \/ /\ v.openflag /\ w.openflag /\ w.got = v.got /\ v.rcv.count < RcvBufsz
     /\ \E c : w.rcv = ring_put(v.rcv, c, RcvBufsz)
  \/ /\ v.openflag /\ w.openflag /\ w.got = v.rcv.buf[v.rcv.rd] /\ v.rcv.count > 0
     /\ w.rcv = ring_get(v.rcv, RcvBufsz)
  \/ v.openflag /\ ~w.openflag /\ w.rcv = v.rcv /\ w.got = v.got
  \/ ~v.openflag /\ w.openflag /\ w.rcv = ring(RcvBufsz) /\ w.got = v.got

(* A SndStep is a step of the bounded queue Snd, and keeps the ring        *)
(* consistent.                                                             *)
LEMMA SndRefines ==
  ASSUME RingOK(s.snd, SndBufsz), s.openflag \in BOOLEAN, (s.openflag)' \in BOOLEAN, SndStep(s, s')
  PROVE  [Snd!Next]_(Snd!vars) /\ RingOK((s.snd)', SndBufsz)
<1> USE SerialAssumption
<1>0. s.snd.count = 0 => contents(s.snd, SndBufsz) = <<>>
  BY RingContents, QueueEmpty
<1>1. CASE (s.openflag)' = s.openflag /\ (s.snd)' = s.snd /\ (s.sent)' = s.sent
  BY <1>1 DEF Snd!vars
<1>2. CASE /\ s.openflag /\ (s.openflag)' /\ (s.snd)' = s.snd
           /\ s.snd.count = 0 \/ (s.sent)' \in {FC_START, FC_STOP}
  <2>1. Snd!Pass BY <1>0, <1>2 DEF Snd!Pass
  <2> QED BY <1>2, <2>1 DEF Snd!Next
<1>3. CASE /\ s.openflag /\ (s.openflag)' /\ (s.sent)' = s.sent /\ s.snd.count < SndBufsz
           /\ \E c : (s.snd)' = ring_put(s.snd, c, SndBufsz)
  <2>1. PICK c : (s.snd)' = ring_put(s.snd, c, SndBufsz) BY <1>3
  <2>2. PICK p : p = ring_put(s.snd, c, SndBufsz) OBVIOUS
  <2>3. /\ RingOK(p, SndBufsz)
        /\ Len(contents(s.snd, SndBufsz)) = s.snd.count
        /\ Len(contents(p, SndBufsz)) = s.snd.count + 1
        /\ SubSeq(contents(p, SndBufsz), 1, Len(contents(s.snd, SndBufsz)))
             = contents(s.snd, SndBufsz)
    BY <1>3, <2>2, RingPut
  <2>4. contents(p, SndBufsz) = contents(s.snd, SndBufsz)' BY <2>1, <2>2
  <2>5. Snd!Put BY <1>3, <2>3, <2>4 DEF Snd!Put
  <2> QED BY <2>1, <2>2, <2>3, <2>5 DEF Snd!Next
<1>4. CASE /\ s.openflag /\ (s.openflag)' /\ (s.sent)' = s.snd.buf[s.snd.rd] /\ s.snd.count > 0
           /\ (s.snd)' = ring_get(s.snd, SndBufsz)
  <2>2. PICK p : p = ring_get(s.snd, SndBufsz) OBVIOUS
  <2>3. /\ RingOK(p, SndBufsz)
        /\ contents(s.snd, SndBufsz) # <<>>
        /\ contents(p, SndBufsz) = Tail(contents(s.snd, SndBufsz))
        /\ Head(contents(s.snd, SndBufsz)) = s.snd.buf[s.snd.rd]
    BY <1>4, <2>2, RingGet
  <2>4. contents(p, SndBufsz) = contents(s.snd, SndBufsz)' BY <1>4, <2>2
  <2>5. Snd!Get BY <1>4, <2>3, <2>4 DEF Snd!Get
  <2> QED BY <1>4, <2>2, <2>3, <2>5 DEF Snd!Next
<1>5. CASE s.openflag /\ ~(s.openflag)' /\ (s.snd)' = s.snd /\ (s.sent)' = s.sent
  <2>1. Snd!Close BY <1>5 DEF Snd!Close
  <2> QED BY <1>5, <2>1 DEF Snd!Next
<1>6. CASE ~s.openflag /\ (s.openflag)' /\ (s.snd)' = ring(SndBufsz) /\ (s.sent)' = s.sent
  <2>1. RingOK((s.snd)', SndBufsz) /\ contents(s.snd, SndBufsz)' = <<>> BY <1>6, RingEmpty
  <2>2. Snd!Open BY <1>6, <2>1 DEF Snd!Open
  <2> QED BY <2>1, <2>2 DEF Snd!Next
<1> QED BY <1>1, <1>2, <1>3, <1>4, <1>5, <1>6 DEF SndStep

(* A RcvStep is a step of the bounded queue Rcv, and keeps the ring        *)
(* consistent.                                                             *)
LEMMA RcvRefines ==
  ASSUME RingOK(s.rcv, RcvBufsz), s.openflag \in BOOLEAN, (s.openflag)' \in BOOLEAN, RcvStep(s, s')
  PROVE  [Rcv!Next]_(Rcv!vars) /\ RingOK((s.rcv)', RcvBufsz)
<1> USE SerialAssumption
<1>1. CASE (s.openflag)' = s.openflag /\ (s.rcv)' = s.rcv /\ (s.got)' = s.got
  BY <1>1 DEF Rcv!vars
<1>3. CASE /\ s.openflag /\ (s.openflag)' /\ (s.got)' = s.got /\ s.rcv.count < RcvBufsz
           /\ \E c : (s.rcv)' = ring_put(s.rcv, c, RcvBufsz)
  <2>1. PICK c : (s.rcv)' = ring_put(s.rcv, c, RcvBufsz) BY <1>3
  <2>2. PICK p : p = ring_put(s.rcv, c, RcvBufsz) OBVIOUS
  <2>3. /\ RingOK(p, RcvBufsz)
        /\ Len(contents(s.rcv, RcvBufsz)) = s.rcv.count
        /\ Len(contents(p, RcvBufsz)) = s.rcv.count + 1
        /\ SubSeq(contents(p, RcvBufsz), 1, Len(contents(s.rcv, RcvBufsz)))
             = contents(s.rcv, RcvBufsz)
    BY <1>3, <2>2, RingPut, SMTT(60)
  <2>4. contents(p, RcvBufsz) = contents(s.rcv, RcvBufsz)' BY <2>1, <2>2
  <2>5. Rcv!Put BY <1>3, <2>3, <2>4 DEF Rcv!Put
  <2> QED BY <2>1, <2>2, <2>3, <2>5 DEF Rcv!Next
<1>4. CASE /\ s.openflag /\ (s.openflag)' /\ (s.got)' = s.rcv.buf[s.rcv.rd] /\ s.rcv.count > 0
           /\ (s.rcv)' = ring_get(s.rcv, RcvBufsz)
  <2>2. PICK p : p = ring_get(s.rcv, RcvBufsz) OBVIOUS
  <2>3. /\ RingOK(p, RcvBufsz)
        /\ contents(s.rcv, RcvBufsz) # <<>>
        /\ contents(p, RcvBufsz) = Tail(contents(s.rcv, RcvBufsz))
        /\ Head(contents(s.rcv, RcvBufsz)) = s.rcv.buf[s.rcv.rd]
    BY <1>4, <2>2, RingGet
  <2>4. contents(p, RcvBufsz) = contents(s.rcv, RcvBufsz)' BY <1>4, <2>2
  <2>5. Rcv!Get BY <1>4, <2>3, <2>4 DEF Rcv!Get
  <2> QED BY <1>4, <2>2, <2>3, <2>5 DEF Rcv!Next
<1>5. CASE s.openflag /\ ~(s.openflag)' /\ (s.rcv)' = s.rcv /\ (s.got)' = s.got
  <2>1. Rcv!Close BY <1>5 DEF Rcv!Close
  <2> QED BY <1>5, <2>1 DEF Rcv!Next
<1>6. CASE ~s.openflag /\ (s.openflag)' /\ (s.rcv)' = ring(RcvBufsz) /\ (s.got)' = s.got
  <2>1. RingOK((s.rcv)', RcvBufsz) /\ contents(s.rcv, RcvBufsz)' = <<>> BY <1>6, RingEmpty
  <2>2. Rcv!Open BY <1>6, <2>1 DEF Rcv!Open
  <2> QED BY <2>1, <2>2 DEF Rcv!Next
<1> QED BY <1>1, <1>3, <1>4, <1>5, <1>6 DEF RcvStep
-----------------------------------------------------------------------------
(***************************************************************************)
(* The invariant of the driver.  A task inside the driver has the resource *)
(* of SERIAL_SND_SEM while it writes, and that of SERIAL_RCV_SEM while it  *)
(* takes a character or knows that there are more.                         *)
(***************************************************************************)
Fields == {"openflag", "errorflag", "ioctl", "rcv", "fc", "rcv_stopped", "snd", "snd_stopped",
           "sem", "dev", "sent", "got", "acc", "gap", "tsk"}

Pcs == {"idle", "wait_snd", "blk_snd", "wri_chr", "sig_snd",
        "wait_rcv", "blk_rcv", "rea_chr", "echo", "sig_rcv"}

HasSnd(k) == k.pc \in {"wri_chr", "sig_snd"}
HasRcv(k) == k.pc \in {"rea_chr", "sig_rcv"} \/ (k.reading /\ ~k.empty)

TaskOK(k) ==
  /\ DOMAIN k = {"pc", "buf", "out", "reading", "need", "empty"}
  /\ k.pc \in Pcs /\ k.reading \in BOOLEAN /\ k.empty \in BOOLEAN
  /\ k.pc \in {"wait_rcv", "blk_rcv"} => k.reading /\ k.empty
  /\ k.pc \in {"rea_chr", "echo", "sig_rcv"} => k.reading
  /\ k.pc = "sig_rcv" => ~k.empty
  /\ k.pc = "idle" => ~k.reading

Tasks(tsk) == DOMAIN tsk = User /\ \A t \in User : TaskOK(tsk[t])

SndH(tsk) == {t \in User : HasSnd(tsk[t])}
RcvH(tsk) == {t \in User : HasRcv(tsk[t])}

(* A resource is in the semaphore (n = 1), or with one task, or gone. *)
OneOf(n, H, gone) ==
  IF gone THEN n = 0 /\ H = {}
  ELSE (n = 1 /\ H = {}) \/ (n = 0 /\ \E h \in User : H = {h})

Shape(v) ==
  /\ DOMAIN v = Fields /\ DOMAIN v.sem = {"snd", "rcv"}
  /\ DOMAIN v.dev = {"tdfe", "tie", "rie", "irq"}
  /\ v.openflag \in BOOLEAN /\ v.errorflag \in BOOLEAN /\ v.rcv_stopped \in BOOLEAN
  /\ v.dev.irq \in BOOLEAN /\ v.dev.tdfe \in BOOLEAN
  /\ v.fc \in {NUL, FC_START, FC_STOP}
  /\ Tasks(v.tsk)

OpenInv(v) ==
  v.openflag => /\ ~v.errorflag
                /\ OneOf(v.sem.snd, SndH(v.tsk), v.snd.count = SndBufsz)
                /\ OneOf(v.sem.rcv, RcvH(v.tsk), v.rcv.count = 0)

ClosedInv(v) ==
  ~v.openflag => /\ \A t \in User : v.tsk[t].pc = "idle"
                 /\ v.sem.snd = 1 /\ v.sem.rcv = 0 /\ ~v.dev.irq

StopInv(v) == v.openflag /\ v.rcv_stopped => v.rcv.count > BUFCNT_START

Rings(v) == RingOK(v.snd, SndBufsz) /\ RingOK(v.rcv, RcvBufsz)

SerialInv(v) == Shape(v) /\ Rings(v) /\ OpenInv(v) /\ ClosedInv(v) /\ StopInv(v)

(* A step of the driver. *)
SerialStep(v, w) ==
  Shape(w) /\ SndStep(v, w) /\ RcvStep(v, w) /\ OpenInv(w) /\ ClosedInv(w) /\ StopInv(w)

(* The step changes at most the tasks, the semaphores and errorflag. *)
Others(v, w) ==
  /\ DOMAIN w = DOMAIN v
  /\ w.openflag = v.openflag /\ w.ioctl = v.ioctl /\ w.rcv = v.rcv /\ w.fc = v.fc
  /\ w.rcv_stopped = v.rcv_stopped /\ w.snd = v.snd /\ w.snd_stopped = v.snd_stopped
  /\ w.dev = v.dev /\ w.sent = v.sent /\ w.got = v.got /\ w.acc = v.acc /\ w.gap = v.gap

(* SerialInv is ResourceInv and NoMutualStop, and more. *)
LEMMA SerialInvResource ==
  ASSUME SerialInv(s)
  PROVE  ResourceInv /\ NoMutualStop
<1>1. NoMutualStop BY DEF SerialInv, StopInv, NoMutualStop
<1>2. ASSUME NEW n, NEW H, NEW gone \in BOOLEAN, OneOf(n, H, gone)
      PROVE  n + Cardinality(H) + (IF gone THEN 1 ELSE 0) = 1
  <2>1. CASE gone
    <3>1. n = 0 /\ H = {} BY <1>2, <2>1 DEF OneOf
    <3> QED BY <2>1, <3>1, FS_EmptySet
  <2>2. CASE ~gone /\ n = 1 /\ H = {}
    BY <2>2, FS_EmptySet
  <2>3. CASE ~gone /\ n = 0 /\ \E h \in User : H = {h}
    <3>1. PICK h \in User : H = {h} BY <2>3
    <3>2. Cardinality({h}) = 1 BY FS_Singleton
    <3> QED BY <2>3, <3>1, <3>2
  <2> QED BY <1>2, <2>1, <2>2, <2>3 DEF OneOf
<1>3. SndHolders = SndH(s.tsk) /\ RcvHolders = RcvH(s.tsk)
  BY DEF SndHolders, RcvHolders, SndH, RcvH, HasSnd, HasRcv
<1>4. ASSUME s.openflag
      PROVE  /\ ~s.errorflag
             /\ s.sem.snd + Cardinality(SndHolders) + (IF s.snd.count = SndBufsz THEN 1 ELSE 0) = 1
             /\ s.sem.rcv + Cardinality(RcvHolders) + (IF s.rcv.count = 0 THEN 1 ELSE 0) = 1
  <2>1. /\ ~s.errorflag
        /\ OneOf(s.sem.snd, SndH(s.tsk), s.snd.count = SndBufsz)
        /\ OneOf(s.sem.rcv, RcvH(s.tsk), s.rcv.count = 0)
    BY <1>4 DEF SerialInv, OpenInv
  <2>2. PICK g \in BOOLEAN : g = (s.snd.count = SndBufsz) OBVIOUS
  <2>3. PICK f \in BOOLEAN : f = (s.rcv.count = 0) OBVIOUS
  <2>4. s.sem.snd + Cardinality(SndHolders) + (IF g THEN 1 ELSE 0) = 1
    BY <1>2, <1>3, <2>1, <2>2, ZenonT(60)
  <2>5. s.sem.rcv + Cardinality(RcvHolders) + (IF f THEN 1 ELSE 0) = 1
    BY <1>2, <1>3, <2>1, <2>3, ZenonT(60)
  <2> QED BY <2>1, <2>2, <2>3, <2>4, <2>5
<1> QED BY <1>1, <1>4 DEF ResourceInv

(* Task t changes to k. *)
Changed(tsk, t, k, u) == u = [tsk EXCEPT ![t] = k]

(* The holders after a change of one task. *)
LEMMA Holders ==
  ASSUME NEW tsk, Tasks(tsk), NEW t \in User, NEW k, TaskOK(k),
         NEW u, Changed(tsk, t, k, u)
  PROVE  /\ Tasks(u)
         /\ SndH(u) = IF HasSnd(k) THEN SndH(tsk) \cup {t} ELSE SndH(tsk) \ {t}
         /\ RcvH(u) = IF HasRcv(k) THEN RcvH(tsk) \cup {t} ELSE RcvH(tsk) \ {t}
<1>1. DOMAIN u = User /\ \A x \in User : u[x] = IF x = t THEN k ELSE tsk[x]
  BY DEF Tasks, Changed
<1>2. Tasks(u) BY <1>1 DEF Tasks
<1>3. SndH(u) = IF HasSnd(k) THEN SndH(tsk) \cup {t} ELSE SndH(tsk) \ {t}
  BY <1>1 DEF SndH
<1>4. RcvH(u) = IF HasRcv(k) THEN RcvH(tsk) \cup {t} ELSE RcvH(tsk) \ {t}
  BY <1>1 DEF RcvH
<1> QED BY <1>2, <1>3, <1>4

(* The same, with the conclusion under a name. *)
After(tsk, t, k, u) ==
  /\ Tasks(u)
  /\ SndH(u) = IF HasSnd(k) THEN SndH(tsk) \cup {t} ELSE SndH(tsk) \ {t}
  /\ RcvH(u) = IF HasRcv(k) THEN RcvH(tsk) \cup {t} ELSE RcvH(tsk) \ {t}

(* A step of one task moves no other task among the holders of a resource. *)
LEMMA HoldersAfter ==
  ASSUME NEW tsk, Tasks(tsk), NEW t \in User, NEW k, TaskOK(k),
         NEW u, Changed(tsk, t, k, u)
  PROVE  After(tsk, t, k, u)
  BY Holders DEF After

(* at and return change one task and nothing else. *)
LEMMA AtStep ==
  ASSUME NEW v, Shape(v), NEW t \in User, NEW pc, NEW w, w = at(v, t, pc)
  PROVE  /\ Others(v, w) /\ w.sem = v.sem /\ w.errorflag = v.errorflag
         /\ w.tsk = [v.tsk EXCEPT ![t] = [v.tsk[t] EXCEPT !.pc = pc]]
  BY DEF Shape, Fields, Tasks, Others, at

(* A task that returns changes its own state only. *)
LEMMA ReturnStep ==
  ASSUME NEW v, Shape(v), NEW t \in User, NEW w, w = return(v, t)
  PROVE  /\ Others(v, w) /\ w.sem = v.sem /\ w.errorflag = v.errorflag
         /\ w.tsk = [v.tsk EXCEPT ![t] = Idle]
  BY DEF Shape, Fields, Tasks, Others, return

(* A task outside the driver holds no resource. *)
LEMMA IdleOK == TaskOK(Idle) /\ ~HasSnd(Idle) /\ ~HasRcv(Idle) /\ Idle.pc = "idle"
  BY DEF TaskOK, HasSnd, HasRcv, Idle, Pcs

(* A task moves on. *)
LEMMA Moved ==
  ASSUME NEW k, TaskOK(k), NEW pc, NEW j, j = [k EXCEPT !.pc = pc]
  PROVE  /\ DOMAIN j = DOMAIN k /\ j.pc = pc /\ j.reading = k.reading /\ j.empty = k.empty
         /\ j.buf = k.buf /\ j.out = k.out /\ j.need = k.need
  BY DEF TaskOK

(* What next_rea and end_wri do to a task that has no more to write. *)
GoesOn(k, j) ==
  TaskOK(j) /\ ~HasSnd(j) /\ (HasRcv(j) <=> k.reading /\ ~k.empty)

(* The loop of serial_rea_dat goes on or ends, and changes the reader      *)
(* only.                                                                   *)
LEMMA NextRea ==
  ASSUME NEW v, Shape(v), NEW t \in User, v.tsk[t].reading, NEW w, w = next_rea(v, t)
  PROVE  /\ Others(v, w) /\ w.sem = v.sem /\ w.errorflag = v.errorflag
         /\ \E j : GoesOn(v.tsk[t], j) /\ w.tsk = [v.tsk EXCEPT ![t] = j]
<1>1. PICK k : k = v.tsk[t] OBVIOUS
<1>2. TaskOK(k) BY <1>1 DEF Shape, Tasks
<1>3. ASSUME NEW pc, w = at(v, t, pc),
             \/ pc \in {"wait_rcv"} /\ k.empty
             \/ pc \in {"rea_chr", "sig_rcv"} /\ ~k.empty
      PROVE  /\ Others(v, w) /\ w.sem = v.sem /\ w.errorflag = v.errorflag
             /\ \E j : GoesOn(k, j) /\ w.tsk = [v.tsk EXCEPT ![t] = j]
  <2>1. PICK j : j = [k EXCEPT !.pc = pc] OBVIOUS
  <2>2. j.pc = pc /\ j.reading = k.reading /\ j.empty = k.empty /\ DOMAIN j = DOMAIN k
    BY <1>2, <2>1, Moved
  <2>3. GoesOn(k, j)
    BY <1>1, <1>2, <1>3, <2>2 DEF GoesOn, TaskOK, HasSnd, HasRcv, Pcs
  <2>4. /\ Others(v, w) /\ w.sem = v.sem /\ w.errorflag = v.errorflag
        /\ w.tsk = [v.tsk EXCEPT ![t] = [v.tsk[t] EXCEPT !.pc = pc]]
    BY <1>3, AtStep
  <2> QED BY <1>1, <2>1, <2>3, <2>4
<1>4. CASE w = return(v, t) /\ k.empty
  <2>1. GoesOn(k, Idle) BY <1>4, IdleOK DEF GoesOn
  <2>2. /\ Others(v, w) /\ w.sem = v.sem /\ w.errorflag = v.errorflag
        /\ w.tsk = [v.tsk EXCEPT ![t] = Idle]
    BY <1>4, ReturnStep
  <2> QED BY <1>1, <2>1, <2>2
<1>5. \/ w = return(v, t) /\ k.empty
      \/ w = at(v, t, "wait_rcv") /\ k.empty
      \/ w = at(v, t, "rea_chr") /\ ~k.empty
      \/ w = at(v, t, "sig_rcv") /\ ~k.empty
  BY <1>1 DEF next_rea
<1> QED BY <1>1, <1>3, <1>4, <1>5

(* The end of a written datum returns to the caller or to the reader's     *)
(* loop.                                                                   *)
LEMMA EndWri ==
  ASSUME NEW v, Shape(v), NEW t \in User, NEW w, w = end_wri(v, t)
  PROVE  /\ Others(v, w) /\ w.sem = v.sem /\ w.errorflag = v.errorflag
         /\ \E j : GoesOn(v.tsk[t], j) /\ w.tsk = [v.tsk EXCEPT ![t] = j]
<1>1. CASE v.tsk[t].reading
  BY <1>1, NextRea DEF end_wri
<1>2. CASE ~v.tsk[t].reading
  <2>1. GoesOn(v.tsk[t], Idle) BY <1>2, IdleOK DEF GoesOn
  <2>2. w = return(v, t) BY <1>2 DEF end_wri
  <2>3. /\ Others(v, w) /\ w.sem = v.sem /\ w.errorflag = v.errorflag
        /\ w.tsk = [v.tsk EXCEPT ![t] = Idle]
    BY <2>2, ReturnStep
  <2> QED BY <2>1, <2>3
<1> QED BY <1>1, <1>2

(* Among the tasks that wait there is one that is served first. *)
LEMMA First ==
  ASSUME NEW B, B \subseteq User, B # {}
  PROVE  (CHOOSE t \in B : \A u \in B : UserPri[t] <= UserPri[u]) \in B
<1> DEFINE S == {UserPri[t] : t \in B}
<1>1. S \in SUBSET Nat /\ S # {} BY SerialAssumption
<1>2. \E p \in S : \A q \in S : p <= q
  <2> HIDE DEF S
  <2>1. PICK R : R = OpToRel(<, Nat) OBVIOUS
  <2>2. IsWellFoundedOn(R, Nat) BY <2>1, NatLessThanWellFounded
  <2>3. PICK p \in S : \A q \in S : ~(<<q, p>> \in R) BY <1>1, <2>2, WFMin
  <2>4. \A q \in S : ~(q < p) BY <1>1, <2>1, <2>3 DEF OpToRel
  <2> QED BY <1>1, <2>4
<1>3. \E t \in B : \A u \in B : UserPri[t] <= UserPri[u] BY <1>2
<1> QED BY <1>3, Zenon

(* sig_sem gives the resource to a task that waits, or keeps it. *)
LEMMA SigSem ==
  ASSUME NEW v, Shape(v), NEW x \in {"snd", "rcv"}, v.sem[x] = 0, NEW w, w = sig_sem(v, x)
  PROVE  \/ w = [v EXCEPT !.sem[x] = 1]
         \/ \E u \in User : v.tsk[u].pc = waiting(x) /\ w = at(v, u, granted(x))
<1>1. CASE blocked(v, x) # {}
  <2>1. PICK u : u = CHOOSE t \in blocked(v, x) :
                       \A y \in blocked(v, x) : UserPri[t] <= UserPri[y]
    OBVIOUS
  <2>2. blocked(v, x) \subseteq User BY DEF blocked
  <2>3. u \in blocked(v, x) BY <1>1, <2>1, <2>2, First
  <2>4. w = at(v, u, granted(x)) BY <1>1, <2>1, Zenon DEF sig_sem
  <2>5. u \in User /\ v.tsk[u].pc = waiting(x) BY <2>3 DEF blocked
  <2> QED BY <2>4, <2>5
<1>2. CASE blocked(v, x) = {}
  <2>1. ~E_QOVR(v, x) BY DEF E_QOVR
  <2>2. w = [v EXCEPT !.sem[x] = v.sem[x] + 1] BY <1>2, <2>1 DEF sig_sem
  <2> QED BY <2>2
<1> QED BY <1>1, <1>2

(* The resource of SERIAL_SND_SEM is given to a task that waits for room, or kept. *)
LEMMA GiveSnd ==
  ASSUME NEW v, Shape(v), v.sem.snd = 0, NEW w, w = sig_sem(v, "snd")
  PROVE  /\ Shape(w) /\ Others(v, w) /\ w.errorflag = v.errorflag /\ w.sem.rcv = v.sem.rcv
         /\ RcvH(w.tsk) = RcvH(v.tsk)
         /\ \A t \in User : v.tsk[t].pc # "blk_snd" => w.tsk[t] = v.tsk[t]
         /\ \/ w.sem.snd = 1 /\ SndH(w.tsk) = SndH(v.tsk)
            \/ /\ w.sem.snd = 0
               /\ \E u \in User \ SndH(v.tsk) : SndH(w.tsk) = SndH(v.tsk) \cup {u}
<1>0. v.sem["snd"] = 0 OBVIOUS
<1>1. CASE w = [v EXCEPT !.sem["snd"] = 1]
  <2>1. w.sem = [v.sem EXCEPT !["snd"] = 1] /\ w.tsk = v.tsk
    BY <1>1 DEF Shape, Fields
  <2>2. Others(v, w) /\ w.errorflag = v.errorflag
    BY <1>1 DEF Shape, Fields, Others
  <2>3. w.sem.snd = 1 /\ w.sem.rcv = v.sem.rcv /\ DOMAIN w.sem = {"snd", "rcv"}
    BY <2>1 DEF Shape
  <2>4. Shape(w) BY <2>1, <2>2, <2>3 DEF Shape, Others
  <2> QED BY <2>1, <2>2, <2>3, <2>4
<1>2. ASSUME NEW u \in User, v.tsk[u].pc = waiting("snd"), w = at(v, u, granted("snd"))
      PROVE  /\ Shape(w) /\ Others(v, w) /\ w.errorflag = v.errorflag /\ w.sem = v.sem
             /\ RcvH(w.tsk) = RcvH(v.tsk)
             /\ \A t \in User : v.tsk[t].pc # "blk_snd" => w.tsk[t] = v.tsk[t]
             /\ u \notin SndH(v.tsk) /\ SndH(w.tsk) = SndH(v.tsk) \cup {u}
  <2>1. PICK k : k = v.tsk[u] OBVIOUS
  <2>2. TaskOK(k) /\ k.pc = "blk_snd" BY <1>2, <2>1 DEF Shape, Tasks, waiting
  <2>3. PICK j : j = [k EXCEPT !.pc = "wri_chr"] OBVIOUS
  <2>4. j.pc = "wri_chr" /\ j.reading = k.reading /\ j.empty = k.empty /\ DOMAIN j = DOMAIN k
    BY <2>2, <2>3, Moved
  <2>5. TaskOK(j) /\ HasSnd(j) /\ ~HasSnd(k) /\ (HasRcv(j) <=> HasRcv(k))
    BY <2>2, <2>4 DEF TaskOK, HasSnd, HasRcv, Pcs
  <2>6. /\ Others(v, w) /\ w.sem = v.sem /\ w.errorflag = v.errorflag
        /\ w.tsk = [v.tsk EXCEPT ![u] = j]
    BY <1>2, <2>1, <2>3, AtStep DEF granted
  <2>7. /\ Tasks(w.tsk) /\ SndH(w.tsk) = SndH(v.tsk) \cup {u}
        /\ RcvH(w.tsk) = IF HasRcv(j) THEN RcvH(v.tsk) \cup {u} ELSE RcvH(v.tsk) \ {u}
    <3>1. Tasks(v.tsk) BY DEF Shape
    <3>2. Changed(v.tsk, u, j, w.tsk) BY <2>6 DEF Changed
    <3> QED BY <2>5, <3>1, <3>2, Holders
  <2>8. RcvH(w.tsk) = RcvH(v.tsk) BY <2>1, <2>5, <2>7 DEF RcvH
  <2>9. u \notin SndH(v.tsk) BY <2>1, <2>5 DEF SndH
  <2>10. \A t \in User : v.tsk[t].pc # "blk_snd" => w.tsk[t] = v.tsk[t]
    BY <2>1, <2>2, <2>6 DEF Shape, Tasks
  <2>11. Shape(w) BY <2>6, <2>7 DEF Shape, Others
  <2> QED BY <2>6, <2>7, <2>8, <2>9, <2>10, <2>11
<1>3. \/ w = [v EXCEPT !.sem["snd"] = 1]
      \/ \E u \in User : v.tsk[u].pc = waiting("snd") /\ w = at(v, u, granted("snd"))
  BY <1>0, SigSem
<1>4. CASE \E u \in User : v.tsk[u].pc = waiting("snd") /\ w = at(v, u, granted("snd"))
  <2>1. PICK u \in User : v.tsk[u].pc = waiting("snd") /\ w = at(v, u, granted("snd")) BY <1>4
  <2>2. /\ Shape(w) /\ Others(v, w) /\ w.errorflag = v.errorflag /\ w.sem = v.sem
        /\ RcvH(w.tsk) = RcvH(v.tsk)
        /\ \A t \in User : v.tsk[t].pc # "blk_snd" => w.tsk[t] = v.tsk[t]
        /\ u \notin SndH(v.tsk) /\ SndH(w.tsk) = SndH(v.tsk) \cup {u}
    BY <1>2, <2>1
  <2> QED BY <2>2
<1> QED BY <1>1, <1>3, <1>4

(* And that of SERIAL_RCV_SEM to a task that waits for a character. *)
LEMMA GiveRcv ==
  ASSUME NEW v, Shape(v), v.sem.rcv = 0, NEW w, w = sig_sem(v, "rcv")
  PROVE  /\ Shape(w) /\ Others(v, w) /\ w.errorflag = v.errorflag /\ w.sem.snd = v.sem.snd
         /\ SndH(w.tsk) = SndH(v.tsk)
         /\ \A t \in User : v.tsk[t].pc # "blk_rcv" => w.tsk[t] = v.tsk[t]
         /\ \/ w.sem.rcv = 1 /\ RcvH(w.tsk) = RcvH(v.tsk)
            \/ /\ w.sem.rcv = 0
               /\ \E u \in User \ RcvH(v.tsk) : RcvH(w.tsk) = RcvH(v.tsk) \cup {u}
<1>0. v.sem["rcv"] = 0 OBVIOUS
<1>1. CASE w = [v EXCEPT !.sem["rcv"] = 1]
  <2>1. w.sem = [v.sem EXCEPT !["rcv"] = 1] /\ w.tsk = v.tsk
    BY <1>1 DEF Shape, Fields
  <2>2. Others(v, w) /\ w.errorflag = v.errorflag
    BY <1>1 DEF Shape, Fields, Others
  <2>3. w.sem.rcv = 1 /\ w.sem.snd = v.sem.snd /\ DOMAIN w.sem = {"snd", "rcv"}
    BY <2>1 DEF Shape
  <2>4. Shape(w) BY <2>1, <2>2, <2>3 DEF Shape, Others
  <2> QED BY <2>1, <2>2, <2>3, <2>4
<1>2. ASSUME NEW u \in User, v.tsk[u].pc = waiting("rcv"), w = at(v, u, granted("rcv"))
      PROVE  /\ Shape(w) /\ Others(v, w) /\ w.errorflag = v.errorflag /\ w.sem = v.sem
             /\ SndH(w.tsk) = SndH(v.tsk)
             /\ \A t \in User : v.tsk[t].pc # "blk_rcv" => w.tsk[t] = v.tsk[t]
             /\ u \notin RcvH(v.tsk) /\ RcvH(w.tsk) = RcvH(v.tsk) \cup {u}
  <2>1. PICK k : k = v.tsk[u] OBVIOUS
  <2>2. TaskOK(k) /\ k.pc = "blk_rcv" BY <1>2, <2>1 DEF Shape, Tasks, waiting
  <2>3. PICK j : j = [k EXCEPT !.pc = "rea_chr"] OBVIOUS
  <2>4. j.pc = "rea_chr" /\ j.reading = k.reading /\ j.empty = k.empty /\ DOMAIN j = DOMAIN k
    BY <2>2, <2>3, Moved
  <2>5. TaskOK(j) /\ HasRcv(j) /\ ~HasRcv(k) /\ (HasSnd(j) <=> HasSnd(k))
    BY <2>2, <2>4 DEF TaskOK, HasSnd, HasRcv, Pcs
  <2>6. /\ Others(v, w) /\ w.sem = v.sem /\ w.errorflag = v.errorflag
        /\ w.tsk = [v.tsk EXCEPT ![u] = j]
    BY <1>2, <2>1, <2>3, AtStep DEF granted
  <2>7. /\ Tasks(w.tsk) /\ RcvH(w.tsk) = RcvH(v.tsk) \cup {u}
        /\ SndH(w.tsk) = IF HasSnd(j) THEN SndH(v.tsk) \cup {u} ELSE SndH(v.tsk) \ {u}
    <3>1. Tasks(v.tsk) BY DEF Shape
    <3>2. Changed(v.tsk, u, j, w.tsk) BY <2>6 DEF Changed
    <3> QED BY <2>5, <3>1, <3>2, Holders
  <2>8. SndH(w.tsk) = SndH(v.tsk) BY <2>1, <2>5, <2>7 DEF SndH
  <2>9. u \notin RcvH(v.tsk) BY <2>1, <2>5 DEF RcvH
  <2>10. \A t \in User : v.tsk[t].pc # "blk_rcv" => w.tsk[t] = v.tsk[t]
    BY <2>1, <2>2, <2>6 DEF Shape, Tasks
  <2>11. Shape(w) BY <2>6, <2>7 DEF Shape, Others
  <2> QED BY <2>6, <2>7, <2>8, <2>9, <2>10, <2>11
<1>3. \/ w = [v EXCEPT !.sem["rcv"] = 1]
      \/ \E u \in User : v.tsk[u].pc = waiting("rcv") /\ w = at(v, u, granted("rcv"))
  BY <1>0, SigSem
<1>4. CASE \E u \in User : v.tsk[u].pc = waiting("rcv") /\ w = at(v, u, granted("rcv"))
  <2>1. PICK u \in User : v.tsk[u].pc = waiting("rcv") /\ w = at(v, u, granted("rcv")) BY <1>4
  <2>2. /\ Shape(w) /\ Others(v, w) /\ w.errorflag = v.errorflag /\ w.sem = v.sem
        /\ SndH(w.tsk) = SndH(v.tsk)
        /\ \A t \in User : v.tsk[t].pc # "blk_rcv" => w.tsk[t] = v.tsk[t]
        /\ u \notin RcvH(v.tsk) /\ RcvH(w.tsk) = RcvH(v.tsk) \cup {u}
    BY <1>2, <2>1
  <2> QED BY <2>2
<1> QED BY <1>1, <1>3, <1>4

(* The resource that was nowhere is with a task or in the semaphore again. *)
GaveSnd(v, w) ==
  /\ Shape(w) /\ Others(v, w) /\ w.errorflag = v.errorflag /\ w.sem.rcv = v.sem.rcv
  /\ RcvH(w.tsk) = RcvH(v.tsk) /\ OneOf(w.sem.snd, SndH(w.tsk), FALSE)

(* sig_sem on the send semaphore with no resource out gives it to the      *)
(* first writer or stores it.                                              *)
LEMMA GiveRoom ==
  ASSUME NEW v, Shape(v), v.sem.snd = 0, SndH(v.tsk) = {}, NEW w, w = sig_sem(v, "snd")
  PROVE  GaveSnd(v, w)
<1>1. /\ Shape(w) /\ Others(v, w) /\ w.errorflag = v.errorflag /\ w.sem.rcv = v.sem.rcv
      /\ RcvH(w.tsk) = RcvH(v.tsk)
      /\ \A t \in User : v.tsk[t].pc # "blk_snd" => w.tsk[t] = v.tsk[t]
      /\ \/ w.sem.snd = 1 /\ SndH(w.tsk) = SndH(v.tsk)
         \/ /\ w.sem.snd = 0
            /\ \E u \in User \ SndH(v.tsk) : SndH(w.tsk) = SndH(v.tsk) \cup {u}
  BY GiveSnd
<1>2. OneOf(w.sem.snd, SndH(w.tsk), FALSE) BY <1>1 DEF OneOf
<1> QED BY <1>1, <1>2 DEF GaveSnd

(* wai_sem takes the resource, or waits for it. *)
LEMMA WaiSnd ==
  ASSUME NEW v, Shape(v), NEW t \in User, v.tsk[t].pc \in {"wait_snd", "echo"},
         NEW g \in BOOLEAN, OneOf(v.sem.snd, SndH(v.tsk), g), NEW w, w = wai_sem(v, t, "snd")
  PROVE  /\ Shape(w) /\ Others(v, w) /\ w.errorflag = v.errorflag /\ w.sem.rcv = v.sem.rcv
         /\ RcvH(w.tsk) = RcvH(v.tsk) /\ OneOf(w.sem.snd, SndH(w.tsk), g)
<1>1. PICK k : k = v.tsk[t] OBVIOUS
<1>2. TaskOK(k) /\ k.pc \in {"wait_snd", "echo"} BY <1>1 DEF Shape, Tasks
<1>3. t \notin SndH(v.tsk) BY <1>1, <1>2 DEF SndH, HasSnd
<1>4. ASSUME NEW u, Shape(u), u.tsk = v.tsk, NEW pc \in {"wri_chr", "blk_snd"}, w = at(u, t, pc)
      PROVE  /\ Shape(w) /\ Others(u, w) /\ w.errorflag = u.errorflag /\ w.sem = u.sem
             /\ RcvH(w.tsk) = RcvH(v.tsk)
             /\ SndH(w.tsk) = IF pc = "wri_chr" THEN SndH(v.tsk) \cup {t} ELSE SndH(v.tsk)
  <2>1. PICK j : j = [k EXCEPT !.pc = pc] OBVIOUS
  <2>2. j.pc = pc /\ j.reading = k.reading /\ j.empty = k.empty /\ DOMAIN j = DOMAIN k
    BY <1>2, <2>1, Moved
  <2>3. TaskOK(j) /\ (HasSnd(j) <=> pc = "wri_chr") /\ (HasRcv(j) <=> HasRcv(k))
    BY <1>2, <2>2 DEF TaskOK, HasSnd, HasRcv, Pcs
  <2>4. /\ Others(u, w) /\ w.sem = u.sem /\ w.errorflag = u.errorflag
        /\ w.tsk = [u.tsk EXCEPT ![t] = [u.tsk[t] EXCEPT !.pc = pc]]
    BY <1>4, AtStep
  <2>5. Changed(v.tsk, t, j, w.tsk) BY <1>1, <1>4, <2>1, <2>4 DEF Changed
  <2>6. Tasks(v.tsk) BY DEF Shape
  <2>7. /\ Tasks(w.tsk)
        /\ SndH(w.tsk) = IF HasSnd(j) THEN SndH(v.tsk) \cup {t} ELSE SndH(v.tsk) \ {t}
        /\ RcvH(w.tsk) = IF HasRcv(j) THEN RcvH(v.tsk) \cup {t} ELSE RcvH(v.tsk) \ {t}
    <3>1. TaskOK(j) BY <2>3
    <3> QED BY <2>5, <2>6, <3>1, Holders, ZenonT(60)
  <2>8. RcvH(w.tsk) = RcvH(v.tsk) BY <1>1, <2>3, <2>7 DEF RcvH
  <2>9. SndH(w.tsk) = IF pc = "wri_chr" THEN SndH(v.tsk) \cup {t} ELSE SndH(v.tsk)
    BY <1>3, <2>3, <2>7
  <2>10. Shape(w) BY <1>4, <2>4, <2>7 DEF Shape, Others
  <2> QED BY <2>4, <2>8, <2>9, <2>10
<1>5. CASE v.sem.snd > 0
  <2>1. v.sem.snd = 1 /\ SndH(v.tsk) = {} /\ ~g BY <1>5 DEF OneOf
  <2>2. PICK u : u = [v EXCEPT !.sem["snd"] = v.sem["snd"] - 1] OBVIOUS
  <2>3. w = at(u, t, "wri_chr") BY <1>5, <2>2 DEF wai_sem, granted
  <2>4. u.sem = [v.sem EXCEPT !["snd"] = 0] /\ u.tsk = v.tsk BY <2>1, <2>2 DEF Shape, Fields
  <2>5. Others(v, u) /\ u.errorflag = v.errorflag BY <2>2 DEF Shape, Fields, Others
  <2>6. u.sem.snd = 0 /\ u.sem.rcv = v.sem.rcv /\ DOMAIN u.sem = {"snd", "rcv"}
    BY <2>4 DEF Shape
  <2>7. Shape(u) BY <2>4, <2>5, <2>6 DEF Shape, Others
  <2>8. /\ Shape(w) /\ Others(u, w) /\ w.errorflag = u.errorflag /\ w.sem = u.sem
        /\ RcvH(w.tsk) = RcvH(v.tsk) /\ SndH(w.tsk) = SndH(v.tsk) \cup {t}
    BY <1>4, <2>3, <2>4, <2>7
  <2>9. Others(v, w) BY <2>5, <2>8 DEF Others
  <2>10. OneOf(w.sem.snd, SndH(w.tsk), g) BY <2>1, <2>6, <2>8 DEF OneOf
  <2> QED BY <2>5, <2>6, <2>8, <2>9, <2>10
<1>6. CASE ~(v.sem.snd > 0)
  <2>1. w = at(v, t, "blk_snd") BY <1>6 DEF wai_sem, waiting
  <2>2. /\ Shape(w) /\ Others(v, w) /\ w.errorflag = v.errorflag /\ w.sem = v.sem
        /\ RcvH(w.tsk) = RcvH(v.tsk) /\ SndH(w.tsk) = SndH(v.tsk)
    BY <1>4, <2>1
  <2> QED BY <2>2
<1> QED BY <1>5, <1>6

(* wai_sem on the receive semaphore takes the resource or waits; there is  *)
(* still one in all.                                                       *)
LEMMA WaiRcv ==
  ASSUME NEW v, Shape(v), NEW t \in User, v.tsk[t].pc = "wait_rcv",
         NEW g \in BOOLEAN, OneOf(v.sem.rcv, RcvH(v.tsk), g), NEW w, w = wai_sem(v, t, "rcv")
  PROVE  /\ Shape(w) /\ Others(v, w) /\ w.errorflag = v.errorflag /\ w.sem.snd = v.sem.snd
         /\ SndH(w.tsk) = SndH(v.tsk) /\ OneOf(w.sem.rcv, RcvH(w.tsk), g)
<1>1. PICK k : k = v.tsk[t] OBVIOUS
<1>2. TaskOK(k) /\ k.pc = "wait_rcv" BY <1>1 DEF Shape, Tasks
<1>3. t \notin RcvH(v.tsk) BY <1>1, <1>2 DEF RcvH, HasRcv, TaskOK
<1>4. ASSUME NEW u, Shape(u), u.tsk = v.tsk, NEW pc \in {"rea_chr", "blk_rcv"}, w = at(u, t, pc)
      PROVE  /\ Shape(w) /\ Others(u, w) /\ w.errorflag = u.errorflag /\ w.sem = u.sem
             /\ SndH(w.tsk) = SndH(v.tsk)
             /\ RcvH(w.tsk) = IF pc = "rea_chr" THEN RcvH(v.tsk) \cup {t} ELSE RcvH(v.tsk)
  <2>1. PICK j : j = [k EXCEPT !.pc = pc] OBVIOUS
  <2>2. j.pc = pc /\ j.reading = k.reading /\ j.empty = k.empty /\ DOMAIN j = DOMAIN k
    BY <1>2, <2>1, Moved
  <2>3. TaskOK(j) /\ (HasRcv(j) <=> pc = "rea_chr") /\ ~HasSnd(j) /\ ~HasSnd(k)
    BY <1>2, <2>2 DEF TaskOK, HasSnd, HasRcv, Pcs
  <2>4. /\ Others(u, w) /\ w.sem = u.sem /\ w.errorflag = u.errorflag
        /\ w.tsk = [u.tsk EXCEPT ![t] = [u.tsk[t] EXCEPT !.pc = pc]]
    BY <1>4, AtStep
  <2>5. Changed(v.tsk, t, j, w.tsk) BY <1>1, <1>4, <2>1, <2>4 DEF Changed
  <2>6. Tasks(v.tsk) BY DEF Shape
  <2>7. /\ Tasks(w.tsk)
        /\ SndH(w.tsk) = IF HasSnd(j) THEN SndH(v.tsk) \cup {t} ELSE SndH(v.tsk) \ {t}
        /\ RcvH(w.tsk) = IF HasRcv(j) THEN RcvH(v.tsk) \cup {t} ELSE RcvH(v.tsk) \ {t}
    BY <2>3, <2>5, <2>6, Holders
  <2>8. SndH(w.tsk) = SndH(v.tsk) BY <1>1, <2>3, <2>7 DEF SndH
  <2>9. RcvH(w.tsk) = IF pc = "rea_chr" THEN RcvH(v.tsk) \cup {t} ELSE RcvH(v.tsk)
    BY <1>3, <2>3, <2>7
  <2>10. Shape(w) BY <1>4, <2>4, <2>7 DEF Shape, Others
  <2> QED BY <2>4, <2>8, <2>9, <2>10
<1>5. CASE v.sem.rcv > 0
  <2>1. v.sem.rcv = 1 /\ RcvH(v.tsk) = {} /\ ~g BY <1>5 DEF OneOf
  <2>2. PICK u : u = [v EXCEPT !.sem["rcv"] = v.sem["rcv"] - 1] OBVIOUS
  <2>3. w = at(u, t, "rea_chr") BY <1>5, <2>2 DEF wai_sem, granted
  <2>4. u.sem = [v.sem EXCEPT !["rcv"] = 0] /\ u.tsk = v.tsk BY <2>1, <2>2 DEF Shape, Fields
  <2>5. Others(v, u) /\ u.errorflag = v.errorflag BY <2>2 DEF Shape, Fields, Others
  <2>6. u.sem.rcv = 0 /\ u.sem.snd = v.sem.snd /\ DOMAIN u.sem = {"snd", "rcv"}
    BY <2>4 DEF Shape
  <2>7. Shape(u) BY <2>4, <2>5, <2>6 DEF Shape, Others
  <2>8. /\ Shape(w) /\ Others(u, w) /\ w.errorflag = u.errorflag /\ w.sem = u.sem
        /\ SndH(w.tsk) = SndH(v.tsk) /\ RcvH(w.tsk) = RcvH(v.tsk) \cup {t}
    BY <1>4, <2>3, <2>4, <2>7
  <2>9. Others(v, w) BY <2>5, <2>8 DEF Others
  <2>10. OneOf(w.sem.rcv, RcvH(w.tsk), g) BY <2>1, <2>6, <2>8 DEF OneOf
  <2> QED BY <2>5, <2>6, <2>8, <2>9, <2>10
<1>6. CASE ~(v.sem.rcv > 0)
  <2>1. w = at(v, t, "blk_rcv") BY <1>6 DEF wai_sem, waiting
  <2>2. /\ Shape(w) /\ Others(v, w) /\ w.errorflag = v.errorflag /\ w.sem = v.sem
        /\ SndH(w.tsk) = SndH(v.tsk) /\ RcvH(w.tsk) = RcvH(v.tsk)
    BY <1>4, <2>1
  <2> QED BY <2>2
<1> QED BY <1>5, <1>6
-----------------------------------------------------------------------------
(***************************************************************************)
(* The steps of the tasks.                                                 *)
(***************************************************************************)
LEMMA Finish ==
  ASSUME NEW v, NEW w, SerialInv(v), v.openflag, Shape(w), Others(v, w),
         w.errorflag = v.errorflag,
         OneOf(w.sem.snd, SndH(w.tsk), v.snd.count = SndBufsz),
         OneOf(w.sem.rcv, RcvH(w.tsk), v.rcv.count = 0)
  PROVE  SerialStep(v, w)
<1>1. SndStep(v, w) BY DEF SndStep, Others
<1>2. RcvStep(v, w) BY DEF RcvStep, Others
<1>3. OpenInv(w) BY DEF OpenInv, Others, SerialInv
<1>4. ClosedInv(w) BY DEF ClosedInv, Others
<1>5. StopInv(w) BY DEF StopInv, Others, SerialInv
<1> QED BY <1>1, <1>2, <1>3, <1>4, <1>5 DEF SerialStep

(* A task inside the driver, and what is known of the resources then. *)
LEMMA InDriver ==
  ASSUME NEW v, SerialInv(v), NEW t \in User, v.tsk[t].pc # "idle"
  PROVE  /\ v.openflag /\ Shape(v) /\ TaskOK(v.tsk[t])
         /\ OneOf(v.sem.snd, SndH(v.tsk), v.snd.count = SndBufsz)
         /\ OneOf(v.sem.rcv, RcvH(v.tsk), v.rcv.count = 0)
  BY DEF SerialInv, ClosedInv, OpenInv, Shape, Tasks

(* A step that changes one task and no resource. *)
LEMMA Plain ==
  ASSUME NEW v, NEW w, SerialInv(v), v.openflag, NEW t \in User, NEW j,
         Others(v, w), w.sem = v.sem, w.errorflag = v.errorflag, Changed(v.tsk, t, j, w.tsk),
         TaskOK(j), HasSnd(j) <=> HasSnd(v.tsk[t]), HasRcv(j) <=> HasRcv(v.tsk[t])
  PROVE  SerialStep(v, w)
<1>1. Tasks(v.tsk) BY DEF SerialInv, Shape
<1>2. /\ Tasks(w.tsk)
      /\ SndH(w.tsk) = IF HasSnd(j) THEN SndH(v.tsk) \cup {t} ELSE SndH(v.tsk) \ {t}
      /\ RcvH(w.tsk) = IF HasRcv(j) THEN RcvH(v.tsk) \cup {t} ELSE RcvH(v.tsk) \ {t}
  BY <1>1, Holders, SMTT(60)
<1>3. SndH(w.tsk) = SndH(v.tsk) BY <1>2 DEF SndH
<1>4. RcvH(w.tsk) = RcvH(v.tsk) BY <1>2 DEF RcvH
<1>5. Shape(w) BY <1>2 DEF Shape, Others, SerialInv
<1>6. /\ OneOf(v.sem.snd, SndH(v.tsk), v.snd.count = SndBufsz)
      /\ OneOf(v.sem.rcv, RcvH(v.tsk), v.rcv.count = 0)
  BY DEF SerialInv, OpenInv
<1> QED BY <1>3, <1>4, <1>5, <1>6, Finish

(* The call of twai_sem in serial_wri_dat and serial_rea_dat preserves the *)
(* invariant.                                                              *)
LEMMA WaitSemStep ==
  ASSUME SerialInv(s), NEW t \in User, wait_sem(t)
  PROVE  SerialStep(s, s')
<1>0. s.tsk[t].pc # "idle" BY DEF wait_sem
<1>1. /\ s.openflag /\ Shape(s)
      /\ OneOf(s.sem.snd, SndH(s.tsk), s.snd.count = SndBufsz)
      /\ OneOf(s.sem.rcv, RcvH(s.tsk), s.rcv.count = 0)
  BY <1>0, InDriver
<1>2. PICK g \in BOOLEAN : g = (s.snd.count = SndBufsz) OBVIOUS
<1>3. PICK f \in BOOLEAN : f = (s.rcv.count = 0) OBVIOUS
<1>4. PICK w : w = s' OBVIOUS
<1>5. CASE s.tsk[t].pc = "wait_snd" /\ s' = wai_sem(s, t, "snd")
  <2>1. /\ Shape(w) /\ Others(s, w) /\ w.errorflag = s.errorflag /\ w.sem.rcv = s.sem.rcv
        /\ RcvH(w.tsk) = RcvH(s.tsk) /\ OneOf(w.sem.snd, SndH(w.tsk), g)
    <3>1. OneOf(s.sem.snd, SndH(s.tsk), g) BY <1>1, <1>2
    <3>2. s.tsk[t].pc \in {"wait_snd", "echo"} /\ w = wai_sem(s, t, "snd") BY <1>4, <1>5
    <3> QED BY <1>1, <3>1, <3>2, WaiSnd
  <2> QED BY <1>1, <1>2, <1>4, <2>1, Finish
<1>6. CASE s.tsk[t].pc = "wait_rcv" /\ s' = wai_sem(s, t, "rcv")
  <2>1. /\ Shape(w) /\ Others(s, w) /\ w.errorflag = s.errorflag /\ w.sem.snd = s.sem.snd
        /\ SndH(w.tsk) = SndH(s.tsk) /\ OneOf(w.sem.rcv, RcvH(w.tsk), f)
    <3>1. OneOf(s.sem.rcv, RcvH(s.tsk), f) BY <1>1, <1>3
    <3>2. s.tsk[t].pc = "wait_rcv" /\ w = wai_sem(s, t, "rcv") BY <1>4, <1>6
    <3> QED BY <1>1, <3>1, <3>2, WaiRcv
  <2> QED BY <1>1, <1>3, <1>4, <2>1, Finish
<1> QED BY <1>5, <1>6 DEF wait_sem

(* The call of sig_sem at the end of a critical part preserves the         *)
(* invariant.                                                              *)
LEMMA SignalSemStep ==
  ASSUME SerialInv(s), NEW t \in User, signal_sem(t)
  PROVE  SerialStep(s, s')
<1>0. s.tsk[t].pc # "idle" BY DEF signal_sem
<1>1. /\ s.openflag /\ Shape(s) /\ TaskOK(s.tsk[t])
      /\ OneOf(s.sem.snd, SndH(s.tsk), s.snd.count = SndBufsz)
      /\ OneOf(s.sem.rcv, RcvH(s.tsk), s.rcv.count = 0)
  BY <1>0, InDriver
<1>2. PICK k, w : k = s.tsk[t] /\ w = s' OBVIOUS
<1>3. CASE /\ s.tsk[t].pc = "sig_snd"
           /\ s' = IF E_QOVR(s, "snd") THEN return(sig_sem(s, "snd"), t)
                   ELSE end_wri(sig_sem(s, "snd"), t)
  <2>1. HasSnd(k) /\ (HasRcv(k) <=> k.reading /\ ~k.empty) BY <1>2, <1>3 DEF HasSnd, HasRcv
  <2>2. SndH(s.tsk) = {t} /\ s.sem.snd = 0 /\ s.snd.count # SndBufsz
    <3>1. t \in SndH(s.tsk) BY <1>2, <2>1 DEF SndH
    <3> QED BY <1>1, <3>1 DEF OneOf
  <2>3. PICK u : u = sig_sem(s, "snd") OBVIOUS
  <2>4. /\ Shape(u) /\ Others(s, u) /\ u.errorflag = s.errorflag /\ u.sem.rcv = s.sem.rcv
        /\ RcvH(u.tsk) = RcvH(s.tsk)
        /\ \A y \in User : s.tsk[y].pc # "blk_snd" => u.tsk[y] = s.tsk[y]
        /\ \/ u.sem.snd = 1 /\ SndH(u.tsk) = SndH(s.tsk)
           \/ /\ u.sem.snd = 0
              /\ \E y \in User \ SndH(s.tsk) : SndH(u.tsk) = SndH(s.tsk) \cup {y}
    BY <1>1, <2>2, <2>3, GiveSnd, ZenonT(60)
  <2>5. u.tsk[t] = k BY <1>2, <1>3, <2>4
  <2>6. w = end_wri(u, t)
    <3>1. ~E_QOVR(s, "snd")
      <4>1. s.sem["snd"] = 0 BY <2>2
      <4> QED BY <4>1 DEF E_QOVR
    <3> QED BY <1>2, <1>3, <2>3, <3>1
  <2>7. /\ Others(u, w) /\ w.sem = u.sem /\ w.errorflag = u.errorflag
        /\ \E j : GoesOn(k, j) /\ w.tsk = [u.tsk EXCEPT ![t] = j]
    BY <2>4, <2>5, <2>6, EndWri
  <2>8. PICK j : GoesOn(k, j) /\ w.tsk = [u.tsk EXCEPT ![t] = j] BY <2>7
  <2>9. /\ Tasks(w.tsk) /\ SndH(w.tsk) = SndH(u.tsk) \ {t}
        /\ RcvH(w.tsk) = IF HasRcv(j) THEN RcvH(u.tsk) \cup {t} ELSE RcvH(u.tsk) \ {t}
    <3>1. Changed(u.tsk, t, j, w.tsk) BY <2>8 DEF Changed
    <3>2. TaskOK(j) /\ ~HasSnd(j) BY <2>8 DEF GoesOn
    <3>3. Tasks(u.tsk) BY <2>4 DEF Shape
    <3>4. /\ Tasks(w.tsk)
          /\ SndH(w.tsk) = IF HasSnd(j) THEN SndH(u.tsk) \cup {t} ELSE SndH(u.tsk) \ {t}
          /\ RcvH(w.tsk) = IF HasRcv(j) THEN RcvH(u.tsk) \cup {t} ELSE RcvH(u.tsk) \ {t}
      BY <3>1, <3>2, <3>3, Holders, Zenon
    <3> QED BY <3>2, <3>4
  <2>10. RcvH(w.tsk) = RcvH(s.tsk)
    <3>1. HasRcv(j) <=> HasRcv(k) BY <2>1, <2>8 DEF GoesOn
    <3>2. RcvH(w.tsk) = RcvH(u.tsk) BY <2>5, <2>9, <3>1 DEF RcvH
    <3> QED BY <2>4, <3>2
  <2>11. OneOf(w.sem.snd, SndH(w.tsk), FALSE)
    BY <2>2, <2>4, <2>7, <2>9 DEF OneOf
  <2>12. Shape(w) BY <2>4, <2>7, <2>9 DEF Shape, Others
  <2>13. Others(s, w) /\ w.errorflag = s.errorflag BY <2>4, <2>7 DEF Others
  <2>14. OneOf(w.sem.snd, SndH(w.tsk), s.snd.count = SndBufsz) BY <2>2, <2>11 DEF OneOf
  <2>15. OneOf(w.sem.rcv, RcvH(w.tsk), s.rcv.count = 0) BY <1>1, <2>4, <2>7, <2>10
  <2> QED BY <1>1, <1>2, <2>12, <2>13, <2>14, <2>15, Finish
<1>4. CASE s.tsk[t].pc = "sig_rcv" /\ s' = return(sig_sem(s, "rcv"), t)
  <2>1. HasRcv(k) /\ ~HasSnd(k) BY <1>2, <1>4 DEF HasSnd, HasRcv
  <2>2. RcvH(s.tsk) = {t} /\ s.sem.rcv = 0 /\ s.rcv.count # 0
    <3>1. t \in RcvH(s.tsk) BY <1>2, <2>1 DEF RcvH
    <3> QED BY <1>1, <3>1 DEF OneOf
  <2>3. PICK u : u = sig_sem(s, "rcv") OBVIOUS
  <2>4. /\ Shape(u) /\ Others(s, u) /\ u.errorflag = s.errorflag /\ u.sem.snd = s.sem.snd
        /\ SndH(u.tsk) = SndH(s.tsk)
        /\ \A y \in User : s.tsk[y].pc # "blk_rcv" => u.tsk[y] = s.tsk[y]
        /\ \/ u.sem.rcv = 1 /\ RcvH(u.tsk) = RcvH(s.tsk)
           \/ /\ u.sem.rcv = 0
              /\ \E y \in User \ RcvH(s.tsk) : RcvH(u.tsk) = RcvH(s.tsk) \cup {y}
    BY <1>1, <2>2, <2>3, GiveRcv
  <2>5. u.tsk[t] = k BY <1>2, <1>4, <2>4
  <2>6. w = return(u, t) BY <1>2, <1>4, <2>3
  <2>7. /\ Others(u, w) /\ w.sem = u.sem /\ w.errorflag = u.errorflag
        /\ w.tsk = [u.tsk EXCEPT ![t] = Idle]
    BY <2>4, <2>6, ReturnStep
  <2>9. /\ Tasks(w.tsk) /\ SndH(w.tsk) = SndH(u.tsk) \ {t} /\ RcvH(w.tsk) = RcvH(u.tsk) \ {t}
    <3>1. Changed(u.tsk, t, Idle, w.tsk) BY <2>7 DEF Changed
    <3>3. Tasks(u.tsk) BY <2>4 DEF Shape
    <3>4. /\ Tasks(w.tsk)
          /\ SndH(w.tsk) = IF HasSnd(Idle) THEN SndH(u.tsk) \cup {t} ELSE SndH(u.tsk) \ {t}
          /\ RcvH(w.tsk) = IF HasRcv(Idle) THEN RcvH(u.tsk) \cup {t} ELSE RcvH(u.tsk) \ {t}
      BY <3>1, <3>3, IdleOK, Holders
    <3> QED BY <3>4, IdleOK
  <2>10. SndH(w.tsk) = SndH(s.tsk)
    <3>2. SndH(w.tsk) = SndH(u.tsk) BY <2>1, <2>5, <2>9 DEF SndH
    <3> QED BY <2>4, <3>2
  <2>11. OneOf(w.sem.rcv, RcvH(w.tsk), FALSE)
    BY <2>2, <2>4, <2>7, <2>9 DEF OneOf
  <2>12. Shape(w) BY <2>4, <2>7, <2>9 DEF Shape, Others
  <2>13. Others(s, w) /\ w.errorflag = s.errorflag BY <2>4, <2>7 DEF Others
  <2>14. OneOf(w.sem.rcv, RcvH(w.tsk), s.rcv.count = 0) BY <2>2, <2>11 DEF OneOf
  <2>15. OneOf(w.sem.snd, SndH(w.tsk), s.snd.count = SndBufsz) BY <1>1, <2>4, <2>7, <2>10
  <2> QED BY <1>1, <1>2, <2>12, <2>13, <2>14, <2>15, Finish
<1> QED BY <1>3, <1>4 DEF signal_sem

(* A task that is released from its wait takes no resource with it. *)
LEMMA RelWaiStep ==
  ASSUME SerialInv(s), NEW t \in User, rel_wai(t)
  PROVE  SerialStep(s, s')
<1>0. s.tsk[t].pc # "idle" BY DEF rel_wai
<1>1. s.openflag /\ Shape(s) /\ TaskOK(s.tsk[t]) BY <1>0, InDriver
<1>2. ~HasSnd(s.tsk[t]) /\ ~HasRcv(s.tsk[t]) BY <1>1 DEF HasSnd, HasRcv, rel_wai
<1>3. PICK w : w = s' OBVIOUS
<1>4. /\ Others(s, w) /\ w.sem = s.sem /\ w.errorflag = s.errorflag
      /\ w.tsk = [s.tsk EXCEPT ![t] = Idle]
  BY <1>1, <1>3, ReturnStep DEF rel_wai
<1>5. Changed(s.tsk, t, Idle, w.tsk) BY <1>4 DEF Changed
<1> QED BY <1>1, <1>2, <1>3, <1>4, <1>5, IdleOK, Plain

(* A call that enters the driver waits for its semaphore first and holds   *)
(* nothing.                                                                *)
LEMMA StartStep ==
  ASSUME NEW v, NEW w, SerialInv(v), v.openflag, NEW t \in User, v.tsk[t].pc = "idle", NEW j,
         TaskOK(j), j.pc \in {"wait_snd", "wait_rcv"}, j.empty, w = [v EXCEPT !.tsk[t] = j]
  PROVE  SerialStep(v, w)
<1>1. TaskOK(v.tsk[t]) BY DEF SerialInv, Shape, Tasks
<1>2. ~HasSnd(v.tsk[t]) /\ ~HasRcv(v.tsk[t]) BY <1>1 DEF HasSnd, HasRcv, TaskOK
<1>3. ~HasSnd(j) /\ ~HasRcv(j) BY DEF HasSnd, HasRcv
<1>4. /\ Others(v, w) /\ w.sem = v.sem /\ w.errorflag = v.errorflag
      /\ w.tsk = [v.tsk EXCEPT ![t] = j]
  BY DEF SerialInv, Shape, Fields, Others
<1>5. Changed(v.tsk, t, j, w.tsk) BY <1>4 DEF Changed
<1> QED BY <1>2, <1>3, <1>4, <1>5, Plain

(* The start of serial_wri_dat preserves the invariant. *)
LEMMA WriDatStart ==
  ASSUME SerialInv(s), NEW t \in User, s.openflag, s.tsk[t].pc = "idle", NEW buf,
         s' = serial_wri_dat_start(s, t, buf)
  PROVE  SerialStep(s, s')
<1>1. PICK j : j = [Idle EXCEPT !.pc = "wait_snd", !.buf = buf] OBVIOUS
<1>2. TaskOK(j) /\ j.pc = "wait_snd" /\ j.empty BY <1>1 DEF TaskOK, Idle, Pcs
<1>3. s' = [s EXCEPT !.tsk[t] = j] BY <1>1 DEF serial_wri_dat_start
<1> QED BY <1>2, <1>3, StartStep

(* The start of serial_rea_dat preserves the invariant. *)
LEMMA ReaDatStep ==
  ASSUME SerialInv(s), NEW t \in User, NEW n, serial_rea_dat(t, n)
  PROVE  SerialStep(s, s')
<1>1. PICK j : j = [Idle EXCEPT !.pc = "wait_rcv", !.reading = TRUE, !.need = n] OBVIOUS
<1>2. TaskOK(j) /\ j.pc = "wait_rcv" /\ j.empty BY <1>1 DEF TaskOK, Idle, Pcs
<1>3. s' = [s EXCEPT !.tsk[t] = j] BY <1>1 DEF serial_rea_dat
<1> QED BY <1>2, <1>3, StartStep DEF serial_rea_dat

(* A character goes to the device, or its callback is enabled. *)
DevOnly(v, w) ==
  /\ DOMAIN w = DOMAIN v
  /\ w.openflag = v.openflag /\ w.errorflag = v.errorflag /\ w.ioctl = v.ioctl
  /\ w.rcv = v.rcv /\ w.fc = v.fc /\ w.rcv_stopped = v.rcv_stopped
  /\ w.snd = v.snd /\ w.snd_stopped = v.snd_stopped /\ w.sem = v.sem /\ w.tsk = v.tsk
  /\ w.got = v.got
  /\ DOMAIN w.dev = DOMAIN v.dev /\ w.dev.irq = v.dev.irq /\ w.dev.tdfe \in BOOLEAN

(* sio_snd_chr touches the device only, and sends exactly if it is ready. *)
LEMMA SioSnd ==
  ASSUME NEW v, Shape(v), NEW c, NEW w, w = sio_snd_chr(v, c)
  PROVE  DevOnly(v, w) /\ w.sent = IF v.dev.tdfe THEN c ELSE v.sent
<1>1. CASE v.dev.tdfe
  <2>1. PICK u : u = [v EXCEPT !.dev.tdfe = FALSE] OBVIOUS
  <2>2. DevOnly(v, u) BY <2>1 DEF DevOnly, Shape, Fields
  <2>3. w = emit(u, c) BY <1>1, <2>1 DEF sio_snd_chr
  <2>4. DOMAIN u = Fields BY <2>2 DEF DevOnly, Shape
  <2>5. DevOnly(u, w) /\ w.sent = c BY <2>2, <2>3, <2>4 DEF emit, DevOnly, Fields
  <2> QED BY <1>1, <2>2, <2>5 DEF DevOnly
<1>2. CASE ~v.dev.tdfe
  <2>1. w = v BY <1>2 DEF sio_snd_chr
  <2> QED BY <1>2, <2>1 DEF DevOnly, Shape
<1> QED BY <1>1, <1>2

(* So does serial_snd_chr, which enables the callback otherwise. *)
LEMMA SerialSnd ==
  ASSUME NEW v, Shape(v), NEW c, NEW w, w = serial_snd_chr(v, c)
  PROVE  DevOnly(v, w) /\ w.sent = IF v.dev.tdfe THEN c ELSE v.sent
<1>1. CASE v.dev.tdfe
  BY <1>1, SioSnd DEF serial_snd_chr
<1>2. CASE ~v.dev.tdfe
  <2>1. w = [v EXCEPT !.dev.tie = TRUE] BY <1>2 DEF serial_snd_chr
  <2>2. DevOnly(v, w) BY <2>1 DEF DevOnly, Shape, Fields
  <2>3. w.sent = v.sent BY <2>1 DEF Shape, Fields
  <2> QED BY <1>2, <2>2, <2>3
<1> QED BY <1>1, <1>2

(* The step also may change snd, or rcv, and no other part of the driver   *)
(* than those and the device.                                              *)
SndOnly(v, w) ==
  /\ DOMAIN w = DOMAIN v
  /\ w.openflag = v.openflag /\ w.errorflag = v.errorflag /\ w.ioctl = v.ioctl
  /\ w.rcv = v.rcv /\ w.fc = v.fc /\ w.rcv_stopped = v.rcv_stopped
  /\ w.snd_stopped = v.snd_stopped /\ w.sem = v.sem /\ w.tsk = v.tsk /\ w.got = v.got
  /\ DOMAIN w.dev = DOMAIN v.dev /\ w.dev.irq = v.dev.irq /\ w.dev.tdfe \in BOOLEAN

(* A character goes to the device only past an empty buffer, otherwise     *)
(* into the buffer.                                                        *)
LEMMA WriChrBody ==
  ASSUME NEW v, Shape(v), NEW c, NEW w, w = wri_chr_body(v, c)
  PROVE  /\ SndOnly(v, w)
         /\ \/ w.snd = v.snd /\ v.snd.count = 0
            \/ w.snd = ring_put(v.snd, c, SndBufsz) /\ w.sent = v.sent
<1>1. PICK a : a = IF may_send(v) THEN serial_snd_chr(v, c) ELSE v OBVIOUS
<1>2. DevOnly(v, a) /\ (~v.dev.tdfe \/ ~may_send(v) => a.sent = v.sent)
  <2>1. CASE may_send(v)
    BY <1>1, <2>1, SerialSnd
  <2>2. CASE ~may_send(v)
    BY <1>1, <2>2 DEF DevOnly, Shape
  <2> QED BY <2>1, <2>2
<1>3. CASE may_send(v) /\ v.dev.tdfe
  <2>1. w = a BY <1>1, <1>3 DEF wri_chr_body
  <2>2. v.snd.count = 0 BY <1>3 DEF may_send
  <2> QED BY <1>2, <2>1, <2>2 DEF DevOnly, SndOnly
<1>4. CASE ~(may_send(v) /\ v.dev.tdfe)
  <2>1. w = [a EXCEPT !.snd = ring_put(v.snd, c, SndBufsz)] BY <1>1, <1>4 DEF wri_chr_body
  <2>2. DOMAIN a = Fields BY <1>2 DEF DevOnly, Shape
  <2>3. SndOnly(a, w) /\ w.snd = ring_put(v.snd, c, SndBufsz) /\ w.sent = a.sent
    BY <1>2, <2>1, <2>2 DEF SndOnly, Fields, DevOnly
  <2> QED BY <1>2, <1>4, <2>3 DEF SndOnly, DevOnly
<1> QED BY <1>3, <1>4

(* serial_wri_chr preserves the invariant; it gives the resource back      *)
(* unless it filled the buffer.                                            *)
LEMMA WriChrStep ==
  ASSUME SerialInv(s), NEW t \in User, serial_wri_chr(t)
  PROVE  SerialStep(s, s')
<1> USE SerialAssumption
<1>0. s.tsk[t].pc = "wri_chr" BY DEF serial_wri_chr
<1>1. /\ s.openflag /\ Shape(s) /\ TaskOK(s.tsk[t])
      /\ OneOf(s.sem.snd, SndH(s.tsk), s.snd.count = SndBufsz)
      /\ OneOf(s.sem.rcv, RcvH(s.tsk), s.rcv.count = 0)
  BY <1>0, InDriver
<1>2. PICK k, w : k = s.tsk[t] /\ w = s' OBVIOUS
<1>3. HasSnd(k) /\ (HasRcv(k) <=> k.reading /\ ~k.empty) BY <1>0, <1>2 DEF HasSnd, HasRcv
<1>4. RingOK(s.snd, SndBufsz) BY DEF SerialInv, Rings
<1>5. SndH(s.tsk) = {t} /\ s.sem.snd = 0 /\ s.snd.count < SndBufsz
  <2>1. t \in SndH(s.tsk) BY <1>2, <1>3 DEF SndH
  <2>2. SndH(s.tsk) = {t} /\ s.sem.snd = 0 /\ s.snd.count # SndBufsz BY <1>1, <2>1 DEF OneOf
  <2> QED BY <1>4, <2>2 DEF RingOK
<1> DEFINE out == IF s.tsk[t].out = <<>> THEN crlf(s, Head(s.tsk[t].buf)) ELSE s.tsk[t].out
           rest == IF s.tsk[t].out = <<>> THEN Tail(s.tsk[t].buf) ELSE s.tsk[t].buf
           b == wri_chr_body(s, Head(out))
           full == b.snd.count > s.snd.count /\ b.snd.count = SndBufsz
           a == [b EXCEPT !.tsk[t].out = Tail(out), !.tsk[t].buf = rest]
<1>7. b = wri_chr_body(s, Head(out)) OBVIOUS
<1>8. full <=> (b.snd.count > s.snd.count /\ b.snd.count = SndBufsz) OBVIOUS
<1>9. a = [b EXCEPT !.tsk[t].out = Tail(out), !.tsk[t].buf = rest] OBVIOUS
<1>10. w = IF Tail(out) # <<>> \/ rest # <<>>
           THEN at(a, t, IF full THEN "wait_snd" ELSE "wri_chr")
           ELSE IF full THEN end_wri(a, t) ELSE at(a, t, "sig_snd")
  BY <1>2, Zenon DEF serial_wri_chr
<1> HIDE DEF out, rest, b, full, a
<1>11. /\ SndOnly(s, b)
       /\ \/ b.snd = s.snd /\ s.snd.count = 0
          \/ b.snd = ring_put(s.snd, Head(out), SndBufsz) /\ b.sent = s.sent
  BY <1>1, <1>7, WriChrBody
<1>12. PICK k1 : k1 = [k EXCEPT !.out = Tail(out), !.buf = rest] OBVIOUS
<1>13. /\ DOMAIN k1 = DOMAIN k /\ k1.pc = k.pc /\ k1.reading = k.reading /\ k1.empty = k.empty
  BY <1>1, <1>2, <1>12 DEF TaskOK
<1>14. TaskOK(k1) BY <1>1, <1>2, <1>13 DEF TaskOK
<1>15. a.tsk = [s.tsk EXCEPT ![t] = k1]
  <2>1. b.tsk = s.tsk /\ DOMAIN b = Fields /\ DOMAIN s.tsk = User
    BY <1>1, <1>11 DEF SndOnly, Shape, Tasks
  <2> QED BY <1>2, <1>9, <1>12, <2>1 DEF Fields
<1>16. Others(b, a) /\ a.sem = b.sem /\ a.errorflag = b.errorflag
  <2>1. DOMAIN b = Fields BY <1>1, <1>11 DEF SndOnly, Shape
  <2> QED BY <1>9, <2>1 DEF Others, Fields
<1>17. Tasks(a.tsk) /\ a.tsk[t] = k1
  BY <1>1, <1>14, <1>15 DEF Shape, Tasks
<1>18. Shape(a)
  BY <1>1, <1>11, <1>16, <1>17 DEF Shape, SndOnly, Others
<1>19. /\ Others(a, w) /\ w.sem = a.sem /\ w.errorflag = a.errorflag
       /\ \E j : /\ w.tsk = [a.tsk EXCEPT ![t] = j]
                 /\ TaskOK(j) /\ (HasSnd(j) <=> ~full) /\ (HasRcv(j) <=> HasRcv(k))
  <2>1. ASSUME NEW pc, w = at(a, t, pc), pc \in IF full THEN {"wait_snd"} ELSE {"wri_chr", "sig_snd"}
        PROVE  /\ Others(a, w) /\ w.sem = a.sem /\ w.errorflag = a.errorflag
               /\ \E j : /\ w.tsk = [a.tsk EXCEPT ![t] = j]
                         /\ TaskOK(j) /\ (HasSnd(j) <=> ~full) /\ (HasRcv(j) <=> HasRcv(k))
    <3>1. PICK j : j = [k1 EXCEPT !.pc = pc] OBVIOUS
    <3>2. j.pc = pc /\ j.reading = k1.reading /\ j.empty = k1.empty /\ DOMAIN j = DOMAIN k1
      BY <1>14, <3>1, Moved
    <3>3. TaskOK(j) /\ (HasSnd(j) <=> ~full) /\ (HasRcv(j) <=> HasRcv(k))
      BY <1>0, <1>2, <1>3, <1>13, <1>14, <2>1, <3>2 DEF TaskOK, HasSnd, HasRcv, Pcs
    <3>4. /\ Others(a, w) /\ w.sem = a.sem /\ w.errorflag = a.errorflag
          /\ w.tsk = [a.tsk EXCEPT ![t] = [a.tsk[t] EXCEPT !.pc = pc]]
      BY <1>18, <2>1, AtStep
    <3> QED BY <1>17, <3>1, <3>3, <3>4
  <2>2. CASE w = end_wri(a, t) /\ full
    <3>1. /\ Others(a, w) /\ w.sem = a.sem /\ w.errorflag = a.errorflag
          /\ \E j : GoesOn(a.tsk[t], j) /\ w.tsk = [a.tsk EXCEPT ![t] = j]
      BY <1>18, <2>2, EndWri
    <3>2. PICK j : GoesOn(k1, j) /\ w.tsk = [a.tsk EXCEPT ![t] = j] BY <1>17, <3>1
    <3>3. TaskOK(j) /\ (HasSnd(j) <=> ~full) /\ (HasRcv(j) <=> HasRcv(k))
      BY <1>3, <1>13, <2>2, <3>2 DEF GoesOn
    <3> QED BY <3>1, <3>2, <3>3
  <2>3. \/ w = at(a, t, "wait_snd") /\ full
        \/ w = at(a, t, "wri_chr") /\ ~full
        \/ w = end_wri(a, t) /\ full
        \/ w = at(a, t, "sig_snd") /\ ~full
    BY <1>10
  <2>4. CASE w = at(a, t, "wait_snd") /\ full BY <2>1, <2>4
  <2>5. CASE w = at(a, t, "wri_chr") /\ ~full BY <2>1, <2>5
  <2>6. CASE w = at(a, t, "sig_snd") /\ ~full BY <2>1, <2>6
  <2> QED BY <2>2, <2>3, <2>4, <2>5, <2>6
<1>20. PICK j : /\ w.tsk = [a.tsk EXCEPT ![t] = j]
                /\ TaskOK(j) /\ (HasSnd(j) <=> ~full) /\ (HasRcv(j) <=> HasRcv(k))
  BY <1>19
<1>21. Changed(s.tsk, t, j, w.tsk)
  BY <1>1, <1>15, <1>20 DEF Changed, Shape, Tasks
<1>22. /\ Tasks(w.tsk)
       /\ SndH(w.tsk) = IF HasSnd(j) THEN SndH(s.tsk) \cup {t} ELSE SndH(s.tsk) \ {t}
       /\ RcvH(w.tsk) = IF HasRcv(j) THEN RcvH(s.tsk) \cup {t} ELSE RcvH(s.tsk) \ {t}
  <2>1. Tasks(s.tsk) BY <1>1 DEF Shape
  <2>2. TaskOK(j) BY <1>20
  <2>3. After(s.tsk, t, j, w.tsk) BY <1>21, <2>1, <2>2, HoldersAfter
  <2> QED BY <2>3 DEF After
<1>23. SndH(w.tsk) = IF full THEN {} ELSE {t} BY <1>5, <1>20, <1>22
<1>24. RcvH(w.tsk) = RcvH(s.tsk) BY <1>2, <1>20, <1>22 DEF RcvH
<1>25. Shape(w) BY <1>18, <1>19, <1>22 DEF Shape, Others
<1>26. /\ w.openflag /\ w.errorflag = s.errorflag /\ w.sem = s.sem /\ w.rcv = s.rcv
       /\ w.got = s.got /\ w.rcv_stopped = s.rcv_stopped /\ w.snd = b.snd /\ w.sent = b.sent
  BY <1>1, <1>11, <1>16, <1>19 DEF Others, SndOnly
<1>27. SndStep(s, w)
  BY <1>1, <1>5, <1>11, <1>26 DEF SndStep
<1>28. w.snd.count \in 0 .. SndBufsz /\ (full <=> w.snd.count = SndBufsz)
  <2>1. CASE b.snd = s.snd /\ s.snd.count = 0
    BY <1>4, <1>5, <1>8, <1>26, <2>1 DEF RingOK
  <2>2. CASE b.snd = ring_put(s.snd, Head(out), SndBufsz)
    <3>1. b.snd.count = s.snd.count + 1
      BY <1>4, <2>2 DEF ring_put, RingOK
    <3> QED BY <1>4, <1>5, <1>8, <1>26, <3>1 DEF RingOK
  <2> QED BY <1>11, <2>1, <2>2
<1>29. OneOf(w.sem.snd, SndH(w.tsk), w.snd.count = SndBufsz)
  BY <1>5, <1>23, <1>26, <1>28 DEF OneOf
<1>30. OneOf(w.sem.rcv, RcvH(w.tsk), w.rcv.count = 0)
  BY <1>1, <1>24, <1>26
<1>31. OpenInv(w) BY <1>1, <1>26, <1>29, <1>30 DEF OpenInv, SerialInv
<1>32. RcvStep(s, w) BY <1>1, <1>26 DEF RcvStep
<1>33. ClosedInv(w) BY <1>26 DEF ClosedInv
<1>34. StopInv(w) BY <1>1, <1>26 DEF StopInv, SerialInv
<1> QED BY <1>2, <1>25, <1>27, <1>31, <1>32, <1>33, <1>34 DEF SerialStep

(* Doing nothing is a step of the driver. *)
LEMMA Stutter ==
  ASSUME NEW v, SerialInv(v)
  PROVE  SerialStep(v, v)
  BY DEF SerialInv, SerialStep, SndStep, RcvStep

(* A step with the port open. *)
LEMMA OpenStep ==
  ASSUME NEW v, NEW w, w.openflag, ~w.errorflag, Shape(w), SndStep(v, w), RcvStep(v, w),
         OneOf(w.sem.snd, SndH(w.tsk), w.snd.count = SndBufsz),
         OneOf(w.sem.rcv, RcvH(w.tsk), w.rcv.count = 0),
         w.rcv_stopped => w.rcv.count > BUFCNT_START
  PROVE  SerialStep(v, w)
  BY DEF SerialStep, OpenInv, ClosedInv, StopInv

(* The mark for START is below the mark for STOP. *)
LEMMA Marks == BUFCNT_START \in Int /\ BUFCNT_STOP \in Int /\ BUFCNT_START < BUFCNT_STOP
  BY SerialAssumption DEF BUFCNT_START, BUFCNT_STOP

(* A flow control character is sent, or left for the callback. *)
Flow(v, c, b, w) ==
  w = [serial_snd_chr(v, c) EXCEPT !.fc = IF v.dev.tdfe THEN @ ELSE c, !.rcv_stopped = b]

(* Sending START or STOP, at once or later, changes neither the buffers    *)
(* nor the semaphores.                                                     *)
LEMMA FlowControl ==
  ASSUME NEW v, Shape(v), NEW c \in {FC_START, FC_STOP}, NEW b \in BOOLEAN, NEW w,
         Flow(v, c, b, w)
  PROVE  /\ Shape(w) /\ w.rcv_stopped = b
         /\ w.openflag = v.openflag /\ w.errorflag = v.errorflag /\ w.sem = v.sem /\ w.tsk = v.tsk
         /\ w.snd = v.snd /\ w.rcv = v.rcv /\ w.got = v.got
         /\ w.sent = v.sent \/ w.sent \in {FC_START, FC_STOP}
<1>1. PICK a : a = serial_snd_chr(v, c) OBVIOUS
<1>2. DevOnly(v, a) /\ a.sent = IF v.dev.tdfe THEN c ELSE v.sent BY <1>1, SerialSnd
<1>3. DOMAIN a = Fields BY <1>2 DEF DevOnly, Shape
<1>4. w = [a EXCEPT !.fc = IF v.dev.tdfe THEN a.fc ELSE c, !.rcv_stopped = b]
  BY <1>1 DEF Flow
<1>5. /\ DOMAIN w = Fields /\ w.rcv_stopped = b /\ w.fc = IF v.dev.tdfe THEN a.fc ELSE c
      /\ w.openflag = a.openflag /\ w.errorflag = a.errorflag /\ w.sem = a.sem /\ w.tsk = a.tsk
      /\ w.snd = a.snd /\ w.rcv = a.rcv /\ w.got = a.got /\ w.dev = a.dev /\ w.sent = a.sent
  BY <1>3, <1>4 DEF Fields
<1>6. w.fc \in {NUL, FC_START, FC_STOP} BY <1>2, <1>5 DEF DevOnly, Shape
<1>7. Shape(w) BY <1>2, <1>5, <1>6 DEF Shape, DevOnly
<1>8. w.sent = v.sent \/ w.sent \in {FC_START, FC_STOP} BY <1>2, <1>5
<1> QED BY <1>2, <1>5, <1>7, <1>8 DEF DevOnly

(* serial_rea_chr takes the oldest character, sends START when it is due,  *)
(* and preserves the invariant.                                            *)
LEMMA ReaChrStep ==
  ASSUME SerialInv(s), NEW t \in User, serial_rea_chr(t)
  PROVE  SerialStep(s, s')
<1> USE SerialAssumption
<1>0. s.tsk[t].pc = "rea_chr" BY DEF serial_rea_chr
<1>1. /\ s.openflag /\ Shape(s) /\ TaskOK(s.tsk[t])
      /\ OneOf(s.sem.snd, SndH(s.tsk), s.snd.count = SndBufsz)
      /\ OneOf(s.sem.rcv, RcvH(s.tsk), s.rcv.count = 0)
  BY <1>0, InDriver
<1>2. PICK k, w : k = s.tsk[t] /\ w = s' OBVIOUS
<1>3. HasRcv(k) /\ ~HasSnd(k) /\ k.reading BY <1>0, <1>1, <1>2 DEF HasSnd, HasRcv, TaskOK
<1>4. RingOK(s.rcv, RcvBufsz) BY DEF SerialInv, Rings
<1>5. RcvH(s.tsk) = {t} /\ s.sem.rcv = 0 /\ s.rcv.count > 0
  <2>1. t \in RcvH(s.tsk) BY <1>2, <1>3 DEF RcvH
  <2>2. RcvH(s.tsk) = {t} /\ s.sem.rcv = 0 /\ s.rcv.count # 0 BY <1>1, <2>1 DEF OneOf
  <2> QED BY <1>4, <2>2 DEF RingOK
<1> DEFINE c == s.rcv.buf[s.rcv.rd]
           r == ring_get(s.rcv, RcvBufsz)
           j == [s.tsk[t] EXCEPT !.pc = "echo", !.buf = <<c>>, !.need = @ - 1,
                                 !.empty = r.count = 0]
           a == [s EXCEPT !.rcv = r, !.got = c, !.tsk[t] = j]
<1>6. w = IF start_due(s, r)
          THEN [serial_snd_chr(a, FC_START) EXCEPT
                  !.fc = IF s.dev.tdfe THEN @ ELSE FC_START, !.rcv_stopped = FALSE]
          ELSE a
  BY <1>2 DEF serial_rea_chr
<1>7. r = ring_get(s.rcv, RcvBufsz) /\ c = s.rcv.buf[s.rcv.rd] OBVIOUS
<1>8. r.count = s.rcv.count - 1 BY <1>4, <1>5, RingGet
<1>9. PICK e \in BOOLEAN : e = (r.count = 0) OBVIOUS
<1>10. /\ DOMAIN j = DOMAIN k /\ j.pc = "echo" /\ j.reading = k.reading /\ j.empty = (r.count = 0)
  <2> HIDE DEF c, r
  <2> QED BY <1>1, <1>2 DEF TaskOK
<1>11. /\ DOMAIN a = Fields /\ a.tsk = [s.tsk EXCEPT ![t] = j] /\ a.rcv = r /\ a.got = c
       /\ a.openflag = s.openflag /\ a.errorflag = s.errorflag /\ a.sem = s.sem
       /\ a.fc = s.fc /\ a.rcv_stopped = s.rcv_stopped /\ a.snd = s.snd /\ a.dev = s.dev
       /\ a.sent = s.sent
  <2> HIDE DEF c, r, j
  <2> QED BY <1>1 DEF Shape, Fields
<1> HIDE DEF c, r, j, a
<1>12. TaskOK(j) /\ ~HasSnd(j) /\ (HasRcv(j) <=> r.count # 0)
  <2>1. j.empty = e BY <1>9, <1>10
  <2>2. TaskOK(j) BY <1>1, <1>2, <1>3, <1>10, <2>1 DEF TaskOK, Pcs
  <2>3. ~HasSnd(j) /\ (HasRcv(j) <=> ~e) BY <1>3, <1>10, <2>1 DEF HasSnd, HasRcv
  <2> QED BY <1>9, <2>2, <2>3
<1>13. /\ Tasks(a.tsk) /\ SndH(a.tsk) = SndH(s.tsk)
       /\ RcvH(a.tsk) = IF r.count = 0 THEN {} ELSE {t}
  <2>1. Changed(s.tsk, t, j, a.tsk) BY <1>11 DEF Changed
  <2>2. Tasks(s.tsk) BY <1>1 DEF Shape
  <2>3. After(s.tsk, t, j, a.tsk) BY <1>12, <2>1, <2>2, HoldersAfter
  <2>4. SndH(a.tsk) = SndH(s.tsk) BY <1>2, <1>3, <1>12, <2>3 DEF After, SndH
  <2>5. RcvH(a.tsk) = IF r.count = 0 THEN {} ELSE {t} BY <1>5, <1>12, <2>3 DEF After
  <2> QED BY <2>3, <2>4, <2>5 DEF After
<1>14. Shape(a) BY <1>1, <1>11, <1>13 DEF Shape
<1>15. /\ Shape(w) /\ w.openflag = a.openflag /\ w.errorflag = a.errorflag /\ w.sem = a.sem
       /\ w.tsk = a.tsk /\ w.snd = a.snd /\ w.rcv = a.rcv /\ w.got = a.got
       /\ w.sent = a.sent \/ w.sent \in {FC_START, FC_STOP}
       /\ w.rcv_stopped => w.rcv.count > BUFCNT_START
  <2>1. CASE start_due(s, r)
    <3>0. PICK x \in {FC_START, FC_STOP}, f \in BOOLEAN : x = FC_START /\ f = FALSE OBVIOUS
    <3>1. Flow(a, x, f, w)
      BY <1>6, <1>11, <2>1, <3>0 DEF Flow
    <3>2. /\ Shape(w) /\ w.openflag = a.openflag /\ w.errorflag = a.errorflag /\ w.sem = a.sem
          /\ w.tsk = a.tsk /\ w.snd = a.snd /\ w.rcv = a.rcv /\ w.got = a.got
          /\ w.sent = a.sent \/ w.sent \in {FC_START, FC_STOP}
          /\ w.rcv_stopped = f
      BY <1>14, <3>1, FlowControl
    <3> QED BY <3>0, <3>2
  <2>2. CASE ~start_due(s, r)
    <3>1. w = a BY <1>6, <2>2
    <3>2. w.rcv_stopped => w.rcv.count > BUFCNT_START
      BY <1>4, <1>8, <1>11, <2>2, <3>1, Marks DEF start_due, RingOK
    <3> QED BY <1>14, <3>1, <3>2
  <2> QED BY <2>1, <2>2
<1>16. w.openflag /\ ~w.errorflag BY <1>1, <1>11, <1>15 DEF SerialInv, OpenInv
<1>17. SndStep(s, w) BY <1>1, <1>11, <1>15, <1>16 DEF SndStep
<1>18. RcvStep(s, w) BY <1>1, <1>5, <1>7, <1>11, <1>15, <1>16 DEF RcvStep
<1>19. OneOf(w.sem.snd, SndH(w.tsk), w.snd.count = SndBufsz)
  BY <1>1, <1>11, <1>13, <1>15
<1>20. OneOf(w.sem.rcv, RcvH(w.tsk), w.rcv.count = 0)
  BY <1>5, <1>11, <1>13, <1>15 DEF OneOf
<1> QED BY <1>2, <1>15, <1>16, <1>17, <1>18, <1>19, <1>20, OpenStep

(* The echo of a character preserves the invariant. *)
LEMMA EchoStep ==
  ASSUME SerialInv(s), NEW t \in User, echo(t)
  PROVE  SerialStep(s, s')
<1>0. s.tsk[t].pc = "echo" BY DEF echo
<1>1. /\ s.openflag /\ Shape(s) /\ TaskOK(s.tsk[t])
      /\ OneOf(s.sem.snd, SndH(s.tsk), s.snd.count = SndBufsz)
      /\ OneOf(s.sem.rcv, RcvH(s.tsk), s.rcv.count = 0)
  BY <1>0, InDriver
<1>2. PICK k, w : k = s.tsk[t] /\ w = s' OBVIOUS
<1>3. CASE "ECHO" \in s.ioctl
  <2>1. PICK g \in BOOLEAN : g = (s.snd.count = SndBufsz) OBVIOUS
  <2>2. OneOf(s.sem.snd, SndH(s.tsk), g) BY <1>1, <2>1
  <2>3. s.tsk[t].pc \in {"wait_snd", "echo"} /\ w = wai_sem(s, t, "snd")
    BY <1>0, <1>2, <1>3 DEF echo
  <2>4. /\ Shape(w) /\ Others(s, w) /\ w.errorflag = s.errorflag /\ w.sem.rcv = s.sem.rcv
        /\ RcvH(w.tsk) = RcvH(s.tsk) /\ OneOf(w.sem.snd, SndH(w.tsk), g)
    BY <1>1, <2>2, <2>3, WaiSnd
  <2> QED BY <1>1, <1>2, <2>1, <2>4, Finish
<1>4. CASE "ECHO" \notin s.ioctl
  <2>1. PICK u : u = [s EXCEPT !.tsk[t].buf = <<>>] OBVIOUS
  <2>2. w = next_rea(u, t) BY <1>2, <1>4, <2>1 DEF echo
  <2>3. PICK k1 : k1 = [k EXCEPT !.buf = <<>>] OBVIOUS
  <2>4. k1.pc = k.pc /\ k1.reading = k.reading /\ k1.empty = k.empty /\ DOMAIN k1 = DOMAIN k
    BY <1>1, <1>2, <2>3 DEF TaskOK
  <2>5. TaskOK(k1) BY <1>1, <1>2, <2>4 DEF TaskOK
  <2>6. /\ Others(s, u) /\ u.sem = s.sem /\ u.errorflag = s.errorflag
        /\ u.tsk = [s.tsk EXCEPT ![t] = k1]
    BY <1>1, <1>2, <2>1, <2>3 DEF Shape, Fields, Tasks, Others
  <2>7. Tasks(u.tsk) /\ u.tsk[t] = k1 BY <1>1, <2>5, <2>6 DEF Shape, Tasks
  <2>8. Shape(u) BY <1>1, <2>6, <2>7 DEF Shape, Others
  <2>9. k.reading BY <1>0, <1>1, <1>2 DEF TaskOK
  <2>10. /\ Others(u, w) /\ w.sem = u.sem /\ w.errorflag = u.errorflag
         /\ \E j : GoesOn(u.tsk[t], j) /\ w.tsk = [u.tsk EXCEPT ![t] = j]
    <3>1. u.tsk[t].reading BY <2>4, <2>7, <2>9
    <3> QED BY <2>2, <2>8, <3>1, NextRea
  <2>11. PICK j : GoesOn(k1, j) /\ w.tsk = [u.tsk EXCEPT ![t] = j] BY <2>7, <2>10
  <2>12. TaskOK(j) /\ (HasSnd(j) <=> HasSnd(k)) /\ (HasRcv(j) <=> HasRcv(k))
    BY <1>0, <1>2, <2>4, <2>11 DEF GoesOn, HasSnd, HasRcv
  <2>13. Changed(s.tsk, t, j, w.tsk) BY <1>1, <2>6, <2>11 DEF Changed, Shape, Tasks
  <2>14. Others(s, w) /\ w.sem = s.sem /\ w.errorflag = s.errorflag
    BY <2>6, <2>10 DEF Others
  <2> QED BY <1>1, <1>2, <2>12, <2>13, <2>14, Plain
<1> QED BY <1>3, <1>4

(* The steps of a task. *)
LEMMA TaskSteps ==
  ASSUME SerialInv(s), NEW t \in User, Step(t)
  PROVE  SerialStep(s, s')
  BY WaitSemStep, SignalSemStep, WriChrStep, ReaChrStep, EchoStep DEF Step

(* The calls of tasks that write and read preserve the invariant. *)
LEMMA CallSteps ==
  ASSUME SerialInv(s), NEW t \in User, Call(t)
  PROVE  SerialStep(s, s')
<1>1. ASSUME NEW buf \in Texts, serial_wri_dat(t, buf) PROVE SerialStep(s, s')
  BY <1>1, WriDatStart DEF serial_wri_dat
<1> QED BY <1>1, ReaDatStep DEF Call
-----------------------------------------------------------------------------
(***************************************************************************)
(* The callbacks of the device.                                            *)
(***************************************************************************)
(* What a step with the port open starts from. *)
LEMMA OpenPort ==
  ASSUME NEW v, SerialInv(v), v.openflag
  PROVE  /\ Shape(v) /\ RingOK(v.snd, SndBufsz) /\ RingOK(v.rcv, RcvBufsz) /\ ~v.errorflag
         /\ OneOf(v.sem.snd, SndH(v.tsk), v.snd.count = SndBufsz)
         /\ OneOf(v.sem.rcv, RcvH(v.tsk), v.rcv.count = 0)
         /\ v.rcv_stopped => v.rcv.count > BUFCNT_START
  BY DEF SerialInv, OpenInv, Rings, StopInv

(* A step of the device keeps the types. *)
LEMMA DevShape ==
  ASSUME NEW v, Shape(v), NEW w, DevOnly(v, w)
  PROVE  Shape(w)
  BY DEF Shape, DevOnly

(* A step of the device alone. *)
LEMMA DevStep ==
  ASSUME NEW v, SerialInv(v), v.openflag, NEW w, DevOnly(v, w),
         w.sent = v.sent \/ w.sent \in {FC_START, FC_STOP}
  PROVE  SerialStep(v, w)
<1>1. /\ Shape(v) /\ ~v.errorflag
      /\ OneOf(v.sem.snd, SndH(v.tsk), v.snd.count = SndBufsz)
      /\ OneOf(v.sem.rcv, RcvH(v.tsk), v.rcv.count = 0)
      /\ v.rcv_stopped => v.rcv.count > BUFCNT_START
  BY OpenPort
<1>2. Shape(w) BY <1>1, DevShape
<1>3. SndStep(v, w) BY DEF SndStep, DevOnly
<1>4. RcvStep(v, w) BY DEF RcvStep, DevOnly
<1>5. /\ w.openflag /\ ~w.errorflag
      /\ OneOf(w.sem.snd, SndH(w.tsk), w.snd.count = SndBufsz)
      /\ OneOf(w.sem.rcv, RcvH(w.tsk), w.rcv.count = 0)
      /\ w.rcv_stopped => w.rcv.count > BUFCNT_START
  BY <1>1 DEF DevOnly
<1> QED BY <1>2, <1>3, <1>4, <1>5, OpenStep

(* The transmit callback sends the oldest character and gives room to a    *)
(* writer if the buffer was full.                                          *)
LEMMA SndNext ==
  ASSUME NEW v, SerialInv(v), v.openflag, v.dev.tdfe, v.snd.count > 0, NEW w, w = snd_next(v)
  PROVE  SerialStep(v, w)
<1> USE SerialAssumption
<1>1. /\ Shape(v) /\ RingOK(v.snd, SndBufsz) /\ ~v.errorflag
      /\ OneOf(v.sem.snd, SndH(v.tsk), v.snd.count = SndBufsz)
      /\ OneOf(v.sem.rcv, RcvH(v.tsk), v.rcv.count = 0)
      /\ v.rcv_stopped => v.rcv.count > BUFCNT_START
  BY OpenPort
<1>2. PICK c, u : c = v.snd.buf[v.snd.rd] /\ u = sio_snd_chr(v, c) OBVIOUS
<1>3. DevOnly(v, u) /\ u.sent = c BY <1>1, <1>2, SioSnd
<1>4. Shape(u) BY <1>1, <1>3, DevShape
<1>5. PICK a : a = give_room(u) OBVIOUS
<1>6. /\ Shape(a) /\ Others(u, a) /\ a.errorflag = u.errorflag /\ a.sem.rcv = u.sem.rcv
      /\ RcvH(a.tsk) = RcvH(u.tsk) /\ OneOf(a.sem.snd, SndH(a.tsk), FALSE)
  <2>1. CASE v.snd.count = SndBufsz
    <3>1. a = sig_sem(u, "snd") BY <1>3, <1>5, <2>1 DEF give_room, DevOnly
    <3>2. u.sem.snd = 0 /\ SndH(u.tsk) = {} BY <1>1, <1>3, <2>1 DEF OneOf, DevOnly
    <3>3. GaveSnd(u, a) BY <1>4, <3>1, <3>2, GiveRoom
    <3> QED BY <3>3 DEF GaveSnd
  <2>2. CASE v.snd.count # SndBufsz
    <3>1. a = u BY <1>3, <1>5, <2>2 DEF give_room, DevOnly
    <3>2. OneOf(v.sem.snd, SndH(v.tsk), FALSE) BY <1>1, <2>2 DEF OneOf
    <3>3. OneOf(u.sem.snd, SndH(u.tsk), FALSE) BY <1>3, <3>2 DEF DevOnly
    <3> QED BY <1>4, <3>1, <3>3 DEF Others
  <2> QED BY <2>1, <2>2
<1>7. PICK g : g = ring_get(v.snd, SndBufsz) OBVIOUS
<1>8. g.count = v.snd.count - 1 BY <1>1, <1>7, RingGet
<1>9. w = [a EXCEPT !.snd = g] BY <1>2, <1>5, <1>7 DEF snd_next
<1>10. /\ DOMAIN w = Fields /\ w.snd = g /\ w.openflag = a.openflag /\ w.errorflag = a.errorflag
       /\ w.rcv = a.rcv /\ w.fc = a.fc /\ w.rcv_stopped = a.rcv_stopped /\ w.sem = a.sem
       /\ w.dev = a.dev /\ w.sent = a.sent /\ w.got = a.got /\ w.tsk = a.tsk
  <2>1. DOMAIN a = Fields BY <1>6 DEF Shape
  <2> QED BY <1>9, <2>1 DEF Fields
<1>11. Shape(w) BY <1>6, <1>10 DEF Shape
<1>12. /\ w.openflag /\ ~w.errorflag /\ w.rcv = v.rcv /\ w.got = v.got /\ w.sent = c
       /\ w.rcv_stopped = v.rcv_stopped /\ w.sem.rcv = v.sem.rcv /\ RcvH(w.tsk) = RcvH(v.tsk)
  BY <1>1, <1>3, <1>6, <1>10 DEF DevOnly, Others
<1>13. SndStep(v, w) BY <1>2, <1>7, <1>10, <1>12 DEF SndStep
<1>14. RcvStep(v, w) BY <1>12 DEF RcvStep
<1>15. w.snd.count # SndBufsz BY <1>1, <1>8, <1>10 DEF RingOK
<1>16. OneOf(w.sem.snd, SndH(w.tsk), w.snd.count = SndBufsz)
  BY <1>6, <1>10, <1>15 DEF OneOf
<1>17. OneOf(w.sem.rcv, RcvH(w.tsk), w.rcv.count = 0) BY <1>1, <1>12
<1>18. w.rcv_stopped => w.rcv.count > BUFCNT_START BY <1>1, <1>12
<1> QED BY <1>11, <1>12, <1>13, <1>14, <1>16, <1>17, <1>18, OpenStep

(* The transmit callback preserves the invariant. *)
LEMMA IrdySndStep ==
  ASSUME SerialInv(s), sio_irdy_snd
  PROVE  SerialStep(s, s')
<1>1. s.openflag /\ s.dev.tdfe BY DEF sio_irdy_snd, SerialInv, ClosedInv
<1>2. Shape(s) BY DEF SerialInv
<1>3. CASE s.fc # NUL /\ s' = [sio_snd_chr(s, s.fc) EXCEPT !.fc = NUL]
  <2>1. PICK u, w : u = sio_snd_chr(s, s.fc) /\ w = s' OBVIOUS
  <2>2. DevOnly(s, u) /\ u.sent = s.fc BY <1>1, <1>2, <2>1, SioSnd
  <2>3. s.fc \in {FC_START, FC_STOP} BY <1>2, <1>3 DEF Shape
  <2>4. DOMAIN u = Fields BY <1>2, <2>2 DEF DevOnly, Shape
  <2>5. /\ DOMAIN w = Fields /\ w.fc = NUL /\ w.snd = u.snd /\ w.openflag = u.openflag
        /\ w.errorflag = u.errorflag /\ w.rcv = u.rcv /\ w.rcv_stopped = u.rcv_stopped
        /\ w.sem = u.sem /\ w.dev = u.dev /\ w.sent = u.sent /\ w.got = u.got /\ w.tsk = u.tsk
    BY <1>3, <2>1, <2>4 DEF Fields
  <2>6. SerialStep(s, u) BY <1>1, <2>2, <2>3, DevStep
  <2>7. Shape(w) BY <2>5, <2>6 DEF SerialStep, Shape
  <2>8. SndStep(s, w) BY <2>5, <2>6 DEF SerialStep, SndStep
  <2>9. RcvStep(s, w) BY <2>5, <2>6 DEF SerialStep, RcvStep
  <2>10. OpenInv(w) /\ ClosedInv(w) /\ StopInv(w)
    BY <2>5, <2>6 DEF SerialStep, OpenInv, ClosedInv, StopInv
  <2> QED BY <2>1, <2>7, <2>8, <2>9, <2>10 DEF SerialStep
<1>4. CASE s.snd.count > 0 /\ s' = snd_next(s)
  BY <1>1, <1>4, SndNext
<1>5. CASE s' = [s EXCEPT !.dev.tie = FALSE]
  <2>1. DevOnly(s, s') /\ s'.sent = s.sent BY <1>2, <1>5 DEF DevOnly, Shape, Fields
  <2> QED BY <1>1, <2>1, DevStep
<1> QED BY <1>3, <1>4, <1>5 DEF sio_irdy_snd

(* The transmitter preserves the invariant. *)
LEMMA TransmitStep ==
  ASSUME SerialInv(s), scif_transmit
  PROVE  SerialStep(s, s')
<1>1. Shape(s) BY DEF SerialInv
<1>2. s' = [s EXCEPT !.dev.tdfe = TRUE] BY DEF scif_transmit
<1>3. DevOnly(s, s') /\ s'.sent = s.sent BY <1>1, <1>2 DEF DevOnly, Shape, Fields
<1>4. CASE s.openflag BY <1>3, <1>4, DevStep
<1>5. CASE ~s.openflag
  <2>1. Shape(s') BY <1>1, <1>3, DevShape
  <2>2. SndStep(s, s') BY <1>3 DEF SndStep, DevOnly
  <2>3. RcvStep(s, s') BY <1>3 DEF RcvStep, DevOnly
  <2>4. OpenInv(s') /\ ClosedInv(s') /\ StopInv(s')
    BY <1>3, <1>5 DEF SerialInv, OpenInv, ClosedInv, StopInv, DevOnly
  <2> QED BY <2>1, <2>2, <2>3, <2>4 DEF SerialStep
<1> QED BY <1>4, <1>5

(* The receive callback stores a character, sends STOP when it is due, and *)
(* preserves the invariant.                                                *)
LEMMA ReceiveStep ==
  ASSUME NEW v, SerialInv(v), v.openflag, v.rcv.count # RcvBufsz, NEW c, NEW w, w = receive(v, c)
  PROVE  SerialStep(v, w)
<1> USE SerialAssumption
<1>1. /\ Shape(v) /\ RingOK(v.rcv, RcvBufsz) /\ ~v.errorflag
      /\ OneOf(v.sem.snd, SndH(v.tsk), v.snd.count = SndBufsz)
      /\ OneOf(v.sem.rcv, RcvH(v.tsk), v.rcv.count = 0)
      /\ v.rcv_stopped => v.rcv.count > BUFCNT_START
  BY OpenPort
<1>2. v.rcv.count \in 0 .. RcvBufsz - 1 BY <1>1 DEF RingOK
<1>3. PICK a : a = IF v.rcv.count = 0 THEN sig_sem(v, "rcv") ELSE v OBVIOUS
<1>4. /\ Shape(a) /\ Others(v, a) /\ a.errorflag = v.errorflag /\ a.sem.snd = v.sem.snd
      /\ SndH(a.tsk) = SndH(v.tsk) /\ OneOf(a.sem.rcv, RcvH(a.tsk), FALSE)
  <2>1. CASE v.rcv.count = 0
    <3>1. a = sig_sem(v, "rcv") BY <1>3, <2>1
    <3>2. v.sem.rcv = 0 /\ RcvH(v.tsk) = {} BY <1>1, <2>1 DEF OneOf
    <3>3. /\ Shape(a) /\ Others(v, a) /\ a.errorflag = v.errorflag /\ a.sem.snd = v.sem.snd
          /\ SndH(a.tsk) = SndH(v.tsk)
          /\ \A y \in User : v.tsk[y].pc # "blk_rcv" => a.tsk[y] = v.tsk[y]
          /\ \/ a.sem.rcv = 1 /\ RcvH(a.tsk) = RcvH(v.tsk)
             \/ /\ a.sem.rcv = 0
                /\ \E y \in User \ RcvH(v.tsk) : RcvH(a.tsk) = RcvH(v.tsk) \cup {y}
      BY <1>1, <3>1, <3>2, GiveRcv, ZenonT(60)
    <3>4. OneOf(a.sem.rcv, RcvH(a.tsk), FALSE) BY <3>2, <3>3 DEF OneOf
    <3> QED BY <3>3, <3>4
  <2>2. CASE v.rcv.count # 0
    <3>1. a = v BY <1>3, <2>2
    <3>2. OneOf(v.sem.rcv, RcvH(v.tsk), FALSE) BY <1>1, <2>2 DEF OneOf
    <3> QED BY <1>1, <3>1, <3>2 DEF Others
  <2> QED BY <2>1, <2>2
<1>5. PICK p : p = ring_put(v.rcv, c, RcvBufsz) OBVIOUS
<1>6. p.count = v.rcv.count + 1 BY <1>1, <1>5 DEF ring_put, RingOK
<1>7. PICK b : b = [a EXCEPT !.rcv = p] OBVIOUS
<1>8. /\ DOMAIN b = Fields /\ b.rcv = p /\ b.openflag = a.openflag /\ b.errorflag = a.errorflag
      /\ b.snd = a.snd /\ b.fc = a.fc /\ b.rcv_stopped = a.rcv_stopped /\ b.sem = a.sem
      /\ b.dev = a.dev /\ b.sent = a.sent /\ b.got = a.got /\ b.tsk = a.tsk
  <2>1. DOMAIN a = Fields BY <1>4 DEF Shape
  <2> QED BY <1>7, <2>1 DEF Fields
<1>9. Shape(b) BY <1>4, <1>8 DEF Shape
<1>10. /\ b.openflag /\ ~b.errorflag /\ b.snd = v.snd /\ b.sent = v.sent /\ b.got = v.got
       /\ b.rcv_stopped = v.rcv_stopped /\ b.dev = v.dev /\ b.sem.snd = v.sem.snd
       /\ SndH(b.tsk) = SndH(v.tsk)
  BY <1>1, <1>4, <1>8 DEF Others
<1>11. w = IF "FCRCV" \in v.ioctl /\ ~v.rcv_stopped /\ b.rcv.count >= BUFCNT_STOP
           THEN [serial_snd_chr(b, FC_STOP) EXCEPT
                   !.fc = IF v.dev.tdfe THEN @ ELSE FC_STOP, !.rcv_stopped = TRUE]
           ELSE b
  BY <1>3, <1>5, <1>7 DEF receive
<1>12. /\ Shape(w) /\ w.openflag = b.openflag /\ w.errorflag = b.errorflag /\ w.sem = b.sem
       /\ w.tsk = b.tsk /\ w.snd = b.snd /\ w.rcv = b.rcv /\ w.got = b.got
       /\ w.sent = b.sent \/ w.sent \in {FC_START, FC_STOP}
       /\ w.rcv_stopped => w.rcv.count > BUFCNT_START
  <2>1. CASE "FCRCV" \in v.ioctl /\ ~v.rcv_stopped /\ b.rcv.count >= BUFCNT_STOP
    <3>0. PICK x \in {FC_START, FC_STOP}, f \in BOOLEAN : x = FC_STOP /\ f = TRUE OBVIOUS
    <3>1. Flow(b, x, f, w)
      BY <1>10, <1>11, <2>1, <3>0 DEF Flow
    <3>2. /\ Shape(w) /\ w.openflag = b.openflag /\ w.errorflag = b.errorflag /\ w.sem = b.sem
          /\ w.tsk = b.tsk /\ w.snd = b.snd /\ w.rcv = b.rcv /\ w.got = b.got
          /\ w.sent = b.sent \/ w.sent \in {FC_START, FC_STOP}
          /\ w.rcv_stopped = f
      BY <1>9, <3>1, FlowControl
    <3>3. w.rcv.count > BUFCNT_START BY <1>2, <1>6, <1>8, <2>1, <3>2, Marks
    <3> QED BY <3>2, <3>3
  <2>2. CASE ~("FCRCV" \in v.ioctl /\ ~v.rcv_stopped /\ b.rcv.count >= BUFCNT_STOP)
    <3>1. w = b BY <1>11, <2>2
    <3>2. w.rcv_stopped => w.rcv.count > BUFCNT_START
      BY <1>1, <1>2, <1>6, <1>8, <1>10, <3>1, Marks
    <3> QED BY <1>9, <3>1, <3>2
  <2> QED BY <2>1, <2>2
<1>13. w.openflag /\ ~w.errorflag BY <1>10, <1>12
<1>14. SndStep(v, w) BY <1>10, <1>12, <1>13 DEF SndStep
<1>15. RcvStep(v, w) BY <1>2, <1>5, <1>8, <1>10, <1>12, <1>13 DEF RcvStep
<1>16. OneOf(w.sem.snd, SndH(w.tsk), w.snd.count = SndBufsz) BY <1>1, <1>10, <1>12
<1>17. w.rcv.count # 0 BY <1>2, <1>6, <1>8, <1>12
<1>18. OneOf(w.sem.rcv, RcvH(w.tsk), w.rcv.count = 0)
  BY <1>4, <1>8, <1>12, <1>17 DEF OneOf
<1> QED BY <1>12, <1>13, <1>14, <1>15, <1>16, <1>18, OpenStep

(* A change of snd_stopped or of ioctl, which the invariant does not read. *)
Setting(v, u) ==
  /\ DOMAIN u = DOMAIN v
  /\ u.openflag = v.openflag /\ u.errorflag = v.errorflag
  /\ u.rcv = v.rcv /\ u.fc = v.fc /\ u.rcv_stopped = v.rcv_stopped
  /\ u.snd = v.snd /\ u.sem = v.sem /\ u.tsk = v.tsk /\ u.got = v.got
  /\ u.dev = v.dev /\ u.sent = v.sent

(* A change of the settings or of snd_stopped preserves the invariant. *)
LEMMA SettingStep ==
  ASSUME NEW v, SerialInv(v), NEW u, Setting(v, u)
  PROVE  SerialInv(u) /\ SerialStep(v, u)
<1>1. Shape(u) BY DEF SerialInv, Setting, Shape
<1>2. Rings(u) /\ OpenInv(u) /\ ClosedInv(u) /\ StopInv(u)
  BY DEF SerialInv, Setting, Rings, OpenInv, ClosedInv, StopInv
<1>3. SndStep(v, u) BY DEF Setting, SndStep
<1>4. RcvStep(v, u) BY DEF Setting, RcvStep
<1> QED BY <1>1, <1>2, <1>3, <1>4 DEF SerialInv, SerialStep

(* A step after a change of the settings is a step from before it. *)
LEMMA SettingThen ==
  ASSUME NEW v, NEW u, Setting(v, u), NEW w, SerialStep(u, w)
  PROVE  SerialStep(v, w)
<1>1. SndStep(v, w) BY DEF Setting, SerialStep, SndStep
<1>2. RcvStep(v, w) BY DEF Setting, SerialStep, RcvStep
<1> QED BY <1>1, <1>2 DEF SerialStep

(* START from the peer sends one character and preserves the invariant. *)
LEMMA ResumeStep ==
  ASSUME NEW v, SerialInv(v), v.openflag, NEW w, w = resume(v)
  PROVE  SerialStep(v, w)
<1>1. PICK u : u = [v EXCEPT !.snd_stopped = FALSE] OBVIOUS
<1>2. Setting(v, u) BY <1>1 DEF SerialInv, Shape, Fields, Setting
<1>3. SerialInv(u) /\ SerialStep(v, u) BY <1>2, SettingStep
<1>4. u.openflag /\ u.dev = v.dev /\ u.snd = v.snd /\ Shape(u) BY <1>2, <1>3 DEF Setting, SerialInv
<1>5. CASE v.snd.count = 0
  BY <1>1, <1>3, <1>5 DEF resume
<1>6. CASE v.snd.count # 0 /\ v.dev.tdfe
  <2>1. w = snd_next(u) BY <1>1, <1>6 DEF resume
  <2>2. u.snd.count > 0 BY <1>3, <1>4, <1>6 DEF SerialInv, Rings, RingOK
  <2>3. SerialStep(u, w) BY <1>3, <1>4, <1>6, <2>1, <2>2, SndNext
  <2> QED BY <1>2, <2>3, SettingThen
<1>7. CASE v.snd.count # 0 /\ ~v.dev.tdfe
  <2>1. PICK c : c = v.snd.buf[v.snd.rd] OBVIOUS
  <2>2. w = serial_snd_chr(u, c) BY <1>1, <1>7, <2>1 DEF resume
  <2>3. DevOnly(u, w) /\ w.sent = u.sent BY <1>4, <1>7, <2>2, SerialSnd
  <2>4. SerialStep(u, w) BY <1>3, <1>4, <2>3, DevStep
  <2> QED BY <1>2, <2>4, SettingThen
<1> QED BY <1>5, <1>6, <1>7

(* The receive callback preserves the invariant, whatever arrives. *)
LEMMA IrdyRcvStep ==
  ASSUME SerialInv(s), NEW c, sio_irdy_rcv(c)
  PROVE  SerialStep(s, s')
<1>1. s.openflag BY DEF sio_irdy_rcv, SerialInv, ClosedInv
<1>2. CASE s' = [s EXCEPT !.snd_stopped = TRUE]
  <2>1. Setting(s, s') BY <1>2 DEF SerialInv, Shape, Fields, Setting
  <2> QED BY <2>1, SettingStep
<1>3. CASE s' = resume(s) BY <1>1, <1>3, ResumeStep
<1>4. CASE s' = s BY <1>4, Stutter
<1>5. CASE s.rcv.count # RcvBufsz /\ s' = receive(s, c) BY <1>1, <1>5, ReceiveStep
<1> QED BY <1>2, <1>3, <1>4, <1>5 DEF sio_irdy_rcv
-----------------------------------------------------------------------------
(***************************************************************************)
(* Opening and closing the port.                                           *)
(***************************************************************************)
LEMMA InitInv ==
  ASSUME NEW v, v = serial_initialize
  PROVE  SerialInv(v) /\ contents(v.snd, SndBufsz) = <<>> /\ contents(v.rcv, RcvBufsz) = <<>>
<1> USE SerialAssumption
<1>1. /\ DOMAIN v = Fields /\ v.openflag = FALSE /\ v.errorflag = FALSE /\ v.fc = NUL
      /\ v.rcv_stopped = FALSE /\ v.sem = [snd |-> 1, rcv |-> 0]
      /\ v.dev = [tdfe |-> TRUE, tie |-> FALSE, rie |-> FALSE, irq |-> FALSE]
      /\ v.tsk = [t \in User |-> Idle] /\ v.snd = ring(SndBufsz) /\ v.rcv = ring(RcvBufsz)
  BY DEF serial_initialize, Fields
<1>2. Tasks(v.tsk) BY <1>1, IdleOK DEF Tasks
<1>3. Shape(v)
  <2>1. DOMAIN v.sem = {"snd", "rcv"} /\ DOMAIN v.dev = {"tdfe", "tie", "rie", "irq"} BY <1>1
  <2>2. v.dev.irq = FALSE /\ v.dev.tdfe = TRUE BY <1>1
  <2> QED BY <1>1, <1>2, <2>1, <2>2 DEF Shape
<1>4. Rings(v) BY <1>1, RingEmpty DEF Rings
<1>5. OpenInv(v) /\ StopInv(v) BY <1>1 DEF OpenInv, StopInv
<1>6. ClosedInv(v) BY <1>1, IdleOK DEF ClosedInv
<1> QED BY <1>1, <1>3, <1>4, <1>5, <1>6, RingEmpty DEF SerialInv

(* serial_opn_por starts with empty buffers and the resources of the       *)
(* configuration.                                                          *)
LEMMA OpnStep ==
  ASSUME SerialInv(s), s' = serial_opn_por_body(s)
  PROVE  SerialStep(s, s') /\ s'.openflag
<1> USE SerialAssumption
<1>1. CASE s.openflag
  <2>1. s' = s BY <1>1 DEF serial_opn_por_body
  <2> QED BY <1>1, <2>1, Stutter
<1>2. CASE ~s.openflag
  <2>0. Shape(s) BY DEF SerialInv
  <2>1. PICK o : o = [s EXCEPT !.dev.irq = TRUE] OBVIOUS
  <2>2. PICK w : w = s' OBVIOUS
  <2>3. w = [o EXCEPT !.ioctl = {"ECHO", "CRLF", "FCSND", "FCRCV"},
                 !.rcv = ring(RcvBufsz), !.fc = NUL, !.rcv_stopped = FALSE,
                 !.snd = ring(SndBufsz), !.snd_stopped = FALSE,
                 !.dev.rie = TRUE, !.openflag = TRUE, !.errorflag = FALSE]
    BY <1>2, <2>1, <2>2 DEF serial_opn_por_body, sio_opn_por
  <2>4. /\ DOMAIN o = Fields /\ o.tsk = s.tsk /\ o.sem = s.sem /\ o.sent = s.sent /\ o.got = s.got
        /\ DOMAIN o.dev = {"tdfe", "tie", "rie", "irq"} /\ o.dev.irq = TRUE
        /\ o.dev.tdfe = s.dev.tdfe
    BY <2>0, <2>1 DEF Shape, Fields
  <2>5. /\ DOMAIN w = Fields /\ w.tsk = o.tsk /\ w.sem = o.sem /\ w.sent = o.sent /\ w.got = o.got
        /\ DOMAIN w.dev = DOMAIN o.dev /\ w.dev.irq = o.dev.irq /\ w.dev.tdfe = o.dev.tdfe
        /\ w.rcv = ring(RcvBufsz) /\ w.snd = ring(SndBufsz) /\ w.fc = NUL
        /\ w.rcv_stopped = FALSE /\ w.openflag = TRUE /\ w.errorflag = FALSE
    BY <2>3, <2>4 DEF Fields
  <2>6. Shape(w) BY <2>0, <2>4, <2>5 DEF Shape
  <2>7. /\ s.sem.snd = 1 /\ s.sem.rcv = 0 /\ SndH(s.tsk) = {} /\ RcvH(s.tsk) = {}
    <3>1. \A t \in User : s.tsk[t].pc = "idle" /\ TaskOK(s.tsk[t])
      BY <1>2, <2>0 DEF SerialInv, ClosedInv, Shape, Tasks
    <3>2. \A t \in User : ~HasSnd(s.tsk[t]) /\ ~HasRcv(s.tsk[t])
      BY <3>1 DEF HasSnd, HasRcv, TaskOK
    <3> QED BY <1>2, <3>2 DEF SerialInv, ClosedInv, SndH, RcvH
  <2>8. w.snd.count = 0 /\ w.rcv.count = 0 BY <2>5 DEF ring
  <2>9. OneOf(w.sem.snd, SndH(w.tsk), w.snd.count = SndBufsz) BY <2>4, <2>5, <2>7, <2>8 DEF OneOf
  <2>10. OneOf(w.sem.rcv, RcvH(w.tsk), w.rcv.count = 0) BY <2>4, <2>5, <2>7, <2>8 DEF OneOf
  <2>11. SndStep(s, w) BY <1>2, <2>4, <2>5 DEF SndStep
  <2>12. RcvStep(s, w) BY <1>2, <2>4, <2>5 DEF RcvStep
  <2> QED BY <2>2, <2>5, <2>6, <2>9, <2>10, <2>11, <2>12, OpenStep
<1> QED BY <1>1, <1>2

(* serial_cls_por releases the tasks that wait and resets the semaphores. *)
LEMMA ClsStep ==
  ASSUME SerialInv(s), NEW t \in User, serial_cls_por(t)
  PROVE  SerialStep(s, s')
<1>0. Shape(s) /\ s.openflag BY DEF SerialInv, serial_cls_por
<1>1. \A u \in User : s.tsk[u].pc \in {"idle", "blk_snd", "blk_rcv"} BY DEF serial_cls_por
<1>2. PICK c, a, b, w : /\ c = [s EXCEPT !.dev.irq = FALSE, !.dev.tdfe = FALSE]
                        /\ a = [c EXCEPT !.openflag = FALSE]
                        /\ b = ini_sem(a, "snd", 1) /\ w = s'
  OBVIOUS
<1>3. w = ini_sem(b, "rcv", 0) BY <1>2 DEF serial_cls_por, sio_cls_por
<1>4. /\ DOMAIN c = Fields /\ DOMAIN c.dev = {"tdfe", "tie", "rie", "irq"} /\ c.dev.irq = FALSE
      /\ c.dev.tdfe = FALSE /\ c.errorflag = s.errorflag /\ c.fc = s.fc
      /\ c.rcv_stopped = s.rcv_stopped /\ c.rcv = s.rcv /\ c.snd = s.snd
      /\ c.sem = s.sem /\ c.sent = s.sent /\ c.got = s.got /\ c.tsk = s.tsk
  BY <1>0, <1>2 DEF Shape, Fields
<1>5. /\ DOMAIN a = Fields /\ a.openflag = FALSE /\ a.dev = c.dev /\ a.errorflag = s.errorflag
      /\ a.fc = s.fc /\ a.rcv_stopped = s.rcv_stopped /\ a.rcv = s.rcv /\ a.snd = s.snd
      /\ a.sem = s.sem /\ a.sent = s.sent /\ a.got = s.got /\ a.tsk = s.tsk
  BY <1>2, <1>4 DEF Fields
<1>6. /\ DOMAIN b = Fields /\ b.openflag = FALSE /\ b.dev = c.dev /\ b.errorflag = s.errorflag
      /\ b.fc = s.fc /\ b.rcv_stopped = s.rcv_stopped /\ b.rcv = s.rcv /\ b.snd = s.snd
      /\ b.sem = [s.sem EXCEPT !["snd"] = 1] /\ b.sent = s.sent /\ b.got = s.got
      /\ b.tsk = [u \in User |-> IF u \in blocked(a, "snd") THEN Idle ELSE a.tsk[u]]
  BY <1>2, <1>5 DEF ini_sem, Fields
<1>7. /\ DOMAIN w = Fields /\ w.openflag = FALSE /\ w.dev = c.dev /\ w.errorflag = s.errorflag
      /\ w.fc = s.fc /\ w.rcv_stopped = s.rcv_stopped /\ w.rcv = s.rcv /\ w.snd = s.snd
      /\ w.sem = [b.sem EXCEPT !["rcv"] = 0] /\ w.sent = s.sent /\ w.got = s.got
      /\ w.tsk = [u \in User |-> IF u \in blocked(b, "rcv") THEN Idle ELSE b.tsk[u]]
  BY <1>3, <1>6 DEF ini_sem, Fields
<1>8. DOMAIN w.sem = {"snd", "rcv"} /\ w.sem.snd = 1 /\ w.sem.rcv = 0
  BY <1>0, <1>6, <1>7 DEF Shape
<1>9. \A u \in User : b.tsk[u] = IF s.tsk[u].pc = "blk_snd" THEN Idle ELSE s.tsk[u]
  BY <1>5, <1>6 DEF blocked, waiting
<1>10. \A u \in User : w.tsk[u] = IF b.tsk[u].pc = "blk_rcv" THEN Idle ELSE b.tsk[u]
  BY <1>7 DEF blocked, waiting
<1>11. \A u \in User : w.tsk[u].pc = "idle" /\ TaskOK(w.tsk[u])
  <2> SUFFICES ASSUME NEW u \in User PROVE w.tsk[u].pc = "idle" /\ TaskOK(w.tsk[u]) OBVIOUS
  <2>1. TaskOK(s.tsk[u]) /\ s.tsk[u].pc \in {"idle", "blk_snd", "blk_rcv"}
    BY <1>0, <1>1 DEF Shape, Tasks
  <2>2. TaskOK(b.tsk[u]) /\ b.tsk[u].pc \in {"idle", "blk_rcv"} BY <1>9, <2>1, IdleOK
  <2> QED BY <1>10, <2>2, IdleOK
<1>12. Tasks(w.tsk) BY <1>7, <1>11 DEF Tasks
<1>13. Shape(w) BY <1>0, <1>4, <1>7, <1>8, <1>12 DEF Shape
<1>14. SndStep(s, w) BY <1>0, <1>7 DEF SndStep
<1>15. RcvStep(s, w) BY <1>0, <1>7 DEF RcvStep
<1>16. OpenInv(w) /\ StopInv(w) BY <1>7 DEF OpenInv, StopInv
<1>17. ClosedInv(w) BY <1>4, <1>7, <1>8, <1>11 DEF ClosedInv
<1> QED BY <1>2, <1>13, <1>14, <1>15, <1>16, <1>17 DEF SerialStep

(* Opening, closing, settings and forced releases preserve the invariant. *)
LEMMA ManageSteps ==
  ASSUME SerialInv(s), NEW t \in User, Manage(t)
  PROVE  SerialStep(s, s')
<1>1. CASE serial_opn_por(t) BY <1>1, OpnStep DEF serial_opn_por
<1>2. ASSUME NEW io \in Settings, serial_ctl_por(t, io) PROVE SerialStep(s, s')
  <2>1. s' = [s EXCEPT !.ioctl = io] BY <1>2 DEF serial_ctl_por
  <2>2. Setting(s, s') BY <2>1 DEF SerialInv, Shape, Fields, Setting
  <2> QED BY <2>2, SettingStep
<1> QED BY <1>1, <1>2, ClsStep, RelWaiStep DEF Manage

(***************************************************************************)
(* Every step of the driver keeps SerialInv, and both of its ring buffers  *)
(* behave as bounded queues.                                               *)
(***************************************************************************)
LEMMA SerialStepInv ==
  ASSUME SerialInv(s), SerialStep(s, s')
  PROVE  SerialInv(s)' /\ [Snd!Next]_(Snd!vars) /\ [Rcv!Next]_(Rcv!vars)
<1>1. RingOK(s.snd, SndBufsz) /\ RingOK(s.rcv, RcvBufsz) /\ s.openflag \in BOOLEAN
  BY DEF SerialInv, Rings, Shape
<1>2. s'.openflag \in BOOLEAN /\ SndStep(s, s') /\ RcvStep(s, s') BY DEF SerialStep, Shape
<1>3. [Snd!Next]_(Snd!vars) /\ RingOK((s.snd)', SndBufsz) BY <1>1, <1>2, SndRefines
<1>4. [Rcv!Next]_(Rcv!vars) /\ RingOK((s.rcv)', RcvBufsz) BY <1>1, <1>2, RcvRefines
<1>5. SerialInv(s') BY <1>3, <1>4 DEF SerialStep, SerialInv, Rings
<1> QED BY <1>3, <1>4, <1>5

-----------------------------------------------------------------------------
(***************************************************************************)
(* The log task, the log and the driver together, for every number of      *)
(* tasks and every size of the three buffers: the invariants ResourceOK    *)
(* and NoMutualStop, and the refinement StreamSpecs.                       *)
(***************************************************************************)
LogFields == {"buffer", "count", "head", "tail", "lost", "logmask", "seq"}

LogRing(g) ==
  /\ DOMAIN g = LogFields /\ DOMAIN g.buffer = 0 .. TCNT_SYSLOG_BUFFER - 1
  /\ g.head \in 0 .. TCNT_SYSLOG_BUFFER - 1 /\ g.count \in 0 .. TCNT_SYSLOG_BUFFER
  /\ g.tail = IF g.head + g.count < TCNT_SYSLOG_BUFFER THEN g.head + g.count
              ELSE g.head + g.count - TCNT_SYSLOG_BUFFER

(* What a step may do to the log, g before it and h after it; a is the     *)
(* record that the log task read last before the step, b the one after it. *)
RecStep(g, h, a, b) ==
  /\ DOMAIN h = DOMAIN g
  /\ \/ /\ h.buffer = g.buffer /\ h.head = g.head /\ h.tail = g.tail /\ h.count = g.count
        /\ b = a
     \/ /\ g.count < TCNT_SYSLOG_BUFFER /\ \E r : h.buffer = [g.buffer EXCEPT ![g.tail] = r]
        /\ h.head = g.head /\ h.tail = wrap(g.tail + 1) /\ h.count = g.count + 1 /\ b = a
     \/ /\ g.count = TCNT_SYSLOG_BUFFER /\ \E r : h.buffer = [g.buffer EXCEPT ![g.tail] = r]
        /\ h.head = wrap(g.tail + 1) /\ h.tail = wrap(g.tail + 1) /\ h.count = g.count /\ b = a
     \/ /\ g.count > 0 /\ h.buffer = [g.buffer EXCEPT ![g.head] = NoRecord]
        /\ h.head = wrap(g.head + 1) /\ h.tail = g.tail /\ h.count = g.count - 1
        /\ b = g.buffer[g.head]

LogQueue(g) == Queue(g.buffer, g.head, g.count, TCNT_SYSLOG_BUFFER)

(* The records in the log are the queue at head. *)
LEMMA LogContents == log_contents = LogQueue(log)
  BY DEF log_contents, LogQueue, Queue

(* The three ways in which the log changes, for a buffer of size n. *)
LEMMA LogPut ==
  ASSUME NEW g, LogRing(g), g.count < TCNT_SYSLOG_BUFFER, NEW r, NEW h, DOMAIN h = DOMAIN g,
         h.buffer = [g.buffer EXCEPT ![g.tail] = r], h.head = g.head,
         h.tail = wrap(g.tail + 1), h.count = g.count + 1
  PROVE  /\ LogRing(h) /\ Len(LogQueue(g)) = g.count /\ Len(LogQueue(h)) = g.count + 1
         /\ SubSeq(LogQueue(h), 1, g.count) = LogQueue(g)
<1>1. PICK n \in Nat \ {0} : n = TCNT_SYSLOG_BUFFER BY SyslogAssumption
<1>2. PICK b, d, i, m, w : b = g.buffer /\ d = h.buffer /\ i = g.head /\ m = g.count /\ w = g.tail
  OBVIOUS
<1>3. /\ DOMAIN b = 0 .. n - 1 /\ i \in 0 .. n - 1 /\ m \in 0 .. n - 1
      /\ w = IF i + m < n THEN i + m ELSE i + m - n
  BY <1>1, <1>2 DEF LogRing
<1>4. d = [b EXCEPT ![w] = r] BY <1>2
<1>5. SubSeq(Queue([b EXCEPT ![w] = r], i, m + 1, n), 1, m) = Queue(b, i, m, n) BY <1>3, QueuePut
<1>6. m \in Nat /\ m + 1 \in Nat BY <1>3
<1>7. Len(Queue(b, i, m, n)) = m
  <2>1. m \in Nat BY <1>6
  <2> QED BY ONLY <2>1, n \in Nat \ {0}, QueueSeq
<1>8. Len(Queue(d, i, m + 1, n)) = m + 1
  <2>1. m + 1 \in Nat BY <1>6
  <2> QED BY ONLY <2>1, n \in Nat \ {0}, QueueSeq
<1>9. h.tail = IF w + 1 >= n THEN 0 ELSE w + 1 BY <1>1, <1>2 DEF wrap
<1>10. h.tail = IF i + (m + 1) < n THEN i + (m + 1) ELSE i + (m + 1) - n BY <1>3, <1>9
<1>11. LogRing(h)
  <2>1. DOMAIN d = 0 .. n - 1 BY <1>3, <1>4
  <2> QED BY <1>1, <1>2, <1>3, <1>10, <2>1 DEF LogRing
<1> QED BY <1>1, <1>2, <1>4, <1>5, <1>7, <1>8, <1>11 DEF LogQueue

(* A record written to a full log replaces the oldest one. *)
LEMMA LogOverwrite ==
  ASSUME NEW g, LogRing(g), g.count = TCNT_SYSLOG_BUFFER, NEW r, NEW h, DOMAIN h = DOMAIN g,
         h.buffer = [g.buffer EXCEPT ![g.tail] = r], h.head = wrap(g.tail + 1),
         h.tail = wrap(g.tail + 1), h.count = g.count
  PROVE  /\ LogRing(h) /\ Len(LogQueue(g)) = TCNT_SYSLOG_BUFFER
         /\ Len(LogQueue(h)) = TCNT_SYSLOG_BUFFER
         /\ SubSeq(LogQueue(h), 1, TCNT_SYSLOG_BUFFER - 1) = Tail(LogQueue(g))
<1>1. PICK n \in Nat \ {0} : n = TCNT_SYSLOG_BUFFER BY SyslogAssumption
<1>2. PICK b, d, i, k : b = g.buffer /\ d = h.buffer /\ i = g.head /\ k = h.head
  OBVIOUS
<1>3. DOMAIN b = 0 .. n - 1 /\ i \in 0 .. n - 1 /\ g.tail = i
  BY <1>1, <1>2 DEF LogRing
<1>4. d = [b EXCEPT ![i] = r] BY <1>2, <1>3
<1>5. k = IF i + 1 < n THEN i + 1 ELSE 0 BY <1>1, <1>2, <1>3 DEF wrap
<1>6. SubSeq(Queue([b EXCEPT ![i] = r], k, n, n), 1, n - 1) = Tail(Queue(b, i, n, n))
  BY <1>3, <1>5, QueueOverwrite
<1>7. Len(Queue(b, i, n, n)) = n BY QueueSeq
<1>8. Len(Queue(d, k, n, n)) = n BY QueueSeq
<1>11. LogRing(h)
  <2>1. DOMAIN d = 0 .. n - 1 /\ k \in 0 .. n - 1 BY <1>3, <1>4, <1>5
  <2> QED BY <1>1, <1>2, <1>3, <2>1 DEF LogRing
<1> QED BY <1>1, <1>2, <1>4, <1>6, <1>7, <1>8, <1>11 DEF LogQueue

(* A record that is read is the oldest one, and the others stay. *)
LEMMA LogGet ==
  ASSUME NEW g, LogRing(g), g.count > 0, NEW h, DOMAIN h = DOMAIN g,
         h.buffer = [g.buffer EXCEPT ![g.head] = NoRecord], h.head = wrap(g.head + 1),
         h.tail = g.tail, h.count = g.count - 1
  PROVE  /\ LogRing(h) /\ LogQueue(g) # <<>> /\ Head(LogQueue(g)) = g.buffer[g.head]
         /\ LogQueue(h) = Tail(LogQueue(g))
<1>1. PICK n \in Nat \ {0} : n = TCNT_SYSLOG_BUFFER BY SyslogAssumption
<1>2. PICK b, d, i, k, m, j : /\ b = g.buffer /\ d = h.buffer /\ i = g.head /\ k = h.head
                              /\ m = g.count /\ j = m - 1
  OBVIOUS
<1>3. DOMAIN b = 0 .. n - 1 /\ i \in 0 .. n - 1 /\ m \in 1 .. n
  BY <1>1, <1>2 DEF LogRing
<1>4. k = IF i + 1 < n THEN i + 1 ELSE 0 BY <1>1, <1>2, <1>3 DEF wrap
<1>5. Advance(b, i, d, k, n) BY <1>2, <1>3, <1>4 DEF Advance
<1>6. /\ Queue(d, k, j, n) = Rest(Queue(b, i, m, n)) /\ Head(Queue(b, i, m, n)) = b[i]
      /\ Queue(b, i, m, n) # <<>>
  BY <1>2, <1>3, <1>5, QueueGet
<1>7. h.count = j BY <1>2
<1>8. LogRing(h)
  <2>1. DOMAIN d = 0 .. n - 1 BY <1>2, <1>3
  <2>2. g.tail = IF i + m < n THEN i + m ELSE i + m - n BY <1>1, <1>2 DEF LogRing
  <2>3. g.tail = IF k + j < n THEN k + j ELSE k + j - n
    <3>1. PICK w : w = g.tail OBVIOUS
    <3>2. w = IF i + m < n THEN i + m ELSE i + m - n BY <2>2, <3>1
    <3>3. j = m - 1 BY <1>2
    <3>4. n \in Nat \ {0} /\ i \in 0 .. n - 1 /\ m \in 1 .. n BY <1>1, <1>3
    <3>5. w = IF k + j < n THEN k + j ELSE k + j - n
      BY ONLY <1>4, <3>2, <3>3, <3>4
    <3> QED BY <3>1, <3>5
  <2>4. k \in 0 .. n - 1 /\ j \in 0 .. n BY <1>2, <1>3, <1>4
  <2> QED BY <1>1, <1>2, <1>7, <2>1, <2>3, <2>4 DEF LogRing
<1> QED BY <1>1, <1>2, <1>6, <1>7, <1>8 DEF LogQueue, Rest

(* What a step does to the log is a step of the lossy bounded queue        *)
(* Records.                                                                *)
LEMMA LogRefines ==
  ASSUME LogRing(log), RecStep(log, log', lt.rec, (lt.rec)')
  PROVE  LogRing(log') /\ [Records!Next]_(Records!vars)
<1> USE SyslogAssumption
<1>0. log_contents = LogQueue(log) /\ log_contents' = LogQueue(log')
  BY DEF log_contents, LogQueue, Queue
<1>1. CASE /\ log'.buffer = log.buffer /\ log'.head = log.head /\ log'.tail = log.tail
           /\ log'.count = log.count /\ (lt.rec)' = lt.rec
  <2>1. LogRing(log') BY <1>1 DEF LogRing, RecStep
  <2>2. LogQueue(log') = LogQueue(log) BY <1>1 DEF LogQueue
  <2> QED BY <1>0, <1>1, <2>1, <2>2 DEF Records!vars
<1>2. CASE /\ log.count < TCNT_SYSLOG_BUFFER
           /\ \E r : log'.buffer = [log.buffer EXCEPT ![log.tail] = r]
           /\ log'.head = log.head /\ log'.tail = wrap(log.tail + 1)
           /\ log'.count = log.count + 1 /\ (lt.rec)' = lt.rec
  <2>1. PICK r : log'.buffer = [log.buffer EXCEPT ![log.tail] = r] BY <1>2
  <2>2. /\ LogRing(log') /\ Len(LogQueue(log)) = log.count
        /\ Len(LogQueue(log')) = log.count + 1
        /\ SubSeq(LogQueue(log'), 1, log.count) = LogQueue(log)
    BY <1>2, <2>1, LogPut DEF RecStep
  <2>3. Records!Put BY <1>0, <1>2, <2>2 DEF Records!Put
  <2> QED BY <2>2, <2>3 DEF Records!Next
<1>3. CASE /\ log.count = TCNT_SYSLOG_BUFFER
           /\ \E r : log'.buffer = [log.buffer EXCEPT ![log.tail] = r]
           /\ log'.head = wrap(log.tail + 1) /\ log'.tail = wrap(log.tail + 1)
           /\ log'.count = log.count /\ (lt.rec)' = lt.rec
  <2>1. PICK r : log'.buffer = [log.buffer EXCEPT ![log.tail] = r] BY <1>3
  <2>2. /\ LogRing(log') /\ Len(LogQueue(log)) = TCNT_SYSLOG_BUFFER
        /\ Len(LogQueue(log')) = TCNT_SYSLOG_BUFFER
        /\ SubSeq(LogQueue(log'), 1, TCNT_SYSLOG_BUFFER - 1) = Tail(LogQueue(log))
    BY <1>3, <2>1, LogOverwrite DEF RecStep
  <2>3. Records!Overwrite BY <1>0, <1>3, <2>2 DEF Records!Overwrite
  <2> QED BY <2>2, <2>3 DEF Records!Next
<1>4. CASE /\ log.count > 0 /\ log'.buffer = [log.buffer EXCEPT ![log.head] = NoRecord]
           /\ log'.head = wrap(log.head + 1) /\ log'.tail = log.tail
           /\ log'.count = log.count - 1 /\ (lt.rec)' = log.buffer[log.head]
  <2>2. /\ LogRing(log') /\ LogQueue(log) # <<>> /\ Head(LogQueue(log)) = log.buffer[log.head]
        /\ LogQueue(log') = Tail(LogQueue(log))
    BY <1>4, LogGet DEF RecStep
  <2>3. Records!Get BY <1>0, <1>4, <2>2 DEF Records!Get
  <2> QED BY <2>2, <2>3 DEF Records!Next
<1> QED BY <1>1, <1>2, <1>3, <1>4 DEF RecStep
-----------------------------------------------------------------------------
(***************************************************************************)
(* The invariant.  While the kernel runs, the driver satisfies          *)
(* SerialInv; once the log task ends, it only takes characters out of  *)
(* the send buffer, and none is left when it turns to the log.             *)
(***************************************************************************)
LogInv ==
  /\ Shape(s) /\ Rings(s) /\ StopInv(s)
  /\ ~Ending => OpenInv(s) /\ ClosedInv(s)
  /\ Ending => s.openflag
  /\ lt.pc \in {"buffered", "end"} => s.snd.count = 0
  /\ DOMAIN lt = {"pc", "text", "rec", "lostlog", "dropped"} /\ LogRing(log)

(* The steps that the three queues may take. *)
Streams == [Snd!Next]_(Snd!vars) /\ [Rcv!Next]_(Rcv!vars) /\ [Records!Next]_(Records!vars)

(* While the kernel runs, LogInv has SerialInv. *)
LEMMA RunningInv ==
  ASSUME LogInv, ~Ending
  PROVE  SerialInv(s)
  BY DEF LogInv, SerialInv

(* A step of the driver, of the log and of the log task together. *)
LEMMA StepInv ==
  ASSUME LogInv, Shape(s'), SndStep(s, s'), RcvStep(s, s'), StopInv(s'),
         ~Ending' => OpenInv(s') /\ ClosedInv(s'), Ending' => s'.openflag,
         lt'.pc \in {"buffered", "end"} => s'.snd.count = 0,
         DOMAIN lt' = DOMAIN lt, RecStep(log, log', lt.rec, (lt.rec)')
  PROVE  LogInv' /\ Streams
<1>1. RingOK(s.snd, SndBufsz) /\ RingOK(s.rcv, RcvBufsz) /\ s.openflag \in BOOLEAN /\ LogRing(log)
  BY DEF LogInv, Rings, Shape
<1>2. s'.openflag \in BOOLEAN BY DEF Shape
<1>3. [Snd!Next]_(Snd!vars) /\ RingOK((s.snd)', SndBufsz) BY <1>1, <1>2, SndRefines
<1>4. [Rcv!Next]_(Rcv!vars) /\ RingOK((s.rcv)', RcvBufsz) BY <1>1, <1>2, RcvRefines
<1>5. LogRing(log') /\ [Records!Next]_(Records!vars) BY <1>1, LogRefines
<1>6. LogInv' BY <1>3, <1>4, <1>5 DEF LogInv, Rings
<1> QED BY <1>3, <1>4, <1>5, <1>6 DEF Streams

(* The log does not change, and no record is read. *)
LEMMA NoRecStep ==
  ASSUME log' = log, (lt.rec)' = lt.rec
  PROVE  RecStep(log, log', lt.rec, (lt.rec)')
  BY DEF RecStep

(* A step of the driver while the kernel runs. *)
LEMMA PortStep ==
  ASSUME LogInv, ~Ending, ~Ending', SerialStep(s, s'), DOMAIN lt' = DOMAIN lt,
         (lt.rec)' = lt.rec, log' = log
  PROVE  LogInv' /\ Streams
<1>1. /\ Shape(s') /\ SndStep(s, s') /\ RcvStep(s, s') /\ StopInv(s') /\ OpenInv(s')
      /\ ClosedInv(s')
  BY DEF SerialStep
<1>2. RecStep(log, log', lt.rec, (lt.rec)') BY NoRecStep
<1>3. ~(lt'.pc \in {"buffered", "end"}) BY DEF Ending
<1> QED BY <1>1, <1>2, <1>3, StepInv

(* A step that leaves the driver alone. *)
LEMMA QuietStep ==
  ASSUME LogInv, s' = s, Ending => Ending', Ending' => s.openflag,
         lt'.pc \in {"buffered", "end"} => s.snd.count = 0,
         DOMAIN lt' = DOMAIN lt, RecStep(log, log', lt.rec, (lt.rec)')
  PROVE  LogInv' /\ Streams
<1>1. Shape(s) /\ StopInv(s) /\ (~Ending => OpenInv(s) /\ ClosedInv(s)) BY DEF LogInv
<1>2. SndStep(s, s') /\ RcvStep(s, s') BY DEF SndStep, RcvStep
<1>3. Shape(s') /\ StopInv(s') /\ (~Ending' => OpenInv(s') /\ ClosedInv(s')) BY <1>1
<1>4. Ending' => s'.openflag OBVIOUS
<1>5. lt'.pc \in {"buffered", "end"} => s'.snd.count = 0 OBVIOUS
<1> QED BY <1>2, <1>3, <1>4, <1>5, StepInv

(* A step of logtask_terminate. *)
LEMMA EndStep ==
  ASSUME LogInv, Ending, Ending', Shape(s'), SndStep(s, s'),
         s'.openflag = s.openflag, s'.rcv = s.rcv, s'.got = s.got, s'.rcv_stopped = s.rcv_stopped,
         lt'.pc \in {"buffered", "end"} => s'.snd.count = 0,
         DOMAIN lt' = DOMAIN lt, RecStep(log, log', lt.rec, (lt.rec)')
  PROVE  LogInv' /\ Streams
<1>1. StopInv(s) /\ s.openflag BY DEF LogInv
<1>2. RcvStep(s, s') BY DEF RcvStep
<1>3. StopInv(s') BY <1>1 DEF StopInv
<1>4. s'.openflag BY <1>1
<1> QED BY <1>2, <1>3, <1>4, StepInv
-----------------------------------------------------------------------------
(***************************************************************************)
(* The operations of the log.                                              *)
(***************************************************************************)
LEMMA WriLog ==
  ASSUME NEW g, LogRing(g), NEW prio, NEW comment, NEW h, h = wri_log(g, prio, comment), NEW a
  PROVE  RecStep(g, h, a, a)
<1>1. CASE prio \notin g.logmask
  <2>1. h = g BY <1>1 DEF wri_log
  <2> QED BY <2>1 DEF RecStep
<1>2. CASE prio \in g.logmask
  <2>1. PICK q : q = [g EXCEPT !.seq = @ + 1] OBVIOUS
  <2>2. PICK r : r = [n |-> g.seq + 1, comment |-> comment] OBVIOUS
  <2>3. h = record(q, r) BY <1>2, <2>1, <2>2 DEF wri_log
  <2>4. /\ DOMAIN q = LogFields /\ q.buffer = g.buffer /\ q.head = g.head /\ q.tail = g.tail
        /\ q.count = g.count
    BY <2>1 DEF LogRing, LogFields
  <2>5. DOMAIN q.buffer = 0 .. TCNT_SYSLOG_BUFFER - 1 BY <2>4 DEF LogRing
  <2>6. /\ DOMAIN h = LogFields /\ h.buffer = [q.buffer EXCEPT ![q.tail] = r]
        /\ h.tail = wrap(q.tail + 1)
        /\ h.count = IF q.count < TCNT_SYSLOG_BUFFER THEN q.count + 1 ELSE q.count
        /\ h.head = IF q.count < TCNT_SYSLOG_BUFFER THEN q.head ELSE wrap(q.tail + 1)
    BY <2>3, <2>4 DEF record, LogFields
  <2>7. DOMAIN h = DOMAIN g BY <2>6 DEF LogRing
  <2>8. \E z : h.buffer = [g.buffer EXCEPT ![g.tail] = z] BY <2>4, <2>6
  <2>9. CASE g.count < TCNT_SYSLOG_BUFFER
    <3>1. h.head = g.head /\ h.tail = wrap(g.tail + 1) /\ h.count = g.count + 1
      BY <2>4, <2>6, <2>9
    <3> QED BY <2>7, <2>8, <2>9, <3>1 DEF RecStep
  <2>10. CASE ~(g.count < TCNT_SYSLOG_BUFFER)
    <3>1. h.head = wrap(g.tail + 1) /\ h.tail = wrap(g.tail + 1) /\ h.count = g.count
      BY <2>4, <2>6, <2>10
    <3>2. g.count = TCNT_SYSLOG_BUFFER BY <2>10, SyslogAssumption DEF LogRing
    <3> QED BY <2>7, <2>8, <3>1, <3>2 DEF RecStep
  <2> QED BY <2>9, <2>10
<1> QED BY <1>1, <1>2

(* syslog_rea_log takes the oldest record. *)
LEMMA ReaLog ==
  ASSUME NEW g, LogRing(g), g.count > 0, NEW h, h = rea_log(g), NEW a
  PROVE  RecStep(g, h, a, rea_log_record(g))
<1>1. DOMAIN g = LogFields BY DEF LogRing
<1>2. /\ DOMAIN h = LogFields /\ h.buffer = [g.buffer EXCEPT ![g.head] = NoRecord]
      /\ h.head = wrap(g.head + 1) /\ h.tail = g.tail /\ h.count = g.count - 1
  BY <1>1 DEF rea_log, LogFields
<1> QED BY <1>1, <1>2 DEF RecStep, rea_log_record

(* Setting the mask changes no record. *)
LEMMA Mask ==
  ASSUME LogRing(log), NEW m, log' = [log EXCEPT !.logmask = m], (lt.rec)' = lt.rec
  PROVE  RecStep(log, log', lt.rec, (lt.rec)')
  BY DEF RecStep, LogRing, LogFields

(* What the log task is at, and the rest of it, after a step. *)
LEMMA Goes ==
  ASSUME LogInv, NEW pc, lt' = [lt EXCEPT !.pc = pc]
  PROVE  DOMAIN lt' = DOMAIN lt /\ lt'.pc = pc /\ (lt.rec)' = lt.rec
  BY DEF LogInv
-----------------------------------------------------------------------------
(***************************************************************************)
(* The actions.                                                            *)
(***************************************************************************)
LEMMA StartSteps ==
  ASSUME LogInv, logtask_start
  PROVE  LogInv' /\ Streams
<1>1. CASE lt.pc = "opn" /\ s' = serial_opn_por_body(s) /\ lt' = [lt EXCEPT !.pc = "msk"] /\ log' = log
  <2>1. DOMAIN lt' = DOMAIN lt /\ lt'.pc = "msk" /\ (lt.rec)' = lt.rec BY <1>1, Goes
  <2>2. ~Ending /\ ~Ending' BY <1>1, <2>1 DEF Ending
  <2>3. SerialInv(s) BY <2>2, RunningInv
  <2>4. SerialStep(s, s') BY <1>1, <2>3, OpnStep
  <2> QED BY <1>1, <2>1, <2>2, <2>4, PortStep
<1>2. CASE lt.pc = "msk" /\ log' = [log EXCEPT !.logmask = Prio] /\ lt' = [lt EXCEPT !.pc = "hello"] /\ s' = s
  <2>1. DOMAIN lt' = DOMAIN lt /\ lt'.pc = "hello" /\ (lt.rec)' = lt.rec BY <1>2, Goes
  <2>2. ~Ending /\ ~Ending' /\ ~(lt'.pc \in {"buffered", "end"}) BY <1>2, <2>1 DEF Ending
  <2>3. RecStep(log, log', lt.rec, (lt.rec)') BY <1>2, <2>1, Mask DEF LogInv
  <2> QED BY <1>2, <2>1, <2>2, <2>3, QuietStep
<1>3. CASE /\ lt.pc = "hello" /\ \E prio \in Prio : log' = wri_log(log, prio, TRUE)
           /\ lt' = [lt EXCEPT !.pc = "rea"] /\ s' = s
  <2>1. DOMAIN lt' = DOMAIN lt /\ lt'.pc = "rea" /\ (lt.rec)' = lt.rec BY <1>3, Goes
  <2>2. ~Ending /\ ~Ending' /\ ~(lt'.pc \in {"buffered", "end"}) BY <1>3, <2>1 DEF Ending
  <2>3. PICK prio \in Prio : log' = wri_log(log, prio, TRUE) BY <1>3
  <2>4. RecStep(log, log', lt.rec, lt.rec) BY <2>3, WriLog DEF LogInv
  <2> QED BY <1>3, <2>1, <2>2, <2>4, QuietStep
<1> QED BY <1>1, <1>2, <1>3 DEF logtask_start

(* The log task reads a record: the invariant and the three queues. *)
LEMMA ReadStep ==
  ASSUME LogInv, logtask_read
  PROVE  LogInv' /\ Streams
<1>1. lt.pc = "rea" /\ log.count > 0 /\ log' = rea_log(log) /\ s' = s BY DEF logtask_read
<1>2. PICK r, lost, text :
        /\ r = rea_log_record(log)
        /\ \/ lt' = [lt EXCEPT !.pc = "putc", !.rec = r, !.lostlog = 0, !.text = text]
           \/ lt' = [lt EXCEPT !.rec = r, !.lostlog = lost, !.dropped = @ + 1]
  <2> DEFINE r    == rea_log_record(log)
             lost == lost_before(lt.lostlog, rea_log_lost(log))
             text == (IF lost > 0 THEN syslog_lostmsg(lost) ELSE <<>>) \o syslog_print(r)
  <2>1. lt' = IF r.comment
              THEN [lt EXCEPT !.pc = "putc", !.rec = r, !.lostlog = 0, !.text = text]
              ELSE [lt EXCEPT !.rec = r, !.lostlog = lost, !.dropped = @ + 1]
    BY Zenon DEF logtask_read
  <2> HIDE DEF lost, text
  <2>2. \/ lt' = [lt EXCEPT !.pc = "putc", !.rec = r, !.lostlog = 0, !.text = text]
        \/ lt' = [lt EXCEPT !.rec = r, !.lostlog = lost, !.dropped = @ + 1]
    BY <2>1
  <2> QED BY <2>2
<1>3. DOMAIN lt' = DOMAIN lt /\ (lt.rec)' = r /\ lt'.pc \in {"putc", "rea"}
  BY <1>1, <1>2 DEF LogInv
<1>4. ~Ending /\ ~Ending' /\ ~(lt'.pc \in {"buffered", "end"}) BY <1>1, <1>3 DEF Ending
<1>5. LogRing(log) BY DEF LogInv
<1>6. RecStep(log, log', lt.rec, rea_log_record(log)) BY <1>1, <1>5, ReaLog
<1>7. RecStep(log, log', lt.rec, (lt.rec)') BY <1>2, <1>3, <1>6
<1> QED BY <1>1, <1>3, <1>4, <1>7, QuietStep

(* The log task finds the log empty and sleeps. *)
LEMMA EmptyStep ==
  ASSUME LogInv, logtask_empty
  PROVE  LogInv' /\ Streams
<1>1. lt.pc = "rea" /\ log' = log /\ s' = s BY DEF logtask_empty
<1>2. PICK text : \/ lt' = [lt EXCEPT !.pc = "last", !.text = text, !.lostlog = 0]
                  \/ lt' = [lt EXCEPT !.pc = "dly"]
  BY DEF logtask_empty
<1>3. DOMAIN lt' = DOMAIN lt /\ (lt.rec)' = lt.rec /\ lt'.pc \in {"last", "dly"}
  BY <1>2 DEF LogInv
<1>4. ~Ending /\ ~Ending' /\ ~(lt'.pc \in {"buffered", "end"}) BY <1>1, <1>3 DEF Ending
<1>5. RecStep(log, log', lt.rec, (lt.rec)') BY <1>1, <1>3, NoRecStep
<1> QED BY <1>1, <1>3, <1>4, <1>5, QuietStep

(* The log task writes a character through the driver. *)
LEMMA PutcStep ==
  ASSUME LogInv, logtask_putc
  PROVE  LogInv' /\ Streams
<1>1. lt.pc \in {"putc", "last"} /\ log' = log /\ s.tsk[logtask].pc = "idle" BY DEF logtask_putc
<1>2. PICK text : lt' = [lt EXCEPT !.text = text] BY DEF logtask_putc
<1>3. DOMAIN lt' = DOMAIN lt /\ (lt.rec)' = lt.rec /\ lt'.pc = lt.pc BY <1>2 DEF LogInv
<1>4. ~Ending /\ ~Ending' BY <1>1, <1>3 DEF Ending
<1>5. SerialInv(s) BY <1>4, RunningInv
<1>6. CASE s.openflag /\ ~s.errorflag
  <2>1. PICK buf : s' = serial_wri_dat_start(s, logtask, buf) BY <1>6 DEF logtask_putc
  <2>2. SerialStep(s, s') BY <1>1, <1>5, <1>6, <2>1, WriDatStart, LogTaskAssumption
  <2> QED BY <1>1, <1>3, <1>4, <2>2, PortStep
<1>7. CASE ~(s.openflag /\ ~s.errorflag)
  <2>1. s' = s BY <1>7 DEF logtask_putc
  <2>2. SerialStep(s, s') BY <1>5, <2>1, Stutter
  <2> QED BY <1>1, <1>3, <1>4, <2>2, PortStep
<1> QED BY <1>6, <1>7

(* The log task has printed a record, or wakes up. *)
LEMMA PrintedStep ==
  ASSUME LogInv, logtask_printed \/ logtask_wake
  PROVE  LogInv' /\ Streams
<1>1. lt.pc \in {"putc", "last", "dly"} /\ log' = log /\ s' = s
  BY DEF logtask_printed, logtask_wake
<1>2. PICK pc \in {"rea", "dly"} : lt' = [lt EXCEPT !.pc = pc]
  BY DEF logtask_printed, logtask_wake
<1>3. DOMAIN lt' = DOMAIN lt /\ (lt.rec)' = lt.rec /\ lt'.pc = pc BY <1>2, Goes
<1>4. ~Ending /\ ~Ending' /\ ~(lt'.pc \in {"buffered", "end"}) BY <1>1, <1>3 DEF Ending
<1>5. RecStep(log, log', lt.rec, (lt.rec)') BY <1>1, <1>3, NoRecStep
<1> QED BY <1>1, <1>3, <1>4, <1>5, QuietStep

(* The kernel ends while a task may be anywhere in the driver. *)
LEMMA ExtKerStep ==
  ASSUME LogInv, ext_ker
  PROVE  LogInv' /\ Streams
<1>1. ~Ending /\ s.openflag /\ log' = log /\ s' = s /\ lt' = [lt EXCEPT !.pc = "get"]
  BY DEF ext_ker
<1>2. DOMAIN lt' = DOMAIN lt /\ (lt.rec)' = lt.rec /\ lt'.pc = "get" BY <1>1, Goes
<1>3. ~(lt'.pc \in {"buffered", "end"}) BY <1>2
<1>4. RecStep(log, log', lt.rec, (lt.rec)') BY <1>1, <1>2, NoRecStep
<1> QED BY <1>1, <1>2, <1>3, <1>4, QuietStep

(* A character that is sent changes nothing but sent, acc and gap. *)
LEMMA Emit ==
  ASSUME NEW v, Shape(v), NEW c, NEW w, w = emit(v, c)
  PROVE  DevOnly(v, w) /\ w.sent = c
<1>1. DOMAIN v = Fields BY DEF Shape
<1>2. v.dev.tdfe \in BOOLEAN BY DEF Shape
<1> QED BY <1>1, <1>2 DEF emit, DevOnly, Fields

(* logtask_terminate takes a character from the send buffer. *)
LEMMA GetStep ==
  ASSUME LogInv, lt.pc = "get", s.snd.count > 0, s' = serial_get_chr(s), log' = log, lt' = lt
  PROVE  LogInv' /\ Streams
<1>1. Shape(s) /\ s.openflag /\ Ending /\ Ending' BY DEF LogInv, Ending
<1>2. PICK u : u = [s EXCEPT !.snd = ring_get(s.snd, SndBufsz)] OBVIOUS
<1>3. PICK c : c = s.snd.buf[s.snd.rd] OBVIOUS
<1>4. s' = emit(u, c) BY <1>2, <1>3 DEF serial_get_chr
<1>5. /\ DOMAIN u = Fields /\ u.snd = ring_get(s.snd, SndBufsz) /\ u.openflag = s.openflag
      /\ u.errorflag = s.errorflag /\ u.rcv = s.rcv /\ u.rcv_stopped = s.rcv_stopped
      /\ u.fc = s.fc /\ u.sem = s.sem /\ u.dev = s.dev /\ u.got = s.got /\ u.tsk = s.tsk
  BY <1>1, <1>2 DEF Shape, Fields
<1>6. Shape(u) BY <1>1, <1>5 DEF Shape
<1>7. DevOnly(u, s') /\ s'.sent = c BY <1>4, <1>6, Emit
<1>8. Shape(s') BY <1>6, <1>7, DevShape
<1>9. /\ s'.openflag = s.openflag /\ s'.snd = ring_get(s.snd, SndBufsz) /\ s'.rcv = s.rcv
      /\ s'.got = s.got /\ s'.rcv_stopped = s.rcv_stopped /\ s'.sent = s.snd.buf[s.snd.rd]
  BY <1>3, <1>5, <1>7 DEF DevOnly
<1>10. SndStep(s, s') BY <1>1, <1>9 DEF SndStep
<1>11. RecStep(log, log', lt.rec, (lt.rec)') BY NoRecStep
<1> QED BY <1>1, <1>8, <1>9, <1>10, <1>11, EndStep

(* logtask_terminate has emptied the send buffer. *)
LEMMA GotStep ==
  ASSUME LogInv, lt.pc = "get", s.snd.count = 0, NEW a, s' = [s EXCEPT !.acc = a],
         lt' = [lt EXCEPT !.pc = "buffered"], log' = log
  PROVE  LogInv' /\ Streams
<1>1. DOMAIN lt' = DOMAIN lt /\ (lt.rec)' = lt.rec /\ lt'.pc = "buffered" BY Goes
<1>2. Shape(s) /\ Ending /\ Ending' BY <1>1 DEF LogInv, Ending
<1>3. DevOnly(s, s') /\ s'.sent = s.sent BY <1>2 DEF DevOnly, Shape, Fields
<1>4. Shape(s') BY <1>2, <1>3, DevShape
<1>5. /\ s'.openflag = s.openflag /\ s'.snd = s.snd /\ s'.rcv = s.rcv
      /\ s'.got = s.got /\ s'.rcv_stopped = s.rcv_stopped
  BY <1>3 DEF DevOnly
<1>6. SndStep(s, s') BY <1>3, <1>5 DEF SndStep
<1>7. RecStep(log, log', lt.rec, (lt.rec)') BY <1>1, NoRecStep
<1>8. s'.snd.count = 0 BY <1>5
<1> QED BY <1>1, <1>2, <1>4, <1>5, <1>6, <1>7, <1>8, EndStep

(* logtask_terminate prints what is left in the log without the driver. *)
LEMMA BufferedStep ==
  ASSUME LogInv, lt.pc = "buffered", log.count > 0, log' = rea_log(log), NEW n, NEW c,
         NEW a, a = emit(s, n) \/ a = s, s' = emit(a, c) \/ s' = a,
         NEW d, \/ lt' = [lt EXCEPT !.rec = rea_log_record(log)]
                \/ lt' = [lt EXCEPT !.rec = rea_log_record(log), !.dropped = d]
  PROVE  LogInv' /\ Streams
<1>1. DOMAIN lt' = DOMAIN lt /\ (lt.rec)' = rea_log_record(log) /\ lt'.pc = "buffered"
  BY DEF LogInv
<1>2. Shape(s) /\ s.openflag /\ s.snd.count = 0 /\ Ending /\ Ending' BY <1>1 DEF LogInv, Ending
<1>3. \A v : Shape(v) => DevOnly(v, v) BY DEF DevOnly, Shape
<1>4. DevOnly(s, a) BY <1>2, <1>3, Emit
<1>5. Shape(a) BY <1>2, <1>4, DevShape
<1>6. DevOnly(a, s') BY <1>3, <1>5, Emit
<1>7. Shape(s') BY <1>5, <1>6, DevShape
<1>8. /\ s'.openflag = s.openflag /\ s'.snd = s.snd /\ s'.rcv = s.rcv
      /\ s'.got = s.got /\ s'.rcv_stopped = s.rcv_stopped
  BY <1>4, <1>6 DEF DevOnly
<1>9. SndStep(s, s') BY <1>2, <1>8 DEF SndStep
<1>10. LogRing(log) BY DEF LogInv
<1>11. RecStep(log, log', lt.rec, rea_log_record(log)) BY <1>10, ReaLog
<1>12. RecStep(log, log', lt.rec, (lt.rec)') BY <1>1, <1>11
<1>13. s'.snd.count = 0 BY <1>2, <1>8
<1> QED BY <1>1, <1>2, <1>7, <1>8, <1>9, <1>12, <1>13, EndStep

(* Every step of logtask_terminate preserves the invariant. *)
LEMMA TerminateSteps ==
  ASSUME LogInv, logtask_terminate
  PROVE  LogInv' /\ Streams
<1>1. CASE /\ lt.pc = "get" /\ s.snd.count > 0
           /\ s' = serial_get_chr(s) /\ UNCHANGED <<log, lt, env>>
  BY <1>1, GetStep
<1>2. CASE /\ lt.pc = "get" /\ s.snd.count = 0
           /\ s' = [s EXCEPT !.acc = @ + InHand]
           /\ lt' = [lt EXCEPT !.pc = "buffered"] /\ UNCHANGED <<log, env>>
  <2>1. PICK a : a = s.acc + InHand OBVIOUS
  <2>2. s' = [s EXCEPT !.acc = a] BY <1>2, <2>1
  <2> QED BY <1>2, <2>2, GotStep
<1>3. CASE /\ lt.pc = "buffered" /\ log.count > 0
           /\ LET r == rea_log_record(log)
                  n == rea_log_lost(log)
                  a == IF n > 0 THEN emit(s, chr("lost", n)) ELSE s
              IN  IF r.comment THEN s' = emit(a, Head(syslog_print(r))) /\ lt' = [lt EXCEPT !.rec = r]
                  ELSE s' = a /\ lt' = [lt EXCEPT !.rec = r, !.dropped = @ + 1]
           /\ log' = rea_log(log) /\ UNCHANGED env
  <2> DEFINE r == rea_log_record(log)
  <2>1. PICK n, c, d, a : /\ n = chr("lost", rea_log_lost(log)) /\ c = Head(syslog_print(r))
                          /\ d = lt.dropped + 1
                          /\ a = IF rea_log_lost(log) > 0 THEN emit(s, n) ELSE s
    OBVIOUS
  <2>2. a = emit(s, n) \/ a = s BY <2>1
  <2>3. \/ s' = emit(a, c) /\ lt' = [lt EXCEPT !.rec = r]
        \/ s' = a /\ lt' = [lt EXCEPT !.rec = r, !.dropped = d]
    BY <1>3, <2>1
  <2> QED BY <1>3, <2>2, <2>3, BufferedStep
<1>4. CASE /\ lt.pc = "buffered" /\ log.count = 0
           /\ lt' = [lt EXCEPT !.pc = "end"] /\ UNCHANGED <<s, log, env>>
  <2>1. DOMAIN lt' = DOMAIN lt /\ (lt.rec)' = lt.rec /\ lt'.pc = "end" BY <1>4, Goes
  <2>2. Ending /\ Ending' /\ s.openflag /\ s.snd.count = 0 BY <1>4, <2>1 DEF LogInv, Ending
  <2>3. RecStep(log, log', lt.rec, (lt.rec)') BY <1>4, <2>1, NoRecStep
  <2> QED BY <1>4, <2>1, <2>2, <2>3, QuietStep
<1> QED BY <1>1, <1>2, <1>3, <1>4 DEF logtask_terminate

(* The steps of the environment. *)
LEMMA PortSteps ==
  ASSUME LogInv, ~Ending, lt' = lt, log' = log, SerialInv(s) => SerialStep(s, s')
  PROVE  LogInv' /\ Streams
<1>1. ~Ending' BY DEF Ending
<1>2. SerialStep(s, s') BY RunningInv
<1> QED BY <1>1, <1>2, PortStep

(* Every step of the log and of the log task preserves the invariant. *)
LEMMA LogSteps ==
  ASSUME LogInv, Log
  PROVE  LogInv' /\ Streams
<1>1. ~Ending /\ s' = s /\ lt' = lt BY DEF Log
<1>2. ~Ending' BY <1>1 DEF Ending
<1>3. LogRing(log) BY DEF LogInv
<1>4. RecStep(log, log', lt.rec, (lt.rec)')
  <2>1. ASSUME NEW prio \in Prio, NEW comment \in BOOLEAN, syslog_wri_log(prio, comment)
        PROVE  RecStep(log, log', lt.rec, (lt.rec)')
    <3>1. log' = wri_log(log, prio, comment) BY <2>1 DEF syslog_wri_log
    <3>2. RecStep(log, log', lt.rec, lt.rec) BY <1>3, <3>1, WriLog
    <3> QED BY <1>1, <3>2
  <2>2. ASSUME NEW mask \in SUBSET Prio, syslog_msk_log(mask)
        PROVE  RecStep(log, log', lt.rec, (lt.rec)')
    BY <1>1, <1>3, <2>2, Mask DEF syslog_msk_log
  <2> QED BY <2>1, <2>2 DEF Log
<1>5. ~(lt'.pc \in {"buffered", "end"}) BY <1>2 DEF Ending
<1> QED BY <1>1, <1>2, <1>4, <1>5, QuietStep

(* Every step keeps LogInv and is a step of each of the three queues, or   *)
(* leaves it alone.                                                        *)
LEMMA LogInvNext ==
  ASSUME LogInv, [NextLog]_allvars
  PROVE  LogInv' /\ Streams
<1>1. CASE logtask_main
  BY <1>1, StartSteps, ReadStep, EmptyStep, PutcStep, PrintedStep DEF logtask_main
<1>2. CASE ext_ker BY <1>2, ExtKerStep
<1>3. CASE logtask_terminate BY <1>3, TerminateSteps
<1>4. ASSUME NEW t \in User, TaskStep(t) PROVE LogInv' /\ Streams
  BY <1>4, TaskSteps, PortSteps DEF TaskStep
<1>5. ASSUME NEW t \in User, TaskCall(t) PROVE LogInv' /\ Streams
  <2>1. SerialInv(s) => SerialStep(s, s') BY <1>5, CallSteps, ManageSteps DEF TaskCall
  <2> QED BY <1>5, <2>1, PortSteps DEF TaskCall
<1>6. ASSUME NEW c \in Line, Arrive(c) PROVE LogInv' /\ Streams
  BY <1>6, IrdyRcvStep, PortSteps DEF Arrive
<1>7. CASE Transmit BY <1>7, IrdySndStep, TransmitStep, PortSteps DEF Transmit
<1>8. CASE Log BY <1>8, LogSteps
<1>9. CASE UNCHANGED allvars
  <2>1. s' = s /\ lt' = lt /\ log' = log BY <1>9 DEF allvars
  <2>2. (Ending => Ending') /\ (Ending' => s.openflag) BY <2>1 DEF Ending, LogInv
  <2>3. lt'.pc \in {"buffered", "end"} => s.snd.count = 0 BY <2>1 DEF LogInv
  <2>4. RecStep(log, log', lt.rec, (lt.rec)') BY <2>1, NoRecStep
  <2> QED BY <2>1, <2>2, <2>3, <2>4, QuietStep
<1> QED BY <1>1, <1>2, <1>3, <1>4, <1>5, <1>6, <1>7, <1>8, <1>9 DEF NextLog

(* The initial state satisfies the invariant and maps to empty queues. *)
LEMMA LogInvInit ==
  ASSUME InitLog
  PROVE  LogInv /\ Snd!Init /\ Rcv!Init /\ Records!Init
<1>1. /\ SerialInv(s) /\ contents(s.snd, SndBufsz) = <<>> /\ contents(s.rcv, RcvBufsz) = <<>>
  BY InitInv DEF InitLog
<1>2. LogRing(log) /\ log.count = 0 BY SyslogAssumption DEF InitLog, syslog_initialize, LogRing, LogFields
<1>3. Records!Init
  <2>1. log_contents = Queue(log.buffer, log.head, 0, TCNT_SYSLOG_BUFFER)
    BY <1>2 DEF log_contents, Queue
  <2>2. 0 \in Nat /\ TCNT_SYSLOG_BUFFER \in Nat \ {0} BY SyslogAssumption
  <2>3. Queue(log.buffer, log.head, 0, TCNT_SYSLOG_BUFFER) = <<>> BY <2>2, QueueEmpty
  <2> QED BY <2>1, <2>3 DEF Records!Init
<1>4. DOMAIN lt = {"pc", "text", "rec", "lostlog", "dropped"} /\ lt.pc \in {"opn", "none"}
  BY DEF InitLog
<1>5. ~Ending /\ ~(lt.pc \in {"buffered", "end"}) BY <1>4 DEF Ending
<1>6. LogInv BY <1>1, <1>2, <1>4, <1>5 DEF LogInv, SerialInv
<1> QED BY <1>1, <1>3, <1>6 DEF Snd!Init, Rcv!Init

(***************************************************************************)
(* The invariant on which the other theorems rest, for every number of     *)
(* tasks, every size of the three buffers and every set of texts.          *)
(***************************************************************************)
THEOREM LogInvariant == SpecLog => []LogInv
<1>1. InitLog => LogInv BY LogInvInit
<1>2. LogInv /\ [NextLog]_allvars => LogInv' BY LogInvNext
<1> QED BY <1>1, <1>2, PTL DEF SpecLog

(***************************************************************************)
(* The resources of the semaphores SERIAL_SND_SEM and SERIAL_RCV_SEM are   *)
(* neither lost nor doubled, whatever the tasks that write, read, echo,    *)
(* wait and are released, and the callbacks, do (serial.c 485-496,         *)
(* 568-593, 678-682, 720-724 and 745-749).  No reader is released from its *)
(* wait for the echo, and the port is closed only while the other tasks    *)
(* wait or are outside the driver (rel_wai and serial_cls_por).            *)
(***************************************************************************)
THEOREM LogResourceOK == SpecLog => []ResourceOK
<1>1. LogInv => ResourceOK BY RunningInv, SerialInvResource DEF ResourceOK
<1> QED BY <1>1, LogInvariant, PTL

(***************************************************************************)
(* While the peer is held by STOP there are characters to read, and        *)
(* reading them sends START (serial.c 525-531 and 755-762).                *)
(***************************************************************************)
THEOREM LogNoMutualStop == SpecLog => []NoMutualStop
<1>1. LogInv => NoMutualStop BY DEF LogInv, StopInv, NoMutualStop
<1> QED BY <1>1, LogInvariant, PTL

(***************************************************************************)
(* The ring buffers of serial.c (433, 485-496, 568-593, 716-727 and        *)
(* 745-749) and of syslog.c (148-159 and 192-201) implement bounded        *)
(* queues: every entry leaves them once and in order.                      *)
(***************************************************************************)
THEOREM LogStreamSpecs == SpecLog => StreamSpecs
<1>1. InitLog => Snd!Init /\ Rcv!Init /\ Records!Init BY LogInvInit
<1>2. LogInv /\ [NextLog]_allvars
        => [Snd!Next]_(Snd!vars) /\ [Rcv!Next]_(Rcv!vars) /\ [Records!Next]_(Records!vars)
  BY LogInvNext DEF Streams
<1> QED BY <1>1, <1>2, LogInvariant, PTL DEF SpecLog, StreamSpecs, Snd!Spec, Rcv!Spec, Records!Spec
=============================================================================
