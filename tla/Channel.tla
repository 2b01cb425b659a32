------------------------------ MODULE Channel -------------------------------
(***************************************************************************)
(* What a synchronization and communication object of the kernel promises: *)
(* items (resources, data, messages, memory blocks) pass from tasks and    *)
(* handlers that send to tasks that receive.  An item that is accepted is  *)
(* delivered once, to the first waiting receiver or to the next call that  *)
(* receives, in the order of the object; a wait that ends by a timeout, a  *)
(* forced release or the end of the task neither delivers nor consumes an  *)
(* item.  Nothing is said about scheduling.                                *)
(*                                                                         *)
(* Semaphores, data queues, priority data queues, mailboxes and            *)
(* fixed-sized memory pools implement it (module SyncObjects).             *)
(***************************************************************************)
EXTENDS Naturals, Sequences, SequencesExt

CONSTANTS
  Task,   \* the tasks
  None    \* no item

VARIABLES
  par,    \* of the object: capacity, order of items, initial contents
  buf,    \* the items that are in the object, next one first
  snd,    \* the tasks that wait to send, with their items
  rcv,    \* the tasks that wait to receive
  done    \* done[t]: the item that t's finished wait has passed, or None

vars == <<par, buf, snd, rcv, done>>

Empty == [cap |-> 0, order |-> "FIFO", ini |-> <<>>]

(* The contents after item x enters contents q. *)
Insert(q, x) ==
  LET later == {i \in 1 .. Len(q) : q[i].pri > x.pri}
      i     == IF later = {} THEN Len(q) + 1
               ELSE CHOOSE j \in later : \A m \in later : j <= m
  IN  CASE par.order = "FIFO" -> Append(q, x)
        [] par.order = "LIFO" -> <<x>> \o q
        [] par.order = "PRI"  -> InsertAt(q, i, x)

SameMembers(q, r) == ToSet(q) = ToSet(r) /\ Len(q) = Len(r)

Init == buf = par.ini /\ snd = <<>> /\ rcv = <<>> /\ done = [t \in Task |-> None]

(* An item enters the object, or goes to the first waiting receiver. *)
Send == \E x \in Range(buf') : /\ rcv = <<>> /\ Len(buf) < par.cap
                               /\ buf' = Insert(buf, x)
                               /\ UNCHANGED <<par, snd, rcv, done>>

Deliver == /\ rcv # <<>> /\ rcv' = Tail(rcv)
           /\ \E x \in {done'[Head(rcv)]} \ {None} : done' = [done EXCEPT ![Head(rcv)] = x]
           /\ UNCHANGED <<par, buf, snd>>

(* A forced send replaces the oldest item of a full object. *)
Force == \E x \in Range(buf') : /\ rcv = <<>> /\ buf # <<>> /\ Len(buf) = par.cap
                                /\ buf' = Append(Tail(buf), x)
                                /\ UNCHANGED <<par, snd, rcv, done>>

(* A task waits to send, only while the object is full, or to receive,     *)
(* only while there is nothing to receive.                                 *)
WaitSend == /\ Len(buf) = par.cap /\ rcv = <<>>
            /\ \E i \in 1 .. Len(snd) + 1 : i <= Len(snd') /\ snd = RemoveAt(snd', i)
            /\ UNCHANGED <<par, buf, rcv, done>>

WaitReceive == /\ buf = <<>> /\ snd = <<>>
               /\ \E i \in 1 .. Len(rcv) + 1 : i <= Len(rcv') /\ rcv = RemoveAt(rcv', i)
               /\ UNCHANGED <<par, buf, snd, done>>

(* The next item leaves, and the first waiting sender's item takes the     *)
(* place that becomes free.                                                *)
Receive ==
  /\ buf # <<>>
  /\ IF snd = <<>> THEN buf' = Tail(buf) /\ UNCHANGED <<snd, done>>
     ELSE /\ buf' = Insert(Tail(buf), Head(snd).item)
          /\ snd' = Tail(snd)
          /\ done' = [done EXCEPT ![Head(snd).tsk] = Head(snd).item]
  /\ UNCHANGED <<par, rcv>>

(* Without a buffer the item passes from the sender to the caller. *)
ReceiveDirect ==
  /\ buf = <<>> /\ snd # <<>> /\ snd' = Tail(snd)
  /\ done' = [done EXCEPT ![Head(snd).tsk] = Head(snd).item]
  /\ UNCHANGED <<par, buf, rcv>>

(* A task stops waiting with an error, or is terminated. *)
Cancel ==
  /\ \/ /\ \E i \in 1 .. Len(snd) : snd' = RemoveAt(snd, i)
        /\ UNCHANGED rcv
     \/ /\ \E i \in 1 .. Len(rcv) : rcv' = RemoveAt(rcv, i)
        /\ UNCHANGED snd
  /\ UNCHANGED <<par, buf, done>>

(* A change of priority may change the order of the waiting tasks. *)
Reorder == /\ SameMembers(snd, snd') /\ SameMembers(rcv, rcv')
           /\ UNCHANGED <<par, buf, done>>

(* The task returns from the call that had to wait, or is terminated. *)
Return == /\ \E t \in Task : done[t] # None /\ done' = [done EXCEPT ![t] = None]
          /\ UNCHANGED <<par, buf, snd, rcv>>

(* Initialization, creation or deletion: nobody waits any more. *)
Reset == /\ snd' = <<>> /\ rcv' = <<>> /\ buf' = par'.ini
         /\ UNCHANGED done

Next == \/ Send \/ Deliver \/ Force \/ WaitSend \/ WaitReceive \/ Receive
        \/ ReceiveDirect \/ Cancel \/ Reorder \/ Return \/ Reset

Spec == Init /\ [][Next]_vars
=============================================================================
