------------------------------- MODULE Stream --------------------------------
(***************************************************************************)
(* What a ring buffer of the system services promises: a bounded queue.    *)
(* Entries leave it once, in the order in which they came; a full queue    *)
(* takes nothing, or, if it is lossy, gives up its oldest entry.  Nothing  *)
(* else is lost while the queue is open.                                   *)
(***************************************************************************)
EXTENDS Naturals, Sequences

CONSTANTS
  Size,    \* the capacity
  Lossy,   \* whether an entry that finds the queue full replaces the oldest
  Direct,  \* whether an entry may pass by an empty queue
  Aside    \* the entries that may pass by the queue at any time

VARIABLES
  open,    \* whether the queue is in use
  queue,   \* the entries, oldest first
  last     \* the entry that left last

vars == <<open, queue, last>>

Init == queue = <<>>

(* An entry comes, and is put behind the others. *)
Put == /\ open /\ Len(queue) < Size /\ Len(queue') = Len(queue) + 1
       /\ SubSeq(queue', 1, Len(queue)) = queue
       /\ UNCHANGED <<open, last>>

(* The oldest entry leaves. *)
Get == /\ open /\ queue # <<>>
       /\ queue' = Tail(queue) /\ last' = Head(queue) /\ UNCHANGED open

(* An entry need not enter an empty queue, or must not wait in any. *)
Pass == /\ open /\ ((Direct /\ queue = <<>>) \/ last' \in Aside)
        /\ UNCHANGED <<open, queue>>

Overwrite == /\ open /\ Lossy /\ Len(queue) = Size /\ Len(queue') = Size
             /\ SubSeq(queue', 1, Size - 1) = Tail(queue)
             /\ UNCHANGED <<open, last>>

(* What is in a queue that is closed is lost when it is opened again. *)
Close == open /\ ~open' /\ UNCHANGED <<queue, last>>
Open == ~open /\ open' /\ queue' = <<>> /\ UNCHANGED last

Next == Put \/ Get \/ Pass \/ Overwrite \/ Close \/ Open

Spec == Init /\ [][Next]_vars
=============================================================================
