---------------------------- MODULE MCTimeEvent -----------------------------
(***************************************************************************)
(* Instances of TimeEvent for TLC.  The alarms are interchangeable.        *)
(***************************************************************************)
EXTENDS TimeEvent

CONSTANTS a1, a2, a3, a4, a5, c1

Period == [c \in Cyc |-> 2]
Phase == [c \in Cyc |-> 1]
NoSta == <<>>
Sta == <<c1>>
Symmetry == Permutations(Alm)
=============================================================================
