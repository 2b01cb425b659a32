---------------------------- MODULE MCTaskExcept ----------------------------
(***************************************************************************)
(* TaskExcept for TLC: the static task t1 and the dynamic task t2, created *)
(* with the same or a lower priority.                                      *)
(***************************************************************************)
EXTENDS TaskExcept

CONSTANTS t1, t2

Boot1 == <<t1>>
Dyn2 == <<t2>>
Pri == [t \in Task |-> 0]
=============================================================================
