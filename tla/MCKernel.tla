------------------------------ MODULE MCKernel ------------------------------
(***************************************************************************)
(* Instances of Kernel for TLC.  Three tasks and every service call at     *)
(* once are too many states, so a behaviour is one of two programs,        *)
(* k.program, which between them make every call.                          *)
(***************************************************************************)
EXTENDS Kernel

CONSTANTS t1, t2, t3

Boot12 == <<t1, t2>>
Dyn3 == <<t3>>
PriMixed == [t \in Task |-> IF t = t1 THEN 1 ELSE 0]

(* Every call, in a program that creates no task: t3 does not exist.       *)
NextCalls == Next /\ k'.free_tcb = k.free_tcb

(* Three tasks, the third one created and deleted, without nested          *)
(* interrupts.  The calls that are left out do not involve a second or     *)
(* third task.                                                             *)
NextDyn ==
  \/ Startup \/ TaskManage
  \/ slp_tsk(FALSE)
  \/ \E t \in Task : wup_tsk(t)
  \/ \E p \in TPRI : rot_rdq(p)
  \/ wait_return \/ ret_int \/ idle_loop
  \/ ~INTCTX /\ int_entry
SpecDyn == Init /\ [][NextDyn]_k

InitPrograms == \E p \in {"calls", "dyn"} : k = KInit @@ [program |-> p]
NextPrograms == \/ k.program = "calls" /\ NextCalls
                \/ k.program = "dyn" /\ NextDyn
SpecPrograms == InitPrograms /\ [][NextPrograms]_k
=============================================================================
