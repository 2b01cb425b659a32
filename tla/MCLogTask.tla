------------------------------ MODULE MCLogTask ------------------------------
(***************************************************************************)
(* LogTask for TLC: the log task and two other tasks on a port with small  *)
(* buffers.                                                                *)
(***************************************************************************)
EXTENDS LogTask

CONSTANTS lg, u1, u2

Pris == (lg :> 1) @@ (u1 :> 0) @@ (u2 :> 2)
Lines == {chr("a", 0), FC_START, FC_STOP}
Strings == {<<chr("x", 0), chr("y", 0)>>, <<NL>>}
Long == {<<chr("x", 0), chr("y", 0), chr("z", 0)>>}
Ioctls == {{"CRLF", "FCSND", "FCANY", "FCRCV"}}
Callers == "log" :> {u1} @@ "port" :> {u1, u2}
Calls == "log" :> 1 @@ "port" :> 2
Rcvs == "log" :> 1 @@ "port" :> 4
=============================================================================
