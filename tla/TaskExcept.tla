----------------------------- MODULE TaskExcept -----------------------------
(***************************************************************************)
(* Task exceptions: kernel/task_except.c, call_texrtn of kernel/task.c and *)
(* the places at which it is called (dispatch_r, ret_int_r and ret_int_4   *)
(* of core_support.S, chg_ipm of interrupt.c).                             *)
(*                                                                         *)
(* tex holds the TCB fields enatex and texptn (the set of the pending      *)
(* factors), the field texrtn of the TINIB (TRUE if it is not NULL), and   *)
(* for each task the stack frames of call_texrtn, innermost last:          *)
(*   disdsp   saved_disdsp                                                 *)
(*   winfo    the WINFO of the waiting call inside which it was called     *)
(*   ena      whether the routine has called ena_tex                       *)
(*   pc       "call"  the CPU is unlocked, texrtn is not read yet          *)
(*            "rtn"   the routine runs                                     *)
(*            "loop"  after dispatch(), at the end of the loop             *)
(* undef is TRUE when call_texrtn has called address NULL, where the model *)
(* ends.  chk is TRUE while the running task, with the CPU locked, is at a *)
(* place where the conditions for calling the routine are tested.          *)
(***************************************************************************)
EXTENDS Kernel

CONSTANTS
  TexBit,      \* the exception factors
  TexTask,     \* the static tasks with a routine (DEF_TEX)
  MaxTexNest   \* bound: frames of one task, by ena_tex inside a routine

ASSUME TexAssumption == TexTask \subseteq Range(torder) /\ MaxTexNest \in Nat

VARIABLES tex, chk
xvars == <<k, tex, chk>>

InitTex ==
  /\ Init /\ chk = FALSE
  /\ tex = [enatex |-> [t \in Task |-> FALSE], texptn |-> [t \in Task |-> {}],
            texrtn |-> [t \in Task |-> t \in TexTask], frames |-> [t \in Task |-> <<>>],
            undef |-> FALSE]

self == k.p_runtsk
frame(t) == Last(tex.frames[t])

(* The running task is inside call_texrtn with the CPU locked. *)
AtLoop == /\ k.kerflg /\ k.excpt_nest_count = 0
          /\ tex.frames[self] # <<>> /\ frame(self).pc = "loop"

Ready == ~tex.undef /\ ~chk /\ ~AtLoop

-----------------------------------------------------------------------------
(***************************************************************************)
(* The calls of the kernel.                                                *)
(***************************************************************************)

(* A task that resumes does so at dispatch_r or ret_int_r and tests the    *)
(* conditions; one that starts, at start_r, has exceptions disabled.       *)
Resumes == k'.p_runtsk # NULL /\ k'.p_runtsk # k.p_runtsk

(* make_dormant for exceptions; the stack of the task is gone. *)
make_dormant_tex(t) == [tex EXCEPT !.enatex[t] = FALSE, !.texptn[t] = {}, !.frames[t] = <<>>]

(* A task in the "call" step of call_texrtn makes no call. *)
InCall == k.excpt_nest_count = 0 /\ self # NULL /\ tex.frames[self] # <<>> /\ frame(self).pc = "call"

TaskCall(A) == Ready /\ ~InCall /\ A /\ chk' = Resumes

KernelCalls ==
  \/ TaskCall(Startup \/ idle_loop \/ wait_return) /\ UNCHANGED tex
  \/ \E ipriority \in TPRI, b \in BOOLEAN : TaskCall(acre_tsk(ipriority, b))
       /\ tex' = [tex EXCEPT !.texrtn[Head(k.free_tcb)] = FALSE]
  \/ TaskCall(ext_tsk) /\ tex' = make_dormant_tex(self)
  \/ \E t \in Task :
       \/ TaskCall(ter_tsk(t)) /\ tex' = make_dormant_tex(t)
       \/ TaskCall(del_tsk(t) \/ (TSTAT_DORMANT(k, t) /\ act_tsk(t))
                   \/ wup_tsk(t) \/ iwup_tsk(t)) /\ UNCHANGED tex
  \/ TaskCall(slp_tsk(FALSE) \/ loc_cpu \/ unl_cpu \/ dis_dsp \/ ena_dsp) /\ UNCHANGED tex
  \/ Ready /\ int_entry /\ UNCHANGED <<tex, chk>>

(* Fault: only a handler that causes a dispatch leads to a test. *)
ret_int_tex_dispatch == Ready /\ ret_int /\ UNCHANGED tex /\ chk' = Resumes

(* ret_int_4: with reqflg, the interrupted task tests the conditions also  *)
(* when there is no dispatch.                                              *)
ret_int_tex ==
  /\ Ready /\ ret_int /\ UNCHANGED tex
  /\ chk' = (Resumes \/ (k.reqflg /\ k'.excpt_nest_count = 0))

(* chg_ipm tests the conditions after a change to TIPM_ENAALL. *)
chg_ipm_tex(enaall) ==
  /\ Ready /\ ~InCall /\ chg_ipm(enaall) /\ UNCHANGED tex
  /\ chk' = (enaall /\ k'.p_runtsk # NULL)

-----------------------------------------------------------------------------
(***************************************************************************)
(* call_texrtn                                                             *)
(***************************************************************************)
NewFrame == [disdsp |-> k.disdsp, winfo |-> k.winfo[self], ena |-> FALSE, pc |-> "call"]

(* The test, and the beginning of call_texrtn up to t_unlock_cpu.          *)
calltex ==
  /\ chk /\ chk' = FALSE
  /\ IF tex.enatex[self] /\ tex.texptn[self] # {} /\ k.ipmflg
     THEN /\ tex' = [tex EXCEPT !.enatex[self] = FALSE, !.texptn[self] = {},
                                !.frames[self] = Append(@, NewFrame)]
          /\ k' = [k EXCEPT !.winfo[self] = "none"]
     ELSE UNCHANGED <<k, tex>>

set_pc(pc) == [tex EXCEPT !.frames[self][Len(tex.frames[self])].pc = pc]

(* The address of the routine is read with the CPU unlocked. *)
call_routine ==
  /\ Ready /\ TSKCTX /\ tex.frames[self] # <<>> /\ frame(self).pc = "call"
  /\ tex' = IF tex.texrtn[self] THEN set_pc("rtn") ELSE [tex EXCEPT !.undef = TRUE]
  /\ UNCHANGED <<k, chk>>

InRoutine == TSKCTX /\ tex.frames[self] # <<>> /\ frame(self).pc = "rtn"

(* Fault: disdsp is left as the routine has set it. *)
restore_not == [k EXCEPT !.ipmflg = TRUE, !.dspflg = ~k.disdsp, !.lock = FALSE]

(* The system state to which call_texrtn returns. *)
restore == [k EXCEPT !.ipmflg = TRUE, !.disdsp = frame(self).disdsp,
                     !.dspflg = ~frame(self).disdsp, !.lock = FALSE]

(* Fault: exceptions may be enabled during the dispatch. *)
return_routine_ena ==
  /\ Ready /\ InRoutine
  /\ tex' = set_pc("loop")
  /\ k' = IF restore.dspflg /\ k.p_runtsk # k.p_schedtsk THEN dispatcher(restore) ELSE restore
  /\ chk' = Resumes

(* Fault: the dispatch is left to the next service call. *)
return_routine_stay ==
  /\ Ready /\ InRoutine
  /\ tex' = [set_pc("loop") EXCEPT !.enatex[self] = FALSE]
  /\ k' = restore /\ chk' = FALSE

(* The routine returns; a dispatch that it held up is made. *)
return_routine ==
  /\ Ready /\ InRoutine
  /\ tex' = [set_pc("loop") EXCEPT !.enatex[self] = FALSE]
  /\ k' = IF restore.dspflg /\ k.p_runtsk # k.p_schedtsk THEN dispatcher(restore) ELSE restore
  /\ chk' = Resumes

(* while (p_runtsk->texptn != 0U): once more, or the end of call_texrtn.   *)
loop ==
  /\ AtLoop /\ ~chk /\ UNCHANGED chk
  /\ IF tex.texptn[self] # {}
     THEN /\ tex' = [set_pc("call") EXCEPT !.texptn[self] = {}]
          /\ UNCHANGED k
     ELSE /\ tex' = [tex EXCEPT !.enatex[self] = TRUE, !.frames[self] = Front(@)]
          /\ k' = [k EXCEPT !.winfo[self] = frame(self).winfo]

-----------------------------------------------------------------------------
(***************************************************************************)
(* task_except.c                                                           *)
(***************************************************************************)
can_raise(t) == exists(t) /\ ~TSTAT_DORMANT(k, t) /\ tex.texrtn[t]
raise(t, rasptn) == [tex EXCEPT !.texptn[t] = @ \cup rasptn]

ras_tex(t, rasptn) ==
  /\ Ready /\ ~InCall /\ CHECK_TSKCTX_UNL /\ can_raise(t)
  /\ tex' = raise(t, rasptn) /\ chk' = (t = self) /\ UNCHANGED k

iras_tex(t, rasptn) ==
  /\ Ready /\ CHECK_INTCTX_UNL /\ can_raise(t)
  /\ tex' = raise(t, rasptn) /\ UNCHANGED chk
  /\ k' = IF t = self /\ tex.enatex[t] /\ k.ipmflg THEN [k EXCEPT !.reqflg = TRUE] ELSE k

dis_tex ==
  /\ Ready /\ ~InCall /\ CHECK_TSKCTX_UNL /\ tex.texrtn[self]
  /\ tex' = [tex EXCEPT !.enatex[self] = FALSE] /\ UNCHANGED <<k, chk>>

ena_tex ==
  /\ Ready /\ ~InCall /\ CHECK_TSKCTX_UNL /\ tex.texrtn[self]
  /\ Len(tex.frames[self]) < MaxTexNest
  /\ tex' = LET f == tex.frames[self]
            IN  [tex EXCEPT !.enatex[self] = TRUE,
                            !.frames[self] = IF f = <<>> THEN f
                                             ELSE [f EXCEPT ![Len(f)].ena = TRUE]]
  /\ chk' = TRUE /\ UNCHANGED k

(* Fault: the pending factors and enatex survive. *)
def_tex_keep(t, define) ==
  /\ Ready /\ ~InCall /\ CHECK_TSKCTX_UNL /\ exists(t) /\ t \in Range(atcb)
  /\ tex.texrtn[t] # define
  /\ tex' = [tex EXCEPT !.texrtn[t] = define]
  /\ UNCHANGED <<k, chk>>

(* define: pk_dtex->texrtn is not NULL. *)
def_tex(t, define) ==
  /\ Ready /\ ~InCall /\ CHECK_TSKCTX_UNL /\ exists(t) /\ t \in Range(atcb)
  /\ tex.texrtn[t] # define
  /\ tex' = IF define THEN [tex EXCEPT !.texrtn[t] = TRUE]
            ELSE [tex EXCEPT !.texrtn[t] = FALSE, !.enatex[t] = FALSE, !.texptn[t] = {}]
  /\ UNCHANGED <<k, chk>>

TexCalls ==
  \/ calltex \/ call_routine \/ return_routine \/ loop
  \/ \E t \in Task, p \in SUBSET TexBit \ {{}} : ras_tex(t, p) \/ iras_tex(t, p)
  \/ dis_tex \/ ena_tex
  \/ ret_int_tex
  \/ \E b \in BOOLEAN : chg_ipm_tex(b)

NextTex ==
  \/ KernelCalls \/ TexCalls
  \/ \E t \in Task, b \in BOOLEAN : def_tex(t, b)

SpecTex == InitTex /\ [][NextTex]_xvars
-----------------------------------------------------------------------------
(* The six conditions of "Implementation of the task exception handling"   *)
(* in doc/design.txt never hold together while the task goes on: at every  *)
(* place where the last of them can become true the routine is started;    *)
(* and while only the handler keeps it from starting, reqflg is set.       *)
TexStarted ==
  k.kerflg /\ k.p_runtsk # NULL /\ ~chk /\ ~AtLoop
    /\ tex.enatex[self] /\ tex.texptn[self] # {} /\ k.ipmflg
  => k.excpt_nest_count > 0 /\ k.reqflg

(* call_texrtn and dispatch call each other, but the stack does not grow:  *)
(* one frame is on top of another only while a routine that has called     *)
(* ena_tex still runs, never after it has returned ("the call of dispatch  *)
(* from call_texrtn" in doc/design.txt).                                   *)
TexNested ==
  \A t \in Task : \A i \in 1 .. Len(tex.frames[t]) - 1 :
    tex.frames[t][i].ena /\ tex.frames[t][i].pc = "rtn"

(* A task finds the system state after its routine as the table of         *)
(* doc/design.txt has it, whatever the routine did and whichever tasks ran *)
(* meanwhile: dispatching as it was before, interrupts and CPU unlocked.   *)
Returned(t) == k.p_runtsk = t /\ Len(tex'.frames[t]) < Len(tex.frames[t])
               /\ tex'.enatex[t]
TexRestored ==
  [][\A t \in Task : Returned(t) =>
       /\ k'.disdsp = frame(t).disdsp /\ k'.ipmflg /\ ~k'.lock
       /\ k'.dspflg => k'.p_schedtsk = t]_xvars

(* An exception is pending only for a task that has a routine, however     *)
(* def_tex, requests, termination and the reuse of the TCB interleave: so  *)
(* a routine was defined whenever call_texrtn took the factors (task.c     *)
(* 460), with the CPU locked.                                              *)
RequestDefined == \A t \in Task : tex.texptn[t] # {} => tex.texrtn[t]

(* When the six conditions hold, the routine is executed (doc/design.txt   *)
(* 467 and 507), not address NULL.  It fails if a task that preempts       *)
(* call_texrtn between t_unlock_cpu and the read of texrtn (task.c 463 and *)
(* 465) takes the routine away by def_tex (task_except.c 148-153).         *)
RoutineExecuted == ~tex.undef

(* The scheduler's and the dispatcher's invariants hold also for the       *)
(* dispatches of call_texrtn, which restores disdsp and ipmflg.            *)
TexKernelInv == SchedInv /\ NoLostDispatch /\ RunningOK
=============================================================================
