------------------------- MODULE TaskExcept_proofs -------------------------
(***************************************************************************)
(* The invariants of module TaskExcept, for every number of tasks, of      *)
(* exception factors and of nested routines.                               *)
(*                                                                         *)
(* The inductive invariant TexIInv has, besides the kernel's IInv:         *)
(* PerTask, which says of each task alone how its frames, its enatex, its  *)
(* texptn and its texrtn belong together; LoopOK, which says what system   *)
(* state a task finds at the end of call_texrtn's loop, also if it was     *)
(* dispatched there; DormantTex, because make_dormant clears the fields of *)
(* a task exactly when it ends; and ChkOK, which says where the conditions *)
(* are tested.                                                             *)
(***************************************************************************)
EXTENDS TaskExcept, Kernel_proofs

Returnable == {"none"} \cup Wercd
FrameRec == [disdsp : BOOLEAN, winfo : Returnable, ena : BOOLEAN, pc : {"call", "rtn", "loop"}]

TexType ==
  /\ DOMAIN tex = {"enatex", "texptn", "texrtn", "frames", "undef"}
  /\ tex.enatex \in [Task -> BOOLEAN] /\ tex.texrtn \in [Task -> BOOLEAN]
  /\ tex.frames \in [Task -> Seq(FrameRec)] /\ DOMAIN tex.texptn = Task
  /\ chk \in BOOLEAN

(* A frame under another one belongs to a routine that has called ena_tex; *)
(* exceptions are enabled inside a routine only if it has, and while it    *)
(* runs; a task without a routine has nothing pending.                     *)
PerTask(f, ena, ptn, rtn) ==
  /\ \A i \in 1 .. Len(f) - 1 : f[i].ena /\ f[i].pc = "rtn"
  /\ f # <<>> /\ ena => f[Len(f)].ena /\ f[Len(f)].pc = "rtn"
  /\ ~rtn => ptn = {}

(* A task at the end of the loop that does not run was dispatched away by  *)
(* its own return from the routine, so dispatching was enabled.            *)
LoopOK(x, t, f) ==
  f # <<>> /\ f[Len(f)].pc = "loop" =>
    IF t = x.p_runtsk
    THEN /\ x.excpt_nest_count = 0 /\ x.ipmflg /\ ~x.lock
         /\ x.disdsp = f[Len(f)].disdsp
    ELSE ~f[Len(f)].disdsp

DormantTex(x, t, f, ena, ptn) == x.tstat[t] = {} => f = <<>> /\ ~ena /\ ptn = {}

ChkOK == chk => k.kerflg /\ k.excpt_nest_count = 0 /\ k.p_runtsk # NULL

TexTasks ==
  \A t \in Task :
    /\ PerTask(tex.frames[t], tex.enatex[t], tex.texptn[t], tex.texrtn[t])
    /\ LoopOK(k, t, tex.frames[t])
    /\ DormantTex(k, t, tex.frames[t], tex.enatex[t], tex.texptn[t])

TexIInv ==
  /\ IInv(k) /\ NoMutex(k) /\ TexType
  /\ TexTasks /\ ChkOK /\ TexStarted

-----------------------------------------------------------------------------
(***************************************************************************)
(* What the kernel's functions leave alone.  Chain(j, x, S): x is reached  *)
(* from j by functions on tasks, which do not touch the context, ask for a *)
(* dispatch only if it is enabled, and make no task of S dormant.          *)
(***************************************************************************)
Chain(j, x, S) ==
  /\ ContextFields \cup {"tstat", "dspreq"} \subseteq DOMAIN x /\ DOMAIN x.tstat = Task
  /\ SameContext(j, x)
  /\ x.dspreq => x.dspflg
  /\ \A t \in S : x.tstat[t] # {}

(* Changes of the ready queue continue a chain. *)
LEMMA ChainReady ==
  ASSUME NEW i, NEW S, NEW j, Chain(i, j, S), NEW t, NEW p
  PROVE  Chain(i, make_runnable(j, t), S) /\ Chain(i, make_non_runnable(j, t), S)
<1>1. Chain(i, make_runnable(j, t), S)
  BY DEF Chain, ContextFields, SameContext, make_runnable
<1>2. Chain(i, make_non_runnable(j, t), S)
  BY DEF Chain, ContextFields, SameContext, make_non_runnable, ready_delete
<1> QED BY <1>1, <1>2

(* Changes of a task's state continue a chain; make_dormant ends its task. *)
LEMMA ChainTask ==
  ASSUME NEW i, NEW S, NEW j, Chain(i, j, S), NEW t
  PROVE  /\ Chain(i, make_active(j, t), S) /\ Chain(i, make_dormant(j, t), S \ {t})
         /\ Chain(i, make_non_wait(j, t), S)
         /\ Chain(i, wait_dequeue_wobj(j, t), S) /\ Chain(i, wait_dequeue_tmevtb(j, t), S)
         /\ Chain(i, wait_complete(j, t), S)
<1>1. ASSUME NEW y, Chain(i, y, S)
      PROVE  /\ Chain(i, [activate_context(y, t) EXCEPT !.tstat[t] = TS_RUNNABLE], S)
             /\ Chain(i, [y EXCEPT !.tstat[t] = TS_RUNNABLE], S)
             /\ Chain(i, [y EXCEPT !.tstat[t] = TS_SUSPENDED], S)
  BY <1>1 DEF Chain, ContextFields, SameContext, activate_context, TS_RUNNABLE, TS_SUSPENDED
<1>2. Chain(i, make_active(j, t), S)
  BY <1>1, ChainReady DEF make_active
<1>3. Chain(i, make_dormant(j, t), S \ {t})
  BY DEF Chain, ContextFields, SameContext, make_dormant
<1>4. ASSUME NEW y, Chain(i, y, S)
      PROVE  Chain(i, make_non_wait(y, t), S)
  BY <1>1, <1>4, ChainReady DEF make_non_wait
<1>5. Chain(i, wait_dequeue_wobj(j, t), S)
  BY DEF Chain, ContextFields, SameContext, wait_dequeue_wobj
<1>6. Chain(i, wait_dequeue_tmevtb(j, t), S)
  BY DEF Chain, ContextFields, SameContext, wait_dequeue_tmevtb
<1>7. Chain(i, set_wercd(wait_dequeue_tmevtb(j, t), t, "E_OK"), S)
  BY <1>6 DEF Chain, ContextFields, SameContext, set_wercd
<1>8. Chain(i, wait_complete(j, t), S)
  BY <1>4, <1>7 DEF wait_complete
<1> QED BY <1>2, <1>3, <1>4, <1>5, <1>6, <1>8

(* Dropping the request for a dispatch continues a chain. *)
LEMMA ChainVoid ==
  ASSUME NEW i, NEW S, NEW j, Chain(i, j, S), NEW b, b => j.dspflg
  PROVE  Chain(i, [j EXCEPT !.dspreq = b], S)
BY DEF Chain, ContextFields, SameContext

(* How an action leaves the context: it stays, or the dispatcher has run.  *)
Stays(j, r) ==
  /\ r.p_runtsk = j.p_runtsk /\ r.excpt_nest_count = j.excpt_nest_count
  /\ r.ipmflg = j.ipmflg /\ r.kerflg = j.kerflg /\ (j.reqflg => r.reqflg)
Dispatches(j, r) ==
  /\ r.kerflg /\ r.dspflg /\ ~r.lock
  /\ r.p_runtsk # NULL => r.excpt_nest_count = 0
Alive(r, S) == \A t \in S : r.tstat[t] # {}

(* A chain that ends with a dispatch, in a task, or in a handler. *)
LEMMA ChainDispatch ==
  ASSUME NEW j, NEW S, NEW y, Chain(j, y, S), j.kerflg
  PROVE  /\ j.dspflg => Dispatches(j, dispatcher(y)) /\ Alive(dispatcher(y), S)
         /\ (Stays(j, t_leave(y)) \/ Dispatches(j, t_leave(y))) /\ Alive(t_leave(y), S)
         /\ t_leave(y).ipmflg = j.ipmflg /\ dispatcher(y).ipmflg = j.ipmflg
         /\ Stays(j, i_leave(y)) /\ Alive(i_leave(y), S)
<1>1. PICK d : d = dispatcher(y)
  OBVIOUS
<1>2. /\ d.kerflg = y.kerflg /\ d.dspflg = y.dspflg /\ d.lock = FALSE /\ d.ipmflg = y.ipmflg
      /\ d.p_runtsk = y.p_schedtsk /\ d.tstat = y.tstat
      /\ d.excpt_nest_count = IF y.p_schedtsk = NULL THEN 1 ELSE 0
  BY <1>1 DEF dispatcher, Chain, ContextFields
<1>3. Alive(d, S) /\ (j.dspflg => Dispatches(j, d)) /\ d.ipmflg = j.ipmflg
  BY <1>2 DEF Alive, Chain, Dispatches, SameContext
<1>5. Stays(j, i_leave(y)) /\ Alive(i_leave(y), S)
  BY DEF i_leave, Stays, Alive, Chain, SameContext, ContextFields
<1>4. CASE y.dspreq
  <2>1. t_leave(y) = d /\ j.dspflg
    BY <1>1, <1>4 DEF t_leave, Chain, SameContext
  <2> QED BY <1>1, <1>3, <2>1, <1>5
<1>6. CASE ~y.dspreq
  <2>1. t_leave(y) = y
    BY <1>6 DEF t_leave
  <2>2. Stays(j, y) /\ Alive(y, S) /\ y.ipmflg = j.ipmflg
    BY DEF Stays, Alive, Chain, SameContext
  <2> QED BY <1>1, <1>3, <2>1, <2>2, <1>5
<1> QED BY <1>4, <1>6

-----------------------------------------------------------------------------
(* The frame on top of a stack is a frame. *)
LEMMA LastFrame ==
  ASSUME NEW f \in Seq(FrameRec), f # <<>>
  PROVE  /\ f[Len(f)] \in FrameRec /\ f[Len(f)].disdsp \in BOOLEAN
         /\ f[Len(f)].winfo \in Returnable /\ Len(f) \in Nat \ {0}
<1>1. Len(f) \in Nat /\ Len(f) # 0
  OBVIOUS
<1>2. f[Len(f)] \in FrameRec
  BY <1>1, ElementOfSeq
<1> QED BY <1>1, <1>2 DEF FrameRec

(* The exception fields of t are unchanged, or cleared. *)
SameTex(t) ==
  /\ tex'.frames[t] = tex.frames[t] /\ tex'.enatex[t] = tex.enatex[t]
  /\ tex'.texptn[t] = tex.texptn[t] /\ tex'.texrtn[t] = tex.texrtn[t]
ClearTex(t) == tex'.frames[t] = <<>> /\ ~tex'.enatex[t] /\ tex'.texptn[t] = {}

(* Where the conditions are not tested after a step, the task that goes on *)
(* has no new reason to start its routine.                                 *)
NoNewReason ==
  ~chk' /\ k'.p_runtsk = k.p_runtsk /\ k.p_runtsk # NULL /\ ~ClearTex(k.p_runtsk) =>
    /\ ~k'.ipmflg \/ k'.ipmflg = k.ipmflg
    /\ k.excpt_nest_count > 0 /\ k.reqflg => k'.excpt_nest_count > 0 /\ k'.reqflg

(* The steps of the kernel: they start no routine and return from none. *)
LEMMA TexFrame ==
  ASSUME TexIInv, Ready, IInv(k'), NoMutex(k'), TexType',
         \A t \in Task : \/ ClearTex(t)
                         \/ SameTex(t) /\ (k.tstat[t] # {} => k'.tstat[t] # {}),
         ChkOK', Resumes => chk' /\ Dispatches(k, k'), NoNewReason
  PROVE  TexIInv'
<1>1. TexTasks'
  <2> SUFFICES ASSUME NEW t \in Task
               PROVE  /\ PerTask(tex'.frames[t], tex'.enatex[t], tex'.texptn[t], tex'.texrtn[t])
                      /\ LoopOK(k', t, tex'.frames[t])
                      /\ DormantTex(k', t, tex'.frames[t], tex'.enatex[t], tex'.texptn[t])
    BY DEF TexTasks
  <2>1. CASE ClearTex(t)
    <3>1. PerTask(tex'.frames[t], tex'.enatex[t], tex'.texptn[t], tex'.texrtn[t])
      BY <2>1 DEF ClearTex, PerTask
    <3> QED BY <2>1, <3>1 DEF ClearTex, LoopOK, DormantTex
  <2>2. CASE ~ClearTex(t)
    <3>1. SameTex(t) /\ (k.tstat[t] # {} => k'.tstat[t] # {})
      BY <2>2
    <3>2. /\ PerTask(tex.frames[t], tex.enatex[t], tex.texptn[t], tex.texrtn[t])
          /\ LoopOK(k, t, tex.frames[t])
          /\ DormantTex(k, t, tex.frames[t], tex.enatex[t], tex.texptn[t])
      BY DEF TexIInv, TexTasks
    <3>3. PerTask(tex'.frames[t], tex'.enatex[t], tex'.texptn[t], tex'.texrtn[t])
      BY <3>1, <3>2 DEF SameTex
    <3>4. DormantTex(k', t, tex'.frames[t], tex'.enatex[t], tex'.texptn[t])
      BY <3>1, <3>2 DEF SameTex, DormantTex
    <3>5. LoopOK(k', t, tex.frames[t])
      <4> SUFFICES ASSUME tex.frames[t] # <<>>,
                          tex.frames[t][Len(tex.frames[t])].pc = "loop"
                   PROVE  LoopOK(k', t, tex.frames[t])
        BY DEF LoopOK
      <4>1. t # k.p_runtsk
        <5> SUFFICES ASSUME t = k.p_runtsk PROVE FALSE
          OBVIOUS
        <5>1. k.excpt_nest_count = 0 /\ k.p_runtsk # NULL
          BY <3>2, NullAssumption DEF LoopOK
        <5>2. k.kerflg
          BY <5>1 DEF TexIInv, IInv, Context, Boot
        <5>3. AtLoop
          BY <5>1, <5>2 DEF AtLoop, self, frame, Last
        <5> QED BY <5>3 DEF Ready
      <4>2. ~tex.frames[t][Len(tex.frames[t])].disdsp
        BY <3>2, <4>1 DEF LoopOK
      <4>3. CASE t # k'.p_runtsk
        BY <4>2, <4>3 DEF LoopOK
      <4>4. CASE t = k'.p_runtsk
        <5>1. Resumes
          BY <4>1, <4>4, NullAssumption DEF Resumes
        <5>2. k'.dspflg /\ ~k'.lock /\ k'.excpt_nest_count = 0
          BY <5>1, <4>4, NullAssumption DEF Dispatches
        <5>3. k'.ipmflg /\ k'.disdsp = FALSE
          <6>1. k'.disdsp \in BOOLEAN /\ FlagOK(k')
            BY DEF IInv, Static, Data
          <6>2. k'.ipmflg /\ ~k'.disdsp
            BY <5>2, <6>1 DEF FlagOK
          <6>3. ASSUME NEW a \in BOOLEAN, ~a PROVE a = FALSE
            BY <6>3
          <6>4. PICK a : a = k'.disdsp
            OBVIOUS
          <6>5. a = FALSE
            BY <6>1, <6>2, <6>3, <6>4
          <6> QED BY <6>2, <6>4, <6>5
        <5>4. tex.frames[t] \in Seq(FrameRec)
          BY DEF TexIInv, TexType
        <5>5. tex.frames[t][Len(tex.frames[t])].disdsp \in BOOLEAN
          BY <5>4, LastFrame
        <5> QED BY <5>2, <5>3, <5>5, <4>2, <4>4 DEF LoopOK
      <4> QED BY <4>3, <4>4
    <3> QED BY <3>1, <3>3, <3>4, <3>5 DEF SameTex
  <2> QED BY <2>1, <2>2
<1>2. TexStarted'
  <2> SUFFICES ASSUME k'.kerflg, k'.p_runtsk # NULL, ~chk', tex'.enatex[k'.p_runtsk],
                      tex'.texptn[k'.p_runtsk] # {}, k'.ipmflg
               PROVE  k'.excpt_nest_count > 0 /\ k'.reqflg
    BY DEF TexStarted, self
  <2>1. k'.p_runtsk = k.p_runtsk /\ k.p_runtsk # NULL /\ k.p_runtsk \in Task
    BY DEF Resumes, IInv, Static, Data
  <2>2. SameTex(k.p_runtsk) /\ ~ClearTex(k.p_runtsk)
    BY <2>1 DEF ClearTex
  <2>3. k.ipmflg /\ tex.enatex[k.p_runtsk] /\ tex.texptn[k.p_runtsk] # {}
    BY <2>1, <2>2 DEF NoNewReason, SameTex
  <2>4. k.kerflg
    BY <2>1 DEF TexIInv, IInv, Context, Boot
  <2>5. k.excpt_nest_count > 0 /\ k.reqflg
    BY <2>1, <2>3, <2>4 DEF TexIInv, TexStarted, Ready, self
  <2> QED BY <2>1, <2>2, <2>5 DEF NoNewReason
<1> QED BY <1>1, <1>2 DEF TexIInv

-----------------------------------------------------------------------------
(***************************************************************************)
(* The actions of the kernel that module TaskExcept composes.              *)
(***************************************************************************)
Live == {t \in Task : k.tstat[t] # {}}

(* The running task goes on in the same context, or the dispatcher has run *)
(* from a task or from the idle loop; only the tasks of S stay alive.      *)
Moves(r, S) ==
  /\ \/ Stays(k, r)
     \/ Dispatches(k, r) /\ r.ipmflg = k.ipmflg /\ (k.p_runtsk = NULL \/ k.excpt_nest_count = 0)
  /\ Alive(r, S)

(* Every service call starts a chain in which the live tasks are alive. *)
LEMMA ChainStart ==
  ASSUME IInv(k)
  PROVE  /\ Chain(k, k, Live) /\ KernelFields \subseteq DOMAIN k /\ DOMAIN k.tstat = Task
         /\ k.p_runtsk \in Task \cup {NULL}
         /\ \A t \in Task : k.tskatr[t] = "TA_NOEXS" => k.tstat[t] = {}
BY DEF IInv, Static, Data, SchedType, Context, Chain, ContextFields, KernelFields, SameContext,
       NoexsOK, Live

(* A chain that a task ends by leaving the call is a move. *)
LEMMA MovesLeave ==
  ASSUME IInv(k), k.kerflg, k.excpt_nest_count = 0, NEW S, NEW y, Chain(k, y, S)
  PROVE  Moves(t_leave(y), S) /\ (k.dspflg => Moves(dispatcher(y), S))
BY ChainDispatch DEF Moves

(* The start of the kernel, the idle loop and the return from a wait are   *)
(* moves.                                                                  *)
LEMMA MovesStart ==
  ASSUME IInv(k), Startup \/ idle_loop \/ wait_return
  PROVE  Moves(k', Live)
<1>1. CASE initialize_task
  <2>1. PICK t : t = torder[k.boot]
    OBVIOUS
  <2>2. PICK y : y = [k EXCEPT !.actque[t] = FALSE, !.mutex_queue[t] = <<>>]
    OBVIOUS
  <2>3. PICK z : z = IF t \in TaAct THEN Void(k, make_active(make_dormant(y, t), t))
                     ELSE make_dormant(y, t)
    OBVIOUS
  <2>4. k' = [z EXCEPT !.boot = @ + 1]
    BY <1>1, <2>1, <2>2, <2>3 DEF initialize_task
  <2>5. Chain(k, y, Live)
    BY <2>2, ChainStart DEF Chain, KernelFields, ContextFields, SameContext
  <2>6. k.tstat[t] = {}
    <3>1. k.boot \in Nat /\ ~k.kerflg /\ k.boot <= Len(torder) /\ Boot(k)
      BY <1>1 DEF initialize_task, IInv, Context, Static, Data
    <3>2. Len(torder) \in Nat
      BY TableAssumption
    <3>3. k.boot \in 1 .. Len(torder)
      BY <3>1, <3>2 DEF Boot
    <3>4. \A i \in 1 .. Len(torder) : i >= k.boot => k.tstat[torder[i]] = {}
      BY <3>1 DEF Boot
    <3>5. k.boot >= k.boot
      BY <3>1
    <3> QED BY <2>1, <3>3, <3>4, <3>5
  <2>7. Live \ {t} = Live
    BY <2>6 DEF Live
  <2> HIDE <2>2, <2>3
  <2>8. Chain(k, make_dormant(y, t), Live)
    BY <2>5, <2>7, ChainTask
  <2>9. Chain(k, make_active(make_dormant(y, t), t), Live)
    BY <2>8, ChainTask
  <2>10. k.dspreq => k.dspflg
    BY DEF IInv, Context
  <2>11. Chain(k, z, Live)
    <3>1. PICK w : w = make_active(make_dormant(y, t), t)
      OBVIOUS
    <3>2. Chain(k, w, Live)
      BY <2>9, <3>1
    <3>3. Chain(k, [w EXCEPT !.dspreq = k.dspreq], Live)
      BY <3>2, <2>10, ChainVoid DEF Chain, SameContext
    <3> QED BY <2>3, <2>8, <3>1, <3>3 DEF Void
  <2>12. Stays(k, k') /\ Alive(k', Live)
    BY <2>4, <2>11 DEF Stays, Alive, Chain, SameContext, ContextFields
  <2> QED BY <2>12 DEF Moves
<1>2. CASE start_dispatch \/ idle_loop
  <2>1. PICK y : /\ \/ y = [k EXCEPT !.kerflg = TRUE]
                    \/ y = [k EXCEPT !.reqflg = FALSE] /\ k.kerflg
                 /\ k' = dispatcher(y)
    BY <1>2 DEF start_dispatch, idle_loop
  <2>2. k.p_runtsk = NULL /\ k.dspflg
    BY <1>2 DEF start_dispatch, idle_loop, IInv, Context, Boot, Running, Idle
  <2>3. /\ y.kerflg /\ y.dspflg = k.dspflg /\ y.ipmflg = k.ipmflg /\ y.tstat = k.tstat
        /\ KernelFields \subseteq DOMAIN y
    BY <2>1, ChainStart DEF KernelFields
  <2> HIDE <2>1
  <2>4. PICK d : d = dispatcher(y)
    OBVIOUS
  <2>5. /\ d.kerflg = y.kerflg /\ d.dspflg = y.dspflg /\ d.lock = FALSE /\ d.ipmflg = y.ipmflg
        /\ d.p_runtsk = y.p_schedtsk /\ d.tstat = y.tstat
        /\ d.excpt_nest_count = IF y.p_schedtsk = NULL THEN 1 ELSE 0
    BY <2>3, <2>4 DEF dispatcher, KernelFields
  <2> QED BY <2>1, <2>2, <2>3, <2>4, <2>5 DEF Moves, Dispatches, Alive, Live
<1>3. CASE wait_return
  <2>1. Stays(k, k') /\ Alive(k', Live)
    BY <1>3, ChainStart DEF wait_return, Stays, Alive, Live, KernelFields
  <2> QED BY <2>1 DEF Moves
<1> QED BY <1>1, <1>2, <1>3 DEF Startup

(* The state in which acre_tsk leaves, in terms of the TCB it takes.       *)
LEMMA CreateLeaves ==
  ASSUME NEW p, NEW b, acre_tsk(p, b), NEW u, u = Head(k.free_tcb), NEW y,
         y = [k EXCEPT !.free_tcb = Tail(@), !.tskatr[u] = "TA_NULL",
                       !.ipriority[u] = p, !.actque[u] = FALSE, !.mutex_queue[u] = <<>>]
  PROVE  k' = t_leave(IF b THEN make_active(make_dormant(y, u), u) ELSE make_dormant(y, u))
BY DEF acre_tsk

(* The calls on other tasks that appear in programs with exceptions are    *)
(* moves.                                                                  *)
LEMMA MovesCall ==
  ASSUME IInv(k), NEW t \in Task,
         \/ \E ipriority \in TPRI, b \in BOOLEAN : acre_tsk(ipriority, b)
         \/ del_tsk(t) \/ (TSTAT_DORMANT(k, t) /\ act_tsk(t)) \/ wup_tsk(t) \/ iwup_tsk(t)
  PROVE  Moves(k', Live)
<1>1. ASSUME NEW ipriority \in TPRI, NEW b \in BOOLEAN, acre_tsk(ipriority, b)
      PROVE  Moves(k', Live)
  <2>0. k.kerflg /\ k.excpt_nest_count = 0
    BY <1>1 DEF acre_tsk, CHECK_TSKCTX_UNL, TSKCTX
  <2>1. PICK u : u = Head(k.free_tcb)
    OBVIOUS
  <2>2. PICK y : y = [k EXCEPT !.free_tcb = Tail(@), !.tskatr[u] = "TA_NULL",
                               !.ipriority[u] = ipriority, !.actque[u] = FALSE,
                               !.mutex_queue[u] = <<>>]
    OBVIOUS
  <2>3. k' = t_leave(IF b THEN make_active(make_dormant(y, u), u) ELSE make_dormant(y, u))
    BY <1>1, <2>1, <2>2, CreateLeaves
  <2>4. Chain(k, y, Live)
    BY <2>2, ChainStart DEF Chain, KernelFields, ContextFields, SameContext
  <2>5. k.tstat[u] = {}
    <3>1. k.free_tcb \in Seq(Task) /\ k.free_tcb # <<>> /\ FreeOK(k)
      BY <1>1 DEF acre_tsk, IInv, Static, Data
    <3>2. u \in Task /\ u = k.free_tcb[1] /\ 1 \in 1 .. Len(k.free_tcb)
      BY <2>1, <3>1
    <3>3. k.tskatr[u] = "TA_NOEXS"
      BY <3>1, <3>2 DEF FreeOK
    <3> QED BY <3>2, <3>3, ChainStart
  <2>6. Live \ {u} = Live
    BY <2>5 DEF Live
  <2> HIDE <2>2
  <2>7. Chain(k, make_dormant(y, u), Live)
    BY <2>4, <2>6, ChainTask
  <2>8. Chain(k, make_active(make_dormant(y, u), u), Live)
    BY <2>7, ChainTask
  <2> QED BY <2>0, <2>3, <2>7, <2>8, MovesLeave
<1>2. CASE del_tsk(t)
  <2>1. Stays(k, k') /\ Alive(k', Live)
    BY <1>2, ChainStart DEF del_tsk, Stays, Alive, Live, KernelFields
  <2> QED BY <2>1 DEF Moves
<1>3. CASE TSTAT_DORMANT(k, t) /\ act_tsk(t)
  <2>1. k' = t_leave(make_active(k, t)) /\ k.kerflg /\ k.excpt_nest_count = 0
    BY <1>3 DEF act_tsk, activate, CHECK_TSKCTX_UNL, TSKCTX
  <2> QED BY <2>1, ChainStart, ChainTask, MovesLeave
<1>4. Chain(k, wakeup(t), Live)
  <2>1. Chain(k, [k EXCEPT !.wupque[t] = TRUE], Live)
    BY ChainStart DEF Chain, KernelFields, ContextFields, SameContext
  <2> QED BY <2>1, ChainStart, ChainTask DEF wakeup
<1>5. CASE wup_tsk(t)
  <2>1. k' = t_leave(wakeup(t)) /\ k.kerflg /\ k.excpt_nest_count = 0
    BY <1>5 DEF wup_tsk, CHECK_TSKCTX_UNL, TSKCTX
  <2> QED BY <1>4, <2>1, MovesLeave
<1>6. CASE iwup_tsk(t)
  <2>1. k' = i_leave(wakeup(t)) /\ k.kerflg
    BY <1>6 DEF iwup_tsk, CHECK_INTCTX_UNL, INTCTX
  <2> QED BY <1>4, <2>1, ChainDispatch DEF Moves
<1> QED BY <1>1, <1>2, <1>3, <1>5, <1>6

(* What the dispatcher does to the context. *)
LEMMA DispatchFields ==
  ASSUME NEW y, KernelFields \subseteq DOMAIN y, NEW d, d = dispatcher(y)
  PROVE  /\ d.kerflg = y.kerflg /\ d.dspflg = y.dspflg /\ d.lock = FALSE /\ d.ipmflg = y.ipmflg
         /\ d.disdsp = y.disdsp /\ d.p_runtsk = y.p_schedtsk /\ d.tstat = y.tstat
         /\ d.excpt_nest_count = IF y.p_schedtsk = NULL THEN 1 ELSE 0
BY DEF dispatcher, KernelFields

(* Sleeping, the CPU lock and disabling dispatching are moves. *)
LEMMA MovesSys ==
  ASSUME IInv(k), slp_tsk(FALSE) \/ loc_cpu \/ unl_cpu \/ dis_dsp \/ ena_dsp
  PROVE  Moves(k', Live)
<1>0. k.kerflg /\ k.excpt_nest_count = 0
  BY DEF slp_tsk, loc_cpu, unl_cpu, dis_dsp, ena_dsp, CHECK_DISPATCH, CHECK_TSKCTX_UNL, TSKCTX
<1>1. CASE slp_tsk(FALSE)
  <2>1. CASE k.wupque[k.p_runtsk]
    <3>1. Stays(k, k') /\ Alive(k', Live)
      BY <1>1, <2>1, ChainStart DEF slp_tsk, Stays, Alive, Live, KernelFields
    <3> QED BY <3>1 DEF Moves
  <2>2. CASE ~k.wupque[k.p_runtsk]
    <3>1. PICK b : b = begin_wait("SLP")
      OBVIOUS
    <3>2. PICK n : n = make_non_runnable(b, b.p_runtsk)
      OBVIOUS
    <3>3. PICK v : v = [n EXCEPT !.dspreq = b.dspreq]
      OBVIOUS
    <3>4. PICK w : w = [v EXCEPT !.winfo[b.p_runtsk] = "NULL"]
      OBVIOUS
    <3>5. k' = dispatcher(w) /\ k.dspflg
      BY <1>1, <2>2, <3>1, <3>2, <3>3, <3>4
         DEF slp_tsk, make_wait_tmout, make_wait, Void, CHECK_DISPATCH
    <3>6. Chain(k, b, Live) /\ ~b.dspreq
      BY <3>1, ChainStart
         DEF begin_wait, TS_WAITING, Chain, KernelFields, ContextFields, SameContext, IInv, Context
    <3> HIDE <3>1
    <3>7. Chain(k, n, Live)
      BY <3>2, <3>6, ChainReady
    <3> HIDE <3>2
    <3>8. Chain(k, v, Live)
      BY <3>3, <3>6, <3>7, ChainVoid
    <3> HIDE <3>3
    <3>9. Chain(k, w, Live)
      BY <3>4, <3>8 DEF Chain, ContextFields, SameContext
    <3> HIDE <3>4
    <3> QED BY <1>0, <3>5, <3>9, MovesLeave
  <2> QED BY <2>1, <2>2
<1>2. CASE loc_cpu \/ unl_cpu \/ dis_dsp
  <2>1. Stays(k, k') /\ Alive(k', Live)
    BY <1>2, ChainStart, ZenonT(60) DEF loc_cpu, unl_cpu, dis_dsp, Stays, Alive, Live, KernelFields
  <2> QED BY <2>1 DEF Moves
<1>3. CASE ena_dsp
  <2>1. PICK y : y = [k EXCEPT !.disdsp = FALSE]
    OBVIOUS
  <2>2. PICK z : z = [y EXCEPT !.dspflg = TRUE]
    OBVIOUS
  <2>3. k' \in {y, z, dispatcher(z)}
    BY <1>3, <2>1, <2>2 DEF ena_dsp, enable_dispatch
  <2>4. /\ KernelFields \subseteq DOMAIN z /\ z.kerflg = k.kerflg /\ z.dspflg = TRUE
        /\ z.ipmflg = k.ipmflg /\ z.tstat = k.tstat
        /\ Stays(k, y) /\ Alive(y, Live) /\ Stays(k, z) /\ Alive(z, Live)
    BY <2>1, <2>2, ChainStart DEF KernelFields, Stays, Alive, Live
  <2> HIDE <2>1, <2>2
  <2>5. Dispatches(k, dispatcher(z)) /\ Alive(dispatcher(z), Live)
        /\ dispatcher(z).ipmflg = k.ipmflg
    <3>1. PICK d : d = dispatcher(z)
      OBVIOUS
    <3>2. /\ d.kerflg = z.kerflg /\ d.dspflg = z.dspflg /\ d.lock = FALSE /\ d.ipmflg = z.ipmflg
          /\ d.p_runtsk = z.p_schedtsk /\ d.tstat = z.tstat
          /\ d.excpt_nest_count = IF z.p_schedtsk = NULL THEN 1 ELSE 0
      BY <2>4, <3>1, DispatchFields
    <3>3. Dispatches(k, d) /\ Alive(d, Live) /\ d.ipmflg = k.ipmflg
      BY <1>0, <2>4, <3>2 DEF Dispatches, Alive, Live
    <3> QED BY <3>1, <3>3
  <2> QED BY <1>0, <2>3, <2>4, <2>5 DEF Moves
<1> QED BY <1>1, <1>2, <1>3

(* end_task without mutexes makes only the task itself dormant. *)
LEMMA ChainEnd ==
  ASSUME NEW i, NEW S, NEW y, Chain(i, y, S), NoMutex(y), NEW t \in Task
  PROVE  Chain(i, end_task(y, t), S \ {t})
<1>1. PICK d : d = make_dormant(y, t)
  OBVIOUS
<1>2. Chain(i, d, S \ {t})
  BY <1>1, ChainTask
<1>3. PICK z : z = [d EXCEPT !.actque[t] = FALSE]
  OBVIOUS
<1>4. Chain(i, z, S \ {t})
  BY <1>2, <1>3 DEF Chain, ContextFields, SameContext
<1>5. end_task(y, t) = IF d.actque[t] THEN make_active(z, t) ELSE d
  BY <1>1, <1>3 DEF end_task, NoMutex
<1> HIDE <1>1, <1>3
<1>6. Chain(i, make_active(z, t), S \ {t})
  BY <1>4, ChainTask
<1> QED BY <1>2, <1>5, <1>6

(* ter_tsk is a move that ends its task only. *)
LEMMA MovesTer ==
  ASSUME IInv(k), NoMutex(k), NEW t \in Task, ter_tsk(t)
  PROVE  Moves(k', Live \ {t})
<1>0. k.kerflg /\ k.excpt_nest_count = 0
  BY DEF ter_tsk, CHECK_TSKCTX_UNL, TSKCTX
<1>1. PICK y : y = IF TSTAT_RUNNABLE(k, t) THEN Void(k, make_non_runnable(k, t))
               ELSE IF TSTAT_WAITING(k, t)
                    THEN wait_dequeue_tmevtb(wait_dequeue_wobj(k, t), t)
                    ELSE k
  OBVIOUS
<1>2. k' = t_leave(end_task(y, t))
  BY <1>1 DEF ter_tsk
<1>3. Chain(k, y, Live)
  <2>1. Chain(k, wait_dequeue_tmevtb(wait_dequeue_wobj(k, t), t), Live)
    BY ChainStart, ChainTask
  <2>2. Chain(k, Void(k, make_non_runnable(k, t)), Live)
    <3>1. PICK n : n = make_non_runnable(k, t)
      OBVIOUS
    <3>2. Chain(k, n, Live)
      BY <3>1, ChainStart, ChainReady
    <3>3. Chain(k, [n EXCEPT !.dspreq = k.dspreq], Live)
      BY <3>2, ChainVoid DEF IInv, Context
    <3> QED BY <3>1, <3>3 DEF Void
  <2> QED BY <1>1, <2>1, <2>2, ChainStart
<1>4. NoMutex(y)
  BY <1>1, NoMutexReady, NoMutexLeave, NoMutexTask
<1> HIDE <1>1
<1>5. Chain(k, end_task(y, t), Live \ {t})
  BY <1>3, <1>4, ChainEnd
<1> QED BY <1>0, <1>2, <1>5, MovesLeave

(* ext_tsk enables dispatching before it leaves. *)
LEMMA MovesExt ==
  ASSUME IInv(k), NoMutex(k), ext_tsk
  PROVE  Dispatches(k, k') /\ Alive(k', Live \ {k.p_runtsk}) /\ k.p_runtsk \in Task
<1>0. k.kerflg /\ k.excpt_nest_count = 0 /\ k.p_runtsk \in Task
  BY TaskContext DEF ext_tsk, TSKCTX
<1>1. PICK t \in Task : t = k.p_runtsk
  BY <1>0
<1>2. PICK y : y = [k EXCEPT !.disdsp = FALSE, !.ipmflg = TRUE, !.dspflg = TRUE]
  OBVIOUS
<1>3. PICK n : n = make_non_runnable(y, t)
  OBVIOUS
<1>4. k' = dispatcher(end_task(n, t))
  BY <1>1, <1>2, <1>3 DEF ext_tsk
<1>5. Chain(y, y, Live) /\ NoMutex(y) /\ y.dspflg /\ y.kerflg
  BY <1>0, <1>2, ChainStart DEF Chain, KernelFields, ContextFields, SameContext, NoMutex
<1> HIDE <1>2
<1>6. Chain(y, n, Live) /\ NoMutex(n)
  BY <1>3, <1>5, ChainReady, NoMutexReady
<1> HIDE <1>3
<1>7. Chain(y, end_task(n, t), Live \ {t})
  BY <1>6, ChainEnd
<1>8. Dispatches(y, k') /\ Alive(k', Live \ {t})
  BY <1>4, <1>5, <1>7, ChainDispatch
<1> QED BY <1>0, <1>1, <1>8 DEF Dispatches

(* An interrupt leaves the tasks and the flags alone. *)
LEMMA MovesIntEntry ==
  ASSUME IInv(k), int_entry
  PROVE  /\ Alive(k', Live) /\ k'.kerflg = k.kerflg /\ k'.p_runtsk = k.p_runtsk
         /\ k'.ipmflg = k.ipmflg /\ k'.reqflg = k.reqflg /\ k'.excpt_nest_count > 0
<1>1. KernelFields \subseteq DOMAIN k /\ k.excpt_nest_count \in Nat
  BY MaxNestAssumption DEF IInv, Static, Data
<1>2. /\ k'.p_runtsk = k.p_runtsk /\ k'.kerflg = k.kerflg /\ k'.tstat = k.tstat
      /\ k'.excpt_nest_count = k.excpt_nest_count + 1 /\ k'.ipmflg = k.ipmflg
      /\ k'.reqflg = k.reqflg
  BY <1>1 DEF int_entry, KernelFields
<1> QED BY <1>1, <1>2 DEF Alive, Live

(* Only the last handler looks at reqflg; it dispatches or returns to the  *)
(* interrupted task.                                                       *)
LEMMA MovesIntReturn ==
  ASSUME IInv(k), ret_int
  PROVE  /\ Alive(k', Live)
         /\ \/ Dispatches(k, k') /\ k'.p_runtsk # k.p_runtsk
            \/ /\ k'.p_runtsk = k.p_runtsk /\ k'.ipmflg = k.ipmflg /\ k'.kerflg
               /\ k.reqflg /\ k'.excpt_nest_count # 0 =>
                    k'.excpt_nest_count > 0 /\ k'.reqflg
<1>1. /\ k.kerflg /\ KernelFields \subseteq DOMAIN k
      /\ k.excpt_nest_count \in Nat /\ k.excpt_nest_count > 0
  BY MaxNestAssumption DEF IInv, ret_int, INTCTX, Static, Data
<1>2. PICK n \in Nat : n = k.excpt_nest_count - 1
  BY <1>1
<1>3. PICK y : y = [k EXCEPT !.excpt_nest_count = n, !.lock = FALSE]
  OBVIOUS
<1>4. PICK z : z = [y EXCEPT !.reqflg = FALSE]
  OBVIOUS
<1>5. k' = IF n > 0 \/ ~k.reqflg THEN y
           ELSE IF k.dspflg /\ k.p_runtsk # k.p_schedtsk THEN dispatcher(z) ELSE z
  <2>1. y = [k EXCEPT !.excpt_nest_count = @ - 1, !.lock = FALSE]
    BY <1>2, <1>3
  <2>2. y.excpt_nest_count = n
    BY <1>1, <1>3 DEF KernelFields
  <2> QED BY <1>4, <2>1, <2>2 DEF ret_int
<1>6. /\ y.p_runtsk = k.p_runtsk /\ y.ipmflg = k.ipmflg /\ y.kerflg = k.kerflg
      /\ y.excpt_nest_count = n /\ y.reqflg = k.reqflg /\ y.tstat = k.tstat
      /\ z.p_runtsk = k.p_runtsk /\ z.ipmflg = k.ipmflg /\ z.kerflg = k.kerflg
      /\ z.excpt_nest_count = n /\ z.tstat = k.tstat /\ z.dspflg = k.dspflg
      /\ z.p_schedtsk = k.p_schedtsk /\ KernelFields \subseteq DOMAIN z
  BY <1>1, <1>3, <1>4 DEF KernelFields
<1> HIDE <1>2, <1>3, <1>4
<1>7. CASE n > 0 \/ ~k.reqflg
  <2>1. k' = y
    BY <1>5, <1>7
  <2> QED BY <1>1, <1>6, <1>7, <2>1 DEF Alive, Live
<1>8. CASE n = 0 /\ k.reqflg /\ k.dspflg /\ k.p_runtsk # k.p_schedtsk
  <2>1. k' = dispatcher(z)
    BY <1>5, <1>8
  <2>2. /\ k'.kerflg = z.kerflg /\ k'.dspflg = z.dspflg /\ k'.lock = FALSE
        /\ k'.p_runtsk = z.p_schedtsk /\ k'.tstat = z.tstat
        /\ k'.excpt_nest_count = IF z.p_schedtsk = NULL THEN 1 ELSE 0
    BY <1>6, <2>1, DispatchFields
  <2> QED BY <1>1, <1>6, <1>8, <2>2 DEF Dispatches, Alive, Live
<1>9. CASE n = 0 /\ k.reqflg /\ ~(k.dspflg /\ k.p_runtsk # k.p_schedtsk)
  <2>1. k' = z
    BY <1>5, <1>9
  <2> QED BY <1>1, <1>6, <1>9, <2>1 DEF Alive, Live
<1> QED BY <1>7, <1>8, <1>9

(* chg_ipm keeps the running task or dispatches when it lowers the mask. *)
LEMMA MovesIpm ==
  ASSUME IInv(k), NEW b \in BOOLEAN, chg_ipm(b)
  PROVE  /\ Alive(k', Live) /\ k.excpt_nest_count = 0 /\ k'.kerflg
         /\ \/ Dispatches(k, k') /\ b
            \/ /\ k'.p_runtsk = k.p_runtsk /\ k'.excpt_nest_count = 0
               /\ ~b => ~k'.ipmflg
<1>1. k.kerflg /\ k.excpt_nest_count = 0 /\ KernelFields \subseteq DOMAIN k
  BY DEF IInv, Static, Data, chg_ipm, CHECK_TSKCTX_UNL, TSKCTX
<1>2. PICK y : y = [k EXCEPT !.ipmflg = b]
  OBVIOUS
<1>3. PICK z : z = [y EXCEPT !.dspflg = TRUE]
  OBVIOUS
<1>4. \/ ~b /\ k' = [y EXCEPT !.dspflg = FALSE]
      \/ b /\ k' \in {y, z, dispatcher(z)}
  BY <1>2, <1>3 DEF chg_ipm, enable_dispatch
<1>5. CASE ~b
  BY <1>1, <1>2, <1>4, <1>5 DEF KernelFields, Alive, Live
<1>6. CASE b /\ k' \in {y, z}
  <2>1. /\ y.p_runtsk = k.p_runtsk /\ y.excpt_nest_count = k.excpt_nest_count
        /\ y.kerflg = k.kerflg /\ y.tstat = k.tstat
        /\ z.p_runtsk = k.p_runtsk /\ z.excpt_nest_count = k.excpt_nest_count
        /\ z.kerflg = k.kerflg /\ z.tstat = k.tstat
    BY <1>1, <1>2, <1>3 DEF KernelFields
  <2> HIDE <1>2, <1>3
  <2> QED BY <1>1, <1>6, <2>1 DEF Alive, Live
<1>7. CASE b /\ k' = dispatcher(z)
  <2>1. /\ KernelFields \subseteq DOMAIN z /\ z.dspflg = TRUE /\ z.kerflg = k.kerflg /\ z.tstat = k.tstat
    BY <1>1, <1>2, <1>3 DEF KernelFields
  <2> HIDE <1>2, <1>3
  <2>2. /\ k'.kerflg = z.kerflg /\ k'.dspflg = z.dspflg /\ k'.lock = FALSE
        /\ k'.p_runtsk = z.p_schedtsk /\ k'.tstat = z.tstat
        /\ k'.excpt_nest_count = IF z.p_schedtsk = NULL THEN 1 ELSE 0
    BY <1>7, <2>1, DispatchFields
  <2> QED BY <1>1, <1>7, <2>1, <2>2 DEF Dispatches, Alive, Live
<1> QED BY <1>4, <1>5, <1>6, <1>7

-----------------------------------------------------------------------------
(***************************************************************************)
(* The kernel's calls preserve TexIInv.                                    *)
(***************************************************************************)
LEMMA TexMoves ==
  ASSUME TexIInv, Ready, IInv(k'), NoMutex(k'), chk' = Resumes, NEW S, Moves(k', S),
         TexType',
         \A t \in Task : ClearTex(t) \/ (SameTex(t) /\ (t \in Live => t \in S))
  PROVE  TexIInv'
<1>1. \A t \in Task : \/ ClearTex(t)
                      \/ SameTex(t) /\ (k.tstat[t] # {} => k'.tstat[t] # {})
  BY DEF Moves, Alive, Live
<1>2. Resumes => chk' /\ Dispatches(k, k')
  BY DEF Moves, Stays, Resumes
<1>3. ChkOK'
  <2> SUFFICES ASSUME chk' PROVE k'.kerflg /\ k'.excpt_nest_count = 0 /\ k'.p_runtsk # NULL
    BY DEF ChkOK
  <2>1. Resumes
    OBVIOUS
  <2> QED BY <2>1, <1>2 DEF Dispatches, Resumes
<1>4. NoNewReason
  BY DEF NoNewReason, Moves, Stays
<1> QED BY <1>1, <1>2, <1>3, <1>4, TexFrame

(* A step of the kernel alone leaves the exception state as it is. *)
LEMMA TexSameType ==
  ASSUME TexIInv, UNCHANGED tex, chk' \in BOOLEAN
  PROVE  TexType' /\ \A t \in Task : SameTex(t)
BY DEF TexIInv, TexType, SameTex

(* The kernel's own calls preserve the invariant. *)
LEMMA KernelCallsTex ==
  ASSUME TexIInv, KernelCalls
  PROVE  TexIInv'
<1>0. IInv(k) /\ NoMutex(k) /\ TexType
  BY DEF TexIInv
<1>a. ASSUME Next PROVE IInv(k') /\ NoMutex(k')
  BY <1>0, <1>a, NextIInv, NextNoMutex
<1>b. ASSUME Ready, Next, chk' = Resumes, Moves(k', Live), UNCHANGED tex
      PROVE  TexIInv'
  <2>1. chk' \in BOOLEAN
    BY <1>b DEF Resumes
  <2> QED BY <1>a, <1>b, <2>1, TexSameType, TexMoves
<1>1. CASE TaskCall(Startup \/ idle_loop \/ wait_return) /\ UNCHANGED tex
  <2>1. Next /\ Moves(k', Live)
    BY <1>0, <1>1, MovesStart DEF TaskCall, Next, Processor
  <2> QED BY <1>1, <2>1, <1>b DEF TaskCall
<1>2. ASSUME NEW ipriority \in TPRI, NEW b \in BOOLEAN, TaskCall(acre_tsk(ipriority, b)),
             tex' = [tex EXCEPT !.texrtn[Head(k.free_tcb)] = FALSE]
      PROVE  TexIInv'
  <2>2. Next
    BY <1>2 DEF TaskCall, Next, TaskManage
  <2>3. PICK u : u = Head(k.free_tcb)
    OBVIOUS
  <2>4. u \in Task /\ k.tstat[u] = {}
    <3>1. k.free_tcb \in Seq(Task) /\ k.free_tcb # <<>> /\ FreeOK(k)
      BY <1>0, <1>2 DEF TaskCall, acre_tsk, IInv, Static, Data
    <3>2. u \in Task /\ u = k.free_tcb[1] /\ 1 \in 1 .. Len(k.free_tcb)
      BY <2>3, <3>1
    <3>3. k.tskatr[u] = "TA_NOEXS"
      BY <3>1, <3>2 DEF FreeOK
    <3> QED BY <1>0, <3>2, <3>3, ChainStart
  <2>5. Moves(k', Live)
    BY <1>0, <1>2, <2>4, MovesCall DEF TaskCall
  <2>6. chk' \in BOOLEAN /\ chk' = Resumes
    BY <1>2 DEF TaskCall, Resumes
  <2>7. TexType'
    BY <1>0, <1>2, <2>3, <2>4, <2>6 DEF TexType
  <2>8. \A t \in Task : IF t = u THEN ClearTex(t) ELSE SameTex(t)
    BY <1>0, <1>2, <2>3, <2>4 DEF TexIInv, TexTasks, TexType, DormantTex, ClearTex, SameTex
  <2>9. Ready
    BY <1>2 DEF TaskCall
  <2> QED BY <1>a, <2>2, <2>5, <2>6, <2>7, <2>8, <2>9, TexMoves
<1>c. ASSUME NEW t \in Task, tex' = make_dormant_tex(t), chk' \in BOOLEAN
      PROVE  /\ TexType'
             /\ \A u \in Task : IF u = t THEN ClearTex(u) ELSE SameTex(u)
  BY <1>0, <1>c DEF TexType, make_dormant_tex, ClearTex, SameTex
<1>3. CASE TaskCall(ext_tsk) /\ tex' = make_dormant_tex(self)
  <2>1. Next /\ Ready /\ ext_tsk /\ chk' = Resumes
    BY <1>3 DEF TaskCall, Next, TaskManage
  <2>2. Dispatches(k, k') /\ Alive(k', Live \ {k.p_runtsk}) /\ k.p_runtsk \in Task
    BY <1>0, <2>1, MovesExt
  <2>3. chk' \in BOOLEAN
    BY <2>1 DEF Resumes
  <2>4. /\ TexType'
        /\ \A u \in Task : IF u = k.p_runtsk THEN ClearTex(u) ELSE SameTex(u)
    BY <1>3, <1>c, <2>2, <2>3 DEF self
  <2>5. \A t \in Task : \/ ClearTex(t)
                        \/ SameTex(t) /\ (k.tstat[t] # {} => k'.tstat[t] # {})
    BY <2>2, <2>4 DEF Alive, Live
  <2>6. ChkOK'
    BY <2>1, <2>2 DEF ChkOK, Resumes, Dispatches
  <2>7. NoNewReason
    BY <2>2, <2>4 DEF NoNewReason
  <2> QED BY <1>a, <2>1, <2>2, <2>4, <2>5, <2>6, <2>7, TexFrame
<1>4. ASSUME NEW t \in Task, TaskCall(ter_tsk(t)), tex' = make_dormant_tex(t)
      PROVE  TexIInv'
  <2>1. Next /\ Ready /\ ter_tsk(t) /\ chk' = Resumes
    BY <1>4 DEF TaskCall, Next, TaskManage
  <2>2. Moves(k', Live \ {t}) /\ chk' \in BOOLEAN
    BY <1>0, <2>1, MovesTer DEF Resumes
  <2>3. /\ TexType'
        /\ \A u \in Task : IF u = t THEN ClearTex(u) ELSE SameTex(u)
    BY <1>4, <1>c, <2>2
  <2>4. \A u \in Task : ClearTex(u) \/ (SameTex(u) /\ (u \in Live => u \in Live \ {t}))
    BY <2>3
  <2> QED BY <1>a, <2>1, <2>2, <2>3, <2>4, TexMoves
<1>5. ASSUME NEW t \in Task, UNCHANGED tex,
             TaskCall(del_tsk(t) \/ (TSTAT_DORMANT(k, t) /\ act_tsk(t)) \/ wup_tsk(t) \/ iwup_tsk(t))
      PROVE  TexIInv'
  <2>1. Next /\ Moves(k', Live)
    BY <1>0, <1>5, MovesCall DEF TaskCall, Next, TaskManage, TaskSync
  <2> QED BY <1>5, <2>1, <1>b DEF TaskCall
<1>6. CASE TaskCall(slp_tsk(FALSE) \/ loc_cpu \/ unl_cpu \/ dis_dsp \/ ena_dsp) /\ UNCHANGED tex
  <2>1. Next /\ Moves(k', Live)
    BY <1>0, <1>6, MovesSys DEF TaskCall, Next, TaskSync, SysManage
  <2> QED BY <1>6, <2>1, <1>b DEF TaskCall
<1>7. CASE Ready /\ int_entry /\ UNCHANGED <<tex, chk>>
  <2>1. Next /\ Ready /\ ~chk' /\ chk' \in BOOLEAN
    BY <1>0, <1>7 DEF Next, Processor, Ready, TexType
  <2>2. /\ Alive(k', Live) /\ k'.kerflg = k.kerflg /\ k'.p_runtsk = k.p_runtsk
        /\ k'.ipmflg = k.ipmflg /\ k'.reqflg = k.reqflg /\ k'.excpt_nest_count > 0
    BY <1>0, <1>7, MovesIntEntry
  <2>3. TexType' /\ \A t \in Task : SameTex(t)
    BY <1>7, <2>1, TexSameType
  <2>4. \A t \in Task : SameTex(t) /\ (k.tstat[t] # {} => k'.tstat[t] # {})
    BY <2>2, <2>3 DEF Alive, Live
  <2>5. ChkOK' /\ NoNewReason /\ ~Resumes
    BY <2>1, <2>2 DEF ChkOK, NoNewReason, Resumes
  <2> QED BY <1>a, <2>1, <2>3, <2>4, <2>5, TexFrame
<1> QED BY <1>1, <1>2, <1>3, <1>4, <1>5, <1>6, <1>7 DEF KernelCalls

-----------------------------------------------------------------------------
(***************************************************************************)
(* The frames of call_texrtn.                                              *)
(***************************************************************************)
LEMMA FrameSet ==
  ASSUME NEW f \in Seq(FrameRec), f # <<>>, NEW e \in FrameRec,
         NEW g, g = [f EXCEPT ![Len(f)] = e]
  PROVE  /\ g \in Seq(FrameRec) /\ Len(g) = Len(f) /\ g # <<>> /\ g[Len(g)] = e
         /\ \A i \in 1 .. Len(g) - 1 : g[i] = f[i]
<1>1. Len(f) \in Nat /\ Len(f) # 0 /\ Len(f) \in 1 .. Len(f)
  OBVIOUS
<1>2. g \in Seq(FrameRec) /\ Len(g) = Len(f)
  BY <1>1
<1>3. \A i \in 1 .. Len(f) : g[i] = IF i = Len(f) THEN e ELSE f[i]
  BY <1>1
<1>4. g[Len(g)] = e /\ g # <<>>
  BY <1>1, <1>2, <1>3
<1>5. \A i \in 1 .. Len(g) - 1 : g[i] = f[i]
  <2>1. PICK n \in Nat : n = Len(f)
    BY <1>1
  <2>2. \A i \in 1 .. n - 1 : i \in 1 .. n /\ i # n
    OBVIOUS
  <2>3. \A i \in 1 .. n - 1 : g[i] = f[i]
    BY <2>1, <2>2, <1>3
  <2> QED BY <2>1, <2>3, <1>2
<1> QED BY <1>2, <1>4, <1>5

(* A frame that is pushed is on top of the others. *)
LEMMA FramePush ==
  ASSUME NEW f \in Seq(FrameRec), NEW e \in FrameRec, NEW g, g = Append(f, e)
  PROVE  /\ g \in Seq(FrameRec) /\ Len(g) = Len(f) + 1 /\ g # <<>> /\ g[Len(g)] = e
         /\ \A i \in 1 .. Len(g) - 1 : i \in 1 .. Len(f) /\ g[i] = f[i]
<1>1. Len(f) \in Nat /\ Len(g) = Len(f) + 1 /\ g \in Seq(FrameRec)
  OBVIOUS
<1>2. \A i \in 1 .. Len(f) : g[i] = f[i]
  OBVIOUS
<1>3. g[Len(f) + 1] = e
  OBVIOUS
<1>4. \A i \in 1 .. Len(g) - 1 : i \in 1 .. Len(f)
  BY <1>1
<1>5. g # <<>>
  BY <1>1
<1> QED BY <1>1, <1>2, <1>3, <1>4, <1>5

(* Without its top a stack is the frames below. *)
LEMMA FramePop ==
  ASSUME NEW f \in Seq(FrameRec), f # <<>>, NEW g, g = Front(f)
  PROVE  /\ g \in Seq(FrameRec) /\ Len(g) = Len(f) - 1 /\ Len(f) \in Nat
         /\ \A i \in 1 .. Len(g) : i \in 1 .. Len(f) - 1 /\ g[i] = f[i]
<1>1. Len(f) \in Nat /\ Len(f) # 0
  OBVIOUS
<1>2. g = SubSeq(f, 1, Len(f) - 1)
  BY DEF Front
<1>3. 1 \in 1 .. Len(f) + 1 /\ Len(f) - 1 \in 1 - 1 .. Len(f) /\ Len(f) - 1 - 1 + 1 = Len(f) - 1
  BY <1>1
<1>4. /\ g \in Seq(FrameRec) /\ Len(g) = Len(f) - 1
      /\ \A i \in 1 .. Len(f) - 1 : g[i] = f[1 + i - 1]
  BY <1>2, <1>3, SubSeqProperties
<1>5. \A i \in 1 .. Len(f) - 1 : g[i] = f[i]
  BY <1>1, <1>4
<1> QED BY <1>1, <1>4, <1>5

(* The running task is at one of the places of call_texrtn with the frame  *)
(* e; its frame, and all of its exception fields, are as PerTask says.     *)
LEMMA SetPc ==
  ASSUME TexIInv, self \in Task, tex.frames[self] # <<>>, NEW p \in {"call", "rtn", "loop"},
         NEW e, e = [frame(self) EXCEPT !.pc = p], NEW x, x = set_pc(p)
  PROVE  /\ e \in FrameRec /\ e.pc = p /\ e.disdsp = frame(self).disdsp
         /\ e.ena = frame(self).ena /\ e.winfo = frame(self).winfo
         /\ DOMAIN x = DOMAIN tex /\ x.enatex = tex.enatex /\ x.texptn = tex.texptn
         /\ x.texrtn = tex.texrtn /\ x.undef = tex.undef
         /\ x.frames \in [Task -> Seq(FrameRec)]
         /\ \A u \in Task : u # self => x.frames[u] = tex.frames[u]
         /\ Len(x.frames[self]) = Len(tex.frames[self]) /\ x.frames[self] # <<>>
         /\ x.frames[self][Len(x.frames[self])] = e
         /\ \A i \in 1 .. Len(x.frames[self]) - 1 : x.frames[self][i] = tex.frames[self][i]
<1>1. PICK f \in Seq(FrameRec) : f = tex.frames[self]
  BY DEF TexIInv, TexType
<1>2. f # <<>> /\ f[Len(f)] \in FrameRec /\ frame(self) = f[Len(f)]
  BY <1>1, LastFrame DEF frame, Last
<1>3. /\ e \in FrameRec /\ e.pc = p /\ e.disdsp = frame(self).disdsp
      /\ e.ena = frame(self).ena /\ e.winfo = frame(self).winfo
  BY <1>2 DEF FrameRec
<1>4. PICK g : g = [f EXCEPT ![Len(f)] = e]
  OBVIOUS
<1>5. g = [f EXCEPT ![Len(f)].pc = p]
  BY <1>2, <1>4
<1>6. x = [tex EXCEPT !.frames[self] = g]
  BY <1>1, <1>5 DEF set_pc
<1>7. /\ g \in Seq(FrameRec) /\ Len(g) = Len(f) /\ g # <<>> /\ g[Len(g)] = e
      /\ \A i \in 1 .. Len(g) - 1 : g[i] = f[i]
  BY <1>2, <1>3, <1>4, FrameSet
<1> HIDE <1>4
<1>8. /\ DOMAIN x = DOMAIN tex /\ x.enatex = tex.enatex /\ x.texptn = tex.texptn
      /\ x.texrtn = tex.texrtn /\ x.undef = tex.undef
      /\ x.frames = [tex.frames EXCEPT ![self] = g]
  BY <1>6 DEF TexIInv, TexType
<1>9. /\ x.frames \in [Task -> Seq(FrameRec)] /\ x.frames[self] = g
      /\ \A u \in Task : u # self => x.frames[u] = tex.frames[u]
  BY <1>7, <1>8 DEF TexIInv, TexType
<1> QED BY <1>1, <1>3, <1>7, <1>8, <1>9

(* A step of the running task that leaves its context alone and changes    *)
(* the exception fields of the task t.                                     *)
SameRun ==
  /\ k'.p_runtsk = k.p_runtsk /\ k'.excpt_nest_count = k.excpt_nest_count
  /\ k'.ipmflg = k.ipmflg /\ k'.lock = k.lock /\ k'.disdsp = k.disdsp
  /\ k'.tstat = k.tstat /\ k'.kerflg = k.kerflg

(* A step that changes the exceptions of one task, which is live or has    *)
(* none, preserves the invariant if it does for that task.                 *)
LEMMA TexLocal ==
  ASSUME TexIInv, IInv(k'), NoMutex(k'), SameRun, TexType', NEW t \in Task,
         \A u \in Task : u # t => SameTex(u),
         PerTask(tex'.frames[t], tex'.enatex[t], tex'.texptn[t], tex'.texrtn[t]),
         tex'.frames[t] # <<>> => tex'.frames[t][Len(tex'.frames[t])].pc # "loop"
           \/ (t # self /\ tex'.frames[t] = tex.frames[t]),
         k.tstat[t] # {} \/ DormantTex(k, t, tex'.frames[t], tex'.enatex[t], tex'.texptn[t]),
         ChkOK', TexStarted'
  PROVE  TexIInv'
<1>1. ASSUME NEW u \in Task
      PROVE  /\ PerTask(tex'.frames[u], tex'.enatex[u], tex'.texptn[u], tex'.texrtn[u])
             /\ LoopOK(k', u, tex'.frames[u])
             /\ DormantTex(k', u, tex'.frames[u], tex'.enatex[u], tex'.texptn[u])
  <2>1. /\ PerTask(tex.frames[u], tex.enatex[u], tex.texptn[u], tex.texrtn[u])
        /\ LoopOK(k, u, tex.frames[u])
        /\ DormantTex(k, u, tex.frames[u], tex.enatex[u], tex.texptn[u])
    BY DEF TexIInv, TexTasks
  <2>2. LoopOK(k', u, tex.frames[u])
    BY <2>1 DEF LoopOK, SameRun
  <2>3. CASE u # t
    <3>1. SameTex(u)
      BY <2>3
    <3>2. DormantTex(k', u, tex.frames[u], tex.enatex[u], tex.texptn[u])
      BY <2>1 DEF DormantTex, SameRun
    <3> QED BY <2>1, <2>2, <3>1, <3>2 DEF SameTex
  <2>4. CASE u = t
    <3>1. LoopOK(k', t, tex'.frames[t])
      BY <2>2, <2>4 DEF LoopOK
    <3>2. DormantTex(k', t, tex'.frames[t], tex'.enatex[t], tex'.texptn[t])
      BY DEF DormantTex, SameRun
    <3> QED BY <2>4, <3>1, <3>2
  <2> QED BY <2>3, <2>4
<1>2. TexTasks'
  BY <1>1 DEF TexTasks
<1> QED BY <1>2 DEF TexIInv

(* A routine, or a waiting call, sets the WINFO of the running task. *)
LEMMA SetWinfo ==
  ASSUME IInv(k), NoMutex(k), k.kerflg, k.excpt_nest_count = 0, k.p_runtsk # NULL,
         NEW w \in Returnable, NEW r, r = [k EXCEPT !.winfo[k.p_runtsk] = w]
  PROVE  IInv(r) /\ NoMutex(r)
<1>1. /\ Static(k) /\ k.p_runtsk \in Task /\ "RUNNABLE" \in k.tstat[k.p_runtsk]
  BY DEF IInv, Context, Running, Static, Data
<1>2. PICK t \in Task : t = k.p_runtsk
  BY <1>1
<1>4. r.winfo = [k.winfo EXCEPT ![t] = w] /\ Frame(k, r, {"winfo"})
  BY <1>1, <1>2 DEF Static, Data, KernelFields, Frame
<1>5. /\ r.tstat = k.tstat /\ r.tmevtb = k.tmevtb /\ r.bpriority = k.bpriority
      /\ r.actque = k.actque /\ r.wupque = k.wupque /\ r.newbpri = k.newbpri
      /\ r.tskatr = k.tskatr /\ r.priority = k.priority /\ r.dspreq = k.dspreq
      /\ r.mutex_queue = k.mutex_queue /\ DOMAIN r = DOMAIN k
  BY <1>1, <1>4 DEF Static, Data, KernelFields, Frame
<1>6. /\ TaskType(r) /\ NoexsOK(r, Task) /\ Frame(k, r, TaskFields)
      /\ r.tstat \in [Task -> SUBSET TstatFlag] /\ r.priority \in [Task -> TPRI]
  <2>0. w \in Winfo
    BY DEF Returnable, Winfo
  <2>1. r.winfo \in [Task -> Winfo]
    BY <1>1, <1>4, <2>0 DEF Static, Data
  <2>2. TaskType(r)
    BY <2>1, <1>1, <1>5 DEF TaskType, Static, Data
  <2>3. NoexsOK(r, Task) /\ Frame(k, r, TaskFields)
    BY <1>1, <1>4, <1>5 DEF NoexsOK, Static, Frame, TaskFields
  <2> QED BY <2>2, <2>3, <1>1, <1>5 DEF Static, Data, SchedType
<1>7. WaitsOK(r, Task)
  <2>1. WaitOK(k.tstat[t], w, k.tmevtb[t])
    <3>1. WaitOK(k.tstat[t], k.winfo[t], k.tmevtb[t])
      BY <1>1 DEF Static, WaitsOK
    <3> QED BY <3>1, <1>1, <1>2 DEF WaitOK, Returnable
  <2>2. ASSUME NEW u \in Task \ {t}
        PROVE  WaitOK(k.tstat[u], k.winfo[u], k.tmevtb[u])
    BY <1>1 DEF Static, WaitsOK
  <2>3. r.winfo[t] = w /\ \A u \in Task \ {t} : r.winfo[u] = k.winfo[u]
    BY <1>1, <1>4 DEF Static, Data
  <2> QED BY <2>1, <2>2, <2>3, <1>5 DEF WaitsOK
<1>8. Call(k, r)
  BY <1>1, <1>5, <1>6, <1>7, NoQueueChange DEF Call
<1>9. IInv(r)
  BY <1>1, <1>5, <1>8, CallReturn
<1> QED BY <1>5, <1>9 DEF NoMutex

-----------------------------------------------------------------------------
(***************************************************************************)
(* The steps of call_texrtn and of task_except.c preserve TexIInv.         *)
(***************************************************************************)
LEMMA Parts ==
  ASSUME TexIInv
  PROVE  /\ IInv(k) /\ NoMutex(k) /\ TexType /\ ChkOK /\ TexStarted
         /\ KernelFields \subseteq DOMAIN k
         /\ k.p_runtsk # NULL => /\ k.p_runtsk \in Task /\ k.tstat[k.p_runtsk] # {}
                                 /\ k.winfo[k.p_runtsk] \in Returnable /\ k.kerflg
         /\ \A t \in Task :
              /\ PerTask(tex.frames[t], tex.enatex[t], tex.texptn[t], tex.texrtn[t])
              /\ LoopOK(k, t, tex.frames[t])
              /\ DormantTex(k, t, tex.frames[t], tex.enatex[t], tex.texptn[t])
<1>1. IInv(k) /\ KernelFields \subseteq DOMAIN k
  BY DEF TexIInv, IInv, Static, Data
<1>2. ASSUME k.p_runtsk # NULL
      PROVE  /\ k.p_runtsk \in Task /\ k.tstat[k.p_runtsk] # {}
             /\ k.winfo[k.p_runtsk] \in Returnable /\ k.kerflg
  <2>1. PICK t \in Task : t = k.p_runtsk
    BY <1>1, <1>2 DEF IInv, Static, Data
  <2>2. "RUNNABLE" \in k.tstat[t] /\ k.kerflg
    BY <1>1, <1>2, <2>1 DEF IInv, Context, Running, Boot
  <2>3. WaitOK(k.tstat[t], k.winfo[t], k.tmevtb[t])
    BY <1>1 DEF IInv, Static, WaitsOK
  <2>4. k.winfo[t] \in Returnable
    BY <2>2, <2>3 DEF WaitOK, Returnable
  <2> QED BY <2>1, <2>2, <2>4
<1>3. \A t \in Task :
         /\ PerTask(tex.frames[t], tex.enatex[t], tex.texptn[t], tex.texrtn[t])
         /\ LoopOK(k, t, tex.frames[t])
         /\ DormantTex(k, t, tex.frames[t], tex.enatex[t], tex.texptn[t])
  BY DEF TexIInv, TexTasks
<1> QED BY <1>1, <1>2, <1>3 DEF TexIInv

(* The start of call_texrtn preserves the invariant. *)
LEMMA calltexTex ==
  ASSUME TexIInv, calltex
  PROVE  TexIInv'
<1>1. /\ chk /\ k.kerflg /\ k.excpt_nest_count = 0 /\ k.p_runtsk # NULL /\ chk' = FALSE
      /\ IInv(k) /\ NoMutex(k)
  BY Parts DEF calltex, ChkOK
<1>2. PICK t \in Task : t = self
  BY <1>1, Parts DEF self
<1>3. CASE tex.enatex[self] /\ tex.texptn[self] # {} /\ k.ipmflg
  <2>1. /\ tex' = [tex EXCEPT !.enatex[t] = FALSE, !.texptn[t] = {},
                              !.frames[t] = Append(@, NewFrame)]
        /\ k' = [k EXCEPT !.winfo[k.p_runtsk] = "none"]
    BY <1>2, <1>3 DEF calltex, self
  <2>2. IInv(k') /\ NoMutex(k')
    BY <1>1, <2>1, SetWinfo DEF Returnable
  <2>3. SameRun
    BY <2>1, Parts DEF SameRun, KernelFields
  <2>4. NewFrame \in FrameRec /\ NewFrame.pc = "call"
    <3>1. k.disdsp \in BOOLEAN
      BY <1>1 DEF IInv, Static, Data
    <3>2. k.winfo[self] \in Returnable
      BY <1>1, Parts DEF self
    <3> QED BY <3>1, <3>2 DEF NewFrame, FrameRec
  <2>5. PICK f \in Seq(FrameRec) : f = tex.frames[t]
    BY Parts DEF TexType
  <2>6. PICK g : g = Append(f, NewFrame)
    OBVIOUS
  <2>7. /\ g \in Seq(FrameRec) /\ Len(g) = Len(f) + 1 /\ g # <<>> /\ g[Len(g)] = NewFrame
        /\ \A i \in 1 .. Len(g) - 1 : i \in 1 .. Len(f) /\ g[i] = f[i]
    BY <2>4, <2>6, FramePush
  <2>8. /\ TexType'
        /\ tex'.frames[t] = g /\ tex'.enatex[t] = FALSE /\ tex'.texptn[t] = {}
        /\ tex'.texrtn[t] = tex.texrtn[t]
        /\ \A u \in Task : u # t => SameTex(u)
    <3>1. tex' = [tex EXCEPT !.enatex[t] = FALSE, !.texptn[t] = {}, !.frames[t] = g]
      BY <2>1, <2>5, <2>6
    <3> HIDE <2>1, <2>6
    <3> QED BY <1>1, <2>7, <3>1, Parts DEF TexType, SameTex
  <2> HIDE <2>1, <2>6
  <2>9. PerTask(tex'.frames[t], tex'.enatex[t], tex'.texptn[t], tex'.texrtn[t])
    <3>1. PerTask(f, tex.enatex[t], tex.texptn[t], tex.texrtn[t]) /\ tex.enatex[t]
      BY <1>2, <1>3, <2>5, Parts
    <3>2. \A i \in 1 .. Len(f) : f[i].ena /\ f[i].pc = "rtn"
      <4>1. Len(f) \in Nat
        OBVIOUS
      <4>2. \A i \in 1 .. Len(f) : i \in 1 .. Len(f) - 1 \/ i = Len(f)
        BY <4>1
      <4>3. Len(f) # 0 => f # <<>>
        OBVIOUS
      <4> QED BY <3>1, <4>1, <4>2, <4>3 DEF PerTask
    <3>3. \A i \in 1 .. Len(g) - 1 : g[i].ena /\ g[i].pc = "rtn"
      BY <2>7, <3>2
    <3> QED BY <2>8, <3>3 DEF PerTask
  <2>10. ChkOK' /\ TexStarted'
    <3>1. ChkOK'
      BY <1>1 DEF ChkOK
    <3>2. k'.p_runtsk = t /\ ~tex'.enatex[t]
      BY <1>2, <2>3, <2>8 DEF SameRun, self
    <3> QED BY <3>1, <3>2 DEF TexStarted, self
  <2>11. k.tstat[t] # {} /\ tex'.frames[t][Len(tex'.frames[t])].pc # "loop"
    BY <1>1, <1>2, <2>4, <2>7, <2>8, Parts DEF self
  <2> QED BY <2>2, <2>3, <2>8, <2>9, <2>10, <2>11, TexLocal
<1>4. CASE ~(tex.enatex[self] /\ tex.texptn[self] # {} /\ k.ipmflg)
  <2>1. UNCHANGED <<k, tex>>
    BY <1>4 DEF calltex
  <2>2. TexType' /\ ChkOK' /\ TexStarted'
    <3>1. TexStarted'
      BY <1>4, <2>1 DEF TexStarted, self
    <3> QED BY <1>1, <2>1, <3>1, Parts DEF TexType, ChkOK
  <2>3. TexTasks'
    BY <2>1 DEF TexIInv, TexTasks
  <2> QED BY <2>1, <2>2, <2>3 DEF TexIInv
<1> QED BY <1>3, <1>4

(* The call of the routine preserves the invariant. *)
LEMMA call_routineTex ==
  ASSUME TexIInv, call_routine
  PROVE  TexIInv'
<1>1. /\ Ready /\ TSKCTX /\ tex.frames[self] # <<>> /\ frame(self).pc = "call"
      /\ UNCHANGED <<k, chk>> /\ IInv(k) /\ NoMutex(k)
  BY Parts DEF call_routine
<1>2. /\ k.kerflg /\ k.excpt_nest_count = 0 /\ k.p_runtsk \in Task
  BY <1>1, TaskContext
<1>3. PICK t \in Task : t = self
  BY <1>2 DEF self
<1>4. PerTask(tex.frames[t], tex.enatex[t], tex.texptn[t], tex.texrtn[t])
  BY Parts
<1>a. ASSUME ~tex.texrtn[self] PROVE TexIInv'
  <2>1. tex' = [tex EXCEPT !.undef = TRUE]
    BY <1>a DEF call_routine
  <2>2. /\ DOMAIN tex' = DOMAIN tex /\ tex'.enatex = tex.enatex /\ tex'.texptn = tex.texptn
        /\ tex'.texrtn = tex.texrtn /\ tex'.frames = tex.frames
    BY <2>1, Parts DEF TexType
  <2> HIDE <2>1
  <2>3. TexType' /\ TexTasks'
    BY <1>1, <2>2 DEF TexIInv, TexType, TexTasks
  <2>4. ChkOK' /\ TexStarted'
    BY <1>1, <2>2 DEF TexIInv, ChkOK, TexStarted, AtLoop, self, frame, Last
  <2> QED BY <1>1, <2>3, <2>4 DEF TexIInv
<1> SUFFICES ASSUME tex.texrtn[self] PROVE TexIInv'
  BY <1>a
<1>5. ~tex.enatex[t]
  BY <1>1, <1>3, <1>4 DEF PerTask, frame, Last
<1>6. tex' = set_pc("rtn")
  BY DEF call_routine
<1>7. PICK e : e = [frame(self) EXCEPT !.pc = "rtn"]
  OBVIOUS
<1>8. /\ e \in FrameRec /\ e.pc = "rtn" /\ e.ena = frame(self).ena
      /\ DOMAIN tex' = DOMAIN tex /\ tex'.enatex = tex.enatex /\ tex'.texptn = tex.texptn
      /\ tex'.texrtn = tex.texrtn /\ tex'.undef = tex.undef
      /\ tex'.frames \in [Task -> Seq(FrameRec)]
      /\ \A u \in Task : u # self => tex'.frames[u] = tex.frames[u]
      /\ Len(tex'.frames[self]) = Len(tex.frames[self]) /\ tex'.frames[self] # <<>>
      /\ tex'.frames[self][Len(tex'.frames[self])] = e
      /\ \A i \in 1 .. Len(tex'.frames[self]) - 1 : tex'.frames[self][i] = tex.frames[self][i]
  BY <1>1, <1>3, <1>6, <1>7, SetPc
<1> HIDE <1>6, <1>7
<1>9. PerTask(tex'.frames[t], tex'.enatex[t], tex'.texptn[t], tex'.texrtn[t])
  BY <1>3, <1>4, <1>5, <1>8 DEF PerTask
<1>10. TexType' /\ \A u \in Task : u # t => SameTex(u)
  BY <1>1, <1>3, <1>8, Parts DEF TexType, SameTex
<1>11. SameRun /\ IInv(k') /\ NoMutex(k') /\ ChkOK' /\ k.tstat[t] # {}
  BY <1>1, <1>2, <1>3, Parts, NullAssumption DEF SameRun, ChkOK, self
<1>12. TexStarted'
  <2>1. ~tex'.enatex[t] /\ k'.p_runtsk = t
    BY <1>1, <1>3, <1>5, <1>8 DEF self
  <2> QED BY <2>1 DEF TexStarted, self
<1> QED BY <1>3, <1>8, <1>9, <1>10, <1>11, <1>12, TexLocal

(* The system state to which call_texrtn returns, and the dispatch that    *)
(* was held up while the routine ran.                                      *)
LEMMA RestoreIInv ==
  ASSUME TexIInv, InRoutine, NEW d \in BOOLEAN, d = frame(self).disdsp,
         k' = IF restore.dspflg /\ k.p_runtsk # k.p_schedtsk THEN dispatcher(restore) ELSE restore
  PROVE  /\ IInv(k') /\ NoMutex(k') /\ k'.tstat = k.tstat /\ k'.ipmflg /\ k'.lock = FALSE
         /\ k'.disdsp = d /\ k'.kerflg
         /\ \/ k'.p_runtsk = k.p_runtsk /\ k'.excpt_nest_count = 0
            \/ d = FALSE /\ Dispatches(k, k') /\ k'.p_runtsk # k.p_runtsk
<1>1. /\ Static(k) /\ k.kerflg /\ k.excpt_nest_count = 0 /\ k.p_runtsk \in Task
      /\ IInv(k) /\ KernelFields \subseteq DOMAIN k /\ NoMutex(k)
  BY TaskContext, Parts DEF InRoutine
<1>2. PICK r : r = restore
  OBVIOUS
<1>3. /\ r.ipmflg = TRUE /\ r.disdsp = d /\ r.dspflg = (~d) /\ r.lock = FALSE
      /\ r.p_runtsk = k.p_runtsk /\ r.boot = k.boot /\ r.kerflg = k.kerflg
      /\ r.reqflg = k.reqflg /\ r.dspreq = k.dspreq /\ r.p_schedtsk = k.p_schedtsk
      /\ r.excpt_nest_count = k.excpt_nest_count /\ Frame(k, r, ContextFields)
      /\ r.tstat = k.tstat /\ r.mutex_queue = k.mutex_queue /\ KernelFields \subseteq DOMAIN r
  BY <1>1, <1>2 DEF restore, KernelFields, Frame, ContextFields
<1>4. k' = IF r.dspflg /\ k.p_runtsk # k.p_schedtsk THEN dispatcher(r) ELSE r
  BY <1>2
<1> HIDE <1>2
<1>5. ContextType(r) /\ FlagOK(r)
  <2>1. r.dspflg \in BOOLEAN /\ r.disdsp \in BOOLEAN /\ r.ipmflg \in BOOLEAN
    BY <1>3
  <2>2. ContextType(r)
    BY <1>1, <1>3, <2>1 DEF ContextType, Static, Data, SchedType
  <2>3. FlagOK(r)
    BY <1>3 DEF FlagOK
  <2> QED BY <2>2, <2>3
<1>6. NoMutex(r)
  BY <1>1, <1>3 DEF NoMutex, KernelFields
<1>7. CASE r.dspflg /\ k.p_runtsk # k.p_schedtsk
  <2>1. k' = dispatcher(r)
    BY <1>4, <1>7
  <2>2. Frame(k, r, ContextFields \cup {"dspreq"})
    BY <1>3 DEF Frame
  <2>3. Static(r)
    BY <1>1, <1>5, <2>2, ContextChange
  <2>4. IInv(k') /\ NoMutex(k')
    BY <1>1, <1>3, <1>6, <1>7, <2>1, <2>3, Dispatcher, NoMutexLeave
  <2>5. /\ k'.kerflg = r.kerflg /\ k'.dspflg = r.dspflg /\ k'.lock = FALSE /\ k'.ipmflg = r.ipmflg
        /\ k'.disdsp = r.disdsp /\ k'.p_runtsk = r.p_schedtsk /\ k'.tstat = r.tstat
        /\ k'.excpt_nest_count = IF r.p_schedtsk = NULL THEN 1 ELSE 0
    BY <1>3, <2>1, DispatchFields
  <2>6. d = FALSE
    BY <1>3, <1>7
  <2> QED BY <1>1, <1>3, <1>7, <2>4, <2>5, <2>6 DEF Dispatches
<1>8. CASE ~(r.dspflg /\ k.p_runtsk # k.p_schedtsk)
  <2>1. k' = r
    BY <1>4, <1>8
  <2>2. IInv(r)
    BY <1>1, <1>3, <1>5, <1>8, NullAssumption, ContextStep
  <2> QED BY <1>1, <1>3, <1>6, <2>1, <2>2
<1> QED BY <1>7, <1>8

(* The return of the routine, with the dispatch it may make, preserves the *)
(* invariant.                                                              *)
LEMMA return_routineTex ==
  ASSUME TexIInv, return_routine
  PROVE  TexIInv'
<1>1. /\ Ready /\ InRoutine /\ tex.frames[self] # <<>> /\ chk' = Resumes /\ TSKCTX
  BY DEF return_routine, InRoutine
<1>2. /\ k.kerflg /\ k.excpt_nest_count = 0 /\ k.p_runtsk \in Task /\ IInv(k)
  BY <1>1, TaskContext, Parts
<1>3. PICK t \in Task : t = self
  BY <1>2 DEF self
<1>4. PICK x : x = set_pc("loop")
  OBVIOUS
<1>5. PICK e : e = [frame(self) EXCEPT !.pc = "loop"]
  OBVIOUS
<1>6. tex' = [x EXCEPT !.enatex[t] = FALSE]
  BY <1>3, <1>4 DEF return_routine
<1>7. /\ e \in FrameRec /\ e.pc = "loop" /\ e.disdsp = frame(self).disdsp
      /\ DOMAIN x = DOMAIN tex /\ x.enatex = tex.enatex /\ x.texptn = tex.texptn
      /\ x.texrtn = tex.texrtn /\ x.undef = tex.undef
      /\ x.frames \in [Task -> Seq(FrameRec)]
      /\ \A u \in Task : u # self => x.frames[u] = tex.frames[u]
      /\ Len(x.frames[self]) = Len(tex.frames[self]) /\ x.frames[self] # <<>>
      /\ x.frames[self][Len(x.frames[self])] = e
      /\ \A i \in 1 .. Len(x.frames[self]) - 1 : x.frames[self][i] = tex.frames[self][i]
  BY <1>1, <1>3, <1>4, <1>5, SetPc
<1> HIDE <1>4, <1>5
<1>8. /\ DOMAIN tex' = DOMAIN tex /\ tex'.enatex = [tex.enatex EXCEPT ![t] = FALSE]
      /\ tex'.texptn = tex.texptn /\ tex'.texrtn = tex.texrtn /\ tex'.undef = tex.undef
      /\ tex'.frames = x.frames
  BY <1>6, <1>7, Parts DEF TexType
<1> HIDE <1>6
<1>9. chk' \in BOOLEAN
  BY <1>1 DEF Resumes
<1>10. TexType' /\ ~tex'.enatex[t] /\ \A u \in Task : u # t => SameTex(u)
  BY <1>3, <1>7, <1>8, <1>9, Parts DEF TexType, SameTex
<1>11. PICK d \in BOOLEAN : d = e.disdsp
  BY <1>7 DEF FrameRec
<1>12. /\ IInv(k') /\ NoMutex(k') /\ k'.tstat = k.tstat /\ k'.ipmflg /\ k'.lock = FALSE
       /\ k'.disdsp = d /\ k'.kerflg
       /\ \/ k'.p_runtsk = k.p_runtsk /\ k'.excpt_nest_count = 0
          \/ d = FALSE /\ Dispatches(k, k') /\ k'.p_runtsk # k.p_runtsk
  BY <1>1, <1>7, <1>11, RestoreIInv DEF return_routine
<1>13. ChkOK'
  BY <1>1, <1>12 DEF ChkOK, Resumes, Dispatches
<1>14. TexStarted'
  <2> SUFFICES ASSUME k'.p_runtsk # NULL, ~chk', tex'.enatex[k'.p_runtsk]
               PROVE  FALSE
    BY DEF TexStarted, self
  <2>1. k'.p_runtsk = t
    BY <1>1, <1>3 DEF Resumes, self
  <2> QED BY <2>1, <1>10
<1>15. ASSUME NEW u \in Task
       PROVE  /\ PerTask(tex'.frames[u], tex'.enatex[u], tex'.texptn[u], tex'.texrtn[u])
              /\ LoopOK(k', u, tex'.frames[u])
              /\ DormantTex(k', u, tex'.frames[u], tex'.enatex[u], tex'.texptn[u])
  <2>1. /\ PerTask(tex.frames[u], tex.enatex[u], tex.texptn[u], tex.texrtn[u])
        /\ LoopOK(k, u, tex.frames[u])
        /\ DormantTex(k, u, tex.frames[u], tex.enatex[u], tex.texptn[u])
    BY Parts
  <2>2. CASE u = t
    <3>1. PerTask(tex'.frames[u], tex'.enatex[u], tex'.texptn[u], tex'.texrtn[u])
      BY <1>1, <1>3, <1>7, <1>8, <1>10, <2>1, <2>2 DEF PerTask
    <3>2. LoopOK(k', u, tex'.frames[u])
      BY <1>3, <1>7, <1>8, <1>11, <1>12, <2>2 DEF LoopOK, self
    <3>3. k'.tstat[u] # {}
      BY <1>2, <1>3, <1>12, <2>2, Parts, NullAssumption DEF self
    <3> QED BY <3>1, <3>2, <3>3 DEF DormantTex
  <2>3. CASE u # t
    <3>1. SameTex(u)
      BY <1>10, <2>3
    <3>2. DormantTex(k', u, tex.frames[u], tex.enatex[u], tex.texptn[u])
      BY <1>12, <2>1 DEF DormantTex
    <3>3. LoopOK(k', u, tex.frames[u])
      <4> SUFFICES ASSUME tex.frames[u] # <<>>,
                          tex.frames[u][Len(tex.frames[u])].pc = "loop"
                   PROVE  LoopOK(k', u, tex.frames[u])
        BY DEF LoopOK
      <4>1. ~tex.frames[u][Len(tex.frames[u])].disdsp
        BY <1>3, <2>1, <2>3 DEF LoopOK, self
      <4>2. tex.frames[u][Len(tex.frames[u])].disdsp \in BOOLEAN
        BY Parts, LastFrame DEF TexType
      <4>3. PICK a \in BOOLEAN : a = tex.frames[u][Len(tex.frames[u])].disdsp
        BY <4>2
      <4>4. a = FALSE
        BY <4>1, <4>3
      <4>5. u = k'.p_runtsk => d = FALSE /\ k'.excpt_nest_count = 0
        BY <1>3, <1>12, <2>3, NullAssumption DEF self, Dispatches
      <4> QED BY <1>12, <4>1, <4>3, <4>4, <4>5 DEF LoopOK
    <3> QED BY <2>1, <3>1, <3>2, <3>3 DEF SameTex
  <2> QED BY <2>2, <2>3
<1>16. TexTasks'
  BY <1>15 DEF TexTasks
<1> QED BY <1>10, <1>12, <1>13, <1>14, <1>16 DEF TexIInv

(* The end of call_texrtn's loop preserves the invariant and leaves the    *)
(* state as it was before the exception.                                   *)
LEMMA loopTex ==
  ASSUME TexIInv, loop
  PROVE  /\ TexIInv'
         /\ k'.disdsp = frame(self).disdsp /\ k'.ipmflg /\ ~k'.lock
         /\ k'.dspflg => k'.p_schedtsk = self
<1>1. /\ AtLoop /\ ~chk /\ UNCHANGED chk /\ k.kerflg /\ k.excpt_nest_count = 0
      /\ tex.frames[self] # <<>> /\ frame(self).pc = "loop"
  BY DEF loop, AtLoop
<1>2. k.p_runtsk # NULL /\ k.p_runtsk \in Task /\ IInv(k) /\ NoMutex(k)
  BY <1>1, Parts DEF IInv, Context, Dispatched, Static, Data
<1>3. PICK t \in Task : t = self
  BY <1>2 DEF self
<1>4. PICK f \in Seq(FrameRec) : f = tex.frames[t]
  BY Parts DEF TexType
<1>5. /\ f # <<>> /\ f[Len(f)] = frame(self) /\ f[Len(f)].pc = "loop"
      /\ frame(self).winfo \in Returnable
  BY <1>1, <1>3, <1>4, LastFrame DEF frame, Last
<1>6. PerTask(f, tex.enatex[t], tex.texptn[t], tex.texrtn[t]) /\ LoopOK(k, t, f)
  BY <1>4, Parts
<1>7. /\ k.disdsp = frame(self).disdsp /\ k.ipmflg /\ ~k.lock
      /\ k.dspflg => k.p_schedtsk = self
  BY <1>1, <1>2, <1>3, <1>5, <1>6 DEF LoopOK, self, IInv, Context, Dispatched
<1>8. ~tex.enatex[t]
  BY <1>5, <1>6 DEF PerTask
<1>9. k.tstat[t] # {}
  BY <1>2, <1>3, Parts DEF self
<1>10. CASE tex.texptn[self] # {}
  <2>1. UNCHANGED k /\ tex' = [set_pc("call") EXCEPT !.texptn[t] = {}]
    BY <1>3, <1>10 DEF loop
  <2>2. PICK x : x = set_pc("call")
    OBVIOUS
  <2>3. PICK e : e = [frame(self) EXCEPT !.pc = "call"]
    OBVIOUS
  <2>4. tex' = [x EXCEPT !.texptn[t] = {}]
    BY <2>1, <2>2
  <2>5. /\ e \in FrameRec /\ e.pc = "call"
        /\ DOMAIN x = DOMAIN tex /\ x.enatex = tex.enatex /\ x.texptn = tex.texptn
        /\ x.texrtn = tex.texrtn /\ x.undef = tex.undef
        /\ x.frames \in [Task -> Seq(FrameRec)]
        /\ \A u \in Task : u # self => x.frames[u] = tex.frames[u]
        /\ Len(x.frames[self]) = Len(tex.frames[self]) /\ x.frames[self] # <<>>
        /\ x.frames[self][Len(x.frames[self])] = e
        /\ \A i \in 1 .. Len(x.frames[self]) - 1 : x.frames[self][i] = tex.frames[self][i]
    BY <1>1, <1>3, <2>2, <2>3, SetPc
  <2> HIDE <2>2, <2>3
  <2>6. /\ DOMAIN tex' = DOMAIN tex /\ tex'.texptn = [tex.texptn EXCEPT ![t] = {}]
        /\ tex'.enatex = tex.enatex /\ tex'.texrtn = tex.texrtn /\ tex'.undef = tex.undef
        /\ tex'.frames = x.frames
    BY <2>4, <2>5, Parts DEF TexType
  <2>7. TexType' /\ \A u \in Task : u # t => SameTex(u)
    BY <1>1, <1>3, <2>5, <2>6, Parts DEF TexType, SameTex
  <2>8. PerTask(tex'.frames[t], tex'.enatex[t], tex'.texptn[t], tex'.texrtn[t])
    BY <1>3, <1>4, <1>6, <1>8, <2>5, <2>6, SMTT(60) DEF PerTask
  <2>9. SameRun /\ IInv(k') /\ NoMutex(k') /\ ChkOK' /\ TexStarted'
    <3>1. k'.p_runtsk = t /\ ~tex'.enatex[t]
      BY <1>3, <1>8, <2>1, <2>6 DEF self
    <3>2. TexStarted'
      BY <3>1 DEF TexStarted, self
    <3> QED BY <1>1, <1>2, <2>1, <3>2 DEF SameRun, ChkOK
  <2>10. tex'.frames[t][Len(tex'.frames[t])].pc # "loop"
    BY <1>3, <2>5, <2>6
  <2>11. TexIInv'
    BY <1>9, <2>7, <2>8, <2>9, <2>10, TexLocal
  <2> QED BY <1>7, <2>1, <2>11
<1>11. CASE tex.texptn[self] = {}
  <2>1. /\ tex' = [tex EXCEPT !.enatex[t] = TRUE, !.frames[t] = Front(@)]
        /\ k' = [k EXCEPT !.winfo[k.p_runtsk] = frame(self).winfo]
    BY <1>3, <1>11 DEF loop, self
  <2>2. IInv(k') /\ NoMutex(k')
    BY <1>1, <1>2, <1>5, <2>1, SetWinfo
  <2>3. /\ SameRun /\ k'.dspflg = k.dspflg /\ k'.p_schedtsk = k.p_schedtsk
    BY <2>1, Parts DEF SameRun, KernelFields
  <2>4. PICK g : g = Front(f)
    OBVIOUS
  <2>5. /\ g \in Seq(FrameRec) /\ Len(g) = Len(f) - 1 /\ Len(f) \in Nat
        /\ \A i \in 1 .. Len(g) : i \in 1 .. Len(f) - 1 /\ g[i] = f[i]
    BY <1>5, <2>4, FramePop
  <2>6. tex' = [tex EXCEPT !.enatex[t] = TRUE, !.frames[t] = g]
    BY <1>4, <2>1, <2>4
  <2> HIDE <2>1, <2>4
  <2>7. /\ DOMAIN tex' = DOMAIN tex /\ tex'.enatex = [tex.enatex EXCEPT ![t] = TRUE]
        /\ tex'.texptn = tex.texptn /\ tex'.texrtn = tex.texrtn /\ tex'.undef = tex.undef
        /\ tex'.frames = [tex.frames EXCEPT ![t] = g]
    BY <2>6, Parts DEF TexType
  <2>8. /\ TexType' /\ \A u \in Task : u # t => SameTex(u)
        /\ tex'.frames[t] = g /\ tex'.enatex[t] = TRUE
    BY <1>1, <2>5, <2>7, Parts DEF TexType, SameTex
  <2>9. \A i \in 1 .. Len(g) : g[i].ena /\ g[i].pc = "rtn"
    BY <1>6, <2>5 DEF PerTask
  <2>10. PerTask(g, TRUE, {}, tex.texrtn[t]) /\ (g # <<>> => g[Len(g)].pc = "rtn")
    <3>1. Len(g) \in Nat
      BY <2>5
    <3>2. g # <<>> => Len(g) \in 1 .. Len(g)
      BY <2>5, <3>1
    <3>3. \A i \in 1 .. Len(g) - 1 : i \in 1 .. Len(g)
      BY <3>1
    <3> QED BY <2>9, <3>2, <3>3 DEF PerTask
  <2>11. PerTask(tex'.frames[t], tex'.enatex[t], tex'.texptn[t], tex'.texrtn[t])
    BY <1>3, <1>8, <1>11, <2>7, <2>8, <2>10 DEF PerTask
  <2>12. ChkOK' /\ TexStarted'
    <3>1. k'.p_runtsk = t /\ tex'.texptn[t] = {}
      BY <1>3, <1>11, <2>3, <2>7 DEF self, SameRun
    <3>2. TexStarted'
      BY <3>1 DEF TexStarted, self
    <3> QED BY <1>1, <3>2 DEF ChkOK
  <2>13. TexIInv'
    BY <1>9, <2>2, <2>3, <2>8, <2>10, <2>11, <2>12, TexLocal
  <2> QED BY <1>7, <2>3, <2>13 DEF SameRun
<1> QED BY <1>10, <1>11

(* ras_tex and iras_tex preserve the invariant. *)
LEMMA RaiseTex ==
  ASSUME TexIInv, NEW t \in Task, NEW p, ras_tex(t, p) \/ iras_tex(t, p)
  PROVE  TexIInv'
<1>1. /\ Ready /\ ~chk /\ ~AtLoop /\ k.tstat[t] # {} /\ tex.texrtn[t]
      /\ tex' = [tex EXCEPT !.texptn[t] = @ \cup p] /\ k.kerflg
  BY DEF ras_tex, iras_tex, Ready, can_raise, raise, TSTAT_DORMANT, TS_DORMANT,
         CHECK_TSKCTX_UNL, TSKCTX, CHECK_INTCTX_UNL, INTCTX
<1>2. IInv(k) /\ NoMutex(k) /\ TexType /\ KernelFields \subseteq DOMAIN k /\ TexStarted
  BY Parts
<1>3. /\ IInv(k') /\ NoMutex(k') /\ SameRun /\ (k.reqflg => k'.reqflg)
      /\ iras_tex(t, p) /\ t = self /\ tex.enatex[t] /\ k.ipmflg => k'.reqflg
  <2>1. CASE UNCHANGED k /\ ~(iras_tex(t, p) /\ t = self /\ tex.enatex[t] /\ k.ipmflg)
    BY <1>2, <2>1 DEF SameRun
  <2>2. CASE k' = [k EXCEPT !.reqflg = TRUE]
    <3>1. PICK r : r = k'
      OBVIOUS
    <3>2. /\ r.lock = k.lock /\ r.p_runtsk = k.p_runtsk /\ r.disdsp = k.disdsp
          /\ r.ipmflg = k.ipmflg /\ r.dspflg = k.dspflg /\ r.boot = k.boot
          /\ r.kerflg = k.kerflg /\ r.reqflg = TRUE /\ r.dspreq = k.dspreq
          /\ r.excpt_nest_count = k.excpt_nest_count /\ Frame(k, r, ContextFields)
          /\ r.tstat = k.tstat /\ r.mutex_queue = k.mutex_queue /\ DOMAIN r = DOMAIN k
      BY <1>2, <2>2, <3>1 DEF KernelFields, Frame, ContextFields
    <3>3. ContextType(r) /\ FlagOK(r)
      BY <1>2, <3>2 DEF ContextType, IInv, Static, Data, SchedType, FlagOK
    <3>4. IInv(r)
      BY <1>1, <1>2, <3>2, <3>3, ContextStep DEF IInv, Context, Running, Dispatched
    <3>5. NoMutex(r)
      BY <1>2, <3>2 DEF NoMutex
    <3> QED BY <3>1, <3>2, <3>4, <3>5 DEF SameRun
  <2>3. \/ UNCHANGED k /\ ~(iras_tex(t, p) /\ t = self /\ tex.enatex[t] /\ k.ipmflg)
        \/ k' = [k EXCEPT !.reqflg = TRUE]
    <3>1. CASE iras_tex(t, p)
      BY <3>1 DEF iras_tex
    <3>2. CASE ~iras_tex(t, p)
      BY <3>2 DEF ras_tex
    <3> QED BY <3>1, <3>2
  <2> QED BY <2>1, <2>2, <2>3
<1>4. \/ ras_tex(t, p) /\ chk' = (t = self) /\ k.excpt_nest_count = 0 /\ k.p_runtsk # NULL
      \/ iras_tex(t, p) /\ chk' = FALSE /\ k.excpt_nest_count > 0
  <2>1. CASE ras_tex(t, p)
    <3>1. TSKCTX /\ chk' = (t = self)
      BY <2>1 DEF ras_tex, CHECK_TSKCTX_UNL
    <3>2. k.excpt_nest_count = 0 /\ k.p_runtsk \in Task
      BY <1>2, <3>1, TaskContext
    <3> QED BY <2>1, <3>1, <3>2, NullAssumption
  <2>2. CASE iras_tex(t, p)
    <3>1. chk' = chk /\ k.excpt_nest_count > 0
      BY <2>2 DEF iras_tex, CHECK_INTCTX_UNL, INTCTX
    <3>2. chk' = FALSE
      BY <1>1, <1>2, <3>1 DEF TexType
    <3> QED BY <2>2, <3>1, <3>2
  <2> QED BY <2>1, <2>2
<1>5. /\ DOMAIN tex' = DOMAIN tex /\ tex'.enatex = tex.enatex /\ tex'.texrtn = tex.texrtn
      /\ tex'.frames = tex.frames /\ tex'.undef = tex.undef /\ DOMAIN tex'.texptn = Task
      /\ \A u \in Task : u # t => tex'.texptn[u] = tex.texptn[u]
  BY <1>1, <1>2 DEF TexType
<1>6. chk' \in BOOLEAN
  BY <1>4
<1>7. TexType' /\ \A u \in Task : u # t => SameTex(u)
  BY <1>2, <1>5, <1>6, Parts DEF TexType, SameTex
<1>8. PerTask(tex'.frames[t], tex'.enatex[t], tex'.texptn[t], tex'.texrtn[t])
  <2>1. PerTask(tex.frames[t], tex.enatex[t], tex.texptn[t], tex.texrtn[t])
    BY Parts
  <2> QED BY <1>1, <1>5, <2>1 DEF PerTask
<1>9. ChkOK'
  BY <1>1, <1>3, <1>4 DEF ChkOK, SameRun
<1>10. TexStarted'
  <2> SUFFICES ASSUME k'.p_runtsk # NULL, ~chk', tex'.enatex[k'.p_runtsk],
                      tex'.texptn[k'.p_runtsk] # {}, k'.ipmflg
               PROVE  k'.excpt_nest_count > 0 /\ k'.reqflg
    BY DEF TexStarted, self
  <2>1. k'.p_runtsk = self /\ self \in Task /\ k.ipmflg /\ tex.enatex[self]
    BY <1>3, <1>5, Parts DEF SameRun, self
  <2>2. CASE t = self
    BY <1>3, <1>4, <2>1, <2>2 DEF SameRun
  <2>3. CASE t # self
    <3>1. tex.texptn[self] # {}
      BY <1>5, <2>1, <2>3
    <3>2. k.excpt_nest_count > 0 /\ k.reqflg
      BY <1>1, <1>2, <2>1, <3>1, NullAssumption DEF TexStarted, self
    <3> QED BY <1>3, <3>2 DEF SameRun
  <2> QED BY <2>2, <2>3
<1>11. tex'.frames[t] # <<>> => tex'.frames[t][Len(tex'.frames[t])].pc # "loop"
         \/ (t # self /\ tex'.frames[t] = tex.frames[t])
  <2> SUFFICES ASSUME tex.frames[t] # <<>>, tex.frames[t][Len(tex.frames[t])].pc = "loop",
                      t = self
               PROVE  FALSE
    BY <1>5
  <2>1. LoopOK(k, t, tex.frames[t])
    BY Parts
  <2>2. k.excpt_nest_count = 0
    BY <2>1 DEF LoopOK, self
  <2> QED BY <1>1, <2>2 DEF AtLoop, frame, Last
<1> QED BY <1>1, <1>3, <1>7, <1>8, <1>9, <1>10, <1>11, TexLocal

(* dis_tex and ena_tex: outside of the loop of call_texrtn, so that the    *)
(* innermost frame is the one of a running routine.                        *)
LEMMA EnableTex ==
  ASSUME TexIInv, dis_tex \/ ena_tex
  PROVE  TexIInv'
<1>1. /\ Ready /\ ~chk /\ ~AtLoop /\ ~InCall /\ TSKCTX /\ tex.texrtn[self] /\ UNCHANGED k
  BY DEF dis_tex, ena_tex, Ready, CHECK_TSKCTX_UNL
<1>2. /\ k.kerflg /\ k.excpt_nest_count = 0 /\ k.p_runtsk \in Task /\ IInv(k) /\ NoMutex(k)
      /\ TexType
  BY <1>1, TaskContext, Parts
<1>3. PICK t \in Task : t = self
  BY <1>2 DEF self
<1>4. PICK f \in Seq(FrameRec) : f = tex.frames[t]
  BY <1>2 DEF TexType
<1>5. f # <<>> => f[Len(f)] \in FrameRec /\ f[Len(f)].pc = "rtn"
  <2> SUFFICES ASSUME f # <<>> PROVE f[Len(f)] \in FrameRec /\ f[Len(f)].pc = "rtn"
    OBVIOUS
  <2>1. f[Len(f)] \in FrameRec /\ f[Len(f)].pc \in {"call", "rtn", "loop"}
    BY LastFrame DEF FrameRec
  <2>2. f[Len(f)].pc # "loop" /\ f[Len(f)].pc # "call"
    BY <1>1, <1>2, <1>3, <1>4, NullAssumption DEF AtLoop, InCall, frame, Last, self
  <2> QED BY <2>1, <2>2
<1>6. PerTask(f, tex.enatex[t], tex.texptn[t], TRUE)
  BY <1>1, <1>3, <1>4, Parts DEF PerTask
<1>7. SameRun /\ IInv(k') /\ NoMutex(k') /\ k.tstat[t] # {}
  BY <1>1, <1>2, <1>3, Parts, NullAssumption DEF SameRun, self
<1>8. CASE dis_tex
  <2>1. tex' = [tex EXCEPT !.enatex[t] = FALSE] /\ chk' = chk
    BY <1>3, <1>8 DEF dis_tex
  <2>2. /\ TexType' /\ ~tex'.enatex[t] /\ tex'.frames = tex.frames
        /\ tex'.texrtn = tex.texrtn /\ tex'.texptn = tex.texptn
        /\ \A u \in Task : u # t => SameTex(u)
    BY <1>2, <2>1, Parts DEF TexType, SameTex
  <2>3. PerTask(tex'.frames[t], tex'.enatex[t], tex'.texptn[t], tex'.texrtn[t])
    BY <1>1, <1>3, <1>4, <1>6, <2>2 DEF PerTask
  <2>4. ChkOK' /\ TexStarted'
    BY <1>1, <1>3, <2>1, <2>2 DEF ChkOK, TexStarted, self
  <2>5. tex'.frames[t] # <<>> => tex'.frames[t][Len(tex'.frames[t])].pc # "loop"
    BY <1>4, <1>5, <2>2
  <2> QED BY <1>7, <2>2, <2>3, <2>4, <2>5, TexLocal
<1>9. CASE ena_tex
  <2>1. PICK g : g = IF f = <<>> THEN f ELSE [f EXCEPT ![Len(f)].ena = TRUE]
    OBVIOUS
  <2>2. tex' = [tex EXCEPT !.enatex[t] = TRUE, !.frames[t] = g] /\ chk' = TRUE
    BY <1>3, <1>4, <1>9, <2>1 DEF ena_tex
  <2>3. /\ g \in Seq(FrameRec) /\ PerTask(g, TRUE, tex.texptn[t], TRUE)
        /\ g # <<>> => g[Len(g)].pc # "loop"
    <3>1. CASE f = <<>>
      BY <3>1, <1>6, <2>1 DEF PerTask
    <3>2. CASE f # <<>>
      <4>1. PICK e : e = [f[Len(f)] EXCEPT !.ena = TRUE]
        OBVIOUS
      <4>2. e \in FrameRec /\ e.ena /\ e.pc = "rtn"
        BY <1>5, <3>2, <4>1 DEF FrameRec
      <4>3. g = [f EXCEPT ![Len(f)] = e]
        BY <2>1, <3>2, <4>1
      <4>4. /\ g \in Seq(FrameRec) /\ Len(g) = Len(f) /\ g # <<>> /\ g[Len(g)] = e
            /\ \A i \in 1 .. Len(g) - 1 : g[i] = f[i]
        BY <3>2, <4>2, <4>3, FrameSet
      <4> HIDE <2>1, <4>1, <4>3
      <4> QED BY <1>6, <4>2, <4>4 DEF PerTask
    <3> QED BY <3>1, <3>2
  <2> HIDE <2>1
  <2>4. /\ TexType' /\ tex'.enatex[t] = TRUE /\ tex'.frames[t] = g
        /\ tex'.texrtn = tex.texrtn /\ tex'.texptn = tex.texptn
        /\ \A u \in Task : u # t => SameTex(u)
    BY <1>2, <2>2, <2>3, Parts DEF TexType, SameTex
  <2>5. PerTask(tex'.frames[t], tex'.enatex[t], tex'.texptn[t], tex'.texrtn[t])
    BY <1>1, <1>3, <2>3, <2>4 DEF PerTask
  <2>6. ChkOK' /\ TexStarted'
    BY <1>1, <1>2, <2>2, NullAssumption DEF ChkOK, TexStarted
  <2> QED BY <1>7, <2>3, <2>4, <2>5, <2>6, TexLocal
<1> QED BY <1>8, <1>9

(* The tests at the end of an interrupt and in chg_ipm preserve the        *)
(* invariant.                                                              *)
LEMMA IntTex ==
  ASSUME TexIInv, ret_int_tex \/ \E b \in BOOLEAN : chg_ipm_tex(b)
  PROVE  TexIInv'
<1>1. IInv(k) /\ NoMutex(k)
  BY Parts
<1>2. Ready /\ Next /\ UNCHANGED tex
  BY DEF ret_int_tex, chg_ipm_tex, Next, Processor, SysManage
<1>3. IInv(k') /\ NoMutex(k')
  BY <1>1, <1>2, NextIInv, NextNoMutex
<1>4. ASSUME Alive(k', Live), chk' \in BOOLEAN
      PROVE  /\ TexType'
             /\ \A t \in Task : SameTex(t) /\ (k.tstat[t] # {} => k'.tstat[t] # {})
  <2>1. TexType' /\ \A t \in Task : SameTex(t)
    BY <1>2, <1>4, TexSameType
  <2> QED BY <1>4, <2>1 DEF Alive, Live
<1>5. CASE ret_int_tex
  <2>1. ret_int /\ chk' = (Resumes \/ (k.reqflg /\ k'.excpt_nest_count = 0))
    BY <1>5 DEF ret_int_tex
  <2>2. chk' \in BOOLEAN
    BY <2>1, <1>1 DEF Resumes, IInv, Static, Data
  <2>3. /\ Alive(k', Live)
        /\ \/ Dispatches(k, k') /\ k'.p_runtsk # k.p_runtsk
           \/ /\ k'.p_runtsk = k.p_runtsk /\ k'.ipmflg = k.ipmflg /\ k'.kerflg
              /\ k.reqflg /\ k'.excpt_nest_count # 0 =>
                   k'.excpt_nest_count > 0 /\ k'.reqflg
    BY <1>1, <2>1, MovesIntReturn
  <2>4. Resumes => chk' /\ Dispatches(k, k')
    BY <2>1, <2>3 DEF Resumes
  <2>5. ChkOK'
    <3> SUFFICES ASSUME chk' PROVE k'.kerflg /\ k'.excpt_nest_count = 0 /\ k'.p_runtsk # NULL
      BY DEF ChkOK
    <3>1. CASE Resumes
      BY <3>1, <2>4 DEF Resumes, Dispatches
    <3>2. CASE ~Resumes
      <4>1. k'.excpt_nest_count = 0 /\ k'.kerflg
        BY <2>1, <2>3, <3>2 DEF Dispatches
      <4> QED BY <1>3, <4>1 DEF IInv, Context, Dispatched
    <3> QED BY <3>1, <3>2
  <2>6. NoNewReason
    BY <2>1, <2>3 DEF NoNewReason
  <2> QED BY <1>2, <1>3, <1>4, <2>2, <2>3, <2>4, <2>5, <2>6, TexFrame
<1>6. ASSUME NEW b \in BOOLEAN, chg_ipm_tex(b)
      PROVE  TexIInv'
  <2>1. chg_ipm(b) /\ chk' = (b /\ k'.p_runtsk # NULL)
    BY <1>6 DEF chg_ipm_tex
  <2>2. chk' \in BOOLEAN
    BY <2>1
  <2>3. /\ Alive(k', Live) /\ k.excpt_nest_count = 0 /\ k'.kerflg
        /\ \/ Dispatches(k, k') /\ b
           \/ /\ k'.p_runtsk = k.p_runtsk /\ k'.excpt_nest_count = 0
              /\ ~b => ~k'.ipmflg
    BY <1>1, <2>1, MovesIpm
  <2>4. Resumes => chk' /\ Dispatches(k, k')
    BY <2>1, <2>3 DEF Resumes
  <2>5. ChkOK'
    <3> SUFFICES ASSUME chk' PROVE k'.kerflg /\ k'.excpt_nest_count = 0 /\ k'.p_runtsk # NULL
      BY DEF ChkOK
    <3>1. b /\ k'.p_runtsk # NULL
      BY <2>1
    <3> QED BY <2>3, <3>1 DEF Dispatches
  <2>6. NoNewReason
    <3> SUFFICES ASSUME ~chk', k'.p_runtsk = k.p_runtsk, k.p_runtsk # NULL PROVE NoNewReason
      BY DEF NoNewReason
    <3>1. ~b
      BY <2>1
    <3>2. ~k'.ipmflg /\ ~(k.excpt_nest_count > 0)
      BY <2>3, <3>1
    <3> QED BY <3>2 DEF NoNewReason
  <2> QED BY <1>2, <1>3, <1>4, <2>2, <2>3, <2>4, <2>5, <2>6, TexFrame
<1> QED BY <1>5, <1>6

(* def_tex preserves the invariant, whatever the task is doing.            *)
LEMMA DefineTex ==
  ASSUME TexIInv, NEW t \in Task, NEW b \in BOOLEAN, def_tex(t, b)
  PROVE  TexIInv'
<1>1. /\ Ready /\ TSKCTX /\ ~chk /\ tex.texrtn[t] # b /\ UNCHANGED <<k, chk>>
      /\ tex' = IF b THEN [tex EXCEPT !.texrtn[t] = TRUE]
                ELSE [tex EXCEPT !.texrtn[t] = FALSE, !.enatex[t] = FALSE, !.texptn[t] = {}]
  BY DEF def_tex, Ready, CHECK_TSKCTX_UNL
<1>2. /\ TexType /\ PerTask(tex.frames[t], tex.enatex[t], tex.texptn[t], tex.texrtn[t])
      /\ DormantTex(k, t, tex.frames[t], tex.enatex[t], tex.texptn[t])
      /\ IInv(k) /\ NoMutex(k) /\ ChkOK /\ TexStarted
  BY Parts
<1>3. /\ tex'.texptn[t] = {} /\ tex'.frames = tex.frames
      /\ tex'.enatex[t] => tex.enatex[t]
  BY <1>1, <1>2 DEF PerTask, TexType
<1>4. TexType' /\ \A u \in Task : u # t => SameTex(u)
  BY <1>1, <1>2 DEF TexType, SameTex
<1>5. PerTask(tex'.frames[t], tex'.enatex[t], tex'.texptn[t], tex'.texrtn[t])
  BY <1>2, <1>3 DEF PerTask
<1>6. DormantTex(k, t, tex'.frames[t], tex'.enatex[t], tex'.texptn[t])
  BY <1>2, <1>3 DEF DormantTex
<1>7. SameRun /\ IInv(k') /\ NoMutex(k') /\ ChkOK'
  BY <1>1, <1>2 DEF SameRun, ChkOK
<1>8. TexStarted'
  <2> SUFFICES ASSUME k.kerflg, k.p_runtsk # NULL, ~AtLoop, tex'.enatex[k.p_runtsk],
                      tex'.texptn[k.p_runtsk] # {}, k.ipmflg
               PROVE  k.excpt_nest_count > 0 /\ k.reqflg
    BY <1>1, <1>3 DEF TexStarted, AtLoop, self, frame, Last
  <2>1. k.p_runtsk \in Task /\ k.p_runtsk # t
    BY <1>3, Parts
  <2>2. tex.enatex[k.p_runtsk] /\ tex.texptn[k.p_runtsk] # {}
    BY <1>4, <2>1 DEF SameTex
  <2> QED BY <1>1, <1>2, <2>2 DEF TexStarted, self
<1>9. tex.frames[t] # <<>> => tex.frames[t][Len(tex.frames[t])].pc # "loop" \/ t # self
  BY <1>1, TaskContext, Parts DEF Ready, AtLoop, frame, Last
<1> QED BY <1>3, <1>4, <1>5, <1>6, <1>7, <1>8, <1>9, TexLocal

-----------------------------------------------------------------------------
(***************************************************************************)
(* The theorems.                                                           *)
(***************************************************************************)
LEMMA TexInit ==
  ASSUME InitTex
  PROVE  TexIInv
<1>1. k = KInit /\ IInv(k) /\ chk = FALSE
  BY InitIInv DEF InitTex, Init
<1>2. NoMutex(k) /\ k.p_runtsk = NULL
  <2>1. "mutex_queue" \in DOMAIN KInit /\ KInit.mutex_queue = [t \in Task |-> <<>>]
    BY DEF KInit
  <2>2. KInit.p_runtsk = NULL
    BY DEF KInit
  <2> QED BY <1>1, <2>1, <2>2 DEF NoMutex
<1>3. /\ DOMAIN tex = {"enatex", "texptn", "texrtn", "frames", "undef"}
      /\ tex.enatex = [t \in Task |-> FALSE] /\ tex.texptn = [t \in Task |-> {}]
      /\ tex.texrtn = [t \in Task |-> t \in TexTask] /\ tex.frames = [t \in Task |-> <<>>]
      /\ tex.undef = FALSE
  BY DEF InitTex
<1>4. TexType
  <2>1. tex.enatex \in [Task -> BOOLEAN]
    BY <1>3
  <2>2. tex.texrtn \in [Task -> BOOLEAN]
    BY <1>3
  <2>3. tex.frames \in [Task -> Seq(FrameRec)]
    <3>1. <<>> \in Seq(FrameRec)
      OBVIOUS
    <3> QED BY <1>3, <3>1
  <2>4. DOMAIN tex.texptn = Task /\ chk \in BOOLEAN
    BY <1>1, <1>3
  <2> QED BY <1>3, <2>1, <2>2, <2>3, <2>4 DEF TexType
<1>5. ASSUME NEW t \in Task
      PROVE  /\ PerTask(tex.frames[t], tex.enatex[t], tex.texptn[t], tex.texrtn[t])
             /\ LoopOK(k, t, tex.frames[t])
             /\ DormantTex(k, t, tex.frames[t], tex.enatex[t], tex.texptn[t])
  BY <1>3 DEF PerTask, LoopOK, DormantTex
<1>6. TexTasks
  BY <1>5 DEF TexTasks
<1> QED BY <1>1, <1>2, <1>3, <1>4, <1>6 DEF TexIInv, ChkOK, TexStarted

(* Every step preserves the invariant. *)
LEMMA TexNext ==
  ASSUME TexIInv, [NextTex]_xvars
  PROVE  TexIInv'
<1>1. CASE UNCHANGED xvars
  BY <1>1 DEF xvars, TexIInv, TexType, TexTasks, ChkOK, TexStarted, AtLoop, self, frame, Last
<1>2. CASE TexCalls
  BY <1>2, calltexTex, call_routineTex, return_routineTex, loopTex, RaiseTex, EnableTex, IntTex
     DEF TexCalls
<1> QED BY <1>1, <1>2, KernelCallsTex, DefineTex DEF NextTex

(* The inductive invariant. *)
LEMMA TexInvariant == SpecTex => []TexIInv
<1>1. InitTex => TexIInv
  BY TexInit
<1>2. TexIInv /\ [NextTex]_xvars => TexIInv'
  BY TexNext
<1> QED BY <1>1, <1>2, PTL DEF SpecTex

(* The ready queue, the choice of the task to be scheduled and the         *)
(* dispatches stay right although call_texrtn sets disdsp, ipmflg and      *)
(* dspflg and dispatches by itself, for every number of tasks and every    *)
(* nesting of routines.                                                    *)
THEOREM TexKernelInvariant == SpecTex => []TexKernelInv
<1>1. TexIInv => TexKernelInv
  <2> SUFFICES ASSUME TexIInv PROVE TexKernelInv
    OBVIOUS
  <2>1. IInv(k)
    BY DEF TexIInv
  <2>2. SchedInv
    BY <2>1 DEF IInv, Static, SchedInv
  <2>3. NoLostDispatch
    BY <2>1 DEF IInv, Context, Dispatched, NoLostDispatch
  <2>4. RunningOK
    <3>1. Running(k) /\ FlagOK(k) /\ k.dspflg \in BOOLEAN /\ k.disdsp \in BOOLEAN
          /\ k.ipmflg \in BOOLEAN
      BY <2>1 DEF IInv, Context, Static, Data, SchedType
    <3>2. k.dspflg = (~k.disdsp /\ k.ipmflg)
      BY <3>1 DEF FlagOK
    <3> QED BY <3>1, <3>2 DEF Running, RunningOK, TSTAT_RUNNABLE
  <2> QED BY <2>2, <2>3, <2>4 DEF TexKernelInv
<1> QED BY <1>1, TexInvariant, PTL

(* The routine of a task is started at every place where the last of its   *)
(* conditions can become true (calltex, dispatch_r, ret_int_4, chg_ipm),   *)
(* and a handler that keeps it from starting has set reqflg.               *)
THEOREM TexStartedInvariant == SpecTex => []TexStarted
<1>1. TexIInv => TexStarted
  BY DEF TexIInv
<1> QED BY <1>1, TexInvariant, PTL

(* The frames of call_texrtn are nested only by ena_tex inside a routine,  *)
(* however long the calls of call_texrtn and dispatch alternate.           *)
THEOREM TexNestedInvariant == SpecTex => []TexNested
<1>1. TexIInv => TexNested
  BY DEF TexIInv, TexTasks, PerTask, TexNested
<1> QED BY <1>1, TexInvariant, PTL

(* A task without a routine has no exception pending, also when its        *)
(* routine is taken away while it runs or is about to be called.           *)
THEOREM RequestDefinedInvariant == SpecTex => []RequestDefined
<1>1. TexIInv => RequestDefined
  BY DEF TexIInv, TexTasks, PerTask, RequestDefined
<1> QED BY <1>1, TexInvariant, PTL

(* Only the end of call_texrtn's loop takes a frame away from a task that  *)
(* goes on with exceptions enabled.                                        *)
LEMMA OnlyLoopReturns ==
  ASSUME TexIInv, [NextTex]_xvars, NEW t \in Task, Returned(t)
  PROVE  loop
<1>1. Len(tex'.frames[t]) < Len(tex.frames[t]) /\ tex'.enatex[t]
  BY DEF Returned
<1>2. PICK f \in Seq(FrameRec) : f = tex.frames[t]
  BY Parts DEF TexType
<1>3. tex'.frames[t] # tex.frames[t]
  <2>1. Len(f) \in Nat
    OBVIOUS
  <2> QED BY <1>1, <1>2, <2>1
<1>4. ~UNCHANGED xvars
  BY <1>3 DEF xvars
<1>5. ~KernelCalls
  <2>1. ASSUME NEW u, tex' = make_dormant_tex(u) PROVE FALSE
    BY <1>1, <1>3, <2>1, Parts DEF make_dormant_tex, TexType
  <2>2. ASSUME NEW u, tex' = [tex EXCEPT !.texrtn[u] = FALSE] PROVE FALSE
    BY <1>3, <2>2, Parts DEF TexType
  <2> QED BY <1>3, <2>1, <2>2 DEF KernelCalls
<1>6. ASSUME NEW u \in Task, NEW b \in BOOLEAN, def_tex(u, b) PROVE FALSE
  BY <1>3, <1>6, Parts DEF def_tex, TexType
<1>7. ~calltex
  <2> SUFFICES ASSUME calltex PROVE FALSE
    OBVIOUS
  <2>1. tex' = [tex EXCEPT !.enatex[self] = FALSE, !.texptn[self] = {},
                           !.frames[self] = Append(@, NewFrame)]
    BY <1>3 DEF calltex
  <2>2. t = self
    BY <1>3, <2>1, Parts DEF TexType
  <2>3. ~tex'.enatex[t]
    BY <2>1, <2>2, Parts DEF TexType
  <2> QED BY <1>1, <2>3
<1>8. ~call_routine
  <2> SUFFICES ASSUME call_routine PROVE FALSE
    OBVIOUS
  <2>1. tex.frames[self] # <<>> /\ TSKCTX
    BY DEF call_routine
  <2>2. self \in Task
    BY <2>1, TaskContext, Parts DEF self
  <2>3. tex' = set_pc("rtn") \/ tex' = [tex EXCEPT !.undef = TRUE]
    BY DEF call_routine
  <2>4. tex' = set_pc("rtn")
    BY <1>3, <2>3, Parts DEF TexType
  <2>5. PICK e : e = [frame(self) EXCEPT !.pc = "rtn"]
    OBVIOUS
  <2>6. /\ Len(tex'.frames[self]) = Len(tex.frames[self])
        /\ \A u \in Task : u # self => tex'.frames[u] = tex.frames[u]
    BY <2>1, <2>2, <2>4, <2>5, SetPc
  <2>7. Len(f) \in Nat
    OBVIOUS
  <2> QED BY <1>1, <1>2, <1>3, <2>2, <2>6, <2>7
<1>9. ~return_routine
  <2> SUFFICES ASSUME return_routine PROVE FALSE
    OBVIOUS
  <2>1. tex' = [set_pc("loop") EXCEPT !.enatex[self] = FALSE]
    BY DEF return_routine
  <2>2. IF t = self THEN ~tex'.enatex[t] ELSE tex'.frames[t] = tex.frames[t]
    BY <2>1, Parts DEF set_pc, TexType
  <2> QED BY <1>1, <1>3, <2>2
<1>10. ASSUME NEW u \in Task, NEW p, ras_tex(u, p) \/ iras_tex(u, p) PROVE FALSE
  BY <1>3, <1>10, Parts DEF ras_tex, iras_tex, raise, TexType
<1>11. ~dis_tex /\ ~ret_int_tex /\ ~\E b \in BOOLEAN : chg_ipm_tex(b)
  BY <1>3, Parts DEF dis_tex, ret_int_tex, chg_ipm_tex, TexType
<1>12. ~ena_tex
  <2> SUFFICES ASSUME ena_tex PROVE FALSE
    OBVIOUS
  <2>1. PICK g : g = [f EXCEPT ![Len(f)].ena = TRUE]
    OBVIOUS
  <2>a. PICK h : h = IF tex.frames[self] = <<>> THEN tex.frames[self]
                     ELSE [tex.frames[self] EXCEPT ![Len(tex.frames[self])].ena = TRUE]
    OBVIOUS
  <2>b. tex' = [tex EXCEPT !.enatex[self] = TRUE, !.frames[self] = h]
    BY <2>a DEF ena_tex
  <2>c. t = self /\ tex'.frames[t] = h
    <3> HIDE <2>a
    <3> QED BY <1>3, <2>b, Parts DEF TexType
  <2>2. f # <<>> /\ tex'.frames[t] = g
    <3> HIDE <2>b
    <3> QED BY <1>2, <1>3, <2>1, <2>a, <2>c
  <2>3. f[Len(f)] \in FrameRec
    BY <2>2, LastFrame
  <2>4. PICK e : e = [f[Len(f)] EXCEPT !.ena = TRUE]
    OBVIOUS
  <2>5. e \in FrameRec /\ g = [f EXCEPT ![Len(f)] = e]
    BY <2>1, <2>3, <2>4 DEF FrameRec
  <2>6. Len(g) = Len(f) /\ Len(f) \in Nat
    BY <2>2, <2>5, FrameSet
  <2> QED BY <1>1, <1>2, <2>2, <2>6
<1> QED BY <1>4, <1>5, <1>6, <1>7, <1>8, <1>9, <1>10, <1>11, <1>12 DEF NextTex, TexCalls

(* A task finds after its exception routine the state in which it was      *)
(* interrupted: dispatching as before, interrupts and CPU unlocked, and,   *)
(* with dispatching enabled, no dispatch outstanding.                      *)
THEOREM TexRestoredTheorem == SpecTex => TexRestored
<1>1. TexIInv /\ [NextTex]_xvars =>
        [\A t \in Task : Returned(t) =>
           /\ k'.disdsp = frame(t).disdsp /\ k'.ipmflg /\ ~k'.lock
           /\ k'.dspflg => k'.p_schedtsk = t]_xvars
  <2> SUFFICES ASSUME TexIInv, [NextTex]_xvars, NEW t \in Task, Returned(t)
               PROVE  /\ k'.disdsp = frame(t).disdsp /\ k'.ipmflg /\ ~k'.lock
                      /\ k'.dspflg => k'.p_schedtsk = t
    OBVIOUS
  <2>1. loop /\ t = self
    BY OnlyLoopReturns DEF Returned, self
  <2> QED BY <2>1, loopTex
<1> QED BY <1>1, TexInvariant, PTL DEF SpecTex, TexRestored
=============================================================================
