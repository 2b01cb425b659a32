---------------------------- MODULE SyncObjects -----------------------------
(***************************************************************************)
(* The synchronization and communication objects with the task part of the *)
(* kernel: tasks that are activated, preempted, terminated and released    *)
(* from their waits while they and the interrupt handlers use an object,   *)
(* and the statement that each kind of object (but the event flag, which   *)
(* keeps no items) implements a Channel.                                   *)
(*                                                                         *)
(* A behaviour is that of one program, k.program, which uses the objects   *)
(* of one kind.                                                            *)
(***************************************************************************)
EXTENDS Semaphore, EventFlag, DataQueue, PriDataQueue, Mailbox, MemPFix

CONSTANTS
  Program,   \* a subset of {"sem", "flg", "dtq", "pdq", "mbx", "mpf"}
  Item       \* the object of each program that is seen as a channel

(* An object is of one kind, and an rwait_queue is of one object. *)
ObjectSets == <<Sem, Flg, Dtq, Pdq, Mbx, Mpf, {rwait[o] : o \in DOMAIN rwait}>>
ASSUME ObjectsAssumption ==
  \A i, j \in DOMAIN ObjectSets : i # j => ObjectSets[i] \cap ObjectSets[j] = {}

initialize_objects ==
  initialize_mempfix(initialize_mailbox(initialize_pridataq(initialize_dataqueue(
    initialize_eventflag(initialize_semaphore(initialize_winfo(KInit)))))))

InitObjects == \E p \in Program : k = extend(initialize_objects, [program |-> p])

(* What may happen to the tasks that use the objects.  The program         *)
(* activates only dormant tasks.                                           *)
TaskCalls ==
  \/ Startup \/ int_entry \/ ret_int \/ idle_loop \/ wait_return_obj
  \/ ext_tsk
  \/ \E t \in Task : \/ TSTAT_DORMANT(k, t) /\ (act_tsk(t) \/ iact_tsk(t))
                     \/ ter_tsk(t) \/ rel_wai(t) \/ signal_time(t)
                     \/ \E p \in TPRI : chg_pri(t, p)

NextObjects ==
  \/ TaskCalls
  \/ k.program = "sem" /\ SemCalls
  \/ k.program = "flg" /\ FlgCalls
  \/ k.program = "dtq" /\ DtqCalls
  \/ k.program = "pdq" /\ PdqCalls
  \/ k.program = "mbx" /\ MbxCalls
  \/ k.program = "mpf" /\ MpfCalls

SpecObjects == InitObjects /\ [][NextObjects]_k
-----------------------------------------------------------------------------
(***************************************************************************)
(* The object of the program as a channel.  The tasks that wait at the     *)
(* queue of the WOBJCB of a data queue wait to send; those that wait at    *)
(* that of another object wait to receive.                                 *)
(***************************************************************************)
obj == Item[k.program]
IsChannel == k.program # "flg" /\ obj_exists(obj)
HasSenders == k.program \in {"dtq", "pdq"}

ChannelPar ==
  IF ~IsChannel THEN [cap |-> 0, order |-> "FIFO", ini |-> <<>>]
  ELSE CASE k.program = "sem" -> SemPar(obj)
         [] k.program = "dtq" -> DtqPar(obj)
         [] k.program = "pdq" -> PdqPar(obj)
         [] k.program = "mbx" -> MbxPar(obj)
         [] k.program = "mpf" -> MpfPar(obj)

ChannelBuf ==
  IF ~IsChannel THEN <<>>
  ELSE CASE k.program = "sem" -> SemBuf(obj)
         [] k.program = "dtq" -> DtqBuf(obj)
         [] k.program = "pdq" -> PdqBuf(obj)
         [] k.program = "mbx" -> MbxBuf(obj)
         [] k.program = "mpf" -> MpfBuf(obj)

ChannelSnd ==
  IF ~IsChannel \/ ~HasSenders THEN <<>>
  ELSE LET q == k.wait_queue[obj]
       IN  [i \in 1 .. Len(q) |-> [tsk |-> q[i], item |-> k.winfo_data[q[i]]]]

ChannelRcv == IF ~IsChannel THEN <<>>
              ELSE k.wait_queue[IF HasSenders THEN rwait[obj] ELSE obj]

(* The item with which t's wait has ended, until t returns from the call. *)
ChannelDone ==
  [t \in Task |->
     IF k.program # "flg" /\ ~TSTAT_DORMANT(k, t) /\ k.winfo[t] = "E_OK"
     THEN IF k.program = "sem" THEN SemItem ELSE k.winfo_data[t]
     ELSE NULL]

Ch == INSTANCE Channel WITH None <- NULL, par <- ChannelPar, buf <- ChannelBuf,
                            snd <- ChannelSnd, rcv <- ChannelRcv, done <- ChannelDone

(* Every step of the kernel is one step of the channel or leaves it alone: *)
(* no resource, datum, message or block is lost, delivered twice or        *)
(* overtakes another, though a call and its completion are steps of        *)
(* different tasks or handlers, and the wait may end in between by a       *)
(* timeout, rel_wai, ter_tsk, or the deletion of the object.               *)
ChannelSpec == Ch!Spec

(* The task part of the kernel stays consistent under the calls on the     *)
(* objects, which change the states of several tasks at once.              *)
KernelInv == SchedInv /\ NoLostDispatch /\ RunningOK /\ WinfoOK
=============================================================================
