------------------------------- MODULE LogTask -------------------------------
(***************************************************************************)
(* The log task (syssvc/logtask.c) between the system log and the serial   *)
(* interface driver, with other tasks on the same port: every log record   *)
(* reaches the line, or a message says how many were lost.                 *)
(*                                                                         *)
(* The text of a record is one character with its number, and a newline;   *)
(* so is the message about lost records.                                   *)
(***************************************************************************)
EXTENDS Serial, Syslog, SequencesExt

CONSTANTS
  logtask,    \* LOGTASK, one of User
  Program,    \* a subset of {"log", "port"}
  Caller,     \* the other tasks of each program
  MaxCall,    \* bound: the calls of the other tasks
  MaxRcv      \* bound: the characters that arrive

ASSUME LogTaskAssumption == logtask \in User

VARIABLES
  lt,         \* the log task: where it is, the rest of its text, lostlog
  env         \* the program, and what is left of its bounds

allvars == <<s, log, lt, env>>

InitLog ==
  /\ s = serial_initialize
  /\ log = syslog_initialize
  /\ \E p \in Program : env = [program |-> p, calls |-> MaxCall[p], rcvs |-> MaxRcv[p]]
  /\ lt = [pc |-> IF env.program = "log" THEN "opn" ELSE "none", text |-> <<>>,
           rec |-> NoRecord, lostlog |-> 0, dropped |-> 0]

(* The records that were discarded because of their type have no number on *)
(* the line.                                                               *)
syslog_print(r) == <<chr("rec", r.n - lt.dropped), NL>>
syslog_lostmsg(n) == <<chr("lost", n), NL>>

(***************************************************************************)
(* logtask_main.                                                           *)
(***************************************************************************)
logtask_start ==
  \/ /\ lt.pc = "opn"
     /\ s' = serial_opn_por_body(s) /\ lt' = [lt EXCEPT !.pc = "msk"]
     /\ UNCHANGED <<log, env>>
  \/ /\ lt.pc = "msk"
     /\ log' = [log EXCEPT !.logmask = Prio] /\ lt' = [lt EXCEPT !.pc = "hello"]
     /\ UNCHANGED <<s, env>>
  \/ /\ lt.pc = "hello"
     /\ \E prio \in Prio : log' = wri_log(log, prio, TRUE)
     /\ lt' = [lt EXCEPT !.pc = "rea"]
     /\ UNCHANGED <<s, env>>

(* Fault: the lost records of the call that returns the record are not     *)
(* added to those before.                                                  *)
lost_before_reset(lostlog, n) == n

lost_before(lostlog, n) == lostlog + n

(* A record is read; if it is to be printed, so are the losses before it. *)
logtask_read ==
  /\ lt.pc = "rea" /\ log.count > 0
  /\ log' = rea_log(log)
  /\ LET r    == rea_log_record(log)
         lost == lost_before(lt.lostlog, rea_log_lost(log))
     IN  lt' = IF r.comment
               THEN [lt EXCEPT !.pc = "putc", !.rec = r, !.lostlog = 0,
                               !.text = (IF lost > 0 THEN syslog_lostmsg(lost) ELSE <<>>)
                                        \o syslog_print(r)]
               ELSE [lt EXCEPT !.rec = r, !.lostlog = lost, !.dropped = @ + 1]
  /\ UNCHANGED <<s, env>>

(* The log is empty: losses without a record after them are printed, and   *)
(* the task waits for LOGTASK_INTERVAL.                                    *)
logtask_empty ==
  /\ lt.pc = "rea" /\ log.count = 0
  /\ lt' = IF lt.lostlog > 0
           THEN [lt EXCEPT !.pc = "last", !.text = syslog_lostmsg(lt.lostlog), !.lostlog = 0]
           ELSE [lt EXCEPT !.pc = "dly"]
  /\ UNCHANGED <<s, log, env>>

(* logtask_putc for the next character. *)
logtask_putc ==
  /\ lt.pc \in {"putc", "last"} /\ lt.text # <<>> /\ s.tsk[logtask].pc = "idle"
  /\ s' = IF s.openflag /\ ~s.errorflag
          THEN serial_wri_dat_start(s, logtask, <<Head(lt.text)>>) ELSE s
  /\ lt' = [lt EXCEPT !.text = Tail(@)]
  /\ UNCHANGED <<log, env>>

logtask_printed ==
  /\ lt.pc \in {"putc", "last"} /\ lt.text = <<>> /\ s.tsk[logtask].pc = "idle"
  /\ lt' = [lt EXCEPT !.pc = IF lt.pc = "putc" THEN "rea" ELSE "dly"]
  /\ UNCHANGED <<s, log, env>>

(* The end of dly_tsk. *)
logtask_wake ==
  /\ lt.pc = "dly" /\ lt' = [lt EXCEPT !.pc = "rea"]
  /\ UNCHANGED <<s, log, env>>

logtask_main ==
  \/ logtask_start \/ logtask_read \/ logtask_empty
  \/ logtask_putc \/ logtask_printed \/ logtask_wake

(***************************************************************************)
(* logtask_terminate, when the kernel ends and nothing else runs: the      *)
(* characters that the driver has not sent (serial_get_chr), then the      *)
(* records of the log buffer, go to the low-level output.  What the log    *)
(* task had read and not yet written is not output: acc passes over it.    *)
(***************************************************************************)
Ending == lt.pc \in {"get", "buffered", "end"}

ext_ker ==
  /\ env.program = "log" /\ s.openflag /\ ~Ending
  /\ lt' = [lt EXCEPT !.pc = "get"]
  /\ UNCHANGED <<s, log, env>>

messages(n, c) == IF c.kind = "rec" THEN n + 1 ELSE IF c.kind = "lost" THEN n + c.n ELSE n

InHand == lt.lostlog + FoldLeft(messages, 0, s.tsk[logtask].out \o s.tsk[logtask].buf \o lt.text)

serial_get_chr(v) == emit([v EXCEPT !.snd = ring_get(v.snd, SndBufsz)], v.snd.buf[v.snd.rd])

logtask_terminate ==
  \/ /\ lt.pc = "get" /\ s.snd.count > 0
     /\ s' = serial_get_chr(s) /\ UNCHANGED <<log, lt, env>>
  \/ /\ lt.pc = "get" /\ s.snd.count = 0
     /\ s' = [s EXCEPT !.acc = @ + InHand]
     /\ lt' = [lt EXCEPT !.pc = "buffered"] /\ UNCHANGED <<log, env>>
  \/ /\ lt.pc = "buffered" /\ log.count > 0
     /\ LET r == rea_log_record(log)
            n == rea_log_lost(log)
            a == IF n > 0 THEN emit(s, chr("lost", n)) ELSE s
        IN  IF r.comment THEN s' = emit(a, Head(syslog_print(r))) /\ lt' = [lt EXCEPT !.rec = r]
            ELSE s' = a /\ lt' = [lt EXCEPT !.rec = r, !.dropped = @ + 1]
     /\ log' = rea_log(log) /\ UNCHANGED env
  \/ /\ lt.pc = "buffered" /\ log.count = 0
     /\ lt' = [lt EXCEPT !.pc = "end"] /\ UNCHANGED <<s, log, env>>
-----------------------------------------------------------------------------
(***************************************************************************)
(* The environment.  In the program "log" the other tasks write, read and  *)
(* log while the log task runs; in the program "port" they have the port   *)
(* for themselves and also open, set and close it, and release one another. *)
(***************************************************************************)
TaskStep(t) == ~Ending /\ Step(t) /\ UNCHANGED <<log, lt, env>>

TaskCall(t) ==
  /\ ~Ending /\ env.calls > 0 /\ t \in Caller[env.program]
  /\ \/ Call(t)
     \/ env.program = "port" /\ Manage(t)
  /\ env' = IF s.openflag THEN [env EXCEPT !.calls = @ - 1] ELSE env
  /\ UNCHANGED <<log, lt>>

Arrive(c) ==
  /\ ~Ending /\ env.rcvs > 0 /\ sio_irdy_rcv(c)
  /\ env' = [env EXCEPT !.rcvs = @ - 1] /\ UNCHANGED <<log, lt>>

Transmit == ~Ending /\ (sio_irdy_snd \/ scif_transmit) /\ UNCHANGED <<log, lt, env>>

Log ==
  /\ ~Ending /\ env.program = "log"
  /\ \/ /\ \E prio \in Prio, comment \in BOOLEAN : syslog_wri_log(prio, comment)
        /\ UNCHANGED env
     \/ /\ env.calls > 0 /\ \E mask \in SUBSET Prio : syslog_msk_log(mask)
        /\ env' = [env EXCEPT !.calls = @ - 1]
  /\ UNCHANGED <<s, lt>>

NextLog ==
  \/ logtask_main \/ ext_ker \/ logtask_terminate
  \/ \E t \in User : TaskStep(t) \/ TaskCall(t)
  \/ \E c \in Line : Arrive(c)
  \/ Transmit \/ Log

(* A task that can run runs at some time (no other one has the processor   *)
(* for ever), dly_tsk ends, the device transmits, and its interrupts are   *)
(* taken.  Nothing else has to happen.                                     *)
Fairness ==
  /\ WF_allvars(logtask_main)
  /\ \A t \in User : WF_allvars(TaskStep(t))
  /\ WF_allvars(Transmit)

SpecLog == InitLog /\ [][NextLog]_allvars /\ Fairness
-----------------------------------------------------------------------------
(***************************************************************************)
(* ResourceInv of module Serial, until the kernel ends: the resources of   *)
(* the semaphores of the port are neither lost nor doubled (serial.c       *)
(* 485-496, 568-593, 678-682, 720-724 and 745-749) while tasks write, read *)
(* and echo, wait and are released, and the port is closed and opened: the *)
(* releases are those from a wait that is not a reader's for the echo, and *)
(* the closings those at which no other task is preempted in the driver    *)
(* (rel_wai and serial_cls_por of module Serial).                          *)
(***************************************************************************)
ResourceOK == ~Ending => ResourceInv

(***************************************************************************)
(* The records on the line are in order and complete: before each record   *)
(* every earlier one was sent or is in the number of a message about lost  *)
(* ones.  When the kernel has ended, every record is accounted for, but    *)
(* those that the log task had read and not yet written.  This follows a   *)
(* record through syslog.c 147-159 and 192-201, logtask.c 138-155 and      *)
(* 173-197 and the driver, while the buffer overflows and other tasks      *)
(* write to the port.                                                      *)
(***************************************************************************)
LogAccounted ==
  /\ s.gap = 0
  /\ lt.pc = "end" => s.acc + lt.dropped = log.seq

(***************************************************************************)
(* The three ring buffers behave as bounded queues: see Snd and Rcv of     *)
(* module Serial, and for syslog.c 148-159 and 192-201 a queue that gives  *)
(* up its oldest record.                                                   *)
(***************************************************************************)
Records == INSTANCE Stream WITH
             Size <- TCNT_SYSLOG_BUFFER, Lossy <- TRUE, Direct <- FALSE, Aside <- {},
             open <- TRUE, queue <- log_contents, last <- lt.rec

StreamSpecs == Snd!Spec /\ Rcv!Spec /\ Records!Spec

(***************************************************************************)
(* Every record is sent, or reported as lost, at some time, unless the     *)
(* peer sends STOP or the kernel ends: the log task, the semaphore of the  *)
(* port that it shares with other tasks, the transmit interrupt that is    *)
(* enabled only while there is something to send, and the wait for room    *)
(* all come to an end.                                                     *)
(***************************************************************************)
LogReachesLine ==
  [](~s.snd_stopped /\ ~Ending) =>
    \A n \in 1 .. MaxLog : (log.seq >= n) ~> (s.acc + lt.dropped >= n)

(***************************************************************************)
(* After START the characters in the buffer are sent, unless STOP comes    *)
(* again or the port is closed: doc/user.txt 1246-1249 says that sending   *)
(* goes on, and so does the comment at serial.c 713.                       *)
(***************************************************************************)
SendingResumes ==
  (s.openflag /\ ~s.snd_stopped /\ s.snd.count > 0)
    ~> (s.snd.count = 0 \/ s.snd_stopped \/ ~s.openflag)
=============================================================================
