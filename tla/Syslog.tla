------------------------------- MODULE Syslog --------------------------------
(***************************************************************************)
(* The system log (syssvc/syslog.c): a ring buffer of log records that     *)
(* overwrites its oldest record when it is full and counts what it loses.  *)
(* Every function is one step: it runs with all interrupts locked.  The    *)
(* low-level output of urgent messages by target_fput_log is left out.     *)
(***************************************************************************)
EXTENDS Integers, Sequences

CONSTANTS
  TCNT_SYSLOG_BUFFER,   \* the size of the log buffer
  Prio,                 \* the severities
  MaxLog                \* bound: the number of records

ASSUME SyslogAssumption == TCNT_SYSLOG_BUFFER \in Nat \ {0} /\ MaxLog \in Nat

(* log.seq counts the records; a record is told apart by its number. *)
VARIABLE log

NoRecord == [n |-> 0, comment |-> FALSE]

syslog_initialize ==
  [buffer |-> [i \in 0 .. TCNT_SYSLOG_BUFFER - 1 |-> NoRecord],
   count |-> 0, head |-> 0, tail |-> 0, lost |-> 0, logmask |-> {}, seq |-> 0]

wrap(i) == IF i >= TCNT_SYSLOG_BUFFER THEN 0 ELSE i

record(g, r) ==
  LET tail == wrap(g.tail + 1)
      room == g.count < TCNT_SYSLOG_BUFFER
  IN  [g EXCEPT !.buffer[g.tail] = r, !.tail = tail,
                !.count = IF room THEN @ + 1 ELSE @,
                !.head = IF room THEN @ ELSE tail,
                !.lost = IF room THEN @ ELSE @ + 1]

(* syslog_wri_log of a record of severity prio; comment is whether its     *)
(* type is one that the log task prints.                                   *)
wri_log(g, prio, comment) ==
  IF prio \notin g.logmask THEN g
  ELSE record([g EXCEPT !.seq = @ + 1], [n |-> g.seq + 1, comment |-> comment])

syslog_wri_log(prio, comment) == log.seq < MaxLog /\ log' = wri_log(log, prio, comment)

syslog_msk_log(logmask) == log' = [log EXCEPT !.logmask = logmask]

(* syslog_rea_log on a log that is not empty: the record, the number of    *)
(* lost records it returns, and the log after it.                          *)
rea_log_record(g) == g.buffer[g.head]
rea_log_lost(g) == g.lost
rea_log(g) == [g EXCEPT !.buffer[g.head] = NoRecord, !.count = @ - 1,
                        !.head = wrap(g.head + 1), !.lost = 0]

log_contents == [i \in 1 .. log.count |-> log.buffer[(log.head + i - 1) % TCNT_SYSLOG_BUFFER]]
=============================================================================
