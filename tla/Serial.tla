------------------------------- MODULE Serial --------------------------------
(***************************************************************************)
(* The serial interface driver (syssvc/serial.c) on one port: tasks that   *)
(* write and read through two ring buffers, the callbacks of the device    *)
(* that empty the one and fill the other, echo, XON/XOFF flow control in   *)
(* both directions, and two semaphores by which tasks wait for room and    *)
(* for characters.  The device is the SCIF of arch/arm_gcc/rza1.           *)
(*                                                                         *)
(* A section with the CPU locked, a service call of the kernel and a       *)
(* callback are one step each; between two steps of a task any other task  *)
(* and any interrupt may run.  The settings in ioctl are read in the step  *)
(* that uses them.                                                         *)
(***************************************************************************)
EXTENDS Integers, Sequences, FiniteSets

CONSTANTS
  User,        \* the tasks that use the port
  UserPri,     \* their priorities
  SndBufsz,    \* snd_bufsz
  RcvBufsz,    \* rcv_bufsz
  Line,        \* the characters that may arrive at the port
  Texts,       \* the strings that tasks write
  MaxRead,     \* the longest string that a task reads
  Settings     \* the values of ioctl that tasks set

ASSUME SerialAssumption ==
  /\ SndBufsz \in Nat \ {0} /\ RcvBufsz \in Nat \ {0} /\ MaxRead \in Nat
  /\ UserPri \in [User -> Nat]
  /\ RcvBufsz \div 2 < (RcvBufsz * 3) \div 4

VARIABLE s

BUFCNT_STOP == (RcvBufsz * 3) \div 4
BUFCNT_START == RcvBufsz \div 2

(* Characters, and the parts of a log message that are told apart. *)
chr(kind, n) == [kind |-> kind, n |-> n]
NUL == chr("NUL", 0)
CR == chr("CR", 0)
NL == chr("NL", 0)
FC_START == chr("START", 0)
FC_STOP == chr("STOP", 0)

(***************************************************************************)
(* Ring buffers.  A word that is taken out is forgotten.                   *)
(***************************************************************************)
ring(size) == [buf |-> [i \in 0 .. size - 1 |-> NUL], rd |-> 0, wr |-> 0, count |-> 0]

INC_PTR(ptr, size) == IF ptr + 1 = size THEN 0 ELSE ptr + 1

ring_put(r, c, size) ==
  [r EXCEPT !.buf[r.wr] = c, !.wr = INC_PTR(r.wr, size), !.count = r.count + 1]

ring_get(r, size) ==
  [r EXCEPT !.buf[r.rd] = NUL, !.rd = INC_PTR(r.rd, size), !.count = r.count - 1]

contents(r, size) == [i \in 1 .. r.count |-> r.buf[(r.rd + i - 1) % size]]

(***************************************************************************)
(* A task: where it is, the rest of the string and of the characters for   *)
(* its current character that it still has to write, and in                *)
(* serial_rea_dat how many characters it still has to read and             *)
(* buffer_empty.                                                           *)
(***************************************************************************)
Idle == [pc |-> "idle", buf |-> <<>>, out |-> <<>>, reading |-> FALSE,
         need |-> 0, empty |-> TRUE]

serial_initialize ==
  [openflag |-> FALSE, errorflag |-> FALSE, ioctl |-> {},
   rcv |-> ring(RcvBufsz), fc |-> NUL, rcv_stopped |-> FALSE,
   snd |-> ring(SndBufsz), snd_stopped |-> FALSE,
   sem |-> [snd |-> 1, rcv |-> 0],
   dev |-> [tdfe |-> TRUE, tie |-> FALSE, rie |-> FALSE, irq |-> FALSE],
   sent |-> NUL, got |-> NUL, acc |-> 0, gap |-> 0,
   tsk |-> [t \in User |-> Idle]]

at(v, t, pc) == [v EXCEPT !.tsk[t].pc = pc]
return(v, t) == [v EXCEPT !.tsk[t] = Idle]

(***************************************************************************)
(* The semaphores SERIAL_SND_SEM and SERIAL_RCV_SEM, of at most one        *)
(* resource, with their tasks in the order of priority (module Semaphore   *)
(* and the refinement in SyncObjects).                                     *)
(***************************************************************************)
waiting(x) == IF x = "snd" THEN "blk_snd" ELSE "blk_rcv"
granted(x) == IF x = "snd" THEN "wri_chr" ELSE "rea_chr"
blocked(v, x) == {t \in User : v.tsk[t].pc = waiting(x)}

wai_sem(v, t, x) == IF v.sem[x] > 0 THEN at([v EXCEPT !.sem[x] = @ - 1], t, granted(x))
                    ELSE at(v, t, waiting(x))

E_QOVR(v, x) == blocked(v, x) = {} /\ v.sem[x] = 1

sig_sem(v, x) ==
  IF blocked(v, x) # {}
  THEN at(v, CHOOSE t \in blocked(v, x) :
               \A u \in blocked(v, x) : UserPri[t] <= UserPri[u], granted(x))
  ELSE IF E_QOVR(v, x) THEN [v EXCEPT !.errorflag = TRUE]
  ELSE [v EXCEPT !.sem[x] = @ + 1]

(* Every waiting task returns with E_DLT. *)
ini_sem(v, x, init) ==
  [v EXCEPT !.sem[x] = init,
            !.tsk = [t \in User |-> IF t \in blocked(v, x) THEN Idle ELSE v.tsk[t]]]
-----------------------------------------------------------------------------
(***************************************************************************)
(* The device.  It accepts a character while its transmit FIFO has room    *)
(* (TDFE), and interrupts while that is so if TIE is set.  acc counts the  *)
(* log messages that the characters sent so far stand for, and gap is the  *)
(* number of messages that are missing before the last one.                *)
(***************************************************************************)
emit(v, c) ==
  [v EXCEPT !.sent = c,
            !.gap = IF c.kind = "rec" THEN c.n - v.acc - 1 ELSE v.gap,
            !.acc = CASE c.kind = "rec"  -> c.n
                      [] c.kind = "lost" -> v.acc + c.n
                      [] OTHER           -> v.acc]

sio_snd_chr(v, c) == IF v.dev.tdfe THEN emit([v EXCEPT !.dev.tdfe = FALSE], c) ELSE v

sio_opn_por(v) == [v EXCEPT !.dev.irq = TRUE]

(* The interrupt lines are masked; what is written for SCSCR reaches       *)
(* another register, so TIE and RIE stay as they are.                      *)
sio_cls_por(v) == [v EXCEPT !.dev.irq = FALSE, !.dev.tdfe = FALSE]

(* The device can send the next character. *)
scif_transmit == ~s.dev.tdfe /\ s' = [s EXCEPT !.dev.tdfe = TRUE]

(* Fault: the callback is not enabled when the device is busy. *)
serial_snd_chr_quiet(v, c) == sio_snd_chr(v, c)

(* serial_snd_chr: the state after it; it succeeds if the device is ready. *)
serial_snd_chr(v, c) == IF v.dev.tdfe THEN sio_snd_chr(v, c) ELSE [v EXCEPT !.dev.tie = TRUE]
-----------------------------------------------------------------------------
(***************************************************************************)
(* Opening, closing and settings.                                          *)
(***************************************************************************)
serial_opn_por_body(v) ==
  IF v.openflag THEN v
  ELSE LET o == sio_opn_por(v) IN
       [o EXCEPT !.ioctl = {"ECHO", "CRLF", "FCSND", "FCRCV"},
                 !.rcv = ring(RcvBufsz), !.fc = NUL, !.rcv_stopped = FALSE,
                 !.snd = ring(SndBufsz), !.snd_stopped = FALSE,
                 !.dev.rie = TRUE, !.openflag = TRUE, !.errorflag = FALSE]

serial_opn_por(t) == s.tsk[t].pc = "idle" /\ ~s.openflag /\ s' = serial_opn_por_body(s)

(* The program closes the port only while every other task that uses it    *)
(* waits for a semaphore: one that was preempted inside the driver would   *)
(* go on with a closed, or a newly opened, port.                           *)
serial_cls_por(t) ==
  /\ s.tsk[t].pc = "idle" /\ s.openflag
  /\ \A u \in User : s.tsk[u].pc \in {"idle", "blk_snd", "blk_rcv"}
  /\ s' = LET c == sio_cls_por(s)
          IN  ini_sem(ini_sem([c EXCEPT !.openflag = FALSE], "snd", 1), "rcv", 0)

serial_ctl_por(t, ioctl) ==
  /\ s.tsk[t].pc = "idle" /\ s.openflag /\ ~s.errorflag
  /\ s' = [s EXCEPT !.ioctl = ioctl]
-----------------------------------------------------------------------------
(***************************************************************************)
(* Writing.                                                                *)
(***************************************************************************)
serial_wri_dat_start(v, t, buf) ==
  [v EXCEPT !.tsk[t] = [Idle EXCEPT !.pc = "wait_snd", !.buf = buf]]

serial_wri_dat(t, buf) ==
  /\ s.tsk[t].pc = "idle" /\ s.openflag /\ ~s.errorflag /\ buf # <<>>
  /\ s' = serial_wri_dat_start(s, t, buf)

(* Where a task that reads goes on after a character. *)
next_rea(v, t) ==
  LET k == v.tsk[t]
  IN  IF k.need > 0 THEN at(v, t, IF k.empty THEN "wait_rcv" ELSE "rea_chr")
      ELSE IF k.empty THEN return(v, t) ELSE at(v, t, "sig_rcv")

end_wri(v, t) == IF v.tsk[t].reading THEN next_rea(v, t) ELSE return(v, t)

(* The characters that serial_wri_chr writes for c. *)
crlf(v, c) == IF c = NL /\ "CRLF" \in v.ioctl THEN <<CR, NL>> ELSE <<c>>

(* Fault: the test of snd_count is missing. *)
may_send_overtake(v) == ~v.snd_stopped

may_send(v) == v.snd.count = 0 /\ ~v.snd_stopped

(* The section of serial_wri_chr with the CPU locked. *)
wri_chr_body(v, c) ==
  LET a == IF may_send(v) THEN serial_snd_chr(v, c) ELSE v
  IN  IF may_send(v) /\ v.dev.tdfe THEN a
      ELSE [a EXCEPT !.snd = ring_put(v.snd, c, SndBufsz)]

(* A task that fills the buffer leaves the resource of SERIAL_SND_SEM to   *)
(* the callback and waits for it before its next character.                *)
serial_wri_chr(t) ==
  /\ s.tsk[t].pc = "wri_chr"
  /\ LET k    == s.tsk[t]
         out  == IF k.out = <<>> THEN crlf(s, Head(k.buf)) ELSE k.out
         rest == IF k.out = <<>> THEN Tail(k.buf) ELSE k.buf
         b    == wri_chr_body(s, Head(out))
         full == b.snd.count > s.snd.count /\ b.snd.count = SndBufsz
         w    == [b EXCEPT !.tsk[t].out = Tail(out), !.tsk[t].buf = rest]
     IN  s' = IF Tail(out) # <<>> \/ rest # <<>>
              THEN at(w, t, IF full THEN "wait_snd" ELSE "wri_chr")
              ELSE IF full THEN end_wri(w, t) ELSE at(w, t, "sig_snd")
-----------------------------------------------------------------------------
(***************************************************************************)
(* Reading.                                                                *)
(***************************************************************************)
serial_rea_dat(t, n) ==
  /\ s.tsk[t].pc = "idle" /\ s.openflag /\ ~s.errorflag /\ n > 0
  /\ s' = [s EXCEPT !.tsk[t] = [Idle EXCEPT !.pc = "wait_rcv", !.reading = TRUE, !.need = n]]

(* Fault: START is sent only when the buffer is below the mark. *)
start_due_late(v, r) == v.rcv_stopped /\ r.count < BUFCNT_START

start_due(v, r) == v.rcv_stopped /\ r.count <= BUFCNT_START

serial_rea_chr(t) ==
  /\ s.tsk[t].pc = "rea_chr"
  /\ LET c == s.rcv.buf[s.rcv.rd]
         r == ring_get(s.rcv, RcvBufsz)
         a == [s EXCEPT !.rcv = r, !.got = c,
                        !.tsk[t] = [s.tsk[t] EXCEPT !.pc = "echo", !.buf = <<c>>, !.need = @ - 1,
                                                     !.empty = r.count = 0]]
     IN  s' = IF start_due(s, r)
              THEN [serial_snd_chr(a, FC_START) EXCEPT
                      !.fc = IF s.dev.tdfe THEN @ ELSE FC_START, !.rcv_stopped = FALSE]
              ELSE a

(* The test for echo, and the wait for room. *)
echo(t) ==
  /\ s.tsk[t].pc = "echo"
  /\ s' = IF "ECHO" \in s.ioctl THEN wai_sem(s, t, "snd")
          ELSE next_rea([s EXCEPT !.tsk[t].buf = <<>>], t)

(***************************************************************************)
(* The calls of the kernel in serial_wri_dat, serial_wri_chr and           *)
(* serial_rea_dat.                                                         *)
(***************************************************************************)
wait_sem(t) ==
  \/ s.tsk[t].pc = "wait_snd" /\ s' = wai_sem(s, t, "snd")
  \/ s.tsk[t].pc = "wait_rcv" /\ s' = wai_sem(s, t, "rcv")

signal_sem(t) ==
  \/ /\ s.tsk[t].pc = "sig_snd"
     /\ s' = IF E_QOVR(s, "snd") THEN return(sig_sem(s, "snd"), t)
             ELSE end_wri(sig_sem(s, "snd"), t)
  \/ s.tsk[t].pc = "sig_rcv" /\ s' = return(sig_sem(s, "rcv"), t)

(* rel_wai by another task: the call returns E_RLWAI.  The program does    *)
(* not release a task that waits to echo while it has the resource of      *)
(* SERIAL_RCV_SEM, which the driver would not give back.                   *)
rel_wai(t) ==
  /\ s.tsk[t].pc \in {"blk_snd", "blk_rcv"}
  /\ s.tsk[t].reading => s.tsk[t].empty
  /\ s' = return(s, t)
-----------------------------------------------------------------------------
(***************************************************************************)
(* The callbacks.                                                          *)
(***************************************************************************)
(* Fault: the semaphore is signalled when the buffer becomes empty. *)
give_room_empty(v) == IF v.snd.count = 1 THEN sig_sem(v, "snd") ELSE v

(* Room in a buffer that was full. *)
give_room(v) == IF v.snd.count = SndBufsz THEN sig_sem(v, "snd") ELSE v

snd_next(v) ==
  LET a == give_room(sio_snd_chr(v, v.snd.buf[v.snd.rd]))
  IN  [a EXCEPT !.snd = ring_get(v.snd, SndBufsz)]

sio_irdy_snd ==
  /\ s.dev.irq /\ s.dev.tie /\ s.dev.tdfe
  /\ s' = IF s.fc # NUL THEN [sio_snd_chr(s, s.fc) EXCEPT !.fc = NUL]
          ELSE IF ~s.snd_stopped /\ s.snd.count > 0 THEN snd_next(s)
          ELSE [s EXCEPT !.dev.tie = FALSE]

(* A character for the receive buffer. *)
receive(v, c) ==
  LET a == IF v.rcv.count = 0 THEN sig_sem(v, "rcv") ELSE v
      b == [a EXCEPT !.rcv = ring_put(v.rcv, c, RcvBufsz)]
  IN  IF "FCRCV" \in v.ioctl /\ ~v.rcv_stopped /\ b.rcv.count >= BUFCNT_STOP
      THEN [serial_snd_chr(b, FC_STOP) EXCEPT
              !.fc = IF v.dev.tdfe THEN @ ELSE FC_STOP, !.rcv_stopped = TRUE]
      ELSE b

(* Sending goes on with one character, if the device is ready. *)
resume(v) ==
  LET a == [v EXCEPT !.snd_stopped = FALSE]
  IN  IF v.snd.count = 0 THEN a
      ELSE IF v.dev.tdfe THEN snd_next(a)
      ELSE serial_snd_chr(a, v.snd.buf[v.snd.rd])

sio_irdy_rcv(c) ==
  /\ s.dev.irq /\ s.dev.rie
  /\ s' = IF "FCSND" \in s.ioctl /\ c = FC_STOP THEN [s EXCEPT !.snd_stopped = TRUE]
          ELSE IF s.snd_stopped /\ (c = FC_START \/ "FCANY" \in s.ioctl) THEN resume(s)
          ELSE IF "FCSND" \in s.ioctl /\ c = FC_START THEN s
          ELSE IF s.rcv.count = RcvBufsz THEN s
          ELSE receive(s, c)
-----------------------------------------------------------------------------
(* The steps of a task inside the driver. *)
Step(t) ==
  \/ wait_sem(t) \/ signal_sem(t) \/ serial_wri_chr(t) \/ serial_rea_chr(t) \/ echo(t)

Call(t) ==
  \/ \E buf \in Texts : serial_wri_dat(t, buf)
  \/ \E n \in 1 .. MaxRead : serial_rea_dat(t, n)

(* The calls of a program that manages the port. *)
Manage(t) ==
  \/ serial_opn_por(t) \/ serial_cls_por(t) \/ rel_wai(t)
  \/ \E io \in Settings : serial_ctl_por(t, io)
-----------------------------------------------------------------------------
(***************************************************************************)
(* The resource of each semaphore is in one place.  That of                *)
(* SERIAL_SND_SEM is in the semaphore, or with the one task that writes,   *)
(* or nowhere while the buffer is full; that of SERIAL_RCV_SEM is in the   *)
(* semaphore, or with the one task that reads, or nowhere while the buffer *)
(* is empty.  So two strings are mixed only where a writer had to wait for *)
(* room, nobody waits while there is room or a character for him, and no   *)
(* signal overruns (errorflag).  This is about serial.c 485-496, 568-593,  *)
(* 678-682 and 745-749, where a resource is given back by the side that    *)
(* changes the state of the buffer.  It covers the releases and closings   *)
(* that rel_wai and serial_cls_por allow: a release from every wait but    *)
(* that of a reader for the echo (582), and a closing (364) while the      *)
(* other tasks wait or are outside the driver.                             *)
(***************************************************************************)
SndHolders == {t \in User : s.tsk[t].pc \in {"wri_chr", "sig_snd"}}
RcvHolders ==
  {t \in User : \/ s.tsk[t].pc \in {"rea_chr", "sig_rcv"}
                \/ s.tsk[t].reading /\ ~s.tsk[t].empty}

ResourceInv ==
  s.openflag =>
    /\ ~s.errorflag
    /\ s.sem.snd + Cardinality(SndHolders) + (IF s.snd.count = SndBufsz THEN 1 ELSE 0) = 1
    /\ s.sem.rcv + Cardinality(RcvHolders) + (IF s.rcv.count = 0 THEN 1 ELSE 0) = 1

(***************************************************************************)
(* While the peer is held by STOP, the receive buffer is above the mark at *)
(* which START is sent, so there are characters to read and reading them   *)
(* sends START: neither side waits for the other (serial.c 525-531 and     *)
(* 755-762, under every change of ioctl).                                  *)
(***************************************************************************)
NoMutualStop == s.openflag /\ s.rcv_stopped => s.rcv.count > BUFCNT_START

(***************************************************************************)
(* Both ring buffers are bounded queues: every character that is written   *)
(* is sent once and in order, also where it goes to the device without the *)
(* buffer (serial.c 433) or by START (716-727); only START and STOP        *)
(* overtake.                                                               *)
(***************************************************************************)
Snd == INSTANCE Stream WITH Size <- SndBufsz, Lossy <- FALSE, Direct <- TRUE,
                            Aside <- {FC_START, FC_STOP},
                            open <- s.openflag,
                            queue <- contents(s.snd, SndBufsz), last <- s.sent
Rcv == INSTANCE Stream WITH Size <- RcvBufsz, Lossy <- FALSE, Direct <- FALSE, Aside <- {},
                            open <- s.openflag,
                            queue <- contents(s.rcv, RcvBufsz), last <- s.got
=============================================================================
