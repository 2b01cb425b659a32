------------------------------ MODULE Mailbox -------------------------------
(***************************************************************************)
(* Mailboxes: kernel/mailbox.c.  The kernel keeps no copy of a message: it *)
(* links the messages in a mailbox through their headers.  pk_next[m] is   *)
(* the header of message m; pk_head and pk_last are the mailbox's.         *)
(***************************************************************************)
EXTENDS WaitObj

CONSTANTS
  Mbx,     \* the mailboxes
  ambx,    \* those for dynamic creation, in table order
  mbxinib, \* the attributes of the others
  CMbx,    \* the packets T_CMBX with which acre_mbx is called
  Msg      \* the messages, records with a field pri (MSGPRI)

(* tpri is the attribute of the wait queue, mpri that of the messages. *)
ASSUME MbxAssumption ==
  /\ Mbx \subseteq Wobj /\ ambx \in Seq(Mbx) /\ IsInjective(ambx)
  /\ CMbx \cup {mbxinib[o] : o \in Mbx \ ToSet(ambx)}
       \subseteq [tpri : {"TA_NULL", "TA_TPRI"}, mpri : BOOLEAN, maxmpri : Nat \ {0}]
  /\ NULL \notin Msg /\ \A m \in Msg : m.pri \in Nat \ {0}

initialize_mailbox(k1) ==
  LET inib(o) == IF o \in ToSet(ambx) THEN [tpri |-> "TA_NOEXS", mpri |-> FALSE, maxmpri |-> 1]
                 ELSE mbxinib[o]
  IN  extend(k1, [wobjatr    |-> extend(k1.wobjatr, [o \in Mbx |-> inib(o).tpri]),
                  mpri       |-> [o \in Mbx |-> inib(o).mpri],
                  maxmpri    |-> [o \in Mbx |-> inib(o).maxmpri],
                  pk_head    |-> [o \in Mbx |-> NULL],
                  pk_last    |-> [o \in Mbx |-> NULL],
                  pk_next    |-> [m \in Msg |-> NULL],
                  free_mbxcb |-> ambx])

messages(k1, o) == chain(k1.pk_head[o], k1.pk_next, NULL)

(* pk_next of message p, or pk_head if p is NULL, becomes m. *)
link(k1, o, p, m) == IF p = NULL THEN [k1 EXCEPT !.pk_head[o] = m]
                     ELSE [k1 EXCEPT !.pk_next[p] = m]

enqueue_msg_pri(k1, o, m) ==
  LET q == messages(k1, o)
      n == IF \E i \in DOMAIN q : q[i].pri > m.pri
           THEN CHOOSE i \in DOMAIN q : q[i].pri > m.pri /\ \A j \in 1 .. i - 1 : q[j].pri <= m.pri
           ELSE Len(q) + 1
  IN  link([k1 EXCEPT !.pk_next[m] = IF n <= Len(q) THEN q[n] ELSE NULL],
           o, IF n = 1 THEN NULL ELSE q[n - 1], m)

(* Without TA_MPRI the message goes after pk_last, which is used only      *)
(* while the mailbox is not empty.                                         *)
enqueue_msg(k1, o, m) ==
  LET k2 == [k1 EXCEPT !.pk_next[m] = NULL, !.pk_last[o] = m]
  IN  link(k2, o, IF k1.pk_head[o] # NULL THEN k1.pk_last[o] ELSE NULL, m)

acre_mbx(pk) ==
  /\ CHECK_TSKCTX_UNL /\ k.free_mbxcb # <<>>
  /\ LET o == Head(k.free_mbxcb)
     IN  k' = [create_obj(k, o, pk.tpri) EXCEPT
                 !.free_mbxcb = Tail(@), !.mpri[o] = pk.mpri, !.maxmpri[o] = pk.maxmpri,
                 !.pk_head[o] = NULL]

del_mbx(o) ==
  /\ CHECK_TSKCTX_UNL /\ obj_exists(o) /\ o \in ToSet(ambx)
  /\ k' = t_leave([delete_obj(k, o) EXCEPT !.free_mbxcb = Append(@, o)])

snd_mbx(o, m) ==
  /\ CHECK_TSKCTX_UNL /\ obj_exists(o) /\ (k.mpri[o] => m.pri <= k.maxmpri[o])
  /\ k' = IF k.wait_queue[o] # <<>> THEN t_leave(complete_head(k, o, m))
          ELSE IF k.mpri[o] THEN enqueue_msg_pri(k, o, m) ELSE enqueue_msg(k, o, m)

take_msg(o) == [k EXCEPT !.pk_head[o] = k.pk_next[k.pk_head[o]]]

(* rcv_mbx, and trcv_mbx with a timeout > 0. *)
rcv_mbx(o, tmout) ==
  /\ CHECK_DISPATCH /\ obj_exists(o)
  /\ k' = IF k.pk_head[o] # NULL THEN take_msg(o) ELSE wait_with("MBX", o, tmout, NULL)

prcv_mbx(o) == /\ CHECK_TSKCTX_UNL /\ obj_exists(o) /\ k.pk_head[o] # NULL
               /\ k' = take_msg(o)

ini_mbx(o) ==
  /\ CHECK_TSKCTX_UNL /\ obj_exists(o)
  /\ k' = t_leave([init_wait_queues(k, o) EXCEPT !.pk_head[o] = NULL])

(* A program may not send a message that is in a mailbox: the memory of    *)
(* the header belongs to the kernel until the message is received.         *)
MbxCalls ==
  \/ \E pk \in CMbx : acre_mbx(pk)
  \/ \E o \in Mbx :
       \/ del_mbx(o) \/ ini_mbx(o) \/ prcv_mbx(o)
       \/ \E m \in Msg : /\ \A x \in Mbx : obj_exists(x) => m \notin ToSet(messages(k, x))
                         /\ snd_mbx(o, m)
       \/ \E b \in BOOLEAN : rcv_mbx(o, b)

(* A mailbox as a channel with place for every message. *)
MbxPar(o) == [cap |-> Cardinality(Msg), order |-> IF k.mpri[o] THEN "PRI" ELSE "FIFO",
              ini |-> <<>>]
MbxBuf(o) == messages(k, o)
=============================================================================
