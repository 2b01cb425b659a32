----------------------------- MODULE DataQueue ------------------------------
(***************************************************************************)
(* Data queues: kernel/dataqueue.c.  The buffer is the ring dtqmb[o] of    *)
(* dtqcnt[o] places, with count, head and tail; it may have no place.  The *)
(* data of a task that waits to send, and of one that has received, are in *)
(* its WINFO_DTQ.                                                          *)
(***************************************************************************)
EXTENDS WaitObj

CONSTANTS
  Dtq,     \* the data queues
  adtq,    \* those for dynamic creation, in table order
  dtqinib, \* attribute and size of the others
  CDtq,    \* the packets T_CDTQ with which acre_dtq is called
  DtqData  \* the data

ASSUME DtqAssumption ==
  /\ Dtq \subseteq Wobj /\ adtq \in Seq(Dtq) /\ IsInjective(adtq) /\ Dtq \subseteq DOMAIN rwait
  /\ CDtq \cup {dtqinib[o] : o \in Dtq \ ToSet(adtq)}
       \subseteq [dtqatr : {"TA_NULL", "TA_TPRI"}, dtqcnt : Nat]
  /\ NULL \notin DtqData

initialize_dataqueue(k1) ==
  LET inib(o) == IF o \in ToSet(adtq) THEN [dtqatr |-> "TA_NOEXS", dtqcnt |-> 0] ELSE dtqinib[o]
  IN  extend(k1, [wobjatr    |-> extend(k1.wobjatr, [o \in Dtq |-> inib(o).dtqatr]),
                  dtqcnt     |-> [o \in Dtq |-> inib(o).dtqcnt],
                  dtqmb      |-> [o \in Dtq |-> [i \in 0 .. inib(o).dtqcnt - 1 |-> NULL]],
                  dtq        |-> [o \in Dtq |-> [count |-> 0, head |-> 0, tail |-> 0]],
                  free_dtqcb |-> adtq])

(* An index of the ring is incremented. *)
inc(o, i) == IF i + 1 >= k.dtqcnt[o] THEN 0 ELSE i + 1

enqueue_data(k1, o, data) ==
  LET d == k1.dtq[o]
  IN  [k1 EXCEPT !.dtqmb[o][d.tail] = data,
                 !.dtq[o] = [d EXCEPT !.count = @ + 1, !.tail = inc(o, @)]]

force_enqueue_data(k1, o, data) ==
  LET d    == k1.dtq[o]
      tail == inc(o, d.tail)
  IN  [k1 EXCEPT !.dtqmb[o][d.tail] = data,
                 !.dtq[o] = IF d.count < k1.dtqcnt[o]
                            THEN [d EXCEPT !.tail = tail, !.count = @ + 1]
                            ELSE [d EXCEPT !.tail = tail, !.head = tail]]

dequeue_data(k1, o) ==
  LET d == k1.dtq[o]
  IN  [k1 EXCEPT !.dtq[o] = [d EXCEPT !.count = d.count - 1, !.head = inc(o, d.head)]]

(* send_data returns false when there is neither a receiver nor a place. *)
can_send(o) == k.wait_queue[rwait[o]] # <<>> \/ k.dtq[o].count < k.dtqcnt[o]
send_data(o, data) ==
  IF k.wait_queue[rwait[o]] # <<>> THEN complete_head(k, rwait[o], data)
  ELSE enqueue_data(k, o, data)

force_send_data(o, data) ==
  IF k.wait_queue[rwait[o]] # <<>> THEN complete_head(k, rwait[o], data)
  ELSE force_enqueue_data(k, o, data)

(* Fault: the datum of the waiting sender is not put in the buffer. *)
receive_data_drop(o) ==
  LET k1 == IF k.dtq[o].count > 0 THEN dequeue_data(k, o) ELSE k
  IN  IF k.wait_queue[o] # <<>> THEN complete_head(k1, o, NULL) ELSE k1

(* receive_data returns false when there is nothing to receive. *)
can_receive(o) == k.dtq[o].count > 0 \/ k.wait_queue[o] # <<>>
receive_data(o) ==
  LET sender == k.winfo_data[Head(k.wait_queue[o])]
      k1 == IF k.dtq[o].count > 0 THEN dequeue_data(k, o) ELSE k
      k2 == IF k.dtq[o].count > 0 THEN enqueue_data(k1, o, sender) ELSE k1
  IN  IF k.wait_queue[o] # <<>> THEN complete_head(k2, o, NULL) ELSE k1

-----------------------------------------------------------------------------
(* Without memory for the buffer acre_dtq returns E_NOMEM and changes      *)
(* nothing.                                                                *)
acre_dtq(pk) ==
  /\ CHECK_TSKCTX_UNL /\ k.free_dtqcb # <<>>
  /\ LET o == Head(k.free_dtqcb)
     IN  k' = [create_obj(k, o, pk.dtqatr) EXCEPT
                 !.free_dtqcb = Tail(@), !.dtqcnt[o] = pk.dtqcnt,
                 !.dtqmb[o] = [i \in 0 .. pk.dtqcnt - 1 |-> NULL],
                 !.dtq[o] = [count |-> 0, head |-> 0, tail |-> 0]]

del_dtq(o) ==
  /\ CHECK_TSKCTX_UNL /\ obj_exists(o) /\ o \in ToSet(adtq)
  /\ k' = t_leave([delete_obj(k, o) EXCEPT !.free_dtqcb = Append(@, o)])

(* snd_dtq, and tsnd_dtq with a timeout > 0. *)
snd_dtq(o, data, tmout) ==
  /\ CHECK_DISPATCH /\ obj_exists(o)
  /\ k' = IF can_send(o) THEN t_leave(send_data(o, data))
          ELSE wait_with("SDTQ", o, tmout, data)

psnd_dtq(o, data) == /\ CHECK_TSKCTX_UNL /\ obj_exists(o) /\ can_send(o)
                     /\ k' = t_leave(send_data(o, data))
ipsnd_dtq(o, data) == /\ CHECK_INTCTX_UNL /\ obj_exists(o) /\ can_send(o)
                      /\ k' = i_leave(send_data(o, data))

fsnd_dtq(o, data) == /\ CHECK_TSKCTX_UNL /\ obj_exists(o) /\ k.dtqcnt[o] > 0
                     /\ k' = t_leave(force_send_data(o, data))
ifsnd_dtq(o, data) == /\ CHECK_INTCTX_UNL /\ obj_exists(o) /\ k.dtqcnt[o] > 0
                      /\ k' = i_leave(force_send_data(o, data))

(* rcv_dtq, and trcv_dtq with a timeout > 0. *)
rcv_dtq(o, tmout) ==
  /\ CHECK_DISPATCH /\ obj_exists(o)
  /\ k' = IF can_receive(o) THEN t_leave(receive_data(o))
          ELSE wait_with("RDTQ", rwait[o], tmout, NULL)

prcv_dtq(o) == /\ CHECK_TSKCTX_UNL /\ obj_exists(o) /\ can_receive(o)
               /\ k' = t_leave(receive_data(o))

ini_dtq(o) ==
  /\ CHECK_TSKCTX_UNL /\ obj_exists(o)
  /\ k' = t_leave([init_wait_queues(k, o) EXCEPT
                     !.dtq[o] = [count |-> 0, head |-> 0, tail |-> 0]])

DtqCalls ==
  \/ \E pk \in CDtq : acre_dtq(pk)
  \/ \E o \in Dtq :
       \/ del_dtq(o) \/ ini_dtq(o) \/ prcv_dtq(o)
       \/ \E d \in DtqData : \/ psnd_dtq(o, d) \/ ipsnd_dtq(o, d)
                             \/ fsnd_dtq(o, d) \/ ifsnd_dtq(o, d)
       \/ \E b \in BOOLEAN : rcv_dtq(o, b) \/ \E d \in DtqData : snd_dtq(o, d, b)

(* A data queue as a channel. *)
DtqPar(o) == [cap |-> k.dtqcnt[o], order |-> "FIFO", ini |-> <<>>]
DtqBuf(o) == [i \in 1 .. k.dtq[o].count
                |-> k.dtqmb[o][(k.dtq[o].head + i - 1) % k.dtqcnt[o]]]
=============================================================================
