----------------------------- MODULE TimeEvent ------------------------------
(***************************************************************************)
(* Time events: the heap of kernel/time_event.c, the tick handler          *)
(* signal_time, and the alarm and cyclic handlers of kernel/alarm.c and    *)
(* kernel/cyclic.c that use them.                                          *)
(*                                                                         *)
(* Event times are words of EVTTIM, which wrap around; they are compared   *)
(* by their distance from min_time.  A callback runs inside the loop of    *)
(* signal_time with the CPU unlocked: it, or a handler that interrupts it, *)
(* may register and remove events before min_time is updated.              *)
(*                                                                         *)
(* wait[e] is not in the code: it is the time, in 1/TIC_DENO ms, from the  *)
(* last tick until the moment before which event e must not happen.        *)
(***************************************************************************)
EXTENDS Integers, Sequences, SequencesExt, FiniteSets, TLC

CONSTANTS
  Alm, Cyc,           \* the alarm and the cyclic handlers
  EVTTIM_MOD,         \* 2^w for EVTTIM of w bits
  TMAX_RELTIM,        \* the longest relative time
  TIC_NUME, TIC_DENO, \* a tick is TIC_NUME/TIC_DENO ms
  cyctim, cycphs,     \* period and phase of the cyclic handlers
  TaSta,              \* the static cyclic handlers with attribute TA_STA, in table order
  Dyn                 \* the handlers that are created by acre_alm or acre_cyc

Event == Alm \cup Cyc
EVTTIM == 0 .. EVTTIM_MOD - 1
RELTIM == 0 .. TMAX_RELTIM

(* In the code EVTTIM has 32 bits and TMAX_RELTIM is LONG_MAX.  Two ticks, *)
(* each with a started millisecond, and the longest relative time must fit *)
(* in EVTTIM: no tick is of more than a quarter of 2^32 ms.                *)
ASSUME TimeAssumption ==
  /\ {EVTTIM_MOD, TIC_NUME, TIC_DENO} \subseteq Nat \ {0}
  /\ TMAX_RELTIM = (EVTTIM_MOD \div 2) - 1
  /\ 2 * TIC_NUME + 2 * TIC_DENO - 2 < (EVTTIM_MOD - TMAX_RELTIM) * TIC_DENO
  /\ TaSta \in Seq(Cyc) /\ IsInjective(TaSta)
  /\ Alm \cap Cyc = {} /\ Dyn \subseteq Event \ Range(TaSta)
  /\ \A c \in Cyc : cyctim[c] \in RELTIM \ {0} /\ cycphs[c] \in RELTIM

VARIABLES
  heap,      \* tmevt_heap and the positions in it: [node, index]
  current_time, min_time, next_time, next_subtime,
  almsta, cycsta, evttim,
  noexs,     \* the handlers with TA_NOEXS, whose blocks are in the free lists
  sigtim,    \* signal_time: "out", "loop" (CPU locked), "callback" (unlocked)
  wait

clock == <<current_time, min_time, next_time, next_subtime>>
vars == <<heap, clock, almsta, cycsta, evttim, noexs, sigtim, wait>>

-----------------------------------------------------------------------------
(***************************************************************************)
(* The heap.  h.node is tmevt_heap[0 .. last_index - 1]; h.index[e] is     *)
(* the position of e's node, 0 for an event that is not registered.        *)
(***************************************************************************)
EVTTIM_LT(s, t) == (s - min_time) % EVTTIM_MOD < (t - min_time) % EVTTIM_MOD
(* Fault: the times are compared as numbers. *)
EVTTIM_LE_abs(s, t) == s <= t

EVTTIM_LE(s, t) == (s - min_time) % EVTTIM_MOD <= (t - min_time) % EVTTIM_MOD

PARENT(i) == i \div 2
LCHILD(i) == 2 * i

(* Fault: the index of the block is not updated. *)
put_noindex(h, i, n) ==
  [h EXCEPT !.node[i] = n,
            !.index[n.p_tmevtb] = IF @ = 0 THEN i ELSE @]

(* A node is put at position i, and its block's index follows. *)
put(h, i, n) == [h EXCEPT !.node[i] = n, !.index[n.p_tmevtb] = i]

(* The place for an event at time, searched from the empty place i towards *)
(* the root; the nodes passed move down.  up_step is one iteration of the  *)
(* loop, and leaves the loop's state alone when the loop has ended.        *)
up_done(r, time) == r.place = 1 \/ EVTTIM_LE(r.heap.node[PARENT(r.place)].time, time)

up_step(r, time) ==
  LET parent == PARENT(r.place)
  IN  IF up_done(r, time) THEN r
      ELSE [heap |-> put(r.heap, r.place, r.heap.node[parent]), place |-> parent]

tmevt_up(h, i, time) ==
  LET loop[n \in 0 .. Len(h.node)] ==
        IF n = 0 THEN [heap |-> h, place |-> i] ELSE up_step(loop[n - 1], time)
  IN  loop[Len(h.node)]

(* The same towards the leaves. *)
early_child(h, i) ==
  LET l == LCHILD(i)
  IN  IF l + 1 <= Len(h.node) /\ EVTTIM_LT(h.node[l + 1].time, h.node[l].time)
      THEN l + 1 ELSE l

down_done(r, time) ==
  \/ LCHILD(r.place) > Len(r.heap.node)
  \/ EVTTIM_LE(time, r.heap.node[early_child(r.heap, r.place)].time)

down_step(r, time) ==
  LET child == early_child(r.heap, r.place)
  IN  IF down_done(r, time) THEN r
      ELSE [heap |-> put(r.heap, r.place, r.heap.node[child]), place |-> child]

tmevt_down(h, i, time) ==
  LET loop[n \in 0 .. Len(h.node)] ==
        IF n = 0 THEN [heap |-> h, place |-> i] ELSE down_step(loop[n - 1], time)
  IN  loop[Len(h.node)]

tmevtb_insert(h, e, time) ==
  LET n  == [time |-> time, p_tmevtb |-> e]
      up == tmevt_up([h EXCEPT !.node = Append(@, n)], Len(h.node) + 1, time)
  IN  put(up.heap, up.place, n)

(* Fault: the last node is only moved towards the leaves. *)
replace_by_last_down(h, i, n) ==
  LET r == tmevt_down(h, i, n.time) IN put(r.heap, r.place, n)

(* The last node n takes the place i of the node deleted. *)
replace_by_last(h, i, n) ==
  LET up   == tmevt_up(put(h, i, h.node[PARENT(i)]), PARENT(i), n.time)
      down == tmevt_down(h, i, n.time)
      r    == IF i > 1 /\ EVTTIM_LT(n.time, h.node[PARENT(i)].time) THEN up ELSE down
  IN  put(r.heap, r.place, n)

(* If e is the last node itself, the search stops at once at its place,   *)
(* which is then beyond last_index.                                        *)
tmevtb_delete(h, e) ==
  LET h1 == [h EXCEPT !.node = Front(@), !.index[e] = 0]
  IN  IF h.index[e] = Len(h.node) THEN h1
      ELSE replace_by_last(h1, h.index[e], Last(h.node))

tmevtb_delete_top(h) ==
  LET h1 == [h EXCEPT !.node = Front(@), !.index[Head(h.node).p_tmevtb] = 0]
      r  == tmevt_down(h1, 1, Last(h.node).time)
  IN  IF h1.node = <<>> THEN h1 ELSE put(r.heap, r.place, Last(h.node))

(* index 0 marks a block that is not in the heap; the code has no mark. *)
Enqueued(e) == heap.index[e] # 0

(* Fault: the time already passed since the last tick is not added. *)
base_time_current == current_time

(* Fault: a started millisecond is not counted. *)
base_time_floor == next_time

base_time == next_time + (IF next_subtime > 0 THEN 1 ELSE 0)

(* Fault: an event that is due at the next tick has a wrapped left time. *)
tmevt_lefttim_wrap(e) ==
  (heap.node[heap.index[e]].time - base_time) % EVTTIM_MOD

(* The left time that ref_alm and ref_cyc report. *)
tmevt_lefttim(e) ==
  LET t == heap.node[heap.index[e]].time
  IN  IF EVTTIM_LE(t, next_time) THEN 0 ELSE (t - base_time) % EVTTIM_MOD

-----------------------------------------------------------------------------
(* initialize_tmevt, then initialize_cyclic, which registers the handlers  *)
(* with TA_STA at their phase after time 0.                                *)
emptyHeap == [node |-> <<>>, index |-> [e \in Event |-> 0]]

initialize_cyclic ==
  LET loop[n \in 0 .. Len(TaSta)] ==
        IF n = 0 THEN emptyHeap ELSE tmevtb_insert(loop[n - 1], TaSta[n], cycphs[TaSta[n]])
  IN  loop[Len(TaSta)]

Init ==
  /\ current_time = 0 /\ min_time = 0
  /\ next_time = TIC_NUME \div TIC_DENO /\ next_subtime = TIC_NUME % TIC_DENO
  /\ almsta = [a \in Alm |-> FALSE]
  /\ cycsta = [c \in Cyc |-> c \in Range(TaSta)]
  /\ evttim = [c \in Cyc |-> IF c \in Range(TaSta) THEN cycphs[c] ELSE 0]
  /\ heap = initialize_cyclic
  /\ noexs = Dyn
  /\ sigtim = "out"
  /\ wait = [e \in Event |-> IF e \in Range(TaSta) THEN cycphs[e] * TIC_DENO ELSE 0]

(* The CPU is not locked: a service call can be made. *)
UNL == sigtim # "loop"

(* Registers e, which may be registered already, for reltim after base_time. *)
restart(e, started, reltim) ==
  /\ heap' = tmevtb_insert(IF started THEN tmevtb_delete(heap, e) ELSE heap, e,
                           (base_time + reltim) % EVTTIM_MOD)
  /\ wait' = [wait EXCEPT ![e] = reltim * TIC_DENO + TIC_NUME]

(* sta_alm; also ista_alm in a handler. *)
sta_alm(a, almtim) ==
  /\ UNL /\ a \notin noexs
  /\ restart(a, almsta[a], almtim)
  /\ almsta' = [almsta EXCEPT ![a] = TRUE]
  /\ UNCHANGED <<noexs, clock, cycsta, evttim, sigtim>>

(* stp_alm, istp_alm. *)
stp_alm(a) ==
  /\ UNL /\ almsta[a]
  /\ almsta' = [almsta EXCEPT ![a] = FALSE]
  /\ heap' = tmevtb_delete(heap, a)
  /\ wait' = [wait EXCEPT ![a] = 0]
  /\ UNCHANGED <<noexs, clock, cycsta, evttim, sigtim>>

sta_cyc(c) ==
  /\ sigtim = "out" /\ c \notin noexs
  /\ restart(c, cycsta[c], cycphs[c])
  /\ cycsta' = [cycsta EXCEPT ![c] = TRUE]
  /\ evttim' = [evttim EXCEPT ![c] = (base_time + cycphs[c]) % EVTTIM_MOD]
  /\ UNCHANGED <<noexs, clock, almsta, sigtim>>

stp_cyc(c) ==
  /\ sigtim = "out" /\ cycsta[c]
  /\ cycsta' = [cycsta EXCEPT ![c] = FALSE]
  /\ heap' = tmevtb_delete(heap, c)
  /\ wait' = [wait EXCEPT ![c] = 0]
  /\ UNCHANGED <<noexs, clock, almsta, evttim, sigtim>>

(***************************************************************************)
(* Creation and deletion, by a task.  The free lists are sets: which of    *)
(* the free blocks is taken makes no difference.                           *)
(***************************************************************************)
acre_alm(a) ==
  /\ sigtim = "out" /\ a \in noexs
  /\ noexs' = noexs \ {a} /\ almsta' = [almsta EXCEPT ![a] = FALSE]
  /\ UNCHANGED <<heap, clock, cycsta, evttim, sigtim, wait>>

del_alm(a) ==
  /\ sigtim = "out" /\ a \in Dyn \ noexs
  /\ noexs' = noexs \cup {a} /\ almsta' = [almsta EXCEPT ![a] = FALSE]
  /\ heap' = IF almsta[a] THEN tmevtb_delete(heap, a) ELSE heap
  /\ wait' = [wait EXCEPT ![a] = 0]
  /\ UNCHANGED <<clock, cycsta, evttim, sigtim>>

(* sta: the attribute TA_STA. *)
acre_cyc(c, sta) ==
  /\ sigtim = "out" /\ c \in noexs
  /\ noexs' = noexs \ {c} /\ cycsta' = [cycsta EXCEPT ![c] = sta]
  /\ IF sta THEN /\ restart(c, FALSE, cycphs[c])
                 /\ evttim' = [evttim EXCEPT ![c] = (base_time + cycphs[c]) % EVTTIM_MOD]
     ELSE UNCHANGED <<heap, evttim, wait>>
  /\ UNCHANGED <<clock, almsta, sigtim>>

del_cyc(c) ==
  /\ sigtim = "out" /\ c \in Dyn \ noexs
  /\ noexs' = noexs \cup {c} /\ cycsta' = [cycsta EXCEPT ![c] = FALSE]
  /\ heap' = IF cycsta[c] THEN tmevtb_delete(heap, c) ELSE heap
  /\ evttim' = [evttim EXCEPT ![c] = 0]
  /\ wait' = [wait EXCEPT ![c] = 0]
  /\ UNCHANGED <<clock, almsta, sigtim>>

-----------------------------------------------------------------------------
(***************************************************************************)
(* signal_time.                                                            *)
(***************************************************************************)
(* Fault: next_time does not wrap around. *)
tick_nowrap ==
  /\ sigtim = "out" /\ sigtim' = "loop"
  /\ current_time' = next_time
  /\ next_time' = next_time + (TIC_NUME \div TIC_DENO)
                    + ((next_subtime + (TIC_NUME % TIC_DENO)) \div TIC_DENO)
  /\ next_subtime' = (next_subtime + (TIC_NUME % TIC_DENO)) % TIC_DENO
  /\ wait' = [e \in Event |-> IF Enqueued(e) THEN wait[e] - TIC_NUME ELSE 0]
  /\ UNCHANGED <<noexs, heap, min_time, almsta, cycsta, evttim>>

tick ==
  LET subtime == next_subtime + (TIC_NUME % TIC_DENO)
      carry   == subtime \div TIC_DENO
  IN  /\ sigtim = "out" /\ sigtim' = "loop"
      /\ current_time' = next_time
      /\ next_time' = (next_time + (TIC_NUME \div TIC_DENO) + carry) % EVTTIM_MOD
      /\ next_subtime' = subtime % TIC_DENO
      /\ wait' = [e \in Event |-> IF Enqueued(e) THEN wait[e] - TIC_NUME ELSE 0]
      /\ UNCHANGED <<noexs, heap, min_time, almsta, cycsta, evttim>>

(* The condition of the loop. *)
due == heap.node # <<>> /\ EVTTIM_LE(Head(heap.node).time, current_time)

call_almhdr(a) ==
  /\ sigtim = "loop" /\ due /\ Head(heap.node).p_tmevtb = a
  /\ heap' = tmevtb_delete_top(heap)
  /\ almsta' = [almsta EXCEPT ![a] = FALSE]
  /\ wait' = [wait EXCEPT ![a] = 0]
  /\ sigtim' = "callback"
  /\ UNCHANGED <<noexs, clock, cycsta, evttim>>

(* Fault: the next period is counted from the tick that handles this one. *)
call_cychdr_drift(c) ==
  LET next == (base_time + cyctim[c]) % EVTTIM_MOD
  IN  /\ sigtim = "loop" /\ due /\ Head(heap.node).p_tmevtb = c
      /\ heap' = tmevtb_insert(tmevtb_delete_top(heap), c, next)
      /\ evttim' = [evttim EXCEPT ![c] = next]
      /\ wait' = [wait EXCEPT ![c] = @ + cyctim[c] * TIC_DENO]
      /\ sigtim' = "callback"
      /\ UNCHANGED <<noexs, clock, almsta, cycsta>>

(* The next activation is registered first; it may be due in this tick. *)
call_cychdr(c) ==
  LET next == (evttim[c] + cyctim[c]) % EVTTIM_MOD
  IN  /\ sigtim = "loop" /\ due /\ Head(heap.node).p_tmevtb = c
      /\ heap' = tmevtb_insert(tmevtb_delete_top(heap), c, next)
      /\ evttim' = [evttim EXCEPT ![c] = next]
      /\ wait' = [wait EXCEPT ![c] = @ + cyctim[c] * TIC_DENO]
      /\ sigtim' = "callback"
      /\ UNCHANGED <<noexs, clock, almsta, cycsta>>

callback_return == /\ sigtim = "callback" /\ sigtim' = "loop"
                   /\ UNCHANGED <<noexs, heap, clock, almsta, cycsta, evttim, wait>>

loop_end == /\ sigtim = "loop" /\ ~due
            /\ min_time' = current_time
            /\ sigtim' = "out"
            /\ UNCHANGED <<noexs, heap, current_time, next_time, next_subtime, almsta, cycsta,
                           evttim, wait>>

Next ==
  \/ tick \/ callback_return \/ loop_end
  \/ \E a \in Alm : \/ stp_alm(a) \/ call_almhdr(a) \/ acre_alm(a) \/ del_alm(a)
                    \/ \E t \in RELTIM : sta_alm(a, t)
  \/ \E c \in Cyc : \/ sta_cyc(c) \/ stp_cyc(c) \/ call_cychdr(c) \/ del_cyc(c)
                    \/ \E sta \in BOOLEAN : acre_cyc(c, sta)

Spec == Init /\ [][Next]_vars

(* Event times are words of EVTTIM, and the sub-time is below a millisecond. *)
TypeOK ==
  /\ {current_time, min_time, next_time} \subseteq EVTTIM
  /\ next_subtime \in 0 .. TIC_DENO - 1
  /\ \A i \in 1 .. Len(heap.node) : heap.node[i].time \in EVTTIM
  /\ sigtim \in {"out", "loop", "callback"}

(* A handler is started exactly if its event is registered, and the index  *)
(* of an event block is the position of the node that points to it, after  *)
(* any number of moves in the heap; no block is both in the heap and in a  *)
(* free list, to which it is linked by the same words.                     *)
IndexOK ==
  /\ \A i \in 1 .. Len(heap.node) : heap.index[heap.node[i].p_tmevtb] = i
  /\ \A a \in Alm : Enqueued(a) <=> almsta[a]
  /\ \A c \in Cyc : Enqueued(c) <=> cycsta[c]
  /\ \A e \in noexs : ~Enqueued(e)

(* No registered event is earlier, in true time, than the one at its       *)
(* parent: the comparison of wrapped times from min_time is right also     *)
(* while min_time lags behind current_time, and no operation breaks the    *)
(* order of the heap.                                                      *)
HeapOrdered ==
  \A i \in 2 .. Len(heap.node) :
    LET n == heap.node[i]
        p == heap.node[PARENT(i)]
    IN  /\ EVTTIM_LE(p.time, n.time)
        /\ TIC_DENO = 1 => wait[p.p_tmevtb] <= wait[n.p_tmevtb]

(* No callback before its time: what the loop takes as due has waited for  *)
(* at least the time that was asked for, counted from the tick after the   *)
(* call.                                                                   *)
NotEarly == sigtim = "loop" /\ due => wait[Head(heap.node).p_tmevtb] <= 0

(* No callback is late: after signal_time no event is registered that was  *)
(* due a whole millisecond ago (with TIC_DENO = 1: at this tick).          *)
NotLate == sigtim = "out" => \A e \in Event : Enqueued(e) => wait[e] > 1 - TIC_DENO

(* The left time that ref_alm and ref_cyc report is right: an event is due *)
(* that long after the next tick, to the millisecond, or is handled in the *)
(* next tick.                                                              *)
LefttimOK ==
  sigtim = "out" => \A e \in Event : Enqueued(e) =>
    LET left == tmevt_lefttim(e) * TIC_DENO
        exact == wait[e] - TIC_NUME
    IN  IF exact <= 0 THEN left = 0 ELSE left < exact + TIC_DENO /\ exact < left + TIC_DENO
=============================================================================
