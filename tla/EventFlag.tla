----------------------------- MODULE EventFlag ------------------------------
(***************************************************************************)
(* Event flags: kernel/eventflag.c.  A bit pattern is the set of its bits. *)
(* The WINFO_FLG of a waiting task is [waiptn, wfmode, flgptn].            *)
(***************************************************************************)
EXTENDS WaitObj

CONSTANTS
  Flg,     \* the event flags
  aflg,    \* those for dynamic creation, in table order
  flginib, \* the attributes and initial patterns of the others
  CFlg,    \* the packets T_CFLG with which acre_flg is called
  FlgBit   \* the bits of a pattern

FLGPTN == SUBSET FlgBit
Wfmode == {"TWF_ORW", "TWF_ANDW"}

(* tpri is the attribute of the wait queue, atr the other attributes. *)
ASSUME FlgAssumption ==
  /\ Flg \subseteq Wobj /\ aflg \in Seq(Flg) /\ IsInjective(aflg)
  /\ CFlg \cup {flginib[o] : o \in Flg \ ToSet(aflg)}
       \subseteq [tpri : {"TA_NULL", "TA_TPRI"}, atr : SUBSET {"TA_WMUL", "TA_CLR"},
                  iflgptn : FLGPTN]

initialize_eventflag(k1) ==
  LET inib(o) == IF o \in ToSet(aflg) THEN [tpri |-> "TA_NOEXS", atr |-> {}, iflgptn |-> {}]
                 ELSE flginib[o]
  IN  extend(k1, [wobjatr    |-> extend(k1.wobjatr, [o \in Flg |-> inib(o).tpri]),
                  flgptn     |-> [o \in Flg |-> inib(o).iflgptn],
                  iflgptn    |-> [o \in Flg |-> inib(o).iflgptn],
                  flgatr     |-> [o \in Flg |-> inib(o).atr],
                  free_flgcb |-> aflg])

(* The pattern meets the condition of a wait. *)
meets(flgptn, waiptn, wfmode) ==
  IF wfmode = "TWF_ORW" THEN flgptn \cap waiptn # {} ELSE waiptn \subseteq flgptn

check_flg_cond(k1, o, waiptn, wfmode) == meets(k1.flgptn[o], waiptn, wfmode)

(* Fault: the flag is not cleared. *)
take_flg_keep(k1, o) == k1

(* What check_flg_cond does to the flag when the condition is met. *)
take_flg(k1, o) == IF "TA_CLR" \in k1.flgatr[o] THEN [k1 EXCEPT !.flgptn[o] = {}] ELSE k1

acre_flg(pk) ==
  /\ CHECK_TSKCTX_UNL /\ k.free_flgcb # <<>>
  /\ LET o == Head(k.free_flgcb)
     IN  k' = [create_obj(k, o, pk.tpri) EXCEPT
                 !.free_flgcb = Tail(@), !.flgatr[o] = pk.atr,
                 !.flgptn[o] = pk.iflgptn, !.iflgptn[o] = pk.iflgptn]

del_flg(o) ==
  /\ CHECK_TSKCTX_UNL /\ obj_exists(o) /\ o \in ToSet(aflg)
  /\ k' = t_leave([delete_obj(k, o) EXCEPT !.free_flgcb = Append(@, o)])

(* Fault: the walk stops at the first task whose condition is not met. *)
wake_one_first(k1, o, t) ==
  LET w  == k1.winfo_data[t]
      k2 == [take_flg(k1, o) EXCEPT !.wait_queue[o] = Tail(@),
                                    !.winfo_data[t].flgptn = k1.flgptn[o]]
  IN  IF Head(k1.wait_queue[o]) = t /\ check_flg_cond(k1, o, w.waiptn, w.wfmode)
      THEN wait_complete(k2, t) ELSE k1

(* The walk over the wait queue at task t.  After a clear flgptn is 0 and  *)
(* no condition is met any more, as with the break.                        *)
wake_one(k1, o, t) ==
  LET w  == k1.winfo_data[t]
      k2 == [take_flg(k1, o) EXCEPT !.wait_queue[o] = queue_delete(@, t),
                                    !.winfo_data[t].flgptn = k1.flgptn[o]]
  IN  IF check_flg_cond(k1, o, w.waiptn, w.wfmode) THEN wait_complete(k2, t) ELSE k1

(* The body of set_flg and iset_flg. *)
set_pattern(o, setptn) ==
  LET q == k.wait_queue[o]
      loop[n \in 0 .. Len(q)] == IF n = 0 THEN [k EXCEPT !.flgptn[o] = @ \cup setptn]
                                 ELSE wake_one(loop[n - 1], o, q[n])
  IN  loop[Len(q)]

set_flg(o, setptn) ==
  CHECK_TSKCTX_UNL /\ obj_exists(o) /\ k' = t_leave(set_pattern(o, setptn))
iset_flg(o, setptn) ==
  CHECK_INTCTX_UNL /\ obj_exists(o) /\ k' = i_leave(set_pattern(o, setptn))

clr_flg(o, clrptn) ==
  CHECK_TSKCTX_UNL /\ obj_exists(o) /\ k' = [k EXCEPT !.flgptn[o] = @ \cap clrptn]

(* Not E_NOEXS or E_ILUSE. *)
may_wait(o) == obj_exists(o) /\ ("TA_WMUL" \in k.flgatr[o] \/ k.wait_queue[o] = <<>>)

(* wai_flg, and twai_flg with a timeout > 0; waiptn is not 0. *)
wai_flg(o, waiptn, wfmode, tmout) ==
  /\ CHECK_DISPATCH /\ may_wait(o)
  /\ k' = IF check_flg_cond(k, o, waiptn, wfmode) THEN take_flg(k, o)
          ELSE wait_with("FLG", o, tmout,
                         [waiptn |-> waiptn, wfmode |-> wfmode, flgptn |-> {}])

pol_flg(o, waiptn, wfmode) ==
  /\ CHECK_TSKCTX_UNL /\ may_wait(o) /\ check_flg_cond(k, o, waiptn, wfmode)
  /\ k' = take_flg(k, o)

ini_flg(o) ==
  /\ CHECK_TSKCTX_UNL /\ obj_exists(o)
  /\ k' = t_leave([init_wait_queue(k, o) EXCEPT !.flgptn[o] = k.iflgptn[o]])

FlgCalls ==
  \/ \E pk \in CFlg : acre_flg(pk)
  \/ \E o \in Flg :
       \/ del_flg(o) \/ ini_flg(o)
       \/ \E p \in FLGPTN : set_flg(o, p) \/ iset_flg(o, p) \/ clr_flg(o, p)
       \/ \E p \in FLGPTN \ {{}}, m \in Wfmode :
            pol_flg(o, p, m) \/ \E b \in BOOLEAN : wai_flg(o, p, m, b)

-----------------------------------------------------------------------------
(* No task waits for a condition that the flag meets: no set is lost,      *)
(* neither for a task in the middle of the queue nor for one whose place   *)
(* has changed.                                                            *)
NoMissedFlag ==
  \A o \in Flg : \A t \in ToSet(k.wait_queue[o]) :
    LET w == k.winfo_data[t] IN ~check_flg_cond(k, o, w.waiptn, w.wfmode)

(* t's wait at o ends with E_OK in this step. *)
FlgReleased(o) ==
  {t \in ToSet(k.wait_queue[o]) : k'.winfo[t] = "E_OK" /\ ~TSTAT_WAITING(k', t)}

(* A task is released by set_flg only with a pattern that meets its        *)
(* condition.  With TA_CLR one set releases at most one task, the first in *)
(* the queue whose condition the pattern meets, and leaves the flag clear. *)
FlagReleaseOK ==
  [][\A o \in Flg : \A t \in FlgReleased(o) :
       LET q == k.wait_queue[o]
           p == k'.winfo_data[t].flgptn
           cond(u) == meets(p, k.winfo_data[u].waiptn, k.winfo_data[u].wfmode)
       IN  /\ cond(t) /\ k.flgptn[o] \subseteq p
           /\ "TA_CLR" \in k.flgatr[o] =>
                /\ FlgReleased(o) = {t} /\ k'.flgptn[o] = {}
                /\ \A i, j \in 1 .. Len(q) : i < j /\ q[j] = t => ~cond(q[i])]_k
=============================================================================
