--------------------------- MODULE MCSyncObjects ----------------------------
(***************************************************************************)
(* SyncObjects for TLC: one object of each kind, created and deleted, and  *)
(* small sets of creation packets, data and messages.  Two tasks and an    *)
(* interrupt handler use the object; three tasks in two of the programs.   *)
(***************************************************************************)
EXTENDS SyncObjects

CONSTANTS t1, t2, t3, s1, f1, d1, d1r, p1, p1r, b1, m1

Boot == SetToSeq(Task)
NoTcb == <<>>
Pri == [t \in Task |-> IF t = t1 THEN 0 ELSE 1]
Rwait == d1 :> d1r @@ p1 :> p1r
Objects == "sem" :> s1 @@ "flg" :> f1 @@ "dtq" :> d1 @@ "pdq" :> p1 @@ "mbx" :> b1 @@ "mpf" :> m1

NoInib == <<>>
DynSem == <<s1>>
Sems == {[sematr |-> "TA_TPRI", isemcnt |-> 1, maxsem |-> 2]}
DynFlg == <<f1>>
Flgs == {[tpri |-> "TA_NULL", atr |-> {"TA_WMUL", "TA_CLR"}, iflgptn |-> {}],
         [tpri |-> "TA_TPRI", atr |-> {"TA_WMUL"}, iflgptn |-> {}]}
DynDtq == <<d1>>
Dtqs == {[dtqatr |-> "TA_TPRI", dtqcnt |-> 2], [dtqatr |-> "TA_NULL", dtqcnt |-> 0]}
DynPdq == <<p1>>
Pdqs == {[pdqatr |-> "TA_TPRI", pdqcnt |-> 2, maxdpri |-> 2]}
PriData == {[id |-> 1, pri |-> 2], [id |-> 2, pri |-> 2], [id |-> 3, pri |-> 1]}
DynMbx == <<b1>>
Mbxs == {[tpri |-> "TA_TPRI", mpri |-> TRUE, maxmpri |-> 2],
         [tpri |-> "TA_NULL", mpri |-> FALSE, maxmpri |-> 2]}
Msgs == {[id |-> 1, pri |-> 1], [id |-> 2, pri |-> 2], [id |-> 3, pri |-> 1]}
DynMpf == <<m1>>
Mpfs == {[mpfatr |-> "TA_TPRI", blkcnt |-> 2]}

NextPrograms == NextObjects /\ (k.program \in {"sem", "mpf"} \/ TSTAT_DORMANT(k', t3))
SpecPrograms == InitObjects /\ [][NextPrograms]_k

(* The state without the words that no step reads before it writes them:   *)
(* the WINFO of a task that is in no call, the places of a buffer that are *)
(* not in use, the headers of messages that are in no mailbox, the data of *)
(* an object that does not exist.                                          *)
Live(t) == TSTAT_WAITING(k, t) \/ (~TSTAT_DORMANT(k, t) /\ k.winfo[t] = "E_OK")
Ring == IF k.program = "dtq" /\ obj_exists(d1) THEN DtqBuf(d1) ELSE <<>>
Blocks == IF k.program = "pdq" /\ obj_exists(p1) THEN PdqBuf(p1) ELSE <<>>
Messages == IF k.program = "mbx" /\ obj_exists(b1) THEN MbxBuf(b1) ELSE <<>>
View ==
  <<[k EXCEPT !.winfo = [t \in Task |-> IF TSTAT_DORMANT(k, t) THEN "none" ELSE @[t]],
              !.winfo_data = [t \in Task |-> IF Live(t) THEN @[t] ELSE NULL],
              !.p_wobjcb = [t \in Task |-> IF TSTAT_WAITING(k, t) THEN @[t] ELSE NULL],
              !.dtqmb = Ring,
              !.pdqmb = Blocks,
              !.pk_head = Messages, !.pk_next = NULL,
              !.pk_last = IF Messages # <<>> /\ ~k.mpri[b1] THEN @ ELSE NULL]>>
=============================================================================
