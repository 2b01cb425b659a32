------------------------------ MODULE MCMutex -------------------------------
(***************************************************************************)
(* Instances of Mutex for TLC: tasks t1, t2, t3 of different priorities    *)
(* and mutexes m1, m2.  A behaviour is one of two programs, k.program.     *)
(***************************************************************************)
EXTENDS Mutex

CONSTANTS t1, t2, t3, m1, m2

Boot123 == <<t1, t2, t3>>
Boot12 == <<t1, t2>>
NoTcb == <<>>
Pri == [t \in Task |-> IF t = t1 THEN 0 ELSE 1]
Dyn1 == <<m1>>
AtrCeilTpri == [m \in Wobj |-> IF m = m1 THEN "TA_CEILING" ELSE "TA_TPRI"]
AtrCeil == [m \in Wobj |-> "TA_CEILING"]
Ceil0 == [m \in Wobj |-> 0]

(* Locking with every way in which a lock or a wait can end, by the tasks  *)
(* T and with the mutexes M.                                               *)
Locking(T, M) ==
  \/ Startup \/ wait_return \/ int_entry \/ ret_int \/ idle_loop
  \/ \E t \in T : \/ act_tsk(t) \/ ter_tsk(t)
                  \/ \E p \in TPRI : chg_pri(t, p)
                  \/ rel_wai(t) \/ sus_tsk(t) \/ rsm_tsk(t) \/ signal_time(t)
  \/ ext_tsk
  \/ \E m \in M : \/ ploc_mtx(m) \/ unl_mtx(m) \/ (mtx_exists(k, m) /\ ini_mtx(m))
                  \/ \E b \in BOOLEAN : loc_mtx(m, b)

(* Three tasks at the mutex m2.                                            *)
NextQueue == Locking({t1, t2, t3}, {m2})

(* Two tasks and two mutexes, while dispatching may be disabled and m1     *)
(* comes and goes, in a program that deletes no locked mutex.              *)
NextLock ==
  \/ Locking({t1, t2}, Wobj) \/ dis_dsp \/ ena_dsp
  \/ \E m \in Wobj : k.p_loctsk[m] = NULL /\ del_mtx(m)
  \/ \E atr \in {"TA_NULL", "TA_CEILING"} : acre_mtx(atr, 1)

InitPrograms == \E p \in {"queue", "lock"} : k = initialize_mutex @@ [program |-> p]
NextPrograms == \/ k.program = "queue" /\ NextQueue
                \/ k.program = "lock" /\ NextLock
SpecPrograms == InitPrograms /\ [][NextPrograms]_k

(* A program that may also delete a locked mutex.                          *)
NextDel == ~k.undef /\ (NextLock \/ \E m \in Wobj : del_mtx(m))
SpecDel == InitMutex /\ [][NextDel]_k
=============================================================================
