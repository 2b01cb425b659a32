SPECIFICATION SpecDel
CONSTANTS
  t1 = t1
  t2 = t2
  t3 = t3
  m1 = m1
  m2 = m2
  NULL = NULL
  Task = {t1, t2}
  TNUM_TPRI = 2
  Wobj = {m1}
  torder <- Boot12
  atcb <- NoTcb
  tinib_pri <- Pri
  TaAct = {t1, t2}
  MaxNest = 1
  mtxatr <- AtrCeilTpri
  mtxceil <- Ceil0
  amtx <- Dyn1
INVARIANT MutexQueueOK
CHECK_DEADLOCK FALSE
