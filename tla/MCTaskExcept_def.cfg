SPECIFICATION SpecTex
CONSTANTS
  t1 = t1
  t2 = t2
  NULL = NULL
  Task = {t1, t2}
  TNUM_TPRI = 2
  Wobj = {}
  torder <- Boot1
  atcb <- Dyn2
  tinib_pri <- Pri
  TaAct = {t1}
  MaxNest = 1
  TexBit = {1}
  TexTask = {t1}
  MaxTexNest = 2
INVARIANT RoutineExecuted
CHECK_DEADLOCK FALSE
