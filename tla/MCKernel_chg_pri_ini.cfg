SPECIFICATION SpecDyn
CONSTANTS
  t1 = t1
  t2 = t2
  t3 = t3
  NULL = NULL
  Task = {t1, t2, t3}
  TNUM_TPRI = 2
  Wobj = {}
  torder <- Boot12
  atcb <- Dyn3
  tinib_pri <- PriMixed
  TaAct = {t1, t2}
  MaxNest = 1

PROPERTY ChgPriIniOK
