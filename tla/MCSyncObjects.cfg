SPECIFICATION SpecPrograms
CONSTANTS
  t1 = t1
  t2 = t2
  t3 = t3
  s1 = s1
  f1 = f1
  d1 = d1
  d1r = d1r
  p1 = p1
  p1r = p1r
  b1 = b1
  m1 = m1
  NULL = NULL
  Task = {t1, t2, t3}
  TNUM_TPRI = 2
  Wobj = {s1, f1, d1, d1r, p1, p1r, b1, m1}
  torder <- Boot
  atcb <- NoTcb
  tinib_pri <- Pri
  TaAct = {t1, t2}
  MaxNest = 1
  rwait <- Rwait
  Sem = {s1}
  asem <- DynSem
  seminib <- NoInib
  CSem <- Sems
  Flg = {f1}
  aflg <- DynFlg
  flginib <- NoInib
  CFlg <- Flgs
  FlgBit = {1, 2}
  Dtq = {d1}
  adtq <- DynDtq
  dtqinib <- NoInib
  CDtq <- Dtqs
  DtqData = {11, 12}
  Pdq = {p1}
  apdq <- DynPdq
  pdqinib <- NoInib
  CPdq <- Pdqs
  PdqData <- PriData
  Mbx = {b1}
  ambx <- DynMbx
  mbxinib <- NoInib
  CMbx <- Mbxs
  Msg <- Msgs
  Mpf = {m1}
  ampf <- DynMpf
  mpfinib <- NoInib
  CMpf <- Mpfs
  Program = {"sem", "flg", "dtq", "pdq", "mbx", "mpf"}
  Item <- Objects
VIEW View
INVARIANTS KernelInv WobjQueueOK NoMissedFlag PdqBlocksOK MpfBlocksOK
PROPERTIES ChannelSpec FlagReleaseOK
