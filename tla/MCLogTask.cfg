SPECIFICATION SpecLog
CONSTANTS
  lg = lg
  u1 = u1
  u2 = u2
  logtask = lg
  User = {lg, u1, u2}
  UserPri <- Pris
  SndBufsz = 2
  RcvBufsz = 3
  Line <- Lines
  Texts <- Strings
  MaxRead = 2
  Settings <- Ioctls
  TCNT_SYSLOG_BUFFER = 2
  Prio = {"notice"}
  MaxLog = 2
  Program = {"log", "port"}
  Caller <- Callers
  MaxCall <- Calls
  MaxRcv <- Rcvs
INVARIANTS ResourceOK NoMutualStop LogAccounted
PROPERTIES StreamSpecs LogReachesLine
CHECK_DEADLOCK FALSE
