SPECIFICATION SpecLog
CONSTANTS
  lg = lg
  u1 = u1
  u2 = u2
  logtask = lg
  User = {lg, u1, u2}
  UserPri <- Pris
  SndBufsz = 3
  RcvBufsz = 3
  Line <- Lines
  Texts <- Long
  MaxRead = 0
  Settings = {}
  TCNT_SYSLOG_BUFFER = 2
  Prio = {"notice"}
  MaxLog = 0
  Program = {"port"}
  Caller <- Callers
  MaxCall <- Calls
  MaxRcv <- Rcvs
PROPERTIES SendingResumes
CHECK_DEADLOCK FALSE
