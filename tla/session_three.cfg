SPECIFICATION Spec
CONSTANTS
  s1 = s1
  s2 = s2
  s3 = s3
  t1 = t1
  t2 = t2
  a = a
  b = b
  Socket = {s1, s2, s3}
  TS = {t1, t2}
  Auth = {a, b}
  Key = {a, b}
  time33 <- MCtime33
  SBufCap = 1
  OneAuth = TRUE
  KeepAlive = TRUE
  NULL = NULL
  Out = Out
SYMMETRY Symm
INVARIANTS
  SessionTable
  NoDanglingConn
  PushPrivacy
  NoStrandedData
PROPERTIES
  OnlyRivalsKicked
  ImplementsLogin
