SPECIFICATION Spec
CONSTANTS
  s1 = s1
  s2 = s2
  s3 = s3
  t1 = t1
  t2 = t2
  a = a
  b = b
  Socket = {s1, s2}
  TS = {t1, t2}
  Auth = {a, b}
  Key = {a, b}
  time33 <- MCtime33
  SBufCap = 2
  OneAuth = FALSE
  KeepAlive = TRUE
  NULL = NULL
  Out = Out
INVARIANTS
  NoDanglingConn
