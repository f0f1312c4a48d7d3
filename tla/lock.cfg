SPECIFICATION FairSpec
CONSTANTS
  w1 = w1
  w2 = w2
  Worker = {w1, w2}
  MaxConn = 1
  Reserve = 1
  Cache = 3
  MaxArrivals = 3
  MaxKills = 1
INVARIANTS
  MutualExclusion
  NoLeakedLock
PROPERTIES
  Accepted
