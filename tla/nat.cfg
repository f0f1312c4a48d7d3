SPECIFICATION FairSpec
CONSTANTS
  cone = cone
  symm = symm
  User = {cone, symm}
  MasterPort <- MCMasterPort
  VicePort <- MCVicePort
  Restricted <- MCRestricted
  BadPort = {cone}
  Mobile = {cone}
  AuthOK = TRUE
  Addr = {1, 2}
  SubCap = 2
  UdpCap = 1
  NoAddr = NoAddr
INVARIANTS
  SymmetricSound
  HeardIsKnown
  FreshHole
PROPERTIES
  RestrictionKept
  SubscriberRecovers
