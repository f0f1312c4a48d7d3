SPECIFICATION FairSpec
CONSTANTS
  Conn = {c1, c2}
  Listener = ls
  End = end
  Keepalive = 1
  MaxBacklog = 2
INVARIANTS
  WalkOnTrack
  NoLostEvent
  TimersKept
  BoundedBypass
PROPERTIES
  InputTaken
  
CHECK_DEADLOCK FALSE
