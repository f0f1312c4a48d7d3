SPECIFICATION FairSpec
CONSTANTS
  Cap = 9
  Kinds = {"plain", "ext", "old", "garbled"}
  Windows = {1, 3}
  MaxFrames = 3
  MaxPush = 1
INVARIANTS
  
  
  RecvHasRoom

  
CHECK_DEADLOCK FALSE
