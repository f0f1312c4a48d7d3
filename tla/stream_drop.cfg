SPECIFICATION Spec
CONSTANTS
  Cap = 9
  Kinds = {"plain"}
  Windows = {1}
  MaxFrames = 2
  MaxPush = 2
INVARIANTS
  DropKeepsPending
CHECK_DEADLOCK FALSE
