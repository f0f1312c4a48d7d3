SPECIFICATION Spec
CONSTANTS
  Size = 4096
  Requests = {5, 2000, 4025, 4032, 4049}
  MaxBlocks = 8
  MaxGiven = 10
INVARIANTS
  RegionsSound
  GivenUpInOrder
CHECK_DEADLOCK FALSE
