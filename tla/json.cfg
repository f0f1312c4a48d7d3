SPECIFICATION Spec
CONSTANTS
  Key <- MCKey
  Val <- MCVal
  MaxObjs = 3
  MaxNodes = 4
  Body = {97, 32}
  MaxStr = 1
  MaxText = 18
  MaxBlank = 1
INVARIANTS
  DecodesGrammar
  SizeIsExact
  
CHECK_DEADLOCK FALSE
