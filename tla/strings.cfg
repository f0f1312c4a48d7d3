SPECIFICATION Spec
CONSTANTS
  Alphabet = {10, 35, 97}
  MaxLen = 5
  MaxPat = 5
  MaxNumber = 120
  Behind = 0
  Texts <- MCTexts
  Patterns <- MCPatterns
  Numbers <- MCNumbers
INVARIANTS
  FindsFirst
  FiltersInOrder
  
  CommentsGo
  NumbersReadBack
CHECK_DEADLOCK FALSE
