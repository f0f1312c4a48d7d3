------------------------------ MODULE MCStrings ------------------------------
(***************************************************************************)
(* The string library over every text and pattern up to a length.          *)
(***************************************************************************)
EXTENDS StringLoops

CONSTANTS
  Alphabet,         \* character codes
  MaxLen, MaxPat,   \* bounds
  MaxNumber

MCTexts == UNION {[1 .. n -> Alphabet] : n \in 0 .. MaxLen}
MCPatterns == UNION {[1 .. n -> Alphabet] : n \in 0 .. MaxPat}
MCNumbers == -MaxNumber .. MaxNumber
=============================================================================
