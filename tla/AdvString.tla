------------------------------ MODULE AdvString ------------------------------
(***************************************************************************)
(* The string library: what its loops are made of, as operators over       *)
(* sequences of character codes.  Positions are the code's: the character  *)
(* at position i is s[i + 1].  The loops are in StringLoops.               *)
(***************************************************************************)
EXTENDS Integers, Sequences, FiniteSets, FiniteSetsExt

TAB == 9
LF == 10
CR == 13
SPACE == 32
HASH == 35
ZERO == 48
MINUS == 45

-----------------------------------------------------------------------------
(* Scans                                                                    *)

\* The first of the positions at, or the end of the string
FirstAt(s, at) == IF at = {} THEN Len(s) ELSE Min(at)

\* The first position from i on with, or without, a character of C
FirstIn(s, i, C) == FirstAt(s, {k \in i .. Len(s) - 1 : s[k + 1] \in C})
FirstNotIn(s, i, C) == FirstAt(s, {k \in i .. Len(s) - 1 : s[k + 1] \notin C})

-----------------------------------------------------------------------------
(* Comparison                                                               *)

\* The first position at which two strings differ, or the shorter length
FirstDiff(a, b) ==
  LET len == IF Len(a) < Len(b) THEN Len(a) ELSE Len(b)
      diff == {i \in 1 .. len : a[i] # b[i]}
  IN IF diff = {} THEN len + 1 ELSE Min(diff)

\* When one string begins with the other, the next character decides.
lts_str_compare(a, b) ==
  LET i == FirstDiff(a, b)
  IN IF i <= Len(a) /\ i <= Len(b) THEN a[i] - b[i]
     ELSE IF Len(a) = Len(b) THEN 0
     ELSE IF Len(a) > Len(b) THEN a[i] ELSE -b[i]

-----------------------------------------------------------------------------
(* Changes in place                                                         *)

reverse_region(s, i, j) ==
  [k \in 1 .. Len(s) |-> IF k - 1 \in i .. j THEN s[i + j - k + 2] ELSE s[k]]

lts_str_reverse(s) == reverse_region(s, 0, Len(s) - 1)

\* len characters from position start on are taken out.
lts_str_hollow(s, start, len) ==
  SubSeq(s, 1, start) \o SubSeq(s, start + len + 1, Len(s))

\* What the loop of lts_str_filter_multi leaves of a string (see FiltersInOrder in
\* StringLoops)
lts_str_filter_multi(s, C) == SelectSeq(s, LAMBDA c : c \notin C)

-----------------------------------------------------------------------------
(* Counts made in advance                                                   *)

\* Mutant: separators that follow one another are all counted.
SplitCountAll(s, c) ==
  (IF s[1] = c THEN 0 ELSE 1) + Cardinality({i \in 1 .. Len(s) - 1 : s[i] = c})

\* How many items lts_str_split makes room for
SplitCount(s, c) ==
  (IF s[1] = c THEN 0 ELSE 1)
    + Cardinality({i \in 1 .. Len(s) - 1 : s[i] = c /\ s[i + 1] # c})

abs(x) == IF x < 0 THEN -x ELSE x

\* The characters of a sign
SignWidth(x) == IF x < 0 THEN 1 ELSE 0
=============================================================================
