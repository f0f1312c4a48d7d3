----------------------------- MODULE StringLoops -----------------------------
(***************************************************************************)
(* One call of a function of the string library, a step per iteration of   *)
(* its loop: the search with its table of borders, the filters, the split, *)
(* the numbers, and the loop of parse_conf that takes comments out of a    *)
(* configuration file.                                                     *)
(***************************************************************************)
EXTENDS AdvString, SequencesExt

CONSTANTS
  Texts, Patterns,   \* the strings the functions are called with
  Numbers,           \* the numbers that are written out; not the least long, whose
                     \* absolute value overflows
  Behind             \* the byte that follows a string in memory

ASSUME StringAssumption ==
  /\ Texts \subseteq Seq(Nat) /\ Patterns \subseteq Seq(Nat)
  /\ Numbers \subseteq Int /\ Behind \in Nat

VARIABLES
  fn,        \* the function called, "none" before
  pc,        \* "idle", "table" (__kmp_next), "width" (long_width), "loop" or "done"
  text,      \* the string it is called with
  pat,       \* the pattern, or the characters that are filtered or split at
  data,      \* the string as it is changed in place
  i, j,      \* loop variables
  next,      \* the table of borders; the code's next[k] is next[k + 1]
  items,     \* the items of a split: pairs of position and length
  result     \* what is returned, or was counted in advance

vars == <<fn, pc, text, pat, data, i, j, next, items, result>>

At(f, l) == fn = f /\ pc = l

Call(f, t, p) == fn' = f /\ text' = t /\ pat' = p

Stays == UNCHANGED <<fn, text, pat>>

-----------------------------------------------------------------------------
(* lts_str_find.  t is the text from the offset on.                         *)

\* next[1] is written even if the pattern has one character, and room for one.
FindCall(t, p) ==
  /\ Call("find", t, p)
  /\ pc' = "table"
  /\ i' = 0 /\ j' = 1 /\ next' = <<-1, 0>>
  /\ UNCHANGED <<data, items, result>>

Filling == At("find", "table") /\ j < Len(pat) - 1

\* Mutant: borders are one too short.
TableMatchShort ==
  /\ Filling /\ pat[i + 1] = pat[j + 1]
  /\ next' = Append(next, i)
  /\ i' = i + 1 /\ j' = j + 1
  /\ Stays /\ UNCHANGED <<pc, data, items, result>>

TableMatch ==
  /\ Filling /\ pat[i + 1] = pat[j + 1]
  /\ next' = Append(next, i + 1)
  /\ i' = i + 1 /\ j' = j + 1
  /\ Stays /\ UNCHANGED <<pc, data, items, result>>

\* A shorter border is tried.
TableFallBack ==
  /\ Filling /\ pat[i + 1] # pat[j + 1] /\ next[i + 1] # -1
  /\ i' = next[i + 1]
  /\ Stays /\ UNCHANGED <<pc, data, j, next, items, result>>

TableNone ==
  /\ Filling /\ pat[i + 1] # pat[j + 1] /\ next[i + 1] = -1
  /\ i' = 0 /\ j' = j + 1
  /\ next' = Append(next, 0)
  /\ Stays /\ UNCHANGED <<pc, data, items, result>>

TableDone ==
  /\ At("find", "table") /\ j >= Len(pat) - 1
  /\ pc' = "loop"
  /\ i' = 0 /\ j' = 0
  /\ Stays /\ UNCHANGED <<data, next, items, result>>

Searching == At("find", "loop") /\ i < Len(text) /\ j < Len(pat)

FindMatch ==
  /\ Searching /\ (j # -1 => text[i + 1] = pat[j + 1])
  /\ i' = i + 1 /\ j' = j + 1
  /\ Stays /\ UNCHANGED <<pc, data, next, items, result>>

FindMiss ==
  /\ Searching /\ j # -1 /\ text[i + 1] # pat[j + 1]
  /\ j' = next[j + 1]
  /\ Stays /\ UNCHANGED <<pc, data, i, next, items, result>>

FindDone ==
  /\ At("find", "loop") /\ (i >= Len(text) \/ j >= Len(pat))
  /\ pc' = "done"
  /\ result' = IF j >= Len(pat) THEN i - Len(pat) ELSE -1
  /\ Stays /\ UNCHANGED <<data, i, j, next, items>>

-----------------------------------------------------------------------------
(* lts_str_filter and lts_str_filter_multi                                  *)

Unwanted == ToSet(pat)

\* j is set for the first time in the loop.
FilterCall(t, p) ==
  /\ Call("filter", t, p)
  /\ LET C == ToSet(p) IN
     /\ result' = Cardinality({k \in DOMAIN t : t[k] \in C})
     /\ pc' = IF result' = 0 THEN "done" ELSE "loop"
     /\ i' = FirstIn(t, 0, C)
  /\ j' = i' - 1
  /\ data' = t
  /\ UNCHANGED <<next, items>>

\* Mutant: the run that is moved is not turned round again.
FilterMoveTurned ==
  LET m == FirstNotIn(data, i, Unwanted)
      e == FirstIn(data, m, Unwanted) - 1
  IN
  /\ At("filter", "loop") /\ m < Len(data)
  /\ data' = reverse_region(data, i, e)
  /\ i' = i + e - m + 1 /\ j' = e
  /\ Stays /\ UNCHANGED <<pc, next, items, result>>

\* The run m .. e behind the unwanted characters changes places with them, by two
\* reversals.
FilterMove ==
  LET m == FirstNotIn(data, i, Unwanted)
      e == FirstIn(data, m, Unwanted) - 1
  IN
  /\ At("filter", "loop") /\ m < Len(data)
  /\ data' = reverse_region(reverse_region(data, m, e), i, e)
  /\ i' = i + e - m + 1 /\ j' = e
  /\ Stays /\ UNCHANGED <<pc, next, items, result>>

FilterDone ==
  /\ At("filter", "loop") /\ FirstNotIn(data, i, Unwanted) = Len(data)
  /\ pc' = "done"
  /\ data' = SubSeq(data, 1, Len(data) - result)
  /\ Stays /\ UNCHANGED <<i, j, next, items, result>>

-----------------------------------------------------------------------------
(* lts_str_split, which reads the first character of the string first       *)

SplitCall(t, c) ==
  /\ Call("split", t, <<c>>)
  /\ t # <<>>
  /\ pc' = "loop"
  /\ result' = SplitCount(t, c)
  /\ j' = 0 /\ items' = <<>>
  /\ UNCHANGED <<data, i, next>>

Splitting == At("split", "loop") /\ j < Len(text)

SplitSkip ==
  /\ Splitting /\ text[j + 1] = pat[1]
  /\ j' = j + 1
  /\ Stays /\ UNCHANGED <<pc, data, i, next, items, result>>

\* An item is measured by looking at the character after it, and the one behind
\* the string still counts.
SplitItem ==
  /\ Splitting /\ text[j + 1] # pat[1]
  /\ j' = FirstIn(Append(text, Behind), j, {pat[1]})
  /\ items' = Append(items, <<j, j' - j>>)
  /\ Stays /\ UNCHANGED <<pc, data, i, next, result>>

SplitDone ==
  /\ At("split", "loop") /\ j >= Len(text)
  /\ pc' = "done"
  /\ Stays /\ UNCHANGED <<data, i, j, next, items, result>>

-----------------------------------------------------------------------------
(* The removal of comments in parse_conf                                    *)

StripCall(t) ==
  /\ Call("strip", t, <<>>)
  /\ pc' = "loop"
  /\ data' = t /\ i' = 0
  /\ UNCHANGED <<j, next, items, result>>

Stripping == At("strip", "loop") /\ i < Len(data)

StripNext ==
  /\ Stripping /\ data[i + 1] # HASH
  /\ i' = i + 1
  /\ Stays /\ UNCHANGED <<pc, data, j, next, items, result>>

\* Mutant: the search for the next comment passes the character behind the line
\* feed too.
StripCommentSkips ==
  /\ Stripping /\ data[i + 1] = HASH
  /\ data' = lts_str_hollow(data, i, FirstIn(data, i + 1, {LF}) - i)
  /\ i' = i + 2
  /\ Stays /\ UNCHANGED <<pc, j, next, items, result>>

\* What is cut out begins at i, so that the loop goes on behind the line feed that
\* ended the comment.
StripComment ==
  /\ Stripping /\ data[i + 1] = HASH
  /\ data' = lts_str_hollow(data, i, FirstIn(data, i + 1, {LF}) - i)
  /\ i' = i + 1
  /\ Stays /\ UNCHANGED <<pc, j, next, items, result>>

StripDone ==
  /\ At("strip", "loop") /\ i >= Len(data)
  /\ pc' = "done"
  /\ Stays /\ UNCHANGED <<data, i, j, next, items, result>>

-----------------------------------------------------------------------------
(* lts_l2str, into a string t; lts_uint322cstr is the same without a check  *)
(* of the room.  j is the number, i what is left of it.                     *)

NumberCall(f, t, x) ==
  /\ Call(f, t, <<>>)
  /\ pc' = IF f = "long" THEN "width" ELSE "loop"
  /\ result' = IF f = "long" THEN SignWidth(x) ELSE 0
  /\ j' = x /\ i' = abs(x) /\ data' = <<>>
  /\ UNCHANGED <<next, items>>

\* long_width counts at least one character, beside the sign.
Width ==
  /\ At("long", "width") /\ (i > 0 \/ result = SignWidth(j))
  /\ result' = result + 1
  /\ i' = i \div 10
  /\ Stays /\ UNCHANGED <<pc, data, j, next, items>>

WidthDone ==
  /\ At("long", "width") /\ i = 0 /\ result > SignWidth(j)
  /\ LET fits == Len(text) + 1 >= result IN
     /\ result' = IF fits THEN 0 ELSE -1
     /\ pc' = IF fits THEN "loop" ELSE "done"
  /\ i' = abs(j)
  /\ Stays /\ UNCHANGED <<data, j, next, items>>

Writing == fn \in {"long", "uint"} /\ pc = "loop"

\* Zero has a digit.
Digit ==
  /\ Writing /\ (i > 0 \/ data = <<>>)
  /\ data' = Append(data, ZERO + (i % 10))
  /\ i' = i \div 10
  /\ Stays /\ UNCHANGED <<pc, j, next, items, result>>

\* Mutant: the digits are left in the order they come.
NumberDoneTurned ==
  /\ Writing /\ i = 0 /\ data # <<>>
  /\ pc' = "done"
  /\ data' = IF j < 0 THEN Append(data, MINUS) ELSE data
  /\ Stays /\ UNCHANGED <<i, j, next, items, result>>

NumberDone ==
  /\ Writing /\ i = 0 /\ data # <<>>
  /\ pc' = "done"
  /\ data' = lts_str_reverse(IF j < 0 THEN Append(data, MINUS) ELSE data)
  /\ Stays /\ UNCHANGED <<i, j, next, items, result>>

-----------------------------------------------------------------------------

Init ==
  /\ fn = "none" /\ pc = "idle"
  /\ text = <<>> /\ pat = <<>> /\ data = <<>>
  /\ i = 0 /\ j = 0 /\ next = <<>> /\ items = <<>> /\ result = 0

Begin ==
  /\ pc = "idle"
  /\ \/ \E t \in Texts, p \in Patterns : FindCall(t, p)
     \/ \E t \in Texts, p \in Patterns : FilterCall(t, p)
     \/ \E t \in Texts, p \in Patterns : p # <<>> /\ SplitCall(t, p[1])
     \/ \E t \in Texts : StripCall(t)
     \/ \E t \in Texts, x \in Numbers : NumberCall("long", t, x)
     \/ \E x \in Numbers : x >= 0 /\ NumberCall("uint", <<>>, x)

Find ==
  \/ TableMatch \/ TableFallBack \/ TableNone \/ TableDone
  \/ FindMatch \/ FindMiss \/ FindDone

Filter == FilterMove \/ FilterDone

Split == SplitSkip \/ SplitItem \/ SplitDone

Strip == StripNext \/ StripComment \/ StripDone

Number == Width \/ WidthDone \/ Digit \/ NumberDone

Next == Begin \/ Find \/ Filter \/ Split \/ Strip \/ Number

Spec == Init /\ [][Next]_vars

-----------------------------------------------------------------------------
(* Properties                                                               *)

TypeOK ==
  /\ fn \in {"none", "find", "filter", "split", "strip", "long", "uint"}
  /\ pc \in {"idle", "table", "width", "loop", "done"}
  /\ text \in Seq(Nat) /\ pat \in Seq(Nat) /\ data \in Seq(Nat)
  /\ i \in Int /\ j \in Int /\ result \in Int
  /\ next \in Seq(Int) /\ items \in Seq(Nat \X Nat)

\* Where p occurs in s
Occurrences(s, p) ==
  {at \in 0 .. Len(s) - Len(p) : \A k \in 1 .. Len(p) : s[at + k] = p[k]}

\* lts_str_find returns the first occurrence of the pattern, or -1, and on its way
\* it reads no character outside the strings and no border that is not written.
\* (The variables keep their types throughout.)
FindsFirst ==
  /\ TypeOK
  /\ Filling => i \in 0 .. j - 1 /\ Len(next) = j + 1
  /\ Searching => i >= 0 /\ j \in -1 .. Len(next) - 1
  /\ At("find", "done") =>
       LET at == Occurrences(text, pat)
       IN result = IF at = {} THEN -1 ELSE Min(at)

\* How many elements of K there are up to k
Rank(K, k) == Cardinality({m \in K : m <= k})

\* t is what s has at the positions K, in their order.
Picked(t, s, K) ==
  /\ Len(t) = Cardinality(K)
  /\ \A k \in K : t[Rank(K, k)] = s[k]

\* The reversals of the filters take out the unwanted characters, leave the others
\* in their order and say how many went.
FiltersInOrder ==
  At("filter", "done") =>
    LET K == {k \in 1 .. Len(text) : text[k] \notin Unwanted}
    IN Picked(data, text, K) /\ result = Len(text) - Cardinality(K)

\* Where a stretch without c begins
Starts(s, c) == {k \in 1 .. Len(s) : s[k] # c /\ (k = 1 \/ s[k - 1] = c)}

\* The item that begins with the k-th character ends at the next c, or behind the
\* end: unless a c follows it, it has the byte behind the string, too.
Item(s, c, k) == <<k - 1, FirstIn(Append(s, Behind), k - 1, {c}) - (k - 1)>>

\* lts_str_split makes room for exactly the items it stores, never stores more, and
\* stores the stretches between separators in their order.
SplitsRuns ==
  fn = "split" =>
    LET S == Starts(text, pat[1])
    IN /\ result = Cardinality(S) /\ Len(items) <= result
       /\ pc = "done" =>
            /\ Len(items) = result
            /\ \A k \in S : items[Rank(S, k)] = Item(text, pat[1], k)

InComment(s, k) == \E h \in 1 .. k : s[h] = HASH /\ \A m \in h .. k : s[m] # LF

\* What parse_conf leaves of a configuration file: everything but the stretches
\* from a hash to the end of the line, whatever they contain.
CommentsGo ==
  At("strip", "done") =>
    Picked(data, text, {k \in 1 .. Len(text) : ~InComment(text, k)})

\* The number that a string of digits stands for
ValueOf(digits) ==
  LET v[k \in 0 .. Len(digits)] == IF k = 0 THEN 0 ELSE 10 * v[k - 1] + (digits[k] - ZERO)
  IN v[Len(digits)]

\* A number that is written out reads back as itself, without leading zeros, and
\* one that lts_l2str accepts is at most two characters, with its terminator, longer
\* than the room it was given.
NumbersReadBack ==
  fn \in {"long", "uint"} /\ pc = "done" /\ result = 0 =>
    LET digits == IF j < 0 THEN Tail(data) ELSE data
    IN /\ ValueOf(digits) = abs(j)
       /\ Head(digits) = ZERO => Len(digits) = 1
       /\ j < 0 => Head(data) = MINUS
       /\ fn = "long" => Len(data) + 1 <= Len(text) + 2
=============================================================================
