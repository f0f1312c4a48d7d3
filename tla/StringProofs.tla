----------------------------- MODULE StringProofs -----------------------------
(***************************************************************************)
(* Proofs about the loops of the string library, for any texts and         *)
(* patterns.                                                               *)
(***************************************************************************)
EXTENDS StringLoops, FiniteSetTheorems, SequenceTheorems, WellFoundedInduction, TLAPS

(* What holds before every iteration of a loop. *)

\* The first b of the first q characters of p are also the last b of them.
Border(p, q, b) == b \in 0 .. q - 1 /\ \A k \in 1 .. b : p[k] = p[q - b + k]

Longest(p, q, b) == Border(p, q, b) /\ \A c \in 0 .. q - 1 : Border(p, q, c) => c <= b

\* The table nx is right for the first n characters of p.
Table(p, nx, n) ==
  /\ nx \in Seq(Int) /\ Len(nx) = n + 1
  /\ nx[1] = -1
  /\ \A q \in 1 .. n : Longest(p, q, nx[q + 1])

\* m of the first n characters of p are a border, and no longer border can be
\* extended by one character.
Tried(p, n, m) ==
  /\ n \in Nat /\ n >= 1 /\ (n = 1 \/ n <= Len(p) - 1)
  /\ Border(p, n, m)
  /\ \A c \in m + 1 .. n - 1 : Border(p, n, c) => p[c + 1] # p[n + 1]

\* The m characters of s before position n are the first of p, and p does not occur
\* further on the left.
Sought(s, p, n, m) ==
  /\ n \in 0 .. Len(s) /\ m \in -1 .. Len(p) /\ m <= n
  /\ \A k \in 1 .. m : s[n - m + k] = p[k]
  /\ \A at \in 0 .. n - m - 1 : at \notin Occurrences(s, p)

First(s, p, r) ==
  LET at == Occurrences(s, p) IN r = IF at = {} THEN -1 ELSE Min(at)

FindInv ==
  /\ At("find", "table") => Tried(pat, j, i) /\ Table(pat, next, j)
  /\ At("find", "loop") =>
       /\ Sought(text, pat, i, j)
       /\ \E n \in Nat : n >= 1 /\ n >= Len(pat) - 1 /\ Table(pat, next, n)
  /\ At("find", "done") => First(text, pat, result)

\* The positions of the characters of s that are not in C
Wanted(s, C) == {k \in 1 .. Len(s) : s[k] \notin C}

\* In d the first q characters of s are sorted into n wanted and the others.
Sorted(s, C, d, q, n) ==
  LET K == Wanted(s, C) IN
  /\ d \in Seq(Nat) /\ Len(d) = Len(s)
  /\ q \in 0 .. Len(s) /\ n = Rank(K, q)
  /\ \A k \in K : k <= q => d[Rank(K, k)] = s[k]
  /\ \A k \in n + 1 .. q : d[k] \in C
  /\ \A k \in q + 1 .. Len(s) : d[k] = s[k]

FilterInv ==
  /\ fn = "filter" => result = Len(text) - Cardinality(Wanted(text, Unwanted))
  /\ At("filter", "loop") => Sorted(text, Unwanted, data, j + 1, i)
  /\ At("filter", "done") => Picked(data, text, Wanted(text, Unwanted))

\* The stretches that begin in the first q characters of s are stored.
Stored(s, c, its, q) ==
  LET S == Starts(s, c) IN
  /\ q \in 0 .. Len(s) + 1
  /\ q = 0 \/ q >= Len(s) \/ s[q] = c \/ s[q + 1] = c
  /\ its \in Seq(Nat \X Nat) /\ Len(its) = Rank(S, q)
  /\ \A k \in S : k <= q => its[Rank(S, k)] = Item(s, c, k)

SplitInv ==
  fn = "split" =>
    /\ result = Cardinality(Starts(text, pat[1]))
    /\ Stored(text, pat[1], items, j)
    /\ pc = "done" => j >= Len(text)

\* The characters of s outside comments
Plain(s) == {k \in 1 .. Len(s) : ~InComment(s, k)}

\* d is s without the comments among its first q characters, the first n of d are
\* what they left.  Behind a comment that ends with s, n and q are one too large.
Stripped(s, d, n) ==
  LET q == n + Len(s) - Len(d) IN
  /\ d \in Seq(Nat) /\ Len(d) <= Len(s) /\ n \in 0 .. Len(d) + 1
  /\ IF n <= Len(d) THEN Rank(Plain(s), q) = n ELSE Cardinality(Plain(s)) = Len(d)
  /\ \A k \in Plain(s) : k <= q => d[Rank(Plain(s), k)] = s[k]
  /\ \A k \in n + 1 .. Len(d) : d[k] = s[k + Len(s) - Len(d)]
  /\ q \in Plain(s) \/ q = 0 \/ q > Len(s)

StripInv ==
  /\ At("strip", "loop") => Stripped(text, data, i)
  /\ At("strip", "done") => Picked(data, text, Plain(text))

\* What is left of x after each of the first w digits
Chain(u, w, x) ==
  /\ u \in [0 .. w -> Nat] /\ u[0] = x
  /\ \A k \in 1 .. w : u[k] = u[k - 1] \div 10

\* The digits d are written, from the last one on, and only 0 begins with a zero.
Written(u, d) ==
  /\ \A k \in 1 .. Len(d) : d[k] = ZERO + (u[k - 1] % 10)
  /\ Len(d) >= 2 => u[Len(d) - 1] > 0

\* The w digits of x, with its sign, are not too many for a string of n characters
\* and a terminator.
Fits(u, w, x, n) == u[w] = 0 /\ w >= 1 /\ w + SignWidth(x) <= n + 1

NumberInv ==
  /\ At("long", "width") =>
       /\ data = <<>>
       /\ \E w \in Nat : result = w + SignWidth(j)
                         /\ \E u : Chain(u, w, abs(j)) /\ i = u[w]
  /\ Writing =>
       \E w \in Nat : Len(data) <= w /\ \E u :
         /\ Chain(u, w, abs(j)) /\ Written(u, data) /\ i = u[Len(data)]
         /\ IF fn = "uint" THEN w = Len(data) ELSE Fits(u, w, j, Len(text))
  /\ NumbersReadBack

StringInv ==
  /\ TypeOK
  /\ FindInv /\ FilterInv /\ SplitInv /\ StripInv /\ NumberInv

-----------------------------------------------------------------------------
(* Least elements and scans *)

\* A set of naturals has a least element, the one Min returns.
LEMMA MinIsLeast ==
  ASSUME NEW S \in SUBSET Nat, S # {}
  PROVE  Min(S) \in S /\ \A y \in S : Min(S) <= y
<1>1. PICK x \in S : \A y \in S : ~ (<<y, x>> \in OpToRel(<, Nat))
  BY NatLessThanWellFounded, WFMin, Zenon
<1>2. \A y \in S : y \in Nat /\ x \in Nat /\ ~(y < x)
  BY <1>1, Zenon DEF OpToRel
<1>3. \A y \in S : x <= y
  BY <1>2
<1>. QED BY <1>3 DEF Min

\* An element that no other is below is the one Min returns.
LEMMA LeastIsMin ==
  ASSUME NEW S \in SUBSET Nat, NEW x \in S, \A y \in S : x <= y
  PROVE  Min(S) = x
<1>. DEFINE m == Min(S)
<1>1. m \in S /\ \A y \in S : m <= y
  BY MinIsLeast
<1>. HIDE DEF m
<1>2. m \in Nat /\ x \in Nat /\ m <= x /\ x <= m
  BY <1>1
<1>. QED BY <1>2 DEF m

LEMMA FirstAtProperties ==
  ASSUME NEW s \in Seq(Nat), NEW a \in 0 .. Len(s), NEW W \in SUBSET (a .. Len(s) - 1)
  PROVE  /\ FirstAt(s, W) \in a .. Len(s)
         /\ FirstAt(s, W) < Len(s) => FirstAt(s, W) \in W
         /\ \A k \in a .. FirstAt(s, W) - 1 : k \notin W
<1>1. Len(s) \in Nat
  OBVIOUS
<1>2. CASE W = {}
  <2>1. FirstAt(s, W) = Len(s)
    BY <1>2 DEF FirstAt
  <2>. QED BY <1>1, <1>2, <2>1
<1>3. CASE W # {}
  <2>1. FirstAt(s, W) = Min(W)
    BY <1>3 DEF FirstAt
  <2>2. W \in SUBSET Nat
    BY <1>1
  <2>3. Min(W) \in W /\ \A y \in W : Min(W) <= y
    BY <1>3, <2>2, MinIsLeast
  <2>. DEFINE m == Min(W)
  <2>. HIDE DEF m
  <2>4. m \in W /\ (\A y \in W : m <= y) /\ FirstAt(s, W) = m
    BY <2>1, <2>3 DEF m
  <2>5. m \in a .. Len(s) - 1
    BY <2>4
  <2>6. \A k \in a .. m - 1 : k \notin W
    BY <1>1, <2>4, <2>5
  <2>. QED BY <1>1, <2>4, <2>5, <2>6
<1>. QED BY <1>2, <1>3

\* A scan for a character of C stops at the first one, or at the end.
LEMMA FirstInProperties ==
  ASSUME NEW s \in Seq(Nat), NEW a \in 0 .. Len(s), NEW C
  PROVE  /\ FirstIn(s, a, C) \in a .. Len(s)
         /\ FirstIn(s, a, C) < Len(s) => s[FirstIn(s, a, C) + 1] \in C
         /\ \A k \in a + 1 .. FirstIn(s, a, C) : s[k] \notin C
<1>. DEFINE W == {k \in a .. Len(s) - 1 : s[k + 1] \in C}
            f == FirstIn(s, a, C)
<1>1. f = FirstAt(s, W)
  BY DEF FirstIn
<1>2. W \in SUBSET (a .. Len(s) - 1)
  OBVIOUS
<1>. HIDE DEF f, W
<1>3. f \in a .. Len(s) /\ (f < Len(s) => f \in W) /\ \A k \in a .. f - 1 : k \notin W
  BY <1>1, <1>2, FirstAtProperties
<1>. USE DEF W
<1>4. ASSUME NEW k \in a + 1 .. f PROVE s[k] \notin C
  <2>1. k - 1 \in a .. f - 1 /\ k - 1 \in a .. Len(s) - 1 /\ (k - 1) + 1 = k
    BY <1>3
  <2>2. k - 1 \notin W
    BY <1>3, <2>1
  <2>. QED BY <2>1, <2>2
<1>. QED BY <1>3, <1>4 DEF f

\* A scan for a character that is not in C stops at the first one, or at the end.
LEMMA FirstNotInProperties ==
  ASSUME NEW s \in Seq(Nat), NEW a \in 0 .. Len(s), NEW C
  PROVE  /\ FirstNotIn(s, a, C) \in a .. Len(s)
         /\ FirstNotIn(s, a, C) < Len(s) => s[FirstNotIn(s, a, C) + 1] \notin C
         /\ \A k \in a + 1 .. FirstNotIn(s, a, C) : s[k] \in C
<1>. DEFINE W == {k \in a .. Len(s) - 1 : s[k + 1] \notin C}
            f == FirstNotIn(s, a, C)
<1>1. f = FirstAt(s, W)
  BY DEF FirstNotIn
<1>2. W \in SUBSET (a .. Len(s) - 1)
  OBVIOUS
<1>. HIDE DEF f, W
<1>3. f \in a .. Len(s) /\ (f < Len(s) => f \in W) /\ \A k \in a .. f - 1 : k \notin W
  BY <1>1, <1>2, FirstAtProperties
<1>. USE DEF W
<1>4. ASSUME NEW k \in a + 1 .. f PROVE s[k] \in C
  <2>1. k - 1 \in a .. f - 1 /\ k - 1 \in a .. Len(s) - 1 /\ (k - 1) + 1 = k
    BY <1>3
  <2>2. k - 1 \notin W
    BY <1>3, <2>1
  <2>. QED BY <2>1, <2>2
<1>. QED BY <1>3, <1>4 DEF f

-----------------------------------------------------------------------------
(* The table of borders *)

\* A border of n + 1 characters is a border of n characters and a character.
LEMMA ShorterBorder ==
  ASSUME NEW p \in Seq(Nat), NEW n \in Nat, NEW c \in 1 .. n, Border(p, n + 1, c)
  PROVE  Border(p, n, c - 1) /\ p[c] = p[n + 1]
<1>1. \A k \in 1 .. c : p[k] = p[n + 1 - c + k]
  BY DEF Border
<1>2. p[c] = p[n + 1]
  <2>1. c \in 1 .. c /\ n + 1 - c + c = n + 1
    OBVIOUS
  <2>. QED BY <1>1, <2>1
<1>3. ASSUME NEW k \in 1 .. c - 1 PROVE p[k] = p[n - (c - 1) + k]
  <2>1. k \in 1 .. c /\ n + 1 - c + k = n - (c - 1) + k
    OBVIOUS
  <2>. QED BY <1>1, <2>1
<1>. QED BY <1>2, <1>3 DEF Border

\* A border of a border is a border.
LEMMA BorderOfBorder ==
  ASSUME NEW p \in Seq(Nat), NEW n \in Nat, NEW m, Border(p, n, m), NEW c, Border(p, m, c)
  PROVE  Border(p, n, c)
<1>1. m \in 0 .. n - 1 /\ c \in 0 .. m - 1
  BY DEF Border
<1>2. ASSUME NEW k \in 1 .. c PROVE p[k] = p[n - c + k]
  <2>1. p[k] = p[m - c + k]
    BY <1>2 DEF Border
  <2>2. m - c + k \in 1 .. m /\ n - m + (m - c + k) = n - c + k
    BY <1>1
  <2>3. p[m - c + k] = p[n - m + (m - c + k)]
    BY <2>2 DEF Border
  <2>. QED BY <2>1, <2>2, <2>3
<1>. QED BY <1>1, <1>2 DEF Border

\* Of two borders the shorter one is a border of the longer one.
LEMMA BorderInBorder ==
  ASSUME NEW p \in Seq(Nat), NEW n \in Nat, NEW m, Border(p, n, m), NEW c, Border(p, n, c), c < m
  PROVE  Border(p, m, c)
<1>1. m \in 0 .. n - 1 /\ c \in 0 .. n - 1
  BY DEF Border
<1>2. ASSUME NEW k \in 1 .. c PROVE p[k] = p[m - c + k]
  <2>1. p[k] = p[n - c + k]
    BY <1>2 DEF Border
  <2>2. m - c + k \in 1 .. m /\ n - m + (m - c + k) = n - c + k
    BY <1>1
  <2>3. p[m - c + k] = p[n - m + (m - c + k)]
    BY <2>2 DEF Border
  <2>. QED BY <2>1, <2>2, <2>3
<1>. QED BY <1>1, <1>2 DEF Border

\* The entry for n + 1 characters is added.
LEMMA TableGrows ==
  ASSUME NEW p \in Seq(Nat), NEW n \in Nat, n >= 1, NEW nx, Table(p, nx, n),
         NEW b \in Int, Longest(p, n + 1, b)
  PROVE  Table(p, Append(nx, b), n + 1)
<1>1. nx \in Seq(Int) /\ Len(nx) = n + 1 /\ nx[1] = -1 /\ \A q \in 1 .. n : Longest(p, q, nx[q + 1])
  BY DEF Table
<1>. DEFINE ny == Append(nx, b)
<1>2. /\ ny \in Seq(Int) /\ Len(ny) = n + 2 /\ ny[n + 2] = b
      /\ \A k \in 1 .. n + 1 : ny[k] = nx[k]
  BY <1>1, AppendProperties
<1>. HIDE DEF ny
<1>3. ASSUME NEW q \in 1 .. n + 1 PROVE Longest(p, q, ny[q + 1])
  <2>1. CASE q = n + 1
    <3>1. ny[q + 1] = b
      BY <1>2, <2>1
    <3>. QED BY <2>1, <3>1
  <2>2. CASE q # n + 1
    <3>1. q \in 1 .. n /\ q + 1 \in 1 .. n + 1
      BY <2>2
    <3>2. ny[q + 1] = nx[q + 1]
      BY <1>2, <3>1
    <3>. QED BY <1>1, <3>1, <3>2
  <2>. QED BY <2>1, <2>2
<1>4. ny[1] = -1 /\ Len(ny) = (n + 1) + 1
  BY <1>1, <1>2
<1>. QED BY <1>2, <1>3, <1>4 DEF Table, ny

\* The next character extends the border that was tried.
LEMMA TableMatchStep ==
  ASSUME NEW p \in Seq(Nat), NEW n, NEW m, NEW nx, Tried(p, n, m), Table(p, nx, n),
         n < Len(p) - 1, p[m + 1] = p[n + 1]
  PROVE  Tried(p, n + 1, m + 1) /\ Table(p, Append(nx, m + 1), n + 1)
<1>1. /\ n \in Nat /\ n >= 1 /\ Border(p, n, m) /\ m \in 0 .. n - 1
      /\ \A c \in m + 1 .. n - 1 : Border(p, n, c) => p[c + 1] # p[n + 1]
      /\ \A k \in 1 .. m : p[k] = p[n - m + k]
      /\ Len(p) \in Nat
  BY DEF Tried, Border
<1>2. Border(p, n + 1, m + 1)
  <2>1. ASSUME NEW k \in 1 .. m + 1 PROVE p[k] = p[(n + 1) - (m + 1) + k]
    <3>1. CASE k = m + 1
      <4>1. (n + 1) - (m + 1) + k = n + 1
        BY <1>1, <3>1
      <4>. QED BY <3>1, <4>1
    <3>2. CASE k # m + 1
      <4>1. k \in 1 .. m /\ (n + 1) - (m + 1) + k = n - m + k
        BY <1>1, <3>2
      <4>. QED BY <1>1, <4>1
    <3>. QED BY <3>1, <3>2
  <2>2. m + 1 \in 0 .. (n + 1) - 1
    BY <1>1
  <2>. QED BY <2>1, <2>2 DEF Border
<1>3. ASSUME NEW c \in 0 .. (n + 1) - 1, Border(p, n + 1, c) PROVE c <= m + 1
  <2>. SUFFICES ASSUME c > m + 1 PROVE FALSE
    BY <1>1
  <2>1. c \in 1 .. n /\ c - 1 \in m + 1 .. n - 1 /\ (c - 1) + 1 = c
    BY <1>1
  <2>2. Border(p, n, c - 1) /\ p[c] = p[n + 1]
    BY <1>1, <1>3, <2>1, ShorterBorder
  <2>. QED BY <1>1, <2>1, <2>2
<1>4. Longest(p, n + 1, m + 1)
  BY <1>2, <1>3 DEF Longest
<1>5. Table(p, Append(nx, m + 1), n + 1)
  BY <1>1, <1>4, TableGrows
<1>6. ASSUME NEW c \in (m + 1) + 1 .. (n + 1) - 1, Border(p, n + 1, c) PROVE FALSE
  <2>1. c \in 0 .. (n + 1) - 1 /\ c > m + 1
    BY <1>1
  <2>. QED BY <1>1, <1>3, <1>6, <2>1
<1>7. n + 1 \in Nat /\ n + 1 >= 1 /\ n + 1 <= Len(p) - 1
  BY <1>1
<1>8. Tried(p, n + 1, m + 1)
  BY <1>2, <1>6, <1>7 DEF Tried
<1>. QED BY <1>5, <1>8

\* The border that was tried cannot be extended, and the next shorter one is tried.
LEMMA TableFallBackStep ==
  ASSUME NEW p \in Seq(Nat), NEW n, NEW m, NEW nx, Tried(p, n, m), Table(p, nx, n),
         p[m + 1] # p[n + 1], nx[m + 1] # -1
  PROVE  Tried(p, n, nx[m + 1])
<1>1. /\ n \in Nat /\ n >= 1 /\ Border(p, n, m) /\ m \in 0 .. n - 1
      /\ \A c \in m + 1 .. n - 1 : Border(p, n, c) => p[c + 1] # p[n + 1]
      /\ n = 1 \/ n <= Len(p) - 1
  BY DEF Tried, Border
<1>2. m \in 1 .. n
  BY <1>1 DEF Table
<1>. DEFINE b == nx[m + 1]
<1>3. Longest(p, m, b)
  BY <1>2 DEF Table
<1>. HIDE DEF b
<1>4. Border(p, m, b) /\ b \in 0 .. m - 1 /\ \A c \in 0 .. m - 1 : Border(p, m, c) => c <= b
  BY <1>3 DEF Longest, Border
<1>5. Border(p, n, b)
  BY <1>1, <1>4, BorderOfBorder
<1>6. ASSUME NEW c \in b + 1 .. n - 1, Border(p, n, c) PROVE p[c + 1] # p[n + 1]
  <2>1. CASE c > m
    <3>1. c \in m + 1 .. n - 1
      BY <1>1, <1>4, <2>1
    <3>. QED BY <1>1, <1>6, <3>1
  <2>2. CASE c = m
    BY <2>2
  <2>3. CASE c < m
    <3>1. c \in 0 .. m - 1 /\ ~(c <= b)
      BY <1>1, <1>4, <2>3
    <3>2. Border(p, m, c)
      BY <1>1, <1>6, <2>3, BorderInBorder
    <3>. QED BY <1>4, <3>1, <3>2
  <2>. QED BY <1>1, <1>4, <2>1, <2>2, <2>3
<1>7. Tried(p, n, b)
  BY <1>1, <1>5, <1>6 DEF Tried
<1>. QED BY <1>7 DEF b

\* No border can be extended.
LEMMA TableNoneStep ==
  ASSUME NEW p \in Seq(Nat), NEW n, NEW m, NEW nx, Tried(p, n, m), Table(p, nx, n),
         n < Len(p) - 1, p[m + 1] # p[n + 1], nx[m + 1] = -1
  PROVE  Tried(p, n + 1, 0) /\ Table(p, Append(nx, 0), n + 1)
<1>1. /\ n \in Nat /\ n >= 1 /\ Border(p, n, m) /\ m \in 0 .. n - 1
      /\ \A c \in m + 1 .. n - 1 : Border(p, n, c) => p[c + 1] # p[n + 1]
      /\ Len(p) \in Nat
  BY DEF Tried, Border
<1>2. m = 0
  <2>. SUFFICES ASSUME m # 0 PROVE FALSE
    OBVIOUS
  <2>1. m \in 1 .. n
    BY <1>1
  <2>2. Longest(p, m, nx[m + 1])
    BY <2>1 DEF Table
  <2>. QED BY <2>2 DEF Longest, Border
<1>3. Border(p, n + 1, 0)
  BY <1>1 DEF Border
<1>4. ASSUME NEW c \in 0 .. (n + 1) - 1, Border(p, n + 1, c) PROVE c <= 0
  <2>. SUFFICES ASSUME c > 0 PROVE FALSE
    BY <1>1
  <2>1. c \in 1 .. n /\ (c - 1) + 1 = c
    BY <1>1
  <2>2. Border(p, n, c - 1) /\ p[c] = p[n + 1]
    BY <1>1, <1>4, <2>1, ShorterBorder
  <2>3. CASE c = 1
    BY <1>2, <2>2, <2>3
  <2>4. CASE c # 1
    <3>1. c - 1 \in m + 1 .. n - 1
      BY <1>1, <1>2, <2>1, <2>4
    <3>. QED BY <1>1, <2>1, <2>2, <3>1
  <2>. QED BY <2>3, <2>4
<1>5. Longest(p, n + 1, 0)
  BY <1>3, <1>4 DEF Longest
<1>6. Table(p, Append(nx, 0), n + 1)
  BY <1>1, <1>5, TableGrows
<1>7. ASSUME NEW c \in 0 + 1 .. (n + 1) - 1, Border(p, n + 1, c) PROVE FALSE
  <2>1. c \in 0 .. (n + 1) - 1 /\ c > 0
    BY <1>1
  <2>. QED BY <1>4, <1>7, <2>1
<1>8. n + 1 \in Nat /\ n + 1 >= 1 /\ n + 1 <= Len(p) - 1
  BY <1>1
<1>9. Tried(p, n + 1, 0)
  BY <1>3, <1>7, <1>8 DEF Tried
<1>. QED BY <1>6, <1>9

\* The table that __kmp_next starts with
LEMMA FirstTable ==
  ASSUME NEW p \in Seq(Nat)
  PROVE  Tried(p, 1, 0) /\ Table(p, <<-1, 0>>, 1)
<1>1. Border(p, 1, 0) /\ Longest(p, 1, 0)
  BY DEF Border, Longest
<1>2. Tried(p, 1, 0)
  BY <1>1 DEF Tried
<1>. DEFINE nx == <<-1, 0>>
<1>3. nx \in Seq(Int) /\ Len(nx) = 1 + 1 /\ nx[1] = -1 /\ nx[2] = 0
  OBVIOUS
<1>. HIDE DEF nx
<1>4. \A q \in 1 .. 1 : Longest(p, q, nx[q + 1])
  BY <1>1, <1>3
<1>5. Table(p, nx, 1)
  BY <1>3, <1>4 DEF Table
<1>. QED BY <1>2, <1>5 DEF nx

-----------------------------------------------------------------------------
(* The search *)

\* The character is the next one of the pattern, or the pattern starts behind it.
LEMMA FindMatchStep ==
  ASSUME NEW s \in Seq(Nat), NEW p \in Seq(Nat), NEW n, NEW m, Sought(s, p, n, m),
         n < Len(s), m < Len(p), m # -1 => s[n + 1] = p[m + 1]
  PROVE  Sought(s, p, n + 1, m + 1)
<1>1. /\ n \in 0 .. Len(s) /\ m \in -1 .. Len(p) /\ m <= n
      /\ \A k \in 1 .. m : s[n - m + k] = p[k]
      /\ \A at \in 0 .. n - m - 1 : at \notin Occurrences(s, p)
      /\ Len(s) \in Nat /\ Len(p) \in Nat
  BY DEF Sought
<1>2. /\ n + 1 \in 0 .. Len(s) /\ m + 1 \in -1 .. Len(p) /\ m + 1 <= n + 1
      /\ (n + 1) - (m + 1) - 1 = n - m - 1
  BY <1>1
<1>3. ASSUME NEW k \in 1 .. m + 1 PROVE s[(n + 1) - (m + 1) + k] = p[k]
  <2>1. CASE k = m + 1
    <3>1. (n + 1) - (m + 1) + k = n + 1 /\ m # -1
      BY <1>1, <2>1
    <3>. QED BY <2>1, <3>1
  <2>2. CASE k # m + 1
    <3>1. k \in 1 .. m /\ (n + 1) - (m + 1) + k = n - m + k
      BY <1>1, <2>2
    <3>. QED BY <1>1, <3>1
  <2>. QED BY <2>1, <2>2
<1>. QED BY <1>1, <1>2, <1>3 DEF Sought

\* The pattern does not go on as the text does, and is moved to the right until what
\* was matched ends with one of its borders.
LEMMA FindMissStep ==
  ASSUME NEW s \in Seq(Nat), NEW p \in Seq(Nat), NEW n, NEW m, Sought(s, p, n, m),
         m < Len(p), m # -1, s[n + 1] # p[m + 1],
         NEW len \in Nat, len >= Len(p) - 1, NEW nx, Table(p, nx, len)
  PROVE  Sought(s, p, n, nx[m + 1])
<1>1. /\ n \in 0 .. Len(s) /\ m \in 0 .. Len(p) - 1 /\ m <= n
      /\ \A k \in 1 .. m : s[n - m + k] = p[k]
      /\ \A at \in 0 .. n - m - 1 : at \notin Occurrences(s, p)
      /\ Len(s) \in Nat /\ Len(p) \in Nat
  BY DEF Sought
<1>2. n - m \notin Occurrences(s, p)
  <2>. SUFFICES ASSUME n - m \in Occurrences(s, p) PROVE FALSE
    OBVIOUS
  <2>1. m + 1 \in 1 .. Len(p) /\ (n - m) + (m + 1) = n + 1
    BY <1>1
  <2>2. s[(n - m) + (m + 1)] = p[m + 1]
    BY <2>1 DEF Occurrences
  <2>. QED BY <2>1, <2>2
<1>3. CASE m = 0
  <2>1. nx[m + 1] = -1
    BY <1>3 DEF Table
  <2>2. \A at \in 0 .. n - (-1) - 1 : at \notin Occurrences(s, p)
    BY <1>1, <1>2, <1>3
  <2>3. Sought(s, p, n, -1)
    BY <1>1, <2>2 DEF Sought
  <2>. QED BY <2>1, <2>3
<1>4. CASE m # 0
  <2>. DEFINE b == nx[m + 1]
  <2>1. m \in 1 .. len
    BY <1>1, <1>4
  <2>2. Longest(p, m, b)
    BY <2>1 DEF Table
  <2>. HIDE DEF b
  <2>3. /\ b \in 0 .. m - 1 /\ \A c \in 0 .. m - 1 : Border(p, m, c) => c <= b
        /\ \A k \in 1 .. b : p[k] = p[m - b + k]
    BY <2>2 DEF Longest, Border
  <2>4. ASSUME NEW k \in 1 .. b PROVE s[n - b + k] = p[k]
    <3>1. m - b + k \in 1 .. m /\ n - m + (m - b + k) = n - b + k
      BY <1>1, <2>3
    <3>2. s[n - m + (m - b + k)] = p[m - b + k]
      BY <1>1, <3>1
    <3>. QED BY <2>3, <3>1, <3>2
  <2>5. ASSUME NEW at \in 0 .. n - b - 1 PROVE at \notin Occurrences(s, p)
    <3>1. CASE at <= n - m
      <4>1. at \in 0 .. n - m - 1 \/ at = n - m
        BY <1>1, <3>1
      <4>. QED BY <1>1, <1>2, <4>1
    <3>2. CASE at > n - m
      <4>. SUFFICES ASSUME at \in Occurrences(s, p) PROVE FALSE
        OBVIOUS
      <4>. DEFINE c == n - at
      <4>1. c \in b + 1 .. m - 1 /\ at = n - c
        BY <1>1, <2>3, <3>2
      <4>2. \A k \in 1 .. Len(p) : s[at + k] = p[k]
        BY DEF Occurrences
      <4>. HIDE DEF c
      <4>3. ASSUME NEW k \in 1 .. c PROVE p[k] = p[m - c + k]
        <5>1. k \in 1 .. Len(p) /\ m - c + k \in 1 .. m /\ n - m + (m - c + k) = at + k
          BY <1>1, <2>3, <4>1
        <5>2. s[n - m + (m - c + k)] = p[m - c + k]
          BY <1>1, <5>1
        <5>. QED BY <4>2, <5>1, <5>2
      <4>4. c \in 0 .. m - 1 /\ ~(c <= b)
        BY <1>1, <2>3, <4>1
      <4>5. Border(p, m, c)
        BY <4>3, <4>4 DEF Border
      <4>. QED BY <2>3, <4>4, <4>5
    <3>. QED BY <1>1, <3>1, <3>2
  <2>6. b \in -1 .. Len(p) /\ b <= n
    <3>1. /\ b \in Int /\ b >= 0 /\ b < m /\ m \in Int /\ m < Len(p) /\ m <= n
          /\ n \in Int /\ Len(p) \in Int
      BY <1>1, <2>3
    <3>. QED BY <3>1
  <2>7. Sought(s, p, n, b)
    BY <1>1, <2>4, <2>5, <2>6 DEF Sought
  <2>. QED BY <2>7 DEF b
<1>. QED BY <1>3, <1>4

\* At the end of the pattern its first occurrence is found; at the end of the text
\* there is none.
LEMMA FindDoneStep ==
  ASSUME NEW s \in Seq(Nat), NEW p \in Seq(Nat), NEW n, NEW m, Sought(s, p, n, m),
         n >= Len(s) \/ m >= Len(p)
  PROVE  First(s, p, IF m >= Len(p) THEN n - Len(p) ELSE -1)
<1>1. /\ n \in 0 .. Len(s) /\ m \in -1 .. Len(p) /\ m <= n
      /\ \A k \in 1 .. m : s[n - m + k] = p[k]
      /\ \A at \in 0 .. n - m - 1 : at \notin Occurrences(s, p)
      /\ Len(s) \in Nat /\ Len(p) \in Nat
  BY DEF Sought
<1>2. Occurrences(s, p) \in SUBSET Nat /\ \A at \in Occurrences(s, p) : at \in 0 .. Len(s) - Len(p)
  BY <1>1 DEF Occurrences
<1>3. CASE m >= Len(p)
  <2>1. m = Len(p) /\ n - m \in 0 .. Len(s) - Len(p)
    BY <1>1, <1>3
  <2>2. n - m \in Occurrences(s, p)
    BY <1>1, <2>1 DEF Occurrences
  <2>3. \A at \in Occurrences(s, p) : n - m <= at
    BY <1>1, <1>2
  <2>4. Min(Occurrences(s, p)) = n - m
    BY <1>2, <2>2, <2>3, LeastIsMin
  <2>. QED BY <1>3, <2>1, <2>2, <2>4 DEF First
<1>4. CASE ~(m >= Len(p))
  <2>1. n = Len(s)
    BY <1>1, <1>4
  <2>2. \A at \in 0 .. Len(s) - Len(p) : at \in 0 .. n - m - 1
    BY <1>1, <1>4, <2>1
  <2>3. Occurrences(s, p) = {}
    BY <1>1, <1>2, <2>2
  <2>. QED BY <1>4, <2>3 DEF First
<1>. QED BY <1>3, <1>4

-----------------------------------------------------------------------------
(* Ranks *)

LEMMA RankType ==
  ASSUME NEW K \in SUBSET Nat, IsFiniteSet(K), NEW k \in Int
  PROVE  /\ Cardinality(K) \in Nat
         /\ IsFiniteSet({m \in K : m <= k})
         /\ Rank(K, k) \in Nat /\ Rank(K, k) <= Cardinality(K)
<1>1. {m \in K : m <= k} \in SUBSET K
  OBVIOUS
<1>2. IsFiniteSet({m \in K : m <= k}) /\ Cardinality({m \in K : m <= k}) <= Cardinality(K)
  BY <1>1, FS_Subset
<1>. QED BY <1>2, FS_CardinalityType DEF Rank

\* Over a stretch without elements the rank stays, ...
LEMMA RankOutside ==
  ASSUME NEW K \in SUBSET Nat, NEW a \in Int, NEW b \in Int, a <= b,
         \A k \in a + 1 .. b : k \notin K
  PROVE  Rank(K, b) = Rank(K, a)
<1>1. \A m \in K : m <= b <=> m <= a
  OBVIOUS
<1>2. {m \in K : m <= b} = {m \in K : m <= a}
  BY <1>1
<1>. QED BY <1>2 DEF Rank

\* ... over a stretch of elements it grows with every one, ...
LEMMA RankInside ==
  ASSUME NEW K \in SUBSET Nat, IsFiniteSet(K), NEW a \in Int, NEW b \in Int, a <= b,
         \A k \in a + 1 .. b : k \in K
  PROVE  Rank(K, b) = Rank(K, a) + (b - a)
<1>. DEFINE A == {m \in K : m <= a}
            B == a + 1 .. b
<1>1. {m \in K : m <= b} = A \cup B
  <2>1. \A m \in K : m \in Int /\ (m <= b <=> m <= a \/ m \in B)
    OBVIOUS
  <2>2. \A m \in B : m \in K /\ m <= b
    OBVIOUS
  <2>. HIDE DEF B
  <2>. QED BY <2>1, <2>2
<1>2. A \cap B = {}
  OBVIOUS
<1>3. IsFiniteSet(A) /\ Cardinality(A) = Rank(K, a) /\ Rank(K, a) \in Nat
  BY RankType DEF Rank
<1>4. IsFiniteSet(B) /\ Cardinality(B) = b - a
  <2>1. IsFiniteSet(B) /\ Cardinality(B) = IF a + 1 > b THEN 0 ELSE b - (a + 1) + 1
    BY FS_Interval
  <2>. QED BY <2>1
<1>5. Cardinality(A \cup B) = Cardinality(A) + Cardinality(B) - Cardinality(A \cap B)
  BY <1>3, <1>4, FS_Union, Zenon
<1>6. Cardinality(A \cap B) = 0
  BY <1>2, FS_EmptySet
<1>7. Rank(K, b) = Cardinality(A \cup B)
  BY <1>1 DEF Rank
<1>. HIDE DEF A, B
<1>. QED BY <1>3, <1>4, <1>5, <1>6, <1>7

\* ... and from the last element on it is the number of elements.
LEMMA RankAll ==
  ASSUME NEW K \in SUBSET Nat, NEW b \in Int, \A k \in K : k <= b
  PROVE  Rank(K, b) = Cardinality(K)
<1>1. {m \in K : m <= b} = K
  OBVIOUS
<1>. QED BY <1>1 DEF Rank

\* An element's rank is above that of every position before it.
LEMMA RankRises ==
  ASSUME NEW K \in SUBSET Nat, IsFiniteSet(K), NEW k \in K, NEW a \in Int, a < k
  PROVE  Rank(K, k) \in Nat /\ Rank(K, a) < Rank(K, k)
<1>1. k \in Int /\ k - 1 \in Int /\ k - 1 <= k /\ a <= k - 1
  OBVIOUS
<1>2. \A x \in (k - 1) + 1 .. k : x \in K
  BY <1>1
<1>3. Rank(K, k) = Rank(K, k - 1) + (k - (k - 1))
  BY <1>1, <1>2, RankInside
<1>4. Rank(K, k - 1) \in Nat /\ Rank(K, k) \in Nat /\ Rank(K, a) \in Nat
  BY <1>1, RankType
<1>5. Rank(K, a) <= Rank(K, k - 1)
  <2>1. \A m \in K : m <= a => m <= k - 1
    BY <1>1
  <2>2. {m \in K : m <= a} \in SUBSET {m \in K : m <= k - 1}
    BY <2>1
  <2>3. IsFiniteSet({m \in K : m <= k - 1})
    BY <1>1, RankType
  <2>. QED BY <2>2, <2>3, FS_Subset DEF Rank
<1>. QED BY <1>1, <1>3, <1>4, <1>5

\* The rank of an element is positive and at most that of any later position.
LEMMA RankOrder ==
  ASSUME NEW K \in SUBSET Nat, IsFiniteSet(K), NEW k \in K, NEW b \in Int, k <= b
  PROVE  Rank(K, k) \in 1 .. Rank(K, b)
<1>1. k \in Int /\ k - 1 \in Int /\ k - 1 < k
  OBVIOUS
<1>2. Rank(K, k - 1) < Rank(K, k)
  BY <1>1, RankRises
<1>3. Rank(K, k - 1) \in Nat /\ Rank(K, k) \in Nat /\ Rank(K, b) \in Nat
  BY <1>1, RankType
<1>4. Rank(K, k) <= Rank(K, b)
  <2>1. \A m \in K : m <= k => m <= b
    BY <1>1
  <2>2. {m \in K : m <= k} \in SUBSET {m \in K : m <= b}
    BY <2>1
  <2>3. IsFiniteSet({m \in K : m <= b})
    BY RankType
  <2>. QED BY <2>2, <2>3, FS_Subset DEF Rank
<1>. QED BY <1>1, <1>2, <1>3, <1>4

\* Without a zero, the rank of a position is at most the position.
LEMMA RankBound ==
  ASSUME NEW K \in SUBSET Nat, IsFiniteSet(K), 0 \notin K, NEW q \in Nat
  PROVE  Rank(K, q) \in 0 .. q
<1>1. \A m \in K : m <= q => m \in 1 .. q
  OBVIOUS
<1>2. {m \in K : m <= q} \in SUBSET (1 .. q)
  BY <1>1
<1>3. IsFiniteSet(1 .. q) /\ Cardinality(1 .. q) = IF 1 > q THEN 0 ELSE q - 1 + 1
  BY FS_Interval
<1>4. Cardinality({m \in K : m <= q}) <= Cardinality(1 .. q)
  BY <1>2, <1>3, FS_Subset
<1>5. Rank(K, q) \in Nat /\ Rank(K, q) <= Cardinality(1 .. q)
  BY <1>4, RankType DEF Rank
<1>6. Cardinality(1 .. q) = q
  BY <1>3
<1>. QED BY <1>5, <1>6

\* Positions in a string are such sets.
LEMMA Positions ==
  ASSUME NEW L \in Nat, NEW K \in SUBSET (1 .. L)
  PROVE  /\ K \in SUBSET Nat /\ IsFiniteSet(K) /\ 0 \notin K /\ \A k \in K : k \in Nat /\ k >= 1 /\ k <= L
         /\ Cardinality(K) \in 0 .. L /\ Cardinality((1 .. L) \ K) = L - Cardinality(K)
<1>1. IsFiniteSet(1 .. L) /\ Cardinality(1 .. L) = IF 1 > L THEN 0 ELSE L - 1 + 1
  BY FS_Interval
<1>2. Cardinality(1 .. L) = L
  BY <1>1
<1>3. IsFiniteSet(K) /\ Cardinality(K) <= Cardinality(1 .. L)
  BY <1>1, FS_Subset
<1>4. Cardinality(K) \in Nat
  BY <1>3, FS_CardinalityType
<1>5. Cardinality((1 .. L) \ K) = Cardinality(1 .. L) - Cardinality((1 .. L) \cap K)
  BY <1>1, FS_Difference, Zenon
<1>6. (1 .. L) \cap K = K
  BY Zenon
<1>7. K \in SUBSET Nat /\ \A k \in K : k \in Nat /\ k >= 1 /\ k <= L
  OBVIOUS
<1>8. 0 \notin K
  BY <1>7
<1>9. Cardinality(K) \in 0 .. L
  BY <1>2, <1>3, <1>4
<1>10. Cardinality((1 .. L) \ K) = L - Cardinality(K)
  BY <1>2, <1>5, <1>6
<1>. QED BY <1>3, <1>7, <1>8, <1>9, <1>10, Zenon

-----------------------------------------------------------------------------
(* The filters *)

LEMMA WantedProperties ==
  ASSUME NEW s \in Seq(Nat), NEW C
  PROVE  /\ Len(s) \in Nat /\ Wanted(s, C) \in SUBSET Nat
         /\ IsFiniteSet(Wanted(s, C)) /\ 0 \notin Wanted(s, C)
         /\ \A k \in Wanted(s, C) : k \in Nat /\ k >= 1 /\ k <= Len(s)
         /\ \A k \in 1 .. Len(s) : k \in Wanted(s, C) <=> s[k] \notin C
         /\ Cardinality(Wanted(s, C)) \in 0 .. Len(s)
         /\ Cardinality({k \in DOMAIN s : s[k] \in C}) = Len(s) - Cardinality(Wanted(s, C))
<1>. DEFINE K == Wanted(s, C)
<1>1. Len(s) \in Nat /\ K \in SUBSET (1 .. Len(s)) /\ \A k \in 1 .. Len(s) : k \in K <=> s[k] \notin C
  BY DEF Wanted
<1>2. {k \in DOMAIN s : s[k] \in C} = (1 .. Len(s)) \ K
  BY <1>1
<1>3. /\ K \in SUBSET Nat /\ IsFiniteSet(K) /\ 0 \notin K
      /\ \A k \in K : k \in Nat /\ k >= 1 /\ k <= Len(s)
      /\ Cardinality(K) \in 0 .. Len(s)
      /\ Cardinality((1 .. Len(s)) \ K) = Len(s) - Cardinality(K)
  BY <1>1, Positions, Zenon
<1>. QED BY <1>1, <1>2, <1>3, Zenon

\* A string with the characters of a region in reverse
LEMMA ReverseProperties ==
  ASSUME NEW s \in Seq(Nat), NEW a \in 0 .. Len(s), NEW b \in -1 .. Len(s) - 1
  PROVE  /\ reverse_region(s, a, b) \in Seq(Nat)
         /\ Len(reverse_region(s, a, b)) = Len(s)
         /\ \A k \in 1 .. Len(s) :
              reverse_region(s, a, b)[k] = IF k - 1 \in a .. b THEN s[a + b - k + 2] ELSE s[k]
<1>. DEFINE d == [k \in 1 .. Len(s) |-> IF k - 1 \in a .. b THEN s[a + b - k + 2] ELSE s[k]]
<1>1. Len(s) \in Nat /\ \A k \in 1 .. Len(s) : s[k] \in Nat
  OBVIOUS
<1>2. ASSUME NEW k \in 1 .. Len(s)
      PROVE  (IF k - 1 \in a .. b THEN s[a + b - k + 2] ELSE s[k]) \in Nat
  <2>1. k - 1 \in a .. b => a + b - k + 2 \in 1 .. Len(s)
    BY <1>1
  <2>. QED BY <1>1, <2>1
<1>3. d \in [1 .. Len(s) -> Nat]
  BY <1>2
<1>4. d \in Seq(Nat) /\ Len(d) = Len(s)
  BY <1>1, <1>3, IsASeq
<1>5. reverse_region(s, a, b) = d
  BY DEF reverse_region
<1>. QED BY <1>4, <1>5

\* Before the first unwanted character nothing has to be moved.
LEMMA FilterStart ==
  ASSUME NEW s \in Seq(Nat), NEW C, NEW q \in 0 .. Len(s), \A k \in 1 .. q : s[k] \notin C
  PROVE  /\ Sorted(s, C, s, q, q)
         /\ \A k \in 0 .. q : Rank(Wanted(s, C), k) = k
<1>. DEFINE K == Wanted(s, C)
<1>1. /\ Len(s) \in Nat /\ K \in SUBSET Nat /\ IsFiniteSet(K) /\ 0 \notin K
      /\ \A k \in K : k \in Nat /\ k >= 1 /\ k <= Len(s)
      /\ \A k \in 1 .. Len(s) : k \in K <=> s[k] \notin C
  BY WantedProperties, Zenon
<1>. HIDE DEF K
<1>2. q \in Nat /\ \A k \in 1 .. q : k \in K
  BY <1>1
<1>3. Rank(K, 0) = 0
  <2>1. Rank(K, 0) \in 0 .. 0
    BY <1>1, RankBound
  <2>. QED BY <2>1
<1>4. ASSUME NEW k \in 0 .. q PROVE Rank(K, k) = k
  <2>1. \A x \in 0 + 1 .. k : x \in K
    BY <1>2
  <2>2. k \in Int /\ 0 \in Int /\ 0 <= k
    BY <1>2
  <2>3. Rank(K, k) = Rank(K, 0) + (k - 0)
    BY <1>1, <2>1, <2>2, RankInside
  <2>. QED BY <1>3, <2>2, <2>3
<1>5. \A k \in K : k <= q => s[Rank(K, k)] = s[k]
  BY <1>1, <1>2, <1>4
<1>6. q = Rank(K, q)
  BY <1>2, <1>4
<1>7. \A k \in q + 1 .. q : s[k] \in C
  BY <1>2
<1>8. Sorted(s, C, s, q, q)
  BY <1>5, <1>6, <1>7 DEF Sorted, K
<1>. QED BY <1>4, <1>8 DEF K

\* Without an unwanted character the string is what it was.
LEMMA FilterNothing ==
  ASSUME NEW s \in Seq(Nat), NEW C, Cardinality({k \in DOMAIN s : s[k] \in C}) = 0
  PROVE  Picked(s, s, Wanted(s, C))
<1>. DEFINE K == Wanted(s, C)
            U == {k \in DOMAIN s : s[k] \in C}
<1>1. /\ Len(s) \in Nat /\ K \in SUBSET Nat /\ IsFiniteSet(K) /\ 0 \notin K
      /\ \A k \in K : k \in Nat /\ k >= 1 /\ k <= Len(s)
      /\ Cardinality(K) \in 0 .. Len(s) /\ Cardinality(U) = Len(s) - Cardinality(K)
  BY WantedProperties, Zenon
<1>2. U = {}
  <2>1. DOMAIN s = 1 .. Len(s) /\ IsFiniteSet(1 .. Len(s))
    <3>1. DOMAIN s = 1 .. Len(s) /\ 1 \in Int /\ Len(s) \in Int
      BY <1>1
    <3>. QED BY <3>1, FS_Interval, Zenon
  <2>2. U \in SUBSET (1 .. Len(s))
    BY <2>1
  <2>3. IsFiniteSet(U)
    BY <2>1, <2>2, FS_Subset, Zenon
  <2>. QED BY <2>3, FS_EmptySet
<1>3. \A k \in 1 .. Len(s) : s[k] \notin C
  BY <1>2
<1>4. \A k \in 0 .. Len(s) : Rank(K, k) = k
  <2>1. Len(s) \in 0 .. Len(s)
    BY <1>1
  <2>. QED BY <1>3, <2>1, FilterStart
<1>. HIDE DEF K
<1>5. Cardinality(K) = Len(s)
  <2>1. 0 = Len(s) - Cardinality(K)
    BY <1>1
  <2>. QED BY <1>1, <2>1
<1>6. \A k \in K : s[Rank(K, k)] = s[k]
  BY <1>1, <1>4
<1>7. Picked(s, s, K)
  BY <1>5, <1>6 DEF Picked
<1>. QED BY <1>7 DEF K

\* Where the loop stops next: n .. m is unwanted, m .. e is not.
LEMMA FilterScan ==
  ASSUME NEW s \in Seq(Nat), NEW C, NEW d, NEW q, NEW n, Sorted(s, C, d, q, n),
         NEW m, m = FirstNotIn(d, n, C), NEW e, e = FirstIn(d, m, C) - 1
  PROVE  /\ n \in Nat /\ q \in Nat /\ m \in Nat /\ n <= q /\ q <= m /\ m <= Len(s)
         /\ \A k \in n + 1 .. m : d[k] \in C
         /\ m < Len(s) =>
              /\ e \in Nat /\ m <= e /\ e < Len(s)
              /\ \A k \in m + 1 .. e + 1 : d[k] \notin C
<1>. DEFINE K == Wanted(s, C)
            L == Len(s)
<1>1. L \in Nat /\ K \in SUBSET Nat /\ IsFiniteSet(K) /\ 0 \notin K
  BY WantedProperties, Zenon
<1>2. /\ d \in Seq(Nat) /\ Len(d) = L /\ q \in 0 .. L /\ n = Rank(K, q)
      /\ \A k \in n + 1 .. q : d[k] \in C
      /\ \A k \in q + 1 .. L : d[k] = s[k]
  BY DEF Sorted
<1>. HIDE DEF K, L
<1>3. q \in Nat /\ q <= L
  BY <1>1, <1>2
<1>4. n \in Nat /\ n <= q
  <2>1. Rank(K, q) \in 0 .. q
    BY <1>1, <1>3, RankBound
  <2>. QED BY <1>2, <1>3, <2>1
<1>5. n \in 0 .. Len(d)
  BY <1>1, <1>2, <1>3, <1>4
<1>6. m \in n .. Len(d) /\ (m < Len(d) => d[m + 1] \notin C) /\ \A k \in n + 1 .. m : d[k] \in C
  BY <1>2, <1>5, FirstNotInProperties
<1>7. m \in Nat /\ n <= m /\ m <= L
  BY <1>1, <1>2, <1>4, <1>6
<1>8. q <= m
  <2>. SUFFICES ASSUME m < q PROVE FALSE
    BY <1>3, <1>7
  <2>1. m + 1 \in n + 1 .. q /\ m < L
    BY <1>1, <1>3, <1>4, <1>7
  <2>2. d[m + 1] \in C
    BY <1>2, <2>1
  <2>. QED BY <1>2, <1>6, <2>1, <2>2
<1>9. ASSUME m < L
      PROVE  /\ e \in Nat /\ m <= e /\ e < L
             /\ \A k \in m + 1 .. e + 1 : d[k] \notin C
  <2>. DEFINE f == FirstIn(d, m, C)
  <2>1. m \in 0 .. Len(d)
    BY <1>1, <1>2, <1>7
  <2>2. f \in m .. Len(d) /\ (f < Len(d) => d[f + 1] \in C) /\ \A k \in m + 1 .. f : d[k] \notin C
    BY <1>2, <2>1, FirstInProperties
  <2>3. e = f - 1
    OBVIOUS
  <2>. HIDE DEF f
  <2>4. f \in Nat /\ m <= f /\ f <= L
    BY <1>1, <1>2, <1>7, <2>2
  <2>5. f # m
    BY <1>2, <1>6, <1>9, <2>2
  <2>6. e \in Nat /\ m <= e /\ e < L /\ f = e + 1
    BY <1>1, <1>7, <2>3, <2>4, <2>5
  <2>. QED BY <2>2, <2>6
<1>. QED BY <1>3, <1>4, <1>6, <1>7, <1>8, <1>9 DEF L

\* In d2 the characters m .. e of d stand before the characters n .. m - 1.
Exchanged(d, d2, n, m, e, x) ==
  /\ d2 \in Seq(Nat) /\ Len(d2) = Len(d)
  /\ \A k \in 1 .. n : d2[k] = d[k]
  /\ \A k \in n + 1 .. x : d2[k] = d[m - n + k]
  /\ \A k \in x + 1 .. e + 1 : \E l \in n + 1 .. m : d2[k] = d[l]
  /\ \A k \in e + 2 .. Len(d) : d2[k] = d[k]

LEMMA TwoReversals ==
  ASSUME NEW d \in Seq(Nat), NEW n \in Nat, NEW m \in Nat, NEW e \in Nat,
         n <= m, m <= e, e < Len(d)
  PROVE  Exchanged(d, reverse_region(reverse_region(d, m, e), n, e), n, m, e, n + e - m + 1)
<1>. DEFINE d1 == reverse_region(d, m, e)
            d2 == reverse_region(d1, n, e)
            L == Len(d)
            x == n + e - m + 1
<1>0. d2 = reverse_region(d1, n, e) /\ x = n + e - m + 1 /\ x \in Nat
  OBVIOUS
<1>. HIDE DEF d2, x
<1>1. L \in Nat /\ e < L
  OBVIOUS
<1>2. /\ d1 \in Seq(Nat) /\ Len(d1) = L
      /\ \A k \in 1 .. L : d1[k] = IF k - 1 \in m .. e THEN d[m + e - k + 2] ELSE d[k]
  <2>1. m \in 0 .. Len(d) /\ e \in -1 .. Len(d) - 1
    BY <1>1
  <2>. QED BY <2>1, ReverseProperties, Zenon
<1>. HIDE DEF d1
<1>3. /\ d2 \in Seq(Nat) /\ Len(d2) = L
      /\ \A k \in 1 .. L : d2[k] = IF k - 1 \in n .. e THEN d1[n + e - k + 2] ELSE d1[k]
  <2>1. n \in 0 .. Len(d1) /\ e \in -1 .. Len(d1) - 1
    BY <1>1, <1>2
  <2>2. d2 = reverse_region(d1, n, e)
    BY <1>0
  <2>3. /\ reverse_region(d1, n, e) \in Seq(Nat) /\ Len(reverse_region(d1, n, e)) = Len(d1)
        /\ \A k \in 1 .. Len(d1) :
             reverse_region(d1, n, e)[k] = IF k - 1 \in n .. e THEN d1[n + e - k + 2] ELSE d1[k]
    BY <1>2, <2>1, ReverseProperties, Zenon
  <2>. QED BY <1>2, <2>2, <2>3
<1>. HIDE DEF L
<1>4. ASSUME NEW k \in 1 .. L, k - 1 \notin n .. e PROVE d2[k] = d[k]
  <2>1. k - 1 \notin m .. e
    BY <1>1, <1>4
  <2>. QED BY <1>2, <1>3, <1>4, <2>1
<1>5. ASSUME NEW k \in 1 .. n PROVE d2[k] = d[k]
  <2>1. k \in 1 .. L /\ k - 1 \notin n .. e
    BY <1>1
  <2>. QED BY <1>4, <2>1
<1>6. ASSUME NEW k \in e + 2 .. L PROVE d2[k] = d[k]
  <2>1. k \in 1 .. L /\ k - 1 \notin n .. e
    BY <1>1
  <2>. QED BY <1>4, <2>1
<1>7. ASSUME NEW k \in n + 1 .. x PROVE d2[k] = d[m - n + k]
  <2>. DEFINE l == n + e - k + 2
  <2>1. /\ k \in 1 .. L /\ k - 1 \in n .. e
        /\ l \in 1 .. L /\ l - 1 \in m .. e /\ m + e - l + 2 = m - n + k
    BY <1>0, <1>1
  <2>2. d2[k] = d1[l]
    BY <1>3, <2>1
  <2>. HIDE DEF l
  <2>3. d1[l] = d[m + e - l + 2]
    BY <1>2, <2>1
  <2>. QED BY <2>1, <2>2, <2>3
<1>8. ASSUME NEW k \in x + 1 .. e + 1 PROVE \E l \in n + 1 .. m : d2[k] = d[l]
  <2>. DEFINE l == n + e - k + 2
  <2>1. /\ k \in 1 .. L /\ k - 1 \in n .. e
        /\ l \in 1 .. L /\ l - 1 \notin m .. e /\ l \in n + 1 .. m
    BY <1>0, <1>1
  <2>2. d2[k] = d1[l]
    BY <1>3, <2>1
  <2>. HIDE DEF l
  <2>3. d1[l] = d[l]
    BY <1>2, <2>1
  <2>. QED BY <2>1, <2>2, <2>3
<1>9. Exchanged(d, d2, n, m, e, x)
  BY <1>3, <1>5, <1>6, <1>7, <1>8 DEF Exchanged, L
<1>. QED BY <1>9 DEF d1, d2, x

\* Where the run that is moved ends
LEMMA MovedEnd ==
  ASSUME NEW n \in Nat, NEW m \in Nat, NEW e \in Nat, n <= m, m <= e
  PROVE  /\ n + e - m + 1 \in Nat /\ n + e - m + 1 = n + (e + 1 - m)
         /\ n + 1 <= n + e - m + 1 /\ n + e - m + 1 <= e + 1
OBVIOUS

\* The two reversals move the run of wanted characters in front of the unwanted ones.
LEMMA FilterMoveStep ==
  ASSUME NEW s \in Seq(Nat), NEW C, NEW d, NEW q, NEW n, Sorted(s, C, d, q, n),
         NEW m, m = FirstNotIn(d, n, C), m < Len(d), NEW e, e = FirstIn(d, m, C) - 1
  PROVE  Sorted(s, C, reverse_region(reverse_region(d, m, e), n, e), e + 1, n + e - m + 1)
<1>. DEFINE K == Wanted(s, C)
            L == Len(s)
            d2 == reverse_region(reverse_region(d, m, e), n, e)
            x == n + e - m + 1
<1>1. /\ L \in Nat /\ K \in SUBSET Nat /\ IsFiniteSet(K)
      /\ \A k \in K : k \in Nat /\ k >= 1 /\ k <= L
  BY WantedProperties
<1>2. \A k \in 1 .. L : k \in K <=> s[k] \notin C
  BY WantedProperties
<1>3. d \in Seq(Nat) /\ Len(d) = L /\ n = Rank(K, q)
  BY DEF Sorted
<1>4. \A k \in K : k <= q => d[Rank(K, k)] = s[k]
  BY DEF Sorted
<1>5. \A k \in q + 1 .. L : d[k] = s[k]
  BY DEF Sorted
<1>6. /\ n \in Nat /\ q \in Nat /\ m \in Nat /\ n <= q /\ q <= m /\ m < L
      /\ e \in Nat /\ m <= e /\ e < L
  BY <1>3, FilterScan
<1>7. \A k \in n + 1 .. m : d[k] \in C
  BY FilterScan
<1>8. \A k \in m + 1 .. e + 1 : d[k] \notin C
  BY <1>3, FilterScan
<1>9. x \in Nat /\ x = n + (e + 1 - m) /\ n + 1 <= x /\ x <= e + 1 /\ x = n + e - m + 1
  <2>1. n \in Nat /\ m \in Nat /\ e \in Nat /\ n <= m /\ m <= e
    BY <1>6
  <2>. QED BY <2>1, MovedEnd, Zenon
<1>0. Exchanged(d, d2, n, m, e, x)
  <2>1. n <= m /\ e < Len(d)
    BY <1>3, <1>6
  <2>. QED BY <1>3, <1>6, <2>1, TwoReversals
<1>. HIDE DEF K, L, d2, x
<1>10. d2 \in Seq(Nat) /\ Len(d2) = L /\ \A k \in 1 .. n : d2[k] = d[k]
  BY <1>0, <1>3 DEF Exchanged
<1>11. \A k \in n + 1 .. x : d2[k] = d[m - n + k]
  BY <1>0 DEF Exchanged
<1>12. \A k \in x + 1 .. e + 1 : \E l \in n + 1 .. m : d2[k] = d[l]
  BY <1>0 DEF Exchanged
<1>13. \A k \in e + 2 .. L : d2[k] = d[k]
  BY <1>0, <1>3 DEF Exchanged
<1>14. \A k \in x + 1 .. e + 1 : d2[k] \in C
  BY <1>7, <1>12
\* The ranks of the run
<1>15. Rank(K, m) = n
  <2>1. ASSUME NEW k \in q + 1 .. m PROVE k \notin K
    <3>1. k \in n + 1 .. m /\ k \in q + 1 .. L /\ k \in 1 .. L
      BY <1>1, <1>6
    <3>. QED BY <1>2, <1>5, <1>7, <3>1
  <2>2. q \in Int /\ m \in Int /\ q <= m
    BY <1>6
  <2>. QED BY <1>1, <1>3, <2>1, <2>2, RankOutside
<1>16. ASSUME NEW k \in m + 1 .. e + 1 PROVE k \in K /\ d[k] = s[k]
  <2>1. k \in q + 1 .. L /\ k \in 1 .. L
    BY <1>1, <1>6
  <2>. QED BY <1>2, <1>5, <1>8, <2>1
<1>17. ASSUME NEW k \in m .. e + 1 PROVE Rank(K, k) = n + (k - m)
  <2>1. m \in Int /\ k \in Int /\ m <= k
    BY <1>6
  <2>2. \A y \in m + 1 .. k : y \in m + 1 .. e + 1
    BY <1>6, <2>1
  <2>3. \A y \in m + 1 .. k : y \in K
    BY <1>16, <2>2
  <2>4. Rank(K, k) = Rank(K, m) + (k - m)
    BY <1>1, <2>1, <2>3, RankInside
  <2>. QED BY <1>15, <2>4
<1>18. x = Rank(K, e + 1)
  <2>1. e + 1 \in m .. e + 1
    BY <1>6
  <2>2. Rank(K, e + 1) = n + ((e + 1) - m)
    BY <1>17, <2>1
  <2>. QED BY <1>6, <1>9, <2>2
<1>19. ASSUME NEW k \in K, k <= e + 1 PROVE d2[Rank(K, k)] = s[k]
  <2>0. k \in Nat /\ k >= 1 /\ k <= L
    BY <1>1
  <2>1. CASE k <= q
    <3>1. Rank(K, k) \in 1 .. n
      <4>1. Rank(K, k) \in 1 .. Rank(K, q)
        BY <1>1, <1>6, <2>1, RankOrder
      <4>. QED BY <1>3, <4>1
    <3>. QED BY <1>4, <1>10, <2>1, <3>1
  <2>2. CASE q < k /\ k <= m
    <3>1. k \in n + 1 .. m /\ k \in q + 1 .. L /\ k \in 1 .. L
      BY <1>1, <1>6, <2>0, <2>2
    <3>. QED BY <1>2, <1>5, <1>7, <3>1
  <2>3. CASE m < k
    <3>0. k <= e + 1
      BY <1>19
    <3>1. /\ k \in m .. e + 1 /\ k \in m + 1 .. e + 1 /\ n + (k - m) \in n + 1 .. x
          /\ m - n + (n + (k - m)) = k
      <4>1. k \in m .. e + 1 /\ k \in m + 1 .. e + 1
        BY <1>6, <2>0, <2>3, <3>0
      <4>2. n + (k - m) >= n + 1 /\ n + (k - m) <= n + (e + 1 - m) /\ n + (k - m) \in Int
        BY <1>6, <2>0, <2>3, <3>0
      <4>3. m - n + (n + (k - m)) = k
        BY <1>6, <2>0
      <4>. QED BY <1>9, <4>1, <4>2, <4>3
    <3>2. Rank(K, k) = n + (k - m)
      BY <1>17, <3>1
    <3>3. d2[n + (k - m)] = d[m - n + (n + (k - m))]
      BY <1>11, <3>1
    <3>. QED BY <1>16, <3>1, <3>2, <3>3
  <2>. QED BY <1>6, <2>0, <2>1, <2>2, <2>3
<1>20. ASSUME NEW k \in (e + 1) + 1 .. L PROVE d2[k] = s[k]
  <2>1. k \in e + 2 .. L /\ k \in q + 1 .. L
    BY <1>1, <1>6
  <2>. QED BY <1>5, <1>13, <2>1
<1>21. e + 1 \in 0 .. L
  BY <1>1, <1>6
<1>22. Sorted(s, C, d2, e + 1, x)
  BY <1>10, <1>14, <1>18, <1>19, <1>20, <1>21 DEF Sorted, K, L
<1>. QED BY <1>22 DEF d2, x

\* Behind the last run only unwanted characters are left, and are cut off.
LEMMA FilterDoneStep ==
  ASSUME NEW s \in Seq(Nat), NEW C, NEW d, NEW q, NEW n, Sorted(s, C, d, q, n),
         FirstNotIn(d, n, C) = Len(d), NEW r, r = Len(s) - Cardinality(Wanted(s, C))
  PROVE  /\ SubSeq(d, 1, Len(d) - r) \in Seq(Nat)
         /\ Picked(SubSeq(d, 1, Len(d) - r), s, Wanted(s, C))
<1>. DEFINE K == Wanted(s, C)
            L == Len(s)
            N == Cardinality(K)
            t == SubSeq(d, 1, N)
<1>1. /\ L \in Nat /\ K \in SUBSET Nat /\ IsFiniteSet(K) /\ N \in Nat /\ N <= L
      /\ \A k \in K : k \in Nat /\ k >= 1 /\ k <= L
  <2>1. /\ L \in Nat /\ K \in SUBSET Nat /\ IsFiniteSet(K) /\ N \in 0 .. L
        /\ \A k \in K : k \in Nat /\ k >= 1 /\ k <= L
    BY WantedProperties, Zenon
  <2>. HIDE DEF K, L, N
  <2>. QED BY <2>1
<1>2. \A k \in 1 .. L : k \in K <=> s[k] \notin C
  BY WantedProperties
<1>3. d \in Seq(Nat) /\ Len(d) = L /\ n = Rank(K, q) /\ r = L - N
  BY DEF Sorted
<1>4. \A k \in K : k <= q => d[Rank(K, k)] = s[k]
  BY DEF Sorted
<1>5. \A k \in q + 1 .. L : d[k] = s[k]
  BY DEF Sorted
<1>6. /\ n \in Nat /\ q \in Nat /\ n <= q /\ q <= L
      /\ \A k \in n + 1 .. L : d[k] \in C
  BY <1>3, FilterScan
<1>7. t = SubSeq(d, 1, Len(d) - r)
  <2>. HIDE DEF N
  <2>1. Len(d) - r = N
    BY <1>1, <1>3
  <2>. QED BY <2>1
<1>. HIDE DEF K, L, N
<1>8. ASSUME NEW k \in K PROVE k <= q
  <2>0. k \in Nat /\ k >= 1 /\ k <= L
    BY <1>1
  <2>. SUFFICES ASSUME k > q PROVE FALSE
    BY <1>6, <2>0
  <2>1. k \in n + 1 .. L /\ k \in q + 1 .. L /\ k \in 1 .. L
    BY <1>1, <1>6, <2>0
  <2>. QED BY <1>2, <1>5, <1>6, <2>1
<1>9. n = N
  BY <1>1, <1>3, <1>6, <1>8, RankAll DEF N
<1>10. t \in Seq(Nat) /\ Len(t) = N /\ \A k \in 1 .. N : t[k] = d[k]
  <2>1. \A k \in 1 .. N : d[k] \in Nat
    BY <1>1, <1>3
  <2>2. N \in 0 .. Len(d)
    BY <1>1, <1>3
  <2>. QED BY <1>1, <1>3, <2>1, <2>2, SubSeqProperties
<1>. HIDE DEF t
<1>11. ASSUME NEW k \in K PROVE t[Rank(K, k)] = s[k]
  <2>1. Rank(K, k) \in 1 .. Rank(K, q)
    BY <1>1, <1>6, <1>8, RankOrder
  <2>2. Rank(K, k) \in 1 .. N
    BY <1>3, <1>9, <2>1
  <2>. QED BY <1>4, <1>8, <1>10, <2>2
<1>12. Picked(t, s, K)
  BY <1>10, <1>11 DEF Picked, N
<1>. QED BY <1>7, <1>10, <1>12 DEF K

-----------------------------------------------------------------------------
(* The split *)

LEMMA StartsProperties ==
  ASSUME NEW s \in Seq(Nat), NEW c
  PROVE  /\ Len(s) \in Nat /\ Starts(s, c) \in SUBSET Nat
         /\ IsFiniteSet(Starts(s, c)) /\ 0 \notin Starts(s, c)
         /\ \A k \in Starts(s, c) : k \in Nat /\ k >= 1 /\ k <= Len(s)
         /\ Cardinality(Starts(s, c)) \in Nat
<1>1. Len(s) \in Nat /\ Starts(s, c) \in SUBSET (1 .. Len(s))
  BY DEF Starts
<1>2. IsFiniteSet(Starts(s, c))
  BY <1>1, Positions, Zenon
<1>. QED BY <1>1, <1>2, Positions, FS_CardinalityType, Zenon

\* lts_str_split makes room for as many items as there are stretches.
LEMMA SplitCounts ==
  ASSUME NEW s \in Seq(Nat), s # <<>>, NEW c
  PROVE  SplitCount(s, c) = Cardinality(Starts(s, c))
<1>. DEFINE L == Len(s)
            A == {k \in 1 .. L - 1 : s[k] = c /\ s[k + 1] # c}
            B == Starts(s, c) \ {1}
            f == [k \in A |-> k + 1]
<1>1. L \in Nat /\ L >= 1
  OBVIOUS
<1>2. IsFiniteSet(A)
  <2>1. A \in SUBSET (1 .. L)
    BY <1>1
  <2>. QED BY <1>1, <2>1, Positions, Zenon
<1>3. \A k \in A : k + 1 \in B
  BY <1>1 DEF Starts
<1>4. \A k \in B : k - 1 \in A /\ (k - 1) + 1 = k
  <2>. SUFFICES ASSUME NEW k \in B PROVE k - 1 \in A /\ (k - 1) + 1 = k
    OBVIOUS
  <2>1. k \in 1 .. L /\ k # 1 /\ s[k] # c /\ s[k - 1] = c
    BY DEF Starts
  <2>2. k - 1 \in 1 .. L - 1 /\ (k - 1) + 1 = k
    BY <1>1, <2>1
  <2>. QED BY <2>1, <2>2
<1>5. \A k \in A : k \in Int
  OBVIOUS
<1>. HIDE DEF A, B
<1>6. f \in Bijection(A, B)
  <2>1. f \in [A -> B]
    BY <1>3
  <2>2. \A x, y \in A : f[x] = f[y] => x = y
    BY <1>5
  <2>3. \A y \in B : \E x \in A : f[x] = y
    BY <1>4
  <2>. QED BY <2>1, <2>2, <2>3 DEF Bijection, Injection, Surjection, IsInjective
<1>7. Cardinality(B) = Cardinality(A)
  BY <1>2, <1>6, FS_Bijection DEF ExistsBijection
<1>8. Cardinality(B) =
        IF 1 \in Starts(s, c) THEN Cardinality(Starts(s, c)) - 1 ELSE Cardinality(Starts(s, c))
  BY StartsProperties, FS_RemoveElement DEF B
<1>9. 1 \in Starts(s, c) <=> s[1] # c
  BY <1>1 DEF Starts
<1>10. SplitCount(s, c) = (IF s[1] = c THEN 0 ELSE 1) + Cardinality(A)
  BY DEF SplitCount, A
<1>11. Cardinality(Starts(s, c)) \in Nat
  BY StartsProperties
<1>. DEFINE a == Cardinality(A)
            n == Cardinality(Starts(s, c))
            r == SplitCount(s, c)
<1>12. n \in Nat /\ a = IF s[1] # c THEN n - 1 ELSE n
  BY <1>7, <1>8, <1>9, <1>11
<1>13. r = (IF s[1] = c THEN 0 ELSE 1) + a
  BY <1>10
<1>. HIDE DEF a, n, r
<1>14. r = n
  BY <1>12, <1>13
<1>. QED BY <1>14 DEF n, r

LEMMA SplitStart ==
  ASSUME NEW s \in Seq(Nat), NEW c
  PROVE  Stored(s, c, <<>>, 0)
<1>. DEFINE S == Starts(s, c)
<1>1. /\ Len(s) \in Nat /\ S \in SUBSET Nat /\ IsFiniteSet(S) /\ 0 \notin S
      /\ \A k \in S : k \in Nat /\ k >= 1
  BY StartsProperties, Zenon
<1>2. <<>> \in Seq(Nat \X Nat) /\ Len(<<>>) = 0
  OBVIOUS
<1>. HIDE DEF S
<1>3. Rank(S, 0) = 0
  <2>1. Rank(S, 0) \in 0 .. 0
    BY <1>1, RankBound
  <2>. QED BY <2>1
<1>4. \A k \in S : ~(k <= 0)
  BY <1>1
<1>5. 0 \in 0 .. Len(s) + 1
  BY <1>1
<1>. QED BY <1>2, <1>3, <1>4, <1>5 DEF Stored, S

\* No stretch begins with a separator.
LEMMA SplitSkipStep ==
  ASSUME NEW s \in Seq(Nat), NEW c, NEW its, NEW q, Stored(s, c, its, q),
         q < Len(s), s[q + 1] = c
  PROVE  Stored(s, c, its, q + 1)
<1>. DEFINE S == Starts(s, c)
<1>1. /\ Len(s) \in Nat /\ S \in SUBSET Nat /\ IsFiniteSet(S)
      /\ \A k \in S : k \in Nat /\ k >= 1 /\ k <= Len(s)
  BY StartsProperties, Zenon
<1>2. /\ q \in 0 .. Len(s) + 1 /\ its \in Seq(Nat \X Nat) /\ Len(its) = Rank(S, q)
      /\ \A k \in S : k <= q => its[Rank(S, k)] = Item(s, c, k)
  BY DEF Stored
<1>3. q \in Nat /\ q + 1 \in 0 .. Len(s) + 1
  BY <1>1, <1>2
<1>4. q + 1 \notin S
  BY DEF Starts
<1>. HIDE DEF S
<1>5. Rank(S, q + 1) = Rank(S, q)
  <2>1. \A k \in q + 1 .. q + 1 : k \notin S
    BY <1>3, <1>4
  <2>2. q \in Int /\ q + 1 \in Int /\ q <= q + 1
    BY <1>3
  <2>. QED BY <1>1, <2>1, <2>2, RankOutside
<1>6. \A k \in S : k <= q + 1 => k <= q
  BY <1>1, <1>3, <1>4
<1>. QED BY <1>2, <1>3, <1>5, <1>6 DEF Stored, S

\* A stretch is stored up to the separator that ends it, or with the byte behind the
\* string.
LEMMA SplitItemStep ==
  ASSUME NEW s \in Seq(Nat), NEW c, NEW its, NEW q, Stored(s, c, its, q),
         q < Len(s), s[q + 1] # c, Behind \in Nat,
         NEW f, f = FirstIn(Append(s, Behind), q, {c})
  PROVE  Stored(s, c, Append(its, <<q, f - q>>), f) /\ f \in Nat
<1>. DEFINE S == Starts(s, c)
            L == Len(s)
            t == Append(s, Behind)
            itsn == Append(its, <<q, f - q>>)
<1>1. /\ L \in Nat /\ S \in SUBSET Nat /\ IsFiniteSet(S)
      /\ \A k \in S : k \in Nat /\ k >= 1 /\ k <= L
  BY StartsProperties, Zenon
<1>2. /\ q \in 0 .. L + 1 /\ its \in Seq(Nat \X Nat) /\ Len(its) = Rank(S, q)
      /\ q = 0 \/ q >= L \/ s[q] = c \/ s[q + 1] = c
  BY DEF Stored
<1>3. \A k \in S : k <= q => its[Rank(S, k)] = Item(s, c, k)
  BY DEF Stored
<1>4. q \in Nat /\ q < L
  BY <1>1, <1>2
<1>5. t \in Seq(Nat) /\ Len(t) = L + 1 /\ \A k \in 1 .. L : t[k] = s[k]
  BY AppendProperties
<1>. HIDE DEF t
<1>6. f \in q .. Len(t) /\ (f < Len(t) => t[f + 1] \in {c}) /\ \A k \in q + 1 .. f : t[k] \notin {c}
  <2>1. q \in 0 .. Len(t)
    BY <1>1, <1>4, <1>5
  <2>2. f = FirstIn(t, q, {c})
    BY DEF t
  <2>. DEFINE g == FirstIn(t, q, {c})
  <2>3. g \in q .. Len(t) /\ (g < Len(t) => t[g + 1] \in {c}) /\ \A k \in q + 1 .. g : t[k] \notin {c}
    BY <1>5, <2>1, FirstInProperties, Zenon
  <2>. HIDE DEF g
  <2>4. f = g
    BY <2>2 DEF g
  <2>. QED BY <2>3, <2>4
<1>7. f \in Nat /\ q <= f /\ f <= L + 1
  BY <1>1, <1>4, <1>5, <1>6
<1>8. f # q
  <2>. SUFFICES ASSUME f = q PROVE FALSE
    OBVIOUS
  <2>1. f < Len(t) /\ q + 1 \in 1 .. L
    BY <1>1, <1>4, <1>5
  <2>. QED BY <1>5, <1>6, <2>1
<1>9. q + 1 \in S
  <2>1. q + 1 \in 1 .. L /\ (q + 1) - 1 = q
    BY <1>1, <1>4
  <2>2. q = 0 \/ s[q] = c
    BY <1>1, <1>2, <1>4
  <2>. QED BY <2>1, <2>2 DEF Starts
<1>10. ASSUME NEW k \in q + 2 .. f PROVE k \notin S
  <2>. SUFFICES ASSUME k \in S PROVE FALSE
    OBVIOUS
  <2>1. k \in 1 .. L /\ (k = 1 \/ s[k - 1] = c)
    BY DEF Starts
  <2>2. k - 1 \in q + 1 .. f /\ k - 1 \in 1 .. L /\ k # 1
    BY <1>1, <1>4, <1>7, <2>1
  <2>. QED BY <1>5, <1>6, <2>1, <2>2
<1>11. f = 0 \/ f >= L \/ s[f] = c \/ s[f + 1] = c
  <2>. SUFFICES ASSUME f < L PROVE s[f + 1] = c
    BY <1>1, <1>7
  <2>1. f < Len(t) /\ f + 1 \in 1 .. L
    BY <1>1, <1>5, <1>7
  <2>. QED BY <1>5, <1>6, <2>1
<1>12. Item(s, c, q + 1) = <<q, f - q>>
  <2>1. (q + 1) - 1 = q
    BY <1>4
  <2>. QED BY <2>1 DEF Item
<1>. HIDE DEF S, L
<1>13. Rank(S, q + 1) = Rank(S, q) + 1 /\ Rank(S, q) \in Nat
  <2>1. \A k \in q + 1 .. q + 1 : k \in S
    BY <1>4, <1>9
  <2>2. q \in Int /\ q + 1 \in Int /\ q <= q + 1 /\ (q + 1) - q = 1
    BY <1>4
  <2>. QED BY <1>1, <2>1, <2>2, RankInside, RankType
<1>14. Rank(S, f) = Rank(S, q) + 1
  <2>1. q + 1 \in Int /\ f \in Int /\ q + 1 <= f /\ (q + 1) + 1 = q + 2
    BY <1>4, <1>7, <1>8
  <2>2. \A k \in (q + 1) + 1 .. f : k \notin S
    BY <1>10, <2>1
  <2>3. Rank(S, f) = Rank(S, q + 1)
    BY <1>1, <2>1, <2>2, RankOutside
  <2>. QED BY <1>13, <2>3
<1>15. <<q, f - q>> \in Nat \X Nat
  BY <1>4, <1>7
<1>16. /\ itsn \in Seq(Nat \X Nat) /\ Len(itsn) = Rank(S, q) + 1
       /\ itsn[Rank(S, q) + 1] = <<q, f - q>>
       /\ \A k \in 1 .. Rank(S, q) : itsn[k] = its[k]
  BY <1>2, <1>13, <1>15, AppendProperties
<1>. HIDE DEF itsn
<1>17. ASSUME NEW k \in S, k <= f PROVE itsn[Rank(S, k)] = Item(s, c, k)
  <2>0. k \in Nat
    BY <1>1
  <2>1. CASE k <= q
    <3>1. Rank(S, k) \in 1 .. Rank(S, q)
      BY <1>1, <1>4, <2>1, RankOrder
    <3>. QED BY <1>3, <1>16, <2>1, <3>1
  <2>2. CASE k = q + 1
    BY <1>12, <1>13, <1>16, <2>2
  <2>3. CASE k > q + 1
    <3>1. k \in q + 2 .. f
      BY <1>4, <1>7, <1>17, <2>0, <2>3
    <3>. QED BY <1>10, <3>1
  <2>. QED BY <1>4, <2>0, <2>1, <2>2, <2>3
<1>18. f \in 0 .. L + 1
  BY <1>1, <1>7
<1>19. Len(itsn) = Rank(S, f)
  BY <1>14, <1>16
<1>20. Stored(s, c, itsn, f)
  BY <1>11, <1>16, <1>17, <1>18, <1>19 DEF Stored, S, L
<1>. QED BY <1>7, <1>20 DEF itsn

\* Never more items are stored than there is room for, and in the end as many.
LEMMA SplitRoom ==
  ASSUME NEW s \in Seq(Nat), NEW c, NEW its, NEW q, Stored(s, c, its, q)
  PROVE  /\ Len(its) <= Cardinality(Starts(s, c))
         /\ q >= Len(s) =>
              /\ Len(its) = Cardinality(Starts(s, c))
              /\ \A k \in Starts(s, c) : its[Rank(Starts(s, c), k)] = Item(s, c, k)
<1>. DEFINE S == Starts(s, c)
<1>1. /\ Len(s) \in Nat /\ S \in SUBSET Nat /\ IsFiniteSet(S)
      /\ \A k \in S : k \in Nat /\ k >= 1 /\ k <= Len(s)
  BY StartsProperties, Zenon
<1>2. /\ q \in 0 .. Len(s) + 1 /\ Len(its) = Rank(S, q)
      /\ \A k \in S : k <= q => its[Rank(S, k)] = Item(s, c, k)
  BY DEF Stored
<1>. HIDE DEF S
<1>3. q \in Int
  BY <1>1, <1>2
<1>4. Rank(S, q) <= Cardinality(S)
  BY <1>1, <1>3, RankType
<1>5. ASSUME q >= Len(s)
      PROVE  Len(its) = Cardinality(S) /\ \A k \in S : its[Rank(S, k)] = Item(s, c, k)
  <2>1. \A k \in S : k <= q
    BY <1>1, <1>3, <1>5
  <2>. QED BY <1>1, <1>2, <1>3, <2>1, RankAll
<1>. QED BY <1>2, <1>4, <1>5 DEF S

-----------------------------------------------------------------------------
(* The removal of comments *)

LEMMA PlainProperties ==
  ASSUME NEW s \in Seq(Nat)
  PROVE  /\ Len(s) \in Nat /\ Plain(s) \in SUBSET Nat
         /\ IsFiniteSet(Plain(s)) /\ 0 \notin Plain(s)
         /\ \A k \in Plain(s) : k \in Nat /\ k >= 1 /\ k <= Len(s)
         /\ Cardinality(Plain(s)) \in Nat
         /\ \A k \in 1 .. Len(s) : k \in Plain(s) <=> ~InComment(s, k)
<1>1. /\ Len(s) \in Nat /\ Plain(s) \in SUBSET (1 .. Len(s))
      /\ \A k \in 1 .. Len(s) : k \in Plain(s) <=> ~InComment(s, k)
  BY DEF Plain
<1>2. IsFiniteSet(Plain(s))
  BY <1>1, Positions, Zenon
<1>. QED BY <1>1, <1>2, Positions, FS_CardinalityType, Zenon

\* What a character does to a comment
LEMMA CommentSteps ==
  ASSUME NEW s \in Seq(Nat), NEW k \in Nat, k + 1 <= Len(s)
  PROVE  /\ s[k + 1] = LF => ~InComment(s, k + 1)
         /\ s[k + 1] # LF /\ InComment(s, k) => InComment(s, k + 1)
         /\ s[k + 1] = HASH => InComment(s, k + 1)
         /\ s[k + 1] # HASH /\ ~InComment(s, k) => ~InComment(s, k + 1)
<1>1. ASSUME s[k + 1] = LF, InComment(s, k + 1) PROVE FALSE
  <2>1. PICK h \in 1 .. k + 1 : \A m \in h .. k + 1 : s[m] # LF
    BY <1>1 DEF InComment
  <2>2. k + 1 \in h .. k + 1
    OBVIOUS
  <2>. QED BY <1>1, <2>1, <2>2
<1>2. ASSUME s[k + 1] # LF, InComment(s, k) PROVE InComment(s, k + 1)
  <2>1. PICK h \in 1 .. k : s[h] = HASH /\ \A m \in h .. k : s[m] # LF
    BY <1>2 DEF InComment
  <2>2. h \in 1 .. k + 1 /\ \A m \in h .. k + 1 : m \in h .. k \/ m = k + 1
    OBVIOUS
  <2>3. \A m \in h .. k + 1 : s[m] # LF
    BY <1>2, <2>1, <2>2
  <2>. QED BY <2>1, <2>2, <2>3 DEF InComment
<1>3. ASSUME s[k + 1] = HASH PROVE InComment(s, k + 1)
  <2>1. k + 1 \in 1 .. k + 1 /\ \A m \in k + 1 .. k + 1 : m = k + 1
    OBVIOUS
  <2>2. \A m \in k + 1 .. k + 1 : s[m] # LF
    BY <1>3, <2>1 DEF HASH, LF
  <2>. QED BY <1>3, <2>1, <2>2 DEF InComment
<1>4. ASSUME s[k + 1] # HASH, InComment(s, k + 1) PROVE InComment(s, k)
  <2>1. PICK h \in 1 .. k + 1 : s[h] = HASH /\ \A m \in h .. k + 1 : s[m] # LF
    BY <1>4 DEF InComment
  <2>2. h # k + 1
    BY <1>4, <2>1
  <2>3. h \in 1 .. k /\ \A m \in h .. k : m \in h .. k + 1
    BY <2>2
  <2>4. \A m \in h .. k : s[m] # LF
    BY <2>1, <2>3
  <2>. QED BY <2>1, <2>3, <2>4 DEF InComment
<1>. QED BY <1>1, <1>2, <1>3, <1>4

\* A comment goes on to the next line feed.
LEMMA CommentStretch ==
  ASSUME NEW s \in Seq(Nat), NEW a \in Nat, NEW b \in Nat, a <= b, b <= Len(s),
         a >= 1, s[a] = HASH, \A k \in a + 1 .. b : s[k] # LF
  PROVE  \A k \in a .. b : InComment(s, k)
<1>. SUFFICES ASSUME NEW k \in a .. b PROVE InComment(s, k)
  OBVIOUS
<1>1. a \in 1 .. k /\ \A m \in a .. k : m = a \/ m \in a + 1 .. b
  OBVIOUS
<1>2. \A m \in a .. k : s[m] # LF
  BY <1>1 DEF HASH, LF
<1>. QED BY <1>1, <1>2 DEF InComment

LEMMA StripStart ==
  ASSUME NEW s \in Seq(Nat)
  PROVE  Stripped(s, s, 0)
<1>. DEFINE K == Plain(s)
<1>1. /\ Len(s) \in Nat /\ K \in SUBSET Nat /\ IsFiniteSet(K) /\ 0 \notin K
      /\ \A k \in K : k \in Nat /\ k >= 1
  BY PlainProperties, Zenon
<1>. HIDE DEF K
<1>2. Rank(K, 0) = 0
  <2>1. Rank(K, 0) \in 0 .. 0
    BY <1>1, RankBound
  <2>. QED BY <2>1
<1>3. 0 + Len(s) - Len(s) = 0 /\ 0 <= Len(s) /\ 0 \in 0 .. Len(s) + 1
  BY <1>1
<1>4. \A k \in K : ~(k <= 0)
  BY <1>1
<1>5. \A k \in 0 + 1 .. Len(s) : k + Len(s) - Len(s) = k
  BY <1>1
<1>. QED BY <1>1, <1>2, <1>3, <1>4, <1>5 DEF Stripped, K

\* A character outside comments is passed.
LEMMA StripNextStep ==
  ASSUME NEW s \in Seq(Nat), NEW d, NEW n, Stripped(s, d, n), n < Len(d), d[n + 1] # HASH
  PROVE  Stripped(s, d, n + 1)
<1>. DEFINE K == Plain(s)
            L == Len(s)
            D == Len(d)
            q == n + L - D
<1>1. /\ L \in Nat /\ K \in SUBSET Nat /\ IsFiniteSet(K)
      /\ \A k \in K : k \in Nat /\ k >= 1 /\ k <= L
  BY PlainProperties, Zenon
<1>2. \A k \in 1 .. L : k \in K <=> ~InComment(s, k)
  BY PlainProperties, Zenon
<1>3. /\ d \in Seq(Nat) /\ D <= L /\ n \in 0 .. D + 1
      /\ IF n <= D THEN Rank(K, q) = n ELSE Cardinality(K) = D
      /\ \A k \in K : k <= q => d[Rank(K, k)] = s[k]
      /\ \A k \in n + 1 .. D : d[k] = s[k + L - D]
      /\ q \in K \/ q = 0 \/ q > L
  BY DEF Stripped
<1>4. /\ D \in Nat /\ n \in Nat /\ n < D /\ q \in Nat /\ q < L /\ q + 1 = (n + 1) + L - D
      /\ q + 1 \in 1 .. L /\ n + 1 \in n + 1 .. D
  BY <1>1, <1>3
<1>5. s[q + 1] = d[n + 1] /\ Rank(K, q) = n
  BY <1>3, <1>4
<1>. HIDE DEF K, L, D, q
<1>6. ~InComment(s, q)
  <2>1. CASE q = 0
    BY <2>1 DEF InComment
  <2>2. CASE q # 0
    <3>1. q \in 1 .. L /\ q \in K
      BY <1>1, <1>3, <1>4, <2>2
    <3>. QED BY <1>2, <3>1
  <2>. QED BY <2>1, <2>2
<1>7. q + 1 \in K
  <2>1. q + 1 <= Len(s)
    BY <1>1, <1>4 DEF L
  <2>2. ~InComment(s, q + 1)
    BY <1>4, <1>5, <1>6, <2>1, CommentSteps
  <2>. QED BY <1>2, <1>4, <2>2
<1>8. Rank(K, q + 1) = n + 1
  <2>1. \A k \in q + 1 .. q + 1 : k \in K
    BY <1>4, <1>7
  <2>2. q \in Int /\ q + 1 \in Int /\ q <= q + 1 /\ (q + 1) - q = 1
    BY <1>4
  <2>3. Rank(K, q + 1) = Rank(K, q) + ((q + 1) - q)
    BY <1>1, <2>1, <2>2, RankInside
  <2>. QED BY <1>5, <2>2, <2>3
<1>9. ASSUME NEW k \in K, k <= q + 1 PROVE d[Rank(K, k)] = s[k]
  <2>1. k \in Nat
    BY <1>1
  <2>2. CASE k = q + 1
    BY <1>5, <1>8, <2>2
  <2>3. CASE k # q + 1
    <3>1. k <= q
      BY <1>4, <1>9, <2>1, <2>3
    <3>. QED BY <1>3, <3>1
  <2>. QED BY <2>2, <2>3
<1>10. \A k \in (n + 1) + 1 .. D : k \in n + 1 .. D
  BY <1>4
<1>11. n + 1 <= D /\ n + 1 \in 0 .. D + 1
  BY <1>4
<1>12. \A k \in (n + 1) + 1 .. D : d[k] = s[k + L - D]
  BY <1>3, <1>10
<1>13. /\ d \in Seq(Nat) /\ D <= L
       /\ IF n + 1 <= D THEN Rank(K, (n + 1) + L - D) = n + 1 ELSE Cardinality(K) = D
       /\ \A k \in K : k <= (n + 1) + L - D => d[Rank(K, k)] = s[k]
       /\ (n + 1) + L - D \in K
  BY <1>3, <1>4, <1>7, <1>8, <1>9, <1>11
<1>. QED BY <1>11, <1>12, <1>13 DEF Stripped, K, L, D

\* h is d without the characters n .. f - 1.
Hollowed(d, h, n, f) ==
  /\ h \in Seq(Nat) /\ Len(h) = Len(d) - (f - n)
  /\ \A k \in 1 .. n : h[k] = d[k]
  /\ \A k \in n + 1 .. Len(d) - (f - n) : h[k] = d[k + (f - n)]

LEMMA HollowProperties ==
  ASSUME NEW d \in Seq(Nat), NEW n \in Nat, NEW f \in Nat, n <= f, f <= Len(d)
  PROVE  Hollowed(d, lts_str_hollow(d, n, f - n), n, f)
<1>. DEFINE D == Len(d)
            a == SubSeq(d, 1, n)
            b == SubSeq(d, f + 1, D)
            h == a \o b
<1>1. D \in Nat /\ n <= D /\ f <= D /\ \A k \in 1 .. D : d[k] \in Nat
  OBVIOUS
<1>2. lts_str_hollow(d, n, f - n) = h
  <2>1. n + (f - n) + 1 = f + 1
    BY <1>1
  <2>. QED BY <2>1 DEF lts_str_hollow
<1>3. a \in Seq(Nat) /\ Len(a) = n /\ \A k \in 1 .. n : a[k] = d[k]
  <2>1. n \in 0 .. Len(d) /\ \A k \in 1 .. n : d[k] \in Nat
    BY <1>1
  <2>. QED BY <1>1, <2>1, SubSeqProperties
<1>4. b \in Seq(Nat) /\ Len(b) = D - f /\ \A k \in 1 .. D - f : b[k] = d[f + k]
  <2>1. f + 1 \in 1 .. D + 1 /\ D \in (f + 1) - 1 .. Len(d) /\ \A k \in f + 1 .. D : d[k] \in Nat
    BY <1>1
  <2>2. b \in Seq(Nat) /\ Len(b) = D - f
    BY <1>1, <2>1, SubSeqProperties
  <2>3. ASSUME NEW k \in 1 .. D - f PROVE b[k] = d[f + k]
    <3>1. k \in 1 .. D - (f + 1) + 1 /\ (f + 1) + k - 1 = f + k
      BY <1>1
    <3>2. b[k] = d[(f + 1) + k - 1]
      BY <1>1, <2>1, <3>1, SubSeqProperties
    <3>. QED BY <3>1, <3>2
  <2>. QED BY <2>2, <2>3
<1>. HIDE DEF a, b
<1>5. /\ h \in Seq(Nat) /\ Len(h) = n + (D - f)
      /\ \A k \in 1 .. n + (D - f) : h[k] = IF k <= n THEN a[k] ELSE b[k - n]
  <2>1. /\ h \in Seq(Nat) /\ Len(h) = Len(a) + Len(b)
        /\ \A k \in 1 .. Len(a) + Len(b) : h[k] = IF k <= Len(a) THEN a[k] ELSE b[k - Len(a)]
    BY <1>3, <1>4, ConcatProperties, Zenon
  <2>. HIDE DEF h, D
  <2>2. Len(a) = n /\ Len(b) = D - f
    BY <1>3, <1>4, Zenon
  <2>. QED BY <2>1, <2>2
<1>. HIDE DEF h, D
<1>6. n + (D - f) = D - (f - n)
  BY <1>1
<1>7. ASSUME NEW k \in 1 .. n PROVE h[k] = d[k]
  <2>1. k \in 1 .. n + (D - f) /\ k <= n
    BY <1>1
  <2>. QED BY <1>3, <1>5, <2>1
<1>8. ASSUME NEW k \in n + 1 .. D - (f - n) PROVE h[k] = d[k + (f - n)]
  <2>1. k \in 1 .. n + (D - f) /\ ~(k <= n) /\ k - n \in 1 .. D - f /\ f + (k - n) = k + (f - n)
    BY <1>1
  <2>2. h[k] = b[k - n]
    BY <1>5, <2>1
  <2>3. b[k - n] = d[f + (k - n)]
    BY <1>4, <2>1
  <2>. QED BY <2>1, <2>2, <2>3
<1>9. Hollowed(d, h, n, f)
  BY <1>5, <1>6, <1>7, <1>8 DEF Hollowed, D
<1>. QED BY <1>2, <1>9

\* What becomes of lengths and places when the characters n + 1 .. f of d are cut out,
\* which are those up to e of the l that were given
Cut(n, l, d, f, d2, e) ==
  /\ d2 \in Nat /\ d2 <= d /\ d2 <= l /\ n <= d2 /\ n + 1 \in 0 .. d2 + 1
  /\ (n + 1) + l - d2 = e + 1
  /\ f = d => e = l /\ d2 = n /\ ~(n + 1 <= d2)
  /\ f # d => /\ f < d /\ e < l /\ n + 1 <= d2 /\ n + 1 \in n + 1 .. d2 /\ e + 1 \in 1 .. l
              /\ f + 1 \in n + 1 .. d /\ (f + 1) + l - d = e + 1
  /\ \A k \in n + 1 .. d2 : k + (f - n) \in n + 1 .. d /\ (k + (f - n)) + l - d = k + l - d2

LEMMA CutProperties ==
  ASSUME NEW n \in Nat, NEW l \in Nat, NEW d \in Nat, NEW f \in Nat,
         n + 1 <= f, f <= d, d <= l
  PROVE  Cut(n, l, d, f, d - (f - n), f + l - d)
<1>. DEFINE d2 == d - (f - n)
            e == f + l - d
<1>1. d2 \in Nat /\ d2 <= d /\ d2 <= l /\ n <= d2 /\ n + 1 \in 0 .. d2 + 1
  OBVIOUS
<1>2. (n + 1) + l - d2 = e + 1
  OBVIOUS
<1>3. f = d => e = l /\ d2 = n /\ ~(n + 1 <= d2)
  OBVIOUS
<1>4. f # d => /\ f < d /\ e < l /\ n + 1 <= d2 /\ n + 1 \in n + 1 .. d2 /\ e + 1 \in 1 .. l
               /\ f + 1 \in n + 1 .. d /\ (f + 1) + l - d = e + 1
  OBVIOUS
<1>5. \A k \in n + 1 .. d2 : k + (f - n) \in n + 1 .. d /\ (k + (f - n)) + l - d = k + l - d2
  OBVIOUS
<1>. QED BY <1>1, <1>2, <1>3, <1>4, <1>5 DEF Cut

\* A comment is cut out, and the line feed behind it passed.
LEMMA StripCommentStep ==
  ASSUME NEW s \in Seq(Nat), NEW d, NEW n, Stripped(s, d, n), n < Len(d), d[n + 1] = HASH,
         NEW f, f = FirstIn(d, n + 1, {LF}), NEW d2, d2 = lts_str_hollow(d, n, f - n)
  PROVE  Stripped(s, d2, n + 1)
<1>. DEFINE K == Plain(s)
            L == Len(s)
            D == Len(d)
            q == n + L - D
            e == f + L - D
<1>1. /\ L \in Nat /\ K \in SUBSET Nat /\ IsFiniteSet(K)
      /\ \A k \in K : k \in Nat /\ k >= 1 /\ k <= L
  BY PlainProperties, Zenon
<1>2. \A k \in 1 .. L : k \in K <=> ~InComment(s, k)
  BY PlainProperties, Zenon
<1>3. /\ d \in Seq(Nat) /\ D <= L /\ n \in 0 .. D + 1
      /\ IF n <= D THEN Rank(K, q) = n ELSE Cardinality(K) = D
  BY DEF Stripped
<1>4. \A k \in K : k <= q => d[Rank(K, k)] = s[k]
  BY DEF Stripped
<1>5. \A k \in n + 1 .. D : d[k] = s[k + L - D]
  BY DEF Stripped
<1>6. D \in Nat /\ n \in Nat /\ n < D /\ q \in Nat /\ q < L /\ q = n + L - D /\ D <= L
  BY <1>1, <1>3
<1>7. Rank(K, q) = n
  BY <1>3, <1>6
<1>8. f \in n + 1 .. D /\ (f < D => d[f + 1] \in {LF}) /\ \A k \in (n + 1) + 1 .. f : d[k] \notin {LF}
  <2>. DEFINE g == FirstIn(d, n + 1, {LF})
  <2>1. n + 1 \in 0 .. Len(d)
    BY <1>6
  <2>2. /\ g \in n + 1 .. Len(d) /\ (g < Len(d) => d[g + 1] \in {LF})
        /\ \A k \in (n + 1) + 1 .. g : d[k] \notin {LF}
    BY <1>3, <2>1, FirstInProperties, Zenon
  <2>3. f = g
    OBVIOUS
  <2>. HIDE DEF g
  <2>. QED BY <2>2, <2>3
<1>9. f \in Nat /\ n + 1 <= f /\ f <= D /\ e \in Nat /\ q + 1 <= e /\ e <= L /\ e = f + L - D
  BY <1>1, <1>6, <1>8
<1>10. /\ d2 \in Seq(Nat) /\ Len(d2) = D - (f - n) /\ \A k \in 1 .. n : d2[k] = d[k]
       /\ \A k \in n + 1 .. D - (f - n) : d2[k] = d[k + (f - n)]
  <2>1. n <= f /\ f <= Len(d)
    BY <1>6, <1>9
  <2>2. Hollowed(d, d2, n, f)
    BY <1>3, <1>6, <1>9, <2>1, HollowProperties
  <2>. QED BY <2>2 DEF Hollowed
<1>11. L \in Nat
  BY <1>1
<1>. HIDE DEF K, L, D, q, e
\* The comment in the string that was given
<1>12. \A k \in q + 1 .. e : InComment(s, k)
  <2>1. s[q + 1] = HASH
    <3>1. n + 1 \in n + 1 .. D /\ (n + 1) + L - D = q + 1
      BY <1>1, <1>6
    <3>2. d[n + 1] = s[(n + 1) + L - D]
      BY <1>5, <3>1
    <3>. QED BY <3>1, <3>2
  <2>2. ASSUME NEW k \in (q + 1) + 1 .. e PROVE s[k] # LF
    <3>. DEFINE l == k - L + D
    <3>1. l \in (n + 1) + 1 .. f /\ l \in n + 1 .. D /\ l + L - D = k
      BY <1>1, <1>6, <1>9
    <3>. HIDE DEF l
    <3>2. d[l] = s[l + L - D] /\ d[l] # LF
      BY <1>5, <1>8, <3>1
    <3>. QED BY <3>1, <3>2
  <2>3. q + 1 \in Nat /\ q + 1 >= 1 /\ e <= Len(s)
    BY <1>6, <1>9 DEF L
  <2>. QED BY <1>9, <2>1, <2>2, <2>3, CommentStretch
<1>13. Rank(K, e) = n
  <2>1. ASSUME NEW k \in q + 1 .. e PROVE k \notin K
    <3>1. k \in 1 .. L
      BY <1>1, <1>6, <1>9
    <3>. QED BY <1>2, <1>12, <3>1
  <2>2. q \in Int /\ e \in Int /\ q <= e
    BY <1>6, <1>9
  <2>3. Rank(K, e) = Rank(K, q)
    BY <1>1, <2>1, <2>2, RankOutside
  <2>. QED BY <1>7, <2>3
<1>14. ASSUME NEW k \in K, k <= e PROVE d2[Rank(K, k)] = s[k]
  <2>1. k \in Nat /\ k >= 1 /\ k <= L
    BY <1>1
  <2>2. k <= q
    <3>. SUFFICES ASSUME k > q PROVE FALSE
      BY <1>6, <2>1
    <3>1. k \in q + 1 .. e /\ k \in 1 .. L
      BY <1>1, <1>6, <1>9, <1>14, <2>1
    <3>. QED BY <1>2, <1>12, <3>1
  <2>3. Rank(K, k) \in 1 .. Rank(K, q)
    BY <1>1, <1>6, <2>2, RankOrder
  <2>4. Rank(K, k) \in 1 .. n
    BY <1>7, <2>3
  <2>. QED BY <1>4, <1>10, <2>2, <2>4
<1>. DEFINE D2 == D - (f - n)
<1>cut. Cut(n, L, D, f, D2, e)
  <2>1. n \in Nat /\ L \in Nat /\ D \in Nat /\ f \in Nat /\ n + 1 <= f /\ f <= D /\ D <= L
    BY <1>6, <1>9, <1>11, Zenon
  <2>2. Cut(n, L, D, f, D - (f - n), f + L - D)
    BY <2>1, CutProperties, Zenon
  <2>3. e = f + L - D
    BY <1>9, Zenon
  <2>. QED BY <2>2, <2>3, Zenon
<1>. HIDE DEF D2
<1>15. D2 \in Nat /\ D2 <= L /\ n <= D2 /\ n + 1 \in 0 .. D2 + 1 /\ (n + 1) + L - D2 = e + 1
  BY <1>cut, Zenon DEF Cut
<1>16. ASSUME NEW k \in n + 1 .. D2 PROVE d2[k] = s[k + L - D2]
  <2>1. k + (f - n) \in n + 1 .. D /\ (k + (f - n)) + L - D = k + L - D2
    BY <1>cut, Zenon DEF Cut
  <2>2. d2[k] = d[k + (f - n)]
    BY <1>10, Zenon DEF D2
  <2>3. d[k + (f - n)] = s[(k + (f - n)) + L - D]
    BY <1>5, <2>1, Zenon
  <2>. QED BY <2>1, <2>2, <2>3, Zenon
<1>17. ASSUME NEW k \in (n + 1) + 1 .. D2 PROVE d2[k] = s[k + L - D2]
  <2>1. k \in n + 1 .. D2
    BY <1>6, <1>15
  <2>. QED BY <1>16, <2>1
<1>18. Len(d2) = D2
  BY <1>10 DEF D2
<1>19. CASE f = D
  <2>1. e = L /\ D2 = n /\ ~(n + 1 <= D2)
    BY <1>cut, <1>19, Zenon DEF Cut
  <2>2. Cardinality(K) = n
    <3>1. \A k \in K : k <= e
      BY <1>1, <2>1
    <3>2. e \in Int
      BY <1>9
    <3>. QED BY <1>1, <1>13, <3>1, <3>2, RankAll
  <2>3. e + 1 > L
    BY <1>9, <2>1
  <2>4. \A k \in K : k <= e + 1 => k <= e
    BY <1>1, <2>1
  <2>5. /\ d2 \in Seq(Nat) /\ D2 <= L /\ n + 1 \in 0 .. D2 + 1
        /\ IF n + 1 <= D2 THEN Rank(K, (n + 1) + L - D2) = n + 1 ELSE Cardinality(K) = D2
        /\ \A k \in K : k <= (n + 1) + L - D2 => d2[Rank(K, k)] = s[k]
        /\ (n + 1) + L - D2 > L
    BY <1>10, <1>14, <1>15, <2>1, <2>2, <2>3, <2>4
  <2>. QED BY <1>17, <1>18, <2>5 DEF Stripped, K, L
<1>20. CASE f # D
  <2>1. /\ f < D /\ e < L /\ n + 1 <= D2 /\ n + 1 \in n + 1 .. D2 /\ e + 1 \in 1 .. L
        /\ f + 1 \in n + 1 .. D /\ (f + 1) + L - D = e + 1
    BY <1>cut, <1>20, Zenon DEF Cut
  <2>2. d2[n + 1] = s[e + 1]
    <3>1. (n + 1) + L - D2 = e + 1
      BY <1>15
    <3>. QED BY <1>16, <2>1, <3>1
  <2>3. s[e + 1] = LF
    <3>1. d[f + 1] = s[(f + 1) + L - D]
      BY <1>5, <2>1, Zenon
    <3>2. d[f + 1] = LF
      BY <1>8, <2>1, Zenon
    <3>. QED BY <2>1, <3>1, <3>2, Zenon
  <2>4. e + 1 \in K
    <3>1. e + 1 <= Len(s)
      BY <1>1, <2>1 DEF L
    <3>2. ~InComment(s, e + 1)
      BY <1>9, <2>3, <3>1, CommentSteps
    <3>. QED BY <1>2, <2>1, <3>2
  <2>5. Rank(K, e + 1) = n + 1
    <3>1. \A k \in e + 1 .. e + 1 : k \in K
      BY <1>9, <2>4
    <3>2. e \in Int /\ e + 1 \in Int /\ e <= e + 1 /\ (e + 1) - e = 1
      BY <1>9
    <3>3. Rank(K, e + 1) = Rank(K, e) + ((e + 1) - e)
      BY <1>1, <3>1, <3>2, RankInside
    <3>. QED BY <1>13, <3>2, <3>3
  <2>6. ASSUME NEW k \in K, k <= e + 1 PROVE d2[Rank(K, k)] = s[k]
    <3>1. k \in Nat
      BY <1>1
    <3>2. CASE k = e + 1
      BY <2>2, <2>5, <3>2
    <3>3. CASE k # e + 1
      <4>1. k <= e
        BY <1>9, <2>6, <3>1, <3>3
      <4>. QED BY <1>14, <4>1
    <3>. QED BY <3>2, <3>3
  <2>7. /\ d2 \in Seq(Nat) /\ D2 <= L /\ n + 1 \in 0 .. D2 + 1
        /\ IF n + 1 <= D2 THEN Rank(K, (n + 1) + L - D2) = n + 1 ELSE Cardinality(K) = D2
        /\ \A k \in K : k <= (n + 1) + L - D2 => d2[Rank(K, k)] = s[k]
        /\ (n + 1) + L - D2 \in K
    BY <1>10, <1>15, <2>1, <2>4, <2>5, <2>6
  <2>. QED BY <1>17, <1>18, <2>7 DEF Stripped, K, L
<1>. QED BY <1>19, <1>20

\* At the end of the string everything is passed.
LEMMA StripDoneStep ==
  ASSUME NEW s \in Seq(Nat), NEW d, NEW n, Stripped(s, d, n), n >= Len(d)
  PROVE  Picked(d, s, Plain(s))
<1>. DEFINE K == Plain(s)
            L == Len(s)
            D == Len(d)
            q == n + L - D
<1>1. /\ L \in Nat /\ K \in SUBSET Nat /\ IsFiniteSet(K)
      /\ \A k \in K : k \in Nat /\ k >= 1 /\ k <= L
  BY PlainProperties, Zenon
<1>2. /\ d \in Seq(Nat) /\ D <= L /\ n \in 0 .. D + 1
      /\ IF n <= D THEN Rank(K, q) = n ELSE Cardinality(K) = D
      /\ \A k \in K : k <= q => d[Rank(K, k)] = s[k]
  BY DEF Stripped
<1>3. D \in Nat /\ n \in Nat /\ D <= n /\ q \in Nat /\ L <= q
  BY <1>1, <1>2
<1>. HIDE DEF K, L, D, q
<1>4. \A k \in K : k <= q
  BY <1>1, <1>3
<1>5. Rank(K, q) = Cardinality(K)
  BY <1>1, <1>3, <1>4, RankAll
<1>6. D = Cardinality(K)
  BY <1>2, <1>3, <1>5
<1>. QED BY <1>2, <1>4, <1>6 DEF Picked, K, D

-----------------------------------------------------------------------------
(* Numbers *)

\* A digit more
LEMMA ChainGrows ==
  ASSUME NEW w \in Nat, NEW x, NEW u, Chain(u, w, x)
  PROVE  \E v : /\ Chain(v, w + 1, x) /\ v[w + 1] = u[w] \div 10
                /\ \A k \in 0 .. w : v[k] = u[k]
<1>. DEFINE v == [k \in 0 .. w + 1 |-> IF k = w + 1 THEN u[w] \div 10 ELSE u[k]]
<1>1. u \in [0 .. w -> Nat] /\ u[0] = x /\ \A k \in 1 .. w : u[k] = u[k - 1] \div 10
  BY DEF Chain
<1>2. u[w] \in Nat /\ u[w] \div 10 \in Nat
  BY <1>1
<1>3. v[w + 1] = u[w] \div 10
  OBVIOUS
<1>4. \A k \in 0 .. w : k # w + 1 /\ k \in 0 .. w + 1
  OBVIOUS
<1>5. \A k \in 0 .. w : v[k] = u[k]
  BY <1>4
<1>6. v \in [0 .. w + 1 -> Nat]
  <2>1. ASSUME NEW k \in 0 .. w + 1 PROVE (IF k = w + 1 THEN u[w] \div 10 ELSE u[k]) \in Nat
    <3>1. k = w + 1 \/ k \in 0 .. w
      OBVIOUS
    <3>. QED BY <1>1, <1>2, <3>1
  <2>. QED BY <2>1
<1>. HIDE DEF v
<1>7. v[0] = x
  BY <1>1, <1>5
<1>8. ASSUME NEW k \in 1 .. w + 1 PROVE v[k] = v[k - 1] \div 10
  <2>1. CASE k = w + 1
    <3>1. k - 1 = w /\ v[w] = u[w]
      BY <1>5, <2>1
    <3>. QED BY <1>3, <2>1, <3>1
  <2>2. CASE k # w + 1
    <3>1. k \in 1 .. w /\ k \in 0 .. w /\ k - 1 \in 0 .. w
      BY <2>2
    <3>. QED BY <1>1, <1>5, <3>1
  <2>. QED BY <2>1, <2>2
<1>9. Chain(v, w + 1, x)
  BY <1>6, <1>7, <1>8 DEF Chain
<1>. QED BY <1>3, <1>5, <1>9

\* The values of the beginnings of a string of digits are the only numbers that grow as
\* they do: there is no first beginning at which others could differ from them.
LEMMA ValueIs ==
  ASSUME NEW d \in Seq(Nat), NEW v \in [0 .. Len(d) -> Int], v[0] = 0,
         \A k \in 1 .. Len(d) : v[k] = 10 * v[k - 1] + (d[k] - ZERO)
  PROVE  ValueOf(d) = v[Len(d)]
<1>. DEFINE G(g) == [k \in 0 .. Len(d) |-> IF k = 0 THEN 0 ELSE 10 * g[k - 1] + (d[k] - ZERO)]
            f == CHOOSE g : g = G(g)
<1>1. ValueOf(d) = f[Len(d)]
  BY DEF ValueOf
<1>2. Len(d) \in Nat
  OBVIOUS
<1>3. v = G(v)
  <2>1. ASSUME NEW k \in 0 .. Len(d)
        PROVE  v[k] = IF k = 0 THEN 0 ELSE 10 * v[k - 1] + (d[k] - ZERO)
    <3>1. k = 0 \/ k \in 1 .. Len(d)
      BY <1>2
    <3>. QED BY <3>1
  <2>. QED BY <2>1
<1>4. f = G(f)
  BY <1>3
<1>5. f[0] = 0 /\ \A k \in 1 .. Len(d) : f[k] = 10 * f[k - 1] + (d[k] - ZERO)
  <2>1. f[0] = 0
    <3>1. 0 \in 0 .. Len(d)
      BY <1>2
    <3>. QED BY <1>4, <3>1
  <2>2. ASSUME NEW k \in 1 .. Len(d) PROVE f[k] = 10 * f[k - 1] + (d[k] - ZERO)
    <3>1. k \in 0 .. Len(d) /\ k # 0
      BY <1>2
    <3>. QED BY <1>4, <3>1
  <2>. QED BY <2>1, <2>2
<1>. HIDE DEF f, G
<1>. DEFINE S == {k \in 0 .. Len(d) : f[k] # v[k]}
            m == Min(S)
<1>6. S = {}
  <2>. SUFFICES ASSUME S # {} PROVE FALSE
    OBVIOUS
  <2>1. S \in SUBSET Nat
    BY <1>2
  <2>2. m \in S /\ \A y \in S : m <= y
    BY <2>1, MinIsLeast, Zenon
  <2>. HIDE DEF m
  <2>3. m \in 0 .. Len(d) /\ f[m] # v[m]
    BY <2>2
  <2>4. m # 0
    BY <1>5, <2>3
  <2>5. m \in 1 .. Len(d) /\ m - 1 \in 0 .. Len(d) /\ ~(m <= m - 1)
    BY <1>2, <2>3, <2>4
  <2>6. f[m - 1] = v[m - 1]
    BY <2>2, <2>5
  <2>. QED BY <1>5, <2>3, <2>5, <2>6
<1>7. Len(d) \in 0 .. Len(d)
  BY <1>2
<1>. QED BY <1>1, <1>6, <1>7

LEMMA ReverseAll ==
  ASSUME NEW d \in Seq(Nat)
  PROVE  /\ lts_str_reverse(d) \in Seq(Nat) /\ Len(lts_str_reverse(d)) = Len(d)
         /\ \A k \in 1 .. Len(d) : lts_str_reverse(d)[k] = d[Len(d) + 1 - k]
<1>. DEFINE n == Len(d)
            r == reverse_region(d, 0, n - 1)
<1>1. n \in Nat /\ 0 \in 0 .. n /\ n - 1 \in -1 .. n - 1
  OBVIOUS
<1>2. /\ r \in Seq(Nat) /\ Len(r) = n
      /\ \A k \in 1 .. n : r[k] = IF k - 1 \in 0 .. n - 1 THEN d[0 + (n - 1) - k + 2] ELSE d[k]
  BY <1>1, ReverseProperties
<1>3. lts_str_reverse(d) = r
  BY DEF lts_str_reverse
<1>. HIDE DEF r, n
<1>4. \A k \in 1 .. n : k - 1 \in 0 .. n - 1 /\ 0 + (n - 1) - k + 2 = n + 1 - k
  BY <1>1
<1>5. \A k \in 1 .. n : r[k] = d[n + 1 - k]
  BY <1>2, <1>4
<1>. QED BY <1>2, <1>3, <1>5 DEF n

\* All digits of x are written: in reverse they read as x.
LEMMA DigitsReadBack ==
  ASSUME NEW d \in Seq(Nat), NEW w \in Nat, Len(d) <= w, NEW x, NEW u,
         Chain(u, w, x), Written(u, d), u[Len(d)] = 0, Len(d) >= 1
  PROVE  /\ lts_str_reverse(d) \in Seq(Nat) /\ Len(lts_str_reverse(d)) = Len(d)
         /\ ValueOf(lts_str_reverse(d)) = x
         /\ Head(lts_str_reverse(d)) = ZERO => Len(d) = 1
<1>. DEFINE n == Len(d)
            r == lts_str_reverse(d)
            v == [k \in 0 .. n |-> u[n - k]]
<1>1. r \in Seq(Nat) /\ Len(r) = n /\ \A k \in 1 .. n : r[k] = d[n + 1 - k]
  BY ReverseAll
<1>2. n \in Nat /\ n >= 1 /\ n <= w
  OBVIOUS
<1>3. u[n] = 0 /\ (n >= 2 => u[n - 1] > 0) /\ \A k \in 1 .. n : d[k] = ZERO + (u[k - 1] % 10)
  BY DEF Written
<1>. HIDE DEF r, n
<1>4. u[0] = x /\ \A k \in 0 .. n : u[k] \in Nat
  BY <1>2 DEF Chain
<1>5. \A k \in 1 .. n : u[k] = u[k - 1] \div 10
  BY <1>2 DEF Chain
<1>6. \A k \in 0 .. n : n - k \in 0 .. n
  BY <1>2
<1>7. v \in [0 .. n -> Int] /\ v[0] = 0 /\ v[n] = x
  <2>1. 0 \in 0 .. n /\ n \in 0 .. n /\ n - 0 = n /\ n - n = 0
    BY <1>2
  <2>2. v \in [0 .. n -> Int]
    BY <1>4, <1>6
  <2>. QED BY <1>3, <1>4, <2>1, <2>2
<1>8. ASSUME NEW k \in 1 .. n PROVE v[k] = 10 * v[k - 1] + (r[k] - ZERO)
  <2>1. /\ k \in 0 .. n /\ k - 1 \in 0 .. n /\ n - k \in 0 .. n /\ n - (k - 1) = n + 1 - k
        /\ n + 1 - k \in 1 .. n /\ (n + 1 - k) - 1 = n - k
    BY <1>2
  <2>2. v[k] = u[n - k] /\ v[k - 1] = u[n + 1 - k]
    BY <2>1
  <2>3. u[n + 1 - k] = u[n - k] \div 10
    BY <1>5, <2>1
  <2>4. r[k] = ZERO + (u[n - k] % 10)
    BY <1>1, <1>3, <2>1
  <2>5. u[n - k] \in Nat
    BY <1>4, <2>1
  <2>. HIDE DEF v
  <2>6. u[n - k] = 10 * (u[n - k] \div 10) + (u[n - k] % 10)
    BY <2>5
  <2>. QED BY <2>2, <2>3, <2>4, <2>5, <2>6 DEF ZERO
<1>. HIDE DEF v
<1>9. ValueOf(r) = x
  BY <1>1, <1>7, <1>8, ValueIs
<1>10. ASSUME Head(r) = ZERO PROVE n = 1
  <2>. SUFFICES ASSUME n >= 2 PROVE FALSE
    BY <1>2
  <2>1. Head(r) = r[1] /\ 1 \in 1 .. n /\ n + 1 - 1 = n /\ n \in 1 .. n /\ n - 1 \in 0 .. n
    BY <1>1, <1>2
  <2>2. Head(r) = ZERO + (u[n - 1] % 10)
    BY <1>1, <1>3, <2>1
  <2>3. u[n - 1] \in Nat /\ u[n - 1] > 0 /\ u[n - 1] \div 10 = 0
    BY <1>3, <1>4, <1>5, <2>1
  <2>4. u[n - 1] % 10 > 0
    BY <2>3
  <2>. QED BY <1>10, <2>2, <2>3, <2>4 DEF ZERO
<1>. QED BY <1>1, <1>9, <1>10 DEF r, n

\* The sign is written last and comes first.
LEMMA SignedReverse ==
  ASSUME NEW d \in Seq(Nat), Len(d) >= 1
  PROVE  LET r == lts_str_reverse(Append(d, MINUS))
         IN /\ r \in Seq(Nat) /\ Len(r) = Len(d) + 1 /\ Head(r) = MINUS
            /\ Tail(r) = lts_str_reverse(d)
<1>. DEFINE n == Len(d)
            e == Append(d, MINUS)
            r == lts_str_reverse(e)
            q == lts_str_reverse(d)
<1>1. MINUS \in Nat
  BY DEF MINUS
<1>2. /\ e \in Seq(Nat) /\ Len(e) = n + 1 /\ e[n + 1] = MINUS /\ n \in Nat
      /\ \A k \in 1 .. n : e[k] = d[k]
  BY <1>1
<1>. HIDE DEF e, n
<1>3. r \in Seq(Nat) /\ Len(r) = n + 1 /\ \A k \in 1 .. n + 1 : r[k] = e[n + 2 - k]
  <2>0. e \in Seq(Nat)
    BY <1>2
  <2>1. r \in Seq(Nat) /\ Len(r) = Len(e) /\ \A k \in 1 .. Len(e) : r[k] = e[Len(e) + 1 - k]
    BY <2>0, ReverseAll, Zenon
  <2>2. \A k \in 1 .. n + 1 : (n + 1) + 1 - k = n + 2 - k
    BY <1>2
  <2>. HIDE DEF r
  <2>. QED BY <1>2, <2>1, <2>2
<1>4. q \in Seq(Nat) /\ Len(q) = n /\ \A k \in 1 .. n : q[k] = d[n + 1 - k]
  BY ReverseAll DEF n
<1>. HIDE DEF r, q
<1>5. r # <<>>
  BY <1>2, <1>3
<1>6. Head(r) = MINUS
  <2>1. Head(r) = r[1] /\ 1 \in 1 .. n + 1 /\ n + 2 - 1 = n + 1
    BY <1>2, <1>3, <1>5
  <2>. QED BY <1>2, <1>3, <2>1
<1>7. Tail(r) = q
  <2>1. Tail(r) \in Seq(Nat) /\ Len(Tail(r)) = n /\ \A k \in 1 .. n : Tail(r)[k] = r[k + 1]
    BY <1>2, <1>3, <1>5
  <2>2. ASSUME NEW k \in 1 .. n PROVE Tail(r)[k] = q[k]
    <3>1. k + 1 \in 1 .. n + 1 /\ n + 2 - (k + 1) = n + 1 - k /\ n + 1 - k \in 1 .. n
      BY <1>2
    <3>. QED BY <1>2, <1>3, <1>4, <2>1, <3>1
  <2>. QED BY <1>4, <2>1, <2>2, SeqEqual
<1>. QED BY <1>3, <1>6, <1>7 DEF r, q, e, n

-----------------------------------------------------------------------------
(* Every step keeps what holds before it. *)

\* Of the five parts of the invariant, a call is only concerned with its own.
LEMMA OwnPart ==
  ASSUME TypeOK'
  PROVE  /\ fn' = "find" /\ FindInv' => StringInv'
         /\ fn' = "filter" /\ FilterInv' => StringInv'
         /\ fn' = "split" /\ SplitInv' => StringInv'
         /\ fn' = "strip" /\ StripInv' => StringInv'
         /\ fn' \in {"long", "uint"} /\ NumberInv' => StringInv'
BY DEF StringInv, FindInv, FilterInv, SplitInv, StripInv, NumberInv, NumbersReadBack, At, Writing

LEMMA StringInit == Init => StringInv
<1>. SUFFICES ASSUME Init PROVE StringInv
  OBVIOUS
<1>1. <<>> \in Seq(Nat) /\ <<>> \in Seq(Int) /\ <<>> \in Seq(Nat \X Nat)
  OBVIOUS
<1>2. TypeOK
  BY <1>1 DEF Init, TypeOK
<1>3. NumberInv
  BY DEF Init, NumberInv, NumbersReadBack, At, Writing
<1>. QED BY <1>2, <1>3 DEF Init, StringInv, FindInv, FilterInv, SplitInv, StripInv, At

LEMMA FindCallKeeps ==
  ASSUME StringInv, NEW t \in Texts, NEW p \in Patterns, FindCall(t, p)
  PROVE  StringInv'
<1>1. t \in Seq(Nat) /\ p \in Seq(Nat)
  BY StringAssumption
<1>2. /\ fn' = "find" /\ text' = t /\ pat' = p /\ pc' = "table" /\ i' = 0 /\ j' = 1
      /\ next' = <<-1, 0>>
  BY DEF FindCall, Call
<1>3. Tried(p, 1, 0) /\ Table(p, <<-1, 0>>, 1)
  BY <1>1, FirstTable
<1>4. next' \in Seq(Int)
  BY <1>2
<1>5. TypeOK'
  BY <1>1, <1>2, <1>4 DEF StringInv, TypeOK, FindCall
<1>6. FindInv'
  BY <1>2, <1>3 DEF FindInv, At
<1>. QED BY <1>2, <1>5, <1>6, OwnPart

LEMMA FindKeeps ==
  ASSUME StringInv, Find
  PROVE  StringInv'
<1>1. fn = "find" /\ TypeOK /\ FindInv
  BY DEF StringInv, Find, TableMatch, TableFallBack, TableNone, TableDone, FindMatch, FindMiss,
         FindDone, Filling, Searching, At
<1>2. pat \in Seq(Nat) /\ text \in Seq(Nat) /\ Len(pat) \in Nat /\ Len(text) \in Nat
  BY <1>1 DEF TypeOK
<1>3. CASE TableMatch
  <2>1. /\ fn = "find" /\ pc = "table" /\ j < Len(pat) - 1 /\ pat[i + 1] = pat[j + 1]
        /\ next' = Append(next, i + 1) /\ i' = i + 1 /\ j' = j + 1 /\ pc' = pc
        /\ fn' = fn /\ text' = text /\ pat' = pat
    BY <1>3 DEF TableMatch, Filling, At, Stays
  <2>2. Tried(pat, j, i) /\ Table(pat, next, j)
    BY <1>1, <2>1 DEF FindInv, At
  <2>3. Tried(pat, j + 1, i + 1) /\ Table(pat, Append(next, i + 1), j + 1)
    BY <1>2, <2>1, <2>2, TableMatchStep
  <2>4. FindInv'
    BY <2>1, <2>3 DEF FindInv, At
  <2>5. TypeOK'
    BY <1>1, <1>3, <2>1, <2>3 DEF TypeOK, TableMatch, Table
  <2>. QED BY <2>1, <2>4, <2>5, OwnPart
<1>4. CASE TableFallBack
  <2>1. /\ fn = "find" /\ pc = "table" /\ pat[i + 1] # pat[j + 1] /\ next[i + 1] # -1
        /\ i' = next[i + 1] /\ j' = j /\ next' = next /\ pc' = pc
        /\ fn' = fn /\ text' = text /\ pat' = pat
    BY <1>4 DEF TableFallBack, Filling, At, Stays
  <2>2. Tried(pat, j, i) /\ Table(pat, next, j)
    BY <1>1, <2>1 DEF FindInv, At
  <2>3. Tried(pat, j, next[i + 1])
    BY <1>2, <2>1, <2>2, TableFallBackStep
  <2>4. FindInv'
    BY <2>1, <2>2, <2>3 DEF FindInv, At
  <2>5. i' \in Int
    BY <2>1, <2>3 DEF Tried, Border
  <2>6. TypeOK'
    BY <1>1, <1>4, <2>1, <2>5 DEF TypeOK, TableFallBack
  <2>. QED BY <2>1, <2>4, <2>6, OwnPart
<1>5. CASE TableNone
  <2>1. /\ fn = "find" /\ pc = "table" /\ j < Len(pat) - 1 /\ pat[i + 1] # pat[j + 1]
        /\ next[i + 1] = -1 /\ next' = Append(next, 0) /\ i' = 0 /\ j' = j + 1 /\ pc' = pc
        /\ fn' = fn /\ text' = text /\ pat' = pat
    BY <1>5 DEF TableNone, Filling, At, Stays
  <2>2. Tried(pat, j, i) /\ Table(pat, next, j)
    BY <1>1, <2>1 DEF FindInv, At
  <2>3. Tried(pat, j + 1, 0) /\ Table(pat, Append(next, 0), j + 1)
    BY <1>2, <2>1, <2>2, TableNoneStep
  <2>4. FindInv'
    BY <2>1, <2>3 DEF FindInv, At
  <2>5. TypeOK'
    BY <1>1, <1>5, <2>1, <2>3 DEF TypeOK, TableNone, Table
  <2>. QED BY <2>1, <2>4, <2>5, OwnPart
<1>6. CASE TableDone
  <2>1. /\ fn = "find" /\ pc = "table" /\ j >= Len(pat) - 1 /\ pc' = "loop" /\ i' = 0 /\ j' = 0
        /\ next' = next /\ fn' = fn /\ text' = text /\ pat' = pat
    BY <1>6 DEF TableDone, At, Stays
  <2>2. j \in Nat /\ j >= 1 /\ Table(pat, next, j)
    BY <1>1, <2>1 DEF FindInv, At, Tried
  <2>3. Sought(text, pat, 0, 0)
    BY <1>2 DEF Sought
  <2>4. FindInv'
    BY <2>1, <2>2, <2>3 DEF FindInv, At
  <2>5. TypeOK'
    BY <1>1, <1>6, <2>1 DEF TypeOK, TableDone
  <2>. QED BY <2>1, <2>4, <2>5, OwnPart
<1>7. CASE FindMatch
  <2>1. /\ fn = "find" /\ pc = "loop" /\ i < Len(text) /\ j < Len(pat)
        /\ j # -1 => text[i + 1] = pat[j + 1]
        /\ i' = i + 1 /\ j' = j + 1 /\ pc' = pc
        /\ next' = next /\ fn' = fn /\ text' = text /\ pat' = pat
    BY <1>7 DEF FindMatch, Searching, At, Stays
  <2>2. /\ Sought(text, pat, i, j)
        /\ \E n \in Nat : n >= 1 /\ n >= Len(pat) - 1 /\ Table(pat, next, n)
    BY <1>1, <2>1 DEF FindInv, At
  <2>3. Sought(text, pat, i + 1, j + 1)
    BY <1>2, <2>1, <2>2, FindMatchStep
  <2>4. FindInv'
    BY <2>1, <2>2, <2>3 DEF FindInv, At
  <2>5. TypeOK'
    BY <1>1, <1>7, <2>1 DEF TypeOK, FindMatch
  <2>. QED BY <2>1, <2>4, <2>5, OwnPart
<1>8. CASE FindMiss
  <2>1. /\ fn = "find" /\ pc = "loop" /\ j < Len(pat)
        /\ j # -1 /\ text[i + 1] # pat[j + 1]
        /\ i' = i /\ j' = next[j + 1] /\ pc' = pc
        /\ next' = next /\ fn' = fn /\ text' = text /\ pat' = pat
    BY <1>8 DEF FindMiss, Searching, At, Stays
  <2>2. /\ Sought(text, pat, i, j)
        /\ \E n \in Nat : n >= 1 /\ n >= Len(pat) - 1 /\ Table(pat, next, n)
    BY <1>1, <2>1 DEF FindInv, At
  <2>3. Sought(text, pat, i, next[j + 1])
    BY <1>2, <2>1, <2>2, FindMissStep
  <2>4. FindInv'
    BY <2>1, <2>2, <2>3 DEF FindInv, At
  <2>5. j' \in Int
    BY <2>1, <2>3 DEF Sought
  <2>6. TypeOK'
    BY <1>1, <1>8, <2>1, <2>5 DEF TypeOK, FindMiss
  <2>. QED BY <2>1, <2>4, <2>6, OwnPart
<1>9. CASE FindDone
  <2>1. /\ fn = "find" /\ pc = "loop" /\ (i >= Len(text) \/ j >= Len(pat)) /\ pc' = "done"
        /\ result' = IF j >= Len(pat) THEN i - Len(pat) ELSE -1
        /\ fn' = fn /\ text' = text /\ pat' = pat
    BY <1>9 DEF FindDone, At, Stays
  <2>2. Sought(text, pat, i, j)
    BY <1>1, <2>1 DEF FindInv, At
  <2>3. First(text, pat, IF j >= Len(pat) THEN i - Len(pat) ELSE -1)
    BY <1>2, <2>1, <2>2, FindDoneStep
  <2>4. FindInv'
    BY <2>1, <2>3 DEF FindInv, At
  <2>5. result' \in Int
    BY <1>1, <1>2, <2>1 DEF TypeOK
  <2>6. TypeOK'
    BY <1>1, <1>9, <2>1, <2>5 DEF TypeOK, FindDone
  <2>. QED BY <2>1, <2>4, <2>6, OwnPart
<1>. QED BY <1>3, <1>4, <1>5, <1>6, <1>7, <1>8, <1>9 DEF Find

LEMMA FilterCallKeeps ==
  ASSUME StringInv, NEW t \in Texts, NEW p \in Patterns, FilterCall(t, p)
  PROVE  StringInv'
<1>. DEFINE C == ToSet(p)
            f == FirstIn(t, 0, C)
            r == Cardinality({k \in DOMAIN t : t[k] \in C})
<1>1. t \in Seq(Nat) /\ p \in Seq(Nat) /\ Len(t) \in Nat
  BY StringAssumption
<1>2. /\ fn' = "filter" /\ text' = t /\ pat' = p /\ data' = t /\ result' = r
      /\ pc' = (IF result' = 0 THEN "done" ELSE "loop") /\ i' = f /\ j' = i' - 1
  BY DEF FilterCall, Call
<1>3. Unwanted' = C
  BY <1>2 DEF Unwanted
<1>4. r = Len(t) - Cardinality(Wanted(t, C)) /\ Cardinality(Wanted(t, C)) \in 0 .. Len(t)
  BY <1>1, WantedProperties, Zenon
<1>5. f \in 0 .. Len(t) /\ \A k \in 0 + 1 .. f : t[k] \notin C
  <2>1. 0 \in 0 .. Len(t)
    BY <1>1
  <2>. QED BY <1>1, <2>1, FirstInProperties, Zenon
<1>6. r = 0 => Picked(t, t, Wanted(t, C))
  BY <1>1, FilterNothing
<1>. HIDE DEF f, r, C
<1>7. Sorted(t, C, t, f, f)
  <2>1. \A k \in 1 .. f : t[k] \notin C
    BY <1>5
  <2>. QED BY <1>1, <1>5, <2>1, FilterStart
<1>8. j' + 1 = f /\ j' \in Int /\ i' \in Int /\ result' \in Int
  <2>1. Cardinality(Wanted(t, C)) \in Int
    BY <1>1, <1>4
  <2>. QED BY <1>1, <1>2, <1>4, <1>5, <2>1
<1>9. TypeOK'
  BY <1>1, <1>2, <1>8 DEF StringInv, TypeOK, FilterCall
<1>10. FilterInv'
  BY <1>2, <1>3, <1>4, <1>6, <1>7, <1>8 DEF FilterInv, At
<1>. QED BY <1>2, <1>9, <1>10, OwnPart

LEMMA FilterKeeps ==
  ASSUME StringInv, Filter
  PROVE  StringInv'
<1>1. /\ fn = "filter" /\ pc = "loop" /\ fn' = fn /\ text' = text /\ pat' = pat
      /\ next' = next /\ items' = items /\ result' = result
  BY DEF Filter, FilterMove, FilterDone, At, Stays
<1>2. TypeOK /\ text \in Seq(Nat) /\ i \in Int /\ j \in Int
  BY DEF StringInv, TypeOK
<1>3. /\ result = Len(text) - Cardinality(Wanted(text, Unwanted))
      /\ Sorted(text, Unwanted, data, j + 1, i)
  BY <1>1 DEF StringInv, FilterInv, At
<1>4. Unwanted' = Unwanted
  BY <1>1 DEF Unwanted
<1>5. CASE FilterMove
  <2>. DEFINE m == FirstNotIn(data, i, Unwanted)
              e == FirstIn(data, m, Unwanted) - 1
              d2 == reverse_region(reverse_region(data, m, e), i, e)
  <2>1. m < Len(data) /\ data' = d2 /\ i' = i + e - m + 1 /\ j' = e /\ pc' = pc
    BY <1>5 DEF FilterMove
  <2>2. Sorted(text, Unwanted, d2, e + 1, i + e - m + 1)
    BY <1>2, <1>3, <2>1, FilterMoveStep
  <2>3. m \in Nat /\ e \in Nat
    <3>1. Len(data) = Len(text)
      BY <1>3 DEF Sorted
    <3>. QED BY <1>2, <1>3, <2>1, <3>1, FilterScan
  <2>. HIDE DEF m, e, d2
  <2>4. i' \in Int /\ j' \in Int /\ j' + 1 = e + 1
    BY <1>2, <2>1, <2>3
  <2>5. d2 \in Seq(Nat)
    BY <2>2 DEF Sorted
  <2>6. TypeOK'
    BY <1>1, <1>2, <2>1, <2>4, <2>5 DEF TypeOK
  <2>7. FilterInv'
    BY <1>1, <1>3, <1>4, <2>1, <2>2 DEF FilterInv, At
  <2>. QED BY <1>1, <2>6, <2>7, OwnPart
<1>6. CASE FilterDone
  <2>1. /\ FirstNotIn(data, i, Unwanted) = Len(data) /\ pc' = "done"
        /\ data' = SubSeq(data, 1, Len(data) - result) /\ i' = i /\ j' = j
    BY <1>6 DEF FilterDone
  <2>2. data' \in Seq(Nat) /\ Picked(data', text, Wanted(text, Unwanted))
    BY <1>2, <1>3, <2>1, FilterDoneStep
  <2>3. TypeOK'
    BY <1>1, <1>2, <2>1, <2>2 DEF TypeOK
  <2>4. FilterInv'
    BY <1>1, <1>3, <1>4, <2>1, <2>2 DEF FilterInv, At
  <2>. QED BY <1>1, <2>3, <2>4, OwnPart
<1>. QED BY <1>5, <1>6 DEF Filter

LEMMA SplitCallKeeps ==
  ASSUME StringInv, NEW t \in Texts, NEW p \in Patterns, p # <<>>, SplitCall(t, p[1])
  PROVE  StringInv'
<1>1. t \in Seq(Nat) /\ p \in Seq(Nat) /\ Len(t) \in Nat
  BY StringAssumption
<1>. DEFINE c == p[1]
<1>2. c \in Nat
  BY <1>1
<1>. HIDE DEF c
<1>3. /\ fn' = "split" /\ text' = t /\ pat' = <<c>> /\ pc' = "loop" /\ result' = SplitCount(t, c)
      /\ j' = 0 /\ items' = <<>> /\ t # <<>>
  BY DEF SplitCall, Call, c
<1>4. pat' \in Seq(Nat) /\ pat'[1] = c /\ items' \in Seq(Nat \X Nat)
  BY <1>2, <1>3
<1>5. result' = Cardinality(Starts(t, c)) /\ result' \in Int
  <2>1. Cardinality(Starts(t, c)) \in Nat
    BY <1>1, StartsProperties, Zenon
  <2>. QED BY <1>1, <1>3, <2>1, SplitCounts
<1>6. Stored(t, c, <<>>, 0)
  BY <1>1, SplitStart
<1>7. TypeOK'
  BY <1>1, <1>3, <1>4, <1>5 DEF StringInv, TypeOK, SplitCall
<1>8. SplitInv'
  BY <1>3, <1>4, <1>5, <1>6 DEF SplitInv
<1>. QED BY <1>3, <1>7, <1>8, OwnPart

LEMMA SplitKeeps ==
  ASSUME StringInv, Split
  PROVE  StringInv'
<1>1. /\ fn = "split" /\ pc = "loop" /\ fn' = fn /\ text' = text /\ pat' = pat
      /\ next' = next /\ result' = result /\ data' = data /\ i' = i
  BY DEF Split, SplitSkip, SplitItem, SplitDone, Splitting, At, Stays
<1>2. TypeOK /\ text \in Seq(Nat) /\ Behind \in Nat
  BY StringAssumption DEF StringInv, TypeOK
<1>3. result = Cardinality(Starts(text, pat[1])) /\ Stored(text, pat[1], items, j)
  BY <1>1 DEF StringInv, SplitInv
<1>4. CASE SplitSkip
  <2>1. j < Len(text) /\ text[j + 1] = pat[1] /\ j' = j + 1 /\ pc' = pc /\ items' = items
    BY <1>4 DEF SplitSkip, Splitting
  <2>2. Stored(text, pat[1], items, j + 1)
    BY <1>2, <1>3, <2>1, SplitSkipStep
  <2>3. TypeOK'
    BY <1>1, <1>2, <2>1 DEF TypeOK
  <2>4. SplitInv'
    BY <1>1, <1>3, <2>1, <2>2 DEF SplitInv
  <2>. QED BY <1>1, <2>3, <2>4, OwnPart
<1>5. CASE SplitItem
  <2>1. /\ j < Len(text) /\ text[j + 1] # pat[1] /\ pc' = pc
        /\ j' = FirstIn(Append(text, Behind), j, {pat[1]})
        /\ items' = Append(items, <<j, j' - j>>)
    BY <1>5 DEF SplitItem, Splitting
  <2>2. Stored(text, pat[1], items', j') /\ j' \in Nat
    BY <1>2, <1>3, <2>1, SplitItemStep
  <2>3. items' \in Seq(Nat \X Nat)
    BY <2>2 DEF Stored
  <2>4. TypeOK'
    BY <1>1, <1>2, <2>1, <2>2, <2>3 DEF TypeOK
  <2>5. SplitInv'
    BY <1>1, <1>3, <2>1, <2>2 DEF SplitInv
  <2>. QED BY <1>1, <2>4, <2>5, OwnPart
<1>6. CASE SplitDone
  <2>1. j >= Len(text) /\ pc' = "done" /\ j' = j /\ items' = items
    BY <1>6 DEF SplitDone
  <2>2. TypeOK'
    BY <1>1, <1>2, <2>1 DEF TypeOK
  <2>3. SplitInv'
    BY <1>1, <1>3, <2>1 DEF SplitInv
  <2>. QED BY <1>1, <2>2, <2>3, OwnPart
<1>. QED BY <1>4, <1>5, <1>6 DEF Split

LEMMA StripCallKeeps ==
  ASSUME StringInv, NEW t \in Texts, StripCall(t)
  PROVE  StringInv'
<1>1. t \in Seq(Nat)
  BY StringAssumption
<1>2. fn' = "strip" /\ text' = t /\ pat' = <<>> /\ pc' = "loop" /\ data' = t /\ i' = 0
  BY DEF StripCall, Call
<1>3. pat' \in Seq(Nat)
  BY <1>2
<1>4. Stripped(t, t, 0)
  BY <1>1, StripStart
<1>5. TypeOK'
  BY <1>1, <1>2, <1>3 DEF StringInv, TypeOK, StripCall
<1>6. StripInv'
  BY <1>2, <1>4 DEF StripInv, At
<1>. QED BY <1>2, <1>5, <1>6, OwnPart

LEMMA StripKeeps ==
  ASSUME StringInv, Strip
  PROVE  StringInv'
<1>1. /\ fn = "strip" /\ pc = "loop" /\ fn' = fn /\ text' = text /\ pat' = pat
      /\ next' = next /\ result' = result /\ items' = items /\ j' = j
  BY DEF Strip, StripNext, StripComment, StripDone, Stripping, At, Stays
<1>2. TypeOK /\ text \in Seq(Nat) /\ i \in Int
  BY DEF StringInv, TypeOK
<1>3. Stripped(text, data, i)
  BY <1>1 DEF StringInv, StripInv, At
<1>4. CASE StripNext
  <2>1. i < Len(data) /\ data[i + 1] # HASH /\ i' = i + 1 /\ pc' = pc /\ data' = data
    BY <1>4 DEF StripNext, Stripping
  <2>2. Stripped(text, data, i + 1)
    BY <1>2, <1>3, <2>1, StripNextStep
  <2>3. TypeOK'
    BY <1>1, <1>2, <2>1 DEF TypeOK
  <2>4. StripInv'
    BY <1>1, <2>1, <2>2 DEF StripInv, At
  <2>. QED BY <1>1, <2>3, <2>4, OwnPart
<1>5. CASE StripComment
  <2>1. /\ i < Len(data) /\ data[i + 1] = HASH /\ i' = i + 1 /\ pc' = pc
        /\ data' = lts_str_hollow(data, i, FirstIn(data, i + 1, {LF}) - i)
    BY <1>5 DEF StripComment, Stripping
  <2>2. Stripped(text, data', i + 1)
    BY <1>2, <1>3, <2>1, StripCommentStep
  <2>3. data' \in Seq(Nat)
    BY <2>2 DEF Stripped
  <2>4. TypeOK'
    BY <1>1, <1>2, <2>1, <2>3 DEF TypeOK
  <2>5. StripInv'
    BY <1>1, <2>1, <2>2 DEF StripInv, At
  <2>. QED BY <1>1, <2>4, <2>5, OwnPart
<1>6. CASE StripDone
  <2>1. i >= Len(data) /\ pc' = "done" /\ i' = i /\ data' = data
    BY <1>6 DEF StripDone
  <2>2. Picked(data, text, Plain(text))
    BY <1>2, <1>3, <2>1, StripDoneStep
  <2>3. TypeOK'
    BY <1>1, <1>2, <2>1 DEF TypeOK
  <2>4. StripInv'
    BY <1>1, <2>1, <2>2 DEF StripInv, At
  <2>. QED BY <1>1, <2>3, <2>4, OwnPart
<1>. QED BY <1>4, <1>5, <1>6 DEF Strip

LEMMA NumberCallKeeps ==
  ASSUME StringInv, NEW f \in {"long", "uint"}, NEW t \in Seq(Nat), NEW x \in Int,
         NumberCall(f, t, x)
  PROVE  StringInv'
<1>. DEFINE u == [k \in 0 .. 0 |-> abs(x)]
<1>1. /\ fn' = f /\ text' = t /\ pat' = <<>> /\ j' = x /\ i' = abs(x) /\ data' = <<>>
      /\ next' = next /\ items' = items
  BY DEF NumberCall, Call
<1>2. result' \in Int /\ pc' = IF f = "long" THEN "width" ELSE "loop"
  BY DEF NumberCall, SignWidth
<1>3. abs(x) \in Nat
  BY DEF abs
<1>4. pat' \in Seq(Nat) /\ data' \in Seq(Nat) /\ Len(data') = 0
  BY <1>1
<1>5. TypeOK'
  BY <1>1, <1>2, <1>3, <1>4 DEF StringInv, TypeOK
<1>6. Chain(u, 0, abs(x)) /\ u[0] = abs(x)
  BY <1>3 DEF Chain
<1>7. Written(u, data')
  BY <1>4 DEF Written
<1>. HIDE DEF u
<1>8. CASE f = "long"
  <2>1. result' = 0 + SignWidth(x)
    BY <1>8 DEF NumberCall, SignWidth
  <2>2. \E w \in Nat : result' = w + SignWidth(x) /\ \E v : Chain(v, w, abs(x)) /\ i' = v[w]
    BY <1>1, <1>6, <2>1
  <2>3. NumberInv'
    BY <1>1, <1>2, <1>8, <2>2 DEF NumberInv, NumbersReadBack, At, Writing
  <2>. QED BY <1>1, <1>5, <2>3, OwnPart
<1>9. CASE f = "uint"
  <2>1. \E w \in Nat : Len(data') <= w /\ \E v :
          /\ Chain(v, w, abs(j')) /\ Written(v, data') /\ i' = v[Len(data')]
          /\ IF fn' = "uint" THEN w = Len(data') ELSE Fits(v, w, j', Len(text'))
    <3>1. /\ Len(data') <= 0 /\ Chain(u, 0, abs(j')) /\ i' = u[Len(data')]
          /\ IF fn' = "uint" THEN 0 = Len(data') ELSE Fits(u, 0, j', Len(text'))
      BY <1>1, <1>4, <1>6, <1>9
    <3>. QED BY <1>7, <3>1
  <2>2. NumberInv'
    BY <1>1, <1>2, <1>9, <2>1 DEF NumberInv, NumbersReadBack, At, Writing
  <2>. QED BY <1>1, <1>5, <2>2, OwnPart
<1>. QED BY <1>8, <1>9

LEMMA WidthKeeps ==
  ASSUME StringInv, Width
  PROVE  StringInv'
<1>1. /\ fn = "long" /\ pc = "width" /\ fn' = fn /\ text' = text /\ pat' = pat /\ pc' = pc
      /\ next' = next /\ items' = items /\ j' = j /\ data' = data
      /\ result' = result + 1 /\ i' = i \div 10
  BY DEF Width, At, Stays
<1>2. TypeOK /\ j \in Int /\ data = <<>>
  BY <1>1 DEF StringInv, TypeOK, NumberInv, At
<1>3. PICK w \in Nat : result = w + SignWidth(j)
                       /\ \E u : Chain(u, w, abs(j)) /\ i = u[w]
  BY <1>1 DEF StringInv, NumberInv, At
<1>4. PICK u : Chain(u, w, abs(j)) /\ i = u[w]
  BY <1>3
<1>5. i \in Nat
  BY <1>4 DEF Chain
<1>6. PICK v : Chain(v, w + 1, abs(j)) /\ v[w + 1] = u[w] \div 10
  BY <1>4, ChainGrows
<1>7. w + 1 \in Nat /\ result' = (w + 1) + SignWidth(j) /\ i' \in Int /\ result' \in Int
  BY <1>1, <1>2, <1>3, <1>5 DEF SignWidth
<1>8. i' = v[w + 1]
  BY <1>1, <1>4, <1>6
<1>9. TypeOK'
  BY <1>1, <1>2, <1>7 DEF TypeOK
<1>10. \E z \in Nat : result' = z + SignWidth(j) /\ \E y : Chain(y, z, abs(j)) /\ i' = y[z]
  BY <1>6, <1>7, <1>8
<1>11. NumberInv'
  BY <1>1, <1>2, <1>10 DEF NumberInv, NumbersReadBack, At, Writing
<1>. QED BY <1>1, <1>9, <1>11, OwnPart

LEMMA WidthDoneKeeps ==
  ASSUME StringInv, WidthDone
  PROVE  StringInv'
<1>1. /\ fn = "long" /\ pc = "width" /\ fn' = fn /\ text' = text /\ pat' = pat
      /\ next' = next /\ items' = items /\ j' = j /\ data' = data /\ i' = abs(j)
      /\ i = 0 /\ result > SignWidth(j)
      /\ result' = (IF Len(text) + 1 >= result THEN 0 ELSE -1)
      /\ pc' = (IF Len(text) + 1 >= result THEN "loop" ELSE "done")
  BY DEF WidthDone, At, Stays
<1>2. TypeOK /\ j \in Int /\ data = <<>> /\ Len(text) \in Nat /\ Len(data) = 0
  BY <1>1 DEF StringInv, TypeOK, NumberInv, At
<1>3. PICK w \in Nat : result = w + SignWidth(j)
                       /\ \E u : Chain(u, w, abs(j)) /\ i = u[w]
  BY <1>1 DEF StringInv, NumberInv, At
<1>4. PICK u : Chain(u, w, abs(j)) /\ i = u[w]
  BY <1>3
<1>5. SignWidth(j) \in Int /\ abs(j) \in Int
  BY <1>2 DEF SignWidth, abs
<1>6. TypeOK'
  BY <1>1, <1>2, <1>5 DEF TypeOK
<1>7. CASE Len(text) + 1 >= result
  <2>1. Fits(u, w, j, Len(text))
    BY <1>1, <1>2, <1>3, <1>4, <1>5, <1>7 DEF Fits
  <2>2. Written(u, data) /\ u[Len(data)] = abs(j) /\ Len(data) <= w
    BY <1>2, <1>4 DEF Written, Chain
  <2>3. \E z \in Nat : Len(data) <= z /\ \E v :
          /\ Chain(v, z, abs(j)) /\ Written(v, data) /\ i' = v[Len(data)]
          /\ Fits(v, z, j, Len(text))
    BY <1>1, <1>4, <2>1, <2>2
  <2>4. NumberInv'
    BY <1>1, <1>7, <2>3 DEF NumberInv, NumbersReadBack, At, Writing
  <2>. QED BY <1>1, <1>6, <2>4, OwnPart
<1>8. CASE ~(Len(text) + 1 >= result)
  <2>1. NumberInv'
    BY <1>1, <1>8 DEF NumberInv, NumbersReadBack, At, Writing
  <2>. QED BY <1>1, <1>6, <2>1, OwnPart
<1>. QED BY <1>7, <1>8

LEMMA DigitKeeps ==
  ASSUME StringInv, Digit
  PROVE  StringInv'
<1>. DEFINE n == Len(data)
<1>1. /\ fn \in {"long", "uint"} /\ pc = "loop" /\ fn' = fn /\ text' = text /\ pat' = pat
      /\ next' = next /\ result' = result /\ items' = items /\ j' = j /\ pc' = pc
      /\ data' = Append(data, ZERO + (i % 10)) /\ i' = i \div 10
      /\ (i > 0 \/ data = <<>>)
  BY DEF Digit, Writing, Stays
<1>2. TypeOK /\ data \in Seq(Nat) /\ n \in Nat /\ (data = <<>> => n = 0)
  BY DEF StringInv, TypeOK
<1>. HIDE DEF n
<1>3. PICK w \in Nat : n <= w /\ \E u :
        /\ Chain(u, w, abs(j)) /\ Written(u, data) /\ i = u[n]
        /\ IF fn = "uint" THEN w = n ELSE Fits(u, w, j, Len(text))
  BY <1>1 DEF StringInv, NumberInv, Writing, n
<1>4. PICK u :
        /\ Chain(u, w, abs(j)) /\ Written(u, data) /\ i = u[n]
        /\ IF fn = "uint" THEN w = n ELSE Fits(u, w, j, Len(text))
  BY <1>3
<1>5. i \in Nat
  BY <1>2, <1>3, <1>4 DEF Chain
<1>6. i' \in Nat /\ ZERO + (i % 10) \in Nat
  BY <1>1, <1>5 DEF ZERO
<1>7. /\ data' \in Seq(Nat) /\ Len(data') = n + 1
      /\ data'[n + 1] = ZERO + (i % 10) /\ \A k \in 1 .. n : data'[k] = data[k]
  BY <1>1, <1>2, <1>6 DEF n
<1>8. TypeOK'
  BY <1>1, <1>2, <1>6, <1>7 DEF TypeOK
<1>9. ASSUME NEW z \in Nat, n + 1 <= z, NEW v, Chain(v, z, abs(j)), \A k \in 0 .. n : v[k] = u[k]
      PROVE  Written(v, data') /\ i' = v[n + 1]
  <2>1. v[n] = i /\ n + 1 \in 1 .. z
    BY <1>2, <1>4, <1>9
  <2>2. v[n + 1] = i'
    BY <1>1, <1>2, <1>9, <2>1 DEF Chain
  <2>3. ASSUME NEW k \in 1 .. n + 1 PROVE data'[k] = ZERO + (v[k - 1] % 10)
    <3>1. CASE k = n + 1
      <4>1. k - 1 = n
        BY <1>2, <3>1
      <4>. QED BY <1>7, <2>1, <3>1, <4>1
    <3>2. CASE k # n + 1
      <4>1. k \in 1 .. n /\ k - 1 \in 0 .. n
        BY <1>2, <3>2
      <4>2. data[k] = ZERO + (u[k - 1] % 10)
        BY <1>4, <4>1 DEF Written, n
      <4>. QED BY <1>7, <1>9, <4>1, <4>2
    <3>. QED BY <3>1, <3>2
  <2>4. n + 1 >= 2 => v[n] > 0
    <3>1. n + 1 >= 2 => i > 0
      BY <1>1, <1>2
    <3>. QED BY <2>1, <3>1
  <2>5. Len(data') = n + 1
    BY <1>7
  <2>6. Written(v, data')
    <3>1. \A k \in 1 .. Len(data') : data'[k] = ZERO + (v[k - 1] % 10)
      BY <2>3, <2>5
    <3>2. Len(data') >= 2 => v[Len(data') - 1] > 0
      <4>1. Len(data') - 1 = n
        BY <1>2, <2>5
      <4>. QED BY <2>4, <2>5, <4>1, Zenon
    <3>. QED BY <3>1, <3>2 DEF Written
  <2>. QED BY <2>2, <2>6
<1>10. CASE fn = "uint"
  <2>1. w = n
    BY <1>4, <1>10
  <2>2. PICK v : Chain(v, n + 1, abs(j)) /\ \A k \in 0 .. n : v[k] = u[k]
    BY <1>4, <2>1, ChainGrows
  <2>3. n + 1 \in Nat /\ n + 1 <= n + 1
    BY <1>2
  <2>4. Written(v, data') /\ i' = v[n + 1]
    BY <1>9, <2>2, <2>3, Zenon
  <2>5. NumberInv'
    BY <1>1, <1>7, <1>10, <2>2, <2>3, <2>4 DEF NumberInv, NumbersReadBack, At, Writing
  <2>. QED BY <1>1, <1>8, <2>5, OwnPart
<1>11. CASE fn = "long"
  <2>1. Fits(u, w, j, Len(text))
    BY <1>4, <1>11
  <2>2. n + 1 <= w
    <3>1. n = w => i = 0 /\ n >= 1
      BY <1>4, <2>1 DEF Fits
    <3>2. n # w
      BY <1>1, <1>2, <3>1
    <3>. QED BY <1>2, <1>3, <3>2
  <2>3. Written(u, data') /\ i' = u[n + 1]
    BY <1>4, <1>9, <2>2
  <2>4. NumberInv'
    BY <1>1, <1>4, <1>7, <1>11, <2>1, <2>2, <2>3 DEF NumberInv, NumbersReadBack, At, Writing
  <2>. QED BY <1>1, <1>8, <2>4, OwnPart
<1>. QED BY <1>1, <1>10, <1>11

LEMMA NumberDoneKeeps ==
  ASSUME StringInv, NumberDone
  PROVE  StringInv'
<1>. DEFINE n == Len(data)
            d == IF j < 0 THEN Append(data, MINUS) ELSE data
            digits == IF j < 0 THEN Tail(lts_str_reverse(d)) ELSE lts_str_reverse(d)
<1>1. /\ fn \in {"long", "uint"} /\ pc = "loop" /\ fn' = fn /\ text' = text /\ pat' = pat
      /\ next' = next /\ result' = result /\ items' = items /\ j' = j /\ i' = i
      /\ pc' = "done" /\ data' = lts_str_reverse(d) /\ i = 0 /\ data # <<>>
  BY DEF NumberDone, Writing, Stays
<1>2. TypeOK /\ data \in Seq(Nat) /\ j \in Int /\ n \in Nat /\ n >= 1 /\ Len(text) \in Nat
  <2>1. TypeOK /\ data \in Seq(Nat) /\ text \in Seq(Nat) /\ j \in Int
    BY DEF StringInv, TypeOK
  <2>. QED BY <1>1, <2>1
<1>. HIDE DEF n
<1>3. PICK w \in Nat : n <= w /\ \E u :
        /\ Chain(u, w, abs(j)) /\ Written(u, data) /\ i = u[n]
        /\ IF fn = "uint" THEN w = n ELSE Fits(u, w, j, Len(text))
  BY <1>1 DEF StringInv, NumberInv, Writing, n
<1>4. PICK u :
        /\ Chain(u, w, abs(j)) /\ Written(u, data) /\ i = u[n]
        /\ IF fn = "uint" THEN w = n ELSE Fits(u, w, j, Len(text))
  BY <1>3
<1>5. /\ lts_str_reverse(data) \in Seq(Nat) /\ Len(lts_str_reverse(data)) = n
      /\ ValueOf(lts_str_reverse(data)) = abs(j)
      /\ Head(lts_str_reverse(data)) = ZERO => n = 1
  BY <1>1, <1>2, <1>3, <1>4, DigitsReadBack DEF n
<1>6. ASSUME j < 0
      PROVE  /\ data' \in Seq(Nat) /\ Len(data') = n + 1 /\ Head(data') = MINUS
             /\ Tail(data') = lts_str_reverse(data)
  BY <1>1, <1>2, <1>6, SignedReverse DEF n
<1>7. data' \in Seq(Nat) /\ Len(data') = n + SignWidth(j)
  BY <1>1, <1>2, <1>5, <1>6 DEF SignWidth
<1>8. digits = lts_str_reverse(data)
  BY <1>1, <1>6
<1>9. fn = "long" => Len(data') + 1 <= Len(text) + 2
  <2>. SUFFICES ASSUME fn = "long" PROVE Len(data') + 1 <= Len(text) + 2
    OBVIOUS
  <2>1. w + SignWidth(j) <= Len(text) + 1 /\ SignWidth(j) \in Int
    BY <1>4 DEF Fits, SignWidth
  <2>. QED BY <1>2, <1>3, <1>7, <2>1
<1>10. TypeOK'
  BY <1>1, <1>2, <1>7 DEF TypeOK
<1>11. NumbersReadBack'
  BY <1>1, <1>5, <1>6, <1>8, <1>9 DEF NumbersReadBack
<1>12. NumberInv'
  BY <1>1, <1>11 DEF NumberInv, At, Writing
<1>. QED BY <1>1, <1>10, <1>12, OwnPart

LEMMA NumberKeeps ==
  ASSUME StringInv, Number
  PROVE  StringInv'
BY WidthKeeps, WidthDoneKeeps, DigitKeeps, NumberDoneKeeps DEF Number

LEMMA StringStep == StringInv /\ [Next]_vars => StringInv'
<1>. SUFFICES ASSUME StringInv, [Next]_vars PROVE StringInv'
  OBVIOUS
<1>1. CASE Begin
  <2>1. ASSUME NEW t \in Texts, NEW x \in Numbers, NumberCall("long", t, x) PROVE StringInv'
    <3>1. t \in Seq(Nat) /\ x \in Int
      BY StringAssumption
    <3>. QED BY <2>1, <3>1, NumberCallKeeps
  <2>2. ASSUME NEW x \in Numbers, NumberCall("uint", <<>>, x) PROVE StringInv'
    <3>1. <<>> \in Seq(Nat) /\ x \in Int
      BY StringAssumption
    <3>. QED BY <2>2, <3>1, NumberCallKeeps
  <2>. QED BY <1>1, <2>1, <2>2, FindCallKeeps, FilterCallKeeps, SplitCallKeeps, StripCallKeeps DEF Begin
<1>2. CASE UNCHANGED vars
  <2>1. Unwanted' = Unwanted
    BY <1>2 DEF vars, Unwanted
  <2>2. TypeOK'
    BY <1>2 DEF StringInv, TypeOK, vars
  <2>3. FindInv' /\ SplitInv' /\ StripInv'
    BY <1>2 DEF StringInv, FindInv, SplitInv, StripInv, At, vars
  <2>4. FilterInv'
    BY <1>2, <2>1 DEF StringInv, FilterInv, At, vars
  <2>5. NumberInv'
    BY <1>2 DEF StringInv, NumberInv, NumbersReadBack, At, Writing, vars
  <2>. QED BY <2>2, <2>3, <2>4, <2>5 DEF StringInv
<1>. QED BY <1>1, <1>2, FindKeeps, FilterKeeps, SplitKeeps, StripKeeps, NumberKeeps DEF Next

-----------------------------------------------------------------------------

\* FindsFirst: whatever the text and the pattern, __kmp_next reads no border it has
\* not written, lts_str_find none outside the table, and what it returns is the first
\* occurrence, or -1 if there is none.
THEOREM FindIsRight == Spec => []FindsFirst
<1>1. StringInv => FindsFirst
  <2>. SUFFICES ASSUME StringInv PROVE FindsFirst
    OBVIOUS
  <2>1. TypeOK /\ FindInv
    BY DEF StringInv
  <2>2. Len(pat) \in Nat /\ Len(text) \in Nat /\ i \in Int /\ j \in Int
    BY <2>1 DEF TypeOK
  <2>3. Filling => i \in 0 .. j - 1 /\ Len(next) = j + 1
    BY <2>1 DEF FindInv, Filling, Tried, Border, Table
  <2>4. ASSUME Searching PROVE i >= 0 /\ j \in -1 .. Len(next) - 1
    <3>1. Sought(text, pat, i, j) /\ j < Len(pat)
      BY <2>1, <2>4 DEF FindInv, Searching
    <3>2. PICK n \in Nat : n >= Len(pat) - 1 /\ Table(pat, next, n)
      BY <2>1, <2>4 DEF FindInv, Searching
    <3>3. Len(next) = n + 1 /\ i >= 0 /\ j >= -1
      BY <2>2, <3>1, <3>2 DEF Table, Sought
    <3>. QED BY <2>2, <3>1, <3>2, <3>3
  <2>5. At("find", "done") => First(text, pat, result)
    BY <2>1 DEF FindInv
  <2>. QED BY <2>1, <2>3, <2>4, <2>5 DEF FindsFirst, First
<1>. QED BY <1>1, StringInit, StringStep, PTL DEF Spec

\* FiltersInOrder: the two reversals of lts_str_filter and lts_str_filter_multi leave
\* exactly the wanted characters, in their order, whatever the string and the set.
THEOREM FilterIsRight == Spec => []FiltersInOrder
<1>1. StringInv => FiltersInOrder
  <2>. SUFFICES ASSUME StringInv, At("filter", "done")
                PROVE  /\ Picked(data, text, Wanted(text, Unwanted))
                       /\ result = Len(text) - Cardinality(Wanted(text, Unwanted))
    BY DEF FiltersInOrder, Wanted
  <2>. QED BY DEF StringInv, FilterInv, At
<1>. QED BY <1>1, StringInit, StringStep, PTL DEF Spec

\* SplitsRuns: the items that lts_str_split counts before it allocates are the ones it
\* stores, so that it never writes behind the array, and they are the stretches
\* between separators.
THEOREM SplitIsRight == Spec => []SplitsRuns
<1>1. StringInv => SplitsRuns
  <2>. SUFFICES ASSUME StringInv, fn = "split"
                PROVE  LET S == Starts(text, pat[1])
                       IN /\ result = Cardinality(S) /\ Len(items) <= result
                          /\ pc = "done" =>
                               /\ Len(items) = result
                               /\ \A k \in S : items[Rank(S, k)] = Item(text, pat[1], k)
    BY DEF SplitsRuns
  <2>1. /\ text \in Seq(Nat) /\ result = Cardinality(Starts(text, pat[1]))
        /\ Stored(text, pat[1], items, j) /\ (pc = "done" => j >= Len(text))
    BY DEF StringInv, TypeOK, SplitInv
  <2>. QED BY <2>1, SplitRoom
<1>. QED BY <1>1, StringInit, StringStep, PTL DEF Spec

\* CommentsGo: what parse_conf hands to the decoder is the file without the stretches
\* from a hash to the end of its line, whatever the file.
THEOREM StripIsRight == Spec => []CommentsGo
<1>1. StringInv => CommentsGo
  <2>. SUFFICES ASSUME StringInv, At("strip", "done") PROVE Picked(data, text, Plain(text))
    BY DEF CommentsGo, Plain
  <2>. QED BY DEF StringInv, StripInv
<1>. QED BY <1>1, StringInit, StringStep, PTL DEF Spec

\* NumbersReadBack: what lts_l2str and lts_uint322cstr write reads back as the number,
\* whatever the number, and the check of the room admits at most two characters more
\* than the string has.
THEOREM NumbersAreRight == Spec => []NumbersReadBack
<1>1. StringInv => NumbersReadBack
  BY DEF StringInv, NumberInv
<1>. QED BY <1>1, StringInit, StringStep, PTL DEF Spec

=============================================================================
