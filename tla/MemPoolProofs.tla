---------------------------- MODULE MemPoolProofs ----------------------------
(***************************************************************************)
(* Proofs about MemPool, for pools of any size, any set of requests and    *)
(* any number of blocks.                                                   *)
(***************************************************************************)
EXTENDS MemPool, TLAPS

(* Disjoint and Contained are not inductive.  A region is within its block  *)
(* and apart from the later ones because it ends before the free pointer,   *)
(* and the free pointer never passes the end of the block.                  *)

\* What callers have to respect: a request that a later block cannot hold is
\* refused (larger than max_size), or is small enough for a later block.
SafeRequests == \A r \in Requests : r <= SafeSize \/ r > max_size

PointerInBlock ==
  \A i \in 1 .. n : Hdr <= last[i] /\ last[i] <= end(i)

GivenBeforePointer ==
  \A g \in given : Hdr <= g.lo /\ g.lo <= g.hi /\ g.hi <= last[g.block]

PoolInv == TypeOK /\ PointerInBlock /\ GivenBeforePointer /\ Disjoint

(* GivenUpInOrder rests on how often exactly a block has failed: once for   *)
(* every block made since it got a successor.                               *)
FailedExactly ==
  /\ \A i \in 1 .. current - 1 : failed[i] = 5
  /\ \A i \in current .. n - 1 : failed[i] = n - 1 - i /\ failed[i] <= 4
  /\ failed[n] = 0

-----------------------------------------------------------------------------
\* LTS_ALIGN rounds up to a multiple of the word, by less than a word.
LEMMA AlignRange ==
  ASSUME NEW x \in Nat
  PROVE  Align(x) \in Nat /\ x <= Align(x) /\ Align(x) < x + 8 /\ Align(x) % 8 = 0
BY DEF Align, Word

\* LTS_ALIGN does not pass a multiple of the word.
LEMMA AlignBelow ==
  ASSUME NEW x \in Nat, NEW e \in Nat, x <= e, e % 8 = 0
  PROVE  Align(x) <= e
BY DEF Align, Word

\* The sizes of the blocks: later ones are as much shorter as the header of the
\* pool is longer than the header of a block.
LEMMA Sizes ==
  /\ FirstEnd \in Nat /\ FirstEnd >= 4096 /\ FirstEnd % 8 = 0
  /\ max_size = FirstEnd - 48
  /\ end(1) = FirstEnd
  /\ \A i \in Nat : i > 1 => end(i) = FirstEnd - 16
  /\ SafeSize = FirstEnd - 64
  /\ Align(Hdr) = 48
<1>1. FirstEnd \in Nat /\ FirstEnd >= 4096 /\ FirstEnd % 8 = 0
  BY PoolAssumption DEF FirstEnd, MIN_POOL_SIZE, Word
<1>2. max_size = FirstEnd - 48
  BY DEF max_size, Hdr
<1>3. end(1) = FirstEnd /\ \A i \in Nat : i > 1 => end(i) = FirstEnd - 16
  BY <1>1, <1>2 DEF end, Align, DataHdr, Word
<1>4. SafeSize = FirstEnd - 64
  BY <1>1, <1>2 DEF SafeSize, Hdr, DataHdr
<1>5. Align(Hdr) = 48
  BY DEF Align, Hdr, Word
<1>. QED BY <1>1, <1>2, <1>3, <1>4, <1>5

\* Blocks end at a word.
LEMMA EndAligned ==
  ASSUME NEW i \in Nat \ {0}
  PROVE  end(i) \in Nat /\ end(i) % 8 = 0
<1>1. CASE i = 1
  BY <1>1, Sizes
<1>2. CASE i # 1
  BY <1>2, Sizes
<1>. QED BY <1>1, <1>2

\* A new pool is empty.
LEMMA PoolInit == Init => PoolInv
<1>. SUFFICES ASSUME Init PROVE PoolInv
  OBVIOUS
<1>1. n = 1 /\ last = [i \in 1 .. 1 |-> 48] /\ given = {}
  BY Sizes DEF Init
<1>2. TypeOK
  BY <1>1 DEF Init, TypeOK
<1>3. PointerInBlock
  BY <1>1, Sizes DEF PointerInBlock, Hdr
<1>. QED BY <1>1, <1>2, <1>3 DEF PoolInv, GivenBeforePointer, Disjoint

-----------------------------------------------------------------------------
\* What cutting a region off block i does to the free pointers
LEMMA AdvanceBlocks ==
  ASSUME TypeOK, PointerInBlock, NEW size \in Nat, NEW i \in 1 .. n,
         Fits(i, size)
  PROVE  /\ Advance(i, size) \in [1 .. n -> Nat]
         /\ \A j \in 1 .. n : last[j] <= Advance(i, size)[j]
                             /\ Advance(i, size)[j] <= end(j)
         /\ last[i] + size <= Advance(i, size)[i]
<1>. DEFINE l(j) == IF j = i THEN last[j] + size ELSE last[j]
<1>1. \A j \in 1 .. n : last[j] \in Nat /\ end(j) \in Nat /\ end(j) % 8 = 0
  BY EndAligned DEF TypeOK
<1>2. \A j \in 1 .. n : l(j) \in Nat /\ last[j] <= l(j) /\ l(j) <= end(j)
  BY <1>1 DEF PointerInBlock, Fits
<1>3. \A j \in 1 .. n : /\ Align(l(j)) \in Nat
                        /\ l(j) <= Align(l(j)) /\ Align(l(j)) <= end(j)
  BY <1>1, <1>2, AlignRange, AlignBelow
<1>4. Advance(i, size) = [j \in 1 .. n |-> IF j = 1 THEN Align(l(j)) ELSE l(j)]
  BY DEF Advance
<1>5. l(i) = last[i] + size
  OBVIOUS
<1>. HIDE DEF l
<1>. QED BY <1>1, <1>2, <1>3, <1>4, <1>5

\* A region cut off a block starts where all earlier ones of the block have
\* ended.
LEMMA CutStep ==
  ASSUME PoolInv, NEW size \in Nat, Cut(size)
  PROVE  PoolInv'
<1>1. PICK i \in Fitting(size) :
        given' = given \cup {Region(i, last[i], size)} /\ last' = Advance(i, size)
  BY DEF Cut
<1>2. i \in 1 .. n /\ Fits(i, size) /\ n' = n
  BY <1>1 DEF Fitting, PoolInv, TypeOK, Cut
<1>3. /\ last' \in [1 .. n -> Nat]
      /\ \A j \in 1 .. n : last[j] <= last'[j] /\ last'[j] <= end(j)
      /\ last[i] + size <= last'[i]
  BY <1>1, <1>2, AdvanceBlocks DEF PoolInv
<1>4. \A j \in 1 .. n : last[j] \in Nat /\ last'[j] \in Nat /\ Hdr <= last[j]
  BY <1>3 DEF PoolInv, TypeOK, PointerInBlock
<1>. DEFINE new == Region(i, last[i], size)
<1>5. new = [block |-> i, lo |-> last[i], hi |-> last[i] + size]
  BY DEF Region
<1>6. TypeOK'
  <2>1. new \in [block : 1 .. n, lo : Nat, hi : Nat]
    BY <1>2, <1>4, <1>5
  <2>. QED BY <1>1, <1>2, <1>3, <2>1 DEF Cut, PoolInv, TypeOK
<1>7. PointerInBlock'
  BY <1>2, <1>3, <1>4, EndAligned DEF PointerInBlock, Hdr, end
<1>8. \A g \in given : /\ g.block \in 1 .. n /\ g.lo \in Nat /\ g.hi \in Nat
                       /\ Hdr <= g.lo /\ g.lo <= g.hi /\ g.hi <= last[g.block]
  BY DEF PoolInv, TypeOK, GivenBeforePointer
<1>9. GivenBeforePointer'
  <2>. SUFFICES ASSUME NEW g \in given'
                PROVE  Hdr <= g.lo /\ g.lo <= g.hi /\ g.hi <= last'[g.block]
    BY DEF GivenBeforePointer
  <2>1. CASE g \in given
    BY <2>1, <1>3, <1>4, <1>8
  <2>2. CASE g = new
    BY <2>2, <1>2, <1>3, <1>4, <1>5 DEF Hdr
  <2>. QED BY <2>1, <2>2, <1>1
<1>10. Disjoint'
  <2>1. \A g \in given : g.block = new.block => g.hi <= new.lo
    BY <1>5, <1>8
  <2>. QED BY <2>1, <1>1 DEF PoolInv, Disjoint
<1>. QED BY <1>6, <1>7, <1>9, <1>10 DEF PoolInv

\* The search for a block moves within the list.
LEMMA CurrentStep ==
  ASSUME TypeOK, NEW size \in Nat, lts_palloc_block(size)
  PROVE  current' \in 1 .. n + 1
<1>1. GivenUp \subseteq 1 .. n - 1
  BY DEF GivenUp, TypeOK
<1>. QED BY <1>1 DEF lts_palloc_block, NextCurrent, TypeOK

\* A new block holds the region it is made for, if the request is safe.
LEMMA NewBlockStep ==
  ASSUME PoolInv, NEW size \in Nat, size <= SafeSize \/ size > max_size,
         lts_palloc_block(size)
  PROVE  PoolInv'
<1>. DEFINE new == Region(n + 1, Align(Hdr), size)
            l == Align(48 + size)
<1>1. size <= FirstEnd - 64
  BY Sizes DEF lts_palloc_block
<1>2. n \in Nat /\ n >= 1 /\ n' = n + 1 /\ n + 1 \in Nat \ {0}
  BY DEF PoolInv, TypeOK, lts_palloc_block
<1>3. l \in Nat /\ 48 + size <= l /\ l <= end(n + 1)
  <2>1. end(n + 1) = FirstEnd - 16
    BY <1>2, Sizes
  <2>2. end(n + 1) \in Nat /\ end(n + 1) % 8 = 0 /\ 48 + size \in Nat
        /\ 48 + size <= end(n + 1)
    BY <1>1, <1>2, <2>1, Sizes, EndAligned
  <2>. QED BY <2>2, AlignRange, AlignBelow
<1>. HIDE DEF l
<1>4. /\ last' \in [1 .. n + 1 -> Nat]
      /\ \A i \in 1 .. n : last'[i] = last[i]
      /\ last'[n + 1] = l
  <2>1. last' = [i \in 1 .. n + 1 |-> IF i <= n THEN last[i] ELSE l]
    BY Sizes DEF lts_palloc_block, l
  <2>2. last \in [1 .. n -> Nat]
    BY DEF PoolInv, TypeOK
  <2>. QED BY <1>2, <1>3, <2>1, <2>2
<1>5. new = [block |-> n + 1, lo |-> 48, hi |-> 48 + size]
  BY Sizes DEF Region
<1>6. given' = given \cup {new}
  BY DEF lts_palloc_block
<1>7. \A g \in given : /\ g.block \in 1 .. n /\ g.lo \in Nat /\ g.hi \in Nat
                       /\ Hdr <= g.lo /\ g.lo <= g.hi /\ g.hi <= last[g.block]
  BY DEF PoolInv, TypeOK, GivenBeforePointer
<1>8. TypeOK'
  <2>1. current' \in 1 .. n + 1
    BY CurrentStep DEF PoolInv
  <2>2. given' \subseteq [block : 1 .. n + 1, lo : Nat, hi : Nat]
    <3>1. given \subseteq [block : 1 .. n + 1, lo : Nat, hi : Nat]
      BY <1>2 DEF PoolInv, TypeOK
    <3>. QED BY <1>2, <1>5, <1>6, <3>1
  <2>3. leaked' \subseteq Nat
    BY DEF lts_palloc_block, PoolInv, TypeOK
  <2>4. failed' \in [1 .. n + 1 -> Nat]
    BY <1>2 DEF lts_palloc_block, PoolInv, TypeOK
  <2>. QED BY <1>2, <1>4, <2>1, <2>2, <2>3, <2>4 DEF TypeOK
<1>9. PointerInBlock'
  <2>. SUFFICES ASSUME NEW i \in 1 .. n + 1
                PROVE  Hdr <= last'[i] /\ last'[i] <= end(i)
    BY <1>2 DEF PointerInBlock, end
  <2>1. CASE i <= n
    BY <2>1, <1>2, <1>4 DEF PoolInv, PointerInBlock
  <2>2. CASE i = n + 1
    BY <2>2, <1>2, <1>3, <1>4, EndAligned DEF Hdr
  <2>. QED BY <1>2, <2>1, <2>2
<1>10. GivenBeforePointer'
  <2>. SUFFICES ASSUME NEW g \in given'
                PROVE  Hdr <= g.lo /\ g.lo <= g.hi /\ g.hi <= last'[g.block]
    BY DEF GivenBeforePointer
  <2>1. CASE g \in given
    BY <2>1, <1>4, <1>7
  <2>2. CASE g = new
    BY <2>2, <1>3, <1>4, <1>5 DEF Hdr
  <2>. QED BY <2>1, <2>2, <1>6
<1>11. Disjoint'
  <2>1. \A g \in given : g.block # new.block
    BY <1>2, <1>5, <1>7
  <2>. QED BY <2>1, <1>6 DEF PoolInv, Disjoint
<1>. QED BY <1>8, <1>9, <1>10, <1>11 DEF PoolInv

\* Every step keeps the invariant.
LEMMA PoolStep == SafeRequests /\ PoolInv /\ [Next]_vars => PoolInv'
<1>. SUFFICES ASSUME SafeRequests, PoolInv, [Next]_vars PROVE PoolInv'
  OBVIOUS
<1>1. ASSUME NEW size \in Requests, Cut(size) PROVE PoolInv'
  BY <1>1, CutStep, PoolAssumption
<1>2. ASSUME NEW size \in Requests, lts_palloc_block(size) PROVE PoolInv'
  BY <1>2, NewBlockStep, PoolAssumption DEF SafeRequests
<1>3. ASSUME UNCHANGED vars PROVE PoolInv'
  BY <1>3 DEF vars, PoolInv, TypeOK, PointerInBlock, GivenBeforePointer, Disjoint, end
<1>4. CASE lts_destroy_pool
  <2>1. TypeOK'
    BY <1>4 DEF lts_destroy_pool, PoolInv, TypeOK
  <2>. QED BY <1>4, <2>1
       DEF lts_destroy_pool, PoolInv, PointerInBlock, GivenBeforePointer, Disjoint, end
<1>. QED BY <1>1, <1>2, <1>3, <1>4 DEF Next, lts_palloc, NoMemory

\* No byte is handed out twice and no region leaves its block, provided no
\* request falls into the 16 bytes that later blocks lack.
THEOREM PoolSafe ==
  ASSUME SafeRequests
  PROVE  Spec => []RegionsSound
<1>1. Init => PoolInv
  BY PoolInit
<1>2. PoolInv /\ [Next]_vars => PoolInv'
  BY PoolStep
<1>3. PoolInv => RegionsSound
  <2>. SUFFICES ASSUME PoolInv, NEW g \in given
                PROVE  Hdr <= g.lo /\ g.lo <= g.hi /\ g.hi <= end(g.block)
    BY DEF PoolInv, RegionsSound, Contained
  <2>1. g.block \in 1 .. n /\ g.lo \in Nat /\ g.hi \in Nat
    BY DEF PoolInv, TypeOK
  <2>2. end(g.block) \in Nat /\ last[g.block] \in Nat
    BY <2>1, EndAligned DEF PoolInv, TypeOK
  <2>. QED BY <2>1, <2>2 DEF PoolInv, PointerInBlock, GivenBeforePointer
<1>. QED BY <1>1, <1>2, <1>3, PTL DEF Spec

-----------------------------------------------------------------------------
\* Every step keeps the types, whatever is requested.
LEMMA TypeStep == TypeOK /\ [Next]_vars => TypeOK'
<1>. SUFFICES ASSUME TypeOK, [Next]_vars PROVE TypeOK'
  OBVIOUS
<1>. USE PoolAssumption
<1>1. ASSUME NEW size \in Requests, Cut(size) PROVE TypeOK'
  <2>1. PICK i \in Fitting(size) :
          given' = given \cup {Region(i, last[i], size)} /\ last' = Advance(i, size)
    BY <1>1 DEF Cut
  <2>2. i \in 1 .. n /\ size \in Nat
    BY DEF Fitting, TypeOK
  <2>3. Advance(i, size) \in [1 .. n -> Nat]
    <3>1. \A j \in 1 .. n : last[j] \in Nat /\ last[j] + size \in Nat
      BY <2>2 DEF TypeOK
    <3>. QED BY <3>1, AlignRange DEF Advance
  <2>4. Region(i, last[i], size) \in [block : 1 .. n, lo : Nat, hi : Nat]
    BY <2>2 DEF Region, TypeOK
  <2>. QED BY <1>1, <2>1, <2>3, <2>4 DEF Cut, TypeOK
<1>2. ASSUME NEW size \in Requests, lts_palloc_block(size) PROVE TypeOK'
  <2>1. current' \in 1 .. n + 1 /\ size \in Nat
    BY <1>2, CurrentStep
  <2>2. Align(48 + size) \in Nat
    BY <2>1, AlignRange
  <2>3. last' \in [1 .. n + 1 -> Nat] /\ failed' \in [1 .. n + 1 -> Nat]
    <3>1. last' = [i \in 1 .. n + 1 |-> IF i <= n THEN last[i] ELSE Align(48 + size)]
      BY <1>2, Sizes DEF lts_palloc_block
    <3>2. last' \in [1 .. n + 1 -> Nat]
      BY <2>2, <3>1 DEF TypeOK
    <3>3. failed' \in [1 .. n + 1 -> Nat]
      BY <1>2 DEF lts_palloc_block, TypeOK
    <3>. QED BY <3>2, <3>3
  <2>4. given' \subseteq [block : 1 .. n + 1, lo : Nat, hi : Nat]
    <3>1. Region(n + 1, Align(Hdr), size) = [block |-> n + 1, lo |-> 48, hi |-> 48 + size]
      BY Sizes DEF Region
    <3>2. given \subseteq [block : 1 .. n + 1, lo : Nat, hi : Nat]
      BY DEF TypeOK
    <3>. QED BY <1>2, <2>1, <3>1, <3>2 DEF lts_palloc_block, TypeOK
  <2>. QED BY <1>2, <2>1, <2>3, <2>4 DEF lts_palloc_block, TypeOK
<1>3. ASSUME UNCHANGED vars PROVE TypeOK'
  BY <1>3 DEF vars, TypeOK
<1>4. CASE lts_destroy_pool
  BY <1>4 DEF lts_destroy_pool, TypeOK
<1>. QED BY <1>1, <1>2, <1>3, <1>4 DEF Next, lts_palloc, NoMemory

\* A new block raises every count from the current block on by one.
LEMMA FailedStep ==
  TypeOK /\ FailedExactly /\ [Next]_vars => FailedExactly'
<1>. SUFFICES ASSUME TypeOK, FailedExactly, [Next]_vars PROVE FailedExactly'
  OBVIOUS
<1>1. ASSUME NEW size \in Requests, lts_palloc_block(size) PROVE FailedExactly'
  <2>1. n \in Nat /\ n >= 1 /\ current \in 1 .. n /\ n' = n + 1
    BY <1>1 DEF TypeOK, lts_palloc_block
  <2>2. \A i \in 1 .. n : failed[i] \in Nat
    BY DEF TypeOK
  <2>3. /\ failed'[n + 1] = 0
        /\ \A i \in 1 .. n : failed'[i] = IF i \in current .. n - 1
                                         THEN failed[i] + 1 ELSE failed[i]
    BY <1>1, <2>1 DEF lts_palloc_block
  <2>4. GivenUp = IF current = n - 5 THEN {current} ELSE {}
    BY <2>1, <2>2 DEF GivenUp, FailedExactly
  <2>5. current' = IF current = n - 5 THEN current + 1 ELSE current
    BY <1>1, <2>1, <2>4 DEF lts_palloc_block, NextCurrent
  <2>6. \A i \in 1 .. current' - 1 : failed'[i] = 5
    BY <2>1, <2>2, <2>3, <2>5 DEF FailedExactly
  <2>7. \A i \in current' .. n : failed'[i] = n - i /\ failed'[i] <= 4
    BY <2>1, <2>2, <2>3, <2>5 DEF FailedExactly
  <2>. QED BY <2>1, <2>3, <2>6, <2>7 DEF FailedExactly
<1>2. ASSUME UNCHANGED <<n, failed, current>> PROVE FailedExactly'
  BY <1>2 DEF FailedExactly
<1>. QED BY <1>1, <1>2
     DEF Next, lts_palloc, Cut, NoMemory, lts_destroy_pool, vars

\* A block is passed over exactly when it has failed five times, and earlier
\* blocks have never failed less often than later ones.
THEOREM PoolGivesUpInOrder == Spec => [](TypeOK /\ GivenUpInOrder)
<1>1. Init => TypeOK /\ FailedExactly
  BY PoolInit DEF Init, PoolInv, FailedExactly
<1>2. TypeOK /\ FailedExactly /\ [Next]_vars => TypeOK' /\ FailedExactly'
  BY TypeStep, FailedStep
<1>3. TypeOK /\ FailedExactly => GivenUpInOrder
  <2>. SUFFICES ASSUME TypeOK, FailedExactly PROVE GivenUpInOrder
    OBVIOUS
  <2>1. n \in Nat /\ n >= 1 /\ current \in 1 .. n /\ \A i \in 1 .. n : failed[i] \in Nat
    BY DEF TypeOK
  <2>2. \A i \in 1 .. n - 1 : failed[i] >= failed[i + 1]
    BY <2>1 DEF FailedExactly
  <2>. QED BY <2>1, <2>2 DEF FailedExactly, GivenUpInOrder
<1>. QED BY <1>1, <1>2, <1>3, PTL DEF Spec
=============================================================================
