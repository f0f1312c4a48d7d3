------------------------------- MODULE MemPool -------------------------------
(***************************************************************************)
(* The memory pool: a list of blocks from which regions are cut off in     *)
(* order and given back all at once, when the pool is destroyed.           *)
(*                                                                         *)
(* An address is an offset into its block; posix_memalign starts blocks at *)
(* a page.  The numbers are those of a 64-bit build.                       *)
(***************************************************************************)
EXTENDS Integers, FiniteSets

CONSTANTS
  Size,       \* argument of lts_create_pool
  Requests,   \* arguments of lts_palloc
  MaxBlocks,  \* bounds of the model
  MaxGiven

MIN_POOL_SIZE == 4096
Word == 8       \* LTS_WORD
DataHdr == 32   \* sizeof(lts_pool_data_t)
Hdr == 48       \* sizeof(lts_pool_t)

\* The callers pass 4096, CONN_POOL_SIZE or MODULE_POOL_SIZE.
ASSUME PoolAssumption ==
  /\ Size \in Nat /\ Size % Word = 0
  /\ Requests \subseteq Nat
  /\ MaxBlocks \in Nat /\ MaxGiven \in Nat

VARIABLES
  n,        \* number of blocks in the list
  last,     \* [1 .. n -> Nat]: where the free area of each block begins
  failed,   \* [1 .. n -> Nat]: how often each block was too full
  current,  \* index of pool->current
  given,    \* history: the regions handed out
  leaked    \* blocks still allocated after lts_destroy_pool, or {0} before it

vars == <<n, last, failed, current, given, leaked>>

-----------------------------------------------------------------------------
\* LTS_ALIGN to a word
Align(x) == ((x + (Word - 1)) \div Word) * Word

FirstEnd == IF Size < MIN_POOL_SIZE THEN MIN_POOL_SIZE ELSE Size
max_size == FirstEnd - Hdr

\* Where block i ends: the first one as lts_create_pool sets it, a later one as
\* lts_palloc_block does
end(i) == IF i = 1 THEN FirstEnd ELSE Align(DataHdr + max_size)

\* Requests that fit behind the header every later block has room for
SafeSize == max_size - (Hdr - DataHdr)

\* lts_create_pool
Init ==
  /\ n = 1
  /\ last = [i \in 1 .. 1 |-> Align(Hdr)]
  /\ failed = [i \in 1 .. 1 |-> 0]
  /\ current = 1
  /\ given = {}
  /\ leaked = {0}

Live == leaked = {0}

\* (size_t)(p->end - p->last) >= size: a negative difference wraps around
Fits(i, size) == end(i) < last[i] \/ end(i) - last[i] >= size

Fitting(size) == {i \in current .. n : Fits(i, size)}

Region(i, lo, size) == [block |-> i, lo |-> lo, hi |-> lo + size]

\* Mutant: the free pointer moves by whole words only.
AdvanceShort(i, size) ==
  [j \in 1 .. n |-> IF j = i THEN last[j] + (size \div Word) * Word ELSE last[j]]

\* The free pointer of block i moves on.  The one that is rounded up is always
\* that of the first block.
Advance(i, size) ==
  [j \in 1 .. n |->
     LET l == IF j = i THEN last[j] + size ELSE last[j]
     IN IF j = 1 THEN Align(l) ELSE l]

\* lts_palloc cuts the region off the first block with room for it.
Cut(size) ==
  /\ Live /\ size <= max_size
  /\ \E i \in Fitting(size) :
       /\ \A j \in Fitting(size) : i <= j
       /\ given' = given \cup {Region(i, last[i], size)}
       /\ last' = Advance(i, size)
  /\ UNCHANGED <<n, failed, current, leaked>>

\* Mutant: a block is given up one failure too soon.
GivenUpEarly == {i \in current .. n - 1 : failed[i] + 1 > 3}

\* Every block from the current one on, but the last, fails once more; these
\* have failed often enough.
GivenUp == {i \in current .. n - 1 : failed[i] + 1 > 4}

\* A block that has failed five times is not tried again: the search starts
\* behind the last such block.
NextCurrent ==
  IF GivenUp = {} THEN {current}
  ELSE {i + 1 : i \in {g \in GivenUp : \A h \in GivenUp : h <= g}}

lts_palloc_block(size) ==
  /\ Live /\ size <= max_size
  /\ Fitting(size) = {}
  /\ n < MaxBlocks
  /\ n' = n + 1
  /\ given' = given \cup {Region(n + 1, Align(Hdr), size)}
  /\ last' = [i \in 1 .. n + 1 |->
                IF i <= n THEN last[i] ELSE Align(Align(Hdr) + size)]
  /\ failed' = [i \in 1 .. n + 1 |->
                  IF i > n THEN 0
                  ELSE IF i \in current .. n - 1 THEN failed[i] + 1 ELSE failed[i]]
  /\ current' \in NextCurrent
  /\ UNCHANGED leaked

\* The request is larger than a block, or memory is exhausted: NULL.
NoMemory(size) ==
  /\ Live
  /\ size > max_size \/ Fitting(size) = {}
  /\ UNCHANGED vars

lts_palloc(size) == Cut(size) \/ lts_palloc_block(size) \/ NoMemory(size)

\* The walk over the list stops at the block without a successor, and does not
\* free it.  The first block, which holds the pool, is freed at the end.
lts_destroy_pool ==
  /\ Live
  /\ leaked' = {i \in 2 .. n : i = n}
  /\ UNCHANGED <<n, last, failed, current, given>>

Next ==
  \/ Cardinality(given) < MaxGiven /\ \E size \in Requests : lts_palloc(size)
  \/ lts_destroy_pool

Spec == Init /\ [][Next]_vars

-----------------------------------------------------------------------------
(* Properties                                                               *)

TypeOK ==
  /\ n \in Nat \ {0}
  /\ last \in [1 .. n -> Nat]
  /\ failed \in [1 .. n -> Nat]
  /\ current \in 1 .. n
  /\ given \subseteq [block : 1 .. n, lo : Nat, hi : Nat]
  /\ leaked \subseteq Nat

\* No byte is handed out twice: two regions of a block do not overlap.
Disjoint ==
  \A g, h \in given :
    g = h \/ g.block # h.block \/ g.hi <= h.lo \/ h.hi <= g.lo

\* A region lies within its block, behind the block's header.
Contained ==
  \A g \in given : Hdr <= g.lo /\ g.lo <= g.hi /\ g.hi <= end(g.block)

\* Callers never write over each other's data, nor over the pool's.
RegionsSound == Disjoint /\ Contained

\* pool->current passes over a block only after it has failed five times, and
\* never passes over one that failed less.
GivenUpInOrder ==
  /\ \A i \in 1 .. current - 1 : failed[i] > 4
  /\ \A i \in current .. n : failed[i] <= 4
  /\ \A i \in 1 .. n - 1 : failed[i] >= failed[i + 1]

=============================================================================
