--------------------------- MODULE WorkerLoopProofs ---------------------------
(***************************************************************************)
(* Proofs about WorkerLoop, for any number of connections, any keepalive   *)
(* time and any backlog.                                                   *)
(***************************************************************************)
EXTENDS WorkerLoop, FiniteSetTheorems, SequenceTheorems, WellFoundedInduction, TLAPS

Once(list) == \A i, j \in 1 .. Len(list) : list[i] = list[j] => i = j

Walking == pc \in {"walk", "write", "clean"}

Types ==
  /\ pc \in {"events", "walk", "write", "clean", "timers", "crashed", "asserted"}
  /\ backlog \in 0 .. MaxBacklog
  /\ pos \in Sock \cup {End} /\ next \in Sock \cup {End}
  /\ open \subseteq Conn /\ armed \subseteq Conn /\ out \subseteq Conn /\ heap \subseteq Conn
  /\ readable \subseteq Sock /\ writable \subseteq Conn
  /\ edges \subseteq Sock \X {"in", "out"}
  /\ in \in [Conn -> {"none", "unread", "read", "fin"}]
  /\ post \in Seq(Sock)
  /\ key \in [Conn -> Int]

\* Only open connections have input, output or events; a listener is never written.
Live ==
  /\ out \subseteq open
  /\ \A c \in Conn : in[c] # "none" => c \in open
  /\ \A e \in edges : e[1] \in open \cup {Listener} /\ (e[2] = "out" => e[1] \in Conn)

Listed ==
  /\ Once(post)
  /\ OnPost \subseteq open \cup {Listener}
  /\ readable \cup writable \subseteq OnPost

\* The saved successor is on the post list, and it is not the socket visited: a
\* visit that closes its socket leaves it there.
Walk ==
  /\ Walking => next \in OnPost \cup {End} /\ (next # End => next # pos)
  /\ pc = "write" => pos \in Sock

LoopInv == Types /\ Live /\ Listed /\ Walk /\ TimersKept

-----------------------------------------------------------------------------
(* Lists *)

LEMMA ToSetIs ==
  ASSUME NEW S, NEW list \in Seq(S)
  PROVE  /\ ToSet(list) = {list[i] : i \in 1 .. Len(list)} /\ Len(list) \in Nat
         /\ ToSet(list) \subseteq S
         /\ \A i \in 1 .. Len(list) : list[i] \in S
BY DEF ToSet

\* The place of a socket on a list
LEMMA IndexProperties ==
  ASSUME NEW S, NEW list \in Seq(S), NEW s \in ToSet(list)
  PROVE  Index(list, s) \in 1 .. Len(list) /\ list[Index(list, s)] = s
<1>1. \E i \in DOMAIN list : list[i] = s
  BY DEF ToSet
<1>2. Index(list, s) \in DOMAIN list /\ list[Index(list, s)] = s
  BY <1>1, Zenon DEF Index
<1>. QED BY <1>2

\* What is left of a sequence when its k-th element is taken out
LEMMA RemoveAtProperties ==
  ASSUME NEW S, NEW list \in Seq(S), NEW k \in 1 .. Len(list)
  PROVE  /\ RemoveAt(list, k) \in Seq(S) /\ Len(RemoveAt(list, k)) = Len(list) - 1
         /\ \A i \in 1 .. Len(list) - 1 :
              RemoveAt(list, k)[i] = IF i < k THEN list[i] ELSE list[i + 1]
<1>. DEFINE a == SubSeq(list, 1, k - 1)
            z == SubSeq(list, k + 1, Len(list))
            r == a \o z
<1>1. Len(list) \in Nat /\ \A i \in 1 .. Len(list) : list[i] \in S
  OBVIOUS
<1>2. a \in Seq(S) /\ Len(a) = k - 1 /\ \A i \in 1 .. k - 1 : a[i] = list[i]
  <2>1. k - 1 \in Nat /\ \A i \in 1 .. k - 1 : list[i] \in S
    BY <1>1
  <2>. QED BY <1>1, <2>1, SubSeqProperties
<1>3. /\ z \in Seq(S) /\ Len(z) = Len(list) - k
      /\ \A i \in 1 .. Len(list) - k : z[i] = list[k + i]
  <2>1. \A i \in k + 1 .. Len(list) : list[i] \in S
    BY <1>1
  <2>. QED BY <1>1, <2>1, SubSeqProperties
<1>. HIDE DEF a, z
<1>4. /\ r \in Seq(S) /\ Len(r) = Len(a) + Len(z)
      /\ \A i \in 1 .. Len(a) + Len(z) : r[i] = IF i <= Len(a) THEN a[i] ELSE z[i - Len(a)]
  <2>1. a \in Seq(S) /\ z \in Seq(S)
    BY <1>2, <1>3
  <2>. QED BY <2>1, ConcatProperties
<1>. HIDE DEF r
<1>5. Len(r) = Len(list) - 1
  BY <1>1, <1>2, <1>3, <1>4
<1>6. ASSUME NEW i \in 1 .. Len(list) - 1
      PROVE  r[i] = IF i < k THEN list[i] ELSE list[i + 1]
  <2>1. CASE i < k
    <3>1. i \in 1 .. Len(a) + Len(z) /\ i <= Len(a) /\ i \in 1 .. k - 1
      BY <1>1, <1>2, <1>3, <2>1
    <3>. QED BY <1>2, <1>4, <2>1, <3>1
  <2>2. CASE ~(i < k)
    <3>1. /\ i \in 1 .. Len(a) + Len(z) /\ ~(i <= Len(a)) /\ i - Len(a) \in 1 .. Len(list) - k
          /\ k + (i - Len(a)) = i + 1
      BY <1>1, <1>2, <1>3, <2>2
    <3>2. r[i] = z[i - Len(a)]
      BY <1>4, <3>1
    <3>3. z[i - Len(a)] = list[i + 1]
      BY <1>3, <3>1
    <3>. QED BY <2>2, <3>2, <3>3
  <2>. QED BY <2>1, <2>2
<1>7. RemoveAt(list, k) = r
  BY DEF RemoveAt, r, a, z
<1>. QED BY <1>4, <1>5, <1>6, <1>7

\* dlist_del takes a socket that is linked once off its list, and no other.
LEMMA UnlinkedProperties ==
  ASSUME NEW list \in Seq(Sock), Once(list), NEW s
  PROVE  /\ Unlinked(list, s) \in Seq(Sock) /\ Once(Unlinked(list, s))
         /\ ToSet(Unlinked(list, s)) = ToSet(list) \ {s}
<1>1. CASE s \notin ToSet(list)
  BY <1>1 DEF Unlinked
<1>2. CASE s \in ToSet(list)
  <2>. DEFINE k == Index(list, s)
              r == RemoveAt(list, k)
  <2>1. Unlinked(list, s) = r
    BY <1>2 DEF Unlinked
  <2>2. k \in 1 .. Len(list) /\ list[k] = s /\ Len(list) \in Nat
    BY <1>2, IndexProperties
  <2>. HIDE DEF k
  <2>3. /\ r \in Seq(Sock) /\ Len(r) = Len(list) - 1
        /\ \A i \in 1 .. Len(list) - 1 : r[i] = IF i < k THEN list[i] ELSE list[i + 1]
    BY <2>2, RemoveAtProperties
  <2>. HIDE DEF r
  <2>. DEFINE o(i) == IF i < k THEN i ELSE i + 1
  <2>4. ASSUME NEW i \in 1 .. Len(r)
        PROVE  o(i) \in 1 .. Len(list) /\ o(i) # k /\ r[i] = list[o(i)]
    <3>1. i \in 1 .. Len(list) - 1
      BY <2>2, <2>3
    <3>2. CASE i < k
      BY <2>2, <2>3, <3>1, <3>2
    <3>3. CASE ~(i < k)
      BY <2>2, <2>3, <3>1, <3>3
    <3>. QED BY <3>2, <3>3
  <2>5. \A i, j \in 1 .. Len(r) : o(i) = o(j) => i = j
    BY <2>2, <2>3
  <2>6. ASSUME NEW m \in 1 .. Len(list), m # k PROVE \E i \in 1 .. Len(r) : o(i) = m
    <3>1. CASE m < k
      <4>1. m \in 1 .. Len(r) /\ o(m) = m
        BY <2>2, <2>3, <3>1
      <4>. QED BY <4>1
    <3>2. CASE ~(m < k)
      <4>1. m - 1 \in 1 .. Len(r) /\ o(m - 1) = m
        BY <2>2, <2>3, <2>6, <3>2
      <4>. QED BY <4>1
    <3>. QED BY <3>1, <3>2
  <2>. HIDE DEF o
  <2>7. Once(r)
    BY <2>4, <2>5 DEF Once
  <2>8. ToSet(r) = ToSet(list) \ {s}
    <3>1. ToSet(r) = {r[i] : i \in 1 .. Len(r)} /\ ToSet(list) = {list[i] : i \in 1 .. Len(list)}
      BY <2>3, ToSetIs
    <3>2. ASSUME NEW x \in ToSet(r) PROVE x \in ToSet(list) \ {s}
      <4>1. PICK i \in 1 .. Len(r) : x = r[i]
        BY <3>1
      <4>2. o(i) \in 1 .. Len(list) /\ x = list[o(i)] /\ o(i) # k
        BY <2>4, <4>1
      <4>3. x # s
        BY <2>2, <4>2 DEF Once
      <4>. QED BY <3>1, <4>2, <4>3
    <3>3. ASSUME NEW x \in ToSet(list) \ {s} PROVE x \in ToSet(r)
      <4>1. PICK m \in 1 .. Len(list) : x = list[m]
        BY <3>1
      <4>2. PICK i \in 1 .. Len(r) : o(i) = m
        BY <2>2, <2>6, <4>1
      <4>3. r[i] = x
        BY <2>4, <4>1, <4>2
      <4>. QED BY <3>1, <4>3
    <3>. QED BY <3>2, <3>3
  <2>. QED BY <2>1, <2>3, <2>7, <2>8
<1>. QED BY <1>1, <1>2

\* lts_post_list_add puts a socket on the list, at its end, once.
LEMMA PostedProperties ==
  ASSUME NEW list \in Seq(Sock), Once(list), NEW s \in Sock
  PROVE  /\ Append(Unlinked(list, s), s) \in Seq(Sock)
         /\ Once(Append(Unlinked(list, s), s))
         /\ ToSet(Append(Unlinked(list, s), s)) = ToSet(list) \cup {s}
<1>. DEFINE u == Unlinked(list, s)
            a == Append(u, s)
<1>1. u \in Seq(Sock) /\ Once(u) /\ ToSet(u) = ToSet(list) \ {s}
  BY UnlinkedProperties
<1>. HIDE DEF u
<1>2. /\ a \in Seq(Sock) /\ Len(a) = Len(u) + 1 /\ a[Len(u) + 1] = s /\ Len(u) \in Nat
      /\ \A i \in 1 .. Len(u) : a[i] = u[i]
  BY <1>1, AppendProperties
<1>. HIDE DEF a
<1>3. /\ ToSet(u) = {u[i] : i \in 1 .. Len(u)} /\ ToSet(a) = {a[i] : i \in 1 .. Len(a)}
  BY <1>1, <1>2, ToSetIs
<1>4. \A i \in 1 .. Len(a) : i \in 1 .. Len(u) \/ i = Len(u) + 1
  BY <1>2
<1>5. \A i \in 1 .. Len(u) : u[i] # s /\ i \in 1 .. Len(a)
  BY <1>1, <1>2, <1>3
<1>6. Once(a)
  <2>1. ASSUME NEW i \in 1 .. Len(a), NEW j \in 1 .. Len(a), a[i] = a[j] PROVE i = j
    <3>1. CASE i \in 1 .. Len(u) /\ j \in 1 .. Len(u)
      BY <1>1, <1>2, <2>1, <3>1 DEF Once
    <3>2. CASE i = Len(u) + 1 \/ j = Len(u) + 1
      BY <1>2, <1>4, <1>5, <2>1, <3>2
    <3>. QED BY <1>4, <3>1, <3>2
  <2>. QED BY <2>1 DEF Once
<1>7. ToSet(a) = ToSet(u) \cup {s}
  <2>1. \A x \in ToSet(a) : x \in ToSet(u) \cup {s}
    BY <1>2, <1>3, <1>4
  <2>2. \A x \in ToSet(u) : x \in ToSet(a)
    BY <1>2, <1>3, <1>5
  <2>3. s \in ToSet(a)
    <3>1. Len(u) + 1 \in 1 .. Len(a)
      BY <1>2
    <3>. QED BY <1>2, <1>3, <3>1
  <2>. QED BY <2>1, <2>2, <2>3
<1>. QED BY <1>1, <1>2, <1>6, <1>7 DEF a, u

\* The successor of a socket is another one, or the head of the list.
LEMMA SuccessorProperties ==
  ASSUME NEW list \in Seq(Sock), Once(list), NEW s
  PROVE  Successor(list, s) \in ToSet(list) \cup {End}
         /\ (Successor(list, s) # End => Successor(list, s) # s)
<1>1. CASE s \in ToSet(list) /\ Index(list, s) < Len(list)
  <2>. DEFINE k == Index(list, s)
  <2>1. k \in 1 .. Len(list) /\ list[k] = s /\ Len(list) \in Nat
    BY <1>1, IndexProperties
  <2>2. Successor(list, s) = list[k + 1] /\ k < Len(list)
    BY <1>1 DEF Successor
  <2>. HIDE DEF k
  <2>3. k + 1 \in 1 .. Len(list) /\ k + 1 # k
    BY <2>1, <2>2
  <2>4. list[k + 1] \in ToSet(list)
    BY <2>3, ToSetIs
  <2>5. list[k + 1] # s
    BY <2>1, <2>3 DEF Once
  <2>. QED BY <2>2, <2>4, <2>5
<1>2. CASE ~(s \in ToSet(list) /\ Index(list, s) < Len(list))
  BY <1>2 DEF Successor
<1>. QED BY <1>1, <1>2

LEMMA FirstProperties ==
  ASSUME NEW list \in Seq(Sock)
  PROVE  First(list) \in ToSet(list) \cup {End}
<1>1. CASE list = <<>>
  BY <1>1 DEF First
<1>2. CASE list # <<>>
  <2>1. 1 \in 1 .. Len(list) /\ First(list) = list[1]
    BY <1>2 DEF First
  <2>. QED BY <2>1, ToSetIs
<1>. QED BY <1>1, <1>2

-----------------------------------------------------------------------------
(* Timers *)

\* With fewer timers than keys to try, one of them is free: the loop around
\* lts_timer_reset ends, and the node gets a key of its own.
LEMMA FreeKeyProperties ==
  ASSUME key \in [Conn -> Int], heap \subseteq Conn, NEW c, NEW k \in Int
  PROVE  FreeKey(c, k) \in Int /\ FreeKey(c, k) \notin Taken(c)
<1>. DEFINE N == Cardinality(Conn)
            H == heap \ {c}
            S == {k + i : i \in 0 .. N} \ Taken(c)
<1>1. N \in Nat /\ IsFiniteSet(Conn)
  BY LoopAssumption, FS_CardinalityType
<1>2. IsFiniteSet(H) /\ Cardinality(H) \in Nat /\ Cardinality(H) <= N
  <2>1. H \in SUBSET Conn
    OBVIOUS
  <2>. QED BY <1>1, <2>1, FS_Subset, FS_CardinalityType
<1>3. IsFiniteSet(0 .. N) /\ Cardinality(0 .. N) = N + 1
  <2>1. 0 \in Int /\ N \in Int /\ ~(0 > N) /\ N - 0 + 1 = N + 1
    BY <1>1
  <2>. QED BY <2>1, FS_Interval
<1>. HIDE DEF N
<1>4. \E i \in 0 .. N : k + i \notin Taken(c)
  <2>. SUFFICES ASSUME \A i \in 0 .. N : k + i \in Taken(c) PROVE FALSE
    OBVIOUS
  <2>. DEFINE f == [i \in 0 .. N |-> CHOOSE d \in H : key[d] = k + i]
  <2>1. ASSUME NEW i \in 0 .. N PROVE f[i] \in H /\ key[f[i]] = k + i
    <3>1. \E d \in H : key[d] = k + i
      BY DEF Taken
    <3>. QED BY <3>1
  <2>2. f \in [0 .. N -> H]
    BY <2>1
  <2>. HIDE DEF f
  <2>3. Cardinality(H) < Cardinality(0 .. N)
    BY <1>1, <1>2, <1>3
  <2>4. PICK x \in 0 .. N, y \in 0 .. N : x # y /\ f[x] = f[y]
    BY <1>2, <1>3, <2>2, <2>3, FS_PigeonHole
  <2>5. k + x = k + y
    BY <2>1, <2>4
  <2>. QED BY <1>1, <2>4, <2>5
<1>. DEFINE I == {i \in 0 .. N : k + i \notin Taken(c)}
<1>5. I \in SUBSET Nat /\ I # {}
  <2>1. 0 .. N \subseteq Nat
    BY <1>1
  <2>. QED BY <1>4, <2>1, Zenon
<1>6. PICK i \in I : \A j \in I : ~ (<<j, i>> \in OpToRel(<, Nat))
  BY <1>5, NatLessThanWellFounded, WFMin
<1>7. \A j \in I : j \in Nat /\ i \in Nat /\ ~(j < i)
  BY <1>5, <1>6, Zenon DEF OpToRel
<1>8. k + i \in S
  BY <1>6
<1>9. \A y \in S : k + i <= y
  <2>1. ASSUME NEW j \in 0 .. N, k + j \in S PROVE k + i <= k + j
    <3>1. j \in I
      BY <2>1
    <3>2. ~(j < i) /\ j \in Nat /\ i \in Nat
      BY <1>7, <3>1
    <3>. QED BY <3>2
  <2>. QED BY <2>1
<1>10. S \subseteq Int
  BY <1>1
<1>11. FreeKey(c, k) = Min(S)
  BY DEF FreeKey, N
<1>. HIDE DEF S
<1>12. Min(S) \in S
  BY <1>8, <1>9 DEF Min
<1>. QED BY <1>10, <1>11, <1>12 DEF S

\* lts_timer_reset puts the node into the heap, under a key that no other node has.
LEMMA TimerResetProperties ==
  ASSUME key \in [Conn -> Int], heap \subseteq Conn, NEW c \in Conn, NEW k \in Int,
         TimerReset(c, k), \A a, b \in heap : key[a] = key[b] => a = b
  PROVE  /\ key' \in [Conn -> Int] /\ heap' = heap \cup {c}
         /\ \A a, b \in heap' : key'[a] = key'[b] => a = b
<1>. DEFINE f == FreeKey(c, k)
<1>1. f \in Int /\ f \notin Taken(c)
  BY FreeKeyProperties
<1>. HIDE DEF f
<1>2. key' = [key EXCEPT ![c] = f] /\ heap' = heap \cup {c}
  BY <1>1 DEF TimerReset, f
<1>3. \A d \in heap \ {c} : key[d] # f
  BY <1>1 DEF Taken
<1>4. \A d \in heap' : d \in Conn /\ (d # c => d \in heap /\ key'[d] = key[d])
                       /\ (d = c => key'[d] = f)
  BY <1>2
<1>5. ASSUME NEW a \in heap', NEW b \in heap', key'[a] = key'[b] PROVE a = b
  BY <1>3, <1>4, <1>5
<1>. QED BY <1>1, <1>2, <1>5

LEMMA EpochType == Epoch \in Int /\ Keepalive \in Int
BY LoopAssumption, FS_CardinalityType DEF Epoch

-----------------------------------------------------------------------------
(* The steps *)

\* Every open connection has a timer of its own.
Timed ==
  /\ heap = open
  /\ \A c, d \in heap : key[c] = key[d] => c = d

\* The walk goes on to the saved successor, if the visit has left it on the list.
LEMMA AdvanceProperties ==
  ASSUME NEW p \in Seq(Sock), Once(p), Advance(p), next \in ToSet(p) \cup {End}
  PROVE  /\ pos' \in Sock \cup {End} /\ next' \in Sock \cup {End}
         /\ next' \in ToSet(p) \cup {End} /\ (next' # End => next' # pos')
<1>1. pos' = next /\ next' = Successor(p, next)
  BY DEF Advance
<1>2. ToSet(p) \subseteq Sock
  BY ToSetIs
<1>. QED BY <1>1, <1>2, SuccessorProperties

\* A walk begins.
LEMMA FirstVisit ==
  ASSUME NEW p \in Seq(Sock), Once(p), pos' = First(p), next' = Successor(p, First(p))
  PROVE  /\ pos' \in Sock \cup {End} /\ next' \in Sock \cup {End}
         /\ next' \in ToSet(p) \cup {End} /\ (next' # End => next' # pos')
<1>1. ToSet(p) \subseteq Sock
  BY ToSetIs
<1>. QED BY <1>1, FirstProperties, SuccessorProperties

\* lts_close_conn takes the connection from everything that knows it.
LEMMA CloseKeeps ==
  ASSUME LoopInv, NEW c \in Conn, CloseConn(c), key' = key
  PROVE  /\ open' \subseteq Conn /\ armed' \subseteq Conn /\ out' \subseteq Conn
         /\ heap' \subseteq Conn /\ readable' \subseteq Sock /\ writable' \subseteq Conn
         /\ edges' \subseteq Sock \X {"in", "out"}
         /\ in' \in [Conn -> {"none", "unread", "read", "fin"}]
         /\ post' \in Seq(Sock) /\ post' = Unlinked(post, c)
         /\ Live' /\ Listed' /\ Timed' /\ OnPost' = OnPost \ {c}
<1>. DEFINE u == Unlinked(post, c)
<1>1. /\ open' = open \ {c} /\ post' = u
      /\ readable' = readable \ {c} /\ writable' = writable \ {c}
      /\ armed' = armed \ {c} /\ edges' = {e \in edges : e[1] # c}
      /\ in' = [in EXCEPT ![c] = "none"] /\ out' = out \ {c} /\ heap' = heap \ {c}
  BY DEF CloseConn
<1>2. u \in Seq(Sock) /\ Once(u) /\ ToSet(u) = OnPost \ {c}
  BY UnlinkedProperties DEF LoopInv, Types, Listed, OnPost
<1>. HIDE DEF u
<1>3. OnPost' = OnPost \ {c}
  BY <1>1, <1>2 DEF OnPost
<1>4. /\ open' \subseteq Conn /\ armed' \subseteq Conn /\ out' \subseteq Conn
      /\ heap' \subseteq Conn /\ readable' \subseteq Sock /\ writable' \subseteq Conn
      /\ edges' \subseteq Sock \X {"in", "out"}
      /\ in' \in [Conn -> {"none", "unread", "read", "fin"}]
  BY <1>1 DEF LoopInv, Types
<1>5. Live'
  BY <1>1 DEF LoopInv, Live, Types
<1>6. Listed'
  BY <1>1, <1>2, <1>3, LoopAssumption DEF LoopInv, Listed
<1>7. Timed'
  BY <1>1 DEF LoopInv, TimersKept, Timed
<1>. QED BY <1>1, <1>2, <1>3, <1>4, <1>5, <1>6, <1>7 DEF u

\* The lists, the flags and the timers stay as they are.
LEMMA SameLists ==
  ASSUME post' = post, readable' = readable, writable' = writable, open' = open,
         heap' = heap, key' = key
  PROVE  (Listed => Listed') /\ (Timed => Timed') /\ OnPost' = OnPost
<1>1. OnPost' = OnPost
  BY DEF OnPost
<1>. QED BY <1>1 DEF Listed, Timed

LEMMA LoopInit == Init => LoopInv
<1>. SUFFICES ASSUME Init PROVE LoopInv
  OBVIOUS
<1>1. /\ pc = "events" /\ backlog = 0
      /\ open = {} /\ post = <<>> /\ pos = End /\ next = End
      /\ readable = {} /\ writable = {} /\ armed = {} /\ edges = {}
      /\ in = [c \in Conn |-> "none"] /\ out = {}
      /\ heap = {} /\ key = [c \in Conn |-> Epoch]
  BY DEF Init
<1>2. Types
  <2>1. post \in Seq(Sock)
    BY <1>1
  <2>2. in \in [Conn -> {"none", "unread", "read", "fin"}] /\ key \in [Conn -> Int]
    BY <1>1, EpochType
  <2>3. backlog \in 0 .. MaxBacklog
    BY <1>1, LoopAssumption
  <2>. QED BY <1>1, <2>1, <2>2, <2>3 DEF Types
<1>3. Live
  BY <1>1 DEF Live
<1>4. Listed
  <2>1. Len(post) = 0
    BY <1>1
  <2>2. Once(post)
    BY <2>1 DEF Once
  <2>3. OnPost = {}
    BY <1>1 DEF OnPost, ToSet
  <2>. QED BY <1>1, <2>2, <2>3 DEF Listed
<1>5. Walk /\ TimersKept
  BY <1>1 DEF Walk, Walking, TimersKept
<1>. QED BY <1>2, <1>3, <1>4, <1>5 DEF LoopInv

\* What serving a request of c does, when those who get a reply or a push are open
LEMMA ServedProperties ==
  ASSUME LoopInv, NEW c \in Conn, NEW replies, Served(c, replies), replies \subseteq open
  PROVE  /\ c \in open /\ pos = c /\ pc = "walk" /\ pc' = "write"
         /\ backlog' = backlog /\ open' = open /\ pos' = pos /\ next' = next
         /\ in' \in [Conn -> {"none", "unread", "read", "fin"}]
         /\ readable' = readable \ {c}
         /\ armed' \subseteq Conn /\ out' \subseteq Conn
         /\ edges' \subseteq Sock \X {"in", "out"}
         /\ Live'
<1>1. /\ pos = c /\ pc = "walk" /\ pc' = "write" /\ in[c] = "read"
      /\ backlog' = backlog /\ open' = open /\ pos' = pos /\ next' = next
      /\ in' = [in EXCEPT ![c] = "none"] /\ readable' = readable \ {c}
      /\ armed' \subseteq armed \cup {c}
      /\ edges' \subseteq edges \cup {<<c, "out">>}
      /\ out' = out \cup replies
  BY DEF Served, Visiting
<1>2. c \in open /\ open \subseteq Conn /\ out \subseteq open
  BY <1>1 DEF LoopInv, Live, Types
<1>3. Live'
  <2>1. out' \subseteq open'
    BY <1>1, <1>2
  <2>2. \A d \in Conn : in'[d] # "none" => d \in open'
    BY <1>1 DEF LoopInv, Live, Types
  <2>3. \A e \in edges' : e[1] \in open' \cup {Listener} /\ (e[2] = "out" => e[1] \in Conn)
    BY <1>1, <1>2 DEF LoopInv, Live
  <2>. QED BY <2>1, <2>2, <2>3 DEF Live
<1>4. /\ in' \in [Conn -> {"none", "unread", "read", "fin"}]
      /\ armed' \subseteq Conn /\ out' \subseteq Conn
  BY <1>1, <1>2 DEF LoopInv, Types
<1>5. edges' \subseteq Sock \X {"in", "out"}
  BY <1>1 DEF LoopInv, Types, Sock
<1>. QED BY <1>1, <1>2, <1>3, <1>4, <1>5

LEMMA EnvStep == ASSUME LoopInv, Env PROVE LoopInv'
<1>0. Types /\ Live /\ Listed /\ Walk /\ Timed /\ pc # "asserted"
  BY DEF LoopInv, TimersKept, Timed
<1>1. CASE Connect
  <2>1. /\ pc = "events" /\ backlog < MaxBacklog /\ backlog' = backlog + 1
        /\ edges' = edges \cup {<<Listener, "in">>}
        /\ pc' = pc /\ open' = open /\ post' = post /\ pos' = pos /\ next' = next
        /\ readable' = readable /\ writable' = writable /\ armed' = armed
        /\ in' = in /\ out' = out /\ heap' = heap /\ key' = key
    BY <1>1 DEF Connect
  <2>2. backlog' \in 0 .. MaxBacklog
    BY <1>0, <2>1, LoopAssumption DEF Types
  <2>3. edges' \subseteq Sock \X {"in", "out"}
    BY <1>0, <2>1 DEF Types, Sock
  <2>4. Types'
    BY <1>0, <2>1, <2>2, <2>3 DEF Types
  <2>5. Live'
    BY <1>0, <2>1 DEF Live
  <2>6. Listed' /\ Timed'
    BY <1>0, <2>1, SameLists
  <2>. QED BY <1>0, <2>1, <2>4, <2>5, <2>6 DEF LoopInv, Walk, Walking, TimersKept, Timed
<1>2. ASSUME NEW c \in Conn, NEW what \in {"unread", "fin"}, Arrive(c, what)
      PROVE  LoopInv'
  <2>1. /\ pc = "events" /\ c \in open /\ in' = [in EXCEPT ![c] = what]
        /\ edges' = edges \cup {<<c, "in">>} /\ backlog' = backlog
        /\ pc' = pc /\ open' = open /\ post' = post /\ pos' = pos /\ next' = next
        /\ readable' = readable /\ writable' = writable /\ armed' = armed
        /\ out' = out /\ heap' = heap /\ key' = key
    BY <1>2 DEF Arrive
  <2>2. in' \in [Conn -> {"none", "unread", "read", "fin"}]
    BY <1>0, <2>1 DEF Types
  <2>3. edges' \subseteq Sock \X {"in", "out"}
    BY <1>0, <2>1 DEF Types, Sock
  <2>4. Types'
    BY <1>0, <2>1, <2>2, <2>3 DEF Types
  <2>5. Live'
    BY <1>0, <2>1 DEF Live, Types
  <2>6. Listed' /\ Timed'
    BY <1>0, <2>1, SameLists
  <2>. QED BY <1>0, <2>1, <2>4, <2>5, <2>6 DEF LoopInv, Walk, Walking, TimersKept, Timed
<1>. QED BY <1>1, <1>2 DEF Env

LEMMA EventStep ==
  ASSUME LoopInv,
         \/ \E s \in Sock : \E e \in {"in", "out"} : TakeEvent(s, e)
         \/ \E d \in 0 .. Keepalive : EndEvents(d)
  PROVE  LoopInv'
<1>0. Types /\ Live /\ Listed /\ Walk /\ Timed /\ pc # "asserted"
  BY DEF LoopInv, TimersKept, Timed
<1>1. ASSUME NEW s \in Sock, NEW e \in {"in", "out"}, TakeEvent(s, e) PROVE LoopInv'
  <2>. DEFINE a == Append(Unlinked(post, s), s)
  <2>1. /\ pc = "events" /\ <<s, e>> \in edges /\ edges' = edges \ {<<s, e>>}
        /\ readable' \subseteq readable \cup {s}
        /\ writable' = (IF e = "out" THEN writable \cup {s} ELSE writable)
        /\ post' = a /\ backlog' = backlog
        /\ pc' = pc /\ open' = open /\ pos' = pos /\ next' = next
        /\ armed' = armed /\ in' = in
        /\ out' = out /\ heap' = heap /\ key' = key
    BY <1>1 DEF TakeEvent, PostAdd
  <2>2. a \in Seq(Sock) /\ Once(a) /\ ToSet(a) = OnPost \cup {s}
    BY <1>0, PostedProperties DEF Types, Listed, OnPost
  <2>. HIDE DEF a
  <2>3. s \in open \cup {Listener} /\ (e = "out" => s \in Conn)
    BY <1>0, <2>1 DEF Live
  <2>4. readable' \subseteq Sock /\ writable' \subseteq Conn /\ edges' \subseteq edges
        /\ writable' \subseteq writable \cup {s}
    BY <1>0, <2>1, <2>3 DEF Types
  <2>5. Types'
    BY <1>0, <2>1, <2>2, <2>4 DEF Types
  <2>6. Live'
    BY <1>0, <2>1 DEF Live
  <2>7. OnPost' = OnPost \cup {s}
    BY <2>1, <2>2 DEF OnPost
  <2>8. Listed'
    BY <1>0, <2>1, <2>2, <2>3, <2>4, <2>7 DEF Listed
  <2>9. Timed'
    BY <1>0, <2>1 DEF Timed
  <2>. QED BY <1>0, <2>1, <2>5, <2>6, <2>8, <2>9 DEF LoopInv, Walk, Walking, TimersKept, Timed
<1>2. ASSUME NEW d \in 0 .. Keepalive, EndEvents(d) PROVE LoopInv'
  <2>1. /\ key' = [c \in Conn |-> IF c \in heap THEN key[c] - d ELSE key[c]]
        /\ pc' = "walk" /\ pos' = First(post) /\ next' = Successor(post, First(post))
        /\ backlog' = backlog /\ open' = open /\ post' = post
        /\ readable' = readable /\ writable' = writable /\ armed' = armed
        /\ edges' = edges /\ in' = in /\ out' = out /\ heap' = heap
    BY <1>2 DEF EndEvents
  <2>2. /\ pos' \in Sock \cup {End} /\ next' \in Sock \cup {End}
        /\ next' \in ToSet(post) \cup {End} /\ (next' # End => next' # pos')
    BY <1>0, <2>1, FirstVisit DEF Types, Listed
  <2>3. d \in Int
    BY LoopAssumption
  <2>4. key' \in [Conn -> Int] /\ \A c \in heap : key'[c] = key[c] - d /\ key[c] \in Int
    BY <1>0, <2>1, <2>3 DEF Types
  <2>5. Types'
    BY <1>0, <2>1, <2>2, <2>4 DEF Types
  <2>6. OnPost' = OnPost /\ OnPost = ToSet(post)
    BY <2>1 DEF OnPost
  <2>7. Live' /\ Listed'
    BY <1>0, <2>1, <2>6 DEF Live, Listed
  <2>8. Timed'
    <3>1. ASSUME NEW x \in heap, NEW y \in heap, key'[x] = key'[y] PROVE x = y
      <4>1. key[x] = key[y]
        BY <2>3, <2>4, <3>1
      <4>. QED BY <1>0, <4>1 DEF Timed
    <3>. QED BY <1>0, <2>1, <3>1 DEF Timed
  <2>9. Walk'
    BY <2>1, <2>2, <2>6 DEF Walk, Walking
  <2>. QED BY <2>1, <2>5, <2>7, <2>8, <2>9 DEF LoopInv, TimersKept, Timed
<1>. QED BY <1>1, <1>2

LEMMA AcceptStep ==
  ASSUME LoopInv, AcceptNone \/ \E c \in Conn : Accept(c)
  PROVE  LoopInv'
<1>0. Types /\ Live /\ Listed /\ Walk /\ Timed /\ pc # "asserted"
  BY DEF LoopInv, TimersKept, Timed
<1>1. post \in Seq(Sock) /\ Once(post) /\ OnPost = ToSet(post)
  BY <1>0 DEF Types, Listed, OnPost
<1>2. CASE AcceptNone
  <2>1. /\ pc = "walk" /\ readable' = readable \ {Listener} /\ Advance(post)
        /\ pc' = pc /\ backlog' = backlog /\ open' = open /\ post' = post
        /\ writable' = writable /\ armed' = armed
        /\ edges' = edges /\ in' = in /\ out' = out /\ heap' = heap /\ key' = key
    BY <1>2 DEF AcceptNone, Visiting
  <2>2. next \in ToSet(post) \cup {End}
    BY <1>0, <1>1, <2>1 DEF Walk, Walking
  <2>3. /\ pos' \in Sock \cup {End} /\ next' \in Sock \cup {End}
        /\ next' \in ToSet(post) \cup {End} /\ (next' # End => next' # pos')
    BY <1>1, <2>1, <2>2, AdvanceProperties
  <2>4. Types'
    BY <1>0, <2>1, <2>3 DEF Types
  <2>5. OnPost' = OnPost
    BY <2>1 DEF OnPost
  <2>6. Live' /\ Listed' /\ Timed'
    BY <1>0, <2>1, <2>5 DEF Live, Listed, Timed
  <2>7. Walk'
    BY <1>1, <2>1, <2>3, <2>5 DEF Walk, Walking
  <2>. QED BY <1>0, <2>1, <2>4, <2>6, <2>7 DEF LoopInv, TimersKept, Timed
<1>3. ASSUME NEW c \in Conn, Accept(c) PROVE LoopInv'
  <2>1. /\ pc = "walk" /\ open' = open \cup {c} /\ backlog > 0 /\ backlog' = backlog - 1
        /\ TimerReset(c, Keepalive) /\ Advance(post)
        /\ pc' = pc /\ post' = post /\ readable' = readable
        /\ writable' = writable /\ armed' = armed
        /\ edges' = edges /\ in' = in /\ out' = out
    BY <1>3 DEF Accept, Visiting
  <2>2. next \in ToSet(post) \cup {End}
    BY <1>0, <1>1, <2>1 DEF Walk, Walking
  <2>3. /\ pos' \in Sock \cup {End} /\ next' \in Sock \cup {End}
        /\ next' \in ToSet(post) \cup {End} /\ (next' # End => next' # pos')
    BY <1>1, <2>1, <2>2, AdvanceProperties
  <2>4. /\ key' \in [Conn -> Int] /\ heap' = heap \cup {c}
        /\ \A a, b \in heap' : key'[a] = key'[b] => a = b
    BY <1>0, <2>1, EpochType, TimerResetProperties DEF Types, Timed
  <2>5. backlog' \in 0 .. MaxBacklog
    BY <1>0, <2>1, LoopAssumption DEF Types
  <2>6. Types'
    BY <1>0, <2>1, <2>3, <2>4, <2>5 DEF Types
  <2>7. OnPost' = OnPost
    BY <2>1 DEF OnPost
  <2>8. Live' /\ Listed' /\ Timed'
    BY <1>0, <2>1, <2>4, <2>7 DEF Live, Listed, Timed
  <2>9. Walk'
    BY <1>1, <2>1, <2>3, <2>7 DEF Walk, Walking
  <2>. QED BY <1>0, <2>1, <2>6, <2>8, <2>9 DEF LoopInv, TimersKept, Timed
<1>. QED BY <1>2, <1>3

LEMMA ServeStep == ASSUME LoopInv, Serve PROVE LoopInv'
<1>0. Types /\ Live /\ Listed /\ Walk /\ Timed /\ pc # "asserted"
  BY DEF LoopInv, TimersKept, Timed
<1>1. post \in Seq(Sock) /\ Once(post) /\ OnPost = ToSet(post)
  BY <1>0 DEF Types, Listed, OnPost
<1>2. ASSUME NEW c \in Conn, Recv(c) PROVE LoopInv'
  <2>1. /\ pc = "walk" /\ pos = c /\ in[c] = "unread" /\ in' = [in EXCEPT ![c] = "read"]
        /\ pc' = "write" /\ backlog' = backlog /\ open' = open /\ post' = post
        /\ pos' = pos /\ next' = next /\ readable' = readable
        /\ writable' = writable /\ armed' = armed
        /\ edges' = edges /\ out' = out /\ heap' = heap /\ key' = key
    BY <1>2 DEF Recv, Visiting
  <2>2. in' \in [Conn -> {"none", "unread", "read", "fin"}]
    BY <1>0, <2>1 DEF Types
  <2>3. Types'
    BY <1>0, <2>1, <2>2 DEF Types
  <2>4. Live'
    BY <1>0, <2>1 DEF Live, Types
  <2>5. Listed' /\ Timed' /\ OnPost' = OnPost
    BY <1>0, <2>1, SameLists
  <2>6. Walk'
    BY <1>0, <2>1, <2>5 DEF Walk, Walking, Sock
  <2>. QED BY <2>1, <2>3, <2>4, <2>5, <2>6 DEF LoopInv, TimersKept, Timed
<1>3. ASSUME NEW c \in Conn, ServeReply(c) PROVE LoopInv'
  <2>1. /\ Served(c, {c})
        /\ post' = post /\ writable' = writable /\ heap' = heap /\ key' = key
    BY <1>3 DEF ServeReply
  <2>2. {c} \subseteq open
    BY <1>0, <2>1 DEF Served, Live
  <2>3. /\ c \in open /\ pos = c /\ pc = "walk" /\ pc' = "write"
        /\ backlog' = backlog /\ open' = open /\ pos' = pos /\ next' = next
        /\ in' \in [Conn -> {"none", "unread", "read", "fin"}]
        /\ readable' = readable \ {c} /\ armed' \subseteq Conn /\ out' \subseteq Conn
        /\ edges' \subseteq Sock \X {"in", "out"} /\ Live'
    BY <2>1, <2>2, ServedProperties
  <2>4. Types'
    BY <1>0, <2>1, <2>3 DEF Types
  <2>5. OnPost' = OnPost
    BY <2>1 DEF OnPost
  <2>6. Listed' /\ Timed'
    BY <1>0, <2>1, <2>3, <2>5 DEF Listed, Timed
  <2>7. Walk'
    BY <1>0, <2>3, <2>5 DEF Walk, Walking, Sock
  <2>. QED BY <2>3, <2>4, <2>6, <2>7 DEF LoopInv, TimersKept, Timed
<1>4. ASSUME NEW c \in Conn, NEW d \in Conn, ServeTalk(c, d) PROVE LoopInv'
  <2>. DEFINE a == Append(Unlinked(post, d), d)
  <2>1. /\ Served(c, {c, d}) /\ d \in open
        /\ post' = a /\ writable' = writable \cup {d} /\ heap' = heap /\ key' = key
    BY <1>4 DEF ServeTalk, PostAdd
  <2>2. {c, d} \subseteq open
    BY <1>0, <2>1 DEF Served, Live
  <2>3. /\ c \in open /\ pos = c /\ pc = "walk" /\ pc' = "write"
        /\ backlog' = backlog /\ open' = open /\ pos' = pos /\ next' = next
        /\ in' \in [Conn -> {"none", "unread", "read", "fin"}]
        /\ readable' = readable \ {c} /\ armed' \subseteq Conn /\ out' \subseteq Conn
        /\ edges' \subseteq Sock \X {"in", "out"} /\ Live'
    BY <2>1, <2>2, ServedProperties
  <2>4. a \in Seq(Sock) /\ Once(a) /\ ToSet(a) = OnPost \cup {d}
    BY <1>1, PostedProperties DEF Sock
  <2>. HIDE DEF a
  <2>5. OnPost' = OnPost \cup {d}
    BY <2>1, <2>4 DEF OnPost
  <2>6. Types'
    BY <1>0, <2>1, <2>3, <2>4 DEF Types
  <2>7. Listed' /\ Timed'
    BY <1>0, <2>1, <2>3, <2>4, <2>5 DEF Listed, Timed
  <2>8. Walk'
    BY <1>0, <2>3, <2>5 DEF Walk, Walking, Sock
  <2>. QED BY <2>3, <2>6, <2>7, <2>8 DEF LoopInv, TimersKept, Timed
<1>5. ASSUME NEW c \in Conn, NEW d \in Conn, ServeDoom(c, d) PROVE LoopInv'
  <2>1. PICK r \in {{c}, {}} : Served(c, r)
    BY <1>5 DEF ServeDoom
  <2>2. /\ d \in open /\ TimerReset(d, Epoch)
        /\ post' = post /\ writable' = writable
    BY <1>5 DEF ServeDoom
  <2>3. r \subseteq open
    BY <1>0, <2>1 DEF Served, Live
  <2>4. /\ c \in open /\ pos = c /\ pc = "walk" /\ pc' = "write"
        /\ backlog' = backlog /\ open' = open /\ pos' = pos /\ next' = next
        /\ in' \in [Conn -> {"none", "unread", "read", "fin"}]
        /\ readable' = readable \ {c} /\ armed' \subseteq Conn /\ out' \subseteq Conn
        /\ edges' \subseteq Sock \X {"in", "out"} /\ Live'
    BY <2>1, <2>3, ServedProperties
  <2>5. /\ key' \in [Conn -> Int] /\ heap' = heap \cup {d}
        /\ \A a, b \in heap' : key'[a] = key'[b] => a = b
    BY <1>0, <2>2, EpochType, TimerResetProperties DEF Types, Timed
  <2>6. Types'
    BY <1>0, <2>2, <2>4, <2>5 DEF Types
  <2>7. OnPost' = OnPost
    BY <2>2 DEF OnPost
  <2>8. Listed' /\ Timed'
    BY <1>0, <2>2, <2>4, <2>5, <2>7 DEF Listed, Timed
  <2>9. Walk'
    BY <1>0, <2>4, <2>7 DEF Walk, Walking, Sock
  <2>. QED BY <2>4, <2>6, <2>8, <2>9 DEF LoopInv, TimersKept, Timed
<1>6. ASSUME NEW c \in Conn, RecvFin(c) PROVE LoopInv'
  <2>1. /\ pc = "walk" /\ pos = c /\ in[c] = "fin" /\ CloseConn(c)
        /\ Advance(Unlinked(post, c))
        /\ pc' = (IF TimerDelFails(c) THEN "asserted"
                  ELSE IF c \in writable THEN "crashed" ELSE "walk")
        /\ backlog' = backlog /\ key' = key
    BY <1>6 DEF RecvFin, Visiting
  <2>2. c \in heap
    BY <1>0, <2>1 DEF Live, Timed
  <2>3. pc' \in {"crashed", "walk"}
    BY <2>1, <2>2 DEF TimerDelFails
  <2>4. /\ open' \subseteq Conn /\ armed' \subseteq Conn /\ out' \subseteq Conn
        /\ heap' \subseteq Conn /\ readable' \subseteq Sock /\ writable' \subseteq Conn
        /\ edges' \subseteq Sock \X {"in", "out"}
        /\ in' \in [Conn -> {"none", "unread", "read", "fin"}]
        /\ post' \in Seq(Sock) /\ post' = Unlinked(post, c)
        /\ Live' /\ Listed' /\ Timed' /\ OnPost' = OnPost \ {c}
    BY <2>1, CloseKeeps
  <2>. DEFINE u == Unlinked(post, c)
  <2>5. u \in Seq(Sock) /\ Once(u) /\ ToSet(u) = OnPost \ {c}
    BY <1>1, UnlinkedProperties
  <2>. HIDE DEF u
  <2>6. next \in ToSet(u) \cup {End} /\ Advance(u)
    BY <1>0, <2>1, <2>5 DEF Walk, Walking, u
  <2>7. /\ pos' \in Sock \cup {End} /\ next' \in Sock \cup {End}
        /\ next' \in ToSet(u) \cup {End} /\ (next' # End => next' # pos')
    BY <2>5, <2>6, AdvanceProperties
  <2>8. Types'
    BY <1>0, <2>1, <2>3, <2>4, <2>7 DEF Types
  <2>9. Walk'
    BY <2>3, <2>4, <2>5, <2>7 DEF Walk, Walking
  <2>. QED BY <2>3, <2>4, <2>8, <2>9 DEF LoopInv, TimersKept, Timed
<1>. QED BY <1>2, <1>3, <1>4, <1>5, <1>6 DEF Serve

LEMMA WriteStep ==
  ASSUME LoopInv, (\E s \in Sock : NoRead(s)) \/ Write \/ WriteAll \/ WriteFails
  PROVE  LoopInv'
<1>0. Types /\ Live /\ Listed /\ Walk /\ Timed /\ pc # "asserted"
  BY DEF LoopInv, TimersKept, Timed
<1>1. post \in Seq(Sock) /\ Once(post) /\ OnPost = ToSet(post)
  BY <1>0 DEF Types, Listed, OnPost
<1>2. ASSUME NEW s \in Sock, NoRead(s) PROVE LoopInv'
  <2>1. /\ pc = "walk" /\ pos = s
        /\ pc' = "write" /\ backlog' = backlog /\ open' = open /\ post' = post
        /\ pos' = pos /\ next' = next /\ readable' = readable
        /\ writable' = writable /\ armed' = armed /\ in' = in
        /\ edges' = edges /\ out' = out /\ heap' = heap /\ key' = key
    BY <1>2 DEF NoRead, Visiting
  <2>2. Types'
    BY <1>0, <2>1 DEF Types
  <2>3. Live'
    BY <1>0, <2>1 DEF Live
  <2>4. Listed' /\ Timed' /\ OnPost' = OnPost
    BY <1>0, <2>1, SameLists
  <2>5. Walk'
    BY <1>0, <2>1, <2>4 DEF Walk, Walking
  <2>. QED BY <2>1, <2>2, <2>3, <2>4, <2>5 DEF LoopInv, TimersKept, Timed
<1>3. CASE Write \/ WriteAll
  <2>1. /\ pc = "write" /\ pc' = "walk" /\ Advance(post)
        /\ backlog' = backlog /\ open' = open /\ post' = post
        /\ readable' = readable /\ writable' \subseteq writable /\ armed' \subseteq armed
        /\ in' = in /\ edges' \subseteq edges /\ out' \subseteq out
        /\ heap' = heap /\ key' = key
    BY <1>3 DEF Write, WriteAll
  <2>2. next \in ToSet(post) \cup {End}
    BY <1>0, <1>1, <2>1 DEF Walk, Walking
  <2>3. /\ pos' \in Sock \cup {End} /\ next' \in Sock \cup {End}
        /\ next' \in ToSet(post) \cup {End} /\ (next' # End => next' # pos')
    BY <1>1, <2>1, <2>2, AdvanceProperties
  <2>4. Types'
    BY <1>0, <2>1, <2>3 DEF Types
  <2>5. OnPost' = OnPost
    BY <2>1 DEF OnPost
  <2>6. Live' /\ Listed' /\ Timed'
    BY <1>0, <2>1, <2>5 DEF Live, Listed, Timed
  <2>7. Walk'
    BY <1>1, <2>1, <2>3, <2>5 DEF Walk, Walking
  <2>. QED BY <1>0, <2>1, <2>4, <2>6, <2>7 DEF LoopInv, TimersKept, Timed
<1>4. CASE WriteFails
  <2>1. /\ pc = "write" /\ pos \in out /\ CloseConn(pos)
        /\ Advance(Unlinked(post, pos))
        /\ pc' = (IF TimerDelFails(pos) THEN "asserted" ELSE "walk")
        /\ backlog' = backlog /\ key' = key
    BY <1>4 DEF WriteFails
  <2>2. pos \in heap /\ pos \in Conn
    BY <1>0, <2>1 DEF Live, Timed, Types
  <2>3. pc' = "walk"
    BY <2>1, <2>2 DEF TimerDelFails
  <2>4. /\ open' \subseteq Conn /\ armed' \subseteq Conn /\ out' \subseteq Conn
        /\ heap' \subseteq Conn /\ readable' \subseteq Sock /\ writable' \subseteq Conn
        /\ edges' \subseteq Sock \X {"in", "out"}
        /\ in' \in [Conn -> {"none", "unread", "read", "fin"}]
        /\ post' \in Seq(Sock) /\ post' = Unlinked(post, pos)
        /\ Live' /\ Listed' /\ Timed' /\ OnPost' = OnPost \ {pos}
    BY <2>1, <2>2, CloseKeeps
  <2>. DEFINE u == Unlinked(post, pos)
  <2>5. u \in Seq(Sock) /\ Once(u) /\ ToSet(u) = OnPost \ {pos}
    BY <1>1, UnlinkedProperties
  <2>. HIDE DEF u
  <2>6. next \in ToSet(u) \cup {End} /\ Advance(u)
    BY <1>0, <2>1, <2>5 DEF Walk, Walking, u
  <2>7. /\ pos' \in Sock \cup {End} /\ next' \in Sock \cup {End}
        /\ next' \in ToSet(u) \cup {End} /\ (next' # End => next' # pos')
    BY <2>5, <2>6, AdvanceProperties
  <2>8. Types'
    BY <1>0, <2>1, <2>3, <2>4, <2>7 DEF Types
  <2>9. Walk'
    BY <2>3, <2>4, <2>5, <2>7 DEF Walk, Walking
  <2>. QED BY <2>3, <2>4, <2>8, <2>9 DEF LoopInv, TimersKept, Timed
<1>. QED BY <1>2, <1>3, <1>4

LEMMA CleanStep ==
  ASSUME LoopInv, WalkDone \/ Clean \/ CleanDone
  PROVE  LoopInv'
<1>0. Types /\ Live /\ Listed /\ Walk /\ Timed /\ pc # "asserted"
  BY DEF LoopInv, TimersKept, Timed
<1>1. post \in Seq(Sock) /\ Once(post) /\ OnPost = ToSet(post)
  BY <1>0 DEF Types, Listed, OnPost
<1>2. CASE WalkDone
  <2>1. /\ pc' = "clean" /\ pos' = First(post) /\ next' = Successor(post, First(post))
        /\ backlog' = backlog /\ open' = open /\ post' = post /\ readable' = readable
        /\ writable' = writable /\ armed' = armed /\ in' = in
        /\ edges' = edges /\ out' = out /\ heap' = heap /\ key' = key
    BY <1>2 DEF WalkDone
  <2>2. /\ pos' \in Sock \cup {End} /\ next' \in Sock \cup {End}
        /\ next' \in ToSet(post) \cup {End} /\ (next' # End => next' # pos')
    BY <1>1, <2>1, FirstVisit
  <2>3. Types'
    BY <1>0, <2>1, <2>2 DEF Types
  <2>4. Listed' /\ Timed' /\ OnPost' = OnPost
    BY <1>0, <2>1, SameLists
  <2>5. Live'
    BY <1>0, <2>1 DEF Live
  <2>6. Walk'
    BY <1>1, <2>1, <2>2, <2>4 DEF Walk, Walking
  <2>. QED BY <2>1, <2>3, <2>4, <2>5, <2>6 DEF LoopInv, TimersKept, Timed
<1>3. CASE Clean
  <2>1. /\ pc = "clean" /\ pc' = pc /\ post' = (IF Busy(pos) THEN post ELSE Unlinked(post, pos))
        /\ Advance(post')
        /\ backlog' = backlog /\ open' = open /\ readable' = readable
        /\ writable' = writable /\ armed' = armed /\ in' = in
        /\ edges' = edges /\ out' = out /\ heap' = heap /\ key' = key
    BY <1>3 DEF Clean
  <2>2. /\ Unlinked(post, pos) \in Seq(Sock) /\ Once(Unlinked(post, pos))
        /\ ToSet(Unlinked(post, pos)) = OnPost \ {pos}
    BY <1>1, UnlinkedProperties
  <2>3. /\ post' \in Seq(Sock) /\ Once(post') /\ OnPost' = ToSet(post')
        /\ OnPost \ {pos} \subseteq ToSet(post') /\ ToSet(post') \subseteq OnPost
        /\ Busy(pos) => ToSet(post') = OnPost
    BY <1>1, <2>1, <2>2 DEF OnPost
  <2>4. next \in ToSet(post') \cup {End}
    BY <1>0, <2>1, <2>3 DEF Walk, Walking
  <2>5. /\ pos' \in Sock \cup {End} /\ next' \in Sock \cup {End}
        /\ next' \in ToSet(post') \cup {End} /\ (next' # End => next' # pos')
    <3>. DEFINE p == post'
    <3>1. p \in Seq(Sock) /\ Once(p) /\ Advance(p) /\ next \in ToSet(p) \cup {End}
      BY <2>1, <2>3, <2>4
    <3>. HIDE DEF p
    <3>2. /\ pos' \in Sock \cup {End} /\ next' \in Sock \cup {End}
          /\ next' \in ToSet(p) \cup {End} /\ (next' # End => next' # pos')
      BY <3>1, AdvanceProperties
    <3>. QED BY <3>2 DEF p
  <2>6. Types'
    BY <1>0, <2>1, <2>3, <2>5 DEF Types
  <2>7. Live' /\ Timed'
    BY <1>0, <2>1 DEF Live, Timed
  <2>8. Listed'
    <3>1. readable' \cup writable' \subseteq OnPost'
      BY <1>0, <2>1, <2>3 DEF Listed, Busy
    <3>. QED BY <1>0, <2>1, <2>3, <3>1 DEF Listed
  <2>9. Walk'
    BY <2>1, <2>3, <2>5 DEF Walk, Walking
  <2>. QED BY <1>0, <2>1, <2>6, <2>7, <2>8, <2>9 DEF LoopInv, TimersKept, Timed
<1>4. CASE CleanDone
  <2>1. /\ pc' = "timers" /\ pos' = pos /\ next' = next
        /\ backlog' = backlog /\ open' = open /\ post' = post /\ readable' = readable
        /\ writable' = writable /\ armed' = armed /\ in' = in
        /\ edges' = edges /\ out' = out /\ heap' = heap /\ key' = key
    BY <1>4 DEF CleanDone
  <2>2. Listed' /\ Timed'
    BY <1>0, <2>1, SameLists
  <2>3. Types' /\ Live' /\ Walk'
    BY <1>0, <2>1 DEF Types, Live, Walk, Walking
  <2>. QED BY <2>1, <2>2, <2>3 DEF LoopInv, TimersKept, Timed
<1>. QED BY <1>2, <1>3, <1>4

LEMMA TimerStep ==
  ASSUME LoopInv, (\E c \in Conn : Expire(c)) \/ NextPass
  PROVE  LoopInv'
<1>0. Types /\ Live /\ Listed /\ Walk /\ Timed /\ pc # "asserted"
  BY DEF LoopInv, TimersKept, Timed
<1>1. ASSUME NEW c \in Conn, Expire(c) PROVE LoopInv'
  <2>1. /\ c \in heap /\ CloseConn(c)
        /\ pc' = (IF \E d \in heap \ {c} : key[d] = key[c] THEN "asserted" ELSE "timers")
        /\ backlog' = backlog /\ pos' = pos /\ next' = next /\ key' = key
    BY <1>1 DEF Expire, Expired
  <2>2. pc' = "timers"
    BY <1>0, <2>1 DEF Timed
  <2>3. /\ open' \subseteq Conn /\ armed' \subseteq Conn /\ out' \subseteq Conn
        /\ heap' \subseteq Conn /\ readable' \subseteq Sock /\ writable' \subseteq Conn
        /\ edges' \subseteq Sock \X {"in", "out"}
        /\ in' \in [Conn -> {"none", "unread", "read", "fin"}]
        /\ post' \in Seq(Sock) /\ Live' /\ Listed' /\ Timed'
    BY <2>1, CloseKeeps
  <2>4. Types'
    BY <1>0, <2>1, <2>2, <2>3 DEF Types
  <2>. QED BY <2>2, <2>3, <2>4 DEF LoopInv, Walk, Walking, TimersKept, Timed
<1>2. CASE NextPass
  <2>1. /\ pc' = "events" /\ pos' = pos /\ next' = next
        /\ backlog' = backlog /\ open' = open /\ post' = post /\ readable' = readable
        /\ writable' = writable /\ armed' = armed /\ in' = in
        /\ edges' = edges /\ out' = out /\ heap' = heap /\ key' = key
    BY <1>2 DEF NextPass
  <2>2. Listed' /\ Timed'
    BY <1>0, <2>1, SameLists
  <2>3. Types' /\ Live' /\ Walk'
    BY <1>0, <2>1 DEF Types, Live, Walk, Walking
  <2>. QED BY <2>1, <2>2, <2>3 DEF LoopInv, TimersKept, Timed
<1>. QED BY <1>1, <1>2

LEMMA LoopStep == LoopInv /\ [Next]_vars => LoopInv'
<1>. SUFFICES ASSUME LoopInv, [Next]_vars PROVE LoopInv'
  OBVIOUS
<1>1. CASE Env
  BY <1>1, EnvStep
<1>2. CASE Worker
  BY <1>2, EventStep, AcceptStep, ServeStep, WriteStep, CleanStep, TimerStep DEF Worker
<1>3. CASE UNCHANGED vars
  <2>1. /\ pc' = pc /\ pos' = pos /\ next' = next
        /\ backlog' = backlog /\ open' = open /\ post' = post /\ readable' = readable
        /\ writable' = writable /\ armed' = armed /\ in' = in
        /\ edges' = edges /\ out' = out /\ heap' = heap /\ key' = key
    BY <1>3 DEF vars
  <2>2. Listed /\ Timed
    BY DEF LoopInv, TimersKept, Timed
  <2>3. Listed' /\ Timed' /\ OnPost' = OnPost
    BY <2>1, <2>2, SameLists
  <2>4. Types' /\ Live' /\ Walk'
    BY <2>1, <2>3 DEF LoopInv, Types, Live, Walk, Walking
  <2>. QED BY <2>1, <2>3, <2>4 DEF LoopInv, TimersKept, Timed
<1>. QED BY <1>1, <1>2, <1>3 DEF Next

-----------------------------------------------------------------------------
(* The theorems *)

\* The lists, the walk, the flags, the events and the timers of the event loop always
\* belong together.
THEOREM LoopInvariant == Spec => []LoopInv
BY LoopInit, LoopStep, PTL DEF Spec

\* The walk of the post list stays on the list, for any number of connections and
\* whatever the handlers post, doom or close.
THEOREM WalkStaysOn == Spec => []WalkOnTrack
<1>1. LoopInv => WalkOnTrack
  <2>. SUFFICES ASSUME LoopInv PROVE WalkOnTrack
    OBVIOUS
  <2>1. TypeOK
    BY DEF LoopInv, Types, TypeOK
  <2>2. \A i, j \in DOMAIN post : post[i] = post[j] => i = j
    BY DEF LoopInv, Types, Listed, Once
  <2>. QED BY <2>1, <2>2 DEF LoopInv, Listed, Walk, Walking, WalkOnTrack
<1>. QED BY <1>1, LoopInvariant, PTL

\* No event and no soft event is forgotten: a socket with something to do is on the
\* post list.
THEOREM EventsKept == Spec => []NoLostEvent
<1>1. LoopInv => NoLostEvent
  BY DEF LoopInv, Listed, NoLostEvent
<1>. QED BY <1>1, LoopInvariant, PTL

\* Every open connection has its timer, under a key of its own, and the assertions on
\* lts_timer_del hold, however many connections are accepted or doomed in one instant.
THEOREM TimersAreKept == Spec => []TimersKept
<1>1. LoopInv => TimersKept
  BY DEF LoopInv
<1>. QED BY <1>1, LoopInvariant, PTL
-----------------------------------------------------------------------------

(* A walk passes sockets over when the handler of the socket visited puts the *)
(* saved successor at the end of the list.  That brings those behind it one   *)
(* place forward, so that the walks a socket has waited through and its place *)
(* on the list together never exceed the number of sockets, or that number    *)
(* and one while the socket still has its visit in this walk to come.         *)

N == Cardinality(Sock)

\* The sockets of the list from p on
From(list, p) ==
  {s \in ToSet(list) : p # End /\ Index(list, p) <= Index(list, s)}

\* The sockets whose visit in this walk is not over.  A worker that has crashed
\* stops somewhere in a walk.
Ahead ==
  {s \in OnPost : \/ pc = "walk" /\ s \in From(post, pos)
                  \/ pc = "write" /\ (s = pos \/ s \in From(post, next))
                  \/ pc = "crashed"}

Bounds(list, ps, ahead) ==
  /\ ps \in [Sock -> Nat]
  /\ \A s \in Sock : ps[s] <= N - 1
  /\ \A s \in ToSet(list) : ps[s] + Index(list, s) <= N + 1
  /\ \A s \in ToSet(list) \ ahead : ps[s] + Index(list, s) <= N /\ ps[s] <= N - 2

\* Before a visit the saved successor is the next on the list.
OnTheWay == pc = "walk" => pos \in OnPost \cup {End} /\ next = Successor(post, pos)

BypassInv == LoopInv /\ OnTheWay /\ Bounds(post, passes, Ahead)

-----------------------------------------------------------------------------
(* Places on a list *)

LEMMA Sockets == IsFiniteSet(Sock) /\ N \in Nat /\ N >= 2
<1>1. IsFiniteSet(Conn) /\ Listener \notin Conn /\ Conn # {} /\ Cardinality(Conn) \in Nat
  BY LoopAssumption, FS_CardinalityType
<1>2. IsFiniteSet(Sock) /\ N = Cardinality(Conn) + 1
  BY <1>1, FS_AddElement DEF Sock, N
<1>3. Cardinality(Conn) # 0
  BY <1>1, FS_EmptySet
<1>. QED BY <1>1, <1>2, <1>3

\* A list on which no socket is twice is no longer than there are sockets.
LEMMA ShortList ==
  ASSUME NEW list \in Seq(Sock), Once(list)
  PROVE  Len(list) <= N
<1>. SUFFICES ASSUME ~(Len(list) <= N) PROVE FALSE
  OBVIOUS
<1>1. Len(list) \in Nat /\ list \in [1 .. Len(list) -> Sock]
  OBVIOUS
<1>2. IsFiniteSet(1 .. Len(list)) /\ Cardinality(1 .. Len(list)) = Len(list)
  <2>1. Len(list) >= 1
    BY <1>1, Sockets
  <2>2. 1 \in Int /\ Len(list) \in Int /\ ~(1 > Len(list)) /\ Len(list) - 1 + 1 = Len(list)
    BY <1>1, <2>1
  <2>. QED BY <2>2, FS_Interval
<1>3. Cardinality(Sock) < Cardinality(1 .. Len(list))
  BY <1>1, <1>2, Sockets DEF N
<1>4. \E x, y \in 1 .. Len(list) : x # y /\ list[x] = list[y]
  BY <1>1, <1>2, <1>3, Sockets, FS_PigeonHole
<1>. QED BY <1>4 DEF Once

\* The place of a socket is where it stands.
LEMMA IndexIs ==
  ASSUME NEW list \in Seq(Sock), Once(list), NEW i \in 1 .. Len(list)
  PROVE  list[i] \in ToSet(list) /\ Index(list, list[i]) = i
<1>1. list[i] \in ToSet(list)
  BY ToSetIs
<1>2. Index(list, list[i]) \in 1 .. Len(list) /\ list[Index(list, list[i])] = list[i]
  BY <1>1, IndexProperties
<1>. QED BY <1>1, <1>2 DEF Once

LEMMA IndexBound ==
  ASSUME NEW list \in Seq(Sock), Once(list), NEW s \in ToSet(list)
  PROVE  /\ Index(list, s) \in 1 .. Len(list) /\ Index(list, s) \in 1 .. N
         /\ list[Index(list, s)] = s /\ Len(list) \in Nat
<1>1. Index(list, s) \in 1 .. Len(list) /\ list[Index(list, s)] = s /\ Len(list) \in Nat
  BY IndexProperties
<1>. QED BY <1>1, ShortList, Sockets

\* Taking a socket off brings those behind it one place forward.
LEMMA UnlinkedIndex ==
  ASSUME NEW list \in Seq(Sock), Once(list), NEW c, NEW s \in ToSet(list), s # c
  PROVE  /\ s \in ToSet(Unlinked(list, c))
         /\ c \in ToSet(list) /\ Index(list, c) < Index(list, s) =>
              Index(Unlinked(list, c), s) = Index(list, s) - 1
         /\ c \notin ToSet(list) \/ ~(Index(list, c) < Index(list, s)) =>
              Index(Unlinked(list, c), s) = Index(list, s)
<1>1. CASE c \notin ToSet(list)
  BY <1>1 DEF Unlinked
<1>2. CASE c \in ToSet(list)
  <2>. DEFINE k == Index(list, c)
              m == Index(list, s)
              r == RemoveAt(list, k)
  <2>1. Unlinked(list, c) = r
    BY <1>2 DEF Unlinked
  <2>2. /\ k \in 1 .. Len(list) /\ list[k] = c /\ Len(list) \in Nat
        /\ m \in 1 .. Len(list) /\ list[m] = s
    BY <1>2, IndexProperties
  <2>. HIDE DEF k, m
  <2>3. /\ r \in Seq(Sock) /\ Len(r) = Len(list) - 1
        /\ \A i \in 1 .. Len(list) - 1 : r[i] = IF i < k THEN list[i] ELSE list[i + 1]
    BY <2>2, RemoveAtProperties
  <2>4. Once(r)
    BY <2>1, UnlinkedProperties
  <2>. HIDE DEF r
  <2>5. m # k
    BY <2>2
  <2>6. CASE m < k
    <3>1. m \in 1 .. Len(list) - 1 /\ m \in 1 .. Len(r)
      BY <2>2, <2>3, <2>6
    <3>2. r[m] = s
      BY <2>2, <2>3, <2>6, <3>1
    <3>3. s \in ToSet(r) /\ Index(r, s) = m
      BY <2>3, <2>4, <3>1, <3>2, IndexIs
    <3>. QED BY <2>1, <2>2, <2>6, <3>3 DEF k, m
  <2>7. CASE k < m
    <3>1. m - 1 \in 1 .. Len(list) - 1 /\ m - 1 \in 1 .. Len(r) /\ ~(m - 1 < k) /\ (m - 1) + 1 = m
      BY <2>2, <2>3, <2>7
    <3>2. r[m - 1] = s
      BY <2>2, <2>3, <3>1
    <3>3. s \in ToSet(r) /\ Index(r, s) = m - 1
      BY <2>3, <2>4, <3>1, <3>2, IndexIs
    <3>. QED BY <1>2, <2>1, <2>2, <2>7, <3>3 DEF k, m
  <2>. QED BY <2>2, <2>5, <2>6, <2>7
<1>. QED BY <1>1, <1>2

\* A socket put at the end leaves the places of the others as unlinking it does.
LEMMA PostedIndex ==
  ASSUME NEW list \in Seq(Sock), Once(list), NEW d \in Sock
  PROVE  LET a == Append(Unlinked(list, d), d)
             u == Unlinked(list, d) IN
         /\ Index(a, d) = Len(a)
         /\ \A s \in ToSet(u) : s # d /\ s \in ToSet(a) /\ Index(a, s) = Index(u, s)
                                /\ Index(a, s) < Len(a)
<1>. DEFINE u == Unlinked(list, d)
            a == Append(u, d)
<1>1. u \in Seq(Sock) /\ Once(u) /\ ToSet(u) = ToSet(list) \ {d}
  BY UnlinkedProperties
<1>2. a \in Seq(Sock) /\ Once(a)
  BY PostedProperties
<1>. HIDE DEF u
<1>3. /\ Len(a) = Len(u) + 1 /\ a[Len(u) + 1] = d /\ Len(u) \in Nat
      /\ \A i \in 1 .. Len(u) : a[i] = u[i]
  BY <1>1, AppendProperties
<1>. HIDE DEF a
<1>4. Index(a, d) = Len(a)
  <2>1. Len(u) + 1 \in 1 .. Len(a)
    BY <1>3
  <2>. QED BY <1>2, <1>3, <2>1, IndexIs
<1>5. ASSUME NEW s \in ToSet(u)
      PROVE  s # d /\ s \in ToSet(a) /\ Index(a, s) = Index(u, s) /\ Index(a, s) < Len(a)
  <2>1. Index(u, s) \in 1 .. Len(u) /\ u[Index(u, s)] = s
    BY <1>1, IndexProperties
  <2>2. Index(u, s) \in 1 .. Len(a) /\ a[Index(u, s)] = s
    BY <1>3, <2>1
  <2>3. s \in ToSet(a) /\ Index(a, s) = Index(u, s)
    BY <1>2, <2>2, IndexIs
  <2>. QED BY <1>1, <1>3, <2>1, <2>3
<1>. QED BY <1>4, <1>5 DEF a, u

\* The successor is one place behind; the last has none.
LEMMA SuccessorIndex ==
  ASSUME NEW list \in Seq(Sock), Once(list), NEW s \in ToSet(list)
  PROVE  /\ Successor(list, s) = End => Index(list, s) = Len(list)
         /\ Successor(list, s) # End =>
              /\ Successor(list, s) \in ToSet(list)
              /\ Index(list, Successor(list, s)) = Index(list, s) + 1
<1>. DEFINE k == Index(list, s)
<1>1. k \in 1 .. Len(list) /\ Len(list) \in Nat /\ End \notin ToSet(list)
  <2>1. End \notin Sock
    BY LoopAssumption DEF Sock
  <2>. QED BY <2>1, IndexProperties, ToSetIs
<1>2. CASE k < Len(list)
  <2>1. Successor(list, s) = list[k + 1]
    BY <1>2 DEF Successor
  <2>. HIDE DEF k
  <2>2. k + 1 \in 1 .. Len(list)
    BY <1>1, <1>2
  <2>3. list[k + 1] \in ToSet(list) /\ Index(list, list[k + 1]) = k + 1
    BY <2>2, IndexIs
  <2>. QED BY <1>1, <2>1, <2>3 DEF k
<1>3. CASE ~(k < Len(list))
  <2>1. Successor(list, s) = End
    BY <1>3 DEF Successor
  <2>. HIDE DEF k
  <2>2. k = Len(list)
    BY <1>1, <1>3
  <2>. QED BY <2>1, <2>2 DEF k
<1>. QED BY <1>2, <1>3

-----------------------------------------------------------------------------
(* The bounds *)

\* A socket keeps its bounds when it is visited or posted (it has waited through
\* no walk then), and when it comes forward; one that loses its visit in this
\* walk must have come forward enough.
LEMMA Lower ==
  ASSUME NEW list \in Seq(Sock), Once(list), NEW ps, NEW ahead, Bounds(list, ps, ahead),
         NEW new \in Seq(Sock), Once(new), NEW qs \in [Sock -> Nat], NEW left,
         \A s \in Sock :
           \/ qs[s] = 0
           \/ /\ qs[s] <= ps[s]
              /\ s \in ToSet(new) => s \in ToSet(list) /\ Index(new, s) <= Index(list, s),
         \A s \in ToSet(new) \ left :
           \/ qs[s] = 0
           \/ s \notin ahead
           \/ qs[s] + Index(new, s) <= N /\ qs[s] <= N - 2
  PROVE  Bounds(new, qs, left)
<1>. DEFINE x(s) == Index(list, s)
            y(s) == Index(new, s)
<1>1. N \in Nat /\ N >= 2
  BY Sockets
<1>2. /\ ps \in [Sock -> Nat] /\ \A s \in Sock : ps[s] <= N - 1
      /\ \A s \in ToSet(list) : ps[s] + x(s) <= N + 1
      /\ \A s \in ToSet(list) \ ahead : ps[s] + x(s) <= N /\ ps[s] <= N - 2
  BY DEF Bounds
<1>3. \A s \in ToSet(new) : s \in Sock /\ y(s) \in 1 .. N
  BY IndexBound, ToSetIs
<1>4. \A s \in ToSet(list) : s \in Sock /\ x(s) \in 1 .. N
  BY IndexBound, ToSetIs
<1>5. \A s \in Sock :
        qs[s] = 0 \/ (qs[s] <= ps[s] /\ (s \in ToSet(new) => s \in ToSet(list) /\ y(s) <= x(s)))
  OBVIOUS
<1>6. \A s \in ToSet(new) \ left :
        qs[s] = 0 \/ s \notin ahead \/ (qs[s] + y(s) <= N /\ qs[s] <= N - 2)
  OBVIOUS
<1>. HIDE DEF x, y
<1>7. \A s \in Sock : qs[s] <= N - 1
  BY <1>1, <1>2, <1>5
<1>8. ASSUME NEW s \in ToSet(new) PROVE qs[s] + y(s) <= N + 1
  <2>1. CASE qs[s] = 0
    BY <1>1, <1>3, <2>1
  <2>2. CASE qs[s] # 0
    <3>1. s \in Sock /\ s \in ToSet(list) /\ qs[s] <= ps[s] /\ y(s) <= x(s)
      BY <1>3, <1>5, <2>2
    <3>2. ps[s] + x(s) <= N + 1 /\ x(s) \in 1 .. N /\ y(s) \in 1 .. N /\ ps[s] \in Nat /\ qs[s] \in Nat
      BY <1>2, <1>3, <1>4, <3>1
    <3>. QED BY <1>1, <3>1, <3>2
  <2>. QED BY <2>1, <2>2
<1>9. ASSUME NEW s \in ToSet(new) \ left PROVE qs[s] + y(s) <= N /\ qs[s] <= N - 2
  <2>1. CASE qs[s] = 0
    BY <1>1, <1>3, <2>1
  <2>2. CASE qs[s] # 0 /\ s \notin ahead
    <3>1. s \in Sock /\ s \in ToSet(list) /\ qs[s] <= ps[s] /\ y(s) <= x(s)
      BY <1>3, <1>5, <2>2
    <3>2. /\ ps[s] + x(s) <= N /\ ps[s] <= N - 2
          /\ x(s) \in 1 .. N /\ y(s) \in 1 .. N /\ ps[s] \in Nat /\ qs[s] \in Nat
      BY <1>2, <1>3, <1>4, <2>2, <3>1
    <3>. QED BY <1>1, <3>1, <3>2
  <2>. QED BY <1>6, <2>1, <2>2
<1>. QED BY <1>7, <1>8, <1>9 DEF Bounds, y

\* The sockets from p on are p and those from its successor on.
LEMMA FromSuccessor ==
  ASSUME NEW list \in Seq(Sock), Once(list), NEW p \in ToSet(list),
         NEW s \in From(list, p), s # p
  PROVE  s \in From(list, Successor(list, p))
<1>. DEFINE i == Index(list, p)
            j == Index(list, s)
            q == Successor(list, p)
<1>1. s \in ToSet(list) /\ i <= j
  BY DEF From
<1>2. /\ i \in 1 .. Len(list) /\ j \in 1 .. Len(list) /\ Len(list) \in Nat
      /\ list[i] = p /\ list[j] = s
  BY <1>1, IndexBound
<1>3. /\ q = End => i = Len(list)
      /\ q # End => Index(list, q) = i + 1
  BY SuccessorIndex
<1>4. s \in From(list, q) <=> q # End /\ Index(list, q) <= j
  BY <1>1 DEF From
<1>. HIDE DEF i, j, q
<1>5. i < j
  BY <1>1, <1>2
<1>6. q # End /\ Index(list, q) <= j
  BY <1>2, <1>3, <1>5
<1>. QED BY <1>4, <1>6 DEF q

\* Taking another socket off does not change who comes from p on.
LEMMA UnlinkedFrom ==
  ASSUME NEW list \in Seq(Sock), Once(list), NEW c, NEW p \in ToSet(list),
         NEW s \in From(list, p), p # c, s # c
  PROVE  s \in From(Unlinked(list, c), p)
<1>. DEFINE u == Unlinked(list, c)
<1>1. s \in ToSet(list) /\ p # End /\ Index(list, p) <= Index(list, s)
  BY DEF From
<1>2. /\ Index(list, p) \in 1 .. Len(list) /\ Index(list, s) \in 1 .. Len(list)
      /\ c \in ToSet(list) => Index(list, c) \in 1 .. Len(list)
  BY <1>1, IndexBound
<1>3. /\ c \in ToSet(list) /\ Index(list, c) < Index(list, p) => Index(u, p) = Index(list, p) - 1
      /\ c \notin ToSet(list) \/ ~(Index(list, c) < Index(list, p)) => Index(u, p) = Index(list, p)
  BY UnlinkedIndex
<1>4. /\ c \in ToSet(list) /\ Index(list, c) < Index(list, s) => Index(u, s) = Index(list, s) - 1
      /\ c \notin ToSet(list) \/ ~(Index(list, c) < Index(list, s)) => Index(u, s) = Index(list, s)
      /\ s \in ToSet(u)
  BY <1>1, UnlinkedIndex
<1>. HIDE DEF u
<1>5. p = s \/ Index(list, p) < Index(list, s)
  <2>1. list[Index(list, p)] = p /\ list[Index(list, s)] = s
    BY <1>1, IndexBound
  <2>. QED BY <1>1, <1>2, <2>1
<1>6. CASE p = s
  <2>1. Index(u, p) <= Index(u, s)
    BY <1>2, <1>3, <1>6
  <2>. QED BY <1>1, <1>4, <2>1 DEF From, u
<1>7. CASE Index(list, p) < Index(list, s)
  <2>1. CASE c \notin ToSet(list)
    <3>1. Index(u, p) <= Index(u, s)
      BY <1>2, <1>3, <1>4, <1>7, <2>1
    <3>. QED BY <1>1, <1>4, <3>1 DEF From, u
  <2>2. CASE c \in ToSet(list)
    <3>1. Index(u, p) <= Index(u, s)
      BY <1>2, <1>3, <1>4, <1>7, <2>2
    <3>. QED BY <1>1, <1>4, <3>1 DEF From, u
  <2>. QED BY <2>1, <2>2
<1>. QED BY <1>5, <1>6, <1>7

\* Nor does putting another socket at the end.
LEMMA PostedFrom ==
  ASSUME NEW list \in Seq(Sock), Once(list), NEW d \in Sock, NEW p \in ToSet(list),
         NEW s \in From(list, p), p # d, s # d
  PROVE  s \in From(Append(Unlinked(list, d), d), p)
<1>. DEFINE u == Unlinked(list, d)
            a == Append(u, d)
<1>1. s \in From(u, p)
  BY UnlinkedFrom
<1>2. s \in ToSet(u) /\ p # End /\ Index(u, p) <= Index(u, s)
  BY <1>1 DEF From
<1>3. p \in ToSet(u)
  BY UnlinkedIndex
<1>4. s \in ToSet(a) /\ Index(a, s) = Index(u, s) /\ Index(a, p) = Index(u, p)
  BY <1>2, <1>3, PostedIndex
<1>. HIDE DEF u, a
<1>5. s \in From(a, p)
  BY <1>2, <1>4 DEF From
<1>. QED BY <1>5 DEF a, u

\* No socket goes back when another one is taken off.
LEMMA ComesForward ==
  ASSUME NEW list \in Seq(Sock), Once(list), NEW c, NEW s \in ToSet(list), s # c
  PROVE  /\ Index(Unlinked(list, c), s) <= Index(list, s)
         /\ c \in Sock => Index(Append(Unlinked(list, c), c), s) = Index(Unlinked(list, c), s)
<1>1. Index(list, s) \in 1 .. Len(list)
  BY IndexBound
<1>2. Index(Unlinked(list, c), s) <= Index(list, s) /\ s \in ToSet(Unlinked(list, c))
  BY <1>1, UnlinkedIndex
<1>3. ASSUME c \in Sock
      PROVE  Index(Append(Unlinked(list, c), c), s) = Index(Unlinked(list, c), s)
  BY <1>2, <1>3, PostedIndex
<1>. QED BY <1>2, <1>3

-----------------------------------------------------------------------------
(* The steps *)

LEMMA Facts ==
  ASSUME BypassInv
  PROVE  /\ post \in Seq(Sock) /\ Once(post) /\ OnPost = ToSet(post)
         /\ OnPost \subseteq Sock /\ passes \in [Sock -> Nat]
         /\ Bounds(post, passes, Ahead) /\ Walk /\ End \notin Sock
<1>1. post \in Seq(Sock) /\ Once(post) /\ OnPost = ToSet(post) /\ Walk
  BY DEF BypassInv, LoopInv, Types, Listed, OnPost
<1>2. OnPost \subseteq Sock
  BY <1>1, ToSetIs
<1>3. Bounds(post, passes, Ahead) /\ passes \in [Sock -> Nat]
  BY DEF BypassInv, Bounds
<1>4. End \notin Sock
  BY LoopAssumption DEF Sock
<1>. QED BY <1>1, <1>2, <1>3, <1>4

\* Lower, for a step
LEMMA LowerStep ==
  ASSUME BypassInv, LoopInv', passes' \in [Sock -> Nat],
         \A s \in Sock :
           \/ passes'[s] = 0
           \/ /\ passes'[s] <= passes[s]
              /\ s \in OnPost' => s \in OnPost /\ Index(post', s) <= Index(post, s),
         \A s \in OnPost' \ Ahead' :
           \/ passes'[s] = 0
           \/ s \notin Ahead
           \/ passes'[s] + Index(post', s) <= N /\ passes'[s] <= N - 2
  PROVE  Bounds(post, passes, Ahead)'
<1>. DEFINE p == post'
            q == passes'
            l == Ahead'
<1>1. p \in Seq(Sock) /\ Once(p) /\ OnPost' = ToSet(p)
  BY DEF LoopInv, Types, Listed, OnPost
<1>2. /\ q \in [Sock -> Nat]
      /\ \A s \in Sock :
           \/ q[s] = 0
           \/ /\ q[s] <= passes[s]
              /\ s \in ToSet(p) => s \in ToSet(post) /\ Index(p, s) <= Index(post, s)
      /\ \A s \in ToSet(p) \ l :
           q[s] = 0 \/ s \notin Ahead \/ (q[s] + Index(p, s) <= N /\ q[s] <= N - 2)
  BY <1>1, Facts
<1>3. Bounds(p, q, l) <=> Bounds(post, passes, Ahead)'
  BY DEF Bounds
<1>. HIDE DEF p, q, l
<1>4. Bounds(p, q, l)
  BY <1>1, <1>2, Facts, Lower
<1>. QED BY <1>3, <1>4

\* A step that leaves the list and the history alone, between visits or at the
\* start of one
LEMMA StillStep ==
  ASSUME BypassInv, LoopInv', post' = post, passes' = passes, OnTheWay', Ahead \subseteq Ahead'
  PROVE  BypassInv'
<1>1. \A s \in Sock : passes[s] <= passes[s]
  BY Facts
<1>2. \A s \in OnPost : Index(post, s) <= Index(post, s)
  BY Facts, IndexBound
<1>3. OnPost' = OnPost
  BY DEF OnPost
<1>4. Bounds(post, passes, Ahead)'
  BY <1>1, <1>2, <1>3, Facts, LowerStep
<1>. QED BY <1>4 DEF BypassInv

\* A socket leaves the list between two walks.
LEMMA OffStep ==
  ASSUME BypassInv, LoopInv', Ahead = {}, pc' # "walk", NEW c \in Sock,
         post' = Unlinked(post, c),
         passes' = passes \/ passes' = [passes EXCEPT ![c] = 0]
  PROVE  BypassInv'
<1>1. passes' \in [Sock -> Nat] /\ \A s \in Sock : passes'[s] = 0 \/ passes'[s] <= passes[s]
  BY Facts
<1>2. OnPost' = OnPost \ {c}
  BY Facts, UnlinkedProperties DEF OnPost
<1>3. \A s \in OnPost' : s \in OnPost /\ Index(post', s) <= Index(post, s)
  BY <1>2, Facts, ComesForward
<1>4. Bounds(post, passes, Ahead)'
  BY <1>1, <1>3, LowerStep
<1>. QED BY <1>4 DEF BypassInv, OnTheWay

\* Who is ahead at the end of a visit is pos, or comes from next on.
LEMMA AheadOfVisit ==
  ASSUME BypassInv, pc = "write" \/ (pc = "walk" /\ pos \in Sock), NEW s \in Ahead, s # pos
  PROVE  s \in From(post, next) /\ next \in OnPost /\ next # pos
<1>1. s \in From(post, next)
  <2>1. CASE pc = "write"
    BY <2>1 DEF Ahead
  <2>2. CASE pc = "walk" /\ pos \in Sock
    <3>1. pos \in ToSet(post) /\ next = Successor(post, pos) /\ s \in From(post, pos)
      BY <2>2, Facts DEF BypassInv, OnTheWay, Ahead
    <3>. QED BY <3>1, Facts, FromSuccessor
  <2>. QED BY <2>1, <2>2
<1>2. next # End
  BY <1>1 DEF From
<1>. QED BY <1>1, <1>2, Facts DEF Walk, Walking

\* The visit of pos ends and leaves it on the list.
LEMMA VisitStep ==
  ASSUME BypassInv, LoopInv', pc = "write" \/ (pc = "walk" /\ pos \in Sock), pos \in Sock,
         post' = post, passes' = [passes EXCEPT ![pos] = 0], pc' = "walk", Advance(post)
  PROVE  BypassInv'
<1>1. /\ passes' \in [Sock -> Nat] /\ passes'[pos] = 0
      /\ \A s \in Sock : passes'[s] = 0 \/ passes'[s] <= passes[s]
  BY Facts
<1>2. OnPost' = OnPost /\ \A s \in OnPost : Index(post, s) <= Index(post, s)
  BY Facts, IndexBound DEF OnPost
<1>3. pos' = next /\ next' = Successor(post, next) /\ next \in OnPost \cup {End}
  BY Facts DEF Advance, Walk, Walking
<1>4. ASSUME NEW s \in OnPost' \ Ahead', s # pos PROVE s \notin Ahead
  <2>1. s \notin From(post, next)
    BY <1>2, <1>3, <1>4 DEF Ahead, From
  <2>. QED BY <1>4, <2>1, AheadOfVisit
<1>5. Bounds(post, passes, Ahead)'
  BY <1>1, <1>2, <1>4, LowerStep
<1>. QED BY <1>2, <1>3, <1>5 DEF BypassInv, OnTheWay

\* The visit of pos ends with its connection.
LEMMA CloseStep ==
  ASSUME BypassInv, LoopInv', pc = "write" \/ (pc = "walk" /\ pos \in Sock), pos \in Sock,
         post' = Unlinked(post, pos), passes' = [passes EXCEPT ![pos] = 0],
         pc' \in {"walk", "crashed"}, Advance(Unlinked(post, pos))
  PROVE  BypassInv'
<1>1. /\ passes' \in [Sock -> Nat] /\ passes'[pos] = 0
      /\ \A s \in Sock : passes'[s] = 0 \/ passes'[s] <= passes[s]
  BY Facts
<1>2. OnPost' = OnPost \ {pos} /\ OnPost' = ToSet(post')
  BY Facts, UnlinkedProperties DEF OnPost
<1>3. \A s \in OnPost' : s \in OnPost /\ Index(post', s) <= Index(post, s)
  BY <1>2, Facts, ComesForward
<1>4. pos' = next /\ next' = Successor(post', next) /\ next \in OnPost \cup {End}
      /\ (next # End => next # pos)
  BY Facts DEF Advance, Walk, Walking
<1>5. ASSUME NEW s \in OnPost' \ Ahead' PROVE s \notin Ahead
  <2>1. SUFFICES ASSUME s \in Ahead PROVE FALSE
    OBVIOUS
  <2>2. s \in From(post, next) /\ next \in OnPost /\ next # pos /\ s # pos
    BY <1>2, <1>5, <2>1, AheadOfVisit
  <2>3. s \in From(Unlinked(post, pos), next)
    BY <2>2, Facts, UnlinkedFrom
  <2>4. s \in Ahead'
    BY <1>2, <1>4, <1>5, <2>3 DEF Ahead, From
  <2>. QED BY <1>5, <2>4
<1>6. Bounds(post, passes, Ahead)'
  BY <1>1, <1>3, <1>5, LowerStep
<1>. QED BY <1>2, <1>4, <1>6 DEF BypassInv, OnTheWay

\* talkto posts a socket during a visit.  When that is the saved successor, the
\* sockets behind it lose their visit and come forward.
LEMMA TalkStep ==
  ASSUME BypassInv, LoopInv', NEW c \in Conn, NEW d \in Conn, ServeTalk(c, d)
  PROVE  BypassInv'
<1>. DEFINE a == Append(Unlinked(post, d), d)
<1>1. /\ pc = "walk" /\ pos = c /\ pos \in Sock /\ pc' = "write" /\ pos' = pos /\ next' = next
      /\ post' = a /\ passes' = [passes EXCEPT ![d] = 0] /\ d \in Sock
  BY DEF ServeTalk, Served, Visiting, PostAdd, Sock
<1>2. /\ passes' \in [Sock -> Nat] /\ passes'[d] = 0
      /\ \A s \in Sock \ {d} : passes'[s] = passes[s] /\ passes[s] \in Nat
  BY <1>1, Facts
<1>3. OnPost' = OnPost \cup {d} /\ ToSet(a) = OnPost'
  BY <1>1, Facts, PostedProperties DEF OnPost
<1>4. ASSUME NEW s \in OnPost', s # d
      PROVE  /\ s \in OnPost /\ Index(a, s) = Index(Unlinked(post, d), s)
             /\ Index(a, s) <= Index(post, s)
  BY <1>1, <1>3, <1>4, Facts, ComesForward
<1>5. ASSUME NEW s \in OnPost' \ Ahead', s # d, s \in Ahead
      PROVE  passes[s] + Index(a, s) <= N /\ passes[s] <= N - 2
  <2>1. s # pos /\ s \notin From(a, next)
    BY <1>1, <1>3, <1>5 DEF Ahead
  <2>2. s \in From(post, next) /\ next \in OnPost /\ next # pos
    BY <1>1, <1>5, <2>1, AheadOfVisit
  <2>3. next = d
    BY <1>1, <1>5, <2>1, <2>2, Facts, PostedFrom
  <2>. DEFINE i == Index(post, pos)
              j == Index(post, next)
              k == Index(post, s)
  <2>4. pos \in OnPost /\ next = Successor(post, pos) /\ next # End /\ s \in OnPost
    BY <1>1, <1>5, <2>2, Facts DEF BypassInv, OnTheWay, Ahead, From
  <2>5. i \in 1 .. Len(post) /\ j = i + 1
    BY <2>4, Facts, IndexBound, SuccessorIndex
  <2>6. /\ k \in 1 .. Len(post) /\ j <= k /\ post[k] = s /\ post[j] = next
        /\ Len(post) \in Nat
    BY <2>2, <2>4, Facts, IndexBound DEF From
  <2>7. passes[s] + k <= N + 1 /\ passes[s] \in Nat
    BY <2>4, Facts DEF Bounds
  <2>8. Index(post, d) < Index(post, s) => Index(a, s) = k - 1
    BY <1>3, <1>4, <1>5, <2>2, <2>3, <2>4, Facts, UnlinkedIndex
  <2>. HIDE DEF i, j, k, a
  <2>9. j # k
    BY <1>5, <2>3, <2>6
  <2>10. j < k
    BY <2>5, <2>6, <2>9
  <2>11. Index(a, s) = k - 1
    BY <2>3, <2>8, <2>10 DEF j, k
  <2>. QED BY <2>5, <2>6, <2>7, <2>10, <2>11, Sockets
<1>. HIDE DEF a
<1>6. \A s \in Sock :
        \/ passes'[s] = 0
        \/ /\ passes'[s] <= passes[s]
           /\ s \in OnPost' => s \in OnPost /\ Index(post', s) <= Index(post, s)
  BY <1>1, <1>2, <1>4
<1>7. \A s \in OnPost' \ Ahead' :
        \/ passes'[s] = 0
        \/ s \notin Ahead
        \/ passes'[s] + Index(post', s) <= N /\ passes'[s] <= N - 2
  <2>1. OnPost' \subseteq Sock
    BY <1>1, <1>3, Facts
  <2>. QED BY <1>1, <1>2, <1>5, <2>1
<1>8. Bounds(post, passes, Ahead)'
  BY <1>2, <1>6, <1>7, LowerStep
<1>. QED BY <1>1, <1>8 DEF BypassInv, OnTheWay

\* An event puts its socket at the end.
LEMMA PostStep ==
  ASSUME BypassInv, LoopInv', NEW d \in Sock, NEW e, TakeEvent(d, e)
  PROVE  BypassInv'
<1>1. /\ pc = "events" /\ pc' = "events" /\ post' = Append(Unlinked(post, d), d)
      /\ passes' = [passes EXCEPT ![d] = 0]
  BY DEF TakeEvent, PostAdd
<1>2. /\ passes' \in [Sock -> Nat] /\ passes'[d] = 0
      /\ \A s \in Sock \ {d} : passes'[s] <= passes[s]
  BY <1>1, Facts
<1>3. OnPost' = OnPost \cup {d}
  BY <1>1, Facts, PostedProperties DEF OnPost
<1>4. \A s \in OnPost' \ {d} : s \in OnPost /\ Index(post', s) <= Index(post, s)
  BY <1>1, <1>3, Facts, ComesForward
<1>5. Ahead = {}
  BY <1>1 DEF Ahead
<1>6. Bounds(post, passes, Ahead)'
  <2>1. \A s \in Sock :
          \/ passes'[s] = 0
          \/ /\ passes'[s] <= passes[s]
             /\ s \in OnPost' => s \in OnPost /\ Index(post', s) <= Index(post, s)
    BY <1>2, <1>4
  <2>. QED BY <1>2, <1>5, <2>1, LowerStep
<1>. QED BY <1>1, <1>6 DEF BypassInv, OnTheWay

\* A walk begins, with all visits ahead.
LEMMA BeginStep ==
  ASSUME BypassInv, LoopInv', NEW d, EndEvents(d)
  PROVE  BypassInv'
<1>1. /\ pc = "events" /\ pc' = "walk" /\ post' = post /\ pos' = First(post)
      /\ next' = Successor(post, First(post))
      /\ passes' = [s \in Sock |-> IF s \in OnPost THEN passes[s] + 1 ELSE 0]
  BY DEF EndEvents
<1>2. OnPost' = OnPost /\ OnPost \subseteq Sock
  BY <1>1, Facts DEF OnPost
<1>3. Ahead = {} /\ N \in Nat /\ N >= 2
  BY <1>1, Sockets DEF Ahead
<1>4. passes' \in [Sock -> Nat]
  BY <1>1, Facts
<1>5. ASSUME NEW s \in OnPost
      PROVE  /\ Index(post, s) \in 1 .. N /\ passes[s] \in Nat
             /\ passes'[s] = passes[s] + 1
             /\ passes[s] + Index(post, s) <= N /\ passes[s] <= N - 2
  BY <1>1, <1>2, <1>3, Facts, IndexBound DEF Bounds
<1>6. \A s \in Sock : passes'[s] <= N - 1
  <2>1. \A s \in Sock \ OnPost : passes'[s] = 0
    BY <1>1
  <2>. QED BY <1>3, <1>5, <2>1
<1>7. \A s \in OnPost : passes'[s] + Index(post, s) <= N + 1
  BY <1>3, <1>5
<1>8. First(post) \in OnPost \cup {End}
  BY Facts, FirstProperties
<1>9. OnPost \subseteq Ahead'
  <2>. SUFFICES ASSUME NEW s \in OnPost PROVE s \in Ahead'
    OBVIOUS
  <2>1. Index(post, s) \in 1 .. Len(post) /\ Len(post) \in Nat
    BY Facts, IndexBound
  <2>2. 1 \in 1 .. Len(post) /\ First(post) = post[1] /\ post[1] \in Sock
    BY <2>1, Facts DEF First
  <2>3. Index(post, First(post)) = 1 /\ First(post) # End
    BY <2>2, Facts, IndexIs
  <2>4. s \in From(post, First(post))
    BY <2>1, <2>3, Facts DEF From
  <2>. QED BY <1>1, <1>2, <2>4 DEF Ahead
<1>10. Bounds(post, passes, Ahead)'
  <2>1. ToSet(post') = OnPost
    BY <1>1, Facts
  <2>. QED BY <1>1, <1>4, <1>6, <1>7, <1>9, <2>1 DEF Bounds
<1>. QED BY <1>1, <1>2, <1>8, <1>10 DEF BypassInv, OnTheWay

\* A visit begins, or its read half does nothing to the list.
LEMMA ReadStep ==
  ASSUME BypassInv, LoopInv', NEW s, Visiting(s), pc' = "write", pos' = pos, next' = next,
         post' = post, passes' = passes
  PROVE  BypassInv'
<1>1. pc = "walk" /\ pos \in Sock
  BY DEF Visiting
<1>2. ASSUME NEW r \in Ahead PROVE r \in Ahead'
  <2>1. r \in OnPost /\ OnPost' = OnPost
    BY DEF Ahead, OnPost
  <2>2. r = pos \/ r \in From(post, next)
    BY <1>1, AheadOfVisit
  <2>. QED BY <2>1, <2>2 DEF Ahead, From
<1>3. OnTheWay'
  BY DEF OnTheWay
<1>. QED BY <1>2, <1>3, StillStep

LEMMA BypassStep == BypassInv /\ [Next]_vars => BypassInv'
<1>. SUFFICES ASSUME BypassInv, [Next]_vars PROVE BypassInv'
  OBVIOUS
<1>0. LoopInv' /\ LoopInv
  BY LoopStep DEF BypassInv
<1>1. CASE Env
  <2>1. pc = "events" /\ pc' = "events" /\ post' = post /\ passes' = passes
    BY <1>1 DEF Env, Connect, Arrive
  <2>2. Ahead = {} /\ OnTheWay'
    BY <2>1 DEF Ahead, OnTheWay
  <2>. QED BY <1>0, <2>1, <2>2, StillStep
<1>2. ASSUME NEW s \in Sock, NEW e \in {"in", "out"}, TakeEvent(s, e) PROVE BypassInv'
  BY <1>0, <1>2, PostStep
<1>3. ASSUME NEW d \in 0 .. Keepalive, EndEvents(d) PROVE BypassInv'
  BY <1>0, <1>3, BeginStep
<1>4. CASE AcceptNone \/ \E c \in Conn : Accept(c)
  <2>1. /\ pc = "walk" /\ pc' = "walk" /\ pos = Listener /\ pos \in Sock /\ post' = post
        /\ passes' = [passes EXCEPT ![pos] = 0] /\ Advance(post)
    BY <1>4 DEF AcceptNone, Accept, Visiting
  <2>. QED BY <1>0, <2>1, VisitStep
<1>5. ASSUME NEW c \in Conn, Recv(c) \/ ServeReply(c) \/ \E d \in Conn : ServeDoom(c, d)
      PROVE  BypassInv'
  <2>1. Visiting(c) /\ pc' = "write" /\ pos' = pos /\ next' = next /\ post' = post
        /\ passes' = passes
    BY <1>5 DEF Recv, ServeReply, ServeDoom, Served
  <2>. QED BY <1>0, <2>1, ReadStep
<1>6. ASSUME NEW s \in Sock, NoRead(s) PROVE BypassInv'
  <2>1. Visiting(s) /\ pc' = "write" /\ pos' = pos /\ next' = next /\ post' = post
        /\ passes' = passes
    BY <1>6 DEF NoRead
  <2>. QED BY <1>0, <2>1, ReadStep
<1>7. ASSUME NEW c \in Conn, NEW d \in Conn, ServeTalk(c, d) PROVE BypassInv'
  BY <1>0, <1>7, TalkStep
<1>8. ASSUME NEW c \in Conn, RecvFin(c) PROVE BypassInv'
  <2>1. /\ pc = "walk" /\ pos = c /\ pos \in Sock /\ post' = Unlinked(post, pos)
        /\ passes' = [passes EXCEPT ![pos] = 0] /\ Advance(Unlinked(post, pos))
        /\ pc' \in {"walk", "crashed", "asserted"}
    BY <1>8 DEF RecvFin, Visiting, CloseConn
  <2>2. pc' # "asserted"
    BY <1>0 DEF LoopInv, TimersKept
  <2>. QED BY <1>0, <2>1, <2>2, CloseStep
<1>9. CASE Write \/ WriteAll
  <2>1. /\ pc = "write" /\ pc' = "walk" /\ post' = post
        /\ passes' = [passes EXCEPT ![pos] = 0] /\ Advance(post)
    BY <1>9 DEF Write, WriteAll
  <2>2. pos \in Sock
    BY <1>0, <2>1 DEF LoopInv, Walk
  <2>. QED BY <1>0, <2>1, <2>2, VisitStep
<1>10. CASE WriteFails
  <2>1. /\ pc = "write" /\ post' = Unlinked(post, pos)
        /\ passes' = [passes EXCEPT ![pos] = 0] /\ Advance(Unlinked(post, pos))
        /\ pc' \in {"walk", "crashed", "asserted"}
    BY <1>10 DEF WriteFails, CloseConn
  <2>2. pc' # "asserted" /\ pos \in Sock
    BY <1>0, <2>1 DEF LoopInv, TimersKept, Walk
  <2>. QED BY <1>0, <2>1, <2>2, CloseStep
<1>11. CASE WalkDone \/ CleanDone \/ NextPass
  <2>1. /\ post' = post /\ passes' = passes /\ pc' # "walk"
        /\ pc \in {"clean", "timers"} \/ (pc = "walk" /\ pos = End)
    BY <1>11 DEF WalkDone, CleanDone, NextPass
  <2>2. Ahead = {} /\ OnTheWay'
    BY <2>1 DEF Ahead, From, OnTheWay
  <2>. QED BY <1>0, <2>1, <2>2, StillStep
<1>12. CASE Clean
  <2>1. /\ pc = "clean" /\ pc' = "clean" /\ pos \in Sock /\ passes' = passes
        /\ post' = post \/ post' = Unlinked(post, pos)
    BY <1>12 DEF Clean
  <2>2. Ahead = {} /\ OnTheWay'
    BY <2>1 DEF Ahead, OnTheWay
  <2>3. CASE post' = post
    BY <1>0, <2>1, <2>2, <2>3, StillStep
  <2>4. CASE post' = Unlinked(post, pos)
    BY <1>0, <2>1, <2>2, <2>4, OffStep
  <2>. QED BY <2>1, <2>3, <2>4
<1>13. ASSUME NEW c \in Conn, Expire(c) PROVE BypassInv'
  <2>1. /\ pc = "timers" /\ pc' # "walk" /\ post' = Unlinked(post, c)
        /\ passes' = [passes EXCEPT ![c] = 0] /\ c \in Sock
    BY <1>13 DEF Expire, CloseConn, Sock
  <2>2. Ahead = {}
    BY <2>1 DEF Ahead
  <2>. QED BY <1>0, <2>1, <2>2, OffStep
<1>14. CASE UNCHANGED vars
  <2>1. pc' = pc /\ pos' = pos /\ next' = next /\ post' = post /\ passes' = passes
    BY <1>14 DEF vars
  <2>2. Ahead' = Ahead /\ OnTheWay'
    BY <2>1 DEF Ahead, From, OnPost, OnTheWay, BypassInv
  <2>. QED BY <1>0, <2>1, <2>2, StillStep
<1>. QED
  BY <1>1, <1>2, <1>3, <1>4, <1>5, <1>6, <1>7, <1>8, <1>9, <1>10, <1>11, <1>12, <1>13, <1>14
  DEF Next, Worker, Serve

LEMMA BypassInit == Init => BypassInv
<1>. SUFFICES ASSUME Init PROVE BypassInv
  OBVIOUS
<1>1. LoopInv
  BY LoopInit
<1>2. pc = "events" /\ post = <<>> /\ passes = [s \in Sock |-> 0]
  BY DEF Init
<1>3. ToSet(post) = {}
  BY <1>2 DEF ToSet
<1>4. Bounds(post, passes, Ahead)
  BY <1>2, <1>3, Sockets DEF Bounds
<1>. QED BY <1>1, <1>2, <1>4 DEF BypassInv, OnTheWay

-----------------------------------------------------------------------------

\* BoundedBypass: although soft events for the saved successor make process_post_list
\* pass sockets over, each of n sockets on the post list is visited before n walks
\* have begun, however many connections there are.
THEOREM VisitsCome == Spec => []BoundedBypass
<1>1. BypassInv => BoundedBypass
  <2>. SUFFICES ASSUME BypassInv, NEW s \in Sock PROVE passes[s] < N
    BY DEF BoundedBypass, N
  <2>1. passes[s] \in Nat /\ passes[s] <= N - 1 /\ N \in Nat
    BY Sockets DEF BypassInv, Bounds
  <2>. QED BY <2>1
<1>. QED BY <1>1, BypassInit, BypassStep, PTL DEF Spec
=============================================================================
