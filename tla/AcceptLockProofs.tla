--------------------------- MODULE AcceptLockProofs ---------------------------
(***************************************************************************)
(* Proofs about AcceptLock, for any set of workers, any limits and any     *)
(* number of arrivals and kills.                                           *)
(***************************************************************************)
EXTENDS AcceptLock, TLAPS

(* MutualExclusion is not inductive: a second worker must not win while a    *)
(* first one owns the lock, so an owner must imply that the bit is set, and  *)
(* the owner has to be followed from the registration (hold) through the two *)
(* steps of the unlock.                                                      *)

OwnerSets == \A w \in Worker : Owner(w) => lock = HELD

HoldsInEvents == \A w \in Worker : hold[w] => pc[w] = "events"

LockInv ==
  /\ TypeOK
  /\ MutualExclusion
  /\ OwnerSets
  /\ HoldsInEvents
  /\ UnlockOnce
  /\ NoLeakedLock

\* No worker starts as an owner.
LEMMA InitLock == Init => LockInv
BY LockAssumption
   DEF Init, LockInv, TypeOK, MutualExclusion, OwnerSets, HoldsInEvents,
       UnlockOnce, NoLeakedLock, Leaked, Owner, FREE, HELD

\* Every step keeps the types; the limit of lts_accept bounds the connections.
LEMMA TypeStep == TypeOK /\ [Next]_vars => TypeOK'
<1>. SUFFICES ASSUME TypeOK, [Next]_vars PROVE TypeOK'
  OBVIOUS
<1>. USE LockAssumption DEF TypeOK, FREE, HELD
<1>1. CASE Arrive
  BY <1>1 DEF Arrive, Registered
<1>2. ASSUME NEW w \in Worker, Kill(w) PROVE TypeOK'
  BY <1>2 DEF Kill
<1>3. ASSUME NEW w \in Worker, Step(w) PROVE TypeOK'
  <2>1. CASE Top(w)
    BY <2>1 DEF Top, Goto
  <2>2. CASE TryRead(w)
    BY <2>2 DEF TryRead, Goto
  <2>3. CASE TryCas(w)
    BY <2>3 DEF TryCas, Goto
  <2>4. CASE ProcessEvents(w)
    BY <2>4 DEF ProcessEvents, Goto
  <2>5. CASE UnlockRead(w)
    BY <2>5 DEF UnlockRead, Goto
  <2>6. CASE UnlockCas(w)
    BY <2>6 DEF UnlockCas, Goto
  <2>7. CASE Post(w)
    <3>1. backlog' \in Nat
      BY <2>7 DEF Post
    <3>2. conns' \in [Worker -> 0 .. MaxConn]
      BY <2>7 DEF Post
    <3>3. readable' \in [Worker -> BOOLEAN]
      BY <2>7 DEF Post
    <3>. QED BY <2>7, <3>1, <3>2, <3>3 DEF Post, Goto
  <2>8. CASE Timer(w)
    BY <2>8 DEF Timer, Goto
  <2>. QED BY <1>3, <2>1, <2>2, <2>3, <2>4, <2>5, <2>6, <2>7, <2>8 DEF Step
<1>4. CASE UNCHANGED vars
  BY <1>4 DEF vars, wvars
<1>. QED BY <1>1, <1>2, <1>3, <1>4 DEF Next

\* The part of the invariant about the lock survives every step of a worker.
LEMMA LockStep ==
  ASSUME LockInv, TypeOK', NEW w \in Worker, Step(w)
  PROVE  LockInv'
<1>. USE DEF LockInv, TypeOK, MutualExclusion, OwnerSets, HoldsInEvents,
             UnlockOnce, NoLeakedLock, Leaked, Owner, FREE, HELD
<1>1. CASE Top(w)
  BY <1>1 DEF Top, Goto
<1>2. CASE TryRead(w)
  BY <1>2 DEF TryRead, Goto
<1>3. CASE TryCas(w)
  <2>1. CASE val[w] = FREE /\ lock = val[w]
    <3>1. lock' = HELD /\ hold' = [hold EXCEPT ![w] = TRUE]
      BY <1>3, <2>1 DEF TryCas
    <3>2. \A v \in Worker : ~Owner(v)
      BY <2>1
    <3>. QED BY <1>3, <3>1, <3>2 DEF TryCas, Goto
  <2>2. CASE ~(val[w] = FREE /\ lock = val[w])
    <3>1. UNCHANGED <<lock, hold>>
      BY <1>3, <2>2 DEF TryCas
    <3>. QED BY <1>3, <3>1 DEF TryCas, Goto
  <2>. QED BY <2>1, <2>2
<1>4. CASE ProcessEvents(w)
  BY <1>4 DEF ProcessEvents, Goto
<1>5. CASE UnlockRead(w)
  BY <1>5 DEF UnlockRead, Goto
<1>6. CASE UnlockCas(w)
  BY <1>6 DEF UnlockCas, Goto
<1>7. CASE Post(w)
  BY <1>7 DEF Post, Goto
<1>8. CASE Timer(w)
  BY <1>8 DEF Timer, Goto
<1>. QED BY <1>1, <1>2, <1>3, <1>4, <1>5, <1>6, <1>7, <1>8 DEF Step

\* A killed owner leaves the bit set, and nobody owns the lock any more.
LEMMA KillStep ==
  ASSUME LockInv, TypeOK', NEW w \in Worker, Kill(w)
  PROVE  LockInv'
BY DEF Kill, LockInv, TypeOK, MutualExclusion, OwnerSets, HoldsInEvents,
       UnlockOnce, NoLeakedLock, Leaked, Owner, FREE, HELD

\* So it survives every step.
LEMMA NextLock == LockInv /\ [Next]_vars => LockInv'
<1>. SUFFICES ASSUME LockInv, [Next]_vars PROVE LockInv'
  OBVIOUS
<1>0. TypeOK'
  BY TypeStep DEF LockInv
<1>1. CASE Arrive
  BY <1>0, <1>1 DEF Arrive, LockInv, TypeOK, MutualExclusion, OwnerSets,
                    HoldsInEvents, UnlockOnce, NoLeakedLock, Leaked, Owner
<1>2. CASE UNCHANGED vars
  BY <1>0, <1>2 DEF vars, wvars, LockInv, TypeOK, MutualExclusion, OwnerSets,
                    HoldsInEvents, UnlockOnce, NoLeakedLock, Leaked, Owner
<1>. QED BY <1>0, <1>1, <1>2, LockStep, KillStep DEF Next

\* The lock word, the owners and the registrations stay consistent in every run
\* of the workers, killed ones included.
THEOREM LockInvariant == Spec => []LockInv
<1>1. Init => LockInv
  BY InitLock
<1>2. LockInv /\ [Next]_vars => LockInv'
  BY NextLock
<1>. QED BY <1>1, <1>2, PTL DEF Spec

\* At most one worker watches the listening sockets at any time.
THEOREM LockExcludes == Spec => []MutualExclusion
<1>1. LockInv => MutualExclusion
  BY DEF LockInv
<1>. QED BY <1>1, LockInvariant, PTL

\* The compare-and-set loop of lts_shmtx_unlock never goes round twice.
THEOREM UnlockNeverRetries == Spec => []UnlockOnce
<1>1. LockInv => UnlockOnce
  BY DEF LockInv
<1>. QED BY <1>1, LockInvariant, PTL

\* As long as no worker has been killed the lock is never lost.
THEOREM LockNotLeaked == Spec => []NoLeakedLock
<1>1. LockInv => NoLeakedLock
  BY DEF LockInv
<1>. QED BY <1>1, LockInvariant, PTL
=============================================================================
