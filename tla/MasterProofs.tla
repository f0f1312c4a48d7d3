----------------------------- MODULE MasterProofs -----------------------------
(***************************************************************************)
(* Proofs about Master, for any number of workers and any number of        *)
(* starts, signals, crashes and failed forks.                              *)
(***************************************************************************)
EXTENDS Master, FiniteSetTheorems, TLAPS

(* The inductive invariant has three parts.  Generations: an orphan runs, so *)
(* that a bind that succeeds leaves none.  Counting: workers counts the      *)
(* children, with those wait_children has already buried but not yet taken   *)
(* off the count.  Deaths: as long as nothing but deaths has happened, the   *)
(* table is full whenever the master sleeps, and wait_children still finds a *)
(* child in every slot it has not come to.                                   *)

OffLine == {"off", "bind", "dead"}
Working == {"top", "fork", "idle", "suspended", "woken", "check"}
Full    == {"idle", "suspended", "woken", "check"}

Generations ==
  /\ orphans \subseteq In("running")
  /\ mpc = "bind" => pidfile
  /\ OneGeneration

Counting ==
  /\ mpc \in OffLine => Children = {}
  /\ mpc \in Working => workers = Cardinality(Children)
  /\ mpc = "wait" => workers = Cardinality(Children) + nexit /\ nexit <= slot

\* Slots and children stand for each other.
OneToOne ==
  /\ \A p \in Children : \E s \in Slot : pid[s] = p
  /\ \A s \in Slot \ FreeSlot :
       /\ pid[s] \in Children
       /\ \A r \in Slot : pid[r] = pid[s] => r = s

Deaths ==
  OnlyDeaths =>
    /\ mpc # "done"
    /\ mpc \notin {"off", "dead"} => "EXIT" \notin mask
    /\ mpc \in Working \cup {"wait"} => OneToOne
    /\ mpc \in Working => workers = Cardinality(Slot \ FreeSlot)
    /\ mpc = "wait" => workers = Cardinality(Slot \ FreeSlot) + nexit
    /\ mpc \in Full => FreeSlot = {}
    /\ mpc = "wait" => \A s \in FreeSlot : s < slot

MasterInv == TypeOK /\ Generations /\ Counting /\ Deaths

-----------------------------------------------------------------------------
(* Finite sets of processes and slots *)

\* Children and slots can be counted, and there are as many slots as workers.
LEMMA Countable ==
  ASSUME TypeOK
  PROVE  /\ IsFiniteSet(Children) /\ Cardinality(Children) \in Nat
         /\ IsFiniteSet(Slot) /\ Cardinality(Slot) = Workers
         /\ IsFiniteSet(Slot \ FreeSlot)
         /\ Cardinality(Slot \ FreeSlot) \in 0 .. Workers
         /\ FreeSlot = {} <=> Cardinality(Slot \ FreeSlot) = Workers
<1>1. IsFiniteSet(Pid)
  BY FS_Interval, MasterAssumption DEF Pid
<1>2. IsFiniteSet(Children) /\ Cardinality(Children) \in Nat
  <2>1. Children \in SUBSET Pid
    BY DEF Children, In
  <2>. QED BY <1>1, <2>1, FS_Subset, FS_CardinalityType
<1>3. IsFiniteSet(Slot) /\ Cardinality(Slot) = Workers
  BY FS_Interval, MasterAssumption DEF Slot
<1>4. Slot \ FreeSlot \in SUBSET Slot /\ FreeSlot \subseteq Slot
  BY DEF FreeSlot
<1>5. /\ IsFiniteSet(Slot \ FreeSlot)
      /\ Cardinality(Slot \ FreeSlot) \in Nat
      /\ Cardinality(Slot \ FreeSlot) <= Workers
      /\ Cardinality(Slot \ FreeSlot) = Workers => Slot = Slot \ FreeSlot
  BY <1>3, <1>4, FS_Subset, FS_CardinalityType
<1>6. FreeSlot = {} <=> Slot = Slot \ FreeSlot
  BY <1>4
<1>7. FreeSlot = {} <=> Cardinality(Slot \ FreeSlot) = Workers
  BY <1>3, <1>5, <1>6
<1>. QED BY <1>2, <1>3, <1>5, <1>7, MasterAssumption

\* A step that leaves processes, orphans and table alone leaves what is derived
\* from them alone.
LEMMA Same ==
  ASSUME UNCHANGED <<proc, orphans, pid>>
  PROVE  /\ Children' = Children /\ FreeSlot' = FreeSlot
         /\ OneToOne' = OneToOne
         /\ orphans \subseteq In("running") => orphans' \subseteq In("running")'
BY DEF Children, FreeSlot, OneToOne, In

\* The end of a worker changes no one's children: its own master has to wait for
\* it first.
LEMMA DieSame ==
  ASSUME MasterInv, NEW p \in Pid, Die(p)
  PROVE  /\ Children' = Children /\ FreeSlot' = FreeSlot
         /\ OneToOne' = OneToOne
         /\ orphans' \subseteq In("running")'
         /\ orphans' \subseteq orphans
<1>1. proc \in [Pid -> {"none", "running", "zombie"}]
  BY DEF MasterInv, TypeOK
<1>2. /\ proc[p] = "running" /\ orphans' = orphans \ {p} /\ pid' = pid
      /\ proc' = [proc EXCEPT ![p] = IF p \in orphans THEN "none" ELSE "zombie"]
  BY DEF Die
<1>3. Children' = Children
  BY <1>1, <1>2 DEF Children, In
<1>4. FreeSlot' = FreeSlot
  BY <1>2 DEF FreeSlot
<1>5. OneToOne' = OneToOne
  BY <1>2, <1>3, <1>4 DEF OneToOne
<1>6. orphans' \subseteq In("running")'
  BY <1>1, <1>2 DEF In, MasterInv, Generations
<1>. QED BY <1>2, <1>3, <1>4, <1>5, <1>6

\* When the master goes, nobody has children and every orphan runs.
LEMMA OrphanStep ==
  ASSUME MasterInv, Orphan
  PROVE  /\ Children' = {} /\ orphans' \subseteq In("running")'
         /\ proc' \in [Pid -> {"none", "running", "zombie"}]
         /\ orphans' \subseteq Pid
<1>1. /\ proc \in [Pid -> {"none", "running", "zombie"}] /\ orphans \subseteq Pid
      /\ orphans \subseteq In("running")
  BY DEF MasterInv, TypeOK, Generations
<1>. QED BY <1>1 DEF Orphan, Children, In

-----------------------------------------------------------------------------
(* One lemma per kind of step *)

\* Steps of the master that fork and bury nobody.
LEMMA QuietStep ==
  ASSUME MasterInv, Top \/ ForkDone \/ Suspend \/ Woken \/ Check \/ WaitDone
  PROVE  MasterInv'
<1>. USE DEF MasterInv
<1>0. /\ UNCHANGED <<proc, orphans, pid, pidfile, fails, terms, starts>>
      /\ mpc \in Working \cup {"wait"} /\ mpc' \notin OffLine
  BY DEF Top, ForkDone, Suspend, Woken, Check, WaitDone, Working, OffLine
<1>1. /\ Children' = Children /\ FreeSlot' = FreeSlot
      /\ OneToOne' = OneToOne
      /\ orphans' \subseteq In("running")'
  BY <1>0, Same DEF Generations
<1>2. TypeOK'
  <2>0. told' \subseteq Pid
    BY DEF TypeOK, Top, ForkDone, Suspend, Woken, Check, WaitDone, FreeSlot, NONE
  <2>1. CASE Top \/ ForkDone \/ Suspend \/ Woken \/ Check
    BY <1>0, <2>0, <2>1, MasterAssumption
       DEF TypeOK, Top, ForkDone, Suspend, Woken, Check
  <2>2. CASE WaitDone
    <3>1. workers' \in 0 .. Workers
      BY <2>2, Countable DEF TypeOK, WaitDone, Counting
    <3>. QED BY <1>0, <2>0, <2>2, <3>1 DEF TypeOK, WaitDone
  <2>. QED BY <2>1, <2>2
<1>3. Generations'
  BY <1>0, <1>1 DEF Generations, OneGeneration, OffLine, Working
<1>4. Counting'
  <2>1. Cardinality(Children) \in Nat
    BY Countable
  <2>. QED BY <1>0, <1>1, <2>1
       DEF Counting, TypeOK, Top, ForkDone, Suspend, Woken, Check, WaitDone, Working, OffLine
<1>5. Deaths'
  <2>. SUFFICES ASSUME OnlyDeaths PROVE Deaths'
    BY <1>0 DEF Deaths, OnlyDeaths
  <2>1. /\ "EXIT" \notin mask /\ OneToOne' /\ Cardinality(Slot \ FreeSlot) \in 0 .. Workers
        /\ workers \in Nat /\ nexit \in Nat
        /\ FreeSlot = {} <=> Cardinality(Slot \ FreeSlot) = Workers
    BY <1>0, <1>1, Countable DEF Deaths, Working, TypeOK
  <2>2. CASE Top
    BY <1>1, <2>1, <2>2 DEF Top, Deaths, Working, Full
  <2>3. CASE ForkDone
    BY <1>1, <2>1, <2>3, MasterAssumption DEF ForkDone, Deaths, Working, Full
  <2>4. CASE Suspend \/ Woken
    BY <1>1, <2>1, <2>4 DEF Suspend, Woken, Deaths, Working, Full
  <2>5. CASE Check
    BY <1>1, <2>1, <2>5 DEF Check, Deaths, Working, Full
  <2>6. CASE WaitDone
    BY <1>1, <2>1, <2>6 DEF WaitDone, Deaths, Working, Full
  <2>. QED BY <2>2, <2>3, <2>4, <2>5, <2>6
<1>. QED BY <1>2, <1>3, <1>4, <1>5

\* Steps from outside: signals, attempts to start, the removal of a pid file.
LEMMA OutsideStep ==
  ASSUME MasterInv, Start \/ Terminate \/ RemovePidFile
  PROVE  MasterInv'
<1>. USE DEF MasterInv
<1>0. UNCHANGED <<proc, orphans, pid, slot, workers, nexit, told>>
  BY DEF Start, Terminate, RemovePidFile
<1>1. /\ Children' = Children /\ FreeSlot' = FreeSlot
      /\ OneToOne' = OneToOne
      /\ orphans' \subseteq In("running")'
  BY <1>0, Same DEF Generations
<1>2. TypeOK'
  <2>1. pidfile' \in BOOLEAN
    BY DEF TypeOK, Start, Terminate, RemovePidFile
  <2>2. fails' \in Nat /\ terms' \in Nat /\ starts' \in Nat
    BY DEF TypeOK, Start, Terminate, RemovePidFile
  <2>3. /\ mask' \subseteq {"EXIT", "CHLD"}
        /\ mpc' \in {"off", "bind", "top", "fork", "idle", "suspended", "woken", "check",
                     "wait", "done", "dead"}
    BY DEF TypeOK, Start, Terminate, RemovePidFile, Signal
  <2>. QED BY <1>0, <2>1, <2>2, <2>3 DEF TypeOK
<1>3. Generations'
  BY <1>0, <1>1 DEF TypeOK, Generations, OneGeneration, Start, Terminate, RemovePidFile, Signal
<1>4. Counting'
  BY <1>0, <1>1 DEF Counting, Start, Terminate, RemovePidFile, Signal, Gone,
                    Working, OffLine
<1>5. Deaths'
  <2>1. CASE Terminate
    BY <2>1 DEF Terminate, TypeOK, Deaths, OnlyDeaths
  <2>2. CASE RemovePidFile
    BY <1>0, <1>1, <2>2 DEF RemovePidFile, Deaths, OnlyDeaths
  <2>3. CASE Start /\ pidfile
    BY <1>0, <1>1, <2>3 DEF Start, Deaths, OnlyDeaths
  <2>4. CASE Start /\ ~pidfile
    BY <2>4 DEF Start, Deaths, Working, Full
  <2>. QED BY <2>1, <2>2, <2>3, <2>4
<1>. QED BY <1>2, <1>3, <1>4, <1>5

\* A worker ends.
LEMMA DieStep ==
  ASSUME MasterInv, NEW p \in Pid, Die(p)
  PROVE  MasterInv'
<1>. USE DEF MasterInv
<1>0. /\ UNCHANGED <<pidfile, slot, workers, nexit, pid, told, fails, terms, starts>>
      /\ mpc' = mpc \/ (mpc = "suspended" /\ mpc' = "woken")
      /\ mask' \subseteq mask \cup {"CHLD"}
  BY DEF Die, Signal
<1>1. /\ Children' = Children /\ FreeSlot' = FreeSlot
      /\ OneToOne' = OneToOne
      /\ orphans' \subseteq In("running")'
      /\ orphans' \subseteq orphans
  BY DieSame
<1>2. TypeOK'
  <2>1. proc' \in [Pid -> {"none", "running", "zombie"}]
    BY DEF Die, TypeOK
  <2>. QED BY <1>0, <1>1, <2>1 DEF TypeOK
<1>3. Generations'
  BY <1>0, <1>1 DEF Generations, OneGeneration
<1>4. Counting'
  BY <1>0, <1>1 DEF Counting, Working, OffLine
<1>5. Deaths'
  BY <1>0, <1>1 DEF Deaths, OnlyDeaths, Working, Full
<1>. QED BY <1>2, <1>3, <1>4, <1>5

\* The master goes: it exits, is killed, or aborts.
LEMMA GoStep ==
  ASSUME MasterInv, Exit \/ (Dies /\ terms' \in Nat)
  PROVE  MasterInv'
<1>. USE DEF MasterInv
<1>1. /\ Children' = {} /\ orphans' \subseteq In("running")'
      /\ proc' \in [Pid -> {"none", "running", "zombie"}]
      /\ orphans' \subseteq Pid
  BY OrphanStep DEF Exit, Dies
<1>2. /\ UNCHANGED <<mask, slot, workers, nexit, pid, told, fails, starts>>
      /\ mpc' \in {"off", "dead"} /\ pidfile' \in BOOLEAN /\ terms' \in Nat
  BY DEF Exit, Dies, TypeOK
<1>3. TypeOK'
  BY <1>1, <1>2 DEF TypeOK
<1>4. Generations' /\ Counting'
  BY <1>1, <1>2 DEF Generations, OneGeneration, Counting, Working, OffLine
<1>5. Deaths'
  BY <1>2 DEF Deaths, OnlyDeaths, Exit, Working, Full
<1>. QED BY <1>3, <1>4, <1>5

\* Binding: the master starts with no children and an empty table, or gives up.
LEMMA BindStep ==
  ASSUME MasterInv, Bind
  PROVE  MasterInv'
<1>. USE DEF MasterInv
<1>0. /\ UNCHANGED <<mask, proc, told, orphans, fails, terms, starts>> /\ mpc = "bind"
  BY DEF Bind
<1>1. Children' = Children /\ Children = {} /\ orphans' \subseteq In("running")'
  BY <1>0 DEF Children, In, Counting, Generations, OffLine
<1>2. CASE /\ In("running") = {} /\ mpc' = "top"
           /\ slot' = 0 /\ workers' = 0 /\ nexit' = 0
           /\ pid' = [s \in Slot |-> NONE] /\ UNCHANGED pidfile
  <2>1. TypeOK'
    BY <1>0, <1>2, MasterAssumption DEF TypeOK
  <2>2. Generations'
    BY <1>0, <1>1, <1>2 DEF Generations, OneGeneration
  <2>3. Counting'
    BY <1>1, <1>2, FS_EmptySet DEF Counting, Working, OffLine
  <2>4. FreeSlot' = Slot /\ Slot \ FreeSlot' = {}
    BY <1>2 DEF FreeSlot
  <2>5. Deaths'
    BY <1>0, <1>1, <1>2, <2>4, FS_EmptySet
       DEF Deaths, OnlyDeaths, OneToOne, Working, Full
  <2>. QED BY <2>1, <2>2, <2>3, <2>5
<1>3. CASE mpc' = "off" /\ pidfile' = FALSE /\ UNCHANGED <<slot, workers, nexit, pid>>
  <2>1. TypeOK'
    BY <1>0, <1>3 DEF TypeOK
  <2>2. Generations' /\ Counting' /\ Deaths'
    BY <1>1, <1>3
       DEF Generations, OneGeneration, Counting, Deaths, Working, OffLine, Full
  <2>. QED BY <2>1, <2>2
<1>. QED BY <1>2, <1>3 DEF Bind

\* A fork adds one child and fills one slot; a failed one ends the loop.
LEMMA ForkStep ==
  ASSUME MasterInv, Fork
  PROVE  MasterInv'
<1>. USE DEF MasterInv
<1>0. /\ UNCHANGED <<pidfile, mask, slot, nexit, orphans, terms, starts>>
      /\ mpc = "fork" /\ workers < Workers /\ orphans = {}
  BY DEF Fork, Generations, OneGeneration
<1>1. ASSUME NEW s \in FreeSlot, NEW p \in Unused,
             pid' = [pid EXCEPT ![s] = p], proc' = [proc EXCEPT ![p] = "running"],
             told' = told \ {p}, workers' = workers + 1, UNCHANGED <<mpc, fails>>
      PROVE  MasterInv'
  <2>1. /\ s \in Slot /\ pid[s] = NONE /\ p \in Pid /\ p # NONE /\ proc[p] = "none"
        /\ \A r \in Slot : pid[r] # p
    BY DEF FreeSlot, Unused, In, Pid, NONE
  <2>2. pid'[s] = p /\ \A r \in Slot \ {s} : pid'[r] = pid[r]
    BY <1>1, <2>1 DEF TypeOK
  <2>3. Children' = Children \cup {p} /\ p \notin Children
    BY <1>0, <1>1, <2>1 DEF Children, In, TypeOK
  <2>4. FreeSlot' = FreeSlot \ {s} /\ Slot \ FreeSlot' = (Slot \ FreeSlot) \cup {s}
    BY <2>1, <2>2 DEF FreeSlot
  <2>5. TypeOK'
    <3>1. pid' \in [Slot -> Pid \cup {NONE}]
      BY <1>1, <2>1 DEF TypeOK
    <3>2. proc' \in [Pid -> {"none", "running", "zombie"}]
      BY <1>1 DEF TypeOK
    <3>3. workers' \in 0 .. Workers
      BY <1>0, <1>1, MasterAssumption DEF TypeOK
    <3>. QED BY <1>0, <1>1, <3>1, <3>2, <3>3 DEF TypeOK
  <2>6. Generations'
    BY <1>0, <1>1 DEF Generations, OneGeneration, In
  <2>7. Cardinality(Children') = Cardinality(Children) + 1
    BY <2>3, FS_AddElement, Countable
  <2>8. Cardinality(Slot \ FreeSlot') = Cardinality(Slot \ FreeSlot) + 1
    BY <2>4, FS_AddElement, Countable
  <2>9. Counting'
    BY <1>0, <1>1, <2>7 DEF Counting, Working, OffLine
  <2>10. OneToOne => OneToOne'
    <3>. SUFFICES ASSUME OneToOne PROVE OneToOne'
      OBVIOUS
    <3>1. ASSUME NEW q \in Children' PROVE \E r \in Slot : pid'[r] = q
      <4>1. NONE \notin Children
        BY DEF Children, In, Pid, NONE
      <4>2. CASE q = p
        BY <2>1, <2>2, <4>2
      <4>3. CASE q \in Children
        BY <2>1, <2>2, <4>1, <4>3 DEF OneToOne
      <4>. QED BY <2>3, <4>2, <4>3
    <3>2. ASSUME NEW t \in Slot \ FreeSlot'
          PROVE  /\ pid'[t] \in Children'
                 /\ \A r \in Slot : pid'[r] = pid'[t] => r = t
      BY <2>1, <2>2, <2>3, <2>4 DEF OneToOne
    <3>. QED BY <3>1, <3>2 DEF OneToOne
  <2>11. Deaths'
    BY <1>0, <1>1, <2>8, <2>10 DEF Deaths, OnlyDeaths, Working, Full
  <2>. QED BY <2>5, <2>6, <2>9, <2>11
<1>2. CASE fails' = fails + 1 /\ mpc' = "idle" /\ UNCHANGED <<pid, proc, workers, told>>
  <2>1. Children' = Children /\ orphans' \subseteq In("running")'
    BY <1>0, <1>2, Same
  <2>2. TypeOK'
    BY <1>0, <1>2 DEF TypeOK
  <2>3. Generations' /\ Counting'
    BY <1>0, <1>2, <2>1 DEF Generations, OneGeneration, Counting, Working, OffLine
  <2>4. Deaths'
    BY <1>2 DEF TypeOK, Deaths, OnlyDeaths
  <2>. QED BY <2>2, <2>3, <2>4
<1>. QED BY <1>1, <1>2 DEF Fork

\* wait_children in one slot: a child is buried, or there is no news.
LEMMA WaitStep ==
  ASSUME MasterInv, Reap \/ NoNews
  PROVE  MasterInv'
<1>. USE DEF MasterInv
<1>0. /\ UNCHANGED <<mpc, pidfile, mask, workers, told, orphans, fails, terms, starts>>
      /\ mpc = "wait" /\ slot' = slot + 1 /\ slot \in Slot /\ orphans = {}
      /\ slot' \in 0 .. Workers
  BY MasterAssumption DEF Reap, NoNews, Advance, Generations, OneGeneration, TypeOK, Slot
<1>1. OnlyDeaths => OneToOne /\ slot \notin FreeSlot /\ pid[slot] \in Children
                    /\ pid[slot] # NONE /\ \A t \in FreeSlot : t < slot
  BY <1>0 DEF Deaths, OneToOne, TypeOK, FreeSlot, Slot, Children, In, Pid, NONE
<1>2. CASE Reap
  <2>1. PICK p \in Awaited(slot) \cap In("zombie") : proc' = [proc EXCEPT ![p] = "none"]
    BY <1>2 DEF Reap
  <2>2. pid' = [pid EXCEPT ![slot] = NONE] /\ nexit' = nexit + 1
    BY <1>2 DEF Reap
  <2>3. p \in Children /\ p \in Pid /\ proc[p] = "zombie" /\ (pid[slot] # NONE => p = pid[slot])
    BY <2>1 DEF Awaited, In, Children
  <2>4. Children' = Children \ {p}
    BY <1>0, <2>1, <2>3 DEF Children, In, TypeOK
  <2>5. pid'[slot] = NONE /\ \A r \in Slot \ {slot} : pid'[r] = pid[r]
    BY <1>0, <2>2 DEF TypeOK
  <2>6. FreeSlot' = FreeSlot \cup {slot} /\ Slot \ FreeSlot' = (Slot \ FreeSlot) \ {slot}
    BY <1>0, <2>5 DEF FreeSlot
  <2>7. Cardinality(Children') = Cardinality(Children) - 1
    BY <2>3, <2>4, FS_RemoveElement, Countable
  <2>8. slot \notin FreeSlot =>
          Cardinality(Slot \ FreeSlot') = Cardinality(Slot \ FreeSlot) - 1
    BY <1>0, <2>6, FS_RemoveElement, Countable
  <2>9. nexit' \in 0 .. Workers
    <3>1. nexit \in Nat /\ nexit <= slot /\ slot \in 0 .. Workers - 1
      BY <1>0 DEF TypeOK, Counting, Slot
    <3>. QED BY <2>2, <3>1, MasterAssumption
  <2>10. TypeOK'
    <3>1. pid' \in [Slot -> Pid \cup {NONE}]
      BY <2>2 DEF TypeOK
    <3>2. proc' \in [Pid -> {"none", "running", "zombie"}]
      BY <2>1 DEF TypeOK
    <3>. QED BY <1>0, <2>9, <3>1, <3>2 DEF TypeOK
  <2>11. Generations'
    BY <1>0 DEF Generations, OneGeneration
  <2>12. Counting'
    <3>1. nexit \in Nat /\ Cardinality(Children) \in Nat /\ slot \in Nat
      BY Countable DEF TypeOK
    <3>. QED BY <1>0, <2>2, <2>7, <3>1 DEF Counting, Working, OffLine
  <2>13. OnlyDeaths => OneToOne'
    <3>. SUFFICES ASSUME OnlyDeaths PROVE OneToOne'
      OBVIOUS
    <3>0. p = pid[slot] /\ OneToOne /\ slot \in Slot \ FreeSlot
      BY <1>0, <1>1, <2>3
    <3>1. ASSUME NEW q \in Children' PROVE \E r \in Slot : pid'[r] = q
      BY <2>4, <2>5, <3>0 DEF OneToOne
    <3>2. ASSUME NEW t \in Slot \ FreeSlot'
          PROVE  /\ pid'[t] \in Children'
                 /\ \A r \in Slot : pid'[r] = pid'[t] => r = t
      <4>1. t # slot /\ t \in Slot \ FreeSlot /\ pid'[t] = pid[t] /\ pid[t] # NONE
        BY <2>5, <2>6 DEF FreeSlot
      <4>2. pid[t] # p
        BY <1>0, <3>0, <4>1 DEF OneToOne
      <4>. QED BY <2>4, <2>5, <3>0, <4>1, <4>2 DEF OneToOne
    <3>. QED BY <3>1, <3>2 DEF OneToOne
  <2>14. Deaths'
    <3>. SUFFICES ASSUME OnlyDeaths PROVE Deaths'
      BY <1>0 DEF Deaths, OnlyDeaths
    <3>1. \A t \in FreeSlot' : t < slot'
      BY <1>0, <1>1, <2>6 DEF FreeSlot, Slot
    <3>2. workers' = Cardinality(Slot \ FreeSlot') + nexit'
      <4>1. Cardinality(Slot \ FreeSlot) \in Nat /\ nexit \in Nat
        BY Countable DEF TypeOK
      <4>. QED BY <1>0, <1>1, <2>2, <2>8, <4>1 DEF Deaths
    <3>. QED BY <1>0, <2>13, <3>1, <3>2 DEF Deaths, OnlyDeaths, Working, Full
  <2>. QED BY <2>10, <2>11, <2>12, <2>14
<1>3. CASE NoNews
  <2>0. UNCHANGED <<nexit, pid, proc, orphans>>
    BY <1>0, <1>3 DEF NoNews
  <2>1. /\ Children' = Children /\ FreeSlot' = FreeSlot
        /\ OneToOne' = OneToOne
        /\ orphans' \subseteq In("running")'
    BY <1>0, <2>0, Same
  <2>2. TypeOK'
    BY <1>0, <2>0 DEF TypeOK
  <2>3. Generations'
    BY <1>0, <2>1 DEF Generations, OneGeneration
  <2>4. Counting'
    BY <1>0, <2>0, <2>1 DEF TypeOK, Counting, Working, OffLine
  <2>5. Deaths'
    <3>1. OnlyDeaths => \A t \in FreeSlot : t < slot + 1
      BY <1>0, <1>1 DEF FreeSlot, Slot
    <3>. QED BY <1>0, <2>0, <2>1, <3>1 DEF Deaths, OnlyDeaths, Working, Full
  <2>. QED BY <2>2, <2>3, <2>4, <2>5
<1>. QED BY <1>2, <1>3

-----------------------------------------------------------------------------
(* The theorems *)

\* The program starts with the invariant.
LEMMA InitInv == Init => MasterInv
<1>. SUFFICES ASSUME Init PROVE MasterInv
  OBVIOUS
<1>1. TypeOK
  <2>1. pidfile \in BOOLEAN
    BY DEF Init
  <2>2. slot \in 0 .. Workers /\ workers \in 0 .. Workers /\ nexit \in 0 .. Workers
    BY MasterAssumption DEF Init
  <2>3. pid \in [Slot -> Pid \cup {NONE}] /\ proc \in [Pid -> {"none", "running", "zombie"}]
    BY DEF Init
  <2>. QED BY <2>1, <2>2, <2>3 DEF Init, TypeOK
<1>2. Children = {} /\ orphans = {}
  BY DEF Init, Children, In
<1>. QED BY <1>1, <1>2
     DEF Init, MasterInv, Generations, OneGeneration, Counting, Deaths, Working, OffLine, Full

\* Every step keeps it.
LEMMA NextInv ==
  ASSUME MasterInv, [Next]_vars
  PROVE  MasterInv'
<1>1. CASE Bind
  BY <1>1, BindStep
<1>2. CASE Exit
  BY <1>2, GoStep
<1>3. CASE NoSlot \/ AssertFails \/ Kill
  BY <1>3, GoStep DEF NoSlot, AssertFails, Kill, MasterInv, TypeOK
<1>4. CASE Top \/ ForkDone \/ Suspend \/ Woken \/ Check \/ WaitDone
  BY <1>4, QuietStep
<1>5. CASE Fork
  BY <1>5, ForkStep
<1>6. CASE Reap \/ NoNews
  BY <1>6, WaitStep
<1>7. CASE Start \/ Terminate \/ RemovePidFile
  BY <1>7, OutsideStep
<1>8. ASSUME NEW p \in Pid, Crash(p) \/ Leave(p) PROVE MasterInv'
  BY <1>8, DieStep DEF Crash, Leave
<1>9. CASE UNCHANGED vars
  <2>1. /\ Children' = Children /\ FreeSlot' = FreeSlot
        /\ OneToOne' = OneToOne
        /\ orphans' \subseteq In("running")'
    BY <1>9, Same DEF vars, MasterInv, Generations
  <2>2. TypeOK' /\ Generations'
    BY <1>9, <2>1 DEF vars, MasterInv, TypeOK, Generations, OneGeneration
  <2>3. Counting' /\ Deaths'
    BY <1>9, <2>1 DEF vars, MasterInv, Counting, Deaths, OnlyDeaths, Working, OffLine, Full
  <2>. QED BY <2>2, <2>3 DEF MasterInv
<1>. QED BY <1>1, <1>2, <1>3, <1>4, <1>5, <1>6, <1>7, <1>8, <1>9 DEF Next, main, master_main

\* The invariant holds in every reachable state.
THEOREM MasterInvariant == Spec => []MasterInv
<1>. QED BY InitInv, NextInv, PTL DEF Spec

\* TableMatches: however many workers die, and when, the process table of
\* master_main stays a one-to-one picture of its children, its count is right, and
\* every variable keeps its type.
THEOREM TableIsRight == Spec => []TableMatches
<1>1. MasterInv => TableMatches
  BY DEF MasterInv, Deaths, OneToOne, TableMatches, Working
<1>. QED BY <1>1, MasterInvariant, PTL

\* OneGeneration: a master past its bind holds the pid file, and no worker of an
\* earlier master runs beside its own.
THEOREM OneAtATime == Spec => []OneGeneration
<1>1. MasterInv => OneGeneration
  BY DEF MasterInv, Generations
<1>. QED BY <1>1, MasterInvariant, PTL

\* SurvivesDeaths: neither the "bug defence" of the fork loop nor the assertion of
\* wait_children can fail because workers died.
THEOREM DeathsAreSurvived == Spec => SurvivesDeaths
<1>1. ASSUME MasterInv, [Next]_vars, OnlyDeaths, ~Gone, terms' = terms
      PROVE  mpc' # "dead"
  <2>1. ~NoSlot
    BY <1>1, Countable DEF MasterInv, NoSlot, Deaths, Working, TypeOK
  <2>2. ~AssertFails
    <3>. SUFFICES ASSUME mpc = "wait", slot < Workers PROVE Awaited(slot) # {}
      BY DEF AssertFails
    <3>1. slot \in Slot /\ slot \notin FreeSlot
      BY <1>1, MasterAssumption DEF MasterInv, TypeOK, Deaths, FreeSlot, Slot
    <3>2. pid[slot] \in Children /\ pid[slot] # NONE
      BY <1>1, <3>1 DEF MasterInv, Deaths, OneToOne, FreeSlot
    <3>. QED BY <3>2 DEF Awaited
  <2>3. ~Kill
    BY <1>1 DEF Kill, MasterInv, TypeOK
  <2>4. CASE Bind \/ Exit \/ Start \/ Terminate \/ RemovePidFile
    BY <1>1, <2>4 DEF Bind, Exit, Start, Terminate, RemovePidFile, Signal, Gone
  <2>5. CASE \/ Top \/ ForkDone \/ Suspend \/ Woken \/ Check \/ WaitDone
             \/ Fork \/ Reap \/ NoNews
    BY <1>1, <2>5 DEF Top, ForkDone, Suspend, Woken, Check, WaitDone, Fork, Reap, NoNews, Gone
  <2>6. ASSUME NEW p \in Pid, Crash(p) \/ Leave(p) PROVE mpc' # "dead"
    BY <1>1, <2>6 DEF Crash, Leave, Die, Signal, Gone
  <2>7. CASE UNCHANGED vars
    BY <1>1, <2>7 DEF vars, Gone
  <2>. QED BY <1>1, <2>1, <2>2, <2>3, <2>4, <2>5, <2>6, <2>7 DEF Next, main, master_main
<1>2. MasterInv /\ [Next]_vars =>
        [OnlyDeaths /\ ~Gone /\ terms' = terms => mpc' # "dead"]_vars
  BY <1>1
<1>. QED BY <1>2, MasterInvariant, PTL DEF Spec, SurvivesDeaths
=============================================================================
