-------------------------------- MODULE Master --------------------------------
(***************************************************************************)
(* The life of the program.  main creates the pid file and the listening   *)
(* sockets, or undoes what it did and gives up.  The master then forks the *)
(* workers, sleeps in sigsuspend, and replaces the workers that died or,   *)
(* on SIGTERM or SIGINT, tells all of them to exit, leaves without them    *)
(* and removes the pid file.  It may be started again at any time, while   *)
(* workers of the last master are still running or not.                    *)
(*                                                                         *)
(* Signal handlers only set bits of lts_signals_mask, which nothing ever   *)
(* clears.  No signal is blocked outside sigsuspend: one that comes        *)
(* between the tests of the mask and sigsuspend sets its bit and wakes     *)
(* nobody.                                                                 *)
(***************************************************************************)
EXTENDS Naturals, FiniteSets

CONSTANTS
  Workers,   \* lts_main_conf.workers
  MaxPid,    \* bound: processes forked
  MaxFails,  \* bound: calls of fork() that fail
  MaxTerms,  \* bound: SIGTERMs and SIGKILLs sent to one master
  MaxStarts  \* bound: attempts to start the program

ASSUME MasterAssumption ==
  /\ Workers \in Nat \ {0} /\ MaxPid \in Nat /\ MaxPid >= Workers
  /\ MaxFails \in Nat /\ MaxTerms \in Nat /\ MaxStarts \in Nat

VARIABLES
  mpc,      \* where the master is: "off" and "dead" are nowhere, "bind" is in
            \* main, the others in master_main
  pidfile,  \* the pid file exists
  mask,     \* lts_signals_mask
  slot,     \* the slot wait_children looks at
  workers,  \* master_main's count of its workers
  nexit,    \* wait_children's count of the dead
  pid,      \* lts_processes[].pid, with 0 for -1
  proc,     \* the processes, as the kernel sees them
  told,     \* processes with LTS_CHANNEL_SIGEXIT in their channel
  orphans,  \* processes whose master is gone
  fails, terms, starts

vars == <<mpc, pidfile, mask, slot, workers, nexit, pid, proc, told, orphans,
          fails, terms, starts>>

Slot == 0 .. Workers - 1
Pid  == 1 .. MaxPid
NONE == 0                   \* pid -1

In(state) == {p \in Pid : proc[p] = state}
Children  == (In("running") \cup In("zombie")) \ orphans
FreeSlot  == {s \in Slot : pid[s] = NONE}
Unused    == In("none") \ {pid[s] : s \in Slot}
Gone      == mpc \in {"off", "dead"}

Init ==
  /\ mpc = "off" /\ pidfile = FALSE
  /\ mask = {} /\ slot = 0
  /\ workers = 0 /\ nexit = 0
  /\ pid = [s \in Slot |-> NONE]
  /\ proc = [p \in Pid |-> "none"]
  /\ told = {} /\ orphans = {}
  /\ fails = 0 /\ terms = 0 /\ starts = 0

-----------------------------------------------------------------------------
(* Signals                                                                  *)

\* A signal for the master: the handler runs, and ends a sigsuspend.
Signal(bit) ==
  /\ mask' = mask \cup {bit}
  /\ mpc' = IF mpc = "suspended" THEN "woken" ELSE mpc

Terminate ==
  /\ ~Gone /\ terms < MaxTerms
  /\ terms' = terms + 1
  /\ Signal("EXIT")
  /\ UNCHANGED <<pidfile, slot, workers, nexit, pid, proc, told, orphans, fails, starts>>

\* A worker ends, for whatever reason.  Its pid is free again when its master, or
\* init for an orphan, has waited for it.
Die(p) ==
  /\ proc[p] = "running"
  /\ IF p \in orphans
     THEN /\ proc' = [proc EXCEPT ![p] = "none"]
          /\ UNCHANGED <<mask, mpc>>
     ELSE /\ proc' = [proc EXCEPT ![p] = "zombie"]
          /\ Signal("CHLD")
  /\ orphans' = orphans \ {p}
  /\ UNCHANGED <<pidfile, slot, workers, nexit, pid, told, fails, terms, starts>>

\* A worker crashes.
Crash(p) == Die(p)

\* Mutant: the worker does not ask whether its parent lives.
LeaveWhenTold(p) == p \in told /\ Die(p)

\* A worker's event loop finds the exit signal in its channel or its parent
\* dead.
Leave(p) == p \in told \cup orphans /\ Die(p)

-----------------------------------------------------------------------------
(* main                                                                     *)

\* The master is no more: init adopts the workers, which hold the listening
\* sockets, and waits for the zombies.
Orphan ==
  /\ orphans' = orphans \cup In("running")
  /\ proc' = [p \in Pid |-> IF proc[p] = "zombie" THEN "none" ELSE proc[p]]

\* init_core_master creates the pid file, or gives up when there is one, whether
\* its owner lives or not.
Start ==
  /\ starts < MaxStarts
  /\ starts' = starts + 1
  /\ IF pidfile THEN UNCHANGED <<pidfile, mpc, mask, fails, terms>>
     ELSE /\ Gone
          /\ pidfile' = TRUE /\ mpc' = "bind" /\ mask' = {}
          /\ fails' = 0 /\ terms' = 0
  /\ UNCHANGED <<slot, workers, nexit, pid, proc, told, orphans>>

\* Mutant: the address may be shared.
BindShared ==
  /\ mpc = "bind"
  /\ mpc' = "top"
  /\ slot' = 0 /\ workers' = 0 /\ nexit' = 0
  /\ pid' = [s \in Slot |-> NONE]
  /\ UNCHANGED <<pidfile, mask, proc, told, orphans, fails, terms, starts>>

\* init_event_core_master binds the listening sockets, which fails while workers
\* of the last master listen.  main then undoes init_core_master; and so it may
\* when nothing failed, because rslt has no value then.
Bind ==
  /\ mpc = "bind"
  /\ \/ /\ In("running") = {}
        /\ mpc' = "top"
        /\ slot' = 0 /\ workers' = 0 /\ nexit' = 0
        /\ pid' = [s \in Slot |-> NONE]
        /\ UNCHANGED pidfile
     \/ /\ mpc' = "off" /\ pidfile' = FALSE
        /\ UNCHANGED <<slot, workers, nexit, pid>>
  /\ UNCHANGED <<mask, proc, told, orphans, fails, terms, starts>>

\* master_main has returned: exit_core_master removes the pid file.
Exit ==
  /\ mpc = "done"
  /\ mpc' = "off" /\ pidfile' = FALSE
  /\ Orphan
  /\ UNCHANGED <<mask, slot, workers, nexit, pid, told, fails, terms, starts>>

\* The master is killed: the pid file stays.
Dies ==
  /\ mpc' = "dead"
  /\ Orphan
  /\ UNCHANGED <<pidfile, mask, slot, workers, nexit, pid, told, fails, starts>>

Kill ==
  /\ ~Gone /\ terms < MaxTerms
  /\ terms' = terms + 1
  /\ Dies

\* Somebody removes the pid file of a dead master.
RemovePidFile ==
  /\ mpc = "dead" /\ pidfile
  /\ pidfile' = FALSE
  /\ UNCHANGED <<mpc, mask, slot, workers, nexit, pid, proc, told, orphans, fails, terms, starts>>

-----------------------------------------------------------------------------
(* master_main                                                              *)

Top ==
  /\ mpc = "top"
  /\ mpc' = IF "EXIT" \in mask THEN "idle" ELSE "fork"
  /\ UNCHANGED <<pidfile, mask, slot, workers, nexit, pid, proc, told, orphans, fails, terms, starts>>

\* One round of the fork loop.  A pid is not reused while it is in the table.
Fork ==
  /\ mpc = "fork" /\ workers < Workers
  /\ \/ /\ FreeSlot # {}
        /\ \E s \in FreeSlot, p \in Unused :
             /\ \A r \in FreeSlot : s <= r
             /\ \A q \in Unused : p <= q
             /\ pid' = [pid EXCEPT ![s] = p]
             /\ proc' = [proc EXCEPT ![p] = "running"]
             /\ told' = told \ {p}
        /\ workers' = workers + 1
        /\ UNCHANGED <<mpc, orphans, fails>>
     \/ /\ FreeSlot # {} /\ fails < MaxFails      \* fork failed
        /\ fails' = fails + 1
        /\ mpc' = "idle"
        /\ UNCHANGED <<pid, proc, workers, told, orphans>>
  /\ UNCHANGED <<pidfile, mask, slot, nexit, terms, starts>>

\* The fork loop finds no slot: "bug defence", abort().
NoSlot ==
  /\ mpc = "fork" /\ workers < Workers /\ FreeSlot = {}
  /\ Dies /\ UNCHANGED terms

ForkDone ==
  /\ mpc = "fork" /\ workers >= Workers
  /\ mpc' = "idle"
  /\ UNCHANGED <<pidfile, mask, slot, workers, nexit, pid, proc, told, orphans, fails, terms, starts>>

Suspend ==
  /\ mpc = "idle"
  /\ mpc' = "suspended"
  /\ UNCHANGED <<pidfile, mask, slot, workers, nexit, pid, proc, told, orphans, fails, terms, starts>>

\* After sigsuspend: on SIGEXIT tell every worker and raise SIGCHLD.
Woken ==
  /\ mpc = "woken"
  /\ IF "EXIT" \in mask
     THEN /\ told' = told \cup {pid[s] : s \in Slot \ FreeSlot}
          /\ mask' = mask \cup {"CHLD"}
     ELSE UNCHANGED <<told, mask>>
  /\ mpc' = "check"
  /\ UNCHANGED <<pidfile, slot, workers, nexit, pid, proc, orphans, fails, terms, starts>>

Check ==
  /\ mpc = "check"
  /\ mpc' = IF "CHLD" \in mask THEN "wait" ELSE "top"
  /\ slot' = 0 /\ nexit' = 0
  /\ UNCHANGED <<pidfile, mask, workers, pid, proc, told, orphans, fails, terms, starts>>

\* The children waitpid(pid[s], WNOHANG) may report on: all of them if pid is
\* -1.
Awaited(s) == IF pid[s] = NONE THEN Children ELSE Children \cap {pid[s]}

Advance ==
  /\ slot' = slot + 1
  /\ UNCHANGED <<pidfile, mask, workers, told, orphans, fails, terms, starts>>

\* Mutant: the slot of a dead worker is not given free.
ReapKeepsSlot ==
  /\ mpc = "wait" /\ slot < Workers
  /\ \E p \in Awaited(slot) \cap In("zombie") :
       proc' = [proc EXCEPT ![p] = "none"]
  /\ nexit' = nexit + 1
  /\ Advance
  /\ UNCHANGED <<mpc, pid>>

\* wait_children: the worker of this slot is dead.
Reap ==
  /\ mpc = "wait" /\ slot < Workers
  /\ \E p \in Awaited(slot) \cap In("zombie") :
       proc' = [proc EXCEPT ![p] = "none"]
  /\ pid' = [pid EXCEPT ![slot] = NONE]
  /\ nexit' = nexit + 1
  /\ Advance
  /\ UNCHANGED mpc

\* wait_children: no news of this slot.
NoNews ==
  /\ mpc = "wait" /\ slot < Workers
  /\ Awaited(slot) # {} /\ Awaited(slot) \cap In("zombie") = {}
  /\ Advance
  /\ UNCHANGED <<mpc, nexit, pid, proc>>

\* wait_children: waitpid returns -1 and ASSERT(0) kills the master.
AssertFails ==
  /\ mpc = "wait" /\ slot < Workers
  /\ Awaited(slot) = {}
  /\ Dies /\ UNCHANGED terms

\* Mutant: the dead are not taken off the count.
WaitDoneKeepsCount ==
  /\ mpc = "wait" /\ slot = Workers
  /\ mpc' = IF "EXIT" \in mask THEN "done" ELSE "top"
  /\ UNCHANGED <<pidfile, mask, slot, workers, nexit, pid, proc, told, orphans, fails, terms, starts>>

\* Back in master_main, which leaves after one round of waiting.
WaitDone ==
  /\ mpc = "wait" /\ slot = Workers
  /\ workers' = workers - nexit
  /\ mpc' = IF "EXIT" \in mask THEN "done" ELSE "top"
  /\ UNCHANGED <<pidfile, mask, slot, nexit, pid, proc, told, orphans, fails, terms, starts>>

master_main ==
  \/ Top \/ Fork \/ NoSlot \/ ForkDone \/ Suspend \/ Woken \/ Check
  \/ Reap \/ NoNews \/ AssertFails \/ WaitDone

main == Bind \/ master_main \/ Exit

Next ==
  \/ main \/ Start \/ Kill \/ RemovePidFile \/ Terminate
  \/ \E p \in Pid : Crash(p) \/ Leave(p)

Spec == Init /\ [][Next]_vars

\* The master and the loops of its workers keep running.
FairSpec ==
  Spec /\ WF_vars(main) /\ \A p \in Pid : WF_vars(Leave(p))

-----------------------------------------------------------------------------
TypeOK ==
  /\ mpc \in {"off", "bind", "top", "fork", "idle", "suspended", "woken", "check",
              "wait", "done", "dead"}
  /\ pidfile \in BOOLEAN
  /\ mask \subseteq {"EXIT", "CHLD"}
  /\ slot \in 0 .. Workers
  /\ workers \in 0 .. Workers /\ nexit \in 0 .. Workers
  /\ pid \in [Slot -> Pid \cup {NONE}]
  /\ proc \in [Pid -> {"none", "running", "zombie"}]
  /\ told \subseteq Pid /\ orphans \subseteq Pid
  /\ fails \in Nat /\ terms \in Nat /\ starts \in Nat

\* No fork of this master has failed and no signal to it has come: the only
\* trouble are dying workers.
OnlyDeaths == fails = 0 /\ terms = 0

\* The process table is right whenever the master may fork or sleep, however
\* many workers died and when, and whatever the last master left behind: every
\* child, alive or not, has one slot, no slot names anything else, and workers
\* counts the slots in use.  (The variables keep their types throughout.)
TableMatches ==
  /\ TypeOK
  /\ OnlyDeaths /\ mpc \in {"top", "fork", "idle", "suspended"} =>
       /\ \A p \in Children : \E s \in Slot : pid[s] = p
       /\ \A s \in Slot \ FreeSlot :
            /\ pid[s] \in Children
            /\ \A r \in Slot : pid[r] = pid[s] => r = s
       /\ workers = Cardinality(Slot \ FreeSlot)

\* Dying workers alone never make the assertions of the master fail.
SurvivesDeaths ==
  [][OnlyDeaths /\ ~Gone /\ terms' = terms => mpc' # "dead"]_vars

\* A master that has bound its sockets holds the pid file, whoever else tried to
\* start the program, and no worker of an earlier master runs beside its own.
OneGeneration ==
  mpc \notin {"off", "bind", "dead"} => pidfile /\ orphans = {}

\* Once its master is gone every worker ends, told or not.
AllStop == \A p \in Pid : p \in orphans ~> p \notin orphans
=============================================================================
