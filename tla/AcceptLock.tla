------------------------------ MODULE AcceptLock ------------------------------
(***************************************************************************)
(* How the workers share the listening sockets.                            *)
(*                                                                         *)
(* With several workers, event_loop_multi lets a worker watch the          *)
(* listeners only while it holds a lock word in shared memory: it tries    *)
(* the lock, registers the listeners with its epoll instance, waits for    *)
(* events, takes them out again and unlocks.  accept() itself comes after  *)
(* the unlock.                                                             *)
(* Registration is edge triggered: an event is reported on registration if *)
(* connections wait, and when one arrives.                                 *)
(***************************************************************************)
EXTENDS Naturals

CONSTANTS
  Worker,
  MaxConn,     \* lts_main_conf.max_connections
  Reserve,     \* free sockets below which a worker leaves the lock alone
  Cache,       \* sockets in a worker's cache when it has no connection
  MaxArrivals, \* bound: connections clients open
  MaxKills     \* bound: workers killed

ASSUME LockAssumption ==
  /\ MaxConn \in Nat \ {0} /\ Reserve \in Nat /\ Cache \in Nat
  /\ Cache > MaxConn /\ Cache > Reserve
  /\ MaxArrivals \in Nat /\ MaxKills \in Nat

VARIABLES
  lock,      \* the shared word: bit 31 set or not
  pc,        \* where each worker is in its loop
  val,       \* the lock word as a worker last read it
  hold,      \* lts_accept_lock_hold: listeners registered under the lock
  edge,      \* the worker's epoll instance has a listener event to report
  readable,  \* ls->readable: the listener is on the worker's post list
  conns,     \* current_conns of each worker
  backlog,   \* connections waiting to be accepted
  arrived, kills

wvars == <<pc, val, hold, edge, readable, conns>>
vars  == <<lock, wvars, backlog, arrived, kills>>

FREE == 0
HELD == 1

Registered(w) == hold[w]

Init ==
  /\ lock = FREE
  /\ pc = [w \in Worker |-> "top"]
  /\ val = [w \in Worker |-> FREE]
  /\ hold = [w \in Worker |-> FALSE]
  /\ edge = [w \in Worker |-> FALSE]
  /\ readable = [w \in Worker |-> FALSE]
  /\ conns = [w \in Worker |-> 0]
  /\ backlog = 0 /\ arrived = 0 /\ kills = 0

Goto(w, from, to) == pc[w] = from /\ pc' = [pc EXCEPT ![w] = to]

\* The top of the loop.  lts_accept_disabled is max_connections / 8 minus the
\* free sockets: a worker short of them does not try the lock.
Top(w) ==
  /\ IF Cache - conns[w] > Reserve
     THEN Goto(w, "top", "read") ELSE Goto(w, "top", "events")
  /\ UNCHANGED <<lock, val, hold, edge, readable, conns, backlog, arrived, kills>>

\* lts_shmtx_trylock reads the word ...
TryRead(w) ==
  /\ Goto(w, "read", "cas")
  /\ val' = [val EXCEPT ![w] = lock]
  /\ UNCHANGED <<lock, hold, edge, readable, conns, backlog, arrived, kills>>

\* Mutant: the word is set without looking at what it has become.
TryStore(w) ==
  /\ Goto(w, "cas", "events")
  /\ lock' = HELD
  /\ hold' = [hold EXCEPT ![w] = @ \/ val[w] = FREE]
  /\ edge' = [edge EXCEPT ![w] = @ \/ (val[w] = FREE /\ backlog > 0)]
  /\ UNCHANGED <<val, readable, conns, backlog, arrived, kills>>

\* Mutant: the listeners are not registered anew, and what waits is not reported.
TryCasQuiet(w) ==
  LET won == val[w] = FREE /\ lock = val[w] IN
  /\ Goto(w, "cas", "events")
  /\ lock' = IF won THEN HELD ELSE lock
  /\ hold' = [hold EXCEPT ![w] = @ \/ won]
  /\ UNCHANGED <<val, edge, readable, conns, backlog, arrived, kills>>

\* ... and sets the bit if it was clear and the word has not changed.  On
\* success enable_accept_events registers the listeners.
TryCas(w) ==
  LET won == val[w] = FREE /\ lock = val[w] IN
  /\ Goto(w, "cas", "events")
  /\ lock' = IF won THEN HELD ELSE lock
  /\ hold' = [hold EXCEPT ![w] = @ \/ won]
  /\ edge' = [edge EXCEPT ![w] = @ \/ (won /\ backlog > 0)]
  /\ UNCHANGED <<val, readable, conns, backlog, arrived, kills>>

\* Mutant: a worker that finds no listener event keeps the lock.
ProcessEventsKeepsLock(w) ==
  /\ Goto(w, "events", IF hold[w] /\ edge[w] THEN "unlock" ELSE "post")
  /\ readable' = [readable EXCEPT ![w] = @ \/ edge[w]]
  /\ edge' = [edge EXCEPT ![w] = FALSE]
  /\ hold' = [hold EXCEPT ![w] = FALSE]
  /\ UNCHANGED <<lock, val, conns, backlog, arrived, kills>>

\* process_events, then disable_accept_events if the worker holds the lock.
ProcessEvents(w) ==
  /\ Goto(w, "events", IF hold[w] THEN "unlock" ELSE "post")
  /\ readable' = [readable EXCEPT ![w] = @ \/ edge[w]]
  /\ edge' = [edge EXCEPT ![w] = FALSE]
  /\ hold' = [hold EXCEPT ![w] = FALSE]
  /\ UNCHANGED <<lock, val, conns, backlog, arrived, kills>>

\* lts_shmtx_unlock reads the word and swaps the bit out, until it succeeds.
UnlockRead(w) ==
  /\ Goto(w, "unlock", "swap")
  /\ val' = [val EXCEPT ![w] = lock]
  /\ UNCHANGED <<lock, hold, edge, readable, conns, backlog, arrived, kills>>

UnlockCas(w) ==
  /\ Goto(w, "swap", IF lock = val[w] THEN "post" ELSE "unlock")
  /\ lock' = IF lock = val[w] THEN FREE ELSE lock
  /\ UNCHANGED <<val, hold, edge, readable, conns, backlog, arrived, kills>>

\* The listener's visit on the post list: lts_accept takes one connection and
\* stays readable; it stops at the limit or when nothing waits.
Post(w) ==
  /\ Goto(w, "post", "timer")
  /\ \/ ~readable[w] /\ UNCHANGED <<readable, conns, backlog>>
     \/ /\ readable[w]
        /\ conns[w] >= MaxConn \/ backlog = 0
        /\ readable' = [readable EXCEPT ![w] = FALSE]
        /\ UNCHANGED <<conns, backlog>>
     \/ /\ readable[w] /\ conns[w] < MaxConn /\ backlog > 0
        /\ backlog' = backlog - 1
        /\ \/ conns' = [conns EXCEPT ![w] = @ + 1]
           \/ UNCHANGED conns      \* LTS_E_CONNABORTED: the client is gone
        /\ UNCHANGED readable
  /\ UNCHANGED <<lock, val, hold, edge, arrived, kills>>

\* Connections of the worker end (see P2PSession), and the loop starts over.
Timer(w) ==
  /\ Goto(w, "timer", "top")
  /\ \E n \in 0 .. conns[w] : conns' = [conns EXCEPT ![w] = n]
  /\ UNCHANGED <<lock, val, hold, edge, readable, backlog, arrived, kills>>

Step(w) ==
  \/ Top(w) \/ TryRead(w) \/ TryCas(w) \/ ProcessEvents(w)
  \/ UnlockRead(w) \/ UnlockCas(w) \/ Post(w) \/ Timer(w)

\* A client connects.  Where the listener is registered, that is an edge.
Arrive ==
  /\ arrived < MaxArrivals
  /\ arrived' = arrived + 1
  /\ backlog' = backlog + 1
  /\ edge' = [w \in Worker |-> edge[w] \/ Registered(w)]
  /\ UNCHANGED <<lock, pc, val, hold, readable, conns, kills>>

\* A worker is killed and its replacement starts.  The lock word stays as it is.
Kill(w) ==
  /\ kills < MaxKills
  /\ kills' = kills + 1
  /\ pc' = [pc EXCEPT ![w] = "top"]
  /\ val' = [val EXCEPT ![w] = FREE]
  /\ hold' = [hold EXCEPT ![w] = FALSE]
  /\ edge' = [edge EXCEPT ![w] = FALSE]
  /\ readable' = [readable EXCEPT ![w] = FALSE]
  /\ conns' = [conns EXCEPT ![w] = 0]
  /\ UNCHANGED <<lock, backlog, arrived>>

Next == Arrive \/ \E w \in Worker : Step(w) \/ Kill(w)

Spec == Init /\ [][Next]_vars

\* Every worker keeps running its loop (its epoll_wait is interrupted by the
\* 0.1 s alarm at the latest), and keepalive ends every connection.
FairSpec ==
  /\ Spec
  /\ \A w \in Worker :
       WF_vars(Step(w)) /\ SF_vars(Timer(w) /\ conns'[w] = 0)

-----------------------------------------------------------------------------
TypeOK ==
  /\ lock \in {FREE, HELD}
  /\ pc \in [Worker -> {"top", "read", "cas", "events", "unlock", "swap",
                        "post", "timer"}]
  /\ val \in [Worker -> {FREE, HELD}]
  /\ hold \in [Worker -> BOOLEAN]
  /\ edge \in [Worker -> BOOLEAN]
  /\ readable \in [Worker -> BOOLEAN]
  /\ conns \in [Worker -> 0 .. MaxConn]
  /\ backlog \in Nat /\ arrived \in Nat /\ kills \in Nat

\* A worker that has won the lock and not yet given it back
Owner(w) == hold[w] \/ pc[w] \in {"unlock", "swap"}

\* At most one worker is between trylock and unlock, so at most one has the
\* listeners registered, whoever is killed when.
MutualExclusion ==
  \A v, w \in Worker : Owner(v) /\ Owner(w) => v = w

\* The unlock loop of lts_shmtx_unlock is taken by the owner only, and swaps at
\* its first try: nobody else writes a word whose bit is set.
UnlockOnce == \A w \in Worker : pc[w] = "swap" => lock = val[w]

\* The word is set and nobody is going to clear it.
Leaked == lock = HELD /\ \A w \in Worker : ~Owner(w)

\* While no worker is killed, the word is set only on behalf of an owner.
NoLeakedLock == kills = 0 => ~Leaked

\* A waiting connection is accepted, although workers at their limit drop the
\* listener event: the next registration reports it again.  Only a worker
\* killed while it owns the lock can prevent it.
Accepted == backlog > 0 ~> backlog = 0 \/ Leaked
=============================================================================
