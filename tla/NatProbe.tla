------------------------------- MODULE NatProbe -------------------------------
(***************************************************************************)
(* How a worker learns the NAT type and the UDP address of its users.      *)
(*                                                                         *)
(* A user sends a packet to each of two "retinue" servers.  Each retinue   *)
(* publishes on redis the source port it saw, the master also whether an   *)
(* answer from another port came through.  The subscribe thread hands the  *)
(* reports to the main thread over a socket pair (chan_sub), where a state *)
(* machine in the session pairs them.  A second thread hands over the      *)
(* source address of UDP heartbeats (chan_udp).                            *)
(*                                                                         *)
(* Packets are lost and repeated, and the two retinues are independent:    *)
(* reports of a user come any number of times, in any order.               *)
(***************************************************************************)
EXTENDS Naturals, Sequences

CONSTANTS
  User,        \* auth strings, with distinct hashes
  MasterPort,  \* [User -> Nat]: the port the master retinue sees
  VicePort,    \* [User -> Nat]: the port the vice retinue sees
  Restricted,  \* [User -> BOOLEAN]: the NAT really is port restricted
  BadPort,     \* users whose reports may carry a port atoi turns into 0
  AuthOK,      \* redis answers "OK" to the AUTH of redisCheckConnection
  Mobile,      \* users that send UDP heartbeats
  Addr,        \* the source addresses of their heartbeats
  SubCap,      \* packets the two socket pairs hold
  UdpCap,
  NoAddr

ASSUME NatAssumption ==
  /\ MasterPort \in [User -> Nat \ {0}]
  /\ VicePort \in [User -> Nat \ {0}]
  /\ Restricted \in [User -> BOOLEAN]
  /\ BadPort \subseteq User /\ Mobile \subseteq User /\ AuthOK \in BOOLEAN
  /\ SubCap \in Nat \ {0} /\ UdpCap \in Nat \ {0}
  /\ NoAddr \notin Addr

VARIABLES
  redisUp,   \* the redis server answers
  up,        \* the subscriber's connection to it is intact
  sub,       \* where the subscribe thread is
  chan_sub,  \* reports on their way to the main thread
  chan_udp,  \* heartbeats on their way to the main thread
  users,     \* users with a session
  ts,        \* their sessions
  seen,      \* history: what was heard since the login; see Heard
  fresh      \* history: address of the last heartbeat since the login

rvars == <<redisUp, up, sub>>
mvars == <<users, ts, seen, fresh>>
vars  == <<rvars, chan_sub, chan_udp, mvars>>

-----------------------------------------------------------------------------
FsmStat == {"IDLE", "WAIT_RETINUE_MASTER", "WAIT_RETINUE_VICE"}
NatType == {"UNKNOWN", "SYMMETIC", "PORT_RESTRICTED_CONE", "RESTRICTED_CONE"}
Ports   == {MasterPort[u] : u \in User} \cup {VicePort[u] : u \in User} \cup {0}
Report  == [auth : User, master : BOOLEAN, port : Ports, restricted : BOOLEAN]
Session == [fsm_stat : FsmStat, port_restricted : BOOLEAN,
            pre_udp_port : Ports, nat_type : NatType,
            udp_hole : Addr \cup {NoAddr}]

\* __tcp_session_init
NewSession == [fsm_stat |-> "IDLE", port_restricted |-> FALSE,
               pre_udp_port |-> 0, nat_type |-> "UNKNOWN", udp_hole |-> NoAddr]

Init ==
  /\ redisUp = TRUE /\ up = FALSE
  /\ sub = "init"
  /\ chan_sub = <<>> /\ chan_udp = <<>>
  /\ users = {}
  /\ ts = [u \in User |-> NewSession]
  /\ seen = [u \in User |-> {}]
  /\ fresh = [u \in User |-> NoAddr]

-----------------------------------------------------------------------------
\* The process is killed by a signal.
WorkerDies ==
  /\ up' = FALSE /\ sub' = "init"
  /\ chan_sub' = <<>> /\ chan_udp' = <<>>
  /\ users' = {}
  /\ ts' = [u \in User |-> NewSession]
  /\ seen' = [u \in User |-> {}]
  /\ fresh' = [u \in User |-> NoAddr]
  /\ UNCHANGED redisUp

(* Sessions come and go; see P2PSession.                                    *)

Login(u) ==
  /\ sub # "init" /\ u \notin users
  /\ users' = users \cup {u}
  /\ UNCHANGED <<rvars, chan_sub, chan_udp, ts, seen, fresh>>

\* The next login initialises the session; the model does it here.
Logout(u) ==
  /\ u \in users
  /\ users' = users \ {u}
  /\ ts' = [ts EXCEPT ![u] = NewSession]
  /\ seen' = [seen EXCEPT ![u] = {}]
  /\ fresh' = [fresh EXCEPT ![u] = NoAddr]
  /\ UNCHANGED <<rvars, chan_sub, chan_udp>>

-----------------------------------------------------------------------------
(* redis and the subscribe thread                                           *)

RedisDown ==
  /\ redisUp
  /\ redisUp' = FALSE /\ up' = FALSE
  /\ UNCHANGED <<sub, chan_sub, chan_udp, mvars>>

RedisBack ==
  /\ ~redisUp
  /\ redisUp' = TRUE
  /\ UNCHANGED <<up, sub, chan_sub, chan_udp, mvars>>

Thread(from, to) ==
  /\ sub = from /\ sub' = to
  /\ UNCHANGED <<redisUp, chan_sub, chan_udp, mvars>>

\* init_p2p_fsm_module: without a redis connection the worker exits, and the
\* master forks the next one.
StartWorker == redisUp /\ Thread("init", "connected") /\ up' = TRUE

\* redisGetConnection; a failure is retried after ten seconds
GetConnection == redisUp /\ Thread("none", "connected") /\ up' = TRUE

\* Mutant: a connection that fails the check is not thrown away.
CheckConnectionKeeps ==
  up /\ AuthOK /\ Thread("connected", "checked") /\ UNCHANGED up

\* redisCheckConnection: the connection counts as usable when AUTH is answered
\* by the status OK, and is thrown away otherwise.
CheckConnection ==
  \/ up /\ AuthOK /\ Thread("connected", "checked") /\ UNCHANGED up
  \/ ~(up /\ AuthOK) /\ Thread("connected", "none") /\ UNCHANGED up

\* SUBSCRIBE to two topics is answered by two replies.  The first comes with
\* the command, or the command fails and redisGetReply fails after it.
SubscribeFirst ==
  \/ up /\ Thread("checked", "half") /\ UNCHANGED up
  \/ ~up /\ Thread("checked", "connected") /\ UNCHANGED up

\* The second reply, which may have come with the first.  When redisGetReply
\* fails it leaves "reply" alone, and the first reply is freed again: the
\* process dies.
SubscribeSecond ==
  \/ Thread("half", "subscribed") /\ UNCHANGED up
  \/ ~up /\ sub = "half" /\ WorkerDies

\* redisGetReply fails: back to the top of the loop with the broken connection
ConnectionLost == ~up /\ Thread("subscribed", "connected") /\ UNCHANGED up

SubscribeThread ==
  \/ StartWorker \/ GetConnection \/ CheckConnection \/ SubscribeFirst \/ SubscribeSecond
  \/ ConnectionLost

\* A retinue publishes and the subscribe thread hands the report over:
\* handle_title_master, handle_title_vice.  Without a subscription it is lost.
Publish(r) ==
  /\ up /\ sub = "subscribed"
  /\ Len(chan_sub) < SubCap
  /\ chan_sub' = Append(chan_sub, r)
  /\ UNCHANGED <<rvars, chan_udp, mvars>>

handle_title_master(u) ==
  \E p \in {MasterPort[u]} \cup {0 : b \in BadPort \cap {u}} :
    Publish([auth |-> u, master |-> TRUE, port |-> p,
             restricted |-> Restricted[u]])

\* The vice's packet leaves port_restricted unset; on_channel_sub does not read
\* it from there.
handle_title_vice(u) ==
  \E p \in {VicePort[u]} \cup {0 : b \in BadPort \cap {u}} :
    Publish([auth |-> u, master |-> FALSE, port |-> p, restricted |-> FALSE])

-----------------------------------------------------------------------------
(* The main thread                                                          *)

\* The type two ports and the flag of the session stand for
Classify(s, port) ==
  IF s.pre_udp_port # port THEN "SYMMETIC"
  ELSE IF s.port_restricted THEN "PORT_RESTRICTED_CONE" ELSE "RESTRICTED_CONE"

\* The second report of a pair
Paired(s, port) ==
  [s EXCEPT !.nat_type = Classify(s, port), !.fsm_stat = "IDLE",
            !.pre_udp_port = 0]

\* Mutant: a repeated report is paired with the first one.
NatStepPairsRepeats(s, r) ==
  IF s.fsm_stat # "IDLE" THEN Paired(s, r.port)
  ELSE [s EXCEPT !.fsm_stat = IF r.master THEN "WAIT_RETINUE_VICE"
                              ELSE "WAIT_RETINUE_MASTER",
                 !.port_restricted = r.master /\ r.restricted,
                 !.pre_udp_port = r.port]

\* Mutant: a repeated report starts the machine again from the beginning.
NatStepRestarts(s, r) ==
  IF s.fsm_stat = IF r.master THEN "WAIT_RETINUE_MASTER" ELSE "WAIT_RETINUE_VICE"
  THEN Paired(s, r.port)
  ELSE IF s.fsm_stat = "IDLE"
  THEN [s EXCEPT !.fsm_stat = IF r.master THEN "WAIT_RETINUE_VICE"
                              ELSE "WAIT_RETINUE_MASTER",
                 !.pre_udp_port = r.port]
  ELSE [s EXCEPT !.fsm_stat = "IDLE", !.pre_udp_port = 0]

\* Mutant: the flag is stored with the first report, whichever it is.
NatStepStoresFlag(s, r) ==
  IF s.fsm_stat = IF r.master THEN "WAIT_RETINUE_MASTER" ELSE "WAIT_RETINUE_VICE"
  THEN Paired(s, r.port)
  ELSE [s EXCEPT !.fsm_stat = IF r.master THEN "WAIT_RETINUE_VICE"
                              ELSE "WAIT_RETINUE_MASTER",
                 !.port_restricted = r.restricted,
                 !.pre_udp_port = r.port]

\* The state machine of on_channel_sub: session s receives report r.
NatStep(s, r) ==
  CASE s.fsm_stat = "IDLE" /\ r.master ->
         [s EXCEPT !.fsm_stat = "WAIT_RETINUE_VICE",
                   !.port_restricted = r.restricted,
                   !.pre_udp_port = r.port]
    [] s.fsm_stat = "IDLE" /\ ~r.master ->
         [s EXCEPT !.fsm_stat = "WAIT_RETINUE_MASTER",
                   !.pre_udp_port = r.port]
    [] s.fsm_stat = "WAIT_RETINUE_MASTER" /\ ~r.master ->
         [s EXCEPT !.pre_udp_port = r.port]
    [] s.fsm_stat = "WAIT_RETINUE_VICE" /\ r.master ->
         [s EXCEPT !.pre_udp_port = r.port]
    [] OTHER -> Paired(s, r.port)

\* ASSERT(0 != ts->pre_udp_port), before two reports are paired
AssertFails(s, r) ==
  /\ s.fsm_stat = IF r.master THEN "WAIT_RETINUE_MASTER" ELSE "WAIT_RETINUE_VICE"
  /\ s.pre_udp_port = 0

\* What a report adds to the history of its session
Heard(r) ==
  {IF r.master THEN "master" ELSE "vice"} \cup (IF r.port = 0 THEN {"malformed"} ELSE {})

\* Reports for users without a session are dropped.
on_channel_sub ==
  LET r == Head(chan_sub) IN
  /\ chan_sub # <<>>
  /\ \/ /\ r.auth \notin users
        /\ chan_sub' = Tail(chan_sub)
        /\ UNCHANGED <<rvars, chan_udp, mvars>>
     \/ /\ r.auth \in users /\ ~AssertFails(ts[r.auth], r)
        /\ chan_sub' = Tail(chan_sub)
        /\ ts' = [ts EXCEPT ![r.auth] = NatStep(@, r)]
        /\ seen' = [seen EXCEPT ![r.auth] = @ \cup Heard(r)]
        /\ UNCHANGED <<rvars, chan_udp, users, fresh>>
     \/ /\ r.auth \in users /\ AssertFails(ts[r.auth], r)
        /\ WorkerDies

\* udp_thread receives a heartbeat that names user u.
udp_thread(u) ==
  \E a \in Addr :
    /\ sub # "init"
    /\ Len(chan_udp) < UdpCap
    /\ chan_udp' = Append(chan_udp, [auth |-> u, peer_addr |-> a])
    /\ fresh' = IF u \in users THEN [fresh EXCEPT ![u] = a] ELSE fresh
    /\ UNCHANGED <<rvars, chan_sub, users, ts, seen>>

\* Mutant: the first address of a session is kept.
on_channel_udp_first ==
  LET h == Head(chan_udp) IN
  /\ chan_udp # <<>>
  /\ chan_udp' = Tail(chan_udp)
  /\ ts' = IF h.auth \in users /\ ts[h.auth].udp_hole = NoAddr
           THEN [ts EXCEPT ![h.auth].udp_hole = h.peer_addr]
           ELSE ts
  /\ UNCHANGED <<rvars, chan_sub, users, seen, fresh>>

\* The main thread files the source address of a heartbeat.
on_channel_udp ==
  LET h == Head(chan_udp) IN
  /\ chan_udp # <<>>
  /\ chan_udp' = Tail(chan_udp)
  /\ ts' = IF h.auth \in users
           THEN [ts EXCEPT ![h.auth].udp_hole = h.peer_addr]
           ELSE ts
  /\ UNCHANGED <<rvars, chan_sub, users, seen, fresh>>

Next ==
  \/ RedisDown \/ RedisBack \/ SubscribeThread
  \/ on_channel_sub \/ on_channel_udp
  \/ \E u \in User :
       \/ Login(u) \/ Logout(u)
       \/ handle_title_master(u) \/ handle_title_vice(u)
  \/ \E u \in Mobile : udp_thread(u)

Spec == Init /\ [][Next]_vars

\* The master replaces a dead worker, the subscribe thread runs, and so does the
\* main loop.
FairSpec == Spec /\ WF_vars(SubscribeThread) /\ WF_vars(on_channel_sub)

-----------------------------------------------------------------------------
(* Properties                                                               *)

TypeOK ==
  /\ redisUp \in BOOLEAN /\ up \in BOOLEAN
  /\ sub \in {"init", "none", "connected", "checked", "half", "subscribed"}
  /\ chan_sub \in Seq(Report)
  /\ chan_udp \in Seq([auth : User, peer_addr : Addr])
  /\ users \subseteq User
  /\ ts \in [User -> Session]
  /\ seen \in [User -> SUBSET {"master", "vice", "malformed"}]
  /\ fresh \in [User -> Addr \cup {NoAddr}]

\* A user is taken for symmetric only if the retinues saw two ports and for a
\* cone only if they saw one, whatever was lost, repeated or overtaken; a report
\* whose port atoi could not read falsifies no session but its own.
SymmetricSound ==
  \A u \in users :
    ts[u].nat_type # "UNKNOWN" /\ "malformed" \notin seen[u] =>
      (ts[u].nat_type = "SYMMETIC" <=> MasterPort[u] # VicePort[u])

\* Once both retinues have been heard in a session its type is known.  (The
\* variables keep their types throughout.)
HeardIsKnown ==
  /\ TypeOK
  /\ \A u \in users : {"master", "vice"} \subseteq seen[u] => ts[u].nat_type # "UNKNOWN"

\* A session filed as a port restricted cone stays one, although only a master
\* report that comes first brings the flag: later pairs in the other order keep
\* the flag of the older one.
RestrictionKept ==
  [][\A u \in users \cap users' :
       ts[u].nat_type = "PORT_RESTRICTED_CONE" /\ "malformed" \notin seen'[u] =>
         Restricted[u] /\ ts'[u].nat_type = "PORT_RESTRICTED_CONE"]_vars

\* The heartbeats of u on their way to the main thread
Coming(u) == {i \in DOMAIN chan_udp : chan_udp[i].auth = u}

\* The address of the newest heartbeat wins: it is the last one on its way, or
\* it is in the session.
FreshHole ==
  \A u \in users : fresh[u] # NoAddr =>
    /\ Coming(u) = {} => ts[u].udp_hole = fresh[u]
    /\ \A i \in Coming(u) :
         (\A j \in Coming(u) : j <= i) => chan_udp[i].peer_addr = fresh[u]

\* When redis stays reachable, the subscriber is subscribed over a connection that
\* works again and again, whatever losses and restarts come in between.
SubscriberRecovers == <>[]redisUp => []<>(up /\ sub = "subscribed")
=============================================================================
