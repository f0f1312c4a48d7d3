---------------------------- MODULE NatProbeProofs ----------------------------
(***************************************************************************)
(* Proofs about NatProbe, for any set of users, any ports, any channel     *)
(* capacity and any mixture of lost, repeated and malformed reports.       *)
(***************************************************************************)
EXTENDS NatProbe, SequenceTheorems, TLAPS

(* The inductive invariant.  What a pair of reports is classified as depends *)
(* on the port the session kept from the first one and on the flag it keeps  *)
(* from an older master report, so both must be tied to the user's real NAT, *)
(* and so must the reports still in the channel.                             *)

\* A report carries what its retinue saw, or a port atoi could not read.
TrueReport(r) ==
  /\ r.master => r.port \in {MasterPort[r.auth], 0} /\ r.restricted = Restricted[r.auth]
  /\ ~r.master => r.port \in {VicePort[r.auth], 0}

ReportsTrue == \A i \in DOMAIN chan_sub : TrueReport(chan_sub[i])

\* The session between logins is a new one.
Untouched(u) == ts[u] = NewSession /\ seen[u] = {} /\ fresh[u] = NoAddr

\* What session s of user u knows once h was heard in it
Knows(u, s, h) ==
  /\ s.port_restricted => Restricted[u]
  /\ "malformed" \notin h =>
       /\ s.fsm_stat = "WAIT_RETINUE_VICE" => s.pre_udp_port = MasterPort[u]
       /\ s.fsm_stat = "WAIT_RETINUE_MASTER" => s.pre_udp_port = VicePort[u]
       /\ s.nat_type # "UNKNOWN" =>
            (s.nat_type = "SYMMETIC" <=> MasterPort[u] # VicePort[u])
       /\ s.nat_type = "PORT_RESTRICTED_CONE" => s.port_restricted
  /\ s.nat_type = "UNKNOWN" =>
       /\ "vice" \in h => s.fsm_stat = "WAIT_RETINUE_MASTER"
       /\ "master" \in h => s.fsm_stat = "WAIT_RETINUE_VICE"

Sessions ==
  \A u \in User :
    /\ u \notin users => Untouched(u)
    /\ Knows(u, ts[u], seen[u])

NatInv == TypeOK /\ ReportsTrue /\ Sessions /\ FreshHole

-----------------------------------------------------------------------------
(* The state machine of on_channel_sub *)

\* A port a report carries is a port.
LEMMA PortsOf ==
  \A u \in User : MasterPort[u] \in Ports /\ VicePort[u] \in Ports /\ 0 \in Ports
BY DEF Ports

\* A report turns a session into a session and leaves its UDP address alone.
LEMMA NatStepType ==
  ASSUME NEW s \in Session, NEW r \in Report
  PROVE  NatStep(s, r) \in Session /\ NatStep(s, r).udp_hole = s.udp_hole
<1>1. /\ r.port \in Ports /\ r.restricted \in BOOLEAN /\ r.master \in BOOLEAN
      /\ 0 \in Ports
  BY DEF Report, Ports
<1>2. Classify(s, r.port) \in NatType
  BY DEF Classify, NatType
<1>3. CASE s.fsm_stat = "IDLE" /\ r.master
  BY <1>1, <1>3 DEF NatStep, Session, FsmStat
<1>4. CASE s.fsm_stat = "IDLE" /\ ~r.master
  BY <1>1, <1>4 DEF NatStep, Session, FsmStat
<1>5. CASE s.fsm_stat = "WAIT_RETINUE_MASTER" /\ ~r.master
  BY <1>1, <1>5 DEF NatStep, Session, FsmStat
<1>6. CASE s.fsm_stat = "WAIT_RETINUE_VICE" /\ r.master
  BY <1>1, <1>6 DEF NatStep, Session, FsmStat
<1>7. CASE s.fsm_stat = "WAIT_RETINUE_MASTER" /\ r.master
  BY <1>1, <1>2, <1>7 DEF NatStep, Paired, Session, FsmStat
<1>8. CASE s.fsm_stat = "WAIT_RETINUE_VICE" /\ ~r.master
  BY <1>1, <1>2, <1>8 DEF NatStep, Paired, Session, FsmStat
<1>. QED BY <1>1, <1>3, <1>4, <1>5, <1>6, <1>7, <1>8 DEF Session, FsmStat

\* What a session knows stays right when a true report comes in, and a port
\* restricted cone stays one.
LEMMA NatStepKnows ==
  ASSUME NEW u \in User, NEW s \in Session, NEW r \in Report, NEW h,
         r.auth = u, TrueReport(r), Knows(u, s, h)
  PROVE  /\ Knows(u, NatStep(s, r), h \cup Heard(r))
         /\ s.nat_type = "PORT_RESTRICTED_CONE" /\ "malformed" \notin h \cup Heard(r)
              => NatStep(s, r).nat_type = "PORT_RESTRICTED_CONE"
<1>. DEFINE t == NatStep(s, r)
            g == h \cup Heard(r)
<1>1. /\ r.port \in Ports /\ r.restricted \in BOOLEAN /\ r.master \in BOOLEAN
      /\ s.port_restricted \in BOOLEAN
  BY DEF Report, Session
<1>2. /\ "malformed" \notin g =>
           /\ "malformed" \notin h
           /\ r.master => r.port = MasterPort[u]
           /\ ~r.master => r.port = VicePort[u]
      /\ "master" \in g <=> "master" \in h \/ r.master
      /\ "vice" \in g <=> "vice" \in h \/ ~r.master
  BY <1>1 DEF Heard, TrueReport
<1>. HIDE DEF g
<1>3. CASE s.fsm_stat = "IDLE" /\ r.master
  <2>1. t = [s EXCEPT !.fsm_stat = "WAIT_RETINUE_VICE",
                      !.port_restricted = r.restricted, !.pre_udp_port = r.port]
    BY <1>3 DEF NatStep
  <2>2. /\ t.fsm_stat = "WAIT_RETINUE_VICE" /\ t.port_restricted = Restricted[u]
        /\ t.pre_udp_port = r.port /\ t.nat_type = s.nat_type
    BY <1>3, <2>1 DEF Session, TrueReport
  <2>. HIDE DEF t
  <2>3. Knows(u, t, g)
    BY <1>1, <1>2, <1>3, <2>2 DEF Knows
  <2>. QED BY <2>2, <2>3 DEF t, g
<1>4. CASE s.fsm_stat = "IDLE" /\ ~r.master
  <2>1. t = [s EXCEPT !.fsm_stat = "WAIT_RETINUE_MASTER", !.pre_udp_port = r.port]
    BY <1>4 DEF NatStep
  <2>2. /\ t.fsm_stat = "WAIT_RETINUE_MASTER" /\ t.port_restricted = s.port_restricted
        /\ t.pre_udp_port = r.port /\ t.nat_type = s.nat_type
    BY <2>1 DEF Session
  <2>. HIDE DEF t
  <2>3. Knows(u, t, g)
    BY <1>1, <1>2, <1>4, <2>2 DEF Knows
  <2>. QED BY <2>2, <2>3 DEF t, g
<1>5. CASE \/ s.fsm_stat = "WAIT_RETINUE_MASTER" /\ ~r.master
           \/ s.fsm_stat = "WAIT_RETINUE_VICE" /\ r.master
  <2>1. t = [s EXCEPT !.pre_udp_port = r.port]
    BY <1>5 DEF NatStep
  <2>2. /\ t.fsm_stat = s.fsm_stat /\ t.port_restricted = s.port_restricted
        /\ t.pre_udp_port = r.port /\ t.nat_type = s.nat_type
    BY <2>1 DEF Session
  <2>. HIDE DEF t
  <2>3. Knows(u, t, g)
    BY <1>1, <1>2, <1>5, <2>2 DEF Knows
  <2>. QED BY <2>2, <2>3 DEF t, g
<1>6. CASE \/ s.fsm_stat = "WAIT_RETINUE_MASTER" /\ r.master
           \/ s.fsm_stat = "WAIT_RETINUE_VICE" /\ ~r.master
  <2>1. t = Paired(s, r.port)
    BY <1>6 DEF NatStep
  <2>2. /\ t.fsm_stat = "IDLE" /\ t.port_restricted = s.port_restricted
        /\ t.nat_type = Classify(s, r.port)
    BY <2>1 DEF Session, Paired
  <2>3. t.nat_type # "UNKNOWN"
    BY <2>2 DEF Classify
  <2>4. "malformed" \notin g => (s.pre_udp_port # r.port <=> MasterPort[u] # VicePort[u])
    BY <1>1, <1>2, <1>6 DEF Knows
  <2>. HIDE DEF t
  <2>5. "malformed" \notin g =>
          /\ t.nat_type = "SYMMETIC" <=> MasterPort[u] # VicePort[u]
          /\ t.nat_type = "PORT_RESTRICTED_CONE" <=>
               MasterPort[u] = VicePort[u] /\ t.port_restricted
    BY <2>2, <2>4 DEF Classify
  <2>6. Knows(u, t, g)
    BY <1>1, <2>2, <2>3, <2>5 DEF Knows
  <2>7. s.nat_type = "PORT_RESTRICTED_CONE" /\ "malformed" \notin g
          => t.nat_type = "PORT_RESTRICTED_CONE"
    BY <1>2, <2>2, <2>5 DEF Knows
  <2>. QED BY <2>6, <2>7 DEF t, g
<1>. QED BY <1>1, <1>3, <1>4, <1>5, <1>6 DEF Session, FsmStat

-----------------------------------------------------------------------------
(* The invariant holds initially and after the death of a worker *)

\* A new session is one, and it knows nothing wrong.
LEMMA NewSessionKnows ==
  /\ NewSession \in Session
  /\ \A u \in User : Knows(u, NewSession, {})
BY NatAssumption DEF NewSession, Session, FsmStat, NatType, Ports, Knows

\* The state in which a worker starts satisfies the invariant.
LEMMA InitInv == Init => NatInv
<1>. SUFFICES ASSUME Init PROVE NatInv
  OBVIOUS
<1>1. TypeOK
  <2>1. redisUp \in BOOLEAN /\ up \in BOOLEAN
    BY DEF Init
  <2>2. /\ chan_sub \in Seq(Report) /\ chan_udp \in Seq([auth : User, peer_addr : Addr])
        /\ ts \in [User -> Session] /\ fresh \in [User -> Addr \cup {NoAddr}]
        /\ seen \in [User -> SUBSET {"master", "vice", "malformed"}]
    BY NewSessionKnows DEF Init
  <2>. QED BY <2>1, <2>2 DEF Init, TypeOK
<1>2. ReportsTrue
  BY DEF Init, ReportsTrue
<1>3. Sessions
  BY NewSessionKnows DEF Init, Sessions, Untouched
<1>4. FreshHole
  BY DEF Init, FreshHole
<1>. QED BY <1>1, <1>2, <1>3, <1>4 DEF NatInv

\* So does the state its death leaves to its successor.
LEMMA DeathInv ==
  ASSUME TypeOK, WorkerDies
  PROVE  NatInv'
<1>1. TypeOK'
  <2>1. redisUp' \in BOOLEAN /\ up' \in BOOLEAN
    BY DEF WorkerDies, TypeOK
  <2>2. /\ chan_sub' \in Seq(Report) /\ chan_udp' \in Seq([auth : User, peer_addr : Addr])
        /\ ts' \in [User -> Session] /\ fresh' \in [User -> Addr \cup {NoAddr}]
        /\ seen' \in [User -> SUBSET {"master", "vice", "malformed"}]
    BY NewSessionKnows DEF WorkerDies
  <2>. QED BY <2>1, <2>2 DEF WorkerDies, TypeOK
<1>2. ReportsTrue'
  BY DEF WorkerDies, ReportsTrue
<1>3. Sessions'
  BY NewSessionKnows DEF WorkerDies, Sessions, Untouched
<1>4. FreshHole'
  BY DEF WorkerDies, FreshHole
<1>. QED BY <1>1, <1>2, <1>3, <1>4 DEF NatInv

-----------------------------------------------------------------------------
(* The channels *)

\* A step that leaves both channels and the sessions alone keeps the invariant.
LEMMA QuietInv ==
  ASSUME NatInv, UNCHANGED <<chan_sub, chan_udp, mvars>>, redisUp' \in BOOLEAN,
         up' \in BOOLEAN,
         sub' \in {"init", "none", "connected", "checked", "half", "subscribed"}
  PROVE  NatInv'
<1>1. TypeOK'
  BY DEF NatInv, TypeOK, mvars
<1>2. ReportsTrue' /\ Sessions' /\ FreshHole'
  BY DEF NatInv, ReportsTrue, Sessions, Untouched, FreshHole, Coming, mvars
<1>. QED BY <1>1, <1>2 DEF NatInv

\* A report enters chan_sub.
LEMMA PublishInv ==
  ASSUME NatInv, NEW r \in Report, TrueReport(r), Publish(r)
  PROVE  NatInv'
<1>1. /\ chan_sub' \in Seq(Report)
      /\ \A i \in DOMAIN chan_sub' : TrueReport(chan_sub'[i])
  BY AppendProperties DEF NatInv, TypeOK, ReportsTrue, Publish
<1>2. TypeOK'
  BY <1>1 DEF NatInv, TypeOK, Publish, rvars, mvars
<1>3. ReportsTrue'
  BY <1>1 DEF ReportsTrue, TrueReport
<1>4. Sessions' /\ FreshHole'
  BY DEF NatInv, Sessions, Untouched, FreshHole, Coming, mvars, Publish
<1>. QED BY <1>2, <1>3, <1>4 DEF NatInv

\* The first report leaves chan_sub; what is left is as true as before.
LEMMA SubTail ==
  ASSUME NatInv, chan_sub # <<>>, chan_sub' = Tail(chan_sub)
  PROVE  /\ Head(chan_sub) \in Report /\ TrueReport(Head(chan_sub))
         /\ chan_sub' \in Seq(Report)
         /\ ReportsTrue'
<1>1. /\ chan_sub \in Seq(Report) /\ Len(chan_sub) > 0 /\ 1 \in DOMAIN chan_sub
      /\ Head(chan_sub) = chan_sub[1]
  BY HeadTailProperties, EmptySeq DEF NatInv, TypeOK
<1>2. /\ chan_sub' \in Seq(Report)
      /\ \A i \in DOMAIN chan_sub' : i + 1 \in DOMAIN chan_sub /\ chan_sub'[i] = chan_sub[i + 1]
  BY <1>1
<1>3. ReportsTrue'
  BY <1>2 DEF NatInv, ReportsTrue, TrueReport
<1>. QED BY <1>1, <1>2, <1>3 DEF NatInv, ReportsTrue

\* on_channel_sub keeps the invariant.
LEMMA ChannelSubInv ==
  ASSUME NatInv, on_channel_sub
  PROVE  NatInv'
<1>. DEFINE r == Head(chan_sub)
            u == r.auth
<1>1. CASE r.auth \notin users /\ chan_sub' = Tail(chan_sub)
           /\ UNCHANGED <<rvars, chan_udp, mvars>>
  <2>1. chan_sub' \in Seq(Report) /\ ReportsTrue'
    BY <1>1, SubTail DEF on_channel_sub
  <2>2. TypeOK'
    BY <1>1, <2>1 DEF NatInv, TypeOK, rvars, mvars
  <2>3. Sessions' /\ FreshHole'
    BY <1>1 DEF NatInv, Sessions, Untouched, FreshHole, Coming, mvars
  <2>. QED BY <2>1, <2>2, <2>3 DEF NatInv
<1>2. CASE /\ r.auth \in users
           /\ chan_sub' = Tail(chan_sub)
           /\ ts' = [ts EXCEPT ![r.auth] = NatStep(@, r)]
           /\ seen' = [seen EXCEPT ![r.auth] = @ \cup Heard(r)]
           /\ UNCHANGED <<rvars, chan_udp, users, fresh>>
  <2>1. r \in Report /\ TrueReport(r) /\ chan_sub' \in Seq(Report) /\ ReportsTrue'
    BY <1>2, SubTail DEF on_channel_sub
  <2>. HIDE DEF r
  <2>2. u \in User /\ u \in users /\ ts[u] \in Session /\ Knows(u, ts[u], seen[u])
    BY <1>2, <2>1 DEF NatInv, TypeOK, Sessions, Report
  <2>. HIDE DEF u
  <2>3. ts'[u] = NatStep(ts[u], r) /\ seen'[u] = seen[u] \cup Heard(r)
    BY <1>2, <2>2 DEF NatInv, TypeOK, u
  <2>4. \A v \in User : v # u => ts'[v] = ts[v] /\ seen'[v] = seen[v]
    BY <1>2 DEF NatInv, TypeOK, u
  <2>5. /\ ts'[u] \in Session /\ ts'[u].udp_hole = ts[u].udp_hole
        /\ Knows(u, ts'[u], seen'[u])
    BY <2>1, <2>2, <2>3, NatStepType, NatStepKnows DEF u
  <2>6. TypeOK'
    <3>1. seen' \in [User -> SUBSET {"master", "vice", "malformed"}]
      <4>1. Heard(r) \subseteq {"master", "vice", "malformed"}
        BY DEF Heard
      <4>. QED BY <1>2, <4>1 DEF NatInv, TypeOK
    <3>2. ts' \in [User -> Session]
      BY <1>2, <2>3, <2>5 DEF NatInv, TypeOK, u
    <3>. QED BY <1>2, <2>1, <3>1, <3>2 DEF NatInv, TypeOK, rvars
  <2>7. Sessions'
    BY <1>2, <2>2, <2>4, <2>5 DEF NatInv, Sessions, Untouched
  <2>8. FreshHole'
    BY <1>2, <2>2, <2>4, <2>5 DEF NatInv, TypeOK, FreshHole, Coming
  <2>. QED BY <2>1, <2>6, <2>7, <2>8 DEF NatInv
<1>3. CASE WorkerDies
  BY <1>3, DeathInv DEF NatInv
<1>. QED BY <1>1, <1>2, <1>3 DEF on_channel_sub

-----------------------------------------------------------------------------
(* Heartbeats *)

\* udp_thread keeps the invariant: a new heartbeat is the last one coming.
LEMMA UdpThreadInv ==
  ASSUME NatInv, NEW u \in Mobile, udp_thread(u)
  PROVE  NatInv'
<1>. PICK a \in Addr :
       /\ chan_udp' = Append(chan_udp, [auth |-> u, peer_addr |-> a])
       /\ fresh' = IF u \in users THEN [fresh EXCEPT ![u] = a] ELSE fresh
       /\ UNCHANGED <<rvars, chan_sub, users, ts, seen>>
  BY DEF udp_thread
<1>. DEFINE n == Len(chan_udp) + 1
            h == [auth |-> u, peer_addr |-> a]
<1>1. u \in User /\ h \in [auth : User, peer_addr : Addr] /\ h.auth = u /\ h.peer_addr = a
  BY NatAssumption
<1>2. /\ chan_udp' \in Seq([auth : User, peer_addr : Addr])
      /\ Len(chan_udp) \in Nat /\ DOMAIN chan_udp = 1 .. Len(chan_udp)
      /\ DOMAIN chan_udp' = 1 .. n
      /\ chan_udp'[n] = h
      /\ \A i \in DOMAIN chan_udp : chan_udp'[i] = chan_udp[i]
  BY <1>1, AppendProperties DEF NatInv, TypeOK
<1>. HIDE DEF h
<1>3. TypeOK'
  BY <1>1, <1>2 DEF NatInv, TypeOK, rvars
<1>4. ReportsTrue'
  BY DEF NatInv, ReportsTrue
<1>5. Sessions'
  BY DEF NatInv, TypeOK, Sessions, Untouched
<1>6. FreshHole'
  <2>. SUFFICES ASSUME NEW v \in users, fresh'[v] # NoAddr
                PROVE  /\ Coming(v)' = {} => ts'[v].udp_hole = fresh'[v]
                       /\ \A i \in Coming(v)' :
                            (\A j \in Coming(v)' : j <= i)
                              => chan_udp'[i].peer_addr = fresh'[v]
    BY DEF FreshHole
  <2>1. CASE v = u
    <3>1. n \in Coming(v)' /\ fresh'[v] = a
      BY <1>1, <1>2, <2>1 DEF NatInv, TypeOK, Coming
    <3>2. \A i \in Coming(v)' : n <= i => i = n
      BY <1>2 DEF Coming
    <3>. QED BY <1>1, <1>2, <3>1, <3>2
  <2>2. CASE v # u
    <3>1. Coming(v)' = Coming(v)
      BY <1>1, <1>2, <2>2 DEF Coming
    <3>2. fresh'[v] = fresh[v] /\ \A i \in Coming(v) : chan_udp'[i] = chan_udp[i]
      BY <1>2, <2>2 DEF Coming, NatInv, TypeOK
    <3>. QED BY <3>1, <3>2 DEF NatInv, FreshHole
  <2>. QED BY <2>1, <2>2
<1>. QED BY <1>3, <1>4, <1>5, <1>6 DEF NatInv

\* on_channel_udp keeps the invariant: what it files is overtaken by what is
\* still coming, or is the newest address there is.
LEMMA ChannelUdpInv ==
  ASSUME NatInv, on_channel_udp
  PROVE  /\ NatInv'
         /\ \A u \in User : ts'[u].nat_type = ts[u].nat_type
<1>. DEFINE h == Head(chan_udp)
<1>1. /\ chan_udp # <<>> /\ chan_udp' = Tail(chan_udp)
      /\ ts' = IF h.auth \in users
               THEN [ts EXCEPT ![h.auth].udp_hole = h.peer_addr] ELSE ts
      /\ UNCHANGED <<rvars, chan_sub, users, seen, fresh>>
  BY DEF on_channel_udp
<1>b. chan_udp \in Seq([auth : User, peer_addr : Addr])
  BY DEF NatInv, TypeOK
<1>2. /\ Len(chan_udp) \in Nat /\ DOMAIN chan_udp = 1 .. Len(chan_udp)
      /\ 1 \in DOMAIN chan_udp /\ h = chan_udp[1]
      /\ h \in [auth : User, peer_addr : Addr]
      /\ chan_udp' \in Seq([auth : User, peer_addr : Addr])
      /\ DOMAIN chan_udp' = 1 .. (Len(chan_udp) - 1)
      /\ \A i \in DOMAIN chan_udp' : chan_udp'[i] = chan_udp[i + 1]
  <2>1. h \in [auth : User, peer_addr : Addr] /\ Len(chan_udp) > 0
    <3>. DEFINE Beat == [auth : User, peer_addr : Addr]
    <3>1. chan_udp \in Seq(Beat)
      BY <1>b
    <3>. HIDE DEF Beat
    <3>2. Head(chan_udp) \in Beat /\ Len(chan_udp) > 0
      BY <1>1, <3>1
    <3>. QED BY <3>2 DEF Beat
  <2>2. h = chan_udp[1]
    OBVIOUS
  <2>3. chan_udp' \in Seq([auth : User, peer_addr : Addr]) /\ Len(chan_udp') = Len(chan_udp) - 1
    BY <1>1, <1>b, HeadTailProperties
  <2>. HIDE DEF h
  <2>. QED BY <1>1, <1>b, <2>1, <2>2, <2>3
<1>. HIDE DEF h
<1>3. \A u \in User : ts[u] \in Session
  BY DEF NatInv, TypeOK
<1>4. \A u \in User :
        ts'[u] = IF u = h.auth /\ u \in users
                 THEN [ts[u] EXCEPT !.udp_hole = h.peer_addr] ELSE ts[u]
  BY <1>1, <1>2 DEF NatInv, TypeOK
<1>5. \A u \in User :
        /\ ts'[u] \in Session
        /\ ts'[u].nat_type = ts[u].nat_type
        /\ ts'[u].fsm_stat = ts[u].fsm_stat
        /\ ts'[u].port_restricted = ts[u].port_restricted
        /\ ts'[u].pre_udp_port = ts[u].pre_udp_port
  <2>. TAKE u \in User
  <2>1. CASE u = h.auth /\ u \in users
    <3>1. h.peer_addr \in Addr /\ ts[u] \in Session
          /\ ts'[u] = [ts[u] EXCEPT !.udp_hole = h.peer_addr]
      BY <1>2, <1>3, <1>4, <2>1
    <3>. QED BY <3>1 DEF Session
  <2>2. CASE ~(u = h.auth /\ u \in users)
    BY <1>3, <1>4, <2>2
  <2>. QED BY <2>1, <2>2
<1>6. TypeOK'
  <2>1. ts' \in [User -> Session]
    BY <1>1, <1>5 DEF NatInv, TypeOK
  <2>. QED BY <1>1, <1>2, <2>1 DEF NatInv, TypeOK, rvars
<1>7. ReportsTrue'
  BY <1>1 DEF NatInv, ReportsTrue
<1>8. Sessions'
  BY <1>1, <1>4, <1>5 DEF NatInv, Sessions, Untouched, Knows
<1>9. FreshHole'
  <2>. SUFFICES ASSUME NEW u \in users, fresh[u] # NoAddr
                PROVE  /\ Coming(u)' = {} => ts'[u].udp_hole = fresh[u]
                       /\ \A i \in Coming(u)' :
                            (\A j \in Coming(u)' : j <= i)
                              => chan_udp'[i].peer_addr = fresh[u]
    BY <1>1 DEF FreshHole
  <2>1. u \in User
    BY DEF NatInv, TypeOK
  <2>2. /\ \A i \in Coming(u)' : i \in Nat /\ i + 1 \in Coming(u)
        /\ \A j \in Coming(u) : j \in Nat /\ (j = 1 \/ j - 1 \in Coming(u)')
        /\ 1 \in Coming(u) <=> h.auth = u
    BY <1>2 DEF Coming
  <2>3. ASSUME Coming(u)' = {}
        PROVE  ts'[u].udp_hole = fresh[u]
    <3>1. CASE h.auth = u
      <4>1. \A j \in Coming(u) : j <= 1
        BY <2>2, <2>3
      <4>2. h.peer_addr = fresh[u]
        BY <1>2, <2>2, <3>1, <4>1 DEF NatInv, FreshHole
      <4>. QED BY <1>3, <1>4, <2>1, <3>1, <4>2 DEF Session
    <3>2. CASE h.auth # u
      <4>1. Coming(u) = {}
        BY <2>2, <2>3, <3>2
      <4>. QED BY <1>4, <2>1, <3>2, <4>1 DEF NatInv, FreshHole
    <3>. QED BY <3>1, <3>2
  <2>4. ASSUME NEW i \in Coming(u)', \A j \in Coming(u)' : j <= i
        PROVE  chan_udp'[i].peer_addr = fresh[u]
    <3>1. i + 1 \in Coming(u) /\ \A j \in Coming(u) : j <= i + 1
      BY <2>2, <2>4
    <3>2. chan_udp'[i] = chan_udp[i + 1]
      BY <1>2 DEF Coming
    <3>. QED BY <3>1, <3>2 DEF NatInv, FreshHole
  <2>. QED BY <2>3, <2>4
<1>. QED BY <1>5, <1>6, <1>7, <1>8, <1>9 DEF NatInv

-----------------------------------------------------------------------------
(* Sessions and the subscribe thread *)

\* A login finds a new session, a logout leaves one.
LEMMA LoginInv ==
  ASSUME NatInv, NEW u \in User, Login(u) \/ Logout(u)
  PROVE  NatInv'
<1>1. CASE Login(u)
  <2>1. TypeOK'
    BY <1>1 DEF NatInv, TypeOK, Login, rvars
  <2>2. ReportsTrue'
    BY <1>1 DEF NatInv, ReportsTrue, Login
  <2>3. Sessions'
    BY <1>1 DEF NatInv, Sessions, Untouched, Login
  <2>4. FreshHole'
    BY <1>1 DEF NatInv, Sessions, Untouched, FreshHole, Coming, Login
  <2>. QED BY <2>1, <2>2, <2>3, <2>4 DEF NatInv
<1>2. CASE Logout(u)
  <2>1. TypeOK'
    BY <1>2, NewSessionKnows DEF NatInv, TypeOK, Logout, rvars
  <2>2. ReportsTrue'
    BY <1>2 DEF NatInv, ReportsTrue, Logout
  <2>3. Sessions'
    BY <1>2, NewSessionKnows DEF NatInv, TypeOK, Sessions, Untouched, Logout
  <2>4. FreshHole'
    BY <1>2 DEF NatInv, TypeOK, FreshHole, Coming, Logout
  <2>. QED BY <2>1, <2>2, <2>3, <2>4 DEF NatInv
<1>. QED BY <1>1, <1>2

\* redis and the subscribe thread touch no session, or the worker dies.
LEMMA SubscriberInv ==
  ASSUME NatInv, RedisDown \/ RedisBack \/ SubscribeThread
  PROVE  /\ NatInv'
         /\ UNCHANGED mvars \/ users' = {}
<1>. DEFINE Sub == {"init", "none", "connected", "checked", "half", "subscribed"}
<1>1. CASE SubscribeSecond /\ WorkerDies
  BY <1>1, DeathInv DEF NatInv, WorkerDies
<1>2. ASSUME NEW from, NEW to \in Sub, Thread(from, to), up' \in BOOLEAN
      PROVE  NatInv' /\ UNCHANGED mvars
  <2>1. redisUp' \in BOOLEAN /\ sub' \in Sub
    BY <1>2 DEF Thread, NatInv, TypeOK
  <2>2. UNCHANGED <<chan_sub, chan_udp, mvars>>
    BY <1>2 DEF Thread
  <2>. QED BY <1>2, <2>1, <2>2, QuietInv
<1>3. CASE RedisDown \/ RedisBack
  BY <1>3, QuietInv DEF RedisDown, RedisBack, NatInv, TypeOK
<1>4. up \in BOOLEAN
  BY DEF NatInv, TypeOK
<1>5. CASE StartWorker
  BY <1>2, <1>5 DEF StartWorker
<1>6. CASE GetConnection
  BY <1>2, <1>6 DEF GetConnection
<1>7. CASE CheckConnection
  BY <1>2, <1>4, <1>7 DEF CheckConnection
<1>8. CASE SubscribeFirst
  BY <1>2, <1>4, <1>8 DEF SubscribeFirst
<1>9. CASE SubscribeSecond
  BY <1>1, <1>2, <1>4, <1>9 DEF SubscribeSecond
<1>10. CASE ConnectionLost
  BY <1>2, <1>4, <1>10 DEF ConnectionLost
<1>. QED BY <1>3, <1>5, <1>6, <1>7, <1>8, <1>9, <1>10 DEF SubscribeThread

\* The reports the retinues publish are true ones.
LEMMA RetinueInv ==
  ASSUME NatInv, NEW u \in User, handle_title_master(u) \/ handle_title_vice(u)
  PROVE  NatInv' /\ UNCHANGED mvars
<1>1. CASE handle_title_master(u)
  <2>. PICK p \in {MasterPort[u], 0} :
         Publish([auth |-> u, master |-> TRUE, port |-> p, restricted |-> Restricted[u]])
    BY <1>1 DEF handle_title_master
  <2>. DEFINE r == [auth |-> u, master |-> TRUE, port |-> p, restricted |-> Restricted[u]]
  <2>1. r \in Report /\ TrueReport(r)
    BY PortsOf, NatAssumption DEF Report, TrueReport
  <2>. QED BY <2>1, PublishInv DEF Publish
<1>2. CASE handle_title_vice(u)
  <2>. PICK p \in {VicePort[u], 0} :
         Publish([auth |-> u, master |-> FALSE, port |-> p, restricted |-> FALSE])
    BY <1>2 DEF handle_title_vice
  <2>. DEFINE r == [auth |-> u, master |-> FALSE, port |-> p, restricted |-> FALSE]
  <2>1. r \in Report /\ TrueReport(r)
    BY PortsOf DEF Report, TrueReport
  <2>. QED BY <2>1, PublishInv DEF Publish
<1>. QED BY <1>1, <1>2

-----------------------------------------------------------------------------
(* The theorems *)

\* Every step keeps the invariant.
LEMMA NextInv ==
  ASSUME NatInv, [Next]_vars
  PROVE  NatInv'
<1>1. CASE RedisDown \/ RedisBack \/ SubscribeThread
  BY <1>1, SubscriberInv
<1>2. CASE on_channel_sub
  BY <1>2, ChannelSubInv
<1>3. CASE on_channel_udp
  BY <1>3, ChannelUdpInv
<1>4. ASSUME NEW u \in User, Login(u) \/ Logout(u)
      PROVE  NatInv'
  BY <1>4, LoginInv
<1>5. ASSUME NEW u \in User, handle_title_master(u) \/ handle_title_vice(u)
      PROVE  NatInv'
  BY <1>5, RetinueInv
<1>6. ASSUME NEW u \in Mobile, udp_thread(u)
      PROVE  NatInv'
  BY <1>6, UdpThreadInv
<1>7. CASE UNCHANGED vars
  BY <1>7, QuietInv DEF vars, rvars, NatInv, TypeOK
<1>. QED BY <1>1, <1>2, <1>3, <1>4, <1>5, <1>6, <1>7 DEF Next

\* The invariant holds in every reachable state.
THEOREM NatInvariant == Spec => []NatInv
<1>. QED BY InitInv, NextInv, PTL DEF Spec

\* SymmetricSound: whatever is lost, repeated or overtaken, a user is filed as
\* symmetric exactly when the retinues really see two ports (on_channel_sub).
THEOREM Symmetric == Spec => []SymmetricSound
<1>1. NatInv => SymmetricSound
  BY DEF NatInv, TypeOK, Sessions, Knows, SymmetricSound
<1>. QED BY <1>1, NatInvariant, PTL

\* HeardIsKnown: once both retinues were heard the NAT type is known, and every
\* variable keeps its type.
THEOREM Known == Spec => []HeardIsKnown
<1>1. NatInv => HeardIsKnown
  <2>. SUFFICES ASSUME NatInv, NEW u \in users, {"master", "vice"} \subseteq seen[u]
                PROVE  ts[u].nat_type # "UNKNOWN"
    BY DEF NatInv, HeardIsKnown
  <2>1. Knows(u, ts[u], seen[u])
    BY DEF NatInv, TypeOK, Sessions
  <2>. QED BY <2>1 DEF Knows
<1>. QED BY <1>1, NatInvariant, PTL

\* FreshHole: the address of the newest heartbeat is in the session or is the
\* last one on its way to it (udp_thread, on_channel_udp).
THEOREM Fresh == Spec => []FreshHole
<1>1. NatInv => FreshHole
  BY DEF NatInv
<1>. QED BY <1>1, NatInvariant, PTL

\* RestrictionKept: a port restricted cone is really restricted and stays one, in
\* whatever order the reports of later pairs come in.
THEOREM Restriction == Spec => RestrictionKept
<1>1. ASSUME NatInv, [Next]_vars, NEW u \in users \cap users',
             ts[u].nat_type = "PORT_RESTRICTED_CONE", "malformed" \notin seen'[u]
      PROVE  Restricted[u] /\ ts'[u].nat_type = "PORT_RESTRICTED_CONE"
  <2>1. u \in User /\ Knows(u, ts[u], seen[u]) /\ ts[u] \in Session
    BY <1>1 DEF NatInv, TypeOK, Sessions
  <2>2. ASSUME ts'[u] = ts[u], seen'[u] = seen[u]
        PROVE  Restricted[u] /\ ts'[u].nat_type = "PORT_RESTRICTED_CONE"
    BY <1>1, <2>1, <2>2 DEF Knows
  <2>3. CASE RedisDown \/ RedisBack \/ SubscribeThread
    BY <1>1, <2>2, <2>3, SubscriberInv DEF mvars
  <2>4. CASE on_channel_sub
    <3>. DEFINE r == Head(chan_sub)
    <3>1. CASE UNCHANGED mvars
      BY <2>2, <3>1 DEF mvars
    <3>2. CASE /\ chan_sub' = Tail(chan_sub)
               /\ ts' = [ts EXCEPT ![r.auth] = NatStep(@, r)]
               /\ seen' = [seen EXCEPT ![r.auth] = @ \cup Heard(r)]
      <4>1. r \in Report /\ TrueReport(r)
        BY <1>1, <2>4, <3>2, SubTail DEF on_channel_sub
      <4>. HIDE DEF r
      <4>2. CASE u = r.auth
        <5>1. ts'[u] = NatStep(ts[u], r) /\ seen'[u] = seen[u] \cup Heard(r)
          BY <1>1, <2>1, <3>2, <4>2 DEF NatInv, TypeOK
        <5>2. "malformed" \notin seen[u]
          BY <1>1, <5>1
        <5>3. Restricted[u]
          BY <1>1, <2>1, <5>2 DEF Knows
        <5>. QED BY <1>1, <2>1, <4>1, <4>2, <5>1, <5>3, NatStepKnows
      <4>3. CASE u # r.auth
        <5>1. ts'[u] = ts[u] /\ seen'[u] = seen[u]
          BY <1>1, <2>1, <3>2, <4>3 DEF NatInv, TypeOK
        <5>. QED BY <2>2, <5>1
      <4>. QED BY <4>2, <4>3
    <3>3. CASE WorkerDies
      BY <3>3 DEF WorkerDies
    <3>. QED BY <2>4, <3>1, <3>2, <3>3 DEF on_channel_sub
  <2>5. CASE on_channel_udp
    <3>1. ts'[u].nat_type = ts[u].nat_type /\ seen' = seen
      BY <1>1, <2>1, <2>5, ChannelUdpInv DEF on_channel_udp
    <3>. QED BY <1>1, <2>1, <3>1 DEF Knows
  <2>6. ASSUME NEW v \in User, Login(v) \/ Logout(v)
        PROVE  ts'[u] = ts[u] /\ seen'[u] = seen[u]
    BY <1>1, <2>1, <2>6 DEF Login, Logout, NatInv, TypeOK
  <2>7. ASSUME NEW v \in User, handle_title_master(v) \/ handle_title_vice(v)
        PROVE  ts'[u] = ts[u] /\ seen'[u] = seen[u]
    BY <1>1, <2>7, RetinueInv DEF mvars
  <2>8. ASSUME NEW v \in Mobile, udp_thread(v)
        PROVE  ts'[u] = ts[u] /\ seen'[u] = seen[u]
    BY <2>8 DEF udp_thread
  <2>9. CASE UNCHANGED vars
    BY <2>2, <2>9 DEF vars, mvars
  <2>. QED BY <1>1, <2>2, <2>3, <2>4, <2>5, <2>6, <2>7, <2>8, <2>9 DEF Next
<1>2. NatInv /\ [Next]_vars =>
        [\A u \in users \cap users' :
           ts[u].nat_type = "PORT_RESTRICTED_CONE" /\ "malformed" \notin seen'[u] =>
             Restricted[u] /\ ts'[u].nat_type = "PORT_RESTRICTED_CONE"]_vars
  BY <1>1
<1>. QED BY <1>2, NatInvariant, PTL DEF Spec, RestrictionKept
=============================================================================
