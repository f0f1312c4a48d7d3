------------------------------ MODULE P2PSession ------------------------------
(***************************************************************************)
(* The login sessions of the p2p_fsm application inside one worker.        *)
(*                                                                         *)
(* A worker is one thread.  It runs passes: process_post_list serves the   *)
(* sockets epoll reported (phase "post"), then the timer heap is drained   *)
(* (phase "timer"), then epoll is asked again.  A connection that has to   *)
(* go (kicked, logged out, malformed request) is never closed by the       *)
(* handler: its timer is reset to the past ("doomed") and the timer phase  *)
(* of the same pass closes it.  Between the two, other connections are     *)
(* served.                                                                 *)
(*                                                                         *)
(* A session (tcp_session_t, element of TS) outlives its connection.  The  *)
(* two point at each other: conn[ts] and app_ctx[s].                       *)
(***************************************************************************)
EXTENDS Naturals, Sequences

CONSTANTS
  Socket,     \* the lts_socket_t objects of the socket cache
  TS,         \* the tcp_session_t objects (TS_SIZE of them)
  Auth,       \* auth strings clients send
  Key,        \* values of the hash
  time33,     \* the hash: auth string -> map key
  SBufCap,    \* encoded messages a send buffer holds
  OneAuth,    \* TRUE: no connection logs in under two different keys
  KeepAlive,  \* lts_main_conf.keepalive > 0
  NULL,
  Out         \* "not logged in" of the abstract specification

ASSUME SessionAssumption ==
  /\ time33 \in [Auth -> Key]
  /\ SBufCap \in Nat \ {0}
  /\ OneAuth \in BOOLEAN
  /\ KeepAlive \in BOOLEAN
  /\ NULL \notin Socket \cup TS \cup Key
  /\ Out \notin Socket \cup {NULL}

VARIABLES
  alive,        \* the worker process runs
  phase,        \* "post" or "timer"
  served,       \* sockets with no request left to serve in this pass
  open,         \* sockets with conn # NULL
  doomed,       \* sockets in the timer heap with a key in the past
  armed,        \* sockets with EPOLLOUT in ev_mask
  writable,     \* sockets with the writable flag
  sbuf,         \* unsent messages of each socket
  app_ctx,      \* s->app_ctx
  conn,         \* ts->conn
  key,          \* ts->map_node.key
  s_ts_set,     \* the map of sessions, by key
  s_ts_uselst,  \* sessions in use; the others are in s_ts_cachelst
  authed        \* history: keys each open connection has logged in under

sockVars == <<open, doomed, armed, writable, sbuf, app_ctx>>
tsVars   == <<conn, key, s_ts_set, s_ts_uselst>>
vars     == <<alive, phase, served, sockVars, tsVars, authed>>

-----------------------------------------------------------------------------
(* Messages in a send buffer: replies, of success or of an error, and       *)
(* pushes of talkto, by the key of the addressee.                           *)

Errno == {"SUCCESS", "NOT_EXIST", "NOT_SUPPORT", "ARG_MISS",
          "INVALID_ARG", "SERVER_FAILED"}
Rsp(e)  == [type |-> "rsp", ok |-> e = "SUCCESS"]
Push(k) == [type |-> "push", to |-> k]
Msg == [type : {"rsp"}, ok : BOOLEAN] \cup [type : {"push"}, to : Key]

s_ts_cachelst == TS \ s_ts_uselst

\* lts_proto_sjsonb_encode: a message that does not fit is dropped, and no
\* caller looks at the result.
Encode(buf, m) == IF Len(buf) < SBufCap THEN Append(buf, m) ELSE buf

find_ts_by_auth(a) == s_ts_set[time33[a]]

Init ==
  /\ alive = TRUE
  /\ phase = "post"
  /\ served = {}
  /\ open = {} /\ doomed = {} /\ armed = {} /\ writable = {}
  /\ sbuf = [s \in Socket |-> <<>>]
  /\ app_ctx = [s \in Socket |-> NULL]
  /\ conn = [ts \in TS |-> NULL]
  /\ key = [ts \in TS |-> NULL]
  /\ s_ts_set = [k \in Key |-> NULL]
  /\ s_ts_uselst = {}
  /\ authed = [s \in Socket |-> {}]

-----------------------------------------------------------------------------
(* Connections                                                              *)

\* The process dies on a signal and its memory is gone.
Crash ==
  /\ alive' = FALSE
  /\ phase' = "post"
  /\ served' = {}
  /\ open' = {} /\ doomed' = {} /\ armed' = {} /\ writable' = {}
  /\ sbuf' = [s \in Socket |-> <<>>]
  /\ app_ctx' = [s \in Socket |-> NULL]
  /\ conn' = [ts \in TS |-> NULL]
  /\ key' = [ts \in TS |-> NULL]
  /\ s_ts_set' = [k \in Key |-> NULL]
  /\ s_ts_uselst' = {}
  /\ authed' = [s \in Socket |-> {}]

\* lts_accept on the listening socket: a cached socket becomes a connection.
\* It is put on the watch list and not visited in this pass.  (Only without
\* keepalive can a socket be in the cache and in the timer heap; what reusing
\* such a socket does to the heap is not modelled.)
Accept(s) ==
  /\ alive /\ phase = "post"
  /\ s \notin open /\ s \notin doomed
  /\ open' = open \cup {s}
  /\ served' = served \cup {s}
  /\ armed' = armed \ {s}
  /\ writable' = writable \ {s}
  /\ sbuf' = [sbuf EXCEPT ![s] = <<>>]
  /\ app_ctx' = [app_ctx EXCEPT ![s] = NULL]
  /\ authed' = [authed EXCEPT ![s] = {}]
  /\ UNCHANGED <<alive, phase, doomed, tsVars>>

\* Mutant: the session keeps pointing at the socket.
OnClosingKeepsConn(s) ==
  /\ app_ctx' = [app_ctx EXCEPT ![s] = NULL]
  /\ UNCHANGED conn

\* Mutant: without the test that the session still belongs to this connection.
OnClosingAlways(s) ==
  IF app_ctx[s] # NULL
  THEN /\ conn' = [conn EXCEPT ![app_ctx[s]] = NULL]
       /\ app_ctx' = [app_ctx EXCEPT ![s] = NULL]
  ELSE UNCHANGED <<conn, app_ctx>>

\* p2p_fsm_on_closing: the session is detached only from its own connection.
OnClosing(s) ==
  IF app_ctx[s] # NULL /\ conn[app_ctx[s]] = s
  THEN /\ conn' = [conn EXCEPT ![app_ctx[s]] = NULL]
       /\ app_ctx' = [app_ctx EXCEPT ![s] = NULL]
  ELSE UNCHANGED <<conn, app_ctx>>

\* lts_close_conn, except for its timer.  The flags stay as they are.
CloseConn(s) ==
  /\ OnClosing(s)
  /\ open' = open \ {s}
  /\ armed' = armed \ {s}
  /\ sbuf' = [sbuf EXCEPT ![s] = <<>>]
  /\ UNCHANGED <<alive, phase, served, writable, key, s_ts_set, s_ts_uselst,
                 authed>>

\* lts_recv meets end of file or an error and closes.  process_post_list goes
\* on to the write half of the visit: with the flag still set, lts_send
\* follows the connection pointer that was just cleared.
RecvClose(s) ==
  /\ alive /\ phase = "post"
  /\ s \in open /\ s \notin served
  /\ \/ /\ s \notin writable
        /\ CloseConn(s)
        /\ doomed' = IF KeepAlive THEN doomed \ {s} ELSE doomed
     \/ /\ s \in writable
        /\ Crash

\* lts_send with n messages accepted by the kernel (0: EAGAIN).  A socket that
\* lts_soft_event moves to the end of the post list is visited again, so a
\* write may come before the request of the same pass is read.
Send(s) ==
  /\ alive /\ phase = "post"
  /\ s \in open /\ s \in writable
  /\ \E n \in 0 .. Len(sbuf[s]) :
       /\ sbuf' = [sbuf EXCEPT ![s] = SubSeq(@, n + 1, Len(@))]
       /\ IF n = Len(sbuf[s])
          THEN /\ writable' = writable \ {s}
               /\ armed' = IF n = 0 THEN armed ELSE armed \ {s}
          ELSE UNCHANGED <<writable, armed>>
  /\ UNCHANGED <<alive, phase, served, open, doomed, app_ctx, tsVars, authed>>

\* lts_send fails: the connection is reset.
SendClose(s) ==
  /\ alive /\ phase = "post"
  /\ s \in open /\ s \in writable
  /\ sbuf[s] # <<>>
  /\ CloseConn(s)
  /\ doomed' = IF KeepAlive THEN doomed \ {s} ELSE doomed

-----------------------------------------------------------------------------
(* p2p_fsm_service: one request of connection s.                            *)

Serving(s) ==
  /\ alive /\ phase = "post"
  /\ s \in open /\ s \notin served
  /\ served' = served \cup {s}
  /\ UNCHANGED <<alive, phase, open>>

\* Mutant: EPOLLOUT is not armed for the reply.
ReplyUnarmed(s, bufs, e) ==
  /\ sbuf' = [bufs EXCEPT ![s] = Encode(@, Rsp(e))]
  /\ UNCHANGED armed

\* The reply, and the EPOLLOUT lts_recv arms for it when service returns.
Reply(s, bufs, e) ==
  /\ sbuf' = [bufs EXCEPT ![s] = Encode(@, Rsp(e))]
  /\ armed' = armed \cup {s}

\* A request that only earns a reply.
Answer(s, e) ==
  /\ Serving(s)
  /\ Reply(s, sbuf, e)
  /\ UNCHANGED <<doomed, writable, app_ctx, tsVars, authed>>

Heartbeat(s) == Answer(s, "SUCCESS")

Unsupported(s) == Answer(s, "NOT_SUPPORT")

\* An argument is missing.  lts_sjson_get_obj_node then returns the address of
\* its own dead local: node_type is whatever the stack holds.
ArgMissing(s) ==
  \/ Answer(s, "ARG_MISS")
  \/ /\ alive /\ phase = "post" /\ s \in open \ served
     /\ Crash

\* Nothing decodable in the receive buffer: the connection is doomed.
Illegal(s) ==
  /\ Serving(s)
  /\ doomed' = doomed \cup {s}
  /\ armed' = IF sbuf[s] # <<>> THEN armed \cup {s} ELSE armed
  /\ UNCHANGED <<writable, sbuf, app_ctx, tsVars, authed>>

\* The interface is not a string: the request's pool is destroyed here and
\* again at the end of the handler, where the allocator aborts.
BadInterface(s) ==
  /\ alive /\ phase = "post" /\ s \in open \ served
  /\ Crash

\* ts_change_skt
Attach(ts, s) ==
  /\ conn' = [conn EXCEPT ![ts] = s]
  /\ app_ctx' = [app_ctx EXCEPT ![s] = ts]

MayLogin(s, k) == OneAuth => authed[s] \subseteq {k}

\* login under a key that has a session: attach to it, and doom the connection
\* that holds it, if that is another one.
LoginKnown(s, a) ==
  LET ts == find_ts_by_auth(a) IN
  /\ Serving(s)
  /\ MayLogin(s, time33[a])
  /\ ts # NULL
  /\ doomed' = doomed \cup ({conn[ts]} \ {NULL, s})
  /\ IF conn[ts] = s THEN UNCHANGED <<conn, app_ctx>> ELSE Attach(ts, s)
  /\ Reply(s, sbuf, "SUCCESS")
  /\ authed' = [authed EXCEPT ![s] = @ \cup {time33[a]}]
  /\ UNCHANGED <<writable, key, s_ts_set, s_ts_uselst>>

\* login under a new key: alloc_ts_instance, then add to the map.  Any cached
\* instance: __tcp_session_init overwrites all of it, so their order in the
\* cache list cannot be observed.
LoginNew(s, a) ==
  /\ Serving(s)
  /\ MayLogin(s, time33[a])
  /\ find_ts_by_auth(a) = NULL
  /\ \E ts \in s_ts_cachelst :
       /\ Attach(ts, s)
       /\ key' = [key EXCEPT ![ts] = time33[a]]
       /\ s_ts_set' = [s_ts_set EXCEPT ![time33[a]] = ts]
       /\ s_ts_uselst' = s_ts_uselst \cup {ts}
  /\ Reply(s, sbuf, "SUCCESS")
  /\ authed' = [authed EXCEPT ![s] = @ \cup {time33[a]}]
  /\ UNCHANGED <<doomed, writable>>

\* login with no session instance left
LoginFull(s, a) ==
  /\ find_ts_by_auth(a) = NULL
  /\ s_ts_cachelst = {}
  /\ Answer(s, "SERVER_FAILED")

\* The login check talkto and getlinkinfo share.
LinkCheck(s, a, b) ==
  LET ts == find_ts_by_auth(a)
      peer == find_ts_by_auth(b)
  IN IF ts = NULL \/ peer = NULL THEN "NOT_EXIST"
     ELSE IF conn[peer] = NULL THEN "NOT_EXIST"
     ELSE IF s # conn[ts] THEN "INVALID_ARG" ELSE "SUCCESS"

TalkToRefused(s, a, b) ==
  /\ LinkCheck(s, a, b) # "SUCCESS"
  /\ Answer(s, LinkCheck(s, a, b))

\* Mutant: no soft event for the peer.
TalkToQuiet(s, a, b) ==
  LET peer == conn[find_ts_by_auth(b)] IN
  /\ LinkCheck(s, a, b) = "SUCCESS"
  /\ Serving(s)
  /\ Reply(s, [sbuf EXCEPT ![peer] = Encode(@, Push(time33[b]))], "SUCCESS")
  /\ UNCHANGED <<writable, doomed, app_ctx, tsVars, authed>>

\* talkto: the message is put into the peer's send buffer, lts_soft_event makes
\* the peer writable, and the sender is told of success.
TalkTo(s, a, b) ==
  LET peer == conn[find_ts_by_auth(b)] IN
  /\ LinkCheck(s, a, b) = "SUCCESS"
  /\ \/ /\ peer \in open
        /\ Serving(s)
        /\ Reply(s, [sbuf EXCEPT ![peer] = Encode(@, Push(time33[b]))],
                 "SUCCESS")
        /\ writable' = writable \cup {peer}
        /\ UNCHANGED <<doomed, app_ctx, tsVars, authed>>
     \/ /\ peer \notin open        \* peer_ts->conn->conn is NULL
        /\ alive /\ phase = "post" /\ s \in open \ served
        /\ Crash

GetLinkInfo(s, a, b) ==
  Answer(s, IF a = b THEN "INVALID_ARG" ELSE LinkCheck(s, a, b))

LogoutRefused(s, a) ==
  LET ts == find_ts_by_auth(a) IN
  \/ ts = NULL /\ Answer(s, "NOT_EXIST")
  \/ ts # NULL /\ conn[ts] # s /\ Answer(s, "INVALID_ARG")

\* Mutant: the session stays in the map.
LogoutKeepsNode(s, a) ==
  LET ts == find_ts_by_auth(a) IN
  /\ Serving(s)
  /\ ts # NULL
  /\ conn[ts] = s
  /\ doomed' = doomed \cup {s}
  /\ s_ts_uselst' = s_ts_uselst \ {ts}
  /\ Reply(s, sbuf, "SUCCESS")
  /\ UNCHANGED <<writable, app_ctx, conn, key, s_ts_set, authed>>

\* Mutant: anyone may end a session.
LogoutAnyone(s, a) ==
  LET ts == find_ts_by_auth(a) IN
  /\ Serving(s)
  /\ ts # NULL
  /\ doomed' = doomed \cup ({conn[ts]} \ {NULL})
  /\ s_ts_set' = [s_ts_set EXCEPT ![key[ts]] = NULL]
  /\ s_ts_uselst' = s_ts_uselst \ {ts}
  /\ Reply(s, sbuf, "SUCCESS")
  /\ UNCHANGED <<writable, app_ctx, conn, key, authed>>

\* logout: the connection is doomed, the session leaves the map and goes back
\* to the cache.  conn and app_ctx keep pointing at each other.
Logout(s, a) ==
  LET ts == find_ts_by_auth(a) IN
  /\ Serving(s)
  /\ ts # NULL
  /\ conn[ts] = s
  /\ doomed' = doomed \cup {s}
  /\ s_ts_set' = [s_ts_set EXCEPT ![key[ts]] = NULL]
  /\ s_ts_uselst' = s_ts_uselst \ {ts}
  /\ Reply(s, sbuf, "SUCCESS")
  /\ UNCHANGED <<writable, app_ctx, conn, key, authed>>

-----------------------------------------------------------------------------
(* The pass                                                                 *)

PostDone ==
  /\ alive /\ phase = "post"
  /\ phase' = "timer"
  /\ UNCHANGED <<alive, served, sockVars, tsVars, authed>>

\* The timer loop reaches a doomed socket: lts_timeout closes it.
Timeout(s) ==
  /\ alive /\ phase = "timer"
  /\ s \in doomed
  /\ \/ /\ s \in open
        /\ CloseConn(s)
        /\ doomed' = doomed \ {s}
     \/ /\ s \notin open
        /\ Crash

\* The keepalive of a connection has run out.
Expire(s) ==
  /\ alive /\ phase = "timer" /\ KeepAlive
  /\ s \in open \ doomed
  /\ CloseConn(s)
  /\ UNCHANGED doomed

\* Mutant: the pass ends with expired timers left.
NextPassEarly ==
  /\ alive /\ phase = "timer"
  /\ \E W \in SUBSET armed : writable' = writable \cup W
  /\ phase' = "post"
  /\ served' = {}
  /\ UNCHANGED <<alive, open, doomed, armed, sbuf, app_ctx, tsVars, authed>>

\* No expired timer is left; epoll reports some of the armed sockets.
NextPass ==
  /\ alive /\ phase = "timer"
  /\ doomed = {}
  /\ \E W \in SUBSET armed : writable' = writable \cup W
  /\ phase' = "post"
  /\ served' = {}
  /\ UNCHANGED <<alive, open, doomed, armed, sbuf, app_ctx, tsVars, authed>>

\* The master forks a new worker in place of a dead one.
Restart ==
  /\ ~alive /\ alive' = TRUE
  /\ UNCHANGED <<phase, served, sockVars, tsVars, authed>>

Request(s) ==
  \/ Heartbeat(s) \/ Unsupported(s) \/ ArgMissing(s)
  \/ Illegal(s) \/ BadInterface(s)
  \/ \E a \in Auth :
       \/ LoginKnown(s, a) \/ LoginNew(s, a) \/ LoginFull(s, a)
       \/ LogoutRefused(s, a) \/ Logout(s, a)
       \/ \E b \in Auth :
            TalkToRefused(s, a, b) \/ TalkTo(s, a, b) \/ GetLinkInfo(s, a, b)

Next ==
  \/ \E s \in Socket :
       \/ Accept(s) \/ Request(s) \/ RecvClose(s)
       \/ Send(s) \/ SendClose(s) \/ Timeout(s) \/ Expire(s)
  \/ PostDone \/ NextPass \/ Restart

Spec == Init /\ [][Next]_vars

\* The worker never stops running passes while it lives, an expired timer is
\* always taken, epoll reports a socket that stays armed, and the client reads
\* what it is sent.
FairSpec ==
  /\ Spec
  /\ WF_vars(PostDone) /\ WF_vars(NextPass)
  /\ \A s \in Socket :
       /\ WF_vars(Timeout(s))
       /\ SF_vars(NextPass /\ s \in writable')
       /\ SF_vars(Send(s) /\ sbuf'[s] = <<>>)
-----------------------------------------------------------------------------
(* Properties                                                               *)

TypeOK ==
  /\ alive \in BOOLEAN
  /\ phase \in {"post", "timer"}
  /\ served \subseteq Socket
  /\ open \subseteq Socket
  /\ doomed \subseteq Socket
  /\ armed \subseteq Socket
  /\ writable \subseteq Socket
  /\ sbuf \in [Socket -> Seq(Msg)]
  /\ app_ctx \in [Socket -> TS \cup {NULL}]
  /\ conn \in [TS -> Socket \cup {NULL}]
  /\ key \in [TS -> Key \cup {NULL}]
  /\ s_ts_set \in [Key -> TS \cup {NULL}]
  /\ s_ts_uselst \subseteq TS
  /\ authed \in [Socket -> SUBSET Key]

\* The map and the use list hold the same sessions, each under its own key:
\* login, logout and the allocation keep the two structures in step.
SessionTable ==
  /\ \A k \in Key : s_ts_set[k] # NULL =>
       s_ts_set[k] \in s_ts_uselst /\ key[s_ts_set[k]] = k
  /\ \A ts \in s_ts_uselst : key[ts] \in Key /\ s_ts_set[key[ts]] = ts

\* No session, in use or freed, points at a socket that has been closed: the
\* handlers follow ts->conn->conn without a test.
NoDanglingConn == \A ts \in TS : conn[ts] # NULL => conn[ts] \in open

\* Session and connection point at each other; a connection whose session has
\* moved on (kick, or reuse of a freed session) is on its way out.
BackPointer ==
  /\ \A ts \in TS : conn[ts] # NULL => app_ctx[conn[ts]] = ts
  /\ \A s \in open : app_ctx[s] # NULL =>
       conn[app_ctx[s]] = s \/ s \in doomed

\* A message of talkto waits only in the buffer of a connection that has
\* itself logged in under the addressee's key.
PushPrivacy ==
  \A s \in open : \A i \in 1 .. Len(sbuf[s]) :
    sbuf[s][i].type = "push" => sbuf[s][i].to \in authed[s]

\* Unsent data is never forgotten: the socket has its EPOLLOUT armed or its
\* writable flag set, whoever put the data there.
NoStrandedData ==
  \A s \in open : sbuf[s] # <<>> => s \in armed \cup writable

\* Only open connections are doomed, so lts_timeout never closes twice.
DoomedIsOpen == doomed \subseteq open

\* A connection is doomed only by its own request or by a login under a key it
\* has itself logged in under.
OnlyRivalsKicked ==
  [][\A s \in doomed' \ doomed :
       \E r \in served' \ served :
         r = s \/ authed'[r] \cap authed[s] # {}]_vars

\* A doomed connection is gone before the next pass starts, and passes go on.
DoomedLeaves == \A s \in Socket : s \in doomed ~> s \notin doomed \/ ~alive

\* What is put into a send buffer is sent, or the connection ends.
DataLeaves ==
  \A s \in Socket : sbuf[s] # <<>> ~> sbuf[s] = <<>> \/ ~alive

-----------------------------------------------------------------------------
(* The promise of LoginService.  A session is Offline when its connection   *)
(* pointer is NULL.                                                         *)

ownerBar ==
  [k \in Key |-> IF s_ts_set[k] = NULL THEN Out ELSE conn[s_ts_set[k]]]

Login == INSTANCE LoginService WITH
  Conn <- Socket, User <- Key, Offline <- NULL, up <- open, owner <- ownerBar

\* The session table implements LoginService: every handler, close and crash is
\* one of its steps or invisible to it.
ImplementsLogin == Login!Spec
=============================================================================
