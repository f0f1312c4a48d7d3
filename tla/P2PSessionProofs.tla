--------------------------- MODULE P2PSessionProofs ---------------------------
(***************************************************************************)
(* Proofs about P2PSession, for any number of sockets, sessions and users  *)
(* and any hash.                                                           *)
(***************************************************************************)
EXTENDS P2PSession, SequenceTheorems, TLAPS

(* The inductive invariant.  NoDanglingConn by itself is not inductive: the  *)
(* close of s clears conn[app_ctx[s]] only, so conn[ts] = s must imply       *)
(* app_ctx[s] = ts, which a login of s preserves only if s holds no other    *)
(* session.  It does not, because a session in use is held under a key its   *)
(* connection has logged in under (OwnerAuthed), a connection has one key    *)
(* (OneKey), and the connection of a freed session is not served again       *)
(* (FreedIsLeaving).                                                         *)

OwnerAuthed ==
  \A ts \in s_ts_uselst : conn[ts] # NULL => key[ts] \in authed[conn[ts]]

OneKey == \A s \in Socket : \A j, k \in authed[s] : j = k

FreedIsLeaving ==
  \A ts \in TS \ s_ts_uselst :
    conn[ts] # NULL => conn[ts] \in doomed \cap served

Pointers ==
  /\ SessionTable
  /\ NoDanglingConn
  /\ BackPointer
  /\ DoomedIsOpen
  /\ OwnerAuthed
  /\ OneKey
  /\ FreedIsLeaving

IInv == TypeOK /\ Pointers

-----------------------------------------------------------------------------
(* Send buffers *)

\* lts_proto_sjsonb_encode keeps a buffer a sequence of messages.
LEMMA EncodeType ==
  ASSUME NEW buf \in Seq(Msg), NEW m \in Msg
  PROVE  Encode(buf, m) \in Seq(Msg)
BY DEF Encode

\* Every reply and every push is a message.
LEMMA MsgType ==
  /\ \A e \in Errno : Rsp(e) \in Msg
  /\ \A k \in Key : Push(k) \in Msg
BY DEF Rsp, Push, Msg

\* What lts_send leaves of a buffer is a sequence of messages.
LEMMA SuffixType ==
  ASSUME NEW buf \in Seq(Msg), NEW n \in 0 .. Len(buf)
  PROVE  SubSeq(buf, n + 1, Len(buf)) \in Seq(Msg)
<1>1. \A i \in (n + 1) .. Len(buf) : buf[i] \in Msg
  OBVIOUS
<1>. QED BY <1>1, SubSeqProperties

\* The buffers after a reply to s.
LEMMA ReplyType ==
  ASSUME NEW s \in Socket, NEW bufs \in [Socket -> Seq(Msg)], NEW e \in Errno,
         armed \subseteq Socket, Reply(s, bufs, e)
  PROVE  sbuf' \in [Socket -> Seq(Msg)] /\ armed' \subseteq Socket
<1>1. Encode(bufs[s], Rsp(e)) \in Seq(Msg)
  BY EncodeType, MsgType
<1>. QED BY <1>1 DEF Reply

\* The login check only answers with error codes.
LEMMA LinkCheckType ==
  ASSUME NEW s, NEW a, NEW b
  PROVE  LinkCheck(s, a, b) \in Errno
BY DEF LinkCheck, Errno

-----------------------------------------------------------------------------
(* Type correctness *)

\* A request that only earns a reply (Answer) keeps the types.
LEMMA AnswerType ==
  ASSUME TypeOK, NEW s \in Socket, NEW e \in Errno, Answer(s, e)
  PROVE  TypeOK'
<1>1. sbuf' \in [Socket -> Seq(Msg)] /\ armed' \subseteq Socket
  BY ReplyType DEF TypeOK, Answer
<1>. QED BY <1>1 DEF TypeOK, Answer, Serving, tsVars

\* A worker whose memory is gone has well-typed state.
LEMMA CrashType == Crash => TypeOK'
<1>. SUFFICES ASSUME Crash PROVE TypeOK'
  OBVIOUS
<1>1. sbuf' \in [Socket -> Seq(Msg)]
  BY DEF Crash
<1>. QED BY <1>1 DEF Crash, TypeOK

\* lts_close_conn keeps the types.
LEMMA CloseType ==
  ASSUME TypeOK, NEW s \in Socket, CloseConn(s), doomed' \subseteq Socket
  PROVE  TypeOK'
<1>1. sbuf' \in [Socket -> Seq(Msg)]
  BY DEF CloseConn, TypeOK
<1>2. conn' \in [TS -> Socket \cup {NULL}] /\ app_ctx' \in [Socket -> TS \cup {NULL}]
  BY DEF TypeOK, CloseConn, OnClosing
<1>. QED BY <1>1, <1>2 DEF TypeOK, CloseConn

\* So does every branch of p2p_fsm_service.
LEMMA RequestType ==
  ASSUME TypeOK, NEW s \in Socket, Request(s)
  PROVE  TypeOK'
<1>. USE SessionAssumption
<1>1. CASE Heartbeat(s)
  BY <1>1, AnswerType DEF Heartbeat, Errno
<1>2. CASE Unsupported(s)
  BY <1>2, AnswerType DEF Unsupported, Errno
<1>3. CASE ArgMissing(s)
  BY <1>3, AnswerType, CrashType DEF ArgMissing, Errno
<1>4. CASE Illegal(s)
  BY <1>4 DEF Illegal, Serving, TypeOK, tsVars
<1>5. CASE BadInterface(s)
  BY <1>5, CrashType DEF BadInterface
<1>6. ASSUME NEW a \in Auth, LoginKnown(s, a)
      PROVE  TypeOK'
  <2>1. sbuf' \in [Socket -> Seq(Msg)] /\ armed' \subseteq Socket
    BY <1>6, ReplyType DEF TypeOK, LoginKnown, Errno
  <2>2. find_ts_by_auth(a) \in TS
    BY <1>6 DEF LoginKnown, TypeOK, find_ts_by_auth
  <2>3. authed' \in [Socket -> SUBSET Key]
    BY <1>6 DEF LoginKnown, TypeOK
  <2>4. conn[find_ts_by_auth(a)] \in Socket \cup {NULL}
    BY <2>2 DEF TypeOK
  <2>5. doomed' \subseteq Socket
    BY <1>6, <2>4 DEF LoginKnown, TypeOK
  <2>6. /\ conn' \in [TS -> Socket \cup {NULL}]
        /\ app_ctx' \in [Socket -> TS \cup {NULL}]
    <3>1. CASE conn[find_ts_by_auth(a)] = s
      BY <1>6, <3>1 DEF LoginKnown, TypeOK
    <3>2. CASE conn[find_ts_by_auth(a)] # s
      <4>1. Attach(find_ts_by_auth(a), s)
        BY <1>6, <3>2 DEF LoginKnown
      <4>. QED BY <2>2, <4>1 DEF Attach, TypeOK
    <3>. QED BY <3>1, <3>2
  <2>. QED BY <1>6, <2>1, <2>3, <2>5, <2>6 DEF LoginKnown, Serving, TypeOK
<1>7. ASSUME NEW a \in Auth, LoginNew(s, a)
      PROVE  TypeOK'
  <2>1. sbuf' \in [Socket -> Seq(Msg)] /\ armed' \subseteq Socket
    BY <1>7, ReplyType DEF TypeOK, LoginNew, Errno
  <2>2. authed' \in [Socket -> SUBSET Key]
    BY <1>7 DEF LoginNew, TypeOK
  <2>3. /\ conn' \in [TS -> Socket \cup {NULL}]
        /\ app_ctx' \in [Socket -> TS \cup {NULL}]
        /\ key' \in [TS -> Key \cup {NULL}]
        /\ s_ts_set' \in [Key -> TS \cup {NULL}]
        /\ s_ts_uselst' \subseteq TS
    BY <1>7 DEF LoginNew, Attach, s_ts_cachelst, TypeOK
  <2>. QED BY <1>7, <2>1, <2>2, <2>3 DEF LoginNew, Serving, TypeOK
<1>8. ASSUME NEW a \in Auth, LoginFull(s, a)
      PROVE  TypeOK'
  BY <1>8, AnswerType DEF LoginFull, Errno
<1>9. ASSUME NEW a \in Auth, LogoutRefused(s, a)
      PROVE  TypeOK'
  BY <1>9, AnswerType DEF LogoutRefused, Errno
<1>10. ASSUME NEW a \in Auth, Logout(s, a)
       PROVE  TypeOK'
  <2>1. sbuf' \in [Socket -> Seq(Msg)] /\ armed' \subseteq Socket
    BY <1>10, ReplyType DEF TypeOK, Logout, Errno
  <2>. QED BY <1>10, <2>1 DEF Logout, Serving, TypeOK
<1>11. ASSUME NEW a \in Auth, NEW b \in Auth, TalkToRefused(s, a, b)
       PROVE  TypeOK'
  BY <1>11, AnswerType, LinkCheckType DEF TalkToRefused
<1>12. ASSUME NEW a \in Auth, NEW b \in Auth, TalkTo(s, a, b)
       PROVE  TypeOK'
  <2> DEFINE peer == conn[find_ts_by_auth(b)]
             bufs == [sbuf EXCEPT ![peer] = Encode(@, Push(time33[b]))]
  <2>1. CASE peer \in open
    <3>0. peer \in Socket
      BY <2>1 DEF TypeOK
    <3>1. bufs \in [Socket -> Seq(Msg)]
      <4>1. Encode(sbuf[peer], Push(time33[b])) \in Seq(Msg)
        BY <3>0, EncodeType, MsgType DEF TypeOK
      <4>. QED BY <4>1 DEF TypeOK
    <3>2. Reply(s, bufs, "SUCCESS") /\ Serving(s)
          /\ writable' = writable \cup {peer}
          /\ UNCHANGED <<doomed, app_ctx, tsVars, authed>>
      BY <1>12, <2>1 DEF TalkTo
    <3>. HIDE DEF bufs
    <3>3. sbuf' \in [Socket -> Seq(Msg)] /\ armed' \subseteq Socket
      BY <3>1, <3>2, ReplyType DEF TypeOK, Errno
    <3>. QED BY <3>0, <3>2, <3>3 DEF Serving, TypeOK, tsVars
  <2>2. CASE peer \notin open
    BY <1>12, <2>2, CrashType DEF TalkTo
  <2>. QED BY <2>1, <2>2
<1>13. ASSUME NEW a \in Auth, NEW b \in Auth, GetLinkInfo(s, a, b)
       PROVE  TypeOK'
  BY <1>13, AnswerType, LinkCheckType DEF GetLinkInfo, Errno
<1>. QED BY <1>1, <1>2, <1>3, <1>4, <1>5, <1>6, <1>7, <1>8, <1>9, <1>10,
            <1>11, <1>12, <1>13 DEF Request

\* So does every step of the worker.
LEMMA NextType == TypeOK /\ [Next]_vars => TypeOK'
<1>. SUFFICES ASSUME TypeOK, [Next]_vars PROVE TypeOK'
  OBVIOUS
<1>1. ASSUME NEW s \in Socket, Accept(s) PROVE TypeOK'
  BY <1>1 DEF Accept, TypeOK, tsVars
<1>2. ASSUME NEW s \in Socket, Request(s) PROVE TypeOK'
  BY <1>2, RequestType
<1>3. ASSUME NEW s \in Socket, RecvClose(s) PROVE TypeOK'
  BY <1>3, CloseType, CrashType DEF RecvClose, TypeOK
<1>4. ASSUME NEW s \in Socket, Send(s) PROVE TypeOK'
  <2>1. PICK n \in 0 .. Len(sbuf[s]) :
          sbuf' = [sbuf EXCEPT ![s] = SubSeq(@, n + 1, Len(@))]
    BY <1>4 DEF Send
  <2>2. SubSeq(sbuf[s], n + 1, Len(sbuf[s])) \in Seq(Msg)
    BY SuffixType DEF TypeOK
  <2>3. sbuf' \in [Socket -> Seq(Msg)]
    BY <2>1, <2>2 DEF TypeOK
  <2>4. writable' \subseteq Socket /\ armed' \subseteq Socket
    BY <1>4 DEF Send, TypeOK
  <2>. QED BY <1>4, <2>3, <2>4 DEF Send, TypeOK, tsVars
<1>5. ASSUME NEW s \in Socket, SendClose(s) PROVE TypeOK'
  BY <1>5, CloseType DEF SendClose, TypeOK
<1>6. ASSUME NEW s \in Socket, Timeout(s) PROVE TypeOK'
  BY <1>6, CloseType, CrashType DEF Timeout, TypeOK
<1>7. ASSUME NEW s \in Socket, Expire(s) PROVE TypeOK'
  BY <1>7, CloseType DEF Expire, TypeOK
<1>8. CASE PostDone \/ NextPass \/ Restart \/ UNCHANGED vars
  BY <1>8 DEF PostDone, NextPass, Restart, TypeOK, vars, sockVars, tsVars
<1>. QED BY <1>1, <1>2, <1>3, <1>4, <1>5, <1>6, <1>7, <1>8 DEF Next

\* Type correctness of the session table, whatever the clients send.
THEOREM TypeCorrect == Spec => []TypeOK
<1>1. Init => TypeOK
  BY DEF Init, TypeOK
<1>. QED BY <1>1, NextType, PTL DEF Spec

-----------------------------------------------------------------------------
(* The pointer invariant: one lemma per kind of step *)

\* What a step has to leave alone not to matter to the invariant.
ptrVars == <<open, doomed, app_ctx, conn, key, s_ts_set, s_ts_uselst, authed>>

\* Steps that only reply, send or push.
LEMMA QuietStep ==
  ASSUME Pointers, UNCHANGED ptrVars, served \subseteq served'
  PROVE  Pointers'
BY DEF Pointers, ptrVars, SessionTable, NoDanglingConn, BackPointer,
       DoomedIsOpen, OwnerAuthed, OneKey, FreedIsLeaving

\* A new worker has no session and no connection.
LEMMA CrashStep == Crash => Pointers'
BY SessionAssumption
   DEF Crash, Pointers, SessionTable, NoDanglingConn, BackPointer,
       DoomedIsOpen, OwnerAuthed, OneKey, FreedIsLeaving

\* A connection fresh from lts_accept holds no session.
LEMMA AcceptStep ==
  ASSUME IInv, NEW s \in Socket, Accept(s)
  PROVE  Pointers'
<1>1. \A ts \in TS : conn[ts] # s
  BY SessionAssumption DEF Accept, IInv, Pointers, NoDanglingConn
<1>. QED BY <1>1, SessionAssumption
     DEF Accept, IInv, TypeOK, Pointers, tsVars, SessionTable, NoDanglingConn,
         BackPointer, DoomedIsOpen, OwnerAuthed, OneKey, FreedIsLeaving

\* Closing s detaches the only session that can point at it.
LEMMA CloseStep ==
  ASSUME IInv, NEW s \in Socket, s \in open, CloseConn(s),
         doomed' = doomed \ {s}
  PROVE  Pointers'
<1>. USE SessionAssumption DEF IInv, TypeOK, Pointers
<1>1. \A ts \in TS : conn'[ts] # s /\ conn'[ts] \in {conn[ts], NULL}
  <2>1. CASE app_ctx[s] # NULL /\ conn[app_ctx[s]] = s
    BY <2>1 DEF CloseConn, OnClosing, BackPointer
  <2>2. CASE ~(app_ctx[s] # NULL /\ conn[app_ctx[s]] = s)
    BY <2>2 DEF CloseConn, OnClosing, BackPointer
  <2>. QED BY <2>1, <2>2
<1>2. \A r \in Socket \ {s} : app_ctx'[r] = app_ctx[r]
  BY DEF CloseConn, OnClosing
<1>3. \A ts \in TS : conn[ts] # s => conn'[ts] = conn[ts]
  BY DEF CloseConn, OnClosing
<1>4. UNCHANGED <<served, key, s_ts_set, s_ts_uselst, authed>>
      /\ open' = open \ {s}
  BY DEF CloseConn
<1>5. SessionTable' /\ OneKey' /\ DoomedIsOpen'
  BY <1>4 DEF SessionTable, OneKey, DoomedIsOpen
<1>6. NoDanglingConn'
  BY <1>1, <1>4 DEF NoDanglingConn
<1>7. OwnerAuthed' /\ FreedIsLeaving'
  BY <1>1, <1>4 DEF OwnerAuthed, FreedIsLeaving
<1>8. BackPointer'
  <2>1. \A ts \in TS : conn'[ts] # NULL => app_ctx'[conn'[ts]] = ts
    BY <1>1, <1>2, <1>4 DEF BackPointer
  <2>2. \A r \in open' : app_ctx'[r] # NULL =>
          conn'[app_ctx'[r]] = r \/ r \in doomed'
    BY <1>2, <1>3, <1>4 DEF BackPointer
  <2>. QED BY <2>1, <2>2 DEF BackPointer
<1>. QED BY <1>5, <1>6, <1>7, <1>8

\* Dooming an open connection that holds what it held disturbs no pointer.
LEMMA IllegalStep ==
  ASSUME IInv, NEW s \in Socket, Illegal(s)
  PROVE  Pointers'
BY DEF Illegal, Serving, IInv, TypeOK, Pointers, tsVars, SessionTable,
       NoDanglingConn, BackPointer, DoomedIsOpen, OwnerAuthed, OneKey,
       FreedIsLeaving

\* logout removes a session from map and use list together, and its connection
\* is doomed and served.
LEMMA LogoutStep ==
  ASSUME IInv, NEW s \in Socket, NEW a \in Auth, Logout(s, a)
  PROVE  Pointers'
<1>. USE SessionAssumption DEF IInv, TypeOK, Pointers
<1> DEFINE ts == find_ts_by_auth(a)
<1>1. ts \in s_ts_uselst /\ ts \in TS /\ key[ts] = time33[a] /\ conn[ts] = s
  BY DEF Logout, find_ts_by_auth, SessionTable
<1>2. /\ open' = open /\ served' = served \cup {s} /\ doomed' = doomed \cup {s}
      /\ UNCHANGED <<app_ctx, conn, key, authed>>
      /\ s \in open
      /\ s_ts_uselst' = s_ts_uselst \ {ts}
      /\ s_ts_set' = [s_ts_set EXCEPT ![time33[a]] = NULL]
  BY <1>1 DEF Logout, Serving
<1>3. \A k \in Key : s_ts_set[k] = ts => k = time33[a]
  BY <1>1 DEF SessionTable
<1>. HIDE DEF ts
<1>4. SessionTable'
  BY <1>1, <1>2, <1>3 DEF SessionTable
<1>5. NoDanglingConn' /\ BackPointer' /\ DoomedIsOpen' /\ OneKey'
  BY <1>2 DEF NoDanglingConn, BackPointer, DoomedIsOpen, OneKey
<1>6. OwnerAuthed' /\ FreedIsLeaving'
  BY <1>1, <1>2 DEF OwnerAuthed, FreedIsLeaving
<1>. QED BY <1>4, <1>5, <1>6

\* Under OneAuth a connection about to log in under k holds no session of
\* another key, and no freed one.
LEMMA HoldsNoOther ==
  ASSUME IInv, NEW s \in Socket, NEW k \in Key, OneAuth = TRUE,
         MayLogin(s, k), s \notin served,
         NEW ts \in TS, conn[ts] = s
  PROVE  ts \in s_ts_uselst /\ s_ts_set[k] = ts
BY SessionAssumption
   DEF IInv, TypeOK, Pointers, MayLogin, FreedIsLeaving, OwnerAuthed,
       SessionTable

\* A login moves an existing session to s and dooms the connection it leaves.
LEMMA LoginKnownStep ==
  ASSUME IInv, OneAuth = TRUE, NEW s \in Socket, NEW a \in Auth,
         LoginKnown(s, a)
  PROVE  Pointers'
<1>. USE SessionAssumption DEF IInv, TypeOK, Pointers
<1> DEFINE ts == find_ts_by_auth(a)
           k == time33[a]
<1>1. ts \in s_ts_uselst /\ ts \in TS /\ key[ts] = k /\ k \in Key
  BY DEF LoginKnown, find_ts_by_auth, SessionTable
<1>2. \A t \in TS : conn[t] = s => t = ts
  BY <1>1, HoldsNoOther DEF LoginKnown, Serving, find_ts_by_auth
<1>3. /\ open' = open /\ served' = served \cup {s} /\ s \in open
      /\ doomed' = doomed \cup ({conn[ts]} \ {NULL, s})
      /\ UNCHANGED <<key, s_ts_set, s_ts_uselst>>
  BY DEF LoginKnown, Serving
<1>4. authed' = [authed EXCEPT ![s] = @ \cup {k}] /\ authed[s] \subseteq {k}
  BY DEF LoginKnown, MayLogin
<1>5. conn' = [conn EXCEPT ![ts] = s] /\ app_ctx' = [app_ctx EXCEPT ![s] = ts]
  <2>1. CASE conn[ts] = s
    <3>1. UNCHANGED <<conn, app_ctx>>
      BY <2>1 DEF LoginKnown
    <3>2. app_ctx[s] = ts
      BY <1>1, <2>1 DEF BackPointer
    <3>. QED BY <1>1, <2>1, <3>1, <3>2
  <2>2. CASE conn[ts] # s
    BY <2>2 DEF LoginKnown, Attach
  <2>. QED BY <2>1, <2>2
<1>. HIDE DEF ts, k
<1>6. SessionTable'
  BY <1>3 DEF SessionTable
<1>7. NoDanglingConn' /\ DoomedIsOpen'
  BY <1>1, <1>3, <1>5 DEF NoDanglingConn, DoomedIsOpen
<1>8. OneKey'
  BY <1>4 DEF OneKey
<1>9. OwnerAuthed'
  BY <1>1, <1>2, <1>3, <1>4, <1>5 DEF OwnerAuthed
<1>10. FreedIsLeaving'
  BY <1>1, <1>3, <1>5 DEF FreedIsLeaving
<1>11. BackPointer'
  <2>1. \A t \in TS : conn'[t] # NULL => app_ctx'[conn'[t]] = t
    BY <1>1, <1>2, <1>5 DEF BackPointer
  <2>2. \A r \in open' : app_ctx'[r] # NULL =>
          conn'[app_ctx'[r]] = r \/ r \in doomed'
    <3>. SUFFICES ASSUME NEW r \in open, app_ctx'[r] # NULL
                  PROVE  conn'[app_ctx'[r]] = r \/ r \in doomed'
      BY <1>3
    <3>1. CASE r = s
      BY <1>1, <1>5, <3>1
    <3>2. CASE r # s /\ app_ctx[r] = ts
      BY <1>1, <1>3, <1>5, <3>2 DEF BackPointer
    <3>3. CASE r # s /\ app_ctx[r] # ts
      BY <1>1, <1>3, <1>5, <3>3 DEF BackPointer
    <3>. QED BY <3>1, <3>2, <3>3
  <2>. QED BY <2>1, <2>2 DEF BackPointer
<1>. QED BY <1>6, <1>7, <1>8, <1>9, <1>10, <1>11

\* A login takes a cached session, whose old connection is on its way out.
LEMMA LoginNewStep ==
  ASSUME IInv, OneAuth = TRUE, NEW s \in Socket, NEW a \in Auth,
         LoginNew(s, a)
  PROVE  Pointers'
<1>. USE SessionAssumption DEF IInv, TypeOK, Pointers
<1> DEFINE k == time33[a]
<1>1. PICK ts \in TS \ s_ts_uselst :
        /\ conn' = [conn EXCEPT ![ts] = s]
        /\ app_ctx' = [app_ctx EXCEPT ![s] = ts]
        /\ key' = [key EXCEPT ![ts] = k]
        /\ s_ts_set' = [s_ts_set EXCEPT ![k] = ts]
        /\ s_ts_uselst' = s_ts_uselst \cup {ts}
  BY DEF LoginNew, Attach, s_ts_cachelst
<1>2. /\ open' = open /\ served' = served \cup {s} /\ s \in open
      /\ doomed' = doomed /\ k \in Key /\ s_ts_set[k] = NULL
  BY DEF LoginNew, Serving, find_ts_by_auth
<1>3. \A t \in TS : conn[t] # s
  BY <1>2, HoldsNoOther DEF LoginNew, Serving
<1>4. authed' = [authed EXCEPT ![s] = @ \cup {k}] /\ authed[s] \subseteq {k}
  BY DEF LoginNew, MayLogin
<1>. HIDE DEF k
<1>5. SessionTable'
  BY <1>1, <1>2 DEF SessionTable
<1>6. NoDanglingConn' /\ DoomedIsOpen'
  BY <1>1, <1>2 DEF NoDanglingConn, DoomedIsOpen
<1>7. OneKey'
  BY <1>4 DEF OneKey
<1>8. OwnerAuthed'
  BY <1>1, <1>2, <1>3, <1>4 DEF OwnerAuthed
<1>9. FreedIsLeaving'
  BY <1>1, <1>2 DEF FreedIsLeaving
<1>10. BackPointer'
  <2>1. \A t \in TS : conn'[t] # NULL => app_ctx'[conn'[t]] = t
    BY <1>1, <1>3 DEF BackPointer
  <2>2. \A r \in open' : app_ctx'[r] # NULL =>
          conn'[app_ctx'[r]] = r \/ r \in doomed'
    <3>. SUFFICES ASSUME NEW r \in open, app_ctx'[r] # NULL
                  PROVE  conn'[app_ctx'[r]] = r \/ r \in doomed'
      BY <1>2
    <3>1. CASE r = s
      BY <1>1, <3>1
    <3>2. CASE r # s /\ app_ctx[r] = ts
      BY <1>1, <1>2, <3>2 DEF BackPointer, FreedIsLeaving
    <3>3. CASE r # s /\ app_ctx[r] # ts
      BY <1>1, <1>2, <3>3 DEF BackPointer
    <3>. QED BY <3>1, <3>2, <3>3
  <2>. QED BY <2>1, <2>2 DEF BackPointer
<1>. QED BY <1>5, <1>6, <1>7, <1>8, <1>9, <1>10

\* Requests that change no pointer.
LEMMA AnswerStep ==
  ASSUME Pointers, NEW s, NEW e, Answer(s, e)
  PROVE  Pointers'
<1>1. UNCHANGED ptrVars /\ served \subseteq served'
  BY DEF Answer, Serving, ptrVars, tsVars
<1>. QED BY <1>1, QuietStep

\* Every branch of p2p_fsm_service keeps the pointers.
LEMMA RequestStep ==
  ASSUME IInv, OneAuth = TRUE, NEW s \in Socket, Request(s)
  PROVE  Pointers'
<1>1. CASE Heartbeat(s) \/ Unsupported(s) \/ ArgMissing(s)
  BY <1>1, AnswerStep, CrashStep
     DEF IInv, Heartbeat, Unsupported, ArgMissing
<1>2. CASE Illegal(s)
  BY <1>2, IllegalStep
<1>3. CASE BadInterface(s)
  BY <1>3, CrashStep DEF BadInterface
<1>4. ASSUME NEW a \in Auth,
             LoginKnown(s, a) \/ LoginNew(s, a) \/ Logout(s, a)
      PROVE  Pointers'
  BY <1>4, LoginKnownStep, LoginNewStep, LogoutStep
<1>5. ASSUME NEW a \in Auth, LoginFull(s, a) \/ LogoutRefused(s, a)
      PROVE  Pointers'
  BY <1>5, AnswerStep DEF IInv, LoginFull, LogoutRefused
<1>6. ASSUME NEW a \in Auth, NEW b \in Auth,
             TalkToRefused(s, a, b) \/ GetLinkInfo(s, a, b)
      PROVE  Pointers'
  BY <1>6, AnswerStep DEF IInv, TalkToRefused, GetLinkInfo
<1>7. ASSUME NEW a \in Auth, NEW b \in Auth, TalkTo(s, a, b)
      PROVE  Pointers'
  <2>1. CASE Crash
    BY <2>1, CrashStep
  <2>2. CASE ~Crash
    <3>1. UNCHANGED ptrVars /\ served \subseteq served'
      BY <1>7, <2>2 DEF TalkTo, Serving, ptrVars, tsVars
    <3>. QED BY <3>1, QuietStep DEF IInv
  <2>. QED BY <2>1, <2>2
<1>. QED BY <1>1, <1>2, <1>3, <1>4, <1>5, <1>6, <1>7 DEF Request

\* Every step of the worker keeps the inductive invariant.
LEMMA NextStep ==
  ASSUME IInv, OneAuth = TRUE, KeepAlive = TRUE, [Next]_vars
  PROVE  IInv'
<1>0. TypeOK'
  BY NextType DEF IInv
<1>1. ASSUME NEW s \in Socket, Accept(s) PROVE Pointers'
  BY <1>1, AcceptStep
<1>2. ASSUME NEW s \in Socket, Request(s) PROVE Pointers'
  BY <1>2, RequestStep
<1>3. ASSUME NEW s \in Socket, RecvClose(s) PROVE Pointers'
  BY <1>3, CloseStep, CrashStep DEF RecvClose
<1>4. ASSUME NEW s \in Socket, Send(s) PROVE Pointers'
  <2>1. UNCHANGED ptrVars /\ served \subseteq served'
    BY <1>4 DEF Send, ptrVars, tsVars
  <2>. QED BY <2>1, QuietStep DEF IInv
<1>5. ASSUME NEW s \in Socket, SendClose(s) PROVE Pointers'
  BY <1>5, CloseStep DEF SendClose
<1>6. ASSUME NEW s \in Socket, Timeout(s) PROVE Pointers'
  BY <1>6, CloseStep, CrashStep DEF Timeout
<1>7. ASSUME NEW s \in Socket, Expire(s) PROVE Pointers'
  <2>1. s \in open /\ s \notin doomed /\ doomed' = doomed /\ CloseConn(s)
    BY <1>7 DEF Expire
  <2>2. doomed' = doomed \ {s}
    BY <2>1
  <2>. QED BY <2>1, <2>2, CloseStep
<1>8. ASSUME PostDone \/ Restart \/ UNCHANGED vars PROVE Pointers'
  <2>1. UNCHANGED ptrVars /\ served \subseteq served'
    BY <1>8 DEF PostDone, Restart, vars, sockVars, tsVars, ptrVars
  <2>. QED BY <2>1, QuietStep DEF IInv
<1>9. ASSUME NextPass PROVE Pointers'
  BY <1>9 DEF NextPass, tsVars, IInv, Pointers, SessionTable, NoDanglingConn,
              BackPointer, DoomedIsOpen, OwnerAuthed, OneKey, FreedIsLeaving
<1>10. Pointers'
  BY <1>1, <1>2, <1>3, <1>4, <1>5, <1>6, <1>7, <1>8, <1>9 DEF Next
<1>. QED BY <1>0, <1>10 DEF IInv

\* A worker starts with it.
LEMMA InitStep == Init => IInv
<1>1. Init => TypeOK
  BY DEF Init, TypeOK
<1>2. Init => Pointers
  BY SessionAssumption
     DEF Init, Pointers, SessionTable, NoDanglingConn, BackPointer,
         DoomedIsOpen, OwnerAuthed, OneKey, FreedIsLeaving
<1>. QED BY <1>1, <1>2 DEF IInv

\* The invariant holds of every run of the worker in which no connection logs
\* in under two keys and keepalive is on.
THEOREM PointerSafety ==
  ASSUME OneAuth = TRUE, KeepAlive = TRUE
  PROVE  Spec => []IInv
<1>1. IInv /\ [Next]_vars => IInv'
  BY NextStep
<1>. QED BY <1>1, InitStep, PTL DEF Spec

\* No handler ever follows ts->conn into a closed socket.
THEOREM NeverDangling ==
  ASSUME OneAuth = TRUE, KeepAlive = TRUE
  PROVE  Spec => []NoDanglingConn
<1>1. IInv => NoDanglingConn
  BY DEF IInv, Pointers
<1>. QED BY <1>1, PointerSafety, PTL

\* The map, the use list and the back pointers agree at all times, and only
\* open connections wait for the timer loop.
THEOREM TableSafety ==
  ASSUME OneAuth = TRUE, KeepAlive = TRUE
  PROVE  Spec => [](SessionTable /\ BackPointer /\ DoomedIsOpen)
<1>1. IInv => SessionTable /\ BackPointer /\ DoomedIsOpen
  BY DEF IInv, Pointers
<1>. QED BY <1>1, PointerSafety, PTL

-----------------------------------------------------------------------------
(* The session table implements LoginService *)

\* Steps that LoginService does not see.
LEMMA QuietRefines ==
  ASSUME UNCHANGED <<open, conn, s_ts_set>>
  PROVE  UNCHANGED Login!lvars
BY DEF Login!lvars, ownerBar

\* A crash is a Reset of LoginService.
LEMMA CrashRefines == Crash => Login!Reset
BY DEF Crash, Login!Reset, ownerBar

\* LoginService does not see a request that only earns a reply.
LEMMA AnswerRefines ==
  ASSUME NEW s, NEW e, Answer(s, e)
  PROVE  UNCHANGED Login!lvars
<1>1. UNCHANGED <<open, conn, s_ts_set>>
  BY DEF Answer, Serving, tsVars
<1>. QED BY <1>1, QuietRefines

\* Closing s takes it from the one user it serves, and from no other.
LEMMA CloseRefines ==
  ASSUME IInv, NEW s \in Socket, s \in open, CloseConn(s)
  PROVE  Login!Disconnect(s)
<1>. USE SessionAssumption DEF IInv, TypeOK, Pointers
<1>1. \A ts \in TS : conn'[ts] = IF conn[ts] = s THEN NULL ELSE conn[ts]
  <2>1. CASE app_ctx[s] # NULL /\ conn[app_ctx[s]] = s
    BY <2>1 DEF CloseConn, OnClosing, BackPointer
  <2>2. CASE ~(app_ctx[s] # NULL /\ conn[app_ctx[s]] = s)
    BY <2>2 DEF CloseConn, OnClosing, BackPointer
  <2>. QED BY <2>1, <2>2
<1>2. open' = open \ {s} /\ UNCHANGED s_ts_set
  BY DEF CloseConn
<1>. QED BY <1>1, <1>2 DEF Login!Disconnect, ownerBar

\* The keys whose session s holds.
LEMMA OwnedKey ==
  ASSUME IInv, OneAuth = TRUE, NEW s \in Socket, NEW k \in Key,
         MayLogin(s, k), s \notin served, NEW j \in Key, ownerBar[j] = s
  PROVE  j = k
<1>. USE SessionAssumption DEF IInv, TypeOK, Pointers
<1>1. s_ts_set[j] \in TS /\ conn[s_ts_set[j]] = s
  BY DEF ownerBar
<1>2. s_ts_set[k] = s_ts_set[j]
  BY <1>1, HoldsNoOther
<1>. QED BY <1>1, <1>2 DEF SessionTable

\* A login that takes over a session is a Login: s serves no other user.
LEMMA LoginKnownRefines ==
  ASSUME IInv, OneAuth = TRUE, NEW s \in Socket, NEW a \in Auth,
         LoginKnown(s, a)
  PROVE  Login!Login(s, time33[a])
<1>. USE SessionAssumption DEF IInv, TypeOK, Pointers
<1> DEFINE ts == find_ts_by_auth(a)
           k == time33[a]
<1>1. ts \in TS /\ k \in Key /\ s_ts_set[k] = ts /\ ts # NULL
  BY DEF LoginKnown, find_ts_by_auth
<1>2. s \in open /\ open' = open /\ UNCHANGED s_ts_set
  BY DEF LoginKnown, Serving
<1>3. conn' = [conn EXCEPT ![ts] = s]
  BY <1>1 DEF LoginKnown, Attach
<1>4. \A j \in Key : ownerBar[j] = s => j = k
  BY <1>1, OwnedKey DEF LoginKnown, Serving
<1>5. \A j \in Key : s_ts_set[j] = ts => j = k
  BY <1>1 DEF SessionTable
<1>. HIDE DEF ts, k
<1>6. ownerBar' = [ownerBar EXCEPT ![k] = s]
  BY <1>1, <1>2, <1>3, <1>5 DEF ownerBar
<1>. QED BY <1>2, <1>4, <1>6 DEF Login!Login, k

\* So is a login that allocates a session.
LEMMA LoginNewRefines ==
  ASSUME IInv, OneAuth = TRUE, NEW s \in Socket, NEW a \in Auth,
         LoginNew(s, a)
  PROVE  Login!Login(s, time33[a])
<1>. USE SessionAssumption DEF IInv, TypeOK, Pointers
<1> DEFINE k == time33[a]
<1>1. PICK ts \in TS \ s_ts_uselst :
        /\ conn' = [conn EXCEPT ![ts] = s]
        /\ s_ts_set' = [s_ts_set EXCEPT ![k] = ts]
  BY DEF LoginNew, Attach, s_ts_cachelst
<1>2. s \in open /\ open' = open /\ k \in Key
  BY DEF LoginNew, Serving
<1>3. \A j \in Key : ownerBar[j] = s => j = k
  BY <1>2, OwnedKey DEF LoginNew, Serving
<1>4. \A j \in Key : s_ts_set[j] # ts
  BY <1>1 DEF SessionTable
<1>. HIDE DEF k
<1>5. ownerBar' = [ownerBar EXCEPT ![k] = s]
  BY <1>1, <1>2, <1>4 DEF ownerBar
<1>. QED BY <1>2, <1>3, <1>5 DEF Login!Login, k

\* logout is a Logout of the user whose session s holds.
LEMMA LogoutRefines ==
  ASSUME IInv, NEW s \in Socket, NEW a \in Auth, Logout(s, a)
  PROVE  Login!Logout(s, time33[a])
<1>. USE SessionAssumption DEF IInv, TypeOK, Pointers
<1> DEFINE ts == find_ts_by_auth(a)
           k == time33[a]
<1>1. ts \in TS /\ k \in Key /\ s_ts_set[k] = ts /\ conn[ts] = s /\ key[ts] = k
  BY DEF Logout, find_ts_by_auth, SessionTable
<1>2. /\ s \in open /\ open' = open /\ UNCHANGED conn
      /\ s_ts_set' = [s_ts_set EXCEPT ![k] = NULL]
  BY <1>1 DEF Logout, Serving
<1>. HIDE DEF ts, k
<1>3. ownerBar' = [ownerBar EXCEPT ![k] = Out]
  BY <1>1, <1>2 DEF ownerBar
<1>4. ownerBar[k] = s
  BY <1>1 DEF ownerBar
<1>. QED BY <1>2, <1>3, <1>4 DEF Login!Logout, k

\* Every branch of p2p_fsm_service is a step of LoginService or invisible.
LEMMA RequestRefines ==
  ASSUME IInv, OneAuth = TRUE, NEW s \in Socket, Request(s)
  PROVE  Login!Next \/ UNCHANGED Login!lvars
<1>1. CASE Heartbeat(s) \/ Unsupported(s) \/ ArgMissing(s)
  BY <1>1, AnswerRefines, CrashRefines
     DEF Heartbeat, Unsupported, ArgMissing, Login!Next
<1>2. CASE Illegal(s)
  BY <1>2, QuietRefines DEF Illegal, Serving, tsVars
<1>3. CASE BadInterface(s)
  BY <1>3, CrashRefines DEF BadInterface, Login!Next
<1>4. ASSUME NEW a \in Auth,
             LoginKnown(s, a) \/ LoginNew(s, a) \/ Logout(s, a)
      PROVE  Login!Next
  <2>1. time33[a] \in Key
    BY SessionAssumption
  <2>. QED BY <1>4, <2>1, LoginKnownRefines, LoginNewRefines, LogoutRefines
         DEF Login!Next
<1>5. ASSUME NEW a \in Auth, LoginFull(s, a) \/ LogoutRefused(s, a)
      PROVE  UNCHANGED Login!lvars
  BY <1>5, AnswerRefines DEF LoginFull, LogoutRefused
<1>6. ASSUME NEW a \in Auth, NEW b \in Auth,
             TalkToRefused(s, a, b) \/ GetLinkInfo(s, a, b)
      PROVE  UNCHANGED Login!lvars
  BY <1>6, AnswerRefines DEF TalkToRefused, GetLinkInfo
<1>7. ASSUME NEW a \in Auth, NEW b \in Auth, TalkTo(s, a, b)
      PROVE  Login!Next \/ UNCHANGED Login!lvars
  <2>1. CASE Crash
    BY <2>1, CrashRefines DEF Login!Next
  <2>2. CASE ~Crash
    <3>1. UNCHANGED <<open, conn, s_ts_set>>
      BY <1>7, <2>2 DEF TalkTo, Serving, tsVars
    <3>. QED BY <3>1, QuietRefines
  <2>. QED BY <2>1, <2>2
<1>. QED BY <1>1, <1>2, <1>3, <1>4, <1>5, <1>6, <1>7 DEF Request

\* Every step of the worker is a step of LoginService or invisible to it.
LEMMA StepRefines ==
  ASSUME IInv, OneAuth = TRUE, KeepAlive = TRUE, [Next]_vars
  PROVE  [Login!Next]_(Login!lvars)
<1>1. ASSUME NEW s \in Socket, Accept(s) PROVE Login!Next
  <2>1. Login!Connect(s)
    BY <1>1 DEF Accept, tsVars, Login!Connect, ownerBar
  <2>. QED BY <2>1 DEF Login!Next
<1>2. ASSUME NEW s \in Socket, Request(s)
      PROVE  Login!Next \/ UNCHANGED Login!lvars
  BY <1>2, RequestRefines
<1>3. ASSUME NEW s \in Socket,
             RecvClose(s) \/ SendClose(s) \/ Timeout(s) \/ Expire(s)
      PROVE  Login!Next
  BY <1>3, CloseRefines, CrashRefines
     DEF RecvClose, SendClose, Timeout, Expire, Login!Next
<1>4. ASSUME NEW s \in Socket, Send(s) PROVE UNCHANGED Login!lvars
  BY <1>4, QuietRefines DEF Send, tsVars
<1>5. ASSUME PostDone \/ NextPass \/ Restart \/ UNCHANGED vars
      PROVE  UNCHANGED Login!lvars
  BY <1>5, QuietRefines
     DEF PostDone, NextPass, Restart, vars, sockVars, tsVars
<1>. QED BY <1>1, <1>2, <1>3, <1>4, <1>5 DEF Next

\* The table of sessions, with its pointers, passes and delayed closes, keeps
\* the promise of LoginService.
THEOREM Refinement ==
  ASSUME OneAuth = TRUE, KeepAlive = TRUE
  PROVE  Spec => ImplementsLogin
<1>1. Init => Login!Init
  BY DEF Init, Login!Init, ownerBar
<1>2. IInv /\ [Next]_vars => [Login!Next]_(Login!lvars)
  BY StepRefines
<1>. QED BY <1>1, <1>2, PointerSafety, PTL DEF Spec, ImplementsLogin, Login!Spec

-----------------------------------------------------------------------------
(* Send buffers and kicks *)

\* lts_close_conn empties the buffer of the connection it closes.
LEMMA CloseBuffers ==
  ASSUME TypeOK, NEW s \in Socket, CloseConn(s)
  PROVE  /\ open' = open \ {s} /\ armed' = armed \ {s}
         /\ UNCHANGED <<writable, authed>>
         /\ \A r \in Socket \ {s} : sbuf'[r] = sbuf[r]
BY DEF TypeOK, CloseConn

\* The buffers after a reply to s, for those who ask what is in them.
LEMMA ReplyBuffers ==
  ASSUME NEW s \in Socket, NEW bufs \in [Socket -> Seq(Msg)], NEW e \in Errno,
         Reply(s, bufs, e)
  PROVE  /\ armed' = armed \cup {s}
         /\ \A r \in Socket \ {s} : sbuf'[r] = bufs[r]
         /\ sbuf'[s] \in {bufs[s], Append(bufs[s], Rsp(e))}
BY DEF Reply, Encode

\* The buffers after TalkTo: a push is added to the peer's, and then the reply
\* to the sender's.
LEMMA TalkToBuffers ==
  ASSUME TypeOK, NEW s \in Socket, NEW a \in Auth, NEW b \in Auth, TalkTo(s, a, b)
  PROVE  \/ Crash
         \/ \E peer \in open, bufs \in [Socket -> Seq(Msg)] :
              /\ find_ts_by_auth(b) \in TS /\ peer = conn[find_ts_by_auth(b)]
              /\ Reply(s, bufs, "SUCCESS")
              /\ bufs[peer] \in {sbuf[peer], Append(sbuf[peer], Push(time33[b]))}
              /\ \A r \in Socket \ {peer} : bufs[r] = sbuf[r]
              /\ writable' = writable \cup {peer}
              /\ UNCHANGED <<open, authed>>
<1>. DEFINE peer == conn[find_ts_by_auth(b)]
            bufs == [sbuf EXCEPT ![peer] = Encode(@, Push(time33[b]))]
<1>. SUFFICES ASSUME ~Crash
              PROVE  \E q \in open, f \in [Socket -> Seq(Msg)] :
                       /\ find_ts_by_auth(b) \in TS /\ q = conn[find_ts_by_auth(b)]
                       /\ Reply(s, f, "SUCCESS")
                       /\ f[q] \in {sbuf[q], Append(sbuf[q], Push(time33[b]))}
                       /\ \A r \in Socket \ {q} : f[r] = sbuf[r]
                       /\ writable' = writable \cup {q}
                       /\ UNCHANGED <<open, authed>>
  OBVIOUS
<1>1. /\ peer \in open /\ peer \in Socket /\ Reply(s, bufs, "SUCCESS")
      /\ writable' = writable \cup {peer} /\ UNCHANGED <<open, authed>>
  BY DEF TalkTo, Serving, TypeOK
<1>2. find_ts_by_auth(b) \in TS
  <2>1. find_ts_by_auth(b) # NULL
    BY DEF TalkTo, LinkCheck
  <2>. QED BY <2>1, SessionAssumption DEF TypeOK, find_ts_by_auth
<1>3. Encode(sbuf[peer], Push(time33[b])) \in Seq(Msg)
  BY <1>1, EncodeType, MsgType, SessionAssumption DEF TypeOK
<1>4. bufs \in [Socket -> Seq(Msg)]
  BY <1>3 DEF TypeOK
<1>5. /\ bufs[peer] \in {sbuf[peer], Append(sbuf[peer], Push(time33[b]))}
      /\ \A r \in Socket \ {peer} : bufs[r] = sbuf[r]
  BY <1>1 DEF TypeOK, Encode
<1>. HIDE DEF bufs
<1>. QED BY <1>1, <1>2, <1>4, <1>5

\* The buffers after any request that is not TalkTo.
LEMMA RequestBuffers ==
  ASSUME TypeOK, NEW s \in Socket, Request(s),
         ~ \E a, b \in Auth : TalkTo(s, a, b)
  PROVE  \/ Crash
         \/ Illegal(s)
         \/ \E e \in Errno :
              /\ Reply(s, sbuf, e)
              /\ UNCHANGED <<open, writable>>
              /\ \A r \in Socket : authed[r] \subseteq authed'[r]
<1>1. ASSUME NEW e \in Errno, Answer(s, e)
      PROVE  /\ Reply(s, sbuf, e) /\ UNCHANGED <<open, writable>>
             /\ \A r \in Socket : authed[r] \subseteq authed'[r]
  BY <1>1 DEF Answer, Serving
<1>2. CASE Heartbeat(s)
  BY <1>1, <1>2 DEF Heartbeat, Errno
<1>3. CASE Unsupported(s)
  BY <1>1, <1>3 DEF Unsupported, Errno
<1>4. CASE ArgMissing(s)
  BY <1>1, <1>4 DEF ArgMissing, Errno
<1>5. CASE Illegal(s) \/ BadInterface(s)
  BY <1>5 DEF BadInterface
<1>6. ASSUME NEW a \in Auth, LoginKnown(s, a) \/ LoginNew(s, a) \/ Logout(s, a)
      PROVE  /\ Reply(s, sbuf, "SUCCESS") /\ UNCHANGED <<open, writable>>
             /\ \A r \in Socket : authed[r] \subseteq authed'[r]
  <2>1. Reply(s, sbuf, "SUCCESS") /\ UNCHANGED <<open, writable>>
    BY <1>6 DEF LoginKnown, LoginNew, Logout, Serving
  <2>2. authed' = authed \/ authed' = [authed EXCEPT ![s] = @ \cup {time33[a]}]
    BY <1>6 DEF LoginKnown, LoginNew, Logout
  <2>. QED BY <2>1, <2>2 DEF TypeOK
<1>7. ASSUME NEW a \in Auth, LoginFull(s, a)
      PROVE  Answer(s, "SERVER_FAILED")
  BY <1>7 DEF LoginFull
<1>8. ASSUME NEW a \in Auth, LogoutRefused(s, a)
      PROVE  Answer(s, "NOT_EXIST") \/ Answer(s, "INVALID_ARG")
  BY <1>8 DEF LogoutRefused
<1>9. ASSUME NEW a \in Auth, NEW b \in Auth, TalkToRefused(s, a, b) \/ GetLinkInfo(s, a, b)
      PROVE  Answer(s, LinkCheck(s, a, b)) \/ Answer(s, "INVALID_ARG")
  BY <1>9 DEF TalkToRefused, GetLinkInfo
<1>10. {"SUCCESS", "SERVER_FAILED", "NOT_EXIST", "INVALID_ARG"} \subseteq Errno
  BY DEF Errno
<1>. QED BY <1>1, <1>2, <1>3, <1>4, <1>5, <1>6, <1>7, <1>8, <1>9, <1>10,
            LinkCheckType DEF Request

\* NoStrandedData: whoever fills a send buffer, its socket has EPOLLOUT armed or
\* the writable flag set.  No assumption on logins or on keepalive is needed.
THEOREM NothingStranded == Spec => []NoStrandedData
<1>1. Init => NoStrandedData
  BY DEF Init, NoStrandedData
<1>2. ASSUME TypeOK, NoStrandedData, [Next]_vars PROVE NoStrandedData'
  <2>1. CASE Crash
    BY <2>1 DEF Crash, NoStrandedData
  <2>2. ASSUME NEW s \in Socket, Accept(s) PROVE NoStrandedData'
    BY <1>2, <2>2 DEF Accept, TypeOK, NoStrandedData
  <2>3. ASSUME NEW s \in Socket, NEW a \in Auth, NEW b \in Auth, TalkTo(s, a, b)
        PROVE  NoStrandedData'
    <3>. SUFFICES ASSUME ~Crash PROVE NoStrandedData'
      BY <2>1
    <3>. PICK peer \in open, bufs \in [Socket -> Seq(Msg)] :
              /\ Reply(s, bufs, "SUCCESS")
              /\ \A r \in Socket \ {peer} : bufs[r] = sbuf[r]
              /\ writable' = writable \cup {peer}
              /\ UNCHANGED <<open, authed>>
      BY <1>2, <2>3, TalkToBuffers
    <3>1. armed' = armed \cup {s} /\ \A r \in Socket \ {s} : sbuf'[r] = bufs[r]
      BY ReplyBuffers DEF Errno
    <3>. QED BY <1>2, <3>1 DEF TypeOK, NoStrandedData
  <2>4. ASSUME NEW s \in Socket, Request(s), ~ \E a, b \in Auth : TalkTo(s, a, b)
        PROVE  NoStrandedData'
    <3>1. CASE Illegal(s)
      BY <1>2, <3>1 DEF Illegal, Serving, NoStrandedData
    <3>2. ASSUME NEW e \in Errno, Reply(s, sbuf, e), UNCHANGED <<open, writable>>
          PROVE  NoStrandedData'
      <4>1. armed' = armed \cup {s} /\ \A r \in Socket \ {s} : sbuf'[r] = sbuf[r]
        BY <1>2, <3>2, ReplyBuffers DEF TypeOK
      <4>. QED BY <1>2, <3>2, <4>1 DEF TypeOK, NoStrandedData
    <3>. QED BY <1>2, <2>1, <2>4, <3>1, <3>2, RequestBuffers
  <2>5. ASSUME NEW s \in Socket, Send(s) PROVE NoStrandedData'
    <3>1. PICK n \in 0 .. Len(sbuf[s]) :
            /\ sbuf' = [sbuf EXCEPT ![s] = SubSeq(@, n + 1, Len(@))]
            /\ IF n = Len(sbuf[s])
               THEN /\ writable' = writable \ {s}
                    /\ armed' = IF n = 0 THEN armed ELSE armed \ {s}
               ELSE UNCHANGED <<writable, armed>>
      BY <2>5 DEF Send
    <3>2. s \in writable /\ open' = open
      BY <2>5 DEF Send
    <3>3. n = Len(sbuf[s]) => sbuf'[s] = <<>>
      <4>1. sbuf[s] \in Seq(Msg)
        BY <1>2 DEF TypeOK
      <4>2. SubSeq(sbuf[s], Len(sbuf[s]) + 1, Len(sbuf[s])) = <<>>
        BY <4>1, SubSeqEmpty
      <4>. QED BY <1>2, <3>1, <4>2 DEF TypeOK
    <3>. QED BY <1>2, <3>1, <3>2, <3>3 DEF TypeOK, NoStrandedData
  <2>6. ASSUME NEW s \in Socket, CloseConn(s) PROVE NoStrandedData'
    BY <1>2, <2>6, CloseBuffers DEF TypeOK, NoStrandedData
  <2>7. ASSUME NEW s \in Socket,
               RecvClose(s) \/ SendClose(s) \/ Timeout(s) \/ Expire(s)
        PROVE  NoStrandedData'
    BY <2>1, <2>6, <2>7 DEF RecvClose, SendClose, Timeout, Expire
  <2>8. CASE PostDone \/ NextPass \/ Restart \/ UNCHANGED vars
    BY <1>2, <2>8 DEF PostDone, NextPass, Restart, vars, sockVars, NoStrandedData
  <2>. QED BY <1>2, <2>2, <2>3, <2>4, <2>5, <2>7, <2>8 DEF Next
<1>. QED BY <1>1, <1>2, TypeCorrect, PTL DEF Spec

\* A buffer whose pushes are all for the keys K
PushesFor(buf, K) == \A i \in 1 .. Len(buf) : buf[i].type = "push" => buf[i].to \in K

\* A reply, and a push for a key of K, may be added to it.
LEMMA PushAppend ==
  ASSUME NEW buf \in Seq(Msg), NEW K, NEW m \in Msg, PushesFor(buf, K),
         m.type = "push" => m.to \in K
  PROVE  PushesFor(Append(buf, m), K)
BY AppendProperties DEF PushesFor

\* The connection talkto writes to has logged in under the addressee's key.
LEMMA PeerAuthed ==
  ASSUME IInv, NEW k \in Key, s_ts_set[k] \in TS, conn[s_ts_set[k]] \in open
  PROVE  k \in authed[conn[s_ts_set[k]]]
BY SessionAssumption DEF IInv, TypeOK, Pointers, SessionTable, OwnerAuthed

\* Every step keeps pushes where their addressee logged in.
LEMMA PrivacyStep ==
  ASSUME IInv, PushPrivacy, [Next]_vars
  PROVE  PushPrivacy'
<1>0. /\ \A r \in Socket : sbuf[r] \in Seq(Msg)
      /\ open \subseteq Socket
  BY DEF IInv, TypeOK
<1>1. PushPrivacy <=> \A r \in open : PushesFor(sbuf[r], authed[r])
  BY DEF PushPrivacy, PushesFor
<1>2. (\A r \in open' : PushesFor(sbuf'[r], authed'[r])) => PushPrivacy'
  BY DEF PushPrivacy, PushesFor
<1>3. CASE Crash
  BY <1>3 DEF Crash, PushPrivacy
<1>4. ASSUME NEW s \in Socket, Accept(s) PROVE PushPrivacy'
  BY <1>0, <1>4 DEF Accept, IInv, TypeOK, PushPrivacy
<1>5. ASSUME NEW s \in Socket, NEW e \in Errno, NEW bufs \in [Socket -> Seq(Msg)],
             Reply(s, bufs, e), open' = open,
             \A r \in open : PushesFor(bufs[r], authed[r]),
             \A r \in Socket : authed[r] \subseteq authed'[r]
      PROVE  PushPrivacy'
  <2>1. /\ \A r \in Socket \ {s} : sbuf'[r] = bufs[r]
        /\ sbuf'[s] \in {bufs[s], Append(bufs[s], Rsp(e))}
    BY <1>5, ReplyBuffers
  <2>2. Rsp(e) \in Msg /\ Rsp(e).type = "rsp"
    BY MsgType DEF Rsp
  <2>3. s \in open => PushesFor(sbuf'[s], authed[s])
    <3>1. ASSUME s \in open
          PROVE  PushesFor(Append(bufs[s], Rsp(e)), authed[s])
      BY <1>5, <2>2, <3>1, PushAppend
    <3>. QED BY <1>5, <2>1, <3>1
  <2>4. \A r \in open : PushesFor(sbuf'[r], authed[r])
    BY <1>0, <1>5, <2>1, <2>3
  <2>5. \A r \in open : PushesFor(sbuf'[r], authed'[r])
    BY <1>0, <1>5, <2>4 DEF PushesFor
  <2>. QED BY <1>2, <1>5, <2>5
<1>6. ASSUME NEW s \in Socket, NEW a \in Auth, NEW b \in Auth, TalkTo(s, a, b)
      PROVE  PushPrivacy'
  <2>. SUFFICES ASSUME ~Crash PROVE PushPrivacy'
    BY <1>3
  <2>. DEFINE k == time33[b]
  <2>. PICK peer \in open, bufs \in [Socket -> Seq(Msg)] :
         /\ find_ts_by_auth(b) \in TS /\ peer = conn[find_ts_by_auth(b)]
         /\ Reply(s, bufs, "SUCCESS")
         /\ bufs[peer] \in {sbuf[peer], Append(sbuf[peer], Push(k))}
         /\ \A r \in Socket \ {peer} : bufs[r] = sbuf[r]
         /\ UNCHANGED <<open, authed>>
    BY <1>6, TalkToBuffers DEF IInv
  <2>1. k \in Key /\ k \in authed[peer]
    BY PeerAuthed, SessionAssumption DEF find_ts_by_auth
  <2>2. Push(k) \in Msg /\ Push(k).type = "push" /\ Push(k).to = k
    BY <2>1, MsgType DEF Push
  <2>. HIDE DEF k
  <2>3. PushesFor(bufs[peer], authed[peer])
    BY <1>0, <1>1, <2>1, <2>2, PushAppend
  <2>4. \A r \in open : PushesFor(bufs[r], authed[r])
    BY <1>0, <1>1, <2>3
  <2>. QED BY <1>5, <2>4 DEF Errno
<1>7. ASSUME NEW s \in Socket, Request(s), ~ \E a, b \in Auth : TalkTo(s, a, b)
      PROVE  PushPrivacy'
  <2>1. CASE Illegal(s)
    BY <2>1 DEF Illegal, Serving, PushPrivacy
  <2>2. ASSUME NEW e \in Errno, Reply(s, sbuf, e), open' = open,
               \A r \in Socket : authed[r] \subseteq authed'[r]
        PROVE  PushPrivacy'
    BY <1>1, <1>5, <2>2 DEF IInv, TypeOK
  <2>. QED BY <1>3, <1>7, <2>1, <2>2, RequestBuffers DEF IInv
<1>8. ASSUME NEW s \in Socket, Send(s) PROVE PushPrivacy'
  <2>1. PICK n \in 0 .. Len(sbuf[s]) :
          sbuf' = [sbuf EXCEPT ![s] = SubSeq(@, n + 1, Len(@))]
    BY <1>8 DEF Send
  <2>2. UNCHANGED <<open, authed>>
    BY <1>8 DEF Send
  <2>. DEFINE rest == SubSeq(sbuf[s], n + 1, Len(sbuf[s]))
  <2>3. \A i \in 1 .. Len(rest) : n + i \in 1 .. Len(sbuf[s]) /\ rest[i] = sbuf[s][n + i]
    BY <1>0
  <2>4. sbuf'[s] = rest /\ \A r \in Socket \ {s} : sbuf'[r] = sbuf[r]
    BY <2>1 DEF IInv, TypeOK
  <2>. HIDE DEF rest
  <2>5. s \in open => PushesFor(rest, authed[s])
    BY <1>1, <2>3 DEF PushesFor
  <2>. QED BY <1>0, <1>1, <1>2, <2>2, <2>4, <2>5
<1>9. ASSUME NEW s \in Socket, CloseConn(s) PROVE PushPrivacy'
  BY <1>0, <1>9, CloseBuffers DEF IInv, PushPrivacy
<1>10. ASSUME NEW s \in Socket,
              RecvClose(s) \/ SendClose(s) \/ Timeout(s) \/ Expire(s)
       PROVE  PushPrivacy'
  BY <1>3, <1>9, <1>10 DEF RecvClose, SendClose, Timeout, Expire
<1>11. CASE PostDone \/ NextPass \/ Restart \/ UNCHANGED vars
  BY <1>11 DEF PostDone, NextPass, Restart, vars, sockVars, PushPrivacy
<1>. QED BY <1>4, <1>6, <1>7, <1>8, <1>10, <1>11 DEF Next

\* PushPrivacy: a message of talkto waits only in the buffer of a connection that
\* has logged in under the addressee's key.
THEOREM PushesArePrivate ==
  ASSUME OneAuth = TRUE, KeepAlive = TRUE
  PROVE  Spec => []PushPrivacy
<1>1. Init => PushPrivacy
  BY DEF Init, PushPrivacy
<1>2. IInv /\ PushPrivacy /\ [Next]_vars => PushPrivacy'
  BY PrivacyStep
<1>. QED BY <1>1, <1>2, PointerSafety, PTL DEF Spec

\* Who is doomed by a request
LEMMA KickStep ==
  ASSUME IInv, NEW s \in Socket, Request(s), NEW d \in doomed' \ doomed
  PROVE  \E r \in served' \ served : r = d \/ authed'[r] \cap authed[d] # {}
<1>1. CASE Crash
  BY <1>1 DEF Crash
<1>2. CASE Illegal(s)
  BY <1>2 DEF Illegal, Serving
<1>3. ASSUME NEW a \in Auth, Logout(s, a)
      PROVE  d = s /\ s \in served' \ served
  BY <1>3 DEF Logout, Serving
<1>4. ASSUME NEW a \in Auth, LoginKnown(s, a)
      PROVE  s \in served' \ served /\ authed'[s] \cap authed[d] # {}
  <2>. DEFINE ts == find_ts_by_auth(a)
              k == time33[a]
  <2>1. ts \in TS /\ k \in Key /\ ts = s_ts_set[k] /\ s \in served' \ served
    BY <1>4, SessionAssumption DEF LoginKnown, Serving, find_ts_by_auth, IInv, TypeOK
  <2>2. d = conn[ts] /\ d # NULL /\ d # s
    BY <1>4 DEF LoginKnown
  <2>3. k \in authed'[s]
    BY <1>4 DEF LoginKnown, IInv, TypeOK
  <2>. HIDE DEF ts, k
  <2>4. k \in authed[d]
    BY <2>1, <2>2, PeerAuthed DEF IInv, Pointers, NoDanglingConn
  <2>. QED BY <2>1, <2>3, <2>4
<1>5. CASE doomed' = doomed
  BY <1>5
<1>6. CASE ~Crash /\ ~Illegal(s) /\ ~(\E a \in Auth : Logout(s, a) \/ LoginKnown(s, a))
  <2>1. doomed' = doomed
    BY <1>6 DEF Request, Heartbeat, Unsupported, ArgMissing, BadInterface, LoginNew,
                LoginFull, LogoutRefused, TalkToRefused, TalkTo, GetLinkInfo, Answer
  <2>. QED BY <2>1
<1>. QED BY <1>1, <1>2, <1>3, <1>4, <1>6

\* OnlyRivalsKicked: a connection is doomed by its own request or by the login of
\* one that shares a key with it.
THEOREM Kicks ==
  ASSUME OneAuth = TRUE, KeepAlive = TRUE
  PROVE  Spec => OnlyRivalsKicked
<1>1. ASSUME IInv, [Next]_vars, NEW d \in doomed' \ doomed
      PROVE  \E r \in served' \ served : r = d \/ authed'[r] \cap authed[d] # {}
  <2>1. ASSUME NEW s \in Socket, Request(s)
        PROVE  \E r \in served' \ served : r = d \/ authed'[r] \cap authed[d] # {}
    BY <1>1, <2>1, KickStep
  <2>2. ASSUME NEW s \in Socket, \/ Accept(s) \/ RecvClose(s) \/ Send(s)
                                 \/ SendClose(s) \/ Timeout(s) \/ Expire(s)
        PROVE  doomed' \subseteq doomed
    BY <2>2 DEF Accept, RecvClose, Send, SendClose, Timeout, Expire, Crash
  <2>3. ASSUME PostDone \/ NextPass \/ Restart \/ UNCHANGED vars
        PROVE  doomed' \subseteq doomed
    BY <2>3 DEF PostDone, NextPass, Restart, vars, sockVars
  <2>. QED BY <1>1, <2>1, <2>2, <2>3 DEF Next
<1>2. IInv /\ [Next]_vars =>
        [\A s \in doomed' \ doomed :
           \E r \in served' \ served : r = s \/ authed'[r] \cap authed[s] # {}]_vars
  BY <1>1
<1>. QED BY <1>2, PointerSafety, PTL DEF Spec, OnlyRivalsKicked

\* The map and the use list agree even when a connection logs in under several
\* keys and when keepalive is off: what goes wrong there (NoDanglingConn) does not
\* touch the table.
THEOREM TableAlways == Spec => []SessionTable
<1>. USE SessionAssumption
<1>1. Init => SessionTable
  BY DEF Init, SessionTable
<1>2. ASSUME TypeOK, SessionTable, [Next]_vars PROVE SessionTable'
  <2>1. CASE Crash
    BY <2>1 DEF Crash, SessionTable
  <2>2. CASE UNCHANGED <<key, s_ts_set, s_ts_uselst>>
    BY <1>2, <2>2 DEF SessionTable
  <2>3. ASSUME NEW s \in Socket, NEW a \in Auth, LoginNew(s, a) PROVE SessionTable'
    <3>1. PICK ts \in TS \ s_ts_uselst :
            /\ key' = [key EXCEPT ![ts] = time33[a]]
            /\ s_ts_set' = [s_ts_set EXCEPT ![time33[a]] = ts]
            /\ s_ts_uselst' = s_ts_uselst \cup {ts}
      BY <2>3 DEF LoginNew, s_ts_cachelst
    <3>2. time33[a] \in Key /\ s_ts_set[time33[a]] = NULL
      BY <2>3 DEF LoginNew, find_ts_by_auth
    <3>. QED BY <1>2, <3>1, <3>2 DEF TypeOK, SessionTable
  <2>4. ASSUME NEW s \in Socket, NEW a \in Auth, Logout(s, a) PROVE SessionTable'
    <3>. DEFINE ts == find_ts_by_auth(a)
    <3>1. /\ ts \in s_ts_uselst /\ ts \in TS /\ key[ts] = time33[a]
          /\ s_ts_uselst' = s_ts_uselst \ {ts}
          /\ s_ts_set' = [s_ts_set EXCEPT ![time33[a]] = NULL]
          /\ key' = key
      BY <1>2, <2>4 DEF Logout, find_ts_by_auth, SessionTable, TypeOK
    <3>. HIDE DEF ts
    <3>2. \A k \in Key : s_ts_set[k] = ts => k = time33[a]
      BY <1>2, <3>1 DEF SessionTable
    <3>. QED BY <1>2, <3>1, <3>2 DEF TypeOK, SessionTable
  <2>5. ASSUME NEW s \in Socket, Request(s), ~Crash,
               ~ \E a \in Auth : LoginNew(s, a) \/ Logout(s, a)
        PROVE  UNCHANGED <<key, s_ts_set, s_ts_uselst>>
    BY <2>5 DEF Request, Heartbeat, Unsupported, ArgMissing, Illegal, BadInterface,
                LoginKnown, LoginFull, LogoutRefused, TalkToRefused, TalkTo,
                GetLinkInfo, Answer, tsVars
  <2>6. ASSUME NEW s \in Socket, ~Crash, \/ Accept(s) \/ RecvClose(s) \/ Send(s)
                                         \/ SendClose(s) \/ Timeout(s) \/ Expire(s)
        PROVE  UNCHANGED <<key, s_ts_set, s_ts_uselst>>
    BY <2>6 DEF Accept, RecvClose, Send, SendClose, Timeout, Expire, CloseConn, tsVars
  <2>7. ASSUME PostDone \/ NextPass \/ Restart \/ UNCHANGED vars
        PROVE  UNCHANGED <<key, s_ts_set, s_ts_uselst>>
    BY <2>7 DEF PostDone, NextPass, Restart, vars, tsVars
  <2>. QED BY <1>2, <2>1, <2>2, <2>3, <2>4, <2>5, <2>6, <2>7 DEF Next
<1>. QED BY <1>1, <1>2, TypeCorrect, PTL DEF Spec
=============================================================================
