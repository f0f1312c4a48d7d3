-------------------------------- MODULE Stream --------------------------------
(***************************************************************************)
(* One connection as a stream of bytes: the client's requests, cut into    *)
(* pieces by the network, the receive buffer, the frames that the decoder  *)
(* finds in it, the replies and pushes encoded into the send buffer, and   *)
(* the pieces in which they leave.                                         *)
(*                                                                         *)
(* A frame is a magic number, the rest of the header, an extension area    *)
(* and the content.  A byte is <<f, k>>, the k-th of frame f, and stands   *)
(* for four of the program's; <<f, 1>> is the magic number.                *)
(***************************************************************************)
EXTENDS Buffer, FiniteSetsExt

CONSTANTS
  Kinds,      \* what clients send; see Shape
  Windows,    \* how many requests a client may have outstanding
  MaxFrames,  \* bounds: requests and pushes
  MaxPush

MAGIC == 1          \* length of the magic number
LEN_HEADER == 2
LEN_MIN_CONTENT == 1
LEN_REPLY == 3

\* content_ofst, content_len, proto_ver is PROTO_VER, and the content is JSON
Shape ==
  [plain   |-> [ofst |-> 2, len |-> 1, ver |-> TRUE,  json |-> TRUE],
   ext     |-> [ofst |-> 3, len |-> 1, ver |-> TRUE,  json |-> TRUE],
   old     |-> [ofst |-> 2, len |-> 1, ver |-> FALSE, json |-> TRUE],
   garbled |-> [ofst |-> 2, len |-> 1, ver |-> TRUE,  json |-> FALSE],
   long    |-> [ofst |-> 2, len |-> Cap - 2, ver |-> TRUE, json |-> TRUE]]

ASSUME StreamAssumption ==
  /\ Cap >= LEN_HEADER + LEN_MIN_CONTENT
  /\ Kinds \subseteq DOMAIN Shape
  /\ Windows \subseteq Nat
  /\ MaxFrames \in Nat /\ MaxPush \in Nat

VARIABLES
  window,    \* the client's, chosen once
  kinds,     \* kinds of the requests sent so far
  outbox,    \* bytes the client has sent and the network has not delivered
  wire,      \* bytes in the socket's receive queue
  readable,
  rbuf, sbuf,
  conn,      \* "open", "doomed" (its timer is due), "closed", "scrambled"
             \* (a buffer lost bytes; the model ends there) or "aborted"
  served,    \* history: the requests served
  queued,    \* history: the bytes of all replies and pushes put into sbuf
  pushes,    \* number of pushes
  sent       \* history: the bytes sent

vars == <<window, kinds, outbox, wire, readable, rbuf, sbuf, conn,
          served, queued, pushes, sent>>

-----------------------------------------------------------------------------
(* The frame decoder                                                        *)

Shaped(f) == Shape[kinds[f]]
FrameLen(s) == s.ofst + s.len
Frame(f, len) == [k \in 1 .. len |-> <<f, k>>]

Skip(b, n) == [b EXCEPT !.seek = @ + n]

\* Mutant: an invalid header ends the search, too.
StopsAtAny(p) == {i \in 0 .. Len(p) - 1 : p[i + 1][2] = 1}

\* The offsets from seek at which the search for a header can stop: those of a
\* magic number with a valid header or with too little behind it
Stops(p) ==
  {i \in 0 .. Len(p) - 1 :
     p[i + 1][2] = 1
       /\ (Len(p) - i < LEN_HEADER + LEN_MIN_CONTENT \/ Shaped(p[i + 1][1]).ver)}

\* The loop that looks for a valid header: what lies before it is skipped, the
\* magic numbers of invalid headers too, and nothing remains if there is none.
FindHeader(b) ==
  LET stops == Stops(Pending(b))
      c == Skip(b, Min(stops))
  IN IF stops = {} THEN [found |-> FALSE, buf |-> Cleared]
     ELSE [found |-> Len(c.bytes) - c.seek >= LEN_HEADER + LEN_MIN_CONTENT, buf |-> c]

NoRequest(b) == [request |-> 0, buf |-> b]

\* Mutant: a request stays in the buffer.
DecodeKeeps(b) ==
  LET h == FindHeader(b)
      f == Head(Pending(h.buf))[1]
  IN IF ~h.found THEN NoRequest(h.buf)
     ELSE IF Len(Pending(h.buf)) < FrameLen(Shaped(f)) THEN NoRequest(h.buf)
     ELSE IF ~Shaped(f).json THEN NoRequest(Skip(h.buf, MAGIC))
     ELSE [request |-> f, buf |-> h.buf]

\* request 0 stands for NULL.  A request with an extension area leaves as many
\* bytes of its end in the buffer.
lts_proto_sjsonb_decode(b) ==
  LET h == FindHeader(b)
      f == Head(Pending(h.buf))[1]
  IN IF ~h.found THEN NoRequest(h.buf)
     ELSE IF Len(Pending(h.buf)) < FrameLen(Shaped(f)) THEN NoRequest(h.buf)
     ELSE IF ~Shaped(f).json THEN NoRequest(Skip(h.buf, MAGIC))
     ELSE [request |-> f, buf |-> Skip(h.buf, LEN_HEADER + Shaped(f).len)]

-----------------------------------------------------------------------------
(* The frame encoder                                                        *)

\* The send buffer after room was made for a frame
MakeRoom(b) == IF Space(b) < LEN_REPLY THEN lts_buffer_drop_accessed(b) ELSE b

\* lts_proto_sjsonb_encode: a frame that finds no room is dropped.
lts_proto_sjsonb_encode(frame) ==
  LET b == MakeRoom(sbuf)
      fits == Space(b) >= Len(frame)
  IN /\ sbuf' = IF fits THEN lts_buffer_append(b, frame) ELSE b
     /\ queued' = IF fits THEN queued \o frame ELSE queued
     /\ conn' = IF Pending(b) = Pending(sbuf) THEN conn ELSE "scrambled"

-----------------------------------------------------------------------------
(* The client and the network                                               *)

Outstanding == Len(kinds) - Len(served)

ClientSend(kind) ==
  /\ conn = "open"
  /\ Len(kinds) < MaxFrames /\ Outstanding < window
  /\ kinds' = Append(kinds, kind)
  /\ outbox' = outbox \o Frame(Len(kinds) + 1, FrameLen(Shape[kind]))
  /\ UNCHANGED <<window, wire, readable, rbuf, sbuf, conn, served, queued, pushes, sent>>

\* Some bytes arrive, which makes the socket readable again.
Arrive ==
  /\ conn = "open"
  /\ \E n \in 1 .. Len(outbox) :
       /\ wire' = wire \o SubSeq(outbox, 1, n)
       /\ outbox' = SubSeq(outbox, n + 1, Len(outbox))
  /\ readable' = TRUE
  /\ UNCHANGED <<window, kinds, rbuf, sbuf, conn, served, queued, pushes, sent>>

-----------------------------------------------------------------------------
(* The worker                                                               *)

\* Mutant: no room is made.
RecvRoomNone == rbuf

\* The receive buffer when lts_recv has tried to make room
RecvRoom == IF Full(rbuf) THEN lts_buffer_drop_accessed(rbuf) ELSE rbuf

\* lts_recv finds no room: "recv buffer is full", abort().
RecvAborts ==
  /\ readable /\ conn = "open"
  /\ Full(RecvRoom)
  /\ conn' = "aborted"
  /\ UNCHANGED <<window, kinds, outbox, wire, readable, rbuf, sbuf, served, queued, pushes, sent>>

\* Mutant: the socket is taken off the ready ones after one read.
RecvDataOnce ==
  LET n == Min({Space(RecvRoom), Len(wire)}) IN
  /\ readable /\ conn = "open"
  /\ ~Full(RecvRoom) /\ wire # <<>>
  /\ rbuf' = lts_buffer_append(RecvRoom, SubSeq(wire, 1, n))
  /\ wire' = SubSeq(wire, n + 1, Len(wire))
  /\ conn' = IF Pending(RecvRoom) = Pending(rbuf) THEN conn ELSE "scrambled"
  /\ readable' = FALSE
  /\ UNCHANGED <<window, kinds, outbox, sbuf, served, queued, pushes, sent>>

\* lts_recv gets what fits; the socket stays readable.
RecvData ==
  LET n == Min({Space(RecvRoom), Len(wire)}) IN
  /\ readable /\ conn = "open"
  /\ ~Full(RecvRoom) /\ wire # <<>>
  /\ rbuf' = lts_buffer_append(RecvRoom, SubSeq(wire, 1, n))
  /\ wire' = SubSeq(wire, n + 1, Len(wire))
  /\ conn' = IF Pending(RecvRoom) = Pending(rbuf) THEN conn ELSE "scrambled"
  /\ UNCHANGED <<window, kinds, outbox, readable, sbuf, served, queued, pushes, sent>>

\* lts_recv gets EAGAIN: the service looks for one request.  When it finds none
\* the connection is doomed: the worker looks at the timers before it reads again.
Service == \E d \in {lts_proto_sjsonb_decode(RecvRoom)} :
  /\ readable /\ conn = "open"
  /\ ~Full(RecvRoom) /\ wire = <<>>
  /\ readable' = FALSE
  /\ rbuf' = d.buf
  /\ \/ /\ Pending(RecvRoom) # Pending(rbuf)
        /\ conn' = "scrambled"
        /\ UNCHANGED <<served, sbuf, queued>>
     \/ /\ Pending(RecvRoom) = Pending(rbuf) /\ d.request = 0
        /\ conn' = "doomed"
        /\ UNCHANGED <<served, sbuf, queued>>
     \/ /\ Pending(RecvRoom) = Pending(rbuf) /\ d.request # 0
        /\ served' = Append(served, d.request)
        /\ lts_proto_sjsonb_encode(Frame(d.request, LEN_REPLY))
  /\ UNCHANGED <<window, kinds, outbox, wire, pushes, sent>>

\* A request of another client is passed on to this one.
PushTo ==
  /\ conn \in {"open", "doomed"} /\ pushes < MaxPush
  /\ pushes' = pushes + 1
  /\ lts_proto_sjsonb_encode(Frame(MaxFrames + pushes + 1, LEN_REPLY))
  /\ UNCHANGED <<window, kinds, outbox, wire, readable, rbuf, served, sent>>

\* Mutant: the buffer is cleared after every send.
ClearIfSentAlways(b) == Cleared

ClearIfSent(b) == IF b.seek = Len(b.bytes) THEN Cleared ELSE b

\* lts_send: the socket takes some of the pending bytes.
lts_send ==
  /\ conn \in {"open", "doomed"} /\ ~IsEmpty(sbuf)
  /\ \E n \in 1 .. Len(Pending(sbuf)) :
       /\ sent' = sent \o SubSeq(Pending(sbuf), 1, n)
       /\ sbuf' = ClearIfSent(Skip(sbuf, n))
  /\ UNCHANGED <<window, kinds, outbox, wire, readable, rbuf, conn, served, queued, pushes>>

\* The client closes the connection, it is reset, or its timer is due: what is
\* on its way in either direction is lost.
Close ==
  /\ conn \in {"open", "doomed"}
  /\ conn' = "closed"
  /\ outbox' = <<>> /\ wire' = <<>> /\ readable' = FALSE
  /\ rbuf' = Cleared /\ sbuf' = Cleared
  /\ UNCHANGED <<window, kinds, served, queued, pushes, sent>>

Init ==
  /\ window \in Windows
  /\ kinds = <<>> /\ outbox = <<>> /\ wire = <<>>
  /\ readable = FALSE
  /\ rbuf = Cleared /\ sbuf = Cleared
  /\ conn = "open"
  /\ served = <<>> /\ queued = <<>> /\ pushes = 0 /\ sent = <<>>

Next ==
  \/ \E kind \in Kinds : ClientSend(kind)
  \/ Arrive \/ RecvAborts \/ RecvData \/ Service \/ PushTo \/ lts_send \/ Close

Spec == Init /\ [][Next]_vars

\* The network delivers, and the worker visits sockets that are readable or have
\* something to send.  Nobody has to close.
FairSpec == Spec /\ WF_vars(Arrive \/ RecvData \/ Service \/ lts_send)

-----------------------------------------------------------------------------
(* Properties                                                               *)

TypeOK ==
  /\ window \in Windows
  /\ kinds \in Seq(Kinds)
  /\ readable \in BOOLEAN
  /\ \A b \in {rbuf, sbuf} : b.seek <= Len(b.bytes) /\ Len(b.bytes) <= Cap
  /\ conn \in {"open", "doomed", "closed", "scrambled", "aborted"}

Good(f) == Shaped(f).ver /\ Shaped(f).json

\* Requests are served in the order the client sent them, each once and none
\* left out, however the network cuts the stream, whatever invalid frames lie
\* between them, and whatever extension areas leave behind.
ServedInOrder ==
  /\ \A i \in DOMAIN served : served[i] \in DOMAIN kinds /\ Good(served[i])
  /\ \A i, j \in DOMAIN served : i < j => served[i] < served[j]
  /\ \A i \in DOMAIN served : \A f \in 1 .. served[i] :
       Good(f) => \E j \in DOMAIN served : served[j] = f

\* What the client gets is the frames put into the send buffer, one after the
\* other: partial sends and the making of room lose, repeat and mix up nothing,
\* and nothing is written behind the end of a buffer (TypeOK).
StreamIntact ==
  /\ TypeOK
  /\ conn \notin {"scrambled", "closed"} => sent \o Pending(sbuf) = queued

\* The comment at the declaration: lts_buffer_drop_accessed drops the data before
\* seek, and nothing else (violated: see the README).
DropKeepsPending == conn # "scrambled"

\* A client that waits for each answer never makes lts_recv run out of room and
\* abort the worker, when each of its requests fits into the buffer behind what an
\* extension area may have left there.
RecvHasRoom == window = 1 => conn # "aborted"

\* A client that waits for each answer gets one, or its connection is closed.
EachAnswered ==
  (conn = "open" /\ window = 1 /\ Outstanding > 0)
    ~> (conn # "open" \/ Outstanding = 0)
=============================================================================
