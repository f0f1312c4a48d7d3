------------------------------ MODULE WorkerLoop ------------------------------
(***************************************************************************)
(* The event loop of a lone worker: epoll events put sockets on the post   *)
(* list; process_post_list walks the list and calls the handlers, which    *)
(* accept, read, serve, write and close; then the sockets with nothing     *)
(* left to do go back to the watch list, and the expired timers close      *)
(* their connections.  What a request says is reduced to what it does to   *)
(* this machinery.                                                         *)
(***************************************************************************)
EXTENDS Integers, Sequences, FiniteSets, SequencesExt, FiniteSetsExt

CONSTANTS
  Conn,        \* the sockets of connections; there are max_connections, at least 1
  Listener,    \* the listening socket
  End,         \* the head of a list, where walks end
  Keepalive,   \* in units of lts_current_time
  MaxBacklog   \* bound: clients waiting to be accepted

ASSUME LoopAssumption ==
  /\ IsFiniteSet(Conn) /\ Conn # {}
  /\ Listener \notin Conn /\ End \notin Conn \cup {Listener}
  /\ Keepalive \in Nat \ {0} /\ MaxBacklog \in Nat

Sock == Conn \cup {Listener}

VARIABLES
  pc,         \* "events", "walk" (before a visit), "write" (within one), "clean",
              \* "timers", or how the worker died: "crashed" (lts_send
              \* follows NULL) or "asserted" (lts_timer_del fails)
  backlog,    \* number of clients that wait to be accepted
  open,       \* connections with conn # NULL; the others are on lts_sock_list
  post,       \* lts_post_list; the sockets not on it are on lts_watch_list
  pos, next,  \* the walk's position and its saved successor
  readable, writable,
  armed,      \* connections with EPOLLOUT in ev_mask
  edges,      \* pairs <<socket, event>> that epoll will report
  in,         \* per connection: "none", "unread" (a request in the socket),
              \* "read" (a request in rbuf) or "fin"
  out,        \* connections with something in sbuf
  heap,       \* connections whose timer node is in lts_timer_heap
  key,        \* key of each timer node, relative to lts_current_time
  passes      \* history: walks begun since a socket on the post list was put
              \* there or visited

vars == <<pc, backlog, open, post, pos, next, readable, writable, armed, edges,
          in, out, heap, key, passes>>

-----------------------------------------------------------------------------
(* Timers: a map from keys to nodes that refuses a second node with a key   *)

\* Key 0 of the program: far in the past.
Epoch == -(2 * Keepalive + 3 * Cardinality(Conn))

Taken(c) == {key[d] : d \in heap \ {c}}

\* Mutant: a key that is taken is not tried again.
FreeKeyOnce(c, k) == k

\* lts_timer_reset, tried with ever larger keys until it succeeds
FreeKey(c, k) == Min({k + i : i \in 0 .. Cardinality(Conn)} \ Taken(c))

TimerReset(c, k) ==
  LET f == FreeKey(c, k) IN
  /\ key' = [key EXCEPT ![c] = f]
  /\ heap' = IF f \in Taken(c) THEN heap \ {c} ELSE heap \cup {c}

\* lts_timer_del fails when another node has the key.
TimerDelFails(c) == c \notin heap /\ key[c] \in Taken(c)

-----------------------------------------------------------------------------
(* Lists                                                                    *)

OnPost == ToSet(post)

\* Where s is on the list; it is there once.
Index(list, s) == CHOOSE i \in DOMAIN list : list[i] = s

\* dlist_del, when the list may be the one that s is on
Unlinked(list, s) ==
  IF s \in ToSet(list) THEN RemoveAt(list, Index(list, s)) ELSE list

\* lts_post_list_add takes the socket off the list it is on, too.
PostAdd(s) ==
  /\ post' = Append(Unlinked(post, s), s)
  /\ passes' = [passes EXCEPT ![s] = 0]

Successor(list, s) ==
  IF s \in ToSet(list) /\ Index(list, s) < Len(list)
  THEN list[Index(list, s) + 1] ELSE End

First(list) == IF list = <<>> THEN End ELSE Head(list)

-----------------------------------------------------------------------------
(* The environment, while the worker waits in epoll_wait.  What arrives     *)
(* during a pass is reported by the next call, as if it had arrived then.   *)

Connect ==
  /\ pc = "events" /\ backlog < MaxBacklog
  /\ backlog' = backlog + 1
  /\ edges' = edges \cup {<<Listener, "in">>}
  /\ UNCHANGED <<pc, open, post, pos, next, readable, writable, armed, in, out, heap, key, passes>>

\* A request arrives, or the end of the stream.
Arrive(c, what) ==
  /\ pc = "events" /\ c \in open /\ in[c] = "none"
  /\ in' = [in EXCEPT ![c] = what]
  /\ edges' = edges \cup {<<c, "in">>}
  /\ UNCHANGED <<pc, backlog, open, post, pos, next, readable, writable, armed, out, heap, key, passes>>

-----------------------------------------------------------------------------
(* epoll_process_events                                                     *)

\* Mutant: an event of a socket that is on the post list is left out.
TakeEventOnce(s, e) ==
  /\ pc = "events" /\ <<s, e>> \in edges
  /\ edges' = edges \ {<<s, e>>}
  /\ readable' = IF e = "in" /\ s \notin OnPost THEN readable \cup {s} ELSE readable
  /\ writable' = IF e = "out" /\ s \notin OnPost THEN writable \cup {s} ELSE writable
  /\ PostAdd(s)
  /\ UNCHANGED <<pc, backlog, open, pos, next, armed, in, out, heap, key>>

\* One event of the array, whose order is any.
TakeEvent(s, e) ==
  /\ pc = "events" /\ <<s, e>> \in edges
  /\ edges' = edges \ {<<s, e>>}
  /\ readable' = IF e = "in" THEN readable \cup {s} ELSE readable
  /\ writable' = IF e = "out" THEN writable \cup {s} ELSE writable
  /\ PostAdd(s)
  /\ UNCHANGED <<pc, backlog, open, pos, next, armed, in, out, heap, key>>

\* The array is done, and time has gone on by d.  Without an event, a socket on
\* the post list or the passing of time, epoll_wait does not return.
EndEvents(d) ==
  /\ pc = "events" /\ edges = {}
  /\ post # <<>> \/ d > 0
  /\ key' = [c \in Conn |-> IF c \in heap THEN key[c] - d ELSE key[c]]
  /\ pc' = "walk"
  /\ pos' = First(post)
  /\ next' = Successor(post, First(post))
  /\ passes' = [s \in Sock |-> IF s \in OnPost THEN passes[s] + 1 ELSE 0]
  /\ UNCHANGED <<backlog, open, post, readable, writable, armed, edges, in, out, heap>>

-----------------------------------------------------------------------------
(* process_post_list                                                        *)

\* Mutant: the walk follows the socket it has just visited.
AdvanceUnsafe(p) ==
  /\ pos' = Successor(p, pos)
  /\ next' = Successor(p, Successor(p, pos))

\* The walk goes on from a visit of pos that leaves the list as p: to the saved
\* successor, whose own successor is looked up now.
Advance(p) ==
  /\ pos' = next
  /\ next' = Successor(p, next)

Visiting(s) == pc = "walk" /\ pos = s /\ s \in Sock

\* lts_close_conn takes the connection from everything that knows it.  Flags of
\* free sockets are never looked at: lts_alloc_socket resets them.
CloseConn(c) ==
  /\ open' = open \ {c}
  /\ post' = Unlinked(post, c)
  /\ readable' = readable \ {c} /\ writable' = writable \ {c}
  /\ armed' = armed \ {c}
  /\ edges' = {e \in edges : e[1] # c}
  /\ in' = [in EXCEPT ![c] = "none"]
  /\ out' = out \ {c}
  /\ heap' = heap \ {c}
  /\ passes' = [passes EXCEPT ![c] = 0]

\* lts_accept
AcceptNone ==
  /\ Visiting(Listener)
  /\ Listener \in readable
  /\ open = Conn \/ backlog = 0
  /\ readable' = readable \ {Listener}
  /\ passes' = [passes EXCEPT ![Listener] = 0]
  /\ Advance(post)
  /\ UNCHANGED <<pc, backlog, open, post, writable, armed, edges, in, out, heap, key>>

\* Mutant: the listener is dropped after one connection.
AcceptOnce(c) ==
  /\ Visiting(Listener)
  /\ Listener \in readable
  /\ c \notin open /\ backlog > 0
  /\ open' = open \cup {c}
  /\ backlog' = backlog - 1
  /\ TimerReset(c, Keepalive)
  /\ readable' = readable \ {Listener}
  /\ passes' = [passes EXCEPT ![Listener] = 0]
  /\ Advance(post)
  /\ UNCHANGED <<pc, post, writable, armed, edges, in, out>>

\* One connection is accepted; the listener stays on the list.
Accept(c) ==
  /\ Visiting(Listener)
  /\ Listener \in readable
  /\ c \notin open /\ backlog > 0
  /\ open' = open \cup {c}
  /\ backlog' = backlog - 1
  /\ TimerReset(c, Keepalive)
  /\ passes' = [passes EXCEPT ![Listener] = 0]
  /\ Advance(post)
  /\ UNCHANGED <<pc, post, readable, writable, armed, edges, in, out>>

\* lts_recv finds data; the socket stays readable.  The write half of the visit
\* is a step of its own, see Write.
Recv(c) ==
  /\ Visiting(c) /\ c \in readable /\ in[c] = "unread"
  /\ in' = [in EXCEPT ![c] = "read"]
  /\ pc' = "write"
  /\ UNCHANGED <<backlog, open, post, pos, next, readable, writable, armed, edges, out, heap, key, passes>>

\* lts_recv finds nothing more and the application serves the request; a reply
\* needs EPOLLOUT.
Served(c, replies) ==
  /\ Visiting(c) /\ c \in readable /\ in[c] = "read"
  /\ in' = [in EXCEPT ![c] = "none"]
  /\ readable' = readable \ {c}
  /\ armed' = IF c \in replies THEN armed \cup {c} ELSE armed
  /\ edges' = IF c \in replies \ armed THEN edges \cup {<<c, "out">>} ELSE edges
  /\ out' = out \cup replies
  /\ pc' = "write"
  /\ UNCHANGED <<backlog, open, pos, next>>

\* A request that concerns nobody else
ServeReply(c) ==
  /\ Served(c, {c})
  /\ UNCHANGED <<post, writable, heap, key, passes>>

\* talkto: lts_soft_event posts the peer, which may be c itself.
ServeTalk(c, d) ==
  /\ d \in open
  /\ Served(c, {c, d})
  /\ writable' = writable \cup {d}
  /\ PostAdd(d)
  /\ UNCHANGED <<heap, key>>

\* Mutant: the kicked connection is closed at once.
ServeDoomAtOnce(c, d) ==
  /\ d \in open
  /\ Visiting(c) /\ c \in readable /\ in[c] = "read"
  /\ CloseConn(d)
  /\ pc' = "write"
  /\ UNCHANGED <<backlog, pos, next, key>>

\* An illegal request or a logout dooms c, a login the old connection d.
ServeDoom(c, d) ==
  /\ d \in open
  /\ Served(c, {c}) \/ (c = d /\ Served(c, {}))
  /\ TimerReset(d, Epoch)
  /\ UNCHANGED <<post, writable, passes>>

\* lts_recv finds the end of the stream.  lts_send then uses the NULL conn when
\* the socket is writable.
RecvFin(c) ==
  /\ Visiting(c) /\ c \in readable /\ in[c] = "fin"
  /\ CloseConn(c)
  /\ Advance(Unlinked(post, c))
  /\ pc' = IF TimerDelFails(c) THEN "asserted"
           ELSE IF c \in writable THEN "crashed" ELSE "walk"
  /\ UNCHANGED <<backlog, key>>

\* A visit without a read half
NoRead(s) ==
  /\ Visiting(s) /\ s \notin readable
  /\ pc' = "write"
  /\ UNCHANGED <<backlog, open, post, pos, next, readable, writable, armed, edges, in, out, heap, key, passes>>

\* The write half does nothing: the socket is not writable, or lts_send gets
\* EAGAIN, or sends a part.
Write ==
  /\ pc = "write"
  /\ pc' = "walk"
  /\ pos \notin writable \/ pos \in out
  /\ passes' = [passes EXCEPT ![pos] = 0]
  /\ Advance(post)
  /\ UNCHANGED <<backlog, open, post, readable, writable, armed, edges, in, out, heap, key>>

\* There is nothing to send, or lts_send sends everything and stops watching.
WriteAll ==
  /\ pc = "write" /\ pos \in writable
  /\ pc' = "walk"
  /\ writable' = writable \ {pos}
  /\ out' = out \ {pos}
  /\ armed' = IF pos \in out THEN armed \ {pos} ELSE armed
  /\ edges' = IF pos \in out THEN edges \ {<<pos, "out">>} ELSE edges
  /\ passes' = [passes EXCEPT ![pos] = 0]
  /\ Advance(post)
  /\ UNCHANGED <<backlog, open, post, readable, in, heap, key>>

\* send() fails and the connection is reset.
WriteFails ==
  /\ pc = "write" /\ pos \in writable /\ pos \in out
  /\ pc' = IF TimerDelFails(pos) THEN "asserted" ELSE "walk"
  /\ CloseConn(pos)
  /\ Advance(Unlinked(post, pos))
  /\ UNCHANGED <<backlog, key>>

\* Mutant: a socket that has only something to write leaves the list.
BusyReading(s) == s \in readable

Busy(s) == s \in readable \cup writable

\* The end of the walk; a second one begins.
WalkDone ==
  /\ pc = "walk" /\ pos = End
  /\ pc' = "clean"
  /\ pos' = First(post)
  /\ next' = Successor(post, First(post))
  /\ UNCHANGED <<backlog, open, post, readable, writable, armed, edges, in, out, heap, key, passes>>

\* A socket with nothing to do leaves the post list.
Clean ==
  /\ pc = "clean" /\ pos \in Sock
  /\ post' = IF Busy(pos) THEN post ELSE Unlinked(post, pos)
  /\ Advance(post')
  /\ UNCHANGED <<pc, backlog, open, readable, writable, armed, edges, in, out, heap, key, passes>>

CleanDone ==
  /\ pc = "clean" /\ pos = End
  /\ pc' = "timers"
  /\ UNCHANGED <<backlog, open, post, pos, next, readable, writable, armed, edges, in, out, heap, key, passes>>

-----------------------------------------------------------------------------
(* Expired timers                                                           *)

Expired == {c \in heap : key[c] <= 0}

\* The node is deleted before lts_timeout closes the connection, and
\* lts_close_conn deletes it again.
Expire(c) ==
  /\ pc = "timers" /\ c \in Expired
  /\ \A d \in heap : key[c] <= key[d]
  /\ CloseConn(c)
  /\ pc' = IF \E d \in heap \ {c} : key[d] = key[c] THEN "asserted" ELSE "timers"
  /\ UNCHANGED <<backlog, pos, next, key>>

NextPass ==
  /\ pc = "timers" /\ Expired = {}
  /\ pc' = "events"
  /\ UNCHANGED <<backlog, open, post, pos, next, readable, writable, armed, edges, in, out, heap, key, passes>>

-----------------------------------------------------------------------------

Init ==
  /\ pc = "events" /\ backlog = 0
  /\ open = {} /\ post = <<>> /\ pos = End /\ next = End
  /\ readable = {} /\ writable = {} /\ armed = {} /\ edges = {}
  /\ in = [c \in Conn |-> "none"] /\ out = {}
  /\ heap = {} /\ key = [c \in Conn |-> Epoch]
  /\ passes = [s \in Sock |-> 0]

Env == Connect \/ \E c \in Conn : \E what \in {"unread", "fin"} : Arrive(c, what)

Serve ==
  \E c \in Conn :
    \/ Recv(c) \/ RecvFin(c) \/ ServeReply(c)
    \/ \E d \in Conn : ServeTalk(c, d) \/ ServeDoom(c, d)

Worker ==
  \/ \E s \in Sock : \E e \in {"in", "out"} : TakeEvent(s, e)
  \/ \E d \in 0 .. Keepalive : EndEvents(d)
  \/ AcceptNone \/ \E c \in Conn : Accept(c)
  \/ Serve \/ (\E s \in Sock : NoRead(s)) \/ Write \/ WriteAll \/ WriteFails
  \/ WalkDone \/ Clean \/ CleanDone
  \/ (\E c \in Conn : Expire(c)) \/ NextPass

Next == Env \/ Worker

Spec == Init /\ [][Next]_vars
FairSpec == Spec /\ WF_vars(Worker)

-----------------------------------------------------------------------------
(* Properties                                                               *)

TypeOK ==
  /\ pc \in {"events", "walk", "write", "clean", "timers", "crashed", "asserted"}
  /\ backlog \in 0 .. MaxBacklog
  /\ pos \in Sock \cup {End} /\ next \in Sock \cup {End}
  /\ \A set \in {open, armed, out, heap} : set \subseteq Conn
  /\ readable \subseteq Sock /\ writable \subseteq Conn
  /\ edges \subseteq Sock \X {"in", "out"}
  /\ in \in [Conn -> {"none", "unread", "read", "fin"}]

\* The post list holds each socket once, and only listeners and open connections;
\* and whatever the handlers post, doom or close, the saved successor of a walk
\* is still on the post list when the walk gets there.  (The variables keep their
\* types throughout.)
WalkOnTrack ==
  /\ TypeOK
  /\ \A i, j \in DOMAIN post : post[i] = post[j] => i = j
  /\ OnPost \subseteq open \cup {Listener}
  /\ pc \in {"walk", "write", "clean"} => next \in OnPost \cup {End}

\* A socket with something to do is on the post list: no event and no soft event
\* is forgotten when the walk passes the socket over or the list is cleaned.
NoLostEvent == readable \cup writable \subseteq OnPost

\* Every open connection has its timer, although the heap refuses equal keys; no
\* closed one has; and the assertions on lts_timer_del hold.
TimersKept ==
  /\ heap = open
  /\ \A c, d \in heap : key[c] = key[d] => c = d
  /\ pc # "asserted"

\* A soft event for the saved successor makes the walk pass over the sockets in
\* between.  Each time the successor falls behind them for good: with n sockets a
\* socket on the post list is passed over at most n - 2 times.
BoundedBypass == \A s \in Sock : passes[s] < Cardinality(Sock)

\* What arrives on a connection is taken up, or the connection is closed.
InputTaken ==
  \A c \in Conn :
    in[c] \in {"unread", "fin"} ~> (in[c] \notin {"unread", "fin"} \/ pc = "crashed")

\* While the limit is not reached, clients that wait are accepted again and again.
WaitingAccepted ==
  [](open # Conn) => \/ []<>(backlog = 0) \/ <>(pc = "crashed")
                     \/ []<><<backlog' < backlog>>_vars
=============================================================================
