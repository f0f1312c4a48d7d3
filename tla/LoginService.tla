----------------------------- MODULE LoginService -----------------------------
(***************************************************************************)
(* What the session table promises its clients, without passes, timers or  *)
(* pointers: who is logged in, and over which connection.                  *)
(*                                                                         *)
(* owner[k] is the connection of user k, Offline while the user's session  *)
(* waits for him to come back, or Out when he is not logged in.            *)
(***************************************************************************)
CONSTANTS Conn, User,
          Out, Offline    \* distinct, and no connections

VARIABLES up, owner

lvars == <<up, owner>>

Init == up = {} /\ owner = [k \in User |-> Out]

Connect(c) == c \notin up /\ up' = up \cup {c} /\ UNCHANGED owner

\* The newest login of a user wins; a connection serves one user.
Login(c, k) ==
  /\ c \in up
  /\ \A j \in User : owner[j] = c => j = k
  /\ owner' = [owner EXCEPT ![k] = c]
  /\ UNCHANGED up

\* Only the connection that holds the session may end it.
Logout(c, k) ==
  /\ c \in up /\ owner[k] = c
  /\ owner' = [owner EXCEPT ![k] = Out]
  /\ UNCHANGED up

\* The session of a lost connection is kept, and no longer points at it.
Disconnect(c) ==
  /\ c \in up
  /\ up' = up \ {c}
  /\ owner' = [k \in User |-> IF owner[k] = c THEN Offline ELSE owner[k]]

\* The worker is replaced: sessions live in its memory only.
Reset == up' = {} /\ owner' = [k \in User |-> Out]

Next ==
  \/ \E c \in Conn :
       \/ Connect(c) \/ Disconnect(c)
       \/ \E k \in User : Login(c, k) \/ Logout(c, k)
  \/ Reset

Spec == Init /\ [][Next]_lvars
=============================================================================
