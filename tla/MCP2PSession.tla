--------------------------- MODULE MCP2PSession ---------------------------
(* Small instances of P2PSession.                                          *)
EXTENDS P2PSession, TLC

CONSTANTS s1, s2, s3, t1, t2, a, b

\* Distinct auth strings with distinct hashes.
MCtime33 == [x \in Auth |-> x]

\* Sockets are interchangeable, and so are session objects and users: the
\* model only compares them, and MCtime33 commutes with any renaming.
Symm == Permutations(Socket) \cup Permutations(TS) \cup Permutations(Auth)
============================================================================
