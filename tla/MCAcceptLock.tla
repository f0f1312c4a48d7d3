--------------------------- MODULE MCAcceptLock ---------------------------
(* A small instance of AcceptLock: workers with a limit that clients reach. *)
EXTENDS AcceptLock

CONSTANTS w1, w2
===========================================================================
