---------------------------- MODULE MCNatProbe ----------------------------
(* Two users: one behind a port restricted cone, one behind a symmetric NAT. *)
EXTENDS NatProbe

CONSTANTS cone, symm

MCMasterPort == [u \in User |-> 1]
MCVicePort == [u \in User |-> IF u = cone THEN 1 ELSE 2]
MCRestricted == [u \in User |-> u = cone]
============================================================================
