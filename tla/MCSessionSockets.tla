---------------------------- MODULE MCSessionSockets ----------------------------
(* SessionSockets on small instances: one user who connects several times.      *)
EXTENDS SessionSockets

MCOwner == [s \in Sockets |-> "a"]
================================================================================
