---------------------------- MODULE MCLoginSessions ----------------------------
(* LoginSessions on small instances.                                       *)
EXTENDS LoginSessions, TLC

MCSymmetry == Permutations(Families) \cup Permutations(Slots)
================================================================================
