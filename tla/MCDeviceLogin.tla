----------------------------- MODULE MCDeviceLogin -----------------------------
(* DeviceLogin on small instances.                                         *)
EXTENDS DeviceLogin, TLC

MCSymmetry == Permutations(Families) \cup Permutations(Slots) \cup Permutations(Calls)
================================================================================
