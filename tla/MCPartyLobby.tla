------------------------------ MODULE MCPartyLobby ------------------------------
(* Instances of PartyLobby for TLC. *)
EXTENDS PartyLobby, TLC

\* Users, sessions, handlers and notification ids have no order and no roles.
MCSymmetry == Permutations(Users) \cup Permutations(Sessions)
                \cup Permutations(Slots) \cup Permutations(InviteIds)
================================================================================
