----------------------------- MODULE MCPartyVoting -----------------------------
(* PartyVoting on small instances.                                         *)
EXTENDS PartyVoting, TLC

\* Used by the safety runs only: apart from the host the users are alike, and
\* neither restaurants nor API slots are told apart.
MCSymmetry ==
    Permutations(Users \ {Host}) \cup Permutations(Deck) \cup Permutations(Slots \ {Worker})
================================================================================
