------------------------------ MODULE AtomicVoting ------------------------------
(***************************************************************************)
(* What a running party session promises, with every request one atomic    *)
(* step: a ballot is cast at most once, the like that completes unanimity  *)
(* closes the session there and then, any other close decides by the       *)
(* ballots as they stand, and the outcome never changes.  A participant    *)
(* who deletes the account takes the ballot along.                         *)
(*                                                                         *)
(* PartyVoting, where the same requests are interleaved READ COMMITTED     *)
(* transactions, is shown to implement it.  The one promise the code does  *)
(* not keep once somebody has left is guarded by "roster = Users": a       *)
(* departure is not followed by a new tally, so it may leave behind a      *)
(* unanimity nobody acts on, or a tally taken just before it.              *)
(***************************************************************************)
EXTENDS BallotRules

CONSTANT NoResult

VARIABLES
    ballots,        \* the ballot sheet
    roster,         \* participants who still have an account
    outcome         \* the result of the session, or NoResult while it runs

vars == <<ballots, roster, outcome>>

Init ==
    /\ ballots = [u \in Users |-> BlankBallot]
    /\ roster = Users
    /\ outcome = NoResult

EveryoneLikes(sheet, r) == \A u \in roster : sheet[u][r] = "like"

\* A swipe.  With everybody present, the like that makes a restaurant
\* unanimous cannot be recorded without ending the session on it.
Cast(u, r, mark) ==
    /\ outcome = NoResult
    /\ u \in roster
    /\ ballots[u][r] = "none"
    /\ ballots' = [ballots EXCEPT ![u][r] = mark]
    /\ \/ /\ mark = "like" /\ EveryoneLikes(ballots', r)
          /\ outcome' = [kind |-> "unanimous", winner |-> r]
       \/ /\ (mark = "like" /\ roster = Users) => ~ EveryoneLikes(ballots', r)
          /\ UNCHANGED outcome
    /\ UNCHANGED roster

\* The timer, or the last participant to finish the deck.
Close ==
    /\ outcome = NoResult
    /\ outcome' \in Results
    /\ outcome'.kind # "unanimous"
    /\ roster = Users => Fits(outcome', ballots)
    /\ UNCHANGED <<ballots, roster>>

Leave(u) ==
    /\ u \in roster
    /\ roster' = roster \ {u}
    /\ ballots' = [ballots EXCEPT ![u] = BlankBallot]
    /\ UNCHANGED outcome

Next ==
    \/ \E u \in Users, r \in Deck, mark \in {"skip", "like"} : Cast(u, r, mark)
    \/ Close
    \/ \E u \in Users : Leave(u)

Spec == Init /\ [][Next]_vars
================================================================================
