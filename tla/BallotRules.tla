------------------------------ MODULE BallotRules ------------------------------
(***************************************************************************)
(* How the ballots of one party session decide a restaurant: the pure part *)
(* of backend/app/services/match_service.py and vote_service.py.           *)
(*                                                                         *)
(* A ballot sheet is a function from users to a function from the deck to  *)
(* "none" (not swiped), "skip" (swiped left) or "like" (swiped right).     *)
(***************************************************************************)
EXTENDS Naturals, FiniteSets

CONSTANTS
    Users,          \* accounts that took part when the host started the session
    Deck            \* restaurants frozen in session_deck by start_session

(* start_session answers 404 instead of starting with an empty deck, and   *)
(* the host is always a participant.                                       *)
ASSUME SessionAssumption ==
    /\ IsFiniteSet(Users) /\ Users # {}
    /\ IsFiniteSet(Deck) /\ Deck # {}

Marks == {"none", "skip", "like"}

Ballots == [Users -> [Deck -> Marks]]

BlankBallot == [r \in Deck |-> "none"]

\* ResolutionType of models/match_result.py.
Kinds == {"unanimous", "majority", "tie", "no_match"}

\* A persisted MatchResult row, and the same outcome as a client is told it:
\* with the restaurants to draw on the wheel.
Results  == [kind : Kinds, winner : Deck]
Outcomes == [kind : Kinds, winner : Deck, wheel : SUBSET Deck]

Persisted(o) == [kind |-> o.kind, winner |-> o.winner]

Likers(sheet, r) == {u \in Users : sheet[u][r] = "like"}

Swiped(sheet, u) == {r \in Deck : sheet[u][r] # "none"}

\* _like_counts groups the like rows by restaurant, so a restaurant nobody
\* liked has no count and is never a leader.
Leaders(sheet) ==
    {r \in Deck :
        /\ Likers(sheet, r) # {}
        /\ \A q \in Deck : Cardinality(Likers(sheet, q)) <= Cardinality(Likers(sheet, r))}

Majority(r)   == [kind |-> "majority", winner |-> r, wheel |-> {}]
Tie(r, tied)  == [kind |-> "tie", winner |-> r, wheel |-> tied]
NoMatch(r)    == [kind |-> "no_match", winner |-> r, wheel |-> Deck]
Unanimous(r)  == [kind |-> "unanimous", winner |-> r, wheel |-> {}]

\* resolve_session: a single leader wins, a tie goes to a wheel of the tied
\* restaurants, no likes at all put the whole deck on the wheel.
Decisions(sheet) ==
    LET leaders == Leaders(sheet) IN
    IF leaders = {}                  THEN {NoMatch(r) : r \in Deck}
    ELSE IF Cardinality(leaders) = 1 THEN {Majority(r) : r \in leaders}
    ELSE                                  {Tie(r, leaders) : r \in leaders}

\* MUTANT of Recovered: the wheel of a tie is not rebuilt.
RecoveredWithoutTie(res, sheet) ==
    [kind |-> res.kind, winner |-> res.winner,
     wheel |-> IF res.kind = "no_match" /\ sheet \in Ballots THEN Deck ELSE {}]

\* get_resolution: the stored winner, and the wheel computed again from the
\* deck or from the like rows that exist now.
Recovered(res, sheet) ==
    [kind |-> res.kind, winner |-> res.winner,
     wheel |-> IF res.kind = "no_match" THEN Deck
               ELSE IF res.kind = "tie" THEN Leaders(sheet)
               ELSE {}]

\* What the ballots say about a stored result, whoever computed it and when.
Fits(res, sheet) ==
    IF res.kind = "unanimous"
    THEN \A u \in Users : sheet[u][res.winner] = "like"
    ELSE \E o \in Decisions(sheet) : Persisted(o) = res
================================================================================
