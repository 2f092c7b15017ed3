----------------------------- MODULE SessionScreen -----------------------------
(***************************************************************************)
(* The swipe screen of one participant's phone                             *)
(* (frontend/src/screens/session/SessionSwipeScreen.tsx with its hooks)    *)
(* against the atomic voting server of AtomicVoting.                       *)
(*                                                                         *)
(* Requests and answers may be lost, repeated or late; socket events may   *)
(* never come; the app may be killed and opened again.  get_db commits a   *)
(* swipe after it has been answered, so an answered swipe is first in      *)
(* "uncommitted", with the sessions row still locked, and is lost if the   *)
(* process dies there.  Nobody deletes an account in this module.          *)
(***************************************************************************)
EXTENDS BallotRules

CONSTANTS
    Me,             \* the participant who holds this phone
    MaxFaults,      \* bound on killed apps and commits that die after the answer
    NoResult, NoSwipe, NoCard

ASSUME ScreenAssumption ==
    /\ Me \in Users
    /\ NoResult \notin Results /\ NoCard \notin Deck
    /\ NoSwipe \notin [item : Deck, mark : Marks]
    /\ MaxFaults \in Nat

VARIABLES
    ballots, roster, outcome,     \* the server, as in AtomicVoting
    expired,        \* whether ends_at has passed, by the server's clock
    wire,           \* swipe requests the server has not handled yet
    uncommitted,    \* my swipe that is answered and holds the row, or NoSwipe
    lost,           \* restaurants whose answered swipe died before its commit
    deck,           \* the deck query: "loading", "ready" or "failed"
    progress,       \* the progress query: {} while loading, else {restaurants swiped before}
    lobby,          \* session.status as the last poll told it
    fetched,        \* whether the result query has its data
    swipe, reply,   \* the running swipe mutation and the answer it has received
    told,           \* per restaurant, the mark SwipeCard has moved past as saved
    report,         \* the "deck finished" mutation
    hasExpired, matched, hasNavigated,    \* state of the screen
    screen,         \* what the participant looks at
    presented,      \* what has been presented: "nothing", "popup" or "wheel"
    mounted,        \* the component still exists
    faults          \* counts killed apps and lost commits

server   == <<ballots, roster, outcome>>
requests == <<wire, uncommitted, lost>>
queries  == <<deck, progress, lobby, fetched>>
cards    == <<swipe, reply, told>>
ui       == <<hasExpired, matched, hasNavigated, screen, presented>>
client   == <<queries, cards, report, ui, mounted>>

screenVars == <<server, expired, requests, client, faults>>

Server == INSTANCE AtomicVoting

Swipes == [item : Deck, mark : {"skip", "like"}]

NothingTold == [r \in Deck |-> "none"]

ScreenInit ==
    /\ Server!Init
    /\ expired = FALSE
    /\ wire = {} /\ uncommitted = NoSwipe /\ lost = {}
    /\ deck = "loading" /\ progress = {} /\ lobby = "unknown" /\ fetched = FALSE
    /\ swipe = NoSwipe /\ reply = "none" /\ told = NothingTold
    /\ report = "none"
    /\ hasExpired = FALSE /\ matched = NoCard /\ hasNavigated = FALSE
    /\ screen = "swipe" /\ presented = "nothing"
    /\ mounted = TRUE /\ faults = 0

\* The component goes away, and all its state with it.
Vanish ==
    /\ mounted /\ mounted' = FALSE
    /\ deck' = "loading" /\ progress' = {} /\ lobby' = "unknown" /\ fetched' = FALSE
    /\ swipe' = NoSwipe /\ reply' = "none" /\ told' = NothingTold
    /\ report' = "none"
    /\ hasExpired' = FALSE /\ matched' = NoCard /\ hasNavigated' = FALSE
--------------------------------------------------------------------------------
(* The server and the other participants.                                  *)

\* A swipe holds the sessions row until its commit.
RowFree == uncommitted = NoSwipe

Running == outcome = NoResult /\ ~ expired

AllSwiped == \A u \in Users : Swiped(ballots, u) = Deck

\* What events, responses and get_result tell of the stored outcome.
Announced == Recovered(outcome, ballots)

\* The requests still on their way.  Those that come after the end can only be
\* refused and are not kept; SwipeFails is what the phone makes of that.
Keep(onTheWay) == wire' = {m \in onTheWay : outcome' = NoResult /\ ~ expired'}

OtherSwipes(u, r, mark) ==
    /\ u # Me /\ RowFree /\ ~ expired
    /\ Server!Cast(u, r, mark)
    /\ UNCHANGED <<expired, uncommitted, lost, client, faults>>
    /\ Keep(wire)

Expire ==
    /\ Running
    /\ expired' = TRUE
    /\ UNCHANGED server
    /\ Keep(wire)
    /\ UNCHANGED <<uncommitted, lost, client, faults>>

\* The worker, or any participant's result request after the timer.
SettleOverdue ==
    /\ expired /\ RowFree
    /\ Server!Close
    /\ UNCHANGED <<expired, requests, client, faults>>

\* The finish report of another participant.
OtherFinishes ==
    /\ AllSwiped
    /\ Server!Close
    /\ UNCHANGED <<expired, uncommitted, lost, client, faults>>
    /\ Keep(wire)

\* The answer to a swipe reaches the phone that still waits for it, or not.
Answer(m, answer) ==
    reply' \in {reply} \cup {a \in {answer} : swipe = m /\ reply = "none"}

phoneButReply == <<queries, swipe, told, report, ui, mounted>>

Completes(m) ==
    m.mark = "like" /\ \A u \in Users \ {Me} : ballots[u][m.item] = "like"

\* record_swipe of a new vote: answered now, committed later.
RecordSwipe(m) ==
    /\ Running /\ RowFree
    /\ ballots[Me][m.item] = "none" /\ ~ Completes(m)
    /\ uncommitted' = m
    /\ Answer(m, "ok")
    /\ UNCHANGED <<server, expired, lost, phoneButReply, faults>>
    /\ Keep(wire \ {m})

\* The like that completes unanimity is committed before it is answered.
MatchSwipe(m) ==
    /\ Running /\ RowFree
    /\ Completes(m)
    /\ Server!Cast(Me, m.item, m.mark)
    /\ Answer(m, "match")
    /\ UNCHANGED <<expired, uncommitted, lost, phoneButReply, faults>>
    /\ Keep(wire \ {m})

\* uq_vote_once: a second vote for the restaurant is answered as a success.
RepeatSwipe(m) ==
    /\ Running /\ RowFree
    /\ ballots[Me][m.item] # "none"
    /\ Answer(m, "ok")
    /\ UNCHANGED <<server, expired, uncommitted, lost, phoneButReply, faults>>
    /\ Keep(wire \ {m})

HandleSwipe(m) ==
    RecordSwipe(m) \/ MatchSwipe(m) \/ RepeatSwipe(m)

CommitSwipe ==
    /\ ~ RowFree
    /\ Server!Cast(Me, uncommitted.item, uncommitted.mark)
    /\ uncommitted' = NoSwipe
    /\ UNCHANGED <<expired, wire, lost, client, faults>>

LoseCommit ==
    /\ ~ RowFree
    /\ faults < MaxFaults /\ faults' = faults + 1
    /\ lost' = lost \cup {uncommitted.item}
    /\ uncommitted' = NoSwipe
    /\ UNCHANGED <<server, expired, wire, client>>
--------------------------------------------------------------------------------
(* Leaving the screen.                                                     *)

\* MUTANT of Navigate: the guard is not set.
NavigateUnmarked(to) ==
    /\ screen' = to
    /\ presented' = IF to = "wheel" THEN "wheel" ELSE presented
    /\ UNCHANGED hasNavigated

Navigate(to) ==
    /\ hasNavigated' = TRUE
    /\ screen' = to
    /\ presented' = IF to = "wheel" THEN "wheel" ELSE presented

\* MUTANT of GoToResolution: it does not wait for the deck.
GoToResolutionAtOnce(o) ==
    \/ /\ hasNavigated
       /\ UNCHANGED ui
    \/ /\ ~ hasNavigated /\ o.kind = "unanimous" /\ deck = "ready"
       /\ matched' = o.winner
       /\ UNCHANGED <<hasExpired, hasNavigated, screen, presented>>
    \/ /\ ~ hasNavigated /\ (o.kind # "unanimous" \/ deck # "ready")
       /\ Navigate(IF o.wheel # {} THEN "wheel" ELSE "result")
       /\ UNCHANGED <<hasExpired, matched>>

\* A unanimous outcome opens the popup as soon as the deck is there to show
\* its card, any other leaves the screen at once.
GoToResolution(o) ==
    \/ /\ hasNavigated
       /\ UNCHANGED ui
    \/ /\ ~ hasNavigated /\ o.kind = "unanimous" /\ deck # "ready"
       /\ hasExpired' = TRUE
       /\ UNCHANGED <<matched, hasNavigated, screen, presented>>
    \/ /\ ~ hasNavigated /\ o.kind = "unanimous" /\ deck = "ready"
       /\ matched' = o.winner
       /\ UNCHANGED <<hasExpired, hasNavigated, screen, presented>>
    \/ /\ ~ hasNavigated /\ o.kind # "unanimous"
       /\ Navigate(IF o.wheel # {} THEN "wheel" ELSE "result")
       /\ UNCHANGED <<hasExpired, matched>>

Loaded == deck # "loading" /\ progress # {}

\* handleMatchDismiss and goToResult.
Dismiss ==
    /\ mounted /\ Loaded /\ matched # NoCard
    /\ matched' = NoCard
    /\ presented' = "popup"
    /\ hasNavigated' = TRUE
    /\ screen' = IF hasNavigated THEN screen ELSE "result"
    /\ UNCHANGED <<server, expired, requests, queries, cards, report, hasExpired, mounted, faults>>

\* The replaced screen goes away some time after navigation.replace.
Unmount ==
    /\ hasNavigated
    /\ Vanish
    /\ UNCHANGED <<server, expired, requests, screen, presented, faults>>

\* SpinWheelScreen moves on when its animation has ended.
WheelDone ==
    /\ screen = "wheel"
    /\ screen' = "result"
    /\ UNCHANGED <<server, expired, requests, queries, cards, report, hasExpired,
                   matched, hasNavigated, presented, mounted, faults>>

Kill ==
    /\ faults < MaxFaults /\ faults' = faults + 1
    /\ Vanish
    /\ screen' = "away" /\ presented' = "nothing"
    /\ UNCHANGED <<server, expired, requests>>

\* "Return to the running room" of the profile screen.
Reopen ==
    /\ screen = "away"
    /\ screen' = "swipe" /\ mounted' = TRUE
    /\ UNCHANGED <<server, expired, requests, queries, cards, report, hasExpired,
                   matched, hasNavigated, presented, faults>>
--------------------------------------------------------------------------------
(* Swiping.                                                                *)

IsResolving == matched # NoCard \/ hasExpired \/ lobby = "finished"

Completed == UNION progress

\* remainingRestaurants; data of a failed query is undefined.
Remaining == IF deck = "ready" THEN Deck \ Completed ELSE {}

\* What SwipeCard still has to show.
Cards == {r \in Remaining : told[r] = "none"}

LoadDeck ==
    /\ mounted /\ deck = "loading"
    /\ deck' \in {"ready", "failed"}
    /\ UNCHANGED <<server, expired, requests, progress, lobby, fetched, cards, report, ui, mounted, faults>>

LoadProgress ==
    /\ mounted /\ progress = {}
    /\ progress' \in {{Swiped(ballots, Me)}, {{}}}
    /\ UNCHANGED <<server, expired, requests, deck, lobby, fetched, cards, report, ui, mounted, faults>>

\* handleSwipeComplete and handleSwipe; submittingRef allows one swipe at a time.
Swipe(m) ==
    /\ mounted /\ Loaded /\ ~ IsResolving
    /\ report = "none" /\ swipe = NoSwipe
    /\ m.item \in Cards
    /\ swipe' = m
    /\ UNCHANGED <<server, expired, uncommitted, lost, queries, reply, told,
                   report, ui, mounted, faults>>
    /\ Keep(wire \cup {m})

\* retry: 2 of useSwipe, when no answer came.
Resend ==
    /\ swipe # NoSwipe /\ reply = "none"
    /\ UNCHANGED <<server, expired, uncommitted, lost, client, faults>>
    /\ Keep(wire \cup {swipe})

\* The retries are used up, or the server refuses: the card comes back.
SwipeFails ==
    /\ swipe # NoSwipe /\ reply = "none"
    /\ swipe' = NoSwipe
    /\ UNCHANGED <<server, expired, requests, queries, reply, told, report, ui, mounted, faults>>

\* handleDeckEmpty; hasReportedEmpty lets one report out.
HandleDeckEmpty == report' = IF report = "none" THEN "sent" ELSE report

SwipeAccepted ==
    /\ reply # "none"
    /\ told' = [told EXCEPT ![swipe.item] = swipe.mark]
    /\ swipe' = NoSwipe /\ reply' = "none"
    /\ hasExpired' = (hasExpired \/ reply = "match")
    /\ IF Cards = {swipe.item} THEN HandleDeckEmpty ELSE UNCHANGED report
    /\ UNCHANGED <<server, expired, requests, queries, matched, hasNavigated, screen,
                   presented, mounted, faults>>

\* MUTANT of NothingLeft: an undefined deck counts as an empty one.
NothingLeftUnloaded == Loaded /\ Remaining = {}

NothingLeft == Loaded /\ deck = "ready" /\ Remaining = {}

DeckEmptyEffect ==
    /\ mounted /\ NothingLeft
    /\ HandleDeckEmpty
    /\ UNCHANGED <<server, expired, requests, queries, cards, ui, mounted, faults>>
--------------------------------------------------------------------------------
(* Finding out about the end.                                              *)

ReportAnswer(answer) ==
    report' \in {report} \cup {a \in {answer} : report = "sent"}

\* mark_participant_finished; a report its client gave up on still arrives.
HandleReport ==
    /\ report \in {"sent", "failed"}
    /\ UNCHANGED expired
    /\ IF outcome = NoResult /\ AllSwiped
       THEN Server!Close /\ ReportAnswer("closed")
       ELSE UNCHANGED server /\ ReportAnswer("waiting")
    /\ Keep(wire)
    /\ UNCHANGED <<uncommitted, lost, queries, cards, ui, mounted, faults>>

ReportFails ==
    /\ report = "sent"
    /\ report' = "failed"
    /\ UNCHANGED <<server, expired, requests, queries, cards, ui, mounted, faults>>

RetryFinish ==
    /\ mounted /\ Loaded /\ ~ IsResolving
    /\ report = "failed"
    /\ report' = "sent"
    /\ UNCHANGED <<server, expired, requests, queries, cards, ui, mounted, faults>>

ReportClosed ==
    /\ report = "closed"
    /\ report' = "waiting"
    /\ GoToResolution(Announced)
    /\ UNCHANGED <<server, expired, requests, queries, cards, mounted, faults>>

\* MUTANT of HandleTimerExpired: the screen does not wait for the result.
TimerLeaves ==
    /\ ~ hasNavigated
    /\ Navigate("result")
    /\ UNCHANGED <<hasExpired, matched>>

HandleTimerExpired ==
    /\ hasExpired' = TRUE
    /\ UNCHANGED <<matched, hasNavigated, screen, presented>>

\* SessionTimer at zero by the phone's clock, which is not the server's.
TimerExpires ==
    /\ mounted /\ Loaded /\ lobby # "unknown"
    /\ HandleTimerExpired
    /\ UNCHANGED <<server, expired, requests, queries, cards, report, mounted, faults>>

\* EVENT_UNANIMOUS_MATCH.
MatchEvent ==
    /\ mounted
    /\ outcome # NoResult /\ outcome.kind = "unanimous"
    /\ hasExpired' = TRUE
    /\ UNCHANGED <<server, expired, requests, queries, cards, report, mounted, faults, matched,
                   hasNavigated, screen, presented>>

\* "spin_wheel" or "result", once or more, early or late.
ResultEvent ==
    /\ mounted /\ outcome # NoResult
    /\ GoToResolution(Announced)
    /\ UNCHANGED <<server, expired, requests, queries, cards, report, mounted, faults>>

\* useSession, every five seconds.
PollLobby ==
    /\ mounted
    /\ lobby' = IF outcome = NoResult THEN "active" ELSE "finished"
    /\ UNCHANGED <<server, expired, requests, deck, progress, fetched, cards, report, ui, mounted, faults>>

\* MUTANT of PollsResult: only what this phone has noticed by itself counts.
PollsResultIfExpired == hasExpired /\ matched = NoCard /\ ~ fetched

PollsResult == IsResolving /\ matched = NoCard /\ ~ fetched

\* useLiveSessionResult, every two seconds; without a result it fails.
PollResult ==
    /\ mounted /\ PollsResult
    /\ outcome # NoResult
    /\ fetched' = TRUE
    /\ UNCHANGED <<server, expired, requests, deck, progress, lobby, cards, report, ui, mounted, faults>>

ResultEffect ==
    /\ mounted /\ fetched /\ matched = NoCard
    /\ GoToResolution(Announced)
    /\ UNCHANGED <<server, expired, requests, queries, cards, report, mounted, faults>>
--------------------------------------------------------------------------------
ScreenNext ==
    \/ \E u \in Users, r \in Deck, mark \in {"skip", "like"} : OtherSwipes(u, r, mark)
    \/ Expire \/ SettleOverdue \/ OtherFinishes
    \/ \E m \in wire : HandleSwipe(m)
    \/ CommitSwipe \/ LoseCommit
    \/ LoadDeck \/ LoadProgress
    \/ \E m \in Swipes : Swipe(m)
    \/ Resend \/ SwipeFails \/ SwipeAccepted \/ DeckEmptyEffect
    \/ HandleReport \/ ReportFails \/ RetryFinish \/ ReportClosed
    \/ TimerExpires \/ MatchEvent \/ ResultEvent
    \/ PollLobby \/ PollResult \/ ResultEffect
    \/ Dismiss \/ Unmount \/ WheelDone \/ Kill \/ Reopen

\* The beat settles an overdue session, handlers end, queries are answered or
\* give up, and polls repeat until one of them gets through.  Events, swipes,
\* reports, the phone's clock and the participant owe nothing.
ScreenFairness ==
    /\ WF_screenVars(SettleOverdue) /\ WF_screenVars(CommitSwipe)
    /\ WF_screenVars(LoadDeck)
    /\ WF_screenVars(PollLobby) /\ WF_screenVars(PollResult) /\ WF_screenVars(ResultEffect)

ScreenSpec == ScreenInit /\ [][ScreenNext]_screenVars /\ ScreenFairness
--------------------------------------------------------------------------------
(* Properties.                                                             *)

\* The types, and: a screen that has been left is marked as left as long as
\* its callbacks can still run; a popup has its card.
ScreenTypeOK ==
    /\ ballots \in Ballots /\ roster = Users /\ outcome \in Results \cup {NoResult}
    /\ expired \in BOOLEAN
    /\ wire \subseteq Swipes /\ uncommitted \in Swipes \cup {NoSwipe}
    /\ lost \subseteq Deck
    /\ deck \in {"loading", "ready", "failed"}
    /\ progress \subseteq SUBSET Deck /\ Cardinality(progress) <= 1
    /\ swipe \in Swipes \cup {NoSwipe} /\ reply \in {"none", "ok", "match"}
    /\ told \in [Deck -> Marks]
    /\ report \in {"none", "sent", "closed", "waiting", "failed"}
    /\ lobby \in {"unknown", "active", "finished"}
    /\ {fetched, hasExpired, hasNavigated, mounted} \subseteq BOOLEAN
    /\ matched \in Deck \cup {NoCard}
    /\ screen \in {"away", "swipe", "wheel", "result"}
    /\ presented \in {"nothing", "popup", "wheel"}
    /\ faults \in 0..MaxFaults
    /\ mounted => (hasNavigated <=> screen \in {"wheel", "result"})
    /\ matched # NoCard => deck = "ready"
    /\ reply # "none" => swipe # NoSwipe

\* Whatever came first, event, answer, poll or timer: the popup shows the
\* stored unanimous winner, the wheel turns for a tie or for no likes at all,
\* and nobody gets to the result before there is one.
ScreenFits ==
    /\ matched # NoCard => outcome = [kind |-> "unanimous", winner |-> matched]
    /\ screen = "wheel" => outcome \in [kind : {"tie", "no_match"}, winner : Deck]
    /\ screen = "result" => outcome # NoResult

\* The result screen is reached through the popup if everybody agreed, through
\* the wheel if chance decided.
NobodySkipsTheDraw ==
    screen = "result" =>
        /\ outcome.kind = "unanimous" => presented = "popup"
        /\ outcome.kind \in {"tie", "no_match"} => presented = "wheel"

\* navigation.replace happens once: nothing that arrives late brings the wheel
\* back over the result, or a popup over either.
LeavesOnce ==
    [][(mounted /\ screen \in {"wheel", "result"}) =>
          screen' \in {screen, "result", "away"} /\ matched' = NoCard]_screenVars

\* "Deck finished" is reported only after the server has answered a vote for
\* every restaurant, in this or an earlier life of the app.
ReportIsEarned ==
    report # "none" =>
        \A r \in Deck : \/ ballots[Me][r] # "none" \/ r \in lost
                        \/ uncommitted # NoSwipe /\ uncommitted.item = r

\* A card the phone has moved past counts as it was swiped: a vote that
\* uq_vote_once turned away was the same vote again.
ToldVoteIsRecorded ==
    \A r \in Deck : told[r] # "none" =>
        \/ ballots[Me][r] = told[r] \/ r \in lost
        \/ uncommitted = [item |-> r, mark |-> told[r]]

\* The popup cannot be shown without the deck, and nothing loads it again.
Stranded == deck = "failed" /\ outcome # NoResult /\ outcome.kind = "unanimous"

\* "Recover a final outcome even if its WebSocket notification was missed": a
\* screen left open does not stay on the cards after the end.
ScreenFollows ==
    ((outcome # NoResult \/ expired) /\ screen = "swipe")
        ~> (screen # "swipe" \/ matched # NoCard \/ Stranded)
================================================================================
