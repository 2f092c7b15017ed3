-------------------------- MODULE SessionScreenProofs --------------------------
(***************************************************************************)
(* The swipe screen for every number of participants, restaurants and      *)
(* faults.  ScreenIInv is the inductive invariant: what a phone has heard  *)
(* of is stored and stays (HeardIsStored, OutcomeFits), the wheel was seen *)
(* by who is on it (DrawSeen), a screen that was left has no popup to come *)
(* back with (LeftWithoutCard), a screen that is gone keeps nothing        *)
(* (GoneIsBlank), and a card that was passed is a vote the server answered *)
(* (PassedIsAnswered).                                                     *)
(***************************************************************************)
EXTENDS SessionScreen, FiniteSetTheorems, TLAPS

\* The state of a component that was not mounted yet.
Blank ==
    /\ deck = "loading" /\ progress = {} /\ lobby = "unknown" /\ ~ fetched
    /\ swipe = NoSwipe /\ reply = "none" /\ told = NothingTold /\ report = "none"
    /\ ~ hasExpired /\ matched = NoCard /\ ~ hasNavigated

GoneIsBlank ==
    /\ ~ mounted => Blank
    /\ screen = "away" => ~ mounted

\* The stored outcome is what the ballots say, and what the phone goes by is stored.
OutcomeFits   == outcome # NoResult => Fits(outcome, ballots)
HeardIsStored == fetched \/ report = "closed" => outcome # NoResult

DrawSeen        == screen = "wheel" => presented = "wheel"
LeftWithoutCard == hasNavigated => matched = NoCard

\* The server has answered my vote for r: it is stored, about to be, or died before.
Answered(r) ==
    \/ ballots[Me][r] # "none" \/ r \in lost
    \/ uncommitted # NoSwipe /\ uncommitted.item = r

PassedIsAnswered ==
    /\ \A r \in Deck : told[r] # "none" => Answered(r)
    /\ \A r \in Completed : ballots[Me][r] # "none"
    /\ reply # "none" => Answered(swipe.item)

ScreenIInv ==
    /\ ScreenTypeOK /\ GoneIsBlank /\ OutcomeFits /\ HeardIsStored
    /\ ScreenFits /\ NobodySkipsTheDraw /\ DrawSeen /\ LeftWithoutCard
    /\ PassedIsAnswered /\ ReportIsEarned
--------------------------------------------------------------------------------
(* The server.                                                             *)

\* AtomicVoting has the ballot rules of this module.
LEMMA SameRules ==
    /\ Server!Ballots = Ballots /\ Server!Results = Results
    /\ \A res, sheet : Server!Fits(res, sheet) <=> Fits(res, sheet)
<1>1. Server!Ballots = Ballots /\ Server!Results = Results
  BY DEF Server!Ballots, Server!Marks, Ballots, Marks, Server!Results, Server!Kinds, Results, Kinds
<1>2. ASSUME NEW res, NEW sheet PROVE Server!Fits(res, sheet) <=> Fits(res, sheet)
  <2>1. \A S : Server!Cardinality(S) = Cardinality(S)
    BY DEF Cardinality, Server!Cardinality
  <2>2. \A r : Server!Likers(sheet, r) = Likers(sheet, r)
    BY DEF Likers, Server!Likers
  <2>3. Server!Leaders(sheet) = Leaders(sheet)
    BY <2>1, <2>2 DEF Leaders, Server!Leaders
  <2>4. Server!Decisions(sheet) = Decisions(sheet)
    BY <2>1, <2>3 DEF Decisions, Server!Decisions, NoMatch, Majority, Tie,
                      Server!NoMatch, Server!Majority, Server!Tie
  <2> QED  BY <2>4 DEF Fits, Server!Fits, Persisted, Server!Persisted
<1> QED  BY <1>1, <1>2

\* A vote changes its own mark only, from "none", while the session runs, and the one that
\* ends the session completes unanimity.
LEMMA CastMoves ==
    ASSUME ScreenTypeOK, NEW u \in Users, NEW r \in Deck, NEW mark \in {"skip", "like"},
           Server!Cast(u, r, mark)
    PROVE  /\ outcome = NoResult /\ ballots' \in Ballots /\ roster' = Users
           /\ outcome' \in Results \cup {NoResult}
           /\ outcome' # NoResult => Fits(outcome', ballots')
           /\ \A v \in Users, q \in Deck : ballots[v][q] # "none" => ballots'[v][q] # "none"
           /\ ballots'[u][r] # "none"
<1> USE DEF ScreenTypeOK
<1>1. outcome = NoResult /\ roster' = Users /\ ballots' = [ballots EXCEPT ![u][r] = mark]
  BY DEF Server!Cast
<1>2. /\ ballots' \in Ballots /\ ballots'[u][r] = mark
      /\ \A v \in Users, q \in Deck : ballots[v][q] # "none" => ballots'[v][q] # "none"
  BY <1>1 DEF Ballots, Marks
<1>3. CASE outcome' = NoResult  BY <1>1, <1>2, <1>3
<1>4. CASE outcome' # NoResult
  <2>1. outcome' = [kind |-> "unanimous", winner |-> r] /\ Server!EveryoneLikes(ballots', r)
    BY <1>1, <1>4 DEF Server!Cast
  <2>2. \A v \in Users : ballots'[v][r] = "like"  BY <2>1 DEF Server!EveryoneLikes
  <2>3. outcome' \in Results  BY <2>1 DEF Results, Kinds
  <2> QED  BY <1>1, <1>2, <2>1, <2>2, <2>3 DEF Fits
<1> QED  BY <1>3, <1>4

\* Any other close decides by the ballots as they stand.
LEMMA CloseMoves ==
    ASSUME ScreenTypeOK, Server!Close
    PROVE  /\ outcome = NoResult /\ UNCHANGED <<ballots, roster>>
           /\ outcome' \in Results /\ outcome' # NoResult /\ Fits(outcome', ballots')
<1>1. outcome' \in Results /\ Fits(outcome', ballots)
  BY SameRules DEF Server!Close, ScreenTypeOK
<1> QED  BY <1>1, ScreenAssumption DEF Server!Close

\* What the server can do in one step of the whole, as seen from the phone.
ServerForward ==
    /\ ballots' \in Ballots /\ roster' = Users /\ outcome' \in Results \cup {NoResult}
    /\ outcome # NoResult => outcome' = outcome /\ ballots' = ballots
    /\ outcome' # NoResult => Fits(outcome', ballots')
    /\ \A r \in Deck : ballots[Me][r] # "none" => ballots'[Me][r] # "none"

\* My swipes name restaurants of the deck.
LEMMA SwipeFields ==
    ASSUME NEW m \in Swipes
    PROVE  m.item \in Deck /\ m.mark \in {"skip", "like"} /\ m # NoSwipe
  BY ScreenAssumption DEF Swipes, Marks

\* Every step of the whole is a step of AtomicVoting or leaves the server alone.
LEMMA ServerSteps ==
    ASSUME ScreenTypeOK, [ScreenNext]_screenVars
    PROVE  \/ UNCHANGED server
           \/ Server!Close
           \/ \E u \in Users, r \in Deck, mark \in {"skip", "like"} : Server!Cast(u, r, mark)
<1> DEFINE Goal == \/ UNCHANGED server
                   \/ Server!Close
                   \/ \E u \in Users, r \in Deck, mark \in {"skip", "like"} : Server!Cast(u, r, mark)
<1>1. ASSUME NEW u \in Users, NEW r \in Deck, NEW mark \in {"skip", "like"}, OtherSwipes(u, r, mark)
      PROVE  Goal
  BY <1>1 DEF OtherSwipes
<1>2. CASE Expire \/ SettleOverdue \/ OtherFinishes
  BY <1>2 DEF Expire, SettleOverdue, OtherFinishes
<1>3. ASSUME NEW m \in wire, HandleSwipe(m) PROVE Goal
  <2>1. Me \in Users /\ m \in Swipes  BY ScreenAssumption DEF ScreenTypeOK
  <2>2. m.item \in Deck /\ m.mark \in {"skip", "like"}  BY <2>1, SwipeFields
  <2> QED  BY <1>3, <2>1, <2>2 DEF HandleSwipe, RecordSwipe, MatchSwipe, RepeatSwipe
<1>4. CASE CommitSwipe
  <2>1. Me \in Users /\ uncommitted \in Swipes
    BY <1>4, ScreenAssumption DEF ScreenTypeOK, CommitSwipe, RowFree
  <2>2. uncommitted.item \in Deck /\ uncommitted.mark \in {"skip", "like"}  BY <2>1, SwipeFields
  <2> QED  BY <1>4, <2>1, <2>2 DEF CommitSwipe
<1>5. CASE LoseCommit \/ LoadDeck \/ LoadProgress \/ (\E m \in Swipes : Swipe(m))
  BY <1>5 DEF LoseCommit, LoadDeck, LoadProgress, Swipe
<1>6. CASE Resend \/ SwipeFails \/ SwipeAccepted \/ DeckEmptyEffect
  BY <1>6 DEF Resend, SwipeFails, SwipeAccepted, DeckEmptyEffect
<1>7. CASE HandleReport \/ ReportFails \/ RetryFinish \/ ReportClosed
  BY <1>7 DEF HandleReport, ReportFails, RetryFinish, ReportClosed
<1>8. CASE TimerExpires \/ MatchEvent \/ ResultEvent \/ PollLobby \/ PollResult \/ ResultEffect
  BY <1>8 DEF TimerExpires, MatchEvent, ResultEvent, PollLobby, PollResult, ResultEffect
<1>9. CASE Dismiss \/ Unmount \/ WheelDone \/ Kill \/ Reopen
  BY <1>9 DEF Dismiss, Unmount, WheelDone, Kill, Reopen
<1>10. CASE UNCHANGED screenVars  BY <1>10 DEF screenVars, server
<1> QED
  BY <1>1, <1>2, <1>3, <1>4, <1>5, <1>6, <1>7, <1>8, <1>9, <1>10 DEF ScreenNext

\* So the outcome is stored once, together with the last ballot, and no vote is taken back.
LEMMA ServerMoves ==
    ASSUME ScreenTypeOK, OutcomeFits, [ScreenNext]_screenVars
    PROVE  ServerForward
<1>1. CASE UNCHANGED server
  BY <1>1 DEF ServerForward, server, ScreenTypeOK, OutcomeFits
<1>2. CASE Server!Close
  BY <1>2, CloseMoves DEF ServerForward, ScreenTypeOK
<1>3. ASSUME NEW u \in Users, NEW r \in Deck, NEW mark \in {"skip", "like"}, Server!Cast(u, r, mark)
      PROVE  ServerForward
  BY <1>3, CastMoves, ScreenAssumption DEF ServerForward
<1> QED  BY <1>1, <1>2, <1>3, ServerSteps
--------------------------------------------------------------------------------
(* Types.                                                                  *)

\* Requests on their way stay swipes, and what an answered one is about is in the deck.
LEMMA RequestTypes ==
    ASSUME ScreenTypeOK, [ScreenNext]_screenVars
    PROVE  /\ expired' \in BOOLEAN /\ wire' \subseteq Swipes
           /\ uncommitted' \in Swipes \cup {NoSwipe} /\ lost' \subseteq Deck
<1> DEFINE Goal == /\ expired' \in BOOLEAN /\ wire' \subseteq Swipes
                   /\ uncommitted' \in Swipes \cup {NoSwipe} /\ lost' \subseteq Deck
<1> USE DEF ScreenTypeOK, requests, Keep
<1>1. ASSUME NEW u \in Users, NEW r \in Deck, NEW mark \in {"skip", "like"}, OtherSwipes(u, r, mark)
      PROVE  Goal
  BY <1>1 DEF OtherSwipes
<1>2. CASE Expire \/ SettleOverdue \/ OtherFinishes
  BY <1>2 DEF Expire, SettleOverdue, OtherFinishes
<1>3. ASSUME NEW m \in wire, HandleSwipe(m) PROVE Goal
  BY <1>3 DEF HandleSwipe, RecordSwipe, MatchSwipe, RepeatSwipe
<1>4. CASE CommitSwipe \/ LoseCommit
  BY <1>4, SwipeFields DEF CommitSwipe, LoseCommit, RowFree
<1>5. CASE LoadDeck \/ LoadProgress \/ SwipeFails \/ SwipeAccepted \/ DeckEmptyEffect
  BY <1>5 DEF LoadDeck, LoadProgress, SwipeFails, SwipeAccepted, DeckEmptyEffect
<1>6. ASSUME NEW m \in Swipes, Swipe(m) PROVE Goal
  BY <1>6 DEF Swipe
<1>7. CASE Resend
  BY <1>7 DEF Resend
<1>8. CASE HandleReport \/ ReportFails \/ RetryFinish \/ ReportClosed
  BY <1>8 DEF HandleReport, ReportFails, RetryFinish, ReportClosed
<1>9. CASE TimerExpires \/ MatchEvent \/ ResultEvent \/ PollLobby \/ PollResult \/ ResultEffect
  BY <1>9 DEF TimerExpires, MatchEvent, ResultEvent, PollLobby, PollResult, ResultEffect
<1>10. CASE Dismiss \/ Unmount \/ WheelDone \/ Kill \/ Reopen
  BY <1>10 DEF Dismiss, Unmount, WheelDone, Kill, Reopen
<1>11. CASE UNCHANGED screenVars  BY <1>11 DEF screenVars
<1> QED
  BY <1>1, <1>2, <1>3, <1>4, <1>5, <1>6, <1>7, <1>8, <1>9, <1>10, <1>11 DEF ScreenNext

\* A query is loading, or has its answer or its failure.
LEMMA QueryTypes ==
    ASSUME ScreenTypeOK, [ScreenNext]_screenVars
    PROVE  /\ deck' \in {"loading", "ready", "failed"}
           /\ progress' \subseteq SUBSET Deck /\ Cardinality(progress') <= 1
           /\ lobby' \in {"unknown", "active", "finished"} /\ fetched' \in BOOLEAN
           /\ faults' \in 0..MaxFaults
<1> DEFINE Goal == /\ deck' \in {"loading", "ready", "failed"}
                   /\ progress' \subseteq SUBSET Deck /\ Cardinality(progress') <= 1
                   /\ lobby' \in {"unknown", "active", "finished"} /\ fetched' \in BOOLEAN
                   /\ faults' \in 0..MaxFaults
<1>0. Cardinality({}) <= 1 /\ \A x : Cardinality({x}) <= 1
  BY FS_EmptySet, FS_Singleton
<1> USE DEF ScreenTypeOK, client, queries
<1>1. CASE LoadDeck \/ PollLobby \/ PollResult
  BY <1>1 DEF LoadDeck, PollLobby, PollResult
<1>2. CASE LoadProgress
  BY <1>0, <1>2 DEF LoadProgress, Swiped
<1>3. CASE Unmount \/ Kill
  <2>1. deck' = "loading" /\ progress' = {} /\ lobby' = "unknown" /\ fetched' = FALSE
    BY <1>3 DEF Unmount, Kill, Vanish
  <2>2. faults' = faults \/ (faults < MaxFaults /\ faults' = faults + 1)
    BY <1>3 DEF Unmount, Kill
  <2>3. faults' \in 0..MaxFaults  BY <2>2, ScreenAssumption
  <2> QED  BY <1>0, <2>1, <2>3
<1>4. CASE LoseCommit
  BY <1>4, ScreenAssumption DEF LoseCommit
<1>5. CASE UNCHANGED <<queries, faults>>
  BY <1>5
<1>6. ~ (LoadDeck \/ PollLobby \/ PollResult \/ LoadProgress \/ Unmount \/ Kill \/ LoseCommit)
          => UNCHANGED <<queries, faults>>
  BY DEF ScreenNext, screenVars, phoneButReply, OtherSwipes, Expire, SettleOverdue, OtherFinishes,
         HandleSwipe, RecordSwipe, MatchSwipe, RepeatSwipe, CommitSwipe, Swipe, Resend, SwipeFails,
         SwipeAccepted, DeckEmptyEffect, HandleReport, ReportFails, RetryFinish, ReportClosed,
         TimerExpires, MatchEvent, ResultEvent, ResultEffect, Dismiss, WheelDone, Reopen
<1> QED
  BY <1>1, <1>2, <1>3, <1>4, <1>5, <1>6

\* A swipe mutation, its answer and the report have the values of their kind, and an answer
\* belongs to a running mutation.
LEMMA CardTypes ==
    ASSUME ScreenTypeOK, [ScreenNext]_screenVars
    PROVE  /\ swipe' \in Swipes \cup {NoSwipe} /\ reply' \in {"none", "ok", "match"}
           /\ told' \in [Deck -> Marks]
           /\ report' \in {"none", "sent", "closed", "waiting", "failed"}
           /\ reply' # "none" => swipe' # NoSwipe
<1> DEFINE Goal == /\ swipe' \in Swipes \cup {NoSwipe} /\ reply' \in {"none", "ok", "match"}
                   /\ told' \in [Deck -> Marks]
                   /\ report' \in {"none", "sent", "closed", "waiting", "failed"}
                   /\ reply' # "none" => swipe' # NoSwipe
<1> USE DEF ScreenTypeOK, client, cards
<1>1. ASSUME NEW m \in wire, HandleSwipe(m) PROVE Goal
  <2>1. m # NoSwipe  BY SwipeFields
  <2>2. UNCHANGED <<swipe, told, report>>
    BY <1>1 DEF HandleSwipe, RecordSwipe, MatchSwipe, RepeatSwipe, phoneButReply
  <2>3. PICK a \in {"ok", "match"} : Answer(m, a)
    BY <1>1 DEF HandleSwipe, RecordSwipe, MatchSwipe, RepeatSwipe
  <2> QED  BY <2>1, <2>2, <2>3 DEF Answer
<1>2. ASSUME NEW m \in Swipes, Swipe(m) PROVE Goal
  BY <1>2, SwipeFields DEF Swipe
<1>3. CASE SwipeAccepted
  <2>1. swipe.item \in Deck /\ swipe.mark \in Marks
    BY <1>3, SwipeFields DEF SwipeAccepted, Marks
  <2> QED  BY <1>3, <2>1 DEF SwipeAccepted, HandleDeckEmpty
<1>4. CASE SwipeFails
  BY <1>4 DEF SwipeFails
<1>5. CASE DeckEmptyEffect \/ HandleReport \/ ReportFails \/ RetryFinish \/ ReportClosed
  BY <1>5 DEF DeckEmptyEffect, HandleDeckEmpty, HandleReport, ReportAnswer, ReportFails, RetryFinish,
              ReportClosed
<1>6. CASE Unmount \/ Kill
  BY <1>6 DEF Unmount, Kill, Vanish, NothingTold, Marks
<1>7. CASE UNCHANGED <<cards, report>>
  BY <1>7
<1>8. ~ (\/ \E m \in wire : HandleSwipe(m)
         \/ \E m \in Swipes : Swipe(m)
         \/ SwipeAccepted \/ SwipeFails
         \/ DeckEmptyEffect \/ HandleReport \/ ReportFails \/ RetryFinish \/ ReportClosed
         \/ Unmount \/ Kill)
          => UNCHANGED <<cards, report>>
  BY DEF ScreenNext, screenVars, OtherSwipes, Expire, SettleOverdue, OtherFinishes, CommitSwipe,
         LoseCommit, LoadDeck, LoadProgress, Resend, TimerExpires, MatchEvent, ResultEvent,
         PollLobby, PollResult, ResultEffect, Dismiss, WheelDone, Reopen
<1> QED
  BY <1>1, <1>2, <1>3, <1>4, <1>5, <1>6, <1>7, <1>8
--------------------------------------------------------------------------------
(* What is on the screen.                                                  *)

seen == <<matched, hasNavigated, screen, presented, mounted>>

\* Everything the participant looks at is decided by an outcome that is stored, or is a
\* step of the screen's own life.
LEMMA ScreenMoves ==
    ASSUME ScreenTypeOK, GoneIsBlank, HeardIsStored, [ScreenNext]_screenVars
    PROVE  \/ UNCHANGED seen /\ (deck = "ready" => deck' = "ready")
           \/ /\ mounted /\ outcome # NoResult /\ UNCHANGED <<mounted, deck>>
              /\ GoToResolution(Announced)
           \/ Dismiss \/ Unmount \/ WheelDone \/ Kill \/ Reopen
<1> DEFINE Quiet == UNCHANGED seen /\ (deck = "ready" => deck' = "ready")
<1> USE DEF seen
<1>1. CASE ReportClosed \/ ResultEvent \/ ResultEffect
  BY <1>1 DEF ReportClosed, ResultEvent, ResultEffect, GoneIsBlank, Blank, HeardIsStored, queries
<1>2. ~ (ReportClosed \/ ResultEvent \/ ResultEffect \/ Dismiss \/ Unmount \/ WheelDone \/ Kill \/ Reopen)
        => Quiet
  BY DEF ScreenNext, screenVars, client, ui, queries, phoneButReply, HandleTimerExpired, OtherSwipes,
         Expire, SettleOverdue, OtherFinishes, HandleSwipe, RecordSwipe, MatchSwipe, RepeatSwipe,
         CommitSwipe, LoseCommit, LoadDeck, LoadProgress, Swipe, Resend, SwipeFails, SwipeAccepted,
         DeckEmptyEffect, HandleReport, ReportFails, RetryFinish, TimerExpires, MatchEvent,
         PollLobby, PollResult
<1> QED  BY <1>1, <1>2

\* An outcome that is told has the stored kind and winner; a wheel to turn means that
\* chance decided, and where chance decided there is a wheel to turn.
LEMMA AnnouncedRight ==
    ASSUME ScreenTypeOK, OutcomeFits, outcome # NoResult
    PROVE  /\ outcome \in Results
           /\ outcome = [kind |-> Announced.kind, winner |-> Announced.winner]
           /\ Announced.winner \in Deck
           /\ Announced.wheel # {} <=> outcome.kind \in {"tie", "no_match"}
<1>1. outcome \in Results  BY DEF ScreenTypeOK
<1>2. /\ Announced.kind = outcome.kind /\ Announced.winner = outcome.winner
      /\ Announced.wheel = IF outcome.kind = "no_match" THEN Deck
                           ELSE IF outcome.kind = "tie" THEN Leaders(ballots)
                           ELSE {}
  BY DEF Announced, Recovered
<1>3. outcome.kind = "tie" => Leaders(ballots) # {}
  <2> SUFFICES ASSUME outcome.kind = "tie" PROVE Leaders(ballots) # {}  OBVIOUS
  <2>1. PICK o \in Decisions(ballots) : Persisted(o) = outcome  BY DEF OutcomeFits, Fits
  <2>2. o.kind = "tie"  BY <2>1 DEF Persisted
  <2> QED  BY <2>2 DEF Decisions, NoMatch
<1> QED  BY <1>1, <1>2, <1>3, SessionAssumption DEF Results

\* What learning the outcome does to a screen that has not been left.
LEMMA LearnsOutcome ==
    ASSUME ScreenTypeOK, OutcomeFits, outcome # NoResult, GoToResolution(Announced)
    PROVE  \/ UNCHANGED <<matched, hasNavigated, screen, presented>>
           \/ /\ ~ hasNavigated /\ deck = "ready"
              /\ matched' \in Deck /\ outcome = [kind |-> "unanimous", winner |-> matched']
              /\ UNCHANGED <<hasNavigated, screen, presented>>
           \/ /\ ~ hasNavigated /\ hasNavigated' /\ UNCHANGED matched
              /\ outcome.kind \in {"tie", "no_match"} /\ screen' = "wheel" /\ presented' = "wheel"
           \/ /\ ~ hasNavigated /\ hasNavigated' /\ UNCHANGED <<matched, presented>>
              /\ outcome.kind = "majority" /\ screen' = "result"
<1>1. outcome.kind \in Kinds /\ Announced.kind = outcome.kind
  BY AnnouncedRight DEF Results
<1>2. CASE hasNavigated \/ (outcome.kind = "unanimous" /\ deck # "ready")
  BY <1>1, <1>2 DEF GoToResolution, ui
<1>3. CASE ~ hasNavigated /\ outcome.kind = "unanimous" /\ deck = "ready"
  BY <1>1, <1>3, AnnouncedRight DEF GoToResolution
<1>4. CASE ~ hasNavigated /\ outcome.kind \in {"tie", "no_match"}
  <2>1. Announced.wheel # {}  BY <1>4, AnnouncedRight
  <2> QED  BY <1>1, <1>4, <2>1 DEF GoToResolution, Navigate
<1>5. CASE ~ hasNavigated /\ outcome.kind = "majority"
  <2>1. Announced.wheel = {}  BY <1>5, AnnouncedRight
  <2> QED  BY <1>1, <1>5, <2>1 DEF GoToResolution, Navigate
<1> QED  BY <1>1, <1>2, <1>3, <1>4, <1>5 DEF Kinds

\* Left screens are marked as left, and a popup has its card.
LEMMA UiTypes ==
    ASSUME ScreenIInv, [ScreenNext]_screenVars
    PROVE  /\ {hasExpired', hasNavigated', mounted'} \subseteq BOOLEAN
           /\ matched' \in Deck \cup {NoCard}
           /\ screen' \in {"away", "swipe", "wheel", "result"}
           /\ presented' \in {"nothing", "popup", "wheel"}
           /\ mounted' => (hasNavigated' <=> screen' \in {"wheel", "result"})
           /\ matched' # NoCard => deck' = "ready"
<1> DEFINE Values == /\ hasNavigated' \in BOOLEAN /\ mounted' \in BOOLEAN
                     /\ matched' \in Deck \cup {NoCard}
                     /\ screen' \in {"away", "swipe", "wheel", "result"}
                     /\ presented' \in {"nothing", "popup", "wheel"}
           Marked == /\ mounted' => (hasNavigated' <=> screen' \in {"wheel", "result"})
                     /\ matched' # NoCard => deck' = "ready"
<1>0. ScreenTypeOK /\ GoneIsBlank /\ OutcomeFits /\ HeardIsStored  BY DEF ScreenIInv
<1>1. hasExpired \in BOOLEAN /\ hasNavigated \in BOOLEAN /\ mounted \in BOOLEAN
  BY <1>0 DEF ScreenTypeOK
<1> USE DEF ScreenTypeOK
<1>2. ASSUME UNCHANGED seen, deck = "ready" => deck' = "ready"
      PROVE  Values /\ Marked
  <2>1. Values  BY <1>0, <1>1, <1>2 DEF seen
  <2>2. Marked  BY <1>0, <1>2 DEF seen
  <2> QED  BY <2>1, <2>2
<1>3. ASSUME mounted, outcome # NoResult, UNCHANGED <<mounted, deck>>, GoToResolution(Announced)
      PROVE  Values /\ Marked
  <2>1. hasNavigated' \in BOOLEAN
    BY <1>1, <1>3 DEF GoToResolution, Navigate, ui
  <2>2. Values  BY <1>0, <1>1, <1>3, <2>1, LearnsOutcome
  <2>3. Marked  BY <1>0, <1>3, LearnsOutcome
  <2> QED  BY <2>2, <2>3
<1>4. ASSUME Dismiss \/ WheelDone PROVE Values /\ Marked
  <2>1. Values  BY <1>0, <1>1, <1>4 DEF Dismiss, WheelDone
  <2>2. Marked  BY <1>0, <1>4 DEF Dismiss, WheelDone, queries
  <2> QED  BY <2>1, <2>2
<1>5. ASSUME Unmount \/ Kill \/ Reopen PROVE Values /\ Marked
  <2>1. Values  BY <1>0, <1>1, <1>5 DEF Unmount, Kill, Vanish, Reopen
  <2>2. Marked  BY <1>0, <1>5 DEF Unmount, Kill, Vanish, Reopen, GoneIsBlank, Blank
  <2> QED  BY <2>1, <2>2
<1>6. Values /\ Marked
  BY <1>0, <1>2, <1>3, <1>4, <1>5, ScreenMoves
<1>7. hasExpired' \in BOOLEAN
  <2>1. CASE ReportClosed \/ ResultEvent \/ ResultEffect
    BY <1>1, <2>1 DEF ReportClosed, ResultEvent, ResultEffect, GoToResolution, ui
  <2>2. CASE SwipeAccepted \/ TimerExpires \/ MatchEvent
    BY <1>1, <2>2 DEF SwipeAccepted, TimerExpires, MatchEvent, HandleTimerExpired
  <2>3. CASE Unmount \/ Kill
    BY <1>0, <2>3 DEF Unmount, Kill, Vanish
  <2>4. ~ (\/ ReportClosed \/ ResultEvent \/ ResultEffect \/ SwipeAccepted \/ TimerExpires
           \/ MatchEvent \/ Unmount \/ Kill)
          => UNCHANGED hasExpired
    BY DEF ScreenNext, screenVars, client, ui, phoneButReply, OtherSwipes, Expire, SettleOverdue,
           OtherFinishes, HandleSwipe, RecordSwipe, MatchSwipe, RepeatSwipe, CommitSwipe, LoseCommit,
           LoadDeck, LoadProgress, Swipe, Resend, SwipeFails, DeckEmptyEffect, HandleReport,
           ReportFails, RetryFinish, PollLobby, PollResult, Dismiss, WheelDone, Reopen
  <2> QED  BY <1>1, <2>1, <2>2, <2>3, <2>4
<1> QED  BY <1>6, <1>7

LEMMA TypeStep ==
    ASSUME ScreenIInv, [ScreenNext]_screenVars
    PROVE  ScreenTypeOK'
<1>1. ScreenTypeOK /\ OutcomeFits  BY DEF ScreenIInv
<1>2. ballots' \in Ballots /\ roster' = Users /\ outcome' \in Results \cup {NoResult}
  BY <1>1, ServerMoves DEF ServerForward
<1> QED
  BY <1>1, <1>2, RequestTypes, QueryTypes, CardTypes, UiTypes DEF ScreenTypeOK

\* A component comes and goes blank; nothing that reaches a phone without it leaves a trace.
LEMMA GoneStep ==
    ASSUME ScreenIInv, [ScreenNext]_screenVars
    PROVE  GoneIsBlank'
<1>0. ScreenTypeOK /\ GoneIsBlank  BY DEF ScreenIInv
<1>1. CASE Unmount \/ Kill
  BY <1>1 DEF Unmount, Kill, Vanish, GoneIsBlank, Blank, ScreenTypeOK
<1>2. CASE Reopen
  BY <1>2 DEF Reopen, GoneIsBlank
<1>3. ASSUME mounted, ~ (Unmount \/ Kill) PROVE GoneIsBlank'
  <2>1. UNCHANGED mounted
    BY <1>0, <1>3
       DEF ScreenNext, screenVars, client, phoneButReply, OtherSwipes, Expire, SettleOverdue,
           OtherFinishes, HandleSwipe, RecordSwipe, MatchSwipe, RepeatSwipe, CommitSwipe, LoseCommit,
           LoadDeck, LoadProgress, Swipe, Resend, SwipeFails, SwipeAccepted, DeckEmptyEffect,
           HandleReport, ReportFails, RetryFinish, ReportClosed, TimerExpires, MatchEvent,
           ResultEvent, PollLobby, PollResult, ResultEffect, Dismiss, WheelDone, Reopen, GoneIsBlank
  <2>2. screen' \in {screen, "swipe", "wheel", "result"}
    BY <1>0, <1>3, ScreenMoves, LearnsOutcome
       DEF ScreenIInv, seen, Dismiss, WheelDone, Reopen
  <2> QED  BY <1>0, <1>3, <2>1, <2>2 DEF GoneIsBlank
<1>4. ASSUME ~ mounted, ~ Reopen PROVE GoneIsBlank'
  <2> USE <1>0, <1>4 DEF GoneIsBlank, Blank
  <2>1. ASSUME NEW m \in wire, HandleSwipe(m) PROVE UNCHANGED <<client>>
    <3>1. m # NoSwipe  BY SwipeFields DEF ScreenTypeOK
    <3>2. UNCHANGED phoneButReply
      BY <2>1 DEF HandleSwipe, RecordSwipe, MatchSwipe, RepeatSwipe
    <3>3. UNCHANGED reply
      BY <3>1, <2>1 DEF HandleSwipe, RecordSwipe, MatchSwipe, RepeatSwipe, Answer
    <3> QED  BY <3>2, <3>3 DEF phoneButReply, client, cards
  <2>2. UNCHANGED <<queries, cards, report, hasExpired, matched, hasNavigated, mounted>>
    BY <2>1
       DEF ScreenNext, screenVars, client, ui, OtherSwipes, Expire, SettleOverdue, OtherFinishes,
           CommitSwipe, LoseCommit, LoadDeck, LoadProgress, Swipe, Resend, SwipeFails, SwipeAccepted,
           DeckEmptyEffect, HandleReport, ReportFails, RetryFinish, ReportClosed, TimerExpires,
           MatchEvent, ResultEvent, PollLobby, PollResult, ResultEffect, Dismiss, WheelDone, Unmount,
           Kill, Vanish
  <2> QED  BY <2>2 DEF queries, cards
<1> QED  BY <1>1, <1>2, <1>3, <1>4
--------------------------------------------------------------------------------
(* What the participant is shown.                                          *)

\* The outcome a phone has heard of is stored and fits the ballots.
LEMMA HeardStep ==
    ASSUME ScreenIInv, [ScreenNext]_screenVars
    PROVE  OutcomeFits' /\ HeardIsStored'
<1>0. ScreenTypeOK /\ OutcomeFits /\ HeardIsStored  BY DEF ScreenIInv
<1>1. ServerForward  BY <1>0, ServerMoves
<1>2. OutcomeFits'  BY <1>1 DEF OutcomeFits, ServerForward
<1>3. fetched' => outcome' # NoResult
  <2>1. fetched' => fetched \/ outcome # NoResult
    BY DEF ScreenNext, screenVars, client, queries, phoneButReply, OtherSwipes, Expire, SettleOverdue,
           OtherFinishes, HandleSwipe, RecordSwipe, MatchSwipe, RepeatSwipe, CommitSwipe, LoseCommit,
           LoadDeck, LoadProgress, Swipe, Resend, SwipeFails, SwipeAccepted, DeckEmptyEffect,
           HandleReport, ReportFails, RetryFinish, ReportClosed, TimerExpires, MatchEvent,
           ResultEvent, PollLobby, PollResult, ResultEffect, Dismiss, WheelDone, Unmount, Kill,
           Vanish, Reopen
  <2> QED  BY <1>0, <1>1, <2>1 DEF HeardIsStored, ServerForward
<1>4. report' = "closed" => outcome' # NoResult
  <2>1. CASE HandleReport
    <3>1. report' = "closed" => report = "closed" \/ Server!Close
      BY <2>1 DEF HandleReport, ReportAnswer
    <3> QED  BY <1>0, <1>1, <3>1, CloseMoves DEF HeardIsStored, ServerForward
  <2>2. ~ HandleReport => (report' = "closed" => report = "closed")
    BY DEF ScreenNext, screenVars, client, phoneButReply, HandleDeckEmpty, OtherSwipes, Expire,
           SettleOverdue, OtherFinishes, HandleSwipe, RecordSwipe, MatchSwipe, RepeatSwipe,
           CommitSwipe, LoseCommit, LoadDeck, LoadProgress, Swipe, Resend, SwipeFails, SwipeAccepted,
           DeckEmptyEffect, ReportFails, RetryFinish, ReportClosed, TimerExpires, MatchEvent,
           ResultEvent, PollLobby, PollResult, ResultEffect, Dismiss, WheelDone, Unmount, Kill,
           Vanish, Reopen
  <2> QED  BY <1>0, <1>1, <2>1, <2>2 DEF HeardIsStored, ServerForward
<1> QED  BY <1>2, <1>3, <1>4 DEF HeardIsStored

\* The popup shows the stored winner, the wheel turns where chance decided, and both are seen
\* before the result they lead to.
LEMMA ShownStep ==
    ASSUME ScreenIInv, [ScreenNext]_screenVars
    PROVE  ScreenFits' /\ NobodySkipsTheDraw' /\ DrawSeen' /\ LeftWithoutCard'
<1>0. /\ ScreenTypeOK /\ GoneIsBlank /\ OutcomeFits /\ HeardIsStored /\ ScreenFits
      /\ NobodySkipsTheDraw /\ DrawSeen /\ LeftWithoutCard
  BY DEF ScreenIInv
<1>1. outcome # NoResult => outcome' = outcome
  BY <1>0, ServerMoves DEF ServerForward
<1>2. NoResult \notin [kind : {"tie", "no_match"}, winner : Deck] /\ outcome \in Results \cup {NoResult}
  BY <1>0, ScreenAssumption DEF Results, Kinds, ScreenTypeOK
<1> USE DEF ScreenFits, NobodySkipsTheDraw, DrawSeen, LeftWithoutCard
<1>3. CASE UNCHANGED seen
  <2>1. matched # NoCard => outcome # NoResult
    BY <1>0, ScreenAssumption DEF ScreenTypeOK, Results, Kinds
  <2> QED  BY <1>0, <1>1, <1>2, <1>3, <2>1 DEF seen
<1>4. CASE /\ mounted /\ outcome # NoResult /\ UNCHANGED <<mounted, deck>>
           /\ GoToResolution(Announced)
  <2>1. outcome' = outcome /\ outcome \in Results  BY <1>1, <1>2, <1>4
  <2>2. hasNavigated <=> screen \in {"wheel", "result"}  BY <1>0, <1>4 DEF ScreenTypeOK
  <2>3. CASE UNCHANGED <<matched, hasNavigated, screen, presented>>
    BY <1>0, <2>1, <2>3
  <2>4. CASE /\ ~ hasNavigated /\ matched' \in Deck
             /\ outcome = [kind |-> "unanimous", winner |-> matched']
             /\ UNCHANGED <<hasNavigated, screen, presented>>
    BY <1>0, <2>1, <2>2, <2>4
  <2>5. CASE /\ ~ hasNavigated /\ UNCHANGED matched
             /\ outcome.kind \in {"tie", "no_match"} /\ screen' = "wheel" /\ presented' = "wheel"
    <3>1. matched = NoCard  BY <1>0, <2>5
    <3>2. outcome \in [kind : {"tie", "no_match"}, winner : Deck]  BY <2>1, <2>5 DEF Results
    <3> QED  BY <2>1, <2>5, <3>1, <3>2
  <2>6. CASE /\ ~ hasNavigated /\ UNCHANGED <<matched, presented>>
             /\ outcome.kind = "majority" /\ screen' = "result"
    <3>1. matched = NoCard  BY <1>0, <2>6
    <3> QED  BY <1>4, <2>1, <2>6, <3>1
  <2> QED  BY <1>0, <1>4, <2>3, <2>4, <2>5, <2>6, LearnsOutcome
<1>5. CASE Dismiss
  <2>1. outcome = [kind |-> "unanimous", winner |-> matched]  BY <1>0, <1>5 DEF Dismiss
  <2>2. outcome # NoResult /\ outcome' = outcome
    BY <1>0, <1>1, <1>5, <2>1, ScreenAssumption DEF Results, Kinds, ScreenTypeOK, Dismiss
  <2>3. screen' \in {screen, "result"} /\ screen # "wheel"  BY <1>0, <1>5, <2>1 DEF Dismiss
  <2> QED  BY <1>0, <1>5, <2>1, <2>2, <2>3 DEF Dismiss
<1>6. CASE WheelDone
  <2>1. outcome \in [kind : {"tie", "no_match"}, winner : Deck] /\ presented = "wheel"
    BY <1>0, <1>6 DEF WheelDone
  <2>2. outcome # NoResult /\ outcome' = outcome  BY <1>1, <1>2, <2>1
  <2>3. matched = NoCard  BY <1>0, <2>1
  <2> QED  BY <1>6, <2>1, <2>2, <2>3 DEF WheelDone
<1>7. CASE Unmount
  BY <1>0, <1>1, <1>2, <1>7 DEF Unmount, Vanish
<1>8. CASE Kill \/ Reopen
  BY <1>0, <1>8 DEF Kill, Reopen, Vanish, GoneIsBlank, Blank
<1> QED
  BY <1>0, <1>3, <1>4, <1>5, <1>6, <1>7, <1>8, ScreenMoves
--------------------------------------------------------------------------------
(* What the phone counts as swiped.                                        *)

\* An answered vote stays one: it is stored, waits for its commit or has died before it.
LEMMA AnsweredStays ==
    ASSUME ScreenTypeOK, OutcomeFits, [ScreenNext]_screenVars, NEW r \in Deck, Answered(r)
    PROVE  Answered(r)'
<1>1. ballots[Me][r] # "none" => ballots'[Me][r] # "none"
  BY ServerMoves DEF ServerForward
<1>2. CASE CommitSwipe
  <2>1. Me \in Users /\ uncommitted \in Swipes
    BY <1>2, ScreenAssumption DEF ScreenTypeOK, CommitSwipe, RowFree
  <2>2. uncommitted.item \in Deck /\ uncommitted.mark \in {"skip", "like"}  BY <2>1, SwipeFields
  <2>3. ballots'[Me][uncommitted.item] # "none"  BY <1>2, <2>1, <2>2, CastMoves DEF CommitSwipe
  <2> QED  BY <1>1, <1>2, <2>3 DEF Answered, CommitSwipe
<1>3. CASE LoseCommit
  BY <1>1, <1>3 DEF Answered, LoseCommit, server
<1>4. CASE \E m \in wire : RecordSwipe(m)
  BY <1>1, <1>4 DEF Answered, RecordSwipe, RowFree
<1>5. ~ (CommitSwipe \/ LoseCommit \/ \E m \in wire : RecordSwipe(m)) => UNCHANGED <<lost, uncommitted>>
  BY DEF ScreenNext, screenVars, requests, OtherSwipes, Expire, SettleOverdue, OtherFinishes, HandleSwipe,
         MatchSwipe, RepeatSwipe, LoadDeck, LoadProgress, Swipe, Resend, SwipeFails, SwipeAccepted,
         DeckEmptyEffect, HandleReport, ReportFails, RetryFinish, ReportClosed, TimerExpires,
         MatchEvent, ResultEvent, PollLobby, PollResult, ResultEffect, Dismiss, WheelDone, Unmount,
         Kill, Reopen
<1> QED  BY <1>1, <1>2, <1>3, <1>4, <1>5 DEF Answered

\* A handler answers about the vote it has recorded, now or at its commit, or found recorded.
LEMMA AnswerIsTrue ==
    ASSUME ScreenTypeOK, NEW m \in wire, HandleSwipe(m)
    PROVE  Answered(m.item)'
<1>1. Me \in Users /\ m \in Swipes /\ m # NoSwipe /\ m.item \in Deck /\ m.mark \in {"skip", "like"}
  BY SwipeFields, ScreenAssumption DEF ScreenTypeOK
<1>2. CASE RecordSwipe(m)  BY <1>1, <1>2 DEF RecordSwipe, Answered
<1>3. CASE MatchSwipe(m)
  <2>1. ballots'[Me][m.item] # "none"  BY <1>1, <1>3, CastMoves DEF MatchSwipe
  <2> QED  BY <2>1 DEF Answered
<1>4. CASE RepeatSwipe(m)  BY <1>4 DEF RepeatSwipe, Answered, server
<1> QED  BY <1>2, <1>3, <1>4 DEF HandleSwipe

\* A card is passed when its vote was answered, or was seen stored when the app was opened.
LEMMA PassedStep ==
    ASSUME ScreenIInv, [ScreenNext]_screenVars
    PROVE  PassedIsAnswered'
<1>0. ScreenTypeOK /\ OutcomeFits /\ PassedIsAnswered  BY DEF ScreenIInv
<1>1. \A r \in Deck : Answered(r) => Answered(r)'  BY <1>0, AnsweredStays
<1>2. \A r \in Deck : ballots[Me][r] # "none" => ballots'[Me][r] # "none"
  BY <1>0, ServerMoves DEF ServerForward
<1>3. reply # "none" => swipe # NoSwipe /\ swipe.item \in Deck
  BY <1>0, SwipeFields DEF ScreenTypeOK
<1>4. \A r \in Deck : told'[r] # "none" => Answered(r)'
  <2>1. CASE SwipeAccepted
    BY <1>0, <1>1, <1>3, <2>1 DEF SwipeAccepted, PassedIsAnswered, ScreenTypeOK
  <2>2. CASE Unmount \/ Kill
    BY <2>2 DEF Unmount, Kill, Vanish, NothingTold
  <2>3. ~ (SwipeAccepted \/ Unmount \/ Kill) => UNCHANGED told
    BY DEF ScreenNext, screenVars, client, cards, phoneButReply, OtherSwipes, Expire, SettleOverdue,
           OtherFinishes, HandleSwipe, RecordSwipe, MatchSwipe, RepeatSwipe, CommitSwipe, LoseCommit,
           LoadDeck, LoadProgress, Swipe, Resend, SwipeFails, DeckEmptyEffect, HandleReport,
           ReportFails, RetryFinish, ReportClosed, TimerExpires, MatchEvent, ResultEvent, PollLobby,
           PollResult, ResultEffect, Dismiss, WheelDone, Reopen
  <2> QED  BY <1>0, <1>1, <2>1, <2>2, <2>3 DEF PassedIsAnswered
<1>5. \A r \in Completed' : ballots'[Me][r] # "none"
  <2>1. CASE LoadProgress
    BY <2>1 DEF LoadProgress, Completed, Swiped, server
  <2>2. CASE Unmount \/ Kill
    BY <2>2 DEF Unmount, Kill, Vanish, Completed
  <2>3. ~ (LoadProgress \/ Unmount \/ Kill) => UNCHANGED progress
    BY DEF ScreenNext, screenVars, client, queries, phoneButReply, OtherSwipes, Expire, SettleOverdue,
           OtherFinishes, HandleSwipe, RecordSwipe, MatchSwipe, RepeatSwipe, CommitSwipe, LoseCommit,
           LoadDeck, Swipe, Resend, SwipeFails, SwipeAccepted, DeckEmptyEffect, HandleReport,
           ReportFails, RetryFinish, ReportClosed, TimerExpires, MatchEvent, ResultEvent, PollLobby,
           PollResult, ResultEffect, Dismiss, WheelDone, Reopen
  <2>4. Completed \subseteq Deck  BY <1>0 DEF Completed, ScreenTypeOK
  <2> QED  BY <1>0, <1>2, <2>1, <2>2, <2>3, <2>4 DEF PassedIsAnswered, Completed
<1>6. reply' # "none" => Answered(swipe.item)'
  <2>1. ASSUME NEW m \in wire, HandleSwipe(m), reply' # "none"
        PROVE  Answered(swipe.item)'
    <3>1. UNCHANGED swipe
      BY <2>1 DEF HandleSwipe, RecordSwipe, MatchSwipe, RepeatSwipe, phoneButReply
    <3>2. reply' = reply \/ swipe = m
      BY <2>1 DEF HandleSwipe, RecordSwipe, MatchSwipe, RepeatSwipe, Answer
    <3> QED  BY <1>0, <1>1, <1>3, <2>1, <3>1, <3>2, AnswerIsTrue DEF PassedIsAnswered
  <2>2. ASSUME NEW m \in Swipes, Swipe(m)  PROVE reply' = "none"
    BY <1>3, <2>2 DEF Swipe, ScreenTypeOK
  <2>3. CASE SwipeAccepted \/ SwipeFails \/ Unmount \/ Kill
    BY <2>3 DEF SwipeAccepted, SwipeFails, Unmount, Kill, Vanish
  <2>4. ~ (\/ \E m \in wire : HandleSwipe(m)
           \/ \E m \in Swipes : Swipe(m)
           \/ SwipeAccepted \/ SwipeFails \/ Unmount \/ Kill)
          => UNCHANGED <<swipe, reply>>
    BY DEF ScreenNext, screenVars, client, cards, OtherSwipes, Expire, SettleOverdue, OtherFinishes,
           CommitSwipe, LoseCommit, LoadDeck, LoadProgress, Resend, DeckEmptyEffect, HandleReport,
           ReportFails, RetryFinish, ReportClosed, TimerExpires, MatchEvent, ResultEvent, PollLobby,
           PollResult, ResultEffect, Dismiss, WheelDone, Reopen
  <2> QED  BY <1>0, <1>1, <1>3, <2>1, <2>2, <2>3, <2>4 DEF PassedIsAnswered
<1> QED  BY <1>4, <1>5, <1>6 DEF PassedIsAnswered

\* The last card, or a deck with nothing left, is when everything was answered.
LEMMA EarnedStep ==
    ASSUME ScreenIInv, [ScreenNext]_screenVars
    PROVE  ReportIsEarned'
<1>0. ScreenTypeOK /\ OutcomeFits /\ PassedIsAnswered /\ ReportIsEarned  BY DEF ScreenIInv
<1>1. \A r \in Deck : Answered(r) => Answered(r)'  BY <1>0, AnsweredStays
<1>2. report # "none" => \A r \in Deck : Answered(r)
  BY <1>0 DEF ReportIsEarned, Answered
<1>3. ASSUME deck = "ready", NEW r \in Deck, r \notin Remaining PROVE Answered(r)
  BY <1>0, <1>3 DEF Remaining, PassedIsAnswered, Answered
<1>4. report' # "none" => \A r \in Deck : Answered(r)
  <2>1. ASSUME SwipeAccepted, Cards = {swipe.item} PROVE \A r \in Deck : Answered(r)
    <3>1. deck = "ready"  BY <2>1 DEF Cards, Remaining
    <3>2. ASSUME NEW r \in Deck PROVE Answered(r)
      <4>1. CASE r = swipe.item  BY <1>0, <2>1, <4>1 DEF SwipeAccepted, PassedIsAnswered
      <4>2. CASE r \in Remaining /\ r # swipe.item
        BY <1>0, <2>1, <4>2 DEF Cards, PassedIsAnswered
      <4>3. CASE r \notin Remaining  BY <1>3, <3>1, <4>3
      <4> QED  BY <4>1, <4>2, <4>3
    <3> QED  BY <3>2
  <2>2. CASE SwipeAccepted
    BY <1>2, <2>1, <2>2 DEF SwipeAccepted
  <2>3. CASE DeckEmptyEffect
    BY <1>3, <2>3 DEF DeckEmptyEffect, NothingLeft
  <2>4. ~ (SwipeAccepted \/ DeckEmptyEffect) => (report' # "none" => report # "none")
    BY DEF ScreenNext, screenVars, client, phoneButReply, OtherSwipes, Expire, SettleOverdue,
           OtherFinishes, HandleSwipe, RecordSwipe, MatchSwipe, RepeatSwipe, CommitSwipe, LoseCommit,
           LoadDeck, LoadProgress, Swipe, Resend, SwipeFails, HandleReport, ReportFails, RetryFinish,
           ReportClosed, TimerExpires, MatchEvent, ResultEvent, PollLobby, PollResult, ResultEffect,
           Dismiss, WheelDone, Unmount, Kill, Vanish, Reopen
  <2> QED  BY <1>2, <2>2, <2>3, <2>4
<1> QED  BY <1>1, <1>4 DEF ReportIsEarned, Answered
--------------------------------------------------------------------------------
(* The theorems.                                                           *)

LEMMA ScreenInitIInv == ScreenInit => ScreenIInv
<1> SUFFICES ASSUME ScreenInit PROVE ScreenIInv  OBVIOUS
<1> USE DEF ScreenInit
<1>1. ballots \in Ballots /\ roster = Users /\ outcome = NoResult
  BY DEF Server!Init, Server!BlankBallot, Ballots, Marks
<1>2. /\ progress \subseteq SUBSET Deck /\ Cardinality(progress) <= 1
      /\ told \in [Deck -> Marks] /\ faults \in 0..MaxFaults
  BY FS_EmptySet, ScreenAssumption DEF NothingTold, Marks
<1>3. ScreenTypeOK  BY <1>1, <1>2 DEF ScreenTypeOK
<1>4. GoneIsBlank /\ OutcomeFits /\ HeardIsStored
  BY <1>1 DEF GoneIsBlank, OutcomeFits, HeardIsStored
<1>5. ScreenFits /\ NobodySkipsTheDraw /\ DrawSeen /\ LeftWithoutCard
  BY DEF ScreenFits, NobodySkipsTheDraw, DrawSeen, LeftWithoutCard
<1>6. PassedIsAnswered /\ ReportIsEarned
  BY DEF PassedIsAnswered, ReportIsEarned, NothingTold, Completed
<1> QED  BY <1>3, <1>4, <1>5, <1>6 DEF ScreenIInv

LEMMA ScreenStep == ScreenIInv /\ [ScreenNext]_screenVars => ScreenIInv'
<1> SUFFICES ASSUME ScreenIInv, [ScreenNext]_screenVars PROVE ScreenIInv'  OBVIOUS
<1> QED
  BY TypeStep, GoneStep, HeardStep, ShownStep, PassedStep, EarnedStep DEF ScreenIInv

LEMMA ScreenInvariance == ScreenSpec => []ScreenIInv
<1> QED  BY ScreenInitIInv, ScreenStep, PTL DEF ScreenSpec

\* The variables of the screen, its requests and its server keep their types; a left screen
\* is marked as left, a popup has its card (SessionSwipeScreen.tsx).
THEOREM ScreenTypeCorrect == ScreenSpec => []ScreenTypeOK
<1> QED  BY ScreenInvariance, PTL DEF ScreenIInv

\* Whatever tells the phone of the end, and however late: the popup shows the stored
\* unanimous winner, the wheel turns only where chance decided, and the result screen
\* is reached only when there is a result.
THEOREM OutcomeIsShown == ScreenSpec => []ScreenFits
<1> QED  BY ScreenInvariance, PTL DEF ScreenIInv

\* Nobody is on the result screen who has not seen the popup of a unanimous outcome, or
\* the wheel of a drawn one.
THEOREM DrawIsSeen == ScreenSpec => []NobodySkipsTheDraw
<1> QED  BY ScreenInvariance, PTL DEF ScreenIInv

\* A finished deck is reported only when the server has answered a vote for each restaurant.
THEOREM ReportsAreEarned == ScreenSpec => []ReportIsEarned
<1> QED  BY ScreenInvariance, PTL DEF ScreenIInv

\* Once the screen was left for the wheel or the result, no late event, answer or poll
\* brings back the wheel, the cards or a popup.
THEOREM LeavesForGood == ScreenSpec => LeavesOnce
<1>1. ASSUME ScreenIInv, [ScreenNext]_screenVars, mounted, screen \in {"wheel", "result"}
      PROVE  screen' \in {screen, "result", "away"} /\ matched' = NoCard
  <2>1. /\ ScreenTypeOK /\ GoneIsBlank /\ OutcomeFits /\ HeardIsStored
        /\ hasNavigated /\ matched = NoCard
    BY <1>1 DEF ScreenIInv, ScreenTypeOK, LeftWithoutCard
  <2>2. CASE UNCHANGED seen  BY <2>1, <2>2 DEF seen
  <2>3. CASE GoToResolution(Announced)  BY <2>1, <2>3 DEF GoToResolution, ui
  <2>4. CASE Dismiss \/ WheelDone \/ Reopen
    BY <1>1, <2>1, <2>4 DEF Dismiss, WheelDone, Reopen
  <2>5. CASE Unmount \/ Kill  BY <2>5 DEF Unmount, Kill, Vanish
  <2> QED  BY <1>1, <2>1, <2>2, <2>3, <2>4, <2>5, ScreenMoves
<1>2. ScreenIInv /\ [ScreenNext]_screenVars =>
        [(mounted /\ screen \in {"wheel", "result"}) =>
            screen' \in {screen, "result", "away"} /\ matched' = NoCard]_screenVars
  BY <1>1
<1> QED  BY <1>2, ScreenInvariance, PTL DEF ScreenSpec, LeavesOnce

\* The server a phone meets is AtomicVoting, so what is promised there holds here: swipes
\* that are answered early, lost or repeated never make it anything else.
THEOREM ScreenServer == ScreenSpec => Server!Spec
<1>1. ScreenInit => Server!Init  BY DEF ScreenInit
<1>2. ScreenIInv /\ [ScreenNext]_screenVars => [Server!Next]_(Server!vars)
  <2> SUFFICES ASSUME ScreenIInv, [ScreenNext]_screenVars PROVE [Server!Next]_(Server!vars)
    OBVIOUS
  <2>1. ScreenTypeOK  BY DEF ScreenIInv
  <2> QED  BY <2>1, ServerSteps DEF Server!Next, Server!vars, server
<1> QED  BY <1>1, <1>2, ScreenInvariance, PTL DEF ScreenSpec, Server!Spec
================================================================================
