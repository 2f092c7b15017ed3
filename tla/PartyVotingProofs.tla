--------------------------- MODULE PartyVotingProofs ---------------------------
(***************************************************************************)
(* Proofs about PartyVoting for every number of users, restaurants, slots  *)
(* and crashes.  IInv is the inductive invariant; its conjuncts follow the *)
(* argument of the code: the sessions row excludes other writers (LockOK), *)
(* so a status read under the lock stays true (StatusOK), a deletion has   *)
(* its rows for itself (DeletionOK), so that participants and their votes  *)
(* disappear together (RowsOK), therefore what a slot counted is still     *)
(* good enough when it commits (DecisionOK), and what is stored and told   *)
(* is what the ballots say (ResultOK, ToldOK).                             *)
(***************************************************************************)
EXTENDS PartyVoting, FiniteSetTheorems, TLAPS

SwipeCommits(t) == pc[t] = "commit" /\ req[t].kind = "swipe"

\* Where a deletion is under way.
Deletes == {"leave", "erase", "sever", "host", "gone"}

LockOK ==
    /\ \A t \in Slots : pc[t] \in Locked \/ SwipeCommits(t) => lock = t
    /\ \A t \in Slots : lock = t => pc[t] \in Locked \cup {"commit", "gone"}

\* Which handler a slot can be in at each place.
RequestOK ==
    \A t \in Slots :
        /\ pc[t] \in {"insert", "count", "likes"} => req[t].kind = "swipe"
        /\ pc[t] \in {"count", "likes"} => req[t].mark = "like"
        /\ pc[t] = "mark" => req[t].kind = "finish"
        /\ pc[t] = "check" => req[t].kind \in {"finish", "repeat"}
        /\ pc[t] \in {"lock", "tally", "reread"} => req[t].kind # "swipe"
        /\ pc[t] \in {"settle", "publish"} => outcome[t] \in Outcomes
        /\ pc[t] \in Deletes <=> req[t].kind = "delete"

StatusOK ==
    /\ status = "finished" <=> result # NoResult
    /\ \A t \in Slots :
          /\ pc[t] \in Locked \ {"reread"} \/ SwipeCommits(t) => status = "active"
          /\ pc[t] = "reread" => status = "finished"
          /\ pc[t] = "publish" => result = Persisted(outcome[t])

RowsOK ==
    /\ \A u \in Users \ participants : votes[u] = BlankBallot
    /\ \A t \in Slots, u \in Users :
          /\ PinsVoter(t, u) => u \in participants /\ votes[u][req[t].item] = "none"
          /\ PinsParticipant(t, u) => u \in participants

\* What a deletion holds, nobody else has written.
DeletionOK ==
    \A t \in Slots :
        /\ pc[t] = "idle" => roster[t] = {}
        /\ pc[t] \in Deletes => req[t].user \in Users
        /\ pc[t] \in {"host", "gone"} => req[t].user \in roster[t]
        /\ \A s \in Slots, u \in Users :
              /\ HoldsUser(t, u) => ~ PinsVoter(s, u)
              /\ HoldsParticipant(t, u) => ~ PinsParticipant(s, u)

EveryoneElseLikes(t) ==
    \A p \in participants : p = req[t].user \/ votes[p][req[t].item] = "like"

DecisionOK ==
    \A t \in Slots :
        /\ pc[t] = "likes" => participants \subseteq roster[t]
        /\ pc[t] = "settle" /\ req[t].kind = "swipe"
              => /\ req[t].mark = "like"
                 /\ outcome[t] = Unanimous(req[t].item)
                 /\ EveryoneElseLikes(t)
        /\ pc[t] = "settle" /\ req[t].kind # "swipe"
              => /\ outcome[t].kind # "unanimous"
                 /\ Everyone => outcome[t] \in Decisions(votes)
        /\ SwipeCommits(t) /\ req[t].mark = "like" /\ Everyone => ~ EveryoneElseLikes(t)

ResultOK == UnanimityIsReal /\ UnanimityNotMissed /\ ResultFitsBallots

ToldOK ==
    /\ OnlyTruthIsTold
    /\ Everyone => \A o \in shown : o = Recovered(result, votes)
    /\ Everyone => \A t \in Slots :
                      pc[t] = "publish" => outcome[t] = Recovered(result, votes)

IInv == /\ TypeOK /\ LockOK /\ RequestOK /\ StatusOK /\ RowsOK /\ DeletionOK
        /\ DecisionOK /\ ResultOK /\ ToldOK
--------------------------------------------------------------------------------
(* The ballot rules.                                                       *)

\* Whatever the ballots are, the tally draws a restaurant of the deck, never
\* calls the outcome unanimous, can be rebuilt from the stored row and puts the
\* winner on the wheel if it spins one.
LEMMA DecisionsAreOutcomes ==
    ASSUME NEW sheet, NEW o \in Decisions(sheet)
    PROVE  /\ o \in Outcomes
           /\ o.kind # "unanimous"
           /\ Persisted(o) \in Results
           /\ o = Recovered(Persisted(o), sheet)
           /\ o.wheel # {} => o.winner \in o.wheel
  <1> DEFINE leaders == Leaders(sheet)
  <1>1. leaders \subseteq Deck
    BY DEF Leaders
  <1>2. CASE leaders = {}
    <2>1. PICK r \in Deck : o = NoMatch(r)
      BY <1>2 DEF Decisions
    <2>2. QED
      BY <2>1 DEF NoMatch, Outcomes, Results, Kinds, Persisted, Recovered
  <1>3. CASE leaders # {} /\ Cardinality(leaders) = 1
    <2>1. PICK r \in leaders : o = Majority(r)
      BY <1>3 DEF Decisions
    <2>2. QED
      BY <1>1, <2>1 DEF Majority, Outcomes, Results, Kinds, Persisted, Recovered
  <1>4. CASE leaders # {} /\ Cardinality(leaders) # 1
    <2>1. PICK r \in leaders : o = Tie(r, leaders)
      BY <1>4 DEF Decisions
    <2>2. QED
      BY <1>1, <2>1 DEF Tie, Outcomes, Results, Kinds, Persisted, Recovered
  <1>5. QED
    BY <1>2, <1>3, <1>4

LEMMA RecoveredType ==
    ASSUME NEW res \in Results, NEW sheet
    PROVE  Recovered(res, sheet) \in Outcomes /\ Persisted(Recovered(res, sheet)) = res
  <1>1. Leaders(sheet) \subseteq Deck
    BY DEF Leaders
  <1>2. QED
    BY <1>1 DEF Recovered, Outcomes, Results, Persisted
--------------------------------------------------------------------------------
(* The inductive invariant, one lemma per conjunct.                        *)

LEMMA InvInit == Init => IInv
  <1> SUFFICES ASSUME Init PROVE IInv
    OBVIOUS
  <1> USE DEF Init
  <1>1. TypeOK
    <2>1. votes \in Ballots
      BY DEF Ballots, BlankBallot, Marks
    <2>2. /\ pc \in [Slots -> Places] /\ req \in [Slots -> Requests \cup {NoRequest}]
          /\ roster \in [Slots -> SUBSET Users]
          /\ outcome \in [Slots -> Outcomes \cup {NoOutcome}]
      BY DEF Places
    <2>3. crashes \in 0..MaxCrashes
      BY SlotAssumption
    <2>4. QED
      BY <2>1, <2>2, <2>3 DEF TypeOK
  <1>2. LockOK /\ RequestOK /\ RowsOK /\ DeletionOK
    BY SlotAssumption
       DEF LockOK, RequestOK, RowsOK, DeletionOK, Deletes, Locked, SwipeCommits, NoRequest,
           PinsVoter, PinsParticipant, HoldsUser, HoldsParticipant
  <1>3. StatusOK /\ DecisionOK /\ ToldOK
    BY DEF StatusOK, DecisionOK, ToldOK, OnlyTruthIsTold, Locked, SwipeCommits
  <1>4. ResultOK
    BY SessionAssumption
       DEF ResultOK, UnanimityIsReal, UnanimityNotMissed, ResultFitsBallots, Likers, BlankBallot
  <1>5. QED
    BY <1>1, <1>2, <1>3, <1>4 DEF IInv

\* A request of a kind has the fields of that kind.
LEMMA RequestFields ==
    ASSUME TypeOK, NEW t \in Slots
    PROVE  /\ req[t].kind = "swipe" => /\ req[t].user \in Users
                                       /\ req[t].item \in Deck
                                       /\ req[t].mark \in {"skip", "like"}
           /\ req[t].kind = "finish" => req[t].user \in Users
  BY DEF TypeOK, Requests, NoRequest

LEMMA WriteTypes ==
    ASSUME TypeOK, RowsOK, NEW t \in Slots, WriteVote(t), WriteWaiting(t),
           participants' = participants,
           pc[t] \in {"reread", "settle", "commit"}
    PROVE  votes' \in Ballots /\ waiting' \subseteq participants'
  <1>1. votes' \in Ballots
    BY RequestFields DEF WriteVote, TypeOK, Ballots, Marks
  <1>2. req[t].kind = "finish" => req[t].user \in participants
    BY RequestFields DEF RowsOK, PinsParticipant
  <1>3. QED
    BY <1>1, <1>2 DEF WriteWaiting, TypeOK

LEMMA TypeStep == IInv /\ [Next]_vars => TypeOK'
  <1> SUFFICES ASSUME IInv, [Next]_vars PROVE TypeOK'
    OBVIOUS
  <1> USE DEF TypeOK, Accept, Goto, End, Unlock, rows
  <1>0. TypeOK /\ RequestOK /\ StatusOK /\ RowsOK
    BY DEF IInv
  <1>1. ASSUME NEW t \in Slots, NEW u \in Users, Request(t, u) PROVE TypeOK'
    BY <1>0, <1>1 DEF Request, Swipe, Finish, AskResult, DeleteAccount, Requests, Places
  <1>2. CASE Beat
    BY <1>0, <1>2, SlotAssumption DEF Beat, NoRequest, Requests, Places
  <1>3. ASSUME NEW t \in Slots, Step(t) PROVE TypeOK'
    <2>1. CASE RefuseVote(t)
      BY <1>0, <2>1 DEF RefuseVote, Places
    <2>2. CASE InsertVote(t) \/ CountParticipants(t) \/ CheckAllFinished(t) \/ MarkWaiting(t)
      BY <1>0, <2>2 DEF InsertVote, CountParticipants, CheckAllFinished, MarkWaiting, Places
    <2>3. CASE CountLikes(t)
      <3>1. Unanimous(req[t].item) \in Outcomes
        BY <1>0, <2>3 DEF CountLikes, RequestOK, Requests, NoRequest, Unanimous, Outcomes, Kinds
      <3>2. QED
        BY <1>0, <2>3, <3>1 DEF CountLikes, Places
    <2>4. CASE Commit(t)
      <3>1. votes' \in Ballots /\ waiting' \subseteq participants'
        BY <1>0, <2>4, WriteTypes DEF Commit
      <3>2. QED
        BY <1>0, <2>4, <3>1 DEF Commit, Places
    <2>5. CASE MarkFails(t) \/ FetchMissing(t)
      BY <1>0, <2>5 DEF MarkFails, FetchMissing, Places
    <2>6. CASE AcquireLock(t)
      BY <1>0, <2>6 DEF AcquireLock, AfterLock, Places
    <2>7. CASE Tally(t)
      BY <1>0, <2>7, DecisionsAreOutcomes DEF Tally, Places
    <2>8. CASE Settle(t)
      <3>1. votes' \in Ballots /\ waiting' \subseteq participants'
        BY <1>0, <2>8, WriteTypes DEF Settle
      <3>2. Persisted(outcome[t]) \in Results
        BY <1>0, <2>8 DEF Settle, RequestOK, Persisted, Outcomes, Results
      <3>3. QED
        BY <1>0, <2>8, <3>1, <3>2 DEF Settle, Places
    <2>9. CASE Reread(t)
      <3>1. waiting' \subseteq participants'
        <4>1. req[t].kind = "finish" => req[t].user \in participants
          BY <1>0, <2>9, RequestFields DEF Reread, RowsOK, PinsParticipant
        <4>2. QED
          BY <1>0, <2>9, <4>1 DEF Reread, WriteWaiting
      <3>2. Recovered(result, votes) \in Outcomes
        BY <1>0, <2>9, RecoveredType DEF Reread, StatusOK
      <3>3. QED
        BY <1>0, <2>9, <3>1, <3>2 DEF Reread, Places
    <2>10. CASE Publish(t)
      BY <1>0, <2>10 DEF Publish, RequestOK, Places
    <2>11. CASE FetchResult(t)
      BY <1>0, <2>11, RecoveredType DEF FetchResult, Places
    <2>12. QED
      BY <1>3, <2>1, <2>2, <2>3, <2>4, <2>5, <2>6, <2>7, <2>8, <2>9, <2>10, <2>11 DEF Step
  <1>4. ASSUME NEW t \in Slots, Crash(t) \/ DetectDeadlock(t) PROVE TypeOK'
    BY <1>0, <1>4, SlotAssumption DEF Crash, DetectDeadlock, Places
  <1>5. CASE Expire
    BY <1>0, <1>5 DEF Expire
  <1>6. ASSUME NEW t \in Slots, Deletion(t) PROVE TypeOK'
    <2>1. CASE DeleteCommit(t)
      BY <1>0, <2>1 DEF DeleteCommit, Ballots, BlankBallot, Marks, Places
    <2>2. CASE LeaveSession(t) \/ EraseUser(t) \/ EraseNothing(t)
      BY <1>0, <2>2 DEF LeaveSession, EraseUser, EraseNothing, Places
    <2>3. CASE SeverRows(t) \/ ClearHost(t)
      <3>1. pc[t] = "sever" => req[t].user \in Users
        BY <1>0 DEF RequestOK, Deletes, Requests, NoRequest
      <3>2. QED
        BY <1>0, <2>3, <3>1 DEF SeverRows, ClearHost, At, Places
    <2>4. QED
      BY <1>6, <2>1, <2>2, <2>3 DEF Deletion
  <1>7. CASE UNCHANGED vars
    BY <1>0, <1>7 DEF vars
  <1>8. QED
    BY <1>1, <1>2, <1>3, <1>4, <1>5, <1>6, <1>7 DEF Next

LEMMA LockStep == IInv /\ [Next]_vars => LockOK'
  <1> SUFFICES ASSUME IInv, [Next]_vars PROVE LockOK'
    OBVIOUS
  <1>0. TypeOK /\ LockOK /\ RequestOK
    BY DEF IInv
  <1> USE <1>0, SlotAssumption DEF TypeOK, LockOK, Locked, SwipeCommits, Accept, Goto, End, Unlock, rows
  <1>1. ASSUME NEW t \in Slots, NEW u \in Users, Request(t, u) PROVE LockOK'
    BY <1>1 DEF Request, Swipe, Finish, AskResult, DeleteAccount
  <1>2. CASE Beat
    BY <1>2 DEF Beat
  <1>3. ASSUME NEW t \in Slots, Step(t) PROVE LockOK'
    <2>1. CASE RefuseVote(t) \/ InsertVote(t) \/ CountParticipants(t) \/ CountLikes(t)
      BY <2>1 DEF RefuseVote, InsertVote, CountParticipants, CountLikes, RequestOK, At
    <2>2. CASE MarkWaiting(t) \/ MarkFails(t) \/ CheckAllFinished(t) \/ Commit(t)
      BY <2>2 DEF MarkWaiting, MarkFails, CheckAllFinished, Commit, RequestOK, At
    <2>3. CASE AcquireLock(t) \/ Tally(t) \/ Settle(t) \/ Reread(t)
      BY <2>3 DEF AcquireLock, AfterLock, Tally, Settle, Reread
    <2>4. CASE Publish(t) \/ FetchMissing(t) \/ FetchResult(t)
      BY <2>4 DEF Publish, FetchMissing, FetchResult
    <2>5. QED
      BY <1>3, <2>1, <2>2, <2>3, <2>4 DEF Step
  <1>4. ASSUME NEW t \in Slots, Crash(t) \/ DetectDeadlock(t) PROVE LockOK'
    BY <1>4 DEF Crash, DetectDeadlock
  <1>5. CASE Expire \/ UNCHANGED vars
    BY <1>5 DEF Expire, vars
  <1>6. ASSUME NEW t \in Slots, Deletion(t) PROVE LockOK'
    <2>1. CASE LeaveSession(t) \/ EraseUser(t) \/ EraseNothing(t)
      BY <2>1 DEF LeaveSession, EraseUser, EraseNothing, At
    <2>2. CASE SeverRows(t) \/ ClearHost(t)
      BY <2>2 DEF SeverRows, ClearHost, At
    <2>3. CASE DeleteCommit(t)
      BY <2>3 DEF DeleteCommit
    <2>4. QED
      BY <1>6, <2>1, <2>2, <2>3 DEF Deletion
  <1>7. QED
    BY <1>1, <1>2, <1>3, <1>4, <1>5, <1>6 DEF Next

LEMMA RequestStep == IInv /\ [Next]_vars => RequestOK'
  <1> SUFFICES ASSUME IInv, [Next]_vars PROVE RequestOK'
    OBVIOUS
  <1>0. TypeOK /\ RequestOK /\ StatusOK
    BY DEF IInv
  <1> USE <1>0, SlotAssumption DEF TypeOK, RequestOK, Deletes, NoRequest, Accept, Goto, End, rows
  <1>1. ASSUME NEW t \in Slots, NEW u \in Users, Request(t, u) PROVE RequestOK'
    BY <1>1 DEF Request, Swipe, Finish, AskResult, DeleteAccount
  <1>2. CASE Beat
    BY <1>2 DEF Beat, NoRequest
  <1>3. ASSUME NEW t \in Slots, Step(t) PROVE RequestOK'
    <2>1. CASE RefuseVote(t) \/ InsertVote(t) \/ CountParticipants(t)
      BY <2>1 DEF RefuseVote, InsertVote, CountParticipants, At
    <2>2. CASE CountLikes(t)
      <3>1. Unanimous(req[t].item) \in Outcomes
        BY <2>2, RequestFields DEF CountLikes, Unanimous, Outcomes, Kinds
      <3>2. QED
        BY <2>2, <3>1 DEF CountLikes
    <2>3. CASE MarkWaiting(t) \/ MarkFails(t) \/ CheckAllFinished(t) \/ Commit(t)
      BY <2>3 DEF MarkWaiting, MarkFails, CheckAllFinished, Commit, At
    <2>4. CASE AcquireLock(t) \/ Settle(t)
      BY <2>4 DEF AcquireLock, AfterLock, Settle
    <2>5. CASE Tally(t)
      BY <2>5, DecisionsAreOutcomes DEF Tally
    <2>6. CASE Reread(t)
      BY <2>6, RecoveredType DEF Reread, StatusOK
    <2>7. CASE Publish(t) \/ FetchMissing(t) \/ FetchResult(t)
      BY <2>7 DEF Publish, FetchMissing, FetchResult
    <2>8. QED
      BY <1>3, <2>1, <2>2, <2>3, <2>4, <2>5, <2>6, <2>7 DEF Step
  <1>4. ASSUME NEW t \in Slots, Crash(t) \/ DetectDeadlock(t) PROVE RequestOK'
    BY <1>4 DEF Crash, DetectDeadlock
  <1>5. CASE Expire \/ UNCHANGED vars
    BY <1>5 DEF Expire, vars
  <1>6. ASSUME NEW t \in Slots, Deletion(t) PROVE RequestOK'
    <2>1. CASE LeaveSession(t) \/ EraseUser(t) \/ EraseNothing(t)
      BY <2>1 DEF LeaveSession, EraseUser, EraseNothing, At
    <2>2. CASE SeverRows(t) \/ ClearHost(t)
      BY <2>2 DEF SeverRows, ClearHost, At
    <2>3. CASE DeleteCommit(t)
      BY <2>3 DEF DeleteCommit
    <2>4. QED
      BY <1>6, <2>1, <2>2, <2>3 DEF Deletion
  <1>7. QED
    BY <1>1, <1>2, <1>3, <1>4, <1>5, <1>6 DEF Next

LEMMA StatusStep == IInv /\ [Next]_vars => StatusOK'
  <1> SUFFICES ASSUME IInv, [Next]_vars PROVE StatusOK'
    OBVIOUS
  <1>0. TypeOK /\ LockOK /\ RequestOK /\ StatusOK
    BY DEF IInv
  <1> USE <1>0, SlotAssumption DEF TypeOK, StatusOK, Locked, SwipeCommits, Accept, Goto, End, rows
  <1>1. ASSUME NEW t \in Slots, NEW u \in Users, Request(t, u) PROVE StatusOK'
    BY <1>1 DEF Request, Swipe, Finish, AskResult, DeleteAccount, Open
  <1>2. CASE Beat
    BY <1>2 DEF Beat
  <1>3. ASSUME NEW t \in Slots, Step(t) PROVE StatusOK'
    <2>1. CASE RefuseVote(t) \/ InsertVote(t) \/ CountParticipants(t) \/ CountLikes(t)
      BY <2>1 DEF RefuseVote, InsertVote, CountParticipants, CountLikes, RequestOK, At
    <2>2. CASE MarkWaiting(t) \/ MarkFails(t) \/ CheckAllFinished(t) \/ Commit(t)
      BY <2>2 DEF MarkWaiting, MarkFails, CheckAllFinished, Commit, RequestOK
    <2>3. CASE AcquireLock(t) \/ Tally(t)
      BY <2>3 DEF AcquireLock, AfterLock, Tally
    <2>4. CASE Settle(t)
      <3>1. Persisted(outcome[t]) \in Results
        BY <2>4 DEF Settle, RequestOK, Persisted, Outcomes, Results
      <3>2. \A s \in Slots \ {t} : ~ (pc[s] \in Locked \/ SwipeCommits(s))
        BY <2>4 DEF Settle, LockOK
      <3>3. \A s \in Slots : pc[s] # "publish"
        BY <2>4 DEF Settle, RequestOK, Persisted, Outcomes, Results
      <3>4. QED
        BY <2>4, <3>1, <3>2, <3>3 DEF Settle
    <2>5. CASE Reread(t)
      BY <2>5, RecoveredType DEF Reread
    <2>6. CASE Publish(t) \/ FetchMissing(t) \/ FetchResult(t)
      BY <2>6 DEF Publish, FetchMissing, FetchResult
    <2>7. QED
      BY <1>3, <2>1, <2>2, <2>3, <2>4, <2>5, <2>6 DEF Step
  <1>4. ASSUME NEW t \in Slots, Crash(t) \/ DetectDeadlock(t) PROVE StatusOK'
    BY <1>4 DEF Crash, DetectDeadlock
  <1>5. CASE Expire \/ UNCHANGED vars
    BY <1>5 DEF Expire, vars
  <1>6. ASSUME NEW t \in Slots, Deletion(t) PROVE StatusOK'
    <2>1. CASE LeaveSession(t) \/ EraseUser(t) \/ EraseNothing(t)
      BY <2>1 DEF LeaveSession, EraseUser, EraseNothing, At
    <2>2. CASE SeverRows(t) \/ ClearHost(t)
      BY <2>2 DEF SeverRows, ClearHost, At
    <2>3. CASE DeleteCommit(t)
      BY <2>3 DEF DeleteCommit
    <2>4. QED
      BY <1>6, <2>1, <2>2, <2>3 DEF Deletion
  <1>7. QED
    BY <1>1, <1>2, <1>3, <1>4, <1>5, <1>6 DEF Next

\* At its commit a deletion has all its rows: nobody has an uncommitted vote or
\* WAITING mark of the user.
LEMMA DeletionIsAlone ==
    ASSUME TypeOK, RequestOK, DeletionOK, NEW t \in Slots, pc[t] = "gone"
    PROVE  /\ req[t].user \in Users
           /\ \A s \in Slots : ~ PinsVoter(s, req[t].user) /\ ~ PinsParticipant(s, req[t].user)
  BY DEF RequestOK, DeletionOK, Deletes, HoldsUser, HoldsParticipant

LEMMA RowsStep == IInv /\ [Next]_vars => RowsOK'
  <1> SUFFICES ASSUME IInv, [Next]_vars PROVE RowsOK'
    OBVIOUS
  <1>0. TypeOK /\ LockOK /\ RequestOK /\ RowsOK
    BY DEF IInv
  <1> USE <1>0, SlotAssumption
      DEF TypeOK, RowsOK, PinsVoter, PinsParticipant, Accept, Goto, End, rows
  <1>1. ASSUME NEW t \in Slots, NEW u \in Users, Request(t, u) PROVE RowsOK'
    BY <1>1 DEF Request, Swipe, Finish, AskResult, DeleteAccount
  <1>2. CASE Beat
    BY <1>2 DEF Beat
  <1>3. ASSUME NEW t \in Slots, Step(t) PROVE RowsOK'
    <2>1. CASE RefuseVote(t) \/ CountParticipants(t)
      BY <2>1 DEF RefuseVote, CountParticipants
    <2>2. CASE InsertVote(t)
      BY <2>2 DEF InsertVote, RequestOK
    <2>3. CASE CountLikes(t)
      BY <2>3 DEF CountLikes, RequestOK
    <2>4. CASE MarkWaiting(t) \/ MarkFails(t) \/ CheckAllFinished(t)
      BY <2>4 DEF MarkWaiting, MarkFails, CheckAllFinished, RequestOK
    <2>5. ASSUME WriteVote(t), pc[t] \in {"settle", "commit"},
                 participants' = participants, req' = req \/ End(t), pc'[t] \in {"idle", "publish"},
                 \A s \in Slots \ {t} : pc'[s] = pc[s] /\ req'[s] = req[s]
          PROVE RowsOK'
      <3>1. CASE req[t].kind # "swipe"
        BY <2>5, <3>1 DEF WriteVote
      <3>2. CASE req[t].kind = "swipe"
        <4>1. /\ req[t].user \in participants
              /\ req[t].item \in Deck
          BY <2>5, <3>2, RequestFields
        <4>2. \A s \in Slots \ {t}, u \in Users : ~ PinsVoter(s, u)
          BY <2>5, <3>2 DEF LockOK, Locked, SwipeCommits
        <4>3. \A u \in Users \ participants : votes'[u] = votes[u]
          BY <2>5, <3>2, <4>1 DEF WriteVote, Ballots
        <4>4. QED
          BY <2>5, <4>2, <4>3
      <3>3. QED
        BY <3>1, <3>2
    <2>6. CASE Commit(t)
      BY <2>5, <2>6 DEF Commit
    <2>7. CASE Settle(t)
      BY <2>5, <2>7 DEF Settle
    <2>8. CASE AcquireLock(t) \/ Tally(t) \/ Reread(t)
      BY <2>8 DEF AcquireLock, AfterLock, Tally, Reread, RequestOK
    <2>9. CASE Publish(t) \/ FetchMissing(t) \/ FetchResult(t)
      BY <2>9 DEF Publish, FetchMissing, FetchResult
    <2>10. QED
      BY <1>3, <2>1, <2>2, <2>3, <2>4, <2>6, <2>7, <2>8, <2>9 DEF Step
  <1>4. ASSUME NEW t \in Slots, Crash(t) \/ DetectDeadlock(t) PROVE RowsOK'
    BY <1>4 DEF Crash, DetectDeadlock
  <1>5. CASE Expire \/ UNCHANGED vars
    BY <1>5 DEF Expire, vars
  <1>6. ASSUME NEW t \in Slots, Deletion(t) PROVE RowsOK'
    <2>1. CASE LeaveSession(t) \/ EraseUser(t) \/ EraseNothing(t)
      BY <2>1 DEF LeaveSession, EraseUser, EraseNothing, At
    <2>2. CASE SeverRows(t) \/ ClearHost(t)
      BY <2>2 DEF SeverRows, ClearHost, At
    <2>3. CASE DeleteCommit(t)
      <3>1. \A s \in Slots : ~ PinsVoter(s, req[t].user) /\ ~ PinsParticipant(s, req[t].user)
        BY <2>3, DeletionIsAlone DEF DeleteCommit, IInv
      <3>2. QED
        BY <2>3, <3>1 DEF DeleteCommit, Ballots
    <2>4. QED
      BY <1>6, <2>1, <2>2, <2>3 DEF Deletion
  <1>7. QED
    BY <1>1, <1>2, <1>3, <1>4, <1>5, <1>6 DEF Next

LEMMA DeletionStep == IInv /\ [Next]_vars => DeletionOK'
  <1> SUFFICES ASSUME IInv, [Next]_vars PROVE DeletionOK'
    OBVIOUS
  <1>0. TypeOK /\ RequestOK /\ DeletionOK
    BY DEF IInv
  <1> USE <1>0, SlotAssumption
      DEF TypeOK, DeletionOK, Deletes, HoldsUser, HoldsParticipant, PinsVoter, PinsParticipant,
          Accept, Goto, End, rows
  <1>1. ASSUME NEW t \in Slots, NEW u \in Users, Request(t, u) PROVE DeletionOK'
    <2>1. CASE \E r \in Deck, mark \in {"skip", "like"} : Swipe(t, u, r, mark)
      BY <2>1 DEF Swipe
    <2>2. CASE Finish(t, u)
      BY <2>2 DEF Finish
    <2>3. CASE AskResult(t, u) \/ DeleteAccount(t, u)
      BY <2>3 DEF AskResult, DeleteAccount, RequestOK
    <2>4. QED
      BY <1>1, <2>1, <2>2, <2>3 DEF Request
  <1>2. CASE Beat
    BY <1>2 DEF Beat, NoRequest
  <1>3. ASSUME NEW t \in Slots, Step(t) PROVE DeletionOK'
    <2>1. CASE RefuseVote(t) \/ CountParticipants(t) \/ CountLikes(t)
      BY <2>1 DEF RefuseVote, CountParticipants, CountLikes, RequestOK
    <2>2. CASE InsertVote(t)
      BY <2>2 DEF InsertVote, At, WaitsFor, RequestOK
    <2>3. CASE MarkWaiting(t)
      BY <2>3 DEF MarkWaiting, At, WaitsFor, RowTaken, RequestOK
    <2>4. CASE MarkFails(t) \/ CheckAllFinished(t) \/ Commit(t)
      BY <2>4 DEF MarkFails, CheckAllFinished, Commit, RequestOK
    <2>5. CASE AcquireLock(t) \/ Tally(t)
      BY <2>5 DEF AcquireLock, AfterLock, Tally, RequestOK
    <2>6. CASE Settle(t) \/ Reread(t) \/ Publish(t)
      BY <2>6 DEF Settle, Reread, Publish, RequestOK
    <2>7. CASE FetchMissing(t) \/ FetchResult(t)
      BY <2>7 DEF FetchMissing, FetchResult
    <2>8. QED
      BY <1>3, <2>1, <2>2, <2>3, <2>4, <2>5, <2>6, <2>7 DEF Step
  <1>4. ASSUME NEW t \in Slots, Crash(t) \/ DetectDeadlock(t) PROVE DeletionOK'
    BY <1>4 DEF Crash, DetectDeadlock
  <1>5. CASE Expire \/ UNCHANGED vars
    BY <1>5 DEF Expire, vars
  <1>6. ASSUME NEW t \in Slots, Deletion(t) PROVE DeletionOK'
    <2>1. CASE LeaveSession(t)
      BY <2>1 DEF LeaveSession, At, WaitsFor, RowTaken, RequestOK
    <2>2. CASE EraseUser(t)
      BY <2>2 DEF EraseUser, At, WaitsFor, RequestOK
    <2>3. CASE SeverRows(t)
      BY <2>3 DEF SeverRows, At, WaitsFor, RowTaken, RequestOK
    <2>4. CASE ClearHost(t)
      BY <2>4 DEF ClearHost, At, RequestOK
    <2>5. CASE EraseNothing(t) \/ DeleteCommit(t)
      BY <2>5 DEF EraseNothing, DeleteCommit
    <2>6. QED
      BY <1>6, <2>1, <2>2, <2>3, <2>4, <2>5 DEF Deletion
  <1>7. QED
    BY <1>1, <1>2, <1>3, <1>4, <1>5, <1>6 DEF Next

\* A recorded vote is a swipe of a participant over a blank mark.
LEMMA WriteVoteEffect ==
    ASSUME IInv, NEW t \in Slots, WriteVote(t), pc[t] \in {"settle", "commit"}
    PROVE  /\ req[t].kind # "swipe" => votes' = votes
           /\ req[t].kind = "swipe" =>
                /\ req[t].user \in participants
                /\ req[t].item \in Deck
                /\ req[t].mark \in {"skip", "like"}
                /\ votes[req[t].user][req[t].item] = "none"
                /\ \A u \in Users, r \in Deck :
                      votes'[u][r] = IF u = req[t].user /\ r = req[t].item
                                     THEN req[t].mark ELSE votes[u][r]
  <1>1. TypeOK /\ RowsOK
    BY DEF IInv
  <1>2. CASE req[t].kind # "swipe"
    BY <1>2 DEF WriteVote
  <1>3. CASE req[t].kind = "swipe"
    <2>1. /\ req[t].user \in Users /\ req[t].item \in Deck /\ req[t].mark \in {"skip", "like"}
      BY <1>1, <1>3, RequestFields
    <2>2. PinsVoter(t, req[t].user)
      BY <1>3 DEF PinsVoter
    <2>3. QED
      BY <1>1, <1>3, <2>1, <2>2 DEF WriteVote, RowsOK, TypeOK, Ballots
  <1>4. QED
    BY <1>2, <1>3

\* Comparing two counts is comparing two sets: the likers are participants and
\* the participants counted earlier include those of now.
LEMMA CountsCompareSets ==
    ASSUME IInv, NEW t \in Slots, pc[t] = "likes"
    PROVE  /\ IsUnanimous(t) => EveryoneElseLikes(t)
           /\ ~ IsUnanimous(t) /\ Everyone => ~ EveryoneElseLikes(t)
  <1> DEFINE own == OwnLikers(t)
             seen == roster[t]
  <1>0. TypeOK /\ RequestOK /\ RowsOK /\ DecisionOK
    BY DEF IInv
  <1>1. req[t].user \in participants /\ req[t].item \in Deck
    BY <1>0, RequestFields DEF RequestOK, RowsOK, PinsVoter
  <1>2. own \subseteq participants
    <2>1. \A u \in Users \ participants : votes[u][req[t].item] # "like"
      BY <1>0, <1>1 DEF RowsOK, BlankBallot
    <2>2. QED
      BY <1>1, <2>1 DEF OwnLikers, Likers
  <1>3. participants \subseteq seen /\ seen \subseteq Users
    BY <1>0 DEF DecisionOK, TypeOK
  <1>4. IsFiniteSet(seen) /\ IsFiniteSet(own)
    BY <1>2, <1>3, SessionAssumption, FS_Subset
  <1>5. IsUnanimous(t) => own = seen
    <2>1. /\ Cardinality(own) \in Nat /\ Cardinality(seen) \in Nat
          /\ Cardinality(own) <= Cardinality(seen)
          /\ Cardinality(own) = Cardinality(seen) => own = seen
      BY <1>2, <1>3, <1>4, FS_Subset, FS_CardinalityType
    <2>2. IsUnanimous(t) => Cardinality(own) >= Cardinality(seen)
      BY DEF IsUnanimous
    <2>3. QED
      BY <2>1, <2>2
  <1>6. EveryoneElseLikes(t) /\ Everyone => own = seen
    BY <1>0, <1>1, <1>2, <1>3 DEF EveryoneElseLikes, Everyone, OwnLikers, Likers, TypeOK
  <1>7. own = seen => IsUnanimous(t)
    <2>1. own # {} /\ Cardinality(own) \in Nat
      BY <1>1, <1>4, FS_CardinalityType DEF OwnLikers
    <2>2. own = seen => seen # {} /\ Cardinality(own) >= Cardinality(seen)
      BY <2>1
    <2>3. QED
      BY <2>2 DEF IsUnanimous
  <1>8. IsUnanimous(t) => EveryoneElseLikes(t)
    BY <1>3, <1>5 DEF EveryoneElseLikes, OwnLikers, Likers
  <1>9. QED
    BY <1>6, <1>7, <1>8

LEMMA DecisionStep == IInv /\ [Next]_vars => DecisionOK'
  <1> SUFFICES ASSUME IInv, [Next]_vars PROVE DecisionOK'
    OBVIOUS
  <1>0. TypeOK /\ LockOK /\ RequestOK /\ DecisionOK
    BY DEF IInv
  <1> USE <1>0, SlotAssumption
      DEF TypeOK, DecisionOK, EveryoneElseLikes, Everyone, SwipeCommits, Accept, Goto, End, rows
  <1>1. ASSUME NEW t \in Slots, NEW u \in Users, Request(t, u) PROVE DecisionOK'
    BY <1>1 DEF Request, Swipe, Finish, AskResult, DeleteAccount
  <1>2. CASE Beat
    BY <1>2 DEF Beat
  <1>3. ASSUME NEW t \in Slots, Step(t) PROVE DecisionOK'
    <2>1. CASE RefuseVote(t) \/ CountParticipants(t)
      BY <2>1 DEF RefuseVote, CountParticipants
    <2>2. CASE InsertVote(t)
      BY <2>2, RequestFields DEF InsertVote, RequestOK
    <2>3. CASE CountLikes(t)
      BY <2>3, CountsCompareSets DEF CountLikes, RequestOK
    <2>4. CASE MarkWaiting(t) \/ MarkFails(t) \/ CheckAllFinished(t)
      BY <2>4 DEF MarkWaiting, MarkFails, CheckAllFinished, RequestOK
    <2>5. CASE AcquireLock(t)
      BY <2>5 DEF AcquireLock, AfterLock, RequestOK
    <2>6. CASE Tally(t)
      BY <2>6, DecisionsAreOutcomes DEF Tally, RequestOK
    <2>7. CASE Commit(t) \/ Settle(t)
      <3>1. CASE req[t].kind # "swipe"
        <4>1. votes' = votes
          BY <2>7, <3>1 DEF Commit, Settle, WriteVote
        <4>2. QED
          BY <2>7, <4>1 DEF Commit, Settle
      <3>2. CASE req[t].kind = "swipe"
        <4>1. \A s \in Slots \ {t} : /\ pc[s] # "settle" /\ ~ SwipeCommits(s)
                                    /\ pc'[s] = pc[s] /\ roster'[s] = roster[s]
          BY <2>7, <3>2 DEF Commit, Settle, LockOK, Locked
        <4>2. QED
          BY <2>7, <4>1 DEF Commit, Settle
      <3>3. QED
        BY <3>1, <3>2
    <2>8. CASE Reread(t)
      BY <2>8 DEF Reread
    <2>9. CASE Publish(t) \/ FetchMissing(t) \/ FetchResult(t)
      BY <2>9 DEF Publish, FetchMissing, FetchResult
    <2>10. QED
      BY <1>3, <2>1, <2>2, <2>3, <2>4, <2>5, <2>6, <2>7, <2>8, <2>9 DEF Step
  <1>4. ASSUME NEW t \in Slots, Crash(t) \/ DetectDeadlock(t) PROVE DecisionOK'
    BY <1>4 DEF Crash, DetectDeadlock
  <1>5. CASE Expire \/ UNCHANGED vars
    BY <1>5 DEF Expire, vars
  <1>6. ASSUME NEW t \in Slots, Deletion(t) PROVE DecisionOK'
    <2>1. CASE LeaveSession(t) \/ EraseUser(t) \/ EraseNothing(t)
      BY <2>1 DEF LeaveSession, EraseUser, EraseNothing, At
    <2>2. CASE SeverRows(t) \/ ClearHost(t)
      BY <2>2 DEF SeverRows, ClearHost, At
    <2>3. CASE DeleteCommit(t)
      <3>1. /\ participants' = participants \ {req[t].user} /\ req[t].user \in Users
            /\ \A p \in Users \ {req[t].user} : votes'[p] = votes[p]
            /\ req[t].user \in participants => ~ Everyone'
        BY <2>3, DeletionIsAlone DEF DeleteCommit, Ballots, IInv
      <3>2. req[t].user \notin participants => votes' = votes
        BY <2>3, <3>1 DEF DeleteCommit, RowsOK, Ballots, IInv
      <3>3. \A s \in Slots \ {t} : /\ pc'[s] = pc[s] /\ req'[s] = req[s]
                                  /\ roster'[s] = roster[s] /\ outcome'[s] = outcome[s]
        BY <2>3 DEF DeleteCommit
      <3>4. pc'[t] = "idle"
        BY <2>3 DEF DeleteCommit
      <3>5. QED
        BY <3>1, <3>2, <3>3, <3>4
    <2>4. QED
      BY <1>6, <2>1, <2>2, <2>3 DEF Deletion
  <1>7. QED
    BY <1>1, <1>2, <1>3, <1>4, <1>5, <1>6 DEF Next

LEMMA ResultStep == IInv /\ [Next]_vars => ResultOK'
  <1> SUFFICES ASSUME IInv, [Next]_vars PROVE ResultOK'
    OBVIOUS
  <1>0. /\ TypeOK /\ LockOK /\ RequestOK /\ StatusOK /\ DecisionOK /\ RowsOK
        /\ UnanimityIsReal /\ UnanimityNotMissed /\ ResultFitsBallots
    BY DEF IInv, ResultOK
  <1>1. CASE UNCHANGED <<status, result, votes, participants>>
    BY <1>0, <1>1 DEF ResultOK, UnanimityIsReal, UnanimityNotMissed, ResultFitsBallots, Everyone
  <1>2. ASSUME NEW t \in Slots, Commit(t) PROVE ResultOK'
    <2>1. CASE req[t].kind # "swipe"
      BY <1>1, <1>2, <2>1 DEF Commit, WriteVote
    <2>2. CASE req[t].kind = "swipe"
      <3>1. status = "active" /\ result = NoResult
        BY <1>0, <1>2, <2>2 DEF Commit, StatusOK, SwipeCommits
      <3>2. UnanimityNotMissed'
        <4> SUFFICES ASSUME Everyone', NEW r \in Deck
                     PROVE  \E u \in Users : votes'[u][r] # "like"
          BY <1>2 DEF UnanimityNotMissed, Likers, Commit
        <4>0. Everyone
          BY <1>2 DEF Commit, Everyone
        <4>1. PICK u \in Users : votes[u][r] # "like"
          BY <1>0, <3>1, <4>0 DEF UnanimityNotMissed, Likers
        <4>2. CASE r = req[t].item /\ req[t].mark = "like"
          <5>1. ~ EveryoneElseLikes(t)
            BY <1>0, <1>2, <2>2, <4>0, <4>2 DEF DecisionOK, SwipeCommits, Commit
          <5>2. PICK p \in Users : p # req[t].user /\ votes[p][r] # "like"
            BY <4>0, <4>2, <5>1 DEF EveryoneElseLikes, Everyone
          <5>3. QED
            BY <1>2, <2>2, <5>2, WriteVoteEffect DEF Commit
        <4>3. CASE r # req[t].item \/ req[t].mark # "like"
          BY <1>2, <2>2, <4>1, <4>3, WriteVoteEffect DEF Commit
        <4>4. QED
          BY <4>2, <4>3
      <3>3. QED
        BY <1>2, <3>1, <3>2 DEF Commit, ResultOK, UnanimityIsReal, ResultFitsBallots
    <2>3. QED
      BY <2>1, <2>2
  <1>3. ASSUME NEW t \in Slots, Settle(t) PROVE ResultOK'
    <2>0. /\ result' = Persisted(outcome[t]) /\ status' = "finished"
          /\ participants' = participants
      BY <1>3 DEF Settle
    <2>1. CASE req[t].kind # "swipe"
      <3>1. votes' = votes /\ outcome[t].kind # "unanimous"
        BY <1>0, <1>3, <2>1 DEF Settle, WriteVote, DecisionOK
      <3>2. ResultFitsBallots'
        BY <1>0, <1>3, <2>0, <2>1, <3>1
           DEF Settle, ResultFitsBallots, Everyone, DecisionOK, Fits, Persisted
      <3>3. QED
        BY <2>0, <3>1, <3>2 DEF ResultOK, UnanimityIsReal, UnanimityNotMissed, Persisted
    <2>2. CASE req[t].kind = "swipe"
      <3>1. /\ result' = [kind |-> "unanimous", winner |-> req[t].item]
            /\ req[t].mark = "like" /\ EveryoneElseLikes(t)
        <4>1. /\ req[t].mark = "like" /\ EveryoneElseLikes(t)
              /\ outcome[t] = Unanimous(req[t].item)
          BY <1>0, <1>3, <2>2 DEF Settle, DecisionOK
        <4>2. QED
          BY <2>0, <4>1 DEF Persisted, Unanimous
      <3>2. \A p \in participants : votes'[p][req[t].item] = "like"
        BY <1>0, <1>3, <2>2, <3>1, WriteVoteEffect DEF Settle, EveryoneElseLikes, TypeOK
      <3>3. QED
        BY <1>0, <2>0, <3>1, <3>2
           DEF ResultOK, UnanimityIsReal, UnanimityNotMissed, ResultFitsBallots,
               Everyone, Fits, Likers, TypeOK
    <2>3. QED
      BY <2>1, <2>2
  <1>4. ASSUME NEW t \in Slots, DeleteCommit(t) PROVE ResultOK'
    <2>1. req[t].user \in Users
      BY <1>0, <1>4, DeletionIsAlone DEF DeleteCommit, IInv
    <2>2. ~ Everyone' /\ participants' \subseteq participants \ {req[t].user}
      BY <1>4, <2>1 DEF DeleteCommit, Everyone
    <2>3. \A p \in Users \ {req[t].user} : votes'[p] = votes[p]
      BY <1>0, <1>4 DEF DeleteCommit, TypeOK, Ballots
    <2>4. QED
      BY <1>0, <1>4, <2>2, <2>3
         DEF DeleteCommit, ResultOK, UnanimityIsReal, UnanimityNotMissed, ResultFitsBallots,
             Likers, TypeOK
  <1>5. CASE Beat \/ Expire \/ UNCHANGED vars
    BY <1>1, <1>5 DEF Beat, Expire, vars, rows
  <1>6. ASSUME NEW t \in Slots, NEW u \in Users, Request(t, u) PROVE ResultOK'
    BY <1>1, <1>6 DEF Request, Swipe, Finish, AskResult, DeleteAccount, rows
  <1>7. ASSUME NEW t \in Slots, Crash(t) \/ DetectDeadlock(t) PROVE ResultOK'
    BY <1>1, <1>7 DEF Crash, DetectDeadlock, rows
  <1>8. ASSUME NEW t \in Slots, Step(t) PROVE ResultOK'
    BY <1>1, <1>2, <1>3, <1>8
       DEF Step, RefuseVote, InsertVote, CountParticipants, CountLikes, MarkWaiting, MarkFails,
           CheckAllFinished, AcquireLock, Tally, Reread, Publish, FetchMissing, FetchResult, rows
  <1>9. ASSUME NEW t \in Slots, Deletion(t), ~ DeleteCommit(t) PROVE ResultOK'
    BY <1>1, <1>9
       DEF Deletion, LeaveSession, EraseUser, EraseNothing, SeverRows, ClearHost, rows
  <1>10. QED
    BY <1>4, <1>5, <1>6, <1>7, <1>8, <1>9 DEF Next

LEMMA ToldStep == IInv /\ [Next]_vars => ToldOK'
  <1> SUFFICES ASSUME IInv, [Next]_vars PROVE ToldOK'
    OBVIOUS
  <1>0. TypeOK /\ LockOK /\ RequestOK /\ StatusOK /\ DecisionOK /\ ToldOK
    BY DEF IInv
  <1> USE <1>0, SlotAssumption DEF TypeOK, ToldOK, OnlyTruthIsTold, Everyone,
          Accept, Goto, End, rows
  <1>1. ASSUME NEW t \in Slots, NEW u \in Users, Request(t, u) PROVE ToldOK'
    BY <1>1 DEF Request, Swipe, Finish, AskResult, DeleteAccount
  <1>2. CASE Beat
    BY <1>2 DEF Beat
  <1>3. ASSUME NEW t \in Slots, Step(t) PROVE ToldOK'
    <2>1. CASE RefuseVote(t) \/ InsertVote(t) \/ CountParticipants(t) \/ CountLikes(t)
      BY <2>1 DEF RefuseVote, InsertVote, CountParticipants, CountLikes
    <2>2. CASE MarkWaiting(t) \/ MarkFails(t) \/ CheckAllFinished(t)
      BY <2>2 DEF MarkWaiting, MarkFails, CheckAllFinished
    <2>3. CASE AcquireLock(t) \/ Tally(t)
      BY <2>3 DEF AcquireLock, AfterLock, Tally
    <2>4. CASE Commit(t)
      <3>1. CASE req[t].kind # "swipe"
        BY <2>4, <3>1 DEF Commit, WriteVote
      <3>2. CASE req[t].kind = "swipe"
        <4>1. result = NoResult
          BY <2>4, <3>2 DEF Commit, StatusOK, SwipeCommits
        <4>2. shown = {} /\ \A s \in Slots : pc[s] # "publish"
          BY <4>1 DEF StatusOK, RequestOK, Persisted, Outcomes, Results
        <4>3. QED
          BY <2>4, <4>2 DEF Commit
      <3>3. QED
        BY <3>1, <3>2
    <2>5. CASE Settle(t)
      <3>1. result = NoResult
        BY <2>5 DEF Settle, StatusOK, Locked
      <3>2. shown = {} /\ \A s \in Slots : pc[s] # "publish"
        BY <3>1 DEF StatusOK, RequestOK, Persisted, Outcomes, Results
      <3>3. Everyone' => outcome[t] = Recovered(result', votes')
        <4>1. CASE req[t].kind = "swipe"
          BY <2>5, <4>1 DEF Settle, DecisionOK, Persisted, Recovered, Unanimous
        <4>2. CASE req[t].kind # "swipe"
          BY <2>5, <4>2, DecisionsAreOutcomes DEF Settle, DecisionOK, WriteVote
        <4>3. QED
          BY <4>1, <4>2
      <3>4. QED
        BY <2>5, <3>2, <3>3 DEF Settle
    <2>6. CASE Reread(t)
      BY <2>6 DEF Reread
    <2>7. CASE Publish(t)
      <3>1. /\ pc[t] = "publish" /\ result = Persisted(outcome[t])
            /\ shown' = shown \cup {outcome[t]}
            /\ UNCHANGED <<result, votes, participants>>
        BY <2>7 DEF Publish, StatusOK
      <3>2. \A s \in Slots : pc'[s] = "publish" => pc[s] = "publish" /\ outcome'[s] = outcome[s]
        BY <2>7 DEF Publish
      <3>3. result # NoResult
        BY <3>1 DEF RequestOK, Persisted, Outcomes, Results
      <3>4. QED
        BY <3>1, <3>2, <3>3
    <2>8. CASE FetchMissing(t)
      BY <2>8 DEF FetchMissing
    <2>9. CASE FetchResult(t)
      BY <2>9, RecoveredType DEF FetchResult
    <2>10. QED
      BY <1>3, <2>1, <2>2, <2>3, <2>4, <2>5, <2>6, <2>7, <2>8, <2>9 DEF Step
  <1>4. ASSUME NEW t \in Slots, Crash(t) \/ DetectDeadlock(t) PROVE ToldOK'
    BY <1>4 DEF Crash, DetectDeadlock
  <1>5. CASE Expire \/ UNCHANGED vars
    BY <1>5 DEF Expire, vars
  <1>6. ASSUME NEW t \in Slots, Deletion(t) PROVE ToldOK'
    <2>1. CASE LeaveSession(t) \/ EraseUser(t) \/ EraseNothing(t)
      BY <2>1 DEF LeaveSession, EraseUser, EraseNothing, At
    <2>2. CASE SeverRows(t) \/ ClearHost(t)
      BY <2>2 DEF SeverRows, ClearHost, At
    <2>3. CASE DeleteCommit(t)
      <3>1. req[t].user \in Users \ participants'
        BY <2>3, DeletionIsAlone DEF DeleteCommit, IInv
      <3>2. \A s \in Slots : pc'[s] = "publish" => pc[s] = "publish" /\ outcome'[s] = outcome[s]
        BY <2>3 DEF DeleteCommit
      <3>3. QED
        BY <2>3, <3>1, <3>2 DEF DeleteCommit
    <2>4. QED
      BY <1>6, <2>1, <2>2, <2>3 DEF Deletion
  <1>7. QED
    BY <1>1, <1>2, <1>3, <1>4, <1>5, <1>6 DEF Next
--------------------------------------------------------------------------------
(* The theorems.                                                           *)

\* IInv holds in every reachable state.
THEOREM Invariance == Spec => []IInv
  <1>1. IInv /\ [Next]_vars => IInv'
    BY TypeStep, LockStep, RequestStep, StatusStep, RowsStep, DeletionStep, DecisionStep,
       ResultStep, ToldStep
       DEF IInv
  <1>2. QED
    BY InvInit, <1>1, PTL DEF Spec

\* Every variable keeps its type; in particular nobody waits who has left.
THEOREM TypeCorrect == Spec => []TypeOK
  <1>1. IInv => TypeOK
    BY DEF IInv
  <1>2. QED
    BY Invariance, <1>1, PTL

\* A unanimous result was liked by every participant who is left, for any
\* interleaving of swipes and account deletions (vote_service.py, _is_unanimous).
THEOREM UnanimitySound == Spec => []UnanimityIsReal
  <1>1. IInv => UnanimityIsReal
    BY DEF IInv, ResultOK
  <1>2. QED
    BY Invariance, <1>1, PTL

\* No unanimity of the full table is ever left behind in a running session.
THEOREM UnanimityComplete == Spec => []UnanimityNotMissed
  <1>1. IInv => UnanimityNotMissed
    BY DEF IInv, ResultOK
  <1>2. QED
    BY Invariance, <1>1, PTL

\* With nobody gone, the stored result is a decision of the stored ballots.
THEOREM ResultIsTally == Spec => []ResultFitsBallots
  <1>1. IInv => ResultFitsBallots
    BY DEF IInv, ResultOK
  <1>2. QED
    BY Invariance, <1>1, PTL

\* Events and responses carry the committed outcome only.
THEOREM Truthful == Spec => []OnlyTruthIsTold
  <1>1. IInv => OnlyTruthIsTold
    BY DEF IInv, ToldOK
  <1>2. QED
    BY Invariance, <1>1, PTL

\* Whoever has a recorded vote is still a participant: the foreign keys take
\* both rows, and an open vote pins its user.
THEOREM VotesBelong == Spec => []VotersParticipate
  <1>1. IInv => VotersParticipate
    BY DEF IInv, RowsOK, VotersParticipate, Swiped, BlankBallot
  <1>2. QED
    BY Invariance, <1>1, PTL

\* With nobody gone, everybody is shown the same wheel, and the winner is on it.
THEOREM SameWheel == Spec => []OneWheel
  <1>1. ASSUME IInv PROVE OneWheel
    <2> SUFFICES ASSUME Everyone, NEW o \in shown
                 PROVE  /\ \A p \in shown : p.wheel = o.wheel
                        /\ o.wheel # {} => o.winner \in o.wheel
      BY DEF OneWheel
    <2>1. result # NoResult /\ \A p \in shown : p = Recovered(result, votes)
      BY <1>1 DEF IInv, ToldOK, OnlyTruthIsTold
    <2>2. o.wheel # {} => o.winner \in o.wheel
      <3>1. CASE result.kind = "unanimous"
        BY <2>1, <3>1 DEF Recovered
      <3>2. CASE result.kind # "unanimous"
        <4>1. PICK d \in Decisions(votes) : Persisted(d) = result
          BY <1>1, <2>1, <3>2 DEF IInv, ResultOK, ResultFitsBallots, Fits
        <4>2. d = o
          BY <2>1, <4>1, DecisionsAreOutcomes
        <4>3. QED
          BY <4>2, DecisionsAreOutcomes
      <3>3. QED
        BY <3>1, <3>2
    <2>3. QED
      BY <2>1, <2>2
  <1>2. QED
    BY Invariance, <1>1, PTL

\* Swipes, finish reports, result requests and the worker never wait for each other
\* in a circle: whoever waits at all waits for the sessions row or for a deletion,
\* and who holds the sessions row waits for deletions only.
THEOREM DeletionsDeadlock == Spec => []OnlyDeletionsDeadlock
  <1>1. ASSUME IInv PROVE OnlyDeletionsDeadlock
    <2> SUFFICES ASSUME NEW S \in SUBSET Slots, Knot(S), \A t \in S : req[t].kind # "delete"
                 PROVE  FALSE
      BY DEF OnlyDeletionsDeadlock
    <2>0. LockOK /\ RequestOK
      BY <1>1 DEF IInv
    <2>1. ASSUME NEW t \in S, NEW s \in S, WaitsFor(t, s)
          PROVE  (pc[t] = "lock" /\ lock = s) \/ (pc[t] = "mark" /\ pc[s] # "mark")
      BY <2>0, <2>1
         DEF WaitsFor, RowTaken, HoldsUser, HoldsVotes, HoldsParticipant, PinsParticipant,
             RequestOK, Deletes
    <2>2. \A t \in S : pc[t] \in {"lock", "mark"}
      BY <2>1 DEF Knot
    <2>3. PICK t \in S : pc[t] = "lock"
      BY <2>1, <2>2 DEF Knot
    <2>4. PICK s \in S : lock = s
      BY <2>1, <2>3 DEF Knot
    <2>5. pc[s] \in Locked \cup {"commit", "gone"}
      BY <2>0, <2>4 DEF LockOK
    <2>6. QED
      BY <2>2, <2>5 DEF Locked
  <1>2. QED
    BY Invariance, <1>1, PTL
--------------------------------------------------------------------------------
(* Action properties and the refinement.                                   *)

\* What a step may do to the session's result and status.
LEMMA ResultOnlyAtSettle ==
    ASSUME IInv, [Next]_vars
    PROVE  \/ UNCHANGED <<result, status>>
           \/ status = "active" /\ \E t \in Slots : Settle(t)
  <1>0. TypeOK /\ StatusOK
    BY DEF IInv
  <1>1. ASSUME NEW t \in Slots, Settle(t) PROVE status = "active"
    BY <1>0, <1>1 DEF StatusOK, Settle, Locked
  <1>2. ASSUME NEW t \in Slots, Step(t), ~ Settle(t) PROVE UNCHANGED <<result, status>>
    BY <1>2 DEF Step, RefuseVote, InsertVote, CountParticipants, CountLikes, MarkWaiting,
                MarkFails, CheckAllFinished, Commit, AcquireLock, Tally, Reread, Publish,
                FetchMissing, FetchResult, rows
  <1>3. ASSUME NEW t \in Slots, NEW u \in Users, Request(t, u) PROVE UNCHANGED <<result, status>>
    BY <1>3 DEF Request, Swipe, Finish, AskResult, DeleteAccount, rows
  <1>4. ASSUME NEW t \in Slots, Crash(t) \/ DetectDeadlock(t) PROVE UNCHANGED <<result, status>>
    BY <1>4 DEF Crash, DetectDeadlock, rows
  <1>5. CASE Beat \/ Expire \/ UNCHANGED vars
    BY <1>5 DEF Beat, Expire, rows, vars
  <1>6. ASSUME NEW t \in Slots, Deletion(t) PROVE UNCHANGED <<result, status>>
    BY <1>6 DEF Deletion, LeaveSession, EraseUser, EraseNothing, SeverRows, ClearHost,
                DeleteCommit, rows
  <1>7. QED
    BY <1>1, <1>2, <1>3, <1>4, <1>5, <1>6 DEF Next

\* A stored result is never replaced and its session never runs again.
THEOREM OneResult == Spec => SettledOnce
  <1>1. IInv /\ [Next]_vars => [result # NoResult => result' = result /\ status' = "finished"]_vars
    <2> SUFFICES ASSUME IInv, [Next]_vars, result # NoResult
                 PROVE  result' = result /\ status' = "finished"
      OBVIOUS
    <2>1. status = "finished"
      BY DEF IInv, StatusOK
    <2>2. QED
      BY <2>1, ResultOnlyAtSettle
  <1>2. QED
    BY Invariance, <1>1, PTL DEF Spec, SettledOnce

\* What a step may do to the ballots.
LEMMA VotesOnlyFromSwipes ==
    ASSUME IInv, [Next]_vars
    PROVE  \/ votes' = votes
           \/ \E t \in Slots : /\ req[t].kind = "swipe" /\ status = "active"
                               /\ Commit(t) \/ Settle(t)
           \/ \E t \in Slots : DeleteCommit(t)
  <1>0. TypeOK /\ StatusOK
    BY DEF IInv
  <1>1. ASSUME NEW t \in Slots, Commit(t) \/ Settle(t)
        PROVE  votes' = votes \/ (req[t].kind = "swipe" /\ status = "active")
    BY <1>0, <1>1 DEF Commit, Settle, WriteVote, StatusOK, SwipeCommits, Locked
  <1>2. ASSUME NEW t \in Slots, Step(t), ~ Commit(t), ~ Settle(t) PROVE votes' = votes
    BY <1>2 DEF Step, RefuseVote, InsertVote, CountParticipants, CountLikes, MarkWaiting,
                MarkFails, CheckAllFinished, AcquireLock, Tally, Reread, Publish,
                FetchMissing, FetchResult, rows
  <1>3. ASSUME NEW t \in Slots, NEW u \in Users, Request(t, u) PROVE votes' = votes
    BY <1>3 DEF Request, Swipe, Finish, AskResult, DeleteAccount, rows
  <1>4. ASSUME NEW t \in Slots, Crash(t) \/ DetectDeadlock(t) PROVE votes' = votes
    BY <1>4 DEF Crash, DetectDeadlock, rows
  <1>5. CASE Beat \/ Expire \/ UNCHANGED vars
    BY <1>5 DEF Beat, Expire, rows, vars
  <1>6. ASSUME NEW t \in Slots, Deletion(t), ~ DeleteCommit(t) PROVE votes' = votes
    BY <1>6 DEF Deletion, LeaveSession, EraseUser, EraseNothing, SeverRows, ClearHost, rows
  <1>7. QED
    BY <1>1, <1>2, <1>3, <1>4, <1>5, <1>6 DEF Next

\* After the result is stored, ballots disappear only with their account.
THEOREM FrozenBallots == Spec => BallotsFrozen
  <1>1. IInv /\ [Next]_vars
          => [status = "finished" => \A u \in participants' : votes'[u] = votes[u]]_vars
    <2> SUFFICES ASSUME IInv, [Next]_vars, status = "finished", NEW u \in participants'
                 PROVE  votes'[u] = votes[u]
      OBVIOUS
    <2>1. CASE votes' = votes
      BY <2>1
    <2>2. ASSUME NEW t \in Slots, DeleteCommit(t) PROVE votes'[u] = votes[u]
      BY <2>2 DEF DeleteCommit, IInv, TypeOK, Ballots
    <2>3. QED
      BY <2>1, <2>2, VotesOnlyFromSwipes
  <1>2. QED
    BY Invariance, <1>1, PTL DEF Spec, BallotsFrozen

\* Participants only leave when a deletion commits.
LEMMA ParticipantsOnlyLeave ==
    ASSUME IInv, [Next]_vars
    PROVE  participants' = participants \/ \E t \in Slots : DeleteCommit(t)
  <1>1. ASSUME NEW t \in Slots, Step(t) PROVE participants' = participants
    BY <1>1 DEF Step, RefuseVote, InsertVote, CountParticipants, CountLikes, MarkWaiting,
                MarkFails, CheckAllFinished, Commit, AcquireLock, Tally, Settle, Reread, Publish,
                FetchMissing, FetchResult, rows
  <1>2. ASSUME NEW t \in Slots, NEW u \in Users, Request(t, u)
        PROVE  participants' = participants
    BY <1>2 DEF Request, Swipe, Finish, AskResult, DeleteAccount, rows
  <1>3. ASSUME NEW t \in Slots, Crash(t) \/ DetectDeadlock(t) PROVE participants' = participants
    BY <1>3 DEF Crash, DetectDeadlock, rows
  <1>4. CASE Beat \/ Expire \/ UNCHANGED vars
    BY <1>4 DEF Beat, Expire, rows, vars
  <1>5. ASSUME NEW t \in Slots, Deletion(t), ~ DeleteCommit(t)
        PROVE  participants' = participants
    BY <1>5 DEF Deletion, LeaveSession, EraseUser, EraseNothing, SeverRows, ClearHost, rows
  <1>6. QED
    BY <1>1, <1>2, <1>3, <1>4, <1>5 DEF Next

\* The two modules share the ballot rules.
LEMMA SameFits ==
    ASSUME NEW res, NEW sheet
    PROVE  Atomic!Fits(res, sheet) <=> Fits(res, sheet)
  <1>0. \A S : Atomic!Cardinality(S) = Cardinality(S)
    BY DEF Cardinality, Atomic!Cardinality
  <1>1. \A r : Atomic!Likers(sheet, r) = Likers(sheet, r)
    BY DEF Likers, Atomic!Likers
  <1>2. Atomic!Leaders(sheet) = Leaders(sheet)
    BY <1>0, <1>1 DEF Leaders, Atomic!Leaders
  <1>3. Atomic!Decisions(sheet) = Decisions(sheet)
    BY <1>0, <1>2 DEF Decisions, Atomic!Decisions, NoMatch, Majority, Tie,
                Atomic!NoMatch, Atomic!Majority, Atomic!Tie
  <1>4. QED
    BY <1>3 DEF Fits, Atomic!Fits, Persisted, Atomic!Persisted

\* Every step of the interleaved transactions is one atomic cast, close or
\* departure, or invisible.
LEMMA StepRefines == IInv /\ IInv' /\ [Next]_vars => [Atomic!Next]_(Atomic!vars)
  <1> SUFFICES ASSUME IInv, IInv', [Next]_vars PROVE [Atomic!Next]_(Atomic!vars)
    OBVIOUS
  <1>0. TypeOK /\ TypeOK' /\ LockOK /\ StatusOK /\ RowsOK /\ DecisionOK /\ ResultOK'
    BY DEF IInv
  <1>1. ASSUME NEW t \in Slots, DeleteCommit(t) PROVE [Atomic!Next]_(Atomic!vars)
    <2>1. req[t].user \in Users
      BY <1>1, DeletionIsAlone DEF DeleteCommit, IInv
    <2>2. CASE req[t].user \in participants
      <3>1. Atomic!Leave(req[t].user)
        BY <1>1, <2>2 DEF DeleteCommit, Atomic!Leave, BlankBallot, Atomic!BlankBallot
      <3>2. QED
        BY <2>1, <3>1 DEF Atomic!Next
    <2>3. CASE req[t].user \notin participants
      <3>1. votes' = votes
        BY <1>0, <1>1, <2>1, <2>3 DEF DeleteCommit, RowsOK, TypeOK, Ballots
      <3>2. participants' = participants /\ result' = result
        BY <1>1, <2>3 DEF DeleteCommit
      <3>3. QED
        BY <3>1, <3>2 DEF Atomic!vars
    <2>4. QED
      BY <2>2, <2>3
  <1>2. ASSUME NEW t \in Slots, req[t].kind = "swipe", status = "active", Commit(t) \/ Settle(t)
        PROVE  Atomic!Cast(req[t].user, req[t].item, req[t].mark)
    <2>0. pc[t] \in {"settle", "commit"} /\ WriteVote(t) /\ participants' = participants
      BY <1>2 DEF Commit, Settle
    <2>1. /\ result = NoResult
          /\ req[t].user \in participants
          /\ req[t].item \in Deck
          /\ votes[req[t].user][req[t].item] = "none"
      BY <1>0, <1>2, <2>0, WriteVoteEffect DEF StatusOK
    <2>2. votes' = [votes EXCEPT ![req[t].user][req[t].item] = req[t].mark]
      BY <1>2, <2>0 DEF WriteVote
    <2>3. (\A u \in participants : votes'[u][req[t].item] = "like")
            <=> req[t].mark = "like" /\ EveryoneElseLikes(t)
      <3>1. \A u \in Users : votes'[u][req[t].item]
                               = IF u = req[t].user THEN req[t].mark ELSE votes[u][req[t].item]
        BY <1>2, <2>0, <2>1, WriteVoteEffect
      <3>2. participants \subseteq Users
        BY <1>0 DEF TypeOK
      <3>3. QED
        BY <2>1, <3>1, <3>2 DEF EveryoneElseLikes
    <2>4. CASE Settle(t)
      <3>1. /\ req[t].mark = "like" /\ EveryoneElseLikes(t)
            /\ result' = [kind |-> "unanimous", winner |-> req[t].item]
        <4>1. /\ req[t].mark = "like" /\ EveryoneElseLikes(t)
              /\ outcome[t] = Unanimous(req[t].item)
          BY <1>0, <1>2, <2>4 DEF Settle, DecisionOK
        <4>2. result' = Persisted(outcome[t])
          BY <2>4 DEF Settle
        <4>3. QED
          BY <4>1, <4>2 DEF Persisted, Unanimous
      <3>2. QED
        BY <2>0, <2>1, <2>2, <2>3, <3>1 DEF Atomic!Cast, Atomic!EveryoneLikes
    <2>5. CASE Commit(t)
      <3>1. result' = result
        BY <2>5 DEF Commit
      <3>2. req[t].mark = "like" /\ participants = Users => ~ EveryoneElseLikes(t)
        BY <1>0, <1>2, <2>5 DEF Commit, DecisionOK, SwipeCommits, Everyone
      <3>3. QED
        BY <2>0, <2>1, <2>2, <2>3, <3>1, <3>2 DEF Atomic!Cast, Atomic!EveryoneLikes
    <2>6. QED
      BY <1>2, <2>4, <2>5
  <1>3. ASSUME NEW t \in Slots, Settle(t), req[t].kind # "swipe" PROVE Atomic!Close
    <2>1. status = "active" /\ result = NoResult
      BY <1>0, <1>3 DEF Settle, StatusOK, Locked
    <2>2. votes' = votes /\ participants' = participants
      BY <1>3 DEF Settle, WriteVote
    <2>3. result' # NoResult
      BY <1>0, <1>3, IInv' DEF Settle, StatusOK, IInv
    <2>4. result' \in Results
      BY <1>0, <2>3 DEF TypeOK
    <2>5. result'.kind # "unanimous"
      BY <1>0, <1>3 DEF Settle, DecisionOK, Persisted
    <2>6. participants = Users => Fits(result', votes)
      BY <1>0, <2>2, <2>3 DEF ResultOK, ResultFitsBallots, Everyone
    <2>7. Atomic!Results = Results
      BY DEF Results, Kinds, Atomic!Results, Atomic!Kinds
    <2>8. Fits(result', votes) => Atomic!Fits(result', votes)
      BY SameFits
    <2>9. QED
      BY <2>1, <2>2, <2>4, <2>5, <2>6, <2>7, <2>8 DEF Atomic!Close
  <1>4. ASSUME NEW t \in Slots, req[t].kind = "swipe"
        PROVE  req[t].user \in Users /\ req[t].item \in Deck /\ req[t].mark \in {"skip", "like"}
    BY <1>0, <1>4, RequestFields
  <1>5. CASE UNCHANGED <<votes, participants, result>>
    BY <1>5 DEF Atomic!vars
  <1>6. CASE \E t \in Slots : DeleteCommit(t)
    BY <1>1, <1>6
  <1>7. CASE \E t \in Slots : /\ req[t].kind = "swipe" /\ status = "active"
                              /\ Commit(t) \/ Settle(t)
    BY <1>2, <1>4, <1>7 DEF Atomic!Next
  <1>8. CASE \E t \in Slots : Settle(t) /\ req[t].kind # "swipe"
    BY <1>3, <1>8 DEF Atomic!Next
  <1>9. QED
    <2>1. CASE participants' # participants
      BY <1>6, <2>1, ParticipantsOnlyLeave
    <2>2. CASE votes' # votes
      BY <1>6, <1>7, <2>2, VotesOnlyFromSwipes
    <2>3. CASE result' # result
      BY <1>7, <1>8, <2>3, ResultOnlyAtSettle
    <2>4. QED
      BY <1>5, <2>1, <2>2, <2>3

\* A running party session implements the atomic specification.
THEOREM Refinement == Spec => ImplementsAtomic
  <1>1. Init => Atomic!Init
    BY DEF Init, Atomic!Init, BlankBallot, Atomic!BlankBallot
  <1>2. QED
    BY Invariance, <1>1, StepRefines, PTL DEF Spec, ImplementsAtomic, Atomic!Spec
================================================================================
