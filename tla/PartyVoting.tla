------------------------------ MODULE PartyVoting ------------------------------
(***************************************************************************)
(* One running party session of the Ginder backend: the requests that      *)
(* record swipes, report a finished deck and ask for the result, the       *)
(* Celery task that closes overdue sessions, and account deletion, as the  *)
(* interleaved READ COMMITTED transactions they are.                       *)
(*                                                                         *)
(* Committed rows are the variables status .. waiting; what a transaction  *)
(* has read or written and not yet committed is in its slot's req, roster  *)
(* and outcome, and pc says which statement comes next.  The lock of the   *)
(* sessions row is the variable lock; the other row locks follow from what *)
(* a slot has written (HoldsUser .. PinsParticipant).                      *)
(***************************************************************************)
EXTENDS BallotRules

CONSTANTS
    Slots,          \* request handlers of the API, one transaction each at a time
    Worker,         \* the slot of the Celery worker
    Deleters,       \* users who may delete their account while others play
    Host,           \* the host, or NoOne when the host has left already
    MaxCrashes,     \* bound on the transactions that die half-way
    NoOne, NoItem, NoSlot, NoResult, NoOutcome

ASSUME SlotAssumption ==
    /\ Worker \in Slots /\ NoSlot \notin Slots
    /\ Deleters \subseteq Users /\ Host \in Users \cup {NoOne}
    /\ NoOne \notin Users /\ NoItem \notin Deck
    /\ NoResult \notin Results /\ NoOutcome \notin Outcomes
    /\ MaxCrashes \in Nat

VARIABLES
    status,         \* sessions.status: "active" or "finished"
    expired,        \* whether ends_at has passed
    result,         \* the match_results row, or NoResult
    votes,          \* the committed votes rows, as a ballot sheet
    participants,   \* the committed session_participants rows
    waiting,        \* those of them with status WAITING
    lock,           \* the slot that holds the sessions row FOR UPDATE
    pc, req, roster, outcome,     \* per slot
    shown,          \* outcomes clients were told, by event or by response
    crashes

rows == <<status, result, votes, participants, waiting>>
vars == <<status, expired, result, votes, participants, waiting, lock,
          pc, req, roster, outcome, shown, crashes>>

NoRequest == [kind |-> "none", user |-> NoOne, item |-> NoItem, mark |-> "none"]

Requests ==
    [kind : {"swipe"}, user : Users, item : Deck, mark : {"skip", "like"}]
    \cup [kind : {"finish", "repeat", "result", "delete"}, user : Users, item : {NoItem}, mark : {"none"}]
    \cup [kind : {"beat"}, user : {NoOne}, item : {NoItem}, mark : {"none"}]

\* Places at which a slot holds the sessions row.
Locked == {"insert", "count", "likes", "tally", "reread", "settle"}

Places == {"idle", "insert", "count", "likes", "mark", "check", "lock", "tally",
           "reread", "settle", "commit", "publish", "fetch",
           "leave", "erase", "sever", "host", "gone"}

TypeOK ==
    /\ status \in {"active", "finished"}
    /\ expired \in BOOLEAN
    /\ result \in Results \cup {NoResult}
    /\ votes \in Ballots
    /\ participants \subseteq Users
    /\ waiting \subseteq participants
    /\ lock \in Slots \cup {NoSlot}
    /\ pc \in [Slots -> Places]
    /\ req \in [Slots -> Requests \cup {NoRequest}]
    /\ roster \in [Slots -> SUBSET Users]
    /\ outcome \in [Slots -> Outcomes \cup {NoOutcome}]
    /\ shown \subseteq Outcomes
    /\ crashes \in 0..MaxCrashes

Init ==
    /\ status = "active" /\ expired = FALSE /\ result = NoResult
    /\ votes = [u \in Users |-> BlankBallot]
    /\ participants = Users /\ waiting = {}
    /\ lock = NoSlot
    /\ pc = [t \in Slots |-> "idle"]
    /\ req = [t \in Slots |-> NoRequest]
    /\ roster = [t \in Slots |-> {}]
    /\ outcome = [t \in Slots |-> NoOutcome]
    /\ shown = {} /\ crashes = 0
--------------------------------------------------------------------------------
(* The life of a transaction.                                              *)

Goto(t, place) == pc' = [pc EXCEPT ![t] = place]

Accept(t, r, place) ==
    /\ pc[t] = "idle"
    /\ Goto(t, place)
    /\ req' = [req EXCEPT ![t] = r]

\* MUTANT of Unlock: the early return keeps the transaction open.
UnlockNever(t) == t \in Slots /\ lock' = lock

\* The slot forgets the request and gives up the row lock it may hold.
Unlock(t) == lock' = IF lock = t THEN NoSlot ELSE lock

End(t) ==
    /\ Goto(t, "idle")
    /\ req' = [req EXCEPT ![t] = NoRequest]
    /\ roster' = [roster EXCEPT ![t] = {}]
    /\ outcome' = [outcome EXCEPT ![t] = NoOutcome]

\* The rows slot t wrote become visible: its vote, or its WAITING mark.
WriteVote(t) ==
    votes' = IF req[t].kind = "swipe"
             THEN [votes EXCEPT ![req[t].user][req[t].item] = req[t].mark]
             ELSE votes

WriteWaiting(t) ==
    waiting' = IF req[t].kind = "finish" THEN waiting \cup {req[t].user} ELSE waiting

--------------------------------------------------------------------------------
(* Row locks: who waits for whom.                                          *)

\* The foreign key of an uncommitted vote pins the users row, an uncommitted
\* WAITING mark the participant row.
PinsVoter(t, u) ==
    /\ req[t].kind = "swipe" /\ req[t].user = u
    /\ pc[t] \in {"count", "likes", "settle", "commit"}

PinsParticipant(t, u) ==
    /\ req[t].kind = "finish" /\ req[t].user = u
    /\ pc[t] \in {"check", "lock", "tally", "reread", "settle", "commit"}

\* What a deletion has deleted and not yet committed.
HoldsUser(t, u) == pc[t] \in {"sever", "host", "gone"} /\ req[t].user = u

HoldsVotes(t, u) == pc[t] \in {"host", "gone"} /\ req[t].user = u

HoldsParticipant(t, u) == req[t].kind = "delete" /\ u \in roster[t]

RowTaken(t, u) == PinsParticipant(t, u) \/ HoldsParticipant(t, u)

\* MUTANT of WaitsFor: a swipe writes the status of its participant as well.
WaitsForMark(t, s) ==
    /\ s # t
    /\ \/ pc[t] \in {"insert", "mark"} /\ RowTaken(s, req[t].user)
       \/ pc[t] = "lock" /\ lock = s

\* The next statement of slot t needs a row that slot s has locked: the insert
\* of a vote its user, or at a repeated vote the outcome of the first one.
WaitsFor(t, s) ==
    LET u == req[t].user IN
    /\ s # t
    /\ \/ /\ pc[t] = "insert" /\ u \in participants
          /\ IF votes[u][req[t].item] = "none" THEN HoldsUser(s, u) ELSE HoldsVotes(s, u)
       \/ pc[t] \in {"mark", "sever"} /\ RowTaken(s, u)
       \/ pc[t] = "leave" /\ status = "active" /\ RowTaken(s, u)
       \/ pc[t] = "erase" /\ (PinsVoter(s, u) \/ HoldsUser(s, u))
       \/ pc[t] \in {"lock", "host"} /\ lock = s

At(t, place) == pc[t] = place /\ \A s \in Slots : ~ WaitsFor(t, s)

Waiting == {t \in Slots : \E s \in Slots : WaitsFor(t, s)}

\* Slots of which each waits for another, and the smallest such sets.
Knot(S) == S # {} /\ \A t \in S : \E s \in S : WaitsFor(t, s)

Circle(S) == Knot(S) /\ \A T \in SUBSET S : Knot(T) => T = S
--------------------------------------------------------------------------------
(* POST /sessions/{id}/swipe: VoteService.record_swipe.                    *)

\* _ensure_active_session: lock the row, refuse a session that is not running.
Open == status = "active" /\ ~ expired

\* MUTANT of Swipe: the session is read without FOR UPDATE.
SwipeUnlocked(t, u, r, mark) ==
    /\ Open
    /\ Accept(t, [kind |-> "swipe", user |-> u, item |-> r, mark |-> mark], "insert")
    /\ UNCHANGED <<rows, expired, lock, roster, outcome, shown, crashes>>

Swipe(t, u, r, mark) ==
    /\ lock = NoSlot
    /\ Open
    /\ Accept(t, [kind |-> "swipe", user |-> u, item |-> r, mark |-> mark], "insert")
    /\ lock' = t
    /\ UNCHANGED <<rows, expired, roster, outcome, shown, crashes>>

\* Not a participant any more (403, or success if the foreign key found out),
\* or uq_vote_once rejects a repeated vote and the transaction is rolled back
\* (success).
RefuseVote(t) ==
    /\ At(t, "insert")
    /\ \/ req[t].user \notin participants
       \/ votes[req[t].user][req[t].item] # "none"
    /\ End(t) /\ Unlock(t)
    /\ UNCHANGED <<rows, expired, shown, crashes>>

\* MUTANT of InsertVote: no uq_vote_once, a repeated swipe replaces the vote.
InsertVoteAgain(t) ==
    /\ At(t, "insert")
    /\ req[t].user \in participants
    /\ Goto(t, IF req[t].mark = "like" THEN "count" ELSE "commit")
    /\ UNCHANGED <<rows, expired, lock, req, roster, outcome, shown, crashes>>

InsertVote(t) ==
    /\ At(t, "insert")
    /\ req[t].user \in participants
    /\ votes[req[t].user][req[t].item] = "none"
    /\ Goto(t, IF req[t].mark = "like" THEN "count" ELSE "commit")
    /\ UNCHANGED <<rows, expired, lock, req, roster, outcome, shown, crashes>>

\* _is_unanimous reads the participants first and the likes after that.
CountParticipants(t) ==
    /\ pc[t] = "count"
    /\ roster' = [roster EXCEPT ![t] = participants]
    /\ Goto(t, "likes")
    /\ UNCHANGED <<rows, expired, lock, req, outcome, shown, crashes>>

OwnLikers(t) == Likers(votes, req[t].item) \cup {req[t].user}

\* MUTANT of IsUnanimous: skips are counted too (Vote.liked is not filtered).
IsUnanimousBySwipes(t) ==
    Cardinality({u \in Users : votes[u][req[t].item] # "none"} \cup {req[t].user})
        >= Cardinality(roster[t])

IsUnanimous(t) ==
    /\ roster[t] # {}
    /\ Cardinality(OwnLikers(t)) >= Cardinality(roster[t])

\* resolve_unanimous finds the session still ACTIVE: this slot has held its
\* row since it checked.
CountLikes(t) ==
    /\ pc[t] = "likes"
    /\ IF IsUnanimous(t)
       THEN /\ outcome' = [outcome EXCEPT ![t] = Unanimous(req[t].item)]
            /\ Goto(t, "settle")
       ELSE /\ Goto(t, "commit")
            /\ UNCHANGED outcome
    /\ UNCHANGED <<rows, expired, lock, req, roster, shown, crashes>>

\* get_db commits after the handler has returned (and after the response).
Commit(t) ==
    /\ pc[t] = "commit"
    /\ WriteVote(t) /\ WriteWaiting(t)
    /\ End(t) /\ Unlock(t)
    /\ UNCHANGED <<status, expired, result, participants, shown, crashes>>
--------------------------------------------------------------------------------
(* POST /sessions/{id}/finish: SessionService.mark_participant_finished.   *)

\* Session and participants are loaded without a lock.  Setting WAITING on a
\* row that is WAITING already writes nothing.
Finish(t, u) ==
    /\ u \in participants
    /\ status = "active"
    /\ \/ /\ u \notin waiting
          /\ Accept(t, [kind |-> "finish", user |-> u, item |-> NoItem, mark |-> "none"], "mark")
       \/ /\ u \in waiting
          /\ Accept(t, [kind |-> "repeat", user |-> u, item |-> NoItem, mark |-> "none"], "check")
    /\ roster' = [roster EXCEPT ![t] = participants]
    /\ UNCHANGED <<rows, expired, lock, outcome, shown, crashes>>

MarkWaiting(t) ==
    /\ At(t, "mark")
    /\ req[t].user \in participants
    /\ Goto(t, "check")
    /\ UNCHANGED <<rows, expired, lock, req, roster, outcome, shown, crashes>>

\* The participant row is gone: the UPDATE matches nothing and fails.
MarkFails(t) ==
    /\ pc[t] = "mark"
    /\ req[t].user \notin participants
    /\ End(t)
    /\ UNCHANGED <<rows, expired, lock, shown, crashes>>

\* _all_participants_finished: the roster loaded at the start, the votes that
\* are committed now.
AllFinished(t) == \A p \in roster[t] : Swiped(votes, p) = Deck

CheckAllFinished(t) ==
    /\ pc[t] = "check"
    /\ Goto(t, IF AllFinished(t) THEN "lock" ELSE "commit")
    /\ UNCHANGED <<rows, expired, lock, req, roster, outcome, shown, crashes>>
--------------------------------------------------------------------------------
(* GET /sessions/{id}/result and the resolve_expired_sessions task.        *)

AskResult(t, u) ==
    /\ u \in participants
    /\ Accept(t, [kind |-> "result", user |-> u, item |-> NoItem, mark |-> "none"],
              IF status = "active" /\ expired THEN "lock" ELSE "fetch")
    /\ UNCHANGED <<rows, expired, lock, roster, outcome, shown, crashes>>

\* MUTANT of Beat: overdue sessions are found through their votes.
BeatIfVoted ==
    /\ status = "active" /\ expired
    /\ \E u \in Users : Swiped(votes, u) # {}
    /\ Accept(Worker, [NoRequest EXCEPT !.kind = "beat"], "lock")
    /\ UNCHANGED <<rows, expired, lock, roster, outcome, shown, crashes>>

\* Every five seconds; the ids of overdue sessions are read without a lock.
Beat ==
    /\ status = "active" /\ expired
    /\ Accept(Worker, [NoRequest EXCEPT !.kind = "beat"], "lock")
    /\ UNCHANGED <<rows, expired, lock, roster, outcome, shown, crashes>>

\* get_result reads the stored row; 404 while there is none.
FetchMissing(t) ==
    /\ pc[t] = "fetch"
    /\ result = NoResult
    /\ End(t)
    /\ UNCHANGED <<rows, expired, lock, shown, crashes>>

FetchResult(t) ==
    /\ pc[t] = "fetch"
    /\ result # NoResult
    /\ shown' = shown \cup {Recovered(result, votes)}
    /\ End(t)
    /\ UNCHANGED <<rows, expired, lock, crashes>>
--------------------------------------------------------------------------------
(* MatchService.resolve_session, shared by finish, result and the worker.  *)

\* _lock_session reads the row again; a session that is FINISHED by now is
\* not decided a second time.
AfterLock == IF status = "finished" THEN "reread" ELSE "tally"

\* MUTANT of AcquireLock: _lock_session reads without FOR UPDATE.
AcquireNothing(t) ==
    /\ pc[t] = "lock"
    /\ Goto(t, AfterLock)
    /\ UNCHANGED <<rows, expired, lock, req, roster, outcome, shown, crashes>>

AcquireLock(t) ==
    /\ pc[t] = "lock"
    /\ lock = NoSlot
    /\ lock' = t
    /\ Goto(t, AfterLock)
    /\ UNCHANGED <<rows, expired, req, roster, outcome, shown, crashes>>

\* MUTANT of Tally: the outcome is broadcast before it is committed.
TallyAndTell(t) ==
    /\ pc[t] = "tally"
    /\ \E o \in Decisions(votes) : /\ outcome' = [outcome EXCEPT ![t] = o]
                                   /\ shown' = shown \cup {o}
    /\ Goto(t, "settle")
    /\ UNCHANGED <<rows, expired, lock, req, roster, crashes>>

\* The like counts are read and the winner is drawn.
Tally(t) ==
    /\ pc[t] = "tally"
    /\ \E o \in Decisions(votes) : outcome' = [outcome EXCEPT ![t] = o]
    /\ Goto(t, "settle")
    /\ UNCHANGED <<rows, expired, lock, req, roster, shown, crashes>>

\* _persist and the commit.
Settle(t) ==
    /\ pc[t] = "settle"
    /\ result' = Persisted(outcome[t])
    /\ status' = "finished"
    /\ WriteVote(t) /\ WriteWaiting(t)
    /\ Unlock(t)
    /\ Goto(t, "publish")
    /\ UNCHANGED <<expired, participants, req, roster, outcome, shown, crashes>>

Reread(t) ==
    /\ pc[t] = "reread"
    /\ outcome' = [outcome EXCEPT ![t] = Recovered(result, votes)]
    /\ WriteWaiting(t)
    /\ Unlock(t)
    /\ Goto(t, "publish")
    /\ UNCHANGED <<status, expired, result, votes, participants, req, roster, shown, crashes>>

\* The outcome is broadcast after the commit; get_result goes on to read it.
Publish(t) ==
    /\ pc[t] = "publish"
    /\ shown' = shown \cup {outcome[t]}
    /\ IF req[t].kind = "result"
       THEN /\ Goto(t, "fetch")
            /\ outcome' = [outcome EXCEPT ![t] = NoOutcome]
            /\ UNCHANGED <<req, roster>>
       ELSE End(t)
    /\ UNCHANGED <<rows, expired, lock, crashes>>
--------------------------------------------------------------------------------
(* DELETE /users/me: UserService.delete_account, as far as this session     *)
(* sees it.                                                                *)

DeleteAccount(t, u) ==
    /\ u \in Deleters \cap participants
    /\ Accept(t, [kind |-> "delete", user |-> u, item |-> NoItem, mark |-> "none"], "leave")
    /\ UNCHANGED <<rows, expired, lock, roster, outcome, shown, crashes>>

\* _leave_open_sessions deletes the participant row of a session that runs.
LeaveSession(t) ==
    /\ At(t, "leave")
    /\ roster' = [roster EXCEPT ![t] = IF status = "active" THEN participants \cap {req[t].user}
                                                           ELSE {}]
    /\ Goto(t, "erase")
    /\ UNCHANGED <<rows, expired, lock, req, outcome, shown, crashes>>

\* DELETE of the users row; its foreign keys are followed after it is locked.
EraseUser(t) ==
    /\ At(t, "erase")
    /\ req[t].user \in participants
    /\ Goto(t, "sever")
    /\ UNCHANGED <<rows, expired, lock, req, roster, outcome, shown, crashes>>

\* A second request has deleted the account in the meantime.
EraseNothing(t) ==
    /\ At(t, "erase")
    /\ req[t].user \notin participants
    /\ End(t)
    /\ UNCHANGED <<rows, expired, lock, shown, crashes>>

\* ON DELETE CASCADE: the participant row and the votes ..
SeverRows(t) ==
    /\ At(t, "sever")
    /\ roster' = [roster EXCEPT ![t] = {req[t].user}]
    /\ Goto(t, IF req[t].user = Host THEN "host" ELSE "gone")
    /\ UNCHANGED <<rows, expired, lock, req, outcome, shown, crashes>>

\* .. and ON DELETE SET NULL of sessions.host_id, which updates the sessions row.
ClearHost(t) ==
    /\ At(t, "host")
    /\ lock = NoSlot
    /\ lock' = t
    /\ Goto(t, "gone")
    /\ UNCHANGED <<rows, expired, req, roster, outcome, shown, crashes>>

DeleteCommit(t) ==
    LET u == req[t].user IN
    /\ pc[t] = "gone"
    /\ participants' = participants \ {u}
    /\ waiting' = waiting \ {u}
    /\ votes' = [votes EXCEPT ![u] = BlankBallot]
    /\ End(t) /\ Unlock(t)
    /\ UNCHANGED <<status, expired, result, shown, crashes>>
--------------------------------------------------------------------------------
(* The surroundings.                                                       *)

Expire ==
    /\ ~ expired
    /\ expired' = TRUE
    /\ UNCHANGED <<rows, lock, pc, req, roster, outcome, shown, crashes>>

\* The process or its connection dies: nothing uncommitted survives, and what
\* was committed is not announced.
Crash(t) ==
    /\ pc[t] # "idle"
    /\ crashes < MaxCrashes
    /\ crashes' = crashes + 1
    /\ End(t) /\ Unlock(t)
    /\ UNCHANGED <<rows, expired, shown>>

\* PostgreSQL looks for circles of waiting transactions and rolls one of them
\* back; the request fails.
DetectDeadlock(t) ==
    /\ \E S \in SUBSET Waiting : t \in S /\ Circle(S)
    /\ End(t) /\ Unlock(t)
    /\ UNCHANGED <<rows, expired, shown, crashes>>
--------------------------------------------------------------------------------
\* A handler that has started goes on.
Step(t) ==
    \/ RefuseVote(t) \/ InsertVote(t) \/ CountParticipants(t) \/ CountLikes(t)
    \/ MarkWaiting(t) \/ MarkFails(t) \/ CheckAllFinished(t) \/ Commit(t)
    \/ AcquireLock(t) \/ Tally(t) \/ Settle(t) \/ Reread(t) \/ Publish(t)
    \/ FetchMissing(t) \/ FetchResult(t)

Deletion(t) ==
    \/ LeaveSession(t) \/ EraseUser(t) \/ EraseNothing(t)
    \/ SeverRows(t) \/ ClearHost(t) \/ DeleteCommit(t)

Request(t, u) ==
    \/ \E r \in Deck, mark \in {"skip", "like"} : Swipe(t, u, r, mark)
    \/ Finish(t, u)
    \/ AskResult(t, u)
    \/ DeleteAccount(t, u)

Next ==
    \/ \E t \in Slots \ {Worker}, u \in Users : Request(t, u)
    \/ Beat
    \/ \E t \in Slots : Step(t) \/ Deletion(t) \/ DetectDeadlock(t) \/ Crash(t)
    \/ Expire

Spec == Init /\ [][Next]_vars

\* Time passes, Celery beat keeps ticking, the worker is not starved, and the
\* database resolves its deadlocks.  A handler that waits for a row is queued:
\* it is not overtaken for ever.  Nobody has to swipe, report, ask or leave.
Fairness ==
    /\ WF_vars(Expire)
    /\ WF_vars(Beat)
    /\ WF_vars(Step(Worker))
    /\ \A t \in Slots \ {Worker} : SF_vars(Step(t) \/ Deletion(t))
    /\ WF_vars(\E t \in Slots : DetectDeadlock(t))

FairSpec == Spec /\ Fairness
--------------------------------------------------------------------------------
(* Properties.                                                             *)

Everyone == participants = Users

\* A session settles on exactly one outcome (match_service.py, resolve_unanimous
\* and resolve_session): whatever mix of last likes, finish reports, result
\* requests and worker ticks race for it, a stored result is never replaced and
\* the session never runs again.
SettledOnce ==
    [][result # NoResult => /\ result' = result
                            /\ status' = "finished"]_vars

\* A unanimous result names a restaurant that every remaining participant has
\* liked (requirement 8.11), although _is_unanimous compares two counts read
\* by two statements while accounts may be deleted.
UnanimityIsReal ==
    result # NoResult /\ result.kind = "unanimous"
        => participants \subseteq Likers(votes, result.winner)

\* While nobody has left, a running session has no restaurant that everybody
\* likes: of two participants who add the last two likes at the same moment, one
\* sees the other's vote and ends the session (requirement 8.10).
UnanimityNotMissed ==
    status = "active" /\ Everyone
        => \A r \in Deck : ~ (Users \subseteq Likers(votes, r))

\* While nobody has left, the stored result is what the stored ballots say: no
\* vote slips in between the tally and the result, or after it.
ResultFitsBallots ==
    result # NoResult /\ Everyone => Fits(result, votes)

\* Nobody is told an outcome that is not the committed one: events are published
\* after the commit, and a transaction that dies takes its draw with it.
OnlyTruthIsTold ==
    \A o \in shown : result # NoResult /\ Persisted(o) = result

\* While nobody has left, everybody is shown the same wheel, by whichever event
\* or response, and the winner is on it.
OneWheel ==
    Everyone => \A o \in shown :
                    /\ \A p \in shown : p.wheel = o.wheel
                    /\ o.wheel # {} => o.winner \in o.wheel

\* "Recover the same wheel after a lost event or concurrent resolution"
\* (match_service.py, get_resolution), said without a condition.
SameWheelRecovered == \A o, p \in shown : p.wheel = o.wheel

\* Every recorded vote belongs to a participant, so that a tally never counts
\* somebody who is gone: an account cannot be deleted around its own open vote.
VotersParticipate ==
    \A u \in Users : Swiped(votes, u) # {} => u \in participants

\* After the result is stored, ballots only disappear, and only with the account.
BallotsFrozen ==
    [][status = "finished"
        => \A u \in participants' : votes'[u] = votes[u]]_vars

\* Each step is a step of the atomic specification or changes nothing it sees.
Atomic == INSTANCE AtomicVoting
            WITH ballots <- votes, roster <- participants, outcome <- result
ImplementsAtomic == Atomic!Spec

\* The timer is authoritative on the server (requirement 12.7): whatever clients
\* do or leave undone, crashes and account deletions included, the session is
\* overdue and settled in the end (both are for ever).
OverdueIsSettled == []<>(expired /\ status = "finished")

\* Every request ends: no row lock outlives its request, so that whoever waits
\* is served or, where an account deletion is one of those who wait for each
\* other, rolled back by the database.
RequestsEnd == \A t \in Slots : []<>(pc[t] = "idle")

\* Swipes, finish reports, result requests and the worker never wait for each
\* other in a circle, although a finish report holds the participant row when it
\* asks for the sessions row: whoever does is waiting for an account deletion.
OnlyDeletionsDeadlock ==
    \A S \in SUBSET Slots : Knot(S) => \E t \in S : req[t].kind = "delete"
================================================================================
