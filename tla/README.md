# TLA+ models of Ginder

Ginder lets a group of friends swipe on restaurants and settles on one for them.  A FastAPI backend keeps everything in
PostgreSQL, uses Redis for pub/sub and short locks, and runs a Celery worker for time-driven work; a React Native app is
the client.  This directory holds TLA+ models of the parts of Ginder where interleaving, failure and order decide whether
the program is right, the TLC runs that check them on small instances, and TLAPS proofs that hold for instances of any
size.  Paths below are relative to `src/`.

`PROJECT.json` is the machine-readable index: which definition models which lines, which run checks which property,
which plausible bug (a *mutant* of a definition) each property catches, the hazards and the theorems.

    tlc -workers 2 -config VotingOutcome.cfg MCPartyVoting      # one run
    tlapm PartyVotingProofs.tla                                 # one proof module

## 1. Inventory

| Component | State | Operations | Talks to | What makes it right |
|---|---|---|---|---|
| **Party voting and resolution** (`vote_service`, `match_service`, the second half of `session_service`, `tasks/cleanup`) | `sessions.status/ends_at`, `votes`, `session_participants.status`, `match_results`, `session_deck` | swipe, report a finished deck, ask for the result, close overdue sessions | pub/sub events after commits; Celery beat | one result per session, computed from the final ballots; unanimity neither missed nor invented; announced only when committed; an overdue session is closed whoever is offline |
| **Party membership** (first half of `session_service`, `user_service`, `friend_service`, `notification_service`) | `users`, `sessions.status/host_id`, `session_participants`, `friendships`, `notifications` | create, join, start, kick, leave, cancel, invite, unfriend, delete account | row locks on `users` and `sessions`; cascades of the foreign keys | one open session per user; joins, kicks and starts agree on one roster; no lobby without a host |
| **Database session dependency** (`core/dependencies.get_db`) | one transaction per request | commit after the handler (and after the response), rollback on an exception | everything | nothing uncommitted is relied upon |
| **Logins and tokens** (`auth_service`, `auth_session_service`, `core/security`) | `users.hashed_password/token_version`, `auth_sessions` (hash of the present refresh token, `revoked_at`, `expires_at`) | login, refresh, logout, forgot and reset password | the phone | a refresh token works once; a reset ends all older logins; what is revoked stays revoked |
| **Client credentials** (`authStore.ts`, `services/api/client.ts`) | tokens in memory and in secure storage, `authRevision`, `credentialQueue`, `pendingRefresh` | sign in, sign out, retry after a 401, hydrate | logins and tokens | never replays its own token, never mixes two logins, secure storage follows memory |
| **Real-time delivery** (`websocket/*`) | `active_connections`, the authorizers, the Redis subscription, endpoints and deliveries under way | connect, replace, answer, recheck, disconnect, broadcast, hear, deliver | Redis, session client | the right socket is registered; nobody hears of an event without a right to it; events keep their order; who lost the rights is removed |
| **Session client** (`SessionSwipeScreen`, `LobbyScreen`, `sessionSocket`, `useVotes`) | where the screen is, in-flight requests, the poll | swipe, report, leave for the result | delivery and the session API | leaves once, for the server's outcome; arrives there although events are lost |
| **Google quota and live search** (`quota_service`, `google_places_service`) | `external_api_usage`, Redis cooldowns, calls under way | throttle, reserve, send | Google, searches | never more calls in a month than the hard limit; no reservation pays twice |
| **OSM discovery cache** (`osm_fallback_service`) | Redis marker and token lock of a cell, `restaurants` | fetch once per area, wait for another's fetch, upsert | Overpass mirrors, searches | one fetch at a time per area while the lock lives; a late holder does not release another's lock |
| **Restaurant search and decks** (`restaurant_service`) | `restaurants`, `session_deck`, placeholder rows | search, merge sources, deal a deck, store it, look it up | both caches, quota, sessions | hidden and judged restaurants stay out; a session has a whole deck; starts do not deadlock |
| **Opening hours** (`utils/places.py`) | none | `is_open_at` on weekly periods | search filters, administration | open exactly in the hours the schedule means |
| **Solo votes** (`vote_service`) | `votes` without a session | swipe, like from the list | home and likes screens, cleanup | one row per user and restaurant; it refers to a restaurant that is there |
| **Restaurant administration** (`routes/admin.py`, `restaurant_media`, `tasks/cleanup`) | `restaurants.admin_version`, `restaurant_audits`, photo objects | edit, upload, remove; import, expiry, nightly cleanup | object storage, several tabs | no lost update; what is curated stays; the shown photo exists |
| Rate limits, push and e-mail, history and usage reports, screens and translations, operations scripts | counters; none | | | see section 7 |

What is hard in this code: several requests of several users meet in the same rows (READ COMMITTED, some under
`FOR UPDATE`, some not); accounts can disappear at any moment and take rows along by cascade; `get_db` commits *after*
the response has gone out, so a client may act on something that is not there yet; a transaction may die between any two
statements; events may be lost; the phone has several requests, a refresh, a sign-out and slow secure storage in flight
at once.  The list of hazards, each at its line and with the properties that cover it, is in `PROJECT.json`.

## 2. Modules

    BallotRules ---- AtomicVoting        (what a session promises)
         |                ^ implements
         +---- PartyVoting ---- PartyVotingProofs, MCPartyVoting
         +---- SessionScreen ---- SessionScreenProofs, MCSessionScreen
                            (a phone's swipe screen, with AtomicVoting as its server)
    PartyLobby ---- PartyLobbyProofs, MCPartyLobby
    LoginSessions ---- LoginSessionsProofs, MCLoginSessions
         |
         +---- DeviceLogin ---- DeviceLoginProofs, MCDeviceLogin   (a phone composed with the login server)
    SessionSockets ---- SessionSocketsProofs, MCSessionSockets
    GoogleQuota                          (what may be spent)
         |                ^ implements
         +---- Discovery ---- DiscoveryProofs, MCDiscovery
    OpeningHours
         |
         +---- Catalogue ---- CatalogueProofs, MCCatalogue

The session, login and catalogue modules model *transactions* the same way.  A request handler is a slot; `pc[t]` names the next
statement; what a transaction has read or written without committing lives in per-slot variables, and the committed rows
are ordinary variables.  A statement that takes a row lock is guarded by the lock being free, and a commit or a rollback
gives up all locks of the slot.  Statements that touch nothing another transaction can see in between are one action.

**BallotRules** holds the pure part of `match_service` as functions of a ballot sheet: `Leaders`, `Decisions` (what
`resolve_session` may draw), `Recovered` (what `get_resolution` rebuilds from the stored row).  The wheel is a set and the
random draw a choice.

**PartyVoting** is one running session.  `Swipe/RefuseVote/InsertVote/CountParticipants/CountLikes/Commit` is
`record_swipe` with `_is_unanimous` as the two statements it is; `Finish/MarkWaiting/MarkFails/CheckAllFinished` is
`mark_participant_finished`; `AskResult/FetchMissing/FetchResult` the result route; `Beat` the Celery task;
`AcquireLock/Tally/Settle/Reread/Publish` is `resolve_session`, shared by the last three.  `DeleteAccount/LeaveSession/
EraseUser/SeverRows/ClearHost/DeleteCommit` is `delete_account` as far as this session sees it, one step per row lock it waits
for: the own participant row, the users row, the cascade to participant and votes, and for the host the sessions row, whose
`host_id` is set to NULL.  `WaitsFor` says whose rows the next statement needs, `DetectDeadlock` is PostgreSQL breaking a
circle of waits, `Crash` kills any transaction.  A session starts with everybody in, no votes.

**AtomicVoting** says the same in three atomic actions (`Cast`, `Close`, `Leave`).  PartyVoting implements it under
`ballots <- votes, roster <- participants, outcome <- result`.  The guard `roster = Users` in it is the honest part: once
somebody has deleted the account the code makes no fresh tally, so the stronger promises stop there.

**PartyLobby** has several sessions: `Create*`, `Join*`, `Start*`, `Kick`, `Leave`, `Cancel`, `Invite*`, `Unfriend*`,
`ReadInvite` and the statements of `delete_account` (`DeleteAccount` expires the invitations to the own lobbies,
`DeleteLobbies`, `LeaveSessions`, `EraseUser`, `DeleteCommit`).  `sessionLock` and `userLock` are row locks; `left` and `stale`
the participant rows and invitations an uncommitted deletion has written.  Starting and cancelling take two steps after the
sessions row, the roster (`StartRows`, `CancelRows`) and the invitations (`StartCommit`, `CancelCommit`), and wait for either
if somebody else has written them.  `WaitsFor` says who waits for whom, a step waits by `At`, and `Abort` may end any request,
a deadlock's victim among them.  `Finish` abstracts PartyVoting.

**LoginSessions** is the login server.  A login is a row of `auth_sessions` (a *family*) that keeps the hash of its
present refresh token; the access token handed out with a refresh token carries the same claims, so one record stands for
the pair.  `Login/StartSession/CommitLogin`, `Refresh` followed by one of `RefreshRefused`, `RefreshReplayed`,
`RefreshRotates/CommitRefresh`, `Logout/CommitLogout`, `Reset/CommitReset` and `Expire` are the operations; the response
goes out in `StartSession` and `RefreshRotates`, before the commit.  Row locks are read off what the slots are doing
(`HoldsUser`, `PinsUser` for the foreign key of an uncommitted login, `HoldsFamily`).  Any token ever issued may be
presented at any time, any number of times.  `proof` in a token is a history variable: which password its login knew.

**DeviceLogin** adds one phone: memory (`store`), secure storage (`keychain`), `revision`, the `queue` of storage writes,
open API requests (`call`), refreshes under way (`flights`, of which the one for the token in memory is `pendingRefresh`)
and sign-outs still to be sent (`farewell`).  Continuations that JavaScript runs without returning to the event loop are
one action: `Settled` is the tail of `setTokens`, of `refreshAccessToken` and of the interceptor together.  Every action
that involves the server *is* the LoginSessions action.

**SessionScreen** is the swipe screen of one participant.  The server is AtomicVoting (`Server!Cast`, `Server!Close`),
plus what a phone can notice of its transactions: an answered swipe is `uncommitted` and holds the sessions row until
`CommitSwipe`, or dies in `LoseCommit`.  The phone's state is the four queries (`deck`, `progress`, `lobby`, `fetched`), the
two mutations (`swipe`/`reply`, `report`), what SwipeCard has moved past (`told`) and the screen's own `hasExpired`,
`matched`, `hasNavigated`.  Every callback is an action: `SwipeAccepted`, `SwipeFails`, `ReportClosed`, `ResultEvent`,
`MatchEvent`, `TimerExpires`, `PollLobby`, `PollResult`, the effects `ResultEffect` and `DeckEmptyEffect`; those that learn
the outcome share `GoToResolution`.  `mounted` outlives `screen = "swipe"`, since callbacks of a replaced screen still run.
Requests wait in `wire` and may be handled late, after the phone has given up, or never; `ResultEvent` may come at any
time, repeatedly or never; `TimerExpires` follows the phone's clock, not the server's.

**SessionSockets** is delivery to one session by one API process.  Handlers are coroutines of one event loop, so the lines
between two awaits are one action: `Handshake/Connect/ClosePrevious/Receive/Recheck/Hangup` is the endpoint with the
registry calls it makes (`Leave` is its `finally`, `Disconnect` the comparing removal), `Broadcast` publishes and falls back
to local delivery, `Hear` is `_listen`, which waits for the deliveries of one event (`MayHear`), and `Ask/Refuse/Send/Stall`
is `_send_authorized` for one of them.  A delivery is a record in `sends`, so that everything else may happen between its
question and its send.  `Kick` and `Rejoin` are rights that other handlers end and give back.  `barred[e]` is a history
variable: the connections that have had no right to event `e` at any moment since its broadcast.  `LoseEvents` is a broken
subscription or a listener that died.

**GoogleQuota** is the promise about money and the code that keeps it: a call is throttled per account (`Throttle`, in
Redis), reserved in the month's counter (`ReserveMonthly`, the upsert with its WHERE, in a transaction of its own), sent
and answered.  A failing Redis or PostgreSQL may have taken effect all the same.  `Requesting` is what callers may do.

**Discovery** makes decks: `Begin`, `FirstSearch`, then either the cell cache (`ReadMarker/AcquireLock/AwaitMarker/Fetch/
Persist/SetMarker/ReleaseLock` is `ensure_area`) and `SearchAgain`, or Google (`AskGoogle/ReceiveCards/PhotosLoaded`), then
`DealSolo` or `DealSession`; a session that got Google places inserts a placeholder row for each, in the order of their ids
(`InsertPlaceholder`), and `CommitDeck` stores rows and deck.  `Recover/Recovered` looks a stored deck up.  Between any two
steps swipes, an administrator, expiring keys and rows, and a death may come.  Every step of its calls is a GoogleQuota
action; `ImplementsQuota` says that the composition is nothing else as far as money goes.

**OpeningHours** has `is_open_at` with its helpers as operators, and next to them what a window means: on the circle of the
week, `now` is nearer after its beginning than its end is.  **Catalogue** is one table between all its writers: `Import` and
`Expire`; administrators' tabs (`Open`, `TakeRow` with the version check under FOR UPDATE, `SaveEdit`, `PutPhoto/SavePhoto/
RemovePhoto/DeleteOld` with the bucket outside of the transaction); participants (`Ask/Insert/CommitReferences`: solo votes
and decks, whose foreign keys share rows until they commit); and the cleanup as the statement PostgreSQL makes of it
(`Cleanup` the snapshot, `TakeDead` row by row with a second look, `EndCleanup` with ON DELETE RESTRICT).  `Abort` kills any
of them; a wait cycle between a deck and the cleanup is broken by it, as PostgreSQL does.

## 3. Runs

| Run | Instance | Distinct states | Shows |
|---|---|---|---|
| `voting_outcome` | 2 users, 2 restaurants, 2 handlers + worker, both may delete the account, 1 crash | 2,166,530 | `UnanimityIsReal`, `UnanimityNotMissed`, `ResultFitsBallots`, `OnlyTruthIsTold`, `OneWheel`, `OnlyDeletionsDeadlock`, and that PartyVoting implements AtomicVoting (`ImplementsAtomic`) |
| `voting_liveness` | 2 users, 1 restaurant, 2 handlers + worker, the host may delete the account, 1 crash, fairness, no symmetry | 463,244 | `OverdueIsSettled`, `RequestsEnd` |
| `voting_same_wheel` | 2 users, 2 restaurants | violation | finding 1 |
| `lobby_membership` | 2 users, 2 sessions, 3 handlers, 1 unread invitation | 500,084 | `OneOpenSession`, `RosterAgreed`, `OnlyDeletionsDeadlock`, `HostlessOnlyShrinks` |
| `lobby_unfriend` | the same without invitations | violation | finding 2 |
| `login_server` | 1 user, 2 logins, 2 handlers, 4 tokens, 2 resets, 1 crash | 54,951 | `AcceptedKnowPassword`, `ReplayFails`, `RejectedForGood` |
| `login_device` | 1 user, 2 logins, 2 handlers, 3 tokens, 1 reset, 2 open requests, 1 fault | 1,247,081 | `KeychainFollows`, `OwnTokenOnly`, `EvictedForCause` |
| `session_screen` | 2 users, 2 restaurants, 1 killed app or lost commit, fairness | 828,133 | `ScreenFits`, `NobodySkipsTheDraw`, `LeavesOnce`, `ReportIsEarned`, `ScreenFollows` |
| `told_vote` | the same without faults | violation | finding 3 |
| `discovery` | 1 user, 2 rows, 2 Google places (one is one of the rows), 2 requests at a time, 1 edit, 1 fault, 2 months | 798,634 | `DealtFresh`, `SessionDecksWhole`, `NoInsertDeadlock`, `OneFiller`, `WithinLimit`, and that Discovery implements GoogleQuota (`ImplementsQuota`) |
| `catalogue` | 1 restaurant, 2 tabs, 1 participant's request, 2 photos, 3 versions, 1 fault, days of 2 instants | 783,333 | `AuditIsAChain`, `PhotosKept`, `ReferencesHold`, `HoursRight`, `CuratedSurvives` |
| `session_sockets` | 1 user, 2 sockets, 2 events, 1 fault, fairness | 212,668 | `RegistryRight`, `InOrder`, `NothingAfterRevocation`, `RevokedIsRemoved` |

*Bounds.*  Two restaurants give ties and majorities; that a third user changes nothing about unanimity is proved
(`UnanimitySound`, `UnanimityComplete`).  Races in this code are between two requests, or a request and the worker; two handlers and the worker
give every pair, and a request that arrives later takes a freed slot.  Two sessions and two concurrent requests of one
user are what it takes to be in two open sessions; three requests make circles of two and of three, and that no number of
users, sessions or requests adds one without a deletion is proved (`OnePlace`, `SameRoster`, `DeletionsDeadlock`).  Two families are a login and the next one; four tokens are a login, a
rotation, and a second login with its rotation; two resets with one link need two handlers.  `MaxCrashes`, `MaxFaults`,
`MaxTokens`, `MaxResets`, `MaxRevisions`, `MaxEvents`, `MaxVersion`, `MaxMonth`, `MaxRequests` and `MaxEdits` cap what nothing
else bounds.  Discovery's limits are reached: 2 searches and 1 photo a month for up to 4 calls; with two rows and two places a session
has never more candidates than cards (`MinLocal = MaxDeck = 2`), so that a longer list is cut to `MaxDeck` is left to the proof
(`DecksWhole`).  Two sockets of one user are
a connection and the one that replaces it; a second user is only another receiver.  One row is enough for the races about
it; the sole relation between rows (a deck of several, the cleanup of several) is proved for any number, and the invariant of
that proof was model-checked with two rows.  Users, restaurants, slots, sessions,
families and open requests are symmetric, except in the liveness runs and on the phone's screen.  One other participant is
enough for the screen: it sees the others only through the stored outcome.  Deadlock checking is off where a world really ends:
the session is settled, all accounts are gone, or tokens are used up.  Every action fires in the passing runs.

*Fairness* in `voting_liveness`.  `WF(Expire)`: time passes.  `WF(Beat)` and `WF(Step(Worker))`: Celery beat runs every five
seconds, independently of the API, and its worker runs.  `SF(Step(t) \/ Deletion(t))` for the slots of the API: a running handler
is scheduled, and PostgreSQL queues those who wait for one row, so that nobody is overtaken for ever (a handler that waits is
disabled whenever another has the row, hence strong fairness; the sessions row is asked for by new swipes only while the session
runs).  `WF(\E t : DetectDeadlock(t))`: PostgreSQL looks for circles after `deadlock_timeout`.  Without it `RequestsEnd` fails, by
the circle described below.  Both properties are `[]<>` of what is for ever once it is true or ends each request: the session
overdue and finished, a slot idle.  Nobody is assumed to swipe, report, ask or leave.  In `session_screen`: an overdue session is settled (what `OverdueIsSettled`
shows), handlers commit or die, the deck query ends one way or the other, and `refetchInterval` repeats the two polls until
they get through; socket events, the phone's clock, swipes and reports are owed nothing.  In `session_sockets` each endpoint and each
deliverer is scheduled, since `receive_text` gives up after 30 seconds and a delivery after 5 and the event loop then runs what is
ready; clients need send nothing, events need not come.  The other runs assume no fairness.

*Findings* (three runs that TLC refutes; each quotes the line it contradicts):
1. After a tie, a participant who deletes the account takes the votes along; `get_resolution` then recovers another
   wheel than the one announced ("Recover the same wheel", `match_service.py:133`).
2. `unfriend` checks without a lock; a join that commits before its DELETE lets a friendship go although both are in one
   open session ("Blocked if both are in the same open session", `friend_service.py:68`).
3. A swipe whose answer is lost is recorded although the card returns; if the participant now swipes it the other way,
   `uq_vote_once` turns the second vote away and the phone is told it was saved ("a duplicate request rather than a real
   problem", `vote_service.py:55`).  A skip the participant saw confirmed may count as a like.

Observations that the properties name instead of hiding: a lobby can lose its host (`create_session` that commits while
`delete_account` of the same user is past `_leave_open_sessions`), and `HostlessOnlyShrinks` shows that nobody can join or
start it then.  `PhotosKept` excepts an upload whose commit took effect without being acknowledged, after which
`upload_photo` deletes the object that the row shows.  `HoursRight` is about what a search with `open_now` finds: `is_open_at` takes
unknown hours for open, and `_search` drops such rows first (`restaurant_service.py:376`); without that filter the property fails.
It excepts a window that ends before it begins on one day: the form accepts it, it means almost a week, and its last hours count
as closed (`Misread`).  `RejectedForGood` counts a login as rejected from the moment its replay is answered, so it fails without
the commit by hand in `refresh` (`auth_service.py:134`).

A document that no longer says what the code does: "Group remains local-only" (`README.md:200` of the repository).
`create_session_deck` deals Google's places to a session for which the catalogue has no rows (`restaurant_service.py:179`), and
`docs/GOOGLE_PLACES.md:109` describes it; `DecksWhole` is about both kinds of decks.

`ScreenFollows` holds with one exception, which it names: `Stranded`.  A unanimous winner is shown on a card of the deck
(`SessionSwipeScreen.tsx:81`); if the deck query has used up its retries nothing starts it again, so this screen waits until
the app is restarted.

`OnlyDeletionsDeadlock` (of PartyLobby and of PartyVoting) is the precise form of another one.  `session_service`, `vote_service`
and `match_service` take their row locks in one order, but `delete_account` takes them in another, so requests can wait for each
other in a circle; PostgreSQL then rolls one of them back, and that request fails.  In each such circle there is a deletion:

- in a session that runs, the host's own swipe (it has the sessions row, and its vote's foreign key needs the users row) and the
  deletion of the host's account (it has the users row, and SET NULL of `host_id` needs the sessions row), or two deletions of one
  account; TLC found no others with three handlers, the worker and one restaurant;
- in a lobby, a start or the host's leaving (it has the sessions row and needs invitations and participant rows) and the host's
  deletion (it has expired the invitations and needs the sessions row); a join through an invite link and the deletion of the same
  account; and longer ones through both.

## 4. What is proved

All theorems hold for every value of the constants that satisfies the named assumptions (`SessionAssumption`: finitely
many users and restaurants, at least one each, which `start_session` ensures; `SlotAssumption`, `ScreenAssumption`, `LobbyAssumption`,
`LoginAssumption`, `DeviceAssumption`, `QuotaAssumption`, `DiscoveryAssumption`, `CatalogueAssumption`, `SocketsAssumption`: the markers for "none" are
not among the things they stand for, bounds are numbers, what is dealt from is finite; `CallsAssumption`: a request has one
call for its search and one for each photo or detail; `HoursAssumption`: a day has an instant).

**PartyVotingProofs.**  The properties are not inductive: that a unanimous result is real depends on what a slot counted
two statements ago.  `IInv` follows the argument of the code: who is between two statements of a critical section holds
the row (`LockOK`), so a status read under the lock is still true (`StatusOK`); what a deletion has written nobody else has
(`DeletionOK`), so participants and their votes only disappear together (`RowsOK`), so counts taken in two statements can err in one harmless direction only (`DecisionOK`);
hence what is stored (`ResultOK`) and told (`ToldOK`) is what the ballots say.  From it: `TypeCorrect`,
`UnanimitySound`, `UnanimityComplete`, `ResultIsTally`, `Truthful`, `VotesBelong`, `SameWheel`, `OneResult`,
`FrozenBallots`, `DeletionsDeadlock` and `Refinement` (PartyVoting implements AtomicVoting: initial states map to initial states, every step
to a step or a stutter).  The cardinality comparison in `_is_unanimous` is turned into a subset fact with
`FiniteSetTheorems`.  `DeletionsDeadlock`: without a deletion only the sessions row and a participant's mark are waited for; who has
the sessions row waits for neither, and who waits with a mark waits for that row.

**PartyLobbyProofs.**  A slot past the one-session check holds its user's row (`UserLocked`), so the user stays free
(`StillFree`); a slot that joins or starts holds the lobby (`LobbyHeld`), whose roster can then only shrink
until the start has written it, and then not at all (`RosterLoaded`); a sessions row is held for the request about it, or for a
deletion of its host (`LocksOwned`), and what was written without that row is a deletion's (`DeletionsHold`).  From it:
`TypeCorrect`, `OnePlace`, `SameRoster`, `HostStays`, `HostlessShrinks`, and `DeletionsDeadlock`: who works on a locked lobby waits
for deletions only (`OwnersWaitForDeletions`), so in a circle without one everybody is a join waiting for a lobby, and whoever
has the lobby is not.

**LoginSessionsProofs.**  One transaction at a time has a user's row, one a family's (`UserExclusive`,
`FamilyExclusive`), so what refresh and reset have read still holds when they commit (`HeldIsVersion`) and a refresh that
has answered is about the row's present token (`RotatesPresent`); a login's row does not exist before its commit
(`LoginsAreNew`); stored hashes fit tokens that are pairwise different and unspent (`RowsOfTokens`, `FreshIsFresh`).
From it: `TypeCorrect`, `CountedResets`, `OldPasswordsEnd`, `SpentIsSpent` and `RejectionIsFinal`; the last two are
action properties, and the last rests on `RowsMoveForward` (versions grow, ends are final, a login keeps its user) and
`ReplaysEnd` (a replayed login is revoked).

**DeviceLoginProofs.**  Every step of the composition is one of LoginSessions or leaves the server alone (`AsLoginStep`), so the
server's invariant and theorems hold whatever the phone does (`DeviceRefinement`).  The phone's invariant is about the queue of
storage writes: a write of tokens is either the last one and still wanted (`Pending`: a sign-in that waits for it, or the
refresh of the token in memory), or a sign-out is queued behind it (`Overtaken`, `WritesInOrder`).  So memory is empty while
a sign-out is queued, and otherwise equals secure storage (`StorageFollows`); a settling refresh is of the login it was asked
for (`FlightOK`), and a request whose revision is still current belongs to the login in memory (`CallOK`).  From it:
`DeviceTypeCorrect`, `StorageHoldsMemory`, `NeverAnothersToken`.

That nobody is signed out without a cause needs the other side too.  `Meant` holds whatever is lost: a slot refreshes the token
its flight was asked about, a sign-in waits for a login, what was ended had been issued.  `Calm` holds until the first fault
or crash: the token the phone goes on with, in memory, in an answer or in the queue (`Newest`), is the one whose hash the
server has stored or is about to store (`Expected`), nobody ends its login or refreshes another token of it (`Untouched`),
and every refresh the server works on has a flight waiting for its answer (`EveryRefreshAwaited`).  Hence the refresh of the
token in memory is not refused as exchanged or ended (`NobodyRefused`), and a reset password is the only other reason:
`CalmInvariance`, `SignedOutForCause`.

**SessionScreenProofs.**  Every step of the whole is a step of AtomicVoting or leaves the server alone (`ServerSteps`, hence
`ScreenServer`), so an outcome is stored once, fits the ballots and stays (`OutcomeFits`, `ServerMoves`).  What the phone goes
by is stored by then (`HeardIsStored`); the wheel was seen by who is on it (`DrawSeen`); a screen that was left has no card to
pop up with (`LeftWithoutCard`), and one that is gone keeps nothing (`GoneIsBlank`); a card that was passed is a vote the
server answered: stored, about to be, or lost with its transaction (`PassedIsAnswered`).  From it: `ScreenTypeCorrect`,
`OutcomeIsShown`, `DrawIsSeen`, `ReportsAreEarned`, `LeavesForGood`.

**DiscoveryProofs.**  First the quota by itself.  That a number is within the limit is not inductive, since the first insert of
a month does not look at the limit: it is right because `reserve` turns an operation without any budget away before (`OnlyBudgeted`), so a counter
that was started is within its limit (`CountsBounded`).  What is reserved but unsent is counted, unused and different from
every other reservation (`PaidIsFree`, `PaidApart`).  From it: `LimitHolds`, `EveryCallPaid`.  Then decks: each request carries what its next steps rely on (`SlotOK`): what it has in hand is clean of what was
hidden or judged when it began (`Clean`), on the way to a session's deck it has enough cards, all rows or all places
(`OnTheWay`), every placeholder it has passed is there or its own, and it inserts in ascending order (`Placing`), so who
waits is behind the one waited for (`WaitsAhead`) and the foremost of any number of starts does not wait (`InsertsInOrder`; the
library has no maximum of a finite set to cite, so the foremost is the one with the fewest places ahead).  Calls belong to requests that wait for them
(`CallsOwned`), hence every step is a quota step or leaves the quota alone (`SpendsAsAllowed`), and GoogleQuota's `LimitHolds` carries over to the composition
(`DecksWithinLimit`).  Further: `OneFillerAtATime`, `DecksWhole`, `DecksFresh`.

**CatalogueProofs.**  `WindowsRight` is about three points on the circle of the week, in the order of day and time; the walk of
`_day_is_between` is first shown to find the days that lie between (`DaysBetween`).  Of the table: who is past the version check holds the row, and its copy has the row's version and photo (`TabsHold`, `CopiesAgree`), so a save
replaces what was shown; a shared row is there and not held, and the cleanup holds the dead rows it takes, while the restricting foreign keys are looked at last
(`Exclusive`, `SharedThere`, `CleanerHolds`), so no reference is left behind; a key is minted once and shown by one row, and what
is about to be deleted is shown nowhere, but for unacknowledged uploads (`UploadsFresh`, `ClearsUnshown`, `UndoesUnsure`).
From it: `NoSaveIsLost`, `NothingDangles`, `PhotosAreKept`, `CuratedStays`, and `HoursMeanWhatTheySay`, which joins `WindowsRight` with
the filters of search and the fact that only curated rows have hours.

**SessionSocketsProofs.**  `Disconnect` compares, so what is registered is live, authorised and the user's last
(`AuthorizersFit`, `RegisteredLive`, `LatestKept`).  A delivery that was cleared is to a socket with rights at some moment
since the broadcast (`ClearedMay`).  The listener delivers one event at a time (`OneAtATime`), the channel ascends and is newer
than what was heard (`ChannelAscends`, `ChannelNewer`, `ListenerNewer`), everything else is the fallback's (`OthersDirect`).  From it:
`RegistryStaysRight`, `RevokedHearNothing`, `EventsInOrder`.

Proved, and not asked of a run: the type invariants of the servers and of the screen, `HostPresent`, `ResetsCounted`, `VotersParticipate`, `SettledOnce`,
`BallotsFrozen`, `PaidOnce`.

Every safety invariant and action property of the passing runs is stated by a theorem.  Only model-checked: the liveness
properties `OverdueIsSettled`, `RequestsEnd`, `ScreenFollows` and `RevokedIsRemoved`, since liveness under fairness is beyond the
prover.

## 5. Abstractions worth knowing

- An identifier, e-mail address, invite code or token is a model value or a record of its claims; a password is the number
  of times it was changed, which also names its hash and the fingerprint in a reset link.
- `DeviceLogin` does not model the query cache, push registration (best effort, before revocation) or a failing *deletion*
  from secure storage; a failing write is modelled.  A login that expires looks to the phone like a revoked one.
- SessionScreen has no account deletion (PartyVoting has), leaves the order of the cards open, does not count the retries of
  a mutation, and drops requests that reach the server after the end, since they can only be refused.
- In PartyVoting a deletion meets one running session, in PartyLobby the lobbies: each has the row locks the other requests of
  its module take.  In PartyLobby, playing a session is one step: its own interleaving is PartyVoting's.  Waits for a friendship's
  row are left out (`delete_account` and `unfriend` delete friendships before anything else), and there the DELETE of the users
  row waits for all rows of its cascades at once.
- SessionSockets has one session and one API process; other processes are broadcasters.  Whatever ends a right (a kick, a
  deleted account, a logout, a new password) is `Kick`, and `Rejoin` is joining and signing in again.  Rights belong to a user
  there: after `Rejoin` a socket of an older login hears events again, while the code refuses its token for good.  So that such a
  socket stays silent after the user has signed in again is not shown.  The text of events is
  their number.
- Discovery has one grid cell, and of a search only which rows pass it (`fits`, `near`, `open`); that a place is a known
  restaurant is given (`Twin`).  The order of the cards, photo URLs and addresses are left out.
- In Catalogue a session's deck is the set of rows it shows and is not given up again; deleting a hidden restaurant or a user is
  not modelled.  PostgreSQL's deadlock detection is `Abort`.
- A statement that only reads its own transaction's rows, validation of input, and everything about coordinates and
  filters is left out.

## 6. Plan

Done in the order of the first plan: voting, membership, logins and phone, the swipe screen, delivery, discovery and
quota, opening hours, solo votes and administration.  What is left, by what it would add:

1. **Proofs**: an abstract specification of what a login promises, with LoginSessions shown to implement it; of Catalogue,
   which circles of waits there can be between decks, solo votes, tabs and the cleanup.
2. **Client sockets**: reconnection and backoff of `sessionSocket.ts`, the lobby screen, composed with SessionSockets.
3. **An open question**: a finish report sent right after the last swipe's response may be counted before that swipe is
   committed, so "everyone finishes their deck" closes the session only at the timer.

## 7. Not modelled

Rate-limit counters (one atomic Lua script each; a refusal is a choice in `Handshake`), push notifications and e-mail (best
effort, nothing waits for them), history and usage reports (read-only), administrators' logins, CSRF tokens, list filters and
photo serving (request-local), classification and addresses of restaurants, distances and the numbers of search filters
(data), screens, translations and the administration page (layout and forms), socket reconnection and the lobby screen of the phone
(see the plan), deployment, seeding and audit scripts (run by hand).
