------------------------------ MODULE DeviceLogin ------------------------------
(***************************************************************************)
(* One phone against the login server of LoginSessions: the credential     *)
(* store (frontend/src/stores/authStore.ts) and the interceptors of the    *)
(* API client (frontend/src/services/api/client.ts).                       *)
(*                                                                         *)
(* Promise continuations that JavaScript runs without returning to the     *)
(* event loop belong to one action; the network, the key chain and the     *)
(* server are as slow as they like.                                        *)
(***************************************************************************)
EXTENDS LoginSessions, Sequences

CONSTANTS
    Calls,          \* API requests of the app that may be open together
    MaxRevisions,   \* no sign-in once authRevision is so high
    MaxFaults,      \* bound on lost responses, killed apps and crashed requests
    NoToken, NoSlot, Refused

ASSUME DeviceAssumption ==
    /\ {NoToken, NoSlot, Refused} \cap (Slots \cup Tokens) = {} /\ NoToken # Refused
    /\ MaxRevisions \in Nat /\ MaxFaults \in Nat

VARIABLES
    store,          \* the tokens in memory
    keychain,       \* the tokens in secure storage
    revision,       \* authRevision
    queue,          \* credentialQueue; its head may be running
    signing,        \* the request of the sign-in screen
    flights,        \* refreshes whose promise is not settled
    call,           \* the open API requests
    farewell,       \* tokens of logouts that are still to reach the server
    stale,          \* ids of the access tokens that are past their lifetime
    faults

deviceVars == <<store, keychain, revision, queue, signing, flights, call, farewell,
                stale, faults>>
vars == <<loginVars, deviceVars>>

\* A request that is not sent, at a slot, or answered; saving means that its
\* tokens are in the credential queue.
NotAsked == [slot |-> NoSlot, answer |-> NoToken, saving |-> FALSE]
Asked(t) == [NotAsked EXCEPT !.slot = t]
Saving   == [NotAsked EXCEPT !.saving = TRUE]

NoCall == [place |-> "idle", revision |-> 0, login |-> NoFamily, token |-> NoToken, retry |-> FALSE]

TokensOrNone == Tokens \cup {NoToken}

DeviceTypeOK ==
    /\ store \in issued \cup {NoToken} /\ keychain \in issued \cup {NoToken}
    /\ revision \in Nat
    /\ \A i \in DOMAIN queue :
          queue[i] \in [token : issued \cup {NoToken}, revision : Nat, from : TokensOrNone,
                        running : BOOLEAN]
    /\ \A s \in {signing} \cup {x.state : x \in flights} :
          s \in [slot : Slots \cup {NoSlot}, answer : issued \cup {NoToken, Refused}, saving : BOOLEAN]
    /\ \A x \in flights : x.token \in issued
    /\ \A c \in Calls :
          /\ call[c].place \in {"idle", "sent", "waiting"}
          /\ call[c].token \in issued \cup {NoToken}
    /\ farewell \subseteq issued
    /\ stale \subseteq 1..minted
    /\ faults \in 0..MaxFaults

DeviceInit ==
    /\ store = NoToken /\ keychain = NoToken /\ revision = 0 /\ queue = <<>>
    /\ signing = NotAsked /\ flights = {}
    /\ call = [c \in Calls |-> NoCall]
    /\ farewell = {} /\ stale = {} /\ faults = 0

\* The bound on faults counts the crashes of the server, too.
MayFail == faults + crashes < MaxFaults

Fault == MayFail /\ faults' = faults + 1

\* MUTANT of Enqueue: secure-storage writes are not serialised, a later one
\* may overtake.
EnqueueFirst(q, token, rev, from) ==
    queue' = <<[token |-> token, revision |-> rev, from |-> from, running |-> FALSE]>> \o q

\* updateCredentials.
Enqueue(q, token, rev, from) ==
    queue' = Append(q, [token |-> token, revision |-> rev, from |-> from, running |-> FALSE])

\* logout(): memory at once, secure storage in its turn, the server last.
SignOut(q) ==
    /\ revision' = revision + 1
    /\ store' = NoToken
    /\ Enqueue(q, NoToken, revision + 1, NoToken)
    /\ farewell' = farewell \cup {store}
--------------------------------------------------------------------------------
(* Signing in and out.                                                     *)

SignIn(t, u) ==
    /\ store = NoToken /\ signing = NotAsked
    /\ revision < MaxRevisions
    /\ Login(t, u)
    /\ signing' = Asked(t)
    /\ UNCHANGED <<store, keychain, revision, queue, flights, call, farewell, stale, faults>>

\* setTokens of useLogin: a new revision, then the write.
SignedIn ==
    /\ signing.answer \in issued
    /\ revision' = revision + 1
    /\ Enqueue(queue, signing.answer, revision + 1, NoToken)
    /\ signing' = Saving
    /\ UNCHANGED <<loginVars, store, keychain, flights, call, farewell, stale, faults>>

\* An error response or none.
SignInLost ==
    /\ signing # NotAsked /\ ~ signing.saving
    /\ IF signing.answer = Refused THEN UNCHANGED faults ELSE Fault
    /\ signing' = NotAsked
    /\ UNCHANGED <<loginVars, store, keychain, revision, queue, flights, call, farewell, stale>>

PressSignOut ==
    /\ store # NoToken
    /\ SignOut(queue)
    /\ UNCHANGED <<loginVars, keychain, signing, flights, call, stale, faults>>

\* revokeLogin, best effort.
RevokeLogin(t, k) ==
    /\ k \in farewell
    /\ Logout(t, k)
    /\ farewell' = farewell \ {k}
    /\ UNCHANGED <<store, keychain, revision, queue, signing, flights, call, stale, faults>>

\* Nothing to revoke (or nothing committed yet), or the request is lost.
RevokeNothing(k) ==
    /\ k \in farewell
    /\ IF FamilyFree(k.family) /\ (owner[k.family] = NoUser \/ k.family \in revoked)
       THEN UNCHANGED faults
       ELSE Fault
    /\ farewell' = farewell \ {k}
    /\ UNCHANGED <<loginVars, store, keychain, revision, queue, signing, flights, call,
                   stale>>
--------------------------------------------------------------------------------
(* The interceptors.                                                       *)

\* The access token in memory, attached by the request interceptor.
Attach(login, retry) ==
    [place |-> "sent", revision |-> revision, login |-> login, token |-> store, retry |-> retry]

Send(c) ==
    /\ call[c].place = "idle" /\ store # NoToken
    /\ call' = [call EXCEPT ![c] = Attach(store.family, FALSE)]
    /\ UNCHANGED <<loginVars, store, keychain, revision, queue, signing, flights, farewell,
                   stale, faults>>

\* get_current_user lets the request through; the app gets an answer, or none.
Served(c) ==
    /\ call[c].place = "sent"
    /\ call' = [call EXCEPT ![c] = NoCall]
    /\ UNCHANGED <<loginVars, store, keychain, revision, queue, signing, flights, farewell,
                   stale, faults>>

\* get_current_user says 401: the access token is past its lifetime, its login
\* is over, or not committed yet.
Unauthorized(c) ==
    /\ call[c].place = "sent"
    /\ ~ Accepted(call[c].token) \/ call[c].token.id \in stale

\* MUTANT of Outdated: the revision of the request is not compared.
OutdatedNever(c) == call[c].retry

\* The account has changed since the request was made, or it was retried once.
Outdated(c) == call[c].revision # revision \/ call[c].retry

\* (Only a logout, which changes the revision, takes the token out of memory.)
GiveUp(c) ==
    /\ Unauthorized(c) /\ Outdated(c)
    /\ call' = [call EXCEPT ![c] = NoCall]
    /\ UNCHANGED <<loginVars, store, keychain, revision, queue, signing, flights, farewell,
                   stale, faults>>

\* A late 401 of an access token that was rotated meanwhile.
RetryLate(c) ==
    /\ Unauthorized(c) /\ ~ Outdated(c)
    /\ store # NoToken /\ call[c].token # store
    /\ call' = [call EXCEPT ![c] = Attach(call[c].login, TRUE)]
    /\ UNCHANGED <<loginVars, store, keychain, revision, queue, signing, flights, farewell,
                   stale, faults>>

\* MUTANT of Join: every request refreshes for itself.
JoinNobody == {}

\* pendingRefresh, if it is for the token in memory.
Join == {x \in flights : x.token = store}

\* Wait for the refresh of this token, and start it if nobody has.
AwaitRefresh(c) ==
    /\ Unauthorized(c) /\ ~ Outdated(c)
    /\ store # NoToken /\ call[c].token = store
    /\ call' = [call EXCEPT ![c].place = "waiting", ![c].retry = TRUE]
    /\ flights' = IF Join # {} THEN flights
                  ELSE flights \cup {[token |-> store, state |-> NotAsked]}
    /\ UNCHANGED <<loginVars, store, keychain, revision, queue, signing, farewell,
                   stale, faults>>
--------------------------------------------------------------------------------
(* refreshAccessToken.                                                     *)

AskRefresh(t, x) ==
    /\ x.state = NotAsked
    /\ Refresh(t, x.token)
    /\ flights' = (flights \ {x}) \cup {[x EXCEPT !.state = Asked(t)]}
    /\ UNCHANGED <<store, keychain, revision, queue, signing, call, farewell, stale, faults>>

\* MUTANT of Reject: a failed refresh ends whatever login is in memory.
RejectAlways(x, q) ==
    /\ flights' = flights \ {x}
    /\ call' = [c \in Calls |->
                  IF call[c].place = "waiting" /\ call[c].token = x.token THEN NoCall ELSE call[c]]
    /\ SignOut(q)

\* The promise is rejected: whoever waits gives up, and the first of them ends
\* the login if it is still the one the refresh was for.
Reject(x, q) ==
    /\ flights' = flights \ {x}
    /\ call' = [c \in Calls |->
                  IF call[c].place = "waiting" /\ call[c].token = x.token THEN NoCall ELSE call[c]]
    /\ IF store = x.token
       THEN SignOut(q)
       ELSE queue' = q /\ UNCHANGED <<store, revision, farewell>>

\* 401: another version, a family that is over, a replay.
RefreshDenied(x) ==
    /\ \/ x.state.answer = Refused
       \/ x.state = NotAsked /\ UserFree(x.token.user) /\ x.token.ver # version[x.token.user]
    /\ Reject(x, queue)
    /\ UNCHANGED <<loginVars, keychain, signing, stale, faults>>

\* No response within 15 seconds; the server may go on.
RefreshLost(x) ==
    /\ ~ x.state.saving
    /\ Fault
    /\ Reject(x, queue)
    /\ UNCHANGED <<loginVars, keychain, signing, stale>>

\* The account has changed while the refresh was under way.
RefreshDropped(x) ==
    /\ x.state.answer \in issued /\ store # x.token
    /\ Reject(x, queue)
    /\ UNCHANGED <<loginVars, keychain, signing, stale, faults>>

\* setTokens with the expected refresh token: the revision stays.
Refreshed(x) ==
    /\ x.state.answer \in issued /\ store = x.token
    /\ Enqueue(queue, x.state.answer, revision, x.token)
    /\ flights' = (flights \ {x}) \cup {[x EXCEPT !.state = Saving]}
    /\ UNCHANGED <<loginVars, store, keychain, revision, signing, call, farewell, stale, faults>>
--------------------------------------------------------------------------------
(* credentialQueue.                                                        *)

\* A write starts only if no logout or sign-in came after it was queued.
StartWrite ==
    /\ queue # <<>> /\ ~ Head(queue).running
    /\ Head(queue).token = NoToken \/ Head(queue).revision = revision
    /\ queue' = [queue EXCEPT ![1].running = TRUE]
    /\ UNCHANGED <<loginVars, store, keychain, revision, signing, flights, call, farewell,
                   stale, faults>>

\* The continuations of setTokens, refreshAccessToken and of the interceptor.
Settled(w) ==
    LET keeps == w.token # NoToken /\ w.revision = revision
        now   == IF keeps THEN w.token ELSE store IN
    /\ store' = now
    /\ flights' = {x \in flights : ~ (x.state.saving /\ x.token = w.from)}
    /\ signing' = IF w.token # NoToken /\ w.from = NoToken THEN NotAsked ELSE signing
    /\ call' = [c \in Calls |->
                  IF call[c].place = "waiting" /\ call[c].token = w.from
                  THEN IF now = w.token /\ call[c].revision = revision
                       THEN [call[c] EXCEPT !.place = "sent", !.token = now]
                       ELSE NoCall
                  ELSE call[c]]

EndWrite ==
    /\ queue # <<>> /\ Head(queue).running
    /\ keychain' = Head(queue).token
    /\ Settled(Head(queue))
    /\ queue' = Tail(queue)
    /\ UNCHANGED <<loginVars, revision, farewell, stale, faults>>

SkipWrite ==
    /\ queue # <<>> /\ ~ Head(queue).running
    /\ Head(queue).token # NoToken /\ Head(queue).revision # revision
    /\ Settled(Head(queue))
    /\ queue' = Tail(queue)
    /\ UNCHANGED <<loginVars, keychain, revision, farewell, stale, faults>>
\* Secure storage refuses a new token: the sign-in fails, or the refresh does.
FailWrite ==
    LET w == Head(queue) IN
    /\ queue # <<>> /\ w.running /\ w.token # NoToken
    /\ Fault
    /\ \/ /\ w.from = NoToken
          /\ signing' = NotAsked /\ queue' = Tail(queue)
          /\ UNCHANGED <<store, revision, flights, call, farewell>>
       \/ \E x \in flights :
             /\ x.state.saving /\ x.token = w.from
             /\ Reject(x, Tail(queue))
             /\ UNCHANGED signing
    /\ UNCHANGED <<loginVars, keychain, stale>>
--------------------------------------------------------------------------------
(* The surroundings.                                                       *)

\* What slot t has just answered reaches the request that waits for it.
Answered(t, state) ==
    IF state.slot # t THEN state
    ELSE IF issued' # issued
         THEN [NotAsked EXCEPT !.answer = CHOOSE k \in issued' : k \notin issued]
    ELSE IF pc'[t] = "idle" THEN [NotAsked EXCEPT !.answer = Refused]
    ELSE state

Server(t) ==
    /\ Handle(t) \/ (MayFail /\ Crash(t))
    /\ signing' = Answered(t, signing)
    /\ flights' = {[x EXCEPT !.state = Answered(t, @)] : x \in flights}
    /\ UNCHANGED <<store, keychain, revision, queue, call, farewell, stale, faults>>

\* The link in the mail is followed.  (A login that expires looks to the phone
\* like one that was revoked, and is left to LoginSessions.)
FollowResetLink(t, u) ==
    /\ Reset(t, u, password[u])
    /\ UNCHANGED deviceVars

AgeAccess ==
    /\ store # NoToken
    /\ stale' = stale \cup {store.id}
    /\ UNCHANGED <<loginVars, store, keychain, revision, queue, signing, flights, call, farewell,
                   faults>>

\* The app is killed and started again: hydrate reads what secure storage holds,
\* a write that was running may or may not have arrived.
Restart ==
    /\ Fault
    /\ \E k \in {keychain} \cup {queue[i].token : i \in {j \in DOMAIN queue : queue[j].running}} :
          /\ keychain' = k /\ store' = k
    /\ queue' = <<>> /\ signing' = NotAsked /\ flights' = {} /\ farewell' = {}
    /\ call' = [c \in Calls |-> NoCall]
    /\ UNCHANGED <<loginVars, revision, stale>>

DeviceNext ==
    \/ \E t \in Slots, u \in Users : SignIn(t, u)
    \/ SignedIn \/ SignInLost \/ PressSignOut
    \/ \E k \in farewell : RevokeNothing(k) \/ \E t \in Slots : RevokeLogin(t, k)
    \/ \E c \in Calls : Send(c) \/ Served(c) \/ GiveUp(c) \/ RetryLate(c)
                        \/ AwaitRefresh(c)
    \/ \E x \in flights : \/ RefreshDenied(x) \/ RefreshLost(x) \/ RefreshDropped(x) \/ Refreshed(x)
                          \/ \E t \in Slots : AskRefresh(t, x)
    \/ StartWrite \/ EndWrite \/ SkipWrite \/ FailWrite
    \/ \E t \in Slots : Server(t) \/ \E u \in Users : FollowResetLink(t, u)
    \/ AgeAccess \/ Restart

DeviceSpec == LoginInit /\ DeviceInit /\ [][DeviceNext]_vars
--------------------------------------------------------------------------------
(* Properties.                                                             *)

Undisturbed == faults = 0 /\ crashes = 0

\* Nobody is signed out by the interceptor without a cause: a reset password
\* or a fault.
EvictedForCause ==
    [][Undisturbed' /\ store # NoToken /\ store' = NoToken /\ flights' # flights
          => store.ver # version[store.user]]_vars

\* "so a slow refresh cannot overwrite logout or credentials belonging to the next
\* account" (authStore.ts): once its writes are done, secure storage holds what
\* memory holds.
KeychainFollows == queue = <<>> => keychain = store

\* "Never retry an old account's operation using the next account's refresh token"
\* (client.ts): a request always travels with a token of the login that made it.
OwnTokenOnly == \A c \in Calls : call[c].place = "sent" => call[c].token.family = call[c].login
================================================================================
