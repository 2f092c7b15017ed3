------------------------------- MODULE PartyLobby -------------------------------
(***************************************************************************)
(* Who belongs to which party session: lobbies are created, joined, left,  *)
(* cancelled and started, guests are kicked, friends are invited and       *)
(* unfriended, and accounts are deleted, all at the same time.             *)
(*                                                                         *)
(* The variables alive .. unread are committed rows; what a handler has    *)
(* read or written and not committed is in its slot (pc, req, .. stale).   *)
(* sessionLock is FOR UPDATE on a sessions row (or its uncommitted         *)
(* DELETE), userLock is FOR NO KEY UPDATE on a users row, or its           *)
(* uncommitted DELETE.  pc names the statement that comes next: a handler  *)
(* is cut wherever it may have to wait for a row while it holds others,    *)
(* and WaitsFor says for whose.                                            *)
(***************************************************************************)
EXTENDS Naturals, FiniteSets

CONSTANTS
    Users,          \* accounts
    Sessions,       \* sessions that may be created
    Slots,          \* request handlers, one transaction each at a time
    InviteIds,      \* bound on the unread invitations of all inboxes
    NoOne, NoSession, NoSlot

ASSUME LobbyAssumption ==
    /\ IsFiniteSet(Users) /\ IsFiniteSet(Sessions)
    /\ NoOne \notin Users /\ NoSession \notin Sessions /\ NoSlot \notin Slots

VARIABLES
    alive,          \* users rows
    status, host,   \* per session
    participants,   \* session_participants rows, per session
    swiping,        \* those start_session has set to SWIPING, per session
    friends,        \* friendships: both rows of a pair are written together
    unread,         \* unread session invitations
    sessionLock, userLock,
    pc, req, roster, known, left, stale     \* per slot

membership == <<alive, status, host, participants, swiping>>
rows  == <<membership, friends, unread>>
locks == <<sessionLock, userLock>>
local == <<req, roster, known, left, stale>>
vars  == <<alive, status, host, participants, swiping, friends, unread,
           sessionLock, userLock, pc, req, roster, known, left, stale>>

Pairs == {p \in SUBSET Users : \E u, v \in Users : u # v /\ p = {u, v}}

Invitations == [id : InviteIds, to : Users, session : Sessions]

Places == {"idle", "create", "join", "joined", "start", "starting", "remove", "cancel",
           "cancelling", "invite", "unfriend", "delete", "leave", "erase", "gone"}

\* The places of delete_account.
Deleting == {"delete", "leave", "erase", "gone"}

Requests == [user : Users \cup {NoOne}, session : Sessions \cup {NoSession},
             other : Users \cup {NoOne}]

NoRequest == [user |-> NoOne, session |-> NoSession, other |-> NoOne]

TypeOK ==
    /\ alive \subseteq Users
    /\ status \in [Sessions -> {"none", "lobby", "active", "finished", "cancelled"}]
    /\ host \in [Sessions -> Users \cup {NoOne}]
    /\ participants \in [Sessions -> SUBSET Users]
    /\ swiping \in [Sessions -> SUBSET Users]
    /\ friends \subseteq Pairs
    /\ unread \subseteq Invitations
    /\ sessionLock \in [Sessions -> Slots \cup {NoSlot}]
    /\ userLock \in [Users -> Slots \cup {NoSlot}]
    /\ pc \in [Slots -> Places]
    /\ req \in [Slots -> Requests]
    /\ roster \in [Slots -> SUBSET Users]
    /\ known \in [Slots -> BOOLEAN]
    /\ left \in [Slots -> SUBSET Sessions]
    /\ stale \in [Slots -> SUBSET Invitations]

Init ==
    /\ alive = Users
    /\ status = [s \in Sessions |-> "none"]
    /\ host = [s \in Sessions |-> NoOne]
    /\ participants = [s \in Sessions |-> {}]
    /\ swiping = [s \in Sessions |-> {}]
    /\ friends \in SUBSET Pairs
    /\ unread = {}
    /\ sessionLock = [s \in Sessions |-> NoSlot]
    /\ userLock = [u \in Users |-> NoSlot]
    /\ pc = [t \in Slots |-> "idle"]
    /\ req = [t \in Slots |-> NoRequest]
    /\ roster = [t \in Slots |-> {}]
    /\ known = [t \in Slots |-> FALSE]
    /\ left = [t \in Slots |-> {}]
    /\ stale = [t \in Slots |-> {}]
--------------------------------------------------------------------------------
(* The life of a transaction.                                              *)

Goto(t, place) == pc' = [pc EXCEPT ![t] = place]

Accept(t, u, s, v, place) ==
    /\ pc[t] = "idle"
    /\ u \in alive
    /\ req' = [req EXCEPT ![t] = [user |-> u, session |-> s, other |-> v]]
    /\ Goto(t, place)

\* Commit or rollback: the row locks are gone and nothing is remembered.
End(t) ==
    /\ Goto(t, "idle")
    /\ req' = [req EXCEPT ![t] = NoRequest]
    /\ roster' = [roster EXCEPT ![t] = {}]
    /\ known' = [known EXCEPT ![t] = FALSE]
    /\ left' = [left EXCEPT ![t] = {}]
    /\ stale' = [stale EXCEPT ![t] = {}]
    /\ sessionLock' = [s \in Sessions |-> IF sessionLock[s] = t THEN NoSlot ELSE sessionLock[s]]
    /\ userLock' = [u \in Users |-> IF userLock[u] = t THEN NoSlot ELSE userLock[u]]

Open(s) == status[s] \in {"lobby", "active"}

InOpenSession(u) == \E s \in Sessions : Open(s) /\ u \in participants[s]

\* An error response, a deadlock victim, a lost connection, a dead process:
\* rollback.  start_session ends so when it finds too few restaurants, or when
\* a participant it has loaded is gone by the time it writes the row;
\* invite_friend, when the friend's account is.
Abort(t) ==
    /\ pc[t] # "idle"
    /\ End(t)
    /\ UNCHANGED rows
--------------------------------------------------------------------------------
(* Row locks: who waits for whom.                                          *)

InvitesTo(s) == {n \in unread : n.session = s}

OwnLobbies(u) == {s \in Sessions : status[s] = "lobby" /\ host[s] = u}

\* Slot r has written u's participant row of s: the roster of a start or a
\* cancellation, the own rows of a deletion, the rosters of its lobbies.
HoldsRow(r, s, u) ==
    \/ pc[r] \in {"starting", "cancelling"} /\ req[r].session = s /\ u \in roster[r]
    \/ req[r].user = u /\ s \in left[r]
    \/ pc[r] \in {"erase", "gone"} /\ sessionLock[s] = r

\* MUTANT of WaitsForRoster: the accounts of the roster are locked as well.
WaitsForAccounts(t, r) ==
    /\ pc[t] \in {"start", "cancel"}
    /\ \E v \in roster[t] : HoldsRow(r, req[t].session, v) \/ userLock[v] = r

\* A start sets the whole roster to SWIPING, a cancellation deletes it.
WaitsForRoster(t, r) ==
    /\ pc[t] \in {"start", "cancel"}
    /\ \E v \in roster[t] : HoldsRow(r, req[t].session, v)

\* The next statement of t needs a row that r has locked.  While an account is
\* deleted, what refers to its users row waits; the DELETE of that row waits for
\* whoever has locked it and then, by its foreign keys, for the sessions that
\* name the user as host, the user's participant rows and invitations.
WaitsFor(t, r) ==
    LET s == req[t].session  u == req[t].user  v == req[t].other IN
    \/ pc[t] = "join" /\ sessionLock[s] = r
    \/ pc[t] = "joined" /\ ~ known[t] /\ pc[r] = "gone" /\ req[r].user = host[s]
    \/ WaitsForRoster(t, r)
    \/ pc[t] = "remove" /\ HoldsRow(r, s, v)
    \/ pc[t] \in {"starting", "cancelling"} /\ stale[r] \cap InvitesTo(s) # {}
    \/ pc[t] = "invite" /\ pc[r] = "gone" /\ req[r].user = v
    \/ pc[t] = "delete" /\ \E z \in OwnLobbies(u) : sessionLock[z] = r
    \/ pc[t] = "leave" /\ \E z \in Sessions, w \in Users :
          /\ w \in participants[z] /\ HoldsRow(r, z, w)
          /\ sessionLock[z] = t \/ (w = u /\ Open(z))
    \/ pc[t] = "erase" /\ userLock[u] = r
    \/ pc[t] = "gone" /\ \/ \E z \in Sessions :
                              \/ host[z] = u /\ sessionLock[z] = r
                              \/ u \in participants[z] /\ HoldsRow(r, z, u)
                         \/ \E n \in stale[r] : n.to = u

At(t, place) ==
    /\ pc[t] = place
    /\ \A r \in Slots \ {t} : ~ WaitsFor(t, r)
--------------------------------------------------------------------------------
(* create_session and join_session.                                        *)

\* MUTANT of LockMembership: the one-session check is not serialised.
LockNobody(t, u) == t \in Slots /\ u \in Users /\ UNCHANGED userLock

LockMembership(t, u) ==
    /\ userLock[u] = NoSlot
    /\ userLock' = [userLock EXCEPT ![u] = t]

Create(t, u) ==
    /\ Accept(t, u, NoSession, NoOne, "create")
    /\ LockMembership(t, u)
    /\ ~ InOpenSession(u)
    /\ UNCHANGED <<rows, sessionLock, roster, known, left, stale>>

CreateCommit(t) ==
    /\ pc[t] = "create"
    /\ \E s \in Sessions :
          /\ status[s] = "none"
          /\ status' = [status EXCEPT ![s] = "lobby"]
          /\ host' = [host EXCEPT ![s] = req[t].user]
          /\ participants' = [participants EXCEPT ![s] = {req[t].user}]
    /\ End(t)
    /\ UNCHANGED <<alive, swiping, friends, unread>>

\* Anybody may know the invite code of any session.
Join(t, u, s) ==
    /\ status[s] # "none"
    /\ Accept(t, u, s, NoOne, "join")
    /\ LockMembership(t, u)
    /\ UNCHANGED <<rows, sessionLock, roster, known, left, stale>>

\* MUTANT of MayJoin: the host of the lobby is not looked at.
MayJoinAnyLobby(u, s) ==
    /\ status[s] = "lobby"
    /\ u \notin participants[s]
    /\ ~ InOpenSession(u)

MayJoin(u, s) ==
    /\ status[s] = "lobby"
    /\ host[s] # NoOne
    /\ u \notin participants[s]
    /\ ~ InOpenSession(u)

JoinRefused(t) ==
    /\ At(t, "join")
    /\ ~ MayJoin(req[t].user, req[t].session)
    /\ End(t)
    /\ UNCHANGED rows

\* MUTANT of JoinAllowed: the lobby is read without FOR UPDATE.
JoinUnlocked(t) ==
    /\ pc[t] = "join"
    /\ MayJoin(req[t].user, req[t].session)
    /\ known' = [known EXCEPT ![t] = {req[t].user, host[req[t].session]} \in friends]
    /\ Goto(t, "joined")
    /\ UNCHANGED <<rows, locks, req, roster, left, stale>>

\* The checks pass under the lobby's lock; add_friend has looked whether the
\* two are friends already.
JoinAllowed(t) ==
    /\ At(t, "join")
    /\ MayJoin(req[t].user, req[t].session)
    /\ sessionLock' = [sessionLock EXCEPT ![req[t].session] = t]
    /\ known' = [known EXCEPT ![t] = {req[t].user, host[req[t].session]} \in friends]
    /\ Goto(t, "joined")
    /\ UNCHANGED <<rows, userLock, req, roster, left, stale>>

JoinCommit(t) ==
    /\ At(t, "joined")
    /\ participants' = [participants EXCEPT ![req[t].session] = @ \cup {req[t].user}]
    /\ friends' = IF known[t] THEN friends
                  ELSE friends \cup {{req[t].user, host[req[t].session]}}
    /\ End(t)
    /\ UNCHANGED <<alive, status, host, swiping, unread>>
--------------------------------------------------------------------------------
(* start_session, kick_participant, leave_session.                         *)

\* Each locks the lobby and loads its roster.
LockLobby(t, u, s, v, place) ==
    /\ status[s] = "lobby"
    /\ sessionLock[s] = NoSlot
    /\ Accept(t, u, s, v, place)
    /\ sessionLock' = [sessionLock EXCEPT ![s] = t]
    /\ roster' = [roster EXCEPT ![t] = participants[s]]
    /\ UNCHANGED <<rows, userLock, known, left, stale>>

\* The host's request then searches for restaurants, possibly at Google.
Start(t, s) == LockLobby(t, host[s], s, NoOne, "start")

\* The session and the participants are set to ACTIVE and SWIPING; the UPDATE
\* is sent before the invitations are looked up.
StartRows(t) ==
    /\ At(t, "start")
    /\ roster[t] \subseteq participants[req[t].session]
    /\ Goto(t, "starting")
    /\ UNCHANGED <<rows, locks, local>>

\* The invitations are expired; commit.
StartCommit(t) ==
    LET s == req[t].session IN
    /\ At(t, "starting")
    /\ status' = [status EXCEPT ![s] = "active"]
    /\ swiping' = [swiping EXCEPT ![s] = roster[t]]
    /\ unread' = unread \ InvitesTo(s)
    /\ End(t)
    /\ UNCHANGED <<alive, host, participants, friends>>

Kick(t, s, v) ==
    /\ v \in participants[s] \ {host[s]}
    /\ LockLobby(t, host[s], s, v, "remove")

Leave(t, s, u) ==
    /\ u \in participants[s] \ {host[s]}
    /\ LockLobby(t, u, s, u, "remove")

\* One DELETE, which may find the row gone; then nothing but the commit.
RemoveCommit(t) ==
    /\ At(t, "remove")
    /\ participants' = [participants EXCEPT ![req[t].session] = @ \ {req[t].other}]
    /\ End(t)
    /\ UNCHANGED <<alive, status, host, swiping, friends, unread>>

\* leave_session of the host: everybody is removed, ..
Cancel(t, s) ==
    /\ host[s] \in participants[s]
    /\ LockLobby(t, host[s], s, NoOne, "cancel")

CancelRows(t) ==
    /\ At(t, "cancel")
    /\ Goto(t, "cancelling")
    /\ UNCHANGED <<rows, locks, local>>

\* .. the invitations are expired, the session is deleted.
CancelCommit(t) ==
    LET s == req[t].session IN
    /\ At(t, "cancelling")
    /\ status' = [status EXCEPT ![s] = "cancelled"]
    /\ host' = [host EXCEPT ![s] = NoOne]
    /\ participants' = [participants EXCEPT ![s] = {}]
    /\ unread' = unread \ InvitesTo(s)
    /\ End(t)
    /\ UNCHANGED <<alive, swiping, friends>>

\* The session finds its result (PartyVoting).
Finish(s) ==
    /\ status[s] = "active" /\ sessionLock[s] = NoSlot
    /\ status' = [status EXCEPT ![s] = "finished"]
    /\ UNCHANGED <<alive, host, participants, swiping, friends, unread, locks, pc, local>>
--------------------------------------------------------------------------------
(* Invitations and friendships.                                            *)

\* Everything invite_friend and send_session_invite look at, without a lock.
Invite(t, u, s, v) ==
    /\ status[s] = "lobby" /\ u \in participants[s]
    /\ {u, v} \in friends /\ v \in alive \ participants[s]
    /\ \A n \in InvitesTo(s) : n.to # v
    /\ Accept(t, u, s, v, "invite")
    /\ UNCHANGED <<rows, locks, roster, known, left, stale>>

InviteCommit(t) ==
    /\ At(t, "invite")
    /\ req[t].other \in alive
    /\ \E i \in InviteIds :
          /\ \A n \in unread : n.id # i
          /\ unread' = unread \cup {[id |-> i, to |-> req[t].other, session |-> req[t].session]}
    /\ End(t)
    /\ UNCHANGED <<membership, friends>>

\* mark_as_read; a row that delete_account is expiring is locked.
ReadInvite(n) ==
    /\ \A t \in Slots : n \notin stale[t]
    /\ unread' = unread \ {n}
    /\ UNCHANGED <<membership, friends, locks, pc, local>>

InSameOpenSession(u, v) == \E s \in Sessions : Open(s) /\ {u, v} \subseteq participants[s]

Unfriend(t, u, v) ==
    /\ {u, v} \in friends
    /\ ~ InSameOpenSession(u, v)
    /\ Accept(t, u, NoSession, v, "unfriend")
    /\ UNCHANGED <<rows, locks, roster, known, left, stale>>

UnfriendCommit(t) ==
    /\ pc[t] = "unfriend"
    /\ friends' = friends \ {{req[t].user, req[t].other}}
    /\ End(t)
    /\ UNCHANGED <<membership, unread>>
--------------------------------------------------------------------------------
(* delete_account.                                                         *)

\* _leave_open_sessions begins with the invitations to the own lobbies: their
\* UPDATE is sent, and the rows stay locked to the end.
DeleteAccount(t, u) ==
    LET expiring == {n \in unread : n.session \in OwnLobbies(u)} IN
    /\ \A r \in Slots : stale[r] \cap expiring = {}
    /\ Accept(t, u, NoSession, NoOne, "delete")
    /\ stale' = [stale EXCEPT ![t] = expiring]
    /\ UNCHANGED <<rows, locks, roster, known, left>>

\* DELETE of the own lobbies, as far as their rows are concerned; ..
DeleteLobbies(t) ==
    /\ At(t, "delete")
    /\ sessionLock' = [s \in Sessions |-> IF s \in OwnLobbies(req[t].user) THEN t
                                          ELSE sessionLock[s]]
    /\ Goto(t, "leave")
    /\ UNCHANGED <<rows, userLock, local>>

\* .. the participant rows it takes along, and the own ones in open sessions.
LeaveSessions(t) ==
    /\ At(t, "leave")
    /\ left' = [left EXCEPT ![t] = {s \in Sessions : Open(s) /\ req[t].user \in participants[s]}]
    /\ Goto(t, "erase")
    /\ UNCHANGED <<rows, locks, req, roster, known, stale>>

\* The users row is marked deleted before its foreign keys are followed.
EraseUser(t) ==
    /\ At(t, "erase")
    /\ userLock' = [userLock EXCEPT ![req[t].user] = t]
    /\ Goto(t, "gone")
    /\ UNCHANGED <<rows, sessionLock, local>>

\* Participants, votes, invitations and friendships go, sessions.host_id is
\* cleared, and all of it becomes visible.
DeleteCommit(t) ==
    LET u == req[t].user
        dropped == {s \in Sessions : sessionLock[s] = t} IN
    /\ At(t, "gone")
    /\ alive' = alive \ {u}
    /\ status' = [s \in Sessions |-> IF s \in dropped THEN "cancelled" ELSE status[s]]
    /\ host' = [s \in Sessions |-> IF s \in dropped \/ host[s] = u THEN NoOne ELSE host[s]]
    /\ participants' = [s \in Sessions |-> IF s \in dropped THEN {} ELSE participants[s] \ {u}]
    /\ swiping' = [s \in Sessions |-> swiping[s] \ {u}]
    /\ friends' = {p \in friends : u \notin p}
    /\ unread' = {n \in unread \ stale[t] : n.to # u}
    /\ End(t)
--------------------------------------------------------------------------------
Request(t) ==
    \/ \E u \in Users :
          \/ Create(t, u)
          \/ DeleteAccount(t, u)
          \/ \E s \in Sessions : Join(t, u, s)
          \/ \E v \in Users : Unfriend(t, u, v)
          \/ \E s \in Sessions, v \in Users : Invite(t, u, s, v)
          \/ \E s \in Sessions : Kick(t, s, u) \/ Leave(t, s, u)
    \/ \E s \in Sessions : Start(t, s) \/ Cancel(t, s)

Step(t) ==
    \/ CreateCommit(t) \/ JoinRefused(t) \/ JoinAllowed(t) \/ JoinCommit(t)
    \/ StartRows(t) \/ StartCommit(t) \/ RemoveCommit(t) \/ CancelRows(t) \/ CancelCommit(t)
    \/ InviteCommit(t) \/ UnfriendCommit(t)
    \/ DeleteLobbies(t) \/ LeaveSessions(t) \/ EraseUser(t) \/ DeleteCommit(t)

Next ==
    \/ \E t \in Slots : Request(t) \/ Step(t) \/ Abort(t)
    \/ \E s \in Sessions : Finish(s)
    \/ \E n \in unread : ReadInvite(n)

Spec == Init /\ [][Next]_vars
--------------------------------------------------------------------------------
(* Properties.                                                             *)

\* One session per user at a time (requirement 7.10), although create_session
\* and join_session check it and insert the participant in two statements.
OneOpenSession ==
    \A u \in Users, r, s \in Sessions :
        Open(r) /\ Open(s) /\ u \in participants[r] \cap participants[s] => r = s

\* "Joins, kicks and starts must agree on one participant roster": whoever plays
\* was loaded, and set to SWIPING, by start_session, and nobody who was is lost
\* except by deleting the account.
RosterAgreed ==
    \A s \in Sessions : status[s] = "active" => participants[s] = swiping[s]

\* A lobby that has a host has the host among its participants.
HostPresent ==
    \A s \in Sessions :
        status[s] = "lobby" /\ host[s] # NoOne => host[s] \in participants[s]

\* "Unstarted lobbies are cancelled by UserService, so they always have a host"
\* (models/session.py) is not quite so: one that create_session commits while its
\* host's account is being deleted has none. It only loses people.
HostlessOnlyShrinks ==
    [][\A s \in Sessions : status[s] = "lobby" /\ host[s] = NoOne
          => status'[s] = "lobby" /\ participants'[s] \subseteq participants[s]]_vars

\* Each of these requests waits for another of them.
Stuck(W) == W # {} /\ \A t \in W : \E r \in W \ {t} : WaitsFor(t, r)

\* However many requests wait for each other in a circle, one of them deletes an
\* account (user_service.py); those of session_service.py take the account before
\* the lobby and the lobby before the rest, and never block each other for good.
\* Whichever circle there is, PostgreSQL aborts a request of it.
OnlyDeletionsDeadlock ==
    \A W \in SUBSET Slots : Stuck(W) => \E t \in W : pc[t] \in Deleting

\* "Remove a friendship. Blocked if both are in the same open session."
\* (friend_service.py, unfriend)
UnfriendBlocked ==
    [][\A u, v \in alive' : {u, v} \in friends \ friends' => ~ InSameOpenSession(u, v)]_vars
================================================================================
