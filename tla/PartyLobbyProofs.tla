---------------------------- MODULE PartyLobbyProofs ----------------------------
(***************************************************************************)
(* Proofs about PartyLobby for every number of users, sessions and request *)
(* handlers.  The argument: a slot that has passed the one-session check   *)
(* holds its user's row (UserLocked), so nobody else can put that user     *)
(* anywhere (StillFree); a slot that works on a lobby holds the sessions   *)
(* row, so the lobby stays a lobby (LobbyHeld) and its roster can only     *)
(* lose people until the start has written it, and then nobody             *)
(* (RosterLoaded).  Invitations and participant rows that somebody without *)
(* the sessions row holds are a deletion's (DeletionsHold), and so is any  *)
(* circle of waits.                                                        *)
(***************************************************************************)
EXTENDS PartyLobby, TLAPS

UserLocked ==
    \A t \in Slots : pc[t] \in {"create", "join", "joined"}
        => req[t].user \in Users /\ userLock[req[t].user] = t

StillFree ==
    \A t \in Slots : pc[t] \in {"create", "joined"} => ~ InOpenSession(req[t].user)

\* The places at which a request works on a lobby it has locked.
InLobby == {"joined", "start", "starting", "remove", "cancel", "cancelling"}

LobbyHeld ==
    \A t \in Slots : pc[t] \in InLobby
        => LET s == req[t].session IN
           /\ s \in Sessions /\ sessionLock[s] = t /\ status[s] = "lobby"
           /\ pc[t] # "remove" => host[s] # NoOne

RosterLoaded ==
    \A t \in Slots :
        /\ pc[t] \in {"start", "starting"} => participants[req[t].session] \subseteq roster[t]
        /\ pc[t] = "starting" => roster[t] \subseteq participants[req[t].session]

Requested ==
    \A t \in Slots :
        /\ pc[t] \in Deleting => req[t].user \in Users
        /\ pc[t] = "join" => req[t].session \in Sessions
        /\ pc[t] = "remove" => req[t].other \in Users /\ req[t].other # host[req[t].session]
        /\ pc[t] = "invite" => req[t].session \in Sessions
        /\ pc[t] = "unfriend" => {req[t].user, req[t].other} \in Pairs

\* Whoever holds a sessions row holds it for the request it works on.
LocksOwned ==
    \A t \in Slots, s \in Sessions : sessionLock[s] = t
        => \/ pc[t] \in InLobby /\ req[t].session = s
           \/ pc[t] \in Deleting /\ status[s] = "lobby" /\ host[s] = req[t].user

DeletionsHold ==
    \A t \in Slots : left[t] # {} \/ stale[t] # {} => pc[t] \in Deleting

Unborn ==
    \A s \in Sessions : status[s] = "none" => participants[s] = {} /\ host[s] = NoOne

IInv == /\ TypeOK /\ UserLocked /\ StillFree /\ LobbyHeld /\ RosterLoaded
        /\ Requested /\ LocksOwned /\ DeletionsHold /\ Unborn
        /\ OneOpenSession /\ RosterAgreed /\ HostPresent
--------------------------------------------------------------------------------
(* The inductive invariant, one lemma per conjunct.                        *)

\* A statement that does not wait finds its rows free.
LEMMA Unblocked ==
    ASSUME NEW t \in Slots, NEW r \in Slots \ {t}
    PROVE  /\ At(t, "join") => sessionLock[req[t].session] # r
           /\ At(t, "delete") => \A z \in OwnLobbies(req[t].user) : sessionLock[z] # r
           /\ At(t, "erase") => userLock[req[t].user] # r
           /\ At(t, "gone") => \A z \in Sessions :
                 /\ host[z] = req[t].user => sessionLock[z] # r
                 /\ req[t].user \in participants[z] => ~ HoldsRow(r, z, req[t].user)
  BY DEF At, WaitsFor

LEMMA InvInit == Init => IInv
  BY LobbyAssumption
     DEF Init, IInv, TypeOK, UserLocked, StillFree, LobbyHeld, InLobby, RosterLoaded, Requested,
         LocksOwned, DeletionsHold, Deleting, Unborn, OneOpenSession, RosterAgreed, HostPresent,
         Open, NoRequest, Requests, Places

LEMMA TypeStep == IInv /\ [Next]_vars => TypeOK'
  <1> SUFFICES ASSUME IInv, [Next]_vars PROVE TypeOK'
    OBVIOUS
  <1>0. TypeOK /\ UserLocked /\ StillFree /\ LobbyHeld /\ Requested /\ HostPresent
    BY DEF IInv
  <1> USE <1>0, LobbyAssumption
      DEF TypeOK, Requests, NoRequest, Places, Deleting,
          Accept, Goto, End, LockMembership, rows, membership, locks, local
  <1>1. ASSUME NEW t \in Slots, NEW u \in Users,
               \/ Create(t, u) \/ DeleteAccount(t, u)
               \/ \E s \in Sessions : Join(t, u, s)
               \/ \E v \in Users : Unfriend(t, u, v)
               \/ \E s \in Sessions, v \in Users : Invite(t, u, s, v)
        PROVE  TypeOK'
    <2>1. CASE Create(t, u)
      BY <2>1 DEF Create
    <2>2. CASE DeleteAccount(t, u)
      BY <2>2 DEF DeleteAccount
    <2>3. ASSUME NEW s \in Sessions, Join(t, u, s) PROVE TypeOK'
      BY <2>3 DEF Join
    <2>4. ASSUME NEW v \in Users, Unfriend(t, u, v) PROVE TypeOK'
      BY <2>4 DEF Unfriend
    <2>5. ASSUME NEW s \in Sessions, NEW v \in Users, Invite(t, u, s, v) PROVE TypeOK'
      BY <2>5 DEF Invite
    <2>6. QED
      BY <1>1, <2>1, <2>2, <2>3, <2>4, <2>5
  <1>2. ASSUME NEW t \in Slots, NEW s \in Sessions, Start(t, s) \/ Cancel(t, s) PROVE TypeOK'
    <2>1. CASE Start(t, s)
      BY <2>1 DEF Start, LockLobby
    <2>2. CASE Cancel(t, s)
      BY <2>2 DEF Cancel, LockLobby
    <2>3. QED
      BY <1>2, <2>1, <2>2
  <1>3. ASSUME NEW t \in Slots, NEW s \in Sessions, NEW u \in Users, Kick(t, s, u) \/ Leave(t, s, u)
        PROVE  TypeOK'
    <2>1. CASE Kick(t, s, u)
      BY <2>1 DEF Kick, LockLobby
    <2>2. CASE Leave(t, s, u)
      BY <2>2 DEF Leave, LockLobby
    <2>3. QED
      BY <1>3, <2>1, <2>2
  <1>4. ASSUME NEW t \in Slots, CreateCommit(t) PROVE TypeOK'
    <2>1. PICK s \in Sessions :
            /\ status' = [status EXCEPT ![s] = "lobby"]
            /\ host' = [host EXCEPT ![s] = req[t].user]
            /\ participants' = [participants EXCEPT ![s] = {req[t].user}]
      BY <1>4 DEF CreateCommit
    <2>2. req[t].user \in Users
      BY <1>4 DEF CreateCommit, UserLocked
    <2>3. QED
      BY <1>4, <2>1, <2>2 DEF CreateCommit
  <1>5. ASSUME NEW t \in Slots, JoinRefused(t) \/ JoinAllowed(t) PROVE TypeOK'
    <2>1. CASE JoinRefused(t)
      BY <2>1 DEF At, JoinRefused
    <2>2. CASE JoinAllowed(t)
      <3>1. ({req[t].user, host[req[t].session]} \in friends) \in BOOLEAN
        OBVIOUS
      <3>2. known' \in [Slots -> BOOLEAN]
        BY <2>2, <3>1 DEF At, JoinAllowed
      <3>3. sessionLock' \in [Sessions -> Slots \cup {NoSlot}]
        BY <2>2 DEF At, JoinAllowed
      <3>4. QED
        BY <2>2, <3>2, <3>3 DEF At, JoinAllowed
    <2>3. QED
      BY <1>5, <2>1, <2>2
  <1>6. ASSUME NEW t \in Slots, JoinCommit(t) PROVE TypeOK'
    <2>1. /\ req[t].session \in Sessions /\ req[t].user \in Users
          /\ host[req[t].session] \in Users
      BY <1>6 DEF At, JoinCommit, LobbyHeld, InLobby, UserLocked
    <2>2. req[t].user \notin participants[req[t].session]
      BY <1>6, <2>1 DEF At, JoinCommit, LobbyHeld, InLobby, StillFree, InOpenSession, Open
    <2>3. host[req[t].session] \in participants[req[t].session]
      BY <1>6, <2>1 DEF At, JoinCommit, LobbyHeld, InLobby, HostPresent
    <2>4. {req[t].user, host[req[t].session]} \in Pairs
      BY <2>1, <2>2, <2>3 DEF Pairs
    <2>5. QED
      BY ZenonT(30), <1>6, <2>1, <2>4 DEF At, JoinCommit
  <1>7. ASSUME NEW t \in Slots, StartRows(t) \/ CancelRows(t) PROVE TypeOK'
    <2>1. CASE StartRows(t)
      BY <2>1 DEF StartRows, At
    <2>2. CASE CancelRows(t)
      BY <2>2 DEF CancelRows, At
    <2>3. QED
      BY <1>7, <2>1, <2>2
  <1>8. ASSUME NEW t \in Slots, StartCommit(t) PROVE TypeOK'
    BY <1>8 DEF StartCommit, At
  <1>9. ASSUME NEW t \in Slots, RemoveCommit(t) PROVE TypeOK'
    BY <1>9 DEF RemoveCommit, At
  <1>10. ASSUME NEW t \in Slots, CancelCommit(t) PROVE TypeOK'
    <2>1. /\ status' \in [Sessions -> {"none", "lobby", "active", "finished", "cancelled"}]
          /\ host' \in [Sessions -> Users \cup {NoOne}]
          /\ participants' \in [Sessions -> SUBSET Users]
      BY <1>10 DEF At, CancelCommit
    <2>2. QED
      BY <1>10, <2>1 DEF At, CancelCommit
  <1>11. ASSUME NEW t \in Slots, InviteCommit(t) \/ UnfriendCommit(t) PROVE TypeOK'
    <2>1. CASE InviteCommit(t)
      <3>1. req[t].other \in Users /\ req[t].session \in Sessions
        BY <2>1 DEF At, InviteCommit, Requested
      <3>2. unread' \subseteq Invitations
        BY <2>1, <3>1 DEF At, InviteCommit, Invitations
      <3>3. QED
        BY <2>1, <3>2 DEF At, InviteCommit
    <2>2. CASE UnfriendCommit(t)
      BY <2>2 DEF UnfriendCommit
    <2>3. QED
      BY <1>11, <2>1, <2>2
  <1>12. ASSUME NEW t \in Slots, DeleteLobbies(t) PROVE TypeOK'
    BY <1>12 DEF DeleteLobbies, At
  <1>13. ASSUME NEW t \in Slots, LeaveSessions(t) \/ EraseUser(t) PROVE TypeOK'
    <2>1. CASE LeaveSessions(t)
      BY <2>1 DEF LeaveSessions, At
    <2>2. CASE EraseUser(t)
      BY <2>2 DEF EraseUser, At
    <2>3. QED
      BY <1>13, <2>1, <2>2
  <1>14. ASSUME NEW t \in Slots, DeleteCommit(t) PROVE TypeOK'
    BY <1>14 DEF DeleteCommit, At
  <1>15. ASSUME NEW t \in Slots, Abort(t) PROVE TypeOK'
    BY <1>15 DEF Abort
  <1>16. ASSUME NEW s \in Sessions, Finish(s) PROVE TypeOK'
    BY <1>16 DEF Finish
  <1>17. ASSUME NEW n \in unread, ReadInvite(n) PROVE TypeOK'
    BY <1>17 DEF ReadInvite
  <1>18. CASE UNCHANGED vars
    BY <1>18 DEF vars
  <1>19. QED
    BY <1>1, <1>2, <1>3, <1>4, <1>5, <1>6, <1>7, <1>8, <1>9, <1>10,
       <1>11, <1>12, <1>13, <1>14, <1>15, <1>16, <1>17, <1>18
       DEF Next, Request, Step

LEMMA UserLockedStep == IInv /\ [Next]_vars => UserLocked'
  <1> SUFFICES ASSUME IInv, [Next]_vars PROVE UserLocked'
    OBVIOUS
  <1>0. TypeOK /\ UserLocked
    BY DEF IInv
  <1> USE <1>0, LobbyAssumption
      DEF TypeOK, UserLocked,
          Accept, Goto, End, LockMembership, rows, membership, locks, local
  <1>1. ASSUME NEW t \in Slots, NEW u \in Users,
               \/ Create(t, u) \/ DeleteAccount(t, u)
               \/ \E s \in Sessions : Join(t, u, s)
               \/ \E v \in Users : Unfriend(t, u, v)
               \/ \E s \in Sessions, v \in Users : Invite(t, u, s, v)
        PROVE  UserLocked'
    <2>1. CASE Create(t, u)
      BY <2>1 DEF Create
    <2>2. CASE DeleteAccount(t, u)
      BY <2>2 DEF DeleteAccount
    <2>3. ASSUME NEW s \in Sessions, Join(t, u, s) PROVE UserLocked'
      BY <2>3 DEF Join
    <2>4. ASSUME NEW v \in Users, Unfriend(t, u, v) PROVE UserLocked'
      BY <2>4 DEF Unfriend
    <2>5. ASSUME NEW s \in Sessions, NEW v \in Users, Invite(t, u, s, v) PROVE UserLocked'
      BY <2>5 DEF Invite
    <2>6. QED
      BY <1>1, <2>1, <2>2, <2>3, <2>4, <2>5
  <1>2. ASSUME NEW t \in Slots, NEW s \in Sessions, Start(t, s) \/ Cancel(t, s) PROVE UserLocked'
    <2>1. CASE Start(t, s)
      BY <2>1 DEF Start, LockLobby
    <2>2. CASE Cancel(t, s)
      BY <2>2 DEF Cancel, LockLobby
    <2>3. QED
      BY <1>2, <2>1, <2>2
  <1>3. ASSUME NEW t \in Slots, NEW s \in Sessions, NEW u \in Users, Kick(t, s, u) \/ Leave(t, s, u)
        PROVE  UserLocked'
    <2>1. CASE Kick(t, s, u)
      BY <2>1 DEF Kick, LockLobby
    <2>2. CASE Leave(t, s, u)
      BY <2>2 DEF Leave, LockLobby
    <2>3. QED
      BY <1>3, <2>1, <2>2
  <1>4. ASSUME NEW t \in Slots, CreateCommit(t) PROVE UserLocked'
    BY <1>4 DEF CreateCommit
  <1>5. ASSUME NEW t \in Slots, JoinRefused(t) \/ JoinAllowed(t) PROVE UserLocked'
    <2>1. CASE JoinRefused(t)
      BY <2>1 DEF JoinRefused, MayJoin, At
    <2>2. CASE JoinAllowed(t)
      BY <2>2 DEF JoinAllowed, MayJoin, At
    <2>3. QED
      BY <1>5, <2>1, <2>2
  <1>6. ASSUME NEW t \in Slots, JoinCommit(t) PROVE UserLocked'
    BY <1>6 DEF JoinCommit, At
  <1>7. ASSUME NEW t \in Slots, StartRows(t) \/ CancelRows(t) PROVE UserLocked'
    <2>1. CASE StartRows(t)
      BY <2>1 DEF StartRows, At
    <2>2. CASE CancelRows(t)
      BY <2>2 DEF CancelRows, At
    <2>3. QED
      BY <1>7, <2>1, <2>2
  <1>8. ASSUME NEW t \in Slots, StartCommit(t) PROVE UserLocked'
    BY <1>8 DEF StartCommit, At
  <1>9. ASSUME NEW t \in Slots, RemoveCommit(t) PROVE UserLocked'
    BY <1>9 DEF RemoveCommit, At
  <1>10. ASSUME NEW t \in Slots, CancelCommit(t) PROVE UserLocked'
    BY <1>10 DEF CancelCommit, At
  <1>11. ASSUME NEW t \in Slots, InviteCommit(t) \/ UnfriendCommit(t) PROVE UserLocked'
    BY <1>11 DEF InviteCommit, UnfriendCommit, At
  <1>12. ASSUME NEW t \in Slots, DeleteLobbies(t) PROVE UserLocked'
    BY <1>12 DEF DeleteLobbies, At
  <1>13. ASSUME NEW t \in Slots, LeaveSessions(t) \/ EraseUser(t) PROVE UserLocked'
    <2>1. CASE LeaveSessions(t)
      BY <2>1 DEF At, LeaveSessions
    <2>2. CASE EraseUser(t)
      <3>1. \A r \in Slots \ {t} : userLock[req[t].user] # r
        BY <2>2, Unblocked DEF EraseUser
      <3>2. QED
        BY <2>2, <3>1 DEF At, EraseUser
    <2>3. QED
      BY <1>13, <2>1, <2>2
  <1>14. ASSUME NEW t \in Slots, DeleteCommit(t) PROVE UserLocked'
    BY <1>14 DEF DeleteCommit, At
  <1>15. ASSUME NEW t \in Slots, Abort(t) PROVE UserLocked'
    BY <1>15 DEF Abort
  <1>16. ASSUME NEW s \in Sessions, Finish(s) PROVE UserLocked'
    BY <1>16 DEF Finish
  <1>17. ASSUME NEW n \in unread, ReadInvite(n) PROVE UserLocked'
    BY <1>17 DEF ReadInvite
  <1>18. CASE UNCHANGED vars
    BY <1>18 DEF vars
  <1>19. QED
    BY <1>1, <1>2, <1>3, <1>4, <1>5, <1>6, <1>7, <1>8, <1>9, <1>10,
       <1>11, <1>12, <1>13, <1>14, <1>15, <1>16, <1>17, <1>18
       DEF Next, Request, Step

LEMMA StillFreeStep == IInv /\ [Next]_vars => StillFree'
  <1> SUFFICES ASSUME IInv, [Next]_vars PROVE StillFree'
    OBVIOUS
  <1>0. TypeOK /\ UserLocked /\ StillFree /\ LobbyHeld /\ Unborn
    BY DEF IInv
  <1> USE <1>0, LobbyAssumption
      DEF TypeOK, StillFree, UserLocked, InOpenSession, Open,
          Accept, Goto, End, LockMembership, rows, membership, locks, local
  <1>1. ASSUME NEW t \in Slots, NEW u \in Users,
               \/ Create(t, u) \/ DeleteAccount(t, u)
               \/ \E s \in Sessions : Join(t, u, s)
               \/ \E v \in Users : Unfriend(t, u, v)
               \/ \E s \in Sessions, v \in Users : Invite(t, u, s, v)
        PROVE  StillFree'
    <2>1. CASE Create(t, u)
      BY <2>1 DEF Create
    <2>2. CASE DeleteAccount(t, u)
      BY <2>2 DEF DeleteAccount
    <2>3. ASSUME NEW s \in Sessions, Join(t, u, s) PROVE StillFree'
      BY <2>3 DEF Join
    <2>4. ASSUME NEW v \in Users, Unfriend(t, u, v) PROVE StillFree'
      BY <2>4 DEF Unfriend
    <2>5. ASSUME NEW s \in Sessions, NEW v \in Users, Invite(t, u, s, v) PROVE StillFree'
      BY <2>5 DEF Invite
    <2>6. QED
      BY <1>1, <2>1, <2>2, <2>3, <2>4, <2>5
  <1>2. ASSUME NEW t \in Slots, NEW s \in Sessions, Start(t, s) \/ Cancel(t, s) PROVE StillFree'
    <2>1. CASE Start(t, s)
      BY <2>1 DEF Start, LockLobby
    <2>2. CASE Cancel(t, s)
      BY <2>2 DEF Cancel, LockLobby
    <2>3. QED
      BY <1>2, <2>1, <2>2
  <1>3. ASSUME NEW t \in Slots, NEW s \in Sessions, NEW u \in Users, Kick(t, s, u) \/ Leave(t, s, u)
        PROVE  StillFree'
    <2>1. CASE Kick(t, s, u)
      BY <2>1 DEF Kick, LockLobby
    <2>2. CASE Leave(t, s, u)
      BY <2>2 DEF Leave, LockLobby
    <2>3. QED
      BY <1>3, <2>1, <2>2
  <1>4. ASSUME NEW t \in Slots, CreateCommit(t) PROVE StillFree'
    BY <1>4 DEF CreateCommit
  <1>5. ASSUME NEW t \in Slots, JoinRefused(t) \/ JoinAllowed(t) PROVE StillFree'
    <2>1. CASE JoinRefused(t)
      BY <2>1 DEF JoinRefused, MayJoin, At
    <2>2. CASE JoinAllowed(t)
      BY <2>2 DEF JoinAllowed, MayJoin, At
    <2>3. QED
      BY <1>5, <2>1, <2>2
  <1>6. ASSUME NEW t \in Slots, JoinCommit(t) PROVE StillFree'
    BY <1>6 DEF At, JoinCommit
  <1>7. ASSUME NEW t \in Slots, StartRows(t) \/ CancelRows(t) PROVE StillFree'
    <2>1. CASE StartRows(t)
      BY <2>1 DEF StartRows, At
    <2>2. CASE CancelRows(t)
      BY <2>2 DEF CancelRows, At
    <2>3. QED
      BY <1>7, <2>1, <2>2
  <1>8. ASSUME NEW t \in Slots, StartCommit(t) PROVE StillFree'
    <2>1. /\ status[req[t].session] = "lobby" /\ participants' = participants
          /\ status' = [status EXCEPT ![req[t].session] = "active"]
      BY <1>8 DEF At, StartCommit, LobbyHeld, InLobby
    <2>2. \A s \in Sessions : status'[s] \in {"lobby", "active"} => status[s] \in {"lobby", "active"}
      BY <2>1
    <2>3. \A r \in Slots : pc'[r] \in {"create", "joined"} => pc[r] = pc'[r] /\ req'[r] = req[r]
      BY <1>8 DEF At, StartCommit
    <2>4. QED
      BY <2>1, <2>2, <2>3
  <1>9. ASSUME NEW t \in Slots, RemoveCommit(t) PROVE StillFree'
    BY <1>9 DEF RemoveCommit, At
  <1>10. ASSUME NEW t \in Slots, CancelCommit(t) PROVE StillFree'
    BY <1>10 DEF CancelCommit, At
  <1>11. ASSUME NEW t \in Slots, InviteCommit(t) \/ UnfriendCommit(t) PROVE StillFree'
    BY <1>11 DEF InviteCommit, UnfriendCommit, At
  <1>12. ASSUME NEW t \in Slots, DeleteLobbies(t) PROVE StillFree'
    BY <1>12 DEF DeleteLobbies, At
  <1>13. ASSUME NEW t \in Slots, LeaveSessions(t) \/ EraseUser(t) PROVE StillFree'
    <2>1. CASE LeaveSessions(t)
      BY <2>1 DEF LeaveSessions, At
    <2>2. CASE EraseUser(t)
      BY <2>2 DEF EraseUser, At
    <2>3. QED
      BY <1>13, <2>1, <2>2
  <1>14. ASSUME NEW t \in Slots, DeleteCommit(t) PROVE StillFree'
    BY <1>14 DEF DeleteCommit, At
  <1>15. ASSUME NEW t \in Slots, Abort(t) PROVE StillFree'
    BY <1>15 DEF Abort
  <1>16. ASSUME NEW s \in Sessions, Finish(s) PROVE StillFree'
    BY <1>16 DEF Finish
  <1>17. ASSUME NEW n \in unread, ReadInvite(n) PROVE StillFree'
    BY <1>17 DEF ReadInvite
  <1>18. CASE UNCHANGED vars
    BY <1>18 DEF vars
  <1>19. QED
    BY <1>1, <1>2, <1>3, <1>4, <1>5, <1>6, <1>7, <1>8, <1>9, <1>10,
       <1>11, <1>12, <1>13, <1>14, <1>15, <1>16, <1>17, <1>18
       DEF Next, Request, Step

LEMMA LobbyHeldStep == IInv /\ [Next]_vars => LobbyHeld'
  <1> SUFFICES ASSUME IInv, [Next]_vars PROVE LobbyHeld'
    OBVIOUS
  <1>0. TypeOK /\ LobbyHeld /\ Requested
    BY DEF IInv
  <1> USE <1>0, LobbyAssumption
      DEF TypeOK, LobbyHeld, InLobby, Requested,
          Accept, Goto, End, LockMembership, rows, membership, locks, local
  <1>1. ASSUME NEW t \in Slots, NEW u \in Users,
               \/ Create(t, u) \/ DeleteAccount(t, u)
               \/ \E s \in Sessions : Join(t, u, s)
               \/ \E v \in Users : Unfriend(t, u, v)
               \/ \E s \in Sessions, v \in Users : Invite(t, u, s, v)
        PROVE  LobbyHeld'
    <2>1. CASE Create(t, u)
      BY <2>1 DEF Create
    <2>2. CASE DeleteAccount(t, u)
      BY <2>2 DEF DeleteAccount
    <2>3. ASSUME NEW s \in Sessions, Join(t, u, s) PROVE LobbyHeld'
      BY <2>3 DEF Join
    <2>4. ASSUME NEW v \in Users, Unfriend(t, u, v) PROVE LobbyHeld'
      BY <2>4 DEF Unfriend
    <2>5. ASSUME NEW s \in Sessions, NEW v \in Users, Invite(t, u, s, v) PROVE LobbyHeld'
      BY <2>5 DEF Invite
    <2>6. QED
      BY <1>1, <2>1, <2>2, <2>3, <2>4, <2>5
  <1>2. ASSUME NEW t \in Slots, NEW s \in Sessions, Start(t, s) \/ Cancel(t, s) PROVE LobbyHeld'
    <2>1. CASE Start(t, s)
      BY <2>1 DEF Start, LockLobby
    <2>2. CASE Cancel(t, s)
      BY <2>2 DEF Cancel, LockLobby
    <2>3. QED
      BY <1>2, <2>1, <2>2
  <1>3. ASSUME NEW t \in Slots, NEW s \in Sessions, NEW u \in Users, Kick(t, s, u) \/ Leave(t, s, u)
        PROVE  LobbyHeld'
    <2>1. CASE Kick(t, s, u)
      BY <2>1 DEF Kick, LockLobby
    <2>2. CASE Leave(t, s, u)
      BY <2>2 DEF Leave, LockLobby
    <2>3. QED
      BY <1>3, <2>1, <2>2
  <1>4. ASSUME NEW t \in Slots, CreateCommit(t) PROVE LobbyHeld'
    BY <1>4 DEF CreateCommit
  <1>5. ASSUME NEW t \in Slots, JoinRefused(t) \/ JoinAllowed(t) PROVE LobbyHeld'
    <2>1. CASE JoinRefused(t)
      BY <2>1 DEF At, JoinRefused
    <2>2. CASE JoinAllowed(t)
      <3>1. /\ req[t].session \in Sessions /\ status[req[t].session] = "lobby"
            /\ host[req[t].session] # NoOne
        BY <2>2 DEF JoinAllowed, At, MayJoin
      <3>2. \A r \in Slots \ {t} : sessionLock[req[t].session] # r
        BY <2>2, Unblocked DEF JoinAllowed
      <3>3. sessionLock' = [sessionLock EXCEPT ![req[t].session] = t]
        BY <2>2 DEF At, JoinAllowed
      <3>4. QED
        BY <2>2, <3>1, <3>2, <3>3 DEF At, JoinAllowed
    <2>3. QED
      BY <1>5, <2>1, <2>2
  <1>6. ASSUME NEW t \in Slots, JoinCommit(t) PROVE LobbyHeld'
    BY <1>6 DEF JoinCommit, At
  <1>7. ASSUME NEW t \in Slots, StartRows(t) \/ CancelRows(t) PROVE LobbyHeld'
    <2>1. CASE StartRows(t)
      BY <2>1 DEF StartRows, At
    <2>2. CASE CancelRows(t)
      BY <2>2 DEF CancelRows, At
    <2>3. QED
      BY <1>7, <2>1, <2>2
  <1>8. ASSUME NEW t \in Slots, StartCommit(t) PROVE LobbyHeld'
    BY <1>8 DEF StartCommit, At
  <1>9. ASSUME NEW t \in Slots, RemoveCommit(t) PROVE LobbyHeld'
    BY <1>9 DEF RemoveCommit, At
  <1>10. ASSUME NEW t \in Slots, CancelCommit(t) PROVE LobbyHeld'
    BY <1>10 DEF CancelCommit, At
  <1>11. ASSUME NEW t \in Slots, InviteCommit(t) \/ UnfriendCommit(t) PROVE LobbyHeld'
    BY <1>11 DEF InviteCommit, UnfriendCommit, At
  <1>12. ASSUME NEW t \in Slots, DeleteLobbies(t) PROVE LobbyHeld'
    <2>1. \A r \in Slots \ {t}, z \in OwnLobbies(req[t].user) : sessionLock[z] # r
      BY <1>12, Unblocked DEF DeleteLobbies
    <2>2. QED
      BY <1>12, <2>1 DEF At, DeleteLobbies
  <1>13. ASSUME NEW t \in Slots, LeaveSessions(t) \/ EraseUser(t) PROVE LobbyHeld'
    <2>1. CASE LeaveSessions(t)
      BY <2>1 DEF LeaveSessions, At
    <2>2. CASE EraseUser(t)
      BY <2>2 DEF EraseUser, At
    <2>3. QED
      BY <1>13, <2>1, <2>2
  <1>14. ASSUME NEW t \in Slots, DeleteCommit(t) PROVE LobbyHeld'
    <2>1. \A r \in Slots \ {t}, z \in Sessions : host[z] = req[t].user => sessionLock[z] # r
      BY <1>14, Unblocked DEF DeleteCommit
    <2>2. QED
      BY <1>14, <2>1 DEF At, DeleteCommit
  <1>15. ASSUME NEW t \in Slots, Abort(t) PROVE LobbyHeld'
    BY <1>15 DEF Abort
  <1>16. ASSUME NEW s \in Sessions, Finish(s) PROVE LobbyHeld'
    BY <1>16 DEF Finish
  <1>17. ASSUME NEW n \in unread, ReadInvite(n) PROVE LobbyHeld'
    BY <1>17 DEF ReadInvite
  <1>18. CASE UNCHANGED vars
    BY <1>18 DEF vars
  <1>19. QED
    BY <1>1, <1>2, <1>3, <1>4, <1>5, <1>6, <1>7, <1>8, <1>9, <1>10,
       <1>11, <1>12, <1>13, <1>14, <1>15, <1>16, <1>17, <1>18
       DEF Next, Request, Step

LEMMA RosterLoadedStep == IInv /\ [Next]_vars => RosterLoaded'
  <1> SUFFICES ASSUME IInv, [Next]_vars PROVE RosterLoaded'
    OBVIOUS
  <1>0. TypeOK /\ LobbyHeld /\ RosterLoaded
    BY DEF IInv
  <1> USE <1>0, LobbyAssumption
      DEF TypeOK, RosterLoaded, LobbyHeld, InLobby,
          Accept, Goto, End, LockMembership, rows, membership, locks, local
  <1>1. ASSUME NEW t \in Slots, NEW u \in Users,
               \/ Create(t, u) \/ DeleteAccount(t, u)
               \/ \E s \in Sessions : Join(t, u, s)
               \/ \E v \in Users : Unfriend(t, u, v)
               \/ \E s \in Sessions, v \in Users : Invite(t, u, s, v)
        PROVE  RosterLoaded'
    <2>1. CASE Create(t, u)
      BY <2>1 DEF Create
    <2>2. CASE DeleteAccount(t, u)
      BY <2>2 DEF DeleteAccount
    <2>3. ASSUME NEW s \in Sessions, Join(t, u, s) PROVE RosterLoaded'
      BY <2>3 DEF Join
    <2>4. ASSUME NEW v \in Users, Unfriend(t, u, v) PROVE RosterLoaded'
      BY <2>4 DEF Unfriend
    <2>5. ASSUME NEW s \in Sessions, NEW v \in Users, Invite(t, u, s, v) PROVE RosterLoaded'
      BY <2>5 DEF Invite
    <2>6. QED
      BY <1>1, <2>1, <2>2, <2>3, <2>4, <2>5
  <1>2. ASSUME NEW t \in Slots, NEW s \in Sessions, Start(t, s) \/ Cancel(t, s) PROVE RosterLoaded'
    <2>1. CASE Start(t, s)
      BY <2>1 DEF Start, LockLobby
    <2>2. CASE Cancel(t, s)
      BY <2>2 DEF Cancel, LockLobby
    <2>3. QED
      BY <1>2, <2>1, <2>2
  <1>3. ASSUME NEW t \in Slots, NEW s \in Sessions, NEW u \in Users, Kick(t, s, u) \/ Leave(t, s, u)
        PROVE  RosterLoaded'
    <2>1. CASE Kick(t, s, u)
      BY <2>1 DEF Kick, LockLobby
    <2>2. CASE Leave(t, s, u)
      BY <2>2 DEF Leave, LockLobby
    <2>3. QED
      BY <1>3, <2>1, <2>2
  <1>4. ASSUME NEW t \in Slots, CreateCommit(t) PROVE RosterLoaded'
    BY <1>4 DEF CreateCommit
  <1>5. ASSUME NEW t \in Slots, JoinRefused(t) \/ JoinAllowed(t) PROVE RosterLoaded'
    <2>1. CASE JoinRefused(t)
      BY <2>1 DEF JoinRefused, MayJoin, At
    <2>2. CASE JoinAllowed(t)
      BY <2>2 DEF JoinAllowed, MayJoin, At
    <2>3. QED
      BY <1>5, <2>1, <2>2
  <1>6. ASSUME NEW t \in Slots, JoinCommit(t) PROVE RosterLoaded'
    <2>1. /\ req[t].session \in Sessions /\ sessionLock[req[t].session] = t
          /\ participants' = [participants EXCEPT ![req[t].session] = @ \cup {req[t].user}]
      BY <1>6 DEF At, JoinCommit
    <2>2. \A r \in Slots : pc'[r] \in {"start", "starting"} =>
             pc[r] = pc'[r] /\ r # t /\ UNCHANGED <<req[r], roster[r]>>
      BY <1>6 DEF At, JoinCommit
    <2>3. \A r \in Slots : pc[r] \in {"start", "starting"} /\ r # t =>
             req[r].session \in Sessions /\ req[r].session # req[t].session
      BY <2>1
    <2>4. QED
      BY <2>1, <2>2, <2>3
  <1>7. ASSUME NEW t \in Slots, StartRows(t) \/ CancelRows(t) PROVE RosterLoaded'
    <2>1. CASE StartRows(t)
      <3>1. /\ pc[t] = "start" /\ roster[t] \subseteq participants[req[t].session]
            /\ pc' = [pc EXCEPT ![t] = "starting"]
            /\ UNCHANGED <<req, roster, participants>>
        BY <2>1 DEF StartRows, At
      <3>2. participants[req[t].session] \subseteq roster[t]
        BY <3>1
      <3>3. QED
        BY <3>1, <3>2
    <2>2. CASE CancelRows(t)
      BY <2>2 DEF CancelRows, At
    <2>3. QED
      BY <1>7, <2>1, <2>2
  <1>8. ASSUME NEW t \in Slots, StartCommit(t) PROVE RosterLoaded'
    BY <1>8 DEF StartCommit, At
  <1>9. ASSUME NEW t \in Slots, RemoveCommit(t) PROVE RosterLoaded'
    <2>1. /\ req[t].session \in Sessions /\ sessionLock[req[t].session] = t
          /\ participants' = [participants EXCEPT ![req[t].session] = @ \ {req[t].other}]
      BY <1>9 DEF At, RemoveCommit
    <2>2. \A r \in Slots : pc'[r] \in {"start", "starting"} =>
             pc[r] = pc'[r] /\ r # t /\ UNCHANGED <<req[r], roster[r]>>
      BY <1>9 DEF At, RemoveCommit
    <2>3. \A r \in Slots : pc[r] \in {"start", "starting"} /\ r # t =>
             req[r].session \in Sessions /\ req[r].session # req[t].session
      BY <2>1
    <2>4. QED
      BY <2>1, <2>2, <2>3
  <1>10. ASSUME NEW t \in Slots, CancelCommit(t) PROVE RosterLoaded'
    BY <1>10 DEF CancelCommit, At
  <1>11. ASSUME NEW t \in Slots, InviteCommit(t) \/ UnfriendCommit(t) PROVE RosterLoaded'
    BY <1>11 DEF InviteCommit, UnfriendCommit, At
  <1>12. ASSUME NEW t \in Slots, DeleteLobbies(t) PROVE RosterLoaded'
    BY <1>12 DEF DeleteLobbies, At
  <1>13. ASSUME NEW t \in Slots, LeaveSessions(t) \/ EraseUser(t) PROVE RosterLoaded'
    <2>1. CASE LeaveSessions(t)
      BY <2>1 DEF LeaveSessions, At
    <2>2. CASE EraseUser(t)
      BY <2>2 DEF EraseUser, At
    <2>3. QED
      BY <1>13, <2>1, <2>2
  <1>14. ASSUME NEW t \in Slots, DeleteCommit(t) PROVE RosterLoaded'
    <2> DEFINE u == req[t].user
    <2>1. \A s \in Sessions : sessionLock[s] # t => participants'[s] = participants[s] \ {u}
      BY <1>14 DEF At, DeleteCommit
    <2>2. \A r \in Slots : pc'[r] \in {"start", "starting"} =>
             r # t /\ pc[r] = pc'[r] /\ UNCHANGED <<req[r], roster[r]>>
      BY <1>14 DEF At, DeleteCommit
    <2>3. ASSUME NEW r \in Slots \ {t}, pc[r] = "starting" PROVE u \notin participants[req[r].session]
      BY <1>14, <2>3, Unblocked DEF DeleteCommit, HoldsRow
    <2>4. \A r \in Slots \ {t} : pc[r] \in {"start", "starting"} =>
             req[r].session \in Sessions /\ sessionLock[req[r].session] # t
      OBVIOUS
    <2>5. SUFFICES ASSUME NEW r \in Slots, pc'[r] \in {"start", "starting"}
                   PROVE  /\ participants[req[r].session]' \subseteq roster[r]
                          /\ pc[r] = "starting" => roster[r] \subseteq participants[req[r].session]'
      BY <2>2
    <2>6. participants[req[r].session]' = participants[req[r].session] \ {u}
      BY <2>1, <2>2, <2>4, <2>5
    <2>7. QED
      BY <2>2, <2>3, <2>5, <2>6
  <1>15. ASSUME NEW t \in Slots, Abort(t) PROVE RosterLoaded'
    BY <1>15 DEF Abort
  <1>16. ASSUME NEW s \in Sessions, Finish(s) PROVE RosterLoaded'
    BY <1>16 DEF Finish
  <1>17. ASSUME NEW n \in unread, ReadInvite(n) PROVE RosterLoaded'
    BY <1>17 DEF ReadInvite
  <1>18. CASE UNCHANGED vars
    BY <1>18 DEF vars
  <1>19. QED
    BY <1>1, <1>2, <1>3, <1>4, <1>5, <1>6, <1>7, <1>8, <1>9, <1>10,
       <1>11, <1>12, <1>13, <1>14, <1>15, <1>16, <1>17, <1>18
       DEF Next, Request, Step

LEMMA RequestedStep == IInv /\ [Next]_vars => Requested'
  <1> SUFFICES ASSUME IInv, [Next]_vars PROVE Requested'
    OBVIOUS
  <1>0. TypeOK /\ LobbyHeld /\ Requested
    BY DEF IInv
  <1> USE <1>0, LobbyAssumption
      DEF TypeOK, Requested, Deleting,
          Accept, Goto, End, LockMembership, rows, membership, locks, local
  <1>1. ASSUME NEW t \in Slots, NEW u \in Users,
               \/ Create(t, u) \/ DeleteAccount(t, u)
               \/ \E s \in Sessions : Join(t, u, s)
               \/ \E v \in Users : Unfriend(t, u, v)
               \/ \E s \in Sessions, v \in Users : Invite(t, u, s, v)
        PROVE  Requested'
    <2>1. CASE Create(t, u)
      BY <2>1 DEF Create
    <2>2. CASE DeleteAccount(t, u)
      BY <2>2 DEF DeleteAccount
    <2>3. ASSUME NEW s \in Sessions, Join(t, u, s) PROVE Requested'
      BY <2>3 DEF Join
    <2>4. ASSUME NEW v \in Users, Unfriend(t, u, v) PROVE Requested'
      <3>1. {u, v} \in Pairs /\ pc' = [pc EXCEPT ![t] = "unfriend"]
            /\ req' = [req EXCEPT ![t] = [user |-> u, session |-> NoSession, other |-> v]]
        BY <2>4 DEF Unfriend
      <3>2. req'[t].user = u /\ req'[t].other = v
        BY <3>1
      <3>3. UNCHANGED host
        BY <2>4 DEF Unfriend
      <3>4. QED
        BY <3>1, <3>2, <3>3
    <2>5. ASSUME NEW s \in Sessions, NEW v \in Users, Invite(t, u, s, v) PROVE Requested'
      BY <2>5 DEF Invite
    <2>6. QED
      BY <1>1, <2>1, <2>2, <2>3, <2>4, <2>5
  <1>2. ASSUME NEW t \in Slots, NEW s \in Sessions, Start(t, s) \/ Cancel(t, s) PROVE Requested'
    <2>1. CASE Start(t, s)
      BY <2>1 DEF Start, LockLobby
    <2>2. CASE Cancel(t, s)
      BY <2>2 DEF Cancel, LockLobby
    <2>3. QED
      BY <1>2, <2>1, <2>2
  <1>3. ASSUME NEW t \in Slots, NEW s \in Sessions, NEW u \in Users, Kick(t, s, u) \/ Leave(t, s, u)
        PROVE  Requested'
    <2>1. CASE Kick(t, s, u)
      BY <2>1 DEF Kick, LockLobby
    <2>2. CASE Leave(t, s, u)
      BY <2>2 DEF Leave, LockLobby
    <2>3. QED
      BY <1>3, <2>1, <2>2
  <1>4. ASSUME NEW t \in Slots, CreateCommit(t) PROVE Requested'
    BY <1>4 DEF CreateCommit, LobbyHeld, InLobby
  <1>5. ASSUME NEW t \in Slots, JoinRefused(t) \/ JoinAllowed(t) PROVE Requested'
    <2>1. CASE JoinRefused(t)
      BY <2>1 DEF JoinRefused, MayJoin, At
    <2>2. CASE JoinAllowed(t)
      BY <2>2 DEF JoinAllowed, MayJoin, At
    <2>3. QED
      BY <1>5, <2>1, <2>2
  <1>6. ASSUME NEW t \in Slots, JoinCommit(t) PROVE Requested'
    BY <1>6 DEF JoinCommit, At
  <1>7. ASSUME NEW t \in Slots, StartRows(t) \/ CancelRows(t) PROVE Requested'
    <2>1. CASE StartRows(t)
      BY <2>1 DEF StartRows, At
    <2>2. CASE CancelRows(t)
      BY <2>2 DEF CancelRows, At
    <2>3. QED
      BY <1>7, <2>1, <2>2
  <1>8. ASSUME NEW t \in Slots, StartCommit(t) PROVE Requested'
    BY <1>8 DEF StartCommit, At
  <1>9. ASSUME NEW t \in Slots, RemoveCommit(t) PROVE Requested'
    BY <1>9 DEF RemoveCommit, At
  <1>10. ASSUME NEW t \in Slots, CancelCommit(t) PROVE Requested'
    BY <1>10 DEF At, CancelCommit, LobbyHeld, InLobby
  <1>11. ASSUME NEW t \in Slots, InviteCommit(t) \/ UnfriendCommit(t) PROVE Requested'
    <2>1. CASE InviteCommit(t)
      BY <2>1 DEF InviteCommit
    <2>2. CASE UnfriendCommit(t)
      BY <2>2 DEF UnfriendCommit
    <2>3. QED
      BY <1>11, <2>1, <2>2
  <1>12. ASSUME NEW t \in Slots, DeleteLobbies(t) PROVE Requested'
    BY <1>12 DEF DeleteLobbies, At
  <1>13. ASSUME NEW t \in Slots, LeaveSessions(t) \/ EraseUser(t) PROVE Requested'
    <2>1. CASE LeaveSessions(t)
      BY <2>1 DEF LeaveSessions, At
    <2>2. CASE EraseUser(t)
      <3>1. /\ pc[t] = "erase" /\ pc' = [pc EXCEPT ![t] = "gone"]
            /\ req' = req /\ host' = host
        BY <2>2 DEF EraseUser, At
      <3>2. QED
        BY <3>1
    <2>3. QED
      BY <1>13, <2>1, <2>2
  <1>14. ASSUME NEW t \in Slots, DeleteCommit(t) PROVE Requested'
    <2>1. \A r \in Slots : r # t => pc'[r] = pc[r] /\ req'[r] = req[r]
      BY <1>14 DEF At, DeleteCommit
    <2>2. pc'[t] = "idle"
      BY <1>14 DEF At, DeleteCommit
    <2>3. \A z \in Sessions : host'[z] \in {host[z], NoOne}
      BY <1>14 DEF At, DeleteCommit
    <2>4. \A r \in Slots : pc[r] = "remove" => req[r].session \in Sessions
      BY DEF LobbyHeld, InLobby
    <2>5. SUFFICES ASSUME NEW r \in Slots, r # t
                   PROVE  pc[r] = "remove" => req[r].other # host'[req[r].session]
      BY <2>1, <2>2
    <2>6. QED
      BY <2>3, <2>4
  <1>15. ASSUME NEW t \in Slots, Abort(t) PROVE Requested'
    BY <1>15 DEF Abort
  <1>16. ASSUME NEW s \in Sessions, Finish(s) PROVE Requested'
    BY <1>16 DEF Finish
  <1>17. ASSUME NEW n \in unread, ReadInvite(n) PROVE Requested'
    BY <1>17 DEF ReadInvite
  <1>18. CASE UNCHANGED vars
    BY <1>18 DEF vars
  <1>19. QED
    BY <1>1, <1>2, <1>3, <1>4, <1>5, <1>6, <1>7, <1>8, <1>9, <1>10,
       <1>11, <1>12, <1>13, <1>14, <1>15, <1>16, <1>17, <1>18
       DEF Next, Request, Step

LEMMA LocksOwnedStep == IInv /\ [Next]_vars => LocksOwned'
  <1> SUFFICES ASSUME IInv, [Next]_vars PROVE LocksOwned'
    OBVIOUS
  <1>0. TypeOK /\ LobbyHeld /\ LocksOwned
    BY DEF IInv
  <1> USE <1>0, LobbyAssumption
      DEF TypeOK, LobbyHeld, InLobby, LocksOwned, Deleting,
          Accept, Goto, End, LockMembership, rows, membership, locks, local
  <1>1. ASSUME NEW t \in Slots, NEW u \in Users,
               \/ Create(t, u) \/ DeleteAccount(t, u)
               \/ \E s \in Sessions : Join(t, u, s)
               \/ \E v \in Users : Unfriend(t, u, v)
               \/ \E s \in Sessions, v \in Users : Invite(t, u, s, v)
        PROVE  LocksOwned'
    <2>1. CASE Create(t, u)
      BY <2>1 DEF Create
    <2>2. CASE DeleteAccount(t, u)
      BY <2>2 DEF DeleteAccount
    <2>3. ASSUME NEW s \in Sessions, Join(t, u, s) PROVE LocksOwned'
      BY <2>3 DEF Join
    <2>4. ASSUME NEW v \in Users, Unfriend(t, u, v) PROVE LocksOwned'
      BY <2>4 DEF Unfriend
    <2>5. ASSUME NEW s \in Sessions, NEW v \in Users, Invite(t, u, s, v) PROVE LocksOwned'
      BY <2>5 DEF Invite
    <2>6. QED
      BY <1>1, <2>1, <2>2, <2>3, <2>4, <2>5
  <1>2. ASSUME NEW t \in Slots, NEW s \in Sessions, Start(t, s) \/ Cancel(t, s) PROVE LocksOwned'
    <2>1. CASE Start(t, s)
      BY <2>1 DEF Start, LockLobby
    <2>2. CASE Cancel(t, s)
      BY <2>2 DEF Cancel, LockLobby
    <2>3. QED
      BY <1>2, <2>1, <2>2
  <1>3. ASSUME NEW t \in Slots, NEW s \in Sessions, NEW u \in Users, Kick(t, s, u) \/ Leave(t, s, u)
        PROVE  LocksOwned'
    <2>1. CASE Kick(t, s, u)
      BY <2>1 DEF Kick, LockLobby
    <2>2. CASE Leave(t, s, u)
      BY <2>2 DEF Leave, LockLobby
    <2>3. QED
      BY <1>3, <2>1, <2>2
  <1>4. ASSUME NEW t \in Slots, CreateCommit(t) PROVE LocksOwned'
    BY <1>4 DEF CreateCommit
  <1>5. ASSUME NEW t \in Slots, JoinRefused(t) \/ JoinAllowed(t) PROVE LocksOwned'
    <2>1. CASE JoinRefused(t)
      BY <2>1 DEF JoinRefused, MayJoin, At
    <2>2. CASE JoinAllowed(t)
      BY <2>2 DEF JoinAllowed, MayJoin, At
    <2>3. QED
      BY <1>5, <2>1, <2>2
  <1>6. ASSUME NEW t \in Slots, JoinCommit(t) PROVE LocksOwned'
    BY <1>6 DEF JoinCommit, At
  <1>7. ASSUME NEW t \in Slots, StartRows(t) \/ CancelRows(t) PROVE LocksOwned'
    <2>1. CASE StartRows(t)
      BY <2>1 DEF StartRows, At
    <2>2. CASE CancelRows(t)
      BY <2>2 DEF CancelRows, At
    <2>3. QED
      BY <1>7, <2>1, <2>2
  <1>8. ASSUME NEW t \in Slots, StartCommit(t) PROVE LocksOwned'
    BY <1>8 DEF StartCommit, At
  <1>9. ASSUME NEW t \in Slots, RemoveCommit(t) PROVE LocksOwned'
    BY <1>9 DEF RemoveCommit, At
  <1>10. ASSUME NEW t \in Slots, CancelCommit(t) PROVE LocksOwned'
    BY <1>10 DEF CancelCommit, At
  <1>11. ASSUME NEW t \in Slots, InviteCommit(t) \/ UnfriendCommit(t) PROVE LocksOwned'
    BY <1>11 DEF InviteCommit, UnfriendCommit, At
  <1>12. ASSUME NEW t \in Slots, DeleteLobbies(t) PROVE LocksOwned'
    <2>1. /\ pc[t] = "delete" /\ pc' = [pc EXCEPT ![t] = "leave"]
          /\ UNCHANGED <<status, host, req>>
      BY <1>12 DEF At, DeleteLobbies
    <2>2. \A s \in Sessions : sessionLock'[s] = IF s \in OwnLobbies(req[t].user) THEN t ELSE sessionLock[s]
      BY <1>12 DEF At, DeleteLobbies
    <2>3. QED
      BY <2>1, <2>2 DEF OwnLobbies
  <1>13. ASSUME NEW t \in Slots, LeaveSessions(t) \/ EraseUser(t) PROVE LocksOwned'
    <2>1. CASE LeaveSessions(t)
      BY <2>1 DEF LeaveSessions, At
    <2>2. CASE EraseUser(t)
      BY <2>2 DEF EraseUser, At
    <2>3. QED
      BY <1>13, <2>1, <2>2
  <1>14. ASSUME NEW t \in Slots, DeleteCommit(t) PROVE LocksOwned'
    <2>1. /\ \A z \in Sessions : sessionLock'[z] = IF sessionLock[z] = t THEN NoSlot ELSE sessionLock[z]
          /\ \A r \in Slots : r # t => pc'[r] = pc[r] /\ req'[r] = req[r]
          /\ \A z \in Sessions : sessionLock[z] # t => status'[z] = status[z]
          /\ \A z \in Sessions : sessionLock[z] # t /\ host[z] # req[t].user => host'[z] = host[z]
      BY <1>14 DEF DeleteCommit
    <2>2. \A r \in Slots \ {t}, z \in Sessions : host[z] = req[t].user => sessionLock[z] # r
      BY <1>14, Unblocked DEF DeleteCommit
    <2>3. QED
      BY <2>1, <2>2
  <1>15. ASSUME NEW t \in Slots, Abort(t) PROVE LocksOwned'
    BY <1>15 DEF Abort
  <1>16. ASSUME NEW s \in Sessions, Finish(s) PROVE LocksOwned'
    BY <1>16 DEF Finish
  <1>17. ASSUME NEW n \in unread, ReadInvite(n) PROVE LocksOwned'
    BY <1>17 DEF ReadInvite
  <1>18. CASE UNCHANGED vars
    BY <1>18 DEF vars
  <1>19. QED
    BY <1>1, <1>2, <1>3, <1>4, <1>5, <1>6, <1>7, <1>8, <1>9, <1>10,
       <1>11, <1>12, <1>13, <1>14, <1>15, <1>16, <1>17, <1>18
       DEF Next, Request, Step

LEMMA DeletionsHoldStep == IInv /\ [Next]_vars => DeletionsHold'
  <1> SUFFICES ASSUME IInv, [Next]_vars PROVE DeletionsHold'
    OBVIOUS
  <1>0. TypeOK /\ DeletionsHold
    BY DEF IInv
  <1> USE <1>0, LobbyAssumption
      DEF TypeOK, DeletionsHold, Deleting,
          Accept, Goto, End, LockMembership, rows, membership, locks, local
  <1>1. ASSUME NEW t \in Slots, NEW u \in Users,
               \/ Create(t, u) \/ DeleteAccount(t, u)
               \/ \E s \in Sessions : Join(t, u, s)
               \/ \E v \in Users : Unfriend(t, u, v)
               \/ \E s \in Sessions, v \in Users : Invite(t, u, s, v)
        PROVE  DeletionsHold'
    <2>1. CASE Create(t, u)
      BY <2>1 DEF Create
    <2>2. CASE DeleteAccount(t, u)
      BY <2>2 DEF DeleteAccount
    <2>3. ASSUME NEW s \in Sessions, Join(t, u, s) PROVE DeletionsHold'
      BY <2>3 DEF Join
    <2>4. ASSUME NEW v \in Users, Unfriend(t, u, v) PROVE DeletionsHold'
      BY <2>4 DEF Unfriend
    <2>5. ASSUME NEW s \in Sessions, NEW v \in Users, Invite(t, u, s, v) PROVE DeletionsHold'
      BY <2>5 DEF Invite
    <2>6. QED
      BY <1>1, <2>1, <2>2, <2>3, <2>4, <2>5
  <1>2. ASSUME NEW t \in Slots, NEW s \in Sessions, Start(t, s) \/ Cancel(t, s) PROVE DeletionsHold'
    <2>1. CASE Start(t, s)
      BY <2>1 DEF Start, LockLobby
    <2>2. CASE Cancel(t, s)
      BY <2>2 DEF Cancel, LockLobby
    <2>3. QED
      BY <1>2, <2>1, <2>2
  <1>3. ASSUME NEW t \in Slots, NEW s \in Sessions, NEW u \in Users, Kick(t, s, u) \/ Leave(t, s, u)
        PROVE  DeletionsHold'
    <2>1. CASE Kick(t, s, u)
      BY <2>1 DEF Kick, LockLobby
    <2>2. CASE Leave(t, s, u)
      BY <2>2 DEF Leave, LockLobby
    <2>3. QED
      BY <1>3, <2>1, <2>2
  <1>4. ASSUME NEW t \in Slots, CreateCommit(t) PROVE DeletionsHold'
    BY <1>4 DEF CreateCommit
  <1>5. ASSUME NEW t \in Slots, JoinRefused(t) \/ JoinAllowed(t) PROVE DeletionsHold'
    <2>1. CASE JoinRefused(t)
      BY <2>1 DEF JoinRefused, MayJoin, At
    <2>2. CASE JoinAllowed(t)
      BY <2>2 DEF JoinAllowed, MayJoin, At
    <2>3. QED
      BY <1>5, <2>1, <2>2
  <1>6. ASSUME NEW t \in Slots, JoinCommit(t) PROVE DeletionsHold'
    BY <1>6 DEF JoinCommit, At
  <1>7. ASSUME NEW t \in Slots, StartRows(t) \/ CancelRows(t) PROVE DeletionsHold'
    <2>1. CASE StartRows(t)
      BY <2>1 DEF StartRows, At
    <2>2. CASE CancelRows(t)
      BY <2>2 DEF CancelRows, At
    <2>3. QED
      BY <1>7, <2>1, <2>2
  <1>8. ASSUME NEW t \in Slots, StartCommit(t) PROVE DeletionsHold'
    BY <1>8 DEF StartCommit, At
  <1>9. ASSUME NEW t \in Slots, RemoveCommit(t) PROVE DeletionsHold'
    BY <1>9 DEF RemoveCommit, At
  <1>10. ASSUME NEW t \in Slots, CancelCommit(t) PROVE DeletionsHold'
    BY <1>10 DEF CancelCommit, At
  <1>11. ASSUME NEW t \in Slots, InviteCommit(t) \/ UnfriendCommit(t) PROVE DeletionsHold'
    BY <1>11 DEF InviteCommit, UnfriendCommit, At
  <1>12. ASSUME NEW t \in Slots, DeleteLobbies(t) PROVE DeletionsHold'
    BY <1>12 DEF DeleteLobbies, At
  <1>13. ASSUME NEW t \in Slots, LeaveSessions(t) \/ EraseUser(t) PROVE DeletionsHold'
    <2>1. CASE LeaveSessions(t)
      BY <2>1 DEF LeaveSessions, At
    <2>2. CASE EraseUser(t)
      BY <2>2 DEF EraseUser, At
    <2>3. QED
      BY <1>13, <2>1, <2>2
  <1>14. ASSUME NEW t \in Slots, DeleteCommit(t) PROVE DeletionsHold'
    BY <1>14 DEF DeleteCommit, At
  <1>15. ASSUME NEW t \in Slots, Abort(t) PROVE DeletionsHold'
    BY <1>15 DEF Abort
  <1>16. ASSUME NEW s \in Sessions, Finish(s) PROVE DeletionsHold'
    BY <1>16 DEF Finish
  <1>17. ASSUME NEW n \in unread, ReadInvite(n) PROVE DeletionsHold'
    BY <1>17 DEF ReadInvite
  <1>18. CASE UNCHANGED vars
    BY <1>18 DEF vars
  <1>19. QED
    BY <1>1, <1>2, <1>3, <1>4, <1>5, <1>6, <1>7, <1>8, <1>9, <1>10,
       <1>11, <1>12, <1>13, <1>14, <1>15, <1>16, <1>17, <1>18
       DEF Next, Request, Step

LEMMA UnbornStep == IInv /\ [Next]_vars => Unborn'
  <1> SUFFICES ASSUME IInv, [Next]_vars PROVE Unborn'
    OBVIOUS
  <1>0. TypeOK /\ LobbyHeld /\ Unborn
    BY DEF IInv
  <1> USE <1>0, LobbyAssumption
      DEF TypeOK, LobbyHeld, InLobby, Unborn,
          Accept, Goto, End, LockMembership, rows, membership, locks, local
  <1>1. ASSUME NEW t \in Slots, NEW u \in Users,
               \/ Create(t, u) \/ DeleteAccount(t, u)
               \/ \E s \in Sessions : Join(t, u, s)
               \/ \E v \in Users : Unfriend(t, u, v)
               \/ \E s \in Sessions, v \in Users : Invite(t, u, s, v)
        PROVE  Unborn'
    BY <1>1 DEF Create, DeleteAccount, Join, Unfriend, Invite
  <1>2. ASSUME NEW t \in Slots, NEW s \in Sessions, Start(t, s) \/ Cancel(t, s) PROVE Unborn'
    BY <1>2 DEF Start, Cancel, LockLobby
  <1>3. ASSUME NEW t \in Slots, NEW s \in Sessions, NEW u \in Users, Kick(t, s, u) \/ Leave(t, s, u)
        PROVE  Unborn'
    BY <1>3 DEF Kick, Leave, LockLobby
  <1>4. ASSUME NEW t \in Slots, CreateCommit(t) PROVE Unborn'
    BY <1>4 DEF CreateCommit
  <1>5. ASSUME NEW t \in Slots, JoinRefused(t) \/ JoinAllowed(t) PROVE Unborn'
    BY <1>5 DEF JoinRefused, JoinAllowed, MayJoin, At
  <1>6. ASSUME NEW t \in Slots, JoinCommit(t) PROVE Unborn'
    BY <1>6 DEF JoinCommit, At
  <1>7. ASSUME NEW t \in Slots, StartRows(t) \/ CancelRows(t) PROVE Unborn'
    BY <1>7 DEF StartRows, CancelRows, At
  <1>8. ASSUME NEW t \in Slots, StartCommit(t) PROVE Unborn'
    BY <1>8 DEF StartCommit, At
  <1>9. ASSUME NEW t \in Slots, RemoveCommit(t) PROVE Unborn'
    BY <1>9 DEF RemoveCommit, At
  <1>10. ASSUME NEW t \in Slots, CancelCommit(t) PROVE Unborn'
    BY <1>10 DEF CancelCommit, At
  <1>11. ASSUME NEW t \in Slots, InviteCommit(t) \/ UnfriendCommit(t) PROVE Unborn'
    BY <1>11 DEF InviteCommit, UnfriendCommit, At
  <1>12. ASSUME NEW t \in Slots, DeleteLobbies(t) PROVE Unborn'
    BY <1>12 DEF DeleteLobbies, At
  <1>13. ASSUME NEW t \in Slots, LeaveSessions(t) \/ EraseUser(t) PROVE Unborn'
    BY <1>13 DEF LeaveSessions, EraseUser, At
  <1>14. ASSUME NEW t \in Slots, DeleteCommit(t) PROVE Unborn'
    BY <1>14 DEF DeleteCommit, At
  <1>15. ASSUME NEW t \in Slots, Abort(t) PROVE Unborn'
    BY <1>15 DEF Abort
  <1>16. ASSUME NEW s \in Sessions, Finish(s) PROVE Unborn'
    BY <1>16 DEF Finish
  <1>17. ASSUME NEW n \in unread, ReadInvite(n) PROVE Unborn'
    BY <1>17 DEF ReadInvite
  <1>18. CASE UNCHANGED vars
    BY <1>18 DEF vars
  <1>19. QED
    BY <1>1, <1>2, <1>3, <1>4, <1>5, <1>6, <1>7, <1>8, <1>9, <1>10,
       <1>11, <1>12, <1>13, <1>14, <1>15, <1>16, <1>17, <1>18
       DEF Next, Request, Step

LEMMA OneOpenSessionStep == IInv /\ [Next]_vars => OneOpenSession'
  <1> SUFFICES ASSUME IInv, [Next]_vars PROVE OneOpenSession'
    OBVIOUS
  <1>0. TypeOK /\ StillFree /\ LobbyHeld /\ Unborn /\ OneOpenSession
    BY DEF IInv
  <1> USE <1>0, LobbyAssumption
      DEF TypeOK, OneOpenSession, StillFree, LobbyHeld, InLobby, Unborn, InOpenSession, Open,
          Accept, Goto, End, LockMembership, rows, membership, locks, local
  <1>1. ASSUME NEW t \in Slots, NEW u \in Users,
               \/ Create(t, u) \/ DeleteAccount(t, u)
               \/ \E s \in Sessions : Join(t, u, s)
               \/ \E v \in Users : Unfriend(t, u, v)
               \/ \E s \in Sessions, v \in Users : Invite(t, u, s, v)
        PROVE  OneOpenSession'
    BY <1>1 DEF Create, DeleteAccount, Join, Unfriend, Invite
  <1>2. ASSUME NEW t \in Slots, NEW s \in Sessions, Start(t, s) \/ Cancel(t, s) PROVE OneOpenSession'
    BY <1>2 DEF Start, Cancel, LockLobby
  <1>3. ASSUME NEW t \in Slots, NEW s \in Sessions, NEW u \in Users, Kick(t, s, u) \/ Leave(t, s, u)
        PROVE  OneOpenSession'
    BY <1>3 DEF Kick, Leave, LockLobby
  <1>4. ASSUME NEW t \in Slots, CreateCommit(t) PROVE OneOpenSession'
    BY <1>4 DEF CreateCommit
  <1>5. ASSUME NEW t \in Slots, JoinRefused(t) \/ JoinAllowed(t) PROVE OneOpenSession'
    BY <1>5 DEF JoinRefused, JoinAllowed, MayJoin, At
  <1>6. ASSUME NEW t \in Slots, JoinCommit(t) PROVE OneOpenSession'
    BY <1>6 DEF JoinCommit, At
  <1>7. ASSUME NEW t \in Slots, StartRows(t) \/ CancelRows(t) PROVE OneOpenSession'
    BY <1>7 DEF StartRows, CancelRows, At
  <1>8. ASSUME NEW t \in Slots, StartCommit(t) PROVE OneOpenSession'
    BY <1>8 DEF StartCommit, At
  <1>9. ASSUME NEW t \in Slots, RemoveCommit(t) PROVE OneOpenSession'
    BY <1>9 DEF RemoveCommit, At
  <1>10. ASSUME NEW t \in Slots, CancelCommit(t) PROVE OneOpenSession'
    BY <1>10 DEF CancelCommit, At
  <1>11. ASSUME NEW t \in Slots, InviteCommit(t) \/ UnfriendCommit(t) PROVE OneOpenSession'
    BY <1>11 DEF InviteCommit, UnfriendCommit, At
  <1>12. ASSUME NEW t \in Slots, DeleteLobbies(t) PROVE OneOpenSession'
    BY <1>12 DEF DeleteLobbies, At
  <1>13. ASSUME NEW t \in Slots, LeaveSessions(t) \/ EraseUser(t) PROVE OneOpenSession'
    BY <1>13 DEF LeaveSessions, EraseUser, At
  <1>14. ASSUME NEW t \in Slots, DeleteCommit(t) PROVE OneOpenSession'
    BY <1>14 DEF DeleteCommit, At
  <1>15. ASSUME NEW t \in Slots, Abort(t) PROVE OneOpenSession'
    BY <1>15 DEF Abort
  <1>16. ASSUME NEW s \in Sessions, Finish(s) PROVE OneOpenSession'
    BY <1>16 DEF Finish
  <1>17. ASSUME NEW n \in unread, ReadInvite(n) PROVE OneOpenSession'
    BY <1>17 DEF ReadInvite
  <1>18. CASE UNCHANGED vars
    BY <1>18 DEF vars
  <1>19. QED
    BY <1>1, <1>2, <1>3, <1>4, <1>5, <1>6, <1>7, <1>8, <1>9, <1>10,
       <1>11, <1>12, <1>13, <1>14, <1>15, <1>16, <1>17, <1>18
       DEF Next, Request, Step

LEMMA RosterAgreedStep == IInv /\ [Next]_vars => RosterAgreed'
  <1> SUFFICES ASSUME IInv, [Next]_vars PROVE RosterAgreed'
    OBVIOUS
  <1>0. TypeOK /\ LobbyHeld /\ RosterLoaded /\ RosterAgreed
    BY DEF IInv
  <1> USE <1>0, LobbyAssumption
      DEF TypeOK, RosterAgreed, LobbyHeld, InLobby, RosterLoaded,
          Accept, Goto, End, LockMembership, rows, membership, locks, local
  <1>1. ASSUME NEW t \in Slots, NEW u \in Users,
               \/ Create(t, u) \/ DeleteAccount(t, u)
               \/ \E s \in Sessions : Join(t, u, s)
               \/ \E v \in Users : Unfriend(t, u, v)
               \/ \E s \in Sessions, v \in Users : Invite(t, u, s, v)
        PROVE  RosterAgreed'
    BY <1>1 DEF Create, DeleteAccount, Join, Unfriend, Invite
  <1>2. ASSUME NEW t \in Slots, NEW s \in Sessions, Start(t, s) \/ Cancel(t, s) PROVE RosterAgreed'
    BY <1>2 DEF Start, Cancel, LockLobby
  <1>3. ASSUME NEW t \in Slots, NEW s \in Sessions, NEW u \in Users, Kick(t, s, u) \/ Leave(t, s, u)
        PROVE  RosterAgreed'
    BY <1>3 DEF Kick, Leave, LockLobby
  <1>4. ASSUME NEW t \in Slots, CreateCommit(t) PROVE RosterAgreed'
    BY <1>4 DEF CreateCommit
  <1>5. ASSUME NEW t \in Slots, JoinRefused(t) \/ JoinAllowed(t) PROVE RosterAgreed'
    BY <1>5 DEF JoinRefused, JoinAllowed, MayJoin, At
  <1>6. ASSUME NEW t \in Slots, JoinCommit(t) PROVE RosterAgreed'
    BY <1>6 DEF JoinCommit, At
  <1>7. ASSUME NEW t \in Slots, StartRows(t) \/ CancelRows(t) PROVE RosterAgreed'
    BY <1>7 DEF StartRows, CancelRows, At
  <1>8. ASSUME NEW t \in Slots, StartCommit(t) PROVE RosterAgreed'
    <2>1. PICK s \in Sessions : s = req[t].session
      BY <1>8 DEF At, StartCommit
    <2>2. pc[t] = "starting"
      BY <1>8 DEF At, StartCommit
    <2>3. roster[t] = participants[s]
      <3>1. participants[s] \subseteq roster[t] /\ roster[t] \subseteq participants[s]
        BY <1>0, <2>1, <2>2 DEF RosterLoaded
      <3>2. QED
        BY ONLY <3>1
    <2>4. /\ status' = [status EXCEPT ![s] = "active"]
          /\ swiping' = [swiping EXCEPT ![s] = roster[t]]
          /\ participants' = participants
      BY <1>8, <2>1 DEF StartCommit
    <2>5. swiping'[s] = participants'[s]
      BY <2>3, <2>4
    <2>6. \A x \in Sessions \ {s} : status'[x] = status[x] /\ swiping'[x] = swiping[x]
      BY <2>4
    <2>7. QED
      BY <2>4, <2>5, <2>6
  <1>9. ASSUME NEW t \in Slots, RemoveCommit(t) PROVE RosterAgreed'
    BY <1>9 DEF RemoveCommit, At
  <1>10. ASSUME NEW t \in Slots, CancelCommit(t) PROVE RosterAgreed'
    BY <1>10 DEF CancelCommit, At
  <1>11. ASSUME NEW t \in Slots, InviteCommit(t) \/ UnfriendCommit(t) PROVE RosterAgreed'
    BY <1>11 DEF InviteCommit, UnfriendCommit, At
  <1>12. ASSUME NEW t \in Slots, DeleteLobbies(t) PROVE RosterAgreed'
    BY <1>12 DEF DeleteLobbies, At
  <1>13. ASSUME NEW t \in Slots, LeaveSessions(t) \/ EraseUser(t) PROVE RosterAgreed'
    BY <1>13 DEF LeaveSessions, EraseUser, At
  <1>14. ASSUME NEW t \in Slots, DeleteCommit(t) PROVE RosterAgreed'
    BY <1>14 DEF DeleteCommit, At
  <1>15. ASSUME NEW t \in Slots, Abort(t) PROVE RosterAgreed'
    BY <1>15 DEF Abort
  <1>16. ASSUME NEW s \in Sessions, Finish(s) PROVE RosterAgreed'
    BY <1>16 DEF Finish
  <1>17. ASSUME NEW n \in unread, ReadInvite(n) PROVE RosterAgreed'
    BY <1>17 DEF ReadInvite
  <1>18. CASE UNCHANGED vars
    BY <1>18 DEF vars
  <1>19. QED
    BY <1>1, <1>2, <1>3, <1>4, <1>5, <1>6, <1>7, <1>8, <1>9, <1>10,
       <1>11, <1>12, <1>13, <1>14, <1>15, <1>16, <1>17, <1>18
       DEF Next, Request, Step

LEMMA HostPresentStep == IInv /\ [Next]_vars => HostPresent'
  <1> SUFFICES ASSUME IInv, [Next]_vars PROVE HostPresent'
    OBVIOUS
  <1>0. TypeOK /\ LobbyHeld /\ Requested /\ HostPresent
    BY DEF IInv
  <1> USE <1>0, LobbyAssumption
      DEF TypeOK, HostPresent, LobbyHeld, InLobby, Requested,
          Accept, Goto, End, LockMembership, rows, membership, locks, local
  <1>1. ASSUME NEW t \in Slots, NEW u \in Users,
               \/ Create(t, u) \/ DeleteAccount(t, u)
               \/ \E s \in Sessions : Join(t, u, s)
               \/ \E v \in Users : Unfriend(t, u, v)
               \/ \E s \in Sessions, v \in Users : Invite(t, u, s, v)
        PROVE  HostPresent'
    BY <1>1 DEF Create, DeleteAccount, Join, Unfriend, Invite
  <1>2. ASSUME NEW t \in Slots, NEW s \in Sessions, Start(t, s) \/ Cancel(t, s) PROVE HostPresent'
    BY <1>2 DEF Start, Cancel, LockLobby
  <1>3. ASSUME NEW t \in Slots, NEW s \in Sessions, NEW u \in Users, Kick(t, s, u) \/ Leave(t, s, u)
        PROVE  HostPresent'
    BY <1>3 DEF Kick, Leave, LockLobby
  <1>4. ASSUME NEW t \in Slots, CreateCommit(t) PROVE HostPresent'
    BY <1>4 DEF CreateCommit
  <1>5. ASSUME NEW t \in Slots, JoinRefused(t) \/ JoinAllowed(t) PROVE HostPresent'
    BY <1>5 DEF JoinRefused, JoinAllowed, MayJoin, At
  <1>6. ASSUME NEW t \in Slots, JoinCommit(t) PROVE HostPresent'
    BY <1>6 DEF JoinCommit, At
  <1>7. ASSUME NEW t \in Slots, StartRows(t) \/ CancelRows(t) PROVE HostPresent'
    BY <1>7 DEF StartRows, CancelRows, At
  <1>8. ASSUME NEW t \in Slots, StartCommit(t) PROVE HostPresent'
    BY <1>8 DEF StartCommit, At
  <1>9. ASSUME NEW t \in Slots, RemoveCommit(t) PROVE HostPresent'
    BY <1>9 DEF RemoveCommit, At
  <1>10. ASSUME NEW t \in Slots, CancelCommit(t) PROVE HostPresent'
    BY <1>10 DEF CancelCommit, At
  <1>11. ASSUME NEW t \in Slots, InviteCommit(t) \/ UnfriendCommit(t) PROVE HostPresent'
    BY <1>11 DEF InviteCommit, UnfriendCommit, At
  <1>12. ASSUME NEW t \in Slots, DeleteLobbies(t) PROVE HostPresent'
    BY <1>12 DEF DeleteLobbies, At
  <1>13. ASSUME NEW t \in Slots, LeaveSessions(t) \/ EraseUser(t) PROVE HostPresent'
    BY <1>13 DEF LeaveSessions, EraseUser, At
  <1>14. ASSUME NEW t \in Slots, DeleteCommit(t) PROVE HostPresent'
    BY <1>14 DEF DeleteCommit, At
  <1>15. ASSUME NEW t \in Slots, Abort(t) PROVE HostPresent'
    BY <1>15 DEF Abort
  <1>16. ASSUME NEW s \in Sessions, Finish(s) PROVE HostPresent'
    BY <1>16 DEF Finish
  <1>17. ASSUME NEW n \in unread, ReadInvite(n) PROVE HostPresent'
    BY <1>17 DEF ReadInvite
  <1>18. CASE UNCHANGED vars
    BY <1>18 DEF vars
  <1>19. QED
    BY <1>1, <1>2, <1>3, <1>4, <1>5, <1>6, <1>7, <1>8, <1>9, <1>10,
       <1>11, <1>12, <1>13, <1>14, <1>15, <1>16, <1>17, <1>18
       DEF Next, Request, Step
--------------------------------------------------------------------------------
(* The theorems.                                                           *)

\* IInv holds in every reachable state.
THEOREM Invariance == Spec => []IInv
  <1>1. IInv /\ [Next]_vars => IInv'
    BY TypeStep, UserLockedStep, StillFreeStep, LobbyHeldStep, RosterLoadedStep, RequestedStep,
       LocksOwnedStep, DeletionsHoldStep, UnbornStep, OneOpenSessionStep, RosterAgreedStep,
       HostPresentStep
       DEF IInv
  <1>2. QED
    BY InvInit, <1>1, PTL DEF Spec

\* Nobody is in two open sessions, for any interleaving of create, join, leave,
\* kick, start and account deletion (session_service.py, _lock_membership).
THEOREM OnePlace == Spec => []OneOpenSession
  <1>1. IInv => OneOpenSession
    BY DEF IInv
  <1>2. QED
    BY Invariance, <1>1, PTL

\* The players of a running session are those start_session loaded.
THEOREM SameRoster == Spec => []RosterAgreed
  <1>1. IInv => RosterAgreed
    BY DEF IInv
  <1>2. QED
    BY Invariance, <1>1, PTL

\* A lobby that lost its host only loses people (session_service.py, join_session:
\* "an open lobby must always have one").
THEOREM HostlessShrinks == Spec => HostlessOnlyShrinks
  <1>1. IInv /\ [Next]_vars
          => [\A s \in Sessions : status[s] = "lobby" /\ host[s] = NoOne
                => status'[s] = "lobby" /\ participants'[s] \subseteq participants[s]]_vars
    <2> SUFFICES ASSUME IInv, Next, NEW s \in Sessions, status[s] = "lobby", host[s] = NoOne
                 PROVE  status'[s] = "lobby" /\ participants'[s] \subseteq participants[s]
      BY DEF vars
    <2>0. TypeOK /\ UserLocked /\ LobbyHeld /\ Requested /\ LocksOwned
      BY DEF IInv
    <2> USE <2>0, LobbyAssumption DEF TypeOK, rows, membership, At
    <2>1. ASSUME NEW t \in Slots,
                 CreateCommit(t) \/ JoinCommit(t) \/ StartCommit(t) \/ CancelCommit(t)
          PROVE  status'[s] = "lobby" /\ participants'[s] \subseteq participants[s]
      BY <2>1 DEF CreateCommit, JoinCommit, StartCommit, CancelCommit, LobbyHeld, InLobby
    <2>2. ASSUME NEW t \in Slots, DeleteCommit(t)
          PROVE  status'[s] = "lobby" /\ participants'[s] \subseteq participants[s]
      <3>1. pc[t] = "gone" /\ req[t].user \in Users
        BY <2>2 DEF DeleteCommit, Requested, Deleting
      <3>2. sessionLock[s] # t
        BY <3>1 DEF LocksOwned, InLobby
      <3>3. QED
        BY <2>2, <3>1, <3>2 DEF DeleteCommit
    <2>3. ASSUME NEW t \in Slots, RemoveCommit(t)
          PROVE  status'[s] = "lobby" /\ participants'[s] \subseteq participants[s]
      BY <2>3 DEF RemoveCommit
    <2>4. ASSUME NEW r \in Sessions, Finish(r)
          PROVE  status'[s] = "lobby" /\ participants'[s] \subseteq participants[s]
      BY <2>4 DEF Finish
    <2>5. ASSUME NEW t \in Slots,
                 Request(t) \/ JoinRefused(t) \/ JoinAllowed(t) \/ StartRows(t) \/ CancelRows(t)
                   \/ InviteCommit(t) \/ UnfriendCommit(t) \/ Abort(t)
                   \/ DeleteLobbies(t) \/ LeaveSessions(t) \/ EraseUser(t)
          PROVE  status'[s] = "lobby" /\ participants'[s] \subseteq participants[s]
      BY <2>5 DEF Request, Create, DeleteAccount, Join, Unfriend, Invite, Start, Kick, Leave, Cancel,
                  LockLobby, JoinRefused, JoinAllowed, StartRows, CancelRows, InviteCommit,
                  UnfriendCommit, Abort, DeleteLobbies, LeaveSessions, EraseUser
    <2>6. CASE \E n \in unread : ReadInvite(n)
      BY <2>6 DEF ReadInvite
    <2>7. QED
      BY <2>1, <2>2, <2>3, <2>4, <2>5, <2>6 DEF Next, Step
  <1>2. QED
    BY Invariance, <1>1, PTL DEF Spec, HostlessOnlyShrinks

\* Every variable keeps its type.
THEOREM TypeCorrect == Spec => []TypeOK
  <1>1. IInv => TypeOK
    BY DEF IInv
  <1>2. QED
    BY Invariance, <1>1, PTL

\* A host who exists is in the own lobby.
THEOREM HostStays == Spec => []HostPresent
  <1>1. IInv => HostPresent
    BY DEF IInv
  <1>2. QED
    BY Invariance, <1>1, PTL
--------------------------------------------------------------------------------
(* Who waits for whom.                                                     *)

\* A request of session_service.py that has locked a lobby waits for deletions only:
\* the rows it needs are the lobby's, and the lobby is its own.
LEMMA OwnersWaitForDeletions ==
    ASSUME IInv, NEW t \in Slots, NEW r \in Slots \ {t}, pc[t] \in InLobby, WaitsFor(t, r)
    PROVE  pc[r] \in Deleting
  <1>0. TypeOK /\ LobbyHeld /\ DeletionsHold
    BY DEF IInv
  <1> DEFINE s == req[t].session
  <1>1. \A v : HoldsRow(r, s, v) => pc[r] \in Deleting
    <2> SUFFICES ASSUME NEW v, HoldsRow(r, s, v) PROVE pc[r] \in Deleting
      OBVIOUS
    <2>1. ~ (pc[r] \in {"starting", "cancelling"} /\ req[r].session = s)
      BY <1>0 DEF LobbyHeld, InLobby
    <2>2. QED
      BY <1>0, <2>1 DEF HoldsRow, DeletionsHold, Deleting
  <1>2. stale[r] # {} => pc[r] \in Deleting
    BY <1>0 DEF DeletionsHold
  <1>3. QED
    BY <1>1, <1>2 DEF WaitsFor, WaitsForRoster, InLobby, Deleting

\* However many requests wait in a circle, one of them deletes an account (join_session,
\* start_session, kick_participant and leave_session in session_service.py, delete_account
\* in user_service.py): without a deletion, only joins wait, and for owners of lobbies.
THEOREM DeletionsDeadlock == Spec => []OnlyDeletionsDeadlock
  <1>1. ASSUME IInv PROVE OnlyDeletionsDeadlock
    <2> SUFFICES ASSUME NEW W \in SUBSET Slots, Stuck(W), \A t \in W : pc[t] \notin Deleting
                 PROVE  FALSE
      BY DEF OnlyDeletionsDeadlock
    <2>0. TypeOK /\ Requested /\ LocksOwned
      BY <1>1 DEF IInv
    <2>1. ASSUME NEW t \in W, NEW r \in W \ {t}, WaitsFor(t, r) PROVE pc[t] = "join"
      <3>1. pc[t] \notin InLobby
        BY <1>1, <2>1, OwnersWaitForDeletions
      <3>2. QED
        BY <2>1, <3>1 DEF WaitsFor, WaitsForRoster, InLobby, Deleting
    <2>2. \A t \in W : pc[t] = "join"
      BY <2>1 DEF Stuck
    <2>3. PICK t \in W : TRUE
      BY DEF Stuck
    <2>4. PICK r \in W \ {t} : WaitsFor(t, r)
      BY DEF Stuck
    <2>5. sessionLock[req[t].session] = r /\ req[t].session \in Sessions
      BY <2>0, <2>2, <2>4 DEF WaitsFor, WaitsForRoster, Requested
    <2>6. pc[r] \in InLobby \cup Deleting
      BY <2>0, <2>5 DEF LocksOwned
    <2>7. QED
      BY <2>2, <2>6 DEF InLobby, Deleting
  <1>2. QED
    BY Invariance, <1>1, PTL
================================================================================
