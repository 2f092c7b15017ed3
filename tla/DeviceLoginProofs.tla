--------------------------- MODULE DeviceLoginProofs ---------------------------
(***************************************************************************)
(* One phone with the login server, for any number of logins, requests,    *)
(* tokens and faults: the server does what LoginSessions allows whatever   *)
(* the phone does, secure storage ends up with what memory holds, and a    *)
(* request travels with a token of the login that made it.                 *)
(***************************************************************************)
EXTENDS DeviceLogin, LoginSessionsProofs

Kept(k)     == k \in issued \cup {NoToken}
States      == [slot : Slots \cup {NoSlot}, answer : TokensOrNone \cup {Refused}, saving : BOOLEAN]
Writes      == [token : TokensOrNone, revision : Nat, from : TokensOrNone, running : BOOLEAN]
Flights     == [token : Tokens, state : States]
CallRecords == [place : {"idle", "sent", "waiting"}, revision : Nat,
                login : Families \cup {NoFamily}, token : TokensOrNone, retry : BOOLEAN]

\* The shape of the phone's state.
StateOK(s) ==
    /\ s \in States
    /\ s.answer \in issued \cup {NoToken, Refused}
    /\ s.saving => s = Saving

WriteOK(w) ==
    /\ w \in Writes /\ Kept(w.token) /\ w.revision <= revision
    /\ w.token = NoToken => w.from = NoToken
    /\ w.from # NoToken => w.token.family = w.from.family

MemoryShaped == /\ Kept(store) /\ Kept(keychain) /\ revision \in Nat
                /\ farewell \subseteq issued /\ stale \subseteq 1..minted /\ faults \in 0..MaxFaults
QueueShaped  == queue \in Seq(Writes) /\ \A i \in 1..Len(queue) : WriteOK(queue[i])
CallsShaped  == call \in [Calls -> CallRecords] /\ \A c \in Calls : Kept(call[c].token)

PhoneShaped  == MemoryShaped /\ QueueShaped /\ CallsShaped /\ StateOK(signing)

\* One refresh for a token; the slot that works on it works on that token's login,
\* and what it has answered belongs to that login.
FlightOK(x) ==
    /\ x \in Flights /\ x.token \in issued /\ StateOK(x.state)
    /\ x.state.answer \in issued => x.state.answer.family = x.token.family
    /\ x.state.slot # NoSlot =>
          /\ pc[x.state.slot] = "locked"
          /\ req[x.state.slot].kind = "refresh" /\ req[x.state.slot].family = x.token.family
FlightsOK ==
    /\ \A x \in flights : FlightOK(x)
    /\ \A x, y \in flights : x.token = y.token => x = y

\* A write of tokens is the last one, for a sign-in that is saving or for the
\* refresh of the token in memory; or it is for a refresh, and a sign-out has been
\* queued behind it.
Pending(w) ==
    /\ w.revision = revision
    /\ w.from = NoToken => store = NoToken /\ signing = Saving
    /\ w.from # NoToken => store = w.from /\ \E x \in flights : x.token = w.from /\ x.state.saving
Overtaken(i) ==
    /\ queue[i].revision < revision /\ queue[i].from # NoToken
    /\ \E j \in 1..Len(queue) : i < j /\ queue[j].token = NoToken
WritesInOrder ==
    \A i \in 1..Len(queue) :
        queue[i].token # NoToken => Overtaken(i) \/ (i = Len(queue) /\ Pending(queue[i]))

SignedOutInQueue == \E i \in 1..Len(queue) : queue[i].token = NoToken

\* Where no sign-out is queued secure storage has what memory had; where one is,
\* memory is empty, as it is while somebody signs in.
StorageFollows ==
    /\ SignedOutInQueue => store = NoToken
    /\ ~ SignedOutInQueue => keychain = store
    /\ signing # NotAsked => store = NoToken

\* An open request has a token of the login that made it, and that login is the one
\* in memory if the revision is still the same.
CallOK(c) ==
    /\ call[c].revision <= revision
    /\ call[c].token \in issued /\ call[c].token.family = call[c].login
    /\ call[c].revision = revision => store # NoToken /\ store.family = call[c].login
CallsOK == \A c \in Calls : call[c].place # "idle" => CallOK(c)

PhoneIInv  == PhoneShaped /\ FlightsOK /\ WritesInOrder /\ StorageFollows /\ CallsOK
DeviceIInv == IInv /\ PhoneIInv
--------------------------------------------------------------------------------
(* The phone uses the server as LoginSessions allows.                      *)

LEMMA Markers ==
    ASSUME IInv
    PROVE  /\ NoToken \notin issued /\ Refused \notin issued /\ NoToken # Refused
           /\ NoSlot \notin Slots /\ minted \in Nat
           /\ \A k \in issued : k \in Tokens /\ k.family \in Families /\ k.id \in 1..minted
PROOF
<1>1. \A k \in issued : k \in Tokens /\ k.family \in Families /\ k.id \in Nat /\ 1 <= k.id /\ k.id <= minted
  BY DEF IInv, LoginTypeOK, TokensOfLogins, Tokens
<1> QED
  BY <1>1, DeviceAssumption DEF IInv, LoginTypeOK

LEMMA AsLoginStep ==
    ASSUME DeviceIInv, DeviceNext
    PROVE  [LoginNext]_loginVars
PROOF
<1>1. ASSUME NEW t \in Slots, NEW u \in Users, SignIn(t, u) PROVE LoginNext
  BY <1>1 DEF SignIn, LoginNext
<1>2. ASSUME NEW k \in farewell, NEW t \in Slots, RevokeLogin(t, k) PROVE LoginNext
  BY <1>2 DEF RevokeLogin, LoginNext, DeviceIInv, PhoneIInv, PhoneShaped, MemoryShaped
<1>3. ASSUME NEW x \in flights, NEW t \in Slots, AskRefresh(t, x) PROVE LoginNext
  BY <1>3 DEF AskRefresh, LoginNext, DeviceIInv, PhoneIInv, FlightsOK, FlightOK
<1>4. ASSUME NEW t \in Slots, Server(t) PROVE LoginNext
  BY <1>4 DEF Server, LoginNext
<1>5. ASSUME NEW t \in Slots, NEW u \in Users, FollowResetLink(t, u) PROVE LoginNext
  <2>1. password[u] \in 0..password[u]
    BY DEF DeviceIInv, IInv, LoginTypeOK
  <2> QED
    BY <1>5, <2>1 DEF FollowResetLink, LoginNext
<1>6. ASSUME NEW c \in Calls, Send(c) \/ Served(c) \/ GiveUp(c) \/ RetryLate(c) \/ AwaitRefresh(c)
      PROVE  UNCHANGED loginVars
  BY <1>6 DEF Send, Served, GiveUp, RetryLate, AwaitRefresh
<1>7. ASSUME NEW x \in flights, RefreshDenied(x) \/ RefreshLost(x) \/ RefreshDropped(x) \/ Refreshed(x)
      PROVE  UNCHANGED loginVars
  BY <1>7 DEF RefreshDenied, RefreshLost, RefreshDropped, Refreshed
<1>8. ASSUME NEW k \in farewell, RevokeNothing(k) PROVE UNCHANGED loginVars
  BY <1>8 DEF RevokeNothing
<1>9. ASSUME SignedIn \/ SignInLost \/ PressSignOut \/ StartWrite \/ EndWrite \/ SkipWrite
             \/ FailWrite \/ AgeAccess \/ Restart
      PROVE  UNCHANGED loginVars
  BY <1>9 DEF SignedIn, SignInLost, PressSignOut, StartWrite, EndWrite, SkipWrite, FailWrite,
              AgeAccess, Restart
<1> QED
  BY <1>1, <1>2, <1>3, <1>4, <1>5, <1>6, <1>7, <1>8, <1>9 DEF DeviceNext

\* A token in memory: no sign-out is queued, and at most its own refresh is being
\* saved.
LEMMA InMemory ==
    ASSUME DeviceIInv, store # NoToken
    PROVE  /\ store \in issued /\ keychain = store /\ signing = NotAsked
           /\ \A i \in 1..Len(queue) :
                 /\ queue[i].token # NoToken /\ i = Len(queue) /\ Pending(queue[i])
                 /\ queue[i].from = store
PROOF
<1>1. store \in issued /\ keychain = store /\ signing = NotAsked /\ ~ SignedOutInQueue
  BY DEF DeviceIInv, PhoneIInv, PhoneShaped, MemoryShaped, Kept, StorageFollows
<1>2. \A i \in 1..Len(queue) : queue[i].token # NoToken /\ ~ Overtaken(i)
  BY <1>1 DEF SignedOutInQueue, Overtaken
<1>3. \A i \in 1..Len(queue) : i = Len(queue) /\ Pending(queue[i])
  BY <1>2 DEF DeviceIInv, PhoneIInv, WritesInOrder
<1> QED
  BY <1>1, <1>2, <1>3 DEF Pending

\* No token in memory: only a sign-in may still be saving something that counts.
LEMMA NotInMemory ==
    ASSUME DeviceIInv, store = NoToken
    PROVE  \A i \in 1..Len(queue) :
               /\ queue[i].token # NoToken /\ queue[i].from # NoToken => Overtaken(i)
               /\ queue[i].token # NoToken /\ queue[i].from = NoToken =>
                     i = Len(queue) /\ Pending(queue[i]) /\ signing = Saving
PROOF
  BY DEF DeviceIInv, PhoneIInv, WritesInOrder, Pending, Overtaken
--------------------------------------------------------------------------------
(* Preservation.  First the flights: only the slot that works on one can       *)
(* disturb it.                                                             *)

\* Slots that begin were idle, and an idle slot works for no flight.
LEMMA FlightsElsewhere ==
    ASSUME DeviceIInv, UNCHANGED issued,
           \/ UNCHANGED <<pc, req>>
           \/ \E t \in Slots : pc[t] = "idle" /\ \A s \in Slots : s # t => pc'[s] = pc[s] /\ req'[s] = req[s]
    PROVE  \A x \in flights : FlightOK(x)'
PROOF
<1>1. SUFFICES ASSUME NEW x \in flights PROVE FlightOK(x)'
  OBVIOUS
<1>2. FlightOK(x)
  BY <1>1 DEF DeviceIInv, PhoneIInv, FlightsOK
<1>3. x.state.slot # NoSlot => x.state.slot \in Slots
  BY <1>2 DEF FlightOK, StateOK, States
<1>4. StateOK(x.state)'
  BY <1>2 DEF FlightOK, StateOK
<1> QED
  BY <1>2, <1>3, <1>4 DEF FlightOK

\* A request that begins at slot t leaves the requests of the others alone.
LEMMA AcceptElsewhere ==
    ASSUME IInv, NEW t \in Slots, NEW r, NEW place, Accept(t, r, place)
    PROVE  /\ pc[t] = "idle" /\ pc'[t] = place /\ req'[t] = r
           /\ \A s \in Slots : s # t => pc'[s] = pc[s] /\ req'[s] = req[s]
PROOF
  BY DEF Accept, IInv, LoginTypeOK

\* The phone's own state has its shape whatever else is issued.
LEMMA ShapeStays ==
    ASSUME DeviceIInv, issued \subseteq issued', minted' \in Nat, minted <= minted',
           UNCHANGED <<store, keychain, revision, queue, call, farewell, stale, faults>>
    PROVE  MemoryShaped' /\ QueueShaped' /\ CallsShaped' /\ CallsOK'
PROOF
<1>1. minted \in Nat
  BY Markers DEF DeviceIInv
<1>2. MemoryShaped'
  BY <1>1 DEF DeviceIInv, PhoneIInv, PhoneShaped, MemoryShaped, Kept
<1>3. \A w : WriteOK(w) => WriteOK(w)'
  BY DEF WriteOK, Kept
<1>4. QueueShaped'
  BY <1>3 DEF DeviceIInv, PhoneIInv, PhoneShaped, QueueShaped
<1>5. CallsShaped' /\ CallsOK'
  BY DEF DeviceIInv, PhoneIInv, PhoneShaped, CallsShaped, Kept, CallsOK, CallOK
<1> QED
  BY <1>2, <1>4, <1>5

\* The server takes up a request, or the phone's memory is not touched at all.
LEMMA AskedSteps ==
    ASSUME DeviceIInv, NEW t \in Slots, NEW r, NEW place, Accept(t, r, place),
           UNCHANGED <<logs, store, keychain, revision, queue, signing, flights, call, stale, faults>>,
           farewell' \subseteq farewell
    PROVE  PhoneIInv'
PROOF
<1>1. \A x \in flights : FlightOK(x)'
  BY AcceptElsewhere, FlightsElsewhere DEF DeviceIInv, logs
<1>2. FlightsOK'
  BY <1>1 DEF DeviceIInv, PhoneIInv, FlightsOK
<1>3. MemoryShaped' /\ QueueShaped' /\ CallsShaped' /\ CallsOK'
  BY DEF DeviceIInv, PhoneIInv, PhoneShaped, MemoryShaped, QueueShaped, CallsShaped, CallsOK, CallOK, Kept,
         WriteOK, logs
<1>4. StateOK(signing)' /\ WritesInOrder' /\ StorageFollows'
  BY DEF DeviceIInv, PhoneIInv, PhoneShaped, StateOK, WritesInOrder, Overtaken, Pending, StorageFollows,
         SignedOutInQueue, logs
<1> QED
  BY <1>2, <1>3, <1>4 DEF PhoneIInv, PhoneShaped

LEMMA SignInStep ==
    ASSUME DeviceIInv, NEW t \in Slots, NEW u \in Users, SignIn(t, u)
    PROVE  PhoneIInv'
PROOF
<1>1. /\ store = NoToken /\ signing = NotAsked /\ signing' = Asked(t)
      /\ Accept(t, LoginRequest(u), "verified")
      /\ UNCHANGED <<issued, minted, store, keychain, revision, queue, flights, call, farewell, stale, faults>>
  BY DEF SignIn, Login, logs
<1>2. \A x \in flights : FlightOK(x)'
  BY <1>1, AcceptElsewhere, FlightsElsewhere DEF DeviceIInv
<1>3. FlightsOK'
  BY <1>1, <1>2 DEF DeviceIInv, PhoneIInv, FlightsOK
<1>4. MemoryShaped' /\ QueueShaped' /\ CallsShaped' /\ CallsOK'
  BY <1>1, Markers, ShapeStays DEF DeviceIInv
<1>5. StateOK(signing)'
  BY <1>1 DEF StateOK, States, Asked, NotAsked, TokensOrNone
<1>6. WritesInOrder'
  <2>1. \A i \in 1..Len(queue) : queue[i].token # NoToken => Overtaken(i)
    BY <1>1, NotInMemory DEF Saving, NotAsked
  <2> QED
    BY <1>1, <2>1 DEF WritesInOrder, Overtaken
<1>7. StorageFollows'
  BY <1>1 DEF DeviceIInv, PhoneIInv, StorageFollows, SignedOutInQueue
<1> QED
  BY <1>3, <1>4, <1>5, <1>6, <1>7 DEF PhoneIInv, PhoneShaped

\* A write is appended to the queue.
LEMMA Appended ==
    ASSUME NEW q \in Seq(Writes), NEW w \in Writes
    PROVE  /\ Append(q, w) \in Seq(Writes) /\ Len(Append(q, w)) = Len(q) + 1 /\ Len(q) \in Nat
           /\ Append(q, w)[Len(q) + 1] = w
           /\ \A i \in 1..Len(q) : Append(q, w)[i] = q[i] /\ i \in 1..Len(q) + 1
PROOF
  OBVIOUS

LEMMA SignedInStep ==
    ASSUME DeviceIInv, SignedIn
    PROVE  PhoneIInv'
PROOF
<1> DEFINE n == Len(queue)
<1>0. PICK w : w = [token |-> signing.answer, revision |-> revision + 1, from |-> NoToken, running |-> FALSE]
  OBVIOUS
<1>1. /\ signing.answer \in issued /\ revision' = revision + 1 /\ queue' = Append(queue, w)
      /\ signing' = Saving
      /\ UNCHANGED <<issued, minted, pc, req, store, keychain, flights, call, farewell, stale, faults>>
  BY <1>0 DEF SignedIn, Enqueue, loginVars
<1>2. signing # NotAsked /\ signing # Saving /\ store = NoToken /\ revision \in Nat
  BY <1>1, Markers
  DEF DeviceIInv, PhoneIInv, PhoneShaped, MemoryShaped, StorageFollows, NotAsked, Saving
<1>3. /\ w \in Writes /\ w.token # NoToken /\ w.token \in issued
      /\ w.from = NoToken /\ w.revision = revision + 1
  BY <1>0, <1>1, <1>2, Markers DEF Writes, TokensOrNone, DeviceIInv
<1>4. queue \in Seq(Writes)
  BY DEF DeviceIInv, PhoneIInv, PhoneShaped, QueueShaped
<1>5. /\ queue' \in Seq(Writes) /\ Len(queue') = n + 1 /\ n \in Nat /\ queue'[n + 1] = w
      /\ \A i \in 1..n : queue'[i] = queue[i] /\ i \in 1..n + 1
  BY <1>1, <1>3, <1>4, Appended
<1>6. MemoryShaped'
  BY <1>1, <1>2 DEF DeviceIInv, PhoneIInv, PhoneShaped, MemoryShaped, Kept
<1>7. QueueShaped'
  <2>1. WriteOK(w)'
    BY <1>1, <1>2, <1>3 DEF WriteOK, Kept
  <2>2. \A i \in 1..n : WriteOK(queue[i])'
    BY <1>1, <1>2 DEF DeviceIInv, PhoneIInv, PhoneShaped, QueueShaped, WriteOK, Kept, Writes
  <2>3. \A i \in 1..n + 1 : i \in 1..n \/ i = n + 1
    BY <1>5
  <2> QED
    BY <1>5, <2>1, <2>2, <2>3 DEF QueueShaped
<1>8. CallsShaped' /\ CallsOK'
  <2>1. \A c \in Calls : call[c].revision \in Nat
    BY DEF DeviceIInv, PhoneIInv, PhoneShaped, CallsShaped, CallRecords
  <2> QED
    BY <1>1, <1>2, <2>1
    DEF DeviceIInv, PhoneIInv, PhoneShaped, CallsShaped, Kept, CallsOK, CallOK
<1>9. StateOK(signing)'
  BY <1>1 DEF StateOK, States, Saving, NotAsked, TokensOrNone
<1>10. FlightsOK'
  BY <1>1, FlightsElsewhere DEF DeviceIInv, PhoneIInv, FlightsOK
<1>11. WritesInOrder'
  <2>1. \A i \in 1..n : queue[i].token # NoToken => Overtaken(i)
    BY <1>2, NotInMemory
  <2>2. \A i \in 1..n : queue[i].revision \in Nat
    BY DEF DeviceIInv, PhoneIInv, PhoneShaped, QueueShaped, WriteOK, Writes
  <2>3. \A i \in 1..n : Overtaken(i) => Overtaken(i)'
    BY <1>1, <1>2, <1>5, <2>2 DEF Overtaken
  <2>4. Pending(w)'
    BY <1>1, <1>2, <1>3 DEF Pending
  <2>5. \A i \in 1..n + 1 : i \in 1..n \/ i = n + 1
    BY <1>5
  <2> QED
    BY <1>5, <2>1, <2>3, <2>4, <2>5 DEF WritesInOrder
<1>12. StorageFollows'
  <2>1. SignedOutInQueue' <=> SignedOutInQueue
    <3>1. \A i \in 1..n + 1 : i \in 1..n \/ i = n + 1
      BY <1>5
    <3> QED
      BY <1>3, <1>5, <3>1 DEF SignedOutInQueue
  <2> QED
    BY <1>1, <1>2, <2>1 DEF DeviceIInv, PhoneIInv, StorageFollows
<1> QED
  BY <1>6, <1>7, <1>8, <1>9, <1>10, <1>11, <1>12 DEF PhoneIInv, PhoneShaped

LEMMA FaultsBounded ==
    ASSUME DeviceIInv, Fault \/ UNCHANGED faults
    PROVE  faults' \in 0..MaxFaults
PROOF
<1>1. faults \in 0..MaxFaults /\ crashes \in Nat /\ MaxFaults \in Nat
  BY LoginAssumption, DeviceAssumption
  DEF DeviceIInv, IInv, LoginTypeOK, PhoneIInv, PhoneShaped, MemoryShaped
<1> QED
  BY <1>1 DEF Fault, MayFail

LEMMA SignInLostStep ==
    ASSUME DeviceIInv, SignInLost
    PROVE  PhoneIInv'
PROOF
<1>1. /\ signing # NotAsked /\ signing # Saving /\ signing' = NotAsked
      /\ UNCHANGED <<issued, minted, pc, req, store, keychain, revision, queue, flights, call, farewell, stale>>
  BY DEF SignInLost, loginVars, Saving, NotAsked
<1>2. faults' \in 0..MaxFaults
  BY FaultsBounded DEF SignInLost
<1>3. MemoryShaped' /\ QueueShaped' /\ CallsShaped' /\ CallsOK'
  BY <1>1, <1>2
  DEF DeviceIInv, PhoneIInv, PhoneShaped, MemoryShaped, QueueShaped, CallsShaped, CallsOK, CallOK, Kept,
      WriteOK
<1>4. StateOK(signing)'
  BY <1>1 DEF StateOK, States, NotAsked, TokensOrNone
<1>5. FlightsOK'
  BY <1>1, FlightsElsewhere DEF DeviceIInv, PhoneIInv, FlightsOK
<1>6. WritesInOrder' /\ StorageFollows'
  BY <1>1 DEF DeviceIInv, PhoneIInv, WritesInOrder, Overtaken, Pending, StorageFollows, SignedOutInQueue
<1> QED
  BY <1>3, <1>4, <1>5, <1>6 DEF PhoneIInv, PhoneShaped

\* A sign-out overtakes every write that is in the queue, and every request.
LEMMA SignOutStep ==
    ASSUME DeviceIInv, store \in issued, NEW q \in Seq(Writes), SignOut(q),
           \A i \in 1..Len(q) : WriteOK(q[i]) /\ q[i].from = store,
           UNCHANGED <<issued, minted, pc, req, keychain, signing, stale>>,
           faults' \in 0..MaxFaults, flights' \subseteq flights,
           call' \in [Calls -> CallRecords],
           \A c \in Calls : call'[c] \in {call[c], NoCall}
    PROVE  PhoneIInv'
PROOF
<1> DEFINE n == Len(q)
<1>1. PICK w : w = [token |-> NoToken, revision |-> revision + 1, from |-> NoToken, running |-> FALSE]
  OBVIOUS
<1>2. /\ revision' = revision + 1 /\ store' = NoToken /\ queue' = Append(q, w)
      /\ farewell' = farewell \cup {store} /\ revision \in Nat
  BY <1>1 DEF SignOut, Enqueue, DeviceIInv, PhoneIInv, PhoneShaped, MemoryShaped
<1>3. w \in Writes /\ w.token = NoToken /\ w.from = NoToken /\ w.revision = revision + 1
  BY <1>1, <1>2 DEF Writes, TokensOrNone
<1>4. /\ queue' \in Seq(Writes) /\ Len(queue') = n + 1 /\ n \in Nat /\ queue'[n + 1] = w
      /\ \A i \in 1..n : queue'[i] = q[i] /\ i \in 1..n + 1
  BY <1>2, <1>3, Appended
<1>5. \A i \in 1..n + 1 : i \in 1..n \/ i = n + 1
  BY <1>4
<1>6. MemoryShaped'
  BY <1>2 DEF DeviceIInv, PhoneIInv, PhoneShaped, MemoryShaped, Kept
<1>7. QueueShaped'
  <2>1. WriteOK(w)'
    BY <1>2, <1>3 DEF WriteOK, Kept
  <2>2. \A i \in 1..n : WriteOK(q[i])'
    BY <1>2 DEF WriteOK, Kept, Writes
  <2> QED
    BY <1>4, <1>5, <2>1, <2>2 DEF QueueShaped
<1>8. CallsShaped' /\ CallsOK'
  <2>1. \A c \in Calls : call[c].revision \in Nat
    BY DEF DeviceIInv, PhoneIInv, PhoneShaped, CallsShaped, CallRecords
  <2>2. NoCall.place = "idle" /\ NoCall.token = NoToken
    BY DEF NoCall
  <2>3. CallsShaped'
    BY <2>2 DEF DeviceIInv, PhoneIInv, PhoneShaped, CallsShaped, Kept
  <2>4. CallsOK'
    BY <1>2, <2>1, <2>2 DEF DeviceIInv, PhoneIInv, CallsOK, CallOK
  <2> QED
    BY <2>3, <2>4
<1>9. StateOK(signing)'
  BY DEF DeviceIInv, PhoneIInv, PhoneShaped, StateOK
<1>10. FlightsOK'
  BY FlightsElsewhere DEF DeviceIInv, PhoneIInv, FlightsOK
<1>11. WritesInOrder'
  <2>1. ASSUME NEW i \in 1..n
        PROVE  q[i].revision \in Nat /\ q[i].revision < revision + 1 /\ q[i].from # NoToken
    <3>1. store # NoToken
      BY Markers DEF DeviceIInv
    <3>2. q[i] \in Writes /\ q[i].revision <= revision /\ q[i].from = store
      BY DEF WriteOK
    <3>3. q[i].revision \in Nat
      BY <3>2 DEF Writes
    <3> QED
      BY <1>2, <3>1, <3>2, <3>3
  <2>2. \A i \in 1..n : Overtaken(i)'
    BY <1>2, <1>3, <1>4, <2>1 DEF Overtaken
  <2> QED
    BY <1>3, <1>4, <1>5, <2>2 DEF WritesInOrder
<1>12. StorageFollows'
  BY <1>2, <1>3, <1>4 DEF StorageFollows, SignedOutInQueue
<1> QED
  BY <1>6, <1>7, <1>8, <1>9, <1>10, <1>11, <1>12 DEF PhoneIInv, PhoneShaped

LEMMA PressSignOutStep ==
    ASSUME DeviceIInv, PressSignOut
    PROVE  PhoneIInv'
PROOF
<1>1. /\ store # NoToken /\ SignOut(queue)
      /\ UNCHANGED <<issued, minted, pc, req, keychain, signing, stale, faults, flights, call>>
  BY DEF PressSignOut, loginVars
<1>2. /\ queue \in Seq(Writes) /\ \A i \in 1..Len(queue) : WriteOK(queue[i])
      /\ call \in [Calls -> CallRecords] /\ faults \in 0..MaxFaults
  BY DEF DeviceIInv, PhoneIInv, PhoneShaped, QueueShaped, CallsShaped, MemoryShaped
<1>3. store \in issued /\ \A i \in 1..Len(queue) : queue[i].from = store
  BY <1>1, InMemory
<1> QED
  BY <1>1, <1>2, <1>3, SignOutStep

\* The head of the queue is done.
LEMMA HeadDone ==
    ASSUME DeviceIInv, queue # <<>>
    PROVE  /\ Tail(queue) \in Seq(Writes) /\ Len(queue) \in Nat /\ 1 \in 1..Len(queue)
           /\ Head(queue) = queue[1] /\ WriteOK(queue[1])
           /\ Len(Tail(queue)) = Len(queue) - 1
           /\ \A i \in 1..Len(queue) - 1 : Tail(queue)[i] = queue[i + 1] /\ i + 1 \in 1..Len(queue)
           /\ \A i \in 2..Len(queue) : i - 1 \in 1..Len(queue) - 1
           /\ \A i \in 1..Len(Tail(queue)) : WriteOK(Tail(queue)[i])
PROOF
<1>1. queue \in Seq(Writes) /\ \A i \in 1..Len(queue) : WriteOK(queue[i])
  BY DEF DeviceIInv, PhoneIInv, PhoneShaped, QueueShaped
<1>2. /\ Tail(queue) \in Seq(Writes) /\ Len(queue) \in Nat /\ 1 \in 1..Len(queue)
      /\ Head(queue) = queue[1] /\ Len(Tail(queue)) = Len(queue) - 1
      /\ \A i \in 1..Len(queue) - 1 : Tail(queue)[i] = queue[i + 1] /\ i + 1 \in 1..Len(queue)
      /\ \A i \in 2..Len(queue) : i - 1 \in 1..Len(queue) - 1
  BY <1>1
<1> QED
  BY <1>1, <1>2

\* What is behind it keeps its place in the order.
LEMMA TailInOrder ==
    ASSUME DeviceIInv, queue # <<>>, queue' = Tail(queue), UNCHANGED <<revision, issued>>
    PROVE  /\ QueueShaped'
           /\ \A i \in 1..Len(queue') : Overtaken(i + 1) => Overtaken(i)'
           /\ queue[1].token # NoToken => (SignedOutInQueue' <=> SignedOutInQueue)
           /\ SignedOutInQueue' => SignedOutInQueue
PROOF
<1> DEFINE n == Len(queue)
<1>1. /\ queue' \in Seq(Writes) /\ n \in Nat /\ 1 \in 1..n /\ Len(queue') = n - 1
      /\ \A i \in 1..n - 1 : queue'[i] = queue[i + 1] /\ i + 1 \in 1..n
      /\ \A i \in 2..n : i - 1 \in 1..n - 1 /\ queue'[i - 1] = queue[i]
      /\ \A i \in 1..Len(queue') : WriteOK(queue'[i])
  <2>1. \A i \in 2..Len(queue) : (i - 1) + 1 = i
    OBVIOUS
  <2> QED
    BY <2>1, HeadDone
<1>2. QueueShaped'
  BY <1>1 DEF QueueShaped, WriteOK, Kept
<1>3. ASSUME NEW i \in 1..n - 1, Overtaken(i + 1) PROVE Overtaken(i)'
  <2>1. PICK j \in 1..n : i + 1 < j /\ queue[j].token = NoToken
    BY <1>3 DEF Overtaken
  <2>2. j \in 2..n /\ i < j - 1
    BY <1>1, <2>1
  <2> QED
    BY <1>1, <1>3, <2>1, <2>2 DEF Overtaken
<1>4. SignedOutInQueue' => SignedOutInQueue
  BY <1>1 DEF SignedOutInQueue
<1>5. ASSUME queue[1].token # NoToken, SignedOutInQueue PROVE SignedOutInQueue'
  <2>1. PICK i \in 1..n : queue[i].token = NoToken
    BY <1>5 DEF SignedOutInQueue
  <2>2. i \in 2..n
    BY <1>1, <1>5, <2>1
  <2>3. i - 1 \in 1..Len(queue') /\ queue'[i - 1].token = NoToken
    BY <1>1, <2>1, <2>2
  <2> QED
    BY <2>3 DEF SignedOutInQueue
<1> QED
  BY <1>1, <1>2, <1>3, <1>4, <1>5

\* With memory empty, what is behind the head is as it was.
LEMMA TailWrites ==
    ASSUME DeviceIInv, queue # <<>>, queue' = Tail(queue), store = NoToken,
           UNCHANGED <<revision, issued, store, signing>>
    PROVE  WritesInOrder'
PROOF
<1>1. ASSUME NEW i \in 1..Len(queue'), queue'[i].token # NoToken
      PROVE  Overtaken(i)' \/ (i = Len(queue') /\ Pending(queue[i])')
  <2>1. PICK n \in Nat : n = Len(queue) /\ Len(queue') = n - 1 /\ i \in 1..n - 1
    <3>1. Len(queue') = Len(queue) - 1 /\ Len(queue) \in Nat /\ i \in 1..Len(queue) - 1
      BY <1>1, HeadDone
    <3> QED
      BY <3>1
  <2>2. i + 1 \in 1..Len(queue) /\ queue'[i] = queue[i + 1]
    BY <2>1, HeadDone
  <2>3. Overtaken(i + 1) \/ (i + 1 = Len(queue) /\ Pending(queue[i + 1]) /\ queue[i + 1].from = NoToken)
    BY <1>1, <2>2, NotInMemory
  <2>4. CASE Overtaken(i + 1)
    BY <1>1, <2>4, TailInOrder
  <2>5. CASE i + 1 = Len(queue) /\ Pending(queue[i + 1]) /\ queue[i + 1].from = NoToken
    <3>1. i = Len(queue')
      <4>1. i + 1 = n
        BY <2>1, <2>5
      <4>2. i = n - 1
        BY <2>1, <4>1
      <4> QED
        BY <2>1, <4>2
    <3>2. PICK w : w = queue[i + 1]
      OBVIOUS
    <3>3. Pending(w)'
      BY <2>5, <3>2 DEF Pending
    <3> QED
      BY <2>2, <3>1, <3>2, <3>3 DEF Pending
  <2> QED
    BY <2>3, <2>4, <2>5
<1> QED
  BY <1>1 DEF WritesInOrder

\* A refresh that has failed signs out only where its token is in memory; otherwise
\* the queue may lose its head with it, a write for this very refresh.
LEMMA RejectStep ==
    ASSUME DeviceIInv, NEW x \in flights, NEW q, Reject(x, q),
           \/ q = queue
           \/ /\ q = Tail(queue) /\ queue # <<>>
              /\ queue[1].token # NoToken /\ queue[1].from = x.token,
           UNCHANGED <<issued, minted, pc, req, keychain, signing, stale>>,
           faults' \in 0..MaxFaults
    PROVE  PhoneIInv'
PROOF
<1>1. x.token \in issued /\ x.token # NoToken
  BY Markers DEF DeviceIInv, PhoneIInv, FlightsOK, FlightOK
<1>2. queue \in Seq(Writes) /\ \A i \in 1..Len(queue) : WriteOK(queue[i])
  BY DEF DeviceIInv, PhoneIInv, PhoneShaped, QueueShaped
<1>3. q \in Seq(Writes) /\ \A i \in 1..Len(q) : WriteOK(q[i]) /\ \E j \in 1..Len(queue) : q[i] = queue[j]
  BY <1>2, HeadDone
<1>4. /\ call' \in [Calls -> CallRecords] /\ flights' = flights \ {x}
      /\ \A c \in Calls : call'[c] \in {call[c], NoCall}
  <2>1. call \in [Calls -> CallRecords] /\ NoCall \in CallRecords
    BY DEF DeviceIInv, PhoneIInv, PhoneShaped, CallsShaped, CallRecords, NoCall, TokensOrNone
  <2> QED
    BY <2>1 DEF Reject
<1>5. CASE store = x.token
  <2>1. SignOut(q)
    BY <1>5 DEF Reject
  <2>2. \A i \in 1..Len(q) : q[i].from = store
    BY <1>1, <1>3, <1>5, InMemory
  <2> QED
    BY <1>1, <1>3, <1>4, <1>5, <2>1, <2>2, SignOutStep
<1>6. CASE store # x.token
  <2>1. queue' = q /\ UNCHANGED <<store, revision, farewell>>
    BY <1>6 DEF Reject
  <2>2. MemoryShaped' /\ StateOK(signing)'
    BY <2>1 DEF DeviceIInv, PhoneIInv, PhoneShaped, MemoryShaped, Kept, StateOK
  <2>3. CallsShaped' /\ CallsOK'
    <3>1. NoCall.place = "idle" /\ NoCall.token = NoToken
      BY DEF NoCall
    <3> QED
      BY <1>4, <2>1, <3>1
      DEF DeviceIInv, PhoneIInv, PhoneShaped, CallsShaped, CallsOK, CallOK, Kept
  <2>4. FlightsOK'
    BY <1>4, FlightsElsewhere DEF DeviceIInv, PhoneIInv, FlightsOK
  <2>5. QueueShaped'
    BY <1>3, <2>1 DEF QueueShaped, WriteOK, Kept
  <2>6. WritesInOrder' /\ StorageFollows'
    <3>1. CASE q = queue
      <4>1. \A w : Pending(w) => Pending(w)'
        BY <1>4, <1>6, <2>1 DEF Pending
      <4> QED
        BY <2>1, <3>1, <4>1
        DEF DeviceIInv, PhoneIInv, WritesInOrder, Overtaken, StorageFollows, SignedOutInQueue
    <3>2. CASE q = Tail(queue) /\ queue # <<>> /\ queue[1].token # NoToken /\ queue[1].from = x.token
      <4>1. 1 \in 1..Len(queue)
        BY <3>2, HeadDone
      <4>2. store = NoToken
        BY <1>6, <3>2, <4>1, InMemory
      <4>3. WritesInOrder'
        BY <2>1, <3>2, <4>2, TailWrites
      <4>4. StorageFollows'
        <5>1. SignedOutInQueue' <=> SignedOutInQueue
          BY <2>1, <3>2, TailInOrder
        <5> QED
          BY <2>1, <5>1 DEF DeviceIInv, PhoneIInv, StorageFollows
      <4> QED
        BY <4>3, <4>4
    <3> QED
      BY <3>1, <3>2
  <2> QED
    BY <2>2, <2>3, <2>4, <2>5, <2>6 DEF PhoneIInv, PhoneShaped
<1> QED
  BY <1>5, <1>6

LEMMA RejectedSteps ==
    ASSUME DeviceIInv, NEW x \in flights, RefreshDenied(x) \/ RefreshLost(x) \/ RefreshDropped(x)
    PROVE  PhoneIInv'
PROOF
<1>1. Reject(x, queue) /\ UNCHANGED <<issued, minted, pc, req, keychain, signing, stale>>
  BY DEF RefreshDenied, RefreshLost, RefreshDropped, loginVars
<1>2. faults' \in 0..MaxFaults
  BY FaultsBounded DEF RefreshDenied, RefreshLost, RefreshDropped
<1> QED
  BY <1>1, <1>2, RejectStep

LEMMA FailWriteStep ==
    ASSUME DeviceIInv, FailWrite
    PROVE  PhoneIInv'
PROOF
<1>1. /\ queue # <<>> /\ Head(queue) = queue[1] /\ queue[1].token # NoToken /\ 1 \in 1..Len(queue)
      /\ UNCHANGED <<issued, minted, pc, req, keychain, stale>>
  BY HeadDone DEF FailWrite, loginVars
<1>2. faults' \in 0..MaxFaults
  BY FaultsBounded DEF FailWrite
<1>3. CASE /\ queue[1].from = NoToken /\ signing' = NotAsked /\ queue' = Tail(queue)
           /\ UNCHANGED <<store, revision, flights, call, farewell>>
  <2>1. store = NoToken
    BY <1>1, <1>3, InMemory
  <2>2. 1 = Len(queue)
    BY <1>1, <1>3, <2>1, NotInMemory
  <2>3. Len(queue') = 0
    BY <1>1, <1>3, <2>2, HeadDone
  <2>4. MemoryShaped' /\ CallsShaped' /\ CallsOK' /\ QueueShaped'
    BY <1>1, <1>2, <1>3, TailInOrder
    DEF DeviceIInv, PhoneIInv, PhoneShaped, MemoryShaped, CallsShaped, CallsOK, CallOK, Kept
  <2>5. StateOK(signing)'
    BY <1>3 DEF StateOK, States, NotAsked, TokensOrNone
  <2>6. FlightsOK'
    BY <1>1, <1>3, FlightsElsewhere DEF DeviceIInv, PhoneIInv, FlightsOK
  <2>7. WritesInOrder'
    BY <2>3 DEF WritesInOrder
  <2>8. StorageFollows'
    <3>1. SignedOutInQueue' <=> SignedOutInQueue
      BY <1>1, <1>3, TailInOrder
    <3> QED
      BY <1>1, <1>3, <2>1, <3>1 DEF DeviceIInv, PhoneIInv, StorageFollows
  <2> QED
    BY <2>4, <2>5, <2>6, <2>7, <2>8 DEF PhoneIInv, PhoneShaped
<1>4. ASSUME NEW x \in flights, queue[1].from = x.token, Reject(x, Tail(queue)), UNCHANGED signing
      PROVE  PhoneIInv'
  BY <1>1, <1>2, <1>4, RejectStep
<1> QED
  BY <1>1, <1>3, <1>4 DEF FailWrite

\* A flight goes on in another state.
LEMMA FlightGoesOn ==
    ASSUME FlightsOK, NEW x \in flights, NEW y, y.token = x.token, flights' = (flights \ {x}) \cup {y},
           FlightOK(y)', \A z \in flights : FlightOK(z)'
    PROVE  FlightsOK'
PROOF
  BY DEF FlightsOK

LEMMA RefreshedStep ==
    ASSUME DeviceIInv, NEW x \in flights, Refreshed(x)
    PROVE  PhoneIInv'
PROOF
<1> DEFINE y == [x EXCEPT !.state = Saving]
<1>1. PICK w : w = [token |-> x.state.answer, revision |-> revision, from |-> x.token, running |-> FALSE]
  OBVIOUS
<1>2. /\ x.state.answer \in issued /\ store = x.token /\ queue' = Append(queue, w)
      /\ flights' = (flights \ {x}) \cup {y}
      /\ UNCHANGED <<issued, minted, pc, req, store, keychain, revision, signing, call, farewell, stale, faults>>
  BY <1>1 DEF Refreshed, Enqueue, loginVars
<1>3. /\ FlightOK(x) /\ x.token \in issued /\ x.state.answer.family = x.token.family
      /\ store # NoToken /\ x.state.answer # NoToken
  BY <1>2, Markers DEF DeviceIInv, PhoneIInv, FlightsOK, FlightOK
<1>4. ~ x.state.saving
  BY <1>2, <1>3, Markers DEF DeviceIInv, FlightOK, StateOK, Saving, NotAsked
<1>5. Len(queue) = 0 /\ queue = <<>>
  <2>1. ASSUME NEW i \in 1..Len(queue) PROVE FALSE
    <3>1. queue[i].from = x.token /\ \E z \in flights : z.token = x.token /\ z.state.saving
      BY <1>2, <1>3, InMemory DEF Pending
    <3> QED
      BY <1>4, <3>1 DEF DeviceIInv, PhoneIInv, FlightsOK
  <2> QED
    BY <2>1 DEF DeviceIInv, PhoneIInv, PhoneShaped, QueueShaped
<1>6. w \in Writes /\ revision \in Nat
  BY <1>1, <1>2, <1>3, Markers
  DEF DeviceIInv, PhoneIInv, PhoneShaped, MemoryShaped, Writes, TokensOrNone
<1>7. queue' = <<w>> /\ Len(queue') = 1 /\ queue'[1] = w /\ queue' \in Seq(Writes)
  BY <1>2, <1>5, <1>6
<1>8. MemoryShaped' /\ CallsShaped' /\ CallsOK' /\ StateOK(signing)'
  BY <1>2
  DEF DeviceIInv, PhoneIInv, PhoneShaped, MemoryShaped, CallsShaped, CallsOK, CallOK, Kept, StateOK
<1>9. QueueShaped'
  <2>1. WriteOK(w)'
    BY <1>1, <1>2, <1>3, <1>6 DEF WriteOK, Kept
  <2> QED
    BY <1>7, <2>1 DEF QueueShaped
<1>10. y.token = x.token /\ y.state = Saving /\ y \in Flights
  BY <1>3 DEF FlightOK, Flights, States, Saving, NotAsked, TokensOrNone
<1>11. FlightsOK'
  <2>1. \A z \in flights : FlightOK(z)'
    BY <1>2, FlightsElsewhere
  <2>2. PICK v : v = y
    OBVIOUS
  <2>3. FlightOK(v)'
    <3>1. v.state = Saving /\ v.state \in States /\ v.state.slot = NoSlot /\ v.state.answer = NoToken
      BY <1>10, <2>2 DEF Flights, Saving, NotAsked
    <3>2. v \in Flights /\ v.token \in issued' /\ v.state.answer \notin issued'
      BY <1>2, <1>3, <1>10, <2>2, <3>1, Markers DEF DeviceIInv
    <3> QED
      BY <3>1, <3>2 DEF FlightOK, StateOK
  <2> QED
    <3>1. FlightsOK /\ v.token = x.token /\ flights' = (flights \ {x}) \cup {v}
      BY <1>2, <1>10, <2>2 DEF DeviceIInv, PhoneIInv
    <3> QED
      BY <2>1, <2>3, <3>1, FlightGoesOn
<1>12. WritesInOrder'
  <2>1. y.state.saving
    BY <1>10 DEF Saving, NotAsked
  <2>2. Pending(w)'
    BY <1>1, <1>2, <1>3, <1>10, <2>1 DEF Pending
  <2> QED
    BY <1>7, <2>2 DEF WritesInOrder, Pending
<1>13. StorageFollows'
  <2>1. ~ SignedOutInQueue'
    BY <1>1, <1>3, <1>7 DEF SignedOutInQueue
  <2> QED
    BY <1>2, <1>3, <2>1, InMemory DEF StorageFollows
<1> QED
  BY <1>8, <1>9, <1>11, <1>12, <1>13 DEF PhoneIInv, PhoneShaped

LEMMA AskRefreshStep ==
    ASSUME DeviceIInv, NEW x \in flights, NEW t \in Slots, AskRefresh(t, x)
    PROVE  PhoneIInv'
PROOF
<1> DEFINE y == [x EXCEPT !.state = Asked(t)]
<1>1. /\ x.state = NotAsked /\ flights' = (flights \ {x}) \cup {y}
      /\ Accept(t, RefreshRequest(x.token), "locked")
      /\ UNCHANGED <<issued, minted, store, keychain, revision, queue, signing, call, farewell, stale, faults>>
  BY DEF AskRefresh, Refresh, logs
<1>2. FlightOK(x)
  BY DEF DeviceIInv, PhoneIInv, FlightsOK
<1>3. /\ y.token = x.token /\ y.state = Asked(t) /\ y \in Flights
      /\ y.state.slot = t /\ y.state.answer = NoToken /\ ~ y.state.saving
  BY <1>2 DEF FlightOK, Flights, States, Asked, NotAsked, TokensOrNone
<1>4. FlightsOK'
  <2>1. \A z \in flights : FlightOK(z)'
    BY <1>1, AcceptElsewhere, FlightsElsewhere DEF DeviceIInv
  <2>2. PICK v : v = y
    OBVIOUS
  <2>3. pc'[t] = "locked" /\ req'[t].kind = "refresh" /\ req'[t].family = x.token.family
    BY <1>1, AcceptElsewhere DEF DeviceIInv, RefreshRequest
  <2>4. FlightOK(v)'
    <3>1. v.state \in States /\ v.token \in issued'
      BY <1>1, <1>2, <1>3, <2>2 DEF FlightOK, Flights
    <3>2. v.state.answer \notin issued'
      BY <1>1, <1>3, <2>2, Markers DEF DeviceIInv
    <3> QED
      BY <1>3, <2>2, <2>3, <3>1, <3>2 DEF FlightOK, StateOK
  <2> QED
    <3>1. FlightsOK /\ v.token = x.token /\ flights' = (flights \ {x}) \cup {v}
      BY <1>1, <1>3, <2>2 DEF DeviceIInv, PhoneIInv
    <3> QED
      BY <2>1, <2>4, <3>1, FlightGoesOn
<1>5. MemoryShaped' /\ QueueShaped' /\ CallsShaped' /\ CallsOK'
  BY <1>1, Markers, ShapeStays DEF DeviceIInv
<1>6. StateOK(signing)' /\ StorageFollows'
  BY <1>1 DEF DeviceIInv, PhoneIInv, PhoneShaped, StateOK, StorageFollows, SignedOutInQueue
<1>7. WritesInOrder'
  <2>1. ~ x.state.saving
    BY <1>1 DEF NotAsked
  <2>2. \A w : Pending(w) => Pending(w)'
    BY <1>1, <2>1 DEF Pending
  <2> QED
    BY <1>1, <2>2 DEF DeviceIInv, PhoneIInv, WritesInOrder, Overtaken
<1> QED
  BY <1>4, <1>5, <1>6, <1>7 DEF PhoneIInv, PhoneShaped

\* Logouts and resets that the server takes up.
LEMMA OtherRequests ==
    ASSUME DeviceIInv,
           \/ \E k \in farewell, t \in Slots : RevokeLogin(t, k)
           \/ \E t \in Slots, u \in Users : FollowResetLink(t, u)
    PROVE  PhoneIInv'
PROOF
<1>1. ASSUME NEW k \in farewell, NEW t \in Slots, RevokeLogin(t, k) PROVE PhoneIInv'
  <2>1. Accept(t, LogoutRequest(k), "written") /\ UNCHANGED logs
    BY <1>1 DEF RevokeLogin, Logout
  <2> QED
    BY <1>1, <2>1, AskedSteps DEF RevokeLogin
<1>2. ASSUME NEW t \in Slots, NEW u \in Users, FollowResetLink(t, u) PROVE PhoneIInv'
  <2>1. Accept(t, ResetRequest(u, password[u]), "written") /\ UNCHANGED logs
    BY <1>2 DEF FollowResetLink, Reset
  <2> QED
    BY <1>2, <2>1, AskedSteps DEF FollowResetLink, deviceVars
<1> QED
  BY <1>1, <1>2

LEMMA RevokeNothingStep ==
    ASSUME DeviceIInv, NEW k \in farewell, RevokeNothing(k)
    PROVE  PhoneIInv'
PROOF
<1>1. /\ farewell' \subseteq farewell
      /\ UNCHANGED <<issued, minted, pc, req, store, keychain, revision, queue, signing, flights, call, stale>>
  BY DEF RevokeNothing, loginVars
<1>2. faults' \in 0..MaxFaults
  BY FaultsBounded DEF RevokeNothing
<1>3. MemoryShaped' /\ QueueShaped' /\ CallsShaped' /\ CallsOK' /\ StateOK(signing)'
  BY <1>1, <1>2
  DEF DeviceIInv, PhoneIInv, PhoneShaped, MemoryShaped, QueueShaped, CallsShaped, CallsOK, CallOK, Kept,
      WriteOK, StateOK
<1>4. FlightsOK'
  BY <1>1, FlightsElsewhere DEF DeviceIInv, PhoneIInv, FlightsOK
<1>5. WritesInOrder' /\ StorageFollows'
  BY <1>1 DEF DeviceIInv, PhoneIInv, WritesInOrder, Overtaken, Pending, StorageFollows, SignedOutInQueue
<1> QED
  BY <1>3, <1>4, <1>5 DEF PhoneIInv, PhoneShaped

LEMMA CallSteps ==
    ASSUME DeviceIInv, NEW c \in Calls,
           Send(c) \/ Served(c) \/ GiveUp(c) \/ RetryLate(c) \/ AwaitRefresh(c)
    PROVE  PhoneIInv'
PROOF
<1>1. UNCHANGED <<issued, minted, pc, req, store, keychain, revision, queue, signing, farewell, stale, faults>>
  BY DEF Send, Served, GiveUp, RetryLate, AwaitRefresh, loginVars
<1>2. call \in [Calls -> CallRecords] /\ revision \in Nat
  BY DEF DeviceIInv, PhoneIInv, PhoneShaped, MemoryShaped, CallsShaped
<1>3. MemoryShaped' /\ QueueShaped' /\ StateOK(signing)' /\ StorageFollows'
  BY <1>1
  DEF DeviceIInv, PhoneIInv, PhoneShaped, MemoryShaped, QueueShaped, Kept, WriteOK, StateOK,
      StorageFollows, SignedOutInQueue
<1>4. CallsShaped' /\ CallsOK'
  <2>1. ASSUME NEW r \in CallRecords, call' = [call EXCEPT ![c] = r], Kept(r.token),
               r.place # "idle" =>
                   /\ r.revision <= revision /\ r.token \in issued /\ r.token.family = r.login
                   /\ r.revision = revision => store # NoToken /\ store.family = r.login
        PROVE  CallsShaped' /\ CallsOK'
    <3>1. call' \in [Calls -> CallRecords]
      BY <1>2, <2>1
    <3>2. \A d \in Calls : call'[d] = IF d = c THEN r ELSE call[d]
      BY <1>2, <2>1
    <3> QED
      BY <1>1, <2>1, <3>1, <3>2
      DEF DeviceIInv, PhoneIInv, PhoneShaped, CallsShaped, CallsOK, CallOK, Kept
  <2>2. CASE Served(c) \/ GiveUp(c)
    <3>1. call' = [call EXCEPT ![c] = NoCall]
      BY <2>2 DEF Served, GiveUp
    <3>2. NoCall \in CallRecords /\ Kept(NoCall.token) /\ NoCall.place = "idle"
      BY DEF NoCall, CallRecords, TokensOrNone, Kept
    <3> QED
      BY <2>1, <3>1, <3>2
  <2>3. CASE Send(c) \/ RetryLate(c)
    <3>1. store # NoToken /\ store \in issued /\ store \in Tokens /\ store.family \in Families
      BY <2>3, InMemory, Markers DEF Send, RetryLate, DeviceIInv
    <3>2. RetryLate(c) => call[c].login = store.family
      BY DEF RetryLate, Unauthorized, Outdated, DeviceIInv, PhoneIInv, CallsOK, CallOK
    <3>3. PICK r : call' = [call EXCEPT ![c] = r] /\ \E b \in BOOLEAN : r = Attach(store.family, b)
      BY <2>3, <3>2 DEF Send, RetryLate
    <3>4. /\ r \in CallRecords /\ Kept(r.token) /\ r.revision = revision /\ r.token = store
          /\ r.login = store.family
      BY <1>2, <3>1, <3>3 DEF Attach, CallRecords, TokensOrNone, Kept
    <3>5. r.revision <= revision /\ r.token \in issued /\ r.token.family = r.login
      BY <1>2, <3>1, <3>4
    <3>6. call' = [call EXCEPT ![c] = r]
      BY <3>3
    <3> QED
      BY <2>1, <3>1, <3>4, <3>5, <3>6
  <2>4. CASE AwaitRefresh(c)
    <3>1. PICK r : r = [call[c] EXCEPT !.place = "waiting", !.retry = TRUE]
      OBVIOUS
    <3>2. call' = [call EXCEPT ![c] = r] /\ call[c].place # "idle" /\ call[c] \in CallRecords
      BY <1>2, <2>4, <3>1 DEF AwaitRefresh, Unauthorized
    <3>3. /\ r \in CallRecords /\ r.token = call[c].token /\ r.revision = call[c].revision
          /\ r.login = call[c].login
      BY <3>1, <3>2 DEF CallRecords
    <3>4. Kept(call[c].token) /\ CallOK(c)
      BY <3>2 DEF DeviceIInv, PhoneIInv, PhoneShaped, CallsShaped, CallsOK
    <3> QED
      BY <2>1, <3>2, <3>3, <3>4 DEF CallOK
  <2> QED
    BY <2>2, <2>3, <2>4
<1>5. FlightsOK' /\ flights \subseteq flights'
  <2>1. \A x \in flights : FlightOK(x)'
    BY <1>1, FlightsElsewhere
  <2>2. CASE flights' = flights
    BY <2>1, <2>2 DEF DeviceIInv, PhoneIInv, FlightsOK
  <2>3. CASE AwaitRefresh(c) /\ flights' # flights
    <3>1. PICK y : y = [token |-> store, state |-> NotAsked]
      OBVIOUS
    <3>2. /\ store # NoToken /\ flights' = flights \cup {y}
          /\ \A x \in flights : x.token # store
      BY <2>3, <3>1 DEF AwaitRefresh, Join
    <3>3. store \in issued /\ store \in Tokens
      BY <3>2, InMemory, Markers DEF DeviceIInv
    <3>4. NotAsked \in States /\ NotAsked.slot = NoSlot /\ NotAsked.answer = NoToken /\ ~ NotAsked.saving
      BY DEF NotAsked, States, TokensOrNone
    <3>5. y \in Flights /\ y.token = store /\ y.state = NotAsked
      BY <3>1, <3>3, <3>4 DEF Flights
    <3>6. y.state.answer \notin issued'
      BY <1>1, <3>4, <3>5, Markers DEF DeviceIInv
    <3>7. FlightOK(y)'
      BY <1>1, <3>3, <3>4, <3>5, <3>6 DEF FlightOK, StateOK
    <3> QED
      BY <2>1, <3>2, <3>5, <3>7 DEF DeviceIInv, PhoneIInv, FlightsOK
  <2> QED
    BY <2>2, <2>3 DEF Send, Served, GiveUp, RetryLate
<1>6. WritesInOrder'
  <2>1. \A w : Pending(w) => Pending(w)'
    BY <1>1, <1>5 DEF Pending
  <2> QED
    BY <1>1, <2>1 DEF DeviceIInv, PhoneIInv, WritesInOrder, Overtaken
<1> QED
  BY <1>3, <1>4, <1>5, <1>6 DEF PhoneIInv, PhoneShaped

LEMMA StartWriteStep ==
    ASSUME DeviceIInv, StartWrite
    PROVE  PhoneIInv'
PROOF
<1>1. /\ queue # <<>> /\ queue' = [queue EXCEPT ![1].running = TRUE]
      /\ UNCHANGED <<issued, minted, pc, req, store, keychain, revision, signing, flights, call, farewell,
                     stale, faults>>
  BY DEF StartWrite, loginVars
<1>2. 1 \in 1..Len(queue) /\ queue \in Seq(Writes)
  BY <1>1, HeadDone DEF DeviceIInv, PhoneIInv, PhoneShaped, QueueShaped
<1>3. PICK w : w = [queue[1] EXCEPT !.running = TRUE]
  OBVIOUS
<1>4. /\ w \in Writes /\ w.token = queue[1].token /\ w.from = queue[1].from
      /\ w.revision = queue[1].revision
  <2>1. queue[1] \in Writes
    BY <1>2
  <2> QED
    BY <1>3, <2>1 DEF Writes
<1>5. /\ queue' \in Seq(Writes) /\ Len(queue') = Len(queue)
      /\ \A i \in 1..Len(queue) : queue'[i] = IF i = 1 THEN w ELSE queue[i]
  <2>1. queue' = [queue EXCEPT ![1] = w]
    BY <1>1, <1>3
  <2> QED
    BY <1>2, <1>4, <2>1
<1>6. \A i \in 1..Len(queue) :
          /\ queue'[i] \in Writes /\ queue'[i].token = queue[i].token
          /\ queue'[i].from = queue[i].from /\ queue'[i].revision = queue[i].revision
  BY <1>2, <1>4, <1>5
<1>7. QueueShaped'
  <2>1. ASSUME NEW i \in 1..Len(queue) PROVE WriteOK(queue[i])'
    <3>1. WriteOK(queue[i])
      BY DEF DeviceIInv, PhoneIInv, PhoneShaped, QueueShaped
    <3> QED
      BY <1>1, <1>6, <3>1 DEF WriteOK, Kept
  <2> QED
    BY <1>5, <2>1 DEF QueueShaped
<1>8. MemoryShaped' /\ CallsShaped' /\ CallsOK' /\ StateOK(signing)'
  BY <1>1
  DEF DeviceIInv, PhoneIInv, PhoneShaped, MemoryShaped, CallsShaped, CallsOK, CallOK, Kept, StateOK
<1>9. FlightsOK'
  BY <1>1, FlightsElsewhere DEF DeviceIInv, PhoneIInv, FlightsOK
<1>10. WritesInOrder'
  <2>1. \A i \in 1..Len(queue) : Overtaken(i) => Overtaken(i)'
    BY <1>1, <1>5, <1>6 DEF Overtaken
  <2>2. \A i \in 1..Len(queue) : Pending(queue[i]) => Pending(queue[i])'
    BY <1>1, <1>5, <1>6 DEF Pending
  <2> QED
    BY <1>5, <1>6, <2>1, <2>2 DEF DeviceIInv, PhoneIInv, WritesInOrder
<1>11. StorageFollows'
  BY <1>1, <1>5, <1>6 DEF DeviceIInv, PhoneIInv, StorageFollows, SignedOutInQueue
<1> QED
  BY <1>7, <1>8, <1>9, <1>10, <1>11 DEF PhoneIInv, PhoneShaped

\* The continuations of a write: memory follows if nobody has signed out meanwhile.
LEMMA SettledStep ==
    ASSUME DeviceIInv, queue # <<>>, queue' = Tail(queue), Settled(queue[1]),
           \/ keychain' = queue[1].token
           \/ keychain' = keychain /\ queue[1].token # NoToken /\ queue[1].revision # revision,
           UNCHANGED <<issued, minted, pc, req, revision, farewell, stale, faults>>
    PROVE  PhoneIInv'
PROOF
<1> DEFINE now == IF queue[1].token # NoToken /\ queue[1].revision = revision THEN queue[1].token ELSE store
<1>1. PICK w : w = queue[1]
  OBVIOUS
<1>2. /\ 1 \in 1..Len(queue) /\ WriteOK(w) /\ Kept(w.token) /\ Kept(store) /\ Kept(keychain)
      /\ call \in [Calls -> CallRecords]
  BY <1>1, HeadDone
  DEF WriteOK, DeviceIInv, PhoneIInv, PhoneShaped, MemoryShaped, CallsShaped
<1>3. /\ store' = now
      /\ flights' = {x \in flights : ~ (x.state.saving /\ x.token = w.from)}
      /\ signing' = IF w.token # NoToken /\ w.from = NoToken THEN NotAsked ELSE signing
      /\ call' = [c \in Calls |->
                    IF call[c].place = "waiting" /\ call[c].token = w.from
                    THEN IF now = w.token /\ call[c].revision = revision
                         THEN [call[c] EXCEPT !.place = "sent", !.token = now]
                         ELSE NoCall
                    ELSE call[c]]
  BY <1>1 DEF Settled
<1>4. MemoryShaped'
  BY <1>1, <1>2, <1>3 DEF DeviceIInv, PhoneIInv, PhoneShaped, MemoryShaped, Kept
<1>5. QueueShaped'
  BY TailInOrder
<1>6. StateOK(signing)'
  BY <1>3 DEF DeviceIInv, PhoneIInv, PhoneShaped, StateOK, States, NotAsked, TokensOrNone
<1>7. FlightsOK'
  BY <1>3, FlightsElsewhere DEF DeviceIInv, PhoneIInv, FlightsOK
<1>8. CallsShaped'
  <2>1. NoCall \in CallRecords /\ Kept(NoCall.token)
    BY DEF NoCall, CallRecords, TokensOrNone, Kept
  <2>2. Kept(now) /\ now \in TokensOrNone
    BY <1>1, <1>2, Markers DEF Kept, TokensOrNone, DeviceIInv
  <2>3. \A c \in Calls : /\ [call[c] EXCEPT !.place = "sent", !.token = now] \in CallRecords
                         /\ [call[c] EXCEPT !.place = "sent", !.token = now].token = now
    <3>1. \A c \in Calls : call[c] \in CallRecords
      BY <1>2
    <3> QED
      BY <2>2, <3>1 DEF CallRecords
  <2>4. call' \in [Calls -> CallRecords]
    BY <1>2, <1>3, <2>1, <2>3
  <2>5. \A c \in Calls : call'[c].token \in {call[c].token, NoCall.token, now}
    BY <1>3, <2>3
  <2> QED
    BY <2>1, <2>2, <2>4, <2>5 DEF CallsShaped, Kept, DeviceIInv, PhoneIInv, PhoneShaped
<1>9. CASE w.token = NoToken
  <2>1. store = NoToken /\ store' = NoToken /\ keychain' = NoToken /\ signing' = signing
    BY <1>1, <1>2, <1>3, <1>9 DEF DeviceIInv, PhoneIInv, StorageFollows, SignedOutInQueue
  <2>2. w.from = NoToken
    BY <1>2, <1>9 DEF WriteOK
  <2>3. WritesInOrder'
    BY <2>1, TailWrites
  <2>4. StorageFollows'
    BY <2>1 DEF StorageFollows
  <2>5. CallsOK'
    <3>1. \A c \in Calls : call[c].place = "waiting" => call[c].token # NoToken
      BY Markers DEF DeviceIInv, PhoneIInv, CallsOK, CallOK
    <3>2. \A c \in Calls : call'[c] = call[c]
      BY <1>3, <2>2, <3>1
    <3> QED
      BY <2>1, <3>2 DEF DeviceIInv, PhoneIInv, CallsOK, CallOK
  <2> QED
    BY <1>4, <1>5, <1>6, <1>7, <1>8, <2>3, <2>4, <2>5 DEF PhoneIInv, PhoneShaped
<1>10. CASE w.token # NoToken /\ Overtaken(1)
  <2>1. /\ SignedOutInQueue /\ store = NoToken /\ w.from # NoToken /\ w.revision # revision
    <3>1. w.revision \in Nat /\ revision \in Nat /\ w.revision < revision /\ w.from # NoToken
      BY <1>1, <1>2, <1>10
      DEF Overtaken, WriteOK, Writes, DeviceIInv, PhoneIInv, PhoneShaped, MemoryShaped
    <3> QED
      BY <1>10, <3>1 DEF Overtaken, SignedOutInQueue, DeviceIInv, PhoneIInv, StorageFollows
  <2>2. now = NoToken /\ store' = NoToken /\ signing' = signing
    BY <1>1, <1>3, <1>10, <2>1
  <2>3. WritesInOrder'
    BY <2>1, <2>2, TailWrites
  <2>4. StorageFollows'
    BY <1>1, <1>10, <2>1, <2>2, TailInOrder DEF StorageFollows
  <2>5. CallsOK'
    <3>1. \A c \in Calls : call'[c] \in {call[c], NoCall}
      BY <1>3, <1>10, <2>2
    <3>2. NoCall.place = "idle"
      BY DEF NoCall
    <3> QED
      BY <2>1, <2>2, <3>1, <3>2 DEF DeviceIInv, PhoneIInv, CallsOK, CallOK
  <2> QED
    BY <1>4, <1>5, <1>6, <1>7, <1>8, <2>3, <2>4, <2>5 DEF PhoneIInv, PhoneShaped
<1>11. CASE w.token # NoToken /\ 1 = Len(queue) /\ Pending(w)
  <2>1. /\ w.revision = revision /\ now = w.token /\ store' = w.token /\ keychain' = w.token
        /\ w.token \in issued
    BY <1>1, <1>2, <1>3, <1>11 DEF Pending, Kept
  <2>2. signing' = NotAsked
    <3>1. w.from # NoToken => signing = NotAsked
      BY <1>11, InMemory DEF Pending
    <3> QED
      BY <1>3, <1>11, <3>1
  <2>3. \A i \in 1..Len(queue') : FALSE
    <3>1. Len(queue') = 0
      BY <1>11, HeadDone
    <3> QED
      BY <3>1
  <2>4. WritesInOrder'
    BY <2>3 DEF WritesInOrder
  <2>5. StorageFollows'
    BY <2>1, <2>2, <2>3 DEF StorageFollows, SignedOutInQueue
  <2>6. CallsOK'
    <3>1. ASSUME NEW c \in Calls, call'[c].place # "idle" PROVE CallOK(c)'
      <4>1. CASE call[c].place = "waiting" /\ call[c].token = w.from
        <5>1. call'[c] = [call[c] EXCEPT !.place = "sent", !.token = w.token] /\ call[c].revision = revision
          BY <1>3, <2>1, <3>1, <4>1 DEF NoCall
        <5>2. call[c] \in CallRecords
          BY <1>2
        <5>3. /\ call'[c].revision = revision /\ call'[c].token = w.token
              /\ call'[c].login = call[c].login
          BY <5>1, <5>2 DEF CallRecords
        <5>4. call[c].token \in issued /\ call[c].token.family = call[c].login
          BY <4>1 DEF DeviceIInv, PhoneIInv, CallsOK, CallOK
        <5>5. w.token.family = w.from.family
          BY <1>2, <4>1, <5>4, Markers DEF WriteOK, DeviceIInv
        <5>6. revision \in Nat /\ w.token # NoToken
          BY <1>11 DEF DeviceIInv, PhoneIInv, PhoneShaped, MemoryShaped
        <5> QED
          BY <2>1, <4>1, <5>3, <5>4, <5>5, <5>6 DEF CallOK
      <4>2. CASE ~ (call[c].place = "waiting" /\ call[c].token = w.from)
        <5>1. call'[c] = call[c]
          BY <1>3, <4>2
        <5>2. CallOK(c)
          BY <3>1, <5>1 DEF DeviceIInv, PhoneIInv, CallsOK
        <5>3. call[c].revision = revision => w.from = store /\ store # NoToken
          BY <1>11, <5>2 DEF CallOK, Pending
        <5>4. call[c].revision = revision => w.token.family = call[c].login
          BY <1>2, <5>2, <5>3 DEF CallOK, WriteOK
        <5> QED
          BY <1>11, <2>1, <5>1, <5>2, <5>4 DEF CallOK
      <4> QED
        BY <4>1, <4>2
    <3> QED
      BY <3>1 DEF CallsOK
  <2> QED
    BY <1>4, <1>5, <1>6, <1>7, <1>8, <2>4, <2>5, <2>6 DEF PhoneIInv, PhoneShaped
<1>12. w.token = NoToken \/ Overtaken(1) \/ (1 = Len(queue) /\ Pending(w))
  BY <1>1, <1>2 DEF DeviceIInv, PhoneIInv, WritesInOrder
<1> QED
  BY <1>9, <1>10, <1>11, <1>12

LEMMA WriteSteps ==
    ASSUME DeviceIInv, EndWrite \/ SkipWrite
    PROVE  PhoneIInv'
PROOF
<1>1. queue # <<>> /\ Settled(queue[1]) /\ queue' = Tail(queue)
  BY HeadDone DEF EndWrite, SkipWrite
<1>2. UNCHANGED <<issued, minted, pc, req, revision, farewell, stale, faults>>
  BY DEF EndWrite, SkipWrite, loginVars
<1>3. \/ keychain' = queue[1].token
      \/ keychain' = keychain /\ queue[1].token # NoToken /\ queue[1].revision # revision
  BY <1>1, HeadDone DEF EndWrite, SkipWrite
<1> QED
  BY <1>1, <1>2, <1>3, SettledStep

\* A step of the server is one of slot t alone.  A refresh that is locked ends here:
\* with a new token of the same login, or with none.
LEMMA ServerStep ==
    ASSUME IInv, IInv', NEW t \in Slots, Handle(t) \/ Crash(t)
    PROVE  /\ \A s \in Slots : s # t => pc'[s] = pc[s] /\ req'[s] = req[s]
           /\ issued \subseteq issued' /\ minted' \in Nat /\ minted <= minted'
           /\ NoToken \notin issued' /\ Refused \notin issued'
           /\ pc[t] = "locked" /\ req[t].kind = "refresh" =>
                 \/ issued' = issued /\ pc'[t] = "idle"
                 \/ issued' # issued /\ \A k \in issued' \ issued : k.family = req[t].family
PROOF
<1>1. NoToken \notin issued' /\ Refused \notin issued' /\ minted \in Nat /\ minted' \in Nat
  BY DeviceAssumption DEF IInv, LoginTypeOK
<1>2. CASE StartSession(t)
  <2>1. pc[t] = "verified" /\ issued \subseteq issued' /\ minted' = minted + 1
    BY <1>2 DEF StartSession, Issue
  <2>2. \A s \in Slots : s # t => pc'[s] = pc[s] /\ req'[s] = req[s]
    BY <1>2 DEF StartSession, Issue, IInv, LoginTypeOK
  <2> QED
    BY <1>1, <2>1, <2>2
<1>3. CASE RefreshRotates(t)
  <2>1. PICK k : /\ issued' = issued \cup {k} /\ k.id = minted + 1 /\ k.family = req[t].family
                 /\ minted' = minted + 1
    BY <1>3 DEF RefreshRotates, Issue
  <2>2. k \notin issued
    BY <1>1, <2>1, Markers
  <2>3. \A s \in Slots : s # t => pc'[s] = pc[s] /\ req'[s] = req[s]
    BY <1>3 DEF RefreshRotates, Issue, IInv, LoginTypeOK
  <2> QED
    BY <1>1, <2>1, <2>2, <2>3
<1>4. CASE \/ RefreshRefused(t) \/ RefreshReplayed(t) \/ CommitLogin(t) \/ CommitRefresh(t)
           \/ CommitLogout(t) \/ CommitReset(t) \/ Crash(t)
  <2>1. End(t) /\ UNCHANGED <<issued, minted>>
    BY <1>4 DEF RefreshRefused, RefreshReplayed, CommitLogin, CommitRefresh, CommitLogout, CommitReset,
                Crash, logs
  <2>2. pc'[t] = "idle" /\ \A s \in Slots : s # t => pc'[s] = pc[s] /\ req'[s] = req[s]
    BY <2>1 DEF End, IInv, LoginTypeOK
  <2> QED
    BY <1>1, <2>1, <2>2
<1> QED
  BY <1>2, <1>3, <1>4 DEF Handle

\* What a response does to whoever waits for it.
LEMMA ResponseOK ==
    ASSUME IInv', issued \subseteq issued', NEW t \in Slots, NEW s, StateOK(s), NEW a, a = Answered(t, s)
    PROVE  /\ StateOK(a)'
           /\ s \in {NotAsked, Saving} => a = s
           /\ s.saving => a.saving
           /\ s.slot # t => a = s
           /\ s.slot = t /\ issued' # issued => a.slot = NoSlot /\ a.answer \in issued' \ issued
           /\ s.slot = t /\ issued' = issued /\ pc'[t] = "idle" => a.slot = NoSlot /\ a.answer = Refused
PROOF
<1>1. NotAsked.slot = NoSlot /\ Saving.slot = NoSlot /\ NoSlot # t
  BY DeviceAssumption DEF NotAsked, Saving
<1>2. s \in States /\ s.answer \in issued \cup {NoToken, Refused} /\ (s.saving => s = Saving)
  BY DEF StateOK
<1>3. CASE s.slot # t
  BY <1>1, <1>2, <1>3 DEF Answered, StateOK
<1>4. CASE s.slot = t /\ issued' # issued
  <2>1. PICK k : k = CHOOSE j \in issued' : j \notin issued
    OBVIOUS
  <2>2. k \in issued' \ issued
    BY <1>4, <2>1
  <2>3. a = [slot |-> NoSlot, answer |-> k, saving |-> FALSE]
    BY <1>4, <2>1 DEF Answered, NotAsked
  <2>4. a.slot = NoSlot /\ a.answer = k /\ a.saving = FALSE
    BY <2>3
  <2>5. s # NotAsked /\ s # Saving /\ ~ s.saving
    BY <1>1, <1>2, <1>4
  <2>6. StateOK(a)'
    <3>1. k \in Tokens
      BY <2>2 DEF IInv, LoginTypeOK
    <3>2. a \in States
      BY <2>3, <3>1 DEF States, TokensOrNone
    <3> QED
      BY <2>2, <2>4, <3>2 DEF StateOK
  <2> QED
    BY <1>4, <2>2, <2>4, <2>5, <2>6
<1>5. CASE s.slot = t /\ issued' = issued /\ pc'[t] = "idle"
  <2>1. a = [slot |-> NoSlot, answer |-> Refused, saving |-> FALSE]
    BY <1>5 DEF Answered, NotAsked
  <2>2. s # NotAsked /\ s # Saving /\ ~ s.saving
    BY <1>1, <1>2, <1>5
  <2> QED
    BY <1>5, <2>1, <2>2 DEF StateOK, States
<1>6. CASE s.slot = t /\ issued' = issued /\ pc'[t] # "idle"
  BY <1>2, <1>6 DEF Answered, StateOK
<1> QED
  BY <1>3, <1>4, <1>5, <1>6

LEMMA ServerSteps ==
    ASSUME DeviceIInv, IInv', NEW t \in Slots, Server(t)
    PROVE  PhoneIInv'
PROOF
<1>1. /\ Handle(t) \/ Crash(t)
      /\ signing' = Answered(t, signing)
      /\ flights' = {[x EXCEPT !.state = Answered(t, @)] : x \in flights}
      /\ UNCHANGED <<store, keychain, revision, queue, call, farewell, stale, faults>>
  BY DEF Server
<1>2. /\ \A s \in Slots : s # t => pc'[s] = pc[s] /\ req'[s] = req[s]
      /\ issued \subseteq issued' /\ minted' \in Nat /\ minted <= minted'
      /\ NoToken \notin issued' /\ Refused \notin issued'
      /\ pc[t] = "locked" /\ req[t].kind = "refresh" =>
            \/ issued' = issued /\ pc'[t] = "idle"
            \/ issued' # issued /\ \A k \in issued' \ issued : k.family = req[t].family
  BY <1>1, ServerStep DEF DeviceIInv
<1>3. MemoryShaped' /\ QueueShaped' /\ CallsShaped' /\ CallsOK'
  BY <1>1, <1>2, ShapeStays
<1>4. StateOK(signing) /\ StateOK(signing)' /\ (signing \in {NotAsked, Saving} => signing' = signing)
  <2>1. StateOK(signing)
    BY DEF DeviceIInv, PhoneIInv, PhoneShaped
  <2>2. PICK a : a = Answered(t, signing)
    OBVIOUS
  <2>3. StateOK(a)' /\ (signing \in {NotAsked, Saving} => a = signing)
    BY <1>2, <2>1, <2>2, ResponseOK
  <2> QED
    BY <1>1, <2>1, <2>2, <2>3 DEF StateOK
<1>5. ASSUME NEW x \in flights, NEW y, y = [x EXCEPT !.state = Answered(t, @)]
      PROVE  FlightOK(y)' /\ y.token = x.token /\ (x.state.saving => y.state.saving)
  <2>1. /\ FlightOK(x) /\ x \in Flights /\ x.token \in issued /\ StateOK(x.state)
        /\ x.state.slot # NoSlot => x.state.slot \in Slots
    BY DEF DeviceIInv, PhoneIInv, FlightsOK, FlightOK, StateOK, States
  <2>2. PICK a : a = Answered(t, x.state)
    OBVIOUS
  <2>3. y.token = x.token /\ y.state = a /\ y = [token |-> x.token, state |-> a]
    BY <1>5, <2>1, <2>2 DEF Flights
  <2>4. /\ StateOK(a)' /\ (x.state.saving => a.saving)
        /\ x.state.slot # t => a = x.state
        /\ x.state.slot = t /\ issued' # issued => a.slot = NoSlot /\ a.answer \in issued' \ issued
        /\ x.state.slot = t /\ issued' = issued /\ pc'[t] = "idle" => a.slot = NoSlot /\ a.answer = Refused
    BY <1>2, <2>1, <2>2, ResponseOK
  <2>5. y \in Flights
    BY <2>1, <2>3, <2>4 DEF Flights, StateOK
  <2>6. CASE x.state.slot # t
    <3>1. a = x.state
      BY <2>4, <2>6
    <3>2. a.answer \in issued' => a.answer.family = x.token.family
      BY <1>2, <2>1, <3>1 DEF FlightOK, StateOK
    <3>3. a.slot # NoSlot => /\ pc'[a.slot] = "locked"
                             /\ req'[a.slot].kind = "refresh" /\ req'[a.slot].family = x.token.family
      BY <1>2, <2>1, <2>6, <3>1 DEF FlightOK
    <3> QED
      BY <1>2, <2>1, <2>3, <2>4, <2>5, <3>2, <3>3 DEF FlightOK
  <2>7. CASE x.state.slot = t
    <3>1. pc[t] = "locked" /\ req[t].kind = "refresh" /\ req[t].family = x.token.family
      BY <2>1, <2>7, DeviceAssumption DEF FlightOK
    <3>2. a.slot = NoSlot /\ (a.answer \in issued' => a.answer.family = x.token.family)
      BY <1>2, <2>4, <2>7, <3>1
    <3> QED
      BY <1>2, <2>1, <2>3, <2>4, <2>5, <3>2 DEF FlightOK
  <2> QED
    BY <2>3, <2>4, <2>6, <2>7
<1>6. FlightsOK'
  <2>1. \A x, y \in flights : x.token = y.token => x = y
    BY DEF DeviceIInv, PhoneIInv, FlightsOK
  <2>2. \A z \in flights' : FlightOK(z)'
    BY <1>1, <1>5
  <2>3. ASSUME NEW v \in flights', NEW z \in flights', v.token = z.token PROVE v = z
    <3>1. PICK x \in flights : v = [x EXCEPT !.state = Answered(t, @)]
      BY <1>1
    <3>2. PICK y \in flights : z = [y EXCEPT !.state = Answered(t, @)]
      BY <1>1
    <3>3. v.token = x.token /\ z.token = y.token
      BY <1>5, <3>1, <3>2
    <3> QED
      BY <2>1, <2>3, <3>1, <3>2, <3>3
  <2> QED
    BY <2>2, <2>3 DEF FlightsOK
<1>7. WritesInOrder'
  <2>1. ASSUME NEW x \in flights, x.state.saving
        PROVE  \E z \in flights' : z.token = x.token /\ z.state.saving
    <3>1. PICK z : z = [x EXCEPT !.state = Answered(t, @)]
      OBVIOUS
    <3>2. z \in flights'
      BY <1>1, <3>1
    <3> QED
      BY <1>5, <2>1, <3>1, <3>2
  <2>2. \A w : Pending(w) => Pending(w)'
    BY <1>1, <1>4, <2>1 DEF Pending
  <2> QED
    BY <1>1, <2>2 DEF DeviceIInv, PhoneIInv, WritesInOrder, Overtaken
<1>8. StorageFollows'
  BY <1>1, <1>4 DEF DeviceIInv, PhoneIInv, StorageFollows, SignedOutInQueue
<1> QED
  BY <1>3, <1>4, <1>6, <1>7, <1>8 DEF PhoneIInv, PhoneShaped

LEMMA AgeAccessStep ==
    ASSUME DeviceIInv, AgeAccess
    PROVE  PhoneIInv'
PROOF
<1>1. /\ store # NoToken /\ stale' = stale \cup {store.id}
      /\ UNCHANGED <<issued, minted, pc, req, store, keychain, revision, queue, signing, flights, call,
                     farewell, faults>>
  BY DEF AgeAccess, loginVars
<1>2. store.id \in 1..minted
  BY <1>1, InMemory, Markers DEF DeviceIInv
<1>3. MemoryShaped' /\ QueueShaped' /\ CallsShaped' /\ CallsOK' /\ StateOK(signing)'
  BY <1>1, <1>2
  DEF DeviceIInv, PhoneIInv, PhoneShaped, MemoryShaped, QueueShaped, CallsShaped, CallsOK, CallOK, Kept,
      WriteOK, StateOK
<1>4. FlightsOK'
  BY <1>1, FlightsElsewhere DEF DeviceIInv, PhoneIInv, FlightsOK
<1>5. WritesInOrder' /\ StorageFollows'
  BY <1>1 DEF DeviceIInv, PhoneIInv, WritesInOrder, Overtaken, Pending, StorageFollows, SignedOutInQueue
<1> QED
  BY <1>3, <1>4, <1>5 DEF PhoneIInv, PhoneShaped

\* A phone with nothing under way.
AtRest ==
    /\ Kept(store) /\ keychain = store /\ revision \in Nat
    /\ queue = <<>> /\ signing = NotAsked /\ flights = {} /\ call = [c \in Calls |-> NoCall]
    /\ farewell = {} /\ stale \subseteq 1..minted /\ faults \in 0..MaxFaults

LEMMA RestIsFine == AtRest => PhoneIInv
PROOF
<1> SUFFICES ASSUME AtRest PROVE PhoneIInv
  OBVIOUS
<1> USE DEF AtRest
<1>1. \A i \in 1..Len(queue) : FALSE
  BY DEF Kept
<1>2. NoCall \in CallRecords /\ NoCall.token = NoToken /\ NoCall.place = "idle"
  BY DEF NoCall, CallRecords, TokensOrNone
<1>3. PhoneShaped
  BY <1>1, <1>2
  DEF PhoneShaped, MemoryShaped, QueueShaped, CallsShaped, Kept, StateOK, States, NotAsked, TokensOrNone
<1>4. WritesInOrder /\ StorageFollows /\ CallsOK /\ FlightsOK
  BY <1>1, <1>2 DEF WritesInOrder, StorageFollows, SignedOutInQueue, CallsOK, FlightsOK
<1> QED
  BY <1>3, <1>4 DEF PhoneIInv

LEMMA RestartStep ==
    ASSUME DeviceIInv, Restart
    PROVE  PhoneIInv'
PROOF
<1>1. PICK k \in {keychain} \cup {queue[i].token : i \in {j \in DOMAIN queue : queue[j].running}} :
          keychain' = k /\ store' = k
  BY DEF Restart
<1>2. /\ queue' = <<>> /\ signing' = NotAsked /\ flights' = {} /\ farewell' = {}
      /\ call' = [c \in Calls |-> NoCall] /\ UNCHANGED <<issued, minted, revision, stale>>
  BY DEF Restart, loginVars
<1>3. faults' \in 0..MaxFaults
  BY FaultsBounded DEF Restart
<1>4. Kept(k)
  <2>1. /\ Kept(keychain) /\ DOMAIN queue = 1..Len(queue)
        /\ \A i \in 1..Len(queue) : Kept(queue[i].token)
    BY DEF DeviceIInv, PhoneIInv, PhoneShaped, MemoryShaped, QueueShaped, WriteOK
  <2> QED
    BY <1>1, <2>1
<1>5. Kept(store)' /\ revision' \in Nat /\ (stale \subseteq 1..minted)'
  BY <1>1, <1>2, <1>4 DEF Kept, DeviceIInv, PhoneIInv, PhoneShaped, MemoryShaped
<1>6. AtRest'
  BY <1>1, <1>2, <1>3, <1>5 DEF AtRest
<1>7. AtRest' => PhoneIInv'
  BY RestIsFine, PTL
<1> QED
  BY <1>6, <1>7

LEMMA DeviceInitIInv == LoginInit /\ DeviceInit => DeviceIInv
PROOF
<1>1. ASSUME LoginInit, DeviceInit PROVE AtRest
  BY <1>1, DeviceAssumption DEF LoginInit, DeviceInit, AtRest, Kept
<1> QED
  BY <1>1, InitIInv, RestIsFine DEF DeviceIInv

LEMMA DeviceNextIInv == DeviceIInv /\ [DeviceNext]_vars => DeviceIInv'
PROOF
<1> SUFFICES ASSUME DeviceIInv, [DeviceNext]_vars PROVE DeviceIInv'
  OBVIOUS
<1>1. [LoginNext]_loginVars
  BY AsLoginStep DEF vars
<1>2. IInv'
  BY <1>1, NextIInv DEF DeviceIInv
<1>3. CASE UNCHANGED vars
  <2>1. UNCHANGED <<issued, minted, pc, req, store, keychain, revision, queue, signing, flights, call,
                    farewell, stale, faults>>
    BY <1>3 DEF vars, loginVars, deviceVars
  <2>2. FlightsOK'
    BY <2>1, FlightsElsewhere DEF DeviceIInv, PhoneIInv, FlightsOK
  <2>3. PhoneShaped'
    BY <2>1
    DEF DeviceIInv, PhoneIInv, PhoneShaped, MemoryShaped, QueueShaped, CallsShaped, Kept, WriteOK, StateOK
  <2>4. WritesInOrder' /\ StorageFollows' /\ CallsOK'
    BY <2>1
    DEF DeviceIInv, PhoneIInv, WritesInOrder, Overtaken, Pending, StorageFollows, SignedOutInQueue, CallsOK,
        CallOK
  <2> QED
    BY <1>2, <2>2, <2>3, <2>4 DEF DeviceIInv, PhoneIInv
<1>4. CASE DeviceNext
  <2>1. PhoneIInv'
    BY <1>2, <1>4, SignInStep, SignedInStep, SignInLostStep, PressSignOutStep, OtherRequests,
       RevokeNothingStep, CallSteps, RejectedSteps, RefreshedStep, AskRefreshStep, StartWriteStep,
       WriteSteps, FailWriteStep, ServerSteps, AgeAccessStep, RestartStep
    DEF DeviceNext
  <2> QED
    BY <1>2, <2>1 DEF DeviceIInv
<1> QED
  BY <1>3, <1>4

\* The inductive invariant of the phone with its server.
THEOREM DeviceInvariance == DeviceSpec => []DeviceIInv
PROOF
  BY DeviceInitIInv, DeviceNextIInv, PTL DEF DeviceSpec
--------------------------------------------------------------------------------
(* The properties.                                                         *)

\* Whatever the credential store and the interceptors do, the server of a phone is
\* one of LoginSessions: all that is proved of auth_service.py there holds here, too.
THEOREM DeviceRefinement == DeviceSpec => LoginSpec
PROOF
<1>1. LoginInit /\ DeviceInit => LoginInit
  OBVIOUS
<1>2. DeviceIInv /\ [DeviceNext]_vars => [LoginNext]_loginVars
  BY AsLoginStep DEF vars
<1> QED
  BY <1>1, <1>2, DeviceInvariance, PTL DEF DeviceSpec, LoginSpec

\* The variables of the phone keep their types.
THEOREM DeviceTypeCorrect == DeviceSpec => []DeviceTypeOK
PROOF
<1>1. DeviceIInv => DeviceTypeOK
  <2> SUFFICES ASSUME DeviceIInv PROVE DeviceTypeOK
    OBVIOUS
  <2>1. issued \subseteq Tokens
    BY DEF DeviceIInv, IInv, LoginTypeOK
  <2>2. MemoryShaped /\ QueueShaped /\ CallsShaped /\ StateOK(signing) /\ \A x \in flights : FlightOK(x)
    BY DEF DeviceIInv, PhoneIInv, PhoneShaped, FlightsOK
  <2>3. \A i \in DOMAIN queue :
            queue[i] \in [token : issued \cup {NoToken}, revision : Nat, from : TokensOrNone, running : BOOLEAN]
    BY <2>2 DEF QueueShaped, WriteOK, Writes, Kept
  <2>4. \A s \in {signing} \cup {x.state : x \in flights} :
            s \in [slot : Slots \cup {NoSlot}, answer : issued \cup {NoToken, Refused}, saving : BOOLEAN]
    BY <2>2 DEF FlightOK, StateOK, States
  <2> QED
    BY <2>2, <2>3, <2>4 DEF DeviceTypeOK, MemoryShaped, CallsShaped, CallRecords, Kept, FlightOK
<1> QED
  BY <1>1, DeviceInvariance, PTL

\* authStore.ts: once its writes are done secure storage holds what memory holds,
\* however logins, logouts, refreshes and failing writes overlap.
THEOREM StorageHoldsMemory == DeviceSpec => []KeychainFollows
PROOF
<1>1. DeviceIInv => KeychainFollows
  <2> SUFFICES ASSUME DeviceIInv, queue = <<>> PROVE keychain = store
    BY DEF KeychainFollows
  <2>1. ~ SignedOutInQueue
    BY DEF SignedOutInQueue
  <2> QED
    BY <2>1 DEF DeviceIInv, PhoneIInv, StorageFollows
<1> QED
  BY <1>1, DeviceInvariance, PTL

\* client.ts: a request, also one that is sent again, travels with a token of the
\* login that made it.
THEOREM NeverAnothersToken == DeviceSpec => []OwnTokenOnly
PROOF
<1>1. DeviceIInv => OwnTokenOnly
  BY DEF DeviceIInv, PhoneIInv, CallsOK, CallOK, OwnTokenOnly
<1> QED
  BY <1>1, DeviceInvariance, PTL
--------------------------------------------------------------------------------
(* Why a refresh is not refused without a cause.                           *)

Unanswered(s) == s.answer \in {NoToken, Refused} /\ ~ s.saving

\* The token the phone goes on with: the one in memory, unless a newer one is on
\* the way there, in an answer or in the queue.
Newest(k) ==
    \/ k = store /\ \A x \in flights : x.token = store => Unanswered(x.state)
    \/ \E x \in flights : x.token = store /\ x.state.answer = k
    \/ \E i \in 1..Len(queue) : queue[i].token = k /\ queue[i].revision = revision
    \/ signing.answer = k

\* The server has stored its hash, or is about to.
Expected(k) ==
    /\ k.family \notin revoked
    /\ \A t \in Slots : Unsaved(t) /\ req[t].family = k.family =>
          /\ fresh[t] = k.id
          /\ req[t].kind = "login" => req[t].user = k.user
    /\ \/ \E t \in Slots : Unsaved(t) /\ req[t].family = k.family
       \/ owner[k.family] # NoUser /\ current[k.family] = k.id

\* Nobody ends its login, and only the token in memory is refreshed for it.
Untouched(f) ==
    /\ \A m \in farewell : m.family # f
    /\ \A t \in Slots : req[t].kind = "logout" => req[t].family # f
    /\ \A x \in flights : x.token.family = f => x.token = store

NewestExpected == \A k \in issued : Newest(k) => Expected(k) /\ Untouched(k.family)

NobodyRefused == \A x \in flights : x.token = store => x.state.answer # Refused

EveryRefreshAwaited == \A t \in Slots : pc[t] = "locked" => \E x \in flights : x.state.slot = t

Calm == NewestExpected /\ NobodyRefused /\ EveryRefreshAwaited

\* What holds whatever is lost: a slot refreshes the token of the flight it works
\* for, a sign-in waits for a login, and what was ended was issued before.
AskedAsMeant ==
    \A x \in flights : x.state.slot # NoSlot =>
        /\ x.state.answer = NoToken /\ ~ x.state.saving
        /\ req[x.state.slot].id = x.token.id /\ req[x.state.slot].user = x.token.user

SignInWaits == signing.slot # NoSlot => pc[signing.slot] = "verified"

EndedWereIssued ==
    /\ \A f \in revoked : \E k \in issued : k.family = f
    /\ \A t \in Slots : req[t].kind = "logout" => \E k \in issued : k.family = req[t].family

Meant == AskedAsMeant /\ SignInWaits /\ EndedWereIssued /\ expired = {}

CalmIInv == DeviceIInv /\ Meant /\ (Undisturbed => Calm)

LEMMA FlightFacts ==
    ASSUME DeviceIInv, NEW x \in flights
    PROVE  /\ x.token \in issued /\ x.token # NoToken
           /\ x.state.answer \in issued \cup {NoToken, Refused}
           /\ x.state.saving => x.state.slot = NoSlot /\ x.state.answer = NoToken
           /\ x.state.slot # NoSlot =>
                 /\ x.state.slot \in Slots /\ pc[x.state.slot] = "locked"
                 /\ req[x.state.slot].kind = "refresh" /\ req[x.state.slot].family = x.token.family
           /\ \A y \in flights : y.token = x.token => y = x
PROOF
<1>1. FlightOK(x) /\ \A y \in flights : y.token = x.token => y = x
  BY DEF DeviceIInv, PhoneIInv, FlightsOK
<1>2. x.token \in issued /\ x.token # NoToken
  BY <1>1, Markers DEF FlightOK, DeviceIInv
<1>3. x.state.saving => x.state.slot = NoSlot /\ x.state.answer = NoToken
  BY <1>1 DEF FlightOK, StateOK, Saving, NotAsked
<1> QED
  BY <1>1, <1>2, <1>3 DEF FlightOK, StateOK, States

\* A step of the phone alone.
LEMMA PhoneAlone ==
    ASSUME CalmIInv, UNCHANGED loginVars,
           \A x \in flights' : x.state.slot # NoSlot => x \in flights,
           signing' = signing \/ signing'.slot = NoSlot,
           Undisturbed' =>
              /\ Undisturbed /\ NobodyRefused'
              /\ \A x \in flights : x.state.slot # NoSlot => x \in flights'
              /\ \A k \in issued : Newest(k)' => Newest(k) /\ Untouched(k.family)'
    PROVE  Meant' /\ (Undisturbed' => Calm')
PROOF
<1>1. UNCHANGED <<owner, current, revoked, expired, pc, req, fresh, issued>>
  BY DEF loginVars
<1>2. AskedAsMeant' /\ SignInWaits' /\ EndedWereIssued' /\ expired' = {}
  BY <1>1 DEF CalmIInv, Meant, AskedAsMeant, SignInWaits, EndedWereIssued
<1>3. ASSUME Undisturbed' PROVE Calm'
  <2>1. Calm /\ NobodyRefused'
    BY <1>3 DEF CalmIInv
  <2>2. EveryRefreshAwaited'
    <3>1. ASSUME NEW t \in Slots, pc'[t] = "locked" PROVE \E x \in flights' : x.state.slot = t
      <4>1. PICK x \in flights : x.state.slot = t
        BY <1>1, <2>1, <3>1 DEF Calm, EveryRefreshAwaited
      <4>2. t # NoSlot
        BY DeviceAssumption
      <4> QED
        BY <1>3, <4>1, <4>2
    <3> QED
      BY <3>1 DEF EveryRefreshAwaited
  <2>3. \A k : Expected(k) => Expected(k)'
    BY <1>1 DEF Expected, Unsaved
  <2>4. NewestExpected'
    BY <1>1, <1>3, <2>1, <2>3 DEF Calm, NewestExpected
  <2> QED
    BY <2>1, <2>2, <2>4 DEF Calm
<1> QED
  BY <1>2, <1>3 DEF Meant

LEMMA FaultDisturbs ==
    ASSUME DeviceIInv, Fault
    PROVE  ~ Undisturbed'
PROOF
<1>1. faults \in Nat
  BY DEF DeviceIInv, PhoneIInv, PhoneShaped, MemoryShaped
<1> QED
  BY <1>1 DEF Fault, Undisturbed

\* A sign-out leaves nothing to go on with.
LEMMA SignedOut ==
    ASSUME DeviceIInv, store # NoToken, SignOut(queue), flights' \subseteq flights, UNCHANGED signing
    PROVE  NobodyRefused' /\ \A k \in issued : ~ Newest(k)'
PROOF
<1>1. /\ signing = NotAsked /\ NoToken \notin issued /\ store' = NoToken /\ revision' = revision + 1
      /\ revision \in Nat
  BY InMemory, Markers DEF SignOut, DeviceIInv, PhoneIInv, PhoneShaped, MemoryShaped
<1>2. \A x \in flights' : x.token # NoToken
  BY FlightFacts
<1>3. ASSUME NEW i \in 1..Len(queue') PROVE queue'[i].token = NoToken \/ queue'[i].revision # revision'
  <2>1. PICK w : /\ w = [token |-> NoToken, revision |-> revision + 1, from |-> NoToken, running |-> FALSE]
                 /\ queue' = Append(queue, w)
    BY DEF SignOut, Enqueue
  <2>2. w \in Writes /\ w.token = NoToken
    BY <1>1, <2>1 DEF Writes, TokensOrNone
  <2>3. queue \in Seq(Writes) /\ \A j \in 1..Len(queue) : WriteOK(queue[j])
    BY DEF DeviceIInv, PhoneIInv, PhoneShaped, QueueShaped
  <2>4. i \in 1..Len(queue) + 1 /\ queue'[Len(queue) + 1] = w /\ \A j \in 1..Len(queue) : queue'[j] = queue[j]
    BY <2>1, <2>2, <2>3, Appended
  <2>5. CASE i \in 1..Len(queue)
    <3>1. queue'[i].revision \in Nat /\ queue'[i].revision <= revision
      BY <2>3, <2>4, <2>5 DEF WriteOK, Writes
    <3> QED
      BY <1>1, <3>1
  <2>6. CASE i = Len(queue) + 1
    BY <2>2, <2>4, <2>6
  <2>7. Len(queue) \in Nat
    BY <2>3
  <2> QED
    BY <2>4, <2>5, <2>6, <2>7
<1>4. NobodyRefused'
  BY <1>1, <1>2 DEF NobodyRefused
<1>5. ASSUME NEW k \in issued, Newest(k)' PROVE FALSE
  <2>1. k # NoToken
    BY <1>1
  <2>2. signing'.answer = NoToken
    BY <1>1 DEF NotAsked
  <2> QED
    BY <1>1, <1>2, <1>3, <1>5, <2>1, <2>2 DEF Newest
<1> QED
  BY <1>4, <1>5

LEMMA SignStepsCalm ==
    ASSUME CalmIInv, SignedIn \/ SignInLost \/ PressSignOut \/ StartWrite \/ AgeAccess \/ Restart
    PROVE  Meant' /\ (Undisturbed' => Calm')
PROOF
<1>1. DeviceIInv /\ UNCHANGED <<loginVars>>
  BY DEF CalmIInv, SignedIn, SignInLost, PressSignOut, StartWrite, AgeAccess, Restart
<1>2. UNCHANGED <<issued, req, crashes>> /\ NoToken \notin issued /\ Refused \notin issued
  BY <1>1, Markers DEF loginVars, DeviceIInv
<1>3. Undisturbed => NewestExpected /\ NobodyRefused
  BY DEF CalmIInv, Calm
<1>4. CASE SignedIn
  <2>1. PICK w : w = [token |-> signing.answer, revision |-> revision + 1, from |-> NoToken, running |-> FALSE]
    OBVIOUS
  <2>2. /\ signing.answer \in issued /\ revision' = revision + 1 /\ queue' = Append(queue, w)
        /\ signing' = Saving /\ UNCHANGED <<store, flights, farewell, faults>> /\ revision \in Nat
    BY <1>4, <2>1 DEF SignedIn, Enqueue, DeviceIInv, PhoneIInv, PhoneShaped, MemoryShaped, CalmIInv
  <2>3. queue \in Seq(Writes) /\ \A j \in 1..Len(queue) : WriteOK(queue[j])
    BY <1>1 DEF DeviceIInv, PhoneIInv, PhoneShaped, QueueShaped
  <2>4. w \in Writes /\ w.token = signing.answer
    <3>1. signing.answer \in TokensOrNone
      BY <1>1, <2>2, Markers DEF TokensOrNone, DeviceIInv
    <3> QED
      BY <2>1, <2>2, <3>1 DEF Writes, TokensOrNone
  <2>5. /\ Len(queue') = Len(queue) + 1 /\ Len(queue) \in Nat /\ queue'[Len(queue) + 1] = w
        /\ \A j \in 1..Len(queue) : queue'[j] = queue[j]
    BY <2>2, <2>3, <2>4, Appended
  <2>6. ASSUME NEW i \in 1..Len(queue'), queue'[i].revision = revision'
        PROVE  queue'[i].token = signing.answer
    <3>1. CASE i \in 1..Len(queue)
      <4>1. queue'[i].revision \in Nat /\ queue'[i].revision <= revision
        BY <2>3, <2>5, <3>1 DEF WriteOK, Writes
      <4> QED
        BY <2>2, <2>6, <4>1
    <3>2. CASE i = Len(queue) + 1
      BY <2>4, <2>5, <3>2
    <3> QED
      BY <2>5, <3>1, <3>2
  <2>7. signing'.slot = NoSlot /\ signing'.answer = NoToken
    BY <2>2 DEF Saving, NotAsked
  <2>8. \A k \in issued : Newest(k)' => Newest(k)
    BY <1>2, <2>2, <2>6, <2>7 DEF Newest
  <2>9. Undisturbed' =>
           /\ Undisturbed /\ NobodyRefused'
           /\ \A k \in issued : Newest(k)' => Newest(k) /\ Untouched(k.family)'
    BY <1>2, <1>3, <2>2, <2>8 DEF Undisturbed, NewestExpected, NobodyRefused, Untouched
  <2> QED
    BY <1>1, <2>2, <2>7, <2>9, PhoneAlone
<1>5. CASE SignInLost
  <2>1. signing' = NotAsked /\ UNCHANGED <<store, revision, queue, flights, farewell>>
    BY <1>5 DEF SignInLost
  <2>2. signing'.slot = NoSlot /\ signing'.answer = NoToken
    BY <2>1 DEF NotAsked
  <2>3. Undisturbed' => Undisturbed
    BY <1>1, <1>2, <1>5, FaultDisturbs DEF SignInLost, Undisturbed
  <2>4. \A k \in issued : Newest(k)' => Newest(k)
    BY <1>2, <2>1, <2>2 DEF Newest
  <2>5. Undisturbed' =>
           /\ Undisturbed /\ NobodyRefused'
           /\ \A k \in issued : Newest(k)' => Newest(k) /\ Untouched(k.family)'
    BY <1>2, <1>3, <2>1, <2>3, <2>4 DEF NewestExpected, NobodyRefused, Untouched
  <2> QED
    BY <1>1, <2>1, <2>2, <2>5, PhoneAlone
<1>6. CASE PressSignOut
  <2>1. store # NoToken /\ SignOut(queue) /\ UNCHANGED <<signing, flights, faults>>
    BY <1>6 DEF PressSignOut
  <2>2. NobodyRefused' /\ \A k \in issued : ~ Newest(k)'
    BY <1>1, <2>1, SignedOut
  <2>3. Undisturbed' => Undisturbed
    BY <1>2, <2>1 DEF Undisturbed
  <2> QED
    BY <1>1, <2>1, <2>2, <2>3, PhoneAlone
<1>7. CASE StartWrite \/ AgeAccess
  <2>1. UNCHANGED <<store, revision, signing, flights, farewell, faults>>
    BY <1>7 DEF StartWrite, AgeAccess
  <2>2. \A k \in issued : Newest(k)' => Newest(k)
    <3>1. CASE AgeAccess
      BY <2>1, <3>1 DEF AgeAccess, Newest
    <3>2. CASE StartWrite
      <4>1. queue # <<>> /\ queue' = [queue EXCEPT ![1].running = TRUE]
        BY <3>2 DEF StartWrite
      <4>2. queue \in Seq(Writes)
        BY <1>1 DEF DeviceIInv, PhoneIInv, PhoneShaped, QueueShaped
      <4>3. /\ Len(queue') = Len(queue)
            /\ \A i \in 1..Len(queue) : queue'[i].token = queue[i].token /\ queue'[i].revision = queue[i].revision
        <5>1. \A i \in 1..Len(queue) : queue[i] \in Writes
          BY <4>2
        <5> QED
          BY <4>1, <4>2, <5>1 DEF Writes
      <4> QED
        BY <2>1, <4>3 DEF Newest
    <3> QED
      BY <1>7, <3>1, <3>2
  <2>3. Undisturbed' =>
           /\ Undisturbed /\ NobodyRefused'
           /\ \A k \in issued : Newest(k)' => Newest(k) /\ Untouched(k.family)'
    BY <1>2, <1>3, <2>1, <2>2 DEF Undisturbed, NewestExpected, NobodyRefused, Untouched
  <2> QED
    BY <1>1, <2>1, <2>3, PhoneAlone
<1>8. CASE Restart
  <2>1. flights' = {} /\ signing'.slot = NoSlot /\ ~ Undisturbed'
    BY <1>1, <1>8, FaultDisturbs DEF Restart, NotAsked
  <2> QED
    BY <1>1, <2>1, PhoneAlone
<1> QED
  BY <1>4, <1>5, <1>6, <1>7, <1>8

LEMMA CallStepsCalm ==
    ASSUME CalmIInv, NEW c \in Calls,
           Send(c) \/ Served(c) \/ GiveUp(c) \/ RetryLate(c) \/ AwaitRefresh(c)
    PROVE  Meant' /\ (Undisturbed' => Calm')
PROOF
<1>1. /\ DeviceIInv /\ UNCHANGED loginVars /\ UNCHANGED <<store, revision, queue, signing, farewell, faults>>
  BY DEF CalmIInv, Send, Served, GiveUp, RetryLate, AwaitRefresh
<1>2. UNCHANGED <<issued, req, crashes>> /\ NoToken \notin issued /\ NoToken # Refused
  BY <1>1, Markers DEF loginVars, DeviceIInv
<1>3. flights \subseteq flights' /\ \A x \in flights' : x \in flights \/ (x.token = store /\ x.state = NotAsked)
  <2>1. PICK y : y = [token |-> store, state |-> NotAsked]
    OBVIOUS
  <2>2. flights' \in {flights, flights \cup {y}}
    BY <2>1 DEF Send, Served, GiveUp, RetryLate, AwaitRefresh
  <2>3. y.token = store /\ y.state = NotAsked
    BY <2>1
  <2> QED
    BY <2>2, <2>3
<1>4. NotAsked.slot = NoSlot /\ NotAsked.answer = NoToken
  BY DEF NotAsked
<1>5. \A k \in issued : Newest(k)' => Newest(k)
  BY <1>1, <1>2, <1>3, <1>4 DEF Newest
<1>6. Undisturbed' => Undisturbed /\ NewestExpected /\ NobodyRefused
  BY <1>1, <1>2 DEF CalmIInv, Calm, Undisturbed
<1>7. NobodyRefused => NobodyRefused'
  BY <1>1, <1>2, <1>3, <1>4 DEF NobodyRefused
<1>8. \A f : Untouched(f) => Untouched(f)'
  BY <1>1, <1>2, <1>3 DEF Untouched
<1>9. \A x \in flights' : x.state.slot # NoSlot => x \in flights
  BY <1>3, <1>4
<1> QED
  BY <1>1, <1>3, <1>5, <1>6, <1>7, <1>8, <1>9, PhoneAlone DEF NewestExpected

LEMMA RevokeNothingCalm ==
    ASSUME CalmIInv, NEW m \in farewell, RevokeNothing(m)
    PROVE  Meant' /\ (Undisturbed' => Calm')
PROOF
<1>1. /\ DeviceIInv /\ UNCHANGED loginVars /\ UNCHANGED <<store, revision, queue, signing, flights>>
      /\ farewell' \subseteq farewell
  BY DEF CalmIInv, RevokeNothing
<1>2. UNCHANGED <<issued, req, crashes>>
  BY <1>1 DEF loginVars
<1>3. Undisturbed' => Undisturbed /\ NewestExpected /\ NobodyRefused
  BY <1>1, <1>2, FaultDisturbs DEF CalmIInv, Calm, RevokeNothing, Undisturbed
<1>4. \A k \in issued : Newest(k)' => Newest(k)
  BY <1>1 DEF Newest
<1>5. NobodyRefused => NobodyRefused'
  BY <1>1 DEF NobodyRefused
<1>6. \A f : Untouched(f) => Untouched(f)'
  BY <1>1, <1>2 DEF Untouched
<1> QED
  BY <1>1, <1>3, <1>4, <1>5, <1>6, PhoneAlone DEF NewestExpected

\* A refresh that ends: that of the token in memory only with a sign-out.
LEMMA RejectedCalm ==
    ASSUME CalmIInv, NEW x \in flights, RefreshDenied(x) \/ RefreshLost(x) \/ RefreshDropped(x)
    PROVE  Meant' /\ (Undisturbed' => Calm')
PROOF
<1>1. DeviceIInv /\ UNCHANGED loginVars /\ Reject(x, queue) /\ UNCHANGED signing
  BY DEF CalmIInv, RefreshDenied, RefreshLost, RefreshDropped
<1>2. UNCHANGED <<issued, req, crashes>> /\ flights' = flights \ {x} /\ x.token # NoToken
  BY <1>1, FlightFacts DEF loginVars, Reject
<1>3. Undisturbed' => Undisturbed /\ NewestExpected /\ NobodyRefused /\ x.state.slot = NoSlot
  <2>1. CASE RefreshLost(x)
    BY <1>1, <2>1, FaultDisturbs DEF RefreshLost
  <2>2. CASE RefreshDenied(x) \/ RefreshDropped(x)
    <3>1. UNCHANGED faults
      BY <2>2 DEF RefreshDenied, RefreshDropped
    <3>2. x.state.slot = NoSlot
      <4>1. NoToken \notin issued /\ NoToken # Refused
        BY <1>1, Markers DEF DeviceIInv
      <4>2. x.state = NotAsked \/ x.state.answer \in issued \cup {Refused}
        BY <2>2 DEF RefreshDenied, RefreshDropped
      <4>3. NotAsked.slot = NoSlot
        BY DEF NotAsked
      <4> QED
        BY <4>1, <4>2, <4>3 DEF CalmIInv, Meant, AskedAsMeant
    <3> QED
      BY <1>2, <3>1, <3>2 DEF CalmIInv, Calm, Undisturbed
  <2> QED
    BY <2>1, <2>2
<1>4. \A y \in flights' : y.state.slot # NoSlot => y \in flights
  BY <1>2
<1>5. CASE store = x.token
  <2>1. SignOut(queue)
    BY <1>1, <1>5 DEF Reject
  <2>2. NobodyRefused' /\ \A k \in issued : ~ Newest(k)'
    BY <1>1, <1>2, <1>5, <2>1, SignedOut
  <2>3. Undisturbed' => \A y \in flights : y.state.slot # NoSlot => y \in flights'
    BY <1>2, <1>3
  <2> QED
    BY <1>1, <1>3, <1>4, <2>2, <2>3, PhoneAlone
<1>6. CASE store # x.token
  <2>1. UNCHANGED <<store, revision, queue, farewell>>
    BY <1>1, <1>6 DEF Reject
  <2>2. \A k \in issued : Newest(k)' => Newest(k)
    BY <1>1, <1>2, <1>6, <2>1 DEF Newest
  <2>3. NobodyRefused => NobodyRefused'
    BY <1>2, <2>1 DEF NobodyRefused
  <2>4. \A f : Untouched(f) => Untouched(f)'
    BY <1>2, <2>1 DEF Untouched
  <2>5. Undisturbed' => \A y \in flights : y.state.slot # NoSlot => y \in flights'
    BY <1>2, <1>3
  <2> QED
    BY <1>1, <1>3, <1>4, <2>2, <2>3, <2>4, <2>5, PhoneAlone DEF NewestExpected
<1> QED
  BY <1>5, <1>6

LEMMA RefreshedCalm ==
    ASSUME CalmIInv, NEW x \in flights, Refreshed(x)
    PROVE  Meant' /\ (Undisturbed' => Calm')
PROOF
<1>1. PICK w : w = [token |-> x.state.answer, revision |-> revision, from |-> x.token, running |-> FALSE]
  OBVIOUS
<1>2. /\ DeviceIInv /\ UNCHANGED loginVars /\ UNCHANGED <<store, revision, signing, farewell, faults>>
      /\ x.state.answer \in issued /\ store = x.token /\ queue' = Append(queue, w)
      /\ flights' = (flights \ {x}) \cup {[x EXCEPT !.state = Saving]}
  BY <1>1 DEF CalmIInv, Refreshed, Enqueue
<1>3. UNCHANGED <<issued, req, crashes>> /\ NoToken \notin issued /\ NoToken # Refused /\ Refused \notin issued
  BY <1>2, Markers DEF loginVars, DeviceIInv
<1>4. /\ x.token \in issued /\ x.token # NoToken /\ x.state.slot = NoSlot
      /\ \A y \in flights : y.token = x.token => y = x
  BY <1>2, <1>3, FlightFacts DEF CalmIInv, Meant, AskedAsMeant
<1>5. PICK z : z = [x EXCEPT !.state = Saving]
  OBVIOUS
<1>6. z.token = x.token /\ z.state = Saving /\ Saving.slot = NoSlot /\ Saving.answer = NoToken /\ Saving.saving
  BY <1>2, <1>5 DEF DeviceIInv, PhoneIInv, FlightsOK, FlightOK, Flights, Saving, NotAsked
<1>7. \A y \in flights' : (y \in flights /\ y # x) \/ y = z
  BY <1>2, <1>5
<1>8. /\ Len(queue') = Len(queue) + 1 /\ queue'[Len(queue) + 1] = w /\ Len(queue) \in Nat
      /\ \A i \in 1..Len(queue) : queue'[i] = queue[i]
  <2>1. queue \in Seq(Writes)
    BY <1>2 DEF DeviceIInv, PhoneIInv, PhoneShaped, QueueShaped
  <2>2. revision \in Nat /\ x.token \in TokensOrNone /\ x.state.answer \in TokensOrNone
    BY <1>2, <1>4, Markers DEF DeviceIInv, PhoneIInv, PhoneShaped, MemoryShaped, TokensOrNone
  <2>3. w \in Writes
    BY <1>1, <2>2 DEF Writes
  <2> QED
    BY <1>2, <2>1, <2>3, Appended
<1>9. \A i \in 1..Len(queue') : i \in 1..Len(queue) \/ i = Len(queue) + 1
  BY <1>8
<1>10. ASSUME NEW k \in issued, Newest(k)' PROVE Newest(k)
  <2>1. z \in flights' /\ ~ Unanswered(z.state)
    BY <1>2, <1>5, <1>6 DEF Unanswered
  <2>2. ~ (k = store' /\ \A y \in flights' : y.token = store' => Unanswered(y.state))
    BY <1>2, <1>6, <2>1
  <2>3. ~ (\E y \in flights' : y.token = store' /\ y.state.answer = k)
    BY <1>2, <1>3, <1>4, <1>6, <1>7
  <2>4. CASE signing'.answer = k
    BY <1>2, <2>4 DEF Newest
  <2>5. CASE \E i \in 1..Len(queue') : queue'[i].token = k /\ queue'[i].revision = revision'
    <3>1. PICK i \in 1..Len(queue') : queue'[i].token = k /\ queue'[i].revision = revision'
      BY <2>5
    <3>2. CASE i \in 1..Len(queue)
      BY <1>2, <1>8, <3>1, <3>2 DEF Newest
    <3>3. CASE i = Len(queue) + 1
      <4>1. k = x.state.answer
        BY <1>1, <1>8, <3>1, <3>3
      <4> QED
        BY <1>2, <4>1 DEF Newest
    <3> QED
      BY <1>9, <3>2, <3>3
  <2> QED
    BY <1>10, <2>2, <2>3, <2>4, <2>5 DEF Newest
<1>11. Undisturbed' => Undisturbed /\ NewestExpected /\ NobodyRefused
  BY <1>2, <1>3 DEF CalmIInv, Calm, Undisturbed
<1>12. NobodyRefused => NobodyRefused'
  BY <1>2, <1>3, <1>6, <1>7 DEF NobodyRefused
<1>13. \A f : Untouched(f) => Untouched(f)'
  BY <1>2, <1>3, <1>6, <1>7 DEF Untouched
<1>14. /\ \A y \in flights' : y.state.slot # NoSlot => y \in flights
       /\ \A y \in flights : y.state.slot # NoSlot => y \in flights'
  BY <1>2, <1>4, <1>6, <1>7
<1> QED
  BY <1>2, <1>10, <1>11, <1>12, <1>13, <1>14, PhoneAlone DEF NewestExpected

\* The continuations of a write: what was in the queue is in memory, and no other
\* refresh of that login is under way.
LEMMA WritesCalm ==
    ASSUME CalmIInv, DeviceIInv', EndWrite \/ SkipWrite
    PROVE  Meant' /\ (Undisturbed' => Calm')
PROOF
<1>1. PICK w : w = queue[1]
  OBVIOUS
<1>2. /\ DeviceIInv /\ queue # <<>> /\ Settled(w) /\ queue' = Tail(queue) /\ 1 \in 1..Len(queue)
      /\ UNCHANGED loginVars /\ UNCHANGED <<revision, farewell, faults>>
      /\ SkipWrite => w.token # NoToken /\ w.revision # revision
  BY <1>1, HeadDone DEF CalmIInv, EndWrite, SkipWrite
<1>3. /\ UNCHANGED <<issued, req, crashes>> /\ NoToken \notin issued /\ NoToken # Refused
      /\ w.token \in issued \cup {NoToken}
  BY <1>1, <1>2, Markers DEF loginVars, DeviceIInv, PhoneIInv, PhoneShaped, QueueShaped, WriteOK, Kept
<1>4. /\ flights' = {x \in flights : ~ (x.state.saving /\ x.token = w.from)}
      /\ store' = IF w.token # NoToken /\ w.revision = revision THEN w.token ELSE store
      /\ signing' \in {NotAsked, signing} /\ NotAsked.slot = NoSlot /\ NotAsked.answer = NoToken
  BY <1>2 DEF Settled, NotAsked
<1>5. Undisturbed' => Undisturbed /\ NewestExpected /\ NobodyRefused
  BY <1>2, <1>3 DEF CalmIInv, Calm, Undisturbed
<1>6. /\ \A x \in flights' : x \in flights
      /\ \A x \in flights : x.state.slot # NoSlot => x \in flights'
  BY <1>2, <1>4, FlightFacts
<1>7. ASSUME NEW i \in 1..Len(queue')
      PROVE  \E j \in 1..Len(queue) : queue'[i] = queue[j]
  BY <1>2, HeadDone
<1>8. signing' = signing \/ signing'.slot = NoSlot
  BY <1>4
<1>9. CASE w.token # NoToken /\ w.revision = revision
  <2>1. store' = w.token /\ w.token \in issued /\ Newest(w.token)
    BY <1>1, <1>2, <1>3, <1>4, <1>9 DEF Newest
  <2>2. store \in {NoToken, w.from}
    BY <1>1, <1>2, InMemory
  <2>3. ASSUME Untouched(w.token.family), NEW x \in flights' PROVE x.token.family # w.token.family
    <3>1. SUFFICES ASSUME x.token.family = w.token.family PROVE FALSE
      OBVIOUS
    <3>2. x \in flights /\ x.token = store /\ x.token # NoToken
      BY <1>2, <1>6, <2>3, <3>1, FlightFacts DEF Untouched
    <3>3. store = w.from /\ \E y \in flights : y.token = w.from /\ y.state.saving
      BY <1>1, <1>2, <2>2, <3>2, InMemory DEF Pending
    <3>4. x.state.saving
      BY <1>2, <3>2, <3>3, FlightFacts
    <3> QED
      BY <1>4, <3>2, <3>3, <3>4
  <2>4. ASSUME NEW k \in issued, Newest(k)', Untouched(w.token.family) PROVE Newest(k)
    <3>1. CASE k = store'
      BY <2>1, <3>1
    <3>2. CASE \E x \in flights' : x.token = store' /\ x.state.answer = k
      BY <2>1, <2>3, <2>4, <3>2
    <3>3. CASE \E i \in 1..Len(queue') : queue'[i].token = k /\ queue'[i].revision = revision'
      BY <1>2, <1>7, <3>3 DEF Newest
    <3>4. CASE signing'.answer = k
      BY <1>3, <1>4, <3>4 DEF Newest
    <3> QED
      BY <2>4, <3>1, <3>2, <3>3, <3>4 DEF Newest
  <2>5. ASSUME NEW k \in issued, Newest(k)', Untouched(w.token.family), Untouched(k.family)
        PROVE  Untouched(k.family)'
    <3>1. ASSUME NEW x \in flights', x.token.family = k.family PROVE x.token = store'
      <4>1. x \in flights /\ x.token = store /\ x.token # NoToken
        BY <1>2, <1>6, <2>5, <3>1, FlightFacts DEF Untouched
      <4>2. store = w.from /\ w.from # NoToken
        BY <2>2, <4>1
      <4>3. w.token.family = w.from.family
        BY <1>1, <1>2, <2>1, <4>2, <1>3 DEF DeviceIInv, PhoneIInv, PhoneShaped, QueueShaped, WriteOK
      <4> QED
        BY <2>3, <2>5, <4>1, <4>2, <4>3
    <3> QED
      BY <1>2, <1>3, <2>5, <3>1 DEF Untouched
  <2>6. ASSUME Untouched(w.token.family) PROVE NobodyRefused'
    BY <2>1, <2>3, <2>6 DEF NobodyRefused
  <2>7. Undisturbed' => Untouched(w.token.family)
    BY <1>5, <2>1 DEF NewestExpected
  <2>8. Undisturbed' => \A k \in issued : Newest(k)' => Newest(k) /\ Untouched(k.family)'
    BY <1>5, <2>4, <2>5, <2>7 DEF NewestExpected
  <2> QED
    BY <1>2, <1>5, <1>6, <1>8, <2>6, <2>7, <2>8, PhoneAlone
<1>10. CASE ~ (w.token # NoToken /\ w.revision = revision)
  <2>1. store' = store
    BY <1>4, <1>10
  <2>2. store = NoToken
    <3>1. store # NoToken => w.token # NoToken /\ w.revision = revision
      BY <1>1, <1>2, InMemory DEF Pending
    <3> QED
      BY <1>10, <3>1
  <2>3. \A x \in flights : x.token # store
    BY <1>2, <2>2, FlightFacts
  <2>4. ASSUME NEW k \in issued, Newest(k)' PROVE Newest(k)
    <3>1. CASE \E i \in 1..Len(queue') : queue'[i].token = k /\ queue'[i].revision = revision'
      BY <1>2, <1>7, <3>1 DEF Newest
    <3>2. CASE signing'.answer = k
      BY <1>3, <1>4, <3>2 DEF Newest
    <3>3. k # store'
      BY <1>3, <2>1, <2>2
    <3>4. \A x \in flights' : x.token # store'
      BY <1>6, <2>1, <2>3
    <3> QED
      BY <2>4, <3>1, <3>2, <3>3, <3>4 DEF Newest
  <2>5. NobodyRefused'
    BY <1>6, <2>1, <2>3 DEF NobodyRefused
  <2>6. \A f : Untouched(f) => Untouched(f)'
    BY <1>2, <1>3, <1>6, <2>1 DEF Untouched
  <2> QED
    BY <1>2, <1>5, <1>6, <1>8, <2>4, <2>5, <2>6, PhoneAlone DEF NewestExpected
<1> QED
  BY <1>9, <1>10

LEMMA FailWriteCalm ==
    ASSUME CalmIInv, FailWrite
    PROVE  Meant' /\ (Undisturbed' => Calm')
PROOF
<1>1. UNCHANGED loginVars /\ ~ Undisturbed'
  BY FaultDisturbs DEF CalmIInv, FailWrite
<1>2. /\ \A x \in flights' : x.state.slot # NoSlot => x \in flights
      /\ signing' = signing \/ signing'.slot = NoSlot
  BY DEF FailWrite, Reject, NotAsked
<1> QED
  BY <1>1, <1>2, PhoneAlone

\* A slot that takes up a request was idle: it works for nobody and has nothing
\* unsaved, before and after.
LEMMA TakenUp ==
    ASSUME CalmIInv, NEW t \in Slots, NEW r, NEW place, Accept(t, r, place),
           UNCHANGED <<rows, fresh, logs, crashes, faults>>,
           place = "written" => r.kind \notin {"login", "refresh"},
           r.kind = "logout" => \E k \in issued : k.family = r.family
    PROVE  /\ UNCHANGED issued /\ (Undisturbed' <=> Undisturbed)
           /\ pc'[t] = place /\ req'[t] = r
           /\ \A s \in Slots : s # t => pc'[s] = pc[s] /\ req'[s] = req[s]
           /\ \A x \in flights : x.state.slot # t
           /\ signing.slot # t
           /\ EndedWereIssued' /\ expired' = {}
           /\ \A k : Expected(k) => Expected(k)'
PROOF
<1>1. /\ pc[t] = "idle" /\ pc'[t] = place /\ req'[t] = r
      /\ \A s \in Slots : s # t => pc'[s] = pc[s] /\ req'[s] = req[s]
  BY AcceptElsewhere DEF CalmIInv, DeviceIInv
<1>2. UNCHANGED <<owner, current, revoked, expired, fresh, issued>> /\ (Undisturbed' <=> Undisturbed)
  BY DEF rows, logs, Undisturbed
<1>3. \A x \in flights : x.state.slot # t
  BY <1>1, FlightFacts, DeviceAssumption DEF CalmIInv
<1>4. signing.slot # t
  BY <1>1, DeviceAssumption DEF CalmIInv, Meant, SignInWaits
<1>5. EndedWereIssued' /\ expired' = {}
  BY <1>1, <1>2 DEF CalmIInv, Meant, EndedWereIssued
<1>6. \A s \in Slots : (Unsaved(s)' <=> Unsaved(s)) /\ (Unsaved(s) => req'[s] = req[s])
  BY <1>1 DEF Unsaved
<1>7. ASSUME NEW k, Expected(k) PROVE Expected(k)'
  BY <1>2, <1>6, <1>7 DEF Expected
<1> QED
  BY <1>1, <1>2, <1>3, <1>4, <1>5, <1>7

LEMMA RequestsCalm ==
    ASSUME CalmIInv,
           \/ \E t \in Slots, u \in Users : SignIn(t, u) \/ FollowResetLink(t, u)
           \/ \E k \in farewell, t \in Slots : RevokeLogin(t, k)
    PROVE  Meant' /\ (Undisturbed' => Calm')
PROOF
<1>1. ASSUME NEW t \in Slots, NEW r, NEW place, Accept(t, r, place), place # "locked",
             UNCHANGED <<rows, fresh, logs, crashes, faults>>,
             UNCHANGED <<store, revision, queue, flights>>, farewell' \subseteq farewell,
             \/ signing' = signing
             \/ signing' = Asked(t) /\ place = "verified",
             place = "written" => r.kind \notin {"login", "refresh"},
             r.kind = "logout" => \E m \in farewell : m.family = r.family
      PROVE  Meant' /\ (Undisturbed' => Calm')
  <2>1. NoToken \notin issued /\ farewell \subseteq issued
    BY Markers DEF CalmIInv, DeviceIInv, PhoneIInv, PhoneShaped, MemoryShaped
  <2>2. /\ UNCHANGED issued /\ (Undisturbed' <=> Undisturbed)
        /\ pc'[t] = place /\ req'[t] = r
        /\ \A s \in Slots : s # t => pc'[s] = pc[s] /\ req'[s] = req[s]
        /\ \A x \in flights : x.state.slot # t
        /\ signing.slot # t
        /\ EndedWereIssued' /\ expired' = {}
        /\ \A k : Expected(k) => Expected(k)'
    BY <1>1, <2>1, TakenUp
  <2>3. Asked(t).slot = t /\ Asked(t).answer = NoToken
    BY DEF Asked, NotAsked
  <2>4. AskedAsMeant'
    BY <1>1, <2>2, FlightFacts DEF CalmIInv, Meant, AskedAsMeant
  <2>5. SignInWaits'
    <3>1. signing.slot \in Slots \cup {NoSlot}
      BY DEF CalmIInv, DeviceIInv, PhoneIInv, PhoneShaped, StateOK, States
    <3> QED
      BY <1>1, <2>2, <2>3, <3>1 DEF CalmIInv, Meant, SignInWaits
  <2>6. \A k \in issued : Newest(k)' => Newest(k)
    BY <1>1, <2>1, <2>3 DEF Newest
  <2>7. \A f : Untouched(f) => Untouched(f)'
    BY <1>1, <2>2 DEF Untouched
  <2>8. Calm => Calm'
    BY <1>1, <2>2, <2>6, <2>7 DEF Calm, NewestExpected, NobodyRefused, EveryRefreshAwaited
  <2> QED
    BY <2>2, <2>4, <2>5, <2>8 DEF CalmIInv, Meant
<1>2. ASSUME NEW t \in Slots, NEW u \in Users, SignIn(t, u) PROVE Meant' /\ (Undisturbed' => Calm')
  <2>1. /\ Accept(t, LoginRequest(u), "verified") /\ signing' = Asked(t)
        /\ UNCHANGED <<rows, fresh, logs, crashes, faults>>
        /\ UNCHANGED <<store, revision, queue, flights>> /\ farewell' = farewell
    BY <1>2 DEF SignIn, Login
  <2>2. LoginRequest(u).kind = "login"
    BY DEF LoginRequest
  <2> QED
    BY <1>1, <2>1, <2>2
<1>3. ASSUME NEW t \in Slots, NEW u \in Users, FollowResetLink(t, u) PROVE Meant' /\ (Undisturbed' => Calm')
  <2>1. /\ Accept(t, ResetRequest(u, password[u]), "written") /\ signing' = signing
        /\ UNCHANGED <<rows, fresh, logs, crashes, faults>>
        /\ UNCHANGED <<store, revision, queue, flights>> /\ farewell' = farewell
    BY <1>3 DEF FollowResetLink, Reset, deviceVars
  <2>2. ResetRequest(u, password[u]).kind = "reset"
    BY DEF ResetRequest
  <2> QED
    BY <1>1, <2>1, <2>2
<1>4. ASSUME NEW k \in farewell, NEW t \in Slots, RevokeLogin(t, k) PROVE Meant' /\ (Undisturbed' => Calm')
  <2>1. /\ Accept(t, LogoutRequest(k), "written") /\ signing' = signing
        /\ UNCHANGED <<rows, fresh, logs, crashes, faults>>
        /\ UNCHANGED <<store, revision, queue, flights>> /\ farewell' \subseteq farewell
    BY <1>4 DEF RevokeLogin, Logout
  <2>2. LogoutRequest(k).kind = "logout" /\ LogoutRequest(k).family = k.family
    BY DEF LogoutRequest
  <2> QED
    BY <1>1, <2>1, <2>2
<1> QED
  BY <1>2, <1>3, <1>4

LEMMA AskRefreshCalm ==
    ASSUME CalmIInv, NEW x \in flights, NEW t \in Slots, AskRefresh(t, x)
    PROVE  Meant' /\ (Undisturbed' => Calm')
PROOF
<1>1. PICK y : y = [x EXCEPT !.state = Asked(t)]
  OBVIOUS
<1>2. /\ x.state = NotAsked /\ Accept(t, RefreshRequest(x.token), "locked")
      /\ flights' = (flights \ {x}) \cup {y}
      /\ UNCHANGED <<rows, fresh, logs, crashes, faults>> /\ UNCHANGED <<store, revision, queue, signing, farewell>>
  BY <1>1 DEF AskRefresh, Refresh
<1>3. /\ NoToken \notin issued /\ NoToken # Refused
      /\ NotAsked.slot = NoSlot /\ NotAsked.answer = NoToken /\ ~ NotAsked.saving
      /\ Asked(t).slot = t /\ Asked(t).answer = NoToken /\ ~ Asked(t).saving
  BY Markers DEF CalmIInv, DeviceIInv, NotAsked, Asked
<1>4. y.token = x.token /\ y.state = Asked(t)
  BY <1>1 DEF CalmIInv, DeviceIInv, PhoneIInv, FlightsOK, FlightOK, Flights
<1>5. /\ RefreshRequest(x.token).kind = "refresh" /\ RefreshRequest(x.token).id = x.token.id
      /\ RefreshRequest(x.token).user = x.token.user
  BY DEF RefreshRequest
<1>6. /\ UNCHANGED issued /\ (Undisturbed' <=> Undisturbed)
      /\ pc'[t] = "locked" /\ req'[t] = RefreshRequest(x.token)
      /\ \A s \in Slots : s # t => pc'[s] = pc[s] /\ req'[s] = req[s]
      /\ \A z \in flights : z.state.slot # t
      /\ signing.slot # t
      /\ EndedWereIssued' /\ expired' = {}
      /\ \A k : Expected(k) => Expected(k)'
  BY <1>2, <1>5, TakenUp
<1>7. \A z \in flights' : (z \in flights /\ z # x) \/ z = y
  BY <1>2
<1>8. AskedAsMeant'
  <2>1. ASSUME NEW z \in flights', z.state.slot # NoSlot
        PROVE  /\ z.state.answer = NoToken /\ ~ z.state.saving
               /\ req'[z.state.slot].id = z.token.id /\ req'[z.state.slot].user = z.token.user
    <3>1. CASE z = y
      BY <1>3, <1>4, <1>5, <1>6, <3>1
    <3>2. CASE z \in flights
      <4>1. z.state.slot \in Slots /\ z.state.slot # t
        BY <1>6, <2>1, <3>2, FlightFacts DEF CalmIInv
      <4> QED
        BY <1>6, <2>1, <3>2, <4>1 DEF CalmIInv, Meant, AskedAsMeant
    <3> QED
      BY <1>7, <3>1, <3>2
  <2> QED
    BY <2>1 DEF AskedAsMeant
<1>9. SignInWaits'
  <2>1. signing.slot \in Slots \cup {NoSlot}
    BY DEF CalmIInv, DeviceIInv, PhoneIInv, PhoneShaped, StateOK, States
  <2> QED
    BY <1>2, <1>6, <2>1 DEF CalmIInv, Meant, SignInWaits
<1>10. ASSUME NEW k \in issued, Newest(k)' PROVE Newest(k)
  <2>1. CASE k = store /\ \A z \in flights' : z.token = store => Unanswered(z.state)
    <3>1. Unanswered(x.state)
      BY <1>2, <1>3 DEF Unanswered
    <3> QED
      BY <1>2, <2>1, <3>1 DEF Newest
  <2>2. CASE \E z \in flights' : z.token = store /\ z.state.answer = k
    BY <1>3, <1>4, <1>7, <2>2 DEF Newest
  <2> QED
    BY <1>2, <1>10, <2>1, <2>2 DEF Newest
<1>11. \A f : Untouched(f) => Untouched(f)'
  BY <1>2, <1>4, <1>5, <1>6, <1>7 DEF Untouched
<1>12. NobodyRefused => NobodyRefused'
  BY <1>2, <1>3, <1>4, <1>7 DEF NobodyRefused
<1>13. EveryRefreshAwaited => EveryRefreshAwaited'
  <2>1. ASSUME EveryRefreshAwaited, NEW s \in Slots, pc'[s] = "locked"
        PROVE  \E z \in flights' : z.state.slot = s
    <3>1. CASE s = t
      BY <1>2, <1>3, <1>4, <3>1
    <3>2. CASE s # t
      <4>1. PICK z \in flights : z.state.slot = s
        BY <1>6, <2>1, <3>2 DEF EveryRefreshAwaited
      <4>2. z # x
        BY <1>2, <1>3, <4>1, DeviceAssumption
      <4> QED
        BY <1>2, <4>1, <4>2
    <3> QED
      BY <3>1, <3>2
  <2> QED
    BY <2>1 DEF EveryRefreshAwaited
<1> QED
  BY <1>6, <1>8, <1>9, <1>10, <1>11, <1>12, <1>13 DEF CalmIInv, Meant, Calm, NewestExpected

\* An answer of slot t: a new token, or a refusal.
Reply(s) ==
    /\ s.slot = NoSlot /\ ~ s.saving
    /\ issued' # issued => s.answer \in issued' \ issued
    /\ issued' = issued => s.answer = Refused

LEMMA RepliedTo ==
    ASSUME issued \subseteq issued', NEW t, NEW s
    PROVE  /\ s.slot # t => Answered(t, s) = s
           /\ s.slot = t /\ (issued' # issued \/ pc'[t] = "idle") => Reply(Answered(t, s))
PROOF
<1>1. ASSUME s.slot = t, issued' # issued PROVE Reply(Answered(t, s))
  <2>1. PICK k : k = CHOOSE j \in issued' : j \notin issued
    OBVIOUS
  <2>2. k \in issued' \ issued
    BY <1>1, <2>1
  <2>3. Answered(t, s) = [slot |-> NoSlot, answer |-> k, saving |-> FALSE]
    BY <1>1, <2>1 DEF Answered, NotAsked
  <2> QED
    BY <1>1, <2>2, <2>3 DEF Reply
<1>2. ASSUME s.slot = t, issued' = issued, pc'[t] = "idle" PROVE Reply(Answered(t, s))
  <2>1. Answered(t, s) = [slot |-> NoSlot, answer |-> Refused, saving |-> FALSE]
    BY <1>2 DEF Answered, NotAsked
  <2> QED
    BY <1>2, <2>1 DEF Reply
<1> QED
  BY <1>1, <1>2 DEF Answered

\* Whoever waits for slot t has its reply, nobody else notices.
LEMMA Replies ==
    ASSUME CalmIInv, IInv', NEW t \in Slots, Server(t)
    PROVE  /\ UNCHANGED <<store, revision, queue, farewell, faults>> /\ issued \subseteq issued'
           /\ \A s \in Slots : s # t => pc'[s] = pc[s] /\ req'[s] = req[s]
           /\ IF signing.slot = t THEN pc[t] = "verified" /\ Reply(signing') ELSE signing' = signing
           /\ \A x \in flights :
                 IF x.state.slot = t
                 THEN pc[t] = "locked" /\ \E z \in flights' : z.token = x.token /\ Reply(z.state)
                 ELSE x \in flights'
           /\ \A z \in flights' :
                 \/ z \in flights /\ z.state.slot # t
                 \/ Reply(z.state) /\ \E x \in flights : x.state.slot = t /\ x.token = z.token
PROOF
<1>1. /\ Handle(t) \/ Crash(t)
      /\ signing' = Answered(t, signing)
      /\ flights' = {[x EXCEPT !.state = Answered(t, @)] : x \in flights}
      /\ UNCHANGED <<store, revision, queue, farewell, faults>>
  BY DEF Server
<1>2. /\ \A s \in Slots : s # t => pc'[s] = pc[s] /\ req'[s] = req[s]
      /\ issued \subseteq issued'
      /\ pc[t] = "locked" /\ req[t].kind = "refresh" => issued' # issued \/ pc'[t] = "idle"
  BY <1>1, ServerStep DEF CalmIInv, DeviceIInv
<1>3. ASSUME pc[t] = "verified" PROVE issued' # issued \/ pc'[t] = "idle"
  <2>1. CASE StartSession(t)
    <3>0. PICK f \in Families : Issue(t, f, 0, req[t].proof)
      BY <2>1 DEF StartSession
    <3>1. PICK k : /\ k = [user |-> req[t].user, family |-> f, ver |-> held[t], id |-> minted + 1,
                           parent |-> 0, proof |-> req[t].proof]
                   /\ issued' = issued \cup {k}
      BY <3>0 DEF Issue
    <3>2. minted \in Nat /\ \A j \in issued : j.id \in 1..minted
      BY Markers DEF CalmIInv, DeviceIInv
    <3> QED
      BY <3>1, <3>2
  <2>2. CASE ~ StartSession(t)
    <3>1. End(t)
      BY <1>1, <1>3, <2>2
      DEF Handle, RefreshRefused, RefreshReplayed, RefreshRotates, CommitLogin, CommitRefresh, CommitLogout,
          CommitReset, Crash
    <3> QED
      BY <3>1 DEF End, CalmIInv, DeviceIInv, IInv, LoginTypeOK
  <2> QED
    BY <2>1, <2>2
<1>4. IF signing.slot = t THEN pc[t] = "verified" /\ Reply(signing') ELSE signing' = signing
  <2>1. signing.slot = t => pc[t] = "verified"
    BY DeviceAssumption DEF CalmIInv, Meant, SignInWaits
  <2> QED
    BY <1>1, <1>2, <1>3, <2>1, RepliedTo
<1>5. ASSUME NEW x \in flights, NEW z, z = [x EXCEPT !.state = Answered(t, @)]
      PROVE  /\ z.token = x.token
             /\ x.state.slot # t => z = x
             /\ x.state.slot = t => pc[t] = "locked" /\ Reply(z.state)
  <2>1. PICK a : a = Answered(t, x.state)
    OBVIOUS
  <2>2. x = [token |-> x.token, state |-> x.state] /\ z = [token |-> x.token, state |-> a]
    BY <1>5, <2>1 DEF CalmIInv, DeviceIInv, PhoneIInv, FlightsOK, FlightOK, Flights
  <2>3. x.state.slot # t => a = x.state
    BY <1>2, <2>1, RepliedTo
  <2>4. x.state.slot = t => pc[t] = "locked" /\ req[t].kind = "refresh"
    BY FlightFacts, DeviceAssumption DEF CalmIInv
  <2>5. x.state.slot = t => Reply(a)
    BY <1>2, <2>1, <2>4, RepliedTo
  <2>6. z.token = x.token /\ z.state = a
    BY <2>2
  <2> QED
    BY <2>2, <2>3, <2>4, <2>5, <2>6
<1>6. ASSUME NEW x \in flights
      PROVE  IF x.state.slot = t
             THEN pc[t] = "locked" /\ \E z \in flights' : z.token = x.token /\ Reply(z.state)
             ELSE x \in flights'
  <2>1. PICK z : z = [x EXCEPT !.state = Answered(t, @)]
    OBVIOUS
  <2>2. z \in flights'
    BY <1>1, <2>1
  <2> QED
    BY <1>5, <2>1, <2>2
<1>7. ASSUME NEW z \in flights'
      PROVE  \/ z \in flights /\ z.state.slot # t
             \/ Reply(z.state) /\ \E x \in flights : x.state.slot = t /\ x.token = z.token
  <2>1. PICK x \in flights : z = [x EXCEPT !.state = Answered(t, @)]
    BY <1>1
  <2> QED
    BY <1>5, <2>1
<1> QED
  BY <1>1, <1>2, <1>4, <1>6, <1>7

LEMMA ServerMeant ==
    ASSUME CalmIInv, IInv', NEW t \in Slots, Server(t)
    PROVE  Meant'
PROOF
<1>1. /\ issued \subseteq issued'
      /\ \A s \in Slots : s # t => pc'[s] = pc[s] /\ req'[s] = req[s]
      /\ IF signing.slot = t THEN pc[t] = "verified" /\ Reply(signing') ELSE signing' = signing
      /\ \A z \in flights' : (z \in flights /\ z.state.slot # t) \/ Reply(z.state)
  BY Replies
<1>2. AskedAsMeant'
  <2>1. ASSUME NEW z \in flights', z.state.slot # NoSlot
        PROVE  /\ z.state.answer = NoToken /\ ~ z.state.saving
               /\ req'[z.state.slot].id = z.token.id /\ req'[z.state.slot].user = z.token.user
    <3>1. z \in flights /\ z.state.slot # t
      BY <1>1, <2>1 DEF Reply
    <3>2. z.state.slot \in Slots
      BY <2>1, <3>1, FlightFacts DEF CalmIInv
    <3> QED
      BY <1>1, <2>1, <3>1, <3>2 DEF CalmIInv, Meant, AskedAsMeant
  <2> QED
    BY <2>1 DEF AskedAsMeant
<1>3. SignInWaits'
  <2>1. signing.slot \in Slots \cup {NoSlot}
    BY DEF CalmIInv, DeviceIInv, PhoneIInv, PhoneShaped, StateOK, States
  <2> QED
    BY <1>1, <2>1 DEF CalmIInv, Meant, SignInWaits, Reply
<1>4. UNCHANGED expired
  BY DEF Server, Handle, Crash, StartSession, RefreshRefused, RefreshReplayed, RefreshRotates, CommitLogin,
         CommitRefresh, CommitLogout, CommitReset, rows
<1>5. \A f \in revoked' : f \in revoked \/ \E k \in issued : k.family = f
  <2>1. CASE CommitLogout(t)
    BY <2>1 DEF CommitLogout, CalmIInv, Meant, EndedWereIssued
  <2>2. CASE RefreshReplayed(t)
    <3>1. /\ revoked' = revoked \cup {req[t].family} /\ owner[req[t].family] # NoUser
          /\ pc[t] = "locked" /\ req[t].kind = "refresh"
      BY <2>2 DEF RefreshReplayed, Active
    <3>2. req[t].family \in Families
      BY <3>1 DEF CalmIInv, DeviceIInv, IInv, Addressed
    <3>3. \E k \in issued : k.family = req[t].family
      BY <3>1, <3>2 DEF CalmIInv, DeviceIInv, IInv, RowsOfTokens
    <3> QED
      BY <3>1, <3>3
  <2>3. CASE ~ CommitLogout(t) /\ ~ RefreshReplayed(t)
    BY <2>3
    DEF Server, Handle, Crash, StartSession, RefreshRefused, RefreshRotates, CommitLogin, CommitRefresh,
        CommitReset, rows
  <2> QED
    BY <2>1, <2>2, <2>3
<1>6. req'[t].kind = "logout" => req[t].kind = "logout" /\ req'[t].family = req[t].family
  <2>1. NoRequest.kind = "none"
    BY DEF NoRequest
  <2>2. CASE StartSession(t)
    <3>1. pc[t] = "verified" /\ \E f : req' = [req EXCEPT ![t].family = f]
      BY <2>2 DEF StartSession
    <3>2. req[t].kind = "login" /\ req \in [Slots -> Requests]
      BY <3>1 DEF CalmIInv, DeviceIInv, IInv, Addressed, LoginTypeOK
    <3>3. req'[t].kind = req[t].kind
      BY <3>1, <3>2 DEF Requests
    <3> QED
      BY <3>2, <3>3
  <2>3. CASE RefreshRotates(t)
    BY <2>3 DEF RefreshRotates
  <2>4. CASE ~ StartSession(t) /\ ~ RefreshRotates(t)
    <3>1. End(t)
      BY <2>4
      DEF Server, Handle, RefreshRefused, RefreshReplayed, CommitLogin, CommitRefresh, CommitLogout,
          CommitReset, Crash
    <3> QED
      BY <2>1, <3>1 DEF End, CalmIInv, DeviceIInv, IInv, LoginTypeOK
  <2> QED
    BY <2>2, <2>3, <2>4
<1>7. EndedWereIssued'
  BY <1>1, <1>5, <1>6 DEF CalmIInv, Meant, EndedWereIssued
<1> QED
  BY <1>2, <1>3, <1>4, <1>7 DEF CalmIInv, Meant

\* The refresh of the token in memory is not refused: its hash is stored, and is the
\* one that was asked for.
LEMMA Confirmed ==
    ASSUME CalmIInv, Calm, NEW t \in Slots, pc[t] = "locked", FamilyFree(req[t].family),
           NEW x \in flights, x.state.slot = t, x.token = store
    PROVE  /\ Active(req[t].family) /\ current[req[t].family] = req[t].id
           /\ req[t].family = store.family /\ store \in issued
           /\ Expected(store) /\ Untouched(store.family)
           /\ \A s \in Slots : ~ (Unsaved(s) /\ req[s].family = store.family)
PROOF
<1>1. /\ x.token \in issued /\ req[t].kind = "refresh" /\ req[t].family = x.token.family
      /\ x.state.answer = NoToken /\ ~ x.state.saving
      /\ req[t].id = x.token.id /\ req[t].user = x.token.user
      /\ \A y \in flights : y.token = x.token => y = x
  BY FlightFacts, DeviceAssumption DEF CalmIInv, Meant, AskedAsMeant
<1>2. Newest(store)
  BY <1>1 DEF Newest, Unanswered
<1>3. Expected(store) /\ Untouched(store.family)
  BY <1>1, <1>2 DEF Calm, NewestExpected
<1>4. ASSUME NEW s \in Slots, Unsaved(s), req[s].family = store.family PROVE FALSE
  <2>1. req[s].kind # "refresh"
    BY <1>1, <1>4 DEF FamilyFree, HoldsFamily, Unsaved
  <2>2. req[s].kind = "login" /\ pc[s] = "written" /\ req[s].user = store.user
    BY <1>3, <1>4, <2>1 DEF Unsaved, Expected
  <2>3. req[t].user \in Users
    BY <1>1 DEF CalmIInv, DeviceIInv, IInv, Addressed
  <2>4. HoldsUser(t, req[t].user) /\ PinsUser(s, req[t].user) /\ s # t
    BY <1>1, <2>2 DEF HoldsUser, PinsUser
  <2> QED
    BY <2>3, <2>4 DEF CalmIInv, DeviceIInv, IInv, UserExclusive
<1>5. owner[store.family] # NoUser /\ current[store.family] = store.id /\ store.family \notin revoked
  BY <1>3, <1>4 DEF Expected
<1>6. Active(store.family)
  BY <1>5 DEF Active, CalmIInv, Meant
<1> QED
  BY <1>1, <1>3, <1>4, <1>5, <1>6

\* A token that was newest before the answer, if it still is.
LEMMA StillNewest ==
    ASSUME CalmIInv, IInv', NEW t \in Slots, Server(t), NEW k \in issued, Newest(k)'
    PROVE  /\ Newest(k)
           /\ issued' # issued => \A x \in flights : x.state.slot = t => x.token # store
PROOF
<1>1. /\ UNCHANGED <<store, revision, queue>> /\ issued \subseteq issued'
      /\ IF signing.slot = t THEN Reply(signing') ELSE signing' = signing
      /\ \A x \in flights :
            IF x.state.slot = t
            THEN pc[t] = "locked" /\ \E z \in flights' : z.token = x.token /\ Reply(z.state)
            ELSE x \in flights'
      /\ \A z \in flights' :
            \/ z \in flights /\ z.state.slot # t
            \/ Reply(z.state) /\ \E x \in flights : x.state.slot = t /\ x.token = z.token
  BY Replies
<1>2. NoToken \notin issued /\ Refused \notin issued
  BY Markers DEF CalmIInv, DeviceIInv
<1>3. \A s : Reply(s) => s.answer # k
  BY <1>2 DEF Reply
<1>4. \A x \in flights : x.state.slot = t => x.state.answer = NoToken /\ ~ x.state.saving
  BY DeviceAssumption DEF CalmIInv, Meant, AskedAsMeant
<1>5. CASE k = store' /\ \A z \in flights' : z.token = store' => Unanswered(z.state)
  <2>1. ASSUME NEW x \in flights, x.token = store PROVE Unanswered(x.state)
    BY <1>1, <1>4, <1>5, <2>1 DEF Unanswered
  <2>2. ASSUME issued' # issued, NEW x \in flights, x.state.slot = t, x.token = store PROVE FALSE
    <3>1. PICK z \in flights' : z.token = store /\ Reply(z.state)
      BY <1>1, <2>2
    <3>2. z.state.answer \notin issued /\ z.state.answer \in issued'
      BY <2>2, <3>1 DEF Reply
    <3>3. NoToken \notin issued' /\ Refused \notin issued'
      BY DeviceAssumption DEF IInv, LoginTypeOK
    <3> QED
      BY <1>1, <1>5, <3>1, <3>2, <3>3 DEF Unanswered
  <2> QED
    BY <1>1, <1>5, <2>1, <2>2 DEF Newest
<1>6. CASE \E z \in flights' : z.token = store' /\ z.state.answer = k
  <2>1. PICK z \in flights' : z.token = store /\ z.state.answer = k
    BY <1>1, <1>6
  <2>2. z \in flights /\ z.state.slot # t
    BY <1>1, <1>3, <2>1
  <2>3. \A x \in flights : x.state.slot = t => x.token # store
    BY <2>1, <2>2, FlightFacts DEF CalmIInv
  <2> QED
    BY <2>1, <2>2, <2>3 DEF Newest
<1>7. CASE \E i \in 1..Len(queue') : queue'[i].token = k /\ queue'[i].revision = revision'
  <2>1. PICK i \in 1..Len(queue) : queue[i].token = k /\ queue[i].revision = revision
    BY <1>1, <1>7
  <2>2. ASSUME NEW x \in flights, x.state.slot = t, x.token = store PROVE FALSE
    <3>1. store # NoToken /\ \A y \in flights : y.token = store => y = x
      BY <2>2, FlightFacts DEF CalmIInv
    <3>2. \E y \in flights : y.token = store /\ y.state.saving
      BY <2>1, <3>1, InMemory DEF CalmIInv, Pending
    <3> QED
      BY <1>4, <2>2, <3>1, <3>2
  <2> QED
    BY <2>1, <2>2 DEF Newest
<1>8. CASE signing'.answer = k
  <2>1. signing' = signing /\ signing.answer = k
    BY <1>1, <1>3, <1>8
  <2>2. signing # NotAsked
    BY <1>2, <2>1 DEF NotAsked
  <2>3. store = NoToken
    BY <2>2 DEF CalmIInv, DeviceIInv, PhoneIInv, StorageFollows
  <2>4. \A x \in flights : x.token # store
    BY <2>3, FlightFacts DEF CalmIInv
  <2> QED
    BY <2>1, <2>4 DEF Newest
<1> QED
  BY <1>5, <1>6, <1>7, <1>8 DEF Newest

\* What is left to show of a step of slot t.
LEMMA ServerCalm ==
    ASSUME CalmIInv, IInv', Calm, NEW t \in Slots, Server(t), pc'[t] # "locked", req'[t].kind # "logout",
           \A x \in flights : x.state.slot = t /\ x.token = store => issued' # issued,
           \A k \in issued : Newest(k)' /\ Expected(k) /\ Untouched(k.family) => Expected(k)',
           \A k \in issued' \ issued : Newest(k)' => Expected(k)' /\ Untouched(k.family)
    PROVE  Calm'
PROOF
<1>1. /\ UNCHANGED <<store, farewell>> /\ issued \subseteq issued'
      /\ \A s \in Slots : s # t => pc'[s] = pc[s] /\ req'[s] = req[s]
      /\ \A x \in flights : x.state.slot # t => x \in flights'
      /\ \A z \in flights' :
            \/ z \in flights /\ z.state.slot # t
            \/ Reply(z.state) /\ \E x \in flights : x.state.slot = t /\ x.token = z.token
  BY Replies
<1>2. \A f : Untouched(f) => Untouched(f)'
  BY <1>1 DEF Untouched
<1>3. EveryRefreshAwaited'
  <2>1. ASSUME NEW s \in Slots, pc'[s] = "locked" PROVE \E z \in flights' : z.state.slot = s
    <3>1. s # t /\ pc[s] = "locked"
      BY <1>1, <2>1
    <3>2. PICK x \in flights : x.state.slot = s
      BY <3>1 DEF Calm, EveryRefreshAwaited
    <3> QED
      BY <1>1, <3>1, <3>2
  <2> QED
    BY <2>1 DEF EveryRefreshAwaited
<1>4. NobodyRefused'
  <2>1. ASSUME NEW z \in flights', z.token = store, z.state.answer = Refused PROVE FALSE
    <3>1. CASE z \in flights
      BY <2>1, <3>1 DEF Calm, NobodyRefused
    <3>2. CASE Reply(z.state) /\ \E x \in flights : x.state.slot = t /\ x.token = z.token
      <4>1. Refused \in issued'
        BY <2>1, <3>2 DEF Reply
      <4> QED
        BY <4>1, DeviceAssumption DEF IInv, LoginTypeOK
    <3> QED
      BY <1>1, <3>1, <3>2
  <2> QED
    BY <1>1, <2>1 DEF NobodyRefused
<1>5. NewestExpected'
  <2>1. ASSUME NEW k \in issued', Newest(k)' PROVE Expected(k)' /\ Untouched(k.family)
    <3>1. CASE k \in issued
      BY <2>1, <3>1, StillNewest DEF Calm, NewestExpected
    <3>2. CASE k \notin issued
      BY <2>1, <3>2
    <3> QED
      BY <3>1, <3>2
  <2> QED
    BY <1>2, <2>1 DEF NewestExpected
<1> QED
  BY <1>3, <1>4, <1>5 DEF Calm

\* A slot that ends, or revokes a login that is spent.
LEMMA EndingCalm ==
    ASSUME CalmIInv, IInv', Calm, NEW t \in Slots, Server(t),
           \/ RefreshRefused(t) \/ RefreshReplayed(t) \/ CommitLogin(t) \/ CommitRefresh(t)
           \/ CommitLogout(t) \/ CommitReset(t)
    PROVE  Calm'
PROOF
<1>1. End(t) /\ UNCHANGED issued
  BY DEF RefreshRefused, RefreshReplayed, CommitLogin, CommitRefresh, CommitLogout, CommitReset, logs
<1>2. /\ pc'[t] = "idle" /\ req'[t] = NoRequest
      /\ \A s \in Slots : s # t => pc'[s] = pc[s] /\ req'[s] = req[s] /\ fresh'[s] = fresh[s]
  BY <1>1 DEF End, CalmIInv, DeviceIInv, IInv, LoginTypeOK
<1>3. pc'[t] # "locked" /\ req'[t].kind # "logout"
  BY <1>2 DEF NoRequest
<1>4. \A s \in Slots : Unsaved(s)' <=> (s # t /\ Unsaved(s))
  BY <1>2 DEF Unsaved
<1>5. ASSUME NEW x \in flights, x.state.slot = t, x.token = store PROVE FALSE
  <2>1. pc[t] = "locked"
    BY <1>5, FlightFacts, DeviceAssumption DEF CalmIInv
  <2>2. /\ FamilyFree(req[t].family)
        /\ ~ Active(req[t].family) \/ current[req[t].family] # req[t].id
    BY <2>1 DEF RefreshRefused, RefreshReplayed, CommitLogin, CommitRefresh, CommitLogout, CommitReset
  <2> QED
    BY <1>5, <2>1, <2>2, Confirmed
<1>6. ASSUME NEW k \in issued, Expected(k), Untouched(k.family) PROVE Expected(k)'
  <2>1. k.family \in Families
    BY Markers DEF CalmIInv, DeviceIInv
  <2>2. k.family \notin revoked'
    <3>1. CASE CommitLogout(t)
      BY <1>6, <3>1 DEF CommitLogout, Expected, Untouched
    <3>2. CASE RefreshReplayed(t)
      <4>1. PICK x \in flights : x.state.slot = t
        BY <3>2 DEF RefreshReplayed, Calm, EveryRefreshAwaited
      <4>2. req[t].family = x.token.family
        BY <4>1, FlightFacts, DeviceAssumption DEF CalmIInv
      <4>3. req[t].family # k.family
        BY <1>5, <1>6, <4>1, <4>2 DEF Untouched
      <4> QED
        BY <1>6, <3>2, <4>3 DEF RefreshReplayed, Expected
    <3>3. CASE ~ CommitLogout(t) /\ ~ RefreshReplayed(t)
      <4>1. UNCHANGED revoked
        BY <3>3 DEF RefreshRefused, CommitLogin, CommitRefresh, CommitReset, rows
      <4> QED
        BY <1>6, <4>1 DEF Expected
    <3> QED
      BY <3>1, <3>2, <3>3
  <2>3. \A s \in Slots : Unsaved(s)' /\ req'[s].family = k.family =>
            /\ fresh'[s] = k.id
            /\ req'[s].kind = "login" => req'[s].user = k.user
    BY <1>2, <1>4, <1>6 DEF Expected
  <2>4. CASE Unsaved(t) /\ req[t].family = k.family
    <3>1. fresh[t] = k.id /\ owner \in [Families -> Users \cup {NoUser}] /\ current \in [Families -> Nat]
      BY <1>6, <2>4 DEF Expected, CalmIInv, DeviceIInv, IInv, LoginTypeOK
    <3>2. current'[k.family] = k.id
      BY <2>1, <2>4, <3>1
      DEF RefreshRefused, RefreshReplayed, CommitLogin, CommitRefresh, CommitLogout, CommitReset, Unsaved
    <3>3. owner'[k.family] # NoUser
      <4>1. CASE CommitLogin(t)
        <5>1. req[t].user \in Users
          BY <4>1 DEF CommitLogin, CalmIInv, DeviceIInv, IInv, Addressed
        <5> QED
          BY <2>1, <2>4, <3>1, <4>1, <5>1, LoginAssumption DEF CommitLogin
      <4>2. CASE CommitRefresh(t)
        BY <2>1, <2>4, <4>2 DEF CommitRefresh, CalmIInv, DeviceIInv, IInv, RotatesPresent
      <4>3. CommitLogin(t) \/ CommitRefresh(t)
        BY <2>4 DEF RefreshRefused, RefreshReplayed, CommitLogout, CommitReset, Unsaved
      <4> QED
        BY <4>1, <4>2, <4>3
    <3> QED
      BY <2>2, <2>3, <3>2, <3>3 DEF Expected
  <2>5. CASE ~ (Unsaved(t) /\ req[t].family = k.family)
    <3>1. owner'[k.family] = owner[k.family] /\ current'[k.family] = current[k.family]
      BY <2>1, <2>5
      DEF RefreshRefused, RefreshReplayed, CommitLogin, CommitRefresh, CommitLogout, CommitReset, Unsaved,
          rows, CalmIInv, DeviceIInv, IInv, LoginTypeOK
    <3>2. \A s \in Slots : Unsaved(s) /\ req[s].family = k.family => Unsaved(s)' /\ req'[s].family = k.family
      BY <1>2, <1>4, <2>5
    <3> QED
      BY <1>6, <2>2, <2>3, <3>1, <3>2 DEF Expected
  <2> QED
    BY <2>4, <2>5
<1> QED
  BY <1>1, <1>3, <1>5, <1>6, ServerCalm

\* What both tokens of a slot that answers have in common.
LEMMA Minted ==
    ASSUME CalmIInv, IInv', NEW t \in Slots, NEW f, NEW parent, NEW proof, Issue(t, f, parent, proof),
           UNCHANGED rows, \A s \in Slots : s # t => req'[s] = req[s]
    PROVE  /\ UNCHANGED <<owner, current, revoked>> /\ pc'[t] = "written" /\ fresh'[t] = minted + 1
           /\ \A s \in Slots : s # t =>
                 (Unsaved(s)' <=> Unsaved(s)) /\ req'[s] = req[s] /\ fresh'[s] = fresh[s]
           /\ issued' # issued /\ NoToken \notin issued' /\ Refused \notin issued'
           /\ \E k : /\ issued' = issued \cup {k} /\ k \notin issued
                     /\ k.family = f /\ k.id = minted + 1 /\ k.user = req[t].user
PROOF
<1>1. PICK k : /\ k = [user |-> req[t].user, family |-> f, ver |-> held[t], id |-> minted + 1,
                       parent |-> parent, proof |-> proof]
               /\ issued' = issued \cup {k}
  BY DEF Issue
<1>2. minted \in Nat /\ \A j \in issued : j.id \in 1..minted
  BY Markers DEF CalmIInv, DeviceIInv
<1>3. k \notin issued /\ k.family = f /\ k.id = minted + 1 /\ k.user = req[t].user
  BY <1>1, <1>2
<1>4. /\ pc'[t] = "written" /\ fresh'[t] = minted + 1
      /\ \A s \in Slots : s # t => pc'[s] = pc[s] /\ fresh'[s] = fresh[s]
  BY DEF Issue, CalmIInv, DeviceIInv, IInv, LoginTypeOK
<1>5. NoToken \notin issued' /\ Refused \notin issued'
  BY DeviceAssumption DEF IInv, LoginTypeOK
<1> QED
  BY <1>1, <1>3, <1>4, <1>5 DEF rows, Unsaved

LEMMA StartSessionCalm ==
    ASSUME CalmIInv, IInv', Calm, NEW t \in Slots, Server(t), StartSession(t)
    PROVE  Calm'
PROOF
<1>1. PICK f \in Families : /\ \A k \in issued : k.family # f
                            /\ req' = [req EXCEPT ![t].family = f]
                            /\ Issue(t, f, 0, req[t].proof)
  BY DEF StartSession
<1>2. pc[t] = "verified" /\ req[t].kind = "login" /\ UNCHANGED rows /\ req \in [Slots -> Requests]
  BY DEF StartSession, CalmIInv, DeviceIInv, IInv, Addressed, LoginTypeOK
<1>3. /\ req'[t].kind = "login" /\ req'[t].family = f /\ req'[t].user = req[t].user
      /\ \A s \in Slots : s # t => req'[s] = req[s]
  BY <1>1, <1>2 DEF Requests
<1>4. /\ UNCHANGED <<owner, current, revoked>> /\ pc'[t] = "written" /\ fresh'[t] = minted + 1
      /\ \A s \in Slots : s # t =>
            (Unsaved(s)' <=> Unsaved(s)) /\ req'[s] = req[s] /\ fresh'[s] = fresh[s]
      /\ issued' # issued
      /\ \E k : /\ issued' = issued \cup {k} /\ k \notin issued
                /\ k.family = f /\ k.id = minted + 1 /\ k.user = req[t].user
  BY <1>1, <1>2, <1>3, Minted
<1>5. ~ Unsaved(t) /\ Unsaved(t)'
  BY <1>2, <1>3, <1>4 DEF Unsaved
<1>6. ASSUME NEW k \in issued, Expected(k) PROVE Expected(k)'
  <2>1. k.family # f
    BY <1>1
  <2> QED
    BY <1>3, <1>4, <1>5, <1>6, <2>1 DEF Expected
<1>7. ASSUME NEW k \in issued' \ issued PROVE Expected(k)' /\ Untouched(k.family)
  <2>1. k.family = f /\ k.id = minted + 1 /\ k.user = req[t].user
    BY <1>4, <1>7
  <2>2. f \notin revoked
    BY <1>1 DEF CalmIInv, Meant, EndedWereIssued
  <2>3. \A s \in Slots : Unsaved(s) => req[s].family # f
    BY <1>1 DEF CalmIInv, DeviceIInv, IInv, FreshIsFresh
  <2>4. Expected(k)'
    BY <1>3, <1>4, <1>5, <2>1, <2>2, <2>3 DEF Expected
  <2>5. farewell \subseteq issued /\ \A x \in flights : x.token \in issued
    BY FlightFacts DEF CalmIInv, DeviceIInv, PhoneIInv, PhoneShaped, MemoryShaped
  <2>6. Untouched(f)
    BY <1>1, <2>5 DEF Untouched, CalmIInv, Meant, EndedWereIssued
  <2> QED
    BY <2>1, <2>4, <2>6
<1>8. pc'[t] # "locked" /\ req'[t].kind # "logout"
  BY <1>3, <1>4
<1> QED
  BY <1>4, <1>6, <1>7, <1>8, ServerCalm

LEMMA RefreshRotatesCalm ==
    ASSUME CalmIInv, IInv', Calm, NEW t \in Slots, Server(t), RefreshRotates(t)
    PROVE  Calm'
PROOF
<1>1. PICK f : f = req[t].family
  OBVIOUS
<1>2. /\ pc[t] = "locked" /\ req[t].kind = "refresh" /\ FamilyFree(f) /\ Active(f)
      /\ Issue(t, f, req[t].id, req[t].proof) /\ UNCHANGED <<rows, req>>
  BY <1>1 DEF RefreshRotates
<1>3. /\ UNCHANGED <<owner, current, revoked>> /\ pc'[t] = "written" /\ fresh'[t] = minted + 1
      /\ \A s \in Slots : s # t =>
            (Unsaved(s)' <=> Unsaved(s)) /\ req'[s] = req[s] /\ fresh'[s] = fresh[s]
      /\ issued' # issued /\ NoToken \notin issued' /\ Refused \notin issued'
      /\ \E k : /\ issued' = issued \cup {k} /\ k \notin issued
                /\ k.family = f /\ k.id = minted + 1 /\ k.user = req[t].user
  BY <1>2, Minted
<1>4. ~ Unsaved(t) /\ Unsaved(t)'
  BY <1>2, <1>3 DEF Unsaved
<1>5. PICK x \in flights : x.state.slot = t /\ x.token.family = f
  <2>1. PICK x \in flights : x.state.slot = t
    BY <1>2 DEF Calm, EveryRefreshAwaited
  <2> QED
    BY <1>1, <2>1, FlightFacts, DeviceAssumption DEF CalmIInv
<1>6. ASSUME NEW k \in issued, Newest(k)', Expected(k), Untouched(k.family) PROVE Expected(k)'
  <2>1. x.token # store
    BY <1>3, <1>5, <1>6, StillNewest
  <2>2. k.family # f
    BY <1>5, <1>6, <2>1 DEF Untouched
  <2> QED
    BY <1>1, <1>2, <1>3, <1>4, <1>6, <2>2 DEF Expected
<1>7. ASSUME NEW k \in issued' \ issued, Newest(k)' PROVE Expected(k)' /\ Untouched(k.family)
  <2>1. k.family = f /\ k.id = minted + 1 /\ k # NoToken /\ k # Refused
    BY <1>3, <1>7
  <2>2. PICK y \in flights : y.state.slot = t /\ y.token = store
    <3>1. /\ UNCHANGED <<store, revision, queue>>
          /\ IF signing.slot = t THEN pc[t] = "verified" ELSE signing' = signing
          /\ \A z \in flights' :
                \/ z \in flights
                \/ \E y \in flights : y.state.slot = t /\ y.token = z.token
      BY Replies
    <3>2. /\ store # k /\ signing.answer # k
          /\ \A i \in 1..Len(queue) : queue[i].token # k
          /\ \A y \in flights : y.state.answer # k
      BY <1>7, <2>1, FlightFacts
      DEF CalmIInv, DeviceIInv, PhoneIInv, PhoneShaped, MemoryShaped, QueueShaped, WriteOK, Kept, StateOK
    <3>3. PICK z \in flights' : z.token = store /\ z.state.answer = k
      BY <1>2, <1>7, <3>1, <3>2 DEF Newest
    <3> QED
      BY <3>1, <3>2, <3>3
  <2>3. /\ f = store.family /\ Expected(store) /\ Untouched(store.family)
        /\ \A s \in Slots : ~ (Unsaved(s) /\ req[s].family = store.family)
    BY <1>1, <1>2, <2>2, Confirmed
  <2>4. Expected(k)'
    BY <1>1, <1>2, <1>3, <1>4, <2>1, <2>3 DEF Expected
  <2> QED
    BY <2>1, <2>3, <2>4
<1>8. pc'[t] # "locked" /\ req'[t].kind # "logout"
  BY <1>2, <1>3
<1> QED
  BY <1>3, <1>6, <1>7, <1>8, ServerCalm

LEMMA CalmInitIInv == LoginInit /\ DeviceInit => CalmIInv
PROOF
<1> SUFFICES ASSUME LoginInit, DeviceInit PROVE CalmIInv
  OBVIOUS
<1>1. DeviceIInv
  BY DeviceInitIInv
<1>2. Meant
  BY DEF LoginInit, DeviceInit, Meant, AskedAsMeant, SignInWaits, EndedWereIssued, NotAsked, NoRequest
<1>3. NewestExpected
  BY DEF LoginInit, NewestExpected
<1>4. NobodyRefused /\ EveryRefreshAwaited
  BY DEF LoginInit, DeviceInit, NobodyRefused, EveryRefreshAwaited
<1> QED
  BY <1>1, <1>2, <1>3, <1>4 DEF CalmIInv, Calm

LEMMA CalmNextIInv == CalmIInv /\ [DeviceNext]_vars => CalmIInv'
PROOF
<1> SUFFICES ASSUME CalmIInv, [DeviceNext]_vars PROVE CalmIInv'
  OBVIOUS
<1>1. DeviceIInv' /\ IInv'
  BY DeviceNextIInv DEF CalmIInv, DeviceIInv
<1>2. CASE UNCHANGED vars
  <2>1. UNCHANGED loginVars
    BY <1>2 DEF vars
  <2>2. UNCHANGED <<issued, req, crashes, store, revision, queue, signing, flights, farewell, faults>>
    BY <1>2 DEF vars, loginVars, deviceVars
  <2>3. \A k : Newest(k)' <=> Newest(k)
    BY <2>2 DEF Newest
  <2>4. Undisturbed' => Undisturbed /\ NobodyRefused' /\ NewestExpected
    BY <2>2 DEF CalmIInv, Calm, Undisturbed, NobodyRefused
  <2>5. \A f : Untouched(f) => Untouched(f)'
    BY <2>2 DEF Untouched
  <2>6. Meant' /\ (Undisturbed' => Calm')
    BY <2>1, <2>2, <2>3, <2>4, <2>5, PhoneAlone DEF NewestExpected
  <2> QED
    BY <1>1, <2>6 DEF CalmIInv
<1>3. ASSUME NEW t \in Slots, Server(t) PROVE Meant' /\ (Undisturbed' => Calm')
  <2>1. Meant'
    BY <1>1, <1>3, ServerMeant
  <2>2. CASE Crash(t)
    <3>1. crashes \in Nat /\ crashes' = crashes + 1
      BY <2>2 DEF Crash, CalmIInv, DeviceIInv, IInv, LoginTypeOK
    <3>2. ~ Undisturbed'
      BY <3>1 DEF Undisturbed
    <3> QED
      BY <2>1, <3>2
  <2>3. CASE Handle(t)
    <3>1. UNCHANGED <<crashes, faults>>
      BY <1>3, <2>3
      DEF Server, Handle, StartSession, RefreshRefused, RefreshReplayed, RefreshRotates, CommitLogin,
          CommitRefresh, CommitLogout, CommitReset
    <3>2. ASSUME Undisturbed' PROVE Calm'
      <4>1. Calm
        BY <3>1, <3>2 DEF Undisturbed, CalmIInv
      <4> QED
        BY <1>1, <1>3, <2>3, <4>1, EndingCalm, StartSessionCalm, RefreshRotatesCalm DEF Handle
    <3> QED
      BY <2>1, <3>2
  <2> QED
    BY <1>3, <2>2, <2>3 DEF Server
<1>4. CASE DeviceNext
  <2>1. Meant' /\ (Undisturbed' => Calm')
    BY <1>1, <1>3, <1>4, SignStepsCalm, CallStepsCalm, RevokeNothingCalm, RejectedCalm, RefreshedCalm,
       WritesCalm, FailWriteCalm, RequestsCalm, AskRefreshCalm
    DEF DeviceNext
  <2> QED
    BY <1>1, <2>1 DEF CalmIInv
<1> QED
  BY <1>2, <1>4

\* Why nobody is refused: the invariant that relates the refresh under way to the
\* hash stored for its login.
THEOREM CalmInvariance == DeviceSpec => []CalmIInv
PROOF
  BY CalmInitIInv, CalmNextIInv, PTL DEF DeviceSpec

\* client.ts: the interceptor signs nobody out without a cause, however many requests
\* meet a 401 at once: only a reset password, a lost response or a crash is one.
THEOREM SignedOutForCause == DeviceSpec => EvictedForCause
PROOF
<1>1. ASSUME CalmIInv, [DeviceNext]_vars
      PROVE  [Undisturbed' /\ store # NoToken /\ store' = NoToken /\ flights' # flights
                => store.ver # version[store.user]]_vars
  <2>1. SUFFICES ASSUME DeviceNext, Undisturbed', store # NoToken, store' = NoToken, flights' # flights
                 PROVE  store.ver # version[store.user]
    BY <1>1 DEF vars
  <2>2. DeviceIInv /\ ~ Fault
    BY <1>1, <2>1, FaultDisturbs DEF CalmIInv
  <2>3. ASSUME NEW x \in flights, RefreshDenied(x) PROVE store.ver # version[store.user]
    <3>1. UNCHANGED <<crashes, faults>> /\ Reject(x, queue)
      BY <2>3 DEF RefreshDenied, loginVars
    <3>2. NobodyRefused
      BY <1>1, <2>1, <3>1 DEF CalmIInv, Calm, Undisturbed
    <3>3. store = x.token
      BY <2>1, <3>1 DEF Reject
    <3>4. x.state.answer # Refused
      BY <3>2, <3>3 DEF NobodyRefused
    <3> QED
      BY <2>3, <3>3, <3>4 DEF RefreshDenied
  <2>4. ASSUME NEW x \in flights, RefreshDropped(x) PROVE FALSE
    BY <2>1, <2>4 DEF RefreshDropped, Reject
  <2>5. ~ EndWrite /\ ~ SkipWrite
    <3>1. SUFFICES ASSUME EndWrite \/ SkipWrite PROVE FALSE
      OBVIOUS
    <3>2. PICK w : w = queue[1]
      OBVIOUS
    <3>3. 1 \in 1..Len(queue) /\ Settled(w)
      BY <2>2, <3>1, <3>2, HeadDone DEF EndWrite, SkipWrite
    <3>4. w.token # NoToken /\ w.revision = revision
      BY <2>1, <2>2, <3>2, <3>3, InMemory DEF Pending
    <3> QED
      BY <2>1, <3>3, <3>4 DEF Settled
  <2>6. ASSUME NEW c \in Calls, Send(c) \/ Served(c) \/ GiveUp(c) \/ RetryLate(c) \/ AwaitRefresh(c)
        PROVE  FALSE
    BY <2>1, <2>6 DEF Send, Served, GiveUp, RetryLate, AwaitRefresh
  <2>7. ASSUME NEW x \in flights,
               RefreshLost(x) \/ Refreshed(x) \/ \E t \in Slots : AskRefresh(t, x)
        PROVE  FALSE
    BY <2>1, <2>2, <2>7 DEF RefreshLost, Refreshed, AskRefresh
  <2>8. ASSUME NEW t \in Slots, Server(t) \/ \E u \in Users : SignIn(t, u) \/ FollowResetLink(t, u)
        PROVE  FALSE
    BY <2>1, <2>8 DEF Server, SignIn, FollowResetLink, deviceVars
  <2>9. ASSUME NEW k \in farewell, RevokeNothing(k) \/ \E t \in Slots : RevokeLogin(t, k)
        PROVE  FALSE
    BY <2>1, <2>9 DEF RevokeNothing, RevokeLogin
  <2>10. ASSUME SignedIn \/ SignInLost \/ PressSignOut \/ StartWrite \/ FailWrite \/ AgeAccess \/ Restart
         PROVE  FALSE
    BY <2>1, <2>2, <2>10
    DEF SignedIn, SignInLost, PressSignOut, StartWrite, FailWrite, AgeAccess, Restart
  <2> QED
    BY <2>1, <2>3, <2>4, <2>5, <2>6, <2>7, <2>8, <2>9, <2>10 DEF DeviceNext
<1> QED
  BY <1>1, CalmInvariance, PTL DEF DeviceSpec, EvictedForCause
================================================================================
