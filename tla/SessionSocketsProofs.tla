------------------------- MODULE SessionSocketsProofs -------------------------
(***************************************************************************)
(* Delivery to the members of a session, for any number of users, sockets, *)
(* events and failures: the registry keeps the right sockets, events reach *)
(* a client in order, and nobody hears of an event without a right to it.  *)
(***************************************************************************)
EXTENDS SessionSockets, TLAPS

Places       == {"new", "accepting", "replacing", "loop", "answering", "left"}
Deliverers   == Sockets \cup {"listener", "caller"}
Sends(n)     == [by : Deliverers, event : 0..n, to : Sockets, step : {"asked", "cleared"}]
MaybeSockets == Sockets \cup {NoSocket}

\* The shape of the state.
EndpointsShaped ==
    /\ entitled \subseteq Users /\ open \subseteq Sockets /\ authorizers \subseteq Sockets
    /\ pc \in [Sockets -> Places] /\ previous \in [Sockets -> MaybeSockets]
    /\ active \in [Users -> MaybeSockets] /\ latest \in [Users -> MaybeSockets]
    /\ \A u \in Users : active[u] # NoSocket => Owner[active[u]] = u

EventsShaped ==
    /\ published \in 0..MaxEvents
    /\ channel \in Seq(1..published) /\ direct \subseteq 1..published
    /\ sends \subseteq Sends(published)
    /\ got \in [Sockets -> 0..published]
    /\ barred \in [Events -> SUBSET Sockets]

ByListener(x) == x.by = "listener"
ListenerBusy  == listener = "busy" <=> \E x \in sends : ByListener(x)

\* Who is barred from an event has had no rights since; a delivery that was cleared
\* goes to somebody who is not barred.
BarredOutside == \A e \in Events : \A s \in barred[e] : ~ Authorized(s)
ClearedMay    == \A x \in sends : x.step = "cleared" /\ x.event # 0 => x.to \notin barred[x.event]

\* What Redis still has is newer than what the listener delivers, and that is at
\* least as new as what clients have, the events of the fallback set aside.
ChannelAscends == \A i, j \in 1..Len(channel) : i < j => channel[i] < channel[j]
OneAtATime     == \A x, y \in sends : ByListener(x) /\ ByListener(y) => x.event = y.event
OthersDirect   ==
    \A x \in sends : /\ ByListener(x) => x.event # 0
                     /\ ~ ByListener(x) => x.event = 0 \/ x.event \in direct
ChannelNewer   ==
    \A i \in 1..Len(channel) :
        /\ \A s \in Sockets : got[s] \notin direct => got[s] < channel[i]
        /\ \A x \in sends : ByListener(x) => x.event < channel[i]
ListenerNewer  ==
    \A x \in sends : ByListener(x) => \A s \in Sockets : got[s] \notin direct => got[s] <= x.event

RegistryIInv == EndpointsShaped /\ AuthorizersFit /\ RegisteredLive /\ LatestKept
EventsIInv   == EventsShaped /\ ListenerBusy
RightsIInv   == BarredOutside /\ ClearedMay
OrderIInv    == ChannelAscends /\ OneAtATime /\ OthersDirect /\ ChannelNewer /\ ListenerNewer
SocketsIInv  == RegistryIInv /\ EventsIInv /\ RightsIInv /\ OrderIInv

\* Nobody is connected and nothing is on its way at first.
LEMMA SocketsInitIInv == SocketsInit => SocketsIInv
<1> SUFFICES ASSUME SocketsInit PROVE SocketsIInv  OBVIOUS
<1> USE SocketsAssumption DEF SocketsInit
<1>1. EndpointsShaped  BY DEF EndpointsShaped, Places, MaybeSockets
<1>2. AuthorizersFit /\ RegisteredLive /\ LatestKept
  BY DEF AuthorizersFit, RegisteredLive, LatestKept, Registered
<1>3. EventsIInv  BY DEF EventsIInv, EventsShaped, ListenerBusy, ByListener, Events
<1>4. RightsIInv  BY DEF RightsIInv, BarredOutside, ClearedMay, Events
<1>5. OrderIInv
  BY DEF OrderIInv, ChannelAscends, OneAtATime, OthersDirect, ChannelNewer, ListenerNewer
<1> QED  BY <1>1, <1>2, <1>3, <1>4, <1>5 DEF SocketsIInv, RegistryIInv
--------------------------------------------------------------------------------
(* The registry.                                                                  *)

\* Removing a socket takes nothing else away.
LEMMA DisconnectsOne ==
    ASSUME RegistryIInv, NEW s \in Sockets, Disconnect(s)
    PROVE  /\ active' \in [Users -> MaybeSockets] /\ authorizers' \subseteq Sockets
           /\ \A u \in Users : active'[u] # NoSocket => Owner[active'[u]] = u
           /\ AuthorizersFit'
           /\ \A t \in Sockets : Registered(t)' => Registered(t) /\ t # s
           /\ \A t \in Sockets : Registered(t) /\ t # s => Registered(t)'
<1> USE SocketsAssumption DEF RegistryIInv
<1>1. \A t \in Sockets : Owner[t] \in Users  OBVIOUS
<1>2. CASE Registered(s)
  <2>1. /\ active' = [active EXCEPT ![Owner[s]] = NoSocket]
        /\ authorizers' = authorizers \ {s}
    BY <1>2 DEF Disconnect
  <2>2. /\ active' \in [Users -> MaybeSockets] /\ authorizers' \subseteq Sockets
        /\ \A u \in Users : active'[u] # NoSocket => Owner[active'[u]] = u
    BY <2>1 DEF EndpointsShaped, MaybeSockets
  <2>3. \A u \in Users : u # Owner[s] => active[u] # s
    BY DEF EndpointsShaped
  <2>4. \A u \in Users : active'[u] = IF u = Owner[s] THEN NoSocket ELSE active[u]
    BY <2>1 DEF EndpointsShaped
  <2>5. AuthorizersFit'
    BY <1>1, <1>2, <2>1, <2>3, <2>4 DEF AuthorizersFit, Registered
  <2>6. /\ \A t \in Sockets : Registered(t)' => Registered(t) /\ t # s
        /\ \A t \in Sockets : Registered(t) /\ t # s => Registered(t)'
    BY <1>1, <1>2, <2>4 DEF Registered
  <2> QED  BY <2>2, <2>5, <2>6
<1>3. CASE ~ Registered(s)
  BY <1>3 DEF Disconnect, EndpointsShaped, AuthorizersFit, Registered
<1> QED  BY <1>2, <1>3

\* A socket that the endpoint or a delivery gives up: it is closed or counted as
\* dropped, and no registered one falls back to its handshake.
LEMMA GivesUp ==
    ASSUME RegistryIInv, NEW s \in Sockets, Disconnect(s),
           UNCHANGED <<entitled, latest>>,
           previous' \in [Sockets -> MaybeSockets], open' \subseteq open, dropped \subseteq dropped',
           s \in open' => s \in dropped',
           pc' \in [Sockets -> Places],
           \A t \in Sockets : t # s /\ pc'[t] # pc[t] => pc'[t] \notin {"new", "accepting", "left"}
    PROVE  RegistryIInv'
<1> USE DEF RegistryIInv
<1>1. /\ active' \in [Users -> MaybeSockets] /\ authorizers' \subseteq Sockets
      /\ \A u \in Users : active'[u] # NoSocket => Owner[active'[u]] = u
      /\ AuthorizersFit'
      /\ \A t \in Sockets : Registered(t)' => Registered(t) /\ t # s
      /\ \A t \in Sockets : Registered(t) /\ t # s => Registered(t)'
  BY DisconnectsOne
<1>2. EndpointsShaped'  BY <1>1 DEF EndpointsShaped
<1>3. RegisteredLive'
  <2> USE DEF RegisteredLive
  <2> TAKE t \in Sockets
  <2> HAVE Registered(t)'
  <2>1. Registered(t) /\ t # s  BY <1>1
  <2> QED  BY <2>1 DEF RegisteredLive
<1>4. LatestKept'  BY <1>1 DEF LatestKept
<1> QED  BY <1>1, <1>2, <1>3, <1>4

\* The registry itself is untouched: sockets only close, and endpoints of
\* registered sockets stay beyond the handshake.
LEMMA RegistryStays ==
    ASSUME RegistryIInv, UNCHANGED registry, entitled' \subseteq Users,
           previous' \in [Sockets -> MaybeSockets], open' \subseteq open, pc' \in [Sockets -> Places],
           \A t \in Sockets : Registered(t) => pc'[t] \notin {"new", "accepting", "left"}
    PROVE  RegistryIInv'
<1> USE DEF RegistryIInv, registry
<1>1. EndpointsShaped'  BY DEF EndpointsShaped
<1>2. AuthorizersFit'  BY DEF AuthorizersFit
<1>3. RegisteredLive' /\ LatestKept'  BY DEF RegisteredLive, LatestKept, Registered
<1> QED  BY <1>1, <1>2, <1>3

\* A new connection replaces what its user had.
LEMMA ConnectRegistry ==
    ASSUME RegistryIInv, NEW s \in Sockets, Connect(s)
    PROVE  RegistryIInv'
<1> USE SocketsAssumption DEF RegistryIInv
<1> DEFINE before == active[Owner[s]]
<1>1. \A t \in Sockets : Owner[t] \in Users  OBVIOUS
<1>2. ~ Registered(s)  BY DEF RegisteredLive, Connect
<1>3. CASE UNCHANGED <<active, latest, authorizers, open, previous>> /\ Goto(s, "left")
  <2>1. pc' \in [Sockets -> Places]  BY <1>3 DEF Goto, EndpointsShaped, Places
  <2>2. \A t \in Sockets : Registered(t) => pc'[t] \notin {"new", "accepting", "left"}
    BY <1>2, <1>3 DEF Goto, RegisteredLive, EndpointsShaped
  <2> QED  BY <1>3, <2>1, <2>2, RegistryStays DEF registry, Connect, EndpointsShaped
<1>4. CASE /\ active' = [active EXCEPT ![Owner[s]] = s]
           /\ latest' = [latest EXCEPT ![Owner[s]] = s]
           /\ authorizers' = (authorizers \cup {s}) \ {before}
           /\ open' = open \cup {s}
           /\ previous' = [previous EXCEPT ![s] = before]
           /\ Goto(s, IF before = NoSocket THEN "loop" ELSE "replacing")
  <2>1. \A u \in Users : active'[u] = IF u = Owner[s] THEN s ELSE active[u]
    BY <1>4 DEF EndpointsShaped
  <2>2. \A u \in Users : latest'[u] = IF u = Owner[s] THEN s ELSE latest[u]
    BY <1>4 DEF EndpointsShaped
  <2>3. EndpointsShaped'
    <3>1. before \in MaybeSockets  BY <1>1 DEF EndpointsShaped
    <3>2. /\ active' \in [Users -> MaybeSockets] /\ latest' \in [Users -> MaybeSockets]
          /\ previous' \in [Sockets -> MaybeSockets] /\ pc' \in [Sockets -> Places]
      BY <3>1, <1>4 DEF EndpointsShaped, MaybeSockets, Goto, Places
    <3>3. \A u \in Users : active'[u] # NoSocket => Owner[active'[u]] = u
      BY <2>1 DEF EndpointsShaped
    <3> QED  BY <1>4, <3>2, <3>3 DEF EndpointsShaped, Connect
  <2>4. AuthorizersFit'
    <3>1. s # before /\ s # NoSocket  BY <1>2 DEF Registered
    <3>2. \A u \in Users : u # Owner[s] => active[u] # before \/ active[u] = NoSocket
      BY <1>1 DEF EndpointsShaped
    <3>3. before \in {active[u] : u \in Users}  BY <1>1
    <3>4. \A x : x \in authorizers' <=> x = s \/ (x \in authorizers /\ x # before)
      BY <1>4, <3>1
    <3>5. \A x : x \in {active'[u] : u \in Users} \ {NoSocket}
                   <=> x = s \/ (x \in authorizers /\ x # before)
      <4> TAKE x
      <4>1. CASE x = s  BY <4>1, <1>1, <2>1, <3>1
      <4>2. ASSUME x # s, x \in {active'[u] : u \in Users} \ {NoSocket}
            PROVE  x \in authorizers /\ x # before
        <5>1. PICK u \in Users : x = active'[u]  BY <4>2
        <5>2. u # Owner[s] /\ x = active[u]  BY <5>1, <4>2, <2>1
        <5> QED  BY <5>2, <4>2, <3>2 DEF AuthorizersFit
      <4>3. ASSUME x \in authorizers, x # before
            PROVE  x \in {active'[u] : u \in Users} \ {NoSocket}
        <5>1. PICK u \in Users : x = active[u]  BY <4>3 DEF AuthorizersFit
        <5>2. x = active'[u]  BY <5>1, <4>3, <2>1
        <5> QED  BY <5>2, <4>3 DEF AuthorizersFit
      <4> QED  BY <4>1, <4>2, <4>3
    <3> QED  BY <3>4, <3>5 DEF AuthorizersFit
  <2>5. RegisteredLive'
    <3> USE DEF RegisteredLive
    <3> TAKE t \in Sockets
    <3> HAVE Registered(t)'
    <3>1. CASE t = s  BY <3>1, <1>4 DEF Goto, EndpointsShaped
    <3>2. CASE t # s
      <4>1. Registered(t)  BY <3>2, <2>1, <1>1 DEF Registered
      <4>2. pc'[t] = pc[t]  BY <3>2, <1>4 DEF Goto, EndpointsShaped
      <4> QED  BY <4>1, <4>2 DEF RegisteredLive
    <3> QED  BY <3>1, <3>2
  <2>6. LatestKept'
    <3> USE DEF LatestKept
    <3> TAKE t \in Sockets
    <3> HAVE latest'[Owner[t]] = t /\ t \in open' \ dropped'
    <3>1. CASE t = s  BY <3>1, <1>1, <2>1 DEF Registered
    <3>2. CASE t # s
      <4>1. Owner[t] # Owner[s]  BY <3>2, <1>1, <2>2
      <4>2. latest[Owner[t]] = t /\ t \in open \ dropped
        BY <3>2, <4>1, <1>1, <2>2, <1>4 DEF Connect
      <4> QED  BY <4>1, <4>2, <1>1, <2>1 DEF LatestKept, Registered
    <3> QED  BY <3>1, <3>2
  <2> QED  BY <2>3, <2>4, <2>5, <2>6
<1> QED  BY <1>3, <1>4 DEF Connect

\* Where a delivery's end sends its endpoint.
LEMMA DonePlaces ==
    ASSUME EndpointsShaped, NEW x, Done(x)
    PROVE  /\ pc' \in [Sockets -> Places]
           /\ \A t \in Sockets : pc'[t] # pc[t] => pc'[t] = "loop"
  BY DEF Done, EndpointsShaped, Places

\* No step disturbs the registry.
LEMMA NextRegistry == RegistryIInv /\ EventsIInv /\ [SocketsNext]_socketVars => RegistryIInv'
<1> SUFFICES ASSUME RegistryIInv, EventsIInv, [SocketsNext]_socketVars PROVE RegistryIInv'  OBVIOUS
<1> USE DEF RegistryIInv
<1> DEFINE Kept == /\ UNCHANGED <<registry, pc, previous>>
                   /\ open' \subseteq open /\ entitled' \subseteq Users
<1>1. Kept => RegistryIInv'
  BY RegistryStays DEF registry, EndpointsShaped, RegisteredLive
<1>2. ASSUME NEW u \in Users, Kick(u) \/ Rejoin(u) PROVE RegistryIInv'
  BY <1>1, <1>2 DEF Kick, Rejoin, endpoint, EndpointsShaped
<1>3. ASSUME NEW s \in Sockets, Handshake(s) PROVE RegistryIInv'
  <2>1. ~ Registered(s)  BY <1>3 DEF Handshake, RegisteredLive
  <2>2. pc' \in [Sockets -> Places] /\ \A t \in Sockets : t # s => pc'[t] = pc[t]
    BY <1>3 DEF Handshake, Goto, EndpointsShaped, Places
  <2>3. \A t \in Sockets : Registered(t) => pc'[t] \notin {"new", "accepting", "left"}
    BY <2>1, <2>2 DEF RegisteredLive
  <2>4. UNCHANGED <<registry, previous, open, entitled>>  BY <1>3 DEF Handshake
  <2> QED  BY <2>2, <2>3, <2>4, RegistryStays DEF EndpointsShaped
<1>4. ASSUME NEW s \in Sockets, Connect(s) PROVE RegistryIInv'
  BY <1>4, ConnectRegistry
<1>5. ASSUME NEW s \in Sockets, Leave(s), open' = open \ {s},
             UNCHANGED <<entitled, previous>>
      PROVE  RegistryIInv'
  <2>1. pc' \in [Sockets -> Places] /\ \A t \in Sockets : t # s => pc'[t] = pc[t]
    BY <1>5 DEF Leave, Goto, EndpointsShaped, Places
  <2>2. Disconnect(s) /\ UNCHANGED <<latest, dropped>>  BY <1>5 DEF Leave
  <2>3. previous' \in [Sockets -> MaybeSockets]  BY <1>5 DEF EndpointsShaped
  <2> QED  BY <1>5, <2>1, <2>2, <2>3, GivesUp
<1>6. ASSUME NEW s \in Sockets, Receive(s) PROVE RegistryIInv'
  <2>1. CASE open' = open \ {s} /\ Leave(s)  BY <2>1, <1>5, <1>6 DEF Receive
  <2>2. CASE Goto(s, "answering") /\ UNCHANGED <<open, registry>>
    <3>1. /\ pc' \in [Sockets -> Places]
          /\ \A t \in Sockets : pc'[t] # pc[t] => pc'[t] = "answering"
      BY <2>2 DEF Goto, EndpointsShaped, Places
    <3>2. \A t \in Sockets : Registered(t) => pc'[t] \notin {"new", "accepting", "left"}
      BY <3>1 DEF RegisteredLive
    <3> QED  BY <1>6, <2>2, <3>1, <3>2, RegistryStays DEF Receive, EndpointsShaped
  <2> QED  BY <1>6, <2>1, <2>2 DEF Receive
<1>7. ASSUME NEW s \in Sockets, ClientLeaves(s) PROVE RegistryIInv'
  BY <1>1, <1>7 DEF ClientLeaves, endpoint, EndpointsShaped
<1>8. ASSUME NEW s \in Sockets, ClosePrevious(s) PROVE RegistryIInv'
  <2>1. /\ pc' \in [Sockets -> Places] /\ previous' \in [Sockets -> MaybeSockets]
        /\ \A t \in Sockets : pc'[t] # pc[t] => pc'[t] = "loop"
    BY <1>8 DEF ClosePrevious, Goto, EndpointsShaped, Places, MaybeSockets
  <2>2. \A t \in Sockets : Registered(t) => pc'[t] \notin {"new", "accepting", "left"}
    BY <2>1 DEF RegisteredLive
  <2>3. open' \subseteq open /\ UNCHANGED <<registry, entitled>>  BY <1>8 DEF ClosePrevious
  <2> QED  BY <2>1, <2>2, <2>3, RegistryStays DEF EndpointsShaped
<1>9. ASSUME NEW s \in Sockets, Recheck(s) PROVE RegistryIInv'
  BY <1>9, <1>5 DEF Recheck
<1>10. ASSUME NEW s \in Sockets, Hangup(s) PROVE RegistryIInv'
  <2>1. open' = open \ {s}  BY <1>10 DEF Hangup
  <2> QED  BY <2>1, <1>10, <1>5 DEF Hangup
<1>11. CASE Broadcast \/ Hear \/ LoseEvents
  BY <1>11, <1>1 DEF Broadcast, Hear, LoseEvents, endpoint, EndpointsShaped
<1>12. ASSUME NEW x \in sends, Ask(x) PROVE RegistryIInv'
  BY <1>1, <1>12 DEF Ask, endpoint, EndpointsShaped
<1>13. ASSUME NEW x \in sends, Refuse(x) \/ Send(x) \/ Stall(x) PROVE RegistryIInv'
  <2>1. x.to \in Sockets  BY DEF EventsIInv, EventsShaped, Sends
  <2>2. /\ pc' \in [Sockets -> Places]
        /\ \A t \in Sockets : pc'[t] # pc[t] => pc'[t] = "loop"
    BY <1>13, DonePlaces DEF Refuse, Send, Stall
  <2>3. CASE Disconnect(x.to) /\ (Refuse(x) \/ Stall(x) \/ (Send(x) /\ x.to \notin open))
    <3>1. /\ open' \subseteq open /\ dropped \subseteq dropped' /\ (x.to \in open' => x.to \in dropped')
          /\ UNCHANGED <<entitled, latest, previous>>
      BY <2>1, <2>3 DEF Refuse, Send, Stall
    <3>2. previous' \in [Sockets -> MaybeSockets]  BY <3>1 DEF EndpointsShaped
    <3> QED  BY <2>1, <2>2, <2>3, <3>1, <3>2, GivesUp
  <2>4. CASE UNCHANGED <<active, authorizers>> /\ Send(x)
    <3>1. UNCHANGED <<registry, entitled, previous, open>>  BY <2>4 DEF Send, registry
    <3>2. \A t \in Sockets : Registered(t) => pc'[t] \notin {"new", "accepting", "left"}
      BY <2>2 DEF RegisteredLive
    <3> QED  BY <2>2, <3>1, <3>2, RegistryStays DEF EndpointsShaped
  <2>5. Refuse(x) \/ Stall(x) => Disconnect(x.to)  BY DEF Refuse, Stall
  <2>6. Send(x) => UNCHANGED <<active, authorizers>> \/ (x.to \notin open /\ Disconnect(x.to))
    BY DEF Send
  <2> QED  BY <1>13, <2>3, <2>4, <2>5, <2>6
<1>14. CASE UNCHANGED socketVars
  BY <1>14, <1>1 DEF socketVars, endpoint, EndpointsShaped
<1> QED
  BY <1>2, <1>3, <1>4, <1>6, <1>7, <1>8, <1>9, <1>10, <1>11, <1>12, <1>13, <1>14
  DEF SocketsNext, Serving, Delivering

--------------------------------------------------------------------------------
(* Events and deliveries.                                                         *)

\* A delivery for each registered socket is a delivery.
LEMMA LocalDeliveries ==
    ASSUME EndpointsShaped, NEW by \in Deliverers, NEW e \in Nat, NEW n \in Nat, e <= n,
           sends \subseteq Sends(n), DeliverLocal(by, e)
    PROVE  /\ sends' \subseteq Sends(n)
           /\ \A y \in sends' : y \in sends \/ (y.by = by /\ y.event = e /\ y.step = "asked")
           /\ sends \subseteq sends'
  BY DEF DeliverLocal, Sends, EndpointsShaped, MaybeSockets

\* The end of a delivery.
LEMMA DoneBusy ==
    ASSUME ListenerBusy, NEW x \in sends, Done(x)
    PROVE  sends' \subseteq sends /\ ListenerBusy'
  BY DEF Done, ListenerBusy, ByListener

\* A delivery moves on.
LEMMA OnwardSends ==
    ASSUME EventsShaped, ListenerBusy, NEW x \in sends, Onward(x, "cleared"), listener' = listener
    PROVE  /\ sends' \subseteq Sends(published) /\ ListenerBusy'
           /\ \A y \in sends' :
                 y \in sends \/ (y.by = x.by /\ y.event = x.event /\ y.to = x.to)
<1> DEFINE y == [x EXCEPT !.step = "cleared"]
<1>1. x \in Sends(published)  BY DEF EventsShaped
<1>2. y \in Sends(published) /\ y.by = x.by /\ y.event = x.event /\ y.to = x.to
  BY <1>1 DEF Sends
<1>3. sends' = (sends \ {x}) \cup {y}  BY DEF Onward
<1> HIDE DEF y
<1>4. sends' \subseteq Sends(published)  BY <1>2, <1>3 DEF EventsShaped
<1>5. ListenerBusy'  BY <1>2, <1>3 DEF ListenerBusy, ByListener
<1> QED  BY <1>2, <1>3, <1>4, <1>5

\* What only moves deliveries on, or ends them, keeps the events in shape.
LEMMA EventsStay ==
    ASSUME EventsShaped, ListenerBusy', UNCHANGED <<redis, got>>, sends' \subseteq Sends(published),
           barred' \in [Events -> SUBSET Sockets]
    PROVE  EventsIInv'
  BY DEF EventsIInv, EventsShaped, redis

LEMMA NextEvents == RegistryIInv /\ EventsIInv /\ [SocketsNext]_socketVars => EventsIInv'
<1> SUFFICES ASSUME RegistryIInv, EventsIInv, [SocketsNext]_socketVars PROVE EventsIInv'  OBVIOUS
<1> USE SocketsAssumption DEF RegistryIInv, EventsIInv
<1> DEFINE Kept == UNCHANGED <<redis, heard, sends, listener>>
<1>1. Kept => EventsIInv'  BY DEF EventsShaped, ListenerBusy, redis, heard
<1>2. published \in Nat /\ MaxEvents \in Nat  BY DEF EventsShaped
<1>3. ASSUME NEW u \in Users, Kick(u) PROVE EventsIInv'
  BY <1>1, <1>3 DEF Kick
<1>4. ASSUME NEW u \in Users, Rejoin(u) PROVE EventsIInv'
  <2>1. barred' \in [Events -> SUBSET Sockets]  BY <1>4 DEF Rejoin, EventsShaped
  <2>2. UNCHANGED <<redis, got, listener, sends>>  BY <1>4 DEF Rejoin
  <2> QED  BY <2>1, <2>2, EventsStay DEF EventsShaped, ListenerBusy
<1>5. ASSUME NEW s \in Sockets,
             Handshake(s) \/ Connect(s) \/ ClientLeaves(s) \/ Serving(s)
      PROVE  EventsIInv'
  BY <1>1, <1>5 DEF Handshake, Connect, ClientLeaves, Serving, ClosePrevious, Recheck, Hangup
<1>6. ASSUME NEW s \in Sockets, Receive(s) PROVE EventsIInv'
  <2> DEFINE x == [by |-> s, event |-> 0, to |-> active[Owner[s]], step |-> "asked"]
  <2>1. CASE UNCHANGED sends  BY <1>1, <1>6, <2>1 DEF Receive
  <2>2. CASE active[Owner[s]] # NoSocket /\ sends' = sends \cup {x}
    <3>1. x \in Sends(published)
      BY <2>2, <1>2 DEF Sends, EndpointsShaped, MaybeSockets, Deliverers
    <3>2. ~ ByListener(x)  BY DEF ByListener
    <3>3. UNCHANGED <<redis, heard, listener>>  BY <1>6 DEF Receive
    <3> HIDE DEF x
    <3>4. sends' \subseteq Sends(published)  BY <2>2, <3>1 DEF EventsShaped
    <3>5. ListenerBusy'  BY <2>2, <3>2, <3>3 DEF ListenerBusy
    <3> QED  BY <3>3, <3>4, <3>5, EventsStay DEF heard, EventsShaped
  <2> QED  BY <1>6, <2>1, <2>2 DEF Receive
<1>7. CASE Broadcast
  <2> DEFINE e == published + 1
  <2>1. /\ published' = e /\ e \in 1..MaxEvents
        /\ UNCHANGED <<got, listener>>
        /\ direct' \in {direct, direct \cup {e}}
        /\ channel' \in {channel, Append(channel, e)}
        /\ barred' = [barred EXCEPT ![e] =
                          {s \in Sockets : pc[s] \notin {"new", "left"} /\ ~ Authorized(s)}]
    BY <1>7, <1>2 DEF Broadcast, EventsShaped
  <2>2. sends \subseteq Sends(e)  BY <1>2 DEF EventsShaped, Sends
  <2>3. sends' \subseteq Sends(e) /\ ListenerBusy'
    <3>1. CASE UNCHANGED sends  BY <3>1, <2>1, <2>2 DEF ListenerBusy
    <3>2. CASE DeliverLocal("caller", e)
      <4>1. /\ sends' \subseteq Sends(e) /\ sends \subseteq sends'
            /\ \A y \in sends' : y \in sends \/ y.by = "caller"
        BY <3>2, <2>1, <2>2, LocalDeliveries DEF Deliverers
      <4> QED  BY <4>1, <2>1 DEF ListenerBusy, ByListener
    <3> QED  BY <1>7, <3>1, <3>2 DEF Broadcast
  <2>4. channel' \in Seq(1..e)
    <3>1. channel \in Seq(1..e)  BY <1>2 DEF EventsShaped
    <3>2. e \in 1..e  BY <1>2
    <3> QED  BY <2>1, <3>1, <3>2
  <2>5. direct' \subseteq 1..e  BY <1>2, <2>1 DEF EventsShaped
  <2>6. got' \in [Sockets -> 0..e]  BY <1>2, <2>1 DEF EventsShaped
  <2>7. barred' \in [Events -> SUBSET Sockets]  BY <2>1 DEF EventsShaped
  <2> QED  BY <2>1, <2>3, <2>4, <2>5, <2>6, <2>7 DEF EventsShaped
<1>8. CASE Hear
  <2>1. Head(channel) \in 1..published /\ Tail(channel) \in Seq(1..published)
    BY <1>8 DEF Hear, EventsShaped
  <2>2. /\ sends' \subseteq Sends(published) /\ sends \subseteq sends'
        /\ \A y \in sends' : y \in sends \/ y.by = "listener"
    <3>1. Head(channel) \in Nat /\ Head(channel) <= published  BY <1>2, <2>1
    <3>2. DeliverLocal("listener", Head(channel)) /\ "listener" \in Deliverers
      BY <1>8 DEF Hear, Deliverers
    <3>3. sends \subseteq Sends(published)  BY DEF EventsShaped
    <3> QED  BY <1>2, <3>1, <3>2, <3>3, LocalDeliveries
  <2>3. listener = "idle"  BY <1>8 DEF Hear, MayHear
  <2>4. ListenerBusy'
    <3>1. CASE sends' = sends  BY <3>1, <1>8 DEF Hear, ListenerBusy
    <3>2. CASE sends' # sends
      <4>1. \E y \in sends' : ByListener(y)  BY <3>2, <2>2 DEF ByListener
      <4> QED  BY <4>1, <3>2, <1>8 DEF Hear, ListenerBusy
    <3> QED  BY <3>1, <3>2
  <2> QED  BY <1>8, <2>1, <2>2, <2>4 DEF Hear, EventsShaped, heard
<1>9. CASE LoseEvents
  <2>1. <<>> \in Seq(1..published)  OBVIOUS
  <2>2. ListenerBusy'  BY <1>9 DEF LoseEvents, ListenerBusy
  <2> QED  BY <1>9, <2>1, <2>2 DEF LoseEvents, EventsShaped, heard
<1>10. ASSUME NEW x \in sends, Ask(x) PROVE EventsIInv'
  <2>1. Onward(x, "cleared") /\ UNCHANGED <<redis, heard, listener>>  BY <1>10 DEF Ask
  <2>2. sends' \subseteq Sends(published) /\ ListenerBusy'  BY <2>1, OnwardSends
  <2> QED  BY <2>1, <2>2, EventsStay DEF heard, EventsShaped
<1>11. ASSUME NEW x \in sends, Refuse(x) \/ Stall(x) PROVE EventsIInv'
  <2>1. Done(x) /\ UNCHANGED <<redis, heard>>  BY <1>11 DEF Refuse, Stall
  <2>2. sends' \subseteq sends /\ ListenerBusy'  BY <2>1, DoneBusy
  <2> QED  BY <2>1, <2>2, EventsStay DEF heard, EventsShaped
<1>12. ASSUME NEW x \in sends, Send(x) PROVE EventsIInv'
  <2>1. Done(x) /\ UNCHANGED <<redis, barred>>  BY <1>12 DEF Send
  <2>2. sends' \subseteq sends /\ ListenerBusy'  BY <2>1, DoneBusy
  <2>3. x.event \in 0..published /\ x.to \in Sockets  BY DEF EventsShaped, Sends
  <2>4. got' = got \/ got' = [got EXCEPT ![x.to] = x.event]  BY <1>12 DEF Send
  <2>5. got' \in [Sockets -> 0..published]  BY <2>3, <2>4 DEF EventsShaped
  <2> QED  BY <2>1, <2>2, <2>5 DEF redis, EventsShaped
<1>13. CASE UNCHANGED socketVars  BY <1>13, <1>1 DEF socketVars
<1> QED
  BY <1>3, <1>4, <1>5, <1>6, <1>7, <1>8, <1>9, <1>10, <1>11, <1>12, <1>13
  DEF SocketsNext, Delivering

--------------------------------------------------------------------------------
(* Rights.                                                                        *)

LEMMA NextRights == SocketsIInv /\ [SocketsNext]_socketVars => RightsIInv'
<1> SUFFICES ASSUME SocketsIInv, [SocketsNext]_socketVars PROVE RightsIInv'  OBVIOUS
<1> USE SocketsAssumption DEF SocketsIInv, RegistryIInv, EventsIInv, RightsIInv
<1>1. ASSUME UNCHANGED <<entitled, barred>>,
             \A y \in sends' : y.step = "cleared" /\ y.event # 0 => y \in sends
      PROVE  RightsIInv'
  BY <1>1 DEF BarredOutside, ClearedMay, Authorized
<1>2. ASSUME NEW u \in Users, Kick(u) PROVE RightsIInv'
  BY <1>2 DEF Kick, heard, BarredOutside, ClearedMay, Authorized
<1>3. ASSUME NEW u \in Users, Rejoin(u) PROVE RightsIInv'
  <2>1. /\ entitled' = entitled \cup {u} /\ UNCHANGED sends
        /\ \A e \in Events : barred'[e] = barred[e] \ {s \in Sockets : Owner[s] = u}
    BY <1>3 DEF Rejoin
  <2>2. \A e \in Events : barred[e] \subseteq Sockets  BY DEF EventsShaped
  <2>3. BarredOutside'  BY <2>1, <2>2 DEF BarredOutside, Authorized
  <2>4. \A x \in sends : x.event # 0 => x.event \in Events
    BY DEF EventsShaped, Sends, Events
  <2>5. ClearedMay'  BY <2>1, <2>4 DEF ClearedMay
  <2> QED  BY <2>3, <2>5
<1>4. ASSUME NEW s \in Sockets,
             Handshake(s) \/ Connect(s) \/ ClientLeaves(s) \/ Serving(s)
      PROVE  RightsIInv'
  BY <1>1, <1>4 DEF Handshake, Connect, ClientLeaves, Serving, ClosePrevious, Recheck, Hangup, heard
<1>5. ASSUME NEW s \in Sockets, Receive(s) PROVE RightsIInv'
  BY <1>1, <1>5 DEF Receive, heard
<1>6. CASE Broadcast
  <2> DEFINE e == published + 1
  <2>1. published \in Nat /\ e \in Nat /\ e \in Events  BY <1>6 DEF Broadcast, EventsShaped, Events
  <2>2. /\ barred' = [barred EXCEPT ![e] =
                          {s \in Sockets : pc[s] \notin {"new", "left"} /\ ~ Authorized(s)}]
        /\ entitled' = entitled
    BY <1>6 DEF Broadcast
  <2>3. BarredOutside'  BY <2>2 DEF EventsShaped, BarredOutside, Authorized
  <2>4. \A y \in sends' : y \in sends \/ y.step = "asked"
    <3>1. CASE UNCHANGED sends  BY <3>1
    <3>2. CASE DeliverLocal("caller", e)  BY <3>2 DEF DeliverLocal
    <3> QED  BY <1>6, <3>1, <3>2 DEF Broadcast
  <2>5. \A y \in sends : y.event \in 0..published  BY DEF EventsShaped, Sends
  <2>6. \A y \in sends : y.event # 0 => y.event # e /\ barred'[y.event] = barred[y.event]
    BY <2>1, <2>2, <2>5 DEF EventsShaped, Events
  <2>7. ClearedMay'  BY <2>4, <2>6 DEF ClearedMay
  <2> QED  BY <2>3, <2>7
<1>7. CASE Hear
  <2>1. \A y \in sends' : y \in sends \/ y.step = "asked"  BY <1>7 DEF Hear, DeliverLocal
  <2> QED  BY <1>1, <1>7, <2>1 DEF Hear, heard
<1>8. CASE LoseEvents  BY <1>1, <1>8 DEF LoseEvents, heard
<1>9. ASSUME NEW x \in sends, Ask(x) PROVE RightsIInv'
  <2>1. UNCHANGED <<entitled, barred>> /\ Onward(x, "cleared") /\ Authorized(x.to)
    BY <1>9 DEF Ask, heard
  <2>2. \A y \in sends' :
           y \in sends \/ (y.by = x.by /\ y.event = x.event /\ y.to = x.to)
    BY <2>1, <1>9, OnwardSends DEF Ask
  <2>3. x.event # 0 => x.to \notin barred[x.event]
    BY <2>1 DEF EventsShaped, Sends, Events, BarredOutside
  <2>4. BarredOutside'  BY <2>1 DEF BarredOutside, Authorized
  <2>5. ClearedMay'  BY <2>1, <2>2, <2>3 DEF ClearedMay
  <2> QED  BY <2>4, <2>5
<1>10. ASSUME NEW x \in sends, Refuse(x) \/ Send(x) \/ Stall(x) PROVE RightsIInv'
  BY <1>1, <1>10 DEF Refuse, Send, Stall, Done, heard
<1>11. CASE UNCHANGED socketVars  BY <1>11, <1>1 DEF socketVars, heard
<1> QED
  BY <1>2, <1>3, <1>4, <1>5, <1>6, <1>7, <1>8, <1>9, <1>10, <1>11
  DEF SocketsNext, Delivering

--------------------------------------------------------------------------------
(* Order.                                                                         *)

\* Redis gets nothing new and clients hear nothing: whatever else is delivered comes
\* from the fallback or answers a message.
LEMMA OrderStays ==
    ASSUME OrderIInv, got' = got, channel' \in {channel, <<>>}, direct' = direct,
           \A y \in sends' : \/ \E z \in sends : z.by = y.by /\ z.event = y.event
                             \/ ~ ByListener(y) /\ y.event = 0
    PROVE  OrderIInv'
<1> USE DEF OrderIInv, ByListener
<1>1. ChannelAscends'  BY DEF ChannelAscends
<1>2. OneAtATime'  BY DEF OneAtATime
<1>3. OthersDirect'  BY DEF OthersDirect
<1>4. ChannelNewer'  BY DEF ChannelNewer
<1>5. ListenerNewer'  BY DEF ListenerNewer
<1> QED  BY <1>1, <1>2, <1>3, <1>4, <1>5

LEMMA NextOrder == SocketsIInv /\ [SocketsNext]_socketVars => OrderIInv'
<1> SUFFICES ASSUME SocketsIInv, [SocketsNext]_socketVars PROVE OrderIInv'  OBVIOUS
<1> USE SocketsAssumption DEF SocketsIInv, RegistryIInv, EventsIInv
<1>1. Len(channel) \in Nat /\ \A i \in 1..Len(channel) : channel[i] \in 1..published
  BY DEF EventsShaped
<1>2. published \in Nat /\ \A s \in Sockets : got[s] \in 0..published  BY DEF EventsShaped
<1>3. \A x \in sends : x.event \in 0..published /\ x.to \in Sockets  BY DEF EventsShaped, Sends
<1>4. ASSUME UNCHANGED <<redis, got, sends>> PROVE OrderIInv'
  BY <1>4, OrderStays DEF redis
<1>5. ASSUME NEW u \in Users, Kick(u) \/ Rejoin(u) PROVE OrderIInv'
  BY <1>4, <1>5 DEF Kick, Rejoin, heard
<1>6. ASSUME NEW s \in Sockets,
             Handshake(s) \/ Connect(s) \/ ClientLeaves(s) \/ Serving(s)
      PROVE  OrderIInv'
  BY <1>4, <1>6 DEF Handshake, Connect, ClientLeaves, Serving, ClosePrevious, Recheck, Hangup, heard
<1>7. ASSUME NEW s \in Sockets, Receive(s) PROVE OrderIInv'
  <2>1. UNCHANGED <<redis, got>>  BY <1>7 DEF Receive, heard
  <2>2. \A y \in sends' : y \in sends \/ (y.by = s /\ y.event = 0)  BY <1>7 DEF Receive
  <2>3. \A y : y.by = s => ~ ByListener(y)  BY DEF ByListener
  <2> QED  BY <2>1, <2>2, <2>3, OrderStays DEF redis
<1>8. CASE Broadcast
  <2> DEFINE e == published + 1
  <2>1. /\ got' = got
        /\ channel' \in {channel, Append(channel, e)}
        /\ \/ UNCHANGED <<sends, direct>>
           \/ DeliverLocal("caller", e) /\ direct' = direct \cup {e}
    BY <1>8 DEF Broadcast
  <2>2. \A y \in sends' : y \in sends \/ (~ ByListener(y) /\ y.event = e /\ e \in direct')
    BY <2>1 DEF DeliverLocal, ByListener
  <2>3. direct \subseteq direct'  BY <2>1
  <2>4. /\ Len(channel') \in Nat /\ Len(channel') <= Len(channel) + 1
        /\ \A i \in 1..Len(channel') :
              IF i <= Len(channel) THEN channel'[i] = channel[i] ELSE channel'[i] = e
    BY <2>1, <1>1 DEF EventsShaped
  <2>5. ChannelAscends'  BY <1>1, <1>2, <2>4 DEF OrderIInv, ChannelAscends
  <2>6. OneAtATime'  BY <2>2 DEF OrderIInv, OneAtATime
  <2>7. OthersDirect'  BY <2>2, <2>3 DEF OrderIInv, OthersDirect
  <2>8. ListenerNewer'  BY <2>1, <2>2, <2>3 DEF OrderIInv, ListenerNewer
  <2>9. ChannelNewer'
    <3> USE DEF ChannelNewer
    <3> TAKE i \in 1..Len(channel')
    <3>1. CASE i <= Len(channel)
      <4>1. i \in 1..Len(channel) /\ channel'[i] = channel[i]  BY <3>1, <1>1, <2>4
      <4> QED  BY <4>1, <2>1, <2>2, <2>3 DEF OrderIInv
    <3>2. CASE ~ (i <= Len(channel))
      <4>1. channel'[i] = e  BY <3>2, <2>4
      <4>2. \A s \in Sockets : got'[s] < e  BY <1>2, <2>1
      <4>3. \A y \in sends' : ByListener(y) => y.event < e  BY <1>2, <1>3, <2>2
      <4> QED  BY <4>1, <4>2, <4>3
    <3> QED  BY <3>1, <3>2
  <2> QED  BY <2>5, <2>6, <2>7, <2>8, <2>9 DEF OrderIInv
<1>9. CASE Hear
  <2> DEFINE e == Head(channel)
  <2>1. /\ UNCHANGED <<got, direct>> /\ channel # <<>> /\ channel' = Tail(channel)
        /\ DeliverLocal("listener", e) /\ listener = "idle"
    BY <1>9 DEF Hear, MayHear, heard
  <2>2. \A y \in sends : ~ ByListener(y)  BY <2>1 DEF ListenerBusy
  <2>3. /\ 1 \in 1..Len(channel) /\ e = channel[1] /\ e \in 1..published
        /\ Len(channel') \in Nat
        /\ \A i \in 1..Len(channel') : i + 1 \in 2..Len(channel) /\ channel'[i] = channel[i + 1]
    BY <2>1, <1>1 DEF EventsShaped
  <2>4. \A y \in sends' : y \in sends \/ (ByListener(y) /\ y.event = e)
    BY <2>1 DEF DeliverLocal, ByListener
  <2>5. \A i \in 1..Len(channel') : e < channel'[i]
    BY <2>3 DEF OrderIInv, ChannelAscends
  <2>6. ChannelAscends'
    <3> USE DEF ChannelAscends
    <3> TAKE i, j \in 1..Len(channel')
    <3>1. /\ i + 1 \in 1..Len(channel) /\ j + 1 \in 1..Len(channel)
          /\ channel'[i] = channel[i + 1] /\ channel'[j] = channel[j + 1]
      BY <2>3
    <3>2. i < j => i + 1 < j + 1  BY <2>3
    <3> QED  BY <3>1, <3>2 DEF OrderIInv
  <2>7. OneAtATime'  BY <2>2, <2>4 DEF OneAtATime
  <2>8. OthersDirect'  BY <2>1, <2>3, <2>4 DEF OrderIInv, OthersDirect
  <2>9. ListenerNewer'
    <3>1. \A s \in Sockets : got[s] \notin direct => got[s] < e
      BY <2>3 DEF OrderIInv, ChannelNewer
    <3>2. \A s \in Sockets : got[s] \notin direct => got[s] <= e  BY <3>1, <2>3, <1>2
    <3> QED  BY <3>2, <2>1, <2>2, <2>4 DEF ListenerNewer
  <2>10. ChannelNewer'
    <3> USE DEF ChannelNewer
    <3> TAKE i \in 1..Len(channel')
    <3>1. i + 1 \in 1..Len(channel) /\ channel'[i] = channel[i + 1]  BY <2>3
    <3>2. \A s \in Sockets : got'[s] \notin direct' => got'[s] < channel'[i]
      BY <3>1, <2>1 DEF OrderIInv
    <3>3. \A y \in sends' : ByListener(y) => y.event < channel'[i]  BY <2>2, <2>4, <2>5
    <3> QED  BY <3>2, <3>3
  <2> QED  BY <2>6, <2>7, <2>8, <2>9, <2>10 DEF OrderIInv
<1>10. CASE LoseEvents
  <2>1. UNCHANGED <<got, direct, sends>> /\ channel' \in {channel, <<>>}
    BY <1>10 DEF LoseEvents, heard
  <2> QED  BY <2>1, OrderStays
<1>11. ASSUME NEW x \in sends, Ask(x) PROVE OrderIInv'
  <2>1. UNCHANGED <<redis, got>>  BY <1>11 DEF Ask, heard
  <2>2. \A y \in sends' : y \in sends \/ (y.by = x.by /\ y.event = x.event)
    BY <1>11, OnwardSends DEF Ask
  <2> QED  BY <2>1, <2>2, OrderStays DEF redis
<1>12. ASSUME NEW x \in sends, Refuse(x) \/ Stall(x) PROVE OrderIInv'
  BY <1>12, OrderStays DEF Refuse, Stall, Done, heard, redis
<1>13. ASSUME NEW x \in sends, Send(x) PROVE OrderIInv'
  <2>1. sends' \subseteq sends /\ UNCHANGED redis  BY <1>13 DEF Send, Done
  <2>2. CASE got' = got  BY <2>1, <2>2, OrderStays DEF redis
  <2>3. CASE got' = [got EXCEPT ![x.to] = x.event] /\ x.event # 0
    <3>1. \A s \in Sockets : got'[s] = IF s = x.to THEN x.event ELSE got[s]
      BY <2>3 DEF EventsShaped
    <3>2. x.event \notin direct => ByListener(x)  BY <2>3 DEF OrderIInv, OthersDirect
    <3>3. ChannelAscends' /\ OneAtATime' /\ OthersDirect'
      BY <2>1 DEF OrderIInv, ChannelAscends, OneAtATime, OthersDirect, redis
    <3>4. ChannelNewer'  BY <2>1, <3>1, <3>2 DEF OrderIInv, ChannelNewer, redis
    <3>5. ListenerNewer'
      BY <2>1, <3>1, <3>2, <1>3 DEF OrderIInv, ListenerNewer, OneAtATime, redis
    <3> QED  BY <3>3, <3>4, <3>5 DEF OrderIInv
  <2> QED  BY <1>13, <2>2, <2>3 DEF Send
<1>14. CASE UNCHANGED socketVars  BY <1>14, <1>4 DEF socketVars, heard
<1> QED
  BY <1>5, <1>6, <1>7, <1>8, <1>9, <1>10, <1>11, <1>12, <1>13, <1>14
  DEF SocketsNext, Delivering

--------------------------------------------------------------------------------
(* What follows.                                                                  *)

\* The inductive invariant of delivery: which sockets the registry has, who is barred
\* from which event, and that what is still to come is newer.
THEOREM DeliveryInvariance == SocketsSpec => []SocketsIInv
<1>1. SocketsIInv /\ [SocketsNext]_socketVars => SocketsIInv'
  BY NextRegistry, NextEvents, NextRights, NextOrder DEF SocketsIInv
<1> QED  BY <1>1, SocketsInitIInv, PTL DEF SocketsSpec

\* However connections, replacements, refusals and failures follow each other, the
\* registry has the last socket a user opened until it is closed or given up, and
\* authorises the sockets it has and no others.
THEOREM RegistryStaysRight == SocketsSpec => []RegistryRight
<1>1. SocketsIInv => RegistryRight
  <2> SUFFICES ASSUME SocketsIInv PROVE SocketsTypeOK
    BY DEF RegistryRight, SocketsIInv, RegistryIInv
  <2> QED
    BY DEF SocketsTypeOK, SocketsIInv, RegistryIInv, EventsIInv, EndpointsShaped, EventsShaped,
           Sends, ListenerBusy, ByListener, MaybeSockets
<1> QED  BY <1>1, DeliveryInvariance, PTL

\* Nobody hears of an event of a session who had no right to it at any time since it
\* was broadcast, whatever lies between the check, the delivery and the kick.
THEOREM RevokedHearNothing == SocketsSpec => NothingAfterRevocation
<1>1. SocketsIInv /\ [SocketsNext]_socketVars =>
         [\A s \in Sockets : got'[s] # got[s] => s \notin barred[got'[s]]]_socketVars
  <2> SUFFICES ASSUME SocketsIInv, SocketsNext, NEW s \in Sockets, got'[s] # got[s]
               PROVE  s \notin barred[got'[s]]
    OBVIOUS
  <2>1. PICK x \in sends : Send(x)
    BY DEF SocketsNext, Serving, Delivering, Kick, Rejoin, Handshake, Connect, Receive, ClientLeaves,
           ClosePrevious, Recheck, Hangup, Broadcast, Hear, LoseEvents, Ask, Refuse, Stall, heard
  <2>2. x.event # 0 /\ got' = [got EXCEPT ![x.to] = x.event] /\ x.step = "cleared"
    BY <2>1 DEF Send
  <2>3. s = x.to /\ got'[s] = x.event
    BY <2>2 DEF SocketsIInv, EventsIInv, EventsShaped
  <2> QED  BY <2>2, <2>3 DEF SocketsIInv, RightsIInv, ClearedMay
<1> QED  BY <1>1, DeliveryInvariance, PTL DEF SocketsSpec, NothingAfterRevocation

\* Events that come through Redis reach every client in the order they were
\* broadcast in.
THEOREM EventsInOrder == SocketsSpec => InOrder
<1>1. SocketsIInv /\ [SocketsNext]_socketVars =>
         [\A s \in Sockets :
             got'[s] # got[s] /\ {got[s], got'[s]} \cap direct = {} => got'[s] > got[s]]_socketVars
  <2> SUFFICES ASSUME SocketsIInv, SocketsNext, NEW s \in Sockets, got'[s] # got[s],
                      got[s] \notin direct, got'[s] \notin direct
               PROVE  got'[s] > got[s]
    OBVIOUS
  <2>1. PICK x \in sends : Send(x)
    BY DEF SocketsNext, Serving, Delivering, Kick, Rejoin, Handshake, Connect, Receive, ClientLeaves,
           ClosePrevious, Recheck, Hangup, Broadcast, Hear, LoseEvents, Ask, Refuse, Stall, heard
  <2>2. x.event # 0 /\ got' = [got EXCEPT ![x.to] = x.event]
    BY <2>1 DEF Send
  <2>3. s = x.to /\ got'[s] = x.event
    BY <2>2 DEF SocketsIInv, EventsIInv, EventsShaped
  <2>4. ByListener(x)  BY <2>2, <2>3 DEF SocketsIInv, OrderIInv, OthersDirect
  <2>5. got[s] <= x.event  BY <2>4 DEF SocketsIInv, OrderIInv, ListenerNewer
  <2>6. got[s] \in Nat /\ x.event \in Nat
    BY DEF SocketsIInv, EventsIInv, EventsShaped, Sends
  <2> QED  BY <2>3, <2>5, <2>6
<1> QED  BY <1>1, DeliveryInvariance, PTL DEF SocketsSpec, InOrder
================================================================================
