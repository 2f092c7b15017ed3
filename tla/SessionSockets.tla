---------------------------- MODULE SessionSockets ----------------------------
(***************************************************************************)
(* Real-time delivery to the members of one session by one API process:    *)
(* the WebSocket endpoint (websocket/router.py), the registry of sockets   *)
(* (connection_manager.py) and the listener that hands on what Redis       *)
(* publishes (pubsub.py).  Handlers are coroutines of one event loop: what *)
(* lies between two awaits is one step, and everything else may happen at  *)
(* an await.                                                               *)
(***************************************************************************)
EXTENDS Naturals, Sequences

CONSTANTS
    Users,
    Sockets,        \* connections that are ever made, each with a token of its own
    Owner,          \* Owner[s]: the user of the token
    MaxEvents,      \* bound on the events of the session
    MaxFaults,      \* bound on failures
    NoSocket

Events == 1..MaxEvents

ASSUME SocketsAssumption ==
    /\ Owner \in [Sockets -> Users] /\ {NoSocket, "listener", "caller"} \cap Sockets = {}
    /\ MaxEvents \in Nat /\ MaxFaults \in Nat

VARIABLES
    entitled,       \* participants with a current login, as committed
    pc,             \* where the endpoint of a socket is
    open,           \* sockets that neither side has closed
    active,         \* active_connections of the session
    authorizers,    \* sockets that the registry has an authorizer of
    previous,       \* the socket that one replaces, while it closes it
    latest,         \* the last socket that a user registered
    dropped,        \* sockets that the registry gave up without closing them
    published,      \* how many events were broadcast
    channel,        \* what Redis has published and the listener not yet taken
    listener,       \* "idle", "busy" or "dead"
    sends,          \* deliveries under way
    direct,         \* events that were delivered without Redis
    got,            \* the last event that a client received, 0 before the first
    barred,         \* barred[e]: connections without rights ever since e was broadcast
    faults

registry == <<active, authorizers, latest, dropped>>
endpoint == <<pc, previous>>
redis    == <<published, channel, direct>>
heard    == <<got, barred>>
socketVars ==
    <<entitled, registry, endpoint, redis, heard, open, listener, sends, faults>>

\* authorize_session: a member with a current token.
Authorized(s) == Owner[s] \in entitled

Registered(s) == active[Owner[s]] = s

SocketsInit ==
    /\ entitled = Users
    /\ pc = [s \in Sockets |-> "new"] /\ open = {}
    /\ active = [u \in Users |-> NoSocket] /\ authorizers = {}
    /\ previous = [s \in Sockets |-> NoSocket] /\ latest = [u \in Users |-> NoSocket]
    /\ dropped = {}
    /\ published = 0 /\ channel = <<>> /\ listener = "idle" /\ sends = {} /\ direct = {}
    /\ got = [s \in Sockets |-> 0] /\ barred = [e \in Events |-> {}]
    /\ faults = 0

Fault == faults < MaxFaults /\ faults' = faults + 1
Goto(s, place) == pc' = [pc EXCEPT ![s] = place]
--------------------------------------------------------------------------------
(* Rights are changed by other handlers: a kick, a deleted account, a logout or a *)
(* new password ends them, joining again brings them back.                        *)

Kick(u) ==
    /\ u \in entitled /\ entitled' = entitled \ {u}
    /\ UNCHANGED <<registry, endpoint, redis, heard, open, listener, sends, faults>>

Rejoin(u) ==
    /\ u \notin entitled /\ entitled' = entitled \cup {u}
    /\ barred' = [e \in Events |-> barred[e] \ {s \in Sockets : Owner[s] = u}]
    /\ UNCHANGED <<registry, endpoint, redis, got, open, listener, sends, faults>>
--------------------------------------------------------------------------------
(* The endpoint.                                                                  *)

\* Mutant: whoever is registered for the user is removed.
DisconnectUser(s) ==
    /\ active' = [active EXCEPT ![Owner[s]] = NoSocket]
    /\ authorizers' = authorizers \ {active[Owner[s]]}

\* disconnect: only the socket itself is removed, not one that has replaced it.
Disconnect(s) ==
    IF Registered(s)
    THEN active' = [active EXCEPT ![Owner[s]] = NoSocket] /\ authorizers' = authorizers \ {s}
    ELSE UNCHANGED <<active, authorizers>>

\* The finally block of session_websocket.
Leave(s) == Goto(s, "left") /\ Disconnect(s) /\ UNCHANGED <<latest, dropped>>

\* The rate limit may refuse the handshake, as authorize_session may.
Handshake(s) ==
    /\ pc[s] = "new"
    /\ \/ Goto(s, "left")
       \/ Authorized(s) /\ Goto(s, "accepting")
    /\ UNCHANGED <<entitled, registry, previous, redis, heard, open, listener, sends, faults>>

\* connect, from the end of accept to the next await.
Connect(s) ==
    LET before == active[Owner[s]] IN
    /\ pc[s] = "accepting"
    /\ \/ /\ active' = [active EXCEPT ![Owner[s]] = s]
          /\ latest' = [latest EXCEPT ![Owner[s]] = s]
          /\ authorizers' = (authorizers \cup {s}) \ {before}
          /\ open' = open \cup {s}
          /\ previous' = [previous EXCEPT ![s] = before]
          /\ Goto(s, IF before = NoSocket THEN "loop" ELSE "replacing")
          /\ UNCHANGED faults
       \/ Goto(s, "left") /\ Fault /\ UNCHANGED <<active, latest, authorizers, open, previous>>
    /\ UNCHANGED <<entitled, dropped, redis, heard, listener, sends>>

\* connect closes the socket it has replaced; that may fail or take too long.
ClosePrevious(s) ==
    /\ pc[s] = "replacing"
    /\ \/ open' = open \ {previous[s]} /\ UNCHANGED faults
       \/ previous[s] \in open /\ Fault /\ UNCHANGED open
    /\ Goto(s, "loop") /\ previous' = [previous EXCEPT ![s] = NoSocket]
    /\ UNCHANGED <<entitled, registry, redis, heard, listener, sends>>

\* A message of the client is answered over the socket that is registered now; too
\* many or too long ones end the connection.
Receive(s) ==
    LET to == active[Owner[s]] IN
    /\ pc[s] = "loop" /\ s \in open
    /\ \/ open' = open \ {s} /\ Leave(s) /\ UNCHANGED sends
       \/ /\ to # NoSocket
          /\ sends' = sends \cup {[by |-> s, event |-> 0, to |-> to, step |-> "asked"]}
          /\ Goto(s, "answering") /\ UNCHANGED <<open, registry>>
    /\ UNCHANGED <<entitled, previous, redis, heard, listener, faults>>

\* Mutant: silence is only waited out.
WaitOn(s) == pc[s] = "loop" /\ ~ Authorized(s) /\ UNCHANGED socketVars

\* Thirty seconds of silence: the rights are checked again.
Recheck(s) ==
    /\ pc[s] = "loop" /\ s \in open /\ ~ Authorized(s)
    /\ open' = open \ {s} /\ Leave(s)
    /\ UNCHANGED <<entitled, previous, redis, heard, listener, sends, faults>>

\* The loop finds the socket closed, or fails.
Hangup(s) ==
    /\ pc[s] = "loop" /\ Leave(s)
    /\ \/ s \notin open /\ UNCHANGED <<open, faults>>
       \/ s \in open /\ open' = open \ {s} /\ Fault
    /\ UNCHANGED <<entitled, previous, redis, heard, listener, sends>>

ClientLeaves(s) ==
    /\ s \in open /\ open' = open \ {s}
    /\ UNCHANGED <<entitled, registry, endpoint, redis, heard, listener, sends, faults>>
--------------------------------------------------------------------------------
(* Broadcasts.                                                                    *)

\* deliver_local: one delivery for each socket that is registered now.
DeliverLocal(by, e) ==
    sends' = sends \cup {[by |-> by, event |-> e, to |-> active[u], step |-> "asked"] :
                            u \in {u \in Users : active[u] # NoSocket}}

\* broadcast_to_session publishes the event; where that raises, although Redis may have
\* published it, the event is delivered here.
Broadcast ==
    LET e == published + 1
        hear == IF listener = "dead" THEN channel ELSE Append(channel, e)
    IN
    /\ published < MaxEvents /\ published' = e
    /\ barred' = [barred EXCEPT ![e] = {s \in Sockets : pc[s] \notin {"new", "left"} /\ ~ Authorized(s)}]
    /\ \/ channel' = hear /\ UNCHANGED <<sends, direct, faults>>
       \/ channel' \in {channel, hear} /\ DeliverLocal("caller", e) /\ direct' = direct \cup {e} /\ Fault
    /\ UNCHANGED <<entitled, registry, endpoint, got, open, listener>>

\* Mutant: the listener does not wait for the deliveries of an event.
MayHearAlways == listener # "dead"

MayHear == listener = "idle"

\* _listen takes the next event and waits until it is delivered.
Hear ==
    /\ MayHear /\ channel # <<>>
    /\ channel' = Tail(channel) /\ DeliverLocal("listener", Head(channel))
    /\ listener' = IF sends' = sends THEN listener ELSE "busy"
    /\ UNCHANGED <<entitled, registry, endpoint, published, direct, heard, open, faults>>

\* Events that are published while the subscription is broken are lost; a listener
\* that fails is not started again.
LoseEvents ==
    /\ listener = "idle" /\ Fault
    /\ \/ channel # <<>> /\ channel' = <<>> /\ UNCHANGED listener
       \/ channel' = <<>> /\ listener' = "dead"
    /\ UNCHANGED <<entitled, registry, endpoint, published, direct, heard, open, sends>>
--------------------------------------------------------------------------------
(* _send_authorized.                                                              *)

Onward(x, step) == sends' = (sends \ {x}) \cup {[x EXCEPT !.step = step]}

\* A delivery is over: who waited for it goes on.
Done(x) ==
    /\ sends' = sends \ {x}
    /\ pc' = IF x.by \in Sockets THEN [pc EXCEPT ![x.by] = "loop"] ELSE pc
    /\ listener' = IF listener = "busy" /\ \A y \in sends' : y.by # "listener" THEN "idle" ELSE listener

\* Mutant: the rights of the handshake are good enough.
AskNobody(x) ==
    /\ x.step = "asked" /\ Onward(x, "cleared")
    /\ UNCHANGED <<entitled, registry, endpoint, redis, heard, open, listener, faults>>

\* The authorizer is looked up and asks still_authorized; a socket may be replaced in
\* between.
Ask(x) ==
    /\ x.step = "asked" /\ Authorized(x.to) /\ Onward(x, "cleared")
    /\ UNCHANGED <<entitled, registry, endpoint, redis, heard, open, listener, faults>>

\* Whoever has no authorizer any more, or is refused, is closed and removed.
Refuse(x) ==
    /\ x.step = "asked" /\ Done(x)
    /\ ~ Authorized(x.to) \/ x.to \notin authorizers
    /\ open' = open \ {x.to} /\ Disconnect(x.to)
    /\ UNCHANGED <<entitled, latest, dropped, previous, redis, heard, faults>>

\* Then the text is sent, or the socket turns out to be closed.
Send(x) ==
    /\ x.step = "cleared" /\ Done(x)
    /\ \/ /\ x.to \in open
          /\ got' = IF x.event = 0 THEN got ELSE [got EXCEPT ![x.to] = x.event]
          /\ UNCHANGED <<active, authorizers>>
       \/ x.to \notin open /\ Disconnect(x.to) /\ UNCHANGED got
    /\ UNCHANGED <<entitled, latest, dropped, previous, redis, barred, open, faults>>

\* Five seconds have passed or the query has failed: the socket is forgotten, its
\* endpoint goes on.
Stall(x) ==
    /\ Done(x) /\ Fault
    /\ Disconnect(x.to) /\ dropped' = dropped \cup {x.to}
    /\ UNCHANGED <<entitled, latest, previous, redis, heard, open>>

Delivering(x) == Ask(x) \/ Refuse(x) \/ Send(x)

Serving(s) == ClosePrevious(s) \/ Recheck(s) \/ Hangup(s)

SocketsNext ==
    \/ \E u \in Users : Kick(u) \/ Rejoin(u)
    \/ \E s \in Sockets :
          \/ Handshake(s) \/ Connect(s) \/ Receive(s) \/ ClientLeaves(s)
          \/ Serving(s)
    \/ Broadcast \/ Hear \/ LoseEvents
    \/ \E x \in sends : Delivering(x) \/ Stall(x)

\* receive_text ends after thirty seconds at the latest, a delivery after five: the
\* event loop runs what is ready. Clients need not send anything.
SocketsFairness ==
    /\ \A s \in Sockets : WF_socketVars(Serving(s))
    /\ \A by \in Sockets \cup {"listener", "caller"} :
          WF_socketVars(\E x \in sends : x.by = by /\ Delivering(x))

SocketsSpec == SocketsInit /\ [][SocketsNext]_socketVars /\ SocketsFairness
--------------------------------------------------------------------------------
(* Properties.                                                                    *)

SocketsTypeOK ==
    /\ entitled \subseteq Users /\ open \subseteq Sockets
    /\ active \in [Users -> Sockets \cup {NoSocket}] /\ latest \in [Users -> Sockets \cup {NoSocket}]
    /\ \A x \in sends : x.event \in 0..published /\ x.step \in {"asked", "cleared"}
    /\ listener = "busy" <=> \E x \in sends : x.by = "listener"

AuthorizersFit == authorizers = {active[u] : u \in Users} \ {NoSocket}
RegisteredLive == \A s \in Sockets : Registered(s) => pc[s] \notin {"new", "accepting", "left"}
LatestKept     == \A s \in Sockets : latest[Owner[s]] = s /\ s \in open \ dropped => Registered(s)

\* The registry is right: it authorises the sockets it has and no others, it has
\* none whose endpoint is through, and it keeps the last one that a user opened until
\* that one is closed or given up; the late disconnect of one that was replaced does
\* not remove it (connection_manager.disconnect).
RegistryRight == SocketsTypeOK /\ AuthorizersFit /\ RegisteredLive /\ LatestKept

\* "Kicked, deleted and password-reset accounts must stop receiving private events":
\* nobody hears of an event who had no right to it at any time since.
NothingAfterRevocation ==
    [][\A s \in Sockets : got'[s] # got[s] => s \notin barred[got'[s]]]_socketVars

\* Without the fallback, events reach a client in the order they were published in;
\* the fallback disturbs its own events only.
InOrder ==
    [][\A s \in Sockets :
          got'[s] # got[s] /\ {got[s], got'[s]} \cap direct = {} => got'[s] > got[s]]_socketVars

\* A socket that lost its rights does not stay registered, whether its client is
\* silent or keeps talking.
RevokedIsRemoved ==
    \A s \in Sockets :
        Registered(s) /\ ~ Authorized(s) ~> ~ Registered(s) \/ Authorized(s)
================================================================================
