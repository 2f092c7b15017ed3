------------------------------- MODULE Discovery -------------------------------
(***************************************************************************)
(* How a deck of restaurants is found (services/restaurant_service.py):    *)
(* the database first, then OpenStreetMap through a shared cache           *)
(* (services/osm_fallback_service.py) or Google with paid calls            *)
(* (services/google_places_service.py, GoogleQuota), for one person's deck *)
(* or for the deck of a session that its host starts.                      *)
(*                                                                         *)
(* One grid cell of the cache is modelled.  Cards are what the properties  *)
(* tell apart: rows of the restaurants table and places of Google, some of *)
(* which are the same restaurant (same name within 100 m).                 *)
(***************************************************************************)
EXTENDS GoogleQuota, FiniteSets, FiniteSetsExt

CONSTANTS
    Slots,          \* requests that run at the same time
    Users,
    Local,          \* restaurants that may be rows of the table
    Places,         \* places that Google knows, numbered as their ids are sorted
    Twin,           \* Twin[p]: the local restaurant that p obviously is, or NoRow
    Queries,        \* the searches people make
    MinLocal,       \* MIN_LOCAL_RESTAURANTS
    MaxDeck,        \* MAX_DECK_SIZE
    MaxPhotos,      \* the first cards of a deck that get a photo, 5 in the code
    Overpass,       \* what an Overpass endpoint may answer: sets of elements
    Mirrors,        \* Overpass endpoints
    MaxRequests,    \* bound on the requests that begin
    MaxEdits,       \* bound on what time, swipes and administrators change
    MaxFaults,      \* bound on failures of Redis, PostgreSQL and processes
    NoRow, NoSlot

ASSUME DiscoveryAssumption ==
    /\ Users # {} /\ Queries # {} /\ \A q \in Queries : q.seen \subseteq Places
    /\ IsFiniteSet(Local) /\ IsFiniteSet(Places) /\ Places \subseteq Nat /\ Local \cap Places = {}
    /\ Twin \in [Places -> Local \cup {NoRow}]
    /\ NoRow \notin Local /\ NoSlot \notin Slots
    /\ \A answer \in Overpass : answer \subseteq [row : Local, complete : BOOLEAN]
    /\ MinLocal \in Nat /\ MaxDeck \in Nat /\ MinLocal <= MaxDeck
    /\ MaxPhotos \in Nat /\ Mirrors \in Nat \ {0}

\* A request has one call for its search and one for each photo or detail it asks for;
\* a search cools down for the account, a photo or a detail for the account and it.
ASSUME CallsAssumption ==
    /\ Calls = (Slots \X {"nearby_search"} \X {0})
                 \cup (Slots \X {"place_photo", "place_details"} \X Places)
    /\ Keys = ({"nearby_search"} \X Users \X {0})
                 \cup ({"place_photo", "place_details"} \X Users \X Places)

VARIABLES
    provider,   \* "google" or "osm": the configuration of this deployment
    rows,       \* local rows that are there and not expired
    hidden,     \* local restaurants hidden by an administrator
    judged,     \* judged[u]: rows u swiped alone, either way
    live,       \* Google places with a committed placeholder row
    inserting,  \* inserting[p]: the transaction whose placeholder row waits for its commit
    decks,      \* decks[s]: the deck stored by the session that s started
    req,        \* the requests
    marker,     \* the cell's marker in Redis: "none", "ready" or "error"
    lock,       \* the request whose token the cell's lock holds
    lapsed,     \* requests whose lock ran out while they worked
    begun, edits, faults

osmVars  == <<marker, lock, lapsed>>
deckVars == <<provider, rows, hidden, judged, live, inserting, decks, req, begun, edits, faults>>
vars     == <<quotaVars, osmVars, deckVars>>

SearchCall(s) == <<s, "nearby_search", 0>>
Photo(s, p)   == <<s, "place_photo", p>>
Details(s, p) == <<s, "place_details", p>>

SearchKey(u)      == <<"nearby_search", u, 0>>
ResourceKey(op, u, p) == <<op, u, p>>

NoRequest == [pc |-> "idle", kind |-> "solo", who |-> CHOOSE u \in Users : TRUE,
              query |-> CHOOSE q \in Queries : TRUE, within |-> {}, cards |-> {},
              todo |-> {}, kept |-> {}, seen |-> {}, mirror |-> 0, token |-> FALSE]

GoogleOn == provider = "google"
PhotosOn == GoogleOn /\ Limit["place_photo"] > 0

\* Rows that discovery may deal (_apply_data_mode), and those of a query.
Dealable  == rows \ hidden
Within(q) == Dealable \cap q.fits
Nearby(q) == Dealable \cap q.near

Set(s, r) == req' = [req EXCEPT ![s] = r]
Go(s, pc) == Set(s, [req[s] EXCEPT !.pc = pc])

Smaller(a, b) == IF a < b THEN a ELSE b

\* Decks shuffled from a set of cards and cut off.
DecksOf(cards) == kSubset(Smaller(MaxDeck, Cardinality(cards)), cards)

DiscoveryInit ==
    /\ QuotaInit
    /\ provider \in {"google", "osm"}
    /\ rows = IF provider = "google" THEN Local ELSE {}
    /\ hidden \in SUBSET rows /\ judged = [u \in Users |-> {}]
    /\ live = {} /\ inserting = [p \in Places |-> NoSlot]
    /\ decks = [s \in Slots |-> {}]
    /\ req = [s \in Slots |-> NoRequest]
    /\ marker = "none" /\ lock = NoSlot /\ lapsed = {}
    /\ begun = 0 /\ edits = 0 /\ faults = 0

MayFault == faults < MaxFaults
Fault    == MayFault /\ faults' = faults + 1
Edit     == edits < MaxEdits /\ edits' = edits + 1

Kept  == UNCHANGED <<provider, rows, hidden, judged, live, inserting, decks, begun, edits, faults>>
Kept2 == UNCHANGED <<provider, rows, hidden, judged, live, inserting, decks, begun, edits>>
--------------------------------------------------------------------------------
(* Requests.                                                               *)

\* POST /restaurants/deck, start_session, and GET of a session's deck.
Begin(s) ==
    /\ req[s].pc = "idle" /\ begun < MaxRequests
    /\ \E u \in Users :
          \/ \E kind \in {"solo", "session"}, q \in Queries :
                /\ kind = "session" => decks[s] = {}
                /\ Set(s, [NoRequest EXCEPT !.pc = "search", !.kind = kind, !.who = u, !.query = q,
                                            !.kept = hidden, !.seen = judged[u]])
          \/ \E d \in Slots :
                /\ decks[d] # {}
                /\ Set(s, [NoRequest EXCEPT !.pc = "recover", !.kind = "recover", !.who = u,
                                            !.cards = decks[d]])
    /\ begun' = begun + 1
    /\ UNCHANGED <<quotaVars, osmVars, provider, rows, hidden, judged, live, inserting, decks, edits, faults>>

\* Only a wide search of an area without a single row asks OpenStreetMap, and
\* only where Google is off (_search, _should_request_fallback).
NeedsOsm(q) == ~ GoogleOn /\ Within(q) = {} /\ Nearby(q) = {} /\ q.wide

Found(s, w) == Set(s, [req[s] EXCEPT !.pc = "found", !.within = w \cap req[s].query.open])

FirstSearch(s) ==
    LET q == req[s].query IN
    /\ req[s].pc = "search"
    /\ IF NeedsOsm(q) THEN Go(s, "marker") ELSE Found(s, Within(q))
    /\ Kept /\ UNCHANGED <<quotaVars, osmVars>>

SearchAgain(s) ==
    /\ req[s].pc = "requery"
    /\ Found(s, Within(req[s].query))
    /\ Kept /\ UNCHANGED <<quotaVars, osmVars>>

Answered(s, cards, pc) == Set(s, [req[s] EXCEPT !.pc = pc, !.cards = cards, !.within = {}])

AskGoogle(s) ==
    /\ Go(s, "asking")
    /\ Start([c \in {SearchCall(s)} |-> Reserving("nearby_search", SearchKey(req[s].who))])

\* get_solo_deck after the search: rows that the user has not judged yet; when
\* none is left, Google, but only if asked for and without filters that Google's
\* minimal answer cannot satisfy.
DealSolo(s) ==
    LET q == req[s].query  unseen == req[s].within \ judged[req[s].who] IN
    /\ req[s].pc = "found" /\ req[s].kind = "solo"
    /\ \/ \E deck \in DecksOf(unseen) : unseen # {} /\ Answered(s, deck, "done") /\ UNCHANGED quotaVars
       \/ unseen = {} /\ q.plain /\ GoogleOn /\ q.fallback /\ AskGoogle(s)
       \/ unseen = {} /\ ~ (q.plain /\ GoogleOn /\ q.fallback) /\ Answered(s, {}, "done")
          /\ UNCHANGED quotaVars
    /\ Kept /\ UNCHANGED osmVars

\* create_session_deck: a session takes no deck of fewer than MinLocal cards.
EnoughForSession(cards) == Cardinality(cards) >= MinLocal

DealSession(s) ==
    LET q == req[s].query  w == req[s].within IN
    /\ req[s].pc = "found" /\ req[s].kind = "session"
    /\ \/ \E deck \in DecksOf(w) :
             w # {} /\ EnoughForSession(w) /\ Answered(s, deck, "commit") /\ UNCHANGED quotaVars
       \/ w # {} /\ ~ EnoughForSession(w) /\ Answered(s, {}, "done") /\ UNCHANGED quotaVars
       \/ w = {} /\ GoogleOn /\ q.plain /\ AskGoogle(s)
       \/ w = {} /\ ~ (GoogleOn /\ q.plain) /\ Answered(s, {}, "done") /\ UNCHANGED quotaVars
    /\ Kept /\ UNCHANGED osmVars

\* Places that obviously are one of the restaurants in known.
Duplicates(known) == {p \in Places : Twin[p] \in known}

\* Mutant: one's own deck forgets the restaurants that are hidden.
FreshUnlisted(s, found) ==
    IF req[s].kind = "solo"
    THEN (found \ Duplicates(req[s].within)) \ req[s].query.seen
    ELSE found \ Duplicates(hidden)

Fresh(s, found) ==
    IF req[s].kind = "solo"
    THEN (found \ Duplicates(req[s].within \cup hidden)) \ req[s].query.seen
    ELSE found \ Duplicates(hidden)

\* Mutant: any deck will do, for a session too.
EnoughForOne(s, deck) == deck # {}

Enough(s, deck) == deck # {} /\ (req[s].kind = "session" => EnoughForSession(deck))

\* Mutant: the photos go out under the reservation of the search.
PhotoCallsForFree(s, P) == [c \in {Photo(s, p) : p \in P} |-> At(SearchCall(s), "paid")]

PhotoCalls(s, P) ==
    [c \in {Photo(s, p) : p \in P} |->
        Reserving("place_photo", ResourceKey("place_photo", req[s].who, c[3]))]

InsteadOf(c, new) == [d \in DOMAIN new \cup {c} |-> IF d = c THEN NoCall ELSE new[d]]

\* _to_card: of Google's answer, the places with an id, a name, a position and the
\* category that was asked for.
Answers == SUBSET Places

\* The answer of the search: nothing, or cards without hidden and seen places; the
\* first MaxPhotos of the final deck ask for their photo, all at the same time.
ReceiveCards(s) ==
    LET c == SearchCall(s) IN
    /\ req[s].pc = "asking"
    /\ \/ /\ call[c].stage \in Ended \ {"answered"}
          /\ Answered(s, {}, "done") /\ Drop({c})
       \/ \E found \in Answers : \E deck \in DecksOf(Fresh(s, found)) :
             /\ call[c].stage = "answered"
             /\ \/ ~ Enough(s, deck) /\ Answered(s, {}, "done") /\ Drop({c})
                \/ \E P \in SUBSET deck :
                      /\ Enough(s, deck)
                      /\ Cardinality(P) <= MaxPhotos /\ (P # {} => PhotosOn)
                      /\ Answered(s, deck, "photos")
                      /\ Start(InsteadOf(c, PhotoCalls(s, P)))
    /\ Kept /\ UNCHANGED osmVars

Own(s)     == {c \in Calls : c[1] = s}
Settled(s) == \A c \in Own(s) : call[c].stage \in Ended \cup {"idle"}

\* Cards keep their place when a photo fails; a session then inserts rows.
PhotosLoaded(s) ==
    /\ req[s].pc = "photos" /\ Settled(s)
    /\ IF req[s].kind = "solo" THEN Go(s, "done")
       ELSE Set(s, [req[s] EXCEPT !.pc = "insert", !.todo = req[s].cards])
    /\ Drop(Own(s))
    /\ Kept /\ UNCHANGED osmVars

\* Mutant: in the order of the deck, which differs from request to request.
NextInDeckOrder(s) ==
    IF s = CHOOSE t \in Slots : TRUE THEN Max(req[s].todo) ELSE Min(req[s].todo)

\* INSERT ... ON CONFLICT DO NOTHING of the placeholder rows, in the order of their
\* ids: each row waits for a transaction that inserted it and is not over.
NextPlaceholder(s) == Min(req[s].todo)

InsertPlaceholder(s) ==
    /\ req[s].pc = "insert"
    /\ LET p == NextPlaceholder(s)  rest == req[s].todo \ {p} IN
       /\ inserting[p] = NoSlot
       /\ inserting' = IF p \in live THEN inserting ELSE [inserting EXCEPT ![p] = s]
       /\ Set(s, [req[s] EXCEPT !.todo = rest, !.pc = IF rest = {} THEN "commit" ELSE "insert"])
    /\ UNCHANGED <<quotaVars, osmVars, provider, rows, hidden, judged, live, decks, begun, edits, faults>>

Mine(s)   == {p \in Places : inserting[p] = s}
Undone(s) == [p \in Places |-> IF inserting[p] = s THEN NoSlot ELSE inserting[p]]

\* start_session commits the deck together with its placeholder rows.
CommitDeck(s) ==
    /\ req[s].pc = "commit"
    /\ decks' = [decks EXCEPT ![s] = req[s].cards]
    /\ live' = live \cup Mine(s) /\ inserting' = Undone(s)
    /\ Go(s, "done")
    /\ UNCHANGED <<quotaVars, osmVars, provider, rows, hidden, judged, begun, edits, faults>>

\* get_session_deck: a deck of live places is looked up by its ids, a card whose
\* answer is missing or about another place stays the stored reference.
Recover(s) ==
    LET google == {p \in req[s].cards : p \in Places} IN
    /\ req[s].pc = "recover"
    /\ IF GoogleOn /\ google # {}
       THEN /\ Go(s, "details")
            /\ Start([c \in {Details(s, p) : p \in google} |->
                  Reserving("place_details", ResourceKey("place_details", req[s].who, c[3]))])
       ELSE Go(s, "done") /\ UNCHANGED quotaVars
    /\ Kept /\ UNCHANGED osmVars

Resolved(reference, place) == IF place = reference THEN place ELSE reference

Recovered(s) ==
    LET got == {p \in req[s].cards : call[Details(s, p)].stage = "answered"} IN
    /\ req[s].pc = "details" /\ Settled(s)
    /\ \E place \in [got -> Places] :
          Set(s, [req[s] EXCEPT !.pc = "done",
                  !.cards = (req[s].cards \ got) \cup {Resolved(p, place[p]) : p \in got}])
    /\ Drop(Own(s))
    /\ Kept /\ UNCHANGED osmVars

Respond(s) ==
    /\ req[s].pc = "done"
    /\ Set(s, NoRequest)
    /\ Kept /\ UNCHANGED <<quotaVars, osmVars>>
--------------------------------------------------------------------------------
(* OsmFallbackService.ensure_area.                                         *)

\* A failing Redis answers like an empty one.
ReadMarker(s) ==
    /\ req[s].pc \in {"marker", "recheck"}
    /\ \/ /\ marker # "none" /\ UNCHANGED faults
          /\ Go(s, IF req[s].pc = "marker" THEN "requery" ELSE "release")
       \/ /\ IF marker = "none" THEN UNCHANGED faults ELSE Fault
          /\ IF req[s].pc = "marker" THEN Go(s, "lock")
             ELSE Set(s, [req[s] EXCEPT !.pc = "fetch", !.mirror = 1])
    /\ Kept2 /\ UNCHANGED <<quotaVars, osmVars>>

\* SET NX of a fresh token; without Redis the request goes on without a lock.
AcquireLock(s) ==
    /\ req[s].pc = "lock"
    /\ \/ /\ lock = NoSlot /\ lock' = s /\ UNCHANGED faults
          /\ Set(s, [req[s] EXCEPT !.pc = "recheck", !.token = TRUE])
       \/ lock # NoSlot /\ Go(s, "wait") /\ UNCHANGED <<lock, faults>>
       \/ Go(s, "recheck") /\ Fault /\ UNCHANGED lock
    /\ Kept2 /\ UNCHANGED <<quotaVars, marker, lapsed>>

\* Polls until it sees a marker or the polls run out; either way it searches again.
AwaitMarker(s) ==
    /\ req[s].pc = "wait"
    /\ Go(s, "requery")
    /\ Kept /\ UNCHANGED <<quotaVars, osmVars>>

\* parse_osm_elements: elements without an id, a name or a position are left out.
Parsed(elements) == {e.row : e \in {e \in elements : e.complete}}

\* One mirror after the other until one answers or the time is up.
Fetch(s) ==
    /\ req[s].pc = "fetch"
    /\ \/ \E elements \in Overpass :
             Set(s, [req[s] EXCEPT !.pc = "persist", !.cards = Parsed(elements)])
       \/ /\ req[s].mirror < Mirrors
          /\ Set(s, [req[s] EXCEPT !.mirror = req[s].mirror + 1])
       \/ Go(s, "markerror")
    /\ Kept /\ UNCHANGED <<quotaVars, osmVars>>

\* The upsert touches neither is_hidden nor rows that an administrator edited.
Persist(s) ==
    /\ req[s].pc = "persist"
    /\ \/ /\ rows' = rows \cup req[s].cards /\ UNCHANGED faults
          /\ Set(s, [req[s] EXCEPT !.pc = "markready", !.cards = {}])
       \/ /\ Fault /\ UNCHANGED rows
          /\ Set(s, [req[s] EXCEPT !.pc = "markerror", !.cards = {}])
    /\ UNCHANGED <<quotaVars, osmVars, provider, hidden, judged, live, inserting, decks, begun, edits>>

\* "ready" for a week, or "error" for a minute so that an outage is not hammered.
SetMarker(s) ==
    /\ \E m \in {"ready", "error"} :
          /\ req[s].pc = IF m = "ready" THEN "markready" ELSE "markerror"
          /\ Go(s, IF m = "ready" THEN "release" ELSE "raise")
          /\ \/ marker' = m /\ UNCHANGED faults
             \/ Fault /\ UNCHANGED marker
    /\ Kept2 /\ UNCHANGED <<quotaVars, lock, lapsed>>

\* Mutant: delete without comparing.
MayDeleteAny(s) == req[s].token

\* Compare the token and delete, in one script.
MayDelete(s) == req[s].token /\ lock = s

ReleaseLock(s) ==
    /\ req[s].pc \in {"release", "raise"}
    /\ \/ lock' = (IF MayDelete(s) THEN NoSlot ELSE lock) /\ UNCHANGED faults
       \/ MayDelete(s) /\ Fault /\ UNCHANGED lock
    /\ lapsed' = lapsed \ {s}
    /\ IF req[s].pc = "release" THEN Set(s, [req[s] EXCEPT !.pc = "requery", !.token = FALSE])
       ELSE Set(s, [req[s] EXCEPT !.pc = "found", !.token = FALSE, !.within = {}])
    /\ Kept2 /\ UNCHANGED <<quotaVars, marker>>
--------------------------------------------------------------------------------
(* Time, administrators, swipes and failures.                              *)

Filling == {"recheck", "fetch", "persist", "markready", "markerror", "release", "raise"}
Holds(s) == req[s].pc \in Filling /\ req[s].token

\* The TTL of the lock exceeds the time of a fetch; only a slow one outlives it.
LockExpires ==
    /\ lock # NoSlot
    /\ lock' = NoSlot
    /\ IF Holds(lock) THEN lapsed' = lapsed \cup {lock} /\ Fault ELSE UNCHANGED <<lapsed, faults>>
    /\ Kept2 /\ UNCHANGED <<quotaVars, req, marker>>

MarkerExpires ==
    /\ marker # "none" /\ marker' = "none" /\ Edit
    /\ UNCHANGED <<provider, rows, hidden, judged, live, inserting, decks, begun, faults>>
    /\ UNCHANGED <<quotaVars, req, lock, lapsed>>

\* Rows that an administrator has edited are permanent.
RowsExpire ==
    /\ Edit /\ ~ GoogleOn /\ rows' = rows \cap hidden /\ rows' # rows
    /\ UNCHANGED <<quotaVars, osmVars, provider, hidden, judged, live, inserting, decks, req, begun, faults>>

Hide(r) ==
    /\ Edit /\ r \in rows \ hidden /\ hidden' = hidden \cup {r}
    /\ UNCHANGED <<quotaVars, osmVars, provider, rows, judged, live, inserting, decks, req, begun, faults>>

Unhide(r) ==
    /\ Edit /\ r \in hidden /\ hidden' = hidden \ {r}
    /\ req' = [s \in Slots |-> [req[s] EXCEPT !.kept = req[s].kept \ {r}]]
    /\ UNCHANGED <<quotaVars, osmVars, provider, rows, judged, live, inserting, decks, begun, faults>>

\* record_solo_swipe and solo_like.
Judge(u, r) ==
    /\ Edit /\ r \in rows \ judged[u] /\ judged' = [judged EXCEPT ![u] = judged[u] \cup {r}]
    /\ UNCHANGED <<quotaVars, osmVars, provider, rows, hidden, live, inserting, decks, req, begun, faults>>

\* The process dies: its transaction rolls back, its lock waits for its TTL.
Crash(s) ==
    /\ req[s].pc # "idle" /\ Set(s, NoRequest) /\ Drop(Own(s)) /\ Fault
    /\ inserting' = Undone(s) /\ lapsed' = lapsed \ {s}
    /\ UNCHANGED <<marker, lock, provider, rows, hidden, judged, live, decks, begun, edits>>

Google ==
    /\ \/ \E c \in Calls : /\ Calling(c)
                           /\ IF call'[c].stage = "unavailable" THEN Fault ELSE UNCHANGED faults
                           /\ UNCHANGED edits
       \/ (CooldownEnds \/ MonthTurns) /\ Edit /\ UNCHANGED faults
    /\ UNCHANGED <<osmVars, req, provider, rows, hidden, judged, live, inserting, decks, begun>>

Asking(s) ==
    \/ Begin(s) \/ FirstSearch(s) \/ SearchAgain(s) \/ DealSolo(s) \/ DealSession(s)
    \/ ReceiveCards(s) \/ PhotosLoaded(s) \/ InsertPlaceholder(s) \/ CommitDeck(s)
    \/ Recover(s) \/ Recovered(s) \/ Respond(s)

EnsuringArea(s) ==
    \/ ReadMarker(s) \/ AcquireLock(s) \/ AwaitMarker(s) \/ Fetch(s) \/ Persist(s)
    \/ SetMarker(s) \/ ReleaseLock(s)

DiscoveryNext ==
    \/ \E s \in Slots : Asking(s) \/ EnsuringArea(s) \/ Crash(s)
    \/ Google \/ LockExpires \/ MarkerExpires \/ RowsExpire
    \/ \E r \in Local : Hide(r) \/ Unhide(r) \/ \E u \in Users : Judge(u, r)

DiscoverySpec == DiscoveryInit /\ [][DiscoveryNext]_vars
--------------------------------------------------------------------------------
(* Properties.                                                             *)

DiscoveryTypeOK ==
    /\ rows \subseteq Local /\ hidden \subseteq Local /\ live \subseteq Places
    /\ inserting \in [Places -> Slots \cup {NoSlot}]
    /\ \A s \in Slots : decks[s] \subseteq Local \/ decks[s] \subseteq live
    /\ \A s \in Slots : req[s].cards \subseteq Local \/ req[s].cards \subseteq Places
    /\ marker \in {"none", "ready", "error"} /\ lock \in Slots \cup {NoSlot}
    /\ \A c \in Calls : call[c].stage # "idle" => req[c[1]].pc \in {"asking", "photos", "details"}

Delivered(s, kinds) == req[s].pc = "done" /\ req[s].kind \in kinds

\* A restaurant that stayed hidden while a deck was made is not in it, neither as
\* a row nor as the place of Google that obviously is the same; and nobody is dealt
\* alone what one had judged before asking, nor a place of Google that the screen said
\* it has shown.
DealtFresh ==
    \A s \in Slots :
        /\ Delivered(s, {"solo", "session"}) =>
              \A x \in req[s].cards :
                  x \notin req[s].kept /\ (x \in Places => Twin[x] \notin req[s].kept)
        /\ Delivered(s, {"solo"}) => req[s].cards \cap (req[s].seen \cup req[s].query.seen) = {}

\* A session has no deck or one with enough cards to vote on, and a deck that is
\* looked up later has the very cards that were stored.
SessionDecksWhole ==
    /\ DiscoveryTypeOK
    /\ \A s \in Slots : decks[s] = {} \/ Cardinality(decks[s]) \in MinLocal..MaxDeck
    /\ \A s \in Slots : Delivered(s, {"recover"}) => \E d \in Slots : req[s].cards = decks[d]

\* However many starts insert placeholder rows, one of them waits for none of the others.
WaitsFor(s, t) == req[s].pc = "insert" /\ inserting[NextPlaceholder(s)] = t
NoInsertDeadlock ==
    \A W \in SUBSET Slots : W # {} => \E s \in W : \A t \in W : ~ WaitsFor(s, t)

\* A request that took the cell's lock has it until it gives it back, unless the
\* lock ran out under it: nobody else's late release takes it away (token compare
\* in _release_lock), so that one request at a time asks Overpass.
OneFiller == \A s \in Slots : Holds(s) /\ s \notin lapsed => lock = s

\* Decks spend money only as reserve allows.
ImplementsQuota == QuotaSpec
================================================================================
