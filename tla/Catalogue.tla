------------------------------- MODULE Catalogue -------------------------------
(***************************************************************************)
(* The rows of the restaurants table between the people and jobs that      *)
(* change them: the import of OpenStreetMap, administrators in several     *)
(* browser tabs (api/routes/admin.py), solo swipes and session decks that  *)
(* refer to rows (services/vote_service.py, restaurant_service.py), and    *)
(* the nightly cleanup (tasks/cleanup.py).  Photos are objects of a bucket *)
(* that no transaction covers (services/restaurant_media.py).              *)
(*                                                                         *)
(* Transactions are READ COMMITTED.  Row locks are those of PostgreSQL:    *)
(* SELECT FOR UPDATE and DELETE take a row for themselves, the foreign key *)
(* of a vote or of a deck card shares it until the insert commits.         *)
(***************************************************************************)
EXTENDS OpeningHours, FiniteSets, Sequences

CONSTANTS
    Rows,           \* restaurant ids; an id is used once
    Tabs,           \* browser tabs of administrators
    Phones,         \* requests of participants that run at the same time
    User,           \* User[p]: whose request p is
    PhotoKeys,      \* keys of photo objects, each minted once
    Names,          \* what the import and administrators may write into a row
    Hours,          \* opening hours that administrators may save, sets of periods
    MaxVersion,     \* bound on the saves of one restaurant
    MaxFaults,      \* bound on failures
    NoKey, Nobody, Cleaner

Users == {User[p] : p \in Phones}
Txs   == Tabs \cup Phones \cup {Cleaner}

ASSUME CatalogueAssumption ==
    /\ Rows # {} /\ Names # {} /\ Phones # {}
    /\ User \in [Phones -> Users] /\ NoKey \notin PhotoKeys
    /\ Nobody \notin Txs /\ Cleaner \notin Tabs \cup Phones /\ Tabs \cap Phones = {}
    /\ \A h \in Hours : h \subseteq Windows \/ h = {Always}
    /\ MaxVersion \in Nat \ {0} /\ MaxFaults \in Nat

VARIABLES
    row,        \* the committed rows
    audit,      \* restaurant_audits, by restaurant: the versions each save replaced
    held,       \* who has taken a row for update or deletion
    shared,     \* whose inserts hold on to a row
    votes,      \* votes[u][r]: the committed solo vote
    decks,      \* rows that committed session decks show
    objects,    \* photos in the bucket
    minted,     \* keys that were ever made
    tab, phone, cleaner,
    unsure,     \* restaurants whose upload was committed, with an answer that got lost
    faults

tables == <<row, audit, votes, decks>>
locks  == <<held, shared>>
bucket == <<objects, minted, unsure>>
vars   == <<tables, locks, bucket, tab, phone, cleaner, faults>>

Unborn == [status |-> "unborn", permanent |-> FALSE, expired |-> FALSE, version |-> 0,
           name |-> CHOOSE n \in Names : TRUE, hours |-> {}, hidden |-> FALSE, photo |-> NoKey]

IdleTab   == [pc |-> "idle", r |-> CHOOSE r \in Rows : TRUE, version |-> 0, copy |-> Unborn,
              key |-> NoKey]
IdlePhone == [pc |-> "idle", kind |-> "deck", todo |-> {}, taken |-> {}]

CatalogueInit ==
    /\ row = [r \in Rows |-> Unborn]
    /\ audit = [r \in Rows |-> <<>>]
    /\ held = [r \in Rows |-> Nobody] /\ shared = [r \in Rows |-> {}]
    /\ votes = [u \in Users |-> [r \in Rows |-> "none"]] /\ decks = {}
    /\ objects = {} /\ minted = {} /\ unsure = {}
    /\ tab = [t \in Tabs |-> IdleTab] /\ phone = [p \in Phones |-> IdlePhone]
    /\ cleaner = [pc |-> "idle", todo |-> {}, taken |-> {}]
    /\ faults = 0

There(r) == row[r].status = "there"
Fault    == faults < MaxFaults /\ faults' = faults + 1

Release(tx) ==
    /\ held'   = [r \in Rows |-> IF held[r] = tx THEN Nobody ELSE held[r]]
    /\ shared' = [r \in Rows |-> shared[r] \ {tx}]
--------------------------------------------------------------------------------
(* OpenStreetMap and time.                                                 *)

\* The upsert of osm_fallback_service: a new row without hours, or a new name and term
\* for one that no administrator has saved. It waits for whoever holds the row.
Import(r) ==
    /\ held[r] = Nobody
    /\ \E n \in Names :
          \/ /\ row[r].status = "unborn"
             /\ row' = [row EXCEPT ![r] = [Unborn EXCEPT !.status = "there", !.version = 1,
                                                         !.name = n]]
          \/ /\ There(r) /\ ~ row[r].permanent
             /\ row' = [row EXCEPT ![r].name = n, ![r].expired = FALSE]
    /\ UNCHANGED <<audit, votes, decks, locks, bucket, tab, phone, cleaner, faults>>

Expire(r) ==
    /\ There(r) /\ ~ row[r].permanent /\ ~ row[r].expired
    /\ row' = [row EXCEPT ![r].expired = TRUE]
    /\ UNCHANGED <<audit, votes, decks, locks, bucket, tab, phone, cleaner, faults>>
--------------------------------------------------------------------------------
(* Administrators.                                                         *)

Step(t, pc) == tab' = [tab EXCEPT ![t].pc = pc]
End(t)      == tab' = [tab EXCEPT ![t] = IdleTab]

\* detail: the page shows a restaurant and keeps its version for the save.
Open(t, r) ==
    /\ tab[t].pc = "idle" /\ There(r)
    /\ tab' = [tab EXCEPT ![t] = [IdleTab EXCEPT !.pc = "open", !.r = r, !.version = row[r].version]]
    /\ UNCHANGED <<tables, locks, bucket, phone, cleaner, faults>>

\* Mutant: the row is read without a lock.
MayReadRow(t) == TRUE

\* SELECT ... FOR UPDATE waits for everyone who holds or shares the row.
MayTakeRow(t) == held[tab[t].r] = Nobody /\ shared[tab[t].r] = {}

\* _restaurant with the expected version: 404, 409, or the row is ours.
TakeRow(t) ==
    LET r == tab[t].r IN
    /\ tab[t].pc = "open" /\ MayTakeRow(t)
    /\ \/ /\ ~ There(r) \/ row[r].version # tab[t].version
          /\ End(t) /\ UNCHANGED held
       \/ /\ There(r) /\ row[r].version = tab[t].version /\ row[r].version < MaxVersion
          /\ \E request \in {"edit", "upload", "remove"} :
                tab' = [tab EXCEPT ![t].pc = request, ![t].copy = row[r]]
          /\ held' = [held EXCEPT ![r] = t]
    /\ UNCHANGED <<tables, shared, bucket, phone, cleaner, faults>>

\* _record: a save makes the row permanent, counts it and writes its history.
Saved(t, new) == [new EXCEPT !.version = tab[t].version + 1, !.permanent = TRUE, !.expired = FALSE]

Record(t, new) ==
    /\ row' = [row EXCEPT ![tab[t].r] = Saved(t, new)]
    /\ audit' = [audit EXCEPT ![tab[t].r] = Append(@, tab[t].version)]

Commit(t, new) == Record(t, new) /\ Release(t)
Rollback(t)    == Release(t) /\ UNCHANGED <<row, audit>>

\* edit: the fields of the form, is_hidden only if the form has it. A save that
\* changes nothing is not recorded.
SaveEdit(t) ==
    LET old == tab[t].copy IN
    /\ tab[t].pc = "edit"
    /\ \E n \in Names, h \in Hours \cup {{}}, hide \in {TRUE, FALSE} :
          LET new == [old EXCEPT !.name = n, !.hours = h, !.hidden = hide] IN
          \/ new # old /\ Commit(t, new) /\ UNCHANGED faults
          \/ new = old /\ Rollback(t) /\ UNCHANGED faults
          \/ new # old /\ Rollback(t) /\ Fault
    /\ End(t)
    /\ UNCHANGED <<votes, decks, bucket, phone, cleaner>>

\* upload_photo: the object first, under a key of its own. A put that fails may have
\* stored it all the same; nothing is saved then.
PutPhoto(t) ==
    /\ tab[t].pc = "upload"
    /\ \E key \in PhotoKeys \ minted :
          /\ minted' = minted \cup {key}
          /\ \/ /\ objects' = objects \cup {key}
                /\ tab' = [tab EXCEPT ![t].pc = "save", ![t].key = key]
                /\ UNCHANGED <<row, audit, locks, faults>>
             \/ /\ objects' \in {objects, objects \cup {key}}
                /\ End(t) /\ Rollback(t) /\ Fault
    /\ UNCHANGED <<votes, decks, unsure, phone, cleaner>>

\* Mutant: the photo that is replaced goes first.
SavePhotoLast(t) ==
    LET old == tab[t].copy  new == [old EXCEPT !.photo = tab[t].key] IN
    /\ tab[t].pc = "save"
    /\ \/ Commit(t, new) /\ End(t) /\ UNCHANGED <<unsure, faults>>
       \/ Rollback(t) /\ Step(t, "undo") /\ UNCHANGED unsure /\ Fault
       \/ Commit(t, new) /\ Step(t, "undo") /\ unsure' = unsure \cup {tab[t].r} /\ Fault
    /\ objects' = objects \ {old.photo}
    /\ UNCHANGED <<votes, decks, minted, phone, cleaner>>

\* Then the row. A commit that raises is answered by deleting the new object, also
\* where the commit took effect and only its acknowledgement was lost.
SavePhoto(t) ==
    LET new == [tab[t].copy EXCEPT !.photo = tab[t].key] IN
    /\ tab[t].pc = "save"
    /\ \/ Commit(t, new) /\ Step(t, "clear") /\ UNCHANGED <<unsure, faults>>
       \/ Rollback(t) /\ Step(t, "undo") /\ UNCHANGED unsure /\ Fault
       \/ Commit(t, new) /\ Step(t, "undo") /\ unsure' = unsure \cup {tab[t].r} /\ Fault
    /\ UNCHANGED <<votes, decks, objects, minted, phone, cleaner>>

\* remove_photo: the row first, then the object.
RemovePhoto(t) ==
    LET new == [tab[t].copy EXCEPT !.photo = NoKey] IN
    /\ tab[t].pc = "remove"
    /\ \/ Commit(t, new) /\ Step(t, "clear") /\ UNCHANGED faults
       \/ (Rollback(t) \/ Commit(t, new)) /\ End(t) /\ Fault
    /\ UNCHANGED <<votes, decks, bucket, phone, cleaner>>

\* _delete_old: of the photo that was replaced, or of the new one after a failure.
\* When the deletion fails the object stays.
Stale(t) == IF tab[t].pc = "clear" THEN tab[t].copy.photo ELSE tab[t].key

DeleteOld(t) ==
    /\ tab[t].pc \in {"clear", "undo"}
    /\ \/ objects' = objects \ {Stale(t)} /\ UNCHANGED faults
       \/ Stale(t) \in objects /\ Fault /\ UNCHANGED objects
    /\ End(t)
    /\ UNCHANGED <<tables, locks, minted, unsure, phone, cleaner>>
--------------------------------------------------------------------------------
(* Votes and decks.                                                        *)

\* _apply_data_mode: what new searches may find.
Discoverable(r) == There(r) /\ ~ row[r].hidden /\ ~ row[r].expired

\* _search with open_now: hours must be known, although is_open_at takes unknown ones
\* for open.
OpenNow(now) ==
    {r \in Rows : Discoverable(r) /\ row[r].hours # {} /\ IsOpenAt(row[r].hours, now)}

\* solo_like, record_solo_swipe: an existing restaurant, hidden or not. start_session:
\* what a search has found, with whatever filters.
Ask(p) ==
    /\ phone[p].pc = "idle"
    /\ \E todo \in SUBSET {r \in Rows : There(r)}, kind \in {"like", "skip", "swipe", "deck"} :
          /\ todo # {} /\ (kind # "deck" => Cardinality(todo) = 1)
          /\ kind = "deck" => \A r \in todo : Discoverable(r)
          /\ phone' = [phone EXCEPT ![p] = [pc |-> "insert", kind |-> kind, todo |-> todo, taken |-> {}]]
    /\ UNCHANGED <<tables, locks, bucket, tab, cleaner, faults>>

Solo(p) == phone[p].kind # "deck"

\* The unique index lets a second vote of the same person wait for the first.
IsVoting(r, p) ==
    \E q \in Phones \ {p} : Solo(q) /\ User[q] = User[p] /\ r \in phone[q].taken

\* The foreign key waits for whoever holds the row and fails when the row is gone.
MayRefer(p, r) == held[r] = Nobody

IsInserting(p, r) == IF Solo(p) THEN votes[User[p]][r] = "none" ELSE TRUE

Insert(p) ==
    /\ phone[p].pc = "insert"
    /\ \E r \in phone[p].todo :
          /\ Solo(p) => ~ IsVoting(r, p)
          /\ \/ /\ IsInserting(p, r) /\ MayRefer(p, r) /\ There(r)
                /\ shared' = [shared EXCEPT ![r] = @ \cup {p}]
                /\ phone' = [phone EXCEPT ![p].todo = @ \ {r}, ![p].taken = @ \cup {r},
                                          ![p].pc = IF phone[p].todo = {r} THEN "commit" ELSE "insert"]
                /\ UNCHANGED held
             \/ /\ IsInserting(p, r) /\ MayRefer(p, r) /\ ~ There(r)
                /\ phone' = [phone EXCEPT ![p] = IdlePhone] /\ Release(p)
             \/ /\ ~ IsInserting(p, r)
                /\ phone' = [phone EXCEPT ![p].todo = {}, ![p].taken = {r}, ![p].pc = "commit"]
                /\ UNCHANGED locks
    /\ UNCHANGED <<tables, bucket, tab, cleaner, faults>>

\* solo_like inserts and leaves a vote that is there as it is, record_solo_swipe
\* inserts or turns it.
Direction(p, was) ==
    IF phone[p].kind = "like" THEN IF was = "none" THEN "like" ELSE was
    ELSE IF phone[p].kind = "swipe" THEN "like" ELSE "skip"

CommitReferences(p) ==
    /\ phone[p].pc = "commit"
    /\ IF Solo(p)
       THEN /\ votes' = [votes EXCEPT ![User[p]] =
                            [r \in Rows |-> IF r \in phone[p].taken THEN Direction(p, votes[User[p]][r])
                                            ELSE votes[User[p]][r]]]
            /\ UNCHANGED decks
       ELSE decks' = decks \cup phone[p].taken /\ UNCHANGED votes
    /\ phone' = [phone EXCEPT ![p] = IdlePhone] /\ Release(p)
    /\ UNCHANGED <<row, audit, bucket, tab, cleaner, faults>>
--------------------------------------------------------------------------------
(* The nightly cleanup: one DELETE.                                        *)

Referenced(r) == r \in decks \/ \E u \in Users : votes[u][r] # "none"
Dead(r)       == There(r) /\ ~ row[r].permanent /\ row[r].expired

\* The statement's snapshot.
Cleanup ==
    /\ cleaner.pc = "idle"
    /\ cleaner' = [pc |-> "delete", todo |-> {r \in Rows : Dead(r) /\ ~ Referenced(r)}, taken |-> {}]
    /\ cleaner'.todo # {}
    /\ UNCHANGED <<tables, locks, bucket, tab, phone, faults>>

\* Mutant: the rows that were chosen are deleted as they were chosen.
StillDeadAsSeen(r) == TRUE

\* Row by row it waits for whoever holds or shares a row, and looks again at one
\* that was updated meanwhile. References are not looked at again.
StillDead(r) == Dead(r)

TakeDead ==
    /\ cleaner.pc = "delete"
    /\ \E r \in cleaner.todo :
          /\ held[r] = Nobody /\ shared[r] = {}
          /\ IF StillDead(r)
             THEN /\ held' = [held EXCEPT ![r] = Cleaner]
                  /\ cleaner' = [cleaner EXCEPT !.todo = @ \ {r}, !.taken = @ \cup {r}]
             ELSE cleaner' = [cleaner EXCEPT !.todo = @ \ {r}] /\ UNCHANGED held
    /\ UNCHANGED <<tables, shared, bucket, tab, phone, faults>>

\* Mutant: what a row is referred to by is left to the statement's snapshot.
MayDropAny == TRUE

\* ON DELETE RESTRICT sees the references of now; one of them fails the statement
\* for all rows.
MayDrop == \A r \in cleaner.taken : ~ Referenced(r)

EndCleanup ==
    /\ cleaner.pc = "delete" /\ cleaner.todo = {}
    /\ \/ /\ MayDrop
          /\ row' = [r \in Rows |-> IF r \in cleaner.taken THEN [row[r] EXCEPT !.status = "gone"]
                                    ELSE row[r]]
       \/ ~ MayDrop /\ UNCHANGED row
    /\ cleaner' = [pc |-> "idle", todo |-> {}, taken |-> {}]
    /\ Release(Cleaner)
    /\ UNCHANGED <<audit, votes, decks, bucket, tab, phone, faults>>

\* A process dies or its statement fails, also when PostgreSQL picks it to break a
\* deadlock: a deck holds one row and the cleanup another.
Abort ==
    /\ \/ \E t \in Tabs : tab[t].pc \notin {"idle", "open"} /\ End(t) /\ Release(t)
                          /\ UNCHANGED <<phone, cleaner>>
       \/ \E p \in Phones : phone[p].pc # "idle" /\ phone' = [phone EXCEPT ![p] = IdlePhone]
                            /\ Release(p) /\ UNCHANGED <<tab, cleaner>>
       \/ cleaner.pc # "idle" /\ cleaner' = [pc |-> "idle", todo |-> {}, taken |-> {}]
          /\ Release(Cleaner) /\ UNCHANGED <<tab, phone>>
    /\ Fault
    /\ UNCHANGED <<tables, bucket>>

Administrating(t) ==
    \/ \E r \in Rows : Open(t, r)
    \/ TakeRow(t) \/ SaveEdit(t) \/ PutPhoto(t) \/ SavePhoto(t) \/ RemovePhoto(t) \/ DeleteOld(t)

CatalogueNext ==
    \/ \E r \in Rows : Import(r) \/ Expire(r)
    \/ \E t \in Tabs : Administrating(t)
    \/ \E p \in Phones : Ask(p) \/ Insert(p) \/ CommitReferences(p)
    \/ Cleanup \/ TakeDead \/ EndCleanup \/ Abort

CatalogueSpec == CatalogueInit /\ [][CatalogueNext]_vars
--------------------------------------------------------------------------------
(* Properties.                                                             *)

CatalogueTypeOK ==
    /\ \A r \in Rows : row[r].photo \in PhotoKeys \cup {NoKey} /\ row[r].version \in 0..MaxVersion
    /\ held \in [Rows -> Txs \cup {Nobody}] /\ shared \in [Rows -> SUBSET Phones]
    /\ votes \in [Users -> [Rows -> {"none", "skip", "like"}]]
    /\ objects \subseteq minted
    /\ \A r \in Rows : held[r] # Nobody => shared[r] = {}
    /\ \A r \in Rows : row[r].permanent => ~ row[r].expired
    /\ \A r \in Rows : row[r].photo # NoKey \/ row[r].hidden \/ row[r].version > 1 => row[r].permanent

AuditsInOrder ==
    \A r \in Rows :
        /\ row[r].status # "unborn" => Len(audit[r]) = row[r].version - 1
        /\ \A i \in 1..Len(audit[r]) : audit[r][i] = i

\* No save is lost to another tab: each saved version replaced exactly the one
\* before it (_restaurant: "This restaurant changed in another tab").
AuditIsAChain ==
    /\ CatalogueTypeOK
    /\ AuditsInOrder

\* The photo that a row shows is in the bucket, whatever fails on the way, except
\* after an upload whose commit took effect without being acknowledged. And without
\* a failure the bucket holds what rows show, what is being uploaded and what is about
\* to be deleted, and nothing else (upload_photo, remove_photo).
PhotosKept ==
    /\ \A r \in Rows : row[r].photo \in objects \cup {NoKey} \/ r \in unsure
    /\ faults = 0 =>
          objects \subseteq {row[r].photo : r \in Rows} \cup {tab[t].key : t \in Tabs}
                            \cup {tab[t].copy.photo : t \in {t \in Tabs : tab[t].pc = "clear"}}

\* A search for open restaurants finds those within the hours that an administrator
\* gave them, over midnight and over whole days too, but for the last hours of a window
\* that ends before it begins on one day (_period_covers: "handling windows that cross
\* midnight"); what nobody has saved, the import's rows of unknown hours, it never finds.
HoursRight ==
    \A r \in Rows, now \in Points :
        /\ r \in OpenNow(now)
              <=> /\ Discoverable(r)
                  /\ \/ row[r].hours = {Always}
                     \/ \E p \in row[r].hours : Means(p, now) /\ ~ Misread(p, now)
        /\ r \in OpenNow(now) => row[r].permanent

\* Votes and session decks refer to restaurants that are there ("Cache cleanup must
\* never shrink a persisted session deck").
ReferencesHold == \A r \in Rows : Referenced(r) => There(r)

\* What an administrator has saved is changed by another save only: neither the
\* import nor the cleanup touches it, also when they began before the save.
CuratedSurvives ==
    [][\A r \in Rows : row[r].permanent =>
          row'[r] = row[r] \/ (row'[r].status = "there" /\ row'[r].version = row[r].version + 1)]_vars
================================================================================
