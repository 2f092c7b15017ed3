---------------------------- MODULE CatalogueProofs ----------------------------
(***************************************************************************)
(* The restaurants table between its writers, for any number of rows,      *)
(* administrators, participants, photos and saves: no save is lost,        *)
(* references hold, what is curated stays, photos are kept and opening     *)
(* hours mean what they say.                                               *)
(***************************************************************************)
EXTENDS Catalogue, TLAPS

--------------------------------------------------------------------------------
(* Opening hours: what _period_covers computes with days and times is what a  *)
(* window means on the circle of the week.                                    *)

\* The points of the week in order: first by day, then by time.
LEMMA PointOrder ==
    ASSUME NEW a \in Points, NEW b \in Points
    PROVE  /\ At(a) \in Nat /\ At(a) < Week
           /\ At(a) <= At(b) <=> a.day < b.day \/ (a.day = b.day /\ a.time <= b.time)
<1> /\ a.day \in 0..6 /\ b.day \in 0..6 /\ Instants \in Nat \ {0}
    /\ a.time \in 0..(Instants - 1) /\ b.time \in 0..(Instants - 1)
    BY HoursAssumption DEF Points, Days, Times
<1> DEFINE D == {0, 1, 2, 3, 4, 5, 6}
<1>1. a.day \in D /\ b.day \in D
    OBVIOUS
<1>2. \A d \in D, t \in 0..(Instants - 1) : d * Instants + t \in Nat /\ d * Instants + t < 7 * Instants
    OBVIOUS
<1>3. \A d \in D, e \in D : d < e => d * Instants + Instants <= e * Instants
    OBVIOUS
<1>4. a.day * Instants \in Nat /\ b.day * Instants \in Nat
    OBVIOUS
<1> HIDE DEF D
<1>5. a.day < b.day => a.day * Instants + Instants <= b.day * Instants
    BY <1>1, <1>3
<1>6. b.day < a.day => b.day * Instants + Instants <= a.day * Instants
    BY <1>1, <1>3
<1>7. At(a) \in Nat /\ At(a) < Week
    BY <1>1, <1>2 DEF At, Week
<1>8. At(a) <= At(b) <=> a.day < b.day \/ (a.day = b.day /\ a.time <= b.time)
    <2>1. CASE a.day = b.day
        BY <2>1, <1>4 DEF At
    <2>2. CASE a.day < b.day
        BY <2>2, <1>4, <1>5 DEF At
    <2>3. CASE b.day < a.day
        <3>1. ~ a.day < b.day /\ a.day # b.day
            BY <2>3
        <3>2. ~ At(a) <= At(b)
            BY <2>3, <1>4, <1>6 DEF At
        <3> QED BY <3>1, <3>2
    <2> QED BY <2>1, <2>2, <2>3
<1> QED BY <1>7, <1>8

\* Being within a window, by the order of the three points.
LEMMA WithinWindow ==
    ASSUME NEW p \in Windows, NEW now \in Points
    PROVE  Means(p, now) <=> IF At(p.from) <= At(p.to)
                             THEN At(p.from) <= At(now) /\ ~ At(p.to) <= At(now)
                             ELSE At(p.from) <= At(now) \/ ~ At(p.to) <= At(now)
<1>1. p.from \in Points /\ p.to \in Points
    BY DEF Windows, Window
<1>2. \A x \in {p.from, p.to, now} : At(x) \in Nat /\ At(x) < Week
    BY <1>1, PointOrder
<1>3. Week \in Nat
    BY HoursAssumption DEF Week
<1> QED BY <1>2, <1>3 DEF Means, After

\* The days that _day_is_between walks over.
LEMMA DaysBetween ==
    ASSUME NEW day \in Days, NEW start \in Days, NEW end \in Days
    PROVE  DayIsBetween(day, start, end)
               <=> IF start < end THEN start < day /\ day < end
                   ELSE IF end < start THEN start < day \/ day < end
                        ELSE day # start
<1> DEFINE D == {0, 1, 2, 3, 4, 5, 6}
<1>1. Days = D
    BY DEF Days
<1> QED BY <1>1 DEF DayIsBetween

\* A restaurant counts as open exactly within a window, over midnight and over whole
\* days, but for the last hours of one that ends before it begins on its day: what
\* _period_covers answers, for every window and every instant.
THEOREM WindowsRight == \A p \in Windows, now \in Points : WindowRight(p, now)
<1> SUFFICES ASSUME NEW p \in Windows, NEW now \in Points
             PROVE  WindowRight(p, now)
    OBVIOUS
<1>1. p.from \in Points /\ p.to \in Points /\ p.from # p.to
    BY DEF Windows, Window
<1> QED BY <1>1, PointOrder, WithinWindow, DaysBetween
        DEF WindowRight, Covers, Misread, EndsBeforeItBegins, Points, Days, Times
--------------------------------------------------------------------------------
(* The invariant of the table.                                             *)

Keyed      == PhotoKeys \cup {NoKey}
RowRecords == [status : {"unborn", "there", "gone"}, permanent : BOOLEAN, expired : BOOLEAN,
               version : 0..MaxVersion, name : Names, hours : Hours \cup {{}}, hidden : BOOLEAN,
               photo : Keyed]

\* Where a tab holds its restaurant's row.
Holding    == {"edit", "upload", "save", "remove"}
TabPlaces  == Holding \cup {"idle", "open", "clear", "undo"}
TabRecords == [pc : TabPlaces, r : Rows, version : 0..MaxVersion, copy : RowRecords, key : Keyed]
Kinds      == {"like", "skip", "swipe", "deck"}
PhoneRecords   == [pc : {"idle", "insert", "commit"}, kind : Kinds, todo : SUBSET Rows,
                   taken : SUBSET Rows]
CleanerRecords == [pc : {"idle", "delete"}, todo : SUBSET Rows, taken : SUBSET Rows]
Directions     == {"none", "skip", "like"}

\* The shape of the state.
RowsShaped   == row \in [Rows -> RowRecords] /\ audit \in [Rows -> Seq(Nat)]
LocksShaped  == held \in [Rows -> Txs \cup {Nobody}] /\ shared \in [Rows -> SUBSET Phones]
VotesShaped  == votes \in [Users -> [Rows -> Directions]] /\ decks \subseteq Rows
BucketShaped == objects \subseteq minted /\ minted \subseteq PhotoKeys /\ unsure \subseteq Rows
TabsShaped   == tab \in [Tabs -> TabRecords]
PhonesShaped == phone \in [Phones -> PhoneRecords] /\ cleaner \in CleanerRecords

Shaped ==
    /\ RowsShaped /\ LocksShaped /\ VotesShaped /\ BucketShaped /\ TabsShaped /\ PhonesShaped
    /\ faults \in Nat

\* What administrators write is permanent, and what is permanent does not expire.
RowsSane ==
    \A r \in Rows :
        /\ row[r].status = "unborn" => ~ row[r].permanent /\ audit[r] = <<>>
        /\ row[r].permanent => ~ row[r].expired
        /\ row[r].photo # NoKey \/ row[r].hidden \/ row[r].version > 1 \/ row[r].hours # {}
              => row[r].permanent

\* A tab between the lock and the save has its row for itself, unchanged but for time.
Holds(t) == tab[t].pc \in Holding
TabsHold == \A t \in Tabs : Holds(t) => held[tab[t].r] = t
CopiesAgree ==
    \A t \in Tabs : Holds(t) =>
        /\ There(tab[t].r)
        /\ row[tab[t].r].version = tab[t].version /\ tab[t].version < MaxVersion
        /\ tab[t].copy.status = "there" /\ tab[t].copy.photo = row[tab[t].r].photo

\* The cleanup keeps what it has found dead, and inserts keep what they refer to.
Exclusive    == \A r \in Rows : held[r] # Nobody => shared[r] = {}
CleanerHolds == \A r \in cleaner.taken : held[r] = Cleaner /\ Dead(r)
SharedThere  == \A r \in Rows : shared[r] # {} => There(r)
PhonesRefer  ==
    \A p \in Phones : \A r \in phone[p].taken :
        \/ p \in shared[r]
        \/ Solo(p) /\ votes[User[p]][r] # "none"

\* Where photo keys are: a key is shown by one row, being uploaded by one tab, or
\* to be deleted by tabs that know that no row shows it.
Uploading(t, k) == tab[t].pc = "save" /\ tab[t].key = k
Undoing(t, k)   == tab[t].pc = "undo" /\ tab[t].key = k
Clearing(t, k)  == tab[t].pc = "clear" /\ tab[t].copy.photo = k
ShownMinted  == \A r \in Rows : row[r].photo \in minted \cup {NoKey}
ShownOnce    == \A q, r \in Rows : row[q].photo = row[r].photo /\ q # r => row[q].photo = NoKey
UploadsFresh ==
    \A t \in Tabs, k \in Keyed : Uploading(t, k) =>
        /\ k \in objects
        /\ \A r \in Rows : row[r].photo # k
        /\ \A u \in Tabs \ {t} : ~ Uploading(u, k) /\ ~ Undoing(u, k) /\ ~ Clearing(u, k)
ClearsUnshown ==
    \A t \in Tabs, k \in PhotoKeys : Clearing(t, k) => k \in minted /\ \A r \in Rows : row[r].photo # k
UndoesUnsure ==
    \A t \in Tabs, k \in Keyed : Undoing(t, k) =>
        k \in minted /\ \A r \in Rows : row[r].photo = k => r \in unsure
PhotosThere  == \A r \in Rows : row[r].photo \in objects \cup {NoKey} \/ r \in unsure
NothingExtra ==
    faults = 0 =>
        \A k \in objects : \/ \E r \in Rows : row[r].photo = k
                           \/ \E t \in Tabs : Uploading(t, k) \/ Clearing(t, k)

TableIInv  == RowsSane /\ AuditsInOrder
HoldIInv   == TabsHold /\ CopiesAgree
ReferIInv  == Exclusive /\ CleanerHolds /\ SharedThere /\ PhonesRefer /\ ReferencesHold
PhotosIInv == /\ ShownMinted /\ ShownOnce /\ UploadsFresh /\ ClearsUnshown /\ UndoesUnsure
              /\ PhotosThere /\ NothingExtra
CatalogueIInv == Shaped /\ TableIInv /\ HoldIInv /\ ReferIInv /\ PhotosIInv

\* The empty records are records.
LEMMA EmptyRecords ==
    /\ Unborn \in RowRecords /\ IdleTab \in TabRecords /\ IdlePhone \in PhoneRecords
    /\ Unborn.status = "unborn" /\ Unborn.permanent = FALSE /\ Unborn.expired = FALSE
    /\ Unborn.version = 0 /\ Unborn.hidden = FALSE /\ Unborn.photo = NoKey /\ Unborn.hours = {}
    /\ IdleTab.pc = "idle" /\ IdlePhone.taken = {}
<1>1. /\ (CHOOSE n \in Names : TRUE) \in Names /\ (CHOOSE r \in Rows : TRUE) \in Rows
      /\ 0 \in 0..MaxVersion
  BY CatalogueAssumption
<1>2. Unborn \in RowRecords  BY <1>1 DEF Unborn, RowRecords, Keyed
<1>3. IdleTab \in TabRecords  BY <1>1, <1>2 DEF IdleTab, TabRecords, TabPlaces, Keyed
<1> QED  BY <1>2, <1>3 DEF IdlePhone, PhoneRecords, Kinds, Unborn, IdleTab

\* The table is empty at first, and nobody works on it.
LEMMA CatalogueInitIInv == CatalogueInit => CatalogueIInv
<1> SUFFICES ASSUME CatalogueInit PROVE CatalogueIInv  OBVIOUS
<1> USE EmptyRecords, CatalogueAssumption DEF CatalogueInit
<1>1. Shaped
  BY DEF Shaped, RowsShaped, LocksShaped, VotesShaped, BucketShaped, TabsShaped, PhonesShaped,
         CleanerRecords, Directions
<1>2. TableIInv  BY DEF TableIInv, RowsSane, AuditsInOrder
<1>3. HoldIInv  BY DEF HoldIInv, TabsHold, CopiesAgree, Holds, Holding
<1>4. ReferIInv
  BY DEF ReferIInv, Exclusive, CleanerHolds, SharedThere, PhonesRefer, ReferencesHold, Referenced
<1>5. PhotosIInv
  BY DEF PhotosIInv, ShownMinted, ShownOnce, UploadsFresh, ClearsUnshown, UndoesUnsure,
         PhotosThere, NothingExtra, Uploading, Undoing, Clearing
<1> QED  BY <1>1, <1>2, <1>3, <1>4, <1>5 DEF CatalogueIInv
--------------------------------------------------------------------------------
(* The actions, one by one, as what they make of each record.                     *)

\* Giving up all locks.
LEMMA Released ==
    ASSUME LocksShaped, NEW tx \in Txs, Release(tx)
    PROVE  /\ LocksShaped'
           /\ \A r \in Rows : held'[r] = IF held[r] = tx THEN Nobody ELSE held[r]
           /\ \A r \in Rows : shared'[r] = shared[r] \ {tx}
  BY DEF LocksShaped, Release

\* A tab that is done, or goes on.
LEMMA TabEnds ==
    ASSUME TabsShaped, NEW t \in Tabs, End(t)
    PROVE  TabsShaped' /\ \A u \in Tabs : tab'[u] = IF u = t THEN IdleTab ELSE tab[u]
  BY EmptyRecords DEF TabsShaped, End

LEMMA TabSteps ==
    ASSUME TabsShaped, NEW t \in Tabs, NEW pc \in TabPlaces, Step(t, pc)
    PROVE  /\ TabsShaped'
           /\ \A u \in Tabs : u # t => tab'[u] = tab[u]
           /\ tab'[t].pc = pc /\ tab'[t].r = tab[t].r /\ tab'[t].version = tab[t].version
           /\ tab'[t].copy = tab[t].copy /\ tab'[t].key = tab[t].key
  BY DEF TabsShaped, Step, TabRecords

\* A save: what the row is afterwards.
LEMMA Saves ==
    ASSUME RowsShaped, TabsShaped, NEW t \in Tabs, NEW new \in RowRecords,
           tab[t].version < MaxVersion, Record(t, new)
    PROVE  /\ RowsShaped'
           /\ \A r \in Rows : r # tab[t].r => row'[r] = row[r] /\ audit'[r] = audit[r]
           /\ row'[tab[t].r] = Saved(t, new)
           /\ audit'[tab[t].r] = Append(audit[tab[t].r], tab[t].version)
           /\ Saved(t, new).status = new.status /\ Saved(t, new).photo = new.photo
           /\ Saved(t, new).version = tab[t].version + 1
           /\ Saved(t, new).permanent = TRUE /\ Saved(t, new).expired = FALSE
<1>1. tab[t].r \in Rows /\ tab[t].version \in 0..MaxVersion  BY DEF TabsShaped, TabRecords
<1>2. tab[t].version + 1 \in 0..MaxVersion  BY <1>1, CatalogueAssumption
<1>3. /\ Saved(t, new) \in RowRecords
      /\ Saved(t, new).status = new.status /\ Saved(t, new).photo = new.photo
      /\ Saved(t, new).version = tab[t].version + 1
      /\ Saved(t, new).permanent = TRUE /\ Saved(t, new).expired = FALSE
  BY <1>2 DEF Saved, RowRecords
<1>4. Append(audit[tab[t].r], tab[t].version) \in Seq(Nat)  BY <1>1 DEF RowsShaped
<1> QED  BY <1>1, <1>3, <1>4 DEF Record, RowsShaped

\* What each of the saves writes, or does not write.
LEMMA EditResult ==
    ASSUME RowsShaped, TabsShaped, NEW t \in Tabs, SaveEdit(t)
    PROVE  \/ \E new \in RowRecords :
                 /\ new.status = tab[t].copy.status /\ new.photo = tab[t].copy.photo
                 /\ Commit(t, new)
           \/ Rollback(t)
<1>1. tab[t].copy \in RowRecords  BY DEF TabsShaped, TabRecords
<1>2. PICK n \in Names, h \in Hours \cup {{}}, hide \in {TRUE, FALSE} :
         LET new == [tab[t].copy EXCEPT !.name = n, !.hours = h, !.hidden = hide]
         IN Commit(t, new) \/ Rollback(t)
  BY DEF SaveEdit
<1> DEFINE new == [tab[t].copy EXCEPT !.name = n, !.hours = h, !.hidden = hide]
<1>3. new \in RowRecords /\ new.status = tab[t].copy.status /\ new.photo = tab[t].copy.photo
  BY <1>1 DEF RowRecords
<1>4. Commit(t, new) \/ Rollback(t)  BY <1>2
<1> HIDE DEF new
<1> QED  BY <1>3, <1>4

Shows(t, key) == [tab[t].copy EXCEPT !.photo = key]

LEMMA PhotoRecord ==
    ASSUME TabsShaped, NEW t \in Tabs, NEW key \in Keyed
    PROVE  /\ Shows(t, key) \in RowRecords
           /\ Shows(t, key).status = tab[t].copy.status /\ Shows(t, key).photo = key
  BY DEF TabsShaped, TabRecords, Shows, RowRecords

LEMMA TabFields ==
    ASSUME TabsShaped, NEW t \in Tabs
    PROVE  /\ tab[t].r \in Rows /\ tab[t].version \in Nat /\ tab[t].copy \in RowRecords
           /\ tab[t].key \in Keyed /\ tab[t].copy.photo \in Keyed /\ tab[t].pc \in TabPlaces
  BY CatalogueAssumption DEF TabsShaped, TabRecords, RowRecords

\* A commit leaves everything in shape, and so does a rollback.
LEMMA CommitShaped ==
    ASSUME Shaped, HoldIInv, NEW t \in Tabs, Holds(t), NEW new \in RowRecords, Commit(t, new)
    PROVE  RowsShaped' /\ LocksShaped'
  BY Saves, Released DEF Shaped, HoldIInv, CopiesAgree, Commit, Txs

LEMMA RollbackShaped ==
    ASSUME Shaped, NEW t \in Tabs, Rollback(t)
    PROVE  RowsShaped' /\ LocksShaped'
  BY Released DEF Shaped, Rollback, RowsShaped, Txs

\* What a participant's request writes about itself.
LEMMA PhonesMove ==
    ASSUME Shaped, NEW p \in Phones, NEW x \in PhoneRecords, phone' = [phone EXCEPT ![p] = x],
           cleaner' = cleaner
    PROVE  PhonesShaped'
  BY DEF Shaped, PhonesShaped

LEMMA NextShaped == Shaped /\ HoldIInv /\ [CatalogueNext]_vars => Shaped'
<1> SUFFICES ASSUME Shaped, HoldIInv, [CatalogueNext]_vars PROVE Shaped'  OBVIOUS
<1> USE DEF Shaped
<1>a. /\ UNCHANGED row /\ UNCHANGED audit => RowsShaped'
      /\ UNCHANGED locks => LocksShaped'
      /\ UNCHANGED votes /\ UNCHANGED decks => VotesShaped'
      /\ UNCHANGED bucket => BucketShaped'
      /\ UNCHANGED phone /\ UNCHANGED cleaner => PhonesShaped'
      /\ UNCHANGED tab => TabsShaped'
  BY DEF RowsShaped, LocksShaped, VotesShaped, BucketShaped, TabsShaped, PhonesShaped, locks, bucket
<1>b. /\ UNCHANGED tables => UNCHANGED <<row, audit, votes, decks>>
      /\ UNCHANGED locks => UNCHANGED <<held, shared>>
  BY DEF tables, locks
<1>c. UNCHANGED faults \/ Fault => faults' \in Nat  BY DEF Fault
<1>1. ASSUME NEW r \in Rows, Import(r) PROVE Shaped'
  <2>1. PICK n \in Names :
           \/ row' = [row EXCEPT ![r] = [Unborn EXCEPT !.status = "there", !.version = 1, !.name = n]]
           \/ row' = [row EXCEPT ![r].name = n, ![r].expired = FALSE]
    BY <1>1 DEF Import
  <2>2. [Unborn EXCEPT !.status = "there", !.version = 1, !.name = n] \in RowRecords
    <3>1. 1 \in 0..MaxVersion  BY CatalogueAssumption
    <3> QED  BY <3>1, EmptyRecords DEF RowRecords
  <2>3. RowsShaped'
    <3>1. UNCHANGED audit  BY <1>1 DEF Import
    <3>2. row[r] \in RowRecords  BY DEF RowsShaped
    <3>3. CASE row' = [row EXCEPT ![r].name = n, ![r].expired = FALSE]
      <4>1. row' = [row EXCEPT ![r] = [row[r] EXCEPT !.name = n, !.expired = FALSE]]
        BY <3>3 DEF RowsShaped
      <4>2. [row[r] EXCEPT !.name = n, !.expired = FALSE] \in RowRecords
        BY <3>2 DEF RowRecords
      <4> QED  BY <3>1, <4>1, <4>2 DEF RowsShaped
    <3>4. CASE row' = [row EXCEPT ![r] = [Unborn EXCEPT !.status = "there", !.version = 1, !.name = n]]
      BY <2>2, <3>1, <3>4 DEF RowsShaped
    <3> QED  BY <2>1, <3>3, <3>4
  <2> QED  BY <1>1, <1>a, <1>c, <2>3 DEF Import
<1>2. ASSUME NEW r \in Rows, Expire(r) PROVE Shaped'
  <2>1. RowsShaped'  BY ZenonT(30), <1>2 DEF Expire, RowsShaped, RowRecords
  <2> QED  BY <1>2, <1>a, <2>1 DEF Expire
<1>3. ASSUME NEW t \in Tabs, NEW r \in Rows, Open(t, r) PROVE Shaped'
  <2> DEFINE n == [IdleTab EXCEPT !.pc = "open", !.r = r, !.version = row[r].version]
  <2>1. n \in TabRecords  BY EmptyRecords DEF RowsShaped, RowRecords, TabRecords, TabPlaces
  <2>2. TabsShaped'  BY <1>3, <2>1 DEF Open, TabsShaped
  <2> QED  BY <1>3, <1>a, <1>b, <2>2 DEF Open
<1>4. ASSUME NEW t \in Tabs, TakeRow(t) PROVE Shaped'
  <2>1. TabsShaped'
    <3>1. CASE End(t)  BY <3>1, TabEnds
    <3>2. ASSUME NEW request \in {"edit", "upload", "remove"},
                 tab' = [tab EXCEPT ![t].pc = request, ![t].copy = row[tab[t].r]]
          PROVE  TabsShaped'
      <4>1. row[tab[t].r] \in RowRecords  BY TabFields DEF RowsShaped
      <4> QED  BY ZenonT(30), <3>2, <4>1 DEF TabsShaped, TabRecords, TabPlaces, Holding
    <3> QED  BY <1>4, <3>1, <3>2 DEF TakeRow
  <2>2. LocksShaped'
    <3>1. held' = held \/ held' = [held EXCEPT ![tab[t].r] = t]  BY <1>4 DEF TakeRow
    <3> QED  BY <1>4, <3>1 DEF TakeRow, LocksShaped, Txs
  <2> QED  BY <1>4, <1>a, <1>b, <2>1, <2>2 DEF TakeRow
<1>5. ASSUME NEW t \in Tabs, SaveEdit(t) PROVE Shaped'
  <2>1. Holds(t)  BY <1>5 DEF SaveEdit, Holds, Holding
  <2>2. RowsShaped' /\ LocksShaped'  BY <1>5, <2>1, EditResult, CommitShaped, RollbackShaped
  <2>3. TabsShaped'  BY <1>5, TabEnds DEF SaveEdit
  <2>4. UNCHANGED faults \/ Fault  BY <1>5 DEF SaveEdit
  <2> QED  BY <1>5, <1>a, <1>c, <2>2, <2>3, <2>4 DEF SaveEdit
<1>6. ASSUME NEW t \in Tabs, PutPhoto(t) PROVE Shaped'
  <2>1. PICK key \in PhotoKeys \ minted :
           /\ minted' = minted \cup {key} /\ objects' \in {objects, objects \cup {key}}
           /\ \/ /\ tab' = [tab EXCEPT ![t].pc = "save", ![t].key = key]
                 /\ UNCHANGED <<row, audit, locks, faults>>
              \/ End(t) /\ Rollback(t) /\ Fault
    BY <1>6 DEF PutPhoto
  <2>2. TabsShaped'
    <3>1. CASE tab' = [tab EXCEPT ![t].pc = "save", ![t].key = key]
      BY ZenonT(30), <3>1 DEF TabsShaped, TabRecords, TabPlaces, Holding, Keyed
    <3> QED  BY <2>1, <3>1, TabEnds
  <2>3. RowsShaped' /\ LocksShaped'  BY <2>1, <1>a, RollbackShaped
  <2>4. BucketShaped'  BY <1>6, <2>1 DEF PutPhoto, BucketShaped
  <2> QED  BY <1>6, <1>a, <1>c, <2>1, <2>2, <2>3, <2>4 DEF PutPhoto
<1>7. ASSUME NEW t \in Tabs, SavePhoto(t) PROVE Shaped'
  <2>1. Holds(t)  BY <1>7 DEF SavePhoto, Holds, Holding
  <2>2. Commit(t, Shows(t, tab[t].key)) \/ Rollback(t)  BY <1>7 DEF SavePhoto, Shows
  <2>3. RowsShaped' /\ LocksShaped'
    BY <2>1, <2>2, TabFields, PhotoRecord, CommitShaped, RollbackShaped
  <2>4. TabsShaped'  BY <1>7, TabSteps DEF SavePhoto, TabPlaces
  <2>5. BucketShaped'  BY <1>7, TabFields DEF SavePhoto, BucketShaped
  <2>6. UNCHANGED faults \/ Fault  BY <1>7 DEF SavePhoto
  <2> QED  BY <1>7, <1>a, <1>c, <2>3, <2>4, <2>5, <2>6 DEF SavePhoto
<1>8. ASSUME NEW t \in Tabs, RemovePhoto(t) PROVE Shaped'
  <2>1. Holds(t)  BY <1>8 DEF RemovePhoto, Holds, Holding
  <2>2. Commit(t, Shows(t, NoKey)) \/ Rollback(t)  BY <1>8 DEF RemovePhoto, Shows
  <2>3. NoKey \in Keyed  BY DEF Keyed
  <2>4. RowsShaped' /\ LocksShaped'
    BY <2>1, <2>2, <2>3, PhotoRecord, CommitShaped, RollbackShaped
  <2>5. TabsShaped'  BY <1>8, TabSteps, TabEnds DEF RemovePhoto, TabPlaces
  <2>6. UNCHANGED faults \/ Fault  BY <1>8 DEF RemovePhoto
  <2> QED  BY <1>8, <1>a, <1>c, <2>4, <2>5, <2>6 DEF RemovePhoto
<1>9. ASSUME NEW t \in Tabs, DeleteOld(t) PROVE Shaped'
  <2>1. BucketShaped'  BY <1>9 DEF DeleteOld, BucketShaped
  <2>2. TabsShaped'  BY <1>9, TabEnds DEF DeleteOld
  <2>3. UNCHANGED faults \/ Fault  BY <1>9 DEF DeleteOld
  <2> QED  BY <1>9, <1>a, <1>b, <1>c, <2>1, <2>2, <2>3 DEF DeleteOld
<1>10. ASSUME NEW p \in Phones, Ask(p) PROVE Shaped'
  <2>1. PICK todo \in SUBSET Rows, kind \in Kinds :
           phone' = [phone EXCEPT ![p] = [pc |-> "insert", kind |-> kind, todo |-> todo, taken |-> {}]]
    BY <1>10 DEF Ask, Kinds
  <2>2. [pc |-> "insert", kind |-> kind, todo |-> todo, taken |-> {}] \in PhoneRecords
    BY DEF PhoneRecords
  <2>3. PhonesShaped'  BY <1>10, <2>1, <2>2, PhonesMove DEF Ask
  <2> QED  BY <1>10, <1>a, <1>b, <2>3 DEF Ask
<1>11. ASSUME NEW p \in Phones, Insert(p) PROVE Shaped'
  <2>1. phone[p] \in PhoneRecords  BY DEF PhonesShaped
  <2>2. PICK r \in phone[p].todo :
           \/ /\ shared' = [shared EXCEPT ![r] = @ \cup {p}] /\ UNCHANGED held
              /\ phone' = [phone EXCEPT ![p].todo = @ \ {r}, ![p].taken = @ \cup {r},
                                        ![p].pc = IF phone[p].todo = {r} THEN "commit" ELSE "insert"]
           \/ phone' = [phone EXCEPT ![p] = IdlePhone] /\ Release(p)
           \/ /\ phone' = [phone EXCEPT ![p].todo = {}, ![p].taken = {r}, ![p].pc = "commit"]
              /\ UNCHANGED locks
    BY <1>11 DEF Insert
  <2>3. r \in Rows  BY <2>1 DEF PhoneRecords
  <2>4. phone' \in [Phones -> PhoneRecords]
    BY <2>1, <2>2, <2>3, EmptyRecords DEF PhonesShaped, PhoneRecords
  <2>5. LocksShaped'
    <3>1. p \in Txs  BY DEF Txs
    <3> QED  BY <2>2, <2>3, <3>1, Released, <1>a DEF LocksShaped
  <2>6. PhonesShaped'  BY <1>11, <2>4 DEF Insert, PhonesShaped
  <2> QED  BY <1>11, <1>a, <1>b, <2>5, <2>6 DEF Insert
<1>12. ASSUME NEW p \in Phones, CommitReferences(p) PROVE Shaped'
  <2>1. phone[p] \in PhoneRecords /\ p \in Txs /\ User[p] \in Users
    BY CatalogueAssumption DEF PhonesShaped, Txs
  <2>2. VotesShaped'
    <3>1. CASE Solo(p)
      <4>1. \A w \in Directions : Direction(p, w) \in Directions  BY DEF Direction, Directions
      <4>2. /\ UNCHANGED decks
            /\ votes' = [votes EXCEPT ![User[p]] =
                            [r \in Rows |-> IF r \in phone[p].taken THEN Direction(p, votes[User[p]][r])
                                            ELSE votes[User[p]][r]]]
        BY <1>12, <3>1 DEF CommitReferences
      <4>3. [r \in Rows |-> IF r \in phone[p].taken THEN Direction(p, votes[User[p]][r])
                            ELSE votes[User[p]][r]] \in [Rows -> Directions]
        BY <2>1, <4>1 DEF VotesShaped
      <4> QED  BY <4>2, <4>3 DEF VotesShaped
    <3>2. CASE ~ Solo(p)
      BY <1>12, <3>2, <2>1 DEF CommitReferences, VotesShaped, PhoneRecords
    <3> QED  BY <3>1, <3>2
  <2>3. LocksShaped'  BY <1>12, <2>1, Released DEF CommitReferences
  <2>4. PhonesShaped'  BY <1>12, EmptyRecords, PhonesMove DEF CommitReferences
  <2> QED  BY <1>12, <1>a, <2>2, <2>3, <2>4 DEF CommitReferences
<1>13. CASE Cleanup
  <2>1. PhonesShaped'  BY <1>13 DEF Cleanup, PhonesShaped, CleanerRecords
  <2> QED  BY <1>13, <1>a, <1>b, <2>1 DEF Cleanup
<1>14. CASE TakeDead
  <2>1. PICK r \in cleaner.todo :
           \/ /\ held' = [held EXCEPT ![r] = Cleaner]
              /\ cleaner' = [cleaner EXCEPT !.todo = @ \ {r}, !.taken = @ \cup {r}]
           \/ cleaner' = [cleaner EXCEPT !.todo = @ \ {r}] /\ UNCHANGED held
    BY <1>14 DEF TakeDead
  <2>2. cleaner' \in CleanerRecords
    <3>1. /\ cleaner \in CleanerRecords /\ cleaner.todo \subseteq Rows /\ cleaner.taken \subseteq Rows
          /\ r \in Rows
      BY DEF PhonesShaped, CleanerRecords
    <3>2. CASE cleaner' = [cleaner EXCEPT !.todo = @ \ {r}, !.taken = @ \cup {r}]
      <4>1. cleaner.todo \ {r} \in SUBSET Rows /\ cleaner.taken \cup {r} \in SUBSET Rows  BY <3>1
      <4>2. cleaner' = [cleaner EXCEPT !.todo = cleaner.todo \ {r}, !.taken = cleaner.taken \cup {r}]
        BY <3>2
      <4> QED  BY <3>1, <4>1, <4>2 DEF CleanerRecords
    <3>3. CASE cleaner' = [cleaner EXCEPT !.todo = @ \ {r}]
      <4>1. cleaner.todo \ {r} \in SUBSET Rows  BY <3>1
      <4> QED  BY <3>1, <3>3, <4>1 DEF CleanerRecords
    <3> QED  BY <2>1, <3>2, <3>3
  <2>3. PhonesShaped'  BY <1>14, <2>2 DEF TakeDead, PhonesShaped
  <2>4. LocksShaped'  BY <1>14, <2>1 DEF TakeDead, LocksShaped, Txs
  <2> QED  BY <1>14, <1>a, <1>b, <2>3, <2>4 DEF TakeDead
<1>15. CASE EndCleanup
  <2>1. RowsShaped'
    <3>1. UNCHANGED audit  BY <1>15 DEF EndCleanup
    <3>2. \A r \in Rows : [row[r] EXCEPT !.status = "gone"] \in RowRecords
      BY DEF RowsShaped, RowRecords
    <3>3. row' \in [Rows -> RowRecords]  BY <1>15, <3>2 DEF EndCleanup, RowsShaped
    <3> QED  BY <3>1, <3>3 DEF RowsShaped
  <2>2. LocksShaped'  BY <1>15, Released DEF EndCleanup, Txs
  <2>3. PhonesShaped'  BY <1>15 DEF EndCleanup, PhonesShaped, CleanerRecords
  <2> QED  BY <1>15, <1>a, <2>1, <2>2, <2>3 DEF EndCleanup
<1>16. CASE Abort
  <2>1. LocksShaped'  BY <1>16, Released DEF Abort, Txs
  <2>2. TabsShaped' /\ PhonesShaped'
    <3>1. ASSUME NEW t \in Tabs, End(t), UNCHANGED <<phone, cleaner>> PROVE TabsShaped' /\ PhonesShaped'
      BY <3>1, <1>a, TabEnds
    <3>2. ASSUME NEW p \in Phones, phone' = [phone EXCEPT ![p] = IdlePhone], UNCHANGED <<tab, cleaner>>
          PROVE  TabsShaped' /\ PhonesShaped'
      BY <3>2, <1>a, EmptyRecords, PhonesMove
    <3>3. ASSUME cleaner' = [pc |-> "idle", todo |-> {}, taken |-> {}], UNCHANGED <<tab, phone>>
          PROVE  TabsShaped' /\ PhonesShaped'
      BY <3>3, <1>a DEF PhonesShaped, CleanerRecords
    <3> QED  BY <1>16, <3>1, <3>2, <3>3 DEF Abort
  <2> QED  BY <1>16, <1>a, <1>b, <1>c, <2>1, <2>2 DEF Abort
<1>17. CASE UNCHANGED vars  BY <1>17, <1>a, <1>b DEF vars, locks
<1> QED
  BY <1>1, <1>2, <1>3, <1>4, <1>5, <1>6, <1>7, <1>8, <1>9, <1>10, <1>11, <1>12, <1>13, <1>14,
     <1>15, <1>16, <1>17
  DEF CatalogueNext, Administrating

--------------------------------------------------------------------------------
(* What a step can do to a row.                                                   *)

\* Nothing; make it; change it while no administrator has saved it; delete it; save it.
Kept(r)    == row'[r] = row[r] /\ audit'[r] = audit[r]
Born(r)    == /\ row[r].status = "unborn" /\ row'[r].status = "there"
              /\ row'[r].version = 1 /\ row'[r].photo = NoKey /\ ~ row'[r].hidden
              /\ ~ row'[r].permanent /\ row'[r].hours = {} /\ audit'[r] = audit[r]
Renewed(r) == /\ row[r].status = "there" /\ row'[r].status = "there" /\ ~ row[r].permanent
              /\ held[r] = Nobody \/ row'[r].expired
              /\ row'[r].permanent = row[r].permanent /\ row'[r].version = row[r].version
              /\ row'[r].photo = row[r].photo /\ row'[r].hidden = row[r].hidden
              /\ row'[r].hours = row[r].hours /\ audit'[r] = audit[r]
Dropped(r) == /\ r \in cleaner.taken /\ ~ Referenced(r) /\ cleaner'.taken = {}
              /\ row'[r] = [row[r] EXCEPT !.status = "gone"] /\ audit'[r] = audit[r]
              /\ UNCHANGED <<votes, decks>>
SavedBy(t, r) ==
    /\ Holds(t) /\ tab[t].r = r /\ tab'[t].pc \notin Holding
    /\ row'[r].status = "there" /\ row'[r].version = row[r].version + 1
    /\ row'[r].permanent /\ ~ row'[r].expired
    /\ audit'[r] = Append(audit[r], row[r].version)

RowMoves(r) ==
    \/ Kept(r) \/ Born(r) \/ Renewed(r) \/ Dropped(r)
    \/ \E t \in Tabs : SavedBy(t, r)

\* A commit saves the tab's row and leaves the others alone.
LEMMA CommitMoves ==
    ASSUME Shaped, HoldIInv, NEW t \in Tabs, Holds(t), NEW new \in RowRecords,
           new.status = "there", Commit(t, new), tab'[t].pc \notin Holding
    PROVE  /\ \A r \in Rows : RowMoves(r)
           /\ \A r \in Rows : r # tab[t].r => row'[r] = row[r]
           /\ row'[tab[t].r].photo = new.photo
<1>1. RowsShaped /\ TabsShaped /\ tab[t].version < MaxVersion /\ Record(t, new)
  BY DEF Shaped, HoldIInv, CopiesAgree, Commit
<1>2. /\ \A r \in Rows : r # tab[t].r => row'[r] = row[r] /\ audit'[r] = audit[r]
      /\ row'[tab[t].r].status = "there" /\ row'[tab[t].r].photo = new.photo
      /\ row'[tab[t].r].version = tab[t].version + 1
      /\ row'[tab[t].r].permanent /\ ~ row'[tab[t].r].expired
      /\ audit'[tab[t].r] = Append(audit[tab[t].r], tab[t].version)
  <2>1. /\ \A r \in Rows : r # tab[t].r => row'[r] = row[r] /\ audit'[r] = audit[r]
        /\ row'[tab[t].r] = Saved(t, new)
        /\ audit'[tab[t].r] = Append(audit[tab[t].r], tab[t].version)
        /\ Saved(t, new).status = new.status /\ Saved(t, new).photo = new.photo
        /\ Saved(t, new).version = tab[t].version + 1
        /\ Saved(t, new).permanent = TRUE /\ Saved(t, new).expired = FALSE
    BY <1>1, Saves
  <2> QED  BY <2>1
<1>3. row[tab[t].r].version = tab[t].version  BY DEF HoldIInv, CopiesAgree
<1>4. SavedBy(t, tab[t].r)  BY <1>2, <1>3 DEF SavedBy
<1>5. \A r \in Rows : r # tab[t].r => Kept(r)  BY <1>2 DEF Kept
<1> QED  BY <1>2, <1>4, <1>5 DEF RowMoves

\* Where a tab goes when it is through.
LEMMA TabLeaves ==
    ASSUME TabsShaped, NEW t \in Tabs,
           End(t) \/ Step(t, "clear") \/ Step(t, "undo")
    PROVE  /\ tab'[t].pc \notin Holding
           /\ \A u \in Tabs : u # t => tab'[u] = tab[u]
<1>1. CASE End(t)  BY <1>1, TabEnds, EmptyRecords DEF Holding
<1>2. ASSUME NEW pc \in {"clear", "undo"}, Step(t, pc)
      PROVE  tab'[t].pc \notin Holding /\ \A u \in Tabs : u # t => tab'[u] = tab[u]
  <2>1. pc \in TabPlaces  BY DEF TabPlaces
  <2> QED  BY <1>2, <2>1, TabSteps DEF Holding
<1> QED  BY <1>1, <1>2

LEMMA EveryRowMoves ==
    Shaped /\ HoldIInv /\ ReferIInv /\ [CatalogueNext]_vars => \A r \in Rows : RowMoves(r)
<1> SUFFICES ASSUME Shaped, HoldIInv, ReferIInv, [CatalogueNext]_vars
             PROVE  \A r \in Rows : RowMoves(r)
  OBVIOUS
<1> USE DEF Shaped
<1>a. UNCHANGED <<row, audit>> => \A r \in Rows : RowMoves(r)  BY DEF RowMoves, Kept
<1>b. UNCHANGED tables => UNCHANGED <<row, audit>>  BY DEF tables
<1>1. ASSUME NEW r \in Rows, Import(r) PROVE \A q \in Rows : RowMoves(q)
  <2>1. UNCHANGED audit /\ held[r] = Nobody  BY <1>1 DEF Import
  <2>2. PICK n \in Names :
           \/ /\ row[r].status = "unborn"
              /\ row' = [row EXCEPT ![r] = [Unborn EXCEPT !.status = "there", !.version = 1, !.name = n]]
           \/ /\ There(r) /\ ~ row[r].permanent
              /\ row' = [row EXCEPT ![r].name = n, ![r].expired = FALSE]
    BY <1>1 DEF Import
  <2>3. \A q \in Rows : q # r => row'[q] = row[q]  BY <2>2 DEF RowsShaped
  <2>4. RowMoves(r)
    <3>1. CASE /\ row[r].status = "unborn"
               /\ row' = [row EXCEPT ![r] = [Unborn EXCEPT !.status = "there", !.version = 1, !.name = n]]
      <4> DEFINE x == [Unborn EXCEPT !.status = "there", !.version = 1, !.name = n]
      <4>1. /\ x.status = "there" /\ x.version = 1 /\ x.photo = NoKey /\ ~ x.hidden
            /\ ~ x.permanent /\ x.hours = {}
        BY EmptyRecords DEF RowRecords
      <4>2. row'[r] = x  BY <3>1 DEF RowsShaped
      <4> HIDE DEF x
      <4> QED  BY <2>1, <3>1, <4>1, <4>2 DEF RowMoves, Born
    <3>2. CASE /\ There(r) /\ ~ row[r].permanent
               /\ row' = [row EXCEPT ![r].name = n, ![r].expired = FALSE]
      <4>1. row'[r] = [row[r] EXCEPT !.name = n, !.expired = FALSE]  BY <3>2 DEF RowsShaped
      <4> QED  BY <2>1, <3>2, <4>1 DEF RowsShaped, RowRecords, RowMoves, Renewed, There
    <3> QED  BY <2>2, <3>1, <3>2
  <2> QED  BY <2>1, <2>3, <2>4 DEF RowMoves, Kept
<1>2. ASSUME NEW r \in Rows, Expire(r) PROVE \A q \in Rows : RowMoves(q)
  <2>1. UNCHANGED audit /\ There(r) /\ ~ row[r].permanent /\ row' = [row EXCEPT ![r].expired = TRUE]
    BY <1>2 DEF Expire
  <2>2. \A q \in Rows : q # r => row'[q] = row[q]  BY <2>1 DEF RowsShaped
  <2>3. row'[r] = [row[r] EXCEPT !.expired = TRUE]  BY <2>1 DEF RowsShaped
  <2>4. RowMoves(r)  BY <2>1, <2>3 DEF RowsShaped, RowRecords, RowMoves, Renewed, There
  <2> QED  BY <2>1, <2>2, <2>4 DEF RowMoves, Kept
<1>3. ASSUME NEW t \in Tabs, SaveEdit(t) PROVE \A r \in Rows : RowMoves(r)
  <2>1. Holds(t) /\ tab[t].copy.status = "there" /\ tab'[t].pc \notin Holding
    BY <1>3, TabLeaves DEF SaveEdit, Holds, Holding, HoldIInv, CopiesAgree
  <2> QED  BY <1>3, <1>a, <2>1, EditResult, CommitMoves DEF Rollback
<1>4. ASSUME NEW t \in Tabs, SavePhoto(t) PROVE \A r \in Rows : RowMoves(r)
  <2>1. Holds(t) /\ tab[t].copy.status = "there" /\ tab'[t].pc \notin Holding
    BY <1>4, TabLeaves DEF SavePhoto, Holds, Holding, HoldIInv, CopiesAgree
  <2>2. Commit(t, Shows(t, tab[t].key)) \/ Rollback(t)  BY <1>4 DEF SavePhoto, Shows
  <2> QED  BY <1>a, <2>1, <2>2, TabFields, PhotoRecord, CommitMoves DEF Rollback
<1>5. ASSUME NEW t \in Tabs, RemovePhoto(t) PROVE \A r \in Rows : RowMoves(r)
  <2>1. Holds(t) /\ tab[t].copy.status = "there" /\ tab'[t].pc \notin Holding
    BY <1>5, TabLeaves DEF RemovePhoto, Holds, Holding, HoldIInv, CopiesAgree
  <2>2. Commit(t, Shows(t, NoKey)) \/ Rollback(t)  BY <1>5 DEF RemovePhoto, Shows
  <2>3. NoKey \in Keyed  BY DEF Keyed
  <2> QED  BY <1>a, <2>1, <2>2, <2>3, PhotoRecord, CommitMoves DEF Rollback
<1>6. CASE EndCleanup
  <2>1. UNCHANGED <<audit, votes, decks>> /\ cleaner'.taken = {}  BY <1>6 DEF EndCleanup
  <2>2. CASE UNCHANGED row  BY <1>a, <2>1, <2>2
  <2>3. CASE /\ MayDrop
             /\ row' = [r \in Rows |-> IF r \in cleaner.taken THEN [row[r] EXCEPT !.status = "gone"]
                                       ELSE row[r]]
    BY <2>1, <2>3 DEF RowMoves, Dropped, Kept, MayDrop
  <2> QED  BY <1>6, <2>2, <2>3 DEF EndCleanup
<1>7. ASSUME NEW t \in Tabs, PutPhoto(t) PROVE UNCHANGED <<row, audit>>
  BY <1>7 DEF PutPhoto, Rollback
<1>8. ASSUME NEW t \in Tabs,
             (\E r \in Rows : Open(t, r)) \/ TakeRow(t) \/ DeleteOld(t)
      PROVE  UNCHANGED <<row, audit>>
  BY <1>8, <1>b DEF Open, TakeRow, DeleteOld
<1>9. ASSUME NEW p \in Phones, Ask(p) \/ Insert(p) \/ CommitReferences(p)
      PROVE  UNCHANGED <<row, audit>>
  BY <1>9, <1>b DEF Ask, Insert, CommitReferences
<1>10. Cleanup \/ TakeDead \/ Abort \/ UNCHANGED vars => UNCHANGED <<row, audit>>
  BY <1>b DEF Cleanup, TakeDead, Abort, vars
<1> QED
  BY <1>a, <1>1, <1>2, <1>3, <1>4, <1>5, <1>6, <1>7, <1>8, <1>9, <1>10
  DEF CatalogueNext, Administrating

\* So rows stay sane and their histories in order.
LEMMA NextTable == Shaped /\ TableIInv /\ HoldIInv /\ ReferIInv /\ [CatalogueNext]_vars => TableIInv'
<1> SUFFICES ASSUME Shaped, TableIInv, HoldIInv, ReferIInv, [CatalogueNext]_vars
             PROVE  TableIInv'
  OBVIOUS
<1> DEFINE Sane(r)    == /\ row[r].status = "unborn" => ~ row[r].permanent /\ audit[r] = <<>>
                         /\ row[r].permanent => ~ row[r].expired
                         /\ row[r].photo # NoKey \/ row[r].hidden \/ row[r].version > 1 \/ row[r].hours # {}
                               => row[r].permanent
           Ordered(r) == /\ row[r].status # "unborn" => Len(audit[r]) = row[r].version - 1
                         /\ \A i \in 1..Len(audit[r]) : audit[r][i] = i
<1>1. \A r \in Rows : /\ row[r] \in RowRecords /\ row[r].version \in Nat
                      /\ row[r].status \in {"unborn", "there", "gone"} /\ row[r].permanent \in BOOLEAN
                      /\ audit[r] \in Seq(Nat) /\ Len(audit[r]) \in Nat
  BY CatalogueAssumption DEF Shaped, RowsShaped, RowRecords
<1>2. ASSUME NEW r \in Rows PROVE Sane(r)' /\ Ordered(r)'
  <2>1. Sane(r) /\ Ordered(r)  BY DEF TableIInv, RowsSane, AuditsInOrder
  <2>2. RowMoves(r)  BY EveryRowMoves
  <2>3. CASE Kept(r)  BY <2>1, <2>3 DEF Kept
  <2>4. CASE Born(r)  BY <1>1, <2>1, <2>4 DEF Born
  <2>5. CASE Renewed(r)  BY <1>1, <2>1, <2>5 DEF Renewed
  <2>6. CASE Dropped(r)
    <3>1. Dead(r)  BY <2>6 DEF ReferIInv, CleanerHolds, Dropped
    <3>2. /\ row'[r].status = "gone" /\ row'[r].permanent = row[r].permanent
          /\ row'[r].expired = row[r].expired /\ row'[r].version = row[r].version
          /\ row'[r].photo = row[r].photo /\ row'[r].hidden = row[r].hidden
          /\ row'[r].hours = row[r].hours /\ audit'[r] = audit[r]
      BY <1>1, <2>6 DEF Dropped, RowRecords
    <3> QED  BY <2>1, <3>1, <3>2 DEF Dead, There
  <2>7. ASSUME NEW t \in Tabs, SavedBy(t, r) PROVE Sane(r)' /\ Ordered(r)'
    <3>1. There(r)  BY <2>7 DEF SavedBy, HoldIInv, CopiesAgree
    <3>2. Len(audit[r]) = row[r].version - 1  BY <2>1, <3>1 DEF There
    <3>3. Len(audit'[r]) = row[r].version  BY <1>1, <2>7, <3>2 DEF SavedBy
    <3>4. ASSUME NEW i \in 1..Len(audit'[r]) PROVE audit'[r][i] = i
      <4>1. CASE i <= Len(audit[r])
        BY <1>1, <2>1, <2>7, <4>1 DEF SavedBy
      <4>2. CASE i = Len(audit[r]) + 1
        <5>1. audit'[r][i] = row[r].version  BY <1>1, <2>7, <4>2 DEF SavedBy
        <5> QED  BY <1>1, <3>2, <4>2, <5>1
      <4> QED  BY <1>1, <3>2, <3>3, <4>1, <4>2
    <3>5. Ordered(r)'  BY <1>1, <2>7, <3>3, <3>4 DEF SavedBy
    <3>6. Sane(r)'  BY <2>7 DEF SavedBy
    <3> QED  BY <3>5, <3>6
  <2> QED  BY <2>2, <2>3, <2>4, <2>5, <2>6, <2>7 DEF RowMoves
<1> QED  BY <1>2 DEF TableIInv, RowsSane, AuditsInOrder

--------------------------------------------------------------------------------
(* What a step can do to locks and tabs.                                          *)

\* A tab that holds a row after a step held it before, or has taken it just now.
Stays(t) == /\ Holds(t) /\ tab'[t].r = tab[t].r /\ tab'[t].version = tab[t].version
            /\ tab'[t].copy = tab[t].copy
            /\ held[tab[t].r] = t => held'[tab[t].r] = t
Takes(t) == /\ UNCHANGED row /\ tab'[t].r = tab[t].r /\ tab'[t].version = tab[t].version
            /\ tab'[t].copy = row[tab[t].r] /\ held'[tab[t].r] = t
            /\ There(tab[t].r) /\ row[tab[t].r].version = tab[t].version
            /\ tab[t].version < MaxVersion

\* A row's lock stays or goes, or somebody takes a free row; whoever begins to share a
\* row shares one that is there and free.
LockMoves(r) ==
    /\ \/ held'[r] = held[r] \/ held'[r] = Nobody
       \/ held[r] = Nobody /\ shared[r] = {} /\ shared'[r] = {}
    /\ \/ shared'[r] \subseteq shared[r]
       \/ held'[r] = Nobody /\ held[r] = Nobody /\ There(r) /\ row'[r] = row[r]

\* Giving up the locks of one transaction fits that, and takes no other's away.
LEMMA ReleaseMoves ==
    ASSUME LocksShaped, NEW tx \in Txs, Release(tx)
    PROVE  /\ \A r \in Rows : LockMoves(r)
           /\ \A r \in Rows : held[r] # tx => held'[r] = held[r]
           /\ \A r \in Rows, x \in Txs : x # tx /\ x \in shared[r] => x \in shared'[r]
  BY Released DEF LockMoves

LEMMA FreeLocks == UNCHANGED locks => \A r \in Rows : LockMoves(r)
  BY DEF locks, LockMoves

LEMMA TabsMove ==
    Shaped /\ [CatalogueNext]_vars =>
        \A t \in Tabs : tab'[t].pc \in Holding => Stays(t) \/ Takes(t)
<1> SUFFICES ASSUME Shaped, [CatalogueNext]_vars, NEW u \in Tabs, tab'[u].pc \in Holding
             PROVE  Stays(u) \/ Takes(u)
  OBVIOUS
<1> USE DEF Shaped
<1>a. tab[u].r \in Rows  BY TabFields
<1>b. tab'[u] = tab[u] /\ (held[tab[u].r] = u => held'[tab[u].r] = u) => Stays(u)
  BY DEF Stays, Holds
<1>c. UNCHANGED <<tab, locks>> => Stays(u)  BY <1>b DEF locks
<1>d. ASSUME NEW tx \in Txs, tx # u, Release(tx), tab'[u] = tab[u] PROVE Stays(u)
  BY <1>a, <1>b, <1>d, ReleaseMoves
<1>1. ASSUME NEW t \in Tabs, NEW r \in Rows, Open(t, r) PROVE Stays(u)
  <2>1. tab'[t].pc = "open"  BY <1>1, EmptyRecords DEF Open, TabsShaped, TabRecords
  <2>2. t # u /\ tab'[u] = tab[u]  BY <1>1, <2>1 DEF Open, Holding, TabsShaped
  <2> QED  BY <1>1, <1>b, <2>2 DEF Open, locks
<1>2. ASSUME NEW t \in Tabs, TakeRow(t) PROVE Stays(u) \/ Takes(u)
  <2>1. CASE End(t) /\ UNCHANGED held
    BY <1>b, <2>1, TabLeaves
  <2>2. ASSUME NEW request \in {"edit", "upload", "remove"},
               tab' = [tab EXCEPT ![t].pc = request, ![t].copy = row[tab[t].r]],
               held' = [held EXCEPT ![tab[t].r] = t],
               There(tab[t].r), row[tab[t].r].version = tab[t].version,
               row[tab[t].r].version < MaxVersion
        PROVE  Stays(u) \/ Takes(u)
    <3>1. CASE u = t
      <4>1. /\ tab'[t].r = tab[t].r /\ tab'[t].version = tab[t].version
            /\ tab'[t].copy = row[tab[t].r]
        BY <2>2 DEF TabsShaped, TabRecords
      <4>2. held'[tab[t].r] = t  BY <1>a, <2>2, <3>1 DEF LocksShaped
      <4> QED  BY <1>2, <2>2, <3>1, <4>1, <4>2 DEF Takes, TakeRow, tables
    <3>2. CASE u # t
      <4>1. tab'[u] = tab[u]  BY <2>2, <3>2 DEF TabsShaped
      <4>2. held[tab[t].r] = Nobody /\ u # Nobody
        BY <1>2, CatalogueAssumption DEF TakeRow, MayTakeRow, Txs
      <4>3. held[tab[u].r] = u => held'[tab[u].r] = u  BY <1>a, <2>2, <4>2 DEF LocksShaped
      <4> QED  BY <1>b, <4>1, <4>3
    <3> QED  BY <3>1, <3>2
  <2> QED  BY <1>2, <2>1, <2>2 DEF TakeRow
<1>3. ASSUME NEW t \in Tabs, SaveEdit(t) \/ SavePhoto(t) \/ RemovePhoto(t) PROVE Stays(u)
  <2>1. Release(t)
    BY <1>3 DEF SaveEdit, SavePhoto, RemovePhoto, Commit, Rollback
  <2>2. tab'[t].pc \notin Holding /\ \A x \in Tabs : x # t => tab'[x] = tab[x]
    BY <1>3, TabLeaves DEF SaveEdit, SavePhoto, RemovePhoto
  <2> QED  BY <1>d, <2>1, <2>2 DEF Txs
<1>4. ASSUME NEW t \in Tabs, PutPhoto(t) PROVE Stays(u)
  <2>1. CASE End(t) /\ Rollback(t)
    <3>1. tab'[t].pc \notin Holding /\ \A x \in Tabs : x # t => tab'[x] = tab[x]
      BY <2>1, TabLeaves
    <3> QED  BY <1>d, <2>1, <3>1 DEF Rollback, Txs
  <2>2. ASSUME NEW key \in PhotoKeys, tab' = [tab EXCEPT ![t].pc = "save", ![t].key = key],
               UNCHANGED locks
        PROVE  Stays(u)
    <3>1. CASE u = t
      <4>1. /\ tab'[t].r = tab[t].r /\ tab'[t].version = tab[t].version
            /\ tab'[t].copy = tab[t].copy
        BY <2>2 DEF TabsShaped, TabRecords
      <4> QED  BY <1>4, <2>2, <3>1, <4>1 DEF Stays, Holds, Holding, PutPhoto, locks
    <3>2. CASE u # t  BY <1>b, <2>2, <3>2 DEF TabsShaped, locks
    <3> QED  BY <3>1, <3>2
  <2> QED  BY <1>4, <2>1, <2>2 DEF PutPhoto
<1>5. ASSUME NEW t \in Tabs, DeleteOld(t) PROVE Stays(u)
  BY <1>5, <1>b, TabLeaves DEF DeleteOld, locks
<1>6. ASSUME NEW p \in Phones, Ask(p) \/ Insert(p) \/ CommitReferences(p) PROVE Stays(u)
  <2>1. p \in Txs /\ p # u  BY CatalogueAssumption DEF Txs
  <2>2. UNCHANGED tab /\ (UNCHANGED held \/ Release(p))
    BY <1>6 DEF Ask, Insert, CommitReferences, locks
  <2> QED  BY <1>b, <1>d, <2>1, <2>2
<1>7. CASE TakeDead
  <2>1. UNCHANGED tab  BY <1>7 DEF TakeDead
  <2>2. PICK r \in cleaner.todo :
           held[r] = Nobody /\ (held' = [held EXCEPT ![r] = Cleaner] \/ UNCHANGED held)
    BY <1>7 DEF TakeDead
  <2>3. u # Nobody  BY CatalogueAssumption DEF Txs
  <2>4. held[tab[u].r] = u => held'[tab[u].r] = u  BY <1>a, <2>2, <2>3 DEF LocksShaped
  <2> QED  BY <1>b, <2>1, <2>4
<1>8. CASE EndCleanup
  <2>1. Cleaner \in Txs /\ Cleaner # u  BY CatalogueAssumption DEF Txs
  <2> QED  BY <1>8, <1>d, <2>1 DEF EndCleanup
<1>9. CASE Abort
  <2>1. ASSUME NEW t \in Tabs, End(t), Release(t) PROVE Stays(u)
    <3>1. tab'[t].pc \notin Holding /\ \A x \in Tabs : x # t => tab'[x] = tab[x]
      BY <2>1, TabLeaves
    <3> QED  BY <1>d, <2>1, <3>1 DEF Txs
  <2>2. ASSUME NEW tx \in Phones \cup {Cleaner}, UNCHANGED tab, Release(tx) PROVE Stays(u)
    <3>1. tx \in Txs /\ tx # u  BY CatalogueAssumption DEF Txs
    <3> QED  BY <1>d, <2>2, <3>1
  <2> QED  BY <1>9, <2>1, <2>2 DEF Abort
<1>10. ASSUME NEW r \in Rows, Import(r) \/ Expire(r) PROVE Stays(u)
  BY <1>10, <1>c DEF Import, Expire
<1>11. CASE Cleanup \/ UNCHANGED vars  BY <1>11, <1>c DEF Cleanup, vars
<1> QED
  BY <1>1, <1>2, <1>3, <1>4, <1>5, <1>6, <1>7, <1>8, <1>9, <1>10, <1>11
  DEF CatalogueNext, Administrating

\* So a tab that holds a row keeps it unchanged.
LEMMA NextHold == Shaped /\ HoldIInv /\ ReferIInv /\ [CatalogueNext]_vars => HoldIInv'
<1> SUFFICES ASSUME Shaped, HoldIInv, ReferIInv, [CatalogueNext]_vars,
                    NEW t \in Tabs, tab'[t].pc \in Holding
             PROVE  /\ held'[tab'[t].r] = t /\ row'[tab'[t].r].status = "there"
                    /\ row'[tab'[t].r].version = tab'[t].version /\ tab'[t].version < MaxVersion
                    /\ tab'[t].copy.status = "there"
                    /\ tab'[t].copy.photo = row'[tab'[t].r].photo
  BY DEF HoldIInv, TabsHold, CopiesAgree, Holds, There
<1> DEFINE r == tab[t].r
<1>1. r \in Rows /\ t # Nobody /\ t # Cleaner
  BY TabFields, CatalogueAssumption DEF Shaped, Txs
<1>2. CASE Stays(t)
  <2>1. /\ held[r] = t /\ There(r) /\ row[r].version = tab[t].version /\ tab[t].version < MaxVersion
        /\ tab[t].copy.status = "there" /\ tab[t].copy.photo = row[r].photo
    BY <1>2 DEF Stays, HoldIInv, TabsHold, CopiesAgree
  <2>2. row'[r].status = "there" /\ row'[r].version = row[r].version /\ row'[r].photo = row[r].photo
    <3>1. RowMoves(r)  BY <1>1, EveryRowMoves
    <3>2. ~ Born(r)  BY <2>1 DEF Born, There
    <3>3. ~ Dropped(r)  BY <1>1, <2>1 DEF Dropped, ReferIInv, CleanerHolds
    <3>4. ASSUME NEW u \in Tabs, SavedBy(u, r) PROVE FALSE
      <4>1. held[r] = u  BY <3>4 DEF SavedBy, HoldIInv, TabsHold
      <4> QED  BY <2>1, <3>4, <4>1 DEF SavedBy
    <3>5. Kept(r) \/ Renewed(r)  BY <3>1, <3>2, <3>3, <3>4 DEF RowMoves
    <3> QED  BY <2>1, <3>5 DEF Kept, Renewed, There
  <2> QED  BY <1>2, <2>1, <2>2 DEF Stays, There
<1>3. CASE Takes(t)  BY <1>3 DEF Takes, There
<1> QED  BY <1>2, <1>3, TabsMove

LEMMA EveryLockMoves == Shaped /\ [CatalogueNext]_vars => \A r \in Rows : LockMoves(r)
<1> SUFFICES ASSUME Shaped, [CatalogueNext]_vars PROVE \A r \in Rows : LockMoves(r)  OBVIOUS
<1> USE DEF Shaped
<1>1. ASSUME NEW t \in Tabs, TakeRow(t) PROVE \A r \in Rows : LockMoves(r)
  <2>1. UNCHANGED shared /\ MayTakeRow(t) /\ (held' = [held EXCEPT ![tab[t].r] = t] \/ UNCHANGED held)
    BY <1>1 DEF TakeRow
  <2>2. \A r \in Rows : held'[r] = held[r] \/ (held[r] = Nobody /\ shared[r] = {})
    BY <2>1 DEF LocksShaped, MayTakeRow
  <2> QED  BY <2>1, <2>2 DEF LockMoves
<1>2. ASSUME NEW t \in Tabs, Administrating(t), ~ TakeRow(t) PROVE \A r \in Rows : LockMoves(r)
  <2>1. UNCHANGED locks \/ Release(t)
    BY <1>2
    DEF Administrating, Open, SaveEdit, PutPhoto, SavePhoto, RemovePhoto, DeleteOld, Commit, Rollback
  <2>2. t \in Txs  BY DEF Txs
  <2> QED  BY <2>1, <2>2, FreeLocks, ReleaseMoves
<1>3. ASSUME NEW p \in Phones, Insert(p) PROVE \A r \in Rows : LockMoves(r)
  <2>1. CASE UNCHANGED locks \/ Release(p)
    <3>1. p \in Txs  BY DEF Txs
    <3> QED  BY <2>1, <3>1, FreeLocks, ReleaseMoves
  <2>2. ASSUME NEW r \in phone[p].todo, MayRefer(p, r), There(r),
               shared' = [shared EXCEPT ![r] = @ \cup {p}], UNCHANGED held
        PROVE  \A q \in Rows : LockMoves(q)
    <3>1. UNCHANGED row  BY <1>3 DEF Insert, tables
    <3>2. \A q \in Rows : q # r => shared'[q] = shared[q]  BY <2>2 DEF LocksShaped
    <3>3. held[r] = Nobody /\ held'[r] = Nobody  BY <2>2 DEF MayRefer
    <3> QED  BY <2>2, <3>1, <3>2, <3>3 DEF LockMoves
  <2> QED  BY <1>3, <2>1, <2>2 DEF Insert
<1>4. ASSUME NEW p \in Phones, Ask(p) \/ CommitReferences(p) PROVE \A r \in Rows : LockMoves(r)
  <2>1. UNCHANGED locks \/ Release(p)  BY <1>4 DEF Ask, CommitReferences
  <2>2. p \in Txs  BY DEF Txs
  <2> QED  BY <2>1, <2>2, FreeLocks, ReleaseMoves
<1>5. CASE TakeDead
  <2>1. /\ UNCHANGED shared
        /\ \E r \in cleaner.todo :
              /\ held[r] = Nobody /\ shared[r] = {}
              /\ held' = [held EXCEPT ![r] = Cleaner] \/ UNCHANGED held
    BY <1>5 DEF TakeDead
  <2>2. \A r \in Rows : held'[r] = held[r] \/ (held[r] = Nobody /\ shared[r] = {})
    BY <2>1 DEF LocksShaped
  <2> QED  BY <2>1, <2>2 DEF LockMoves
<1>6. CASE EndCleanup \/ Abort
  <2>1. \E tx \in Txs : Release(tx)  BY <1>6 DEF EndCleanup, Abort, Txs
  <2> QED  BY <2>1, ReleaseMoves
<1>7. ASSUME NEW r \in Rows, Import(r) \/ Expire(r) PROVE UNCHANGED locks
  BY <1>7 DEF Import, Expire
<1>8. Cleanup \/ UNCHANGED vars => UNCHANGED locks  BY DEF Cleanup, vars
<1> QED
  BY <1>1, <1>2, <1>3, <1>4, <1>5, <1>6, <1>7, <1>8, FreeLocks DEF CatalogueNext

\* What the cleanup has, it had, or it has just found it dead.
CleanerMoves ==
    \A r \in cleaner'.taken :
        \/ r \in cleaner.taken /\ (held[r] = Cleaner => held'[r] = Cleaner)
        \/ r \in Rows /\ held'[r] = Cleaner /\ Dead(r) /\ row'[r] = row[r]

LEMMA CleanerMoved == Shaped /\ [CatalogueNext]_vars => CleanerMoves
<1> SUFFICES ASSUME Shaped, [CatalogueNext]_vars PROVE CleanerMoves  OBVIOUS
<1> USE DEF Shaped
<1>a. cleaner.taken \subseteq Rows /\ cleaner.todo \subseteq Rows  BY DEF PhonesShaped, CleanerRecords
<1>b. UNCHANGED <<cleaner, held>> => CleanerMoves  BY DEF CleanerMoves
<1>c. ASSUME NEW tx \in Txs, tx # Cleaner, Release(tx), UNCHANGED cleaner PROVE CleanerMoves
  BY <1>a, <1>c, ReleaseMoves DEF CleanerMoves
<1>1. ASSUME NEW t \in Tabs, TakeRow(t) PROVE CleanerMoves
  <2>1. UNCHANGED cleaner /\ MayTakeRow(t) /\ (held' = [held EXCEPT ![tab[t].r] = t] \/ UNCHANGED held)
    BY <1>1 DEF TakeRow
  <2>2. Cleaner # Nobody  BY CatalogueAssumption DEF Txs
  <2>3. \A r \in Rows : held[r] = Cleaner => held'[r] = Cleaner
    BY <2>1, <2>2 DEF LocksShaped, MayTakeRow
  <2> QED  BY <1>a, <2>1, <2>3 DEF CleanerMoves
<1>2. ASSUME NEW t \in Tabs, Administrating(t), ~ TakeRow(t) PROVE CleanerMoves
  <2>1. UNCHANGED cleaner /\ (UNCHANGED held \/ Release(t))
    BY <1>2
    DEF Administrating, Open, SaveEdit, PutPhoto, SavePhoto, RemovePhoto, DeleteOld, Commit, Rollback,
        locks
  <2>2. t \in Txs /\ t # Cleaner  BY CatalogueAssumption DEF Txs
  <2> QED  BY <1>b, <1>c, <2>1, <2>2
<1>3. ASSUME NEW p \in Phones, Ask(p) \/ Insert(p) \/ CommitReferences(p) PROVE CleanerMoves
  <2>1. UNCHANGED cleaner /\ (UNCHANGED held \/ Release(p))
    BY <1>3 DEF Ask, Insert, CommitReferences, locks
  <2>2. p \in Txs /\ p # Cleaner  BY CatalogueAssumption DEF Txs
  <2> QED  BY <1>b, <1>c, <2>1, <2>2
<1>4. CASE Cleanup
  <2>1. cleaner'.taken = {}  BY <1>4 DEF Cleanup
  <2> QED  BY <2>1 DEF CleanerMoves
<1>5. CASE TakeDead
  <2>1. UNCHANGED row  BY <1>5 DEF TakeDead, tables
  <2>2. PICK r \in cleaner.todo :
           \/ /\ Dead(r) /\ held' = [held EXCEPT ![r] = Cleaner]
              /\ cleaner' = [cleaner EXCEPT !.todo = @ \ {r}, !.taken = @ \cup {r}]
           \/ cleaner' = [cleaner EXCEPT !.todo = @ \ {r}] /\ UNCHANGED held
    BY <1>5 DEF TakeDead, StillDead
  <2>3. CASE /\ Dead(r) /\ held' = [held EXCEPT ![r] = Cleaner]
             /\ cleaner' = [cleaner EXCEPT !.todo = @ \ {r}, !.taken = @ \cup {r}]
    <3>1. cleaner'.taken = cleaner.taken \cup {r}  BY <2>3 DEF PhonesShaped, CleanerRecords
    <3>2. held'[r] = Cleaner /\ \A q \in Rows : q # r => held'[q] = held[q]
      BY <1>a, <2>3 DEF LocksShaped
    <3> QED  BY <1>a, <2>1, <2>3, <3>1, <3>2 DEF CleanerMoves
  <2>4. CASE cleaner' = [cleaner EXCEPT !.todo = @ \ {r}] /\ UNCHANGED held
    <3>1. cleaner'.taken = cleaner.taken  BY <2>4 DEF PhonesShaped, CleanerRecords
    <3> QED  BY <2>4, <3>1 DEF CleanerMoves
  <2> QED  BY <2>2, <2>3, <2>4
<1>6. CASE EndCleanup
  <2>1. cleaner'.taken = {}  BY <1>6 DEF EndCleanup
  <2> QED  BY <2>1 DEF CleanerMoves
<1>7. CASE Abort
  <2>1. ASSUME NEW tx \in Tabs \cup Phones, Release(tx), UNCHANGED cleaner PROVE CleanerMoves
    <3>1. tx \in Txs /\ tx # Cleaner  BY CatalogueAssumption DEF Txs
    <3> QED  BY <1>c, <2>1, <3>1
  <2>2. ASSUME cleaner' = [pc |-> "idle", todo |-> {}, taken |-> {}] PROVE CleanerMoves
    BY <2>2 DEF CleanerMoves
  <2> QED  BY <1>7, <2>1, <2>2 DEF Abort
<1>8. ASSUME NEW r \in Rows, Import(r) \/ Expire(r) PROVE CleanerMoves
  BY <1>8, <1>b DEF Import, Expire, locks
<1>9. CASE UNCHANGED vars  BY <1>9, <1>b DEF vars, locks
<1> QED
  BY <1>1, <1>2, <1>3, <1>4, <1>5, <1>6, <1>7, <1>8, <1>9 DEF CatalogueNext

\* A vote never goes, and is only cast on, or turned, by its request's commit.
Voted(u, r) == votes[u][r] # "none"
VotesMove   == \A u \in Users, r \in Rows : Voted(u, r) => votes'[u][r] # "none"
PhoneMoves(p) ==
    \A r \in phone'[p].taken :
        \/ /\ r \in phone[p].taken /\ phone'[p].kind = phone[p].kind
           /\ p \in shared[r] => p \in shared'[r]
        \/ p \in shared'[r]
        \/ phone'[p].kind = phone[p].kind /\ Solo(p) /\ Voted(User[p], r)
ReferencesMove ==
    \A r \in Rows : Referenced(r)' =>
        \/ Referenced(r)
        \/ UNCHANGED row /\ \E p \in Phones : r \in phone[p].taken

LEMMA EveryPhoneMoves ==
    Shaped /\ [CatalogueNext]_vars => VotesMove /\ ReferencesMove /\ \A p \in Phones : PhoneMoves(p)
<1> SUFFICES ASSUME Shaped, [CatalogueNext]_vars, NEW q \in Phones
             PROVE  VotesMove /\ ReferencesMove /\ PhoneMoves(q)
  BY CatalogueAssumption
<1> USE DEF Shaped
<1>a. UNCHANGED <<votes, decks>> => VotesMove /\ ReferencesMove
  BY DEF VotesMove, ReferencesMove, Voted, Referenced
<1>b. phone[q] \in PhoneRecords /\ phone[q].taken \subseteq Rows  BY DEF PhonesShaped, PhoneRecords
<1>c. phone'[q] = phone[q] /\ UNCHANGED shared => PhoneMoves(q)  BY DEF PhoneMoves
<1>d. ASSUME NEW tx \in Txs, tx # q, Release(tx), phone'[q] = phone[q] PROVE PhoneMoves(q)
  <2>1. q \in Txs  BY DEF Txs
  <2> QED  BY <1>b, <1>d, <2>1, ReleaseMoves DEF PhoneMoves
<1>e. ASSUME NEW p \in Phones, phone' = [phone EXCEPT ![p] = IdlePhone], Release(p) PROVE PhoneMoves(q)
  <2>1. CASE p = q
    <3>1. phone'[q].taken = {}  BY <1>e, <2>1, EmptyRecords DEF PhonesShaped
    <3> QED  BY <3>1 DEF PhoneMoves
  <2>2. CASE p # q
    <3>1. phone'[q] = phone[q] /\ p \in Txs  BY <1>e, <2>2 DEF PhonesShaped, Txs
    <3> QED  BY <1>d, <1>e, <2>2, <3>1
  <2> QED  BY <2>1, <2>2
<1>1. ASSUME NEW t \in Tabs, Administrating(t) PROVE VotesMove /\ ReferencesMove /\ PhoneMoves(q)
  <2>1. UNCHANGED <<votes, decks, phone>> /\ (UNCHANGED shared \/ Release(t))
    BY <1>1
    DEF Administrating, Open, TakeRow, SaveEdit, PutPhoto, SavePhoto, RemovePhoto, DeleteOld, Commit,
        Rollback, locks, tables
  <2>2. t \in Txs /\ t # q  BY CatalogueAssumption DEF Txs
  <2> QED  BY <1>a, <1>c, <1>d, <2>1, <2>2
<1>2. ASSUME NEW p \in Phones, Ask(p) PROVE VotesMove /\ ReferencesMove /\ PhoneMoves(q)
  <2>1. UNCHANGED <<votes, decks, shared>>  BY <1>2 DEF Ask, tables, locks
  <2>2. PICK x : x.taken = {} /\ phone' = [phone EXCEPT ![p] = x]  BY <1>2 DEF Ask
  <2>3. phone'[q].taken = {} \/ phone'[q] = phone[q]  BY <2>2 DEF PhonesShaped
  <2>4. PhoneMoves(q)  BY <2>1, <2>3, <1>c DEF PhoneMoves
  <2> QED  BY <1>a, <2>1, <2>4
<1>3. ASSUME NEW p \in Phones, Insert(p) PROVE VotesMove /\ ReferencesMove /\ PhoneMoves(q)
  <2>1. UNCHANGED <<votes, decks>>  BY <1>3 DEF Insert, tables
  <2>2. CASE phone' = [phone EXCEPT ![p] = IdlePhone] /\ Release(p)  BY <1>a, <1>e, <2>1, <2>2
  <2>3. ASSUME NEW r \in phone[p].todo, shared' = [shared EXCEPT ![r] = @ \cup {p}],
               phone' = [phone EXCEPT ![p].todo = @ \ {r}, ![p].taken = @ \cup {r},
                                      ![p].pc = IF phone[p].todo = {r} THEN "commit" ELSE "insert"]
        PROVE  PhoneMoves(q)
    <3>1. r \in Rows  BY DEF PhonesShaped, PhoneRecords
    <3>2. p \in shared'[r] /\ \A s \in Rows : shared[s] \subseteq shared'[s]
      BY <2>3, <3>1 DEF LocksShaped
    <3>3. CASE p = q
      <4>1. phone'[q].taken = phone[q].taken \cup {r} /\ phone'[q].kind = phone[q].kind
        BY <2>3, <3>3 DEF PhonesShaped, PhoneRecords
      <4> QED  BY <1>b, <3>2, <3>3, <4>1 DEF PhoneMoves
    <3>4. CASE p # q
      <4>1. phone'[q] = phone[q]  BY <2>3, <3>4 DEF PhonesShaped
      <4> QED  BY <1>b, <3>2, <4>1 DEF PhoneMoves
    <3> QED  BY <3>3, <3>4
  <2>4. ASSUME NEW r \in phone[p].todo, ~ IsInserting(p, r), UNCHANGED locks,
               phone' = [phone EXCEPT ![p].todo = {}, ![p].taken = {r}, ![p].pc = "commit"]
        PROVE  PhoneMoves(q)
    <3>1. Solo(p) /\ Voted(User[p], r)  BY <2>4 DEF IsInserting, Voted
    <3>2. CASE p = q
      <4>1. phone'[q].taken = {r} /\ phone'[q].kind = phone[q].kind
        BY <2>4, <3>2 DEF PhonesShaped, PhoneRecords
      <4> QED  BY <3>1, <3>2, <4>1 DEF PhoneMoves
    <3>3. CASE p # q  BY <1>c, <2>4, <3>3 DEF PhonesShaped, locks
    <3> QED  BY <3>2, <3>3
  <2> QED  BY <1>3, <1>a, <2>1, <2>2, <2>3, <2>4 DEF Insert
<1>4. ASSUME NEW p \in Phones, CommitReferences(p) PROVE VotesMove /\ ReferencesMove /\ PhoneMoves(q)
  <2>1. UNCHANGED row /\ User[p] \in Users /\ phone[p].taken \subseteq Rows
    BY <1>4, CatalogueAssumption DEF CommitReferences, PhonesShaped, PhoneRecords
  <2>2. VotesMove /\ ReferencesMove
    <3>1. CASE Solo(p)
      <4>1. /\ UNCHANGED decks
            /\ votes' = [votes EXCEPT ![User[p]] =
                            [r \in Rows |-> IF r \in phone[p].taken THEN Direction(p, votes[User[p]][r])
                                            ELSE votes[User[p]][r]]]
        BY <1>4, <3>1 DEF CommitReferences
      <4>2. \A u \in Users, r \in Rows :
               votes'[u][r] = IF u = User[p] /\ r \in phone[p].taken
                              THEN Direction(p, votes[u][r]) ELSE votes[u][r]
        BY <2>1, <4>1 DEF VotesShaped
      <4>3. \A w \in Directions : w # "none" => Direction(p, w) # "none"
        BY DEF Direction, Directions
      <4>4. VotesMove  BY <4>2, <4>3 DEF VotesMove, Voted, VotesShaped
      <4>5. ReferencesMove  BY <2>1, <4>1, <4>2 DEF ReferencesMove, Referenced
      <4> QED  BY <4>4, <4>5
    <3>2. CASE ~ Solo(p)
      <4>1. decks' = decks \cup phone[p].taken /\ UNCHANGED votes
        BY <1>4, <3>2 DEF CommitReferences
      <4> QED  BY <2>1, <4>1 DEF VotesMove, ReferencesMove, Referenced, Voted
    <3> QED  BY <3>1, <3>2
  <2>3. PhoneMoves(q)  BY <1>4, <1>e DEF CommitReferences
  <2> QED  BY <2>2, <2>3
<1>5. CASE TakeDead \/ Cleanup
  BY <1>5, <1>a, <1>c DEF TakeDead, Cleanup, tables, locks
<1>6. CASE EndCleanup
  <2>1. UNCHANGED <<votes, decks, phone>> /\ Release(Cleaner)  BY <1>6 DEF EndCleanup
  <2>2. Cleaner \in Txs /\ Cleaner # q  BY CatalogueAssumption DEF Txs
  <2> QED  BY <1>a, <1>d, <2>1, <2>2
<1>7. CASE Abort
  <2>1. UNCHANGED <<votes, decks>>  BY <1>7 DEF Abort, tables
  <2>2. ASSUME NEW tx \in Tabs \cup {Cleaner}, Release(tx), UNCHANGED phone PROVE PhoneMoves(q)
    <3>1. tx \in Txs /\ tx # q  BY CatalogueAssumption DEF Txs
    <3> QED  BY <1>d, <2>2, <3>1
  <2>3. PhoneMoves(q)  BY <1>7, <1>e, <2>2 DEF Abort
  <2> QED  BY <1>a, <2>1, <2>3
<1>8. ASSUME NEW r \in Rows, Import(r) \/ Expire(r) PROVE VotesMove /\ ReferencesMove /\ PhoneMoves(q)
  BY <1>8, <1>a, <1>c DEF Import, Expire, locks
<1>9. CASE UNCHANGED vars  BY <1>9, <1>a, <1>c DEF vars, locks, tables
<1> QED
  BY <1>1, <1>2, <1>3, <1>4, <1>5, <1>6, <1>7, <1>8, <1>9 DEF CatalogueNext

\* So what is referred to stays, and so do the locks that see to it.
LEMMA NextRefer == Shaped /\ HoldIInv /\ ReferIInv /\ [CatalogueNext]_vars => ReferIInv'
<1> SUFFICES ASSUME Shaped, HoldIInv, ReferIInv, [CatalogueNext]_vars PROVE ReferIInv'  OBVIOUS
<1>1. \A r \in Rows : RowMoves(r) /\ LockMoves(r)  BY EveryRowMoves, EveryLockMoves
<1>2. CleanerMoves /\ VotesMove /\ ReferencesMove /\ \A p \in Phones : PhoneMoves(p)
  BY CleanerMoved, EveryPhoneMoves
<1>3. Cleaner # Nobody /\ \A t \in Tabs : t # Cleaner  BY CatalogueAssumption DEF Txs
<1>4. Exclusive'  BY <1>1 DEF ReferIInv, Exclusive, LockMoves
<1>5. ASSUME NEW r \in Rows, There(r), ~ Dropped(r) PROVE There(r)'
  BY <1>1, <1>5 DEF RowMoves, Kept, Born, Renewed, SavedBy, There
<1>6. ASSUME NEW r \in Rows, Dropped(r) PROVE held[r] = Cleaner /\ shared[r] = {} /\ ~ Referenced(r)'
  BY <1>3, <1>6 DEF Dropped, ReferIInv, CleanerHolds, Exclusive, Referenced
<1>7. SharedThere'
  <2> SUFFICES ASSUME NEW r \in Rows, shared'[r] # {} PROVE There(r)'  BY DEF SharedThere
  <2>1. CASE shared'[r] \subseteq shared[r]
    BY <1>5, <1>6, <2>1 DEF ReferIInv, SharedThere
  <2>2. CASE There(r) /\ row'[r] = row[r]  BY <2>2 DEF There
  <2> QED  BY <1>1, <2>1, <2>2 DEF LockMoves
<1>8. CleanerHolds'
  <2> SUFFICES ASSUME NEW r \in cleaner'.taken PROVE held'[r] = Cleaner /\ Dead(r)'
    BY DEF CleanerHolds
  <2>1. CASE r \in cleaner.taken /\ (held[r] = Cleaner => held'[r] = Cleaner)
    <3>1. r \in Rows /\ held[r] = Cleaner /\ Dead(r)
      BY <2>1 DEF ReferIInv, CleanerHolds, Shaped, PhonesShaped, CleanerRecords
    <3>2. ~ Born(r)  BY <3>1 DEF Born, Dead, There
    <3>3. ~ Dropped(r)  BY DEF Dropped
    <3>4. ASSUME NEW t \in Tabs PROVE ~ SavedBy(t, r)
      BY <1>3, <3>1 DEF SavedBy, HoldIInv, TabsHold
    <3>5. Kept(r) \/ Renewed(r)  BY <1>1, <3>1, <3>2, <3>3, <3>4 DEF RowMoves
    <3>6. Dead(r)'  BY <1>3, <3>1, <3>5 DEF Dead, There, Kept, Renewed
    <3> QED  BY <2>1, <3>1, <3>6
  <2>2. CASE held'[r] = Cleaner /\ Dead(r) /\ row'[r] = row[r]  BY <2>2 DEF Dead, There
  <2> QED  BY <1>2, <2>1, <2>2 DEF CleanerMoves
<1>9. PhonesRefer'
  <2> SUFFICES ASSUME NEW p \in Phones, NEW r \in phone'[p].taken
               PROVE  p \in shared'[r] \/ (phone'[p].kind # "deck" /\ votes'[User[p]][r] # "none")
    BY DEF PhonesRefer, Solo
  <2>1. User[p] \in Users  BY CatalogueAssumption
  <2>2. r \in Rows
    <3>1. Shaped'  BY NextShaped
    <3> QED  BY <3>1 DEF Shaped, PhonesShaped, PhoneRecords
  <2> QED  BY <1>2, <2>1, <2>2 DEF PhoneMoves, VotesMove, Voted, Solo, ReferIInv, PhonesRefer
<1>10. ReferencesHold'
  <2> SUFFICES ASSUME NEW r \in Rows, Referenced(r)' PROVE There(r)'  BY DEF ReferencesHold
  <2>1. CASE Referenced(r)
    BY <1>5, <1>6, <2>1 DEF ReferIInv, ReferencesHold
  <2>2. ASSUME UNCHANGED row, NEW p \in Phones, r \in phone[p].taken PROVE There(r)'
    <3>1. p \in shared[r] \/ Voted(User[p], r)
      BY <2>2 DEF ReferIInv, PhonesRefer, Voted
    <3>2. User[p] \in Users  BY CatalogueAssumption
    <3>3. There(r)
      BY <3>1, <3>2 DEF ReferIInv, SharedThere, ReferencesHold, Referenced, Voted
    <3> QED  BY <2>2, <3>3 DEF There
  <2> QED  BY <1>2, <2>1, <2>2 DEF ReferencesMove
<1> QED  BY <1>4, <1>7, <1>8, <1>9, <1>10 DEF ReferIInv

--------------------------------------------------------------------------------
(* Photos.                                                                        *)

\* Whoever neither shows, uploads nor deletes a photo disturbs nothing.
LEMMA PhotosStay ==
    ASSUME Shaped, PhotosIInv, UNCHANGED bucket,
           \A r \in Rows : row'[r].photo = row[r].photo,
           \A t \in Tabs : \/ tab'[t] = tab[t]
                           \/ /\ tab'[t].pc \notin {"save", "undo", "clear"}
                              /\ tab[t].pc \notin {"save", "clear"} \/ faults' # 0,
           faults' = 0 => faults = 0
    PROVE  PhotosIInv'
<1> USE DEF bucket
<1>1. ASSUME NEW t \in Tabs, NEW k
      PROVE  /\ Uploading(t, k)' => Uploading(t, k)
             /\ Undoing(t, k)' => Undoing(t, k)
             /\ Clearing(t, k)' => Clearing(t, k)
             /\ faults' = 0 /\ Uploading(t, k) => Uploading(t, k)'
             /\ faults' = 0 /\ Clearing(t, k) => Clearing(t, k)'
  BY DEF Uploading, Undoing, Clearing
<1>2. ShownMinted' /\ ShownOnce' /\ PhotosThere'
  BY DEF PhotosIInv, ShownMinted, ShownOnce, PhotosThere
<1>3. UploadsFresh'  BY <1>1 DEF PhotosIInv, UploadsFresh
<1>4. ClearsUnshown' /\ UndoesUnsure'  BY <1>1 DEF PhotosIInv, ClearsUnshown, UndoesUnsure
<1>5. NothingExtra'  BY <1>1 DEF PhotosIInv, NothingExtra
<1> QED  BY <1>2, <1>3, <1>4, <1>5 DEF PhotosIInv

\* A new object gets a key that nobody has seen.
LEMMA PutKeepsPhotos ==
    ASSUME Shaped, PhotosIInv, NEW t \in Tabs, PutPhoto(t)
    PROVE  PhotosIInv'
<1> USE DEF Shaped, BucketShaped
<1>1. PICK key \in PhotoKeys \ minted :
         /\ minted' = minted \cup {key}
         /\ \/ /\ objects' = objects \cup {key} /\ UNCHANGED <<row, faults>>
               /\ tab' = [tab EXCEPT ![t].pc = "save", ![t].key = key]
            \/ /\ objects' \in {objects, objects \cup {key}} /\ UNCHANGED row
               /\ End(t) /\ Fault
  BY <1>1 DEF PutPhoto, Rollback
<1>2. UNCHANGED unsure /\ tab[t].pc = "upload" /\ key # NoKey
  BY CatalogueAssumption DEF PutPhoto
<1>3. /\ \A r \in Rows : row[r].photo # key
      /\ \A u \in Tabs : ~ Uploading(u, key) /\ ~ Undoing(u, key) /\ ~ Clearing(u, key)
  BY <1>2 DEF PhotosIInv, ShownMinted, UploadsFresh, UndoesUnsure, ClearsUnshown, Keyed
<1>4. UNCHANGED row /\ objects \subseteq objects' /\ \A k \in objects' : k \in objects \/ k = key
  BY <1>1
<1>5. ASSUME NEW u \in Tabs, NEW k
      PROVE  /\ Undoing(u, k)' => Undoing(u, k)
             /\ Clearing(u, k)' => Clearing(u, k)
             /\ Uploading(u, k)' => Uploading(u, k) \/ (u = t /\ k = key /\ key \in objects')
  <2>1. CASE tab' = [tab EXCEPT ![t].pc = "save", ![t].key = key] /\ objects' = objects \cup {key}
    BY <2>1 DEF TabsShaped, TabRecords, Uploading, Undoing, Clearing
  <2>2. CASE End(t)
    <3>1. tab'[t].pc = "idle" /\ \A x \in Tabs : x # t => tab'[x] = tab[x]
      BY <2>2, TabEnds, EmptyRecords
    <3> QED  BY <3>1 DEF Uploading, Undoing, Clearing
  <2> QED  BY <1>1, <2>1, <2>2
<1>6. ShownMinted' /\ ShownOnce' /\ PhotosThere'
  BY <1>1, <1>2, <1>4 DEF PhotosIInv, ShownMinted, ShownOnce, PhotosThere
<1>7. UploadsFresh'
  <2> SUFFICES ASSUME NEW u \in Tabs, NEW k \in Keyed, Uploading(u, k)'
               PROVE  /\ k \in objects' /\ \A r \in Rows : row'[r].photo # k
                      /\ \A x \in Tabs \ {u} : ~ Uploading(x, k)' /\ ~ Undoing(x, k)' /\ ~ Clearing(x, k)'
    BY DEF UploadsFresh
  <2>1. CASE Uploading(u, k)
    <3>1. /\ k \in objects /\ \A r \in Rows : row[r].photo # k
          /\ \A x \in Tabs \ {u} : ~ Uploading(x, k) /\ ~ Undoing(x, k) /\ ~ Clearing(x, k)
      BY <2>1 DEF PhotosIInv, UploadsFresh
    <3>2. k # key  BY <3>1
    <3> QED  BY <1>4, <1>5, <3>1, <3>2
  <2>2. CASE u = t /\ k = key /\ key \in objects'
    BY <1>3, <1>4, <1>5, <2>2
  <2> QED  BY <1>5, <2>1, <2>2
<1>8. ClearsUnshown' /\ UndoesUnsure'
  BY <1>1, <1>2, <1>4, <1>5 DEF PhotosIInv, ClearsUnshown, UndoesUnsure
<1>9. NothingExtra'
  <2>1. CASE /\ tab' = [tab EXCEPT ![t].pc = "save", ![t].key = key] /\ objects' = objects \cup {key}
             /\ UNCHANGED faults
    <3>1. Uploading(t, key)'  BY <2>1 DEF TabsShaped, TabRecords, Uploading
    <3>2. \A u \in Tabs, k \in objects :
             /\ Uploading(u, k) => Uploading(u, k)'
             /\ Clearing(u, k) => Clearing(u, k)'
      BY <1>2, <2>1 DEF TabsShaped, TabRecords, Uploading, Clearing
    <3> QED  BY <1>4, <2>1, <3>1, <3>2 DEF PhotosIInv, NothingExtra
  <2>2. CASE Fault  BY <2>2 DEF Fault, NothingExtra
  <2> QED  BY <1>1, <2>1, <2>2
<1> QED  BY <1>6, <1>7, <1>8, <1>9 DEF PhotosIInv

\* A row shows another photo, or none: the new one was being uploaded by this tab, the
\* old one is left for it to delete, unless something has failed.
LEMMA ShowKeepsPhotos ==
    ASSUME Shaped, PhotosIInv, NEW t \in Tabs, Holds(t), NEW q \in Rows, NEW k \in Keyed,
           \A r \in Rows : row'[r].photo = IF r = q THEN k ELSE row[r].photo,
           k # NoKey => Uploading(t, k),
           tab[t].copy.photo = row[q].photo,
           UNCHANGED <<objects, minted>>, unsure \subseteq unsure',
           \A u \in Tabs : u # t => tab'[u] = tab[u],
           \/ tab'[t].pc = "clear" /\ tab'[t].copy = tab[t].copy
           \/ faults' # 0 /\ tab'[t].pc = "undo" /\ tab'[t].key = k /\ q \in unsure'
                          /\ Uploading(t, k)
           \/ faults' # 0 /\ tab'[t].pc \notin {"clear", "undo", "save"},
           tab[t].pc = "save" => k = tab[t].key,
           faults' = 0 => faults = 0
    PROVE  PhotosIInv'
<1> USE DEF Shaped, BucketShaped
<1>1. k # NoKey =>
         /\ k \in objects /\ \A r \in Rows : row[r].photo # k
         /\ \A u \in Tabs \ {t} : ~ Uploading(u, k) /\ ~ Undoing(u, k) /\ ~ Clearing(u, k)
  BY DEF PhotosIInv, UploadsFresh
<1>2. tab[t].pc # "clear" /\ tab[t].pc # "undo"  BY DEF Holds, Holding
<1>3. ASSUME NEW u \in Tabs, u # t, NEW x
      PROVE  /\ Uploading(u, x)' <=> Uploading(u, x)
             /\ Undoing(u, x)' <=> Undoing(u, x)
             /\ Clearing(u, x)' <=> Clearing(u, x)
  BY <1>3 DEF Uploading, Undoing, Clearing
<1>4. ASSUME NEW x
      PROVE  /\ ~ Uploading(t, x)'
             /\ Undoing(t, x)' => x = k /\ q \in unsure' /\ Uploading(t, k)
             /\ Clearing(t, x)' => x = row[q].photo
  BY DEF Uploading, Undoing, Clearing
<1>5. ShownMinted'  BY <1>1 DEF PhotosIInv, ShownMinted, Keyed
<1>6. ShownOnce'  BY <1>1 DEF PhotosIInv, ShownOnce
<1>7. PhotosThere'  BY <1>1 DEF PhotosIInv, PhotosThere
<1>8. UploadsFresh'
  <2> SUFFICES ASSUME NEW u \in Tabs, NEW x \in Keyed, Uploading(u, x)'
               PROVE  /\ x \in objects' /\ \A r \in Rows : row'[r].photo # x
                      /\ \A y \in Tabs \ {u} : ~ Uploading(y, x)' /\ ~ Undoing(y, x)' /\ ~ Clearing(y, x)'
    BY DEF UploadsFresh
  <2>1. u # t /\ Uploading(u, x)  BY <1>3, <1>4
  <2>2. /\ x \in objects /\ \A r \in Rows : row[r].photo # x
        /\ \A y \in Tabs \ {u} : ~ Uploading(y, x) /\ ~ Undoing(y, x) /\ ~ Clearing(y, x)
    BY <2>1 DEF PhotosIInv, UploadsFresh
  <2>3. x # NoKey /\ x # k
    BY <1>1, <2>1, <2>2, CatalogueAssumption
  <2>4. ~ Uploading(t, x)' /\ ~ Undoing(t, x)' /\ ~ Clearing(t, x)'  BY <1>4, <2>2, <2>3
  <2> QED  BY <1>3, <2>2, <2>3, <2>4
<1>9. ClearsUnshown'
  <2> SUFFICES ASSUME NEW u \in Tabs, NEW x \in PhotoKeys, Clearing(u, x)'
               PROVE  x \in minted' /\ \A r \in Rows : row'[r].photo # x
    BY DEF ClearsUnshown
  <2>1. x # NoKey  BY CatalogueAssumption
  <2>2. CASE u = t
    <3>1. x = row[q].photo  BY <1>4, <2>2
    <3>2. \A r \in Rows : r # q => row[r].photo # x  BY <2>1, <3>1 DEF PhotosIInv, ShownOnce
    <3>3. k # x  BY <1>1, <2>1, <3>1
    <3>4. x \in minted  BY <2>1, <3>1 DEF PhotosIInv, ShownMinted
    <3> QED  BY <3>2, <3>3, <3>4
  <2>3. CASE u # t
    <3>1. Clearing(u, x)  BY <1>3, <2>3
    <3>2. x \in minted /\ \A r \in Rows : row[r].photo # x
      BY <3>1 DEF PhotosIInv, ClearsUnshown
    <3>3. k # x  BY <1>1, <2>1, <2>3, <3>1
    <3> QED  BY <3>2, <3>3
  <2> QED  BY <2>2, <2>3
<1>10. UndoesUnsure'
  <2> SUFFICES ASSUME NEW u \in Tabs, NEW x \in Keyed, Undoing(u, x)'
               PROVE  x \in minted' /\ \A r \in Rows : row'[r].photo = x => r \in unsure'
    BY DEF UndoesUnsure
  <2>1. CASE u = t
    <3>1. x = k /\ q \in unsure' /\ Uploading(t, k)  BY <1>4, <2>1
    <3>2. k \in objects /\ \A r \in Rows : row[r].photo # k
      BY <3>1 DEF PhotosIInv, UploadsFresh
    <3> QED  BY <3>1, <3>2
  <2>2. CASE u # t
    <3>1. Undoing(u, x)  BY <1>3, <2>2
    <3>2. x \in minted /\ \A r \in Rows : row[r].photo = x => r \in unsure
      BY <3>1 DEF PhotosIInv, UndoesUnsure
    <3>3. x # k
      <4>1. x # NoKey  BY <3>2, CatalogueAssumption
      <4> QED  BY <1>1, <2>2, <3>1, <4>1
    <3> QED  BY <3>2, <3>3
  <2> QED  BY <2>1, <2>2
<1>11. NothingExtra'
  <2> SUFFICES ASSUME faults' = 0, NEW x \in objects
               PROVE  \/ \E r \in Rows : row'[r].photo = x
                      \/ \E u \in Tabs : Uploading(u, x)' \/ Clearing(u, x)'
    BY DEF NothingExtra
  <2>1. tab'[t].pc = "clear" /\ tab'[t].copy = tab[t].copy  OBVIOUS
  <2>2. \/ \E r \in Rows : row[r].photo = x
        \/ \E u \in Tabs : Uploading(u, x) \/ Clearing(u, x)
    BY DEF PhotosIInv, NothingExtra
  <2>3. ASSUME NEW r \in Rows, row[r].photo = x
        PROVE  \/ \E s \in Rows : row'[s].photo = x
               \/ \E u \in Tabs : Uploading(u, x)' \/ Clearing(u, x)'
    <3>1. CASE r = q
      <4>1. Clearing(t, x)'  BY <2>1, <2>3, <3>1 DEF Clearing
      <4> QED  BY <4>1
    <3>2. CASE r # q  BY <2>3, <3>2
    <3> QED  BY <3>1, <3>2
  <2>4. ASSUME NEW u \in Tabs, Uploading(u, x) \/ Clearing(u, x)
        PROVE  \/ \E s \in Rows : row'[s].photo = x
               \/ \E y \in Tabs : Uploading(y, x)' \/ Clearing(y, x)'
    <3>1. CASE u # t  BY <1>3, <2>4, <3>1
    <3>2. CASE u = t
      <4>1. k = x  BY <1>2, <2>4, <3>2 DEF Uploading, Clearing
      <4> QED  BY <4>1
    <3> QED  BY <3>1, <3>2
  <2> QED  BY <2>2, <2>3, <2>4
<1> QED  BY <1>5, <1>6, <1>7, <1>8, <1>9, <1>10, <1>11 DEF PhotosIInv

\* An upload that is given up leaves its object for this tab to delete.
LEMMA UndoKeepsPhotos ==
    ASSUME Shaped, PhotosIInv, NEW t \in Tabs, tab[t].pc = "save", UNCHANGED <<row, bucket>>,
           \A u \in Tabs : u # t => tab'[u] = tab[u],
           tab'[t].pc = "undo", tab'[t].key = tab[t].key, faults' # 0
    PROVE  PhotosIInv'
<1> USE DEF Shaped, BucketShaped, bucket
<1> DEFINE k == tab[t].key
<1>1. k \in Keyed /\ Uploading(t, k)  BY TabFields DEF Uploading
<1>2. /\ k \in objects /\ \A r \in Rows : row[r].photo # k
      /\ \A u \in Tabs \ {t} : ~ Uploading(u, k) /\ ~ Undoing(u, k) /\ ~ Clearing(u, k)
  BY <1>1 DEF PhotosIInv, UploadsFresh
<1>3. ASSUME NEW u \in Tabs, NEW x
      PROVE  /\ Uploading(u, x)' => u # t /\ Uploading(u, x)
             /\ Undoing(u, x)' => Undoing(u, x) \/ (u = t /\ x = k)
             /\ Clearing(u, x)' => Clearing(u, x)
  BY DEF Uploading, Undoing, Clearing
<1>4. ShownMinted' /\ ShownOnce' /\ PhotosThere' /\ NothingExtra'
  BY DEF PhotosIInv, ShownMinted, ShownOnce, PhotosThere, NothingExtra
<1>5. UploadsFresh'
  <2> SUFFICES ASSUME NEW u \in Tabs, NEW x \in Keyed, Uploading(u, x)'
               PROVE  /\ x \in objects' /\ \A r \in Rows : row'[r].photo # x
                      /\ \A y \in Tabs \ {u} : ~ Uploading(y, x)' /\ ~ Undoing(y, x)' /\ ~ Clearing(y, x)'
    BY DEF UploadsFresh
  <2>1. u # t /\ Uploading(u, x)  BY <1>3
  <2>2. x # k  BY <1>2, <2>1
  <2>3. /\ x \in objects /\ \A r \in Rows : row[r].photo # x
        /\ \A y \in Tabs \ {u} : ~ Uploading(y, x) /\ ~ Undoing(y, x) /\ ~ Clearing(y, x)
    BY <2>1 DEF PhotosIInv, UploadsFresh
  <2> QED  BY <1>3, <2>2, <2>3
<1>6. ClearsUnshown'  BY <1>3 DEF PhotosIInv, ClearsUnshown
<1>7. UndoesUnsure'  BY <1>2, <1>3 DEF PhotosIInv, UndoesUnsure
<1> QED  BY <1>4, <1>5, <1>6, <1>7 DEF PhotosIInv

\* What is deleted is shown by nobody, but for an upload whose commit nobody heard of.
LEMMA DeleteKeepsPhotos ==
    ASSUME Shaped, PhotosIInv, NEW t \in Tabs, DeleteOld(t)
    PROVE  PhotosIInv'
<1> USE DEF Shaped, BucketShaped
<1> DEFINE k == Stale(t)
<1>1. /\ tab[t].pc \in {"clear", "undo"} /\ UNCHANGED <<row, minted, unsure>>
      /\ \/ objects' = objects \ {k} /\ UNCHANGED faults
         \/ UNCHANGED objects /\ faults' # 0
  BY DEF DeleteOld, Fault, tables
<1>2. tab'[t].pc = "idle" /\ \A u \in Tabs : u # t => tab'[u] = tab[u]
  BY TabEnds, EmptyRecords DEF DeleteOld
<1>3. k \in Keyed /\ (Undoing(t, k) \/ Clearing(t, k))
  BY <1>1, TabFields DEF Stale, Undoing, Clearing
<1>4. k # NoKey => k \in PhotoKeys /\ \A r \in Rows : row[r].photo = k => r \in unsure
  BY <1>3 DEF PhotosIInv, ClearsUnshown, UndoesUnsure, Keyed
<1>5. ASSUME NEW u \in Tabs, NEW x
      PROVE  /\ Uploading(u, x)' => u # t /\ Uploading(u, x)
             /\ Undoing(u, x)' => Undoing(u, x)
             /\ Clearing(u, x)' => Clearing(u, x)
             /\ Uploading(u, x) => Uploading(u, x)'
             /\ Clearing(u, x) => Clearing(u, x)' \/ (u = t /\ x = k)
  BY <1>1, <1>2 DEF Uploading, Undoing, Clearing, Stale
<1> HIDE DEF k
<1>6. ShownMinted' /\ ShownOnce' /\ ClearsUnshown' /\ UndoesUnsure'
  BY <1>1, <1>5 DEF PhotosIInv, ShownMinted, ShownOnce, ClearsUnshown, UndoesUnsure
<1>7. PhotosThere'  BY <1>1, <1>4 DEF PhotosIInv, PhotosThere
<1>8. UploadsFresh'
  <2> SUFFICES ASSUME NEW u \in Tabs, NEW x \in Keyed, Uploading(u, x)'
               PROVE  /\ x \in objects' /\ \A r \in Rows : row'[r].photo # x
                      /\ \A y \in Tabs \ {u} : ~ Uploading(y, x)' /\ ~ Undoing(y, x)' /\ ~ Clearing(y, x)'
    BY DEF UploadsFresh
  <2>1. u # t /\ Uploading(u, x)  BY <1>5
  <2>2. /\ x \in objects /\ \A r \in Rows : row[r].photo # x
        /\ \A y \in Tabs \ {u} : ~ Uploading(y, x) /\ ~ Undoing(y, x) /\ ~ Clearing(y, x)
    BY <2>1 DEF PhotosIInv, UploadsFresh
  <2>3. x # k  BY <1>3, <2>1, <2>2
  <2> QED  BY <1>1, <1>5, <2>2, <2>3
<1>9. NothingExtra'  BY <1>1, <1>5 DEF PhotosIInv, NothingExtra
<1> QED  BY <1>6, <1>7, <1>8, <1>9 DEF PhotosIInv

LEMMA NextPhotos ==
    Shaped /\ TableIInv /\ HoldIInv /\ ReferIInv /\ PhotosIInv /\ [CatalogueNext]_vars => PhotosIInv'
<1> SUFFICES ASSUME Shaped, TableIInv, HoldIInv, ReferIInv, PhotosIInv, [CatalogueNext]_vars
             PROVE  PhotosIInv'
  OBVIOUS
<1>a. faults \in Nat /\ TabsShaped  BY DEF Shaped
<1>b. Fault => faults' # 0  BY <1>a DEF Fault
<1>c. UNCHANGED tables => UNCHANGED row  BY DEF tables
<1>1. ASSUME NEW r \in Rows, Import(r) \/ Expire(r) PROVE PhotosIInv'
  <2>1. UNCHANGED <<bucket, tab, faults>>  BY <1>1 DEF Import, Expire
  <2>3. ASSUME NEW q \in Rows PROVE row'[q].photo = row[q].photo
    <3>1. RowMoves(q)  BY EveryRowMoves
    <3>2. ~ \E t \in Tabs : SavedBy(t, q)  BY <2>1 DEF SavedBy, Holds
    <3>3. CASE Born(q)
      <4>1. row[q].photo = NoKey  BY <3>3 DEF Born, TableIInv, RowsSane
      <4> QED  BY <3>3, <4>1 DEF Born
    <3>4. CASE Dropped(q)
      <4>1. row[q] \in RowRecords  BY DEF Shaped, RowsShaped
      <4> QED  BY <3>4, <4>1 DEF Dropped, RowRecords
    <3> QED  BY <3>1, <3>2, <3>3, <3>4 DEF RowMoves, Kept, Renewed
  <2> QED  BY <2>1, <2>3, PhotosStay
<1>2. ASSUME NEW t \in Tabs, (\E r \in Rows : Open(t, r)) \/ TakeRow(t) PROVE PhotosIInv'
  <2>1. UNCHANGED <<row, bucket, faults>> /\ tab[t].pc \in {"idle", "open"}
    BY <1>2, <1>c DEF Open, TakeRow
  <2>2. \A u \in Tabs : u # t => tab'[u] = tab[u]
    BY <1>2, <1>a, TabLeaves DEF Open, TakeRow, TabsShaped
  <2>3. tab'[t].pc \in {"open", "idle", "edit", "upload", "remove"}
    <3>1. CASE \E r \in Rows : Open(t, r)
      BY <3>1, <1>a, EmptyRecords DEF Open, TabsShaped, TabRecords
    <3>2. CASE End(t)  BY <3>2, <1>a, TabEnds, EmptyRecords
    <3>3. ASSUME NEW request \in {"edit", "upload", "remove"},
                 tab' = [tab EXCEPT ![t].pc = request, ![t].copy = row[tab[t].r]]
          PROVE  tab'[t].pc = request
      BY <3>3, <1>a DEF TabsShaped, TabRecords
    <3> QED  BY <1>2, <3>1, <3>2, <3>3 DEF TakeRow
  <2>4. tab[t].pc \notin {"save", "clear"} /\ tab'[t].pc \notin {"save", "undo", "clear"}
    BY <2>1, <2>3
  <2> QED  BY <2>1, <2>2, <2>4, PhotosStay
<1>3. ASSUME NEW t \in Tabs, SaveEdit(t) PROVE PhotosIInv'
  <2>1. Holds(t) /\ tab[t].copy.status = "there" /\ tab[t].copy.photo = row[tab[t].r].photo
    BY <1>3 DEF SaveEdit, Holds, Holding, HoldIInv, CopiesAgree
  <2>2. /\ tab'[t].pc = "idle" /\ tab[t].pc = "edit" /\ UNCHANGED bucket
        /\ \A u \in Tabs : u # t => tab'[u] = tab[u]
    BY <1>3, <1>a, TabEnds, EmptyRecords DEF SaveEdit
  <2>3. faults' = 0 => faults = 0  BY <1>3, <1>b DEF SaveEdit
  <2>4. \A r \in Rows : row'[r].photo = row[r].photo
    <3>1. ASSUME NEW new \in RowRecords, new.status = tab[t].copy.status,
                 new.photo = tab[t].copy.photo, Commit(t, new)
          PROVE  \A r \in Rows : row'[r].photo = row[r].photo
      <4>1. tab'[t].pc \notin Holding  BY <2>2 DEF Holding
      <4> QED  BY <2>1, <3>1, <4>1, CommitMoves
    <3>2. CASE Rollback(t)  BY <3>2 DEF Rollback
    <3> QED  BY <1>3, <3>1, <3>2, EditResult DEF Shaped
  <2> QED  BY <2>2, <2>3, <2>4, PhotosStay
<1>4. ASSUME NEW t \in Tabs, SavePhoto(t) PROVE PhotosIInv'
  <2> DEFINE k == tab[t].key  q == tab[t].r
  <2>1. /\ tab[t].pc = "save" /\ Holds(t) /\ q \in Rows /\ k \in Keyed /\ Uploading(t, k)
        /\ tab[t].copy.status = "there" /\ tab[t].copy.photo = row[q].photo
    BY <1>4, <1>a, TabFields DEF SavePhoto, Holds, Holding, HoldIInv, CopiesAgree, Uploading
  <2>2. UNCHANGED <<objects, minted>>  BY <1>4 DEF SavePhoto
  <2>3. ASSUME Commit(t, Shows(t, k)), NEW pc \in {"clear", "undo"}, Step(t, pc)
        PROVE  \A r \in Rows : row'[r].photo = IF r = q THEN k ELSE row[r].photo
    <3>1. tab'[t].pc \notin Holding  BY <2>3, <1>a, TabLeaves
    <3>2. Shows(t, k) \in RowRecords /\ Shows(t, k).status = "there" /\ Shows(t, k).photo = k
      BY <1>a, <2>1, PhotoRecord
    <3> QED  BY <2>1, <2>3, <3>1, <3>2, CommitMoves
  <2>4. CASE Commit(t, Shows(t, k)) /\ Step(t, "clear") /\ UNCHANGED <<unsure, faults>>
    <3>1. /\ tab'[t].pc = "clear" /\ tab'[t].copy = tab[t].copy
          /\ \A u \in Tabs : u # t => tab'[u] = tab[u]
      BY <2>4, <1>a, TabSteps DEF TabPlaces
    <3>2. \A r \in Rows : row'[r].photo = IF r = q THEN k ELSE row[r].photo  BY <2>3, <2>4
    <3> QED  BY <2>1, <2>2, <2>4, <3>1, <3>2, ShowKeepsPhotos
  <2>5. CASE Rollback(t) /\ Step(t, "undo") /\ UNCHANGED unsure /\ Fault
    <3>1. /\ tab'[t].pc = "undo" /\ tab'[t].key = tab[t].key
          /\ \A u \in Tabs : u # t => tab'[u] = tab[u]
      BY <2>5, <1>a, TabSteps DEF TabPlaces
    <3> QED  BY <1>b, <2>1, <2>2, <2>5, <3>1, UndoKeepsPhotos DEF Rollback, bucket
  <2>6. CASE Commit(t, Shows(t, k)) /\ Step(t, "undo") /\ unsure' = unsure \cup {q} /\ Fault
    <3>1. /\ tab'[t].pc = "undo" /\ tab'[t].key = k
          /\ \A u \in Tabs : u # t => tab'[u] = tab[u]
      BY <2>6, <1>a, TabSteps DEF TabPlaces
    <3>2. \A r \in Rows : row'[r].photo = IF r = q THEN k ELSE row[r].photo  BY <2>3, <2>6
    <3>3. faults' # 0 /\ unsure \subseteq unsure' /\ q \in unsure'  BY <1>b, <2>6
    <3> QED  BY <2>1, <2>2, <3>1, <3>2, <3>3, ShowKeepsPhotos
  <2> QED  BY <1>4, <2>4, <2>5, <2>6 DEF SavePhoto, Shows
<1>5. ASSUME NEW t \in Tabs, RemovePhoto(t) PROVE PhotosIInv'
  <2> DEFINE q == tab[t].r
  <2>1. /\ tab[t].pc = "remove" /\ Holds(t) /\ q \in Rows /\ NoKey \in Keyed
        /\ tab[t].copy.status = "there" /\ tab[t].copy.photo = row[q].photo
    BY <1>5, <1>a, TabFields DEF RemovePhoto, Holds, Holding, HoldIInv, CopiesAgree, Keyed
  <2>2. UNCHANGED bucket /\ UNCHANGED <<objects, minted, unsure>>  BY <1>5 DEF RemovePhoto, bucket
  <2>3. ASSUME Commit(t, Shows(t, NoKey)), Step(t, "clear") \/ End(t)
        PROVE  \A r \in Rows : row'[r].photo = IF r = q THEN NoKey ELSE row[r].photo
    <3>1. tab'[t].pc \notin Holding  BY <2>3, <1>a, TabLeaves
    <3>2. /\ Shows(t, NoKey) \in RowRecords /\ Shows(t, NoKey).status = "there"
          /\ Shows(t, NoKey).photo = NoKey
      BY <1>a, <2>1, PhotoRecord
    <3> QED  BY <2>1, <2>3, <3>1, <3>2, CommitMoves
  <2>4. CASE Commit(t, Shows(t, NoKey)) /\ Step(t, "clear") /\ UNCHANGED faults
    <3>1. /\ tab'[t].pc = "clear" /\ tab'[t].copy = tab[t].copy
          /\ \A u \in Tabs : u # t => tab'[u] = tab[u]
      BY <2>4, <1>a, TabSteps DEF TabPlaces
    <3>2. \A r \in Rows : row'[r].photo = IF r = q THEN NoKey ELSE row[r].photo  BY <2>3, <2>4
    <3> QED  BY <2>1, <2>2, <2>4, <3>1, <3>2, ShowKeepsPhotos
  <2>5. CASE Commit(t, Shows(t, NoKey)) /\ End(t) /\ Fault
    <3>1. tab'[t].pc = "idle" /\ \A u \in Tabs : u # t => tab'[u] = tab[u]
      BY <2>5, <1>a, TabEnds, EmptyRecords
    <3>2. \A r \in Rows : row'[r].photo = IF r = q THEN NoKey ELSE row[r].photo  BY <2>3, <2>5
    <3>3. faults' # 0  BY <1>b, <2>5
    <3> QED  BY <2>1, <2>2, <3>1, <3>2, <3>3, ShowKeepsPhotos
  <2>6. CASE Rollback(t) /\ End(t) /\ Fault
    <3>1. tab'[t].pc = "idle" /\ \A u \in Tabs : u # t => tab'[u] = tab[u]
      BY <2>6, <1>a, TabEnds, EmptyRecords
    <3>2. faults' # 0 /\ UNCHANGED row  BY <1>b, <2>6 DEF Rollback
    <3> QED  BY <2>2, <3>1, <3>2, PhotosStay
  <2> QED  BY <1>5, <2>4, <2>5, <2>6 DEF RemovePhoto, Shows
<1>6. ASSUME NEW p \in Phones, Ask(p) \/ Insert(p) \/ CommitReferences(p) PROVE PhotosIInv'
  <2>1. UNCHANGED <<row, bucket, tab, faults>>
    BY <1>6, <1>c DEF Ask, Insert, CommitReferences
  <2> QED  BY <2>1, PhotosStay
<1>7. CASE Cleanup \/ TakeDead \/ UNCHANGED vars
  <2>1. UNCHANGED <<row, bucket, tab, faults>>  BY <1>7, <1>c DEF Cleanup, TakeDead, vars
  <2> QED  BY <2>1, PhotosStay
<1>8. CASE EndCleanup
  <2>1. UNCHANGED <<bucket, tab, faults>>  BY <1>8 DEF EndCleanup
  <2>2. \A r \in Rows : row'[r].photo = row[r].photo
    <3>1. \A r \in Rows : [row[r] EXCEPT !.status = "gone"].photo = row[r].photo
      BY DEF Shaped, RowsShaped, RowRecords
    <3> QED  BY <1>8, <3>1 DEF EndCleanup
  <2> QED  BY <2>1, <2>2, PhotosStay
<1>9. CASE Abort
  <2>1. UNCHANGED <<row, bucket>> /\ faults' # 0  BY <1>9, <1>b, <1>c DEF Abort
  <2>2. ASSUME NEW t \in Tabs, End(t) PROVE PhotosIInv'
    <3>1. tab'[t].pc = "idle" /\ \A u \in Tabs : u # t => tab'[u] = tab[u]
      BY <2>2, <1>a, TabEnds, EmptyRecords
    <3> QED  BY <2>1, <3>1, PhotosStay
  <2>3. CASE UNCHANGED tab  BY <2>1, <2>3, PhotosStay
  <2> QED  BY <1>9, <2>2, <2>3 DEF Abort
<1>10. ASSUME NEW t \in Tabs, PutPhoto(t) PROVE PhotosIInv'  BY <1>10, PutKeepsPhotos
<1>11. ASSUME NEW t \in Tabs, DeleteOld(t) PROVE PhotosIInv'  BY <1>11, DeleteKeepsPhotos
<1> QED
  BY <1>1, <1>2, <1>3, <1>4, <1>5, <1>6, <1>7, <1>8, <1>9, <1>10, <1>11
  DEF CatalogueNext, Administrating

--------------------------------------------------------------------------------
(* What follows.                                                                  *)

\* The inductive invariant of the restaurants table: whoever holds a row has it
\* unchanged, what is shared or referred to is there, histories have no gaps, and each
\* photo key has one owner.
THEOREM TableInvariance == CatalogueSpec => []CatalogueIInv
<1>1. CatalogueIInv /\ [CatalogueNext]_vars => CatalogueIInv'
  BY NextShaped, NextTable, NextHold, NextRefer, NextPhotos DEF CatalogueIInv
<1> QED  BY <1>1, CatalogueInitIInv, PTL DEF CatalogueSpec

\* No save of an administrator is lost to another tab, whatever else happens to the
\* restaurant meanwhile.
THEOREM NoSaveIsLost == CatalogueSpec => []AuditIsAChain
<1>1. CatalogueIInv => AuditIsAChain
  <2> SUFFICES ASSUME CatalogueIInv PROVE CatalogueTypeOK
    BY DEF AuditIsAChain, CatalogueIInv, TableIInv
  <2>1. \A r \in Rows : row[r].photo \in PhotoKeys \cup {NoKey} /\ row[r].version \in 0..MaxVersion
    BY DEF CatalogueIInv, Shaped, RowsShaped, RowRecords, Keyed
  <2> QED
    BY <2>1
    DEF CatalogueTypeOK, CatalogueIInv, Shaped, LocksShaped, VotesShaped, BucketShaped, Directions,
        TableIInv, RowsSane, ReferIInv, Exclusive
<1> QED  BY <1>1, TableInvariance, PTL

\* Votes and decks refer to restaurants that are there, however many rows one nightly
\* DELETE takes and however the references come about beside it.
THEOREM NothingDangles == CatalogueSpec => []ReferencesHold
<1>1. CatalogueIInv => ReferencesHold  BY DEF CatalogueIInv, ReferIInv
<1> QED  BY <1>1, TableInvariance, PTL

\* A photo that a restaurant shows is in the bucket, unless the answer to the commit of
\* its upload was lost, and without failures nothing is left behind there.
THEOREM PhotosAreKept == CatalogueSpec => []PhotosKept
<1>1. CatalogueIInv => PhotosKept
  <2> SUFFICES ASSUME CatalogueIInv, faults = 0, NEW k \in objects
               PROVE  k \in {row[r].photo : r \in Rows} \cup {tab[t].key : t \in Tabs}
                            \cup {tab[t].copy.photo : t \in {t \in Tabs : tab[t].pc = "clear"}}
    BY DEF PhotosKept, CatalogueIInv, PhotosIInv, PhotosThere
  <2>1. \/ \E r \in Rows : row[r].photo = k
        \/ \E t \in Tabs : Uploading(t, k) \/ Clearing(t, k)
    BY DEF CatalogueIInv, PhotosIInv, NothingExtra
  <2> QED  BY <2>1 DEF Uploading, Clearing
<1> QED  BY <1>1, TableInvariance, PTL

\* A search for open restaurants finds exactly those within the hours an administrator
\* gave them, for any hours, but for a window that ends before it begins on its day,
\* and nothing that no administrator has saved.
THEOREM HoursMeanWhatTheySay == CatalogueSpec => []HoursRight
<1>1. CatalogueIInv => HoursRight
  <2> SUFFICES ASSUME CatalogueIInv, NEW r \in Rows, NEW now \in Points
               PROVE  /\ r \in OpenNow(now)
                            <=> /\ Discoverable(r)
                                /\ \/ row[r].hours = {Always}
                                   \/ \E p \in row[r].hours : Means(p, now) /\ ~ Misread(p, now)
                      /\ r \in OpenNow(now) => row[r].permanent
    BY DEF HoursRight
  <2> DEFINE h == row[r].hours
  <2>1. h \in Hours \cup {{}}  BY DEF CatalogueIInv, Shaped, RowsShaped, RowRecords
  <2>2. r \in OpenNow(now) <=> Discoverable(r) /\ h # {} /\ IsOpenAt(h, now)  BY DEF OpenNow
  <2>3. h # {} => row[r].permanent  BY DEF CatalogueIInv, TableIInv, RowsSane
  <2> HIDE DEF h
  <2>4. CASE h = {} \/ h = {Always}  BY <2>2, <2>3, <2>4 DEF IsOpenAt, h
  <2>5. CASE h \subseteq Windows /\ h # {}
    <3>1. ASSUME NEW p \in h PROVE p # Always
      <4>1. DOMAIN p = {"from", "to"}  BY <2>5, <3>1 DEF Windows, Window
      <4>2. DOMAIN Always = {"from"}  BY DEF Always
      <4>3. "to" \notin DOMAIN Always  BY <4>2
      <4> QED  BY <4>1, <4>3
    <3>2. \A p \in h : Covers(p, now) <=> Means(p, now) /\ ~ Misread(p, now)
      BY <2>5, WindowsRight DEF WindowRight
    <3>3. h # {Always}  BY <3>1
    <3>4. IsOpenAt(h, now) <=> \E p \in h : Means(p, now) /\ ~ Misread(p, now)
      BY <2>5, <3>1, <3>2 DEF IsOpenAt
    <3> QED  BY <2>2, <2>3, <2>5, <3>3, <3>4 DEF h
  <2> QED  BY <2>1, <2>4, <2>5, CatalogueAssumption DEF h
<1> QED  BY <1>1, TableInvariance, PTL

\* What an administrator has saved is changed by the next save and by nothing else.
THEOREM CuratedStays == CatalogueSpec => CuratedSurvives
<1>1. CatalogueIInv /\ [CatalogueNext]_vars =>
         [\A r \in Rows : row[r].permanent =>
             row'[r] = row[r] \/ (row'[r].status = "there" /\ row'[r].version = row[r].version + 1)]_vars
  <2> SUFFICES ASSUME CatalogueIInv, CatalogueNext, NEW r \in Rows, row[r].permanent
               PROVE  \/ row'[r] = row[r]
                      \/ row'[r].status = "there" /\ row'[r].version = row[r].version + 1
    OBVIOUS
  <2>1. RowMoves(r)  BY EveryRowMoves DEF CatalogueIInv
  <2>2. ~ Born(r)  BY DEF Born, CatalogueIInv, TableIInv, RowsSane
  <2>3. ~ Dropped(r)  BY DEF Dropped, CatalogueIInv, ReferIInv, CleanerHolds, Dead
  <2>4. ~ Renewed(r)  BY DEF Renewed
  <2> QED  BY <2>1, <2>2, <2>3, <2>4 DEF RowMoves, Kept, SavedBy
<1> QED  BY <1>1, TableInvariance, PTL DEF CatalogueSpec, CuratedSurvives
================================================================================
