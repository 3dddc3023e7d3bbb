---------------------------- MODULE CycleProofs ----------------------------
(***************************************************************************)
(* Theorems about the daemon of Cycle, for every value of its constants.   *)
(***************************************************************************)
EXTENDS Cycle, TLAPS

\* The labels at which a step works from a parsed index.
IndexLabel == {"drift", "epoch", "plan", "fetch", "fetched", "record", "reconcile",
               "notes", "store", "stored", "docs", "verify", "send", "save"}

\* The labels from the first download to the last stored notes.
CatchUpLabel == {"fetch", "fetched", "record", "reconcile", "notes", "store", "stored"}

\* What a run holds in memory fits where it is: it has an index when it needs one,
\* downloads listed shots, and writes notes, deletes and records for archived ones.
MemoryOK ==
  /\ pc \in IndexLabel => index # NONE
  /\ pc \in {"fetched", "record"} => cur # NONE /\ cur.id \in todo
  /\ pc \in {"fetch", "fetched", "record"} => \A i \in todo : Listed(i)
  /\ pc \in {"notes", "store", "stored", "docs", "verify", "send"} =>
       \A i \in todo : Archived(KeyOf(i))
  /\ \A i \in picked : pc \in {"verify", "send", "save"} /\ Archived(KeyOf(i))
  /\ \A i \in newNotes : pc \in CatchUpLabel /\ Archived(KeyOf(i))

\* The device counter is never reset, so that an id is one shot.
OneLife == MaxLife = 1

\* An id has a key in the current epoch.
LEMMA KeyTyped ==
  ASSUME TypeOK, NEW i \in Ids PROVE KeyOf(i) \in Key
BY DEF TypeOK, ArchiveTypeOK, StoreTypeOK, Ledger, KeyOf, Key

\* The index a device serves is a well-formed one.
LEMMA IndexTyped == ASSUME TypeOK PROVE Index \in IndexType
<1>1. \A i \in Ids : entries[i] # NONE => IndexEntry(entries[i]) \in IndexEntryType
  BY EntryDataTyped DEF TypeOK, DeviceTypeOK, Entry, IndexEntry, IndexEntryType, Stars, Day
<1>2. fw.index \in Nat
  BY FirmwareTyped DEF TypeOK, DeviceTypeOK
<1>3. QED
  BY <1>1, <1>2 DEF TypeOK, DeviceTypeOK, Index, IndexType

\* A live shot has bytes to download.
LEMMA SlogTyped ==
  ASSUME TypeOK, NEW i \in Ids, Live(i) PROVE Slog(i) \in Bytes
BY DEF TypeOK, DeviceTypeOK, Entry, Slog, Bytes, Live

\* A download in hand makes a record.
LEMMA RecordTyped ==
  ASSUME TypeOK, MemoryOK, pc = "record"
  PROVE  cur.id \in Ids /\ KeyOf(cur.id) \in Key /\ NewRecord \in Record /\ NewRecord # NONE
<1>1. cur.id \in Ids /\ index.entries[cur.id] \in IndexEntryType /\ cur.slog \in Bytes
  BY DEF TypeOK, ArchiveTypeOK, MemoryOK, IndexLabel, RunTypeOK, IndexType, CurType, Listed
<1>2. NewRecord \in Record
  BY <1>1 DEF NewRecord, Record, EntryAt, IndexEntryType, Complete, Accepted
<1>3. QED
  BY <1>1, <1>2, KeyTyped, AbsentIsApart

\* Every shot has a place in the raw tree.
LEMMA PathTyped ==
  ASSUME NEW ts \in Day, NEW i \in Ids PROVE PathOf(ts, i) \in Path
BY DEF PathOf, Path

\* The first start: an empty archive beside a device without shots.
LEMMA InitOK == ASSUME Init PROVE TypeOK /\ MemoryOK
<1>1. DeviceTypeOK
  BY SizesAreNat, FirmwareTyped DEF Init, DeviceInit, DeviceTypeOK
<1>2. 1 \in Epoch
  BY SizesAreNat DEF Epoch
<1>3. ArchiveTypeOK
  BY <1>2 DEF Init, ArchiveInit, ArchiveTypeOK, StoreTypeOK, RunTypeOK, HistTypeOK, FileBytes, DocFile, Ledger, Label, SyncLabel, PassLabel, NoDocs
<1>4. MemoryOK
  BY DEF Init, ArchiveInit, MemoryOK, IndexLabel
<1>5. QED
  BY <1>1, <1>3, <1>4 DEF TypeOK

\* Device events, one by one.
LEMMA DeviceOK ==
  ASSUME TypeOK, MemoryOK, DeviceStep PROVE TypeOK' /\ MemoryOK'
<1> USE DEF DeviceTypeOK
<1> DeviceTypeOK
  BY DEF TypeOK
<1>1. ArchiveTypeOK' /\ MemoryOK'
  BY DEF TypeOK, DeviceStep, ArchiveTypeOK, StoreTypeOK, RunTypeOK, HistTypeOK, MemoryOK, Listed, Archived, KeyOf, storeVars, runVars, histVars
<1>2. ASSUME RecordShot PROVE DeviceTypeOK'
  <2>1. nextId \in Ids
    BY <1>2, SizesAreNat DEF RecordShot, Ids
  <2>2. PICK timed \in Timed, stage \in Stage :
       entries' = [entries EXCEPT ![nextId] =
         [ts |-> today, timed |-> timed, stage |-> stage, open |-> stage # "full",
          fw |-> fw.slog, doc |-> NONE, deleted |-> FALSE]]
    BY <1>2 DEF RecordShot
  <2>3. [ts |-> today, timed |-> timed, stage |-> stage, open |-> stage # "full",
          fw |-> fw.slog, doc |-> NONE, deleted |-> FALSE] \in Entry
    BY EntryDataTyped DEF Entry, SlogVersion
  <2>4. nextId' \in Nat \ {0} /\ nextId' <= MaxShots + 1
    BY <1>2, SizesAreNat DEF RecordShot
  <2>5. QED
    BY <1>2, <2>1, <2>2, <2>3, <2>4 DEF RecordShot
<1>3. ASSUME NEW i \in Ids, GrowFlush(i) PROVE DeviceTypeOK'
  BY <1>3, NoneIsNoEntry DEF GrowFlush, Entry, Stage, Live
<1>4. ASSUME Flush PROVE DeviceTypeOK'
  <2>1. ASSUME NEW i \in Ids, FinishFlush(i) PROVE DeviceTypeOK'
    BY <2>1, NoneIsNoEntry DEF FinishFlush, Entry, Stage, Live
  <2>2. ASSUME NEW i \in Ids, DamageFlush(i) PROVE DeviceTypeOK'
    BY <2>2, NoneIsNoEntry DEF DamageFlush, Entry, Live
  <2>3. QED
    BY <1>4, <2>1, <2>2 DEF Flush
<1>5. ASSUME NEW i \in Ids, SaveNotes(i) PROVE DeviceTypeOK'
  BY <1>5 DEF SaveNotes, Entry, Live
<1>6. ASSUME NEW i \in Ids, RemoveShot(i) \/ DropEntry(i) PROVE DeviceTypeOK'
  BY <1>6 DEF RemoveShot, DropEntry, Entry, Live
<1>7. ASSUME Reset PROVE DeviceTypeOK'
  BY <1>7, SizesAreNat DEF Reset
<1>8. ASSUME FlashFirmware PROVE DeviceTypeOK'
  BY <1>8 DEF FlashFirmware
<1>9. ASSUME Tick PROVE DeviceTypeOK'
  BY <1>9, SizesAreNat DEF Tick
<1>10. DeviceTypeOK'
  BY <1>2, <1>3, <1>4, <1>5, <1>6, <1>7, <1>8, <1>9 DEF DeviceStep
<1>11. QED
  BY <1>1, <1>10 DEF TypeOK

\* Steps of the archiver that leave the device alone keep it well formed.
LEMMA DeviceKept ==
  ASSUME TypeOK, UNCHANGED deviceVars PROVE DeviceTypeOK'
BY DEF TypeOK, DeviceTypeOK, deviceVars

\* A run that ends, with or without an exception, leaves no memory behind.
LEMMA GoToOK ==
  ASSUME TypeOK, NEW label \in {"idle", "parse"}, GoTo(label), ok' \in BOOLEAN
  PROVE RunTypeOK' /\ MemoryOK'
<1>1. RunTypeOK'
  BY DEF GoTo, RunTypeOK, NoDocs, Label, SyncLabel, PassLabel
<1>2. MemoryOK'
  BY DEF GoTo, MemoryOK, IndexLabel
<1>3. QED
  BY <1>1, <1>2

\* An injected failure only counts itself.
LEMMA FaultOK ==
  ASSUME TypeOK, NEW kind, Fault(kind), UNCHANGED <<crashes, fresh, erased>>
  PROVE HistTypeOK'
BY DEF TypeOK, ArchiveTypeOK, HistTypeOK, Fault

\* The first part of a sync: index, drift, epoch, plan.
LEMMA SyncPlanningOK ==
  ASSUME TypeOK, MemoryOK, SyncIndex \/ SyncDrift \/ SyncEpoch \/ SyncPlan
  PROVE TypeOK' /\ MemoryOK'
<1> USE DEF TypeOK, ArchiveTypeOK
<1>1. ASSUME SyncIndex PROVE TypeOK' /\ MemoryOK'
  <2>1. DeviceTypeOK' /\ StoreTypeOK' /\ HistTypeOK'
    BY <1>1, DeviceKept DEF SyncIndex, StoreTypeOK, HistTypeOK, storeVars, histVars
  <2>2. CASE ~IndexExists
    BY <1>1, <2>1, <2>2, GoToOK DEF SyncIndex, RunTypeOK
  <2>3. CASE IndexExists
    <3>1. Index \in IndexType
      BY IndexTyped
    <3>2. QED
      BY <1>1, <2>1, <2>3, <3>1, AbsentIsApart
      DEF SyncIndex, RunTypeOK, MemoryOK, Label, SyncLabel, CatchUpLabel, GoTo
  <2>4. QED
    BY <2>2, <2>3
<1>2. ASSUME SyncDrift PROVE TypeOK' /\ MemoryOK'
  <2>1. dev' \in Ledger
    BY <1>2 DEF SyncDrift, StoreTypeOK, RunTypeOK, Ledger, MemoryOK, IndexLabel, IndexType, IndexDrifted
  <2>2. QED
    BY <1>2, <2>1, DeviceKept
    DEF SyncDrift, StoreTypeOK, RunTypeOK, HistTypeOK, histVars, Label, SyncLabel,
        MemoryOK, IndexLabel, CatchUpLabel
<1>3. ASSUME SyncEpoch PROVE TypeOK' /\ MemoryOK'
  <2>1. dev' \in Ledger
    BY <1>3 DEF SyncEpoch, StoreTypeOK, RunTypeOK, Ledger, MemoryOK, IndexLabel, IndexType
  <2>2. QED
    BY <1>3, <2>1, DeviceKept
    DEF SyncEpoch, StoreTypeOK, RunTypeOK, HistTypeOK, histVars, Label, SyncLabel,
        MemoryOK, IndexLabel, CatchUpLabel
<1>4. ASSUME SyncPlan PROVE TypeOK' /\ MemoryOK'
  <2>1. shots' \in [Key -> Record \cup {NONE}]
    <3>1. ASSUME NEW k \in Key, Archived(k)
          PROVE  [shots[k] EXCEPT !.tomb = TRUE] \in Record
      BY <3>1 DEF StoreTypeOK, Archived, Record
    <3>2. QED
      BY <1>4, <3>1 DEF SyncPlan, StoreTypeOK, Tombstoned
  <2>2. MemoryOK'
    BY <1>4 DEF SyncPlan, MemoryOK, IndexLabel, CatchUpLabel, NeedsFetch, ListedLive, Listed
  <2>3. QED
    BY <1>4, <2>1, <2>2, DeviceKept
    DEF SyncPlan, StoreTypeOK, RunTypeOK, HistTypeOK, histVars, Label, SyncLabel
<1>5. QED
  BY <1>1, <1>2, <1>3, <1>4

\* The download of a shot, its failure, and a write that lies.
LEMMA SyncFetchOK ==
  ASSUME TypeOK, MemoryOK, NEW i \in Ids,
         SyncFetch(i) \/ SyncFetchGone(i) \/ SyncWriteLies(i)
  PROVE TypeOK' /\ MemoryOK'
<1> USE DEF TypeOK, ArchiveTypeOK
<1>1. ASSUME pc = "fetch", i \in todo PROVE SlogPath(i) \in Path
  <2>1. index \in IndexType /\ index.entries[i] \in IndexEntryType
    BY <1>1 DEF MemoryOK, IndexLabel, RunTypeOK, IndexType, Listed
  <2>2. index.entries[i].ts \in Day
    BY <2>1 DEF IndexEntryType
  <2>3. QED
    BY <2>2, PathTyped DEF SlogPath, EntryAt
<1>2. ASSUME SyncFetch(i) PROVE TypeOK' /\ MemoryOK'
  <2>1. Slog(i) \in Bytes
    BY <1>2, SlogTyped DEF SyncFetch
  <2>2. StoreTypeOK'
    BY <1>2, <2>1 DEF SyncFetch, StoreTypeOK, FileBytes
  <2>3. cur' \in CurType /\ cur'.id = i /\ i \in todo
    BY <1>2, <2>1 DEF SyncFetch, CurType, OldestOf
  <2>4. MemoryOK'
    BY <1>2, <2>3, AbsentIsApart DEF SyncFetch, MemoryOK, IndexLabel, CatchUpLabel, Listed, Archived, KeyOf
  <2>5. QED
    BY <1>2, <2>2, <2>3, <2>4, DeviceKept
    DEF SyncFetch, RunTypeOK, HistTypeOK, histVars, Label, SyncLabel
<1>3. ASSUME SyncFetchGone(i) PROVE TypeOK' /\ MemoryOK'
  BY <1>3, GoToOK, DeviceKept DEF SyncFetchGone, StoreTypeOK, HistTypeOK, storeVars, histVars
<1>4. ASSUME SyncWriteLies(i) PROVE TypeOK' /\ MemoryOK'
  <2>1. StoreTypeOK'
    BY <1>4 DEF SyncWriteLies, StoreTypeOK, FileBytes
  <2>2. QED
    BY <1>4, <2>1, GoToOK, FaultOK, DeviceKept DEF SyncWriteLies
<1>5. QED
  BY <1>2, <1>3, <1>4

\* The stale sample file, the record of a shot, the end of the downloads.
LEMMA SyncRecordOK ==
  ASSUME TypeOK, MemoryOK, SyncUnlinkStale \/ SyncRecord \/ SyncFetchesDone
  PROVE TypeOK' /\ MemoryOK'
<1> USE DEF TypeOK, ArchiveTypeOK
<1>1. ASSUME SyncUnlinkStale PROVE TypeOK' /\ MemoryOK'
  <2>1. StoreTypeOK'
    BY <1>1 DEF SyncUnlinkStale, StoreTypeOK, FileBytes
  <2>2. MemoryOK'
    BY <1>1 DEF SyncUnlinkStale, MemoryOK, IndexLabel, CatchUpLabel, Listed, Archived, KeyOf
  <2>3. QED
    BY <1>1, <2>1, <2>2, DeviceKept
    DEF SyncUnlinkStale, RunTypeOK, HistTypeOK, histVars, Label, SyncLabel
<1>2. ASSUME SyncRecord PROVE TypeOK' /\ MemoryOK'
  <2>1. cur \in CurType /\ cur.id \in Ids /\ cur.slog \in Bytes /\ Listed(cur.id)
    BY <1>2 DEF SyncRecord, MemoryOK, RunTypeOK, CurType
  <2>2. index \in IndexType /\ EntryAt(cur.id) \in IndexEntryType
    BY <1>2, <2>1 DEF SyncRecord, MemoryOK, IndexLabel, RunTypeOK, IndexType, Listed, EntryAt
  <2>3. NewRecord \in Record
    BY <2>1, <2>2 DEF NewRecord, Record, IndexEntryType, Complete, Accepted, SameBytes, Known
  <2>4. KeyOf(cur.id) \in Key
    BY <2>1, KeyTyped
  <2>5. StoreTypeOK' /\ HistTypeOK'
    BY <1>2, <2>3, <2>4 DEF SyncRecord, StoreTypeOK, HistTypeOK
  <2>6. RunTypeOK'
    BY <1>2, <2>1 DEF SyncRecord, RunTypeOK, Label, SyncLabel
  <2>7. \A i \in Ids : Archived(KeyOf(i)) => Archived(KeyOf(i))'
    BY <1>2, <2>3, <2>4, AbsentIsApart, KeyTyped DEF SyncRecord, StoreTypeOK, Archived, KeyOf
  <2>8. shots'[KeyOf(cur.id)] # NONE /\ dev' = dev
    BY <1>2, <2>3, <2>4, AbsentIsApart DEF SyncRecord, StoreTypeOK, Archived, KeyOf
  <2>9. MemoryOK'
    BY <1>2, <2>1, <2>7, <2>8
    DEF SyncRecord, MemoryOK, RunTypeOK, IndexLabel, CatchUpLabel, Listed, Archived, KeyOf
  <2>10. QED
    BY <1>2, <2>5, <2>6, <2>9, DeviceKept DEF SyncRecord
<1>3. ASSUME SyncFetchesDone PROVE TypeOK' /\ MemoryOK'
  BY <1>3, DeviceKept
  DEF SyncFetchesDone, StoreTypeOK, RunTypeOK, HistTypeOK, storeVars, histVars, Label,
      SyncLabel, MemoryOK, IndexLabel, CatchUpLabel, Listed, Archived, KeyOf
<1>4. QED
  BY <1>1, <1>2, <1>3

\* Ratings, the notes session and the ends of a sync.
LEMMA SyncCatchUpOK ==
  ASSUME TypeOK, MemoryOK,
         (\E i \in Ids : ReconcileRating(i)) \/ ReconcileDone \/ NotesFetch \/ NotesDeferred
           \/ SyncDone \/ SyncFails
  PROVE TypeOK' /\ MemoryOK'
<1> USE DEF TypeOK, ArchiveTypeOK
<1>1. ASSUME NEW i \in Ids, ReconcileRating(i) PROVE TypeOK' /\ MemoryOK'
  <2>1. KeyOf(i) \in Key /\ shots[KeyOf(i)] \in Record
    BY <1>1, KeyTyped DEF ReconcileRating, RatingDrifted, Verified, Archived, StoreTypeOK
  <2>2. EntryAt(i).rating \in Nat
    BY <1>1 DEF ReconcileRating, RatingDrifted, ListedLive, Listed, EntryAt, MemoryOK, IndexLabel,
                RunTypeOK, IndexType, IndexEntryType
  <2>3. [shots[KeyOf(i)] EXCEPT !.rating = EntryAt(i).rating] \in Record
    BY <2>1, <2>2 DEF Record
  <2>4. shots' = [shots EXCEPT ![KeyOf(i)] = [shots[KeyOf(i)] EXCEPT !.rating = EntryAt(i).rating]]
    BY <1>1 DEF ReconcileRating
  <2>5. StoreTypeOK'
    BY <1>1, <2>3, <2>4 DEF ReconcileRating, StoreTypeOK
  <2>6. \A j \in Ids : Archived(KeyOf(j)) => Archived(KeyOf(j))'
    BY <1>1, <2>1, <2>3, <2>4, AbsentIsApart, KeyTyped DEF ReconcileRating, StoreTypeOK, Archived, KeyOf
  <2>7. MemoryOK'
    BY <1>1, <2>6 DEF ReconcileRating, runVars, RunTypeOK, MemoryOK, Listed
  <2>8. QED
    BY <1>1, <2>5, <2>7, DeviceKept DEF ReconcileRating, runVars, histVars, RunTypeOK, HistTypeOK
<1>2. ASSUME ReconcileDone PROVE TypeOK' /\ MemoryOK'
  <2> DEFINE needs == {i \in Ids : NeedsNotes(i)} \cup newNotes
  <2>1. DeviceTypeOK' /\ StoreTypeOK' /\ HistTypeOK'
    BY <1>2, DeviceKept DEF ReconcileDone, StoreTypeOK, HistTypeOK, storeVars, histVars
  <2>2. CASE GoTo("parse")
    BY <1>2, <2>1, <2>2, GoToOK DEF ReconcileDone, RunTypeOK
  <2>3. CASE /\ pc' = "notes" /\ todo' = needs
             /\ UNCHANGED <<index, cur, docs, newNotes, picked>>
    <3>1. needs \subseteq Ids /\ \A i \in needs : Archived(KeyOf(i))
      BY DEF RunTypeOK, MemoryOK, NeedsNotes, Verified
    <3>2. QED
      BY <1>2, <2>1, <2>3, <3>1
      DEF ReconcileDone, RunTypeOK, Label, SyncLabel, MemoryOK, IndexLabel, CatchUpLabel,
          Archived, KeyOf, storeVars
  <2>4. QED
    BY <1>2, <2>2, <2>3 DEF ReconcileDone
<1>3. ASSUME NotesFetch PROVE TypeOK' /\ MemoryOK'
  <2>1. docs' \in [Ids -> Docs \cup {NONE}]
    BY <1>3 DEF NotesFetch, FetchDocs, DeviceNotes, DeviceTypeOK, Entry
  <2>2. MemoryOK'
    BY <1>3 DEF NotesFetch, MemoryOK, IndexLabel, CatchUpLabel, Archived, KeyOf, storeVars
  <2>3. QED
    BY <1>3, <2>1, <2>2, DeviceKept
    DEF NotesFetch, StoreTypeOK, RunTypeOK, HistTypeOK, storeVars, histVars, Label, SyncLabel
<1>4. ASSUME NotesDeferred PROVE TypeOK' /\ MemoryOK'
  BY <1>4, GoToOK, FaultOK, DeviceKept DEF NotesDeferred, StoreTypeOK, RunTypeOK, storeVars
<1>5. ASSUME SyncDone PROVE TypeOK' /\ MemoryOK'
  BY <1>5, GoToOK, DeviceKept DEF SyncDone, StoreTypeOK, RunTypeOK, HistTypeOK, storeVars, histVars
<1>6. ASSUME SyncFails PROVE TypeOK' /\ MemoryOK'
  BY <1>6, GoToOK, FaultOK, DeviceKept DEF SyncFails, StoreTypeOK, storeVars
<1>7. QED
  BY <1>1, <1>2, <1>3, <1>4, <1>5, <1>6

\* The notes of one shot.
LEMMA SyncStoreOK ==
  ASSUME TypeOK, MemoryOK, NEW i \in Ids,
         StoreSkip(i) \/ StoreWrite(i) \/ StoreFails(i) \/ StoreSave(i)
  PROVE TypeOK' /\ MemoryOK'
<1> USE DEF TypeOK, ArchiveTypeOK
<1>1. i \in todo /\ Archived(KeyOf(i)) /\ KeyOf(i) \in Key /\ shots[KeyOf(i)] \in Record
  BY KeyTyped DEF StoreSkip, StoreWrite, StoreFails, StoreSave, FirstOf, MemoryOK, Archived, StoreTypeOK
<1>2. NotesPath(i) \in Path
  BY <1>1, PathTyped DEF NotesPath, Record
<1>3. ASSUME StoreSkip(i) PROVE TypeOK' /\ MemoryOK'
  <2>1. MemoryOK'
    BY <1>3 DEF StoreSkip, MemoryOK, IndexLabel, CatchUpLabel, Archived, KeyOf, storeVars
  <2>2. QED
    BY <1>3, <2>1, DeviceKept DEF StoreSkip, StoreTypeOK, RunTypeOK, HistTypeOK, storeVars, histVars
<1>4. ASSUME StoreWrite(i) PROVE TypeOK' /\ MemoryOK'
  <2>1. MemoryOK'
    BY <1>4 DEF StoreWrite, MemoryOK, IndexLabel, CatchUpLabel, Archived, KeyOf
  <2>2. StoreTypeOK'
    BY <1>4, <1>2 DEF StoreWrite, StoreTypeOK, RunTypeOK, DocFile
  <2>3. QED
    BY <1>4, <2>1, <2>2, DeviceKept DEF StoreWrite, RunTypeOK, HistTypeOK, histVars, Label, SyncLabel
<1>5. ASSUME StoreFails(i) PROVE TypeOK' /\ MemoryOK'
  <2>1. MemoryOK'
    BY <1>5 DEF StoreFails, MemoryOK, IndexLabel, CatchUpLabel, Archived, KeyOf
  <2>2. StoreTypeOK'
    BY <1>5, <1>2 DEF StoreFails, StoreTypeOK, DocFile
  <2>3. QED
    BY <1>5, <2>1, <2>2, FaultOK, DeviceKept DEF StoreFails, RunTypeOK
<1>6. ASSUME StoreSave(i) PROVE TypeOK' /\ MemoryOK'
  <2>1. [shots[KeyOf(i)] EXCEPT !.json = docs[i]] \in Record
    BY <1>1 DEF Record, RunTypeOK
  <2>2. shots' = [shots EXCEPT ![KeyOf(i)] = [shots[KeyOf(i)] EXCEPT !.json = docs[i]]]
    BY <1>6 DEF StoreSave
  <2>3. StoreTypeOK'
    BY <1>6, <2>1, <2>2 DEF StoreSave, StoreTypeOK
  <2>4. \A j \in Ids : Archived(KeyOf(j)) => Archived(KeyOf(j))'
    BY <1>1, <1>6, <2>1, <2>2, AbsentIsApart, KeyTyped DEF StoreSave, StoreTypeOK, Archived, KeyOf
  <2>5. MemoryOK'
    BY <1>6, <2>4 DEF StoreSave, RunTypeOK, MemoryOK, IndexLabel, CatchUpLabel
  <2>6. QED
    BY <1>6, <2>3, <2>5, DeviceKept DEF StoreSave, RunTypeOK, HistTypeOK, histVars, Label, SyncLabel
<1>7. QED
  BY <1>3, <1>4, <1>5, <1>6

\* A parse run that reaches its save.
LEMMA ParseAllOK ==
  ASSUME TypeOK, MemoryOK, NEW unreadable, ParseAll(unreadable)
  PROVE DeviceTypeOK' /\ StoreTypeOK' /\ RunTypeOK' /\ MemoryOK'
<1> USE DEF TypeOK, ArchiveTypeOK
<1>1. ASSUME NEW k \in Key, Archived(k)
      PROVE  shots[k] \in Record /\ RawOf(k) \in FileBytes
  <2>1. shots[k] \in Record /\ PathOf(shots[k].ts, k[2]) \in Path
    BY <1>1, PathTyped DEF Archived, StoreTypeOK, Record, Key
  <2>2. QED
    BY <2>1 DEF RawOf, StoreTypeOK
<1>2. ASSUME NEW k \in Key, Parses(k, unreadable) PROVE RawOf(k) \in Bytes
  BY <1>1, <1>2 DEF Parses, FileBytes
<1>3. samples' \in [Key -> FileBytes]
  BY <1>2 DEF ParseAll, SamplesOf, StoreTypeOK, FileBytes
<1>4. shots' \in [Key -> Record \cup {NONE}]
  <2>1. ASSUME NEW k \in Key, Archived(k)
        PROVE [shots[k] EXCEPT !.parse = Verdict(k, unreadable)] \in Record
    BY <1>1, <2>1 DEF Record, Verdict
  <2>2. QED
    BY <2>1 DEF ParseAll, ParsedShots
<1>5. dev' \in Ledger
  <2>1. {RawOf(k).fw : k \in {l \in Key : Parses(l, unreadable)}} \subseteq SlogVersion
    BY <1>2 DEF Bytes
  <2>2. QED
    BY <2>1 DEF ParseAll, ParsedLedger, StoreTypeOK, Ledger
<1>6. StoreTypeOK'
  BY <1>3, <1>4, <1>5 DEF ParseAll, StoreTypeOK
<1>7. RunTypeOK' /\ MemoryOK'
  BY DEF ParseAll, RunTypeOK, Label, MemoryOK, IndexLabel, SyncLabel, CatchUpLabel
<1>8. QED
  BY <1>6, <1>7, DeviceKept DEF ParseAll

\* The sample files an interrupted parse leaves behind.
LEMMA StoppedTyped ==
  ASSUME TypeOK, NEW k \in Key PROVE StoppedSamples(k) \subseteq [Key -> FileBytes]
<1> USE DEF TypeOK, ArchiveTypeOK
<1>1. ASSUME NEW l \in Key, Parses(l, {}) PROVE RawOf(l) \in FileBytes
  <2>1. shots[l] \in Record /\ PathOf(shots[l].ts, l[2]) \in Path
    BY <1>1, PathTyped DEF Parses, Archived, StoreTypeOK, Record, Key
  <2>2. QED
    BY <2>1 DEF RawOf, StoreTypeOK
<1>2. \A K : SamplesOf(K, {}) \in [Key -> FileBytes]
  BY <1>1 DEF SamplesOf, StoreTypeOK
<1>3. QED
  BY <1>2 DEF StoppedSamples, FileBytes

\* Every end of a parse.
LEMMA ParseOK ==
  ASSUME TypeOK, MemoryOK, ParseRun \/ ParseMisreads \/ ParseFails \/ ParseCrash
  PROVE TypeOK' /\ MemoryOK'
<1> USE DEF TypeOK, ArchiveTypeOK
<1>1. ASSUME ParseRun PROVE TypeOK' /\ MemoryOK'
  BY <1>1, ParseAllOK DEF ParseRun, HistTypeOK, histVars
<1>2. ASSUME ParseMisreads PROVE TypeOK' /\ MemoryOK'
  BY <1>2, ParseAllOK, FaultOK DEF ParseMisreads
<1>3. ASSUME ParseFails PROVE TypeOK' /\ MemoryOK'
  <2>1. StoreTypeOK'
    BY <1>3, StoppedTyped DEF ParseFails, StoreTypeOK
  <2>2. RunTypeOK' /\ MemoryOK'
    BY <1>3 DEF ParseFails, RunTypeOK, Label, MemoryOK, IndexLabel, SyncLabel, CatchUpLabel
  <2>3. QED
    BY <1>3, <2>1, <2>2, FaultOK, DeviceKept DEF ParseFails
<1>4. ASSUME ParseCrash PROVE TypeOK' /\ MemoryOK'
  <2>1. StoreTypeOK'
    BY <1>4, StoppedTyped DEF ParseCrash, StoreTypeOK
  <2>2. QED
    BY <1>4, <2>1, GoToOK, DeviceKept DEF ParseCrash, HistTypeOK
<1>5. QED
  BY <1>1, <1>2, <1>3, <1>4

\* Phase 2: the choice of candidates, the notes session, the end of verification.
LEMMA PassReadOK ==
  ASSUME TypeOK, MemoryOK, PassSelect \/ PassDocs \/ PassVerified \/ PassFails
  PROVE TypeOK' /\ MemoryOK'
<1> USE DEF TypeOK, ArchiveTypeOK
<1>1. ASSUME PassSelect PROVE TypeOK' /\ MemoryOK'
  <2> DEFINE chosen == Candidates(Index)
  <2>1. DeviceTypeOK' /\ StoreTypeOK' /\ HistTypeOK'
    BY <1>1, DeviceKept DEF PassSelect, StoreTypeOK, HistTypeOK, storeVars, histVars
  <2>2. CASE GoTo("idle")
    BY <1>1, <2>1, <2>2, GoToOK DEF PassSelect, RunTypeOK
  <2>3. CASE /\ pc' = "docs" /\ index' = Index /\ todo' = chosen
             /\ UNCHANGED <<cur, docs, newNotes, picked>>
    <3>1. chosen \subseteq Ids /\ \A i \in chosen : Archived(KeyOf(i))
      BY DEF Candidates, Eligible, Deletable, Verified
    <3>2. Index \in IndexType
      BY IndexTyped
    <3>3. newNotes = {}
      BY <1>1 DEF PassSelect, MemoryOK, CatchUpLabel
    <3>4. QED
      BY <1>1, <2>1, <2>3, <3>1, <3>2, <3>3, AbsentIsApart
      DEF PassSelect, RunTypeOK, Label, PassLabel, MemoryOK, IndexLabel, CatchUpLabel,
          Archived, KeyOf, storeVars
  <2>4. QED
    BY <1>1, <2>2, <2>3 DEF PassSelect
<1>2. ASSUME PassDocs PROVE TypeOK' /\ MemoryOK'
  <2>1. docs' \in [Ids -> Docs \cup {NONE}]
    BY <1>2 DEF PassDocs, FetchDocs, DeviceNotes, DeviceTypeOK, Entry
  <2>2. newNotes = {}
    BY <1>2 DEF PassDocs, MemoryOK, CatchUpLabel
  <2>3. MemoryOK'
    BY <1>2, <2>2 DEF PassDocs, MemoryOK, IndexLabel, CatchUpLabel, Archived, KeyOf, storeVars
  <2>4. QED
    BY <1>2, <2>1, <2>3, DeviceKept
    DEF PassDocs, StoreTypeOK, RunTypeOK, HistTypeOK, storeVars, histVars, Label, PassLabel
<1>3. ASSUME PassVerified PROVE TypeOK' /\ MemoryOK'
  <2>1. DeviceTypeOK' /\ StoreTypeOK' /\ HistTypeOK'
    BY <1>3, DeviceKept DEF PassVerified, StoreTypeOK, HistTypeOK, storeVars, histVars
  <2>2. CASE GoTo("idle")
    BY <1>3, <2>1, <2>2, GoToOK DEF PassVerified, RunTypeOK
  <2>3. CASE /\ pc' = "send" /\ todo' = picked
             /\ UNCHANGED <<index, cur, docs, newNotes, picked>>
    BY <1>3, <2>1, <2>3
    DEF PassVerified, RunTypeOK, Label, PassLabel, MemoryOK, IndexLabel, CatchUpLabel,
        Archived, KeyOf, storeVars
  <2>4. QED
    BY <1>3, <2>2, <2>3 DEF PassVerified
<1>4. ASSUME PassFails PROVE TypeOK' /\ MemoryOK'
  BY <1>4, GoToOK, FaultOK, DeviceKept DEF PassFails, StoreTypeOK, RunTypeOK, storeVars
<1>5. QED
  BY <1>1, <1>2, <1>3, <1>4

\* Phase 2: one shot verified, or sent for deletion.
LEMMA PassShotOK ==
  ASSUME TypeOK, MemoryOK, NEW i \in Ids,
         PassVerify(i) \/ PassVerifyFails(i) \/ PassSend(i) \/ PassRefused(i)
  PROVE TypeOK' /\ MemoryOK'
<1> USE DEF TypeOK, ArchiveTypeOK
<1>1. i \in todo
  BY DEF PassVerify, PassVerifyFails, PassSend, PassRefused, OldestOf
<1>2. MemoryOK'
  BY <1>1 DEF PassVerify, PassVerifyFails, PassSend, PassRefused, MemoryOK, CatchUpLabel,
              Archived, KeyOf, storeVars
<1>3. StoreTypeOK' /\ RunTypeOK'
  BY <1>1 DEF PassVerify, PassVerifyFails, PassSend, PassRefused, StoreTypeOK, RunTypeOK, storeVars
<1>4. ASSUME PassVerify(i) PROVE DeviceTypeOK' /\ HistTypeOK'
  BY <1>4, DeviceKept DEF PassVerify, HistTypeOK, histVars
<1>5. ASSUME PassVerifyFails(i) \/ PassRefused(i) PROVE DeviceTypeOK' /\ HistTypeOK'
  BY <1>5, DeviceKept, FaultOK DEF PassVerifyFails, PassRefused
<1>6. ASSUME PassSend(i) PROVE DeviceTypeOK' /\ HistTypeOK'
  <2>1. DeviceTypeOK'
    BY <1>6 DEF PassSend, DeviceTypeOK, Entry, Live
  <2>2. HistTypeOK'
    BY <1>6, KeyTyped DEF PassSend, HistTypeOK
  <2>3. QED
    BY <2>1, <2>2
<1>7. QED
  BY <1>2, <1>3, <1>4, <1>5, <1>6

\* Phase 2: confirmation and the record of it.
LEMMA PassOutcomeOK ==
  ASSUME TypeOK, MemoryOK, PassConfirm \/ PassSave
  PROVE TypeOK' /\ MemoryOK'
<1> USE DEF TypeOK, ArchiveTypeOK
<1>1. ASSUME PassConfirm PROVE TypeOK' /\ MemoryOK'
  <2>1. delLog' \subseteq [key : Key, confirmed : BOOLEAN]
    <3>1. \A i \in picked : KeyOf(i) \in Key /\ SeenGone(i) \in BOOLEAN
      BY KeyTyped DEF RunTypeOK, SeenGone, Listed, Index, IndexEntry, DeviceTypeOK, Entry
    <3>2. QED
      BY <1>1, <3>1 DEF PassConfirm, StoreTypeOK
  <2>2. MemoryOK'
    BY <1>1 DEF PassConfirm, MemoryOK, IndexLabel, CatchUpLabel, Archived, KeyOf
  <2>3. QED
    BY <1>1, <2>1, <2>2, DeviceKept
    DEF PassConfirm, StoreTypeOK, RunTypeOK, HistTypeOK, histVars, Label, PassLabel
<1>2. ASSUME PassSave PROVE TypeOK' /\ MemoryOK'
  <2>1. shots' \in [Key -> Record \cup {NONE}]
    <3>1. ASSUME NEW i \in picked
          PROVE  [shots[KeyOf(i)] EXCEPT !.gone = TRUE, !.tomb = TRUE] \in Record
      <4>1. shots[KeyOf(i)] \in Record
        BY <1>2, KeyTyped DEF PassSave, MemoryOK, RunTypeOK, Archived, StoreTypeOK
      <4>2. QED
        BY <4>1 DEF Record
    <3>2. QED
      BY <1>2, <3>1 DEF PassSave, StoreTypeOK
  <2>2. StoreTypeOK'
    BY <1>2, <2>1 DEF PassSave, StoreTypeOK
  <2>3. QED
    BY <1>2, <2>2, GoToOK, DeviceKept DEF PassSave, RunTypeOK, HistTypeOK, histVars
<1>3. QED
  BY <1>1, <1>2

\* The steps of the daemon around its three parts.
LEMMA DaemonOK ==
  ASSUME TypeOK, MemoryOK,
         StartCycle \/ Profiles \/ ProfilesFail \/ Crash \/ Rot
  PROVE TypeOK' /\ MemoryOK'
<1> USE DEF TypeOK, ArchiveTypeOK
<1>1. ASSUME StartCycle PROVE TypeOK' /\ MemoryOK'
  BY <1>1, DeviceKept
  DEF StartCycle, StoreTypeOK, RunTypeOK, HistTypeOK, storeVars, Label, SyncLabel, MemoryOK,
      IndexLabel, CatchUpLabel
<1>2. ASSUME Profiles PROVE TypeOK' /\ MemoryOK'
  BY <1>2, DeviceKept
  DEF Profiles, StoreTypeOK, RunTypeOK, HistTypeOK, storeVars, histVars, Label, PassLabel,
      MemoryOK, IndexLabel, CatchUpLabel
<1>3. ASSUME ProfilesFail PROVE TypeOK' /\ MemoryOK'
  BY <1>3, DeviceKept, FaultOK
  DEF ProfilesFail, StoreTypeOK, RunTypeOK, storeVars, Label, MemoryOK, IndexLabel, CatchUpLabel
<1>4. ASSUME Crash PROVE TypeOK' /\ MemoryOK'
  BY <1>4, DeviceKept, GoToOK DEF Crash, StoreTypeOK, HistTypeOK, storeVars
<1>5. ASSUME Rot PROVE TypeOK' /\ MemoryOK'
  <2>1. StoreTypeOK' /\ RunTypeOK'
    BY <1>5 DEF Rot, StoreTypeOK, RunTypeOK, runVars, FileBytes
  <2>2. MemoryOK'
    BY <1>5 DEF Rot, runVars, MemoryOK, Listed, Archived, KeyOf
  <2>3. QED
    BY <1>5, <2>1, <2>2, DeviceKept, FaultOK DEF Rot
<1>6. QED
  BY <1>1, <1>2, <1>3, <1>4, <1>5

\* Every step keeps the types and the shape of the run's memory.
LEMMA NextOK ==
  ASSUME TypeOK, MemoryOK, [Next]_vars PROVE TypeOK' /\ MemoryOK'
<1>1. CASE DeviceStep
  BY <1>1, DeviceOK
<1>2. CASE SyncStep \/ SyncFault
  BY <1>2, SyncPlanningOK, SyncFetchOK, SyncRecordOK, SyncCatchUpOK, SyncStoreOK
  DEF SyncStep, SyncFault
<1>3. CASE ParseRun \/ ParseMisreads \/ ParseFails \/ ParseCrash
  BY <1>3, ParseOK
<1>4. CASE PassStep \/ PassFault
  BY <1>4, PassReadOK, PassShotOK, PassOutcomeOK DEF PassStep, PassFault
<1>5. CASE StartCycle \/ Profiles \/ ProfilesFail \/ Crash \/ Rot
  BY <1>5, DaemonOK
<1>6. CASE UNCHANGED vars
  BY <1>6 DEF vars, deviceVars, storeVars, runVars, histVars, TypeOK, DeviceTypeOK, ArchiveTypeOK,
              StoreTypeOK, RunTypeOK, HistTypeOK, MemoryOK, Listed, Archived, KeyOf
<1>7. QED
  BY <1>1, <1>2, <1>3, <1>4, <1>5, <1>6 DEF Next, CycleStep, CycleFault

\* The daemon never stores a value of the wrong kind and never works on a shot it
\* has no index entry or record for, whatever the device does and wherever a
\* request, a write or the process fails.
THEOREM TypeCorrect == Spec => [](TypeOK /\ MemoryOK)
<1>1. Init => TypeOK /\ MemoryOK
  BY InitOK
<1>2. (TypeOK /\ MemoryOK) /\ [Next]_vars => (TypeOK /\ MemoryOK)'
  BY NextOK
<1>3. QED
  BY <1>1, <1>2, PTL DEF Spec

\* A step of the archiver leaves the device alone, apart from the tombstone of
\* a deletion.
LEMMA DeviceAlone ==
  ASSUME [Next]_vars
  PROVE  DeviceStep \/ (\E i \in Ids : PassSend(i)) \/ UNCHANGED deviceVars
<1>1. CASE SyncStep \/ SyncFault
  BY <1>1
  DEF SyncStep, SyncFault, SyncIndex, SyncDrift, SyncEpoch, SyncPlan, SyncFetch, SyncFetchGone,
      SyncUnlinkStale, SyncRecord, SyncFetchesDone, ReconcileRating, ReconcileDone, NotesFetch,
      StoreSkip, StoreWrite, StoreSave, SyncDone, SyncWriteLies, StoreFails, NotesDeferred,
      SyncFails
<1>2. CASE ParseRun \/ ParseMisreads \/ ParseFails \/ ParseCrash
  BY <1>2 DEF ParseRun, ParseMisreads, ParseFails, ParseCrash, ParseAll
<1>3. CASE PassStep \/ PassFault
  BY <1>3
  DEF PassStep, PassFault, PassSelect, PassDocs, PassVerify, PassVerified, PassConfirm, PassSave,
      PassVerifyFails, PassRefused, PassFails
<1>4. CASE StartCycle \/ Profiles \/ ProfilesFail \/ Crash \/ Rot
  BY <1>4 DEF StartCycle, Profiles, ProfilesFail, Crash, Rot
<1>5. QED
  BY <1>1, <1>2, <1>3, <1>4 DEF Next, CycleStep, CycleFault, vars

\* With one life there is one key per id.
LEMMA KeyOfId ==
  ASSUME TypeOK, OneLife, NEW k \in Key, NEW i \in Ids
  PROVE  k = KeyOf(i) <=> k[2] = i
<1>1. dev.epoch = 1 /\ k[1] = 1 /\ k = <<k[1], k[2]>>
  BY DEF TypeOK, ArchiveTypeOK, StoreTypeOK, Ledger, Epoch, Key, OneLife
<1>2. QED
  BY <1>1 DEF KeyOf

-----------------------------------------------------------------------------
\* What a step may write of the manifest: the shot that is recorded, the
\* notes hash that is saved, and fields that do not name the archived bytes.
SameRecord(k) ==
  /\ shots'[k].ts = shots[k].ts /\ shots'[k].sha = shots[k].sha
  /\ shots'[k].verified = shots[k].verified /\ shots'[k].accepted = shots[k].accepted
  /\ shots'[k].json = shots[k].json \/ \E i \in Ids : StoreSave(i) /\ k = KeyOf(i)

SameRecords ==
  \A k \in Key : (Archived(k)' <=> Archived(k)) /\ (Archived(k) => SameRecord(k))

\* Only a download that is recorded changes which shots are archived and the
\* bytes their records name.
LEMMA RecordsKept ==
  ASSUME TypeOK, MemoryOK, [Next]_vars PROVE SyncRecord \/ SameRecords
<1> USE DEF TypeOK, ArchiveTypeOK
<1>1. CASE UNCHANGED shots
  BY <1>1 DEF Archived, SameRecords, SameRecord
<1>2. CASE SyncPlan
  <2>1. \A k \in Key : Archived(k) =>
          LET r == [shots[k] EXCEPT !.tomb = TRUE]
          IN  r \in Record /\ r.ts = shots[k].ts /\ r.sha = shots[k].sha
              /\ r.verified = shots[k].verified /\ r.accepted = shots[k].accepted
              /\ r.json = shots[k].json
    BY DEF StoreTypeOK, Archived, Record
  <2>2. QED
    BY <1>2, <2>1, AbsentIsApart DEF SyncPlan, Archived, StoreTypeOK, Tombstoned, SameRecords,
                                    SameRecord
<1>3. ASSUME NEW i \in Ids, ReconcileRating(i) PROVE SameRecords
  <2>1. KeyOf(i) \in Key /\ shots[KeyOf(i)] \in Record
    BY <1>3, KeyTyped DEF ReconcileRating, RatingDrifted, Verified, Archived, StoreTypeOK
  <2> DEFINE r == [shots[KeyOf(i)] EXCEPT !.rating = EntryAt(i).rating]
  <2>2. shots' = [shots EXCEPT ![KeyOf(i)] = r]
    BY <1>3 DEF ReconcileRating
  <2>3. EntryAt(i).rating \in Nat
    BY <1>3 DEF ReconcileRating, RatingDrifted, ListedLive, Listed, EntryAt, MemoryOK,
                IndexLabel, RunTypeOK, IndexType, IndexEntryType
  <2>4. r \in Record /\ r.ts = shots[KeyOf(i)].ts /\ r.sha = shots[KeyOf(i)].sha
        /\ r.verified = shots[KeyOf(i)].verified /\ r.accepted = shots[KeyOf(i)].accepted
        /\ r.json = shots[KeyOf(i)].json
    BY <2>1, <2>3 DEF Record
  <2>5. QED
    BY <2>1, <2>2, <2>4, AbsentIsApart DEF Archived, StoreTypeOK, SameRecords, SameRecord
<1>4. ASSUME NEW i \in Ids, StoreSave(i) PROVE SameRecords
  <2>1. KeyOf(i) \in Key /\ shots[KeyOf(i)] \in Record
    BY <1>4, KeyTyped DEF StoreSave, FirstOf, MemoryOK, Archived, StoreTypeOK
  <2> DEFINE r == [shots[KeyOf(i)] EXCEPT !.json = docs[i]]
  <2>2. shots' = [shots EXCEPT ![KeyOf(i)] = r]
    BY <1>4 DEF StoreSave
  <2>3. r \in Record /\ r.ts = shots[KeyOf(i)].ts /\ r.sha = shots[KeyOf(i)].sha
        /\ r.verified = shots[KeyOf(i)].verified /\ r.accepted = shots[KeyOf(i)].accepted
    BY <2>1 DEF Record, RunTypeOK
  <2>4. QED
    BY <1>4, <2>1, <2>2, <2>3, AbsentIsApart DEF Archived, StoreTypeOK, SameRecords, SameRecord
<1>5. ASSUME NEW unreadable, ParseAll(unreadable) PROVE SameRecords
  <2>1. \A k \in Key : Archived(k) =>
          LET r == [shots[k] EXCEPT !.parse = Verdict(k, unreadable)]
          IN  r \in Record /\ r.ts = shots[k].ts /\ r.sha = shots[k].sha
              /\ r.verified = shots[k].verified /\ r.accepted = shots[k].accepted
              /\ r.json = shots[k].json
    BY DEF StoreTypeOK, Archived, Record, Verdict
  <2>2. QED
    BY <1>5, <2>1, AbsentIsApart DEF ParseAll, ParsedShots, Archived, SameRecords, SameRecord
<1>6. CASE PassSave
  <2>1. \A i \in picked : Archived(KeyOf(i))
    BY DEF MemoryOK
  <2>2. \A k \in Key : Archived(k) =>
          LET r == [shots[k] EXCEPT !.gone = TRUE, !.tomb = TRUE]
          IN  r \in Record /\ r.ts = shots[k].ts /\ r.sha = shots[k].sha
              /\ r.verified = shots[k].verified /\ r.accepted = shots[k].accepted
              /\ r.json = shots[k].json
    BY DEF StoreTypeOK, Archived, Record
  <2>3. ASSUME NEW k \in Key
        PROVE  (Archived(k)' <=> Archived(k)) /\ (Archived(k) => SameRecord(k))
    <3>1. CASE k \in {KeyOf(i) : i \in picked}
      <4>1. shots'[k] = [shots[k] EXCEPT !.gone = TRUE, !.tomb = TRUE]
        BY <1>6, <3>1 DEF PassSave
      <4>2. Archived(k)
        BY <2>1, <3>1 DEF Archived
      <4>3. QED
        BY <2>2, <4>1, <4>2, AbsentIsApart DEF Archived, SameRecord
    <3>2. CASE k \notin {KeyOf(i) : i \in picked}
      <4>1. shots'[k] = shots[k]
        BY <1>6, <3>2 DEF PassSave
      <4>2. QED
        BY <4>1 DEF Archived, SameRecord
    <3>3. QED
      BY <3>1, <3>2
  <2>4. QED
    BY <2>3 DEF SameRecords
<1>7. CASE DeviceStep
  BY <1>1, <1>7 DEF DeviceStep, storeVars
<1>8. CASE SyncStep \/ SyncFault
  BY <1>1, <1>2, <1>3, <1>4, <1>8
  DEF SyncStep, SyncFault, SyncIndex, SyncDrift, SyncEpoch, SyncFetch, SyncFetchGone,
      SyncUnlinkStale, SyncFetchesDone, ReconcileDone, NotesFetch, StoreSkip, StoreWrite,
      SyncDone, SyncWriteLies, StoreFails, NotesDeferred, SyncFails, storeVars
<1>9. CASE ParseRun \/ ParseMisreads \/ ParseFails \/ ParseCrash
  BY <1>1, <1>5, <1>9 DEF ParseRun, ParseMisreads, ParseFails, ParseCrash
<1>10. CASE PassStep \/ PassFault
  BY <1>1, <1>6, <1>10
  DEF PassStep, PassFault, PassSelect, PassDocs, PassVerify, PassSend, PassVerified, PassConfirm,
      PassVerifyFails, PassRefused, PassFails, storeVars
<1>11. CASE StartCycle \/ Profiles \/ ProfilesFail \/ Crash \/ Rot
  BY <1>1, <1>11 DEF StartCycle, Profiles, ProfilesFail, Crash, Rot, storeVars
<1>12. CASE UNCHANGED vars
  BY <1>1, <1>12 DEF vars, storeVars
<1>13. QED
  BY <1>7, <1>8, <1>9, <1>10, <1>11, <1>12 DEF Next, CycleStep, CycleFault

\* Only the epoch step writes the epoch and the watermark.
LEMMA LedgerWritten ==
  ASSUME TypeOK, [Next]_vars
  PROVE  SyncEpoch \/ (dev'.epoch = dev.epoch /\ dev'.watermark = dev.watermark)
<1> DEFINE Same == dev'.epoch = dev.epoch /\ dev'.watermark = dev.watermark
<1> dev \in Ledger
  BY DEF TypeOK, ArchiveTypeOK, StoreTypeOK
<1>1. CASE DeviceStep \/ UNCHANGED vars
  BY <1>1 DEF DeviceStep, vars, storeVars
<1>2. CASE SyncDrift
  BY <1>2 DEF SyncDrift, Ledger
<1>3. CASE SyncStep \/ SyncFault
  BY <1>2, <1>3
  DEF SyncStep, SyncFault, SyncIndex, SyncPlan, SyncFetch, SyncFetchGone, SyncUnlinkStale,
      SyncRecord, SyncFetchesDone, ReconcileRating, ReconcileDone, NotesFetch, StoreSkip,
      StoreWrite, StoreSave, SyncDone, SyncWriteLies, StoreFails, NotesDeferred, SyncFails,
      storeVars
<1>4. ASSUME NEW unreadable, ParseAll(unreadable) PROVE Same
  BY <1>4 DEF ParseAll, ParsedLedger, Ledger
<1>5. CASE ParseRun \/ ParseMisreads \/ ParseFails \/ ParseCrash
  BY <1>4, <1>5 DEF ParseRun, ParseMisreads, ParseFails, ParseCrash
<1>6. CASE PassStep \/ PassFault
  BY <1>6
  DEF PassStep, PassFault, PassSelect, PassDocs, PassVerify, PassSend, PassVerified, PassConfirm,
      PassSave, PassVerifyFails, PassRefused, PassFails, storeVars
<1>7. CASE StartCycle \/ Profiles \/ ProfilesFail \/ Crash \/ Rot
  BY <1>7 DEF StartCycle, Profiles, ProfilesFail, Crash, Rot, storeVars
<1>8. QED
  BY <1>1, <1>3, <1>5, <1>6, <1>7 DEF Next, CycleStep, CycleFault

\* A shot archived in another epoch than the present one was archived before it.
EpochsPast == \A k \in Key : Archived(k) => k[1] <= dev.epoch

LEMMA EpochsStayPast ==
  ASSUME TypeOK, MemoryOK, EpochsPast, [Next]_vars
  PROVE  /\ EpochsPast' /\ dev.epoch <= dev'.epoch
         /\ SyncEpoch \/ dev'.epoch = dev.epoch
<1>1. dev.epoch \in Nat /\ \A k \in Key : k[1] \in Nat
  BY DEF TypeOK, ArchiveTypeOK, StoreTypeOK, Ledger, Epoch, Key
<1>2. /\ dev.epoch <= dev'.epoch /\ dev'.epoch \in Nat
      /\ SyncEpoch \/ dev'.epoch = dev.epoch
  <2>1. CASE SyncEpoch
    <3>1. dev'.epoch = CurrentEpoch
      BY <2>1 DEF SyncEpoch, TypeOK, ArchiveTypeOK, StoreTypeOK, Ledger
    <3>2. QED
      BY <1>1, <2>1, <3>1 DEF CurrentEpoch
  <2>2. QED
    BY <1>1, <2>1, LedgerWritten
<1>3. ASSUME NEW k \in Key, Archived(k)' PROVE k[1] <= dev.epoch
  <2>1. CASE SameRecords
    BY <1>3, <2>1 DEF SameRecords, EpochsPast
  <2>2. CASE SyncRecord
    <3>1. KeyOf(cur.id) \in Key
      BY <2>2, RecordTyped DEF SyncRecord
    <3>2. k = KeyOf(cur.id) \/ Archived(k)
      BY <1>3, <2>2, <3>1 DEF SyncRecord, Archived, TypeOK, ArchiveTypeOK, StoreTypeOK
    <3>3. QED
      BY <1>1, <3>2 DEF EpochsPast, KeyOf
  <2>3. QED
    BY <2>1, <2>2, RecordsKept
<1>4. QED
  BY <1>1, <1>2, <1>3 DEF EpochsPast
=============================================================================
