---------------------------- MODULE VaultProofs ----------------------------
(***************************************************************************)
(* The daemon implements Vault: what phase 2 deleted was archived as the   *)
(* device had it, and stays archived.  For every value of the constants,   *)
(* in the quiet world of DeletionProofs and with one life of the counter   *)
(* (with a second one it does not hold: the run VRawCollides).             *)
(***************************************************************************)
EXTENDS DeletionProofs, CaptureProofs

PlanLabel == {"drift", "epoch", "plan"}

\* A deleted shot is archived, is gone from the device for good, and no
\* running sync plans or downloads it.
ReleasedOK ==
  \A k \in erased :
    /\ Archived(k)
    /\ k[2] < nextId /\ ~Live(k[2])
    /\ pc \in PlanLabel => ~ListedLive(k[2])
    /\ pc \in FetchLabel => k[2] \notin todo

\* An archived shot stays in the manifest, and its file where it is, unless it
\* is being archived anew.
RecordStays(k) ==
  Archived(k) => /\ Archived(k)'
                 /\ shots'[k].ts = shots[k].ts \/ (SyncRecord /\ k = KeyOf(cur.id))

\* No step forgets a shot.
LEMMA RecordsStay ==
  ASSUME TypeOK, MemoryOK, [Next]_vars PROVE \A k \in Key : RecordStays(k)
<1> DEFINE Stay == \A k \in Key : RecordStays(k)
<1> USE DEF TypeOK, ArchiveTypeOK
<1>1. CASE UNCHANGED shots
  BY <1>1 DEF Archived, RecordStays
<1>2. CASE SyncPlan
  <2>1. \A k \in Key : Archived(k) =>
          LET r == [shots[k] EXCEPT !.tomb = TRUE] IN r \in Record /\ r.ts = shots[k].ts
    BY DEF StoreTypeOK, Archived, Record
  <2>2. QED
    BY <1>2, <2>1, AbsentIsApart DEF SyncPlan, Archived, RecordStays
<1>3. CASE SyncRecord
  <2>1. KeyOf(cur.id) \in Key /\ NewRecord # NONE
    BY <1>3, RecordTyped DEF SyncRecord
  <2>2. QED
    BY <1>3, <2>1 DEF SyncRecord, Archived, StoreTypeOK, RecordStays
<1>4. ASSUME NEW i \in Ids, ReconcileRating(i) PROVE Stay
  <2>1. KeyOf(i) \in Key /\ shots[KeyOf(i)] \in Record
    BY <1>4, KeyTyped DEF ReconcileRating, RatingDrifted, Verified, Archived, StoreTypeOK
  <2> DEFINE r == [shots[KeyOf(i)] EXCEPT !.rating = EntryAt(i).rating]
  <2>2. shots' = [shots EXCEPT ![KeyOf(i)] = r]
    BY <1>4 DEF ReconcileRating
  <2>3. r # NONE /\ r.ts = shots[KeyOf(i)].ts
    <3>1. EntryAt(i).rating \in Nat
      BY <1>4 DEF ReconcileRating, RatingDrifted, ListedLive, Listed, EntryAt, MemoryOK,
                  IndexLabel, RunTypeOK, IndexType, IndexEntryType
    <3>2. QED
      BY <2>1, <3>1, AbsentIsApart DEF Record
  <2>4. QED
    BY <2>1, <2>2, <2>3 DEF Archived, StoreTypeOK, RecordStays
<1>5. ASSUME NEW i \in Ids, StoreSave(i) PROVE Stay
  <2>1. KeyOf(i) \in Key /\ shots[KeyOf(i)] \in Record
    BY <1>5, KeyTyped DEF StoreSave, FirstOf, MemoryOK, Archived, StoreTypeOK
  <2> DEFINE r == [shots[KeyOf(i)] EXCEPT !.json = docs[i]]
  <2>2. shots' = [shots EXCEPT ![KeyOf(i)] = r]
    BY <1>5 DEF StoreSave
  <2>3. r # NONE /\ r.ts = shots[KeyOf(i)].ts
    BY <2>1, AbsentIsApart DEF Record, RunTypeOK
  <2>4. QED
    BY <2>1, <2>2, <2>3 DEF Archived, StoreTypeOK, RecordStays
<1>6. ASSUME NEW unreadable, ParseAll(unreadable) PROVE Stay
  <2>1. \A k \in Key : Archived(k) =>
          LET r == [shots[k] EXCEPT !.parse = Verdict(k, unreadable)]
          IN  r # NONE /\ r.ts = shots[k].ts
    BY AbsentIsApart DEF StoreTypeOK, Archived, Record, Verdict
  <2>2. QED
    BY <1>6, <2>1 DEF ParseAll, ParsedShots, Archived, RecordStays
<1>7. CASE PassSave
  <2>1. \A k \in Key : Archived(k) =>
          LET r == [shots[k] EXCEPT !.gone = TRUE, !.tomb = TRUE]
          IN  r # NONE /\ r.ts = shots[k].ts
    BY AbsentIsApart DEF StoreTypeOK, Archived, Record
  <2>2. QED
    BY <1>7, <2>1 DEF PassSave, Archived, RecordStays
<1>8. CASE DeviceStep
  BY <1>1, <1>8 DEF DeviceStep, storeVars
<1>9. CASE SyncStep \/ SyncFault
  BY <1>1, <1>2, <1>3, <1>4, <1>5, <1>9
  DEF SyncStep, SyncFault, SyncIndex, SyncDrift, SyncEpoch, SyncFetch, SyncFetchGone,
      SyncUnlinkStale, SyncFetchesDone, ReconcileDone, NotesFetch, StoreSkip, StoreWrite,
      SyncDone, SyncWriteLies, StoreFails, NotesDeferred, SyncFails, storeVars
<1>10. CASE ParseRun \/ ParseMisreads \/ ParseFails \/ ParseCrash
  BY <1>1, <1>6, <1>10 DEF ParseRun, ParseMisreads, ParseFails, ParseCrash
<1>11. CASE PassStep \/ PassFault
  BY <1>1, <1>7, <1>11
  DEF PassStep, PassFault, PassSelect, PassDocs, PassVerify, PassSend, PassVerified, PassConfirm,
      PassVerifyFails, PassRefused, PassFails, storeVars
<1>12. CASE StartCycle \/ Profiles \/ ProfilesFail \/ Crash \/ Rot
  BY <1>1, <1>12 DEF StartCycle, Profiles, ProfilesFail, Crash, Rot, storeVars
<1>13. CASE UNCHANGED vars
  BY <1>1, <1>13 DEF vars, storeVars
<1>14. QED
  BY <1>8, <1>9, <1>10, <1>11, <1>12, <1>13 DEF Next, CycleStep, CycleFault

\* Only a deletion adds to the deleted shots.
LEMMA ErasedBySend ==
  ASSUME [Next]_vars
  PROVE  (\E i \in Ids : PassSend(i) /\ Live(i)) \/ UNCHANGED erased
<1>1. CASE DeviceStep \/ UNCHANGED vars
  BY <1>1 DEF DeviceStep, vars, histVars
<1>2. CASE SyncStep \/ SyncFault
  BY <1>2
  DEF SyncStep, SyncFault, SyncIndex, SyncDrift, SyncEpoch, SyncPlan, SyncFetch, SyncFetchGone,
      SyncUnlinkStale, SyncRecord, SyncFetchesDone, ReconcileRating, ReconcileDone, NotesFetch,
      StoreSkip, StoreWrite, StoreSave, SyncDone, SyncWriteLies, StoreFails, NotesDeferred,
      SyncFails, histVars
<1>3. CASE ParseRun \/ ParseMisreads \/ ParseFails \/ ParseCrash
  BY <1>3 DEF ParseRun, ParseMisreads, ParseFails, ParseCrash, histVars
<1>4. CASE PassStep \/ PassFault
  BY <1>4
  DEF PassStep, PassFault, PassSelect, PassDocs, PassVerify, PassSend, PassVerified, PassConfirm,
      PassSave, PassVerifyFails, PassRefused, PassFails, histVars
<1>5. CASE StartCycle \/ Profiles \/ ProfilesFail \/ Crash \/ Rot
  BY <1>5 DEF StartCycle, Profiles, ProfilesFail, Crash, Rot, histVars
<1>6. QED
  BY <1>1, <1>2, <1>3, <1>4, <1>5 DEF Next, CycleStep, CycleFault

\* A sync plans from the index it read when it started.
LEMMA PlanReached ==
  ASSUME [Next]_vars, pc' \in PlanLabel
  PROVE  SyncIndex \/ (pc \in PlanLabel /\ UNCHANGED index)
<1>1. CASE DeviceStep \/ UNCHANGED vars
  BY <1>1 DEF DeviceStep, vars, runVars
<1>2. CASE SyncStep \/ SyncFault
  BY <1>2
  DEF SyncStep, SyncFault, SyncDrift, SyncEpoch, SyncPlan, SyncFetch, SyncFetchGone,
      SyncUnlinkStale, SyncRecord, SyncFetchesDone, ReconcileRating, ReconcileDone, NotesFetch,
      StoreSkip, StoreWrite, StoreSave, SyncDone, SyncWriteLies, StoreFails, NotesDeferred,
      SyncFails, GoTo, runVars, PlanLabel
<1>3. CASE ParseRun \/ ParseMisreads \/ ParseFails \/ ParseCrash
  BY <1>3 DEF ParseRun, ParseMisreads, ParseFails, ParseCrash, ParseAll, GoTo, PlanLabel
<1>4. CASE PassStep \/ PassFault
  BY <1>4
  DEF PassStep, PassFault, PassSelect, PassDocs, PassVerify, PassSend, PassVerified, PassConfirm,
      PassSave, PassVerifyFails, PassRefused, PassFails, GoTo, PlanLabel
<1>5. CASE StartCycle \/ Profiles \/ ProfilesFail \/ Crash \/ Rot
  BY <1>5 DEF StartCycle, Profiles, ProfilesFail, Crash, Rot, GoTo, runVars, PlanLabel
<1>6. QED
  BY <1>1, <1>2, <1>3, <1>4, <1>5 DEF Next, CycleStep, CycleFault

\* In one life of the counter a shot that is gone does not come back.
LEMMA GoneForGood ==
  ASSUME TypeOK, OneLife, life = 1, [Next]_vars
  PROVE  /\ life' = 1
         /\ \A i \in Ids : i < nextId /\ ~Live(i) => i < nextId' /\ ~Live(i)'
<1> DEFINE Gone == life' = 1 /\ \A i \in Ids : i < nextId /\ ~Live(i) => i < nextId' /\ ~Live(i)'
<1> USE DEF TypeOK, DeviceTypeOK
<1>1. CASE UNCHANGED deviceVars
  BY <1>1 DEF deviceVars, Live
<1>2. ASSUME NEW i \in Ids, PassSend(i) PROVE Gone
  BY <1>2 DEF PassSend, Live, Entry
<1>3. CASE RecordShot
  <2>1. nextId' = nextId + 1 /\ nextId \in Nat /\ life' = life
    BY <1>3 DEF RecordShot
  <2>2. \A i \in Ids : i < nextId => entries'[i] = entries[i] /\ i < nextId'
    BY <1>3, <2>1 DEF RecordShot, Ids
  <2>3. QED
    BY <2>1, <2>2 DEF Live
<1>4. ASSUME NEW j \in Ids, GrowFlush(j) \/ FinishFlush(j) \/ DamageFlush(j) PROVE Gone
  BY <1>4 DEF GrowFlush, FinishFlush, DamageFlush, Live
<1>5. ASSUME NEW j \in Ids, SaveNotes(j) \/ RemoveShot(j) \/ DropEntry(j) PROVE Gone
  BY <1>5 DEF SaveNotes, RemoveShot, DropEntry, Live, Entry
<1>6. ~Reset
  BY DEF Reset, OneLife
<1>7. CASE FlashFirmware \/ Tick
  BY <1>7 DEF FlashFirmware, Tick, Live
<1>8. CASE DeviceStep
  BY <1>3, <1>4, <1>5, <1>6, <1>7, <1>8 DEF DeviceStep, Flush
<1>9. QED
  BY <1>1, <1>2, <1>8, DeviceAlone

\* In one life a key is the key of its id.
LEMMA OneKey ==
  ASSUME TypeOK, OneLife, NEW k \in Key
  PROVE  k[2] \in Ids /\ k[1] = 1 /\ KeyOf(k[2]) = k
BY DEF TypeOK, ArchiveTypeOK, StoreTypeOK, Ledger, Epoch, Key, OneLife, KeyOf

\* Every step keeps deleted shots archived, gone and out of the running sync.
LEMMA ReleasedKept ==
  ASSUME TypeOK, MemoryOK, PassOK, OneLife, life = 1, ReleasedOK, [Next]_vars
  PROVE  ReleasedOK'
<1>1. ASSUME NEW k \in erased
      PROVE  Archived(k)' /\ k[2] < nextId' /\ ~Live(k[2])'
  <2>1. k \in Key /\ k[2] \in Ids
    BY OneKey DEF TypeOK, ArchiveTypeOK, HistTypeOK
  <2>2. QED
    BY <2>1, RecordsStay, GoneForGood DEF ReleasedOK, RecordStays
<1>2. CASE UNCHANGED erased
  <2>1. ASSUME NEW k \in erased, pc' \in PlanLabel PROVE ~ListedLive(k[2])'
    <3>1. CASE SyncIndex
      <4>1. k[2] \in Ids /\ ~Live(k[2]) /\ index' = Index
        BY <2>1, <3>1, OneKey
        DEF TypeOK, ArchiveTypeOK, HistTypeOK, ReleasedOK, SyncIndex, GoTo, PlanLabel
      <4>2. QED
        BY <4>1 DEF ListedLive, Listed, Index, IndexEntry, Live
    <3>2. CASE pc \in PlanLabel /\ UNCHANGED index
      BY <3>2 DEF ReleasedOK, ListedLive, Listed
    <3>3. QED
      BY <2>1, <3>1, <3>2, PlanReached
  <2>2. ASSUME NEW k \in erased, pc' \in FetchLabel PROVE k[2] \notin todo'
    <3>1. CASE SyncPlan
      BY <3>1 DEF SyncPlan, NeedsFetch, ReleasedOK, PlanLabel
    <3>2. CASE SyncUnlinkStale \/ SyncRecord \/ \E i \in Ids : SyncFetch(i)
      BY <3>2 DEF SyncUnlinkStale, SyncRecord, SyncFetch, ReleasedOK, FetchLabel
    <3>3. CASE UNCHANGED <<pc, todo, shots, dev>>
      BY <2>2, <3>3 DEF ReleasedOK
    <3>4. QED
      BY <2>2, <3>1, <3>2, <3>3, FetchReached
  <2>3. QED
    BY <1>1, <1>2, <2>1, <2>2 DEF ReleasedOK
<1>3. ASSUME NEW i \in Ids, PassSend(i), Live(i) PROVE ReleasedOK'
  <2>1. pc' = "send" /\ i \in picked /\ erased' = erased \cup {KeyOf(i)}
    BY <1>3 DEF PassSend, PassOK, OldestOf
  <2>2. KeyOf(i)[2] = i /\ i < nextId'
    BY <1>3, <2>1 DEF PassSend, PassOK, Proven, Chosen, KeyOf
  <2>3. ~Live(i)'
    BY <1>3 DEF PassSend, Live, TypeOK, DeviceTypeOK, Entry
  <2>4. ASSUME NEW k, k = KeyOf(i) PROVE Archived(k)'
    BY <1>3, <2>1, <2>4 DEF PassSend, PassOK, Proven, Chosen, Verified, Archived, storeVars
  <2>5. \A k \in erased' : Archived(k)' /\ k[2] < nextId' /\ ~Live(k[2])'
    BY <1>1, <2>1, <2>2, <2>3, <2>4
  <2>6. QED
    BY <2>1, <2>5 DEF ReleasedOK, PlanLabel, FetchLabel
<1>4. QED
  BY <1>2, <1>3, ErasedBySend

\* No step touches the raw file of a deleted shot; it may rot.
LEMMA VaultStays ==
  ASSUME TypeOK, MemoryOK, OneLife, ReleasedOK, [Next]_vars, NEW k \in erased
  PROVE  InVault(k)' \in {InVault(k), TORN}
<1> USE DEF TypeOK, ArchiveTypeOK
<1>1. k \in Key /\ Archived(k) /\ Archived(k)'
  BY RecordsStay DEF HistTypeOK, ReleasedOK, RecordStays
<1>2. shots'[k].ts = shots[k].ts
  <2>1. ASSUME SyncRecord PROVE k # KeyOf(cur.id)
    <3>1. k[2] \notin todo /\ cur.id \in todo
      BY <2>1 DEF SyncRecord, MemoryOK, ReleasedOK, FetchLabel
    <3>2. QED
      BY <3>1 DEF KeyOf
  <2>2. QED
    BY <1>1, <2>1, RecordsStay DEF RecordStays
<1>3. raw'[PathOf(shots[k].ts, k[2])] \in {raw[PathOf(shots[k].ts, k[2])], TORN}
  <2> PathOf(shots[k].ts, k[2]) \in Path
    BY <1>1, PathTyped DEF StoreTypeOK, Archived, Record, Key
  <2>1. ASSUME NEW i \in Ids, SyncFetch(i) \/ SyncWriteLies(i)
        PROVE  raw'[PathOf(shots[k].ts, k[2])] = raw[PathOf(shots[k].ts, k[2])]
    <3>1. k[2] # i
      BY <2>1 DEF SyncFetch, SyncWriteLies, OldestOf, ReleasedOK, FetchLabel
    <3>2. PathOf(shots[k].ts, k[2]) # SlogPath(i)
      BY <3>1 DEF PathOf, SlogPath
    <3>3. QED
      BY <2>1, <3>2 DEF SyncFetch, SyncWriteLies, StoreTypeOK
  <2>2. CASE Rot
    BY <2>2 DEF Rot, StoreTypeOK
  <2>3. CASE UNCHANGED raw
    BY <2>3
  <2>4. QED
    BY <2>1, <2>2, <2>3, RawWritten
<1>4. QED
  BY <1>1, <1>2, <1>3 DEF InVault, RawOf

\* The mapped copies are copies of Vault.
CopiesOK ==
  /\ [k \in Key |-> OnDevice(k)] \in [Key -> FileBytes]
  /\ [k \in Key |-> InVault(k)] \in [Key -> FileBytes]

\* In every well-typed state they are.
LEMMA CopiesTyped == ASSUME TypeOK PROVE CopiesOK
<1> USE DEF TypeOK, ArchiveTypeOK, StoreTypeOK, FileBytes
<1>1. ASSUME NEW k \in Key PROVE OnDevice(k) \in FileBytes
  BY SlogTyped DEF OnDevice, Key
<1>2. ASSUME NEW k \in Key PROVE InVault(k) \in FileBytes
  <2>1. ASSUME Archived(k) PROVE PathOf(shots[k].ts, k[2]) \in Path
    BY <2>1, PathTyped DEF Archived, Record, Key
  <2>2. QED
    BY <2>1 DEF InVault, RawOf
<1>3. QED
  BY <1>1, <1>2 DEF CopiesOK

\* A deletion is the release of a shot whose copies agree.
LEMMA SendReleases ==
  ASSUME TypeOK, OneLife, life = 1, PassOK, NEW i \in Ids, PassSend(i), Live(i)
  PROVE  Held!Release(KeyOf(i))
<1> DEFINE key == KeyOf(i)
<1>1. key \in Key /\ key[1] = 1 /\ key[2] = i
  BY KeyTyped DEF KeyOf, TypeOK, ArchiveTypeOK, StoreTypeOK, Ledger, Epoch, OneLife
<1>2. OnDevice(key) = Slog(i) /\ Slog(i) # NONE
  BY <1>1, SlogTyped, AbsentIsApart DEF OnDevice
<1>3. InVault(key) = Slog(i)
  BY DEF InVault, PassSend, PassOK, OldestOf, Proven, Chosen, Verified
<1>4. UNCHANGED <<life, raw, shots>> /\ erased' = erased \cup {key}
  BY DEF PassSend, storeVars
<1>5. \A k \in Key : OnDevice(k)' = IF k = key THEN NONE ELSE OnDevice(k)
  <2>1. \A j \in Ids : j # i => entries'[j] = entries[j]
    BY DEF PassSend, TypeOK, DeviceTypeOK
  <2>2. ~Live(i)'
    BY DEF PassSend, Live, TypeOK, DeviceTypeOK, Entry
  <2>3. ASSUME NEW k \in Key, k # key PROVE OnDevice(k)' = OnDevice(k)
    <3>1. k[2] \in Ids /\ k[2] # i
      BY <1>1, <2>3, OneKey
    <3>2. QED
      BY <1>4, <2>1, <3>1 DEF OnDevice, Live, Slog
  <2>4. QED
    BY <1>1, <2>2, <2>3 DEF OnDevice
<1>6. \A k \in Key : InVault(k)' = InVault(k)
  BY <1>4 DEF InVault, Archived, RawOf
<1>7. QED
  BY <1>1, <1>2, <1>3, <1>4, <1>5, <1>6 DEF Held!Release

\* The daemon implements Vault: a shot is deleted from the device only while the
\* raw file is its bytes, and after that no sync, heal, failure or
\* crash overwrites that file, forgets its record or brings the shot back.
THEOREM DeletedKept == ASSUME QuietWorld, OneLife PROVE Spec => KeepsDeleted
<1> DEFINE Inv == TypeOK /\ MemoryOK /\ FlushOK /\ PassOK /\ life = 1 /\ ReleasedOK
<1>1. Init => Inv
  <2>1. ASSUME Init PROVE FlushOK /\ PassOK /\ life = 1 /\ ReleasedOK
    BY <2>1 DEF Init, DeviceInit, ArchiveInit, FlushOK, PassOK, ReleasedOK
  <2>2. QED
    BY <2>1, InitOK
<1>2. Inv /\ [Next]_vars => Inv'
  BY QuietWorld, OneLife, NextOK, FlushKept, PassKept, GoneForGood, ReleasedKept
<1>3. Init => Held!Init
  <2>1. ASSUME Init, NEW k \in Key PROVE OnDevice(k) = NONE /\ InVault(k) = NONE
    BY <2>1 DEF Init, DeviceInit, ArchiveInit, OnDevice, InVault, Live, Archived, Key
  <2>2. QED
    BY <2>1 DEF Init, ArchiveInit, Held!Init
<1>4. Inv => CopiesOK
  BY CopiesTyped
<1>5. Inv /\ Inv' /\ CopiesOK' /\ [Next]_vars => [Held!Next]_Held!vars
  <2> SUFFICES ASSUME Inv, Inv', CopiesOK', [Next]_vars PROVE Held!Next
    OBVIOUS
  <2>1. ASSUME NEW i \in Ids, PassSend(i), Live(i) PROVE Held!Next
    BY <2>1, OneLife, SendReleases, KeyTyped DEF Held!Next
  <2>2. CASE UNCHANGED erased
    <3>1. ASSUME NEW k \in erased
          PROVE  k \in Key /\ OnDevice(k)' = NONE /\ InVault(k)' \in {InVault(k), TORN}
      BY <2>2, OneLife, VaultStays DEF TypeOK, ArchiveTypeOK, HistTypeOK, ReleasedOK, OnDevice
    <3>2. QED
      BY <2>2, <3>1 DEF CopiesOK, Held!Next, Held!GoOn
  <2>3. QED
    BY <2>1, <2>2, ErasedBySend
<1>6. QED
  BY <1>1, <1>2, <1>3, <1>4, <1>5, PTL DEF Spec, KeepsDeleted, Held!Spec

-----------------------------------------------------------------------------
\* What the manifest calls deleted is gone, what is about to be recorded as
\* deleted is gone, and the ids a running pass has read were handed out.
GoneOK ==
  /\ pc \in {"docs", "verify", "send"} => \A i \in Ids : Listed(i) => i < nextId
  /\ pc = "save" => \A i \in picked : i < nextId /\ ~Live(i)
  /\ \A k \in Key : Archived(k) /\ shots[k].gone => k[2] < nextId /\ ~Live(k[2])

\* Within one life of the counter the next id only grows.
LEMMA IdsGrow ==
  ASSUME TypeOK, OneLife, life = 1, [Next]_vars PROVE nextId \in Nat /\ nextId' \in Nat /\ nextId <= nextId'
<1>1. nextId \in Nat
  BY DEF TypeOK, DeviceTypeOK
<1>2. ~Reset
  BY DEF Reset, OneLife
<1>3. nextId' = nextId \/ nextId' = nextId + 1
  BY <1>2, DeviceAlone
  DEF deviceVars, DeviceStep, RecordShot, Flush, GrowFlush, FinishFlush, DamageFlush, SaveNotes,
      RemoveShot, DropEntry, FlashFirmware, Tick, PassSend
<1>4. QED
  BY <1>1, <1>3

\* The index of a pass lists only ids that were handed out.
LEMMA PassIndexKept ==
  ASSUME TypeOK, FlushOK, OneLife, life = 1, GoneOK, [Next]_vars,
         pc' \in {"docs", "verify", "send"}, NEW i \in Ids, Listed(i)'
  PROVE  i < nextId'
<1>1. CASE PassSelect
  <2>1. index' = Index /\ nextId' = nextId
    BY <1>1 DEF PassSelect, GoTo, deviceVars
  <2>2. entries[i] # NONE
    BY <2>1 DEF Listed, Index
  <2>3. QED
    BY <2>1, <2>2 DEF FlushOK
<1>2. CASE pc \in {"docs", "verify", "send"} /\ UNCHANGED index
  BY <1>2, IdsGrow DEF GoneOK, Listed, Ids
<1>3. PassSelect \/ (pc \in {"docs", "verify", "send"} /\ UNCHANGED index)
  BY PassReached
  DEF PassDocs, PassVerified, GoTo, PassVerify, PassVerifyFails, PassSend, PassRefused, DeviceStep,
      Rot, runVars, vars
<1>4. QED
  BY <1>1, <1>2, <1>3

\* The second index is believed only about ids that were handed out: a shot it
\* shows tombstoned, or no longer lists, is gone.
LEMMA SeenIsGone ==
  ASSUME TypeOK, FlushOK, GoneOK, pc = "send", NEW i \in Ids, SeenGone(i)
  PROVE  i < nextId /\ ~Live(i)
<1>1. CASE entries[i] = NONE
  BY <1>1 DEF SeenGone, Index, GoneOK, Live
<1>2. CASE entries[i] # NONE /\ Index.entries[i] # NONE
  BY <1>2 DEF SeenGone, Index, IndexEntry, FlushOK, Live
<1>3. CASE entries[i] # NONE /\ Index.entries[i] = NONE
  <2>1. IndexEntry(entries[i]) \in IndexEntryType
    BY <1>3, EntryDataTyped DEF TypeOK, DeviceTypeOK, Entry, IndexEntry, IndexEntryType, Stars, Day
  <2>2. QED
    BY <1>3, <2>1, AbsentIsApart DEF Index
<1>4. QED
  BY <1>1, <1>2, <1>3

\* Every step keeps what is called deleted gone.
LEMMA GoneStays ==
  ASSUME TypeOK, MemoryOK, FlushOK, OneLife, life = 1, GoneOK, [Next]_vars PROVE GoneOK'
<1> DEFINE Stays(i) == i < nextId /\ ~Live(i) => i < nextId' /\ ~Live(i)'
<1>1. \A i \in Ids : Stays(i)
  BY GoneForGood
<1>2. ASSUME pc' = "save", NEW i \in picked' PROVE i < nextId' /\ ~Live(i)'
  <2>1. picked \subseteq Ids
    BY DEF TypeOK, ArchiveTypeOK, RunTypeOK
  <2>2. CASE PassConfirm
    BY <1>1, <1>2, <2>1, <2>2, SeenIsGone DEF PassConfirm
  <2>3. CASE UNCHANGED <<pc, picked, dev>>
    BY <1>1, <1>2, <2>1, <2>3 DEF GoneOK
  <2>4. QED
    BY <1>2, <2>2, <2>3, SaveReached
<1>3. ASSUME NEW k \in Key, Archived(k)', shots'[k].gone PROVE k[2] < nextId' /\ ~Live(k[2])'
  <2>1. k[2] \in Ids
    BY OneKey
  <2>2. CASE Archived(k) /\ shots[k].gone
    BY <1>1, <2>1, <2>2 DEF GoneOK
  <2>3. ASSUME PassSave, ~(Archived(k) /\ shots[k].gone) PROVE k[2] < nextId /\ ~Live(k[2])
    <3>1. pc = "save" /\ (k \notin {KeyOf(i) : i \in picked} => shots'[k] = shots[k])
      BY <2>3, Zenon DEF PassSave
    <3>2. k \in {KeyOf(i) : i \in picked}
      BY <1>3, <2>3, <3>1 DEF Archived
    <3>3. k[2] \in picked
      BY <3>2 DEF KeyOf
    <3>4. QED
      BY <3>1, <3>3 DEF GoneOK
  <2>4. QED
    BY <1>1, <1>3, <2>1, <2>2, <2>3, GoneKept
<1>4. QED
  BY <1>2, <1>3, PassIndexKept DEF GoneOK

\* A record marked deleted is of a shot the device no longer shows: what the
\* second index confirmed stays gone, whatever fails, crashes or is pulled
\* between the confirmation, the save and the next cycle.
THEOREM GoneIsGone == ASSUME OneLife PROVE Spec => []GoneMeansGone
<1> DEFINE Inv == TypeOK /\ MemoryOK /\ FlushOK /\ life = 1 /\ GoneOK
<1>1. Init => Inv
  <2>1. ASSUME Init PROVE FlushOK /\ life = 1 /\ GoneOK
    BY <2>1 DEF Init, DeviceInit, ArchiveInit, FlushOK, GoneOK, Archived, Key
  <2>2. QED
    BY <2>1, InitOK
<1>2. Inv /\ [Next]_vars => Inv'
  BY OneLife, NextOK, FlushKept, GoneForGood, GoneStays
<1>3. Inv => GoneMeansGone
  <2>1. ASSUME Inv, NEW i \in Ids, Archived(KeyOf(i)), shots[KeyOf(i)].gone PROVE ~Live(i)
    <3>1. KeyOf(i) \in Key /\ KeyOf(i)[2] = i
      BY <2>1, KeyTyped DEF KeyOf
    <3>2. QED
      BY <2>1, <3>1 DEF GoneOK
  <2>2. QED
    BY <2>1 DEF GoneMeansGone
<1>4. QED
  BY <1>1, <1>2, <1>3, PTL DEF Spec

-----------------------------------------------------------------------------
\* What the archive knows of a corpse: the accepted files have no samples, and
\* the ones it vouches for that parsed clean and are still there have some.
CorpseOK ==
  \A k \in Key : Verified(k) =>
    /\ shots[k].accepted => ~HasSamples(shots[k].sha)
    /\ shots[k].parse = "ok" /\ RawOf(k) = shots[k].sha => HasSamples(shots[k].sha)

\* No step makes a corpse look like a shot: a fetch leaves the files of the
\* clean shots alone and its record waits for a parse, and a parse looks.
LEMMA CorpseKept ==
  ASSUME TypeOK, MemoryOK, FetchOK, CorpseOK, OneLife, [Next]_vars
  PROVE  CorpseOK'
<1> USE DEF TypeOK, ArchiveTypeOK
<1>1. CASE SyncRecord
  <2>1. KeyOf(cur.id) \in Key /\ raw' = raw
    BY <1>1, RecordTyped DEF SyncRecord
  <2>2. NewRecord.parse = "unknown" /\ NewRecord.sha = cur.slog
        /\ (NewRecord.accepted => ~HasSamples(cur.slog))
    BY DEF NewRecord, Accepted, Complete
  <2>3. \A k \in Key : shots'[k] = IF k = KeyOf(cur.id) THEN NewRecord ELSE shots[k]
    BY <1>1, <2>1 DEF SyncRecord, StoreTypeOK
  <2>4. QED
    BY <2>1, <2>2, <2>3 DEF CorpseOK, Verified, Archived, RawOf
<1>2. ASSUME NEW unreadable, ParseAll(unreadable) PROVE CorpseOK'
  <2> SUFFICES ASSUME NEW k \in Key, Verified(k)'
               PROVE  /\ shots'[k].accepted => ~HasSamples(shots'[k].sha)
                      /\ shots'[k].parse = "ok" /\ RawOf(k)' = shots'[k].sha =>
                           HasSamples(shots'[k].sha)
    BY DEF CorpseOK
  <2>1. Archived(k) /\ shots[k] \in Record
    BY <1>2 DEF ParseAll, ParsedShots, Verified, Archived, StoreTypeOK
  <2> DEFINE r == [shots[k] EXCEPT !.parse = Verdict(k, unreadable)]
  <2>2. shots'[k] = r /\ raw' = raw
    BY <1>2, <2>1 DEF ParseAll, ParsedShots
  <2>3. r.ts = shots[k].ts /\ r.sha = shots[k].sha /\ r.verified = shots[k].verified
        /\ r.accepted = shots[k].accepted /\ r.parse = Verdict(k, unreadable)
    BY <2>1 DEF Record
  <2>4. Verified(k) /\ RawOf(k)' = RawOf(k)
    BY <2>1, <2>2, <2>3 DEF Verified, RawOf
  <2>5. Verdict(k, unreadable) = "ok" => HasSamples(RawOf(k))
    BY DEF Verdict, Clean
  <2>6. QED
    BY <2>2, <2>3, <2>4, <2>5 DEF CorpseOK
<1>3. ASSUME \A k \in Key : Verified(k)' => SameEvidence(k) PROVE CorpseOK'
  <2>1. ASSUME NEW k \in Key, Sound(k)
        PROVE  raw'[PathOf(shots[k].ts, k[2])] \in {RawOf(k), TORN}
    <3>1. PathOf(shots[k].ts, k[2]) \in Path
      BY <2>1, PathTyped DEF StoreTypeOK, Sound, Verified, Archived, Record, Key
    <3>2. CASE Rot
      BY <3>1, <3>2 DEF Rot, RawOf, StoreTypeOK
    <3>3. QED
      BY <2>1, <3>2, OneLife, SoundFileKept
  <2>2. ASSUME NEW k \in Key, Verified(k)', shots'[k].parse = "ok", RawOf(k)' = shots'[k].sha
        PROVE  RawOf(k) = shots[k].sha
    <3>1. SameEvidence(k) /\ Sound(k)
      BY <1>3, <2>2 DEF SameEvidence, Sound
    <3>2. shots[k].sha # TORN
      BY <3>1, AbsentIsApart DEF SameEvidence, Verified, Archived, StoreTypeOK, Record
    <3>3. QED
      BY <2>1, <2>2, <3>1, <3>2 DEF SameEvidence, RawOf
  <2>3. ASSUME NEW k \in Key, Verified(k)'
        PROVE  /\ shots'[k].accepted => ~HasSamples(shots'[k].sha)
               /\ shots'[k].parse = "ok" /\ RawOf(k)' = shots'[k].sha =>
                    HasSamples(shots'[k].sha)
    <3>1. SameEvidence(k) /\ Verified(k)
      BY <1>3, <2>3 DEF SameEvidence
    <3>2. QED
      BY <2>2, <2>3, <3>1 DEF CorpseOK, SameEvidence
  <2>4. QED
    BY <2>3 DEF CorpseOK
<1>4. QED
  BY <1>1, <1>2, <1>3, EvidenceStays

\* A file without samples stays on the device, however often it was fetched,
\* accepted or parsed: what phase 2 deletes has samples on the device at that
\* moment, also when a heal, a crash, a failed save or rot came between the
\* verdict and the pass.
THEOREM CorpsesStay == ASSUME QuietWorld, OneLife PROVE Spec => EraseSparesCorpses
<1> DEFINE Inv == TypeOK /\ MemoryOK /\ FlushOK /\ PassOK /\ FetchOK /\ CorpseOK
<1>1. Init => Inv
  <2>1. ASSUME Init PROVE FlushOK /\ PassOK /\ FetchOK /\ CorpseOK
    BY <2>1 DEF Init, DeviceInit, ArchiveInit, FlushOK, PassOK, FetchOK, FetchLabel, CorpseOK,
                Verified, Archived
  <2>2. QED
    BY <2>1, InitOK
<1>2. Inv /\ [Next]_vars => Inv'
  BY QuietWorld, OneLife, NextOK, FlushKept, PassKept, FetchKept, CorpseKept
<1>3. Inv => [\A i \in Ids : Erases(i) =>
               ~shots[KeyOf(i)].accepted /\ HasSamples(Slog(i))]_vars
  <2>1. ASSUME Inv, NEW i \in Ids, Erases(i)
        PROVE  ~shots[KeyOf(i)].accepted /\ HasSamples(Slog(i))
    <3>1. ArchiveHolds(i) /\ KeyOf(i) \in Key
      BY <2>1, ErasesProven, KeyTyped
    <3>2. QED
      BY <2>1, <3>1 DEF ArchiveHolds, CorpseOK
  <2>2. QED
    BY <2>1
<1>4. QED
  BY <1>1, <1>2, <1>3, PTL DEF Spec, EraseSparesCorpses

=============================================================================
