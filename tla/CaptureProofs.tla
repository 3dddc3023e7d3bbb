---------------------------- MODULE CaptureProofs ----------------------------
(***************************************************************************)
(* What a sync keeps: a healthy file is never written to again, what the   *)
(* manifest vouches for is on disk and the sample tables follow the files, *)
(* all as long as the device counter has one life (with a second one they  *)
(* do not hold: the run VRawCollides); keys keep the lives of the counter  *)
(* apart, and a sync leaves out nothing it could have fetched, for any     *)
(* number of lives.                                                        *)
(***************************************************************************)
EXTENDS CycleProofs

NoRot == "rot" \notin FaultKinds

\* The manifest vouches for the shot and no parse has flagged it.
Sound(k) == Verified(k) /\ shots[k].parse # "bad"

FetchLabel == {"fetch", "fetched", "record"}

\* While a sync downloads, it has no sound shot left to download.
FetchOK == pc \in FetchLabel => \A i \in todo : ~Sound(KeyOf(i))

\* A sync downloads after planning, and until then no parse runs.
LEMMA FetchReached ==
  ASSUME [Next]_vars, pc' \in FetchLabel
  PROVE  \/ SyncPlan \/ SyncUnlinkStale \/ SyncRecord
         \/ \E i \in Ids : SyncFetch(i)
         \/ UNCHANGED <<pc, todo, shots, dev>>
<1>1. CASE DeviceStep
  BY <1>1 DEF DeviceStep, storeVars, runVars
<1>2. CASE SyncStep \/ SyncFault
  BY <1>2
  DEF SyncStep, SyncFault, SyncIndex, SyncDrift, SyncEpoch, SyncFetchGone, SyncFetchesDone,
      ReconcileRating, ReconcileDone, NotesFetch, StoreSkip, StoreWrite, StoreSave, SyncDone,
      SyncWriteLies, StoreFails, NotesDeferred, SyncFails, GoTo, runVars, FetchLabel
<1>3. CASE ParseRun \/ ParseMisreads \/ ParseFails \/ ParseCrash
  BY <1>3 DEF ParseRun, ParseMisreads, ParseFails, ParseCrash, ParseAll, GoTo, FetchLabel
<1>4. CASE PassStep \/ PassFault
  BY <1>4
  DEF PassStep, PassFault, PassSelect, PassDocs, PassVerify, PassSend, PassVerified, PassConfirm,
      PassSave, PassVerifyFails, PassRefused, PassFails, GoTo, FetchLabel
<1>5. CASE StartCycle \/ Profiles \/ ProfilesFail \/ Crash \/ Rot
  BY <1>5 DEF StartCycle, Profiles, ProfilesFail, Crash, Rot, GoTo, runVars, FetchLabel
<1>6. CASE UNCHANGED vars
  BY <1>6 DEF vars, storeVars, runVars
<1>7. QED
  BY <1>1, <1>2, <1>3, <1>4, <1>5, <1>6 DEF Next, CycleStep, CycleFault

\* Every step keeps the plan of the running sync away from sound shots.
LEMMA FetchKept ==
  ASSUME TypeOK, MemoryOK, FetchOK, [Next]_vars PROVE FetchOK'
<1> USE DEF TypeOK, ArchiveTypeOK
<1>1. CASE SyncPlan
  <2>1. ASSUME NEW i \in todo' PROVE ~Sound(KeyOf(i))
    BY <1>1, <2>1 DEF SyncPlan, NeedsFetch, Heals, Sound
  <2>2. ASSUME NEW k \in Key, Sound(k)' PROVE Sound(k)
    <3>1. Archived(k) => [shots[k] EXCEPT !.tomb = TRUE].verified = shots[k].verified
                         /\ [shots[k] EXCEPT !.tomb = TRUE].parse = shots[k].parse
      BY DEF StoreTypeOK, Archived, Record
    <3>2. QED
      BY <1>1, <2>2, <3>1 DEF SyncPlan, Sound, Verified, Archived, Tombstoned, StoreTypeOK
  <2>3. \A i \in todo' : KeyOf(i) \in Key /\ KeyOf(i)' = KeyOf(i)
    BY <1>1, KeyTyped DEF SyncPlan, KeyOf
  <2>4. QED
    BY <2>1, <2>2, <2>3 DEF FetchOK, Sound, Verified, Archived
<1>2. CASE SyncUnlinkStale
  BY <1>2 DEF SyncUnlinkStale, FetchOK, FetchLabel, Sound, Verified, Archived, KeyOf
<1>3. ASSUME NEW i \in Ids, SyncFetch(i) PROVE FetchOK'
  BY <1>3 DEF SyncFetch, FetchOK, FetchLabel, Sound, Verified, Archived, KeyOf
<1>4. CASE SyncRecord
  <2>1. cur.id \in Ids /\ todo \subseteq Ids
    BY <1>4 DEF SyncRecord, MemoryOK, RunTypeOK, CurType
  <2>2. ASSUME NEW i \in todo' PROVE ~Sound(KeyOf(i))'
    <3>1. i \in todo /\ i # cur.id /\ i \in Ids
      BY <1>4, <2>1, <2>2 DEF SyncRecord
    <3>2. shots'[KeyOf(i)] = shots[KeyOf(i)] /\ KeyOf(i)' = KeyOf(i)
      BY <1>4, <2>1, <3>1, KeyTyped DEF SyncRecord, StoreTypeOK, KeyOf
    <3>3. QED
      BY <1>4, <3>1, <3>2 DEF SyncRecord, FetchOK, FetchLabel, Sound, Verified, Archived
  <2>3. QED
    BY <2>2 DEF FetchOK
<1>5. CASE UNCHANGED <<pc, todo, shots, dev>>
  BY <1>5 DEF FetchOK, Sound, Verified, Archived, KeyOf
<1>6. CASE pc' \notin FetchLabel
  BY <1>6 DEF FetchOK
<1>7. QED
  BY <1>1, <1>2, <1>3, <1>4, <1>5, <1>6, FetchReached

\* The raw tree is written by a download, and by the disk when it rots.
LEMMA RawWritten ==
  ASSUME [Next]_vars
  PROVE  (\E i \in Ids : SyncFetch(i) \/ SyncWriteLies(i)) \/ Rot \/ UNCHANGED raw
<1>1. CASE DeviceStep
  BY <1>1 DEF DeviceStep, storeVars
<1>2. CASE SyncStep \/ SyncFault
  BY <1>2
  DEF SyncStep, SyncFault, SyncIndex, SyncDrift, SyncEpoch, SyncPlan, SyncFetchGone,
      SyncUnlinkStale, SyncRecord, SyncFetchesDone, ReconcileRating, ReconcileDone, NotesFetch,
      StoreSkip, StoreWrite, StoreSave, SyncDone, StoreFails, NotesDeferred, SyncFails, storeVars
<1>3. CASE ParseRun \/ ParseMisreads \/ ParseFails \/ ParseCrash
  BY <1>3 DEF ParseRun, ParseMisreads, ParseFails, ParseCrash, ParseAll
<1>4. CASE PassStep \/ PassFault
  BY <1>4
  DEF PassStep, PassFault, PassSelect, PassDocs, PassVerify, PassSend, PassVerified, PassConfirm,
      PassSave, PassVerifyFails, PassRefused, PassFails, storeVars
<1>5. CASE StartCycle \/ Profiles \/ ProfilesFail \/ Crash
  BY <1>5 DEF StartCycle, Profiles, ProfilesFail, Crash, storeVars
<1>6. QED
  BY <1>1, <1>2, <1>3, <1>4, <1>5 DEF Next, CycleStep, CycleFault, vars, storeVars

\* A download lands on the path of its own shot and of no sound one.
LEMMA DownloadMissesSound ==
  ASSUME TypeOK, MemoryOK, FetchOK, OneLife, NEW i \in todo, pc = "fetch",
         NEW k \in Key, Sound(k)
  PROVE  SlogPath(i) # PathOf(shots[k].ts, k[2])
<1> USE DEF TypeOK, ArchiveTypeOK
<1>1. i \in Ids /\ dev.epoch = 1 /\ k[1] = 1 /\ k = <<k[1], k[2]>>
  BY DEF RunTypeOK, StoreTypeOK, Ledger, Epoch, Key, OneLife
<1>2. k # KeyOf(i)
  BY DEF FetchOK, FetchLabel
<1>3. k[2] # i
  BY <1>1, <1>2 DEF KeyOf
<1>4. QED
  BY <1>3 DEF SlogPath, PathOf

\* Only a fetch, a lying write or rot writes a raw file, and none of them
\* the file of a sound shot (sync.py 316-320).
LEMMA SoundFileKept ==
  ASSUME TypeOK, MemoryOK, FetchOK, OneLife, [Next]_vars,
         NEW k \in Key, Sound(k)
  PROVE  Rot \/ raw'[PathOf(shots[k].ts, k[2])] = RawOf(k)
<1>1. ASSUME NEW i \in Ids, SyncFetch(i) PROVE raw'[PathOf(shots[k].ts, k[2])] = RawOf(k)
  BY <1>1, DownloadMissesSound
  DEF SyncFetch, OldestOf, RawOf, TypeOK, ArchiveTypeOK, StoreTypeOK
<1>2. ASSUME NEW i \in Ids, SyncWriteLies(i) PROVE raw'[PathOf(shots[k].ts, k[2])] = RawOf(k)
  BY <1>2, DownloadMissesSound
  DEF SyncWriteLies, OldestOf, RawOf, TypeOK, ArchiveTypeOK, StoreTypeOK
<1>3. CASE UNCHANGED raw
  BY <1>3 DEF RawOf
<1>4. QED
  BY <1>1, <1>2, <1>3, RawWritten

\* The raw file of a verified shot that parsed clean keeps its bytes for good,
\* through heals, retries, lying writes, crashes and deletion on the device.
THEOREM HealthyRawKept == ASSUME OneLife, NoRot PROVE Spec => HealthyRawImmutable
<1> DEFINE Inv == TypeOK /\ MemoryOK /\ FetchOK
<1>1. Init => Inv
  <2>1. ASSUME Init PROVE FetchOK
    BY <2>1 DEF Init, ArchiveInit, FetchOK, FetchLabel
  <2>2. QED
    BY <2>1, InitOK
<1>2. Inv /\ [Next]_vars => Inv'
  BY NextOK, FetchKept
<1>3. Inv /\ [Next]_vars => [\A k \in Key : Verified(k) /\ shots[k].parse = "ok" =>
                               raw'[PathOf(shots[k].ts, k[2])] = RawOf(k)]_vars
  BY OneLife, NoRot, SoundFileKept DEF Sound, Rot, Fault, NoRot
<1>4. QED
  BY <1>1, <1>2, <1>3, PTL DEF Spec, HealthyRawImmutable

-----------------------------------------------------------------------------
\* No manifest save fails and the archiver does not die: a heal whose record is
\* not saved leaves the new file under the old hash.
SavesSucceed == "save" \notin FaultKinds /\ MaxCrashes = 0

\* The shot between its download and its record.
Pending(k) == pc \in {"fetched", "record"} /\ k = KeyOf(cur.id)

\* The file behind a verified record has its hash, or is the torn product of a
\* failed heal, which the record calls bad.
Backed(k) ==
  \/ RawOf(k) = shots[k].sha
  \/ RawOf(k) = TORN /\ shots[k].parse = "bad"

EvidenceOK ==
  /\ \A k \in Key : Verified(k) /\ ~Pending(k) => Backed(k)
  /\ pc \in {"fetched", "record"} => raw[SlogPath(cur.id)] = cur.slog

\* What a record says of its file changes when the shot is recorded anew and
\* when it is parsed.
SameEvidence(k) ==
  /\ Verified(k)
  /\ shots'[k].ts = shots[k].ts /\ shots'[k].sha = shots[k].sha
  /\ shots'[k].parse = shots[k].parse /\ shots'[k].accepted = shots[k].accepted

\* Outside the two steps between a download and its record, no step makes
\* a record sound or changes the bytes it vouches for.
LEMMA EvidenceStays ==
  ASSUME TypeOK, MemoryOK, [Next]_vars
  PROVE  \/ SyncRecord
         \/ \E unreadable : ParseAll(unreadable)
         \/ \A k \in Key : Verified(k)' => SameEvidence(k)
<1> DEFINE Same == \A k \in Key : Verified(k)' => SameEvidence(k)
<1> USE DEF TypeOK, ArchiveTypeOK
<1>1. CASE UNCHANGED shots
  BY <1>1 DEF Verified, Archived, SameEvidence
<1>2. CASE SyncPlan
  <2>1. \A k \in Key : Archived(k) =>
          LET r == [shots[k] EXCEPT !.tomb = TRUE]
          IN  r.ts = shots[k].ts /\ r.sha = shots[k].sha /\ r.parse = shots[k].parse
              /\ r.verified = shots[k].verified /\ r.accepted = shots[k].accepted
    BY DEF StoreTypeOK, Archived, Record
  <2>2. QED
    BY <1>2, <2>1 DEF SyncPlan, Verified, Archived, StoreTypeOK, Tombstoned, SameEvidence
<1>3. ASSUME NEW i \in Ids, ReconcileRating(i) PROVE Same
  <2>1. KeyOf(i) \in Key /\ shots[KeyOf(i)] \in Record
    BY <1>3, KeyTyped DEF ReconcileRating, RatingDrifted, Verified, Archived, StoreTypeOK
  <2> DEFINE r == [shots[KeyOf(i)] EXCEPT !.rating = EntryAt(i).rating]
  <2>2. shots' = [shots EXCEPT ![KeyOf(i)] = r]
    BY <1>3 DEF ReconcileRating
  <2>3. r.ts = shots[KeyOf(i)].ts /\ r.sha = shots[KeyOf(i)].sha
        /\ r.parse = shots[KeyOf(i)].parse /\ r.verified = shots[KeyOf(i)].verified
        /\ r.accepted = shots[KeyOf(i)].accepted
    BY <2>1 DEF Record
  <2>4. QED
    BY <2>1, <2>2, <2>3, AbsentIsApart DEF Verified, Archived, StoreTypeOK, SameEvidence
<1>4. ASSUME NEW i \in Ids, StoreSave(i) PROVE Same
  <2>1. KeyOf(i) \in Key /\ shots[KeyOf(i)] \in Record
    BY <1>4, KeyTyped DEF StoreSave, FirstOf, MemoryOK, Archived, StoreTypeOK
  <2> DEFINE r == [shots[KeyOf(i)] EXCEPT !.json = docs[i]]
  <2>2. shots' = [shots EXCEPT ![KeyOf(i)] = r]
    BY <1>4 DEF StoreSave
  <2>3. r.ts = shots[KeyOf(i)].ts /\ r.sha = shots[KeyOf(i)].sha
        /\ r.parse = shots[KeyOf(i)].parse /\ r.verified = shots[KeyOf(i)].verified
        /\ r.accepted = shots[KeyOf(i)].accepted
    BY <2>1 DEF Record
  <2>4. QED
    BY <2>1, <2>2, <2>3, AbsentIsApart DEF Verified, Archived, StoreTypeOK, SameEvidence
<1>5. CASE PassSave
  <2>1. \A i \in picked : KeyOf(i) \in Key /\ shots[KeyOf(i)] \in Record
    BY <1>5, KeyTyped DEF PassSave, MemoryOK, RunTypeOK, Archived, StoreTypeOK
  <2>2. ASSUME NEW k \in Key, Verified(k)' PROVE SameEvidence(k)
    <3>1. CASE k \in {KeyOf(i) : i \in picked}
      <4> DEFINE r == [shots[k] EXCEPT !.gone = TRUE, !.tomb = TRUE]
      <4>1. shots'[k] = r /\ shots[k] \in Record
        BY <1>5, <2>1, <3>1 DEF PassSave
      <4>2. r.ts = shots[k].ts /\ r.sha = shots[k].sha /\ r.parse = shots[k].parse
            /\ r.verified = shots[k].verified /\ r.accepted = shots[k].accepted
        BY <4>1 DEF Record
      <4>3. QED
        BY <2>2, <4>1, <4>2, AbsentIsApart DEF Verified, Archived, SameEvidence
    <3>2. CASE k \notin {KeyOf(i) : i \in picked}
      BY <1>5, <2>2, <3>2 DEF PassSave, Verified, Archived, SameEvidence
    <3>3. QED
      BY <3>1, <3>2
  <2>3. QED
    BY <2>2
<1>6. CASE DeviceStep
  BY <1>1, <1>6 DEF DeviceStep, storeVars
<1>7. CASE SyncStep \/ SyncFault
  BY <1>1, <1>2, <1>3, <1>4, <1>7
  DEF SyncStep, SyncFault, SyncIndex, SyncDrift, SyncEpoch, SyncFetch, SyncFetchGone,
      SyncUnlinkStale, SyncFetchesDone, ReconcileDone, NotesFetch, StoreSkip, StoreWrite,
      SyncDone, SyncWriteLies, StoreFails, NotesDeferred, SyncFails, storeVars
<1>8. CASE ParseRun \/ ParseMisreads \/ ParseFails \/ ParseCrash
  BY <1>1, <1>8 DEF ParseRun, ParseMisreads, ParseFails, ParseCrash
<1>9. CASE PassStep \/ PassFault
  BY <1>1, <1>5, <1>9
  DEF PassStep, PassFault, PassSelect, PassDocs, PassVerify, PassSend, PassVerified, PassConfirm,
      PassVerifyFails, PassRefused, PassFails, storeVars
<1>10. CASE StartCycle \/ Profiles \/ ProfilesFail \/ Crash \/ Rot
  BY <1>1, <1>10 DEF StartCycle, Profiles, ProfilesFail, Crash, Rot, storeVars
<1>11. CASE UNCHANGED vars
  BY <1>1, <1>11 DEF vars, storeVars
<1>12. QED
  BY <1>6, <1>7, <1>8, <1>9, <1>10, <1>11 DEF Next, CycleStep, CycleFault

\* A download is recorded before anything else happens to the archive, or not.
LEMMA PendingEnds ==
  ASSUME TypeOK, MaxCrashes = 0, NoRot, [Next]_vars, pc \in {"fetched", "record"}
  PROVE  \/ SyncUnlinkStale \/ SyncRecord \/ UNCHANGED <<storeVars, runVars>>
         \/ Fault("save") /\ pc = "record" /\ pc' = "parse" /\ UNCHANGED storeVars
<1>1. CASE DeviceStep \/ UNCHANGED vars
  BY <1>1 DEF DeviceStep, vars
<1>2. CASE SyncStep \/ SyncFault
  BY <1>2
  DEF SyncStep, SyncFault, SyncIndex, SyncDrift, SyncEpoch, SyncPlan, SyncFetch, SyncFetchGone,
      SyncFetchesDone, ReconcileRating, ReconcileDone, NotesFetch, StoreSkip, StoreWrite,
      StoreSave, SyncDone, SyncWriteLies, StoreFails, NotesDeferred, SyncFails, GoTo,
      Saving
<1>3. CASE ParseRun \/ ParseMisreads \/ ParseFails \/ ParseCrash
  BY <1>3 DEF ParseRun, ParseMisreads, ParseFails, ParseCrash, ParseAll
<1>4. CASE PassStep \/ PassFault
  BY <1>4
  DEF PassStep, PassFault, PassSelect, PassDocs, PassVerify, PassSend, PassVerified, PassConfirm,
      PassSave, PassVerifyFails, PassRefused, PassFails
<1>5. CASE StartCycle \/ Profiles \/ ProfilesFail
  BY <1>5 DEF StartCycle, Profiles, ProfilesFail
<1>6. ~Crash /\ ~Rot
  BY DEF Crash, Rot, Fault, NoRot, TypeOK, ArchiveTypeOK, HistTypeOK
<1>7. QED
  BY <1>1, <1>2, <1>3, <1>4, <1>5, <1>6 DEF Next, CycleStep, CycleFault

\* ... and starts from a download.
LEMMA PendingStarts ==
  ASSUME [Next]_vars, pc \notin {"fetched", "record"}
  PROVE  (\E i \in Ids : SyncFetch(i)) \/ pc' \notin {"fetched", "record"}
<1> DEFINE NotPending == pc' \notin {"fetched", "record"}
<1>1. CASE DeviceStep \/ UNCHANGED vars
  BY <1>1 DEF DeviceStep, vars, runVars
<1>2. CASE SyncStep \/ SyncFault
  BY <1>2
  DEF SyncStep, SyncFault, SyncIndex, SyncDrift, SyncEpoch, SyncPlan, SyncFetchGone,
      SyncUnlinkStale, SyncRecord, SyncFetchesDone, ReconcileRating, ReconcileDone, NotesFetch,
      StoreSkip, StoreWrite, StoreSave, SyncDone, SyncWriteLies, StoreFails, NotesDeferred,
      SyncFails, GoTo, runVars
<1>3. CASE ParseRun \/ ParseMisreads \/ ParseFails \/ ParseCrash
  BY <1>3 DEF ParseRun, ParseMisreads, ParseFails, ParseCrash, ParseAll, GoTo
<1>4. CASE PassStep \/ PassFault
  BY <1>4
  DEF PassStep, PassFault, PassSelect, PassDocs, PassVerify, PassSend, PassVerified, PassConfirm,
      PassSave, PassVerifyFails, PassRefused, PassFails, GoTo
<1>5. CASE StartCycle \/ Profiles \/ ProfilesFail \/ Crash \/ Rot
  BY <1>5 DEF StartCycle, Profiles, ProfilesFail, Crash, Rot, GoTo, runVars
<1>6. QED
  BY <1>1, <1>2, <1>3, <1>4, <1>5 DEF Next, CycleStep, CycleFault

\* Every step keeps the raw file of each sound shot backed by its record.
LEMMA EvidenceKept ==
  ASSUME TypeOK, MemoryOK, FetchOK, EvidenceOK, OneLife, NoRot, SavesSucceed, [Next]_vars
  PROVE  EvidenceOK'
<1> USE DEF TypeOK, ArchiveTypeOK
<1> DEFINE Same == \A k \in Key : Verified(k)' => SameEvidence(k)
<1>1. ASSUME NEW i \in Ids, SyncFetch(i) PROVE EvidenceOK'
  <2>1. Slog(i) \in Bytes /\ i \in todo /\ cur' = [id |-> i, slog |-> Slog(i)]
        /\ pc = "fetch" /\ pc' = "fetched"
    BY <1>1, SlogTyped DEF SyncFetch, OldestOf
  <2>2. index.entries[i] \in IndexEntryType
    BY <2>1 DEF MemoryOK, IndexLabel, RunTypeOK, IndexType, Listed
  <2>3. SlogPath(i) \in Path
    BY <2>2, PathTyped DEF SlogPath, EntryAt, IndexEntryType
  <2>4. raw'[SlogPath(cur.id)'] = cur'.slog
    BY <1>1, <2>1, <2>3 DEF SyncFetch, SlogPath, EntryAt, StoreTypeOK
  <2>5. ASSUME NEW k \in Key, Verified(k)', ~Pending(k)' PROVE Backed(k)'
    <3>1. Verified(k) /\ ~Pending(k) /\ k # KeyOf(i)
      BY <1>1, <2>1, <2>5 DEF SyncFetch, Verified, Archived, Pending, KeyOf
    <3>2. k[2] # i
      BY <3>1 DEF KeyOf, Key, Epoch, OneLife, StoreTypeOK, Ledger
    <3>3. PathOf(shots[k].ts, k[2]) # SlogPath(i)
      BY <3>2 DEF PathOf, SlogPath
    <3>4. RawOf(k)' = RawOf(k)
      BY <1>1, <3>3 DEF SyncFetch, RawOf, StoreTypeOK
    <3>5. QED
      BY <1>1, <3>1, <3>4 DEF SyncFetch, EvidenceOK, Backed
  <2>6. QED
    BY <2>4, <2>5 DEF EvidenceOK
<1>2. ASSUME NEW i \in Ids, SyncWriteLies(i) PROVE EvidenceOK'
  <2>1. i \in todo /\ pc = "fetch" /\ pc' = "parse"
    BY <1>2 DEF SyncWriteLies, OldestOf, GoTo
  <2>2. ASSUME NEW k \in Key, Verified(k)' PROVE Backed(k)'
    <3>1. Verified(k) /\ Backed(k) /\ shots' = shots
      BY <1>2, <2>1, <2>2 DEF SyncWriteLies, Verified, Archived, EvidenceOK, Pending
    <3>2. CASE k = KeyOf(i)
      <4>1. shots[k].parse = "bad"
        BY <2>1, <3>1, <3>2 DEF FetchOK, FetchLabel, Sound
      <4>2. RawOf(k)' \in {RawOf(k), TORN}
        BY <1>2 DEF SyncWriteLies, RawOf, StoreTypeOK
      <4>3. QED
        BY <3>1, <4>1, <4>2 DEF Backed
    <3>3. CASE k # KeyOf(i)
      <4>1. k[2] # i
        BY <3>3 DEF KeyOf, Key, Epoch, OneLife, StoreTypeOK, Ledger
      <4>2. PathOf(shots[k].ts, k[2]) # SlogPath(i)
        BY <4>1 DEF PathOf, SlogPath
      <4>3. RawOf(k)' = RawOf(k)
        BY <1>2, <4>2 DEF SyncWriteLies, RawOf, StoreTypeOK
      <4>4. QED
        BY <3>1, <4>3 DEF Backed
    <3>4. QED
      BY <3>2, <3>3
  <2>3. QED
    BY <2>1, <2>2 DEF EvidenceOK
<1>3. CASE SyncUnlinkStale
  BY <1>3 DEF SyncUnlinkStale, EvidenceOK, Pending, Verified, Archived, Backed, RawOf, KeyOf,
              SlogPath, EntryAt
<1>4. CASE SyncRecord
  <2>1. cur.id \in Ids /\ KeyOf(cur.id) \in Key /\ raw' = raw /\ pc = "record" /\ pc' = "fetch"
    BY <1>4, KeyTyped DEF SyncRecord, MemoryOK, RunTypeOK, CurType
  <2>2. ASSUME NEW k \in Key, Verified(k)' PROVE Backed(k)'
    <3>1. CASE k = KeyOf(cur.id)
      <4>1. shots'[k] = NewRecord
        BY <1>4, <2>1, <3>1 DEF SyncRecord, StoreTypeOK
      <4>2. RawOf(k)' = raw[SlogPath(cur.id)] /\ NewRecord.sha = cur.slog
        BY <2>1, <3>1, <4>1 DEF RawOf, NewRecord, SlogPath, EntryAt, KeyOf
      <4>3. QED
        BY <2>1, <4>1, <4>2 DEF EvidenceOK, Backed
    <3>2. CASE k # KeyOf(cur.id)
      <4>1. shots'[k] = shots[k]
        BY <1>4, <2>1, <3>2 DEF SyncRecord, StoreTypeOK
      <4>2. QED
        BY <2>1, <2>2, <3>2, <4>1 DEF EvidenceOK, Pending, Verified, Archived, Backed, RawOf
    <3>3. QED
      BY <3>1, <3>2
  <2>3. QED
    BY <2>1, <2>2 DEF EvidenceOK
<1>5. ASSUME NEW unreadable, ParseAll(unreadable) PROVE EvidenceOK'
  <2>1. pc = "parse" /\ pc' = "profiles" /\ raw' = raw
    BY <1>5 DEF ParseAll
  <2>2. ASSUME NEW k \in Key, Verified(k)' PROVE Backed(k)'
    <3>1. Archived(k) /\ shots[k] \in Record
      BY <1>5, <2>2 DEF ParseAll, ParsedShots, Verified, Archived, StoreTypeOK
    <3> DEFINE r == [shots[k] EXCEPT !.parse = Verdict(k, unreadable)]
    <3>2. shots'[k] = r
      BY <1>5, <3>1 DEF ParseAll, ParsedShots
    <3>3. r.ts = shots[k].ts /\ r.sha = shots[k].sha /\ r.verified = shots[k].verified
          /\ r.parse = Verdict(k, unreadable)
      BY <3>1 DEF Record
    <3>4. Verified(k) /\ Backed(k)
      BY <2>1, <2>2, <3>1, <3>2, <3>3 DEF Verified, EvidenceOK, Pending
    <3>5. RawOf(k) = TORN => Verdict(k, unreadable) = "bad"
      BY DEF Verdict, Clean, Parses
    <3>6. QED
      BY <2>1, <3>2, <3>3, <3>4, <3>5 DEF Backed, RawOf
  <2>3. QED
    BY <2>1, <2>2 DEF EvidenceOK
<1>6. ASSUME Same, UNCHANGED raw, pc \notin {"fetched", "record"}, pc' \notin {"fetched", "record"}
      PROVE  EvidenceOK'
  BY <1>6 DEF SameEvidence, EvidenceOK, Pending, Backed, RawOf
<1>7. CASE UNCHANGED <<storeVars, runVars>>
  BY <1>7 DEF storeVars, runVars, EvidenceOK, Pending, Verified, Archived, Backed, RawOf, KeyOf,
              SlogPath, EntryAt
<1>8. CASE pc \in {"fetched", "record"}
  BY <1>3, <1>4, <1>7, <1>8, PendingEnds, SavesSucceed DEF SavesSucceed, Fault
<1>9. CASE pc \notin {"fetched", "record"}
  <2>1. ~SyncRecord /\ ~Rot
    BY <1>9 DEF SyncRecord, Rot, Fault, NoRot
  <2>2. QED
    BY <1>1, <1>2, <1>5, <1>6, <1>9, <2>1, EvidenceStays, PendingStarts, RawWritten
<1>10. QED
  BY <1>8, <1>9

\* The manifest's word for a file is never stale: a verified shot that no parse
\* has flagged is on disk with the recorded hash, in every reachable state,
\* also in the middle of a heal and after lying writes and failed requests.
THEOREM ManifestTruthful ==
  ASSUME OneLife, NoRot, SavesSucceed PROVE Spec => []VerifiedEvidence
<1> DEFINE Inv == TypeOK /\ MemoryOK /\ FetchOK /\ EvidenceOK
<1>1. Init => Inv
  <2>1. ASSUME Init PROVE FetchOK /\ EvidenceOK
    BY <2>1 DEF Init, ArchiveInit, FetchOK, FetchLabel, EvidenceOK, Verified, Archived
  <2>2. QED
    BY <2>1, InitOK
<1>2. Inv /\ [Next]_vars => Inv'
  BY OneLife, NoRot, SavesSucceed, NextOK, FetchKept, EvidenceKept
<1>3. Inv => VerifiedEvidence
  <2>1. ASSUME Inv, NEW k \in Key, Sound(k) PROVE RawOf(k) = shots[k].sha
    <3>1. ~Pending(k)
      BY <2>1 DEF Pending, MemoryOK, FetchOK, FetchLabel
    <3>2. QED
      BY <2>1, <3>1 DEF EvidenceOK, Backed, Sound
  <2>2. QED
    BY <2>1 DEF VerifiedEvidence, Sound
<1>4. QED
  BY <1>1, <1>2, <1>3, PTL DEF Spec

-----------------------------------------------------------------------------
\* With one life of the counter an id is one shot: its day and its firmware do
\* not change, and its file only grows.
Rank(stage) == IF stage = "header" THEN 0 ELSE IF stage = "partial" THEN 1 ELSE 2

GrowsOn(i) ==
  entries'[i] # NONE =>
    /\ entries[i] # NONE
    /\ entries'[i].ts = entries[i].ts /\ entries'[i].fw = entries[i].fw
    /\ Rank(entries[i].stage) <= Rank(entries'[i].stage)

\* Bytes that the device has served as the file of i ...
Served(b, i) ==
  entries[i] # NONE => /\ b.life = life /\ b.fw = entries[i].fw
                       /\ Rank(b.stage) <= Rank(entries[i].stage)

\* ... and bytes that it does not serve any more.
Outgrown(b, i) == entries[i] # NONE => Rank(b.stage) < Rank(entries[i].stage)

\* Device, index and manifest agree on the day of a shot, so that all of its
\* downloads have one path.
TimesOK ==
  /\ life = 1
  /\ \A i \in Ids : entries[i] # NONE \/ Archived(KeyOf(i)) => i < nextId
  /\ \A i \in Ids : Archived(KeyOf(i)) /\ entries[i] # NONE => shots[KeyOf(i)].ts = entries[i].ts
  /\ pc \in {"drift", "epoch", "plan"} \cup FetchLabel =>
       \A i \in Ids : Listed(i) =>
         /\ i < nextId
         /\ entries[i] # NONE => entries[i].ts = EntryAt(i).ts
         /\ Archived(KeyOf(i)) => shots[KeyOf(i)].ts = EntryAt(i).ts

LEMMA DeviceGrows ==
  ASSUME TypeOK, TimesOK, OneLife, DeviceStep
  PROVE  /\ life' = life /\ nextId' \in Nat /\ nextId' >= nextId
         /\ \A i \in Ids : entries'[i] # NONE => i < nextId'
         /\ \A i \in Ids : i < nextId => GrowsOn(i)
<1> USE DEF TypeOK, DeviceTypeOK
<1> DEFINE Goal == /\ life' = life /\ nextId' \in Nat /\ nextId' >= nextId
                   /\ \A i \in Ids : entries'[i] # NONE => i < nextId'
                   /\ \A i \in Ids : i < nextId => GrowsOn(i)
<1>1. \/ RecordShot \/ FlashFirmware \/ Tick
      \/ \E j \in Ids : \/ GrowFlush(j) \/ FinishFlush(j) \/ DamageFlush(j)
                       \/ SaveNotes(j) \/ RemoveShot(j) \/ DropEntry(j)
  BY DEF DeviceStep, Flush, Reset, TimesOK, OneLife
<1>2. nextId \in Nat /\ \A i \in Ids : i \in Nat
  BY DEF Ids
<1>3. \A i \in Ids : entries'[i] = entries[i] => GrowsOn(i)
  BY DEF GrowsOn, Rank
<1>4. CASE RecordShot
  <2>1. life' = life /\ nextId' = nextId + 1
    BY <1>4 DEF RecordShot
  <2>2. \A i \in Ids : i # nextId => entries'[i] = entries[i]
    BY <1>4 DEF RecordShot
  <2>3. QED
    BY <1>2, <1>3, <2>1, <2>2 DEF TimesOK
<1>5. CASE FlashFirmware \/ Tick
  BY <1>2, <1>3, <1>5 DEF FlashFirmware, Tick, TimesOK
<1>6. ASSUME NEW j \in Ids,
             \/ GrowFlush(j) \/ FinishFlush(j) \/ DamageFlush(j)
             \/ SaveNotes(j) \/ RemoveShot(j) \/ DropEntry(j)
      PROVE  Goal
  <2>1. UNCHANGED <<life, nextId>>
    BY <1>6 DEF GrowFlush, FinishFlush, DamageFlush, SaveNotes, RemoveShot, DropEntry
  <2>2. \A i \in Ids : i # j => entries'[i] = entries[i]
    BY <1>6 DEF GrowFlush, FinishFlush, DamageFlush, SaveNotes, RemoveShot, DropEntry
  <2>3. GrowsOn(j)
    <3>1. CASE GrowFlush(j)
      BY <3>1 DEF GrowFlush, GrowsOn, Live, Entry, Rank
    <3>2. CASE FinishFlush(j)
      BY <3>2 DEF FinishFlush, GrowsOn, Live, Entry, Rank
    <3>3. CASE DamageFlush(j)
      BY <3>3 DEF DamageFlush, GrowsOn, Live, Entry, Rank
    <3>4. CASE SaveNotes(j)
      BY <3>4 DEF SaveNotes, GrowsOn, Live, Entry, Rank
    <3>5. CASE RemoveShot(j) \/ DropEntry(j)
      BY <3>5 DEF RemoveShot, DropEntry, GrowsOn, Live, Entry, Rank
    <3>6. QED
      BY <1>6, <3>1, <3>2, <3>3, <3>4, <3>5
  <2>4. QED
    BY <1>2, <1>3, <2>1, <2>2, <2>3 DEF TimesOK, GrowsOn
<1>7. QED
  BY <1>1, <1>4, <1>5, <1>6

\* ... and so in every step: the archiver only leaves tombstones.
LEMMA WorldGrows ==
  ASSUME TypeOK, TimesOK, OneLife, [Next]_vars
  PROVE  /\ life' = life /\ nextId' \in Nat /\ nextId' >= nextId
         /\ \A i \in Ids : entries'[i] # NONE => i < nextId'
         /\ \A i \in Ids : i < nextId => GrowsOn(i)
<1> USE DEF TypeOK, DeviceTypeOK
<1>1. CASE DeviceStep
  BY <1>1, DeviceGrows
<1>2. CASE UNCHANGED deviceVars
  BY <1>2 DEF deviceVars, TimesOK, GrowsOn, Rank
<1>3. ASSUME NEW j \in Ids, PassSend(j)
      PROVE  /\ life' = life /\ nextId' \in Nat /\ nextId' >= nextId
             /\ \A i \in Ids : entries'[i] # NONE => i < nextId'
             /\ \A i \in Ids : i < nextId => GrowsOn(i)
  <2>1. life' = life /\ nextId' = nextId
    BY <1>3 DEF PassSend
  <2>2. \A i \in Ids : GrowsOn(i)
    BY <1>3 DEF PassSend, Live, Entry, GrowsOn, Rank
  <2>3. QED
    BY <2>1, <2>2 DEF TimesOK, GrowsOn
<1>4. QED
  BY <1>1, <1>2, <1>3, DeviceAlone

\* What was served stays served, and what was outgrown stays outgrown.
LEMMA ServedStays ==
  ASSUME NEW i \in Ids, GrowsOn(i), life' = life, NEW b
  PROVE  /\ Served(b, i) => (entries'[i] # NONE => /\ b.life = life' /\ b.fw = entries'[i].fw
                                                   /\ Rank(b.stage) <= Rank(entries'[i].stage))
         /\ Outgrown(b, i) => (entries'[i] # NONE => Rank(b.stage) < Rank(entries'[i].stage))
<1>1. \A stage : Rank(stage) \in Nat
  BY DEF Rank
<1>2. QED
  BY <1>1 DEF GrowsOn, Served, Outgrown

\* Bytes served before are those that are served now, or are outgrown.
LEMMA ServedNow ==
  ASSUME TypeOK, NEW i \in Ids, entries[i] # NONE
  PROVE  /\ Served(Slog(i), i) /\ ~Outgrown(Slog(i), i)
         /\ \A b \in Bytes : Served(b, i) => b = Slog(i) \/ Outgrown(b, i)
<1>1. entries[i].stage \in {"header", "partial", "full"}
  BY EntryDataTyped DEF TypeOK, DeviceTypeOK, Entry, Stage
<1>2. \A b \in Bytes : b.stage \in {"header", "partial", "full"}
  BY EntryDataTyped DEF Bytes, Stage
<1>3. Served(Slog(i), i) /\ ~Outgrown(Slog(i), i)
  BY <1>1 DEF Served, Outgrown, Slog, Rank
<1>4. ASSUME NEW b \in Bytes, Served(b, i), ~Outgrown(b, i) PROVE b = Slog(i)
  <2>1. b.stage = entries[i].stage /\ b.life = life /\ b.fw = entries[i].fw
    BY <1>1, <1>2, <1>4 DEF Served, Outgrown, Rank
  <2>2. b = [life |-> b.life, fw |-> b.fw, stage |-> b.stage]
    BY DEF Bytes
  <2>3. QED
    BY <2>1, <2>2 DEF Slog
<1>5. QED
  BY <1>3, <1>4

\* A sync comes from the start of a cycle, step by step.
LEMMA SyncReached ==
  ASSUME [Next]_vars, pc' \in {"sync", "drift", "epoch", "plan"} \cup FetchLabel
  PROVE  \/ StartCycle \/ SyncIndex \/ SyncDrift \/ SyncEpoch \/ SyncPlan
         \/ SyncUnlinkStale \/ SyncRecord
         \/ \E i \in Ids : SyncFetch(i)
         \/ UNCHANGED runVars
<1>1. CASE DeviceStep
  BY <1>1 DEF DeviceStep
<1>2. CASE SyncStep \/ SyncFault
  BY <1>2
  DEF SyncStep, SyncFault, SyncFetchGone, SyncFetchesDone, ReconcileRating, ReconcileDone,
      NotesFetch, StoreSkip, StoreWrite, StoreSave, SyncDone, SyncWriteLies, StoreFails,
      NotesDeferred, SyncFails, GoTo, FetchLabel
<1>3. CASE ParseRun \/ ParseMisreads \/ ParseFails \/ ParseCrash
  BY <1>3 DEF ParseRun, ParseMisreads, ParseFails, ParseCrash, ParseAll, GoTo, FetchLabel
<1>4. CASE PassStep \/ PassFault
  BY <1>4
  DEF PassStep, PassFault, PassSelect, PassDocs, PassVerify, PassSend, PassVerified, PassConfirm,
      PassSave, PassVerifyFails, PassRefused, PassFails, GoTo, FetchLabel
<1>5. CASE Profiles \/ ProfilesFail \/ Crash \/ Rot
  BY <1>5 DEF Profiles, ProfilesFail, Crash, Rot, GoTo, FetchLabel
<1>6. CASE UNCHANGED vars
  BY <1>6 DEF vars
<1>7. QED
  BY <1>1, <1>2, <1>3, <1>4, <1>5, <1>6 DEF Next, CycleStep, CycleFault

\* With one life a key stays an id's key.
LEMMA KeyStays ==
  ASSUME TypeOK, TypeOK', OneLife PROVE \A i \in Ids : KeyOf(i)' = KeyOf(i)
<1>1. dev.epoch = 1 /\ dev'.epoch = 1
  BY DEF TypeOK, ArchiveTypeOK, StoreTypeOK, Ledger, Epoch, OneLife
<1>2. QED
  BY <1>1 DEF KeyOf

\* Every step keeps the shots on their days.
LEMMA TimesKept ==
  ASSUME TypeOK, MemoryOK, TimesOK, OneLife, [Next]_vars PROVE TimesOK'
<1> USE DEF TypeOK, ArchiveTypeOK
<1>1. /\ life' = 1 /\ nextId' \in Nat /\ nextId \in Nat /\ nextId' >= nextId
      /\ \A i \in Ids : entries'[i] # NONE => i < nextId'
  BY WorldGrows DEF TimesOK, DeviceTypeOK
<1>2. \A i \in Ids : /\ i \in Nat /\ KeyOf(i) \in Key /\ KeyOf(i)' = KeyOf(i)
                     /\ i < nextId => i < nextId' /\ GrowsOn(i)
  BY <1>1, NextOK, KeyStays, KeyTyped, WorldGrows DEF Ids
<1>3. ASSUME NEW i \in Ids, Archived(KeyOf(i))'
      PROVE  \/ Archived(KeyOf(i)) /\ shots'[KeyOf(i)].ts = shots[KeyOf(i)].ts
             \/ SyncRecord /\ i = cur.id /\ Listed(i) /\ shots'[KeyOf(i)].ts = EntryAt(i).ts
  <2>1. CASE SyncRecord /\ i = cur.id
    <3>1. shots'[KeyOf(i)] = NewRecord /\ Listed(i)
      BY <1>2, <2>1 DEF SyncRecord, StoreTypeOK, MemoryOK
    <3>2. NewRecord.ts = EntryAt(cur.id).ts
      BY DEF NewRecord
    <3>3. QED
      BY <2>1, <3>1, <3>2
  <2>2. CASE SyncRecord /\ i # cur.id
    <3>1. shots'[KeyOf(i)] = shots[KeyOf(i)]
      BY <1>2, <2>2 DEF SyncRecord, StoreTypeOK, KeyOf
    <3>2. QED
      BY <1>2, <1>3, <3>1 DEF Archived
  <2>3. CASE SameRecords
    BY <1>2, <1>3, <2>3 DEF SameRecords, SameRecord, Archived
  <2>4. QED
    BY <2>1, <2>2, <2>3, RecordsKept
<1>4. ASSUME NEW i \in Ids, Archived(KeyOf(i))'
      PROVE  i < nextId' /\ (entries'[i] # NONE => shots'[KeyOf(i)].ts = entries'[i].ts)
  <2>1. CASE Archived(KeyOf(i)) /\ shots'[KeyOf(i)].ts = shots[KeyOf(i)].ts
    BY <1>2, <2>1 DEF TimesOK, GrowsOn
  <2>2. CASE SyncRecord /\ i = cur.id /\ Listed(i) /\ shots'[KeyOf(i)].ts = EntryAt(i).ts
    BY <1>1, <1>2, <2>2 DEF SyncRecord, TimesOK, FetchLabel, deviceVars
  <2>3. QED
    BY <1>3, <1>4, <2>1, <2>2
<1>5. ASSUME pc' \in {"drift", "epoch", "plan"} \cup FetchLabel, NEW i \in Ids, Listed(i)'
      PROVE  /\ i < nextId'
             /\ entries'[i] # NONE => entries'[i].ts = index'.entries[i].ts
             /\ Archived(KeyOf(i))' => shots'[KeyOf(i)].ts = index'.entries[i].ts
  <2>1. CASE SyncIndex
    <3>1. index' = Index /\ UNCHANGED <<entries, shots, dev, nextId>>
      BY <1>5, <2>1 DEF SyncIndex, GoTo, FetchLabel, deviceVars, storeVars
    <3>2. entries[i] # NONE /\ index'.entries[i] = IndexEntry(entries[i])
      BY <1>5, <3>1 DEF Listed, Index
    <3>3. QED
      BY <1>2, <3>1, <3>2 DEF TimesOK, Archived, IndexEntry
  <2>2. CASE ~SyncIndex
    <3>1. index' = index /\ pc \in {"drift", "epoch", "plan"} \cup FetchLabel
      BY <1>5, <2>2, SyncReached
      DEF StartCycle, SyncDrift, SyncEpoch, SyncPlan, SyncUnlinkStale, SyncRecord, SyncFetch,
          runVars, FetchLabel
    <3>2. /\ i < nextId
          /\ entries[i] # NONE => entries[i].ts = EntryAt(i).ts
          /\ Archived(KeyOf(i)) => shots[KeyOf(i)].ts = EntryAt(i).ts
      BY <1>5, <3>1 DEF TimesOK, Listed
    <3>3. i < nextId' /\ (entries'[i] # NONE => entries'[i].ts = index'.entries[i].ts)
      BY <1>2, <3>1, <3>2 DEF GrowsOn, EntryAt
    <3>4. Archived(KeyOf(i))' => shots'[KeyOf(i)].ts = index'.entries[i].ts
      BY <1>3, <3>1, <3>2 DEF EntryAt
    <3>5. QED
      BY <3>3, <3>4
  <2>3. QED
    BY <2>1, <2>2
<1>6. QED
  BY <1>1, <1>2, <1>4, <1>5 DEF TimesOK, EntryAt

\* The samples of a shot are those of the bytes in its record, unless the device
\* has gone on from those; and they are those of the raw file that is there.
OnDisk(k, i) ==
  /\ RawOf(k) \in {shots[k].sha, TORN} \/ Outgrown(shots[k].sha, i)
  /\ samples[k] # NONE /\ RawOf(k) # TORN => samples[k] = RawOf(k)

Derived(i) ==
  LET k == KeyOf(i) IN
  /\ Served(shots[k].sha, i)
  /\ samples[k] # NONE => samples[k] = shots[k].sha \/ Outgrown(shots[k].sha, i)
  /\ ~Pending(k) => OnDisk(k, i)

\* Of a download in hand no other samples are left once they are unlinked, nor
\* if they would not be.
InHand ==
  LET k == KeyOf(cur.id) IN
  /\ raw[SlogPath(cur.id)] = cur.slog /\ Served(cur.slog, cur.id)
  /\ Archived(k) => cur.slog = shots[k].sha \/ Outgrown(shots[k].sha, cur.id)
  /\ samples[k] # NONE /\ (pc = "record" \/ cur.slog = shots[k].sha) => samples[k] = cur.slog

SamplesOK ==
  /\ \A i \in Ids : samples[KeyOf(i)] # NONE => Archived(KeyOf(i))
  /\ \A i \in Ids : Archived(KeyOf(i)) => Derived(i)
  /\ pc \in {"fetched", "record"} => InHand

\* Parse never dies half-way.
TablesSucceed == "table" \notin FaultKinds /\ MaxCrashes = 0

\* Sample files are unlinked by a sync and written by a parse.
LEMMA SamplesWritten ==
  ASSUME TypeOK, TablesSucceed, [Next]_vars
  PROVE  SyncUnlinkStale \/ (\E unreadable : ParseAll(unreadable)) \/ UNCHANGED samples
<1>1. CASE DeviceStep \/ UNCHANGED vars
  BY <1>1 DEF DeviceStep, vars, storeVars
<1>2. CASE SyncStep \/ SyncFault
  BY <1>2
  DEF SyncStep, SyncFault, SyncIndex, SyncDrift, SyncEpoch, SyncPlan, SyncFetch, SyncFetchGone,
      SyncRecord, SyncFetchesDone, ReconcileRating, ReconcileDone, NotesFetch, StoreSkip,
      StoreWrite, StoreSave, SyncDone, SyncWriteLies, StoreFails, NotesDeferred, SyncFails,
      storeVars
<1>3. CASE ParseRun \/ ParseMisreads
  BY <1>3 DEF ParseRun, ParseMisreads
<1>4. ~ParseFails /\ ~ParseCrash
  BY DEF ParseFails, ParseCrash, Fault, TablesSucceed, TypeOK, ArchiveTypeOK,
         HistTypeOK
<1>5. CASE PassStep \/ PassFault
  BY <1>5
  DEF PassStep, PassFault, PassSelect, PassDocs, PassVerify, PassSend, PassVerified, PassConfirm,
      PassSave, PassVerifyFails, PassRefused, PassFails, storeVars
<1>6. CASE StartCycle \/ Profiles \/ ProfilesFail \/ Crash \/ Rot
  BY <1>6 DEF StartCycle, Profiles, ProfilesFail, Crash, Rot, storeVars
<1>7. QED
  BY <1>1, <1>2, <1>3, <1>4, <1>5, <1>6 DEF Next, CycleStep, CycleFault

\* What is true of a shot's samples stays true while its record and its samples
\* do, unless its file gives way to a download in hand.
LEMMA DerivedStays ==
  ASSUME TypeOK, MemoryOK, TimesOK, OneLife, [Next]_vars,
         NEW i \in Ids, Archived(KeyOf(i)), Derived(i),
         shots'[KeyOf(i)].sha = shots[KeyOf(i)].sha, samples'[KeyOf(i)] = samples[KeyOf(i)],
         Pending(KeyOf(i))' \/ (OnDisk(KeyOf(i), i) /\ RawOf(KeyOf(i))' \in {RawOf(KeyOf(i)), TORN})
  PROVE  Derived(i)'
<1> DEFINE k == KeyOf(i)
<1>1. KeyOf(i)' = k
  BY NextOK, KeyStays
<1>2. i < nextId /\ GrowsOn(i) /\ life' = life
  BY WorldGrows DEF TimesOK
<1>3. Served(shots[k].sha, i)'
  BY <1>1, <1>2, ServedStays DEF Served, Derived
<1>4. Outgrown(shots[k].sha, i) => Outgrown(shots[k].sha, i)'
  BY <1>1, <1>2, ServedStays DEF Outgrown
<1>5. samples'[k] # NONE => samples'[k] = shots'[k].sha \/ Outgrown(shots[k].sha, i)'
  BY <1>4 DEF Derived
<1>6. ~Pending(k)' => OnDisk(k, i)'
  BY <1>1, <1>4 DEF OnDisk
<1>7. QED
  BY <1>1, <1>3, <1>5, <1>6 DEF Derived

\* Every step keeps the sample files beside the bytes they were derived from.
LEMMA SamplesKept ==
  ASSUME TypeOK, MemoryOK, TimesOK, SamplesOK, OneLife, NoRot, TablesSucceed, [Next]_vars
  PROVE  SamplesOK'
<1> USE DEF TypeOK, ArchiveTypeOK
<1>1. \A i \in Ids : KeyOf(i) \in Key /\ KeyOf(i)[2] = i /\ KeyOf(i)' = KeyOf(i)
  BY NextOK, KeyStays, KeyTyped DEF KeyOf
<1>2. \A i, j \in Ids : i # j => KeyOf(i) # KeyOf(j)
  BY DEF KeyOf
<1>3. ASSUME NEW i \in Ids, pc \notin {"fetched", "record"} PROVE ~Pending(KeyOf(i))
  BY <1>3 DEF Pending
<1>4. ASSUME NEW i \in Ids, SyncFetch(i) PROVE SamplesOK'
  <2>1. i \in todo /\ cur' = [id |-> i, slog |-> Slog(i)] /\ pc = "fetch" /\ pc' = "fetched"
        /\ raw' = [raw EXCEPT ![SlogPath(i)] = Slog(i)]
        /\ UNCHANGED <<samples, shots, dev, index, life, entries>> /\ entries[i] # NONE
    BY <1>4 DEF SyncFetch, OldestOf, deviceVars, Live
  <2>2. SlogPath(i) \in Path
    BY <2>1, PathTyped DEF MemoryOK, IndexLabel, RunTypeOK, IndexType, Listed, SlogPath, EntryAt,
                           IndexEntryType
  <2>3. raw'[SlogPath(cur.id)'] = cur'.slog
    BY <2>1, <2>2 DEF SlogPath, EntryAt, StoreTypeOK
  <2>4. ASSUME NEW j \in Ids, Archived(KeyOf(j)) PROVE Derived(j)'
    <3>1. OnDisk(KeyOf(j), j) /\ Derived(j)
      BY <1>3, <2>1, <2>4 DEF SamplesOK, Derived
    <3>2. CASE j = i
      BY <1>1, <2>1, <2>4, <3>1, <3>2, DerivedStays DEF Pending
    <3>3. CASE j # i
      <4>1. PathOf(shots[KeyOf(j)].ts, j) # SlogPath(i)
        BY <3>3 DEF PathOf, SlogPath
      <4>2. RawOf(KeyOf(j))' = RawOf(KeyOf(j))
        BY <1>1, <2>1, <4>1 DEF RawOf, StoreTypeOK
      <4>3. QED
        BY <2>1, <2>4, <3>1, <4>2, DerivedStays
    <3>4. QED
      BY <3>2, <3>3
  <2>5. Archived(KeyOf(i)) => /\ Derived(i) /\ shots[KeyOf(i)].sha \in Bytes
                              /\ Slog(i) = shots[KeyOf(i)].sha \/ Outgrown(shots[KeyOf(i)].sha, i)
    <3>1. ASSUME Archived(KeyOf(i)) PROVE Derived(i) /\ shots[KeyOf(i)].sha \in Bytes
      BY <1>1, <3>1 DEF SamplesOK, Archived, StoreTypeOK, Record
    <3>2. QED
      BY <2>1, <3>1, ServedNow DEF Derived
  <2>6. Served(Slog(i), i) /\ ~Outgrown(Slog(i), i)
    BY <2>1, ServedNow
  <2>7. samples[KeyOf(i)] # NONE /\ Slog(i) = shots[KeyOf(i)].sha => samples[KeyOf(i)] = Slog(i)
    BY <2>5, <2>6 DEF SamplesOK, Derived
  <2>8. InHand'
    <3>1. /\ Served(cur.slog, cur.id)'
          /\ Archived(KeyOf(i)) => Slog(i) = shots[KeyOf(i)].sha \/ Outgrown(shots[KeyOf(i)].sha, i)'
      BY <1>1, <2>1, <2>5, <2>6 DEF Served, Outgrown
    <3>2. QED
      BY <1>1, <2>1, <2>3, <2>7, <3>1 DEF InHand, Archived
  <2>9. QED
    BY <1>1, <2>1, <2>4, <2>8 DEF SamplesOK, Archived
<1>5. ASSUME pc \notin {"fetched", "record"}, pc' \notin {"fetched", "record"},
             SameRecords, samples' = samples,
             \A i \in Ids : Archived(KeyOf(i)) => RawOf(KeyOf(i))' \in {RawOf(KeyOf(i)), TORN}
      PROVE  SamplesOK'
  <2>1. ASSUME NEW i \in Ids, Archived(KeyOf(i)) PROVE Derived(i)'
    <3>1. OnDisk(KeyOf(i), i) /\ Derived(i)
      BY <1>3, <1>5, <2>1 DEF SamplesOK, Derived
    <3>2. shots'[KeyOf(i)].sha = shots[KeyOf(i)].sha
      BY <1>1, <1>5, <2>1 DEF SameRecords, SameRecord
    <3>3. QED
      BY <1>5, <2>1, <3>1, <3>2, DerivedStays
  <2>2. \A i \in Ids : Archived(KeyOf(i))' <=> Archived(KeyOf(i))
    BY <1>1, <1>5 DEF SameRecords, Archived
  <2>3. QED
    BY <1>1, <1>5, <2>1, <2>2 DEF SamplesOK
<1>6. ASSUME NEW i \in Ids, SyncWriteLies(i) PROVE SamplesOK'
  <2>1. pc = "fetch" /\ pc' = "parse" /\ raw' = [raw EXCEPT ![SlogPath(i)] = TORN]
        /\ UNCHANGED <<samples, shots, dev>> /\ ~SyncRecord
    BY <1>6 DEF SyncWriteLies, GoTo, SyncRecord
  <2>2. \A j \in Ids : RawOf(KeyOf(j))' \in {RawOf(KeyOf(j)), TORN}
    BY <1>1, <2>1 DEF RawOf, StoreTypeOK
  <2>3. QED
    BY <1>5, <2>1, <2>2, RecordsKept
<1>7. CASE SyncUnlinkStale
  <2>1. pc = "fetched" /\ pc' = "record" /\ cur.id \in Ids
        /\ UNCHANGED <<raw, shots, dev, index, cur, life, entries>>
    BY <1>7 DEF SyncUnlinkStale, MemoryOK, RunTypeOK, CurType, deviceVars
  <2>2. \A i \in Ids : i # cur.id => samples'[KeyOf(i)] = samples[KeyOf(i)]
    BY <1>1, <1>2, <1>7, <2>1 DEF SyncUnlinkStale, StoreTypeOK
  <2>3. samples'[KeyOf(cur.id)] # NONE =>
          /\ samples'[KeyOf(cur.id)] = samples[KeyOf(cur.id)]
          /\ Archived(KeyOf(cur.id)) => shots[KeyOf(cur.id)].sha = cur.slog
    BY <1>1, <1>7, <2>1 DEF SyncUnlinkStale, StoreTypeOK, Known, SameBytes
  <2>4. samples'[KeyOf(cur.id)] # NONE =>
          Archived(KeyOf(cur.id)) /\ samples'[KeyOf(cur.id)] = cur.slog
    BY <2>1, <2>3 DEF SamplesOK, InHand
  <2>5. ASSUME NEW i \in Ids, Archived(KeyOf(i)), i # cur.id PROVE Derived(i)'
    <3>1. OnDisk(KeyOf(i), i) /\ Derived(i)
      BY <1>2, <2>1, <2>5 DEF SamplesOK, Derived, Pending
    <3>2. RawOf(KeyOf(i))' = RawOf(KeyOf(i))
      BY <1>1, <2>1 DEF RawOf
    <3>3. QED
      BY <2>1, <2>2, <2>5, <3>1, <3>2, DerivedStays
  <2>6. ASSUME Archived(KeyOf(cur.id)) PROVE Derived(cur.id)'
    <3>1. Derived(cur.id)
      BY <2>1, <2>6 DEF SamplesOK
    <3>2. Pending(KeyOf(cur.id))' /\ KeyOf(cur.id)' = KeyOf(cur.id)
      BY <1>1, <2>1 DEF Pending
    <3>3. Served(shots[KeyOf(cur.id)].sha, cur.id)'
      BY <2>1, <3>1, <3>2 DEF Derived, Served
    <3>4. samples'[KeyOf(cur.id)] # NONE => samples'[KeyOf(cur.id)] = shots'[KeyOf(cur.id)].sha
      BY <2>1, <2>3, <2>4
    <3>5. QED
      BY <2>1, <3>2, <3>3, <3>4 DEF Derived
  <2>7. InHand'
    <3>1. KeyOf(cur.id)' = KeyOf(cur.id) /\ InHand
      BY <1>1, <2>1 DEF SamplesOK
    <3>2. raw'[SlogPath(cur.id)'] = cur'.slog /\ Served(cur.slog, cur.id)'
      BY <2>1, <3>1 DEF InHand, SlogPath, EntryAt, Served
    <3>3. Archived(KeyOf(cur.id)) =>
            cur.slog = shots[KeyOf(cur.id)].sha \/ Outgrown(shots[KeyOf(cur.id)].sha, cur.id)'
      BY <2>1, <3>1 DEF InHand, Outgrown
    <3>4. QED
      BY <2>1, <2>4, <3>1, <3>2, <3>3 DEF InHand, Archived
  <2>8. QED
    BY <1>1, <2>1, <2>2, <2>4, <2>5, <2>6, <2>7 DEF SamplesOK, Archived
<1>8. CASE SyncRecord
  <2>1. cur.id \in Ids /\ pc = "record" /\ pc' = "fetch" /\ UNCHANGED <<raw, samples, life, entries>>
    BY <1>8, RecordTyped DEF SyncRecord, deviceVars
  <2>2. \A i \in Ids : shots'[KeyOf(i)] = IF i = cur.id THEN NewRecord ELSE shots[KeyOf(i)]
    BY <1>1, <1>2, <1>8, <2>1 DEF SyncRecord, StoreTypeOK
  <2>3. NewRecord # NONE /\ NewRecord.sha = cur.slog /\ NewRecord.ts = EntryAt(cur.id).ts
    BY <2>1, RecordTyped DEF NewRecord
  <2>4. InHand
    BY <2>1 DEF SamplesOK
  <2>5. ASSUME NEW i \in Ids, i = cur.id PROVE Derived(i)'
    <3>1. shots'[KeyOf(i)'].sha = cur.slog /\ shots'[KeyOf(i)'].ts = EntryAt(i).ts
      BY <1>1, <2>2, <2>3, <2>5
    <3>2. Served(shots[KeyOf(i)].sha, i)'
      BY <2>1, <2>4, <2>5, <3>1 DEF InHand, Served
    <3>3. RawOf(KeyOf(i))' = cur.slog
      BY <1>1, <2>1, <2>4, <2>5, <3>1 DEF RawOf, InHand, SlogPath
    <3>4. samples'[KeyOf(i)'] # NONE => samples'[KeyOf(i)'] = cur.slog
      BY <1>1, <2>1, <2>4, <2>5 DEF InHand
    <3>5. QED
      BY <3>1, <3>2, <3>3, <3>4 DEF Derived, OnDisk
  <2>6. ASSUME NEW i \in Ids, Archived(KeyOf(i)), i # cur.id PROVE Derived(i)'
    <3>1. OnDisk(KeyOf(i), i) /\ Derived(i)
      BY <1>2, <2>1, <2>6 DEF SamplesOK, Derived, Pending
    <3>2. RawOf(KeyOf(i))' = RawOf(KeyOf(i))
      BY <1>1, <2>1, <2>2, <2>6 DEF RawOf
    <3>3. QED
      BY <2>1, <2>2, <2>6, <3>1, <3>2, DerivedStays
  <2>7. QED
    BY <1>1, <2>1, <2>2, <2>3, <2>5, <2>6 DEF SamplesOK, Archived
<1>9. ASSUME NEW unreadable, ParseAll(unreadable) PROVE SamplesOK'
  <2>1. pc = "parse" /\ pc' = "profiles" /\ UNCHANGED <<raw, life, entries>> /\ ~SyncRecord
        /\ samples' = SamplesOf(Key, unreadable)
    BY <1>9 DEF ParseAll, SyncRecord, deviceVars
  <2>2. \A i \in Ids : /\ Archived(KeyOf(i))' <=> Archived(KeyOf(i))
                       /\ Archived(KeyOf(i)) => /\ shots'[KeyOf(i)].ts = shots[KeyOf(i)].ts
                                                /\ shots'[KeyOf(i)].sha = shots[KeyOf(i)].sha
    BY <1>1, <2>1, RecordsKept DEF SameRecords, SameRecord, Archived
  <2>3. ASSUME NEW i \in Ids
        PROVE  samples'[KeyOf(i)] = IF Parses(KeyOf(i), unreadable) /\ samples[KeyOf(i)] = NONE
                                    THEN RawOf(KeyOf(i)) ELSE samples[KeyOf(i)]
    BY <1>1, <2>1 DEF SamplesOf, NeedsSamples
  <2>4. ASSUME NEW i \in Ids, Archived(KeyOf(i)) PROVE Derived(i)'
    <3>1. OnDisk(KeyOf(i), i) /\ Derived(i)
      BY <1>3, <2>1, <2>4 DEF SamplesOK, Derived
    <3>2. RawOf(KeyOf(i))' = RawOf(KeyOf(i))
      BY <1>1, <2>1, <2>2, <2>4 DEF RawOf
    <3>3. /\ Served(shots[KeyOf(i)].sha, i)'
          /\ Outgrown(shots[KeyOf(i)].sha, i)' <=> Outgrown(shots[KeyOf(i)].sha, i)
      BY <1>1, <2>1, <2>2, <2>4, <3>1 DEF Derived, Served, Outgrown
    <3>4. samples'[KeyOf(i)] \in {samples[KeyOf(i)], RawOf(KeyOf(i))}
          /\ (samples'[KeyOf(i)] # samples[KeyOf(i)] => RawOf(KeyOf(i)) # TORN)
      BY <2>3 DEF Parses
    <3>5. QED
      BY <1>1, <2>2, <2>4, <3>1, <3>2, <3>3, <3>4 DEF Derived, OnDisk
  <2>5. \A i \in Ids : samples'[KeyOf(i)] # NONE => Archived(KeyOf(i))
    BY <2>3 DEF Parses, SamplesOK
  <2>6. QED
    BY <1>1, <2>1, <2>2, <2>4, <2>5 DEF SamplesOK
<1>10. CASE UNCHANGED <<storeVars, runVars>> /\ pc \in {"fetched", "record"}
  <2>1. UNCHANGED <<raw, samples, shots, dev, pc, index, cur>> /\ cur.id \in Ids /\ InHand
    BY <1>10 DEF storeVars, runVars, MemoryOK, RunTypeOK, CurType, SamplesOK
  <2>2. ASSUME NEW i \in Ids, Archived(KeyOf(i)) PROVE Derived(i)'
    <3>1. Derived(i) /\ (Pending(KeyOf(i))' <=> Pending(KeyOf(i)))
          /\ RawOf(KeyOf(i))' = RawOf(KeyOf(i))
      BY <1>1, <2>1, <2>2 DEF SamplesOK, Pending, RawOf
    <3>2. QED
      BY <2>1, <2>2, <3>1, DerivedStays DEF Derived
  <2>3. cur.id < nextId
    BY <1>10, <2>1 DEF TimesOK, FetchLabel, MemoryOK
  <2>4. GrowsOn(cur.id) /\ life' = life
    BY <2>1, <2>3, WorldGrows
  <2>5. /\ Served(cur.slog, cur.id)'
        /\ Outgrown(shots[KeyOf(cur.id)].sha, cur.id) => Outgrown(shots[KeyOf(cur.id)].sha, cur.id)'
    BY <1>1, <2>1, <2>4, ServedStays DEF Served, Outgrown, InHand
  <2>6. InHand'
    BY <1>1, <2>1, <2>5 DEF InHand, SlogPath, EntryAt, Archived
  <2>7. QED
    BY <1>1, <2>1, <2>2, <2>6 DEF SamplesOK, Archived
<1>11. CASE pc = "record" /\ pc' = "parse" /\ UNCHANGED storeVars
  <2>1. UNCHANGED <<raw, samples, shots, dev>> /\ cur.id \in Ids /\ InHand
    BY <1>11 DEF storeVars, MemoryOK, RunTypeOK, CurType, SamplesOK
  <2>2. ASSUME NEW i \in Ids, Archived(KeyOf(i)) PROVE Derived(i)'
    <3>1. Derived(i) /\ RawOf(KeyOf(i))' = RawOf(KeyOf(i))
      BY <1>1, <2>1, <2>2 DEF SamplesOK, RawOf
    <3>2. OnDisk(KeyOf(i), i)
      <4>1. CASE i # cur.id
        BY <1>2, <2>1, <3>1, <4>1 DEF Derived, Pending
      <4>2. CASE i = cur.id
        <5>1. shots[KeyOf(i)].ts = EntryAt(i).ts
          BY <1>11, <2>2, <4>2 DEF TimesOK, FetchLabel, MemoryOK
        <5>2. RawOf(KeyOf(i)) = cur.slog
          BY <1>1, <2>1, <4>2, <5>1 DEF InHand, RawOf, SlogPath
        <5>3. QED
          BY <1>11, <2>1, <2>2, <4>2, <5>2 DEF InHand, OnDisk
      <4>3. QED
        BY <4>1, <4>2
    <3>3. QED
      BY <2>1, <2>2, <3>1, <3>2, DerivedStays
  <2>3. QED
    BY <1>1, <1>11, <2>1, <2>2 DEF SamplesOK, Archived
<1>12. CASE pc \in {"fetched", "record"}
  BY <1>7, <1>8, <1>10, <1>11, <1>12, PendingEnds DEF TablesSucceed
<1>13. CASE pc \notin {"fetched", "record"}
  <2>1. ~SyncRecord /\ ~Rot /\ ~SyncUnlinkStale
    BY <1>13 DEF SyncRecord, SyncUnlinkStale, Rot, Fault, NoRot
  <2>2. CASE raw' = raw /\ samples' = samples /\ pc' \notin {"fetched", "record"}
    <3>1. SameRecords
      BY <2>1, RecordsKept
    <3>2. \A i \in Ids : Archived(KeyOf(i)) => RawOf(KeyOf(i))' = RawOf(KeyOf(i))
      BY <1>1, <2>2, <3>1 DEF SameRecords, SameRecord, RawOf
    <3>3. QED
      BY <1>5, <1>13, <2>2, <3>1, <3>2
  <2>3. QED
    BY <1>4, <1>6, <1>9, <1>13, <2>1, <2>2, PendingStarts, RawWritten, SamplesWritten
<1>14. QED
  BY <1>12, <1>13

\* The profiles label is reached from a parse, and nothing else runs there.
LEMMA ProfilesReached ==
  ASSUME TypeOK, NoRot, TablesSucceed, [Next]_vars, pc' = "profiles", ok'
  PROVE  \/ \E unreadable : ParseAll(unreadable)
         \/ pc = "profiles" /\ ok /\ UNCHANGED <<raw, samples, shots>>
<1>1. CASE DeviceStep \/ UNCHANGED vars
  BY <1>1 DEF DeviceStep, vars, storeVars, runVars
<1>2. CASE SyncStep \/ SyncFault
  BY <1>2
  DEF SyncStep, SyncFault, SyncIndex, SyncDrift, SyncEpoch, SyncPlan, SyncFetch, SyncFetchGone,
      SyncUnlinkStale, SyncRecord, SyncFetchesDone, ReconcileRating, ReconcileDone, NotesFetch,
      StoreSkip, StoreWrite, StoreSave, SyncDone, SyncWriteLies, StoreFails, NotesDeferred,
      SyncFails, GoTo, runVars
<1>3. CASE ParseRun \/ ParseMisreads
  BY <1>3 DEF ParseRun, ParseMisreads
<1>4. ~ParseFails /\ ~ParseCrash
  BY DEF ParseFails, ParseCrash, Fault, TablesSucceed, TypeOK, ArchiveTypeOK,
         HistTypeOK
<1>5. CASE PassStep \/ PassFault
  BY <1>5
  DEF PassStep, PassFault, PassSelect, PassDocs, PassVerify, PassSend, PassVerified, PassConfirm,
      PassSave, PassVerifyFails, PassRefused, PassFails, GoTo
<1>6. CASE StartCycle \/ Profiles \/ ProfilesFail \/ Crash \/ Rot
  BY <1>6 DEF StartCycle, Profiles, ProfilesFail, Crash, Rot, GoTo, Fault, NoRot
<1>7. QED
  BY <1>1, <1>2, <1>3, <1>4, <1>5, <1>6 DEF Next, CycleStep, CycleFault

\* After a parse, the sample file of every clean shot is derived from the raw
\* file that is there now: a healed shot does not keep its stale samples
\* (sync.py 322-327, parse.py's "only when missing").  A save that fails after a
\* heal leaves an old hash in the record but no old samples: they went before it,
\* and bytes the device has outgrown are never downloaded again, so that the
\* comparison with the old hash is not fooled later.
THEOREM SamplesFollow == ASSUME OneLife, NoRot, TablesSucceed PROVE Spec => []SamplesMatchRaw
<1> DEFINE Inv == TypeOK /\ MemoryOK /\ TimesOK /\ SamplesOK /\ SamplesMatchRaw
<1>1. Init => Inv
  <2>1. ASSUME Init PROVE TimesOK /\ SamplesOK /\ SamplesMatchRaw
    <3>1. \A k \in Key : ~Archived(k) /\ samples[k] = NONE
      BY <2>1 DEF Init, ArchiveInit, Archived
    <3>2. \A i \in Ids : KeyOf(i) \in Key
      BY <2>1, InitOK, KeyTyped
    <3>3. QED
      BY <2>1, <3>1, <3>2
      DEF Init, DeviceInit, ArchiveInit, TimesOK, SamplesOK, SamplesMatchRaw, FetchLabel
  <2>2. QED
    BY <2>1, InitOK
<1>2. ASSUME Inv, [Next]_vars PROVE SamplesMatchRaw'
  <2>1. ASSUME NEW unreadable, ParseAll(unreadable), NEW k \in Key, Archived(k)',
               shots'[k].parse = "ok"
        PROVE  samples'[k] = RawOf(k)'
    <3>1. Archived(k) /\ shots[k] \in Record /\ pc = "parse" /\ raw' = raw
          /\ shots' = ParsedShots(unreadable) /\ samples' = SamplesOf(Key, unreadable)
      BY <1>2, <2>1 DEF ParseAll, ParsedShots, Archived, TypeOK, ArchiveTypeOK, StoreTypeOK
    <3>2. shots'[k].parse = Verdict(k, unreadable) /\ shots'[k].ts = shots[k].ts
      BY <3>1 DEF ParsedShots, Record
    <3>3. Parses(k, unreadable)
      BY <2>1, <3>2 DEF Verdict, Clean
    <3>4. k[2] \in Ids /\ k = KeyOf(k[2])
      BY <1>2, KeyOfId DEF Key
    <3>5. OnDisk(k, k[2]) /\ RawOf(k) # TORN
      BY <1>2, <3>1, <3>3, <3>4 DEF SamplesOK, Derived, Pending, Parses
    <3>6. samples'[k] = RawOf(k)
      BY <3>1, <3>3, <3>5 DEF SamplesOf, NeedsSamples, OnDisk
    <3>7. QED
      BY <3>1, <3>2, <3>6 DEF RawOf
  <2>2. CASE pc = "profiles" /\ ok /\ UNCHANGED <<raw, samples, shots>>
    BY <1>2, <2>2 DEF SamplesMatchRaw, RawOf, Archived
  <2>3. QED
    BY <1>2, <2>1, <2>2, NoRot, TablesSucceed, ProfilesReached DEF SamplesMatchRaw
<1>3. Inv /\ [Next]_vars => Inv'
  BY <1>2, OneLife, NoRot, TablesSucceed, NextOK, TimesKept, SamplesKept
<1>4. QED
  BY <1>1, <1>3, PTL DEF Spec

-----------------------------------------------------------------------------
\* The labels of a sync that has settled which life of the counter it is in.
EpochLabel == {"plan"} \cup CatchUpLabel

\* The counter went over the watermark in this life, or in an earlier one that
\* no sync has seen the end of.
Counted == dev.watermark # 0 /\ nextId >= dev.watermark
Overtaken == dev.watermark # 0 /\ nextId < dev.watermark

\* The watermark tells the lives of the counter apart: as long as the counter is
\* above it, the records of the current epoch are of the current life; once it
\* is below, the device is one life ahead of the ledger.
EpochOK ==
  /\ dev.watermark # 0 => dev.watermark >= 2
  /\ \A k \in Key : Archived(k) => dev.watermark # 0 /\ k[1] <= dev.epoch
  /\ Overtaken => life = dev.epoch + 1
  /\ Counted => \A k \in Key : Archived(k) /\ k[1] = dev.epoch => shots[k].sha.life = life
  /\ pc \in {"drift", "epoch"} => /\ index.next >= 2 /\ index.next <= nextId
                                  /\ Counted => index.next >= dev.watermark
  /\ pc \in EpochLabel => Counted
  /\ pc \in {"fetched", "record"} => cur.slog.life = life

\* What the theorems below assume of the world: no reset while a cycle runs,
\* and a sync between a reset and the counter's return to the watermark.
ResetsSeen == QuietCycle /\ PromptSync

\* A sync that has settled its epoch works from the same index to its end.
LEMMA CatchUpReached ==
  ASSUME [Next]_vars, pc' \in EpochLabel
  PROVE  SyncEpoch \/ (pc \in EpochLabel /\ index' = index)
<1> USE DEF EpochLabel, CatchUpLabel
<1>1. CASE DeviceStep \/ UNCHANGED vars
  BY <1>1 DEF DeviceStep, vars, runVars
<1>2. CASE SyncStep \/ SyncFault
  BY <1>2
  DEF SyncStep, SyncFault, SyncIndex, SyncDrift, SyncPlan, SyncFetch, SyncFetchGone,
      SyncUnlinkStale, SyncRecord, SyncFetchesDone, ReconcileRating, ReconcileDone, NotesFetch,
      StoreSkip, StoreWrite, StoreSave, SyncDone, SyncWriteLies, StoreFails, NotesDeferred,
      SyncFails, GoTo, runVars
<1>3. CASE ParseRun \/ ParseMisreads \/ ParseFails \/ ParseCrash
  BY <1>3 DEF ParseRun, ParseMisreads, ParseFails, ParseCrash, ParseAll, GoTo
<1>4. CASE PassStep \/ PassFault
  BY <1>4
  DEF PassStep, PassFault, PassSelect, PassDocs, PassVerify, PassSend, PassVerified, PassConfirm,
      PassSave, PassVerifyFails, PassRefused, PassFails, GoTo
<1>5. CASE StartCycle \/ Profiles \/ ProfilesFail \/ Crash \/ Rot
  BY <1>5 DEF StartCycle, Profiles, ProfilesFail, Crash, Rot, GoTo, runVars
<1>6. QED
  BY <1>1, <1>2, <1>3, <1>4, <1>5 DEF Next, CycleStep, CycleFault

\* The counter goes up, or starts over between two cycles; then it stays below
\* the watermark until a sync has come by.
LEMMA CounterMoves ==
  ASSUME TypeOK, EpochOK, ResetsSeen, [Next]_vars
  PROVE  \/ /\ life' = life /\ nextId' >= nextId
            /\ Overtaken => nextId' < dev.watermark
         \/ /\ pc = "idle" /\ UNCHANGED <<pc, dev, shots>>
            /\ life = dev.epoch /\ life' = life + 1 /\ nextId' = 1
<1> USE DEF TypeOK, DeviceTypeOK, ResetsSeen
<1>1. life \in Nat /\ nextId \in Nat /\ dev.epoch \in Nat /\ dev.watermark \in Nat
  BY DEF ArchiveTypeOK, StoreTypeOK, Ledger, Epoch
<1>2. CASE UNCHANGED <<life, nextId>>
  BY <1>1, <1>2 DEF Overtaken
<1>3. CASE DeviceStep
  <2>1. \/ RecordShot /\ BelowWatermark
        \/ Reset /\ pc = "idle" /\ life = dev.epoch
        \/ FlashFirmware \/ Tick
        \/ \E j \in Ids : \/ GrowFlush(j) \/ FinishFlush(j) \/ DamageFlush(j)
                         \/ SaveNotes(j) \/ RemoveShot(j) \/ DropEntry(j)
    BY <1>3 DEF DeviceStep, Flush
  <2>2. CASE RecordShot /\ BelowWatermark
    <3>1. life' = life /\ nextId' = nextId + 1
      BY <2>2 DEF RecordShot
    <3>2. Overtaken => nextId + 1 < dev.watermark
      BY <1>1, <2>2 DEF EpochOK, Overtaken, BelowWatermark
    <3>3. QED
      BY <1>1, <3>1, <3>2
  <2>3. CASE Reset /\ pc = "idle" /\ life = dev.epoch
    BY <1>3, <2>3 DEF Reset, DeviceStep, storeVars, runVars
  <2>4. CASE \/ FlashFirmware \/ Tick
             \/ \E j \in Ids : \/ GrowFlush(j) \/ FinishFlush(j) \/ DamageFlush(j)
                              \/ SaveNotes(j) \/ RemoveShot(j) \/ DropEntry(j)
    BY <1>2, <2>4
    DEF FlashFirmware, Tick, GrowFlush, FinishFlush, DamageFlush, SaveNotes, RemoveShot, DropEntry
  <2>5. QED
    BY <2>1, <2>2, <2>3, <2>4
<1>4. ASSUME NEW i \in Ids, PassSend(i) PROVE UNCHANGED <<life, nextId>>
  BY <1>4 DEF PassSend
<1>5. QED
  BY <1>2, <1>3, <1>4, DeviceAlone DEF deviceVars

\* The epoch step finds a reset exactly when there was one (sync.py 81-89).
LEMMA ResetFound ==
  ASSUME TypeOK, MemoryOK, EpochOK, SyncEpoch
  PROVE  /\ dev'.watermark = index.next /\ dev'.epoch = IF Overtaken THEN dev.epoch + 1 ELSE dev.epoch
         /\ Counted' /\ dev'.watermark >= 2 /\ ~Overtaken'
<1> USE DEF TypeOK, ArchiveTypeOK, DeviceTypeOK
<1>1. pc = "epoch" /\ index \in IndexType /\ dev \in Ledger /\ nextId' = nextId
      /\ dev' = [dev EXCEPT !.epoch = CurrentEpoch, !.watermark = index.next]
  BY DEF SyncEpoch, MemoryOK, IndexLabel, RunTypeOK, StoreTypeOK, deviceVars
<1>2. dev'.watermark = index.next /\ dev'.epoch = CurrentEpoch
  BY <1>1 DEF Ledger
<1>3. index.next \in Nat /\ nextId \in Nat /\ dev.watermark \in Nat
  BY <1>1 DEF IndexType, Ledger
<1>4. index.next >= 2 /\ index.next <= nextId /\ (Counted => index.next >= dev.watermark)
  BY <1>1 DEF EpochOK
<1>5. ResetDetected <=> Overtaken
  <2>1. CASE dev.watermark = 0
    BY <2>1 DEF ResetDetected, Overtaken, EpochOK
  <2>2. CASE dev.watermark # 0
    BY <1>3, <1>4, <2>2 DEF ResetDetected, Overtaken, Counted
  <2>3. QED
    BY <2>1, <2>2
<1>6. dev'.epoch = IF Overtaken THEN dev.epoch + 1 ELSE dev.epoch
  BY <1>2, <1>5 DEF CurrentEpoch
<1>7. QED
  BY <1>1, <1>2, <1>3, <1>4, <1>6 DEF Counted, Overtaken

\* Every step keeps the records of one key in one life of the counter.
LEMMA EpochKept ==
  ASSUME TypeOK, MemoryOK, EpochOK, ResetsSeen, [Next]_vars
  PROVE  /\ EpochOK'
         /\ \A k \in Key : Archived(k) => Archived(k)' /\ shots'[k].sha.life = shots[k].sha.life
<1> DEFINE Apart == \A k \in Key : Archived(k) =>
                      Archived(k)' /\ shots'[k].sha.life = shots[k].sha.life
<1> USE DEF TypeOK, ArchiveTypeOK, DeviceTypeOK
<1>1. /\ life \in Nat /\ nextId \in Nat /\ dev.epoch \in Nat /\ dev.watermark \in Nat
      /\ nextId' \in Nat /\ \A k \in Key : k[1] \in Nat
  BY NextOK DEF StoreTypeOK, Ledger, Epoch, Key
<1>2. CASE SyncRecord
  <2>1. pc = "record" /\ pc' = "fetch" /\ UNCHANGED <<life, nextId, dev>> /\ cur.id \in Ids
        /\ KeyOf(cur.id) \in Key
    BY <1>2, KeyTyped DEF SyncRecord, deviceVars, MemoryOK, RunTypeOK, CurType
  <2>2. \A k \in Key : shots'[k] = IF k = KeyOf(cur.id) THEN NewRecord ELSE shots[k]
    BY <1>2, <2>1 DEF SyncRecord, StoreTypeOK
  <2>3. NewRecord # NONE /\ NewRecord.sha.life = life
    BY <2>1, RecordTyped DEF NewRecord, EpochOK
  <2>4. Counted /\ KeyOf(cur.id)[1] = dev.epoch
    BY <2>1 DEF EpochOK, EpochLabel, CatchUpLabel, KeyOf
  <2>5. Apart
    BY <2>2, <2>3, <2>4 DEF EpochOK, Archived
  <2>6. \A k \in Key : Archived(k)' => k[1] <= dev.epoch
                                       /\ (k[1] = dev.epoch => shots'[k].sha.life = life)
    BY <1>1, <2>2, <2>3, <2>4 DEF EpochOK, Archived
  <2>7. QED
    BY <1>1, <2>1, <2>4, <2>5, <2>6 DEF EpochOK, Counted, Overtaken
<1>3. ASSUME SameRecords PROVE Apart
  BY <1>3 DEF SameRecords, SameRecord
<1>4. CASE SyncEpoch
  <2>1. UNCHANGED <<life, nextId, shots>> /\ pc' = "plan" /\ ~SyncRecord
    BY <1>4 DEF SyncEpoch, SyncRecord, deviceVars
  <2>2. \A k \in Key : Archived(k)' => k[1] <= dev'.epoch
                                       /\ (k[1] = dev'.epoch => shots'[k].sha.life = life)
    <3>1. CASE Overtaken
      BY <1>1, <1>4, <2>1, <3>1, ResetFound DEF EpochOK, Archived
    <3>2. CASE ~Overtaken
      BY <1>1, <1>4, <2>1, <3>2, ResetFound DEF EpochOK, Archived, Counted, Overtaken
    <3>3. QED
      BY <3>1, <3>2
  <2>3. EpochOK'
    BY <1>1, <1>4, <2>1, <2>2, ResetFound DEF EpochOK, Counted
  <2>4. QED
    BY <1>3, <2>1, <2>3, RecordsKept
<1>5. ASSUME dev'.epoch = dev.epoch, dev'.watermark = dev.watermark, SameRecords,
             ~SyncEpoch
      PROVE  EpochOK'
  <2>1. \A k \in Key : Archived(k)' => /\ Archived(k) /\ dev'.watermark # 0 /\ k[1] <= dev'.epoch
                                       /\ shots'[k].sha = shots[k].sha
    BY <1>5 DEF SameRecords, SameRecord, EpochOK
  <2>2. CASE pc = "idle" /\ UNCHANGED <<pc, dev, shots>> /\ life = dev.epoch /\ life' = life + 1
             /\ nextId' = 1
    <3>1. (dev.watermark # 0 => Overtaken') /\ ~Counted'
      BY <1>1, <2>2 DEF EpochOK, Overtaken, Counted
    <3>2. QED
      BY <1>1, <2>1, <2>2, <3>1 DEF EpochOK, EpochLabel, CatchUpLabel
  <2>3. CASE life' = life /\ nextId' >= nextId /\ (Overtaken => nextId' < dev.watermark)
    <3>1. (Counted' <=> Counted) /\ (Overtaken' <=> Overtaken)
      BY <1>1, <1>5, <2>3 DEF Counted, Overtaken
    <3>2. ASSUME pc' \in {"drift", "epoch"}
          PROVE  /\ index'.next >= 2 /\ index'.next <= nextId'
                 /\ Counted' => index'.next >= dev'.watermark
      <4>1. CASE SyncIndex
        <5>1. index' = Index /\ nextId > 1 /\ nextId' = nextId
          BY <3>2, <4>1 DEF SyncIndex, GoTo, IndexExists, deviceVars
        <5>2. QED
          BY <1>1, <1>5, <5>1, <3>1 DEF Index, Counted
      <4>2. CASE ~SyncIndex
        <5>1. pc \in {"drift", "epoch"} /\ index' = index
          BY <3>2, <4>2, SyncReached
          DEF StartCycle, SyncDrift, SyncEpoch, SyncPlan, SyncUnlinkStale, SyncRecord, SyncFetch,
              runVars
        <5>2. index.next \in Nat
          BY <5>1 DEF MemoryOK, IndexLabel, RunTypeOK, IndexType
        <5>3. QED
          BY <1>1, <1>5, <2>3, <3>1, <5>1, <5>2 DEF EpochOK
      <4>3. QED
        BY <4>1, <4>2
    <3>3. pc' \in EpochLabel => Counted'
      BY <1>5, <3>1, CatchUpReached DEF EpochOK
    <3>4. ASSUME pc' \in {"fetched", "record"} PROVE cur'.slog.life = life'
      <4>1. ASSUME NEW i \in Ids, SyncFetch(i) PROVE cur'.slog.life = life'
        BY <2>3, <4>1 DEF SyncFetch, Slog
      <4>2. ASSUME cur' = cur, pc \in {"fetched", "record"} PROVE cur'.slog.life = life'
        BY <2>3, <4>2 DEF EpochOK
      <4>3. QED
        BY <3>4, <4>1, <4>2, SyncReached
        DEF StartCycle, SyncIndex, SyncDrift, SyncEpoch, SyncPlan, SyncRecord, SyncUnlinkStale,
            GoTo, FetchLabel, runVars
    <3>5. QED
      BY <1>5, <2>1, <2>3, <3>1, <3>2, <3>3, <3>4 DEF EpochOK
  <2>4. QED
    BY <2>2, <2>3, CounterMoves
<1>6. QED
  BY <1>2, <1>3, <1>4, <1>5, RecordsKept, LedgerWritten

\* A manifest record never changes the life of the counter it belongs to: a reborn
\* id gets a key of its own (sync.py 72-80), for any number of resets, crashes and
\* failed saves.
THEOREM LivesKeptApart == ASSUME ResetsSeen PROVE Spec => KeysKeepLivesApart
<1> DEFINE Inv == TypeOK /\ MemoryOK /\ EpochOK
<1>1. Init => Inv
  <2>1. ASSUME Init PROVE EpochOK
    BY <2>1 DEF Init, DeviceInit, ArchiveInit, EpochOK, Archived, Overtaken, Counted, EpochLabel,
                CatchUpLabel
  <2>2. QED
    BY <2>1, InitOK
<1>2. Inv /\ [Next]_vars => Inv'
  BY ResetsSeen, NextOK, EpochKept
<1>3. Inv /\ [Next]_vars =>
        [\A k \in Key : Archived(k) =>
           shots'[k] # NONE /\ shots'[k].sha.life = shots[k].sha.life]_vars
  BY ResetsSeen, EpochKept DEF Archived
<1>4. QED
  BY <1>1, <1>2, <1>3, PTL DEF Spec, KeysKeepLivesApart

-----------------------------------------------------------------------------
\* A live shot of the index is archived or still planned.
CompleteOK ==
  /\ pc \in FetchLabel => \A i \in Ids : ListedLive(i) => i \in todo \/ Archived(KeyOf(i))
  /\ pc \in {"reconcile", "notes", "store", "stored"} =>
       \A i \in Ids : ListedLive(i) => Archived(KeyOf(i))

\* The labels after the downloads are reached with an empty plan, or from one
\* another.
LEMMA NotesReached ==
  ASSUME [Next]_vars, pc' \in {"reconcile", "notes", "store", "stored"}
  PROVE  SyncFetchesDone \/ pc \in {"reconcile", "notes", "store", "stored"}
<1>1. CASE DeviceStep \/ UNCHANGED vars
  BY <1>1 DEF DeviceStep, vars, runVars
<1>2. CASE SyncStep \/ SyncFault
  BY <1>2
  DEF SyncStep, SyncFault, SyncIndex, SyncDrift, SyncEpoch, SyncPlan, SyncFetch, SyncFetchGone,
      SyncUnlinkStale, SyncRecord, ReconcileRating, ReconcileDone, NotesFetch, StoreSkip,
      StoreWrite, StoreSave, SyncDone, SyncWriteLies, StoreFails, NotesDeferred, SyncFails, GoTo,
      runVars
<1>3. CASE ParseRun \/ ParseMisreads \/ ParseFails \/ ParseCrash
  BY <1>3 DEF ParseRun, ParseMisreads, ParseFails, ParseCrash, ParseAll, GoTo
<1>4. CASE PassStep \/ PassFault
  BY <1>4
  DEF PassStep, PassFault, PassSelect, PassDocs, PassVerify, PassSend, PassVerified, PassConfirm,
      PassSave, PassVerifyFails, PassRefused, PassFails, GoTo
<1>5. CASE StartCycle \/ Profiles \/ ProfilesFail \/ Crash \/ Rot
  BY <1>5 DEF StartCycle, Profiles, ProfilesFail, Crash, Rot, GoTo, runVars
<1>6. QED
  BY <1>1, <1>2, <1>3, <1>4, <1>5 DEF Next, CycleStep, CycleFault

LEMMA CompleteKept ==
  ASSUME TypeOK, MemoryOK, CompleteOK, [Next]_vars PROVE CompleteOK'
<1> USE DEF TypeOK, ArchiveTypeOK
<1> DEFINE Planned == \A i \in Ids : ListedLive(i) => i \in todo \/ Archived(KeyOf(i))
           Done == \A i \in Ids : ListedLive(i) => Archived(KeyOf(i))
<1>1. ASSUME pc \in EpochLabel, index' = index, ~SyncEpoch, ~SyncRecord, NEW i \in Ids
      PROVE  /\ ListedLive(i)' <=> ListedLive(i)
             /\ KeyOf(i)' = KeyOf(i) /\ (Archived(KeyOf(i))' <=> Archived(KeyOf(i)))
  <2>1. KeyOf(i)' = KeyOf(i) /\ KeyOf(i) \in Key
    BY <1>1, LedgerWritten, KeyTyped DEF KeyOf
  <2>2. QED
    BY <1>1, <2>1, RecordsKept DEF SameRecords, ListedLive, Listed, Archived
<1>2. ASSUME pc' \in FetchLabel PROVE Planned'
  <2>1. CASE SyncPlan
    <3>1. pc \in EpochLabel /\ index' = index /\ ~SyncEpoch /\ ~SyncRecord
          /\ todo' = {i \in Ids : NeedsFetch(i)}
      BY <2>1 DEF SyncPlan, SyncEpoch, SyncRecord, EpochLabel
    <3>2. \A i \in Ids : ListedLive(i) => NeedsFetch(i) \/ Archived(KeyOf(i))
      BY DEF NeedsFetch, Verified
    <3>3. QED
      BY <1>1, <3>1, <3>2
  <2>2. CASE SyncRecord
    <3>1. cur.id \in Ids /\ KeyOf(cur.id) \in Key /\ UNCHANGED <<index, dev>>
          /\ todo' = todo \ {cur.id} /\ pc \in FetchLabel
      BY <2>2, KeyTyped DEF SyncRecord, MemoryOK, RunTypeOK, CurType, FetchLabel
    <3>2. \A i \in Ids : shots'[KeyOf(i)] = IF i = cur.id THEN NewRecord ELSE shots[KeyOf(i)]
      BY <2>2, <3>1, KeyTyped DEF SyncRecord, StoreTypeOK, KeyOf
    <3>3. NewRecord # NONE
      BY <2>2, RecordTyped DEF SyncRecord
    <3>4. QED
      BY <3>1, <3>2, <3>3 DEF CompleteOK, ListedLive, Listed, Archived, KeyOf
  <2>3. CASE ~SyncPlan /\ ~SyncRecord
    <3>1. pc \in FetchLabel /\ UNCHANGED <<index, todo>> /\ ~SyncEpoch
      BY <1>2, <2>3, SyncReached
      DEF StartCycle, SyncIndex, SyncDrift, SyncEpoch, SyncUnlinkStale, SyncFetch, GoTo,
          runVars, FetchLabel
    <3>2. pc \in EpochLabel
      BY <3>1 DEF EpochLabel, CatchUpLabel, FetchLabel
    <3>3. QED
      BY <1>1, <2>3, <3>1, <3>2 DEF CompleteOK
  <2>4. QED
    BY <2>1, <2>2, <2>3
<1>3. ASSUME pc' \in {"reconcile", "notes", "store", "stored"} PROVE Done'
  <2>1. pc \in EpochLabel /\ index' = index /\ ~SyncEpoch /\ ~SyncRecord
    BY <1>3, CatchUpReached DEF SyncEpoch, SyncRecord, EpochLabel, CatchUpLabel
  <2>2. CASE SyncFetchesDone
    BY <1>1, <2>1, <2>2 DEF SyncFetchesDone, CompleteOK, FetchLabel
  <2>3. CASE pc \in {"reconcile", "notes", "store", "stored"}
    BY <1>1, <2>1, <2>3 DEF CompleteOK
  <2>4. QED
    BY <1>3, <2>2, <2>3, NotesReached
<1>4. QED
  BY <1>2, <1>3 DEF CompleteOK

\* A sync that succeeds has archived every live shot of its index, in this
\* life of the counter: nothing is taken for archived because an earlier life
\* had a shot of that id.
THEOREM SyncCompletes == ASSUME ResetsSeen PROVE Spec => SyncIsComplete
<1> DEFINE Inv == TypeOK /\ MemoryOK /\ EpochOK /\ CompleteOK
<1>1. Init => Inv
  <2>1. ASSUME Init PROVE EpochOK /\ CompleteOK
    BY <2>1 DEF Init, DeviceInit, ArchiveInit, EpochOK, Archived, Overtaken, Counted, EpochLabel,
                CatchUpLabel, CompleteOK, FetchLabel
  <2>2. QED
    BY <2>1, InitOK
<1>2. Inv /\ [Next]_vars => Inv'
  BY ResetsSeen, NextOK, EpochKept, CompleteKept
<1>3. ASSUME Inv, pc \in {"reconcile", "store"}, NEW i \in Ids, ListedLive(i)
      PROVE  Archived(KeyOf(i)) /\ shots[KeyOf(i)].sha.life = life
  <2>1. Archived(KeyOf(i)) /\ Counted
    BY <1>3 DEF CompleteOK, EpochOK, EpochLabel, CatchUpLabel
  <2>2. KeyOf(i) \in Key /\ KeyOf(i)[1] = dev.epoch
    BY <1>3, KeyTyped DEF KeyOf
  <2>3. QED
    BY <1>3, <2>1, <2>2 DEF EpochOK
<1>4. QED
  <2>1. Inv => [(pc \in {"reconcile", "store"} /\ pc' = "parse" /\ ok') =>
                  \A i \in Ids : ListedLive(i) =>
                    Archived(KeyOf(i)) /\ shots[KeyOf(i)].sha.life = life]_vars
    BY <1>3
  <2>2. QED
    BY <1>1, <1>2, <2>1, PTL DEF Spec, SyncIsComplete
=============================================================================
