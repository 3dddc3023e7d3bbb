--------------------------- MODULE DeletionProofs ---------------------------
(***************************************************************************)
(* Phase 2 deletes only what the archive holds, and what the manifest      *)
(* calls deleted is in deletions.log: theorems for every value of the      *)
(* constants.                                                              *)
(***************************************************************************)
EXTENDS CycleProofs, OrderLemmas

\* Confirmed deletions are logged before the manifest is told about them.
LogOK ==
  pc = "save" => \A i \in picked : [key |-> KeyOf(i), confirmed |-> TRUE] \in delLog

\* Every step but PassSave leaves the set of gone records as it is or smaller,
\* and no step removes a line from deletions.log.
LEMMA GoneKept ==
  ASSUME TypeOK, MemoryOK, [Next]_vars
  PROVE  /\ delLog \subseteq delLog'
         /\ \/ PassSave
            \/ \A k \in Key : Archived(k)' /\ shots'[k].gone => Archived(k) /\ shots[k].gone
<1> DEFINE Kept == \A k \in Key : Archived(k)' /\ shots'[k].gone => Archived(k) /\ shots[k].gone
<1> USE DEF TypeOK, ArchiveTypeOK
<1>1. CASE UNCHANGED <<shots, delLog>>
  BY <1>1 DEF Archived
<1>2. CASE SyncPlan
  <2>1. \A k \in Key : Archived(k) => [shots[k] EXCEPT !.tomb = TRUE].gone = shots[k].gone
    BY DEF StoreTypeOK, Archived, Record
  <2>2. QED
    BY <1>2, <2>1 DEF SyncPlan, Archived, StoreTypeOK, Tombstoned
<1>3. CASE SyncRecord
  <2>1. cur.id \in Ids
    BY <1>3 DEF SyncRecord, MemoryOK, RunTypeOK, CurType
  <2>2. KeyOf(cur.id) \in Key /\ ~NewRecord.gone
    BY <2>1, KeyTyped DEF NewRecord
  <2>3. QED
    BY <1>3, <2>2 DEF SyncRecord, Archived, StoreTypeOK
<1>4. ASSUME NEW i \in Ids, ReconcileRating(i) PROVE Kept /\ delLog' = delLog
  <2>1. KeyOf(i) \in Key /\ shots[KeyOf(i)] \in Record
    BY <1>4, KeyTyped DEF ReconcileRating, RatingDrifted, Verified, Archived, StoreTypeOK
  <2>2. shots' = [shots EXCEPT ![KeyOf(i)] = [shots[KeyOf(i)] EXCEPT !.rating = EntryAt(i).rating]]
    BY <1>4 DEF ReconcileRating
  <2>3. [shots[KeyOf(i)] EXCEPT !.rating = EntryAt(i).rating].gone = shots[KeyOf(i)].gone
    BY <2>1 DEF Record
  <2>4. QED
    BY <1>4, <2>1, <2>2, <2>3, AbsentIsApart DEF ReconcileRating, Archived, StoreTypeOK
<1>5. ASSUME NEW i \in Ids, StoreSave(i) PROVE Kept /\ delLog' = delLog
  <2>1. KeyOf(i) \in Key /\ shots[KeyOf(i)] \in Record
    BY <1>5, KeyTyped DEF StoreSave, FirstOf, MemoryOK, Archived, StoreTypeOK
  <2>2. shots' = [shots EXCEPT ![KeyOf(i)] = [shots[KeyOf(i)] EXCEPT !.json = docs[i]]]
    BY <1>5 DEF StoreSave
  <2>3. [shots[KeyOf(i)] EXCEPT !.json = docs[i]].gone = shots[KeyOf(i)].gone
    BY <2>1 DEF Record
  <2>4. QED
    BY <1>5, <2>1, <2>2, <2>3, AbsentIsApart DEF StoreSave, Archived, StoreTypeOK
<1>6. ASSUME NEW unreadable, ParseAll(unreadable) PROVE Kept /\ delLog' = delLog
  <2>1. \A k \in Key : Archived(k) =>
          [shots[k] EXCEPT !.parse = Verdict(k, unreadable)].gone = shots[k].gone
    BY DEF StoreTypeOK, Archived, Record
  <2>2. QED
    BY <1>6, <2>1 DEF ParseAll, ParsedShots, Archived
<1>7. CASE PassConfirm
  BY <1>7 DEF PassConfirm, Archived
<1>8. CASE PassSave
  BY <1>8 DEF PassSave
<1>9. CASE DeviceStep
  BY <1>9, <1>1 DEF DeviceStep, storeVars
<1>10. CASE SyncStep \/ SyncFault
  BY <1>10, <1>1, <1>2, <1>3, <1>4, <1>5
  DEF SyncStep, SyncFault, SyncIndex, SyncDrift, SyncEpoch, SyncFetch, SyncFetchGone,
      SyncUnlinkStale, SyncFetchesDone, ReconcileDone, NotesFetch, StoreSkip, StoreWrite,
      SyncDone, SyncWriteLies, StoreFails, NotesDeferred, SyncFails, storeVars
<1>11. CASE ParseRun \/ ParseMisreads \/ ParseFails \/ ParseCrash
  BY <1>11, <1>1, <1>6 DEF ParseRun, ParseMisreads, ParseFails, ParseCrash
<1>12. CASE PassStep \/ PassFault
  BY <1>12, <1>1, <1>7, <1>8
  DEF PassStep, PassFault, PassSelect, PassDocs, PassVerify, PassSend, PassVerified,
      PassVerifyFails, PassRefused, PassFails, storeVars
<1>13. CASE StartCycle \/ Profiles \/ ProfilesFail \/ Crash \/ Rot
  BY <1>13, <1>1 DEF StartCycle, Profiles, ProfilesFail, Crash, Rot, storeVars
<1>14. CASE UNCHANGED vars
  BY <1>14, <1>1 DEF vars, storeVars
<1>15. QED
  BY <1>9, <1>10, <1>11, <1>12, <1>13, <1>14 DEF Next, CycleStep, CycleFault

\* The save label is reached from the confirmation alone.
LEMMA SaveReached ==
  ASSUME TypeOK, MemoryOK, [Next]_vars, pc' = "save"
  PROVE  PassConfirm \/ UNCHANGED <<pc, picked, dev>>
<1>1. CASE DeviceStep
  BY <1>1 DEF DeviceStep, storeVars, runVars
<1>2. CASE SyncStep \/ SyncFault
  BY <1>2
  DEF SyncStep, SyncFault, SyncIndex, SyncDrift, SyncEpoch, SyncPlan, SyncFetch, SyncFetchGone,
      SyncUnlinkStale, SyncRecord, SyncFetchesDone, ReconcileRating, ReconcileDone, NotesFetch,
      StoreSkip, StoreWrite, StoreSave, SyncDone, SyncWriteLies, StoreFails, NotesDeferred,
      SyncFails, GoTo, runVars, storeVars
<1>3. CASE ParseRun \/ ParseMisreads \/ ParseFails \/ ParseCrash
  BY <1>3 DEF ParseRun, ParseMisreads, ParseFails, ParseCrash, ParseAll, GoTo
<1>4. CASE PassStep \/ PassFault
  BY <1>4
  DEF PassStep, PassFault, PassSelect, PassDocs, PassVerify, PassSend, PassVerified, PassSave,
      PassVerifyFails, PassRefused, PassFails, GoTo, storeVars
<1>5. CASE StartCycle \/ Profiles \/ ProfilesFail \/ Crash \/ Rot
  BY <1>5 DEF StartCycle, Profiles, ProfilesFail, Crash, Rot, GoTo, runVars, storeVars
<1>6. CASE UNCHANGED vars
  BY <1>6 DEF vars, storeVars, runVars
<1>7. QED
  BY <1>1, <1>2, <1>3, <1>4, <1>5, <1>6 DEF Next, CycleStep, CycleFault

\* Every step keeps the log ahead of the manifest (delete_pass.py 158-176).
LEMMA LogKept ==
  ASSUME TypeOK, MemoryOK, LogOK, GoneIsLogged, [Next]_vars
  PROVE  LogOK' /\ GoneIsLogged'
<1>1. LogOK'
  <2>1. CASE PassConfirm
    BY <2>1 DEF PassConfirm, LogOK, KeyOf
  <2>2. CASE pc' = "save" /\ UNCHANGED <<pc, picked, dev>>
    BY <2>2, GoneKept DEF LogOK, KeyOf
  <2>3. QED
    BY <2>1, <2>2, SaveReached DEF LogOK
<1>2. GoneIsLogged'
  <2>1. CASE PassSave
    <3>1. ASSUME NEW k \in Key, Archived(k)', shots'[k].gone
          PROVE  [key |-> k, confirmed |-> TRUE] \in delLog
      BY <2>1, <3>1 DEF PassSave, LogOK, GoneIsLogged, Archived
    <3>2. QED
      BY <2>1, <3>1 DEF PassSave, GoneIsLogged
  <2>2. CASE ~PassSave
    BY <2>2, GoneKept DEF GoneIsLogged
  <2>3. QED
    BY <2>1, <2>2
<1>3. QED
  BY <1>1, <1>2

\* A record is marked as deleted by phase 2 only when deletions.log already has
\* the confirmed line: at every crash point, after every failure.
THEOREM GoneLogged == Spec => []GoneIsLogged
<1>1. Init => TypeOK /\ MemoryOK /\ LogOK /\ GoneIsLogged
  <2>1. ASSUME Init PROVE LogOK /\ GoneIsLogged
    BY <2>1 DEF Init, ArchiveInit, LogOK, GoneIsLogged, Archived
  <2>2. QED
    BY <2>1, InitOK
<1>2. TypeOK /\ MemoryOK /\ LogOK /\ GoneIsLogged /\ [Next]_vars
        => (TypeOK /\ MemoryOK /\ LogOK /\ GoneIsLogged)'
  BY NextOK, LogKept
<1>3. QED
  BY <1>1, <1>2, PTL DEF Spec

-----------------------------------------------------------------------------
\* A shot's file belongs to the day it is pulled: what is still being flushed
\* is of today, and an id without an entry has not been handed out yet or has
\* been dropped.
FlushOK ==
  \A i \in Ids : entries[i] # NONE =>
    /\ i < nextId
    /\ entries[i].ts <= today
    /\ entries[i].open => entries[i].ts = today

\* What the choice of a candidate established and a running pass keeps true.
Chosen(i) ==
  /\ i < nextId
  /\ Verified(KeyOf(i)) /\ shots[KeyOf(i)].parse = "ok"
  /\ Live(i) => today - entries[i].ts >= GraceDays

\* ... and what the verification added.
Proven(i) ==
  /\ Chosen(i)
  /\ RawOf(KeyOf(i)) = shots[KeyOf(i)].sha
  /\ Live(i) => Slog(i) = shots[KeyOf(i)].sha

PassOK ==
  /\ pc \in {"docs", "verify"} => \A i \in todo : Chosen(i)
  /\ pc \in {"verify", "send"} => \A i \in picked : Proven(i)
  /\ pc = "send" => todo \subseteq picked

\* Every step keeps the fact that an open flush is of the current day.
LEMMA FlushKept ==
  ASSUME TypeOK, FlushOK, [Next]_vars PROVE FlushOK'
<1> USE DEF TypeOK, DeviceTypeOK
<1>1. ASSUME UNCHANGED deviceVars PROVE FlushOK'
  BY <1>1 DEF FlushOK, deviceVars
<1>2. ASSUME NEW i \in Ids, PassSend(i) PROVE FlushOK'
  BY <1>2 DEF FlushOK, PassSend, Entry, Live
<1>3. ASSUME RecordShot PROVE FlushOK'
  <2>1. nextId \in Ids
    BY <1>3, SizesAreNat DEF RecordShot, Ids
  <2>2. PICK timed \in Timed, stage \in Stage :
       entries' = [entries EXCEPT ![nextId] =
         [ts |-> today, timed |-> timed, stage |-> stage, open |-> stage # "full",
          fw |-> fw.slog, doc |-> NONE, deleted |-> FALSE]]
    BY <1>3 DEF RecordShot
  <2>3. nextId' = nextId + 1 /\ today' = today /\ today \in Nat
    BY <1>3, SizesAreNat DEF RecordShot
  <2>4. ASSUME NEW i \in Ids, entries'[i] # NONE
        PROVE  i < nextId' /\ entries'[i].ts <= today' /\ (entries'[i].open => entries'[i].ts = today')
    <3>1. CASE i = nextId
      BY <2>1, <2>2, <2>3, <3>1
    <3>2. CASE i # nextId
      <4>1. entries'[i] = entries[i]
        BY <2>1, <2>2, <3>2
      <4>2. i < nextId /\ i \in Nat /\ nextId \in Nat
        BY <2>4, <4>1 DEF FlushOK, Ids
      <4>3. QED
        BY <2>3, <2>4, <4>1, <4>2 DEF FlushOK
    <3>3. QED
      BY <3>1, <3>2
  <2>5. QED
    BY <2>4 DEF FlushOK
<1>4. ASSUME NEW i \in Ids, GrowFlush(i) \/ FinishFlush(i) \/ DamageFlush(i) PROVE FlushOK'
  BY <1>4 DEF FlushOK, GrowFlush, FinishFlush, DamageFlush, Entry, Live
<1>5. ASSUME NEW i \in Ids, SaveNotes(i) PROVE FlushOK'
  BY <1>5 DEF FlushOK, SaveNotes, Entry, Live
<1>6. ASSUME NEW i \in Ids, RemoveShot(i) PROVE FlushOK'
  BY <1>6 DEF FlushOK, RemoveShot, Entry, Live
<1>7. ASSUME NEW i \in Ids, DropEntry(i) PROVE FlushOK'
  BY <1>7 DEF FlushOK, DropEntry
<1>8. ASSUME Reset PROVE FlushOK'
  BY <1>8 DEF FlushOK, Reset
<1>9. ASSUME FlashFirmware PROVE FlushOK'
  BY <1>9 DEF FlushOK, FlashFirmware
<1>10. ASSUME Tick PROVE FlushOK'
  <2>1. \A i \in Ids : entries[i] # NONE => entries[i].ts \in Nat
    BY SizesAreNat DEF Entry
  <2>2. today \in Nat /\ today' = today + 1
    BY <1>10, SizesAreNat DEF Tick
  <2>3. QED
    BY <1>10, <2>1, <2>2 DEF FlushOK, Tick
<1>11. CASE DeviceStep
  BY <1>3, <1>4, <1>5, <1>6, <1>7, <1>8, <1>9, <1>10, <1>11 DEF DeviceStep, Flush
<1>12. QED
  BY <1>1, <1>2, <1>11, DeviceAlone

\* What the theorem assumes of the world: no reset while a cycle runs, no
\* archived file damaged while phase 2 runs, and a grace period of a day.
QuietWorld == QuietCycle /\ QuietPass /\ GraceDays >= 1

\* A shot out of the grace period is not being flushed any more.
LEMMA ChosenSettled ==
  ASSUME TypeOK, FlushOK, GraceDays >= 1, NEW i \in Ids, Chosen(i), Live(i)
  PROVE  ~entries[i].open
BY SizesAreNat, ConfigTyped DEF Chosen, FlushOK, Live, TypeOK, DeviceTypeOK, Entry

\* No device event touches what a candidate was chosen or proven by.
LEMMA DeviceKeepsProof ==
  ASSUME TypeOK, FlushOK, QuietWorld, DeviceStep, pc # "idle", NEW i \in Ids
  PROVE  (Chosen(i) => Chosen(i)') /\ (Proven(i) => Proven(i)')
<1> USE DEF TypeOK, DeviceTypeOK, QuietWorld
<1> DEFINE Same(j) ==
      Live(j)' => Live(j) /\ entries'[j].ts = entries[j].ts /\ entries'[j].fw = entries[j].fw
                  /\ entries'[j].stage = entries[j].stage
<1>1. UNCHANGED <<raw, shots, dev>>
  BY DEF DeviceStep, storeVars
<1>2. \/ RecordShot \/ FlashFirmware \/ Tick
      \/ \E j \in Ids : \/ GrowFlush(j) \/ FinishFlush(j) \/ DamageFlush(j)
                       \/ SaveNotes(j) \/ RemoveShot(j) \/ DropEntry(j)
  BY DEF DeviceStep, Flush
<1>3. life' = life /\ nextId' \in Nat /\ nextId' >= nextId /\ today' \in Nat /\ today' >= today
  <2>1. nextId \in Nat /\ today \in Nat
    BY SizesAreNat
  <2>2. \A n \in Nat : n + 1 \in Nat /\ n + 1 >= n /\ n >= n
    OBVIOUS
  <2>3. CASE RecordShot \/ FlashFirmware \/ Tick
    BY <2>1, <2>2, <2>3 DEF RecordShot, FlashFirmware, Tick
  <2>4. ASSUME NEW j \in Ids,
               \/ GrowFlush(j) \/ FinishFlush(j) \/ DamageFlush(j)
               \/ SaveNotes(j) \/ RemoveShot(j) \/ DropEntry(j)
        PROVE  UNCHANGED <<life, nextId, today>>
    BY <2>4 DEF GrowFlush, FinishFlush, DamageFlush, SaveNotes, RemoveShot, DropEntry
  <2>5. QED
    BY <1>2, <2>1, <2>2, <2>3, <2>4
<1>4. ASSUME Chosen(i) PROVE Same(i)
  <2>1. CASE RecordShot
    BY <1>4, <2>1 DEF RecordShot, Chosen, Live
  <2>2. ASSUME NEW j \in Ids, GrowFlush(j) \/ FinishFlush(j) \/ DamageFlush(j) PROVE Same(i)
    <3>1. CASE i = j
      BY <1>4, <2>2, <3>1, ChosenSettled DEF GrowFlush, FinishFlush, DamageFlush
    <3>2. CASE i # j
      BY <2>2, <3>2 DEF GrowFlush, FinishFlush, DamageFlush, Live
    <3>3. QED
      BY <3>1, <3>2
  <2>3. ASSUME NEW j \in Ids, SaveNotes(j) PROVE Same(i)
    BY <2>3 DEF SaveNotes, Live, Entry
  <2>4. ASSUME NEW j \in Ids, RemoveShot(j) PROVE Same(i)
    BY <2>4 DEF RemoveShot, Live, Entry
  <2>5. ASSUME NEW j \in Ids, DropEntry(j) PROVE Same(i)
    BY <2>5 DEF DropEntry, Live
  <2>6. CASE FlashFirmware \/ Tick
    BY <2>6 DEF FlashFirmware, Tick, Live
  <2>7. QED
    BY <1>2, <2>1, <2>2, <2>3, <2>4, <2>5, <2>6
<1>5. ASSUME Chosen(i) PROVE Chosen(i)'
  <2>1. i < nextId'
    BY <1>3, <1>5 DEF Chosen, Ids
  <2>2. ASSUME Live(i)' PROVE today' - entries'[i].ts >= GraceDays
    <3>1. entries[i].ts \in Nat /\ today \in Nat
      BY <1>4, <1>5, <2>2, SizesAreNat DEF Entry, Live
    <3>2. today - entries[i].ts >= GraceDays /\ entries'[i].ts = entries[i].ts
      BY <1>4, <1>5, <2>2 DEF Chosen
    <3>3. QED
      BY <1>3, <3>1, <3>2, ConfigTyped
  <2>3. QED
    BY <1>1, <1>5, <2>1, <2>2 DEF Chosen, Verified, Archived, KeyOf
<1>6. ASSUME Proven(i) PROVE Proven(i)'
  <2>1. Chosen(i) /\ Chosen(i)'
    BY <1>5, <1>6 DEF Proven
  <2>2. Live(i)' => Live(i) /\ Slog(i)' = Slog(i)
    BY <1>3, <1>4, <2>1 DEF Slog
  <2>3. QED
    BY <1>1, <1>6, <2>1, <2>2 DEF Proven, RawOf, KeyOf
<1>7. QED
  BY <1>5, <1>6

\* Nor does a step of the pass, while it reads and deletes.
LEMMA PassKeepsProof ==
  ASSUME TypeOK, UNCHANGED <<life, nextId, today, raw, shots, dev>>, NEW i \in Ids,
         \/ UNCHANGED entries
         \/ \E j \in Ids : Live(j) /\ entries' = [entries EXCEPT ![j].deleted = TRUE]
  PROVE  (Chosen(i) => Chosen(i)') /\ (Proven(i) => Proven(i)')
<1>1. Live(i)' => Live(i) /\ entries'[i].ts = entries[i].ts /\ entries'[i].fw = entries[i].fw
                  /\ entries'[i].stage = entries[i].stage
  BY EntryDataTyped, NoneIsNoEntry DEF Live, TypeOK, DeviceTypeOK, Entry
<1>2. Chosen(i) => Chosen(i)'
  BY <1>1 DEF Chosen, Verified, Archived, KeyOf
<1>3. Proven(i) => Proven(i)'
  BY <1>1, <1>2 DEF Proven, RawOf, KeyOf, Slog
<1>4. QED
  BY <1>2, <1>3

\* The labels of a pass are reached from the pass alone.
LEMMA PassReached ==
  ASSUME [Next]_vars, pc' \in {"docs", "verify", "send"}
  PROVE  \/ PassSelect \/ PassDocs \/ PassVerified
         \/ \E i \in Ids : PassVerify(i) \/ PassVerifyFails(i) \/ PassSend(i) \/ PassRefused(i)
         \/ DeviceStep
         \/ Rot
         \/ UNCHANGED vars
<1>1. CASE SyncStep \/ SyncFault
  BY <1>1
  DEF SyncStep, SyncFault, SyncIndex, SyncDrift, SyncEpoch, SyncPlan, SyncFetch, SyncFetchGone,
      SyncUnlinkStale, SyncRecord, SyncFetchesDone, ReconcileRating, ReconcileDone, NotesFetch,
      StoreSkip, StoreWrite, StoreSave, SyncDone, SyncWriteLies, StoreFails, NotesDeferred,
      SyncFails, GoTo, runVars
<1>2. CASE ParseRun \/ ParseMisreads \/ ParseFails \/ ParseCrash
  BY <1>2 DEF ParseRun, ParseMisreads, ParseFails, ParseCrash, ParseAll, GoTo
<1>3. CASE PassStep \/ PassFault
  BY <1>3 DEF PassStep, PassFault, PassConfirm, PassSave, PassFails, GoTo
<1>4. CASE StartCycle \/ Profiles \/ ProfilesFail \/ Crash
  BY <1>4 DEF StartCycle, Profiles, ProfilesFail, Crash, GoTo
<1>5. QED
  BY <1>1, <1>2, <1>3, <1>4 DEF Next, CycleStep, CycleFault

\* A candidate is an eligible shot of the index the device serves now.
LEMMA SelectChooses ==
  ASSUME TypeOK, FlushOK, NEW i \in Candidates(Index) PROVE Chosen(i)
<1>1. i \in Ids /\ Eligible(Index, i)
  BY DEF Candidates
<1>2. entries[i] # NONE /\ Index.entries[i] = IndexEntry(entries[i])
  BY <1>1 DEF Eligible, LiveIn, Index
<1>3. today - entries[i].ts >= GraceDays
  BY <1>1, <1>2 DEF Eligible, OutOfGrace, IndexEntry
<1>4. QED
  BY <1>1, <1>2, <1>3 DEF Eligible, Deletable, Chosen, FlushOK

\* Every step keeps what the running pass has chosen and proven.
LEMMA PassKept ==
  ASSUME TypeOK, MemoryOK, FlushOK, PassOK, QuietWorld, [Next]_vars PROVE PassOK'
<1> USE DEF QuietWorld
<1>1. CASE pc' \notin {"docs", "verify", "send"}
  BY <1>1 DEF PassOK
<1>2. ASSUME PassSelect, pc' \in {"docs", "verify", "send"} PROVE PassOK'
  <2>1. pc' = "docs" /\ todo' = Candidates(Index) /\ UNCHANGED <<deviceVars, storeVars>>
    BY <1>2 DEF PassSelect, GoTo
  <2>2. \A i \in todo' : i \in Ids /\ Chosen(i)
    BY <2>1, SelectChooses DEF Candidates
  <2>3. \A i \in todo' : Chosen(i)'
    BY <2>1, <2>2, PassKeepsProof DEF deviceVars, storeVars
  <2>4. QED
    BY <2>1, <2>3 DEF PassOK
<1>3. ASSUME PassDocs PROVE PassOK'
  <2>1. picked = {} /\ todo \subseteq Ids
    BY <1>3 DEF PassDocs, MemoryOK, TypeOK, ArchiveTypeOK, RunTypeOK
  <2>2. \A i \in todo : Chosen(i)'
    BY <1>3, <2>1, PassKeepsProof DEF PassDocs, PassOK, deviceVars, storeVars
  <2>3. QED
    BY <1>3, <2>1, <2>2 DEF PassDocs, PassOK
<1>4. ASSUME PassVerified, pc' \in {"docs", "verify", "send"} PROVE PassOK'
  <2>1. pc = "verify" /\ pc' = "send" /\ todo' = picked /\ picked' = picked
    BY <1>4 DEF PassVerified, GoTo
  <2>2. \A i \in picked : i \in Ids /\ Proven(i)
    BY <2>1 DEF PassOK, TypeOK, ArchiveTypeOK, RunTypeOK
  <2>3. \A i \in picked : Proven(i)'
    BY <1>4, <2>2, PassKeepsProof DEF PassVerified, deviceVars, storeVars
  <2>4. QED
    BY <2>1, <2>3 DEF PassOK
<1>5. ASSUME NEW i \in Ids, PassVerify(i) \/ PassVerifyFails(i) PROVE PassOK'
  <2>1. pc = "verify" /\ pc' = "verify" /\ i \in todo /\ todo' = todo \ {i}
        /\ UNCHANGED <<deviceVars, storeVars>>
    BY <1>5 DEF PassVerify, PassVerifyFails, OldestOf
  <2>2. \A j \in todo \cup picked : j \in Ids
    BY DEF TypeOK, ArchiveTypeOK, RunTypeOK
  <2>3. \A j \in todo' : Chosen(j)'
    BY <2>1, <2>2, PassKeepsProof DEF PassOK, deviceVars, storeVars
  <2>4. \A j \in picked' : j \in Ids /\ Proven(j)
    BY <1>5, <2>1, <2>2
    DEF PassVerify, PassVerifyFails, PassOK, Proven, DeviceMatches, ArchiveMatches
  <2>5. \A j \in picked' : Proven(j)'
    BY <2>1, <2>4, PassKeepsProof DEF deviceVars, storeVars
  <2>6. QED
    BY <2>1, <2>3, <2>5 DEF PassOK
<1>6. ASSUME NEW i \in Ids, PassSend(i) \/ PassRefused(i) PROVE PassOK'
  <2>1. pc = "send" /\ pc' = "send" /\ todo' \subseteq todo /\ picked' = picked
        /\ UNCHANGED <<life, nextId, today, raw, shots, dev>>
    BY <1>6 DEF PassSend, PassRefused, OldestOf, deviceVars, storeVars
  <2>2. \/ UNCHANGED entries
        \/ \E j \in Ids : Live(j) /\ entries' = [entries EXCEPT ![j].deleted = TRUE]
    BY <1>6 DEF PassSend, PassRefused, deviceVars
  <2>3. \A j \in picked : j \in Ids /\ Proven(j)
    BY <2>1 DEF PassOK, TypeOK, ArchiveTypeOK, RunTypeOK
  <2>4. \A j \in picked : Proven(j)'
    BY <2>1, <2>2, <2>3, PassKeepsProof
  <2>5. QED
    BY <2>1, <2>4 DEF PassOK
<1>7. ASSUME DeviceStep, pc \in {"docs", "verify", "send"} PROVE PassOK'
  <2>1. UNCHANGED <<pc, todo, picked>>
    BY <1>7 DEF DeviceStep, runVars
  <2>2. \A i \in todo \cup picked : i \in Ids
    BY DEF TypeOK, ArchiveTypeOK, RunTypeOK
  <2>3. QED
    BY <1>7, <2>1, <2>2, DeviceKeepsProof DEF PassOK
<1>8. ASSUME DeviceStep, pc' \in {"docs", "verify", "send"} PROVE pc \in {"docs", "verify", "send"}
  BY <1>8 DEF DeviceStep, runVars
<1>9. ASSUME Rot PROVE pc' \notin {"docs", "verify", "send"}
  BY <1>9 DEF Rot, runVars, PassLabel
<1>10. CASE UNCHANGED vars
  BY <1>10 DEF vars, deviceVars, storeVars, runVars, PassOK, Chosen, Proven, Verified, Archived,
               RawOf, KeyOf, Live, Slog
<1>11. QED
  BY <1>1, <1>2, <1>3, <1>4, <1>5, <1>6, <1>7, <1>8, <1>9, <1>10, PassReached

\* A step that erases a shot is PassSend of a shot the pass has proven.
LEMMA ErasesProven ==
  ASSUME PassOK, NEW i \in Ids, Erases(i) PROVE ArchiveHolds(i)
BY DEF PassOK, Erases, Proven, Chosen, ArchiveHolds

\* Whatever the device does between the index read and the deletions, short of
\* a reset, phase 2 deletes a shot only while the raw file, the manifest and
\* the device hold the same bytes and they parsed clean.
THEOREM DeletesOnlyArchived == ASSUME QuietWorld PROVE Spec => EraseOnlyArchived
<1> DEFINE Inv == TypeOK /\ MemoryOK /\ FlushOK /\ PassOK
<1>1. Init => Inv
  <2>1. ASSUME Init PROVE FlushOK /\ PassOK
    BY <2>1 DEF Init, DeviceInit, ArchiveInit, FlushOK, PassOK
  <2>2. QED
    BY <2>1, InitOK
<1>2. Inv /\ [Next]_vars => Inv'
  BY QuietWorld, NextOK, FlushKept, PassKept
<1>3. Inv => [\A i \in Ids : Erases(i) => ArchiveHolds(i)]_vars
  BY ErasesProven
<1>4. QED
  BY <1>1, <1>2, <1>3, PTL DEF Spec, EraseOnlyArchived

-----------------------------------------------------------------------------
\* An index is finite, and so is every part of it.
LEMMA IdsFinite ==
  /\ IsFiniteSet(Ids)
  /\ \A S \in SUBSET Ids : IsFiniteSet(S) /\ Cardinality(S) \in Nat
  /\ \A S \in SUBSET Ids : \A T \in SUBSET S : Cardinality(T) <= Cardinality(S)
<1>1. IsFiniteSet(Ids)
  BY SizesAreNat, FS_Interval DEF Ids
<1>2. \A S \in SUBSET Ids : IsFiniteSet(S) /\ Cardinality(S) \in Nat
  BY <1>1, FS_Subset, FS_CardinalityType
<1>3. QED
  BY <1>1, <1>2, FS_Subset

\* Age orders the live shots of an index strictly, and a set of them has a youngest.
LEMMA AgeOrders ==
  ASSUME NEW ix \in IndexType, NEW S \in SUBSET Ids,
         \A i \in S : ix.entries[i] # NONE
  PROVE  /\ \A i, j \in S : OlderIn(ix, i, j) => ~OlderIn(ix, j, i)
         /\ S # {} => \E i \in S : \A j \in S \ {i} : OlderIn(ix, j, i)
<1>1. \A i \in S : i \in Nat /\ i \in 0..MaxShots /\ ix.entries[i].ts \in 0..MaxDay
                   /\ ix.entries[i].ts \in Nat
  BY SizesAreNat DEF Ids, IndexType, IndexEntryType, Day
<1>2. \A i, j \in S : OlderIn(ix, i, j) => ~OlderIn(ix, j, i)
  BY <1>1 DEF OlderIn
<1>3. ASSUME S # {} PROVE \E i \in S : \A j \in S \ {i} : OlderIn(ix, j, i)
  <2> DEFINE mark == [i \in S |-> ix.entries[i].ts]
  <2>1. S \subseteq 0..MaxShots /\ \A i \in S : mark[i] \in 0..MaxDay
    BY <1>1
  <2> HIDE DEF mark
  <2>2. PICK i \in S : Latest(S, mark, i)
    BY <1>3, <2>1, SizesAreNat, LatestExists
  <2>3. \A j \in S \ {i} : OlderIn(ix, j, i)
    BY <2>2 DEF Latest, OlderIn, mark
  <2>4. QED
    BY <2>3
<1>4. QED
  BY <1>2, <1>3

\* The choice stops at the cap (delete_pass.py 112): counting the eligible shots
\* older than each chosen one bounds the number of chosen ones.
LEMMA ChoiceCapped ==
  ASSUME TypeOK, MaxPerRun >= 1 PROVE Cardinality(Candidates(Index)) <= MaxPerRun
<1> DEFINE S == Candidates(Index)
<1>1. S \in SUBSET Ids /\ \A i \in S : Eligible(Index, i) /\ WithinCap(Index, i)
                                       /\ Index.entries[i] # NONE
  BY DEF Candidates, Eligible, LiveIn
<1>2. IsFiniteSet(S) /\ Cardinality(S) \in Nat
  BY <1>1, IdsFinite
<1>3. CASE S = {}
  BY <1>3, FS_EmptySet, ConfigTyped
<1>4. CASE S # {}
  <2>1. PICK i \in S : \A j \in S \ {i} : OlderIn(Index, j, i)
    BY <1>1, <1>4, IndexTyped, AgeOrders
  <2> DEFINE older == {j \in Ids : Eligible(Index, j) /\ OlderIn(Index, j, i)}
  <2>2. S \ {i} \subseteq older
    BY <1>1, <2>1
  <2>3. Cardinality(S \ {i}) <= Cardinality(older) /\ Cardinality(older) \in Nat
    BY <2>2, IdsFinite
  <2>4. Cardinality(older) = 0 \/ Cardinality(older) < MaxPerRun
    BY <1>1, <2>1 DEF WithinCap
  <2>5. Cardinality(S \ {i}) = Cardinality(S) - 1
    BY <1>2, <2>1, FS_RemoveElement
  <2>6. QED
    BY <1>2, <2>3, <2>4, <2>5, ConfigTyped
<1>5. QED
  BY <1>3, <1>4

\* Phase 2 starts with an empty list: a sync that ends, with or without an
\* exception, leaves nothing to do.
RestOK == pc \in {"parse", "profiles", "phase2"} => todo = {}

\* A pass handles shots it has chosen, and takes on no other.
LEMMA PassShrinks ==
  ASSUME TypeOK, MemoryOK, RestOK, [Next]_vars, pc' \in PassLabel
  PROVE  \/ pc \in PassLabel /\ todo' \cup picked' \subseteq todo \cup picked
         \/ pc' = "phase2" /\ todo' \cup picked' = {}
         \/ PassSelect /\ todo' = Candidates(Index) /\ picked' = {}
<1> USE DEF PassLabel, SyncLabel
<1>1. CASE DeviceStep \/ UNCHANGED vars
  BY <1>1 DEF DeviceStep, vars, runVars
<1>2. CASE SyncStep \/ SyncFault
  BY <1>2
  DEF SyncStep, SyncFault, SyncIndex, SyncDrift, SyncEpoch, SyncPlan, SyncFetch, SyncFetchGone,
      SyncUnlinkStale, SyncRecord, SyncFetchesDone, ReconcileRating, ReconcileDone, NotesFetch,
      StoreSkip, StoreWrite, StoreSave, SyncDone, SyncWriteLies, StoreFails, NotesDeferred,
      SyncFails, GoTo, runVars
<1>3. CASE ParseRun \/ ParseMisreads \/ ParseFails \/ ParseCrash
  BY <1>3 DEF ParseRun, ParseMisreads, ParseFails, ParseCrash, ParseAll, GoTo
<1>4. CASE PassSelect
  BY <1>4 DEF PassSelect, GoTo, MemoryOK
<1>5. CASE PassVerified \/ PassConfirm \/ PassSave \/ PassDocs \/ PassFails
  BY <1>5 DEF PassVerified, PassConfirm, PassSave, PassDocs, PassFails, GoTo
<1>6. ASSUME NEW i \in Ids, PassVerify(i) \/ PassVerifyFails(i) \/ PassSend(i) \/ PassRefused(i)
      PROVE  pc \in PassLabel /\ todo' \cup picked' \subseteq todo \cup picked
  BY <1>6 DEF PassVerify, PassVerifyFails, PassSend, PassRefused, OldestOf
<1>7. CASE Profiles
  BY <1>7 DEF Profiles, RestOK, MemoryOK
<1>8. CASE StartCycle \/ ProfilesFail \/ Crash \/ Rot
  BY <1>8 DEF StartCycle, ProfilesFail, Crash, Rot, GoTo, runVars
<1>9. QED
  BY <1>1, <1>2, <1>3, <1>4, <1>5, <1>6, <1>7, <1>8
  DEF Next, CycleStep, CycleFault, PassStep, PassFault

LEMMA RestKept ==
  ASSUME TypeOK, RestOK, [Next]_vars PROVE RestOK'
<1>1. CASE DeviceStep \/ UNCHANGED vars
  BY <1>1 DEF DeviceStep, vars, runVars, RestOK
<1>2. CASE SyncStep \/ SyncFault
  BY <1>2
  DEF SyncStep, SyncFault, SyncIndex, SyncDrift, SyncEpoch, SyncPlan, SyncFetch, SyncFetchGone,
      SyncUnlinkStale, SyncRecord, SyncFetchesDone, ReconcileRating, ReconcileDone, NotesFetch,
      StoreSkip, StoreWrite, StoreSave, SyncDone, SyncWriteLies, StoreFails, NotesDeferred,
      SyncFails, GoTo, runVars, RestOK
<1>3. CASE ParseRun \/ ParseMisreads \/ ParseFails \/ ParseCrash
  BY <1>3 DEF ParseRun, ParseMisreads, ParseFails, ParseCrash, ParseAll, GoTo, RestOK
<1>4. CASE PassStep \/ PassFault
  BY <1>4
  DEF PassStep, PassFault, PassSelect, PassDocs, PassVerify, PassSend, PassVerified, PassConfirm,
      PassSave, PassVerifyFails, PassRefused, PassFails, GoTo, RestOK
<1>5. CASE StartCycle \/ Profiles \/ ProfilesFail \/ Crash \/ Rot
  BY <1>5 DEF StartCycle, Profiles, ProfilesFail, Crash, Rot, GoTo, runVars, RestOK
<1>6. QED
  BY <1>1, <1>2, <1>3, <1>4, <1>5 DEF Next, CycleStep, CycleFault

\* However many shots are due, a pass never holds more than MaxPerRun of them,
\* sent or still to send.  A cap of 0 would still let one through: the loop
\* appends a candidate before it compares (delete_pass.py 111-113).
THEOREM NeverOverCap == ASSUME MaxPerRun >= 1 PROVE Spec => []DeletionCapped
<1> DEFINE Inv == TypeOK /\ MemoryOK /\ RestOK /\ DeletionCapped
<1>1. Init => Inv
  BY InitOK DEF Init, ArchiveInit, RestOK, DeletionCapped, PassLabel
<1>2. Inv /\ [Next]_vars => Inv'
  <2> SUFFICES ASSUME Inv, [Next]_vars, pc' \in PassLabel
               PROVE  Cardinality(todo' \cup picked') <= MaxPerRun
    BY NextOK, RestKept DEF DeletionCapped
  <2>1. CASE pc \in PassLabel /\ todo' \cup picked' \subseteq todo \cup picked
    <3>1. todo \cup picked \in SUBSET Ids
      BY DEF TypeOK, ArchiveTypeOK, RunTypeOK
    <3>2. Cardinality(todo' \cup picked') <= Cardinality(todo \cup picked)
      BY <2>1, <3>1, IdsFinite
    <3>3. Cardinality(todo' \cup picked') \in Nat /\ Cardinality(todo \cup picked) \in Nat
      BY <2>1, <3>1, IdsFinite
    <3>4. QED
      BY <2>1, <3>2, <3>3, ConfigTyped DEF DeletionCapped
  <2>2. CASE todo' \cup picked' = {}
    BY <2>2, FS_EmptySet, ConfigTyped
  <2>3. CASE PassSelect /\ todo' = Candidates(Index) /\ picked' = {}
    <3>1. todo' \cup picked' = Candidates(Index)
      BY <2>3
    <3>2. QED
      BY <3>1, MaxPerRun >= 1, ChoiceCapped
  <2>4. QED
    BY <2>1, <2>2, <2>3, PassShrinks
<1>3. QED
  BY <1>1, <1>2, PTL DEF Spec

-----------------------------------------------------------------------------
\* Nothing but phase 2 removes a shot from the device.
NobodyElseDeletes == Events \cap {"remove", "drop"} = {}

\* The device still has the shot as the index of the pass lists it.
StillThere(i) == LiveIn(index, i) /\ Live(i) /\ entries[i].ts = index.entries[i].ts

\* The shots of that index that are younger than this one.
Younger(i) == {j \in Ids : LiveIn(index, j) /\ OlderIn(index, i, j)}

\* The shots a pass has yet to send.
Awaiting == IF pc = "send" THEN todo ELSE todo \cup picked

\* Of a shot a pass has yet to send, enough younger ones were live when the
\* index was read, and they still are: deletion goes from the oldest up.
WindowOK ==
  pc \in {"docs", "verify", "send"} =>
    \A i \in Awaiting :
      /\ StillThere(i)
      /\ Cardinality(Younger(i)) >= KeepRecent
      /\ \A j \in Younger(i) : StillThere(j)

\* No device event takes a listed shot away while a cycle runs.
LEMMA DeviceKeepsShots ==
  ASSUME TypeOK, FlushOK, QuietCycle, NobodyElseDeletes, DeviceStep, pc # "idle", NEW i \in Ids,
         StillThere(i)
  PROVE  StillThere(i)'
<1> USE DEF TypeOK, DeviceTypeOK
<1>1. index' = index
  BY DEF DeviceStep, runVars
<1>2. \/ RecordShot \/ FlashFirmware \/ Tick
      \/ \E j \in Ids : GrowFlush(j) \/ FinishFlush(j) \/ DamageFlush(j) \/ SaveNotes(j)
  BY DEF DeviceStep, Flush, NobodyElseDeletes
<1>3. CASE RecordShot
  <2>1. i # nextId
    BY DEF StillThere, Live, FlushOK, Ids
  <2>2. entries'[i] = entries[i]
    BY <1>3, <2>1 DEF RecordShot
  <2>3. QED
    BY <1>1, <2>2 DEF StillThere, Live, LiveIn
<1>4. CASE FlashFirmware \/ Tick
  BY <1>1, <1>4 DEF FlashFirmware, Tick, StillThere, Live, LiveIn
<1>5. ASSUME NEW j \in Ids, GrowFlush(j) \/ FinishFlush(j) \/ DamageFlush(j) \/ SaveNotes(j)
      PROVE  StillThere(i)'
  <2>1. entries'[i] # NONE /\ entries'[i].deleted = entries[i].deleted
        /\ entries'[i].ts = entries[i].ts
    <3>1. CASE SaveNotes(j)
      BY <3>1, NoneIsNoEntry DEF SaveNotes, StillThere, Live, Entry
    <3>2. CASE GrowFlush(j)
      BY <3>2, NoneIsNoEntry DEF GrowFlush, StillThere, Live, Entry
    <3>3. CASE FinishFlush(j)
      <4>1. entries'[i] \in {entries[i], [entries[i] EXCEPT !.stage = "full", !.open = FALSE]}
        BY <3>3 DEF FinishFlush
      <4>2. QED
        BY <4>1, NoneIsNoEntry DEF StillThere, Live, Entry, Stage
    <3>4. CASE DamageFlush(j)
      BY <3>4, NoneIsNoEntry DEF DamageFlush, StillThere, Live, Entry
    <3>5. QED
      BY <1>5, <3>1, <3>2, <3>3, <3>4
  <2>2. QED
    BY <1>1, <2>1 DEF StillThere, Live, LiveIn
<1>6. QED
  BY <1>2, <1>3, <1>4, <1>5

\* Every step keeps the window open behind the shots still to be sent.
LEMMA WindowKept ==
  ASSUME TypeOK, MemoryOK, FlushOK, WindowOK, QuietCycle, NobodyElseDeletes, [Next]_vars
  PROVE  WindowOK'
<1> DEFINE At == {"docs", "verify", "send"}
           Protected(i) == /\ StillThere(i)
                      /\ Cardinality(Younger(i)) >= KeepRecent
                      /\ \A j \in Younger(i) : StillThere(j)
<1>1. Awaiting \subseteq Ids /\ \A i \in Ids : Younger(i) \subseteq Ids
  BY DEF Awaiting, Younger, TypeOK, ArchiveTypeOK, RunTypeOK
<1>2. CASE pc' \notin At
  BY <1>2 DEF WindowOK
<1>3. ASSUME PassSelect, pc' \in At PROVE WindowOK'
  <2>1. pc' = "docs" /\ index' = Index /\ todo' = Candidates(Index) /\ picked' = {}
        /\ entries' = entries
    BY <1>3 DEF PassSelect, GoTo, MemoryOK, deviceVars
  <2>2. \A j \in Ids : LiveIn(Index, j) => StillThere(j)'
    BY <2>1 DEF StillThere, LiveIn, Live, Index, IndexEntry
  <2>3. ASSUME NEW i \in Candidates(Index) PROVE Protected(i)'
    <3>1. i \in Ids /\ LiveIn(Index, i) /\ ~KeptRecent(Index, i)
      BY DEF Candidates, Eligible
    <3>2. Younger(i)' = {j \in Ids : LiveIn(Index, j) /\ OlderIn(Index, i, j)}
      BY <2>1 DEF Younger
    <3>3. Cardinality(Younger(i)') \in Nat
      BY <3>2, IdsFinite
    <3>4. Cardinality(Younger(i)') >= KeepRecent
      BY <3>1, <3>2, <3>3, ConfigTyped DEF KeptRecent
    <3>5. \A j \in Younger(i)' : StillThere(j)'
      BY <2>2, <3>2
    <3>6. QED
      BY <2>2, <3>1, <3>4, <3>5
  <2>4. QED
    BY <2>1, <2>3 DEF WindowOK, Awaiting
<1>4. ASSUME UNCHANGED <<index, entries>>, pc \in At, Awaiting' \subseteq Awaiting PROVE WindowOK'
  BY <1>4 DEF WindowOK, StillThere, Younger, Live
<1>5. CASE PassDocs \/ (PassVerified /\ pc' \in At)
  BY <1>4, <1>5 DEF PassDocs, PassVerified, GoTo, Awaiting, deviceVars
<1>6. ASSUME NEW i \in Ids, PassVerify(i) \/ PassVerifyFails(i) \/ PassRefused(i) PROVE WindowOK'
  BY <1>4, <1>6 DEF PassVerify, PassVerifyFails, PassRefused, OldestOf, Awaiting, deviceVars
<1>7. ASSUME NEW i \in Ids, PassSend(i) PROVE WindowOK'
  <2>1. pc = "send" /\ pc' = "send" /\ i \in todo /\ todo' = todo \ {i} /\ index' = index
        /\ \A j \in todo' : OlderIn(index, i, j)
    BY <1>7 DEF PassSend, OldestOf
  <2>2. \A j \in Ids : j # i /\ StillThere(j) => StillThere(j)'
    BY <1>7, <2>1 DEF PassSend, StillThere, LiveIn, Live, TypeOK, DeviceTypeOK
  <2>3. ASSUME NEW j \in todo' PROVE Protected(j)'
    <3>1. j \in Ids /\ j # i /\ Protected(j) /\ StillThere(i)
      BY <1>1, <2>1 DEF WindowOK, Awaiting
    <3>2. Younger(j)' = Younger(j)
      BY <2>1 DEF Younger
    <3>3. i \notin Younger(j)
      <4>1. index \in IndexType
        BY <2>1 DEF MemoryOK, IndexLabel, TypeOK, ArchiveTypeOK, RunTypeOK
      <4>2. {i, j} \in SUBSET Ids /\ \A l \in {i, j} : index.entries[l] # NONE
        BY <3>1 DEF StillThere, LiveIn
      <4>3. OlderIn(index, i, j) => ~OlderIn(index, j, i)
        BY <4>1, <4>2, AgeOrders
      <4>4. QED
        BY <2>1, <4>3 DEF Younger
    <3>4. QED
      BY <1>1, <2>2, <3>1, <3>2, <3>3
  <2>4. QED
    BY <2>1, <2>3 DEF WindowOK, Awaiting
<1>8. ASSUME DeviceStep, pc' \in At PROVE WindowOK'
  <2>1. UNCHANGED <<pc, index, todo, picked>> /\ pc \in At
    BY <1>8 DEF DeviceStep, runVars
  <2>2. Awaiting' = Awaiting /\ \A i \in Ids : Younger(i)' = Younger(i)
    BY <2>1 DEF Awaiting, Younger
  <2>3. \A i \in Ids : StillThere(i) => StillThere(i)'
    BY <1>8, <2>1, DeviceKeepsShots
  <2>4. QED
    BY <1>1, <2>1, <2>2, <2>3 DEF WindowOK
<1>9. CASE (Rot \/ UNCHANGED vars) /\ pc' \in At
  BY <1>4, <1>9 DEF Rot, vars, runVars, deviceVars, Awaiting
<1>10. QED
  BY <1>2, <1>3, <1>5, <1>6, <1>7, <1>8, <1>9, PassReached

\* When phase 2 deletes a shot, at least KeepRecent younger ones are live on
\* the device, whatever it recorded since the index was read and whichever
\* deletions of the same pass failed (delete_pass.py 95, 104).
THEOREM RecentSpared ==
  ASSUME QuietCycle, NobodyElseDeletes PROVE Spec => EraseSparesRecent
<1> DEFINE Inv == TypeOK /\ MemoryOK /\ FlushOK /\ WindowOK
<1>1. Init => Inv
  <2>1. ASSUME Init PROVE FlushOK /\ WindowOK
    BY <2>1 DEF Init, DeviceInit, ArchiveInit, FlushOK, WindowOK
  <2>2. QED
    BY <2>1, InitOK
<1>2. Inv /\ [Next]_vars => Inv'
  BY QuietCycle, NobodyElseDeletes, NextOK, FlushKept, WindowKept
<1>3. ASSUME Inv, NEW i \in Ids, Erases(i)
      PROVE  Cardinality({j \in Ids : Live(j) /\ OlderIn(Index, i, j)}) >= KeepRecent
  <2> DEFINE spared == {j \in Ids : Live(j) /\ OlderIn(Index, i, j)}
  <2>1. StillThere(i) /\ Cardinality(Younger(i)) >= KeepRecent
        /\ \A j \in Younger(i) : StillThere(j)
    BY <1>3 DEF Erases, WindowOK, Awaiting
  <2>2. \A j \in Ids : StillThere(j) => Index.entries[j].ts = index.entries[j].ts
    BY DEF StillThere, Live, Index, IndexEntry
  <2>3. Younger(i) \subseteq spared
    BY <2>1, <2>2 DEF Younger, OlderIn, StillThere
  <2>4. Cardinality(Younger(i)) <= Cardinality(spared)
    BY <2>3, IdsFinite
  <2>5. Cardinality(Younger(i)) \in Nat /\ Cardinality(spared) \in Nat
    BY <2>3, IdsFinite
  <2>6. QED
    BY <2>1, <2>4, <2>5, ConfigTyped
<1>4. QED
  <2>1. Inv => [\A i \in Ids : Erases(i) =>
                  Cardinality({j \in Ids : Live(j) /\ OlderIn(Index, i, j)}) >= KeepRecent]_vars
    BY <1>3
  <2>2. QED
    BY <1>1, <1>2, <2>1, PTL DEF Spec, EraseSparesRecent

-----------------------------------------------------------------------------
\* Every notes document that is written is there when it is read back, and the
\* archiver does not die between that write and the manifest save.
NotesWritesSucceed == "write" \notin FaultKinds /\ MaxCrashes = 0

\* The shot whose document is written and not yet recorded.
Storing(i) == pc = "stored" /\ FirstOf(todo, i)

\* Behind the notes hash of every shot of the present epoch is the document, and
\* a document that is about to be recorded is on disk.  (What a reborn id writes
\* lands on the document of the shot that had the id before: that one's hash is
\* of another epoch.)
NotesOK ==
  /\ EpochsPast
  /\ \A i \in Ids : Archived(KeyOf(i)) /\ shots[KeyOf(i)].json # NONE /\ ~Storing(i) =>
                      NotesOf(KeyOf(i)) = shots[KeyOf(i)].json
  /\ \A i \in Ids : Storing(i) => notes[NotesPath(i)] = docs[i]

\* A document is recorded right after it is written.
LEMMA StoringEnds ==
  ASSUME TypeOK, NotesWritesSucceed, [Next]_vars, pc = "stored"
  PROVE  (\E i \in Ids : StoreSave(i)) \/ UNCHANGED <<notes, shots, dev, pc, todo, docs>>
<1>1. CASE DeviceStep \/ UNCHANGED vars
  BY <1>1 DEF DeviceStep, vars, storeVars, runVars
<1>2. CASE SyncStep \/ SyncFault
  BY <1>2
  DEF SyncStep, SyncFault, SyncIndex, SyncDrift, SyncEpoch, SyncPlan, SyncFetch, SyncFetchGone,
      SyncUnlinkStale, SyncRecord, SyncFetchesDone, ReconcileRating, ReconcileDone, NotesFetch,
      StoreSkip, StoreWrite, SyncDone, SyncWriteLies, StoreFails, NotesDeferred, SyncFails, Saving
<1>3. CASE ParseRun \/ ParseMisreads \/ ParseFails \/ ParseCrash
  BY <1>3 DEF ParseRun, ParseMisreads, ParseFails, ParseCrash, ParseAll
<1>4. CASE PassStep \/ PassFault
  BY <1>4
  DEF PassStep, PassFault, PassSelect, PassDocs, PassVerify, PassSend, PassVerified, PassConfirm,
      PassSave, PassVerifyFails, PassRefused, PassFails
<1>5. CASE StartCycle \/ Profiles \/ ProfilesFail \/ Rot
  BY <1>5 DEF StartCycle, Profiles, ProfilesFail, Rot, runVars
<1>6. ~Crash
  BY DEF Crash, NotesWritesSucceed, TypeOK, ArchiveTypeOK, HistTypeOK
<1>7. QED
  BY <1>1, <1>2, <1>3, <1>4, <1>5, <1>6 DEF Next, CycleStep, CycleFault

\* ... and nothing else writes notes.
LEMMA NotesWritten ==
  ASSUME NotesWritesSucceed, [Next]_vars, pc # "stored"
  PROVE  (\E i \in Ids : StoreWrite(i)) \/ (notes' = notes /\ pc' # "stored")
<1>1. CASE DeviceStep \/ UNCHANGED vars
  BY <1>1 DEF DeviceStep, vars, storeVars, runVars
<1>2. CASE SyncStep \/ SyncFault
  BY <1>2
  DEF SyncStep, SyncFault, SyncIndex, SyncDrift, SyncEpoch, SyncPlan, SyncFetch, SyncFetchGone,
      SyncUnlinkStale, SyncRecord, SyncFetchesDone, ReconcileRating, ReconcileDone, NotesFetch,
      StoreSkip, StoreSave, SyncDone, SyncWriteLies, StoreFails, NotesDeferred, SyncFails, GoTo,
      Fault, NotesWritesSucceed, storeVars, runVars
<1>3. CASE ParseRun \/ ParseMisreads \/ ParseFails \/ ParseCrash
  BY <1>3 DEF ParseRun, ParseMisreads, ParseFails, ParseCrash, ParseAll, GoTo
<1>4. CASE PassStep \/ PassFault
  BY <1>4
  DEF PassStep, PassFault, PassSelect, PassDocs, PassVerify, PassSend, PassVerified, PassConfirm,
      PassSave, PassVerifyFails, PassRefused, PassFails, GoTo, storeVars
<1>5. CASE StartCycle \/ Profiles \/ ProfilesFail \/ Crash \/ Rot
  BY <1>5 DEF StartCycle, Profiles, ProfilesFail, Crash, Rot, GoTo, storeVars, runVars
<1>6. QED
  BY <1>1, <1>2, <1>3, <1>4, <1>5 DEF Next, CycleStep, CycleFault

\* Every step keeps the archived documents behind their hashes.
LEMMA NotesKept ==
  ASSUME TypeOK, MemoryOK, NotesOK, NotesWritesSucceed, [Next]_vars PROVE NotesOK'
<1> USE DEF TypeOK, ArchiveTypeOK
<1>1. \A i \in Ids : KeyOf(i) \in Key /\ KeyOf(i)[2] = i
  BY KeyTyped DEF KeyOf
<1>2. \A i, j \in Ids : i # j => KeyOf(i) # KeyOf(j)
  BY DEF KeyOf
<1>3. EpochsPast' /\ (SyncEpoch \/ dev'.epoch = dev.epoch) /\ dev.epoch <= dev'.epoch
  BY EpochsStayPast DEF NotesOK
<1>4. ASSUME dev'.epoch = dev.epoch PROVE \A i \in Ids : KeyOf(i)' = KeyOf(i)
  BY <1>4 DEF KeyOf
<1>5. ASSUME NEW i \in Ids, StoreSave(i) PROVE NotesOK'
  <2>1. shots[KeyOf(i)] \in Record /\ Storing(i) /\ pc' = "store" /\ UNCHANGED <<notes, dev>>
    BY <1>1, <1>5 DEF StoreSave, Storing, FirstOf, MemoryOK, Archived, StoreTypeOK
  <2>2. shots' = [shots EXCEPT ![KeyOf(i)] = [shots[KeyOf(i)] EXCEPT !.json = docs[i]]]
    BY <1>5 DEF StoreSave
  <2>3. ASSUME NEW j \in Ids, Archived(KeyOf(j))', shots'[KeyOf(j)].json # NONE
        PROVE  NotesOf(KeyOf(j))' = shots'[KeyOf(j)].json
    <3>1. CASE j = i
      <4>1. shots'[KeyOf(i)].json = docs[i] /\ shots'[KeyOf(i)].ts = shots[KeyOf(i)].ts
        BY <1>1, <2>1, <2>2 DEF StoreTypeOK, Record
      <4>2. QED
        BY <1>1, <1>4, <2>1, <3>1, <4>1 DEF NotesOK, NotesOf, NotesPath
    <3>2. CASE j # i
      <4>1. shots'[KeyOf(j)] = shots[KeyOf(j)] /\ ~Storing(j)
        BY <1>1, <1>2, <2>1, <2>2, <3>2 DEF StoreTypeOK, Storing, FirstOf, Ids
      <4>2. QED
        BY <1>4, <2>1, <2>3, <4>1 DEF NotesOK, NotesOf, Archived
    <3>3. QED
      BY <3>1, <3>2
  <2>4. QED
    BY <1>3, <1>4, <2>1, <2>3 DEF NotesOK, Storing
<1>6. ASSUME NEW i \in Ids, StoreWrite(i) PROVE NotesOK'
  <2>1. pc = "store" /\ pc' = "stored" /\ FirstOf(todo, i) /\ shots[KeyOf(i)] \in Record
        /\ notes' = [notes EXCEPT ![NotesPath(i)] = docs[i]]
        /\ UNCHANGED <<shots, dev, todo, docs>>
    BY <1>1, <1>6 DEF StoreWrite, FirstOf, MemoryOK, Archived, StoreTypeOK
  <2>2. NotesPath(i) \in Path
    BY <2>1, PathTyped DEF NotesPath, Record
  <2>3. Storing(i)' /\ \A j \in Ids : Storing(j)' => j = i
    BY <2>1 DEF Storing, FirstOf, Ids
  <2>4. notes'[NotesPath(i)'] = docs'[i]
    BY <2>1, <2>2 DEF StoreTypeOK, NotesPath, KeyOf
  <2>5. ASSUME NEW j \in Ids, Archived(KeyOf(j)), shots[KeyOf(j)].json # NONE, ~Storing(j)'
        PROVE  NotesOf(KeyOf(j))' = shots[KeyOf(j)].json
    <3>1. j # i /\ ~Storing(j)
      BY <2>1, <2>3, <2>5 DEF Storing
    <3>2. PathOf(shots[KeyOf(j)].ts, j) # NotesPath(i)
      BY <3>1 DEF PathOf, NotesPath
    <3>3. NotesOf(KeyOf(j))' = NotesOf(KeyOf(j))
      BY <1>1, <1>4, <2>1, <3>2 DEF NotesOf, StoreTypeOK
    <3>4. QED
      BY <2>5, <3>1, <3>3 DEF NotesOK
  <2>6. QED
    BY <1>3, <1>4, <2>1, <2>3, <2>4, <2>5 DEF NotesOK, Archived
<1>7. CASE UNCHANGED <<notes, shots, dev, pc, todo, docs>>
  BY <1>7 DEF NotesOK, EpochsPast, Storing, NotesOf, NotesPath, Archived, KeyOf, FirstOf
<1>8. ASSUME notes' = notes, pc # "stored", pc' # "stored" PROVE NotesOK'
  <2>1. ASSUME NEW i \in Ids, Archived(KeyOf(i))', shots'[KeyOf(i)'].json # NONE
        PROVE  NotesOf(KeyOf(i))' = shots'[KeyOf(i)'].json
    <3>1. CASE SyncRecord
      <4>1. KeyOf(cur.id) \in Key /\ KeyOf(i)' = KeyOf(i)
        BY <1>4, <3>1, RecordTyped DEF SyncRecord
      <4>2. \A k \in Key : shots'[k] = IF k = KeyOf(cur.id) THEN NewRecord ELSE shots[k]
        BY <3>1, <4>1 DEF SyncRecord, StoreTypeOK
      <4>3. NewRecord.json = NONE
        BY DEF NewRecord
      <4>4. QED
        BY <1>1, <1>8, <2>1, <4>1, <4>2, <4>3 DEF NotesOK, Storing, NotesOf, Archived
    <3>2. CASE SameRecords /\ ~SyncRecord
      <4>0. dev' \in Ledger
        BY NextOK DEF StoreTypeOK
      <4>1. KeyOf(i)' \in Key /\ \A j \in Ids : ~StoreSave(j)
        BY <1>8, <4>0 DEF StoreSave, Ledger, KeyOf, Key
      <4>2. Archived(KeyOf(i)') /\ shots'[KeyOf(i)'].ts = shots[KeyOf(i)'].ts
            /\ shots'[KeyOf(i)'].json = shots[KeyOf(i)'].json
        BY <2>1, <3>2, <4>1 DEF SameRecords, SameRecord, Archived
      <4>3. KeyOf(i)' = KeyOf(i)
        <5>1. dev'.epoch <= dev.epoch
          BY <4>1, <4>2 DEF NotesOK, EpochsPast, KeyOf
        <5>2. dev'.epoch = dev.epoch
          BY <1>3, <5>1, NextOK DEF StoreTypeOK, Ledger, Epoch
        <5>3. QED
          BY <1>4, <5>2
      <4>4. QED
        BY <1>8, <2>1, <4>2, <4>3 DEF NotesOK, Storing, NotesOf
    <3>3. QED
      BY <3>1, <3>2, RecordsKept
  <2>2. QED
    BY <1>3, <1>8, <2>1 DEF NotesOK, Storing
<1>9. QED
  BY <1>5, <1>6, <1>7, <1>8, StoringEnds, NotesWritten

\* What a pass knows of the notes of a shot it has yet to send, if they are
\* rated: that they are, from the index; which they are, from the session; and
\* that the manifest has the hash of the same.  (A shot reborn under the id
\* while the pass runs has no notes yet.)
Rated(i) == Live(i) /\ Stars(entries[i].doc) > 0
RatedAsListed(i) == Rated(i) => index.entries[i].hasNotes
FetchedAsHeld(i) == Rated(i) /\ docs[i] # NONE => docs[i] = entries[i].doc

PassNotesOK ==
  /\ pc \in {"docs", "verify", "send"} => \A i \in Awaiting : RatedAsListed(i)
  /\ pc \in {"verify", "send"} => \A i \in Awaiting : FetchedAsHeld(i)
  /\ pc = "verify" => \A i \in picked : NotesMatch(i)
  /\ pc = "send" => \A i \in todo : NotesMatch(i)

\* Rated notes are those the shot had, while nobody edits them.
SameNotes(i) == Rated(i)' => Rated(i) /\ entries'[i].doc = entries[i].doc

LEMMA DeviceKeepsNotes ==
  ASSUME TypeOK, QuietPass, DeviceStep, pc \in {"docs", "verify", "send"}, NEW i \in Ids
  PROVE  SameNotes(i)
<1> USE DEF TypeOK, DeviceTypeOK
<1>1. \/ RecordShot \/ Reset \/ FlashFirmware \/ Tick
      \/ \E j \in Ids : \/ GrowFlush(j) \/ FinishFlush(j) \/ DamageFlush(j)
                       \/ RemoveShot(j) \/ DropEntry(j)
  BY DEF DeviceStep, Flush, PassLabel
<1>2. CASE RecordShot
  <2>1. entries'[i] = entries[i] \/ entries'[i].doc = NONE
    BY <1>2 DEF RecordShot
  <2>2. QED
    BY <2>1 DEF SameNotes, Rated, Live, Stars
<1>3. CASE Reset \/ FlashFirmware \/ Tick
  BY <1>3 DEF Reset, FlashFirmware, Tick, SameNotes, Rated, Live
<1>4. ASSUME NEW j \in Ids, GrowFlush(j) PROVE SameNotes(i)
  BY <1>4, NoneIsNoEntry DEF GrowFlush, SameNotes, Rated, Live, Entry
<1>5. ASSUME NEW j \in Ids, FinishFlush(j) PROVE SameNotes(i)
  BY <1>5, NoneIsNoEntry DEF FinishFlush, SameNotes, Rated, Live, Entry
<1>6. ASSUME NEW j \in Ids, DamageFlush(j) PROVE SameNotes(i)
  BY <1>6, NoneIsNoEntry DEF DamageFlush, SameNotes, Rated, Live, Entry
<1>7. ASSUME NEW j \in Ids, RemoveShot(j) \/ DropEntry(j) PROVE SameNotes(i)
  BY <1>7, NoneIsNoEntry DEF RemoveShot, DropEntry, SameNotes, Rated, Live, Entry
<1>8. QED
  BY <1>1, <1>2, <1>3, <1>4, <1>5, <1>6, <1>7

\* Every step keeps what the running pass knows of the notes.
LEMMA PassNotesKept ==
  ASSUME TypeOK, MemoryOK, PassNotesOK, QuietPass, [Next]_vars
  PROVE  PassNotesOK'
<1> DEFINE At == {"docs", "verify", "send"}
<1> USE DEF TypeOK, ArchiveTypeOK
<1>1. Awaiting \subseteq Ids
  BY DEF Awaiting, RunTypeOK
<1>2. CASE pc' \notin At
  BY <1>2 DEF PassNotesOK
<1>3. ASSUME PassSelect, pc' \in At PROVE PassNotesOK'
  <2>1. pc' = "docs" /\ index' = Index /\ todo' = Candidates(Index) /\ picked' = {}
        /\ UNCHANGED entries
    BY <1>3 DEF PassSelect, GoTo, MemoryOK, deviceVars
  <2>2. ASSUME NEW i \in Candidates(Index) PROVE RatedAsListed(i)'
    <3>1. i \in Ids /\ entries[i] # NONE /\ Index.entries[i] = IndexEntry(entries[i])
      BY DEF Candidates, Eligible, LiveIn, Index
    <3>2. Index.entries[i].hasNotes = (Stars(entries[i].doc) > 0)
      BY <3>1 DEF IndexEntry
    <3>3. QED
      BY <2>1, <3>2 DEF RatedAsListed, Rated, Live, Stars
  <2>3. QED
    BY <2>1, <2>2 DEF PassNotesOK, Awaiting
<1>4. CASE PassDocs
  <2>1. picked = {} /\ pc = "docs" /\ pc' = "verify" /\ Awaiting' = Awaiting
        /\ UNCHANGED <<entries, index, picked>>
    BY <1>4 DEF PassDocs, MemoryOK, Awaiting, deviceVars
  <2>2. \A i \in Awaiting : RatedAsListed(i)' /\ FetchedAsHeld(i)'
    BY <1>1, <1>4, <2>1
    DEF PassNotesOK, RatedAsListed, PassDocs, FetchDocs, FetchedAsHeld, DeviceNotes, Rated, Live
  <2>3. QED
    BY <2>1, <2>2 DEF PassNotesOK
<1>5. ASSUME PassVerified, pc' \in At PROVE PassNotesOK'
  <2>1. pc = "verify" /\ pc' = "send" /\ todo' = picked /\ todo = {}
        /\ UNCHANGED <<entries, index, docs, shots, dev>>
    BY <1>5 DEF PassVerified, GoTo, deviceVars, storeVars
  <2>2. Awaiting' \subseteq Awaiting
    BY <2>1 DEF Awaiting
  <2>3. QED
    BY <2>1, <2>2
    DEF PassNotesOK, RatedAsListed, FetchedAsHeld, NotesMatch, Rated, Live, KeyOf
<1>6. ASSUME NEW i \in Ids, PassVerify(i) \/ PassVerifyFails(i) PROVE PassNotesOK'
  <2>1. pc = "verify" /\ pc' = "verify" /\ i \in todo /\ todo' = todo \ {i}
        /\ UNCHANGED <<entries, index, docs, shots, dev>>
    BY <1>6 DEF PassVerify, PassVerifyFails, OldestOf, deviceVars, storeVars
  <2>2. picked' = picked \/ (picked' = picked \cup {i} /\ NotesMatch(i))
    BY <1>6 DEF PassVerify, PassVerifyFails
  <2>3. Awaiting' \subseteq Awaiting
    BY <2>1, <2>2 DEF Awaiting
  <2>4. QED
    BY <2>1, <2>2, <2>3
    DEF PassNotesOK, RatedAsListed, FetchedAsHeld, NotesMatch, Rated, Live, KeyOf
<1>7. ASSUME pc \in At, pc' = pc, todo' \subseteq todo, UNCHANGED <<index, docs, shots, dev, picked>>,
             \A i \in Ids : SameNotes(i)
      PROVE  PassNotesOK'
  <2>1. Awaiting' \subseteq Awaiting
    BY <1>7 DEF Awaiting
  <2>2. \A i \in Awaiting' : RatedAsListed(i) /\ RatedAsListed(i)'
    BY <1>1, <1>7, <2>1 DEF PassNotesOK, RatedAsListed, SameNotes
  <2>3. \A i \in Ids : RatedAsListed(i) /\ FetchedAsHeld(i) => FetchedAsHeld(i)'
    BY <1>7 DEF RatedAsListed, FetchedAsHeld, SameNotes
  <2>4. pc' \in {"verify", "send"} => \A i \in Awaiting' : FetchedAsHeld(i)'
    BY <1>1, <1>7, <2>1, <2>2, <2>3 DEF PassNotesOK
  <2>5. \A i \in Ids : NotesMatch(i) => NotesMatch(i)'
    BY <1>7 DEF NotesMatch, KeyOf
  <2>6. QED
    BY <1>7, <2>2, <2>4, <2>5 DEF PassNotesOK, RunTypeOK
<1>8. ASSUME NEW j \in Ids, PassSend(j) \/ PassRefused(j) PROVE PassNotesOK'
  <2>1. pc \in At /\ pc' = pc /\ todo' \subseteq todo
        /\ UNCHANGED <<index, docs, shots, dev, picked>>
    BY <1>8 DEF PassSend, PassRefused, OldestOf, deviceVars, storeVars
  <2>2. \A i \in Ids : SameNotes(i)
    <3>1. CASE UNCHANGED entries
      BY <3>1 DEF SameNotes, Rated, Live
    <3>2. CASE entries' = [entries EXCEPT ![j].deleted = TRUE]
      BY <3>2, NoneIsNoEntry DEF SameNotes, Rated, Live, DeviceTypeOK, Entry
    <3>3. QED
      BY <1>8, <3>1, <3>2 DEF PassSend, PassRefused, deviceVars
  <2>3. QED
    BY <1>7, <2>1, <2>2
<1>9. ASSUME DeviceStep, pc' \in At PROVE PassNotesOK'
  <2>1. pc \in At /\ pc' = pc /\ todo' \subseteq todo /\ UNCHANGED <<index, docs, shots, dev, picked>>
    BY <1>9 DEF DeviceStep, storeVars, runVars
  <2>2. QED
    BY <1>7, <1>9, <2>1, DeviceKeepsNotes
<1>10. CASE (Rot \/ UNCHANGED vars) /\ pc' \in At
  <2>1. pc \in At /\ UNCHANGED <<pc, todo, index, docs, shots, dev, picked, entries>>
    BY <1>10 DEF Rot, vars, runVars, storeVars, deviceVars
  <2>2. \A i \in Ids : SameNotes(i)
    BY <2>1 DEF SameNotes, Rated, Live
  <2>3. QED
    BY <1>7, <2>1, <2>2
<1>11. QED
  BY <1>2, <1>3, <1>4, <1>5, <1>6, <1>8, <1>9, <1>10, PassReached

\* When a shot with rated notes is deleted, the document on the device is the
\* one the manifest hashes and the one in the raw tree (delete_pass.py 127, 142-145),
\* for any number of lives of the counter and resets at any moment, as long as
\* nobody edits notes while phase 2 runs and no notes write is torn or cut off by
\* a crash.
THEOREM NotesGoToo ==
  ASSUME QuietPass, NotesWritesSucceed PROVE Spec => EraseOnlyWithNotes
<1> DEFINE Inv == TypeOK /\ MemoryOK /\ NotesOK /\ PassNotesOK
<1>1. Init => Inv
  <2>1. ASSUME Init PROVE NotesOK /\ PassNotesOK
    <3>1. \A k \in Key : ~Archived(k)
      BY <2>1 DEF Init, ArchiveInit, Archived
    <3>2. \A i \in Ids : KeyOf(i) \in Key
      BY <2>1, InitOK, KeyTyped
    <3>3. QED
      BY <2>1, <3>1, <3>2
      DEF Init, DeviceInit, ArchiveInit, NotesOK, EpochsPast, Storing, PassNotesOK
  <2>2. QED
    BY <2>1, InitOK
<1>2. Inv /\ [Next]_vars => Inv'
  BY QuietPass, NotesWritesSucceed, NextOK, NotesKept, PassNotesKept
<1>3. ASSUME Inv, NEW i \in Ids, Erases(i), Stars(entries[i].doc) > 0
      PROVE  shots[KeyOf(i)].json = entries[i].doc /\ NotesOf(KeyOf(i)) = entries[i].doc
  <2>1. RatedAsListed(i) /\ FetchedAsHeld(i) /\ NotesMatch(i) /\ Live(i) /\ Archived(KeyOf(i))
    BY <1>3 DEF Erases, PassNotesOK, Awaiting, MemoryOK
  <2>2. shots[KeyOf(i)].json = entries[i].doc /\ shots[KeyOf(i)].json # NONE
    BY <1>3, <2>1 DEF RatedAsListed, FetchedAsHeld, NotesMatch, Rated
  <2>3. ~Storing(i)
    BY <1>3 DEF Erases, Storing
  <2>4. QED
    BY <1>3, <2>1, <2>2, <2>3 DEF NotesOK
<1>4. QED
  <2>1. Inv => [\A i \in Ids : Erases(i) /\ Stars(entries[i].doc) > 0 =>
                  /\ shots[KeyOf(i)].json = entries[i].doc
                  /\ NotesOf(KeyOf(i)) = entries[i].doc]_vars
    BY <1>3
  <2>2. QED
    BY <1>1, <1>2, <2>1, PTL DEF Spec, EraseOnlyWithNotes
=============================================================================
