------------------------------- MODULE Cycle -------------------------------
(***************************************************************************)
(* The daemon beside a living device.  A cycle is sync, parse, profiles    *)
(* snapshot and, after a clean cycle and when enabled, phase 2.  Between   *)
(* any two of its steps the device may change, the archiver may die and be *)
(* restarted, and a stored file may rot.                                   *)
(***************************************************************************)
EXTENDS Sync, Parse, DeletePass

CONSTANTS
  Events,        \* device events that happen: "grow", "damage", "notes",
                 \* "remove", "drop", "reset", "flash"
  QuietCycle,    \* no reset while a cycle runs
  QuietPass,     \* no notes edit and no rot while phase 2 runs
  SettledFlush,  \* a shot seen mid-write settles before the next cycle
  PromptSync     \* after a reset a sync runs before the counter catches up

ASSUME SwitchesTyped ==
  {QuietCycle, QuietPass, SettledFlush, PromptSync} \subseteq BOOLEAN

vars == <<deviceVars, storeVars, runVars, histVars>>

Init == DeviceInit /\ ArchiveInit

\* A shot that a sync has already seen mid-write.
SeenOpen(i) == Live(i) /\ entries[i].open /\ Archived(KeyOf(i))

StartCycle ==
  /\ pc = "idle" /\ pc' = "sync"
  /\ SettledFlush => \A i \in Ids : ~SeenOpen(i)
  /\ fresh' = {}
  /\ UNCHANGED <<deviceVars, storeVars, ok, index, todo, cur, docs, newNotes, picked,
                 faults, crashes, erased>>

\* profiles.run comes back; phase 2 runs only after a fully clean cycle.
Profiles ==
  /\ pc = "profiles"
  /\ pc' = IF ok /\ DeleteEnabled THEN "phase2" ELSE "idle"
  /\ ok' = TRUE
  /\ UNCHANGED <<deviceVars, storeVars, index, todo, cur, docs, newNotes, picked,
                 histVars>>

ProfilesFail ==
  /\ pc = "profiles" /\ pc' = "idle" /\ ok' = TRUE
  /\ Fault("request")
  /\ UNCHANGED <<deviceVars, storeVars, index, todo, cur, docs, newNotes, picked,
                 crashes, fresh, erased>>

\* The process dies and its memory is gone; durable state stays.
Crash ==
  /\ pc # "idle" /\ crashes < MaxCrashes
  /\ crashes' = crashes + 1
  /\ GoTo("idle") /\ ok' = TRUE
  /\ UNCHANGED <<deviceVars, storeVars, faults, fresh, erased>>

\* A raw file is damaged at rest.
Rot ==
  /\ QuietPass => pc \notin PassLabel
  /\ Fault("rot")
  /\ \E p \in Path : raw[p] # NONE /\ raw' = [raw EXCEPT ![p] = TORN]
  /\ UNCHANGED <<deviceVars, notes, samples, shots, dev, delLog, runVars,
                 crashes, fresh, erased>>

\* The new life of the counter is still below the watermark after this shot.
BelowWatermark ==
  life > dev.epoch /\ dev.watermark # 0 => nextId + 1 < dev.watermark

Flush == \E i \in Ids : FinishFlush(i) \/ ("damage" \in Events /\ DamageFlush(i))

DeviceStep ==
  /\ \/ RecordShot /\ (PromptSync => BelowWatermark)
     \/ \E i \in Ids : "grow" \in Events /\ GrowFlush(i)
     \/ Flush
     \/ \E i \in Ids : "notes" \in Events /\ SaveNotes(i)
                       /\ (QuietPass => pc \notin PassLabel)
     \/ \E i \in Ids : "remove" \in Events /\ RemoveShot(i)
     \/ \E i \in Ids : "drop" \in Events /\ DropEntry(i)
     \/ "reset" \in Events /\ Reset
        /\ (QuietCycle => pc = "idle") /\ (PromptSync => life = dev.epoch)
     \/ "flash" \in Events /\ FlashFirmware
     \/ Tick
  /\ UNCHANGED <<storeVars, runVars, histVars>>

CycleStep ==
  StartCycle \/ SyncStep \/ ParseRun \/ Profiles \/ PassStep

CycleFault ==
  SyncFault \/ ParseMisreads \/ ParseFails \/ ParseCrash \/ ProfilesFail
  \/ PassFault \/ Crash \/ Rot

Next == DeviceStep \/ CycleStep \/ CycleFault

Spec == Init /\ [][Next]_vars

\* Every step of a cycle ends (each request has a timeout) and the schedule
\* always comes round; a flush ends, one way or the other; days pass.
FlushStep == Flush /\ UNCHANGED <<storeVars, runVars, histVars>>
TickStep == Tick /\ UNCHANGED <<storeVars, runVars, histVars>>

Fairness == WF_vars(CycleStep) /\ WF_vars(FlushStep) /\ WF_vars(TickStep)

FairSpec == Spec /\ Fairness

-----------------------------------------------------------------------------
\* Every variable holds values of its kind, whatever the daemon and the
\* device do.
TypeOK == DeviceTypeOK /\ ArchiveTypeOK

\* PassSend deletes a shot that the device still had.
Erases(i) ==
  /\ pc = "send" /\ i \in todo /\ i \notin todo'
  /\ Live(i) /\ entries'[i] # NONE /\ entries'[i].deleted

\* The archive holds the shot the device holds, and says so.
ArchiveHolds(i) ==
  LET k == KeyOf(i) IN
  /\ Verified(k) /\ shots[k].parse = "ok"
  /\ shots[k].sha = Slog(i) /\ RawOf(k) = Slog(i)

\* delete_pass.py: "a shot is only ever removed from the device when the
\* archive provably holds it".  At the moment a deletion takes effect the raw
\* file, the manifest hash and the file on the device are the same bytes, and
\* the shot parsed clean, however the device and the archive changed since
\* the index was read.
EraseOnlyArchived == [][\A i \in Ids : Erases(i) => ArchiveHolds(i)]_vars

\* The keep-recent window: when a shot is deleted, KeepRecent younger ones
\* are still live on the device.
EraseSparesRecent ==
  [][\A i \in Ids : Erases(i) =>
       Cardinality({j \in Ids : Live(j) /\ OlderIn(Index, i, j)}) >= KeepRecent]_vars

\* A record says "deleted by phase 2" only of a shot the device no longer
\* serves.
GoneMeansGone ==
  \A i \in Ids : Archived(KeyOf(i)) /\ shots[KeyOf(i)].gone => ~Live(i)

\* ... and only after deletions.log has the confirmed line: a crash may lose
\* the record of a deletion but never its trace in the log.
GoneIsLogged ==
  \A k \in Key : Archived(k) /\ shots[k].gone => [key |-> k, confirmed |-> TRUE] \in delLog

\* Eligibility 1: "parse_ok true (blocks degenerate captures - including
\* accepted corpses, which stay on the device for the firmware's own reaper)".
\* However often a file without samples was fetched, accepted or parsed, what
\* is deleted is a file with samples (delete_pass.py:11-13, sync.py:347).
EraseSparesCorpses ==
  [][\A i \in Ids : Erases(i) =>
       ~shots[KeyOf(i)].accepted /\ HasSamples(Slog(i))]_vars

\* A verified shot that parsed clean is never written to again.
HealthyRawImmutable ==
  [][\A k \in Key : Verified(k) /\ shots[k].parse = "ok" =>
       raw'[PathOf(shots[k].ts, k[2])] = RawOf(k)]_vars

\* At every moment a verified shot that no parse has flagged is on disk with the
\* hash the manifest says, while files are fetched again and overwritten.
VerifiedEvidence ==
  \A k \in Key : Verified(k) /\ shots[k].parse # "bad" => RawOf(k) = shots[k].sha

\* After a parse, the sample file of every clean shot is derived from the raw
\* file that is there now: a healed shot does not keep its stale samples.
SamplesMatchRaw ==
  pc = "profiles" /\ ok =>
    \A k \in Key : Archived(k) /\ shots[k].parse = "ok" => samples[k] = RawOf(k)

\* ARCHITECTURE.md:72-75: "a degenerate capture whose bytes are identical across
\* two fetches IS what the device holds".  So an accepted corpse stays the file
\* the device has.
AcceptedIsFinal ==
  \A i \in Ids : Archived(KeyOf(i)) /\ shots[KeyOf(i)].accepted /\ Live(i) =>
                   shots[KeyOf(i)].sha = Slog(i)

\* A sync that succeeds has archived every live shot of its index, in this
\* life of the counter.
SyncIsComplete ==
  [][(pc \in {"reconcile", "store"} /\ pc' = "parse" /\ ok') =>
       \A i \in Ids : ListedLive(i) =>
         Archived(KeyOf(i)) /\ shots[KeyOf(i)].sha.life = life]_vars

\* A manifest record never changes the life of the counter it belongs to: a
\* reborn id gets a key of its own.
KeysKeepLivesApart ==
  [][\A k \in Key : Archived(k) => shots'[k] # NONE /\ shots'[k].sha.life = shots[k].sha.life]_vars

\* Phase 2 and notes: when a shot with rated notes is deleted, the document the
\* device holds is the one the manifest hashes and the one in the raw tree.
EraseOnlyWithNotes ==
  [][\A i \in Ids : Erases(i) /\ Stars(entries[i].doc) > 0 =>
       /\ shots[KeyOf(i)].json = entries[i].doc
       /\ NotesOf(KeyOf(i)) = entries[i].doc]_vars

\* deletions.log: "every action appends" to it.  Between cycles, each shot the
\* archiver deleted has a line.
ErasedIsLogged ==
  pc = "idle" => \A k \in erased : \E line \in delLog : line.key = k

\* Eligibility 1: the shot was verified by an earlier run than the one that
\* deletes it.
ErasesEarlierRuns == [][\A i \in Ids : Erases(i) => KeyOf(i) \notin fresh]_vars

\* delete_pass.py: "At most DELETE_MAX_PER_RUN per cycle".  However many shots
\* are due, a pass never holds more than MaxPerRun of them, sent or still to send.
DeletionCapped == pc \in PassLabel => Cardinality(todo \cup picked) <= MaxPerRun

\* The .slog version of the firmware that the ledger's index version belongs to.
NewFormat == {f.slog : f \in {g \in Firmware : g.index = dev.indexVersion}}

\* A standing drift pause ends when a shot parses clean under the new format.
DriftEndsByNewFormat ==
  [][dev.formatChanged /\ ~dev'.formatChanged =>
       \E k \in Key : Clean(k, {}) /\ RawOf(k).fw \in NewFormat]_vars

\* A drift pause ends, however often firmware is flashed and whatever a parse
\* could not read: once the archive has a shot that parses, phase 2 is not
\* held off for good (parse.py:134-138).
DriftPauseEnds ==
  (dev.formatChanged /\ \E k \in Key : Parses(k, {})) ~> ~dev.formatChanged

\* An archived file is never replaced by the file of another life's shot.
RawKeepsLivesApart ==
  [][\A p \in Path : {raw[p], raw'[p]} \cap {NONE, TORN} = {} =>
       raw'[p].life = raw[p].life]_vars

\* Rated notes that stay as they are for long enough inside the recheck window
\* are archived.
EventuallyNoted ==
  \A i \in Ids, doc \in Docs :
    (Live(i) /\ entries[i].doc = doc /\ Stars(doc) > 0)
      ~> \/ ~Live(i) \/ entries[i].doc # doc
         \/ Archived(KeyOf(i)) /\ shots[KeyOf(i)].json = doc
         \/ ~InRecheckWindow(entries[i].ts)

\* The archive vouches for a file that holds some of the shot's samples.
CaughtPartial(i) == Verified(KeyOf(i)) /\ shots[KeyOf(i)].sha.stage = "partial"

\* Every shot with an index duration that stays on the device is eventually
\* archived as it is, also one first captured as a bare header, through lost
\* saves, lying writes and crashes; except one that was caught with some of its
\* samples, which is never fetched again, and if a flush seen by one cycle has
\* ended before the next (AcceptedIsFinal).  One without a duration is left out:
\* it counts as complete at once (sync.py:338-355).
EventuallyArchived ==
  \A i \in Ids :
    (Live(i) /\ entries[i].timed)
      ~> \/ ~Live(i)
         \/ Verified(KeyOf(i)) /\ shots[KeyOf(i)].sha = Slog(i)
         \/ CaughtPartial(i)

\* A shot whose copies agree and parse clean, older than the grace period and
\* outside the KeepRecent newest, is eventually deleted from the device: a
\* failed request or pass only delays it.
EventuallyErased ==
  \A i \in Ids :
    (/\ Live(i) /\ ArchiveHolds(i)
     /\ today - entries[i].ts >= GraceDays
     /\ Cardinality({j \in Ids : Live(j) /\ OlderIn(Index, i, j)}) >= KeepRecent)
    ~> ~Live(i)

\* The retry loop ends, by acceptance or by the recheck window: from some time on
\* no sync downloads a shot, except one without a duration that is still in the
\* window.  Such a file without samples counts as complete and so is never
\* accepted; its parse asks for it again and again (sync.py:117-125, 338-347).
RetriesEnd ==
  <>[](pc = "fetch" =>
         \A i \in todo : ~EntryAt(i).timed /\ InRecheckWindow(EntryAt(i).ts))

-----------------------------------------------------------------------------
\* The cycle as a vault: a shot's copy on the device is its file while its
\* entry is live in this life of the counter, its copy in the vault the raw file its
\* record points to, and it is released when the archiver deletes it.
OnDevice(k) == IF k[1] = life /\ Live(k[2]) THEN Slog(k[2]) ELSE NONE
InVault(k) == IF Archived(k) THEN RawOf(k) ELSE NONE

Held == INSTANCE Vault WITH
  Copy <- FileBytes,
  device <- [k \in Key |-> OnDevice(k)],
  vault <- [k \in Key |-> InVault(k)],
  released <- erased

\* "Delete only what was provably archived", and keep it: the daemon implements
\* Vault.  A shot leaves the device only while the raw file is its bytes, and
\* whatever syncs, heals, crashes and failures follow, no write goes over
\* that file and no deleted shot is served again.
KeepsDeleted == Held!Spec

=============================================================================
