# gaggimate-archiver in TLA+

The archiver (`src/app/archiver/`) copies every shot of a GaggiMate espresso
machine to a NAS, derives Parquet files from the copies, and, when asked to,
deletes from the device what the archive provably holds. These modules model
the daemon beside a living device: the index and the files change, firmware is
flashed, the shot counter starts over, requests fail, files rot and the process
dies, between any two steps of a cycle. They also model who starts a cycle and
when, the processes that share the archive directory, and what the archive
server reads from it meanwhile.

Contents: the system · how modules and code correspond · properties · runs ·
bounds · fairness · proofs · divergences found · what is not modelled · plan.

## The system

| Component | State it keeps | Operations | Talks to |
|---|---|---|---|
| device firmware (external) | `index.bin`, `NNNNNN.slog`, `NNNNNN.json`, `next_id`, format versions | record a shot, flush its file, save notes, delete, reap, reset, be flashed | served by HTTP and WebSocket |
| device client (`device.py`) | session and pacing | `fetch_index`, `fetch_slog`, `fetch_notes` | called by sync, delete pass |
| sync (`sync.py`) | raw tree, manifest records, device ledger | drift, `detect_epoch`, `plan`, download with read-back, record, `reconcile_archived` | device, manifest, raw tree |
| parse (`parse.py`) | sample files, `shots.parquet`, verdicts and `.slog` versions in the manifest | `run` | raw tree, manifest |
| profiles (`profiles.py`) | `profiles/<day>.json`, firmware versions in the ledger | `run` | device, manifest |
| delete pass (`delete_pass.py`) | `deletions.log`, `device_deleted_at` | select, verify, delete, confirm, log, save | device, raw tree, manifest |
| manifest (`manifest.py`) | `manifest.json`, `manifest.json.tmp` | `load`, `save` by truncate, write, rename | every step of a cycle |
| daemon (`daemon.py`) | the cycle lock, the target of the loop | `cycle`, `cycle_locked`, `run` | runs the steps in order |
| manual trigger (`sync_api.py`), `sync_now` (`mcp_server.py`) | a thread per request | a POST that runs a cycle under the lock | daemon |
| command line (`cli.py`) | none | the same steps in a process of its own, without the lock | everything |
| archive reads (`archive_read.py`) | none | `prep_at`, `beans_at`, `get_profile`, `get_shot` | `shots.parquet`, manifest, logs, snapshots |
| MCP server (`mcp_server.py`) | `meta/prep.jsonl`, `meta/beans.jsonl` | `log_prep`, `log_beans`, `sync_now`, the reads | archive reads, manual trigger |
| vendored parsers | none | bytes to index, shot | sync, parse, delete pass |

The steps share state through the archive directory only: each loads the
manifest, changes it and saves it. A sync that fails does not stop parse; a
failure anywhere stops phase 2.

What is hard:

- the index is a photograph: shots leave, appear, grow and change notes while a
  step works from it;
- the raw file, the record, the notes file, their hashes, the log line and the
  deletion are separate durable writes with a crash or an exception between any
  two;
- what parse wrote in this cycle is what phase 2 believes in the same cycle;
- a capture that looks wrong is fetched again, which overwrites evidence, and
  has to end;
- the shot counter can start over, so that an id means another shot;
- the loop, the presses of a button and a clock that is set compete for one lock
  that keeps no queue;
- processes without a common lock write one manifest through one temporary
  file, and readers open what is being written.

What makes each component correct:

- *sync*: what it reports as done is complete; a healthy file is never touched
  again; the manifest vouches for the bytes on disk; lives of the counter stay
  apart; retries end and end right; ratings and notes catch up;
- *parse*: the derived file is that of the raw file that is there; drift is
  only cleared by evidence of the new format;
- *delete pass*: it deletes only what raw tree, manifest and device agree on,
  with its notes and its samples, outside both windows; it logs what it did; it
  eventually deletes what it may, and a drift pause ends;
- *daemon*: phase 2 runs only after a clean cycle, and failures only delay; one
  cycle at a time, no slot slept through, no press without a true answer;
- *profiles*: a new firmware version reaches the ledger in spite of the
  snapshot that was taken before it;
- *manifest*: there is a whole one at every moment, what it says of a shot
  changes only by a later word on that shot, and no good record is captured anew;
- *archive reads*: what was in force at a shot is told right however late it was
  logged, and one answer is put together from files that fit.

## Modules and code

```
Device  <-  Archive  <-  Sync, Parse, DeletePass  <-  Cycle  <-  MCCycle
                                                       |    ^
                                            (refines)  |    CycleProofs  <-  DeletionProofs, CaptureProofs
                                                       v                                ^
                                                     Vault                          VaultProofs

Trigger  <-  TriggerProofs

Jobs, Reads  <-  Library  <-  MCLibrary, LibraryProofs (which extends ReadsProofs)
                    |
         (refines)  v
               Bookkeeping

OrderLemmas: facts about numbers and sets, used by DeletionProofs, TriggerProofs, ReadsProofs
```

There are three models, each with the rest of the system cut down to what its
question needs. `Cycle` has one process and atomic saves, and every detail of
what a cycle does to a shot. `Trigger` has the threads and the clock, and a cycle
is an outcome. `Library` has the processes and the files, and a job records a
shot, records it anew, judges it or lets it go.
What `Cycle` takes for granted the other two show: that there is one cycle at a
time (`OneCycle`) and that a save is one step (`ManifestLoads`, `KeepsLedger`).

**Device** is the environment: `entries[id]` is a history entry with the day of
the shot, whether the index claims a duration, how far its file is flushed
(`header`, `partial`, `full`), the notes and the DELETED flag. `Slog(i)` is the
content of a file up to hash equality: its life of the counter, format version
and stage. Everything here is external and taken from what the client, the
vendored parsers and the comments in the code say of the firmware.

**Archive** is the durable state and the memory of the running step.

| Variable | Code |
|---|---|
| `raw`, `notes` | `raw/YYYY/MM/<id>.slog`, `.json` (`_shot_dir`, `sync.py:39`); the path has no epoch |
| `samples` | `parquet/samples/<key>.parquet`, as the bytes it was derived from |
| `shots[k]` | `manifest.shots`; `sha`, `json`, `parse`, `accepted`, `tomb`, `verified`, `gone` are `slog_sha256`, `json_sha256`, `parse_ok`, `accepted_degenerate`, `tombstone_seen`, `verified_at`, `device_deleted_at` |
| `dev` | `manifest.device`: epoch, `last_seen_next_id`, index version, `.slog` versions, `format_changed` |
| `delLog` | the lines of `deletions.log` |
| `pc`, `ok`, `index`, `todo`, `cur`, `docs`, `newNotes`, `picked` | where the cycle is and its locals |
| `faults`, `crashes`, `fresh`, `erased` | bounds and history the properties refer to |

**Sync**, one action per durable write or device request: `SyncIndex`,
`SyncDrift`, `SyncEpoch`, `SyncPlan`, per shot `SyncFetch`, `SyncUnlinkStale`,
`SyncRecord`, then `ReconcileRating`, `ReconcileDone`, `NotesFetch` and per
shot `StoreWrite`, `StoreSave`. Failures are actions of their own:
`SyncFetchGone` (404), `SyncWriteLies` (the read-back raises), `StoreFails`,
`NotesDeferred`, `SyncFails` (a request or a save raises).

**Parse** is one action, since the manifest is saved once at the end and nothing
else writes while it runs in a cycle; `ParseFails` and `ParseCrash` stop it at
any shot, with the sample file there, torn or missing; `ParseMisreads` is a
file that cannot be read in one run.

**DeletePass**: `PassSelect` (drift pause, candidates), `PassDocs`, `PassVerify`
per shot, `PassSend` per shot, `PassConfirm` (second index and log),
`PassSave`; `PassVerifyFails`, `PassRefused`, `PassFails`.

**Cycle** puts the three in the order of `daemon.cycle`, adds the profiles step
by its outcome, crashes, rot and the device, and states the properties.
**MCCycle** holds the sets a `.cfg` cannot write.

**Vault** is the promise of the archiver with none of its machinery: per shot a
copy on the device and a copy in the vault, which change freely, and a set of
released shots. A shot is released only while both copies are the same, and the
vault's copy of a released shot stays (it may rot, nothing replaces it). `Cycle`
maps onto it (`Held`): the device copy is the file of a live entry, the vault
copy the raw file a manifest record points to, the released shots those phase 2
deleted.

**Trigger** is `daemon.run`, the handler threads of `sync_api.py` and the tail
of a cycle. A thread is at a place: the loop boots, plans, sleeps, waits for the
lock or runs a cycle; a press is idle, waits or runs. Time goes in ticks; a
wait or a nap holds the ticks it has `left`, and `due` is the distance to the
loop's target, so that no deadline grows without end. Whoever can act does so
before time passes (`AllWait`).

| Variable | Code |
|---|---|
| `lock`, `at` | `_cycle_lock`, the thread's place in `run` or `do_POST` |
| `left[t]`, `due` | what is left of `acquire(timeout=...)` or `sleep(...)`; `target - now` |
| `step`, `ok` | where `cycle` is; `out["ok"]` |
| `snapped`, `ota`, `ledger` | `profiles/<today>.json` exists; the answer of the device; the version in `manifest.device` |
| `shot`, `wanted`, `fw`, `idle` | the world, and history for the properties |

`SetClock` is daylight saving: `datetime.now()` jumps, `time.sleep` does not.
`Crash` is the container restarting the daemon. `sync_now` is a press whose client
may have left after 180 s; its handler thread goes on like any other.

**Jobs** is every process that works on the archive: the daemon, which runs sync,
parse, profiles and phase 2 in turn, and `cli.py`, which runs one of them.
A manifest is a book that says of each shot that it has no record, a `draft`
(no `verified_at`), a record parse has not judged (`kept`), one judged `good` or
`bad`, or one marked `gone`. `mem[p]` is the copy that process p works on, and
`todo[p]` what its sync has yet to fetch: every shot without a verified record,
and of the bad ones those that `plan` fetches again (which ones depends on the
recheck window and is left open). A download makes a new record, without the
verdict of the old one (`sync.py:358-375`); a shot whose id the device no longer
serves raises, or `Answers` for the shot reborn under it. A parse judges all
verified records again. `save` is three steps, `Open`, `Write`,
`Replace`, with `fd` as the file it has open: when another process renames the
temporary file, who still writes to it writes to `manifest.json`. `ParseStart`
and `ParseTable` are the write of `shots.parquet` in place. `Fails` is a job that
raises at any point, `Dies` a process that ends there.

**Reads** holds the logs and the operators that answer from them: `PrepAt`
(with the order of ISO texts under changing UTC offsets), `BeansAt`, `Changed`
(`get_profile`), `ManifestRec` (`_manifest_rec`). **Library** puts `Jobs`
and `Reads` together and adds a call of the server: resolve, read the row, look
up the record. **Bookkeeping** is what the archiver relies on in its manifest:
whoever opens it finds each shot as it was last recorded. A save records one
capture, the verdicts of all verified ones, or deletions of shots judged good. A
shot is captured again until a parse finds it good; from then on only a parse
may say otherwise, and what is let go stays so. `Library`
maps `manifest.json` onto it (`OnFile`), with a file that cannot be read as one
that says nothing.

Four switches restrict the world of `Cycle`, and a run or a theorem names those it uses:

- `QuietCycle`: the counter does not restart while a cycle runs. A reset takes
  a flash or a power cycle; without the switch an index of the old life is
  compared with files of the new one.
- `QuietPass`: nobody edits notes and no archived file rots in the seconds
  that phase 2 runs. Device and archive cannot be changed atomically, so the
  code cannot do better than check just before.
- `SettledFlush`: a shot seen mid-write settles before the next cycle. The
  schedule is hours apart, but the code does not enforce it: the sync button can
  be pressed twice in one flush. Only `MCProgress` assumes it, and no
  theorem does; `VAcceptsGrowing` shows what happens without it.
- `PromptSync`: after a reset a sync runs before the new counter reaches the
  watermark. The limits below say what happens otherwise.

One switch restricts `Library`: with `Exclusive` nobody starts a job beside
another process. No code enforces it, since the lock is one process's own; it is
how the command line has to be used (see the limits).

## Properties

| Property (Cycle.tla) | Says | Code |
|---|---|---|
| `TypeOK` | every variable holds values of its kind | |
| `VerifiedEvidence` | a verified shot that no parse flagged is on disk under the recorded hash | `sync.py:316-375` |
| `HealthyRawImmutable` | a verified, clean raw file is never written again | `sync.py:114-126` |
| `SamplesMatchRaw` | after a parse, derived files come from the raw files that are there | `sync.py:324`, `parse.py:150` |
| `SyncIsComplete` | a sync that reports success archived every live shot of its index, in this life | `sync.py:70-135` |
| `KeysKeepLivesApart` | a record never changes lives | `sync.py:70-99` |
| `EventuallyArchived` | every shot with an index duration that stays is archived as it is, also one first captured as a bare header whose flush ends before the next cycle; one caught with some of its samples is excepted | `sync.py:102-135`, `338-357` |
| `RetriesEnd` | downloads stop, by acceptance or by the recheck window | `sync.py:119-121`, `347` |
| `EventuallyNoted` | rated notes that stay inside the recheck window are archived | `sync.py:175-236` |
| `EraseOnlyArchived` | at a deletion raw file, hash and device agree, and the shot parsed clean | `delete_pass.py:130-151` |
| `EraseOnlyWithNotes` | at a deletion the rated notes are archived as the device holds them | `delete_pass.py:125-146` |
| `EraseSparesRecent`, `DeletionCapped` | the recent window and the cap hold when deletions take effect | `delete_pass.py:93-113` |
| `EraseSparesCorpses` | what is deleted has samples on the device, however often a corpse was fetched, accepted or parsed | `delete_pass.py:11-13`, `98-103` |
| `DriftPauseEnds` | a drift pause ends once the archive holds a file that parses, however often firmware is flashed | `parse.py:134-138` |
| `GoneMeansGone`, `GoneIsLogged` | the manifest calls deleted only what is gone and logged | `delete_pass.py:154-186` |
| `KeepsDeleted` | the daemon implements `Vault`: what was deleted was archived as the device had it, and stays archived | `delete_pass.py:8`, `sync.py:102-135` |
| `EventuallyErased` | what may be deleted is deleted | the whole pass |
| `RawKeepsLivesApart`, `ErasedIsLogged`, `DriftEndsByNewFormat`, `ErasesEarlierRuns`, `AcceptedIsFinal` | what docs and comments say and the code does not do: see the divergences | |

| Property (Trigger.tla) | Says | Code |
|---|---|---|
| `OneCycle` | a cycle runs in the one thread that holds the lock, and no lock stays behind | `daemon.py:27-29`, `87-94` |
| `Fresh` | from cycle to cycle never more time passes than from slot to slot, plus one cycle and what the clock was set by | `daemon.py:115-123` |
| `SlotsHeeded` | the loop never sleeps past a slot, however the clock is set | `daemon.py:42-48`, `115-122` |
| `AnswersCover` | a press that is answered 200 has its shot archived | `sync_api.py:48-52` |
| `EveryPressEnds` | every press is answered | `sync_api.py:48-52` |
| `VersionsCatchUp` | new firmware reaches the ledger | `profiles.py:51-85` |
| `ShotsCatchUp` | a shot is archived in spite of failed cycles | `daemon.py:8`, `51-84` |

| Property (Library.tla, Reads.tla) | Says | Code |
|---|---|---|
| `ManifestLoads` | `manifest.json` is whole wherever a process dies | `manifest.py:84-96` |
| `KeepsLedger` | the file implements `Bookkeeping`: a save records one capture of a shot that is not good on file, the verdicts of all, or deletions of good shots, and nothing else changes it | `sync.py:117-125`, `358-375`, `manifest.py:74-96` |
| `StrandsOne` | during a sync at most one capture, the first of a shot or a repeated one, is not on file | `manifest.py:8-9` |
| `DeletedKnown` | what phase 2 took off the device is on file | `delete_pass.py:86-113` |
| `CallsHangTogether` | a call finds the row it resolved and a record for it | `archive_read.py:100-162` |
| `ReadableAtLast` | a table left half written is written again, with every shot | `parse.py:102-118`, `205-207` |
| `PrepIsSticky` | each setting is that of the latest entry before the shot that names it | `archive_read.py:58-78` |
| `LotRunsToNext` | a logged lot covers the dates up to the next lot and changes no others | `archive_read.py:81-97` |
| `HistoryTells` | the dates of change tell a profile's definition on each day | `archive_read.py:393-415` |

The properties of deletions are about the moment the device acts, not the
moment the code checks: the index they were chosen from is minutes old.

## Runs

| Run | Shows | Bounds | States |
|---|---|---|---|
| `MCCapture` | capture, heal, corpse, parse: evidence stays true | 2 shots of one day, all flush stages, 2 faults (request, lying write), shots removed and dropped, 3 days | 1.6 million |
| `MCPhase2` | deletion is safe and traceable, spares corpses, and what is deleted stays archived | 3 shots on 2 days, captures cut off, keep 1, cap 2, 1 fault of four kinds, 1 crash | 2.5 million |
| `MCEpochs` | resets of the counter, and notes edited while cycles run | 2 shots per life, 2 lives, deletions and resets on one day (grace 0), 2 documents (one unrated), 1 fault of three kinds, `QuietPass` | 3.9 million |
| `MCRelief` | phase 2 makes progress, within its cap, and a drift pause ends | 3 shots, 2 firmwares flashed at any moment, keep 1, cap 1, 1 fault (request, misread, torn sample file), fair | 0.2 million |
| `MCProgress` | archiving and notes make progress; retries end | 1 shot with or without a duration, caught as a header or with some samples, 2 documents, 1 fault of five kinds, 1 crash, `SettledFlush`, fair | 0.4 million |
| `MCTrigger` | the schedule, the presses and the lock | 2 presses, a day of 4 ticks with 2 slots, waits of 1 and 2 ticks, cycles of up to 2, 1 mishap (failed cycle, crash or clock set by 2 ticks), fair | 0.14 million |
| `MCLibrary` | daemon and command line over one manifest, beside the server | 3 shots in 2 lives with a reborn id, 1 command-line run, 1 mishap anywhere, 3 log entries, the repeated hour of autumn, fair | 0.6 million |
| `VRawCollides`, `VUnlogged`, `VDriftClears`, `VSameRun`, `VAcceptsGrowing` | one divergence each | as small as shows it | |

Why the bounds are enough. Steps work on one shot at a time; they meet in the
order by timestamp, the recent window and the cap, and three shots are the
fewest for which a window of one leaves two candidates for a cap of one. Two
lives are the fewest in which an id is reborn; a third repeats the second. Two
faults and a crash let one failure hit the recovery from another. Days
give shots before, at and after the recheck window and the grace period; in
`MCProgress` a shot of the last day never leaves the window, so that the notes
property cannot be met by waiting, and one of the first day does. `MCEpochs` has
one day and no grace period instead, so that a shot can be deleted, its counter
reset and its id reborn in few steps; its three properties are theorems for every
number of days.
In `MCTrigger` the press waits less than a cycle takes and the slot exactly as
long, so that presses give up, a slot gives up only when others took the lock
before it, and slots pass while a cycle runs; a day of two neighbouring slots has
a short and a long way between slots, and the clock is set across one. The UTC
day of the snapshots begins with the local day: where it begins matters to none
of the properties. `Fresh` holds with no tick to spare. `MCLibrary` needs two
shots of one life, so that a pass can strand more than one, and a second life
for the reborn id; one mishap hits every point of every job. No job touches the
logs and no entry the files of the jobs, so `MCNext` looks at log entries only
beside a daemon that finds nothing to do, and at jobs only with empty logs; a call
meets the same steps whoever runs a job, so calls run beside the daemon only;
three entries are the fewest with one before, one at and one after a given one.
The theorems below have no such bounds. `MaxShots`, `MaxLife`, `MaxDay`,
`LastRecordDay`, `MaxFaults` and `MaxCrashes` in `Cycle`, `MaxMishaps` in `Trigger`,
`MaxMishaps`, `MaxRuns` and `MaxEntries` in `Library` are the only caps, each a guard
of the action it limits; `CurrentEpoch \in Epoch` in `SyncEpoch` caps epochs at
the number of lives. No run needs `CHECK_DEADLOCK FALSE`: the daemon never
stops. No symmetry is used, because ids are ordered.

## Fairness

In `Cycle`, `FairSpec` adds three weak fairness conditions. `CycleStep`: requests have
timeouts (`device.py`, 20 s sessions in `profiles.py`), every loop is over a
finite list, and `daemon.run` sleeps until the next slot of an unending
schedule, so a cycle that can take a step takes one. `FlushStep`: a flush of
the firmware ends, complete or cut off. `TickStep`: days pass. Nothing is
assumed of faults, crashes, users or firmware; that they end is a consequence
of `MaxFaults` and `MaxCrashes`, which is the usual reading of "eventually the
network works long enough".

In `Trigger` the loop's steps, the lock and the cycle (`LoopStep`,
`LockStep \/ CycleStep`) and each thread's `GiveUp` are weakly fair: threads are
scheduled, the calls in a cycle have timeouts, and so has `acquire`. Nothing is
assumed about *which* waiting thread gets the lock. `Tick` is strongly fair:
presses can come and take the lock again and again within a tick, which disables
it again and again, but time does pass. In `Library` the daemon's cycles and the
steps of jobs are weakly fair together; log entries and calls are not.

## Proofs

Eight modules hold theorems. `CycleProofs`, `DeletionProofs`, `CaptureProofs` and `VaultProofs` are about `Cycle`,
for every number of shots, lives, days, faults and crashes and every setting of
the knobs. The constants satisfy only the named assumptions of the modules
(`SizesAreNat`, `FirmwareTyped`, `EntryDataTyped`, `NoneIsNoEntry`,
`ConfigTyped`, `BoundsTyped`, `AbsentIsApart`, `SwitchesTyped`), all of which
the runs evaluate. `TriggerProofs` and `LibraryProofs` do the same for
`Trigger` and `Library`, for every schedule and every number of presses, slots, shots, lives,
command-line runs, log entries and mishaps (assumptions `TimesTyped`, `ThreadsApart`,
`ProcsTyped`, `FilesApart`, `ReadsTyped`). `ReadsProofs` has the lemmas about
logs of any length; `OrderLemmas` those about numbers and finite sets.

Every safety property a passing run checks is stated by a theorem.

| Theorem | Assumes | Inductive invariant |
|---|---|---|
| `TypeCorrect`: `TypeOK` | nothing more | `TypeOK /\ MemoryOK` |
| `GoneLogged`: `GoneIsLogged` | nothing more | `+ GoneIsLogged /\ LogOK` |
| `NeverOverCap`: `DeletionCapped` | a cap of one or more | `+ RestOK /\ DeletionCapped` |
| `RecentSpared`: `EraseSparesRecent` | `QuietCycle`, `NobodyElseDeletes` | `+ FlushOK /\ WindowOK` |
| `NotesGoToo`: `EraseOnlyWithNotes` | `QuietPass`, `NotesWritesSucceed` | `+ NotesOK /\ PassNotesOK` |
| `DeletesOnlyArchived`: `EraseOnlyArchived` | `QuietCycle`, `QuietPass`, a grace period of a day or more | `+ FlushOK /\ PassOK` |
| `DeletedKept`: `KeepsDeleted`, the refinement of `Vault` | `QuietCycle`, `QuietPass`, a grace period of a day or more, one life | `+ FlushOK /\ PassOK /\ ReleasedOK` |
| `CorpsesStay`: `EraseSparesCorpses` | as `DeletedKept` | `+ FlushOK /\ PassOK /\ FetchOK /\ CorpseOK` |
| `GoneIsGone`: `GoneMeansGone` | one life | `+ FlushOK /\ GoneOK` |
| `HealthyRawKept`: `HealthyRawImmutable` | one life, no rot | `+ FetchOK` |
| `ManifestTruthful`: `VerifiedEvidence` | one life, no rot, no failing save, no crash | `+ EvidenceOK` |
| `SamplesFollow`: `SamplesMatchRaw` | one life, no rot, `TablesSucceed` | `+ TimesOK /\ SamplesOK` |
| `LivesKeptApart`: `KeysKeepLivesApart` | `QuietCycle`, `PromptSync` | `+ EpochOK` |
| `SyncCompletes`: `SyncIsComplete` | `QuietCycle`, `PromptSync` | `+ EpochOK /\ CompleteOK` |
| `OneCycleAtATime`: `OneCycle` | nothing more | `ThreadsOK /\ OneCycle /\ Covered` |
| `AnswersAreTrue`: `AnswersCover` | nothing more | the same |
| `TriggerTyped`: `TypeOK` of `Trigger` | nothing more | `TypeInv` |
| `NoSlotSleptThrough`: `SlotsHeeded` | nothing more | `TypeInv /\ Heeding` |
| `NeverStale`: `Fresh` | `WaitsTry` | `TypeInv /\ OneCycle /\ FreshInv` |
| `ManifestReadable`: `ManifestLoads` | `Exclusive` | `LInv`: `StoreOK /\ OneActive /\ CopyOK /\ ErasedKnown` |
| `LedgerKept`: `KeepsLedger`, the refinement of `Bookkeeping` | `Exclusive` | `BInv`: `LInv`, and `NewsOK /\ PlanOK` of each process |
| `DeletedRecorded`: `DeletedKnown` | `Exclusive` | `LInv` |
| `LibraryTyped`: `TypeOK` of `Library` | nothing more | itself |
| `OneStrand`: `StrandsOne` | `Exclusive` | `CInv`: `LInv /\ TypeOK /\ SInv /\ CallOK` |
| `CallsFind`: `CallsHangTogether` | `Exclusive` | `CInv` |
| `SettingsStick`: `PrepIsSticky` | `TextOrder` | `TypeOK` |
| `LotsRun`: `LotRunsToNext` | nothing more | `TypeOK` |
| `ChangesTell`: `HistoryTells` | nothing more | `TypeOK` |

(`+` is `TypeOK /\ MemoryOK` and what follows.)

The inductive invariants of `Cycle`:

- `TypeOK` alone is not inductive. `shots[KeyOf(i)]` is a record only where the
  code has already established that the shot is archived, and an index is there
  only at labels that work from one. `MemoryOK` says which memory each label
  has.
- `LogOK` is the write order of `delete_pass.py:158-186`: at the label before
  the save, the picked shots have their confirmed lines.
- `PassOK` carries each candidate through the pass: `Chosen` (verified, parsed,
  out of grace, listed), then `Proven` (device, raw file and hash are equal).
  What keeps it true is that nothing else changes in the meantime: a flush does
  not span days (`FlushOK`), so a file out of grace does not grow; ids are
  not reused without a reset. The theorem does not need `PromptSync`: after a
  reset that goes unseen phase 2 is still safe, because it compares bytes.
- `RestOK` says that the sync before it left nothing to do, so that the choice
  is all a pass has in hand. The choice itself holds no more than the cap
  (`ChoiceCapped`): it has a youngest shot, because age orders shots strictly
  (`AgeOrders`), and fewer than the cap are older than that one.
- `WindowOK` follows the recent window from the choice to the last deletion: of
  each shot still to send at least `KeepRecent` younger ones were listed, and
  *all* the younger ones listed are still live. The second half is what makes
  it inductive, and it holds because deletions go from the oldest up: whoever
  is deleted is younger than no shot still waiting.
- `NotesOK` says that behind each notes hash of the present epoch is the
  document, except between write and save, and `PassNotesOK` that what a pass
  listed, fetched and compared still holds. Records of earlier epochs
  (`EpochsPast`) are left out: a reborn id writes its notes over theirs. The
  theorem holds for resets at any moment: a shot reborn during the pass has no
  notes yet.
- `FetchOK` says that no planned shot is `Sound`, so that with a path per id
  no download lands on a healthy file. `OneLife` is necessary: with two lives
  `VRawCollides` is a counterexample.
- `EvidenceOK` says that the file of each sound record is the recorded one
  except for the one shot between download and record. `SavesSucceed` is
  necessary: see "a failed save after a heal" below.
- `TimesOK` says that device, index and manifest agree on the day of a shot, so
  that an id has one path. `SamplesOK` compares three things that a failed save
  lets drift apart, the recorded hash, the raw file and the samples. It needs
  the history of the device: its file only grows (`WorldGrows`), so bytes it
  once `Served` are either what it serves now or `Outgrown`, and outgrown bytes
  are never downloaded again. A record that a failed save left behind has an
  outgrown hash, so no later download equals it and the samples are unlinked
  before they can be stale. `ManifestTruthful` needs saves to succeed and
  `SamplesFollow` does not: the samples are unlinked *before* the save
  (`sync.py:322-327`).
- `EpochOK` says what the watermark means. While the counter is above it
  (`Counted`), the records of the current epoch are of the current life; once
  it is below (`Overtaken`), the device is exactly one life ahead. It also says
  that a manifest with a record has a watermark: `detect_epoch`'s branch for a
  manifest without one is only for files from before there was a watermark.
- `CompleteOK` says that a listed shot is planned or archived; with `EpochOK`,
  archived in this life.
- `ReleasedOK` says that a deleted shot has a record, is gone from the device
  for good and is in no sync's index as live nor in its downloads. So a deletion
  maps to `Release` (by `PassOK`, the copies agree) and every other step to
  `GoOn`: `RecordsStay` keeps the record and the path, `VaultStays` the file
  (rot gives `TORN`, which `Vault` allows). `OneLife` is again necessary: with a
  second life `MCPhase2` has a counterexample in which the file of a deleted
  shot is overwritten by a shot of the new life (see `VRawCollides`), and keys
  carry the archiver's epoch, which a reset before the first sync leaves behind
  the life of the counter.
- `GoneOK` says that the index of a pass lists only ids already handed out, so
  that "tombstoned or no longer listed" in the second index means gone
  (`SeenIsGone`), and that a gone id is not served again (`GoneForGood`).
  `OneLife` is necessary: between a reset and the next sync the device may serve a
  new shot under the id, and the archiver's key, of a deleted one.
- `CorpseOK` says that no accepted record is of a file with samples, and that a
  file that parsed clean and is still the recorded one has some. A fetch
  leaves the files of sound records alone (`FetchOK`) and makes a record without
  a verdict; what remains for the pass is that the bytes it compares are those
  of the verdict (`PassOK`).

Those of `Trigger` and `Library`:

- `Covered` says that past the sync of a cycle that is still ok no press wants its
  shot: so the answer 200 is true also for a press whose own cycle found
  nothing left to do. `OneCycle` is inductive only with the places of the threads
  (`ThreadsOK`).
- `Heeding` says that between now and the loop's target no slot comes round for
  the first time. `NextRun` gives it when the loop plans; a tick shifts it
  (`TickShifts`), and a set clock is what `repeated` counts.
- `FreshInv` bounds the time without a cycle at each place of the loop. It rests on
  `NextRunSoon`: whenever the loop plans, the next slot is no further than the
  longest way between two slots, for every schedule.
- `CopyOK` follows the copy of the manifest from load to rename: it is what is
  on file while a job works, has a record of every shot on file while it saves,
  and is what the temporary file holds when it is renamed. `OneActive` is why:
  nobody else changes the file under the copy.
- `NewsOK` says that a copy being saved differs from the file by the news of one
  save (`Updates`), so that the rename is one step of `Bookkeeping`. It is made
  where the job changes its copy, while that equals the file (`CopyOK`), and
  survives the truncation and the write, which leave both alone. `PlanOK` is what
  makes a repeated capture legal: no shot that is good or gone on file is in a
  sync's plan, and while the sync goes on nobody else makes one so.
- `StrandOK` says that a copy being saved by a sync says of at most one shot
  something else than the file, and `CallOK` that the table a call reads never
  names a shot the manifest does not: the job writes it from what is on file.
- The three properties of the logs hold in every state of the right types, so
  `LibraryTyped` is all the invariant they need; the work is in the lemmas
  `PrepSticks`, `LotRuns` and `HistoryTold`, which are about sequences of any
  length in any order of entry.

What the assumptions are for. Each is met by a run that checks the property,
and each was seen by TLC to be needed: without it the property has a
counterexample, in the run named or in one changed only in that setting.

| Assumption | What it says | Without it |
|---|---|---|
| one life | the counter is never reset | `HealthyRawImmutable`, `VerifiedEvidence`, `SamplesMatchRaw`, `GoneMeansGone`, `KeepsDeleted` fail: `VRawCollides` |
| `QuietCycle` | no reset while a cycle runs | `KeysKeepLivesApart`, `SyncIsComplete`, `EraseSparesRecent`, `EraseOnlyArchived` fail: see "a reset during phase 2" |
| `PromptSync` | a sync between a reset and the counter's return to the watermark | `KeysKeepLivesApart`, `SyncIsComplete` fail |
| `QuietPass` | nobody edits notes, and nothing rots, while phase 2 runs | `EraseOnlyWithNotes` fails |
| `NobodyElseDeletes` | no `remove` or `drop` by the user or the firmware | `EraseSparesRecent` fails: the younger shots go by hand |
| `NotesWritesSucceed` | no torn notes document, no crash | `EraseOnlyWithNotes` fails: see "notes are not read back" |
| `TablesSucceed` | no parse dies half-way, no crash | `SamplesMatchRaw` fails: see "a torn sample file" |
| a cap of one or more | `MaxPerRun >= 1` | `DeletionCapped` fails: see "zero" |
| `WaitsTry` | `RunOnStart`, and neither wait is zero (60 s and 600 s in the code) | `Fresh` fails without any of the three (`RunOnStart` and the first wait with `Shift = 0`) |
| `Exclusive` | one process at a time changes the archive | the theorems of `Library` about files fail |
| `TextOrder` | texts of instants sort like the instants; `MCLibrary` evaluates it for its zone | `PrepIsSticky` fails east of Greenwich |

Each proof has one step per action; lemmas such as `GoneKept`, `RecordsKept` or
`DeviceKeepsProof` say which steps can disturb a conjunct at all, and lemmas
such as `FetchReached` or `PassReached` from where a label is reached. Where an
argument goes by induction over numbers (the next slot, the entry in
force, the size of a choice) it takes a least or greatest element
instead (`LeastNatural` and `GreatestNatural`, from the well-foundedness of
`<`).

Model-checked only: liveness under fairness, which is out of the provers' reach
(`EventuallyArchived`, `EventuallyNoted`, `EventuallyErased`, `DriftPauseEnds`,
`RetriesEnd`, `ReadableAtLast`, `EveryPressEnds`, `VersionsCatchUp`, `ShotsCatchUp`), and the
divergences of the next section, which are counterexamples.

## Divergences found

Each has a run whose counterexample shows it; the quotes are in PROJECT.json.

- `VRawCollides`: a reborn id overwrites the raw file of the old life when both
  fall in the same month, since the path has no epoch. If phase 2 had deleted the
  old shot from the device, that file was its only copy.
- `VDriftClears`: a drift pause is lifted by a shot of the *old* format, in the
  cycle that raised it, when only the old version is known.
- `VAcceptsGrowing`: two cycles within one flush (a pressed button and a slot, or
  two presses) fetch the same bare header, which is accepted for good while the
  device goes on writing the shot.
- `VSameRun`: eligibility asks whether a shot is verified, not by which run.
- `VUnlogged`: when the confirming index request fails, deletions that took
  effect have no line in `deletions.log`.

Limits met on the way that have no run of their own; each appears when the
named run is changed as said:

- *A reset behind the watermark.* `PromptSync = FALSE` in `MCEpochs`: the new
  counter reaches the old watermark before a sync looks, and `SyncIsComplete`
  fails.
- *A reset during phase 2.* `QuietCycle = FALSE` and two lives in `MCPhase2`: the
  counter restarts between the comparison of a shot and the request that deletes
  it, which names only the id, and the shot reborn under it is deleted
  unarchived (`EraseOnlyArchived`, `EraseSparesRecent`).
- *A file caught with some of its samples.* It counts as complete and clean, and
  is never fetched again: without its exception (`CaughtPartial`)
  `EventuallyArchived` fails in `MCProgress`. `sync.py:106-107` says of the heal
  "the device usually still holds the complete file, so this heals truncation
  automatically".
- *A `.slog` version that changes alone.* With two firmwares of one index version
  in `VSameRun`, phase 2 deletes while no shot of the new version has parsed clean:
  `parse.py:140-150` notes the new version but sets no `format_changed_at`.
  ARCHITECTURE.md:104-106 calls ".slog version each parse" a part of the drift
  that "pauses phase 2 until a shot parses clean under the new format". No
  property here speaks of it; `DriftEndsByNewFormat` is about a pause there was.
- *A drift pause and a rotted file.* The `"rot"` fault in `MCRelief`: when the only
  archived file of the newest `.slog` version rots before a parse, the pause
  stays until another shot of that version is archived (`DriftPauseEnds`).
- *A failed save after a heal.* A `"save"` fault in `MCCapture`: the new file is
  clean under the old hash, is not fetched again and is never eligible for
  deletion (`VerifiedEvidence`). A crash in the same place does the same. Its
  samples are not stale (`SamplesFollow`).
- *A torn sample file.* A crash in `MCCapture`: `write_table` writes in place
  and later runs skip what exists (`SamplesMatchRaw`); `--rebuild` repairs it.
- *Notes are not read back.* A crash in `MCEpochs`: the pass compares device and manifest but not the archived notes file
  (`EraseOnlyWithNotes`).
- *A full cap.* The cap counts candidates before they are verified, oldest
  first. In `MCRelief` with shots that have no duration and are caught mid-write
  (`Timed = {TRUE, FALSE}`, `MidWrite = {"header"}`), a `"save"` fault after a heal
  leaves a stale hash that never verifies again; it takes the one place in every
  pass, and younger shots are never deleted (`EventuallyErased`).
- *Zero.* `KeepRecent = 0` in `MCRelief` keeps everything (`[-0:]` is the whole
  list, `EventuallyErased` fails); `MaxPerRun = 0` still lets one through
  (`DeletionCapped`).
- *A rating taken back.* Notes without a rating leave `has_notes` false beside a
  stored hash. `delete_pass.py:110` says "sync reconciles first", but sync only
  looks at shots with `has_notes`, so the shot is never eligible again.
- *A command line beside the daemon.* `Exclusive = FALSE` in `MCLibrary`: the
  last save takes back what the other process recorded (`KeepsLedger`,
  `DeletedKnown`: a shot deleted from the device of which the manifest knows
  nothing), and two saves at once write one temporary file (`ManifestLoads`).
- *A restart in a slot without run-on-start.* `RunOnStart = FALSE` and
  `Shift = 0` in `MCTrigger`: a crash loses the slot's cycle, and the next one
  comes with the next slot (`Fresh`).
- *A slot that finds the lock taken.* It is given up after 600 s without a log
  line. `Fresh` holds in spite of it, because who kept the lock ran cycles.
- *The repeated hour east of Greenwich.* A zone of positive offset in
  `MCLibrary`: entries are sorted as text, where "+01:00" comes before "+02:00"
  although it is the later of the two, and `PrepIsSticky` fails. West of
  Greenwich the order of texts is that of time.
- *Two lives in one answer.* `WHERE shot_id = ?` has no order, so the row of a
  reborn id may be that of either life, while the record is that of the newest:
  one answer can show one shot's numbers with another's notes. After a reset
  "latest" (`mcp_server.py:66`) resolves to an id and has the same choice.
- *A torn sample file* also makes every read of `samples` raise, since the view
  is a glob over all of them (`archive_read.py:40`).
- *Dates without padding.* `strptime` lets `log_beans` record "2026-9-5"
  (`mcp_server.py:158`), which `datetime.fromisoformat` refuses in every later
  `beans_at` (`archive_read.py:88`). The text form of a date is not modelled.
- *The manifest is not a cache.* A lost `manifest.json` loads as an empty one
  (`manifest.py:76`): what the device no longer holds is never listed again,
  although `manifest.py:1` calls it rebuildable and no code rebuilds it.
- *Firmware flashed after the sync of a cycle.* Phase 2 reads its own index and
  does not compare its version with the ledger.

## Not modelled, and why

- Byte layouts, the SQL aggregates of `list_shots`, `get_shot` and the dial-in
  summaries, curves, `run_query` and its filter, plotting, logging,
  notifications: data and I/O.
- `parse_schedule`, the listener's 401, 404 and 405, the token check and the
  HTTP transport of the MCP server: no state changes.
- `parse --rebuild`, the last-success file; `--limit` and `--dry-run` only as
  jobs that end early (`SyncDone`, `DryRun` in `Jobs`).
- What the profiles files say beyond one profile's definition; a label that two
  profiles match.
- Phase 2 inside `Trigger` (it is a part of the cycle's time there), the
  sample files and the recheck of notes inside `Library`.
- `manifest.save` failing inside the notes loop, which defers like a failed
  write but leaves the record changed in memory.
- Notes of several shots are fetched in one WebSocket session, modelled as one
  moment; an edit between two answers of one session is not.
- Rot or loss of the manifest itself, and a rename that does not survive a loss
  of power (the directory is not synced).

## Plan

Done in this order: `Device`, `Archive`, `Sync`, `Parse`, `DeletePass`, `Cycle`;
the runs; `CycleProofs`, `DeletionProofs`, `CaptureProofs`; `Vault` and
`VaultProofs`; `Trigger` and `TriggerProofs`; `Jobs`, `Bookkeeping`, `Reads`,
`Library` and `LibraryProofs`; `OrderLemmas`, `ReadsProofs` and the theorems
about the cap, the window, notes, samples, epochs, slots, strands and logs. Next:

1. What `DeletedKept` can say of several lives: a deleted shot's file stays until
   a reborn id of the same month is downloaded.
2. `ManifestTruthful` with failing saves: what a record then still says of its
   file (`SamplesOK` has the invariant).
3. `parse --rebuild` between cycles, and what it repairs.
