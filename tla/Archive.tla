------------------------------ MODULE Archive ------------------------------
(***************************************************************************)
(* What the archiver keeps: the raw tree, the archived notes, the derived  *)
(* sample files, the manifest (one record per shot and the device ledger)  *)
(* and deletions.log; and what one run of the daemon holds in memory while *)
(* it works on them.  The steps themselves are in Sync, Parse and          *)
(* DeletePass.                                                             *)
(***************************************************************************)
EXTENDS Device

CONSTANTS
  RecheckDays,    \* notes_recheck_days
  GraceDays,      \* delete_grace_days
  KeepRecent,     \* keep_recent_shots
  MaxPerRun,      \* delete_max_per_run
  DeleteEnabled,  \* delete_enabled
  DaysPerMonth,   \* raw/YYYY/MM: how many days share a directory
  MaxFaults,      \* failures the environment injects in a behaviour
  FaultKinds,     \* which: "request", "write",
                  \* "save", "table", "read", "rot"
  MaxCrashes,     \* crashes of the archiver in a behaviour
  TORN            \* a file whose content is not what was meant to be written

ASSUME ConfigTyped ==
  /\ RecheckDays \in Nat /\ GraceDays \in Nat
  /\ KeepRecent \in Nat /\ MaxPerRun \in Nat
  /\ DeleteEnabled \in BOOLEAN
  /\ DaysPerMonth \in Nat \ {0}

ASSUME BoundsTyped == MaxFaults \in Nat /\ MaxCrashes \in Nat

VARIABLES
  raw,      \* raw/YYYY/MM/<id>.slog
  notes,    \* raw/YYYY/MM/<id>.json
  samples,  \* parquet/samples/<key>.parquet: the bytes it was derived from
  shots,    \* manifest.shots: key -> record or NONE
  dev,      \* manifest.device
  delLog    \* deletions.log: the lines it holds

VARIABLES
  pc,        \* where the running cycle is
  ok,        \* out["ok"] of the cycle
  index,     \* the parsed index.bin a step works from
  todo,      \* shots the current loop still has to handle
  cur,       \* the shot being archived and its bytes: [id, slog]
  docs,      \* notes documents fetched over the WebSocket
  newNotes,  \* new_shot_notes: shots archived by this run that have notes
  picked     \* phase 2: shots that passed verification, then were confirmed

VARIABLES
  faults,   \* failures so far
  crashes,  \* crashes so far
  fresh,    \* keys verified since the current cycle began (history)
  erased    \* keys of live shots the archiver deleted on the device (history)

storeVars == <<raw, notes, samples, shots, dev, delLog>>
runVars == <<pc, ok, index, todo, cur, docs, newNotes, picked>>
histVars == <<faults, crashes, fresh, erased>>

Day == 0..MaxDay
Month(day) == day \div DaysPerMonth
Path == {Month(day) : day \in Day} \X Ids
PathOf(ts, i) == <<Month(ts), i>>

Epoch == 1..MaxLife
Key == Epoch \X Ids
KeyOf(i) == <<dev.epoch, i>>
\* sorted(manifest.shots): plain keys of epoch 1 first, then e2-..., by id.
KeyBefore(k, l) == k[1] < l[1] \/ (k[1] = l[1] /\ k[2] < l[2])

\* ShotRecord.  sha stands for slog_sha256, json for json_sha256; verified,
\* gone: verified_at, device_deleted_at are set; parse is parse_ok.
Record == [ts : Day, rating : Nat, sha : Bytes, json : Docs \cup {NONE},
           verified : BOOLEAN, parse : {"unknown", "ok", "bad"},
           accepted : BOOLEAN, tomb : BOOLEAN, gone : BOOLEAN]

\* manifest.device.  watermark 0: last_seen_next_id is missing.
Ledger == [epoch : Epoch, watermark : Nat, indexVersion : Nat \cup {NONE},
           slogVersions : SUBSET SlogVersion, formatChanged : BOOLEAN]

Archived(k) == shots[k] # NONE
Verified(k) == Archived(k) /\ shots[k].verified
RawOf(k) == raw[PathOf(shots[k].ts, k[2])]
NotesOf(k) == notes[PathOf(shots[k].ts, k[2])]

Listed(i) == index.entries[i] # NONE
ListedLive(i) == Listed(i) /\ ~index.entries[i].deleted

\* sorted(..., key=timestamp) is stable and the index is in id order.
OlderIn(ix, i, j) ==
  \/ ix.entries[i].ts < ix.entries[j].ts
  \/ ix.entries[i].ts = ix.entries[j].ts /\ i < j
OldestOf(S, i) == i \in S /\ \A j \in S \ {i} : OlderIn(index, i, j)
FirstOf(S, i) == i \in S /\ \A j \in S : i <= j

\* The WebSocket serves the notes file of an id, tombstoned or not.
DeviceNotes(i) == IF entries[i] = NONE THEN NONE ELSE entries[i].doc
NoDocs == [i \in Ids |-> NONE]
FetchDocs(S) == [i \in Ids |-> IF i \in S THEN DeviceNotes(i) ELSE NONE]

Fault(kind) ==
  /\ kind \in FaultKinds /\ faults < MaxFaults
  /\ faults' = faults + 1

\* A step of the run ends and its memory with it.
GoTo(label) ==
  /\ pc' = label
  /\ index' = NONE /\ todo' = {} /\ cur' = NONE
  /\ docs' = NoDocs /\ newNotes' = {} /\ picked' = {}

ArchiveInit ==
  /\ raw = [p \in Path |-> NONE] /\ notes = [p \in Path |-> NONE]
  /\ samples = [k \in Key |-> NONE]
  /\ shots = [k \in Key |-> NONE]
  /\ dev = [epoch |-> 1, watermark |-> 0, indexVersion |-> NONE,
            slogVersions |-> {}, formatChanged |-> FALSE]
  /\ delLog = {}
  /\ pc = "idle" /\ ok = TRUE
  /\ index = NONE /\ todo = {} /\ cur = NONE
  /\ docs = NoDocs /\ newNotes = {} /\ picked = {}
  /\ faults = 0 /\ crashes = 0 /\ fresh = {} /\ erased = {}

SyncLabel == {"sync", "drift", "epoch", "plan", "fetch", "fetched", "record",
              "reconcile", "notes", "store", "stored"}
PassLabel == {"phase2", "docs", "verify", "send", "save"}
Label == {"idle", "parse", "profiles"} \cup SyncLabel \cup PassLabel

IndexEntryType == [ts : Day, timed : BOOLEAN, deleted : BOOLEAN, rating : Nat,
                   hasNotes : BOOLEAN]
IndexType == [version : Nat, next : Nat, entries : [Ids -> IndexEntryType \cup {NONE}]]

CurType == [id : Ids, slog : Bytes]

\* Absent and torn are values of their own.
ASSUME AbsentIsApart ==
  /\ NONE \notin Record /\ NONE \notin IndexType
  /\ NONE \notin IndexEntryType /\ NONE \notin CurType
  /\ NONE \notin Bytes /\ TORN \notin Bytes

FileBytes == Bytes \cup {NONE, TORN}
DocFile == Docs \cup {NONE, TORN}

StoreTypeOK ==
  /\ raw \in [Path -> FileBytes]
  /\ notes \in [Path -> DocFile]
  /\ samples \in [Key -> FileBytes]
  /\ shots \in [Key -> Record \cup {NONE}]
  /\ dev \in Ledger
  /\ delLog \subseteq [key : Key, confirmed : BOOLEAN]

RunTypeOK ==
  /\ pc \in Label /\ ok \in BOOLEAN
  /\ index \in IndexType \cup {NONE}
  /\ todo \subseteq Ids /\ newNotes \subseteq Ids /\ picked \subseteq Ids
  /\ cur \in CurType \cup {NONE}
  /\ docs \in [Ids -> Docs \cup {NONE}]

HistTypeOK ==
  /\ faults \in Nat /\ crashes \in Nat
  /\ fresh \subseteq Key /\ erased \subseteq Key

ArchiveTypeOK == StoreTypeOK /\ RunTypeOK /\ HistTypeOK

=============================================================================
