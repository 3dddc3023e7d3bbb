-------------------------------- MODULE Sync --------------------------------
(***************************************************************************)
(* sync.py: one sync of the daemon.  It reads the index, notes format      *)
(* drift and counter resets in the ledger, plans, archives the missing     *)
(* shots oldest first, and then catches up on ratings and notes.  Every    *)
(* manifest.save is a step of its own, so that a crash can fall between    *)
(* any two durable writes.  An exception ends the sync (ok becomes FALSE)  *)
(* and the cycle goes on with parse; a notes failure only defers notes.    *)
(***************************************************************************)
EXTENDS Archive

EntryAt(i) == index.entries[i]

\* fetch_and_parse_index.  A 404 is an empty device: nothing to do.
SyncIndex ==
  /\ pc = "sync"
  /\ \/ /\ IndexExists
        /\ pc' = "drift" /\ index' = Index
        /\ UNCHANGED <<todo, cur, docs, newNotes, picked>>
     \/ /\ ~IndexExists
        /\ GoTo("parse")
  /\ UNCHANGED <<deviceVars, storeVars, ok, histVars>>

IndexDrifted == dev.indexVersion # NONE /\ dev.indexVersion # index.version

\* Format drift: a new index version pauses phase 2.
SyncDrift ==
  /\ pc = "drift" /\ pc' = "epoch"
  /\ dev' = [dev EXCEPT !.indexVersion = index.version,
                        !.formatChanged = @ \/ IndexDrifted]
  /\ UNCHANGED <<deviceVars, raw, notes, samples, shots, delLog,
                 ok, index, todo, cur, docs, newNotes, picked, histVars>>

\* The counter went below the watermark or, without one, not above some
\* archived id.
ResetLate == index.next + 1 < dev.watermark
ResetIgnored == FALSE
ResetDetected ==
  IF dev.watermark = 0
  THEN \E k \in Key : Archived(k) /\ index.next <= k[2]
  ELSE index.next < dev.watermark

CurrentEpoch == IF ResetDetected THEN dev.epoch + 1 ELSE dev.epoch

\* detect_epoch and the save after it.  CurrentEpoch \in Epoch is a bound:
\* there are no more epochs than lives.
SyncEpoch ==
  /\ pc = "epoch" /\ pc' = "plan"
  /\ CurrentEpoch \in Epoch
  /\ dev' = [dev EXCEPT !.epoch = CurrentEpoch, !.watermark = index.next]
  /\ UNCHANGED <<deviceVars, raw, notes, samples, shots, delLog,
                 ok, index, todo, cur, docs, newNotes, picked, histVars>>

InRecheckWindow(ts) == today - ts <= RecheckDays

\* A verified shot that parsed degenerate is fetched again in the window.
HealsAlways(k) == ~shots[k].accepted
Heals(k) ==
  /\ shots[k].parse = "bad"
  /\ ~shots[k].accepted

NeedsFetch(i) ==
  /\ ListedLive(i)
  /\ Verified(KeyOf(i)) => Heals(KeyOf(i)) /\ InRecheckWindow(EntryAt(i).ts)

Tombstoned(k) ==
  /\ Archived(k) /\ k[1] = dev.epoch
  /\ Listed(k[2]) /\ EntryAt(k[2]).deleted

\* plan, and the tombstones it found recorded in the manifest.
SyncPlan ==
  /\ pc = "plan" /\ pc' = "fetch"
  /\ todo' = {i \in Ids : NeedsFetch(i)}
  /\ shots' = [k \in Key |-> IF Tombstoned(k) THEN [shots[k] EXCEPT !.tomb = TRUE]
                             ELSE shots[k]]
  /\ UNCHANGED <<deviceVars, raw, notes, samples, dev, delLog,
                 ok, index, cur, docs, newNotes, picked, histVars>>

SlogPath(i) == PathOf(EntryAt(i).ts, i)

\* Download the oldest planned shot and write it to the raw tree, read back.
SyncFetch(i) ==
  /\ pc = "fetch" /\ OldestOf(todo, i)
  /\ Live(i)
  /\ cur' = [id |-> i, slog |-> Slog(i)]
  /\ raw' = [raw EXCEPT ![SlogPath(i)] = Slog(i)]
  /\ pc' = "fetched"
  /\ UNCHANGED <<deviceVars, notes, samples, shots, dev, delLog,
                 ok, index, todo, docs, newNotes, picked, histVars>>

\* The shot left the device since the index was read: 404, an exception.
SyncFetchGoneSkips(i) ==
  /\ pc = "fetch" /\ OldestOf(todo, i)
  /\ ~Live(i)
  /\ todo' = todo \ {i}
  /\ UNCHANGED <<deviceVars, storeVars, pc, ok, index, cur, docs, newNotes, picked,
                 histVars>>
SyncFetchGone(i) ==
  /\ pc = "fetch" /\ OldestOf(todo, i)
  /\ ~Live(i)
  /\ GoTo("parse") /\ ok' = FALSE
  /\ UNCHANGED <<deviceVars, storeVars, histVars>>

\* The write claimed success and stored something else: the read-back raises.
SyncWriteLies(i) ==
  /\ pc = "fetch" /\ OldestOf(todo, i)
  /\ Live(i)
  /\ Fault("write")
  /\ raw' = [raw EXCEPT ![SlogPath(i)] = TORN]
  /\ GoTo("parse") /\ ok' = FALSE
  /\ UNCHANGED <<deviceVars, notes, samples, shots, dev, delLog,
                 crashes, fresh, erased>>

\* What the manifest knew of the shot being archived (provisional or heal).
Known == Archived(KeyOf(cur.id))
SameBytes == Known /\ shots[KeyOf(cur.id)].sha = cur.slog

\* Changed bytes invalidate the derived sample file.
SyncKeepsStale ==
  /\ pc = "fetched" /\ pc' = "record"
  /\ UNCHANGED <<deviceVars, storeVars, ok, index, todo, cur, docs, newNotes, picked,
                 histVars>>
SyncUnlinkStale ==
  /\ pc = "fetched" /\ pc' = "record"
  /\ samples' = IF Known /\ ~SameBytes THEN [samples EXCEPT ![KeyOf(cur.id)] = NONE]
                ELSE samples
  /\ UNCHANGED <<deviceVars, raw, notes, shots, dev, delLog,
                 ok, index, todo, cur, docs, newNotes, picked, histVars>>

\* The mid-write guard, and the terminal state of a byte-stable corpse.
CompleteAnyway == TRUE
Complete == EntryAt(cur.id).timed => HasSamples(cur.slog)
NeverAccepted == FALSE
Accepted == ~Complete /\ SameBytes

RecordWithoutVerdict ==
  [ts |-> EntryAt(cur.id).ts, rating |-> EntryAt(cur.id).rating,
   sha |-> cur.slog, json |-> NONE, verified |-> Complete \/ Accepted,
   parse |-> NONE, accepted |-> Accepted, tomb |-> FALSE, gone |-> FALSE]
NewRecord ==
  [ts |-> EntryAt(cur.id).ts, rating |-> EntryAt(cur.id).rating,
   sha |-> cur.slog, json |-> NONE, verified |-> Complete \/ Accepted,
   parse |-> "unknown", accepted |-> Accepted, tomb |-> FALSE, gone |-> FALSE]

\* The record replaces what was known of the shot, and the manifest is saved.
SyncRecord ==
  /\ pc = "record" /\ pc' = "fetch"
  /\ shots' = [shots EXCEPT ![KeyOf(cur.id)] = NewRecord]
  /\ fresh' = IF NewRecord.verified THEN fresh \cup {KeyOf(cur.id)} ELSE fresh
  /\ newNotes' = IF EntryAt(cur.id).hasNotes THEN newNotes \cup {cur.id} ELSE newNotes
  /\ todo' = todo \ {cur.id}
  /\ cur' = NONE
  /\ UNCHANGED <<deviceVars, raw, notes, samples, dev, delLog,
                 ok, index, docs, picked, faults, crashes, erased>>

SyncFetchesDone ==
  /\ pc = "fetch" /\ todo = {}
  /\ pc' = "reconcile"
  /\ UNCHANGED <<deviceVars, storeVars, ok, index, todo, cur, docs, newNotes, picked,
                 histVars>>

RatingDrifted(i) ==
  /\ ListedLive(i) /\ Verified(KeyOf(i))
  /\ EntryAt(i).rating # shots[KeyOf(i)].rating

\* reconcile_archived, first half: one rating, one save.
ReconcileRating(i) ==
  /\ pc = "reconcile" /\ RatingDrifted(i)
  /\ \A j \in Ids : RatingDrifted(j) => i <= j
  /\ shots' = [shots EXCEPT ![KeyOf(i)].rating = EntryAt(i).rating]
  /\ UNCHANGED <<deviceVars, raw, notes, samples, dev, delLog, runVars, histVars>>

NeedsFirstNotes(i) ==
  /\ ListedLive(i) /\ Verified(KeyOf(i))
  /\ EntryAt(i).hasNotes
  /\ shots[KeyOf(i)].json = NONE
NeedsNotes(i) ==
  /\ ListedLive(i) /\ Verified(KeyOf(i))
  /\ EntryAt(i).hasNotes
  /\ shots[KeyOf(i)].json = NONE \/ InRecheckWindow(EntryAt(i).ts)

\* reconcile_archived, second half: which shots need a notes fetch.
ReconcileDone ==
  /\ pc = "reconcile" /\ \A i \in Ids : ~RatingDrifted(i)
  /\ LET needs == {i \in Ids : NeedsNotes(i)} \cup newNotes IN
     \/ /\ needs = {}
        /\ GoTo("parse")
     \/ /\ needs # {}
        /\ pc' = "notes" /\ todo' = needs
        /\ UNCHANGED <<index, cur, docs, newNotes, picked>>
  /\ UNCHANGED <<deviceVars, storeVars, ok, histVars>>

\* One WebSocket session for all of them.
NotesFetch ==
  /\ pc = "notes" /\ pc' = "store"
  /\ docs' = FetchDocs(todo)
  /\ UNCHANGED <<deviceVars, storeVars, ok, index, todo, cur, newNotes, picked, histVars>>

\* The session fails: all deferred, and the sync still succeeds.
NotesDeferred ==
  /\ pc = "notes"
  /\ Fault("request")
  /\ GoTo("parse")
  /\ UNCHANGED <<deviceVars, storeVars, ok, crashes, fresh, erased>>

NotesUnchanged(i) == docs[i] = NONE \/ docs[i] = shots[KeyOf(i)].json
NotesPath(i) == PathOf(shots[KeyOf(i)].ts, i)

\* No document came back, or the archived one is the same.
StoreSkip(i) ==
  /\ pc = "store" /\ FirstOf(todo, i)
  /\ NotesUnchanged(i)
  /\ todo' = todo \ {i}
  /\ UNCHANGED <<deviceVars, storeVars, pc, ok, index, cur, docs, newNotes, picked, histVars>>

\* _store_notes writes and reads back the canonical document.
StoreWrite(i) ==
  /\ pc = "store" /\ FirstOf(todo, i)
  /\ ~NotesUnchanged(i)
  /\ notes' = [notes EXCEPT ![NotesPath(i)] = docs[i]]
  /\ pc' = "stored"
  /\ UNCHANGED <<deviceVars, raw, samples, shots, dev, delLog,
                 ok, index, todo, cur, docs, newNotes, picked, histVars>>

\* The write fails or lies: this shot's notes are deferred.
StoreFails(i) ==
  /\ pc = "store" /\ FirstOf(todo, i)
  /\ ~NotesUnchanged(i)
  /\ Fault("write")
  /\ notes' = [notes EXCEPT ![NotesPath(i)] = TORN]
  /\ todo' = todo \ {i}
  /\ UNCHANGED <<deviceVars, raw, samples, shots, dev, delLog,
                 pc, ok, index, cur, docs, newNotes, picked, crashes, fresh, erased>>

\* ... and the manifest learns their hash.
StoreSave(i) ==
  /\ pc = "stored" /\ FirstOf(todo, i)
  /\ shots' = [shots EXCEPT ![KeyOf(i)].json = docs[i]]
  /\ todo' = todo \ {i}
  /\ pc' = "store"
  /\ UNCHANGED <<deviceVars, raw, notes, samples, dev, delLog,
                 ok, index, cur, docs, newNotes, picked, histVars>>

SyncDone ==
  /\ pc = "store" /\ todo = {}
  /\ GoTo("parse")
  /\ UNCHANGED <<deviceVars, storeVars, ok, histVars>>

\* The steps that end in a manifest.save.
Saving ==
  \/ pc = "drift" /\ dev.indexVersion # index.version
  \/ pc \in {"epoch", "record"}
  \/ pc = "plan" /\ \E k \in Key : Tombstoned(k) /\ ~shots[k].tomb
  \/ pc = "reconcile" /\ \E i \in Ids : RatingDrifted(i)

\* A request (the index, a shot) or a manifest.save raises out of the sync.
SyncFails ==
  /\ \/ (pc = "sync" \/ (pc = "fetch" /\ todo # {})) /\ Fault("request")
     \/ Saving /\ Fault("save")
  /\ GoTo("parse") /\ ok' = FALSE
  /\ UNCHANGED <<deviceVars, storeVars, crashes, fresh, erased>>

SyncStep ==
  \/ SyncIndex \/ SyncDrift \/ SyncEpoch \/ SyncPlan
  \/ \E i \in Ids : SyncFetch(i) \/ SyncFetchGone(i)
  \/ SyncUnlinkStale \/ SyncRecord \/ SyncFetchesDone
  \/ \E i \in Ids : ReconcileRating(i)
  \/ ReconcileDone
  \/ NotesFetch
  \/ \E i \in Ids : StoreSkip(i) \/ StoreWrite(i) \/ StoreSave(i)
  \/ SyncDone

SyncFault ==
  \/ \E i \in Ids : SyncWriteLies(i) \/ StoreFails(i)
  \/ NotesDeferred
  \/ SyncFails

=============================================================================
