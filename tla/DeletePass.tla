----------------------------- MODULE DeletePass -----------------------------
(***************************************************************************)
(* delete_pass.py: phase 2, verified deletion.  Candidates are chosen from *)
(* one index, each is verified against the device, the archive and the     *)
(* manifest, the survivors are deleted over one WebSocket session, and the *)
(* outcome is confirmed on a second index, logged and saved.               *)
(***************************************************************************)
EXTENDS Archive, FiniteSets

LiveIn(ix, i) == ix.entries[i] # NONE /\ ~ix.entries[i].deleted

\* keep_ids: sorted(live)[-KeepRecent:], which is everything when
\* KeepRecent is 0.
KeptOneTooFew(ix, i) ==
  \/ KeepRecent = 0
  \/ Cardinality({j \in Ids : LiveIn(ix, j) /\ OlderIn(ix, i, j)}) + 1 < KeepRecent
KeptRecent(ix, i) ==
  \/ KeepRecent = 0
  \/ Cardinality({j \in Ids : LiveIn(ix, j) /\ OlderIn(ix, i, j)}) < KeepRecent

NotesAgree(ix, i) == ix.entries[i].hasNotes = (shots[KeyOf(i)].json # NONE)

\* Older than the grace period.
OutOfGraceStrictly(ix, i) == today - ix.entries[i].ts > GraceDays
OutOfGrace(ix, i) == today - ix.entries[i].ts >= GraceDays

DeletableUnparsed(k) == Verified(k) /\ ~shots[k].gone
Deletable(k) == Verified(k) /\ shots[k].parse = "ok" /\ ~shots[k].gone

Eligible(ix, i) ==
  /\ LiveIn(ix, i)
  /\ Deletable(KeyOf(i))
  /\ ~KeptRecent(ix, i)
  /\ OutOfGrace(ix, i)
  /\ NotesAgree(ix, i)

\* The loop appends a candidate and then compares the count with the cap.
CapTestedLate(ix, i) ==
  Cardinality({j \in Ids : Eligible(ix, j) /\ OlderIn(ix, j, i)}) <= MaxPerRun
WithinCap(ix, i) ==
  LET older == Cardinality({j \in Ids : Eligible(ix, j) /\ OlderIn(ix, j, i)})
  IN  older = 0 \/ older < MaxPerRun

Candidates(ix) == {i \in Ids : Eligible(ix, i) /\ WithinCap(ix, i)}

\* Format drift that no parse has cleared.
Paused == dev.formatChanged

\* The drift pause, the empty device, and the choice of candidates.
PassSelect ==
  /\ pc = "phase2"
  /\ LET chosen == Candidates(Index)
         idle   == Paused \/ ~IndexExists \/ chosen = {}
     IN \/ idle /\ GoTo("idle")
        \/ /\ ~idle
           /\ pc' = "docs" /\ index' = Index /\ todo' = chosen
           /\ UNCHANGED <<cur, docs, newNotes, picked>>
  /\ UNCHANGED <<deviceVars, storeVars, ok, histVars>>

\* The notes of the candidates that have some, in one WebSocket session.
PassDocs ==
  /\ pc = "docs" /\ pc' = "verify"
  /\ docs' = FetchDocs({i \in todo : index.entries[i].hasNotes})
  /\ UNCHANGED <<deviceVars, storeVars, ok, index, todo, cur, newNotes, picked, histVars>>

\* Device, archive and manifest agree on the shot file, and the manifest and
\* the device on the notes.
DeviceHasId(i) == Live(i)
DeviceMatches(i) == Live(i) /\ Slog(i) = shots[KeyOf(i)].sha
ArchiveNotRead(i) == TRUE
ArchiveMatches(i) == RawOf(KeyOf(i)) = shots[KeyOf(i)].sha
NotesArrived(i) == index.entries[i].hasNotes => docs[i] # NONE
NotesMatch(i) == index.entries[i].hasNotes =>
                   docs[i] # NONE /\ docs[i] = shots[KeyOf(i)].json

PassVerify(i) ==
  /\ pc = "verify" /\ OldestOf(todo, i)
  /\ todo' = todo \ {i}
  /\ picked' = IF DeviceMatches(i) /\ ArchiveMatches(i) /\ NotesMatch(i)
               THEN picked \cup {i} ELSE picked
  /\ UNCHANGED <<deviceVars, storeVars, pc, ok, index, cur, docs, newNotes, histVars>>

\* A request or a read raises: the shot is skipped.
PassVerifyFails(i) ==
  /\ pc = "verify" /\ OldestOf(todo, i)
  /\ Fault("request")
  /\ todo' = todo \ {i}
  /\ UNCHANGED <<deviceVars, storeVars, pc, ok, index, cur, docs, newNotes, picked,
                 crashes, fresh, erased>>

PassVerified ==
  /\ pc = "verify" /\ todo = {}
  /\ \/ /\ picked = {}
        /\ GoTo("idle")
     \/ /\ picked # {}
        /\ pc' = "send" /\ todo' = picked
        /\ UNCHANGED <<index, cur, docs, newNotes, picked>>
  /\ UNCHANGED <<deviceVars, storeVars, ok, histVars>>

\* req:history:delete: the device tombstones the entry and removes the file.
PassSend(i) ==
  /\ pc = "send" /\ OldestOf(todo, i)
  /\ todo' = todo \ {i}
  /\ \/ /\ Live(i)
        /\ entries' = [entries EXCEPT ![i].deleted = TRUE]
        /\ erased' = erased \cup {KeyOf(i)}
     \/ /\ ~Live(i)
        /\ UNCHANGED <<entries, erased>>
  /\ UNCHANGED <<life, fw, nextId, today, storeVars,
                 pc, ok, index, cur, docs, newNotes, picked, faults, crashes, fresh>>

\* The device answers without deleting: any answer counts as one.
PassRefused(i) ==
  /\ pc = "send" /\ OldestOf(todo, i)
  /\ Fault("request")
  /\ todo' = todo \ {i}
  /\ UNCHANGED <<deviceVars, storeVars, pc, ok, index, cur, docs, newNotes, picked,
                 crashes, fresh, erased>>

\* Gone: tombstoned in the second index, or no longer in it.
TakenAsGone(i) == Listed(i)
SeenGone(i) == IndexExists /\ (IF Index.entries[i] = NONE THEN Listed(i)
                               ELSE Index.entries[i].deleted)

\* Confirm on a fresh index and append one line per verified shot.
PassConfirmLogsNothing ==
  /\ pc = "send" /\ todo = {}
  /\ pc' = "save"
  /\ delLog' = delLog \cup {[key |-> KeyOf(i), confirmed |-> SeenGone(i)] : i \in todo}
  /\ picked' = {i \in picked : SeenGone(i)}
  /\ UNCHANGED <<deviceVars, raw, notes, samples, shots, dev,
                 ok, index, todo, cur, docs, newNotes, histVars>>
PassConfirm ==
  /\ pc = "send" /\ todo = {}
  /\ pc' = "save"
  /\ delLog' = delLog \cup {[key |-> KeyOf(i), confirmed |-> SeenGone(i)] : i \in picked}
  /\ picked' = {i \in picked : SeenGone(i)}
  /\ UNCHANGED <<deviceVars, raw, notes, samples, shots, dev,
                 ok, index, todo, cur, docs, newNotes, histVars>>

\* The manifest records the confirmed deletions.
PassSaveForgets ==
  /\ pc = "save"
  /\ shots' = [k \in Key |-> IF k \in {KeyOf(i) : i \in picked} THEN NONE ELSE shots[k]]
  /\ GoTo("idle")
  /\ UNCHANGED <<deviceVars, raw, notes, samples, dev, delLog, ok, histVars>>
PassSave ==
  /\ pc = "save"
  /\ shots' = [k \in Key |-> IF k \in {KeyOf(i) : i \in picked}
                             THEN [shots[k] EXCEPT !.gone = TRUE, !.tomb = TRUE]
                             ELSE shots[k]]
  /\ GoTo("idle")
  /\ UNCHANGED <<deviceVars, raw, notes, samples, dev, delLog, ok, histVars>>

\* A request outside the per-shot guard, or the save, raises: the pass ends.
PassFails ==
  /\ \/ pc \in {"phase2", "send"} /\ Fault("request")
     \/ pc = "docs" /\ (\E i \in todo : index.entries[i].hasNotes) /\ Fault("request")
     \/ pc = "save" /\ Fault("save")
  /\ GoTo("idle")
  /\ UNCHANGED <<deviceVars, storeVars, ok, crashes, fresh, erased>>

PassStep ==
  \/ PassSelect \/ PassDocs
  \/ \E i \in Ids : PassVerify(i) \/ PassSend(i)
  \/ PassVerified \/ PassConfirm \/ PassSave

PassFault ==
  \/ \E i \in Ids : PassVerifyFails(i) \/ PassRefused(i)
  \/ PassFails

=============================================================================
