------------------------------- MODULE Parse -------------------------------
(***************************************************************************)
(* parse.py: one parse of the daemon.  Every archived file is parsed in    *)
(* key order, missing sample files are written one by one, and verdicts    *)
(* and the drift ledger are saved at the end in a single manifest.save.    *)
(* shots.parquet is rewritten wholesale by every run and is not kept here. *)
(***************************************************************************)
EXTENDS Archive

\* The raw files that parse: those whose bytes are a shot file and that the
\* file system serves.  The others raise ValueError or OSError.
Parses(k, unreadable) ==
  /\ Archived(k) /\ k \notin unreadable
  /\ RawOf(k) \notin {NONE, TORN}

Clean(k, unreadable) == Parses(k, unreadable) /\ HasSamples(RawOf(k))

\* Sample files are only written when missing.
NeedsSamples(k) == samples[k] = NONE

\* The sample files once the keys of a set have been handled.
SamplesOf(K, unreadable) ==
  [k \in Key |-> IF k \in K /\ Parses(k, unreadable) /\ NeedsSamples(k)
                 THEN RawOf(k) ELSE samples[k]]

Verdict(k, unreadable) == IF Clean(k, unreadable) THEN "ok" ELSE "bad"

\* The .slog versions known when the loop reaches a key.
SeenBefore(k, unreadable) ==
  dev.slogVersions \cup
    {RawOf(j).fw : j \in {l \in Key : KeyBefore(l, k) /\ Parses(l, unreadable)}}

ClearsOnSighting(k, unreadable) ==
  Parses(k, unreadable) /\ RawOf(k).fw \notin SeenBefore(k, unreadable)

\* This shot clears a standing drift pause: its version is the newest known
\* so far, or no version is known yet.
Clears(k, unreadable) ==
  /\ Parses(k, unreadable)
  /\ LET seen == SeenBefore(k, unreadable)
     IN  seen = {} \/ (RawOf(k).fw \in seen /\ \A v \in seen : v <= RawOf(k).fw)

ParsedShots(unreadable) ==
  [k \in Key |-> IF Archived(k) THEN [shots[k] EXCEPT !.parse = Verdict(k, unreadable)]
                 ELSE NONE]

ParsedLedger(unreadable) ==
  [dev EXCEPT
     !.slogVersions = @ \cup {RawOf(k).fw : k \in {l \in Key : Parses(l, unreadable)}},
     !.formatChanged = @ /\ ~(\E k \in Key : Clears(k, unreadable))]

ParseAll(unreadable) ==
  /\ pc = "parse" /\ pc' = "profiles"
  /\ samples' = SamplesOf(Key, unreadable)
  /\ shots' = ParsedShots(unreadable)
  /\ dev' = ParsedLedger(unreadable)
  /\ UNCHANGED <<deviceVars, raw, notes, delLog,
                 ok, index, todo, cur, docs, newNotes, picked>>

ParseRun == ParseAll({}) /\ UNCHANGED histVars

\* One raw file cannot be read in this run: its verdict is "bad".
ParseMisreads ==
  /\ \E k \in Key : Archived(k) /\ ParseAll({k})
  /\ Fault("read") /\ UNCHANGED <<crashes, fresh, erased>>

\* The sample files a run leaves behind when it stops at key k: those before
\* k are written and k's own is complete, torn or not there.  (write_table
\* writes in place.)
StoppedSamples(k) ==
  LET before == SamplesOf({l \in Key : KeyBefore(l, k)}, {})
      upTo   == SamplesOf({l \in Key : KeyBefore(l, k)} \cup {k}, {})
  IN  {before, upTo} \cup
      (IF Parses(k, {}) /\ NeedsSamples(k) THEN {[before EXCEPT ![k] = TORN]} ELSE {})

\* An exception in the middle (or in the final save): nothing reaches the
\* manifest, and the cycle goes on without being clean.
ParseFails ==
  /\ pc = "parse" /\ pc' = "profiles" /\ ok' = FALSE
  /\ Fault("table")
  /\ \E k \in Key : samples' \in StoppedSamples(k)
  /\ UNCHANGED <<deviceVars, raw, notes, shots, dev, delLog,
                 index, todo, cur, docs, newNotes, picked, crashes, fresh, erased>>

\* The archiver dies while parsing.
ParseCrash ==
  /\ pc = "parse" /\ crashes < MaxCrashes
  /\ crashes' = crashes + 1
  /\ \E k \in Key : samples' \in StoppedSamples(k)
  /\ GoTo("idle") /\ ok' = TRUE
  /\ UNCHANGED <<deviceVars, raw, notes, shots, dev, delLog, faults, fresh, erased>>

=============================================================================
