------------------------------ MODULE Library -------------------------------
(***************************************************************************)
(* The archive server beside the processes that write the archive.  A call *)
(* such as get_shot resolves the shot, reads its row and looks up its      *)
(* record, each from files that may have been written in between.          *)
(***************************************************************************)
EXTENDS Jobs, Reads, FiniteSets

VARIABLES
  call,  \* what the call does next, or "idle"
  sid,   \* the device id it is about
  row    \* the row it read

callVars == <<call, sid, row>>
vars == <<jobVars, logVars, callVars>>

\* resolve_shot_id: an id with a row, the newest one for "latest".
Resolve ==
  /\ call = "idle" /\ table # TORN
  /\ \E s \in table : sid' = s[2]
  /\ call' = "headline"
  /\ UNCHANGED <<jobVars, logVars, row>>

\* _headline: a row with the id; of two lives, either.
Headline ==
  /\ call = "headline" /\ table # TORN
  /\ \E s \in table : s[2] = sid /\ row' = s
  /\ call' = "record"
  /\ UNCHANGED <<jobVars, logVars, sid>>

\* _notes_text and _phase_names find the raw file through the record.
Record ==
  /\ call = "record" /\ manifest # TORN
  /\ ManifestRec(Records(manifest), sid) # {}
  /\ call' = "idle" /\ row' = NONE /\ sid' = NONE
  /\ UNCHANGED <<jobVars, logVars>>

\* A file that is half written cannot be read: the call raises.
CallFails ==
  /\ \/ call = "headline" /\ table = TORN
     \/ call = "record" /\ manifest = TORN
  /\ call' = "idle" /\ row' = NONE /\ sid' = NONE
  /\ UNCHANGED <<jobVars, logVars>>

Init ==
  /\ JobsInit
  /\ prep = <<>> /\ beans = <<>> /\ snaps = <<>>
  /\ call = "idle" /\ sid = NONE /\ row = NONE

LogStep ==
  \/ \E at \in Instant, settings \in SUBSET Setting : LogPrep(at, settings)
  \/ \E start \in Date : LogBeans(start)
  \/ \E definition \in Definitions \cup {ABSENT} : TakeSnapshot(definition)

CallStep == Resolve \/ Headline \/ Record \/ CallFails

Next ==
  \/ JobsNext /\ UNCHANGED <<logVars, callVars>>
  \/ LogStep /\ UNCHANGED <<jobVars, callVars>>
  \/ CallStep

Spec == Init /\ [][Next]_vars

\* The daemon starts cycles for ever and jobs end.
Fairness == WF_vars((StartCycle \/ \E p \in Proc : JobStep(p)) /\ UNCHANGED <<logVars, callVars>>)
FairSpec == Spec /\ Fairness

-----------------------------------------------------------------------------
TypeOK ==
  /\ JobsTypeOK
  /\ prep \in Seq([at : Instant, settings : SUBSET Setting])
  /\ beans \in Seq(Date) /\ snaps \in Seq(Definitions \cup {ABSENT})
  /\ call \in {"idle", "headline", "record"}
  /\ sid \in Nat \cup {NONE} /\ row \in Shots \cup {NONE}

\* manifest.json can be read at every moment, wherever a process dies in a save
\* (manifest.py:84-96).
ManifestLoads == manifest # TORN

\* What a reader finds in manifest.json; nothing, when it is no JSON.
OnFile == IF manifest = TORN THEN Blank ELSE manifest

B == INSTANCE Bookkeeping WITH Shot <- Shots, book <- OnFile

\* The file implements Bookkeeping: a save records one capture, the verdicts of
\* a parse or deletions of shots judged good, and no failure or crash takes
\* anything back, nor a later sync what is good (sync.py:117-125, 358-375,
\* manifest.py:74-96).
KeepsLedger == B!Books

\* "a crashed run strands one download at most, never the pass"
\* (manifest.py:8-9): at no moment of a sync is more than one shot captured, for
\* the first time or again, and its record not on file.
Unsaved(p) == {s \in Shots : mem[p][s] # OnFile[s]}
StrandsOne ==
  \A p \in Proc : job[p] = "sync" /\ pc[p] \notin {"off", "load"} => Cardinality(Unsaved(p)) <= 1

\* The manifest knows every shot that phase 2 took off the device
\* (delete_pass.py:86-113, manifest.py:84-96).
DeletedKnown == erased \subseteq Records(OnFile)

\* A call that could resolve its shot finds the row, and a record at least as
\* young as the row, although table and manifest are written meanwhile
\* (archive_read.py:100-161, parse.py:206-211).
CallsHangTogether ==
  /\ call = "headline" /\ table # TORN => \E s \in table : s[2] = sid
  /\ call = "record" /\ manifest # TORN =>
       \E s \in ManifestRec(Records(manifest), sid) : s[1] >= row[1]

\* What is archived can be read in the end: a table left half written by a
\* crash is written again, with every shot (parse.py:102-118, 205-207).
ReadableAtLast ==
  \A s \in Shots : s \in Records(OnFile) ~> table # TORN /\ s \in table
=============================================================================
