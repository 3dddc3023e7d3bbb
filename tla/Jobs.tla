-------------------------------- MODULE Jobs --------------------------------
(***************************************************************************)
(* The processes that share the archive directory: the daemon, which runs  *)
(* sync, parse, the profiles step and the delete pass one after the other, *)
(* and the command line, which runs one of them in a process of its own    *)
(* without the daemon's lock.  A job loads manifest.json, works on its     *)
(* copy and saves the whole of it: truncate manifest.json.tmp, write it,   *)
(* rename it.  What a job does to a shot is in Cycle; here a shot is       *)
(* recorded, by a heal recorded anew, judged again by each parse, let go.  *)
(***************************************************************************)
EXTENDS Naturals

CONSTANTS
  Shots,       \* shots, as <<life of the counter, id>>
  Cli,         \* command-line processes
  Exclusive,   \* nobody starts a job beside another process
  MaxRuns,     \* command-line runs, in a behaviour
  MaxMishaps,  \* jobs that raise and processes that die, in a behaviour
  NONE,
  TORN         \* a file whose content is not what was meant to be written

Daemon == "daemon"
Proc == Cli \cup {Daemon}

ASSUME ProcsTyped ==
  /\ Shots \subseteq Nat \X Nat /\ Daemon \notin Cli
  /\ Exclusive \in BOOLEAN /\ MaxRuns \in Nat /\ MaxMishaps \in Nat

\* What a manifest says of a shot: it has no record, one without verified_at
\* (a draft), one that parse has not judged, judged good or judged bad, or one
\* that says phase 2 has deleted it.
Entry == {"none", "draft", "kept", "good", "bad", "gone"}
Book == [Shots -> Entry]
Blank == [s \in Shots |-> "none"]
Records(book) == {s \in Shots : book[s] # "none"}

ASSUME FilesApart ==
  /\ NONE # TORN /\ {NONE, TORN} \cap {"tmp", "manifest"} = {}
  /\ \A book \in Book : book \notin {NONE, TORN}
  /\ \A shots \in SUBSET Shots : shots # TORN

VARIABLES
  pulled,    \* shots the device has ever taken
  device,    \* those it still holds
  manifest,  \* manifest.json: a book, or TORN
  tmp,       \* manifest.json.tmp: a book, TORN, or NONE
  table,     \* shots.parquet: the shots it has a row of, or TORN
  pc,        \* where each process is
  job,       \* what it runs
  mem,       \* the copy of the manifest it works on
  todo,      \* shots its sync has yet to fetch
  fd,        \* the file its save has open: "tmp", or "manifest" once another
             \* process has renamed it
  clean,     \* the daemon's out["ok"]
  runs, mishaps, \* so far
  erased     \* shots deleted by phase 2 (history)

fileVars == <<manifest, tmp, table>>
procVars == <<pc, job, mem, todo, fd, clean>>
worldVars == <<pulled, device, runs, mishaps, erased>>
jobVars == <<fileVars, procVars, worldVars>>

At(p, place) == pc[p] = place
Goto(p, place) == pc' = [pc EXCEPT ![p] = place]
Works(p, j) == At(p, "work") /\ job[p] = j
Put(book, shots, entry) == [s \in Shots |-> IF s \in shots THEN entry ELSE book[s]]
Knows(p, shots, entry) == mem' = [mem EXCEPT ![p] = Put(mem[p], shots, entry)]
Leaves(p) == UNCHANGED fd
Closes(p) == fd' = [fd EXCEPT ![p] = NONE]
Mishap == mishaps < MaxMishaps /\ mishaps' = mishaps + 1

\* The order of shots: by life of the counter, then by id.
Before(r, s) == r[1] < s[1] \/ (r[1] = s[1] /\ r[2] < s[2])
Oldest(shots, s) == s \in shots /\ \A r \in shots \ {s} : Before(s, r)

-----------------------------------------------------------------------------
\* A process takes up a job.
Starts(p, j) ==
  /\ At(p, "off") /\ Goto(p, "load")
  /\ Exclusive => \A q \in Proc : At(q, "off")
  /\ job' = [job EXCEPT ![p] = j]
  /\ UNCHANGED <<fileVars, mem, todo, fd, pulled, device, mishaps, erased>>

StartCycle == Starts(Daemon, "sync") /\ clean' = TRUE /\ UNCHANGED runs

StartCommand(p) ==
  /\ p \in Cli /\ runs < MaxRuns /\ runs' = runs + 1
  /\ \E j \in {"sync", "parse", "profiles", "delete"} : Starts(p, j)
  /\ UNCHANGED clean

\* What follows a job: the next step of a cycle, phase 2 only after a clean
\* one, or nothing.
Follows(p, well) ==
  IF p \in Cli THEN "off"
  ELSE CASE job[p] = "sync" -> "parse"
         [] job[p] = "parse" -> "profiles"
         [] job[p] = "profiles" /\ clean /\ well -> "delete"
         [] OTHER -> "off"

Done(p, well) ==
  /\ \/ Follows(p, well) = "off" /\ Goto(p, "off") /\ UNCHANGED job
     \/ /\ Follows(p, well) # "off" /\ Goto(p, "load")
        /\ job' = [job EXCEPT ![p] = Follows(p, well)]
  /\ clean' = (IF p = Daemon THEN clean /\ well ELSE clean)
  /\ mem' = [mem EXCEPT ![p] = Blank] /\ todo' = [todo EXCEPT ![p] = {}]

\* plan: shots without a verified record, and those a parse found bad that are
\* in the recheck window and not accepted as they are.
Unverified == {s \in device : manifest[s] \in {"none", "draft"}}
MayHealAny == {s \in device : manifest[s] \in {"kept", "good", "bad"}}
MayHeal == {s \in device : manifest[s] = "bad"}

\* Manifest.load.  Sync saves what it learns from the index at once, if the
\* device has one.
Load(p) ==
  /\ At(p, "load") /\ manifest # TORN
  /\ Goto(p, IF job[p] = "sync" /\ pulled # {} THEN "open" ELSE "work")
  /\ mem' = [mem EXCEPT ![p] = manifest]
  /\ \/ job[p] # "sync" /\ UNCHANGED todo
     \/ /\ job[p] = "sync"
        /\ \E heals \in SUBSET MayHeal : todo' = [todo EXCEPT ![p] = Unverified \cup heals]
  /\ UNCHANGED <<fileVars, job, fd, clean, worldVars>>

\* A shot that left the device with its life; its id may be there again.
Answers(s) == \E r \in device : r[2] = s[2]

\* The device does not answer, a file cannot be written: the job raises.  So
\* it does when the manifest is no JSON, a planned shot or the temporary file
\* is gone.
MustRaise(p) ==
  \/ Works(p, "sync") /\ \E s \in todo[p] : Oldest(todo[p], s) /\ ~Answers(s)
  \/ At(p, "load") /\ manifest = TORN
  \/ At(p, "replace") /\ tmp = NONE

Fails(p) ==
  /\ ~At(p, "off") /\ Done(p, FALSE) /\ Closes(p)
  /\ \/ MustRaise(p) /\ UNCHANGED mishaps
     \/ ~MustRaise(p) /\ Mishap
  /\ UNCHANGED <<fileVars, pulled, device, runs, erased>>

\* sync: the oldest planned shot is downloaded and gets a record of its own,
\* whatever its record said; a capture without samples makes a draft.
SyncAll(p) ==
  /\ Works(p, "sync") /\ todo[p] # {} /\ Goto(p, "open")
  /\ \E entry \in {"draft", "kept"} : Knows(p, todo[p], entry)
  /\ todo' = [todo EXCEPT ![p] = {}]
  /\ UNCHANGED <<fileVars, job, fd, clean, worldVars>>
SyncShot(p) ==
  /\ Works(p, "sync") /\ Goto(p, "open")
  /\ \E s \in todo[p], entry \in {"draft", "kept"} :
       /\ Oldest(todo[p], s) /\ Answers(s)
       /\ Knows(p, {s}, entry)
       /\ todo' = [todo EXCEPT ![p] = @ \ {s}]
  /\ UNCHANGED <<fileVars, job, fd, clean, worldVars>>

\* All are, or as many as a command's --limit allows.
SyncDone(p) ==
  /\ Works(p, "sync") /\ (todo[p] = {} \/ p \in Cli)
  /\ Done(p, TRUE)
  /\ UNCHANGED <<fileVars, fd, worldVars>>

\* A command's --dry-run looks and saves nothing.
DryRun(p) ==
  /\ p \in Cli /\ At(p, "load") /\ manifest # TORN
  /\ job[p] \in {"sync", "delete"} /\ Done(p, TRUE)
  /\ UNCHANGED <<fileVars, fd, worldVars>>

\* parse: shots.parquet is written over in place, when there is a row ...
ParseStart(p) ==
  /\ Works(p, "parse")
  /\ \/ Records(mem[p]) = {} /\ Done(p, TRUE) /\ UNCHANGED table
     \/ /\ Records(mem[p]) # {} /\ Goto(p, "table")
        /\ table' = TORN /\ UNCHANGED <<job, mem, todo, clean>>
  /\ UNCHANGED <<manifest, tmp, fd, worldVars>>

\* ... of every record, and every verified one is judged again, for its raw
\* file may have rotted or be readable again.  A save follows when a verdict
\* or something else of a record changed.
Verified(book) == {s \in Shots : book[s] \in {"kept", "good", "bad"}}

Judged(book, good) ==
  [s \in Shots |-> IF s \notin Verified(book) THEN book[s] ELSE IF s \in good THEN "good" ELSE "bad"]

NewRows(p) == {s \in Shots : mem[p][s] \in {"draft", "kept"}}
Rows(p) == Records(mem[p])

ParseTable(p) ==
  /\ At(p, "table") /\ table' = Rows(p)
  /\ \E good \in SUBSET Verified(mem[p]) :
       LET book == Judged(mem[p], good)
       IN  \/ book = mem[p] /\ Done(p, TRUE)
           \/ /\ Goto(p, "open") /\ mem' = [mem EXCEPT ![p] = book]
              /\ UNCHANGED <<job, todo, clean>>
  /\ UNCHANGED <<manifest, tmp, fd, worldVars>>

\* profiles: a changed firmware version is saved.
Profiles(p) ==
  /\ Works(p, "profiles")
  /\ \/ Done(p, TRUE)
     \/ Goto(p, "open") /\ UNCHANGED <<job, mem, todo, clean>>
  /\ UNCHANGED <<fileVars, fd, worldVars>>

\* delete pass: shots it knows as verified and clean, still on the device.
DueUnread(p) == device
Due(p) == {s \in device : mem[p][s] = "good"}

Delete(p) ==
  /\ Works(p, "delete") /\ Goto(p, "open")
  /\ \E some \in SUBSET Due(p) \ {{}} :
       /\ device' = device \ some /\ erased' = erased \cup some
       /\ Knows(p, some, "gone")
  /\ UNCHANGED <<fileVars, job, todo, fd, clean, pulled, runs, mishaps>>

DeleteNothing(p) ==
  /\ Works(p, "delete") /\ Done(p, TRUE)
  /\ UNCHANGED <<fileVars, fd, worldVars>>

-----------------------------------------------------------------------------
\* save: open(tmp, "w") truncates the one temporary file there is ...
OpenInPlace(p) ==
  /\ At(p, "open") /\ Goto(p, "write")
  /\ manifest' = TORN /\ fd' = [fd EXCEPT ![p] = "manifest"]
  /\ UNCHANGED <<tmp, table, job, mem, todo, clean, worldVars>>
Open(p) ==
  /\ At(p, "open") /\ Goto(p, "write")
  /\ tmp' = TORN /\ fd' = [fd EXCEPT ![p] = "tmp"]
  /\ UNCHANGED <<manifest, table, job, mem, todo, clean, worldVars>>

\* ... writes and syncs it; two writers of one file may garble it ...
Alone(p) == \A q \in Proc \ {p} : fd[q] # fd[p]
Written(p) == IF Alone(p) THEN {mem[p]} ELSE {mem[p], TORN}

Write(p) ==
  /\ At(p, "write") /\ Goto(p, "replace")
  /\ \/ fd[p] = "tmp" /\ tmp' \in Written(p) /\ UNCHANGED manifest
     \/ fd[p] = "manifest" /\ manifest' \in Written(p) \cup {TORN} /\ UNCHANGED tmp
  /\ UNCHANGED <<table, job, mem, todo, fd, clean, worldVars>>

\* ... and renames it; who still writes to it now writes to manifest.json.
Replace(p) ==
  /\ At(p, "replace") /\ tmp # NONE
  /\ manifest' = tmp /\ tmp' = NONE
  /\ LET open == [q \in Proc |-> IF fd[q] = "tmp" THEN "manifest" ELSE fd[q]]
     IN  fd' = [open EXCEPT ![p] = NONE]
  /\ UNCHANGED <<table, worldVars>>
  /\ \/ job[p] = "sync" /\ Goto(p, "work") /\ UNCHANGED <<job, mem, todo, clean>>
     \/ job[p] # "sync" /\ Done(p, TRUE)

-----------------------------------------------------------------------------
\* A process dies; the files stay as they are.
Dies(p) ==
  /\ ~At(p, "off") /\ Mishap
  /\ Goto(p, "off") /\ Closes(p)
  /\ mem' = [mem EXCEPT ![p] = Blank] /\ todo' = [todo EXCEPT ![p] = {}]
  /\ UNCHANGED <<fileVars, job, clean, pulled, device, runs, erased>>

\* A shot is pulled: the next of this life of the counter, or one of a new
\* life, which finds the device empty.
PullShot(s) ==
  /\ \A r \in pulled : Before(r, s)
  /\ pulled' = pulled \cup {s}
  /\ device' = {r \in device : r[1] = s[1]} \cup {s}
  /\ UNCHANGED <<fileVars, procVars, runs, mishaps, erased>>

JobsInit ==
  /\ pulled = {} /\ device = {} /\ runs = 0 /\ mishaps = 0 /\ erased = {}
  /\ manifest = Blank /\ tmp = NONE /\ table = {}
  /\ pc = [p \in Proc |-> "off"] /\ job = [p \in Proc |-> "sync"]
  /\ mem = [p \in Proc |-> Blank] /\ todo = [p \in Proc |-> {}] /\ fd = [p \in Proc |-> NONE] /\ clean = TRUE

JobStep(p) ==
  \/ Load(p) \/ Fails(p) \/ Dies(p)
  \/ SyncShot(p) \/ SyncDone(p) \/ DryRun(p) \/ ParseStart(p) \/ ParseTable(p)
  \/ Profiles(p) \/ Delete(p) \/ DeleteNothing(p)
  \/ Open(p) \/ Write(p) \/ Replace(p)

JobsNext ==
  \/ StartCycle
  \/ \E p \in Cli : StartCommand(p)
  \/ \E p \in Proc : JobStep(p)
  \/ \E s \in Shots : PullShot(s)

\* Types, and a save has its file open from open to rename and at no other time.
JobsTypeOK ==
  /\ device \subseteq pulled /\ pulled \subseteq Shots /\ erased \subseteq Shots
  /\ manifest = TORN \/ manifest \in Book
  /\ tmp \in {TORN, NONE} \/ tmp \in Book
  /\ table = TORN \/ table \subseteq Shots
  /\ pc \in [Proc -> {"off", "load", "work", "table", "open", "write", "replace"}]
  /\ job \in [Proc -> {"sync", "parse", "profiles", "delete"}]
  /\ mem \in [Proc -> Book] /\ todo \in [Proc -> SUBSET Shots]
  /\ fd \in [Proc -> {NONE, "tmp", "manifest"}]
  /\ \A p \in Proc : fd[p] # NONE <=> pc[p] \in {"write", "replace"}
  /\ clean \in BOOLEAN /\ runs \in 0..MaxRuns /\ mishaps \in 0..MaxMishaps
=============================================================================
