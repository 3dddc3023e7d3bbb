--------------------------- MODULE LibraryProofs ---------------------------
(***************************************************************************)
(* The archive's bookkeeping survives its writers: for any number of       *)
(* shots, lives, command-line runs, failures and crashes, as long as one   *)
(* process at a time works on the archive.  Side by side they do not keep  *)
(* the promise: both write the same temporary file and save what they      *)
(* loaded.                                                                 *)
(***************************************************************************)
EXTENDS Library, ReadsProofs

Place == {"off", "load", "work", "table", "open", "write", "replace"}
Saving == {"open", "write", "replace"}

StoreOK ==
  /\ pc \in [Proc -> Place] /\ mem \in [Proc -> Book] /\ todo \in [Proc -> SUBSET Shots]
  /\ fd \in [Proc -> {NONE, "tmp", "manifest"}]
  /\ manifest \in Book /\ device \subseteq Shots

\* One process at a time.
OneActive == \A p, q \in Proc : pc[p] # "off" /\ pc[q] # "off" => p = q

\* The process works on what is on file, has a record of every shot on file
\* while it saves, and renames what it has written; parse alone writes the table.
CopyOK(p) ==
  /\ fd[p] = IF pc[p] \in {"write", "replace"} THEN "tmp" ELSE NONE
  /\ pc[p] \in {"work", "table"} => mem[p] = manifest
  /\ pc[p] \in Saving => Records(manifest) \subseteq Records(mem[p])
  /\ pc[p] = "replace" => tmp = mem[p]
  /\ pc[p] = "table" => job[p] = "parse"

\* What phase 2 took off the device is on file.
ErasedKnown == erased \subseteq Records(manifest)

LInv == StoreOK /\ OneActive /\ (\A p \in Proc : CopyOK(p)) /\ ErasedKnown

\* What recording and judging make of a book.
LEMMA PutBook ==
  ASSUME NEW book \in Book, NEW shots, NEW entry \in Entry
  PROVE  /\ Put(book, shots, entry) \in Book
         /\ entry # "none" => Records(book) \subseteq Records(Put(book, shots, entry))
         /\ Records(Put(book, shots, entry)) \subseteq Records(book) \cup shots
BY DEF Book, Put, Records

LEMMA JudgedBook ==
  ASSUME NEW book \in Book, NEW good
  PROVE  Judged(book, good) \in Book /\ Records(Judged(book, good)) = Records(book)
<1>1. Judged(book, good) \in Book
  BY DEF Book, Judged, Verified, Entry
<1>2. \A s \in Shots : Judged(book, good)[s] # "none" <=> book[s] # "none"
  BY DEF Judged, Verified
<1>3. QED
  BY <1>1, <1>2 DEF Records

LEMMA LInvInit == Init => LInv
<1> SUFFICES ASSUME Init PROVE LInv
  OBVIOUS
<1>1. Blank \in Book
  BY DEF Blank, Book, Entry
<1>2. StoreOK /\ ErasedKnown
  BY <1>1 DEF Init, JobsInit, StoreOK, Place, ErasedKnown
<1>3. QED
  BY <1>2 DEF Init, JobsInit, LInv, OneActive, CopyOK, Saving

\* Who takes a step is alone, before and after.
LEMMA Alone1 ==
  ASSUME LInv, NEW p \in Proc, pc[p] # "off"
  PROVE  \A q \in Proc \ {p} : pc[q] = "off" /\ fd[q] = NONE
  BY DEF LInv, OneActive, CopyOK

\* It is enough to look at the process that takes the step.
LEMMA OwnStep ==
  ASSUME NEW p \in Proc, StoreOK', CopyOK(p)',
         \A q \in Proc \ {p} : pc'[q] = "off" /\ fd'[q] = NONE
  PROVE  OneActive' /\ (\A q \in Proc : CopyOK(q)')
  BY DEF OneActive, CopyOK, Saving

\* The end of a job, which leaves the process off or about to load.
LEMMA DoneStep ==
  ASSUME LInv, NEW p \in Proc, NEW well \in BOOLEAN, pc[p] # "off", Done(p, well),
         fd' = [fd EXCEPT ![p] = NONE], manifest' \in Book,
         UNCHANGED <<device, erased>>, Records(manifest) \subseteq Records(manifest')
  PROVE  LInv'
<1>1. \A q \in Proc \ {p} : pc[q] = "off" /\ fd[q] = NONE
  BY Alone1
<1>2. StoreOK' /\ pc'[p] \in {"off", "load"} /\ \A q \in Proc \ {p} : pc'[q] = pc[q]
  <2>1. Blank \in Book
    BY DEF Blank, Book, Entry
  <2>2. QED
    BY <2>1 DEF Done, Goto, LInv, StoreOK, Place
<1>3. CopyOK(p)'
  BY <1>2 DEF LInv, StoreOK, CopyOK, Saving
<1>4. \A q \in Proc \ {p} : pc'[q] = "off" /\ fd'[q] = NONE
  BY <1>1, <1>2 DEF LInv, StoreOK
<1>5. ErasedKnown'
  BY DEF LInv, ErasedKnown
<1>6. QED
  BY <1>2, <1>3, <1>4, <1>5, OwnStep DEF LInv

\* No step of a process loses a record, and the copies stay in order.
LEMMA StepKeeps ==
  ASSUME LInv, NEW p \in Proc, JobStep(p)
  PROVE  LInv' /\ Records(manifest) \subseteq Records(manifest')
<1>1. manifest # TORN /\ (\A q \in Proc : mem[q] \in Book) /\ todo \in [Proc -> SUBSET Shots]
  BY FilesApart DEF LInv, StoreOK
<1>2. pc[p] # "off"
  BY DEF JobStep, Load, Fails, Dies, SyncShot, SyncDone, DryRun, ParseStart, ParseTable, Profiles,
         Delete, DeleteNothing, Open, Write, Replace, At, Works
<1>3. \A q \in Proc \ {p} : pc[q] = "off" /\ fd[q] = NONE
  BY <1>2, Alone1
<1>4. pc[p] \notin {"write", "replace"} => fd = [fd EXCEPT ![p] = NONE]
  BY DEF LInv, StoreOK, CopyOK
<1>5. ASSUME NEW well \in BOOLEAN, Done(p, well), fd' = fd \/ fd' = [fd EXCEPT ![p] = NONE],
             fd' = fd => pc[p] \notin {"write", "replace"}, UNCHANGED <<manifest, device, erased>>
      PROVE  LInv' /\ Records(manifest) \subseteq Records(manifest')
  BY <1>2, <1>4, <1>5, DoneStep DEF LInv, StoreOK
<1>6. ASSUME NEW x \in Place \ {"off", "write", "replace"}, NEW m \in Book,
             pc' = [pc EXCEPT ![p] = x], mem' = [mem EXCEPT ![p] = m], todo' \in [Proc -> SUBSET Shots],
             pc[p] \notin {"write", "replace"}, UNCHANGED <<manifest, fd>>, device' \subseteq Shots,
             x \in {"work", "table"} => m = manifest, x = "table" => job'[p] = "parse",
             x = "open" => Records(manifest) \subseteq Records(m),
             erased' \subseteq erased \cup Records(manifest)
      PROVE  LInv' /\ Records(manifest) \subseteq Records(manifest')
  <2>1. StoreOK' /\ CopyOK(p)'
    BY <1>6 DEF LInv, StoreOK, CopyOK, Saving
  <2>2. \A q \in Proc \ {p} : pc'[q] = "off" /\ fd'[q] = NONE
    BY <1>3, <1>6 DEF LInv, StoreOK
  <2>3. ErasedKnown'
    BY <1>6 DEF LInv, ErasedKnown
  <2>4. QED
    BY <1>6, <2>1, <2>2, <2>3, OwnStep DEF LInv
<1>7. CASE Load(p)
  <2>1. PICK x \in {"open", "work"} : pc' = [pc EXCEPT ![p] = x]
    BY <1>7 DEF Load, Goto
  <2>2. x \in Place \ {"off", "write", "replace"} /\ manifest \in Book /\ device' \subseteq Shots
    BY <1>7 DEF Load, worldVars, LInv, StoreOK, Place
  <2>3. todo' \in [Proc -> SUBSET Shots]
    <3>1. Unverified \subseteq Shots /\ MayHeal \subseteq Shots
      BY DEF Unverified, MayHeal, LInv, StoreOK
    <3>2. QED
      BY <1>1, <1>7, <3>1 DEF Load
  <2>4. QED
    BY <1>6, <1>7, <2>1, <2>2, <2>3 DEF Load, At, fileVars, worldVars
<1>8. CASE Fails(p)
  <2>1. Done(p, FALSE) /\ fd' = [fd EXCEPT ![p] = NONE] /\ UNCHANGED <<manifest, device, erased>>
    BY <1>8 DEF Fails, Closes, fileVars
  <2>2. manifest' \in Book /\ Records(manifest) \subseteq Records(manifest')
    BY <2>1 DEF LInv, StoreOK
  <2>3. QED
    BY <1>2, <2>1, <2>2, DoneStep
<1>9. CASE Dies(p)
  <2>1. StoreOK' /\ CopyOK(p)'
    <3>1. Blank \in Book
      BY DEF Blank, Book, Entry
    <3>2. QED
      BY <1>9, <3>1 DEF Dies, Goto, Closes, fileVars, LInv, StoreOK, CopyOK, Saving, Place
  <2>2. \A q \in Proc \ {p} : pc'[q] = "off" /\ fd'[q] = NONE
    BY <1>3, <1>9 DEF Dies, Goto, Closes, LInv, StoreOK
  <2>3. ErasedKnown' /\ manifest' = manifest
    BY <1>9 DEF Dies, fileVars, LInv, ErasedKnown
  <2>4. QED
    BY <2>1, <2>2, <2>3, OwnStep DEF LInv
<1>10. CASE SyncShot(p)
  <2>1. PICK s \in todo[p], entry \in {"draft", "kept"} :
          /\ mem' = [mem EXCEPT ![p] = Put(mem[p], {s}, entry)]
          /\ todo' = [todo EXCEPT ![p] = todo[p] \ {s}]
    BY <1>10 DEF SyncShot, Knows
  <2>2. mem[p] = manifest /\ entry \in Entry /\ entry # "none"
    BY <1>10 DEF SyncShot, Works, At, LInv, CopyOK, Entry
  <2>3. Put(mem[p], {s}, entry) \in Book /\ Records(manifest) \subseteq Records(Put(mem[p], {s}, entry))
    BY <1>1, <2>2, PutBook
  <2>4. todo' \in [Proc -> SUBSET Shots]
    BY <1>1, <2>1
  <2>5. "open" \in Place \ {"off", "write", "replace"} /\ device' \subseteq Shots
    BY <1>10 DEF SyncShot, Place, worldVars, LInv, StoreOK
  <2>6. QED
    BY <1>6, <1>10, <2>1, <2>3, <2>4, <2>5 DEF SyncShot, Works, At, Goto, fileVars, worldVars
<1>11. CASE SyncDone(p) \/ DryRun(p) \/ DeleteNothing(p)
  BY <1>5, <1>11 DEF SyncDone, DryRun, DeleteNothing, Works, At, fileVars, worldVars
<1>12. CASE ParseStart(p)
  <2>1. CASE Done(p, TRUE)
    BY <1>5, <1>12, <2>1 DEF ParseStart, Works, At, worldVars
  <2>2. CASE Goto(p, "table") /\ UNCHANGED <<job, mem, todo, clean>>
    BY <1>6, <1>12, <2>2 DEF ParseStart, Works, At, Goto, worldVars, LInv, StoreOK, CopyOK, Place
  <2>3. QED
    BY <1>12, <2>1, <2>2 DEF ParseStart
<1>13. CASE ParseTable(p)
  <2>1. PICK good : LET book == Judged(mem[p], good)
                    IN  \/ Done(p, TRUE)
                        \/ Goto(p, "open") /\ mem' = [mem EXCEPT ![p] = book] /\ UNCHANGED todo
    BY <1>13 DEF ParseTable
  <2>2. CASE Done(p, TRUE)
    BY <1>5, <1>13, <2>2 DEF ParseTable, At, worldVars
  <2>3. CASE Goto(p, "open") /\ mem' = [mem EXCEPT ![p] = Judged(mem[p], good)] /\ UNCHANGED todo
    <3>1. mem[p] = manifest
      BY <1>13 DEF ParseTable, At, LInv, CopyOK
    <3>2. Judged(mem[p], good) \in Book /\ Records(Judged(mem[p], good)) = Records(manifest)
      BY <1>1, <3>1, JudgedBook
    <3>3. "open" \in Place \ {"off", "write", "replace"} /\ device' \subseteq Shots
      BY <1>13 DEF ParseTable, Place, worldVars, LInv, StoreOK
    <3>4. QED
      BY <1>1, <1>6, <1>13, <2>3, <3>2, <3>3 DEF ParseTable, At, Goto, worldVars
  <2>4. QED
    BY <2>1, <2>2, <2>3
<1>14. CASE Profiles(p)
  <2>1. CASE Done(p, TRUE)
    BY <1>5, <1>14, <2>1 DEF Profiles, Works, At, fileVars, worldVars
  <2>2. CASE Goto(p, "open") /\ UNCHANGED <<job, mem, todo, clean>>
    BY <1>6, <1>14, <2>2 DEF Profiles, Works, At, Goto, fileVars, worldVars, LInv, StoreOK, CopyOK, Place
  <2>3. QED
    BY <1>14, <2>1, <2>2 DEF Profiles
<1>15. CASE Delete(p)
  <2>1. mem[p] = manifest /\ pc[p] = "work"
    BY <1>15 DEF Delete, Works, At, LInv, CopyOK
  <2>2. PICK some \in SUBSET Due(p) :
          /\ device' = device \ some /\ erased' = erased \cup some
          /\ mem' = [mem EXCEPT ![p] = Put(mem[p], some, "gone")]
    BY <1>15 DEF Delete, Knows
  <2>3. some \subseteq Records(manifest)
    BY <2>1, <2>2 DEF Due, Records, LInv, StoreOK
  <2>4. Put(mem[p], some, "gone") \in Book /\ Records(manifest) \subseteq Records(Put(mem[p], some, "gone"))
    BY <1>1, <2>1, PutBook DEF Entry
  <2>5. "open" \in Place \ {"off", "write", "replace"} /\ pc' = [pc EXCEPT ![p] = "open"]
    BY <1>15 DEF Delete, Goto, Place
  <2>6. UNCHANGED <<manifest, fd, todo>> /\ device' \subseteq Shots
    BY <1>15, <2>2 DEF Delete, fileVars, LInv, StoreOK
  <2>7. erased' \subseteq erased \cup Records(manifest)
    BY <2>2, <2>3
  <2>8. QED
    BY <1>1, <1>6, <2>1, <2>2, <2>4, <2>5, <2>6, <2>7
<1>16. CASE Open(p)
  <2>1. StoreOK' /\ CopyOK(p)'
    BY <1>16 DEF Open, At, Goto, worldVars, LInv, StoreOK, CopyOK, Saving, Place
  <2>2. \A q \in Proc \ {p} : pc'[q] = "off" /\ fd'[q] = NONE
    BY <1>3, <1>16 DEF Open, Goto, LInv, StoreOK
  <2>3. ErasedKnown' /\ manifest' = manifest
    BY <1>16 DEF Open, worldVars, LInv, ErasedKnown
  <2>4. QED
    BY <2>1, <2>2, <2>3, OwnStep DEF LInv
<1>17. CASE Write(p)
  <2>1. fd[p] = "tmp" /\ tmp' = mem[p] /\ manifest' = manifest
    <3>1. fd[p] = "tmp" /\ NONE # "tmp"
      BY <1>17, FilesApart DEF Write, At, LInv, CopyOK
    <3>2. Alone(p)
      BY <1>3, <3>1 DEF Alone
    <3>3. QED
      BY <1>17, <3>1, <3>2 DEF Write, Written
  <2>2. StoreOK' /\ CopyOK(p)'
    BY <1>17, <2>1 DEF Write, At, Goto, worldVars, LInv, StoreOK, CopyOK, Saving, Place
  <2>3. \A q \in Proc \ {p} : pc'[q] = "off" /\ fd'[q] = NONE
    BY <1>3, <1>17 DEF Write, Goto, LInv, StoreOK
  <2>4. ErasedKnown'
    BY <1>17, <2>1 DEF Write, worldVars, LInv, ErasedKnown
  <2>5. QED
    BY <2>1, <2>2, <2>3, <2>4, OwnStep DEF LInv
<1>18. CASE Replace(p)
  <2>1. pc[p] = "replace" /\ manifest' = mem[p] /\ mem[p] \in Book
        /\ Records(manifest) \subseteq Records(mem[p])
    BY <1>1, <1>18 DEF Replace, At, LInv, StoreOK, CopyOK, Saving
  <2>2. fd' = [fd EXCEPT ![p] = NONE]
    <3>1. \A q \in Proc \ {p} : fd[q] # "tmp"
      BY <1>3, FilesApart
    <3>2. QED
      BY <1>18, <3>1 DEF Replace, LInv, StoreOK
  <2>3. CASE Done(p, TRUE)
    BY <1>2, <1>18, <2>1, <2>2, <2>3, DoneStep DEF Replace, worldVars
  <2>4. CASE Goto(p, "work") /\ UNCHANGED <<job, mem, todo, clean>>
    <3>1. StoreOK' /\ CopyOK(p)'
      BY <1>18, <2>1, <2>2, <2>4 DEF Replace, Goto, worldVars, LInv, StoreOK, CopyOK, Saving, Place
    <3>2. \A q \in Proc \ {p} : pc'[q] = "off" /\ fd'[q] = NONE
      BY <1>3, <2>2, <2>4 DEF Goto, LInv, StoreOK
    <3>3. ErasedKnown'
      BY <1>18, <2>1 DEF Replace, worldVars, LInv, ErasedKnown
    <3>4. QED
      BY <2>1, <3>1, <3>2, <3>3, OwnStep DEF LInv
  <2>5. QED
    BY <1>18, <2>3, <2>4 DEF Replace
<1>19. QED
  BY <1>7, <1>8, <1>9, <1>10, <1>11, <1>12, <1>13, <1>14, <1>15, <1>16, <1>17, <1>18 DEF JobStep

LEMMA StartKeeps ==
  ASSUME Exclusive, LInv, NEW p \in Proc, NEW j, Starts(p, j)
  PROVE  LInv' /\ manifest' = manifest
<1>1. \A q \in Proc : pc[q] = "off" /\ fd[q] = NONE
  BY DEF Starts, At, LInv, CopyOK
<1>2. StoreOK' /\ CopyOK(p)' /\ manifest' = manifest
  BY <1>1 DEF Starts, Goto, fileVars, LInv, StoreOK, CopyOK, Saving, Place
<1>3. \A q \in Proc \ {p} : pc'[q] = "off" /\ fd'[q] = NONE
  BY <1>1 DEF Starts, Goto, LInv, StoreOK
<1>4. ErasedKnown'
  BY DEF Starts, fileVars, LInv, ErasedKnown
<1>5. QED
  BY <1>2, <1>3, <1>4, OwnStep DEF LInv

LEMMA LInvStep ==
  ASSUME Exclusive PROVE LInv /\ [Next]_vars => LInv' /\ Records(manifest) \subseteq Records(manifest')
<1> SUFFICES ASSUME LInv, [Next]_vars PROVE LInv' /\ Records(manifest) \subseteq Records(manifest')
  OBVIOUS
<1>1. CASE StartCycle
  BY <1>1, StartKeeps DEF StartCycle, Proc
<1>2. ASSUME NEW p \in Cli, StartCommand(p) PROVE LInv' /\ Records(manifest) \subseteq Records(manifest')
  BY <1>2, StartKeeps DEF StartCommand, Proc
<1>3. ASSUME NEW p \in Proc, JobStep(p) PROVE LInv' /\ Records(manifest) \subseteq Records(manifest')
  BY <1>3, StepKeeps
<1>4. ASSUME NEW s \in Shots, PullShot(s) PROVE LInv' /\ Records(manifest) \subseteq Records(manifest')
  BY <1>4 DEF PullShot, fileVars, procVars, LInv, StoreOK, OneActive, CopyOK, ErasedKnown
<1>5. CASE UNCHANGED jobVars
  BY <1>5 DEF jobVars, fileVars, procVars, worldVars, LInv, StoreOK, OneActive, CopyOK, ErasedKnown
<1>6. QED
  <2>1. (LogStep /\ UNCHANGED <<jobVars, callVars>>) \/ CallStep \/ UNCHANGED vars => UNCHANGED jobVars
    BY DEF CallStep, Resolve, Headline, Record, CallFails, vars
  <2>2. QED
    BY <1>1, <1>2, <1>3, <1>4, <1>5, <2>1 DEF Next, JobsNext

-----------------------------------------------------------------------------
\* What one save changes of what was on file.
Updates(old, new) ==
  \/ new = old
  \/ \E s \in Shots, entry \in {"draft", "kept"} :
       old[s] \in {"none", "draft", "bad"} /\ new = Put(old, {s}, entry)
  \/ \E good \in SUBSET Verified(old) : new = Judged(old, good)
  \/ \E some \in SUBSET Shots : (\A s \in some : old[s] = "good") /\ new = Put(old, some, "gone")

\* The process saves an update, and its sync has only shots to fetch that the
\* file does not know as good or gone.
NewsOK(p) == pc[p] \in Saving => Updates(manifest, mem[p])
PlanOK(p) ==
  job[p] = "sync" /\ pc[p] \notin {"off", "load"} =>
    \A s \in todo[p] : mem[p][s] \in {"none", "draft", "bad"}

BInv == LInv /\ \A p \in Proc : NewsOK(p) /\ PlanOK(p)

\* A step of a job leaves the file as it is, or puts one save's news on it.
LEMMA NewsStep ==
  ASSUME BInv, NEW p \in Proc, JobStep(p)
  PROVE  BInv' /\ Updates(manifest, manifest')
<1> USE DEF At, Goto, Works, fileVars, worldVars
<1> DEFINE Ok == BInv' /\ Updates(manifest, manifest')
<1>k. LInv'
  BY StepKeeps DEF BInv
<1>n. pc[p] # "off" /\ LInv /\ NewsOK(p) /\ PlanOK(p)
  BY DEF BInv, JobStep, Load, Fails, Dies, SyncShot, SyncDone, DryRun, ParseStart, ParseTable,
         Profiles, Delete, DeleteNothing, Open, Write, Replace
<1>c. /\ pc[p] \in {"work", "table"} => mem[p] = manifest
      /\ mem[p] \in Book /\ manifest \in Book /\ todo \in [Proc -> SUBSET Shots]
  BY <1>n DEF LInv, StoreOK, CopyOK
<1>u. Updates(manifest, manifest) /\ mem = [mem EXCEPT ![p] = mem[p]]
  BY <1>n DEF Updates, LInv, StoreOK
\* Nobody else is at work.
<1>a. ASSUME NEW x, pc' = [pc EXCEPT ![p] = x], Updates(manifest, manifest'),
             x \in Saving => Updates(manifest', mem'[p]), x \notin {"off", "load"} => PlanOK(p)'
      PROVE  Ok
  <2>1. \A q \in Proc \ {p} : pc'[q] = "off"
    BY <1>a, <1>n, Alone1 DEF LInv, StoreOK
  <2>2. pc'[p] = x
    BY <1>a, <1>n DEF LInv, StoreOK
  <2>3. \A q \in Proc : NewsOK(q)' /\ PlanOK(q)'
    BY <1>a, <2>1, <2>2 DEF NewsOK, PlanOK, Saving
  <2>4. QED
    BY <1>a, <1>k, <2>3 DEF BInv
<1>d. ASSUME NEW well \in BOOLEAN, Done(p, well), Updates(manifest, manifest') PROVE Ok
  <2>1. PICK x \in {"off", "load"} : pc' = [pc EXCEPT ![p] = x]
    BY <1>d DEF Done
  <2>2. QED
    BY <1>a, <1>d, <2>1 DEF Saving
<1>m. ASSUME NEW x, NEW m, pc' = [pc EXCEPT ![p] = x], mem' = [mem EXCEPT ![p] = m],
             manifest' = manifest, x \in Saving => Updates(manifest, m),
             job' = job, job[p] = "sync" => \A s \in todo'[p] : m[s] \in {"none", "draft", "bad"}
      PROVE  Ok
  <2>1. mem'[p] = m /\ pc'[p] = x
    BY <1>m, <1>n DEF LInv, StoreOK
  <2>2. PlanOK(p)'
    BY <1>m, <2>1 DEF PlanOK
  <2>3. QED
    BY <1>a, <1>m, <1>u, <2>1, <2>2
\* A sync goes on with the plan it has.
<1>s. pc[p] \notin {"off", "load"} /\ job[p] = "sync" =>
        \A s \in todo[p] : mem[p][s] \in {"none", "draft", "bad"}
  BY <1>n DEF PlanOK
<1>1. CASE Load(p)
  <2>1. ASSUME job[p] = "sync", NEW s \in todo'[p] PROVE manifest[s] \in {"none", "draft", "bad"}
    BY <1>1, <1>c, <2>1 DEF Load, Unverified, MayHeal
  <2>2. QED
    BY <1>1, <1>m, <1>u, <2>1 DEF Load
<1>2. CASE Fails(p)
  BY <1>2, <1>d, <1>u DEF Fails
<1>3. CASE Dies(p)
  BY <1>3, <1>a, <1>u DEF Dies, Saving
<1>4. CASE SyncShot(p)
  <2>1. PICK s \in todo[p], entry \in {"draft", "kept"} :
          /\ mem' = [mem EXCEPT ![p] = Put(mem[p], {s}, entry)]
          /\ todo' = [todo EXCEPT ![p] = todo[p] \ {s}]
    BY <1>4 DEF SyncShot, Knows
  <2>2. mem[p] = manifest /\ s \in Shots /\ job[p] = "sync" /\ pc[p] = "work"
    BY <1>4, <1>c DEF SyncShot
  <2>3. Updates(manifest, Put(mem[p], {s}, entry))
    BY <1>s, <2>2 DEF Updates
  <2>4. \A r \in todo'[p] : Put(mem[p], {s}, entry)[r] \in {"none", "draft", "bad"}
    BY <1>c, <1>s, <2>1, <2>2 DEF Put
  <2>5. QED
    BY <1>4, <1>m, <2>1, <2>3, <2>4 DEF SyncShot
<1>5. CASE SyncDone(p) \/ DryRun(p) \/ DeleteNothing(p)
  BY <1>5, <1>d, <1>u DEF SyncDone, DryRun, DeleteNothing
<1>6. CASE ParseStart(p)
  <2>1. CASE Done(p, TRUE)
    BY <1>6, <1>d, <1>u, <2>1 DEF ParseStart
  <2>2. CASE Goto(p, "table") /\ UNCHANGED <<job, mem, todo>>
    BY <1>6, <1>m, <1>u, <2>2 DEF ParseStart, Saving
  <2>3. QED
    BY <1>6, <2>1, <2>2 DEF ParseStart
<1>7. CASE ParseTable(p)
  <2>1. manifest' = manifest /\ mem[p] = manifest /\ pc[p] = "table"
    BY <1>7, <1>c DEF ParseTable
  <2>2. PICK good \in SUBSET Verified(mem[p]) :
          LET book == Judged(mem[p], good)
          IN  \/ Done(p, TRUE)
              \/ Goto(p, "open") /\ mem' = [mem EXCEPT ![p] = book] /\ UNCHANGED <<job, todo>>
    BY <1>7 DEF ParseTable
  <2>3. CASE Done(p, TRUE)
    BY <1>d, <1>u, <2>1, <2>3
  <2>4. CASE Goto(p, "open") /\ mem' = [mem EXCEPT ![p] = Judged(mem[p], good)] /\ UNCHANGED <<job, todo>>
    <3>1. Updates(manifest, Judged(mem[p], good))
      BY <2>1, <2>2 DEF Updates
    <3>2. job[p] # "sync"
      BY <1>n, <2>1 DEF LInv, CopyOK
    <3>3. QED
      BY <1>m, <2>1, <2>4, <3>1, <3>2
  <2>5. QED
    BY <2>2, <2>3, <2>4
<1>8. CASE Profiles(p)
  <2>1. CASE Done(p, TRUE)
    BY <1>8, <1>d, <1>u, <2>1 DEF Profiles
  <2>2. CASE Goto(p, "open") /\ UNCHANGED <<job, mem, todo>>
    BY <1>8, <1>c, <1>m, <1>u, <2>2 DEF Profiles
  <2>3. QED
    BY <1>8, <2>1, <2>2 DEF Profiles
<1>9. CASE Delete(p)
  <2>1. PICK some \in SUBSET Due(p) : mem' = [mem EXCEPT ![p] = Put(mem[p], some, "gone")]
    BY <1>9 DEF Delete, Knows
  <2>2. mem[p] = manifest /\ some \subseteq Shots /\ \A s \in some : manifest[s] = "good"
    BY <1>9, <1>c, <1>n DEF Delete, Due, LInv, StoreOK
  <2>3. Updates(manifest, Put(mem[p], some, "gone"))
    BY <2>2 DEF Updates
  <2>4. QED
    BY <1>9, <1>m, <2>1, <2>3 DEF Delete
<1>10. CASE Open(p)
  BY <1>10, <1>m, <1>n, <1>s, <1>u DEF Open, NewsOK, Saving
<1>11. CASE Write(p)
  <2>1. manifest' = manifest
    BY <1>11, <1>n, FilesApart DEF Write, LInv, CopyOK
  <2>2. QED
    BY <1>11, <1>m, <1>n, <1>s, <1>u, <2>1 DEF Write, NewsOK, Saving
<1>12. CASE Replace(p)
  <2>1. manifest' = mem[p] /\ Updates(manifest, manifest')
    BY <1>12, <1>n DEF Replace, LInv, CopyOK, NewsOK, Saving
  <2>2. CASE Done(p, TRUE)
    BY <1>d, <2>1, <2>2
  <2>3. CASE Goto(p, "work") /\ UNCHANGED <<job, mem, todo>>
    <3>1. PlanOK(p)'
      BY <1>12, <1>s, <2>3 DEF Replace, PlanOK
    <3>2. QED
      BY <1>a, <2>1, <2>3, <3>1 DEF Saving
  <2>4. QED
    BY <1>12, <2>2, <2>3 DEF Replace
<1>13. QED
  BY <1>1, <1>2, <1>3, <1>4, <1>5, <1>6, <1>7, <1>8, <1>9, <1>10, <1>11, <1>12 DEF JobStep

LEMMA BInvStep ==
  ASSUME Exclusive PROVE BInv /\ [Next]_vars => BInv' /\ Updates(manifest, manifest')
<1> SUFFICES ASSUME BInv, [Next]_vars PROVE BInv' /\ Updates(manifest, manifest')
  OBVIOUS
<1>1. LInv'
  BY LInvStep DEF BInv
<1>2. ASSUME NEW p \in Proc, NEW j, Starts(p, j) PROVE BInv' /\ Updates(manifest, manifest')
  <2>1. \A q \in Proc : pc[q] = "off"
    BY <1>2 DEF Starts, At
  <2>2. pc' = [pc EXCEPT ![p] = "load"] /\ manifest' = manifest
    BY <1>2 DEF Starts, Goto, fileVars
  <2>3. \A q \in Proc : pc'[q] \in {"off", "load"}
    BY <2>1, <2>2 DEF BInv, LInv, StoreOK
  <2>4. \A q \in Proc : NewsOK(q)' /\ PlanOK(q)'
    BY <2>3 DEF NewsOK, PlanOK, Saving
  <2>5. Updates(manifest, manifest')
    BY <2>2 DEF Updates
  <2>6. QED
    BY <1>1, <2>4, <2>5 DEF BInv
<1>3. CASE UNCHANGED <<manifest, pc, job, mem, todo>>
  <2>1. \A q \in Proc : NewsOK(q)' /\ PlanOK(q)'
    BY <1>3 DEF BInv, NewsOK, PlanOK
  <2>2. Updates(manifest, manifest')
    BY <1>3 DEF Updates
  <2>3. QED
    BY <1>1, <2>1, <2>2 DEF BInv
<1>4. ASSUME NEW s \in Shots, PullShot(s) PROVE UNCHANGED <<manifest, pc, job, mem, todo>>
  BY <1>4 DEF PullShot, fileVars, procVars
<1>5. (LogStep /\ UNCHANGED <<jobVars, callVars>>) \/ CallStep \/ UNCHANGED vars
        => UNCHANGED <<manifest, pc, job, mem, todo>>
  BY DEF CallStep, Resolve, Headline, Record, CallFails, vars, jobVars, fileVars, procVars
<1>6. StartCycle \/ (\E p \in Cli : StartCommand(p)) => \E p \in Proc : \E j : Starts(p, j)
  BY DEF StartCycle, StartCommand, Proc
<1>7. QED
  BY <1>2, <1>3, <1>4, <1>5, <1>6, NewsStep DEF Next, JobsNext

LEMMA OnFileIs == LInv => OnFile = manifest /\ manifest \in Book
  BY FilesApart DEF LInv, StoreOK, OnFile

\* An update is a step of Bookkeeping.
LEMMA UpdatesRecord ==
  ASSUME LInv, LInv', Updates(manifest, manifest') PROVE [B!Recorded]_OnFile
<1>1. OnFile = manifest /\ OnFile' = manifest' /\ manifest \in [Shots -> Entry] /\ manifest' \in [Shots -> Entry]
  BY OnFileIs, FilesApart DEF Book, OnFile, LInv, StoreOK
<1>2. ASSUME NEW s \in Shots, NEW entry \in {"draft", "kept"},
             manifest[s] \in {"none", "draft", "bad"}, manifest' = Put(manifest, {s}, entry)
      PROVE  B!Recorded
  <2>1. manifest' = [manifest EXCEPT ![s] = entry]
    BY <1>1, <1>2 DEF Put
  <2>2. B!Keep(s)
    BY <1>1, <1>2, <2>1 DEF B!Keep
  <2>3. QED
    BY <2>2 DEF B!Recorded
<1>3. ASSUME NEW good \in SUBSET Verified(manifest), manifest' = Judged(manifest, good)
      PROVE  B!Recorded
  <2>1. manifest' = [s \in Shots |-> IF s \in good THEN "good"
                                    ELSE IF s \in Verified(manifest) THEN "bad" ELSE manifest[s]]
    BY <1>3 DEF Judged
  <2>2. Verified(manifest) = {shot \in Shots : OnFile[shot] \in {"kept", "good", "bad"}}
    BY <1>1 DEF Verified
  <2>3. B!Judge
    BY <1>1, <1>3, <2>1, <2>2 DEF B!Judge
  <2>4. QED
    BY <2>3 DEF B!Recorded
<1>4. ASSUME NEW some \in SUBSET Shots, \A s \in some : manifest[s] = "good",
             manifest' = Put(manifest, some, "gone")
      PROVE  B!Recorded
  <2>1. B!LetGo(some)
    BY <1>1, <1>4 DEF B!LetGo, Put
  <2>2. QED
    BY <2>1 DEF B!Recorded
<1>5. QED
  BY <1>1, <1>2, <1>3, <1>4 DEF Updates

\* The saves implement Bookkeeping: whoever reads manifest.json finds each shot
\* as it was last recorded, a capture never replaces a good one or one let go,
\* and only what was good is let go (sync.py 117-125, 358-375, manifest.py 84-96).
THEOREM LedgerKept == ASSUME Exclusive PROVE Spec => KeepsLedger
<1>1. Init => BInv /\ B!Empty
  <2> SUFFICES ASSUME Init PROVE BInv /\ B!Empty
    OBVIOUS
  <2>1. LInv /\ manifest = Blank /\ \A p \in Proc : pc[p] = "off"
    BY LInvInit DEF Init, JobsInit
  <2>2. OnFile = Blank
    BY <2>1, OnFileIs
  <2>3. QED
    BY <2>1, <2>2 DEF BInv, NewsOK, PlanOK, Saving, B!Empty, Blank
<1>2. BInv /\ [Next]_vars => BInv' /\ [B!Recorded]_OnFile
  BY BInvStep, UpdatesRecord DEF BInv
<1>3. QED
  BY <1>1, <1>2, PTL DEF Spec, KeepsLedger, B!Books

\* manifest.json is never half written.
THEOREM ManifestReadable == ASSUME Exclusive PROVE Spec => []ManifestLoads
<1>1. LInv => ManifestLoads
  BY FilesApart DEF LInv, StoreOK, ManifestLoads
<1>2. LInv /\ [Next]_vars => LInv'
  BY LInvStep
<1>3. QED
  BY <1>1, <1>2, LInvInit, PTL DEF Spec

\* No shot is deleted from the device of which the manifest has no record.
THEOREM DeletedRecorded == ASSUME Exclusive PROVE Spec => []DeletedKnown
<1>1. LInv => DeletedKnown
  BY OnFileIs DEF LInv, ErasedKnown, DeletedKnown
<1>2. LInv /\ [Next]_vars => LInv'
  BY LInvStep
<1>3. QED
  BY <1>1, <1>2, LInvInit, PTL DEF Spec

-----------------------------------------------------------------------------
\* Types, of the files and of the processes, whoever runs beside whom.
FilesTyped ==
  /\ manifest = TORN \/ manifest \in Book
  /\ tmp \in {TORN, NONE} \/ tmp \in Book
  /\ table = TORN \/ table \subseteq Shots
  /\ device \subseteq pulled /\ pulled \subseteq Shots /\ erased \subseteq Shots
  /\ runs \in 0..MaxRuns /\ mishaps \in 0..MaxMishaps

Job == {"sync", "parse", "profiles", "delete"}

FdTyped ==
  /\ fd \in [Proc -> {NONE, "tmp", "manifest"}]
  /\ \A p \in Proc : fd[p] # NONE <=> pc[p] \in {"write", "replace"}

ProcsTypedOK ==
  /\ pc \in [Proc -> Place] /\ job \in [Proc -> Job]
  /\ mem \in [Proc -> Book] /\ todo \in [Proc -> SUBSET Shots]
  /\ clean \in BOOLEAN /\ FdTyped

LEMMA JobsTyped == JobsTypeOK <=> FilesTyped /\ ProcsTypedOK
  BY DEF JobsTypeOK, FilesTyped, ProcsTypedOK, FdTyped, Place, Job

\* A step of a process moves that process only.
LEMMA MovesOne ==
  ASSUME ProcsTypedOK, NEW p \in Proc, NEW x \in Place, NEW m \in Book, NEW j \in Job,
         pc' = [pc EXCEPT ![p] = x], mem' = [mem EXCEPT ![p] = m], job' = [job EXCEPT ![p] = j],
         todo' \in [Proc -> SUBSET Shots], clean' \in BOOLEAN,
         fd' \in [Proc -> {NONE, "tmp", "manifest"}], fd'[p] # NONE <=> x \in {"write", "replace"},
         \A q \in Proc \ {p} : fd'[q] # NONE <=> fd[q] # NONE
  PROVE  ProcsTypedOK'
<1>1. pc' \in [Proc -> Place] /\ mem' \in [Proc -> Book] /\ job' \in [Proc -> Job]
  BY DEF ProcsTypedOK
<1>2. pc'[p] = x /\ \A q \in Proc \ {p} : pc'[q] = pc[q]
  BY DEF ProcsTypedOK
<1>3. FdTyped'
  BY <1>2 DEF ProcsTypedOK, FdTyped
<1>4. QED
  BY <1>1, <1>3 DEF ProcsTypedOK

LEMMA DoneTyped ==
  ASSUME ProcsTypedOK, NEW p \in Proc, NEW well \in BOOLEAN, Done(p, well),
         fd' \in [Proc -> {NONE, "tmp", "manifest"}], fd'[p] = NONE,
         \A q \in Proc \ {p} : fd'[q] # NONE <=> fd[q] # NONE
  PROVE  ProcsTypedOK'
<1>1. PICK x \in {"off", "load"}, j \in Job :
        pc' = [pc EXCEPT ![p] = x] /\ job' = [job EXCEPT ![p] = j]
  <2>1. CASE Follows(p, well) = "off"
    <3>1. job' = [job EXCEPT ![p] = job[p]] /\ job[p] \in Job
      BY <2>1 DEF Done, ProcsTypedOK
    <3>2. QED
      BY <2>1, <3>1 DEF Done, Goto
  <2>2. CASE Follows(p, well) # "off"
    <3>1. Follows(p, well) \in Job
      BY <2>2 DEF Follows, Job
    <3>2. QED
      BY <2>2, <3>1 DEF Done, Goto
  <2>3. QED
    BY <2>1, <2>2
<1>2. clean' \in BOOLEAN
  BY DEF Done, ProcsTypedOK
<1>3. mem' = [mem EXCEPT ![p] = Blank] /\ Blank \in Book /\ todo' \in [Proc -> SUBSET Shots]
  BY DEF Done, Blank, Book, Entry, ProcsTypedOK
<1>4. x \in Place /\ x \notin {"write", "replace"}
  BY DEF Place
<1>5. QED
  BY <1>1, <1>2, <1>3, <1>4, MovesOne

LEMMA StepTyped ==
  ASSUME FilesTyped, ProcsTypedOK, NEW p \in Proc, JobStep(p) PROVE FilesTyped' /\ ProcsTypedOK'
<1> USE DEF At, Goto, Works, fileVars, worldVars
<1>p. /\ mem[p] \in Book /\ todo \in [Proc -> SUBSET Shots] /\ job[p] \in Job /\ pc[p] \in Place /\ clean \in BOOLEAN
      /\ fd \in [Proc -> {NONE, "tmp", "manifest"}]
      /\ fd[p] # NONE <=> pc[p] \in {"write", "replace"}
      /\ mem = [mem EXCEPT ![p] = mem[p]] /\ job = [job EXCEPT ![p] = job[p]]
  BY DEF ProcsTypedOK, FdTyped
<1>d. ASSUME NEW well \in BOOLEAN, Done(p, well), UNCHANGED fd, pc[p] \notin {"write", "replace"}
      PROVE  ProcsTypedOK'
  BY <1>p, <1>d, DoneTyped
<1>m. ASSUME NEW x \in Place \ {"write", "replace"}, NEW m \in Book,
             pc' = [pc EXCEPT ![p] = x], mem' = [mem EXCEPT ![p] = m], UNCHANGED <<job, fd, clean>>,
             todo' \in [Proc -> SUBSET Shots],
             pc[p] \notin {"write", "replace"}
      PROVE  ProcsTypedOK'
  BY <1>p, <1>m, MovesOne
<1>1. CASE Load(p)
  <2>1. manifest \in Book /\ todo' \in [Proc -> SUBSET Shots]
    <3>1. Unverified \subseteq Shots /\ MayHeal \subseteq Shots
      BY DEF Unverified, MayHeal, FilesTyped
    <3>2. QED
      BY <1>1, <1>p, <3>1 DEF Load, FilesTyped
  <2>2. PICK x \in {"open", "work"} : pc' = [pc EXCEPT ![p] = x]
    BY <1>1 DEF Load
  <2>3. x \in Place \ {"write", "replace"}
    BY DEF Place
  <2>4. ProcsTypedOK'
    BY <1>1, <1>m, <2>1, <2>2, <2>3 DEF Load
  <2>5. QED
    BY <1>1, <2>4 DEF Load, FilesTyped
<1>2. CASE Fails(p)
  <2>1. Done(p, FALSE) /\ fd' = [fd EXCEPT ![p] = NONE]
    BY <1>2 DEF Fails, Closes
  <2>2. ProcsTypedOK'
    BY <1>p, <2>1, DoneTyped
  <2>3. QED
    BY <1>2, <2>2, ProcsTyped DEF Fails, Mishap, FilesTyped
<1>3. CASE Dies(p)
  <2>1. pc' = [pc EXCEPT ![p] = "off"] /\ mem' = [mem EXCEPT ![p] = Blank]
        /\ todo' \in [Proc -> SUBSET Shots] /\ fd' = [fd EXCEPT ![p] = NONE] /\ UNCHANGED <<job, clean>>
    BY <1>3, <1>p DEF Dies, Closes
  <2>2. "off" \in Place /\ Blank \in Book
    BY DEF Place, Blank, Book, Entry
  <2>3. ProcsTypedOK'
    BY <1>p, <2>1, <2>2, MovesOne
  <2>4. QED
    BY <1>3, <2>3, ProcsTyped DEF Dies, Mishap, FilesTyped
<1>4. CASE SyncShot(p)
  <2>1. PICK s \in todo[p], entry \in {"draft", "kept"} :
          /\ mem' = [mem EXCEPT ![p] = Put(mem[p], {s}, entry)]
          /\ todo' = [todo EXCEPT ![p] = todo[p] \ {s}]
    BY <1>4 DEF SyncShot, Knows
  <2>2. Put(mem[p], {s}, entry) \in Book /\ todo' \in [Proc -> SUBSET Shots]
    BY <1>p, <2>1, PutBook DEF Entry
  <2>3. "open" \in Place \ {"write", "replace"}
    BY DEF Place
  <2>4. ProcsTypedOK'
    BY <1>4, <1>m, <2>1, <2>2, <2>3 DEF SyncShot
  <2>5. QED
    BY <1>4, <2>4 DEF SyncShot, FilesTyped
<1>5. CASE SyncDone(p) \/ DryRun(p) \/ DeleteNothing(p)
  BY <1>5, <1>d DEF SyncDone, DryRun, DeleteNothing, FilesTyped
<1>6. CASE ParseStart(p)
  <2>1. CASE Done(p, TRUE) /\ UNCHANGED table
    BY <1>6, <1>d, <2>1 DEF ParseStart, FilesTyped
  <2>2. CASE Goto(p, "table") /\ table' = TORN /\ UNCHANGED <<job, mem, todo, clean>>
    <3>1. "table" \in Place \ {"write", "replace"}
      BY DEF Place
    <3>2. ProcsTypedOK'
      BY <1>6, <1>p, <1>m, <2>2, <3>1 DEF ParseStart
    <3>3. QED
      BY <1>6, <2>2, <3>2 DEF ParseStart, FilesTyped
  <2>3. QED
    BY <1>6, <2>1, <2>2 DEF ParseStart
<1>7. CASE ParseTable(p)
  <2>1. table' \subseteq Shots /\ UNCHANGED <<manifest, tmp, worldVars>>
    BY <1>7 DEF ParseTable, Rows, Records
  <2>2. PICK good : LET book == Judged(mem[p], good)
                    IN  \/ Done(p, TRUE)
                        \/ /\ Goto(p, "open") /\ mem' = [mem EXCEPT ![p] = book]
                           /\ UNCHANGED <<job, todo, clean>>
    BY <1>7 DEF ParseTable
  <2>3. CASE Done(p, TRUE)
    BY <1>7, <1>d, <2>1, <2>3 DEF ParseTable, FilesTyped
  <2>4. CASE Goto(p, "open") /\ mem' = [mem EXCEPT ![p] = Judged(mem[p], good)]
             /\ UNCHANGED <<job, todo, clean>>
    <3>1. "open" \in Place \ {"write", "replace"} /\ Judged(mem[p], good) \in Book
      BY <1>p, JudgedBook DEF Place
    <3>2. ProcsTypedOK'
      BY <1>7, <1>m, <1>p, <2>4, <3>1 DEF ParseTable
    <3>3. QED
      BY <2>1, <3>2 DEF FilesTyped
  <2>5. QED
    BY <2>2, <2>3, <2>4
<1>8. CASE Profiles(p)
  <2>1. FilesTyped'
    BY <1>8 DEF Profiles, FilesTyped
  <2>2. CASE Done(p, TRUE)
    BY <1>8, <1>d, <2>1, <2>2 DEF Profiles
  <2>3. CASE Goto(p, "open") /\ UNCHANGED <<job, mem, todo, clean>>
    <3>1. "open" \in Place \ {"write", "replace"}
      BY DEF Place
    <3>2. QED
      BY <1>8, <1>p, <1>m, <2>1, <2>3, <3>1 DEF Profiles
  <2>4. QED
    BY <1>8, <2>2, <2>3 DEF Profiles
<1>9. CASE Delete(p)
  <2>1. PICK some \in SUBSET Due(p) :
          /\ device' = device \ some /\ erased' = erased \cup some
          /\ mem' = [mem EXCEPT ![p] = Put(mem[p], some, "gone")]
    BY <1>9 DEF Delete, Knows
  <2>2. some \subseteq Shots
    BY <2>1 DEF Due, FilesTyped
  <2>3. Put(mem[p], some, "gone") \in Book /\ "open" \in Place \ {"write", "replace"}
    BY <1>p, PutBook DEF Place, Entry
  <2>4. ProcsTypedOK'
    BY <1>9, <1>m, <1>p, <2>1, <2>3 DEF Delete
  <2>5. QED
    BY <1>9, <2>1, <2>2, <2>4 DEF Delete, FilesTyped
<1>10. CASE Open(p)
  <2>1. "write" \in Place /\ pc' = [pc EXCEPT ![p] = "write"] /\ fd' = [fd EXCEPT ![p] = "tmp"]
        /\ UNCHANGED <<job, mem, todo, clean>>
    BY <1>10 DEF Open, Place
  <2>2. fd'[p] # NONE
    BY <1>p, <2>1, FilesApart
  <2>3. ProcsTypedOK'
    BY <1>p, <2>1, <2>2, MovesOne
  <2>4. QED
    BY <1>10, <2>3 DEF Open, FilesTyped
<1>11. CASE Write(p)
  <2>1. "replace" \in Place /\ pc' = [pc EXCEPT ![p] = "replace"] /\ UNCHANGED <<job, mem, todo, clean, fd>>
        /\ pc[p] = "write"
    BY <1>11 DEF Write, Place
  <2>2. ProcsTypedOK'
    BY <1>p, <2>1, MovesOne
  <2>3. QED
    BY <1>11, <1>p, <2>2 DEF Write, Written, FilesTyped
<1>12. CASE Replace(p)
  <2>1. fd' \in [Proc -> {NONE, "tmp", "manifest"}] /\ fd'[p] = NONE
        /\ \A q \in Proc \ {p} : fd'[q] # NONE <=> fd[q] # NONE
    BY <1>12, <1>p, FilesApart DEF Replace
  <2>2. FilesTyped'
    BY <1>12 DEF Replace, FilesTyped
  <2>3. CASE Done(p, TRUE)
    BY <2>1, <2>2, <2>3, DoneTyped
  <2>4. CASE Goto(p, "work") /\ UNCHANGED <<job, mem, todo, clean>>
    <3>1. "work" \in Place
      BY DEF Place
    <3>2. ProcsTypedOK'
      BY <1>p, <2>1, <2>4, <3>1, MovesOne
    <3>3. QED
      BY <2>2, <3>2
  <2>5. QED
    BY <1>12, <2>3, <2>4 DEF Replace
<1>13. QED
  BY <1>1, <1>2, <1>3, <1>4, <1>5, <1>6, <1>7, <1>8, <1>9, <1>10, <1>11, <1>12 DEF JobStep

LEMMA StartTyped ==
  ASSUME FilesTyped, ProcsTypedOK, NEW p \in Proc, NEW j \in Job, Starts(p, j),
         runs' \in 0..MaxRuns, clean' \in BOOLEAN
  PROVE  FilesTyped' /\ ProcsTypedOK'
<1>1. /\ pc' = [pc EXCEPT ![p] = "load"] /\ mem' = [mem EXCEPT ![p] = mem[p]]
      /\ job' = [job EXCEPT ![p] = j] /\ mem[p] \in Book /\ "load" \in Place
      /\ todo' \in [Proc -> SUBSET Shots]
      /\ fd' = fd /\ fd \in [Proc -> {NONE, "tmp", "manifest"}] /\ fd[p] = NONE
  BY DEF Starts, At, Goto, ProcsTypedOK, FdTyped, Place
<1>2. ProcsTypedOK'
  BY <1>1, MovesOne
<1>3. QED
  BY <1>2 DEF Starts, fileVars, FilesTyped

LEMMA JobsTypeStep == JobsTypeOK /\ JobsNext => JobsTypeOK'
<1> SUFFICES ASSUME FilesTyped, ProcsTypedOK, JobsNext PROVE FilesTyped' /\ ProcsTypedOK'
  BY JobsTyped DEF JobsTypeOK, FilesTyped, ProcsTypedOK, FdTyped, Place, Job
<1>1. CASE StartCycle
  <2>1. "sync" \in Job /\ Daemon \in Proc /\ runs' \in 0..MaxRuns /\ clean' \in BOOLEAN
    BY <1>1 DEF StartCycle, Job, Proc, FilesTyped
  <2>2. QED
    BY <1>1, <2>1, StartTyped DEF StartCycle
<1>2. ASSUME NEW p \in Cli, StartCommand(p) PROVE FilesTyped' /\ ProcsTypedOK'
  <2>1. p \in Proc /\ clean' \in BOOLEAN
    BY <1>2 DEF StartCommand, Proc, ProcsTypedOK
  <2>2. runs' \in 0..MaxRuns
    BY <1>2, ProcsTyped DEF StartCommand, FilesTyped
  <2>3. PICK j \in Job : Starts(p, j)
    BY <1>2 DEF StartCommand, Job
  <2>4. QED
    BY <2>1, <2>2, <2>3, StartTyped
<1>3. ASSUME NEW p \in Proc, JobStep(p) PROVE FilesTyped' /\ ProcsTypedOK'
  BY <1>3, StepTyped
<1>4. ASSUME NEW s \in Shots, PullShot(s) PROVE FilesTyped' /\ ProcsTypedOK'
  BY <1>4 DEF PullShot, fileVars, procVars, FilesTyped, ProcsTypedOK, FdTyped
<1>5. QED
  BY <1>1, <1>2, <1>3, <1>4 DEF JobsNext

CallTyped ==
  /\ call \in {"idle", "headline", "record"}
  /\ sid \in Nat \cup {NONE} /\ row \in Shots \cup {NONE}

LEMMA LogsTypeStep == LogsTyped /\ LogStep => LogsTyped'
<1> SUFFICES ASSUME LogsTyped, LogStep PROVE LogsTyped'
  OBVIOUS
<1>a. \A S, log, x : log \in Seq(S) /\ x \in S => Append(log, x) \in Seq(S)
  OBVIOUS
<1>1. ASSUME NEW at \in Instant, NEW settings \in SUBSET Setting, LogPrep(at, settings)
      PROVE  LogsTyped'
  BY <1>1 DEF LogPrep, LogsTyped
<1>2. ASSUME NEW start \in Date, LogBeans(start) PROVE LogsTyped'
  BY <1>2 DEF LogBeans, LogsTyped
<1>3. ASSUME NEW definition \in Definitions \cup {ABSENT}, TakeSnapshot(definition) PROVE LogsTyped'
  BY <1>3 DEF TakeSnapshot, LogsTyped
<1>4. QED
  BY <1>1, <1>2, <1>3 DEF LogStep

LEMMA TypeStep == TypeOK /\ [Next]_vars => TypeOK'
<1> SUFFICES ASSUME JobsTypeOK, LogsTyped, CallTyped, [Next]_vars
    PROVE JobsTypeOK' /\ LogsTyped' /\ CallTyped'
  BY DEF TypeOK, LogsTyped, CallTyped
<1>1. CASE JobsNext /\ UNCHANGED <<logVars, callVars>>
  BY <1>1, JobsTypeStep DEF logVars, callVars, LogsTyped, CallTyped
<1>2. CASE LogStep /\ UNCHANGED <<jobVars, callVars>>
  <2>1. JobsTypeOK'
    BY <1>2 DEF jobVars, fileVars, procVars, worldVars, JobsTypeOK
  <2>2. QED
    BY <1>2, <2>1, LogsTypeStep DEF callVars, CallTyped
<1>3. CASE CallStep
  <2>1. JobsTypeOK' /\ LogsTyped'
    BY <1>3 DEF CallStep, Resolve, Headline, Record, CallFails, jobVars, fileVars, procVars,
                worldVars, logVars, JobsTypeOK, LogsTyped
  <2>2. table = TORN \/ \A s \in table : s \in Shots /\ s[2] \in Nat
    BY ProcsTyped DEF JobsTypeOK
  <2>3. CallTyped'
    BY <1>3, <2>2 DEF CallStep, Resolve, Headline, Record, CallFails, CallTyped
  <2>4. QED
    BY <2>1, <2>3
<1>4. CASE UNCHANGED vars
  BY <1>4 DEF vars, jobVars, fileVars, procVars, worldVars, logVars, callVars, JobsTypeOK,
              LogsTyped, CallTyped
<1>5. QED
  BY <1>1, <1>2, <1>3, <1>4 DEF Next

LEMMA TypeInit == Init => TypeOK
<1> SUFFICES ASSUME Init PROVE TypeOK
  OBVIOUS
<1>1. JobsTypeOK
  BY ProcsTyped DEF Init, JobsInit, JobsTypeOK, Blank, Book, Entry
<1>2. QED
  BY <1>1 DEF Init, TypeOK

\* Every file, process and call keeps its type, and a save has its file open
\* from open to rename and at no other time, even where processes overlap.
THEOREM LibraryTyped == Spec => []TypeOK
  BY TypeInit, TypeStep, PTL DEF Spec

\* A setting is that of the latest entry that speaks of it, when the texts of
\* instants sort like the instants.
THEOREM SettingsStick == ASSUME TextOrder PROVE Spec => []PrepIsSticky
<1>1. TypeOK => PrepIsSticky
  BY PrepSticks DEF TypeOK, LogsTyped
<1>2. QED
  BY <1>1, LibraryTyped, PTL

\* Logging a lot says something of the dates from its start to the next lot,
\* and nothing of any other.
THEOREM LotsRun == Spec => LotRunsToNext
<1>1. TypeOK => [\A start \in Date : LogBeans(start) =>
                   \A date \in Date :
                     LET next == {i \in DOMAIN beans : beans[i] > start /\ beans[i] <= date}
                     IN  BeansAt(beans', date) =
                           IF start <= date /\ next = {} THEN Len(beans') ELSE BeansAt(beans, date)
                ]_logVars
  <2> SUFFICES ASSUME TypeOK, NEW start \in Date, LogBeans(start), NEW date \in Date
      PROVE LET next == {i \in DOMAIN beans : beans[i] > start /\ beans[i] <= date}
            IN  BeansAt(beans', date) =
                  IF start <= date /\ next = {} THEN Len(beans') ELSE BeansAt(beans, date)
    OBVIOUS
  <2>1. beans \in Seq(Date) /\ beans' = Append(beans, start)
    BY DEF TypeOK, LogBeans
  <2>2. QED
    BY <2>1, LotRuns
<1>2. QED
  BY <1>1, LibraryTyped, PTL DEF LotRunsToNext

\* The listed changes of a profile tell its definition on every day it was there.
THEOREM ChangesTell == Spec => []HistoryTells
<1>1. TypeOK => HistoryTells
  BY HistoryTold DEF TypeOK, LogsTyped
<1>2. QED
  BY <1>1, LibraryTyped, PTL

-----------------------------------------------------------------------------
\* While a sync saves, at most one shot has another record than on file, and
\* what has a record has been on the device.
AtMostOne(S) == \A x, y \in S : x = y
News(p) == {s \in Shots : mem[p][s] # manifest[s]}

StrandOK(p) ==
  /\ job[p] = "sync" /\ pc[p] \in Saving => AtMostOne(News(p))
  /\ Records(mem[p]) \subseteq pulled
  /\ todo[p] \subseteq pulled

SInv == (\A p \in Proc : StrandOK(p)) /\ Records(manifest) \subseteq pulled

LEMMA OwnStrand ==
  ASSUME LInv, LInv', SInv, NEW p \in Proc, pc[p] # "off", NEW x \in Place, NEW m, NEW ids,
         pc' = [pc EXCEPT ![p] = x], mem' = [mem EXCEPT ![p] = m], todo' = [todo EXCEPT ![p] = ids],
         UNCHANGED pulled, ids \subseteq pulled,
         job'[p] = "sync" /\ x \in Saving => AtMostOne({s \in Shots : m[s] # manifest'[s]}),
         Records(m) \subseteq pulled, manifest' = manifest \/ manifest' = mem[p]
  PROVE  SInv'
<1>1. \A q \in Proc \ {p} : pc'[q] = "off" /\ mem'[q] = mem[q] /\ todo'[q] = todo[q]
  BY Alone1 DEF LInv, StoreOK
<1>2. pc'[p] = x /\ mem'[p] = m /\ todo'[p] = ids
  BY DEF LInv, StoreOK
<1>3. ASSUME NEW q \in Proc \ {p} PROVE StrandOK(q)'
  <2>1. Records(mem[q]) \subseteq pulled /\ todo[q] \subseteq pulled
    BY DEF SInv, StrandOK
  <2>2. QED
    BY <1>1, <2>1 DEF StrandOK, Saving, Records
<1>4. StrandOK(p)'
  BY <1>2 DEF StrandOK, Records, News
<1>5. Records(manifest') \subseteq pulled
  BY DEF SInv, StrandOK
<1>6. QED
  BY <1>3, <1>4, <1>5 DEF SInv, Records

\* The step of a process, as far as the strands and the table go.
LEMMA StrandStep ==
  ASSUME LInv, JobsTypeOK, SInv, NEW p \in Proc, JobStep(p)
  PROVE  /\ SInv'
         /\ UNCHANGED pulled
         /\ table' \in {table, TORN} \/ table' = Records(manifest)
<1> USE DEF At, Goto, Works, fileVars, worldVars
<1>k. LInv' /\ Records(manifest) \subseteq Records(manifest')
  BY StepKeeps
<1>n. pc[p] # "off"
  BY DEF JobStep, Load, Fails, Dies, SyncShot, SyncDone, DryRun, ParseStart, ParseTable, Profiles,
         Delete, DeleteNothing, Open, Write, Replace
<1>c. /\ pc[p] \in {"work", "table"} => mem[p] = manifest
      /\ Records(mem[p]) \subseteq pulled /\ Records(manifest) \subseteq pulled
      /\ todo[p] \subseteq pulled /\ mem[p] \in Book
      /\ job[p] = "sync" /\ pc[p] \in Saving => AtMostOne(News(p))
  BY DEF LInv, StoreOK, CopyOK, SInv, StrandOK
<1>u. mem = [mem EXCEPT ![p] = mem[p]] /\ todo = [todo EXCEPT ![p] = todo[p]]
  BY DEF LInv, StoreOK
<1>e. Records(Blank) = {}
  BY DEF Records, Blank
<1>o. AtMostOne({s \in Shots : manifest[s] # manifest[s]})
  BY DEF AtMostOne
<1>d. ASSUME NEW well \in BOOLEAN, Done(p, well), UNCHANGED pulled,
             manifest' = manifest \/ manifest' = mem[p]
      PROVE  SInv'
  <2>1. PICK x \in {"off", "load"} : pc' = [pc EXCEPT ![p] = x]
    BY <1>d DEF Done
  <2>2. mem' = [mem EXCEPT ![p] = Blank] /\ todo' = [todo EXCEPT ![p] = {}]
    BY <1>d DEF Done
  <2>3. x \in Place /\ x \notin Saving
    BY DEF Place, Saving
  <2>4. QED
    BY <1>d, <1>e, <1>k, <1>n, <2>1, <2>2, <2>3, OwnStrand
<1>m. ASSUME NEW x \in {"work", "table", "open", "write", "replace"}, NEW m, NEW ids,
             pc' = [pc EXCEPT ![p] = x], mem' = [mem EXCEPT ![p] = m],
             todo' = [todo EXCEPT ![p] = ids], ids \subseteq pulled,
             UNCHANGED <<pulled, job, manifest>>, Records(m) \subseteq pulled,
             job[p] = "sync" /\ x \in Saving => AtMostOne({s \in Shots : m[s] # manifest[s]})
      PROVE  SInv'
  <2>1. x \in Place
    BY DEF Place
  <2>2. QED
    BY <1>k, <1>m, <1>n, <2>1, OwnStrand
<1>1. CASE Load(p)
  <2>1. PICK ids : todo' = [todo EXCEPT ![p] = ids] /\ ids \subseteq pulled
    <3>1. CASE job[p] # "sync"
      BY <1>1, <1>c, <1>u, <3>1 DEF Load
    <3>2. CASE job[p] = "sync"
      <4>1. PICK heals \in SUBSET MayHeal : todo' = [todo EXCEPT ![p] = Unverified \cup heals]
        BY <1>1, <3>2 DEF Load
      <4>2. Unverified \cup heals \subseteq pulled
        BY DEF Unverified, MayHeal, JobsTypeOK
      <4>3. QED
        BY <4>1, <4>2
    <3>3. QED
      BY <3>1, <3>2
  <2>2. QED
    BY <1>1, <1>c, <1>m, <1>o, <2>1 DEF Load
<1>2. CASE Fails(p)
  BY <1>2, <1>d DEF Fails
<1>3. CASE Dies(p)
  <2>1. "off" \in Place /\ "off" \notin Saving
    BY DEF Place, Saving
  <2>2. QED
    BY <1>3, <1>e, <1>k, <1>n, <2>1, OwnStrand DEF Dies
<1>4. CASE SyncShot(p)
  <2>1. PICK s \in todo[p], entry \in {"draft", "kept"} :
          /\ mem' = [mem EXCEPT ![p] = Put(mem[p], {s}, entry)]
          /\ todo' = [todo EXCEPT ![p] = todo[p] \ {s}]
    BY <1>4 DEF SyncShot, Knows
  <2>2. s \in pulled /\ mem[p] = manifest
    BY <1>4, <1>c DEF SyncShot
  <2>3. Records(Put(mem[p], {s}, entry)) \subseteq pulled
    BY <1>c, <2>2, PutBook DEF Entry
  <2>4. AtMostOne({r \in Shots : Put(mem[p], {s}, entry)[r] # manifest[r]})
    BY <2>2 DEF AtMostOne, Put
  <2>5. todo[p] \ {s} \subseteq pulled
    BY <1>c
  <2>6. QED
    BY <1>4, <1>m, <2>1, <2>3, <2>4, <2>5 DEF SyncShot
<1>5. CASE SyncDone(p) \/ DryRun(p) \/ DeleteNothing(p)
  BY <1>5, <1>d DEF SyncDone, DryRun, DeleteNothing
<1>6. CASE ParseStart(p)
  <2>1. CASE Done(p, TRUE) /\ UNCHANGED table
    BY <1>6, <1>d, <2>1 DEF ParseStart
  <2>2. CASE Goto(p, "table") /\ table' = TORN /\ UNCHANGED <<job, mem, todo, clean>>
    <3>1. "table" \notin Saving
      BY DEF Saving
    <3>2. QED
      BY <1>6, <1>c, <1>m, <1>u, <2>2, <3>1 DEF ParseStart
  <2>3. QED
    BY <1>6, <2>1, <2>2 DEF ParseStart
<1>7. CASE ParseTable(p)
  <2>1. /\ table' = Records(manifest) /\ UNCHANGED <<manifest, pulled>> /\ pc[p] = "table"
        /\ mem[p] = manifest /\ job[p] = "parse"
    BY <1>7, <1>c DEF ParseTable, Rows, LInv, CopyOK
  <2>2. PICK good : LET book == Judged(mem[p], good)
                    IN  \/ Done(p, TRUE)
                        \/ /\ Goto(p, "open") /\ mem' = [mem EXCEPT ![p] = book]
                           /\ UNCHANGED <<job, todo, clean>>
    BY <1>7 DEF ParseTable
  <2>3. CASE Done(p, TRUE)
    BY <1>d, <2>1, <2>3
  <2>4. CASE Goto(p, "open") /\ mem' = [mem EXCEPT ![p] = Judged(mem[p], good)]
             /\ UNCHANGED <<job, todo, clean>>
    <3>1. Records(Judged(mem[p], good)) \subseteq pulled
      BY <1>c, JudgedBook
    <3>2. QED
      BY <1>c, <1>m, <1>u, <2>1, <2>4, <3>1
  <2>5. QED
    BY <2>1, <2>2, <2>3, <2>4
<1>8. CASE Profiles(p)
  <2>1. CASE Done(p, TRUE)
    BY <1>8, <1>d, <2>1 DEF Profiles
  <2>2. CASE Goto(p, "open") /\ UNCHANGED <<job, mem, todo, clean>>
    BY <1>8, <1>c, <1>m, <1>u, <2>2 DEF Profiles
  <2>3. QED
    BY <1>8, <2>1, <2>2 DEF Profiles
<1>9. CASE Delete(p)
  <2>1. PICK some \in SUBSET Due(p) : mem' = [mem EXCEPT ![p] = Put(mem[p], some, "gone")]
    BY <1>9 DEF Delete, Knows
  <2>2. Records(Put(mem[p], some, "gone")) \subseteq pulled
    <3>1. some \subseteq pulled
      BY DEF Due, JobsTypeOK
    <3>2. QED
      BY <1>c, <3>1, PutBook DEF Entry
  <2>3. QED
    BY <1>9, <1>c, <1>m, <1>u, <2>1, <2>2 DEF Delete
<1>10. CASE Open(p)
  BY <1>10, <1>c, <1>m, <1>u DEF Open, Saving, News
<1>11. CASE Write(p)
  <2>1. manifest' = manifest
    BY <1>11, FilesApart DEF Write, LInv, CopyOK
  <2>2. QED
    BY <1>11, <1>c, <1>m, <1>u, <2>1 DEF Write, Saving, News
<1>12. CASE Replace(p)
  <2>1. manifest' = mem[p]
    BY <1>12 DEF Replace, LInv, CopyOK
  <2>2. CASE Done(p, TRUE)
    BY <1>12, <1>d, <2>1, <2>2 DEF Replace
  <2>3. CASE Goto(p, "work") /\ UNCHANGED <<job, mem, todo, clean>>
    <3>1. "work" \in Place /\ "work" \notin Saving
      BY DEF Place, Saving
    <3>2. QED
      BY <1>12, <1>c, <1>k, <1>n, <1>u, <2>1, <2>3, <3>1, OwnStrand DEF Replace
  <2>4. QED
    BY <1>12, <2>2, <2>3 DEF Replace
<1>13. QED
  BY <1>1, <1>2, <1>3, <1>4, <1>5, <1>6, <1>7, <1>8, <1>9, <1>10, <1>11, <1>12 DEF JobStep

\* A call knows a shot that stays archived; what the table can be read to say
\* is archived, and the lives of the counter seen so far have a last one.
CallOK ==
  /\ table # TORN => table \subseteq Records(manifest)
  /\ call = "headline" =>
       /\ \E s \in Records(manifest) : s[2] = sid
       /\ table # TORN => \E s \in table : s[2] = sid
  /\ call = "record" => row \in Records(manifest) /\ row[2] = sid
  /\ \E n \in Nat : \A s \in pulled : s[1] <= n

CInv == LInv /\ TypeOK /\ SInv /\ CallOK

LEMMA CInvInit == Init => CInv
<1> SUFFICES ASSUME Init PROVE CInv
  OBVIOUS
<1>1. LInv /\ TypeOK
  BY LInvInit, TypeInit
<1>2. SInv
  BY DEF Init, JobsInit, SInv, StrandOK, Saving, Records, Blank
<1>3. CallOK
  BY DEF Init, JobsInit, CallOK
<1>4. QED
  BY <1>1, <1>2, <1>3 DEF CInv

LEMMA JobKeepsCalls ==
  ASSUME CallOK, Records(manifest) \subseteq Records(manifest'), UNCHANGED <<pulled, callVars>>,
         table' \in {table, TORN} \/ table' = Records(manifest)
  PROVE  CallOK'
<1>1. Records(manifest) \subseteq Records(manifest')
  BY DEF Records
<1>2. UNCHANGED <<call, sid, row>>
  BY DEF callVars
<1>3. CASE table' = table
  BY <1>1, <1>2, <1>3 DEF CallOK, Records
<1>4. CASE table' = TORN
  BY <1>1, <1>2, <1>4 DEF CallOK, Records
<1>5. CASE table' = Records(manifest)
  BY <1>1, <1>2, <1>5 DEF CallOK, Records
<1>6. QED
  BY <1>3, <1>4, <1>5

LEMMA CInvStep == ASSUME Exclusive PROVE CInv /\ [Next]_vars => CInv'
<1> SUFFICES ASSUME CInv, [Next]_vars PROVE SInv' /\ CallOK'
  BY LInvStep, TypeStep DEF CInv
<1>k. LInv' /\ TypeOK' /\ Records(manifest) \subseteq Records(manifest')
  BY LInvStep, TypeStep DEF CInv
<1>1. ASSUME NEW p \in Proc, JobStep(p), UNCHANGED callVars PROVE SInv' /\ CallOK'
  BY <1>1, <1>k, StrandStep, JobKeepsCalls DEF CInv, TypeOK
<1>2. ASSUME NEW p \in Proc, NEW j, Starts(p, j), UNCHANGED callVars PROVE SInv' /\ CallOK'
  <2>1. UNCHANGED <<manifest, table, mem, todo, pulled>> /\ pc[p] = "off" /\ pc' = [pc EXCEPT ![p] = "load"]
        /\ job' = [job EXCEPT ![p] = j]
    BY <1>2 DEF Starts, At, Goto, fileVars
  <2>2. \A q \in Proc : q # p => pc'[q] = pc[q] /\ job'[q] = job[q]
    BY <2>1 DEF CInv, LInv, StoreOK, TypeOK, JobsTypeOK
  <2>3. pc'[p] = "load"
    BY <2>1 DEF CInv, LInv, StoreOK
  <2>4. ASSUME NEW q \in Proc PROVE StrandOK(q)'
    BY <2>1, <2>2, <2>3 DEF CInv, SInv, StrandOK, Saving, Records, News
  <2>5. SInv'
    BY <2>1, <2>4 DEF CInv, SInv, Records
  <2>6. QED
    BY <1>2, <1>k, <2>1, <2>5, JobKeepsCalls DEF CInv
<1>3. ASSUME NEW s \in Shots, PullShot(s), UNCHANGED callVars PROVE SInv' /\ CallOK'
  <2>1. UNCHANGED <<manifest, table, pc, mem, todo, job, call, sid, row>> /\ pulled' = pulled \cup {s}
        /\ \A r \in pulled : r[1] <= s[1]
    <3>1. \A r \in pulled : r[1] \in Nat /\ s[1] \in Nat
      BY ProcsTyped DEF CInv, TypeOK, JobsTypeOK
    <3>2. QED
      BY <1>3, <3>1 DEF PullShot, Before, fileVars, procVars, callVars
  <2>2. SInv'
    BY <2>1 DEF CInv, SInv, StrandOK, Records, News
  <2>3. s[1] \in Nat /\ \A r \in pulled' : r[1] <= s[1]
    BY <2>1, ProcsTyped
  <2>4. CallOK'
    BY <2>1, <2>3 DEF CInv, CallOK, Records
  <2>5. QED
    BY <2>2, <2>4
<1>4. ASSUME UNCHANGED jobVars PROVE SInv' /\ UNCHANGED <<table, manifest, pulled>>
  BY <1>4 DEF CInv, SInv, StrandOK, Records, News, jobVars, fileVars, procVars, worldVars
<1>5. CASE CallStep
  <2>1. SInv' /\ UNCHANGED <<table, manifest, pulled>>
    BY <1>4, <1>5 DEF CallStep, Resolve, Headline, Record, CallFails
  <2>2. CASE Resolve
    BY <2>1, <2>2 DEF Resolve, CInv, CallOK, Records
  <2>3. CASE Headline
    BY <2>1, <2>3 DEF Headline, CInv, CallOK, Records
  <2>4. CASE Record \/ CallFails
    BY <2>1, <2>4 DEF Record, CallFails, CInv, CallOK, Records
  <2>5. QED
    BY <1>5, <2>1, <2>2, <2>3, <2>4 DEF CallStep
<1>6. CASE UNCHANGED <<jobVars, callVars>>
  BY <1>4, <1>6, <1>k, JobKeepsCalls DEF CInv
<1>7. QED
  <2>1. CASE JobsNext /\ UNCHANGED <<logVars, callVars>>
    BY <1>1, <1>2, <1>3, <2>1 DEF JobsNext, StartCycle, StartCommand, Proc
  <2>2. CASE (LogStep /\ UNCHANGED <<jobVars, callVars>>) \/ UNCHANGED vars
    BY <1>6, <2>2 DEF vars
  <2>3. QED
    BY <1>5, <2>1, <2>2 DEF Next

LEMMA OneOrNone == ASSUME NEW S, AtMostOne(S) PROVE Cardinality(S) <= 1
<1>1. CASE S = {}
  BY <1>1, FS_EmptySet
<1>2. CASE S # {}
  <2>1. PICK x \in S : S = {x}
    BY <1>2 DEF AtMostOne
  <2>2. Cardinality({x}) = 1
    BY FS_Singleton
  <2>3. QED
    BY <2>1, <2>2
<1>3. QED
  BY <1>1, <1>2

\* A crash or failure strands one shot at most: no more are archived and not on
\* file at any moment.
THEOREM OneStrand == ASSUME Exclusive PROVE Spec => []StrandsOne
<1>1. CInv => StrandsOne
  <2> SUFFICES ASSUME CInv, NEW p \in Proc, job[p] = "sync", pc[p] \notin {"off", "load"}
      PROVE Cardinality(News(p)) <= 1
    BY OnFileIs DEF StrandsOne, Unsaved, News, CInv
  <2>1. AtMostOne(News(p))
    <3>1. CASE pc[p] \in {"work", "table"}
      BY <3>1 DEF CInv, LInv, CopyOK, News, AtMostOne
    <3>2. CASE pc[p] \in Saving
      BY <3>2 DEF CInv, SInv, StrandOK
    <3>3. QED
      BY <3>1, <3>2 DEF CInv, LInv, StoreOK, Place, Saving
  <2>2. QED
    BY <2>1, OneOrNone
<1>2. CInv /\ [Next]_vars => CInv'
  BY CInvStep
<1>3. QED
  BY <1>1, <1>2, CInvInit, PTL DEF Spec

\* Of the records with an id there is one of the newest life.
LEMMA NewestRec ==
  ASSUME NEW S, S \subseteq Shots, NEW n \in Nat, \A s \in S : s[1] <= n, NEW r \in S
  PROVE  \E s \in ManifestRec(S, r[2]) : s[1] >= r[1]
<1> DEFINE lives == {s[1] : s \in {x \in S : x[2] = r[2]}}
<1>1. lives \subseteq 0..n /\ r[1] \in lives
  <2>1. \A s \in S : s[1] \in 0..n
    BY ProcsTyped
  <2>2. QED
    BY <2>1
<1>2. PICK life \in lives : \A m \in lives : m <= life
  BY <1>1, GreatestNatural
<1>3. <<life, r[2]>> \in ManifestRec(S, r[2])
  BY <1>2 DEF ManifestRec
<1>4. life >= r[1]
  BY <1>1, <1>2
<1>5. QED
  BY <1>3, <1>4

\* A call of the archive server that could resolve its shot finds the row and
\* the record, written though they are meanwhile.
THEOREM CallsFind == ASSUME Exclusive PROVE Spec => []CallsHangTogether
<1>1. CInv => CallsHangTogether
  <2> SUFFICES ASSUME CInv, call = "record"
      PROVE \E s \in ManifestRec(Records(manifest), sid) : s[1] >= row[1]
    BY DEF CInv, CallOK, CallsHangTogether
  <2>1. row \in Records(manifest) /\ row[2] = sid /\ Records(manifest) \subseteq Shots
        /\ Records(manifest) \subseteq pulled
    BY DEF CInv, SInv, CallOK, Records
  <2>2. PICK n \in Nat : \A s \in Records(manifest) : s[1] <= n
    BY <2>1 DEF CInv, CallOK
  <2>3. QED
    BY <2>1, <2>2, NewestRec
<1>2. CInv /\ [Next]_vars => CInv'
  BY CInvStep
<1>3. QED
  BY <1>1, <1>2, CInvInit, PTL DEF Spec
=============================================================================
