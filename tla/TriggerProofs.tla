--------------------------- MODULE TriggerProofs ---------------------------
(***************************************************************************)
(* The lock and the answers, for any number of handler threads, any        *)
(* schedule and waits, and any number of failures, crashes and settings of *)
(* the clock.                                                              *)
(***************************************************************************)
EXTENDS Trigger, OrderLemmas

Place == {"boot", "plans", "sleeps", "waits", "runs", "idle"}

ThreadsOK ==
  /\ at \in [Thread -> Place]
  /\ lock \in Thread \cup {NONE}
  /\ step \in CycleSteps \cup {NONE}

\* Once a cycle has synced and nothing has failed, the presses made before its
\* sync read the device are satisfied, and who runs it has made no other.
Covered == step \in CycleSteps \ {"sync"} /\ ok => lock \notin wanted

TInv == ThreadsOK /\ OneCycle /\ Covered

LEMMA TInvInit == Init => TInv
  BY ThreadsApart
     DEF Init, TInv, ThreadsOK, OneCycle, Covered, Place, Thread, CycleSteps

\* A thread that moves between places where it does not run, and takes no part
\* in the cycle, disturbs nothing.
LEMMA MoveKeeps ==
  ASSUME TInv, NEW t \in Thread, at[t] # "runs",
         NEW place \in Place \ {"runs"}, at' = [at EXCEPT ![t] = place],
         UNCHANGED <<lock, step, ok>>, wanted' \subseteq wanted \cup {t}
  PROVE  TInv'
<1>1. ThreadsOK'
  BY DEF TInv, ThreadsOK, Place
<1>2. OneCycle'
  BY DEF TInv, ThreadsOK, OneCycle
<1>3. Covered'
  <2>1. lock # t
    BY DEF TInv, OneCycle
  <2>2. QED
    BY <2>1 DEF TInv, Covered
<1>4. QED
  BY <1>1, <1>2, <1>3 DEF TInv

LEMMA TInvStep == TInv /\ [Next]_vars => TInv'
<1> SUFFICES ASSUME TInv, [Next]_vars PROVE TInv'
  OBVIOUS
<1>m. Main \in Thread
  BY DEF Thread
<1>1. CASE Boot
  BY <1>1, <1>m, MoveKeeps DEF Boot, Goes, Place, cycleVars
<1>2. CASE Plan
  BY <1>2, <1>m, MoveKeeps DEF Plan, Goes, Place, cycleVars
<1>3. CASE Look
  <2>1. CASE UNCHANGED at
    BY <1>3, <2>1 DEF Look, cycleVars, TInv, ThreadsOK, OneCycle, Covered
  <2>2. CASE Goes(Main, "waits")
    BY <1>3, <2>2, <1>m, MoveKeeps DEF Look, Goes, Place, cycleVars
  <2>3. QED
    BY <1>3, <2>1, <2>2 DEF Look
<1>4. ASSUME NEW p \in Press, PressArrives(p) PROVE TInv'
  <2>1. p \in Thread
    BY DEF Thread
  <2>2. QED
    BY <1>4, <2>1, MoveKeeps DEF PressArrives, Goes, Place
<1>5. ASSUME NEW t \in Thread, Acquire(t) PROVE TInv'
  <2>1. \A u \in Thread : at[u] # "runs"
    BY <1>5, ThreadsApart DEF Acquire, TInv, OneCycle
  <2>2. ThreadsOK' /\ Covered'
    BY <1>5 DEF Acquire, Goes, TInv, ThreadsOK, Covered, Place, CycleSteps
  <2>3. OneCycle'
    BY <1>5, <2>1, ThreadsApart DEF Acquire, Goes, TInv, ThreadsOK, OneCycle, CycleSteps
  <2>4. QED
    BY <2>2, <2>3 DEF TInv
<1>6. ASSUME NEW t \in Thread, GiveUp(t) PROVE TInv'
  <2>1. (IF t = Main THEN "plans" ELSE "idle") \in Place \ {"runs"}
    BY DEF Place
  <2>2. QED
    BY <1>6, <2>1, MoveKeeps DEF GiveUp, Waits, Returns, Goes
<1>7. ASSUME NEW t \in Thread, Release(t) PROVE TInv'
  <2>1. \A u \in Thread : at[u] = "runs" <=> u = t
    BY <1>7 DEF Release, TInv, OneCycle
  <2>2. ThreadsOK' /\ Covered'
    <3>1. (IF t = Main THEN "plans" ELSE "idle") \in Place
      BY DEF Place
    <3>2. QED
      BY <1>7, <3>1, ThreadsApart DEF Release, Returns, Goes, TInv, ThreadsOK, Covered
  <2>3. OneCycle'
    BY <1>7, <2>1, ThreadsApart DEF Release, Returns, Goes, TInv, ThreadsOK, OneCycle
  <2>4. QED
    BY <2>2, <2>3 DEF TInv
<1>8. CASE CycleStep \/ CycleFault
  <2>1. UNCHANGED <<at, lock>> /\ {step, step'} \subseteq CycleSteps
    BY <1>8 DEF CycleStep, CycleFault, SyncAndParse, SyncFails, Snapshot, SnapshotFails,
                RecordVersion, threadVars, CycleSteps
  <2>2. ThreadsOK' /\ OneCycle'
    BY <2>1, ThreadsApart DEF TInv, ThreadsOK, OneCycle
  <2>3. CASE SyncAndParse
    BY <2>2, <2>3 DEF SyncAndParse, TInv, Covered
  <2>4. CASE CycleFault
    BY <2>2, <2>4 DEF CycleFault, SyncFails, SnapshotFails, TInv, Covered
  <2>5. CASE Snapshot \/ RecordVersion
    BY <2>2, <2>5 DEF Snapshot, RecordVersion, threadVars, CycleSteps, TInv, Covered
  <2>6. QED
    BY <1>8, <2>3, <2>4, <2>5 DEF CycleStep
<1>9. CASE Crash
  <2>1. \A t \in Thread : at'[t] \in {"boot", "idle"}
    BY <1>9 DEF Crash
  <2>2. ThreadsOK' /\ Covered'
    BY <1>9 DEF Crash, ThreadsOK, Covered, Place
  <2>3. OneCycle'
    BY <1>9, <2>1, ThreadsApart DEF Crash, OneCycle
  <2>4. QED
    BY <2>2, <2>3 DEF TInv
<1>10. CASE UNCHANGED <<at, lock, step, ok, wanted>>
  BY <1>10 DEF TInv, ThreadsOK, OneCycle, Covered
<1>11. QED
  <2>1. Tick \/ World \/ UNCHANGED vars => UNCHANGED <<at, lock, step, ok, wanted>>
    BY DEF Tick, World, PullShot, Flash, SetClock, vars, threadVars, cycleVars
  <2>2. QED
    BY <1>1, <1>2, <1>3, <1>4, <1>5, <1>6, <1>7, <1>8, <1>9, <1>10, <2>1
       DEF Next, LoopStep, LockStep, WaitEnds

\* One cycle at a time, whoever asks, and the lock never outlives its cycle.
THEOREM OneCycleAtATime == Spec => []OneCycle
<1>1. TInv => OneCycle
  BY DEF TInv
<1>2. QED
  BY TInvInit, TInvStep, <1>1, PTL DEF Spec

\* A 200 means that the shot the device held when the button was pressed is
\* archived: by this cycle, or by the one the press waited for.
THEOREM AnswersAreTrue == Spec => AnswersCover
<1>1. TInv => [\A p \in Press : Release(p) /\ ok => p \notin wanted]_vars
  BY DEF TInv, Covered, Release, CycleSteps
<1>2. QED
  BY TInvInit, TInvStep, <1>1, PTL DEF Spec, AnswersCover
-----------------------------------------------------------------------------
\* The operators of the schedule.
LEMMA MinOf ==
  ASSUME NEW S, S \subseteq Nat, S # {} PROVE Min(S) \in S /\ \A x \in S : Min(S) <= x
<1>1. \E m \in S : \A x \in S : m <= x
  BY LeastNatural
<1>2. QED
  BY <1>1 DEF Min

LEMMA MaxOf ==
  ASSUME NEW n \in Nat, NEW S, S \subseteq 0..n, S # {}
  PROVE  Max(S) \in S /\ \A x \in S : x <= Max(S)
<1>1. \E m \in S : \A x \in S : m >= x
  BY GreatestNatural
<1>2. QED
  BY <1>1 DEF Max

\* A nap is no longer than NapMax and than what is left.
LEMMA NapTyped ==
  ASSUME NEW remaining \in Nat
  PROVE  Min({remaining, NapMax}) \in Nat /\ Min({remaining, NapMax}) <= NapMax
         /\ Min({remaining, NapMax}) <= remaining
<1>1. {remaining, NapMax} \subseteq Nat /\ {remaining, NapMax} # {}
  BY TimesTyped
<1>2. QED
  BY <1>1, MinOf

\* The next run lies ahead, no further than any slot of today or tomorrow, and
\* no slot comes round before it.
LEMMA NextRunAhead ==
  ASSUME NEW now \in 0..(Day - 1)
  PROVE  /\ NextRun(now) \in 1..(2 * Day)
         /\ \A s \in Slots : NextRun(now) <= IF s > now THEN s - now ELSE s + Day - now
         /\ \A k \in 1..(NextRun(now) - 1) : (now + k) % Day \notin Slots
<1> DEFINE later == {s \in Slots : s > now}
<1>1. Slots \subseteq 0..(Day - 1) /\ Slots # {} /\ Day \in Nat \ {0}
  BY TimesTyped
<1>sl. Slots \subseteq Nat
  BY <1>1
<1>la. later \subseteq Nat
  BY <1>sl
<1> DEFINE first == Min(Slots)
<1>2. first \in Slots /\ first \in 0..(Day - 1) /\ \A s \in Slots : first <= s
  BY <1>1, <1>sl, MinOf
<1>3. \A k \in 1..(Day - 1 - now) : (now + k) % Day = now + k
  BY <1>1
<1>4. CASE later # {}
  <2>1. Min(later) \in later /\ \A s \in later : Min(later) <= s
    BY <1>la, <1>4, MinOf
  <2>2. NextRun(now) = Min(later) - now
    BY <1>4 DEF NextRun
  <2>3. Min(later) \in 0..(Day - 1) /\ Min(later) > now
    BY <2>1, TimesTyped
  <2>4. ASSUME NEW k \in 1..(NextRun(now) - 1) PROVE (now + k) % Day \notin Slots
    <3> DEFINE m == Min(later)
    <3>1. m \in Nat /\ m <= Day - 1 /\ k < m - now
      BY <1>1, <2>2, <2>3
    <3> HIDE DEF m
    <3>2. k \in 1..(Day - 1 - now) /\ now + k > now /\ now + k < m
      BY <1>1, <3>1
    <3>3. now + k \notin later
      BY <2>1, <3>1, <3>2 DEF m
    <3>4. QED
      BY <1>3, <3>2, <3>3
  <2>5. NextRun(now) \in 1..(2 * Day)
    BY <1>1, <2>2, <2>3
  <2>6. ASSUME NEW s \in Slots
        PROVE  NextRun(now) <= IF s > now THEN s - now ELSE s + Day - now
    <3> DEFINE m == Min(later)
    <3>1. s \in 0..(Day - 1) /\ m \in 0..(Day - 1) /\ NextRun(now) = m - now
          /\ (s > now => m <= s)
      BY <1>1, <2>1, <2>2, <2>3
    <3> HIDE DEF m
    <3>2. QED
      BY <1>1, <3>1
  <2>7. QED
    BY <2>4, <2>5, <2>6
<1>5. CASE later = {}
  <2>1. NextRun(now) = first + Day - now
    BY <1>5 DEF NextRun
  <2> HIDE DEF first
  <2>2. first \in 0..now
    <3>1. first \notin later
      BY <1>5
    <3>2. QED
      BY <1>1, <1>2, <3>1
  <2>3. ASSUME NEW k \in 1..(NextRun(now) - 1) PROVE (now + k) % Day \notin Slots
    <3>1. CASE now + k < Day
      BY <1>1, <1>3, <1>5, <3>1
    <3>2. CASE now + k >= Day
      <4> DEFINE c == now + k - Day
      <4>1. c \in 0..(Day - 1) /\ c < first
        BY <1>2, <1>1, <2>1, <2>2, <3>2
      <4>2. now + k = c + Day
        BY <1>1
      <4> HIDE DEF c
      <4>3. (now + k) % Day = c
        <5>1. c \in Int /\ c % Day = c
          BY <1>1, <4>1, ModuloStays
        <5>2. (c + Day) % Day = c % Day
          BY <1>1, <5>1, ModuloTurns
        <5>3. QED
          BY <4>2, <5>1, <5>2
      <4>4. c \notin Slots
        BY <1>1, <1>2, <4>1
      <4>5. QED
        BY <4>3, <4>4
    <3>3. QED
      BY <1>1, <3>1, <3>2
  <2>4. NextRun(now) \in 1..(2 * Day)
    BY <1>1, <2>1, <2>2
  <2>5. ASSUME NEW s \in Slots
        PROVE  NextRun(now) <= IF s > now THEN s - now ELSE s + Day - now
    <3>1. ~(s > now) /\ first <= s
      BY <1>2, <1>5
    <3>2. QED
      BY <1>1, <1>2, <2>1, <3>1
  <2>6. QED
    BY <2>3, <2>4, <2>5
<1>6. QED
  BY <1>4, <1>5

-----------------------------------------------------------------------------
\* The ledger is told a version only after the device was asked for it.
TypeInv == TypeOK /\ (step = "ledger" => ota \in Version)

\* Every step keeps every variable's type.
LEMMA TypeStep == TypeInv /\ [Next]_vars => TypeInv'
<1> SUFFICES ASSUME TypeInv, [Next]_vars PROVE TypeInv'
  OBVIOUS
<1> USE TimesTyped, ThreadsApart DEF TypeInv, TypeOK
<1>m. Main \in Thread /\ Press \subseteq Thread
  BY DEF Thread
<1>1. CASE Boot
  BY <1>1, <1>m DEF Boot, Goes, Counts, timeVars, cycleVars, profileVars, countVars
<1>2. CASE Plan
  <2>1. due' \in Nat
    BY <1>2, NextRunAhead DEF Plan
  <2>2. left' \in [Thread -> Nat]
    BY <1>2, <1>m, <2>1, NapTyped DEF Plan, Nap, Counts
  <2>3. QED
    <3>1. at' \in [Thread -> {"boot", "plans", "sleeps", "waits", "runs", "idle"}]
      BY <1>2, <1>m DEF Plan, Goes
    <3>2. UNCHANGED <<timeVars, lock, cycleVars, profileVars, countVars>>
      BY <1>2 DEF Plan
    <3>3. QED
      BY <2>1, <2>2, <3>1, <3>2 DEF timeVars, cycleVars, profileVars, countVars
<1>3. CASE Look
  <2>1. left' \in [Thread -> Nat]
    <3>1. CASE due > 0 /\ Nap(due)
      BY <1>m, <3>1, NapTyped DEF Nap, Counts
    <3>2. CASE Counts(Main, SlotWait)
      BY <1>m, <3>2 DEF Counts
    <3>3. QED
      BY <1>3, <3>1, <3>2 DEF Look
  <2>2. QED
    BY <1>3, <2>1 DEF Look, Goes, timeVars, cycleVars, profileVars, countVars
<1>4. ASSUME NEW p \in Press, PressArrives(p) PROVE TypeInv'
  BY <1>4, <1>m DEF PressArrives, Goes, Counts, timeVars, profileVars, countVars
<1>5. ASSUME NEW t \in Thread, Acquire(t) PROVE TypeInv'
  BY <1>5 DEF Acquire, Goes, Counts, CycleSteps, timeVars, profileVars
<1>6. ASSUME NEW t \in Thread, GiveUp(t) \/ Release(t) PROVE TypeInv'
  BY <1>6, <1>m DEF GiveUp, Release, Returns, Goes, CycleSteps, timeVars, profileVars, countVars
<1>7. CASE CycleStep
  BY <1>7
  DEF CycleStep, SyncAndParse, Snapshot, RecordVersion, CycleSteps, timeVars, threadVars,
      profileVars, countVars
<1>8. CASE CycleFault
  <2>1. mishaps' \in 0..MaxMishaps /\ idle' \in Nat
    BY <1>8 DEF CycleFault, SyncFails, SnapshotFails, Mishap
  <2>2. CASE SyncFails
    BY <2>1, <2>2 DEF SyncFails, CycleSteps, timeVars, threadVars, profileVars
  <2>3. CASE SnapshotFails
    BY <2>1, <2>3 DEF SnapshotFails, CycleSteps, timeVars, threadVars
  <2>4. QED
    BY <1>8, <2>2, <2>3 DEF CycleFault
<1>9. CASE Tick
  <2>1. clock' \in 0..(Day - 1)
    BY <1>9 DEF Tick
  <2>2. repeated' \in 0..Shift /\ due' \in Int /\ idle' \in Nat
    BY <1>9 DEF Tick, OneLess
  <2>3. left' \in [Thread -> Nat]
    BY <1>9 DEF Tick, OneLess
  <2>4. QED
    BY <1>9, <2>1, <2>2, <2>3 DEF Tick, SnappedToday, cycleVars
<1>10. CASE World
  <2>1. ASSUME NEW by \in {Shift, -Shift}, SetClock(by) PROVE TypeInv'
    BY <2>1 DEF SetClock, Mishap, cycleVars, profileVars
  <2>2. QED
    BY <1>10, <2>1
    DEF World, PullShot, Flash, Version, timeVars, threadVars, cycleVars, profileVars, countVars
<1>11. CASE Crash
  BY <1>11, <1>m DEF Crash, Mishap, CycleSteps, timeVars
<1>12. CASE UNCHANGED vars
  BY <1>12 DEF vars, timeVars, threadVars, cycleVars, profileVars, countVars
<1>13. QED
  <2> HIDE TimesTyped, ThreadsApart DEF TypeInv, TypeOK
  <2> QED BY <1>1, <1>2, <1>3, <1>4, <1>5, <1>6, <1>7, <1>8, <1>9, <1>10, <1>11, <1>12
  DEF Next, LoopStep, LockStep, WaitEnds

LEMMA TypeInit == Init => TypeInv
<1> SUFFICES ASSUME Init PROVE TypeInv
  OBVIOUS
<1> USE TimesTyped DEF Init
<1>1. clock \in 0..(Day - 1) /\ repeated \in 0..Shift /\ due \in Int /\ idle \in Nat
      /\ mishaps \in 0..MaxMishaps
  OBVIOUS
<1>2. at \in [Thread -> {"boot", "plans", "sleeps", "waits", "runs", "idle"}]
      /\ left \in [Thread -> Nat]
  OBVIOUS
<1>3. step # "ledger"
  BY ThreadsApart DEF CycleSteps
<1>4. QED
  BY <1>1, <1>2, <1>3 DEF TypeInv, TypeOK, Version

\* Every variable keeps its type, and no wait is ever negative.
THEOREM TriggerTyped == Spec => []TypeOK
BY TypeInit, TypeStep, PTL DEF Spec, TypeInv

-----------------------------------------------------------------------------
\* What can change where the sleeping loop is.
LEMMA SleepReached ==
  ASSUME TypeOK, [Next]_vars, at'[Main] = "sleeps"
  PROVE  \/ Plan \/ Look \/ Tick
         \/ \E by \in {Shift, -Shift} : SetClock(by)
         \/ /\ at[Main] = "sleeps" /\ left'[Main] = left[Main]
            /\ UNCHANGED <<timeVars, due, mishaps>> /\ idle' \in {idle, 0}
         \/ /\ at[Main] = "sleeps" /\ left'[Main] = left[Main]
            /\ CycleFault
<1> USE DEF TypeOK
<1>m. Main \in Thread /\ Main \notin Press
  BY ThreadsApart DEF Thread
<1>1. CASE Boot
  BY <1>1, <1>m DEF Boot, Goes
<1>2. ASSUME NEW p \in Press, PressArrives(p)
      PROVE  at'[Main] = at[Main] /\ left'[Main] = left[Main]
             /\ UNCHANGED <<timeVars, due, mishaps, idle>>
  BY <1>2, <1>m DEF PressArrives, Goes, Counts, Thread, countVars
<1>3. ASSUME NEW t \in Thread, Acquire(t)
      PROVE  at'[Main] = at[Main] /\ left'[Main] = left[Main]
             /\ UNCHANGED <<timeVars, due, mishaps>> /\ idle' = 0
  BY <1>3, <1>m DEF Acquire, Goes, Counts
<1>4. ASSUME NEW t \in Thread, GiveUp(t) \/ Release(t)
      PROVE  at'[Main] = at[Main] /\ left'[Main] = left[Main]
             /\ UNCHANGED <<timeVars, due, mishaps, idle>>
  BY <1>4, <1>m DEF GiveUp, Release, Returns, Goes, countVars
<1>5. CASE CycleStep
  BY <1>5 DEF CycleStep, SyncAndParse, Snapshot, RecordVersion, threadVars, timeVars, countVars
<1>6. CASE CycleFault
  BY <1>6 DEF CycleFault, SyncFails, SnapshotFails, threadVars
<1>7. CASE Crash
  BY <1>7, <1>m DEF Crash
<1>8. CASE PullShot \/ Flash \/ UNCHANGED vars
  BY <1>8 DEF PullShot, Flash, vars, threadVars, timeVars, countVars
<1>9. QED
  BY <1>1, <1>2, <1>3, <1>4, <1>5, <1>6, <1>7, <1>8
  DEF Next, LoopStep, LockStep, WaitEnds, World

\* Between now and the loop's target no slot comes round for the first time,
\* and no nap is longer than NapMax.
Heeding ==
  at[Main] = "sleeps" =>
    /\ left[Main] <= NapMax
    /\ \A k \in (repeated + 1)..(due - 1) : (clock + k) % Day \notin Slots

\* One tick on, the same slots are one tick nearer.
LEMMA TickShifts ==
  ASSUME TypeOK, NEW k \in Nat PROVE (((clock + 1) % Day) + k) % Day = (clock + (k + 1)) % Day
<1> USE TimesTyped DEF TypeOK
<1>1. CASE clock + 1 < Day
  BY <1>1
<1>2. CASE clock + 1 = Day
  <2>1. (clock + 1) % Day = 0
    BY <1>2
  <2>0. Day \in Nat \ {0} /\ k \in Int
    OBVIOUS
  <2>2. (k + Day) % Day = k % Day
    BY <2>0, ModuloTurns
  <2>3. clock + (k + 1) = k + Day
    BY <1>2
  <2>4. QED
    BY <2>1, <2>2, <2>3
<1>3. QED
  BY <1>1, <1>2

LEMMA HeedingStep == ASSUME TypeOK, Heeding, [Next]_vars PROVE Heeding'
<1> SUFFICES ASSUME at'[Main] = "sleeps"
             PROVE  /\ left'[Main] <= NapMax
                    /\ \A k \in (repeated' + 1)..(due' - 1) : (clock' + k) % Day \notin Slots
  BY DEF Heeding
<1> USE TimesTyped DEF TypeOK
<1>m. Main \in Thread
  BY DEF Thread
<1>1. CASE Plan
  <2>1. clock' = clock /\ repeated' = repeated /\ due' = NextRun(clock)
    BY <1>1 DEF Plan, timeVars
  <2>2. due' \in Nat /\ \A k \in 1..(due' - 1) : (clock + k) % Day \notin Slots
    BY <2>1, NextRunAhead
  <2>3. left'[Main] <= NapMax
    BY <1>1, <1>m, <2>2, NapTyped DEF Plan, Nap, Counts
  <2>4. QED
    BY <2>1, <2>2, <2>3
<1>2. CASE Look
  <2>1. at[Main] = "sleeps" /\ UNCHANGED <<clock, repeated, due>>
    BY <1>2 DEF Look, timeVars
  <2>2. due > 0 /\ Nap(due)
    BY <1>2, <1>m DEF Look, Goes
  <2>3. left'[Main] <= NapMax
    BY <1>m, <2>2, NapTyped DEF Nap, Counts
  <2>4. QED
    BY <2>1, <2>3 DEF Heeding
<1>3. CASE Tick
  <2>1. at[Main] = "sleeps" /\ due' = due - 1 /\ clock' = (clock + 1) % Day
    BY <1>3 DEF Tick
  <2>2. left'[Main] <= NapMax
    BY <1>3, <1>m, <2>1 DEF Tick, OneLess, Heeding
  <2>3. ASSUME NEW k \in (repeated' + 1)..(due' - 1) PROVE (clock' + k) % Day \notin Slots
    <3>1. k \in Nat /\ k + 1 \in (repeated + 1)..(due - 1)
      BY <1>3, <2>1 DEF Tick, OneLess
    <3>2. QED
      BY <2>1, <3>1, TickShifts DEF Heeding
  <2>4. QED
    BY <2>2, <2>3
<1>4. ASSUME NEW by \in {Shift, -Shift}, SetClock(by)
      PROVE  /\ left'[Main] <= NapMax
             /\ \A k \in (repeated' + 1)..(due' - 1) : (clock' + k) % Day \notin Slots
  <2>1. at[Main] = "sleeps" /\ left'[Main] = left[Main] /\ due' = due - by /\ clock' = clock + by
        /\ repeated = 0 /\ repeated' = IF by < 0 THEN -by ELSE 0
    BY <1>4 DEF SetClock
  <2>2. ASSUME NEW k \in (repeated' + 1)..(due' - 1) PROVE (clock' + k) % Day \notin Slots
    <3>1. k + by \in (repeated + 1)..(due - 1) /\ clock' + k = clock + (k + by)
      BY <2>1
    <3>2. QED
      BY <2>1, <3>1 DEF Heeding
  <2>3. QED
    BY <2>1, <2>2 DEF Heeding
<1>5. CASE at[Main] = "sleeps" /\ left'[Main] = left[Main] /\ UNCHANGED <<timeVars, due>>
  BY <1>5 DEF Heeding, timeVars
<1>6. CASE CycleFault
  BY <1>6 DEF CycleFault, SyncFails, SnapshotFails, threadVars, timeVars, Heeding
<1>7. QED
  BY <1>1, <1>2, <1>3, <1>4, <1>5, <1>6, SleepReached

\* The loop never sleeps past a slot, however the clock is set, and past its
\* target no longer than one nap.
THEOREM NoSlotSleptThrough == Spec => []SlotsHeeded
<1>1. Init => Heeding
  BY ThreadsApart DEF Init, Heeding, Thread
<1>2. TypeOK /\ Heeding => SlotsHeeded
  BY DEF TypeOK, Heeding, SlotsHeeded
<1>3. TypeInv => TypeOK
  BY DEF TypeInv
<1>4. QED
  BY TypeInit, TypeStep, HeedingStep, <1>1, <1>2, <1>3, PTL DEF Spec

-----------------------------------------------------------------------------
\* The distance from a slot to the one that comes round next.
Apart(r, s) == ((s - r + Day - 1) % Day) + 1
GapAfter(r) == Min({Apart(r, s) : s \in Slots})

\* A slot that is not later in the day than r comes round tomorrow.
LEMMA ApartIs ==
  ASSUME NEW r \in Slots, NEW s \in Slots
  PROVE  Apart(r, s) = IF s > r THEN s - r ELSE s - r + Day
<1> USE TimesTyped
<1>1. r \in 0..(Day - 1) /\ s \in 0..(Day - 1) /\ Day \in Nat \ {0}
  OBVIOUS
<1>2. CASE s > r
  <2> DEFINE d == s - r - 1
  <2>1. d \in 0..(Day - 1) /\ s - r + Day - 1 = d + Day
    BY <1>1, <1>2
  <2> HIDE DEF d
  <2>2. d % Day = d
    BY <1>1, <2>1, ModuloStays
  <2>3. (d + Day) % Day = d % Day
    <3>1. d \in Int
      BY <1>1, <2>1
    <3>2. QED
      BY <1>1, <3>1, ModuloTurns
  <2>4. Apart(r, s) = d + 1
    BY <2>1, <2>2, <2>3 DEF Apart
  <2>5. QED
    BY <1>1, <1>2, <2>4 DEF d
<1>3. CASE ~(s > r)
  <2> DEFINE d == s - r + Day - 1
  <2>1. d \in 0..(Day - 1)
    BY <1>1, <1>3
  <2>2. d % Day = d
    BY <1>1, <2>1
  <2>3. QED
    BY <1>1, <1>3, <2>2 DEF Apart
<1>4. QED
  BY <1>2, <1>3

LEMMA MaxGapIs ==
  /\ MaxGap \in Nat
  /\ \A r \in Slots : GapAfter(r) <= MaxGap /\ \E s \in Slots : GapAfter(r) = Apart(r, s)
<1> USE TimesTyped
<1>1. \A r, s \in Slots : Apart(r, s) \in 1..Day
  BY ApartIs
<1>2. ASSUME NEW r \in Slots PROVE GapAfter(r) \in 1..Day /\ \E s \in Slots : GapAfter(r) = Apart(r, s)
  <2> DEFINE S == {Apart(r, s) : s \in Slots}
  <2>1. S \subseteq Nat /\ S # {}
    <3>1. Apart(r, r) \in S
      OBVIOUS
    <3>2. QED
      BY <1>1, <3>1
  <2>2. Min(S) \in S
    BY <2>1, MinOf
  <2>3. QED
    BY <1>1, <2>2 DEF GapAfter
<1> DEFINE G == {GapAfter(r) : r \in Slots}
<1>3. G \subseteq 0..Day /\ G # {}
  <2>1. PICK r \in Slots : TRUE
    OBVIOUS
  <2>2. GapAfter(r) \in G
    BY <2>1
  <2>3. QED
    BY <1>2, <2>2
<1>4. Max(G) \in G /\ \A g \in G : g <= Max(G)
  BY <1>3, MaxOf
<1>5. MaxGap = Max(G)
  BY DEF MaxGap, GapAfter, Apart
<1>6. QED
  BY <1>2, <1>3, <1>4, <1>5

\* From any moment the next slot is no further than MaxGap: no further than
\* from the slot before, of today or of yesterday.
LEMMA NextRunSoon == ASSUME NEW now \in 0..(Day - 1) PROVE NextRun(now) <= MaxGap
<1> DEFINE past == {s \in Slots : s <= now}
           gap == NextRun(now)
<1>1. Slots \subseteq 0..(Day - 1) /\ Slots # {} /\ Day \in Nat \ {0}
  BY TimesTyped
<1>2. Slots \subseteq 0..Day /\ past \subseteq 0..Day
  <2>1. \A s \in Slots : s \in 0..Day
    BY <1>1
  <2>2. QED
    BY <2>1
<1>3. gap \in Nat /\ \A s \in Slots : gap <= IF s > now THEN s - now ELSE s + Day - now
  <2>1. NextRun(now) \in 1..(2 * Day)
    BY NextRunAhead
  <2>2. NextRun(now) \in Nat
    BY <1>1, <2>1
  <2>3. QED
    BY <2>2, NextRunAhead
<1> HIDE DEF gap
<1>4. \E r \in Slots : \A s \in Slots : gap <= Apart(r, s)
  <2>1. CASE past # {}
    <3>1. PICK r \in past : \A s \in past : s <= r
      BY <1>1, <1>2, <2>1, GreatestNatural
    <3>2. ASSUME NEW s \in Slots PROVE gap <= Apart(r, s)
      <4>1. Apart(r, s) = IF s > r THEN s - r ELSE s - r + Day
        BY <3>1, ApartIs
      <4>2. s > r => s > now
        BY <1>1, <3>1
      <4>3. QED
        BY <1>1, <1>3, <3>1, <4>1, <4>2
    <3>3. QED
      BY <3>1, <3>2
  <2>2. CASE past = {}
    <3>1. PICK r \in Slots : \A s \in Slots : s <= r
      BY <1>1, <1>2, GreatestNatural
    <3>2. ASSUME NEW s \in Slots PROVE gap <= Apart(r, s)
      <4>1. Apart(r, s) = IF s > r THEN s - r ELSE s - r + Day
        BY <3>1, ApartIs
      <4>2. s > now /\ ~(s > r)
        BY <1>1, <2>2, <3>1
      <4>3. QED
        BY <1>1, <1>3, <3>1, <4>1, <4>2
    <3>3. QED
      BY <3>1, <3>2
  <2>3. QED
    BY <2>1, <2>2
<1>5. PICK r \in Slots : \A s \in Slots : gap <= Apart(r, s)
  BY <1>4
<1>6. GapAfter(r) <= MaxGap /\ \E s \in Slots : GapAfter(r) = Apart(r, s)
  BY MaxGapIs
<1>7. PICK s \in Slots : GapAfter(r) = Apart(r, s)
  BY <1>6
<1>8. gap <= Apart(r, s) /\ Apart(r, s) <= MaxGap
  BY <1>5, <1>6, <1>7
<1>9. Apart(r, s) \in Int /\ MaxGap \in Int
  BY <1>1, ApartIs, MaxGapIs
<1>10. QED
  BY <1>3, <1>8, <1>9 DEF gap

-----------------------------------------------------------------------------
\* The daemon syncs when it starts, and a wait for the lock is a wait: a lock
\* that is free is taken (60 s and 600 s in the code).
WaitsTry == RunOnStart /\ PressWait > 0 /\ SlotWait > 0

Horizon == MaxGap + CycleMax + mishaps * Shift

\* No tick goes by while the lock is free and somebody waits for it, so ticks
\* add up only in a cycle and in the sleep to the next slot; and that sleep
\* begins within a cycle's time of a cycle.  A set clock stretches it by Shift.
FreshInv ==
  /\ idle <= Horizon
  /\ lock # NONE => idle <= CycleMax
  /\ at[Main] = "plans" => idle <= CycleMax
  /\ at[Main] = "waits" /\ left[Main] = 0 => idle <= CycleMax
  /\ at[Main] = "sleeps" => idle + due <= Horizon /\ idle + left[Main] <= Horizon

\* The horizon moves by Shift with a mishap, and not otherwise.
LEMMA HorizonGrows ==
  ASSUME TypeOK
  PROVE  /\ Horizon \in Nat /\ CycleMax <= Horizon
         /\ UNCHANGED mishaps => Horizon' = Horizon
         /\ mishaps' = mishaps + 1 => Horizon' = Horizon + Shift
         /\ MaxGap + CycleMax <= Horizon
         /\ Horizon <= MaxGap + CycleMax + MaxMishaps * Shift
<1> USE TimesTyped, MaxGapIs DEF TypeOK
<1>1. mishaps \in Nat /\ Shift \in Nat /\ mishaps <= MaxMishaps
  OBVIOUS
<1>2. mishaps * Shift \in Nat /\ mishaps * Shift <= MaxMishaps * Shift /\ MaxMishaps * Shift \in Nat
  <2>1. MaxMishaps * Shift = mishaps * Shift + (MaxMishaps - mishaps) * Shift
    BY <1>1
  <2>2. mishaps * Shift \in Nat /\ (MaxMishaps - mishaps) * Shift \in Nat
    BY <1>1
  <2>3. QED
    BY <2>1, <2>2
<1>3. (mishaps + 1) * Shift = mishaps * Shift + Shift
  BY <1>1
<1>4. QED
  BY <1>2, <1>3 DEF Horizon

LEMMA FreshStep == ASSUME WaitsTry, TypeInv, OneCycle, FreshInv, [Next]_vars PROVE FreshInv'
<1>m. /\ Main \in Thread /\ Main \notin Press /\ NONE \notin Thread
      /\ at \in [Thread -> {"boot", "plans", "sleeps", "waits", "runs", "idle"}]
      /\ left \in [Thread -> Nat]
  BY ThreadsApart DEF Thread, TypeInv, TypeOK
<1>h. Horizon \in Nat /\ Horizon' \in Nat /\ Horizon <= Horizon' /\ CycleMax <= Horizon
      /\ TypeInv'
  <2>1. mishaps' \in {mishaps, mishaps + 1}
    BY DEF Next, LoopStep, LockStep, WaitEnds, CycleStep, CycleFault, World, Boot, Plan, Look,
           Acquire, Release, GiveUp, SyncAndParse, Snapshot, RecordVersion, SyncFails,
           SnapshotFails, Crash, PressArrives, Tick, PullShot, Flash, SetClock, Mishap,
           countVars, vars
  <2>2. TypeInv'
    BY TypeStep
  <2>3. Horizon \in Nat /\ CycleMax <= Horizon /\ Horizon' \in {Horizon, Horizon + Shift}
    BY <2>1, HorizonGrows DEF TypeInv
  <2>4. QED
    BY <2>2, <2>3, TimesTyped
<1>t. /\ idle \in Nat /\ idle' \in Nat /\ due \in Int /\ due' \in Int
      /\ left[Main] \in Nat /\ left'[Main] \in Nat
      /\ CycleMax \in Nat /\ Shift \in Nat
      /\ clock \in 0..(Day - 1)
  BY <1>h, <1>m, TimesTyped DEF TypeInv, TypeOK
\* A step that takes no time, moves no thread and sets no clock disturbs nothing.
<1>f. ASSUME UNCHANGED <<at, left, due, lock>>, idle' \in {idle, 0} PROVE FreshInv'
  <2>1. at' = at /\ left' = left /\ due' = due /\ lock' = lock /\ idle' <= idle
    BY <1>t, <1>f
  <2>2. at[Main] = "sleeps" => idle' + due <= Horizon' /\ idle' + left[Main] <= Horizon'
    BY <1>t, <1>h, <2>1 DEF FreshInv
  <2>3. /\ lock # NONE => idle' <= CycleMax
        /\ at[Main] = "plans" => idle' <= CycleMax
        /\ at[Main] = "waits" /\ left[Main] = 0 => idle' <= CycleMax
    BY <1>t, <2>1 DEF FreshInv
  <2>4. idle' <= Horizon'
    BY <1>t, <1>h, <2>1 DEF FreshInv
  <2>5. CycleMax' = CycleMax /\ at'[Main] = at[Main] /\ left'[Main] = left[Main]
    BY <2>1
  <2>6. QED
    BY <2>1, <2>2, <2>3, <2>4, <2>5 DEF FreshInv
<1>1. CASE Boot
  <2>1. at'[Main] = "waits" /\ left'[Main] > 0 /\ UNCHANGED <<lock, idle>>
    BY <1>1, <1>m DEF WaitsTry, Boot, Goes, Counts, countVars
  <2>2. QED
    BY <1>t, <1>h, <2>1 DEF FreshInv
<1>2. CASE Plan
  <2>1. at'[Main] = "sleeps" /\ UNCHANGED <<lock, idle, mishaps>> /\ due' = NextRun(clock)
    BY <1>2, <1>m DEF Plan, Goes, countVars
  <2>2. idle <= CycleMax
    BY <1>2 DEF Plan, FreshInv
  <2>3. due' \in Nat /\ due' <= MaxGap /\ MaxGap \in Nat
    BY <1>t, <2>1, TimesTyped, NextRunAhead, NextRunSoon, MaxGapIs
  <2>4. left'[Main] <= due' /\ left'[Main] \in Nat
    BY <1>2, <1>m, <2>3, NapTyped DEF Plan, Nap, Counts
  <2>5. MaxGap + CycleMax <= Horizon
    BY HorizonGrows DEF TypeInv
  <2>6. QED
    BY <1>t, <1>h, <2>1, <2>2, <2>3, <2>4, <2>5 DEF FreshInv
<1>3. CASE Look
  <2>1. at[Main] = "sleeps" /\ UNCHANGED <<lock, idle, mishaps, due>>
    BY <1>3 DEF Look, countVars
  <2>2. CASE due > 0 /\ Nap(due) /\ UNCHANGED at
    <3>1. left'[Main] <= due
      BY <1>t, <1>m, <2>2, NapTyped DEF Nap, Counts
    <3>2. QED
      BY <1>t, <1>h, <2>1, <2>2, <3>1 DEF FreshInv
  <2>3. CASE Goes(Main, "waits") /\ Counts(Main, SlotWait)
    <3>1. at'[Main] = "waits" /\ left'[Main] > 0
      BY <1>m, <2>3 DEF WaitsTry, Goes, Counts
    <3>2. QED
      BY <1>t, <1>h, <2>1, <3>1 DEF FreshInv
  <2>4. QED
    BY <1>3, <2>2, <2>3 DEF Look
<1>4. ASSUME NEW p \in Press, PressArrives(p) PROVE FreshInv'
  <2>1. at'[Main] = at[Main] /\ left'[Main] = left[Main] /\ UNCHANGED <<lock, due, idle>>
    BY <1>4, <1>m DEF PressArrives, Goes, Counts, Thread, countVars
  <2>2. QED
    BY <1>t, <1>h, <2>1 DEF FreshInv
<1>5. ASSUME NEW t \in Thread, Acquire(t) PROVE FreshInv'
  <2>1. idle' = 0 /\ UNCHANGED <<due, mishaps>>
    BY <1>5 DEF Acquire
  <2>2. at'[Main] = "sleeps" => at[Main] = "sleeps" /\ left'[Main] = left[Main]
    BY <1>5, <1>m DEF Acquire, Goes, Counts
  <2>3. QED
    BY <1>t, <1>h, <2>1, <2>2 DEF FreshInv
<1>6. ASSUME NEW t \in Thread, GiveUp(t) \/ Release(t) PROVE FreshInv'
  <2>1. UNCHANGED <<left, due, idle>> /\ lock' \in {lock, NONE}
    BY <1>6 DEF GiveUp, Release, countVars
  <2>2. CASE t # Main
    <3>1. at'[Main] = at[Main]
      BY <1>6, <1>m, <2>2 DEF GiveUp, Release, Returns, Goes
    <3>2. QED
      BY <1>t, <1>h, <2>1, <3>1 DEF FreshInv
  <2>3. CASE t = Main
    <3>1. at'[Main] = "plans"
      BY <1>6, <1>m, <2>3 DEF GiveUp, Release, Returns, Goes
    <3>2. idle <= CycleMax
      BY <1>6, <1>m, <2>3 DEF GiveUp, Waits, Release, FreshInv
    <3>3. QED
      BY <1>t, <1>h, <2>1, <3>1, <3>2 DEF FreshInv
  <2>4. QED
    BY <2>2, <2>3
<1>7. CASE CycleStep \/ CycleFault
  BY <1>7, <1>f
  DEF CycleStep, CycleFault, SyncAndParse, Snapshot, RecordVersion, SyncFails, SnapshotFails,
      threadVars, countVars
<1>8. CASE Tick
  <2>1. UNCHANGED <<at, lock>> /\ idle' = idle + 1 /\ AllWait
        /\ left'[Main] = OneLess(left[Main])
        /\ due' = IF at[Main] = "sleeps" THEN due - 1 ELSE due
    BY <1>8, <1>m DEF Tick
  <2>2. lock # NONE => idle + 1 <= CycleMax
    BY <1>t, <2>1 DEF AllWait
  <2>3. at[Main] # "plans"
    BY <2>1 DEF AllWait
  <2>4. at[Main] = "waits" => lock # NONE
    BY <1>m, <2>1 DEF AllWait, Waits
  <2>5. at[Main] = "sleeps" => left[Main] > 0 /\ left'[Main] = left[Main] - 1
    BY <1>t, <1>m, <2>1 DEF AllWait, OneLess
  <2>6. lock = NONE => at[Main] = "sleeps"
    BY <1>m, <2>1, <2>4 DEF AllWait, OneCycle
  <2>7. idle' <= Horizon
    BY <1>t, <1>h, <1>m, <2>1, <2>2, <2>5, <2>6 DEF FreshInv
  <2>8. QED
    BY <1>t, <1>h, <1>m, <2>1, <2>2, <2>3, <2>4, <2>5, <2>7 DEF FreshInv
<1>9. ASSUME NEW by \in {Shift, -Shift}, SetClock(by) PROVE FreshInv'
  <2>1. Horizon' = Horizon + Shift
    BY <1>9, HorizonGrows DEF SetClock, Mishap, TypeInv
  <2>2. UNCHANGED <<lock, at, left, idle>>
        /\ due' = (IF at[Main] = "sleeps" THEN due - by ELSE due)
    BY <1>9 DEF SetClock
  <2>3. at[Main] = "sleeps" => due' <= due + Shift
    BY <1>t, <2>2
  <2>4. QED
    BY <1>t, <1>h, <2>1, <2>2, <2>3 DEF FreshInv
<1>10. CASE Crash
  <2>1. at'[Main] = "boot" /\ lock' = NONE /\ idle' = idle
    BY <1>10, <1>m DEF Crash
  <2>2. QED
    BY <1>t, <1>h, <2>1 DEF FreshInv
<1>11. CASE PullShot \/ Flash \/ UNCHANGED vars
  BY <1>11, <1>f DEF PullShot, Flash, vars, threadVars, countVars
<1>12. QED
  BY <1>1, <1>2, <1>3, <1>4, <1>5, <1>6, <1>7, <1>8, <1>9, <1>10, <1>11
  DEF Next, LoopStep, LockStep, WaitEnds, World

\* The archive never goes without a cycle for longer than from one slot to the
\* next, a cycle in the way, and what the clock was set by.
THEOREM NeverStale == ASSUME WaitsTry PROVE Spec => []Fresh
<1>1. Init => FreshInv
  <2> SUFFICES ASSUME Init PROVE FreshInv
    OBVIOUS
  <2>1. TypeOK
    BY TypeInit DEF TypeInv
  <2>2. idle = 0 /\ lock = NONE /\ at[Main] = "boot"
    BY DEF Init, Thread
  <2>3. QED
    BY <2>1, <2>2, HorizonGrows DEF FreshInv
<1>2. TypeOK /\ FreshInv => Fresh
  BY HorizonGrows, TimesTyped, MaxGapIs DEF TypeOK, FreshInv, Fresh, Horizon
<1>3. TInv /\ TypeInv => OneCycle /\ TypeOK
  BY DEF TInv, TypeInv
<1>4. TypeInv /\ OneCycle /\ FreshInv /\ [Next]_vars => FreshInv'
  BY WaitsTry, FreshStep
<1>5. QED
  BY TypeInit, TypeStep, TInvInit, TInvStep, <1>1, <1>2, <1>3, <1>4, PTL DEF Spec
=============================================================================
