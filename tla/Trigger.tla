------------------------------ MODULE Trigger ------------------------------
(***************************************************************************)
(* Who runs a cycle, and when: the scheduled loop of daemon.run, the POST  *)
(* /sync handler threads (an iPhone button, sync_now of the MCP server),   *)
(* the one lock between them, and the day's profile snapshot that closes a *)
(* cycle.  What sync, parse and phase 2 do is in Cycle; here a cycle is    *)
(* the shot it archives, its outcome and the time it takes.                *)
(*                                                                         *)
(* Time goes in ticks.  Whatever waits holds the ticks it has left, not a  *)
(* deadline, so that behaviours need no last day.  A handler thread goes   *)
(* on when its client has stopped listening (sync_now does after 180 s);   *)
(* asking again is a press of another thread.  The day of the snapshot is  *)
(* UTC's; here both days begin at the same tick.                           *)
(***************************************************************************)
EXTENDS Integers, FiniteSetsExt

CONSTANTS
  Press,       \* handler threads of the listener
  Day,         \* ticks in a day
  Slots,       \* SYNC_SCHEDULE: ticks of the local day
  RunOnStart,  \* RUN_ON_START
  PressWait,   \* cycle_locked's default: how long a press waits for the lock
  SlotWait,    \* how long a due slot waits for the lock
  NapMax,      \* the longest sleep of the loop between two looks at the clock
  CycleMax,    \* ticks a cycle can take
  Shift,       \* ticks by which the local clock is set
  MaxMishaps,  \* failed cycles, crashes and settings of the clock, in a behaviour
  NONE

ASSUME TimesTyped ==
  /\ Day \in Nat \ {0} /\ NapMax \in Nat \ {0} /\ CycleMax \in Nat
  /\ PressWait \in Nat /\ SlotWait \in Nat /\ Shift \in Nat
  /\ MaxMishaps \in Nat
  /\ Slots \subseteq 0..(Day - 1) /\ Slots # {}
  /\ RunOnStart \in BOOLEAN

Main == "main"
Thread == Press \cup {Main}
CycleSteps == {"sync", "profiles", "ledger", "ends"}

ASSUME ThreadsApart == Main \notin Press /\ NONE \notin Thread \cup CycleSteps

VARIABLES
  clock,     \* local time of day
  repeated,  \* ticks of the day that will come a second time (clock set back)
  lock,      \* _cycle_lock: the thread that holds it
  at,        \* where each thread is
  left,      \* ticks left: of a wait for the lock, or of the loop's nap
  due,       \* ticks until the loop's target; negative when overslept
  step,      \* where the running cycle is
  ok,        \* out["ok"] of the cycle
  shot,      \* the device holds a shot that is not archived
  wanted,    \* presses made while it did
  fw,        \* firmware version of the device
  ota,       \* the version profiles.run was told
  ledger,    \* manifest.device: the version on record
  snapped,   \* today's snapshot file exists
  idle,      \* ticks since a cycle last began (history)
  mishaps    \* so far

timeVars == <<clock, repeated>>
threadVars == <<lock, at, left, due>>
cycleVars == <<step, ok, shot, wanted>>
profileVars == <<fw, ota, ledger, snapped>>
countVars == <<idle, mishaps>>
vars == <<timeVars, threadVars, cycleVars, profileVars, countVars>>

Version == {"old", "new"}

-----------------------------------------------------------------------------
\* next_run: the first slot of today after now, else the first of tomorrow,
\* as ticks from now.
NextRunTomorrow(now) == Min(Slots) + Day - now
NextRun(now) ==
  LET later == {s \in Slots : s > now}
  IN  IF later # {} THEN Min(later) - now ELSE Min(Slots) + Day - now

Goes(t, place) == at' = [at EXCEPT ![t] = place]
Counts(t, ticks) == left' = [left EXCEPT ![t] = ticks]
Mishap == mishaps < MaxMishaps /\ mishaps' = mishaps + 1
Waits(t) == at[t] = "waits"

\* The loop sleeps until its target in pieces.
NapToTarget(remaining) == Counts(Main, remaining)
Nap(remaining) == Counts(Main, Min({remaining, NapMax}))

\* run: the listener is up; then the cycle on start, if any.
Boot ==
  /\ at[Main] = "boot"
  /\ Goes(Main, IF RunOnStart THEN "waits" ELSE "plans")
  /\ Counts(Main, PressWait)
  /\ UNCHANGED <<timeVars, lock, due, cycleVars, profileVars, countVars>>

Plan ==
  /\ at[Main] = "plans" /\ Goes(Main, "sleeps")
  /\ due' = NextRun(clock) /\ Nap(due')
  /\ UNCHANGED <<timeVars, lock, cycleVars, profileVars, countVars>>

\* The nap is over and the target is not reached, or it is.
LookSleepsOn ==
  /\ at[Main] = "sleeps" /\ left[Main] = 0
  /\ \/ due # 0 /\ Nap(due) /\ UNCHANGED at
     \/ due = 0 /\ Goes(Main, "waits") /\ Counts(Main, SlotWait)
  /\ UNCHANGED <<timeVars, lock, due, cycleVars, profileVars, countVars>>
Look ==
  /\ at[Main] = "sleeps" /\ left[Main] = 0
  /\ \/ due > 0 /\ Nap(due) /\ UNCHANGED at
     \/ due <= 0 /\ Goes(Main, "waits") /\ Counts(Main, SlotWait)
  /\ UNCHANGED <<timeVars, lock, due, cycleVars, profileVars, countVars>>

\* do_POST, authorized and on the right path.
PressArrives(p) ==
  /\ at[p] = "idle" /\ at[Main] # "boot"
  /\ Goes(p, "waits") /\ Counts(p, PressWait)
  /\ wanted' = IF shot THEN wanted \cup {p} ELSE wanted
  /\ UNCHANGED <<timeVars, lock, due, step, ok, shot, profileVars, countVars>>

\* The lock goes to any thread that waits for it: it keeps no queue.
AcquireAnyway(t) ==
  /\ Waits(t)
  /\ lock' = t /\ Goes(t, "runs") /\ Counts(t, 0)
  /\ step' = "sync" /\ ok' = TRUE /\ idle' = 0
  /\ UNCHANGED <<timeVars, due, shot, wanted, profileVars, mishaps>>
Acquire(t) ==
  /\ Waits(t) /\ lock = NONE
  /\ lock' = t /\ Goes(t, "runs") /\ Counts(t, 0)
  /\ step' = "sync" /\ ok' = TRUE /\ idle' = 0
  /\ UNCHANGED <<timeVars, due, shot, wanted, profileVars, mishaps>>

\* The loop plans its next slot; a press replies and its thread ends.
ReturnsUnlessFailed(t) ==
  /\ Goes(t, IF t # Main THEN "idle" ELSE IF ok THEN "plans" ELSE "exited")
  /\ wanted' = wanted \ {t}
Returns(t) == Goes(t, IF t = Main THEN "plans" ELSE "idle") /\ wanted' = wanted \ {t}

\* cycle_locked returns None: a press is told 503.
GiveUpSlot(t) ==
  /\ t = Main /\ Waits(t) /\ left[t] = 0
  /\ Returns(t)
  /\ UNCHANGED <<timeVars, lock, left, due, step, ok, shot, profileVars, countVars>>
GiveUp(t) ==
  /\ Waits(t) /\ left[t] = 0
  /\ Returns(t)
  /\ UNCHANGED <<timeVars, lock, left, due, step, ok, shot, profileVars, countVars>>

\* The lock is released; a press gets the summary, as 200 or 500.
Release(t) ==
  /\ lock = t /\ step = "ends"
  /\ lock' = NONE /\ step' = NONE /\ ok' = TRUE
  /\ Returns(t)
  /\ UNCHANGED <<timeVars, left, due, shot, profileVars, countVars>>

-----------------------------------------------------------------------------
\* Sync reads the index and archives what it lists.
SyncAndParse ==
  /\ step = "sync" /\ step' = "profiles"
  /\ shot' = FALSE /\ wanted' = {}
  /\ UNCHANGED <<timeVars, threadVars, ok, profileVars, countVars>>

\* Sync raises, or parse after it: the cycle goes on, not ok.
SyncFailsSilently ==
  /\ step = "sync" /\ step' = "profiles"
  /\ \/ UNCHANGED <<shot, wanted>>
     \/ shot' = FALSE /\ wanted' = {}
  /\ Mishap
  /\ UNCHANGED <<timeVars, threadVars, ok, profileVars, idle>>
SyncFails ==
  /\ step = "sync" /\ step' = "profiles"
  /\ \/ UNCHANGED <<shot, wanted>>
     \/ shot' = FALSE /\ wanted' = {}
  /\ ok' = FALSE
  /\ Mishap
  /\ UNCHANGED <<timeVars, threadVars, profileVars, idle>>

\* profiles.run skips when today's file exists; else it asks the device for
\* profiles and versions and writes the file ...
Snapshot ==
  /\ step = "profiles"
  /\ \/ snapped /\ step' = "ends" /\ UNCHANGED <<ota, snapped>>
     \/ ~snapped /\ step' = "ledger" /\ ota' = fw /\ snapped' = TRUE
  /\ UNCHANGED <<timeVars, threadVars, ok, shot, wanted, fw, ledger, countVars>>

\* ... and records a changed version in the manifest.
RecordVersion ==
  /\ step = "ledger" /\ step' = "ends"
  /\ ledger' = ota /\ ota' = NONE
  /\ UNCHANGED <<timeVars, threadVars, ok, shot, wanted, fw, snapped, countVars>>

\* The device does not answer; or the manifest cannot be loaded or saved, and
\* the file for today is already there.
SnapshotFails ==
  /\ \/ step = "profiles" /\ ~snapped
     \/ step = "ledger"
  /\ step' = "ends" /\ ok' = FALSE /\ ota' = NONE
  /\ Mishap
  /\ UNCHANGED <<timeVars, threadVars, shot, wanted, fw, ledger, snapped, idle>>

-----------------------------------------------------------------------------
\* Time stands still while somebody can act at once.
AllWait ==
  /\ at[Main] \in {"sleeps", "waits", "runs"}
  /\ at[Main] = "sleeps" => left[Main] > 0
  /\ \A t \in Thread : Waits(t) => lock # NONE /\ left[t] > 0
  /\ lock # NONE => idle < CycleMax

OneLess(n) == IF n = 0 THEN 0 ELSE n - 1

\* At midnight today's snapshot becomes another file.
SnappedEver(now) == snapped
SnappedToday(now) == snapped /\ now # 0

Tick ==
  /\ AllWait
  /\ clock' = (clock + 1) % Day
  /\ repeated' = OneLess(repeated)
  /\ snapped' = SnappedToday(clock')
  /\ left' = [t \in Thread |-> OneLess(left[t])]
  /\ due' = IF at[Main] = "sleeps" THEN due - 1 ELSE due
  /\ idle' = idle + 1
  /\ UNCHANGED <<lock, at, cycleVars, fw, ota, ledger, mishaps>>

\* Daylight saving sets the local clock.  time.sleep goes by another clock.
SetClock(by) ==
  /\ Mishap /\ repeated = 0
  /\ clock + by \in 0..(Day - 1)
  /\ clock' = clock + by
  /\ repeated' = IF by < 0 THEN -by ELSE 0
  /\ due' = IF at[Main] = "sleeps" THEN due - by ELSE due
  /\ UNCHANGED <<lock, at, left, cycleVars, profileVars, idle>>

PullShot ==
  /\ ~shot /\ shot' = TRUE
  /\ UNCHANGED <<timeVars, threadVars, step, ok, wanted, profileVars, countVars>>

Flash ==
  /\ fw = "old" /\ fw' = "new"
  /\ UNCHANGED <<timeVars, threadVars, cycleVars, ota, ledger, snapped, countVars>>

\* The daemon dies and the container restarts it; clients lose their connection.
Crash ==
  /\ Mishap
  /\ lock' = NONE /\ step' = NONE /\ ok' = TRUE /\ ota' = NONE /\ wanted' = {}
  /\ at' = [t \in Thread |-> IF t = Main THEN "boot" ELSE "idle"]
  /\ left' = [t \in Thread |-> 0] /\ due' = 0
  /\ UNCHANGED <<timeVars, shot, fw, ledger, snapped, idle>>

-----------------------------------------------------------------------------
Init ==
  /\ clock = 0 /\ repeated = 0
  /\ lock = NONE /\ due = 0
  /\ at = [t \in Thread |-> IF t = Main THEN "boot" ELSE "idle"]
  /\ left = [t \in Thread |-> 0]
  /\ step = NONE /\ ok = TRUE /\ shot = FALSE /\ wanted = {}
  /\ fw = "old" /\ ota = NONE /\ ledger = "old" /\ snapped = FALSE
  /\ idle = 0 /\ mishaps = 0

LoopStep == Boot \/ Plan \/ Look
LockStep == \E t \in Thread : Acquire(t) \/ Release(t)
WaitEnds == \E t \in Thread : GiveUp(t)
CycleStep == SyncAndParse \/ Snapshot \/ RecordVersion
CycleFault == SyncFails \/ SnapshotFails
World == PullShot \/ Flash \/ SetClock(Shift) \/ SetClock(-Shift)

Next ==
  \/ LoopStep \/ LockStep \/ WaitEnds \/ CycleStep \/ CycleFault \/ Crash
  \/ \E p \in Press : PressArrives(p)
  \/ Tick \/ World

Spec == Init /\ [][Next]_vars

\* Threads run, cycles end, time passes.  Presses can take the lock again and
\* again within a tick, so time needs the stronger form.
Fairness ==
  /\ WF_vars(LoopStep) /\ WF_vars(LockStep \/ CycleStep)
  /\ \A t \in Thread : WF_vars(GiveUp(t))
  /\ SF_vars(Tick)

FairSpec == Spec /\ Fairness

-----------------------------------------------------------------------------
\* Every variable keeps its type; in particular no wait is ever negative.
TypeOK ==
  /\ clock \in 0..(Day - 1) /\ repeated \in 0..Shift
  /\ lock \in Thread \cup {NONE}
  /\ at \in [Thread -> {"boot", "plans", "sleeps", "waits", "runs", "idle"}]
  /\ left \in [Thread -> Nat] /\ due \in Int
  /\ step \in CycleSteps \cup {NONE}
  /\ ok \in BOOLEAN /\ shot \in BOOLEAN /\ wanted \subseteq Press
  /\ {fw, ledger} \subseteq Version /\ ota \in Version \cup {NONE} /\ snapped \in BOOLEAN
  /\ idle \in Nat /\ mishaps \in 0..MaxMishaps

\* "One cycle at a time, whoever asks" (daemon.py:27): a cycle runs in the one
\* thread that holds the lock, and no lock is held without one.
OneCycle ==
  /\ \A t \in Thread : at[t] = "runs" <=> lock = t
  /\ step # NONE <=> lock # NONE

\* The longest way from a slot to the next one.
MaxGap == Max({Min({((s - r + Day - 1) % Day) + 1 : s \in Slots}) : r \in Slots})

\* From the start of one cycle to the start of the next, well or ill, never more
\* time passes than from one slot to the next, a cycle in the way, and what the
\* clock was set by: neither a slot given up while presses kept the lock, nor a
\* slot slept through, nor a restart loses more.
Fresh == idle <= MaxGap + CycleMax + MaxMishaps * Shift

\* The loop never sleeps past a slot: there is none between now and its target
\* (unless the clock was set back and slots come again), and past its target it
\* sleeps no longer than one nap, however the clock is set (daemon.py:115-122).
SlotsHeeded ==
  at[Main] = "sleeps" =>
    /\ due <= 0 => left[Main] <= NapMax
    /\ repeated = 0 => \A k \in 1..(due - 1) : (clock + k) % Day \notin Slots

\* A press that is answered 200 has its shot archived: the shot the device held
\* when it was made, by this cycle or by one it waited for (sync_api.py:48-52).
AnswersCover == [][\A p \in Press : Release(p) /\ ok => p \notin wanted]_vars

\* Every press is answered, with a summary or a 503, however others compete for
\* the lock (sync_api.py:48-52), or loses its daemon.
EveryPressEnds == \A p \in Press : at[p] = "waits" ~> at[p] = "idle"

\* New firmware reaches the ledger, even when the snapshot of the day was taken
\* before it or the ledger was not saved after the file (profiles.py:51-85).
VersionsCatchUp == fw = "new" ~> ledger = "new"

\* A shot on the device is archived, by a slot or a press: a failed cycle is
\* followed by another one ("the daemon never exits on a cycle failure",
\* daemon.py:8).
ShotsCatchUp == shot ~> ~shot
=============================================================================
