------------------------------- MODULE Reads --------------------------------
(***************************************************************************)
(* What the archive server answers from its logs and from the manifest.    *)
(* log_prep and log_beans append to meta/prep.jsonl and meta/beans.jsonl;  *)
(* prep_at and beans_at say which entry was in force at a shot.  Values    *)
(* are the place of their entry in the log: 0 is the default, or nothing.  *)
(***************************************************************************)
EXTENDS Integers, Sequences

CONSTANTS
  LastInstant,  \* instants are 0 to this
  Offset,       \* the local offset from UTC at each instant
  LastDate,     \* dates are 0 to this
  Definitions,  \* definitions a profile can have
  MaxEntries,   \* entries of the logs and snapshots, in a behaviour
  ABSENT        \* the profile is not in a snapshot

Instant == 0..LastInstant
Date == 0..LastDate

ASSUME ReadsTyped ==
  /\ LastInstant \in Nat /\ LastDate \in Nat /\ MaxEntries \in Nat
  /\ Offset \in [Instant -> Int] /\ ABSENT \notin Definitions

Setting == {"grind", "dose"}

VARIABLES
  prep,   \* meta/prep.jsonl: since when, and which settings
  beans,  \* meta/beans.jsonl: start dates of lots
  snaps   \* profiles/<day>.json: a profile's definition in each

logVars == <<prep, beans, snaps>>

Logged == Len(prep) + Len(beans) + Len(snaps)

\* log_prep: at least one of grind and dose, effective now or in the past.
LogPrep(at, settings) ==
  /\ Logged < MaxEntries /\ settings # {}
  /\ prep' = Append(prep, [at |-> at, settings |-> settings])
  /\ UNCHANGED <<beans, snaps>>

LogBeans(start) ==
  /\ Logged < MaxEntries
  /\ beans' = Append(beans, start)
  /\ UNCHANGED <<prep, snaps>>

\* profiles.run, once a day.
TakeSnapshot(definition) ==
  /\ Logged < MaxEntries
  /\ snaps' = Append(snaps, definition)
  /\ UNCHANGED <<prep, beans>>

-----------------------------------------------------------------------------
\* Entries are sorted by effective_from as text: local time, then offset.
Local(at) == at + Offset[at]
OffsetTextBefore(a, b) ==
  IF a >= 0 THEN b < 0 \/ a < b ELSE b < a

\* Do texts sort like the instants they stand for?  They do while the offset
\* from UTC is the same, and west of Greenwich in the hour that comes twice.
TextOrder ==
  \A a, b \in Instant :
    a < b => \/ Local(a) < Local(b)
             \/ Local(a) = Local(b) /\ OffsetTextBefore(Offset[a], Offset[b])

SortsBefore(i, j) ==
  LET a == prep[i].at
      b == prep[j].at
  IN  \/ Local(a) < Local(b)
      \/ Local(a) = Local(b) /\ OffsetTextBefore(Offset[a], Offset[b])
      \/ Local(a) = Local(b) /\ Offset[a] = Offset[b] /\ i < j

\* prep_at reads them in that order, up to the first one after the shot ...
Read(ts) ==
  {i \in DOMAIN prep : prep[i].at <= ts /\ \A j \in DOMAIN prep : SortsBefore(j, i) => prep[j].at <= ts}

\* ... and keeps the last value of each setting.
PrepAtLatest(ts, setting) ==
  LET last == {i \in Read(ts) : \A j \in Read(ts) \ {i} : SortsBefore(j, i)}
  IN  IF \E i \in last : setting \in prep[i].settings THEN CHOOSE i \in last : TRUE ELSE 0
PrepAt(ts, setting) ==
  LET found == {i \in Read(ts) : setting \in prep[i].settings}
  IN  IF found = {} THEN 0 ELSE CHOOSE i \in found : \A j \in found \ {i} : SortsBefore(j, i)

\* beans_at: the last one, sorted by start date, that starts by the shot's date.
BeansLogged(log, date) ==
  LET started == {i \in DOMAIN log : log[i] <= date}
  IN  IF started = {} THEN 0 ELSE CHOOSE i \in started : \A j \in started \ {i} : j < i
BeansAt(log, date) ==
  LET started == {i \in DOMAIN log : log[i] <= date}
  IN  IF started = {} THEN 0
      ELSE CHOOSE i \in started : \A j \in started \ {i} :
             log[j] < log[i] \/ (log[j] = log[i] /\ j < i)

\* get_profile: a snapshot with the profile, and with another definition than
\* the last one before it that had the profile.
Present == {d \in DOMAIN snaps : snaps[d] # ABSENT}
FirstBefore(day) == {d \in Present : d < day /\ \A e \in Present : d <= e}
LastBefore(day) == {d \in Present : d < day /\ \A e \in Present : e < day => e <= d}
Changed == {d \in Present : \A e \in LastBefore(d) : snaps[e] # snaps[d]}

\* _manifest_rec: of the records with this id, that of the newest life.
OldestRec(records, id) ==
  LET lives == {s[1] : s \in {r \in records : r[2] = id}}
  IN  {<<life, id>> : life \in {l \in lives : \A m \in lives : l <= m}}
ManifestRec(records, id) ==
  LET lives == {s[1] : s \in {r \in records : r[2] = id}}
  IN  {<<life, id>> : life \in {l \in lives : \A m \in lives : m <= l}}

-----------------------------------------------------------------------------
\* Settings are sticky: at any shot each one has the value of the latest entry,
\* by time and then by logging, that says something of it, however late and out
\* of order it was logged (mcp_server.py:172-175, archive_read.py:58-78).
PrepIsSticky ==
  \A ts \in Instant, setting \in Setting :
    LET said == {i \in DOMAIN prep : prep[i].at <= ts /\ setting \in prep[i].settings}
        i == PrepAt(ts, setting)
    IN  IF said = {} THEN i = 0
        ELSE i \in said /\ \A j \in said \ {i} : prep[j].at < prep[i].at \/ (prep[j].at = prep[i].at /\ j < i)

\* A lot is that of "all shots from that date until the next lot"
\* (mcp_server.py:152-154), and logging it says nothing new of other shots.
LotRunsToNext ==
  [][\A start \in Date : LogBeans(start) =>
       \A date \in Date :
         LET next == {i \in DOMAIN beans : beans[i] > start /\ beans[i] <= date}
         IN  BeansAt(beans', date) = IF start <= date /\ next = {} THEN Len(beans') ELSE BeansAt(beans, date)
    ]_logVars

\* The dates at which a profile changed tell its definition on every day it was
\* there, even when it was away in between (archive_read.py:393-415).
HistoryTells ==
  \A day \in Present :
    LET since == {d \in Changed : d <= day}
    IN  /\ since # {}
        /\ \A d \in since : (\A e \in since : e <= d) => snaps[d] = snaps[day]
=============================================================================
