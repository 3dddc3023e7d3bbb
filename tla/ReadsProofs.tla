---------------------------- MODULE ReadsProofs ----------------------------
(***************************************************************************)
(* What the archive server answers is right for every log that the tools   *)
(* can have written, of any length and logged in any order.                *)
(***************************************************************************)
EXTENDS Reads, OrderLemmas

LogsTyped ==
  /\ prep \in Seq([at : Instant, settings : SUBSET Setting])
  /\ beans \in Seq(Date) /\ snaps \in Seq(Definitions \cup {ABSENT})

LEMMA LogEntries ==
  ASSUME NEW S, NEW log \in Seq(S)
  PROVE  Len(log) \in Nat /\ DOMAIN log = 1..Len(log) /\ \A i \in DOMAIN log : i \in Nat /\ log[i] \in S
OBVIOUS

LEMMA PrepEntries ==
  ASSUME LogsTyped, NEW i \in DOMAIN prep PROVE i \in Nat /\ prep[i].at \in Instant
<1>1. i \in Nat /\ prep[i] \in [at : Instant, settings : SUBSET Setting]
  BY LogEntries DEF LogsTyped
<1>2. QED
  BY <1>1

\* Then entries are read by time, and by logging.
LEMMA SortedByTime ==
  ASSUME TextOrder, LogsTyped, NEW i \in DOMAIN prep, NEW j \in DOMAIN prep
  PROVE  SortsBefore(i, j) <=> prep[i].at < prep[j].at \/ (prep[i].at = prep[j].at /\ i < j)
<1> DEFINE a == prep[i].at
           b == prep[j].at
<1>1. a \in Instant /\ b \in Instant /\ i \in Nat /\ j \in Nat
  BY PrepEntries
<1>2. \A x \in Instant : x \in Int /\ Local(x) \in Int /\ Offset[x] \in Int
  BY ReadsTyped DEF Instant, Local
<1> HIDE DEF a, b
<1>3. \A x, y \in Int : OffsetTextBefore(x, y) => ~OffsetTextBefore(y, x) /\ x # y
  BY DEF OffsetTextBefore
<1>4. CASE a < b
  <2>1. Local(a) < Local(b) \/ (Local(a) = Local(b) /\ OffsetTextBefore(Offset[a], Offset[b]))
    BY <1>1, <1>4 DEF TextOrder
  <2>2. QED
    BY <1>4, <2>1 DEF SortsBefore, a, b
<1>5. CASE b < a
  <2>1. Local(b) < Local(a) \/ (Local(b) = Local(a) /\ OffsetTextBefore(Offset[b], Offset[a]))
    BY <1>1, <1>5 DEF TextOrder
  <2>2. ~SortsBefore(i, j)
    BY <1>1, <1>2, <1>3, <2>1 DEF SortsBefore, a, b
  <2>3. ~(a < b) /\ a # b
    BY <1>1, <1>2, <1>5
  <2>4. QED
    BY <2>2, <2>3 DEF a, b
<1>6. CASE a = b
  <2>1. SortsBefore(i, j) <=> i < j
    BY <1>1, <1>2, <1>3, <1>6 DEF SortsBefore, a, b
  <2>2. ~(a < b)
    BY <1>1, <1>2, <1>6
  <2>3. QED
    BY <1>6, <2>1, <2>2 DEF a, b
<1>7. QED
  BY <1>1, <1>2, <1>4, <1>5, <1>6

LEMMA ReadIs ==
  ASSUME TextOrder, LogsTyped, NEW ts \in Instant
  PROVE  Read(ts) = {i \in DOMAIN prep : prep[i].at <= ts}
<1>1. ASSUME NEW i \in DOMAIN prep, NEW j \in DOMAIN prep, prep[i].at <= ts, SortsBefore(j, i)
      PROVE  prep[j].at <= ts
  <2>1. prep[i].at \in Instant /\ prep[j].at \in Instant
    BY PrepEntries
  <2>2. prep[j].at <= prep[i].at
    <3>1. \A x, y \in Instant : x < y \/ x = y => x <= y
      BY ReadsTyped DEF Instant
    <3>2. prep[j].at < prep[i].at \/ prep[j].at = prep[i].at
      BY <1>1, SortedByTime
    <3>3. QED
      BY <2>1, <3>1, <3>2
  <2>3. QED
    BY <1>1, <2>1, <2>2, ReadsTyped DEF Instant
<1>2. QED
  BY <1>1 DEF Read

LEMMA PrepSticks == ASSUME TextOrder, LogsTyped PROVE PrepIsSticky
<1> SUFFICES ASSUME NEW ts \in Instant, NEW setting \in Setting
    PROVE LET said == {i \in DOMAIN prep : prep[i].at <= ts /\ setting \in prep[i].settings}
              i == PrepAt(ts, setting)
          IN  IF said = {} THEN i = 0
              ELSE i \in said /\ \A j \in said \ {i} :
                     prep[j].at < prep[i].at \/ (prep[j].at = prep[i].at /\ j < i)
  BY DEF PrepIsSticky
<1> DEFINE said == {i \in DOMAIN prep : prep[i].at <= ts /\ setting \in prep[i].settings}
           mark == [i \in DOMAIN prep |-> prep[i].at]
           Last(i) == \A j \in said \ {i} : SortsBefore(j, i)
<1>2. ASSUME NEW i \in said
      PROVE  Last(i) <=> \A j \in said \ {i} : prep[j].at < prep[i].at \/ (prep[j].at = prep[i].at /\ j < i)
  BY SortedByTime
<1>3. said # {} => \E i \in said : Latest(said, mark, i)
  <2>1. Len(prep) \in Nat /\ DOMAIN prep = 1..Len(prep)
    BY DEF LogsTyped
  <2>2. said \subseteq 0..Len(prep)
    BY <2>1
  <2>3. \A i \in said : mark[i] \in 0..LastInstant
    BY PrepEntries DEF Instant
  <2> HIDE DEF said, mark
  <2>4. QED
    BY <2>1, <2>2, <2>3, LatestExists, ReadsTyped
<1>4. said # {} => \E i \in said : Last(i)
  BY <1>2, <1>3 DEF Latest
<1> DEFINE found == {i \in Read(ts) : setting \in prep[i].settings}
<1>5. found = said
  BY ReadIs
<1>6. /\ found = {} => PrepAt(ts, setting) = 0
      /\ (\E i \in found : \A j \in found \ {i} : SortsBefore(j, i)) =>
           /\ PrepAt(ts, setting) \in found
           /\ \A j \in found \ {PrepAt(ts, setting)} : SortsBefore(j, PrepAt(ts, setting))
  BY DEF PrepAt
<1> HIDE DEF found
<1>7. said = {} => PrepAt(ts, setting) = 0
  BY <1>5, <1>6
<1>8. said # {} => PrepAt(ts, setting) \in said /\ Last(PrepAt(ts, setting))
  BY <1>4, <1>5, <1>6
<1>9. QED
  BY <1>2, <1>7, <1>8

-----------------------------------------------------------------------------
\* The lot of a date is the latest one started by then, by start and by logging.
LEMMA LotIs ==
  ASSUME NEW log \in Seq(Date), NEW date \in Date
  PROVE  LET started == {i \in DOMAIN log : log[i] <= date}
         IN  /\ started = {} => BeansAt(log, date) = 0
             /\ started # {} => Latest(started, log, BeansAt(log, date))
<1> DEFINE started == {i \in DOMAIN log : log[i] <= date}
<1>1. /\ started = {} => BeansAt(log, date) = 0
      /\ (\E i \in started : \A j \in started \ {i} : log[j] < log[i] \/ (log[j] = log[i] /\ j < i)) =>
           Latest(started, log, BeansAt(log, date))
  BY DEF BeansAt, Latest
<1>2. started # {} => \E i \in started : Latest(started, log, i)
  <2>1. Len(log) \in Nat /\ started \subseteq 0..Len(log) /\ \A i \in started : log[i] \in 0..LastDate
    <3>1. Len(log) \in Nat /\ DOMAIN log = 1..Len(log) /\ \A i \in DOMAIN log : log[i] \in Date
      BY LogEntries
    <3>2. QED
      BY <3>1 DEF Date
  <2> HIDE DEF started
  <2>2. QED
    BY <2>1, LatestExists, ReadsTyped
<1>3. QED
  BY <1>1, <1>2 DEF Latest

\* A lot that is logged is that of the dates from its start to the next one.
LEMMA LotRuns ==
  ASSUME NEW log \in Seq(Date), NEW start \in Date, NEW date \in Date
  PROVE  LET next == {i \in DOMAIN log : log[i] > start /\ log[i] <= date}
             new == Append(log, start)
         IN  BeansAt(new, date) = IF start <= date /\ next = {} THEN Len(new) ELSE BeansAt(log, date)
<1> DEFINE n == Len(log)
           new == Append(log, start)
           S == {i \in DOMAIN log : log[i] <= date}
           T == {i \in DOMAIN new : new[i] <= date}
           next == {i \in DOMAIN log : log[i] > start /\ log[i] <= date}
           b == BeansAt(log, date)
           c == BeansAt(new, date)
<1>1. /\ n \in Nat /\ DOMAIN log = 1..n /\ \A i \in 1..n : log[i] \in Date
      /\ new \in Seq(Date) /\ DOMAIN new = 1..(n + 1) /\ Len(new) = n + 1
      /\ new[n + 1] = start /\ \A i \in 1..n : new[i] = log[i]
  OBVIOUS
<1>2. Date \subseteq Int /\ start \in Int /\ date \in Int
  BY ReadsTyped DEF Date
<1>3. (S = {} => b = 0) /\ (S # {} => Latest(S, log, b))
  BY LotIs
<1>4. (T = {} => c = 0) /\ (T # {} => Latest(T, new, c))
  BY <1>1, LotIs
<1> HIDE DEF new, b, c
<1>5. S \subseteq 1..n /\ T \subseteq 1..(n + 1) /\ S \subseteq T /\ T \subseteq S \cup {n + 1}
      /\ (n + 1 \in T <=> start <= date)
  BY <1>1
<1>6. \A i \in T : new[i] \in Int
  <2>1. ASSUME NEW i \in 1..(n + 1) PROVE new[i] \in Int
    <3>1. i \in 1..n \/ i = n + 1
      BY <1>1
    <3>2. QED
      BY <1>1, <1>2, <3>1
  <2>2. QED
    BY <1>5, <2>1
<1>7. ASSUME NEW i, Latest(T, new, i) PROVE c = i
  <2>1. T # {} /\ T \subseteq Nat
    BY <1>1, <1>5, <1>7 DEF Latest
  <2>2. Latest(T, new, c)
    BY <1>4, <2>1
  <2> HIDE DEF T
  <2>3. QED
    BY <1>6, <1>7, <2>1, <2>2, LatestIsOne
<1>8. ASSUME S # {}, start <= date => start < log[b] PROVE c = b
  <2>1. Latest(S, log, b) /\ b \in 1..n
    BY <1>3, <1>5, <1>8 DEF Latest
  <2>2. ASSUME NEW j \in T \ {b} PROVE new[j] < new[b] \/ (new[j] = new[b] /\ j < b)
    <3>1. CASE j \in S
      BY <1>1, <1>5, <2>1, <3>1 DEF Latest
    <3>2. CASE j = n + 1
      BY <1>1, <1>5, <1>8, <2>1, <3>2
    <3>3. QED
      BY <1>5, <3>1, <3>2
  <2>3. Latest(T, new, b)
    BY <1>5, <2>1, <2>2 DEF Latest
  <2>4. QED
    BY <1>7, <2>3
<1>9. CASE start <= date /\ next = {}
  <2>1. ASSUME NEW j \in T \ {n + 1} PROVE new[j] < start \/ (new[j] = start /\ j < n + 1)
    <3>1. j \in S /\ j \in 1..n /\ log[j] \in Int /\ new[j] = log[j]
      BY <1>1, <1>2, <1>5
    <3>2. ~(log[j] > start)
      BY <1>1, <1>9, <3>1
    <3>3. QED
      BY <1>1, <1>2, <3>1, <3>2
  <2>2. Latest(T, new, n + 1)
    BY <1>1, <1>5, <1>9, <2>1 DEF Latest
  <2>3. QED
    BY <1>1, <1>7, <1>9, <2>2 DEF c, new
<1>10. CASE start <= date /\ next # {}
  <2>1. PICK k \in next : TRUE
    BY <1>10
  <2>2. k \in S /\ log[k] > start /\ log[k] \in Int
    BY <1>1, <1>2, <2>1
  <2>3. Latest(S, log, b) /\ log[b] \in Int
    BY <1>1, <1>2, <1>3, <1>5, <2>2 DEF Latest
  <2>4. start < log[b]
    BY <1>2, <2>2, <2>3 DEF Latest
  <2>5. QED
    BY <1>8, <1>10, <2>2, <2>4 DEF b, c, new
<1>11. CASE ~(start <= date)
  <2>1. CASE S = {}
    <3>1. T = {}
      BY <1>5, <1>11, <2>1
    <3>2. QED
      BY <1>3, <1>4, <1>11, <2>1, <3>1 DEF b, c, new
  <2>2. CASE S # {}
    BY <1>8, <1>11, <2>2 DEF b, c, new
  <2>3. QED
    BY <2>1, <2>2
<1>12. QED
  BY <1>9, <1>10, <1>11

-----------------------------------------------------------------------------
\* The latest of some days of which there is one.
LEMMA LatestDay ==
  ASSUME LogsTyped, NEW D, D \subseteq Present, D # {} PROVE \E d \in D : \A e \in D : e <= d
<1>1. Len(snaps) \in Nat /\ D \subseteq 0..Len(snaps)
  BY LogEntries DEF LogsTyped, Present
<1>2. QED
  BY <1>1, GreatestNatural

\* What the changes tell of a day.
Told(day) ==
  LET since == {d \in Changed : d <= day}
  IN  since # {} /\ \A d \in since : (\A e \in since : e <= d) => snaps[d] = snaps[day]

\* A day without a change is told what the day before it was told.
LEMMA HistoryTold == ASSUME LogsTyped PROVE HistoryTells
<1>1. Present \subseteq Nat
  BY LogEntries DEF LogsTyped, Present
<1> DEFINE wrong == {day \in Present : ~Told(day)}
<1>2. ASSUME NEW day \in Present, \A e \in Present : e < day => Told(e) PROVE Told(day)
  <2>1. CASE day \in Changed
    <3>1. ASSUME NEW d \in Changed, d <= day, \A e \in Changed : e <= day => e <= d PROVE d = day
      BY <1>1, <2>1, <3>1 DEF Changed
    <3>2. day <= day
      BY <1>1
    <3>3. QED
      BY <2>1, <3>1, <3>2 DEF Told
  <2>2. CASE day \notin Changed
    <3>1. PICK e \in LastBefore(day) : snaps[e] = snaps[day]
      BY <2>2 DEF Changed
    <3>2. e \in Present /\ e < day /\ \A x \in Present : x < day => x <= e
      BY <3>1 DEF LastBefore
    <3>3. Told(e)
      BY <1>2, <3>2
    <3>4. ASSUME NEW x \in Changed PROVE x <= day <=> x <= e
      BY <1>1, <2>2, <3>2 DEF Changed
    <3>5. {x \in Changed : x <= day} = {x \in Changed : x <= e}
      BY <3>4
    <3>6. QED
      BY <3>1, <3>3, <3>5 DEF Told
  <2>3. QED
    BY <2>1, <2>2
<1>3. wrong = {}
  <2> SUFFICES ASSUME wrong # {} PROVE FALSE
    OBVIOUS
  <2>1. PICK day \in wrong : \A x \in wrong : day <= x
    BY <1>1, LeastNatural
  <2>2. \A e \in Present : e < day => Told(e)
    BY <1>1, <2>1
  <2>3. QED
    BY <1>2, <2>1, <2>2
<1>4. QED
  BY <1>3 DEF HistoryTells, Told
=============================================================================
