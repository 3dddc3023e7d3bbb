---------------------------- MODULE OrderLemmas ----------------------------
(***************************************************************************)
(* Facts about numbers and finite sets that the proofs of several          *)
(* components need: least and greatest elements, remainders, and what a    *)
(* rank bounds.  Induction over numbers is the well-foundedness of < on    *)
(* Nat: a set of counterexamples has a least one.                          *)
(***************************************************************************)
EXTENDS Integers, FiniteSets, WellFoundedInduction, FiniteSetTheorems, TLAPS

NatLess == OpToRel(<, Nat)

\* A set of naturals that is not empty has a least element.
LEMMA LeastNatural ==
  ASSUME NEW S, S \subseteq Nat, S # {} PROVE \E m \in S : \A x \in S : m <= x
<1>1. IsWellFoundedOn(NatLess, Nat)
  BY NatLessThanWellFounded DEF NatLess
<1>2. PICK m \in S : \A x \in S : ~(<<x, m>> \in NatLess)
  BY <1>1, WFMin
<1>3. NatLess = {pair \in Nat \X Nat : pair[1] < pair[2]}
  BY DEF NatLess, OpToRel
<1>4. \A x \in S : ~(x < m)
  BY <1>2, <1>3
<1>5. QED
  BY <1>4

\* One that is bounded has a greatest element.
LEMMA GreatestNatural ==
  ASSUME NEW n \in Nat, NEW S, S \subseteq 0..n, S # {} PROVE \E m \in S : \A x \in S : x <= m
<1> DEFINE T == {n - x : x \in S}
<1>1. T \subseteq Nat /\ T # {}
  <2>1. PICK x \in S : TRUE
    OBVIOUS
  <2>2. n - x \in T
    OBVIOUS
  <2>3. QED
    BY <2>2
<1>2. PICK t \in T : \A x \in T : t <= x
  BY <1>1, LeastNatural
<1>3. PICK m \in S : t = n - m
  OBVIOUS
<1>4. \A x \in S : t <= n - x
  BY <1>2
<1>5. QED
  BY <1>3, <1>4

\* The remainder of a step round the clock.
LEMMA QuotientIsUnique ==
  ASSUME NEW d \in Nat \ {0}, NEW p \in Int, NEW q \in Int, NEW r \in 0..(d - 1),
         NEW s \in 0..(d - 1), d * p + r = d * q + s
  PROVE  r = s
OBVIOUS

LEMMA ModuloTurns == ASSUME NEW d \in Nat \ {0}, NEW a \in Int PROVE (a + d) % d = a % d
<1>1. \A x \in Int : x = d * (x \div d) + (x % d) /\ x \div d \in Int /\ x % d \in 0..(d - 1)
  OBVIOUS
<1> DEFINE p == a \div d
           q == (a + d) \div d
           r == a % d
           s == (a + d) % d
<1>2. p \in Int /\ q \in Int /\ r \in 0..(d - 1) /\ s \in 0..(d - 1)
  BY <1>1
<1>3. a = d * p + r /\ a + d = d * q + s
  BY <1>1
<1> HIDE DEF p, q, r, s
<1>4. p + 1 \in Int /\ d * (p + 1) + r = d * q + s
  BY <1>2, <1>3
<1>5. r = s
  BY <1>2, <1>4, QuotientIsUnique
<1>6. QED
  BY <1>5 DEF r, s
LEMMA ModuloStays == ASSUME NEW d \in Nat \ {0}, NEW a \in 0..(d - 1) PROVE a % d = a
OBVIOUS

\* Of numbered things that each have a mark, one is the latest, by mark and
\* then by number; and only one.
Latest(S, mark, i) == i \in S /\ \A j \in S \ {i} : mark[j] < mark[i] \/ (mark[j] = mark[i] /\ j < i)

LEMMA LatestExists ==
  ASSUME NEW n \in Nat, NEW m \in Nat, NEW S, S \subseteq 0..n, S # {}, NEW mark,
         \A i \in S : mark[i] \in 0..m
  PROVE  \E i \in S : Latest(S, mark, i)
<1> DEFINE M == {mark[i] : i \in S}
<1>1. M \subseteq 0..m /\ M # {}
  OBVIOUS
<1>2. PICK top \in M : \A x \in M : x <= top
  BY <1>1, GreatestNatural
<1> DEFINE T == {i \in S : mark[i] = top}
<1>3. T \subseteq 0..n /\ T # {}
  OBVIOUS
<1>4. PICK i \in T : \A j \in T : j <= i
  BY <1>3, GreatestNatural
<1>5. ASSUME NEW j \in S \ {i} PROVE mark[j] < mark[i] \/ (mark[j] = mark[i] /\ j < i)
  <2>1. mark[j] \in 0..m /\ mark[j] <= top /\ mark[i] = top /\ top \in 0..m
    BY <1>1, <1>2
  <2>2. mark[j] = top => j <= i
    BY <1>4
  <2>3. i \in Nat /\ j \in Nat
    BY <1>3
  <2>4. QED
    BY <2>1, <2>2, <2>3
<1>6. QED
  BY <1>5 DEF Latest

LEMMA LatestIsOne ==
  ASSUME NEW S, S \subseteq Nat, NEW mark, \A i \in S : mark[i] \in Int,
         NEW i, NEW j, Latest(S, mark, i), Latest(S, mark, j)
  PROVE  i = j
<1> SUFFICES ASSUME i # j PROVE FALSE
  OBVIOUS
<1>1. i \in Nat /\ j \in Nat /\ mark[i] \in Int /\ mark[j] \in Int
  BY DEF Latest
<1>2. mark[j] < mark[i] \/ (mark[j] = mark[i] /\ j < i)
  BY DEF Latest
<1>3. mark[i] < mark[j] \/ (mark[i] = mark[j] /\ i < j)
  BY DEF Latest
<1>4. QED
  BY <1>1, <1>2, <1>3
=============================================================================
