---------------------------- MODULE LeastElements ----------------------------
(***************************************************************************)
(* Least and greatest elements of sets of integers, and induction over the *)
(* natural numbers as a statement about sets: facts for the proofs about   *)
(* the searches and the loops of the program.                              *)
(***************************************************************************)
EXTENDS Integers, FiniteSetsExt, WellFoundedInduction, TLAPS

NatLess == {ss \in Nat \X Nat : ss[1] < ss[2]}

\* The naturals are well ordered: the library's fact, with the order as a set.
LEMMA NatLessWellFounded == IsWellFoundedOn(NatLess, Nat)
<1>1. OpToRel(<, Nat) = NatLess
  BY DEF OpToRel, NatLess
<1> QED
  BY <1>1, NatLessThanWellFounded

\* A set of naturals that is not empty has a least element.
LEMMA LeastNat ==
    ASSUME NEW S, S \subseteq Nat, S # {}
    PROVE  \E x \in S : \A y \in S : x <= y
<1>1. PICK x \in S : \A y \in S : ~ (<<y, x>> \in NatLess)
  BY NatLessWellFounded, WFMin
<1>2. ASSUME NEW y \in S PROVE x <= y
  <2>1. y \in Nat /\ x \in Nat
    OBVIOUS
  <2>2. ~ (y < x)
    <3> SUFFICES ASSUME y < x PROVE FALSE
      OBVIOUS
    <3>1. <<y, x>> \in NatLess
      BY <2>1 DEF NatLess
    <3> QED
      BY <1>1, <3>1
  <2> QED
    BY <2>1, <2>2
<1> QED
  BY <1>2

\* Min of a set of naturals is what its name says.
LEMMA MinNat ==
    ASSUME NEW S, S \subseteq Nat, S # {}
    PROVE  Min(S) \in S /\ \A y \in S : Min(S) <= y
  BY LeastNat DEF Min

\* So is Max, when the set has a bound.
LEMMA MaxNat ==
    ASSUME NEW S, S \subseteq Nat, S # {}, NEW n \in Nat, \A x \in S : x <= n
    PROVE  Max(S) \in S /\ \A y \in S : Max(S) >= y
<1> DEFINE U == {k \in Nat : n - k \in S}
<1>1. U \subseteq Nat /\ U # {}
  <2>1. PICK x \in S : x <= n
    OBVIOUS
  <2>2. n - x \in U
    BY <2>1
  <2> QED
    BY <2>2
<1>2. PICK u \in U : \A y \in U : u <= y
  <2> HIDE DEF U
  <2> QED
    BY <1>1, LeastNat
<1>3. \A y \in S : n - y \in U
  OBVIOUS
<1>4. n - u \in S /\ \A y \in S : n - u >= y
  BY <1>2, <1>3
<1> QED
  BY <1>4 DEF Max

\* Induction: P is the set of numbers for which the claim holds.
LEMMA InductionOverNat ==
    ASSUME NEW P, 0 \in P, \A k \in Nat : k \in P => k + 1 \in P
    PROVE  Nat \subseteq P
<1> DEFINE T == {k \in Nat : k \notin P}
<1> SUFFICES ASSUME T # {} PROVE FALSE
  OBVIOUS
<1>1. PICK k \in T : \A y \in T : k <= y
  BY LeastNat
<1>2. k - 1 \in Nat /\ k - 1 \notin T
  BY <1>1
<1> QED
  BY <1>2

\* What holds at first and is kept by every step holds all along.
LEMMA BoundedInduction ==
    ASSUME NEW n \in Nat, NEW P, 0 \in P, \A k \in 0 .. n - 1 : k \in P => k + 1 \in P
    PROVE  0 .. n \subseteq P
<1> DEFINE Q == {k \in Nat : k <= n => k \in P}
<1>1. 0 \in Q /\ \A k \in Nat : k \in Q => k + 1 \in Q
  OBVIOUS
<1> HIDE DEF Q
<1>2. Nat \subseteq Q
  BY <1>1, InductionOverNat
<1> QED
  BY <1>2 DEF Q

\* Functions defined by iteration exist: the library has this for operators,
\* here the step is a function, of the value before and its number.
LEMMA Iteration ==
    ASSUME NEW S, NEW base \in S, NEW n \in Nat, NEW step \in [1 .. n -> [S -> S]]
    PROVE  \E w \in [0 .. n -> S] :
             w[0] = base /\ \A k \in 1 .. n : w[k] = step[k][w[k - 1]]
<1> DEFINE Exists(m) == \E w \in [0 .. m -> S] :
                          w[0] = base /\ \A k \in 1 .. m : w[k] = step[k][w[k - 1]]
           P == {m \in 0 .. n : Exists(m)}
<1>1. Exists(0)
  <2> DEFINE w == [k \in 0 .. 0 |-> base]
  <2>1. w \in [0 .. 0 -> S]
    OBVIOUS
  <2>2. w[0] = base /\ \A k \in 1 .. 0 : w[k] = step[k][w[k - 1]]
    OBVIOUS
  <2> QED
    BY <2>1, <2>2
<1>2. ASSUME NEW m \in 0 .. n - 1, Exists(m) PROVE Exists(m + 1)
  <2>1. PICK w \in [0 .. m -> S] :
          w[0] = base /\ \A k \in 1 .. m : w[k] = step[k][w[k - 1]]
    BY <1>2
  <2> DEFINE v == [k \in 0 .. m + 1 |-> IF k <= m THEN w[k] ELSE step[m + 1][w[m]]]
  <2>2. v \in [0 .. m + 1 -> S]
    <3>1. m + 1 \in 1 .. n /\ w[m] \in S
      BY <2>1
    <3> QED
      BY <2>1, <3>1
  <2>3. v[0] = base
    BY <2>1
  <2>4. ASSUME NEW k \in 1 .. m + 1 PROVE v[k] = step[k][v[k - 1]]
    <3>1. CASE k \in 1 .. m
      <4>1. w[k] = step[k][w[k - 1]]
        BY <2>1, <3>1
      <4>2. v[k] = w[k] /\ v[k - 1] = w[k - 1]
        BY <3>1
      <4> QED
        BY <4>1, <4>2
    <3>2. CASE k = m + 1
      BY <3>2
    <3> QED
      BY <3>1, <3>2
  <2> HIDE DEF v
  <2> QED
    BY <2>2, <2>3, <2>4
<1>3. n \in P
  <2> HIDE DEF Exists
  <2>1. 0 \in P /\ \A m \in 0 .. n - 1 : m \in P => m + 1 \in P
    BY <1>1, <1>2
  <2> HIDE DEF P
  <2>2. 0 .. n \subseteq P
    BY <2>1, BoundedInduction
  <2> QED
    BY <2>2
<1> QED
  BY <1>3

IsFoldTable(g, n, base, step) ==
    \A s \in SUBSET (1 .. n) :
        g[s] = IF s = {} THEN base ELSE step[Max(s)][g[s \ {Max(s)}]]

\* So do the tables by which Folds defines a fold over the numbers up to n: a
\* value for every set of them, the greatest one last.
LEMMA FoldTable ==
    ASSUME NEW S, NEW base \in S, NEW n \in Nat, NEW step \in [1 .. n -> [S -> S]]
    PROVE  \E g \in [SUBSET (1 .. n) -> S] : IsFoldTable(g, n, base, step)
<1> DEFINE Table(m, g) == \A s \in SUBSET (1 .. m) :
                            g[s] = IF s = {} THEN base ELSE step[Max(s)][g[s \ {Max(s)}]]
           P == {m \in 0 .. n : \E g \in [SUBSET (1 .. m) -> S] : Table(m, g)}
<1>1. 0 \in P
  <2> DEFINE g == [s \in SUBSET (1 .. 0) |-> base]
  <2>1. g \in [SUBSET (1 .. 0) -> S] /\ Table(0, g)
    OBVIOUS
  <2> HIDE DEF g
  <2>2. \E f \in [SUBSET (1 .. 0) -> S] : Table(0, f)
    BY <2>1
  <2>3. 0 \in 0 .. n
    OBVIOUS
  <2> HIDE DEF Table
  <2> QED
    BY <2>2, <2>3
<1>2. ASSUME NEW m \in 0 .. n - 1, m \in P PROVE m + 1 \in P
  <2>1. PICK g \in [SUBSET (1 .. m) -> S] : Table(m, g)
    BY <1>2
  <2> DEFINE h == [s \in SUBSET (1 .. m + 1) |->
                     IF m + 1 \in s THEN step[m + 1][g[s \ {m + 1}]] ELSE g[s]]
  <2>2. \A s \in SUBSET (1 .. m + 1) : s \ {m + 1} \in SUBSET (1 .. m)
    OBVIOUS
  <2>3. h \in [SUBSET (1 .. m + 1) -> S]
    <3>1. m + 1 \in 1 .. n
      OBVIOUS
    <3>2. ASSUME NEW s \in SUBSET (1 .. m + 1) PROVE h[s] \in S
      <4>1. CASE m + 1 \in s
        <5>1. g[s \ {m + 1}] \in S
          BY <2>2
        <5> QED
          BY <3>1, <4>1, <5>1
      <4>2. CASE m + 1 \notin s
        <5>1. s \in SUBSET (1 .. m)
          BY <2>2, <4>2
        <5> QED
          BY <4>2, <5>1
      <4> QED
        BY <4>1, <4>2
    <3> QED
      BY <3>2
  <2>4. ASSUME NEW s \in SUBSET (1 .. m + 1)
        PROVE  h[s] = IF s = {} THEN base ELSE step[Max(s)][h[s \ {Max(s)}]]
    <3>1. CASE m + 1 \in s
      <4>1. Max(s) = m + 1
        <5>1. m + 1 \in Nat /\ s \subseteq Nat /\ \A x \in s : x <= m + 1
          OBVIOUS
        <5>2. Max(s) \in s /\ \A y \in s : Max(s) >= y
          BY <3>1, <5>1, MaxNat
        <5>3. Max(s) \in Nat /\ Max(s) <= m + 1 /\ Max(s) >= m + 1
          BY <3>1, <5>1, <5>2
        <5> QED
          BY <5>1, <5>3
      <4>2. h[s \ {m + 1}] = g[s \ {m + 1}]
        BY <2>2
      <4> QED
        BY <3>1, <4>1, <4>2
    <3>2. CASE m + 1 \notin s /\ s # {}
      <4>1. s \in SUBSET (1 .. m)
        BY <2>2, <3>2
      <4>2. Max(s) \in s
        <5>1. m + 1 \in Nat /\ s \subseteq Nat /\ \A x \in s : x <= m + 1
          OBVIOUS
        <5> QED
          BY <3>2, <5>1, MaxNat
      <4>3. h[s] = g[s] /\ h[s \ {Max(s)}] = g[s \ {Max(s)}]
        BY <3>2, <4>1
      <4>4. g[s] = step[Max(s)][g[s \ {Max(s)}]]
        BY <2>1, <3>2, <4>1
      <4> QED
        BY <3>2, <4>3, <4>4
    <3>3. CASE s = {}
      <4>1. {} \in SUBSET (1 .. m)
        OBVIOUS
      <4>2. g[{}] = base
        BY <2>1, <4>1
      <4> QED
        BY <3>3, <4>2
    <3> QED
      BY <3>1, <3>2, <3>3
  <2>5. Table(m + 1, h)
    BY <2>4
  <2> HIDE DEF h, Table
  <2>6. m + 1 \in 0 .. n
    OBVIOUS
  <2> QED
    BY <2>3, <2>5, <2>6
<1>3. 0 .. n \subseteq P
  <2> HIDE DEF P
  <2> QED
    BY <1>1, <1>2, BoundedInduction
<1>4. n \in P
  <2> HIDE DEF P
  <2>1. n \in 0 .. n
    OBVIOUS
  <2> QED
    BY <1>3, <2>1
<1> QED
  BY <1>4 DEF IsFoldTable
=============================================================================
