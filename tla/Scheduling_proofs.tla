-------------------------- MODULE Scheduling_proofs -------------------------
(***************************************************************************)
(* Proofs about the step scheduler: whatever the program and however the   *)
(* heuristics choose, the order it returns meets the contract of           *)
(* verify_schedule.                                                        *)
(***************************************************************************)
EXTENDS Scheduling, FiniteSetTheorems, TLAPS

-----------------------------------------------------------------------------
(* Least and greatest elements of sets of positions.                        *)

LEMMA MinOfNat ==
  ASSUME NEW S \in SUBSET Nat, S # {}
  PROVE  Min(S) \in S /\ \A y \in S : Min(S) <= y
<1>1. PICK x \in S : \A y \in S : ~(<<y, x>> \in OpToRel(<, Nat))
  BY NatLessThanWellFounded, WFMin
<1>2. \A y \in S : x <= y
  <2>1. ASSUME NEW y \in S, y < x PROVE FALSE
    <3>1. <<y, x>> \in OpToRel(<, Nat)
      BY <2>1, Zenon DEF OpToRel
    <3>q. QED
      BY <1>1, <3>1
  <2>q. QED
    BY <2>1
<1>q. QED
  BY <1>2 DEF Min

\* The greatest element is the one with the fewest elements above it.
LEMMA MaxOfNat ==
  ASSUME NEW S \in SUBSET Nat, IsFiniteSet(S), S # {}
  PROVE  Max(S) \in S /\ \A y \in S : y <= Max(S)
<1> DEFINE Above(x) == {y \in S : y > x}
           T == {Above(x) : x \in S}
<1>1. T \subseteq SUBSET S /\ T # {}
  OBVIOUS
<1>1a. T \subseteq FiniteSubsetsOf(S)
  BY <1>1, FS_FiniteSubsetsOfFinite, Zenon
<1>1b. IsWellFoundedOn(StrictSubsetOrdering(S), FiniteSubsetsOf(S))
  BY FS_StrictSubsetOrderingWellFounded, Zenon
<1>2. PICK U \in T : \A V \in T : ~(<<V, U>> \in StrictSubsetOrdering(S))
  <2> HIDE DEF T
  <2>q. QED
    BY <1>1, <1>1a, <1>1b, WFMin
<1>3. PICK x \in S : U = Above(x)
  OBVIOUS
<1>4. \A y \in S : y <= x
  <2>1. SUFFICES ASSUME NEW y \in S, y > x PROVE FALSE
    OBVIOUS
  <2>2. Above(y) \subseteq Above(x) /\ Above(y) # Above(x)
    <3>1. \A z \in S : z > y => z > x
      BY <2>1
    <3>2. y \in Above(x) /\ y \notin Above(y)
      BY <2>1
    <3>q. QED
      BY <3>1, <3>2
  <2>3. Above(y) \in T /\ Above(x) \in T
    OBVIOUS
  <2>q. QED
    BY <1>1, <1>2, <1>3, <2>2, <2>3 DEF StrictSubsetOrdering
<1>q. QED
  BY <1>4 DEF Max

-----------------------------------------------------------------------------
(* Orders.                                                                  *)

LEMMA SlotsFinite ==
  ASSUME Facts
  PROVE  /\ slots \in SUBSET Nat /\ IsFiniteSet(slots)
         /\ Positions \in SUBSET Nat /\ IsFiniteSet(Positions)
<1>1. Positions \in SUBSET Nat /\ IsFiniteSet(Positions)
  BY CircuitsAssumption DEF Facts, Positions
<1>2. slots \in SUBSET Positions
  BY DEF Facts, Steps
<1>q. QED
  BY <1>1, <1>2, FS_Subset

\* An order leaves no step out.
LEMMA OrderIsOnto ==
  ASSUME Facts, NEW o, IsOrder(o)
  PROVE  o \in [slots -> slots] /\ \A a \in slots : \E s \in slots : o[s] = a
<1>1. o \in Surjection(slots, slots)
  BY SlotsFinite, FS_Injection DEF IsOrder
<1>q. QED
  BY <1>1 DEF Surjection

\* The slots next to slot s.
LEMMA Neighbours ==
  ASSUME Facts, NEW s \in slots, NEW t \in slots
  PROVE  /\ s < t => /\ SlotAfter(s) \in slots
                     /\ s < SlotAfter(s) /\ SlotAfter(s) <= t
         /\ t < s => /\ SlotBefore(s) \in slots
                     /\ SlotBefore(s) < s /\ t <= SlotBefore(s)
<1>1. slots \in SUBSET Nat /\ IsFiniteSet(slots)
  BY SlotsFinite
<1>2. CASE s < t
  <2> DEFINE S == {u \in slots : u > s}
  <2>1. S \in SUBSET Nat /\ t \in S
    BY <1>1, <1>2
  <2>2. Min(S) \in S /\ \A y \in S : Min(S) <= y
    <3> HIDE DEF S
    <3>q. QED BY <2>1, MinOfNat
  <2>q. QED
    BY <1>1, <1>2, <2>1, <2>2 DEF SlotAfter
<1>3. CASE t < s
  <2> DEFINE S == {u \in slots : u < s}
  <2>1. S \in SUBSET slots /\ t \in S
    BY <1>1, <1>3
  <2>2. Max(S) \in S /\ \A y \in S : y <= Max(S)
    <3> HIDE DEF S
    <3>1. IsFiniteSet(S)
      BY <1>1, <2>1, FS_Subset
    <3>2. S \in SUBSET Nat /\ S # {}
      BY <1>1, <2>1
    <3>q. QED BY <3>1, <3>2, MaxOfNat
  <2>q. QED
    BY <1>1, <1>3, <2>1, <2>2 DEF SlotBefore
<1>q. QED
  BY <1>1, <1>2, <1>3

\* Taking a step out and putting it back somewhere else makes an order again.
LEMMA MovedIsOrder ==
  ASSUME Facts, NEW o, IsOrder(o), NEW a \in slots, NEW b \in slots
  PROVE  IsOrder(Moved(o, a, b))
<1> DEFINE From(s) == IF s = b THEN a
                      ELSE IF a <= s /\ s < b THEN SlotAfter(s)
                      ELSE IF b < s /\ s <= a THEN SlotBefore(s)
                      ELSE s
<1>1. slots \in SUBSET Nat
  BY SlotsFinite
<1>2. \A s \in slots :
        /\ a <= s /\ s < b => /\ SlotAfter(s) \in slots
                              /\ s < SlotAfter(s) /\ SlotAfter(s) <= b
        /\ b < s /\ s <= a => /\ SlotBefore(s) \in slots
                              /\ SlotBefore(s) < s /\ b <= SlotBefore(s)
  BY Neighbours
<1>3. \A s, t \in slots :
        /\ a <= s /\ s < t /\ t < b => SlotAfter(s) < SlotAfter(t)
        /\ b < s /\ s < t /\ t <= a => SlotBefore(s) < SlotBefore(t)
  <2>1. SUFFICES ASSUME NEW s \in slots, NEW t \in slots, s < t
                 PROVE  /\ a <= s /\ t < b => SlotAfter(s) < SlotAfter(t)
                        /\ b < s /\ t <= a => SlotBefore(s) < SlotBefore(t)
    OBVIOUS
  <2>2. SlotAfter(s) <= t /\ s <= SlotBefore(t)
    BY <2>1, Neighbours
  <2>3. \A u, v, w \in Nat : (u <= v /\ v < w => u < w) /\ (u < v /\ v <= w => u < w)
    OBVIOUS
  <2>4. ASSUME a <= s, t < b PROVE SlotAfter(s) < SlotAfter(t)
    <3>1. s < b /\ a <= t
      BY <1>1, <2>1, <2>4
    <3>2. SlotAfter(s) \in Nat /\ SlotAfter(t) \in Nat /\ t < SlotAfter(t)
      BY <1>1, <1>2, <2>4, <3>1
    <3>q. QED
      BY <1>1, <2>2, <2>3, <3>2
  <2>5. ASSUME b < s, t <= a PROVE SlotBefore(s) < SlotBefore(t)
    <3>1. s <= a /\ b < t
      BY <1>1, <2>1, <2>5
    <3>2. SlotBefore(s) \in Nat /\ SlotBefore(t) \in Nat /\ SlotBefore(s) < s
      BY <1>1, <1>2, <2>5, <3>1
    <3>q. QED
      BY <1>1, <2>2, <2>3, <3>2
  <2>q. QED
    BY <2>4, <2>5
<1>4. \A s \in slots : From(s) \in slots
  BY <1>2
<1>5. \A s, t \in slots : s < t => From(s) # From(t)
  <2>1. SUFFICES ASSUME NEW s \in slots, NEW t \in slots, s < t
                 PROVE  From(s) # From(t)
    OBVIOUS
  <2>2. s \in Nat /\ t \in Nat /\ a \in Nat /\ b \in Nat
    BY <1>1
  <2>3. CASE a <= s /\ t < b
    <3>1. From(s) = SlotAfter(s) /\ From(t) = SlotAfter(t)
      BY <2>1, <2>2, <2>3
    <3>2. SlotAfter(s) < SlotAfter(t)
      BY ONLY <1>3, <2>1, <2>3
    <3>3. s < b
      BY <2>1, <2>2, <2>3
    <3>4. SlotAfter(s) \in Nat
      BY <1>1, <1>2, <2>3, <3>3
    <3>q. QED
      BY <3>1, <3>2, <3>4
  <2>4. CASE a <= s /\ ~(t < b)
    BY <1>1, <1>2, <2>1, <2>2, <2>4
  <2>5. CASE a > s /\ t < b
    BY <1>1, <1>2, <2>1, <2>2, <2>5
  <2>6. CASE a > s /\ ~(t < b) /\ b < s /\ t <= a
    <3>1. From(s) = SlotBefore(s) /\ From(t) = SlotBefore(t)
      BY <2>1, <2>2, <2>6
    <3>2. SlotBefore(s) < SlotBefore(t)
      BY ONLY <1>3, <2>1, <2>6
    <3>3. s <= a
      BY <2>1, <2>2, <2>6
    <3>4. SlotBefore(s) \in Nat
      BY <1>1, <1>2, <2>6, <3>3
    <3>q. QED
      BY <3>1, <3>2, <3>4
  <2>7. CASE a > s /\ ~(t < b) /\ ~(b < s /\ t <= a)
    BY <1>1, <1>2, <2>1, <2>2, <2>7
  <2>q. QED
    BY <2>2, <2>3, <2>4, <2>5, <2>6, <2>7
<1>6. Moved(o, a, b) = [s \in slots |-> o[From(s)]]
  BY DEF Moved
<1>7. \A s, t \in slots : From(s) = From(t) => s = t
  <2> HIDE DEF From
  <2>q. QED BY <1>1, <1>5
<1>q. QED
  <2> HIDE DEF From
  <2>q. QED
    BY <1>4, <1>6, <1>7 DEF IsOrder, Injection, IsInjective
-----------------------------------------------------------------------------
(* The contract.                                                            *)

LEMMA AnticommutesSym ==
  ASSUME NEW a, NEW b
  PROVE  Anticommutes(a, b) <=> Anticommutes(b, a)
<1>1. {q \in Qubits(a) \cap Qubits(b) : ops[a].paulis[q] # ops[b].paulis[q]}
      = {q \in Qubits(b) \cap Qubits(a) : ops[b].paulis[q] # ops[a].paulis[q]}
  OBVIOUS
<1>q. QED
  BY <1>1 DEF Anticommutes

\* The position of an operation in the permuted program.
LEMMA Place ==
  ASSUME Facts, NEW o, IsOrder(o)
  PROVE  /\ \A s \in slots : PosOf(Perm(o), o[s]) = s
         /\ \A f \in Fixed : PosOf(Perm(o), f) = f
<1>1. /\ o \in [slots -> slots] /\ slots = Steps /\ Steps \subseteq Positions
      /\ \A s, t \in slots : o[s] = o[t] => s = t
  BY DEF Facts, IsOrder, Injection, IsInjective, Steps
<1>2. Perm(o) = [s \in Positions |-> IF s \in Steps THEN o[s] ELSE s]
  BY DEF Perm
<1>3. ASSUME NEW s \in slots PROVE PosOf(Perm(o), o[s]) = s
  <2>1. \A t \in Positions : Perm(o)[t] = o[s] <=> t = s
    BY <1>1, <1>2
  <2>2. s \in Positions
    BY <1>1
  <2>q. QED
    BY <2>1, <2>2 DEF PosOf
<1>4. ASSUME NEW f \in Fixed PROVE PosOf(Perm(o), f) = f
  <2>1. f \in Positions /\ f \notin Steps
    BY DEF Fixed
  <2>2. \A t \in Positions : Perm(o)[t] = f <=> t = f
    BY <1>1, <1>2, <2>1
  <2>q. QED
    BY <2>1, <2>2 DEF PosOf
<1>q. QED
  BY <1>3, <1>4

\* A slot in the range of a step is on its side of every fixed operation that
\* anticommutes with it.
LEMMA RangeKeepsSides ==
  ASSUME Facts, NEW a \in Steps, NEW s \in Steps, InRange(a, s),
         NEW f \in Fixed, Anticommutes(f, a)
  PROVE  a < f <=> s < f
<1>1. Steps \in SUBSET Nat /\ IsFiniteSet(Steps) /\ f \in Nat /\ f # a
  BY SlotsFinite DEF Facts, Fixed, Steps
<1>2. CASE a < f
  <2> DEFINE T == {t \in Steps : t < f}
  <2>1. s <= Max(T)
    BY <1>2 DEF InRange
  <2>2. T \in SUBSET Steps /\ a \in T
    BY <1>2
  <2>3. Max(T) \in T
    <3> HIDE DEF T
    <3>1. IsFiniteSet(T)
      BY <1>1, <2>2, FS_Subset
    <3>2. T \in SUBSET Nat /\ T # {}
      BY <1>1, <2>2
    <3>q. QED BY <3>1, <3>2, MaxOfNat
  <2>4. Max(T) < f /\ Max(T) \in Nat
    BY <1>1, <2>3
  <2>5. s \in Nat
    BY <1>1
  <2> HIDE DEF T
  <2>q. QED
    BY <1>1, <1>2, <2>1, <2>4, <2>5
<1>3. CASE ~(a < f)
  <2> DEFINE T == {t \in Steps : t > f}
  <2>0. a > f
    BY <1>1, <1>3
  <2>1. s >= Min(T)
    BY <1>3 DEF InRange
  <2>2. T \in SUBSET Nat /\ a \in T
    BY <1>1, <2>0
  <2>3. Min(T) \in T
    <3> HIDE DEF T
    <3>q. QED BY <2>2, MinOfNat
  <2>4. Min(T) > f /\ Min(T) \in Nat
    BY <1>1, <2>3
  <2>5. s \in Nat
    BY <1>1
  <2> HIDE DEF T
  <2>q. QED
    BY <1>1, <1>3, <2>1, <2>4, <2>5
<1>q. QED
  BY <1>2, <1>3

\* A schedule that verify_schedule accepts, from schedule_ops or from outside,
\* executes all anticommuting operations, steps and fixed ones, in program order.
THEOREM AcceptedKeepsOrder ==
  ASSUME Facts, NEW perm, VerifySchedule(perm),
         NEW a \in Positions, NEW b \in Positions, a < b, Anticommutes(a, b)
  PROVE  PosOf(perm, a) < PosOf(perm, b)
<1> DEFINE at(c) == PosOf(perm, c)
<1>1. Positions \in SUBSET Nat /\ a \in Nat /\ b \in Nat
  BY SlotsFinite
<1>2. /\ \A c \in Positions : \E s \in Positions : perm[s] = c
      /\ \A f \in Fixed : at(f) = f
      /\ \A c, d \in Steps : c < d /\ Anticommutes(c, d) => at(c) < at(d)
      /\ \A f \in Fixed, c \in Steps : Anticommutes(f, c) => (c < f <=> at(c) < f)
  BY DEF VerifySchedule
<1>3. \A c \in Positions : at(c) \in Positions /\ perm[at(c)] = c
  BY <1>2 DEF PosOf
<1> HIDE DEF at
<1>4. CASE a \in Steps /\ b \in Steps
  BY <1>2, <1>4 DEF at
<1>5. CASE a \in Fixed /\ b \in Fixed
  BY <1>2, <1>5 DEF at
<1>6. CASE a \in Steps /\ b \in Fixed
  <2>1. Anticommutes(b, a)
    BY AnticommutesSym
  <2>q. QED
    BY <1>2, <1>6, <2>1 DEF at
<1>7. CASE a \in Fixed /\ b \in Steps
  <2>1. ~(b < a)
    BY <1>1
  <2>2. at(b) \in Nat /\ at(b) # a
    <3>1. at(b) \in Positions /\ perm[at(b)] = b /\ perm[at(a)] = a /\ at(a) = a
      BY <1>2, <1>3, <1>7 DEF at
    <3>q. QED
      BY <1>1, <1>7, <3>1 DEF Fixed
  <2>3. ~(at(b) < a) /\ at(a) = a
    BY <1>2, <1>7, <2>1
  <2>q. QED
    BY <1>1, <2>2, <2>3 DEF at
<1>q. QED
  BY <1>4, <1>5, <1>6, <1>7 DEF Fixed

\* A lawful order passes verify_schedule.
LEMMA LawfulIsAccepted ==
  ASSUME Facts, NEW o, Lawful(o)
  PROVE  VerifySchedule(Perm(o))
<1> DEFINE at(a) == PosOf(Perm(o), a)
<1>1. /\ IsOrder(o) /\ SlotOK(o) /\ Valid(o)
      /\ o \in [slots -> slots] /\ slots = Steps
      /\ Positions \in SUBSET Nat /\ Steps \subseteq Positions
  BY OrderIsOnto, SlotsFinite DEF Lawful, Facts, Steps
<1>2. \A a \in Steps : \E s \in slots : o[s] = a /\ at(a) = s
  BY <1>1, OrderIsOnto, Place
<1>3. \A f \in Fixed : at(f) = f
  BY <1>1, Place
<1>4. \A a, b \in Steps : a < b /\ Anticommutes(a, b) => at(a) < at(b)
  <2>1. SUFFICES ASSUME NEW a \in Steps, NEW b \in Steps,
                        a < b, Anticommutes(a, b)
                 PROVE  at(a) < at(b)
    OBVIOUS
  <2>2. PICK s \in slots, t \in slots : o[s] = a /\ at(a) = s /\ o[t] = b /\ at(b) = t
    BY <1>2
  <2>3. o[s] \in pred[o[t]]
    BY <2>1, <2>2 DEF Facts, Pred
  <2>4. s < t
    BY <1>1, <2>3 DEF Valid
  <2>q. QED
    BY <2>2, <2>4
<1>5. \A f \in Fixed, a \in Steps : Anticommutes(f, a) => (a < f <=> at(a) < f)
  <2>1. SUFFICES ASSUME NEW f \in Fixed, NEW a \in Steps, Anticommutes(f, a)
                 PROVE  a < f <=> at(a) < f
    OBVIOUS
  <2>2. PICK s \in slots : o[s] = a /\ at(a) = s
    BY <1>2
  <2>3. s \in range[a]
    BY <1>1, <2>2 DEF SlotOK
  <2>4. s \in Steps /\ InRange(a, s)
    BY <1>1, <2>3 DEF Facts
  <2>q. QED
    BY <2>1, <2>2, <2>4, RangeKeepsSides
<1>6. \A a \in Positions : \E s \in Positions : Perm(o)[s] = a
  <2>1. ASSUME NEW a \in Steps PROVE \E s \in Positions : Perm(o)[s] = a
    BY <1>1, <1>2 DEF Perm
  <2>2. ASSUME NEW a \in Positions \ Steps PROVE \E s \in Positions : Perm(o)[s] = a
    BY DEF Perm
  <2>q. QED
    BY <2>1, <2>2
<1>q. QED
  BY <1>3, <1>4, <1>5, <1>6 DEF VerifySchedule

-----------------------------------------------------------------------------
(* Counting.                                                                *)

LEMMA FewerElements ==
  ASSUME NEW T, IsFiniteSet(T), NEW S \in SUBSET T, NEW x \in T, x \notin S
  PROVE  /\ IsFiniteSet(S) /\ Cardinality(S) \in Nat /\ Cardinality(T) \in Nat
         /\ Cardinality(S) < Cardinality(T)
<1>1. IsFiniteSet(S) /\ Cardinality(S) <= Cardinality(T)
  BY FS_Subset
<1>2. Cardinality(S) # Cardinality(T)
  BY FS_Subset
<1>3. Cardinality(S) \in Nat /\ Cardinality(T) \in Nat
  BY <1>1, FS_CardinalityType
<1>q. QED
  BY <1>1, <1>2, <1>3

\* The number of elements before a in the order R.
Rank(S, R, a) == Cardinality({b \in S : <<b, a>> \in R})

StrictTotalOrder(S, R) ==
  \A a, b, c \in S : /\ <<a, a>> \notin R
                     /\ <<a, b>> \in R /\ <<b, c>> \in R => <<a, c>> \in R
                     /\ <<a, b>> \in R \/ <<b, a>> \in R \/ a = b

\* In a finite set with a strict total order, every rank from 0 on is taken,
\* and a greater element has a greater rank.
LEMMA RankIsOnto ==
  ASSUME NEW S, IsFiniteSet(S), NEW R, StrictTotalOrder(S, R)
  PROVE  /\ \A a \in S : Rank(S, R, a) \in 0 .. Cardinality(S) - 1
         /\ \A a, b \in S : <<a, b>> \in R => Rank(S, R, a) < Rank(S, R, b)
         /\ \A k \in 0 .. Cardinality(S) - 1 : \E a \in S : Rank(S, R, a) = k
<1> DEFINE n == Cardinality(S)
           rank == [a \in S |-> Rank(S, R, a)]
<1> USE DEF StrictTotalOrder
<1> DEFINE Before(a) == {b \in S : <<b, a>> \in R}
<1>0. n \in Nat
  BY FS_CardinalityType
<1>1. ASSUME NEW a \in S PROVE rank[a] \in 0 .. n - 1
  <2>1. Before(a) \in SUBSET S /\ a \notin Before(a)
    OBVIOUS
  <2>2. Cardinality(Before(a)) \in Nat /\ Cardinality(Before(a)) < n
    <3> HIDE DEF Before
    <3>q. QED BY <2>1, FewerElements
  <2>3. rank[a] = Cardinality(Before(a))
    BY DEF Rank
  <2> HIDE DEF Before
  <2>q. QED
    BY <1>0, <2>2, <2>3
<1>2. ASSUME NEW a \in S, NEW b \in S, <<a, b>> \in R PROVE rank[a] < rank[b]
  <2>1. Before(a) \in SUBSET Before(b) /\ a \in Before(b) /\ a \notin Before(a)
    BY <1>2
  <2>2. Before(b) \in SUBSET S
    OBVIOUS
  <2>3. Cardinality(Before(a)) < Cardinality(Before(b))
    <3> HIDE DEF Before
    <3>q. QED BY <2>1, <2>2, FewerElements, FS_Subset
  <2>4. rank[a] = Cardinality(Before(a)) /\ rank[b] = Cardinality(Before(b))
    BY DEF Rank
  <2> HIDE DEF Before
  <2>q. QED
    BY <2>3, <2>4
<1>3. rank \in Surjection(S, 0 .. n - 1)
  <2>1. \A a, b \in S : rank[a] = rank[b] => a = b
    <3>1. \A a \in S : rank[a] \in Nat
      BY <1>0, <1>1
    <3>2. ASSUME NEW a \in S, NEW b \in S, <<a, b>> \in R PROVE rank[a] # rank[b]
      <4>1. rank[a] < rank[b] /\ rank[a] \in Nat /\ rank[b] \in Nat
        BY <1>2, <3>1, <3>2
      <4>q. QED
        BY ONLY <4>1
    <3>q. QED
      BY <3>2
  <2>2. rank \in [S -> 0 .. n - 1]
    BY <1>1
  <2>3. rank \in Injection(S, 0 .. n - 1)
    BY <2>1, <2>2 DEF Injection, IsInjective
  <2>4. IsFiniteSet(0 .. n - 1) /\ Cardinality(0 .. n - 1) = n
    <3>1. n - 1 \in Int /\ 0 \in Int /\ (IF 0 > n - 1 THEN 0 ELSE n - 1 - 0 + 1) = n
      BY <1>0
    <3> HIDE <1>0
    <3>q. QED
      BY ONLY <3>1, FS_Interval
  <2>q. QED
    BY <2>3, <2>4, FS_Injection
<1>q. QED
  BY <1>1, <1>2, <1>3 DEF Surjection

\* The same for the natural order on a set of positions.
LEMMA NatRank ==
  ASSUME NEW S \in SUBSET Nat, IsFiniteSet(S)
  PROVE  /\ \A s \in S : Cardinality({t \in S : t < s}) \in 0 .. Cardinality(S) - 1
         /\ \A s, r \in S : s < r => Cardinality({t \in S : t < s})
                                       < Cardinality({t \in S : t < r})
         /\ \A k \in 0 .. Cardinality(S) - 1 :
              \E s \in S : Cardinality({t \in S : t < s}) = k
<1> DEFINE R == {p \in S \X S : p[1] < p[2]}
           Less(r) == Cardinality({t \in S : t < r})
<1>1. \A a, b \in S : <<a, b>> \in R <=> a < b
  OBVIOUS
<1>2. StrictTotalOrder(S, R)
  <2>1. \A a, b, c \in S : /\ ~(a < a)
                           /\ a < b /\ b < c => a < c
                           /\ a < b \/ b < a \/ a = b
    OBVIOUS
  <2> HIDE DEF R
  <2>q. QED BY <1>1, <2>1 DEF StrictTotalOrder
<1>3. \A a \in S : Rank(S, R, a) = Less(a)
  <2>1. SUFFICES ASSUME NEW a \in S
                 PROVE  {b \in S : <<b, a>> \in R} = {t \in S : t < a}
    BY DEF Rank
  <2>q. QED
    BY <1>1
<1> HIDE DEF R
<1>4. /\ \A s \in S : Rank(S, R, s) \in 0 .. Cardinality(S) - 1
      /\ \A s, t \in S : <<s, t>> \in R => Rank(S, R, s) < Rank(S, R, t)
      /\ \A k \in 0 .. Cardinality(S) - 1 : \E s \in S : Rank(S, R, s) = k
  BY <1>2, RankIsOnto
<1>5. /\ \A s \in S : Less(s) \in 0 .. Cardinality(S) - 1
      /\ \A s, r \in S : s < r => Less(s) < Less(r)
      /\ \A k \in 0 .. Cardinality(S) - 1 : \E s \in S : Less(s) = k
  <2> HIDE DEF Less
  <2>1. \A s \in S : Less(s) \in 0 .. Cardinality(S) - 1
    BY <1>3, <1>4
  <2>2. ASSUME NEW s \in S, NEW r \in S, s < r PROVE Less(s) < Less(r)
    <3>1. Rank(S, R, s) < Rank(S, R, r)
      BY <1>1, <1>4, <2>2
    <3>q. QED
      BY <1>3, <3>1
  <2>3. \A k \in 0 .. Cardinality(S) - 1 : \E s \in S : Less(s) = k
    BY <1>3, <1>4
  <2>q. QED
    BY <2>1, <2>2, <2>3
<1>q. QED
  BY <1>5

\* The classes one after the other make an order, and a step of an earlier
\* class comes first.
LEMMA ConcatenatedIsOrder ==
  ASSUME Facts, class \in [slots -> Nat]
  PROVE  /\ IsOrder(Concatenated)
         /\ \A s, t \in slots :
              class[Concatenated[s]] < class[Concatenated[t]] => s < t
<1> DEFINE R == {p \in slots \X slots : Earlier(p[1], p[2])}
           rank(a) == Rank(slots, R, a)
           n == Cardinality(slots)
<1>1. slots \in SUBSET Nat /\ IsFiniteSet(slots) /\ n \in Nat
  BY SlotsFinite, FS_CardinalityType
<1>2. \A a, b \in slots : <<a, b>> \in R <=> Earlier(a, b)
  OBVIOUS
<1>3. StrictTotalOrder(slots, R)
  <2>1. \A a, b, c \in slots : /\ ~Earlier(a, a)
                               /\ Earlier(a, b) /\ Earlier(b, c) => Earlier(a, c)
                               /\ Earlier(a, b) \/ Earlier(b, a) \/ a = b
    BY <1>1 DEF Earlier
  <2> HIDE DEF R
  <2>q. QED BY <1>2, <2>1 DEF StrictTotalOrder
<1>4. \A a \in slots : rank(a) = Cardinality({b \in slots : Earlier(b, a)})
  <2>1. SUFFICES ASSUME NEW a \in slots
                 PROVE  {b \in slots : <<b, a>> \in R} = {b \in slots : Earlier(b, a)}
    BY DEF Rank
  <2>q. QED
    BY <1>2
<1> HIDE DEF R
<1>5. /\ \A a, b \in slots : <<a, b>> \in R => rank(a) < rank(b)
      /\ \A k \in 0 .. n - 1 : \E a \in slots : rank(a) = k
  BY <1>1, <1>3, RankIsOnto
<1>6. /\ \A s \in slots : Ord(s) \in 0 .. n - 1
      /\ \A s, t \in slots : s < t => Ord(s) < Ord(t)
  BY <1>1, NatRank DEF Ord
<1> HIDE DEF rank, n
<1>7. /\ \A a, b \in slots : Earlier(a, b) => rank(a) < rank(b)
      /\ \A k \in 0 .. n - 1 : \E a \in slots : rank(a) = k
  BY <1>2, <1>5
<1>8. ASSUME NEW s \in slots
      PROVE  Concatenated[s] \in slots /\ rank(Concatenated[s]) = Ord(s)
  <2>1. \E a \in slots : rank(a) = Ord(s)
    BY <1>7, <1>6
  <2>2. Concatenated[s] = CHOOSE a \in slots : rank(a) = Ord(s)
    BY <1>4 DEF Concatenated
  <2>q. QED
    BY <2>1, <2>2
<1>9. IsOrder(Concatenated)
  <2> DEFINE next(s) == CHOOSE a \in slots :
                          Cardinality({b \in slots : Earlier(b, a)}) = Ord(s)
  <2>1. Concatenated = [s \in slots |-> next(s)]
    BY DEF Concatenated
  <2>2. Concatenated \in [slots -> slots]
    <3> HIDE DEF next
    <3>q. QED BY <1>8, <2>1
  <2>3. \A s, t \in slots : Ord(s) = Ord(t) => s = t
    BY <1>1, <1>6
  <2>q. QED
    BY <1>8, <2>2, <2>3 DEF IsOrder, Injection, IsInjective
<1>10. ASSUME NEW s \in slots, NEW t \in slots,
              class[Concatenated[s]] < class[Concatenated[t]]
       PROVE  s < t
  <2>1. Earlier(Concatenated[s], Concatenated[t])
    BY <1>10 DEF Earlier
  <2>2. Ord(s) < Ord(t)
    BY <1>7, <1>8, <2>1
  <2>q. QED
    BY <1>1, <1>6, <2>2
<1>q. QED
  BY <1>9, <1>10
-----------------------------------------------------------------------------
(* Lawful orders.                                                           *)

\* The program order is lawful.
LEMMA OriginalIsLawful ==
  ASSUME Facts
  PROVE  Lawful(Original)
<1>1. slots \in SUBSET Nat /\ slots = Steps /\ IsFiniteSet(Steps)
  BY SlotsFinite DEF Facts
<1>2. Original \in [slots -> slots] /\ \A s \in slots : Original[s] = s
  BY DEF Original
<1>3. IsOrder(Original)
  BY <1>2 DEF IsOrder, Injection, IsInjective
<1>4. Valid(Original)
  BY <1>1, <1>2 DEF Valid, Facts, Pred
<1>5. ASSUME NEW a \in Steps PROVE InRange(a, a)
  <2>1. SUFFICES ASSUME NEW f \in Fixed
                 PROVE  /\ a < f => a <= Max({t \in Steps : t < f})
                        /\ ~(a < f) => a >= Min({t \in Steps : t > f})
    BY DEF InRange
  <2>2. f \in Nat /\ a \in Nat /\ f # a
    BY <1>1, SlotsFinite DEF Fixed
  <2>3. ASSUME a < f PROVE a <= Max({t \in Steps : t < f})
    <3> DEFINE T == {t \in Steps : t < f}
    <3>1. T \in SUBSET Steps /\ a \in T
      BY <2>3
    <3> HIDE DEF T
    <3>2. T \in SUBSET Nat /\ T # {} /\ IsFiniteSet(T)
      BY <1>1, <3>1, FS_Subset
    <3>3. a <= Max(T)
      BY <3>1, <3>2, MaxOfNat
    <3>q. QED
      BY <3>3 DEF T
  <2>4. ASSUME ~(a < f) PROVE a >= Min({t \in Steps : t > f})
    <3> DEFINE T == {t \in Steps : t > f}
    <3>0. a > f
      BY <2>2, <2>4
    <3>1. T \in SUBSET Nat /\ a \in T
      BY <1>1, <3>0
    <3> HIDE DEF T
    <3>2. Min(T) <= a /\ Min(T) \in Nat
      BY <3>1, MinOfNat
    <3>3. a >= Min(T)
      BY <2>2, <3>2
    <3>q. QED
      BY <3>3 DEF T
  <2>q. QED
    BY <2>3, <2>4
<1>6. SlotOK(Original)
  BY <1>1, <1>2, <1>5 DEF SlotOK, Facts
<1>q. QED
  BY <1>3, <1>4, <1>6 DEF Lawful

LEMMA BetterIsLawful ==
  ASSUME Lawful(best), NEW o, Lawful(o)
  PROVE  Lawful(Better(o))
BY DEF Better

\* The hub heuristic moves a step only to where it may be.
LEMMA AnchoredIsLawful ==
  ASSUME Facts, Lawful(draft), NEW a \in slots
  PROVE  Lawful(Anchored(a))
<1> DEFINE cur == CHOOSE s \in slots : draft[s] = a
           others == {s \in slots \ {cur} : Qubits(draft[s]) \cap Qubits(a) # {}}
           med == CHOOSE t \in others :
                    Cardinality({u \in others : u < t}) = Cardinality(others) \div 2
           trial == Moved(draft, cur, med)
<1>1. slots \in SUBSET Nat /\ IsFiniteSet(slots)
  BY SlotsFinite
<1>2. others \in SUBSET slots
  OBVIOUS
<1>3. cur \in slots
  BY OrderIsOnto DEF Lawful
<1>4. ASSUME others # {} PROVE med \in slots
  <2> HIDE DEF others
  <2>1. others \in SUBSET Nat /\ IsFiniteSet(others)
    BY <1>1, <1>2, FS_Subset
  <2>2. Cardinality(others) \in Nat /\ Cardinality(others) # 0
    BY <1>4, <2>1, FS_CardinalityType, FS_EmptySet
  <2>3. Cardinality(others) \div 2 \in 0 .. Cardinality(others) - 1
    BY <2>2
  <2>4. \E t \in others :
          Cardinality({u \in others : u < t}) = Cardinality(others) \div 2
    BY <2>1, <2>3, NatRank
  <2>q. QED
    BY <1>2, <2>4
<1>5. Anchored(a) = IF others # {} /\ SlotOK(trial) /\ Valid(trial)
                    THEN trial ELSE draft
  BY DEF Anchored
<1>6. ASSUME others # {} PROVE IsOrder(trial)
  <2> HIDE DEF others, med, cur
  <2>q. QED
    BY <1>3, <1>4, <1>6, MovedIsOrder DEF Lawful
<1> HIDE DEF others, trial
<1>q. QED
  BY <1>5, <1>6 DEF Lawful
-----------------------------------------------------------------------------
(* Classes.                                                                 *)

\* First fit opens at most one class, after those of the steps in before.
LEMMA FirstFitBounds ==
  ASSUME Facts, NEW a \in slots, NEW before \in SUBSET DOMAIN class,
         DOMAIN class \subseteq slots, class \in [DOMAIN class -> Nat],
         \A b \in DOMAIN class : class[b] < Cardinality(DOMAIN class)
  PROVE  /\ FirstFit(a, before) \in Nat
         /\ FirstFit(a, before) <= Cardinality(DOMAIN class)
         /\ \A b \in before : class[b] < FirstFit(a, before)
<1> DEFINE n == Cardinality(DOMAIN class)
           T == {0} \cup {class[b] + 1 : b \in before}
           C == {c \in Max(T) .. Cardinality(slots) :
                   \A b \in DOMAIN class : class[b] = c => Qubits(b) \cap Qubits(a) = {}}
<1>1. n \in Nat /\ Cardinality(slots) \in Nat /\ n <= Cardinality(slots)
  BY SlotsFinite, FS_Subset, FS_CardinalityType
<1>2. T \in SUBSET Nat /\ \A t \in T : t <= n
  BY <1>1
<1>3. IsFiniteSet(T)
  <2> HIDE DEF T, n
  <2>q. QED BY <1>1, <1>2, FS_BoundedSetOfNaturals
<1>4. Max(T) \in T /\ \A t \in T : t <= Max(T)
  <2>1. T # {}
    OBVIOUS
  <2> HIDE DEF T
  <2>q. QED BY <1>2, <1>3, <2>1, MaxOfNat
<1>5. Max(T) \in Nat /\ Max(T) <= n /\ \A b \in before : class[b] < Max(T)
  <2>1. Max(T) \in Nat /\ Max(T) <= n
    <3> HIDE DEF T
    <3>q. QED BY <1>2, <1>4
  <2>2. ASSUME NEW b \in before PROVE class[b] < Max(T)
    <3>1. class[b] \in Nat /\ class[b] + 1 \in T
      OBVIOUS
    <3>2. class[b] + 1 <= Max(T)
      BY <1>4, <3>1
    <3> HIDE DEF T
    <3>q. QED BY <2>1, <3>1, <3>2
  <2>q. QED
    BY <2>1, <2>2
<1>6. C \in SUBSET Nat /\ n \in C
  <2> HIDE DEF T
  <2>1. n \in Max(T) .. Cardinality(slots)
    BY <1>1, <1>5
  <2>2. \A b \in DOMAIN class : class[b] # n
    BY <1>1
  <2>3. \A c \in Max(T) .. Cardinality(slots) : c \in Nat
    BY <1>1, <1>5
  <2> HIDE DEF n
  <2>q. QED BY <2>1, <2>2, <2>3
<1>7. Min(C) \in C /\ Min(C) <= n
  <2> HIDE DEF C
  <2>q. QED BY <1>6, MinOfNat
<1>8. Min(C) \in Nat /\ Max(T) <= Min(C)
  <2> HIDE DEF T
  <2>q. QED BY <1>1, <1>5, <1>7
<1>9. \A b \in before : class[b] < Min(C)
  <2> HIDE DEF T, C
  <2>1. \A b \in before : class[b] \in Nat
    OBVIOUS
  <2>q. QED BY <1>5, <1>8, <2>1
<1>10. FirstFit(a, before) = Min(C)
  BY DEF FirstFit
<1> HIDE DEF C, T
<1>q. QED
  BY <1>7, <1>8, <1>9, <1>10
-----------------------------------------------------------------------------
(* The invariant is kept.                                                   *)

LEMMA FactsKept ==
  ASSUME Facts, UNCHANGED facts
  PROVE  Facts' /\ Steps' = Steps /\ Positions' = Positions
BY DEF facts, Facts, Steps, Positions, IsStep, Qubits, Anticommutes, Fixed,
       InRange, Pred

LEMMA LawfulKept ==
  ASSUME UNCHANGED facts, NEW o, Lawful(o), best' = o
  PROVE  Lawful(best)'
BY DEF facts, Lawful, IsOrder, SlotOK, Valid

\* Only the colouring and the layering touch the classes.
LEMMA ClassInvKept ==
  ASSUME ClassInv, UNCHANGED <<facts, class>>,
         pc' = pc \/ pc \notin {"colour", "layer"}
  PROVE  ClassInv'
<1>1. CASE pc' = pc
  BY <1>1 DEF ClassInv, facts, Empty
<1>2. CASE pc \notin {"colour", "layer"}
  <2>1. class = Empty /\ DOMAIN class = {}
    BY <1>2 DEF ClassInv, Empty
  <2>2. class' = Empty /\ DOMAIN class' = {} /\ Empty' = Empty
    BY <2>1 DEF Empty
  <2>q. QED
    BY <2>1, <2>2 DEF ClassInv
<1>q. QED
  BY <1>1, <1>2

LEMMA InitOrderInv == Init => OrderInv
<1>1. SUFFICES ASSUME Init PROVE OrderInv
  OBVIOUS
<1>2. Facts
  BY <1>1 DEF Init, Facts
<1>3. best = Original /\ Lawful(best)
  BY <1>1, <1>2, OriginalIsLawful DEF Init, Original
<1>4. DOMAIN draft = {} /\ DOMAIN class = {} /\ draft = Empty /\ class = Empty
  BY <1>1 DEF Init, Empty
<1>5. GreedyInv
  BY <1>4 DEF GreedyInv, Injection, IsInjective, SlotOK, Valid, Placed, Empty
<1>6. ClassInv
  BY <1>1, <1>4 DEF ClassInv, Init, Empty
<1>7. TypeOK
  <2>1. best \in [Steps -> Steps]
    BY <1>1 DEF Init
  <2>2. Steps \subseteq Positions
    BY DEF Steps
  <2>3. draft \in [DOMAIN draft -> Steps]
    BY <1>4 DEF Empty
  <2>4. range \in [Steps -> SUBSET Steps] /\ pred \in [Steps -> SUBSET Steps]
    BY <1>1 DEF Init, Pred
  <2>q. QED
    BY <1>1, <1>4, <2>1, <2>2, <2>3, <2>4, CapsAssumption DEF Init, TypeOK
<1>8. pc \in {"greedy", "done"}
  BY <1>1 DEF Init
<1>q. QED
  BY <1>2, <1>3, <1>5, <1>6, <1>7, <1>8 DEF OrderInv

\* While a step is left there is a first free slot, with no free slot before it.
LEMMA FirstFreeSlot ==
  ASSUME Facts, TypeOK, GreedyInv, Placed # slots
  PROVE  /\ Slot \in slots \ DOMAIN draft
         /\ \A t \in slots : t < Slot => t \in DOMAIN draft
         /\ \A s \in DOMAIN draft : s < Slot
<1> DEFINE D == DOMAIN draft
<1>1. /\ slots \in SUBSET Nat /\ slots = Steps /\ D \subseteq slots
  BY SlotsFinite DEF Facts, TypeOK
<1>2. slots \ D # {}
  <2>1. SUFFICES ASSUME D = slots PROVE FALSE
    BY <1>1
  <2>2. IsOrder(draft)
    BY <2>1 DEF IsOrder, GreedyInv
  <2>3. Placed = slots
    BY <1>1, <2>1, <2>2, OrderIsOnto DEF Placed
  <2>q. QED
    BY <2>3
<1>3. Slot \in slots \ D /\ \A t \in slots \ D : Slot <= t
  BY <1>1, <1>2, MinOfNat DEF Slot
<1>4. \A s \in D : \A t \in slots : t < s => t \in D
  BY DEF GreedyInv
<1>5. \A t \in slots : t < Slot => t \in D
  BY <1>1, <1>3
<1>6. ASSUME NEW s \in D PROVE s < Slot
  <2>1. ~(Slot < s) /\ Slot # s /\ s \in Nat /\ Slot \in Nat
    BY <1>1, <1>3, <1>4
  <2>q. QED
    BY ONLY <2>1
<1>q. QED
  BY <1>3, <1>5, <1>6

LEMMA GreedyPickKeepsInv ==
  ASSUME OrderInv, GreedyPick
  PROVE  OrderInv'
<1>1. /\ Facts /\ TypeOK /\ Lawful(best) /\ GreedyInv /\ ClassInv
      /\ UNCHANGED <<facts, pc, hub, class, best, sweeps>>
      /\ pc = "greedy"
  BY DEF OrderInv, GreedyPick
<1>2. Facts' /\ Steps' = Steps /\ Positions' = Positions
  BY <1>1, FactsKept
<1>3. Lawful(best)'
  BY <1>1, LawfulKept
<1>4. ClassInv'
  BY <1>1, ClassInvKept
<1> DEFINE D == DOMAIN draft
<1>5. /\ slots \in SUBSET Nat /\ slots = Steps /\ D \subseteq slots
      /\ draft \in [D -> slots]
      /\ \A s, t \in D : draft[s] = draft[t] => s = t
  BY <1>1, SlotsFinite DEF Facts, TypeOK, GreedyInv, Injection, IsInjective
<1>7. /\ Slot \in slots \ D
      /\ \A t \in slots : t < Slot => t \in D
      /\ \A s \in D : s < Slot
  BY <1>1, FirstFreeSlot DEF GreedyPick
<1>8. PICK a \in Fitting :
        draft' = [s \in D \cup {Slot} |-> IF s = Slot THEN a ELSE draft[s]]
  BY DEF GreedyPick
<1>9. a \in slots /\ a \notin Placed /\ pred[a] \subseteq Placed /\ Slot \in range[a]
  BY DEF Fitting, Ready
<1>10. /\ DOMAIN draft' = D \cup {Slot} /\ DOMAIN draft' \subseteq slots
       /\ draft'[Slot] = a /\ \A s \in D : draft'[s] = draft[s]
       /\ draft' \in [D \cup {Slot} -> slots]
  BY <1>5, <1>7, <1>8, <1>9
<1>11. \A s \in D : draft[s] \in Placed
  BY DEF Placed
<1>12. Placed' = Placed \cup {a}
  BY <1>7, <1>10 DEF Placed
<1>13. draft' \in Injection(DOMAIN draft', slots)
  BY <1>5, <1>7, <1>9, <1>10, <1>11 DEF Injection, IsInjective
<1>14. \A s \in DOMAIN draft', t \in slots : t < s => t \in DOMAIN draft'
  BY <1>1, <1>7, <1>10 DEF GreedyInv
<1>15. SlotOK(draft)'
  BY <1>1, <1>7, <1>9, <1>10 DEF GreedyInv, SlotOK, facts
<1>16. Valid(draft)'
  <2>1. \A s, t \in D : draft[s] \in pred[draft[t]] => s < t
    BY <1>1 DEF GreedyInv, Valid
  <2>2. \A t \in D : a \notin pred[draft[t]]
    BY <1>1, <1>9, <1>11 DEF GreedyInv
  <2>3. a \notin pred[a]
    BY <1>9
  <2>4. \A s, t \in D \cup {Slot} : draft'[s] \in pred[draft'[t]] => s < t
    BY <1>7, <1>10, <2>1, <2>2, <2>3
  <2>q. QED
    BY <1>1, <1>10, <2>4 DEF Valid, facts
<1>17. (\A b \in Placed : pred[b] \subseteq Placed)'
  BY <1>1, <1>9, <1>12 DEF GreedyInv, facts
<1>18. GreedyInv'
  BY <1>1, <1>13, <1>14, <1>15, <1>16, <1>17 DEF GreedyInv, facts
<1>19. TypeOK'
  BY <1>1, <1>2, <1>5, <1>10 DEF TypeOK, facts
<1>q. QED
  BY <1>1, <1>2, <1>3, <1>4, <1>18, <1>19 DEF OrderInv
LEMMA DraftKept ==
  ASSUME UNCHANGED facts, NEW o, draft' = o
  PROVE  /\ IsOrder(o) => IsOrder(draft)'
         /\ Valid(o) => Valid(draft)'
         /\ Lawful(o) => Lawful(draft)'
BY DEF facts, Lawful, IsOrder, SlotOK, Valid

LEMMA OrderTypes ==
  ASSUME Facts, NEW o, IsOrder(o)
  PROVE  o \in [Steps -> Steps] /\ DOMAIN o = Steps
BY DEF Facts, IsOrder, Injection

\* When every step is placed every slot is filled.
LEMMA GreedyComplete ==
  ASSUME Facts, TypeOK, GreedyInv, Placed = slots
  PROVE  IsOrder(draft)
<1>1. /\ IsFiniteSet(slots) /\ DOMAIN draft \in SUBSET slots
  BY SlotsFinite DEF Facts, TypeOK
<1>2. draft \in Surjection(DOMAIN draft, slots)
  BY DEF Placed, GreedyInv, Injection, Surjection
<1>3. Cardinality(slots) <= Cardinality(DOMAIN draft)
      /\ Cardinality(DOMAIN draft) <= Cardinality(slots)
      /\ Cardinality(slots) \in Nat /\ Cardinality(DOMAIN draft) \in Nat
  BY <1>1, <1>2, FS_Subset, FS_Surjection, FS_CardinalityType
<1>4. DOMAIN draft = slots
  BY <1>1, <1>3, FS_Subset
<1>q. QED
  BY <1>4 DEF GreedyInv, IsOrder

LEMMA GreedyStuckKeepsInv ==
  ASSUME OrderInv, GreedyStuck
  PROVE  OrderInv'
<1>1. /\ Facts /\ TypeOK /\ Lawful(best) /\ ClassInv
      /\ UNCHANGED <<facts, hub, class, best, sweeps>>
      /\ pc = "greedy" /\ pc' = "anchor" /\ draft' = Original
  BY DEF OrderInv, GreedyStuck
<1>2. Facts' /\ Steps' = Steps /\ Positions' = Positions
  BY <1>1, FactsKept
<1>3. Lawful(best)' /\ ClassInv' /\ Lawful(draft)'
  BY <1>1, LawfulKept, ClassInvKept, OriginalIsLawful, DraftKept
<1>4. draft' \in [Steps -> Steps] /\ DOMAIN draft' = Steps
  BY <1>1, OriginalIsLawful, OrderTypes DEF Lawful
<1>5. TypeOK'
  BY <1>1, <1>2, <1>4 DEF TypeOK, facts
<1>q. QED
  BY <1>1, <1>2, <1>3, <1>5 DEF OrderInv

LEMMA OfferKeepsInv ==
  ASSUME OrderInv, Offer
  PROVE  OrderInv'
<1>1. /\ Facts /\ TypeOK /\ Lawful(best) /\ ClassInv
      /\ UNCHANGED <<facts, hub, class, sweeps>> /\ draft' = Original
      /\ \/ pc = "greedy" /\ Placed = slots /\ pc' = "anchor"
         \/ pc = "coloured" /\ pc' = "layer"
         \/ pc = "layered" /\ pc' = "search"
  BY DEF OrderInv, Offer
<1>2. Facts' /\ Steps' = Steps /\ Positions' = Positions
  BY <1>1, FactsKept
<1>3. IsOrder(draft)
  BY <1>1, GreedyComplete DEF OrderInv
<1>4. Lawful(best')
  <2>1. CASE SlotOK(draft) /\ Valid(draft)
    <3>1. best' = Better(draft)
      BY <2>1 DEF Offer
    <3>2. Lawful(Better(draft))
      BY <1>1, <1>3, <2>1, BetterIsLawful DEF Lawful
    <3>q. QED
      BY <3>1, <3>2
  <2>2. CASE ~(SlotOK(draft) /\ Valid(draft))
    <3>1. best' = best
      BY <2>2 DEF Offer
    <3>q. QED
      BY <1>1, <3>1
  <2>q. QED
    BY <2>1, <2>2
<1>5. Lawful(best)' /\ ClassInv' /\ Lawful(draft)'
  BY <1>1, <1>4, LawfulKept, ClassInvKept, OriginalIsLawful, DraftKept
<1>6. draft' \in [Steps -> Steps] /\ DOMAIN draft' = Steps
  BY <1>1, OriginalIsLawful, OrderTypes DEF Lawful
<1>7. best' \in [Steps -> Steps]
  BY <1>1, <1>4, OrderTypes DEF Lawful
<1>8. TypeOK'
  BY <1>1, <1>2, <1>6, <1>7 DEF TypeOK, facts
<1>q. QED
  BY <1>1, <1>2, <1>5, <1>8 DEF OrderInv

\* There is a hub-th step.
LEMMA HubStepExists ==
  ASSUME Facts, hub \in Nat, hub < Cardinality(slots)
  PROVE  HubStep \in slots
<1> DEFINE Bigger(b, a) == \/ Degree(b) > Degree(a)
                           \/ Degree(b) = Degree(a) /\ b < a
           R == {p \in slots \X slots : Bigger(p[1], p[2])}
<1>1. slots \in SUBSET Nat /\ IsFiniteSet(slots) /\ Cardinality(slots) \in Nat
  BY SlotsFinite, FS_CardinalityType
<1>2. \A a \in slots : Degree(a) \in Nat
  BY CircuitsAssumption, FS_CardinalityType
     DEF Degree, Qubits, Facts, Steps, Positions
<1>3. \A a, b \in slots : <<a, b>> \in R <=> Bigger(a, b)
  OBVIOUS
<1>4. StrictTotalOrder(slots, R)
  <2>1. \A a, b, c \in slots : /\ ~Bigger(a, a)
                               /\ Bigger(a, b) /\ Bigger(b, c) => Bigger(a, c)
                               /\ Bigger(a, b) \/ Bigger(b, a) \/ a = b
    BY <1>1, <1>2
  <2> HIDE DEF R, Bigger
  <2>q. QED BY <1>3, <2>1 DEF StrictTotalOrder
<1>5. \A a \in slots : Rank(slots, R, a) = Cardinality({b \in slots : Bigger(b, a)})
  <2>1. SUFFICES ASSUME NEW a \in slots
                 PROVE  {b \in slots : <<b, a>> \in R} = {b \in slots : Bigger(b, a)}
    BY DEF Rank
  <2> HIDE DEF R, Bigger
  <2>q. QED
    BY <1>3
<1>6. hub \in 0 .. Cardinality(slots) - 1
  BY <1>1
<1>7. \E a \in slots : Rank(slots, R, a) = hub
  <2> HIDE DEF R
  <2>q. QED
    BY <1>1, <1>4, <1>6, RankIsOnto
<1>8. \E a \in slots : hub = Cardinality({b \in slots : Bigger(b, a)})
  <2> HIDE DEF R, Bigger
  <2>q. QED
    BY <1>5, <1>7
<1>q. QED
  BY <1>8 DEF HubStep
LEMMA AnchorHubKeepsInv ==
  ASSUME OrderInv, AnchorHub
  PROVE  OrderInv'
<1>1. /\ Facts /\ TypeOK /\ Lawful(best) /\ ClassInv /\ Lawful(draft)
      /\ UNCHANGED <<facts, pc, class, best, sweeps>> /\ pc = "anchor"
      /\ hub < HubCap /\ hub < Cardinality(slots) /\ hub' = hub + 1
      /\ draft' = Anchored(HubStep)
  BY DEF OrderInv, AnchorHub
<1>2. Facts' /\ Steps' = Steps /\ Positions' = Positions
  BY <1>1, FactsKept
<1>3. hub \in Nat
  BY <1>1, CapsAssumption DEF TypeOK
<1>4. Lawful(Anchored(HubStep))
  BY <1>1, <1>3, HubStepExists, AnchoredIsLawful
<1>5. Lawful(best)' /\ ClassInv' /\ Lawful(draft)'
  BY <1>1, <1>4, LawfulKept, ClassInvKept, DraftKept
<1>6. draft' \in [Steps -> Steps] /\ DOMAIN draft' = Steps
  BY <1>1, <1>4, OrderTypes DEF Lawful
<1>7. hub' \in 0 .. HubCap
  BY <1>1, <1>3, CapsAssumption
<1>8. TypeOK'
  BY <1>1, <1>2, <1>6, <1>7 DEF TypeOK, facts
<1>q. QED
  BY <1>1, <1>2, <1>5, <1>8 DEF OrderInv

LEMMA AnchorDoneKeepsInv ==
  ASSUME OrderInv, AnchorDone
  PROVE  OrderInv'
<1>1. /\ Facts /\ TypeOK /\ Lawful(best) /\ ClassInv /\ Lawful(draft)
      /\ UNCHANGED <<facts, draft, hub, class, sweeps>> /\ pc = "anchor"
      /\ pc' \in {"colour", "search"} /\ best' = Better(draft)
  BY DEF OrderInv, AnchorDone
<1>2. Facts' /\ Steps' = Steps /\ Positions' = Positions
  BY <1>1, FactsKept
<1>3. Lawful(best')
  BY <1>1, BetterIsLawful
<1>4. Lawful(best)' /\ ClassInv'
  BY <1>1, <1>3, LawfulKept, ClassInvKept
<1>5. best' \in [Steps -> Steps]
  BY <1>1, <1>3, OrderTypes DEF Lawful
<1>6. TypeOK'
  BY <1>1, <1>2, <1>5 DEF TypeOK, facts
<1>q. QED
  BY <1>1, <1>2, <1>4, <1>6 DEF OrderInv

LEMMA ClassifyKeepsInv ==
  ASSUME OrderInv, Classify
  PROVE  OrderInv'
<1> DEFINE D == DOMAIN class
           a == Min(slots \ D)
           before == IF pc = "layer" THEN pred[a] ELSE {}
           c == FirstFit(a, before)
           n == Cardinality(D)
<1>1. /\ Facts /\ TypeOK /\ Lawful(best) /\ ClassInv
      /\ UNCHANGED <<facts, pc, draft, hub, best, sweeps>>
      /\ pc \in {"colour", "layer"} /\ D # slots
      /\ class' = [b \in D \cup {a} |-> IF b = a THEN c ELSE class[b]]
  BY DEF OrderInv, Classify
<1>2. Facts' /\ Steps' = Steps /\ Positions' = Positions
  BY <1>1, FactsKept
<1>3. Lawful(best)'
  BY <1>1, LawfulKept
<1>4. /\ slots \in SUBSET Nat /\ IsFiniteSet(slots) /\ slots = Steps
      /\ D \subseteq slots /\ class \in [D -> Nat]
      /\ \A b \in D : class[b] < n
  BY <1>1, SlotsFinite DEF Facts, TypeOK, ClassInv
<1>5. a \in slots \ D /\ \A t \in slots \ D : a <= t
  BY <1>1, <1>4, MinOfNat
<1>6. ASSUME pc = "layer" PROVE pred[a] \subseteq D
  <2>1. \A b \in pred[a] : b \in slots /\ b < a
    <3>1. slots = Steps /\ pred = [b \in Steps |-> Pred(b)]
      BY <1>1 DEF Facts
    <3> HIDE DEF a
    <3>q. QED
      BY <1>5, <3>1 DEF Pred
  <2>q. QED
    BY <1>4, <1>5, <2>1
<1>7. c \in Nat /\ c <= n /\ \A b \in before : class[b] < c
  <2>1. before \in SUBSET D
    BY <1>6
  <2> HIDE DEF a, before
  <2>q. QED
    BY <1>1, <1>4, <1>5, <2>1, FirstFitBounds
<1>8. /\ n \in Nat /\ Cardinality(D \cup {a}) = n + 1
  <2>1. IsFiniteSet(D)
    BY <1>4, FS_Subset
  <2> HIDE DEF a
  <2>q. QED
    BY <1>5, <2>1, FS_AddElement, FS_CardinalityType
<1> HIDE DEF a, c
<1>9. /\ DOMAIN class' = D \cup {a} /\ class'[a] = c
      /\ \A b \in D : class'[b] = class[b]
      /\ class' \in [D \cup {a} -> Nat]
  BY <1>1, <1>4, <1>5, <1>7
<1>10. \A b \in DOMAIN class' : class'[b] < Cardinality(DOMAIN class')
  <2>1. \A b \in D : class[b] < n + 1
    BY <1>4, <1>8
  <2>2. c < n + 1
    BY <1>7, <1>8
  <2> HIDE DEF n
  <2>q. QED
    BY <1>8, <1>9, <2>1, <2>2 DEF n
<1>11. ASSUME pc' = "layer", NEW b \in DOMAIN class', NEW e \in pred'[b]
       PROVE  e \in DOMAIN class' /\ class'[e] < class'[b]
  <2>1. pc = "layer" /\ e \in pred[b]
    BY <1>1, <1>11 DEF facts
  <2>2. CASE b \in D
    <3>1. e \in D /\ class[e] < class[b]
      BY <1>1, <2>1, <2>2 DEF ClassInv
    <3>q. QED
      BY <1>9, <2>2, <3>1
  <2>3. CASE b = a
    <3>1. e \in D /\ e \in before
      BY <1>6, <2>1, <2>3
    <3>2. class[e] < c
      BY <1>7, <3>1
    <3>q. QED
      BY <1>9, <2>3, <3>1, <3>2
  <2>q. QED
    BY <1>9, <2>2, <2>3
<1>12. ClassInv'
  BY <1>1, <1>9, <1>10, <1>11 DEF ClassInv
<1>13. TypeOK'
  BY <1>1, <1>2, <1>4, <1>5, <1>9 DEF TypeOK, facts
<1>q. QED
  BY <1>1, <1>2, <1>3, <1>12, <1>13 DEF OrderInv

LEMMA ConcatenateKeepsInv ==
  ASSUME OrderInv, Concatenate
  PROVE  OrderInv'
<1>1. /\ Facts /\ TypeOK /\ Lawful(best) /\ ClassInv
      /\ UNCHANGED <<facts, hub, best, sweeps>>
      /\ DOMAIN class = slots
      /\ \/ pc = "colour" /\ pc' = "coloured"
         \/ pc = "layer" /\ pc' = "layered"
      /\ draft' = Concatenated /\ class' = Empty
  BY DEF OrderInv, Concatenate
<1>2. Facts' /\ Steps' = Steps /\ Positions' = Positions
  BY <1>1, FactsKept
<1>3. Lawful(best)'
  BY <1>1, LawfulKept
<1>4. class \in [slots -> Nat]
  BY <1>1 DEF ClassInv
<1>5. /\ IsOrder(Concatenated)
      /\ \A s, t \in slots :
           class[Concatenated[s]] < class[Concatenated[t]] => s < t
  BY <1>1, <1>4, ConcatenatedIsOrder
<1>6. IsOrder(draft)'
  BY <1>1, <1>5, DraftKept
<1>7. ASSUME pc' = "layered" PROVE Valid(draft)'
  <2>1. \A a \in slots : \A b \in pred[a] : class[b] < class[a]
    BY <1>1, <1>7 DEF ClassInv
  <2>2. Valid(Concatenated)
    BY <1>5, <2>1, OrderTypes DEF Valid, IsOrder, Injection
  <2>q. QED
    BY <1>1, <2>2, DraftKept
<1>8. ClassInv'
  <2>1. DOMAIN class' = {} /\ class' = Empty'
    BY <1>1 DEF Empty
  <2>q. QED
    BY <1>1, <2>1 DEF ClassInv, Empty
<1>9. draft' \in [Steps -> Steps] /\ DOMAIN draft' = Steps /\ DOMAIN class' = {}
  BY <1>1, <1>5, OrderTypes DEF Empty
<1>10. TypeOK'
  BY <1>1, <1>2, <1>9 DEF TypeOK, facts
<1>q. QED
  BY <1>1, <1>2, <1>3, <1>6, <1>7, <1>8, <1>10 DEF OrderInv

LEMMA SearchKeepsInv ==
  ASSUME OrderInv, Search
  PROVE  OrderInv'
<1>1. /\ Facts /\ TypeOK /\ Lawful(best) /\ ClassInv /\ IsOrder(best)
      /\ UNCHANGED <<facts, draft, hub, class>>
      /\ pc = "search"
  BY DEF OrderInv, Search, Lawful
<1>2. Facts' /\ Steps' = Steps /\ Positions' = Positions
  BY <1>1, FactsKept
<1>3. slots \in SUBSET Nat /\ IsFiniteSet(slots)
  BY <1>1, SlotsFinite
<1>4. \A a, b \in slots : IsOrder(Moved(best, a, b))
  BY <1>1, MovedIsOrder
<1>5. ASSUME NEW o \in Exchanges PROVE IsOrder(o)
  <2>1. PICK s \in slots \ {Max(slots)} : o = Moved(best, s, SlotAfter(s))
    BY DEF Exchanges
  <2>2. Max(slots) \in slots /\ s <= Max(slots)
    BY <1>3, <2>1, MaxOfNat
  <2>3. s < Max(slots)
    <3>1. s # Max(slots) /\ s \in Nat /\ Max(slots) \in Nat
      BY <1>3, <2>1, <2>2
    <3>q. QED
      BY ONLY <2>2, <3>1
  <2>4. SlotAfter(s) \in slots
    BY <1>1, <2>1, <2>2, <2>3, Neighbours
  <2>q. QED
    BY <1>4, <2>1, <2>4
<1>6. ASSUME NEW o \in Reinsertions PROVE IsOrder(o)
  BY <1>4 DEF Reinsertions
<1>7. \A o \in Improving(Exchanges) \cup Improving(Reinsertions) : Lawful(o)
  BY <1>5, <1>6 DEF Improving, Lawful
<1>8. \/ /\ MoreSweeps /\ UNCHANGED pc /\ sweeps' = sweeps + 1
         /\ best' \in Improving(Exchanges) \cup Improving(Reinsertions)
      \/ pc' = "done" /\ UNCHANGED <<best, sweeps>>
  BY DEF Search
<1>9. Lawful(best')
  BY <1>1, <1>7, <1>8
<1>10. Lawful(best)' /\ ClassInv'
  BY <1>1, <1>9, LawfulKept, ClassInvKept
<1>11. best' \in [Steps -> Steps]
  BY <1>1, <1>9, OrderTypes DEF Lawful
<1>12. sweeps' \in 0 .. SweepCap
  BY <1>1, <1>8, CapsAssumption DEF TypeOK, MoreSweeps
<1>13. TypeOK'
  BY <1>1, <1>2, <1>8, <1>11, <1>12 DEF TypeOK, facts
<1>q. QED
  BY <1>1, <1>2, <1>8, <1>10, <1>13 DEF OrderInv

THEOREM OrderInvariance == Spec => []OrderInv
<1>1. OrderInv /\ [Next]_vars => OrderInv'
  <2>1. SUFFICES ASSUME OrderInv, [Next]_vars PROVE OrderInv'
    OBVIOUS
  <2>2. ASSUME UNCHANGED vars PROVE OrderInv'
    <3>1. UNCHANGED <<facts, pc, draft, hub, class, best, sweeps>>
      BY <2>2 DEF vars, facts
    <3>2. Facts' /\ Lawful(best)' /\ ClassInv' /\ Steps' = Steps /\ Positions' = Positions
      BY <2>1, <3>1, FactsKept, LawfulKept, ClassInvKept DEF OrderInv
    <3>3. /\ Lawful(draft) => Lawful(draft)'
          /\ IsOrder(draft) => IsOrder(draft)'
          /\ Valid(draft) => Valid(draft)'
      BY <3>1, DraftKept
    <3>4. GreedyInv => GreedyInv'
      BY <3>1 DEF GreedyInv, Placed, SlotOK, Valid, facts
    <3>5. TypeOK'
      BY <2>1, <3>1, <3>2 DEF OrderInv, TypeOK, facts
    <3>q. QED
      BY <2>1, <3>1, <3>2, <3>3, <3>4, <3>5 DEF OrderInv
  <2>q. QED
    BY <2>1, <2>2, GreedyPickKeepsInv, GreedyStuckKeepsInv, OfferKeepsInv,
       AnchorHubKeepsInv, AnchorDoneKeepsInv, ClassifyKeepsInv,
       ConcatenateKeepsInv, SearchKeepsInv
       DEF Next, Work, Halt
<1>q. QED
  BY <1>1, InitOrderInv, PTL DEF Spec
-----------------------------------------------------------------------------
(* Results.                                                                 *)

\* The types of the scheduler's variables, for every program: in particular
\* the local search never makes more sweeps than its cap.
THEOREM TypeCorrect == Spec => []TypeOK
<1>1. OrderInv => TypeOK
  BY DEF OrderInv
<1>q. QED
  BY <1>1, OrderInvariance, PTL

\* Whatever the program, and whichever heuristic and moves won, the schedule
\* returned passes verify_schedule: no step is lost, no fixed operation moves,
\* and no step passes an operation it anticommutes with.
THEOREM ContractHolds == Spec => []Contract
<1>1. OrderInv => Contract
  BY LawfulIsAccepted DEF OrderInv, Contract
<1>q. QED
  BY <1>1, OrderInvariance, PTL

\* At every moment of the search the best order keeps all anticommuting
\* operations of the program, steps and fixed ones, in program order.
THEOREM ProgramOrderHolds == Spec => []ProgramOrder
<1>1. OrderInv => ProgramOrder
  BY LawfulIsAccepted, AcceptedKeepsOrder DEF OrderInv, ProgramOrder
<1>q. QED
  BY <1>1, OrderInvariance, PTL

\* The closes-first greedy never places a step before one it must follow nor
\* outside its range: the checks on its complete order are a safety net.
THEOREM GreedyIsSound == Spec => []GreedySound
<1>1. OrderInv => GreedySound
  BY DEF OrderInv, GreedySound, GreedyInv
<1>q. QED
  BY <1>1, OrderInvariance, PTL

\* The precedence-aware layering keeps anticommuting steps in order.
THEOREM LayeringIsSound == Spec => []LayeringRespectsPrecedence
<1>1. OrderInv => LayeringRespectsPrecedence
  BY DEF OrderInv, LayeringRespectsPrecedence
<1>q. QED
  BY <1>1, OrderInvariance, PTL
-----------------------------------------------------------------------------
(* Progress.                                                                *)

LEMMA Stages8 ==
  ASSUME NEW p
  PROVE  LET st == CHOOSE k \in DOMAIN Stages : Stages[k] = p
         IN  /\ p = "greedy" => st = 1
             /\ p = "anchor" => st = 2
             /\ p = "colour" => st = 3
             /\ p = "coloured" => st = 4
             /\ p = "layer" => st = 5
             /\ p = "layered" => st = 6
             /\ p = "search" => st = 7
             /\ p = "done" => st = 8
BY DEF Stages

\* One more slot filled or one more step classified is one more effort.
LEMMA OneMore ==
  ASSUME NEW S, IsFiniteSet(S), NEW x, x \notin S
  PROVE  Cardinality(S) \in Nat /\ Cardinality(S \cup {x}) = Cardinality(S) + 1
BY FS_AddElement, FS_CardinalityType

\* schedule_ops ends: every step of it moves on to a later heuristic or adds to
\* a bounded effort, for every program, objective and cap.
THEOREM AlwaysAdvances == Spec => Advances
<1> DEFINE Forward == Stage' > Stage \/ (pc' = pc /\ Effort' > Effort)
           StageOf(p) == CHOOSE k \in DOMAIN Stages : Stages[k] = p
<1>1. ASSUME OrderInv, Work PROVE Forward
  <2>1. Stage = StageOf(pc) /\ Stage' = StageOf(pc')
    BY DEF Stage
  <2>2. \A p : /\ p = "greedy" => StageOf(p) = 1
               /\ p = "anchor" => StageOf(p) = 2
               /\ p = "colour" => StageOf(p) = 3
               /\ p = "coloured" => StageOf(p) = 4
               /\ p = "layer" => StageOf(p) = 5
               /\ p = "layered" => StageOf(p) = 6
               /\ p = "search" => StageOf(p) = 7
               /\ p = "done" => StageOf(p) = 8
    BY Stages8
  <2> HIDE DEF StageOf
  <2>3. /\ Facts /\ TypeOK /\ slots = Steps /\ IsFiniteSet(slots)
        /\ DOMAIN draft \subseteq slots /\ DOMAIN class \subseteq slots
        /\ hub \in Nat /\ sweeps \in Nat
    BY <1>1, SlotsFinite, CapsAssumption DEF OrderInv, TypeOK, Facts
  <2>4. /\ IsFiniteSet(DOMAIN draft) /\ IsFiniteSet(DOMAIN class)
        /\ Cardinality(DOMAIN draft) \in Nat /\ Cardinality(DOMAIN class) \in Nat
    BY <2>3, FS_Subset, FS_CardinalityType
  <2>5. ASSUME GreedyPick PROVE Forward
    <3>1. Slot \in slots \ DOMAIN draft
      BY <1>1, <2>3, <2>5, FirstFreeSlot DEF GreedyPick, OrderInv
    <3>2. DOMAIN draft' = DOMAIN draft \cup {Slot}
      BY <2>5 DEF GreedyPick
    <3>3. Cardinality(DOMAIN draft') = Cardinality(DOMAIN draft) + 1
      BY <2>4, <3>1, <3>2, OneMore
    <3>4. UNCHANGED <<pc, hub, class, sweeps>>
      BY <2>5 DEF GreedyPick
    <3>q. QED
      BY <2>3, <2>4, <3>3, <3>4 DEF Effort
  <2>6. ASSUME GreedyStuck \/ Offer \/ AnchorDone \/ Concatenate PROVE Forward
    BY <2>1, <2>2, <2>6 DEF GreedyStuck, Offer, AnchorDone, Concatenate
  <2>7. ASSUME AnchorHub PROVE Forward
    <3>1. UNCHANGED <<pc, class, sweeps>> /\ hub' = hub + 1
      BY <2>7 DEF AnchorHub
    <3>2. DOMAIN draft = slots /\ slots' = slots
      BY <1>1, <2>3, <2>7, OrderTypes DEF AnchorHub, OrderInv, Lawful, facts
    <3>3. OrderInv' /\ pc' = "anchor"
      BY <1>1, <2>7, AnchorHubKeepsInv DEF AnchorHub
    <3>4. DOMAIN draft' = slots
      BY <3>2, <3>3 DEF OrderInv, Lawful, IsOrder, Injection
    <3>q. QED
      BY <2>3, <2>4, <3>1, <3>2, <3>4 DEF Effort
  <2>8. ASSUME Classify PROVE Forward
    <3> DEFINE a == Min(slots \ DOMAIN class)
    <3>1. a \in slots \ DOMAIN class
      <4>1. slots \in SUBSET Nat /\ slots \ DOMAIN class # {}
        BY <2>3, <2>8, SlotsFinite DEF Classify
      <4>q. QED
        BY <4>1, MinOfNat
    <3>2. DOMAIN class' = DOMAIN class \cup {a}
      BY <2>8 DEF Classify
    <3> HIDE DEF a
    <3>3. Cardinality(DOMAIN class') = Cardinality(DOMAIN class) + 1
      BY <2>4, <3>1, <3>2, OneMore
    <3>4. UNCHANGED <<pc, hub, draft, sweeps>>
      BY <2>8 DEF Classify
    <3>q. QED
      BY <2>3, <2>4, <3>3, <3>4 DEF Effort
  <2>9. ASSUME Search PROVE Forward
    <3>1. UNCHANGED <<draft, hub, class>> /\ pc = "search"
      BY <2>9 DEF Search
    <3>2. pc' = "done" \/ (pc' = pc /\ sweeps' = sweeps + 1)
      BY <2>9 DEF Search
    <3>q. QED
      BY <2>1, <2>2, <2>3, <2>4, <3>1, <3>2 DEF Effort
  <2>q. QED
    BY <1>1, <2>5, <2>6, <2>7, <2>8, <2>9 DEF Work
<1>2. OrderInv /\ [Next]_vars => [Forward]_vars
  BY <1>1 DEF Next, Halt
<1> HIDE DEF Forward
<1>3. Spec => [][Forward]_vars
  BY <1>2, OrderInvariance, PTL DEF Spec
<1>q. QED
  BY <1>3 DEF Advances, Forward
=============================================================================
