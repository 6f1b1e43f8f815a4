-------------------------- MODULE PPMGeometry_proofs --------------------------
(***************************************************************************)
(* The ledgers of PPMDriver agree, for any layout and any program: nothing *)
(* is built on a living patch, registered long before or not, and every    *)
(* qubit that goes live is read out.                                       *)
(***************************************************************************)
EXTENDS PPMOrder_proofs

-----------------------------------------------------------------------------
(* What the experiment says.                                                *)

LEMMA Lifetimes ==
  ASSUME Typed
  PROVE  /\ exp.n \in Nat /\ Steps \subseteq Nat /\ \A j \in Steps : j < exp.n
         /\ \A j \in Nat : j < exp.n => j \in Steps
         /\ exp.yset \subseteq Patches
         /\ \A p \in Patches :
              /\ exp.first[p] \in Nat /\ exp.last[p] \in Nat
              /\ \/ exp.first[p] <= exp.last[p] /\ exp.last[p] < exp.n
                 \/ exp.first[p] = 0 /\ exp.last[p] = exp.n
         /\ \A j \in Steps : \A p \in Targets(j) :
              p \in Patches /\ exp.first[p] <= j /\ j <= exp.last[p]
  <1>1. ExperimentOK(exp) /\ exp.n \in Nat /\ Steps \subseteq Nat
    BY Accepted, StepsAreNat DEF Typed
  <1>2. \A j \in Steps : Targets(j) \subseteq Patches
    BY ExperimentTypes DEF Typed, Targets
  <1>3. exp.yset \subseteq Patches
    BY ExperimentTypes DEF Typed
  <1> QED
    BY <1>1, <1>2, <1>3 DEF ExperimentOK, LifetimesOK, Steps, Targets

LEMMA Placement ==
  ASSUME Typed
  PROVE  /\ \A p \in Patches : Home(p) \in Cells
         /\ \A p, q \in Patches : p # q /\ Home(p) = Home(q) =>
              /\ Succeeds(exp, p, q) \/ Succeeds(exp, q, p)
              /\ exp.parallel => exp.first[q] \notin Adjacent
         /\ \A j \in Steps : \A c \in exp.cands[j] :
              c.cells \subseteq Cells /\ c # NoCoupler /\ (j \in Adjacent => c.cells = {})
  <1>1. ExperimentOK(exp)
    BY Accepted DEF Typed
  <1> QED
    BY <1>1 DEF ExperimentOK, PlacementOK, CandidatesOK, Home, Adjacent, Steps

\* Two steps of a batch have the steps between them in it.
LEMMA Between ==
  ASSUME Typed, BatchesSound, NEW j \in Steps, NEW l \in Steps, head[j] <= l, l <= j
  PROVE  head[l] = head[j]
  BY DEF BatchesSound

-----------------------------------------------------------------------------
(* Only eligible steps share a window.                                      *)

LEMMA EligibleStep ==
  ASSUME Typed, BatchesSound, BatchesEligible, Next PROVE BatchesEligible'
  <1>0. exp' = exp /\ Steps' = Steps /\ Steps \subseteq Nat /\ exp.n \in Nat
    BY ExperimentConstant, StepsConstant, StepsAreNat
  <1>h. head \in [Steps -> Steps] /\ i \in Nat
    BY <1>0 DEF Typed, TypeOK
  <1>p. pc \in AtStep => i \in Steps
    BY DEF Typed
  <1>e. ASSUME UNCHANGED <<late, moves>> PROVE \A j : Eligible(j)' <=> Eligible(j)
    BY <1>0, <1>e
    DEF Eligible, Snakes, Lazy, Adjacent, Expired, BirthBatch, Targets
  <1>m. ASSUME UNCHANGED head PROVE \A j : Members(j)' = Members(j)
    BY <1>0, <1>m DEF Members
  <1>1. CASE Plan /\ pc = "plan"
    <2>1. \A j \in Steps : head[j] = j
      BY <1>1 DEF BatchesSound
    <2>2. head' = head /\ pc' \notin InBatchWindow
      BY <1>1
      DEF Plan, Planning, PlanSeam, PlanNothing, PlanRouted, AllocateUpFront, PlanBatch,
          BatchesPlanned, RegisterUpFront, StartCircuit, planVars, InBatchWindow, Goto
    <2> QED
      BY <1>0, <2>1, <2>2 DEF BatchesEligible, InBatchWindow
  <1>2. CASE PlanBatch
    <2>1. /\ i \in Steps /\ pc' = "batches" /\ exp.parallel /\ UNCHANGED <<late, moves>>
          /\ \A j \in Steps : j >= i => head[j] = j
      BY <1>0, <1>h, <1>2 DEF PlanBatch, BatchesSound, Steps
    <2>2. CASE head'[i] = i /\ \A j \in Steps : head'[j] = head[j]
      BY <1>0, <1>e, <2>1, <2>2 DEF BatchesEligible, InBatchWindow
    <2>3. CASE /\ i > 0 /\ Eligible(i) /\ Eligible(i - 1)
               /\ head' = [head EXCEPT ![i] = head[i - 1]]
      <3>0. i - 1 \in Steps /\ head[i - 1] <= i - 1
        BY <1>0, <1>h, <2>1, <2>3 DEF BatchesSound, Steps
      <3>1. ASSUME NEW j \in Steps, NEW l \in Steps, j # l, head'[j] = head'[l]
            PROVE  Eligible(j)
        <4>1. CASE j = i
          BY <2>3, <4>1
        <4>2. CASE j # i /\ l # i
          BY <1>h, <2>3, <3>1, <4>2 DEF BatchesEligible
        <4>3. CASE j # i /\ l = i
          <5>1. head[j] = head[i - 1]
            BY <1>h, <2>1, <2>3, <3>1, <4>3
          <5>2. j = i - 1 \/ Eligible(j)
            BY <3>0, <5>1 DEF BatchesEligible
          <5> QED
            BY <2>3, <5>2
        <4> QED
          BY <3>1, <4>1, <4>2, <4>3
      <3> QED
        BY <1>0, <1>e, <2>1, <3>1 DEF BatchesEligible, InBatchWindow
    <2>4. \/ head' = [head EXCEPT ![i] = head[i - 1]] /\ i > 0 /\ Eligible(i) /\ Eligible(i - 1)
          \/ head' = [head EXCEPT ![i] = i]
      BY <1>2 DEF PlanBatch
    <2> QED
      BY <1>h, <2>1, <2>2, <2>3, <2>4
  <1>3. CASE Plan /\ ~PlanBatch /\ pc # "plan"
    <2>1. UNCHANGED <<head, late, moves>> /\ pc' \notin InBatchWindow
      BY <1>3
      DEF Plan, Planning, PlanSeam, PlanNothing, PlanRouted, AllocateUpFront, PlanBatch,
          BatchesPlanned, RegisterUpFront, StartCircuit, planVars, InBatchWindow, Goto
    <2> QED
      BY <1>0, <1>e, <2>1 DEF BatchesEligible, InBatchWindow
  <1>4. CASE EnterStep
    <2>1. UNCHANGED <<head, late, moves, i, coupler, walls>>
      BY <1>4 DEF EnterStep, planVars
    <2>2. pc' \in InBatchWindow => InBatch(i) /\ \A j \in Members(i) : ~HasRoute(j)
      BY <1>4 DEF EnterStep, InBatchWindow, InBatch, Goto
    <2>3. \A j : HasRoute(j)' <=> HasRoute(j)
      BY <1>0, <2>1 DEF HasRoute, Registered
    <2>4. InBatch(i)' <=> InBatch(i)
      BY <1>0, <2>1 DEF InBatch, Members
    <2> QED
      BY <1>0, <1>e, <1>m, <2>1, <2>2, <2>3, <2>4 DEF BatchesEligible, InBatchWindow
  <1>5. CASE (Loop /\ ~EnterStep) \/ Register \/ Batch \/ Window \/ Halt
    <2>1. /\ (UNCHANGED <<head, late, moves>> /\ pc' # "preamble") \/ UNCHANGED vars
          /\ pc' \in InBatchWindow => pc \in InBatchWindow /\ i' = i
      <3>1. CASE Loop /\ ~EnterStep
        BY <3>1 DEF Loop, FallbackBirth, SkipDone, AtTop,
           DeferredAllocation, RotatePlanned, BringUp, Dispatch, planVars, InBatchWindow, Goto
      <3>2. CASE Register
        BY <3>2 DEF Register, RegisterSnake, RegisterSeam, RotateSeam,
           SeamRefused, RegisterRouted, RotateBlocked, RouteRefused,
           RegisterStep, planVars, InBatchWindow, Goto
      <3>3. CASE Batch
        BY <3>3 DEF Batch, BatchPreamble, BatchSeam, RegisterBatch,
           BatchStarves, BatchRefused, BringUp, Demote, planVars, InBatchWindow, Goto
      <3>4. CASE Window
        BY <3>4 DEF Window, MergeStep, MergeBatch, Merge, Demote, BeginRide,
           Split, FinishRide, RetireConsumed, LeftoverBirth, FinalReadout,
           BringUp, planVars, InBatchWindow, Goto
      <3>5. CASE Halt
        BY <3>5 DEF Halt, vars, Returned, InBatchWindow
      <3> QED
        BY <1>5, <3>1, <3>2, <3>3, <3>4, <3>5
    <2>2. CASE UNCHANGED <<head, late, moves>> /\ pc' # "preamble"
      <3>1. i' = i => (InBatch(i)' <=> InBatch(i))
        BY <1>0, <2>2 DEF InBatch, Members
      <3> QED
        BY <1>0, <1>e, <2>1, <2>2, <3>1 DEF BatchesEligible
    <2>3. CASE UNCHANGED vars
      BY <1>0, <2>3 DEF vars, BatchesEligible, Eligible, Snakes, Lazy, Adjacent, Expired,
         BirthBatch, Targets, InBatch, Members, HasRoute, Registered, InBatchWindow
    <2> QED
      BY <2>1, <2>2, <2>3
  <1> QED
    BY <1>1, <1>2, <1>3, <1>4, <1>5 DEF Next, Build

-----------------------------------------------------------------------------
(* Patches on their way in.                                                 *)

\* Where q is about to be brought up.
Coming(q) ==
  /\ q \in Patches \ InSystem
  /\ birth = {}
  /\ \/ pc = "alloc" /\ q \notin exp.yset /\ exp.first[q] <= i
     \/ pc = "preamble" /\ q \notin exp.yset /\ \E k \in Members(i) : exp.first[q] <= k
     \/ pc = "top" /\ i \in Steps /\ q \in exp.yset /\ exp.first[q] = i
     \/ pc = "top" /\ i = exp.n /\ q \in exp.yset
     \/ pc = "merged" /\ q \in exp.yset /\ exp.first[q] = i + 1

\* Where the steps before i are done, and those of a window are not.
Settled == pc \in {"top"} \cup InBatchWindow \cup InStep \cup {"merged"}

LEMMA EarlierDone ==
  ASSUME Typed, OrderInv, Settled, NEW j \in Steps, j \notin done
  PROVE  i <= j
  BY Lifetimes
  DEF OrderInv, ProgressSound, Settled, BeforeCircuit, InBatchWindow, InStep, Typed, TypeOK

\* A patch that is still to come is not overdue.
LEMMA NotOverdue ==
  ASSUME Typed, OrderInv, GeometryInv, Settled, NEW q \in Patches \ InSystem
  PROVE  i <= exp.first[q] \/ (exp.first[q] = 0 /\ exp.last[q] = exp.n)
  <1>1. SUFFICES ASSUME exp.first[q] < i, exp.last[q] < exp.n PROVE FALSE
    BY Lifetimes DEF Typed, TypeOK
  <1>2. exp.first[q] \in Steps /\ exp.first[q] \in done
    BY <1>1, Lifetimes
    DEF OrderInv, ProgressSound, Settled, BeforeCircuit, InBatchWindow, InStep
  <1>3. q \in exp.yset => q \in allocated
    BY <1>1 DEF GeometryInv, NoneLate, Settled, BeforeCircuit, InBatchWindow, InStep
  <1>4. q \notin exp.yset => q \in allocated
    BY <1>2, Lifetimes DEF GeometryInv, NoneLate, Due
  <1> QED
    BY <1>3, <1>4 DEF InSystem

\* Whoever is alive at a step, and is not an output, has not expired.
LEMMA AliveNotExpired ==
  ASSUME Typed, OrderInv, GeometryInv, Settled, i \in Steps,
         NEW p \in Alive, p \in Patches, exp.liveness, p \notin exp.keep
  PROVE  i <= exp.last[p]
  <1>1. SUFFICES ASSUME exp.last[p] < i PROVE FALSE
    BY Lifetimes
  <1>2. i - 1 \in Steps /\ i - 1 < exp.n - 1 /\ exp.last[p] <= i - 1
    BY <1>1, Lifetimes DEF Typed, TypeOK
  <1>3. i - 1 \in done
    BY <1>2, Lifetimes
    DEF OrderInv, ProgressSound, Settled, BeforeCircuit, InBatchWindow, InStep
  <1>4. exp.last[p] > i - 1
    BY <1>2, <1>3 DEF GeometryInv, NoneOverdue, Settled, InBatchWindow, InStep
  <1> QED
    BY <1>2, <1>4, Lifetimes

\* No step of a batch comes after an expiry, unless it is a direct seam.
LEMMA MembersNotLazy ==
  ASSUME Typed, OrderInv, GeometryInv, NEW k \in Steps, InBatch(k), k \notin Adjacent
  PROVE  Expired(k) = {}
  <1>1. PICK l \in Steps : l # k /\ head[l] = head[k]
    BY DEF InBatch, Members
  <1>2. Eligible(k)
    BY <1>1 DEF GeometryInv, BatchesEligible
  <1> QED
    BY <1>2 DEF Eligible, Lazy

\* A newcomer does not succeed a patch whose time is not over.
LEMMA SuccessorWaits ==
  ASSUME Typed, OrderInv, GeometryInv, NEW q, Coming(q), NEW p \in Patches,
         i <= exp.last[p], Succeeds(exp, p, q), Home(p) = Home(q)
  PROVE  FALSE
  <1>1. /\ exp.liveness /\ p \notin exp.keep /\ i \in Nat
        /\ exp.last[p] + (IF q \in exp.yset THEN 1 ELSE 0) < exp.first[q]
    BY DEF Succeeds, Typed, TypeOK
  <1>2. exp.first[q] \in Nat /\ exp.last[p] \in Nat /\ p # q
    BY <1>1, Lifetimes DEF Coming
  <1>3. CASE pc = "preamble" /\ q \notin exp.yset
    <2>1. PICK m \in Members(i) : exp.first[q] <= m
      BY <1>3 DEF Coming
    <2> DEFINE k == exp.first[q]
    <2>2. /\ i \in Steps /\ m \in Steps /\ k \in Steps /\ i < k /\ k <= m
          /\ head[m] = head[i] /\ head[i] = i
      BY <1>1, <1>2, <1>3, <2>1, Lifetimes
      DEF Members, AtStep, InBatchWindow, Typed, OrderInv, ProgressSound
    <2>3. head[k] = i
      <3> HIDE DEF k
      <3> QED
        BY <2>2, Between, Lifetimes DEF OrderInv
    <2>4. InBatch(k) /\ exp.parallel
      <3>1. k # i /\ head[k] = head[i]
        BY <1>1, <2>2, <2>3, Lifetimes
      <3>2. InBatch(k)
        BY <2>2, <3>1 DEF InBatch, Members
      <3>3. exp.parallel
        BY <2>2, <3>1 DEF GeometryInv, BatchesEligible
      <3> QED
        BY <3>2, <3>3
    <2>5. k \notin Adjacent
      BY <1>2, <2>4, Placement DEF Coming
    <2>6. p \in Expired(k)
      BY <1>1, <1>2, <1>3 DEF Expired
    <2> QED
      BY <2>2, <2>4, <2>5, <2>6, MembersNotLazy
  <1>4. CASE pc = "top" /\ i = exp.n
    BY <1>1, <1>2, <1>4, Lifetimes DEF Coming
  <1> QED
    BY <1>1, <1>2, <1>3, <1>4 DEF Coming

\* Nor is somebody alive whom a newcomer precedes.
LEMMA PredecessorFirst ==
  ASSUME Typed, OrderInv, GeometryInv, Settled, NEW q, Coming(q),
         NEW p \in allocated, p \in Patches, Succeeds(exp, q, p)
  PROVE  FALSE
  <1>1. /\ exp.firstUseInit /\ i \in Nat
        /\ exp.last[q] + (IF p \in exp.yset THEN 1 ELSE 0) < exp.first[p]
    BY DEF Succeeds, Typed, TypeOK
  <1>2. /\ exp.first[q] \in Nat /\ exp.last[q] \in Nat /\ exp.first[p] \in Nat
        /\ exp.first[q] <= exp.last[q] /\ exp.last[q] < exp.n /\ exp.n \in Nat
        /\ exp.first[p] < exp.n \/ exp.first[p] = 0
    BY <1>1, Lifetimes DEF Coming
  <1>3. i <= exp.first[q]
    BY <1>2, NotOverdue, Lifetimes DEF Coming
  <1>4. CASE p \in exp.yset
    BY <1>1, <1>2, <1>3, <1>4 DEF GeometryInv, NoneEarly, InSystem
  <1>5. CASE p \notin exp.yset /\ q \notin exp.yset
    BY <1>1, <1>2, <1>5 DEF GeometryInv, NoneLate, Coming, InSystem
  <1>6. CASE p \notin exp.yset /\ q \in exp.yset
    <2>1. PICK j \in Steps : exp.first[p] <= j /\ head[j] <= i
      BY <1>1, <1>2, <1>6 DEF GeometryInv, NoneEarly
    <2>2. i \in Steps /\ i < j /\ head[i] = head[j]
      BY <1>1, <1>2, <1>3, <2>1, Between, Lifetimes DEF OrderInv
    <2>3. Eligible(i)
      BY <2>2, Lifetimes DEF GeometryInv, BatchesEligible
    <2>4. q \notin BirthBatch(i) \cup BirthBatch(i + 1)
      BY <2>3 DEF Eligible
    <2> QED
      BY <1>6, <2>2, <2>4, Lifetimes DEF Coming, BirthBatch
  <1> QED
    BY <1>4, <1>5, <1>6

\* A newcomer has its cell to itself.
LEMMA ComingApart ==
  ASSUME Typed, OrderInv, GeometryInv, Settled, NEW q, Coming(q),
         NEW p \in Patches, p \in Alive \/ Coming(p), p # q
  PROVE  Home(p) # Home(q)
  <1>1. SUFFICES ASSUME Home(p) = Home(q) PROVE FALSE
    OBVIOUS
  <1>2. q \in Patches /\ (Succeeds(exp, p, q) \/ Succeeds(exp, q, p))
    BY <1>1, Placement DEF Coming
  <1>3. ASSUME NEW a \in Patches, NEW b, Coming(a), Coming(b), Succeeds(exp, a, b),
               Home(a) = Home(b)
        PROVE  FALSE
    <2>1. i <= exp.first[a] \/ (exp.first[a] = 0 /\ exp.last[a] = exp.n)
      BY <1>3, NotOverdue DEF Coming
    <2>2. i <= exp.last[a]
      BY <1>3, <2>1, Lifetimes DEF Typed, TypeOK
    <2> QED
      BY <1>3, <2>2, SuccessorWaits
  <1>4. CASE Coming(p)
    BY <1>1, <1>2, <1>3, <1>4
  <1>5. CASE p \in Alive /\ Succeeds(exp, q, p)
    BY <1>5, PredecessorFirst DEF Alive, Coming
  <1>6. CASE p \in Alive /\ Succeeds(exp, p, q)
    <2>1. i <= exp.last[p]
      <3>1. CASE i \in Steps
        BY <1>6, <3>1, AliveNotExpired DEF Succeeds
      <3>2. CASE i \notin Steps
        <4>1. i = exp.n /\ q \in exp.yset
          BY <3>2, Lifetimes DEF Coming, Typed, AtStep, InBatchWindow, InStep
        <4>2. exp.first[q] = 0 \/ exp.first[q] < exp.n
          BY <1>2, Lifetimes
        <4>3. i <= exp.first[q] \/ (exp.first[q] = 0 /\ exp.last[q] = exp.n)
          BY NotOverdue DEF Coming
        <4> QED
          BY <1>2, <1>6, <4>1, <4>2, <4>3, Lifetimes DEF Succeeds
      <3> QED
        BY <3>1, <3>2
    <2> QED
      BY <1>1, <1>6, <2>1, SuccessorWaits
  <1> QED
    BY <1>2, <1>4, <1>5, <1>6 DEF Coming

\* A newcomer is not in the way of a coupler that has yet to run.
LEMMA ComingAvoids ==
  ASSUME Typed, OrderInv, GeometryInv, Settled, NEW q, Coming(q),
         NEW j \in Registered \ done
  PROVE  Home(q) \notin Corridor(j)
  <1>1. SUFFICES ASSUME Home(q) \in Corridor(j) PROVE FALSE
    OBVIOUS
  <1>2. /\ j + (IF q \in exp.yset THEN 1 ELSE 0) < exp.first[q]
        /\ j \in Steps /\ j \in Nat /\ exp.first[q] \in Nat /\ i \in Nat
    <2>1. q \notin measured
      BY DEF Coming, InSystem, OrderInv, PatchesSound
    <2>2. j + (IF q \in exp.yset THEN 1 ELSE 0) < exp.first[q]
      BY <1>1, <2>1 DEF GeometryInv, CouplersAvoid, Coming
    <2> QED
      BY <2>2, Lifetimes DEF Registered, Coming, Typed, TypeOK
  <1>3. i <= j
    BY <1>2, EarlierDone
  <1>4. CASE pc = "preamble" /\ \E k \in Members(i) : exp.first[q] <= k
    <2>1. PICK k \in Members(i) : exp.first[q] <= k
      BY <1>4
    <2>2. k \in Steps /\ head[k] = head[i] /\ j <= k /\ head[i] = i
      BY <1>2, <1>4, <2>1, Lifetimes
      DEF Members, OrderInv, ProgressSound, InBatchWindow
    <2>3. j \in Members(i)
      BY <1>2, <1>3, <2>2, Between DEF Members, OrderInv
    <2>4. j \in walls
      BY <1>4, <2>3 DEF GeometryInv, BatchesEligible, HasRoute
    <2>5. coupler[j].cells = {}
      BY <1>2, <2>4, Placement DEF GeometryInv, CouplersSound
    <2> QED
      BY <1>1, <2>5 DEF Corridor
  <1>5. CASE pc = "top" /\ i = exp.n
    BY <1>2, <1>3, <1>5, Lifetimes
  <1> QED
    BY <1>2, <1>3, <1>4, <1>5, Lifetimes DEF Coming

\* The members of a window have not run.
LEMMA BatchOpen ==
  ASSUME Typed, OrderInv, pc \in InBatchWindow \cup {"merged"}, head[i] = i, NEW j \in Members(i)
  PROVE  j \in Steps /\ j \notin done /\ i <= j
  <1>1. i \in Steps /\ j \in Steps /\ head[j] = i /\ i <= j
    BY DEF Members, OrderInv, BatchesSound, Typed, AtStep
  <1>2. j \in done => j < i \/ head[j] < i
    BY DEF OrderInv, ProgressSound
  <1> QED
    BY <1>1, <1>2, Lifetimes

LEMMA WindowOpen ==
  ASSUME Typed, OrderInv, pc = "merged"
  PROVE  window \subseteq Steps \ done
  <1>1. i \in Steps /\ i \notin done
    BY DEF OrderInv, ProgressSound, Typed, AtStep
  <1> QED
    BY <1>1, BatchOpen DEF OrderInv, ProgressSound

\* Its couplers are clear of everybody alive, or on the way in.
LEMMA WindowClear ==
  ASSUME Typed, OrderInv, GeometryInv, pc = "merged", NEW j \in window
  PROVE  /\ Corridor(j) \cap Homes(Alive) = {}
         /\ \A q : Coming(q) => Home(q) \notin Corridor(j)
  <1>1. j \in Steps \ done
    BY WindowOpen
  <1>2. CASE j \notin Registered
    BY <1>1, <1>2 DEF Corridor, Registered
  <1>3. CASE j \in Registered
    <2>1. ASSUME NEW p \in Alive, Home(p) \in Corridor(j) PROVE FALSE
      <3>1. p \in Patches /\ p \in InSystem /\ p \notin measured
        BY <2>1 DEF Alive, InSystem, Typed, TypeOK, OrderInv, PatchesSound
      <3> QED
        BY <1>1, <1>3, <2>1, <3>1 DEF GeometryInv, CouplersAvoid
    <2>2. \A q : Coming(q) => Home(q) \notin Corridor(j)
      BY <1>1, <1>3, ComingAvoids DEF Settled
    <2> QED
      BY <2>1, <2>2 DEF Homes
  <1> QED
    BY <1>2, <1>3

-----------------------------------------------------------------------------
(* Arrivals.                                                                *)

\* Newcomers find their cells free, and each gets its own.
LEMMA NoCollision ==
  ASSUME Typed, OrderInv, GeometryInv, Settled,
         NEW S \in SUBSET Patches, \A q \in S : Coming(q)
  PROVE  /\ ~Collides(S)
         /\ \A p, q \in S : Home(p) = Home(q) => p = q
         /\ \A p \in Alive : Home(p) \notin Homes(S)
  <1>1. Alive \subseteq Patches
    BY DEF Alive, Typed, TypeOK
  <1>2. \A q \in S, p \in Alive : Home(p) # Home(q)
    <2>1. \A q \in S, p \in Alive : p # q
      BY DEF Coming, Alive, InSystem
    <2> QED
      BY <1>1, <2>1, ComingApart
  <1>3. \A p, q \in S : Home(p) = Home(q) => p = q
    BY ComingApart
  <1>4. Homes(S) \cap Homes(Alive) = {}
    BY <1>2 DEF Homes
  <1>5. live = Homes(Alive) \cup (IF pc = "merged" THEN UNION {Corridor(j) : j \in window}
                                                   ELSE {})
    BY DEF GeometryInv, CellsSound, LedgerExact, InLoop, Settled, InBatchWindow, InStep
  <1>6. pc = "merged" => Homes(S) \cap UNION {Corridor(j) : j \in window} = {}
    BY WindowClear DEF Homes
  <1>7. ~Collides(S)
    BY <1>4, <1>5, <1>6 DEF Collides
  <1> QED
    BY <1>2, <1>3, <1>7 DEF Homes

\* What every arrival has in common.
Arrives(S) ==
  /\ S \in SUBSET Patches /\ \A q \in S : Coming(q)
  /\ ~Collides(S) /\ BringUp(S, pc')
  /\ \/ allocated' = allocated \cup S /\ birth' = birth /\ birth = {}
     \/ allocated' = allocated /\ birth' = S /\ birth = {} /\ S \subseteq exp.yset
  /\ UNCHANGED <<exp, i, vertical, planVars, pin, measured, coupler, walls, window, done>>

Arriving == FallbackBirth \/ DeferredAllocation \/ BatchPreamble \/ BeginRide \/ LeftoverBirth

LEMMA TargetsAreDue ==
  ASSUME Typed, NEW j \in Steps, NEW p \in Targets(j)
  PROVE  p \in Patches /\ exp.first[p] <= j
  BY Lifetimes

LEMMA Arrival ==
  ASSUME Typed, OrderInv, GeometryInv, Arriving
  PROVE  /\ Settled
         /\ FallbackBirth => Arrives(BirthBatch(i) \ allocated)
                             /\ pc = "top" /\ pc' = "top" /\ i \in Steps
         /\ DeferredAllocation => Arrives(Newly({i})) /\ pc = "alloc" /\ pc' = "rotate"
         /\ BatchPreamble => Arrives(Newly(Members(i))) /\ pc = "preamble" /\ pc' = "seams"
         /\ BeginRide => Arrives(Riders) /\ pc = "merged" /\ pc' = "merged"
         /\ LeftoverBirth => Arrives(exp.yset \ allocated)
                             /\ pc = "top" /\ pc' = "top" /\ i = exp.n
  <1>1. Settled /\ (pc # "merged" => birth = {}) /\ exp.yset \subseteq Patches
    <2>1. Settled
      BY DEF Arriving, FallbackBirth, DeferredAllocation, BatchPreamble, BeginRide,
             LeftoverBirth, Settled, InBatchWindow, InStep
    <2> QED
      BY <2>1, Lifetimes
      DEF OrderInv, PatchesSound, Settled, InBatchWindow, InStep
  <1>2. ASSUME FallbackBirth
        PROVE  Arrives(BirthBatch(i) \ allocated) /\ pc = "top" /\ pc' = "top" /\ i \in Steps
    <2> DEFINE S == BirthBatch(i) \ allocated
    <2>1. pc = "top" /\ i \in Steps
      BY <1>2, Lifetimes DEF FallbackBirth, Typed, TypeOK
    <2>2. S \in SUBSET Patches /\ \A q \in S : Coming(q)
      BY <1>1, <2>1 DEF BirthBatch, Coming, InSystem
    <2>3. ~Collides(S)
      <3> HIDE DEF S
      <3> QED
        BY <1>1, <2>2, NoCollision
    <2> QED
      BY <1>1, <1>2, <2>1, <2>2, <2>3 DEF FallbackBirth, Arrives, BringUp, Goto
  <1>3. ASSUME DeferredAllocation
        PROVE  Arrives(Newly({i})) /\ pc = "alloc" /\ pc' = "rotate"
    <2>1. pc = "alloc" /\ i \in Steps
      BY <1>3 DEF DeferredAllocation, Typed, AtStep, InStep
    <2>2. \A q \in Newly({i}) : q \in Patches \ allocated /\ exp.first[q] <= i
      BY <2>1, TargetsAreDue DEF Newly
    <2>3. \A q \in Newly({i}) : q \notin exp.yset
      <3>1. SUFFICES ASSUME NEW q \in Patches \ allocated, q \in exp.yset, exp.first[q] <= i
                     PROVE  FALSE
        BY <2>2
      <3> QED
        BY <2>1, <3>1, Lifetimes
        DEF GeometryInv, NoneLate, BeforeCircuit, AtStep, InStep
    <2>4. Newly({i}) \in SUBSET Patches /\ \A q \in Newly({i}) : Coming(q)
      BY <1>1, <2>1, <2>2, <2>3 DEF Coming, InSystem
    <2>5. ~Collides(Newly({i}))
      BY <1>1, <2>4, NoCollision
    <2>6. Newly({i}) \cap exp.yset = {}
      BY <2>3
    <2> QED
      BY <1>1, <1>3, <2>1, <2>4, <2>5, <2>6
      DEF DeferredAllocation, Arrives, BringUp, Goto
  <1>4. ASSUME BatchPreamble
        PROVE  Arrives(Newly(Members(i))) /\ pc = "preamble" /\ pc' = "seams"
    <2>1. pc = "preamble" /\ i \in Steps /\ Members(i) \subseteq Steps /\ InBatch(i) /\ head[i] = i
      BY <1>4 DEF BatchPreamble, Typed, AtStep, InBatchWindow, Members,
                  GeometryInv, BatchesEligible, OrderInv, ProgressSound
    <2>2. \A q \in Newly(Members(i)) :
            q \in Patches \ allocated /\ \E k \in Members(i) : exp.first[q] <= k
      BY <2>1, TargetsAreDue DEF Newly
    <2>3. \A j \in Members(i) : Targets(j) \cap exp.yset = {}
      <3>1. \E l \in Members(i) : l # i
        BY <2>1 DEF InBatch, Members
      <3>2. \A j \in Members(i) : \E l \in Steps : l # j /\ head[l] = head[j]
        BY <2>1, <3>1 DEF Members
      <3> QED
        BY <2>1, <3>2 DEF GeometryInv, BatchesEligible, Eligible
    <2>4. \A q \in Newly(Members(i)) : q \notin exp.yset
      BY <2>3 DEF Newly
    <2>5. /\ Newly(Members(i)) \in SUBSET Patches
          /\ \A q \in Newly(Members(i)) : Coming(q)
      BY <1>1, <2>1, <2>2, <2>4 DEF Coming, InSystem
    <2>6. ~Collides(Newly(Members(i)))
      BY <1>1, <2>5, NoCollision
    <2> QED
      BY <1>1, <1>4, <2>1, <2>5, <2>6 DEF BatchPreamble, Arrives, BringUp, Goto
  <1>5. ASSUME BeginRide
        PROVE  Arrives(Riders) /\ pc = "merged" /\ pc' = "merged"
    <2>1. pc = "merged" /\ birth = {}
      BY <1>5 DEF BeginRide
    <2>2. Riders \in SUBSET Patches /\ Riders \subseteq exp.yset /\ \A q \in Riders : Coming(q)
      BY <1>1, <2>1 DEF Riders, BirthBatch, Coming, InSystem
    <2>3. ~Collides(Riders)
      BY <1>1, <2>2, NoCollision
    <2> QED
      BY <1>5, <2>1, <2>2, <2>3 DEF BeginRide, Arrives, BringUp, Goto
  <1>6. ASSUME LeftoverBirth
        PROVE  Arrives(exp.yset \ allocated) /\ pc = "top" /\ pc' = "top" /\ i = exp.n
    <2> DEFINE S == exp.yset \ allocated
    <2>1. pc = "top" /\ i = exp.n
      BY <1>6 DEF LeftoverBirth
    <2>2. S \in SUBSET Patches /\ \A q \in S : Coming(q)
      BY <1>1, <2>1 DEF Coming, InSystem
    <2>3. ~Collides(S)
      <3> HIDE DEF S
      <3> QED
        BY <1>1, <2>2, NoCollision
    <2> QED
      BY <1>1, <1>6, <2>1, <2>2, <2>3 DEF LeftoverBirth, Arrives, BringUp, Goto
  <1> QED
    BY <1>1, <1>2, <1>3, <1>4, <1>5, <1>6

\* What an arrival does to the ledgers.
LEMMA ArrivalCells ==
  ASSUME Typed, OrderInv, GeometryInv, Settled, NEW S, Arrives(S)
  PROVE  /\ Alive' = Alive \cup S /\ InSystem' = InSystem \cup S
         /\ owner' = Claimed(S) /\ live' = live \cup Homes(S)
         /\ \A p \in Alive' : owner'[Home(p)] = p
         /\ \A c \in Cells : owner'[c] \in Patches => Home(owner'[c]) = c
  <1>1. Alive' = Alive \cup S /\ InSystem' = InSystem \cup S
    <2>1. S \cap measured = {}
      BY DEF Arrives, Coming, InSystem, OrderInv, PatchesSound
    <2> QED
      BY <2>1 DEF Arrives, Alive, InSystem
  <1>2. owner' = Claimed(S) /\ live' = live \cup OwnedBy(S, owner')
    BY DEF Arrives, BringUp
  <1>3. /\ S \in SUBSET Patches
        /\ \A p, q \in S : Home(p) = Home(q) => p = q
        /\ \A p \in Alive : Home(p) \notin Homes(S)
    <2>1. S \in SUBSET Patches /\ \A q \in S : Coming(q)
      BY DEF Arrives
    <2> QED
      BY <2>1, NoCollision
  <1>4. \A p \in Patches : Home(p) \in Cells
    BY Placement
  <1>5. \A p \in S : owner'[Home(p)] = p
    <2> SUFFICES ASSUME NEW p \in S PROVE owner'[Home(p)] = p
      OBVIOUS
    <2>1. Home(p) \in Cells /\ Home(p) \in Homes(S)
      BY <1>3, <1>4 DEF Homes
    <2>2. owner'[Home(p)] = CHOOSE q \in S : Home(q) = Home(p)
      BY <1>2, <2>1 DEF Claimed
    <2> QED
      BY <1>3, <2>2
  <1>6. \A p \in Alive : owner'[Home(p)] = p
    <2>1. \A p \in Alive : p \in Patches /\ owner[Home(p)] = p
      BY DEF GeometryInv, CellsSound, StandingOwnsCell, NoFault, Alive, Typed, TypeOK
    <2> QED
      BY <1>2, <1>3, <1>4, <2>1 DEF Claimed
  <1>7. \A c \in Cells : owner'[c] \in Patches => Home(owner'[c]) = c
    <2> SUFFICES ASSUME NEW c \in Cells, owner'[c] \in Patches PROVE Home(owner'[c]) = c
      OBVIOUS
    <2>1. CASE c \in Homes(S)
      <3>1. PICK p \in S : Home(p) = c
        BY <2>1 DEF Homes
      <3> QED
        BY <1>5, <3>1
    <2>2. CASE c \notin Homes(S)
      BY <1>2, <2>2 DEF Claimed, GeometryInv, CellsSound
    <2> QED
      BY <2>1, <2>2
  <1>8. OwnedBy(S, owner') = Homes(S)
    <2>1. Homes(S) \subseteq Cells
      BY <1>3, <1>4 DEF Homes
    <2>2. \A c \in Homes(S) : owner'[c] \in S
      BY <1>5 DEF Homes
    <2>3. \A c \in Cells : owner'[c] \in S => c \in Homes(S)
      <3> SUFFICES ASSUME NEW c \in Cells, owner'[c] \in S PROVE c \in Homes(S)
        OBVIOUS
      <3>1. Home(owner'[c]) = c
        BY <1>3, <1>7
      <3> QED
        BY <3>1 DEF Homes
    <2> QED
      BY <2>1, <2>2, <2>3 DEF OwnedBy
  <1> QED
    BY <1>1, <1>2, <1>5, <1>6, <1>7, <1>8

-----------------------------------------------------------------------------
(* Patches come and go in time.                                             *)

\* The actions by what they do to patches.
Quiet == \/ EnterStep \/ RotatePlanned \/ Register \/ BatchSeam \/ RegisterBatch
         \/ BatchStarves \/ BatchRefused \/ MergeStep \/ MergeBatch \/ Halt
Forward == SkipDone \/ RetireConsumed

LEMMA ActionKinds ==
  Next => \/ Plan \/ Arriving \/ Quiet \/ Forward \/ Split \/ FinishRide \/ FinalReadout
  BY DEF Next, Build, Loop, Batch, Window, Arriving, Quiet, Forward

LEMMA PlanEffects ==
  ASSUME Typed, OrderInv, GeometryInv, Plan
  PROVE  /\ pc \in BeforeCircuit /\ birth = {} /\ birth' = {} /\ measured' = measured
         /\ measured = {} /\ done' = {} /\ live = {} /\ i' \in Nat
         /\ pc' \in BeforeCircuit \cup {"raised", "top"} /\ (pc' = "top" => i' = 0)
         /\ ~AllocateUpFront => allocated' = allocated
         /\ pc' = "raised" => pc = "plan"
         /\ ~StartCircuit => live' = live
         /\ (pc' # "plan" /\ ~AllocateUpFront) => pc # "plan" \/ pc' = "raised"
  <1>1. i \in Nat /\ exp.n \in Nat
    BY Lifetimes DEF Typed, TypeOK
  <1> QED
    BY <1>1
    DEF Plan, Planning, PlanSeam, PlanNothing, PlanRouted, AllocateUpFront, PlanBatch,
        BatchesPlanned, RegisterUpFront, StartCircuit, patchVars, cellVars, planVars, Goto,
        BeforeCircuit, OrderInv, ProgressSound, PatchesSound, GeometryInv, CellsSound

LEMMA QuietEffects ==
  ASSUME Quiet
  PROVE  /\ UNCHANGED <<allocated, birth, measured, done, i, head>>
         /\ pc \in {"plan", "batches", "upfront"} => pc' = pc
  BY DEF Quiet, EnterStep, AtTop, RotatePlanned, Register, RegisterSnake, RegisterSeam, RotateSeam,
     SeamRefused, RegisterRouted, RotateBlocked, RouteRefused, BatchSeam, RegisterBatch,
     BatchStarves, BatchRefused, MergeStep, MergeBatch, Merge, Halt, vars, Returned,
     planVars, patchVars, Demote, Goto

LEMMA EarlyStep ==
  ASSUME Typed, OrderInv, GeometryInv, Next PROVE NoneEarly'
  <1>0. exp' = exp /\ Steps' = Steps /\ i \in Nat
    BY ExperimentConstant, StepsConstant DEF Typed, TypeOK
  <1>l. /\ Steps \subseteq Nat
        /\ \A p \in Patches : exp.first[p] \in Nat
        /\ \A j \in Steps : head[j] \in Nat
        /\ allocated \subseteq Patches /\ birth \subseteq Patches
    BY Lifetimes DEF Typed, TypeOK
  <1>c. NoneEarly /\ pc # "fault" /\ (pc \notin {"merged", "seal"} => birth = {})
    BY DEF GeometryInv, CellsSound, NoFault, OrderInv, PatchesSound
  <1>1. CASE Plan
    <2>1. CASE AllocateUpFront
      <3>1. /\ allocated' = {p \in Patches \ exp.yset : ~exp.firstUseInit \/ exp.first[p] = 0}
            /\ birth' = {}
        BY <2>1, <1>1, PlanEffects DEF AllocateUpFront
      <3> QED
        BY <1>0, <3>1 DEF NoneEarly, InSystem
    <2>2. CASE ~AllocateUpFront
      <3>1. pc \in BeforeCircuit /\ allocated' = allocated /\ birth' = {}
        BY <1>1, <2>2, PlanEffects
      <3> QED
        BY <1>0, <1>c, <3>1 DEF NoneEarly, InSystem
    <2> QED
      BY <2>1, <2>2
  <1>2. CASE Arriving
    <2> USE DEF NoneEarly, InSystem
    <2>0. head' = head /\ i' = i /\ pc \notin BeforeCircuit /\ pc' \notin BeforeCircuit
      BY <1>2, Arrival DEF Arriving, Arrives, planVars, BeforeCircuit
    <2>1. ASSUME NEW S, Arrives(S), pc \in {"alloc", "preamble"}, pc' \notin BeforeCircuit,
                 allocated' = allocated \cup S
          PROVE  NoneEarly'
      <3>1. \A q \in S : q \notin exp.yset
        BY <2>1 DEF Arrives, Coming
      <3>2. \A q \in S : \E j \in Steps : exp.first[q] <= j /\ head[j] <= i
        <4>1. i \in Steps /\ head[i] <= i
          BY <2>1, <1>0 DEF Typed, AtStep, InBatchWindow, InStep, OrderInv, BatchesSound
        <4>2. \A k \in Members(i) : k \in Steps /\ head[k] <= i
          BY <1>0 DEF Members
        <4> QED
          BY <2>1, <4>1, <4>2 DEF Arrives, Coming
      <3>3. birth' = {} /\ birth = {}
        BY <2>1, <3>1 DEF Arrives
      <3> QED
        BY <1>0, <1>c, <2>0, <2>1, <3>1, <3>2, <3>3
    <2>2. ASSUME NEW S, Arrives(S), S \subseteq exp.yset, allocated' = allocated \cup S,
                 \A q \in S : exp.first[q] <= i, pc = "top"
          PROVE  NoneEarly'
      <3>1. birth' = {} /\ birth = {}
        BY <2>2 DEF Arrives, Coming
      <3>2. allocated' \ exp.yset = allocated \ exp.yset
        BY <2>2
      <3>3. \A p \in InSystem' \cap exp.yset : p \in S \/ p \in InSystem \cap exp.yset
        BY <2>2, <3>1
      <3>4. pc \notin {"merged", "seal", "retire"}
        BY <2>2
      <3> QED
        BY <1>0, <1>c, <2>0, <2>2, <3>1, <3>2, <3>3, <3>4
    <2>3. CASE FallbackBirth
      <3>1. Arrives(BirthBatch(i) \ allocated) /\ pc = "top"
        BY <1>2, <2>3, Arrival
      <3>2. BirthBatch(i) \subseteq exp.yset /\ \A q \in BirthBatch(i) : exp.first[q] <= i
        BY <1>0 DEF BirthBatch
      <3> QED
        BY <2>2, <2>3, <3>1, <3>2 DEF FallbackBirth
    <2>4. CASE DeferredAllocation
      BY <1>2, <2>0, <2>1, <2>4, Arrival DEF DeferredAllocation
    <2>5. CASE BatchPreamble
      BY <1>2, <2>0, <2>1, <2>5, Arrival DEF BatchPreamble
    <2>6. CASE BeginRide
      <3>1. Arrives(Riders) /\ pc' = "merged" /\ birth = {} /\ birth' = Riders
        BY <1>2, <2>6, Arrival DEF BeginRide
      <3>2. allocated' = allocated
        BY <2>6 DEF BeginRide
      <3>3. \A q \in Riders : exp.first[q] = i + 1
        BY DEF Riders, BirthBatch
      <3> QED
        <4>1. \A p \in InSystem' \cap exp.yset :
                 exp.first[p] <= i \/ (pc' = "merged" /\ exp.first[p] = i + 1)
          BY <1>c, <3>1, <3>2, <3>3
        <4>2. birth' \subseteq exp.yset
          BY <3>1 DEF Riders, BirthBatch
        <4> HIDE DEF InSystem
        <4> QED
          BY <1>0, <1>c, <2>0, <3>2, <4>1, <4>2
    <2>7. CASE LeftoverBirth
      <3>1. Arrives(exp.yset \ allocated) /\ i = exp.n
        BY <1>2, <2>7, Arrival
      <3>2. \A q \in exp.yset : exp.first[q] <= i
        BY <3>1, Lifetimes
      <3> QED
        BY <2>2, <2>7, <3>1, <3>2, Arrival, <1>2 DEF LeftoverBirth
    <2> QED
      BY <1>2, <2>3, <2>4, <2>5, <2>6, <2>7 DEF Arriving
  <1>3. CASE Quiet
    <2>1. UNCHANGED <<allocated, birth, i, head>>
      BY <1>3, QuietEffects
    <2>2. /\ pc \in BeforeCircuit <=> pc' \in BeforeCircuit
          /\ pc \in {"merged", "seal", "retire"} => pc' = pc
      BY <1>3, <1>c DEF Quiet, EnterStep, AtTop, RotatePlanned, Dispatch, Register, RegisterSnake,
         RegisterSeam, RotateSeam, SeamRefused, RegisterRouted, RotateBlocked, RouteRefused,
         RegisterStep, BatchSeam, RegisterBatch, BatchStarves, BatchRefused, MergeStep, MergeBatch,
         Merge, Halt, vars, Returned, Demote, Goto, BeforeCircuit
    <2> QED
      BY <1>0, <1>c, <2>1, <2>2 DEF NoneEarly, InSystem
  <1>4. CASE Forward
    <2>1. /\ UNCHANGED <<allocated, birth, head>> /\ i' = i + 1
          /\ pc \notin BeforeCircuit /\ pc' = "top"
      BY <1>4 DEF Forward, SkipDone, AtTop, RetireConsumed, planVars, patchVars, Goto, BeforeCircuit
    <2>2. \A j \in Steps : head[j] <= i => head[j] <= i + 1
      BY <1>0, <1>l
    <2>3. \A p \in Patches : exp.first[p] <= i => exp.first[p] <= i + 1
      BY <1>0, <1>l
    <2>4. ASSUME NEW p \in allocated \ exp.yset, exp.firstUseInit, exp.first[p] # 0
          PROVE  \E j \in Steps : exp.first[p] <= j /\ head[j] <= i + 1
      BY <1>c, <2>2, <2>4 DEF NoneEarly
    <2>5. ASSUME NEW p \in InSystem \cap exp.yset PROVE exp.first[p] <= i + 1
      <3>1. exp.first[p] <= i \/ exp.first[p] = i + 1
        BY <1>c, <2>5 DEF NoneEarly
      <3>2. p \in Patches /\ exp.first[p] \in Nat
        BY <1>l, <2>5 DEF InSystem
      <3> QED
        BY <1>0, <2>3, <3>1, <3>2
    <2>6. InSystem' = InSystem /\ pc' \notin BeforeCircuit /\ birth \subseteq exp.yset
      BY <1>c, <2>1 DEF InSystem, BeforeCircuit, NoneEarly
    <2> QED
      BY <1>0, <2>1, <2>4, <2>5, <2>6 DEF NoneEarly
  <1>5. CASE Split \/ FinishRide \/ FinalReadout
    <2>1. /\ allocated' \cup birth' = allocated \cup birth /\ UNCHANGED <<i, head>>
          /\ pc \notin BeforeCircuit /\ pc' \notin BeforeCircuit
          /\ pc \in {"merged", "seal", "retire"} => pc' \in {"merged", "seal", "retire"}
      BY <1>5 DEF Split, FinishRide, FinalReadout, planVars, patchVars, Goto, BeforeCircuit
    <2>2. allocated' \ exp.yset = allocated \ exp.yset
      <3>1. birth \subseteq exp.yset
        BY DEF GeometryInv, NoneEarly
      <3> QED
        BY <1>5, <3>1 DEF Split, FinishRide, FinalReadout, patchVars
    <2>3. birth' \subseteq exp.yset
      BY <1>5, <1>c DEF NoneEarly, Split, FinishRide, FinalReadout, patchVars
    <2> QED
      BY <1>0, <1>c, <2>1, <2>2, <2>3 DEF NoneEarly, InSystem
  <1> QED
    BY <1>1, <1>2, <1>3, <1>4, <1>5, ActionKinds

LEMMA QuietFlow ==
  ASSUME Quiet
  PROVE  /\ pc \notin BeforeCircuit /\ pc' \notin BeforeCircuit
         /\ pc' # "raised" => pc # "raised"
         /\ pc' \in HasTargets => pc \in HasTargets
         /\ pc' \in {"seams", "verify"} => pc \in {"seams", "verify"}
         /\ pc' = "merged" => \/ pc = "merge" /\ window' = {i}
                              \/ pc = "verify" /\ window' = Members(i)
         /\ pc' \in AtStep /\ pc \notin AtStep => BirthBatch(i) \subseteq allocated /\ pc = "top"
         /\ pc \in {"merged", "seal", "retire"} => FALSE
         /\ pc' \in {"seal", "retire"} => FALSE
  BY DEF Quiet, EnterStep, AtTop, RotatePlanned, Dispatch, Register, RegisterSnake,
     RegisterSeam, RotateSeam, SeamRefused, RegisterRouted, RotateBlocked, RouteRefused,
     RegisterStep, BatchSeam, RegisterBatch, BatchStarves, BatchRefused, MergeStep, MergeBatch,
     Merge, Halt, vars, Returned, Demote, Goto, BeforeCircuit, HasTargets, InStep, InBatchWindow,
     AtStep

\* No patch is forgotten, and only the start and the deferred allocations add
\* patches that are not Y.
LEMMA Allocations ==
  ASSUME Typed, OrderInv, GeometryInv, Next
  PROVE  /\ allocated \subseteq allocated'
         /\ \/ allocated' \ exp.yset = allocated \ exp.yset
            \/ AllocateUpFront \/ DeferredAllocation \/ BatchPreamble
  <1>1. CASE Plan
    BY <1>1, PlanEffects DEF OrderInv, PatchesSound, AllocateUpFront
  <1>2. CASE Arriving
    <2>1. \A S : S \subseteq exp.yset /\ allocated' = allocated \cup S
                   => allocated' \ exp.yset = allocated \ exp.yset
      OBVIOUS
    <2>2. FallbackBirth \/ LeftoverBirth
            => \E S : S \subseteq exp.yset /\ allocated' = allocated \cup S
      BY DEF FallbackBirth, LeftoverBirth, BirthBatch
    <2>3. BeginRide => allocated' = allocated
      BY DEF BeginRide
    <2>4. allocated \subseteq allocated'
      BY <1>2, <2>2, <2>3 DEF Arriving, DeferredAllocation, BatchPreamble
    <2> QED
      BY <1>2, <2>1, <2>2, <2>3, <2>4 DEF Arriving
  <1>3. CASE Quiet
    BY <1>3, QuietEffects
  <1>4. CASE Forward \/ Split \/ FinalReadout
    BY <1>4 DEF Forward, SkipDone, RetireConsumed, Split, FinalReadout, patchVars
  <1>5. CASE FinishRide
    BY <1>5 DEF FinishRide, GeometryInv, NoneEarly
  <1> QED
    BY <1>1, <1>2, <1>3, <1>4, <1>5, ActionKinds

LEMMA LateStep ==
  ASSUME Typed, OrderInv, GeometryInv, Next PROVE NoneLate'
  <1>0. exp' = exp /\ Steps' = Steps /\ i \in Nat /\ \A j : Due(j)' = Due(j)
    BY ExperimentConstant, StepsConstant DEF Typed, TypeOK, Due
  <1>l. /\ Steps \subseteq Nat /\ exp.yset \subseteq Patches
        /\ \A p \in Patches : exp.first[p] \in Nat
    BY Lifetimes
  <1>a. allocated \subseteq allocated'
    BY Allocations
  <1>c. NoneLate /\ pc # "fault"
    BY DEF GeometryInv, CellsSound, NoFault
  <1>n. /\ \A p \in Patches \ exp.yset : \A j \in Steps : exp.first[p] <= j => p \in Due(j)
        /\ \A j \in Steps : Due(j) \subseteq Patches
    BY DEF Due
  \* What the start of the circuit promises.
  <1>1. pc' \notin {"plan", "raised"} => \A p \in Patches \ exp.yset :
          ~exp.firstUseInit \/ exp.first[p] = 0 => p \in allocated'
    <2>1. CASE AllocateUpFront
      BY <2>1 DEF AllocateUpFront
    <2>2. ASSUME ~AllocateUpFront, pc' \notin {"plan", "raised"}
          PROVE  pc \notin {"plan", "raised"}
      <3>1. CASE Plan
        BY <2>2, <3>1, PlanEffects DEF BeforeCircuit
      <3>2. CASE Quiet
        BY <2>2, <3>2, QuietFlow DEF BeforeCircuit
      <3>3. CASE Arriving \/ Forward \/ Split \/ FinishRide \/ FinalReadout
        BY <3>3 DEF Arriving, FallbackBirth, DeferredAllocation, BatchPreamble, BeginRide,
           LeftoverBirth, Forward, SkipDone, AtTop, RetireConsumed, Split, FinishRide,
           FinalReadout
      <3> QED
        BY <3>1, <3>2, <3>3, ActionKinds
    <2> QED
      BY <1>a, <1>c, <2>1, <2>2 DEF NoneLate
  \* What runs was complete.
  <1>2. \A j \in done' : Due(j) \subseteq allocated'
    <2>1. CASE Split
      BY <1>a, <1>c, <2>1 DEF Split, NoneLate
    <2>2. CASE ~Split
      <3>1. done' = done \/ done' = {}
        <4>1. CASE Plan
          BY <4>1, PlanEffects
        <4>2. CASE Quiet
          BY <4>2, QuietEffects
        <4>3. CASE Arriving \/ Forward \/ FinishRide \/ FinalReadout
          BY <4>3 DEF Arriving, FallbackBirth, DeferredAllocation, BatchPreamble, BeginRide,
             LeftoverBirth, Forward, SkipDone, RetireConsumed, FinishRide, FinalReadout
        <4> QED
          BY <2>2, <4>1, <4>2, <4>3, ActionKinds
      <3> QED
        BY <1>a, <1>c, <3>1 DEF NoneLate
    <2> QED
      BY <2>1, <2>2
  \* A step in progress has its patches from the deferred allocation on.
  <1>3. pc' \in HasTargets => Due(i') \subseteq allocated'
    <2>1. CASE DeferredAllocation
      <3>1. i \in Steps /\ i' = i /\ allocated' = allocated \cup Newly({i})
        BY <2>1 DEF DeferredAllocation, Typed, AtStep, InStep
      <3> QED
        BY <3>1 DEF Newly, Due
    <2>2. CASE Plan
      BY <2>2, PlanEffects DEF BeforeCircuit, HasTargets, InStep
    <2>3. CASE Quiet
      BY <1>a, <1>c, <2>3, QuietFlow, QuietEffects DEF NoneLate
    <2>4. CASE (Arriving /\ ~DeferredAllocation) \/ Forward \/ Split \/ FinishRide \/ FinalReadout
      <3>1. pc' \notin HasTargets
        <4>1. CASE Arriving /\ ~DeferredAllocation
          BY <4>1, Arrival DEF Arriving, HasTargets, InStep
        <4>2. CASE Forward \/ Split \/ FinishRide \/ FinalReadout
          BY <4>2 DEF Forward, SkipDone, AtTop, RetireConsumed, Split, FinishRide, FinalReadout,
             Goto, HasTargets, InStep
        <4> QED
          BY <2>4, <4>1, <4>2
      <3> QED
        BY <3>1
    <2> QED
      BY <2>1, <2>2, <2>3, <2>4, ActionKinds
  <1>4. pc' \in {"seams", "verify"} => \A j \in Members(i)' : Due(j) \subseteq allocated'
    <2>0. head' = head /\ i' = i => Members(i)' = Members(i)
      BY <1>0 DEF Members
    <2>1. CASE BatchPreamble
      <3>1. head' = head /\ i' = i /\ allocated' = allocated \cup Newly(Members(i))
        BY <2>1 DEF BatchPreamble, planVars
      <3> QED
        BY <2>0, <3>1 DEF Newly, Due
    <2>2. CASE Plan
      BY <2>2, PlanEffects DEF BeforeCircuit
    <2>3. CASE Quiet
      BY <1>a, <1>c, <2>0, <2>3, QuietFlow, QuietEffects DEF NoneLate
    <2>4. CASE (Arriving /\ ~BatchPreamble) \/ Forward \/ Split \/ FinishRide \/ FinalReadout
      <3>1. pc' \notin {"seams", "verify"}
        <4>1. CASE Arriving /\ ~BatchPreamble
          BY <4>1, Arrival DEF Arriving
        <4>2. CASE Forward \/ Split \/ FinishRide \/ FinalReadout
          BY <4>2 DEF Forward, SkipDone, AtTop, RetireConsumed, Split, FinishRide, FinalReadout, Goto
        <4> QED
          BY <2>4, <4>1, <4>2
      <3> QED
        BY <3>1
    <2> QED
      BY <2>1, <2>2, <2>3, <2>4, ActionKinds
  <1>5. pc' = "merged" => \A j \in window' : Due(j) \subseteq allocated'
    <2>1. CASE BeginRide
      BY <1>a, <1>c, <2>1 DEF BeginRide, NoneLate
    <2>2. CASE Plan
      BY <2>2, PlanEffects DEF BeforeCircuit
    <2>3. CASE Quiet
      BY <1>a, <1>c, <2>3, QuietFlow DEF NoneLate, HasTargets, InStep
    <2>4. CASE (Arriving /\ ~BeginRide) \/ Forward \/ Split \/ FinishRide \/ FinalReadout
      <3>1. pc' # "merged"
        <4>1. CASE Arriving /\ ~BeginRide
          BY <4>1, Arrival DEF Arriving
        <4>2. CASE Forward \/ Split \/ FinishRide \/ FinalReadout
          BY <4>2 DEF Forward, SkipDone, AtTop, RetireConsumed, Split, FinishRide, FinalReadout, Goto
        <4> QED
          BY <2>4, <4>1, <4>2
      <3> QED
        BY <3>1
    <2> QED
      BY <2>1, <2>2, <2>3, <2>4, ActionKinds
  \* The Y patches of a step are born before it starts.
  <1>6. pc' \notin BeforeCircuit \cup {"raised"} => \A p \in exp.yset :
          exp.first[p] < i' \/ (pc' \in AtStep /\ exp.first[p] = i') => p \in allocated'
    <2> USE DEF NoneLate
    <2>1. CASE Plan
      <3>1. pc' \in BeforeCircuit \cup {"raised"} \/ (pc' = "top" /\ i' = 0)
        BY <2>1, PlanEffects
      <3> QED
        BY <1>l, <3>1 DEF AtStep, InBatchWindow, InStep
    <2>2. CASE Quiet
      <3>1. i' = i /\ pc \notin BeforeCircuit
        BY <2>2, QuietEffects, QuietFlow
      <3>2. \A p \in exp.yset : exp.first[p] = i => p \in BirthBatch(i)
        BY DEF BirthBatch
      <3> QED
        BY <1>a, <1>c, <2>2, <3>1, <3>2, QuietFlow
    <2>3. CASE SkipDone
      <3>1. /\ pc = "top" /\ i' = i + 1 /\ pc' = "top"
            /\ \A p \in exp.yset : exp.first[p] = i => p \in allocated
        BY <2>3 DEF SkipDone, AtTop, BirthBatch
      <3> QED
        BY <1>0, <1>l, <1>a, <1>c, <3>1 DEF AtStep, InBatchWindow, InStep, BeforeCircuit
    <2>4. CASE RetireConsumed
      <3>1. pc = "retire" /\ i' = i + 1 /\ pc' = "top"
        BY <2>4 DEF RetireConsumed, Goto
      <3> QED
        BY <1>0, <1>l, <1>a, <1>c, <3>1 DEF AtStep, InBatchWindow, InStep, BeforeCircuit
    <2>5. CASE Arriving \/ Split \/ FinishRide \/ FinalReadout
      <3>1. i' = i /\ pc \notin BeforeCircuit \cup {"raised"} /\ (pc' \in AtStep => pc \in AtStep)
        <4>1. CASE Arriving
          BY <4>1, Arrival DEF Arriving, FallbackBirth, DeferredAllocation, BatchPreamble, BeginRide,
             LeftoverBirth, BeforeCircuit, AtStep, InBatchWindow, InStep
        <4>2. CASE Split \/ FinishRide \/ FinalReadout
          BY <4>2 DEF Split, FinishRide, FinalReadout, Goto,
             BeforeCircuit, AtStep, InBatchWindow, InStep
        <4> QED
          BY <2>5, <4>1, <4>2
      <3> QED
        BY <1>a, <1>c, <3>1
    <2> QED
      BY <2>1, <2>2, <2>3, <2>4, <2>5, ActionKinds DEF Forward
  \* Who is due earlier comes no later.
  <1>7. \A p, q \in Patches \ exp.yset :
          p \in allocated' /\ exp.first[q] <= exp.first[p] => q \in allocated'
    <2>1. CASE allocated' \ exp.yset = allocated \ exp.yset
      BY <1>a, <1>c, <2>1 DEF NoneLate
    <2>2. CASE AllocateUpFront
      BY <1>l, <2>2 DEF AllocateUpFront
    <2>3. ASSUME NEW S \in SUBSET Steps, allocated' = allocated \cup Newly(S)
          PROVE  \A p, q \in Patches \ exp.yset :
                   p \in allocated' /\ exp.first[q] <= exp.first[p] => q \in allocated'
      <3> SUFFICES ASSUME NEW p \in Patches \ exp.yset, NEW q \in Patches \ exp.yset,
                          p \in Newly(S), exp.first[q] <= exp.first[p]
                   PROVE  q \in allocated \cup Newly(S)
        BY <1>a, <1>c, <2>3 DEF NoneLate
      <3>1. PICK j \in S : exp.first[p] <= j
        BY TargetsAreDue DEF Newly
      <3>2. exp.first[q] <= j
        BY <1>l, <3>1
      <3> QED
        BY <3>2 DEF Newly
    <2>4. CASE DeferredAllocation
      <3>1. {i} \in SUBSET Steps /\ allocated' = allocated \cup Newly({i})
        BY <2>4 DEF DeferredAllocation, Typed, AtStep, InStep
      <3> QED
        BY <2>3, <3>1
    <2>5. CASE BatchPreamble
      <3>1. Members(i) \in SUBSET Steps /\ allocated' = allocated \cup Newly(Members(i))
        BY <2>5 DEF BatchPreamble, Members
      <3> QED
        BY <2>3, <3>1
    <2> QED
      BY <2>1, <2>2, <2>4, <2>5, Allocations
  <1> QED
    BY <1>0, <1>1, <1>2, <1>3, <1>4, <1>5, <1>6, <1>7 DEF NoneLate

\* A newcomer's lifetime reaches past every step that has run.
LEMMA ComingLasts ==
  ASSUME Typed, OrderInv, GeometryInv, Settled, NEW q, Coming(q),
         NEW j \in done
  PROVE  exp.last[q] > j
  <1>0. /\ j \in Steps /\ Steps \subseteq Nat /\ i \in Nat /\ q \in Patches
        /\ exp.first[q] \in Nat /\ exp.last[q] \in Nat /\ exp.n \in Nat /\ j < exp.n
    BY Lifetimes DEF Typed, TypeOK, Coming
  <1>1. exp.first[q] <= exp.last[q] \/ exp.last[q] = exp.n
    BY <1>0, Lifetimes
  <1>2. CASE q \notin exp.yset
    <2>1. ~(exp.first[q] <= j)
      BY <1>0, <1>2 DEF GeometryInv, NoneLate, Due, Coming, InSystem
    <2> QED
      BY <1>0, <1>1, <2>1
  <1>3. CASE q \in exp.yset
    <2>1. i <= exp.first[q] \/ exp.last[q] = exp.n
      BY NotOverdue DEF Coming
    <2>2. CASE j < i
      BY <1>0, <1>1, <2>1, <2>2
    <2>3. CASE i <= j
      <3>1. head[j] < i
        <4>1. j < i \/ head[j] < i
          BY DEF OrderInv, ProgressSound, Settled
        <4> QED
          BY <1>0, <2>3, <4>1
      <3>2. i \in Steps /\ i < exp.n /\ head[j] \in Steps
        BY <1>0, <2>3, Lifetimes DEF Typed, TypeOK
      <3> DEFINE h == head[j]
      <3>3. h \in Steps /\ h # i /\ h <= i /\ h <= h /\ h <= j
        <4>1. h \in Steps /\ h < i
          BY <3>1, <3>2
        <4> HIDE DEF h
        <4>2. h \in Nat
          BY <1>0, <4>1
        <4> QED
          BY <1>0, <2>3, <4>1, <4>2
      <3>4. head[i] = h /\ head[h] = h
        <4> HIDE DEF h
        <4>1. h = head[j]
          BY DEF h
        <4> QED
          BY <1>0, <2>3, <3>2, <3>3, <4>1, Between DEF OrderInv
      <3>5. Eligible(i)
        <4> HIDE DEF h
        <4> QED
          BY <3>2, <3>3, <3>4 DEF GeometryInv, BatchesEligible
      <3>6. q \notin BirthBatch(i) \cup BirthBatch(i + 1)
        BY <3>5 DEF Eligible
      <3> QED
        BY <1>0, <1>3, <3>2, <3>6 DEF Coming, BirthBatch
    <2> QED
      BY <1>0, <2>2, <2>3
  <1> QED
    BY <1>2, <1>3

LEMMA OverdueStep ==
  ASSUME Typed, OrderInv, GeometryInv, Next PROVE NoneOverdue'
  <1>0. exp' = exp /\ NoneOverdue
    BY ExperimentConstant DEF GeometryInv
  <1>1. CASE Plan
    BY <1>1, PlanEffects DEF NoneOverdue
  <1>2. CASE Quiet
    BY <1>0, <1>2, QuietEffects, QuietFlow DEF NoneOverdue, Alive
  <1>3. CASE Arriving
    <2>1. /\ pc \notin {"seal", "retire"} /\ pc' \notin {"seal", "retire"} /\ Settled
          /\ \E S : Arrives(S)
      BY <1>3, Arrival DEF Arriving
    <2>2. PICK S : Arrives(S)
      BY <2>1
    <2>3. Alive' \subseteq Alive \cup S /\ done' = done
      BY <2>2 DEF Arrives, Alive
    <2>4. \A q \in S, j \in done : exp.last[q] > j
      BY <2>1, <2>2, ComingLasts DEF Arrives
    <2> QED
      BY <1>0, <2>1, <2>3, <2>4 DEF NoneOverdue
  <1>4. CASE SkipDone
    BY <1>0, <1>4 DEF SkipDone, AtTop, patchVars, NoneOverdue, Alive
  <1>5. CASE RetireConsumed
    <2>1. /\ pc = "retire" /\ pc' = "top" /\ birth = {} /\ birth' = {} /\ done' = done
          /\ allocated' = allocated /\ measured' = measured \cup Retiring(window)
      BY <1>5 DEF RetireConsumed, OrderInv, PatchesSound, Goto
    <2>2. \A p \in Alive' : p \in Alive /\ p \in allocated \ measured /\ p \notin Retiring(window)
      BY <2>1 DEF Alive
    <2>3. SUFFICES ASSUME NEW p \in Alive', p \notin exp.keep, NEW j \in done, j < exp.n - 1,
                          exp.liveness
                   PROVE  exp.last[p] > j
      BY <1>0, <2>1 DEF NoneOverdue
    <2>4. CASE j \in window
      <3>1. exp.last[p] \in Nat /\ j \in Nat
        BY <2>2, Lifetimes DEF Typed, TypeOK
      <3>2. ~(exp.last[p] <= j)
        BY <2>2, <2>3, <2>4 DEF Retiring
      <3> QED
        BY <3>1, <3>2
    <2> QED
      BY <1>0, <2>2, <2>3, <2>4 DEF NoneOverdue
  <1>6. CASE Split
    BY <1>0, <1>6 DEF Split, patchVars, NoneOverdue, Alive, Goto
  <1>7. CASE FinishRide \/ FinalReadout
    BY <1>0, <1>7 DEF FinishRide, FinalReadout, NoneOverdue, Alive, Goto
  <1> QED
    BY <1>1, <1>2, <1>3, <1>4, <1>5, <1>6, <1>7, ActionKinds DEF Forward

-----------------------------------------------------------------------------
(* Couplers.                                                                *)

\* The actions that register, or remove, a coupler.
Registering == \/ RegisterUpFront \/ RegisterSnake \/ RegisterSeam \/ RegisterRouted
               \/ RotateSeam \/ RotateBlocked \/ BatchSeam \/ RegisterBatch

LEMMA CouplersStay ==
  ASSUME Next, ~Registering PROVE UNCHANGED <<coupler, walls>>
  <1>1. CASE Plan
    BY <1>1 DEF Registering, Plan, Planning, PlanSeam, PlanNothing, PlanRouted, AllocateUpFront,
       PlanBatch, BatchesPlanned, StartCircuit
  <1>2. CASE Loop
    BY <1>2 DEF Loop, FallbackBirth, SkipDone, EnterStep, DeferredAllocation, RotatePlanned
  <1>3. CASE Register \/ Batch
    BY <1>3 DEF Registering, Register, SeamRefused, RouteRefused, Batch, BatchPreamble,
       BatchStarves, BatchRefused
  <1>4. CASE Window
    BY <1>4 DEF Window, MergeStep, MergeBatch, Merge, BeginRide, Split, FinishRide, RetireConsumed,
       LeftoverBirth, FinalReadout
  <1>5. CASE Halt
    BY <1>5 DEF Halt, vars
  <1> QED
    BY <1>1, <1>2, <1>3, <1>4, <1>5 DEF Next, Build

\* What is registered: a construction of the step, off everybody the router
\* saw; and it sees everybody but for the expired when the step is under way.
Built(j, c) ==
  /\ j \in Steps /\ c \in exp.cands[j]
  /\ pc \in InStep \cup {"seams", "upfront"}
  /\ \/ j \in Adjacent
     \/ /\ \E force, V : c \in Routable(j, View(j, force), V)
        /\ i <= j
        /\ Expired(j) = {} \/ (j = i /\ pc \in InStep)

LEMMA RegistersSound ==
  ASSUME Typed, OrderInv, GeometryInv, Registering
  PROVE  /\ UNCHANGED <<exp, allocated, birth, measured, done, live>>
         /\ \A j \in Steps : coupler'[j] = coupler[j] \/ coupler'[j] = NoCoupler
                             \/ (Built(j, coupler'[j]) /\ j \notin done)
  <1>0. /\ coupler \in [Steps -> Candidates \cup {NoCoupler}]
        /\ pc \in AtStep => i \in Steps
        /\ i \in 0 .. exp.n
    BY DEF Typed, TypeOK
  <1>d. pc \in InStep \cup InBatchWindow => i \notin done
    BY DEF OrderInv, ProgressSound
  <1>1. CASE RegisterUpFront
    <2>1. /\ UNCHANGED <<exp, allocated, birth, measured, done, live>>
          /\ pc = "upfront" /\ i < exp.n
      BY <1>1 DEF RegisterUpFront, patchVars
    <2>2. i \in Steps /\ done = {}
      BY <2>1, <1>0, Lifetimes DEF OrderInv, ProgressSound, BeforeCircuit
    <2>3. \/ coupler' = coupler
          \/ \E c \in Routable(i, View(i, {}), vertical) : coupler' = [coupler EXCEPT ![i] = c]
      BY <1>1 DEF RegisterUpFront
    <2>4. coupler' # coupler => i \notin Adjacent /\ Expired(i) = {}
      BY <1>1, <2>2 DEF RegisterUpFront, Lazy
    <2>5. i <= i
      BY <1>0
    <2>6. \A c \in Routable(i, View(i, {}), vertical) :
            Expired(i) = {} => Built(i, c)
      BY <2>1, <2>2, <2>5 DEF Built, Routable
    <2> QED
      BY <1>0, <2>1, <2>2, <2>3, <2>4, <2>6
  <1>2. CASE RegisterSnake \/ RegisterRouted
    <2>1. /\ UNCHANGED <<exp, allocated, birth, measured, done, live>>
          /\ i \in Steps /\ i \notin done /\ pc \in InStep /\ i <= i
      BY <1>0, <1>d, <1>2 DEF RegisterSnake, RegisterRouted, patchVars, AtStep, InStep
    <2>2. \/ coupler' = coupler
          \/ \E c \in Routable(i, View(i, {}), vertical) : coupler' = [coupler EXCEPT ![i] = c]
      BY <1>2 DEF RegisterSnake, RegisterRouted, RegisterStep
    <2>3. \A c \in Routable(i, View(i, {}), vertical) : Built(i, c)
      BY <2>1 DEF Built, Routable
    <2> QED
      BY <1>0, <2>1, <2>2, <2>3
  <1>3. CASE RegisterSeam
    <2>1. /\ UNCHANGED <<exp, allocated, birth, measured, done, live>>
          /\ i \in Steps /\ i \notin done /\ i \in Adjacent /\ pc \in InStep
      BY <1>0, <1>d, <1>3
      DEF RegisterSeam, patchVars, AtStep, InStep, GeometryInv, CouplersSound
    <2>2. \E c \in exp.cands[i] : coupler' = [coupler EXCEPT ![i] = c]
      BY <1>3 DEF RegisterSeam, RegisterStep
    <2> QED
      BY <1>0, <2>1, <2>2 DEF Built
  <1>4. CASE RotateSeam \/ RotateBlocked
    BY <1>4 DEF RotateSeam, RotateBlocked, Forget, patchVars
  <1>5. CASE BatchSeam
    <2>1. /\ UNCHANGED <<exp, allocated, birth, measured, done, live>> /\ pc = "seams"
      BY <1>5 DEF BatchSeam, patchVars
    <2>2. \/ coupler' = coupler
          \/ \E j \in Members(i) \cap Adjacent : \E c \in exp.cands[j] :
               coupler' = [coupler EXCEPT ![j] = c]
      BY <1>5 DEF BatchSeam
    <2>3. \A j \in Members(i) : j \in Steps /\ j \notin done
      BY <2>1, BatchOpen DEF InBatchWindow, OrderInv, ProgressSound
    <2> QED
      BY <1>0, <2>1, <2>2, <2>3 DEF Built
  <1>6. CASE RegisterBatch
    <2>1. /\ UNCHANGED <<exp, allocated, birth, measured, done, live>> /\ pc = "seams"
      BY <1>6 DEF RegisterBatch, patchVars
    <2>2. PICK f \in Portfolio, R \in SUBSET BatchTodo :
            coupler' = [j \in Steps |-> IF j \in R THEN f[j] ELSE coupler[j]]
      BY <1>6 DEF RegisterBatch
    <2>3. head[i] = i /\ \A j \in Members(i) : j \in Steps /\ j \notin done /\ i <= j
      BY <2>1, BatchOpen DEF InBatchWindow, OrderInv, ProgressSound
    <2>4. \A j \in R : j \in Members(i) /\ j \notin Adjacent
      BY <1>6, <2>2 DEF BatchTodo, RegisterBatch
    <2>5. \A j \in Members(i) : InBatch(j)
      <3>1. Members(head[i]) # {i} /\ i \in Members(i)
        BY <1>0, <2>1, <2>3
        DEF GeometryInv, BatchesEligible, InBatchWindow, AtStep, InBatch, Members
      <3>2. \A j \in Members(i) : head[j] = i
        BY DEF Members
      <3>3. \A j \in Members(i) : Members(i) # {j}
        BY <2>3, <3>1
      <3> QED
        BY <3>2, <3>3 DEF InBatch
    <2>6. \A j \in R : Expired(j) = {}
      BY <2>3, <2>4, <2>5, MembersNotLazy
    <2>7. \A j \in R : f[j] \in exp.cands[j]
                      /\ \E force, V : f[j] \in Routable(j, View(j, force), V)
      BY <2>2, <2>4 DEF Portfolio, BatchTodo, Routable
    <2>8. \A j \in R : Built(j, f[j])
      BY <2>1, <2>3, <2>4, <2>6, <2>7 DEF Built
    <2> QED
      BY <1>0, <2>1, <2>2, <2>3, <2>4, <2>8
  <1> QED
    BY <1>1, <1>2, <1>3, <1>4, <1>5, <1>6 DEF Registering

\* The router's free ground is free until the step has run.
LEMMA BuiltAvoids ==
  ASSUME Typed, OrderInv, GeometryInv, NEW j, NEW c, Built(j, c),
         NEW p \in Patches, Home(p) \in c.cells
  PROVE  \/ p \in measured
         \/ p \notin InSystem /\ j + (IF p \in exp.yset THEN 1 ELSE 0) < exp.first[p]
  <1>0. /\ j \in Steps /\ j \in Nat /\ i \in Nat
        /\ exp.first[p] \in Nat /\ exp.last[p] \in Nat /\ exp.n \in Nat
        /\ exp.first[p] <= exp.last[p] \/ exp.last[p] = exp.n
        /\ j < exp.n
    BY Lifetimes DEF Built, Typed, TypeOK
  <1>1. j \notin Adjacent
    BY Placement DEF Built
  <1>2. i <= j /\ (Expired(j) = {} \/ (j = i /\ pc \in InStep)) /\ p \notin View(j, {})
    <2>1. PICK force, V : c \in Routable(j, View(j, force), V)
      BY <1>1 DEF Built
    <2>2. p \notin View(j, force)
      BY <2>1 DEF Routable, Homes
    <2> QED
      BY <1>1, <2>2 DEF Built, View
  <1>3. CASE p \in Expired(j)
    <2>1. Settled /\ i \in Steps /\ exp.last[p] < i /\ exp.liveness /\ p \notin exp.keep
      BY <1>0, <1>2, <1>3 DEF Settled, Expired
    <2>2. p \in InSystem
      <3>1. ~(i <= exp.first[p]) /\ exp.last[p] # exp.n
        BY <1>0, <1>2, <1>3, <2>1
      <3> QED
        BY <2>1, <3>1, NotOverdue
    <2>3. p \notin Alive
      <3>1. ~(i <= exp.last[p])
        BY <1>0, <2>1
      <3> QED
        BY <2>1, <3>1, AliveNotExpired
    <2> QED
      BY <2>2, <2>3 DEF Alive, InSystem
  <1>4. CASE p \notin Expired(j) /\ p \in exp.yset
    <2>1. ~(j >= exp.first[p] - 2)
      BY <1>2, <1>4 DEF View
    <2>2. j + 1 < exp.first[p] /\ ~(exp.first[p] <= i)
      BY <1>0, <1>2, <2>1
    <2>3. pc \notin {"merged", "seal", "retire"}
      BY DEF Built, InStep
    <2>4. p \notin InSystem
      BY <1>4, <2>2, <2>3 DEF GeometryInv, NoneEarly
    <2> QED
      BY <1>4, <2>2, <2>4
  <1>5. CASE p \notin Expired(j) /\ p \notin exp.yset
    BY <1>0, <1>2, <1>5 DEF View
  <1> QED
    BY <1>3, <1>4, <1>5

LEMMA CouplersSoundStep ==
  ASSUME Typed, OrderInv, GeometryInv, Next PROVE CouplersSound'
  <1>0. exp' = exp /\ Steps' = Steps /\ Adjacent' = Adjacent
    BY ExperimentConstant, StepsConstant DEF Adjacent
  <1>c. CouplersSound
    BY DEF GeometryInv
  <1>1. pc' = "plan" => Registered' = {}
    <2>1. CASE Plan
      <3>1. pc' = "plan" => pc = "plan" /\ UNCHANGED coupler
        BY <2>1 DEF Plan, Planning, PlanSeam, PlanNothing, PlanRouted, AllocateUpFront, PlanBatch,
           BatchesPlanned, RegisterUpFront, StartCircuit, Goto
      <3> QED
        BY <1>0, <1>c, <3>1 DEF CouplersSound, Registered
    <2>2. CASE ~Plan
      <3>1. pc' # "plan"
        <4>1. CASE Arriving
          BY <4>1, Arrival DEF Arriving
        <4>2. CASE Quiet
          BY <4>2, QuietFlow DEF BeforeCircuit
        <4>3. CASE Forward \/ Split \/ FinishRide \/ FinalReadout
          BY <4>3 DEF Forward, SkipDone, AtTop, RetireConsumed, Split, FinishRide, FinalReadout, Goto
        <4> QED
          BY <2>2, <4>1, <4>2, <4>3, ActionKinds
      <3> QED
        BY <3>1
    <2> QED
      BY <2>1, <2>2
  <1>2. \A j \in Registered' : coupler'[j] \in exp'.cands[j]
    <2>1. CASE Registering
      BY <1>0, <1>c, <2>1, RegistersSound DEF CouplersSound, Registered, Built
    <2>2. CASE ~Registering
      BY <1>0, <1>c, <2>2, CouplersStay DEF CouplersSound, Registered
    <2> QED
      BY <2>1, <2>2
  <1>3. walls' \subseteq Adjacent'
    <2>1. CASE RegisterSeam
      BY <1>0, <1>c, <2>1 DEF RegisterSeam, Classify, CouplersSound
    <2>2. CASE BatchSeam
      BY <1>0, <1>c, <2>2 DEF BatchSeam, Classify, CouplersSound
    <2>3. CASE Registering /\ ~RegisterSeam /\ ~BatchSeam
      BY <1>0, <1>c, <2>3 DEF Registering, RegisterUpFront, RegisterSnake, RegisterRouted, RotateSeam,
         RotateBlocked, RegisterBatch, CouplersSound
    <2>4. CASE ~Registering
      BY <1>0, <1>c, <2>4, CouplersStay DEF CouplersSound
    <2> QED
      BY <2>1, <2>2, <2>3, <2>4
  <1>4. pc' \in {"seam", "seam2"} => i' \in Adjacent'
    <2>1. CASE Quiet
      <3>1. i' = i
        BY <2>1, QuietEffects
      <3>2. pc' \in {"seam", "seam2"} => i \in Adjacent
        BY <1>c, <2>1 DEF CouplersSound, Quiet, EnterStep, RotatePlanned, Dispatch, Register,
           RegisterSnake, RegisterSeam, RotateSeam, SeamRefused, RegisterRouted, RotateBlocked,
           RouteRefused, RegisterStep, BatchSeam, RegisterBatch, BatchStarves, BatchRefused,
           MergeStep, MergeBatch, Merge, Halt, vars, Demote, Goto
      <3> QED
        BY <1>0, <3>1, <3>2
    <2>2. CASE ~Quiet
      <3>1. pc' \notin {"seam", "seam2"}
        <4>1. CASE Arriving
          BY <4>1, Arrival DEF Arriving
        <4>2. CASE Plan
          BY <4>2, PlanEffects DEF BeforeCircuit
        <4>3. CASE Forward \/ Split \/ FinishRide \/ FinalReadout
          BY <4>3 DEF Forward, SkipDone, AtTop, RetireConsumed, Split, FinishRide, FinalReadout, Goto
        <4> QED
          BY <2>2, <4>1, <4>2, <4>3, ActionKinds
      <3> QED
        BY <3>1
    <2> QED
      BY <2>1, <2>2
  <1>5. pc' = "merged" => ~Overlap(window)'
    <2>1. CASE MergeStep \/ MergeBatch
      <3>1. coupler' = coupler
        BY <2>1 DEF MergeStep, MergeBatch, Merge
      <3>2. pc' = "merged" => window' = {i} \/ (window' = Members(i) /\ ~Overlap(Members(i)))
        BY <2>1 DEF MergeStep, MergeBatch, Merge, Demote, Goto
      <3> QED
        BY <3>1, <3>2 DEF Overlap, Corridor
    <2>2. CASE BeginRide
      BY <1>c, <2>2 DEF BeginRide, CouplersSound, Overlap, Corridor
    <2>3. CASE ~(MergeStep \/ MergeBatch \/ BeginRide)
      <3>1. pc' # "merged"
        <4>1. CASE Arriving
          BY <2>3, <4>1, Arrival DEF Arriving
        <4>2. CASE Plan
          BY <4>2, PlanEffects DEF BeforeCircuit
        <4>3. CASE Quiet
          BY <2>3, <4>3 DEF Quiet, EnterStep, RotatePlanned, Dispatch, Register,
             RegisterSnake, RegisterSeam, RotateSeam, SeamRefused, RegisterRouted, RotateBlocked,
             RouteRefused, RegisterStep, BatchSeam, RegisterBatch, BatchStarves, BatchRefused,
             Halt, Returned, vars, Demote, Goto
        <4>4. CASE Forward \/ Split \/ FinishRide \/ FinalReadout
          BY <4>4 DEF Forward, SkipDone, AtTop, RetireConsumed, Split, FinishRide, FinalReadout, Goto
        <4> QED
          BY <4>1, <4>2, <4>3, <4>4, ActionKinds
      <3> QED
        BY <3>1
    <2> QED
      BY <2>1, <2>2, <2>3
  <1> QED
    BY <1>0, <1>1, <1>2, <1>3, <1>4, <1>5 DEF CouplersSound

LEMMA CouplersAvoidStep ==
  ASSUME Typed, OrderInv, GeometryInv, Next PROVE CouplersAvoid'
  <1>0. /\ exp' = exp /\ Steps' = Steps /\ \A p : Home(p)' = Home(p)
        /\ exp.yset \subseteq Patches /\ allocated \subseteq Patches
    BY ExperimentConstant, StepsConstant, Lifetimes DEF Home, Typed, TypeOK
  <1>c. CouplersAvoid
    BY DEF GeometryInv
  <1>1. CASE Registering
    <2>1. /\ UNCHANGED <<exp, allocated, birth, measured, done, live>>
          /\ \A j \in Steps : coupler'[j] = coupler[j] \/ coupler'[j] = NoCoupler
                             \/ (Built(j, coupler'[j]) /\ j \notin done)
      BY <1>1, RegistersSound
    <2>2. SUFFICES ASSUME NEW j \in Steps, coupler'[j] # NoCoupler, j \notin done,
                          NEW p \in Patches, Home(p) \in coupler'[j].cells
                   PROVE  \/ p \in measured
                          \/ /\ p \notin InSystem
                             /\ j + (IF p \in exp.yset THEN 1 ELSE 0) < exp.first[p]
      BY <1>0, <2>1 DEF CouplersAvoid, Registered, Corridor, InSystem
    <2>3. CASE coupler'[j] = coupler[j]
      BY <1>c, <2>2, <2>3 DEF CouplersAvoid, Registered, Corridor
    <2>4. CASE Built(j, coupler'[j])
      BY <2>2, <2>4, BuiltAvoids
    <2> QED
      BY <2>1, <2>2, <2>3, <2>4
  <1>2. CASE ~Registering
    <2>1. coupler' = coupler /\ Registered' = Registered /\ \A j : Corridor(j)' = Corridor(j)
      BY <1>0, <1>2, CouplersStay DEF Registered, Corridor
    <2>2. ASSUME done \subseteq done', measured \subseteq measured', InSystem' \subseteq InSystem
          PROVE  CouplersAvoid'
      BY <1>0, <1>c, <2>1, <2>2 DEF CouplersAvoid
    <2>3. CASE Plan
      <3>1. CASE AllocateUpFront
        BY <1>0, <2>1, <3>1 DEF AllocateUpFront, GeometryInv, CouplersSound, CouplersAvoid
      <3>2. CASE ~AllocateUpFront
        <4>1. /\ done = {} /\ measured' = measured /\ birth' = {} /\ birth = {}
              /\ allocated' = allocated
          BY <2>3, <3>2, PlanEffects DEF OrderInv, ProgressSound
        <4> QED
          BY <2>2, <4>1 DEF InSystem
      <3> QED
        BY <3>1, <3>2
    <2>4. CASE Arriving
      <3>1. Settled /\ \E S : Arrives(S)
        BY <2>4, Arrival DEF Arriving
      <3>2. PICK S : Arrives(S)
        BY <3>1
      <3>3. /\ InSystem' = InSystem \cup S /\ done' = done /\ measured' = measured
        BY <3>1, <3>2, ArrivalCells DEF Arrives
      <3>4. \A q \in S, j \in Registered \ done : Home(q) \notin Corridor(j)
        BY <3>1, <3>2, ComingAvoids DEF Arrives
      <3> QED
        BY <1>0, <1>c, <2>1, <3>3, <3>4 DEF CouplersAvoid
    <2>5. CASE Quiet
      BY <2>2, <2>5, QuietEffects DEF InSystem
    <2>6. CASE Forward \/ Split \/ FinishRide \/ FinalReadout
      BY <2>2, <2>6 DEF Forward, SkipDone, RetireConsumed, Split, FinishRide, FinalReadout,
         patchVars, InSystem
    <2> QED
      BY <2>3, <2>4, <2>5, <2>6, ActionKinds
  <1> QED
    BY <1>1, <1>2

-----------------------------------------------------------------------------
(* Owners.                                                                  *)

\* Who owns what, and who is alive where.
OwnersKeep ==
  /\ \A p \in Alive : owner'[Home(p)] = p
  /\ \A c \in Cells : owner'[c] \in Patches => Home(owner'[c]) = c

LEMMA OwnersNow ==
  ASSUME Typed, OrderInv, GeometryInv
  PROVE  /\ \A p \in Alive : p \in Patches /\ p \in InSystem /\ p \notin measured
                             /\ Home(p) \in Cells /\ owner[Home(p)] = p
         /\ \A c \in Cells : owner[c] \in Patches => Home(owner[c]) = c
         /\ UNCHANGED owner => OwnersKeep
  <1>1. \A p \in Alive : p \in Patches /\ p \in InSystem /\ p \notin measured
    BY DEF Alive, InSystem, Typed, TypeOK, OrderInv, PatchesSound,
           GeometryInv, CellsSound, NoFault
  <1> QED
    BY <1>1, Placement DEF GeometryInv, CellsSound, StandingOwnsCell, NoFault, OwnersKeep

\* A coupler about to run is registered off everybody alive.
LEMMA RegisteredClear ==
  ASSUME Typed, OrderInv, GeometryInv, Registering, NEW j \in Steps, j \notin done,
         coupler'[j] # NoCoupler
  PROVE  coupler'[j].cells \cap Homes(Alive) = {}
  <1>1. Next
    BY DEF Registering, Next, Build, Plan, Register, Batch
  <1>2. exp' = exp /\ Steps' = Steps
    BY <1>1, ExperimentConstant, StepsConstant
  <1>3. UNCHANGED <<allocated, birth, measured, done>>
    BY RegistersSound
  <1>4. CouplersAvoid'
    BY <1>1, CouplersAvoidStep
  <1>5. ASSUME NEW p \in Alive, Home(p) \in coupler'[j].cells PROVE FALSE
    <2>1. p \in Patches /\ p \in InSystem /\ p \notin measured
      BY OwnersNow
    <2> QED
      BY <1>2, <1>3, <1>4, <1>5, <2>1 DEF CouplersAvoid, Registered, Corridor, Home, InSystem
  <1> QED
    BY <1>5 DEF Homes

LEMMA PlacedKeeps ==
  ASSUME Typed, OrderInv, GeometryInv, Registering, NEW j \in Steps, j \notin done,
         coupler'[j] # NoCoupler, owner' = Placed(owner, j, coupler'[j])
  PROVE  OwnersKeep
  <1>1. j \notin Patches
    BY NotAPatch, Lifetimes
  <1>2. \A p \in Alive : Home(p) \notin coupler'[j].cells
    BY RegisteredClear, OwnersNow DEF Homes
  <1>3. \A x \in Cells : owner'[x] = IF x \in coupler'[j].cells THEN j ELSE owner[x]
    BY DEF Placed
  <1> QED
    BY <1>1, <1>2, <1>3, OwnersNow DEF OwnersKeep

LEMMA ForgetKeeps ==
  ASSUME Typed, OrderInv, GeometryInv, NEW S, Forget(S)
  PROVE  OwnersKeep
  <1>1. PICK R \in SUBSET Steps : owner' \in Released(R)
    BY DEF Forget, Stale
  <1> DEFINE orphans == {c \in Cells : owner[c] \in R}
  <1>2. \A j \in Steps : j \notin Patches
    BY NotAPatch, Lifetimes
  <1>3. \A c \in Cells \ orphans : owner'[c] = owner[c]
    BY <1>1 DEF Released
  <1>4. \A c \in orphans : owner'[c] \in Heirs(c, R) \cup {Nobody}
    BY <1>1 DEF Released
  <1>5. \A c \in orphans : owner'[c] \in Patches => Home(owner'[c]) = c
    BY <1>2, <1>4, NamesAssumption DEF Heirs, Registered
  <1>6. \A p \in Alive : Home(p) \in Cells \ orphans
    BY <1>2, OwnersNow
  <1> HIDE DEF orphans
  <1> QED
    BY <1>3, <1>5, <1>6, OwnersNow DEF OwnersKeep

LEMMA RegisteringOwners ==
  ASSUME Typed, OrderInv, GeometryInv, Registering
  PROVE  OwnersKeep
  <1>0. coupler \in [Steps -> Candidates \cup {NoCoupler}]
    BY DEF Typed, TypeOK
  <1>s. \A j \in Steps : j \notin Patches
    BY NotAPatch, Lifetimes
  <1>p. \A j \in Steps : \A c \in exp.cands[j] : c # NoCoupler
    BY Placement
  <1>d. /\ pc \in InStep => i \in Steps /\ i \notin done
        /\ pc = "seams" => \A j \in Members(i) : j \in Steps /\ j \notin done
    <2>1. pc \in InStep => i \in Steps /\ i \notin done
      BY DEF OrderInv, ProgressSound, Typed, AtStep
    <2> QED
      BY <2>1, BatchOpen DEF InBatchWindow, OrderInv, ProgressSound
  <1>r. ASSUME NEW j \in Steps, j \notin done, NEW c \in exp.cands[j],
               coupler' = [coupler EXCEPT ![j] = c], owner' = Placed(owner, j, c)
        PROVE  OwnersKeep
    <2>1. coupler'[j] = c /\ c # NoCoupler
      BY <1>0, <1>p, <1>r
    <2> QED
      BY <1>r, <2>1, PlacedKeeps
  <1>1. CASE RegisterUpFront
    <2>1. i \in Steps /\ i \notin done
      BY <1>1, Lifetimes
      DEF RegisterUpFront, Typed, TypeOK, OrderInv, ProgressSound, BeforeCircuit
    <2>2. UNCHANGED owner \/ \E c \in exp.cands[i] :
            coupler' = [coupler EXCEPT ![i] = c] /\ owner' = Placed(owner, i, c)
      BY <1>1 DEF RegisterUpFront, Routable
    <2> QED
      BY <1>r, <2>1, <2>2, OwnersNow
  <1>2. CASE RegisterSnake \/ RegisterSeam \/ RegisterRouted
    <2>1. i \in Steps /\ i \notin done
      BY <1>2, <1>d DEF RegisterSnake, RegisterSeam, RegisterRouted, InStep
    <2>2. UNCHANGED owner \/ \E c \in exp.cands[i] :
            coupler' = [coupler EXCEPT ![i] = c] /\ owner' = Placed(owner, i, c)
      BY <1>2 DEF RegisterSnake, RegisterSeam, RegisterRouted, RegisterStep, Routable
    <2> QED
      BY <1>r, <2>1, <2>2, OwnersNow
  <1>3. CASE RotateSeam \/ RotateBlocked
    BY <1>3, ForgetKeeps DEF RotateSeam, RotateBlocked
  <1>4. CASE BatchSeam
    <2>1. UNCHANGED owner \/ \E j \in Members(i) : \E c \in exp.cands[j] :
            coupler' = [coupler EXCEPT ![j] = c] /\ owner' = Placed(owner, j, c)
      BY <1>4 DEF BatchSeam
    <2>2. pc = "seams"
      BY <1>4 DEF BatchSeam
    <2> QED
      BY <1>r, <1>d, <2>1, <2>2, OwnersNow
  <1>5. CASE RegisterBatch
    <2>1. PICK f \in Portfolio, R \in SUBSET BatchTodo :
            /\ coupler' = [j \in Steps |-> IF j \in R THEN f[j] ELSE coupler[j]]
            /\ owner' = [c \in Cells |->
                 IF \E j \in R : c \in f[j].cells
                 THEN CHOOSE j \in R : c \in f[j].cells ELSE owner[c]]
      BY <1>5 DEF RegisterBatch
    <2>2. \A j \in R : j \in Steps /\ j \notin done /\ coupler'[j] = f[j] /\ f[j] # NoCoupler
      <3>1. pc = "seams"
        BY <1>5 DEF RegisterBatch
      <3>2. \A j \in R : j \in Steps /\ j \notin done
        BY <1>d, <2>1, <3>1 DEF BatchTodo
      <3>3. \A j \in R : f[j] \in exp.cands[j]
        BY <2>1 DEF Portfolio, Routable
      <3> QED
        BY <1>p, <2>1, <3>2, <3>3
    <2>3. \A p \in Alive, j \in R : Home(p) \notin f[j].cells
      BY <2>2, RegisteredClear, OwnersNow DEF Homes
    <2>4. \A c \in Cells : owner'[c] = owner[c] \/ (owner'[c] \in R /\ \E j \in R : c \in f[j].cells)
      <3> SUFFICES ASSUME NEW c \in Cells, NEW j \in R, c \in f[j].cells
                   PROVE  owner'[c] \in R
        BY <2>1
      <3>1. (CHOOSE l \in R : c \in f[l].cells) \in R
        OBVIOUS
      <3> QED
        BY <2>1, <3>1
    <2>5. \A j \in R : j \notin Patches
      BY <1>s, <2>2
    <2> QED
      BY <2>3, <2>4, <2>5, OwnersNow DEF OwnersKeep
  <1> QED
    BY <1>1, <1>2, <1>3, <1>4, <1>5 DEF Registering

-----------------------------------------------------------------------------
(* The ledgers.                                                             *)

\* The homes of some of the living, taken from the live cells.
LEMMA OwnedHomes ==
  ASSUME Typed, OrderInv, GeometryInv, NEW S \in SUBSET Alive
  PROVE  /\ OwnedBy(S, owner) = Homes(S)
         /\ Homes(Alive \ S) = Homes(Alive) \ Homes(S)
  <1>1. \A p \in S : p \in Patches /\ Home(p) \in Cells /\ owner[Home(p)] = p
    BY OwnersNow
  <1>2. ASSUME NEW c \in Cells, owner[c] \in S PROVE c = Home(owner[c])
    BY <1>1, <1>2, OwnersNow
  <1>3. \A p, q \in Alive : Home(p) = Home(q) => p = q
    BY OwnersNow
  <1> QED
    BY <1>1, <1>2, <1>3 DEF OwnedBy, Homes

\* Whatever happens, the living own their homes.
LEMMA OwnersStep ==
  ASSUME Typed, OrderInv, GeometryInv, Next
  PROVE  /\ \A p \in Alive' : owner'[Home(p)] = p
         /\ \A c \in Cells : owner'[c] \in Patches => Home(owner'[c]) = c
  <1>1. CASE Registering
    <2>1. Alive' = Alive
      BY <1>1, RegistersSound DEF Alive
    <2> QED
      BY <1>1, <2>1, RegisteringOwners DEF OwnersKeep
  <1>2. CASE Arriving
    <2>1. Settled /\ \E S : Arrives(S)
      BY <1>2, Arrival DEF Arriving
    <2> QED
      BY <2>1, ArrivalCells
  <1>3. CASE AllocateUpFront
    <2> DEFINE S == {p \in Patches \ exp.yset : ~exp.firstUseInit \/ exp.first[p] = 0}
    <2>1. owner' = Claimed(S) /\ Alive' \subseteq S
      <3>1. birth' = {} /\ allocated' = S /\ owner' = Claimed(S)
        BY <1>3, PlanEffects DEF AllocateUpFront, Plan
      <3> QED
        BY <3>1 DEF Alive
    <2>2. \A p, q \in S : Home(p) = Home(q) => p = q
      <3>1. SUFFICES ASSUME NEW p \in S, NEW q \in S, p # q, Home(p) = Home(q) PROVE FALSE
        OBVIOUS
      <3>2. Succeeds(exp, p, q) \/ Succeeds(exp, q, p)
        BY <3>1, Placement
      <3>3. /\ exp.first[p] \in Nat /\ exp.first[q] \in Nat
            /\ exp.last[p] \in Nat /\ exp.last[q] \in Nat
        BY <3>1, Lifetimes
      <3>4. exp.firstUseInit => exp.first[p] = 0 /\ exp.first[q] = 0
        BY <3>1
      <3> HIDE DEF S
      <3> QED
        BY <3>2, <3>3, <3>4 DEF Succeeds
    <2>3. \A p \in S : p \in Patches /\ Home(p) \in Cells /\ Home(p) \in Homes(S)
      BY Placement DEF Homes
    <2>4. \A c \in Homes(S) : \E p \in S : Home(p) = c
      BY DEF Homes
    <2>5. \A c \in Cells \ Homes(S) : owner'[c] \in Patches => Home(owner'[c]) = c
      BY <2>1, OwnersNow DEF Claimed
    <2>6. \A c \in Cells \cap Homes(S) : owner'[c] = CHOOSE p \in S : Home(p) = c
      BY <2>1 DEF Claimed
    <2> HIDE DEF S
    <2> QED
      BY <2>1, <2>2, <2>3, <2>4, <2>5, <2>6
  <1>4. CASE ~Registering /\ ~Arriving /\ ~AllocateUpFront
    <2>1. Alive' \subseteq Alive /\ owner' = owner
      <3>1. CASE Plan
        <4>1. allocated' = allocated /\ birth' = birth /\ measured' = measured
          BY <1>4, <3>1, PlanEffects
        <4>2. owner' = owner
          BY <1>4, <3>1 DEF Registering, Plan, Planning, PlanSeam, PlanNothing, PlanRouted,
             PlanBatch, BatchesPlanned, StartCircuit, cellVars
        <4> QED
          BY <4>1, <4>2 DEF Alive
      <3>2. CASE Quiet
        BY <1>4, <3>2, QuietEffects DEF Alive, Registering, Quiet, EnterStep, RotatePlanned, Register,
           SeamRefused, RouteRefused, BatchStarves, BatchRefused, MergeStep, MergeBatch, Merge, Halt,
           vars, cellVars
      <3>3. CASE Forward \/ Split \/ FinishRide \/ FinalReadout
        BY <3>3 DEF Alive, Forward, SkipDone, RetireConsumed, Split, FinishRide, FinalReadout,
           patchVars, cellVars
      <3> QED
        BY <1>4, <3>1, <3>2, <3>3, ActionKinds
    <2> QED
      BY <2>1, OwnersNow
  <1> QED
    BY <1>1, <1>2, <1>3, <1>4

LEMMA LedgerStep ==
  ASSUME Typed, OrderInv, GeometryInv, Next PROVE LedgerExact'
  <1> DEFINE Running(pcx, W) == IF pcx = "merged" THEN UNION {Corridor(j) : j \in W} ELSE {}
  <1>0. exp' = exp /\ \A p : Home(p)' = Home(p)
    BY ExperimentConstant DEF Home
  <1>c. UNCHANGED coupler => \A j : Corridor(j)' = Corridor(j)
    BY <1>0 DEF Corridor
  <1>n. InLoop => live = Homes(Alive) \cup Running(pc, window)
    BY DEF GeometryInv, CellsSound, LedgerExact
  <1>f. pc # "fault"
    BY DEF GeometryInv, CellsSound, NoFault
  <1>g. ASSUME pc' = "merged" => UNCHANGED coupler,
               InLoop' => live' = Homes(Alive') \cup Running(pc', window')
        PROVE  LedgerExact'
    BY <1>0, <1>c, <1>g DEF LedgerExact, Homes
  <1>1. CASE Plan
    <2>1. /\ live = {} /\ pc' \in BeforeCircuit \cup {"raised", "top"} /\ Alive' = allocated'
          /\ pc' = "raised" => pc = "plan"
          /\ ~AllocateUpFront => allocated' = allocated
          /\ ~StartCircuit => live' = live
      BY <1>1, PlanEffects DEF Alive
    <2>2. pc' = "top" => StartCircuit
      BY <1>1, <1>f DEF Plan, Planning, PlanSeam, PlanNothing, PlanRouted, AllocateUpFront,
         PlanBatch, BatchesPlanned, RegisterUpFront, StartCircuit, Goto
    <2>3. CASE StartCircuit
      <3>1. /\ pc' = "top" /\ live' = OwnedBy(allocated, owner) /\ ~AllocateUpFront
        BY <2>1, <2>3 DEF StartCircuit, AllocateUpFront, Goto
      <3>2. allocated = Alive
        BY <1>1, PlanEffects DEF Alive
      <3>3. OwnedBy(Alive, owner) = Homes(Alive)
        BY OwnedHomes
      <3>4. live' = Homes(Alive') \cup Running(pc', window')
        BY <2>1, <3>1, <3>2, <3>3
      <3> QED
        BY <1>g, <3>1, <3>4
    <2>4. CASE ~StartCircuit
      <3>1. InLoop' => pc' = "raised" /\ pc = "plan" /\ ~AllocateUpFront
        BY <2>1, <2>2, <2>4 DEF InLoop, BeforeCircuit, AllocateUpFront, Goto
      <3>2. pc = "plan" => allocated = {}
        BY DEF OrderInv, PatchesSound
      <3>3. InLoop' => live' = {} /\ Alive' = {}
        BY <2>1, <2>4, <3>1, <3>2
      <3>4. InLoop' => live' = Homes(Alive') \cup Running(pc', window')
        BY <3>1, <3>3 DEF Homes
      <3> QED
        BY <1>g, <2>1, <3>4 DEF BeforeCircuit
    <2> QED
      BY <2>3, <2>4
  <1>2. CASE Arriving
    <2>1. Settled /\ (\E S : Arrives(S)) /\ (pc' = "merged" <=> pc = "merged")
      BY <1>2, Arrival DEF Arriving
    <2>2. PICK S : Arrives(S)
      BY <2>1
    <2>3. Alive' = Alive \cup S /\ live' = live \cup Homes(S) /\ UNCHANGED <<window, coupler>>
      BY <2>1, <2>2, ArrivalCells DEF Arrives
    <2>4. InLoop
      BY <2>1 DEF Settled, InLoop, InBatchWindow, InStep
    <2>5. Homes(Alive \cup S) = Homes(Alive) \cup Homes(S)
      BY DEF Homes
    <2> QED
      BY <1>g, <1>n, <2>1, <2>3, <2>4, <2>5
  <1>3. CASE MergeStep \/ MergeBatch
    <2>1. Alive' = Alive /\ coupler' = coupler /\ pc # "merged" /\ InLoop
      BY <1>3 DEF MergeStep, MergeBatch, Merge, Alive, patchVars, InLoop
    <2>2. \/ pc' # "merged" /\ live' = live
          \/ pc' = "merged" /\ live' = live \cup UNION {Corridor(j) : j \in window'}
      BY <1>3 DEF MergeStep, MergeBatch, Merge, Demote, Goto, cellVars
    <2> QED
      BY <1>g, <1>n, <2>1, <2>2
  <1>4. CASE Quiet /\ ~MergeStep /\ ~MergeBatch
    <2>1. live' = live
      BY <1>4 DEF Quiet, EnterStep, RotatePlanned, Register, RegisterSnake, RegisterSeam, RotateSeam,
         SeamRefused, RegisterRouted, RotateBlocked, RouteRefused, BatchSeam, RegisterBatch,
         BatchStarves, BatchRefused, Halt, vars, cellVars
    <2>2. Alive' = Alive /\ pc # "merged" /\ pc \notin BeforeCircuit
      BY <1>4, QuietEffects, QuietFlow DEF Alive
    <2>3. pc' # "merged"
      BY <1>4 DEF Quiet, EnterStep, RotatePlanned, Dispatch, Register, RegisterSnake, RegisterSeam,
         RotateSeam, SeamRefused, RegisterRouted, RotateBlocked, RouteRefused, RegisterStep,
         BatchSeam, RegisterBatch, BatchStarves, BatchRefused, Halt, Returned, vars, Demote, Goto
    <2>4. InLoop
      BY <1>f, <2>2 DEF InLoop, BeforeCircuit
    <2> QED
      BY <1>g, <1>n, <2>1, <2>2, <2>3, <2>4
  <1>5. CASE SkipDone \/ FinishRide
    <2>1. Alive' = Alive /\ live' = live /\ pc # "merged" /\ pc' # "merged" /\ InLoop
      <3>1. birth \cap measured = {}
        BY OwnersNow DEF Alive
      <3> QED
        BY <1>5, <3>1 DEF SkipDone, AtTop, FinishRide, Alive, patchVars, cellVars, InLoop, Goto
    <2> QED
      BY <1>g, <1>n, <2>1
  <1>6. CASE Split
    <2>1. /\ pc = "merged" /\ pc' # "merged" /\ InLoop /\ Alive' = Alive
          /\ live' = live \ UNION {Corridor(j) : j \in window}
      BY <1>6 DEF Split, Alive, patchVars, InLoop, Goto
    <2>2. Homes(Alive) \cap UNION {Corridor(j) : j \in window} = {}
      BY <2>1, WindowClear
    <2>3. live' = Homes(Alive)
      BY <1>n, <2>1, <2>2
    <2> QED
      BY <1>g, <2>1, <2>3
  <1>7. CASE RetireConsumed \/ FinalReadout
    <2>1. /\ pc # "merged" /\ pc' # "merged" /\ InLoop /\ birth = {} /\ birth' = {}
          /\ allocated' = allocated
      BY <1>7 DEF RetireConsumed, FinalReadout, OrderInv, PatchesSound, InLoop, Goto
    <2>2. PICK S \in SUBSET Alive :
            live' = live \ OwnedBy(S, owner) /\ measured' = measured \cup S
      <3>1. CASE RetireConsumed
        BY <3>1 DEF RetireConsumed, Retiring, Alive
      <3>2. CASE FinalReadout
        <4> DEFINE S == {p \in Patches \ measured : \E c \in Cells : owner[c] = p}
        <4>1. S \subseteq Alive
          BY <2>1 DEF OrderInv, PatchesSound, InSystem, Alive
        <4> QED
          BY <3>2, <4>1 DEF FinalReadout
      <3> QED
        BY <1>7, <3>1, <3>2
    <2>3. Alive' = Alive \ S
      BY <2>1, <2>2 DEF Alive
    <2>4. live' = Homes(Alive) \ Homes(S)
      BY <1>n, <2>1, <2>2, OwnedHomes
    <2>5. live' = Homes(Alive')
      BY <2>2, <2>3, <2>4, OwnedHomes
    <2> QED
      BY <1>g, <2>1, <2>5
  <1> QED
    BY <1>1, <1>2, <1>3, <1>4, <1>5, <1>6, <1>7, ActionKinds DEF Forward

LEMMA FaultStep ==
  ASSUME Typed, OrderInv, GeometryInv, Next PROVE pc' # "fault"
  <1>f. pc # "fault"
    BY DEF GeometryInv, CellsSound, NoFault
  <1>1. CASE Plan
    BY <1>1, PlanEffects DEF BeforeCircuit
  <1>2. CASE Arriving
    BY <1>2, Arrival DEF Arriving
  <1>3. CASE Quiet
    BY <1>3, <1>f DEF Quiet, EnterStep, RotatePlanned, Dispatch, Register, RegisterSnake,
       RegisterSeam, RotateSeam, SeamRefused, RegisterRouted, RotateBlocked, RouteRefused,
       RegisterStep, BatchSeam, RegisterBatch, BatchStarves, BatchRefused, MergeStep, MergeBatch,
       Merge, Halt, vars, Demote, Goto
  <1>4. CASE Forward \/ Split \/ FinishRide \/ FinalReadout
    BY <1>4, <1>f DEF Forward, SkipDone, RetireConsumed, Split, FinishRide, FinalReadout, Goto
  <1> QED
    BY <1>1, <1>2, <1>3, <1>4, ActionKinds

LEMMA CompleteStep ==
  ASSUME Typed, OrderInv, GeometryInv, Next PROVE CompleteWhenBuilt'
  <1>0. exp' = exp /\ Steps' = Steps
    BY ExperimentConstant, StepsConstant
  <1>1. CASE FinalReadout
    <2>1. pc = "top" /\ i = exp.n /\ exp.yset \subseteq allocated /\ birth = {} /\ birth' = {}
          /\ done' = done /\ allocated' = allocated
      BY <1>1 DEF FinalReadout, OrderInv, PatchesSound
    <2>2. done = Steps
      BY <2>1, EndIsDone DEF OrderInv
    <2>3. Patches \subseteq allocated
      <3>1. SUFFICES ASSUME NEW p \in Patches \ exp.yset PROVE p \in allocated
        BY <2>1
      <3>2. CASE exp.first[p] \in Steps
        <4>1. exp.first[p] <= exp.first[p]
          BY Lifetimes
        <4> QED
          BY <2>2, <3>2, <4>1 DEF GeometryInv, NoneLate, Due
      <3>3. CASE exp.first[p] = 0
        BY <2>1, <3>3 DEF GeometryInv, NoneLate
      <3> QED
        BY <3>2, <3>3, Lifetimes
    <2>4. measured' = Patches /\ Alive' = {}
      <3>1. measured' = measured \cup {p \in Patches \ measured : \E c \in Cells : owner[c] = p}
        BY <1>1 DEF FinalReadout
      <3>2. \A p \in Alive : \E c \in Cells : owner[c] = p
        BY OwnersNow
      <3>3. allocated \subseteq Patches /\ measured \subseteq Patches
        BY DEF Typed, TypeOK
      <3> QED
        BY <2>1, <2>3, <3>1, <3>2, <3>3 DEF Alive
    <2>5. live' = {}
      <3>1. pc' = "built"
        BY <1>1 DEF FinalReadout, Goto
      <3> QED
        BY <2>4, <3>1, LedgerStep DEF LedgerExact, InLoop, Homes
    <2> QED
      BY <1>0, <2>1, <2>2, <2>4, <2>5 DEF CompleteWhenBuilt
  <1>2. CASE ~FinalReadout
    <2>1. pc' = "built" => pc = "built" /\ UNCHANGED vars
      <3>1. CASE Plan
        BY <3>1, PlanEffects DEF BeforeCircuit
      <3>2. CASE Arriving
        BY <3>2, Arrival DEF Arriving
      <3>3. CASE Quiet
        BY <3>3 DEF Quiet, EnterStep, RotatePlanned, Dispatch, Register, RegisterSnake,
           RegisterSeam, RotateSeam, SeamRefused, RegisterRouted, RotateBlocked, RouteRefused,
           RegisterStep, BatchSeam, RegisterBatch, BatchStarves, BatchRefused, MergeStep,
           MergeBatch, Merge, Halt, vars, Demote, Goto
      <3>4. CASE Forward \/ Split \/ FinishRide
        BY <3>4 DEF Forward, SkipDone, AtTop, RetireConsumed, Split, FinishRide, Goto
      <3> QED
        BY <1>2, <3>1, <3>2, <3>3, <3>4, ActionKinds
    <2> QED
      BY <1>0, <2>1 DEF GeometryInv, CellsSound, CompleteWhenBuilt, vars
  <1> QED
    BY <1>1, <1>2

LEMMA CellsStep ==
  ASSUME Typed, OrderInv, GeometryInv, Next PROVE CellsSound'
  <1>0. exp' = exp
    BY ExperimentConstant
  <1>1. pc' \in BeforeCircuit => live' = {}
    <2>1. CASE Plan
      BY <2>1, PlanEffects DEF StartCircuit, Goto, BeforeCircuit
    <2>2. CASE Arriving
      BY <2>2, Arrival DEF Arriving, BeforeCircuit
    <2>3. CASE Quiet
      BY <2>3, QuietFlow
    <2>4. CASE Forward \/ Split \/ FinishRide \/ FinalReadout
      BY <2>4 DEF Forward, SkipDone, AtTop, RetireConsumed, Split, FinishRide, FinalReadout, Goto,
         BeforeCircuit
    <2> QED
      BY <2>1, <2>2, <2>3, <2>4, ActionKinds
  <1>2. \A c \in Cells : owner'[c] \in Patches => exp'.home[owner'[c]] = c
    BY <1>0, OwnersStep DEF Home
  <1>3. StandingOwnsCell'
    BY <1>0, OwnersStep DEF StandingOwnsCell, Home
  <1> QED
    BY <1>0, <1>1, <1>2, <1>3, LedgerStep, FaultStep, CompleteStep
    DEF CellsSound, NoFault, Home

-----------------------------------------------------------------------------
(* The invariant.                                                           *)

LEMMA GeometryInit == Init => GeometryInv
  <1> SUFFICES ASSUME Init PROVE GeometryInv
    OBVIOUS
  <1>1. Typed /\ Registered = {} /\ Alive = {} /\ InSystem = {} /\ Steps \subseteq Nat
    BY TypedInit, StepsAreNat DEF Init, Registered, Alive, InSystem
  <1>2. BatchesEligible
    BY DEF Init, BatchesEligible, InBatchWindow
  <1>3. NoneEarly /\ NoneOverdue
    BY <1>1 DEF Init, NoneEarly, NoneOverdue
  <1>4. NoneLate
    BY <1>1 DEF Init, NoneLate, HasTargets, InStep, BeforeCircuit
  <1>5. CouplersSound /\ CouplersAvoid
    BY <1>1 DEF Init, CouplersSound, CouplersAvoid
  <1>6. CellsSound
    BY <1>1, NamesAssumption
    DEF Init, CellsSound, StandingOwnsCell, LedgerExact, NoFault, CompleteWhenBuilt, InLoop
  <1> QED
    BY <1>2, <1>3, <1>4, <1>5, <1>6 DEF GeometryInv

LEMMA GeometryStep == Typed /\ OrderInv /\ GeometryInv /\ [Next]_vars => GeometryInv'
  <1> SUFFICES ASSUME Typed, OrderInv, GeometryInv, [Next]_vars PROVE GeometryInv'
    OBVIOUS
  <1>1. CASE Next
    BY <1>1, EligibleStep, EarlyStep, LateStep, OverdueStep, CouplersSoundStep, CouplersAvoidStep,
       CellsStep DEF GeometryInv, OrderInv
  <1>2. CASE UNCHANGED vars
    <2> USE <1>2 DEF vars, Steps, Targets, Home
    <2>1. BatchesEligible'
      BY DEF GeometryInv, BatchesEligible, Eligible, Snakes, Lazy, Adjacent, Expired, BirthBatch,
         InBatch, Members, HasRoute, Registered
    <2>2. NoneEarly' /\ NoneOverdue'
      BY DEF GeometryInv, NoneEarly, NoneOverdue, InSystem, Alive
    <2>3. NoneLate'
      BY DEF GeometryInv, NoneLate, Due, Members
    <2>4. CouplersSound' /\ CouplersAvoid'
      BY DEF GeometryInv, CouplersSound, CouplersAvoid, Registered, Corridor, Adjacent, Overlap,
         InSystem
    <2>5. CellsSound'
      BY DEF GeometryInv, CellsSound, StandingOwnsCell, LedgerExact, NoFault, CompleteWhenBuilt,
         InLoop, Alive, Homes, Corridor
    <2> QED
      BY <2>1, <2>2, <2>3, <2>4, <2>5 DEF GeometryInv
  <1> QED
    BY <1>1, <1>2

\* The invariant is inductive, with the one about the order of the steps:
\* lifetimes, registrations and ledgers go together at every point of build(),
\* whatever the routers and the construction oracles answer.
THEOREM LayoutCorrect == Spec => [](Typed /\ LayoutInv)
  <1>1. Init => Typed /\ LayoutInv
    BY TypedInit, OrderInit, GeometryInit DEF LayoutInv
  <1>2. Typed /\ LayoutInv /\ [Next]_vars => (Typed /\ LayoutInv)'
    BY TypedStep, OrderStep, GeometryStep DEF LayoutInv
  <1> QED
    BY <1>1, <1>2, PTL DEF Spec

\* No internal error leaves build(), for any program, layout and placement that
\* meet the contract of PPMExperiments: the collision guard of add_patch never fires for a
\* patch, and no Y patch reaches the deferred allocation unborn.
THEOREM NoFaultCorrect == Spec => []NoFault
  <1>1. LayoutInv => NoFault
    BY DEF LayoutInv, GeometryInv, CellsSound
  <1> QED
    BY <1>1, LayoutCorrect, PTL

\* A living patch owns its home cell, however early the couplers around it
\* were registered: the readouts, which select by owner, miss none of it.
THEOREM StandingOwnsCellCorrect == Spec => []StandingOwnsCell
  <1>1. LayoutInv => StandingOwnsCell
    BY DEF LayoutInv, GeometryInv, CellsSound
  <1> QED
    BY <1>1, LayoutCorrect, PTL

\* The active-qubit ledger is exactly the homes of the living patches and, in
\* a window, its corridors: nothing is left live and nothing live is missed.
THEOREM LedgerExactCorrect == Spec => []LedgerExact
  <1>1. LayoutInv => LedgerExact
    BY DEF LayoutInv, GeometryInv, CellsSound
  <1> QED
    BY <1>1, LayoutCorrect, PTL

\* A build that finishes has measured every step, read every patch out and
\* left no qubit live.
THEOREM CompleteWhenBuiltCorrect == Spec => []CompleteWhenBuilt
  <1>1. LayoutInv => CompleteWhenBuilt
    BY DEF LayoutInv, GeometryInv, CellsSound
  <1> QED
    BY <1>1, LayoutCorrect, PTL

\* When couplers run, however long before they were routed, their targets are
\* alive, no corridor crosses a living or nascent patch, and no two meet.
THEOREM CorridorClearCorrect == Spec => []CorridorClear
  <1>1. Typed /\ LayoutInv => CorridorClear
    <2> SUFFICES ASSUME Typed, OrderInv, GeometryInv, pc = "merged"
                 PROVE  /\ \A j \in window : Corridor(j) \cap Homes(Alive) = {}
                        /\ \A j, l \in window : j # l => Corridor(j) \cap Corridor(l) = {}
                        /\ (UNION {Targets(j) : j \in window}) \subseteq allocated \ measured
      BY DEF CorridorClear, LayoutInv
    <2>1. \A j \in window : Corridor(j) \cap Homes(Alive) = {}
      BY WindowClear
    <2>2. \A j, l \in window : j # l => Corridor(j) \cap Corridor(l) = {}
      BY DEF GeometryInv, CouplersSound, Overlap
    <2>3. \A j \in window : Targets(j) \subseteq allocated \ measured
      <3>1. window \subseteq Steps \ done
        BY WindowOpen
      <3> QED
        BY <3>1 DEF OrderInv, TargetsIn, PatchesSound
    <2> QED
      BY <2>1, <2>2, <2>3
  <1> QED
    BY <1>1, LayoutCorrect, PTL

\* The router is told of everybody alive: whom the absence rules hide from it
\* was read out, or is not born, whenever it is asked inside the loop.
THEOREM RouterSeesAliveCorrect == Spec => []RouterSeesAlive
  <1>1. Typed /\ LayoutInv => RouterSeesAlive
    <2> SUFFICES ASSUME Typed, OrderInv, GeometryInv, NEW j \in Consulted, NEW p \in Alive
                 PROVE  p \in View(j, MustAvoid)
      BY DEF RouterSeesAlive, LayoutInv
    <2>1. p \in Patches /\ p \in InSystem
      BY OwnersNow
    <2>2. /\ j \in Steps /\ i \in Steps /\ i <= j /\ Settled
          /\ pc \notin {"merged", "seal", "retire"}
          /\ j = i \/ (pc = "seams" /\ j \in Members(i) \ Adjacent)
      <3>1. CASE pc \in {"snake", "route", "route2"}
        <4>1. i \in Steps /\ i <= i /\ Settled
          BY <3>1, Lifetimes DEF Typed, AtStep, InStep, Settled
        <4> QED
          BY <3>1, <4>1 DEF Consulted
      <3>2. CASE pc = "seams"
        <4>1. head[i] = i /\ j \in Members(i) \ Adjacent /\ i \in Steps /\ Settled
          BY <3>2 DEF Consulted, OrderInv, ProgressSound, InBatchWindow, Typed, AtStep, Settled
        <4> QED
          BY <3>2, <4>1, BatchOpen DEF InBatchWindow
      <3> QED
        BY <3>1, <3>2 DEF Consulted
    <2>3. p \notin Expired(j)
      <3>1. SUFFICES ASSUME p \in Expired(j) PROVE FALSE
        OBVIOUS
      <3>2. CASE j = i
        <4>1. ~(i <= exp.last[p])
          BY <2>1, <2>2, <3>1, <3>2, Lifetimes DEF Expired
        <4> QED
          BY <2>1, <2>2, <3>1, <4>1, AliveNotExpired DEF Expired
      <3>3. CASE j # i
        <4>1. j \in Members(i) /\ i \in Members(i) /\ j \notin Adjacent /\ head[j] = i
          BY <2>2, <3>3 DEF Members, OrderInv, ProgressSound, InBatchWindow
        <4>2. InBatch(j)
          BY <3>3, <4>1 DEF InBatch
        <4> QED
          BY <2>2, <3>1, <4>1, <4>2, MembersNotLazy
      <3> QED
        BY <3>2, <3>3
    <2>4. p \in exp.yset => j >= exp.first[p] - 2
      <3>1. SUFFICES ASSUME p \in exp.yset PROVE j >= exp.first[p] - 2
        OBVIOUS
      <3>2. exp.first[p] <= i
        BY <2>1, <2>2, <3>1 DEF GeometryInv, NoneEarly
      <3> QED
        BY <2>1, <2>2, <3>2, Lifetimes
    <2> QED
      BY <2>1, <2>3, <2>4 DEF View
  <1> QED
    BY <1>1, LayoutCorrect, PTL
=============================================================================
