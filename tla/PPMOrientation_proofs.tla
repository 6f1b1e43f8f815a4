------------------------ MODULE PPMOrientation_proofs ------------------------
(***************************************************************************)
(* A coupler runs in the orientations its targets have then, however long  *)
(* before it was built, if the planner searches every routed step.  The    *)
(* hypothesis is needed: a step above the search cap is registered up      *)
(* front whatever rotations were planned before it.                        *)
(***************************************************************************)
EXTENDS PPMGeometry_proofs

-----------------------------------------------------------------------------
(* What the steps change.                                                   *)

\* After planning, the plan is fixed.
LEMMA PlanFixed ==
  ASSUME Next, pc # "plan"
  PROVE  /\ UNCHANGED <<moves, late>> /\ pc' # "plan"
         /\ pc = "raised" => pc' = "raised"
  <1>1. CASE Plan
    BY <1>1 DEF Plan, Planning, PlanSeam, PlanNothing, PlanRouted, AllocateUpFront, PlanBatch,
       BatchesPlanned, RegisterUpFront, StartCircuit, planVars, Goto
  <1>2. CASE Loop
    BY <1>2 DEF Loop, FallbackBirth, SkipDone, EnterStep, DeferredAllocation, RotatePlanned,
       BringUp, Dispatch, AtTop, planVars, Goto
  <1>3. CASE Register
    BY <1>3 DEF Register, RegisterSnake, RegisterSeam, RotateSeam, SeamRefused, RegisterRouted,
       RotateBlocked, RouteRefused, RegisterStep, planVars, Goto
  <1>4. CASE Batch
    BY <1>4 DEF Batch, BatchPreamble, BatchSeam, RegisterBatch, BatchStarves, BatchRefused,
       BringUp, Demote, planVars, Goto
  <1>5. CASE Window
    BY <1>5 DEF Window, MergeStep, MergeBatch, Merge, BeginRide, Split, FinishRide, RetireConsumed,
       LeftoverBirth, FinalReadout, BringUp, Demote, planVars, Goto
  <1>6. CASE Halt
    BY <1>6 DEF Halt, vars
  <1> QED
    BY <1>1, <1>2, <1>3, <1>4, <1>5, <1>6 DEF Next, Build

\* While planning nothing is registered or built.
LEMMA PlanStep ==
  ASSUME Next, pc = "plan"
  PROVE  /\ PlanSeam \/ PlanNothing \/ PlanRouted \/ AllocateUpFront
         /\ UNCHANGED <<coupler, walls>> /\ pc' \in {"plan", "raised", "batches"}
  <1>1. PlanSeam \/ PlanNothing \/ PlanRouted \/ AllocateUpFront
    BY DEF Next, Build, Plan, PlanBatch, BatchesPlanned, RegisterUpFront, StartCircuit,
       Loop, FallbackBirth, SkipDone, EnterStep, DeferredAllocation, RotatePlanned, AtTop,
       Register, RegisterSnake, RegisterSeam, RotateSeam, SeamRefused, RegisterRouted,
       RotateBlocked, RouteRefused, Batch, BatchPreamble, BatchSeam, RegisterBatch, BatchStarves,
       BatchRefused, Window, MergeStep, MergeBatch, BeginRide, Split, FinishRide, RetireConsumed,
       LeftoverBirth, FinalReadout, Halt, Returned
  <1> QED
    BY <1>1 DEF PlanSeam, PlanNothing, PlanRouted, AllocateUpFront, Planning, Goto

\* Once the circuit has started, batches are fixed and the index goes forward.
LEMMA LoopOnward ==
  ASSUME Typed, Next, pc \notin BeforeCircuit
  PROVE  /\ head' = head /\ pc' \notin BeforeCircuit /\ i' \in {i, i + 1}
         /\ i' = i + 1 => pc' = "top"
         /\ done \subseteq done'
  <1>0. i \in Nat
    BY Lifetimes DEF Typed, TypeOK
  <1>1. CASE Loop
    BY <1>0, <1>1 DEF Loop, FallbackBirth, SkipDone, EnterStep, DeferredAllocation, RotatePlanned,
       BringUp, Dispatch, AtTop, planVars, Goto, BeforeCircuit
  <1>2. CASE Register
    BY <1>0, <1>2 DEF Register, RegisterSnake, RegisterSeam, RotateSeam, SeamRefused, RegisterRouted,
       RotateBlocked, RouteRefused, RegisterStep, planVars, Goto, BeforeCircuit
  <1>3. CASE Batch
    BY <1>0, <1>3 DEF Batch, BatchPreamble, BatchSeam, RegisterBatch, BatchStarves, BatchRefused,
       BringUp, Demote, planVars, Goto, BeforeCircuit
  <1>4. CASE Window
    BY <1>0, <1>4 DEF Window, MergeStep, MergeBatch, Merge, BeginRide, Split, FinishRide, RetireConsumed,
       LeftoverBirth, FinalReadout, BringUp, Demote, planVars, Goto, BeforeCircuit
  <1>5. CASE Halt
    BY <1>0, <1>5 DEF Halt, vars
  <1>6. ~Plan
    BY DEF Plan, Planning, PlanSeam, PlanNothing, PlanRouted, AllocateUpFront, PlanBatch,
       BatchesPlanned, RegisterUpFront, StartCircuit, BeforeCircuit
  <1> QED
    BY <1>1, <1>2, <1>3, <1>4, <1>5, <1>6 DEF Next, Build

\* Before that, only registration builds, and every rotation is to come.
LEMMA StartOnward ==
  ASSUME Typed, Next, pc \in {"batches", "upfront"}
  PROVE  /\ pc' \in {"batches", "upfront", "top"}
         /\ vertical' = vertical /\ walls' = walls /\ done' = done
         /\ RegisterUpFront \/ coupler' = coupler
  <1>1. Plan
    BY DEF Next, Build, Loop, FallbackBirth, SkipDone, EnterStep, DeferredAllocation,
       RotatePlanned, AtTop, Register, RegisterSnake, RegisterSeam, RotateSeam, SeamRefused,
       RegisterRouted, RotateBlocked, RouteRefused, Batch, BatchPreamble, BatchSeam,
       RegisterBatch, BatchStarves, BatchRefused, Window, MergeStep, MergeBatch, BeginRide,
       Split, FinishRide, RetireConsumed, LeftoverBirth, FinalReadout, Halt, Returned
  <1> QED
    BY <1>1 DEF Plan, Planning, PlanSeam, PlanNothing, PlanRouted, AllocateUpFront, PlanBatch,
       BatchesPlanned, RegisterUpFront, StartCircuit, Goto

\* A rotation that was to come after a step was to come before it.
LEMMA ToTurnLasts ==
  ASSUME Typed, Next, pc # "plan", NEW l \in Steps, ToTurn(l)'
  PROVE  ToTurn(l)
  <1>1. i \in Nat /\ l \in Nat
    BY Lifetimes DEF Typed, TypeOK
  <1>2. CASE pc \in BeforeCircuit
    BY <1>2 DEF ToTurn
  <1>3. CASE pc \notin BeforeCircuit
    <2>1. /\ pc' \notin BeforeCircuit /\ i' \in {i, i + 1}
          /\ i' = i + 1 => pc' = "top"
      BY <1>3, LoopOnward
    <2>2. CASE i' = i + 1
      BY <1>1, <2>1, <2>2 DEF ToTurn
    <2>3. CASE i' = i /\ l > i
      BY <2>3 DEF ToTurn
    <2>4. CASE i' = i /\ ~(l > i)
      <3>1. l = i /\ pc' \in {"top", "alloc", "rotate"} \cup InBatchWindow
        BY <1>1, <2>1, <2>4 DEF ToTurn
      <3>2. pc \in {"top", "alloc", "rotate"} \cup InBatchWindow
        <4>1. CASE Loop
          BY <3>1, <4>1 DEF Loop, FallbackBirth, SkipDone, EnterStep, DeferredAllocation,
             RotatePlanned, AtTop
        <4>2. CASE Register
          BY <3>1, <4>2 DEF Register, RegisterSnake, RegisterSeam, RotateSeam, SeamRefused,
             RegisterRouted, RotateBlocked, RouteRefused, RegisterStep, Goto, InBatchWindow
        <4>3. CASE Batch
          BY <4>3 DEF Batch, BatchPreamble, BatchSeam, RegisterBatch, BatchStarves, BatchRefused,
             InBatchWindow
        <4>4. CASE Window
          BY <1>1, <3>1, <4>4, <2>4
          DEF Window, MergeStep, MergeBatch, Merge, BeginRide, Split, FinishRide,
             RetireConsumed, LeftoverBirth, FinalReadout, BringUp, Goto, InBatchWindow
        <4>5. CASE Halt
          BY <3>1, <4>5 DEF Halt, vars
        <4>6. ~Plan
          BY <1>3 DEF Plan, Planning, PlanSeam, PlanNothing, PlanRouted, AllocateUpFront,
             PlanBatch, BatchesPlanned, RegisterUpFront, StartCircuit, BeforeCircuit
        <4> QED
          BY <4>1, <4>2, <4>3, <4>4, <4>5, <4>6 DEF Next, Build
      <3> QED
        BY <3>1, <3>2 DEF ToTurn
    <2> QED
      BY <2>1, <2>2, <2>3, <2>4
  <1> QED
    BY <1>2, <1>3

\* Where the action can be, by the location.
LEMMA RegisteringPlace ==
  ASSUME Typed, OrderInv, Registering
  PROVE  /\ i' = i \/ RegisterUpFront
         /\ UNCHANGED <<head, moves, late, done, window>>
         /\ pc \in {"upfront", "seams"} \cup InStep
         /\ ~RegisterUpFront => i \in Steps /\ pc # "upfront"
  <1>1. CASE RegisterUpFront
    BY <1>1 DEF RegisterUpFront, planVars
  <1>2. CASE RegisterSnake \/ RegisterSeam \/ RegisterRouted \/ RotateSeam \/ RotateBlocked
    BY <1>2 DEF RegisterSnake, RegisterSeam, RegisterRouted, RotateSeam, RotateBlocked, planVars,
       InStep, Typed, AtStep
  <1>3. CASE BatchSeam \/ RegisterBatch
    BY <1>3 DEF BatchSeam, RegisterBatch, planVars, InBatchWindow, Typed, AtStep
  <1> QED
    BY <1>1, <1>2, <1>3 DEF Registering

\* A coupler built now is built for the way its targets stand: up front only
\* for the steps that are not late, in the loop for the step or its batch.
BuiltNow(j) ==
  /\ coupler'[j] \in exp.cands[j] /\ coupler'[j].vertical = vertical \cap Targets(j)
  /\ vertical' = vertical
  /\ \/ RegisterUpFront /\ pc = "upfront" /\ walls' = walls /\ j \notin late \cup Adjacent \cup Snakes
     \/ j = i /\ pc' = "merge" /\ i' = i
     \/ pc = "seams" /\ j \in Members(i)

LEMMA RegisteredNow ==
  ASSUME Typed, OrderInv, Registering, NEW j \in Steps
  PROVE  coupler'[j] = coupler[j] \/ coupler'[j] = NoCoupler \/ BuiltNow(j)
  <1>0. coupler \in [Steps -> Candidates \cup {NoCoupler}]
    BY DEF Typed, TypeOK
  <1>1. CASE RegisterUpFront
    <2>1. \/ coupler' = coupler
          \/ /\ i \notin late \cup Adjacent \cup Snakes
             /\ \E c \in Routable(i, View(i, {}), vertical) : coupler' = [coupler EXCEPT ![i] = c]
      BY <1>1 DEF RegisterUpFront
    <2>2. vertical' = vertical /\ walls' = walls /\ pc = "upfront"
      BY <1>1 DEF RegisterUpFront
    <2> QED
      BY <1>0, <1>1, <2>1, <2>2 DEF BuiltNow, Routable
  <1>2. CASE RegisterSnake \/ RegisterRouted
    <2>1. /\ vertical' = vertical /\ i' = i
          /\ \/ coupler' = coupler
             \/ /\ pc' = "merge"
                /\ \E c \in Routable(i, View(i, {}), vertical) :
                     coupler' = [coupler EXCEPT ![i] = c]
      BY <1>2 DEF RegisterSnake, RegisterRouted, RegisterStep, Goto
    <2> QED
      BY <1>0, <2>1 DEF BuiltNow, Routable
  <1>3. CASE RegisterSeam
    <2>1. /\ vertical' = vertical /\ i' = i /\ pc' = "merge"
          /\ \E c \in exp.cands[i] : /\ c.vertical = vertical \cap Targets(i)
                                     /\ coupler' = [coupler EXCEPT ![i] = c]
      BY <1>3 DEF RegisterSeam, RegisterStep, Classify, Goto
    <2> QED
      BY <1>0, <2>1 DEF BuiltNow
  <1>4. CASE RotateSeam \/ RotateBlocked
    BY <1>4 DEF RotateSeam, RotateBlocked, Forget
  <1>5. CASE BatchSeam
    <2>1. /\ vertical' = vertical /\ pc = "seams"
          /\ \/ coupler' = coupler
             \/ \E l \in Members(i) : \E c \in exp.cands[l] :
                  /\ c.vertical = vertical \cap Targets(l)
                  /\ coupler' = [coupler EXCEPT ![l] = c]
      BY <1>5 DEF BatchSeam, Classify
    <2> QED
      BY <1>0, <2>1 DEF BuiltNow
  <1>6. CASE RegisterBatch
    <2>1. PICK f \in Portfolio, R \in SUBSET BatchTodo :
            coupler' = [l \in Steps |-> IF l \in R THEN f[l] ELSE coupler[l]]
      BY <1>6 DEF RegisterBatch
    <2>2. vertical' = vertical /\ pc = "seams"
      BY <1>6 DEF RegisterBatch
    <2>3. \A l \in R : /\ l \in Members(i) /\ f[l] \in exp.cands[l]
                       /\ f[l].vertical = vertical \cap Targets(l)
      BY <2>1 DEF Portfolio, BatchTodo, Routable
    <2> QED
      BY <1>0, <2>1, <2>2, <2>3 DEF BuiltNow
  <1> QED
    BY <1>1, <1>2, <1>3, <1>4, <1>5, <1>6 DEF Registering

\* Nothing turns as planned before a member of a batch under way.
LEMMA MembersStill ==
  ASSUME Typed, OrderInv, GeometryInv, pc \in InBatchWindow, NEW l \in Members(i)
  PROVE  moves[l] = {}
  <1>1. i \in Steps /\ InBatch(i) /\ head[i] = i
    BY DEF GeometryInv, BatchesEligible, OrderInv, ProgressSound, Typed, AtStep
  <1>2. PICK k \in Steps : k # l /\ head[k] = head[l]
    <2>1. i \in Members(i)
      BY <1>1 DEF Members
    <2>2. PICK k \in Members(i) : k # i
      BY <1>1, <2>1 DEF InBatch
    <2> QED
      BY <1>1, <2>1, <2>2 DEF Members
  <1>3. Eligible(l)
    BY <1>2 DEF GeometryInv, BatchesEligible, Members
  <1> QED
    BY <1>3 DEF Eligible

-----------------------------------------------------------------------------
(* The planner is lazy enough.                                              *)

LEMMA PlansStep ==
  ASSUME Typed, LightSteps(exp), PlansSound, Next PROVE PlansSound'
  <1>0. /\ exp' = exp /\ Steps' = Steps /\ Adjacent' = Adjacent /\ Snakes' = Snakes
        /\ Steps \subseteq Nat /\ i \in Nat /\ exp.n \in Nat /\ \A j \in Steps : j < exp.n
        /\ moves \in [Steps -> SUBSET Patches]
        /\ \A j \in Nat : j < exp.n => j \in Steps
    BY ExperimentConstant, StepsConstant, Lifetimes DEF Adjacent, Snakes, Typed, TypeOK
  <1>1. CASE pc # "plan"
    <2>1. /\ moves' = moves /\ late' = late /\ pc' # "plan"
          /\ \A j \in Steps : Planned(j)' => Planned(j)
      BY <1>1, PlanFixed DEF Planned
    <2> QED
      BY <1>0, <2>1 DEF PlansSound
  <1>2. CASE pc = "plan" /\ PlanSeam
    <2>1. /\ exp.autoRotate /\ i \in Adjacent /\ i \in Steps /\ i' = i + 1 /\ late' = late
          /\ pc' = pc
          /\ \A l \in Steps : l # i => moves'[l] = moves[l]
      BY <1>0, <1>2 DEF PlanSeam, Planning
    <2>2. ASSUME NEW j \in Steps, j # i, Planned(j)' PROVE Planned(j) /\ j < i
      BY <1>0, <1>2, <2>1, <2>2 DEF Planned
    <2>3. ASSUME NEW j \in Steps \ (late' \cup Adjacent \cup Snakes), NEW l \in Steps,
                 Planned(j)', l <= j
          PROVE  moves'[l] = {}
      <3>1. Planned(j) /\ j < i /\ j \notin late
        BY <2>1, <2>2, <2>3
      <3>2. moves[l] = {} /\ l # i
        BY <1>0, <2>3, <3>1 DEF PlansSound
      <3> QED
        BY <2>1, <3>2
    <2>4. ASSUME NEW l \in Steps, l >= i + 1 PROVE moves'[l] = {}
      <3>1. l >= i /\ l # i
        BY <1>0, <2>4
      <3> QED
        BY <1>2, <2>1, <3>1 DEF PlansSound
    <2> QED
      BY <1>0, <2>1, <2>3, <2>4 DEF PlansSound
  <1>3. CASE pc = "plan" /\ PlanNothing
    <2>1. /\ exp.autoRotate /\ i \notin Adjacent /\ i \in Steps /\ i' = i + 1 /\ pc' = pc
          /\ late' = late /\ moves' = moves
          /\ i \in Snakes \/ Cardinality(Targets(i)) > RotationSearchCap
      BY <1>0, <1>3 DEF PlanNothing, Planning
    <2>2. i \in Snakes
      BY <2>1 DEF LightSteps, Snakes, Adjacent, Steps, Targets
    <2>3. \A j \in Steps : j # i /\ Planned(j)' => Planned(j)
      BY <1>0, <1>3, <2>1 DEF Planned
    <2>4. \A l \in Steps : l >= i + 1 => moves[l] = {}
      BY <1>0, <1>3 DEF PlansSound
    <2> QED
      BY <1>0, <2>1, <2>2, <2>3, <2>4 DEF PlansSound
  <1>4. CASE pc = "plan" /\ PlanRouted
    <2>1. /\ exp.autoRotate /\ i \in Steps
          /\ \A l \in Steps : l # i => moves'[l] = moves[l]
      BY <1>0, <1>4 DEF PlanRouted, Planning
    <2>2. CASE pc' = "raised"
      <3>1. \A j \in Steps : ~Planned(j)'
        BY <2>2 DEF Planned
      <3> QED
        BY <1>0, <2>1, <2>2, <3>1 DEF PlansSound
    <2>3. CASE pc' # "raised"
      <3>1. /\ pc' = pc /\ i' = i + 1
            /\ late' = IF \E j \in 0 .. i : moves'[j] # {} THEN late \cup {i} ELSE late
        BY <1>4, <2>3 DEF PlanRouted, Goto
      <3>2. \A j \in Steps : j # i /\ Planned(j)' => Planned(j) /\ j < i
        BY <1>0, <1>4, <3>1 DEF Planned
      <3>3. ASSUME NEW j \in Steps \ (late' \cup Adjacent \cup Snakes), NEW l \in Steps,
                   Planned(j)', l <= j
            PROVE  moves'[l] = {}
        <4>1. CASE j = i
          BY <1>0, <3>1, <3>3, <4>1
        <4>2. CASE j # i
          BY <1>0, <2>1, <3>1, <3>2, <3>3, <4>2 DEF PlansSound
        <4> QED
          BY <4>1, <4>2
      <3>4. ASSUME NEW l \in Steps, l >= i + 1 PROVE moves'[l] = {}
        <4>1. l >= i /\ l # i
          BY <1>0, <3>4
        <4> QED
          BY <1>4, <2>1, <4>1 DEF PlansSound
      <3> QED
        BY <1>0, <2>1, <3>1, <3>3, <3>4 DEF PlansSound
    <2> QED
      BY <2>2, <2>3
  <1>5. CASE pc = "plan" /\ AllocateUpFront
    <2>1. moves' = moves /\ late' = late /\ pc' = "batches" /\ (~exp.autoRotate \/ i = exp.n)
      BY <1>5 DEF AllocateUpFront, planVars, Goto
    <2>2. ASSUME NEW j \in Steps \ (late \cup Adjacent \cup Snakes), NEW l \in Steps, l <= j
          PROVE  moves[l] = {}
      BY <1>0, <1>5, <2>1, <2>2 DEF PlansSound, Planned
    <2> QED
      BY <1>0, <2>1, <2>2 DEF PlansSound
  <1> QED
    BY <1>1, <1>2, <1>3, <1>4, <1>5, PlanStep

-----------------------------------------------------------------------------
(* No target turns under a coupler.                                         *)

LEMMA TurnsStep ==
  ASSUME Typed, OrderInv, GeometryInv, PlansSound, TurnsSound, Next PROVE TurnsSound'
  <1>0. /\ exp' = exp /\ Steps' = Steps /\ \A j : Targets(j)' = Targets(j)
        /\ i \in Nat /\ Steps \subseteq Nat
    BY ExperimentConstant, StepsConstant, Lifetimes DEF Targets, Typed, TypeOK
  <1>1. CASE pc = "plan"
    BY <1>0, <1>1, PlanStep DEF TurnsSound, Registered, GeometryInv, CouplersSound
  <1>2. CASE pc # "plan"
    <2>1. moves' = moves /\ done \subseteq done'
      BY <1>2, PlanFixed, LoopOnward, StartOnward DEF BeforeCircuit
    <2>2. SUFFICES ASSUME NEW j \in Steps, coupler'[j] # NoCoupler, j \notin done',
                          NEW l \in Steps, l <= j, ToTurn(l)'
                   PROVE  moves[l] \cap Targets(j) = {}
      BY <1>0, <2>1 DEF TurnsSound, Registered
    <2>3. ToTurn(l) /\ j \notin done
      BY <1>2, <2>1, <2>2, ToTurnLasts
    <2>4. CASE coupler'[j] = coupler[j]
      BY <2>2, <2>3, <2>4 DEF TurnsSound, Registered
    <2>5. CASE Registering /\ BuiltNow(j)
      <3>1. CASE pc = "upfront" /\ j \notin late \cup Adjacent \cup Snakes
        BY <2>2, <3>1 DEF PlansSound, Planned
      <3>2. CASE j = i /\ pc' = "merge" /\ i' = i
        <4>1. ~(l > i) /\ ~(l > i')
          BY <1>0, <2>2, <3>2
        <4>2. pc' \notin BeforeCircuit /\ pc' \notin {"top", "alloc", "rotate"} \cup InBatchWindow
          BY <3>2 DEF BeforeCircuit, InBatchWindow
        <4> QED
          BY <2>2, <4>1, <4>2 DEF ToTurn
      <3>3. CASE pc = "seams" /\ j \in Members(i)
        <4>1. pc \in InBatchWindow /\ pc \notin BeforeCircuit /\ head[i] = i /\ head[j] = i
          BY <3>3 DEF InBatchWindow, BeforeCircuit, OrderInv, ProgressSound, Members
        <4>2. i <= l
          BY <1>0, <2>3, <4>1 DEF ToTurn
        <4>3. l \in Members(i)
          BY <2>2, <4>1, <4>2, Between DEF OrderInv, Members
        <4> QED
          BY <4>1, <4>3, MembersStill
      <3> QED
        BY <2>5, <3>1, <3>2, <3>3 DEF BuiltNow
    <2> QED
      BY <2>2, <2>4, <2>5, RegisteredNow, CouplersStay
  <1> QED
    BY <1>1, <1>2

\* A rotation that was not planned turns targets of the step under way only,
\* and every coupler that stays is of a step that has none of them.
LEMMA RepairsApart ==
  ASSUME Typed, OrderInv, GeometryInv, WallsSound, ReadySound, RotateSeam \/ RotateBlocked
  PROVE  \E S \in SUBSET Targets(i) :
           /\ vertical' = Flip(vertical, S)
           /\ \A j \in Steps \ done : coupler'[j] # NoCoupler =>
                coupler'[j] = coupler[j] /\ Targets(j) \cap S = {}
  <1>0. /\ i \in Steps /\ i \in Nat /\ Steps \subseteq Nat /\ pc \in {"seam", "route"}
        /\ Settled /\ i \notin Registered
    BY Lifetimes DEF RotateSeam, RotateBlocked, ReadySound, Settled, InStep, Typed, TypeOK, AtStep
  <1>1. PICK S \in SUBSET Targets(i) : vertical' = Flip(vertical, S) /\ Forget(S)
    <2>1. CASE RotateSeam
      <3>0. PICK c \in exp.cands[i] :
              \E S \in SUBSET (Flip(vertical \cap Targets(i), c.vertical) \ exp.yset) :
                vertical' = Flip(vertical, S) /\ Forget(S)
        BY <2>1 DEF RotateSeam
      <3>1. PICK S \in SUBSET (Flip(vertical \cap Targets(i), c.vertical) \ exp.yset) :
              vertical' = Flip(vertical, S) /\ Forget(S)
        BY <3>0
      <3>2. c.vertical \subseteq Targets(i)
        <4>1. ExperimentOK(exp)
          BY Accepted DEF Typed
        <4> QED
          BY <1>0, <4>1 DEF ExperimentOK, CandidatesOK, Steps, Targets
      <3>3. S \subseteq Targets(i)
        BY <3>1, <3>2 DEF Flip
      <3> QED
        BY <3>1, <3>3
    <2>2. CASE RotateBlocked
      BY <2>2 DEF RotateBlocked
    <2> QED
      BY <2>1, <2>2
  <1>2. ASSUME NEW j \in Steps, j \notin done, coupler'[j] # NoCoupler
        PROVE  coupler'[j] = coupler[j] /\ Targets(j) \cap S = {}
    <2>1. coupler'[j] = coupler[j] /\ j \in Registered /\ ~(j \in Stale(S) /\ HasRoute(j))
      BY <1>1, <1>2 DEF Forget, Registered
    <2>2. i < j
      BY <1>0, <1>2, <2>1, EarlierDone
    <2>3. CASE Targets(j) \cap S # {}
      <3>1. j \in Stale(S)
        BY <1>0, <1>2, <2>2, <2>3 DEF Stale
      <3>2. j \in walls
        BY <2>1, <3>1 DEF HasRoute
      <3>3. head[j] <= i
        BY <1>2, <2>1, <3>2 DEF WallsSound
      <3>4. head[i] = head[j]
        BY <1>0, <1>2, <2>2, <3>3, Between DEF OrderInv
      <3>5. Targets(j) \cap Targets(i) = {}
        BY <1>0, <1>2, <2>2, <3>4 DEF OrderInv, BatchesSound
      <3> QED
        BY <2>3, <3>5
    <2> QED
      BY <2>1, <2>3
  <1> QED
    BY <1>1, <1>2

LEMMA CurrentStep ==
  ASSUME Typed, OrderInv, GeometryInv, CouplersCurrent, TurnsSound, WallsSound, ReadySound, Next
  PROVE  CouplersCurrent'
  <1>0. /\ exp' = exp /\ Steps' = Steps /\ \A j : Targets(j)' = Targets(j)
        /\ i \in Nat /\ Steps \subseteq Nat
    BY ExperimentConstant, StepsConstant, Lifetimes DEF Targets, Typed, TypeOK
  <1>1. CASE pc = "plan"
    BY <1>0, <1>1, PlanStep DEF CouplersCurrent, Registered, GeometryInv, CouplersSound
  <1>2. CASE pc # "plan" /\ RotatePlanned
    <2>1. /\ coupler' = coupler /\ done' = done /\ i \in Steps /\ pc = "rotate" /\ Settled
          /\ vertical' = Flip(vertical, moves[i]) \/ vertical' = vertical
      BY <1>2 DEF RotatePlanned, Settled, InStep, Typed, AtStep
    <2>2. ASSUME NEW j \in Registered, j \notin done PROVE moves[i] \cap Targets(j) = {}
      <3>1. j \in Steps /\ i <= j
        BY <2>1, <2>2, EarlierDone DEF Registered
      <3>2. ToTurn(i)
        BY <2>1 DEF ToTurn
      <3> QED
        BY <2>1, <2>2, <3>1, <3>2 DEF TurnsSound
    <2>3. ASSUME NEW j \in Registered, j \notin done
          PROVE  vertical' \cap Targets(j) = vertical \cap Targets(j)
      BY <2>1, <2>2, <2>3 DEF Flip
    <2> QED
      BY <1>0, <2>1, <2>3 DEF CouplersCurrent, Registered
  <1>3. CASE RotateSeam \/ RotateBlocked
    <2>1. PICK S \in SUBSET Targets(i) :
            /\ vertical' = Flip(vertical, S)
            /\ \A j \in Steps \ done : coupler'[j] # NoCoupler =>
                 coupler'[j] = coupler[j] /\ Targets(j) \cap S = {}
      BY <1>3, RepairsApart
    <2>2. done' = done
      BY <1>3 DEF RotateSeam, RotateBlocked
    <2>3. ASSUME NEW j \in Steps, coupler'[j] # NoCoupler, j \notin done
          PROVE  coupler'[j].vertical = vertical' \cap Targets(j)
      BY <2>1, <2>3 DEF CouplersCurrent, Registered, Flip
    <2> QED
      BY <1>0, <2>2, <2>3 DEF CouplersCurrent, Registered
  <1>4. CASE pc # "plan" /\ ~RotatePlanned /\ ~RotateSeam /\ ~RotateBlocked
    <2>1. vertical' = vertical /\ done \subseteq done'
      <3>1. done \subseteq done'
        BY <1>4, LoopOnward, StartOnward DEF BeforeCircuit
      <3>2. CASE Plan
        BY <1>4, <3>2 DEF Plan, Planning, PlanSeam, PlanNothing, PlanRouted, AllocateUpFront,
           PlanBatch, BatchesPlanned, RegisterUpFront, StartCircuit
      <3>3. CASE Loop
        BY <1>4, <3>3 DEF Loop, FallbackBirth, SkipDone, EnterStep, DeferredAllocation
      <3>4. CASE Register
        BY <1>4, <3>4 DEF Register, RegisterSnake, RegisterSeam, SeamRefused, RegisterRouted,
           RouteRefused
      <3>5. CASE Batch
        BY <3>5 DEF Batch, BatchPreamble, BatchSeam, RegisterBatch, BatchStarves, BatchRefused
      <3>6. CASE Window
        BY <3>6 DEF Window, MergeStep, MergeBatch, Merge, BeginRide, Split, FinishRide,
           RetireConsumed, LeftoverBirth, FinalReadout
      <3>7. CASE Halt
        BY <3>7 DEF Halt, vars
      <3> QED
        BY <3>1, <3>2, <3>3, <3>4, <3>5, <3>6, <3>7 DEF Next, Build
    <2>2. ASSUME NEW j \in Steps, coupler'[j] # NoCoupler, j \notin done'
          PROVE  coupler'[j].vertical = vertical \cap Targets(j)
      <3>1. CASE coupler'[j] = coupler[j]
        BY <2>1, <2>2, <3>1 DEF CouplersCurrent, Registered
      <3>2. CASE Registering /\ BuiltNow(j)
        BY <3>2 DEF BuiltNow
      <3> QED
        BY <2>2, <3>1, <3>2, RegisteredNow, CouplersStay
    <2> QED
      BY <1>0, <2>1, <2>2 DEF CouplersCurrent, Registered
  <1> QED
    BY <1>1, <1>2, <1>3, <1>4

LEMMA WallsStep ==
  ASSUME Typed, OrderInv, GeometryInv, WallsSound, Next PROVE WallsSound'
  <1>0. /\ exp' = exp /\ Steps' = Steps /\ i \in Nat /\ Steps \subseteq Nat
        /\ head \in [Steps -> Steps]
    BY ExperimentConstant, StepsConstant, Lifetimes DEF Typed, TypeOK
  <1>1. CASE pc \in BeforeCircuit
    <2>1. walls' = walls /\ walls = {}
      BY <1>1, PlanStep, StartOnward DEF BeforeCircuit, WallsSound
    <2> QED
      BY <2>1 DEF WallsSound
  <1>2. CASE pc \notin BeforeCircuit
    <2>1. /\ head' = head /\ pc' \notin BeforeCircuit /\ i' \in {i, i + 1} /\ done \subseteq done'
      BY <1>2, LoopOnward
    <2>2. ASSUME NEW j \in Steps, head[j] <= i PROVE head[j] <= i'
      <3>1. head[j] \in Nat
        BY <1>0
      <3>2. i' = i \/ i' = i + 1
        BY <2>1
      <3> QED
        BY <1>0, <2>2, <3>1, <3>2
    <2>3. ASSUME NEW j \in Steps, coupler'[j] # NoCoupler, j \in walls', j \notin done'
          PROVE  head[j] <= i
      <3>1. CASE coupler'[j] = coupler[j] /\ j \in walls
        BY <2>1, <2>3, <3>1 DEF WallsSound, Registered
      <3>2. CASE j = i
        BY <2>3, <3>2 DEF OrderInv, BatchesSound
      <3>3. CASE pc = "seams" /\ j \in Members(i)
        BY <1>0, <3>3 DEF Members
      <3>4. CASE Registering
        <4>1. j \in walls' \ walls => j = i \/ (pc = "seams" /\ j \in Members(i))
          BY <3>4 DEF Registering, RegisterUpFront, RegisterSnake, RegisterSeam, RegisterRouted,
             RotateSeam, RotateBlocked, BatchSeam, RegisterBatch, Classify
        <4>2. coupler'[j] = coupler[j] \/ j = i \/ (pc = "seams" /\ j \in Members(i))
          BY <1>2, <2>3, <3>4, RegisteredNow DEF BuiltNow, BeforeCircuit
        <4> QED
          BY <2>3, <3>1, <3>2, <3>3, <4>1, <4>2
      <3>5. CASE ~Registering
        BY <2>3, <3>1, <3>5, CouplersStay
      <3> QED
        BY <3>4, <3>5
    <2> QED
      BY <1>0, <2>1, <2>2, <2>3 DEF WallsSound, Registered
  <1> QED
    BY <1>1, <1>2

LEMMA ReadyStep ==
  ASSUME Typed, OrderInv, GeometryInv, ReadySound, Next PROVE ReadySound'
  <1>0. /\ exp' = exp /\ Steps' = Steps
        /\ coupler \in [Steps -> Candidates \cup {NoCoupler}]
        /\ pc \in AtStep => i \in Steps
        /\ \A j \in Steps : \A c \in exp.cands[j] : c # NoCoupler
    BY ExperimentConstant, StepsConstant, Placement DEF Typed, TypeOK
  <1>1. CASE Plan
    BY <1>1, PlanEffects DEF ReadySound, BeforeCircuit
  <1>2. CASE Loop
    <2>1. /\ coupler' = coupler /\ Registered' = Registered
          /\ pc' \notin {"verify", "merged"}
      BY <1>0, <1>2 DEF Loop, FallbackBirth, SkipDone, EnterStep, DeferredAllocation, RotatePlanned,
         AtTop, BringUp, Dispatch, Goto, Registered
    <2>2. /\ pc' \in {"seam", "route"} => i \notin Registered /\ i' = i
          /\ pc' = "merge" => i \in Registered /\ i' = i
      BY <1>2 DEF Loop, FallbackBirth, SkipDone, EnterStep, DeferredAllocation, RotatePlanned,
         AtTop, BringUp, Dispatch, Goto
    <2> QED
      BY <2>1, <2>2 DEF ReadySound
  <1>3. CASE Register
    <2>1. /\ i' = i /\ pc' \notin {"seam", "route", "verify", "merged"}
          /\ pc' = "merge" => i \in Steps /\ \E c \in exp.cands[i] : coupler' = [coupler EXCEPT ![i] = c]
      BY <1>0, <1>3 DEF Register, RegisterSnake, RegisterSeam, RotateSeam, SeamRefused,
         RegisterRouted, RotateBlocked, RouteRefused, RegisterStep, Routable, Goto, AtStep, InStep
    <2>2. pc' = "merge" => i \in Registered'
      BY <1>0, <2>1 DEF Registered
    <2> QED
      BY <2>1, <2>2 DEF ReadySound
  <1>4. CASE Batch
    <2>1. i' = i /\ head' = head /\ pc' \notin {"seam", "route", "merge", "merged"}
      BY <1>4 DEF Batch, BatchPreamble, BatchSeam, RegisterBatch, BatchStarves, BatchRefused,
         BringUp, Demote, Goto, planVars
    <2>2. ASSUME pc' = "verify" PROVE Members(i) \subseteq Registered'
      <3>1. RegisterBatch
        BY <1>4, <2>2 DEF Batch, BatchPreamble, BatchSeam, BatchStarves, BatchRefused,
           BringUp, Demote, Goto
      <3>2. PICK f \in Portfolio :
              coupler' = [j \in Steps |-> IF j \in BatchTodo THEN f[j] ELSE coupler[j]]
        BY <2>2, <3>1 DEF RegisterBatch, Demote, Goto
      <3>3. \A j \in BatchTodo : f[j] \in exp.cands[j]
        BY <3>2 DEF Portfolio, Routable
      <3> QED
        BY <1>0, <3>2, <3>3 DEF BatchTodo, Registered, Members
    <2> QED
      BY <1>0, <2>1, <2>2 DEF ReadySound, Members
  <1>5. CASE Window
    <2>1. /\ coupler' = coupler /\ Registered' = Registered
          /\ pc' \notin {"seam", "route", "merge", "verify"}
      BY <1>0, <1>5 DEF Window, MergeStep, MergeBatch, Merge, BeginRide, Split, FinishRide,
         RetireConsumed, LeftoverBirth, FinalReadout, BringUp, Demote, Goto, Registered
    <2>2. pc' = "merged" => \/ pc = "merge" /\ window' = {i}
                            \/ pc = "verify" /\ window' = Members(i)
                            \/ pc = "merged" /\ window' = window
      BY <1>5 DEF Window, MergeStep, MergeBatch, Merge, BeginRide, Split, FinishRide,
         RetireConsumed, LeftoverBirth, FinalReadout, BringUp, Demote, Goto
    <2> QED
      BY <2>1, <2>2 DEF ReadySound
  <1>6. CASE Halt
    BY <1>0, <1>6 DEF Halt, vars, ReadySound, Registered, Members
  <1> QED
    BY <1>1, <1>2, <1>3, <1>4, <1>5, <1>6 DEF Next, Build

-----------------------------------------------------------------------------
(* The invariant.                                                           *)

LEMMA OrientationInit == Init => OrientationInv
  <1> SUFFICES ASSUME Init PROVE OrientationInv
    OBVIOUS
  <1>1. Registered = {} /\ Steps \subseteq Nat /\ \A l \in Steps : moves[l] = {}
    BY TypedInit, StepsAreNat DEF Init, Registered
  <1> QED
    BY <1>1
    DEF OrientationInv, PlansSound, TurnsSound, CouplersCurrent, WallsSound, ReadySound, Init

LEMMA OrientationStep ==
  Typed /\ LayoutInv /\ OrientationInv /\ [Next]_vars => OrientationInv'
  <1> SUFFICES ASSUME Typed, LayoutInv, OrientationInv, [Next]_vars, LightSteps(exp)'
               PROVE  (PlansSound /\ TurnsSound /\ CouplersCurrent /\ WallsSound /\ ReadySound)'
    BY DEF OrientationInv
  <1>1. LightSteps(exp)
    BY ExperimentConstant DEF LightSteps, vars
  <1>2. CASE Next
    BY <1>1, <1>2, PlansStep, TurnsStep, CurrentStep, WallsStep, ReadyStep
    DEF OrientationInv, LayoutInv
  <1>3. CASE UNCHANGED vars
    BY <1>1, <1>3 DEF vars, OrientationInv, PlansSound, TurnsSound, CouplersCurrent, WallsSound,
       ReadySound, Planned, ToTurn, Registered, Members, Steps, Targets, Adjacent, Snakes
  <1> QED
    BY <1>2, <1>3

\* The whole invariant of build() is inductive, whatever the routers, the
\* rotation protocols and the construction oracles answer.
THEOREM BuildCorrect == Spec => [](Typed /\ BuildInv)
  <1>1. Init => Typed /\ BuildInv
    BY TypedInit, OrderInit, GeometryInit, OrientationInit DEF BuildInv, LayoutInv
  <1>2. Typed /\ BuildInv /\ [Next]_vars => (Typed /\ BuildInv)'
    BY TypedStep, OrderStep, GeometryStep, OrientationStep DEF BuildInv, LayoutInv
  <1> QED
    BY <1>1, <1>2, PTL DEF Spec

\* A coupler runs in the orientations its targets have when it runs, however
\* long before it was registered, planned rotations and repairs included, in
\* every experiment whose routed steps the planner searches.  The condition
\* cannot be dropped: run heavy_steps has a step above the search cap, and
\* its coupler runs stale.
THEOREM CouplersRunCurrent == Spec => [](LightSteps(exp) => NoStaleCoupler)
  <1>1. Typed /\ BuildInv => (LightSteps(exp) => NoStaleCoupler)
    BY WindowOpen
    DEF BuildInv, LayoutInv, OrientationInv, CouplersCurrent, ReadySound, NoStaleCoupler
  <1> QED
    BY <1>1, BuildCorrect, PTL
=============================================================================
