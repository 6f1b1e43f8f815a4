--------------------------- MODULE PPMOrder_proofs ---------------------------
(* The type invariant of PPMDriver, for any patches, cells and experiments;  *)
(* and PPMDriver implements PPMProgram: whatever the planner, the router and *)
(* the batches decide, the emitted circuit measures every step once, in      *)
(* program order up to steps with no patch in common, on living patches.     *)
EXTENDS PPMInvariants, TLAPS

-----------------------------------------------------------------------------
(* What SequentialPPMExperiment is given by the pipeline (PPMExperiments).   *)

\* The experiment being built meets the contract.
LEMMA Accepted == ASSUME exp \in Experiments PROVE ExperimentOK(exp)
  BY ExperimentsAssumption

\* The sizes and sets the handlers use are what they should be.
LEMMA ExperimentTypes ==
  ASSUME exp \in Experiments
  PROVE  /\ exp.n \in Nat
         /\ \A j \in Steps : exp.targets[j] \in SUBSET Patches
         /\ exp.vertical \in SUBSET Patches
         /\ exp.yset \in SUBSET Patches
         /\ \A p \in Patches : exp.home[p] \in Cells
         /\ \A j \in Steps : \A c \in exp.cands[j] :
              c \in Candidates /\ c.cells \in SUBSET Cells
  <1>1. ExperimentOK(exp)
    BY Accepted
  <1>2. \A j \in Steps : \A c \in exp.cands[j] : c \in Candidates
    BY DEF Candidates
  <1>3. \A j \in Steps : \A c \in exp.cands[j] : c.cells \in SUBSET Cells
    BY <1>1 DEF ExperimentOK, CandidatesOK, Steps
  <1> QED
    BY <1>1, <1>2, <1>3 DEF ExperimentOK, PlacementOK, Steps

-----------------------------------------------------------------------------
(* The registry's operations keep the owner ledger well typed.               *)

Owners == Patches \cup Steps \cup {Nobody}

\* add_patch gives the cells of the new patches to those patches.
LEMMA ClaimedType ==
  ASSUME owner \in [Cells -> Owners], NEW S \in SUBSET Patches
  PROVE  Claimed(S) \in [Cells -> Owners]
  BY DEF Claimed, Homes, Owners

\* register_coupler gives the cells of the corridor to the coupler.
LEMMA PlacedType ==
  ASSUME owner \in [Cells -> Owners], NEW j \in Steps, NEW c
  PROVE  Placed(owner, j, c) \in [Cells -> Owners]
  BY DEF Placed, Owners

\* remove_coupler passes cells to patches, to other couplers or to nobody.
LEMMA ReleasedType ==
  ASSUME owner \in [Cells -> Owners], NEW R, NEW g \in Released(R),
         allocated \subseteq Patches, birth \subseteq Patches
  PROVE  g \in [Cells -> Owners]
  <1> DEFINE orphans == {c \in Cells : owner[c] \in R}
             mayOwn(c) == IF Heirs(c, R) = {} THEN {Nobody} ELSE Heirs(c, R)
  <1>1. PICK h \in [orphans -> UNION {mayOwn(c) : c \in orphans}] :
          /\ \A c \in orphans : h[c] \in mayOwn(c)
          /\ g = [c \in Cells |-> IF c \in orphans THEN h[c] ELSE owner[c]]
    BY DEF Released
  <1>2. \A c \in Cells : Heirs(c, R) \subseteq Owners
    BY DEF Heirs, InSystem, Registered, Owners
  <1>3. \A c \in orphans : h[c] \in Owners
    BY <1>1, <1>2 DEF Owners
  <1> QED
    BY <1>1, <1>3

\* After an unplanned rotation, pins and couplers are kept or dropped.
LEMMA ForgetType ==
  ASSUME Typed, NEW S, Forget(S)
  PROVE  /\ pin' \in [Steps -> (SUBSET Cells) \cup {NoPin}]
         /\ owner' \in [Cells -> Owners]
         /\ coupler' \in [Steps -> Candidates \cup {NoCoupler}]
  <1>1. PICK R : owner' \in Released(R)
    BY DEF Forget
  <1>2. owner' \in [Cells -> Owners]
    BY <1>1, ReleasedType DEF Typed, TypeOK, Owners
  <1> QED
    BY <1>2 DEF Forget, Typed, TypeOK

\* Bringing patches to life gives them their cells, and the live ones to them.
LEMMA BringUpType ==
  ASSUME Typed, NEW S \in SUBSET Patches, NEW next \in Locs, BringUp(S, next)
  PROVE  pc' \in Locs /\ owner' \in [Cells -> Owners] /\ live' \in SUBSET Cells
  <1>1. owner \in [Cells -> Owners] /\ live \in SUBSET Cells
    BY DEF Typed, TypeOK, Owners
  <1>2. CASE Collides(S)
    BY <1>1, <1>2 DEF BringUp, Goto, cellVars, Locs
  <1>3. CASE ~Collides(S)
    <2>1. owner' = Claimed(S) /\ live' = live \cup OwnedBy(S, owner') /\ pc' = next
      BY <1>3 DEF BringUp, Goto
    <2> QED
      BY <1>1, <2>1, ClaimedType DEF OwnedBy
  <1> QED
    BY <1>2, <1>3

-----------------------------------------------------------------------------
(* Steps preserve the type invariant.                                        *)

\* No step changes the experiment.
LEMMA ExperimentConstant == ASSUME Next PROVE exp' = exp
  <1>1. ASSUME Plan PROVE exp' = exp
    BY <1>1 DEF Plan, Planning, PlanSeam, PlanNothing, PlanRouted, AllocateUpFront, PlanBatch, BatchesPlanned, RegisterUpFront, StartCircuit
  <1>2. ASSUME Loop PROVE exp' = exp
    BY <1>2 DEF Loop, FallbackBirth, SkipDone, EnterStep, DeferredAllocation, RotatePlanned
  <1>3. ASSUME Register PROVE exp' = exp
    BY <1>3 DEF Register, RegisterSnake, RegisterSeam, RotateSeam, SeamRefused, RegisterRouted, RotateBlocked, RouteRefused
  <1>4. ASSUME Batch PROVE exp' = exp
    BY <1>4 DEF Batch, BatchPreamble, BatchSeam, RegisterBatch, BatchStarves, BatchRefused
  <1>5. ASSUME Window PROVE exp' = exp
    BY <1>5 DEF Window, Merge, MergeStep, MergeBatch, BeginRide, Split, FinishRide, RetireConsumed, LeftoverBirth, FinalReadout
  <1> QED
    BY <1>1, <1>2, <1>3, <1>4, <1>5 DEF Next, Build, Halt, vars

LEMMA StepsConstant ==
  ASSUME exp' = exp
  PROVE  Steps' = Steps /\ Candidates' = Candidates
  BY DEF Steps, Candidates

\* Planning, up-front allocation and registration.
LEMMA PlanTypes == ASSUME Typed, Plan PROVE TypeOK'
  <1> USE DEF Typed, TypeOK, Locs
  <1>0. Steps' = Steps /\ Candidates' = Candidates /\ exp' = exp
    BY ExperimentConstant, StepsConstant DEF Next, Build
  <1>n. exp.n \in Nat
    BY ExperimentTypes
  <1>1. CASE PlanSeam
    <2>1. PICK c \in exp.cands[i] :
            \E S \in SUBSET (Flip(vertical \cap Targets(i), c.vertical) \ exp.yset) :
              /\ moves' = [moves EXCEPT ![i] = S]
              /\ vertical' = Flip(vertical, S)
      BY <1>1 DEF PlanSeam
    <2>2. PICK S \in SUBSET (Flip(vertical \cap Targets(i), c.vertical) \ exp.yset) :
            moves' = [moves EXCEPT ![i] = S] /\ vertical' = Flip(vertical, S)
      BY <2>1
    <2>3. c.vertical \subseteq Patches
      BY <1>1, Accepted, ExperimentTypes
      DEF PlanSeam, Planning, ExperimentOK, CandidatesOK, Steps
    <2>4. S \in SUBSET Patches /\ vertical' \in SUBSET Patches
      BY <2>2, <2>3 DEF Flip
    <2> QED
      BY <1>0, <1>n, <1>1, <2>2, <2>4
      DEF PlanSeam, Planning, Steps, patchVars, cellVars
  <1>2. CASE PlanNothing
    BY <1>0, <1>n, <1>2 DEF PlanNothing, Planning, patchVars, cellVars
  <1>3. CASE PlanRouted
    <2>1. CASE pc' = "raised" /\ UNCHANGED <<i, vertical, moves, late, pin>>
      BY <1>0, <1>3, <2>1 DEF PlanRouted, Planning, patchVars, cellVars
    <2>2. CASE ~(pc' = "raised" /\ UNCHANGED <<i, vertical, moves, late, pin>>)
      <3>1. i \in Steps
        BY <1>n, <1>3 DEF PlanRouted, Planning, Steps
      <3>a. PICK S \in SUBSET (Targets(i) \ exp.yset) :
              \E c \in Routable(i, View(i, {}), Flip(vertical, S)) :
                /\ moves' = [moves EXCEPT ![i] = S]
                /\ vertical' = Flip(vertical, S)
                /\ pin' = [pin EXCEPT ![i] = IF c.cells = {} THEN NoPin ELSE c.cells]
                /\ late' = IF \E j \in 0 .. i : moves'[j] # {} THEN late \cup {i}
                                                               ELSE late
                /\ i' = i + 1
                /\ UNCHANGED pc
        BY <1>3, <2>2 DEF PlanRouted, Goto
      <3>2. PICK c \in Routable(i, View(i, {}), Flip(vertical, S)) :
              /\ moves' = [moves EXCEPT ![i] = S]
              /\ vertical' = Flip(vertical, S)
              /\ pin' = [pin EXCEPT ![i] = IF c.cells = {} THEN NoPin ELSE c.cells]
              /\ late' = IF \E j \in 0 .. i : moves'[j] # {} THEN late \cup {i}
                                                             ELSE late
              /\ i' = i + 1
              /\ UNCHANGED pc
        BY <3>a
      <3>3. S \in SUBSET Patches /\ c.cells \in SUBSET Cells
        BY <3>1, <3>2, ExperimentTypes DEF Targets, Routable
      <3>4. vertical' \in SUBSET Patches /\ late' \in SUBSET Steps
        BY <3>1, <3>2, <3>3 DEF Flip
      <3>5. /\ moves' \in [Steps -> SUBSET Patches]
            /\ pin' \in [Steps -> (SUBSET Cells) \cup {NoPin}]
        BY <3>1, <3>2, <3>3
      <3>6. i' \in 0 .. exp.n
        BY <1>n, <3>1, <3>2 DEF Steps
      <3> QED
        BY <1>0, <1>3, <3>2, <3>4, <3>5, <3>6
        DEF PlanRouted, Planning, patchVars, cellVars
    <2> QED
      BY <2>1, <2>2
  <1>4. CASE AllocateUpFront
    <2>1. PICK S \in SUBSET Patches : allocated' = S /\ owner' = Claimed(S)
      BY <1>4 DEF AllocateUpFront
    <2>2. owner' \in [Cells -> Owners]
      BY <2>1, ClaimedType DEF Owners
    <2>3. exp.vertical \in SUBSET Patches /\ 0 \in 0 .. exp.n
      BY <1>n, ExperimentTypes
    <2> QED
      BY <1>0, <1>4, <2>1, <2>2, <2>3 DEF AllocateUpFront, Goto, planVars, Owners
  <1>5. CASE PlanBatch
    <2>1. i \in Steps /\ (i > 0 => i - 1 \in Steps) /\ i' \in 0 .. exp.n
      BY <1>n, <1>5 DEF PlanBatch, Steps
    <2>2. head' \in [Steps -> Steps]
      BY <1>5, <2>1 DEF PlanBatch
    <2> QED
      BY <1>0, <1>5, <2>1, <2>2 DEF PlanBatch, patchVars, cellVars
  <1>6. CASE BatchesPlanned
    BY <1>0, <1>n, <1>6
    DEF BatchesPlanned, Goto, planVars, patchVars, cellVars
  <1>7. CASE RegisterUpFront
    <2>1. i \in Steps /\ i' \in 0 .. exp.n
      BY <1>n, <1>7 DEF RegisterUpFront, Steps
    <2>2. /\ owner' \in [Cells -> Owners]
          /\ coupler' \in [Steps -> Candidates \cup {NoCoupler}]
      <3>1. CASE UNCHANGED <<coupler, owner>>
        BY <3>1 DEF Owners
      <3>2. CASE \E c \in Routable(i, View(i, {}), vertical) :
                   /\ coupler' = [coupler EXCEPT ![i] = c]
                   /\ owner' = Placed(owner, i, c)
        <4>1. PICK c \in Routable(i, View(i, {}), vertical) :
                /\ coupler' = [coupler EXCEPT ![i] = c]
                /\ owner' = Placed(owner, i, c)
          BY <3>2
        <4>2. c \in Candidates
          BY <2>1, <4>1, ExperimentTypes DEF Routable
        <4> QED
          BY <2>1, <4>1, <4>2, PlacedType DEF Owners
      <3> QED
        BY <1>7, <3>1, <3>2 DEF RegisterUpFront
    <2> QED
      BY <1>0, <1>7, <2>1, <2>2 DEF RegisterUpFront, planVars, patchVars, Owners
  <1>8. CASE StartCircuit
    BY <1>0, <1>n, <1>8 DEF StartCircuit, Goto, OwnedBy, planVars, patchVars
  <1> QED
    BY <1>1, <1>2, <1>3, <1>4, <1>5, <1>6, <1>7, <1>8 DEF Plan

\* The top of the main loop.
LEMMA LoopTypes == ASSUME Typed, Loop PROVE TypeOK'
  <1> USE DEF Typed, TypeOK
  <1>0. Steps' = Steps /\ Candidates' = Candidates /\ exp' = exp
    BY ExperimentConstant, StepsConstant DEF Next, Build
  <1>n. exp.n \in Nat /\ exp.yset \in SUBSET Patches
    BY ExperimentTypes
  <1>1. CASE FallbackBirth
    <2>1. PICK S \in SUBSET Patches :
            BringUp(S, "top") /\ allocated' = allocated \cup S
      BY <1>n, <1>1 DEF FallbackBirth, BirthBatch
    <2>2. pc' \in Locs /\ owner' \in [Cells -> Owners] /\ live' \in SUBSET Cells
      BY <2>1, BringUpType DEF Locs
    <2> QED
      BY <1>0, <1>1, <2>1, <2>2 DEF FallbackBirth, planVars, Owners
  <1>2. CASE SkipDone
    BY <1>0, <1>n, <1>2 DEF SkipDone, AtTop, planVars, patchVars, cellVars
  <1>3. CASE EnterStep
    BY <1>0, <1>3 DEF EnterStep, Goto, planVars, patchVars, cellVars, Locs
  <1>4. CASE DeferredAllocation
    <2>1. i \in Steps
      BY <1>4 DEF DeferredAllocation, AtStep, InStep
    <2>2. Newly({i}) \in SUBSET Patches
      BY <2>1, ExperimentTypes DEF Newly, Targets
    <2>3. PICK next \in Locs : BringUp(Newly({i}), next)
      BY <1>4 DEF DeferredAllocation, Locs
    <2>4. pc' \in Locs /\ owner' \in [Cells -> Owners] /\ live' \in SUBSET Cells
      BY <2>2, <2>3, BringUpType
    <2> QED
      BY <1>0, <1>4, <2>2, <2>4 DEF DeferredAllocation, planVars, Owners
  <1>5. CASE RotatePlanned
    <2>1. i \in Steps
      BY <1>5 DEF RotatePlanned, AtStep, InStep
    <2>2. vertical' \in SUBSET Patches /\ pc' \in Locs
      BY <1>5, <2>1 DEF RotatePlanned, Goto, Dispatch, Flip, Locs
    <2> QED
      BY <1>0, <1>5, <2>2 DEF RotatePlanned, planVars, patchVars, cellVars
  <1> QED
    BY <1>1, <1>2, <1>3, <1>4, <1>5 DEF Loop

\* Registration inside the loop.
LEMMA RegisterStepTypes ==
  ASSUME Typed, i \in Steps, NEW c \in exp.cands[i], RegisterStep(c)
  PROVE  /\ coupler' \in [Steps -> Candidates \cup {NoCoupler}]
         /\ owner' \in [Cells -> Owners]
         /\ pc' = "merge"
  BY ExperimentTypes, PlacedType
  DEF RegisterStep, Goto, Typed, TypeOK, Owners

LEMMA RegisterTypes == ASSUME Typed, Register PROVE TypeOK'
  <1> USE DEF Typed, TypeOK
  <1>0. Steps' = Steps /\ Candidates' = Candidates /\ exp' = exp
    BY ExperimentConstant, StepsConstant DEF Next, Build
  <1>i. i \in Steps
    BY DEF Register, RegisterSnake, RegisterSeam, RotateSeam, SeamRefused,
           RegisterRouted, RotateBlocked, RouteRefused, AtStep, InStep
  <1>r. Targets(i) \subseteq Patches
    BY <1>i, ExperimentTypes DEF Targets
  <1>1. CASE RegisterSnake
    <2>1. CASE pc' = "raised" /\ UNCHANGED <<coupler, owner>>
      BY <1>0, <1>1, <2>1 DEF RegisterSnake, planVars, patchVars, Locs
    <2>2. CASE \E c \in exp.cands[i] : RegisterStep(c)
      BY <1>0, <1>1, <1>i, <2>2, RegisterStepTypes
      DEF RegisterSnake, planVars, patchVars, Locs, Owners
    <2> QED
      BY <1>1, <2>1, <2>2 DEF RegisterSnake, Goto, Routable
  <1>2. CASE RegisterSeam
    <2>1. PICK c \in exp.cands[i] : Classify(i, c) /\ RegisterStep(c)
      BY <1>2 DEF RegisterSeam
    <2>2. walls' \in SUBSET Steps
      BY <1>i, <2>1 DEF Classify
    <2> QED
      BY <1>0, <1>2, <1>i, <2>1, <2>2, RegisterStepTypes
      DEF RegisterSeam, planVars, patchVars, Locs, Owners
  <1>3. CASE RotateSeam
    <2>1. PICK c \in exp.cands[i] :
            \E S \in SUBSET (Flip(vertical \cap Targets(i), c.vertical) \ exp.yset) :
              S # {} /\ vertical' = Flip(vertical, S) /\ Forget(S)
      BY <1>3 DEF RotateSeam
    <2>2. PICK S \in SUBSET (Flip(vertical \cap Targets(i), c.vertical) \ exp.yset) :
            vertical' = Flip(vertical, S) /\ Forget(S)
      BY <2>1
    <2>3. c.vertical \subseteq Patches
      BY <1>i, <1>r, Accepted DEF ExperimentOK, CandidatesOK, Steps, Targets
    <2>4. vertical' \in SUBSET Patches
      BY <2>2, <2>3 DEF Flip
    <2> QED
      BY <1>0, <1>3, <2>2, <2>4, ForgetType
      DEF RotateSeam, Goto, planVars, patchVars, Locs, Owners
  <1>4. CASE SeamRefused
    BY <1>0, <1>4 DEF SeamRefused, Goto, planVars, patchVars, cellVars, Locs
  <1>5. CASE RegisterRouted
    <2>1. PICK c \in exp.cands[i] : RegisterStep(c)
      BY <1>5 DEF RegisterRouted, Routable
    <2> QED
      BY <1>0, <1>5, <1>i, <2>1, RegisterStepTypes
      DEF RegisterRouted, planVars, patchVars, Locs, Owners
  <1>6. CASE RotateBlocked
    <2>1. PICK p \in Targets(i) : vertical' = Flip(vertical, {p}) /\ Forget({p})
      BY <1>6 DEF RotateBlocked
    <2>2. vertical' \in SUBSET Patches
      BY <1>r, <2>1 DEF Flip
    <2> QED
      BY <1>0, <1>6, <2>1, <2>2, ForgetType
      DEF RotateBlocked, Goto, planVars, patchVars, Locs, Owners
  <1>7. CASE RouteRefused
    BY <1>0, <1>7 DEF RouteRefused, Goto, planVars, patchVars, cellVars, Locs
  <1> QED
    BY <1>1, <1>2, <1>3, <1>4, <1>5, <1>6, <1>7 DEF Register

\* A shared merge window.
LEMMA BatchTypes == ASSUME Typed, Batch PROVE TypeOK'
  <1> USE DEF Typed, TypeOK
  <1>0. Steps' = Steps /\ Candidates' = Candidates /\ exp' = exp
    BY ExperimentConstant, StepsConstant DEF Next, Build
  <1>1. CASE BatchPreamble
    <2>1. \A j \in Members(i) : Targets(j) \subseteq Patches
      BY ExperimentTypes DEF Members, Targets
    <2>2. Newly(Members(i)) \in SUBSET Patches
      BY <2>1 DEF Newly
    <2>3. pc' \in Locs /\ owner' \in [Cells -> Owners] /\ live' \in SUBSET Cells
      BY <1>1, <2>2, BringUpType DEF BatchPreamble, Locs
    <2> QED
      BY <1>0, <1>1, <2>2, <2>3 DEF BatchPreamble, planVars, Owners
  <1>2. CASE BatchSeam
    <2>1. PICK j \in Steps :
            \/ \E c \in exp.cands[j] :
                 /\ Classify(j, c)
                 /\ coupler' = [coupler EXCEPT ![j] = c]
                 /\ owner' = Placed(owner, j, c)
                 /\ IF walls' = walls THEN UNCHANGED pc ELSE Demote
            \/ pc' = "lawless" /\ UNCHANGED <<coupler, owner, walls>>
      BY <1>2 DEF BatchSeam, Members, Goto
    <2>2. CASE pc' = "lawless" /\ UNCHANGED <<coupler, owner, walls>>
      BY <1>0, <1>2, <2>2 DEF BatchSeam, planVars, patchVars, Locs
    <2>3. CASE \E c \in exp.cands[j] :
                 /\ Classify(j, c)
                 /\ coupler' = [coupler EXCEPT ![j] = c]
                 /\ owner' = Placed(owner, j, c)
                 /\ IF walls' = walls THEN UNCHANGED pc ELSE Demote
      <3>1. PICK c \in exp.cands[j] :
              /\ Classify(j, c)
              /\ coupler' = [coupler EXCEPT ![j] = c]
              /\ owner' = Placed(owner, j, c)
              /\ IF walls' = walls THEN UNCHANGED pc ELSE Demote
        BY <2>3
      <3>2. coupler' \in [Steps -> Candidates \cup {NoCoupler}]
        BY <3>1, ExperimentTypes
      <3>3. owner' \in [Cells -> Owners]
        BY <3>1, PlacedType DEF Owners
      <3>4. walls' \in SUBSET Steps /\ pc' \in Locs
        BY <3>1 DEF Classify, Demote, Goto, Locs
      <3> QED
        BY <1>0, <1>2, <3>2, <3>3, <3>4
        DEF BatchSeam, planVars, patchVars, Owners
    <2> QED
      BY <2>1, <2>2, <2>3
  <1>3. CASE RegisterBatch
    <2>1. PICK f \in Portfolio, R \in SUBSET BatchTodo :
            /\ coupler' = [j \in Steps |-> IF j \in R THEN f[j] ELSE coupler[j]]
            /\ owner' = [c \in Cells |->
                 IF \E j \in R : c \in f[j].cells
                 THEN CHOOSE j \in R : c \in f[j].cells ELSE owner[c]]
            /\ \E S \in {R} \cup {R \cup {j} : j \in BatchTodo \ R} :
                 /\ pin' = [j \in Steps |-> IF j \in S THEN f[j].cells ELSE pin[j]]
                 /\ IF R = BatchTodo THEN Goto("verify") ELSE S # R /\ Demote
      BY <1>3 DEF RegisterBatch
    <2>2. BatchTodo \subseteq Steps
      BY DEF BatchTodo, Members
    <2>3. \A j \in BatchTodo : f[j] \in Candidates /\ f[j].cells \in SUBSET Cells
      BY <2>1, <2>2, ExperimentTypes DEF Portfolio, Routable
    <2>4. coupler' \in [Steps -> Candidates \cup {NoCoupler}]
      BY <2>1, <2>3
    <2>5. owner' \in [Cells -> Owners]
      BY <2>1, <2>2 DEF Owners
    <2>6. PICK S \in {R} \cup {R \cup {j} : j \in BatchTodo \ R} :
            /\ pin' = [j \in Steps |-> IF j \in S THEN f[j].cells ELSE pin[j]]
            /\ IF R = BatchTodo THEN Goto("verify") ELSE S # R /\ Demote
      BY <2>1
    <2>7. S \subseteq BatchTodo
      BY <2>1
    <2>8. pin' \in [Steps -> (SUBSET Cells) \cup {NoPin}] /\ pc' \in Locs
      BY <2>3, <2>6, <2>7 DEF Demote, Goto, Locs
    <2> QED
      BY <1>0, <1>3, <2>4, <2>5, <2>8
      DEF RegisterBatch, planVars, patchVars, Owners
  <1>4. CASE BatchStarves \/ BatchRefused
    BY <1>0, <1>4
    DEF BatchStarves, BatchRefused, Demote, Goto, planVars, patchVars, cellVars, Locs
  <1> QED
    BY <1>1, <1>2, <1>3, <1>4 DEF Batch

\* Activating couplers makes their corridors live.
LEMMA MergeTypes ==
  ASSUME Typed, NEW W \in SUBSET Steps, Merge(W)
  PROVE  live' \in SUBSET Cells /\ window' \in SUBSET Steps /\ pc' \in Locs
  <1>1. \A j \in Steps : Corridor(j) \subseteq Cells
    BY ExperimentTypes DEF Corridor, Typed, TypeOK, Candidates
  <1> QED
    BY <1>1 DEF Merge, Goto, Locs, Typed, TypeOK

\* The merge window and what follows it.
LEMMA WindowTypes == ASSUME Typed, Window PROVE TypeOK'
  <1> USE DEF Typed, TypeOK
  <1>0. Steps' = Steps /\ Candidates' = Candidates /\ exp' = exp
    BY ExperimentConstant, StepsConstant DEF Next, Build
  <1>n. exp.n \in Nat /\ exp.yset \in SUBSET Patches
    BY ExperimentTypes
  <1>1. CASE MergeStep
    <2>1. {i} \in SUBSET Steps /\ Merge({i})
      BY <1>1 DEF MergeStep, AtStep, InStep
    <2> QED
      BY <1>0, <2>1, MergeTypes DEF Merge, planVars, patchVars
  <1>2. CASE MergeBatch
    <2>1. CASE Overlap(Members(i))
      BY <1>0, <1>2, <2>1
      DEF MergeBatch, Demote, Goto, planVars, patchVars, cellVars, Locs
    <2>2. CASE ~Overlap(Members(i))
      <3>1. Members(i) \in SUBSET Steps /\ Merge(Members(i))
        BY <1>2, <2>2 DEF MergeBatch, Members
      <3> QED
        BY <1>0, <3>1, MergeTypes DEF Merge, planVars, patchVars
    <2> QED
      BY <2>1, <2>2
  <1>3. CASE BeginRide
    <2>1. Riders \in SUBSET Patches
      BY <1>n DEF Riders, BirthBatch
    <2>2. pc' \in Locs /\ owner' \in [Cells -> Owners] /\ live' \in SUBSET Cells
      BY <1>3, <2>1, BringUpType DEF BeginRide, Locs
    <2> QED
      BY <1>0, <1>3, <2>1, <2>2 DEF BeginRide, planVars, Owners
  <1>4. CASE Split
    BY <1>0, <1>4 DEF Split, Goto, planVars, patchVars, Locs
  <1>5. CASE FinishRide
    BY <1>0, <1>5 DEF FinishRide, Goto, planVars, cellVars, Locs
  <1>6. CASE RetireConsumed
    <2>1. Retiring(window) \in SUBSET Patches
      BY DEF Retiring
    <2>2. i' \in 0 .. exp.n
      BY <1>6, <1>n DEF RetireConsumed, AtStep, Steps
    <2> QED
      BY <1>0, <1>6, <2>1, <2>2 DEF RetireConsumed, Goto, planVars, Locs
  <1>7. CASE LeftoverBirth
    <2>1. PICK S \in SUBSET Patches :
            BringUp(S, "top") /\ allocated' = allocated \cup S
      BY <1>n, <1>7 DEF LeftoverBirth
    <2>2. pc' \in Locs /\ owner' \in [Cells -> Owners] /\ live' \in SUBSET Cells
      BY <2>1, BringUpType DEF Locs
    <2> QED
      BY <1>0, <1>7, <2>1, <2>2 DEF LeftoverBirth, planVars, Owners
  <1>8. CASE FinalReadout
    BY <1>0, <1>8 DEF FinalReadout, Goto, planVars, Locs
  <1> QED
    BY <1>1, <1>2, <1>3, <1>4, <1>5, <1>6, <1>7, <1>8 DEF Window

\* While a step is under way, the loop index is that step.
LEMMA IndexInRange ==
  ASSUME Typed, Next, Steps' = Steps
  PROVE  pc' \in AtStep => i' \in Steps
  <1> USE DEF AtStep, InBatchWindow, InStep, Goto
  <1>n. exp.n \in Nat
    BY ExperimentTypes DEF Typed
  <1>1. CASE Plan
    BY <1>1 DEF Plan, Planning, PlanSeam, PlanNothing, PlanRouted, AllocateUpFront, PlanBatch,
                BatchesPlanned, RegisterUpFront, StartCircuit
  <1>2. CASE Loop
    BY <1>n, <1>2
    DEF Loop, FallbackBirth, SkipDone, EnterStep, DeferredAllocation,
        RotatePlanned, BringUp, AtTop, Steps, Typed, TypeOK
  <1>3. CASE Register
    BY <1>3
    DEF Register, RegisterSnake, RegisterSeam, RotateSeam, SeamRefused,
        RegisterRouted, RotateBlocked, RouteRefused, Typed
  <1>4. CASE Batch
    BY <1>4
    DEF Batch, BatchPreamble, BatchSeam, RegisterBatch, BatchStarves, BatchRefused, Typed
  <1>5. CASE Window
    BY <1>5
    DEF Window, MergeStep, MergeBatch, Merge, Demote, BeginRide, Split, FinishRide,
        RetireConsumed, LeftoverBirth, FinalReadout, BringUp, Typed
  <1>6. CASE Halt
    BY <1>6 DEF Halt, vars, Typed
  <1> QED
    BY <1>1, <1>2, <1>3, <1>4, <1>5, <1>6 DEF Next, Build

-----------------------------------------------------------------------------
(* The type invariant.                                                       *)

LEMMA TypedInit == Init => Typed
  <1> SUFFICES ASSUME Init PROVE Typed
    OBVIOUS
  <1>1. exp \in Experiments
    BY DEF Init
  <1>2. TypeOK
    <2>1. exp.n \in Nat /\ exp.vertical \in SUBSET Patches
      BY <1>1, ExperimentTypes
    <2> QED
      BY <2>1 DEF Init, TypeOK, Locs
  <1> QED
    BY <1>1, <1>2 DEF Init, Typed, AtStep, InBatchWindow, InStep

LEMMA TypedStep == Typed /\ [Next]_vars => Typed'
  <1> SUFFICES ASSUME Typed, [Next]_vars PROVE Typed'
    OBVIOUS
  <1>1. CASE Next
    <2>1. exp' = exp /\ Steps' = Steps
      BY <1>1, ExperimentConstant, StepsConstant
    <2>2. TypeOK'
      BY <1>1, PlanTypes, LoopTypes, RegisterTypes, BatchTypes, WindowTypes
      DEF Next, Build, Halt, vars, Typed, TypeOK, Steps, Candidates
    <2>3. pc' \in AtStep => i' \in Steps'
      BY <1>1, <2>1, IndexInRange
    <2> QED
      BY <2>1, <2>2, <2>3 DEF Typed
  <1>2. CASE UNCHANGED vars
    BY <1>2 DEF vars, Typed, TypeOK, Steps, Candidates
  <1> QED
    BY <1>1, <1>2

\* Every variable has its type throughout build(), whatever the experiment:
\* in particular the three ledgers of the registry only ever hold cells and
\* names that exist, and the loop index never runs past the sequence.
THEOREM TypeCorrect == Spec => [](Typed /\ TypeOK)
  <1>1. Typed => TypeOK
    BY DEF Typed
  <1> QED
    BY <1>1, TypedInit, TypedStep, PTL DEF Spec

-----------------------------------------------------------------------------
(* Program order.                                                            *)

\* Names of patches are not step numbers, and nobody is neither.
LEMMA NotAPatch == \A j \in Nat : j \notin Patches
  BY NamesAssumption

LEMMA StepsAreNat == ASSUME Typed PROVE Steps \subseteq Nat /\ exp.n \in Nat
  BY ExperimentTypes DEF Typed, Steps

-----------------------------------------------------------------------------
(* Batches are runs of consecutive steps without a patch in common.          *)

LEMMA BatchesStep == ASSUME Typed, BatchesSound, Next PROVE BatchesSound'
  <1>0. exp' = exp /\ Steps' = Steps /\ Steps \subseteq Nat /\ exp.n \in Nat
    BY ExperimentConstant, StepsConstant, StepsAreNat
  <1>t. \A j : Targets(j)' = Targets(j)
    BY <1>0 DEF Targets
  <1>h. head \in [Steps -> Steps] /\ i \in Nat
    BY <1>0 DEF Typed, TypeOK
  <1>1. CASE PlanBatch
    <2> DEFINE joins == /\ i > 0 /\ Eligible(i) /\ Eligible(i - 1)
                        /\ \A j \in 0 .. i - 1 :
                             head[j] = head[i - 1] => Targets(j) \cap Targets(i) = {}
    <2>1. /\ i \in Steps /\ pc = "batches" /\ pc' = "batches" /\ i' = i + 1
          /\ head' = [head EXCEPT ![i] = IF joins THEN head[i - 1] ELSE i]
      <3>1. i \in Steps /\ pc = "batches" /\ pc' = "batches" /\ i' = i + 1
        BY <1>0, <1>h, <1>1 DEF PlanBatch, Steps
      <3>2. head' = [head EXCEPT ![i] = IF joins THEN head[i - 1] ELSE i]
        BY <1>1 DEF PlanBatch
      <3> QED
        BY <3>1, <3>2
    <2>2. \A j \in Steps : j >= i => head[j] = j
      BY <2>1 DEF BatchesSound
    <2>3. CASE ~joins
      <3>1. head' = head
        BY <1>h, <2>1, <2>2, <2>3
      <3> QED
        BY <1>0, <1>t, <1>h, <2>1, <2>2, <3>1 DEF BatchesSound
    <2>4. CASE joins
      <3> DEFINE h == head[i - 1]
      <3>1. i - 1 \in Steps /\ h \in Steps /\ h <= i - 1
        BY <1>0, <1>h, <2>1, <2>4 DEF BatchesSound, Steps
      <3>2. head' = [head EXCEPT ![i] = h]
        BY <2>1, <2>4
      <3>3. \A j \in Steps : j < i => head[j] <= j /\ head'[j] = head[j]
        BY <1>h, <2>1, <3>2 DEF BatchesSound
      <3>4. \A j \in Steps : j > i => head'[j] = j
        BY <1>0, <1>h, <2>1, <2>2, <3>2
      <3>5. head'[i] = h
        BY <1>h, <2>1, <3>2
      <3>a. \A j \in Steps : head'[j] <= j
        <4>1. \A j \in Steps : j < i \/ j = i \/ j > i
          BY <1>0, <1>h
        <4> HIDE DEF h
        <4> QED
          BY <1>0, <1>h, <3>1, <3>3, <3>4, <3>5, <4>1
      <3>b. ASSUME NEW j \in Steps, NEW l \in Steps, head'[j] <= l, l <= j
            PROVE  head'[l] = head'[j]
        <4>1. CASE j < i
          BY <1>0, <1>h, <3>3, <3>b, <4>1 DEF BatchesSound
        <4>2. CASE j > i
          BY <1>0, <1>h, <3>4, <3>b, <4>2
        <4>3. CASE j = i
          <5>1. l = i \/ (l < i /\ h <= l /\ l <= i - 1)
            BY <1>0, <1>h, <3>5, <3>b, <4>3
          <5>2. h <= l /\ l <= i - 1 => head[l] = h
            BY <3>1, <3>b DEF BatchesSound
          <5> QED
            BY <3>3, <3>5, <4>3, <5>1, <5>2
        <4> QED
          BY <1>0, <1>h, <4>1, <4>2, <4>3
      <3>c. ASSUME NEW j \in Steps, NEW l \in Steps, j # l, head'[j] = head'[l]
            PROVE  Targets(j) \cap Targets(l) = {}
        <4>1. CASE j < i /\ l < i
          BY <3>3, <3>c, <4>1 DEF BatchesSound
        <4>2. ~(j > i) /\ ~(l > i)
          BY <1>0, <1>h, <2>1, <3>1, <3>3, <3>4, <3>5, <3>c, <3>a
        <4>3. CASE j = i /\ l < i
          BY <1>0, <1>h, <2>4, <3>3, <3>5, <3>c, <4>3
        <4>4. CASE l = i /\ j < i
          BY <1>0, <1>h, <2>4, <3>3, <3>5, <3>c, <4>4
        <4> QED
          BY <1>0, <1>h, <3>c, <4>1, <4>2, <4>3, <4>4
      <3> QED
        BY <1>0, <1>t, <1>h, <2>1, <3>4, <3>a, <3>b, <3>c DEF BatchesSound
    <2> QED
      BY <2>3, <2>4
  <1>2. CASE ~PlanBatch
    <2>1. /\ head' = head
          /\ pc' = "plan" => pc = "plan"
          /\ pc' = "batches" => pc = "plan" \/ (pc = "batches" /\ i' = i)
      <3>1. CASE Plan
        BY <1>2, <3>1 DEF Plan, Planning, PlanSeam, PlanNothing, PlanRouted,
           AllocateUpFront, BatchesPlanned, RegisterUpFront, StartCircuit, planVars, Goto
      <3>2. CASE Loop
        BY <3>2 DEF Loop, FallbackBirth, SkipDone, EnterStep, AtTop,
           DeferredAllocation, RotatePlanned, BringUp, Dispatch, planVars, Goto
      <3>3. CASE Register
        BY <3>3 DEF Register, RegisterSnake, RegisterSeam, RotateSeam,
           SeamRefused, RegisterRouted, RotateBlocked, RouteRefused,
           RegisterStep, planVars, Goto
      <3>4. CASE Batch
        BY <3>4 DEF Batch, BatchPreamble, BatchSeam, RegisterBatch,
           BatchStarves, BatchRefused, BringUp, Demote, planVars, Goto
      <3>5. CASE Window
        BY <3>5 DEF Window, MergeStep, MergeBatch, Merge, Demote, BeginRide,
           Split, FinishRide, RetireConsumed, LeftoverBirth, FinalReadout,
           BringUp, planVars, Goto
      <3>6. CASE Halt
        BY <3>6 DEF Halt, vars
      <3> QED
        BY <3>1, <3>2, <3>3, <3>4, <3>5, <3>6 DEF Next, Build
    <2>2. /\ pc' = "plan" => \A j \in Steps : head[j] = j
          /\ pc' = "batches" => \A j \in Steps : j >= i' => head[j] = j
      BY <2>1 DEF BatchesSound
    <2> QED
      BY <1>0, <1>t, <2>1, <2>2 DEF BatchesSound
  <1> QED
    BY <1>1, <1>2

-----------------------------------------------------------------------------
(* The loop leaves no step out, and does none twice.                         *)

LEMMA ProgressStep ==
  ASSUME Typed, BatchesSound, ProgressSound, Next PROVE ProgressSound'
  <1>0. exp' = exp /\ Steps' = Steps /\ Steps \subseteq Nat /\ exp.n \in Nat
    BY ExperimentConstant, StepsConstant, StepsAreNat
  <1>i. i \in Nat /\ (pc \in AtStep => i \in Steps)
    BY <1>0 DEF Typed, TypeOK
  <1> USE DEF ProgressSound, Members, BeforeCircuit, InBatchWindow, InStep, AtStep,
              Goto
  <1>1. CASE Plan
    BY <1>0, <1>i, <1>1
    DEF Plan, Planning, PlanSeam, PlanNothing, PlanRouted, AllocateUpFront, PlanBatch,
        BatchesPlanned, RegisterUpFront, StartCircuit, planVars, patchVars
  <1>2. CASE FallbackBirth
    BY <1>0, <1>i, <1>2 DEF FallbackBirth, BringUp, planVars
  <1>3. CASE SkipDone
    <2>1. done \subseteq Nat /\ \A j \in done : head[j] \in Nat
      BY <1>0 DEF Typed, TypeOK
    <2> QED
      BY <1>0, <1>i, <1>3, <2>1 DEF SkipDone, AtTop, planVars, patchVars
  <1>4. CASE EnterStep
    BY <1>0, <1>i, <1>4 DEF EnterStep, AtTop, planVars, patchVars
  <1>5. CASE DeferredAllocation
    BY <1>0, <1>i, <1>5 DEF DeferredAllocation, BringUp, planVars
  <1>6. CASE RotatePlanned
    BY <1>0, <1>i, <1>6 DEF RotatePlanned, Dispatch, planVars, patchVars
  <1>7. CASE Register
    BY <1>0, <1>i, <1>7
    DEF Register, RegisterSnake, RegisterSeam, RotateSeam, SeamRefused, RegisterRouted,
        RotateBlocked, RouteRefused, RegisterStep, planVars, patchVars
  <1>8. CASE Batch
    BY <1>0, <1>i, <1>8
    DEF Batch, BatchPreamble, BatchSeam, RegisterBatch, BatchStarves, BatchRefused, BringUp,
        Demote, planVars, patchVars
  <1>9. CASE MergeStep
    BY <1>0, <1>i, <1>9 DEF MergeStep, Merge, planVars, patchVars
  <1>10. CASE MergeBatch
    BY <1>0, <1>i, <1>10 DEF MergeBatch, Merge, Demote, planVars, patchVars
  <1>11. CASE BeginRide
    BY <1>0, <1>i, <1>11 DEF BeginRide, BringUp, planVars
  <1>12. CASE Split
    BY <1>0, <1>i, <1>12 DEF Split, planVars, patchVars
  <1>13. CASE FinishRide
    BY <1>0, <1>i, <1>13 DEF FinishRide, planVars
  <1>14. CASE RetireConsumed
    <2>1. /\ pc = "retire" /\ pc' = "top" /\ i' = i + 1 /\ i \in Steps
          /\ done' = done /\ head' = head
      BY <1>i, <1>14 DEF RetireConsumed, planVars
    <2>2. window \subseteq done /\ i \in window
      BY <2>1
    <2>3. \A j \in Steps : j < i + 1 => j \in done
      BY <1>0, <2>1, <2>2
    <2>4. \A j \in window : j < i + 1 \/ head[j] < i + 1
      BY <1>0, <2>1
    <2>5. \A j \in done \ window : j < i + 1 \/ head[j] < i + 1
      <3>1. done \subseteq Nat /\ \A j \in Steps : head[j] \in Nat
        BY <1>0 DEF Typed, TypeOK
      <3> QED
        BY <1>0, <1>i, <2>1, <3>1 DEF Typed, TypeOK
    <2> QED
      BY <1>0, <2>1, <2>3, <2>4, <2>5
  <1>15. CASE LeftoverBirth \/ FinalReadout
    BY <1>0, <1>i, <1>15 DEF LeftoverBirth, FinalReadout, BringUp, planVars
  <1>16. CASE Halt
    BY <1>0, <1>16 DEF Halt, vars
  <1> QED
    BY <1>1, <1>2, <1>3, <1>4, <1>5, <1>6, <1>7, <1>8, <1>9, <1>10, <1>11, <1>12,
       <1>13, <1>14, <1>15, <1>16 DEF Next, Build, Loop, Window

-----------------------------------------------------------------------------
(* Whatever is merged has its patches in place.                              *)

LEMMA NewlyBringsTargets ==
  ASSUME NEW S \in SUBSET Steps, NEW j \in S
  PROVE  Targets(j) \subseteq allocated \cup Newly(S)
  BY DEF Newly

LEMMA TargetsStep ==
  ASSUME Typed, ProgressSound, TargetsIn, Next PROVE TargetsIn'
  <1>0. exp' = exp /\ Steps' = Steps
    BY ExperimentConstant, StepsConstant
  <1>i. pc \in AtStep => i \in Steps
    BY DEF Typed
  <1> USE DEF TargetsIn, Members, Targets, HasTargets, AtStep, InBatchWindow, InStep, Goto
  <1>1. CASE Plan
    BY <1>0, <1>1
    DEF Plan, Planning, PlanSeam, PlanNothing, PlanRouted, AllocateUpFront, PlanBatch,
        BatchesPlanned, RegisterUpFront, StartCircuit
  <1>2. CASE FallbackBirth \/ SkipDone \/ EnterStep
    BY <1>0, <1>2 DEF FallbackBirth, BringUp, SkipDone, EnterStep, AtTop
  <1>3. CASE DeferredAllocation
    BY <1>0, <1>i, <1>3, NewlyBringsTargets DEF DeferredAllocation, BringUp
  <1>4. CASE RotatePlanned
    BY <1>0, <1>4 DEF RotatePlanned, Dispatch, patchVars
  <1>5. CASE Register
    BY <1>0, <1>5
    DEF Register, RegisterSnake, RegisterSeam, RotateSeam, SeamRefused, RegisterRouted,
        RotateBlocked, RouteRefused, RegisterStep, patchVars
  <1>6. CASE BatchPreamble
    BY <1>0, <1>i, <1>6, NewlyBringsTargets DEF BatchPreamble, BringUp, planVars
  <1>7. CASE BatchSeam \/ RegisterBatch \/ BatchStarves \/ BatchRefused
    BY <1>0, <1>7
    DEF BatchSeam, RegisterBatch, BatchStarves, BatchRefused, Demote, planVars, patchVars
  <1>8. CASE MergeStep \/ MergeBatch
    BY <1>0, <1>8 DEF MergeStep, MergeBatch, Merge, Demote, planVars, patchVars
  <1>9. CASE BeginRide
    BY <1>0, <1>9 DEF BeginRide, BringUp
  <1>10. CASE Split \/ FinishRide \/ RetireConsumed \/ LeftoverBirth \/ FinalReadout
    BY <1>0, <1>10
    DEF Split, FinishRide, RetireConsumed, LeftoverBirth, FinalReadout, BringUp
  <1>11. CASE Halt
    BY <1>0, <1>11 DEF Halt, vars
  <1> QED
    BY <1>1, <1>2, <1>3, <1>4, <1>5, <1>6, <1>7, <1>8, <1>9, <1>10, <1>11
    DEF Next, Build, Loop, Batch, Window

-----------------------------------------------------------------------------
(* Patches are read out when their steps are done; cells belong to patches   *)
(* that exist.                                                               *)

\* Bringing up patches S that are about to be recorded as in the system.
LEMMA BringUpOwners ==
  ASSUME NEW S, NEW next, BringUp(S, next),
         \A c \in Cells : owner[c] \in Patches => owner[c] \in InSystem
  PROVE  \A c \in Cells : owner'[c] \in Patches => owner'[c] \in InSystem \cup S
  BY DEF BringUp, cellVars, Claimed, Homes

\* A coupler that is registered or removed gives no cell to a stranger.
LEMMA PlacedOwners ==
  ASSUME Typed, NEW j \in Steps, NEW c, owner' = Placed(owner, j, c),
         \A x \in Cells : owner[x] \in Patches => owner[x] \in InSystem
  PROVE  \A x \in Cells : owner'[x] \in Patches => owner'[x] \in InSystem
  BY NotAPatch, StepsAreNat DEF Placed

LEMMA ForgetOwners ==
  ASSUME Typed, NEW S, Forget(S),
         \A c \in Cells : owner[c] \in Patches => owner[c] \in InSystem
  PROVE  \A c \in Cells : owner'[c] \in Patches => owner'[c] \in InSystem
  <1>1. PICK R : owner' \in Released(R)
    BY DEF Forget
  <1> DEFINE orphans == {c \in Cells : owner[c] \in R}
             mayOwn(c) == IF Heirs(c, R) = {} THEN {Nobody} ELSE Heirs(c, R)
  <1>2. PICK h \in [orphans -> UNION {mayOwn(c) : c \in orphans}] :
          /\ \A c \in orphans : h[c] \in mayOwn(c)
          /\ owner' = [c \in Cells |-> IF c \in orphans THEN h[c] ELSE owner[c]]
    BY <1>1 DEF Released
  <1>3. \A c \in Cells : \A x \in mayOwn(c) : x \in Patches => x \in InSystem
    BY NotAPatch, StepsAreNat, NamesAssumption DEF Heirs, Registered
  <1> QED
    BY <1>2, <1>3

\* A patch retires after the last step that uses it: its lifetime closes with
\* a step of the window, and nothing before the end of the window is open.
LEMMA RetiringIsOver ==
  ASSUME Typed, BatchesSound, ProgressSound, pc = "retire",
         NEW p \in Retiring(window), NEW l \in Steps, p \in Targets(l)
  PROVE  l \in done
  <1>0. Steps \subseteq Nat
    BY StepsAreNat
  <1>1. PICK j \in window : exp.last[p] <= j
    BY DEF Retiring
  <1>2. p \in Patches /\ i \in Steps /\ j \in Steps /\ window \subseteq done
    BY DEF Retiring, Typed, TypeOK, AtStep, ProgressSound
  <1>3. l <= j
    <2>1. l <= exp.last[p] /\ exp.last[p] \in Nat
      BY <1>2, Accepted DEF Typed, ExperimentOK, LifetimesOK, Targets, Steps
    <2> QED
      BY <1>0, <1>1, <1>2, <2>1
  <1>4. CASE l < i
    BY <1>4 DEF ProgressSound, BeforeCircuit
  <1>5. CASE window = {i} /\ ~(l < i)
    BY <1>0, <1>1, <1>2, <1>3, <1>5
  <1>6. CASE head[i] = i /\ window = Members(i) /\ ~(l < i)
    <2>1. head[j] = i /\ i <= l
      BY <1>0, <1>1, <1>2, <1>6 DEF Members
    <2>2. head[l] = i
      BY <1>2, <1>3, <2>1 DEF BatchesSound
    <2> QED
      BY <1>2, <1>6, <2>2 DEF Members
  <1> QED
    BY <1>4, <1>5, <1>6 DEF ProgressSound

\* At the end of the loop every step is done.
LEMMA EndIsDone ==
  ASSUME Typed, ProgressSound, pc = "top", i = exp.n
  PROVE  done = Steps
  <1>1. \A j \in Steps : j < i
    BY StepsAreNat DEF Steps
  <1>2. \A j \in Steps : j \in done
    BY <1>1 DEF ProgressSound, BeforeCircuit
  <1> QED
    BY <1>2 DEF Typed, TypeOK

LEMMA PatchesStep ==
  ASSUME Typed, BatchesSound, ProgressSound, PatchesSound, Next PROVE PatchesSound'
  <1>0. exp' = exp /\ Steps' = Steps
    BY ExperimentConstant, StepsConstant
  <1>i. pc \in AtStep => i \in Steps
    BY DEF Typed
  <1> USE DEF Targets, InSystem, Goto
  <1>1. CASE Plan
    <2>0. measured = {} /\ birth = {} /\ measured' = measured /\ birth' = birth
      BY <1>1
      DEF Plan, Planning, PlanSeam, PlanNothing, PlanRouted, AllocateUpFront, PlanBatch,
          BatchesPlanned, RegisterUpFront, StartCircuit, patchVars,
          ProgressSound, PatchesSound, BeforeCircuit
    <2>p. pc' = "plan" => allocated' = {}
      BY <1>1
      DEF Plan, Planning, PlanSeam, PlanNothing, PlanRouted, AllocateUpFront, PlanBatch,
          BatchesPlanned, RegisterUpFront, StartCircuit, patchVars, PatchesSound
    <2>1. \A c \in Cells : owner'[c] \in Patches => owner'[c] \in allocated'
      <3>1. CASE AllocateUpFront
        BY <3>1, NamesAssumption DEF AllocateUpFront, Claimed, Homes, PatchesSound
      <3>2. CASE RegisterUpFront
        <4>1. allocated' = allocated /\ i \in Nat
          BY <3>2, StepsAreNat DEF RegisterUpFront, patchVars, Typed, TypeOK
        <4>2. owner' = owner \/ \E c : owner' = Placed(owner, i, c)
          BY <3>2 DEF RegisterUpFront
        <4> QED
          BY <2>0, <4>1, <4>2, NotAPatch DEF Placed, PatchesSound
      <3>3. CASE ~AllocateUpFront /\ ~RegisterUpFront
        <4>1. owner' = owner /\ allocated' = allocated
          BY <1>1, <3>3
          DEF Plan, Planning, PlanSeam, PlanNothing, PlanRouted, PlanBatch,
              BatchesPlanned, StartCircuit, patchVars, cellVars
        <4> QED
          BY <2>0, <4>1 DEF PatchesSound
      <3> QED
        BY <3>1, <3>2, <3>3
    <2> QED
      BY <1>0, <2>0, <2>1, <2>p DEF PatchesSound
  <1>2. ASSUME NEW S, NEW next, BringUp(S, next), S \in SUBSET Patches,
               allocated' = allocated \cup S, birth = {},
               UNCHANGED <<birth, measured, done>>, pc # "built",
               pc' \notin {"built", "plan"}
        PROVE  PatchesSound'
    BY <1>0, <1>2, BringUpOwners DEF PatchesSound
  <1>3. ASSUME UNCHANGED <<allocated, birth, measured, done>>,
               \A c \in Cells : owner'[c] \in Patches => owner'[c] \in InSystem,
               pc \notin {"merged", "seal", "fault", "built"},
               pc' \notin {"built", "plan"}
        PROVE  PatchesSound'
    BY <1>0, <1>3 DEF PatchesSound
  <1>4. CASE Loop
    <2>1. CASE FallbackBirth
      <3> DEFINE S == BirthBatch(i) \ allocated
      <3>1. S \in SUBSET Patches
        BY ExperimentTypes DEF BirthBatch, Typed
      <3>2. BringUp(S, "top") /\ allocated' = allocated \cup S
        BY <2>1 DEF FallbackBirth
      <3>3. /\ birth = {} /\ UNCHANGED <<birth, measured, done>>
            /\ pc = "top" /\ pc' \in {"top", "fault"}
        BY <2>1, <3>2 DEF FallbackBirth, BringUp, PatchesSound
      <3> HIDE DEF S
      <3> QED
        BY <1>2, <3>1, <3>2, <3>3
    <2>2. CASE DeferredAllocation
      <3>1. Newly({i}) \in SUBSET Patches
        BY <1>i, <2>2, ExperimentTypes
        DEF DeferredAllocation, Newly, AtStep, InStep, Typed
      <3> QED
        BY <1>2, <2>2, <3>1 DEF DeferredAllocation, BringUp, PatchesSound
    <2>3. CASE SkipDone \/ EnterStep \/ RotatePlanned
      BY <1>3, <2>3 DEF SkipDone, EnterStep, RotatePlanned, AtTop, Dispatch,
                        patchVars, cellVars, PatchesSound
    <2> QED
      BY <1>4, <2>1, <2>2, <2>3 DEF Loop
  <1>5. CASE Register
    <2>1. i \in Steps
      BY <1>5
      DEF Register, RegisterSnake, RegisterSeam, RotateSeam, SeamRefused, RegisterRouted,
          RotateBlocked, RouteRefused, AtStep, InStep, Typed
    <2>2. \/ owner' = owner
          \/ \E c : owner' = Placed(owner, i, c)
          \/ \E S : Forget(S)
      BY <1>5
      DEF Register, RegisterSnake, RegisterSeam, RotateSeam, SeamRefused, RegisterRouted,
          RotateBlocked, RouteRefused, RegisterStep, cellVars
    <2>3. \A c \in Cells : owner'[c] \in Patches => owner'[c] \in InSystem
      BY <2>1, <2>2, PlacedOwners, ForgetOwners DEF PatchesSound
    <2>4. /\ UNCHANGED <<allocated, birth, measured, done>>
          /\ pc \notin {"merged", "seal", "fault", "built"}
            /\ pc' \notin {"built", "plan"}
      BY <1>5
      DEF Register, RegisterSnake, RegisterSeam, RotateSeam, SeamRefused, RegisterRouted,
          RotateBlocked, RouteRefused, RegisterStep, patchVars
    <2> QED
      BY <1>3, <2>3, <2>4
  <1>6. CASE Batch
    <2>1. CASE BatchPreamble
      <3>1. Newly(Members(i)) \in SUBSET Patches
        BY ExperimentTypes DEF Newly, Members, Typed
      <3> QED
        BY <1>2, <2>1, <3>1 DEF BatchPreamble, BringUp, PatchesSound
    <2>2. CASE BatchSeam \/ RegisterBatch \/ BatchStarves \/ BatchRefused
      <3>1. \A c \in Cells : owner'[c] \in Patches => owner'[c] \in InSystem
        <4>1. CASE BatchSeam
          <5>1. owner' = owner \/ \E j \in Steps : \E c : owner' = Placed(owner, j, c)
            BY <4>1 DEF BatchSeam, Members
          <5> QED
            BY <5>1, PlacedOwners DEF PatchesSound
        <4>2. CASE RegisterBatch
          <5>1. PICK f \in Portfolio, R \in SUBSET BatchTodo :
                  owner' = [c \in Cells |->
                    IF \E j \in R : c \in f[j].cells
                    THEN CHOOSE j \in R : c \in f[j].cells ELSE owner[c]]
            BY <4>2 DEF RegisterBatch
          <5>2. R \subseteq Nat
            BY StepsAreNat DEF BatchTodo, Members
          <5> QED
            BY <5>1, <5>2, NotAPatch DEF PatchesSound
        <4>3. CASE BatchStarves \/ BatchRefused
          BY <4>3 DEF BatchStarves, BatchRefused, cellVars, PatchesSound
        <4> QED
          BY <2>2, <4>1, <4>2, <4>3
      <3>2. /\ UNCHANGED <<allocated, birth, measured, done>>
            /\ pc \notin {"merged", "seal", "fault", "built"}
            /\ pc' \notin {"built", "plan"}
        BY <2>2 DEF BatchSeam, RegisterBatch, BatchStarves, BatchRefused, Demote, patchVars
      <3> QED
        BY <1>3, <3>1, <3>2
    <2> QED
      BY <1>6, <2>1, <2>2 DEF Batch
  <1>7. CASE MergeStep \/ MergeBatch
    BY <1>3, <1>7
    DEF MergeStep, MergeBatch, Merge, Demote, patchVars, cellVars, PatchesSound
  <1>8. CASE BeginRide
    <2>1. birth = {} /\ pc = "merged" /\ BringUp(Riders, "merged") /\ birth' = Riders
      BY <1>8 DEF BeginRide
    <2>2. Riders \cap allocated = {}
      BY DEF Riders
    <2>3. UNCHANGED <<allocated, measured, done>> /\ pc' \in {"merged", "fault"}
      BY <1>8, <2>1 DEF BeginRide, BringUp
    <2>4. \A c \in Cells : owner'[c] \in Patches => owner'[c] \in InSystem \cup Riders
      BY <2>1, BringUpOwners DEF PatchesSound
    <2> QED
      BY <1>0, <2>1, <2>2, <2>3, <2>4 DEF PatchesSound
  <1>9. CASE Split \/ FinishRide
    BY <1>0, <1>9 DEF Split, FinishRide, patchVars, cellVars, PatchesSound
  <1>10. CASE RetireConsumed
    <2>1. \A p \in Retiring(window), j \in Steps : p \in Targets(j) => j \in done
      BY <1>10, RetiringIsOver DEF RetireConsumed
    <2>2. Retiring(window) \subseteq allocated \ exp.keep
      BY DEF Retiring
    <2> QED
      BY <1>0, <1>10, <2>1, <2>2 DEF RetireConsumed, PatchesSound
  <1>11. CASE LeftoverBirth
    <2>1. exp.yset \ allocated \in SUBSET Patches
      BY ExperimentTypes DEF Typed
    <2> QED
      BY <1>2, <1>11, <2>1 DEF LeftoverBirth, BringUp, PatchesSound
  <1>12. CASE FinalReadout
    <2>1. done = Steps
      BY <1>12, EndIsDone DEF FinalReadout
    <2> QED
      BY <1>0, <1>12, <2>1 DEF FinalReadout, PatchesSound
  <1>13. CASE Halt
    BY <1>0, <1>13 DEF Halt, vars, PatchesSound
  <1> QED
    BY <1>1, <1>4, <1>5, <1>6, <1>7, <1>8, <1>9, <1>10, <1>11, <1>12, <1>13
    DEF Next, Build, Window

-----------------------------------------------------------------------------
(* The inductive invariant.                                                  *)

LEMMA OrderInit == Init => OrderInv
  <1> SUFFICES ASSUME Init PROVE OrderInv
    OBVIOUS
  <1>1. Steps \subseteq Nat
    BY TypedInit, StepsAreNat
  <1>2. BatchesSound
    BY <1>1 DEF Init, BatchesSound
  <1>3. ProgressSound /\ TargetsIn
    BY <1>1
    DEF Init, ProgressSound, TargetsIn, BeforeCircuit, InBatchWindow, InStep, HasTargets
  <1>4. PatchesSound
    BY NamesAssumption DEF Init, PatchesSound
  <1> QED
    BY <1>2, <1>3, <1>4 DEF OrderInv

LEMMA OrderStep == Typed /\ OrderInv /\ [Next]_vars => OrderInv'
  <1> SUFFICES ASSUME Typed, OrderInv, [Next]_vars PROVE OrderInv'
    OBVIOUS
  <1>1. CASE Next
    BY <1>1, BatchesStep, ProgressStep, TargetsStep, PatchesStep DEF OrderInv
  <1>2. CASE UNCHANGED vars
    <2>1. BatchesSound'
      BY <1>2 DEF vars, OrderInv, BatchesSound, Steps, Targets
    <2>2. ProgressSound'
      BY <1>2 DEF vars, OrderInv, ProgressSound, Steps, Members
    <2>3. TargetsIn' /\ PatchesSound'
      BY <1>2
      DEF vars, OrderInv, TargetsIn, PatchesSound, Steps, Members, Targets, InSystem
    <2> QED
      BY <2>1, <2>2, <2>3 DEF OrderInv
  <1> QED
    BY <1>1, <1>2

\* However steps are batched, demoted and retried, the loop leaves none out
\* and does none twice; a batch is a run of steps without a common patch; and
\* no patch is read out while a step that needs it is open, nor any output
\* before the end.
THEOREM OrderCorrect == Spec => []OrderInv
  <1>1. Init => Typed /\ OrderInv
    BY TypedInit, OrderInit
  <1>2. Typed /\ OrderInv /\ [Next]_vars => (Typed /\ OrderInv)'
    BY TypedStep, OrderStep
  <1> QED
    BY <1>1, <1>2, PTL DEF Spec

-----------------------------------------------------------------------------
(* Refinement: every step of build() is a step of the program or a stutter.  *)

\* Patches brought up are new to the program.
LEMMA BirthStep ==
  ASSUME NEW S \in SUBSET Patches, S \cap allocated = {},
         allocated' = allocated \cup S, UNCHANGED <<exp, measured, done>>
  PROVE  Program!Next
  <1>1. Program!Birth(S)
    BY DEF Program!Birth
  <1> QED
    BY <1>1 DEF Program!Next

\* A merge window measures its steps in an order the program allows.
LEMMA SplitRefines ==
  ASSUME Typed, OrderInv, Split PROVE Program!Next
  <1>0. /\ Steps \subseteq Nat /\ pc = "merged" /\ window \in SUBSET Steps /\ i \in Steps
        /\ UNCHANGED <<exp, allocated, measured>> /\ done' = done \cup window
    BY StepsAreNat DEF Split, patchVars, Typed, TypeOK, AtStep
  <1>1. window = {i} \/ (head[i] = i /\ window = Members(i))
    BY <1>0 DEF OrderInv, ProgressSound
  <1>2. window \cap done = {}
    <2>1. i \notin done /\ \A j \in done : j < i \/ head[j] < i
      BY <1>0 DEF OrderInv, ProgressSound
    <2>2. \A j \in Members(i) : j \in Steps /\ head[j] = i /\ i <= j
      BY DEF Members, OrderInv, BatchesSound
    <2>3. \A j \in Members(i) : j \notin done
      <3>1. SUFFICES ASSUME NEW j \in Members(i), j \in done PROVE FALSE
        OBVIOUS
      <3>2. i \in Nat /\ j \in Nat /\ head[j] = i /\ i <= j
        BY <1>0, <2>2
      <3>3. j < i \/ head[j] < i
        BY <2>1, <3>1
      <3> QED
        BY <3>2, <3>3
    <2> QED
      BY <1>1, <2>1, <2>3
  <1>3. \A j \in window : exp.targets[j] \subseteq allocated \ measured
    <2>1. \A j \in window : exp.targets[j] \subseteq allocated
      BY <1>0 DEF OrderInv, TargetsIn, Targets
    <2>2. \A j \in window : exp.targets[j] \cap measured = {}
      BY <1>0, <1>2 DEF OrderInv, PatchesSound, Targets
    <2> QED
      BY <2>1, <2>2
  <1>4. ASSUME NEW j \in window, NEW l \in Steps, l < j,
               exp.targets[l] \cap exp.targets[j] # {}
        PROVE  l \in done
    <2>1. \A k \in Steps : k < i => k \in done
      BY <1>0 DEF OrderInv, ProgressSound, BeforeCircuit
    <2>2. CASE window = {i}
      BY <1>4, <2>1, <2>2
    <2>3. CASE head[i] = i /\ window = Members(i)
      <3>1. SUFFICES ASSUME i <= l PROVE FALSE
        BY <1>0, <1>4, <2>1
      <3>2. head[j] = i /\ head[l] = i
        BY <1>0, <1>4, <2>3, <3>1 DEF Members, OrderInv, BatchesSound
      <3> QED
        BY <1>0, <1>4, <3>2 DEF OrderInv, BatchesSound, Targets
    <2> QED
      BY <1>1, <2>2, <2>3
  <1>5. Program!Execute(window)
    BY <1>0, <1>2, <1>3, <1>4 DEF Program!Execute, Program!Steps, Steps
  <1> QED
    BY <1>0, <1>5 DEF Program!Next, Program!Steps, Steps

\* A readout takes patches whose steps are all done.
LEMMA ReadOutStep ==
  ASSUME NEW S \in SUBSET (allocated \ measured), allocated \subseteq Patches,
         \A p \in S, j \in Steps : p \in Targets(j) => j \in done,
         S \cap exp.keep # {} => done = Steps,
         measured' = measured \cup S, UNCHANGED <<exp, allocated, done>>
  PROVE  Program!Next
  <1>1. Program!ReadOut(S)
    BY DEF Program!ReadOut, Program!Steps, Steps, Targets
  <1> QED
    BY <1>1 DEF Program!Next

LEMMA StepRefines ==
  ASSUME Typed, OrderInv, [Next]_vars
  PROVE  [Program!Next]_(Program!vars)
  <1>t. allocated \subseteq Patches /\ measured \subseteq Patches
    BY DEF Typed, TypeOK
  <1>0. ASSUME UNCHANGED <<exp, allocated, measured, done>>
        PROVE  UNCHANGED Program!vars
    BY <1>0 DEF Program!vars
  <1>1. ASSUME NEW S \in SUBSET Patches, S \cap allocated = {},
               allocated' = allocated \cup S, UNCHANGED <<exp, measured, done>>
        PROVE  Program!Next
    BY <1>1, BirthStep
  <1>2. CASE AllocateUpFront
    <2>1. /\ allocated = {} /\ allocated' \in SUBSET Patches
          /\ UNCHANGED <<exp, measured, done>>
      BY <1>2 DEF AllocateUpFront, OrderInv, PatchesSound
    <2> QED
      BY <1>1, <2>1
  <1>3. CASE Plan /\ ~AllocateUpFront
    BY <1>0, <1>3
    DEF Plan, Planning, PlanSeam, PlanNothing, PlanRouted, PlanBatch,
        BatchesPlanned, RegisterUpFront, StartCircuit, patchVars
  <1>4. CASE FallbackBirth
    <2>1. BirthBatch(i) \subseteq Patches
      BY ExperimentTypes DEF BirthBatch, Typed
    <2> QED
      BY <1>1, <1>4, <2>1 DEF FallbackBirth
  <1>5. CASE DeferredAllocation
    <2>1. i \in Steps
      BY <1>5 DEF DeferredAllocation, AtStep, InStep, Typed
    <2>2. Newly({i}) \in SUBSET Patches /\ Newly({i}) \cap allocated = {}
      BY <2>1, ExperimentTypes DEF Newly, Targets, Typed
    <2> QED
      BY <1>1, <1>5, <2>2 DEF DeferredAllocation
  <1>6. CASE SkipDone \/ EnterStep \/ RotatePlanned \/ Register
    BY <1>0, <1>6
    DEF SkipDone, EnterStep, AtTop, RotatePlanned, Register, RegisterSnake, RegisterSeam,
        RotateSeam, SeamRefused, RegisterRouted, RotateBlocked, RouteRefused, patchVars
  <1>7. CASE BatchPreamble
    <2>1. Newly(Members(i)) \in SUBSET Patches /\ Newly(Members(i)) \cap allocated = {}
      BY ExperimentTypes DEF Newly, Members, Targets, Typed
    <2> QED
      BY <1>1, <1>7, <2>1 DEF BatchPreamble
  <1>8. CASE BatchSeam \/ RegisterBatch \/ BatchStarves \/ BatchRefused \/ MergeStep \/ MergeBatch
             \/ BeginRide
    BY <1>0, <1>8
    DEF BatchSeam, RegisterBatch, BatchStarves, BatchRefused, MergeStep, MergeBatch, Merge, BeginRide,
        patchVars
  <1>9. CASE Split
    BY <1>9, SplitRefines
  <1>10. CASE FinishRide
    <2>1. birth \cap allocated = {} /\ birth \in SUBSET Patches
      BY <1>10 DEF FinishRide, OrderInv, PatchesSound, Typed, TypeOK
    <2> QED
      BY <1>1, <1>10, <2>1 DEF FinishRide
  <1>11. CASE RetireConsumed
    <2>1. \A p \in Retiring(window), j \in Steps : p \in Targets(j) => j \in done
      BY <1>11, RetiringIsOver DEF RetireConsumed, OrderInv
    <2>2. Retiring(window) \subseteq allocated \ measured /\ Retiring(window) \cap exp.keep = {}
      BY DEF Retiring
    <2> QED
      BY <1>t, <1>11, <2>1, <2>2, ReadOutStep DEF RetireConsumed
  <1>12. CASE LeftoverBirth
    <2>1. exp.yset \ allocated \in SUBSET Patches
      BY ExperimentTypes DEF Typed
    <2> QED
      BY <1>1, <1>12, <2>1 DEF LeftoverBirth
  <1>13. CASE FinalReadout
    <2> DEFINE S == {p \in Patches \ measured : \E c \in Cells : owner[c] = p}
    <2>1. done = Steps
      BY <1>13, EndIsDone DEF FinalReadout, OrderInv
    <2>2. S \subseteq allocated \ measured
      BY <1>13 DEF FinalReadout, OrderInv, PatchesSound, InSystem
    <2>3. measured' = measured \cup S /\ UNCHANGED <<exp, allocated, done>>
      BY <1>13 DEF FinalReadout
    <2> HIDE DEF S
    <2> QED
      BY <1>t, <2>1, <2>2, <2>3, ReadOutStep
  <1>14. CASE Halt \/ UNCHANGED vars
    BY <1>0, <1>14 DEF Halt, vars
  <1> QED
    BY <1>2, <1>3, <1>4, <1>5, <1>6, <1>7, <1>8, <1>9, <1>10, <1>11, <1>12, <1>13, <1>14
    DEF Next, Build, Plan, Loop, Batch, Window

\* The driver implements the program: planning, routing, batching, early
\* births, retirement and rotations never change which steps are measured, the
\* order of steps with a patch in common, or which patches are read when.
THEOREM DriverImplementsProgram == Spec => ImplementsProgram
  <1>1. Init => Typed /\ OrderInv
    BY TypedInit, OrderInit
  <1>2. Typed /\ OrderInv /\ [Next]_vars => (Typed /\ OrderInv)'
    BY TypedStep, OrderStep
  <1>3. Init => Program!Init
    BY DEF Init, Program!Init
  <1>4. Typed /\ OrderInv /\ [Next]_vars => [Program!Next]_(Program!vars)
    BY StepRefines
  <1> QED
    BY <1>1, <1>2, <1>3, <1>4, PTL DEF Spec, ImplementsProgram, Program!Spec
=============================================================================
