---------------------------- MODULE PPMInvariants ----------------------------
(***************************************************************************)
(* The inductive invariants behind the theorems about PPMDriver.  What the *)
(* loop does with a step is safe because of how the steps before it were   *)
(* left, across merge windows that execute several steps at once while the *)
(* loop index still advances one by one.                                   *)
(***************************************************************************)
EXTENDS PPMExperiments

\* Where the circuit has not started, where a step is under way, and where
\* the patches of its batch or of the step itself must be there.
BeforeCircuit == {"plan", "batches", "upfront"}
InBatchWindow == {"preamble", "seams", "verify"}
InStep == {"alloc", "rotate", "snake", "seam", "seam2", "route", "route2", "merge"}
HasTargets == InStep \ {"alloc"}
AtStep == InBatchWindow \cup InStep \cup {"merged", "seal", "retire"}

\* The experiment is one of those considered, every variable has its type,
\* and the loop index is a step whenever a step is under way.
Typed == exp \in Experiments /\ TypeOK /\ (pc \in AtStep => i \in Steps)

\* A batch is a run of consecutive steps, from its head on, no two of them
\* with a patch in common; steps that are not planned yet stand alone.
BatchesSound ==
  /\ \A j \in Steps : head[j] <= j
  /\ \A j, l \in Steps : head[j] <= l /\ l <= j => head[l] = head[j]
  /\ \A j, l \in Steps :
       j # l /\ head[j] = head[l] => Targets(j) \cap Targets(l) = {}
  /\ pc = "plan" => \A j \in Steps : head[j] = j
  /\ pc = "batches" => \A j \in Steps : j >= i => head[j] = j

\* No step before the current one is left out; a step ahead of it is done
\* only if it shared the window of a batch that started earlier.
ProgressSound ==
  /\ pc \in BeforeCircuit => done = {} /\ measured = {}
  /\ pc \notin BeforeCircuit \cup {"raised"} =>
       \A j \in Steps : j < i => j \in done
  /\ pc \in {"top"} \cup InBatchWindow \cup InStep \cup {"merged"} =>
       \A j \in done : j < i \/ head[j] < i
  /\ pc \in {"seal", "retire"} =>
       /\ window \subseteq done
       /\ \A j \in done \ window : j < i \/ head[j] < i
  /\ pc \in InBatchWindow \cup InStep \cup {"merged"} => i \notin done
  /\ pc \in InBatchWindow => head[i] = i
  /\ pc \in {"merged", "seal", "retire"} =>
       window = {i} \/ (head[i] = i /\ window = Members(i))

\* The targets of the steps about to be merged have been brought in.
TargetsIn ==
  /\ pc \in HasTargets => Targets(i) \subseteq allocated
  /\ pc \in {"seams", "verify"} =>
       \A j \in Members(i) : Targets(j) \subseteq allocated
  /\ pc = "merged" => \A j \in window : Targets(j) \subseteq allocated

\* A patch is read out when no step needs it any more, an output at the end;
\* a birth is under way only during a window; and whoever owns a cell exists.
PatchesSound ==
  /\ \A p \in measured, j \in Steps : p \in Targets(j) => j \in done
  /\ pc # "built" => measured \cap exp.keep = {}
  /\ pc \notin {"merged", "seal", "fault"} => birth = {}
  /\ pc # "fault" => birth \cap allocated = {}
  /\ pc = "plan" => allocated = {}
  /\ measured \subseteq allocated
  /\ \A c \in Cells : owner[c] \in Patches => owner[c] \in InSystem

\* The inductive invariant of the refinement proof.
OrderInv == BatchesSound /\ ProgressSound /\ TargetsIn /\ PatchesSound
-----------------------------------------------------------------------------
(* Where patches and couplers are.  A cell is shared only by patches of     *)
(* which one succeeds the other, and by couplers that run before the one is *)
(* born or after the other was read out; that births, retirements and       *)
(* registrations follow the lifetimes is what keeps them apart.             *)

\* The patches, other than Y, that exist once step j has run.
Due(j) == {p \in Patches \ exp.yset : exp.first[p] <= j}

\* Only steps that may share a window do; an attempt is made on a batch of
\* which no member has a route yet.
BatchesEligible ==
  /\ \A j, l \in Steps :
       j # l /\ head[j] = head[l] => Eligible(j) /\ exp.parallel
  /\ pc \in InBatchWindow => InBatch(i)
  /\ pc = "preamble" => \A j \in Members(i) : ~HasRoute(j)

\* No patch is there early: it comes with the window of its first use, a Y
\* patch one window before.
NoneEarly ==
  /\ birth \subseteq exp.yset
  /\ pc \in BeforeCircuit => \A p \in allocated :
       p \notin exp.yset /\ (exp.firstUseInit => exp.first[p] = 0)
  /\ \A p \in allocated \ exp.yset :
       exp.firstUseInit /\ exp.first[p] # 0 =>
         \E j \in Steps : exp.first[p] <= j /\ head[j] <= i
  /\ \A p \in InSystem \cap exp.yset :
       \/ exp.first[p] <= i
       \/ pc \in {"merged", "seal", "retire"} /\ exp.first[p] = i + 1

\* No patch is late: what is due at a step was brought in before its window,
\* and nobody is brought in before somebody who is due earlier.
NoneLate ==
  /\ pc \notin {"plan", "raised"} => \A p \in Patches \ exp.yset :
       ~exp.firstUseInit \/ exp.first[p] = 0 => p \in allocated
  /\ \A j \in done : Due(j) \subseteq allocated
  /\ pc \in HasTargets => Due(i) \subseteq allocated
  /\ pc \in {"seams", "verify"} => \A j \in Members(i) : Due(j) \subseteq allocated
  /\ pc = "merged" => \A j \in window : Due(j) \subseteq allocated
  /\ pc \notin BeforeCircuit \cup {"raised"} => \A p \in exp.yset :
       exp.first[p] < i \/ (pc \in AtStep /\ exp.first[p] = i) => p \in allocated
  /\ \A p, q \in Patches \ exp.yset :
       p \in allocated /\ exp.first[q] <= exp.first[p] => q \in allocated

\* Nobody outlives the window in which its lifetime closed, outputs and the
\* patches of the last step excepted.
NoneOverdue ==
  exp.liveness => \A p \in Alive \ exp.keep, j \in done :
    j < exp.n - 1 /\ (pc \in {"seal", "retire"} => j \notin window)
      => exp.last[p] > j

\* A coupler is one of the constructions of its step, and none is there while
\* planning; walls and seams are direct; what runs together is apart.
CouplersSound ==
  /\ pc = "plan" => Registered = {}
  /\ \A j \in Registered : coupler[j] \in exp.cands[j]
  /\ walls \subseteq Adjacent
  /\ pc \in {"seam", "seam2"} => i \in Adjacent
  /\ pc = "merged" => ~Overlap(window)

\* A coupler that has yet to run stands on no patch that is alive, or that is
\* born before the coupler has run: only on patches that were read out or
\* come later (a Y patch, born during a window, two steps later).
CouplersAvoid ==
  \A j \in Registered \ done, p \in Patches :
    Home(p) \in Corridor(j) =>
      \/ p \in measured
      \/ /\ p \notin InSystem
         /\ j + (IF p \in exp.yset THEN 1 ELSE 0) < exp.first[p]

\* A patch owns no cell but its home; nothing is live before the circuit
\* starts; and the properties that say how the ledgers agree.
CellsSound ==
  /\ \A c \in Cells : owner[c] \in Patches => Home(owner[c]) = c
  /\ pc \in BeforeCircuit => live = {}
  /\ StandingOwnsCell /\ LedgerExact /\ NoFault /\ CompleteWhenBuilt

\* The inductive invariant behind the ledgers.
GeometryInv ==
  /\ BatchesEligible /\ NoneEarly /\ NoneLate /\ NoneOverdue
  /\ CouplersSound /\ CouplersAvoid /\ CellsSound

\* Both together: the order of the steps, and where patches and couplers are
\* at every point of build().
LayoutInv == OrderInv /\ GeometryInv

-----------------------------------------------------------------------------
(* Orientations.  A coupler is built for the way its targets stand, and     *)
(* they must not turn before it runs.  The planner's laziness rule sees to  *)
(* it, but for the steps it never looks at: those above the search cap.     *)

\* With planned rotations, every routed step is one the planner searches.
LightSteps(e) ==
  e.autoRotate => \A j \in 0 .. e.n - 1 :
    j \in e.adjacent \cup e.snake \/ ~(Cardinality(e.targets[j]) > RotationSearchCap)

\* The planner has passed step j; step l's planned rotations are to come.
Planned(j) == IF pc = "plan" THEN j < i ELSE pc # "raised"
ToTurn(l) ==
  \/ pc \in BeforeCircuit
  \/ l > i
  \/ l = i /\ pc \in {"top", "alloc", "rotate"} \cup InBatchWindow

\* A routed step that is not late has no planned rotation before it.
PlansSound ==
  /\ ~exp.autoRotate => \A l \in Steps : moves[l] = {}
  /\ pc = "plan" => \A l \in Steps : l >= i => moves[l] = {}
  /\ \A j \in Steps \ (late \cup Adjacent \cup Snakes), l \in Steps :
       Planned(j) /\ l <= j => moves[l] = {}

\* No target of a coupler that has yet to run will turn as planned before it
\* does, and until now it stands as the coupler was built for.
TurnsSound ==
  \A j \in Registered \ done, l \in Steps :
    l <= j /\ ToTurn(l) => moves[l] \cap Targets(j) = {}
CouplersCurrent ==
  \A j \in Registered \ done : coupler[j].vertical = vertical \cap Targets(j)

\* The couplers an unplanned rotation does not drop, walls, belong to the
\* batch under way.
WallsSound ==
  /\ pc \in BeforeCircuit => walls = {}
  /\ \A j \in (Registered \cap walls) \ done : head[j] <= i

\* A step is repaired only without a coupler, and merged only with one.
ReadySound ==
  /\ pc \in {"seam", "route"} => i \notin Registered
  /\ pc = "merge" => i \in Registered
  /\ pc = "verify" => Members(i) \subseteq Registered
  /\ pc = "merged" => window \subseteq Registered

\* The inductive invariant behind NoStaleCoupler.
OrientationInv ==
  LightSteps(exp) =>
    PlansSound /\ TurnsSound /\ CouplersCurrent /\ WallsSound /\ ReadySound

\* All of it: what holds at every point of build().
BuildInv == LayoutInv /\ OrientationInv
=============================================================================
