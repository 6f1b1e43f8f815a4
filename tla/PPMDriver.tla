------------------------------ MODULE PPMDriver ------------------------------
(***************************************************************************)
(* The driver loop of circls/core/sequential_ppm_ls.py: build() of         *)
(* SequentialPPMExperiment, with its mixins parallel_windows.py,           *)
(* liveness.py and rotation_plan.py, on the registry of                    *)
(* lightstim/ir/qec_system.py.                                             *)
(*                                                                         *)
(* The layout is a set of coarse cells.  A patch stands on its home cell;  *)
(* a coupler runs through a corridor of cells.  Three ledgers must agree   *)
(* for the circuit to be right: which names were allocated and measured    *)
(* (the driver), who owns a cell's qubits (index_to_owner_map) and which   *)
(* cells carry live qubits (active_qubit_indices).  They are kept apart    *)
(* here as they are in the code, because couplers register long before     *)
(* they run and take over cells that somebody else uses before or after.   *)
(*                                                                         *)
(* Geometry is abstracted: for each step the experiment lists candidate    *)
(* constructions, each a set of corridor cells and the orientation every   *)
(* target must have.  A router or a construction oracle may refuse any     *)
(* candidate, so every refusal the code handles is a choice of the model.  *)
(***************************************************************************)
EXTENDS Integers, FiniteSets

CONSTANTS
  Patches,           \* names of logical patches
  Cells,             \* coarse cells of the layout
  Experiments,       \* the experiments (constructor arguments) considered
  RotationSearchCap, \* _ROTATION_SEARCH_CAP: targets of a step the planner probes
  Nobody,            \* owner of a cell no name was ever given
  NoCoupler,         \* no coupler is registered for the step
  NoPin              \* no corridor is planned for the step

VARIABLES
  exp,       \* the experiment being built; never changes
  pc,        \* where build() is
  i,         \* the index of the for-loop build() is in
  vertical,  \* _eff_orient: the patches now standing X_vertical
  moves,     \* _rotate_plan: targets to rotate before each step
  late,      \* _rot_lazy: steps planned after a planned rotation
  head,      \* _step_batches: the first step of each step's batch
  pin,       \* _planned_tree: the corridor registration must build
  allocated, \* patches allocated and initialised
  birth,     \* _birth_state: the Y patches being born
  measured,  \* patches whose data qubits were read out
  owner,     \* index_to_owner_map, one entry per cell
  live,      \* active_qubit_indices: cells that carry live qubits
  coupler,   \* the candidate registered as ppm_j
  walls,     \* _walls: adjacent steps built as a stretched wall
  window,    \* the steps of the merge window in progress
  done       \* steps measured so far

vars == <<exp, pc, i, vertical, moves, late, head, pin, allocated, birth,
          measured, owner, live, coupler, walls, window, done>>

planVars  == <<moves, late, head>>
patchVars == <<allocated, birth, measured>>
cellVars  == <<owner, live>>

-----------------------------------------------------------------------------
(* The experiment, and what build() derives from it once and for all.       *)

Steps == 0 .. exp.n - 1

Targets(j) == exp.targets[j]
Home(p)    == exp.home[p]
Homes(S)   == {Home(p) : p \in S}
Flip(V, S) == (V \ S) \cup (S \ V)

\* Adjacent pairs take the zero-cell seam; an explicit route may be a snake.
Adjacent == exp.adjacent
Snakes   == IF exp.autoRotate THEN exp.snake ELSE {}

\* The Y patches whose first use is step j: they are born just before it.
BirthBatch(j) == {p \in exp.yset : exp.first[p] = j}

\* Patches the liveness path has retired before step j.
Expired(j) ==
  {p \in Patches : exp.liveness /\ exp.last[p] < j /\ p \notin exp.keep}

\* Mutant of Lazy: every step binds its coupler before the circuit starts.
Lazy_Never == {}

\* _lazy_reuse_map: a routed step after a retirement registers in the loop.
Lazy == {j \in Steps : j \notin Adjacent /\ Expired(j) # {}}

\* Who has an entry in system.patches, alive or not.
InSystem == allocated \cup birth

\* Mutant of View: a Y patch is an obstacle from its first use only.
View_YTooLate(j, force) ==
  {p \in Patches :
     \/ p \in force
     \/ /\ p \notin Expired(j)
        /\ p \in exp.yset => j >= exp.first[p]
        /\ p \notin exp.yset =>
             ~(exp.firstUseInit /\ exp.first[p] > j /\ p \notin InSystem)}

\* The patches the router is told about for step j (_specs_for_step).  The
\* others are free ground: retired, or not born until after the step.
View(j, force) ==
  {p \in Patches :
     \/ p \in force
     \/ /\ p \notin Expired(j)
        /\ p \in exp.yset => j >= exp.first[p] - 2
        /\ p \notin exp.yset =>
             ~(exp.firstUseInit /\ exp.first[p] > j /\ p \notin InSystem)}

\* The constructions of step j that keep off the patches in view, off the
\* blocked cells, and meet every target in the orientation it has in V.
Routable(j, view, V) ==
  {c \in exp.cands[j] : /\ c.cells \cap Homes(view) = {}
                        /\ c.vertical = V \cap Targets(j)}

PinOK(j, c) == pin[j] \in {NoPin, c.cells}

Registered  == {j \in Steps : coupler[j] # NoCoupler}
Corridor(j) == IF coupler[j] = NoCoupler THEN {} ELSE coupler[j].cells

\* _routes[j] is not None: a wall coupler is registered but has no route.
HasRoute(j) == j \in Registered \ walls

\* The steps of the batch that starts at h; singletons are not batches.
Members(h) == {j \in Steps : head[j] = h}
InBatch(j) == Members(head[j]) # {j}

-----------------------------------------------------------------------------
(* The registry's operations, at the grain of cells.                        *)

\* add_patch of the patches S: they take over their cells' qubits ...
Claimed(S) ==
  [c \in Cells |-> IF c \in Homes(S) THEN CHOOSE p \in S : Home(p) = c
                                     ELSE owner[c]]
\* ... unless a live qubit is in the way (the collision guard raises).
Collides(S) == Homes(S) \cap live # {}

\* The cells whose qubits belong to one of the names in S.
OwnedBy(S, own) == {c \in Cells : own[c] \in S}

\* register_coupler of candidate c as ppm_j, into the dormant cells it uses.
Placed(own, j, c) == [x \in Cells |-> IF x \in c.cells THEN j ELSE own[x]]

\* remove_coupler of the couplers in R: a cell they own passes to a surviving
\* holder (the code takes the first registered one), or to nobody.
Heirs(c, R) ==
  {p \in InSystem : Home(p) = c} \cup {j \in Registered \ R : c \in Corridor(j)}
Released(R) ==
  LET orphans == {c \in Cells : owner[c] \in R}
      mayOwn(c) == IF Heirs(c, R) = {} THEN {Nobody} ELSE Heirs(c, R)
  IN  {[c \in Cells |-> IF c \in orphans THEN h[c] ELSE owner[c]] :
         h \in {g \in [orphans -> UNION {mayOwn(c) : c \in orphans}] :
                  \A c \in orphans : g[c] \in mayOwn(c)}}

\* Mutant of Stale: an unplanned rotation leaves later couplers alone.
Stale_Never(S) == {}

\* _invalidate_downstream_registration: later steps touching a patch in S
\* lose their pin and the coupler that was built for its old orientation.
Stale(S)  == {j \in Steps : j > i /\ Targets(j) \cap S # {}}
Forget(S) ==
  /\ pin' = [j \in Steps |-> IF j \in Stale(S) THEN NoPin ELSE pin[j]]
  /\ LET R == {j \in Stale(S) : HasRoute(j)}
     IN  /\ owner' \in Released(R)
         /\ coupler' = [j \in Steps |-> IF j \in R THEN NoCoupler
                                                   ELSE coupler[j]]

Goto(l) == pc' = l

-----------------------------------------------------------------------------
(* build(), before the circuit starts: planning and up-front registration.  *)

Init ==
  /\ exp \in Experiments
  /\ pc = "plan"
  /\ i = 0
  /\ vertical = exp.vertical
  /\ moves = [j \in Steps |-> {}]
  /\ late = {}
  /\ head = [j \in Steps |-> j]
  /\ pin = [j \in Steps |-> NoPin]
  /\ allocated = {} /\ birth = {} /\ measured = {}
  /\ owner = [c \in Cells |-> Nobody]
  /\ live = {}
  /\ coupler = [j \in Steps |-> NoCoupler]
  /\ walls = {} /\ window = {} /\ done = {}

Planning ==
  /\ pc = "plan" /\ exp.autoRotate /\ i < exp.n
  /\ UNCHANGED <<exp, head, patchVars, cellVars, coupler, walls, window, done>>

\* A direct seam fixes its targets' orientations: the ones facing the wrong
\* way rotate, when a protocol is allowed and has room, and Y never does.
PlanSeam ==
  /\ Planning /\ i \in Adjacent
  /\ \E c \in exp.cands[i] :
       \E S \in SUBSET (Flip(vertical \cap Targets(i), c.vertical) \ exp.yset) :
         /\ moves' = [moves EXCEPT ![i] = S]
         /\ vertical' = Flip(vertical, S)
  /\ i' = i + 1
  /\ UNCHANGED <<pc, late, pin>>

\* The snake gateway and the steps above the search cap plan no rotation.
PlanNothing ==
  /\ Planning /\ i \notin Adjacent
  /\ i \in Snakes \/ Cardinality(Targets(i)) > RotationSearchCap
  /\ i' = i + 1
  /\ UNCHANGED <<pc, vertical, moves, late, pin>>

\* The search picks a rotation of the targets under which the step routes,
\* and the corridor it found; from the first rotation on, steps are late.
PlanRouted ==
  /\ Planning /\ i \notin Adjacent \cup Snakes
  /\ Cardinality(Targets(i)) <= RotationSearchCap
  /\ \/ \E S \in SUBSET (Targets(i) \ exp.yset) :
        \E c \in Routable(i, View(i, {}), Flip(vertical, S)) :
          /\ moves' = [moves EXCEPT ![i] = S]
          /\ vertical' = Flip(vertical, S)
          /\ pin' = [pin EXCEPT ![i] = IF c.cells = {} THEN NoPin ELSE c.cells]
          /\ late' = IF \E j \in 0 .. i : moves'[j] # {} THEN late \cup {i}
                                                         ELSE late
          /\ i' = i + 1
          /\ UNCHANGED pc
     \/ /\ \A S \in SUBSET (Targets(i) \ exp.yset) :
             Routable(i, View(i, {}), Flip(vertical, S)) = {}
        /\ Goto("raised")
        /\ UNCHANGED <<i, vertical, moves, late, pin>>

\* Patches that are not deferred to their first use are allocated up front;
\* the planner's orientations were a forecast, the live ones start afresh.
AllocateUpFront ==
  /\ pc = "plan" /\ (~exp.autoRotate \/ i = exp.n)
  /\ LET S == {p \in Patches \ exp.yset :
                 ~exp.firstUseInit \/ exp.first[p] = 0}
     IN  /\ allocated' = S
         /\ owner' = Claimed(S)
  /\ vertical' = exp.vertical
  /\ i' = 0
  /\ Goto("batches")
  /\ UNCHANGED <<exp, planVars, pin, birth, measured, live, coupler, walls,
                 window, done>>

\* Steps that may share a merge window with their neighbours.
Eligible(j) ==
  /\ j \notin Snakes \cup Lazy \cup late
  /\ moves[j] = {}
  /\ BirthBatch(j) \cup BirthBatch(j + 1) = {}
  /\ Targets(j) \cap exp.yset = {}

\* Mutant of PlanBatch: a batch may hold two steps on one patch.
PlanBatch_Sharing ==
  /\ pc = "batches" /\ exp.parallel /\ i < exp.n
  /\ head' = [head EXCEPT ![i] =
       IF i > 0 /\ Eligible(i) /\ Eligible(i - 1) THEN head[i - 1] ELSE i]
  /\ i' = i + 1
  /\ UNCHANGED <<exp, pc, vertical, moves, late, pin, patchVars, cellVars,
                 coupler, walls, window, done>>

\* One turn of _plan_step_batches: step i joins the batch being collected if
\* it shares no patch with it, and otherwise starts one of its own.
PlanBatch ==
  /\ pc = "batches" /\ exp.parallel /\ i < exp.n
  /\ head' = [head EXCEPT ![i] =
       IF /\ i > 0 /\ Eligible(i) /\ Eligible(i - 1)
          /\ \A j \in 0 .. i - 1 :
               head[j] = head[i - 1] => Targets(j) \cap Targets(i) = {}
       THEN head[i - 1] ELSE i]
  /\ i' = i + 1
  /\ UNCHANGED <<exp, pc, vertical, moves, late, pin, patchVars, cellVars,
                 coupler, walls, window, done>>

BatchesPlanned ==
  /\ pc = "batches" /\ (~exp.parallel \/ i = exp.n)
  /\ i' = 0
  /\ Goto("upfront")
  /\ UNCHANGED <<exp, vertical, planVars, pin, patchVars, cellVars, coupler,
                 walls, window, done>>

\* One turn of the registration loop.  No qubit is live yet, so nothing here
\* can collide; a step that cannot be built now is left to the main loop.
RegisterUpFront ==
  /\ pc = "upfront" /\ i < exp.n
  /\ \/ /\ i \notin Lazy \cup late \cup Adjacent \cup Snakes
        /\ ~InBatch(i)
        /\ Targets(i) \subseteq allocated
        /\ \E c \in Routable(i, View(i, {}), vertical) :
             /\ PinOK(i, c)
             /\ coupler' = [coupler EXCEPT ![i] = c]
             /\ owner' = Placed(owner, i, c)
     \/ UNCHANGED <<coupler, owner>>
  /\ i' = i + 1
  /\ UNCHANGED <<exp, pc, vertical, planVars, pin, patchVars, live, walls,
                 window, done>>

\* _setup, then reset and baseline of the patches allocated up front.
StartCircuit ==
  /\ pc = "upfront" /\ i = exp.n
  /\ live' = live \cup OwnedBy(allocated, owner)
  /\ i' = 0
  /\ Goto("top")
  /\ UNCHANGED <<exp, vertical, planVars, pin, patchVars, owner, coupler,
                 walls, window, done>>

-----------------------------------------------------------------------------
(* The main loop: births, deferred allocation and rotations of a step.      *)

\* Bring the patches S to life: allocate, reset, run the baseline rounds; a
\* live qubit on one of their cells raises out of build().
BringUp(S, next) ==
  IF Collides(S)
  THEN /\ Goto("fault")
       /\ UNCHANGED cellVars
  ELSE /\ owner' = Claimed(S)
       /\ live' = live \cup OwnedBy(S, owner')
       /\ Goto(next)

\* Y patches first used here that did not ride the previous step's window.
FallbackBirth ==
  /\ pc = "top" /\ i < exp.n
  /\ LET S == BirthBatch(i) \ allocated
     IN  /\ S # {}
         /\ BringUp(S, "top")
         /\ allocated' = allocated \cup S
  /\ UNCHANGED <<exp, i, vertical, planVars, pin, birth, measured, coupler,
                 walls, window, done>>

AtTop == pc = "top" /\ i < exp.n /\ BirthBatch(i) \subseteq allocated

\* Mutant of SkipDone: the loop jumps over as many steps as the batch has.
SkipDone_WholeBatch ==
  /\ AtTop /\ i \in done
  /\ i' = i + Cardinality(Members(head[i]))
  /\ UNCHANGED <<exp, pc, vertical, planVars, pin, patchVars, cellVars,
                 coupler, walls, window, done>>

\* Step i ran in the shared window of its batch.
SkipDone ==
  /\ AtTop /\ i \in done
  /\ i' = i + 1
  /\ UNCHANGED <<exp, pc, vertical, planVars, pin, patchVars, cellVars,
                 coupler, walls, window, done>>

\* The first step of a batch attempts the window; if a member already has a
\* route, it was built for the serial order and the batch is demoted.
EnterStep ==
  /\ AtTop /\ i \notin done
  /\ Goto(IF head[i] = i /\ InBatch(i) /\ ~\E j \in Members(i) : HasRoute(j)
          THEN "preamble" ELSE "alloc")
  /\ UNCHANGED <<exp, i, vertical, planVars, pin, patchVars, cellVars,
                 coupler, walls, window, done>>

\* Mutant of Newly: only the targets come in.
Newly_TargetsOnly(S) == (UNION {Targets(j) : j \in S}) \ allocated

\* The patches to bring in for the steps S: their targets, and whoever's
\* lifetime has begun by the last of them.
Newly(S) ==
  ((UNION {Targets(j) : j \in S}) \ allocated)
    \cup {p \in Patches \ (allocated \cup exp.yset) :
            \E j \in S : exp.first[p] <= j}

\* Deferred allocation.  A Y patch among the newcomers fails an assertion.
DeferredAllocation ==
  /\ pc = "alloc"
  /\ LET S == Newly({i})
     IN  /\ BringUp(S, IF S \cap exp.yset = {} THEN "rotate" ELSE "fault")
         /\ allocated' = allocated \cup S
  /\ UNCHANGED <<exp, i, vertical, planVars, pin, birth, measured, coupler,
                 walls, window, done>>

\* What build() does next with step i, once its patches are in place.
Dispatch ==
  IF i \in Snakes THEN "snake"
  ELSE IF i \in Registered THEN "merge"
  ELSE IF i \in Adjacent THEN "seam"
  ELSE "route"

\* The planned rotations of step i; a protocol may refuse.
RotatePlanned ==
  /\ pc = "rotate"
  /\ \/ /\ vertical' = Flip(vertical, moves[i])
        /\ Goto(Dispatch)
     \/ /\ moves[i] # {}
        /\ Goto("raised")
        /\ UNCHANGED vertical
  /\ UNCHANGED <<exp, i, planVars, pin, patchVars, cellVars, coupler, walls,
                 window, done>>

-----------------------------------------------------------------------------
(* Registration inside the loop.                                            *)

\* register_coupler succeeds for candidate c of step i.
RegisterStep(c) ==
  /\ c.cells \cap live = {}
  /\ coupler' = [coupler EXCEPT ![i] = c]
  /\ owner' = Placed(owner, i, c)
  /\ Goto("merge")

\* A planned snake is built from its plan or not at all.
RegisterSnake ==
  /\ pc = "snake"
  /\ \/ \E c \in Routable(i, View(i, {}), vertical) : RegisterStep(c)
     \/ Goto("raised") /\ UNCHANGED <<coupler, owner>>
  /\ UNCHANGED <<exp, i, vertical, planVars, pin, patchVars, live, walls,
                 window, done>>

\* The rule table classifies the seam; rows 2 and 3 make it a wall.
Classify(j, c) ==
  /\ c \in exp.cands[j] /\ c.vertical = vertical \cap Targets(j)
  /\ walls' \in {walls, walls \cup {j}}

RegisterSeam ==
  /\ pc \in {"seam", "seam2"}
  /\ \E c \in exp.cands[i] : Classify(i, c) /\ RegisterStep(c)
  /\ UNCHANGED <<exp, i, vertical, planVars, pin, patchVars, live, window, done>>

\* The seam violates the parallel law: turn wrong-facing targets, drop what
\* was built for their old orientation, and classify once more.
RotateSeam ==
  /\ pc = "seam"
  /\ \A c \in exp.cands[i] : c.vertical # vertical \cap Targets(i)
  /\ \E c \in exp.cands[i] :
       \E S \in SUBSET (Flip(vertical \cap Targets(i), c.vertical) \ exp.yset) :
         /\ S # {}
         /\ vertical' = Flip(vertical, S)
         /\ Forget(S)
  /\ Goto("seam2")
  /\ UNCHANGED <<exp, i, planVars, patchVars, live, walls, window, done>>

\* The construction is refused, or no protocol repairs the seam.
SeamRefused ==
  /\ pc \in {"seam", "seam2"}
  /\ Goto("raised")
  /\ UNCHANGED <<exp, i, vertical, planVars, pin, patchVars, cellVars, coupler,
                 walls, window, done>>

\* Route the step in its live orientations.  The pinned corridor is binding,
\* except after a repair: if it is refused, the one the probe found is built.
RegisterRouted ==
  /\ pc \in {"route", "route2"}
  /\ \E c \in Routable(i, View(i, {}), vertical) :
       /\ pc = "route2" \/ PinOK(i, c)
       /\ RegisterStep(c)
  /\ UNCHANGED <<exp, i, vertical, planVars, pin, patchVars, live, walls,
                 window, done>>

\* The step was refused: turn the first target that makes it routable.
RotateBlocked ==
  /\ pc = "route"
  /\ \E p \in Targets(i) \ exp.yset :
       /\ Routable(i, View(i, {}), Flip(vertical, {p})) # {}
       /\ vertical' = Flip(vertical, {p})
       /\ Forget({p})
  /\ Goto("route2")
  /\ UNCHANGED <<exp, i, planVars, patchVars, live, walls, window, done>>

RouteRefused ==
  /\ pc \in {"route", "route2"}
  /\ Goto("raised")
  /\ UNCHANGED <<exp, i, vertical, planVars, pin, patchVars, cellVars, coupler,
                 walls, window, done>>

-----------------------------------------------------------------------------
(* A shared merge window (_try_run_batch).                                  *)

\* Mutant of Demote: the loop goes round again instead of running step i.
Demote_Retry == Goto("top")

\* The batch's first step runs alone, as in the serial order; so will others.
Demote == Goto("alloc")

\* Every member's patches are brought in at the start of the window; these
\* allocations stand even if the batch is demoted.
BatchPreamble ==
  /\ pc = "preamble"
  /\ LET S == Newly(Members(i))
     IN  /\ BringUp(S, "seams")
         /\ allocated' = allocated \cup S
  /\ UNCHANGED <<exp, i, vertical, planVars, pin, birth, measured, coupler,
                 walls, window, done>>

\* Adjacent members are classified in turn.  A wall serialises the batch; a
\* seam that breaks the parallel law raises, here without any repair.
BatchSeam ==
  /\ pc = "seams"
  /\ \E j \in (Members(i) \cap Adjacent) \ Registered :
       /\ \A l \in Members(i) \cap Adjacent : l < j => l \in Registered
       /\ \/ \E c \in exp.cands[j] :
               /\ Classify(j, c)
               /\ coupler' = [coupler EXCEPT ![j] = c]
               /\ owner' = Placed(owner, j, c)
               /\ IF walls' = walls THEN UNCHANGED pc ELSE Demote
          \/ /\ \A c \in exp.cands[j] : c.vertical # vertical \cap Targets(j)
             /\ Goto("lawless")
             /\ UNCHANGED <<coupler, owner, walls>>
  /\ UNCHANGED <<exp, i, vertical, planVars, pin, patchVars, live, window, done>>

BatchTodo == Members(i) \ Registered

\* The portfolio's answer: a corridor for every routed member, no two sharing
\* a cell, and all of them clear of the patches of every member.
Portfolio ==
  LET force == UNION {Targets(j) : j \in Members(i)}
      Free(j) == Routable(j, View(j, force), vertical)
  IN  {f \in [BatchTodo -> UNION {Free(j) : j \in BatchTodo}] :
         /\ \A j \in BatchTodo : f[j] \in Free(j)
         /\ \A j, l \in BatchTodo : j # l => f[j].cells \cap f[l].cells = {}}

\* The members R are registered along their planned corridors.  When a later
\* one is refused, its pin and the registered prefix stay behind.
RegisterBatch ==
  /\ pc = "seams" /\ Members(i) \cap Adjacent \subseteq Registered
  /\ \E f \in Portfolio, R \in SUBSET BatchTodo :
       /\ \A j \in R : f[j].cells \cap live = {}
       /\ coupler' = [j \in Steps |-> IF j \in R THEN f[j] ELSE coupler[j]]
       /\ owner' = [c \in Cells |->
            IF \E j \in R : c \in f[j].cells
            THEN CHOOSE j \in R : c \in f[j].cells ELSE owner[c]]
       /\ \E S \in {R} \cup {R \cup {j} : j \in BatchTodo \ R} :
            /\ pin' = [j \in Steps |-> IF j \in S THEN f[j].cells ELSE pin[j]]
            /\ IF R = BatchTodo THEN Goto("verify")
               ELSE S # R /\ Demote
  /\ UNCHANGED <<exp, i, vertical, planVars, patchVars, live, walls, window, done>>

\* Some member starves under every order: nothing was registered.
BatchStarves ==
  /\ pc = "seams" /\ Members(i) \cap Adjacent \subseteq Registered
  /\ BatchTodo # {}
  /\ Demote
  /\ UNCHANGED <<exp, i, vertical, planVars, pin, patchVars, cellVars, coupler,
                 walls, window, done>>

\* A construction is refused after the registry has grown: fail loud.
BatchRefused ==
  /\ pc = "seams" /\ BatchTodo # {}
  /\ Goto("raised")
  /\ UNCHANGED <<exp, i, vertical, planVars, pin, patchVars, cellVars, coupler,
                 walls, window, done>>

-----------------------------------------------------------------------------
(* The merge window: activate, ride, split, retire.                         *)

\* Activate the couplers of W and reset their corridors.
Merge(W) ==
  /\ window' = W
  /\ live' = live \cup UNION {Corridor(j) : j \in W}
  /\ Goto("merged")
  /\ UNCHANGED <<exp, i, vertical, planVars, pin, patchVars, owner, coupler,
                 walls, done>>

MergeStep == pc = "merge" /\ Merge({i})

\* Two corridors share cells.
Overlap(S) == \E j, l \in S : j # l /\ Corridor(j) \cap Corridor(l) # {}

\* The batch's last check before the window; a failed one serialises it.
MergeBatch ==
  /\ pc = "verify"
  /\ IF Overlap(Members(i))
     THEN /\ Demote
          /\ UNCHANGED <<exp, i, vertical, planVars, pin, patchVars, cellVars,
                         coupler, walls, window, done>>
     ELSE Merge(Members(i))

\* The next step's Y patches ride a routed step's window, walls and snakes
\* excepted: they are allocated and reset while the corridor is live.
Riders ==
  IF window = {i} /\ i \notin walls \cup Snakes
  THEN BirthBatch(i + 1) \ allocated ELSE {}

BeginRide ==
  /\ pc = "merged" /\ birth = {} /\ Riders # {}
  /\ BringUp(Riders, "merged")
  /\ birth' = Riders
  /\ UNCHANGED <<exp, i, vertical, planVars, pin, allocated, measured, coupler,
                 walls, window, done>>

\* Deactivate the couplers and read their corridors out.
Split ==
  /\ pc = "merged" /\ birth = Riders
  /\ live' = live \ UNION {Corridor(j) : j \in window}
  /\ done' = done \cup window
  /\ Goto(IF birth = {} THEN "retire" ELSE "seal")
  /\ UNCHANGED <<exp, i, vertical, planVars, pin, patchVars, owner, coupler,
                 walls, window>>

\* _birth_finish of the patches that rode along.
FinishRide ==
  /\ pc = "seal"
  /\ allocated' = allocated \cup birth
  /\ birth' = {}
  /\ Goto("retire")
  /\ UNCHANGED <<exp, i, vertical, planVars, pin, measured, cellVars, coupler,
                 walls, window, done>>

\* Mutants of Retiring: a step early; only the targets of the window.
Retiring_OneEarly(W) ==
  {p \in allocated \ measured :
     /\ exp.liveness /\ p \notin exp.keep
     /\ \E j \in W : j < exp.n - 1 /\ exp.last[p] <= j + 1}
Retiring_TargetsOnly(W) ==
  {p \in allocated \ measured :
     /\ exp.liveness /\ p \notin exp.keep
     /\ \E j \in W : j < exp.n - 1 /\ exp.last[p] <= j /\ p \in Targets(j)}

\* Patches whose lifetime closes with one of the steps W, outputs excepted;
\* the last layer is left to the final readout.
Retiring(W) ==
  {p \in allocated \ measured :
     /\ exp.liveness /\ p \notin exp.keep
     /\ \E j \in W : j < exp.n - 1 /\ exp.last[p] <= j}

RetireConsumed ==
  /\ pc = "retire"
  /\ LET S == Retiring(window)
     IN  /\ live' = live \ OwnedBy(S, owner)
         /\ measured' = measured \cup S
  /\ window' = {}
  /\ i' = i + 1
  /\ Goto("top")
  /\ UNCHANGED <<exp, vertical, planVars, pin, allocated, birth, owner, coupler,
                 walls, done>>

\* Y patches no step ever reached are born after the loop.
LeftoverBirth ==
  /\ pc = "top" /\ i = exp.n
  /\ LET S == exp.yset \ allocated
     IN  /\ S # {}
         /\ BringUp(S, "top")
         /\ allocated' = allocated \cup S
  /\ UNCHANGED <<exp, i, vertical, planVars, pin, birth, measured, coupler,
                 walls, window, done>>

\* Read out every data qubit whose owner has not been read yet.
FinalReadout ==
  /\ pc = "top" /\ i = exp.n /\ exp.yset \subseteq allocated
  /\ LET S == {p \in Patches \ measured : \E c \in Cells : owner[c] = p}
     IN  /\ live' = live \ OwnedBy(S, owner)
         /\ measured' = measured \cup S
  /\ Goto("built")
  /\ UNCHANGED <<exp, i, vertical, planVars, pin, allocated, birth, owner,
                 coupler, walls, window, done>>

\* A circuit is returned, or an error is out of build().
Returned == pc \in {"built", "raised", "lawless", "fault"}
Halt     == Returned /\ UNCHANGED vars

Plan == PlanSeam \/ PlanNothing \/ PlanRouted \/ AllocateUpFront \/ PlanBatch
        \/ BatchesPlanned \/ RegisterUpFront \/ StartCircuit
Loop == FallbackBirth \/ SkipDone \/ EnterStep \/ DeferredAllocation
        \/ RotatePlanned
Register == RegisterSnake \/ RegisterSeam \/ RotateSeam \/ SeamRefused
            \/ RegisterRouted \/ RotateBlocked \/ RouteRefused
Batch == BatchPreamble \/ BatchSeam \/ RegisterBatch \/ BatchStarves
         \/ BatchRefused
Window == MergeStep \/ MergeBatch \/ BeginRide \/ Split \/ FinishRide
          \/ RetireConsumed \/ LeftoverBirth \/ FinalReadout

Build == Plan \/ Loop \/ Register \/ Batch \/ Window
Next  == Build \/ Halt

\* build() is one sequential call: it never pauses for ever between steps.
Spec == Init /\ [][Next]_vars /\ WF_vars(Build)

-----------------------------------------------------------------------------
(* Properties.                                                              *)

Locs == {"plan", "batches", "upfront", "top", "preamble", "seams", "verify",
         "alloc", "rotate", "snake", "seam", "seam2", "route", "route2",
         "merge", "merged", "seal", "retire", "built", "raised", "lawless", "fault"}

Candidates == UNION {exp.cands[j] : j \in Steps}

\* Every variable has its type.
TypeOK ==
  /\ pc \in Locs
  /\ i \in 0 .. exp.n
  /\ vertical \subseteq Patches
  /\ moves \in [Steps -> SUBSET Patches]
  /\ late \subseteq Steps
  /\ head \in [Steps -> Steps]
  /\ pin \in [Steps -> (SUBSET Cells) \cup {NoPin}]
  /\ allocated \subseteq Patches
  /\ birth \subseteq Patches
  /\ measured \subseteq Patches
  /\ owner \in [Cells -> Patches \cup Steps \cup {Nobody}]
  /\ live \subseteq Cells
  /\ coupler \in [Steps -> Candidates \cup {NoCoupler}]
  /\ walls \subseteq Steps
  /\ window \subseteq Steps
  /\ done \subseteq Steps

\* The patches that physically exist.
Alive == (allocated \ measured) \cup birth

\* The circuit is being emitted.
InLoop == pc \notin {"plan", "batches", "upfront", "fault"}

\* A living patch owns the qubits of its home cell: no coupler, registered up
\* front, in the loop or by a batch that was demoted, has taken them over.
\* Otherwise the retirement sweep and the final readout, which select data
\* qubits by owner, would leave some of the patch's qubits unmeasured.
StandingOwnsCell == pc # "fault" => \A p \in Alive : owner[Home(p)] = p

\* The active-qubit ledger says exactly what is alive: the home cells of the
\* living patches and, during a merge window, its corridors.  A cell that
\* stays live after its readout blocks every later registration there; one
\* that is missing lets add_patch build on top of a living patch.
LedgerExact ==
  InLoop => live = Homes(Alive) \cup
                   (IF pc = "merged" THEN UNION {Corridor(j) : j \in window}
                                     ELSE {})

\* When couplers run, their targets are alive and initialised, no corridor
\* crosses a living or nascent patch, and no two corridors share a cell.
\* The couplers may have been routed long before, against another set of
\* living patches: borrowed cells of unborn patches, freed cells of retired
\* ones, a batch that was demoted after its preamble.
CorridorClear ==
  pc = "merged" =>
    /\ \A j \in window : Corridor(j) \cap Homes(Alive) = {}
    /\ \A j, l \in window : j # l => Corridor(j) \cap Corridor(l) = {}
    /\ (UNION {Targets(j) : j \in window}) \subseteq allocated \ measured

\* The steps the router is being asked about, and whom it must avoid.
Consulted ==
  IF pc \in {"snake", "route", "route2"} THEN {i}
  ELSE IF pc = "seams" THEN Members(i) \ Adjacent ELSE {}
MustAvoid ==
  IF pc = "seams" THEN UNION {Targets(j) : j \in Members(i)} ELSE {}

\* The router's free ground is physically free: inside the loop, whoever the
\* absence rules of _specs_for_step hide from it is not alive.  The rules read
\* lifetimes, and retirement and allocation must have followed them.
RouterSeesAlive == \A j \in Consulted : Alive \subseteq View(j, MustAvoid)

\* A coupler runs in the orientations its targets have now, not in the ones
\* they had when it was registered.
NoStaleCoupler ==
  pc = "merged" =>
    \A j \in window : coupler[j].vertical = vertical \cap Targets(j)

\* No internal error leaves build(): the collision guard of add_patch never
\* fires for a patch, and no Y patch reaches the deferred allocation unborn.
NoFault == pc # "fault"

\* A finished build has measured every step, read every patch out, and left
\* no qubit live.
CompleteWhenBuilt ==
  pc = "built" => done = Steps /\ measured = Patches /\ live = {}

\* build() always returns a circuit or raises.
Terminates == <>Returned

\* A batch attempt ends in a window or in the serial path; it does not raise
\* for a seam that the serial path would repair by a rotation.
BatchNeverRaises == pc # "lawless"

\* The driver implements the program it was given.
Program == INSTANCE PPMProgram WITH born <- allocated, read <- measured
ImplementsProgram == Program!Spec
=============================================================================
