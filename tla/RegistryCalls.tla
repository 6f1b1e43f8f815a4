--------------------------- MODULE RegistryCalls ---------------------------
(***************************************************************************)
(* The calls that build() makes on the registry (sequential_ppm_ls.py and  *)
(* litinski_rotation.py), for serial programs of routed steps: one action  *)
(* per call or per run of calls nothing can interrupt; a loop over patches *)
(* or couplers is an action per member and one that leaves it.  A program  *)
(* is                                                                      *)
(*   steps     a sequence of records [targets, route], the                 *)
(*             patches measured together, in order, and for each set of    *)
(*             them that may be rotated when the step is routed, the       *)
(*             coupler's geometry (no entry: the router refuses)           *)
(*   deferred  whether patches are allocated at their first use            *)
(*   keep      the patches that are never retired early: the outputs, or   *)
(*             all of them when liveness is off                            *)
(* Patches rotate once, growing towards smaller y, from their home.        *)
(***************************************************************************)
EXTENDS QECSystem, RotatedLayouts

CONSTANTS Programs,     \* the programs, and
          NSteps,       \* the length of each
          Home,         \* the y of every patch
          Coupler       \* the name of every step's coupler

VARIABLES prog, sys, step, phase,
          routes,       \* the steps whose coupler is registered
          turned,       \* the patches that have been rotated
          moving,       \* the patch under rotation and its stage
          newly,        \* the patches allocated at this step, to be initialised
          measured      \* the patches read out for good

vars == <<prog, sys, step, phase, routes, turned, moving, newly, measured>>

Patches == DOMAIN Home

ASSUME StepsAssumption == NSteps \in Nat \ {0}
ASSUME HomeAssumption == \A p \in Patches : Home[p] \in Int
ASSUME NamesAssumption ==
  /\ \A i, j \in 1 .. NSteps : Coupler[i] = Coupler[j] => i = j
  /\ \A i \in 1 .. NSteps : Coupler[i] \notin Patches \cup {Nobody}
  /\ Nobody \notin Patches

Legal(p) ==
  \A i \in 1 .. NSteps :
    /\ p.steps[i].targets \in Seq(Patches)
    /\ \A T \in DOMAIN p.steps[i].route : Geometry(p.steps[i].route[T])
ASSUME ProgramsAssumption == \A p \in Programs : Legal(p)

Targets(i) == Image(prog.steps[i].targets)
UsesOf(p) == {i \in 1 .. NSteps : p \in Targets(i)}
FirstUse(p) == CHOOSE i \in UsesOf(p) : \A j \in UsesOf(p) : i <= j
LastUse(p)  == CHOOSE i \in UsesOf(p) : \A j \in UsesOf(p) : i >= j
Used == {p \in Patches : UsesOf(p) # {}}
UpFront == {p \in Used : ~ prog.deferred \/ FirstUse(p) = 1}
\* _lazy_reuse_map: a step after some retirement registers in the loop.
Lazy(i) == \E p \in Used \ prog.keep : LastUse(p) < i

Fits(i) == turned \cap Targets(i) \in DOMAIN prog.steps[i].route
RouteOf(i) == prog.steps[i].route[turned \cap Targets(i)]

Allocated == {p \in Used : p \in DOMAIN sys.patch}
Standing == Allocated \ measured

\* _alloc_patch, and _init_and_baseline: resets and the baseline rounds.
Alloc(p) == AddPatch(sys, p, Start(Home[p]), TRUE)
InitAndBaseline(s, P) ==
  ApplySyndromeExtraction(
    Initialize(s, UNION {OwnedData(s, p) : p \in P}))

Init ==
  /\ prog \in Programs
  /\ sys = NewSystem
  /\ step = 1 /\ phase = "up front"
  /\ routes = {} /\ turned = {} /\ newly = {} /\ measured = {}
  /\ moving = [patch |-> Nobody, stage |-> 0]

Go(from, to) == Ok(sys) /\ phase = from /\ phase' = to

AllocateUpFront ==
  /\ Go("up front", "up front")
  /\ \E p \in UpFront \ Allocated : sys' = Alloc(p)
  /\ UNCHANGED <<prog, step, routes, turned, moving, newly, measured>>

(***************************************************************************)
(* Before the tracker exists: each coupler that can be is registered; a    *)
(* step that cannot is left to the loop.                                   *)
(***************************************************************************)
RegisterUpFront ==
  LET t == RegisterCoupler(sys, Coupler[step], RouteOf(step))
      try == ~ Lazy(step) /\ Targets(step) \subseteq Allocated /\ Fits(step)
  IN  /\ Go("up front", IF step = NSteps THEN "set up" ELSE "up front")
      /\ UpFront \subseteq Allocated
      /\ IF try /\ t.fault # "collision"
         THEN sys' = t /\ routes' = routes \cup {step}
         ELSE UNCHANGED <<sys, routes>>
      /\ step' = IF step = NSteps THEN 1 ELSE step + 1
      /\ UNCHANGED <<prog, turned, moving, newly, measured>>

SetUp ==
  /\ Go("set up", "bring in")
  /\ sys' = InitAndBaseline(WriteCoordinates([sys EXCEPT !.tracked = TRUE]),
                            UpFront)
  /\ UNCHANGED <<prog, step, routes, turned, moving, newly, measured>>

\* The patches first used at this step are allocated and initialised.
AllocateFirstUsed ==
  /\ Go("bring in", "bring in")
  /\ \E p \in Targets(step) \ Allocated : sys' = Alloc(p) /\ newly' = newly \cup {p}
  /\ UNCHANGED <<prog, step, routes, turned, moving, measured>>

BringIn ==
  /\ Go("bring in", "register")
  /\ Targets(step) \subseteq Allocated
  /\ sys' = IF newly = {} THEN sys ELSE InitAndBaseline(sys, newly)
  /\ newly' = {}
  /\ UNCHANGED <<prog, step, routes, turned, moving, measured>>

\* The places of the targets whose rotation would make the step routable.
Repairs ==
  {k \in DOMAIN prog.steps[step].targets :
     LET p == prog.steps[step].targets[k]
     IN  /\ p \notin turned
         /\ (turned \cap Targets(step)) \cup {p} \in DOMAIN prog.steps[step].route}

AtRegister == phase \in {"register", "register again"}
CouplerPlaced == RegisterCoupler(sys, Coupler[step], RouteOf(step))
Registrable == Fits(step) /\ CouplerPlaced.fault # "collision"
Blocking == phase = "register" /\ ~ Registrable /\ Repairs # {}

\* The coupler was registered up front.
UseRegistered ==
  /\ AtRegister /\ Go(phase, "merge")
  /\ step \in routes
  /\ UNCHANGED <<prog, sys, step, routes, turned, moving, newly, measured>>

(***************************************************************************)
(* _register_with_blocked_repair: when the step cannot be routed or its    *)
(* coupler cannot be placed, the first target whose rotation helps is      *)
(* rotated, and the step is registered again, once.                        *)
(***************************************************************************)
RegisterStep ==
  /\ AtRegister /\ Go(phase, "merge")
  /\ step \notin routes /\ ~ Blocking
  /\ sys' = IF Registrable THEN CouplerPlaced
            ELSE Fail(sys, "the step cannot be registered")
  /\ routes' = routes \cup {step}
  /\ UNCHANGED <<prog, step, turned, moving, newly, measured>>

BeginRepair ==
  /\ Go("register", "rotate")
  /\ step \notin routes /\ Blocking
  /\ moving' = [patch |-> prog.steps[step].targets[Min(Repairs)], stage |-> 1]
  /\ UNCHANGED <<prog, sys, step, routes, turned, newly, measured>>

-----------------------------------------------------------------------------
(* The rotation: five stages, each followed by rounds on the whole system. *)

Stage(k, after) ==
  /\ Go("rotate", IF k = 5 THEN "rotated" ELSE "rotate")
  /\ moving.stage = k
  /\ sys' = IF Ok(after) THEN ApplySyndromeExtraction(after) ELSE after
  /\ moving' = [moving EXCEPT !.stage = k + 1]
  /\ UNCHANGED <<prog, step, routes, turned, newly, measured>>

Turning == moving.patch
HomeY == Home[Turning]

\* The lobes the patch measures, as the precondition reads them.
LiveLobes ==
  {[type |-> sys.recs[u].type, at |-> sys.recs[u].at] :
     u \in {v \in sys.active : sys.recs[v].by = Turning
                                 /\ Cardinality(sys.recs[v].on) = 2}}
StartLobes ==
  {[type |-> k.type, at |-> k.at] :
     k \in {m \in Start(HomeY).checks : Cardinality(m.on) = 2}}

GrowTo(g) ==
  LET t == GrowPatch(sys, Turning, g)
  IN  IF Ok(t) THEN Initialize(t, NewData(sys, Turning, g)) ELSE t
ShrinkTo(g, out) == ShrinkPatch(ApplyDataReadout(sys, out), Turning, g)

RotateGrow ==
  Stage(1, IF Cardinality(LiveData(sys, Turning)) # D * D \/ LiveLobes # StartLobes
           THEN Fail(sys, "not the start layout") ELSE GrowTo(Grown(HomeY)))
RotateMoveCorners == Stage(2, MoveCorners(sys, Turning, Moved(HomeY)))
RotateShrink ==
  Stage(3, ShrinkTo(Far(HomeY),
                    {i \in LiveData(sys, Turning) : sys.coord[i][2] > HomeY + 1}))
RotateGrowBack == Stage(4, GrowTo(Bar2(HomeY)))
RotateShrinkHome ==
  Stage(5, ShrinkTo(Shrunk(HomeY),
                    {i \in LiveData(sys, Turning) : sys.coord[i][2] < HomeY}))

\* _invalidate_downstream_registration: the couplers of the later steps that
\* touch the patch are removed, in the order of the steps.
Stale == {j \in routes : j > step /\ Turning \in Targets(j)}

Invalidate ==
  /\ Go("rotated", "rotated")
  /\ \E j \in Stale :
       /\ \A k \in Stale : j <= k
       /\ sys' = RemoveCoupler(sys, Coupler[j])
       /\ routes' = routes \ {j}
  /\ UNCHANGED <<prog, step, turned, moving, newly, measured>>

Rotated ==
  /\ Go("rotated", "register again")
  /\ Stale = {}
  /\ turned' = turned \cup {Turning}
  /\ UNCHANGED <<prog, sys, step, routes, moving, newly, measured>>

-----------------------------------------------------------------------------
(* The merge, the split and what follows. *)

CorridorData(s, n) == {s.held[n][c] : c \in s.patch[n].data}

Merge ==
  LET n == Coupler[step]
  IN  /\ Go("merge", "split")
      /\ sys' = ApplySyndromeExtraction(
                  Initialize(ActivateCoupler(sys, n), CorridorData(sys, n)))
      /\ UNCHANGED <<prog, step, routes, turned, moving, newly, measured>>

Split ==
  LET n == Coupler[step]
  IN  /\ Go("split", "retire")
      /\ sys' = ApplyDataReadout(DeactivateCoupler(sys, n), CorridorData(sys, n))
      /\ UNCHANGED <<prog, step, routes, turned, moving, newly, measured>>

\* _retire_consumed: every standing patch whose window has closed.
Consumed ==
  IF step = NSteps THEN {} ELSE {p \in Standing : LastUse(p) <= step} \ prog.keep

RetireConsumed ==
  /\ Go("retire", "retire")
  /\ \E p \in Consumed :
       /\ sys' = RetireMeasuredPatch(ApplyDataReadout(sys, OwnedData(sys, p)), p)
       /\ measured' = measured \cup {p}
  /\ UNCHANGED <<prog, step, routes, turned, moving, newly>>

NextStep ==
  /\ Go("retire", IF step = NSteps THEN "read out" ELSE "bring in")
  /\ Consumed = {}
  /\ step' = IF step = NSteps THEN step ELSE step + 1
  /\ UNCHANGED <<prog, sys, routes, turned, moving, newly, measured>>

ReadOut ==
  /\ Go("read out", "done")
  /\ sys' = ApplyDataReadout(sys, UNION {OwnedData(sys, p) : p \in Standing})
  /\ UNCHANGED <<prog, step, routes, turned, moving, newly, measured>>

Done == phase = "done" /\ UNCHANGED vars

Next ==
  \/ AllocateUpFront \/ RegisterUpFront \/ SetUp
  \/ AllocateFirstUsed \/ BringIn
  \/ UseRegistered \/ RegisterStep \/ BeginRepair
  \/ RotateGrow \/ RotateMoveCorners \/ RotateShrink \/ RotateGrowBack
  \/ RotateShrinkHome \/ Invalidate \/ Rotated
  \/ Merge \/ Split \/ RetireConsumed \/ NextStep \/ ReadOut \/ Done

Spec == Init /\ [][Next]_vars

-----------------------------------------------------------------------------
(* What the registry promises. *)

\* No call of the sequence is refused and no round misses a coordinate.
NoFault == Ok(sys)

(***************************************************************************)
(* The maps tell one story: coordinates and indices are inverse, both      *)
(* owner maps agree, and whatever a patch or a coupler still holds, and    *)
(* whatever is in use, is on the map.                                      *)
(***************************************************************************)
MapsAgree == MapsInverse(sys) /\ OwnersAgree(sys) /\ HeldOnMap(sys) /\ LiveOnMap(sys)

(***************************************************************************)
(* What only a coupler that is about to be removed holds is its own and    *)
(* not in use: a rotation bar has not been over it and drawn back.         *)
(***************************************************************************)
RemovalsClean ==
  Ok(sys) /\ phase = "rotated" => \A j \in Stale : CleanToRemove(sys, Coupler[j])

(***************************************************************************)
(* The inductive strengthening of MapsAgree: indices are handed out below  *)
(* next, the names are listed once each, what a coupler owns it holds, and *)
(* the calls go to patches and couplers that are registered.               *)
(***************************************************************************)
ControlSound ==
  /\ Legal(prog) /\ step \in 1 .. NSteps /\ routes \subseteq 1 .. NSteps
  /\ moving \in [patch : Patches \cup {Nobody}, stage : 0 .. 6]
  /\ Ok(sys) =>
       /\ \A j \in routes : Coupler[j] \in DOMAIN sys.held
       /\ phase \in {"merge", "split"} => step \in routes
       /\ phase \in {"register", "rotate", "rotated", "register again"} =>
            Targets(step) \subseteq DOMAIN sys.held
       /\ phase \in {"rotate", "rotated"} => moving.patch \in Targets(step)

RegistryInv ==
  /\ MapsSound(sys) /\ NamesSound(sys) /\ ControlSound
  /\ \A i \in 1 .. NSteps : OwnsHeld(sys, Coupler[i])

(***************************************************************************)
(* What a round measures is the checks of the standing patches as they lie *)
(* now, less the lobes an open coupler pauses, and that coupler's checks;  *)
(* no ancilla serves two, and a patch's checks are recorded as its own, so *)
(* the scans that go by owner find them.                                   *)
(***************************************************************************)
Physical(r) == [type |-> r.type, on |-> r.on, anc |-> r.anc, at |-> r.at]

ChecksFollow ==
  LET pauses == UNION {sys.patch[n].pauses : n \in DOMAIN sys.paused}
      own == UNION {{Translate(sys, p, k) :
                       k \in {m \in sys.patch[p].checks : m.at \notin pauses}} :
                    p \in Standing}
      seam == UNION {{Translate(sys, n, k) : k \in sys.patch[n].checks} :
                     n \in DOMAIN sys.paused}
      running == {sys.recs[u] : u \in sys.active}
  IN  Ok(sys) =>
      /\ \A u, v \in sys.active : sys.recs[u].anc = sys.recs[v].anc => u = v
      /\ own \subseteq running
      /\ {Physical(r) : r \in running} = {Physical(r) : r \in own \cup seam}

(***************************************************************************)
(* The two ledgers of use agree with the layout: the live qubits are the   *)
(* data qubits of the standing patches and of the open corridor, and the   *)
(* data a patch owns and has not retired is the data of its geometry.      *)
(***************************************************************************)
DataIn(s, p) == {s.index[c] : c \in s.patch[p].data}
Settled(s, p) == LiveData(s, p) = DataIn(s, p)

LedgerExact ==
  Ok(sys) =>
  /\ \A p \in Standing : Settled(sys, p)
  /\ sys.live = IF sys.tracked /\ phase # "done"
                THEN (UNION {DataIn(sys, p) : p \in Standing \ newly})
                       \cup (UNION {CorridorData(sys, n) : n \in DOMAIN sys.paused})
                ELSE {}

(***************************************************************************)
(* Whoever reads the finished circuit can place it: every qubit it acts on *)
(* is declared, and has coordinates in the system, where experiment_stats  *)
(* looks them up.  docs/KNOWN_ISSUES.md records a compile with             *)
(* first_use_init and liveness off that succeeds and has five qubits       *)
(* without.                                                                *)
(***************************************************************************)
CircuitLocated ==
  phase = "done" => sys.touched \subseteq sys.declared \cap DOMAIN sys.coord

(***************************************************************************)
(* The circuit declares every qubit it acts on at any time, and once it is *)
(* complete acts on every qubit it declares (the S4 == S5 self-check that  *)
(* remove_coupler's retraction is for).  This is said of routed corridors  *)
(* that no bar has passed over (BarsClear).  A bar takes it away, and with *)
(* it CircuitLocated, where a coupler it has passed over is removed: the   *)
(* bar's cells are nobody else's by then, and the declarations of qubits   *)
(* that the circuit has used leave it.                                     *)
(***************************************************************************)
DeclaredIsTouched ==
  /\ sys.tracked => sys.touched \subseteq sys.declared
  /\ phase = "done" => sys.declared = sys.touched
  /\ CircuitLocated

(***************************************************************************)
(* What remove_coupler's comment says of the indices it frees: they are    *)
(* never used again.                                                       *)
(***************************************************************************)
FreedStaysFree ==
  [][\A i \in 0 .. sys.next - 1 :
       i \notin DOMAIN sys.coord => i \notin DOMAIN sys'.coord]_vars
=============================================================================
