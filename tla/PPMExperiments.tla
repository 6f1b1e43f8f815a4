--------------------------- MODULE PPMExperiments ---------------------------
(***************************************************************************)
(* The experiments the driver is meant for: what the constructor of        *)
(* SequentialPPMExperiment checks of its arguments, what compute_lifetimes *)
(* derives from them, and the placement (PlacementOK), which the           *)
(* pipeline's layouts meet and the constructor does not check, as an       *)
(* assumption on Experiments.                                              *)
(***************************************************************************)
EXTENDS PPMDriver

\* Patch q is placed where p stood: its life begins after p was retired (one
\* step later for a Y patch, whose birth starts during the step before).
Succeeds(e, p, q) ==
  /\ e.liveness /\ e.firstUseInit /\ p \notin e.keep
  /\ e.last[p] + (IF q \in e.yset THEN 1 ELSE 0) < e.first[q]

\* The lifetime of a used patch covers its uses and lies in the sequence; an
\* unused patch has none: it exists from the start and is never retired.
LifetimesOK(e) ==
  /\ e.first \in [Patches -> Nat] /\ e.last \in [Patches -> Nat]
  /\ \A p \in Patches :
       \/ e.first[p] <= e.last[p] /\ e.last[p] < e.n
       \/ e.first[p] = 0 /\ e.last[p] = e.n
  /\ \A j \in 0 .. e.n - 1, p \in Patches :
       p \in e.targets[j] => e.first[p] <= j /\ j <= e.last[p] /\ e.last[p] < e.n

\* Two patches have different cells, unless one succeeds the other; a direct
\* seam in a shared window may not be what brings the successor in.
PlacementOK(e) ==
  /\ e.home \in [Patches -> Cells]
  /\ \A p, q \in Patches :
       p # q /\ e.home[p] = e.home[q] => Succeeds(e, p, q) \/ Succeeds(e, q, p)
  /\ \A p, q \in Patches :
       p # q /\ e.home[p] = e.home[q] /\ e.parallel => e.first[q] \notin e.adjacent

\* A candidate names corridor cells, none of them under a target, and the
\* targets that must stand vertically; a direct seam has no corridor.
CandidatesOK(e) ==
  /\ DOMAIN e.cands = 0 .. e.n - 1
  /\ \A j \in 0 .. e.n - 1 : \A c \in e.cands[j] :
       /\ c.cells \subseteq Cells
       /\ c.vertical \subseteq e.targets[j]
       /\ j \in e.adjacent => c.cells = {}
       /\ c # NoCoupler

ExperimentOK(e) ==
  /\ e.n \in Nat
  /\ e.targets \in [0 .. e.n - 1 -> SUBSET Patches]
  /\ e.vertical \subseteq Patches
  /\ e.yset \subseteq Patches /\ e.keep \subseteq Patches
  /\ {e.liveness, e.firstUseInit, e.parallel, e.autoRotate} \subseteq BOOLEAN
  /\ e.adjacent \subseteq 0 .. e.n - 1
  /\ e.snake \subseteq (0 .. e.n - 1) \ e.adjacent
  /\ LifetimesOK(e) /\ PlacementOK(e) /\ CandidatesOK(e)

ASSUME ExperimentsAssumption == \A e \in Experiments : ExperimentOK(e)

\* Names of patches, couplers (steps) and nobody are different.
ASSUME NamesAssumption ==
  /\ \A p \in Patches : p \notin Nat
  /\ Nobody \notin Patches /\ Nobody \notin Nat
  /\ RotationSearchCap \in Nat
=============================================================================
