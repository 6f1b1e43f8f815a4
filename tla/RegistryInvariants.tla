------------------------- MODULE RegistryInvariants -------------------------
(***************************************************************************)
(* What the driver owes the registry (a contract on the programs it runs), *)
(* and the inductive invariant under which the registry's ledgers of use   *)
(* are exact and the removal of a coupler frees only what is its own.      *)
(***************************************************************************)
EXTENDS RegistryCalls

(***************************************************************************)
(* The patches that _specs_for_step shows to the router at step i of the   *)
(* program pr: those that are begun by then (when births are deferred) and *)
(* have a use ahead of them, or are outputs.                               *)
(***************************************************************************)
UsedAt(pr, i, p) == p \in Image(pr.steps[i].targets)

Begun(pr, i, p) ==
  \E j \in 1 .. (IF pr.deferred THEN i ELSE NSteps) : UsedAt(pr, j, p)
Lasting(pr, i, p) == p \in pr.keep \/ \E j \in i .. NSteps : UsedAt(pr, j, p)
Present(pr, i, p) == Begun(pr, i, p) /\ Lasting(pr, i, p)

(***************************************************************************)
(* The contract of placement and routing: patches the router sees together *)
(* have tiles of their own, and a corridor's data qubits are those at the  *)
(* data sites of its cells, outside the tiles of the patches it sees.      *)
(***************************************************************************)
Tile(p) == DataOf(Home[p], D)

Clear(pr) ==
  \A i \in 1 .. NSteps :
    /\ \A p, q \in Patches :
         p # q /\ Present(pr, i, p) /\ Present(pr, i, q) => Tile(p) \cap Tile(q) = {}
    /\ \A T \in DOMAIN pr.steps[i].route :
         LET g == pr.steps[i].route[T]
         IN  /\ g.data = {c \in g.cells : DataSite(c)}
             /\ \A p \in Patches : Present(pr, i, p) => g.data \cap Tile(p) = {}
ASSUME ClearAssumption == \A pr \in Programs : Clear(pr)

(***************************************************************************)
(* A patch may have to turn for step i when a route needs it turned.  A    *)
(* corridor registered up front for step j may have to go when one of its  *)
(* patches may turn before.                                                *)
(***************************************************************************)
MayTurn(i, p) ==
  \E T \in DOMAIN prog.steps[i].route :
    p \in T \cap Targets(i) /\ T \ {p} \notin DOMAIN prog.steps[i].route

Waits(j) == {} \in DOMAIN prog.steps[j].route /\ Targets(j) \subseteq UpFront /\ ~ Lazy(j)
MayGo(j) == Waits(j) /\ \E i \in 1 .. j - 1 : \E p \in Targets(j) : MayTurn(i, p)

(***************************************************************************)
(* No bar over a corridor that may have to go: it has no cells that a      *)
(* rotation at an earlier step passes over and draws back from.  Nothing   *)
(* in the code sees to it.                                                 *)
(***************************************************************************)
Swept(y) ==
  Start(y).cells \cup Grown(y).cells \cup Moved(y).cells \cup Far(y).cells \cup Bar2(y).cells
DrawnBack(p) == Swept(Home[p]) \ Shrunk(Home[p]).cells

BarsClear ==
  \A j \in 1 .. NSteps : MayGo(j) =>
    \A i \in 1 .. j - 1 : \A p \in Patches :
      MayTurn(i, p) => prog.steps[j].route[{}].cells \cap DrawnBack(p) = {}

-----------------------------------------------------------------------------
(* What a registry keeps beside its maps.                                   *)

\* The categories go by the site.
SitesSorted(s) ==
  /\ s.data = {i \in DOMAIN s.coord : DataSite(s.coord[i])}
  /\ s.syn  = {i \in DOMAIN s.coord : ~ DataSite(s.coord[i])}

OwnersNamed(s) == \A i \in DOMAIN s.of : s.of[i] \in DOMAIN s.held

\* A name holds the cells of its geometry, and its data are at the data sites.
Shaped(s) ==
  \A n \in DOMAIN s.patch :
    /\ n \in DOMAIN s.held /\ DOMAIN s.held[n] = s.patch[n].cells
    /\ s.patch[n].data = {c \in s.patch[n].cells : DataSite(c)}

Tidy(s) == SitesSorted(s) /\ OwnersNamed(s) /\ Shaped(s)

-----------------------------------------------------------------------------
(* Where build() stands.                                                    *)

Early == phase \in {"up front", "set up"}
Leaving == phase \in {"retire", "read out", "done"}

Books ==
  /\ sys.tracked <=> ~ Early
  /\ DOMAIN sys.paused = IF phase = "split" THEN {Coupler[step]} ELSE {}
  /\ Early => /\ sys.retired = {} /\ measured = {} /\ turned = {} /\ newly = {}
              /\ Allocated \subseteq UpFront
  /\ phase = "set up" => step = 1 /\ UpFront \subseteq Allocated
  /\ turned \subseteq Allocated
  /\ newly \subseteq Standing \cap Targets(step)
  /\ newly # {} => phase = "bring in"
  /\ \A p \in newly : OwnedData(sys, p) \cap sys.retired = {}

\* The patches that stand are those the router sees.
Lifetimes ==
  /\ measured \subseteq Allocated
  /\ \A p \in measured : \A i \in UsesOf(p) : i <= step /\ (i = step => Leaving)
  /\ ~ Early => \A p \in Standing : /\ Begun(prog, step, p)
                                    /\ Leaving \/ Lasting(prog, step, p)

LayoutsOf(p) ==
  LET y == Home[p]
  IN  IF phase = "rotate" /\ p = Turning
      THEN {Start(y), Grown(y), Moved(y), Far(y), Bar2(y)}
      ELSE IF p \in turned \/ (phase = "rotated" /\ p = Turning)
           THEN {Shrunk(y)} ELSE {Start(y)}

Dormant(j) == Early \/ j > step

Layouts ==
  /\ \A p \in Allocated : sys.patch[p] \in LayoutsOf(p)
  /\ phase \in {"rotate", "rotated"} => MayTurn(step, Turning)
  /\ \A j \in routes :
       LET route == prog.steps[j].route
       IN  /\ Coupler[j] \in DOMAIN sys.patch
           /\ \E T \in DOMAIN route : sys.patch[Coupler[j]] = route[T]
           /\ Dormant(j) => Waits(j) /\ sys.patch[Coupler[j]] = route[{}]

\* Whoever owns a cell of a corridor that waits holds it, but for a turning
\* patch, which will hold it when it is done.
OwnersHold ==
  BarsClear =>
  \A j \in routes : Dormant(j) /\ MayGo(j) =>
    \A c \in DOMAIN sys.held[Coupler[j]] :
      LET m == sys.at[c]
      IN  \/ m \in DOMAIN sys.held /\ c \in DOMAIN sys.held[m]
          \/ phase = "rotate" /\ m = Turning /\ c \in Shrunk(HomeY).cells

LedgerInv ==
  /\ Clear(prog)
  /\ Ok(sys) => Tidy(sys) /\ Books /\ Lifetimes /\ Layouts /\ OwnersHold
  /\ LedgerExact

(***************************************************************************)
(* What the theorems on the registry rest on: no bar is over a corridor    *)
(* that may have to go, the maps agree, the ledgers are exact, and only a  *)
(* coupler's own cells are freed.                                          *)
(***************************************************************************)
RegistrySound == BarsClear /\ RegistryInv /\ LedgerInv /\ RemovalsClean
=============================================================================
