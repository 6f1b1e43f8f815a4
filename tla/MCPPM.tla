------------------------------- MODULE MCPPM --------------------------------
(***************************************************************************)
(* Small experiments for the model checker, on five cells.  p1, p2 and p3  *)
(* stand on c1, c2 and c3 unless one takes the place of another.           *)
(***************************************************************************)
EXTENDS PPMInvariants

CONSTANTS p1, p2, p3, p4, c1, c2, c3, c4, c5

Least(S) == CHOOSE x \in S : \A y \in S : x <= y
Most(S)  == CHOOSE x \in S : \A y \in S : y <= x

\* compute_lifetimes; an unused patch has the lifetime PPMExperiments gives it.
Uses(t, p)    == {j \in DOMAIN t : p \in t[j]}
FirstUse(t)   == [p \in Patches |-> IF Uses(t, p) = {} THEN 0
                                    ELSE Least(Uses(t, p))]
LastUse(t, n) == [p \in Patches |-> IF Uses(t, p) = {} THEN n
                                    ELSE Most(Uses(t, p))]

\* A corridor of one cell, any cell that is not under a target, for targets
\* that all stand horizontally.
OneCell(t, h, j) == {[cells |-> {c}, vertical |-> {}] :
                       c \in Cells \ {h[p] : p \in t[j]}}

\* The experiment with program t on placement h and nothing else asked for.
Plain(n, t, h) ==
  [n |-> n, targets |-> t, home |-> h, first |-> FirstUse(t),
   last |-> LastUse(t, n), yset |-> {}, keep |-> {}, vertical |-> {},
   liveness |-> FALSE, firstUseInit |-> TRUE, parallel |-> FALSE,
   autoRotate |-> FALSE, adjacent |-> {}, snake |-> {},
   cands |-> [j \in 0 .. n - 1 |-> OneCell(t, h, j)]]

\* lifetime_overrides: patch p exists from step a to step b.
Widened(e, p, a, b) == [e EXCEPT !.first[p] = a, !.last[p] = b]

\* The steps S become direct seams of targets that stand as V says.
Seams(e, S, V) ==
  [e EXCEPT !.adjacent = S,
            !.cands = [j \in DOMAIN e.cands |->
                         IF j \in S THEN {[cells |-> {}, vertical |-> V]}
                         ELSE e.cands[j]]]

\* p4 stands on c; Rebuilt puts p3 in the place of p1.
Place(c)  == [p \in Patches |-> IF p = p1 THEN c1 ELSE IF p = p2 THEN c2
                                ELSE IF p = p3 THEN c3 ELSE c]
Rebuilt(h) == [h EXCEPT ![p3] = c1]

(***************************************************************************)
(* Serial builds: deferred births, retirement, cell reuse, widened         *)
(* lifetimes.  p4 is not used and stands on c5 throughout.                 *)
(***************************************************************************)
SerialPrograms ==
  {t \in [0 .. 2 -> {{p1}, {p2}, {p1, p2}, {p2, p3}, {p3}}] :
     t[0] \in {{p1}, {p1, p2}}}

SerialExperiments ==
  {e \in
    {[Widened(Plain(3, t, h), p2, a, b) EXCEPT
        !.yset = y, !.keep = IF y = {} THEN {} ELSE {p2}, !.liveness = lv,
        !.firstUseInit = fui] :
       t \in SerialPrograms, h \in {Place(c5), Rebuilt(Place(c5))},
       a \in 0 .. 2, b \in 0 .. 3,
       y \in {{}, {p3}}, lv \in BOOLEAN, fui \in BOOLEAN} :
    ExperimentOK(e)}
  \cup {[Plain(0, [j \in {} |-> {}], Place(c5)) EXCEPT !.yset = {p3}]}

(***************************************************************************)
(* Shared merge windows: batches of routed and adjacent steps, early       *)
(* births, refusals half-way, demotion to the serial path.  p4 stands on   *)
(* c4 or in the place of p1.                                               *)
(***************************************************************************)
WindowPrograms ==
  {t \in [0 .. 2 -> {{p1}, {p2}, {p3}, {p4}, {p1, p2}, {p3, p4}}] :
     t[0] \in {{p1}, {p1, p2}}}

\* The steps on two patches are direct seams, or routed.
Pairs(t) == {j \in DOMAIN t : t[j] \in {{p1, p2}, {p3, p4}}}

WindowExperiments ==
  {e \in
    {Seams([Widened(Plain(3, t, h), p4, a, 2) EXCEPT
              !.yset = y, !.keep = {p2}, !.liveness = lv, !.firstUseInit = lv,
              !.parallel = TRUE], S, {}) :
       t \in WindowPrograms, h \in {Place(c4), Place(c1)}, a \in 0 .. 2,
       y \in {{}, {p4}}, lv \in BOOLEAN, S \in SUBSET (0 .. 2)} :
    ExperimentOK(e) /\ e.adjacent \in {{}, Pairs(e.targets)}}
  \cup \* a seam of p1, which stands the wrong way round, beside routed steps
  {[Seams([Plain(3, t, Place(c4)) EXCEPT !.parallel = TRUE], Pairs(t), {})
      EXCEPT !.vertical = {p1}] : t \in WindowPrograms}

\* A batch whose first step is a direct seam of a patch that stands the wrong
\* way round.
UnlawfulExperiments ==
  {Seams([Plain(2, t, Place(c4)) EXCEPT !.parallel = par], {0}, {p1}) :
     t \in {f \in [0 .. 1 -> {{p1, p2}, {p3, p4}}] : f[0] = {p1, p2}},
     par \in BOOLEAN}

(***************************************************************************)
(* Rotations: planned ones, repairs of blocked routes and of unlawful      *)
(* seams, planned snakes, pins, with couplers registered before and after. *)
(***************************************************************************)
RotationPrograms ==
  {t \in [0 .. 2 -> {{p1}, {p1, p2}, {p2, p3}}] : t[0] = {p1, p2}}

\* The patches that must stand vertically for steps 1 and 2; p3, when it is
\* a Y patch, cannot.
Demands == {d \in [0 .. 2 -> {{}, {p1}, {p1, p2}, {p3}}] :
              d[0] = {} /\ d[1] \in {{}, {p1}} /\ d[2] # {p1}}

\* The targets of step j stand as d says, around a free corridor cell or, when
\* p3 is not a target, around the cell of p3; a step on p1 alone can be routed
\* either way.
Demanded(e, d) ==
  [e EXCEPT !.cands = [j \in DOMAIN e.cands |->
     {[cells |-> {c}, vertical |-> d[j] \cap e.targets[j]] :
        c \in {c4} \cup (IF p3 \in e.targets[j] THEN {} ELSE {c3})}
     \cup (IF e.targets[j] = {p1}
           THEN {[cells |-> {c4}, vertical |-> V] : V \in {{}, {p1}}}
           ELSE {})]]

\* Step 2 may be a planned snake, or the pairs p1, p2 direct seams.
Shapes(e, d) ==
  LET S == {j \in 0 .. 2 : e.targets[j] = {p1, p2}}
  IN  {e, [e EXCEPT !.snake = {2}],
       [e EXCEPT !.adjacent = S,
                 !.cands = [j \in 0 .. 2 |-> IF j \in S
                              THEN {[cells |-> {}, vertical |-> d[j] \cap e.targets[j]]}
                              ELSE e.cands[j]]]}

Modes == {[lv |-> FALSE, fui |-> FALSE, par |-> FALSE],
          [lv |-> TRUE, fui |-> TRUE, par |-> FALSE],
          [lv |-> FALSE, fui |-> TRUE, par |-> TRUE]}

RotationExperiments ==
  UNION {Shapes([Demanded(Plain(3, t, Place(c5)), d) EXCEPT
                   !.vertical = V, !.autoRotate = a, !.yset = y,
                   !.liveness = m.lv, !.firstUseInit = m.fui,
                   !.parallel = m.par], d) :
           t \in RotationPrograms, d \in Demands, V \in {{}, {p1}}, a \in BOOLEAN,
           m \in Modes, y \in {{}, {p3}}}

AllExperiments == SerialExperiments \cup WindowExperiments \cup RotationExperiments
=============================================================================
