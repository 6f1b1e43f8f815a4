----------------------------- MODULE MCSurgery -----------------------------
(***************************************************************************)
(* Instances of LatticeSurgery.  A patch is the two-qubit repetition code: *)
(* check Z Z, logicals X X and Z on the first qubit.  Neighbouring patches *)
(* can be merged along a pair of logicals from Kinds, across a corridor of *)
(* Width qubits: one, or two that every seam check holds together, which   *)
(* leaves their product a direction no check watches.                      *)
(***************************************************************************)
EXTENDS LatticeSurgery

CONSTANTS NP, Width, Kinds

MCPatches == 0 .. NP - 1
MCData == [p \in MCPatches |-> {2 * p, 2 * p + 1}]
MCChecks == [p \in MCPatches |-> <<Xor(Z(2 * p), Z(2 * p + 1))>>]
MCLogicalX == [p \in MCPatches |-> Xor(X(2 * p), X(2 * p + 1))]
MCLogicalZ == [p \in MCPatches |-> Z(2 * p)]

NoBirth == [p \in MCPatches |-> <<>>]
BornLast == [p \in MCPatches |->
  IF p = NP - 1 THEN <<Xor(Z(2 * p), Z(2 * p + 1)), Z(2 * p + 1)>> ELSE <<>>]

Corridor == {2 * NP + i : i \in 0 .. Width - 1}

\* The seam checks of a joint measurement of the operators l and r.
SeamChecks(l, r) ==
  LET ribbon == UNION {Z(q) : q \in Corridor}
  IN  <<Xor(l, ribbon), Xor(ribbon, r)>>

Right(p, B) == IF B = "X" THEN MCLogicalX[p] ELSE Z(2 * p + 1)
Left(p, B) == IF B = "X" THEN MCLogicalX[p] ELSE Z(2 * p)

MCSeams ==
  {[on |-> {p, p + 1}, bus |-> Corridor, basis |-> "X",
    checks |-> SeamChecks(Right(p, k[1]), Left(p + 1, k[2]))] :
      p \in 0 .. NP - 2, k \in Kinds}

Either == [p \in MCPatches |-> {"X", "Z"}]
Alike == {<<"Z", "Z">>, <<"X", "X">>}
AllTogether == {MCPatches}
AnySet == SUBSET MCPatches \ {{}}
=============================================================================
