------------------------------- MODULE Paulis -------------------------------
(***************************************************************************)
(* Signed Pauli products as circls/interop/ir computes them.  The letters  *)
(* of a product are a function from the qubits it acts on to {"X", "Y",    *)
(* "Z"}; a PhasedPauli adds the factor i^phase, a PauliOp a kind ("s" for  *)
(* a pi/4 rotation, "m" for a measurement) and a sign.                     *)
(***************************************************************************)
EXTENDS Integers, Sequences, FiniteSets, FiniteSetsExt, SequencesExt

Letters == {"X", "Y", "Z"}

Op(kind, paulis, sign) == [kind |-> kind, paulis |-> paulis, sign |-> sign]

Weight(op) == Cardinality(DOMAIN op.paulis)

-----------------------------------------------------------------------------
(* PhasedPauli.                                                             *)

\* The qubits on which two products have different letters.
Differ(p, r) == {q \in DOMAIN p \cap DOMAIN r : p[q] # r[q]}

Commute(p, r) == Cardinality(Differ(p, r)) % 2 = 0

\* XY = iZ, YZ = iX, ZX = iY; in the other order the factor is -i.
Cyclic == {<<"X", "Y">>, <<"Y", "Z">>, <<"Z", "X">>}

Turns(p, r) ==
  LET forth == {q \in Differ(p, r) : <<p[q], r[q]>> \in Cyclic}
  IN  Cardinality(forth) + 3 * Cardinality(Differ(p, r) \ forth)

Product(p, r) ==
  [q \in (DOMAIN p \ DOMAIN r) \cup (DOMAIN r \ DOMAIN p) \cup Differ(p, r) |->
     CASE q \notin DOMAIN r -> p[q]
       [] q \notin DOMAIN p -> r[q]
       [] OTHER -> CHOOSE l \in Letters : l \notin {p[q], r[q]}]

Mul(a, b) == [phase |-> (a.phase + b.phase + Turns(a.paulis, b.paulis)) % 4,
              paulis |-> Product(a.paulis, b.paulis)]

Phased(op) == [phase |-> IF op.sign > 0 THEN 0 ELSE 2, paulis |-> op.paulis]

\* to_sign: an axis must not have an imaginary phase.
Hermitian(a) == a.phase \in {0, 2}

ToOp(kind, a) == Op(kind, a.paulis, IF a.phase = 0 THEN 1 ELSE -1)

-----------------------------------------------------------------------------
(* The rules of the Y-free sweep.  Masks are sets of qubits: Z on each.     *)

ZMask(mask) == [phase |-> 0, paulis |-> [q \in mask |-> "Z"]]

\* i * mask * a.
Conjugated(mask, a) == Mul([ZMask(mask) EXCEPT !.phase = 1], a)

CommutePi4Past(mask, a) ==
  IF Commute(ZMask(mask).paulis, a.paulis) THEN a ELSE Conjugated(mask, a)

Ys(a) == {q \in DOMAIN a.paulis : a.paulis[q] = "Y"}

\* eliminate_y: one mask for an odd number of Ys, two for an even number.
Masks(ys) ==
  IF ys = {} THEN <<>>
  ELSE IF Cardinality(ys) % 2 = 1 THEN <<ys>>
  ELSE <<{Min(ys)}, ys \ {Min(ys)}>>

YFree(a) == FoldLeft(LAMBDA b, mask : Conjugated(mask, b), a, Masks(Ys(a)))

\* The pending masks act before a, the last of them right before it.
Folded(a, pending) ==
  FoldLeft(LAMBDA b, mask : CommutePi4Past(mask, b), a, Reverse(pending))

-----------------------------------------------------------------------------
(* Sums over GF(2) of the sets f[i], i in I.                                *)

XorOf(f, I) ==
  {e \in UNION {f[i] : i \in I} : Cardinality({i \in I : e \in f[i]}) % 2 = 1}
=============================================================================
