-------------------------- MODULE StabilizerStates --------------------------
(***************************************************************************)
(* What a sequence of Pauli operations does, computed from the stabilizer  *)
(* group of the state and without the rules of the compiler.  An element   *)
(* of the group has the qubits x and z its X and Z parts act on (Y = iXZ   *)
(* where both do) and a sign: a set of coins, each a random measurement    *)
(* result, with 0 standing for a minus.  Results are such sets, too.       *)
(***************************************************************************)
EXTENDS Paulis

Plus == {}
Minus == {0}

Element(paulis, s) ==
  [x |-> {q \in DOMAIN paulis : paulis[q] \in {"X", "Y"}},
   z |-> {q \in DOMAIN paulis : paulis[q] \in {"Z", "Y"}},
   s |-> s]

Signed(op) == Element(op.paulis, IF op.sign = 1 THEN Plus ELSE Minus)

Opposed(g, h) ==
  (Cardinality(g.x \cap h.z) + Cardinality(g.z \cap h.x)) % 2 = 1

\* i^turns times the product g h is i^(the exponent below) times an element.
Times(g, h, turns) ==
  LET x == SymDiff(g.x, h.x)
      z == SymDiff(g.z, h.z)
      k == turns + Cardinality(g.x \cap g.z) + Cardinality(h.x \cap h.z)
             + 2 * Cardinality(g.z \cap h.x) - Cardinality(x \cap z)
  IN  [x |-> x, z |-> z,
       s |-> XorOf(<<g.s, h.s, IF k % 4 = 2 THEN Minus ELSE Plus>>, 1 .. 3)]

\* |0...0>.
ZeroState(n) == {[x |-> {}, z |-> S, s |-> Plus] : S \in SUBSET (0 .. n - 1)}

\* exp(-i pi/4 a) takes g to -i a g where they anticommute.
Rotated(group, a) == {IF Opposed(g, a) THEN Times(a, g, 3) ELSE g : g \in group}

Same(g, h) == g.x = h.x /\ g.z = h.z

\* The result of measuring a, and the state after it.
Result(group, a, coin) ==
  IF \E g \in group : Same(g, a)
  THEN SymDiff((CHOOSE g \in group : Same(g, a)).s, a.s) ELSE {coin}

Projected(group, a, coin) ==
  IF \E g \in group : Same(g, a) THEN group
  ELSE LET kept == {g \in group : ~Opposed(g, a)}
           new  == [a EXCEPT !.s = SymDiff(@, {coin})]
       IN  kept \cup {Times(g, new, 0) : g \in kept}

\* A qubit is added in the state |Y>, and dropped when measured out.
WithY(group, q) ==
  group \cup {[g EXCEPT !.x = @ \cup {q}, !.z = @ \cup {q}] : g \in group}

Without(group, q) == {g \in group : q \notin g.x \cup g.z}

\* The results of the measurements of a stream that starts from |0...0>.
StreamBits(n, stream) ==
  FoldLeft(
    LAMBDA st, op :
      LET a    == Signed(op)
          coin == Len(st.bits) + 1
      IN  IF op.kind = "s" THEN [st EXCEPT !.group = Rotated(@, a)]
          ELSE [group |-> Projected(st.group, a, coin),
                bits  |-> Append(st.bits, Result(st.group, a, coin))],
    [group |-> ZeroState(n), bits |-> <<>>], stream).bits

(***************************************************************************)
(* The joint distribution of the results is uniform on an affine space,    *)
(* which its parities determine: the sets of results whose sum no coin     *)
(* enters, each with that sum.                                             *)
(***************************************************************************)
Distribution(bits) ==
  {<<I, XorOf(bits, I)>> : I \in {J \in SUBSET DOMAIN bits : XorOf(bits, J) \subseteq Minus}}
=============================================================================
