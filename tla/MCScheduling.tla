---------------------------- MODULE MCScheduling ----------------------------
(* Short programs over an alphabet of joint measurements, gadgets and fixed *)
(* single-qubit operations that commute and anticommute in every way.       *)
EXTENDS Scheduling

CONSTANTS q1, q2, q3

Op(k, p) == [kind |-> k, paulis |-> p]
One(q, x)        == [r \in {q} |-> x]
Two(q, x, r, y)  == [t \in {q, r} |-> IF t = q THEN x ELSE y]

Alphabet ==
  {Op("m", Two(q1, "X", q2, "X")), Op("m", Two(q1, "Z", q2, "Z")),
   Op("m", Two(q2, "Z", q3, "X")), Op("s", One(q3, "Z")),
   Op("m", One(q1, "Z")), Op("m", One(q3, "X"))}

Programs(n, A) == [0 .. n - 1 -> A]

\* All programs of four operations; of five, those on a smaller alphabet.
MCCircuits ==
  Programs(4, Alphabet) \cup
  Programs(5, {Op("m", Two(q1, "X", q2, "X")), Op("m", Two(q2, "Z", q3, "X")),
               Op("s", One(q3, "Z")), Op("m", One(q1, "Z"))})
=============================================================================
