--------------------------- MODULE RotatedLayouts ---------------------------
(***************************************************************************)
(* The geometries a rotated surface-code patch of distance D goes through  *)
(* in Litinski's patch rotation (litinski_layouts.py), grown towards       *)
(* smaller y from the layout with X on the sides.  Data qubits have odd    *)
(* coordinates, ancillas even ones; a check is [type, on, at] with its     *)
(* data qubits and its ancilla.  The layouts of the other directions are   *)
(* reflections of these.                                                   *)
(***************************************************************************)
EXTENDS Integers, FiniteSets

CONSTANT D                                    \* the distance of a patch

ASSUME DAssumption == D \in Nat /\ D >= 3 /\ D % 2 = 1

DataSite(c) == c[1] % 2 = 1

\* The type of the plaquette with its ancilla at c.
Ptype(c) == IF ((c[1] + c[2]) \div 2) % 2 = 1 THEN "X" ELSE "Z"

\* The D columns and the given number of rows of data qubits above y0.
DataOf(y0, rows) ==
  {<<2 * i + 1, y0 + 2 * j + 1>> : i \in 0 .. D - 1, j \in 0 .. rows - 1}

Plaquette(c, data) ==
  [type |-> Ptype(c), at |-> c,
   on   |-> data \cap ({c[1] - 1, c[1] + 1} \X {c[2] - 1, c[2] + 1})]

(***************************************************************************)
(* A rectangle: every bulk plaquette, and along each edge the plaquettes   *)
(* whose type is the one edge gives for their place ("none" for no lobe).  *)
(* cells are the coordinates of the data qubits and the ancillas.          *)
(***************************************************************************)
Rim(y0, rows) ==
  {<<x, y0 + 2 * j>> : x \in {0, 2 * D}, j \in 1 .. rows - 1}
    \cup {<<2 * i, y>> : i \in 1 .. D - 1, y \in {y0, y0 + 2 * rows}}

Rect(y0, rows, edge) ==
  LET data  == DataOf(y0, rows)
      bulk  == {<<2 * i, y0 + 2 * j>> : i \in 1 .. D - 1, j \in 1 .. rows - 1}
      lobes == {c \in Rim(y0, rows) : Ptype(c) = edge[c]}
  IN  [data   |-> data,
       cells  |-> data \cup bulk \cup lobes,
       checks |-> {Plaquette(c, data) : c \in bulk \cup lobes}]

OnSide(c) == c[1] \in {0, 2 * D}

\* rect_boundary: one type for the sides, one for the ends.
RectBoundary(y0, rows, sides, ends) ==
  Rect(y0, rows, [c \in Rim(y0, rows) |-> IF OnSide(c) THEN sides ELSE ends])

Reach == 2 * (D - 1)                          \* dy: how far the bar reaches out

\* The layouts of a patch at home in y0, in the order of the protocol.  The
\* grown bar keeps the checks of the start except on the growth edge; on the
\* right side its type changes where the home tile begins.
Start(y0) == RectBoundary(y0, D, "X", "Z")

GrownBar(y0, left) ==
  Rect(y0 - Reach, 2 * D - 1,
       [c \in Rim(y0 - Reach, 2 * D - 1) |->
          CASE c[1] = 0     -> left
            [] c[1] = 2 * D -> IF c[2] < y0 THEN "Z" ELSE IF c[2] > y0 THEN "X" ELSE "none"
            [] OTHER        -> IF c[2] < y0 THEN "X" ELSE "Z"])

Grown(y0)  == GrownBar(y0, "X")
Moved(y0)  == GrownBar(y0, "Z")
Shrunk(y0) == RectBoundary(y0, D, "Z", "X")   \* rotated; at home or displaced
Far(y0)    == Shrunk(y0 - Reach)
Bar2(y0)   == RectBoundary(y0 - Reach, 2 * D - 1, "Z", "X")
=============================================================================
