----------------------------- MODULE MCRegistry -----------------------------
(***************************************************************************)
(* Instances of RegistryCalls: a column of distance-D patches a tile of    *)
(* 2 * (D + 1) apart, P, a free tile and Q, with a free tile below P.      *)
(* Couplers are straight: the merged rectangle over the rows of a corridor *)
(* and its targets, less the checks the targets keep.                      *)
(***************************************************************************)
EXTENDS RegistryInvariants

CONSTANT Kinds                          \* of steps

Pitch == 2 * (D + 1)
MCHome == [p \in {"P", "Q"} |-> IF p = "P" THEN Pitch ELSE 3 * Pitch]

MCCoupler == <<"ppm_1", "ppm_2", "ppm_3", "ppm_4">>

GeometryOf(p, T) == IF p \in T THEN Shrunk(MCHome[p]) ELSE Start(MCHome[p])

(***************************************************************************)
(* The rows a step's merged rectangle spans: from P across the free tile   *)
(* (near) or also across Q's tile once Q is gone (far), or up to Q.        *)
(***************************************************************************)
Bottom(targets) == IF "P" \in targets THEN Pitch ELSE 2 * Pitch
Rows(targets, far) == IF far \/ targets = {"P", "Q"} THEN 3 * D + 2 ELSE 2 * D + 1

CouplerGeometry(targets, T, far) ==
  LET sides  == IF T = {} THEN "X" ELSE "Z"
      ends   == IF T = {} THEN "Z" ELSE "X"
      merged == RectBoundary(Bottom(targets), Rows(targets, far), sides, ends)
      theirs == UNION {GeometryOf(p, T).checks : p \in targets}
      data   == merged.data \ UNION {GeometryOf(p, T).data : p \in targets}
      checks == merged.checks \ theirs
      cells  == UNION {GeometryOf(p, T).cells : p \in targets}
  IN  [data |-> data, checks |-> checks,
       cells |-> data \cup ({k.at : k \in checks} \ cells),
       pauses |-> {k.at : k \in theirs \ merged.checks}]

Step(targets, fits, far) ==
  [targets |-> targets,
   route |-> [T \in fits |-> CouplerGeometry(Image(targets), T, far)]]

\* A measurement on P or on Q alone, that any orientation or only the turned
\* one can route, the joint ones, and P's over the cells Q leaves.
MCKind ==
  [p    |-> Step(<<"P">>, {{}, {"P"}}, FALSE),
   pT   |-> Step(<<"P">>, {{"P"}}, FALSE),
   q    |-> Step(<<"Q">>, {{}, {"Q"}}, FALSE),
   qT   |-> Step(<<"Q">>, {{"Q"}}, FALSE),
   pq   |-> Step(<<"P", "Q">>, {{}}, FALSE),
   pqT  |-> Step(<<"P", "Q">>, {{"P", "Q"}}, FALSE),
   pFar |-> Step(<<"P">>, {{}, {"P"}}, TRUE)]

Uses(k, p) == p \in Image(MCKind[k].targets)

(***************************************************************************)
(* The programs whose steps can be routed in order: P reaches far only     *)
(* over a retired Q, nothing needs a patch turned back, and both have been *)
(* turned when a joint step needs it.                                      *)
(***************************************************************************)
Routable(ks, keep) ==
  \A i, j \in 1 .. NSteps :
    /\ ks[i] = "pFar" => /\ "Q" \notin keep
                         /\ \E m \in 1 .. i - 1 : Uses(ks[m], "Q")
                         /\ \A m \in i .. NSteps : ~ Uses(ks[m], "Q")
    /\ ks[i] = "pq" /\ j < i => ks[j] \notin {"pT", "qT", "pqT"}
    /\ ks[i] = "pqT" =>
         {"pT", "qT"} \subseteq {ks[m] : m \in 1 .. i - 1}

(***************************************************************************)
(* Q's bar over a corridor that waits for a later step and is removed: Q's *)
(* step that needs the rotation comes first, and the later one is Q's, or  *)
(* is P's, P turns before it as well, and Q is not retired.  The later one *)
(* was routed up front: its patches are there from the first step on.      *)
(***************************************************************************)
BarOverCoupler(ks, deferred, keep) ==
  \E i, j \in 1 .. NSteps :
    /\ i < j /\ ks[i] = "qT"
    /\ \/ ks[j] \in {"q", "pq"} /\ (deferred => Uses(ks[1], "Q"))
       \/ /\ ks[j] = "p" /\ "Q" \in keep /\ (deferred => Uses(ks[1], "P"))
          /\ \E m \in 1 .. j - 1 : ks[m] = "pT"

Lists(keep) == {ks \in [1 .. NSteps -> Kinds] : Routable(ks, keep)}

Program(ks, d, k) ==
  [steps |-> [i \in 1 .. NSteps |-> MCKind[ks[i]]], deferred |-> d, keep |-> k]

\* No output, one, or nothing that is retired early (liveness off).
Keeps == {{}, {"P"}, {"P", "Q"}}

MCPrograms ==
  UNION {{Program(ks, d, k) : ks \in {l \in Lists(k) : ~ BarOverCoupler(l, d, k)}} :
           d \in BOOLEAN, k \in Keeps}

\* With first_use_init and liveness both off.
BarPrograms ==
  LET k == {"P", "Q"}
  IN  {Program(ks, FALSE, k) : ks \in {l \in Lists(k) : BarOverCoupler(l, FALSE, k)}}
=============================================================================
