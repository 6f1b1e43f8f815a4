--------------------------- MODULE LatticeSurgery ---------------------------
(***************************************************************************)
(* Lattice-surgery experiments driven through the tracker, next to the     *)
(* state the circuit really prepares.  Patches are initialised, merged and *)
(* split along seams, read out and retired in any order the builder's      *)
(* calls allow.  truth is the stabilizer state of the qubits in use, each  *)
(* sign a sum of coins; outcome gives every record as a sum of coins.  A   *)
(* positive coin is a random measurement result, named by its record; a    *)
(* negative one is the logical value a patch was prepared in, which no     *)
(* syndrome may depend on.                                                 *)
(***************************************************************************)
EXTENDS SyndromeTracker

CONSTANTS Patches,
          Data,        \* the qubits of a patch
          Checks,      \* the sequence of its stabilizers
          LogicalX, LogicalZ,
          BirthChecks, \* the checks that pin every operator of a patch being
                       \* born; empty for a patch that is only prepared
          Seams,       \* [on, bus, basis, checks]: a merge
          Prepared,    \* the bases a patch may be prepared in
          Bases,       \* the readout bases, from {"X", "Z"}
          Rounds,      \* rounds per syndrome-extraction call
          ReadSets,    \* the sets of patches one readout call may measure
          Together,    \* whether a call may read a corridor with its patches
          MaxRecords   \* bound on the records of a run

VARIABLES status,      \* per patch: "absent"; "fresh" or "unborn" until its
                       \* first round; then "alive", or "pinned" before it is
                       \* declared; "read"; "retired"
          seam,        \* the open seam, or NoSeam
          merged,      \* the open seam has been measured
          readouts,    \* how many calls have read patches
          truth, outcome

vars == <<trackerVars, status, seam, merged, readouts, truth, outcome>>

NoSeam == [on |-> {}, bus |-> {}, basis |-> "Z", checks |-> <<>>]

\* One single-qubit Pauli per qubit of Q, as the reset and readout gates act.
Basis(B, Q) ==
  LET qs == Ordered(Q)
  IN  [i \in Indices(qs) |-> IF B = "X" THEN X(qs[i]) ELSE Z(qs[i])]

InUse == {p \in Patches : status[p] \in {"fresh", "alive", "unborn", "pinned"}}
Born == {p \in Patches : status[p] \in {"unborn", "pinned"}}
Registrable(p) == /\ status[p] = "absent"
                  /\ \A q \in Patches : q < p => status[q] # "absent"

(***************************************************************************)
(* The physical state: what stim's simulation of the emitted circuit does. *)
(***************************************************************************)
Signs(rows, I) == Sum([i \in I |-> rows[i].s], I)

Observe(t, P, rec) ==
  LET anti  == {j \in Indices(t.rows) : Anticommute(P, t.rows[j].p)}
      pivot == Min(anti)
  IN  IF anti = {}
      THEN [t EXCEPT !.out = Append(@, Signs(t.rows, Coefficients(P, Paulis(t.rows))))]
      ELSE [rows |-> [j \in Indices(t.rows) |->
                        IF j = pivot THEN [p |-> P, s |-> {rec}]
                        ELSE IF j \in anti
                        THEN [p |-> Xor(t.rows[j].p, t.rows[pivot].p),
                              s |-> Xor(t.rows[j].s, t.rows[pivot].s)]
                        ELSE t.rows[j]],
            out  |-> Append(t.out, {rec})]

Observed(ps) ==
  FoldLeftDomain(LAMBDA t, i : Observe(t, ps[i], total + i),
                 [rows |-> truth, out |-> outcome], ps)

ObservedRounds(ps, k) ==
  LET t == Observed(ps)
      n == Len(ps)
  IN  [t EXCEPT !.out = @ \o [j \in 1 .. (k - 1) * n |->
                                @[total + 1 + ((j - 1) % n)]]]

\* The measured qubits leave the state.
Discard(t, ps) ==
  LET cols == ColumnsOf(UNION {QubitsOf(ps[i]) : i \in Indices(ps)})
      rows == [j \in Indices(t.rows) |->
                 LET hit == {i \in Indices(ps) : Min(ps[i]) \in t.rows[j].p}
                 IN  [p |-> t.rows[j].p \ cols,
                      s |-> Xor(t.rows[j].s, Sum([i \in hit |-> t.out[total + i]], hit))]]
  IN  Keep(rows, Pivots(Paulis(rows)))

(***************************************************************************)
(* The experiment.                                                         *)
(***************************************************************************)
Going == fault = "none"

InitializePatch(p, B) ==
  LET ps      == Basis(B, Data[p])
      logical == IF B = "X" THEN LogicalZ[p] ELSE LogicalX[p]
      coin    == -1 - Cardinality({q \in Patches : status[q] # "absent"})
  IN  /\ Going /\ Registrable(p)
      /\ ProcessInitialization(ps, 1)
      /\ status' = [status EXCEPT ![p] = "fresh"]
      /\ truth' = truth \o [i \in Indices(ps) |->
                              [p |-> ps[i],
                               s |-> IF Anticommute(ps[i], logical) THEN {coin} ELSE {}]]
      /\ UNCHANGED <<seam, merged, readouts, outcome>>

\* A patch whose logical is born from measurements: registered without a
\* budget, measured until every operator is pinned, then declared.
BeginBirth(p) ==
  LET ps == Basis("X", Data[p])
  IN  /\ Going /\ Registrable(p) /\ BirthChecks[p] # <<>>
      /\ ProcessInitialization(ps, 0)
      /\ status' = [status EXCEPT ![p] = "unborn"]
      /\ truth' = truth \o [i \in Indices(ps) |-> [p |-> ps[i], s |-> {}]]
      /\ UNCHANGED <<seam, merged, readouts, outcome>>

FinishBirth(p) ==
  /\ Going /\ status[p] = "pinned"
  /\ DeclareLogical(LogicalZ[p])
  /\ status' = [status EXCEPT ![p] = "alive"]
  /\ UNCHANGED <<seam, merged, readouts, truth, outcome>>

OpenSeam(s) ==
  LET ps == Basis(s.basis, s.bus)
  IN  /\ Going /\ seam = NoSeam /\ \A p \in s.on : status[p] = "alive"
      /\ ProcessInitialization(ps, 0)
      /\ seam' = s /\ merged' = FALSE
      /\ truth' = truth \o [i \in Indices(ps) |-> [p |-> ps[i], s |-> {}]]
      /\ UNCHANGED <<status, readouts, outcome>>

\* Every check of the open seam and of the patches in use, in the order of
\* their ancillas' indices.
Active ==
  LET patches == Ordered(InUse)
      own == FlattenSeq([i \in Indices(patches) |->
               IF patches[i] \in Born THEN BirthChecks[patches[i]] ELSE Checks[patches[i]]])
  IN  own \o seam.checks

Extract(k) ==
  LET t == ObservedRounds(Active, k)
  IN  /\ Going /\ Active # <<>>
      /\ total + k * Len(Active) <= MaxRecords
      /\ ApplySyndromeExtraction(Active, k)
      /\ merged' = (seam # NoSeam)
      /\ status' = [p \in Patches |-> IF p \in Born THEN "pinned"
                                     ELSE IF p \in InUse THEN "alive" ELSE status[p]]
      /\ truth' = t.rows /\ outcome' = t.out
      /\ UNCHANGED <<seam, readouts>>

Split ==
  LET ps == Basis(seam.basis, seam.bus)
      t  == Observed(ps)
  IN  /\ Going /\ seam # NoSeam /\ merged
      /\ total + Len(ps) <= MaxRecords
      /\ ProcessDataMeasurement(ps, FALSE)
      /\ seam' = NoSeam /\ merged' = FALSE
      /\ truth' = Discard(t, ps) /\ outcome' = t.out
      /\ UNCHANGED <<status, readouts>>

\* A readout call: the layer of X measurements, then the layer of Z.
Layer(S, B, bus) ==
  LET In(basis) == UNION {Data[p] : p \in {x \in S : B[x] = basis}}
                     \cup (IF seam.basis = basis THEN bus ELSE {})
  IN  Basis("X", In("X")) \o Basis("Z", In("Z"))

\* Patches on the open seam are read in the call that reads its corridor.
ReadPatches(S, B) ==
  LET closing == S \cap seam.on # {}
      ps == Layer(S, B, IF closing THEN seam.bus ELSE {})
      t  == Observed(ps)
  IN  /\ Going /\ S # {}
      /\ \A p \in S : status[p] = "alive"
      /\ closing => merged /\ Together
      /\ total + Len(ps) <= MaxRecords
      /\ ProcessDataMeasurement(ps, TRUE)
      /\ status' = [p \in Patches |-> IF p \in S THEN "read" ELSE status[p]]
      /\ truth' = Discard(t, ps) /\ outcome' = t.out
      /\ readouts' = readouts + 1
      /\ seam' = IF closing THEN NoSeam ELSE seam
      /\ merged' = (merged /\ ~closing)

RetirePatch(p) ==
  /\ Going /\ status[p] = "read"
  /\ RetireQubits(Data[p])
  /\ status' = [status EXCEPT ![p] = "retired"]
  /\ UNCHANGED <<seam, merged, readouts, truth, outcome>>

Init ==
  /\ TrackerInit
  /\ status = [p \in Patches |-> "absent"]
  /\ seam = NoSeam /\ merged = FALSE
  /\ readouts = 0
  /\ truth = <<>> /\ outcome = <<>>

Next ==
  \/ \E p \in Patches : \E B \in Prepared[p] : InitializePatch(p, B)
  \/ \E p \in Patches : BeginBirth(p) \/ FinishBirth(p)
  \/ \E s \in Seams : OpenSeam(s)
  \/ \E k \in Rounds : Extract(k)
  \/ Split
  \/ \E S \in ReadSets : \E B \in [S -> Bases] : ReadPatches(S, B)
  \/ \E p \in Patches : RetirePatch(p)

Spec == Init /\ [][Next]_vars

(***************************************************************************)
(* Properties.                                                             *)
(***************************************************************************)
Tableau == stabs \o logs
Finished == Going /\ \A p \in Patches : status[p] \in {"read", "retired"}
Parity(rs) == Sum(outcome, rs)
Coins(p) == Signs(truth, Coefficients(p, Paulis(truth)))

\* No legal order of merges, splits, readouts, births and retirements ends in
\* one of the tracker's errors: the logical budget meets standing plus
\* absorbed after every extraction, no check is left without a
\* decomposition, no retired qubit keeps support.
NoFault == fault = "none"

\* Every emitted DETECTOR has a parity that neither a random outcome nor the
\* prepared logical values can flip, however often rows were multiplied,
\* replaced, absorbed and split since its records were taken.
DetectorsDeterministic ==
  \A d \in Indices(detectors) : Parity(detectors[d]) = {}

\* Every emitted OBSERVABLE_INCLUDE is a function of the prepared logical
\* values alone: no random outcome survives in its parity.
ObservablesDetermined ==
  \A o \in Indices(observables) : \A c \in Parity(observables[o]) : c < 0

\* The tableau spans exactly the stabilizer group of the state the emitted
\* circuit prepares, and while every patch stands its rows, standing logicals
\* included, are independent.  (Once a patch is read before a partner of a
\* joint measurement, the re-pricing of the budget may leave a duplicate.)
TableauIsState ==
  Going => /\ SameSpan(Paulis(Tableau), Paulis(truth))
           /\ readouts = 0 => Rank(Paulis(Tableau)) = Len(Tableau)

\* The records of every watched row tell the sign of its operator in that
\* state, up to the prepared logical values.
RowsTrue ==
  \A w \in ToSet(Tableau) : Going /\ UNMEASURED \notin w.r =>
     /\ ~Independent(w.p, Paulis(truth))
     /\ \A c \in Xor(Parity(w.r), Coins(w.p)) : c < 0

\* When every patch has been read out, nothing is owed: no budget, no
\* standing logical, no absorbed relation and no stabilizer is left over.
BooksClose ==
  Finished => /\ expected = 0 /\ logs = <<>>
              /\ absorbed = <<>> /\ stabs = <<>>

\* When all patches have been read out by one call, the emitted parities are
\* a complete set: every parity of records that does not depend on a random
\* outcome is a sum of them.
NothingMissed ==
  Finished /\ readouts = 1 =>
    Rank(detectors \o observables)
      = total - Rank([r \in Indices(outcome) |-> {c \in outcome[r] : c > 0}])
=============================================================================
