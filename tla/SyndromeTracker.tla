-------------------------- MODULE SyndromeTracker --------------------------
(***************************************************************************)
(* lightstim/ir/tracker.py: the tableau from which every DETECTOR and      *)
(* OBSERVABLE_INCLUDE of an experiment is derived.  A row is a Pauli p     *)
(* whose sign is the parity of the measurement records r; the sentinel     *)
(* record marks a direction nobody watches.  Standing logicals are rows    *)
(* too; logical degrees of freedom that a merge has folded into the        *)
(* stabilizers are booked in absorbed; expected is the logical budget that *)
(* standing plus absorbed must meet after every syndrome-extraction call.  *)
(*                                                                         *)
(* Records are numbered from 1.  A parity (the arguments of an emitted     *)
(* instruction) is the set of its records; coordinates, post-selection     *)
(* and flag folding are not represented.  Each handler is an operator on   *)
(* the tracker's state, so that the experiments can call it as one step.   *)
(***************************************************************************)
EXTENDS GF2

VARIABLES stabs,      \* sequence of rows: the stabilizer tableau
          logs,       \* sequence of rows: the standing logicals
          absorbed,   \* sequence of Paulis: absorbed_ops
          expected,   \* expected_num_logicals
          swlc,       \* stabilizer_with_logical_components
          labels,     \* record_tags: labels[r] is the label of record r
          detectors,  \* the emitted DETECTOR parities, in order
          observables,\* the emitted OBSERVABLE_INCLUDE parities, in order
          fault       \* "none", or the error that ended the construction

trackerVars == <<stabs, logs, absorbed, expected, swlc, labels,
                 detectors, observables, fault>>

UNMEASURED == -1

total == Len(labels)                          \* total_measurements

Indices(s) == 1 .. Len(s)
Ordered(S) == SetToSortSeq(S, LAMBDA i, j : i < j)
Paulis(rows) == [i \in Indices(rows) |-> rows[i].p]
Rows(rows, is) == [i \in Indices(is) |-> rows[is[i]]]
Keep(s, I) == Rows(s, Ordered(I))

\* _merge_records over any number of rows: the sentinel absorbs.
MergedRecords(rows, I) ==
  (Sum([i \in I |-> rows[i].r], I) \ {UNMEASURED})
    \cup (IF \E i \in I : UNMEASURED \in rows[i].r THEN {UNMEASURED} ELSE {})

Times(a, b) ==
  [p |-> Xor(a.p, b.p), r |-> MergedRecords(<<a, b>>, {1, 2})]

Tainted(rows, I) == \E i \in I : UNMEASURED \in rows[i].r
Known(rs) == rs \ {UNMEASURED}

\* records_tag: the label of a parity is the sum of its records' labels.
Label(ls, rs) == Sum(ls, Known(rs))

(***************************************************************************)
(* process_mid_measurement, steps 1 and 2.  m is the state while the       *)
(* block's measurements are processed one by one: full holds the           *)
(* stabilizer rows, then (from ns + 1) the logical rows.                   *)
(***************************************************************************)
EmptyFirst(rows) ==
  SelectSeq(rows, LAMBDA w : w.r = {}) \o SelectSeq(rows, LAMBDA w : w.r # {})

\* Mutant: a logical replaced by a measurement stays in the budget.
CaseA_StillBudgeted(m, P, rec, anti) ==
  LET pivot == Min(anti)
      old   == m.full[pivot]
  IN  [m EXCEPT
        !.full   = [j \in Indices(m.full) |->
                      IF j = pivot THEN [p |-> P, r |-> {rec}]
                      ELSE IF j \in anti THEN Times(m.full[j], old)
                      ELSE m.full[j]],
        !.labels = Append(@, IF pivot > m.ns THEN {rec} ELSE {})]

\* Mutant: the other anticommuting rows are not multiplied by the pivot.
CaseA_PivotOnly(m, P, rec, anti) ==
  LET pivot == Min(anti)
  IN  [m EXCEPT
        !.full     = [@ EXCEPT ![pivot] = [p |-> P, r |-> {rec}]],
        !.labels   = Append(@, {}),
        !.expected = IF pivot > m.ns THEN @ - 1 ELSE @]

\* The first anticommuting row is replaced; a logical among the replaced
\* rows leaves the budget, and is banked as a credit.
CaseA(m, P, rec, anti) ==
  LET pivot   == Min(anti)
      old     == m.full[pivot]
      logical == pivot > m.ns
      outcome == \/ logical
                 \/ Label(m.labels, {r \in old.r : r <= m.base}) # {}
  IN  [m EXCEPT
        !.full     = [j \in Indices(m.full) |->
                        IF j = pivot THEN [p |-> P, r |-> {rec}]
                        ELSE IF j \in anti THEN Times(m.full[j], old)
                        ELSE m.full[j]],
        !.labels   = Append(@, IF outcome THEN {rec} ELSE {}),
        !.shadowed = @ \cup {j - m.ns : j \in {k \in anti \ {pivot} : k > m.ns}},
        !.killed   = IF logical THEN @ \cup {pivot - m.ns} ELSE @,
        !.expected = IF logical THEN @ - 1 ELSE @,
        !.credit   = IF logical THEN @ + 1 ELSE @]

\* The operator is a stabilizer row as it stands: a detector, whatever the
\* row's sentinel.
ExactRow(m, rec, j) ==
  [m EXCEPT !.labels    = Append(@, Label(m.labels, m.full[j].r)),
            !.detectors = Append(@, {rec} \cup Known(m.full[j].r))]

\* Mutant: the observable forgets the records of the earlier value.
LogicalPart_OwnRecord(m, P, i, rec, comps) ==
  [m EXCEPT
    !.swlc        = @ \cup {i},
    !.cands       = Append(@, [i |-> i, p |-> P,
                               lv |-> {c - m.ns : c \in {k \in comps : k > m.ns}}]),
    !.labels      = Append(@, {rec}),
    !.observables = Append(@, {rec})]

\* A combination with logical rows: never a detector; the parity against
\* the earlier logical value is an observable.
LogicalPart(m, P, i, rec, comps) ==
  LET rest == MergedRecords(m.full, comps)
  IN  [m EXCEPT
        !.swlc        = @ \cup {i},
        !.cands       = Append(@, [i |-> i, p |-> P,
                                   lv |-> {c - m.ns : c \in {k \in comps : k > m.ns}}]),
        !.labels      = Append(@, Xor(Label(m.labels, rest), {rec})),
        !.observables = IF Tainted(m.full, comps) THEN @
                        ELSE Append(@, Xor({rec}, rest))]

\* A combination of stabilizer rows: a detector, or an observable if its
\* records from before this block carry a logical outcome.
StabilizerPart(m, rec, comps) ==
  LET rest    == Known(MergedRecords(m.full, comps))
      checks  == Label(m.labels, {r \in rest : r <= m.base}) # {}
      parity  == Xor({rec}, rest)
      label   == Label(m.labels, rest)
      visible == ~Tainted(m.full, comps)
  IN  [m EXCEPT
        !.labels      = Append(@, IF checks THEN Xor(label, {rec}) ELSE label),
        !.detectors   = IF visible /\ ~checks THEN Append(@, parity) ELSE @,
        !.observables = IF visible /\ checks THEN Append(@, parity) ELSE @]

MeasureOne(m, ps, i) ==
  LET P     == ps[i]
      rec   == m.base + i
      anti  == {j \in Indices(m.full) : Anticommute(P, m.full[j].p)}
      equal == {j \in 1 .. m.ns : m.full[j].p = P}
  IN  IF m.fault # "none" THEN m
      ELSE IF anti # {} THEN CaseA(m, P, rec, anti)
      ELSE IF equal # {} THEN ExactRow(m, rec, Min(equal))
      ELSE IF Independent(P, Paulis(m.full))
           THEN [m EXCEPT !.fault = "IncompleteTableau"]
      ELSE LET comps == Coefficients(P, Paulis(m.full))
           IN  IF Max(comps) > m.ns
               THEN LogicalPart(m, P, i, rec, comps)
               ELSE StabilizerPart(m, rec, comps)

Measured(ps) ==
  FoldLeftDomain(LAMBDA m, i : MeasureOne(m, ps, i),
    [full |-> EmptyFirst(stabs) \o logs, ns |-> Len(stabs), nl |-> Len(logs),
     base |-> total, labels |-> labels, detectors |-> detectors,
     observables |-> observables, expected |-> expected, credit |-> 0,
     killed |-> {}, shadowed |-> {}, cands |-> <<>>, swlc |-> {},
     fault |-> fault],
    ps)

(***************************************************************************)
(* Step 3, write-back.  The measured Paulis become the stabilizers; of the *)
(* old rows, logical rows first, the ones independent of them survive.     *)
(***************************************************************************)
\* Fix C, and its preview for the promotion budget: the logical-carrying
\* measurements whose logical part, less the rows in dead, is new among
\* the ones seen before it, join absorbed if that raises its rank.
Bank(cands, dead) ==
  FoldLeft(
    LAMBDA b, c :
      LET lv == c.lv \ dead
      IN  IF lv = {} \/ ~Independent(lv, b.lvs) THEN b
          ELSE [lvs |-> Append(b.lvs, lv),
                ops |-> IF Rank(Append(b.ops, c.p)) > Len(b.ops)
                        THEN Append(b.ops, c.p) ELSE b.ops],
    [lvs |-> <<>>, ops |-> absorbed], cands)

\* One surviving row.  A records-less stabilizer row is promoted to a
\* logical while the budget has a free slot, or against a credit; otherwise
\* it is filed as an unwatched gauge row.
FileRow(w, m, j, taken) ==
  IF j > m.ns THEN [w EXCEPT !.logs = Append(@, j)]
  ELSE IF m.full[j].r # {} THEN [w EXCEPT !.old = Append(@, j)]
  ELSE IF taken + w.promoted < w.expected
  THEN [w EXCEPT !.logs = Append(@, j), !.promoted = @ + 1]
  ELSE IF w.credit > 0
  THEN [w EXCEPT !.logs = Append(@, j), !.promoted = @ + 1,
                 !.expected = @ + 1, !.credit = @ - 1]
  ELSE [w EXCEPT !.old = Append(@, j), !.gauge = @ \cup {j}]

\* The shadow purge: no gauge row keeps a pivot column of the logicals.
Purged(p, ls) == Residue(p, Echelon(ls))

\* The subsets of two or more candidates, by size and then in order.
Combinations(k) ==
  SetToSortSeq({C \in SUBSET (1 .. k) : Cardinality(C) >= 2},
    LAMBDA C, D : \/ Cardinality(C) < Cardinality(D)
                  \/ /\ Cardinality(C) = Cardinality(D)
                     /\ C # D
                     /\ Min(Xor(C, D)) \in C)

\* Combination absorption: a subset of the candidates whose joint logical
\* part is measured by the code, though each of its rows survived, is
\* absorbed, and one of its logical rows is folded out.
Combine(k, C, cands, full, m, certified) ==
  LET lv  == Sum([c \in C |-> cands[c].lv], C)
      op  == Sum([c \in C |-> cands[c].p], C)
      tail == Sum([j \in lv |-> full[m.ns + j].p], lv)
      standing == {j - m.ns : j \in {k.logs[i] : i \in Indices(k.logs)}}
  IN  IF \/ lv = {} \/ ~(lv \subseteq standing) \/ ~Independent(lv, k.lvs)
         \/ Independent(tail, certified)
      THEN k
      ELSE [k EXCEPT
             !.lvs = Append(@, lv),
             !.ops = IF Rank(Append(@, op)) > Len(@) THEN Append(@, op) ELSE @,
             !.logs = IF Rank(Append(k.ops, op)) > Len(k.ops)
                      THEN SelectSeq(@, LAMBDA i : i # m.ns + Max(lv)) ELSE @]

\* The old rows that survive, logical rows first, as indices of m.full.
Survivors(ps, m) ==
  LET targets == SubSeq(m.full, m.ns + 1, Len(m.full)) \o SubSeq(m.full, 1, m.ns)
      Back(t) == IF t <= m.nl THEN m.ns + t ELSE t - m.nl
      basis   == NewBasis(ps, Paulis(targets))
  IN  [i \in Indices(basis) |-> Back(basis[i])]

LogicalsIn(m, rows) == {j - m.ns : j \in {k \in ToSet(rows) : k > m.ns}}

\* Logicals measured through stabilizer pivots: charged like the killed ones.
Lost(m, rows) ==
  IF rows = <<>> THEN {} ELSE (m.shadowed \ LogicalsIn(m, rows)) \ m.killed

Filed(m, rows, lost, bank) ==
  LET taken == Cardinality(LogicalsIn(m, rows)) + Rank(absorbed)
                 + Len(bank.ops) - Len(absorbed)
  IN  FoldLeft(LAMBDA w, j : FileRow(w, m, j, taken),
        [logs |-> <<>>, old |-> <<>>, gauge |-> {}, promoted |-> 0,
         expected |-> m.expected - Cardinality(lost),
         credit |-> m.credit + Cardinality(lost)],
        rows)

WithGauges(m, filed) ==
  [j \in Indices(m.full) |->
     IF j \in filed.gauge
     THEN [p |-> Purged(m.full[j].p, Paulis(Rows(m.full, filed.logs))),
           r |-> {UNMEASURED}]
     ELSE m.full[j]]

Folded(ps, m, bank, filed, full) ==
  LET certified == ps \o Paulis(SelectSeq(SubSeq(full, 1, m.ns),
                           LAMBDA w : w.r # {} /\ UNMEASURED \notin w.r))
  IN  FoldLeft(LAMBDA k, C : Combine(k, C, m.cands, full, m, certified),
        [lvs |-> bank.lvs, ops |-> bank.ops, logs |-> filed.logs],
        Combinations(Len(m.cands)))

Written(ps, m, filed, full, folded) ==
  [stabs       |-> [i \in Indices(ps) |-> [p |-> ps[i], r |-> {m.base + i}]]
                     \o Rows(full, filed.old),
   logs        |-> Rows(full, folded.logs),
   absorbed    |-> folded.ops,
   expected    |-> filed.expected,
   swlc        |-> m.swlc \ {m.cands[c].i : c \in
                      {k \in Indices(m.cands) :
                         m.cands[k].lv \subseteq LogicalsIn(m, folded.logs)}},
   labels      |-> m.labels,
   detectors   |-> m.detectors,
   observables |-> m.observables,
   fault       |-> IF Rank(folded.ops) + Len(folded.logs) # filed.expected
                   THEN "LogicalCountMismatch" ELSE "none"]

(***************************************************************************)
(* apply_syndrome_extraction: one round through the tracker; the further   *)
(* rounds of the same block compare each check with its previous record,   *)
(* and the measured rows move on to the last round's records.              *)
(***************************************************************************)
Repeated(w, n, k) ==
  LET ShiftedBy(d) == {r + d : r \in (Len(w.labels) - n + 1) .. Len(w.labels)}
      last == Len(w.labels)
  IN  [w EXCEPT
        !.labels    = @ \o [j \in 1 .. k * n |-> @[last - n + 1 + ((j - 1) % n)]],
        !.detectors = @ \o [j \in 1 .. k * n |-> {last + j, last + j - n}],
        !.stabs     = [i \in Indices(@) |->
                         IF i <= n THEN [p |-> @[i].p, r |-> {r + k * n : r \in @[i].r}]
                         ELSE @[i]]]

Become(w) ==
  /\ stabs' = w.stabs
  /\ logs' = w.logs
  /\ absorbed' = w.absorbed
  /\ expected' = w.expected
  /\ swlc' = w.swlc
  /\ labels' = w.labels
  /\ detectors' = w.detectors
  /\ observables' = w.observables
  /\ fault' = w.fault

Fail(why) ==
  /\ fault' = why
  /\ UNCHANGED <<stabs, logs, absorbed, expected, swlc, labels, detectors, observables>>

ApplySyndromeExtraction(ps, rounds) ==
  \E m \in {Measured(ps)} :
  \E rows \in {Survivors(ps, m)} :
  \E lost \in {Lost(m, rows)} :
  \E bank \in {Bank(m.cands, LogicalsIn(m, rows) \cup m.killed \cup lost)} :
  \E filed \in {Filed(m, rows, lost, bank)} :
  \E full \in {WithGauges(m, filed)} :
  \E w \in {Written(ps, m, filed, full, Folded(ps, m, bank, filed, full))} :
    IF m.fault # "none" THEN Fail(m.fault)
    ELSE IF w.fault # "none" THEN Fail(w.fault)
    ELSE Become(IF rounds = 1 THEN w ELSE Repeated(w, Len(ps), rounds - 1))

(***************************************************************************)
(* process_data_measurement.  ps are single-qubit Paulis on distinct       *)
(* qubits; resolve tells a patch readout from a corridor readout.          *)
(* First the absorbed relations the readout touches: a patch readout       *)
(* resolves them, up to a remainder off the measured columns that the      *)
(* records now determine; a corridor readout moves them off the corridor.  *)
(***************************************************************************)
On(vs, cols) == [i \in Indices(vs) |-> vs[i] \cap cols]

Touching(vs, cols) == {i \in Indices(vs) : vs[i] \cap cols # {}}

\* The part of an absorbed Pauli off cols, its part on cols cancelled by rows.
OffColumns(v, vs, cols) ==
  Xor(v, Sum(vs, Coefficients(v \cap cols, On(vs, cols)))) \ cols

Remainders(ps, cols) ==
  LET vs == Paulis(stabs) \o ps
      as == Keep(absorbed, {r \in Touching(absorbed, cols) :
                              ~Independent(absorbed[r] \cap cols, On(vs, cols))})
  IN  SelectSeq([i \in Indices(as) |-> OffColumns(as[i], vs, cols)],
                LAMBDA v : v # {})

\* A remainder that overlaps the standing logicals takes the place of one.
Reprice(k, rem) ==
  LET ns    == Len(stabs)
      full  == Paulis(stabs \o k.logs)
      comps == IF Independent(rem, full) THEN {} ELSE Coefficients(rem, full)
      ls    == {c - ns : c \in {j \in comps : j > ns}}
      blank == {j \in ls : Known(k.logs[j].r) = {}}
  IN  IF \/ k.logs = <<>> \/ ls = {}
         \/ k.ops # <<>> /\ Rank(Append(k.ops, rem)) <= Len(k.ops)
      THEN k
      ELSE [logs |-> RemoveAt(k.logs, Max(IF blank # {} THEN blank ELSE ls)),
            ops  |-> Append(k.ops, rem)]

\* Mutant: a patch readout leaves the absorbed relations as they are.
Reconciled_Kept(ps, cols, resolve) == [logs |-> logs, ops |-> absorbed]

Reconciled(ps, cols, resolve) ==
  LET vs    == Paulis(stabs)
      Moved(v) == IF v \cap cols # {} /\ ~Independent(v \cap cols, On(vs, cols))
                  THEN OffColumns(v, vs, cols) ELSE v \ cols
  IN  IF resolve
      THEN FoldLeft(Reprice,
             [logs |-> logs,
              ops  |-> Keep(absorbed, Indices(absorbed) \ Touching(absorbed, cols))],
             Remainders(ps, cols))
      ELSE [logs |-> logs,
            ops  |-> SelectSeq([i \in Indices(absorbed) |-> Moved(absorbed[i])],
                               LAMBDA v : v # {})]

(***************************************************************************)
(* Step 2: anticommuting rows.  The pivot is the first stabilizer row that *)
(* is not a gauge measurement; the rows after the first anticommuting one  *)
(* are multiplied by it, in order, the pivot itself among them when it is  *)
(* not the first, and it is then replaced.                                 *)
(***************************************************************************)
DestroyOne(m, P, rec) ==
  LET anti  == {j \in Indices(m.full) \ m.destroyed : Anticommute(P, m.full[j].p)}
      first == Min(anti)
      safe  == {j \in anti : j <= m.ns /\ j \notin swlc}
      pivot == IF safe # {} THEN Min(safe) ELSE first
      old   == m.full[pivot]
      Source(j) == IF pivot = first \/ j < pivot THEN old ELSE Times(old, old)
  IN  IF anti = {} THEN m
      ELSE [m EXCEPT
             !.destroyed = @ \cup {pivot},
             !.full = [j \in Indices(@) |->
                         IF j = pivot THEN [p |-> P, r |-> {rec}]
                         ELSE IF j \in anti \ {first} THEN Times(@[j], Source(j))
                         ELSE @[j]]]

\* Mutant: a closing row's own records are left out of its parity.
CloseRow_FinalOnly(e, full, ns, ps, k) ==
  LET w      == full[k]
      parity == {total + b : b \in Coefficients(w.p, ps)}
      plain  == k <= ns /\ (Label(labels, w.r) = {} \/ UNMEASURED \in w.r)
  IN  [e EXCEPT
        !.detectors   = IF plain /\ UNMEASURED \notin w.r THEN Append(@, parity) ELSE @,
        !.observables = IF plain THEN @ ELSE Append(@, parity)]

\* Mutant: a determined logical row closes without being emitted.
CloseRow_DetectorsOnly(e, full, ns, ps, k) ==
  LET w      == full[k]
      parity == Xor({total + b : b \in Coefficients(w.p, ps)}, Known(w.r))
      plain  == k <= ns /\ Label(labels, w.r) = {} /\ UNMEASURED \notin w.r
  IN  [e EXCEPT !.detectors = IF plain THEN Append(@, parity) ELSE @]

\* Step 3: a determined row closes as a detector if it is a stabilizer row
\* without a logical outcome (silently, if it is unwatched), else as an
\* observable.
CloseRow(e, full, ns, ps, k) ==
  LET w      == full[k]
      parity == Xor({total + b : b \in Coefficients(w.p, ps)}, Known(w.r))
      plain  == k <= ns /\ (Label(labels, w.r) = {} \/ UNMEASURED \in w.r)
  IN  [e EXCEPT
        !.detectors   = IF plain /\ UNMEASURED \notin w.r THEN Append(@, parity) ELSE @,
        !.observables = IF plain THEN @ ELSE Append(@, parity)]

\* Mutant: the measured factors vanish without their records.
Reduced_NoRecords(w, ps) ==
  LET hit == {i \in Indices(ps) : Min(ps[i]) \in w.p}
  IN  [p |-> Xor(w.p, Sum(ps, hit)), r |-> w.r]

\* Step 4: the measured factors of a remaining row become records.
Reduced(w, ps) ==
  LET hit == {i \in Indices(ps) : Min(ps[i]) \in w.p}
  IN  [p |-> Xor(w.p, Sum(ps, hit)), r |-> Xor(w.r, {total + i : i \in hit})]

\* Step 4b: a reduced logical row that now depends on the rows kept so far
\* is a determined parity: an observable, and the row goes.
RetireDependent(e, full, touched, k) ==
  LET basis == e.kept
      vs    == [i \in Indices(basis) |-> full[basis[i]].p]
      used  == {basis[i] : i \in Coefficients(full[k].p, vs)} \cup {k}
      recs  == MergedRecords(full, used)
  IN  IF k \notin touched \/ Independent(full[k].p, vs)
      THEN [e EXCEPT !.kept = Append(@, k)]
      ELSE IF UNMEASURED \in recs \/ recs = {}
      THEN [e EXCEPT !.fault = "DependentRowNotEmittable"]
      ELSE [e EXCEPT !.observables = Append(@, recs)]

ColumnsRead(ps) == ColumnsOf(UNION {QubitsOf(ps[i]) : i \in Indices(ps)})

Destroyed(ps, rec) ==
  FoldLeftDomain(LAMBDA m, i : DestroyOne(m, ps[i], total + i),
    [full |-> stabs \o rec.logs, ns |-> Len(stabs), destroyed |-> {}], ps)

Closed(ps, m) ==
  {k \in Indices(m.full) \ m.destroyed : ~Independent(m.full[k].p, ps)}

Emitted(ps, m, closed) ==
  FoldLeft(LAMBDA e, k : CloseRow(e, m.full, m.ns, ps, k),
    [detectors |-> detectors, observables |-> observables,
     kept |-> Ordered({k \in Indices(m.full) \ (m.destroyed \cup closed) : k <= m.ns}),
     fault |-> "none"],
    Ordered(closed))

\* The remaining rows, reduced, without the dependent logical ones.
Retired(ps, resolve, m, rest, full, e) ==
  LET touched == IF resolve
                 THEN {k \in rest : \E i \in Indices(ps) : Min(ps[i]) \in m.full[k].p}
                 ELSE {}
  IN  FoldLeft(LAMBDA x, k : RetireDependent(x, full, touched, k),
        e, Ordered({k \in rest : k > m.ns}))

ProcessDataMeasurement(ps, resolve) ==
  \E rec \in {IF absorbed = <<>> THEN [logs |-> logs, ops |-> absorbed]
              ELSE Reconciled(ps, ColumnsRead(ps), resolve)} :
  \E m \in {Destroyed(ps, rec)} :
  \E closed \in {Closed(ps, m)} :
  \E rest \in {Indices(m.full) \ (m.destroyed \cup closed)} :
  \E full \in {[k \in Indices(m.full) |->
                 IF k \in rest THEN Reduced(m.full[k], ps) ELSE m.full[k]]} :
  \E done \in {Retired(ps, resolve, m, rest, full, Emitted(ps, m, closed))} :
  \E standing \in {Rows(full, SelectSeq(done.kept, LAMBDA k : k > m.ns))} :
    IF done.fault # "none" THEN Fail(done.fault)
    ELSE Become([
      stabs       |-> Rows(full, SelectSeq(done.kept, LAMBDA k : k <= m.ns)),
      logs        |-> standing,
      absorbed    |-> rec.ops,
      expected    |-> expected - (Len(logs) - Len(standing))
                        - (IF resolve THEN Rank(absorbed) - Rank(rec.ops) ELSE 0),
      swlc        |-> {},
      labels      |-> labels \o [i \in Indices(ps) |-> {}],
      detectors   |-> done.detectors,
      observables |-> done.observables,
      fault       |-> "none"])

(***************************************************************************)
(* The rest of the tracker's state changes.                                *)
(***************************************************************************)
\* process_initialization, and the budget a registered patch brings.
ProcessInitialization(ps, budget) ==
  /\ stabs' = stabs \o [i \in Indices(ps) |-> [p |-> ps[i], r |-> {}]]
  /\ expected' = expected + budget
  /\ UNCHANGED <<logs, absorbed, swlc, labels, detectors, observables, fault>>

\* retire_qubits: the readout rows on Q clear Q from every other row and go,
\* with the absorbed relations on Q; support left on Q is an error.
RetireQubits(Q) ==
  LET cols   == ColumnsOf(Q)
      pivots == {i \in Indices(stabs) : stabs[i].p # {} /\ stabs[i].p \subseteq cols}
      single == {i \in pivots : Cardinality(stabs[i].p) = 1
                   /\ \A j \in pivots : stabs[j].p = stabs[i].p => i <= j}
      Cleared(w) ==
        LET hit == {i \in single : stabs[i].p \subseteq w.p}
            all == [i \in hit \cup {0} |-> IF i = 0 THEN w ELSE stabs[i]]
        IN  [p |-> w.p \ UNION {stabs[i].p : i \in hit},
             r |-> MergedRecords(all, DOMAIN all)]
      others  == Keep(stabs, Indices(stabs) \ pivots)
      stabs1  == [i \in Indices(others) |-> Cleared(others[i])]
      logs1   == [i \in Indices(logs) |-> Cleared(logs[i])]
  IN  IF Touching(Paulis(stabs1 \o logs1), cols) # {}
      THEN Fail("ResidualSupport")
      ELSE /\ stabs' = stabs1
           /\ logs' = logs1
           /\ absorbed' = SelectSeq(absorbed, LAMBDA v : v \cap cols = {})
           /\ UNCHANGED <<expected, swlc, labels, detectors, observables, fault>>

\* declare_logical: an operator the stabilizers pin becomes a logical row
\* that carries their records (the sentinel cancels in the plain symmetric
\* difference); the last pinning row goes and the budget grows by one.
DeclareLogical(v) ==
  LET vs      == Paulis(stabs)
      pinning == Coefficients(v, vs)
      records == Sum([i \in pinning |-> stabs[i].r], pinning)
  IN  IF Independent(v, vs) THEN Fail("NotDetermined")
      ELSE /\ logs' = Append(logs, [p |-> v, r |-> records])
           /\ stabs' = RemoveAt(stabs, Max(pinning))
           /\ expected' = expected + 1
           /\ UNCHANGED <<absorbed, swlc, labels, detectors, observables, fault>>

TrackerInit ==
  /\ stabs = <<>> /\ logs = <<>> /\ absorbed = <<>>
  /\ expected = 0 /\ swlc = {} /\ labels = <<>>
  /\ detectors = <<>> /\ observables = <<>>
  /\ fault = "none"
=============================================================================
