---------------------------- MODULE PauliCompile ----------------------------
(***************************************************************************)
(* The front half of compile_qasm (circls/pipeline.py): the passes that    *)
(* turn the Pauli form of a program into the joint measurements which the  *)
(* driver executes, and into the rules that read the program's bits off    *)
(* their records.  Every pass rewrites the stream of operations as a       *)
(* whole or one operation at a time.  The schedule is that of module       *)
(* Scheduling, whose variables are part of this state.                     *)
(***************************************************************************)
EXTENDS StabilizerStates, Scheduling

CONSTANT
  Sources     \* the programs considered: [n, heads, ms, reduce, schedule, parallel]

VARIABLES
  source,     \* the arguments and the front end's result; never changes
  pass,       \* the pass at work; it reads the stream ops
  at,         \* the place it has reached
  support,    \* reduce_measurements: the originals each operation is made of
  recon,      \* how the original bits follow from those of the reduced stream
  trace,      \* m_load_trace: which measurement of the reduced stream each is
  out,        \* y_free_sweep: the stream written so far
  pending,    \* and the masks still to be commuted to the end
  prog,       \* expand_gadgets: the program written so far
  folded      \* the bits that are read with the patches at the end

scheduler == <<parallel, slots, range, pred, pc, draft, hub, class, best, sweeps>>

reselection == <<support, recon>>
sweeping    == <<out, pending>>
expansion   == <<prog, folded>>

allVars == <<source, pass, ops, at, trace, reselection, sweeping, expansion, scheduler>>

-----------------------------------------------------------------------------
(* Streams.                                                                 *)

\* The positions I in ascending order.
Ascending(I) == SelectSeq([i \in 1 .. Max({0} \cup I) |-> i], LAMBDA i : i \in I)
Measurements(stream) == {i \in DOMAIN stream : stream[i].kind = "m"}
Taken(stream, order) == [k \in DOMAIN order |-> stream[order[k]]]

\* Mutant: the labels of the measurements are left where they were.
Relabelled_Not(labels, stream, order) == labels

\* The labels of the measurements when the stream is put into this order.
Relabelled(labels, stream, order) ==
  LET ms == SelectSeq(order, LAMBDA i : stream[i].kind = "m")
  IN  [k \in DOMAIN ms |->
         labels[Cardinality({i \in Measurements(stream) : i <= ms[k]})]]

Refuse == pass' = "refused"

-----------------------------------------------------------------------------
(* reduce_measurements.                                                     *)

Times2(a, b) == ToOp("m", Mul(Phased(a), Phased(b)))

Lightens(stream, i, j) ==
  i # j /\ Weight(Times2(stream[i], stream[j])) < Weight(stream[j])

\* The pairs in the order of the two loops, which start again as long as a
\* sweep has found something: the next one after the place reached.
NextPair(better) ==
  LET m == Len(ops)
  IN  CHOOSE p \in better : \A r \in better :
        ((p[1] - 1) * m + p[2] - at - 1) % (m * m)
          <= ((r[1] - 1) * m + r[2] - at - 1) % (m * m)

\* The reduced operations whose product is original k.
MadeOf(of, k) == CHOOSE I \in SUBSET DOMAIN of : XorOf(of, I) = {k}

Reconstruction(stream, of) ==
  [k \in DOMAIN stream |->
     LET I    == MadeOf(of, k)
         prod == FoldLeft(LAMBDA a, j : Mul(a, Phased(stream[j])),
                          [phase |-> 0, paulis |-> [q \in {} |-> "I"]], Ascending(I))
     IN  [bits  |-> I,
          const |-> IF prod = Phased(source.ms[k]) THEN Plus ELSE Minus]]

ReduceOnce ==
  LET better == {p \in (DOMAIN ops) \X (DOMAIN ops) : Lightens(ops, p[1], p[2])}
      p      == NextPair(better)
  IN  /\ pass = "reduce" /\ better # {}
      /\ ops' = [ops EXCEPT ![p[2]] = Times2(ops[p[1]], ops[p[2]])]
      /\ support' = [support EXCEPT ![p[2]] = SymDiff(@, support[p[1]])]
      /\ at' = (p[1] - 1) * Len(ops) + p[2]
      /\ UNCHANGED <<source, pass, recon, trace, sweeping, expansion, scheduler>>

Reduced ==
  /\ pass = "reduce"
  /\ \A i, j \in DOMAIN ops : ~Lightens(ops, i, j)
  /\ recon' = Reconstruction(ops, support)
  /\ pass' = "reorder"
  /\ UNCHANGED <<source, ops, at, support, trace, sweeping, expansion, scheduler>>

-----------------------------------------------------------------------------
(* reorder_weight1_last; the rotations of the proxy front end go in front.  *)

Reorder ==
  LET light == {i \in DOMAIN ops : Weight(ops[i]) = 1}
      perm  == Ascending(DOMAIN ops \ light) \o Ascending(light)
  IN  /\ pass = "reorder"
      /\ IF \A i, j \in DOMAIN ops : Commute(ops[i].paulis, ops[j].paulis)
         THEN pass' = "sweep" ELSE Refuse
      /\ ops' = source.heads \o Taken(ops, perm)
      /\ trace' = perm
      /\ at' = 1
      /\ UNCHANGED <<source, reselection, sweeping, expansion, scheduler>>

-----------------------------------------------------------------------------
(* y_free_sweep and drop_free_prefix.                                       *)

Trailing(masks) == Reverse(masks)

Rotation(mask, sign) == Op("s", ZMask(mask).paulis, sign)

Sweep ==
  LET cur   == Folded(Phased(ops[at]), pending)
      masks == Masks(Ys(cur))
      new   == YFree(cur)
  IN  /\ pass = "sweep" /\ at <= Len(ops)
      /\ out' = out \o [k \in DOMAIN masks |-> Rotation(masks[k], -1)]
                    \o <<ToOp(ops[at].kind, new)>>
      /\ pending' = Trailing(masks) \o pending
      /\ at' = at + 1
      /\ IF Ys(new) = {} /\ Hermitian(new) THEN UNCHANGED pass ELSE Refuse
      /\ UNCHANGED <<source, ops, trace, reselection, expansion, scheduler>>

\* A rotation that does nothing to |0...0>.
Idle(op) == op.kind = "s" /\ \A q \in DOMAIN op.paulis : op.paulis[q] = "Z"

DropFreePrefix ==
  /\ pass = "sweep" /\ at > Len(ops)
  /\ LET first == Min({i \in 1 .. Len(out) + 1 : i > Len(out) \/ ~Idle(out[i])})
     IN  ops' = SubSeq(out, first, Len(out))
  /\ out' = <<>> /\ pending' = <<>>
  /\ pass' = "defer"
  /\ UNCHANGED <<source, at, trace, reselection, expansion, scheduler>>

-----------------------------------------------------------------------------
(* defer_weight1_terminal.                                                  *)

\* The later operations on the qubit of a single-qubit measurement.
Overtaken(stream, i) ==
  IF stream[i].kind = "m" /\ Weight(stream[i]) = 1
  THEN {j \in DOMAIN stream :
          j > i /\ DOMAIN stream[i].paulis \cap DOMAIN stream[j].paulis # {}}
  ELSE {}

Defer ==
  LET late  == {i \in DOMAIN ops : Overtaken(ops, i) # {}}
      order == Ascending(DOMAIN ops \ late) \o Ascending(late)
  IN  /\ pass = "defer"
      /\ IF \A i \in late : \A j \in Overtaken(ops, i) :
              Commute(ops[i].paulis, ops[j].paulis)
         THEN pass' = IF source.schedule THEN "schedule" ELSE "expand"
         ELSE Refuse
      /\ ops' = Taken(ops, order)
      /\ trace' = Relabelled(trace, ops, order)
      /\ at' = 1
      /\ UNCHANGED <<source, reselection, sweeping, expansion, scheduler>>

-----------------------------------------------------------------------------
(* schedule_ops, and the guard on its result.                               *)

BeginSchedule ==
  /\ pass = "schedule"
  /\ pass' = "scheduling"
  /\ slots' = Steps
  /\ range' = [a \in Steps |->
                 {s \in Steps : InRange(a, s)}]
  /\ pred' = [a \in Steps |-> Pred(a)]
  /\ best' = [s \in Steps |-> s]
  /\ pc' = IF Cardinality(Steps) <= 2 THEN "done" ELSE "greedy"
  /\ UNCHANGED <<source, ops, at, trace, parallel, draft, hub, class, sweeps,
                 reselection, sweeping, expansion>>

Schedule ==
  /\ pass = "scheduling"
  /\ Work
  /\ UNCHANGED <<source, pass, at, trace, reselection, sweeping, expansion>>

\* Mutant: the schedule is always taken.
Keeps_Always(stream) == TRUE

\* _floats_past_weight1, asked of programs with rotations in front only.
Keeps(stream) ==
  source.heads # <<>> => \A i \in DOMAIN stream : Overtaken(stream, i) = {}

EndSchedule ==
  LET order == [s \in DOMAIN ops |-> Perm(best)[s]]
      kept  == Keeps(Taken(ops, order))
  IN  /\ pass = "scheduling" /\ pc = "done"
      /\ ops' = IF kept THEN Taken(ops, order) ELSE ops
      /\ trace' = IF kept THEN Relabelled(trace, ops, order) ELSE trace
      /\ pass' = "expand"
      /\ slots' = {} /\ range' = <<>> /\ pred' = <<>> /\ draft' = <<>>
      /\ class' = <<>> /\ best' = <<>>
      /\ hub' = 0 /\ sweeps' = 0 /\ pc' = "idle"
      /\ UNCHANGED <<source, at, parallel, reselection, sweeping, expansion>>

-----------------------------------------------------------------------------
(* expand_gadgets: each rotation becomes a joint measurement with a |Y>     *)
(* ancilla and a readout of the ancilla; its Pauli correction becomes a     *)
(* rule that flips later results.                                           *)

Negative(op) == IF op.sign = -1 THEN Minus ELSE Plus

\* The earlier gadgets whose correction anticommutes with an operation.
Flipping(gadgets, paulis) ==
  {k \in DOMAIN gadgets : ~Commute(gadgets[k].mask, paulis)}

ExpandRotation ==
  LET op == ops[at]
      a  == source.n + Len(prog.gadgets)
  IN  /\ pass = "expand" /\ at <= Len(ops) /\ op.kind = "s"
      /\ prog' = [prog EXCEPT
           !.ops = @ \o <<Op("init_y", [q \in {a} |-> "Y"], 1),
                          Op("mpp", op.paulis @@ [q \in {a} |-> "Z"], 1),
                          Op("mpp", [q \in {a} |-> "X"], 1)>>,
           !.gadgets = Append(@, [mask |-> op.paulis, ancilla |-> a,
                                  kappa |-> Negative(op),
                                  conds |-> Flipping(@, op.paulis)])]
      /\ at' = at + 1
      /\ UNCHANGED <<source, pass, ops, trace, folded, reselection, sweeping, scheduler>>

ExpandMeasurement ==
  LET op == ops[at]
  IN  /\ pass = "expand" /\ at <= Len(ops) /\ op.kind = "m"
      /\ prog' = [prog EXCEPT
           !.ops = Append(@, Op("mpp", op.paulis, 1)),
           !.bits = Append(@, [flip |-> Negative(op),
                               gadgets |-> Flipping(prog.gadgets, op.paulis)])]
      /\ at' = at + 1
      /\ UNCHANGED <<source, pass, ops, trace, folded, reselection, sweeping, scheduler>>

-----------------------------------------------------------------------------
(* folded_out_bits, program_step_interactions, step_roles: which of the     *)
(* measurements are steps of the experiment, and which bit each one is.     *)

Ancillas == {prog.gadgets[k].ancilla : k \in DOMAIN prog.gadgets}
Mpps == SelectSeq(prog.ops, LAMBDA op : op.kind = "mpp")
IsBit(op) == DOMAIN op.paulis \cap Ancillas = {}
Bit(mpps, j) == Cardinality({i \in 1 .. j : IsBit(mpps[i])})

\* The places of the bits that are left to the terminal readout.
Terminal(mpps) == {j \in DOMAIN mpps : IsBit(mpps[j]) /\ Weight(mpps[j]) = 1}

FoldTerminal ==
  LET mpps == Mpps
  IN  /\ pass = "expand" /\ at > Len(ops)
      /\ folded' = [b \in {Bit(mpps, j) : j \in Terminal(mpps)} |->
                      (CHOOSE j \in Terminal(mpps) : Bit(mpps, j) = b)]
      /\ IF \A j \in Terminal(mpps) : \A i \in j + 1 .. Len(mpps) :
              DOMAIN mpps[i].paulis \cap DOMAIN mpps[j].paulis = {}
         THEN pass' = "bind" ELSE Refuse
      /\ UNCHANGED <<source, ops, at, trace, prog, reselection, sweeping, scheduler>>

\* The k-th gadget, or the bit, that each step is.
Roles(mpps) ==
  LET IsGadget(j) == ~IsBit(mpps[j]) /\ Weight(mpps[j]) > 1
      steps == SelectSeq([j \in DOMAIN mpps |-> j],
                 LAMBDA j : \/ IsGadget(j)
                            \/ IsBit(mpps[j]) /\ Bit(mpps, j) \notin DOMAIN folded)
  IN  [i \in DOMAIN steps |->
         IF IsGadget(steps[i])
         THEN <<"gadget", Cardinality({j \in 1 .. steps[i] : IsGadget(j)})>>
         ELSE <<"m", Bit(mpps, steps[i])>>]

\* Every product but the ancillas' readouts and those on a folded qubit alone.
Interactions(mpps) ==
  LET leftOut == {DOMAIN mpps[folded[b]].paulis : b \in DOMAIN folded}
                   \cup {{a} : a \in Ancillas}
  IN  SelectSeq(mpps, LAMBDA op : DOMAIN op.paulis \notin leftOut)

\* append_program_observables binds the bits to the steps, by position.
Bind ==
  /\ pass = "bind"
  /\ IF Len(Roles(Mpps)) = Len(Interactions(Mpps)) THEN pass' = "done" ELSE Refuse
  /\ UNCHANGED <<source, ops, at, trace, reselection, sweeping, expansion, scheduler>>

-----------------------------------------------------------------------------
(* What the experiment measures: the steps in order, each ancilla read      *)
(* after its step, the folded bits with their patches at the end.           *)

StepResults(steps) ==
  FoldLeftDomain(
    LAMBDA st, j :
      LET own   == DOMAIN steps[j].paulis \cap Ancillas
          a     == CHOOSE q \in own : TRUE
          given == IF own = {} THEN st.group ELSE WithY(st.group, a)
          P     == Element(steps[j].paulis, Plus)
          after == Projected(given, P, 2 * j)
          X     == Element([q \in own |-> "X"], Plus)
      IN  IF own = {}
          THEN [st EXCEPT !.group = after, !.joint[j] = Result(given, P, 2 * j)]
          ELSE [group   |-> Without(Projected(after, X, 2 * j + 1), a),
                joint   |-> [st.joint EXCEPT ![j] = Result(given, P, 2 * j)],
                readout |-> [st.readout EXCEPT ![j] = Result(after, X, 2 * j + 1)]],
    [group |-> ZeroState(source.n),
     joint |-> [j \in DOMAIN steps |-> {}], readout |-> [j \in DOMAIN steps |-> {}]],
    steps)

\* The patches are read one after the other; their qubits are distinct.
TerminalResults(mpps, group, coin) ==
  FoldLeft(
    LAMBDA st, b :
      LET P == Element(mpps[folded[b]].paulis, Plus)
      IN  [group |-> Projected(st.group, P, coin + b),
           bit   |-> [st.bit EXCEPT ![b] = Result(st.group, P, coin + b)]],
    [group |-> group, bit |-> [b \in DOMAIN folded |-> {}]],
    Ascending(DOMAIN folded)).bit

\* c = b1 xor b2 xor kappa xor the conditions of conds, gadget after gadget.
Conditions(roles, run) ==
  FoldLeftDomain(
    LAMBDA c, k :
      LET j == CHOOSE i \in DOMAIN roles : roles[i] = <<"gadget", k>>
      IN  Append(c, XorOf(<<run.joint[j], run.readout[j], prog.gadgets[k].kappa,
                            XorOf(c, prog.gadgets[k].conds)>>, 1 .. 4)),
    <<>>, prog.gadgets)

ProgramBits(mpps, roles, run) ==
  LET ends == TerminalResults(mpps, run.group, 2 * Len(roles) + 2)
      c    == Conditions(roles, run)
      Raw(b) == IF b \in DOMAIN folded THEN ends[b]
                ELSE run.joint[CHOOSE i \in DOMAIN roles : roles[i] = <<"m", b>>]
  IN  [b \in DOMAIN prog.bits |->
         XorOf(<<Raw(b), prog.bits[b].flip, XorOf(c, prog.bits[b].gadgets)>>, 1 .. 3)]

-----------------------------------------------------------------------------
Identity(n) == [k \in 1 .. n |-> k]

CompileInit ==
  /\ source \in Sources
  /\ pass = IF source.reduce THEN "reduce" ELSE "reorder"
  /\ ops = source.ms
  /\ at = 0
  /\ support = [k \in DOMAIN source.ms |-> {k}]
  /\ recon = [k \in DOMAIN source.ms |-> [bits |-> {k}, const |-> Plus]]
  /\ trace = Identity(Len(source.ms))
  /\ out = <<>> /\ pending = <<>>
  /\ prog = [ops |-> <<>>, gadgets |-> <<>>, bits |-> <<>>]
  /\ folded = <<>>
  /\ parallel = source.parallel
  /\ slots = {} /\ range = <<>> /\ pred = <<>> /\ pc = "idle"
  /\ draft = <<>> /\ hub = 0 /\ class = <<>> /\ best = <<>> /\ sweeps = 0

Compile ==
  \/ ReduceOnce \/ Reduced \/ Reorder
  \/ Sweep \/ DropFreePrefix \/ Defer
  \/ BeginSchedule \/ Schedule \/ EndSchedule
  \/ ExpandRotation \/ ExpandMeasurement \/ FoldTerminal \/ Bind

Stop == pass \in {"done", "refused"} /\ UNCHANGED allVars

CompileSpec == CompileInit /\ [][Compile \/ Stop]_allVars

-----------------------------------------------------------------------------
(* Properties.                                                              *)

\* The bits of the source program, from those of the reduced stream in the
\* order of the stream at hand.
Reconstructed(bits, by) ==
  LET loaded == [l \in DOMAIN bits |-> bits[CHOOSE k \in DOMAIN bits : trace[k] = l]]
  IN  [k \in DOMAIN by |-> SymDiff(by[k].const, XorOf(loaded, by[k].bits))]

\* The distribution of the source's bits when the compiler goes on from here.
Remaining ==
  CASE pass = "reduce" ->
         Reconstructed(StreamBits(source.n, source.heads \o ops),
                       Reconstruction(ops, support))
    [] pass = "reorder" ->
         Reconstructed(StreamBits(source.n, source.heads \o ops), recon)
    [] pass = "sweep" ->
         Reconstructed(
           StreamBits(source.n,
             out \o [k \in DOMAIN pending |-> Rotation(pending[k], 1)]
                 \o SubSeq(ops, at, Len(ops))), recon)
    [] pass \in {"defer", "schedule", "scheduling", "expand"} ->
         Reconstructed(StreamBits(source.n, ops), recon)
    [] pass \in {"bind", "done"} ->
         LET mpps == Mpps
         IN  Reconstructed(
               ProgramBits(mpps, Roles(mpps), StepResults(Interactions(mpps))), recon)

\* At every point of every pass, what is left of the program gives the bits of
\* the source with the joint distribution the source gives them: signs,
\* reconstruction, permutations of the bits and gadget corrections included.
StatisticsKept ==
  pass # "refused" =>
    Distribution(Remaining) = Distribution(StreamBits(source.n, source.heads \o source.ms))

\* No pass refuses what the passes before it made of a legal program; of the
\* schedule pipeline.py:440 says that where it would not fit, the order before
\* it is kept.
NothingRefused == pass # "refused"
=============================================================================
