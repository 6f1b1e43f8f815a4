----------------------------- MODULE Scheduling -----------------------------
(***************************************************************************)
(* The step scheduler, circls/compiler/scheduling.py: schedule_ops         *)
(* permutes the joint operations (steps) of a Pauli program within the     *)
(* positions they occupy, so that patches live shorter or more steps share *)
(* a merge window; verify_schedule is the contract for any schedule.       *)
(*                                                                         *)
(* An order maps each slot (the position of a step in the program) to the  *)
(* step executed there.  Slots are named by position, not by rank.         *)
(***************************************************************************)
EXTENDS Integers, FiniteSets, FiniteSetsExt

CONSTANTS
  Circuits,  \* the programs considered: functions from positions to operations
  SweepCap,  \* sweeps of the local search
  HubCap     \* operations the hub heuristic moves

\* A program is a finite sequence of operations on finitely many qubits each,
\* numbered from 0.
ASSUME CircuitsAssumption ==
  \A c \in Circuits : /\ DOMAIN c \subseteq Nat /\ IsFiniteSet(DOMAIN c)
                      /\ \A a \in DOMAIN c : IsFiniteSet(DOMAIN c[a].paulis)
ASSUME CapsAssumption == SweepCap \in Nat /\ HubCap \in Nat

VARIABLES
  ops,       \* the program; never changes
  parallel,  \* is the objective the number of merge windows?
  slots,     \* step_idx: the positions of the steps, and so the slots
  range,     \* lo and hi: the slots each step may take
  pred,      \* the steps that must come before each step
  pc,        \* the heuristic being run
  draft,     \* the order a heuristic is building, on the slots it has filled
  hub,       \* hubs anchored so far
  class,     \* the classes of the steps coloured or layered so far
  best,      \* the best order found so far
  sweeps     \* sweeps of the local search so far

vars == <<ops, parallel, slots, range, pred, pc, draft, hub, class,
          best, sweeps>>

facts == <<ops, parallel, slots, range, pred>>

-----------------------------------------------------------------------------
(* The program.                                                             *)

Positions == DOMAIN ops
Qubits(a) == DOMAIN ops[a].paulis

\* Two Pauli products anticommute iff they differ on an odd number of the
\* qubits they share.
Anticommutes(a, b) ==
  Cardinality({q \in Qubits(a) \cap Qubits(b) :
                 ops[a].paulis[q] # ops[b].paulis[q]}) % 2 = 1

IsStep(a) == ops[a].kind = "s" \/ Cardinality(Qubits(a)) >= 2
Steps == {a \in Positions : IsStep(a)}
Fixed == Positions \ Steps

\* Mutant of InRange: the fixed operations after a step do not bind it.
InRange_LowOnly(a, s) ==
  \A f \in Fixed : Anticommutes(f, a) /\ f < a => s >= Min({t \in Steps : t > f})

\* Slot s lies in the range of step a: on a's side of every fixed operation
\* that anticommutes with it (lo and hi in the code, one bound per operation).
InRange(a, s) ==
  \A f \in Fixed :
    Anticommutes(f, a) => IF a < f THEN s <= Max({t \in Steps : t < f})
                                   ELSE s >= Min({t \in Steps : t > f})

\* Steps that must come before step a.
Pred(a) == {b \in Steps : b < a /\ Anticommutes(b, a)}

\* slot_ok and _valid, for an order on all slots or on some.
SlotOK(o) == \A s \in DOMAIN o : s \in range[o[s]]
Valid(o)  == \A s, t \in DOMAIN o : o[s] \in pred[o[t]] => s < t

Original == [s \in slots |-> s]
Empty    == [s \in {} |-> s]

\* The rank of a slot, and its neighbours.
Ord(s)        == Cardinality({t \in slots : t < s})
SlotAfter(s)  == Min({t \in slots : t > s})
SlotBefore(s) == Max({t \in slots : t < s})

\* The step in slot a is taken out and put back in slot b.
Moved(o, a, b) ==
  [s \in slots |->
     IF s = b THEN o[a]
     ELSE IF a <= s /\ s < b THEN o[SlotAfter(s)]
     ELSE IF b < s /\ s <= a THEN o[SlotBefore(s)]
     ELSE o[s]]

-----------------------------------------------------------------------------
(* The objective.                                                           *)

AllQubits == UNION {Qubits(a) : a \in slots}

\* The sum over all qubits of the distance of their first and last use in
\* order o, slots being dated by at.
Spans(o, at) ==
  MapThenSumSet(LAMBDA q : LET uses == {s \in slots : q \in Qubits(o[s])}
                           IN  at[Max(uses)] - at[Min(uses)],
                AllQubits)

\* contiguous_batches: the slots where a batch starts.  A step joins the batch
\* in progress iff it shares no qubit with any member.
BatchHeads(o) ==
  LET Head[s \in slots] ==
        IF s = Min(slots) THEN s
        ELSE LET h == Head[SlotBefore(s)]
             IN  IF \E t \in slots : /\ h <= t /\ t < s
                                     /\ Qubits(o[t]) \cap Qubits(o[s]) # {}
                 THEN s ELSE h
  IN  {Head[s] : s \in slots}

\* Lives in positions; or the number of windows, lives in windows, in steps.
Cost(o) ==
  LET heads == BatchHeads(o)
  IN  IF parallel
      THEN <<Cardinality(heads),
             Spans(o, [s \in slots |-> Cardinality({h \in heads : h <= s})]),
             Spans(o, [s \in slots |-> Ord(s)])>>
      ELSE <<Spans(o, [s \in slots |-> s])>>

Lower(c, d) == \E k \in DOMAIN c : c[k] < d[k] /\ \A j \in 1 .. k - 1 : c[j] = d[j]

\* The better of the best so far and a new candidate; a tie changes nothing.
Better(o) == IF Lower(Cost(o), Cost(best)) THEN o ELSE best

-----------------------------------------------------------------------------
(* schedule_ops.                                                            *)

Init ==
  /\ ops \in Circuits
  /\ parallel \in BOOLEAN
  /\ slots = Steps
  /\ range = [a \in Steps |-> {s \in Steps : InRange(a, s)}]
  /\ pred = [a \in Steps |-> Pred(a)]
  /\ pc = IF Cardinality(Steps) <= 2 THEN "done" ELSE "greedy"
  /\ draft = Empty
  /\ hub = 0
  /\ class = Empty
  /\ best = [s \in Steps |-> s]
  /\ sweeps = 0

\* Closes-first: the steps placed, those that may come next, the next slot.
Placed == {draft[s] : s \in DOMAIN draft}
Ready  == {a \in slots \ Placed : pred[a] \subseteq Placed}
Slot   == Min(slots \ DOMAIN draft)

\* Lives that step a would close, and lives it would open.
Opened    == UNION {Qubits(a) : a \in Placed}
Closes(a) == Cardinality({q \in Qubits(a) \cap Opened :
                            \A b \in slots \ Placed : q \in Qubits(b) => b = a})
Opens(a)  == Cardinality(Qubits(a) \ Opened)
Prefer(a, b) ==
  \/ Closes(a) > Closes(b)
  \/ Closes(a) = Closes(b) /\ Opens(a) < Opens(b)
  \/ Closes(a) = Closes(b) /\ Opens(a) = Opens(b) /\ a <= b

\* Mutant of Fitting: slot ranges are left to the check at the end.
Fitting_Anywhere == Ready

Fitting == {a \in Ready : Slot \in range[a]}

GreedyPick ==
  /\ pc = "greedy" /\ Placed # slots
  /\ \E a \in Fitting :
       /\ \A b \in Fitting : Prefer(a, b)
       /\ draft' = [s \in DOMAIN draft \cup {Slot} |->
                      IF s = Slot THEN a ELSE draft[s]]
  /\ UNCHANGED <<facts, pc, hub, class, best, sweeps>>

\* Mutant of GreedyStuck: the heuristic starts again.
GreedyStuck_Restart ==
  /\ pc = "greedy" /\ Placed # slots /\ Fitting = {}
  /\ draft' = Empty
  /\ UNCHANGED <<facts, pc, hub, class, best, sweeps>>

\* No ready step fits the slot: the heuristic is abandoned.
GreedyStuck ==
  /\ pc = "greedy" /\ Placed # slots /\ Fitting = {}
  /\ draft' = Original
  /\ pc' = "anchor"
  /\ UNCHANGED <<facts, hub, class, best, sweeps>>

\* A complete draft is a candidate if it passes both checks.
Offer ==
  /\ \/ pc = "greedy" /\ Placed = slots /\ pc' = "anchor"
     \/ pc = "coloured" /\ pc' = "layer"
     \/ pc = "layered" /\ pc' = "search"
  /\ best' = IF SlotOK(draft) /\ Valid(draft) THEN Better(draft) ELSE best
  /\ draft' = Original
  /\ UNCHANGED <<facts, hub, class, sweeps>>

\* The hub-th step in descending order of degree.
Degree(a) == Cardinality(Qubits(a))
HubStep ==
  CHOOSE a \in slots :
    hub = Cardinality({b \in slots : \/ Degree(b) > Degree(a)
                                     \/ Degree(b) = Degree(a) /\ b < a})

\* Mutant of Anchored: the move is made without the checks.
Anchored_Unchecked(a) ==
  LET cur    == CHOOSE s \in slots : draft[s] = a
      others == {s \in slots \ {cur} : Qubits(draft[s]) \cap Qubits(a) # {}}
  IN  IF others = {} THEN draft
      ELSE Moved(draft, cur, CHOOSE t \in others :
             Cardinality({u \in others : u < t}) = Cardinality(others) \div 2)

\* The draft with step a moved to the median slot of the steps that share a
\* qubit with it, if there are any and the result is lawful.
Anchored(a) ==
  LET cur    == CHOOSE s \in slots : draft[s] = a
      others == {s \in slots \ {cur} : Qubits(draft[s]) \cap Qubits(a) # {}}
      med    == CHOOSE t \in others :
                  Cardinality({u \in others : u < t}) = Cardinality(others) \div 2
      trial  == Moved(draft, cur, med)
  IN  IF others # {} /\ SlotOK(trial) /\ Valid(trial) THEN trial ELSE draft

AnchorHub ==
  /\ pc = "anchor" /\ hub < HubCap /\ hub < Cardinality(slots)
  /\ draft' = Anchored(HubStep)
  /\ hub' = hub + 1
  /\ UNCHANGED <<facts, pc, class, best, sweeps>>

AnchorDone ==
  /\ pc = "anchor" /\ (hub = HubCap \/ hub = Cardinality(slots))
  /\ best' = Better(draft)
  /\ pc' = IF parallel THEN "colour" ELSE "search"
  /\ UNCHANGED <<facts, draft, hub, class, sweeps>>

\* Mutant of FirstFit: after one of the predecessors, not after all.
FirstFit_AfterOne(a, before) ==
  LET start == IF before = {} THEN 0 ELSE Min({class[b] + 1 : b \in before})
  IN  Min({c \in start .. Cardinality(slots) :
             \A b \in DOMAIN class : class[b] = c => Qubits(b) \cap Qubits(a) = {}})

\* The first class after those of the steps in before whose members share no
\* qubit with step a; it may be a new one.
FirstFit(a, before) ==
  Min({c \in Max({0} \cup {class[b] + 1 : b \in before}) .. Cardinality(slots) :
         \A b \in DOMAIN class : class[b] = c => Qubits(b) \cap Qubits(a) = {}})

\* The classes one after the other, each in program order.
Earlier(b, a) == class[b] < class[a] \/ (class[b] = class[a] /\ b < a)
Concatenated ==
  [s \in slots |-> CHOOSE a \in slots :
     Cardinality({b \in slots : Earlier(b, a)}) = Ord(s)]

\* The colouring knows nothing of precedence; the layering does.
Classify ==
  /\ pc \in {"colour", "layer"} /\ DOMAIN class # slots
  /\ LET a == Min(slots \ DOMAIN class)
         c == FirstFit(a, IF pc = "layer" THEN pred[a] ELSE {})
     IN  class' = [b \in DOMAIN class \cup {a} |-> IF b = a THEN c ELSE class[b]]
  /\ UNCHANGED <<facts, pc, draft, hub, best, sweeps>>

Concatenate ==
  /\ DOMAIN class = slots
  /\ \/ pc = "colour" /\ pc' = "coloured"
     \/ pc = "layer" /\ pc' = "layered"
  /\ draft' = Concatenated
  /\ class' = Empty
  /\ UNCHANGED <<facts, hub, best, sweeps>>

\* The moves of the local search that lower the cost: exchanges of neighbours,
\* and single reinsertions where no exchange helps.
Improving(S) ==
  LET c0 == Cost(best)
  IN  {o \in S : SlotOK(o) /\ Valid(o) /\ Lower(Cost(o), c0)}
Exchanges    == {Moved(best, s, SlotAfter(s)) : s \in slots \ {Max(slots)}}
Reinsertions == UNION {{Moved(best, a, b) : b \in slots \ {a}} : a \in slots}

\* Mutant of MoreSweeps: one sweep too many.
MoreSweeps_Inclusive == sweeps <= SweepCap

MoreSweeps == sweeps < SweepCap

\* One sweep; the code takes the first improving move it meets.
Search ==
  /\ pc = "search"
  /\ LET swaps == Improving(Exchanges)
         moves == IF swaps # {} THEN swaps ELSE Improving(Reinsertions)
     IN  \/ /\ MoreSweeps
            /\ best' \in moves
            /\ sweeps' = sweeps + 1
            /\ UNCHANGED pc
         \/ /\ ~MoreSweeps \/ moves = {}
            /\ pc' = "done"
            /\ UNCHANGED <<best, sweeps>>
  /\ UNCHANGED <<facts, draft, hub, class>>

Halt == pc = "done" /\ UNCHANGED vars

Work == GreedyPick \/ GreedyStuck \/ Offer \/ AnchorHub \/ AnchorDone
        \/ Classify \/ Concatenate \/ Search
Next == Work \/ Halt

Spec == Init /\ [][Next]_vars

-----------------------------------------------------------------------------
(* verify_schedule: perm[new] = old is accepted.                            *)

PosOf(perm, a) == CHOOSE s \in Positions : perm[s] = a

VerifySchedule(perm) ==
  /\ \A a \in Positions : \E s \in Positions : perm[s] = a
  /\ \A f \in Fixed : PosOf(perm, f) = f
  /\ \A a, b \in Steps :
       a < b /\ Anticommutes(a, b) => PosOf(perm, a) < PosOf(perm, b)
  /\ \A f \in Fixed, a \in Steps :
       Anticommutes(f, a) => (a < f <=> PosOf(perm, a) < f)

\* The permutation of the whole program that an order of the steps stands for.
Perm(o) == [s \in Positions |-> IF s \in Steps THEN o[s] ELSE s]

-----------------------------------------------------------------------------
(* Properties.                                                              *)

\* Every variable has its type.
TypeOK ==
  /\ ops \in Circuits /\ parallel \in BOOLEAN /\ slots \subseteq Positions
  /\ range \in [Steps -> SUBSET Steps] /\ pred \in [Steps -> SUBSET Steps]
  /\ pc \in {"greedy", "anchor", "colour", "coloured", "layer",
            "layered", "search", "done"}
  /\ DOMAIN draft \subseteq Steps /\ draft \in [DOMAIN draft -> Steps]
  /\ hub \in 0 .. HubCap
  /\ DOMAIN class \subseteq Steps
  /\ best \in [Steps -> Steps]
  /\ sweeps \in 0 .. SweepCap

\* schedule_ops meets the contract that verify_schedule enforces on schedules
\* from outside: whatever heuristic won and wherever the search stopped.
Contract == pc = "done" => VerifySchedule(Perm(best))

\* What docs/API_HOOKS.md asks of a scheduler: operations that anticommute,
\* steps or fixed ones, are executed in program order.
ProgramOrder ==
  \A a, b \in Positions :
    a < b /\ Anticommutes(a, b) => PosOf(Perm(best), a) < PosOf(Perm(best), b)

\* The greedy draft is lawful at every length and never places a step before
\* one it must follow: the checks on the complete draft are a safety net.
GreedySound ==
  pc = "greedy" => /\ SlotOK(draft) /\ Valid(draft)
                   /\ \A a \in Placed : pred[a] \subseteq Placed

\* The layered order keeps anticommuting steps in order by construction, as
\* the comment on it says; only the slot ranges can refuse it.
LayeringRespectsPrecedence == pc = "layered" => Valid(draft)

\* schedule_ops makes progress with every step and so ends: it moves on to a
\* later heuristic, or places one more step, or anchors one more hub, or spends
\* one more of its sweeps.  In particular no heuristic is started twice.
Stages == <<"greedy", "anchor", "colour", "coloured", "layer", "layered",
            "search", "done">>
Stage  == CHOOSE k \in DOMAIN Stages : Stages[k] = pc
Effort == Cardinality(DOMAIN draft) + hub + Cardinality(DOMAIN class) + sweeps
Advances == [][Stage' > Stage \/ (pc' = pc /\ Effort' > Effort)]_vars

-----------------------------------------------------------------------------
(* The inductive invariant behind Contract, ProgramOrder, GreedySound and   *)
(* LayeringRespectsPrecedence.                                              *)

\* What the initial state fixes for the whole run.
Facts ==
  /\ ops \in Circuits /\ parallel \in BOOLEAN
  /\ slots = Steps
  /\ range = [a \in Steps |-> {s \in Steps : InRange(a, s)}]
  /\ pred = [a \in Steps |-> Pred(a)]

\* o puts every step in one slot.
IsOrder(o) == o \in Injection(slots, slots)

\* o is an order that schedule_ops accepts.
Lawful(o) == IsOrder(o) /\ SlotOK(o) /\ Valid(o)

\* The greedy draft fills the first slots, with steps whose predecessors are
\* placed.
GreedyInv ==
  /\ draft \in Injection(DOMAIN draft, slots)
  /\ \A s \in DOMAIN draft, t \in slots : t < s => t \in DOMAIN draft
  /\ SlotOK(draft) /\ Valid(draft)
  /\ \A a \in Placed : pred[a] \subseteq Placed

\* There are never more classes than classified steps, and a layer comes after
\* the layers of the predecessors of its steps.
ClassInv ==
  /\ class \in [DOMAIN class -> Nat]
  /\ \A a \in DOMAIN class : class[a] < Cardinality(DOMAIN class)
  /\ pc \notin {"colour", "layer"} => class = Empty
  /\ pc = "layer" => \A a \in DOMAIN class : \A b \in pred[a] :
                       b \in DOMAIN class /\ class[b] < class[a]

\* The invariant: the best order is lawful, and the draft is as far on the way
\* to an order as the heuristic at work has brought it.
OrderInv ==
  /\ TypeOK /\ Facts
  /\ Lawful(best)
  /\ pc = "greedy" => GreedyInv
  /\ pc = "anchor" => Lawful(draft)
  /\ pc \in {"coloured", "layered"} => IsOrder(draft)
  /\ pc = "layered" => Valid(draft)
  /\ ClassInv
=============================================================================
