------------------------- MODULE BatchVerdict_proofs -------------------------
(***************************************************************************)
(* The verdict of a batch is right for any number of shots, stages and     *)
(* observables.  The chain works on the batch as a whole; the invariant    *)
(* says, shot by shot, where it has got to: pending holds the shots every  *)
(* stage so far has failed on, and whoever left it did so with the answer  *)
(* of the first stage that resolved it.                                    *)
(***************************************************************************)
EXTENDS BatchVerdict, FiniteSetTheorems, TLAPS

\* The shots that every stage before k fails on.
Reached(k) == {s \in filtered : \A l \in 1 .. k - 1 : ~Resolves(l, s)}

Typed ==
  /\ policy \in Policies
  /\ batch \in [Shots -> Verdicts]
  /\ silent \in SUBSET (1 .. Stages)
  /\ pc \in {"select", "decode", "count", "done"}
  /\ stage \in 1 .. Stages + 1
  /\ filtered \in SUBSET Shots
  /\ answer \in [Shots -> 0 .. Stages]
  /\ attempts \in [1 .. Stages -> Nat]

Untouched ==
  /\ pc = "select" =>
       /\ stage = 1
       /\ \A s \in Shots : answer[s] = 0
       /\ \A k \in 1 .. Stages : attempts[k] = 0
  /\ pc # "done" => kept = 0 /\ errors = 0

Selected == pc # "select" => filtered = {s \in Shots : ~batch[s].rejected}

Escalated ==
  pc \in {"decode", "count"} =>
    /\ pending = Reached(stage)
    /\ \A s \in filtered :
         answer[s] = IF s \in pending THEN stage - 1 ELSE Owed(s)
    /\ \A k \in 1 .. Stages :
         attempts[k] = IF k < stage THEN Cardinality(Reached(k)) ELSE 0

Surfaced ==
  pc = "count" => failed = pending /\ (stage > Stages \/ pending = {})

VerdictInv ==
  Typed /\ Untouched /\ Selected /\ Escalated /\ Surfaced /\ CountsDeserved

-----------------------------------------------------------------------------
(* The decoder a shot is owed.                                              *)

\* A shot is owed the first stage that resolves it.
LEMMA OwedFirst ==
  ASSUME NEW s, NEW k \in 1 .. Stages, Resolves(k, s),
         \A l \in 1 .. k - 1 : ~Resolves(l, s)
  PROVE  Owed(s) = k
<1> DEFINE R == {l \in 1 .. Stages : Resolves(l, s)}
<1>1. k \in R /\ R # {}
  OBVIOUS
<1>2. \A l \in R : k <= l
  BY StagesAssumption
<1>3. \A x \in R : (\A l \in R : x <= l) => x = k
  BY <1>1, <1>2, StagesAssumption
<1>4. (CHOOSE x \in R : \A l \in R : x <= l) = k
  <2> HIDE DEF R
  <2> QED
    BY <1>1, <1>2, <1>3
<1> QED
  BY <1>1, <1>4 DEF Owed

\* A shot that no stage resolves is owed the last one.
LEMMA OwedLast == ASSUME NEW s, Lost(s) PROVE Owed(s) = Stages
BY DEF Owed, Lost

-----------------------------------------------------------------------------
(* The invariant.                                                           *)

LEMMA VerdictInit == Init => VerdictInv
BY StagesAssumption
DEF Init, VerdictInv, Typed, Untouched, Selected, Escalated, Surfaced, CountsDeserved

LEMMA PostSelectKeeps == ASSUME VerdictInv, PostSelect PROVE VerdictInv'
<1> USE DEF VerdictInv, PostSelect, inputs
<1>1. filtered' = {s \in Shots : ~batch[s].rejected}
  OBVIOUS
<1>2. Typed'
  BY <1>1 DEF Typed
<1>3. Untouched' /\ Selected' /\ Surfaced'
  BY <1>1 DEF Untouched, Selected, Surfaced
<1>4. Escalated'
  BY <1>1, StagesAssumption DEF Escalated, Reached, Untouched, Typed
<1>5. CountsDeserved'
  <2> SUFFICES ASSUME pc' = "done"
               PROVE  /\ 0 = Cardinality({s \in Shots : Fate(s)' = "error"})
                      /\ 0 = Cardinality({s \in Shots : Fate(s)' # "dropped"})
    BY DEF CountsDeserved, Untouched
  <2>1. \A s \in Shots : batch[s].rejected
    BY <1>1
  <2>2. \A s \in Shots : Fate(s)' = "dropped"
    BY <2>1 DEF Fate, Typed
  <2>3. {s \in Shots : Fate(s)' = "error"} = {} /\ {s \in Shots : Fate(s)' # "dropped"} = {}
    BY <2>2
  <2> QED
    BY <2>3, FS_EmptySet
<1> QED
  BY <1>2, <1>3, <1>4, <1>5

LEMMA EscalateKeeps == ASSUME VerdictInv, Escalate PROVE VerdictInv'
<1> USE DEF VerdictInv, Escalate, inputs
<1>0. /\ stage \in 1 .. Stages /\ stage' = stage + 1
      /\ pending = Reached(stage) /\ pending \subseteq filtered
  BY StagesAssumption DEF Typed, Escalated, Reached
<1>1. \A l, s : Resolves(l, s)' = Resolves(l, s)
  BY DEF Resolves
<1>2. \A k : Reached(k)' = Reached(k)
  BY <1>1 DEF Reached
<1>3. \A s \in filtered : s \in pending' <=> s \in pending /\ ~Resolves(stage, s)
  BY <1>0 DEF Unresolved, Resolves
<1>4. pending' = Reached(stage)'
  <2>1. \A s \in filtered : s \in Reached(stage + 1) <=> s \in Reached(stage) /\ ~Resolves(stage, s)
    BY <1>0, StagesAssumption DEF Reached
  <2>2. pending' \subseteq filtered /\ Reached(stage + 1) \subseteq filtered
    BY <1>0 DEF Unresolved, Reached
  <2>3. Reached(stage)' = Reached(stage + 1)
    BY <1>0 DEF Reached, Resolves
  <2>4. pending' = Reached(stage + 1)
    BY <1>0, <1>3, <2>1, <2>2
  <2> QED
    BY <2>3, <2>4
<1>5. \A s : Owed(s)' = Owed(s)
  BY DEF Owed, Resolves
<1>6. \A s \in filtered : answer'[s] = IF s \in pending' THEN stage' - 1 ELSE Owed(s)'
  <2> SUFFICES ASSUME NEW s \in filtered
               PROVE  answer'[s] = IF s \in pending' THEN stage ELSE Owed(s)
    BY <1>0, <1>5, StagesAssumption
  <2>1. s \in Shots
    BY DEF Typed
  <2>2. CASE s \in pending /\ ~Resolves(stage, s)
    BY <2>1, <2>2, <1>3
  <2>3. CASE s \in pending /\ Resolves(stage, s)
    <3>1. Owed(s) = stage
      BY <2>3, <1>0, OwedFirst DEF Reached
    <3> QED
      BY <2>1, <2>3, <3>1, <1>3
  <2>4. CASE s \notin pending
    BY <2>1, <2>4, <1>3 DEF Escalated
  <2> QED
    BY <2>2, <2>3, <2>4
<1>7. \A k \in 1 .. Stages :
        attempts'[k] = IF k < stage' THEN Cardinality(Reached(k)') ELSE 0
  BY <1>0, <1>2, StagesAssumption DEF Escalated, Typed
<1>8. Escalated'
  BY <1>0, <1>4, <1>6, <1>7, StagesAssumption DEF Escalated
<1>9. Typed'
  <2>1. Cardinality(pending) \in Nat
    BY <1>0, ShotsAssumption, FS_Subset, FS_CardinalityType DEF Typed
  <2> QED
    BY <1>0, <2>1, StagesAssumption DEF Typed
<1> QED
  BY <1>8, <1>9 DEF Untouched, Selected, Surfaced, CountsDeserved

LEMMA SurfaceKeeps == ASSUME VerdictInv, Surface PROVE VerdictInv'
<1> USE DEF VerdictInv, Surface, inputs
<1>1. Typed' /\ Untouched' /\ Selected' /\ Surfaced' /\ CountsDeserved'
  BY DEF Typed, Untouched, Selected, Surfaced, CountsDeserved
<1>2. Escalated'
  <2>1. \A s : Owed(s)' = Owed(s)
    BY DEF Owed, Resolves
  <2>2. \A k : Reached(k)' = Reached(k)
    BY DEF Reached, Resolves
  <2> QED
    BY <2>1, <2>2 DEF Escalated
<1> QED
  BY <1>1, <1>2

-----------------------------------------------------------------------------
(* What the chain hands to the count.                                       *)

\* The prediction of each shot, when the chain is done, is the one it is owed.
LEMMA AnswersOwed == VerdictInv => EachShotOwed
<1> SUFFICES ASSUME VerdictInv, pc = "count", NEW s \in filtered
             PROVE  answer[s] = Owed(s)
  BY DEF EachShotOwed
<1>1. CASE s \in pending
  <2>1. stage = Stages + 1
    BY <1>1, StagesAssumption DEF VerdictInv, Surfaced, Typed
  <2>2. Lost(s)
    BY <1>1, <2>1, StagesAssumption DEF VerdictInv, Escalated, Reached, Lost
  <2> QED
    BY <1>1, <2>1, <2>2, OwedLast, StagesAssumption DEF VerdictInv, Escalated
<1>2. CASE s \notin pending
  BY <1>2 DEF VerdictInv, Escalated
<1> QED
  BY <1>1, <1>2

\* last_flags is FALSE for exactly the shots that no stage resolves.
LEMMA FailedAreLost ==
  ASSUME VerdictInv, pc = "count"
  PROVE  failed = {s \in filtered : Lost(s)}
<1>1. failed = Reached(stage) /\ stage \in 1 .. Stages + 1
  BY DEF VerdictInv, Surfaced, Escalated, Typed
<1>2. \A s \in filtered : Lost(s) => s \in failed
  BY <1>1, StagesAssumption DEF Lost, Reached
<1>3. \A s \in failed : s \in filtered /\ Lost(s)
  BY <1>1, StagesAssumption DEF VerdictInv, Surfaced, Lost, Reached
<1> QED
  BY <1>2, <1>3

LEMMA CountKeeps == ASSUME VerdictInv, Count PROVE VerdictInv'
<1> USE DEF VerdictInv, Count, inputs
<1>1. Typed' /\ Untouched' /\ Selected' /\ Escalated' /\ Surfaced'
  BY DEF Typed, Untouched, Selected, Escalated, Surfaced
<1>2. filtered = {s \in Shots : ~batch[s].rejected}
  BY DEF Selected
<1>3. failed = {s \in filtered : Lost(s)}
  BY FailedAreLost
<1>4. \A s \in filtered : Residual(s) = batch[s].residual[Owed(s)]
  BY AnswersOwed DEF EachShotOwed, Residual
<1>5. policy.failure \in {"error", "discard", "ignore"}
  BY PoliciesAssumption DEF Typed
<1> DEFINE J == Judge(failed)
<1>6. \A s \in Shots : s \in J[1] <=> Fate(s) # "dropped"
  <2> SUFFICES ASSUME NEW s \in Shots PROVE s \in J[1] <=> Fate(s) # "dropped"
    OBVIOUS
  <2>1. CASE s \notin filtered
    BY <2>1, <1>2, <1>3, <1>5 DEF Judge, KeepMask, Fate
  <2>2. CASE s \in filtered /\ Lost(s)
    BY <2>2, <1>2, <1>3, <1>4, <1>5 DEF Judge, KeepMask, Fate
  <2>3. CASE s \in filtered /\ ~Lost(s)
    BY <2>3, <1>2, <1>3, <1>4, <1>5 DEF Judge, KeepMask, Fate
  <2> QED
    BY <2>1, <2>2, <2>3
<1>7. \A s \in Shots : s \in J[1] \cap J[2] <=> Fate(s) = "error"
  <2> SUFFICES ASSUME NEW s \in Shots PROVE s \in J[1] \cap J[2] <=> Fate(s) = "error"
    OBVIOUS
  <2>1. CASE s \notin filtered
    BY <2>1, <1>2, <1>3, <1>5 DEF Judge, KeepMask, Fate
  <2>2. CASE s \in filtered /\ Lost(s)
    BY <2>2, <1>2, <1>3, <1>4, <1>5 DEF Judge, KeepMask, ErrorMask, Wrong, Fate
  <2>3. CASE s \in filtered /\ ~Lost(s)
    BY <2>3, <1>2, <1>3, <1>4, <1>5 DEF Judge, KeepMask, ErrorMask, Wrong, Fate
  <2> QED
    BY <2>1, <2>2, <2>3
<1>8. J[1] \subseteq Shots
  BY <1>2, <1>3, <1>5 DEF Judge, KeepMask
<1>9. J[1] = {s \in Shots : Fate(s) # "dropped"} /\ J[1] \cap J[2] = {s \in Shots : Fate(s) = "error"}
  <2> HIDE DEF J
  <2> QED
    BY <1>6, <1>7, <1>8
<1>10. \A s : Fate(s)' = Fate(s)
  BY DEF Fate, Owed, Lost, Resolves
<1>11. CountsDeserved'
  BY <1>9, <1>10 DEF CountsDeserved
<1> QED
  BY <1>1, <1>11

LEMMA VerdictStep == VerdictInv /\ [Next]_vars => VerdictInv'
<1> SUFFICES ASSUME VerdictInv, [Next]_vars PROVE VerdictInv'
  OBVIOUS
<1>1. CASE PostSelect
  BY <1>1, PostSelectKeeps
<1>2. CASE Escalate
  BY <1>2, EscalateKeeps
<1>3. CASE Surface
  BY <1>3, SurfaceKeeps
<1>4. CASE Count
  BY <1>4, CountKeeps
<1>5. CASE UNCHANGED vars
  <2>1. \A s : Owed(s)' = Owed(s)
    BY <1>5 DEF Owed, Resolves, vars, inputs
  <2>2. \A k : Reached(k)' = Reached(k)
    BY <1>5 DEF Reached, Resolves, vars, inputs
  <2>3. \A s : Fate(s)' = Fate(s)
    BY <1>5 DEF Fate, Owed, Lost, Resolves, vars, inputs
  <2> QED
    BY <1>5, <2>1, <2>2, <2>3 DEF VerdictInv, Typed, Untouched, Selected,
       Escalated, Surfaced, CountsDeserved, vars, inputs
<1> QED
  BY <1>1, <1>2, <1>3, <1>4, <1>5 DEF Next, Halt

LEMMA VerdictInvariance == Spec => []VerdictInv
BY VerdictInit, VerdictStep, PTL DEF Spec

-----------------------------------------------------------------------------
(* The properties.                                                          *)

\* Each shot ends with the prediction of the first stage that resolves it,
\* however many shots and stages there are.
THEOREM ShotsGetTheirDecoder == Spec => []EachShotOwed
BY VerdictInvariance, AnswersOwed, PTL

\* last_stage_attempts is exact for every stage.
THEOREM AttemptsAreExact == Spec => []AttemptsExact
<1>1. VerdictInv => AttemptsExact
  <2> SUFFICES ASSUME VerdictInv, pc = "count", NEW k \in 1 .. Stages
               PROVE  attempts[k] = Cardinality(Reached(k))
    BY DEF AttemptsExact, Reached
  <2>1. CASE k < stage
    BY <2>1 DEF VerdictInv, Escalated
  <2>2. CASE ~(k < stage)
    <3>1. stage \in 1 .. Stages /\ pending = {} /\ pending = Reached(stage)
      BY <2>2, StagesAssumption DEF VerdictInv, Typed, Surfaced, Escalated
    <3>2. Reached(k) \subseteq Reached(stage)
      BY <2>2, <3>1, StagesAssumption DEF Reached
    <3>3. Reached(k) = {} /\ attempts[k] = 0
      BY <2>2, <3>1, <3>2 DEF VerdictInv, Escalated
    <3> QED
      BY <3>3, FS_EmptySet
  <2> QED
    BY <2>1, <2>2
<1> QED
  BY <1>1, VerdictInvariance, PTL

\* The counts of a batch are the sums of what its shots deserve, for every
\* policy.
THEOREM CountsAreDeserved == Spec => []CountsDeserved
BY VerdictInvariance, PTL DEF VerdictInv
=============================================================================
