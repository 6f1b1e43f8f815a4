----------------------------- MODULE BatchVerdict -----------------------------
(***************************************************************************)
(* How one batch of sampled shots becomes a number of kept shots and of    *)
(* errors: apply_post_selection, the escalation of a chain of decoders     *)
(* (_CompiledChain.decode_shots_bit_packed) and count_batch.               *)
(*                                                                         *)
(* A shot is what the properties tell apart: does a post-selected detector *)
(* or observable fire, and, for each decoder of the chain, which           *)
(* observables stay wrong after its correction and does it flag the shot   *)
(* as decoded?                                                             *)
(***************************************************************************)
EXTENDS Integers, FiniteSets

CONSTANTS
  Shots,      \* the shots of the batch
  Stages,     \* decoders in the chain
  Verdicts,   \* what the shots can be: a set of records, see below
  Policies,   \* accounting policies considered
  All         \* the target of a policy that names none: every observable counts

\* A policy: on_decode_failure; the observables whose corrected value is
\* post-selected; the observables that count, or All.
ASSUME PoliciesAssumption ==
  \A p \in Policies : p.failure \in {"error", "discard", "ignore"}
ASSUME StagesAssumption == Stages \in Nat \ {0}
ASSUME ShotsAssumption == IsFiniteSet(Shots)
\* A verdict: rejected before decoding?, the residual and the flag per stage.
ASSUME VerdictsAssumption ==
  \A v \in Verdicts : /\ v.rejected \in BOOLEAN
                      /\ v.flag \in [1 .. Stages -> BOOLEAN]
                      /\ DOMAIN v.residual = 1 .. Stages

VARIABLES
  policy,    \* the accounting policy; never changes
  batch,     \* what each shot is; never changes
  silent,    \* the stages that never emit flags; never changes
  pc,
  filtered,  \* the shots that pass post-selection
  stage,     \* k
  pending,   \* shots no stage has resolved yet
  answer,    \* predictions: the stage each shot's prediction comes from, or 0
  attempts,  \* last_stage_attempts
  failed,    \* the shots with last_flags FALSE
  kept, errors

inputs == <<policy, batch, silent>>
vars == <<inputs, pc, filtered, stage, pending, answer, attempts, failed,
          kept, errors>>

Init == /\ policy \in Policies
        /\ batch \in [Shots -> Verdicts]
        /\ silent \in SUBSET (1 .. Stages)
        /\ pc = "select" /\ stage = 1
        /\ filtered = {} /\ pending = {} /\ failed = {}
        /\ answer = [s \in Shots |-> 0]
        /\ attempts = [k \in 1 .. Stages |-> 0]
        /\ kept = 0 /\ errors = 0

-----------------------------------------------------------------------------

\* apply_post_selection; a batch of which nothing is left is not decoded.
PostSelect ==
  /\ pc = "select"
  /\ filtered' = {s \in Shots : ~batch[s].rejected}
  /\ pending' = filtered'
  /\ pc' = IF filtered' = {} THEN "done" ELSE "decode"
  /\ UNCHANGED <<inputs, stage, answer, attempts, failed, kept, errors>>

\* Mutant of Unresolved: a silent stage leaves its shots to the next one.
Unresolved_Silent(k, S) == {s \in S : k \in silent \/ ~batch[s].flag[k]}

\* The shots of S that stage k fails on; a stage without flags fails on none.
Unresolved(k, S) == IF k \in silent THEN {} ELSE {s \in S : ~batch[s].flag[k]}

\* Mutant of Escalate: a stage decodes all shots again, not the failed ones.
Escalate_Everything ==
  /\ pc = "decode" /\ stage <= Stages /\ pending # {}
  /\ attempts' = [attempts EXCEPT ![stage] = Cardinality(pending)]
  /\ answer' = [s \in Shots |-> IF s \in filtered THEN stage ELSE answer[s]]
  /\ pending' = Unresolved(stage, pending)
  /\ stage' = stage + 1
  /\ UNCHANGED <<inputs, pc, filtered, failed, kept, errors>>

\* One stage of the chain decodes the pending shots.
Escalate ==
  /\ pc = "decode" /\ stage <= Stages /\ pending # {}
  /\ attempts' = [attempts EXCEPT ![stage] = Cardinality(pending)]
  /\ answer' = [s \in Shots |-> IF s \in pending THEN stage ELSE answer[s]]
  /\ pending' = Unresolved(stage, pending)
  /\ stage' = stage + 1
  /\ UNCHANGED <<inputs, pc, filtered, failed, kept, errors>>

\* The chain's own last_flags.
Surface ==
  /\ pc = "decode" /\ (stage > Stages \/ pending = {})
  /\ failed' = pending
  /\ pc' = "count"
  /\ UNCHANGED <<inputs, filtered, stage, pending, answer, attempts, kept, errors>>

\* The observables still wrong after the correction.
Residual(s) == batch[s].residual[answer[s]]

Wrong(s) == IF policy.target = All THEN Residual(s) # {}
            ELSE Residual(s) \cap policy.target # {}

KeepMask  == {s \in filtered : Residual(s) \cap policy.corrected = {}}
ErrorMask == {s \in filtered : Wrong(s)}

\* Mutant of Judge: a failed decode does not stay in the denominator.
Judge_FailedVanish(fail) ==
  CASE fail = {} \/ policy.failure = "ignore" -> <<KeepMask, ErrorMask>>
    [] policy.failure = "discard" -> <<KeepMask \ fail, ErrorMask>>
    [] OTHER -> <<KeepMask, ErrorMask \cup fail>>

\* keep_mask and error_mask of count_batch.
Judge(fail) ==
  CASE fail = {} \/ policy.failure = "ignore" -> <<KeepMask, ErrorMask>>
    [] policy.failure = "discard" -> <<KeepMask \ fail, ErrorMask>>
    [] OTHER -> <<KeepMask \cup fail, ErrorMask \cup fail>>

Count ==
  /\ pc = "count"
  /\ kept' = Cardinality(Judge(failed)[1])
  /\ errors' = Cardinality(Judge(failed)[1] \cap Judge(failed)[2])
  /\ pc' = "done"
  /\ UNCHANGED <<inputs, filtered, stage, pending, answer, attempts, failed>>

Halt == pc = "done" /\ UNCHANGED vars

Next == PostSelect \/ Escalate \/ Surface \/ Count \/ Halt

Spec == Init /\ [][Next]_vars

-----------------------------------------------------------------------------
(* Reference definitions, one shot at a time.                               *)

Resolves(k, s) == k \in silent \/ batch[s].flag[k]

\* The decoder a shot is owed: the first that resolves it, or else the last.
Owed(s) == LET R == {k \in 1 .. Stages : Resolves(k, s)}
           IN IF R = {} THEN Stages ELSE CHOOSE k \in R : \A l \in R : k <= l

Lost(s) == \A k \in 1 .. Stages : ~Resolves(k, s)

\* What becomes of one shot, by the words of on_decode_failure.
Fate(s) ==
  LET left == batch[s].residual[Owed(s)]
      wrong == IF policy.target = All THEN left # {} ELSE left \cap policy.target # {}
  IN CASE batch[s].rejected -> "dropped"
       [] ~batch[s].rejected /\ Lost(s) /\ policy.failure = "error" -> "error"
       [] ~batch[s].rejected /\ Lost(s) /\ policy.failure = "discard" -> "dropped"
       [] OTHER -> IF left \cap policy.corrected # {} THEN "dropped"
                   ELSE IF wrong THEN "error" ELSE "good"

-----------------------------------------------------------------------------
(* Properties.                                                              *)

\* Escalation is by shot: whatever mix of shots a batch holds, each ends with
\* the prediction of the first stage that resolves it.
EachShotOwed == pc = "count" => \A s \in filtered : answer[s] = Owed(s)

\* last_stage_attempts counts the shots that all earlier stages failed on, and
\* a stage that was not reached has none.
AttemptsExact ==
  pc = "count" =>
    \A k \in 1 .. Stages :
      attempts[k] = Cardinality({s \in filtered : \A l \in 1 .. k - 1 : ~Resolves(l, s)})

\* The counts are the sums of what each shot deserves: a failed shot neither
\* vanishes from the denominator under "error" nor stays in it under "discard",
\* post-selected or not.
CountsDeserved ==
  pc = "done" =>
    /\ errors = Cardinality({s \in Shots : Fate(s) = "error"})
    /\ kept = Cardinality({s \in Shots : Fate(s) # "dropped"})
=============================================================================
