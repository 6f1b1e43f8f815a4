---------------------------- MODULE SamplingPool ----------------------------
(***************************************************************************)
(* A Monte Carlo run of the decoder backend: SimulationPipeline.run with   *)
(* one process (_run_custom_single) or with a pool of workers              *)
(* (_run_custom and _decode_worker_cpu) that share four counters under one *)
(* lock, while the parent polls the counters without the lock and reports. *)
(*                                                                         *)
(* A critical section is one action, because the counters are written      *)
(* nowhere else; the parent's three reads are three actions, because they  *)
(* are not in one.  Which shots survive post-selection and which are wrong *)
(* is a choice.                                                            *)
(***************************************************************************)
EXTENDS Integers, FiniteSets, FiniteSetsExt

CONSTANTS
  Workers,  \* the worker processes
  Configs   \* the pipeline configurations considered

\* A configuration: how many processes; the two stop conditions; the batch;
\* does it post-select, does it discard failed decodes, does it report?
ASSUME ConfigsAssumption ==
  Configs \subseteq [pool : BOOLEAN, maxShots : Nat, maxErrors : Nat,
                     batch : Nat \ {0}, selects : BOOLEAN, discards : BOOLEAN,
                     reports : BOOLEAN]
ASSUME WorkersAssumption == IsFiniteSet(Workers) /\ Workers # {}

VARIABLES
  cfg,        \* PipelineConfig; never changes
  shots,      \* shots_counter: shots reserved
  completed,  \* completed_counter: shots decoded
  kept,       \* post_counter
  errors,     \* errors_counter
  wpc,        \* where each worker is
  take,       \* shots_to_take of each worker, until they are counted
  tally,      \* batch_kept and batch_errors of each worker
  pc,         \* where the parent is
  snap,       \* the snapshot the parent is putting together
  emitted,    \* has the reporter emitted a line? (_has_emitted)
  stats       \* the SimulationStats returned

counters == <<shots, completed, kept, errors>>
locals   == <<wpc, take, tally>>
parent   == <<pc, snap, emitted, stats>>
vars     == <<cfg, counters, locals, parent>>

Nothing == [kept |-> 0, errors |-> 0]
Blank   == [shots |-> 0, kept |-> 0, errors |-> 0]

Ended(w) == wpc[w] \in {"exited", "dead"}
Dead     == {w \in Workers : wpc[w] = "dead"}

\* How many shots the processes W have in their hands, the k-th of worker w
\* being <<w, k>>.
InFlight(W) == Cardinality(UNION {{w} \X (1 .. take[w]) : w \in W})

Init == /\ cfg \in Configs
        /\ shots = 0 /\ completed = 0 /\ kept = 0 /\ errors = 0
        /\ wpc = [w \in Workers |-> "unborn"]
        /\ take = [w \in Workers |-> 0]
        /\ tally = [w \in Workers |-> Nothing]
        /\ pc = IF cfg.pool THEN "spawn" ELSE "single"
        /\ snap = Blank /\ stats = Blank
        /\ emitted = FALSE

-----------------------------------------------------------------------------
(* One batch.                                                               *)

\* What post-selection and count_batch can make of n sampled shots.
Tallies(n) ==
  {t \in [kept : 0 .. n, errors : 0 .. n] :
     /\ t.errors <= t.kept
     /\ t.kept = n \/ cfg.selects \/ cfg.discards}

-----------------------------------------------------------------------------
(* The workers.                                                             *)

\* Mutant of Full: the shot limit is tested strictly.
Full_Strict == shots > cfg.maxShots \/ errors >= cfg.maxErrors

\* The stop conditions, read under the lock.
Full == shots >= cfg.maxShots \/ errors >= cfg.maxErrors

\* Mutant of Share: the last batch is not cut to what remains.
Share_Uncut == cfg.batch

\* Mutant of Share: all that remains, whatever the batch.
Share_All == cfg.maxShots - shots

\* What a worker reserves.
Share == Min({cfg.batch, cfg.maxShots - shots})

\* The decoder and the sampler of the process are built.
SetUp(w) ==
  /\ wpc[w] = "setup"
  /\ wpc' = [wpc EXCEPT ![w] = "reserve"]
  /\ UNCHANGED <<cfg, counters, take, tally, parent>>

Leave(w) ==
  /\ wpc[w] = "reserve"
  /\ Full
  /\ wpc' = [wpc EXCEPT ![w] = "exited"]
  /\ UNCHANGED <<cfg, counters, take, tally, parent>>

Reserve(w) ==
  /\ wpc[w] = "reserve"
  /\ ~Full
  /\ take' = [take EXCEPT ![w] = Share]
  /\ shots' = shots + Share
  /\ wpc' = [wpc EXCEPT ![w] = "sample"]
  /\ UNCHANGED <<cfg, completed, kept, errors, tally, parent>>

\* Post-selection lets no shot through.
SampleNone(w) ==
  /\ wpc[w] = "sample"
  /\ cfg.selects
  /\ wpc' = [wpc EXCEPT ![w] = "skip"]
  /\ UNCHANGED <<cfg, counters, take, tally, parent>>

\* The batch is sampled, decoded and judged, outside the lock.
SampleSome(w) ==
  /\ wpc[w] = "sample"
  /\ \E t \in Tallies(take[w]) : tally' = [tally EXCEPT ![w] = t]
  /\ wpc' = [wpc EXCEPT ![w] = "count"]
  /\ UNCHANGED <<cfg, counters, take, parent>>

\* Mutant of Skip: a batch that is rejected as a whole is forgotten.
Skip_Uncounted(w) ==
  /\ wpc[w] = "skip"
  /\ take' = [take EXCEPT ![w] = 0]
  /\ wpc' = [wpc EXCEPT ![w] = "reserve"]
  /\ UNCHANGED <<cfg, counters, tally, parent>>

Skip(w) ==
  /\ wpc[w] = "skip"
  /\ completed' = completed + take[w]
  /\ take' = [take EXCEPT ![w] = 0]
  /\ wpc' = [wpc EXCEPT ![w] = "reserve"]
  /\ UNCHANGED <<cfg, shots, kept, errors, tally, parent>>

\* Mutant of Count: the shots kept are taken for the shots decoded.
Count_KeptOnly(w) ==
  /\ wpc[w] = "count"
  /\ kept' = kept + tally[w].kept
  /\ errors' = errors + tally[w].errors
  /\ completed' = completed + tally[w].kept
  /\ take' = [take EXCEPT ![w] = 0]
  /\ tally' = [tally EXCEPT ![w] = Nothing]
  /\ wpc' = [wpc EXCEPT ![w] = "reserve"]
  /\ UNCHANGED <<cfg, shots, parent>>

Count(w) ==
  /\ wpc[w] = "count"
  /\ kept' = kept + tally[w].kept
  /\ errors' = errors + tally[w].errors
  /\ completed' = completed + take[w]
  /\ take' = [take EXCEPT ![w] = 0]
  /\ tally' = [tally EXCEPT ![w] = Nothing]
  /\ wpc' = [wpc EXCEPT ![w] = "reserve"]
  /\ UNCHANGED <<cfg, shots, parent>>

\* A worker raises while it sets up, samples or decodes (the chain does on a
\* stage of the wrong shape), or is killed between two critical sections.
Die(w) ==
  /\ wpc[w] \notin {"unborn", "exited", "dead"}
  /\ wpc' = [wpc EXCEPT ![w] = "dead"]
  /\ UNCHANGED <<cfg, counters, take, tally, parent>>

Work(w) == \/ SetUp(w) \/ Leave(w) \/ Reserve(w) \/ SampleNone(w)
           \/ SampleSome(w) \/ Skip(w) \/ Count(w)

-----------------------------------------------------------------------------
(* The parent.                                                              *)

\* The processes are started one by one.
Spawn ==
  /\ pc = "spawn"
  /\ \E w \in Workers :
       /\ wpc[w] = "unborn"
       /\ wpc' = [wpc EXCEPT ![w] = "setup"]
       /\ pc' = IF \A v \in Workers \ {w} : wpc[v] # "unborn"
                THEN "poll" ELSE "spawn"
  /\ UNCHANGED <<cfg, counters, take, tally, snap, emitted, stats>>

\* effective_kept: without post-selection every shot is in the denominator.
Denominator(s, k) == IF cfg.selects THEN k ELSE s

PollShots ==
  /\ pc = "poll"
  /\ \E w \in Workers : ~Ended(w)
  /\ snap' = [Blank EXCEPT !.shots = completed]
  /\ pc' = "pollKept"
  /\ UNCHANGED <<cfg, counters, locals, emitted, stats>>

PollKept ==
  /\ pc = "pollKept"
  /\ snap' = [snap EXCEPT !.kept = Denominator(snap.shots, kept)]
  /\ pc' = "pollErrors"
  /\ UNCHANGED <<cfg, counters, locals, emitted, stats>>

PollErrors ==
  /\ pc = "pollErrors"
  /\ snap' = [snap EXCEPT !.errors = errors]
  /\ pc' = "emit"
  /\ UNCHANGED <<cfg, counters, locals, emitted, stats>>

\* ler_error_bar takes the square root of ler * (1 - ler) / n.  Of a negative
\* number that is complex, and comparing it with 0 raises a TypeError.
BarIsReal(s) == s.kept = 0 \/ s.errors <= s.kept

\* Between two lines the reporter waits; the first line is never held back.
Throttled ==
  /\ pc = "emit"
  /\ cfg.reports => emitted
  /\ snap' = Blank
  /\ pc' = "poll"
  /\ UNCHANGED <<cfg, counters, locals, emitted, stats>>

Emit ==
  /\ pc = "emit"
  /\ cfg.reports
  /\ IF BarIsReal(snap) THEN pc' = "poll"   /\ emitted' = TRUE
                        ELSE pc' = "raised" /\ emitted' = emitted
  /\ snap' = Blank
  /\ UNCHANGED <<cfg, counters, locals, stats>>

\* Mutant of Join: the pool is not waited for once a worker has left.
Join_Early ==
  /\ pc = "poll"
  /\ \E w \in Workers : Ended(w)
  /\ snap' = [shots |-> completed, kept |-> Denominator(completed, kept),
              errors |-> errors]
  /\ pc' = IF cfg.reports /\ ~BarIsReal(snap') THEN "raised" ELSE "returned"
  /\ stats' = [shots |-> completed, kept |-> kept, errors |-> errors]
  /\ UNCHANGED <<cfg, counters, locals, emitted>>

\* All processes have ended, none of them asked how: the last snapshot is
\* reported and the counters are returned.
Join ==
  /\ pc = "poll"
  /\ \A w \in Workers : Ended(w)
  /\ snap' = [shots |-> completed, kept |-> Denominator(completed, kept),
              errors |-> errors]
  /\ pc' = IF cfg.reports /\ ~BarIsReal(snap') THEN "raised" ELSE "returned"
  /\ stats' = [shots |-> completed, kept |-> kept, errors |-> errors]
  /\ UNCHANGED <<cfg, counters, locals, emitted>>

-----------------------------------------------------------------------------
(* One process.                                                             *)

\* A turn of the loop: a whole batch is sampled, however few shots remain.
SingleBatch ==
  /\ pc = "single"
  /\ ~Full
  /\ \E t \in Tallies(cfg.batch) :
       /\ kept' = kept + t.kept
       /\ errors' = errors + t.errors
  /\ shots' = shots + cfg.batch
  /\ completed' = completed + cfg.batch
  /\ UNCHANGED <<cfg, locals, parent>>

SingleReturn ==
  /\ pc = "single"
  /\ Full
  /\ pc' = "returned"
  /\ snap' = [shots |-> completed, kept |-> Denominator(completed, kept),
              errors |-> errors]
  /\ stats' = [shots |-> completed, kept |-> kept, errors |-> errors]
  /\ UNCHANGED <<cfg, counters, locals, emitted>>

\* The decoder raises in the only process there is.
SingleRaise ==
  /\ pc = "single"
  /\ pc' = "raised"
  /\ UNCHANGED <<cfg, counters, locals, snap, emitted, stats>>

Oversee == \/ Spawn \/ PollShots \/ PollKept \/ PollErrors \/ Throttled
           \/ Emit \/ Join \/ SingleBatch \/ SingleReturn

Finished == pc \in {"returned", "raised"}

\* The call is over and so are the processes it started (a parent that raised
\* while spawning is not modelled).
Halt == Finished /\ (\A w \in Workers : Ended(w) \/ wpc[w] = "unborn")
                 /\ UNCHANGED vars

Next == \/ Oversee \/ SingleRaise \/ Halt
        \/ \E w \in Workers : Work(w) \/ Die(w)

\* The parent and each worker that is alive keep running.
Fairness == WF_vars(Oversee) /\ \A w \in Workers : WF_vars(Work(w))

Spec == Init /\ [][Next]_vars /\ Fairness

-----------------------------------------------------------------------------
(* Properties.                                                              *)

\* Every reserved shot is counted as completed, is in the hands of one worker,
\* or was in the hands of one that died: no path through the worker loop (an
\* empty batch, a cut batch) counts a shot twice or never.  And no path lets
\* errors_counter overtake post_counter, or that completed_counter: a rate
\* computed under the lock is a rate.
WorkConserved ==
  /\ shots = completed + InFlight(Workers)
  /\ errors <= kept
  /\ kept <= completed

\* What a limit may be passed by does not grow with the run.  Workers racing
\* for the last shots never sample more than was asked for, and the single
\* loop, which samples whole batches, exceeds it by less than a batch; when
\* the error limit is hit, each worker may still hold one batch.
LimitsHeld ==
  /\ shots < cfg.maxShots + (IF cfg.pool THEN 1 ELSE cfg.batch)
  /\ errors > 0 => errors + InFlight(Workers \ Dead) <
                    cfg.maxErrors
                    + cfg.batch * (IF cfg.pool THEN Cardinality(Workers) ELSE 1)

\* A call that returns with all its workers healthy has met a stop condition,
\* and returns what all of them did, not what they had done when it looked.
ReturnsAll ==
  pc = "returned" => /\ stats = [shots |-> completed, kept |-> kept,
                                 errors |-> errors]
                     /\ Dead = {} => completed >= cfg.maxShots
                                     \/ errors >= cfg.maxErrors

Status == IF Finished THEN pc ELSE "running"

Task == [maxShots |-> cfg.maxShots, maxErrors |-> cfg.maxErrors,
         batch |-> cfg.batch,
         surplus |-> IF cfg.pool THEN 0 ELSE cfg.batch - 1]

Run == INSTANCE SamplingRun WITH
         task <- Task, shots <- completed, short <- Dead # {}, status <- Status

\* The pool and the single loop both implement the abstract run: the counts
\* grow by whole batches with their verdicts, and a call returns only when a
\* stop condition holds or a process was lost.
ImplementsRun == Run!Init /\ [][Run!Next]_(Run!vars)

\* The call ends, whatever the workers sample and whichever of them die.
Returns == <>Finished
=============================================================================
