----------------------------- MODULE SamplingRun -----------------------------
(***************************************************************************)
(* What a Monte Carlo run promises (SimulationPipeline.run), however many  *)
(* processes carry it out: shots are added a batch at a time, each counted *)
(* with its verdict, and the run returns once there are enough shots or    *)
(* enough errors.                                                          *)
(***************************************************************************)
EXTENDS Naturals

VARIABLES
  task,  \* maxShots and maxErrors, the stop conditions; batch, the shots of
         \* one batch at most; surplus, the shots allowed beyond maxShots
  shots, kept, errors,  \* the counts a caller can see
  short,                \* has a part of the work been lost?
  status                \* "running", "returned" or "raised"

vars == <<task, shots, kept, errors, short, status>>

Init == /\ shots = 0 /\ kept = 0 /\ errors = 0
        /\ short = FALSE
        /\ status = "running"

\* A batch of n shots is decoded: k of them are kept and e of those are wrong.
\* A run whose reporting failed leaves its processes at work.
Add == /\ status # "returned"
       /\ \E n \in 1 .. task.batch : \E k \in 0 .. n : \E e \in 0 .. k :
            /\ shots + n <= task.maxShots + task.surplus
            /\ shots' = shots + n
            /\ kept' = kept + k
            /\ errors' = errors + e
       /\ UNCHANGED <<task, short, status>>

\* A process is lost, and with it the shots it had taken.
Lose == /\ short' = TRUE
        /\ UNCHANGED <<task, shots, kept, errors, status>>

Return == /\ status = "running"
          /\ short \/ shots >= task.maxShots \/ errors >= task.maxErrors
          /\ status' = "returned"
          /\ UNCHANGED <<task, shots, kept, errors, short>>

Raise == /\ status = "running"
         /\ status' = "raised"
         /\ UNCHANGED <<task, shots, kept, errors, short>>

Next == Add \/ Lose \/ Return \/ Raise

Spec == Init /\ [][Next]_vars
=============================================================================
