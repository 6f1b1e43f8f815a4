----------------------------- MODULE PPMProgram -----------------------------
(***************************************************************************)
(* What the PPM driver promises about a program, without saying how.       *)
(*                                                                         *)
(* A program is a sequence of joint Pauli-product measurements (steps) on  *)
(* named patches.  Whatever corridors are found, whichever steps share a   *)
(* merge window and whichever cells are reused, the emitted circuit        *)
(*   - brings every patch to life once and reads it out once,              *)
(*   - measures every step once, on live patches, and in an order that     *)
(*     only exchanges steps with no patch in common,                       *)
(*   - reads a patch out only after the last step that uses it, and an     *)
(*     output patch (keep) only after the whole sequence.                  *)
(* PPMDriver implements this specification (see PPMDriver!Program).        *)
(***************************************************************************)
EXTENDS Integers

CONSTANT Patches   \* names of the logical patches

VARIABLES
  exp,    \* the experiment being built (its n, targets, keep); never changes
  born,   \* patches brought to life so far
  read,   \* patches read out so far
  done    \* steps measured so far

vars == <<exp, born, read, done>>

Steps == 0 .. exp.n - 1

\* Any program: exp is left free.
Init ==
  /\ born = {}
  /\ read = {}
  /\ done = {}

\* New patches come to life; nobody is born twice.
Birth(S) ==
  /\ S \subseteq Patches \ born
  /\ born' = born \cup S
  /\ UNCHANGED <<exp, read, done>>

\* A merge window measures the steps S at once.  Any earlier step sharing a
\* patch with one of them is done, so two steps of S never share a patch.
Execute(S) ==
  /\ S \subseteq Steps \ done
  /\ \A j \in S : exp.targets[j] \subseteq born \ read
  /\ \A j \in S, l \in Steps :
        l < j /\ exp.targets[l] \cap exp.targets[j] # {} => l \in done
  /\ done' = done \cup S
  /\ UNCHANGED <<exp, born, read>>

\* Patches nobody needs any more are read out; outputs wait for the end.
ReadOut(S) ==
  /\ S \subseteq born \ read
  /\ \A p \in S, j \in Steps : p \in exp.targets[j] => j \in done
  /\ S \cap exp.keep # {} => done = Steps
  /\ read' = read \cup S
  /\ UNCHANGED <<exp, born, done>>

Next ==
  \/ \E S \in SUBSET Patches : Birth(S) \/ ReadOut(S)
  \/ \E S \in SUBSET Steps : Execute(S)

Spec == Init /\ [][Next]_vars
=============================================================================
