--------------------------- MODULE MCBatchVerdict ---------------------------
(* Two shots, two decoders, two observables: shots of every kind meet.      *)
EXTENDS BatchVerdict

CONSTANTS o1, o2

MCVerdicts ==
  [rejected : {FALSE}, flag : [1 .. Stages -> BOOLEAN],
   residual : [1 .. Stages -> {{}, {o1}, {o1, o2}}]]
  \cup {[rejected |-> TRUE, flag |-> [k \in 1 .. Stages |-> TRUE],
         residual |-> [k \in 1 .. Stages |-> {}]]}

MCPolicies ==
  [failure : {"error", "discard", "ignore"},
   corrected : {{}, {o1}}, target : {All, {o2}}]
=============================================================================
