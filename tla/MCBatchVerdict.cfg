SPECIFICATION Spec
CONSTANTS
  Shots = {s1, s2}
  Stages = 2
  o1 = o1
  o2 = o2
  All = All
  Verdicts <- MCVerdicts
  Policies <- MCPolicies
INVARIANTS
  EachShotOwed
  AttemptsExact
  CountsDeserved
