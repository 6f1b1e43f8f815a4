SPECIFICATION Spec
CONSTANTS
  Workers = {w1, w2}
  Configs <- MCConfigs
INVARIANTS
  WorkConserved
  LimitsHeld
  ReturnsAll
PROPERTIES
  ImplementsRun
  Returns
