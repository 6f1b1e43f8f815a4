SPECIFICATION Spec
CONSTANTS
  q1 = q1
  q2 = q2
  q3 = q3
  Circuits <- MCCircuits
  SweepCap = 2
  HubCap = 3
INVARIANTS
  Contract
  ProgramOrder
  GreedySound
  LayeringRespectsPrecedence
PROPERTIES
  Advances
