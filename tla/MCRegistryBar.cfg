SPECIFICATION Spec
CONSTANTS
  D = 3
  NSteps = 3
  Home <- MCHome
  Coupler <- MCCoupler
  Programs <- BarPrograms
  Kinds = {"p", "pT", "q", "qT", "pq", "pqT", "pFar"}
INVARIANTS
  CircuitLocated
