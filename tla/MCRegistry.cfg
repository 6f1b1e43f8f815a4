SPECIFICATION Spec
CONSTANTS
  D = 3
  NSteps = 3
  Home <- MCHome
  Coupler <- MCCoupler
  Programs <- MCPrograms
  Kinds = {"p", "pT", "q", "qT", "pq", "pqT", "pFar"}
INVARIANTS
  NoFault
  MapsAgree
  RegistrySound
  ChecksFollow
  LedgerExact
  DeclaredIsTouched
PROPERTIES
  FreedStaysFree
