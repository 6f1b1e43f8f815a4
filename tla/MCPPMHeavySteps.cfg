SPECIFICATION Spec
CONSTANTS
  p1 = p1
  p2 = p2
  p3 = p3
  p4 = p4
  c1 = c1
  c2 = c2
  c3 = c3
  c4 = c4
  c5 = c5
  Patches = {p1, p2, p3, p4}
  Cells = {c1, c2, c3, c4, c5}
  Nobody = Nobody
  NoCoupler = NoCoupler
  NoPin = NoPin
  RotationSearchCap = 1
  Experiments <- RotationExperiments
INVARIANTS
  NoStaleCoupler
