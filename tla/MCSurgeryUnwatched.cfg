SPECIFICATION Spec
CONSTANTS
  NP = 2
  Width = 2
  NQ = 6
  Patches <- MCPatches
  Data <- MCData
  Checks <- MCChecks
  LogicalX <- MCLogicalX
  LogicalZ <- MCLogicalZ
  BirthChecks <- NoBirth
  Kinds <- Alike
  Seams <- MCSeams
  Prepared <- Either
  Bases = {"X", "Z"}
  ReadSets <- AllTogether
  Together = FALSE
  Rounds = {1}
  MaxRecords = 18
CHECK_DEADLOCK FALSE
INVARIANTS ObservablesDetermined
