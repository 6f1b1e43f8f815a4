SPECIFICATION Spec
CONSTANTS
  NP = 2
  Width = 1
  NQ = 5
  Patches <- MCPatches
  Data <- MCData
  Checks <- MCChecks
  LogicalX <- MCLogicalX
  LogicalZ <- MCLogicalZ
  BirthChecks <- BornLast
  Kinds <- Alike
  Seams <- MCSeams
  Prepared <- Either
  Bases = {"X", "Z"}
  ReadSets <- AnySet
  Together = TRUE
  Rounds = {1, 2}
  MaxRecords = 18
CHECK_DEADLOCK FALSE
INVARIANTS
  NoFault
  DetectorsDeterministic
  ObservablesDetermined
  TableauIsState
  RowsTrue
  BooksClose
  NothingMissed
