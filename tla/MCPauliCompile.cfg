SPECIFICATION CompileSpec
CONSTANTS
  Sources <- MCSources
  Circuits = {}
  SweepCap = 40
  HubCap = 3
INVARIANTS
  StatisticsKept
  NothingRefused
