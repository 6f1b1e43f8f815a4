SPECIFICATION CompileSpec
CONSTANTS
  Sources <- UnguardedSources
  Circuits = {}
  SweepCap = 40
  HubCap = 3
INVARIANT NothingRefused
