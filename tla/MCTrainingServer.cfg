\* The server alone, any message at any time: 2 genomes with 3 levels, 1
\* client, 1 generation boundary, 1 crash.
CONSTANTS
  Population = 2
  Levels = {l1, l2, l3}
  EmulatorsPerClient = 1
  SplitsPerEmulator = 4
  Clients = {c1}
  FirstLayout <- MCFirstLayout
  StopGeneration = 1
  OtherStops <- MCOtherStops
  MaxCrashes = 1
  NoBackup = NoBackup
SPECIFICATION MCSpec
INVARIANTS
  TypeOK
  CounterExact
  JobsShareLevels
  FitnessSumsEachLevelOnce
  CacheHoldsOpenGenomes
  AdvanceTerminates
