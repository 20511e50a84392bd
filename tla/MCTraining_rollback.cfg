\* As MCTraining_crash: do fitnesses count only plays of their own network?
CONSTANTS
  Population = 1
  Levels = {l1}
  EmulatorsPerClient = 1
  SplitsPerEmulator = 2
  e1 = e1
  e2 = e2
  c1 = c1
  c2 = c2
  Clients = {c1}
  Emulators = {e1, e2}
  ClientOf <- OneHost
  Outdated = {}
  StopSavestate = 3
  SocketsPerEmulator = 2
  MaxKills = 0
  PeriodicKill = TRUE
  NoWork = NoWork
  FirstLayout <- MCFirstLayout
  StopGeneration = 2
  OtherStops <- Never
  MaxCrashes = 1
  NoBackup = NoBackup
SPECIFICATION SafetySpec
INVARIANTS
  OwnPlays
