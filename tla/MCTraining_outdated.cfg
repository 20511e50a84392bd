\* One of two emulators runs the code of an older experiment; no kills.
CONSTANTS
  Population = 2
  Levels = {l1, l2}
  EmulatorsPerClient = 1
  SplitsPerEmulator = 2
  e1 = e1
  e2 = e2
  c1 = c1
  c2 = c2
  Clients = {c1, c2}
  Emulators = {e1, e2}
  ClientOf <- TwoHosts
  Outdated = {e1}
  StopSavestate = 5
  SocketsPerEmulator = 2
  MaxKills = 0
  PeriodicKill = FALSE
  NoWork = NoWork
  FirstLayout <- MCFirstLayout
  StopGeneration = 1
  OtherStops <- Never
  MaxCrashes = 0
  NoBackup = NoBackup
SPECIFICATION SafetySpec
INVARIANTS
  DieOrderArrives
