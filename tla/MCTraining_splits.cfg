\* Emulators of two hosts, 2 genomes with 2 levels, jobs split while others
\* play them, 1 generation boundary; 1 kill; exit after 5 levels.
CONSTANTS
  Population = 2
  Levels = {l1, l2}
  EmulatorsPerClient = 1
  SplitsPerEmulator = 2
  e1 = e1
  e2 = e2
  c1 = c1
  c2 = c2
  Clients = {c1, c2}
  Emulators = {e1, e2}
  ClientOf <- TwoHosts
  Outdated = {}
  StopSavestate = 5
  SocketsPerEmulator = 2
  MaxKills = 1
  PeriodicKill = TRUE
  NoWork = NoWork
  FirstLayout <- MCFirstLayout
  StopGeneration = 1
  OtherStops <- Never
  MaxCrashes = 0
  NoBackup = NoBackup
SPECIFICATION Spec
INVARIANTS
  NetworkMatchesAddress
  OwnPlays
  CreditConserved
  EveryRequestIsAnswered
PROPERTIES
  EvaluatesInOrder
  EvaluatesPools
