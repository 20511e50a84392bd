\* Two emulators of a host, 2 genomes with 2 levels, 2 generations; one emulator starts
\* with older code; 1 process dies or goes away.
CONSTANTS
  Population = 2
  Levels = {l1, l2}
  EmulatorsPerClient = 1
  SplitsPerEmulator = 2
  e1 = e1
  e2 = e2
  c1 = c1
  Emulators = {e1, e2}
  Clients = {c1}
  ClientOf <- OneHost
  Outdated = {e2}
  SendWeight = 2
  RequestLimit = 3
  Decay = 1
  FirstLayout <- MCFirstLayout
  StopGeneration = 2
  OtherStops <- Never
  MaxFailures = 1
  Nobody = Nobody
  Gone = Gone
  Vanished = Vanished
  NoLine = NoLine
  NoWork = NoWork
SPECIFICATION Spec
INVARIANTS
  TypeOK
  UnrequestedFirst
  NetworkMatchesAddress
PROPERTIES
  EvaluatesInOrder
  FinishesUnlessCutOff
