\* Can a server that died always be started again?
CONSTANTS
  StopGeneration = 2
  Dumber = FALSE
  MaxFrames = 4
  MaxRecords = 2
  MaxCrashes = 2
  None = None
  Torn = Torn
SPECIFICATION Spec
INVARIANTS
  CanContinue
