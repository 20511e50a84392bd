\* zmqserver.lua: 2 generations and 1 more after each of 2 crashes, 4 frames, 2
\* records.
CONSTANTS
  StopGeneration = 2
  Dumber = FALSE
  MaxFrames = 4
  MaxRecords = 2
  MaxCrashes = 2
  None = None
  Torn = Torn
SPECIFICATION Spec
INVARIANTS
  FramesCountedOnce
  RecordsAreSaved
