\* dumber_server.lua: the frames since the last backup are never reset.
CONSTANTS
  StopGeneration = 2
  Dumber = TRUE
  MaxFrames = 4
  MaxRecords = 2
  MaxCrashes = 2
  None = None
  Torn = Torn
SPECIFICATION Spec
INVARIANTS
  FramesNotOvercounted
