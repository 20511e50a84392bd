\* 2 experiments, then the default one again and again; dumber_server.lua: 2 generations
\* and 1 more after a crash, 4 frames, 2 records, 2 deaths of processes.
CONSTANTS
  StopGeneration = 2
  Dumber = TRUE
  MaxFrames = 4
  MaxRecords = 2
  MaxCrashes = 2
  ExperimentCount = 2
  None = None
  Torn = Torn
SPECIFICATION SpecExperiments
INVARIANTS
  TypeOKExperiments
  ConfigNamesCompleteBackup
  NoFrameMissed
  NoneLost
  ArchivedWereTrained
  CodeOfExperiment
PROPERTIES
  AllComplete
