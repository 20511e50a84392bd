-------------------------- MODULE ExperimentsProofs --------------------------
(***************************************************************************)
(* Backups, and the experiments that follow one another.  For every        *)
(* stopping generation, and however often the server dies between any two  *)
(* writes, the config names a complete backup and records are saved; by    *)
(* zmqserver.lua frames are counted once.  A training host, whose server   *)
(* may be dumber_server.lua, keeps backups and records too, and misses no  *)
(* frame, for any number of experiments: no file of an experiment is lost  *)
(* before its results are there, none is archived before it was trained,   *)
(* and emulators are sent the code of the experiment the server trains.    *)
(***************************************************************************)
EXTENDS Experiments, WellFoundedInduction, TLAPS

\* Generations end at StopGeneration, but a server that starts from the last
\* backup of all trains one more.
GenerationsBounded ==
  /\ generation <= StopGeneration + crashes
  /\ phase = "train" => generation < StopGeneration + crashes
  /\ phase \in {"open", "pool", "stats", "conf", "config"} =>
       stopping = (generation >= StopGeneration)

\* What a complete pool file can hold: the pool of the generation in its name.
PoolFilesSound ==
  \A n \in Generations : poolFile[n] \notin {None, Torn} =>
    /\ poolFile[n].generation = n
    /\ poolFile[n].maxFitness \in 0..MaxRecords
    /\ poolFile[n].frames \in 0..MaxFrames
    /\ n <= StopGeneration + crashes
    /\ phase = "down" => n < StopGeneration + crashes

\* The config in memory is the one on file, but for the moment it is written;
\* from the first message of a generation on it names an older backup.
ConfigInStep ==
  /\ phase \notin {"config", "down"} => configFile = conf
  /\ phase = "config" => configFile = Torn /\ conf.backup = generation
  /\ conf.backup = None \/ conf.backup <= generation
  /\ phase \in {"first", "check", "open", "pool", "stats", "conf"} =>
       conf.backup = None \/ conf.backup < generation

\* The files of the backup under way, once written, hold the pool in memory.
BackupUnderWay ==
  /\ phase \in {"stats", "conf", "config"} => poolFile[generation] = PoolNow
  /\ phase \in {"conf", "config"} => statsFile[generation] = "written"

\* A config that names no complete backup would not let a server restart; a
\* backup never overwrites the one the config names because that is older.
IInv ==
  /\ TypeOK
  /\ GenerationsBounded
  /\ PoolFilesSound
  /\ ConfigInStep
  /\ BackupUnderWay
  /\ ConfigNamesCompleteBackup

\* RecordsAreSaved for all phases in which a record could come or go.
RecordsOnFile ==
  phase \in {"train", "first", "check", "stopped", "moved"} /\ ~newMax =>
    LoadedPool(configFile).maxFitness = maxFitness

\* FramesCountedOnce for all phases, and for what a restart finds (zmqserver.lua).
FramesOnFile ==
  /\ configFile # Torn => LoadedPool(configFile).frames = configFile.frames
  /\ phase \in {"train", "first", "check", "open", "pool", "stats", "conf"} =>
       conf.frames + framesSinceLastBackup = framesTrained
  /\ phase = "config" => conf.frames = framesTrained

\* NoFrameMissed likewise, for both servers.
FramesCovered ==
  /\ configFile # Torn => LoadedPool(configFile).frames <= configFile.frames
  /\ phase \in {"train", "first", "check", "open", "pool", "stats", "conf"} =>
       conf.frames + framesSinceLastBackup >= framesTrained
  /\ phase = "config" => conf.frames >= framesTrained

Running ==
  \/ UseResult \/ NewGeneration \/ FirstMessage \/ CheckGeneration
  \/ OpenFiles \/ WritePool \/ WriteStats \/ Remember \/ WriteConfig

-----------------------------------------------------------------------------
\* A first start: the config names no backup.
LEMMA InitInvariant ==
  ASSUME Init
  PROVE  IInv /\ RecordsOnFile /\ FramesOnFile
<1>1. FirstConf \in Confs /\ FirstConf.backup = None /\ FirstConf.frames = 0
  BY DEF FirstConf, Confs
<1>2. 0 \in Generations
  BY BackupAssumption DEF Generations
<1>3. TypeOK
  <2>1. newMax \in BOOLEAN /\ stopping \in BOOLEAN
    BY DEF Init
  <2>2. poolFile \in [Generations -> Pools \cup {None, Torn}]
    BY DEF Init
  <2>3. statsFile \in [Generations -> {"written", None, Torn}]
    BY DEF Init
  <2>4. /\ phase \in Phases
        /\ generation \in Generations /\ lastGeneration \in Generations
        /\ maxFitness \in 0..MaxRecords /\ framesTrained \in 0..MaxFrames
        /\ framesSinceLastBackup \in Nat
        /\ conf \in Confs /\ configFile \in Confs \cup {Torn}
        /\ crashes \in 0..MaxCrashes
    BY <1>1, <1>2, BackupAssumption DEF Init, Phases
  <2> QED
    BY <2>1, <2>2, <2>3, <2>4 DEF TypeOK
<1>4. GenerationsBounded /\ PoolFilesSound /\ ConfigInStep /\ BackupUnderWay
  BY <1>1, BackupAssumption
     DEF Init, GenerationsBounded, PoolFilesSound, ConfigInStep, BackupUnderWay
<1>5. ConfigNamesCompleteBackup
  BY <1>1 DEF Init, ConfigNamesCompleteBackup, Readable
<1>6. RecordsOnFile /\ FramesOnFile
  BY <1>1 DEF Init, RecordsOnFile, FramesOnFile, LoadedPool
<1> QED
  BY <1>3, <1>4, <1>5, <1>6 DEF IInv
\* A step preserves the invariant: one lemma for each kind of step.
LEMMA UseResultInvariant ==
  ASSUME IInv, UseResult
  PROVE  IInv'
<1> USE DEF IInv, UseResult, CanUseResult
<1>1. TypeOK'
  <2>1. newMax' \in BOOLEAN
    BY DEF TypeOK
  <2>2. phase' \in Phases
    BY DEF Phases
  <2>3. maxFitness' \in 0..MaxRecords /\ framesTrained' \in 0..MaxFrames
    BY BackupAssumption DEF TypeOK
  <2> QED
    BY <2>1, <2>2, <2>3 DEF TypeOK, disk
<1>2. GenerationsBounded' /\ ConfigInStep' /\ BackupUnderWay'
  BY DEF TypeOK, disk, GenerationsBounded, ConfigInStep, BackupUnderWay
<1>3. PoolFilesSound'
  BY DEF disk, PoolFilesSound
<1>4. ConfigNamesCompleteBackup'
  BY DEF disk, ConfigNamesCompleteBackup, Readable
<1> QED
  BY <1>1, <1>2, <1>3, <1>4

\* The next generation is above the backup the config names.
LEMMA NewGenerationInvariant ==
  ASSUME IInv, NewGeneration
  PROVE  IInv'
<1> USE DEF IInv, NewGeneration
<1>1. TypeOK'
  <2>1. generation' \in Generations
    BY BackupAssumption DEF TypeOK, GenerationsBounded, Generations
  <2> QED
    BY <2>1 DEF TypeOK, disk, Phases
<1>2. GenerationsBounded' /\ ConfigInStep' /\ BackupUnderWay'
  <2>1. generation \in Int /\ StopGeneration \in Int /\ crashes \in Int
    BY BackupAssumption DEF TypeOK, Generations
  <2>2. conf.backup \in Int \/ conf.backup = None
    BY DEF TypeOK, Confs, Generations
  <2> QED
    BY <2>1, <2>2 DEF disk, GenerationsBounded, ConfigInStep, BackupUnderWay
<1>3. PoolFilesSound'
  BY DEF disk, PoolFilesSound
<1>4. ConfigNamesCompleteBackup'
  BY DEF disk, ConfigNamesCompleteBackup, Readable
<1> QED
  BY <1>1, <1>2, <1>3, <1>4

\* The backup decision is prepared by the first message of a generation.
LEMMA FirstMessageInvariant ==
  ASSUME IInv, FirstMessage
  PROVE  IInv'
<1> USE DEF IInv, FirstMessage
<1>1. TypeOK'
  BY DEF TypeOK, memory, disk, Phases
<1>2. GenerationsBounded' /\ ConfigInStep' /\ BackupUnderWay'
  BY DEF memory, disk, GenerationsBounded, ConfigInStep, BackupUnderWay
<1>3. PoolFilesSound'
  BY DEF disk, PoolFilesSound
<1>4. ConfigNamesCompleteBackup'
  BY DEF disk, ConfigNamesCompleteBackup, Readable
<1> QED
  BY <1>1, <1>2, <1>3, <1>4

\* A backup begins only in a generation the config does not name yet.
LEMMA CheckGenerationInvariant ==
  ASSUME IInv, CheckGeneration
  PROVE  IInv'
<1> USE DEF IInv, CheckGeneration
<1>1. /\ phase = "check"
      /\ phase' \in {"open", "stopped", "train"}
      /\ phase' = "train" => ~stopping'
      /\ stopping' = (generation >= StopGeneration)
      /\ newMax' = newMax \/ newMax' = FALSE
      /\ UNCHANGED <<generation, maxFitness, framesTrained, framesSinceLastBackup, conf,
                     configFile, poolFile, statsFile, crashes>>
      /\ lastGeneration' = generation
  BY DEF SaveNow, BackToLoop, disk
<1> HIDE DEF CheckGeneration
<1>2. TypeOK'
  <2>0. newMax' \in BOOLEAN
    BY <1>1 DEF TypeOK
  <2>1. stopping' \in BOOLEAN
    <3>1. stopping' = (generation >= StopGeneration)
      BY <1>1
    <3> QED
      BY <3>1, SMT
  <2>2. phase' \in Phases /\ lastGeneration' \in Generations
    BY <1>1 DEF TypeOK, Phases
  <2> QED
    BY <1>1, <2>0, <2>1, <2>2 DEF TypeOK
<1>3. GenerationsBounded'
  <2>1. generation \in Int /\ StopGeneration \in Int /\ crashes \in Nat
    BY BackupAssumption DEF TypeOK, Generations
  <2>2. phase' = "train" => ~(generation >= StopGeneration)
    BY <1>1, Zenon
  <2> QED
    BY <1>1, <2>1, <2>2 DEF GenerationsBounded
<1>4. ConfigInStep' /\ BackupUnderWay'
  BY <1>1 DEF ConfigInStep, BackupUnderWay
<1>5. PoolFilesSound'
  BY <1>1 DEF PoolFilesSound
<1>6. ConfigNamesCompleteBackup'
  BY <1>1 DEF ConfigNamesCompleteBackup, Readable
<1> QED
  BY <1>2, <1>3, <1>4, <1>5, <1>6

\* Emptying the files of this generation spares those the config names.
LEMMA OpenFilesInvariant ==
  ASSUME IInv, OpenFiles
  PROVE  IInv'
<1> USE DEF IInv, OpenFiles, BackupNumber
<1>1. TypeOK'
  BY DEF TypeOK, memory, Phases
<1>2. GenerationsBounded' /\ ConfigInStep' /\ BackupUnderWay'
  BY DEF memory, GenerationsBounded, ConfigInStep, BackupUnderWay
<1>3. PoolFilesSound'
  <2>1. \A n \in Generations : poolFile'[n] \in {poolFile[n], Torn}
    BY DEF TypeOK
  <2> QED
    BY <2>1 DEF PoolFilesSound
<1>4. ConfigNamesCompleteBackup'
  <2>1. configFile' = configFile /\ configFile = conf /\ conf \in Confs
    BY DEF ConfigInStep, TypeOK
  <2>3. conf.backup # None => conf.backup # generation
    BY BackupAssumption DEF ConfigInStep, TypeOK, Generations
  <2>2. conf.backup # None =>
          /\ poolFile'[conf.backup] = poolFile[conf.backup]
          /\ statsFile'[conf.backup] = statsFile[conf.backup]
    BY <2>1, <2>3 DEF TypeOK, Confs
  <2> QED
    BY <2>1, <2>2 DEF ConfigNamesCompleteBackup, Readable
<1> QED
  BY <1>1, <1>2, <1>3, <1>4

\* The pool written is the one in memory.
LEMMA WritePoolInvariant ==
  ASSUME IInv, WritePool
  PROVE  IInv'
<1> USE DEF IInv, WritePool, BackupNumber
<1>1. PoolNow \in Pools /\ PoolNow \notin {None, Torn}
  BY BackupAssumption, FilesAssumption DEF TypeOK, PoolNow, Pools
<1>2. TypeOK'
  BY <1>1 DEF TypeOK, memory, Phases
<1>3. GenerationsBounded' /\ ConfigInStep'
  BY DEF memory, GenerationsBounded, ConfigInStep
<1>4. BackupUnderWay'
  BY DEF memory, TypeOK, BackupUnderWay, PoolNow
<1>5. PoolFilesSound'
  <2>1. \A n \in Generations : n # generation => poolFile'[n] = poolFile[n]
    BY DEF TypeOK
  <2>2. /\ poolFile'[generation] = PoolNow
        /\ PoolNow.generation = generation
        /\ PoolNow.maxFitness \in 0..MaxRecords /\ PoolNow.frames \in 0..MaxFrames
    BY DEF TypeOK, PoolNow
  <2> QED
    BY <2>1, <2>2 DEF memory, TypeOK, PoolFilesSound, GenerationsBounded
<1>6. ConfigNamesCompleteBackup'
  <2>1. \A n \in Generations : poolFile[n] \notin {None, Torn} =>
                                 poolFile'[n] \notin {None, Torn}
    BY <1>1 DEF TypeOK
  <2> QED
    BY <2>1, FilesAssumption DEF TypeOK, Confs, ConfigNamesCompleteBackup, Readable
<1> QED
  BY <1>2, <1>3, <1>4, <1>5, <1>6

\* Both files are then written.
LEMMA WriteStatsInvariant ==
  ASSUME IInv, WriteStats
  PROVE  IInv'
<1> USE DEF IInv, WriteStats, BackupNumber
<1>1. TypeOK'
  BY DEF TypeOK, memory, Phases
<1>2. GenerationsBounded' /\ ConfigInStep'
  BY DEF memory, GenerationsBounded, ConfigInStep
<1>3. BackupUnderWay'
  BY DEF memory, TypeOK, BackupUnderWay, PoolNow
<1>4. PoolFilesSound'
  BY DEF memory, PoolFilesSound
<1>5. ConfigNamesCompleteBackup'
  <2>1. \A n \in Generations : statsFile[n] \notin {None, Torn} =>
                                 statsFile'[n] \notin {None, Torn}
    BY FilesAssumption DEF TypeOK
  <2> QED
    BY <2>1, FilesAssumption DEF TypeOK, Confs, ConfigNamesCompleteBackup, Readable
<1> QED
  BY <1>1, <1>2, <1>3, <1>4, <1>5

\* The config is emptied when it is to name the files just written.
LEMMA RememberInvariant ==
  ASSUME IInv, Remember
  PROVE  IInv'
<1> USE DEF IInv, Remember, BackupNumber
<1>1. conf' \in Confs /\ conf'.backup = generation
  BY DEF TypeOK, Confs, FramesAtBackup
<1>2. TypeOK'
  BY <1>1 DEF TypeOK, Phases
<1>3. GenerationsBounded' /\ BackupUnderWay'
  BY DEF GenerationsBounded, BackupUnderWay, PoolNow
<1>4. ConfigInStep'
  BY <1>1, BackupAssumption DEF TypeOK, Generations, ConfigInStep
<1>5. PoolFilesSound'
  BY DEF PoolFilesSound
<1>6. ConfigNamesCompleteBackup'
  BY DEF ConfigNamesCompleteBackup
<1> QED
  BY <1>2, <1>3, <1>4, <1>5, <1>6

\* The config names a complete backup once it can be read again.
LEMMA WriteConfigInvariant ==
  ASSUME IInv, WriteConfig
  PROVE  IInv'
<1> USE DEF IInv, WriteConfig
<1>1. phase' \in {"stopped", "train"} /\ (phase' = "train" => ~stopping)
  BY DEF BackToLoop
<1>2. TypeOK'
  <2>1. framesSinceLastBackup' \in Nat
    BY DEF TypeOK, FramesAfterBackup
  <2>2. newMax' \in BOOLEAN
    OBVIOUS
  <2>3. phase' \in Phases
    BY <1>1 DEF Phases
  <2> QED
    BY <2>1, <2>2, <2>3 DEF TypeOK
<1>3. GenerationsBounded'
  <2>1. generation \in Int /\ StopGeneration \in Int /\ crashes \in Nat
    BY BackupAssumption DEF TypeOK, Generations
  <2>2. stopping = (generation >= StopGeneration)
    BY DEF GenerationsBounded
  <2>3. phase' = "train" => ~(generation >= StopGeneration)
    BY <1>1, <2>2, Zenon
  <2> QED
    BY <1>1, <2>1, <2>3 DEF GenerationsBounded
<1>4. ConfigInStep' /\ BackupUnderWay'
  BY <1>1 DEF ConfigInStep, BackupUnderWay
<1>5. PoolFilesSound'
  BY <1>1 DEF PoolFilesSound
<1>6. ConfigNamesCompleteBackup'
  <2>1. conf.backup = generation /\ generation \in Generations
    BY DEF ConfigInStep, TypeOK
  <2>2. /\ poolFile[generation] = PoolNow /\ PoolNow \in Pools
        /\ statsFile[generation] = "written"
    BY BackupAssumption DEF BackupUnderWay, TypeOK, Pools, PoolNow
  <2> QED
    BY <2>1, <2>2, FilesAssumption DEF ConfigNamesCompleteBackup, Readable
<1> QED
  BY <1>2, <1>3, <1>4, <1>5, <1>6

\* The end of an experiment.
LEMMA MoveResultsInvariant ==
  ASSUME IInv, MoveResults
  PROVE  IInv'
<1> USE DEF IInv, MoveResults
<1>1. TypeOK'
  BY DEF TypeOK, memory, disk, Phases
<1>2. GenerationsBounded' /\ ConfigInStep' /\ BackupUnderWay'
  BY DEF memory, disk, GenerationsBounded, ConfigInStep, BackupUnderWay
<1>3. PoolFilesSound'
  BY DEF disk, PoolFilesSound
<1>4. ConfigNamesCompleteBackup'
  BY DEF disk, ConfigNamesCompleteBackup, Readable
<1> QED
  BY <1>1, <1>2, <1>3, <1>4

\* A death at any point leaves a config that is empty or in step.
LEMMA CrashInvariant ==
  ASSUME IInv, Crash
  PROVE  IInv'
<1> USE DEF IInv, Crash
<1>1. /\ crashes \in Nat /\ crashes' = crashes + 1 /\ crashes' \in 0..MaxCrashes
      /\ generation \in Int /\ StopGeneration \in Int
  BY BackupAssumption DEF TypeOK, Generations
<1>2. TypeOK'
  BY <1>1 DEF TypeOK, memory, disk, Phases
<1>3. GenerationsBounded' /\ ConfigInStep' /\ BackupUnderWay'
  BY <1>1 DEF memory, disk, GenerationsBounded, ConfigInStep, BackupUnderWay
<1>4. PoolFilesSound'
  BY <1>1 DEF disk, PoolFilesSound, Generations
<1>5. ConfigNamesCompleteBackup'
  BY DEF disk, ConfigNamesCompleteBackup, Readable
<1> QED
  BY <1>2, <1>3, <1>4, <1>5

\* What a restart loads is what a backup held when it was written.
LEMMA LoadedPoolSound ==
  ASSUME IInv, configFile # Torn
  PROVE  /\ configFile \in Confs
         /\ LoadedPool(configFile).generation \in Generations
         /\ configFile.backup = None \/ configFile.backup = LoadedPool(configFile).generation
         /\ LoadedPool(configFile).maxFitness \in 0..MaxRecords
         /\ LoadedPool(configFile).frames \in 0..MaxFrames
         /\ phase = "down" => LoadedPool(configFile).generation < StopGeneration + crashes
<1>1. configFile \in Confs
  BY DEF IInv, TypeOK
<1>2. CASE configFile.backup = None
  <2>1. /\ LoadedPool(configFile).generation = 0
        /\ LoadedPool(configFile).maxFitness = 0
        /\ LoadedPool(configFile).frames = 0
    BY <1>2 DEF LoadedPool
  <2>2. 0 \in Generations /\ 0 < StopGeneration + crashes
    BY BackupAssumption DEF IInv, TypeOK, Generations
  <2> QED
    BY <1>1, <1>2, <2>1, <2>2, BackupAssumption
<1>3. CASE configFile.backup # None
  <2>1. /\ configFile.backup \in Generations
        /\ poolFile[configFile.backup] \notin {None, Torn}
    BY <1>1, <1>3 DEF IInv, ConfigNamesCompleteBackup, Readable, Confs
  <2>2. LoadedPool(configFile) = poolFile[configFile.backup]
    BY <1>3 DEF LoadedPool
  <2> QED
    BY <1>1, <2>1, <2>2 DEF IInv, PoolFilesSound
<1> QED
  BY <1>2, <1>3

\* A new process takes up what the config names.
LEMMA RestartInvariant ==
  ASSUME IInv, Restart
  PROVE  IInv'
<1> USE DEF IInv, Restart
<1>1. configFile # Torn
  BY DEF Readable
<1>2. /\ configFile \in Confs
      /\ generation' \in Generations /\ generation' < StopGeneration + crashes
      /\ configFile.backup = None \/ configFile.backup = generation'
      /\ maxFitness' \in 0..MaxRecords /\ framesTrained' \in 0..MaxFrames
  BY <1>1, LoadedPoolSound
<1>3. TypeOK'
  <2>1. newMax' \in BOOLEAN /\ stopping' \in BOOLEAN
    OBVIOUS
  <2> QED
    BY <1>2, <2>1 DEF TypeOK, disk, Phases
<1>4. GenerationsBounded' /\ ConfigInStep' /\ BackupUnderWay'
  BY <1>2, BackupAssumption
     DEF disk, TypeOK, Generations, GenerationsBounded, ConfigInStep, BackupUnderWay
<1>5. PoolFilesSound'
  BY DEF disk, PoolFilesSound
<1>6. ConfigNamesCompleteBackup'
  BY DEF disk, ConfigNamesCompleteBackup, Readable
<1> QED
  BY <1>3, <1>4, <1>5, <1>6

\* Nothing happens.
LEMMA StutterInvariant ==
  ASSUME IInv, UNCHANGED vars
  PROVE  IInv'
BY DEF IInv, TypeOK, GenerationsBounded, PoolFilesSound, ConfigInStep, BackupUnderWay,
       ConfigNamesCompleteBackup, Readable, PoolNow, vars, memory, disk

\* The steps of a running server together.
LEMMA RunningInvariant ==
  ASSUME IInv, Running
  PROVE  IInv'
BY UseResultInvariant, NewGenerationInvariant, FirstMessageInvariant,
   CheckGenerationInvariant, OpenFilesInvariant, WritePoolInvariant,
   WriteStatsInvariant, RememberInvariant, WriteConfigInvariant
   DEF Running

-----------------------------------------------------------------------------
\* The backup the config names is left alone while the next one is written.
LEMMA LoadedPoolKept ==
  ASSUME IInv, OpenFiles \/ WritePool
  PROVE  configFile' = configFile /\ LoadedPool(configFile)' = LoadedPool(configFile)
<1>1. configFile' = configFile /\ configFile = conf /\ conf \in Confs
  BY DEF IInv, TypeOK, ConfigInStep, OpenFiles, WritePool
<1>2. conf.backup # None => conf.backup # generation /\ conf.backup \in Generations
  BY <1>1, BackupAssumption
     DEF IInv, TypeOK, Confs, Generations, ConfigInStep, OpenFiles, WritePool
<1>3. conf.backup # None => poolFile'[conf.backup] = poolFile[conf.backup]
  BY <1>2 DEF IInv, TypeOK, OpenFiles, WritePool, BackupNumber
<1> QED
  BY <1>1, <1>3 DEF LoadedPool

\* A finished backup holds the pool in memory.
LEMMA LoadedPoolWritten ==
  ASSUME IInv, phase = "config"
  PROVE  LoadedPool(conf) = PoolNow
<1>1. conf.backup = generation /\ generation \in Generations
  BY DEF IInv, TypeOK, ConfigInStep
<1>2. conf.backup # None
  BY <1>1, FilesAssumption
<1> QED
  BY <1>1, <1>2 DEF IInv, BackupUnderWay, LoadedPool

\* A record is on file once the flag that announces it is cleared.
LEMMA RunningKeepsRecords ==
  ASSUME IInv, RecordsOnFile, Running
  PROVE  RecordsOnFile'
<1>1. CASE UseResult
  BY <1>1 DEF UseResult, CanUseResult, disk, RecordsOnFile, LoadedPool
<1>2. CASE NewGeneration
  BY <1>2 DEF NewGeneration, disk, RecordsOnFile, LoadedPool
<1>3. CASE FirstMessage
  BY <1>3 DEF FirstMessage, memory, disk, RecordsOnFile, LoadedPool
<1>4. CASE CheckGeneration
  <2>1. /\ phase = "check" /\ UNCHANGED <<maxFitness, configFile, poolFile>>
        /\ phase' = "open" \/ ~newMax
    BY <1>4 DEF CheckGeneration, SaveNow, disk
  <2> QED
    BY <2>1 DEF RecordsOnFile, LoadedPool
<1>5. CASE OpenFiles \/ WritePool \/ WriteStats \/ Remember
  BY <1>5 DEF OpenFiles, WritePool, WriteStats, Remember, RecordsOnFile
<1>6. CASE WriteConfig
  <2>1. LoadedPool(conf).maxFitness = maxFitness
    BY <1>6, LoadedPoolWritten DEF WriteConfig, PoolNow
  <2>2. LoadedPool(configFile)' = LoadedPool(conf)
    BY <1>6 DEF WriteConfig, LoadedPool
  <2> QED
    BY <1>6, <2>1, <2>2 DEF WriteConfig, RecordsOnFile
<1> QED
  BY <1>1, <1>2, <1>3, <1>4, <1>5, <1>6 DEF Running

\* Frames move from the counter to the config, and are in one of them only.
LEMMA RunningKeepsFrames ==
  ASSUME ~Dumber, IInv, FramesOnFile, Running
  PROVE  FramesOnFile'
<1>0. conf.frames \in Nat /\ framesSinceLastBackup \in Nat /\ framesTrained \in Nat
  BY BackupAssumption DEF IInv, TypeOK, Confs
<1>1. CASE UseResult
  BY <1>0, <1>1 DEF UseResult, CanUseResult, disk, FramesOnFile, LoadedPool
<1>2. CASE NewGeneration
  BY <1>2 DEF NewGeneration, disk, FramesOnFile, LoadedPool
<1>3. CASE FirstMessage
  BY <1>3 DEF FirstMessage, memory, disk, FramesOnFile, LoadedPool
<1>4. CASE CheckGeneration
  <2>1. /\ phase = "check" /\ phase' \in {"open", "stopped", "train"}
        /\ UNCHANGED <<framesTrained, framesSinceLastBackup, conf, configFile, poolFile>>
    BY <1>4 DEF CheckGeneration, BackToLoop, disk
  <2> QED
    BY <2>1 DEF FramesOnFile, LoadedPool
<1>5. CASE OpenFiles \/ WritePool
  <2>1. configFile' = configFile /\ LoadedPool(configFile)' = LoadedPool(configFile)
    BY <1>5, LoadedPoolKept
  <2>2. UNCHANGED <<conf, framesSinceLastBackup, framesTrained>>
    BY <1>5 DEF OpenFiles, WritePool, memory
  <2>3. /\ phase \in {"open", "pool"} /\ phase' \in {"pool", "stats"}
    BY <1>5 DEF OpenFiles, WritePool
  <2> QED
    BY <2>1, <2>2, <2>3 DEF FramesOnFile
<1>6. CASE WriteStats
  BY <1>6 DEF WriteStats, memory, FramesOnFile, LoadedPool
<1>7. CASE Remember
  BY <1>7 DEF Remember, FramesAtBackup, FramesOnFile
<1>8. CASE WriteConfig
  <2>1. LoadedPool(conf).frames = framesTrained /\ conf.frames = framesTrained
    BY <1>8, LoadedPoolWritten DEF WriteConfig, PoolNow, FramesOnFile
  <2>2. LoadedPool(configFile)' = LoadedPool(conf) /\ configFile' = conf
    BY <1>8 DEF WriteConfig, LoadedPool
  <2>3. framesSinceLastBackup' = 0 /\ UNCHANGED <<conf, framesTrained>>
    BY <1>8 DEF WriteConfig, FramesAfterBackup
  <2>4. phase' \in {"stopped", "train"}
    BY <1>8 DEF WriteConfig, BackToLoop
  <2> QED
    BY <1>0, <2>1, <2>2, <2>3, <2>4 DEF FramesOnFile
<1> QED
  BY <1>1, <1>2, <1>3, <1>4, <1>5, <1>6, <1>7, <1>8 DEF Running

\* Whether or not the counter is reset, what it held is on file by then.
LEMMA RunningCoversFrames ==
  ASSUME IInv, FramesCovered, Running
  PROVE  FramesCovered'
<1>0. conf.frames \in Nat /\ framesSinceLastBackup \in Nat /\ framesTrained \in Nat
  BY BackupAssumption DEF IInv, TypeOK, Confs
<1>1. CASE UseResult
  BY <1>0, <1>1 DEF UseResult, CanUseResult, disk, FramesCovered, LoadedPool
<1>2. CASE NewGeneration
  BY <1>2 DEF NewGeneration, disk, FramesCovered, LoadedPool
<1>3. CASE FirstMessage
  BY <1>3 DEF FirstMessage, memory, disk, FramesCovered, LoadedPool
<1>4. CASE CheckGeneration
  <2>1. /\ phase = "check" /\ phase' \in {"open", "stopped", "train"}
        /\ UNCHANGED <<framesTrained, framesSinceLastBackup, conf, configFile, poolFile>>
    BY <1>4 DEF CheckGeneration, BackToLoop, disk
  <2> QED
    BY <2>1 DEF FramesCovered, LoadedPool
<1>5. CASE OpenFiles \/ WritePool
  <2>1. configFile' = configFile /\ LoadedPool(configFile)' = LoadedPool(configFile)
    BY <1>5, LoadedPoolKept
  <2>2. UNCHANGED <<conf, framesSinceLastBackup, framesTrained>>
    BY <1>5 DEF OpenFiles, WritePool, memory
  <2>3. /\ phase \in {"open", "pool"} /\ phase' \in {"pool", "stats"}
    BY <1>5 DEF OpenFiles, WritePool
  <2> QED
    BY <2>1, <2>2, <2>3 DEF FramesCovered
<1>6. CASE WriteStats
  BY <1>6 DEF WriteStats, memory, FramesCovered, LoadedPool
<1>7. CASE Remember
  BY <1>7 DEF Remember, FramesAtBackup, FramesCovered
<1>8. CASE WriteConfig
  <2>1. LoadedPool(conf).frames = framesTrained /\ conf.frames >= framesTrained
    BY <1>8, LoadedPoolWritten DEF WriteConfig, PoolNow, FramesCovered
  <2>2. LoadedPool(configFile)' = LoadedPool(conf) /\ configFile' = conf
    BY <1>8 DEF WriteConfig, LoadedPool
  <2>3. framesSinceLastBackup' \in Nat /\ UNCHANGED <<conf, framesTrained>>
    BY <1>0, <1>8 DEF WriteConfig, FramesAfterBackup
  <2>4. phase' \in {"stopped", "train"}
    BY <1>8 DEF WriteConfig, BackToLoop
  <2> QED
    BY <1>0, <2>1, <2>2, <2>3, <2>4 DEF FramesCovered
<1> QED
  BY <1>1, <1>2, <1>3, <1>4, <1>5, <1>6, <1>7, <1>8 DEF Running

\* Death, restart and the final name of the directory keep records and frames.
LEMMA OutsideKeepsRecords ==
  ASSUME IInv, RecordsOnFile, Crash \/ Restart \/ MoveResults
  PROVE  RecordsOnFile'
<1>1. CASE Crash
  BY <1>1 DEF Crash, RecordsOnFile
<1>2. CASE Restart
  BY <1>2 DEF Restart, disk, RecordsOnFile, LoadedPool
<1>3. CASE MoveResults
  BY <1>3 DEF MoveResults, memory, disk, RecordsOnFile, LoadedPool
<1> QED
  BY <1>1, <1>2, <1>3

\* A death or a restart loses frames and pool together.
LEMMA OutsideKeepsFrames ==
  ASSUME IInv, FramesOnFile, Crash \/ Restart \/ MoveResults
  PROVE  FramesOnFile'
<1>1. CASE Crash
  BY <1>1 DEF Crash, memory, disk, FramesOnFile, LoadedPool
<1>2. CASE Restart
  <2>1. /\ configFile # Torn /\ configFile' = configFile /\ conf' = configFile
        /\ phase' = "train"
    BY <1>2 DEF Restart, Readable, disk
  <2>2. LoadedPool(configFile).frames = configFile.frames /\ configFile.frames \in Nat
    BY <2>1, LoadedPoolSound DEF FramesOnFile, Confs
  <2>3. /\ LoadedPool(configFile)' = LoadedPool(configFile)
        /\ framesTrained' = LoadedPool(configFile).frames /\ framesSinceLastBackup' = 0
    BY <1>2 DEF Restart, disk, LoadedPool
  <2> QED
    BY <2>1, <2>2, <2>3 DEF FramesOnFile
<1>3. CASE MoveResults
  BY <1>3 DEF MoveResults, memory, disk, FramesOnFile, LoadedPool
<1> QED
  BY <1>1, <1>2, <1>3

\* Nor do they hide frames that are in the pool.
LEMMA OutsideCoversFrames ==
  ASSUME IInv, FramesCovered, Crash \/ Restart \/ MoveResults
  PROVE  FramesCovered'
<1>1. CASE Crash
  BY <1>1 DEF Crash, memory, disk, FramesCovered, LoadedPool
<1>2. CASE Restart
  <2>1. /\ configFile # Torn /\ configFile' = configFile /\ conf' = configFile
        /\ phase' = "train"
    BY <1>2 DEF Restart, Readable, disk
  <2>2. /\ LoadedPool(configFile).frames <= configFile.frames
        /\ configFile.frames \in Nat /\ LoadedPool(configFile).frames \in Nat
    BY <2>1, LoadedPoolSound, BackupAssumption DEF FramesCovered, Confs
  <2>3. /\ LoadedPool(configFile)' = LoadedPool(configFile)
        /\ framesTrained' = LoadedPool(configFile).frames /\ framesSinceLastBackup' = 0
    BY <1>2 DEF Restart, disk, LoadedPool
  <2> QED
    BY <2>1, <2>2, <2>3 DEF FramesCovered
<1>3. CASE MoveResults
  BY <1>3 DEF MoveResults, memory, disk, FramesCovered, LoadedPool
<1> QED
  BY <1>1, <1>2, <1>3

-----------------------------------------------------------------------------
\* The invariant of the server's memory and files, between any two writes.
THEOREM BackupInvariant == Spec => []IInv
<1>1. Init => IInv
  BY InitInvariant
<1>2. IInv /\ [Next]_vars => IInv'
  BY RunningInvariant, MoveResultsInvariant, CrashInvariant, RestartInvariant,
     StutterInvariant
     DEF Next, Running, Over
<1> QED
  BY <1>1, <1>2, PTL DEF Spec

\* Every variable and every file keeps its type; generations stay below the
\* last one a restart can add.
THEOREM BackupTypeCorrect == Spec => []TypeOK
<1>1. IInv => TypeOK
  BY DEF IInv
<1> QED
  BY <1>1, BackupInvariant, PTL

\* A config that can be read names a complete backup, whenever the server dies.
THEOREM BackupComplete == Spec => []ConfigNamesCompleteBackup
<1>1. IInv => ConfigNamesCompleteBackup
  BY DEF IInv
<1> QED
  BY <1>1, BackupInvariant, PTL

\* A record of an earlier generation is in the backup the config names.
THEOREM BackupKeepsRecords == Spec => []RecordsAreSaved
<1>1. Init => IInv /\ RecordsOnFile
  BY InitInvariant
<1>2. IInv /\ RecordsOnFile /\ [Next]_vars => RecordsOnFile'
  <2>1. RecordsOnFile /\ UNCHANGED vars => RecordsOnFile'
    BY DEF RecordsOnFile, LoadedPool, vars, memory, disk
  <2> QED
    BY <2>1, RunningKeepsRecords, OutsideKeepsRecords DEF Next, Running, Over
<1>3. RecordsOnFile => RecordsAreSaved
  BY DEF RecordsOnFile, RecordsAreSaved
<1> QED
  BY <1>1, <1>2, <1>3, BackupInvariant, PTL DEF Spec

\* The frames on file and those since the last backup add up in zmqserver.lua.
THEOREM BackupCountsFrames ==
  ASSUME ~Dumber
  PROVE  Spec => []FramesCountedOnce
<1>1. Init => IInv /\ FramesOnFile
  BY InitInvariant
<1>2. IInv /\ FramesOnFile /\ [Next]_vars => FramesOnFile'
  <2>1. FramesOnFile /\ UNCHANGED vars => FramesOnFile'
    BY DEF FramesOnFile, LoadedPool, vars, memory, disk
  <2> QED
    BY <2>1, RunningKeepsFrames, OutsideKeepsFrames DEF Next, Running, Over
<1>3. FramesOnFile => FramesCountedOnce
  BY DEF FramesOnFile, FramesCountedOnce
<1> QED
  BY <1>1, <1>2, <1>3, BackupInvariant, PTL DEF Spec

-----------------------------------------------------------------------------
\* What script and phase say of each other.
ScriptFitsPhase ==
  /\ script \in {"mkdir", "report", "exit"} => phase = "moved"
  /\ script = "write" => phase = "down" /\ configFile = Torn
  /\ script = "serve" => phase \notin {"down", "moved"}
  /\ script \in {"check", "recheck"} => phase \in {"down", "moved"}

\* current may be overwritten: there is none, or it was trained and never reported.
Free == current = None \/ (unreported /\ current \in results)

\* The facilitator's files agree with the experiment of the training host.
OnFile == IF running = Default THEN Free ELSE current = running

\* The facilitator is about to move the file of an experiment it handed out.
Moving(file) ==
  /\ file # Default /\ file \in queued /\ Free
  /\ moves = {[move |-> "start", file |-> file]}

\* A report is under way: what it archives was trained.
Archiving ==
  /\ moves = {[move |-> "finish"]}
  /\ current \in results \cup {None}

\* Where the experiment files and the pending moves are at each point of the
\* script.  A set-up that dies or fails leaves a move, which still runs, and
\* either a directory without a config or none at all.
FilesInStep ==
  /\ script = "check" /\ phase = "moved" => Archiving \/ (moves = {} /\ Free)
  /\ script \in {"mkdir", "write"} => Moving(running) \/ (moves = {} /\ OnFile)
  /\ script \in {"check", "recheck"} /\ phase = "down" =>
       (Moving(running) /\ configFile = Torn) \/ (moves = {} /\ OnFile)
  /\ script \in {"recheck", "exit"} /\ phase = "moved" =>
       (\E e \in queued : Moving(e)) \/ moves = {}
  /\ script = "serve" => moves = {} /\ OnFile
  /\ script = "report" => moves = {} /\ OnFile /\ running \in results

\* NoneLost and ArchivedWereTrained follow the files, so FilesInStep is needed to
\* know that no move overwrites a file that was not trained and that only what was
\* trained is archived.
Books == FilesInStep /\ NoneLost /\ ArchivedWereTrained

EInv ==
  /\ IInv
  /\ TypeOKExperiments
  /\ ScriptFitsPhase
  /\ Books

-----------------------------------------------------------------------------
\* A set of natural numbers has a least one.
LEMMA LeastExists ==
  ASSUME NEW S \in SUBSET Nat, S # {}
  PROVE  \E n \in S : \A m \in S : n <= m
<1> DEFINE R == OpToRel(<, Nat)
<1>1. IsWellFoundedOn(R, Nat)
  BY NatLessThanWellFounded DEF OpToRel
<1>2. PICK n \in S : \A m \in S : <<m, n>> \notin R
  <2> HIDE DEF R
  <2> QED
    BY <1>1, WFMin, Zenon
<1>3. \A m \in S : ~(m < n)
  BY <1>2 DEF OpToRel
<1> QED
  BY <1>3

\* The facilitator hands out a file it has, or the default.
LEMMA NewExperimentIsQueued ==
  ASSUME queued \subseteq Files
  PROVE  IF queued = {} THEN NewExperiment = Default ELSE NewExperiment \in queued
<1>1. queued # {} => \E e \in queued : \A f \in queued : e <= f
  BY LeastExists, ExperimentAssumption DEF Files
<1> QED
  BY <1>1 DEF NewExperiment

-----------------------------------------------------------------------------
\* The backups: what the steps of the training host add to those of a server.
LEMMA ExperimentsInit ==
  ASSUME InitExperiments
  PROVE  IInv /\ RecordsOnFile /\ FramesCovered
<1>1. FirstConf \in Confs /\ FirstConf.backup = None /\ FirstConf.frames = 0
  BY DEF FirstConf, Confs
<1>2. 0 \in Generations
  BY BackupAssumption DEF Generations
<1>3. TypeOK
  <2>1. newMax \in BOOLEAN /\ stopping \in BOOLEAN
    BY DEF InitExperiments
  <2>2. poolFile \in [Generations -> Pools \cup {None, Torn}]
    BY DEF InitExperiments
  <2>3. statsFile \in [Generations -> {"written", None, Torn}]
    BY DEF InitExperiments
  <2>4. /\ phase \in Phases
        /\ generation \in Generations /\ lastGeneration \in Generations
        /\ maxFitness \in 0..MaxRecords /\ framesTrained \in 0..MaxFrames
        /\ framesSinceLastBackup \in Nat
        /\ conf \in Confs /\ configFile \in Confs \cup {Torn}
        /\ crashes \in 0..MaxCrashes
    BY <1>1, <1>2, BackupAssumption DEF InitExperiments, Phases
  <2> QED
    BY <2>1, <2>2, <2>3, <2>4 DEF TypeOK
<1>4. GenerationsBounded /\ PoolFilesSound /\ ConfigInStep /\ BackupUnderWay
  BY <1>1, BackupAssumption
     DEF InitExperiments, GenerationsBounded, PoolFilesSound, ConfigInStep, BackupUnderWay
<1>5. ConfigNamesCompleteBackup
  BY <1>1 DEF InitExperiments, ConfigNamesCompleteBackup, Readable
<1>6. RecordsOnFile /\ FramesCovered
  BY <1>1 DEF InitExperiments, RecordsOnFile, FramesCovered, LoadedPool
<1> QED
  BY <1>3, <1>4, <1>5, <1>6 DEF IInv

\* The new directory has no readable config, so no backup is promised in it.
LEMMA MakeDirectoryBackups ==
  ASSUME IInv, MakeDirectory
  PROVE  IInv' /\ RecordsOnFile' /\ FramesCovered'
<1> USE DEF IInv, MakeDirectory
<1>1. TypeOK'
  <2>1. /\ poolFile' \in [Generations -> Pools \cup {None, Torn}]
        /\ statsFile' \in [Generations -> {"written", None, Torn}]
    OBVIOUS
  <2> QED
    BY <2>1 DEF TypeOK, memory, Phases
<1>2. GenerationsBounded' /\ ConfigInStep' /\ BackupUnderWay'
  BY DEF memory, GenerationsBounded, ConfigInStep, BackupUnderWay
<1>3. PoolFilesSound'
  BY DEF PoolFilesSound
<1>4. ConfigNamesCompleteBackup' /\ RecordsOnFile' /\ FramesCovered'
  BY DEF ConfigNamesCompleteBackup, RecordsOnFile, FramesCovered
<1> QED
  BY <1>1, <1>2, <1>3, <1>4

\* The first config names no backup and no frames.
LEMMA WriteFirstConfigBackups ==
  ASSUME IInv, WriteFirstConfig, phase = "down"
  PROVE  IInv' /\ RecordsOnFile' /\ FramesCovered'
<1> USE DEF IInv, WriteFirstConfig
<1>1. FirstConf \in Confs /\ FirstConf.backup = None /\ FirstConf.frames = 0
  BY DEF FirstConf, Confs
<1>2. FirstConf # Torn
  BY <1>1, FilesAssumption
<1>3. TypeOK'
  BY <1>1 DEF TypeOK, memory
<1>4. GenerationsBounded' /\ ConfigInStep' /\ BackupUnderWay'
  BY DEF memory, GenerationsBounded, ConfigInStep, BackupUnderWay
<1>5. PoolFilesSound'
  BY DEF PoolFilesSound
<1>6. ConfigNamesCompleteBackup' /\ RecordsOnFile' /\ FramesCovered'
  BY <1>1 DEF ConfigNamesCompleteBackup, Readable, RecordsOnFile, FramesCovered, LoadedPool
<1> QED
  BY <1>3, <1>4, <1>5, <1>6

\* A death outside training leaves memory and files alone.
LEMMA InterruptBackups ==
  ASSUME IInv, RecordsOnFile, Interrupt
  PROVE  /\ IInv' /\ RecordsOnFile'
         /\ FramesCovered => FramesCovered'
<1> USE DEF IInv, Interrupt
<1>1. /\ crashes \in Nat /\ crashes' = crashes + 1 /\ crashes' \in 0..MaxCrashes
      /\ generation \in Int /\ StopGeneration \in Int
  BY BackupAssumption DEF TypeOK, Generations
<1>2. TypeOK'
  BY <1>1 DEF TypeOK, memory, disk
<1>3. GenerationsBounded' /\ ConfigInStep' /\ BackupUnderWay'
  BY <1>1 DEF memory, disk, GenerationsBounded, ConfigInStep, BackupUnderWay, PoolNow
<1>4. PoolFilesSound'
  BY <1>1 DEF disk, PoolFilesSound, Generations
<1>5. ConfigNamesCompleteBackup' /\ RecordsOnFile'
  BY DEF memory, disk, ConfigNamesCompleteBackup, Readable, RecordsOnFile, LoadedPool
<1>6. FramesCovered => FramesCovered'
  BY DEF memory, disk, FramesCovered, LoadedPool
<1> QED
  BY <1>2, <1>3, <1>4, <1>5, <1>6

\* The server is left alone.
LEMMA ServerUnchanged ==
  ASSUME IInv, UNCHANGED server
  PROVE  /\ IInv'
         /\ RecordsOnFile => RecordsOnFile'
         /\ FramesCovered => FramesCovered'
<1>1. UNCHANGED vars
  BY DEF server, vars
<1> QED
  BY <1>1, StutterInvariant
     DEF vars, memory, disk, RecordsOnFile, FramesCovered, LoadedPool

\* No step of the host or the facilitator spoils what backups promise.
LEMMA BackupsKept ==
  ASSUME EInv, RecordsOnFile, [NextExperiments]_allVars
  PROVE  /\ IInv' /\ RecordsOnFile'
         /\ FramesCovered => FramesCovered'
<1>0. IInv
  BY DEF EInv
<1>1. CASE \/ RunMove \/ GetServerConfig \/ SetUpFails \/ Exit \/ Report
           \/ Hopeless \/ UNCHANGED allVars
  <2>1. UNCHANGED server
    BY <1>1 DEF RunMove, GetServerConfig, SetUpFails, Exit, Report, Hopeless, allVars
  <2> QED
    BY <1>0, <2>1, ServerUnchanged
<1>2. CASE MakeDirectory
  BY <1>0, <1>2, MakeDirectoryBackups
<1>3. CASE WriteFirstConfig
  <2>1. phase = "down"
    BY <1>3 DEF WriteFirstConfig, EInv, ScriptFitsPhase
  <2> QED
    BY <1>0, <1>3, <2>1, WriteFirstConfigBackups
<1>4. CASE StartServer \/ Finish \/ ServerDies
  <2>1. Crash \/ Restart \/ MoveResults
    BY <1>4 DEF StartServer, Finish, ServerDies
  <2> QED
    BY <1>0, <2>1, CrashInvariant, RestartInvariant, MoveResultsInvariant,
       OutsideKeepsRecords, OutsideCoversFrames
<1>5. CASE Train
  <2>1. Running
    BY <1>5 DEF Train, Running
  <2> QED
    BY <1>0, <2>1, RunningInvariant, RunningKeepsRecords, RunningCoversFrames
<1>6. CASE Interrupt
  BY <1>0, <1>6, InterruptBackups
<1> QED
  BY <1>1, <1>2, <1>3, <1>4, <1>5, <1>6 DEF NextExperiments

-----------------------------------------------------------------------------
\* The files: how a step of the server looks from outside.
LEMMA ServerPhases ==
  /\ Running => phase' \notin {"down", "moved"}
  /\ MoveResults => phase' = "moved"
  /\ Crash => phase' = "down"
  /\ Restart => phase = "down" /\ phase' = "train"
<1>1. Running => phase' \notin {"down", "moved"}
  BY DEF Running, UseResult, NewGeneration, FirstMessage, CheckGeneration, OpenFiles,
         WritePool, WriteStats, Remember, WriteConfig, BackToLoop
<1> QED
  BY <1>1 DEF MoveResults, Crash, Restart

\* Script and server stay in step.
LEMMA ScriptKept ==
  ASSUME ScriptFitsPhase, [NextExperiments]_allVars
  PROVE  ScriptFitsPhase'
<1> USE DEF ScriptFitsPhase
<1>1. CASE RunMove \/ Hopeless \/ UNCHANGED allVars
  BY <1>1 DEF RunMove, Hopeless, allVars, server, disk, experimentVars
<1>2. CASE GetServerConfig \/ SetUpFails \/ Exit \/ Report
  BY <1>2 DEF GetServerConfig, SetUpFails, Exit, Report, ReportDue, server, disk
<1>3. CASE MakeDirectory \/ WriteFirstConfig
  BY <1>3 DEF MakeDirectory, WriteFirstConfig
<1>4. CASE StartServer \/ Finish \/ ServerDies
  BY <1>4, ServerPhases DEF StartServer, Finish, ServerDies
<1>5. CASE Train
  BY <1>5, ServerPhases DEF Train, Running, experimentVars
<1>6. CASE Interrupt
  BY <1>6 DEF Interrupt, disk
<1> QED
  BY <1>1, <1>2, <1>3, <1>4, <1>5, <1>6 DEF NextExperiments

\* The types, apart from the server's.
FileTypes ==
  /\ script \in Scripts
  /\ running \in Files \cup {Default}
  /\ queued \subseteq Files /\ completed \subseteq Files
  /\ current \in Files \cup {None}
  /\ moves \subseteq [move: {"start"}, file: Files] \cup [move: {"finish"}]
  /\ results \subseteq Files \cup {Default}
  /\ unreported \in BOOLEAN

\* The facilitator's files and moves keep their types.
LEMMA FileTypesKept ==
  ASSUME FileTypes, [NextExperiments]_allVars
  PROVE  FileTypes'
<1> USE DEF FileTypes, Scripts
<1>1. CASE RunMove
  <2>1. PICK m \in moves : IF m.move = "start" THEN RunStart(m.file) ELSE RunFinish
    BY <1>1 DEF RunMove
  <2>2. m.move = "start" => m.file \in Files
    BY <2>1
  <2>3. queued' \subseteq Files /\ completed' \subseteq Files /\ current' \in Files \cup {None}
    BY <2>1, <2>2
       DEF RunStart, RunFinish, QueuedAfterStart, CompletedAfterFinish
  <2>4. moves' \subseteq moves
    BY <2>1 DEF RunStart, RunFinish
  <2> QED
    BY <1>1, <2>3, <2>4 DEF RunMove
<1>2. CASE GetServerConfig \/ SetUpFails
  <2>1. NewExperiment \in Files \cup {Default}
    BY NewExperimentIsQueued
  <2>2. moves' \subseteq [move: {"start"}, file: Files]
    BY <1>2, <2>1 DEF GetServerConfig, SetUpFails, MovesToStart
  <2> QED
    BY <1>2, <2>1, <2>2 DEF GetServerConfig, SetUpFails
<1>3. CASE MakeDirectory \/ WriteFirstConfig
  BY <1>3 DEF MakeDirectory, WriteFirstConfig, facilitator
<1>4. CASE StartServer \/ Finish \/ ServerDies
  BY <1>4 DEF StartServer, Finish, ServerDies, facilitator
<1>5. CASE Train \/ Hopeless \/ UNCHANGED allVars
  BY <1>5 DEF Train, Hopeless, allVars, experimentVars, facilitator
<1>6. CASE Report \/ Exit
  BY <1>6 DEF Report, Exit, facilitator
<1>7. CASE Interrupt
  BY <1>7 DEF Interrupt, facilitator
<1> QED
  BY <1>1, <1>2, <1>3, <1>4, <1>5, <1>6, <1>7 DEF NextExperiments

\* A move that runs late still finds the file it is for, and overwrites none that
\* was not trained.
LEMMA RunMoveKeepsBooks ==
  ASSUME Books, FileTypes, ScriptFitsPhase, RunMove
  PROVE  Books'
<1> USE DEF Books
<1>0. UNCHANGED <<phase, configFile, script, running, results, unreported>>
  BY DEF RunMove, server, disk
<1>1. PICK m \in moves : IF m.move = "start" THEN RunStart(m.file) ELSE RunFinish
  BY DEF RunMove
<1>2. None \notin Files /\ Default \notin Files /\ None # Default
  BY ExperimentAssumption DEF Files, Default
<1>3. Archiving \/ \E e \in queued : Moving(e)
  BY <1>1 DEF FilesInStep, ScriptFitsPhase, FileTypes, Scripts, Moving
<1>4. CASE Archiving
  <2>1. m = [move |-> "finish"]
    BY <1>1, <1>4 DEF Archiving
  <2>2. RunFinish
    BY <1>1, <2>1
  <2>3. /\ moves' = {} /\ queued' = queued /\ current' = None
        /\ completed' = IF current = None THEN completed ELSE completed \cup {current}
    BY <1>4, <2>2 DEF RunFinish, Archiving, CompletedAfterFinish
  <2>4. script = "check" /\ phase = "moved"
    <3>1. \A e : [move |-> "finish"] # [move |-> "start", file |-> e]
      OBVIOUS
    <3>2. \A e : ~Moving(e)
      BY <1>4, <3>1 DEF Archiving, Moving
    <3> QED
      BY <1>4, <3>2 DEF FilesInStep, ScriptFitsPhase, Archiving, FileTypes, Scripts
  <2>5. FilesInStep'
    BY <1>0, <2>3, <2>4 DEF FilesInStep, Free
  <2>6. NoneLost'
    BY <1>0, <1>2, <2>3 DEF NoneLost, FileTypes
  <2>7. ArchivedWereTrained'
    BY <1>0, <1>4, <2>3 DEF ArchivedWereTrained, Archiving
  <2> QED
    BY <2>5, <2>6, <2>7
<1>5. ASSUME NEW e \in queued, Moving(e)
      PROVE  Books'
  <2>1. m = [move |-> "start", file |-> e]
    BY <1>1, <1>5 DEF Moving
  <2>2. RunStart(e)
    BY <1>1, <2>1
  <2>3. /\ moves' = {} /\ queued' = queued \ {e} /\ current' = e
        /\ completed' = completed
    BY <1>5, <2>1, <2>2 DEF RunStart, QueuedAfterStart, Moving
  <2>4. e # None /\ e # Default /\ e \in Files
    BY <1>2 DEF FileTypes
  <2>5. FilesInStep'
    <3>1. ~Archiving
      BY <2>1 DEF Archiving
    <3>2. script \in {"mkdir", "write", "check", "recheck", "exit"}
      BY <1>1 DEF FilesInStep, FileTypes, Scripts
    <3>3. \A f : Moving(f) => f = e
      BY <1>5 DEF Moving
    <3>4. CASE script \in {"mkdir", "write"} \/ (script \in {"check", "recheck"} /\ phase = "down")
      <4>1. running = e
        BY <1>1, <3>3, <3>4 DEF FilesInStep
      <4>2. OnFile'
        BY <1>0, <2>3, <2>4, <4>1 DEF OnFile
      <4> QED
        BY <1>0, <2>3, <3>4, <4>2 DEF FilesInStep, ScriptFitsPhase
    <3>5. CASE script \in {"recheck", "exit"} /\ phase = "moved"
      BY <1>0, <2>3, <3>5 DEF FilesInStep
    <3>6. CASE script = "check" /\ phase = "moved"
      BY <1>1, <3>1, <3>6 DEF FilesInStep
    <3> QED
      BY <3>2, <3>4, <3>5, <3>6 DEF ScriptFitsPhase
  <2>6. NoneLost'
    <3>1. current = None \/ (unreported /\ current \in results)
      BY <1>5 DEF Moving, Free
    <3>2. e \notin completed
      BY DEF NoneLost
    <3>3. Files' = Files
      BY DEF Files
    <3> QED
      BY <1>0, <1>2, <2>3, <2>4, <3>1, <3>2, <3>3 DEF NoneLost, FileTypes
  <2>7. ArchivedWereTrained'
    BY <1>0, <2>3 DEF ArchivedWereTrained
  <2> QED
    BY <2>5, <2>6, <2>7
<1> QED
  BY <1>3, <1>4, <1>5

\* NoneLost and ArchivedWereTrained say nothing of the script and of moves.
LEMMA SameFiles ==
  ASSUME Books, UNCHANGED <<queued, current, completed, results, unreported>>
  PROVE  NoneLost' /\ ArchivedWereTrained'
BY DEF Books, NoneLost, ArchivedWereTrained

\* A handed-out experiment is on file and its move under way, whether or not the
\* training host hears of it.
LEMMA GetServerConfigKeepsBooks ==
  ASSUME Books, FileTypes, GetServerConfig \/ SetUpFails
  PROVE  Books'
<1>1. /\ script = "check" /\ phase = "moved" /\ phase' = "moved" /\ moves = {}
      /\ moves' \in {{}, MovesToStart(NewExperiment)}
      /\ \/ /\ script' = "mkdir" /\ running' = NewExperiment
            /\ moves' = MovesToStart(NewExperiment)
         \/ script' = "recheck"
      /\ UNCHANGED <<queued, current, completed, results, unreported>>
  BY DEF GetServerConfig, SetUpFails, server
<1>2. Free
  BY <1>1 DEF Books, FilesInStep, Archiving
<1>3. Free'
  BY <1>1, <1>2 DEF Free
<1>4. CASE moves' = {} /\ (script' = "recheck" \/ NewExperiment = Default)
  BY <1>1, <1>3, <1>4, SameFiles DEF Books, FilesInStep, OnFile
<1>5. CASE NewExperiment # Default /\ moves' = MovesToStart(NewExperiment)
  <2>1. PICK file \in queued : file = NewExperiment
    BY <1>5, NewExperimentIsQueued DEF FileTypes
  <2>2. Moving(file)'
    BY <1>1, <1>3, <1>5, <2>1 DEF MovesToStart, Moving
  <2>3. \/ script' = "mkdir" /\ Moving(running)'
        \/ script' = "recheck" /\ \E e \in queued' : Moving(e)'
    BY <1>1, <2>1, <2>2 DEF Moving
  <2> QED
    BY <1>1, <2>3, SameFiles DEF Books, FilesInStep
<1> QED
  BY <1>1, <1>4, <1>5 DEF MovesToStart

\* Setting up, well or badly, touches no file of the facilitator.
LEMMA SetUpKeepsBooks ==
  ASSUME Books, FileTypes, ScriptFitsPhase,
         \/ MakeDirectory \/ WriteFirstConfig \/ Exit
         \/ Interrupt /\ script # "report"
  PROVE  Books'
<1>0. UNCHANGED <<running, queued, current, completed, moves, results, unreported>>
  BY DEF MakeDirectory, WriteFirstConfig, Exit, Interrupt, facilitator
<1>1. NoneLost' /\ ArchivedWereTrained'
  BY <1>0, SameFiles
<1>2. OnFile' = OnFile /\ \A e : Moving(e)' = Moving(e)
  BY <1>0 DEF Moving, OnFile, Free
<1>3. CASE MakeDirectory
  BY <1>0, <1>1, <1>2, <1>3 DEF MakeDirectory, Books, FilesInStep
<1>4. CASE WriteFirstConfig
  <2>1. moves = {} /\ script = "write" /\ script' = "recheck" /\ phase' = "down"
    BY <1>4 DEF WriteFirstConfig, ScriptFitsPhase
  <2>2. OnFile
    BY <2>1 DEF Books, FilesInStep, Moving
  <2> QED
    BY <1>0, <1>1, <1>2, <2>1, <2>2 DEF Books, FilesInStep
<1>5. CASE Exit
  BY <1>0, <1>1, <1>2, <1>5 DEF Exit, server, Books, FilesInStep
<1>6. CASE Interrupt /\ script # "report"
  <2>1. /\ script \in {"mkdir", "write"} /\ script' = "recheck"
        /\ UNCHANGED <<phase, configFile>>
    BY <1>6 DEF Interrupt, disk
  <2>2. Moving(running) \/ (moves = {} /\ OnFile)
    BY <2>1 DEF Books, FilesInStep
  <2>3. running' = running /\ queued' = queued /\ moves' = moves
    BY <1>0
  <2>4. Moving(running)' \/ (moves' = {} /\ OnFile')
    BY <1>0, <1>2, <2>2 DEF Moving, Free, OnFile
  <2>5. (\E e \in queued' : Moving(e)') \/ moves' = {}
    BY <2>4 DEF Moving
  <2>6. phase' = "down" => configFile' = Torn
    BY <2>1 DEF ScriptFitsPhase
  <2> QED
    BY <1>1, <2>1, <2>4, <2>5, <2>6 DEF Books, FilesInStep
<1> QED
  BY <1>3, <1>4, <1>5, <1>6

\* Neither does training, nor a death in it.
LEMMA ServingKeepsBooks ==
  ASSUME Books, FileTypes, ScriptFitsPhase, StartServer \/ ServerDies \/ Train
  PROVE  Books'
<1>0. UNCHANGED <<running, queued, current, completed, moves, results, unreported>>
  BY DEF StartServer, ServerDies, Train, experimentVars, facilitator
<1>1. OnFile' = OnFile
  BY <1>0 DEF OnFile, Free
<1>2. moves = {} /\ OnFile
  <2>1. CASE StartServer
    BY <2>1, ServerPhases DEF StartServer, Restart, Readable, Books, FilesInStep
  <2>2. CASE ServerDies \/ Train
    BY <2>2 DEF ServerDies, Train, Books, FilesInStep
  <2> QED
    BY <2>1, <2>2
<1>3. script' = "serve" \/ (script' = "check" /\ phase' = "down")
  BY ServerPhases DEF StartServer, ServerDies, Train, experimentVars
<1>4. NoneLost' /\ ArchivedWereTrained'
  BY <1>0, SameFiles
<1> QED
  BY <1>0, <1>1, <1>2, <1>3, <1>4 DEF Books, FilesInStep

\* What is current when a report is due was trained, reported or not.
LEMMA FinishingKeepsBooks ==
  ASSUME Books, FileTypes, ScriptFitsPhase,
         Finish \/ Report \/ (Interrupt /\ script = "report")
  PROVE  Books'
<1> USE DEF Books
<1>1. CASE Finish
  <2>1. /\ moves = {} /\ OnFile
        /\ UNCHANGED <<running, queued, current, completed, moves, unreported>>
        /\ results' = results \cup {running} /\ script' = "report"
    BY <1>1 DEF Finish, facilitator, FilesInStep
  <2>2. OnFile'
    BY <2>1 DEF OnFile, Free
  <2>3. FilesInStep'
    BY <2>1, <2>2 DEF FilesInStep
  <2>4. NoneLost' /\ ArchivedWereTrained'
    BY <2>1 DEF NoneLost, ArchivedWereTrained, FileTypes
  <2> QED
    BY <2>3, <2>4
<1>2. CASE Report
  <2>1. /\ moves = {} /\ OnFile /\ running \in results /\ phase = "moved"
        /\ UNCHANGED <<phase, running, queued, current, completed, results, unreported>>
        /\ moves' = {[move |-> "finish"]} /\ script' = "check"
    BY <1>2 DEF Report, ReportDue, FilesInStep, ScriptFitsPhase, server
  <2>2. Archiving'
    BY <2>1 DEF Archiving, OnFile, Free
  <2>3. NoneLost' /\ ArchivedWereTrained'
    BY <2>1, SameFiles
  <2> QED
    BY <2>1, <2>2, <2>3 DEF FilesInStep
<1>3. CASE Interrupt /\ script = "report"
  <2>1. /\ moves = {} /\ OnFile /\ running \in results /\ phase = "moved"
        /\ UNCHANGED <<phase, running, queued, current, completed, moves, results>>
        /\ unreported' = TRUE /\ script' = "check"
    BY <1>3 DEF Interrupt, facilitator, FilesInStep, ScriptFitsPhase
  <2>2. Free'
    BY <2>1 DEF Free, OnFile
  <2>3. NoneLost' /\ ArchivedWereTrained'
    BY <2>1 DEF NoneLost, ArchivedWereTrained, FileTypes
  <2> QED
    BY <2>1, <2>2, <2>3 DEF FilesInStep
<1> QED
  BY <1>1, <1>2, <1>3

\* The books stay right whoever dies.
LEMMA BooksKept ==
  ASSUME EInv, [NextExperiments]_allVars
  PROVE  Books'
<1>1. Books /\ FileTypes /\ ScriptFitsPhase
  BY DEF EInv, TypeOKExperiments, FileTypes
<1>2. CASE Hopeless \/ UNCHANGED allVars
  <2>1. /\ UNCHANGED <<phase, configFile, script, running, moves>>
        /\ UNCHANGED <<queued, current, completed, results, unreported>>
    BY <1>2 DEF Hopeless, allVars, server, disk, experimentVars, facilitator
  <2>2. OnFile' = OnFile /\ Archiving' = Archiving /\ Free' = Free
        /\ \A e : Moving(e)' = Moving(e)
    BY <2>1 DEF OnFile, Archiving, Free, Moving
  <2> QED
    BY <1>1, <2>1, <2>2, SameFiles DEF Books, FilesInStep
<1> QED
  BY <1>1, <1>2, RunMoveKeepsBooks, GetServerConfigKeepsBooks, SetUpKeepsBooks,
     ServingKeepsBooks, FinishingKeepsBooks DEF NextExperiments

-----------------------------------------------------------------------------
\* The invariant of the training host and the facilitator, and what it says of
\* records.
THEOREM ExperimentsInvariant == SpecExperiments => [](EInv /\ RecordsOnFile)
<1>1. InitExperiments => EInv /\ RecordsOnFile
  <2> SUFFICES ASSUME InitExperiments PROVE EInv /\ RecordsOnFile
    OBVIOUS
  <2>1. IInv /\ RecordsOnFile
    BY ExperimentsInit
  <2>2. FileTypes
    BY ExperimentAssumption DEF InitExperiments, FileTypes, Scripts, Files, Default
  <2>3. ScriptFitsPhase /\ FilesInStep
    BY DEF InitExperiments, ScriptFitsPhase, FilesInStep, Free
  <2>4. NoneLost /\ ArchivedWereTrained
    BY ExperimentAssumption DEF InitExperiments, NoneLost, ArchivedWereTrained, Files
  <2> QED
    BY <2>1, <2>2, <2>3, <2>4 DEF EInv, IInv, TypeOKExperiments, FileTypes, Books
<1>2. EInv /\ RecordsOnFile /\ [NextExperiments]_allVars => (EInv /\ RecordsOnFile)'
  <2> SUFFICES ASSUME EInv, RecordsOnFile, [NextExperiments]_allVars
               PROVE  EInv' /\ RecordsOnFile'
    OBVIOUS
  <2>1. IInv' /\ RecordsOnFile'
    BY BackupsKept
  <2>2. FileTypes'
    BY FileTypesKept DEF EInv, TypeOKExperiments, FileTypes
  <2>3. ScriptFitsPhase'
    BY ScriptKept DEF EInv
  <2>4. Books'
    BY BooksKept
  <2> QED
    BY <2>1, <2>2, <2>3, <2>4 DEF EInv, IInv, TypeOKExperiments, FileTypes
<1> QED
  BY <1>1, <1>2, PTL DEF SpecExperiments

\* Every variable of the training host and of the facilitator keeps its type.
THEOREM ExperimentsTypeCorrect == SpecExperiments => []TypeOKExperiments
<1>1. EInv => TypeOKExperiments
  BY DEF EInv
<1> QED
  BY <1>1, ExperimentsInvariant, PTL

\* A readable config names a complete backup, over any number of experiments.
THEOREM ExperimentsComplete == SpecExperiments => []ConfigNamesCompleteBackup
<1>1. EInv => ConfigNamesCompleteBackup
  BY DEF EInv, IInv
<1> QED
  BY <1>1, ExperimentsInvariant, PTL

\* Records are saved, in every experiment.
THEOREM ExperimentsKeepRecords == SpecExperiments => []RecordsAreSaved
<1>1. RecordsOnFile => RecordsAreSaved
  BY DEF RecordsOnFile, RecordsAreSaved
<1> QED
  BY <1>1, ExperimentsInvariant, PTL

\* No frame of the pool being trained is missing from the count, in every
\* experiment and with either server.
THEOREM ExperimentsMissNoFrames == SpecExperiments => []NoFrameMissed
<1>1. InitExperiments => FramesCovered
  BY ExperimentsInit
<1>2. EInv /\ RecordsOnFile /\ FramesCovered /\ [NextExperiments]_allVars => FramesCovered'
  BY BackupsKept
<1>3. FramesCovered => NoFrameMissed
  BY DEF FramesCovered, NoFrameMissed
<1> QED
  BY <1>1, <1>2, <1>3, ExperimentsInvariant, PTL DEF SpecExperiments

\* Every experiment file is in exactly one place, or its results are there.
THEOREM ExperimentsNotLost == SpecExperiments => []NoneLost
<1>1. EInv => NoneLost
  BY DEF EInv, Books
<1> QED
  BY <1>1, ExperimentsInvariant, PTL

\* Only experiments that were trained to their end are archived.
THEOREM ExperimentsArchived == SpecExperiments => []ArchivedWereTrained
<1>1. EInv => ArchivedWereTrained
  BY DEF EInv, Books
<1> QED
  BY <1>1, ExperimentsInvariant, PTL

\* Emulators are sent the code of the experiment that is being trained.
THEOREM ExperimentsCode == SpecExperiments => []CodeOfExperiment
<1>1. EInv => CodeOfExperiment
  <2> SUFFICES ASSUME EInv, script = "serve"
               PROVE  CurrentExperiment = running \/ (unreported /\ running = Default)
    BY DEF CodeOfExperiment
  <2>1. OnFile
    BY DEF EInv, Books, FilesInStep
  <2>2. running # None
    BY ExperimentAssumption DEF EInv, TypeOKExperiments, Files, Default
  <2> QED
    BY <2>1, <2>2 DEF OnFile, Free, CurrentExperiment
<1> QED
  BY <1>1, ExperimentsInvariant, PTL
=============================================================================
