------------------------------- MODULE Backup -------------------------------
(***************************************************************************)
(* What the training server keeps on disk, write by write: saveConfig,     *)
(* writeBackup, loadBackup and the backup decision at the end of a turn,   *)
(* in lua_server/zmqserver.lua and, with Dumber, in dumber_server.lua,     *)
(* the one run_experiments.sh starts.  The process may die between any two *)
(* writes; the script then starts it again in the directory it finds.      *)
(* Training takes a backup in one step; here it takes five.                *)
(*                                                                         *)
(* Scoring is reduced to what backups record of it: the frames of the      *)
(* results used, one at a time, and a maximum fitness that records raise.  *)
(***************************************************************************)
EXTENDS Integers

CONSTANTS
  StopGeneration,   \* conf.StopGeneration
  Dumber,           \* the server is dumber_server.lua, not zmqserver.lua
  MaxFrames,        \* bound: frames of the results used in one history
  MaxRecords,       \* bound: records set in one history
  MaxCrashes,       \* bound: process deaths
  None,             \* no backup; a file that does not exist
  Torn              \* a file opened for writing and not yet closed

ASSUME BackupAssumption ==
  /\ StopGeneration \in Nat \ {0}
  /\ Dumber \in BOOLEAN
  /\ MaxFrames \in Nat /\ MaxRecords \in Nat /\ MaxCrashes \in Nat
  /\ None # Torn

VARIABLES
  phase,                   \* where the process is: see Phases
  generation,              \* pool.generation
  maxFitness,              \* pool.maxFitness, counted in records
  framesTrained,           \* frames of all results used to make this pool
  lastGeneration,
  newMax,                  \* hasAchievedNewMaxFitness
  stopping,                \* TIME_TO_STOP
  framesSinceLastBackup,
  conf,                    \* conf.last_backup_filename, conf.FramesSpentTraining
  configFile,              \* the file config: a conf, or Torn
  poolFile,                \* backup.<n>.NEW_GENERATIONPOOL for each n
  statsFile,               \* backup.<n>.NEW_GENERATION for each n; of Dumber's one
                           \* file of that name, the part that follows the pool
  crashes

memory == <<generation, maxFitness, framesTrained, lastGeneration, newMax, stopping,
            framesSinceLastBackup, conf>>
disk == <<configFile, poolFile, statsFile>>
vars == <<phase, memory, disk, crashes>>

Phases == {"train", "first", "check", "open", "pool", "stats", "conf", "config",
           "stopped", "moved", "down"}

\* A server restarted from its very last backup trains one generation more.
Generations == 0..(StopGeneration + MaxCrashes)

\* What a pool file holds.
PoolNow == [generation |-> generation, maxFitness |-> maxFitness, frames |-> framesTrained]

FirstConf == [backup |-> None, frames |-> 0]

Init ==
  /\ phase = "train"
  /\ generation = 0 /\ lastGeneration = 0
  /\ maxFitness = 0 /\ newMax = FALSE
  /\ framesTrained = 0 /\ framesSinceLastBackup = 0
  /\ stopping = FALSE
  /\ conf = FirstConf
  /\ configFile = FirstConf
  /\ poolFile = [n \in Generations |-> None]
  /\ statsFile = [n \in Generations |-> None]
  /\ crashes = 0

-----------------------------------------------------------------------------
\* A result that comes between breeding and the backup decision: zmqserver.lua
\* waits for a message there, dumber_server.lua breeds while it answers one.
CanUseResult == phase = "train" \/ (phase = "first" /\ ~Dumber)

\* A fresh result is used; it may complete a genome that sets a record.
UseResult ==
  /\ CanUseResult
  /\ framesTrained < MaxFrames
  /\ framesTrained' = framesTrained + 1
  /\ framesSinceLastBackup' = framesSinceLastBackup + 1
  /\ \/ UNCHANGED <<maxFitness, newMax>>
     \/ /\ maxFitness < MaxRecords
        /\ maxFitness' = maxFitness + 1
        /\ newMax' = TRUE
  /\ phase' = IF phase = "first" THEN "check" ELSE "train"
  /\ UNCHANGED <<generation, lastGeneration, stopping, conf, disk, crashes>>

\* No job is left: the next pool is bred.  The turn goes on with a message...
NewGeneration ==
  /\ phase = "train"
  /\ generation' = generation + 1
  /\ phase' = "first"
  /\ UNCHANGED <<maxFitness, framesTrained, lastGeneration, newMax, stopping,
                 framesSinceLastBackup, conf, disk, crashes>>

\* ...which brings nothing new; with Dumber, with the answer to this one.
FirstMessage ==
  /\ phase = "first"
  /\ phase' = "check"
  /\ UNCHANGED <<memory, disk, crashes>>

\* After a backup, or without one: the loop goes on or ends.
BackToLoop(stop) == IF stop THEN "stopped" ELSE "train"

\* Not the code: the flag is cleared before the decision looks at it.
SaveNow_FlagCleared(old, stop) == old \/ stop

\* The backup is due: the last one is old, a record was set, or on stopping.
SaveNow(old, stop) == old \/ newMax \/ stop

CheckGeneration ==
  /\ phase = "check"
  /\ lastGeneration' = generation
  /\ stopping' = (generation >= StopGeneration)
  /\ \E old \in BOOLEAN :
       IF SaveNow(old, stopping')
       THEN phase' = "open" /\ UNCHANGED newMax
       ELSE phase' = BackToLoop(stopping') /\ newMax' = FALSE
  /\ UNCHANGED <<generation, maxFitness, framesTrained, framesSinceLastBackup, conf,
                 disk, crashes>>

\* Not the code: one name for every backup.
BackupNumber_One == 0

\* Not the code: the generation about to begin.
BackupNumber_Next == generation + 1

\* The number in the names of the backup's files.
BackupNumber == generation

\* writeBackup opens both files for writing: their old contents are gone.
OpenFiles ==
  /\ phase = "open"
  /\ poolFile' = [poolFile EXCEPT ![BackupNumber] = Torn]
  /\ statsFile' = [statsFile EXCEPT ![BackupNumber] = Torn]
  /\ phase' = "pool"
  /\ UNCHANGED <<memory, configFile, crashes>>

WritePool ==
  /\ phase = "pool"
  /\ poolFile' = [poolFile EXCEPT ![BackupNumber] = PoolNow]
  /\ phase' = "stats"
  /\ UNCHANGED <<memory, configFile, statsFile, crashes>>

\* The tables levels and clients, a line each.
WriteStats ==
  /\ phase = "stats"
  /\ statsFile' = [statsFile EXCEPT ![BackupNumber] = "written"]
  /\ phase' = "conf"
  /\ UNCHANGED <<memory, configFile, poolFile, crashes>>

\* Not the code: what an earlier process trained is forgotten.
FramesAtBackup_Restarted == framesSinceLastBackup

\* FramesSpentTraining after writeBackup.
FramesAtBackup == conf.frames + framesSinceLastBackup

\* conf in memory, then saveConfig opens the file config: it is empty now.
Remember ==
  /\ phase = "conf"
  /\ conf' = [backup |-> BackupNumber, frames |-> FramesAtBackup]
  /\ configFile' = Torn
  /\ phase' = "config"
  /\ UNCHANGED <<generation, maxFitness, framesTrained, lastGeneration, newMax, stopping,
                 framesSinceLastBackup, poolFile, statsFile, crashes>>

\* Not the code: never reset.
FramesAfterBackup_Kept == framesSinceLastBackup

\* framesSinceLastBackup after writeBackup; dumber_server.lua never resets it.
FramesAfterBackup == IF Dumber THEN framesSinceLastBackup ELSE 0

\* saveConfig writes and closes the file; back in the loop.
WriteConfig ==
  /\ phase = "config"
  /\ configFile' = conf
  /\ framesSinceLastBackup' = FramesAfterBackup
  /\ newMax' = FALSE
  /\ phase' = BackToLoop(stopping)
  /\ UNCHANGED <<generation, maxFitness, framesTrained, lastGeneration, stopping, conf,
                 poolFile, statsFile, crashes>>

\* After the loop: the directory gets the name of the experiment, and the next
\* server finds no active one.
MoveResults ==
  /\ phase = "stopped"
  /\ phase' = "moved"
  /\ UNCHANGED <<memory, disk, crashes>>

-----------------------------------------------------------------------------
Crash ==
  /\ phase \notin {"down", "moved"}
  /\ crashes < MaxCrashes
  /\ crashes' = crashes + 1
  /\ phase' = "down"
  /\ UNCHANGED <<memory, disk>>

Readable(c) ==
  /\ c # Torn
  /\ c.backup # None => poolFile[c.backup] \notin {None, Torn}
                          /\ statsFile[c.backup] \notin {None, Torn}

\* The pool a new process starts from, given the conf it read.
LoadedPool(c) ==
  IF c.backup = None THEN [generation |-> 0, maxFitness |-> 0, frames |-> 0]
                     ELSE poolFile[c.backup]

\* run_experiments.sh starts the server again; it fails, and is started again
\* for ever, when a file cannot be loaded ("Couldn't load config file").
Restart ==
  /\ phase = "down"
  /\ Readable(configFile)
  /\ conf' = configFile
  /\ generation' = LoadedPool(configFile).generation
  /\ lastGeneration' = generation'
  /\ maxFitness' = LoadedPool(configFile).maxFitness
  /\ framesTrained' = LoadedPool(configFile).frames
  /\ framesSinceLastBackup' = 0
  /\ newMax' = FALSE
  /\ stopping' = FALSE
  /\ phase' = "train"
  /\ UNCHANGED <<disk, crashes>>

\* Nothing is left to do: the experiment is over, or cannot be continued.
Over ==
  /\ phase = "moved" \/ (phase = "down" /\ ~Readable(configFile))
  /\ UNCHANGED vars

Next ==
  \/ UseResult \/ NewGeneration \/ FirstMessage \/ CheckGeneration
  \/ OpenFiles \/ WritePool \/ WriteStats \/ Remember \/ WriteConfig
  \/ MoveResults
  \/ Crash \/ Restart \/ Over

Spec == Init /\ [][Next]_vars

-----------------------------------------------------------------------------
Confs == [backup: Generations \cup {None}, frames: Nat]
Pools == [generation: Generations, maxFitness: Nat, frames: Nat]

\* No backup and no file look like one.
ASSUME FilesAssumption ==
  /\ None \notin Generations /\ Torn \notin Confs
  /\ {None, Torn} \cap Pools = {}
  /\ "written" \notin {None, Torn}

\* Type invariant of the server's memory and of its files.
TypeOK ==
  /\ phase \in Phases
  /\ generation \in Generations /\ lastGeneration \in Generations
  /\ maxFitness \in 0..MaxRecords /\ framesTrained \in 0..MaxFrames
  /\ newMax \in BOOLEAN /\ stopping \in BOOLEAN
  /\ framesSinceLastBackup \in Nat
  /\ conf \in Confs
  /\ configFile \in Confs \cup {Torn}
  /\ poolFile \in [Generations -> Pools \cup {None, Torn}]
  /\ statsFile \in [Generations -> {"written", None, Torn}]
  /\ crashes \in 0..MaxCrashes

\* A config file that can be read names a backup that was written completely,
\* even after a crash in the middle of a later backup, or of one with the same
\* name in an earlier life of the experiment (writeBackup, loadBackup).
ConfigNamesCompleteBackup == configFile # Torn => Readable(configFile)

\* While zmqserver.lua trains, FramesSpentTraining and framesSinceLastBackup ("How
\* many frames of results we've obtained since backing up") add up to the frames
\* that went into the current pool, across backups, crashes and restarts; the
\* stopping condition StopFrames compares just this sum.
FramesCountedOnce ==
  phase \in {"train", "first", "check"} =>
    conf.frames + framesSinceLastBackup = framesTrained

\* Neither server ever counts less than the frames that went into the current
\* pool, however often it dies and continues from an older backup: what it counts
\* twice (dumber_server.lua) or loses with a pool never hides frames of this one.
NoFrameMissed ==
  phase \in {"train", "first", "check"} =>
    conf.frames + framesSinceLastBackup >= framesTrained

\* Once the turn that begins a generation is over, the record of the generation
\* before is in the backup the config file names ("Make sure we save this
\* generation once it's over").
RecordsAreSaved ==
  phase \in {"train", "stopped", "moved"} /\ ~newMax =>
    LoadedPool(configFile).maxFitness = maxFitness

\* FramesSpentTraining never exceeds the frames trained ("How many frames of
\* results we've obtained since backing up", dumber_server.lua:1520; StopFrames
\* is compared with it, dumber_server.lua:1495).
FramesNotOvercounted == conf.frames <= framesTrained

\* A server that died can go on: "Active experiment found. Continuing from where
\* we left off!" (run_experiments.sh:9).
CanContinue == phase = "down" => Readable(configFile)
=============================================================================
