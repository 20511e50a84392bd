----------------------------- MODULE Experiments -----------------------------
(***************************************************************************)
(* How experiments follow one another.  The facilitator                    *)
(* (facilitator/facilitator.lua) keeps one file per experiment and hands   *)
(* them out; on the training host, run_experiments.sh starts the training  *)
(* server in the directory "current" when there is one, and otherwise      *)
(* setup_server.lua, which gets the next experiment from the facilitator   *)
(* and makes that directory; if there is still none, it exits.  A server   *)
(* that is done renames the directory and reports to the facilitator.      *)
(*                                                                         *)
(* The server is dumber_server.lua: Dumber is TRUE in the runs.  Backup is *)
(* what it does in between, and what it leaves on disk.                    *)
(* Its phase "down" is a directory without a process, "moved" no directory *)
(* at all.  The facilitator moves its files by shell commands it does not  *)
(* wait for; they run before the next request of the training host, which  *)
(* comes a second later at least (run_experiments.sh:22).                  *)
(***************************************************************************)
EXTENDS Backup, FiniteSets

CONSTANTS
  ExperimentCount   \* the files in experiments/, numbered in the order of ls

ASSUME ExperimentAssumption ==
  /\ ExperimentCount \in Nat
  /\ None \notin 0..ExperimentCount

VARIABLES
  script,         \* where run_experiments.sh is: see Scripts
  running,        \* the experiment whose configuration setup_server.lua fetched last
  queued,         \* files in experiments/
  current,        \* the experiment in current_experiments/current.config, or None
  completed,      \* files in completed_experiments/
  moves,          \* shell commands of the facilitator that have not run yet
  results,        \* experiments whose directory was given its final name
  unreported      \* whether a server died after it gave its directory that name
                  \* and before it reported (for the properties)

server == <<phase, memory, disk, crashes>>
facilitator == <<queued, current, completed, moves>>
experimentVars == <<script, running, facilitator, results, unreported>>
allVars == <<server, experimentVars>>

Files == 1..ExperimentCount

\* default.experiment: handed out when no file is left, and never moved.
Default == 0

\* "recheck": setup_server.lua has ended, one way or another.
Scripts == {"check", "mkdir", "write", "recheck", "serve", "report", "exit"}

\* The memory and disk of a server that has not begun.
InitExperiments ==
  /\ phase = "moved"
  /\ generation = 0 /\ lastGeneration = 0
  /\ maxFitness = 0 /\ newMax = FALSE
  /\ framesTrained = 0 /\ framesSinceLastBackup = 0
  /\ stopping = FALSE
  /\ conf = FirstConf /\ configFile = FirstConf
  /\ poolFile = [n \in Generations |-> None]
  /\ statsFile = [n \in Generations |-> None]
  /\ crashes = 0
  /\ script = "check"
  /\ running = Default
  /\ queued = Files /\ current = None /\ completed = {} /\ moves = {}
  /\ results = {} /\ unreported = FALSE

-----------------------------------------------------------------------------
\* The facilitator.

\* Not the code: the file stays where it is.
QueuedAfterStart_Copied(file) == queued

QueuedAfterStart(file) == queued \ {file}

\* mv experiments/file current.config: whatever current.config was is lost.
RunStart(file) ==
  /\ moves' = moves \ {[move |-> "start", file |-> file]}
  /\ queued' = QueuedAfterStart(file)
  /\ current' = IF file \in queued THEN file ELSE current
  /\ UNCHANGED completed

\* Not the code: the move never fails.
CompletedAfterFinish_Always == completed \cup {current}

\* mv current.config completed_experiments/...: fails when there is none.
CompletedAfterFinish == IF current = None THEN completed ELSE completed \cup {current}

RunFinish ==
  /\ moves' = moves \ {[move |-> "finish"]}
  /\ completed' = CompletedAfterFinish
  /\ current' = None
  /\ UNCHANGED queued

RunMove ==
  /\ \E m \in moves : IF m.move = "start" THEN RunStart(m.file) ELSE RunFinish
  /\ UNCHANGED <<server, script, running, results, unreported>>

\* getNewExperimentPath and what is sent: the first file, or the default.
NewExperiment ==
  IF queued = {} THEN Default ELSE CHOOSE e \in queued : \A f \in queued : e <= f

\* getCurrentExperiment: whose code an emulator that starts now is sent.
CurrentExperiment == IF current = None THEN Default ELSE current

-----------------------------------------------------------------------------
\* The training host.

\* Not the code: the facilitator does not mark the file as in progress.
MovesToStart_None(e) == {}

\* markExperimentInProgress
MovesToStart(e) == IF e = Default THEN {} ELSE {[move |-> "start", file |-> e]}

\* setup_server.lua sends "server"; the facilitator orders the file's move and
\* answers.
GetServerConfig ==
  /\ script = "check" /\ phase = "moved"
  /\ moves = {}
  /\ running' = NewExperiment
  /\ moves' = MovesToStart(NewExperiment)
  /\ script' = "mkdir"
  /\ UNCHANGED <<server, queued, current, completed, results, unreported>>

\* setup_server.lua ends with a failed assert: it cannot reach the facilitator, or
\* gets no configuration from it, be it that the request or the answer is lost.
SetUpFails ==
  /\ script = "check" /\ phase = "moved"
  /\ moves = {}
  /\ moves' \in {moves, MovesToStart(NewExperiment)}
  /\ script' = "recheck"
  /\ UNCHANGED <<server, running, queued, current, completed, results, unreported>>

\* mkdir -p current/genomes/: an experiment to be found, without a config file
\* yet, which fails to load like one that is cut short.
MakeDirectory ==
  /\ script = "mkdir"
  /\ phase' = "down"
  /\ configFile' = Torn
  /\ poolFile' = [n \in Generations |-> None]
  /\ statsFile' = [n \in Generations |-> None]
  /\ script' = "write"
  /\ UNCHANGED <<memory, crashes, running, facilitator, results, unreported>>

\* Three seconds later, when the facilitator's move has run too: current/config.
WriteFirstConfig ==
  /\ script = "write"
  /\ moves = {}
  /\ configFile' = FirstConf
  /\ script' = "recheck"
  /\ UNCHANGED <<phase, memory, poolFile, statsFile, crashes, running, facilitator,
                 results, unreported>>

\* "Active experiment found", or "New experiment found": the server starts in the
\* directory.
StartServer ==
  /\ script \in {"check", "recheck"}
  /\ Restart
  /\ script' = "serve"
  /\ UNCHANGED <<running, facilitator, results, unreported>>

\* "No new experiments to run. Exiting."
Exit ==
  /\ script = "recheck" /\ phase = "moved"
  /\ script' = "exit"
  /\ UNCHANGED <<server, running, facilitator, results, unreported>>

\* The server trains and takes its backups.
Train ==
  /\ script = "serve"
  /\ \/ UseResult \/ NewGeneration \/ FirstMessage \/ CheckGeneration
     \/ OpenFiles \/ WritePool \/ WriteStats \/ Remember \/ WriteConfig
  /\ UNCHANGED experimentVars

\* The loop is over: the directory gets its final name.
Finish ==
  /\ script = "serve"
  /\ MoveResults
  /\ results' = results \cup {running}
  /\ script' = "report"
  /\ UNCHANGED <<running, facilitator, unreported>>

\* Not the code: the server reports before its last backup and the new name.
ReportDue_Stopping == script = "serve" /\ stopping /\ [move |-> "finish"] \notin moves

\* The server is through.
ReportDue == script = "report"

\* "server!Name": the facilitator moves the experiment it takes for the current
\* one out of the way.  It does not compare names.
Report ==
  /\ ReportDue
  /\ moves' = moves \cup {[move |-> "finish"]}
  /\ script' = "check"
  /\ UNCHANGED <<server, running, queued, current, completed, results, unreported>>

\* The server dies while it trains; the script goes on.
ServerDies ==
  /\ script = "serve"
  /\ Crash
  /\ script' = "check"
  /\ UNCHANGED <<running, facilitator, results, unreported>>

\* setup_server.lua dies with the configuration it fetched, before or after it
\* makes the directory, or the server with its report.
Interrupt ==
  /\ crashes < MaxCrashes
  /\ crashes' = crashes + 1
  /\ \/ script \in {"mkdir", "write"} /\ script' = "recheck" /\ UNCHANGED unreported
     \/ script = "report" /\ script' = "check" /\ unreported' = TRUE
  /\ UNCHANGED <<phase, memory, disk, running, facilitator, results>>

\* The server is started again and again, and cannot load its files.
Stuck == script \in {"check", "recheck"} /\ phase = "down" /\ ~Readable(configFile)

Hopeless == (Stuck \/ script = "exit") /\ UNCHANGED allVars

NextExperiments ==
  \/ RunMove
  \/ GetServerConfig \/ SetUpFails \/ MakeDirectory \/ WriteFirstConfig
  \/ StartServer \/ Exit \/ Train \/ Finish \/ Report
  \/ ServerDies \/ Interrupt
  \/ Hopeless

\* The shell runs its commands; the script and the server go on; results keep
\* coming, but the head of the loop is reached again and again, and then a
\* generation whose genomes are all scored is over.
FairnessExperiments ==
  /\ WF_allVars(RunMove)
  /\ WF_allVars(GetServerConfig \/ MakeDirectory \/ WriteFirstConfig
                  \/ StartServer \/ Exit \/ Finish \/ Report)
  /\ WF_allVars(script = "serve" /\ Train)

SpecExperiments ==
  InitExperiments /\ [][NextExperiments]_allVars /\ FairnessExperiments

-----------------------------------------------------------------------------
\* Type invariant of the server, the script and the facilitator's files.
TypeOKExperiments ==
  /\ TypeOK
  /\ script \in Scripts
  /\ running \in Files \cup {Default}
  /\ queued \subseteq Files /\ completed \subseteq Files
  /\ current \in Files \cup {None}
  /\ moves \subseteq [move: {"start"}, file: Files] \cup [move: {"finish"}]
  /\ results \subseteq Files \cup {Default}
  /\ unreported \in BOOLEAN

\* Every experiment file is in exactly one place: still to be handed out, current,
\* or completed.  Training may be cut off anywhere, so may the making of the
\* directory.  Only when a server dies with its report may a file go, overwritten
\* by the next one (facilitator.lua:107), and then its results are there.
NoneLost ==
  LET kept == queued \cup completed \cup ({current} \ {None})
  IN /\ Files = IF unreported THEN kept \cup (results \ {Default}) ELSE kept
     /\ queued \cap completed = {}
     /\ current \notin queued \cup completed

\* An experiment is archived as complete only once it has been trained to its
\* end, although the facilitator archives whatever is current and never looks at
\* the name in the report (markExperimentComplete), and although what is current
\* may be left from a set-up that failed, or from a report that never came.
ArchivedWereTrained == completed \subseteq results

\* While a server trains an experiment, an emulator that starts is sent the code
\* of that experiment, restarts of the server and the end of the experiment
\* before included (getCurrentExperiment and setup_server.lua agree); but for the
\* default experiment after a report that never came.
CodeOfExperiment ==
  script = "serve" => CurrentExperiment = running \/ (unreported /\ running = Default)

\* The script "repeats until all experiments are complete" (run_experiments.sh:3):
\* every file is trained, and archived if every server lived to report; unless
\* the script exits because a set-up failed, or a death leaves files that do not
\* load.
AllComplete ==
  <>(\/ Files \subseteq results /\ (completed = Files \/ unreported)
     \/ script = "exit"
     \/ Stuck)
=============================================================================
