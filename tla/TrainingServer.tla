--------------------------- MODULE TrainingServer ---------------------------
(***************************************************************************)
(* The training server, lua_server/zmqserver.lua: one process that runs    *)
(* runServer, a loop that prepares the next job, blocks on a ROUTER        *)
(* socket, scores the result it receives, answers with the job it had      *)
(* prepared before, and now and then backs the pool up.                    *)
(*                                                                         *)
(* This module is the server alone.  Messages are parameters of its        *)
(* actions: Training composes it with the emulators, and ServerSpec below  *)
(* lets any message at all arrive.                                         *)
(*                                                                         *)
(* Fitness is abstracted to the plays it is the sum of, a genome to its    *)
(* address and the pool that holds it.  The pool bred by newGeneration     *)
(* depends on the pool before and on the random numbers drawn; the server  *)
(* never seeds math.random, so the position in its stream, which restarts  *)
(* with the process, stands for the numbers.  The "lineage" of a pool is   *)
(* the list of the breedings that made it since the first pool.            *)
(***************************************************************************)
EXTENDS JobQueue

CONSTANTS
  Clients,          \* values of config.clientId
  FirstLayout,      \* layout of the pool initializePool makes
  StopGeneration,   \* conf.StopGeneration, 0 or less to train for ever
  OtherStops,       \* whether the other stopping conditions may hold: fitness,
                    \* time and frames are data the model does not keep
  MaxCrashes,       \* bound: how often the server process dies
  NoBackup          \* conf.last_backup_filename is nil

ASSUME ServerAssumption == /\ IsFiniteSet(Clients)
                           /\ FirstLayout \in Layouts
                           /\ StopGeneration \in Int
                           /\ OtherStops \subseteq BOOLEAN /\ OtherStops # {}
                           /\ MaxCrashes \in Nat

VARIABLES
  phase,                \* where runServer is
  generation,           \* pool.generation
  layout,               \* the addresses of the pool's genomes
  lineage,              \* which pool this is
  draws,                \* position in the stream of math.random
  done,                 \* completeness of each genome
  fitness,              \* plays each genome's fitness sums, for each level
  jobs, index,          \* the queue and jobs.index
  incompleteJobCount,
  serializedNetworks,   \* cache of networks by address
  networkToSend,        \* the network the next reply carries
  known,                \* keys of the table clients
  levelsPlayed,         \* clients[id].levelsPlayed
  lastGeneration,
  saved,                \* the backup the config file names
  crashes               \* process deaths so far (bounded by MaxCrashes)

pool == <<generation, layout, lineage, draws>>
scores == <<done, fitness>>
queue == <<jobs, index, incompleteJobCount>>
network == <<serializedNetworks, networkToSend>>
stats == <<known, levelsPlayed>>
serverVars == <<phase, pool, scores, queue, network, stats, lastGeneration, saved, crashes>>

Lineage == Seq([draw: Nat, layout: Layouts])

\* A network is known by the genome it was generated from.
Network == [lineage: Lineage, genome: Genomes]

\* What an emulator is asked to play, and what it returns.
Work == [generation: Nat, genome: Genomes, levels: SUBSET Levels, network: Network]

Ask == [kind: {"ask"}, client: Clients]

\* "current": the emulator runs the code of this experiment (versionCode
\* equals VERSION_CODE); "die": it says it is about to exit (timeToDie).
Result == [kind: {"result"}, client: Clients, work: Work,
           current: BOOLEAN, die: BOOLEAN]

Unscored == [g \in Genomes |-> {}]
NoPlays == [g \in Genomes |-> [l \in Levels |-> <<>>]]

\* networkToSend before the loop sets it: any value will do.
FirstNetwork == [lineage |-> <<>>, genome |-> FirstLayout[1]]

-----------------------------------------------------------------------------
\* A process that starts without a backup: initializePool, generateJobQueue.
FreshStart ==
  [generation |-> 0, layout |-> FirstLayout, lineage |-> <<>>,
   known |-> {}, levelsPlayed |-> [c \in Clients |-> 0]]

ServerInit ==
  /\ phase = "prepare"
  /\ generation = 0
  /\ layout = FirstLayout
  /\ lineage = <<>>
  /\ draws = 0
  /\ done = Unscored
  /\ fitness = NoPlays
  /\ jobs = FreshJobs(FirstLayout)
  /\ index = 0
  /\ incompleteJobCount = Population
  /\ serializedNetworks = {}
  /\ networkToSend = FirstNetwork
  /\ known = {}
  /\ levelsPlayed = [c \in Clients |-> 0]
  /\ lastGeneration = 0
  /\ saved = NoBackup
  /\ crashes = 0

\* getSerializedNetwork: the network cached for address g, or that of the
\* genome at g in the pool.
SerializedNetwork(cache, g, current) ==
  IF \E n \in cache : n.address = g
  THEN (CHOOSE n \in cache : n.address = g).network
  ELSE [lineage |-> current, genome |-> g]

\* The end of findNextNonRequestedGenome and the rest of the loop's head: pick
\* the next open job after "from", split it if too few are left for the active
\* clients, and have its network ready before blocking on the socket.
PrepareJob(q, from, scored, count, cache, current, active) ==
  LET n == NextIndex(q, from, scored)
      g == q[n].genome
  IN  /\ OpenJobs(q, scored) # {}
      /\ jobs' \in MaybeExploded(q, n, Cardinality(active), count)
      /\ index' = n
      /\ networkToSend' = SerializedNetwork(cache, g, current)
      /\ serializedNetworks' = cache \cup {[address |-> g, network |-> networkToSend']}
      /\ phase' = "wait"

\* Head of the loop while the generation has genomes left to score.  Clients
\* are active for 60 seconds after a result: any of the known ones.
PrepareNext ==
  /\ phase = "prepare"
  /\ incompleteJobCount # 0
  /\ \E active \in SUBSET known :
       PrepareJob(jobs, index, done, incompleteJobCount, serializedNetworks, lineage, active)
  /\ UNCHANGED <<pool, scores, incompleteJobCount, stats, lastGeneration, saved, crashes>>

\* The network cache that newGeneration leaves (clearSerializedNetworks).
ClearedCache == {}

\* Head of the loop after the last result of a generation: newGeneration breeds
\* the next pool and makes its queue.
PrepareNewGeneration ==
  /\ phase = "prepare"
  /\ incompleteJobCount = 0
  /\ generation' = generation + 1
  /\ \E next \in Layouts :
       /\ layout' = next
       /\ lineage' = Append(lineage, [draw |-> draws, layout |-> next])
  /\ draws' = draws + 1
  /\ done' = Unscored
  /\ fitness' = NoPlays
  /\ incompleteJobCount' = Population
  /\ \E active \in SUBSET known :
       PrepareJob(FreshJobs(layout'), 0, Unscored, Population, ClearedCache, lineage', active)
  /\ UNCHANGED <<stats, lastGeneration, saved, crashes>>

-----------------------------------------------------------------------------
\* Not the code: all levels returned count.
ValidResultSet_All(r) == r.work.levels

\* resultSet - playedGenome.completeness
ValidResultSet(r) == r.work.levels \ done[r.work.genome]

\* Not the code: the generation of the result is not looked at.
IsFresh_AnyGeneration(r) ==
  /\ r.current
  /\ r.work.genome \in Members(layout)
  /\ done[r.work.genome] # Levels
  /\ ValidResultSet(r) # {}

\* "Only use fresh results from new clients": the test before scoring a result.
IsFresh(r) ==
  /\ r.work.generation = generation
  /\ r.current
  /\ r.work.genome \in Members(layout)
  /\ done[r.work.genome] # Levels
  /\ ValidResultSet(r) # {}

\* Add the plays of the valid levels to the fitness of the genome.
AddToFitness(r) ==
  [fitness EXCEPT ![r.work.genome] =
     [l \in Levels |-> IF l \in ValidResultSet(r)
                       THEN Append(@[l], r.work.network) ELSE @[l]]]

\* Not the code: counts the levels scored, where genomes are counted.
IncompleteAfter_Levels(r) == incompleteJobCount - Cardinality(ValidResultSet(r))

\* Not the code: only a result with every level completes a genome.
IncompleteAfter_WholeJob(r) ==
  IF r.work.levels = Levels THEN incompleteJobCount - 1 ELSE incompleteJobCount

IncompleteAfter(r) ==
  IF done'[r.work.genome] = Levels THEN incompleteJobCount - 1 ELSE incompleteJobCount

\* Not the code: networks are never released.
CacheAfter_Kept(r) == serializedNetworks

\* removeSerializedNetwork when the genome is complete.
CacheAfter(r) ==
  IF done'[r.work.genome] = Levels
  THEN {n \in serializedNetworks : n.address # r.work.genome}
  ELSE serializedNetworks

\* Not the code: credit for everything returned.
CreditFor_Returned(r) == Cardinality(r.work.levels)

\* The levels the client is the first to return.
CreditFor(r) == Cardinality(ValidResultSet(r))

ScoreResult(r) ==
  /\ done' = [done EXCEPT ![r.work.genome] = @ \cup ValidResultSet(r)]
  /\ fitness' = AddToFitness(r)
  /\ incompleteJobCount' = IncompleteAfter(r)
  /\ serializedNetworks' = CacheAfter(r)
  /\ levelsPlayed' = [levelsPlayed EXCEPT ![r.client] = @ + CreditFor(r)]

\* Not the code: stamped with the generation seen by the last backup check.
PreparedJob_LastGeneration ==
  [generation |-> lastGeneration, genome |-> jobs[index].genome,
   levels |-> jobs[index].levels, network |-> networkToSend]

\* The job every answer of this turn carries, prepared before the message came.
PreparedJob ==
  [generation |-> generation, genome |-> jobs[index].genome,
   levels |-> jobs[index].levels, network |-> networkToSend]

\* Not the code: a result that came too late is not answered.
Answers_FreshOnly(m) ==
  IF m.kind = "result" /\ (m.die \/ ~IsFresh(m)) THEN {} ELSE {PreparedJob}

\* What the server sends back.  An outdated emulator is sent dieMsg without the
\* address frames: the ROUTER socket drops it.  A dying one is sent nothing.
Answers(m) ==
  IF m.kind = "result" /\ (~m.current \/ m.die) THEN {} ELSE {PreparedJob}

\* After a turn the loop looks at the generation, and most often starts again.
NextPhase == IF lastGeneration # generation THEN "check" ELSE "prepare"

\* One message: score it if it is a fresh result, answer it.
Receive(m) ==
  /\ phase = "wait"
  /\ IF m.kind = "result" /\ IsFresh(m)
     THEN ScoreResult(m)
     ELSE UNCHANGED <<scores, incompleteJobCount, serializedNetworks, levelsPlayed>>
  /\ known' = IF m.kind = "result" THEN known \cup {m.client} ELSE known
  /\ phase' = NextPhase
  /\ UNCHANGED <<pool, jobs, index, networkToSend, lastGeneration, saved, crashes>>

\* First message of a generation handled: stop if the experiment is over; back
\* the pool up if the last backup is old, or a record was set, or on stopping.
CheckGeneration ==
  /\ phase = "check"
  /\ \E old \in BOOLEAN, other \in OtherStops :
       LET stop == (StopGeneration > 0 /\ generation >= StopGeneration) \/ other
       IN  /\ saved' = IF old \/ stop
                       THEN [generation |-> generation, layout |-> layout, lineage |-> lineage,
                             known |-> known, levelsPlayed |-> levelsPlayed]
                       ELSE saved
           /\ phase' = IF stop THEN "finished" ELSE "prepare"
  /\ lastGeneration' = generation
  /\ UNCHANGED <<pool, scores, queue, network, stats, crashes>>

-----------------------------------------------------------------------------
\* The process dies (an error in the loop, a kill, the machine).
Crash ==
  /\ phase \in {"prepare", "wait", "check"}
  /\ crashes < MaxCrashes
  /\ crashes' = crashes + 1
  /\ phase' = "down"
  /\ UNCHANGED <<pool, scores, queue, network, stats, lastGeneration, saved>>

\* Not the code: the backup is not looked at.
RestartPool_Fresh == FreshStart

\* What a new server process starts from.
RestartPool == IF saved = NoBackup THEN FreshStart ELSE saved

\* A new process in the same directory (run_experiments.sh starts one whenever
\* the server ends): loadBackup, or a first-time setup.  The queue is made anew,
\* so the generation is played from its beginning.
Restart ==
  /\ phase = "down"
  /\ LET b == RestartPool
     IN  /\ generation' = b.generation
         /\ layout' = b.layout
         /\ lineage' = b.lineage
         /\ known' = b.known
         /\ levelsPlayed' = b.levelsPlayed
         /\ jobs' = FreshJobs(b.layout)
         /\ lastGeneration' = b.generation
  /\ draws' = 0
  /\ done' = Unscored
  /\ fitness' = NoPlays
  /\ index' = 0
  /\ incompleteJobCount' = Population
  /\ serializedNetworks' = {}
  /\ networkToSend' = FirstNetwork
  /\ phase' = "prepare"
  /\ UNCHANGED <<saved, crashes>>

ServerStep == PrepareNext \/ PrepareNewGeneration \/ CheckGeneration \/ Restart

ServerNext ==
  \/ ServerStep
  \/ \E m \in Ask \cup Result : Receive(m)
  \/ Crash

ServerSpec == ServerInit /\ [][ServerNext]_serverVars

-----------------------------------------------------------------------------
Phases == {"prepare", "wait", "check", "finished", "down"}

Backup == [generation: Nat, layout: Layouts, lineage: Lineage,
           known: SUBSET Clients, levelsPlayed: [Clients -> Nat]]

\* Type invariant of the server's state.
TypeOK ==
  /\ phase \in Phases
  /\ generation \in Nat
  /\ layout \in Layouts
  /\ lineage \in Lineage
  /\ draws \in Nat
  /\ done \in [Genomes -> SUBSET Levels]
  /\ fitness \in [Genomes -> [Levels -> Seq(Network)]]
  /\ jobs \in Seq(Job)
  /\ index \in 0..Len(jobs)
  /\ incompleteJobCount \in 0..Population
  /\ serializedNetworks \in SUBSET [address: Genomes, network: Network]
  /\ networkToSend \in Network
  /\ known \in SUBSET Clients
  /\ levelsPlayed \in [Clients -> Nat]
  /\ lastGeneration \in Nat
  /\ saved \in Backup \cup {NoBackup}
  /\ crashes \in 0..MaxCrashes

\* The count that decides when a generation is over is the number of genomes
\* of the pool that still miss a level, whatever results arrive in whatever
\* order, twice or late (incompleteJobCount, set at 857 and lowered at 1595).
CounterExact ==
  incompleteJobCount = Cardinality({g \in Members(layout) : done[g] # Levels})

\* The jobs of a genome share its levels out among them: every level is asked
\* for by exactly one job and no job is empty, however often jobs were split
\* ("TODO: Verify there are no empty sets?", createPartitions).
JobsOf(g) == {n \in 1..Len(jobs) : jobs[n].genome = g}

JobsShareLevels ==
  /\ \A n \in 1..Len(jobs) : jobs[n].genome \in Members(layout) /\ jobs[n].levels # {}
  /\ \A g \in Members(layout) : \A l \in Levels :
       Cardinality({n \in JobsOf(g) : l \in jobs[n].levels}) = 1

\* A genome's fitness sums one play of each level it is complete for and none
\* of the others: results of several emulators for the same job, or for jobs
\* that overlap after a split, never add a level twice.
FitnessSumsEachLevelOnce ==
  \A g \in Genomes, l \in Levels :
    Len(fitness[g][l]) = IF l \in done[g] THEN 1 ELSE 0

\* The cache of serialized networks holds, for an address, the network of the
\* genome that is there in the current pool, and gives up the networks of the
\* genomes that are complete ("Release the memory", zmqserver.lua:1597).
CacheHoldsOpenGenomes ==
  \A n \in serializedNetworks :
    /\ n.network = [lineage |-> lineage, genome |-> n.address]
    /\ n.address \in Members(layout)
    /\ done[n.address] # Levels

\* The loop that looks for the next job ends: while the count says a genome is
\* incomplete there is a job for one ("Assumes there is still a non-finished
\* job available", advanceJobsIndex).
AdvanceTerminates ==
  phase = "prepare" /\ incompleteJobCount # 0 => OpenJobs(jobs, done) # {}
=============================================================================
