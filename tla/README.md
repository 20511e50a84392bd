# A model of distributed MarI/O training

The repository trains neural networks to play Super Mario Bros.  A training
server breeds generations of genomes; emulators on many hosts fetch jobs
("play these levels with this network"), play them and return the results; the
server adds the results up to each genome's fitness and breeds the next
generation from it.  A facilitator hands out experiments and client code.

These TLA+ modules model how server and emulators keep that evaluation right
while emulators die, repeat each other's work and answer late; how the server
dies and starts again from its backups; how experiments follow one another; how
a generation is bred; and how an emulator plays a level.  TLC checks them on
small instances; TLAPS proves all safety properties of the passing runs for every instance.

## The system

| part | source | state it keeps | operations |
|---|---|---|---|
| job queue | `lua_server/zmqserver.lua` 838-986 | `jobs`, `jobs.index`, per genome `completeness` | make the queue, advance, split a job |
| training server | `zmqserver.lua` 988-1009, 1347-1737 | pool, `incompleteJobCount`, `serializedNetworks`, `clients`, prepared job | `runServer`: prepare, receive, score, answer, check for a new generation |
| backups and config | `zmqserver.lua` 31-42, 1015-1069, 1683-1695 | `conf`, files `config`, `backup.<n>.NEW_GENERATION` and `...POOL` | `writeBackup`, `saveConfig`, `loadBackup` |
| emulator | `facilitator/codebase/zmqclient.lua`, `hqnclient/*.sh`, `hqnclient/client.lua` | the job, `saveStateIndex`, `timeToDie`, a REQ socket | ask, play, return, exit; kill and relaunch |
| evolution | `zmqserver.lua` 700-897 | species, their staleness and best fitness | cull, rank, remove stale and weak species, breed, speciate |
| genomes | `zmqserver.lua` 287-700 | genes, `pool.innovation` | mutate, cross over, generate a network |
| playing a level | `zmqclient.lua` 130-457 | timeouts, positions, `wonLevel` | `playGame` |
| joypad of the emulator | `hqn/hqn/*.cpp`, `hqn/quicknes/nes_emu/Nes_Core.cpp` | `HQNState::joypad`, latch and strobe of the port | `joypad.set`, `emu.frameadvance`, read and write of $4016 |
| TCP server and client | `lua_server/dumber_server.lua`, `codebase/default_client_logic.lua` | as the training server, and `request_count` per job | the same loop over plain TCP, with a throttle: `wait` and decay |
| facilitator | `facilitator/facilitator.lua` | files of staged, current and completed experiments | hand out an experiment, hand out client code, mark complete |
| experiment scripts | `lua_server/setup_server.lua`, `run_experiments.sh` | directory `current` | ask for an experiment, run the server again and again |

**Interaction.**  There are two pairs of server and client.  `run_experiments.sh`
starts `dumber_server.lua`, which serves one TCP connection at a time;
`default.experiment` asks for `zmqclient.lua` and version `"ZMQ"`, whose server is
`zmqserver.lua`, started with the same argument in the same directory.  Over
ZeroMQ an emulator has a REQ socket and the server one ROUTER socket.  In both
pairs an emulator sends either a bare request or a result, and both are answered with
the next job, so each reply is also the next request's answer; an emulator
about to exit (`timeToDie`) is not answered.  Server and emulators share nothing
else: the address (generation, species, genome) in a message is all that
connects a result to a genome.  The server's process and its successors share
the config and backup files.  Emulators fetch their code from the facilitator
when they start; the training host fetches experiments from it and reports them
complete.

**What is hard.**  No job is ever locked: the queue goes round and hands the same
job to many emulators, and splits a job while others play the whole of it, so
results overlap, arrive twice, in any order, and late.  Over ZeroMQ the job to
hand out next is chosen before the server blocks in `recv`, and used after
scoring whatever came; over TCP it is chosen after scoring, which may have ended
the generation.  The count that ends a generation, the completeness it counts,
the queue, its request counts and the network cache are kept in step by hand.
Emulators get stuck for ever in `recv` when an answer is lost; a host that goes
away after connecting blocks the TCP server.  A backup is three files and a
config, not written atomically, and a restart takes the server back in time
while the emulators' jobs are of the lost future.  The facilitator's file moves
are shell commands that run after it has answered.  Breeding rounds
floating-point shares and must still end with the same population; genes are
copied, split and crossed over for many generations by innovation numbers that
must keep their meaning.  The client keeps globals between plays, and a decision reaches
the game through a port the game reads bit by bit, when it likes.

What makes each part correct:

- queue: every genome of the pool has jobs, a genome's jobs share its levels out
  whatever was split, and the search for an open job ends;
- server: each level of a genome is scored once and credited once, by a play of
  that genome's own network; the count of incomplete genomes is exact; cached
  networks are those of the current pool; the generation ends when, and only
  when, every genome is complete;
- emulators: every request is answered while the server lives; everything is
  played in the end though processes exit and die;
- TCP: the same, and a job is sent again only when all have been sent, and jobs
  that were lost come back although they are held back at first;
- backups: the config names complete files, frames are counted (by `zmqserver.lua`
  once, by `dumber_server.lua` at least once), records are saved, a restart
  resumes from an ancestor of the lost pool;
- experiments: none is lost, none is archived untrained, emulators get the code of
  the one being trained, and all complete, unless the script gives up;
- evolution: the population keeps its size, innovation numbers stand for one link,
  no link is doubled, neurons are numbered, species are related, the best stay, and a
  pool dies out only of age;
- playing: the game reads the decision that stands, every level ends, with its own
  outcome.

## Modules

| module | models |
|---|---|
| `JobQueue` | the queue's operators: `FreshJobs` (generateJobQueue), `NextIndex` (advanceJobsIndex), `SplitFactor`, `Partitions` (createPartitions), `MaybeExploded` (maybeExplodeJobIndex) |
| `TrainingServer` | the ZeroMQ server process; messages are parameters of `Receive` |
| `Emulator` | the emulators, their sockets and the messages in flight |
| `Evaluation` | abstract: pools evaluated one after the other, each genome scored on each level once |
| `Training` | `TrainingServer` and `Emulator` composed; the refinement of `Evaluation`; fairness |
| `TcpTraining` | the TCP server, its backlog of connections and its emulators; it too refines `Evaluation` |
| `Backup` | the server's memory and files, write by write |
| `Experiments` | extends `Backup`: the training host's scripts, the facilitator and its files |
| `Evolution` | genomes, mutation, crossover, species and newGeneration |
| `Play` | playGame and the way of a decision to the game |
| `MCTrainingServer`, `MCTraining`, `MCTcpTraining`, `MCEvolution` | instances for TLC |
| `JobQueueProofs`, `TrainingServerProofs`, `TrainingProofs`, `TcpTrainingProofs`, `ExperimentsProofs` (with those of `Backup`), `EvolutionProofs`, `PlayProofs` | theorems and proofs |
| `FiniteSums` | lemmas about sums and products over finite sets |

Definitions named `X_Something` with the comment "Not the code" are wrong variants of
`X`; they take no part in any specification.  Replacing `X` by one of them
must break a property, which shows that the property can fail.

### The server (`TrainingServer`)

One turn of `runServer` is three actions, split where another process can act or
the server can die in between:

- `PrepareNext` / `PrepareNewGeneration` (phase "prepare" to "wait"): the head of the
  loop up to `server:recv()`, that is `findNextNonRequestedGenome` with the breeding
  if `incompleteJobCount` is 0, the split, and the network from the cache;
- `Receive(m)` (phase "wait"): scoring or dropping the message, the answer
  (`Answers(m)`), up to the test for a new generation;
- `CheckGeneration` (phase "check", only in the first turn of a generation): the
  stopping condition and the backup.

`Crash` and `Restart` are the death of the process and a new process that loads the
backup the config names (here a backup is one step; `Backup` takes it apart).

Abstractions.  A genome is its address, and a network is `[lineage, genome]`:
the address it was made from and the pool it was made in.  The pool
`newGeneration` breeds is determined by the pool before and the random numbers drawn; since
the server never seeds `math.random`, the numbers are determined by the position
in the stream, which starts over with the process.  So a pool's identity is its
lineage: the list of breedings, each with its position in the stream (`draws`) and the
layout (which species has how many genomes) that came out.  Any layout of
`Population` genomes may come out; that newGeneration keeps the population is
checked in `Evolution` (`PopulationKept`).  Fitness is the list of plays it sums, per level, each
named by the network that played.  A client is active or not by the clock:
`PrepareJob` takes any subset of the known clients.  Of the stopping conditions
the generation is kept; the others would need data and may be any value
(`OtherStops`).

### The emulators (`Emulator`)

`AskForWork`, `TakeReply`, `ReturnResult` and `ReturnAndExit` are the client's loop, one
blocking call each.  A process has a socket number; a relaunch takes one that
no message still bears, like a fresh ZeroMQ identity.  `Kill` drops the process at any point; what it
had sent may or may not arrive.  An emulator is `Hung` when it waits and neither
its request nor an answer exists any more; `killPeriodically.sh` kills it in the end.
`played` counts levels up to `StopSavestate` (480 in the code, 2 to 5 in the runs).

### Training over TCP (`TcpTraining`)

The server accepts a connection, waits for a line without a time limit, scores
the result in it (`ReceiveLine`), and answers (`AnswerOpen`, or `AnswerNew` when the
last genome is complete, which breeds first).  `backlog` is the connections made and
not yet served, oldest first, and the line that has arrived on each.  A job's
`request_count` rises when it is sent; at the limit its client is told to wait,
and the count falls by the decay instead.  The counts 1, 4.5 and 0.05 of the code are whole
numbers in a unit of 0.05: `SendWeight` 20, `RequestLimit` 90, `Decay` 1.  An emulator may
die (`Kill`: its connection is closed, so `receive` fails), or its host may go away
(`Vanish`: nothing is closed, and a server that waits for its line waits for
ever, which is `CutOff`).  Unlike over ZeroMQ the order to die arrives.

### Backups (`Backup`) and experiments (`Experiments`)

`Dumber` says which server it is: `zmqserver.lua` may use a result between breeding
and the backup, and resets its count of frames after one; `dumber_server.lua` does
neither.  `writeBackup` is five steps: open (and empty) both backup files, write the pool, write the
statistics, update `conf` and open (and empty) the config, write the config.  The process can die
between any two.  A file opened and not closed is `Torn`.  `maxFitness` counts
records and `framesTrained` is a ghost: the frames that made the pool in memory.

`Experiments` puts `dumber_server.lua` in its place: `script` is where `run_experiments.sh`
is (looking for a directory, in setup_server.lua, looking again, in the server, in the
report, or gone), and `queued`, `current` and `completed` are the facilitator's files.  The
facilitator's `mv` commands are `moves` that run some time after they were ordered, but
before the training host's next request (it sleeps a second between two) and before
setup_server.lua writes the config (three seconds).

setup_server.lua may fail before it makes the directory (`SetUpFails`: the facilitator
cannot be reached, or its answer is lost, its file perhaps moved already), and may die at
any later point (`Interrupt`).  Whichever way it ends, the script looks for the directory
again (`recheck`): with one it starts the server, without one it prints "No new experiments to
run. Exiting." and exits (`Exit`).  `default.experiment` is never moved, so the
facilitator always has an answer, and a set-up that failed or died is in fact the only way to that
message.  A set-up that dies after `mkdir` leaves a directory without a config, and the
script starts the server in it for ever (`Stuck`).  Neither loses a file: the experiment stays
`current` with the facilitator.  A server that dies between the rename and the report
(`unreported`) does: the next experiment's move overwrites `current.config`.  It has been
trained by then, which is what `NoneLost` says of this case.

### Evolution (`Evolution`)

A genome is its set of genes, `maxneuron` and its fitness; a gene has its two neurons,
its innovation number and whether it is enabled.  Weights, and with them
pointMutate and the mutation rates, are left out; where `sameSpecies` compares weights
either verdict is possible, except that two genomes with no gene in common give
0/0, which compares as false.  A fitness is any member of `Fitnesses`.  `Found`, `Mutates` and
`Ready` are initializePool and the mutations of one genome in `mutate`'s order, each as often as
it likes; `Play` stands for training; `Select` is newGeneration up to the breeding,
`Breed`, `CullToOne`, `Fill`, `Place`, `PlaceChild` and `NextGeneration` the rest.  Sorting leaves equals in
any order; ranks are given likewise; average ranks are compared as whole numbers over a
common denominator.  `Shares` takes the floor of a quotient multiplied back, which can fall one
short of a whole number as `1/49*49` does, so both are possible there.

### Playing (`Play`)

`Load` starts a level: the savestate is loaded and the joypad cleared.  `Decide` is the
top of playGame's loop (positions, timeouts, in every fourth
frame the network's decision, and `joypad.set`), `Judge` its end: death,
victory, a timeout, or `emu.frameadvance`, which hands the joypad over to the console.  During the
frame the game strobes and reads the port when it likes (`Write`, `Read`), and leaves Mario
anywhere, dead or not and at the flag or not: the script reads these from different
bytes.  playGame looks at death before it looks at the flag, and clears `wonLevel` only on
victory.  So a death at the flag leaves `wonLevel` set and the next level is won in its first frame;
`OutcomeIsOwn` says that this is the only way an outcome is not the play's own.  Game,
savestates and network are external: a savestate starts Mario alive and away from the flag and
resets the port, and the network presses any buttons.  The savestate binding is in the
hqnes binary the clients run and not in this source.

## Runs

Each finishes in about two minutes or less with two workers.

| run | instance | checks |
|---|---|---|
| `server` | 2 genomes, 3 levels, 1 client, any result for any address of this or the next generation at any time, 1 crash, 1 generation boundary | types, `CounterExact`, `JobsShareLevels`, `FitnessSumsEachLevelOnce`, `CacheHoldsOpenGenomes`, `AdvanceTerminates` |
| `splits` | emulators of 2 hosts, 2 genomes, 2 levels, jobs split while played, 1 boundary, 1 kill, exit after 5 levels, with fairness | `NetworkMatchesAddress`, `OwnPlays`, `CreditConserved`, `EveryRequestIsAnswered`, `EvaluatesInOrder`, `EvaluatesPools` (the whole of `Evaluation`, its liveness included) |
| `crash` | 1 genome, 1 level, 2 boundaries, the server dies once, messages lost or delivered to the next process, with fairness | `BackupIsAncestor`, `Finishes` |
| `tcp` | 2 emulators of a host, one with older code, 2 genomes, 2 levels, 2 generations, 1 process dies or host vanishes, with fairness | types, `UnrequestedFirst`, `NetworkMatchesAddress`, `EvaluatesInOrder`, `FinishesUnlessCutOff` |
| `experiments` | 2 experiments and the default, `dumber_server.lua`, 2 generations each (3 after a crash), 4 frames, 2 records, 2 deaths, any set-up may fail, with fairness | types, `ConfigNamesCompleteBackup`, `NoFrameMissed`, `NoneLost`, `ArchivedWereTrained`, `CodeOfExperiment`, `AllComplete` |
| `backup` | `zmqserver.lua`, one experiment | `FramesCountedOnce`, `RecordsAreSaved` |
| `evolution` | 3 genomes of at most 3 genes, 4 innovations, 2 fitnesses, 2 selections | types, `PopulationKept`, `InnovationNamesOneLink`, `NoLinkTwice`, `NeuronsNumbered`, `MembersShareGenes`, `BestGenomeStays`, `SomeStay` |
| `play` | 2 levels, a decision every second frame, timeouts of 4 and 2, 2 places for Mario, with fairness | types, `GameSeesDecision`, `OutcomeIsOwn`, `EveryPlayEnds` |

Three levels let a job be split in two and one of the parts be split again, or
a job be split in three; results of any subset overlap such parts in every way.
Two genomes are enough for one to complete while the other is open, and for
the queue's index to wrap.  A generation boundary lets a result be late; two let a
backup be older than the pool lost.  One crash reaches every phase; the second of
`experiments` reaches a restart from a backup of the second life, over files the first life
left, and a death while the second experiment is set up.  `backup` takes the server alone, for
`zmqserver.lua` counts frames exactly and `dumber_server.lua` does not.  `EmulatorsPerClient` and
`SplitsPerEmulator` (8 and 5 in the code) are made small enough that factors of 1, 2 and
more occur with 2 genomes.  In `tcp` the weight, limit and decay are 2, 3 and 1: a job is sent
twice, held back twice and sent again.  In `evolution` the first genomes mutate by links
only, and only the children of the first selection mutate (`MCEvolution`); that is enough for
genomes with common and disjoint genes, splits of enabled and disabled genes,
crossovers of equals and unequals, stale and weak species.  `SocketsPerEmulator`, `MaxKills`,
`MaxCrashes`, `MaxFailures`, `MaxFrames`, `MaxRecords`, `MaxInnovation`, `MaxGenes`, `MaxNodes` and `MaxX` are bounds of
the model, each named in a guard or a cap.

**Fairness.**  The server's own steps and its handling of requests are weakly
fair: it is one loop, and ZeroMQ delivers what is queued.  `Serve` as a whole is
fair, not per request: nothing is assumed about which request is next.  Each
emulator's loop is weakly fair.  A hung emulator is killed in the end because
`killPeriodically.sh` kills every emulator every 5 minutes; kills of working
emulators are allowed, bounded, and not fair: in `splits` one dies at any point, its job or
result with it, and the pools are evaluated all the same.  The fair killing is needed where
answers get lost (`crash`).  Over TCP server and emulators are fair likewise, an
emulator by `Connect` and `Send`.  In `experiments` the facilitator's commands run, the scripts go on,
and a server that trains reaches the end of its generation.  Failed set-ups and deaths are not fair, and
either may end the script's work for good, which `AllComplete` allows and names.  In `play` the script
runs on and a frame ends, for it takes a fixed number of clocks; that the game polls is
not assumed.  A crash is never fair.

### What does not hold

Four runs look for what a comment promises, and TLC finds a counterexample.

- `outdated` (`DieOrderArrives`): the ZeroMQ server answers an outdated client with
  `server:send(dieMsg)` and nothing else (zmqserver.lua:1644).  A ROUTER socket takes
  the first frame for the address and drops the message; the client
  waits in `recv` for ever.  Had it arrived, the client would compare a
  serialized table with the string "die" (zmqclient.lua:545).
- `rollback` (`OwnPlays`): a server restarted from an older backup breeds the same generation
  numbers again.  A result of the lost timeline with the right number and
  address passes the test "Only use fresh results" (zmqserver.lua:1574) and is added to
  another genome's fitness.  Without a crash the property holds (`splits`, and `TrainingOwnPlays`).
- `backup_torn` (`CanContinue`): `saveConfig` empties the only config before
  writing it (zmqserver.lua:1017).
- `backup_dumber` (`FramesNotOvercounted`): `dumber_server.lua` never resets
  `framesSinceLastBackup`, so every backup adds the frames of the earlier ones
  again to `FramesSpentTraining`, which `StopFrames` is compared with (lines
  1085, 1495, 1520, 1743).  `zmqserver.lua` resets it (line 1691).

## Proofs

Assumptions.  Each module names those on its constants, and TLC evaluates them on its
runs: `PopulationAssumption`, `LevelsAssumption`, `SplitAssumption` (a positive
population, finitely many levels and at least one, positive factors),
`ServerAssumption`, `EmulatorAssumption`, `ClientAssumption`, `TcpAssumption`, `NoLineAssumption`, `BackupAssumption`,
`FilesAssumption`, `ExperimentAssumption`, `EvolutionAssumption`, `PlayAssumption`: numbers in their
ranges, finite sets, and markers such as `Torn` or `Gone` that are none of the
values they stand beside.  Some theorems assume more in their statement: `MaxCrashes = 0`
where a death refutes the property (run `rollback`), `~Dumber` for `FramesCountedOnce`, which
dumber_server.lua refutes (run `backup_dumber`), `StopGeneration > 0` where `Evaluation` needs a last round.

**Queue.**  `JobQueueProofs` proves what the operators return: `NextIndex` returns an
open job when there is one (`NextIndexIsOpen`, from the well-foundedness of the natural
numbers); a layout has `Population` members (`MembersCount`, a bijection);
`Partitions` are non-empty, disjoint and cover (`PartitionsShare`, the TODO of
createPartitions); `MaybeExploded` leaves a well-formed queue with jobs of the same
genomes (`ExplodedJobs`, `MaybeExplodedJobs`), and one that still shares every
genome's levels out (`MaybeExplodedShares`: each new job comes from an old one, and two
new jobs that ask for the same level come from the same old job and are the same part).

**Server.**  `TrainingServerProofs` proves of `ServerSpec` - the server, with any message of the
right shape arriving at any time, and any number of crashes - that these
always hold: `TypeOK`, `CounterExact`, `FitnessSumsEachLevelOnce`,
`CacheHoldsOpenGenomes`, `AdvanceTerminates`, `JobsShareLevels`.  The inductive invariant is

    IInv == TypeOK /\ CounterExact /\ QueueCoversPool
              /\ FitnessSumsEachLevelOnce /\ CacheHoldsOpenGenomes

The parts need each other.  The count is lowered when a genome completes, and
stays a natural number only because it counts exactly (`CounterExact`: removing one element from a
finite set).  `AdvanceTerminates` follows from the count and from `QueueCoversPool`: some genome
is open, and it has a job.  `QueueCoversPool` (the jobs are jobs of the pool's genomes, each has
one) is kept by splitting because `MaybeExploded` keeps the genomes.  The cache receives the genome just
chosen, which is open and of the pool by the same fact, and gives it up when it
completes.  Fitness follows `done` because only `ValidResultSet`, the levels
not done yet, is added to both.  `JobsShareLevels` is proved on top of `IInv`
from `SharesLevels`, which says the same without counting.

**Server and emulators.**  `TrainingProofs` proves of `Training`, for any number of emulators,
sockets, kills and deaths, `NetworkMatchesAddress`, `BackupIsAncestor` and `EveryRequestIsAnswered`, and
without deaths of the server `OwnPlays`, `CreditConserved` and `EvaluatesInOrder`.  The inductive invariant is

    DInv == SInv /\ EmulatorTypes /\ FlightInv /\ SocketInv
              /\ EveryRequestIsAnswered /\ (crashes = 0 => OwnPlays)

`SInv` is the server's `IInv` with `PoolInv`: the generation counts the breedings, the backup is
of an ancestor, and the network prepared is that of the job prepared.  `FlightInv` says of
every job in flight that it names its own network (`Fits`) and, while the server has not died, a pool that is
an ancestor of the current one: then a result with the current generation's number is of
the current pool (`FreshIsOwn`: of one length there is one ancestor), which a rollback
breaks.  `SocketInv` says that no farewell and no foreign version is under way from a
socket that has an owner, so whoever waits is answered; a new process satisfies it
because its socket is one no message is from (`NewSocket`).  For the refinement, `Paced` adds that
between the breeding of a pool and its first message nothing in flight is of that pool, so that nothing
is scored after the last round; everything is evaluated when the count is 0, by `CounterExact`.

`CreditInv` counts: the clients' credits are the levels of the generations bred and those done
in this one.  One result adds the same number to a client's credit and to `done` of one genome
(`SumChange`), and when the count is 0 every genome has all levels (`SumConstant`).  The equality
is proved of a server that has not died.  A backup is made after the first result of its generation, so
one that starts from it plays that result's levels again and credits them again: with deaths only
`CreditCovers` is proved, that no level is done without credit.

**TCP.**  `TcpTrainingProofs` proves all that run `tcp` checks but the liveness.  The inductive
invariant `TInv` says that what is cached is of this generation, that jobs and lines match
their networks, and, for `UnrequestedFirst`, that the open jobs never sent lie contiguously ahead of the
index (`UnsentAhead`): a split inserts its uncounted parts just there, and a refusal lowers a
count no further than a job once sent can show.  The refinement adds that fitness holds
just the plays of what is done (`Credited`) and that each genome has a job (`Covers`).
`HeardOnce` says that an emulator that waits has exactly one connection, in the backlog or being answered,
and one that does not has none, whoever died, was dismissed or ended without waiting.  So
the first connection of the backlog always has a line to read, was closed, is of a host that went
away (`CutOff`), or is of an emulator that is about to send: `NeverStuck`, the safety half of "Any
number of clients may fail and we won't get stuck".  It speaks of the actions' guards; that the rest of an
answer can always be carried out, and that somebody then goes on, run `tcp` checks.

**Files.**  The first part of `ExperimentsProofs` proves what holds of `Backup`.  `IInv` says of each point of a backup what is in memory and on
file: a file under the config's name is never opened again, because the config names an
older generation from the first message of a generation on.  `RecordsOnFile` and `FramesOnFile` strengthen the other two
properties to all phases; `FramesCovered` is what is left of the second for either server: the
count on file is never behind the frames of the pool on file.  The second part reuses each of its
lemmas for the steps of the server (`BackupCountsFrames` alone is of `zmqserver.lua` only, and is
not carried over to the script, which starts the other), and adds `Books`: `NoneLost` and
`ArchivedWereTrained` together with `FilesInStep`, where the experiment's file and the pending moves
are at each point of the script, after deaths and failed set-ups too.  Only with it is it clear that a
report archives the experiment trained, though the facilitator does not look, and that no move
overwrites a file that was not trained.

**Evolution.**  `EvolutionProofs` proves all that run `evolution` checks.  The types, `InnovationNamesOneLink`,
`NoLinkTwice`, `NeuronsNumbered` and `MembersShareGenes` follow from an invariant of all genomes there are (`Pedigree`): each is `Sound`,
and any two `Agree` on innovations.  Two innovation numbers that agree are one link, so what
crossover swaps in joins the same neurons as what it swaps out.  `SpeciesInStage` says when members of a
species have a gene in common with its first: not while selection runs, and again once each
species is down to one genome.

- `PopulationKept` follows from `HeadsInStage`: while a generation is bred, the children there are, the
  one being made, those owed and one genome of each species are at most `Population`; from then on only the
  filling adds to them, one at a time.  That selection establishes it is arithmetic (`StrongFit`).  Let
  S be the sum of the averages of the species that are left.  Each breeds the floor of
  average/S*Population children, its best genome's place included.  It needs one place even if that
  floor is 0, and is worth one, because it was worth one of the larger sum before the weak species were taken
  out.  So its places times S are at most average*Population, and all places times S at most
  S*Population.  Floors that fall one short only lower the places.
- `BestGenomeStays` follows from `BestInStage`: what is bred has no fitness until it is played, so a child
  placed in a species that stays beats no first genome; and a sort puts one of the best first, in whatever
  order it leaves equals (`SortedBest`: a permutation is onto).
- `SomeStay` (`PoolSurvives`): if one species is not stale or holds the record, some last; of those the
  one with the greatest average is worth at least Population/n children, n the number of species that last,
  and n is at most `Population`, for each came with a genome.  If its share could fall short of the
  floor, it must be worth more than one, which it is when n is less than `Population`; when n
  is `Population`, each species has one genome, the ranks differ, and so do the averages.

**Sums.**  `FiniteSums` proves what the community modules' folds do on every finite set: the equation that
defines a sum has a solution, any two agree, so `MapThenSumSet` is that solution, and elements may
be taken in any order (`SumRemove`, `SumSame`, `SumChange`, `SumScaled`, `SumRenamed`).  Where one would use
induction on the set, it takes a smallest subset for which the claim fails (`MinimalSubset`, from
the well-foundedness of strict inclusion, `WFMin`) and removes an element.

**Playing.**  `PlayProofs` proves the types - with them that no play reaches `MaxFrames` -, `GameSeesDecision`,
`OutcomeIsOwn`, and that the game never reads left and right
together (`NeverBothWays`), from `PortInStep` (where in joypad, console and latch the
decision's bits are) and `VerdictInStep` (what `playerState` and `wonLevel` say when they are used).

Model-checked only: liveness (`EvaluatesPools`, `Finishes`, `FinishesUnlessCutOff`, `AllComplete`, `EveryPlayEnds`),
which is beyond the prover.

## Not modelled, and why

- **Extinction.**  Species that do not hold the record are removed when stale, and a record species can be removed
  as weak: with 20 genomes, 14 species of one genome each beside a record species of 6 can
  leave it less than one child by its average rank.  If then all others go stale below the record, the
  pool dies out and newGeneration fails.  `SomeStay` says that it dies out in no other way; whether it does in this
  one depends on fitness, and nothing is claimed.
- **Numbers.**  Weights, mutation rates, the sums of the network (generateNetwork, evaluateNetwork), fitness formulas
  and the averages shown are arithmetic that keeps no state the properties tell apart.
- **A TCP server that restarts** is not composed with its connections; its backups are those of
  `Backup`, and restarts are composed with ZeroMQ in `Training`.
- **Screens and statistics** (curses output, stale levels, frames and characters per client), the
  genome files written for records and the chat messages: nothing reads them back.
- **Earlier servers and clients** (`server.lua`, `client_logic.lua` and others) are superseded by the
  pairs modelled.
- **Third-party code**, by far most of the repository's lines: LuaJIT, the console emulated by quicknes,
  `json.hpp`, BizHawk, the serializers, ROM tools and savestates.  Of quicknes only the joypad port is modelled, because
  a decision passes through it; the rest has no part in the protocols above.  The
  share of the repository's C and C++ lines that the model covers is therefore tiny.
- **Bindings of hqnes** other than the joypad and the frame advance read and write memory or draw, and keep no state.
