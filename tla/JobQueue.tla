------------------------------ MODULE JobQueue ------------------------------
(***************************************************************************)
(* The job queue of the training server (lua_server/zmqserver.lua): which  *)
(* levels of which genome an emulator is asked to play next.               *)
(*                                                                         *)
(* A genome is named by its address <<species, genome>> in the pool, as in *)
(* every message of the protocol.  A job is a genome and a set of levels.  *)
(* A generation starts with one job per genome; when many emulators are    *)
(* active and few genomes are left, the server splits ("explodes") a job   *)
(* into several that share its levels out.                                 *)
(***************************************************************************)
EXTENDS Integers, Sequences, FiniteSets

CONSTANTS
  Population,           \* conf.Population: genomes in a generation
  Levels,               \* the levels a genome plays (NUM_LEVELS of them)
  EmulatorsPerClient,   \* what an active client counts for (8 in the code)
  SplitsPerEmulator     \* jobs wanted for each active emulator (5 in the code)

ASSUME PopulationAssumption == Population \in Nat \ {0}
ASSUME LevelsAssumption == IsFiniteSet(Levels) /\ Levels # {}
ASSUME SplitAssumption == /\ EmulatorsPerClient \in Nat \ {0}
                          /\ SplitsPerEmulator \in Nat \ {0}

\* Addresses <<species, genome>>: no pool has more species, or a species with
\* more genomes, than there are genomes.
Genomes == (1..Population) \X (1..Population)

Job == [genome: Genomes, levels: SUBSET Levels]

(***************************************************************************)
(* A layout lists the addresses of a pool in the order of the two nested   *)
(* loops of generateJobQueue: species are numbered from 1 without a gap,   *)
(* and so are the genomes of a species.                                    *)
(***************************************************************************)
Layouts ==
  {a \in [1..Population -> Genomes] :
     /\ a[1] = <<1, 1>>
     /\ \A i \in 2..Population :
          \/ a[i] = <<a[i-1][1], a[i-1][2] + 1>>
          \/ a[i] = <<a[i-1][1] + 1, 1>>
     /\ \A i, j \in 1..Population : a[i] = a[j] => i = j}

Members(layout) == {layout[i] : i \in 1..Population}

\* The queue of a new generation: every genome, with every level to play.
FreshJobs(layout) ==
  [i \in 1..Population |-> [genome |-> layout[i], levels |-> Levels]]

(***************************************************************************)
(* advanceJobsIndex: the loop steps cyclically from index and stops at the *)
(* first job whose genome still misses a level.  It never stops when there *)
(* is no such job ("Assumes there is still a non-finished job available"). *)
(***************************************************************************)
OpenJobs(jobs, done) ==
  {n \in 1..Len(jobs) : done[jobs[n].genome] # Levels}

\* Not the code: the search starts at the first job every time.
NextIndex_FromFirst(jobs, index, done) ==
  CHOOSE n \in OpenJobs(jobs, done) : \A m \in OpenJobs(jobs, done) : n <= m

NextIndex(jobs, index, done) ==
  LET open  == OpenJobs(jobs, done)
      ahead == {n \in open : n > index}
      from  == IF ahead # {} THEN ahead ELSE open
  IN  CHOOSE n \in from : \A m \in from : n <= m

\* The code compares the factor with NUM_LEVELS before rounding it down.
SplitFactor(activeClients, incomplete) ==
  LET wanted == (activeClients * EmulatorsPerClient * SplitsPerEmulator) \div incomplete
  IN  IF wanted > Cardinality(Levels) THEN Cardinality(Levels) ELSE wanted

\* createPartitions deals the levels out in turn, in whatever order pairs()
\* returns them: any balanced partition whose first parts are the larger ones.
Partitions(levels, goal) ==
  LET size  == Cardinality(levels)
      parts == IF size < goal THEN size ELSE goal
  IN  {p \in [1..parts -> SUBSET levels] :
         /\ \A i \in 1..parts :
              Cardinality(p[i]) = size \div parts + (IF i <= size % parts THEN 1 ELSE 0)
         /\ \A l \in levels : \E i \in 1..parts : l \in p[i]
         /\ \A i, j \in 1..parts : i # j => p[i] \cap p[j] = {}}

\* Not the code: the job that was split stays in the queue.
Exploded_KeepsJob(jobs, n, parts) ==
  SubSeq(jobs, 1, n)
    \o [i \in 1..Len(parts) |-> [genome |-> jobs[n].genome, levels |-> parts[i]]]
    \o SubSeq(jobs, n + 1, Len(jobs))

\* Every part is inserted at the place of the job it comes from, before the
\* parts inserted earlier: they end up in reverse order.
Exploded(jobs, n, parts) ==
  LET k == Len(parts)
  IN  [m \in 1..(Len(jobs) - 1 + k) |->
         IF m < n THEN jobs[m]
         ELSE IF m < n + k
              THEN [genome |-> jobs[n].genome, levels |-> parts[n + k - m]]
              ELSE jobs[m + 1 - k]]

\* maybeExplodeJobIndex: the queues it may leave, given the job just chosen.
MaybeExploded(jobs, n, activeClients, incomplete) ==
  LET factor == SplitFactor(activeClients, incomplete)
  IN  IF factor > 1 /\ Cardinality(jobs[n].levels) > 1
      THEN {Exploded(jobs, n, p) : p \in Partitions(jobs[n].levels, factor)}
      ELSE {jobs}

=============================================================================
