------------------------ MODULE TrainingServerProofs ------------------------
(***************************************************************************)
(* The training server, whatever messages arrive, in whatever order, and   *)
(* however often it dies: its types, its count of incomplete genomes, what *)
(* fitness sums, what the cache of networks holds, and that the search for *)
(* the next job ends.                                                      *)
(***************************************************************************)
EXTENDS TrainingServer, JobQueueProofs

\* The queue has jobs for the genomes of the pool, for each at least one.
QueueCoversPool ==
  /\ \A n \in 1..Len(jobs) : jobs[n].genome \in Members(layout)
  /\ \A g \in Members(layout) : \E n \in 1..Len(jobs) : jobs[n].genome = g

\* The inductive invariant.  The type of the count needs CounterExact (it is
\* lowered, and must not get below 0); the cache needs to know that the jobs
\* are jobs of the pool.
IInv ==
  /\ TypeOK
  /\ CounterExact
  /\ QueueCoversPool
  /\ FitnessSumsEachLevelOnce
  /\ CacheHoldsOpenGenomes

OpenGenomes(lay, scored) == {g \in Members(lay) : scored[g] # Levels}

-----------------------------------------------------------------------------
\* No more genomes are incomplete than there are.
LEMMA OpenGenomesCount ==
  ASSUME NEW lay \in Layouts, NEW scored
  PROVE  /\ IsFiniteSet(OpenGenomes(lay, scored))
         /\ Cardinality(OpenGenomes(lay, scored)) \in 0..Population
<1>1. IsFiniteSet(Members(lay)) /\ Cardinality(Members(lay)) = Population
  BY MembersCount
<1>2. OpenGenomes(lay, scored) \in SUBSET Members(lay)
  BY DEF OpenGenomes
<1>3. /\ IsFiniteSet(OpenGenomes(lay, scored))
      /\ Cardinality(OpenGenomes(lay, scored)) <= Population
  BY <1>1, <1>2, FS_Subset
<1>4. Cardinality(OpenGenomes(lay, scored)) \in Nat
  BY <1>3, FS_CardinalityType
<1> QED
  BY <1>3, <1>4, PopulationAssumption

\* Before any result of a generation, every genome is incomplete.
LEMMA UnscoredCount ==
  ASSUME NEW lay \in Layouts
  PROVE  Cardinality(OpenGenomes(lay, Unscored)) = Population
<1>1. Members(lay) \in SUBSET Genomes
  BY MembersCount
<1>2. OpenGenomes(lay, Unscored) = Members(lay)
  BY <1>1, LevelsAssumption DEF OpenGenomes, Unscored
<1> QED
  BY <1>2, MembersCount

\* The queue of a new generation covers its pool.
LEMMA FreshJobsCover ==
  ASSUME NEW lay \in Layouts
  PROVE  /\ \A n \in 1..Len(FreshJobs(lay)) : FreshJobs(lay)[n].genome \in Members(lay)
         /\ \A g \in Members(lay) : \E n \in 1..Len(FreshJobs(lay)) :
              FreshJobs(lay)[n].genome = g
<1>1. Len(FreshJobs(lay)) = Population
  BY FreshJobsType
<1>2. ASSUME NEW n \in 1..Population PROVE FreshJobs(lay)[n].genome = lay[n]
  <2>1. FreshJobs(lay)[n] = [genome |-> lay[n], levels |-> Levels]
    BY FreshJobsType
  <2> QED BY <2>1
<1> QED
  BY <1>1, <1>2 DEF Members

\* Nothing is scored yet.
LEMMA NothingScored ==
  /\ Unscored \in [Genomes -> SUBSET Levels]
  /\ NoPlays \in [Genomes -> [Levels -> Seq(Network)]]
  /\ \A g \in Genomes, l \in Levels :
       Len(NoPlays[g][l]) = IF l \in Unscored[g] THEN 1 ELSE 0
<1>1. << >> \in Seq(Network) /\ Len(<< >>) = 0
  OBVIOUS
<1> QED
  BY <1>1 DEF Unscored, NoPlays

\* The first network is a network.
LEMMA FirstNetworkType == FirstNetwork \in Network
<1>1. FirstLayout \in [1..Population -> Genomes]
  BY ServerAssumption DEF Layouts
<1>2. FirstLayout[1] \in Genomes
  BY <1>1, PopulationAssumption
<1>3. << >> \in Lineage
  BY DEF Lineage
<1> QED
  BY <1>2, <1>3 DEF FirstNetwork, Network

-----------------------------------------------------------------------------
Address == [address: Genomes, network: Network]

\* The networks of a cache are those of the open genomes of one pool.
HoldsOpen(cache, lay, scored, current) ==
  \A n \in cache :
    /\ n.network = [lineage |-> current, genome |-> n.address]
    /\ n.address \in Members(lay)
    /\ scored[n.address] # Levels

\* What the head of the loop leaves, given a queue that covers the pool.
LEMMA PrepareJobLeaves ==
  ASSUME NEW lay \in Layouts, NEW q \in Seq(Job), NEW from,
         NEW scored \in [Genomes -> SUBSET Levels],
         NEW count \in 1..Population,
         NEW cache \in SUBSET Address, NEW current \in Lineage,
         NEW active \in SUBSET Clients,
         \A n \in 1..Len(q) : q[n].genome \in Members(lay),
         \A g \in Members(lay) : \E n \in 1..Len(q) : q[n].genome = g,
         HoldsOpen(cache, lay, scored, current),
         PrepareJob(q, from, scored, count, cache, current, active)
  PROVE  /\ phase' = "wait"
         /\ jobs' \in Seq(Job)
         /\ index' \in 0..Len(jobs')
         /\ networkToSend' \in Network
         /\ serializedNetworks' \in SUBSET Address
         /\ \A n \in 1..Len(jobs') : jobs'[n].genome \in Members(lay)
         /\ \A g \in Members(lay) : \E n \in 1..Len(jobs') : jobs'[n].genome = g
         /\ HoldsOpen(serializedNetworks', lay, scored, current)
<1> DEFINE n == NextIndex(q, from, scored)
           g == q[n].genome
<1>1. /\ OpenJobs(q, scored) # {}
      /\ jobs' \in MaybeExploded(q, n, Cardinality(active), count)
      /\ index' = n
      /\ networkToSend' = SerializedNetwork(cache, g, current)
      /\ serializedNetworks' = cache \cup {[address |-> g, network |-> networkToSend']}
      /\ phase' = "wait"
  BY DEF PrepareJob
<1>2. n \in 1..Len(q) /\ scored[g] # Levels
  <2>1. n \in OpenJobs(q, scored)
    BY <1>1, NextIndexIsOpen
  <2> HIDE DEF n
  <2> QED BY <2>1 DEF OpenJobs
<1>3. g \in Members(lay) /\ g \in Genomes
  BY <1>2, MembersCount
<1>4. Cardinality(active) \in Nat
  BY ServerAssumption, FS_Subset, FS_CardinalityType
<1>5. count \in Nat /\ count # 0
  OBVIOUS
<1> HIDE DEF n
<1>6. /\ jobs' \in Seq(Job)
      /\ Len(jobs') >= Len(q)
      /\ \A i \in 1..Len(q) : \E m \in 1..Len(jobs') : jobs'[m].genome = q[i].genome
      /\ \A m \in 1..Len(jobs') : \E i \in 1..Len(q) : jobs'[m].genome = q[i].genome
  BY <1>1, <1>2, <1>4, <1>5, MaybeExplodedJobs
<1>7. index' \in 0..Len(jobs')
  <2>1. Len(jobs') \in Nat /\ Len(q) \in Nat
    BY <1>6
  <2> QED BY <1>1, <1>2, <1>6, <2>1
<1>8. networkToSend' = [lineage |-> current, genome |-> g]
  <2>1. CASE \E c \in cache : c.address = g
    <3> DEFINE hit == CHOOSE c \in cache : c.address = g
    <3>1. hit \in cache /\ hit.address = g
      BY <2>1
    <3>2. networkToSend' = hit.network
      BY <1>1, <2>1 DEF SerializedNetwork
    <3> HIDE DEF hit, g
    <3> QED BY <3>1, <3>2 DEF HoldsOpen
  <2>2. CASE ~ \E c \in cache : c.address = g
    <3> HIDE DEF g
    <3> QED BY <1>1, <2>2 DEF SerializedNetwork
  <2> QED BY <2>1, <2>2
<1> HIDE DEF g
<1>9. networkToSend' \in Network
  BY <1>3, <1>8 DEF Network
<1>10. serializedNetworks' \in SUBSET Address
  BY <1>1, <1>3, <1>9 DEF Address
<1>11. HoldsOpen(serializedNetworks', lay, scored, current)
  <2> SUFFICES ASSUME NEW c \in serializedNetworks'
               PROVE  /\ c.network = [lineage |-> current, genome |-> c.address]
                      /\ c.address \in Members(lay)
                      /\ scored[c.address] # Levels
    BY DEF HoldsOpen
  <2>1. CASE c \in cache
    BY <2>1 DEF HoldsOpen
  <2>2. CASE c = [address |-> g, network |-> networkToSend']
    <3>1. c.address = g /\ c.network = networkToSend'
      BY <2>2
    <3> QED BY <3>1, <1>2, <1>3, <1>8 DEF g
  <2> QED BY <1>1, <2>1, <2>2
<1>12. \A m \in 1..Len(jobs') : jobs'[m].genome \in Members(lay)
  BY <1>6
<1>13. \A a \in Members(lay) : \E m \in 1..Len(jobs') : jobs'[m].genome = a
  <2> SUFFICES ASSUME NEW a \in Members(lay)
               PROVE  \E m \in 1..Len(jobs') : jobs'[m].genome = a
    OBVIOUS
  <2>1. PICK i \in 1..Len(q) : q[i].genome = a
    OBVIOUS
  <2> QED BY <1>6, <2>1
<1> QED
  BY <1>1, <1>6, <1>7, <1>9, <1>10, <1>11, <1>12, <1>13

-----------------------------------------------------------------------------
\* CacheHoldsOpenGenomes in the terms of the lemmas below...
LEMMA CacheIsHoldsOpen ==
  CacheHoldsOpenGenomes <=> HoldsOpen(serializedNetworks, layout, done, lineage)
BY DEF CacheHoldsOpenGenomes, HoldsOpen

\* ...and of the next state.
LEMMA CacheIsHoldsOpenNext ==
  CacheHoldsOpenGenomes' <=> HoldsOpen(serializedNetworks', layout', done', lineage')
BY DEF CacheHoldsOpenGenomes, HoldsOpen

\* The first state.
LEMMA InitInvariant == ServerInit => IInv
<1> SUFFICES ASSUME ServerInit PROVE IInv
  OBVIOUS
<1> USE DEF ServerInit
<1>1. FirstLayout \in Layouts
  BY ServerAssumption
<1>2. TypeOK
  <2>1. jobs \in Seq(Job) /\ index \in 0..Len(jobs)
    BY <1>1, FreshJobsType, PopulationAssumption
  <2>2. lineage \in Lineage
    BY DEF Lineage
  <2>3. incompleteJobCount \in 0..Population /\ crashes \in 0..MaxCrashes
    BY PopulationAssumption, ServerAssumption
  <2>4. levelsPlayed \in [Clients -> Nat]
    OBVIOUS
  <2> QED
    BY <1>1, <2>1, <2>2, <2>3, <2>4, NothingScored, FirstNetworkType DEF TypeOK, Phases
<1>3. CounterExact
  BY <1>1, UnscoredCount DEF CounterExact, OpenGenomes
<1>4. QueueCoversPool
  BY <1>1, FreshJobsCover DEF QueueCoversPool
<1>5. FitnessSumsEachLevelOnce
  BY NothingScored DEF FitnessSumsEachLevelOnce
<1>6. CacheHoldsOpenGenomes
  BY DEF CacheHoldsOpenGenomes
<1> QED
  BY <1>2, <1>3, <1>4, <1>5, <1>6 DEF IInv

\* The head of the loop, with genomes left to score.
LEMMA PrepareNextInvariant == IInv /\ PrepareNext => IInv'
<1> SUFFICES ASSUME IInv, PrepareNext PROVE IInv'
  OBVIOUS
<1> USE DEF IInv
<1>1. /\ incompleteJobCount \in 1..Population
      /\ UNCHANGED <<generation, layout, lineage, draws, done, fitness, incompleteJobCount,
                     known, levelsPlayed, lastGeneration, saved, crashes>>
  BY PopulationAssumption DEF PrepareNext, TypeOK, pool, scores, stats
<1>2. PICK active \in SUBSET known :
        PrepareJob(jobs, index, done, incompleteJobCount, serializedNetworks, lineage, active)
  BY DEF PrepareNext
<1>3. /\ phase' = "wait"
      /\ jobs' \in Seq(Job)
      /\ index' \in 0..Len(jobs')
      /\ networkToSend' \in Network
      /\ serializedNetworks' \in SUBSET Address
      /\ \A n \in 1..Len(jobs') : jobs'[n].genome \in Members(layout)
      /\ \A g \in Members(layout) : \E n \in 1..Len(jobs') : jobs'[n].genome = g
      /\ HoldsOpen(serializedNetworks', layout, done, lineage)
  <2>1. /\ layout \in Layouts /\ jobs \in Seq(Job) /\ done \in [Genomes -> SUBSET Levels]
        /\ serializedNetworks \in SUBSET Address /\ lineage \in Lineage
        /\ active \in SUBSET Clients
    BY <1>2 DEF TypeOK, Address
  <2>2. /\ \A n \in 1..Len(jobs) : jobs[n].genome \in Members(layout)
        /\ \A g \in Members(layout) : \E n \in 1..Len(jobs) : jobs[n].genome = g
    BY DEF QueueCoversPool
  <2>3. HoldsOpen(serializedNetworks, layout, done, lineage)
    BY CacheIsHoldsOpen
  <2> QED
    BY <1>1, <1>2, <2>1, <2>2, <2>3, PrepareJobLeaves
<1>4. TypeOK'
  BY <1>1, <1>3 DEF TypeOK, Phases, Address
<1>5. CounterExact'
  BY <1>1 DEF CounterExact
<1>6. QueueCoversPool'
  BY <1>1, <1>3 DEF QueueCoversPool
<1>7. FitnessSumsEachLevelOnce'
  BY <1>1 DEF FitnessSumsEachLevelOnce
<1>8. CacheHoldsOpenGenomes'
  BY <1>1, <1>3, CacheIsHoldsOpenNext
<1> QED
  BY <1>4, <1>5, <1>6, <1>7, <1>8

\* The head of the loop after the last result of a generation.
LEMMA NewGenerationInvariant == IInv /\ PrepareNewGeneration => IInv'
<1> SUFFICES ASSUME IInv, PrepareNewGeneration PROVE IInv'
  OBVIOUS
<1> USE DEF IInv
<1>1. /\ generation' = generation + 1
      /\ draws' = draws + 1
      /\ done' = Unscored
      /\ fitness' = NoPlays
      /\ incompleteJobCount' = Population
      /\ UNCHANGED <<known, levelsPlayed, lastGeneration, saved, crashes>>
  BY DEF PrepareNewGeneration, stats
<1>2. layout' \in Layouts /\ lineage' \in Lineage
  <2>1. PICK next \in Layouts :
          layout' = next /\ lineage' = Append(lineage, [draw |-> draws, layout |-> next])
    BY DEF PrepareNewGeneration
  <2>2. [draw |-> draws, layout |-> next] \in [draw: Nat, layout: Layouts]
    BY DEF TypeOK
  <2>3. lineage \in Seq([draw: Nat, layout: Layouts])
    BY DEF TypeOK, Lineage
  <2> QED BY <2>1, <2>2, <2>3 DEF Lineage
<1>3. PICK active \in SUBSET known :
        PrepareJob(FreshJobs(layout'), 0, Unscored, Population, {}, lineage', active)
  BY DEF PrepareNewGeneration, ClearedCache
<1>4. /\ phase' = "wait"
      /\ jobs' \in Seq(Job)
      /\ index' \in 0..Len(jobs')
      /\ networkToSend' \in Network
      /\ serializedNetworks' \in SUBSET Address
      /\ \A n \in 1..Len(jobs') : jobs'[n].genome \in Members(layout')
      /\ \A g \in Members(layout') : \E n \in 1..Len(jobs') : jobs'[n].genome = g
      /\ HoldsOpen(serializedNetworks', layout', Unscored, lineage')
  <2>1. active \in SUBSET Clients
    BY <1>3 DEF TypeOK
  <2>2. Population \in 1..Population /\ {} \in SUBSET Address
    BY PopulationAssumption
  <2>3. HoldsOpen({}, layout', Unscored, lineage')
    BY DEF HoldsOpen
  <2>4. FreshJobs(layout') \in Seq(Job) /\ Unscored \in [Genomes -> SUBSET Levels]
    BY <1>2, FreshJobsType, NothingScored
  <2>5. /\ \A n \in 1..Len(FreshJobs(layout')) :
             FreshJobs(layout')[n].genome \in Members(layout')
        /\ \A g \in Members(layout') : \E n \in 1..Len(FreshJobs(layout')) :
             FreshJobs(layout')[n].genome = g
    BY <1>2, FreshJobsCover
  <2> QED
    BY <1>2, <1>3, <2>1, <2>2, <2>3, <2>4, <2>5, PrepareJobLeaves
<1>5. TypeOK'
  <2>1. generation' \in Nat /\ draws' \in Nat /\ incompleteJobCount' \in 0..Population
    BY <1>1, PopulationAssumption DEF TypeOK
  <2> QED BY <1>1, <1>2, <1>4, <2>1, NothingScored DEF TypeOK, Phases, Address
<1>6. CounterExact'
  BY <1>1, <1>2, UnscoredCount DEF CounterExact, OpenGenomes
<1>7. QueueCoversPool'
  BY <1>4 DEF QueueCoversPool
<1>8. FitnessSumsEachLevelOnce'
  BY <1>1, NothingScored DEF FitnessSumsEachLevelOnce
<1>9. CacheHoldsOpenGenomes'
  BY <1>1, <1>4, CacheIsHoldsOpenNext
<1> QED
  BY <1>5, <1>6, <1>7, <1>8, <1>9

\* A result that is scored: only the levels new to its genome are, and the count
\* and the cache follow when they complete it.
LEMMA ScoreResultInvariant ==
  ASSUME IInv, NEW r \in Result, IsFresh(r), ScoreResult(r),
         UNCHANGED <<layout, lineage, jobs>>
  PROVE  /\ done' \in [Genomes -> SUBSET Levels]
         /\ fitness' \in [Genomes -> [Levels -> Seq(Network)]]
         /\ incompleteJobCount' \in 0..Population
         /\ serializedNetworks' \in SUBSET Address
         /\ levelsPlayed' \in [Clients -> Nat]
         /\ CounterExact'
         /\ FitnessSumsEachLevelOnce'
         /\ CacheHoldsOpenGenomes'
<1> DEFINE g == r.work.genome
           new == ValidResultSet(r)
<1>1. /\ g \in Genomes /\ g \in Members(layout) /\ done[g] # Levels
      /\ r.client \in Clients /\ r.work.network \in Network
      /\ new \in SUBSET Levels /\ new = r.work.levels \ done[g]
  BY DEF IsFresh, Result, Work, ValidResultSet
<1>2. /\ done' = [done EXCEPT ![g] = done[g] \cup new]
      /\ fitness' = [fitness EXCEPT ![g] =
           [l \in Levels |-> IF l \in new THEN Append(fitness[g][l], r.work.network)
                                         ELSE fitness[g][l]]]
      /\ incompleteJobCount' = IF done'[g] = Levels THEN incompleteJobCount - 1
                                                   ELSE incompleteJobCount
      /\ serializedNetworks' = IF done'[g] = Levels
                               THEN {c \in serializedNetworks : c.address # g}
                               ELSE serializedNetworks
      /\ levelsPlayed' = [levelsPlayed EXCEPT ![r.client] = @ + Cardinality(new)]
  BY DEF ScoreResult, AddToFitness, IncompleteAfter, CacheAfter, CreditFor
<1>3. /\ layout \in Layouts /\ done \in [Genomes -> SUBSET Levels]
      /\ fitness \in [Genomes -> [Levels -> Seq(Network)]]
      /\ serializedNetworks \in SUBSET Address /\ levelsPlayed \in [Clients -> Nat]
      /\ incompleteJobCount = Cardinality(OpenGenomes(layout, done))
      /\ \A a \in Genomes, l \in Levels :
           Len(fitness[a][l]) = IF l \in done[a] THEN 1 ELSE 0
      /\ HoldsOpen(serializedNetworks, layout, done, lineage)
  BY CacheIsHoldsOpen
  DEF IInv, TypeOK, Address, CounterExact, OpenGenomes, FitnessSumsEachLevelOnce
<1>4. /\ layout' = layout /\ lineage' = lineage
  OBVIOUS
<1> HIDE DEF g, new
<1>5. done' \in [Genomes -> SUBSET Levels]
  BY <1>1, <1>2, <1>3
<1>6. done'[g] = done[g] \cup new /\ \A a \in Genomes : a # g => done'[a] = done[a]
  BY <1>1, <1>2, <1>3
<1>7. ASSUME NEW a \in Genomes, NEW l \in Levels
      PROVE  /\ fitness'[a][l] \in Seq(Network)
             /\ Len(fitness'[a][l]) = IF l \in done'[a] THEN 1 ELSE 0
  <2>1. fitness[a][l] \in Seq(Network) /\ Len(fitness[a][l]) = IF l \in done[a] THEN 1 ELSE 0
    BY <1>3
  <2>2. CASE a = g /\ l \in new
    <3>1. fitness'[a][l] = Append(fitness[a][l], r.work.network)
      BY <1>1, <1>2, <1>3, <2>2
    <3>2. l \notin done[a] /\ l \in done'[a]
      BY <1>1, <1>6, <2>2 DEF g
    <3> QED BY <1>1, <2>1, <3>1, <3>2
  <2>3. CASE a = g /\ l \notin new
    <3>1. fitness'[a][l] = fitness[a][l]
      BY <1>1, <1>2, <1>3, <2>3
    <3>2. l \in done'[a] <=> l \in done[a]
      BY <1>6, <2>3
    <3> QED BY <2>1, <3>1, <3>2
  <2>4. CASE a # g
    <3>1. fitness'[a][l] = fitness[a][l] /\ done'[a] = done[a]
      BY <1>2, <1>3, <1>6, <2>4
    <3> QED BY <2>1, <3>1
  <2> QED BY <2>2, <2>3, <2>4
<1>8. fitness' \in [Genomes -> [Levels -> Seq(Network)]]
  BY <1>1, <1>2, <1>3
<1>9. FitnessSumsEachLevelOnce'
  BY <1>7 DEF FitnessSumsEachLevelOnce
<1>10. incompleteJobCount' = Cardinality(OpenGenomes(layout, done'))
  <2>1. g \in OpenGenomes(layout, done)
    BY <1>1 DEF OpenGenomes
  <2>2. Members(layout) \in SUBSET Genomes
    BY <1>3, MembersCount
  <2>3. CASE done'[g] = Levels
    <3>1. OpenGenomes(layout, done') = OpenGenomes(layout, done) \ {g}
      BY <1>6, <2>2, <2>3 DEF OpenGenomes
    <3>2. IsFiniteSet(OpenGenomes(layout, done))
      BY <1>3, OpenGenomesCount
    <3>3. Cardinality(OpenGenomes(layout, done) \ {g}) = Cardinality(OpenGenomes(layout, done)) - 1
      BY <2>1, <3>2, FS_RemoveElement
    <3> QED BY <1>2, <1>3, <2>3, <3>1, <3>3
  <2>4. CASE done'[g] # Levels
    <3>1. OpenGenomes(layout, done') = OpenGenomes(layout, done)
      BY <1>1, <1>6, <2>2, <2>4 DEF OpenGenomes
    <3> QED BY <1>2, <1>3, <2>4, <3>1
  <2> QED BY <2>3, <2>4
<1>11. incompleteJobCount' \in 0..Population
  BY <1>3, <1>10, OpenGenomesCount
<1>12. CounterExact'
  BY <1>4, <1>10 DEF CounterExact, OpenGenomes
<1>13. serializedNetworks' \subseteq serializedNetworks
  BY <1>2
<1>14. HoldsOpen(serializedNetworks', layout, done', lineage)
  <2> SUFFICES ASSUME NEW c \in serializedNetworks'
               PROVE  /\ c.network = [lineage |-> lineage, genome |-> c.address]
                      /\ c.address \in Members(layout)
                      /\ done'[c.address] # Levels
    BY DEF HoldsOpen
  <2>1. /\ c.network = [lineage |-> lineage, genome |-> c.address]
        /\ c.address \in Members(layout) /\ done[c.address] # Levels
        /\ c.address \in Genomes
    BY <1>3, <1>13, MembersCount DEF HoldsOpen
  <2>2. c.address = g => done'[g] # Levels
    BY <1>2
  <2> QED BY <1>6, <2>1, <2>2
<1>15. levelsPlayed' \in [Clients -> Nat]
  <2>1. Cardinality(new) \in Nat
    BY <1>1, LevelsAssumption, FS_Subset, FS_CardinalityType
  <2> QED BY <1>1, <1>2, <1>3, <2>1
<1> QED
  BY <1>3, <1>4, <1>5, <1>8, <1>9, <1>11, <1>12, <1>13, <1>14, <1>15, CacheIsHoldsOpenNext

\* Any message.
LEMMA ReceiveInvariant ==
  ASSUME IInv, NEW m \in Ask \cup Result, Receive(m)
  PROVE  IInv'
<1>1. /\ UNCHANGED <<pool, jobs, index, networkToSend, lastGeneration, saved, crashes>>
      /\ phase' \in Phases
  BY DEF Receive, NextPhase, Phases
<1>2. UNCHANGED <<generation, layout, lineage, draws>>
  BY <1>1 DEF pool
<1>3. known' \in SUBSET Clients
  <2>1. m.client \in Clients
    BY DEF Ask, Result
  <2> QED BY <2>1 DEF Receive, IInv, TypeOK
<1>4. /\ done' \in [Genomes -> SUBSET Levels]
      /\ fitness' \in [Genomes -> [Levels -> Seq(Network)]]
      /\ incompleteJobCount' \in 0..Population
      /\ serializedNetworks' \in SUBSET Address
      /\ levelsPlayed' \in [Clients -> Nat]
      /\ CounterExact'
      /\ FitnessSumsEachLevelOnce'
      /\ CacheHoldsOpenGenomes'
  <2>1. CASE m.kind = "result" /\ IsFresh(m)
    <3>1. m \in Result
      BY <2>1 DEF Ask
    <3>2. ScoreResult(m)
      BY <2>1 DEF Receive
    <3> QED BY <1>1, <1>2, <2>1, <3>1, <3>2, ScoreResultInvariant
  <2>2. CASE ~ (m.kind = "result" /\ IsFresh(m))
    <3>1. UNCHANGED <<done, fitness, incompleteJobCount, serializedNetworks, levelsPlayed>>
      BY <2>2 DEF Receive, scores
    <3>2. CounterExact'
      BY <1>2, <3>1 DEF IInv, CounterExact
    <3>3. FitnessSumsEachLevelOnce'
      BY <3>1 DEF IInv, FitnessSumsEachLevelOnce
    <3>4. CacheHoldsOpenGenomes'
      BY <1>2, <3>1 DEF IInv, CacheHoldsOpenGenomes
    <3> QED BY <3>1, <3>2, <3>3, <3>4 DEF IInv, TypeOK, Address
  <2> QED BY <2>1, <2>2
<1>5. TypeOK'
  BY <1>1, <1>2, <1>3, <1>4 DEF IInv, TypeOK, Address
<1>6. QueueCoversPool'
  BY <1>1, <1>2 DEF IInv, QueueCoversPool
<1> QED
  BY <1>4, <1>5, <1>6 DEF IInv

\* The turn that begins a generation ends: nothing but the backup changes.
LEMMA CheckGenerationInvariant == IInv /\ CheckGeneration => IInv'
<1> SUFFICES ASSUME IInv, CheckGeneration PROVE IInv'
  OBVIOUS
<1>1. UNCHANGED <<generation, layout, lineage, draws, done, fitness, jobs, index,
                  incompleteJobCount, serializedNetworks, networkToSend, known,
                  levelsPlayed, crashes>>
  BY DEF CheckGeneration, pool, scores, queue, network, stats
<1>2. phase' \in Phases /\ lastGeneration' = generation
  BY DEF CheckGeneration, Phases
<1>3. saved' \in Backup \cup {NoBackup}
  <2>1. [generation |-> generation, layout |-> layout, lineage |-> lineage,
         known |-> known, levelsPlayed |-> levelsPlayed] \in Backup
    BY DEF IInv, TypeOK, Backup
  <2>2. saved \in Backup \cup {NoBackup}
    BY DEF IInv, TypeOK
  <2> QED BY <2>1, <2>2 DEF CheckGeneration
<1>4. TypeOK'
  BY <1>1, <1>2, <1>3 DEF IInv, TypeOK
<1> QED
  BY <1>1, <1>4
  DEF IInv, CounterExact, QueueCoversPool, FitnessSumsEachLevelOnce, CacheHoldsOpenGenomes

\* The process dies.
LEMMA CrashInvariant == IInv /\ Crash => IInv'
<1> SUFFICES ASSUME IInv, Crash PROVE IInv'
  OBVIOUS
<1>1. UNCHANGED <<generation, layout, lineage, draws, done, fitness, jobs, index,
                  incompleteJobCount, serializedNetworks, networkToSend, known,
                  levelsPlayed, lastGeneration, saved>>
  BY DEF Crash, pool, scores, queue, network, stats
<1>2. phase' \in Phases /\ crashes' \in 0..MaxCrashes
  BY ServerAssumption DEF Crash, Phases, IInv, TypeOK
<1>3. TypeOK'
  BY <1>1, <1>2 DEF IInv, TypeOK
<1> QED
  BY <1>1, <1>3
  DEF IInv, CounterExact, QueueCoversPool, FitnessSumsEachLevelOnce, CacheHoldsOpenGenomes

\* A new process starts from the backup, or from nothing.
LEMMA RestartInvariant == IInv /\ Restart => IInv'
<1> SUFFICES ASSUME IInv, Restart PROVE IInv'
  OBVIOUS
<1> DEFINE b == RestartPool
<1>1. b \in Backup
  <2>1. FreshStart \in Backup
    <3>1. << >> \in Lineage
      BY DEF Lineage
    <3> QED BY <3>1, ServerAssumption DEF FreshStart, Backup
  <2> QED BY <2>1 DEF RestartPool, IInv, TypeOK
<1>2. /\ generation' = b.generation /\ layout' = b.layout /\ lineage' = b.lineage
      /\ known' = b.known /\ levelsPlayed' = b.levelsPlayed
      /\ jobs' = FreshJobs(b.layout) /\ lastGeneration' = b.generation
      /\ draws' = 0 /\ done' = Unscored /\ fitness' = NoPlays /\ index' = 0
      /\ incompleteJobCount' = Population /\ serializedNetworks' = {}
      /\ networkToSend' = FirstNetwork /\ phase' = "prepare"
      /\ UNCHANGED <<saved, crashes>>
  BY DEF Restart
<1> HIDE DEF b
<1>3. /\ b.generation \in Nat /\ b.layout \in Layouts /\ b.lineage \in Lineage
      /\ b.known \in SUBSET Clients /\ b.levelsPlayed \in [Clients -> Nat]
  BY <1>1 DEF Backup
<1>4. TypeOK'
  <2>1. jobs' \in Seq(Job) /\ index' \in 0..Len(jobs')
    BY <1>2, <1>3, FreshJobsType, PopulationAssumption
  <2>2. incompleteJobCount' \in 0..Population /\ draws' \in Nat
    BY <1>2, PopulationAssumption
  <2>3. saved' \in Backup \cup {NoBackup} /\ crashes' \in 0..MaxCrashes
    BY <1>2 DEF IInv, TypeOK
  <2> QED
    BY <1>2, <1>3, <2>1, <2>2, <2>3, NothingScored, FirstNetworkType DEF TypeOK, Phases
<1>5. CounterExact'
  BY <1>2, <1>3, UnscoredCount DEF CounterExact, OpenGenomes
<1>6. QueueCoversPool'
  BY <1>2, <1>3, FreshJobsCover DEF QueueCoversPool
<1>7. FitnessSumsEachLevelOnce'
  BY <1>2, NothingScored DEF FitnessSumsEachLevelOnce
<1>8. CacheHoldsOpenGenomes'
  BY <1>2 DEF CacheHoldsOpenGenomes
<1> QED
  BY <1>4, <1>5, <1>6, <1>7, <1>8 DEF IInv

\* No step, and no message, breaks the invariant.
LEMMA NextInvariant == IInv /\ [ServerNext]_serverVars => IInv'
<1> SUFFICES ASSUME IInv, [ServerNext]_serverVars PROVE IInv'
  OBVIOUS
<1>1. CASE PrepareNext
  BY <1>1, PrepareNextInvariant
<1>2. CASE PrepareNewGeneration
  BY <1>2, NewGenerationInvariant
<1>3. CASE CheckGeneration
  BY <1>3, CheckGenerationInvariant
<1>4. CASE Restart
  BY <1>4, RestartInvariant
<1>5. CASE \E m \in Ask \cup Result : Receive(m)
  BY <1>5, ReceiveInvariant
<1>6. CASE Crash
  BY <1>6, CrashInvariant
<1>7. CASE UNCHANGED serverVars
  <2>1. UNCHANGED <<phase, generation, layout, lineage, draws, done, fitness, jobs, index,
                    incompleteJobCount, serializedNetworks, networkToSend, known,
                    levelsPlayed, lastGeneration, saved, crashes>>
    BY <1>7 DEF serverVars, pool, scores, queue, network, stats
  <2>2. TypeOK'
    BY <2>1 DEF IInv, TypeOK
  <2> QED
    BY <2>1, <2>2
    DEF IInv, CounterExact, QueueCoversPool, FitnessSumsEachLevelOnce, CacheHoldsOpenGenomes
<1> QED
  BY <1>1, <1>2, <1>3, <1>4, <1>5, <1>6, <1>7 DEF ServerNext, ServerStep

-----------------------------------------------------------------------------
\* The invariant holds in every state of the server.
THEOREM ServerInvariant == ServerSpec => []IInv
<1> QED
  BY InitInvariant, NextInvariant, PTL DEF ServerSpec

\* Every variable keeps its type; among them, the count of incomplete genomes
\* never falls below zero.
THEOREM ServerTypeCorrect == ServerSpec => []TypeOK
<1>1. IInv => TypeOK
  BY DEF IInv
<1> QED
  BY <1>1, ServerInvariant, PTL

\* Whatever results arrive, the count that ends a generation is exact.
THEOREM ServerCounterExact == ServerSpec => []CounterExact
<1>1. IInv => CounterExact
  BY DEF IInv
<1> QED
  BY <1>1, ServerInvariant, PTL

\* No level is ever added twice to a genome's fitness.
THEOREM ServerFitness == ServerSpec => []FitnessSumsEachLevelOnce
<1>1. IInv => FitnessSumsEachLevelOnce
  BY DEF IInv
<1> QED
  BY <1>1, ServerInvariant, PTL

\* The cache holds networks of incomplete genomes of the current pool only.
THEOREM ServerCache == ServerSpec => []CacheHoldsOpenGenomes
<1>1. IInv => CacheHoldsOpenGenomes
  BY DEF IInv
<1> QED
  BY <1>1, ServerInvariant, PTL

\* advanceJobsIndex is never called when its loop would not end.
THEOREM ServerAdvances == ServerSpec => []AdvanceTerminates
<1>1. IInv => AdvanceTerminates
  <2> SUFFICES ASSUME IInv, phase = "prepare", incompleteJobCount # 0
               PROVE  OpenJobs(jobs, done) # {}
    BY DEF AdvanceTerminates
  <2>1. incompleteJobCount = Cardinality(OpenGenomes(layout, done))
    BY DEF IInv, CounterExact, OpenGenomes
  <2>2. OpenGenomes(layout, done) # {}
    BY <2>1, FS_EmptySet
  <2>3. PICK g \in Members(layout) : done[g] # Levels
    BY <2>2 DEF OpenGenomes
  <2>4. PICK n \in 1..Len(jobs) : jobs[n].genome = g
    BY DEF IInv, QueueCoversPool
  <2> QED
    BY <2>3, <2>4 DEF OpenJobs
<1> QED
  BY <1>1, ServerInvariant, PTL

-----------------------------------------------------------------------------
\* A set with one element, told by its elements.
LEMMA OneElement ==
  ASSUME NEW S, \E x \in S : TRUE, \A x, y \in S : x = y
  PROVE  Cardinality(S) = 1
<1>1. PICK x \in S : TRUE
  OBVIOUS
<1>2. S = {x}
  BY <1>1
<1> QED
  BY <1>2, FS_Singleton

\* The levels of every genome are shared out among its jobs.
LEMMA SharesImpliesJobs == SharesLevels(jobs, layout) => JobsShareLevels
<1> SUFFICES ASSUME SharesLevels(jobs, layout) PROVE JobsShareLevels
  OBVIOUS
<1>1. ASSUME NEW g \in Members(layout), NEW l \in Levels
      PROVE  Cardinality({n \in JobsOf(g) : l \in jobs[n].levels}) = 1
  <2> DEFINE S == {n \in JobsOf(g) : l \in jobs[n].levels}
  <2>1. S = {n \in 1..Len(jobs) : AsksFor(jobs, n, g, l)}
    BY DEF JobsOf, AsksFor
  <2>2. \E n \in S : TRUE
    BY <2>1 DEF SharesLevels
  <2>3. \A n, m \in S : n = m
    BY <2>1 DEF SharesLevels
  <2> HIDE DEF S
  <2>4. Cardinality(S) = 1
    BY <2>2, <2>3, OneElement
  <2> QED BY <2>4 DEF S
<1>2. \A n \in 1..Len(jobs) : jobs[n].genome \in Members(layout) /\ jobs[n].levels # {}
  BY DEF SharesLevels
<1> QED
  BY <1>1, <1>2 DEF JobsShareLevels

\* The head of the loop leaves the levels shared out.
LEMMA PrepareJobShares ==
  ASSUME NEW lay \in Layouts, NEW q \in Seq(Job), NEW from, NEW scored,
         NEW count \in 1..Population, NEW cache, NEW current,
         NEW active \in SUBSET Clients,
         PrepareJob(q, from, scored, count, cache, current, active),
         SharesLevels(q, lay)
  PROVE  SharesLevels(jobs', lay)
<1> DEFINE n == NextIndex(q, from, scored)
<1>1. /\ OpenJobs(q, scored) # {}
      /\ jobs' \in MaybeExploded(q, n, Cardinality(active), count)
  BY DEF PrepareJob
<1>2. n \in 1..Len(q)
  <2>1. n \in OpenJobs(q, scored)
    BY <1>1, NextIndexIsOpen
  <2> HIDE DEF n
  <2> QED BY <2>1 DEF OpenJobs
<1>3. Cardinality(active) \in Nat
  BY ServerAssumption, FS_Subset, FS_CardinalityType
<1>4. count \in Nat /\ count # 0
  OBVIOUS
<1> HIDE DEF n
<1> QED
  BY <1>1, <1>2, <1>3, <1>4, MaybeExplodedShares

\* No step changes that.
LEMMA SharesNext ==
  IInv /\ SharesLevels(jobs, layout) /\ [ServerNext]_serverVars => SharesLevels(jobs, layout)'
<1> SUFFICES ASSUME IInv, SharesLevels(jobs, layout), [ServerNext]_serverVars
             PROVE  SharesLevels(jobs', layout')
  BY DEF SharesLevels, AsksFor, Members
<1>1. CASE PrepareNext
  <2>1. layout' = layout /\ incompleteJobCount \in 1..Population
    BY <1>1, PopulationAssumption DEF PrepareNext, pool, IInv, TypeOK
  <2>2. PICK active \in SUBSET known :
          PrepareJob(jobs, index, done, incompleteJobCount, serializedNetworks, lineage, active)
    BY <1>1 DEF PrepareNext
  <2>3. layout \in Layouts /\ jobs \in Seq(Job) /\ active \in SUBSET Clients
    BY <2>2 DEF IInv, TypeOK
  <2>4. SharesLevels(jobs', layout)
    BY <2>1, <2>2, <2>3, PrepareJobShares
  <2> QED BY <2>1, <2>4
<1>2. CASE PrepareNewGeneration
  <2>1. layout' \in Layouts
    BY <1>2 DEF PrepareNewGeneration
  <2>2. PICK active \in SUBSET known :
          PrepareJob(FreshJobs(layout'), 0, Unscored, Population, {}, lineage', active)
    BY <1>2 DEF PrepareNewGeneration, ClearedCache
  <2>3. /\ FreshJobs(layout') \in Seq(Job) /\ active \in SUBSET Clients
        /\ Population \in 1..Population
    BY <2>1, <2>2, FreshJobsType, PopulationAssumption DEF IInv, TypeOK
  <2>4. SharesLevels(FreshJobs(layout'), layout')
    BY <2>1, FreshJobsShare
  <2> QED BY <2>1, <2>2, <2>3, <2>4, PrepareJobShares
<1>3. CASE Restart
  <2>1. layout' \in Layouts
    BY <1>3, ServerAssumption DEF Restart, RestartPool, FreshStart, IInv, TypeOK, Backup
  <2>2. jobs' = FreshJobs(layout')
    BY <1>3 DEF Restart
  <2> QED BY <2>1, <2>2, FreshJobsShare
<1>4. CASE UNCHANGED <<jobs, layout>>
  BY <1>4
<1>5. CASE CheckGeneration
  BY <1>4, <1>5 DEF CheckGeneration, pool, queue
<1>6. CASE \E m \in Ask \cup Result : Receive(m)
  BY <1>4, <1>6 DEF Receive, pool
<1>7. CASE Crash
  BY <1>4, <1>7 DEF Crash, pool, queue
<1>8. CASE UNCHANGED serverVars
  BY <1>4, <1>8 DEF serverVars, pool, queue
<1> QED
  BY <1>1, <1>2, <1>3, <1>5, <1>6, <1>7, <1>8 DEF ServerNext, ServerStep

\* However often jobs are split, the jobs of a genome share its levels out.
THEOREM ServerJobs == ServerSpec => []JobsShareLevels
<1>1. ServerInit => SharesLevels(jobs, layout)
  BY FreshJobsShare, ServerAssumption DEF ServerInit
<1>2. SharesLevels(jobs, layout) => JobsShareLevels
  BY SharesImpliesJobs
<1> QED
  BY <1>1, <1>2, SharesNext, ServerInvariant, PTL DEF ServerSpec
=============================================================================
