--------------------------- MODULE TrainingProofs ---------------------------
(***************************************************************************)
(* Distributed training, with any number of emulators that exit, are       *)
(* killed or hang: what is in flight, what fitness sums, what a restart    *)
(* finds, who waits, and that pools are evaluated one after the other.     *)
(***************************************************************************)
EXTENDS Training, TrainingServerProofs, FiniteSums, SequenceTheorems

\* Pool a is pool b or one of its ancestors.
Ancestor(a, b) == Len(a) <= Len(b) /\ a = SubSeq(b, 1, Len(a))

\* The server, besides the invariant of its own specification: the generation
\* counts the breedings of the pool, and the answer prepared is of the pool.
PoolInv ==
  /\ generation = Len(lineage)
  /\ layout = LayoutOf(lineage)
  /\ BackupIsAncestor
  /\ phase = "down" => crashes > 0
  /\ phase = "wait" => /\ index # 0
                       /\ networkToSend = [lineage |-> lineage, genome |-> jobs[index].genome]

SInv == IInv /\ PoolInv

\* A job, given that the pool is lin: its network is that of its genome, and
\* unless the server has died it is of the pool or of an ancestor.
Fits(w, lin) ==
  /\ w \in Work
  /\ w.generation = Len(w.network.lineage)
  /\ w.genome = w.network.genome
  /\ w.genome \in Members(LayoutOf(w.network.lineage))
  /\ crashes = 0 => Ancestor(w.network.lineage, lin)

EmulatorTypes ==
  /\ state \in [Emulators -> {"idle", "waiting", "playing"}]
  /\ socket \in [Emulators -> Nat]
  /\ work \in [Emulators -> Work \cup {NoWork}]
  /\ outdated \in [Emulators -> BOOLEAN]

FlightInv ==
  /\ \A e \in Emulators : state[e] = "playing" => Fits(work[e], lineage)
  /\ \A r \in replies : Fits(r.job, lineage)
  /\ \A q \in requests :
       /\ q.body \in Ask \cup Result
       /\ q.body.kind = "result" => Fits(q.body.work, lineage)

\* What the process that now has a socket has sent: no farewell, and the code
\* it says it runs is the code it runs.
SocketInv ==
  \A e \in Emulators : \A q \in requests :
    q.from = Identity(e) /\ q.body.kind = "result" =>
      ~q.body.die /\ q.body.current = ~outdated[e]

\* The inductive invariant.
DInv ==
  /\ SInv
  /\ EmulatorTypes
  /\ FlightInv
  /\ SocketInv
  /\ EveryRequestIsAnswered
  /\ crashes = 0 => OwnPlays

-----------------------------------------------------------------------------
\* A pool is its own ancestor, and stays one when others are bred from it.
LEMMA AncestorOfItself ==
  ASSUME NEW S, NEW a \in Seq(S)
  PROVE  Ancestor(a, a)
BY SubSeqFull DEF Ancestor

\* An ancestor stays one when the next pool is bred.
LEMMA AncestorStays ==
  ASSUME NEW S, NEW a \in Seq(S), NEW b \in Seq(S), NEW x \in S, Ancestor(a, b)
  PROVE  Ancestor(a, Append(b, x))
<1>1. /\ Len(a) \in Nat /\ Len(b) \in Nat /\ Len(a) <= Len(b) /\ a = SubSeq(b, 1, Len(a))
  BY DEF Ancestor
<1> DEFINE c == Append(b, x)
<1>2. /\ c \in Seq(S) /\ Len(c) = Len(b) + 1
      /\ \A i \in 1..Len(b) : c[i] = b[i]
  BY AppendProperties
<1> HIDE DEF c
<1>3. \A i \in 1..Len(a) : i \in 1..Len(b) /\ i \in 1..Len(c)
  BY <1>1, <1>2
<1>4. /\ SubSeq(c, 1, Len(a)) \in Seq(S)
      /\ Len(SubSeq(c, 1, Len(a))) = Len(a)
      /\ \A i \in 1..Len(a) : SubSeq(c, 1, Len(a))[i] = c[i]
  BY <1>1, <1>2, <1>3
<1>5. \A i \in 1..Len(a) : a[i] = b[i]
  <2>1. \A i \in 1..Len(a) : SubSeq(b, 1, Len(a))[i] = b[i]
    BY <1>1, <1>3
  <2> QED BY <1>1, <2>1
<1>6. a = SubSeq(c, 1, Len(a))
  BY <1>2, <1>3, <1>4, <1>5, SeqEqual
<1> QED
  BY <1>1, <1>2, <1>6 DEF Ancestor, c

\* Of one length there is one ancestor.
LEMMA AncestorOfLength ==
  ASSUME NEW S, NEW a \in Seq(S), NEW b \in Seq(S), Ancestor(a, b), Len(a) = Len(b)
  PROVE  a = b
BY SubSeqFull DEF Ancestor

\* The job just chosen keeps its genome when it is split.
LEMMA SplitKeepsGenome ==
  ASSUME NEW q \in Seq(Job), NEW n \in 1..Len(q), NEW active \in Nat,
         NEW count \in Nat, count # 0, NEW e \in MaybeExploded(q, n, active, count)
  PROVE  e[n].genome = q[n].genome
<1> DEFINE factor == SplitFactor(active, count)
<1>1. CASE e = q
  BY <1>1
<1>2. CASE e # q
  <2>1. factor > 1 /\ Cardinality(q[n].levels) > 1
    BY <1>2 DEF MaybeExploded
  <2>2. PICK p \in Partitions(q[n].levels, factor) : e = Exploded(q, n, p)
    BY <2>1 DEF MaybeExploded
  <2>3. factor \in Nat
    BY SplitFactorType
  <2>4. q[n].levels \in SUBSET Levels
    <3>1. q[n] \in Job
      OBVIOUS
    <3> QED BY <3>1 DEF Job
  <2>5. PICK k \in Nat : k > 1 /\ p \in [1..k -> SUBSET q[n].levels]
    <3> HIDE DEF factor
    <3> QED BY <2>1, <2>2, <2>3, <2>4, PartitionsShare
  <2>6. \A m \in n..(n + k - 1) : e[m] = [genome |-> q[n].genome, levels |-> p[n + k - m]]
    <3>1. k > 1 /\ p \in [1..k -> SUBSET q[n].levels]
      BY <2>5
    <3> QED BY <2>2, <3>1, ExplodedJobs
  <2>7. n \in n..(n + k - 1)
    BY <2>5
  <2>8. e[n] = [genome |-> q[n].genome, levels |-> p[n + k - n]]
    BY <2>6, <2>7
  <2> QED BY <2>8
<1> QED
  BY <1>1, <1>2

\* The head of the loop prepares the network of the genome it has chosen.
LEMMA PrepareJobNetwork ==
  ASSUME NEW lay, NEW q \in Seq(Job), NEW from, NEW scored,
         NEW count \in 1..Population, NEW cache, NEW current,
         NEW active \in SUBSET Clients, HoldsOpen(cache, lay, scored, current),
         PrepareJob(q, from, scored, count, cache, current, active)
  PROVE  /\ phase' = "wait"
         /\ index' # 0
         /\ networkToSend' = [lineage |-> current, genome |-> jobs'[index'].genome]
<1> DEFINE n == NextIndex(q, from, scored)
           g == q[n].genome
<1>1. /\ OpenJobs(q, scored) # {}
      /\ jobs' \in MaybeExploded(q, n, Cardinality(active), count)
      /\ index' = n
      /\ networkToSend' = SerializedNetwork(cache, g, current)
      /\ phase' = "wait"
  BY DEF PrepareJob
<1>2. n \in 1..Len(q)
  <2>1. n \in OpenJobs(q, scored)
    BY <1>1, NextIndexIsOpen
  <2> HIDE DEF n
  <2> QED BY <2>1 DEF OpenJobs
<1>3. Cardinality(active) \in Nat
  BY ServerAssumption, FS_Subset, FS_CardinalityType
<1>4. count \in Nat /\ count # 0
  OBVIOUS
<1> HIDE DEF n
<1>5. jobs'[n].genome = g
  BY <1>1, <1>2, <1>3, <1>4, SplitKeepsGenome
<1>6. networkToSend' = [lineage |-> current, genome |-> g]
  <2> HIDE DEF g
  <2>1. CASE \E c \in cache : c.address = g
    <3> DEFINE hit == CHOOSE c \in cache : c.address = g
    <3>1. hit \in cache /\ hit.address = g
      BY <2>1
    <3>2. networkToSend' = hit.network
      BY <1>1, <2>1 DEF SerializedNetwork
    <3> HIDE DEF hit
    <3> QED BY <3>1, <3>2 DEF HoldsOpen
  <2>2. CASE ~ \E c \in cache : c.address = g
    BY <1>1, <2>2 DEF SerializedNetwork
  <2> QED BY <2>1, <2>2
<1> QED
  BY <1>1, <1>2, <1>5, <1>6

-----------------------------------------------------------------------------
Breeding == [draw: Nat, layout: Layouts]

\* The pool bred next.
LEMMA NextPool ==
  ASSUME SInv, PrepareNewGeneration
  PROVE  /\ lineage \in Seq(Breeding)
         /\ \E x \in Breeding : lineage' = Append(lineage, x) /\ layout' = x.layout
<1>1. PICK next \in Layouts :
        layout' = next /\ lineage' = Append(lineage, [draw |-> draws, layout |-> next])
  BY DEF PrepareNewGeneration
<1> DEFINE x == [draw |-> draws, layout |-> next]
<1>2. draws \in Nat /\ lineage \in Seq(Breeding)
  BY DEF SInv, IInv, TypeOK, Lineage, Breeding
<1>3. x \in Breeding /\ x.layout = next
  BY <1>2 DEF Breeding
<1>4. lineage' = Append(lineage, x)
  BY <1>1
<1> HIDE DEF x
<1> QED
  BY <1>1, <1>2, <1>3, <1>4

\* What was a backup of an ancestor is one of the next pool's.
LEMMA NextPoolKeeps ==
  ASSUME SInv, PrepareNewGeneration
  PROVE  /\ generation' = Len(lineage')
         /\ layout' = LayoutOf(lineage')
         /\ \A a \in Lineage : Ancestor(a, lineage) => Ancestor(a, lineage')
<1>1. lineage \in Seq(Breeding)
  BY NextPool
<1>2. PICK x \in Breeding : lineage' = Append(lineage, x) /\ layout' = x.layout
  BY NextPool
<1>3. /\ Len(lineage) \in Nat /\ Len(lineage') = Len(lineage) + 1
      /\ lineage'[Len(lineage')] = x
      /\ lineage' # << >>
  BY <1>1, <1>2, AppendProperties
<1>4. generation' = generation + 1 /\ generation = Len(lineage)
  BY DEF PrepareNewGeneration, SInv, PoolInv
<1>5. layout' = LayoutOf(lineage')
  BY <1>2, <1>3 DEF LayoutOf
<1>6. ASSUME NEW a \in Lineage, Ancestor(a, lineage) PROVE Ancestor(a, lineage')
  <2>1. a \in Seq(Breeding)
    BY DEF Lineage, Breeding
  <2> QED BY <1>1, <1>2, <1>6, <2>1, AncestorStays
<1> QED
  BY <1>3, <1>4, <1>5, <1>6

\* The backup, told by Ancestor.
LEMMA BackupAncestor ==
  /\ BackupIsAncestor <=>
       (saved # NoBackup => /\ Ancestor(saved.lineage, lineage)
                            /\ saved.generation = Len(saved.lineage)
                            /\ saved.layout = LayoutOf(saved.lineage))
  /\ BackupIsAncestor' <=>
       (saved' # NoBackup => /\ Ancestor(saved'.lineage, lineage')
                             /\ saved'.generation = Len(saved'.lineage)
                             /\ saved'.layout = LayoutOf(saved'.lineage))
BY DEF BackupIsAncestor, Ancestor

\* No step of the server, and no message, breaks its invariant.
LEMMA ServerInvariantKept == SInv /\ ServerNext => SInv'
<1> SUFFICES ASSUME SInv, ServerNext PROVE SInv'
  OBVIOUS
<1>1. IInv /\ IInv'
  BY NextInvariant DEF SInv
<1>2. PoolInv
  BY DEF SInv
<1>3. CASE PrepareNext
  <2>1. /\ UNCHANGED <<generation, layout, lineage, saved, crashes>>
        /\ incompleteJobCount \in 1..Population
    BY <1>1, <1>3, PopulationAssumption DEF PrepareNext, pool, IInv, TypeOK
  <2>2. PICK active \in SUBSET known :
          PrepareJob(jobs, index, done, incompleteJobCount, serializedNetworks, lineage, active)
    BY <1>3 DEF PrepareNext
  <2>3. /\ jobs \in Seq(Job) /\ active \in SUBSET Clients
        /\ HoldsOpen(serializedNetworks, layout, done, lineage)
    BY <1>1, <2>2, CacheIsHoldsOpen DEF IInv, TypeOK
  <2>4. /\ phase' = "wait" /\ index' # 0
        /\ networkToSend' = [lineage |-> lineage, genome |-> jobs'[index'].genome]
    BY <2>1, <2>2, <2>3, PrepareJobNetwork
  <2>5. BackupIsAncestor'
    BY <1>2, <2>1, BackupAncestor DEF PoolInv
  <2> QED BY <1>1, <1>2, <2>1, <2>4, <2>5 DEF SInv, PoolInv
<1>4. CASE PrepareNewGeneration
  <2>1. PICK active \in SUBSET known :
          PrepareJob(FreshJobs(layout'), 0, Unscored, Population, {}, lineage', active)
    BY <1>4 DEF PrepareNewGeneration, ClearedCache
  <2>2. layout' \in Layouts /\ saved' = saved
    BY <1>4 DEF PrepareNewGeneration
  <2>3. /\ FreshJobs(layout') \in Seq(Job) /\ active \in SUBSET Clients
        /\ Population \in 1..Population /\ HoldsOpen({}, layout', Unscored, lineage')
    BY <1>1, <2>1, <2>2, FreshJobsType, PopulationAssumption DEF IInv, TypeOK, HoldsOpen
  <2>4. /\ phase' = "wait" /\ index' # 0
        /\ networkToSend' = [lineage |-> lineage', genome |-> jobs'[index'].genome]
    BY <2>1, <2>3, PrepareJobNetwork
  <2>5. BackupIsAncestor'
    <3>1. saved # NoBackup => saved.lineage \in Lineage
      BY <1>1 DEF IInv, TypeOK, Backup
    <3> QED BY <1>2, <1>4, <2>2, <3>1, NextPoolKeeps, BackupAncestor DEF PoolInv
  <2> QED BY <1>1, <1>4, <2>4, <2>5, NextPoolKeeps DEF SInv, PoolInv
<1>5. CASE \E m \in Ask \cup Result : Receive(m)
  <2>1. /\ UNCHANGED <<generation, layout, lineage, saved, crashes>>
        /\ phase' \in {"check", "prepare"}
    BY <1>5 DEF Receive, pool, NextPhase
  <2>2. BackupIsAncestor'
    BY <1>2, <2>1, BackupAncestor DEF PoolInv
  <2> QED BY <1>1, <1>2, <2>1, <2>2 DEF SInv, PoolInv
<1>6. CASE CheckGeneration
  <2>1. /\ UNCHANGED <<generation, layout, lineage, crashes>>
        /\ phase' \in {"finished", "prepare"}
        /\ \/ saved' = saved
           \/ saved' = [generation |-> generation, layout |-> layout, lineage |-> lineage,
                        known |-> known, levelsPlayed |-> levelsPlayed]
    BY <1>6 DEF CheckGeneration, pool
  <2>2. BackupIsAncestor'
    <3>1. CASE saved' = saved
      BY <1>2, <2>1, <3>1, BackupAncestor DEF PoolInv
    <3>2. CASE saved' = [generation |-> generation, layout |-> layout, lineage |-> lineage,
                         known |-> known, levelsPlayed |-> levelsPlayed]
      <4>1. /\ saved'.lineage = lineage /\ saved'.generation = generation
            /\ saved'.layout = layout
        BY <3>2
      <4>2. Ancestor(lineage, lineage)
        BY <1>1, AncestorOfItself DEF IInv, TypeOK, Lineage
      <4> QED BY <1>2, <2>1, <4>1, <4>2, BackupAncestor DEF PoolInv
    <3> QED BY <2>1, <3>1, <3>2
  <2> QED BY <1>1, <1>2, <2>1, <2>2 DEF SInv, PoolInv
<1>7. CASE Crash
  <2>1. /\ UNCHANGED <<generation, layout, lineage, saved>>
        /\ phase' = "down" /\ crashes' = crashes + 1 /\ crashes \in Nat
    BY <1>1, <1>7, ServerAssumption DEF Crash, pool, IInv, TypeOK
  <2>2. BackupIsAncestor'
    BY <1>2, <2>1, BackupAncestor DEF PoolInv
  <2> QED BY <1>1, <1>2, <2>1, <2>2 DEF SInv, PoolInv
<1>8. CASE Restart
  <2> DEFINE b == RestartPool
  <2>1. /\ generation' = b.generation /\ layout' = b.layout /\ lineage' = b.lineage
        /\ phase' = "prepare" /\ UNCHANGED <<saved, crashes>>
    BY <1>8 DEF Restart
  <2>2. CASE saved = NoBackup
    <3>1. b = FreshStart
      BY <2>2 DEF RestartPool
    <3>2. /\ b.generation = 0 /\ b.layout = FirstLayout /\ b.lineage = << >>
      BY <3>1 DEF FreshStart
    <3> HIDE DEF b
    <3>3. generation' = Len(lineage') /\ layout' = LayoutOf(lineage')
      BY <2>1, <3>2 DEF LayoutOf
    <3>4. BackupIsAncestor'
      BY <2>1, <2>2, BackupAncestor
    <3> QED BY <1>1, <2>1, <3>3, <3>4 DEF SInv, PoolInv
  <2>3. CASE saved # NoBackup
    <3>1. b = saved
      BY <2>3 DEF RestartPool
    <3>2. saved.lineage \in Lineage
      BY <1>1, <2>3 DEF IInv, TypeOK, Backup
    <3> HIDE DEF b
    <3>3. /\ saved.generation = Len(saved.lineage)
          /\ saved.layout = LayoutOf(saved.lineage)
      BY <1>2, <2>3, BackupAncestor DEF PoolInv
    <3>4. Ancestor(saved.lineage, saved.lineage)
      BY <3>2, AncestorOfItself DEF Lineage
    <3>5. BackupIsAncestor'
      BY <2>1, <3>1, <3>3, <3>4, BackupAncestor
    <3> QED BY <1>1, <2>1, <3>1, <3>3, <3>5 DEF SInv, PoolInv
  <2> QED BY <2>2, <2>3
<1> QED
  BY <1>3, <1>4, <1>5, <1>6, <1>7, <1>8 DEF ServerNext, ServerStep

\* What the server sends is a job that fits its pool.
LEMMA PreparedFits ==
  ASSUME SInv, phase = "wait"
  PROVE  Fits(PreparedJob, lineage)
<1>1. IInv /\ PoolInv
  BY DEF SInv
<1>2. index \in 1..Len(jobs) /\ jobs \in Seq(Job)
  <2>1. index \in 0..Len(jobs) /\ jobs \in Seq(Job) /\ index # 0
    BY <1>1 DEF IInv, TypeOK, PoolInv
  <2> QED BY <2>1
<1> DEFINE j == jobs[index]
<1>3. j.genome \in Genomes /\ j.levels \in SUBSET Levels
  <2>1. j \in Job
    BY <1>2
  <2> HIDE DEF j
  <2> QED BY <2>1 DEF Job
<1>4. j.genome \in Members(layout)
  BY <1>1, <1>2 DEF IInv, QueueCoversPool
<1>5. PreparedJob = [generation |-> generation, genome |-> j.genome,
                     levels |-> j.levels, network |-> networkToSend]
  BY DEF PreparedJob
<1>6. /\ networkToSend = [lineage |-> lineage, genome |-> j.genome]
      /\ networkToSend \in Network /\ generation \in Nat
      /\ generation = Len(lineage) /\ layout = LayoutOf(lineage)
      /\ lineage \in Lineage
  BY <1>1 DEF IInv, TypeOK, PoolInv
<1> HIDE DEF j
<1>7. /\ networkToSend.lineage = lineage /\ networkToSend.genome = j.genome
      /\ PreparedJob.network = networkToSend /\ PreparedJob.generation = generation
      /\ PreparedJob.genome = j.genome
  BY <1>5, <1>6
<1>8. PreparedJob \in Work
  BY <1>3, <1>5, <1>6 DEF Work
<1>9. Ancestor(lineage, lineage)
  BY <1>6, AncestorOfItself DEF Lineage
<1> QED
  BY <1>4, <1>6, <1>7, <1>8, <1>9 DEF Fits

-----------------------------------------------------------------------------
\* Whatever the server does, a job still fits: the next pool is bred from this
\* one, and of a server that died nothing is claimed.
LEMMA FitsKept ==
  ASSUME SInv, ServerNext \/ UNCHANGED serverVars, NEW w, Fits(w, lineage)
  PROVE  Fits(w, lineage)'
<1> SUFFICES crashes' = 0 => Ancestor(w.network.lineage, lineage')
  BY DEF Fits
<1>1. CASE UNCHANGED <<lineage, crashes>>
  BY <1>1 DEF Fits
<1>2. CASE PrepareNewGeneration
  <2>1. w.network.lineage \in Lineage
    BY DEF Fits, Work, Network
  <2>2. crashes' = crashes
    BY <1>2 DEF PrepareNewGeneration
  <2> QED BY <1>2, <2>1, <2>2, NextPoolKeeps DEF Fits
<1>3. CASE Crash
  <2>1. crashes' = crashes + 1 /\ crashes \in Nat
    BY <1>3, ServerAssumption DEF Crash, SInv, IInv, TypeOK
  <2> QED BY <2>1
<1>4. CASE Restart
  <2>1. crashes' = crashes /\ crashes > 0
    BY <1>4 DEF Restart, SInv, PoolInv
  <2> QED BY <2>1
<1>5. CASE PrepareNext
  BY <1>1, <1>5 DEF PrepareNext, pool
<1>6. CASE \E m \in Ask \cup Result : Receive(m)
  BY <1>1, <1>6 DEF Receive, pool
<1>7. CASE CheckGeneration
  BY <1>1, <1>7 DEF CheckGeneration, pool
<1>8. CASE UNCHANGED serverVars
  BY <1>1, <1>8 DEF serverVars, pool
<1> QED
  BY <1>2, <1>3, <1>4, <1>5, <1>6, <1>7, <1>8 DEF ServerNext, ServerStep

\* A result that is fresh and was not returned across a death of the server was
\* played by the genome's own network.
LEMMA FreshIsOwn ==
  ASSUME SInv, crashes = 0, NEW r \in Result, Fits(r.work, lineage), IsFresh(r)
  PROVE  r.work.network = [lineage |-> lineage, genome |-> r.work.genome]
<1>1. /\ r.work.network \in Network
      /\ Ancestor(r.work.network.lineage, lineage)
      /\ Len(r.work.network.lineage) = Len(lineage)
      /\ r.work.network.genome = r.work.genome
  BY DEF Fits, Work, IsFresh, SInv, PoolInv
<1>2. r.work.network.lineage \in Seq(Breeding) /\ lineage \in Seq(Breeding)
  BY <1>1 DEF Network, Lineage, Breeding, SInv, IInv, TypeOK
<1>3. r.work.network.lineage = lineage
  BY <1>1, <1>2, AncestorOfLength
<1> QED
  BY <1>1, <1>3 DEF Network

\* What fitness sums stays the genome's own while the server lives.
LEMMA OwnPlaysKept ==
  ASSUME SInv, OwnPlays, crashes = 0, crashes' = 0,
         \/ ServerStep \/ Crash \/ UNCHANGED serverVars
         \/ \E m \in Ask \cup Result :
              Receive(m) /\ (m.kind = "result" => Fits(m.work, lineage))
  PROVE  OwnPlays'
<1>1. CASE UNCHANGED <<fitness, lineage>>
  BY <1>1 DEF OwnPlays
<1>2. CASE PrepareNewGeneration
  <2>1. \A g \in Genomes, l \in Levels : fitness'[g][l] = << >>
    BY <1>2 DEF PrepareNewGeneration, NoPlays
  <2> QED BY <2>1 DEF OwnPlays
<1>3. CASE Restart
  BY <1>3 DEF Restart, SInv, PoolInv
<1>4. CASE PrepareNext
  BY <1>1, <1>4 DEF PrepareNext, pool, scores
<1>5. CASE CheckGeneration
  BY <1>1, <1>5 DEF CheckGeneration, pool, scores
<1>6. CASE Crash
  BY <1>1, <1>6 DEF Crash, pool, scores
<1>7. CASE UNCHANGED serverVars
  BY <1>1, <1>7 DEF serverVars, pool, scores
<1>8. ASSUME NEW m \in Ask \cup Result, Receive(m), m.kind = "result" => Fits(m.work, lineage)
      PROVE  OwnPlays'
  <2>1. lineage' = lineage
    BY <1>8 DEF Receive, pool
  <2>2. CASE ~ (m.kind = "result" /\ IsFresh(m))
    BY <1>1, <1>8, <2>1, <2>2 DEF Receive, scores
  <2>3. CASE m.kind = "result" /\ IsFresh(m)
    <3>1. m \in Result
      BY <2>3 DEF Ask
    <3> DEFINE g == m.work.genome
               new == ValidResultSet(m)
    <3>2. m.work.network = [lineage |-> lineage, genome |-> g]
      BY <1>8, <2>3, <3>1, FreshIsOwn
    <3>3. /\ g \in Genomes /\ m.work.network \in Network
          /\ fitness \in [Genomes -> [Levels -> Seq(Network)]]
      BY <3>1 DEF Result, Work, SInv, IInv, TypeOK
    <3>4. fitness' = [fitness EXCEPT ![g] =
            [l \in Levels |-> IF l \in new THEN Append(fitness[g][l], m.work.network)
                                          ELSE fitness[g][l]]]
      BY <1>8, <2>3 DEF Receive, ScoreResult, AddToFitness
    <3> HIDE DEF g, new
    <3> SUFFICES ASSUME NEW h \in Genomes, NEW l \in Levels, NEW i \in DOMAIN fitness'[h][l]
                 PROVE  fitness'[h][l][i] = [lineage |-> lineage, genome |-> h]
      BY <2>1 DEF OwnPlays
    <3>5. fitness[h][l] \in Seq(Network)
      BY <3>3
    <3>6. \A j \in DOMAIN fitness[h][l] : fitness[h][l][j] = [lineage |-> lineage, genome |-> h]
      BY DEF OwnPlays
    <3>7. CASE h = g /\ l \in new
      <4>1. fitness'[h][l] = Append(fitness[h][l], m.work.network)
        BY <3>3, <3>4, <3>7
      <4>2. /\ DOMAIN fitness[h][l] = 1..Len(fitness[h][l]) /\ Len(fitness[h][l]) \in Nat
            /\ DOMAIN fitness'[h][l] = 1..(Len(fitness[h][l]) + 1)
            /\ \A j \in 1..Len(fitness[h][l]) : fitness'[h][l][j] = fitness[h][l][j]
            /\ fitness'[h][l][Len(fitness[h][l]) + 1] = m.work.network
        BY <3>3, <3>5, <4>1, AppendProperties, LenProperties
      <4>3. CASE i \in 1..Len(fitness[h][l])
        BY <3>6, <4>2, <4>3
      <4>4. CASE i = Len(fitness[h][l]) + 1
        BY <3>2, <3>7, <4>2, <4>4
      <4> QED BY <4>2, <4>3, <4>4
    <3>8. CASE ~ (h = g /\ l \in new)
      <4>1. fitness'[h][l] = fitness[h][l]
        BY <3>3, <3>4, <3>8
      <4> QED BY <3>6, <4>1
    <3> QED BY <3>7, <3>8
  <2> QED BY <2>2, <2>3
<1> QED
  BY <1>2, <1>3, <1>4, <1>5, <1>6, <1>7, <1>8 DEF ServerStep

-----------------------------------------------------------------------------
\* The first state.
LEMMA TrainingInit == Init => DInv
<1> SUFFICES ASSUME Init PROVE DInv
  OBVIOUS
<1>1. IInv
  BY InitInvariant DEF Init
<1>2. PoolInv
  BY <1>1 DEF Init, ServerInit, PoolInv, LayoutOf, BackupIsAncestor
<1>3. EmulatorTypes
  BY DEF Init, EmulatorInit, EmulatorTypes
<1>4. FlightInv /\ SocketInv /\ EveryRequestIsAnswered
  BY DEF Init, EmulatorInit, FlightInv, SocketInv, EveryRequestIsAnswered, Hung
<1>5. OwnPlays
  BY DEF Init, ServerInit, NoPlays, OwnPlays
<1> QED
  BY <1>1, <1>2, <1>3, <1>4, <1>5 DEF DInv, SInv

\* A step of the server that touches no message.
LEMMA ServerKeeps == DInv /\ Server => DInv'
<1> SUFFICES ASSUME DInv, Server PROVE DInv'
  OBVIOUS
<1>1. /\ ServerStep /\ ServerNext
      /\ UNCHANGED <<state, socket, work, played, outdated, kills, requests, replies>>
  BY DEF Server, ServerNext, emulatorVars
<1>2. SInv /\ SInv'
  BY <1>1, ServerInvariantKept DEF DInv
<1>3. EmulatorTypes'
  BY <1>1 DEF DInv, EmulatorTypes
<1>4. \A w : Fits(w, lineage) => Fits(w, lineage)'
  BY <1>1, <1>2, FitsKept
<1>5. FlightInv'
  BY <1>1, <1>4 DEF DInv, FlightInv
<1>6. SocketInv'
  BY <1>1 DEF DInv, SocketInv, Identity
<1>7. crashes' = crashes /\ (phase = "finished" => phase' = "finished")
  BY <1>1 DEF ServerStep, PrepareNext, PrepareNewGeneration, CheckGeneration, Restart
<1>8. EveryRequestIsAnswered'
  BY <1>1, <1>7 DEF DInv, EveryRequestIsAnswered, Hung, Identity
<1>9. crashes' = 0 => OwnPlays'
  BY <1>1, <1>2, <1>7, OwnPlaysKept DEF DInv
<1> QED
  BY <1>2, <1>3, <1>5, <1>6, <1>8, <1>9 DEF DInv

\* The server dies: messages may be lost, and nobody is promised an answer.
LEMMA ServerCrashKeeps == DInv /\ ServerCrash => DInv'
<1> SUFFICES ASSUME DInv, ServerCrash PROVE DInv'
  OBVIOUS
<1>1. /\ Crash /\ ServerNext
      /\ requests' \in SUBSET requests /\ replies' \in SUBSET replies
      /\ UNCHANGED <<state, socket, work, played, outdated, kills>>
  BY DEF ServerCrash, ServerNext
<1>2. SInv /\ SInv'
  BY <1>1, ServerInvariantKept DEF DInv
<1>3. EmulatorTypes'
  BY <1>1 DEF DInv, EmulatorTypes
<1>4. \A w : Fits(w, lineage) => Fits(w, lineage)'
  BY <1>1, <1>2, FitsKept
<1>5. FlightInv'
  BY <1>1, <1>4 DEF DInv, FlightInv
<1>6. SocketInv'
  BY <1>1 DEF DInv, SocketInv, Identity
<1>7. crashes' > 0
  BY <1>1, <1>2, ServerAssumption DEF Crash, SInv, IInv, TypeOK
<1>8. EveryRequestIsAnswered'
  BY <1>7 DEF EveryRequestIsAnswered
<1> QED
  BY <1>2, <1>3, <1>5, <1>6, <1>7, <1>8 DEF DInv

\* The server takes a request: if its sender waits, it is answered, unless it
\* runs other code.
LEMMA ServeKeeps == DInv /\ Serve => DInv'
<1> SUFFICES ASSUME DInv, Serve PROVE DInv'
  OBVIOUS
<1>1. PICK q \in requests :
        /\ Receive(q.body)
        /\ requests' = requests \ {q}
        /\ replies' = replies \cup
             {r \in {[to |-> q.from, job |-> j] : j \in Answers(q.body)} :
                \E e \in Emulators : r.to = Identity(e)}
  BY DEF Serve
<1>2. UNCHANGED <<state, socket, work, played, outdated, kills>>
  BY DEF Serve
<1>3. /\ q.body \in Ask \cup Result
      /\ q.body.kind = "result" => Fits(q.body.work, lineage)
  BY DEF DInv, FlightInv
<1>4. ServerNext
  BY <1>1, <1>3 DEF ServerNext
<1>5. SInv /\ SInv'
  BY <1>4, ServerInvariantKept DEF DInv
<1>6. EmulatorTypes'
  BY <1>2 DEF DInv, EmulatorTypes
<1>7. \A w : Fits(w, lineage) => Fits(w, lineage)'
  BY <1>4, <1>5, FitsKept
<1>8. /\ phase = "wait" /\ crashes' = crashes
      /\ Answers(q.body) \subseteq {PreparedJob}
  BY <1>1 DEF Receive, Answers
<1>9. \A r \in replies' : r \in replies \/ r.job = PreparedJob
  <2> SUFFICES ASSUME NEW r \in replies', ~ (r \in replies) PROVE r.job = PreparedJob
    OBVIOUS
  <2>1. PICK j \in Answers(q.body) : r = [to |-> q.from, job |-> j]
    BY <1>1
  <2>2. r.job = j
    BY <2>1
  <2> QED BY <1>8, <2>1, <2>2
<1>10. Fits(PreparedJob, lineage)
  BY <1>5, <1>8, PreparedFits
<1>11. FlightInv'
  <2>1. \A e \in Emulators : (state[e] = "playing" => Fits(work[e], lineage))'
    BY <1>2, <1>7 DEF DInv, FlightInv
  <2>2. \A r \in replies' : Fits(r.job, lineage)
    BY <1>9, <1>10 DEF DInv, FlightInv
  <2>3. ASSUME NEW r \in replies' PROVE Fits(r.job, lineage)'
    BY <1>7, <2>2
  <2>4. ASSUME NEW x \in requests'
        PROVE  x.body \in Ask \cup Result /\ (x.body.kind = "result" => Fits(x.body.work, lineage)')
    <3>1. x.body \in Ask \cup Result /\ (x.body.kind = "result" => Fits(x.body.work, lineage))
      BY <1>1 DEF DInv, FlightInv
    <3> QED BY <1>7, <3>1
  <2> QED BY <2>1, <2>3, <2>4 DEF FlightInv
<1>12. SocketInv'
  BY <1>1, <1>2 DEF DInv, SocketInv, Identity
<1>13. EveryRequestIsAnswered'
  <2> SUFFICES ASSUME NEW e \in Emulators, Hung(e)', crashes' = 0, ~outdated'[e]
               PROVE  FALSE
    <3>1. crashes' \in Nat
      BY <1>5, ServerAssumption DEF SInv, IInv, TypeOK
    <3> QED BY <3>1 DEF EveryRequestIsAnswered
  <2>1. /\ state[e] = "waiting"
        /\ \A x \in requests' : x.from # Identity(e)
        /\ \A r \in replies' : r.to # Identity(e)
    BY <1>2 DEF Hung, Identity
  <2>2. CASE q.from = Identity(e)
    <3>1. ~ (q.body.kind = "result" /\ (~q.body.current \/ q.body.die))
      BY <1>2, <2>2 DEF DInv, SocketInv
    <3>2. PreparedJob \in Answers(q.body)
      BY <3>1 DEF Answers
    <3> DEFINE r == [to |-> q.from, job |-> PreparedJob]
    <3>3. r \in {[to |-> q.from, job |-> j] : j \in Answers(q.body)} /\ r.to = Identity(e)
      BY <2>2, <3>2
    <3>4. r \in replies'
      BY <1>1, <3>3
    <3> QED BY <2>1, <3>3, <3>4
  <2>3. CASE q.from # Identity(e)
    <3>1. Hung(e)
      BY <1>1, <2>1, <2>3 DEF Hung
    <3> QED BY <1>2, <1>8, <3>1 DEF DInv, EveryRequestIsAnswered
  <2> QED BY <2>2, <2>3
<1>14. crashes' = 0 => OwnPlays'
  <2>1. ASSUME crashes' = 0 PROVE OwnPlays'
    <3>1. crashes = 0 /\ OwnPlays
      BY <1>8, <2>1 DEF DInv
    <3> QED BY <1>1, <1>3, <1>5, <2>1, <3>1, OwnPlaysKept
  <2> QED BY <2>1
<1> QED
  BY <1>5, <1>6, <1>11, <1>12, <1>13, <1>14 DEF DInv

-----------------------------------------------------------------------------
\* A step of an emulator leaves the server, and what is true of it, alone.
LEMMA ServerUntouched ==
  ASSUME DInv, UNCHANGED serverVars
  PROVE  /\ SInv'
         /\ crashes' = 0 => OwnPlays'
         /\ phase' = phase /\ crashes' = crashes
         /\ \A w : Fits(w, lineage) => Fits(w, lineage)'
<1>1. SInv
  BY DEF DInv
<1>2. IInv'
  BY <1>1, NextInvariant DEF SInv
<1>3. /\ phase' = phase /\ crashes' = crashes /\ generation' = generation
      /\ lineage' = lineage /\ layout' = layout /\ saved' = saved
      /\ jobs' = jobs /\ index' = index /\ networkToSend' = networkToSend
      /\ fitness' = fitness
  BY DEF serverVars, pool, scores, queue, network
<1>4. PoolInv'
  <2>1. BackupIsAncestor'
    BY <1>1, <1>3, BackupAncestor DEF SInv, PoolInv
  <2> QED BY <1>1, <1>3, <2>1 DEF SInv, PoolInv
<1>5. \A w : Fits(w, lineage) => Fits(w, lineage)'
  BY <1>1, FitsKept
<1>6. crashes' = 0 => OwnPlays'
  BY <1>3 DEF DInv, OwnPlays
<1> QED
  BY <1>2, <1>3, <1>4, <1>5, <1>6 DEF SInv

\* Identities of different emulators are different.
LEMMA IdentitiesDiffer ==
  ASSUME NEW e \in Emulators, NEW f \in Emulators, e # f
  PROVE  Identity(e) # Identity(f) /\ Identity(e)' # Identity(f)'
BY DEF Identity

\* What an emulator returns is a result of a job that fits.
LEMMA ResultFits ==
  ASSUME DInv, NEW e \in Emulators, state[e] = "playing", NEW dies \in BOOLEAN
  PROVE  LET q == ResultOf(e, dies)
         IN  /\ q.from = Identity(e)
             /\ q.body \in Result
             /\ q.body.kind = "result" /\ q.body.die = dies
             /\ q.body.current = ~outdated[e]
             /\ Fits(q.body.work, lineage)
<1>1. Fits(work[e], lineage)
  BY DEF DInv, FlightInv
<1>2. work[e] \in Work
  BY <1>1 DEF Fits
<1>3. outdated[e] \in BOOLEAN
  BY DEF DInv, EmulatorTypes
<1>4. ClientOf[e] \in Clients
  BY ClientAssumption
<1> DEFINE b == [kind |-> "result", client |-> ClientOf[e], work |-> work[e],
                 current |-> ~outdated[e], die |-> dies]
<1>5. ResultOf(e, dies) = [from |-> Identity(e), body |-> b]
  BY DEF ResultOf
<1>6. b \in Result
  BY <1>2, <1>3, <1>4 DEF Result
<1>7. /\ b.kind = "result" /\ b.work = work[e] /\ b.current = ~outdated[e]
      /\ b.die = dies
  OBVIOUS
<1> HIDE DEF b
<1>8. ResultOf(e, dies).from = Identity(e) /\ ResultOf(e, dies).body = b
  BY <1>5
<1> QED
  BY <1>1, <1>6, <1>7, <1>8

\* Asking for a job keeps the invariant.
LEMMA AskKeeps ==
  ASSUME DInv, UNCHANGED serverVars, NEW e \in Emulators, AskForWork(e)
  PROVE  DInv'
<1>1. /\ SInv' /\ (crashes' = 0 => OwnPlays')
      /\ phase' = phase /\ crashes' = crashes
      /\ \A w : Fits(w, lineage) => Fits(w, lineage)'
  BY ServerUntouched
<1> DEFINE q == [from |-> Identity(e), body |-> [kind |-> "ask", client |-> ClientOf[e]]]
<1>2. /\ q.from = Identity(e) /\ q.body \in Ask /\ q.body.kind = "ask"
  BY ClientAssumption DEF Ask
<1>3. /\ state[e] = "idle" /\ state' = [state EXCEPT ![e] = "waiting"]
      /\ requests' = requests \cup {q}
      /\ UNCHANGED <<socket, work, played, outdated, kills, replies>>
  BY DEF AskForWork
<1> HIDE DEF q
<1>4. EmulatorTypes'
  BY <1>3 DEF DInv, EmulatorTypes
<1>5. FlightInv'
  <2>1. \A f \in Emulators : (state[f] = "playing" => Fits(work[f], lineage))'
    <3> SUFFICES ASSUME NEW f \in Emulators, state'[f] = "playing" PROVE Fits(work[f], lineage)'
      OBVIOUS
    <3>1. state[f] = "playing"
      BY <1>3 DEF DInv, EmulatorTypes
    <3>2. Fits(work[f], lineage) /\ work'[f] = work[f]
      BY <1>3, <3>1 DEF DInv, FlightInv
    <3> QED BY <1>1, <3>2
  <2>2. ASSUME NEW r \in replies' PROVE Fits(r.job, lineage)'
    BY <1>1, <1>3 DEF DInv, FlightInv
  <2>3. ASSUME NEW x \in requests'
        PROVE  x.body \in Ask \cup Result /\ (x.body.kind = "result" => Fits(x.body.work, lineage)')
    <3>1. CASE x = q
      BY <1>2, <3>1
    <3>2. CASE x # q
      <4>1. x.body \in Ask \cup Result /\ (x.body.kind = "result" => Fits(x.body.work, lineage))
        BY <1>3, <3>2 DEF DInv, FlightInv
      <4> QED BY <1>1, <4>1
    <3> QED BY <3>1, <3>2
  <2> QED BY <2>1, <2>2, <2>3 DEF FlightInv
<1>6. SocketInv'
  BY <1>2, <1>3 DEF DInv, SocketInv, Identity
<1>7. EveryRequestIsAnswered'
  <2> SUFFICES ASSUME NEW f \in Emulators, Hung(f)'
               PROVE  (crashes > 0 \/ outdated[f] \/ phase = "finished")'
    BY DEF EveryRequestIsAnswered
  <2>1. f # e
    BY <1>2, <1>3 DEF Hung, Identity
  <2>2. Hung(f)
    BY <1>3, <2>1 DEF Hung, Identity
  <2> QED BY <1>1, <1>3, <2>2 DEF DInv, EveryRequestIsAnswered
<1> QED
  BY <1>1, <1>4, <1>5, <1>6, <1>7 DEF DInv

\* Taking a reply keeps it: the job played is the one that was sent.
LEMMA TakeReplyKeeps ==
  ASSUME DInv, UNCHANGED serverVars, NEW e \in Emulators, TakeReply(e)
  PROVE  DInv'
<1>1. /\ SInv' /\ (crashes' = 0 => OwnPlays')
      /\ phase' = phase /\ crashes' = crashes
      /\ \A w : Fits(w, lineage) => Fits(w, lineage)'
  BY ServerUntouched
<1>2. PICK r \in replies : /\ r.to = Identity(e)
                           /\ work' = [work EXCEPT ![e] = r.job]
                           /\ replies' = replies \ {r}
  BY DEF TakeReply
<1>3. /\ state[e] = "waiting" /\ state' = [state EXCEPT ![e] = "playing"]
      /\ UNCHANGED <<socket, played, outdated, kills, requests>>
  BY DEF TakeReply
<1>4. Fits(r.job, lineage) /\ r.job \in Work
  BY DEF DInv, FlightInv, Fits
<1>5. EmulatorTypes'
  BY <1>2, <1>3, <1>4 DEF DInv, EmulatorTypes
<1>6. FlightInv'
  <2>1. \A f \in Emulators : (state[f] = "playing" => Fits(work[f], lineage))'
    <3> SUFFICES ASSUME NEW f \in Emulators, state'[f] = "playing" PROVE Fits(work[f], lineage)'
      OBVIOUS
    <3>1. CASE f = e
      <4>1. work'[f] = r.job
        BY <1>2, <3>1 DEF DInv, EmulatorTypes
      <4> QED BY <1>1, <1>4, <4>1
    <3>2. CASE f # e
      <4>1. state[f] = "playing"
        BY <1>3, <3>2 DEF DInv, EmulatorTypes
      <4>2. Fits(work[f], lineage) /\ work'[f] = work[f]
        BY <1>2, <3>2, <4>1 DEF DInv, FlightInv, EmulatorTypes
      <4> QED BY <1>1, <4>2
    <3> QED BY <3>1, <3>2
  <2>2. ASSUME NEW x \in replies' PROVE Fits(x.job, lineage)'
    <3>1. Fits(x.job, lineage)
      BY <1>2 DEF DInv, FlightInv
    <3> QED BY <1>1, <3>1
  <2>3. ASSUME NEW x \in requests'
        PROVE  x.body \in Ask \cup Result /\ (x.body.kind = "result" => Fits(x.body.work, lineage)')
    <3>1. x.body \in Ask \cup Result /\ (x.body.kind = "result" => Fits(x.body.work, lineage))
      BY <1>3 DEF DInv, FlightInv
    <3> QED BY <1>1, <3>1
  <2> QED BY <2>1, <2>2, <2>3 DEF FlightInv
<1>7. SocketInv'
  BY <1>3 DEF DInv, SocketInv, Identity
<1>8. EveryRequestIsAnswered'
  <2> SUFFICES ASSUME NEW f \in Emulators, Hung(f)'
               PROVE  (crashes > 0 \/ outdated[f] \/ phase = "finished")'
    BY DEF EveryRequestIsAnswered
  <2>1. f # e
    <3>1. state'[e] # "waiting"
      BY <1>3 DEF DInv, EmulatorTypes
    <3> QED BY <3>1 DEF Hung
  <2>2. Hung(f)
    <3>1. r.to # Identity(f)
      BY <1>2, <2>1, IdentitiesDiffer
    <3> QED BY <1>2, <1>3, <2>1, <3>1 DEF Hung, Identity
  <2> QED BY <1>1, <1>3, <2>2 DEF DInv, EveryRequestIsAnswered
<1> QED
  BY <1>1, <1>5, <1>6, <1>7, <1>8 DEF DInv

\* Returning a result and waiting keeps it.
LEMMA ReturnKeeps ==
  ASSUME DInv, UNCHANGED serverVars, NEW e \in Emulators, ReturnResult(e)
  PROVE  DInv'
<1>1. /\ SInv' /\ (crashes' = 0 => OwnPlays')
      /\ phase' = phase /\ crashes' = crashes
      /\ \A w : Fits(w, lineage) => Fits(w, lineage)'
  BY ServerUntouched
<1> DEFINE q == ResultOf(e, FALSE)
<1>2. /\ state[e] = "playing" /\ state' = [state EXCEPT ![e] = "waiting"]
      /\ work' = [work EXCEPT ![e] = NoWork]
      /\ requests' = requests \cup {q}
      /\ UNCHANGED <<socket, outdated, kills, replies>>
  BY DEF ReturnResult
<1>3. /\ q.from = Identity(e) /\ q.body \in Result
      /\ q.body.die = FALSE /\ q.body.current = ~outdated[e]
      /\ Fits(q.body.work, lineage)
  BY <1>2, ResultFits
<1> HIDE DEF q
<1>4. EmulatorTypes'
  BY <1>2 DEF DInv, EmulatorTypes
<1>5. FlightInv'
  <2>1. \A f \in Emulators : (state[f] = "playing" => Fits(work[f], lineage))'
    <3> SUFFICES ASSUME NEW f \in Emulators, state'[f] = "playing" PROVE Fits(work[f], lineage)'
      OBVIOUS
    <3>1. state[f] = "playing" /\ f # e
      BY <1>2 DEF DInv, EmulatorTypes
    <3>2. Fits(work[f], lineage) /\ work'[f] = work[f]
      BY <1>2, <3>1 DEF DInv, FlightInv, EmulatorTypes
    <3> QED BY <1>1, <3>2
  <2>2. ASSUME NEW r \in replies' PROVE Fits(r.job, lineage)'
    BY <1>1, <1>2 DEF DInv, FlightInv
  <2>3. ASSUME NEW x \in requests'
        PROVE  x.body \in Ask \cup Result /\ (x.body.kind = "result" => Fits(x.body.work, lineage)')
    <3>1. CASE x = q
      BY <1>1, <1>3, <3>1
    <3>2. CASE x # q
      <4>1. x.body \in Ask \cup Result /\ (x.body.kind = "result" => Fits(x.body.work, lineage))
        BY <1>2, <3>2 DEF DInv, FlightInv
      <4> QED BY <1>1, <4>1
    <3> QED BY <3>1, <3>2
  <2> QED BY <2>1, <2>2, <2>3 DEF FlightInv
<1>6. SocketInv'
  <2> SUFFICES ASSUME NEW f \in Emulators, NEW x \in requests',
                      x.from = Identity(f)', x.body.kind = "result"
               PROVE  x.body.die = FALSE /\ x.body.current = ~outdated'[f]
    BY DEF SocketInv
  <2>1. Identity(f)' = Identity(f) /\ outdated' = outdated
    BY <1>2 DEF Identity
  <2>2. CASE x = q
    <3>1. f = e
      BY <1>3, <2>1, <2>2, IdentitiesDiffer
    <3> QED BY <1>3, <2>1, <2>2, <3>1
  <2>3. CASE x # q
    BY <1>2, <2>1, <2>3 DEF DInv, SocketInv
  <2> QED BY <2>2, <2>3
<1>7. EveryRequestIsAnswered'
  <2> SUFFICES ASSUME NEW f \in Emulators, Hung(f)'
               PROVE  (crashes > 0 \/ outdated[f] \/ phase = "finished")'
    BY DEF EveryRequestIsAnswered
  <2>1. f # e
    BY <1>2, <1>3 DEF Hung, Identity
  <2>2. Hung(f)
    BY <1>2, <2>1 DEF Hung, Identity
  <2> QED BY <1>1, <1>2, <2>2 DEF DInv, EveryRequestIsAnswered
<1> QED
  BY <1>1, <1>4, <1>5, <1>6, <1>7 DEF DInv

\* A new process has a socket that no message in flight is from.
LEMMA NewSocket ==
  ASSUME NEW e \in Emulators, NEW inFlight, Relaunch(e, inFlight)
  PROVE  \E n \in Nat : /\ socket' = [socket EXCEPT ![e] = n]
                        /\ \A q \in inFlight : q.from # <<e, n>>
<1> DEFINE Free == FreeSockets(e, inFlight)
           n == CHOOSE n \in Free : \A m \in Free : n <= m
<1>1. Free # {} /\ Free \subseteq 1..SocketsPerEmulator
  BY DEF Relaunch, FreeSockets
<1>2. \E k \in Free : \A m \in Free : k <= m
  BY <1>1, EmulatorAssumption, MinimumExists
<1>3. n \in Free
  BY <1>2
<1>4. socket' = [socket EXCEPT ![e] = n]
  BY DEF Relaunch
<1> HIDE DEF n
<1>5. n \in 1..SocketsPerEmulator /\ \A q \in inFlight : q.from # <<e, n>>
  BY <1>3 DEF FreeSockets
<1>6. n \in Nat
  BY <1>5, EmulatorAssumption
<1> QED
  BY <1>4, <1>5, <1>6

\* A new process in the place of one that exited, or was killed: what that one
\* had sent may arrive or not, and nobody else's messages are touched.
LEMMA RelaunchKeeps ==
  ASSUME DInv, UNCHANGED serverVars, NEW e \in Emulators, NEW inFlight,
         Relaunch(e, inFlight),
         \A q \in inFlight : q \in requests \/ (state[e] = "playing" /\ q = ResultOf(e, TRUE)),
         \A q \in requests : q.from # Identity(e) => q \in inFlight
  PROVE  DInv'
<1>1. /\ SInv' /\ (crashes' = 0 => OwnPlays')
      /\ phase' = phase /\ crashes' = crashes
      /\ \A w : Fits(w, lineage) => Fits(w, lineage)'
  BY ServerUntouched
<1>2. PICK n \in Nat : /\ socket' = [socket EXCEPT ![e] = n]
                       /\ \A q \in inFlight : q.from # <<e, n>>
  BY NewSocket
<1>3. /\ state' = [state EXCEPT ![e] = "idle"]
      /\ work' = [work EXCEPT ![e] = NoWork]
      /\ outdated' = [outdated EXCEPT ![e] = FALSE]
      /\ requests' = inFlight
      /\ replies' = {r \in replies : r.to # Identity(e)}
  BY DEF Relaunch
<1>4. EmulatorTypes'
  BY <1>2, <1>3 DEF DInv, EmulatorTypes
<1>5. /\ Identity(e)' = <<e, n>>
      /\ \A f \in Emulators : f # e => /\ Identity(f)' = Identity(f)
                                       /\ state'[f] = state[f] /\ work'[f] = work[f]
                                       /\ outdated'[f] = outdated[f]
      /\ state'[e] = "idle"
  BY <1>2, <1>3 DEF DInv, EmulatorTypes, Identity
<1>6. ASSUME NEW q \in inFlight
      PROVE  /\ q.body \in Ask \cup Result
             /\ q.body.kind = "result" => Fits(q.body.work, lineage)
             /\ q \in requests \/ q.from = Identity(e)
  <2>1. CASE q \in requests
    BY <2>1 DEF DInv, FlightInv
  <2>2. CASE ~ (q \in requests)
    <3>1. state[e] = "playing" /\ q = ResultOf(e, TRUE)
      BY <2>2
    <3> QED BY <3>1, ResultFits
  <2> QED BY <2>1, <2>2
<1>7. FlightInv'
  <2>1. \A f \in Emulators : (state[f] = "playing" => Fits(work[f], lineage))'
    <3> SUFFICES ASSUME NEW f \in Emulators, state'[f] = "playing" PROVE Fits(work[f], lineage)'
      OBVIOUS
    <3>1. f # e
      BY <1>5
    <3>2. Fits(work[f], lineage) /\ work'[f] = work[f]
      BY <1>5, <3>1 DEF DInv, FlightInv
    <3> QED BY <1>1, <3>2
  <2>2. ASSUME NEW r \in replies' PROVE Fits(r.job, lineage)'
    <3>1. Fits(r.job, lineage)
      BY <1>3 DEF DInv, FlightInv
    <3> QED BY <1>1, <3>1
  <2>3. ASSUME NEW x \in requests'
        PROVE  x.body \in Ask \cup Result /\ (x.body.kind = "result" => Fits(x.body.work, lineage)')
    BY <1>1, <1>3, <1>6
  <2> QED BY <2>1, <2>2, <2>3 DEF FlightInv
<1>8. SocketInv'
  <2> SUFFICES ASSUME NEW f \in Emulators, NEW x \in requests',
                      x.from = Identity(f)', x.body.kind = "result"
               PROVE  ~x.body.die /\ x.body.current = ~outdated'[f]
    BY DEF SocketInv
  <2>1. f # e
    BY <1>2, <1>3, <1>5
  <2>2. x.from = Identity(f) /\ x.from # Identity(e)
    BY <1>5, <2>1, IdentitiesDiffer
  <2>3. x \in requests
    BY <1>3, <1>6, <2>2
  <2> QED BY <1>5, <2>1, <2>2, <2>3 DEF DInv, SocketInv
<1>9. EveryRequestIsAnswered'
  <2> SUFFICES ASSUME NEW f \in Emulators, Hung(f)'
               PROVE  (crashes > 0 \/ outdated[f] \/ phase = "finished")'
    BY DEF EveryRequestIsAnswered
  <2>1. f # e
    BY <1>5 DEF Hung
  <2>2. Identity(f) # Identity(e)
    BY <2>1, IdentitiesDiffer
  <2>3. /\ state[f] = "waiting"
        /\ \A q \in inFlight : q.from # Identity(f)
        /\ \A r \in replies : r.to # Identity(e) => r.to # Identity(f)
    BY <1>3, <1>5, <2>1 DEF Hung
  <2>4. Hung(f)
    BY <2>2, <2>3 DEF Hung
  <2> QED BY <1>1, <1>5, <2>1, <2>4 DEF DInv, EveryRequestIsAnswered
<1> QED
  BY <1>1, <1>4, <1>7, <1>8, <1>9 DEF DInv

\* Every step keeps the invariant.
LEMMA TrainingKeeps == DInv /\ [Next]_vars => DInv'
<1> SUFFICES ASSUME DInv, [Next]_vars PROVE DInv'
  OBVIOUS
<1>1. ASSUME NEW e \in Emulators, EmulatorTurn(e) PROVE DInv'
  <2>1. UNCHANGED serverVars
    BY <1>1 DEF EmulatorTurn
  <2>2. CASE AskForWork(e)
    BY <2>1, <2>2, AskKeeps
  <2>3. CASE TakeReply(e)
    BY <2>1, <2>3, TakeReplyKeeps
  <2>4. CASE ReturnResult(e)
    BY <2>1, <2>4, ReturnKeeps
  <2>5. CASE ReturnAndExit(e, serverUp)
    <3>1. /\ state[e] = "playing"
          /\ Relaunch(e, requests \cup {ResultOf(e, TRUE)}) \/ Relaunch(e, requests)
      BY <2>5 DEF ReturnAndExit
    <3>2. CASE Relaunch(e, requests \cup {ResultOf(e, TRUE)})
      BY <2>1, <3>1, <3>2, RelaunchKeeps
    <3>3. CASE Relaunch(e, requests)
      BY <2>1, <3>3, RelaunchKeeps
    <3> QED BY <3>1, <3>2, <3>3
  <2> QED BY <1>1, <2>2, <2>3, <2>4, <2>5 DEF EmulatorTurn, EmulatorStep
<1>2. ASSUME NEW e \in Emulators, KillEmulator(e) PROVE DInv'
  <2>1. /\ UNCHANGED serverVars
        /\ \/ Relaunch(e, requests)
           \/ Relaunch(e, {q \in requests : q.from # Identity(e)})
    BY <1>2 DEF KillEmulator, Kill
  <2>2. CASE Relaunch(e, requests)
    BY <2>1, <2>2, RelaunchKeeps
  <2>3. CASE Relaunch(e, {q \in requests : q.from # Identity(e)})
    BY <2>1, <2>3, RelaunchKeeps
  <2> QED BY <2>1, <2>2, <2>3
<1>3. CASE UNCHANGED vars
  <2>1. UNCHANGED serverVars /\ UNCHANGED emulatorVars
    BY <1>3 DEF vars
  <2>2. /\ SInv' /\ (crashes' = 0 => OwnPlays')
        /\ phase' = phase /\ crashes' = crashes
        /\ \A w : Fits(w, lineage) => Fits(w, lineage)'
    BY <2>1, ServerUntouched
  <2>3. /\ EmulatorTypes'
        /\ FlightInv'
        /\ SocketInv' /\ EveryRequestIsAnswered'
    <3>1. UNCHANGED <<state, socket, work, played, outdated, kills, requests, replies>>
      BY <2>1 DEF emulatorVars
    <3>2. EmulatorTypes'
      BY <3>1 DEF DInv, EmulatorTypes
    <3>3. FlightInv'
      BY <2>2, <3>1 DEF DInv, FlightInv
    <3>4. SocketInv'
      BY <3>1 DEF DInv, SocketInv, Identity
    <3>5. EveryRequestIsAnswered'
      BY <2>2, <3>1 DEF DInv, EveryRequestIsAnswered, Hung, Identity
    <3> QED BY <3>2, <3>3, <3>4, <3>5
  <2> QED BY <2>2, <2>3 DEF DInv
<1> QED
  BY <1>1, <1>2, <1>3, ServerKeeps, ServeKeeps, ServerCrashKeeps DEF Next, Over

-----------------------------------------------------------------------------
\* The invariant of distributed training, crashes and kills included: what is
\* in flight names its own network, what waits is answered, the backup is an
\* ancestor.
THEOREM TrainingInvariant == SafetySpec => []DInv
<1> QED
  BY TrainingInit, TrainingKeeps, PTL DEF SafetySpec

\* Whatever emulators and messages do, every job in flight carries the network
\* of the genome and of the generation it names.
THEOREM TrainingNetworks == SafetySpec => []NetworkMatchesAddress
<1>1. DInv => NetworkMatchesAddress
  <2> SUFFICES ASSUME DInv, NEW w \in WorkInFlight PROVE Fits(w, lineage)
    BY DEF NetworkMatchesAddress, Fits
  <2>1. CASE w \in {work[e] : e \in {e \in Emulators : state[e] = "playing"}}
    BY <2>1 DEF DInv, FlightInv
  <2>2. CASE w \in {r.job : r \in replies}
    BY <2>2 DEF DInv, FlightInv
  <2>3. CASE w \in {q.body.work : q \in {q \in requests : q.body.kind = "result"}}
    BY <2>3 DEF DInv, FlightInv
  <2> QED BY <2>1, <2>2, <2>3 DEF WorkInFlight
<1> QED
  BY <1>1, TrainingInvariant, PTL

\* A server that starts again finds the current pool or an ancestor of it.
THEOREM TrainingBackup == SafetySpec => []BackupIsAncestor
<1>1. DInv => BackupIsAncestor
  BY DEF DInv, SInv, PoolInv
<1> QED
  BY <1>1, TrainingInvariant, PTL

\* An emulator waits for nothing only if the server died or is done, or if it
\* runs the code of another experiment.
THEOREM TrainingAnswers == SafetySpec => []EveryRequestIsAnswered
<1>1. DInv => EveryRequestIsAnswered
  BY DEF DInv
<1> QED
  BY <1>1, TrainingInvariant, PTL

\* While the server lives, a genome's fitness sums only plays of its own
\* network.
THEOREM TrainingOwnPlays ==
  ASSUME MaxCrashes = 0
  PROVE  SafetySpec => []OwnPlays
<1>1. DInv => OwnPlays
  BY DEF DInv, SInv, IInv, TypeOK
<1> QED
  BY <1>1, TrainingInvariant, PTL

-----------------------------------------------------------------------------
\* Without deaths of the server, training implements Evaluation.

InFlight(w) ==
  \/ \E e \in Emulators : state[e] = "playing" /\ w = work[e]
  \/ \E r \in replies : w = r.job
  \/ \E q \in requests : q.body.kind = "result" /\ w = q.body.work

\* Where the server is when the experiment is not over: between the breeding of
\* a pool and its first message, nothing in flight is of that pool.
Paced ==
  /\ phase = "prepare" => lastGeneration = generation /\ generation < StopGeneration
  /\ phase = "wait" =>
       \/ lastGeneration = generation /\ generation < StopGeneration
       \/ lastGeneration # generation /\ \A w : InFlight(w) => w.generation # generation

\* A sequence of plays that are all x, one if b holds and none otherwise.
LEMMA OnePlay ==
  ASSUME NEW S, NEW f \in Seq(S), NEW x, NEW b \in BOOLEAN,
         Len(f) = IF b THEN 1 ELSE 0, \A i \in DOMAIN f : f[i] = x
  PROVE  f = << x >> <=> b
<1>1. CASE b
  <2>1. Len(f) = 1 /\ f = [i \in 1..Len(f) |-> f[i]] /\ DOMAIN f = 1..Len(f)
    BY <1>1
  <2>2. 1 \in DOMAIN f
    BY <2>1
  <2>3. f[1] = x
    BY <2>2
  <2>4. f = << f[1] >>
    BY <2>1
  <2> QED BY <1>1, <2>3, <2>4
<1>2. CASE ~b
  <2>1. Len(f) = 0 /\ Len(<< x >>) = 1
    BY <1>2
  <2> QED BY <1>2, <2>1
<1> QED
  BY <1>1, <1>2

\* What is evaluated is what is scored.
LEMMA EvaluatedIsScored ==
  ASSUME DInv, crashes = 0
  PROVE  Evaluated = {p \in (1..Population) \X Levels : p[2] \in done[layout[p[1]]]}
<1>1. ASSUME NEW i \in 1..Population, NEW l \in Levels
      PROVE  fitness[layout[i]][l] = << [lineage |-> lineage, genome |-> layout[i]] >>
               <=> l \in done[layout[i]]
  <2>1. /\ layout \in Layouts /\ fitness \in [Genomes -> [Levels -> Seq(Network)]]
        /\ FitnessSumsEachLevelOnce /\ OwnPlays
    BY DEF DInv, SInv, IInv, TypeOK
  <2>2. layout[i] \in Genomes
    BY <2>1 DEF Layouts
  <2> DEFINE f == fitness[layout[i]][l]
  <2>3. /\ f \in Seq(Network) /\ Len(f) = IF l \in done[layout[i]] THEN 1 ELSE 0
        /\ \A k \in DOMAIN f : f[k] = [lineage |-> lineage, genome |-> layout[i]]
    BY <2>1, <2>2 DEF FitnessSumsEachLevelOnce, OwnPlays
  <2> HIDE DEF f
  <2>4. f = << [lineage |-> lineage, genome |-> layout[i]] >> <=> l \in done[layout[i]]
    BY <2>3, OnePlay
  <2> QED BY <2>4 DEF f
<1> QED
  BY <1>1 DEF Evaluated

\* The same of the next state.
LEMMA EvaluatedIsScoredNext ==
  ASSUME DInv', crashes' = 0
  PROVE  Evaluated' = {p \in (1..Population) \X Levels : p[2] \in done'[layout'[p[1]]]}
<1>1. ASSUME NEW i \in 1..Population, NEW l \in Levels
      PROVE  fitness'[layout'[i]][l] = << [lineage |-> lineage', genome |-> layout'[i]] >>
               <=> l \in done'[layout'[i]]
  <2>1. /\ layout' \in Layouts /\ fitness' \in [Genomes -> [Levels -> Seq(Network)]]
        /\ FitnessSumsEachLevelOnce' /\ OwnPlays'
    BY DEF DInv, SInv, IInv, TypeOK
  <2>2. layout'[i] \in Genomes
    BY <2>1 DEF Layouts
  <2> DEFINE f == fitness'[layout'[i]][l]
  <2>3. /\ f \in Seq(Network) /\ Len(f) = IF l \in done'[layout'[i]] THEN 1 ELSE 0
        /\ \A k \in DOMAIN f : f[k] = [lineage |-> lineage', genome |-> layout'[i]]
    BY <2>1, <2>2 DEF FitnessSumsEachLevelOnce, OwnPlays
  <2> HIDE DEF f
  <2>4. f = << [lineage |-> lineage', genome |-> layout'[i]] >> <=> l \in done'[layout'[i]]
    BY <2>3, OnePlay
  <2> QED BY <2>4 DEF f
<1> QED
  BY <1>1 DEF Evaluated

\* A step that leaves pool and scores alone is none of Evaluation.
LEMMA NoEvaluation ==
  ASSUME UNCHANGED <<generation, layout, lineage, fitness>>
  PROVE  UNCHANGED Eval!vars
BY DEF Eval!vars, Evaluated

\* No step of an emulator puts a job in flight.
LEMMA NothingNewInFlight ==
  ASSUME DInv, NEW e \in Emulators, EmulatorTurn(e) \/ KillEmulator(e), NEW w, InFlight(w)'
  PROVE  InFlight(w)
<1> USE DEF InFlight
<1>0. EmulatorTypes
  BY DEF DInv
<1>1. CASE AskForWork(e)
  <2> DEFINE q == [from |-> Identity(e), body |-> [kind |-> "ask", client |-> ClientOf[e]]]
  <2>1. /\ state' = [state EXCEPT ![e] = "waiting"] /\ requests' = requests \cup {q}
        /\ UNCHANGED <<work, replies>>
    BY <1>1 DEF AskForWork
  <2>2. q.body.kind = "ask"
    OBVIOUS
  <2> HIDE DEF q
  <2> QED BY <1>0, <2>1, <2>2 DEF EmulatorTypes
<1>2. CASE TakeReply(e)
  <2>1. PICK r \in replies : /\ work' = [work EXCEPT ![e] = r.job]
                             /\ replies' = replies \ {r}
    BY <1>2 DEF TakeReply
  <2>2. state' = [state EXCEPT ![e] = "playing"] /\ UNCHANGED requests
    BY <1>2 DEF TakeReply
  <2> QED BY <1>0, <2>1, <2>2 DEF EmulatorTypes
<1>3. CASE ReturnResult(e)
  <2> DEFINE q == ResultOf(e, FALSE)
  <2>1. /\ state[e] = "playing" /\ state' = [state EXCEPT ![e] = "waiting"]
        /\ work' = [work EXCEPT ![e] = NoWork] /\ requests' = requests \cup {q}
        /\ UNCHANGED replies
    BY <1>3 DEF ReturnResult
  <2>2. q.body.work = work[e]
    BY DEF ResultOf
  <2> HIDE DEF q
  <2> QED BY <1>0, <2>1, <2>2 DEF EmulatorTypes
<1>4. ASSUME NEW inFlight, Relaunch(e, inFlight),
             \A q \in inFlight : q \in requests \/ (state[e] = "playing" /\ q.body.work = work[e])
      PROVE  InFlight(w)
  <2>1. /\ state' = [state EXCEPT ![e] = "idle"] /\ work' = [work EXCEPT ![e] = NoWork]
        /\ requests' = inFlight /\ replies' \subseteq replies
    BY <1>4 DEF Relaunch
  <2> QED BY <1>0, <1>4, <2>1 DEF EmulatorTypes
<1>5. CASE ReturnAndExit(e, serverUp)
  <2>1. state[e] = "playing" /\ ResultOf(e, TRUE).body.work = work[e]
    BY <1>5 DEF ReturnAndExit, ResultOf
  <2>2. Relaunch(e, requests \cup {ResultOf(e, TRUE)}) \/ Relaunch(e, requests)
    BY <1>5 DEF ReturnAndExit
  <2>3. CASE Relaunch(e, requests \cup {ResultOf(e, TRUE)})
    BY <1>4, <2>1, <2>3
  <2>4. CASE Relaunch(e, requests)
    BY <1>4, <2>4
  <2> QED BY <2>2, <2>3, <2>4
<1>6. CASE KillEmulator(e)
  <2>1. \/ Relaunch(e, requests)
        \/ Relaunch(e, {q \in requests : q.from # Identity(e)})
    BY <1>6 DEF KillEmulator, Kill
  <2> QED BY <1>4, <2>1
<1> QED
  BY <1>1, <1>2, <1>3, <1>5, <1>6 DEF EmulatorTurn, EmulatorStep

\* Jobs in flight fit.
LEMMA InFlightFits ==
  ASSUME DInv, NEW w, InFlight(w)
  PROVE  Fits(w, lineage)
BY DEF DInv, FlightInv, InFlight

\* The pace is kept.
LEMMA PaceKept ==
  ASSUME MaxCrashes = 0, StopGeneration > 0, DInv, Paced, [Next]_vars
  PROVE  Paced'
<1>1. /\ crashes = 0 /\ PoolInv /\ generation \in Nat /\ StopGeneration \in Int
      /\ lineage \in Lineage
  BY ServerAssumption DEF DInv, SInv, IInv, TypeOK
<1>2. CASE Server
  <2>1. ServerStep /\ UNCHANGED <<state, work, requests, replies>>
    BY <1>2 DEF Server, emulatorVars
  <2>2. CASE PrepareNext
    <3>1. phase' = "wait" /\ UNCHANGED <<generation, lastGeneration>> /\ phase = "prepare"
      BY <2>2 DEF PrepareNext, PrepareJob, pool
    <3> QED BY <3>1 DEF Paced
  <2>3. CASE PrepareNewGeneration
    <3>1. /\ phase' = "wait" /\ phase = "prepare" /\ generation' = generation + 1
          /\ lastGeneration' = lastGeneration
      BY <2>3 DEF PrepareNewGeneration, PrepareJob
    <3>2. ASSUME NEW w, InFlight(w)' PROVE w.generation # generation'
      <4>1. InFlight(w)
        BY <2>1, <3>2 DEF InFlight
      <4>2. /\ w.generation = Len(w.network.lineage) /\ w \in Work
            /\ Len(w.network.lineage) <= Len(lineage)
        BY <1>1, <4>1, InFlightFits DEF Fits, Ancestor
      <4>3. w.generation \in Nat /\ generation = Len(lineage)
        BY <1>1, <4>2 DEF Work, PoolInv
      <4> QED BY <1>1, <3>1, <4>2, <4>3
    <3>3. lastGeneration' # generation'
      BY <1>1, <3>1 DEF Paced
    <3> QED BY <3>1, <3>2, <3>3 DEF Paced
  <2>4. CASE CheckGeneration
    <3>1. PICK other \in OtherStops :
            phase' = IF (StopGeneration > 0 /\ generation >= StopGeneration) \/ other
                     THEN "finished" ELSE "prepare"
      BY <2>4 DEF CheckGeneration
    <3>2. lastGeneration' = generation /\ generation' = generation
      BY <2>4 DEF CheckGeneration, pool
    <3>3. phase' = "prepare" => ~ (generation >= StopGeneration)
      BY <3>1
    <3>4. phase' # "wait"
      BY <3>1
    <3> QED BY <1>1, <3>2, <3>3, <3>4 DEF Paced
  <2>5. CASE Restart
    BY <1>1, <2>5 DEF Restart, PoolInv
  <2> QED BY <2>1, <2>2, <2>3, <2>4, <2>5 DEF ServerStep
<1>3. CASE Serve
  <2>1. PICK q \in requests : Receive(q.body)
    BY <1>3 DEF Serve
  <2>2. /\ phase = "wait" /\ phase' = NextPhase /\ UNCHANGED <<generation, lastGeneration>>
    BY <2>1 DEF Receive, pool
  <2> QED BY <2>2 DEF Paced, NextPhase
<1>4. CASE ServerCrash
  <2>1. crashes < MaxCrashes
    BY <1>4 DEF ServerCrash, Crash
  <2> QED BY <1>1, <2>1
<1>5. ASSUME NEW e \in Emulators, EmulatorTurn(e) \/ KillEmulator(e) PROVE Paced'
  <2>1. UNCHANGED <<phase, generation, lastGeneration>>
    BY <1>5 DEF EmulatorTurn, KillEmulator, serverVars, pool
  <2>2. \A w : InFlight(w)' => InFlight(w)
    BY <1>5, NothingNewInFlight
  <2> QED BY <2>1, <2>2 DEF Paced
<1>6. CASE UNCHANGED vars
  <2>1. UNCHANGED <<phase, generation, lastGeneration, state, work, requests, replies>>
    BY <1>6 DEF vars, serverVars, emulatorVars, pool
  <2> QED BY <2>1 DEF Paced, InFlight
<1> QED
  BY <1>2, <1>3, <1>4, <1>5, <1>6 DEF Next, Over

\* A fresh result is a step of Evaluation.
LEMMA ScoreRefines ==
  ASSUME DInv, DInv', Paced, crashes = 0, crashes' = 0, NEW q \in requests,
         Receive(q.body), q.body.kind = "result", IsFresh(q.body)
  PROVE  Eval!Score
<1> DEFINE r == q.body
           g == r.work.genome
           new == ValidResultSet(r)
<1>1. r \in Result /\ Fits(r.work, lineage)
  BY DEF DInv, FlightInv, Ask
<1>2. /\ ScoreResult(r) /\ phase = "wait"
      /\ UNCHANGED <<generation, layout, lineage>>
  BY DEF Receive, pool
<1>3. /\ g \in Genomes /\ g \in Members(layout)
      /\ new \in SUBSET Levels /\ new # {} /\ new \cap done[g] = {}
      /\ done \in [Genomes -> SUBSET Levels]
      /\ layout \in Layouts
  BY <1>1 DEF IsFresh, Result, Work, ValidResultSet, DInv, SInv, IInv, TypeOK
<1>4. done' = [done EXCEPT ![g] = done[g] \cup new]
  BY <1>2 DEF ScoreResult
<1>5. generation < StopGeneration
  <2>1. InFlight(r.work)
    BY DEF InFlight
  <2>2. r.work.generation = generation
    BY DEF IsFresh
  <2> QED BY <1>2, <2>1, <2>2 DEF Paced
<1> HIDE DEF r, g, new
<1>6. PICK i \in 1..Population : layout[i] = g
  BY <1>3 DEF Members
<1>7. /\ layout \in [1..Population -> Genomes]
      /\ \A j \in 1..Population : layout[j] = g => j = i
  BY <1>3, <1>6 DEF Layouts
<1>8. Evaluated = {p \in (1..Population) \X Levels : p[2] \in done[layout[p[1]]]}
  BY EvaluatedIsScored
<1>9. Evaluated' = {p \in (1..Population) \X Levels : p[2] \in done'[layout[p[1]]]}
  BY <1>2, EvaluatedIsScoredNext
<1>10. Evaluated \cap ({i} \X new) = {}
  BY <1>3, <1>6, <1>8
<1>11. Evaluated' = Evaluated \cup ({i} \X new)
  <2>1. ASSUME NEW j \in 1..Population, NEW l \in Levels
        PROVE  l \in done'[layout[j]] <=> (l \in done[layout[j]] \/ (j = i /\ l \in new))
    <3>1. CASE j = i
      BY <1>3, <1>4, <1>6, <3>1
    <3>2. CASE j # i
      <4>1. layout[j] # g /\ layout[j] \in Genomes
        BY <1>7, <3>2
      <4> QED BY <1>3, <1>4, <3>2, <4>1
    <3> QED BY <3>1, <3>2
  <2>2. \A p \in (1..Population) \X Levels :
          p \in {i} \X new <=> (p[1] = i /\ p[2] \in new)
    OBVIOUS
  <2>3. ({i} \X new) \subseteq (1..Population) \X Levels
    BY <1>3
  <2> QED BY <1>8, <1>9, <2>1, <2>2, <2>3
<1>12. new \in (SUBSET Levels) \ {{}} /\ UNCHANGED generation
  BY <1>2, <1>3
<1>13. \E j \in 1..Population, ls \in (SUBSET Levels) \ {{}} :
         /\ Evaluated \cap ({j} \X ls) = {}
         /\ Evaluated' = Evaluated \cup ({j} \X ls)
  BY <1>10, <1>11, <1>12, Zenon
<1> QED
  BY <1>5, <1>12, <1>13, Zenon DEF Eval!Score

\* The next pool is bred when everything is evaluated, with nothing scored.
LEMMA AdvanceRefines ==
  ASSUME DInv, Paced, crashes = 0, PrepareNewGeneration
  PROVE  Eval!Advance
<1>1. /\ phase = "prepare" /\ incompleteJobCount = 0
      /\ generation' = generation + 1 /\ layout' \in Layouts /\ fitness' = NoPlays
  BY DEF PrepareNewGeneration
<1>2. generation < StopGeneration
  BY <1>1 DEF Paced
<1>3. layout \in Layouts /\ incompleteJobCount = Cardinality(OpenGenomes(layout, done))
  BY DEF DInv, SInv, IInv, TypeOK, CounterExact, OpenGenomes
<1>4. OpenGenomes(layout, done) = {}
  BY <1>1, <1>3, OpenGenomesCount, FS_EmptySet
<1>5. ASSUME NEW i \in 1..Population PROVE done[layout[i]] = Levels
  BY <1>4 DEF OpenGenomes, Members
<1>6. Evaluated = {p \in (1..Population) \X Levels : p[2] \in done[layout[p[1]]]}
  BY EvaluatedIsScored
<1>7. \A p \in (1..Population) \X Levels : p[1] \in 1..Population /\ p[2] \in Levels
  OBVIOUS
<1>8. Evaluated = Eval!Everything
  BY <1>5, <1>6, <1>7 DEF Eval!Everything
<1>9. Evaluated' = {}
  <2>1. ASSUME NEW i \in 1..Population, NEW l \in Levels
        PROVE  fitness'[layout'[i]][l] = << >>
    <3>1. layout'[i] \in Genomes
      BY <1>1 DEF Layouts
    <3> QED BY <1>1, <3>1 DEF NoPlays
  <2>2. \A x : << x >> # << >>
    OBVIOUS
  <2> QED BY <2>1, <2>2 DEF Evaluated
<1> QED
  BY <1>1, <1>2, <1>8, <1>9 DEF Eval!Advance

\* Every step is a step of Evaluation or none.
LEMMA EvaluationStep ==
  ASSUME MaxCrashes = 0, DInv, DInv', Paced, [Next]_vars
  PROVE  Eval!Score \/ Eval!Advance \/ UNCHANGED Eval!vars
<1>1. crashes = 0 /\ crashes' = 0 /\ PoolInv
  BY DEF DInv, SInv, IInv, TypeOK
<1>2. CASE UNCHANGED <<generation, layout, lineage, fitness>>
  BY <1>2, NoEvaluation
<1>3. CASE Server
  <2>1. CASE PrepareNewGeneration
    BY <1>1, <2>1, AdvanceRefines
  <2>2. CASE Restart
    BY <1>1, <2>2 DEF Restart, PoolInv
  <2>3. CASE PrepareNext
    BY <1>2, <2>3 DEF PrepareNext, pool, scores
  <2>4. CASE CheckGeneration
    BY <1>2, <2>4 DEF CheckGeneration, pool, scores
  <2> QED BY <1>3, <2>1, <2>2, <2>3, <2>4 DEF Server, ServerStep
<1>4. CASE Serve
  <2>1. PICK q \in requests : Receive(q.body)
    BY <1>4 DEF Serve
  <2>2. CASE q.body.kind = "result" /\ IsFresh(q.body)
    BY <1>1, <2>1, <2>2, ScoreRefines
  <2>3. CASE ~ (q.body.kind = "result" /\ IsFresh(q.body))
    BY <1>2, <2>1, <2>3 DEF Receive, pool, scores
  <2> QED BY <2>2, <2>3
<1>5. CASE ServerCrash
  <2>1. crashes < MaxCrashes
    BY <1>5 DEF ServerCrash, Crash
  <2> QED BY <1>1, <2>1
<1>6. CASE \E e \in Emulators : EmulatorTurn(e) \/ KillEmulator(e)
  BY <1>2, <1>6 DEF EmulatorTurn, KillEmulator, serverVars, pool, scores
<1>7. CASE UNCHANGED vars
  BY <1>2, <1>7 DEF vars, serverVars, pool, scores
<1> QED
  BY <1>3, <1>4, <1>5, <1>6, <1>7 DEF Next, Over

\* Distributed training implements Evaluation while the server lives, whoever
\* exits, hangs or is killed: no level is scored twice or by another network,
\* and pools follow one another complete.
THEOREM TrainingEvaluates ==
  ASSUME MaxCrashes = 0, StopGeneration > 0
  PROVE  SafetySpec => EvaluatesInOrder
<1>1. Init => Paced /\ Eval!Init
  <2> SUFFICES ASSUME Init PROVE Paced /\ Eval!Init
    OBVIOUS
  <2>1. /\ phase = "prepare" /\ generation = 0 /\ lastGeneration = 0
        /\ layout = FirstLayout /\ done = Unscored /\ crashes = 0
    BY DEF Init, ServerInit
  <2>2. Paced
    BY <2>1, ServerAssumption DEF Paced
  <2>3. DInv
    BY TrainingInit
  <2>4. Evaluated = {}
    <3>1. Evaluated = {p \in (1..Population) \X Levels : p[2] \in done[layout[p[1]]]}
      BY <2>1, <2>3, EvaluatedIsScored
    <3>2. \A i \in 1..Population : done[layout[i]] = {}
      BY <2>1, ServerAssumption DEF Unscored, Layouts
    <3>3. \A p \in (1..Population) \X Levels : p[1] \in 1..Population
      OBVIOUS
    <3> QED BY <3>1, <3>2, <3>3
  <2> QED BY <2>1, <2>2, <2>4 DEF Eval!Init
<1>2. DInv /\ Paced /\ [Next]_vars => Paced'
  BY PaceKept
<1>3. DInv /\ DInv' /\ Paced /\ [Next]_vars => [Eval!Next]_(Eval!vars)
  BY EvaluationStep DEF Eval!Next
<1> QED
  BY <1>1, <1>2, <1>3, TrainingInvariant, PTL DEF SafetySpec, EvaluatesInOrder

-----------------------------------------------------------------------------
(* The clients' credit *)
\* How many levels each genome of S is scored for.
Counts(scored, S) == [g \in S |-> Cardinality(scored[g])]

\* The levels clients are credited with.
Credit(levels) == SumOver(levels, Clients)

\* The levels scored in gen whole generations and in the one under way.
Whole(gen) == gen * Population * Cardinality(Levels)

Scored(scored, lay) == SumOver(Counts(scored, Members(lay)), Members(lay))

\* A backup is made after the first result of its generation, and a server that
\* starts from it plays that generation anew: from then on clients have credit
\* for more than was scored, but never for less.
CreditCovers == Credit(levelsPlayed) >= Whole(generation) + Scored(done, layout)

CreditInv ==
  /\ CreditCovers
  /\ crashes = 0 => Credit(levelsPlayed) = Whole(generation) + Scored(done, layout)
  /\ saved # NoBackup => Credit(saved.levelsPlayed) >= Whole(saved.generation)

\* The levels of a generation are a number.
LEMMA WholeIs ==
  /\ Cardinality(Levels) \in Nat
  /\ Whole(0) = 0
  /\ \A gen \in Nat : /\ Whole(gen) \in Nat
                      /\ Whole(gen + 1) = Whole(gen) + Population * Cardinality(Levels)
<1>1. Population \in Nat /\ Cardinality(Levels) \in Nat
  BY PopulationAssumption, LevelsAssumption, FS_CardinalityType
<1>2. \A a, b, c \in Nat : a * b * c \in Nat /\ (a + 1) * b * c = a * b * c + b * c
  OBVIOUS
<1>3. \A b, c \in Nat : 0 * b * c = 0
  OBVIOUS
<1> QED
  BY <1>1, <1>2, <1>3 DEF Whole

\* The sum of CreditConserved is that of Scored.
LEMMA CountsSum ==
  ASSUME NEW S, IsFiniteSet(S), NEW scored, \A g \in S : Cardinality(scored[g]) \in Int
  PROVE  MapThenSumSet(LAMBDA g : Cardinality(scored[g]), S) = SumOver(Counts(scored, S), S)
<1> DEFINE w == Counts(scored, S)
           Running(f) == f = [s \in SUBSET S |->
                                IF s = {} THEN 0
                                ELSE Cardinality(scored[Pick(s)]) + f[Rest(s)]]
           sum == CHOOSE f : Running(f)
<1>1. \A g \in S : w[g] = Cardinality(scored[g]) /\ w[g] \in Int
  BY DEF Counts
<1>2. \A s \in SUBSET S : s # {} => w[Pick(s)] = Cardinality(scored[Pick(s)])
  BY <1>1, PickIs DEF Counts
<1> HIDE DEF w
<1>3. \A f : Sums(f, w, S) <=> Running(f)
  <2> TAKE f
  <2>1. [s \in SUBSET S |-> IF s = {} THEN 0 ELSE w[Pick(s)] + f[Rest(s)]]
          = [s \in SUBSET S |-> IF s = {} THEN 0
                                ELSE Cardinality(scored[Pick(s)]) + f[Rest(s)]]
    BY <1>2
  <2> QED
    BY <2>1 DEF Sums
<1>4. PICK f : Running(f)
  BY <1>1, <1>3, SumsExist
<1>5. Running(sum)
  <2> HIDE DEF Running
  <2> QED
    BY <1>4
<1>6. MapThenSumSet(LAMBDA g : Cardinality(scored[g]), S) = sum[S]
  BY DEF MapThenSumSet, MapThenFoldSet, Pick, Rest
<1> HIDE DEF sum
<1>7. SumOver(w, S) = sum[S]
  <2>1. Sums(sum, w, S) /\ S \in SUBSET S
    BY <1>3, <1>5
  <2> QED
    BY <1>1, <2>1, SumOverIs
<1> QED
  BY <1>6, <1>7 DEF w

\* CreditConserved, in these terms.
LEMMA CreditMeans ==
  ASSUME IInv
  PROVE  CreditConserved <=> Credit(levelsPlayed) = Whole(generation) + Scored(done, layout)
<1>1. IsFiniteSet(Members(layout)) /\ Members(layout) \in SUBSET Genomes
  BY MembersCount DEF IInv, TypeOK
<1>2. \A g \in Members(layout) : Cardinality(done[g]) \in Int
  <2> TAKE g \in Members(layout)
  <2>1. done[g] \in SUBSET Levels
    BY <1>1 DEF IInv, TypeOK
  <2> QED
    BY <2>1, LevelsAssumption, FS_Subset, FS_CardinalityType
<1>3. MapThenSumSet(LAMBDA g : Cardinality(done[g]), Members(layout)) = Scored(done, layout)
  BY <1>1, <1>2, CountsSum DEF Scored
<1>4. CreditConserved <=> SumOver(levelsPlayed, Clients)
         = generation * Population * Cardinality(Levels)
             + MapThenSumSet(LAMBDA g : Cardinality(done[g]), Members(layout))
  BY DEF CreditConserved, SumOver
<1> QED
  BY <1>3, <1>4 DEF Credit, Whole

\* The types the sums need.
LEMMA CreditTypes ==
  ASSUME IInv
  PROVE  /\ IsFiniteSet(Clients) /\ IsFiniteSet(Members(layout))
         /\ Members(layout) \in SUBSET Genomes
         /\ Cardinality(Members(layout)) = Population /\ Population \in Nat
         /\ \A c \in Clients : levelsPlayed[c] \in Int
         /\ \A g \in Members(layout) : /\ done[g] \in SUBSET Levels
                                       /\ IsFiniteSet(done[g])
                                       /\ Cardinality(done[g]) \in Int
         /\ Credit(levelsPlayed) \in Int /\ Scored(done, layout) \in Int
         /\ generation \in Nat
<1>1. /\ IsFiniteSet(Clients) /\ IsFiniteSet(Members(layout))
      /\ Members(layout) \in SUBSET Genomes
      /\ Cardinality(Members(layout)) = Population /\ Population \in Nat
      /\ generation \in Nat
  BY MembersCount, ServerAssumption, PopulationAssumption DEF IInv, TypeOK
<1>2. \A c \in Clients : levelsPlayed[c] \in Int
  BY DEF IInv, TypeOK
<1>3. \A g \in Members(layout) : /\ done[g] \in SUBSET Levels
                                 /\ IsFiniteSet(done[g])
                                 /\ Cardinality(done[g]) \in Int
  <2> TAKE g \in Members(layout)
  <2>1. done[g] \in SUBSET Levels
    BY <1>1 DEF IInv, TypeOK
  <2> QED
    BY <2>1, LevelsAssumption, FS_Subset, FS_CardinalityType
<1>4. Credit(levelsPlayed) \in Int
  BY <1>1, <1>2, SumEquation DEF Credit
<1>5. Scored(done, layout) \in Int
  <2>1. \A g \in Members(layout) : Counts(done, Members(layout))[g] \in Int
    BY <1>3 DEF Counts
  <2> QED
    BY <1>1, <2>1, SumEquation DEF Scored
<1> QED
  BY <1>1, <1>2, <1>3, <1>4, <1>5

\* Nothing is scored when a generation begins, and nobody has credit when an
\* experiment does.
LEMMA NothingCounted ==
  /\ \A lay \in Layouts : Scored(Unscored, lay) = 0
  /\ Credit([c \in Clients |-> 0]) = 0
<1>1. ASSUME NEW lay \in Layouts PROVE Scored(Unscored, lay) = 0
  <2>1. IsFiniteSet(Members(lay)) /\ Members(lay) \in SUBSET Genomes
    BY MembersCount
  <2>2. \A g \in Members(lay) : Counts(Unscored, Members(lay))[g] = 0
    BY <2>1, FS_EmptySet DEF Counts, Unscored
  <2>3. Scored(Unscored, lay) = 0 * Cardinality(Members(lay))
    BY <2>1, <2>2, SumConstant DEF Scored
  <2> QED
    BY <2>1, <2>3, FS_CardinalityType
<1>2. Credit([c \in Clients |-> 0]) = 0
  <2> DEFINE zero == [c \in Clients |-> 0]
  <2>1. IsFiniteSet(Clients) /\ \A c \in Clients : zero[c] = 0
    BY ServerAssumption
  <2> HIDE DEF zero
  <2>2. Credit(zero) = 0 * Cardinality(Clients)
    BY <2>1, SumConstant DEF Credit
  <2>3. Credit(zero) = 0
    BY <2>1, <2>2, FS_CardinalityType
  <2> QED
    BY <2>3 DEF zero
<1> QED
  BY <1>1, <1>2

\* When no genome is incomplete, every level of the generation is scored.
LEMMA AllCounted ==
  ASSUME IInv, incompleteJobCount = 0
  PROVE  Scored(done, layout) = Population * Cardinality(Levels)
<1>1. \A g \in Members(layout) : done[g] = Levels
  <2>1. layout \in Layouts /\ Cardinality(OpenGenomes(layout, done)) = 0
    BY DEF IInv, TypeOK, CounterExact, OpenGenomes
  <2>2. OpenGenomes(layout, done) = {}
    BY <2>1, OpenGenomesCount, FS_EmptySet
  <2> QED
    BY <2>2 DEF OpenGenomes
<1>2. \A g \in Members(layout) : Counts(done, Members(layout))[g] = Cardinality(Levels)
  BY <1>1 DEF Counts
<1>3. Scored(done, layout) = Cardinality(Levels) * Cardinality(Members(layout))
  <2>1. IsFiniteSet(Members(layout)) /\ Cardinality(Levels) \in Int
    BY CreditTypes, WholeIs
  <2> QED
    BY <1>2, <2>1, SumConstant DEF Scored
<1> QED
  BY <1>3, CreditTypes, WholeIs

\* The credit a client is given is what its result adds to the scores.
LEMMA ScoreCredits ==
  ASSUME IInv, NEW r \in Result, IsFresh(r), ScoreResult(r), layout' = layout
  PROVE  \E n \in Nat : /\ Credit(levelsPlayed') = Credit(levelsPlayed) + n
                        /\ Scored(done', layout') = Scored(done, layout) + n
<1> DEFINE g == r.work.genome
           new == ValidResultSet(r)
           M == Members(layout)
           w == Counts(done, M)
           v == Counts(done', M)
<1>1. /\ g \in M /\ r.client \in Clients
      /\ new \in SUBSET Levels /\ new \cap done[g] = {}
      /\ done' = [done EXCEPT ![g] = done[g] \cup new]
      /\ levelsPlayed' = [levelsPlayed EXCEPT ![r.client] = @ + Cardinality(new)]
  BY DEF IsFresh, Result, Work, ValidResultSet, ScoreResult, CreditFor
<1>2. IsFiniteSet(new) /\ Cardinality(new) \in Nat
  BY <1>1, LevelsAssumption, FS_Subset, FS_CardinalityType
<1>3. /\ M \in SUBSET Genomes /\ IsFiniteSet(M) /\ IsFiniteSet(Clients)
      /\ done \in [Genomes -> SUBSET Levels] /\ levelsPlayed \in [Clients -> Nat]
  BY CreditTypes DEF IInv, TypeOK
<1>4. \A a \in M : IsFiniteSet(done[a]) /\ Cardinality(done[a]) \in Int
  BY CreditTypes
<1> HIDE DEF g, new, M
<1>5. Cardinality(done'[g]) = Cardinality(done[g]) + Cardinality(new)
  <2>1. done'[g] = done[g] \cup new
    BY <1>1, <1>3
  <2>2. IsFiniteSet(done[g]) /\ Cardinality(done[g]) \in Int
    BY <1>1, <1>4
  <2>3. Cardinality(done[g] \cup new)
          = Cardinality(done[g]) + Cardinality(new) - Cardinality(done[g] \cap new)
    BY <1>2, <2>2, FS_Union
  <2>4. Cardinality(done[g] \cap new) = 0
    BY <1>1, FS_EmptySet
  <2> QED
    BY <1>2, <2>1, <2>2, <2>3, <2>4
<1>6. \A a \in M : a # g => done'[a] = done[a]
  BY <1>1, <1>3
<1>7. /\ \A a \in M : w[a] \in Int /\ v[a] \in Int
      /\ \A a \in M \ {g} : v[a] = w[a]
      /\ v[g] - w[g] = Cardinality(new)
  <2>1. \A a \in M : w[a] = Cardinality(done[a]) /\ v[a] = Cardinality(done'[a])
    BY DEF Counts
  <2> HIDE DEF w, v
  <2>2. \A a \in M : w[a] \in Int
    BY <1>4, <2>1
  <2>3. \A a \in M \ {g} : v[a] = w[a]
    BY <1>6, <2>1
  <2>4. v[g] = w[g] + Cardinality(new)
    BY <1>1, <1>5, <2>1
  <2>5. v[g] \in Int /\ v[g] - w[g] = Cardinality(new)
    BY <1>1, <1>2, <2>2, <2>4
  <2> QED
    BY <2>2, <2>3, <2>5
<1>8. Scored(done', layout') = Scored(done, layout) + Cardinality(new)
  <2>1. Scored(done', layout') = SumOver(v, M) /\ Scored(done, layout) = SumOver(w, M)
    BY DEF Scored, M
  <2> HIDE DEF w, v
  <2>2. SumOver(v, M) = SumOver(w, M) + (v[g] - w[g])
    <3>1. IsFiniteSet(M) /\ g \in M
      BY <1>1, <1>3
    <3> QED
      BY <1>7, <3>1, SumChange
  <2> QED
    BY <1>7, <2>1, <2>2
<1>9. Credit(levelsPlayed') = Credit(levelsPlayed) + Cardinality(new)
  <2> DEFINE c == r.client
             before == levelsPlayed
             after == levelsPlayed'
  <2>1. /\ IsFiniteSet(Clients) /\ c \in Clients
        /\ \A d \in Clients : before[d] \in Int /\ after[d] \in Int
        /\ \A d \in Clients \ {c} : after[d] = before[d]
        /\ after[c] - before[c] = Cardinality(new)
    BY <1>1, <1>2, <1>3
  <2>2. Credit(levelsPlayed') = SumOver(after, Clients)
        /\ Credit(levelsPlayed) = SumOver(before, Clients)
    BY DEF Credit
  <2> HIDE DEF c, before, after
  <2>3. SumOver(after, Clients) = SumOver(before, Clients) + (after[c] - before[c])
    BY <2>1, SumChange
  <2> QED
    BY <2>1, <2>2, <2>3
<1> QED
  BY <1>2, <1>8, <1>9

\* Every step of the server keeps it, whatever message arrives.
LEMMA CreditKept ==
  ASSUME SInv, CreditInv, ServerNext \/ UNCHANGED serverVars
  PROVE  CreditInv'
<1>1. /\ IInv /\ crashes \in Nat /\ crashes' \in Nat
      /\ phase = "down" => crashes > 0
  <2>1. IInv'
    BY NextInvariant DEF SInv
  <2> QED
    BY <2>1, ServerAssumption DEF SInv, PoolInv, IInv, TypeOK
<1>2. ASSUME UNCHANGED <<generation, layout, done, levelsPlayed, saved>>, crashes' = 0 => crashes = 0
      PROVE  CreditInv'
  BY <1>2 DEF CreditInv, CreditCovers
<1>3. CASE PrepareNext
  BY <1>2, <1>3 DEF PrepareNext, pool, scores, stats
<1>4. CASE PrepareNewGeneration
  <2>1. /\ incompleteJobCount = 0 /\ generation' = generation + 1 /\ layout' \in Layouts
        /\ done' = Unscored /\ UNCHANGED <<levelsPlayed, saved, crashes>>
    BY <1>4 DEF PrepareNewGeneration, stats
  <2>2. Scored(done', layout') = 0
    BY <2>1, NothingCounted
  <2>3. Scored(done, layout) = Population * Cardinality(Levels)
    BY <1>1, <2>1, AllCounted
  <2>4. Whole(generation') = Whole(generation) + Population * Cardinality(Levels)
    BY <1>1, <2>1, CreditTypes, WholeIs
  <2>5. Whole(generation') + Scored(done', layout') = Whole(generation) + Scored(done, layout)
    BY <1>1, <2>1, <2>2, <2>3, <2>4, CreditTypes, WholeIs
  <2> QED
    BY <2>1, <2>5 DEF CreditInv, CreditCovers
<1>5. CASE CheckGeneration
  <2>1. /\ UNCHANGED <<generation, layout, done, levelsPlayed, crashes>>
        /\ \/ saved' = saved
           \/ /\ saved'.generation = generation /\ saved'.levelsPlayed = levelsPlayed
    BY <1>5 DEF CheckGeneration, pool, scores, stats
  <2>2. Credit(levelsPlayed) >= Whole(generation)
    <3>1. Scored(done, layout) >= 0
      <4>1. \A g \in Members(layout) : Counts(done, Members(layout))[g] \in Nat
        <5>1. \A g \in Members(layout) : Cardinality(done[g]) \in Nat
          BY <1>1, CreditTypes, FS_CardinalityType
        <5> QED
          BY <5>1 DEF Counts
      <4>2. SumOver(Counts(done, Members(layout)), Members(layout)) \in Nat
        BY <1>1, <4>1, CreditTypes, SumAtLeast
      <4> QED
        BY <4>2 DEF Scored
    <3> QED
      BY <1>1, <3>1, CreditTypes, WholeIs DEF CreditInv, CreditCovers
  <2> QED
    BY <2>1, <2>2 DEF CreditInv, CreditCovers
<1>6. CASE Restart
  <2>1. /\ generation' = RestartPool.generation /\ layout' = RestartPool.layout
        /\ levelsPlayed' = RestartPool.levelsPlayed
        /\ done' = Unscored /\ UNCHANGED <<saved, crashes>> /\ crashes > 0
    BY <1>1, <1>6 DEF Restart
  <2>2. RestartPool.layout \in Layouts /\ RestartPool.generation \in Nat
    BY <1>1, ServerAssumption DEF RestartPool, FreshStart, IInv, TypeOK, Backup
  <2>3. Credit(levelsPlayed') >= Whole(generation')
    <3>1. CASE saved = NoBackup
      <4>1. levelsPlayed' = [c \in Clients |-> 0] /\ generation' = 0
        BY <2>1, <3>1 DEF RestartPool, FreshStart
      <4> QED
        BY <4>1, NothingCounted, WholeIs
    <3>2. CASE saved # NoBackup
      BY <2>1, <3>2 DEF RestartPool, CreditInv
    <3> QED
      BY <3>1, <3>2
  <2>4. Scored(done', layout') = 0
    BY <2>1, <2>2, NothingCounted
  <2>5. Whole(generation') + Scored(done', layout') = Whole(generation')
    BY <2>1, <2>2, <2>4, WholeIs
  <2> QED
    BY <1>1, <2>1, <2>3, <2>5 DEF CreditInv, CreditCovers
<1>7. ASSUME NEW m \in Ask \cup Result, Receive(m)
      PROVE  CreditInv'
  <2>1. UNCHANGED <<generation, layout, lineage, saved, crashes>>
    BY <1>7 DEF Receive, pool
  <2>2. CASE ~(m.kind = "result" /\ IsFresh(m))
    BY <1>2, <1>7, <2>1, <2>2 DEF Receive, scores
  <2>3. CASE m.kind = "result" /\ IsFresh(m)
    <3>1. m \in Result /\ ScoreResult(m)
      BY <1>7, <2>3 DEF Ask, Receive
    <3>2. PICK n \in Nat : /\ Credit(levelsPlayed') = Credit(levelsPlayed) + n
                           /\ Scored(done', layout') = Scored(done, layout) + n
      BY <1>1, <2>1, <2>3, <3>1, ScoreCredits
    <3>3. /\ Credit(levelsPlayed) \in Int /\ Scored(done, layout) \in Int
          /\ Whole(generation) \in Int
      BY <1>1, CreditTypes, WholeIs
    <3> QED
      BY <2>1, <3>2, <3>3 DEF CreditInv, CreditCovers
  <2> QED
    BY <2>2, <2>3
<1>8. CASE Crash
  BY <1>1, <1>2, <1>8 DEF Crash, pool, scores, stats
<1>9. CASE UNCHANGED serverVars
  BY <1>2, <1>9 DEF serverVars, pool, scores, stats
<1> QED
  BY <1>3, <1>4, <1>5, <1>6, <1>7, <1>8, <1>9 DEF ServerNext, ServerStep

\* Nobody has credit at first, and nothing is scored.
LEMMA CreditInit == Init => CreditInv
<1> SUFFICES ASSUME Init PROVE CreditInv
  OBVIOUS
<1>1. /\ layout = FirstLayout /\ done = Unscored /\ generation = 0
      /\ levelsPlayed = [c \in Clients |-> 0] /\ saved = NoBackup
  BY DEF Init, ServerInit
<1>2. Credit(levelsPlayed) = 0 /\ Scored(done, layout) = 0 /\ Whole(generation) = 0
  BY <1>1, NothingCounted, WholeIs, ServerAssumption
<1> QED
  BY <1>1, <1>2 DEF CreditInv, CreditCovers

\* To the server a step of training is a step of its own, or none.
LEMMA TrainingStepIsServers ==
  ASSUME DInv, [Next]_vars
  PROVE  ServerNext \/ UNCHANGED serverVars
<1>1. CASE Server
  BY <1>1 DEF Server, ServerNext
<1>2. CASE Serve
  <2>1. PICK q \in requests : Receive(q.body)
    BY <1>2 DEF Serve
  <2>2. q.body \in Ask \cup Result
    BY DEF DInv, FlightInv
  <2> QED
    BY <2>1, <2>2 DEF ServerNext
<1>3. CASE ServerCrash
  BY <1>3 DEF ServerCrash, ServerNext
<1>4. CASE \E e \in Emulators : EmulatorTurn(e) \/ KillEmulator(e)
  BY <1>4 DEF EmulatorTurn, KillEmulator
<1>5. CASE Over \/ UNCHANGED vars
  BY <1>5 DEF Over, vars
<1> QED
  BY <1>1, <1>2, <1>3, <1>4, <1>5 DEF Next

\* However often the server dies, the clients have credit for every level that
\* was scored.
THEOREM TrainingCreditCovers == SafetySpec => [](CreditInv /\ CreditCovers)
<1>1. DInv /\ CreditInv /\ [Next]_vars => CreditInv'
  BY TrainingStepIsServers, CreditKept DEF DInv
<1>2. CreditInv => CreditCovers
  BY DEF CreditInv
<1> QED
  BY <1>1, <1>2, CreditInit, TrainingInvariant, PTL DEF SafetySpec

\* While the server lives, each level scored is credited to one client, and
\* nothing else is.
THEOREM TrainingCredit ==
  ASSUME MaxCrashes = 0
  PROVE  SafetySpec => []CreditConserved
<1>1. DInv /\ CreditInv => CreditConserved
  <2> SUFFICES ASSUME DInv, CreditInv PROVE CreditConserved
    OBVIOUS
  <2>1. IInv /\ crashes = 0
    BY DEF DInv, SInv, IInv, TypeOK
  <2> QED
    BY <2>1, CreditMeans DEF CreditInv
<1> QED
  BY <1>1, TrainingInvariant, TrainingCreditCovers, PTL
=============================================================================
