-------------------------- MODULE TcpTrainingProofs --------------------------
(***************************************************************************)
(* The TCP server and its emulators, whoever dies or vanishes: types, that *)
(* every job in flight carries the network of the genome it names,         *)
(* that a job is sent again only when every other open job has been sent,  *)
(* that the server evaluates one pool after the other, and that server and *)
(* emulators never wait for each other.                                    *)
(***************************************************************************)
EXTENDS TcpTraining, JobQueueProofs, SequenceTheorems

Address == [address: Genomes, network: Network]

\* The network of a job is that of its genome.
Matching(w) == w.network = [generation |-> w.generation, genome |-> w.genome]

\* The networks of a cache are those of one generation.
OfGeneration(cache, n) ==
  \A c \in cache : c.network = [generation |-> n, genome |-> c.address]

WorksMatch(held) == \A e \in Emulators : held[e] # NoWork => Matching(held[e])

LinesMatch(queue) ==
  \A i \in 1..Len(queue) : queue[i].line \in Result => Matching(queue[i].line.work)

(***************************************************************************)
(* Job m comes before job z when the search goes on from job i, cyclically *)
(***************************************************************************)
Before(i, m, z) ==
  \/ i < m /\ m < z
  \/ i < m /\ z <= i
  \/ m < z /\ z <= i

\* On the way from job i to an open job never sent there are only such jobs.
UnsentAhead(q, counts, i, scored) ==
  \A z, m \in OpenJobs(q, scored) :
    counts[z] = 0 /\ Before(i, m, z) => counts[m] = 0

\* A job sent more than once: no open job was never sent.
AllSent(q, counts, i, scored) ==
  i # 0 /\ counts[i] > SendWeight => \A n \in OpenJobs(q, scored) : counts[n] > 0

\* Job i is the first open one after the place from, cyclically.
FirstAfter(q, from, scored, i) ==
  /\ i \in OpenJobs(q, scored)
  /\ \/ i > from /\ \A m \in OpenJobs(q, scored) : m > from => i <= m
     \/ \A m \in OpenJobs(q, scored) : m <= from /\ i <= m

\* Queue e is queue q with k jobs in the place of job i...
JobsSplit(q, i, k, e) ==
  /\ Len(e) = Len(q) - 1 + k
  /\ \A m \in 1..(i - 1) : e[m] = q[m]
  /\ \A m \in i..(i + k - 1) : e[m].genome = q[i].genome
  /\ \A m \in (i + k)..Len(e) : e[m] = q[m + 1 - k]

\* ...and c are its counts.
CountsSplit(counts, i, k, c) ==
  /\ Len(c) = Len(counts) - 1 + k
  /\ \A m \in 1..(i - 1) : c[m] = counts[m]
  /\ k > 1 => \A m \in i..(i + k - 1) : c[m] = 0
  /\ k = 1 => c[i] = counts[i]
  /\ \A m \in (i + k)..Len(c) : c[m] = counts[m + 1 - k]

\* Counts r are c with the one of job i lowered or raised.
Counted(c, i, r) == r = [c EXCEPT ![i] = CountAfter(c[i])]

\* The inductive invariant: the cache needs to be of this generation for the
\* answers to match, and where the jobs never sent are says which comes next.
TInv ==
  /\ TypeOK
  /\ requests \in Seq(Nat)
  /\ OfGeneration(serializedNetworks, generation)
  /\ WorksMatch(work)
  /\ LinesMatch(backlog)
  /\ UnsentAhead(jobs, requests, index, done)
  /\ AllSent(jobs, requests, index, done)

-----------------------------------------------------------------------------
\* advanceJobsIndex stops at the first open job after the last one sent.
LEMMA NextIndexIsFirst ==
  ASSUME NEW q, NEW index0 \in Nat, NEW scored, Len(q) \in Nat,
         OpenJobs(q, scored) # {},
         NEW i, i = NextIndex(q, index0, scored)
  PROVE  FirstAfter(q, index0, scored, i)
<1> USE DEF FirstAfter
<1> DEFINE ahead == {n \in OpenJobs(q, scored) : n > index0}
           from == IF ahead # {} THEN ahead ELSE OpenJobs(q, scored)
<1>1. from \in SUBSET Nat /\ from # {} /\ from \subseteq OpenJobs(q, scored)
  BY DEF OpenJobs
<1>2. \E n \in from : \A m \in from : n <= m
  <2> HIDE DEF from
  <2> QED BY <1>1, MinimumExists
<1>3. i = CHOOSE n \in from : \A m \in from : n <= m
  BY DEF NextIndex
<1>4. i \in from /\ \A m \in from : i <= m
  <2> HIDE DEF from
  <2> QED BY <1>2, <1>3
<1>5. OpenJobs(q, scored) \in SUBSET Nat
  BY DEF OpenJobs
<1>6. CASE ahead # {}
  <2>1. from = ahead
    BY <1>6
  <2> HIDE DEF from
  <2> QED BY <1>4, <2>1
<1>7. CASE ahead = {}
  <2>1. from = OpenJobs(q, scored)
    BY <1>7
  <2>2. ASSUME NEW m \in OpenJobs(q, scored) PROVE m <= index0
    BY <1>5, <1>7
  <2> HIDE DEF from
  <2> QED BY <1>4, <2>1, <2>2
<1> QED
  BY <1>6, <1>7

\* The parts a job is split into: one or more, of its levels.
LEMMA SplitsOfType ==
  ASSUME NEW q \in Seq(Job), NEW n \in 1..Len(q), NEW active \in Nat,
         NEW open \in Nat, open # 0, NEW parts \in SplitsOf(q, n, active, open)
  PROVE  /\ Len(parts) \in Nat \ {0}
         /\ parts \in [1..Len(parts) -> SUBSET q[n].levels]
         /\ Len(parts) = 1 => parts[1] = q[n].levels
<1> DEFINE factor == SplitFactor(active, open)
<1>1. factor \in Nat
  BY SplitFactorType
<1>2. CASE factor > 1 /\ q[n].levels = Levels
  <2>1. parts \in Partitions(Levels, factor)
    BY <1>2 DEF SplitsOf
  <2>2. Cardinality(Levels) > 1
    <3>1. Cardinality(Levels) \in Nat
      BY LevelsAssumption, FS_CardinalityType
    <3>2. factor <= Cardinality(Levels)
      BY <1>1, <3>1 DEF SplitFactor
    <3> HIDE DEF factor
    <3> QED BY <1>1, <1>2, <3>1, <3>2
  <2>3. PICK k \in Nat : k > 1 /\ parts \in [1..k -> SUBSET Levels]
    <3> HIDE DEF factor
    <3> QED BY <1>1, <1>2, <2>1, <2>2, PartitionsShare
  <2>4. Len(parts) = k
    BY <2>3
  <2> HIDE DEF factor
  <2> QED BY <1>2, <2>3, <2>4
<1>3. CASE ~ (factor > 1 /\ q[n].levels = Levels)
  <2>1. parts = <<q[n].levels>>
    BY <1>3 DEF SplitsOf
  <2> QED BY <2>1
<1> QED
  BY <1>2, <1>3

\* The queue after a split, or after none.
LEMMA ExplodedAny ==
  ASSUME NEW q \in Seq(Job), NEW n \in 1..Len(q), NEW k \in Nat, k >= 1,
         NEW p \in [1..k -> SUBSET q[n].levels],
         k = 1 => p[1] = q[n].levels,
         NEW e, e = Exploded(q, n, p)
  PROVE  e \in Seq(Job) /\ JobsSplit(q, n, k, e)
<1> USE DEF JobsSplit
<1>1. CASE k > 1
  <2>1. /\ e \in Seq(Job)
        /\ Len(e) = Len(q) - 1 + k
        /\ \A m \in 1..(n - 1) : e[m] = q[m]
        /\ \A m \in n..(n + k - 1) :
             e[m] = [genome |-> q[n].genome, levels |-> p[n + k - m]]
        /\ \A m \in (n + k)..Len(e) : e[m] = q[m + 1 - k]
    BY <1>1, ExplodedJobs
  <2>2. ASSUME NEW m \in n..(n + k - 1) PROVE e[m].genome = q[n].genome
    <3>1. e[m] = [genome |-> q[n].genome, levels |-> p[n + k - m]]
      BY <2>1
    <3> QED BY <3>1
  <2> QED BY <2>1, <2>2
<1>2. CASE k = 1
  <2>1. Len(p) = 1
    BY <1>2
  <2>2. /\ Len(q) \in Nat /\ n \in Nat /\ n >= 1 /\ n <= Len(q)
        /\ q \in [1..Len(q) -> Job] /\ q[n] \in Job
    OBVIOUS
  <2>3. [genome |-> q[n].genome, levels |-> q[n].levels] = q[n]
    BY <2>2 DEF Job
  <2> DEFINE at(m) == IF m < n THEN q[m]
                      ELSE IF m < n + 1
                           THEN [genome |-> q[n].genome, levels |-> p[n + 1 - m]]
                           ELSE q[m + 1 - 1]
  <2>4. e = [m \in 1..(Len(q) - 1 + 1) |-> at(m)]
    BY <2>1 DEF Exploded
  <2>5. ASSUME NEW m \in 1..Len(q) PROVE at(m) = q[m]
    <3>1. CASE m < n
      BY <3>1
    <3>2. CASE m = n
      <4>1. n + 1 - m = 1
        BY <3>2, <2>2
      <4>2. at(m) = [genome |-> q[n].genome, levels |-> q[n].levels]
        BY <1>2, <3>2, <4>1, <2>2
      <4> HIDE DEF at
      <4> QED BY <2>3, <3>2, <4>2
    <3>3. CASE m > n
      <4>1. ~ (m < n) /\ ~ (m < n + 1) /\ m + 1 - 1 = m
        BY <3>3, <2>2
      <4> QED BY <4>1
    <3> QED BY <3>1, <3>2, <3>3, <2>2
  <2>6. e = q
    <3>1. Len(q) - 1 + 1 = Len(q)
      BY <2>2
    <3> HIDE DEF at
    <3> QED BY <2>2, <2>4, <2>5, <3>1
  <2>7. \A m \in n..(n + k - 1) : m = n
    BY <1>2, <2>2
  <2>8. \A m \in (n + k)..Len(e) : m + 1 - k = m
    BY <1>2, <2>2
  <2>9. Len(e) = Len(q) - 1 + k
    BY <1>2, <2>2, <2>6
  <2> QED BY <2>6, <2>7, <2>8, <2>9
<1> QED
  BY <1>1, <1>2

\* The counts after a split: those of the other jobs are kept, in their places.
LEMMA CountsAfterSplitType ==
  ASSUME NEW counts \in Seq(Nat), NEW n \in 1..Len(counts), NEW k \in Nat, k >= 1,
         NEW c, c = CountsAfterSplit(counts, n, k)
  PROVE  c \in Seq(Nat) /\ CountsSplit(counts, n, k, c)
<1> USE DEF CountsSplit
<1>1. CASE k = 1
  <2>1. c = counts
    BY <1>1 DEF CountsAfterSplit
  <2>2. \A m \in (n + k)..Len(c) : m + 1 - k = m
    BY <1>1
  <2> QED BY <1>1, <2>1, <2>2
<1>2. CASE k > 1
  <2> DEFINE a == SubSeq(counts, 1, n - 1)
             b == [i \in 1..k |-> 0]
             d == SubSeq(counts, n + 1, Len(counts))
  <2>1. c = (a \o b) \o d
    <3>1. k # 1
      BY <1>2
    <3>2. c = SubSeq(counts, 1, n - 1) \o [i \in 1..k |-> 0]
                \o SubSeq(counts, n + 1, Len(counts))
      BY <3>1, Zenon DEF CountsAfterSplit
    <3> QED BY <3>2, Zenon
  <2>2. a \in Seq(Nat) /\ Len(a) = n - 1 /\ \A m \in 1..(n - 1) : a[m] = counts[m]
    OBVIOUS
  <2>3. b \in Seq(Nat) /\ Len(b) = k /\ \A m \in 1..k : b[m] = 0
    OBVIOUS
  <2>4. /\ d \in Seq(Nat) /\ Len(d) = Len(counts) - n
        /\ \A m \in 1..(Len(counts) - n) : d[m] = counts[n + m]
    <3>1. d \in Seq(Nat) /\ Len(d) = IF n + 1 <= Len(counts) THEN Len(counts) - (n + 1) + 1 ELSE 0
      OBVIOUS
    <3>2. \A m \in 1..(Len(counts) - n) : d[m] = counts[n + 1 + m - 1]
      OBVIOUS
    <3>3. \A m \in 1..(Len(counts) - n) : n + 1 + m - 1 = n + m
      OBVIOUS
    <3> QED BY <3>1, <3>2, <3>3
  <2> HIDE DEF a, b, d
  <2>5. (a \o b) \in Seq(Nat) /\ Len(a \o b) = n - 1 + k
    BY <2>2, <2>3, ConcatProperties
  <2>6. c \in Seq(Nat) /\ Len(c) = Len(counts) - 1 + k
    <3>1. (a \o b) \o d \in Seq(Nat) /\ Len((a \o b) \o d) = Len(a \o b) + Len(d)
      BY <2>4, <2>5, ConcatProperties
    <3> QED BY <2>1, <2>4, <2>5, <3>1
  <2>7. ASSUME NEW m \in 1..(n - 1) PROVE c[m] = counts[m]
    BY <2>1, <2>2, <2>3, <2>4, <2>5
  <2>8. ASSUME NEW m \in n..(n + k - 1) PROVE c[m] = 0
    <3>1. m - (n - 1) \in 1..k /\ m \in 1..(n - 1 + k) /\ ~ (m <= n - 1)
      BY <1>2
    <3>2. (a \o b)[m] = b[m - (n - 1)]
      BY <2>2, <2>3, <3>1
    <3>3. c[m] = (a \o b)[m]
      BY <2>1, <2>4, <2>5, <3>1
    <3> QED BY <2>3, <3>1, <3>2, <3>3
  <2>9. ASSUME NEW m \in (n + k)..Len(c) PROVE c[m] = counts[m + 1 - k]
    <3>1. /\ m - (n - 1 + k) \in 1..(Len(counts) - n) /\ ~ (m <= n - 1 + k)
          /\ n + (m - (n - 1 + k)) = m + 1 - k
          /\ m \in 1..(Len(a \o b) + Len(d))
      BY <1>2, <2>4, <2>5, <2>6
    <3>2. c[m] = d[m - (n - 1 + k)]
      <4>1. ((a \o b) \o d)[m] = IF m <= Len(a \o b) THEN (a \o b)[m] ELSE d[m - Len(a \o b)]
        <5>1. \A s, t \in Seq(Nat) : \A j \in 1..(Len(s) + Len(t)) :
                (s \o t)[j] = IF j <= Len(s) THEN s[j] ELSE t[j - Len(s)]
          BY ConcatProperties
        <5> QED BY <2>4, <2>5, <3>1, <5>1, Zenon
      <4> QED BY <2>1, <2>5, <3>1, <4>1
    <3> QED BY <2>4, <3>1, <3>2
  <2> QED BY <1>2, <2>6, <2>7, <2>8, <2>9
<1> QED
  BY <1>1, <1>2

\* What the search, the split and the count leave of the order: a job just sent
\* is the last, and the parts of a split job are the next.
LEMMA AnswerKeepsOrder ==
  ASSUME NEW q \in Seq(Job), NEW counts \in Seq(Nat), Len(q) = Len(counts),
         NEW from \in 0..Len(q), NEW scored, UnsentAhead(q, counts, from, scored),
         NEW i, FirstAfter(q, from, scored, i),
         NEW k \in Nat, k >= 1,
         NEW e \in Seq(Job), JobsSplit(q, i, k, e),
         NEW c \in Seq(Nat), CountsSplit(counts, i, k, c),
         NEW r, Counted(c, i, r)
  PROVE  /\ i \in 1..Len(e)
         /\ r \in Seq(Nat) /\ Len(r) = Len(e)
         /\ UnsentAhead(e, r, i, scored)
         /\ AllSent(e, r, i, scored)
<1>0. r = [c EXCEPT ![i] = CountAfter(c[i])]
  BY DEF Counted
<1>1. /\ Len(q) \in Nat /\ from \in Nat
      /\ SendWeight \in Nat /\ SendWeight > 0
      /\ RequestLimit \in Nat /\ Decay \in Nat /\ Decay < RequestLimit
  BY TcpAssumption
<1>2. /\ i \in OpenJobs(q, scored)
      /\ \/ i > from /\ \A m \in OpenJobs(q, scored) : m > from => i <= m
         \/ \A m \in OpenJobs(q, scored) : m <= from /\ i <= m
  BY DEF FirstAfter
<1>3. i \in Nat /\ i >= 1 /\ i <= Len(q) /\ i \in 1..Len(q)
  BY <1>1, <1>2 DEF OpenJobs
<1>4. /\ Len(e) = Len(q) - 1 + k
      /\ \A m \in 1..(i - 1) : e[m] = q[m]
      /\ \A m \in i..(i + k - 1) : e[m].genome = q[i].genome
      /\ \A m \in (i + k)..Len(e) : e[m] = q[m + 1 - k]
  BY DEF JobsSplit
<1>5. /\ Len(c) = Len(counts) - 1 + k
      /\ \A m \in 1..(i - 1) : c[m] = counts[m]
      /\ k > 1 => \A m \in i..(i + k - 1) : c[m] = 0
      /\ k = 1 => c[i] = counts[i]
      /\ \A m \in (i + k)..Len(c) : c[m] = counts[m + 1 - k]
  BY DEF CountsSplit
<1>6. /\ i \in 1..Len(e) /\ Len(c) = Len(e) /\ Len(e) \in Nat
      /\ c \in [1..Len(e) -> Nat] /\ c[i] \in Nat
  <2>1. i \in 1..Len(e) /\ Len(c) = Len(e) /\ Len(e) \in Nat
    BY <1>1, <1>3, <1>4, <1>5
  <2>2. c \in [1..Len(c) -> Nat]
    BY <1>5, LenProperties
  <2> QED BY <2>1, <2>2
<1>7. CountAfter(c[i]) \in Nat /\ CountAfter(c[i]) > 0
  BY <1>1, <1>6 DEF CountAfter
<1>8. /\ r \in [1..Len(e) -> Nat] /\ r[i] = CountAfter(c[i])
      /\ \A m \in 1..Len(e) : m # i => r[m] = c[m]
  BY <1>0, <1>6, <1>7
<1>9. r \in Seq(Nat) /\ Len(r) = Len(e)
  BY <1>6, <1>8
\* A job never sent would have been found.
<1>10. ASSUME NEW z \in OpenJobs(q, scored), counts[z] = 0 PROVE counts[i] = 0
  <2>1. z \in Nat
    BY DEF OpenJobs
  <2>2. z = i \/ Before(from, i, z)
    BY <1>1, <1>2, <1>3, <2>1 DEF Before
  <2> QED BY <1>2, <1>10, <2>2 DEF UnsentAhead
\* Where a job that is no part of the one split comes from.
<1>11. ASSUME NEW m \in OpenJobs(e, scored), ~ (m \in i..(i + k - 1))
       PROVE  \E o \in OpenJobs(q, scored) :
                /\ o = IF m < i THEN m ELSE m + 1 - k
                /\ o # i /\ (m < i <=> o < i)
                /\ c[m] = counts[o]
  <2>1. m \in 1..Len(e) /\ scored[e[m].genome] # Levels
    BY DEF OpenJobs
  <2>2. CASE m < i
    <3>1. m \in 1..(i - 1) /\ m \in 1..Len(q)
      BY <1>1, <1>3, <2>1, <2>2
    <3>2. e[m] = q[m] /\ c[m] = counts[m]
      BY <1>4, <1>5, <3>1
    <3>3. m \in OpenJobs(q, scored)
      BY <2>1, <3>1, <3>2 DEF OpenJobs
    <3> QED BY <2>2, <3>2, <3>3, <3>1, <1>3
  <2>3. CASE ~ (m < i)
    <3>1. m \in (i + k)..Len(e) /\ m \in (i + k)..Len(c)
      BY <1>3, <1>6, <1>11, <2>1, <2>3
    <3>2. m + 1 - k \in 1..Len(q) /\ m + 1 - k > i
      BY <1>3, <1>4, <2>1, <3>1
    <3>3. e[m] = q[m + 1 - k] /\ c[m] = counts[m + 1 - k]
      BY <1>4, <1>5, <3>1
    <3>4. m + 1 - k \in OpenJobs(q, scored)
      BY <2>1, <3>2, <3>3 DEF OpenJobs
    <3> QED BY <2>3, <3>2, <3>3, <3>4, <1>3
  <2> QED BY <2>2, <2>3
<1>12. AllSent(e, r, i, scored)
  <2> SUFFICES ASSUME r[i] > SendWeight, NEW n \in OpenJobs(e, scored)
               PROVE  r[n] > 0
    BY DEF AllSent
  <2>1. c[i] # 0
    BY <1>1, <1>8 DEF CountAfter
  <2>2. k = 1 /\ counts[i] # 0
    <3>1. i \in i..(i + k - 1)
      BY <1>3
    <3> QED BY <1>5, <2>1, <3>1
  <2>3. n \in 1..Len(e) /\ n \in Nat
    BY DEF OpenJobs
  <2>4. CASE n = i
    BY <2>4, <1>7, <1>8
  <2>5. CASE n # i
    <3>1. ~ (n \in i..(i + k - 1))
      BY <1>3, <2>2, <2>5
    <3>2. PICK o \in OpenJobs(q, scored) : c[n] = counts[o]
      BY <1>11, <3>1
    <3>3. c[n] # 0
      BY <1>10, <2>2, <3>2
    <3> QED BY <1>6, <1>8, <2>3, <2>5, <3>3
  <2> QED BY <2>4, <2>5
<1>13. UnsentAhead(e, r, i, scored)
  <2> SUFFICES ASSUME NEW z \in OpenJobs(e, scored), NEW m \in OpenJobs(e, scored),
                      r[z] = 0, Before(i, m, z)
               PROVE  r[m] = 0
    BY DEF UnsentAhead
  <2>1. z \in 1..Len(e) /\ m \in 1..Len(e) /\ z \in Nat /\ m \in Nat
    BY DEF OpenJobs
  <2>2. z # i /\ m # i
    BY <1>3, <1>7, <1>8, <2>1 DEF Before
  <2>3. r[z] = c[z] /\ r[m] = c[m]
    BY <1>8, <2>1, <2>2
  <2>4. CASE m \in i..(i + k - 1)
    <3>1. k > 1
      BY <1>3, <2>1, <2>2, <2>4
    <3> QED BY <1>5, <2>3, <2>4, <3>1
  <2>5. CASE ~ (m \in i..(i + k - 1))
    <3>1. ~ (z \in i..(i + k - 1))
      BY <1>3, <2>1, <2>2, <2>5 DEF Before
    <3>2. PICK om \in OpenJobs(q, scored) :
            /\ om = IF m < i THEN m ELSE m + 1 - k
            /\ om # i /\ (m < i <=> om < i)
            /\ c[m] = counts[om]
      BY <1>11, <2>5
    <3>3. PICK oz \in OpenJobs(q, scored) :
            /\ oz = IF z < i THEN z ELSE z + 1 - k
            /\ oz # i /\ (z < i <=> oz < i)
            /\ c[z] = counts[oz]
      BY <1>11, <3>1
    <3>4. om \in Nat /\ oz \in Nat
      BY DEF OpenJobs
    <3>5. Before(i, om, oz)
      BY <1>3, <2>1, <2>2, <3>2, <3>3, <3>4 DEF Before
    <3>6. Before(from, om, oz)
      <4>1. CASE i > from /\ \A x \in OpenJobs(q, scored) : x > from => i <= x
        <5>1. (om > from => i <= om) /\ (oz > from => i <= oz)
          BY <4>1
        <5> QED BY <1>1, <1>3, <3>2, <3>3, <3>4, <3>5, <4>1, <5>1 DEF Before
      <4>2. CASE \A x \in OpenJobs(q, scored) : x <= from /\ i <= x
        <5>1. om <= from /\ oz <= from /\ i <= om /\ i <= oz
          BY <4>2
        <5> QED BY <1>1, <1>3, <3>2, <3>3, <3>4, <3>5, <5>1 DEF Before
      <4> QED BY <1>2, <4>1, <4>2
    <3>7. counts[om] = 0
      BY <2>3, <3>3, <3>6 DEF UnsentAhead
    <3> QED BY <2>3, <3>2, <3>7
  <2> QED BY <2>4, <2>5
<1> QED
  BY <1>6, <1>9, <1>12, <1>13

-----------------------------------------------------------------------------
\* What is given to the peer: a job that matches, or nothing.
LEMMA DeliverLeaves ==
  ASSUME NEW p, NEW held \in BOOLEAN, NEW w \in Work, Matching(w), Deliver(p, held, w),
         state \in [Emulators -> {"idle", "connected", "playing", "gone"}],
         work \in [Emulators -> Work \cup {NoWork}], WorksMatch(work)
  PROVE  /\ state' \in [Emulators -> {"idle", "connected", "playing", "gone"}]
         /\ work' \in [Emulators -> Work \cup {NoWork}]
         /\ WorksMatch(work')
<1>1. CASE p \in Emulators
  <2>1. /\ state' = [state EXCEPT ![p] = IF held THEN "idle" ELSE "playing"]
        /\ work' = [work EXCEPT ![p] = IF held THEN NoWork ELSE w]
    BY <1>1 DEF Deliver
  <2>2. CASE held
    BY <2>1, <2>2 DEF WorksMatch
  <2>3. CASE ~ held
    BY <2>1, <2>3 DEF WorksMatch
  <2> QED BY <2>2, <2>3
<1>2. CASE ~ (p \in Emulators)
  BY <1>2 DEF Deliver
<1> QED
  BY <1>1, <1>2

\* What an answer leaves, given a queue with an open job.
LEMMA AnswerLeaves ==
  ASSUME NEW q \in Seq(Job), NEW counts \in Seq(Nat), Len(q) = Len(counts),
         NEW from \in 0..Len(q), OpenJobs(q, done') # {},
         UnsentAhead(q, counts, from, done'),
         NEW cache \in SUBSET Address, generation' \in Nat,
         OfGeneration(cache, generation'),
         AnswerFrom(q, counts, from, cache),
         known \in SUBSET Clients,
         state \in [Emulators -> {"idle", "connected", "playing", "gone"}],
         work \in [Emulators -> Work \cup {NoWork}], WorksMatch(work)
  PROVE  /\ jobs' \in Seq(Job) /\ index' \in 0..Len(jobs')
         /\ requests' \in Seq(Nat) /\ Len(requests') = Len(jobs')
         /\ serializedNetworks' \in SUBSET Address
         /\ OfGeneration(serializedNetworks', generation')
         /\ state' \in [Emulators -> {"idle", "connected", "playing", "gone"}]
         /\ work' \in [Emulators -> Work \cup {NoWork}]
         /\ WorksMatch(work')
         /\ UnsentAhead(jobs', requests', index', done')
         /\ AllSent(jobs', requests', index', done')
<1> DEFINE i == NextIndex(q, from, done')
           open == Cardinality(OpenJobs(q, done'))
           g == q[i].genome
           net == SerializedNetwork(cache, g, generation')
<1> DEFINE Answered(parts) ==
        LET count == CountsAfterSplit(counts, i, Len(parts))
            held  == count[i] >= RequestLimit
        IN  /\ jobs' = Exploded(q, i, parts)
            /\ index' = i
            /\ requests' = [count EXCEPT ![i] = CountAfter(count[i])]
            /\ serializedNetworks' =
                 IF held THEN cache ELSE cache \cup {[address |-> g, network |-> net]}
            /\ Deliver(answering, held, [generation |-> generation', genome |-> g,
                                         levels |-> jobs'[i].levels, network |-> net])
<1>0. PICK active \in SUBSET known :
        \E parts \in SplitsOf(q, i, Cardinality(active), open) : Answered(parts)
  BY DEF AnswerFrom, JobAfter
<1>1. PICK parts \in SplitsOf(q, i, Cardinality(active), open) : Answered(parts)
  BY <1>0
<1>2. FirstAfter(q, from, done', i)
  BY NextIndexIsFirst
<1>3. i \in 1..Len(q) /\ i \in 1..Len(counts) /\ Len(q) \in Nat
  <2> HIDE DEF i
  <2> QED BY <1>2 DEF FirstAfter, OpenJobs
<1>4. open \in Nat /\ open # 0
  <2>1. OpenJobs(q, done') \in SUBSET (1..Len(q))
    BY DEF OpenJobs
  <2>2. IsFiniteSet(OpenJobs(q, done'))
    <3>1. IsFiniteSet(1..Len(q))
      BY <1>3, FS_Interval
    <3> QED BY <2>1, <3>1, FS_Subset
  <2> QED BY <2>2, FS_CardinalityType, FS_EmptySet
<1>5. Cardinality(active) \in Nat
  BY <1>0, TcpAssumption, FS_Subset, FS_CardinalityType
<1> DEFINE k == Len(parts)
           count == CountsAfterSplit(counts, i, k)
           held == count[i] >= RequestLimit
           w == [generation |-> generation', genome |-> g,
                 levels |-> jobs'[i].levels, network |-> net]
<1>6. /\ jobs' = Exploded(q, i, parts)
      /\ index' = i
      /\ requests' = [count EXCEPT ![i] = CountAfter(count[i])]
      /\ serializedNetworks' =
           IF held THEN cache ELSE cache \cup {[address |-> g, network |-> net]}
      /\ Deliver(answering, held, w)
  BY <1>1
<1>7. parts \in SplitsOf(q, i, Cardinality(active), open)
  BY <1>1
<1> HIDE DEF i, open
<1>8. g \in Genomes /\ g = q[i].genome
  <2>1. q[i] \in Job
    BY <1>3
  <2> QED BY <2>1 DEF Job
<1>9. /\ k \in Nat /\ k >= 1 /\ parts \in [1..k -> SUBSET q[i].levels]
      /\ k = 1 => parts[1] = q[i].levels
  BY <1>3, <1>4, <1>5, <1>7, SplitsOfType
<1> HIDE DEF k
<1>10. jobs' \in Seq(Job) /\ JobsSplit(q, i, k, jobs')
  BY <1>3, <1>6, <1>9, ExplodedAny
<1>11. count \in Seq(Nat) /\ CountsSplit(counts, i, k, count)
  BY <1>3, <1>9, CountsAfterSplitType
<1> HIDE DEF count
<1>12. /\ i \in 1..Len(jobs')
       /\ requests' \in Seq(Nat) /\ Len(requests') = Len(jobs')
       /\ UnsentAhead(jobs', requests', i, done')
       /\ AllSent(jobs', requests', i, done')
  <2>1. requests' = [count EXCEPT ![i] = CountAfter(count[i])]
    BY <1>6
  <2>2. k \in Nat /\ k >= 1
    BY <1>9
  <2> HIDE DEF Answered
  <2>3. FirstAfter(q, from, done', i) /\ UnsentAhead(q, counts, from, done')
    BY <1>2
  <2>4. Counted(count, i, requests')
    BY <2>1 DEF Counted
  <2> QED BY <1>10, <1>11, <2>2, <2>3, <2>4, AnswerKeepsOrder
<1> HIDE DEF g, net
<1>13. net = [generation |-> generation', genome |-> g]
  <2>1. CASE \E c \in cache : c.address = g
    <3> DEFINE hit == CHOOSE c \in cache : c.address = g
    <3>1. hit \in cache /\ hit.address = g
      BY <2>1
    <3>2. net = hit.network
      BY <2>1 DEF SerializedNetwork, net
    <3> HIDE DEF hit
    <3> QED BY <3>1, <3>2 DEF OfGeneration
  <2>2. CASE ~ \E c \in cache : c.address = g
    BY <2>2 DEF SerializedNetwork, net
  <2> QED BY <2>1, <2>2
<1>14. net \in Network
  BY <1>8, <1>13 DEF Network
<1>15. /\ serializedNetworks' \in SUBSET Address
       /\ OfGeneration(serializedNetworks', generation')
  <2>1. [address |-> g, network |-> net] \in Address
    BY <1>8, <1>14 DEF Address
  <2>2. ASSUME NEW c, c = [address |-> g, network |-> net]
        PROVE  c.network = [generation |-> generation', genome |-> c.address]
    <3>1. c.address = g /\ c.network = net
      BY <2>2
    <3> QED BY <1>13, <3>1
  <2> QED BY <1>6, <2>1, <2>2 DEF OfGeneration
<1>16. w \in Work /\ Matching(w)
  <2>1. jobs'[i].levels \in SUBSET Levels
    <3>1. jobs'[i] \in Job
      BY <1>10, <1>12
    <3> QED BY <3>1 DEF Job
  <2> QED BY <1>8, <1>13, <1>14, <2>1 DEF Work, Matching
<1>17. held \in BOOLEAN
  OBVIOUS
<1> HIDE DEF w, held
<1>18. /\ state' \in [Emulators -> {"idle", "connected", "playing", "gone"}]
       /\ work' \in [Emulators -> Work \cup {NoWork}]
       /\ WorksMatch(work')
  BY <1>6, <1>16, <1>17, DeliverLeaves
<1>19. index' \in 0..Len(jobs')
  BY <1>6, <1>12
<1> QED
  BY <1>6, <1>10, <1>12, <1>15, <1>18, <1>19

-----------------------------------------------------------------------------
Entry == [peer: Peers, line: Line \cup {NoLine}]

EmulatorStates == {"idle", "connected", "playing", "gone"}

\* Nothing is scored yet, and nothing sent.
LEMMA NothingScored ==
  /\ Unscored \in [Genomes -> SUBSET Levels]
  /\ NoPlays \in [Genomes -> [Levels -> Seq(Network)]]
  /\ NotRequested \in Seq(Nat) /\ Len(NotRequested) = Population
<1>1. << >> \in Seq(Network)
  OBVIOUS
<1>2. Population \in Nat
  BY PopulationAssumption
<1> QED
  BY <1>1, <1>2 DEF Unscored, NoPlays, NotRequested

\* In a new generation every job is open and none was sent.
LEMMA FreshJobsOpen ==
  ASSUME NEW lay \in Layouts
  PROVE  /\ FreshJobs(lay) \in Seq(Job) /\ Len(FreshJobs(lay)) = Population
         /\ OpenJobs(FreshJobs(lay), Unscored) # {}
         /\ UnsentAhead(FreshJobs(lay), NotRequested, 0, Unscored)
<1>1. /\ FreshJobs(lay) \in Seq(Job) /\ Len(FreshJobs(lay)) = Population
      /\ \A n \in 1..Population : FreshJobs(lay)[n] = [genome |-> lay[n], levels |-> Levels]
  BY FreshJobsType
<1>2. 1 \in 1..Population
  BY PopulationAssumption
<1>3. FreshJobs(lay)[1].genome \in Genomes
  <2>1. FreshJobs(lay)[1] \in Job
    BY <1>1, <1>2
  <2> QED BY <2>1 DEF Job
<1>4. 1 \in OpenJobs(FreshJobs(lay), Unscored)
  BY <1>1, <1>2, <1>3, LevelsAssumption DEF OpenJobs, Unscored
<1>5. \A n \in OpenJobs(FreshJobs(lay), Unscored) : NotRequested[n] = 0
  BY <1>1 DEF OpenJobs, NotRequested
<1> QED
  BY <1>1, <1>4, <1>5 DEF UnsentAhead

\* The first state.
LEMMA InitInvariant == Init => TInv
<1> SUFFICES ASSUME Init PROVE TInv
  OBVIOUS
<1> USE DEF Init
<1>1. FirstLayout \in Layouts /\ MaxFailures \in Nat
  BY TcpAssumption
<1>2. /\ jobs \in Seq(Job) /\ index \in 0..Len(jobs)
      /\ requests \in Seq(Nat) /\ requests \in Seq(Int) /\ Len(requests) = Len(jobs)
      /\ UnsentAhead(jobs, requests, index, done)
  <2>1. index \in 0..Population
    BY PopulationAssumption
  <2>2. \A s \in Seq(Nat) : s \in Seq(Int)
    OBVIOUS
  <2> QED BY <1>1, <2>1, <2>2, FreshJobsOpen, NothingScored
<1>3. TypeOK
  <2>1. /\ state \in [Emulators -> EmulatorStates]
        /\ work \in [Emulators -> Work \cup {NoWork}]
        /\ outdated \in [Emulators -> BOOLEAN]
    BY DEF EmulatorStates
  <2>2. generation \in Nat /\ failures \in 0..MaxFailures
    BY <1>1
  <2>3. backlog \in Seq(Entry)
    OBVIOUS
  <2> QED
    BY <1>1, <1>2, <2>1, <2>2, <2>3, NothingScored DEF TypeOK, EmulatorStates, Entry
<1>4. OfGeneration(serializedNetworks, generation) /\ WorksMatch(work) /\ LinesMatch(backlog)
  BY DEF OfGeneration, WorksMatch, LinesMatch
<1>5. AllSent(jobs, requests, index, done)
  BY DEF AllSent
<1> QED
  BY <1>2, <1>3, <1>4, <1>5 DEF TInv

-----------------------------------------------------------------------------
\* What a process may do to the connections and to itself.
Plays == /\ backlog' \in Seq(Entry) /\ LinesMatch(backlog')
         /\ answering' \in Peers \cup {Nobody}
         /\ state' \in [Emulators -> EmulatorStates]
         /\ work' \in [Emulators -> Work \cup {NoWork}] /\ WorksMatch(work')
         /\ outdated' \in [Emulators -> BOOLEAN]
         /\ failures' \in 0..MaxFailures

\* What emulators do leaves the server as it was.
LEMMA EmulatorInvariant ==
  ASSUME TInv, Plays, UNCHANGED <<poolVars, queueVars>>
  PROVE  TInv'
<1>1. UNCHANGED <<finished, generation, layout, done, fitness, jobs, index, requests,
                  serializedNetworks, known>>
  BY DEF poolVars, queueVars
<1>2. TypeOK'
  BY <1>1 DEF TInv, TypeOK, Plays, Entry, EmulatorStates
<1>3. /\ requests' \in Seq(Nat)
      /\ OfGeneration(serializedNetworks', generation')
      /\ UnsentAhead(jobs', requests', index', done')
      /\ AllSent(jobs', requests', index', done')
  BY <1>1 DEF TInv
<1> QED
  BY <1>2, <1>3 DEF TInv, Plays

\* A new process has no job.
LEMMA RelaunchPlays ==
  ASSUME TInv, NEW e \in Emulators, Relaunch(e)
  PROVE  /\ state' \in [Emulators -> EmulatorStates]
         /\ work' \in [Emulators -> Work \cup {NoWork}] /\ WorksMatch(work')
         /\ outdated' \in [Emulators -> BOOLEAN]
BY DEF Relaunch, TInv, TypeOK, WorksMatch, EmulatorStates

\* A connection has no line yet.
LEMMA ConnectInvariant ==
  ASSUME TInv, NEW e \in Emulators, Connect(e)
  PROVE  TInv'
<1> DEFINE new == [peer |-> e, line |-> NoLine]
<1>1. backlog \in Seq(Entry) /\ LinesMatch(backlog) /\ backlog' = Append(backlog, new)
  BY DEF Connect, TInv, TypeOK, Entry
<1>2. new \in Entry
  BY DEF Entry, Peers
<1>3. /\ backlog' \in Seq(Entry) /\ Len(backlog') = Len(backlog) + 1
      /\ \A i \in 1..Len(backlog) : backlog'[i] = backlog[i]
      /\ backlog'[Len(backlog) + 1] = new
  <2> HIDE DEF new
  <2> QED BY <1>1, <1>2
<1>4. LinesMatch(backlog')
  <2> SUFFICES ASSUME NEW i \in 1..Len(backlog'), backlog'[i].line \in Result
               PROVE  Matching(backlog'[i].line.work)
    BY DEF LinesMatch
  <2>1. CASE i \in 1..Len(backlog)
    BY <1>1, <1>3, <2>1 DEF LinesMatch
  <2>2. CASE i = Len(backlog) + 1
    <3>1. backlog'[i].line = NoLine
      BY <1>3, <2>2
    <3> QED BY <3>1, NoLineAssumption DEF Line
  <2>3. Len(backlog) \in Nat
    BY <1>1
  <2> QED BY <1>3, <2>1, <2>2, <2>3
<1>5. /\ state' \in [Emulators -> EmulatorStates]
      /\ UNCHANGED <<answering, work, outdated, failures>>
  BY DEF Connect, TInv, TypeOK, EmulatorStates
<1>6. Plays
  BY <1>3, <1>4, <1>5 DEF Plays, TInv, TypeOK
<1>7. UNCHANGED <<poolVars, queueVars>>
  BY DEF Connect
<1> QED
  BY <1>6, <1>7, EmulatorInvariant

\* The line of an emulator carries its job.
LEMMA LineOfMatches ==
  ASSUME TInv, NEW e \in Emulators, NEW dies \in BOOLEAN
  PROVE  /\ LineOf(e, dies) \in Line
         /\ LineOf(e, dies) \in Result => Matching(LineOf(e, dies).work)
<1>1. ClientOf[e] \in Clients
  BY TcpAssumption
<1>2. CASE work[e] = NoWork
  <2>1. LineOf(e, dies) = [kind |-> "ask", client |-> ClientOf[e]]
    BY <1>2 DEF LineOf
  <2>2. LineOf(e, dies).kind = "ask"
    BY <2>1
  <2> QED BY <1>1, <2>1, <2>2 DEF Line, Ask, Result
<1>3. CASE work[e] # NoWork
  <2>1. LineOf(e, dies) = [kind |-> "result", client |-> ClientOf[e], work |-> work[e],
                           current |-> ~outdated[e], die |-> dies]
    BY <1>3 DEF LineOf
  <2>2. work[e] \in Work /\ Matching(work[e]) /\ (~outdated[e]) \in BOOLEAN
    BY <1>3 DEF TInv, TypeOK, WorksMatch
  <2>3. LineOf(e, dies) \in Result
    BY <1>1, <2>1, <2>2 DEF Result
  <2> QED BY <2>1, <2>2, <2>3 DEF Line
<1> QED
  BY <1>2, <1>3

\* One connection of the backlog replaced by another.
LEMMA EntryReplaced ==
  ASSUME NEW b \in Seq(Entry), LinesMatch(b), NEW i \in 1..Len(b), NEW x \in Entry,
         x.line \in Result => Matching(x.line.work)
  PROVE  [b EXCEPT ![i] = x] \in Seq(Entry) /\ LinesMatch([b EXCEPT ![i] = x])
<1>1. /\ [b EXCEPT ![i] = x] \in Seq(Entry) /\ Len([b EXCEPT ![i] = x]) = Len(b)
      /\ \A j \in 1..Len(b) : [b EXCEPT ![i] = x][j] = IF j = i THEN x ELSE b[j]
  OBVIOUS
<1> QED
  BY <1>1 DEF LinesMatch

\* A line sent carries the job of its emulator; a process that exits leaves none.
LEMMA SendInvariant ==
  ASSUME TInv, NEW e \in Emulators, Send(e)
  PROVE  TInv'
<1>1. backlog \in Seq(Entry) /\ LinesMatch(backlog)
  BY DEF TInv, TypeOK, Entry
<1>2. PICK i \in PlacesOf(e) :
        \/ /\ backlog' = [backlog EXCEPT ![i].line = LineOf(e, FALSE)]
           /\ UNCHANGED emulatorVars
        \/ /\ backlog' = [backlog EXCEPT ![i] = [peer |-> Gone, line |-> LineOf(e, TRUE)]]
           /\ Relaunch(e)
  BY DEF Send
<1>3. i \in 1..Len(backlog)
  BY DEF PlacesOf
<1>4. UNCHANGED <<poolVars, queueVars, answering, failures>>
  BY DEF Send
<1>5. CASE /\ backlog' = [backlog EXCEPT ![i].line = LineOf(e, FALSE)]
           /\ UNCHANGED emulatorVars
  <2> DEFINE x == [peer |-> backlog[i].peer, line |-> LineOf(e, FALSE)]
  <2>1. backlog[i] \in Entry
    BY <1>1, <1>3
  <2>2. backlog' = [backlog EXCEPT ![i] = x]
    <3>1. \A b \in Entry : \A v : [b EXCEPT !.line = v] = [peer |-> b.peer, line |-> v]
      BY DEF Entry
    <3>2. [backlog[i] EXCEPT !.line = LineOf(e, FALSE)] = x
      BY <2>1, <3>1
    <3> QED BY <1>5, <3>2
  <2>3. x \in Entry /\ (x.line \in Result => Matching(x.line.work))
    BY <2>1, LineOfMatches DEF Entry
  <2> HIDE DEF x
  <2>4. backlog' \in Seq(Entry) /\ LinesMatch(backlog')
    BY <1>1, <1>3, <2>2, <2>3, EntryReplaced
  <2>5. Plays
    BY <1>4, <1>5, <2>4 DEF Plays, TInv, TypeOK, emulatorVars, EmulatorStates
  <2> QED BY <1>4, <2>5, EmulatorInvariant
<1>6. CASE /\ backlog' = [backlog EXCEPT ![i] = [peer |-> Gone, line |-> LineOf(e, TRUE)]]
           /\ Relaunch(e)
  <2> DEFINE x == [peer |-> Gone, line |-> LineOf(e, TRUE)]
  <2>1. x \in Entry /\ (x.line \in Result => Matching(x.line.work))
    BY LineOfMatches DEF Entry, Peers
  <2>2. backlog' = [backlog EXCEPT ![i] = x]
    BY <1>6
  <2> HIDE DEF x
  <2>3. backlog' \in Seq(Entry) /\ LinesMatch(backlog')
    BY <1>1, <1>3, <2>1, <2>2, EntryReplaced
  <2>4. Plays
    BY <1>4, <1>6, <2>3, RelaunchPlays DEF Plays, TInv, TypeOK
  <2> QED BY <1>4, <2>4, EmulatorInvariant
<1> QED
  BY <1>2, <1>5, <1>6

\* Connections that are abandoned keep their lines.
LEMMA AbandonedMatches ==
  ASSUME TInv, NEW e, NEW p \in {Gone, Vanished}
  PROVE  Abandoned(e, p) \in Seq(Entry) /\ LinesMatch(Abandoned(e, p))
<1>1. backlog \in Seq(Entry) /\ LinesMatch(backlog) /\ p \in Peers
  BY DEF TInv, TypeOK, Entry, Peers
<1> DEFINE at(i) == IF backlog[i].peer = e THEN [backlog[i] EXCEPT !.peer = p] ELSE backlog[i]
<1>2. ASSUME NEW i \in 1..Len(backlog)
      PROVE  at(i) \in Entry /\ at(i).line = backlog[i].line
  <2>1. backlog[i] \in Entry
    BY <1>1
  <2>2. CASE backlog[i].peer = e
    BY <1>1, <2>1, <2>2 DEF Entry
  <2>3. CASE backlog[i].peer # e
    BY <2>1, <2>3
  <2> QED BY <2>2, <2>3
<1> HIDE DEF at
<1>3. Abandoned(e, p) = [i \in 1..Len(backlog) |-> at(i)]
  BY DEF Abandoned, at
<1>4. Len(backlog) \in Nat
  BY <1>1
<1>5. Abandoned(e, p) \in Seq(Entry) /\ Len(Abandoned(e, p)) = Len(backlog)
  BY <1>2, <1>3, <1>4
<1>6. \A i \in 1..Len(backlog) : Abandoned(e, p)[i].line = backlog[i].line
  BY <1>2, <1>3
<1> QED
  BY <1>1, <1>5, <1>6 DEF LinesMatch

\* A process that dies.
LEMMA KillInvariant ==
  ASSUME TInv, NEW e \in Emulators, Kill(e)
  PROVE  TInv'
<1>1. backlog' \in Seq(Entry) /\ LinesMatch(backlog')
  BY AbandonedMatches DEF Kill
<1>2. answering' \in Peers \cup {Nobody}
  BY DEF Kill, TInv, TypeOK, Peers
<1>3. failures' \in 0..MaxFailures
  BY TcpAssumption DEF Kill, TInv, TypeOK
<1>4. Relaunch(e) /\ UNCHANGED <<poolVars, queueVars>>
  BY DEF Kill
<1>5. Plays
  BY <1>1, <1>2, <1>3, <1>4, RelaunchPlays DEF Plays
<1> QED
  BY <1>4, <1>5, EmulatorInvariant

\* A host that goes away.
LEMMA VanishInvariant ==
  ASSUME TInv, NEW e \in Emulators, Vanish(e)
  PROVE  TInv'
<1>1. backlog' \in Seq(Entry) /\ LinesMatch(backlog')
  BY AbandonedMatches DEF Vanish
<1>2. answering' \in Peers \cup {Nobody}
  BY DEF Vanish, TInv, TypeOK, Peers
<1>3. failures' \in 0..MaxFailures
  BY TcpAssumption DEF Vanish, TInv, TypeOK
<1>4. UNCHANGED <<poolVars, queueVars>>
  BY DEF Vanish
<1>5. /\ state' \in [Emulators -> EmulatorStates]
      /\ work' \in [Emulators -> Work \cup {NoWork}] /\ WorksMatch(work')
      /\ outdated' \in [Emulators -> BOOLEAN]
  BY DEF Vanish, TInv, TypeOK, WorksMatch, EmulatorStates
<1>6. Plays
  BY <1>1, <1>2, <1>3, <1>5 DEF Plays
<1> QED
  BY <1>4, <1>6, EmulatorInvariant

-----------------------------------------------------------------------------
\* Taking a connection leaves the others as they were.
LEMMA TailMatches ==
  ASSUME NEW b \in Seq(Entry), b # <<>>, LinesMatch(b)
  PROVE  /\ Head(b) \in Entry
         /\ Head(b).line \in Result => Matching(Head(b).line.work)
         /\ Tail(b) \in Seq(Entry) /\ LinesMatch(Tail(b))
<1>1. /\ Head(b) \in Entry /\ Head(b) = b[1] /\ 1 \in 1..Len(b)
      /\ Tail(b) \in Seq(Entry) /\ Len(Tail(b)) = Len(b) - 1
      /\ Len(b) \in Nat
      /\ \A i \in 1..Len(Tail(b)) : Tail(b)[i] = b[i + 1] /\ i + 1 \in 1..Len(b)
  OBVIOUS
<1> QED
  BY <1>1 DEF LinesMatch

\* Jobs that were closed stay closed.
LEMMA FewerOpen ==
  ASSUME TInv, UNCHANGED <<jobs, index, requests>>,
         \A g \in Genomes : done'[g] # Levels => done[g] # Levels
  PROVE  /\ UnsentAhead(jobs', requests', index', done')
         /\ AllSent(jobs', requests', index', done')
<1>1. \A n \in 1..Len(jobs) : jobs[n].genome \in Genomes
  <2>1. jobs \in Seq(Job)
    BY DEF TInv, TypeOK
  <2>2. \A n \in 1..Len(jobs) : jobs[n] \in Job
    BY <2>1
  <2> QED BY <2>2 DEF Job
<1>2. OpenJobs(jobs', done') \subseteq OpenJobs(jobs, done)
  BY <1>1 DEF OpenJobs
<1> QED
  BY <1>2 DEF TInv, UnsentAhead, AllSent

\* A result that is scored adds levels to its genome and can only empty the cache.
LEMMA ScoreLeaves ==
  ASSUME TInv, NEW r \in Result, IsFresh(r), ScoreResult(r), UNCHANGED generation
  PROVE  /\ done' \in [Genomes -> SUBSET Levels]
         /\ fitness' \in [Genomes -> [Levels -> Seq(Network)]]
         /\ serializedNetworks' \in SUBSET Address
         /\ OfGeneration(serializedNetworks', generation')
         /\ \A g \in Genomes : done'[g] # Levels => done[g] # Levels
<1> DEFINE g == r.work.genome
           new == ValidResultSet(r)
<1>1. /\ g \in Genomes /\ r.work.network \in Network /\ done[g] # Levels
      /\ new \in SUBSET Levels
      /\ done \in [Genomes -> SUBSET Levels]
      /\ fitness \in [Genomes -> [Levels -> Seq(Network)]]
      /\ serializedNetworks \in SUBSET Address
      /\ OfGeneration(serializedNetworks, generation)
  BY DEF IsFresh, Result, Work, ValidResultSet, TInv, TypeOK, Address
<1>2. /\ done' = [done EXCEPT ![g] = done[g] \cup new]
      /\ fitness' = [fitness EXCEPT ![g] =
           [l \in Levels |-> IF l \in new THEN Append(fitness[g][l], r.work.network)
                                         ELSE fitness[g][l]]]
      /\ serializedNetworks' =
           IF done'[g] = Levels THEN {n \in serializedNetworks : n.address # g}
                                ELSE serializedNetworks
  BY DEF ScoreResult
<1> HIDE DEF g, new
<1>3. done' \in [Genomes -> SUBSET Levels]
  BY <1>1, <1>2
<1>4. fitness' \in [Genomes -> [Levels -> Seq(Network)]]
  <2> DEFINE sums == [l \in Levels |-> IF l \in new THEN Append(fitness[g][l], r.work.network)
                                                 ELSE fitness[g][l]]
  <2>1. ASSUME NEW l \in Levels
        PROVE  fitness[g][l] \in Seq(Network) /\ Append(fitness[g][l], r.work.network) \in Seq(Network)
    <3>1. fitness[g] \in [Levels -> Seq(Network)]
      BY <1>1
    <3>2. fitness[g][l] \in Seq(Network)
      BY <3>1
    <3> QED BY <1>1, <3>2, AppendProperties
  <2>2. sums \in [Levels -> Seq(Network)]
    BY <2>1
  <2>3. fitness' = [fitness EXCEPT ![g] = sums]
    BY <1>2
  <2> HIDE DEF sums
  <2> QED BY <1>1, <2>2, <2>3
<1>5. serializedNetworks' \subseteq serializedNetworks
  BY <1>2
<1>6. /\ serializedNetworks' \in SUBSET Address
      /\ OfGeneration(serializedNetworks', generation')
  BY <1>1, <1>5 DEF OfGeneration
<1>7. \A h \in Genomes : done'[h] # Levels => done[h] # Levels
  BY <1>1, <1>2
<1> QED
  BY <1>3, <1>4, <1>6, <1>7

\* A line that is received, and scored if it carries a fresh result.
LEMMA ReceiveLineInvariant == TInv /\ ReceiveLine => TInv'
<1> SUFFICES ASSUME TInv, ReceiveLine PROVE TInv'
  OBVIOUS
<1> DEFINE m == Head(backlog).line
           p == Head(backlog).peer
<1>1. /\ backlog # <<>> /\ m # NoLine /\ backlog' = Tail(backlog)
      /\ IF m.kind = "result" /\ IsFresh(m)
         THEN ScoreResult(m) ELSE UNCHANGED <<done, fitness, serializedNetworks>>
      /\ known' = IF m.kind = "result" THEN known \cup {m.client} ELSE known
      /\ answering' = IF Dismissed(m) THEN Nobody ELSE p
      /\ IF Dismissed(m) /\ p \in Emulators THEN Relaunch(p) ELSE UNCHANGED emulatorVars
      /\ UNCHANGED <<finished, generation, layout, queueVars, failures>>
  BY DEF ReceiveLine
<1>2. backlog \in Seq(Entry) /\ LinesMatch(backlog)
  BY DEF TInv, TypeOK, Entry
<1>3. Head(backlog) \in Entry /\ Tail(backlog) \in Seq(Entry) /\ LinesMatch(Tail(backlog))
  BY <1>1, <1>2, TailMatches
<1>4. m \in Line /\ p \in Peers
  BY <1>1, <1>3 DEF Entry
<1> HIDE DEF m, p
<1>5. m.kind = "result" => m \in Result
  BY <1>4 DEF Line, Ask, Result
<1>6. UNCHANGED <<jobs, index, requests>>
  BY <1>1 DEF queueVars
<1>7. /\ done' \in [Genomes -> SUBSET Levels]
      /\ fitness' \in [Genomes -> [Levels -> Seq(Network)]]
      /\ serializedNetworks' \in SUBSET Address
      /\ OfGeneration(serializedNetworks', generation')
      /\ \A g \in Genomes : done'[g] # Levels => done[g] # Levels
  <2>1. CASE m.kind = "result" /\ IsFresh(m)
    BY <1>1, <1>5, <2>1, ScoreLeaves
  <2>2. CASE ~ (m.kind = "result" /\ IsFresh(m))
    BY <1>1, <2>2 DEF TInv, TypeOK, Address
  <2> QED BY <2>1, <2>2
<1>8. /\ UnsentAhead(jobs', requests', index', done')
      /\ AllSent(jobs', requests', index', done')
  BY <1>6, <1>7, FewerOpen
<1>9. known' \in SUBSET Clients
  <2>1. m \in Result => m.client \in Clients
    BY DEF Result
  <2> QED BY <1>1, <1>5, <2>1 DEF TInv, TypeOK
<1>10. answering' \in Peers \cup {Nobody}
  BY <1>1, <1>4
<1>11. /\ state' \in [Emulators -> EmulatorStates]
       /\ work' \in [Emulators -> Work \cup {NoWork}] /\ WorksMatch(work')
       /\ outdated' \in [Emulators -> BOOLEAN]
  <2>1. CASE Dismissed(m) /\ p \in Emulators
    BY <1>1, <2>1, RelaunchPlays
  <2>2. CASE ~ (Dismissed(m) /\ p \in Emulators)
    BY <1>1, <2>2 DEF emulatorVars, TInv, TypeOK, EmulatorStates
  <2> QED BY <2>1, <2>2
<1>12. TypeOK'
  BY <1>1, <1>3, <1>6, <1>7, <1>9, <1>10, <1>11 DEF TInv, TypeOK, Entry, Address, EmulatorStates
<1>13. requests' \in Seq(Nat) /\ LinesMatch(backlog')
  BY <1>1, <1>3, <1>6 DEF TInv
<1> QED
  BY <1>7, <1>8, <1>11, <1>12, <1>13 DEF TInv

\* A connection closed without a line.
LEMMA ReceiveFailsInvariant == TInv /\ ReceiveFails => TInv'
<1> SUFFICES ASSUME TInv, ReceiveFails PROVE TInv'
  OBVIOUS
<1>1. /\ backlog # <<>> /\ backlog' = Tail(backlog)
      /\ UNCHANGED <<poolVars, queueVars, answering, emulatorVars, failures>>
  BY DEF ReceiveFails
<1>2. backlog \in Seq(Entry) /\ LinesMatch(backlog)
  BY DEF TInv, TypeOK, Entry
<1>3. backlog' \in Seq(Entry) /\ LinesMatch(backlog')
  BY <1>1, <1>2, TailMatches
<1>4. Plays
  BY <1>1, <1>3 DEF Plays, TInv, TypeOK, emulatorVars, EmulatorStates
<1> QED
  BY <1>1, <1>4, EmulatorInvariant

\* The next job of this generation is sent or held back.
LEMMA AnswerOpenInvariant == TInv /\ AnswerOpen => TInv'
<1> SUFFICES ASSUME TInv, AnswerOpen PROVE TInv'
  OBVIOUS
<1>1. /\ OpenJobs(jobs, done) # {}
      /\ UNCHANGED <<generation, layout, done, fitness, finished>>
      /\ AnswerFrom(jobs, requests, index, serializedNetworks)
      /\ answering' = Nobody
      /\ UNCHANGED <<known, backlog, outdated, failures>>
  BY DEF AnswerOpen
<1>2. /\ jobs \in Seq(Job) /\ requests \in Seq(Nat) /\ Len(jobs) = Len(requests)
      /\ index \in 0..Len(jobs) /\ OpenJobs(jobs, done') # {}
      /\ UnsentAhead(jobs, requests, index, done')
      /\ serializedNetworks \in SUBSET Address /\ generation' \in Nat
      /\ OfGeneration(serializedNetworks, generation')
      /\ known \in SUBSET Clients
      /\ state \in [Emulators -> {"idle", "connected", "playing", "gone"}]
      /\ work \in [Emulators -> Work \cup {NoWork}] /\ WorksMatch(work)
  BY <1>1 DEF TInv, TypeOK, Address
<1>3. /\ jobs' \in Seq(Job) /\ index' \in 0..Len(jobs')
      /\ requests' \in Seq(Nat) /\ Len(requests') = Len(jobs')
      /\ serializedNetworks' \in SUBSET Address
      /\ OfGeneration(serializedNetworks', generation')
      /\ state' \in [Emulators -> {"idle", "connected", "playing", "gone"}]
      /\ work' \in [Emulators -> Work \cup {NoWork}] /\ WorksMatch(work')
      /\ UnsentAhead(jobs', requests', index', done')
      /\ AllSent(jobs', requests', index', done')
  BY <1>1, <1>2, AnswerLeaves
<1>4. requests' \in Seq(Int)
  <2>1. \A s \in Seq(Nat) : s \in Seq(Int)
    OBVIOUS
  <2> QED BY <1>3, <2>1
<1>5. TypeOK'
  BY <1>1, <1>3, <1>4 DEF TInv, TypeOK, Address
<1>6. LinesMatch(backlog')
  BY <1>1 DEF TInv
<1> QED
  BY <1>3, <1>5, <1>6 DEF TInv

\* The first job of the next generation.
LEMMA AnswerNewInvariant == TInv /\ AnswerNew => TInv'
<1> SUFFICES ASSUME TInv, AnswerNew PROVE TInv'
  OBVIOUS
<1>1. /\ generation' = generation + 1 /\ layout' \in Layouts
      /\ done' = Unscored /\ fitness' = NoPlays
      /\ AnswerFrom(FreshJobs(layout'), NotRequested, 0, {})
      /\ answering' = Nobody
      /\ UNCHANGED <<known, backlog, outdated, failures>>
  BY DEF AnswerNew
<1>2. finished' \in BOOLEAN
  <2>1. PICK other \in OtherStops :
          finished' = ((StopGeneration > 0 /\ generation' >= StopGeneration) \/ other)
    BY DEF AnswerNew
  <2>2. other \in BOOLEAN
    BY TcpAssumption
  <2> QED BY <2>1, <2>2, Zenon
<1>3. /\ generation' \in Nat /\ known \in SUBSET Clients
      /\ state \in [Emulators -> {"idle", "connected", "playing", "gone"}]
      /\ work \in [Emulators -> Work \cup {NoWork}] /\ WorksMatch(work)
  BY <1>1 DEF TInv, TypeOK
<1> DEFINE q == FreshJobs(layout')
<1>4. /\ q \in Seq(Job) /\ NotRequested \in Seq(Nat) /\ Len(q) = Len(NotRequested)
      /\ 0 \in 0..Len(q) /\ OpenJobs(q, done') # {}
      /\ UnsentAhead(q, NotRequested, 0, done')
  <2>1. 0 \in 0..Population
    BY PopulationAssumption
  <2> HIDE DEF q
  <2> QED BY <1>1, <2>1, FreshJobsOpen, NothingScored DEF q
<1>5. {} \in SUBSET Address /\ OfGeneration({}, generation')
  BY DEF OfGeneration
<1>6. AnswerFrom(q, NotRequested, 0, {})
  BY <1>1
<1> HIDE DEF q
<1>7. /\ jobs' \in Seq(Job) /\ index' \in 0..Len(jobs')
      /\ requests' \in Seq(Nat) /\ Len(requests') = Len(jobs')
      /\ serializedNetworks' \in SUBSET Address
      /\ OfGeneration(serializedNetworks', generation')
      /\ state' \in [Emulators -> {"idle", "connected", "playing", "gone"}]
      /\ work' \in [Emulators -> Work \cup {NoWork}] /\ WorksMatch(work')
      /\ UnsentAhead(jobs', requests', index', done')
      /\ AllSent(jobs', requests', index', done')
  BY <1>3, <1>4, <1>5, <1>6, AnswerLeaves
<1>8. requests' \in Seq(Int)
  <2>1. \A s \in Seq(Nat) : s \in Seq(Int)
    OBVIOUS
  <2> QED BY <1>7, <2>1
<1>9. TypeOK'
  BY <1>1, <1>2, <1>3, <1>7, <1>8, NothingScored DEF TInv, TypeOK, Address
<1>10. LinesMatch(backlog')
  BY <1>1 DEF TInv
<1> QED
  BY <1>7, <1>9, <1>10 DEF TInv

-----------------------------------------------------------------------------
\* The invariant of the server and its emulators.
THEOREM TcpInvariant == SafetySpec => []TInv
<1>1. Init => TInv
  BY InitInvariant
<1>2. TInv /\ [Next]_vars => TInv'
  <2> SUFFICES ASSUME TInv, [Next]_vars PROVE TInv'
    OBVIOUS
  <2>1. CASE ReceiveLine
    BY <2>1, ReceiveLineInvariant
  <2>2. CASE ReceiveFails
    BY <2>2, ReceiveFailsInvariant
  <2>3. CASE AnswerOpen
    BY <2>3, AnswerOpenInvariant
  <2>4. CASE AnswerNew
    BY <2>4, AnswerNewInvariant
  <2>5. ASSUME NEW e \in Emulators, Connect(e) PROVE TInv'
    BY <2>5, ConnectInvariant
  <2>6. ASSUME NEW e \in Emulators, Send(e) PROVE TInv'
    BY <2>6, SendInvariant
  <2>7. ASSUME NEW e \in Emulators, Kill(e) PROVE TInv'
    BY <2>7, KillInvariant
  <2>8. ASSUME NEW e \in Emulators, Vanish(e) PROVE TInv'
    BY <2>8, VanishInvariant
  <2>9. CASE UNCHANGED vars
    <3>1. UNCHANGED <<poolVars, queueVars>>
      BY <2>9 DEF vars
    <3>2. Plays
      BY <2>9 DEF vars, emulatorVars, Plays, TInv, TypeOK, Entry, EmulatorStates
    <3> QED BY <3>1, <3>2, EmulatorInvariant
  <2> QED
    BY <2>1, <2>2, <2>3, <2>4, <2>5, <2>6, <2>7, <2>8, <2>9 DEF Next, Server, Over
<1> QED
  BY <1>1, <1>2, PTL DEF SafetySpec

\* Type correctness of the server, the connections and the emulators.
THEOREM TcpTypeCorrect == SafetySpec => []TypeOK
<1>1. TInv => TypeOK
  BY DEF TInv
<1> QED
  BY <1>1, TcpInvariant, PTL

\* A job is sent a second time only when every other open job has been sent
\* (findNextNonRequestedGenome, dumber_server.lua:1681), whatever was split,
\* held back or scored in between.
THEOREM TcpUnrequestedFirst == SafetySpec => []UnrequestedFirst
<1>1. TInv => UnrequestedFirst
  BY DEF TInv, AllSent, UnrequestedFirst
<1> QED
  BY <1>1, TcpInvariant, PTL

\* Every job in flight, played or returned, carries the network of the genome
\* and generation it names (getSerializedNetwork and its cache).
THEOREM TcpNetworks == SafetySpec => []NetworkMatchesAddress
<1>1. TInv => NetworkMatchesAddress
  <2> SUFFICES ASSUME TInv, NEW w \in WorkInFlight PROVE Matching(w)
    BY DEF NetworkMatchesAddress, Matching
  <2>1. CASE \E e \in Emulators : work[e] # NoWork /\ w = work[e]
    BY <2>1 DEF TInv, WorksMatch
  <2>2. CASE \E i \in 1..Len(backlog) : backlog[i].line \in Result /\ w = backlog[i].line.work
    BY <2>2 DEF TInv, LinesMatch
  <2> QED BY <2>1, <2>2 DEF WorkInFlight
<1> QED
  BY <1>1, TcpInvariant, PTL

-----------------------------------------------------------------------------
\* Fitness holds, for each level a genome is complete for, one play by the
\* genome's own network, and nothing else.
PlaysOf(n, g, l, scored) ==
  IF l \in scored[g] THEN << [generation |-> n, genome |-> g] >> ELSE << >>

Credited ==
  \A g \in Genomes, l \in Levels : fitness[g][l] = PlaysOf(generation, g, l, done)

\* Every genome of the pool has a job: when none is open, all are complete.
Covers(q, lay) == \A g \in Members(lay) : \E n \in 1..Len(q) : q[n].genome = g

\* What the refinement needs besides: training is not over before its time.
RInv ==
  /\ TInv
  /\ Credited
  /\ Covers(jobs, layout)
  /\ ~finished => generation < StopGeneration

\* Splitting a job leaves jobs for the same genomes.
LEMMA SplitCovers ==
  ASSUME NEW q \in Seq(Job), NEW lay, Covers(q, lay),
         NEW i \in 1..Len(q), NEW k \in Nat, k >= 1, NEW e \in Seq(Job), JobsSplit(q, i, k, e)
  PROVE  Covers(e, lay)
<1> SUFFICES ASSUME NEW g \in Members(lay)
             PROVE  \E n \in 1..Len(e) : e[n].genome = g
  BY DEF Covers
<1>1. PICK o \in 1..Len(q) : q[o].genome = g
  BY DEF Covers
<1>2. /\ Len(q) \in Nat /\ Len(e) = Len(q) - 1 + k
      /\ \A m \in 1..(i - 1) : e[m] = q[m]
      /\ \A m \in i..(i + k - 1) : e[m].genome = q[i].genome
      /\ \A m \in (i + k)..Len(e) : e[m] = q[m + 1 - k]
  BY DEF JobsSplit
<1>3. CASE o < i
  <2>1. o \in 1..(i - 1) /\ o \in 1..Len(e)
    BY <1>2, <1>3
  <2> QED BY <1>1, <1>2, <2>1
<1>4. CASE o = i
  <2>1. i \in i..(i + k - 1) /\ i \in 1..Len(e)
    BY <1>2
  <2> QED BY <1>1, <1>2, <1>4, <2>1
<1>5. CASE o > i
  <2>1. o + k - 1 \in (i + k)..Len(e) /\ o + k - 1 \in 1..Len(e) /\ (o + k - 1) + 1 - k = o
    BY <1>2, <1>5
  <2> QED BY <1>1, <1>2, <2>1
<1> QED
  BY <1>3, <1>4, <1>5

\* The queue an answer leaves.
LEMMA AnswerCovers ==
  ASSUME NEW q \in Seq(Job), NEW counts, NEW from, OpenJobs(q, done') # {},
         NEW cache, AnswerFrom(q, counts, from, cache), known \in SUBSET Clients,
         NEW lay, Covers(q, lay)
  PROVE  Covers(jobs', lay)
<1> DEFINE i == NextIndex(q, from, done')
           open == Cardinality(OpenJobs(q, done'))
<1>1. PICK active \in SUBSET known :
        \E parts \in SplitsOf(q, i, Cardinality(active), open) : jobs' = Exploded(q, i, parts)
  BY DEF AnswerFrom, JobAfter
<1>2. PICK parts \in SplitsOf(q, i, Cardinality(active), open) : jobs' = Exploded(q, i, parts)
  BY <1>1
<1>3. i \in 1..Len(q) /\ Len(q) \in Nat
  <2>1. i \in OpenJobs(q, done')
    BY NextIndexIsOpen
  <2> HIDE DEF i
  <2> QED BY <2>1 DEF OpenJobs
<1>4. open \in Nat /\ open # 0
  <2>1. OpenJobs(q, done') \in SUBSET (1..Len(q))
    BY DEF OpenJobs
  <2>2. IsFiniteSet(1..Len(q))
    BY <1>3, FS_Interval
  <2>3. IsFiniteSet(OpenJobs(q, done'))
    BY <2>1, <2>2, FS_Subset
  <2> QED BY <2>3, FS_CardinalityType, FS_EmptySet
<1>5. Cardinality(active) \in Nat
  BY <1>1, TcpAssumption, FS_Subset, FS_CardinalityType
<1> HIDE DEF i, open
<1>6. /\ Len(parts) \in Nat /\ Len(parts) >= 1
      /\ parts \in [1..Len(parts) -> SUBSET q[i].levels]
      /\ Len(parts) = 1 => parts[1] = q[i].levels
  BY <1>2, <1>3, <1>4, <1>5, SplitsOfType
<1>7. jobs' \in Seq(Job) /\ JobsSplit(q, i, Len(parts), jobs')
  BY <1>2, <1>3, <1>6, ExplodedAny
<1> QED
  BY <1>3, <1>6, <1>7, SplitCovers

-----------------------------------------------------------------------------
\* A step that leaves pool and scores alone is none of Evaluation.
LEMMA NoEvaluation ==
  ASSUME UNCHANGED <<generation, layout, fitness>>
  PROVE  UNCHANGED Eval!vars
BY DEF Eval!vars, Evaluated

\* What is evaluated, told by what is scored.
LEMMA EvaluatedIsScored ==
  ASSUME Credited, layout \in Layouts
  PROVE  Evaluated = {p \in (1..Population) \X Levels : p[2] \in done[layout[p[1]]]}
<1>1. ASSUME NEW i \in 1..Population, NEW l \in Levels
      PROVE  fitness[layout[i]][l] = << [generation |-> generation, genome |-> layout[i]] >>
               <=> l \in done[layout[i]]
  <2>1. layout[i] \in Genomes
    BY DEF Layouts
  <2>2. fitness[layout[i]][l] = PlaysOf(generation, layout[i], l, done)
    BY <2>1 DEF Credited
  <2>3. \A x : << x >> # << >>
    OBVIOUS
  <2> QED BY <2>2, <2>3 DEF PlaysOf
<1> QED
  BY <1>1 DEF Evaluated

\* A fresh result adds plays of the genome's own network, and is a step of
\* Evaluation.
LEMMA ScoreRefines ==
  ASSUME RInv, RInv', NEW r \in Result, Matching(r.work), IsFresh(r), ScoreResult(r),
         UNCHANGED <<generation, layout>>, ~finished
  PROVE  Eval!Score
<1> DEFINE g == r.work.genome
           new == ValidResultSet(r)
<1>1. /\ g \in Genomes /\ g \in Members(layout)
      /\ new \in SUBSET Levels /\ new # {} /\ new \cap done[g] = {}
      /\ done \in [Genomes -> SUBSET Levels]
      /\ layout \in Layouts
  BY DEF IsFresh, Result, Work, ValidResultSet, RInv, TInv, TypeOK
<1>2. done' = [done EXCEPT ![g] = done[g] \cup new]
  BY DEF ScoreResult
<1> HIDE DEF g, new
<1>3. PICK i \in 1..Population : layout[i] = g
  BY <1>1 DEF Members
<1>4. /\ layout \in [1..Population -> Genomes]
      /\ \A j \in 1..Population : layout[j] = g => j = i
  BY <1>1, <1>3 DEF Layouts
<1>5. Evaluated = {p \in (1..Population) \X Levels : p[2] \in done[layout[p[1]]]}
  BY <1>1, EvaluatedIsScored DEF RInv
<1>6. Evaluated' = {p \in (1..Population) \X Levels : p[2] \in done'[layout[p[1]]]}
  <2>1. Credited' /\ layout' \in Layouts /\ layout' = layout
    BY <1>1 DEF RInv
  <2>2. ASSUME NEW j \in 1..Population, NEW l \in Levels
        PROVE  fitness'[layout'[j]][l] = << [generation |-> generation', genome |-> layout'[j]] >>
                 <=> l \in done'[layout'[j]]
    <3>1. layout'[j] \in Genomes
      BY <2>1 DEF Layouts
    <3>2. fitness'[layout'[j]][l] = PlaysOf(generation', layout'[j], l, done')
      BY <2>1, <3>1 DEF Credited
    <3>3. \A x : << x >> # << >>
      OBVIOUS
    <3> QED BY <3>2, <3>3 DEF PlaysOf
  <2> QED BY <2>1, <2>2 DEF Evaluated
<1>7. Evaluated \cap ({i} \X new) = {}
  BY <1>1, <1>3, <1>5
<1>8. Evaluated' = Evaluated \cup ({i} \X new)
  <2>1. ASSUME NEW j \in 1..Population, NEW l \in Levels
        PROVE  l \in done'[layout[j]] <=> (l \in done[layout[j]] \/ (j = i /\ l \in new))
    <3>1. CASE j = i
      BY <1>1, <1>2, <1>3, <3>1
    <3>2. CASE j # i
      <4>1. layout[j] # g /\ layout[j] \in Genomes
        BY <1>4, <3>2
      <4> QED BY <1>1, <1>2, <3>2, <4>1
    <3> QED BY <3>1, <3>2
  <2>2. \A p \in (1..Population) \X Levels :
          p \in {i} \X new <=> (p[1] = i /\ p[2] \in new)
    OBVIOUS
  <2>3. ({i} \X new) \subseteq (1..Population) \X Levels
    BY <1>1
  <2> QED BY <1>5, <1>6, <2>1, <2>2, <2>3
<1>9. generation < StopGeneration /\ UNCHANGED generation
  BY DEF RInv
<1>10. new \in (SUBSET Levels) \ {{}}
  BY <1>1
<1>11. \E j \in 1..Population, ls \in (SUBSET Levels) \ {{}} :
         /\ Evaluated \cap ({j} \X ls) = {}
         /\ Evaluated' = Evaluated \cup ({j} \X ls)
  BY <1>7, <1>8, <1>10, Zenon
<1> QED
  BY <1>9, <1>11, Zenon DEF Eval!Score

\* A step of an emulator, or a connection that only closes.
LEMMA OtherRefines ==
  ASSUME RInv, TInv', UNCHANGED <<finished, generation, layout, done, fitness, jobs>>
  PROVE  RInv' /\ UNCHANGED Eval!vars
<1>1. Credited'
  BY DEF RInv, Credited, PlaysOf
<1>2. Covers(jobs', layout')
  BY DEF RInv
<1>3. UNCHANGED Eval!vars
  BY NoEvaluation
<1> QED
  BY <1>1, <1>2, <1>3 DEF RInv

\* A line that is received.
LEMMA ReceiveLineRefines ==
  ASSUME RInv, TInv', ReceiveLine
  PROVE  RInv' /\ (Eval!Score \/ UNCHANGED Eval!vars)
<1> DEFINE m == Head(backlog).line
<1>1. /\ ~finished /\ backlog # <<>> /\ m # NoLine
      /\ IF m.kind = "result" /\ IsFresh(m)
         THEN ScoreResult(m) ELSE UNCHANGED <<done, fitness, serializedNetworks>>
      /\ UNCHANGED <<finished, generation, layout, jobs>>
  BY DEF ReceiveLine, queueVars
<1>2. backlog \in Seq(Entry) /\ LinesMatch(backlog)
  BY DEF RInv, TInv, TypeOK, Entry
<1>3. Head(backlog) \in Entry /\ (m \in Result => Matching(m.work))
  BY <1>1, <1>2, TailMatches
<1>4. m \in Line
  BY <1>1, <1>3 DEF Entry
<1> HIDE DEF m
<1>5. CASE m.kind = "result" /\ IsFresh(m)
  <2>1. m \in Result
    BY <1>4, <1>5 DEF Line, Ask
  <2> DEFINE g == m.work.genome
             new == ValidResultSet(m)
  <2>2. /\ g \in Genomes /\ new \in SUBSET Levels /\ new \cap done[g] = {}
        /\ m.work.network = [generation |-> generation, genome |-> g]
        /\ done \in [Genomes -> SUBSET Levels]
        /\ fitness \in [Genomes -> [Levels -> Seq(Network)]]
    BY <1>3, <1>5, <2>1
    DEF IsFresh, Result, Work, ValidResultSet, Matching, RInv, TInv, TypeOK
  <2>3. /\ done' = [done EXCEPT ![g] = done[g] \cup new]
        /\ fitness' = [fitness EXCEPT ![g] =
             [l \in Levels |-> IF l \in new THEN Append(fitness[g][l], m.work.network)
                                           ELSE fitness[g][l]]]
    BY <1>1, <1>5 DEF ScoreResult
  <2> HIDE DEF g, new
  <2>4. ASSUME NEW h \in Genomes, NEW l \in Levels
        PROVE  fitness'[h][l] = PlaysOf(generation', h, l, done')
    <3>1. fitness[h][l] = PlaysOf(generation, h, l, done)
      BY DEF RInv, Credited
    <3>2. CASE h # g
      BY <1>1, <2>2, <2>3, <3>1, <3>2 DEF PlaysOf
    <3>3. CASE h = g /\ l \in new
      <4>1. fitness[g][l] = << >>
        BY <2>2, <3>1, <3>3 DEF PlaysOf
      <4>2. fitness'[g][l] = Append(<< >>, m.work.network)
        BY <2>2, <2>3, <3>3, <4>1
      <4>3. l \in done'[g]
        BY <2>2, <2>3, <3>3
      <4>4. \A x : Append(<< >>, x) = << x >>
        OBVIOUS
      <4> QED BY <1>1, <2>2, <3>3, <4>2, <4>3, <4>4 DEF PlaysOf
    <3>4. CASE h = g /\ ~ (l \in new)
      <4>1. fitness'[g][l] = fitness[g][l] /\ (l \in done'[g] <=> l \in done[g])
        BY <2>2, <2>3, <3>4
      <4> QED BY <1>1, <3>1, <3>4, <4>1 DEF PlaysOf
    <3> QED BY <3>2, <3>3, <3>4
  <2>5. Credited'
    BY <2>4 DEF Credited
  <2>6. RInv'
    BY <1>1, <2>5 DEF RInv, Covers, Members
  <2>7. Eval!Score
    <3>1. Matching(m.work) /\ ScoreResult(m) /\ UNCHANGED <<generation, layout>>
      BY <1>1, <1>3, <1>5, <2>1
    <3> QED BY <1>1, <1>5, <2>1, <2>6, <3>1, ScoreRefines
  <2> QED BY <2>6, <2>7
<1>6. CASE ~ (m.kind = "result" /\ IsFresh(m))
  BY <1>1, <1>6, OtherRefines
<1> QED
  BY <1>5, <1>6

\* When no job is open, everything is evaluated.
LEMMA NoneOpen ==
  ASSUME RInv, OpenJobs(jobs, done) = {}
  PROVE  Evaluated = Eval!Everything
<1>1. layout \in Layouts
  BY DEF RInv, TInv, TypeOK
<1>2. ASSUME NEW i \in 1..Population PROVE done[layout[i]] = Levels
  <2>1. layout[i] \in Members(layout)
    BY DEF Members
  <2>2. PICK n \in 1..Len(jobs) : jobs[n].genome = layout[i]
    BY <2>1 DEF RInv, Covers
  <2> QED BY <2>2 DEF OpenJobs
<1>3. Evaluated = {p \in (1..Population) \X Levels : p[2] \in done[layout[p[1]]]}
  BY <1>1, EvaluatedIsScored DEF RInv
<1>4. \A p \in (1..Population) \X Levels : p[1] \in 1..Population /\ p[2] \in Levels
  OBVIOUS
<1> QED
  BY <1>2, <1>3, <1>4 DEF Eval!Everything

\* The next generation begins when everything is evaluated, with nothing scored.
LEMMA AnswerNewRefines ==
  ASSUME RInv, TInv', AnswerNew
  PROVE  RInv' /\ Eval!Advance
<1>1. /\ ~finished /\ OpenJobs(jobs, done) = {}
      /\ generation' = generation + 1 /\ layout' \in Layouts
      /\ done' = Unscored /\ fitness' = NoPlays
      /\ AnswerFrom(FreshJobs(layout'), NotRequested, 0, {})
  BY DEF AnswerNew
<1>2. Credited'
  BY <1>1 DEF Credited, PlaysOf, Unscored, NoPlays
<1>3. Covers(jobs', layout')
  <2> DEFINE q == FreshJobs(layout')
  <2>1. q \in Seq(Job) /\ Len(q) = Population /\ OpenJobs(q, done') # {}
    BY <1>1, FreshJobsOpen
  <2>2. Covers(q, layout')
    <3>2. ASSUME NEW n \in 1..Population PROVE q[n].genome = layout'[n]
      <4>1. q[n] = [genome |-> layout'[n], levels |-> Levels]
        BY <1>1, FreshJobsType
      <4> HIDE DEF q
      <4> QED BY <4>1
    <3> HIDE DEF q
    <3> QED BY <2>1, <3>2 DEF Covers, Members
  <2>3. AnswerFrom(q, NotRequested, 0, {}) /\ known \in SUBSET Clients
    BY <1>1 DEF RInv, TInv, TypeOK
  <2> HIDE DEF q
  <2> QED BY <2>1, <2>2, <2>3, AnswerCovers
<1>4. ~finished' => generation' < StopGeneration
  <2>1. PICK other \in OtherStops :
          finished' = ((StopGeneration > 0 /\ generation' >= StopGeneration) \/ other)
    BY DEF AnswerNew
  <2>2. generation < StopGeneration /\ generation \in Nat /\ StopGeneration \in Int
    BY <1>1, TcpAssumption DEF RInv, TInv, TypeOK
  <2>3. StopGeneration > 0 /\ generation' \in Nat
    BY <1>1, <2>2
  <2>4. ~finished' => ~ (generation' >= StopGeneration)
    BY <2>1, <2>3, Zenon
  <2> QED BY <2>2, <2>3, <2>4
<1>5. RInv'
  BY <1>2, <1>3, <1>4 DEF RInv
<1>6. Evaluated' = {}
  <2>1. ASSUME NEW i \in 1..Population, NEW l \in Levels
        PROVE  fitness'[layout'[i]][l] = << >>
    <3>1. layout'[i] \in Genomes
      BY <1>1 DEF Layouts
    <3> QED BY <1>1, <3>1 DEF NoPlays
  <2>2. \A x : << x >> # << >>
    OBVIOUS
  <2> QED BY <2>1, <2>2 DEF Evaluated
<1>7. Evaluated = Eval!Everything
  BY <1>1, NoneOpen
<1>8. generation < StopGeneration
  BY <1>1 DEF RInv
<1> QED
  BY <1>1, <1>5, <1>6, <1>7, <1>8 DEF Eval!Advance

\* The server implements Evaluation: the first state is its first, and every
\* step one of its steps or none.
THEOREM TcpEvaluates ==
  ASSUME StopGeneration > 0
  PROVE  SafetySpec => EvaluatesInOrder
<1>1. Init => RInv /\ Eval!Init
  <2> SUFFICES ASSUME Init PROVE RInv /\ Eval!Init
    OBVIOUS
  <2>1. TInv
    BY InitInvariant
  <2>2. Credited
    BY DEF Init, Credited, PlaysOf, Unscored, NoPlays
  <2>3. Covers(jobs, layout)
    <3>1. layout \in Layouts /\ jobs = FreshJobs(layout)
      BY TcpAssumption DEF Init
    <3>2. Len(jobs) = Population
      BY <3>1, FreshJobsType
    <3>4. ASSUME NEW n \in 1..Population PROVE jobs[n].genome = layout[n]
      <4>1. jobs[n] = [genome |-> layout[n], levels |-> Levels]
        BY <3>1, FreshJobsType
      <4> QED BY <4>1
    <3> QED BY <3>2, <3>4 DEF Covers, Members
  <2>4. generation < StopGeneration
    BY TcpAssumption DEF Init
  <2>5. Evaluated = {}
    <3>1. Evaluated = {p \in (1..Population) \X Levels : p[2] \in done[layout[p[1]]]}
      BY <2>1, <2>2, EvaluatedIsScored DEF TInv, TypeOK
    <3>2. \A i \in 1..Population : done[layout[i]] = {}
      BY TcpAssumption DEF Init, Unscored, Layouts
    <3>3. \A p \in (1..Population) \X Levels : p[1] \in 1..Population
      OBVIOUS
    <3> QED BY <3>1, <3>2, <3>3
  <2> QED BY <2>1, <2>2, <2>3, <2>4, <2>5 DEF RInv, Init, Eval!Init
<1>2. RInv /\ TInv' /\ [Next]_vars => RInv' /\ [Eval!Next]_(Eval!vars)
  <2> SUFFICES ASSUME RInv, TInv', [Next]_vars
               PROVE  RInv' /\ (Eval!Score \/ Eval!Advance \/ UNCHANGED Eval!vars)
    BY DEF Eval!Next
  <2>1. CASE UNCHANGED <<finished, generation, layout, done, fitness, jobs>>
    BY <2>1, OtherRefines
  <2>2. CASE ReceiveLine
    BY <2>2, ReceiveLineRefines
  <2>3. CASE ReceiveFails
    BY <2>1, <2>3 DEF ReceiveFails, poolVars, queueVars
  <2>4. CASE AnswerOpen
    <3>1. /\ UNCHANGED <<generation, layout, done, fitness, finished>>
          /\ OpenJobs(jobs, done') # {}
          /\ AnswerFrom(jobs, requests, index, serializedNetworks)
      BY <2>4 DEF AnswerOpen
    <3>2. jobs \in Seq(Job) /\ known \in SUBSET Clients /\ Covers(jobs, layout)
      BY DEF RInv, TInv, TypeOK
    <3>3. Covers(jobs', layout)
      BY <3>1, <3>2, AnswerCovers
    <3>4. Credited'
      BY <3>1 DEF RInv, Credited, PlaysOf
    <3>5. UNCHANGED Eval!vars
      BY <3>1, NoEvaluation
    <3>6. RInv'
      BY <3>1, <3>3, <3>4 DEF RInv
    <3> QED BY <3>5, <3>6
  <2>5. CASE AnswerNew
    BY <2>5, AnswerNewRefines
  <2>6. CASE \E e \in Emulators : Connect(e) \/ Send(e) \/ Kill(e) \/ Vanish(e)
    BY <2>1, <2>6 DEF Connect, Send, Kill, Vanish, poolVars, queueVars
  <2>7. CASE UNCHANGED vars
    BY <2>1, <2>7 DEF vars, poolVars, queueVars
  <2> QED
    BY <2>2, <2>3, <2>4, <2>5, <2>6, <2>7 DEF Next, Server, Over
<1> QED
  BY <1>1, <1>2, TcpInvariant, PTL DEF SafetySpec, EvaluatesInOrder

-----------------------------------------------------------------------------
(* Connections *)
\* Where the server has emulator e: in the backlog, or being answered.
Connections(e) == PlacesOf(e) \cup (IF answering = e THEN {0} ELSE {})

Single(S) == \E c \in S : S = {c}

\* An emulator that waits is at one place of the server, the others at none.
HeardOnce ==
  \A e \in Emulators : IF state[e] = "connected" THEN Single(Connections(e))
                                                  ELSE Connections(e) = {}

\* The server has a peer to answer, a line to read or a connection to give up.
ServerCan ==
  \/ answering # Nobody
  \/ backlog # <<>> /\ (Head(backlog).line # NoLine \/ Head(backlog).peer = Gone)

\* Emulator e has a job to ask for or to return, or a line to send.
EmulatorCan(e) ==
  \/ state[e] \in {"idle", "playing"}
  \/ state[e] = "connected" /\ \E i \in PlacesOf(e) : backlog[i].line = NoLine

\* Training stands still only when it is over, when a host went away before it
\* sent its line, or when all have gone: server and emulators never wait for
\* each other (dumber_server.lua:1557, default_client_logic.lua).  ServerCan and
\* EmulatorCan are the guards of their actions, without what is always there.
NeverStuck ==
  \/ finished \/ CutOff
  \/ ServerCan
  \/ \E e \in Emulators : EmulatorCan(e)
  \/ \A e \in Emulators : state[e] = "gone"

\* What happens to one emulator leaves the places of the others.
LEMMA OthersHeard ==
  ASSUME HeardOnce, NEW e \in Emulators,
         \A d \in Emulators \ {e} : state'[d] = state[d] /\ Connections(d)' = Connections(d),
         IF state'[e] = "connected" THEN Single(Connections(e)') ELSE Connections(e)' = {}
  PROVE  HeardOnce'
<1> SUFFICES ASSUME NEW d \in Emulators
             PROVE  IF state'[d] = "connected" THEN Single(Connections(d)') ELSE Connections(d)' = {}
  BY DEF HeardOnce
<1>1. CASE d = e
  BY <1>1
<1>2. CASE d # e
  <2>1. IF state[d] = "connected" THEN Single(Connections(d)) ELSE Connections(d) = {}
    BY DEF HeardOnce
  <2> QED
    BY <1>2, <2>1
<1> QED
  BY <1>1, <1>2

\* The places are positive, so that 0 is none of them.
LEMMA PlacesAre ==
  ASSUME TInv, NEW e \in Emulators
  PROVE  /\ Len(backlog) \in Nat /\ DOMAIN backlog = 1..Len(backlog)
         /\ PlacesOf(e) = {i \in 1..Len(backlog) : backlog[i].peer = e}
         /\ 0 \notin PlacesOf(e)
         /\ e # Nobody /\ e # Gone /\ e # Vanished
<1>1. backlog \in Seq(Entry)
  BY DEF TInv, TypeOK, Entry
<1> QED
  BY <1>1, TcpAssumption DEF PlacesOf

\* A new connection is the last of the backlog.
LEMMA ConnectHeard ==
  ASSUME TInv, HeardOnce, NEW e \in Emulators, Connect(e)
  PROVE  HeardOnce'
<1> DEFINE new == [peer |-> e, line |-> NoLine]
           n == Len(backlog)
<1>1. /\ state[e] # "connected" /\ backlog' = Append(backlog, new)
      /\ state' = [state EXCEPT ![e] = "connected"] /\ answering' = answering
  BY DEF Connect
<1>2. backlog \in Seq(Entry) /\ new \in Entry /\ state \in [Emulators -> EmulatorStates]
  BY DEF TInv, TypeOK, Entry, Peers, EmulatorStates
<1>3. /\ n \in Nat /\ Len(backlog') = n + 1 /\ backlog'[n + 1].peer = e
      /\ \A i \in 1..n : backlog'[i] = backlog[i]
  BY <1>1, <1>2
<1>4. 1..(n + 1) = 1..n \cup {n + 1}
  BY <1>3
<1> HIDE DEF n, new
<1>5. ASSUME NEW d \in Emulators
      PROVE  PlacesOf(d)' = IF d = e THEN PlacesOf(d) \cup {n + 1} ELSE PlacesOf(d)
  <2>1. PlacesOf(d)' = {i \in 1..n \cup {n + 1} : backlog'[i].peer = d}
    BY <1>3, <1>4 DEF PlacesOf
  <2>2. PlacesOf(d) = {i \in 1..n : backlog[i].peer = d}
    BY DEF PlacesOf, n
  <2> QED
    BY <1>3, <2>1, <2>2
<1>6. Connections(e)' = {n + 1}
  <2>1. Connections(e) = {}
    BY <1>1 DEF HeardOnce
  <2> QED
    BY <1>1, <1>5, <2>1 DEF Connections
<1>7. \A d \in Emulators \ {e} : Connections(d)' = Connections(d)
  BY <1>1, <1>5 DEF Connections
<1>8. Single(Connections(e)')
  BY <1>6 DEF Single
<1>9. \A d \in Emulators : state'[d] = IF d = e THEN "connected" ELSE state[d]
  BY <1>1, <1>2
<1> QED
  BY <1>7, <1>8, <1>9, OthersHeard

\* A connection of the backlog goes on with peer p.
LEMMA PlacesChanged ==
  ASSUME TInv, NEW e \in Emulators, NEW i \in PlacesOf(e), NEW x, NEW d \in Emulators,
         backlog' = [backlog EXCEPT ![i] = x]
  PROVE  PlacesOf(d)' = IF x.peer = d THEN PlacesOf(d) \cup {i} ELSE PlacesOf(d) \ {i}
<1>1. backlog \in Seq(Entry) /\ i \in 1..Len(backlog)
  BY DEF TInv, TypeOK, Entry, PlacesOf
<1>2. Len(backlog') = Len(backlog) /\ \A j \in 1..Len(backlog) : backlog'[j] = IF j = i THEN x ELSE backlog[j]
  BY <1>1
<1> QED
  BY <1>1, <1>2 DEF PlacesOf

\* A line that is sent leaves the connection where it is, or gives it up.
LEMMA SendHeard ==
  ASSUME TInv, HeardOnce, NEW e \in Emulators, Send(e)
  PROVE  HeardOnce'
<1>1. /\ state[e] = "connected" /\ answering' = answering
      /\ state \in [Emulators -> EmulatorStates] /\ backlog \in Seq(Entry)
  BY DEF Send, TInv, TypeOK, EmulatorStates, Entry
<1>2. PICK i \in PlacesOf(e) :
        \/ /\ backlog' = [backlog EXCEPT ![i].line = LineOf(e, FALSE)]
           /\ UNCHANGED emulatorVars
        \/ /\ backlog' = [backlog EXCEPT ![i] = [peer |-> Gone, line |-> LineOf(e, TRUE)]]
           /\ Relaunch(e)
  BY DEF Send
<1>3. PlacesOf(e) = {i} /\ answering # e
  <2>1. Single(Connections(e))
    BY <1>1 DEF HeardOnce
  <2>2. i \in Connections(e) /\ (answering = e => 0 \in Connections(e)) /\ i # 0
    BY <1>2, PlacesAre DEF Connections
  <2> QED
    BY <1>2, <2>1, <2>2 DEF Connections, Single
<1>4. i \in 1..Len(backlog) /\ backlog[i].peer = e /\ backlog[i] \in Entry
  BY <1>1, <1>2 DEF PlacesOf
<1>5. CASE backlog' = [backlog EXCEPT ![i].line = LineOf(e, FALSE)] /\ UNCHANGED emulatorVars
  <2> DEFINE x == [backlog[i] EXCEPT !.line = LineOf(e, FALSE)]
  <2>1. x.peer = e /\ backlog' = [backlog EXCEPT ![i] = x]
    BY <1>4, <1>5 DEF Entry
  <2> HIDE DEF x
  <2>2. \A d \in Emulators : PlacesOf(d)' = IF d = e THEN PlacesOf(d) \cup {i} ELSE PlacesOf(d) \ {i}
    BY <1>2, <2>1, PlacesChanged
  <2>3. \A d \in Emulators \ {e} : i \notin PlacesOf(d)
    BY <1>4 DEF PlacesOf
  <2>4. \A d \in Emulators : PlacesOf(d)' = PlacesOf(d)
    BY <1>2, <2>2, <2>3
  <2>5. state' = state
    BY <1>5 DEF emulatorVars
  <2> QED
    BY <1>1, <2>4, <2>5 DEF HeardOnce, Connections
<1>6. CASE /\ backlog' = [backlog EXCEPT ![i] = [peer |-> Gone, line |-> LineOf(e, TRUE)]]
           /\ Relaunch(e)
  <2> DEFINE x == [peer |-> Gone, line |-> LineOf(e, TRUE)]
  <2>1. x.peer = Gone /\ backlog' = [backlog EXCEPT ![i] = x]
    BY <1>6
  <2> HIDE DEF x
  <2>2. \A d \in Emulators : PlacesOf(d)' = PlacesOf(d) \ {i}
    BY <1>2, <2>1, PlacesChanged, PlacesAre
  <2>3. \A d \in Emulators \ {e} : i \notin PlacesOf(d)
    BY <1>4 DEF PlacesOf
  <2>4. \A d \in Emulators \ {e} : PlacesOf(d)' = PlacesOf(d) /\ state'[d] = state[d]
    BY <1>1, <1>6, <2>2, <2>3 DEF Relaunch
  <2>5. PlacesOf(e)' = {} /\ state'[e] = "idle"
    BY <1>1, <1>3, <1>6, <2>2 DEF Relaunch
  <2> QED
    BY <1>1, <1>3, <2>4, <2>5, OthersHeard DEF Connections
<1> QED
  BY <1>2, <1>5, <1>6

\* A process that dies or a host that goes away leaves its connection to nobody.
LEMMA FailureHeard ==
  ASSUME TInv, HeardOnce, NEW e \in Emulators, Kill(e) \/ Vanish(e)
  PROVE  HeardOnce'
<1>1. PICK p \in {Gone, Vanished} :
        /\ backlog' = Abandoned(e, p)
        /\ answering' = IF answering = e THEN p ELSE answering
  BY DEF Kill, Vanish
<1>2. /\ state'[e] \in {"idle", "gone"}
      /\ \A d \in Emulators \ {e} : state'[d] = state[d]
  BY DEF Kill, Vanish, Relaunch, TInv, TypeOK
<1>3. backlog \in Seq(Entry)
  BY DEF TInv, TypeOK, Entry
<1> DEFINE at(i) == IF backlog[i].peer = e THEN [backlog[i] EXCEPT !.peer = p] ELSE backlog[i]
<1>4. /\ Len(backlog') = Len(backlog)
      /\ \A i \in 1..Len(backlog) : backlog'[i].peer = IF backlog[i].peer = e THEN p ELSE backlog[i].peer
  <2>1. Len(backlog) \in Nat /\ \A i \in 1..Len(backlog) : backlog[i] \in Entry
    BY <1>3
  <2>2. \A i \in 1..Len(backlog) : at(i).peer = IF backlog[i].peer = e THEN p ELSE backlog[i].peer
    BY <2>1 DEF Entry
  <2> HIDE DEF at
  <2>3. backlog' = [i \in 1..Len(backlog) |-> at(i)]
    BY <1>1 DEF Abandoned, at
  <2>4. backlog' \in Seq(Entry)
    BY AbandonedMatches, <1>1
  <2>5. Len(backlog') = Len(backlog)
    BY <2>1, <2>3
  <2> QED
    BY <2>2, <2>3, <2>5
<1>5. \A d \in Emulators : d # p
  BY PlacesAre
<1>6. \A d \in Emulators : PlacesOf(d)' = IF d = e THEN {} ELSE PlacesOf(d)
  BY <1>4, <1>5 DEF PlacesOf
<1>7. \A d \in Emulators : Connections(d)' = IF d = e THEN {} ELSE Connections(d)
  BY <1>1, <1>5, <1>6 DEF Connections
<1> QED
  BY <1>2, <1>7, OthersHeard

\* The head of the backlog is taken from it.
LEMMA TailPlaces ==
  ASSUME TInv, backlog # <<>>, backlog' = Tail(backlog), NEW e \in Emulators
  PROVE  /\ 1 \in 1..Len(backlog) /\ Head(backlog) = backlog[1] /\ Head(backlog) \in Entry
         /\ PlacesOf(e)' = {i \in Nat : i + 1 \in PlacesOf(e) /\ i # 0}
<1>1. backlog \in Seq(Entry)
  BY DEF TInv, TypeOK, Entry
<1>2. PICK n \in Nat : n = Len(backlog) /\ n >= 1
  BY <1>1
<1>3. /\ Head(backlog) = backlog[1] /\ Head(backlog) \in Entry
      /\ Len(backlog') = n - 1
      /\ \A i \in 1..(n - 1) : backlog'[i] = backlog[i + 1]
  BY <1>1, <1>2
<1>4. PlacesOf(e)' = {i \in 1..(n - 1) : backlog[i + 1].peer = e}
  BY <1>3 DEF PlacesOf
<1>5. \A i \in Nat : i \in 1..(n - 1) <=> i + 1 \in 1..n /\ i # 0
  BY <1>2
<1>6. PlacesOf(e) = {i \in 1..n : backlog[i].peer = e}
  BY <1>2 DEF PlacesOf
<1>7. 1..(n - 1) \subseteq Nat
  BY <1>2
<1> HIDE DEF Entry
<1>8. PlacesOf(e)' = {i \in Nat : i + 1 \in PlacesOf(e) /\ i # 0}
  BY <1>4, <1>5, <1>6, <1>7
<1> QED
  BY <1>2, <1>3, <1>8

\* Once the head is taken the others are still heard once; its emulator has no
\* place in the backlog.
LEMMA TailHeard ==
  ASSUME TInv, HeardOnce, answering = Nobody, backlog # <<>>, backlog' = Tail(backlog),
         NEW e \in Emulators
  PROVE  /\ Head(backlog).peer = e => state[e] = "connected" /\ PlacesOf(e)' = {}
         /\ Head(backlog).peer # e =>
              IF state[e] = "connected" THEN Single(PlacesOf(e)') ELSE PlacesOf(e)' = {}
<1>1. /\ 1 \in 1..Len(backlog) /\ Head(backlog) = backlog[1]
      /\ PlacesOf(e)' = {i \in Nat : i + 1 \in PlacesOf(e) /\ i # 0}
  BY TailPlaces
<1>2. PlacesOf(e) \subseteq Nat /\ 0 \notin PlacesOf(e) /\ e # Nobody
  BY PlacesAre
<1>3. IF state[e] = "connected" THEN Single(PlacesOf(e)) ELSE PlacesOf(e) = {}
  BY <1>2 DEF HeardOnce, Connections
<1>4. CASE Head(backlog).peer = e
  <2>1. 1 \in PlacesOf(e)
    BY <1>1, <1>4 DEF PlacesOf
  <2>2. state[e] = "connected" /\ PlacesOf(e) = {1}
    BY <1>3, <2>1 DEF Single
  <2>3. \A i \in Nat : i + 1 = 1 => i = 0
    OBVIOUS
  <2> QED
    BY <1>1, <1>4, <2>2, <2>3
<1>5. CASE Head(backlog).peer # e
  <2>1. 1 \notin PlacesOf(e)
    BY <1>1, <1>5 DEF PlacesOf
  <2>2. CASE state[e] = "connected"
    <3>1. PICK c \in Nat : PlacesOf(e) = {c} /\ c # 0 /\ c # 1
      BY <1>2, <1>3, <2>1, <2>2 DEF Single
    <3>2. PICK b \in Nat : b + 1 = c /\ b # 0 /\ \A i \in Nat : i + 1 = c => i = b
      <4>1. c - 1 \in Nat /\ c - 1 + 1 = c /\ c - 1 # 0 /\ \A i \in Nat : i + 1 = c => i = c - 1
        BY <3>1
      <4> QED BY <4>1
    <3>3. PlacesOf(e)' = {b}
      BY <1>1, <3>1, <3>2
    <3> QED
      BY <1>5, <2>2, <3>3 DEF Single
  <2>3. CASE state[e] # "connected"
    BY <1>1, <1>3, <1>5, <2>3
  <2> QED
    BY <2>2, <2>3
<1> QED
  BY <1>4, <1>5

\* Whose line was read is answered, or dismissed and starts again.
LEMMA ReceiveLineHeard ==
  ASSUME TInv, HeardOnce, ReceiveLine
  PROVE  HeardOnce'
<1> DEFINE p == Head(backlog).peer
           m == Head(backlog).line
<1>1. /\ answering = Nobody /\ backlog # <<>> /\ backlog' = Tail(backlog)
      /\ answering' = IF Dismissed(m) THEN Nobody ELSE p
      /\ IF Dismissed(m) /\ p \in Emulators THEN Relaunch(p) ELSE UNCHANGED emulatorVars
  BY DEF ReceiveLine
<1> HIDE DEF p, m
<1>2. state \in [Emulators -> EmulatorStates]
  BY DEF TInv, TypeOK, EmulatorStates
<1> SUFFICES ASSUME NEW e \in Emulators
             PROVE  IF state'[e] = "connected" THEN Single(Connections(e)') ELSE Connections(e)' = {}
  BY DEF HeardOnce
<1>3. /\ p = e => state[e] = "connected" /\ PlacesOf(e)' = {}
      /\ p # e => IF state[e] = "connected" THEN Single(PlacesOf(e)') ELSE PlacesOf(e)' = {}
  BY <1>1, TailHeard DEF p
<1>4. e # Nobody
  BY PlacesAre
<1>5. CASE Dismissed(m) /\ p = e
  BY <1>1, <1>2, <1>3, <1>4, <1>5 DEF Relaunch, Connections
<1>6. CASE ~ Dismissed(m) /\ p = e
  <2>1. Connections(e)' = {0} /\ state'[e] = "connected"
    BY <1>1, <1>3, <1>6 DEF Connections, emulatorVars
  <2> QED
    BY <2>1 DEF Single
<1>7. CASE p # e
  <2>1. Connections(e)' = PlacesOf(e)' /\ state'[e] = state[e]
    BY <1>1, <1>2, <1>4, <1>7 DEF Connections, Relaunch, emulatorVars
  <2> QED
    BY <1>3, <1>7, <2>1
<1> QED
  BY <1>5, <1>6, <1>7

\* A connection given up is nobody's.
LEMMA ReceiveFailsHeard ==
  ASSUME TInv, HeardOnce, ReceiveFails
  PROVE  HeardOnce'
<1>1. /\ answering = Nobody /\ backlog # <<>> /\ backlog' = Tail(backlog)
      /\ Head(backlog).peer = Gone /\ answering' = Nobody /\ state' = state
  BY DEF ReceiveFails, emulatorVars
<1> SUFFICES ASSUME NEW e \in Emulators
             PROVE  IF state'[e] = "connected" THEN Single(Connections(e)') ELSE Connections(e)' = {}
  BY DEF HeardOnce
<1>2. e # Nobody /\ e # Gone
  BY PlacesAre
<1>3. IF state[e] = "connected" THEN Single(PlacesOf(e)') ELSE PlacesOf(e)' = {}
  BY <1>1, <1>2, TailHeard
<1> QED
  BY <1>1, <1>2, <1>3 DEF Connections

\* Who is answered plays or waits, and is at no place any more.
LEMMA AnswerHeard ==
  ASSUME TInv, HeardOnce, AnswerOpen \/ AnswerNew
  PROVE  HeardOnce'
<1>1. PICK held, w : Deliver(answering, held, w)
  BY DEF AnswerOpen, AnswerNew, AnswerFrom
<1>2. answering # Nobody /\ answering' = Nobody /\ backlog' = backlog
  BY DEF AnswerOpen, AnswerNew
<1>3. state \in [Emulators -> EmulatorStates]
  BY DEF TInv, TypeOK, EmulatorStates
<1> SUFFICES ASSUME NEW e \in Emulators
             PROVE  IF state'[e] = "connected" THEN Single(Connections(e)') ELSE Connections(e)' = {}
  BY DEF HeardOnce
<1>4. IF state[e] = "connected" THEN Single(Connections(e)) ELSE Connections(e) = {}
  BY DEF HeardOnce
<1>5. e # Nobody /\ 0 \notin PlacesOf(e) /\ PlacesOf(e)' = PlacesOf(e)
  BY <1>2, PlacesAre DEF PlacesOf
<1>6. CASE answering = e
  <2>1. 0 \in Connections(e)
    BY <1>6 DEF Connections
  <2>2. Connections(e) = {0}
    BY <1>4, <2>1 DEF Single
  <2>3. Connections(e)' = {}
    BY <1>2, <1>5, <1>6, <2>2 DEF Connections
  <2>4. state'[e] \in {"idle", "playing"}
    BY <1>1, <1>3, <1>6 DEF Deliver
  <2> QED
    BY <2>3, <2>4
<1>7. CASE answering # e
  BY <1>1, <1>2, <1>3, <1>4, <1>5, <1>7 DEF Deliver, Connections
<1> QED
  BY <1>6, <1>7

\* Nobody is heard twice: an emulator that waits has one connection, which the
\* server has yet to serve or is serving, and nothing is left at the server of
\* one that plays, died or went away (dumber_server.lua:1557).
THEOREM TcpHeardOnce == SafetySpec => []HeardOnce
<1>1. Init => HeardOnce
  <2> SUFFICES ASSUME Init, NEW e \in Emulators
               PROVE  state[e] # "connected" /\ Connections(e) = {}
    BY DEF HeardOnce
  <2>1. backlog = <<>> /\ answering = Nobody /\ state[e] = "idle" /\ e # Nobody
    BY TcpAssumption DEF Init
  <2>2. Len(backlog) = 0
    BY <2>1
  <2>3. 1..0 = {}
    OBVIOUS
  <2> QED
    BY <2>1, <2>2, <2>3 DEF Connections, PlacesOf
<1>2. TInv /\ HeardOnce /\ [Next]_vars => HeardOnce'
  <2> SUFFICES ASSUME TInv, HeardOnce, [Next]_vars
               PROVE  HeardOnce'
    OBVIOUS
  <2>1. CASE ReceiveLine \/ ReceiveFails \/ AnswerOpen \/ AnswerNew
    BY <2>1, ReceiveLineHeard, ReceiveFailsHeard, AnswerHeard
  <2>2. CASE \E e \in Emulators : Connect(e) \/ Send(e) \/ Kill(e) \/ Vanish(e)
    BY <2>2, ConnectHeard, SendHeard, FailureHeard
  <2>3. CASE UNCHANGED vars
    BY <2>3 DEF vars, emulatorVars, HeardOnce, Connections, PlacesOf
  <2> QED
    BY <2>1, <2>2, <2>3 DEF Next, Server, Over
<1> QED
  BY <1>1, <1>2, TcpInvariant, PTL DEF SafetySpec

\* "Any number of clients may fail and we won't get stuck" (dumber_server.lua:13):
\* while training is not over and somebody is left, the server or an emulator
\* can go on, unless the server waits for the line of a host that went away.
THEOREM TcpNeverStuck == SafetySpec => []NeverStuck
<1>1. TInv /\ HeardOnce => NeverStuck
  <2> SUFFICES ASSUME TInv, HeardOnce, ~ CutOff, ~ ServerCan,
                      NEW d \in Emulators, state[d] # "gone"
               PROVE  \E e \in Emulators : EmulatorCan(e)
    BY DEF NeverStuck
  <2>1. CASE state[d] # "connected"
    <3>1. state[d] \in {"idle", "playing"}
      BY <2>1 DEF TInv, TypeOK
    <3> QED
      BY <3>1 DEF EmulatorCan
  <2>2. CASE state[d] = "connected"
    <3>1. answering = Nobody /\ backlog \in Seq(Entry)
      BY DEF ServerCan, TInv, TypeOK, Entry
    <3>2. PICK i : i \in PlacesOf(d)
      BY <2>2, <3>1, PlacesAre DEF HeardOnce, Connections, Single
    <3>3. backlog # <<>> /\ Head(backlog) = backlog[1] /\ Head(backlog) \in Entry
          /\ 1 \in 1..Len(backlog)
      BY <3>1, <3>2 DEF PlacesOf
    <3>4. Head(backlog).line = NoLine /\ Head(backlog).peer \in Emulators
      <4>1. Head(backlog).line = NoLine /\ Head(backlog).peer # Gone
        BY <3>3 DEF ServerCan
      <4>2. Head(backlog).peer # Vanished
        BY <3>3, <4>1 DEF CutOff, Entry
      <4> QED
        BY <3>3, <4>1, <4>2 DEF Entry, Peers
    <3>5. PICK e \in Emulators : Head(backlog).peer = e
      BY <3>4
    <3>6. 1 \in PlacesOf(e) /\ backlog[1].line = NoLine
      BY <3>3, <3>4, <3>5 DEF PlacesOf
    <3>7. state[e] = "connected"
      BY <3>6 DEF HeardOnce, Connections
    <3> QED
      BY <3>6, <3>7 DEF EmulatorCan
  <2> QED
    BY <2>1, <2>2
<1> QED
  BY <1>1, TcpInvariant, TcpHeardOnce, PTL
=============================================================================
