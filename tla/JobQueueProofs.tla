--------------------------- MODULE JobQueueProofs ---------------------------
(***************************************************************************)
(* What the operators of JobQueue return, for every population, set of     *)
(* levels and split factor.                                                *)
(***************************************************************************)
EXTENDS JobQueue, FiniteSetTheorems, FunctionTheorems, WellFoundedInduction, TLAPS

\* A non-empty set of natural numbers has a least element.
LEMMA MinimumExists ==
  ASSUME NEW T \in SUBSET Nat, T # {}
  PROVE  \E n \in T : \A m \in T : n <= m
<1> DEFINE R == {p \in Nat \X Nat : p[1] < p[2]}
<1>1. IsWellFoundedOn(R, Nat)
  BY NatLessThanWellFounded DEF OpToRel
<1>2. \A m, n \in T : m < n => <<m, n>> \in R
  OBVIOUS
<1> HIDE DEF R
<1>3. PICK n \in T : \A m \in T : ~ (<<m, n>> \in R)
  BY <1>1, WFMin, Zenon
<1>4. \A m \in T : ~ (m < n)
  BY <1>2, <1>3
<1>5. \A m \in T : n <= m
  BY <1>4
<1> QED
  BY <1>5

\* advanceJobsIndex stops at an open job whenever there is one.
LEMMA NextIndexIsOpen ==
  ASSUME NEW q, NEW index, NEW scored, Len(q) \in Nat, OpenJobs(q, scored) # {}
  PROVE  NextIndex(q, index, scored) \in OpenJobs(q, scored)
<1> DEFINE ahead == {n \in OpenJobs(q, scored) : n > index}
           from == IF ahead # {} THEN ahead ELSE OpenJobs(q, scored)
<1>1. from \in SUBSET Nat /\ from # {} /\ from \subseteq OpenJobs(q, scored)
  BY DEF OpenJobs
<1>2. \E n \in from : \A m \in from : n <= m
  <2> HIDE DEF from
  <2> QED BY <1>1, MinimumExists
<1>3. NextIndex(q, index, scored) = CHOOSE n \in from : \A m \in from : n <= m
  BY DEF NextIndex
<1>4. NextIndex(q, index, scored) \in from
  <2> HIDE DEF from
  <2> QED BY <1>2, <1>3
<1> QED
  BY <1>1, <1>4

\* A layout lists every member once: there are as many as genomes in the pool.
LEMMA MembersCount ==
  ASSUME NEW lay \in Layouts
  PROVE  /\ Members(lay) \in SUBSET Genomes
         /\ IsFiniteSet(Members(lay))
         /\ Cardinality(Members(lay)) = Population
<1>1. lay \in [1..Population -> Genomes]
  BY DEF Layouts
<1>2. \A i, j \in 1..Population : lay[i] = lay[j] => i = j
  BY DEF Layouts
<1>3. Members(lay) \in SUBSET Genomes
  BY <1>1 DEF Members
<1>4. lay \in Bijection(1..Population, Members(lay))
  BY <1>1, <1>2 DEF Members, Bijection, Injection, Surjection, IsInjective
<1>5. ExistsBijection(1..Population, Members(lay))
  BY <1>4 DEF ExistsBijection
<1>6. Population \in Nat
  BY PopulationAssumption
<1>7. IsFiniteSet(1..Population) /\ Cardinality(1..Population) = Population
  BY <1>6, FS_Interval
<1>8. IsFiniteSet(Members(lay)) /\ Cardinality(Members(lay)) = Population
  BY <1>5, <1>7, FS_Bijection
<1> QED
  BY <1>3, <1>8

\* The queue of a new generation: a well-formed job for every genome.
LEMMA FreshJobsType ==
  ASSUME NEW lay \in Layouts
  PROVE  /\ FreshJobs(lay) \in Seq(Job)
         /\ Len(FreshJobs(lay)) = Population
         /\ \A n \in 1..Population :
              FreshJobs(lay)[n] = [genome |-> lay[n], levels |-> Levels]
<1>1. Population \in Nat
  BY PopulationAssumption
<1>2. lay \in [1..Population -> Genomes]
  BY DEF Layouts
<1> QED
  BY <1>1, <1>2 DEF FreshJobs, Job

\* createPartitions: at least two parts, none of them empty, that share the
\* levels out ("TODO: Verify there are no empty sets?").
LEMMA PartitionsShare ==
  ASSUME NEW ls \in SUBSET Levels, NEW goal \in Nat, goal > 1, Cardinality(ls) > 1,
         NEW p \in Partitions(ls, goal)
  PROVE  \E k \in Nat :
           /\ k > 1
           /\ p \in [1..k -> SUBSET ls]
           /\ \A i \in 1..k : p[i] # {}
           /\ \A l \in ls : \E i \in 1..k : l \in p[i]
           /\ \A i, j \in 1..k : i # j => p[i] \cap p[j] = {}
<1> DEFINE size == Cardinality(ls)
           k == IF size < goal THEN size ELSE goal
<1>1. size \in Nat
  BY LevelsAssumption, FS_Subset, FS_CardinalityType
<1>2. k \in Nat /\ k > 1 /\ k <= size
  BY <1>1
<1>3. /\ p \in [1..k -> SUBSET ls]
      /\ \A i \in 1..k :
           Cardinality(p[i]) = size \div k + (IF i <= size % k THEN 1 ELSE 0)
      /\ \A l \in ls : \E i \in 1..k : l \in p[i]
      /\ \A i, j \in 1..k : i # j => p[i] \cap p[j] = {}
  BY DEF Partitions
<1>4. size \div k >= 1
  <2> HIDE DEF size, k
  <2> QED BY <1>1, <1>2
<1>5. ASSUME NEW i \in 1..k PROVE p[i] # {}
  <2>1. Cardinality(p[i]) # 0
    <3>1. size \div k \in Nat
      <4> HIDE DEF size, k
      <4> QED BY <1>1, <1>2, <1>4
    <3> HIDE DEF size, k
    <3> QED BY <1>3, <1>4, <3>1
  <2> QED BY <2>1, FS_EmptySet
<1> HIDE DEF k
<1> QED
  BY <1>2, <1>3, <1>5

\* The queue after a split: well-formed, the other jobs as they were, and the
\* parts in place of the job they come from.
LEMMA ExplodedJobs ==
  ASSUME NEW q \in Seq(Job), NEW n \in 1..Len(q), NEW k \in Nat, k > 1,
         NEW p \in [1..k -> SUBSET q[n].levels],
         NEW e, e = Exploded(q, n, p)
  PROVE  /\ e \in Seq(Job)
         /\ Len(e) = Len(q) - 1 + k
         /\ \A m \in 1..(n - 1) : e[m] = q[m]
         /\ \A m \in n..(n + k - 1) :
              e[m] = [genome |-> q[n].genome, levels |-> p[n + k - m]]
         /\ \A m \in (n + k)..Len(e) : e[m] = q[m + 1 - k]
<1> DEFINE N == Len(q) - 1 + k
           at(m) == IF m < n THEN q[m]
                    ELSE IF m < n + k
                         THEN [genome |-> q[n].genome, levels |-> p[n + k - m]]
                         ELSE q[m + 1 - k]
<1>1. Len(p) = k
  OBVIOUS
<1>2. e = [m \in 1..N |-> at(m)]
  BY <1>1 DEF Exploded
<1>3. /\ Len(q) \in Nat /\ N \in Nat /\ q[n] \in Job
      /\ n \in Nat /\ n >= 1 /\ n <= Len(q)
  OBVIOUS
<1>4. ASSUME NEW m \in 1..N PROVE at(m) \in Job
  <2>1. CASE m < n
    BY <2>1, <1>3
  <2>2. CASE ~ (m < n) /\ m < n + k
    <3>1. n + k - m \in 1..k
      BY <2>2, <1>3
    <3>2. p[n + k - m] \in SUBSET Levels
      BY <3>1, <1>3 DEF Job
    <3> QED BY <2>2, <3>2, <1>3 DEF Job
  <2>3. CASE ~ (m < n) /\ ~ (m < n + k)
    <3>1. m + 1 - k \in 1..Len(q)
      BY <2>3, <1>3
    <3> QED BY <2>3, <3>1
  <2> QED BY <2>1, <2>2, <2>3
<1>5. e \in Seq(Job) /\ Len(e) = N
  <2> HIDE DEF at
  <2> QED BY <1>2, <1>3, <1>4
<1>6. \A m \in 1..N : e[m] = at(m)
  <2> HIDE DEF at
  <2> QED BY <1>2
<1>7. \A m \in 1..(n - 1) : e[m] = q[m]
  <2> SUFFICES ASSUME NEW m \in 1..(n - 1) PROVE e[m] = q[m]
    OBVIOUS
  <2>1. m \in 1..N /\ m < n
    BY <1>3
  <2>2. e[m] = at(m)
    BY <1>6, <2>1
  <2> QED BY <2>1, <2>2
<1>8. \A m \in n..(n + k - 1) :
        e[m] = [genome |-> q[n].genome, levels |-> p[n + k - m]]
  <2> SUFFICES ASSUME NEW m \in n..(n + k - 1)
               PROVE  e[m] = [genome |-> q[n].genome, levels |-> p[n + k - m]]
    OBVIOUS
  <2>1. m \in 1..N /\ ~ (m < n) /\ m < n + k
    BY <1>3
  <2>2. e[m] = at(m)
    BY <1>6, <2>1
  <2> QED BY <2>1, <2>2
<1>9. \A m \in (n + k)..Len(e) : e[m] = q[m + 1 - k]
  <2> SUFFICES ASSUME NEW m \in (n + k)..Len(e) PROVE e[m] = q[m + 1 - k]
    OBVIOUS
  <2>1. m \in 1..N /\ ~ (m < n) /\ ~ (m < n + k)
    BY <1>3, <1>5
  <2>2. e[m] = at(m)
    BY <1>6, <2>1
  <2> QED BY <2>1, <2>2
<1> QED
  BY <1>5, <1>7, <1>8, <1>9

\* splitFactor, rounded down.
LEMMA SplitFactorType ==
  ASSUME NEW active \in Nat, NEW count \in Nat, count # 0
  PROVE  SplitFactor(active, count) \in Nat
<1>1. Cardinality(Levels) \in Nat
  BY LevelsAssumption, FS_CardinalityType
<1>2. active * EmulatorsPerClient * SplitsPerEmulator \in Nat
  BY SplitAssumption
<1>3. (active * EmulatorsPerClient * SplitsPerEmulator) \div count \in Nat
  BY <1>2
<1> QED
  BY <1>1, <1>3 DEF SplitFactor

\* A queue that may have been split has jobs for the same genomes as before.
LEMMA MaybeExplodedJobs ==
  ASSUME NEW q \in Seq(Job), NEW n \in 1..Len(q),
         NEW active \in Nat, NEW count \in Nat, count # 0,
         NEW e \in MaybeExploded(q, n, active, count)
  PROVE  /\ e \in Seq(Job)
         /\ Len(e) >= Len(q)
         /\ \A i \in 1..Len(q) : \E m \in 1..Len(e) : e[m].genome = q[i].genome
         /\ \A m \in 1..Len(e) : \E i \in 1..Len(q) : e[m].genome = q[i].genome
<1> DEFINE factor == SplitFactor(active, count)
<1>1. CASE e = q
  BY <1>1
<1>2. CASE e # q
  <2>1. factor > 1 /\ Cardinality(q[n].levels) > 1
    BY <1>2 DEF MaybeExploded
  <2>2. PICK p \in Partitions(q[n].levels, factor) : e = Exploded(q, n, p)
    BY <2>1 DEF MaybeExploded
  <2>3. factor \in Nat
    BY SplitFactorType
  <2>4. q[n].levels \in SUBSET Levels
    <3>1. q[n] \in Job
      OBVIOUS
    <3> QED BY <3>1 DEF Job
  <2>5. PICK k \in Nat : k > 1 /\ p \in [1..k -> SUBSET q[n].levels]
    <3> HIDE DEF factor
    <3> QED BY <2>1, <2>2, <2>3, <2>4, PartitionsShare
  <2>6. /\ e \in Seq(Job)
        /\ Len(e) = Len(q) - 1 + k
        /\ \A m \in 1..(n - 1) : e[m] = q[m]
        /\ \A m \in n..(n + k - 1) :
             e[m] = [genome |-> q[n].genome, levels |-> p[n + k - m]]
        /\ \A m \in (n + k)..Len(e) : e[m] = q[m + 1 - k]
    <3>1. k > 1 /\ p \in [1..k -> SUBSET q[n].levels]
      BY <2>5
    <3> QED BY <2>2, <3>1, ExplodedJobs
  <2>7. Len(q) \in Nat /\ Len(e) >= Len(q) /\ n \in Nat /\ n >= 1 /\ n <= Len(q)
    BY <2>5, <2>6
  <2>8. ASSUME NEW i \in 1..Len(q) PROVE \E m \in 1..Len(e) : e[m].genome = q[i].genome
    <3>1. CASE i < n
      BY <3>1, <2>6, <2>7
    <3>2. CASE i = n
      <4>1. n \in 1..Len(e) /\ n \in n..(n + k - 1)
        BY <2>5, <2>7
      <4>2. e[n] = [genome |-> q[n].genome, levels |-> p[n + k - n]]
        BY <4>1, <2>6
      <4>3. e[n].genome = q[n].genome
        BY <4>2
      <4> QED BY <3>2, <4>1, <4>3
    <3>3. CASE i > n
      <4>1. i + k - 1 \in (n + k)..Len(e) /\ i + k - 1 \in 1..Len(e) /\ i = (i + k - 1) + 1 - k
        BY <3>3, <2>5, <2>6, <2>7
      <4> QED BY <4>1, <2>6
    <3> QED BY <3>1, <3>2, <3>3
  <2>9. ASSUME NEW m \in 1..Len(e) PROVE \E i \in 1..Len(q) : e[m].genome = q[i].genome
    <3>1. CASE m < n
      BY <3>1, <2>6, <2>7
    <3>2. CASE m \in n..(n + k - 1)
      <4>1. e[m] = [genome |-> q[n].genome, levels |-> p[n + k - m]]
        BY <3>2, <2>6
      <4>2. e[m].genome = q[n].genome
        BY <4>1
      <4> QED BY <4>2
    <3>3. CASE m >= n + k
      <4>1. m \in (n + k)..Len(e) /\ m + 1 - k \in 1..Len(q)
        BY <3>3, <2>5, <2>6, <2>7
      <4> QED BY <4>1, <2>6
    <3> QED BY <3>1, <3>2, <3>3, <2>5, <2>7
  <2> QED BY <2>6, <2>7, <2>8, <2>9
<1> QED BY <1>1, <1>2

-----------------------------------------------------------------------------
\* Job n of a queue asks for level l of genome g.
AsksFor(q, n, g, l) == q[n].genome = g /\ l \in q[n].levels

\* The jobs of a queue share the levels of the genomes of a layout out.
SharesLevels(q, lay) ==
  /\ \A n \in 1..Len(q) : q[n].genome \in Members(lay) /\ q[n].levels # {}
  /\ \A g \in Members(lay), l \in Levels : \E n \in 1..Len(q) : AsksFor(q, n, g, l)
  /\ \A g \in Members(lay), l \in Levels : \A n, m \in 1..Len(q) :
       AsksFor(q, n, g, l) /\ AsksFor(q, m, g, l) => n = m

\* In the queue of a new generation each genome has one job.
LEMMA FreshJobsShare ==
  ASSUME NEW lay \in Layouts
  PROVE  SharesLevels(FreshJobs(lay), lay)
<1> DEFINE q == FreshJobs(lay)
<1>1. Len(q) = Population
  BY FreshJobsType
<1>2. ASSUME NEW n \in 1..Population PROVE q[n].genome = lay[n] /\ q[n].levels = Levels
  <2>1. q[n] = [genome |-> lay[n], levels |-> Levels]
    BY FreshJobsType
  <2> HIDE DEF q
  <2> QED BY <2>1
<1>3. \A i, j \in 1..Population : lay[i] = lay[j] => i = j
  BY DEF Layouts
<1> HIDE DEF q
<1>4. \A n \in 1..Len(q) : q[n].genome \in Members(lay) /\ q[n].levels # {}
  BY <1>1, <1>2, LevelsAssumption DEF Members
<1>5. \A g \in Members(lay), l \in Levels : \E n \in 1..Len(q) : AsksFor(q, n, g, l)
  BY <1>1, <1>2 DEF Members, AsksFor
<1>6. \A g \in Members(lay), l \in Levels : \A n, m \in 1..Len(q) :
        AsksFor(q, n, g, l) /\ AsksFor(q, m, g, l) => n = m
  BY <1>1, <1>2, <1>3 DEF AsksFor
<1> QED
  BY <1>4, <1>5, <1>6 DEF SharesLevels, q

\* Splitting a job, however often, leaves the levels shared out.
LEMMA MaybeExplodedShares ==
  ASSUME NEW lay \in Layouts, NEW q \in Seq(Job), NEW n \in 1..Len(q),
         NEW active \in Nat, NEW count \in Nat, count # 0,
         NEW e \in MaybeExploded(q, n, active, count),
         SharesLevels(q, lay)
  PROVE  SharesLevels(e, lay)
<1> DEFINE factor == SplitFactor(active, count)
<1>1. CASE e = q
  BY <1>1
<1>2. CASE e # q
  <2>1. factor > 1 /\ Cardinality(q[n].levels) > 1
    BY <1>2 DEF MaybeExploded
  <2>2. PICK p \in Partitions(q[n].levels, factor) : e = Exploded(q, n, p)
    BY <2>1 DEF MaybeExploded
  <2>3. factor \in Nat
    BY SplitFactorType
  <2>4. q[n].levels \in SUBSET Levels
    <3>1. q[n] \in Job
      OBVIOUS
    <3> QED BY <3>1 DEF Job
  <2>5. PICK k \in Nat : /\ k > 1
                         /\ p \in [1..k -> SUBSET q[n].levels]
                         /\ \A i \in 1..k : p[i] # {}
                         /\ \A l \in q[n].levels : \E i \in 1..k : l \in p[i]
                         /\ \A i, j \in 1..k : i # j => p[i] \cap p[j] = {}
    <3> HIDE DEF factor
    <3> QED BY <2>1, <2>2, <2>3, <2>4, PartitionsShare
  <2>6. /\ e \in Seq(Job)
        /\ Len(e) = Len(q) - 1 + k
        /\ \A m \in 1..(n - 1) : e[m] = q[m]
        /\ \A m \in n..(n + k - 1) :
             e[m] = [genome |-> q[n].genome, levels |-> p[n + k - m]]
        /\ \A m \in (n + k)..Len(e) : e[m] = q[m + 1 - k]
    <3>1. k > 1 /\ p \in [1..k -> SUBSET q[n].levels]
      BY <2>5
    <3> QED BY <2>2, <3>1, ExplodedJobs
  <2>7. Len(q) \in Nat /\ n \in Nat /\ n >= 1 /\ n <= Len(q) /\ Len(e) \in Nat
    BY <2>5, <2>6
  <2>8. \A i \in 1..Len(q) : q[i].genome \in Members(lay) /\ q[i].levels # {}
    BY DEF SharesLevels
  \* Where a job of the new queue comes from.
  <2> DEFINE from(m) == IF m < n THEN m ELSE IF m < n + k THEN n ELSE m + 1 - k
  <2>9. ASSUME NEW m \in 1..Len(e)
        PROVE  /\ from(m) \in 1..Len(q)
               /\ e[m].genome = q[from(m)].genome
               /\ e[m].levels \subseteq q[from(m)].levels
               /\ e[m].levels # {}
               /\ m \in n..(n + k - 1) => e[m].levels = p[n + k - m]
    <3>1. CASE m < n
      <4>1. m \in 1..(n - 1) /\ m \in 1..Len(q) /\ from(m) = m /\ ~ (m \in n..(n + k - 1))
        BY <3>1, <2>5, <2>7
      <4>2. e[m] = q[from(m)]
        BY <4>1, <2>6
      <4> HIDE DEF from
      <4> QED BY <4>1, <4>2, <2>8
    <3>2. CASE m \in n..(n + k - 1)
      <4>1. e[m] = [genome |-> q[n].genome, levels |-> p[n + k - m]]
        BY <3>2, <2>6
      <4>2. e[m].genome = q[n].genome /\ e[m].levels = p[n + k - m]
        BY <4>1
      <4>3. n + k - m \in 1..k /\ from(m) = n
        BY <3>2, <2>5, <2>7
      <4>4. p[n + k - m] \subseteq q[n].levels /\ p[n + k - m] # {}
        BY <4>3, <2>5
      <4> HIDE DEF from
      <4> QED BY <4>2, <4>3, <4>4, <2>7
    <3>3. CASE m >= n + k
      <4>1. m \in (n + k)..Len(e) /\ m + 1 - k \in 1..Len(q) /\ from(m) = m + 1 - k
        BY <3>3, <2>5, <2>6, <2>7
      <4>2. e[m] = q[from(m)] /\ ~ (m \in n..(n + k - 1))
        BY <4>1, <3>3, <2>5, <2>6, <2>7
      <4> HIDE DEF from
      <4> QED BY <4>1, <4>2, <2>8
    <3>4. m < n \/ m \in n..(n + k - 1) \/ m >= n + k
      BY <2>5, <2>7
    <3> HIDE DEF from
    <3> QED BY <3>1, <3>2, <3>3, <3>4
  <2>10. \A m \in 1..Len(e) : e[m].genome \in Members(lay) /\ e[m].levels # {}
    <3> HIDE DEF from
    <3> QED BY <2>8, <2>9
  <2>11. ASSUME NEW g \in Members(lay), NEW l \in Levels
         PROVE  \E m \in 1..Len(e) : AsksFor(e, m, g, l)
    <3>1. PICK i \in 1..Len(q) : AsksFor(q, i, g, l)
      BY DEF SharesLevels
    <3>2. CASE i < n
      BY <3>1, <3>2, <2>5, <2>6, <2>7 DEF AsksFor
    <3>3. CASE i = n
      <4>1. PICK j \in 1..k : l \in p[j]
        BY <3>1, <3>3, <2>5 DEF AsksFor
      <4>2. n + k - j \in n..(n + k - 1) /\ n + k - j \in 1..Len(e) /\ n + k - (n + k - j) = j
        BY <2>5, <2>6, <2>7
      <4>3. e[n + k - j] = [genome |-> q[n].genome, levels |-> p[j]]
        BY <4>2, <2>6
      <4>4. e[n + k - j].genome = q[n].genome /\ e[n + k - j].levels = p[j]
        BY <4>3
      <4> QED BY <3>1, <3>3, <4>1, <4>2, <4>4 DEF AsksFor
    <3>4. CASE i > n
      <4>1. i + k - 1 \in (n + k)..Len(e) /\ i + k - 1 \in 1..Len(e) /\ i = (i + k - 1) + 1 - k
        BY <3>4, <2>5, <2>6, <2>7
      <4>2. e[i + k - 1] = q[i]
        BY <4>1, <2>6
      <4> QED BY <3>1, <4>1, <4>2 DEF AsksFor
    <3> QED BY <3>2, <3>3, <3>4
  <2>12. ASSUME NEW g \in Members(lay), NEW l \in Levels,
                NEW a \in 1..Len(e), NEW b \in 1..Len(e),
                AsksFor(e, a, g, l), AsksFor(e, b, g, l)
         PROVE  a = b
    <3>1. AsksFor(q, from(a), g, l) /\ AsksFor(q, from(b), g, l)
      <4> HIDE DEF from
      <4> QED BY <2>9, <2>12 DEF AsksFor
    <3>2. from(a) = from(b)
      <4> HIDE DEF from
      <4> QED BY <2>9, <3>1 DEF SharesLevels
    <3>3. CASE a \in n..(n + k - 1)
      <4>1. b \in n..(n + k - 1)
        BY <3>2, <3>3, <2>5, <2>7
      <4>2. l \in p[n + k - a] /\ l \in p[n + k - b]
        BY <2>9, <2>12, <3>3, <4>1 DEF AsksFor
      <4>3. n + k - a \in 1..k /\ n + k - b \in 1..k
        BY <3>3, <4>1, <2>5, <2>7
      <4>4. n + k - a = n + k - b
        BY <4>2, <4>3, <2>5
      <4> QED BY <3>3, <4>1, <4>4, <2>5, <2>7
    <3>4. CASE ~ (a \in n..(n + k - 1))
      BY <3>2, <3>4, <2>5, <2>7
    <3> QED BY <3>3, <3>4
  <2> QED
    BY <2>10, <2>11, <2>12 DEF SharesLevels
<1> QED BY <1>1, <1>2
=============================================================================
