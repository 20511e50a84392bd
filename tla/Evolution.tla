----------------------------- MODULE Evolution -----------------------------
(***************************************************************************)
(* How zmqserver.lua breeds one generation of networks from the one before *)
(* (lines 287-930): the first pool, selection by species, children copied  *)
(* or crossed over and then mutated, and their placement into species.     *)
(*                                                                         *)
(* A genome is its set of genes, the number of its last neuron and its     *)
(* fitness; a gene joins neuron into to neuron out.  Weights are left out: *)
(* where the code compares them, either verdict is possible.  A fitness is *)
(* any member of Fitnesses, positive as calculateFitness makes it, and two *)
(* that differ do so by more than the 0.001 of line 1604.                  *)
(*                                                                         *)
(* Bounds: MaxInnovation caps the innovations given out, MaxGenes the      *)
(* genes of a genome, StopGeneration the generations; no genome has more   *)
(* than MaxNodes neurons besides the outputs (1000000 in the code, which   *)
(* does not look).                                                         *)
(***************************************************************************)
EXTENDS Integers, FiniteSets, Sequences, FiniteSetsExt

CONSTANTS Population, Inputs, Outputs, MaxNodes, StaleSpecies,
          DeltaDisjoint, DeltaThreshold, Fitnesses,
          MaxInnovation, MaxGenes, StopGeneration,
          NoGenome

ASSUME EvolutionAssumption ==
  /\ Population \in Nat \ {0} /\ Inputs \in Nat \ {0} /\ Outputs \in Nat \ {0}
  /\ MaxNodes \in Nat /\ MaxNodes > Inputs
  /\ StaleSpecies \in Nat /\ DeltaDisjoint \in Nat /\ DeltaThreshold \in Nat
  /\ Fitnesses \subseteq Nat \ {0}
  /\ MaxInnovation \in Nat /\ MaxGenes \in Nat /\ StopGeneration \in Nat

VARIABLES
  species,      \* pool.species: genomes, topFitness and staleness of each
  innovation,   \* pool.innovation, the last number given to a gene
  maxFitness,   \* pool.maxFitness
  generation,   \* pool.generation
  stage,        \* where the server is: founding the pool, playing it, ...
  owed,         \* the children newGeneration still owes each species
  children,     \* its children so far
  child,        \* the genome being mutated, or NoGenome
  turn          \* the kind of mutation it has got to

pool == <<species, innovation, maxFitness, generation>>
vars == <<pool, stage, owed, children, child, turn>>

Stages == {"found", "play", "played", "breed", "fill", "place"}

\* The kinds of mutation that change more than weights, in mutate's order.
Link == 1
Bias == 2
Node == 3
Enable == 4
Disable == 5

(* Genomes *)
OutputNeurons == {MaxNodes + o : o \in 1..Outputs}

Gene == [into : Nat, out : Nat, innovation : Nat, enabled : BOOLEAN]

Genome == [genes : SUBSET Gene, maxneuron : Nat, fitness : Nat]

BasicGenome == [genes |-> {}, maxneuron |-> Inputs, fitness |-> 0]

\* copyGenome: the fitness of the parent is not copied.
Copy(genome) == [genome EXCEPT !.fitness = 0]

\* The genes of g2 that crossover may put in the place of gene.
Matches(gene, g2) ==
  {gene2 \in g2.genes : gene2.innovation = gene.innovation /\ gene2.enabled}

\* Not the code: crossover adds the match of a gene and the gene too.
Crossings_Both(g1, g2) ==
  {[genes     |-> g1.genes
                    \cup {CHOOSE m \in Matches(gene, g2) : TRUE : gene \in swapped},
    maxneuron |-> IF g1.maxneuron < g2.maxneuron THEN g2.maxneuron
                                                 ELSE g1.maxneuron,
    fitness   |-> 0] :
     swapped \in SUBSET {gene \in g1.genes : Matches(gene, g2) # {}}}

\* crossover with g1 the fitter: the child has its genes, some replaced by
\* their match in g2.
Crossings(g1, g2) ==
  {[genes     |-> (g1.genes \ swapped)
                    \cup {CHOOSE m \in Matches(gene, g2) : TRUE : gene \in swapped},
    maxneuron |-> IF g1.maxneuron < g2.maxneuron THEN g2.maxneuron
                                                 ELSE g1.maxneuron,
    fitness   |-> 0] :
     swapped \in SUBSET {gene \in g1.genes : Matches(gene, g2) # {}}}

Crossover(g1, g2) ==
  IF g2.fitness > g1.fitness THEN Crossings(g2, g1) ELSE Crossings(g1, g2)

\* breedChild before mutate.
Offspring(genomes) ==
  {Copy(genome) : genome \in genomes}
    \cup UNION {Crossover(g1, g2) : g1, g2 \in genomes}

\* The neurons randomNeuron may return.
Neurons(genes, nonInput) ==
  (IF nonInput THEN {} ELSE 1..Inputs)
    \cup OutputNeurons
    \cup {n \in {gene.into : gene \in genes} \cup {gene.out : gene \in genes} :
            nonInput => n > Inputs}

ContainsLink(genes, into, out) ==
  \E gene \in genes : gene.into = into /\ gene.out = out

NewGene(into, out, number) ==
  [into |-> into, out |-> out, innovation |-> number, enabled |-> TRUE]

\* Not the code: nodeMutate asks for one number for both halves.
Split_OneNumber(genome, gene) ==
  [genome EXCEPT
     !.maxneuron = @ + 1,
     !.genes = (@ \ {gene})
       \cup {[gene EXCEPT !.enabled = FALSE],
             NewGene(gene.into, genome.maxneuron + 1, innovation + 1),
             NewGene(genome.maxneuron + 1, gene.out, innovation + 1)}]

\* Not the code: nodeMutate does not count its neuron.
Split_Uncounted(genome, gene) ==
  [genome EXCEPT
     !.genes = (@ \ {gene})
       \cup {[gene EXCEPT !.enabled = FALSE],
             NewGene(gene.into, genome.maxneuron + 1, innovation + 1),
             NewGene(genome.maxneuron + 1, gene.out, innovation + 2)}]

\* nodeMutate on an enabled gene: the new neuron takes its place.
Split(genome, gene) ==
  [genome EXCEPT
     !.maxneuron = @ + 1,
     !.genes = (@ \ {gene})
       \cup {[gene EXCEPT !.enabled = FALSE],
             NewGene(gene.into, genome.maxneuron + 1, innovation + 1),
             NewGene(genome.maxneuron + 1, gene.out, innovation + 2)}]

Toggled(genome, gene) ==
  [genome EXCEPT !.genes = (@ \ {gene}) \cup {[gene EXCEPT !.enabled = ~@]}]

-----------------------------------------------------------------------------
(* Species *)
Innovations(genome) == {gene.innovation : gene \in genome.genes}

\* disjoint: the genes without a counterpart, out of the larger number.
FewDisjoint(g1, g2) ==
  LET i1 == Innovations(g1)
      i2 == Innovations(g2)
      n1 == Cardinality(g1.genes)
      n2 == Cardinality(g2.genes)
  IN DeltaDisjoint * Cardinality((i1 \ i2) \cup (i2 \ i1))
       < DeltaThreshold * (IF n1 < n2 THEN n2 ELSE n1)

\* Not the code: disjoint and weights return 0 for two genomes without genes.
MayBeSameSpecies_Empty(g1, g2) ==
  /\ Innovations(g1) \cap Innovations(g2) # {} \/ g1.genes \cup g2.genes = {}
  /\ FewDisjoint(g1, g2) \/ g1.genes \cup g2.genes = {}

\* Whether sameSpecies may hold.  With no gene in common weights is 0/0, and
\* no comparison with NaN holds.
MayBeSameSpecies(g1, g2) ==
  /\ Innovations(g1) \cap Innovations(g2) # {}
  /\ FewDisjoint(g1, g2)

NewSpecies(genome) == [genomes |-> <<genome>>, topFitness |-> 0, staleness |-> 0]

\* What addToSpecies can make of the species sp.
Placements(sp, genome) ==
  {Append(sp, NewSpecies(genome))}
    \cup {[sp EXCEPT ![s].genomes = Append(@, genome)] :
            s \in {s \in DOMAIN sp : MayBeSameSpecies(genome, sp[s].genomes[1])}}

GenomesOf(s) == {s.genomes[g] : g \in DOMAIN s.genomes}

Positions(sp) == UNION {{s} \X DOMAIN sp[s].genomes : s \in DOMAIN sp}

FitnessAt(sp, p) == sp[p[1]].genomes[p[2]].fitness

\* Not the code: table.sort with the comparison the wrong way round.
Sorted_WorstFirst(s) ==
  LET n == Len(s.genomes)
  IN {[g \in 1..n |-> s.genomes[order[g]]] :
        order \in {f \in [1..n -> 1..n] :
                     \A g, h \in 1..n : g < h =>
                       /\ f[g] # f[h]
                       /\ s.genomes[f[g]].fitness <= s.genomes[f[h]].fitness}}

\* The genomes of s in the orders table.sort may leave them, the best first:
\* it keeps no order among equals.
Sorted(s) ==
  LET n == Len(s.genomes)
  IN {[g \in 1..n |-> s.genomes[order[g]]] :
        order \in {f \in [1..n -> 1..n] :
                     \A g, h \in 1..n : g < h =>
                       /\ f[g] # f[h]
                       /\ s.genomes[f[g]].fitness >= s.genomes[f[h]].fitness}}

\* cullSpecies(false): the better half of s, rounded up.
Halves(s) ==
  {[s EXCEPT !.genomes = SubSeq(sorted, 1, (Len(sorted) + 1) \div 2)] :
     sorted \in Sorted(s)}

\* cullSpecies(true): one of its best.
Bests(s) ==
  {[s EXCEPT !.genomes = <<sorted[1]>>] : sorted \in Sorted(s)}

\* Not the code: removeStaleSpecies takes the age from the staleness.
Aged_Younger(s) ==
  IF s.genomes[1].fitness > s.topFitness
  THEN [s EXCEPT !.topFitness = s.genomes[1].fitness, !.staleness = 0]
  ELSE [s EXCEPT !.staleness = @ - 1]

\* removeStaleSpecies: what it makes of one species, and whether it stays.
Aged(s) ==
  IF s.genomes[1].fitness > s.topFitness
  THEN [s EXCEPT !.topFitness = s.genomes[1].fitness, !.staleness = 0]
  ELSE [s EXCEPT !.staleness = @ + 1]

\* Not the code: a species that has just made the record does not hold it.
Lasting_Beaten(s) == s.staleness < StaleSpecies \/ s.topFitness > maxFitness

Lasting(s) == s.staleness < StaleSpecies \/ s.topFitness >= maxFitness

\* The positions a table keeps when those outside kept are taken out.
Packings(kept) ==
  {at \in [1..Cardinality(kept) -> kept] :
     \A i, j \in DOMAIN at : i < j => at[i] < at[j]}

\* The ranks rankGlobally may give, 1 to the worst.
Rankings(sp) ==
  {rank \in [Positions(sp) -> 1..Cardinality(Positions(sp))] :
     \A p, q \in Positions(sp) : p # q =>
       /\ rank[p] # rank[q]
       /\ FitnessAt(sp, p) < FitnessAt(sp, q) => rank[p] < rank[q]}

\* calculateAverageFitness times the product of the sizes of all species,
\* which makes it a whole number.
Averages(sp, rank) ==
  LET sizes == MapThenFoldSet(LAMBDA m, n : m * n, 1,
                              LAMBDA s : Len(sp[s].genomes),
                              LAMBDA S : CHOOSE s \in S : TRUE,
                              DOMAIN sp)
  IN [s \in DOMAIN sp |->
        MapThenSumSet(LAMBDA g : rank[<<s, g>>], DOMAIN sp[s].genomes)
          * (sizes \div Len(sp[s].genomes))]

\* math.floor(averageFitness / sum * Population) for the species in kept.  The
\* floating-point product may fall short of a whole number, as 1/49*49 does.
Shares(average, kept) ==
  LET sum == MapThenSumSet(LAMBDA s : average[s], kept)
      exact(s) == average[s] * Population
      short(s) == average[s] # sum /\ exact(s) % sum = 0
  IN {share \in [kept -> 0..Population] :
        \A s \in kept :
          \/ share[s] = exact(s) \div sum
          \/ short(s) /\ share[s] = exact(s) \div sum - 1}

\* Not the code: newGeneration without the - 1.
ChildrenOwed_All(breed) == breed

\* The best genome of a species takes one of its places.
ChildrenOwed(breed) == breed - 1

-----------------------------------------------------------------------------
Init ==
  /\ species = <<>> /\ innovation = Outputs /\ maxFitness = 0 /\ generation = 0
  /\ stage = "found"
  /\ owed = <<>> /\ children = <<>>
  /\ child = NoGenome /\ turn = Link

Headcount(sp) == Cardinality(Positions(sp))

Begin(genome) ==
  /\ child' = genome
  /\ turn' = Link

\* initializePool: the next basic genome.
Found ==
  /\ stage = "found" /\ child = NoGenome
  /\ Headcount(species) < Population
  /\ Begin(BasicGenome)
  /\ UNCHANGED <<pool, stage, owed, children>>

(* mutate *)
Mutates(kind) ==
  /\ child # NoGenome
  /\ turn <= kind
  /\ turn' = kind
  /\ UNCHANGED <<species, maxFitness, generation, stage, owed, children>>

\* linkMutate.  Its second neuron is never an input, so it swaps nothing.
LinkMutate(forceBias) ==
  /\ Mutates(IF forceBias THEN Bias ELSE Link)
  /\ Cardinality(child.genes) < MaxGenes
  /\ innovation < MaxInnovation
  /\ \E neuron1 \in Neurons(child.genes, FALSE),
        neuron2 \in Neurons(child.genes, TRUE) :
       LET into == IF forceBias THEN Inputs ELSE neuron1
       IN /\ ~ContainsLink(child.genes, into, neuron2)
          /\ innovation' = innovation + 1
          /\ child' = [child EXCEPT
                         !.genes = @ \cup {NewGene(into, neuron2, innovation + 1)}]

NodeMutate ==
  /\ Mutates(Node)
  /\ child.maxneuron < MaxNodes
  /\ \E gene \in child.genes :
       IF gene.enabled
       THEN /\ Cardinality(child.genes) + 2 <= MaxGenes
            /\ innovation + 2 <= MaxInnovation
            /\ child' = Split(child, gene)
            /\ innovation' = innovation + 2
       ELSE /\ child' = [child EXCEPT !.maxneuron = @ + 1]
            /\ UNCHANGED innovation

EnableDisableMutate(enable) ==
  /\ Mutates(IF enable THEN Enable ELSE Disable)
  /\ \E gene \in child.genes :
       /\ gene.enabled = ~enable
       /\ child' = Toggled(child, gene)
  /\ UNCHANGED innovation

\* The child is ready: initializePool places it at once, newGeneration later.
Ready ==
  /\ child # NoGenome
  /\ child' = NoGenome
  /\ IF stage = "found"
     THEN species' \in Placements(species, child) /\ UNCHANGED children
     ELSE children' = Append(children, child) /\ UNCHANGED species
  /\ UNCHANGED <<innovation, maxFitness, generation, stage, owed, turn>>

(* newGeneration *)
\* Every level of every genome is played, and the maximum kept.
Play ==
  /\ \/ stage = "play"
     \/ stage = "found" /\ child = NoGenome /\ Headcount(species) = Population
  /\ stage' = "played"
  /\ \E fitness \in [Positions(species) -> Fitnesses] :
       /\ species' = [s \in DOMAIN species |->
            [species[s] EXCEPT !.genomes =
               [g \in DOMAIN @ |-> [@[g] EXCEPT !.fitness = fitness[<<s, g>>]]]]]
       /\ maxFitness' = Max({maxFitness} \cup {fitness[p] : p \in Positions(species)})
  /\ UNCHANGED <<innovation, generation, owed, children, child, turn>>

\* The better half of each species, then the species that are neither stale
\* nor weak; and the children owed to each.
Select ==
  /\ stage = "played" /\ generation < StopGeneration
  /\ stage' = "breed"
  /\ \E halves \in {h \in [DOMAIN species -> UNION {Halves(species[s]) : s \in DOMAIN species}] :
                      \A s \in DOMAIN species : h[s] \in Halves(species[s])} :
       LET aged == [s \in DOMAIN halves |-> Aged(halves[s])]
       IN \E at \in Packings({s \in DOMAIN aged : Lasting(aged[s])}) :
            LET lasting == [i \in DOMAIN at |-> aged[at[i]]]
            IN \E rank \in Rankings(lasting) :
                 LET average == Averages(lasting, rank)
                 IN \E share \in Shares(average, DOMAIN lasting) :
                      LET strong == {s \in DOMAIN lasting : share[s] >= 1}
                      IN \E by \in Packings(strong), breed \in Shares(average, strong) :
                           /\ species' = [i \in DOMAIN by |-> lasting[by[i]]]
                           /\ owed' = [i \in DOMAIN by |-> ChildrenOwed(breed[by[i]])]
  /\ UNCHANGED <<innovation, maxFitness, generation, children, child, turn>>

\* A child of the next species that is owed one.
Breed ==
  /\ stage = "breed" /\ child = NoGenome
  /\ \E s \in DOMAIN owed :
       /\ owed[s] > 0 /\ \A r \in 1..(s - 1) : owed[r] <= 0
       /\ \E genome \in Offspring(GenomesOf(species[s])) : Begin(genome)
       /\ owed' = [owed EXCEPT ![s] = @ - 1]
  /\ UNCHANGED <<pool, stage, children>>

\* cullSpecies(true), once no species is owed a child.
CullToOne ==
  /\ stage = "breed" /\ child = NoGenome
  /\ \A s \in DOMAIN owed : owed[s] <= 0
  /\ stage' = "fill"
  /\ species' \in {b \in [DOMAIN species -> UNION {Bests(species[s]) : s \in DOMAIN species}] :
                    \A s \in DOMAIN species : b[s] \in Bests(species[s])}
  /\ UNCHANGED <<innovation, maxFitness, generation, owed, children, child, turn>>

\* Children of any species make up for what the roundings left out.
Fill ==
  /\ stage = "fill" /\ child = NoGenome
  /\ Len(children) + Len(species) < Population
  /\ \E s \in DOMAIN species :
       \E genome \in Offspring(GenomesOf(species[s])) : Begin(genome)
  /\ UNCHANGED <<pool, stage, owed, children>>

\* addToSpecies for the children in turn; the rest of newGeneration follows
\* the last of them: generateJobQueue sets every fitness to 0.
Place ==
  /\ stage = "fill" /\ child = NoGenome
  /\ Len(children) + Len(species) >= Population
  /\ stage' = "place"
  /\ UNCHANGED <<pool, owed, children, child, turn>>

Unscored(s) ==
  [s EXCEPT !.genomes = [g \in DOMAIN @ |-> [@[g] EXCEPT !.fitness = 0]]]

PlaceChild ==
  /\ stage = "place" /\ children # <<>>
  /\ species' \in Placements(species, Head(children))
  /\ children' = Tail(children)
  /\ UNCHANGED <<innovation, maxFitness, generation, stage, owed, child, turn>>

NextGeneration ==
  /\ stage = "place" /\ children = <<>>
  /\ stage' = "play"
  /\ species' = [s \in DOMAIN species |-> Unscored(species[s])]
  /\ generation' = generation + 1
  /\ owed' = <<>>
  /\ UNCHANGED <<innovation, maxFitness, children, child, turn>>

\* The bound on generations is reached.
Over == stage = "played" /\ generation = StopGeneration /\ UNCHANGED vars

Mutate ==
  \/ \E forceBias \in BOOLEAN : LinkMutate(forceBias)
  \/ NodeMutate
  \/ \E enable \in BOOLEAN : EnableDisableMutate(enable)

Next ==
  \/ Found \/ Mutate \/ Ready
  \/ Play \/ Select \/ Breed \/ CullToOne \/ Fill
  \/ Place \/ PlaceChild \/ NextGeneration
  \/ Over

Spec == Init /\ [][Next]_vars
-----------------------------------------------------------------------------
\* Every genome there is: in the pool, bred, or being mutated.
Genomes ==
  (UNION {GenomesOf(species[s]) : s \in DOMAIN species})
    \cup {children[c] : c \in DOMAIN children}
    \cup ({child} \ {NoGenome})

\* The types of the variables.
TypeOK ==
  /\ species \in Seq([genomes : Seq(Genome), topFitness : Nat, staleness : Nat])
  /\ \A s \in DOMAIN species : species[s].genomes # <<>>
  /\ innovation \in Nat /\ maxFitness \in Nat /\ generation \in Nat
  /\ stage \in Stages
  /\ owed \in Seq(Int)
  /\ children \in Seq(Genome)
  /\ child \in Genome \cup {NoGenome}
  /\ turn \in Link..Disable

\* A generation has Population genomes, whatever the averages were rounded
\* to: newGeneration neither breeds more children than there is room for nor
\* leaves any out (zmqserver.lua:862-897).
PopulationKept ==
  stage \in {"play", "played"} => Headcount(species) = Population

\* An innovation number stands for one link in all genomes, so that disjoint,
\* weights and crossover compare like with like though genes are copied,
\* split and crossed over (zmqserver.lua:291, 428, 554, 651).
InnovationNamesOneLink ==
  \A g, h \in Genomes :
    \A a \in g.genes, b \in h.genes :
      a.innovation = b.innovation => a.into = b.into /\ a.out = b.out

\* No two genes of a genome join the same neurons, nor have one innovation
\* number: containsLink looks at one genome only, and crossover puts genes of
\* another beside it (zmqserver.lua:498, 443).
NoLinkTwice ==
  \A g \in Genomes :
    \A a, b \in g.genes :
      \/ a.into = b.into /\ a.out = b.out
      \/ a.innovation = b.innovation
      => a = b

\* No gene leads into an input, and each hidden neuron of a genome has a
\* number up to its maxneuron, so that nodeMutate never takes a number that is
\* in use, also after crossover (zmqserver.lua:451, 559).
NeuronsNumbered ==
  \A g \in Genomes :
    /\ g.maxneuron >= Inputs
    /\ \A gene \in g.genes :
         /\ gene.into \in 1..g.maxneuron \cup OutputNeurons
         /\ gene.out \in (Inputs + 1)..g.maxneuron \cup OutputNeurons

\* In a species every genome has a gene in common with the first, though
\* selection may have changed which that is: nobody gets in on the NaN that
\* weights returns for strangers (zmqserver.lua:702, 708, 828).
MembersShareGenes ==
  stage \in {"play", "played"} =>
    \A s \in DOMAIN species : \A g \in 2..Len(species[s].genomes) :
      Innovations(species[s].genomes[g])
        \cap Innovations(species[s].genomes[1]) # {}

BestFitness(s) == Max({s.genomes[g].fitness : g \in DOMAIN s.genomes})

\* s goes on with a genome that scored best in a species of the pool.
KeepsBest(s) ==
  \E r \in DOMAIN species :
    /\ s.genomes[1] \in GenomesOf(species[r])
    /\ s.genomes[1].fitness = BestFitness(species[r])

\* While newGeneration runs, a species that stays goes on with a genome that
\* scored best in it, as its first: culling by halves, ranking, breeding and
\* culling to one keep it, though the sorts keep no order among equals
\* (zmqserver.lua:749-765, 788, 885).
BestGenomeStays ==
  [][stage' # "play" /\ stage \in Stages \ {"found", "play"} =>
       \A s \in DOMAIN species' : s <= Len(owed') => KeepsBest(species'[s])]_species

\* Selection has no reason to take s out for its age: it holds the record, or
\* it has got better within StaleSpecies generations.
Endures(s) ==
  \/ BestFitness(s) >= maxFitness
  \/ s.topFitness >= maxFitness
  \/ (IF BestFitness(s) > s.topFitness THEN 0 ELSE s.staleness + 1) < StaleSpecies

\* A pool dies out only of age: whatever the ranks, and the floor of each
\* average over their sum, a selection in which one species endures leaves one
\* (zmqserver.lua:788-823, 862-878).
SomeStay ==
  [][stage = "played" /\ stage' = "breed" /\ (\E s \in DOMAIN species : Endures(species[s]))
       => species' # <<>>]_vars
=============================================================================
