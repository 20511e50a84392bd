-------------------------- MODULE EvolutionProofs --------------------------
(***************************************************************************)
(* What holds of the genomes zmqserver.lua breeds, for every population,   *)
(* size of network, threshold and number of generations: innovation        *)
(* numbers name links, no genome has a link twice, neurons are numbered,   *)
(* and the members of a species share genes with its first; a generation   *)
(* has Population genomes; a species that stays keeps one of its best      *)
(* first; and some species stay unless all are stale.                      *)
(***************************************************************************)
EXTENDS Evolution, FiniteSums, SequenceTheorems

Species == [genomes : Seq(Genome), topFitness : Nat, staleness : Nat]

\* A pool's species, none of them empty.
SpeciesOK(sp) == sp \in Seq(Species) /\ \A s \in DOMAIN sp : sp[s].genomes # <<>>

GenomesIn(sp) == UNION {GenomesOf(sp[s]) : s \in DOMAIN sp}

\* The gene a stands for the link and the innovation of b.
SameLink(a, b) == a.into = b.into /\ a.out = b.out /\ a.innovation = b.innovation

\* A genome by itself, when n innovations have been given out.
Sound(g, n) ==
  /\ g \in Genome
  /\ g.maxneuron \in Inputs..MaxNodes
  /\ \A a \in g.genes : a.innovation <= n
  /\ \A a \in g.genes : a.into \in 1..g.maxneuron \cup OutputNeurons
  /\ \A a \in g.genes : a.out \in (Inputs + 1)..g.maxneuron \cup OutputNeurons
  /\ \A a, b \in g.genes :
       (a.into = b.into /\ a.out = b.out) \/ a.innovation = b.innovation => a = b

\* Two genomes side by side.
Agree(g, h) ==
  \A a \in g.genes, b \in h.genes :
    a.innovation = b.innovation => a.into = b.into /\ a.out = b.out

\* What breeding and mutation keep of a set of genomes.
Pedigree(G, n) ==
  /\ \A g \in G : Sound(g, n)
  /\ \A g, h \in G : Agree(g, h)

\* A gene of a genome in G has the link and the innovation of a.
Inherits(a, G) == \E g \in G : \E b \in g.genes : SameLink(a, b)

\* Each genome of a species has a gene in common with the first.
Sharing(sp) ==
  \A s \in DOMAIN sp : \A g \in 2..Len(sp[s].genomes) :
    Innovations(sp[s].genomes[g]) \cap Innovations(sp[s].genomes[1]) # {}

\* Selection changes which genome is the first, so Sharing is lost while it
\* runs; it returns because each species is down to one genome before children
\* are placed.  Children are owed to the species there are.
SpeciesInStage ==
  /\ stage \in {"found", "place", "play", "played"} => Sharing(species)
  /\ stage = "fill" => \A s \in DOMAIN species : Len(species[s].genomes) = 1
  /\ stage = "breed" => DOMAIN owed = DOMAIN species

GInv == TypeOK /\ Pedigree(Genomes, innovation) /\ SpeciesInStage

-----------------------------------------------------------------------------
(* Sets and sequences *)
\* A nonempty finite set of natural numbers has a greatest one.
LEMMA GreatestExists ==
  ASSUME NEW S \in SUBSET Nat, IsFiniteSet(S), S # {}
  PROVE  \E n \in S : \A m \in S : n >= m
<1> DEFINE NoGreatest(T) == T # {} /\ ~\E n \in T : \A m \in T : n >= m
           Counter == {n \in Nat : \E T \in SUBSET Nat :
                         IsFiniteSet(T) /\ Cardinality(T) = n /\ NoGreatest(T)}
           R == OpToRel(<, Nat)
<1>1. SUFFICES Counter = {}
  <2>1. Cardinality(S) \in Nat
    BY FS_CardinalityType
  <2> QED
    BY <1>1, <2>1
<1>2. SUFFICES ASSUME Counter # {} PROVE FALSE
  OBVIOUS
<1>3. PICK n \in Counter : \A m \in Counter : ~(m < n)
  <2>1. IsWellFoundedOn(R, Nat)
    BY NatLessThanWellFounded DEF OpToRel
  <2>2. Counter \subseteq Nat
    OBVIOUS
  <2>3. \E n \in Counter : \A m \in Counter : <<m, n>> \notin R
    <3> HIDE DEF R, Counter
    <3> QED
      BY <1>2, <2>1, <2>2, WFMin, Zenon
  <2> HIDE DEF NoGreatest
  <2> QED
    BY <2>2, <2>3 DEF OpToRel
<1>4. PICK T \in SUBSET Nat : IsFiniteSet(T) /\ Cardinality(T) = n /\ NoGreatest(T)
  BY <1>3
<1>5. PICK x \in T : TRUE
  BY <1>4
<1>6. IsFiniteSet(T \ {x}) /\ Cardinality(T \ {x}) = n - 1
  BY <1>4, <1>5, FS_RemoveElement
<1>7. n - 1 \in Nat
  BY <1>6, FS_CardinalityType
<1>8. ~NoGreatest(T \ {x})
  <2> HIDE DEF NoGreatest
  <2> QED
    BY <1>3, <1>6, <1>7
<1>9. CASE T \ {x} = {}
  BY <1>4, <1>5, <1>9
<1>10. CASE \E y \in T \ {x} : \A m \in T \ {x} : y >= m
  <2>1. PICK y \in T \ {x} : \A m \in T \ {x} : y >= m
    BY <1>10
  <2>2. x >= y \/ y >= x
    BY <1>5, <2>1
  <2>3. \A m \in T : (IF x >= y THEN x ELSE y) >= m
    BY <1>5, <2>1, <2>2
  <2> QED
    BY <1>4, <1>5, <2>1, <2>3
<1> QED
  BY <1>8, <1>9, <1>10

\* A function on 1..n is a sequence.
LEMMA FunctionIsSeq ==
  ASSUME NEW S, NEW n \in Nat, NEW f \in [1..n -> S]
  PROVE  f \in Seq(S) /\ Len(f) = n /\ DOMAIN f = 1..n
BY SeqDef, LenProperties

\* What a table keeps when some of its positions are taken out is a table again.
LEMMA PackingsAre ==
  ASSUME NEW S, NEW seq \in Seq(S), NEW kept \in SUBSET DOMAIN seq, NEW at \in Packings(kept)
  PROVE  /\ Cardinality(kept) \in Nat
         /\ DOMAIN at = 1..Cardinality(kept)
         /\ \A i \in DOMAIN at : at[i] \in kept
<1>1. IsFiniteSet(kept)
  BY LenProperties, FS_Interval, FS_Subset
<1> QED
  BY <1>1, FS_CardinalityType DEF Packings

-----------------------------------------------------------------------------
(* Genomes *)
\* Genomes that inherit all their genes fit in.
LEMMA HeirsFit ==
  ASSUME NEW G, NEW H, NEW n \in Nat, Pedigree(G, n),
         \A h \in H : Sound(h, n) /\ \A a \in h.genes : Inherits(a, G)
  PROVE  Pedigree(G \cup H, n)
<1>1. \A g, h \in G \cup H : \A a \in g.genes : Inherits(a, G)
  BY DEF Inherits, SameLink
<1>2. \A g, h \in G \cup H : Agree(g, h)
  BY <1>1 DEF Agree, Inherits, SameLink, Pedigree
<1> QED
  BY <1>2 DEF Pedigree

\* So does a genome whose other genes have innovations of their own.
LEMMA MutantFits ==
  ASSUME NEW G, NEW h, NEW n \in Nat, NEW m \in Nat, n <= m, Pedigree(G, n),
         Sound(h, m), \A a \in h.genes : Inherits(a, G) \/ a.innovation > n
  PROVE  Pedigree(G \cup {h}, m)
<1>1. \A g \in G : Sound(g, m)
  BY DEF Pedigree, Sound, Genome, Gene
<1>2. Agree(h, h)
  BY DEF Sound, Agree
<1>3. \A g \in G : \A a \in h.genes, b \in g.genes :
        a.innovation = b.innovation => a.into = b.into /\ a.out = b.out
  <2> TAKE g \in G
  <2> TAKE a \in h.genes, b \in g.genes
  <2> HAVE a.innovation = b.innovation
  <2>1. b.innovation <= n /\ b.innovation \in Nat
    BY DEF Pedigree, Sound, Genome, Gene
  <2>2. ~(a.innovation > n)
    BY <2>1
  <2>3. Inherits(a, G)
    BY <2>2, Zenon
  <2>4. PICK k \in G : \E c \in k.genes : SameLink(a, c)
    BY <2>3 DEF Inherits
  <2>5. PICK c \in k.genes : SameLink(a, c)
    BY <2>4
  <2>6. Agree(k, g)
    BY DEF Pedigree
  <2>7. c.innovation = b.innovation
    BY <2>5 DEF SameLink
  <2>8. c.into = b.into /\ c.out = b.out
    BY <2>6, <2>7 DEF Agree
  <2> QED
    BY <2>5, <2>8 DEF SameLink
<1>4. \A g \in G : Agree(h, g) /\ Agree(g, h)
  BY <1>3 DEF Agree
<1> QED
  BY <1>1, <1>2, <1>4 DEF Pedigree

\* A genome out of the same genes, whatever its fitness.
LEMMA RescoredIsSound ==
  ASSUME NEW g, NEW h \in Genome, NEW n, Sound(g, n),
         h.genes = g.genes, h.maxneuron = g.maxneuron
  PROVE  Sound(h, n)
BY DEF Sound

\* The child of a crossover has the genes of the fitter parent, if in another
\* state, and its neurons are numbered within the larger of the two networks.
LEMMA CrossingsFit ==
  ASSUME NEW G, NEW n \in Nat, Pedigree(G, n), NEW g1 \in G, NEW g2 \in G,
         NEW h \in Crossings(g1, g2)
  PROVE  Sound(h, n) /\ \A a \in h.genes : Inherits(a, G)
<1> DEFINE match == [gene \in g1.genes |-> CHOOSE m \in Matches(gene, g2) : TRUE]
           larger == IF g1.maxneuron < g2.maxneuron THEN g2.maxneuron ELSE g1.maxneuron
<1>1. PICK swapped \in SUBSET {gene \in g1.genes : Matches(gene, g2) # {}} :
        h = [genes     |-> (g1.genes \ swapped) \cup {match[gene] : gene \in swapped},
             maxneuron |-> larger, fitness |-> 0]
  BY DEF Crossings
<1>2. Sound(g1, n) /\ Sound(g2, n) /\ Agree(g1, g2)
  BY DEF Pedigree
<1>3. \A gene \in swapped : match[gene] \in g2.genes /\ SameLink(match[gene], gene)
  <2> TAKE gene \in swapped
  <2>1. match[gene] \in Matches(gene, g2)
    BY <1>1
  <2> QED
    BY <1>1, <1>2, <2>1 DEF Matches, SameLink, Agree
<1> HIDE DEF match
<1>4. \A a \in h.genes : a \in Gene /\ \E b \in g1.genes :
        SameLink(a, b) /\ (IF b \in swapped THEN a = match[b] ELSE a = b)
  <2> TAKE a \in h.genes
  <2>0. a \in (g1.genes \ swapped) \cup {match[gene] : gene \in swapped}
    BY <1>1
  <2>1. g1.genes \subseteq Gene /\ g2.genes \subseteq Gene
    BY <1>2 DEF Sound, Genome
  <2>2. CASE a \in g1.genes \ swapped
    BY <2>1, <2>2 DEF SameLink
  <2>3. CASE \E b \in swapped : a = match[b]
    <3>1. PICK b \in swapped : a = match[b]
      BY <2>3
    <3>2. a \in g2.genes /\ SameLink(a, b) /\ b \in g1.genes
      BY <1>3, <3>1
    <3> QED
      BY <2>1, <3>1, <3>2
  <2> QED
    BY <2>0, <2>2, <2>3
<1>5. \A a, b \in h.genes :
        (a.into = b.into /\ a.out = b.out) \/ a.innovation = b.innovation => a = b
  <2> TAKE a, b \in h.genes
  <2>1. PICK c \in g1.genes : SameLink(a, c) /\ (IF c \in swapped THEN a = match[c] ELSE a = c)
    BY <1>4
  <2>2. PICK d \in g1.genes : SameLink(b, d) /\ (IF d \in swapped THEN b = match[d] ELSE b = d)
    BY <1>4
  <2>3. (c.into = d.into /\ c.out = d.out) \/ c.innovation = d.innovation => c = d
    BY <1>2 DEF Sound
  <2>4. c = d => a = b
    BY <2>1, <2>2
  <2>5. SameLink(a, c) /\ SameLink(b, d)
    BY <2>1, <2>2
  <2> HAVE (a.into = b.into /\ a.out = b.out) \/ a.innovation = b.innovation
  <2>6. (c.into = d.into /\ c.out = d.out) \/ c.innovation = d.innovation
    BY <2>5 DEF SameLink
  <2> QED
    BY <2>3, <2>4, <2>6
<1>6. /\ larger \in Inputs..MaxNodes /\ larger >= g1.maxneuron
      /\ g1.maxneuron \in Nat /\ larger \in Nat
  BY <1>2, EvolutionAssumption DEF Sound, Genome
<1> HIDE DEF larger
<1>7. h \in Genome
  BY <1>1, <1>4, <1>6 DEF Genome
<1>8. \A a \in h.genes : /\ a.innovation <= n
                         /\ a.into \in 1..larger \cup OutputNeurons
                         /\ a.out \in (Inputs + 1)..larger \cup OutputNeurons
  <2> TAKE a \in h.genes
  <2>1. PICK b \in g1.genes : SameLink(a, b)
    BY <1>4
  <2>2. /\ b.innovation <= n
        /\ b.into \in 1..g1.maxneuron \cup OutputNeurons
        /\ b.out \in (Inputs + 1)..g1.maxneuron \cup OutputNeurons
    BY <1>2 DEF Sound
  <2> QED
    BY <1>6, <2>1, <2>2, EvolutionAssumption DEF SameLink
<1>9. h.maxneuron = larger
  BY <1>1
<1>10. Sound(h, n)
  BY <1>5, <1>6, <1>7, <1>8, <1>9 DEF Sound
<1> QED
  BY <1>4, <1>10 DEF Inherits

\* breedChild, copies and crossovers alike.
LEMMA OffspringFit ==
  ASSUME NEW G, NEW n \in Nat, Pedigree(G, n), NEW parents \in SUBSET G,
         NEW h \in Offspring(parents)
  PROVE  Sound(h, n) /\ \A a \in h.genes : Inherits(a, G)
<1>1. CASE \E genome \in parents : h = Copy(genome)
  <2>1. PICK genome \in parents : h = Copy(genome)
    BY <1>1
  <2>2. Sound(genome, n)
    BY DEF Pedigree
  <2>3. h \in Genome /\ h.genes = genome.genes /\ h.maxneuron = genome.maxneuron
    BY <2>1, <2>2 DEF Copy, Sound, Genome
  <2> QED
    BY <2>2, <2>3, RescoredIsSound DEF Inherits, SameLink
<1>2. CASE \E g1, g2 \in parents : h \in Crossover(g1, g2)
  BY <1>2, CrossingsFit DEF Crossover
<1> QED
  BY <1>1, <1>2 DEF Offspring

\* linkMutate: a link the genome does not have, under a number of its own.
LEMMA LinkedFits ==
  ASSUME NEW G, NEW n \in Nat, Pedigree(G, n), NEW g \in G, NEW h,
         NEW into \in 1..Inputs \cup OutputNeurons \cup {gene.into : gene \in g.genes}
                        \cup {gene.out : gene \in g.genes},
         NEW out \in Neurons(g.genes, TRUE), ~ContainsLink(g.genes, into, out),
         h = [g EXCEPT !.genes = @ \cup {NewGene(into, out, n + 1)}]
  PROVE  Pedigree(G \cup {h}, n + 1)
<1> DEFINE new == NewGene(into, out, n + 1)
<1>1. Sound(g, n)
  BY DEF Pedigree
<1>2. g \in Genome /\ g.genes \in SUBSET Gene /\ g.maxneuron \in Nat /\ g.fitness \in Nat
  BY <1>1 DEF Sound, Genome
<1>3. h.genes = g.genes \cup {new} /\ h.maxneuron = g.maxneuron /\ h.fitness = g.fitness
  BY <1>2 DEF Genome
<1>4. OutputNeurons \subseteq Nat
  BY EvolutionAssumption DEF OutputNeurons
<1>5. Inputs \in Nat \ {0} /\ Inputs <= g.maxneuron
  BY <1>1, EvolutionAssumption DEF Sound
<1>6. into \in 1..g.maxneuron \cup OutputNeurons
  BY <1>1, <1>2, <1>5 DEF Sound
<1>7. out \in (Inputs + 1)..g.maxneuron \cup OutputNeurons
  BY <1>1, <1>2, <1>5 DEF Sound, Neurons
<1>8. new \in Gene /\ new.into = into /\ new.out = out /\ new.innovation = n + 1
  BY <1>2, <1>4, <1>5, <1>6, <1>7 DEF NewGene, Gene
<1> HIDE DEF new
<1>9. h \in Genome
  BY <1>2, <1>3, <1>8 DEF Genome
<1>10. \A a \in g.genes : a.innovation <= n /\ a.innovation \in Nat
  BY <1>1, <1>2 DEF Sound, Gene
<1>11. \A a, b \in h.genes :
         (a.into = b.into /\ a.out = b.out) \/ a.innovation = b.innovation => a = b
  BY <1>1, <1>3, <1>8, <1>10 DEF Sound, ContainsLink
<1>12. Sound(h, n + 1)
  <2>1. \A a \in h.genes : a.innovation <= n + 1
    BY <1>3, <1>8, <1>10
  <2>2. \A a \in h.genes : /\ a.into \in 1..h.maxneuron \cup OutputNeurons
                           /\ a.out \in (Inputs + 1)..h.maxneuron \cup OutputNeurons
    BY <1>1, <1>3, <1>6, <1>7, <1>8 DEF Sound
  <2>3. h.maxneuron \in Inputs..MaxNodes
    BY <1>1, <1>3 DEF Sound
  <2> QED
    BY <1>9, <1>11, <2>1, <2>2, <2>3 DEF Sound
<1>13. \A a \in h.genes : Inherits(a, G) \/ a.innovation > n
  BY <1>3, <1>8 DEF Inherits, SameLink
<1>14. n + 1 \in Nat /\ n <= n + 1
  OBVIOUS
<1> QED
  BY <1>12, <1>13, <1>14, MutantFits

\* nodeMutate: two links through a neuron no genome of this line has had.
LEMMA SplitFits ==
  ASSUME NEW G, Pedigree(G, innovation), innovation \in Nat, NEW g \in G, NEW gene \in g.genes,
         g.maxneuron < MaxNodes
  PROVE  Pedigree(G \cup {Split(g, gene)}, innovation + 2)
<1> DEFINE h == Split(g, gene)
           k == g.maxneuron + 1
           off == [gene EXCEPT !.enabled = FALSE]
           first == NewGene(gene.into, k, innovation + 1)
           second == NewGene(k, gene.out, innovation + 2)
<1>1. Sound(g, innovation)
  BY DEF Pedigree
<1>2. /\ g \in Genome /\ g.genes \in SUBSET Gene /\ g.maxneuron \in Nat /\ g.fitness \in Nat
      /\ gene \in Gene /\ gene.into \in Nat /\ gene.out \in Nat /\ gene.innovation \in Nat
  BY <1>1 DEF Sound, Genome, Gene
<1>3. /\ h.genes = (g.genes \ {gene}) \cup {off, first, second}
      /\ h.maxneuron = k /\ h.fitness = g.fitness
      /\ h = [genes |-> h.genes, maxneuron |-> k, fitness |-> g.fitness]
  <2> HIDE DEF off, first, second, k
  <2>1. h = [g EXCEPT !.maxneuron = @ + 1, !.genes = (@ \ {gene}) \cup {off, first, second}]
    BY DEF Split, off, first, second, k
  <2> HIDE DEF h
  <2>2. h = [genes |-> (g.genes \ {gene}) \cup {off, first, second},
             maxneuron |-> k, fitness |-> g.fitness]
    BY <1>2, <2>1 DEF k, Genome
  <2> QED
    BY <2>2
<1>4. /\ off \in Gene /\ SameLink(off, gene)
      /\ first \in Gene /\ first.into = gene.into /\ first.out = k
      /\ first.innovation = innovation + 1
      /\ second \in Gene /\ second.into = k /\ second.out = gene.out
      /\ second.innovation = innovation + 2
  <2>1. off \in Gene /\ SameLink(off, gene)
    BY <1>2 DEF Gene, SameLink
  <2>2. k \in Nat
    BY <1>2
  <2> HIDE DEF k
  <2>3. first \in Gene /\ first.into = gene.into /\ first.out = k /\ first.innovation = innovation + 1
    BY <1>2, <2>2 DEF NewGene, Gene
  <2>4. second \in Gene /\ second.into = k /\ second.out = gene.out /\ second.innovation = innovation + 2
    BY <1>2, <2>2 DEF NewGene, Gene
  <2> QED
    BY <2>1, <2>3, <2>4
<1>5. k \in Nat /\ k \notin OutputNeurons /\ k > g.maxneuron /\ k <= MaxNodes /\ k > Inputs
      /\ Inputs \in Nat \ {0} /\ MaxNodes \in Nat
  BY <1>1, <1>2, EvolutionAssumption DEF Sound, OutputNeurons
<1>6. k = g.maxneuron + 1
  OBVIOUS
<1> HIDE DEF h, k, off, first, second
<1>7. \A a \in g.genes :
        /\ a \in Gene /\ a.innovation \in Nat /\ a.innovation <= innovation
        /\ a.into \in 1..g.maxneuron \cup OutputNeurons
        /\ a.out \in (Inputs + 1)..g.maxneuron \cup OutputNeurons
        /\ a.into # k /\ a.out # k
  BY <1>1, <1>2, <1>5 DEF Sound, Gene
<1>8. h \in Genome
  BY <1>2, <1>3, <1>4, <1>5 DEF Genome
<1>9. \A a \in h.genes : a \in {first, second} \/
        (\E b \in g.genes : SameLink(a, b) /\ (b = gene => a = off) /\ (b # gene => a = b))
  BY <1>3, <1>4 DEF SameLink
<1>10. \A a, b \in h.genes :
         (a.into = b.into /\ a.out = b.out) \/ a.innovation = b.innovation => a = b
  <2> TAKE a, b \in h.genes
  <2> HAVE (a.into = b.into /\ a.out = b.out) \/ a.innovation = b.innovation
  <2>1. CASE a \in {first, second} /\ b \in {first, second}
    BY <1>4, <1>7, <2>1
  <2>2. CASE a \notin {first, second} /\ b \notin {first, second}
    <3>1. PICK c \in g.genes : SameLink(a, c) /\ (c = gene => a = off) /\ (c # gene => a = c)
      BY <1>9, <2>2
    <3>2. PICK d \in g.genes : SameLink(b, d) /\ (d = gene => b = off) /\ (d # gene => b = d)
      BY <1>9, <2>2
    <3>3. (c.into = d.into /\ c.out = d.out) \/ c.innovation = d.innovation
      BY <3>1, <3>2 DEF SameLink
    <3>4. c = d
      BY <1>1, <3>3 DEF Sound
    <3> QED
      BY <3>1, <3>2, <3>4
  <2>3. CASE a \in {first, second} /\ b \notin {first, second}
    BY <1>4, <1>7, <1>9, <2>3 DEF SameLink
  <2>4. CASE a \notin {first, second} /\ b \in {first, second}
    BY <1>4, <1>7, <1>9, <2>4 DEF SameLink
  <2> QED
    BY <2>1, <2>2, <2>3, <2>4
<1>11. \A a \in h.genes :
         /\ a.innovation <= innovation + 2
         /\ a.into \in 1..k \cup OutputNeurons
         /\ a.out \in (Inputs + 1)..k \cup OutputNeurons
  <2>1. 1..g.maxneuron \subseteq 1..k /\ (Inputs + 1)..g.maxneuron \subseteq (Inputs + 1)..k
    BY <1>2, <1>5
  <2>2. k \in 1..k /\ k \in (Inputs + 1)..k
    BY <1>5
  <2>3. \A b \in g.genes : /\ b.innovation <= innovation + 2
                           /\ b.into \in 1..k \cup OutputNeurons
                           /\ b.out \in (Inputs + 1)..k \cup OutputNeurons
    BY <1>7, <2>1
  <2>4. \A a \in h.genes : a \notin {first, second} =>
          /\ a.innovation <= innovation + 2
          /\ a.into \in 1..k \cup OutputNeurons
          /\ a.out \in (Inputs + 1)..k \cup OutputNeurons
    BY <1>9, <2>3 DEF SameLink
  <2> QED
    BY <1>4, <2>2, <2>3, <2>4
<1>12. Sound(h, innovation + 2)
  BY <1>3, <1>5, <1>8, <1>10, <1>11 DEF Sound
<1>13. \A a \in h.genes : Inherits(a, G) \/ a.innovation > innovation
  BY <1>4, <1>9 DEF Inherits
<1> QED
  BY <1>12, <1>13, MutantFits DEF h

\* nodeMutate on a gene that is disabled counts a neuron and adds none.
LEMMA CountedFits ==
  ASSUME NEW G, NEW n \in Nat, Pedigree(G, n), NEW g \in G, g.maxneuron < MaxNodes
  PROVE  Pedigree(G \cup {[g EXCEPT !.maxneuron = @ + 1]}, n)
<1> DEFINE h == [g EXCEPT !.maxneuron = @ + 1]
           k == g.maxneuron + 1
<1>1. Sound(g, n) /\ g \in Genome /\ g.maxneuron \in Nat
  BY DEF Pedigree, Sound, Genome
<1>2. h \in Genome /\ h.genes = g.genes /\ h.maxneuron = k
  BY <1>1 DEF Genome
<1>3. /\ k \in Inputs..MaxNodes /\ 1..g.maxneuron \subseteq 1..k
      /\ (Inputs + 1)..g.maxneuron \subseteq (Inputs + 1)..k
  BY <1>1, EvolutionAssumption DEF Sound
<1> HIDE DEF h, k
<1>4. Sound(h, n)
  BY <1>1, <1>2, <1>3 DEF Sound
<1>5. \A a \in h.genes : Inherits(a, G)
  BY <1>2 DEF Inherits, SameLink
<1> QED
  BY <1>4, <1>5, HeirsFit DEF h

\* enableDisableMutate.
LEMMA ToggledFits ==
  ASSUME NEW G, NEW n \in Nat, Pedigree(G, n), NEW g \in G, NEW gene \in g.genes
  PROVE  Pedigree(G \cup {Toggled(g, gene)}, n)
<1> DEFINE h == Toggled(g, gene)
           other == [gene EXCEPT !.enabled = ~@]
<1>1. Sound(g, n)
  BY DEF Pedigree
<1>2. /\ g \in Genome /\ g.genes \in SUBSET Gene /\ g.maxneuron \in Nat /\ g.fitness \in Nat
      /\ gene \in Gene
  BY <1>1 DEF Sound, Genome
<1>3. /\ h.genes = (g.genes \ {gene}) \cup {other}
      /\ h.maxneuron = g.maxneuron /\ h = [genes |-> h.genes, maxneuron |-> g.maxneuron, fitness |-> g.fitness]
  BY <1>2 DEF Toggled, Genome
<1>4. other \in Gene /\ SameLink(other, gene)
  BY <1>2 DEF Gene, SameLink
<1> HIDE DEF h, other
<1>5. h \in Genome
  BY <1>2, <1>3, <1>4 DEF Genome
<1>6. \A a \in h.genes : \E b \in g.genes :
        SameLink(a, b) /\ (b = gene => a = other) /\ (b # gene => a = b)
  BY <1>3, <1>4 DEF SameLink
<1>7. \A a, b \in h.genes :
        (a.into = b.into /\ a.out = b.out) \/ a.innovation = b.innovation => a = b
  <2> TAKE a, b \in h.genes
  <2> HAVE (a.into = b.into /\ a.out = b.out) \/ a.innovation = b.innovation
  <2>1. PICK c \in g.genes : SameLink(a, c) /\ (c = gene => a = other) /\ (c # gene => a = c)
    BY <1>6
  <2>2. PICK d \in g.genes : SameLink(b, d) /\ (d = gene => b = other) /\ (d # gene => b = d)
    BY <1>6
  <2>3. (c.into = d.into /\ c.out = d.out) \/ c.innovation = d.innovation
    BY <2>1, <2>2 DEF SameLink
  <2>4. c = d
    BY <1>1, <2>3 DEF Sound
  <2> QED
    BY <2>1, <2>2, <2>4
<1>8. \A a \in h.genes : /\ a.innovation <= n
                         /\ a.into \in 1..h.maxneuron \cup OutputNeurons
                         /\ a.out \in (Inputs + 1)..h.maxneuron \cup OutputNeurons
  BY <1>1, <1>3, <1>6 DEF SameLink, Sound
<1>9. Sound(h, n)
  BY <1>1, <1>3, <1>5, <1>7, <1>8 DEF Sound
<1> QED
  BY <1>6, <1>9, MutantFits DEF h, Inherits

-----------------------------------------------------------------------------
(* Species *)
\* The shape of a species that is not empty.
LEMMA SpeciesShape ==
  ASSUME NEW s \in Species, s.genomes # <<>>
  PROVE  /\ s.genomes \in Seq(Genome) /\ Len(s.genomes) \in Nat \ {0}
         /\ DOMAIN s.genomes = 1..Len(s.genomes)
         /\ \A g \in 1..Len(s.genomes) : s.genomes[g] \in Genome
         /\ s.topFitness \in Nat /\ s.staleness \in Nat
<1>1. s.genomes \in Seq(Genome) /\ s.topFitness \in Nat /\ s.staleness \in Nat
  BY DEF Species
<1>2. Len(s.genomes) \in Nat \ {0}
  BY <1>1, EmptySeq
<1>3. DOMAIN s.genomes = 1..Len(s.genomes)
  BY <1>1, LenProperties
<1> QED
  BY <1>1, <1>2, <1>3, ElementOfSeq

\* The shape of a pool.
LEMMA PoolShape ==
  ASSUME NEW sp, SpeciesOK(sp)
  PROVE  /\ sp \in Seq(Species) /\ Len(sp) \in Nat /\ DOMAIN sp = 1..Len(sp)
         /\ \A s \in DOMAIN sp : sp[s] \in Species /\ sp[s].genomes # <<>>
<1>1. sp \in Seq(Species)
  BY DEF SpeciesOK
<1>2. Len(sp) \in Nat /\ DOMAIN sp = 1..Len(sp)
  BY <1>1, LenProperties
<1> QED
  BY <1>1, <1>2, ElementOfSeq DEF SpeciesOK

\* addToSpecies adds its genome and no other, and to strangers only in a species
\* of its own.
LEMMA PlacementsAre ==
  ASSUME NEW sp, SpeciesOK(sp), NEW g \in Genome, NEW sp2 \in Placements(sp, g)
  PROVE  /\ SpeciesOK(sp2)
         /\ GenomesIn(sp2) \subseteq GenomesIn(sp) \cup {g}
         /\ Sharing(sp) => Sharing(sp2)
<1>1. CASE sp2 = Append(sp, NewSpecies(g))
  <2> DEFINE new == NewSpecies(g)
  <2>1. new \in Species /\ new.genomes = <<g>> /\ new.genomes # <<>>
    BY DEF NewSpecies, Species
  <2> HIDE DEF new
  <2>2. /\ sp2 \in Seq(Species) /\ Len(sp2) = Len(sp) + 1
        /\ \A s \in 1..Len(sp) : sp2[s] = sp[s]
        /\ sp2[Len(sp) + 1] = new
    BY <1>1, <2>1, PoolShape, AppendProperties DEF new
  <2>3. DOMAIN sp2 = 1..Len(sp) + 1
    BY <2>2, LenProperties
  <2>4. \A s \in DOMAIN sp2 : (s \in DOMAIN sp /\ sp2[s] = sp[s]) \/ sp2[s] = new
    BY <2>2, <2>3, PoolShape
  <2>5. SpeciesOK(sp2)
    BY <2>1, <2>2, <2>4 DEF SpeciesOK
  <2>6. GenomesOf(new) = {g}
    BY <2>1 DEF GenomesOf
  <2>7. GenomesIn(sp2) \subseteq GenomesIn(sp) \cup {g}
    BY <2>4, <2>6 DEF GenomesIn
  <2>8. Len(new.genomes) = 1
    BY <2>1
  <2>9. Sharing(sp) => Sharing(sp2)
    BY <2>4, <2>8 DEF Sharing
  <2> QED
    BY <2>5, <2>7, <2>9
<1>2. CASE \E t \in DOMAIN sp : /\ MayBeSameSpecies(g, sp[t].genomes[1])
                               /\ sp2 = [sp EXCEPT ![t].genomes = Append(@, g)]
  <2>1. PICK t \in DOMAIN sp : /\ MayBeSameSpecies(g, sp[t].genomes[1])
                              /\ sp2 = [sp EXCEPT ![t].genomes = Append(@, g)]
    BY <1>2
  <2> DEFINE old == sp[t]
             new == [old EXCEPT !.genomes = Append(@, g)]
             n == Len(old.genomes)
  <2>2. old \in Species /\ old.genomes # <<>>
    BY PoolShape
  <2>3. /\ old.genomes \in Seq(Genome) /\ n \in Nat \ {0}
        /\ DOMAIN old.genomes = 1..n
    BY <2>2, SpeciesShape
  <2> HIDE DEF old
  <2>4. new \in Species /\ new.genomes = Append(old.genomes, g)
    BY <2>2, <2>3 DEF Species
  <2>5. /\ new.genomes # <<>> /\ Len(new.genomes) = n + 1
        /\ \A i \in 1..n : new.genomes[i] = old.genomes[i]
        /\ new.genomes[n + 1] = g
    BY <2>3, <2>4, AppendProperties
  <2>6. DOMAIN new.genomes = 1..n + 1
    BY <2>4, <2>5, SpeciesShape
  <2>7. sp2 = [sp EXCEPT ![t] = new]
    BY <2>1 DEF old
  <2> HIDE DEF new, n
  <2>8. /\ DOMAIN sp2 = DOMAIN sp /\ sp2[t] = new
        /\ \A s \in DOMAIN sp : s # t => sp2[s] = sp[s]
        /\ sp2 \in Seq(Species)
    BY <2>4, <2>7, PoolShape, ExceptSeq
  <2>9. SpeciesOK(sp2)
    BY <2>5, <2>8, PoolShape DEF SpeciesOK
  <2>10. GenomesOf(new) \subseteq GenomesOf(old) \cup {g}
    BY <2>3, <2>5, <2>6 DEF GenomesOf
  <2>11. GenomesIn(sp2) \subseteq GenomesIn(sp) \cup {g}
    BY <2>8, <2>10 DEF GenomesIn, old
  <2>12. ASSUME Sharing(sp) PROVE Sharing(sp2)
    <3>1. \A i \in 2..n : Innovations(old.genomes[i]) \cap Innovations(old.genomes[1]) # {}
      BY <2>12 DEF Sharing, old, n
    <3>2. Innovations(g) \cap Innovations(old.genomes[1]) # {}
      BY <2>1 DEF MayBeSameSpecies, old
    <3>3. \A i \in 2..Len(new.genomes) :
            Innovations(new.genomes[i]) \cap Innovations(new.genomes[1]) # {}
      <4> TAKE i \in 2..Len(new.genomes)
      <4>1. new.genomes[1] = old.genomes[1]
        BY <2>3, <2>5
      <4>2. i \in 2..n \/ i = n + 1
        BY <2>3, <2>5
      <4> QED
        BY <2>3, <2>5, <3>1, <3>2, <4>1, <4>2
    <3> QED
      BY <2>8, <2>12, <3>3 DEF Sharing
  <2> QED
    BY <2>9, <2>11, <2>12
<1> QED
  BY <1>1, <1>2 DEF Placements

\* Sorting loses and invents no genome.
LEMMA SortedAre ==
  ASSUME NEW s \in Species, s.genomes # <<>>, NEW sorted \in Sorted(s)
  PROVE  /\ sorted \in Seq(Genome) /\ Len(sorted) = Len(s.genomes)
         /\ \A i \in 1..Len(sorted) : sorted[i] \in GenomesOf(s)
<1> DEFINE n == Len(s.genomes)
<1>1. PICK order \in [1..n -> 1..n] : sorted = [g \in 1..n |-> s.genomes[order[g]]]
  BY DEF Sorted
<1>2. n \in Nat \ {0} /\ DOMAIN s.genomes = 1..n /\ \A g \in 1..n : s.genomes[g] \in Genome
  BY SpeciesShape
<1> HIDE DEF n
<1>3. sorted \in [1..n -> Genome]
  BY <1>1, <1>2
<1>4. sorted \in Seq(Genome) /\ Len(sorted) = n
  BY <1>2, <1>3, FunctionIsSeq
<1>5. \A i \in 1..n : sorted[i] \in GenomesOf(s)
  BY <1>1, <1>2 DEF GenomesOf
<1> QED
  BY <1>4, <1>5 DEF n

\* cullSpecies leaves members of the species, at least one, or exactly one.
LEMMA CulledAre ==
  ASSUME NEW s \in Species, s.genomes # <<>>, NEW c \in Halves(s) \cup Bests(s)
  PROVE  /\ c \in Species /\ c.genomes # <<>>
         /\ GenomesOf(c) \subseteq GenomesOf(s)
         /\ c \in Bests(s) => Len(c.genomes) = 1
<1>1. CASE c \in Halves(s)
  <2>1. PICK sorted \in Sorted(s) :
          c = [s EXCEPT !.genomes = SubSeq(sorted, 1, (Len(sorted) + 1) \div 2)]
    BY <1>1 DEF Halves
  <2> DEFINE m == (Len(sorted) + 1) \div 2
             kept == SubSeq(sorted, 1, m)
  <2>2. /\ sorted \in Seq(Genome) /\ Len(sorted) \in Nat \ {0}
        /\ \A i \in 1..Len(sorted) : sorted[i] \in GenomesOf(s) /\ sorted[i] \in Genome
    BY SortedAre, SpeciesShape, ElementOfSeq
  <2>3. m \in Nat \ {0} /\ m <= Len(sorted)
    BY <2>2
  <2> HIDE DEF m
  <2>4. /\ kept \in Seq(Genome) /\ Len(kept) = m
        /\ \A i \in 1..m : kept[i] = sorted[i]
    BY <2>2, <2>3, SubSeqProperties
  <2>5. DOMAIN kept = 1..m /\ kept # <<>>
    BY <2>3, <2>4, LenProperties, EmptySeq
  <2>6. c = [s EXCEPT !.genomes = kept]
    BY <2>1 DEF m
  <2> HIDE DEF kept
  <2>7. c \in Species /\ c.genomes = kept
    BY <2>4, <2>6 DEF Species
  <2>8. GenomesOf(c) \subseteq GenomesOf(s)
    BY <2>2, <2>3, <2>4, <2>5, <2>7 DEF GenomesOf
  <2>9. c \in Bests(s) => Len(c.genomes) = 1
    BY DEF Bests, Species
  <2> QED
    BY <2>5, <2>7, <2>8, <2>9
<1>2. CASE c \in Bests(s)
  <2>1. PICK sorted \in Sorted(s) : c = [s EXCEPT !.genomes = <<sorted[1]>>]
    BY <1>2 DEF Bests
  <2>2. sorted[1] \in GenomesOf(s) /\ sorted[1] \in Genome
    BY SortedAre, SpeciesShape, ElementOfSeq
  <2>3. PICK best \in Genome : best \in GenomesOf(s) /\ c = [s EXCEPT !.genomes = <<best>>]
    BY <2>1, <2>2
  <2>4. <<best>> \in Seq(Genome) /\ <<best>> # <<>> /\ Len(<<best>>) = 1
    OBVIOUS
  <2>5. c \in Species /\ c.genomes = <<best>>
    BY <2>3, <2>4 DEF Species
  <2> QED
    BY <2>3, <2>4, <2>5 DEF GenomesOf
<1> QED
  BY <1>1, <1>2

\* removeStaleSpecies changes no genome.
LEMMA AgedAre ==
  ASSUME NEW s \in Species, s.genomes # <<>>
  PROVE  Aged(s) \in Species /\ Aged(s).genomes = s.genomes
<1>1. s.genomes[1] \in Genome /\ s.staleness \in Nat
  BY SpeciesShape
<1>2. s.genomes[1].fitness \in Nat
  BY <1>1 DEF Genome
<1>3. CASE s.genomes[1].fitness > s.topFitness
  <2>1. PICK best \in Nat : Aged(s) = [s EXCEPT !.topFitness = best, !.staleness = 0]
    BY <1>2, <1>3 DEF Aged
  <2>2. Aged(s) = [genomes |-> s.genomes, topFitness |-> best, staleness |-> 0]
    BY <2>1 DEF Species
  <2>3. s.genomes \in Seq(Genome)
    BY DEF Species
  <2> QED
    BY <2>2, <2>3 DEF Species
<1>4. CASE ~(s.genomes[1].fitness > s.topFitness)
  <2>1. Aged(s) = [s EXCEPT !.staleness = @ + 1]
    BY <1>4 DEF Aged
  <2> QED
    BY <1>1, <2>1 DEF Species
<1> QED
  BY <1>3, <1>4

\* Taking species out of the table.
LEMMA PackedAre ==
  ASSUME NEW sp, SpeciesOK(sp), NEW kept \in SUBSET DOMAIN sp, NEW at \in Packings(kept),
         NEW packed, packed = [i \in DOMAIN at |-> sp[at[i]]]
  PROVE  /\ SpeciesOK(packed) /\ DOMAIN packed = DOMAIN at
         /\ GenomesIn(packed) \subseteq GenomesIn(sp)
<1>1. /\ Cardinality(kept) \in Nat /\ DOMAIN at = 1..Cardinality(kept)
      /\ \A i \in DOMAIN at : at[i] \in DOMAIN sp
  BY PackingsAre, PoolShape
<1>2. packed \in [1..Cardinality(kept) -> Species]
  BY <1>1, PoolShape
<1>3. packed \in Seq(Species)
  BY <1>1, <1>2, FunctionIsSeq
<1>4. \A i \in DOMAIN packed : packed[i].genomes # <<>>
  BY <1>1, PoolShape
<1>5. GenomesIn(packed) \subseteq GenomesIn(sp)
  BY <1>1 DEF GenomesIn
<1> QED
  BY <1>3, <1>4, <1>5 DEF SpeciesOK

\* scored gives the genomes of each species of sp other fitnesses.
Scores(scored, sp) ==
  \A s \in DOMAIN sp : \E fit \in [DOMAIN sp[s].genomes -> Nat] :
    scored[s] = [g \in DOMAIN sp[s].genomes |-> [sp[s].genomes[g] EXCEPT !.fitness = fit[g]]]

Rescored(sp, scored) == [s \in DOMAIN sp |-> [sp[s] EXCEPT !.genomes = scored[s]]]

\* Fitnesses given to all genomes, or taken from them: everything else stays.
LEMMA RescoredAre ==
  ASSUME NEW sp, SpeciesOK(sp), NEW scored, Scores(scored, sp),
         NEW sp2, sp2 = Rescored(sp, scored)
  PROVE  /\ SpeciesOK(sp2)
         /\ \A g \in GenomesIn(sp2) : g \in Genome /\ \E h \in GenomesIn(sp) :
              g.genes = h.genes /\ g.maxneuron = h.maxneuron
         /\ Sharing(sp) => Sharing(sp2)
<1>1. ASSUME NEW s \in DOMAIN sp
      PROVE  /\ sp2[s] \in Species /\ sp2[s].genomes # <<>>
             /\ Len(sp2[s].genomes) = Len(sp[s].genomes)
             /\ DOMAIN sp2[s].genomes = 1..Len(sp[s].genomes)
             /\ DOMAIN sp[s].genomes = 1..Len(sp[s].genomes)
             /\ Len(sp[s].genomes) \in Nat \ {0}
             /\ \A g \in 1..Len(sp[s].genomes) :
                  /\ sp2[s].genomes[g] \in Genome
                  /\ sp2[s].genomes[g].genes = sp[s].genomes[g].genes
                  /\ sp2[s].genomes[g].maxneuron = sp[s].genomes[g].maxneuron
  <2> DEFINE old == sp[s]
             n == Len(old.genomes)
  <2>1. /\ old \in Species /\ n \in Nat \ {0} /\ DOMAIN old.genomes = 1..n
        /\ \A g \in 1..n : old.genomes[g] \in Genome
    BY PoolShape, SpeciesShape
  <2>2. PICK fit \in [1..n -> Nat] :
          scored[s] = [g \in 1..n |-> [old.genomes[g] EXCEPT !.fitness = fit[g]]]
    BY <2>1 DEF Scores
  <2>3. sp2[s] = [old EXCEPT !.genomes = scored[s]]
    BY DEF Rescored
  <2> HIDE DEF old, n
  <2>4. \A g \in 1..n : /\ scored[s][g] \in Genome
                        /\ scored[s][g].genes = old.genomes[g].genes
                        /\ scored[s][g].maxneuron = old.genomes[g].maxneuron
    BY <2>1, <2>2 DEF Genome
  <2>5. scored[s] \in Seq(Genome) /\ Len(scored[s]) = n /\ DOMAIN scored[s] = 1..n
    BY <2>1, <2>2, <2>4, FunctionIsSeq
  <2>6. sp2[s] \in Species /\ sp2[s].genomes = scored[s]
    BY <2>1, <2>3, <2>5 DEF Species
  <2>7. scored[s] # <<>>
    BY <2>1, <2>5, EmptySeq
  <2> QED
    BY <2>1, <2>4, <2>5, <2>6, <2>7 DEF old, n
<1>2. DOMAIN sp2 = DOMAIN sp
  BY DEF Rescored
<1>3. sp2 \in Seq(Species)
  <2>1. sp2 \in [1..Len(sp) -> Species]
    BY <1>1, <1>2, PoolShape DEF Rescored
  <2> QED
    BY <2>1, PoolShape, FunctionIsSeq
<1>4. SpeciesOK(sp2)
  BY <1>1, <1>2, <1>3 DEF SpeciesOK
<1>5. ASSUME NEW g \in GenomesIn(sp2)
      PROVE  g \in Genome /\ \E h \in GenomesIn(sp) :
               g.genes = h.genes /\ g.maxneuron = h.maxneuron
  <2>1. PICK s \in DOMAIN sp2 : g \in GenomesOf(sp2[s])
    BY DEF GenomesIn
  <2>2. PICK i \in DOMAIN sp2[s].genomes : g = sp2[s].genomes[i]
    BY <2>1 DEF GenomesOf
  <2>3. s \in DOMAIN sp
    BY <1>2
  <2>4. i \in DOMAIN sp[s].genomes /\ i \in 1..Len(sp[s].genomes)
    BY <1>1, <2>2, <2>3
  <2>5. sp[s].genomes[i] \in GenomesOf(sp[s])
    BY <2>4 DEF GenomesOf
  <2>6. sp[s].genomes[i] \in GenomesIn(sp)
    BY <2>3, <2>5 DEF GenomesIn
  <2> QED
    BY <1>1, <2>2, <2>3, <2>4, <2>6
<1>6. ASSUME Sharing(sp), NEW s \in DOMAIN sp, NEW g \in 2..Len(sp2[s].genomes)
      PROVE  Innovations(sp2[s].genomes[g]) \cap Innovations(sp2[s].genomes[1]) # {}
  <2>1. g \in 2..Len(sp[s].genomes) /\ g \in 1..Len(sp[s].genomes) /\ 1 \in 1..Len(sp[s].genomes)
    BY <1>1, <1>6
  <2>2. Innovations(sp[s].genomes[g]) \cap Innovations(sp[s].genomes[1]) # {}
    BY <1>6, <2>1 DEF Sharing
  <2>3. /\ Innovations(sp2[s].genomes[g]) = Innovations(sp[s].genomes[g])
        /\ Innovations(sp2[s].genomes[1]) = Innovations(sp[s].genomes[1])
    BY <1>1, <2>1 DEF Innovations
  <2> QED
    BY <2>2, <2>3
<1>7. Sharing(sp) => Sharing(sp2)
  BY <1>2, <1>6 DEF Sharing
<1> QED
  BY <1>4, <1>5, <1>7

-----------------------------------------------------------------------------
(* The steps *)
\* TypeOK in the terms used here.
LEMMA TypeOKMeans ==
  ASSUME TypeOK
  PROVE  /\ SpeciesOK(species)
         /\ innovation \in Nat /\ maxFitness \in Nat /\ generation \in Nat
         /\ stage \in Stages /\ owed \in Seq(Int) /\ children \in Seq(Genome)
         /\ child \in Genome \cup {NoGenome} /\ turn \in Link..Disable
BY DEF TypeOK, SpeciesOK, Species

\* The parts of GInv are what there is to show of a step.
LEMMA GInvNext ==
  ASSUME SpeciesOK(species'), innovation' \in Nat, maxFitness' \in Nat, generation' \in Nat,
         stage' \in Stages, owed' \in Seq(Int), children' \in Seq(Genome),
         child' \in Genome \cup {NoGenome}, turn' \in Link..Disable,
         Pedigree(Genomes', innovation'), SpeciesInStage'
  PROVE  GInv'
<1>1. TypeOK'
  BY DEF TypeOK, SpeciesOK, Species
<1> QED
  BY <1>1 DEF GInv

\* Where genomes are.
LEMMA GenomesAre ==
  Genomes = GenomesIn(species) \cup {children[c] : c \in DOMAIN children}
              \cup ({child} \ {NoGenome})
BY DEF Genomes, GenomesIn

\* All halves after removeStaleSpecies, and those of them that last.
Aging(halves) == [s \in DOMAIN halves |-> Aged(halves[s])]

Outlasting(halves, at) == [i \in DOMAIN at |-> Aging(halves)[at[i]]]

\* The choices newGeneration makes until it breeds: the halves it keeps, which
\* species last and which of those are strong, and the children of each.
Selects(halves, at, rank, share, by, breed) ==
  LET aged == Aging(halves)
      lasting == Outlasting(halves, at)
      average == Averages(lasting, rank)
      strong == {s \in DOMAIN lasting : share[s] >= 1}
  IN /\ DOMAIN halves = DOMAIN species
     /\ \A s \in DOMAIN species : halves[s] \in Halves(species[s])
     /\ at \in Packings({s \in DOMAIN aged : Lasting(aged[s])})
     /\ rank \in Rankings(lasting)
     /\ share \in Shares(average, DOMAIN lasting)
     /\ by \in Packings(strong)
     /\ breed \in Shares(average, strong)
     /\ species' = [i \in DOMAIN by |-> lasting[by[i]]]
     /\ owed' = [i \in DOMAIN by |-> ChildrenOwed(breed[by[i]])]

LEMMA SelectPicks ==
  ASSUME Select
  PROVE  \E halves, at, rank, share, by, breed : Selects(halves, at, rank, share, by, breed)
<1>1. PICK halves \in {h \in [DOMAIN species -> UNION {Halves(species[s]) : s \in DOMAIN species}] :
                         \A s \in DOMAIN species : h[s] \in Halves(species[s])} :
       LET aged == [s \in DOMAIN halves |-> Aged(halves[s])]
       IN \E at \in Packings({s \in DOMAIN aged : Lasting(aged[s])}) :
            LET lasting == [i \in DOMAIN at |-> aged[at[i]]]
            IN \E rank \in Rankings(lasting) :
                 LET average == Averages(lasting, rank)
                 IN \E share \in Shares(average, DOMAIN lasting) :
                      LET strong == {s \in DOMAIN lasting : share[s] >= 1}
                      IN \E by \in Packings(strong), breed \in Shares(average, strong) :
                           /\ species' = [i \in DOMAIN by |-> lasting[by[i]]]
                           /\ owed' = [i \in DOMAIN by |-> ChildrenOwed(breed[by[i]])]
  BY DEF Select
<1> DEFINE aged == [s \in DOMAIN halves |-> Aged(halves[s])]
           last == {s \in DOMAIN aged : Lasting(aged[s])}
<1>2. DOMAIN halves = DOMAIN species /\ \A s \in DOMAIN species : halves[s] \in Halves(species[s])
  BY <1>1
<1>3. PICK at \in Packings(last) :
            LET lasting == [i \in DOMAIN at |-> aged[at[i]]]
            IN \E rank \in Rankings(lasting) :
                 LET average == Averages(lasting, rank)
                 IN \E share \in Shares(average, DOMAIN lasting) :
                      LET strong == {s \in DOMAIN lasting : share[s] >= 1}
                      IN \E by \in Packings(strong), breed \in Shares(average, strong) :
                           /\ species' = [i \in DOMAIN by |-> lasting[by[i]]]
                           /\ owed' = [i \in DOMAIN by |-> ChildrenOwed(breed[by[i]])]
  BY <1>1, Zenon
<1> DEFINE lasting == [i \in DOMAIN at |-> aged[at[i]]]
<1>4. PICK rank \in Rankings(lasting) :
                 LET average == Averages(lasting, rank)
                 IN \E share \in Shares(average, DOMAIN lasting) :
                      LET strong == {s \in DOMAIN lasting : share[s] >= 1}
                      IN \E by \in Packings(strong), breed \in Shares(average, strong) :
                           /\ species' = [i \in DOMAIN by |-> lasting[by[i]]]
                           /\ owed' = [i \in DOMAIN by |-> ChildrenOwed(breed[by[i]])]
  BY <1>3, Zenon
<1> DEFINE average == Averages(lasting, rank)
<1>5. PICK share \in Shares(average, DOMAIN lasting) :
                      LET strong == {s \in DOMAIN lasting : share[s] >= 1}
                      IN \E by \in Packings(strong), breed \in Shares(average, strong) :
                           /\ species' = [i \in DOMAIN by |-> lasting[by[i]]]
                           /\ owed' = [i \in DOMAIN by |-> ChildrenOwed(breed[by[i]])]
  BY <1>4, Zenon
<1> DEFINE strong == {s \in DOMAIN lasting : share[s] >= 1}
<1>6. PICK by \in Packings(strong), breed \in Shares(average, strong) :
           /\ species' = [i \in DOMAIN by |-> lasting[by[i]]]
           /\ owed' = [i \in DOMAIN by |-> ChildrenOwed(breed[by[i]])]
  BY <1>5
<1>7. Selects(halves, at, rank, share, by, breed)
  BY <1>2, <1>3, <1>4, <1>5, <1>6, Zenon DEF Selects, Aging, Outlasting
<1> QED
  BY <1>7

\* The species that last are made of halves of the pool's.
LEMMA LastingAre ==
  ASSUME TypeOK, NEW halves, NEW at, NEW rank, NEW share, NEW by, NEW breed,
         Selects(halves, at, rank, share, by, breed),
         NEW lasting, lasting = Outlasting(halves, at)
  PROVE  /\ SpeciesOK(lasting) /\ GenomesIn(lasting) \subseteq GenomesIn(species)
         /\ \A i \in DOMAIN lasting : \E s \in DOMAIN species : \E half \in Halves(species[s]) :
              lasting[i] = Aged(half)
<1> DEFINE aged == Aging(halves)
           last == {s \in DOMAIN aged : Lasting(aged[s])}
<1>1. SpeciesOK(species)
  BY TypeOKMeans
<1>2. /\ DOMAIN halves = DOMAIN species /\ DOMAIN aged = DOMAIN species
      /\ \A s \in DOMAIN species : halves[s] \in Halves(species[s]) /\ aged[s] = Aged(halves[s])
  BY DEF Selects, Aging
<1>3. at \in Packings(last) /\ lasting = [i \in DOMAIN at |-> aged[at[i]]]
  BY DEF Selects, Outlasting
<1> HIDE DEF aged
<1>4. /\ DOMAIN aged = 1..Len(species) /\ Len(species) \in Nat
      /\ \A s \in DOMAIN aged : /\ aged[s] \in Species /\ aged[s].genomes # <<>>
                                /\ GenomesOf(aged[s]) \subseteq GenomesOf(species[s])
  <2>1. DOMAIN aged = 1..Len(species) /\ DOMAIN species = 1..Len(species) /\ Len(species) \in Nat
    BY <1>1, <1>2, PoolShape
  <2>2. ASSUME NEW s \in DOMAIN species
        PROVE  /\ aged[s] \in Species /\ aged[s].genomes # <<>>
               /\ GenomesOf(aged[s]) \subseteq GenomesOf(species[s])
    <3>1. species[s] \in Species /\ species[s].genomes # <<>>
      BY <1>1, PoolShape
    <3>2. /\ halves[s] \in Species /\ halves[s].genomes # <<>>
          /\ GenomesOf(halves[s]) \subseteq GenomesOf(species[s])
      BY <1>2, <3>1, CulledAre
    <3>3. Aged(halves[s]) \in Species /\ Aged(halves[s]).genomes = halves[s].genomes
      BY <3>2, AgedAre
    <3>4. GenomesOf(Aged(halves[s])) = GenomesOf(halves[s])
      BY <3>3 DEF GenomesOf
    <3>5. aged[s] = Aged(halves[s])
      BY <1>2
    <3> QED
      BY <3>2, <3>3, <3>4, <3>5
  <2> QED
    BY <2>1, <2>2
<1>5. SpeciesOK(aged) /\ GenomesIn(aged) \subseteq GenomesIn(species)
  <2>1. aged \in [1..Len(species) -> Species]
    BY <1>4 DEF aged, Aging
  <2>2. aged \in Seq(Species)
    BY <1>4, <2>1, FunctionIsSeq
  <2>3. SpeciesOK(aged)
    BY <1>4, <2>2 DEF SpeciesOK
  <2>4. GenomesIn(aged) \subseteq GenomesIn(species)
    BY <1>4, <1>1, PoolShape DEF GenomesIn
  <2> QED
    BY <2>3, <2>4
<1>6. /\ SpeciesOK(lasting) /\ GenomesIn(lasting) \subseteq GenomesIn(aged)
  <2>1. last \in SUBSET DOMAIN aged
    OBVIOUS
  <2> HIDE DEF last
  <2> QED
    BY <1>3, <1>5, <2>1, PackedAre
<1>7. ASSUME NEW i \in DOMAIN lasting
       PROVE  \E s \in DOMAIN species : \E half \in Halves(species[s]) : lasting[i] = Aged(half)
  <2>1. at[i] \in last /\ lasting[i] = aged[at[i]]
    BY <1>3, <1>7 DEF Packings
  <2>2. at[i] \in DOMAIN species
    BY <1>2, <2>1
  <2> QED
    BY <1>2, <2>1, <2>2
<1> QED
  BY <1>5, <1>6, <1>7

\* What Select leaves of the pool.
LEMMA SelectLeaves ==
  ASSUME TypeOK, Select
  PROVE  /\ SpeciesOK(species') /\ owed' \in Seq(Int)
         /\ DOMAIN owed' = DOMAIN species'
         /\ GenomesIn(species') \subseteq GenomesIn(species)
<1>1. PICK halves, at, rank, share, by, breed : Selects(halves, at, rank, share, by, breed)
  BY SelectPicks
<1> DEFINE lasting == Outlasting(halves, at)
           average == Averages(lasting, rank)
           strong == {s \in DOMAIN lasting : share[s] >= 1}
<1>2. /\ by \in Packings(strong) /\ breed \in Shares(average, strong)
      /\ species' = [i \in DOMAIN by |-> lasting[by[i]]]
      /\ owed' = [i \in DOMAIN by |-> ChildrenOwed(breed[by[i]])]
  BY <1>1 DEF Selects
<1>3. SpeciesOK(lasting) /\ GenomesIn(lasting) \subseteq GenomesIn(species)
  BY <1>1, LastingAre
<1>4. /\ SpeciesOK(species') /\ GenomesIn(species') \subseteq GenomesIn(lasting)
  <2> HIDE DEF lasting
  <2> QED
    BY <1>2, <1>3, PackedAre
<1>5. owed' \in Seq(Int)
  <2>1. breed \in [strong -> 0..Population]
    BY <1>2 DEF Shares
  <2>2. /\ Cardinality(strong) \in Nat /\ DOMAIN by = 1..Cardinality(strong)
        /\ \A i \in DOMAIN by : by[i] \in strong
    <3> HIDE DEF lasting
    <3> QED
      BY <1>2, <1>3, PackingsAre, PoolShape
  <2>3. owed' \in [1..Cardinality(strong) -> Int]
    BY <1>2, <2>1, <2>2 DEF ChildrenOwed
  <2> QED
    BY <2>2, <2>3, FunctionIsSeq
<1>6. DOMAIN owed' = DOMAIN species'
  <2> HIDE DEF lasting, strong, average
  <2> QED
    BY <1>2
<1> QED
  BY <1>3, <1>4, <1>5, <1>6

\* What cullSpecies(true) leaves of it.
LEMMA CullToOneLeaves ==
  ASSUME TypeOK, CullToOne
  PROVE  /\ SpeciesOK(species') /\ GenomesIn(species') \subseteq GenomesIn(species)
         /\ \A s \in DOMAIN species' : Len(species'[s].genomes) = 1
<1>0. /\ SpeciesOK(species) /\ DOMAIN species = 1..Len(species) /\ Len(species) \in Nat
  BY TypeOKMeans, PoolShape
<1>1. DOMAIN species' = DOMAIN species
      /\ \A s \in DOMAIN species : species'[s] \in Bests(species[s])
  BY DEF CullToOne
<1>2. \A s \in DOMAIN species : /\ species'[s] \in Species /\ species'[s].genomes # <<>>
                                /\ GenomesOf(species'[s]) \subseteq GenomesOf(species[s])
                                /\ Len(species'[s].genomes) = 1
  BY <1>0, <1>1, PoolShape, CulledAre
<1>3. species' \in Seq(Species)
  <2>1. species' = [s \in DOMAIN species |-> species'[s]]
    BY <1>1 DEF CullToOne
  <2>2. species' \in [1..Len(species) -> Species]
    BY <1>0, <1>2, <2>1
  <2> QED
    BY <1>0, <2>2, FunctionIsSeq
<1>4. GenomesIn(species') \subseteq GenomesIn(species)
  BY <1>1, <1>2 DEF GenomesIn
<1> QED
  BY <1>1, <1>2, <1>3, <1>4 DEF SpeciesOK

\* The empty pool.
LEMMA EvolutionInit == Init => GInv
<1> SUFFICES ASSUME Init PROVE GInv
  OBVIOUS
<1>1. species = <<>> /\ children = <<>> /\ owed = <<>> /\ child = NoGenome
  BY DEF Init
<1>2. Genomes = {}
  BY <1>1 DEF Genomes
<1>3. Pedigree(Genomes, innovation)
  BY <1>2 DEF Pedigree
<1>4. SpeciesInStage
  BY <1>1 DEF SpeciesInStage, Sharing
<1>5. TypeOK
  <2>1. species \in Seq(Species) /\ owed \in Seq(Int) /\ children \in Seq(Genome)
    BY <1>1
  <2>2. innovation \in Nat /\ maxFitness \in Nat /\ generation \in Nat /\ stage \in Stages
        /\ turn \in Link..Disable
    BY EvolutionAssumption DEF Init, Stages, Link, Disable
  <2> QED
    BY <1>1, <2>1, <2>2 DEF TypeOK, Species
<1> QED
  BY <1>3, <1>4, <1>5 DEF GInv

\* Steps that only begin a genome which inherits its genes.
LEMMA BeginKeeps ==
  ASSUME GInv, NEW genome, Sound(genome, innovation),
         \A a \in genome.genes : Inherits(a, Genomes),
         Begin(genome), UNCHANGED <<pool, children, stage>>,
         owed' \in Seq(Int), DOMAIN owed' = DOMAIN owed
  PROVE  GInv'
<1> USE TypeOKMeans DEF GInv
<1>1. child' = genome /\ turn' \in Link..Disable
  BY DEF Begin, Link, Disable
<1>2. genome \in Genome
  BY DEF Sound
<1>3. Pedigree(Genomes \cup {genome}, innovation)
  BY HeirsFit
<1>4. Genomes' \subseteq Genomes \cup {genome}
  BY <1>1 DEF Genomes, pool
<1>5. Pedigree(Genomes', innovation')
  BY <1>3, <1>4 DEF Pedigree, pool
<1>6. SpeciesInStage'
  BY DEF SpeciesInStage, Sharing, Innovations, pool
<1>7. SpeciesOK(species')
  BY DEF SpeciesOK, pool
<1> QED
  BY <1>1, <1>2, <1>5, <1>6, <1>7, GInvNext DEF pool

\* initializePool.
LEMMA FoundKeeps ==
  ASSUME GInv, Found
  PROVE  GInv'
<1>1. BasicGenome \in Genome /\ BasicGenome.genes = {} /\ BasicGenome.maxneuron = Inputs
  BY EvolutionAssumption DEF BasicGenome, Genome
<1>2. Sound(BasicGenome, innovation)
  BY <1>1, EvolutionAssumption DEF Sound
<1> QED
  BY <1>1, <1>2, BeginKeeps, TypeOKMeans DEF Found, GInv, pool

\* The children of newGeneration.
LEMMA BreedKeeps ==
  ASSUME GInv, Breed \/ Fill
  PROVE  GInv'
<1>1. PICK s \in DOMAIN species : \E genome \in Offspring(GenomesOf(species[s])) : Begin(genome)
  BY DEF Breed, Fill, GInv, SpeciesInStage
<1>2. PICK genome \in Offspring(GenomesOf(species[s])) : Begin(genome)
  BY <1>1
<1>3. GenomesOf(species[s]) \subseteq Genomes
  BY GenomesAre DEF GenomesIn
<1>4. Sound(genome, innovation) /\ \A a \in genome.genes : Inherits(a, Genomes)
  BY <1>2, <1>3, OffspringFit, TypeOKMeans DEF GInv
<1>5. owed' \in Seq(Int) /\ DOMAIN owed' = DOMAIN owed
  <2>1. CASE Fill
    BY <2>1, TypeOKMeans DEF Fill, GInv
  <2>2. CASE Breed
    <3>1. PICK r \in DOMAIN owed : owed' = [owed EXCEPT ![r] = @ - 1]
      BY <2>2 DEF Breed
    <3>2. owed \in Seq(Int) /\ r \in 1..Len(owed) /\ owed[r] \in Int
      BY TypeOKMeans, LenProperties, ElementOfSeq DEF GInv
    <3> DEFINE e == owed[r] - 1
    <3>3. e \in Int /\ owed' = [owed EXCEPT ![r] = e]
      BY <3>1, <3>2
    <3> HIDE DEF e
    <3>4. owed' \in Seq(Int) /\ Len(owed') = Len(owed)
      BY <3>2, <3>3, ExceptSeq
    <3> QED
      BY <3>2, <3>4, LenProperties
  <2> QED
    BY <2>1, <2>2
<1> QED
  BY <1>2, <1>4, <1>5, BeginKeeps DEF Breed, Fill, pool

\* Steps that mutate the child.
LEMMA MutationKeeps ==
  ASSUME GInv, \E kind \in Link..Disable : Mutates(kind),
         Pedigree(Genomes \cup {child'}, innovation'), innovation' \in Nat
  PROVE  GInv'
<1> USE TypeOKMeans DEF GInv
<1>1. UNCHANGED <<species, maxFitness, generation, stage, owed, children>>
      /\ turn' \in Link..Disable
  BY DEF Mutates
<1>2. child' \in Genome
  BY DEF Pedigree, Sound
<1>3. Genomes' \subseteq Genomes \cup {child'}
  BY <1>1 DEF Genomes
<1>4. Pedigree(Genomes', innovation')
  BY <1>3 DEF Pedigree
<1>5. SpeciesInStage'
  BY <1>1 DEF SpeciesInStage, Sharing, Innovations
<1>6. SpeciesOK(species')
  BY <1>1 DEF SpeciesOK
<1> QED
  BY <1>1, <1>2, <1>4, <1>5, <1>6, GInvNext

\* mutate, kind by kind.
LEMMA MutateKeeps ==
  ASSUME GInv, Mutate
  PROVE  GInv'
<1> USE TypeOKMeans DEF GInv
<1>0. child # NoGenome => child \in Genomes
  BY DEF Genomes
<1>1. ASSUME NEW forceBias \in BOOLEAN, LinkMutate(forceBias)
      PROVE  GInv'
  <2>1. child \in Genomes /\ \E kind \in Link..Disable : Mutates(kind)
    BY <1>0, <1>1 DEF LinkMutate, Mutates, Link, Bias, Disable
  <2>2. PICK neuron1 \in Neurons(child.genes, FALSE), out \in Neurons(child.genes, TRUE) :
          LET into == IF forceBias THEN Inputs ELSE neuron1
          IN /\ ~ContainsLink(child.genes, into, out)
             /\ innovation' = innovation + 1
             /\ child' = [child EXCEPT !.genes = @ \cup {NewGene(into, out, innovation + 1)}]
    BY <1>1 DEF LinkMutate
  <2> DEFINE into == IF forceBias THEN Inputs ELSE neuron1
  <2>3. into \in 1..Inputs \cup OutputNeurons \cup {gene.into : gene \in child.genes}
                   \cup {gene.out : gene \in child.genes}
    BY EvolutionAssumption DEF Neurons
  <2>4. /\ ~ContainsLink(child.genes, into, out)
        /\ innovation' = innovation + 1
        /\ child' = [child EXCEPT !.genes = @ \cup {NewGene(into, out, innovation + 1)}]
    BY <2>2
  <2> HIDE DEF into
  <2>5. Pedigree(Genomes \cup {child'}, innovation + 1)
    BY <2>1, <2>3, <2>4, LinkedFits
  <2> QED
    BY <2>1, <2>4, <2>5, MutationKeeps
<1>2. ASSUME NodeMutate
      PROVE  GInv'
  <2>1. child \in Genomes /\ child.maxneuron < MaxNodes /\ \E kind \in Link..Disable : Mutates(kind)
    BY <1>0, <1>2 DEF NodeMutate, Mutates, Link, Node, Disable
  <2>2. PICK gene \in child.genes :
          IF gene.enabled
          THEN child' = Split(child, gene) /\ innovation' = innovation + 2
          ELSE child' = [child EXCEPT !.maxneuron = @ + 1] /\ innovation' = innovation
    BY <1>2 DEF NodeMutate
  <2>3. CASE gene.enabled
    <3>1. Pedigree(Genomes \cup {child'}, innovation')
      BY <2>1, <2>2, <2>3, SplitFits
    <3> QED
      BY <2>1, <2>2, <2>3, <3>1, MutationKeeps
  <2>4. CASE ~gene.enabled
    <3>1. child' = [child EXCEPT !.maxneuron = @ + 1] /\ innovation' = innovation
      BY <2>2, <2>4
    <3>2. Pedigree(Genomes \cup {child'}, innovation)
      BY <2>1, <3>1, CountedFits
    <3> QED
      BY <2>1, <3>1, <3>2, MutationKeeps
  <2> QED
    BY <2>3, <2>4
<1>3. ASSUME NEW enable \in BOOLEAN, EnableDisableMutate(enable)
      PROVE  GInv'
  <2>1. child \in Genomes /\ \E kind \in Link..Disable : Mutates(kind)
    BY <1>0, <1>3 DEF EnableDisableMutate, Mutates, Link, Enable, Disable
  <2>2. PICK gene \in child.genes : child' = Toggled(child, gene)
    BY <1>3 DEF EnableDisableMutate
  <2>3. innovation' = innovation
    BY <1>3 DEF EnableDisableMutate
  <2>4. Pedigree(Genomes \cup {child'}, innovation)
    BY <2>1, <2>2, ToggledFits
  <2> QED
    BY <2>1, <2>3, <2>4, MutationKeeps
<1> QED
  BY <1>1, <1>2, <1>3 DEF Mutate

\* Steps that take no genome in and change none but in its fitness.
LEMMA SamePedigree ==
  ASSUME GInv, innovation' = innovation,
         \A g \in Genomes' : g \in Genome /\ \E h \in Genomes :
           g.genes = h.genes /\ g.maxneuron = h.maxneuron
  PROVE  Pedigree(Genomes', innovation')
<1>1. \A g \in Genomes' : Sound(g, innovation) /\ \A a \in g.genes : Inherits(a, Genomes)
  <2> TAKE g \in Genomes'
  <2>1. PICK h \in Genomes : g.genes = h.genes /\ g.maxneuron = h.maxneuron
    OBVIOUS
  <2>2. Sound(h, innovation)
    BY DEF GInv, Pedigree
  <2>3. Sound(g, innovation)
    BY <2>1, <2>2, RescoredIsSound
  <2> QED
    BY <2>1, <2>3 DEF Inherits, SameLink
<1>2. Pedigree(Genomes \cup Genomes', innovation)
  BY <1>1, HeirsFit, TypeOKMeans DEF GInv
<1> QED
  BY <1>2 DEF Pedigree

\* Every genome there is has its type.
LEMMA GenomesTyped ==
  ASSUME GInv
  PROVE  \A g \in Genomes : g \in Genome
BY DEF GInv, Pedigree, Sound

\* A step that changes nothing.
LEMMA StutterKeeps ==
  ASSUME GInv, UNCHANGED vars
  PROVE  GInv'
<1> USE TypeOKMeans DEF GInv
<1>1. UNCHANGED <<species, innovation, maxFitness, generation, stage, owed, children, child, turn>>
  BY DEF vars, pool
<1>2. Pedigree(Genomes', innovation')
  BY <1>1, SamePedigree, GenomesTyped DEF Genomes
<1>3. SpeciesInStage' /\ SpeciesOK(species')
  BY <1>1 DEF SpeciesInStage, Sharing, Innovations, SpeciesOK
<1> QED
  BY <1>1, <1>2, <1>3, GInvNext

\* The child joins the pool or the brood.
LEMMA ReadyKeeps ==
  ASSUME GInv, Ready
  PROVE  GInv'
<1> USE TypeOKMeans DEF GInv
<1>1. child # NoGenome /\ child \in Genome /\ child' = NoGenome /\ child \in Genomes
  BY DEF Ready, Genomes
<1>2. UNCHANGED <<innovation, maxFitness, generation, stage, owed, turn>>
  BY DEF Ready
<1>3. CASE stage = "found"
  <2>1. species' \in Placements(species, child) /\ children' = children
    BY <1>3 DEF Ready
  <2>2. /\ SpeciesOK(species') /\ GenomesIn(species') \subseteq GenomesIn(species) \cup {child}
        /\ Sharing(species) => Sharing(species')
    BY <1>1, <2>1, PlacementsAre
  <2>3. Genomes' \subseteq Genomes
    BY <1>1, <2>1, <2>2, GenomesAre DEF Genomes, GenomesIn
  <2>4. Pedigree(Genomes', innovation')
    BY <1>2, <2>3, SamePedigree, GenomesTyped
  <2>5. SpeciesInStage'
    BY <1>2, <1>3, <2>2 DEF SpeciesInStage, Sharing, Innovations
  <2> QED
    BY <1>1, <1>2, <2>1, <2>2, <2>4, <2>5, GInvNext
<1>4. CASE stage # "found"
  <2>1. species' = species /\ children' = Append(children, child)
    BY <1>4 DEF Ready
  <2>2. /\ children' \in Seq(Genome) /\ Len(children') = Len(children) + 1
        /\ \A c \in 1..Len(children) : children'[c] = children[c]
        /\ children'[Len(children) + 1] = child
    BY <1>1, <2>1, AppendProperties
  <2>3. DOMAIN children' = 1..Len(children) + 1 /\ DOMAIN children = 1..Len(children)
        /\ Len(children) \in Nat
    BY <2>2, LenProperties
  <2>4. \A c \in DOMAIN children' : 
          children'[c] = child \/ (c \in DOMAIN children /\ children'[c] = children[c])
    BY <2>2, <2>3
  <2>5. Genomes' \subseteq Genomes
    BY <1>1, <2>1, <2>4 DEF Genomes
  <2>6. Pedigree(Genomes', innovation')
    BY <1>2, <2>5, SamePedigree, GenomesTyped
  <2>7. SpeciesInStage'
    BY <1>2, <2>1 DEF SpeciesInStage, Sharing, Innovations
  <2>8. SpeciesOK(species')
    BY <2>1 DEF SpeciesOK
  <2> QED
    BY <1>1, <1>2, <2>2, <2>6, <2>7, <2>8, GInvNext
<1> QED
  BY <1>3, <1>4

\* Selection and culling only take genomes out.
LEMMA SelectionKeeps ==
  ASSUME GInv, Select \/ CullToOne
  PROVE  GInv'
<1> USE TypeOKMeans DEF GInv
<1>1. UNCHANGED <<innovation, maxFitness, generation, children, child, turn>>
      /\ stage' \in Stages
  BY DEF Select, CullToOne, Stages
<1>2. SpeciesOK(species') /\ owed' \in Seq(Int) /\ GenomesIn(species') \subseteq GenomesIn(species)
  BY SelectLeaves, CullToOneLeaves DEF CullToOne
<1>3. Genomes' \subseteq Genomes
  BY <1>1, <1>2, GenomesAre DEF Genomes, GenomesIn
<1>4. Pedigree(Genomes', innovation')
  BY <1>1, <1>3, SamePedigree, GenomesTyped
<1>5. CASE Select
  <2>1. stage' = "breed" /\ DOMAIN owed' = DOMAIN species'
    BY <1>5, SelectLeaves DEF Select
  <2> QED
    BY <1>1, <1>2, <1>4, <2>1, GInvNext DEF SpeciesInStage
<1>6. CASE CullToOne
  <2>1. stage' = "fill" /\ \A s \in DOMAIN species' : Len(species'[s].genomes) = 1
    BY <1>6, CullToOneLeaves DEF CullToOne
  <2> QED
    BY <1>1, <1>2, <1>4, <2>1, GInvNext DEF SpeciesInStage
<1> QED
  BY <1>5, <1>6

\* The brood is placed, one child after the other.
LEMMA PlaceKeeps ==
  ASSUME GInv, Place \/ PlaceChild
  PROVE  GInv'
<1> USE TypeOKMeans DEF GInv
<1>1. CASE Place
  <2>1. UNCHANGED <<pool, owed, children, child, turn>> /\ stage = "fill" /\ stage' = "place"
    BY <1>1 DEF Place
  <2>2. Genomes' = Genomes
    BY <2>1 DEF Genomes, GenomesOf, pool
  <2>3. Pedigree(Genomes', innovation')
    BY <2>1, <2>2 DEF pool
  <2>4. Sharing(species)
    <3>1. \A s \in DOMAIN species : Len(species[s].genomes) = 1
      BY <2>1 DEF SpeciesInStage
    <3>2. ASSUME NEW s \in DOMAIN species, NEW g \in 2..Len(species[s].genomes)
          PROVE  FALSE
      <4>1. g \in 2..1
        BY <3>1, <3>2, Zenon
      <4> QED
        BY <4>1
    <3> QED
      BY <3>2 DEF Sharing
  <2>5. SpeciesInStage'
    BY <2>1, <2>4 DEF SpeciesInStage, Sharing, Innovations, pool
  <2>6. SpeciesOK(species') /\ stage' \in Stages
    BY <2>1 DEF SpeciesOK, pool, Stages
  <2> QED
    BY <2>1, <2>3, <2>5, <2>6, GInvNext DEF pool
<1>2. CASE PlaceChild
  <2>1. /\ stage = "place" /\ children # <<>> /\ children' = Tail(children)
        /\ species' \in Placements(species, Head(children))
        /\ UNCHANGED <<innovation, maxFitness, generation, stage, owed, child, turn>>
    BY <1>2 DEF PlaceChild
  <2> DEFINE next == Head(children)
  <2>2. /\ next \in Genome /\ children' \in Seq(Genome) /\ Len(children') = Len(children) - 1
        /\ \A c \in 1..Len(children') : children'[c] = children[c + 1]
    BY <2>1, HeadTailProperties
  <2>3. DOMAIN children' = 1..Len(children') /\ DOMAIN children = 1..Len(children)
        /\ Len(children) \in Nat \ {0} /\ next = children[1]
    BY <2>1, <2>2, LenProperties, EmptySeq
  <2>4. \A c \in DOMAIN children' : c + 1 \in DOMAIN children /\ children'[c] = children[c + 1]
    BY <2>2, <2>3
  <2>5. next \in {children[c] : c \in DOMAIN children}
    BY <2>3
  <2> HIDE DEF next
  <2>6. /\ SpeciesOK(species') /\ GenomesIn(species') \subseteq GenomesIn(species) \cup {next}
        /\ Sharing(species) => Sharing(species')
    BY <2>1, <2>2, PlacementsAre DEF next
  <2>7. Genomes' \subseteq Genomes
    BY <2>1, <2>4, <2>5, <2>6, GenomesAre DEF Genomes, GenomesIn
  <2>8. Pedigree(Genomes', innovation')
    BY <2>1, <2>7, SamePedigree, GenomesTyped
  <2>9. SpeciesInStage'
    BY <2>1, <2>6 DEF SpeciesInStage, Sharing, Innovations
  <2> QED
    BY <2>1, <2>2, <2>6, <2>8, <2>9, GInvNext
<1> QED
  BY <1>1, <1>2

\* What giving or taking fitnesses leaves of the pool.
LEMMA ScoringLeaves ==
  ASSUME TypeOK, Play \/ NextGeneration
  PROVE  /\ SpeciesOK(species')
         /\ \A g \in GenomesIn(species') : g \in Genome /\ \E h \in GenomesIn(species) :
              g.genes = h.genes /\ g.maxneuron = h.maxneuron
         /\ Sharing(species) => Sharing(species')
<1>0. SpeciesOK(species)
  BY TypeOKMeans
<1>1. CASE NextGeneration
  <2> DEFINE scored == [s \in DOMAIN species |->
                          [g \in DOMAIN species[s].genomes |->
                             [species[s].genomes[g] EXCEPT !.fitness = 0]]]
  <2>1. species' = Rescored(species, scored)
    BY <1>1 DEF NextGeneration, Unscored, Rescored
  <2>2. ASSUME NEW s \in DOMAIN species
        PROVE  \E fit \in [DOMAIN species[s].genomes -> Nat] :
                 scored[s] = [g \in DOMAIN species[s].genomes |->
                                [species[s].genomes[g] EXCEPT !.fitness = fit[g]]]
    <3> DEFINE fit == [g \in DOMAIN species[s].genomes |-> 0]
    <3>1. fit \in [DOMAIN species[s].genomes -> Nat]
      OBVIOUS
    <3>2. scored[s] = [g \in DOMAIN species[s].genomes |->
                         [species[s].genomes[g] EXCEPT !.fitness = fit[g]]]
      OBVIOUS
    <3> HIDE DEF fit, scored
    <3> QED
      BY <3>1, <3>2
  <2> HIDE DEF scored
  <2>3. Scores(scored, species)
    BY <2>2 DEF Scores
  <2> QED
    BY <1>0, <2>1, <2>3, RescoredAre
<1>2. CASE Play
  <2>1. PICK fitness \in [Positions(species) -> Fitnesses] :
          species' = [s \in DOMAIN species |->
            [species[s] EXCEPT !.genomes =
               [g \in DOMAIN @ |-> [@[g] EXCEPT !.fitness = fitness[<<s, g>>]]]]]
    BY <1>2 DEF Play
  <2> DEFINE scored == [s \in DOMAIN species |->
                          [g \in DOMAIN species[s].genomes |->
                             [species[s].genomes[g] EXCEPT !.fitness = fitness[<<s, g>>]]]]
  <2>2. species' = Rescored(species, scored)
    BY <2>1 DEF Rescored
  <2>3. ASSUME NEW s \in DOMAIN species
        PROVE  \E fit \in [DOMAIN species[s].genomes -> Nat] :
                 scored[s] = [g \in DOMAIN species[s].genomes |->
                                [species[s].genomes[g] EXCEPT !.fitness = fit[g]]]
    <3> DEFINE fit == [g \in DOMAIN species[s].genomes |-> fitness[<<s, g>>]]
    <3>1. ASSUME NEW g \in DOMAIN species[s].genomes PROVE fitness[<<s, g>>] \in Nat
      <4>1. <<s, g>> \in {s} \X DOMAIN species[s].genomes
        OBVIOUS
      <4>2. <<s, g>> \in Positions(species)
        BY <4>1, Zenon DEF Positions
      <4> QED
        BY <4>2, EvolutionAssumption
    <3>2. fit \in [DOMAIN species[s].genomes -> Nat]
      BY <3>1
    <3>3. scored[s] = [g \in DOMAIN species[s].genomes |->
                         [species[s].genomes[g] EXCEPT !.fitness = fit[g]]]
      OBVIOUS
    <3> HIDE DEF fit, scored
    <3> QED
      BY <3>2, <3>3
  <2> HIDE DEF scored
  <2>4. Scores(scored, species)
    BY <2>3 DEF Scores
  <2> QED
    BY <1>0, <2>2, <2>4, RescoredAre
<1> QED
  BY <1>1, <1>2

\* The positions of a pool are finitely many.
LEMMA PositionsFinite ==
  ASSUME NEW sp, SpeciesOK(sp)
  PROVE  IsFiniteSet(Positions(sp))
<1> DEFINE row == [s \in DOMAIN sp |-> {s} \X DOMAIN sp[s].genomes]
           rows == {row[s] : s \in DOMAIN sp}
<1>1. IsFiniteSet(DOMAIN sp)
  BY PoolShape, FS_Interval
<1>2. row \in Surjection(DOMAIN sp, rows)
  BY DEF Surjection
<1>3. IsFiniteSet(rows)
  <2> HIDE DEF row, rows
  <2> QED
    BY <1>1, <1>2, FS_Surjection
<1>4. ASSUME NEW s \in DOMAIN sp PROVE IsFiniteSet(row[s])
  <2>1. DOMAIN sp[s].genomes = 1..Len(sp[s].genomes) /\ Len(sp[s].genomes) \in Nat
    BY PoolShape, SpeciesShape
  <2>2. IsFiniteSet(DOMAIN sp[s].genomes)
    BY <2>1, FS_Interval
  <2>3. IsFiniteSet({s})
    BY FS_Singleton
  <2> QED
    BY <2>2, <2>3, FS_Product
<1>5. IsFiniteSet(UNION rows)
  <2>1. \A r \in rows : IsFiniteSet(r)
    BY <1>4
  <2> HIDE DEF rows
  <2> QED
    BY <1>3, <2>1, FS_UNION
<1>6. Positions(sp) = UNION rows
  BY DEF Positions
<1> QED
  BY <1>5, <1>6

\* The maximum fitness of a pool is the fitness of a genome, or what it was.
LEMMA MaximumTyped ==
  ASSUME TypeOK, Play
  PROVE  maxFitness' \in Nat
<1>1. PICK fitness \in [Positions(species) -> Fitnesses] :
        maxFitness' = Max({maxFitness} \cup {fitness[p] : p \in Positions(species)})
  BY DEF Play
<1> DEFINE P == Positions(species)
           scores == {fitness[p] : p \in P}
           S == {maxFitness} \cup scores
<1>2. fitness \in Surjection(P, scores)
  BY DEF Surjection
<1>3. IsFiniteSet(P)
  BY PositionsFinite, TypeOKMeans
<1>4. IsFiniteSet(scores)
  <2> HIDE DEF P, scores
  <2> QED
    BY <1>2, <1>3, FS_Surjection
<1>5. IsFiniteSet(S)
  <2> HIDE DEF scores
  <2>1. IsFiniteSet(scores \cup {maxFitness})
    BY <1>4, FS_AddElement
  <2>2. S = scores \cup {maxFitness}
    OBVIOUS
  <2> QED
    BY <2>1, <2>2
<1>6. S \in SUBSET Nat /\ S # {}
  BY TypeOKMeans, EvolutionAssumption
<1>7. maxFitness' = Max(S)
  BY <1>1
<1> HIDE DEF S
<1>8. \E n \in S : \A m \in S : n >= m
  BY <1>5, <1>6, GreatestExists
<1>9. Max(S) \in S
  BY <1>8 DEF Max
<1> QED
  BY <1>6, <1>7, <1>9

\* A generation is played, or the next begins.
LEMMA ScoringKeeps ==
  ASSUME GInv, Play \/ NextGeneration
  PROVE  GInv'
<1> USE TypeOKMeans DEF GInv
<1>1. /\ innovation' = innovation /\ children' = children /\ child' = child /\ turn' = turn
      /\ stage' \in {"play", "played"} /\ stage' \in Stages
      /\ stage \in {"found", "place", "play"}
  BY DEF Play, NextGeneration, Stages
<1>2. generation' \in Nat
  BY DEF Play, NextGeneration
<1>3. maxFitness' \in Nat
  BY MaximumTyped DEF NextGeneration
<1>4. owed' \in Seq(Int)
  <2>1. <<>> \in Seq(Int)
    OBVIOUS
  <2> QED
    BY <2>1 DEF Play, NextGeneration
<1>5. /\ SpeciesOK(species')
      /\ \A g \in GenomesIn(species') : g \in Genome /\ \E h \in GenomesIn(species) :
           g.genes = h.genes /\ g.maxneuron = h.maxneuron
      /\ Sharing(species) => Sharing(species')
  BY ScoringLeaves
<1>6. Genomes' = GenomesIn(species') \cup {children[c] : c \in DOMAIN children}
                   \cup ({child} \ {NoGenome})
  BY <1>1 DEF Genomes, GenomesIn
<1>7. ASSUME NEW g \in Genomes'
      PROVE  g \in Genome /\ \E h \in Genomes : g.genes = h.genes /\ g.maxneuron = h.maxneuron
  <2>1. CASE g \in GenomesIn(species')
    BY <1>5, <2>1, GenomesAre
  <2>2. CASE g \notin GenomesIn(species')
    <3>1. g \in Genomes
      BY <1>6, <2>2, GenomesAre
    <3> QED
      BY <3>1, GenomesTyped
  <2> QED
    BY <2>1, <2>2
<1>8. Pedigree(Genomes', innovation')
  BY <1>1, <1>7, SamePedigree
<1>9. SpeciesInStage'
  BY <1>1, <1>5 DEF SpeciesInStage, Sharing, Innovations
<1> QED
  BY <1>1, <1>2, <1>3, <1>4, <1>5, <1>8, <1>9, GInvNext

-----------------------------------------------------------------------------
(* How many genomes there are *)
\* Packing numbers the positions it keeps.
LEMMA PackingsNumber ==
  ASSUME NEW n \in Nat, NEW kept \in SUBSET (1..n), NEW at \in Packings(kept)
  PROVE  /\ IsFiniteSet(kept) /\ Cardinality(kept) \in Nat
         /\ at \in Bijection(1..Cardinality(kept), kept)
<1> DEFINE m == Cardinality(kept)
<1>1. IsFiniteSet(kept)
  <2>1. IsFiniteSet(1..n)
    BY FS_Interval
  <2> QED
    BY <2>1, FS_Subset
<1>2. m \in Nat
  BY <1>1, FS_CardinalityType
<1>3. at \in [1..m -> kept] /\ \A i, j \in 1..m : i < j => at[i] < at[j]
  BY DEF Packings
<1> HIDE DEF m
<1>4. ASSUME NEW i \in 1..m, NEW j \in 1..m, at[i] = at[j]
      PROVE  i = j
  <2>1. at[i] \in 1..n /\ at[j] \in 1..n
    BY <1>3
  <2>2. ~(i < j) /\ ~(j < i)
    BY <1>3, <1>4, <2>1
  <2> QED
    BY <1>2, <2>2
<1>5. at \in Injection(1..m, kept)
  BY <1>3, <1>4 DEF Injection, IsInjective
<1>6. Cardinality(1..m) = Cardinality(kept)
  <2>1. Cardinality(1..m) = m
    BY <1>2, FS_Interval
  <2> QED
    BY <2>1 DEF m
<1>7. at \in Surjection(1..m, kept)
  BY <1>1, <1>5, <1>6, FS_Injection
<1> QED
  BY <1>1, <1>2, <1>5, <1>7 DEF Bijection, m

\* The product of the sizes of all species is at least the size of each.
Sizes(sp) == MapThenFoldSet(LAMBDA m, n : m * n, 1,
                            LAMBDA s : Len(sp[s].genomes),
                            LAMBDA S : CHOOSE s \in S : TRUE,
                            DOMAIN sp)

LEMMA SizesCover ==
  ASSUME NEW sp, SpeciesOK(sp)
  PROVE  Sizes(sp) \in Nat \ {0} /\ \A s \in DOMAIN sp : Len(sp[s].genomes) <= Sizes(sp)
<1> DEFINE S == DOMAIN sp
           w == [s \in S |-> Len(sp[s].genomes)]
           Running(f) == f = [s \in SUBSET S |->
                                IF s = {} THEN 1
                                ELSE Len(sp[Pick(s)].genomes) * f[Rest(s)]]
           product == CHOOSE f : Running(f)
<1>1. IsFiniteSet(S)
  BY PoolShape, FS_Interval
<1>2. \A s \in S : w[s] \in Nat \ {0} /\ w[s] = Len(sp[s].genomes)
  <2> TAKE s \in S
  <2>1. sp[s] \in Species /\ sp[s].genomes # <<>>
    BY PoolShape
  <2> QED
    BY <2>1, SpeciesShape
<1>3. \A s \in SUBSET S : s # {} => w[Pick(s)] = Len(sp[Pick(s)].genomes)
  BY PickIs
<1> HIDE DEF w, S
<1>4. \A f : Products(f, w, S) <=> Running(f)
  <2> TAKE f
  <2>1. [s \in SUBSET S |-> IF s = {} THEN 1 ELSE w[Pick(s)] * f[Rest(s)]]
          = [s \in SUBSET S |-> IF s = {} THEN 1
                                ELSE Len(sp[Pick(s)].genomes) * f[Rest(s)]]
    BY <1>3
  <2> QED
    BY <2>1 DEF Products
<1>5. PICK f : Running(f)
  BY <1>1, <1>2, <1>4, ProductsExist
<1>6. Running(product)
  <2> HIDE DEF Running
  <2> QED
    BY <1>5
<1>7. Sizes(sp) = product[S]
  BY DEF Sizes, MapThenFoldSet, Pick, Rest, S
<1> HIDE DEF product
<1>8. Products(product, w, S)
  BY <1>4, <1>6
<1>9. product[S] \in Nat \ {0} /\ \A s \in S : w[s] <= product[S]
  BY <1>1, <1>2, <1>8, ProductAtLeast
<1> QED
  BY <1>2, <1>7, <1>9 DEF S

\* The ranks of the genomes of a species, added up.
RankSum(sp, rank, s) == MapThenSumSet(LAMBDA g : rank[<<s, g>>], DOMAIN sp[s].genomes)

LEMMA RankSumIs ==
  ASSUME NEW sp, SpeciesOK(sp), NEW rank \in Rankings(sp), NEW s \in DOMAIN sp,
         NEW D, D = DOMAIN sp[s].genomes, NEW w, w = [g \in D |-> rank[<<s, g>>]]
  PROVE  /\ IsFiniteSet(D) /\ 1 \in D
         /\ \A g \in D : w[g] \in Nat \ {0}
         /\ RankSum(sp, rank, s) = SumOver(w, D)
<1> DEFINE Running(f) == f = [r \in SUBSET D |->
                                IF r = {} THEN 0 ELSE rank[<<s, Pick(r)>>] + f[Rest(r)]]
           sum == CHOOSE f : Running(f)
<1>1. IsFiniteSet(D) /\ 1 \in D
  <2>1. sp[s] \in Species /\ sp[s].genomes # <<>>
    BY PoolShape
  <2>2. D = 1..Len(sp[s].genomes) /\ Len(sp[s].genomes) \in Nat \ {0}
    BY <2>1, SpeciesShape
  <2> QED
    BY <2>2, FS_Interval
<1>2. \A g \in D : w[g] \in Nat \ {0} /\ w[g] \in Int /\ w[g] = rank[<<s, g>>]
  <2> TAKE g \in D
  <2>1. <<s, g>> \in {s} \X DOMAIN sp[s].genomes
    OBVIOUS
  <2>2. <<s, g>> \in Positions(sp)
    BY <2>1, Zenon DEF Positions
  <2>3. rank[<<s, g>>] \in 1..Cardinality(Positions(sp))
    BY <2>2 DEF Rankings
  <2> QED
    BY <2>3
<1>3. \A r \in SUBSET D : r # {} => w[Pick(r)] = rank[<<s, Pick(r)>>]
  BY PickIs
<1>4. \A f : Sums(f, w, D) <=> Running(f)
  <2> TAKE f
  <2>1. [r \in SUBSET D |-> IF r = {} THEN 0 ELSE w[Pick(r)] + f[Rest(r)]]
          = [r \in SUBSET D |-> IF r = {} THEN 0 ELSE rank[<<s, Pick(r)>>] + f[Rest(r)]]
    BY <1>3
  <2> QED
    BY <2>1 DEF Sums
<1>5. PICK f : Running(f)
  <2> HIDE DEF Running
  <2>1. \A g \in D : w[g] \in Int
    BY <1>2
  <2>2. \E f : Sums(f, w, D)
    BY <1>1, <2>1, SumsExist
  <2> QED
    BY <1>4, <2>2
<1>6. Running(sum)
  <2> HIDE DEF Running
  <2> QED
    BY <1>5
<1>7. RankSum(sp, rank, s) = sum[D]
  BY DEF RankSum, MapThenSumSet, MapThenFoldSet, Pick, Rest
<1> HIDE DEF sum
<1>8. SumOver(w, D) = sum[D]
  <2>1. Sums(sum, w, D) /\ D \in SUBSET D /\ \A g \in D : w[g] \in Int
    BY <1>2, <1>4, <1>6
  <2> QED
    BY <1>1, <2>1, SumOverIs
<1> QED
  BY <1>1, <1>2, <1>7, <1>8

LEMMA RankSumPositive ==
  ASSUME NEW sp, SpeciesOK(sp), NEW rank \in Rankings(sp), NEW s \in DOMAIN sp
  PROVE  /\ RankSum(sp, rank, s) \in Nat \ {0}
         /\ DOMAIN sp[s].genomes = {1} => RankSum(sp, rank, s) = rank[<<s, 1>>]
<1> DEFINE D == DOMAIN sp[s].genomes
           w == [g \in D |-> rank[<<s, g>>]]
<1>1. /\ IsFiniteSet(D) /\ 1 \in D /\ w[1] = rank[<<s, 1>>]
      /\ \A g \in D : w[g] \in Nat \ {0}
      /\ RankSum(sp, rank, s) = SumOver(w, D)
  BY RankSumIs
<1> HIDE DEF w, D
<1>2. RankSum(sp, rank, s) \in Nat \ {0}
  <2>1. SumOver(w, D) \in Nat /\ w[1] <= SumOver(w, D)
    BY <1>1, SumAtLeast
  <2>2. w[1] \in Nat \ {0}
    BY <1>1
  <2>3. SumOver(w, D) \in Nat \ {0}
    BY <2>1, <2>2
  <2> QED
    BY <1>1, <2>3
<1>3. ASSUME D = {1}
      PROVE  RankSum(sp, rank, s) = rank[<<s, 1>>]
  <2>1. w[1] \in Int /\ Cardinality({1}) = 1 /\ \A g \in D : w[g] = w[1]
    BY <1>1, <1>3, FS_Singleton
  <2>2. SumOver(w, D) = w[1] * Cardinality(D)
    BY <1>1, <2>1, SumConstant
  <2> QED
    BY <1>1, <1>3, <2>1, <2>2
<1> QED
  BY <1>2, <1>3 DEF D

\* Every species has an average to take part with.
LEMMA AveragesPositive ==
  ASSUME NEW sp, SpeciesOK(sp), NEW rank \in Rankings(sp)
  PROVE  \A s \in DOMAIN sp : Averages(sp, rank)[s] \in Nat \ {0}
<1> TAKE s \in DOMAIN sp
<1>1. Averages(sp, rank)[s] = RankSum(sp, rank, s) * (Sizes(sp) \div Len(sp[s].genomes))
  BY DEF Averages, RankSum, Sizes
<1>2. Len(sp[s].genomes) \in Nat \ {0}
  <2>1. sp[s] \in Species /\ sp[s].genomes # <<>>
    BY PoolShape
  <2> QED
    BY <2>1, SpeciesShape
<1>3. Sizes(sp) \in Nat \ {0} /\ Len(sp[s].genomes) <= Sizes(sp)
  BY SizesCover
<1>4. \A m, n \in Nat \ {0} : n <= m => m \div n \in Nat \ {0}
  OBVIOUS
<1>5. Sizes(sp) \div Len(sp[s].genomes) \in Nat \ {0}
  BY <1>2, <1>3, <1>4
<1>6. RankSum(sp, rank, s) \in Nat \ {0}
  BY RankSumPositive
<1>7. \A m, n \in Nat \ {0} : m * n \in Nat \ {0}
  OBVIOUS
<1> QED
  BY <1>1, <1>5, <1>6, <1>7

\* A share is no more than what the average of its species is worth.
LEMMA ShareIsFair ==
  ASSUME NEW kept, IsFiniteSet(kept), NEW average, \A s \in kept : average[s] \in Nat \ {0},
         NEW share \in Shares(average, kept), NEW s \in kept
  PROVE  /\ share[s] \in 0..Population /\ SumOver(average, kept) \in Nat \ {0}
         /\ share[s] * SumOver(average, kept) <= average[s] * Population
<1> DEFINE sum == SumOver(average, kept)
           exact == average[s] * Population
<1>1. sum = MapThenSumSet(LAMBDA x : average[x], kept)
  BY DEF SumOver
<1>2. /\ share[s] \in 0..Population
      /\ share[s] = exact \div sum \/ share[s] = exact \div sum - 1
  BY <1>1 DEF Shares
<1>3. sum \in Nat /\ average[s] <= sum
  BY SumAtLeast
<1>4. sum \in Nat \ {0} /\ exact \in Nat
  <2>1. average[s] \in Nat \ {0} /\ Population \in Nat
    BY EvolutionAssumption
  <2>2. \A m, n \in Nat : m * n \in Nat
    OBVIOUS
  <2>3. exact \in Nat
    BY <2>1, <2>2
  <2> HIDE DEF sum, exact
  <2> QED
    BY <1>3, <2>1, <2>3
<1> HIDE DEF sum, exact
<1>5. \A m \in Nat, n \in Nat \ {0} : (m \div n) * n <= m /\ (m \div n - 1) * n <= m
  OBVIOUS
<1>6. share[s] * sum <= exact
  BY <1>2, <1>4, <1>5
<1> QED
  BY <1>2, <1>4, <1>6 DEF sum, exact

\* What the children of a species and its best genome come to.
Places(breed, kept) == [s \in kept |-> IF breed[s] > 1 THEN breed[s] ELSE 1]

\* Once the weak species are out, the others have places enough, at least one
\* each: a species that is not weak is worth a place of the larger sum.
LEMMA StrongFit ==
  ASSUME NEW S, IsFiniteSet(S), NEW average, \A s \in S : average[s] \in Nat \ {0},
         NEW share \in Shares(average, S),
         NEW strong, strong = {s \in S : share[s] >= 1},
         NEW breed \in Shares(average, strong)
  PROVE  SumOver(Places(breed, strong), strong) <= Population
<1> DEFINE q == Places(breed, strong)
           sum == SumOver(average, strong)
           all == SumOver(average, S)
<1>1. strong \in SUBSET S /\ IsFiniteSet(strong) /\ \A s \in strong : average[s] \in Nat \ {0}
  BY FS_Subset
<1>2. Population \in Nat \ {0}
  BY EvolutionAssumption
<1>3. CASE strong = {}
  <2>1. SumOver(q, {}) = 0
    BY FS_EmptySet, SumEquation
  <2> QED
    BY <1>2, <1>3, <2>1
<1>4. CASE strong # {}
  <2>1. PICK x \in strong : TRUE
    BY <1>4
  <2>2. sum <= all
    BY <1>1, SumOfPart
  <2>3. sum \in Nat \ {0}
    BY <1>1, <2>1, ShareIsFair
  <2>4. ASSUME NEW s \in strong
        PROVE  /\ q[s] \in Int /\ average[s] \in Int
               /\ q[s] * sum <= average[s] * Population
    <3>1. /\ share[s] \in Nat /\ share[s] >= 1 /\ all \in Nat
          /\ share[s] * all <= average[s] * Population
      BY <1>1, ShareIsFair
    <3>2. breed[s] \in Nat /\ breed[s] * sum <= average[s] * Population
      BY <1>1, ShareIsFair
    <3>3. average[s] \in Nat
      BY <1>1
    <3>4. q[s] = IF breed[s] > 1 THEN breed[s] ELSE 1
      BY DEF Places
    <3> DEFINE worth == average[s] * Population
    <3>5. worth \in Nat
      BY <1>2, <3>3
    <3> HIDE DEF q, sum, all, worth
    <3>6. \A m \in Nat \ {0}, n \in Nat : n <= m * n
      OBVIOUS
    <3>7. all <= share[s] * all /\ share[s] * all \in Int
      BY <3>1, <3>6
    <3>8. 1 * sum <= worth
      BY <2>2, <2>3, <3>1, <3>5, <3>7 DEF worth
    <3>9. q[s] * sum <= worth
      BY <3>2, <3>4, <3>8 DEF worth
    <3> QED
      BY <3>2, <3>3, <3>4, <3>9 DEF worth
  <2>5. SumOver(q, strong) \in Int /\ SumOver(q, strong) * sum <= sum * Population
    <3> HIDE DEF q
    <3>1. sum \in Int /\ Population \in Int
      BY <1>2, <2>3
    <3> HIDE DEF sum
    <3>2. SumOver(q, strong) \in Int /\ SumOver(q, strong) * sum <= SumOver(average, strong) * Population
      BY <1>1, <2>4, <3>1, SumScaled
    <3> QED
      BY <3>2 DEF sum
  <2>6. \A m \in Int, n \in Nat \ {0}, p \in Nat : m * n <= n * p => m <= p
    OBVIOUS
  <2> HIDE DEF q, sum
  <2>7. SumOver(q, strong) <= Population
    BY <1>2, <2>3, <2>5, <2>6
  <2> QED
    BY <2>7 DEF q
<1> QED
  BY <1>3, <1>4

\* The children being made, and those owed where any are.
Pending == IF child = NoGenome THEN 0 ELSE 1

Due == [s \in DOMAIN owed |-> IF owed[s] > 0 THEN owed[s] ELSE 0]

\* The children owed after selection fit in beside the species that are left.
LEMMA SelectOwes ==
  ASSUME TypeOK, Select
  PROVE  SumOver(Due', DOMAIN owed') + Len(species') <= Population
<1>1. PICK halves, at, rank, share, by, breed : Selects(halves, at, rank, share, by, breed)
  BY SelectPicks
<1> DEFINE lasting == Outlasting(halves, at)
           average == Averages(lasting, rank)
           strong == {s \in DOMAIN lasting : share[s] >= 1}
           n == Cardinality(strong)
           q == Places(breed, strong)
           due == Due'
           one == [i \in 1..n |-> 1]
           both == [i \in 1..n |-> due[i] + 1]
<1>2. /\ by \in Packings(strong) /\ breed \in Shares(average, strong)
      /\ share \in Shares(average, DOMAIN lasting) /\ rank \in Rankings(lasting)
      /\ species' = [i \in DOMAIN by |-> lasting[by[i]]]
      /\ owed' = [i \in DOMAIN by |-> ChildrenOwed(breed[by[i]])]
  BY <1>1 DEF Selects
<1>3. SpeciesOK(lasting) /\ DOMAIN lasting = 1..Len(lasting) /\ Len(lasting) \in Nat
  BY <1>1, LastingAre, PoolShape
<1>4. \A s \in DOMAIN lasting : average[s] \in Nat \ {0}
  BY <1>2, <1>3, AveragesPositive
<1>5. strong \in SUBSET DOMAIN lasting /\ IsFiniteSet(DOMAIN lasting)
  BY <1>3, FS_Interval
<1>6. SumOver(q, strong) <= Population
  <2>1. strong = {s \in DOMAIN lasting : share[s] >= 1}
    OBVIOUS
  <2> HIDE DEF lasting, average, strong, q
  <2> QED
    BY <1>2, <1>4, <1>5, <2>1, StrongFit DEF q
<1>7. n \in Nat /\ by \in Bijection(1..n, strong) /\ DOMAIN by = 1..n
  <2> HIDE DEF lasting, strong
  <2>1. n \in Nat /\ by \in Bijection(1..n, strong)
    BY <1>2, <1>3, <1>5, PackingsNumber
  <2> QED
    BY <2>1 DEF Bijection, Injection
<1>8. breed \in [strong -> 0..Population] /\ Population \in Nat
  BY <1>2, EvolutionAssumption DEF Shares
<1> HIDE DEF lasting, average, strong, n
<1>9. ASSUME NEW i \in 1..n
      PROVE  /\ by[i] \in strong /\ due[i] \in Nat
             /\ q[by[i]] = due[i] + 1
  <2>1. by[i] \in strong
    BY <1>7 DEF Bijection, Injection
  <2>2. breed[by[i]] \in Nat
    BY <1>8, <2>1
  <2>3. owed'[i] = breed[by[i]] - 1 /\ i \in DOMAIN owed'
    BY <1>2, <1>7 DEF ChildrenOwed
  <2>4. due[i] = IF owed'[i] > 0 THEN owed'[i] ELSE 0
    BY <2>3 DEF Due
  <2>5. q[by[i]] = IF breed[by[i]] > 1 THEN breed[by[i]] ELSE 1
    BY <2>1 DEF Places
  <2> QED
    BY <2>1, <2>2, <2>3, <2>4, <2>5
<1> HIDE DEF q, due
<1>10. IsFiniteSet(1..n) /\ Cardinality(1..n) = n
  BY <1>7, FS_Interval
<1>11. SumOver(both, 1..n) = SumOver(q, strong)
  <2>1. \A i \in 1..n : both[i] \in Int /\ q[by[i]] = both[i]
    BY <1>9
  <2> HIDE DEF both
  <2> DEFINE D == 1..n
  <2>2. IsFiniteSet(D) /\ by \in Bijection(D, strong)
        /\ \A i \in D : both[i] \in Int /\ q[by[i]] = both[i]
    BY <1>7, <1>10, <2>1
  <2> HIDE DEF D
  <2>3. SumOver(both, D) = SumOver(q, strong)
    BY <2>2, SumRenamed
  <2> QED
    BY <2>3 DEF D
<1>12. /\ SumOver(due, 1..n) \in Int /\ SumOver(one, 1..n) \in Int
       /\ SumOver(both, 1..n) = SumOver(due, 1..n) + SumOver(one, 1..n)
  <2>1. \A i \in 1..n : due[i] \in Int /\ one[i] \in Int /\ both[i] = due[i] + one[i]
    BY <1>9
  <2> HIDE DEF both, one
  <2> QED
    BY <1>10, <2>1, SumPlus
<1>13. SumOver(one, 1..n) = n
  <2>1. PICK c \in Int : c = 1
    OBVIOUS
  <2>2. \A i \in 1..n : one[i] = c
    BY <2>1
  <2> HIDE DEF one
  <2>3. SumOver(one, 1..n) = c * Cardinality(1..n)
    BY <1>10, <2>2, SumConstant
  <2> QED
    BY <1>7, <1>10, <2>1, <2>3
<1>14. DOMAIN owed' = 1..n /\ Len(species') = n
  <2>1. species' \in Seq(Species) /\ DOMAIN species' = 1..Len(species') /\ Len(species') \in Nat
    BY SelectLeaves, PoolShape
  <2>2. DOMAIN species' = 1..n /\ DOMAIN owed' = 1..n
    BY <1>2, <1>7
  <2>3. \A a, b \in Nat : 1..a = 1..b => a = b
    OBVIOUS
  <2> QED
    BY <1>7, <2>1, <2>2, <2>3
<1> QED
  BY <1>6, <1>11, <1>12, <1>13, <1>14 DEF due

\* The positions of a pool are as many as the pairs of a species and a genome.
LEMMA PositionsAre ==
  ASSUME NEW sp, NEW p
  PROVE  p \in Positions(sp) <=>
           \E s \in DOMAIN sp : \E g \in DOMAIN sp[s].genomes : p = <<s, g>>
<1>1. \A s : p \in {s} \X DOMAIN sp[s].genomes <=> \E g \in DOMAIN sp[s].genomes : p = <<s, g>>
  OBVIOUS
<1> QED
  BY <1>1 DEF Positions

\* Two pools with species of the same sizes have the same positions.
LEMMA SamePositions ==
  ASSUME NEW sp, NEW sp2, DOMAIN sp2 = DOMAIN sp,
         \A s \in DOMAIN sp : DOMAIN sp2[s].genomes = DOMAIN sp[s].genomes
  PROVE  Positions(sp2) = Positions(sp)
BY DEF Positions

\* addToSpecies adds one.
LEMMA PlacementCounts ==
  ASSUME NEW sp, SpeciesOK(sp), NEW g \in Genome, NEW sp2 \in Placements(sp, g)
  PROVE  Headcount(sp) \in Nat /\ Headcount(sp2) = Headcount(sp) + 1
<1>1. IsFiniteSet(Positions(sp)) /\ Headcount(sp) \in Nat
  BY PositionsFinite, FS_CardinalityType DEF Headcount
<1>2. \E p : p \notin Positions(sp) /\ Positions(sp2) = Positions(sp) \cup {p}
  <2>1. CASE sp2 = Append(sp, NewSpecies(g))
    <3> DEFINE n == Len(sp) + 1
    <3>1. /\ sp \in Seq(Species) /\ Len(sp) \in Nat /\ DOMAIN sp = 1..Len(sp)
      BY PoolShape
    <3>2. NewSpecies(g) \in Species /\ NewSpecies(g).genomes = <<g>>
      BY DEF NewSpecies, Species
    <3>3. /\ DOMAIN sp2 = 1..n /\ sp2[n].genomes = <<g>>
          /\ \A s \in DOMAIN sp : sp2[s] = sp[s]
      <4>1. sp2 \in Seq(Species) /\ Len(sp2) = n
        BY <2>1, <3>1, <3>2, AppendProperties
      <4>2. DOMAIN sp2 = 1..n
        BY <4>1, LenProperties
      <4> QED
        BY <2>1, <3>1, <3>2, <4>2, AppendProperties
    <3>4. DOMAIN sp2[n].genomes = {1}
      BY <3>3
    <3>5. DOMAIN sp2 = DOMAIN sp \cup {n} /\ n \notin DOMAIN sp
      BY <3>1, <3>3
    <3> HIDE DEF n
    <3>6. <<n, 1>> \notin Positions(sp)
      BY <3>5, PositionsAre
    <3>7. Positions(sp2) = Positions(sp) \cup {<<n, 1>>}
      <4>1. \A s \in DOMAIN sp : DOMAIN sp2[s].genomes = DOMAIN sp[s].genomes
        BY <3>3
      <4> DEFINE row(pool1, s) == {s} \X DOMAIN pool1[s].genomes
      <4>2. row(sp2, n) = {<<n, 1>>}
        BY <3>4
      <4>3. \A s \in DOMAIN sp : row(sp2, s) = row(sp, s)
        BY <4>1
      <4>4. /\ Positions(sp) = UNION {row(sp, s) : s \in DOMAIN sp}
            /\ Positions(sp2) = UNION {row(sp2, s) : s \in DOMAIN sp2}
        BY DEF Positions
      <4> HIDE DEF row
      <4> QED
        BY <3>5, <4>2, <4>3, <4>4
    <3> QED
      BY <3>6, <3>7
  <2>2. CASE \E t \in DOMAIN sp : sp2 = [sp EXCEPT ![t].genomes = Append(@, g)]
    <3>1. PICK t \in DOMAIN sp : sp2 = [sp EXCEPT ![t].genomes = Append(@, g)]
      BY <2>2
    <3> DEFINE n == Len(sp[t].genomes) + 1
    <3>2. sp[t] \in Species /\ sp[t].genomes # <<>>
      BY PoolShape
    <3>3. /\ sp[t].genomes \in Seq(Genome) /\ Len(sp[t].genomes) \in Nat
          /\ DOMAIN sp[t].genomes = 1..Len(sp[t].genomes)
      BY <3>2, SpeciesShape
    <3>4. /\ DOMAIN sp2 = DOMAIN sp /\ sp2[t].genomes = Append(sp[t].genomes, g)
          /\ \A s \in DOMAIN sp : s # t => sp2[s] = sp[s]
      BY <3>1, <3>2 DEF Species
    <3>5. DOMAIN sp2[t].genomes = DOMAIN sp[t].genomes \cup {n} /\ n \notin DOMAIN sp[t].genomes
      <4>1. Append(sp[t].genomes, g) \in Seq(Genome) /\ Len(Append(sp[t].genomes, g)) = n
        BY <3>3, AppendProperties
      <4>2. DOMAIN sp2[t].genomes = 1..n
        BY <3>4, <4>1, LenProperties
      <4> QED
        BY <3>3, <4>2
    <3> HIDE DEF n
    <3>6. <<t, n>> \notin Positions(sp)
      BY <3>5, PositionsAre
    <3>7. Positions(sp2) = Positions(sp) \cup {<<t, n>>}
      <4>1. \A p : p \in Positions(sp2) <=> p \in Positions(sp) \cup {<<t, n>>}
        BY <3>4, <3>5, PositionsAre
      <4> QED
        BY <4>1
    <3> QED
      BY <3>6, <3>7
  <2> QED
    BY <2>1, <2>2 DEF Placements
<1> QED
  BY <1>1, <1>2, FS_AddElement DEF Headcount

\* Species of one genome are as many as their genomes.
LEMMA SinglesCount ==
  ASSUME NEW sp, SpeciesOK(sp), \A s \in DOMAIN sp : Len(sp[s].genomes) = 1
  PROVE  Headcount(sp) = Len(sp)
<1> DEFINE f == [s \in 1..Len(sp) |-> <<s, 1>>]
<1>1. DOMAIN sp = 1..Len(sp) /\ Len(sp) \in Nat
  BY PoolShape
<1>2. \A s \in DOMAIN sp : DOMAIN sp[s].genomes = {1}
  <2> TAKE s \in DOMAIN sp
  <2>1. sp[s] \in Species /\ sp[s].genomes # <<>> /\ Len(sp[s].genomes) = 1
    BY PoolShape
  <2>2. DOMAIN sp[s].genomes = 1..1
    BY <2>1, SpeciesShape
  <2>3. 1..1 = {1}
    OBVIOUS
  <2> QED
    BY <2>2, <2>3
<1>3. \A p : p \in Positions(sp) <=> \E s \in 1..Len(sp) : p = <<s, 1>>
  BY <1>1, <1>2, PositionsAre
<1>4. f \in Bijection(1..Len(sp), Positions(sp))
  BY <1>3 DEF Bijection, Injection, IsInjective, Surjection
<1>5. IsFiniteSet(1..Len(sp)) /\ Cardinality(1..Len(sp)) = Len(sp)
  BY <1>1, FS_Interval
<1> HIDE DEF f
<1>6. ExistsBijection(1..Len(sp), Positions(sp))
  BY <1>4 DEF ExistsBijection
<1> QED
  BY <1>5, <1>6, FS_Bijection DEF Headcount

\* What is bred never outgrows the room there is for it: children bred, being
\* made and owed fit in beside one genome of each species.  Once the brood is
\* placed there is exactly room for it.
HeadsInStage ==
  /\ stage = "found" => Headcount(species) + Pending <= Population /\ children = <<>>
  /\ stage = "breed" =>
       Len(children) + Pending + SumOver(Due, DOMAIN owed) + Len(species) <= Population
  /\ stage = "fill" => Len(children) + Pending + Len(species) <= Population
  /\ stage = "place" => Headcount(species) + Len(children) = Population
  /\ stage \in {"play", "played"} => Headcount(species) = Population /\ children = <<>>
  /\ stage \in {"place", "play", "played"} => child = NoGenome

HInv == GInv /\ HeadsInStage

\* What there is to know of the numbers in HeadsInStage.
LEMMA HeadsTyped ==
  ASSUME GInv
  PROVE  /\ Headcount(species) \in Nat /\ Len(children) \in Nat /\ Len(species) \in Nat
         /\ Pending \in {0, 1} /\ Population \in Nat
         /\ IsFiniteSet(DOMAIN owed) /\ \A s \in DOMAIN owed : owed[s] \in Int /\ Due[s] \in Nat
         /\ SumOver(Due, DOMAIN owed) \in Nat
<1> USE TypeOKMeans DEF GInv
<1>1. Headcount(species) \in Nat
  BY PositionsFinite, FS_CardinalityType DEF Headcount
<1>2. Len(children) \in Nat /\ Len(species) \in Nat /\ Len(owed) \in Nat
  BY LenProperties, PoolShape
<1>3. DOMAIN owed = 1..Len(owed) /\ \A s \in 1..Len(owed) : owed[s] \in Int
  BY LenProperties, ElementOfSeq
<1>4. IsFiniteSet(DOMAIN owed)
  BY <1>2, <1>3, FS_Interval
<1>5. \A s \in DOMAIN owed : owed[s] \in Int /\ Due[s] \in Nat
  BY <1>3 DEF Due
<1>6. SumOver(Due, DOMAIN owed) \in Nat
  BY <1>4, <1>5, SumAtLeast
<1> QED
  BY <1>1, <1>2, <1>4, <1>5, <1>6, EvolutionAssumption DEF Pending

\* A genome is founded, mutated, or made to fill up.
LEMMA MakingKeepsHeads ==
  ASSUME HInv, Found \/ Mutate \/ Fill
  PROVE  HeadsInStage'
<1>1. GInv /\ HeadsInStage
  BY DEF HInv
<1>2. UNCHANGED <<species, stage, owed, children>>
  BY DEF Found, Mutate, Fill, LinkMutate, NodeMutate, EnableDisableMutate, Mutates, pool
<1>3. /\ Headcount(species') = Headcount(species) /\ Len(species') = Len(species)
      /\ Len(children') = Len(children) /\ Due' = Due /\ Pending' \in {0, 1}
  BY <1>2 DEF Due, Pending
<1>4. CASE Found
  <2>1. stage = "found" /\ Headcount(species) < Population
    BY <1>4 DEF Found
  <2> QED
    BY <1>1, <1>2, <1>3, <2>1, HeadsTyped DEF HeadsInStage
<1>5. CASE Fill
  <2>1. stage = "fill" /\ Len(children) + Len(species) < Population
    BY <1>5 DEF Fill
  <2> QED
    BY <1>1, <1>2, <1>3, <2>1, HeadsTyped DEF HeadsInStage
<1>6. CASE Mutate
  <2>1. child # NoGenome
    BY <1>6 DEF Mutate, LinkMutate, NodeMutate, EnableDisableMutate, Mutates
  <2>2. stage \notin {"place", "play", "played"} /\ Pending = 1
    BY <1>1, <2>1 DEF HeadsInStage, Pending
  <2>3. /\ stage = "breed" =>
             Len(children) + 1 + SumOver(Due, DOMAIN owed) + Len(species) <= Population
        /\ stage = "fill" => Len(children) + 1 + Len(species) <= Population
        /\ stage = "found" => Headcount(species) + 1 <= Population /\ children = <<>>
    BY <1>1, <2>2 DEF HeadsInStage
  <2>4. SumOver(Due', DOMAIN owed') = SumOver(Due, DOMAIN owed)
    BY <1>2, <1>3
  <2> QED
    BY <1>1, <1>2, <1>3, <2>2, <2>3, <2>4, HeadsTyped DEF HeadsInStage
<1> QED
  BY <1>4, <1>5, <1>6

\* The child becomes one of the pool or one of the brood.
LEMMA ReadyKeepsHeads ==
  ASSUME HInv, Ready
  PROVE  HeadsInStage'
<1>1. GInv /\ HeadsInStage /\ TypeOK
  BY DEF HInv, GInv
<1>2. /\ child # NoGenome /\ child' = NoGenome /\ child \in Genome /\ Pending = 1 /\ Pending' = 0
      /\ stage' = stage /\ owed' = owed /\ Due' = Due
      /\ stage \notin {"place", "play", "played"}
  BY <1>1, TypeOKMeans DEF Ready, Pending, Due, HeadsInStage
<1>3. CASE stage = "found"
  <2>1. species' \in Placements(species, child) /\ children' = children
    BY <1>3 DEF Ready
  <2>2. Headcount(species') = Headcount(species) + 1
    BY <1>1, <1>2, <2>1, PlacementCounts, TypeOKMeans
  <2> QED
    BY <1>1, <1>2, <1>3, <2>1, <2>2, HeadsTyped DEF HeadsInStage
<1>4. CASE stage # "found"
  <2>1. species' = species /\ children' = Append(children, child)
    BY <1>4 DEF Ready
  <2>2. Len(children') = Len(children) + 1
    BY <1>1, <1>2, <2>1, AppendProperties, TypeOKMeans
  <2>3. SumOver(Due', DOMAIN owed') = SumOver(Due, DOMAIN owed)
    BY <1>2
  <2> QED
    BY <1>1, <1>2, <1>4, <2>1, <2>2, <2>3, HeadsTyped DEF HeadsInStage
<1> QED
  BY <1>3, <1>4

\* Giving and taking fitnesses moves no genome.
LEMMA ScoringKeepsHeads ==
  ASSUME HInv, Play \/ NextGeneration
  PROVE  HeadsInStage'
<1>1. GInv /\ HeadsInStage
  BY DEF HInv
<1>2. /\ DOMAIN species' = DOMAIN species
      /\ \A s \in DOMAIN species : DOMAIN species'[s].genomes = DOMAIN species[s].genomes
  <2>1. CASE Play
    <3>1. PICK fitness \in [Positions(species) -> Fitnesses] :
            species' = [s \in DOMAIN species |->
              [species[s] EXCEPT !.genomes =
                 [g \in DOMAIN @ |-> [@[g] EXCEPT !.fitness = fitness[<<s, g>>]]]]]
      BY <2>1 DEF Play
    <3>2. \A s \in DOMAIN species : species[s] \in Species
      BY <1>1, TypeOKMeans, PoolShape DEF GInv
    <3> QED
      BY <3>1, <3>2 DEF Species
  <2>2. CASE NextGeneration
    <3>1. \A s \in DOMAIN species : species[s] \in Species
      BY <1>1, TypeOKMeans, PoolShape DEF GInv
    <3> QED
      BY <2>2, <3>1 DEF NextGeneration, Unscored, Species
  <2> QED
    BY <2>1, <2>2
<1>3. Headcount(species') = Headcount(species)
  BY <1>2, SamePositions DEF Headcount
<1>4. stage' \in {"play", "played"} /\ children' = children /\ child' = child
  BY DEF Play, NextGeneration
<1>5. Headcount(species) = Population /\ children = <<>> /\ child = NoGenome
  <2>1. CASE Play
    BY <1>1, <2>1 DEF Play, HeadsInStage
  <2>2. CASE NextGeneration
    <3>1. stage = "place" /\ children = <<>> /\ Len(children) = 0
      BY <2>2 DEF NextGeneration
    <3> QED
      BY <1>1, <3>1, HeadsTyped DEF HeadsInStage
  <2> QED
    BY <2>1, <2>2
<1> QED
  BY <1>3, <1>4, <1>5 DEF HeadsInStage

\* Selection owes no more children than there is room for; culling to one makes
\* the room for them.
LEMMA SelectionKeepsHeads ==
  ASSUME HInv, Select \/ CullToOne
  PROVE  HeadsInStage'
<1>1. GInv /\ HeadsInStage /\ TypeOK
  BY DEF HInv, GInv
<1>2. children' = children /\ child' = child /\ Pending' = Pending
  BY DEF Select, CullToOne, Pending
<1>3. CASE Select
  <2>1. stage = "played" /\ stage' = "breed"
    BY <1>3 DEF Select
  <2>2. children = <<>> /\ Pending' = 0 /\ Len(children') = 0
    BY <1>1, <1>2, <2>1 DEF HeadsInStage, Pending
  <2>3. SumOver(Due', DOMAIN owed') + Len(species') <= Population
    BY <1>1, <1>3, SelectOwes
  <2>4. Len(children') + Pending' + SumOver(Due', DOMAIN owed') + Len(species') <= Population
    <3>1. SumOver(Due', DOMAIN owed') \in Nat /\ Len(species') \in Nat
      <4>1. /\ owed' \in Seq(Int) /\ DOMAIN owed' = 1..Len(owed') /\ Len(owed') \in Nat
            /\ \A s \in 1..Len(owed') : owed'[s] \in Int
        BY <1>1, <1>3, SelectLeaves, LenProperties, ElementOfSeq
      <4>2. IsFiniteSet(DOMAIN owed')
        BY <4>1, FS_Interval
      <4>3. \A s \in DOMAIN owed' : Due'[s] \in Nat
        BY <4>1 DEF Due
      <4>4. SumOver(Due', DOMAIN owed') \in Nat
        BY <4>2, <4>3, SumAtLeast
      <4> QED
        BY <1>1, <1>3, <4>4, SelectLeaves, PoolShape
    <3> QED
      BY <2>2, <2>3, <3>1
  <2> QED
    BY <2>1, <2>4 DEF HeadsInStage
<1>4. CASE CullToOne
  <2>1. stage = "breed" /\ stage' = "fill" /\ DOMAIN species' = DOMAIN species
    BY <1>4 DEF CullToOne
  <2>2. Len(species') = Len(species)
    <3>1. SpeciesOK(species') /\ SpeciesOK(species)
      BY <1>1, <1>4, CullToOneLeaves, TypeOKMeans
    <3>2. /\ DOMAIN species = 1..Len(species) /\ Len(species) \in Nat
          /\ DOMAIN species' = 1..Len(species') /\ Len(species') \in Nat
      BY <3>1, PoolShape
    <3>3. \A a, b \in Nat : 1..a = 1..b => a = b
      OBVIOUS
    <3> QED
      BY <2>1, <3>2, <3>3
  <2> QED
    BY <1>1, <1>2, <2>1, <2>2, HeadsTyped DEF HeadsInStage
<1> QED
  BY <1>3, <1>4

\* A child that was owed is being made.
LEMMA BreedKeepsHeads ==
  ASSUME HInv, Breed
  PROVE  HeadsInStage'
<1>1. GInv /\ HeadsInStage
  BY DEF HInv
<1>2. /\ stage = "breed" /\ stage' = stage /\ species' = species /\ children' = children
      /\ child = NoGenome
  BY DEF Breed, pool
<1>3. PICK s \in DOMAIN owed : owed[s] > 0 /\ owed' = [owed EXCEPT ![s] = @ - 1]
  BY DEF Breed
<1> DEFINE due == Due
           due2 == Due'
<1>4. /\ IsFiniteSet(DOMAIN owed) /\ \A r \in DOMAIN owed : owed[r] \in Int /\ due[r] \in Nat
  BY <1>1, HeadsTyped
<1>5. DOMAIN owed' = DOMAIN owed /\ owed'[s] = owed[s] - 1
      /\ \A r \in DOMAIN owed \ {s} : owed'[r] = owed[r]
  BY <1>3
<1>6. /\ due2[s] = due[s] - 1 /\ due2[s] \in Int
      /\ \A r \in DOMAIN owed \ {s} : due2[r] = due[r]
  BY <1>3, <1>4, <1>5 DEF Due
<1>7. \A r \in DOMAIN owed : due[r] \in Int /\ due2[r] \in Int
  BY <1>4, <1>6
<1> HIDE DEF due, due2
<1>8. SumOver(due2, DOMAIN owed) = SumOver(due, DOMAIN owed) - 1
  <2> DEFINE D == DOMAIN owed
  <2>0. /\ IsFiniteSet(D) /\ s \in D /\ \A r \in D : due[r] \in Int /\ due2[r] \in Int
        /\ \A r \in D \ {s} : due2[r] = due[r]
    BY <1>4, <1>6, <1>7
  <2> HIDE DEF D
  <2>1. SumOver(due2, D) = SumOver(due, D) + (due2[s] - due[s])
    BY <2>0, SumChange
  <2>2. SumOver(due, D) \in Int
    BY <2>0, SumEquation
  <2> USE DEF D
  <2> QED
    BY <1>6, <1>7, <2>1, <2>2
<1>9. SumOver(Due', DOMAIN owed') = SumOver(Due, DOMAIN owed) - 1
  BY <1>5, <1>8 DEF due, due2
<1>10. Pending = 0 /\ Pending' \in {0, 1}
  BY <1>2 DEF Pending
<1>11. Len(children) + 0 + SumOver(Due, DOMAIN owed) + Len(species) <= Population
  BY <1>1, <1>2, <1>10 DEF HeadsInStage
<1>12. Len(children') + Pending' + SumOver(Due', DOMAIN owed') + Len(species') <= Population
  BY <1>1, <1>2, <1>9, <1>10, <1>11, HeadsTyped
<1> QED
  BY <1>2, <1>12 DEF HeadsInStage

\* The brood is placed one by one, beside one genome of each species.
LEMMA PlaceKeepsHeads ==
  ASSUME HInv, Place \/ PlaceChild
  PROVE  HeadsInStage'
<1>1. GInv /\ HeadsInStage /\ TypeOK
  BY DEF HInv, GInv
<1>2. CASE Place
  <2>1. /\ stage = "fill" /\ stage' = "place" /\ child = NoGenome /\ child' = child
        /\ species' = species /\ children' = children
        /\ Len(children) + Len(species) >= Population
    BY <1>2 DEF Place, pool
  <2>2. Headcount(species) = Len(species)
    BY <1>1, <2>1, SinglesCount, TypeOKMeans DEF GInv, SpeciesInStage
  <2>3. Len(children) + 0 + Len(species) <= Population
    BY <1>1, <2>1 DEF HeadsInStage, Pending
  <2>4. Headcount(species') + Len(children') = Population
    BY <1>1, <2>1, <2>2, <2>3, HeadsTyped
  <2> QED
    BY <2>1, <2>4 DEF HeadsInStage
<1>3. CASE PlaceChild
  <2>1. /\ stage = "place" /\ stage' = "place" /\ child' = child
        /\ children # <<>> /\ children' = Tail(children)
        /\ species' \in Placements(species, Head(children))
    BY <1>3 DEF PlaceChild
  <2>2. Head(children) \in Genome /\ Len(children') = Len(children) - 1
    BY <1>1, <2>1, TypeOKMeans, HeadTailProperties
  <2>3. Headcount(species') = Headcount(species) + 1
    BY <1>1, <2>1, <2>2, PlacementCounts, TypeOKMeans
  <2>4. Headcount(species') + Len(children') = Population
    BY <1>1, <2>1, <2>2, <2>3, HeadsTyped DEF HeadsInStage
  <2>5. child' = NoGenome
    BY <1>1, <2>1 DEF HeadsInStage
  <2> QED
    BY <2>1, <2>4, <2>5 DEF HeadsInStage
<1> QED
  BY <1>2, <1>3

\* The empty pool.
LEMMA HeadsInit == Init => HeadsInStage
<1> SUFFICES ASSUME Init PROVE HeadsInStage
  OBVIOUS
<1>1. species = <<>> /\ children = <<>> /\ child = NoGenome /\ stage = "found"
  BY DEF Init
<1>2. Positions(species) = {}
  BY <1>1 DEF Positions
<1>3. Headcount(species) = 0
  BY <1>2, FS_EmptySet DEF Headcount
<1> QED
  BY <1>1, <1>3, EvolutionAssumption DEF HeadsInStage, Pending

-----------------------------------------------------------------------------
(* Which genomes stay *)
\* The greatest of a set of numbers is the one that is no less than the others.
LEMMA MaxIs ==
  ASSUME NEW S \in SUBSET Nat, NEW m \in S, \A n \in S : m >= n
  PROVE  Max(S) = m
<1>1. \A x \in S : (\A n \in S : x >= n) => x = m
  <2> TAKE x \in S
  <2> HAVE \A n \in S : x >= n
  <2>1. x >= m /\ m >= x /\ x \in Int /\ m \in Int
    OBVIOUS
  <2> QED
    BY <2>1
<1> QED
  BY <1>1 DEF Max

\* A genome of a species that no other of it beats has its best fitness.
LEMMA BestIs ==
  ASSUME NEW s \in Species, s.genomes # <<>>, NEW g \in GenomesOf(s),
         \A h \in DOMAIN s.genomes : s.genomes[h].fitness <= g.fitness
  PROVE  g.fitness = BestFitness(s)
<1> DEFINE S == {s.genomes[h].fitness : h \in DOMAIN s.genomes}
<1>1. \A h \in DOMAIN s.genomes : s.genomes[h].fitness \in Nat
  BY SpeciesShape DEF Genome
<1>2. S \in SUBSET Nat /\ g.fitness \in S /\ \A n \in S : g.fitness >= n
  <2>1. PICK h \in DOMAIN s.genomes : g = s.genomes[h]
    BY DEF GenomesOf
  <2>2. g.fitness \in Nat /\ g.fitness \in S
    BY <1>1, <2>1
  <2> QED
    BY <1>1, <2>2
<1> HIDE DEF S
<1>3. Max(S) = g.fitness
  BY <1>2, MaxIs
<1> QED
  BY <1>3 DEF BestFitness, S

\* Sorting puts one of the best first, in whatever order it leaves equals.
LEMMA SortedBest ==
  ASSUME NEW s \in Species, s.genomes # <<>>, NEW sorted \in Sorted(s)
  PROVE  /\ sorted[1] \in GenomesOf(s)
         /\ \A h \in DOMAIN s.genomes : s.genomes[h].fitness <= sorted[1].fitness
<1> DEFINE n == Len(s.genomes)
<1>1. PICK order \in [1..n -> 1..n] :
        /\ \A g, h \in 1..n : g < h =>
             /\ order[g] # order[h]
             /\ s.genomes[order[g]].fitness >= s.genomes[order[h]].fitness
        /\ sorted = [g \in 1..n |-> s.genomes[order[g]]]
  BY DEF Sorted
<1>2. n \in Nat \ {0} /\ DOMAIN s.genomes = 1..n /\ \A g \in 1..n : s.genomes[g].fitness \in Nat
  BY SpeciesShape DEF Genome
<1> HIDE DEF n
<1>3. order \in Injection(1..n, 1..n)
  <2>1. ASSUME NEW g \in 1..n, NEW h \in 1..n, order[g] = order[h]
        PROVE  g = h
    <3>1. ~(g < h) /\ ~(h < g)
      BY <1>1, <2>1
    <3> QED
      BY <1>2, <3>1
  <2> QED
    BY <1>1, <2>1 DEF Injection, IsInjective
<1>4. order \in Surjection(1..n, 1..n)
  <2>1. IsFiniteSet(1..n)
    BY <1>2, FS_Interval
  <2> QED
    BY <1>3, <2>1, FS_Injection
<1>5. 1 \in 1..n /\ sorted[1] = s.genomes[order[1]] /\ order[1] \in 1..n
  BY <1>1, <1>2
<1>6. ASSUME NEW h \in 1..n
      PROVE  s.genomes[h].fitness <= sorted[1].fitness
  <2>1. PICK g \in 1..n : order[g] = h
    BY <1>4 DEF Surjection
  <2>2. CASE g = 1
    BY <1>2, <1>5, <2>1, <2>2
  <2>3. CASE g # 1
    <3>1. 1 < g
      BY <1>2, <2>3
    <3>2. s.genomes[order[1]].fitness >= s.genomes[order[g]].fitness
      BY <1>1, <1>5, <3>1
    <3> QED
      BY <1>2, <1>5, <2>1, <3>2
  <2> QED
    BY <2>2, <2>3
<1> QED
  BY <1>2, <1>5, <1>6 DEF GenomesOf

\* Whatever culling leaves of a species, one of its best is first.
LEMMA CulledBest ==
  ASSUME NEW s \in Species, s.genomes # <<>>, NEW c \in Halves(s) \cup Bests(s)
  PROVE  c.genomes[1] \in GenomesOf(s) /\ c.genomes[1].fitness = BestFitness(s)
<1>1. PICK sorted \in Sorted(s) :
        \/ c = [s EXCEPT !.genomes = SubSeq(sorted, 1, (Len(sorted) + 1) \div 2)]
        \/ c = [s EXCEPT !.genomes = <<sorted[1]>>]
  BY DEF Halves, Bests
<1>2. c.genomes[1] = sorted[1]
  <2>1. CASE c = [s EXCEPT !.genomes = SubSeq(sorted, 1, (Len(sorted) + 1) \div 2)]
    <3> DEFINE m == (Len(sorted) + 1) \div 2
               kept == SubSeq(sorted, 1, m)
    <3>1. sorted \in Seq(Genome) /\ Len(sorted) \in Nat \ {0}
      BY SortedAre, SpeciesShape
    <3>2. m \in 1..Len(sorted)
      BY <3>1
    <3>3. c.genomes = kept
      BY <2>1 DEF Species
    <3> HIDE DEF m
    <3>4. \A i \in 1..m : kept[i] = sorted[i]
      BY <3>1, <3>2, SubSeqProperties
    <3>5. 1 \in 1..m
      BY <3>1, <3>2
    <3> QED
      BY <3>3, <3>4, <3>5
  <2>2. CASE c = [s EXCEPT !.genomes = <<sorted[1]>>]
    BY <2>2 DEF Species
  <2> QED
    BY <1>1, <2>1, <2>2
<1> QED
  BY <1>2, SortedBest, BestIs

\* Nothing that is bred has a fitness.
LEMMA OffspringUnscored ==
  ASSUME NEW parents \in SUBSET Genome, NEW h \in Offspring(parents)
  PROVE  h.fitness = 0
<1>1. CASE \E genome \in parents : h = Copy(genome)
  BY <1>1 DEF Copy, Genome
<1>2. CASE \E g1, g2 \in parents : h \in Crossover(g1, g2)
  BY <1>2 DEF Crossover, Crossings
<1> QED
  BY <1>1, <1>2 DEF Offspring

\* The first genome of a species is one of its best.
Leads(s) == \A g \in DOMAIN s.genomes : s.genomes[g].fitness <= s.genomes[1].fitness

\* While a generation is bred its members have no fitness yet, so that those
\* placed with the first genome of a species that stays leave it the best; the
\* species that stay come before the ones that are new.
BestInStage ==
  stage \in {"breed", "fill", "place"} =>
    /\ Len(owed) <= Len(species)
    /\ \A c \in DOMAIN children : children[c].fitness = 0
    /\ child # NoGenome => child.fitness = 0
    /\ stage = "place" => \A s \in DOMAIN species : s <= Len(owed) => Leads(species[s])

BInv == HInv /\ BestInStage

\* A child is begun, mutated or finished: the pool stays.
LEMMA MakingKeepsBest ==
  ASSUME BInv, Found \/ Mutate \/ Ready \/ Breed \/ Fill
  PROVE  BestInStage'
<1>1. GInv /\ TypeOK /\ BestInStage /\ HeadsInStage
  BY DEF BInv, HInv, GInv
<1>2. SUFFICES ASSUME stage' \in {"breed", "fill", "place"} PROVE BestInStage'
  BY DEF BestInStage
<1>3. stage' = stage
  BY DEF Found, Mutate, LinkMutate, NodeMutate, EnableDisableMutate, Mutates, Ready, Breed, Fill
<1>4. /\ Len(owed) <= Len(species)
      /\ \A c \in DOMAIN children : children[c].fitness = 0
      /\ child # NoGenome => child.fitness = 0
      /\ stage = "place" => child = NoGenome
  BY <1>1, <1>2, <1>3 DEF BestInStage, HeadsInStage
<1>5. CASE Breed \/ Fill
  <2>1. PICK s \in DOMAIN species : \E genome \in Offspring(GenomesOf(species[s])) : Begin(genome)
    <3>1. CASE Breed
      <4>1. DOMAIN owed = DOMAIN species
        BY <1>1, <3>1 DEF GInv, SpeciesInStage, Breed
      <4> QED
        BY <3>1, <4>1 DEF Breed
    <3>2. CASE Fill
      BY <3>2 DEF Fill
    <3> QED
      BY <1>5, <3>1, <3>2
  <2>2. GenomesOf(species[s]) \in SUBSET Genome
    BY <1>1, TypeOKMeans, PoolShape, SpeciesShape DEF GenomesOf
  <2>3. child'.fitness = 0
    BY <2>1, <2>2, OffspringUnscored DEF Begin
  <2>4. children' = children /\ species' = species /\ stage # "place"
    BY <1>5 DEF Breed, Fill, pool
  <2>5. Len(owed') = Len(owed)
    BY <1>1, <1>5, TypeOKMeans DEF Breed, Fill
  <2> QED
    BY <1>2, <1>3, <1>4, <2>3, <2>4, <2>5 DEF BestInStage
<1>6. CASE Mutate
  <2>1. child # NoGenome /\ UNCHANGED <<species, owed, children>>
    BY <1>6 DEF Mutate, LinkMutate, NodeMutate, EnableDisableMutate, Mutates
  <2>2. child \in Genome
    BY <1>1, <2>1, TypeOKMeans
  <2>3. child'.fitness = child.fitness
    BY <1>6, <2>2 DEF Mutate, LinkMutate, NodeMutate, EnableDisableMutate, Split, Toggled, Genome
  <2> QED
    BY <1>2, <1>3, <1>4, <2>1, <2>3 DEF BestInStage
<1>7. CASE Ready
  <2>1. /\ child # NoGenome /\ child' = NoGenome /\ species' = species /\ owed' = owed
        /\ children' = Append(children, child) /\ child.fitness = 0 /\ stage # "place"
    BY <1>2, <1>3, <1>4, <1>7 DEF Ready
  <2>2. children \in Seq(Genome) /\ child \in Genome
    BY <1>1, <2>1, TypeOKMeans
  <2>3. \A c \in DOMAIN children' : children'[c].fitness = 0
    <3>1. /\ children' \in Seq(Genome) /\ Len(children') = Len(children) + 1
          /\ \A c \in 1..Len(children) : children'[c] = children[c]
          /\ children'[Len(children) + 1] = child
      BY <2>1, <2>2, AppendProperties
    <3>2. DOMAIN children' = 1..Len(children) + 1 /\ DOMAIN children = 1..Len(children)
          /\ Len(children) \in Nat
      BY <2>2, <3>1, LenProperties
    <3>3. \A c \in DOMAIN children' : c = Len(children) + 1 \/ c \in DOMAIN children
      BY <3>2
    <3> QED
      BY <1>4, <2>1, <3>1, <3>2, <3>3
  <2> QED
    BY <1>2, <1>3, <1>4, <2>1, <2>3 DEF BestInStage
<1>8. CASE Found
  BY <1>2, <1>3, <1>8 DEF Found
<1> QED
  BY <1>5, <1>6, <1>7, <1>8

\* Selection, culling, placing.
LEMMA SelectionKeepsBest ==
  ASSUME BInv, Select \/ CullToOne \/ Place
  PROVE  BestInStage'
<1>1. GInv /\ TypeOK /\ BestInStage /\ HeadsInStage
  BY DEF BInv, HInv, GInv
<1>2. CASE Select
  <2>1. stage = "played" /\ stage' = "breed" /\ children' = children /\ child' = child
    BY <1>2 DEF Select
  <2>2. children' = <<>> /\ child' = NoGenome
    BY <1>1, <2>1 DEF HeadsInStage
  <2>3. Len(owed') = Len(species')
    BY <1>1, <1>2, SelectLeaves, PoolShape, LenProperties
  <2>4. Len(species') \in Nat
    BY <1>1, <1>2, SelectLeaves, PoolShape
  <2> QED
    BY <2>1, <2>2, <2>3, <2>4 DEF BestInStage
<1>3. CASE CullToOne
  <2>1. stage = "breed" /\ stage' = "fill" /\ DOMAIN species' = DOMAIN species
        /\ owed' = owed /\ children' = children /\ child' = child
    BY <1>3 DEF CullToOne
  <2>2. Len(species') = Len(species)
    <3>1. /\ DOMAIN species = 1..Len(species) /\ Len(species) \in Nat
          /\ DOMAIN species' = 1..Len(species') /\ Len(species') \in Nat
      BY <1>1, <1>3, CullToOneLeaves, TypeOKMeans, PoolShape
    <3>2. \A a, b \in Nat : 1..a = 1..b => a = b
      OBVIOUS
    <3> QED
      BY <2>1, <3>1, <3>2
  <2> QED
    BY <1>1, <2>1, <2>2 DEF BestInStage
<1>4. CASE Place
  <2>1. stage = "fill" /\ stage' = "place" /\ species' = species
        /\ owed' = owed /\ children' = children /\ child' = child
    BY <1>4 DEF Place, pool
  <2>2. ASSUME NEW s \in DOMAIN species PROVE Leads(species[s])
    <3>1. species[s] \in Species /\ species[s].genomes # <<>> /\ Len(species[s].genomes) = 1
      BY <1>1, <2>1, TypeOKMeans, PoolShape DEF GInv, SpeciesInStage
    <3>2. DOMAIN species[s].genomes = 1..1 /\ species[s].genomes[1].fitness \in Nat
      BY <3>1, SpeciesShape DEF Genome
    <3> QED
      BY <3>2 DEF Leads
  <2> QED
    BY <1>1, <2>1, <2>2 DEF BestInStage, Leads
<1> QED
  BY <1>2, <1>3, <1>4

\* A child that is placed in a species that stays comes after its first.
LEMMA PlacementLeads ==
  ASSUME BInv, PlaceChild
  PROVE  /\ BestInStage'
         /\ \A s \in DOMAIN species' : s <= Len(owed') =>
              /\ s \in DOMAIN species /\ Leads(species[s])
              /\ species'[s].genomes[1] = species[s].genomes[1]
<1> DEFINE g == Head(children)
<1>1. GInv /\ TypeOK /\ BestInStage
  BY DEF BInv, HInv, GInv
<1>2. /\ stage = "place" /\ stage' = "place" /\ children # <<>> /\ children' = Tail(children)
      /\ species' \in Placements(species, g) /\ owed' = owed /\ child' = child
  BY DEF PlaceChild
<1>3. /\ Len(owed) <= Len(species) /\ Len(owed) \in Nat
      /\ \A c \in DOMAIN children : children[c].fitness = 0
      /\ child # NoGenome => child.fitness = 0
      /\ \A s \in DOMAIN species : s <= Len(owed) => Leads(species[s])
  BY <1>1, <1>2, TypeOKMeans, LenProperties DEF BestInStage
<1>4. /\ SpeciesOK(species) /\ children \in Seq(Genome)
      /\ Len(species) \in Nat /\ DOMAIN species = 1..Len(species)
      /\ \A s \in DOMAIN species : species[s] \in Species /\ species[s].genomes # <<>>
  BY <1>1, TypeOKMeans, PoolShape
<1>5. /\ g \in Genome /\ g.fitness = 0
      /\ \A c \in DOMAIN children' : children'[c].fitness = 0
  <2>1. /\ g \in Genome /\ g = children[1] /\ children' \in Seq(Genome)
        /\ Len(children') = Len(children) - 1
        /\ \A c \in 1..Len(children') : children'[c] = children[c + 1]
    BY <1>2, <1>4, HeadTailProperties
  <2>2. /\ DOMAIN children = 1..Len(children) /\ Len(children) \in Nat \ {0}
        /\ DOMAIN children' = 1..Len(children')
    BY <1>2, <1>4, <2>1, LenProperties, EmptySeq
  <2>3. \A c \in DOMAIN children' : c + 1 \in DOMAIN children /\ children'[c] = children[c + 1]
    BY <2>1, <2>2
  <2> QED
    BY <1>3, <2>1, <2>2, <2>3
<1> HIDE DEF g
<1>6. /\ SpeciesOK(species')
      /\ Len(species') \in Nat /\ DOMAIN species' = 1..Len(species')
  BY <1>2, <1>4, <1>5, PlacementsAre, PoolShape
<1>7. /\ Len(species) <= Len(species')
      /\ \A s \in DOMAIN species :
           \/ species'[s] = species[s]
           \/ species'[s] = [species[s] EXCEPT !.genomes = Append(@, g)]
  <2>1. CASE species' = Append(species, NewSpecies(g))
    <3>1. NewSpecies(g) \in Species
      BY <1>5 DEF NewSpecies, Species
    <3>2. Len(species') = Len(species) + 1 /\ \A s \in 1..Len(species) : species'[s] = species[s]
      BY <1>4, <2>1, <3>1, AppendProperties DEF SpeciesOK
    <3> QED
      BY <1>4, <3>2
  <2>2. CASE \E t \in DOMAIN species : species' = [species EXCEPT ![t].genomes = Append(@, g)]
    <3>1. PICK t \in DOMAIN species : species' = [species EXCEPT ![t].genomes = Append(@, g)]
      BY <2>2
    <3>2. DOMAIN species' = DOMAIN species
      BY <3>1
    <3>3. \A a, b \in Nat : 1..a = 1..b => a = b
      OBVIOUS
    <3>4. Len(species') = Len(species)
      BY <1>4, <1>6, <3>2, <3>3
    <3>5. \A s \in DOMAIN species :
            species'[s] = IF s = t THEN [species[s] EXCEPT !.genomes = Append(@, g)]
                                   ELSE species[s]
      BY <3>1
    <3>6. \A s \in DOMAIN species :
            \/ species'[s] = species[s]
            \/ species'[s] = [species[s] EXCEPT !.genomes = Append(@, g)]
      BY <3>5, Zenon
    <3>7. Len(species) <= Len(species')
      BY <1>4, <3>4
    <3> QED
      BY <3>6, <3>7, Zenon
  <2> QED
    BY <1>2, <2>1, <2>2 DEF Placements
<1>8. ASSUME NEW s \in DOMAIN species
      PROVE  /\ species'[s].genomes[1] = species[s].genomes[1]
             /\ Leads(species[s]) => Leads(species'[s])
  <2>1. CASE species'[s] = species[s]
    BY <2>1
  <2>2. CASE species'[s] = [species[s] EXCEPT !.genomes = Append(@, g)]
    <3> DEFINE old == species[s].genomes
               new == species'[s].genomes
               n == Len(old)
    <3>1. /\ old \in Seq(Genome) /\ n \in Nat \ {0} /\ DOMAIN old = 1..n
          /\ \A i \in 1..n : old[i].fitness \in Nat
      BY <1>4, SpeciesShape DEF Genome
    <3>2. new = Append(old, g)
      BY <1>4, <2>2 DEF Species
    <3>3. Leads(species[s]) <=> \A i \in DOMAIN old : old[i].fitness <= old[1].fitness
      BY DEF Leads
    <3>4. Leads(species'[s]) <=> \A i \in DOMAIN new : new[i].fitness <= new[1].fitness
      BY DEF Leads
    <3> HIDE DEF old, new, n
    <3>5. /\ new \in Seq(Genome) /\ Len(new) = n + 1
          /\ \A i \in 1..n : new[i] = old[i]
          /\ new[n + 1] = g
      BY <1>5, <3>1, <3>2, AppendProperties DEF n
    <3>6. DOMAIN new = 1..n + 1
      BY <3>5, LenProperties
    <3>7. new[1] = old[1]
      BY <3>1, <3>5
    <3>8. \A i \in 1..n + 1 : i \in 1..n \/ i = n + 1
      BY <3>1
    <3>9. ASSUME \A i \in DOMAIN old : old[i].fitness <= old[1].fitness, NEW i \in DOMAIN new
          PROVE  new[i].fitness <= new[1].fitness
      <4>1. CASE i \in 1..n
        BY <3>1, <3>5, <3>7, <3>9, <4>1
      <4>2. CASE i = n + 1
        BY <1>5, <3>1, <3>5, <3>7, <4>2
      <4> QED
        BY <3>6, <3>8, <3>9, <4>1, <4>2
    <3>10. Leads(species[s]) => Leads(species'[s])
      BY <3>3, <3>4, <3>9
    <3> QED
      BY <3>7, <3>10 DEF old, new
  <2> QED
    BY <1>7, <2>1, <2>2
<1>9. ASSUME NEW s \in DOMAIN species', s <= Len(owed)
      PROVE  s \in DOMAIN species /\ Leads(species[s])
  <2>1. s \in DOMAIN species
    BY <1>3, <1>4, <1>6, <1>9
  <2> QED
    BY <1>3, <1>9, <2>1
<1>10. BestInStage'
  <2>1. Len(owed') <= Len(species')
    BY <1>2, <1>3, <1>4, <1>6, <1>7
  <2>2. \A s \in DOMAIN species' : s <= Len(owed') => Leads(species'[s])
    BY <1>2, <1>8, <1>9
  <2> QED
    BY <1>2, <1>3, <1>5, <2>1, <2>2 DEF BestInStage, Leads
<1> QED
  BY <1>2, <1>8, <1>9, <1>10

-----------------------------------------------------------------------------
(* Whether any species stay *)
\* Of finitely many numbers one is the greatest.
LEMMA TopAverage ==
  ASSUME NEW S, IsFiniteSet(S), S # {}, NEW average, \A s \in S : average[s] \in Nat
  PROVE  \E s \in S : \A t \in S : average[t] <= average[s]
<1> DEFINE f == [s \in S |-> average[s]]
           T == {average[s] : s \in S}
<1>1. f \in Surjection(S, T)
  BY DEF Surjection
<1>2. T \in SUBSET Nat /\ T # {}
  OBVIOUS
<1>3. IsFiniteSet(T)
  <2> HIDE DEF f, T
  <2> QED
    BY <1>1, FS_Surjection
<1>4. PICK n \in T : \A m \in T : n >= m
  <2> HIDE DEF T
  <2> QED
    BY <1>2, <1>3, GreatestExists
<1>5. PICK s \in S : average[s] = n
  BY <1>4
<1>6. ASSUME NEW t \in S PROVE average[t] <= average[s]
  <2>1. n >= average[t] /\ n \in Nat /\ average[t] \in Nat
    BY <1>2, <1>4
  <2> QED
    BY <1>5, <2>1
<1> QED
  BY <1>6

\* The species with the greatest average is not weak: it has at least its part of
\* the sum, and more than that whenever its share may fall short of the floor.
LEMMA SomeStrong ==
  ASSUME NEW S, IsFiniteSet(S), S # {}, Cardinality(S) <= Population,
         NEW average, \A s \in S : average[s] \in Nat \ {0},
         Cardinality(S) = Population => \A s, t \in S : s # t => average[s] # average[t],
         NEW share \in Shares(average, S)
  PROVE  \E s \in S : share[s] >= 1
<1> DEFINE n == Cardinality(S)
           sum == SumOver(average, S)
<1>1. n \in Nat \ {0} /\ Population \in Nat /\ n <= Population
  BY FS_CardinalityType, FS_EmptySet, EvolutionAssumption
<1>2. PICK top \in S : \A t \in S : average[t] <= average[top]
  BY TopAverage
<1> DEFINE a == average[top]
           exact == a * Population
<1>3. a \in Nat \ {0} /\ \A s \in S : average[s] \in Int /\ average[s] <= a
  BY <1>2
<1>4. /\ sum \in Nat \ {0}
      /\ share[top] = exact \div sum
           \/ (a # sum /\ exact % sum = 0 /\ share[top] = exact \div sum - 1)
  <2>1. sum = MapThenSumSet(LAMBDA x : average[x], S)
    BY DEF SumOver
  <2>2. sum \in Nat \ {0}
    BY ShareIsFair
  <2>3. \/ share[top] = exact \div sum
        \/ (a # sum /\ exact % sum = 0) /\ share[top] = exact \div sum - 1
    BY <2>1 DEF Shares
  <2> QED
    BY <2>2, <2>3
<1>5. sum <= a * n /\ ((\E s \in S : average[s] < a) => sum < a * n)
  <2> HIDE DEF a
  <2>1. a \in Int
    BY <1>3
  <2> QED
    BY <1>3, <2>1, SumAtMost
<1>6. a # sum => n # 1
  <2>1. ASSUME n = 1 PROVE a = sum
    <3>1. PICK x : S = {x}
      BY <2>1, FS_Singleton
    <3>2. \A s \in S : average[s] = a
      BY <3>1
    <3>3. a \in Int
      BY <1>3
    <3> HIDE DEF a
    <3>4. sum = a * n
      BY <3>2, <3>3, SumConstant
    <3> QED
      BY <2>1, <3>3, <3>4
  <2> QED
    BY <2>1
<1>7. a # sum /\ n = Population => sum < a * n
  <2> SUFFICES ASSUME a # sum, n = Population PROVE \E s \in S : average[s] < a
    BY <1>5
  <2>1. PICK t \in S : t # top
    <3>1. ASSUME \A t \in S : t = top PROVE FALSE
      <4>1. S = {top}
        BY <3>1
      <4>2. n = 1
        BY <4>1, FS_Singleton
      <4> QED
        BY <1>6, <4>2
    <3> QED
      BY <3>1
  <2>2. average[t] # a
    BY <2>1
  <2>3. average[t] <= a /\ average[t] \in Int /\ a \in Int
    BY <1>3
  <2> QED
    BY <2>2, <2>3
<1> HIDE DEF n, a, sum
<1>8. sum <= exact /\ (a # sum => sum < exact)
  <2>1. \A x \in Nat \ {0}, i, j \in Nat : i <= j => x * i <= x * j
    OBVIOUS
  <2>2. \A x \in Nat \ {0}, i, j \in Nat : i < j => x * i < x * j
    OBVIOUS
  <2>3. a * n <= exact /\ (n < Population => a * n < exact) /\ (n = Population => exact = a * n)
    BY <1>1, <1>3, <2>1, <2>2
  <2>4. a * n \in Nat /\ exact \in Nat
    BY <1>1, <1>3
  <2> HIDE DEF exact
  <2>5. n < Population \/ n = Population
    BY <1>1
  <2>6. sum \in Nat
    BY <1>4
  <2> QED
    BY <1>5, <1>7, <2>3, <2>4, <2>5, <2>6
<1>9. exact \in Nat
  BY <1>1, <1>3
<1> HIDE DEF exact
<1>10. \A m \in Nat, k \in Nat \ {0} : k <= m => m \div k >= 1
  OBVIOUS
<1>11. \A m \in Nat, k \in Nat \ {0} : k < m /\ m % k = 0 => m \div k >= 2
  <2> TAKE m \in Nat, k \in Nat \ {0}
  <2> HAVE k < m /\ m % k = 0
  <2>1. m = k * (m \div k) /\ m \div k \in Nat
    OBVIOUS
  <2>2. m \div k # 0 /\ m \div k # 1
    BY <2>1
  <2> QED
    BY <2>1, <2>2
<1>12. CASE share[top] = exact \div sum
  BY <1>4, <1>8, <1>9, <1>10, <1>12
<1>13. CASE a # sum /\ exact % sum = 0 /\ share[top] = exact \div sum - 1
  <2>1. exact \div sum >= 2 /\ exact \div sum \in Nat
    BY <1>4, <1>8, <1>9, <1>11, <1>13
  <2>2. share[top] >= 1
    BY <1>13, <2>1
  <2> QED
    BY <2>2
<1> QED
  BY <1>4, <1>12, <1>13

\* Species are no more than their genomes, and as many only if each has one.
LEMMA EachHasGenome ==
  ASSUME NEW sp, SpeciesOK(sp)
  PROVE  /\ Headcount(sp) \in Nat /\ Len(sp) <= Headcount(sp)
         /\ Len(sp) = Headcount(sp) => \A s \in DOMAIN sp : Len(sp[s].genomes) = 1
<1> DEFINE n == Len(sp)
           P == Positions(sp)
           first == [s \in 1..n |-> <<s, 1>>]
<1>1. n \in Nat /\ DOMAIN sp = 1..n /\ IsFiniteSet(1..n) /\ Cardinality(1..n) = n
  BY PoolShape, FS_Interval
<1>2. IsFiniteSet(P) /\ Cardinality(P) \in Nat
  BY PositionsFinite, FS_CardinalityType
<1>3. \A s \in 1..n : /\ DOMAIN sp[s].genomes = 1..Len(sp[s].genomes)
                      /\ Len(sp[s].genomes) \in Nat \ {0}
  BY <1>1, PoolShape, SpeciesShape
<1>4. \A s \in 1..n : first[s] \in P
  <2> TAKE s \in 1..n
  <2>1. 1 \in DOMAIN sp[s].genomes
    BY <1>3
  <2> QED
    BY <1>1, <2>1, PositionsAre
<1>5. first \in Injection(1..n, P)
  BY <1>4 DEF Injection, IsInjective
<1> HIDE DEF P, first
<1>6. n <= Cardinality(P) /\ (n = Cardinality(P) => first \in Surjection(1..n, P))
  <2> DEFINE D == 1..n
  <2>1. first \in Injection(D, P) /\ Cardinality(D) = n
    BY <1>1, <1>5
  <2> HIDE DEF D, n
  <2>2. Cardinality(D) <= Cardinality(P) /\ (Cardinality(D) = Cardinality(P) => first \in Surjection(D, P))
    BY <1>2, <2>1, FS_Injection
  <2> QED
    BY <2>1, <2>2 DEF D
<1>7. ASSUME n = Cardinality(P), NEW s \in DOMAIN sp
      PROVE  Len(sp[s].genomes) = 1
  <2> DEFINE last == Len(sp[s].genomes)
  <2>1. last \in Nat \ {0} /\ last \in DOMAIN sp[s].genomes
    BY <1>1, <1>3
  <2>2. <<s, last>> \in P
    BY <2>1, PositionsAre DEF P
  <2>3. PICK r \in 1..n : first[r] = <<s, last>>
    BY <1>6, <1>7, <2>2 DEF Surjection
  <2> QED
    BY <2>3 DEF first
<1> QED
  BY <1>2, <1>6, <1>7 DEF Headcount, P

\* Halves of a single genome are that genome.
LEMMA SingleHalf ==
  ASSUME NEW s \in Species, s.genomes # <<>>, Len(s.genomes) = 1, NEW half \in Halves(s)
  PROVE  DOMAIN half.genomes = {1}
<1>1. PICK sorted \in Sorted(s) :
        half = [s EXCEPT !.genomes = SubSeq(sorted, 1, (Len(sorted) + 1) \div 2)]
  BY DEF Halves
<1>2. sorted \in Seq(Genome) /\ Len(sorted) = 1
  <2>1. \A order : Len([g \in 1..1 |-> s.genomes[order[g]]]) = 1
    BY LenProperties, SeqDef
  <2> QED
    BY <2>1, SortedAre, SpeciesShape DEF Sorted
<1>3. half.genomes = SubSeq(sorted, 1, 1)
  BY <1>1, <1>2 DEF Species
<1>4. half \in Species /\ half.genomes # <<>>
  BY CulledAre
<1>5. Len(half.genomes) = 1
  BY <1>2, <1>3, SubSeqProperties
<1>6. DOMAIN half.genomes = 1..1
  BY <1>4, <1>5, SpeciesShape
<1> QED
  BY <1>6

\* Two species of one genome each have different averages, for their ranks differ.
LEMMA SinglesDiffer ==
  ASSUME NEW sp, SpeciesOK(sp), NEW rank \in Rankings(sp),
         NEW s \in DOMAIN sp, NEW t \in DOMAIN sp, s # t,
         DOMAIN sp[s].genomes = {1}, DOMAIN sp[t].genomes = {1}
  PROVE  Averages(sp, rank)[s] # Averages(sp, rank)[t]
<1>1. ASSUME NEW r \in {s, t}
      PROVE  /\ Averages(sp, rank)[r] = rank[<<r, 1>>] * Sizes(sp)
             /\ rank[<<r, 1>>] \in Nat \ {0} /\ <<r, 1>> \in Positions(sp)
  <2>1. r \in DOMAIN sp /\ DOMAIN sp[r].genomes = {1}
    OBVIOUS
  <2>2. Averages(sp, rank)[r] = RankSum(sp, rank, r) * (Sizes(sp) \div Len(sp[r].genomes))
    BY <2>1 DEF Averages, RankSum, Sizes
  <2>3. RankSum(sp, rank, r) = rank[<<r, 1>>] /\ RankSum(sp, rank, r) \in Nat \ {0}
    BY <2>1, RankSumPositive
  <2>4. Len(sp[r].genomes) = 1
    <3>1. DOMAIN sp[r].genomes = 1..Len(sp[r].genomes) /\ Len(sp[r].genomes) \in Nat \ {0}
      BY <2>1, PoolShape, SpeciesShape
    <3>2. Len(sp[r].genomes) \in 1..Len(sp[r].genomes)
      BY <3>1
    <3> QED
      BY <2>1, <3>1, <3>2
  <2>5. Sizes(sp) \div 1 = Sizes(sp)
    BY SizesCover
  <2>6. <<r, 1>> \in Positions(sp)
    BY <2>1, PositionsAre
  <2> QED
    BY <2>2, <2>3, <2>4, <2>5, <2>6
<1>2. rank[<<s, 1>>] # rank[<<t, 1>>]
  <2>1. <<s, 1>> # <<t, 1>>
    OBVIOUS
  <2> QED
    BY <1>1, <2>1 DEF Rankings
<1>3. \A i, j, k \in Nat \ {0} : i # j => i * k # j * k
  OBVIOUS
<1> QED
  BY <1>1, <1>2, <1>3, SizesCover

\* A species that endures is not among the stale ones, whichever of its best
\* genomes is first.
LEMMA EnduringLasts ==
  ASSUME NEW s \in Species, s.genomes # <<>>, maxFitness \in Nat, Endures(s), NEW half \in Halves(s)
  PROVE  Lasting(Aged(half))
<1> DEFINE best == half.genomes[1].fitness
<1>1. half \in Species /\ half.genomes # <<>> /\ best = BestFitness(s)
  BY CulledAre, CulledBest
<1>2. half.topFitness = s.topFitness /\ half.staleness = s.staleness
  BY DEF Halves, Species
<1>3. best \in Nat /\ s.topFitness \in Nat /\ s.staleness \in Nat /\ StaleSpecies \in Nat
  <2>1. half.genomes[1] \in Genome
    BY <1>1, SpeciesShape
  <2> QED
    BY <2>1, SpeciesShape, EvolutionAssumption DEF Genome
<1>4. /\ Aged(half).topFitness = IF best > s.topFitness THEN best ELSE s.topFitness
      /\ Aged(half).staleness = IF best > s.topFitness THEN 0 ELSE s.staleness + 1
  BY <1>1, <1>2 DEF Aged, Species
<1>5. \/ best >= maxFitness \/ s.topFitness >= maxFitness
      \/ (IF best > s.topFitness THEN 0 ELSE s.staleness + 1) < StaleSpecies
  BY <1>1 DEF Endures
<1> HIDE DEF best
<1> QED
  BY <1>3, <1>4, <1>5 DEF Lasting

\* The species that last have averages that leave one of them strong.
LEMMA LastingFit ==
  ASSUME HInv, stage = "played",
         NEW halves, NEW at, NEW rank, NEW share, NEW by, NEW breed,
         Selects(halves, at, rank, share, by, breed),
         NEW lasting, lasting = Outlasting(halves, at)
  PROVE  /\ Len(lasting) <= Population
         /\ Len(lasting) = Population =>
              \A s, t \in DOMAIN lasting :
                s # t => Averages(lasting, rank)[s] # Averages(lasting, rank)[t]
<1> DEFINE last == {s \in DOMAIN Aging(halves) : Lasting(Aging(halves)[s])}
<1>1. TypeOK /\ SpeciesOK(species) /\ Headcount(species) = Population
  BY TypeOKMeans DEF HInv, GInv, HeadsInStage
<1>2. /\ SpeciesOK(lasting)
      /\ \A i \in DOMAIN lasting : \E s \in DOMAIN species : \E half \in Halves(species[s]) :
           lasting[i] = Aged(half)
  BY <1>1, LastingAre
<1>3. /\ DOMAIN species = 1..Len(species) /\ Len(species) \in Nat
      /\ DOMAIN lasting = 1..Len(lasting) /\ Len(lasting) \in Nat
  BY <1>1, <1>2, PoolShape
<1>4. Len(lasting) <= Len(species)
  <2>1. at \in Packings(last) /\ DOMAIN lasting = DOMAIN at /\ DOMAIN Aging(halves) = DOMAIN species
    BY DEF Selects, Outlasting, Aging
  <2>2. last \in SUBSET (1..Len(species))
    BY <1>3, <2>1
  <2> HIDE DEF last
  <2>3. IsFiniteSet(last) /\ Cardinality(last) \in Nat /\ DOMAIN at = 1..Cardinality(last)
    BY <1>3, <2>1, <2>2, PackingsNumber DEF Packings
  <2>4. Len(lasting) = Cardinality(last)
    <3>1. \A a, b \in Nat : 1..a = 1..b => a = b
      OBVIOUS
    <3> QED
      BY <1>3, <2>1, <2>3, <3>1
  <2>5. IsFiniteSet(1..Len(species)) /\ Cardinality(1..Len(species)) = Len(species)
    <3>1. PICK n \in Nat : n = Len(species)
      BY <1>3
    <3>2. IsFiniteSet(1..n) /\ Cardinality(1..n) = n
      BY FS_Interval
    <3> QED
      BY <3>1, <3>2
  <2>6. Cardinality(last) <= Cardinality(1..Len(species))
    BY <2>2, <2>5, FS_Subset
  <2> QED
    BY <2>4, <2>5, <2>6
<1>5. Len(species) <= Population /\ Population \in Nat
  BY <1>1, EachHasGenome, EvolutionAssumption
<1>6. ASSUME Len(lasting) = Population, NEW i \in DOMAIN lasting
      PROVE  DOMAIN lasting[i].genomes = {1}
  <2>1. \A s \in DOMAIN species : Len(species[s].genomes) = 1
    BY <1>1, <1>3, <1>4, <1>5, <1>6, EachHasGenome
  <2>2. PICK s \in DOMAIN species : \E half \in Halves(species[s]) : lasting[i] = Aged(half)
    BY <1>2, <1>6
  <2>3. PICK half \in Halves(species[s]) : lasting[i] = Aged(half)
    BY <2>2
  <2>4. species[s] \in Species /\ species[s].genomes # <<>>
    BY <1>1, PoolShape
  <2>5. DOMAIN half.genomes = {1} /\ half \in Species /\ half.genomes # <<>>
    BY <2>1, <2>4, SingleHalf, CulledAre
  <2> QED
    BY <2>3, <2>5, AgedAre
<1>7. rank \in Rankings(lasting)
  BY DEF Selects
<1>8. ASSUME Len(lasting) = Population, NEW s \in DOMAIN lasting, NEW t \in DOMAIN lasting, s # t
      PROVE  Averages(lasting, rank)[s] # Averages(lasting, rank)[t]
  BY <1>2, <1>6, <1>7, <1>8, SinglesDiffer
<1>9. Len(lasting) <= Population
  BY <1>3, <1>4, <1>5
<1> QED
  BY <1>8, <1>9

\* Where a species endures, one lasts, and of those that last one is strong.
LEMMA SelectSpares ==
  ASSUME HInv, Select, NEW r \in DOMAIN species, Endures(species[r])
  PROVE  species' # <<>>
<1>1. PICK halves, at, rank, share, by, breed : Selects(halves, at, rank, share, by, breed)
  BY SelectPicks
<1> DEFINE lasting == Outlasting(halves, at)
           average == Averages(lasting, rank)
           strong == {s \in DOMAIN lasting : share[s] >= 1}
           last == {s \in DOMAIN Aging(halves) : Lasting(Aging(halves)[s])}
<1>2. TypeOK /\ SpeciesOK(species) /\ maxFitness \in Nat /\ stage = "played"
  BY TypeOKMeans DEF HInv, GInv, TypeOK, Select
<1>3. /\ at \in Packings(last) /\ DOMAIN halves = DOMAIN species /\ DOMAIN lasting = DOMAIN at
      /\ \A s \in DOMAIN species : halves[s] \in Halves(species[s])
      /\ rank \in Rankings(lasting) /\ share \in Shares(average, DOMAIN lasting)
      /\ by \in Packings(strong) /\ species' = [i \in DOMAIN by |-> lasting[by[i]]]
  BY <1>1 DEF Selects, Outlasting
<1>4. r \in last
  <2>1. species[r] \in Species /\ species[r].genomes # <<>>
    BY <1>2, PoolShape
  <2>2. Lasting(Aged(halves[r]))
    BY <1>2, <1>3, <2>1, EnduringLasts
  <2> QED
    BY <1>3, <2>2 DEF Aging
<1>5. SpeciesOK(lasting) /\ DOMAIN lasting = 1..Len(lasting) /\ Len(lasting) \in Nat
  BY <1>1, <1>2, LastingAre, PoolShape
<1>6. DOMAIN lasting # {}
  <2>1. last \in SUBSET (1..Len(species)) /\ Len(species) \in Nat
    BY <1>2, <1>3, PoolShape DEF Aging
  <2> HIDE DEF last, lasting
  <2>2. at \in Bijection(1..Cardinality(last), last)
    BY <1>3, <2>1, PackingsNumber
  <2>3. PICK i \in 1..Cardinality(last) : at[i] = r
    BY <1>4, <2>2 DEF Bijection, Surjection
  <2> QED
    BY <1>3, <2>2, <2>3 DEF Bijection, Injection
<1>7. \E s \in DOMAIN lasting : share[s] >= 1
  <2>1. IsFiniteSet(DOMAIN lasting) /\ Cardinality(DOMAIN lasting) = Len(lasting)
    BY <1>5, FS_Interval
  <2>2. /\ Len(lasting) <= Population
        /\ Len(lasting) = Population =>
             \A s, t \in DOMAIN lasting : s # t => average[s] # average[t]
    BY <1>1, <1>2, LastingFit
  <2>3. \A s \in DOMAIN lasting : average[s] \in Nat \ {0}
    BY <1>3, <1>5, AveragesPositive
  <2> HIDE DEF lasting, average
  <2>4. share \in Shares(average, DOMAIN lasting)
    BY <1>3
  <2> DEFINE D == DOMAIN lasting
  <2>5. /\ IsFiniteSet(D) /\ D # {} /\ Cardinality(D) <= Population
        /\ \A s \in D : average[s] \in Nat \ {0}
        /\ Cardinality(D) = Population => \A s, t \in D : s # t => average[s] # average[t]
        /\ share \in Shares(average, D)
    BY <1>6, <2>1, <2>2, <2>3, <2>4
  <2> HIDE DEF D
  <2>6. \E s \in D : share[s] >= 1
    BY <2>5, SomeStrong
  <2> QED
    BY <2>6 DEF D
<1>8. DOMAIN species' # {}
  <2>1. strong \in SUBSET (1..Len(lasting)) /\ strong # {}
    BY <1>5, <1>7
  <2> HIDE DEF strong, lasting
  <2>2. IsFiniteSet(strong) /\ by \in Bijection(1..Cardinality(strong), strong)
    BY <1>3, <1>5, <2>1, PackingsNumber
  <2>3. PICK s \in strong : TRUE
    BY <2>1
  <2>4. PICK i \in 1..Cardinality(strong) : by[i] = s
    BY <2>2, <2>3 DEF Bijection, Surjection
  <2>5. i \in DOMAIN by
    BY <2>2, <2>4 DEF Bijection, Injection
  <2> QED
    BY <1>3, <2>5
<1> QED
  BY <1>8

-----------------------------------------------------------------------------
(* The results *)
\* The invariant holds in every state: each step of breeding is covered above.
THEOREM EvolutionInvariant == Spec => []GInv
<1>1. ASSUME GInv, [Next]_vars
      PROVE  GInv'
  <2>1. CASE Next
    BY <1>1, <2>1, FoundKeeps, MutateKeeps, ReadyKeeps, ScoringKeeps, SelectionKeeps,
       BreedKeeps, PlaceKeeps, StutterKeeps DEF Next, Over
  <2>2. CASE UNCHANGED vars
    BY <1>1, <2>2, StutterKeeps
  <2> QED
    BY <1>1, <2>1, <2>2
<1> QED
  BY EvolutionInit, <1>1, PTL DEF Spec

\* The variables have their types in every state.
THEOREM EvolutionTypeCorrect == Spec => []TypeOK
<1>1. GInv => TypeOK
  BY DEF GInv
<1> QED
  BY <1>1, EvolutionInvariant, PTL

\* Innovation numbers name links, however genomes are copied, split and crossed.
THEOREM InnovationsNameLinks == Spec => []InnovationNamesOneLink
<1>1. GInv => InnovationNamesOneLink
  BY DEF GInv, Pedigree, Agree, InnovationNamesOneLink
<1> QED
  BY <1>1, EvolutionInvariant, PTL

\* No genome ever has a link or an innovation twice.
THEOREM LinksAreSingle == Spec => []NoLinkTwice
<1>1. GInv => NoLinkTwice
  BY DEF GInv, Pedigree, Sound, NoLinkTwice
<1> QED
  BY <1>1, EvolutionInvariant, PTL

\* Hidden neurons are numbered up to maxneuron in every genome.
THEOREM NeuronsAreNumbered == Spec => []NeuronsNumbered
<1>1. GInv => NeuronsNumbered
  BY EvolutionAssumption DEF GInv, Pedigree, Sound, NeuronsNumbered
<1> QED
  BY <1>1, EvolutionInvariant, PTL

\* Members of a species that is played have genes in common with its first.
THEOREM SpeciesShareGenes == Spec => []MembersShareGenes
<1>1. GInv => MembersShareGenes
  BY DEF GInv, SpeciesInStage, Sharing, MembersShareGenes
<1> QED
  BY <1>1, EvolutionInvariant, PTL

\* The brood fits the room there is for it in every state.
THEOREM EvolutionHeads == Spec => []HInv
<1>1. Init => HInv
  BY EvolutionInit, HeadsInit DEF HInv
<1>2. ASSUME HInv, [Next]_vars
      PROVE  HInv'
  <2>1. GInv
    BY <1>2 DEF HInv
  <2>2. CASE UNCHANGED vars
    <3>1. UNCHANGED <<species, stage, owed, children, child>>
      BY <2>2 DEF vars, pool
    <3>2. HeadsInStage'
      BY <1>2, <3>1 DEF HInv, HeadsInStage, Headcount, Positions, Pending, Due
    <3> QED
      BY <2>1, <2>2, <3>2, StutterKeeps DEF HInv
  <2>3. CASE Next /\ ~UNCHANGED vars
    <3>1. GInv'
      BY <2>1, <2>3, FoundKeeps, MutateKeeps, ReadyKeeps, ScoringKeeps, SelectionKeeps,
         BreedKeeps, PlaceKeeps DEF Next, Over
    <3>2. HeadsInStage'
      BY <1>2, <2>3, MakingKeepsHeads, ReadyKeepsHeads, ScoringKeepsHeads, SelectionKeepsHeads,
         BreedKeepsHeads, PlaceKeepsHeads DEF Next, Over
    <3> QED
      BY <3>1, <3>2 DEF HInv
  <2> QED
    BY <1>2, <2>2, <2>3
<1> QED
  BY <1>1, <1>2, PTL DEF Spec

\* Every generation has Population genomes, whatever the averages were rounded to.
THEOREM PopulationStays == Spec => []PopulationKept
<1>1. HInv => PopulationKept
  BY DEF HInv, HeadsInStage, PopulationKept
<1> QED
  BY <1>1, EvolutionHeads, PTL

\* The best of a species stay its first while the next generation is bred.
THEOREM EvolutionBest == Spec => []BInv
<1>1. Init => BInv
  BY EvolutionInit, HeadsInit DEF Init, HInv, BInv, BestInStage
<1>2. ASSUME BInv, HInv', [Next]_vars
      PROVE  BInv'
  <2>1. CASE UNCHANGED vars
    BY <1>2, <2>1 DEF vars, pool, BInv, BestInStage, Leads
  <2>2. CASE Play \/ NextGeneration
    BY <1>2, <2>2 DEF Play, NextGeneration, BInv, BestInStage
  <2>3. CASE Next /\ ~UNCHANGED vars /\ ~(Play \/ NextGeneration)
    BY <1>2, <2>3, MakingKeepsBest, SelectionKeepsBest, PlacementLeads DEF Next, Over, BInv
  <2> QED
    BY <1>2, <2>1, <2>2, <2>3
<1> QED
  BY <1>1, <1>2, EvolutionHeads, PTL DEF Spec

\* A step of newGeneration after which a species stays leaves it a first genome
\* that scored best in a species of the pool before the step.
LEMMA StepKeepsBest ==
  ASSUME BInv, [Next]_vars, stage' # "play", stage \in Stages \ {"found", "play"},
         species' # species, NEW s \in DOMAIN species', s <= Len(owed')
  PROVE  KeepsBest(species'[s])
<1>1. TypeOK /\ SpeciesOK(species)
  BY TypeOKMeans DEF BInv, HInv, GInv
<1>2. \A r \in DOMAIN species : species[r] \in Species /\ species[r].genomes # <<>>
  BY <1>1, PoolShape
<1>3. Select \/ CullToOne \/ PlaceChild
  BY DEF Next, Mutate, Found, LinkMutate, NodeMutate, EnableDisableMutate, Mutates, Ready,
         Play, Breed, Fill, Place, NextGeneration, Over, vars, pool
<1>4. CASE Select
  <2>1. PICK halves, at, rank, share, by, breed : Selects(halves, at, rank, share, by, breed)
    BY <1>4, SelectPicks
  <2> DEFINE lasting == Outlasting(halves, at)
             strong == {r \in DOMAIN lasting : share[r] >= 1}
  <2>2. by \in Packings(strong) /\ species' = [i \in DOMAIN by |-> lasting[by[i]]]
    BY <2>1 DEF Selects
  <2>3. species'[s] = lasting[by[s]] /\ by[s] \in DOMAIN lasting
    BY <2>2 DEF Packings
  <2> HIDE DEF lasting
  <2>4. PICK r \in DOMAIN species : \E half \in Halves(species[r]) : species'[s] = Aged(half)
    BY <1>1, <2>1, <2>3, LastingAre DEF lasting
  <2>5. PICK half \in Halves(species[r]) : species'[s] = Aged(half)
    BY <2>4
  <2>6. /\ half \in Species /\ half.genomes # <<>>
        /\ half.genomes[1] \in GenomesOf(species[r])
        /\ half.genomes[1].fitness = BestFitness(species[r])
    BY <1>2, CulledAre, CulledBest
  <2>7. species'[s].genomes = half.genomes
    BY <2>5, <2>6, AgedAre
  <2> QED
    BY <2>6, <2>7 DEF KeepsBest
<1>5. CASE CullToOne
  <2>1. s \in DOMAIN species /\ species'[s] \in Bests(species[s])
    BY <1>5 DEF CullToOne
  <2> QED
    BY <1>2, <2>1, CulledBest DEF KeepsBest
<1>6. CASE PlaceChild
  <2>1. /\ s \in DOMAIN species /\ Leads(species[s])
        /\ species'[s].genomes[1] = species[s].genomes[1]
    BY <1>6, PlacementLeads
  <2>2. species[s].genomes[1] \in GenomesOf(species[s])
    BY <1>2, <2>1, SpeciesShape DEF GenomesOf
  <2> QED
    BY <1>2, <2>1, <2>2, BestIs DEF KeepsBest, Leads
<1> QED
  BY <1>3, <1>4, <1>5, <1>6

\* A species that stays while a generation is bred goes on with one of the best
\* genomes that scored for it, as its first.
THEOREM BestStays == Spec => BestGenomeStays
<1>1. ASSUME BInv, [Next]_vars
      PROVE  [stage' # "play" /\ stage \in Stages \ {"found", "play"} =>
                \A s \in DOMAIN species' : s <= Len(owed') => KeepsBest(species'[s])]_species
  BY <1>1, StepKeepsBest
<1> QED
  BY <1>1, EvolutionBest, PTL DEF Spec, BestGenomeStays

\* A pool in which a species holds the record, or is not stale, has species left
\* after selection: weakness alone ends no pool.
THEOREM PoolSurvives == Spec => SomeStay
<1>1. ASSUME HInv, [Next]_vars
      PROVE  [stage = "played" /\ stage' = "breed" /\ (\E s \in DOMAIN species : Endures(species[s]))
                => species' # <<>>]_vars
  <2> SUFFICES ASSUME stage = "played", stage' = "breed",
                      NEW s \in DOMAIN species, Endures(species[s])
               PROVE  species' # <<>>
    OBVIOUS
  <2>1. Select
    BY <1>1 DEF Next, Mutate, Found, LinkMutate, NodeMutate, EnableDisableMutate, Mutates, Ready,
       Play, Breed, CullToOne, Fill, Place, PlaceChild, NextGeneration, Over, vars
  <2> QED
    BY <1>1, <2>1, SelectSpares
<1> QED
  BY <1>1, EvolutionHeads, PTL DEF Spec, SomeStay
=============================================================================
