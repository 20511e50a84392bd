\* 3 genomes of at most 3 genes with 4 innovations, fitnesses 1 and 2, 2 selections.
CONSTANTS
  Population = 3
  Inputs = 1
  Outputs = 1
  MaxNodes = 3
  StaleSpecies = 1
  DeltaDisjoint = 2
  DeltaThreshold = 1
  Fitnesses = {1, 2}
  MaxInnovation = 4
  MaxGenes = 3
  StopGeneration = 2
  NoGenome = NoGenome
SPECIFICATION MCSpec
INVARIANTS
  TypeOK
  PopulationKept
  InnovationNamesOneLink
  NoLinkTwice
  NeuronsNumbered
  MembersShareGenes
PROPERTIES
  BestGenomeStays
  SomeStay
