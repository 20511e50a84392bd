---------------------------- MODULE MCEvolution ----------------------------
(* Bounds for TLC: the first genomes mutate by links only, and only the     *)
(* children of the first generation mutate.                                *)
EXTENDS Evolution

MutatesHere ==
  \/ stage = "found" /\ turn' = Link
  \/ stage # "found" /\ generation = 0

MCNext ==
  \/ MutatesHere /\ Mutate
  \/ Found \/ Ready
  \/ Play \/ Select \/ Breed \/ CullToOne \/ Fill
  \/ Place \/ PlaceChild \/ NextGeneration
  \/ Over

MCSpec == Init /\ [][MCNext]_vars
=============================================================================
