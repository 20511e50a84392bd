----------------------------- MODULE Evaluation -----------------------------
(***************************************************************************)
(* What distributed training promises: pools of genomes are evaluated one  *)
(* after the other; each genome plays each level, and what counts is one   *)
(* play, by that very genome; the next pool is bred once every genome has  *)
(* been scored on every level, and not before.                             *)
(*                                                                         *)
(* Who plays what, how often, and what gets lost on the way is not seen    *)
(* here: that is what the detailed specification has to hide.              *)
(***************************************************************************)
EXTENDS Naturals

CONSTANTS
  Population,   \* genomes of a pool
  Levels,       \* levels each of them plays
  Rounds        \* number of the pool with which the experiment is over

VARIABLES
  round,        \* number of the pool being evaluated
  scored        \* pairs <<genome, level>> scored so far

vars == <<round, scored>>

Everything == (1..Population) \X Levels

Init == round = 0 /\ scored = {}

\* Score some levels of one genome, none of them scored before.
Score ==
  /\ round < Rounds
  /\ \E i \in 1..Population, ls \in (SUBSET Levels) \ {{}} :
       /\ scored \cap ({i} \X ls) = {}
       /\ scored' = scored \cup ({i} \X ls)
  /\ UNCHANGED round

\* Breed the next pool.
Advance ==
  /\ round < Rounds
  /\ scored = Everything
  /\ round' = round + 1
  /\ scored' = {}

Next == Score \/ Advance

Spec == Init /\ [][Next]_vars /\ WF_vars(Next)
=============================================================================
