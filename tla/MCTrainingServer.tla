-------------------------- MODULE MCTrainingServer --------------------------
(***************************************************************************)
(* TLC instance of the server alone: results for any address, generation   *)
(* and set of levels arrive at any time, and requests.                     *)
(***************************************************************************)
EXTENDS TrainingServer

MCFirstLayout == [i \in 1..Population |-> <<1, i>>]
MCOtherStops == {FALSE}

\* The plays are told apart by generation only: their pool is the current one.
MCResults ==
  {[kind |-> "result", client |-> c,
    work |-> [generation |-> gen, genome |-> g, levels |-> ls,
             network |-> [lineage |-> lineage, genome |-> g]],
    current |-> v, die |-> FALSE] :
     c \in Clients, gen \in {generation, generation + 1}, g \in Genomes,
     ls \in (SUBSET Levels) \ {{}}, v \in BOOLEAN}

MCAsks == {[kind |-> "ask", client |-> c] : c \in Clients}

MCNext == ServerStep \/ Crash \/ (\E m \in MCAsks \cup MCResults : Receive(m))

\* Once the experiment is over the server process ends.
MCOver == phase = "finished" /\ UNCHANGED serverVars

MCSpec == ServerInit /\ [][MCNext \/ MCOver]_serverVars
=============================================================================
