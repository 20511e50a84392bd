------------------------------ MODULE Training ------------------------------
(***************************************************************************)
(* Distributed training: the server of TrainingServer and the emulators of *)
(* Emulator, which meet only through the messages in flight.               *)
(***************************************************************************)
EXTENDS TrainingServer, Emulator, FiniteSetsExt

ASSUME ClientAssumption == ClientOf \in [Emulators -> Clients]

vars == <<serverVars, emulatorVars>>

Init == ServerInit /\ EmulatorInit

serverUp == phase \notin {"down", "finished"}

\* The server takes one request off its socket and answers it; the answer to a
\* process that is gone is dropped.
Serve ==
  /\ \E q \in requests :
       /\ Receive(q.body)
       /\ requests' = requests \ {q}
       /\ replies' = replies \cup
            {r \in {[to |-> q.from, job |-> j] : j \in Answers(q.body)} :
               \E e \in Emulators : r.to = Identity(e)}
  /\ UNCHANGED <<state, socket, work, played, outdated, kills>>

\* The messages in flight when the server dies may be lost or not: those the
\* emulator's side still holds are sent again to the next server process.
ServerCrash ==
  /\ Crash
  /\ requests' \in SUBSET requests
  /\ replies' \in SUBSET replies
  /\ UNCHANGED <<state, socket, work, played, outdated, kills>>

Server == ServerStep /\ UNCHANGED emulatorVars

EmulatorTurn(e) == EmulatorStep(e, serverUp) /\ UNCHANGED serverVars

KillEmulator(e) == Kill(e) /\ UNCHANGED serverVars

\* The experiment is over; nothing is left for the server to do.
Over == phase = "finished" /\ UNCHANGED vars

Next ==
  \/ Server
  \/ Serve
  \/ ServerCrash
  \/ \E e \in Emulators : EmulatorTurn(e) \/ KillEmulator(e)
  \/ Over

\* The server's loop and the emulators' go on by themselves; the socket hands
\* the server some request whenever there is one; where killPeriodically.sh
\* runs, it kills every process sooner or later, the hung ones included.
Fairness ==
  /\ WF_vars(Server)
  /\ WF_vars(Serve)
  /\ \A e \in Emulators : WF_vars(EmulatorTurn(e))
  /\ \A e \in Emulators : WF_vars(Hung(e) /\ KillEmulator(e))

SafetySpec == Init /\ [][Next]_vars

Spec == SafetySpec /\ Fairness

-----------------------------------------------------------------------------
\* Every job an emulator has been given, wherever it is: being played, on its
\* way out in a reply, or on its way back in a result.
WorkInFlight ==
  {work[e] : e \in {e \in Emulators : state[e] = "playing"}}
    \cup {r.job : r \in replies}
    \cup {q.body.work : q \in {q \in requests : q.body.kind = "result"}}

LayoutOf(pedigree) ==
  IF pedigree = <<>> THEN FirstLayout ELSE pedigree[Len(pedigree)].layout

\* The network an emulator plays is that of the genome the job names, in the
\* generation the job names: the cache of serialized networks, the job prepared
\* ahead of the request and the change of generation never mix two pools.
NetworkMatchesAddress ==
  \A w \in WorkInFlight :
    /\ w.generation = Len(w.network.lineage)
    /\ w.genome = w.network.genome
    /\ w.genome \in Members(LayoutOf(w.network.lineage))

\* A genome's fitness counts only plays of its own network ("Only use fresh
\* results from new clients", zmqserver.lua:1574).
OwnPlays ==
  \A g \in Genomes, l \in Levels : \A i \in DOMAIN fitness[g][l] :
    fitness[g][l][i] = [lineage |-> lineage, genome |-> g]

\* The clients' level counts add up to the levels scored since the experiment
\* began: each is credited to the first client to return it ("This only
\* increments when a client is the *first* to return a level's result").
CreditConserved ==
  MapThenSumSet(LAMBDA c : levelsPlayed[c], Clients)
    = generation * Population * Cardinality(Levels)
        + MapThenSumSet(LAMBDA g : Cardinality(done[g]), Members(layout))

\* No emulator waits for a reply that nobody will send, as long as the server
\* is up and has never died: whether its result was used or stale, whoever else
\* played the same job, and whichever other process was killed.
EveryRequestIsAnswered ==
  \A e \in Emulators :
    Hung(e) => crashes > 0 \/ outdated[e] \/ phase = "finished"

\* The experiment reaches its stopping condition.
Finishes == <>(phase = "finished")

\* Refinement: without crashes, the system evaluates one pool after the other.
\* A level is scored when its genome's fitness holds exactly one play of it,
\* by its own network.
Evaluated ==
  {p \in (1..Population) \X Levels :
     LET g == layout[p[1]]
     IN  fitness[g][p[2]] = <<[lineage |-> lineage, genome |-> g]>>}

Eval == INSTANCE Evaluation WITH Rounds <- StopGeneration,
                                 round <- generation, scored <- Evaluated

\* Every step of training is a step of Evaluation or leaves it alone: no level
\* is scored twice or by another network, and the next pool is bred when, and
\* only when, the last genome is complete.
EvaluatesInOrder == Eval!Init /\ [][Eval!Next]_(Eval!vars)

\* Training implements Evaluation, its liveness included: pools keep being
\* evaluated until the experiment is over.
EvaluatesPools == Eval!Spec

\* The backup the server would start again from is the current pool or one of
\* its ancestors: a restart loses generations, never mixes histories.
BackupIsAncestor ==
  saved # NoBackup =>
    /\ Len(saved.lineage) <= Len(lineage)
    /\ saved.lineage = SubSeq(lineage, 1, Len(saved.lineage))
    /\ saved.generation = Len(saved.lineage)
    /\ saved.layout = LayoutOf(saved.lineage)

\* An emulator that runs the code of another experiment is told to exit: it does
\* not wait for ever while the server is there ("Kill ourselves if the server
\* says so", zmqclient.lua:544; "stop him in his tracks", zmqserver.lua:1642).
DieOrderArrives ==
  \A e \in Emulators : Hung(e) /\ outdated[e] => phase = "finished"
=============================================================================
