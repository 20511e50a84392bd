----------------------------- MODULE TcpTraining -----------------------------
(***************************************************************************)
(* The server run_experiments.sh starts, lua_server/dumber_server.lua, and *)
(* the emulators that train with it over plain TCP connections,            *)
(* codebase/default_client_logic.lua.                                      *)
(*                                                                         *)
(* The server takes one connection at a time: it waits for a line without  *)
(* a time limit, scores the result the line may carry, answers with the    *)
(* next job or with an order to wait, and closes the connection.  Unlike   *)
(* zmqserver.lua it chooses the job after it has scored the result, and it *)
(* counts how often it has sent each job: too often, and the job is held   *)
(* back, while every refusal lowers the count a little.                    *)
(***************************************************************************)
EXTENDS JobQueue

CONSTANTS
  Emulators,        \* emulator slots: a process that ends is started again
  Clients,          \* values of config.clientId
  ClientOf,         \* config.clientId of each emulator
  Outdated,         \* emulators whose first process runs older code
  SendWeight,       \* what sending a job adds to its count (1; in units of 0.05, 20)
  RequestLimit,     \* MAX_SIMULTANEOUS_CLIENTS in the same unit (90)
  Decay,            \* DECAY in the same unit (1)
  FirstLayout,      \* layout of the pool initializePool makes
  StopGeneration,   \* conf.StopGeneration, 0 or less to train for ever
  OtherStops,       \* whether the other stopping conditions may hold
  MaxFailures,      \* bound: emulator processes that die, or whose host goes away
  Nobody,           \* value of answering between two connections
  Gone,             \* the other end of a connection that was closed
  Vanished,         \* the other end of one that was neither closed nor used
  NoLine,           \* nothing sent yet on a connection
  NoWork            \* value of work[e] when the emulator has none

ASSUME TcpAssumption ==
  /\ IsFiniteSet(Emulators) /\ IsFiniteSet(Clients)
  /\ ClientOf \in [Emulators -> Clients]
  /\ Outdated \subseteq Emulators
  /\ SendWeight \in Nat \ {0} /\ RequestLimit \in Nat /\ Decay \in Nat
  /\ Decay < RequestLimit
  /\ FirstLayout \in Layouts
  /\ StopGeneration \in Int
  /\ OtherStops \subseteq BOOLEAN /\ OtherStops # {}
  /\ MaxFailures \in Nat
  /\ {Nobody, Gone, Vanished} \cap Emulators = {}
  /\ Nobody # Gone /\ Nobody # Vanished /\ Gone # Vanished

VARIABLES
  finished,         \* the loop has ended
  generation,       \* pool.generation
  layout,           \* the addresses of the pool's genomes
  done,             \* completeness of each genome
  fitness,          \* plays each genome's fitness sums, for each level
  jobs, index,      \* the queue and jobs.index
  requests,         \* request_count of each job
  serializedNetworks,
  known,            \* keys of the table clients
  backlog,          \* connections made and not yet served, oldest first
  answering,        \* the peer whose line was received and not yet answered
  state,            \* "idle", "connected", "playing", or "gone" with its host
  work,             \* the job of each emulator
  outdated,         \* whether VERSION_CODE is not the server's
  failures

poolVars == <<finished, generation, layout, done, fitness, serializedNetworks, known>>
queueVars == <<jobs, index, requests>>
emulatorVars == <<state, work, outdated>>
vars == <<poolVars, queueVars, backlog, answering, emulatorVars, failures>>

\* A network is known by the genome it was generated from.
Network == [generation: Nat, genome: Genomes]

Work == [generation: Nat, genome: Genomes, levels: SUBSET Levels, network: Network]

Ask == [kind: {"ask"}, client: Clients]

Result == [kind: {"result"}, client: Clients, work: Work, current: BOOLEAN, die: BOOLEAN]

Line == Ask \cup Result

ASSUME NoLineAssumption == NoLine \notin Line

Unscored == [g \in Genomes |-> {}]
NoPlays == [g \in Genomes |-> [l \in Levels |-> <<>>]]
NotRequested == [n \in 1..Population |-> 0]

Init ==
  /\ finished = FALSE
  /\ generation = 0
  /\ layout = FirstLayout
  /\ done = Unscored /\ fitness = NoPlays
  /\ jobs = FreshJobs(FirstLayout) /\ index = 0 /\ requests = NotRequested
  /\ serializedNetworks = {}
  /\ known = {}
  /\ backlog = <<>> /\ answering = Nobody
  /\ state = [e \in Emulators |-> "idle"]
  /\ work = [e \in Emulators |-> NoWork]
  /\ outdated = [e \in Emulators |-> e \in Outdated]
  /\ failures = 0

-----------------------------------------------------------------------------
\* Emulators.

\* socket.connect: to ask for a job, or to return the result of the last one.
Connect(e) ==
  /\ state[e] \in {"idle", "playing"}
  /\ ~finished
  /\ backlog' = Append(backlog, [peer |-> e, line |-> NoLine])
  /\ state' = [state EXCEPT ![e] = "connected"]
  /\ UNCHANGED <<poolVars, queueVars, answering, work, outdated, failures>>

\* The line an emulator sends: its result if it has played, else its name.
LineOf(e, dies) ==
  IF work[e] = NoWork
  THEN [kind |-> "ask", client |-> ClientOf[e]]
  ELSE [kind |-> "result", client |-> ClientOf[e], work |-> work[e],
        current |-> ~outdated[e], die |-> dies]

\* The places in the backlog of the connections of emulator e.
PlacesOf(e) == {i \in 1..Len(backlog) : backlog[i].peer = e}

\* A slot gets a new process, which loads the current code.
Relaunch(e) ==
  /\ state' = [state EXCEPT ![e] = "idle"]
  /\ work' = [work EXCEPT ![e] = NoWork]
  /\ outdated' = [outdated EXCEPT ![e] = FALSE]

\* client:send.  A process that has run for config.killEvery seconds returns its
\* result, does not wait for an answer, and exits.
Send(e) ==
  /\ state[e] = "connected"
  /\ \E i \in PlacesOf(e) :
       /\ backlog[i].line = NoLine
       /\ \/ /\ backlog' = [backlog EXCEPT ![i].line = LineOf(e, FALSE)]
             /\ UNCHANGED emulatorVars
          \/ /\ work[e] # NoWork
             /\ backlog' = [backlog EXCEPT ![i] = [peer |-> Gone, line |-> LineOf(e, TRUE)]]
             /\ Relaunch(e)
  /\ UNCHANGED <<poolVars, queueVars, answering, failures>>

\* The other end of the connections of e becomes p.
Abandoned(e, p) ==
  [i \in 1..Len(backlog) |->
     IF backlog[i].peer = e THEN [backlog[i] EXCEPT !.peer = p] ELSE backlog[i]]

\* The process dies; the system closes its connection.
Kill(e) ==
  /\ state[e] \in {"connected", "playing"}
  /\ failures < MaxFailures
  /\ failures' = failures + 1
  /\ backlog' = Abandoned(e, Gone)
  /\ answering' = IF answering = e THEN Gone ELSE answering
  /\ Relaunch(e)
  /\ UNCHANGED <<poolVars, queueVars>>

\* The host loses power or the network: nothing is closed.
Vanish(e) ==
  /\ state[e] = "connected"
  /\ failures < MaxFailures
  /\ failures' = failures + 1
  /\ backlog' = Abandoned(e, Vanished)
  /\ answering' = IF answering = e THEN Vanished ELSE answering
  /\ state' = [state EXCEPT ![e] = "gone"]
  /\ work' = [work EXCEPT ![e] = NoWork]
  /\ UNCHANGED <<poolVars, queueVars, outdated>>

-----------------------------------------------------------------------------
\* The server: one connection.

\* resultSet - playedGenome.completeness
ValidResultSet(r) == r.work.levels \ done[r.work.genome]

\* Not the code: the generation of the result is not looked at.
IsFresh_AnyGeneration(r) ==
  /\ r.current
  /\ r.work.genome \in Members(layout)
  /\ ValidResultSet(r) # {}

\* The test before a result is scored.
IsFresh(r) ==
  /\ r.work.generation = generation
  /\ r.current
  /\ r.work.genome \in Members(layout)
  /\ done[r.work.genome] # Levels
  /\ ValidResultSet(r) # {}

\* A fresh result: its levels count from now on, and a genome that has them all
\* gives up its place in the cache (removeSerializedNetwork).
ScoreResult(r) ==
  /\ done' = [done EXCEPT ![r.work.genome] = @ \cup ValidResultSet(r)]
  /\ fitness' = [fitness EXCEPT ![r.work.genome] =
       [l \in Levels |-> IF l \in ValidResultSet(r)
                         THEN Append(@[l], r.work.network) ELSE @[l]]]
  /\ serializedNetworks' =
       IF done'[r.work.genome] = Levels
       THEN {n \in serializedNetworks : n.address # r.work.genome}
       ELSE serializedNetworks

\* No job goes back: "die" to an emulator with older code, whose script then
\* fails on it and ends; nothing to one that is about to exit.
Dismissed(m) == m.kind = "result" /\ (~m.current \/ m.die)

\* client:receive has a line: the result it may carry is scored, and the peer is
\* the one to answer.
ReceiveLine ==
  /\ ~finished /\ answering = Nobody
  /\ backlog # <<>>
  /\ Head(backlog).line # NoLine
  /\ backlog' = Tail(backlog)
  /\ LET m == Head(backlog).line
         p == Head(backlog).peer
     IN  /\ IF m.kind = "result" /\ IsFresh(m)
            THEN ScoreResult(m) ELSE UNCHANGED <<done, fitness, serializedNetworks>>
         /\ known' = IF m.kind = "result" THEN known \cup {m.client} ELSE known
         /\ answering' = IF Dismissed(m) THEN Nobody ELSE p
         /\ IF Dismissed(m) /\ p \in Emulators THEN Relaunch(p) ELSE UNCHANGED emulatorVars
  /\ UNCHANGED <<finished, generation, layout, queueVars, failures>>

\* client:receive fails: the peer closed the connection without a line.
ReceiveFails ==
  /\ ~finished /\ answering = Nobody
  /\ backlog # <<>>
  /\ Head(backlog) = [peer |-> Gone, line |-> NoLine]
  /\ backlog' = Tail(backlog)
  /\ UNCHANGED <<poolVars, queueVars, answering, emulatorVars, failures>>

\* Not the code: looked up by the species alone.
SerializedNetwork_OfSpecies(cache, g, n) ==
  IF \E c \in cache : c.address[1] = g[1]
  THEN (CHOOSE c \in cache : c.address[1] = g[1]).network
  ELSE [generation |-> n, genome |-> g]

\* getSerializedNetwork: the network cached for address g, or that of the
\* genome at g in the pool.
SerializedNetwork(cache, g, n) ==
  IF \E c \in cache : c.address = g
  THEN (CHOOSE c \in cache : c.address = g).network
  ELSE [generation |-> n, genome |-> g]

\* maybeExplodeJobIndex: only a job with every level is split.
SplitsOf(q, n, active, open) ==
  LET factor == SplitFactor(active, open)
  IN  IF factor > 1 /\ q[n].levels = Levels
      THEN Partitions(q[n].levels, factor) ELSE {<<q[n].levels>>}

\* Not the code: the parts of a split job are not counted.
CountsAfterSplit_Kept(counts, n, k) == counts

\* request_count of the jobs once job n is split into k: a part starts at 0.
CountsAfterSplit(counts, n, k) ==
  IF k = 1 THEN counts
  ELSE SubSeq(counts, 1, n - 1) \o [i \in 1..k |-> 0] \o SubSeq(counts, n + 1, Len(counts))

\* Not the code: a refusal lowers nothing.
CountAfter_NoDecay(count) == IF count >= RequestLimit THEN count ELSE count + SendWeight

\* request_count of the job chosen: lowered if it is held back, raised if sent.
CountAfter(count) == IF count >= RequestLimit THEN count - Decay ELSE count + SendWeight

\* What peer p gets: work w, or, when the job is held back, the order to wait.
\* Nobody gets what is sent to a peer that is gone.
Deliver(p, held, w) ==
  IF p \in Emulators
  THEN /\ state' = [state EXCEPT ![p] = IF held THEN "idle" ELSE "playing"]
       /\ work' = [work EXCEPT ![p] = IF held THEN NoWork ELSE w]
  ELSE UNCHANGED <<state, work>>

\* Not the code: the search starts at the first job every time.
JobAfter_FromFirst(q, from) == NextIndex(q, 0, done')

\* advanceJobsIndex
JobAfter(q, from) == NextIndex(q, from, done')

\* The end of findNextNonRequestedGenome, and the answer: the next open job of
\* queue q, split if clients are many and jobs few, is sent or held back.
AnswerFrom(q, counts, from, cache) ==
  LET i    == JobAfter(q, from)
      open == Cardinality(OpenJobs(q, done'))
      g    == q[i].genome
      net  == SerializedNetwork(cache, g, generation')
  IN  \E active \in SUBSET known : \E parts \in SplitsOf(q, i, Cardinality(active), open) :
        LET count == CountsAfterSplit(counts, i, Len(parts))
            held  == count[i] >= RequestLimit
        IN  /\ jobs' = Exploded(q, i, parts)
            /\ index' = i
            /\ requests' = [count EXCEPT ![i] = CountAfter(@)]
            /\ serializedNetworks' =
                 IF held THEN cache ELSE cache \cup {[address |-> g, network |-> net]}
            /\ Deliver(answering, held, [generation |-> generation', genome |-> g,
                                         levels |-> jobs'[i].levels, network |-> net])

\* The next job of this generation...
AnswerOpen ==
  /\ ~finished /\ answering # Nobody
  /\ OpenJobs(jobs, done) # {}
  /\ UNCHANGED <<generation, layout, done, fitness, finished>>
  /\ AnswerFrom(jobs, requests, index, serializedNetworks)
  /\ answering' = Nobody
  /\ UNCHANGED <<known, backlog, outdated, failures>>

\* ...or newGeneration, which clears the cache, and the first job of the next
\* one; that is the end of the loop if the experiment is over.
AnswerNew ==
  /\ ~finished /\ answering # Nobody
  /\ OpenJobs(jobs, done) = {}
  /\ generation' = generation + 1
  /\ layout' \in Layouts
  /\ done' = Unscored /\ fitness' = NoPlays
  /\ AnswerFrom(FreshJobs(layout'), NotRequested, 0, {})
  /\ \E other \in OtherStops :
       finished' = ((StopGeneration > 0 /\ generation' >= StopGeneration) \/ other)
  /\ answering' = Nobody
  /\ UNCHANGED <<known, backlog, outdated, failures>>

Server == ReceiveLine \/ ReceiveFails \/ AnswerOpen \/ AnswerNew

\* The server waits for the line of a peer that will never send it nor close.
CutOff == backlog # <<>> /\ Head(backlog) = [peer |-> Vanished, line |-> NoLine]

\* The experiment is over, or everybody waits for everybody.
Over == (finished \/ CutOff) /\ UNCHANGED vars

Next ==
  \/ Server
  \/ \E e \in Emulators : Connect(e) \/ Send(e) \/ Kill(e) \/ Vanish(e)
  \/ Over

\* The server serves whoever it can; an emulator that is neither dead nor gone
\* goes on: it plays, connects and sends.
Fairness ==
  /\ WF_vars(Server)
  /\ \A e \in Emulators : WF_vars(Connect(e)) /\ WF_vars(Send(e))

SafetySpec == Init /\ [][Next]_vars

Spec == SafetySpec /\ Fairness

-----------------------------------------------------------------------------
Peers == Emulators \cup {Gone, Vanished}

\* Type invariant of the server, the connections and the emulators.
TypeOK ==
  /\ finished \in BOOLEAN
  /\ generation \in Nat
  /\ layout \in Layouts
  /\ done \in [Genomes -> SUBSET Levels]
  /\ fitness \in [Genomes -> [Levels -> Seq(Network)]]
  /\ jobs \in Seq(Job) /\ index \in 0..Len(jobs)
  /\ requests \in Seq(Int) /\ Len(requests) = Len(jobs)
  /\ serializedNetworks \in SUBSET [address: Genomes, network: Network]
  /\ known \in SUBSET Clients
  /\ backlog \in Seq([peer: Peers, line: Line \cup {NoLine}])
  /\ answering \in Peers \cup {Nobody}
  /\ state \in [Emulators -> {"idle", "connected", "playing", "gone"}]
  /\ work \in [Emulators -> Work \cup {NoWork}]
  /\ outdated \in [Emulators -> BOOLEAN]
  /\ failures \in 0..MaxFailures

\* "Find the first open, non-requested spot.  Sets ... to a requested spot if all
\* have been requested" (dumber_server.lua:1681): a job is sent a second time only
\* when every other open job has been sent, although the code never looks at the
\* counts for this, and although jobs are split while others play them.
UnrequestedFirst ==
  index # 0 /\ requests[index] > SendWeight =>
    \A n \in OpenJobs(jobs, done) : requests[n] > 0

\* The network an emulator plays is that of the genome the job names, in the
\* generation the job names.
WorkInFlight ==
  {work[e] : e \in {e \in Emulators : work[e] # NoWork}}
    \cup {backlog[i].line.work :
            i \in {i \in 1..Len(backlog) : backlog[i].line \in Result}}

NetworkMatchesAddress ==
  \A w \in WorkInFlight : w.network = [generation |-> w.generation, genome |-> w.genome]

\* Refinement: the server evaluates one pool after the other.
Evaluated ==
  {p \in (1..Population) \X Levels :
     LET g == layout[p[1]]
     IN  fitness[g][p[2]] = <<[generation |-> generation, genome |-> g]>>}

Eval == INSTANCE Evaluation WITH Rounds <- StopGeneration,
                                 round <- generation, scored <- Evaluated

\* No level is scored twice or by another network, and the next pool is bred
\* when, and only when, the last genome is complete: this server too keeps what
\* Evaluation promises.
EvaluatesInOrder == Eval!Init /\ [][Eval!Next]_(Eval!vars)

\* "Any number of clients may fail and we won't get stuck" (dumber_server.lua:13):
\* jobs sent to emulators that die are sent again in the end.  What the decay
\* does not help against is a host that goes away between its connection and its
\* line: then, and only then, training stops.
FinishesUnlessCutOff == <>(finished \/ CutOff)
=============================================================================
