------------------------------ MODULE Emulator ------------------------------
(***************************************************************************)
(* The emulators that play for the training server, and the sockets        *)
(* between them: codebase/zmqclient.lua, one copy per emulator process,    *)
(* started again and again by hqnclient/run_loop.sh and killed now and     *)
(* then by hqnclient/killPeriodically.sh.                                  *)
(*                                                                         *)
(* An emulator has one REQ socket: it sends a request and blocks until the *)
(* reply to that very request comes.  A new process has a new socket, and  *)
(* a reply to a socket that is gone is dropped.  Requests of a process     *)
(* that is gone may still reach the server.                                *)
(***************************************************************************)
EXTENDS Integers, FiniteSets

CONSTANTS
  Emulators,            \* emulator slots (run_loop.sh is started once for each)
  ClientOf,             \* config.clientId of each: a host has one for all
  Outdated,             \* emulators that loaded the code of an older experiment
  StopSavestate,        \* STOP_SAVESTATE: levels a process plays before it exits
  SocketsPerEmulator,   \* bound: sockets of a slot that messages still name
  MaxKills,             \* bound: kills of emulators that are not hung
  PeriodicKill,         \* whether killPeriodically.sh runs on the hosts
  NoWork                \* value of work[e] when the emulator has none

ASSUME EmulatorAssumption ==
  /\ IsFiniteSet(Emulators)
  /\ Outdated \subseteq Emulators
  /\ StopSavestate \in Nat \ {0}
  /\ SocketsPerEmulator \in Nat \ {0}
  /\ MaxKills \in Nat
  /\ PeriodicKill \in BOOLEAN

VARIABLES
  state,      \* "idle": about to ask; "waiting": for a reply; "playing"
  socket,     \* number of the process's socket: with e, its ROUTER identity
  work,       \* the job being played
  played,     \* saveStateIndex
  outdated,   \* whether VERSION_CODE is not the server's
  kills,      \* kills of emulators that were not hung
  requests,   \* requests on their way to the server, with the socket they are from
  replies     \* replies on their way back

emulatorVars == <<state, socket, work, played, outdated, kills, requests, replies>>

Identity(e) == <<e, socket[e]>>

EmulatorInit ==
  /\ state = [e \in Emulators |-> "idle"]
  /\ socket = [e \in Emulators |-> 1]
  /\ work = [e \in Emulators |-> NoWork]
  /\ played = [e \in Emulators |-> 0]
  /\ outdated = [e \in Emulators |-> e \in Outdated]
  /\ kills = 0
  /\ requests = {}
  /\ replies = {}

\* First turn of the client's loop: ask for a job without returning a result.
AskForWork(e) ==
  /\ state[e] = "idle"
  /\ state' = [state EXCEPT ![e] = "waiting"]
  /\ requests' = requests \cup
       {[from |-> Identity(e), body |-> [kind |-> "ask", client |-> ClientOf[e]]]}
  /\ UNCHANGED <<socket, work, played, outdated, kills, replies>>

\* client:recv returns; a job is never the string "die" that
\* checkForServerOrderedDeath looks for.
TakeReply(e) ==
  /\ state[e] = "waiting"
  /\ \E r \in replies :
       /\ r.to = Identity(e)
       /\ work' = [work EXCEPT ![e] = r.job]
       /\ replies' = replies \ {r}
  /\ state' = [state EXCEPT ![e] = "playing"]
  /\ UNCHANGED <<socket, played, outdated, kills, requests>>

ResultOf(e, dies) ==
  [from |-> Identity(e),
   body |-> [kind |-> "result", client |-> ClientOf[e], work |-> work[e],
             current |-> ~outdated[e], die |-> dies]]

\* The levels the process has played once this job is done, up to the limit.
PlayedAfter(e) ==
  LET n == played[e] + Cardinality(work[e].levels)
  IN  IF n < StopSavestate THEN n ELSE StopSavestate

\* A slot gets a new process: the loop of run_loop.sh starts the emulator, which
\* loads the current code from the facilitator.  Its socket is one that no
\* message still in flight is from.
FreeSockets(e, inFlight) ==
  {n \in 1..SocketsPerEmulator : \A q \in inFlight : q.from # <<e, n>>}

Relaunch(e, inFlight) ==
  /\ FreeSockets(e, inFlight) # {}
  /\ socket' = [socket EXCEPT ![e] =
       CHOOSE n \in FreeSockets(e, inFlight) : \A m \in FreeSockets(e, inFlight) : n <= m]
  /\ state' = [state EXCEPT ![e] = "idle"]
  /\ work' = [work EXCEPT ![e] = NoWork]
  /\ played' = [played EXCEPT ![e] = 0]
  /\ outdated' = [outdated EXCEPT ![e] = FALSE]
  /\ requests' = inFlight
  /\ replies' = {r \in replies : r.to # Identity(e)}

\* All levels of the job are played: return them and wait for the next job.
ReturnResult(e) ==
  /\ state[e] = "playing"
  /\ PlayedAfter(e) < StopSavestate
  /\ played' = [played EXCEPT ![e] = PlayedAfter(e)]
  /\ state' = [state EXCEPT ![e] = "waiting"]
  /\ work' = [work EXCEPT ![e] = NoWork]
  /\ requests' = requests \cup {ResultOf(e, FALSE)}
  /\ UNCHANGED <<socket, outdated, kills, replies>>

\* The last job of a process: return the result and exit.  The socket lingers
\* 100 ms, so the result is lost only when no server is there to take it.
ReturnAndExit(e, serverUp) ==
  /\ state[e] = "playing"
  /\ PlayedAfter(e) >= StopSavestate
  /\ \/ Relaunch(e, requests \cup {ResultOf(e, TRUE)})
     \/ ~serverUp /\ Relaunch(e, requests)
  /\ UNCHANGED kills

\* An emulator that waits for a reply that nobody will send.
Hung(e) ==
  /\ state[e] = "waiting"
  /\ \A q \in requests : q.from # Identity(e)
  /\ \A r \in replies : r.to # Identity(e)

\* Not the code: hung processes are spared.
Kill_Responsive(e) ==
  /\ ~Hung(e) /\ kills < MaxKills /\ kills' = kills + 1
  /\ Relaunch(e, requests)

\* kill -9: what the process had sent may or may not still arrive.
Kill(e) ==
  /\ IF Hung(e) THEN PeriodicKill /\ UNCHANGED kills
                ELSE kills < MaxKills /\ kills' = kills + 1
  /\ \/ Relaunch(e, requests)
     \/ Relaunch(e, {q \in requests : q.from # Identity(e)})

EmulatorStep(e, serverUp) ==
  AskForWork(e) \/ TakeReply(e) \/ ReturnResult(e) \/ ReturnAndExit(e, serverUp)
=============================================================================
