-------------------------------- MODULE Play --------------------------------
(***************************************************************************)
(* How an emulator plays the levels of a job: the loop of playGame in      *)
(* facilitator/codebase/zmqclient.lua (145-178, 323-457, 570-590), and the *)
(* way a decision takes from its Lua table to the game: joypad.set         *)
(* (hqn/hqn/hqn_lua_joypad.cpp), emu.frameadvance (hqn_lua_emu.cpp,        *)
(* hqn.cpp) and the joypad port of the console, which the game reads bit   *)
(* by bit (quicknes/nes_emu/Nes_Emu.cpp, Nes_Core.cpp).                    *)
(*                                                                         *)
(* The game and its savestates are external: in a frame the game polls the *)
(* port as it likes and leaves Mario anywhere, dead or not, at the flag or *)
(* not.  So is the network: it presses any buttons.                        *)
(*                                                                         *)
(* Bounds: Mario moves between 0 and MaxX and not up or down; MaxFrames    *)
(* caps currentFrame above what any play reaches.                          *)
(***************************************************************************)
EXTENDS Integers, FiniteSets

CONSTANTS Levels,                   \* the levels of the job
          Period,                   \* frames between decisions, 4 in the code
          ProgressTimeoutConstant, FreezeTimeoutConstant,
          Patience,                 \* the 100 of fitness < -100
          Slowness,                 \* the 4 of currentFrame / 4
          MaxX, MaxFrames,
          NoLevel

ASSUME PlayAssumption ==
  /\ Period \in Nat \ {0}
  /\ ProgressTimeoutConstant \in Nat \ {0} /\ FreezeTimeoutConstant \in Nat \ {0}
  /\ Patience \in Nat /\ Slowness \in Nat \ {0}
  /\ MaxX \in Nat /\ MaxFrames \in Nat
  /\ MaxFrames > Slowness * (MaxX + Patience) + 1

VARIABLES
  mario,         \* the game: where Mario is and how he is (external)
  control,       \* where the client is in its loop
  todo,          \* the levels of the job still to play
  level,         \* stateIndex, the level being played
  script,        \* the Lua variables of playGame, with the globals of getPositions
  wonLevel,      \* the Lua global of that name
  controller,    \* the Lua global: the buttons the table has as true
  joypad,        \* HQNState::joypad[0], as the set of its bits
  current,       \* current_joypad[0] of the console
  latch,         \* joypad_latches[0]
  strobe,        \* bit 0 of w4016
  got,           \* how many bits the game has read since the strobe
  seen,          \* those of them that were 1
  asked,         \* what controller held when the strobe fell
  outcome        \* what the last playGame returned

console == <<joypad, current, latch, strobe, got, seen, asked>>
vars == <<mario, control, todo, level, script, wonLevel, controller, console, outcome>>

ButtonNames == {"a", "left", "right"}

\* JOYPAD_MASKS as bit numbers.
Mask == [a |-> 0, b |-> 1, select |-> 2, start |-> 3,
         up |-> 4, down |-> 5, left |-> 6, right |-> 7]

\* What the script reads of the game, each from bytes of its own: where Mario is,
\* whether he is dead or below the screen, whether he is at the flag.
Games == [x : 0..MaxX, dead : BOOLEAN, flag : BOOLEAN]

\* The savestate of a level.
LevelStart == [x |-> 0, dead |-> FALSE, flag |-> FALSE]

Nil == -1

-----------------------------------------------------------------------------
(* joypad.set *)
\* Not the code: joypad_set only ever sets bits.
Joypad_Sticks(named, pressed) == joypad \cup {Mask[b] : b \in pressed}

\* joypad_set: the bits of the buttons the table names are set or cleared,
\* the others are left alone.
Joypad(named, pressed) ==
  (joypad \ {Mask[b] : b \in named}) \cup {Mask[b] : b \in pressed}

\* What evaluateCurrent makes of the outputs of the network.
Decided(outputs) ==
  (IF {"left", "right"} \subseteq outputs THEN outputs \ {"left", "right"}
                                          ELSE outputs) \cup {"b"}

(* The port *)
\* Not the code: the port latches when the strobe rises.
Latches_Rising(data) == strobe = 0 /\ data = 1

\* joypad.w4016 & 1 & ~data.
Latches(data) == strobe = 1 /\ data = 0

\* result >> 1.
Shifted(register) == {b - 1 : b \in register \ {0}}

(* playGame *)
Fresh ==
  [rightmost |-> 0, currentFrame |-> 0,
   progressTimeout |-> ProgressTimeoutConstant,
   freezeTimeout |-> FreezeTimeoutConstant,
   marioX |-> Nil, oldMarioX |-> Nil, dead |-> FALSE]

\* getPositions.
Looked ==
  [script EXCEPT !.oldMarioX = script.marioX,
                 !.marioX = mario.x,
                 !.dead = mario.dead]

\* How far the level has got, and what is left of the timeouts.
Measured(s) ==
  LET further == s.marioX > s.rightmost
  IN [s EXCEPT
        !.rightmost = IF further THEN s.marioX ELSE @,
        !.progressTimeout = IF further THEN ProgressTimeoutConstant ELSE @,
        !.freezeTimeout = IF s.oldMarioX # s.marioX THEN FreezeTimeoutConstant ELSE @]

\* fitness < -100.
Unfit(s) == Slowness * s.rightmost - s.currentFrame < - (Slowness * Patience)

\* Not the code: only a standstill ends a play that is neither won nor lost.
Reason_Standstill(s, won) ==
  IF s.dead THEN "died"
  ELSE IF won THEN "victory"
  ELSE IF s.freezeTimeout <= 1 THEN "freeze"
  ELSE "none"

\* Why playGame returns now, if it does: both timeouts are counted down first.
Reason(s, won) ==
  IF s.dead THEN "died"
  ELSE IF won THEN "victory"
  ELSE IF s.freezeTimeout <= 1 \/ Unfit(s) THEN "freeze"
  ELSE IF s.progressTimeout <= 1 \/ Unfit(s) THEN "noProgress"
  ELSE "none"

\* Not the code: a victory leaves the flag up.
WonAfter_Kept(reason, won) == won

\* wonLevel once playGame has got as far as reason.
WonAfter(reason, won) == won /\ reason # "victory"

\* The frame count and the timeouts leave their ranges in no play that ends.
Lowered(timeout) == IF timeout = 0 THEN 0 ELSE timeout - 1

Capped(frame) == IF frame > MaxFrames THEN MaxFrames ELSE frame

-----------------------------------------------------------------------------
Init ==
  /\ mario = LevelStart
  /\ control = "load" /\ todo = Levels /\ level = NoLevel
  /\ script = Fresh /\ wonLevel = FALSE
  /\ controller = {} /\ joypad = {} /\ current = {}
  /\ latch = {} /\ strobe = 0 /\ got = 0 /\ seen = {} /\ asked = {}
  /\ outcome = "none"

\* The next level of the job: savestate.load, clearJoypad, the local variables;
\* playerState and wonLevel are what they were.  The savestate holds the port as
\* well (Nes_Core.cpp:106, 154).
Load ==
  /\ control = "load" /\ todo # {}
  /\ \E l \in todo :
       /\ level' = l /\ todo' = todo \ {l}
  /\ mario' = LevelStart
  /\ latch' = {} /\ strobe' = 0 /\ got' = 0 /\ seen' = {} /\ asked' = {}
  /\ script' = [Fresh EXCEPT !.dead = script.dead]
  /\ controller' = {}
  /\ joypad' = Joypad(ButtonNames, {})
  /\ control' = "decide"
  /\ UNCHANGED <<wonLevel, current, outcome>>

\* The top of the loop: a look and a decision in every Period-th frame, and
\* joypad.set in all of them.
Decide ==
  /\ control = "decide"
  /\ control' = "judge"
  /\ IF script.currentFrame % Period = 0
     THEN \E outputs \in SUBSET ButtonNames :
            /\ script' = Measured(Looked)
            /\ wonLevel' = (wonLevel \/ mario.flag)
            /\ controller' = Decided(outputs)
            /\ joypad' = Joypad(ButtonNames \cup {"b"}, Decided(outputs))
     ELSE /\ script' = Measured(script)
          /\ joypad' = Joypad(ButtonNames \cup {"b"}, controller)
          /\ UNCHANGED <<wonLevel, controller>>
  /\ UNCHANGED <<mario, todo, level, current, latch, strobe, got, seen, asked,
                 outcome>>

\* emu.frameadvance: the console gets the joypad.
HandOver == current' = joypad

\* playGame returns, or asks for the next frame.
Judge ==
  /\ control = "judge"
  /\ LET reason == Reason(script, wonLevel)
     IN /\ wonLevel' = WonAfter(reason, wonLevel)
        /\ IF reason # "none"
           THEN /\ outcome' = reason
                /\ control' = "load"
                /\ UNCHANGED <<script, current>>
           ELSE /\ script' = [script EXCEPT !.currentFrame = Capped(@ + 1),
                                            !.freezeTimeout = Lowered(@),
                                            !.progressTimeout = Lowered(@)]
                /\ HandOver
                /\ control' = "frame"
                /\ UNCHANGED outcome
  /\ UNCHANGED <<mario, todo, level, controller, joypad, latch, strobe,
                 got, seen, asked>>

(* A frame of the game *)
\* write_io at $4016.
Write(data) ==
  /\ control = "frame"
  /\ strobe' = data
  /\ latch' = IF Latches(data) THEN current ELSE latch
  /\ IF strobe = 1 /\ data = 0
     THEN got' = 0 /\ seen' = {} /\ asked' = controller
     ELSE UNCHANGED <<got, seen, asked>>
  /\ UNCHANGED <<mario, control, todo, level, script, wonLevel, controller,
                 joypad, current, outcome>>

\* read_io at $4016 with the strobe low; with the strobe high a read tells the
\* game nothing of the buttons.
Read ==
  /\ control = "frame" /\ strobe = 0 /\ got < 8
  /\ got' = got + 1
  /\ seen' = IF 0 \in latch THEN seen \cup {got} ELSE seen
  /\ latch' = Shifted(latch)
  /\ UNCHANGED <<mario, control, todo, level, script, wonLevel, controller,
                 joypad, current, strobe, asked, outcome>>

\* emulate_frame returns; the game has moved Mario.
EndFrame ==
  /\ control = "frame"
  /\ control' = "decide"
  /\ mario' \in Games
  /\ UNCHANGED <<todo, level, script, wonLevel, controller, console, outcome>>

\* The results go to the server.
Over == control = "load" /\ todo = {} /\ UNCHANGED vars

Next ==
  \/ Load \/ Decide \/ Judge
  \/ (\E data \in {0, 1} : Write(data)) \/ Read \/ EndFrame
  \/ Over

\* The script runs on, and a frame takes a fixed number of clocks.
Fairness == WF_vars(Load) /\ WF_vars(Decide) /\ WF_vars(Judge) /\ WF_vars(EndFrame)

Spec == Init /\ [][Next]_vars /\ Fairness

-----------------------------------------------------------------------------
\* The types of the variables; no play comes near MaxFrames.
TypeOK ==
  /\ mario \in Games
  /\ control \in {"load", "decide", "judge", "frame"}
  /\ todo \subseteq Levels /\ level \in Levels \cup {NoLevel}
  /\ script \in [rightmost : 0..MaxX, currentFrame : 0..(MaxFrames - 1),
                 progressTimeout : 0..ProgressTimeoutConstant,
                 freezeTimeout : 0..FreezeTimeoutConstant,
                 marioX : 0..MaxX \cup {Nil}, oldMarioX : 0..MaxX \cup {Nil},
                 dead : BOOLEAN]
  /\ wonLevel \in BOOLEAN
  /\ controller \subseteq ButtonNames \cup {"b"}
  /\ joypad \subseteq 0..7 /\ current \subseteq 0..7 /\ latch \subseteq 0..7
  /\ strobe \in {0, 1} /\ got \in 0..8 /\ seen \subseteq 0..7
  /\ asked \subseteq ButtonNames \cup {"b"}
  /\ outcome \in {"none", "died", "victory", "freeze", "noProgress"}

\* The bits the game has read since its strobe are those of the decision that
\* stood when the strobe fell, whatever frames and decisions have come in
\* between (Nes_Core.cpp:267-278, 303-312; hqn_lua_joypad.cpp:66-103).
GameSeesDecision ==
  seen = {Mask[b] : b \in asked} \cap 0..(got - 1)

\* A level is reported won or lost for what Mario came to in it, though wonLevel,
\* marioX and playerState are globals that outlive a play (zmqclient.lua:149-161),
\* with one exception: death is looked at before the flag (420-432), so a death at
\* the flag leaves wonLevel behind, and the next level is won in its first frame.
OutcomeIsOwn ==
  control = "load" =>
    /\ outcome = "died" => mario.dead
    /\ outcome = "victory" => ~mario.dead /\ (mario.flag \/ script.currentFrame = 0)
    /\ outcome \in {"freeze", "noProgress"} /\ script.currentFrame % Period = 0 =>
         ~mario.dead /\ ~mario.flag
    /\ wonLevel => outcome = "died" /\ mario.flag

\* Whatever Mario does, every level of the job is played to an end.
EveryPlayEnds == <>(control = "load" /\ todo = {})
=============================================================================
