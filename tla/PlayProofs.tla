----------------------------- MODULE PlayProofs -----------------------------
(***************************************************************************)
(* Playing a level, for every set of levels, every period, timeout and     *)
(* length of level: what the game reads is what was decided, and an        *)
(* outcome is that of the play it ends, but for the first frame after a    *)
(* death at the flag.  That every play ends is model-checked.              *)
(***************************************************************************)
EXTENDS Play, TLAPS

Buttons == ButtonNames \cup {"b"}

Bits(buttons) == {Mask[b] : b \in buttons}

\* A frame in which the client looks at the game and decides.
Looking == script.currentFrame % Period = 0

NotBothWays(buttons) == ~({"left", "right"} \subseteq buttons)

\* On its way from the table to the game a decision is in joypad, then in
\* current, then in latch, from which reads have shifted got bits out.
PortInStep ==
  /\ joypad \subseteq Bits(Buttons)
  /\ control = "judge" => joypad = Bits(controller)
  /\ control = "frame" => current = Bits(controller)
  /\ latch = {b \in 0..7 : b + got \in Bits(asked)}
  /\ seen = {b \in Bits(asked) : b < got}

NeverOpposite == NotBothWays(controller) /\ NotBothWays(asked)

\* What playerState and wonLevel say when they are used, and when they do not
\* matter.
VerdictInStep ==
  /\ control = "judge" /\ Looking =>
       /\ script.dead <=> mario.dead
       /\ mario.flag => wonLevel
       /\ wonLevel => mario.flag \/ script.currentFrame = 0
  /\ control = "frame" \/ (control \in {"decide", "judge"} /\ ~Looking) =>
       ~script.dead /\ ~wonLevel
  /\ control = "decide" /\ wonLevel => script.currentFrame = 0
  /\ control \in {"decide", "judge"} /\ script.currentFrame = 0 => ~mario.dead
  /\ control = "frame" => script.currentFrame # 0
  /\ OutcomeIsOwn

LevelChosen == control # "load" => level \in Levels

PInv == TypeOK /\ LevelChosen /\ PortInStep /\ NeverOpposite /\ VerdictInStep

-----------------------------------------------------------------------------
\* JOYPAD_MASKS gives each button a bit of its own.
LEMMA MaskIsInjective ==
  /\ \A b \in Buttons : Mask[b] \in 0..7
  /\ \A b, c \in Buttons : Mask[b] = Mask[c] => b = c
BY DEF Buttons, ButtonNames, Mask

\* The variables of playGame, as TypeOK has them.
Variables == [rightmost : 0..MaxX, currentFrame : 0..(MaxFrames - 1),
              progressTimeout : 0..ProgressTimeoutConstant,
              freezeTimeout : 0..FreezeTimeoutConstant,
              marioX : 0..MaxX \cup {Nil}, oldMarioX : 0..MaxX \cup {Nil},
              dead : BOOLEAN]

\* A play that is not unfit is shorter than MaxFrames, whatever Mario reached.
LEMMA FitIsShort ==
  ASSUME NEW s \in Variables, ~Unfit(s)
  PROVE  s.currentFrame + 1 \in 0..(MaxFrames - 1)
<1>1. s.rightmost \in Nat /\ s.rightmost <= MaxX /\ s.currentFrame \in Nat
  BY PlayAssumption DEF Variables
<1>2. \A a, b, c \in Nat : b <= c => a * b <= a * c /\ a * b \in Nat /\ a * c \in Nat
  OBVIOUS
<1>3. Slowness * s.rightmost <= Slowness * MaxX
  BY <1>1, <1>2, PlayAssumption
<1>4. Slowness * (MaxX + Patience) = Slowness * MaxX + Slowness * Patience
  BY PlayAssumption
<1>5. Slowness * s.rightmost \in Nat /\ Slowness * MaxX \in Nat /\ Slowness * Patience \in Nat
  BY <1>1, <1>2, PlayAssumption
<1>6. s.currentFrame <= Slowness * s.rightmost + Slowness * Patience
  BY <1>1, <1>5 DEF Unfit
<1> QED
  BY <1>1, <1>3, <1>4, <1>5, <1>6, PlayAssumption

\* Fresh is what playGame starts from.
LEMMA FreshIs == Fresh \in Variables /\ ~Fresh.dead /\ Fresh.currentFrame = 0
<1>1. MaxFrames - 1 \in Nat
  <2>1. \A a, b \in Nat : a * b \in Nat
    OBVIOUS
  <2>2. Slowness * (MaxX + Patience) \in Nat
    BY <2>1, PlayAssumption
  <2> QED
    BY <2>2, PlayAssumption
<1> QED
  BY <1>1, PlayAssumption DEF Fresh, Variables, Nil

\* A look leaves the frame count alone and brings the state of the player.
LEMMA LookedIs ==
  ASSUME TypeOK
  PROVE  /\ Looked \in Variables /\ Looked.dead = mario.dead
         /\ Looked.currentFrame = script.currentFrame
BY DEF TypeOK, Games, Looked, Variables

\* So does the bookkeeping after it.
LEMMA MeasuredIs ==
  ASSUME NEW s \in Variables
  PROVE  /\ Measured(s) \in Variables /\ Measured(s).dead = s.dead
         /\ Measured(s).currentFrame = s.currentFrame
<1> DEFINE r == IF s.marioX > s.rightmost THEN s.marioX ELSE s.rightmost
           p == IF s.marioX > s.rightmost THEN ProgressTimeoutConstant ELSE s.progressTimeout
           f == IF s.oldMarioX # s.marioX THEN FreezeTimeoutConstant ELSE s.freezeTimeout
<1>1. /\ r \in 0..MaxX /\ p \in 0..ProgressTimeoutConstant /\ f \in 0..FreezeTimeoutConstant
  BY PlayAssumption DEF Variables, Nil
<1>2. Measured(s) = [s EXCEPT !.rightmost = r, !.progressTimeout = p, !.freezeTimeout = f]
  BY DEF Measured
<1> HIDE DEF r, p, f
<1> QED
  BY <1>1, <1>2 DEF Variables

Counted(s) == [s EXCEPT !.currentFrame = Capped(@ + 1), !.freezeTimeout = Lowered(@),
                        !.progressTimeout = Lowered(@)]

\* What playGame makes of its variables when it asks for the next frame.
LEMMA CountedIs ==
  ASSUME NEW s \in Variables, ~Unfit(s)
  PROVE  /\ Counted(s) \in Variables /\ Counted(s).dead = s.dead
         /\ Counted(s).currentFrame # 0
<1>1. Capped(s.currentFrame + 1) \in 0..(MaxFrames - 1) /\ Capped(s.currentFrame + 1) # 0
  <2>1. s.currentFrame \in Nat
    BY DEF Variables
  <2> QED
    BY <2>1, FitIsShort, PlayAssumption DEF Capped
<1>2. /\ Lowered(s.freezeTimeout) \in 0..FreezeTimeoutConstant
      /\ Lowered(s.progressTimeout) \in 0..ProgressTimeoutConstant
  BY PlayAssumption DEF Lowered, Variables
<1> QED
  BY <1>1, <1>2 DEF Variables, Counted

\* joypad.set on all the buttons that are ever pressed leaves those pressed.
LEMMA JoypadIs ==
  ASSUME joypad \subseteq Bits(Buttons), NEW pressed \in SUBSET Buttons
  PROVE  Joypad(Buttons, pressed) = Bits(pressed)
BY DEF Joypad, Bits

\* A decision presses buttons, and never both ways.
LEMMA DecidedIs ==
  ASSUME NEW outputs \in SUBSET ButtonNames
  PROVE  Decided(outputs) \subseteq Buttons /\ NotBothWays(Decided(outputs))
BY DEF Decided, Buttons, ButtonNames, NotBothWays

\* What a step of the client's loop decides.
LEMMA DecideIs ==
  ASSUME TypeOK, Decide
  PROVE  /\ script' \in Variables /\ script'.currentFrame = script.currentFrame
         /\ script'.dead = (IF Looking THEN mario.dead ELSE script.dead)
         /\ wonLevel' \in BOOLEAN
         /\ wonLevel' <=> (wonLevel \/ (Looking /\ mario.flag))
         /\ controller' = controller \/ NotBothWays(controller')
         /\ controller' \subseteq Buttons
         /\ joypad' = Joypad(Buttons, controller')
<1>1. script \in Variables /\ wonLevel \in BOOLEAN /\ controller \subseteq Buttons
  BY DEF TypeOK, Variables, Buttons
<1>2. CASE Looking
  <2>1. PICK outputs \in SUBSET ButtonNames :
          /\ script' = Measured(Looked)
          /\ wonLevel' = (wonLevel \/ mario.flag)
          /\ controller' = Decided(outputs)
          /\ joypad' = Joypad(ButtonNames \cup {"b"}, Decided(outputs))
    BY <1>2 DEF Decide, Looking
  <2>2. /\ script' \in Variables /\ script'.currentFrame = script.currentFrame
        /\ script'.dead = mario.dead
    BY <2>1, LookedIs, MeasuredIs
  <2>3. wonLevel' \in BOOLEAN /\ (wonLevel' <=> (wonLevel \/ (Looking /\ mario.flag)))
    BY <1>2, <2>1
  <2> QED
    BY <1>2, <2>1, <2>2, <2>3, DecidedIs DEF Buttons
<1>3. CASE ~Looking
  <2>1. /\ script' = Measured(script) /\ UNCHANGED <<wonLevel, controller>>
        /\ joypad' = Joypad(Buttons, controller)
    BY <1>3 DEF Decide, Looking, Buttons
  <2>2. wonLevel' \in BOOLEAN /\ (wonLevel' <=> (wonLevel \/ (Looking /\ mario.flag)))
    BY <1>1, <1>3, <2>1
  <2> QED
    BY <1>1, <1>3, <2>1, <2>2, MeasuredIs
<1> QED
  BY <1>2, <1>3

-----------------------------------------------------------------------------
\* Playing begins with everything at rest.
LEMMA PlayInit == Init => PInv
<1> SUFFICES ASSUME Init PROVE PInv
  OBVIOUS
<1>1. TypeOK
  <2>1. wonLevel \in BOOLEAN
    BY DEF Init
  <2>2. mario \in Games
    BY PlayAssumption DEF Init, LevelStart, Games
  <2>3. script \in Variables
    BY FreshIs DEF Init
  <2> QED
    BY <2>1, <2>2, <2>3 DEF TypeOK, Init, Variables
<1>2. PortInStep
  BY DEF Init, PortInStep, Bits
<1>3. NeverOpposite /\ VerdictInStep /\ LevelChosen
  BY DEF Init, NeverOpposite, NotBothWays, VerdictInStep, OutcomeIsOwn, LevelChosen
<1> QED
  BY <1>1, <1>2, <1>3 DEF PInv

\* The types are kept by every step; Judge needs that a play that is not unfit
\* is short.
LEMMA TypesKept ==
  ASSUME TypeOK, LevelChosen, Next
  PROVE  TypeOK' /\ LevelChosen'
<1> USE DEF TypeOK, LevelChosen
<1>1. CASE Load
  <2>1. mario' \in Games
    BY <1>1, PlayAssumption DEF Load, LevelStart, Games
  <2>2. joypad' \subseteq 0..7
    BY <1>1 DEF Load, Joypad
  <2>3. script' = [Fresh EXCEPT !.dead = script.dead] /\ controller' = {}
    BY <1>1 DEF Load
  <2>4. wonLevel' \in BOOLEAN
    BY <1>1 DEF Load
  <2>5. script' \in Variables
    BY <2>3, FreshIs DEF Variables
  <2> QED
    BY <1>1, <2>1, <2>2, <2>3, <2>4, <2>5 DEF Load, Variables
<1>2. CASE Decide
  <2>1. /\ script' \in Variables /\ controller' \subseteq Buttons
        /\ joypad' = Joypad(Buttons, controller')
    BY <1>2, DecideIs DEF Decide
  <2>2. wonLevel' \in BOOLEAN
    BY <1>2, DecideIs
  <2>3. Bits(controller') \subseteq 0..7
    BY <2>1, MaskIsInjective DEF Bits
  <2>4. joypad' \subseteq joypad \cup Bits(controller')
    BY <2>1 DEF Joypad, Bits
  <2>5. joypad' \subseteq 0..7
    BY <2>3, <2>4
  <2> QED
    BY <1>2, <2>1, <2>2, <2>5 DEF Decide, Buttons, Variables
<1>3. CASE Judge
  <2> DEFINE reason == Reason(script, wonLevel)
  <2>1. wonLevel' \in BOOLEAN
    BY <1>3 DEF Judge, WonAfter
  <2>2. CASE reason # "none"
    BY <1>3, <2>1, <2>2 DEF Judge, Reason
  <2>3. CASE reason = "none"
    <3>1. script \in Variables /\ ~Unfit(script)
      BY <2>3 DEF Reason, Variables
    <3>2. script' = Counted(script)
      BY <1>3, <2>3 DEF Judge, Counted
    <3>3. script' \in Variables
      BY <3>1, <3>2, CountedIs
    <3> QED
      BY <1>3, <2>1, <2>3, <3>3 DEF Judge, HandOver, Variables
  <2> QED
    BY <2>2, <2>3
<1>4. CASE \E data \in {0, 1} : Write(data)
  <2>1. PICK data \in {0, 1} : Write(data)
    BY <1>4
  <2>2. wonLevel' \in BOOLEAN
    BY <2>1 DEF Write
  <2>3. latch' \subseteq 0..7 /\ strobe' \in {0, 1}
    BY <2>1 DEF Write
  <2>4. got' \in 0..8 /\ seen' \subseteq 0..7 /\ asked' \subseteq ButtonNames \cup {"b"}
    <3>1. CASE strobe = 1 /\ data = 0
      <4>1. got' = 0 /\ seen' = {} /\ asked' = controller
        BY <2>1, <3>1 DEF Write
      <4> QED
        BY <4>1
    <3>2. CASE ~(strobe = 1 /\ data = 0)
      <4>1. UNCHANGED <<got, seen, asked>>
        BY <2>1, <3>2 DEF Write
      <4> QED
        BY <4>1
    <3> QED
      BY <3>1, <3>2
  <2>5. UNCHANGED <<mario, control, todo, level, script, wonLevel,
                    controller, joypad, current, outcome>>
    BY <2>1 DEF Write
  <2> QED
    BY <2>2, <2>3, <2>4, <2>5
<1>5. CASE Read
  BY <1>5 DEF Read, Shifted
<1>6. CASE EndFrame
  BY <1>6 DEF EndFrame, console
<1>7. CASE Over
  BY <1>7 DEF Over, vars, console
<1> QED
  BY <1>1, <1>2, <1>3, <1>4, <1>5, <1>6, <1>7 DEF Next

-----------------------------------------------------------------------------
(* From the table to the game *)
\* A step that leaves the console and the table alone.
LEMMA PortUntouched ==
  ASSUME PortInStep, UNCHANGED <<joypad, latch, got, seen, asked>>,
         control' = "judge" => joypad = Bits(controller'),
         control' = "frame" => current' = Bits(controller')
  PROVE  PortInStep'
BY DEF PortInStep, Bits

\* Each way a decision takes: the table, joypad.set, the frame, the port.
LEMMA PortKept ==
  ASSUME TypeOK, PortInStep, Next
  PROVE  PortInStep'
<1>1. CASE Load
  <2>1. /\ joypad' = Joypad(ButtonNames, {}) /\ control' = "decide"
        /\ latch' = {} /\ got' = 0 /\ seen' = {} /\ asked' = {}
    BY <1>1 DEF Load
  <2> QED
    BY <2>1 DEF PortInStep, Joypad, Bits
<1>2. CASE Decide
  <2>1. /\ joypad' = Joypad(Buttons, controller') /\ controller' \subseteq Buttons
        /\ control' = "judge" /\ UNCHANGED <<current, latch, got, seen, asked>>
    BY <1>2, DecideIs DEF Decide
  <2>2. joypad' = Bits(controller')
    BY <2>1, JoypadIs DEF PortInStep
  <2>3. Bits(controller') \subseteq Bits(Buttons)
    BY <2>1 DEF Bits
  <2> QED
    BY <2>1, <2>2, <2>3 DEF PortInStep, Bits
<1>3. CASE Judge
  <2>1. /\ control = "judge" /\ UNCHANGED <<controller, joypad, latch, got, seen, asked>>
        /\ control' \in {"load", "frame"} /\ (control' = "frame" => current' = joypad)
    BY <1>3 DEF Judge, HandOver
  <2> QED
    BY <2>1, PortUntouched DEF PortInStep
<1>4. CASE \E data \in {0, 1} : Write(data)
  <2>1. PICK data \in {0, 1} : Write(data)
    BY <1>4
  <2>2. control = "frame" /\ UNCHANGED <<control, controller, joypad, current>>
    BY <2>1 DEF Write
  <2>3. current = Bits(controller) /\ joypad \subseteq Bits(Buttons)
    BY <2>2 DEF PortInStep
  <2>4. CASE strobe = 1 /\ data = 0
    <3>1. latch' = current /\ got' = 0 /\ seen' = {} /\ asked' = controller
      BY <2>1, <2>4 DEF Write, Latches
    <3>2. controller \subseteq Buttons
      BY DEF TypeOK, Buttons
    <3>3. Bits(controller) \subseteq 0..7
      BY <3>2, MaskIsInjective DEF Bits
    <3>4. /\ latch' = {b \in 0..7 : b + got' \in Bits(asked')}
          /\ seen' = {b \in Bits(asked') : b < got'}
      BY <2>3, <3>1, <3>3
    <3> QED
      BY <2>2, <2>3, <3>4 DEF PortInStep, Bits
  <2>5. CASE ~(strobe = 1 /\ data = 0)
    <3>1. UNCHANGED <<latch, got, seen, asked>>
      BY <2>1, <2>5 DEF Write, Latches
    <3> QED
      BY <2>2, <3>1, PortUntouched DEF PortInStep
  <2> QED
    BY <2>4, <2>5
<1>5. CASE Read
  <2>1. /\ UNCHANGED <<control, controller, joypad, current, asked>> /\ got' = got + 1
        /\ seen' = (IF 0 \in latch THEN seen \cup {got} ELSE seen)
        /\ latch' = {b - 1 : b \in latch \ {0}} /\ control = "frame"
    BY <1>5 DEF Read, Shifted
  <2>2. got \in 0..8 /\ got \in Nat /\ asked \subseteq Buttons
    BY DEF TypeOK, Buttons
  <2>3. Bits(asked) \subseteq 0..7
    BY <2>2, MaskIsInjective DEF Bits
  <2> DEFINE wanted == Bits(asked)
  <2>4. wanted' = wanted
    BY <2>1 DEF Bits
  <2>5. latch = {b \in 0..7 : b + got \in wanted} /\ seen = {b \in wanted : b < got}
    BY DEF PortInStep
  <2> HIDE DEF wanted
  <2>6. seen' = {b \in wanted : b < got + 1}
    BY <2>1, <2>2, <2>3, <2>5 DEF wanted
  <2>7. latch' = {b \in 0..7 : b + (got + 1) \in wanted}
    <3>1. ASSUME NEW b \in latch' PROVE b \in 0..7 /\ b + (got + 1) \in wanted
      BY <2>1, <2>2, <2>5, <3>1
    <3>2. ASSUME NEW b \in 0..7, b + (got + 1) \in wanted PROVE b \in latch'
      <4>1. b + 1 \in 0..7
        BY <2>2, <2>3, <3>2 DEF wanted
      <4>2. (b + 1) + got \in wanted
        BY <2>2, <3>2
      <4>3. b + 1 \in latch \ {0}
        BY <2>5, <4>1, <4>2
      <4>4. b = (b + 1) - 1
        OBVIOUS
      <4> QED
        BY <2>1, <4>3, <4>4
    <3> QED
      BY <3>1, <3>2
  <2>8. joypad' \subseteq Bits(Buttons) /\ current' = Bits(controller')
    BY <2>1 DEF PortInStep, Bits
  <2>9. /\ latch' = {b \in 0..7 : b + got' \in wanted'}
        /\ seen' = {b \in wanted' : b < got'}
    BY <2>1, <2>4, <2>6, <2>7
  <2> QED
    BY <2>1, <2>8, <2>9 DEF PortInStep, wanted
<1>6. CASE EndFrame
  BY <1>6, PortUntouched DEF EndFrame, console
<1>7. CASE Over
  BY <1>7, PortUntouched DEF Over, vars, console, PortInStep
<1> QED
  BY <1>1, <1>2, <1>3, <1>4, <1>5, <1>6, <1>7 DEF Next

\* Left and right never get out of evaluateCurrent together.
LEMMA NeverOppositeKept ==
  ASSUME TypeOK, NeverOpposite, Next
  PROVE  NeverOpposite'
<1> USE DEF NeverOpposite, NotBothWays
<1>1. CASE Load
  BY <1>1 DEF Load
<1>2. CASE Decide
  BY <1>2, DecideIs DEF Decide
<1>3. CASE ~Load /\ ~Decide
  <2>1. controller' = controller /\ (asked' = asked \/ asked' = controller)
    BY <1>3 DEF Next, Judge, Write, Read, EndFrame, Over, console, vars
  <2> QED
    BY <2>1
<1> QED
  BY <1>1, <1>2, <1>3

-----------------------------------------------------------------------------
(* The outcome *)
\* A look at Mario is what playGame returns for; if it goes on, he was neither dead
\* nor at the flag.
LEMMA VerdictKept ==
  ASSUME TypeOK, VerdictInStep, Next
  PROVE  VerdictInStep'
<1> USE DEF VerdictInStep, OutcomeIsOwn
<1>0. /\ wonLevel \in BOOLEAN /\ script \in Variables
      /\ mario.dead \in BOOLEAN /\ mario.flag \in BOOLEAN /\ script.dead \in BOOLEAN
  BY DEF TypeOK, Variables, Games
<1>1. CASE Load
  <2>1. /\ control' = "decide" /\ wonLevel' = wonLevel /\ control = "load"
        /\ mario' = LevelStart /\ ~LevelStart.dead
        /\ script' = [Fresh EXCEPT !.dead = script.dead]
    BY <1>1 DEF Load, LevelStart
  <2>2. script'.currentFrame = 0
    BY <2>1, FreshIs DEF Variables
  <2>3. Looking'
    BY <2>2, PlayAssumption DEF Looking
  <2> QED
    BY <2>1, <2>2, <2>3
<1>2. CASE Decide
  <2>1. /\ control = "decide" /\ control' = "judge" /\ mario' = mario
        /\ script'.dead = (IF Looking THEN mario.dead ELSE script.dead)
        /\ wonLevel' <=> (wonLevel \/ (Looking /\ mario.flag))
        /\ script'.currentFrame = script.currentFrame
    BY <1>2, DecideIs DEF Decide
  <2>2. Looking' <=> Looking
    BY <2>1 DEF Looking
  <2>3. CASE Looking
    BY <2>1, <2>2, <2>3
  <2>4. CASE ~Looking
    BY <2>1, <2>2, <2>4
  <2> QED
    BY <2>3, <2>4
<1>3. CASE Judge
  <2> DEFINE reason == Reason(script, wonLevel)
  <2>1. control = "judge" /\ mario' = mario
    BY <1>3 DEF Judge
  <2>2. wonLevel' <=> wonLevel /\ reason # "victory"
    BY <1>3 DEF Judge, WonAfter
  <2>3. /\ reason = "died" <=> script.dead
        /\ reason = "victory" <=> ~script.dead /\ wonLevel
        /\ reason \in {"died", "victory", "freeze", "noProgress", "none"}
    BY DEF Reason
  <2>4. wonLevel' => reason = "died"
    BY <2>2, <2>3
  <2>5. CASE reason # "none"
    <3>1. outcome' = reason /\ control' = "load" /\ script' = script
      BY <1>3, <2>5 DEF Judge
    <3>2. Looking' <=> Looking
      BY <3>1 DEF Looking
    <3>3. CASE Looking
      <4>1. /\ script.dead <=> mario.dead
            /\ mario.flag => wonLevel
            /\ wonLevel => mario.flag \/ script.currentFrame = 0
            /\ script.currentFrame = 0 => ~mario.dead
        BY <2>1, <3>3
      <4>2. /\ reason = "died" => mario.dead
            /\ reason = "victory" => ~mario.dead /\ (mario.flag \/ script.currentFrame = 0)
            /\ reason \in {"freeze", "noProgress"} => ~mario.dead /\ ~mario.flag
        BY <2>3, <4>1
      <4>3. wonLevel' => reason = "died" /\ mario.flag
        BY <2>2, <2>4, <4>1, <4>2
      <4>4. OutcomeIsOwn'
        BY <2>1, <3>1, <4>2, <4>3
      <4> QED
        BY <3>1, <4>4
    <3>4. CASE ~Looking
      <4>1. ~script.dead /\ ~wonLevel
        BY <2>1, <3>4
      <4>2. reason # "victory" /\ reason # "died" /\ ~wonLevel'
        BY <2>2, <2>3, <4>1
      <4> QED
        BY <3>1, <3>2, <3>4, <4>2 DEF Looking
    <3> QED
      BY <3>3, <3>4
  <2>6. CASE reason = "none"
    <3>1. control' = "frame" /\ script' = Counted(script) /\ ~Unfit(script)
      BY <1>3, <2>6 DEF Judge, Counted, Reason
    <3>2. script'.dead = script.dead /\ script'.currentFrame # 0
      BY <1>0, <3>1, CountedIs
    <3>3. ~script.dead /\ ~wonLevel'
      BY <2>3, <2>4, <2>6
    <3> QED
      BY <3>1, <3>2, <3>3
  <2> QED
    BY <2>5, <2>6
<1>4. CASE (\E data \in {0, 1} : Write(data)) \/ Read \/ EndFrame
  <2>1. /\ control = "frame" /\ control' \in {"frame", "decide"}
        /\ script' = script /\ wonLevel' = wonLevel
    BY <1>4 DEF Write, Read, EndFrame
  <2> QED
    BY <2>1
<1>5. CASE Over
  <2>1. UNCHANGED <<control, script, wonLevel, mario, outcome>>
    BY <1>5 DEF Over, vars
  <2> QED
    BY <2>1 DEF Looking
<1> QED
  BY <1>1, <1>2, <1>3, <1>4, <1>5 DEF Next

-----------------------------------------------------------------------------
(* The results *)
\* The invariant holds in every state.
THEOREM PlayInvariant == Spec => []PInv
<1>1. ASSUME PInv, Next
      PROVE  PInv'
  BY <1>1, TypesKept, PortKept, NeverOppositeKept, VerdictKept DEF PInv
<1>2. ASSUME PInv, UNCHANGED vars
      PROVE  PInv'
  <2>1. UNCHANGED <<mario, control, todo, level, script, wonLevel, controller,
                    joypad, current, latch, strobe, got, seen, asked, outcome>>
    BY <1>2 DEF vars, console
  <2>2. TypeOK' /\ LevelChosen'
    BY <1>2, <2>1 DEF PInv, TypeOK, LevelChosen
  <2>3. PortInStep' /\ NeverOpposite'
    BY <1>2, <2>1 DEF PInv, PortInStep, Bits, NeverOpposite, NotBothWays
  <2>4. VerdictInStep'
    BY <1>2, <2>1 DEF PInv, VerdictInStep, OutcomeIsOwn, Looking
  <2> QED
    BY <2>2, <2>3, <2>4 DEF PInv
<1> QED
  BY PlayInit, <1>1, <1>2, PTL DEF Spec

\* The variables have their types, and no play comes near MaxFrames.
THEOREM PlayTypeCorrect == Spec => []TypeOK
<1>1. PInv => TypeOK
  BY DEF PInv
<1> QED
  BY <1>1, PlayInvariant, PTL

\* What the game has read since its strobe is the decision of that moment.
THEOREM GameReadsDecision == Spec => []GameSeesDecision
<1>1. ASSUME PInv PROVE GameSeesDecision
  <2>1. Bits(asked) \subseteq Nat /\ got \in 0..8
    BY <1>1, MaskIsInjective DEF PInv, TypeOK, Bits, Buttons
  <2>2. seen = {b \in Bits(asked) : b < got}
    BY <1>1 DEF PInv, PortInStep
  <2>3. seen = Bits(asked) \cap 0..(got - 1)
    BY <2>1, <2>2
  <2> QED
    BY <2>3 DEF GameSeesDecision, Bits
<1> QED
  BY <1>1, PlayInvariant, PTL

\* The game never reads left and right as pressed together, though it may read
\* the one before a decision and the other after it (zmqclient.lua:376).
NeverBothWays == ~({Mask["left"], Mask["right"]} \subseteq seen)

\* The game never reads left and right together.
THEOREM GameNeverReadsBothWays == Spec => []NeverBothWays
<1>1. ASSUME PInv PROVE NeverBothWays
  <2>1. asked \subseteq Buttons /\ NotBothWays(asked) /\ seen \subseteq Bits(asked)
    BY <1>1 DEF PInv, TypeOK, Buttons, NeverOpposite, PortInStep
  <2>2. \A b \in {"left", "right"} : b \in Buttons /\ (Mask[b] \in Bits(asked) => b \in asked)
    BY <2>1, MaskIsInjective DEF Bits, Buttons, ButtonNames
  <2> QED
    BY <2>1, <2>2 DEF NeverBothWays, NotBothWays
<1> QED
  BY <1>1, PlayInvariant, PTL

\* An outcome is that of the play it ends.
THEOREM OutcomesAreOwn == Spec => []OutcomeIsOwn
<1>1. PInv => OutcomeIsOwn
  BY DEF PInv, VerdictInStep
<1> QED
  BY <1>1, PlayInvariant, PTL

=============================================================================
