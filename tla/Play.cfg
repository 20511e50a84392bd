\* A job of 2 levels; a decision every 2nd frame; Mario at 2 places, 2 or 3 looks a level.
CONSTANTS
  Levels = {l1, l2}
  Period = 2
  ProgressTimeoutConstant = 4
  FreezeTimeoutConstant = 2
  Patience = 1
  Slowness = 2
  MaxX = 1
  MaxFrames = 6
  NoLevel = NoLevel
SPECIFICATION Spec
INVARIANTS
  TypeOK
  GameSeesDecision
  OutcomeIsOwn
PROPERTIES
  EveryPlayEnds
