SPECIFICATION Spec
CONSTANTS
  Garbage = {0, 99}
  MaxClock = 2
  Texts <- MCTexts
  Commands <- MCCommands
CHECK_DEADLOCK FALSE
INVARIANTS
  FirstLineLoaded
