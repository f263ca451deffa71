SPECIFICATION FairSpec
CONSTANTS
  ROB_SIZE = 3
  Code <- MCCode
  Tags = {1, 2, 3}
  Values <- MCValues
  Reentry = FALSE
INVARIANTS
  TypeInv
  WindowInv
  NothingStranded
PROPERTIES
  RetiresInOrder
  EveryEntryRetires
