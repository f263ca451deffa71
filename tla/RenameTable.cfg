SPECIFICATION Spec
CONSTANTS
  RENAME_TABLE_SIZE = 5
  Regs = {1, 2}
  ROB_SIZE = 3
INVARIANTS
  TypeInv
  TagsInCircle
  TagsAccounted
  BlockedOnlyByLeak
  LookupNewestUnlessStraddling
