SPECIFICATION FairSpec
CONSTANTS
  Programs <- MCPrograms
  BeyondCode <- MCBeyondCode
  REGISTER_FILE_SIZE = 24
  DATA_MEMORY_SIZE = 50
  ROB_SIZE = 12
  RENAME_TABLE_SIZE = 24
  IQ_SIZE = 8
  LSQ_SIZE = 6
  MaxAge = 24
  WORD_BITS = 16
CHECK_DEADLOCK FALSE
INVARIANTS
  MemoryAtHalt
  NewerTagIsHigher
PROPERTIES
  ImplementsIsa
  Halts
