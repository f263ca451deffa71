SPECIFICATION FairSpec
CONSTANTS
  Programs <- MCArithmetic
  BeyondCode <- MCBlank
  REGISTER_FILE_SIZE = 6
  DATA_MEMORY_SIZE = 2
  ROB_SIZE = 4
  RENAME_TABLE_SIZE = 6
  IQ_SIZE = 3
  LSQ_SIZE = 2
  MaxAge = 40
  WORD_BITS = 8
CHECK_DEADLOCK FALSE
INVARIANTS
  TypeInv
  EntriesAtWork
  WaitersFed
  TagsOwned
  WritersCounted
PROPERTIES
  DecodedIsDispatched
  ImplementsIsa
  Halts
