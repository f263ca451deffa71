SPECIFICATION Spec
CONSTANTS
  Programs <- MCOverload
  BeyondCode <- MCBlank
  REGISTER_FILE_SIZE = 6
  DATA_MEMORY_SIZE = 2
  ROB_SIZE = 3
  RENAME_TABLE_SIZE = 6
  IQ_SIZE = 2
  LSQ_SIZE = 2
  MaxAge = 12
  WORD_BITS = 8
CHECK_DEADLOCK FALSE
INVARIANTS
  EntriesAtWork
  BufferIsWindow
PROPERTIES
  CommitsInProgramOrder
