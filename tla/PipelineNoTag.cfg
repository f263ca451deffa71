SPECIFICATION Spec
CONSTANTS
  Programs <- MCManyLoads
  BeyondCode <- MCBlank
  REGISTER_FILE_SIZE = 24
  DATA_MEMORY_SIZE = 4
  ROB_SIZE = 12
  RENAME_TABLE_SIZE = 24
  IQ_SIZE = 8
  LSQ_SIZE = 6
  MaxAge = 40
  WORD_BITS = 16
CHECK_DEADLOCK FALSE
PROPERTIES
  EveryWriterRenamed
