SPECIFICATION FairSpec
CONSTANTS
  Blocks = 2
  Short = TRUE
  IdMod = 3
  Ends <- EndOrNot
  FileFails = TRUE
  Window = 2
  MaxReceived = 2
INVARIANTS
  TypeOK
  WritesFile
PROPERTIES
  Delivered
CHECK_DEADLOCK FALSE
