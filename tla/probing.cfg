\* The ring is overwritten twice and the ports wrap around.
SPECIFICATION TracerouteSpec
CONSTANTS
  Configurations <- CommandLines
  TableSize = 3
  IntMax = 100
  InitSport = 3
  DstPort = 1
  WireMod = 4
  MaxProbes = 5
  MaxCopies = 2
  MaxAge = 4
  Path <- Route
  TtlMod = 256
  MaxTtlPresses = 1
INVARIANTS LookupExact UniqueAtMostSent TracesPath
PROPERTIES LedgerSpec AnswersAccepted
CHECK_DEADLOCK FALSE
