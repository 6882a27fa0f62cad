\* Two probes, or a savefile: answered, lost, late or duplicated.
SPECIFICATION FairSpec
CONSTANTS
  Configurations <- Ending
  TableSize = 2
  IntMax = 100
  InitSport = 3
  DstPort = 1
  WireMod = 5
  MaxProbes = 3
  MaxCopies = 2
  MaxAge = 3
  Interval = 2
  LateTimeout = 2
  Granularity = 1
  PollPeriod = 1
  DoublePress = 2
  MaxTime = 11
  MaxStall = 3
  MaxPresses = 0
INVARIANTS TypeOK PromptStop OnSchedule CountSent CountCaught
PROPERTIES Terminates
