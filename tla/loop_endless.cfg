\* No count, ctrl+z on the destination port, a coarse poll timer, long stalls.
SPECIFICATION FairSpec
CONSTANTS
  Configurations <- Bound
  TableSize = 2
  IntMax = 100
  InitSport = 3
  DstPort = 1
  WireMod = 5
  MaxProbes = 4
  MaxCopies = 0
  MaxAge = 3
  Interval = 2
  LateTimeout = 2
  Granularity = 2
  PollPeriod = 1
  DoublePress = 2
  MaxTime = 6
  MaxStall = 4
  MaxPresses = 2
INVARIANTS NoBurst Punctual NoLostWakeup
PROPERTIES SignalStops PressHandled
