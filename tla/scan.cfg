SPECIFICATION FairSpec
CONSTANTS
  MaxPort = 1
  Probes = 4
  Interval = 0
  Slow = 2
  Milli = 2
  HalfSecond = 2
  Second = 4
  Uptime = 3
  Strays <- OneStray
  MaxAge = 4
INVARIANTS
  TypeOK
  LastChance
  SignalHeard
PROPERTIES
  SurveySpec
  Terminates
