CONSTANTS
  ARS_MAX_LAYER = 9
  Descriptions <- CDescriptions
  Paddings = {0, 6}
  LinkHeaders = {14}
  Cuts = {0, 4, 19, 22, 27, 33, 41}
SPECIFICATION Spec
CHECK_DEADLOCK FALSE
INVARIANTS TypeOK SplitKeepsBytes ReadsBack DamageSeen RoundTrip
PROPERTY SplitProgress
