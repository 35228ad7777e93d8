SPECIFICATION SumsSpec
CONSTANTS
  MinDiff = 1
  MaxDiff = 4
  Start = 3
  ShareTime = 1
  Interval = 2
  WindowShares = 3
  Factor = 2
  Retention = 4
  MaxShares = 2
  MaxGap = 1
  Rate = 2
  Sec = 3
  Minutes = 2
  Minute = 2
  OtherCap = 2
  MaxEvents = 4
  MaxTime = 7
  Inputs <- PoolInputs
  None = None
  Blocks = {B1, B2}
  First = First
  MaxWork = 2
  MaxStops = 1
  MaxLostWrites = 1
INVARIANTS  MetersTrue EncodingsAgree  RoundsTrue
PROPERTIES  SumsSettle
CHECK_DEADLOCK FALSE
