SPECIFICATION EdgesSpec
CONSTANTS
  Second = 2
  PollTicks = 2
  Grace = 2
  MaxTips = 2
  MaxFailures = 1
  Unset = Unset
  Callers = {C1, C2}
  MaxStarts = 3
  Explicit = Explicit
  Absent = Absent
  MaxCrashes = 3
  MaxErrors = 2
  Keys = {K1, K2, K3}
  Gone = Gone
  Torn = Torn
  Nowhere = "nowhere"
  MaxEdits = 4
  Slots = {S1, S2, S3}
  Base = 6
  CounterLen = 2
  extranonce1_size = 2
  extranonce2_size = 2
  Requests = {0, 1, 2, 3, 4, 5}
  MaxDrawn = 8
  W1 = W1
  Windows = {W1, W2}
  DEFAULT_WINDOW = W1
  Usd = Usd
  PAIRS = {Usd, Eur}
  Blank = Blank
  MaxFound = 1
  MaxClicks = 2
  MaxFlight = 2
  MaxFailed = 1
INVARIANTS EdgesTypeOK NodeLinkTrue PayoutTrue SearchApart PageTrue
PROPERTIES KeyTrue EdgesSettle
CHECK_DEADLOCK FALSE
