SPECIFICATION MCSpec
CONSTANTS
  A1 = A1
  T1 = T1
  T2 = T2
  BadAddr = BadAddr
  NoJob = NoJob
  NoName = NoName
  Tips <- MCTips
  Addrs <- MCAddrs
  Dash <- MCNoDash
  JobIds <- MCJobIds
  N1 = N1
  N2 = N2
  Names <- MCNames
  Sizes = {0, 3}
  Total = 2
  Own = 1
  MaxIdentities = 1
  Depth = 2
  MaxBlocks = 1
  MaxJobs = 3
  Cap = 1
  MapCap = 2
  MaxId = 4
  ShareCap = 1
  WireCap = 2
  MaxOpens = 2
SYMMETRY MCSymmetry
CHECK_DEADLOCK FALSE
INVARIANTS ChannelTypeOK ChannelAgreed DeviceOnTip
PROPERTIES  NoDeadCreditSv2
