SPECIFICATION MCSpec
CONSTANTS
  A1 = A1
  T1 = T1
  T2 = T2
  M1 = M1
  BadAddr = BadAddr
  NoJob = NoJob
  NoShare = NoShare
  Tips <- MCTips
  Addrs <- MCAddrs
  Dash <- MCNoDash
  JobIds <- MCJobIds
  Miners <- MCMiners
  Nonces = {1}
  Depth = 2
  MaxBlocks = 2
  MaxJobs = 4
  Cap = 2
  ShareCap = 1
CHECK_DEADLOCK FALSE
INVARIANTS PoolTypeOK MinerOnLatestJob
PROPERTIES NoDeadCredit CleanOnNextTip
