SPECIFICATION MCFairSpec
CONSTANTS
  A1 = A1
  A2 = A2
  T1 = T1
  T2 = T2
  D1 = D1
  D2 = D2
  BadAddr = BadAddr
  NoJob = NoJob
  Tips <- MCTips
  Addrs <- MCAddrs2
  Dash <- MCOneDash
  JobIds <- MCJobIds
  Depth = 2
  MaxBlocks = 1
PROPERTIES RetiredStaysRetired Settles
