SPECIFICATION FairSpec
CONSTANTS
  A1 = A1
  A2 = A2
  T1 = T1
  T2 = T2
  D1 = D1
  D2 = D2
  BadAddr = BadAddr
  NoJob = NoJob
  Tips <- MCTips
  Addrs <- MCAddrs1
  Dash <- MCNoDash
  JobIds <- MCJobIds
  Depth = 3
  MaxBlocks = 3
INVARIANTS TypeOK NoDeadWork SentJobIsKnown
PROPERTY Settles
