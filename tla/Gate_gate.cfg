SPECIFICATION GateSpec
CONSTANTS
  Conns = {C1, C2}
  Ips = {I1, I2, I3}
  NoPeer = NoPeer
  MaxConnections = 2
  MaxPerMinute = 1
  MaxTracked = 2
  Handshake = 1
  Idle = 2
  Minute = 2
  BanTime = 2
  MaxPanics = 1
  T1 = T1
  T2 = T2
  W1 = W1
  W2 = W2
  Tasks = {T1, T2}
  Workers = {W1, W2}
  Fleets <- SmallFleets
  NoWorker = NoWorker
  MaxPending = 1
  MaxBoots = 1
  Updaters = {U1, U2}
  Names = {N1, N2, N3}
  MaxValue = 3
  MaxResets = 1
  Keep = 2
SYMMETRY Symmetry
INVARIANTS GateTypeOK CountsExact DroppedInTime  RecordTrue
  
