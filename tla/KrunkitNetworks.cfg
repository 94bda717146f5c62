CONSTANTS
  Clients = {c1}
  Nodes = {1, 2, 3}
  NetIDs = {1, 2}
  NetOf <- PairNet
  Pool = 2
  Hash <- SameHash
  Pids = {1}
  Legacy = {}
  PsMayFail = TRUE
  MayStick = TRUE
  MaxClock = 1
  MaxBoots = 2
  MaxKills = 1
  MaxReboots = 0
  None = None
SPECIFICATION Spec
INVARIANTS
  NetworksSound
PROPERTIES
  LockReleased
