CONSTANTS
  Clients = {c1, c2}
  Nodes = {1}
  NetIDs = {1}
  NetOf <- SharedNet
  Pool = 1
  Hash <- SameHash
  Pids = {1, 2}
  Legacy = {1}
  PsMayFail = FALSE
  MayStick = FALSE
  MaxClock = 2
  MaxBoots = 3
  MaxKills = 1
  MaxReboots = 1
  None = None
SPECIFICATION Spec
SYMMETRY ClientSymmetry
INVARIANTS
  EveryVMTracked
  AddressOfTheBootRead
PROPERTIES
  ImplementsInventory
  
