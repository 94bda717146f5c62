CONSTANTS
  Clusters <- Single
  Roles = {"control-plane", "worker-1"}
  Kinds <- EveryKind
  Procs = {p1, p2}
  MaxFaults = 2
  MaxReboots = 2
  None = None
  p1 = p1
  p2 = p2
SPECIFICATION FairSpec
INVARIANTS
  
  
  NoDuplicateNode
PROPERTIES
  CleansOnlyItsOwn
  DeleteGetsThere
