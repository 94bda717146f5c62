SPECIFICATION FairSpec
CONSTANTS
  Procs = {p1, p2}
  MaxOwners = 2
  MaxBoots = 2
  MaxUIDs = 2
  Faults = {"write", "remove", "clean"}
INVARIANTS EveryVMHasInventory StartedIsKept ReadyOfThisBoot
PROPERTIES OnlyDeleteDiscards JoinFinishes
CHECK_DEADLOCK FALSE
