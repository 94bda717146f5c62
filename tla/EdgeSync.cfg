CONSTANTS
  Procs = {p1, p2}
  Services = {s1}
  MaxChanges = 1
  MaxKills = 1
  MaxFlushes = 1
  MaxFaults = 1
  None = None
SPECIFICATION Spec
INVARIANTS
  NoLeftoverJump

  
