CONSTANTS
  MonitorMayStall = FALSE
  MaxRestarts = 1
  MaxFaults = 1
SPECIFICATION FairSpec
INVARIANTS
  LeaseNotExtended
  
  NoLostUpdate
  SteadyStaysHealthy
PROPERTIES
  TaintFollows
