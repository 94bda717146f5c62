SPECIFICATION Spec
CONSTANTS
  Clusters = {dev, prod}
  UserEntries = {user}
  user = user
  MaxJobs = 3
  Originals <- MCOriginals
  NoFile = NoFile
  Empty = Empty
  Torn = Torn
  None = None
CHECK_DEADLOCK FALSE
INVARIANTS
  EntriesKept
  Recoverable
PROPERTIES
  EveryJobEnds
