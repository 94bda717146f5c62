CONSTANTS
  Inodes = {i1, i2, i3}
  MaxKubelets = 3
  MaxLostAnswers = 1
  MaxServeErrors = 1
  None = None
SPECIFICATION PluginFairSpec
INVARIANTS
  RegistersOnce
PROPERTIES
  EventuallyWatched
