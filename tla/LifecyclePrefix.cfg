CONSTANTS
  Clusters <- Nested
  Roles = {"control-plane"}
  Kinds <- OnlyKubeadm
  Procs = {p1}
  MaxFaults = 0
  MaxReboots = 0
  None = None
  p1 = p1
  p2 = p2
SPECIFICATION Spec
PROPERTIES
  OnlyItsCluster
