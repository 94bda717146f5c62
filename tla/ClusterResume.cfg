SPECIFICATION Spec
CONSTANTS
  CP = n0
  Workers = {n1}
  ContainerIPs = {1, 2, 3, 4, 5, 6, 7, 8, 9, 10, 11, 12}
  KrunkitIPs = {1, 2, 3}
  MaxFaults = 2
  MaxReboots = 2
  SystemdFaults = 1
  SystemdReboots = 1
  None = None
INVARIANTS TypeOK  AdminTellsDamage PodsRefreshed
PROPERTIES HealedResumeIsNoOp 
