CONSTANTS
  n1 = n1
  n2 = n2
  Nodes = {n1, n2}
  ServicePorts <- TwoServices
  EndpointList <- TwoEndpoints
  HasV6 = TRUE
  ProxyPort = 15080
  NodePortRange = {30080, 30081}
  MaxHops = 3
  MaxMoves = 1
  Nothing = Nothing
SPECIFICATION RoutesSpec
CHECK_DEADLOCK FALSE
INVARIANTS
  NoProxyLoop
  ServedRight
PROPERTIES
  TunnelsAgree
