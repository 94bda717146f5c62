CONSTANTS
  a1 = a1
  a2 = a2
  b1 = b1
  http = http
  https = https
  Nodes <- MCNodes
  Workers <- MCWorkers
  Primary = 1
  Services = {1, 2}
  IPs <- MCIPs
  Family <- MCFamily
  Ports = {http, https}
  InitPorts <- MCPorts
  Declared <- MCDeclared
  InitAddrs <- MCAddrs
  MaxChanges = 5
SPECIFICATION FairSpec
INVARIANTS
  PortsDisjoint
PROPERTIES
  StickyAddress
  Settles
