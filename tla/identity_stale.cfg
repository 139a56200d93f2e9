CONSTANTS
  IPv4s <- MCIPv4s
  IPv6s <- MCIPv6s
  NilIP = NilIP
  NoAddr = NoAddr
  Unread = Unread
  Unset = Unset
  Services <- MCTwoBalancers
  EndpointLists <- MCNoEndpoints
  NodeLists <- MCNoNodes
  CertNames <- MCNoNames
  CertIPs <- MCNoNames
  AgentFlag = NoAddr
  MaxChanges = 1
  MaxFaults = 0
SPECIFICATION FairSpec
PROPERTY
  DerivedAddressConnects
CHECK_DEADLOCK FALSE
