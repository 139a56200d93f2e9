CONSTANTS
  IPv4s <- MCIPv4s
  IPv6s <- MCIPv6s
  NilIP = NilIP
  NoAddr = NoAddr
  Unread = Unread
  Unset = Unset
  Services <- MCServices
  EndpointLists <- MCEndpoints
  NodeLists <- MCNodes
  CertNames <- MCNoNames
  CertIPs <- MCCertIPs
  AgentFlag = NoAddr
  MaxChanges = 1
  MaxFaults = 1
SPECIFICATION FairSpec
INVARIANTS
  TypeOK
  AgreementVerifies
  DialsExposedIP
  UnsignableByFlagOnly
PROPERTIES
  IdentitySettles
\* Once the agent is connected and the objects rest, there is nothing left to do.
CHECK_DEADLOCK FALSE
