CONSTANTS
  Server = server
  CSRs = {server, a1, a2}
  NoCSR = NoCSR
  Requests <- MCRequests
  DirectAgents = {}
  FaultKinds <- MCFaults
  MaxFaults = 3
  udsName = FALSE
  apiserverAddr = {a1}
  tunnelServerAddr = {a2}
  kubeConfig = {a2}
SPECIFICATION FairSpec
INVARIANTS
  IInv
  NoFutileWait
  PortsCertified
PROPERTIES
  RotationKeepsConnections
  ImplementsRegistration
  ServerRecovers
  AgentsRecover
\* Once all are connected nothing remains to be done until a fault occurs.
CHECK_DEADLOCK FALSE
