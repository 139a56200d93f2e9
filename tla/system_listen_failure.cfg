CONSTANTS
  Server = server
  CSRs = {server, a1}
  NoCSR = NoCSR
  Requests <- MCRequests
  DirectAgents = {}
  FaultKinds <- MCOnlyListen
  MaxFaults = 1
  udsName = FALSE
  apiserverAddr = {a1}
  tunnelServerAddr = {a1}
  kubeConfig = {}
SPECIFICATION FairSpec
PROPERTIES
  TunnelsComeUp
CHECK_DEADLOCK FALSE
