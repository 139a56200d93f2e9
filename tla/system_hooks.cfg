CONSTANTS
  Server = server
  CSRs = {server, a1}
  NoCSR = NoCSR
  Requests <- MCRequests
  DirectAgents = {}
  FaultKinds <- MCFaultsButListen
  MaxFaults = 0
  udsName = FALSE
  apiserverAddr = {a1}
  tunnelServerAddr = {a1}
  kubeConfig = {}
SPECIFICATION FairSpec
INVARIANTS
  HooksExecuted
CHECK_DEADLOCK FALSE
