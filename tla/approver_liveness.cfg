CONSTANTS
  CSRs = {c1, c2}
  Workers = {w1, w2}
  NoCSR = NoCSR
  NoKey = NoKey
  Requests <- MCRequests
  MaxRev = 2
  MaxFaults <- MCLiveFaults
SPECIFICATION FairSpec
PROPERTIES
  EveryTunnelCSRDecided
  StopDrains
