CONSTANTS
  CSRs = {c1}
  Workers = {w1, w2}
  NoCSR = NoCSR
  NoKey = NoKey
  Requests <- MCRequests
  MaxRev = 2
  MaxFaults <- MCDropped
SPECIFICATION FairSpec
PROPERTIES
  EveryTunnelCSRDecided
