CONSTANTS
  CSRs = {c1}
  Workers = {w1, w2}
  NoCSR = NoCSR
  NoKey = NoKey
  Requests <- MCOrglessRequests
  MaxRev = 2
  MaxFaults <- MCNoFaults
SPECIFICATION Spec
INVARIANTS
  OnlyTunnelApproved
