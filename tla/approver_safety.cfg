CONSTANTS
  CSRs = {c1, c2}
  Workers = {w1, w2}
  NoCSR = NoCSR
  NoKey = NoKey
  Requests <- MCRequests
  MaxRev = 3
  MaxFaults <- MCAllFaults
SPECIFICATION Spec
SYMMETRY MCSymmetry
INVARIANTS
  TypeOK
  NoConcurrentApproval
  CacheCoherent
  UpdateOverwritesNothing
  NoLostWakeup
PROPERTIES
  ImplementsApproval
