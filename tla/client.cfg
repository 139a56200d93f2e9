CONSTANTS
  CommandLines <- MCCommandLines
  ProxyKinds <- MCProxyKinds
  Hosts <- MCHosts
  MaxRedirects = 2
SPECIFICATION FairSpec
INVARIANTS
  TypeOK
  SharedElsewhereOnly
  SuccessIsReal
  FailureHasReason
  PanicsOnlyUnconnected
  LongDelayFails
PROPERTIES
  SignalEnds
  Finishes
