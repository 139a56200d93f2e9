CONSTANTS
  CommandLines <- MCPlain
  ProxyKinds <- MCProxyKinds
  Hosts <- MCHosts
  MaxRedirects = 1
SPECIFICATION FairSpec
INVARIANT
  NotShared
