CONSTANTS
  agent = agent
  addon = addon
  other = other
  Agents <- MCAgents
  Clients <- MCClients
  Clusters <- MCClusters
  Names <- MCNames
  MaxTokens = 2
  MaxFaults = 1
SPECIFICATION FairSpec
INVARIANTS
  TypeOK
  OwnTokensOnly
  DoneMeansWritten
PROPERTIES
  TokensAdvance
  ImplementsPromise
  ProbesAnswered
  HookSucceeds
