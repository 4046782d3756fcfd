SPECIFICATION Spec
CONSTANTS
  p1 = p1
  p2 = p2
  k1 = k1
  k2 = k2
  m1 = m1
  m2 = m2
  a1 = a1
  a2 = a2
  r1 = r1
  r2 = r2
  r3 = r3
  NoKey = NoKey
  Omitted = Omitted
  Absent = Absent
  NoRef = NoRef
  NoConfig = NoConfig
  NoSettings = NoSettings
  NoOne = NoOne
  Providers <- MCProviders
  Keys <- MCKeys
  Models <- MCModels
  ApiKeys <- MCApiKeys
  Clients <- MCClients
  PointClients <- OneClient
  Requests <- MCRequests
  Operations <- OnlyDeclarations
  InitialConfig <- MCInitial
  Discoveries <- LastDiscovery
  MaxPoints = 0
INVARIANT EnabledModelsAreListed
