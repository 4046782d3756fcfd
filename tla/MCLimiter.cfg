SPECIFICATION Spec
CONSTANTS
  r1 = r1
  r2 = r2
  r3 = r3
  c1 = c1
  c2 = c2
  p1 = p1
  p2 = p2
  NoCall = NoCall
  Calls <- MCCalls
  Clients <- MCClients
  Providers <- MCProviders
  LimitChoices <- ChangingLimits
  Minute = 2
  MaxTime = 3
SYMMETRY LimiterSymmetry
INVARIANTS
  TypeOK
  SlotsMatchCalls
  LimitsRespected
PROPERTY RateHolds
