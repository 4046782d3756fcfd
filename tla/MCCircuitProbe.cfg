SPECIFICATION Spec
CONSTANTS
  r1 = r1
  r2 = r2
  r3 = r3
  p1 = p1
  NoCall = NoCall
  Calls <- OneCall
  Providers <- MCProviders
  Threshold = 3
  Cooldown = 2
  MaxTime = 5
INVARIANT FailedProbeReopens
