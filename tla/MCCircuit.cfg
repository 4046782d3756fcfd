SPECIFICATION Spec
CONSTANTS
  r1 = r1
  r2 = r2
  r3 = r3
  p1 = p1
  NoCall = NoCall
  Calls <- MCCalls
  Providers <- MCProviders
  Threshold = 3
  Cooldown = 2
  MaxTime = 5
SYMMETRY CallSymmetry
INVARIANTS
  TypeOK
  OpenAfterStreak
PROPERTIES
  ReportedOpenBlocks
  CooldownIsFixed
