SPECIFICATION Spec
CONSTANTS
  s1 = s1
  s2 = s2
  x = x
  y = y
  None = None
  NoFile = NoFile
  Empty = Empty
  NoOp = NoOp
  Main = Main
  Side = Side
  Kinds <- AllKinds
  Settings <- MCSettings
  Texts <- MCTexts
  MaxPoints = 2
  MaxEdits = 2
  MaxRefused = 2
  MaxCrashes = 1
SYMMETRY PointSymmetry
INVARIANTS
  TypeOK
  OriginalIsKept
  FailureIsUndone
  ManagedIsRestorable
  RestoreIsExact
CHECK_DEADLOCK FALSE
