SPECIFICATION Spec
CONSTANTS
  t1 = t1
  t2 = t2
  Tools <- MCTools
  NoTool = NoTool
  MaxPieces = 2
  MaxWire = 10
CHECK_DEADLOCK FALSE
INVARIANTS
  TypeOK
  NeverFabricated
  SuccessIsWhole
  ArgumentsInOrder
  EndIsTold
  ToolsAreClosed
PROPERTIES
  EveryStreamEnds
