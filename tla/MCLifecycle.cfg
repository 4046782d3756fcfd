SPECIFICATION Spec
CONSTANTS
  g1 = g1
  g2 = g2
  c1 = c1
  p1 = p1
  p2 = p2
  Nobody = Nobody
  Missing = Missing
  NoPort = NoPort
  Gateways <- MCGateways
  Commands <- MCCommands
  Ports <- MCPorts
  ConfiguredPort = p1
  LeftBehind <- MCLeftBehind
  MaxStarts = 2
  MaxCommands = 1
  MaxChanges = 1
  MaxFaults = 1
INVARIANTS
  TypeOK
  PidNamesServer
PROPERTIES
  RegistrationAgrees
  StopEnds
CHECK_DEADLOCK FALSE
