SPECIFICATION Spec
CONSTANTS
  c1 = c1
  c2 = c2
  p1 = p1
  p2 = p2
  p3 = p3
  NoPort = NoPort
  Cameras <- MCCameras
  Ports <- MCPorts
  IR_FILTER_CNT = 3
  ERR_LIMIT = 5
  FirstCurrState <- AnyState
  FreedNodeIntact = TRUE
SYMMETRY Symmetry
INVARIANTS
  TypeOK
  BeltStandsStill
  JoinedBeforeBelt
  BeltOffAtEnd
  DuplicateOnlyAfterRetry
  HandlersFindTheirDevices
PROPERTIES
  NoLeakAfterInit
  WeighingSpec
