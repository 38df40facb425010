SPECIFICATION PoliteSpec
CONSTANTS
  main = main
  capture = capture
  Producers <- MCProducers
  SEND_LIMIT = 2
  MaxClients = 2
  MaxMessages <- OneEach
  RecvTimeout = FALSE
CHECK_DEADLOCK FALSE
PROPERTY
  ReceiveTimesOut
