SPECIFICATION Spec
CONSTANTS
  main = main
  capture = capture
  Producers <- MCProducers
  SEND_LIMIT = 2
  MaxClients = 2
  MaxMessages <- OneEach
  RecvTimeout = TRUE
CHECK_DEADLOCK FALSE
INVARIANT
  FailedIsNotSent
