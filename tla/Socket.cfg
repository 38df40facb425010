SPECIFICATION PoliteSpec
CONSTANTS
  main = main
  capture = capture
  Producers <- MCProducers
  SEND_LIMIT = 1
  MaxClients = 2
  MaxMessages <- MCMessages
  RecvTimeout = TRUE
CHECK_DEADLOCK FALSE
INVARIANTS
  TypeOK
  QueueBounded
  CheckedPointerIsLive
PROPERTIES
  ChannelSpec
  ServiceEnds
