SPECIFICATION FairSpec
CONSTANTS
  Cams = 2
  MAX_Q_SIZE = 2
  MaxRequests = 4
  AsyncStop = FALSE
CHECK_DEADLOCK FALSE
INVARIANTS
  TypeOK
  NoLostWakeup
PROPERTIES
  ChannelSpec
  RequestReturns
  PicturesDecided
  ListenerJoins
  CancelEnds
