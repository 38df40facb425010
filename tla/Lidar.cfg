SPECIFICATION FairLidarSpec
CONSTANTS
  FILTER_CNT = 3
  MAX_FRAME_CNT = 3
  MaxRounds = 3
  Props = {"framerate", "flying_pixel_remove_filter"}
  MisreadProps = {"flying_pixel_remove_filter"}
  MaxAttempts = 3
CHECK_DEADLOCK FALSE
INVARIANTS
  LidarTypeOK
  AtMostOneStale
  UnsettledDropped
  FramesHeard
  DeletedObjectsUnused
  DefaultsHold
PROPERTY
  DrainEnds
