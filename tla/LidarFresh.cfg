SPECIFICATION Spec
CONSTANTS
  FILTER_CNT = 1
  MAX_FRAME_CNT = 2
  MaxRounds = 2
CHECK_DEADLOCK FALSE
INVARIANT
  FramesFresh
