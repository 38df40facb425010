SPECIFICATION Spec
CONSTANTS
  Columns <- MCColumns
  Rows <- MCRows
  Images <- MCImages
  UINT16_MAX = 65535
INVARIANTS
  TypeOK
  AverageBounded
  DarkIfLastDark
  AreaIsBoundingBox
  WidestEarlierRow
CHECK_DEADLOCK FALSE
