SPECIFICATION FairSpec
CONSTANTS
  MaxObjects = 2
  MaxBoots = 2
  MaxNoise = 1
INVARIANTS
  TypeOK
  FreshWeight
  ZeroedBeforeUse
PROPERTIES
  WeighingSpec
  WeighingReturns
CHECK_DEADLOCK FALSE
