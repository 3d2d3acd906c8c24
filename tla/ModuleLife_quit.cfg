CONSTANTS
  o1 = o1
  o2 = o2
  None = None
  Objects <- TwoObjects
  MaxLoads = 1
  MaxReloads = 0
SPECIFICATION FairSpec
PROPERTIES LoopJoined
CHECK_DEADLOCK FALSE
