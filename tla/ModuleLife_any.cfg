CONSTANTS
  o1 = o1
  o2 = o2
  None = None
  Objects <- TwoObjects
  MaxLoads = 2
  MaxReloads = 1
SPECIFICATION FairSpec
INVARIANTS NothingLeft ThreadsUseLive
PROPERTIES LifeSettles ObjectsAttached
CHECK_DEADLOCK FALSE
