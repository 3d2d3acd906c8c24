CONSTANTS
  d1 = d1
  d2 = d2
  r1 = r1
  r2 = r2
  r3 = r3
  None = None
  Dials <- OneDial
  Rings <- OneRing
  MaxResolves = 1
  MaxUnplugs = 0
  Failures = TRUE
  ProxyDelivers = FALSE
SPECIFICATION Spec
INVARIANTS TypeOK OwnerAlive SubscriptionsAccounted
PROPERTIES StatesAdvance
CHECK_DEADLOCK FALSE
