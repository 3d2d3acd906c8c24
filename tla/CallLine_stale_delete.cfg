CONSTANTS
  d1 = d1
  d2 = d2
  r1 = r1
  r2 = r2
  r3 = r3
  None = None
  Dials <- TwoDials
  Rings <- NoCalls
  MaxResolves = 0
  MaxUnplugs = 0
  Failures = FALSE
  ProxyDelivers = FALSE
SPECIFICATION Spec
PROPERTIES DeletesOnlyTerminated
SYMMETRY DialSwaps
CHECK_DEADLOCK FALSE
