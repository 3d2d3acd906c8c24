CONSTANTS
  d1 = d1
  d2 = d2
  r1 = r1
  r2 = r2
  r3 = r3
  None = None
  Dials <- NoCalls
  Rings <- TwoRings
  MaxResolves = 0
  MaxUnplugs = 1
  Failures = TRUE
  ProxyDelivers = TRUE
SPECIFICATION FairSpec
INVARIANTS LineKeptApart FramesFromOwnCall
PROPERTIES DeletesOnlyTerminated RingsDisposed TerminationFreesLine UnpluggedChannelEnds
CHECK_DEADLOCK FALSE
