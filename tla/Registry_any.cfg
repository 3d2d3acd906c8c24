CONSTANTS
  m1 = m1
  m2 = m2
  a = a
  b = b
  None = None
  Devices <- OneModem
  Cards <- OneCard
  MaxLoads = 2
  MaxPaths = 2
  Failures = FALSE
SPECIFICATION FairSpec
INVARIANTS TypeOK HandlersPaired CallsKeepModem CommandsOnce
PROPERTIES CommandsRun HotplugAttaches
CHECK_DEADLOCK FALSE
