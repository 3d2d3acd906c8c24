CONSTANTS
  t1 = t1
  b1 = b1
  Sms <- Both
  Text <- Texts
  MaxRechecks = 1
  MaxReloads = 1
  MaxReplugs = 1
  MaxRestarts = 1
  Failures = TRUE
SPECIFICATION FairSpec
INVARIANTS TextsSafe RefsAccounted
PROPERTIES ChainsEnd NoticesRecovered
CHECK_DEADLOCK FALSE
