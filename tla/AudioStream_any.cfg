CONSTANTS
  d1 = d1
  d2 = d2
  r1 = r1
  r2 = r2
  None = None
  Ser = Ser
  Dials <- TwoDials
  Rings <- OneRing
  Handles = {1, 2, 3, 4}
  Threads = {1, 2, 3}
  MaxStarts = 1
SPECIFICATION FairSpec
INVARIANTS NothingLeaks CapturesRated IdleMeansClosed CaptureHandleOpen
PROPERTIES HangupCompletes
CHECK_DEADLOCK FALSE
