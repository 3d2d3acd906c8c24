CONSTANTS
  k1 = k1
  s1 = s1
  s2 = s2
  None = None
  Keys <- OneKey
  Sms <- TwoSms
  KeyOf <- KeyOfTwo
  Relative <- NoKeys
  MaxRetries = 2
  Backoff <- Steps
  CallRetry = 1
  Grace = 1
  Lifetime = 2
  MaxCalls = 1
  MaxRestarts = 1
  Reconfigs = TRUE
SPECIFICATION FairSpec
INVARIANTS TypeOK DeliveredOnce NoticesKept
PROPERTIES ImplementsInbox NoticesSettled ShutdownCompletes
