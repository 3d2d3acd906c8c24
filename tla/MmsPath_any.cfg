CONSTANTS
  t1 = t1
  t2 = t2
  t3 = t3
  t4 = t4
  None = None
  Txns <- Messages
  TxnId <- Ids
  Parts <- PartsOfMessage
  Chunks <- ChunksOfMessage
  Plain <- Letters
  IdMax = 2
  MaxSize = 2
  Pushes <- AllPushes
  Usual <- OnePush
  MmsMedia <- Types
  MaxDeliveries = 2
SPECIFICATION Spec
INVARIANTS PushFound MessageArrives
CHECK_DEADLOCK FALSE
