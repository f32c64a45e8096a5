CONSTANTS
  MaxConns = 2
  MaxSubs = 2
  Sends <- MCSends
  Asked = {"newHeads"}
  Buffer = 1
  MaxBatch = 2
  NoConn = 0
  NoType = NoType
SPECIFICATION LiveSpec
CHECK_DEADLOCK FALSE
INVARIANTS
  TypeOK
  SubscriberGetsAll
  DeadSubscriptionsPruned
PROPERTIES
  NothingAfterUnsubscribe
  LoopNeverWaits
