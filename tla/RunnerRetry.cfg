SPECIFICATION SilentUpstreamSpec
CONSTANTS
  BucketCount = 1
  BucketDuration = 1
  AccountIDs = {1, 2, 3}
  MinCredits = 1
  MaxErrorRate <- OneHalf
  Requests = {1}
  Hash <- HashByRequest
  Modes = {"stream", "unary"}
  OpenErrors <- AllOpenErrors
  Frames <- AllFrames
  Balances = {0}
  MaxTime = 0
  MaxEdits = 2
  InitAccounts <- MixedAccounts
INVARIANTS
  NoAccountPassedOver
  BudgetIsUsed
PROPERTIES
  RequestsEnd
  CancelledRequestsEnd
CHECK_DEADLOCK FALSE
