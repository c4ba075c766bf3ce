SPECIFICATION Spec
CONSTANTS
  BucketCount = 1
  BucketDuration = 1
  AccountIDs = {1, 2}
  MinCredits = 1
  MaxErrorRate <- OneHalf
  Requests = {1, 2}
  Hash <- HashByRequest
  Modes = {"stream"}
  OpenErrors <- RetryableErrors
  Frames <- OddFrames
  Balances = {0}
  MaxTime = 1
  MaxEdits = 0
  InitAccounts <- TwoFresh
INVARIANTS
  TypeOK
  StatsAreHistory
  EntryTellsTheTruth
CHECK_DEADLOCK FALSE
