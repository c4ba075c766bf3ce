SPECIFICATION FairSpec
CONSTANTS
  Protocols = {"anthropic", "openai"}
  MaxEvents = 4
INVARIANTS
  ClientAccepts
  StreamedEqualsAccumulated
  CompletionIsHonest
  RowMatchesStream
PROPERTIES
  CancelledStreamEnds
CHECK_DEADLOCK FALSE
