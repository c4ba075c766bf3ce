SPECIFICATION FairSpec
CONSTANTS
  Protocols = {"anthropic", "openai"}
  MaxEvents = 3
PROPERTIES
  FinishEndsTheStream
CHECK_DEADLOCK FALSE
