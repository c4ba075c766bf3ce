SPECIFICATION Spec
CONSTANTS
  Protocols = {"anthropic", "openai"}
  ScanBufMax = 2
  MaxPieces = 4
  MaxTurns = 3
  MaxNoise = 1
  MaxFailures = 1
INVARIANTS
  EventsArrive
  UpstreamIsShownWhatWasSaid
  ResultsFollowCalls
PROPERTIES
  MessagesOnlyGrow
CHECK_DEADLOCK FALSE
