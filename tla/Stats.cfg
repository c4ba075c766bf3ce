SPECIFICATION Spec
CONSTANTS
  BucketCount = 3
  BucketDuration = 2
  Times <- MCTimes
  MaxRecords = 3
INVARIANTS
  SnapshotIsTheWindow
  WindowMatchesLedger
  NotForgottenEarly
PROPERTIES
  ImplementsWindow
