SPECIFICATION Spec
CONSTANTS
  Tokens = {"t1", "t2"}
  Calls = {"c1", "c2", "c3"}
  TTL = 2
  MaxTime = 4
INVARIANTS
  StoreTellsTheTruth
  OneAdmissionPerStart
PROPERTIES
  NothingKeptTooLong
  ImplementsOneTimeTokens
CHECK_DEADLOCK FALSE
