SPECIFICATION ShutdownSpec
CONSTANTS
  Requests = {"r1", "r2", "r3"}
  Dashboards = {"d1"}
  TrafficLogMax = 0
  DefaultMax = 3
  Limit = 2
  MaxTime = 1
INVARIANTS
  LogIsTheEnd
PROPERTIES
  SignalEndsTheProcess
CHECK_DEADLOCK FALSE
