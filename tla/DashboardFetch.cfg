SPECIFICATION SlowPagesSpec
CONSTANTS
  CardChangers = {h1, h2}
  Deleters = {}
  Recorders = {t1}
  Pages = {p1}
  Capacity = 1
PROPERTIES
  EventsAreFetched
CHECK_DEADLOCK FALSE
