SPECIFICATION SlowPagesSpec
CONSTANTS
  CardChangers = {h1, h2}
  Deleters = {d1}
  Recorders = {t1}
  Pages = {p1}
  Capacity = 1
INVARIANTS
  NeverSendsOnClosed
  NewsIsOnItsWay
PROPERTIES
  BroadcastsReturn
  SubscribersCatchUp
CHECK_DEADLOCK FALSE
