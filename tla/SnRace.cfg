SPECIFICATION Spec
CONSTANTS
  t1 = t1
  t2 = t2
  Topics <- TwoTopics
  TopicIdOf <- TwoTopicIds
  Contents = {c1, c2}
  MaxNumber = 6
  Secure = TRUE
  Lossy = FALSE
  Duplicated = {}
  LongLived = FALSE
  SnConnectTries = 0
  Incoming <- NoIncoming
  GatewayMayRefuse = FALSE
  GatewayMayClose = FALSE
  HasWill = FALSE
  SnCleanSession = TRUE
  SnMaxSessions = 1
  MaxOps = 2
  SnUserQoS = {0, 1}
  SlowAnswers = TRUE
  AtomicSends = FALSE
INVARIANTS TopicMapsRight
CHECK_DEADLOCK FALSE
