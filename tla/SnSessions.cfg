SPECIFICATION Spec
CONSTANTS
  t1 = t1
  t2 = t2
  Topics <- TwoTopics
  TopicIdOf <- TwoTopicIds
  Contents = {}
  MaxNumber = 4
  Secure = FALSE
  Lossy = TRUE
  Duplicated = {}
  LongLived = FALSE
  SnConnectTries = 0
  Incoming <- OneIncoming
  GatewayMayRefuse = TRUE
  GatewayMayClose = TRUE
  HasWill = FALSE
  SnCleanSession = FALSE
  SnMaxSessions = 2
  MaxOps = 2
  SnUserQoS = {0, 1}
  SlowAnswers = TRUE
  AtomicSends = FALSE
INVARIANTS  IncomingNotMisfiled
CHECK_DEADLOCK FALSE
