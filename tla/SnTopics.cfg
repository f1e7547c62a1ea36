SPECIFICATION FairSpec
CONSTANTS
  t1 = t1
  t2 = t2
  Topics <- TwoTopics
  TopicIdOf <- TwoTopicIds
  Contents = {c1, c2}
  MaxNumber = 6
  Secure = TRUE
  Lossy = FALSE
  Duplicated = {"REGACK", "PUBACK"}
  LongLived = TRUE
  SnConnectTries = 0
  Incoming <- NoIncoming
  GatewayMayRefuse = FALSE
  GatewayMayClose = FALSE
  HasWill = TRUE
  SnCleanSession = TRUE
  SnMaxSessions = 1
  MaxOps = 2
  SnUserQoS = {1, 2}
  SlowAnswers = TRUE
  AtomicSends = TRUE
INVARIANTS TopicMapsRight PublishedToItsTopic SnAnswerMatchesRequest
PROPERTIES LoginReported SnPublishEventuallySaved SnKeepsPromise
CHECK_DEADLOCK FALSE
