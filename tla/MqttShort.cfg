SPECIFICATION Spec
CONSTANTS
  Contents = {c1}
  Topics = {t1}
  MaxPackets = 3
  IdMod <- FewIds
  LongSessions = FALSE
  ShortKeepalive = TRUE
  ConnectTries = 0
  Incoming <- OneIncoming
  InboxBound = 2
  BrokerMayClose = TRUE
  MaxSessions = 1
  CleanSession = TRUE
  UserQoS = {2}
  SlowConnack = TRUE
INVARIANTS IncomingStored SubscriptionsAgree DeliveredOnce AnswerMatchesRequest
PROPERTY NoOverwrite
CHECK_DEADLOCK FALSE
