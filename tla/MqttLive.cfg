SPECIFICATION FairSpec
CONSTANTS
  Contents = {c1}
  Topics = {t1}
  MaxPackets = 1
  IdMod <- FewIds
  LongSessions = TRUE
  ShortKeepalive = FALSE
  ConnectTries = 0
  Incoming <- NoIncoming
  InboxBound = 2
  BrokerMayClose = FALSE
  MaxSessions = 1
  CleanSession = TRUE
  UserQoS = {1, 2}
  SlowConnack = TRUE
PROPERTIES PublishEventuallySaved LoginCompletes
CHECK_DEADLOCK FALSE
