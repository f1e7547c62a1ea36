SPECIFICATION Spec
CONSTANTS
  Contents = {c1}
  Topics = {t1}
  MaxPackets = 1
  IdMod <- FewIds
  LongSessions = TRUE
  ShortKeepalive = FALSE
  ConnectTries = 1
  Incoming <- NoIncoming
  InboxBound = 2
  BrokerMayClose = TRUE
  MaxSessions = 2
  CleanSession = FALSE
  UserQoS = {0, 1, 2}
  SlowConnack = FALSE
INVARIANTS IInv ListMirrorsDb
PROPERTY MqttKeepsPromise
CHECK_DEADLOCK FALSE
