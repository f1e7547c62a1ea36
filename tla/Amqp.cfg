SPECIFICATION Spec
CONSTANTS
  Topics = {t1, t2}
  Contents = {c1, c2}
  AmqpIncoming <- FirstMessage
  MaxHandle = 3
  MaxDelivery = 2
  ShortMod = 65536
  NoTopic = NoTopic
  NoContent = NoContent
  ServerHandle = 3
  PeerMayRefuse = TRUE
  PeerMayClose = FALSE
  InboxBound = 1
  MaxSessions = 2
  CleanSession = FALSE
  OutboxBound = 1
  UserSettled = {FALSE}
INVARIANTS  AmqpIncomingFiled AmqpSavedOnceOrStored ListedIsLinked LoginNeverStalls
PROPERTY AmqpKeepsPromise
SYMMETRY AnyContent
CHECK_DEADLOCK FALSE
