SPECIFICATION Spec
CONSTANTS
  Topics = {t1}
  Contents = {c1}
  None = None
  CoapMaxNumber = 3
  Incoming <- SameAndOtherId
  NonConfirmable <- OtherId
  Secure = FALSE
  CoapPingDue = FALSE
  CoapResendDue = TRUE
  ServerPing = {}
  MaxLosses = 0
  SocketMayFail = FALSE
  Rejected = {}
  CoapMaxSessions = 1
  CoapCleanSession = FALSE
  SlowUser = TRUE
INVARIANTS CoapSavedOnceDelivered CoapIncomingStored CoapListMirrorsDb
PROPERTY CoapKeepsPromise
CHECK_DEADLOCK FALSE
