SPECIFICATION FairSpec
CONSTANTS
  Topics = {t1}
  Contents = {c1}
  None = None
  CoapMaxNumber = 1
  Incoming = {}
  NonConfirmable = {}
  Secure = FALSE
  CoapPingDue = TRUE
  CoapResendDue = TRUE
  ServerPing = {"PUT"}
  MaxLosses = 1
  SocketMayFail = TRUE
  Rejected = {"GET"}
  CoapMaxSessions = 1
  CoapCleanSession = TRUE
  SlowUser = TRUE
INVARIANT CoapHistoryIsPublished
PROPERTIES CoapLoginReported CoapPublishEventuallySaved
CHECK_DEADLOCK FALSE
