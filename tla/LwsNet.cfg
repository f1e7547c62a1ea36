SPECIFICATION FairSpec
CONSTANTS
  Data = {d1, d2, d3}
  Callers = {gtk, timer}
  MaxPolls = 2
  MaxOpens = 2
  SlowPeer = TRUE
  StrayCloses = FALSE
INVARIANT WakeupsMatchQueue
PROPERTIES Fifo Drained OpenReturns
CHECK_DEADLOCK FALSE
