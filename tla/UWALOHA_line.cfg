CONSTANTS
  RxPr <- MCRxPr
  CPThresh = 2
  Bcast = 99
  Broadcast = 99
  Node <- Line
  Hears <- LineHears
  Forward <- LineForward
  Traffic <- LineTraffic
  ACKOn = {2, 3}
  Persistent = FALSE
  Lossy = {4}
  BitErrors = TRUE
  MaxInFlight = 2
  MaxSends = 4
SPECIFICATION Spec
INVARIANTS
  TypeOK
  WaitingHasTimer
  StallNeedsBusyRadio
  AckedWasReceived
  HalfDuplex
  CrashNeedsBlockedAck
PROPERTY InOrder
CHECK_DEADLOCK FALSE
