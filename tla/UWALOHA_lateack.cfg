CONSTANTS
  RxPr <- MCRxPr
  CPThresh = 2
  Bcast = 99
  Broadcast = 99
  Node <- Pair
  Hears <- PairHears
  Forward <- PairHears
  Traffic <- PairTraffic
  ACKOn = {2, 3}
  Persistent = TRUE
  Lossy = {}
  BitErrors = FALSE
  MaxInFlight = 3
  MaxSends = 6
SPECIFICATION Spec
INVARIANT LateAckIgnored
CHECK_DEADLOCK FALSE
