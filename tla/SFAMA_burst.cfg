CONSTANTS
  RxPr <- MCRxPr
  CPThresh = 2
  Node <- Pair
  Hears <- PairHears
  Traffic <- BothWays
  MaxBurst = 2
  MaxBackoffSlots = 2
  PktTxTime = 8
  CTSTxTime = 4
  DataSendingInterval = 0
  SlotLen = 10
  OneSecond = 1
  TwoSeconds = 2
  UnsetSlotnum = {0}
SPECIFICATION Spec
INVARIANT ReleasedWasReceived
CHECK_DEADLOCK FALSE
