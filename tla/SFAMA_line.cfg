CONSTANTS
  RxPr <- MCRxPr
  CPThresh = 2
  Node <- Line
  Hears <- LineHears
  Traffic <- Relay
  MaxBurst = 1
  MaxBackoffSlots = 2
  PktTxTime = 13
  CTSTxTime = 2
  DataSendingInterval = 0
  SlotLen = 10
  OneSecond = 1
  TwoSeconds = 2
  UnsetSlotnum = {0}
SPECIFICATION Spec
INVARIANTS
  TypeOK
  StallNeedsBusyRadio
  NeverAborted
  DataUndisturbed
PROPERTY ReliableSpec
CHECK_DEADLOCK FALSE
