CONSTANTS
  RxPr <- MCRxPr
  CPThresh = 2
  Node <- Star
  Hears <- StarHears
  Prop <- MCProp
  WakeAt <- StarWake
  PeriodInterval = 40
  Duration = 11
  ShortTx = 2
  RevTx = 1
  LargeTx = 4
  MaxLarge = 5
  Traffic <- BothTraffics
  UnsetBit = {TRUE, FALSE}
  NoisyTypes = {"REV", "ACKREV", "DATA", "ACKDATA"}
  MaxNoise = 1
SPECIFICATION Spec
INVARIANTS
  TypeOK
  LossNeedsLostData
  AbortNeedsACKData
  DataMeetsItsWindow
CHECK_DEADLOCK FALSE
