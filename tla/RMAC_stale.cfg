CONSTANTS
  RxPr <- MCRxPr
  CPThresh = 2
  Node <- Star
  Hears <- StarHears
  Prop <- MCProp
  WakeAt <- StarWake
  PeriodInterval = 40
  Duration = 11
  ShortTx = 2
  RevTx = 1
  LargeTx = 4
  MaxLarge = 5
  Traffic <- JustCentre
  UnsetBit = {FALSE}
  NoisyTypes = {"ACKDATA"}
  MaxNoise = 2
SPECIFICATION Spec
INVARIANT HandedUpOnce
CHECK_DEADLOCK FALSE
