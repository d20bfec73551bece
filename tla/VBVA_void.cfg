CONSTANTS
  Node <- Places
  X <- MCX
  Y <- MCY
  Width <- MCWidth
  TransmitDistance = 100
  Flow <- MCFlow
  DELAY = 30
  JITTER = 3
  MetresPerTick = 50
  Jitters = {0, 3}
  NoNode = 0
  NoReturn = {TRUE, FALSE}
  MAX_NEIGHBOR = 10
  MaxFaults <- MCMaxFaults
SPECIFICATION FairSpec
INVARIANTS TypeOK DeliveredOnce TargetNeverRefuses FloodedIsHandled
PROPERTY Delivered
CHECK_DEADLOCK FALSE
