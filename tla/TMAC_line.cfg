CONSTANTS
  RxPr <- MCRxPr
  CPThresh = 2
  Node <- Line
  Hears <- LineHears
  Prop <- MCProp
  Uniform = {0, 3, 9}
  ShortTx = 2
  ND_window = 30
  ACKND_window = 30
  PhaseOne_window = 100
  PhaseTwo_window = 30
  PhaseTwo_interval = 30
  PhaseOne_cycle = 1
  PhaseTwo_cycle = 1
  IntervalPhase2Phase3 = 80
  PeriodInterval = 250
  UnsetSum = {0, 5}
  RtsTx = 1
  LargeTx = 13
  MaxShort = 1
  MaxLarge = 12
  MaxProp = 16
  DataTime = 14
  ContentionWindow = 25
  MinBackoffWindow = 12
  TAduration = 87
  Starts <- MCStarts
  MaxNoise = 1
SPECIFICATION Spec
INVARIANTS
  TypeOK
  LearnedIsExact
  ReleasedWasReceived
  NeverAborted
  AwakeHasTimer
  DisturberMissedCTS
CHECK_DEADLOCK FALSE
