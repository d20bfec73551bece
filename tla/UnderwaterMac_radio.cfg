CONSTANTS
  strong = strong
  weak = weak
  faint = faint
  lost = lost
  Packets <- AllSignals
  RxPr <- MCRxPr
  CPThresh = 2
  RXThresh = 2
SPECIFICATION FairSpec
INVARIANTS
  TypeOK
  ReceptionMeansCapture
  ChannelBookkeeping
  ArrivingIsOnChannel
PROPERTIES
  SleepStopsReception
  AcceptedIsHandedUp
CHECK_DEADLOCK FALSE
