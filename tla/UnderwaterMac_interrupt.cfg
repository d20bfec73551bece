CONSTANTS
  strong = strong
  weak = weak
  faint = faint
  lost = lost
  Packets <- TwoSignals
  RxPr <- MCRxPr
  CPThresh = 2
  RXThresh = 2
SPECIFICATION FairSpec
PROPERTY InterruptStopsReception
CHECK_DEADLOCK FALSE
