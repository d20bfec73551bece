CONSTANTS
  Node <- Places
  Hears <- MCHears
  NextHops <- Everybody
  MAC_BROADCAST = 0
  Sinks = {7}
  Scripts <- MCScripts
  Target <- MCTarget
  Close <- MCClose
  Desire <- MCDesire
  Unit = 3
  HopByHop = FALSE
  WINDOW_SIZE = 1
  MAX_NEIGHBOR = 3
  MaxPackets = 3
SPECIFICATION FairSpec
INVARIANTS
  TypeOK
  OnceWithinWindow
PROPERTIES
  QuietOnlyBehindARelay
  EventuallyQuiet
CHECK_DEADLOCK FALSE
