CONSTANTS
  Runs = {r1}
  Profile <- MCWithLatency
  Directions <- MCBothDirections
  PortCount = 2
  Cancellable = {r1}
  MaxRestarts = 1
  NoRun = NoRun
SPECIFICATION FairSpec
PROPERTIES EveryRunEnds ServerEventuallyGone
CHECK_DEADLOCK FALSE
