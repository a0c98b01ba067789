CONSTANTS
  Runs = {r1, r2}
  Profile <- MCTcpOnly
  Directions <- MCForward
  PortCount = 2
  Cancellable = {}
  MaxRestarts = 0
  NoRun = NoRun
SPECIFICATION Spec
INVARIANTS OneSaturationSuite
SYMMETRY MCSymmetry
CHECK_DEADLOCK FALSE
