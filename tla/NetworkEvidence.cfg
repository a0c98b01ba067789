CONSTANTS
  Runs = {r1, r2}
  Profile <- MCTcpOnly
  Directions <- MCForward
  PortCount = 2
  Cancellable = {}
  MaxRestarts = 1
  NoRun = NoRun
SPECIFICATION Spec
INVARIANTS TypeOK EvidencePaired CompletedRunLeftNothing
SYMMETRY MCSymmetry
CHECK_DEADLOCK FALSE
