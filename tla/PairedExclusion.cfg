CONSTANTS
  Runs = {r1, r2}
  Engine = "postgresql"
  Plan <- MCPlainPlan
  Cancellable = {}
  MaxRestarts = 1
  NoRun = NoRun
SPECIFICATION Spec
INVARIANTS MeasuredOwnService StoppedStaysStopped
SYMMETRY MCSymmetry
CHECK_DEADLOCK FALSE
