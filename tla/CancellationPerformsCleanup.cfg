CONSTANTS
  Runs = {r1}
  Engine = "web"
  Plan <- MCPlainPlan
  Cancellable = {r1}
  MaxRestarts = 0
  NoRun = NoRun
SPECIFICATION Spec
PROPERTY CancellationPerformsCleanup
CHECK_DEADLOCK FALSE
