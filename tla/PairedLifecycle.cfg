CONSTANTS
  Runs = {r1}
  Engine = "mysql"
  Plan <- MCMySQLPlan
  Cancellable = {r1}
  MaxRestarts = 1
  NoRun = NoRun
SPECIFICATION FairSpec
INVARIANTS TypeOK CompletedRunLeftNothing CleanupScheduled
PROPERTIES EveryRunEnds ServiceEventuallyGone
CHECK_DEADLOCK FALSE
