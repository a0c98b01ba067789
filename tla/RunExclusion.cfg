CONSTANTS
  Runs = {r1, r2}
  Agents = {a1}
  Hosts = {host}
  Cancellable = {}
  Handlers = {h1}
  MaxJobs = 1
  MaxRestarts = 1
  NoRun = NoRun
  NoAgent = NoAgent
SPECIFICATION Spec
INVARIANTS TypeOK TargetExclusive
PROPERTY ImplementsLedger
SYMMETRY MCSymmetry
CHECK_DEADLOCK FALSE
