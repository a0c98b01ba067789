CONSTANTS
  Runs = {r1}
  Agents = {a1}
  Hosts = {host}
  Cancellable = {r1}
  Handlers = {h1}
  MaxJobs = 1
  MaxRestarts = 1
  NoRun = NoRun
  NoAgent = NoAgent
SPECIFICATION FairSpec
INVARIANTS TerminalRunReleasesTarget OpenRunHasWorker ControlInv
PROPERTIES EveryRunEnds LoadStopsAfterRun ResultIsAcknowledged
CHECK_DEADLOCK FALSE
