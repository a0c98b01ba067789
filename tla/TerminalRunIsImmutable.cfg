CONSTANTS
  Runs = {r1}
  Agents = {a1}
  Hosts = {}
  Cancellable = {r1}
  Handlers = {h1}
  MaxJobs = 1
  MaxRestarts = 0
  NoRun = NoRun
  NoAgent = NoAgent
SPECIFICATION Spec
PROPERTY TerminalRunIsImmutable
CHECK_DEADLOCK FALSE
