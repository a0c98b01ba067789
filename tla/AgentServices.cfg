CONSTANTS
  first = first
  second = second
  other = other
  Tasks = {first, second, other}
  Assignments <- MCAssignments
  MaxFaults = 1
  MaxWorkers = 1
  NoTask = NoTask
SPECIFICATION FairSpec
INVARIANTS TypeOK ReadyMeansOwn NoStrayProcess CleanupVerifiedIsTrue
PROPERTIES ServiceRemoved ImplementsService
CHECK_DEADLOCK FALSE
