CONSTANTS
  TaskIds = {t1, t2, t3}
  Runs = {r1, r2}
  Agents = {a1, a2}
  Evidence <- MCEvidence
  NoRun = NoRun
  NoAgent = NoAgent
SPECIFICATION Spec
INVARIANTS TasksTypeOK SecretOnlyWhileActive NoOvertaking
PROPERTY ClosedTaskIsFinal
SYMMETRY MCSymmetry
