SPECIFICATION Spec
CONSTANTS
  e1 = e1
  e2 = e2
  t1 = t1
  t2 = t2
  Tasks = {t1, t2}
  Elsewhere = {t1, t2}
  Executions = {e1, e2}
  Drafts <- Unlike
  Actions <- Sent
  Omissions <- Complete
  None = None
  MaxApprovals = 2
  MaxNow = 1
  MaxCrashes = 1
  MaxEffects = 2
  Lifetime = 0
  MaxCycles = 1
SYMMETRY Symmetric
INVARIANTS OneExecutionPerTask RunsOnlyApproved ResultsAccount AnswerTellsEffect
PROPERTIES LostWorkStaysUndone
CHECK_DEADLOCK FALSE
