SPECIFICATION Spec
CONSTANTS
  JobIds = {j1}
  TaskIds = {t1}
  ResultIds = {r1}
  NoJob = NoJob
  Watched = {j1}
  Paddings = {FALSE}
  WritesMayFail = TRUE
INVARIANTS NoDanglingTask
CHECK_DEADLOCK FALSE
