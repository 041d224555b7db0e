SPECIFICATION Spec
CONSTANTS
  JobIds = {j1, j2}
  TaskIds = {t1}
  ResultIds = {r1}
  NoJob = NoJob
  Watched = {j1}
  Paddings = {FALSE}
  WritesMayFail = FALSE
INVARIANTS Durable NoDanglingTask
PROPERTIES FinalWhenSeen StoreSpec
CHECK_DEADLOCK FALSE
