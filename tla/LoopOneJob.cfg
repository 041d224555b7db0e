SPECIFICATION LoopFairSpec
CONSTANTS
  f1 = f1
  f2 = f2
  Jobs = {j1}
  Files = {f1}
  GenFile = f1
  Runs = {r1, r2}
  Idle = Idle
  MaxIterations = 2
  MaxFixAttempts = 2
  MaxRepairs = 2
  MaxProviderCalls = 3
  MaxFilesChanged = 1
  MaxCommands = 4
  Customs <- NoOps
  CustomTasks = {}
  Claims = {"pass"}
  Runners = {"tests", "regression"}
  Timed = {j1}
  Prices = {TRUE, FALSE}
INVARIANTS LoopTypeOK DeliveredWasTested ImplementedOnce WithinLimits RepairsBounded
PROPERTIES Spec RunsEnd
CHECK_DEADLOCK FALSE
