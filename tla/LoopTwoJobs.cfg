SPECIFICATION LoopSpec
CONSTANTS
  f1 = f1
  f2 = f2
  Jobs = {j1, j2}
  Files = {f1, f2}
  GenFile = f1
  Runs = {r1, r2}
  Idle = Idle
  MaxIterations = 1
  MaxFixAttempts = 1
  MaxRepairs = 1
  MaxProviderCalls = 2
  MaxFilesChanged = 1
  MaxCommands = 3
  Customs <- TwoOps
  CustomTasks = {t1}
  Claims = {"fail"}
  Runners = {}
  Timed = {}
  Prices = {FALSE}
INVARIANTS WritesAreListed InvocationsBounded
CHECK_DEADLOCK FALSE
SYMMETRY Alike
