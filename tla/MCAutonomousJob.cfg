SPECIFICATION MCSpec
CONSTANTS
  Jobs = {j1}
  Files = {f1, f2}
  MaxIterations = 1
  MaxFixAttempts = 1
  MaxProviderCalls = 1
  MaxFilesChanged = 1
  MaxCommands = 1
  CounterCap = 2
INVARIANTS AbortIsFinal
PROPERTIES TerminalIsFinal OverLimitStops
CHECK_DEADLOCK FALSE
