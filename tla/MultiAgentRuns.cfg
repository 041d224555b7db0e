SPECIFICATION Spec
CONSTANTS
  a1 = a1
  a2 = a2
  a3 = a3
  a4 = a4
  Agents = {a1, a2, a3, a4}
  Executions = {x1, x2}
  Plans <- SomePlans
  Places = 4
  MaxCalls = 2
  MaxAgents = 3
INVARIANTS CompletedIsWhole OvershootByTeams
PROPERTIES ExecutionsEnd
CHECK_DEADLOCK FALSE
