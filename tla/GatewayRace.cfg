SPECIFICATION MCFairSpec
CONSTANTS
  Providers = {p1, p2}
  Registered = {p1}
  Callers = {c1, c2}
  None = None
  Threshold = 2
  Cooldown = 2
  MaxRetries = 1
  MaxCalls = 2
  MaxClock = 3
  MaxFailures = 2
INVARIANTS OvershootBounded AsksBounded CountsFailuresInARow
PROPERTIES CooldownIsKept DispatchEnds
CHECK_DEADLOCK FALSE
