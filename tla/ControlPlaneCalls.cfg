SPECIFICATION Spec
CONSTANTS
  i1 = i1
  Calls = {c1, c2, c3}
  Ids <- OneId
  Keys <- KeysOfOne
  None = None
  TTL = 1
  MaxCalls = 2
  MaxCorrections = 1
  MaxClock = 3
SYMMETRY Alike
INVARIANTS AnsweredOnce ReplaysAreFresh LockHasOwner CountedInferences
CHECK_DEADLOCK FALSE
