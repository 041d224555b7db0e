SPECIFICATION MCSpec
CONSTANTS
  p1 = p1  p2 = p2  m1 = m1  m2 = m2  c1 = c1  c2 = c2
  Providers = {p1, p2}
  Models = {m1, m2}
  Credentials = {c1, c2}
  NoCredential = none
  ProviderOf <- Owner
  Tasks = {t1, t2, t3}
  PoolCooldown = 1
  MaxConcurrent = 1
  Threshold = 2
  Cooldown = 2
  MaxAttempts = 2
  MaxClock = 1
  MaxChanges = 1
INVARIANTS SlotsComeBack
PROPERTIES WaitsWhenTold CircuitsStayOpen
CHECK_DEADLOCK FALSE
SYMMETRY Alike
