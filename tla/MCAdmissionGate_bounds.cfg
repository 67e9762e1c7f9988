SPECIFICATION GateSpec
CONSTANTS
  p1 = p1 p2 = p2 r1 = r1 r2 = r2 r3 = r3 r4 = r4 probe = probe
  Requests = {r1, r2, r3, r4, probe} Probes = {probe} Keys = {p1, p2}
  BudgetKey <- MCBudgetKey
  AdmissionLimit = 2 PrincipalLimit = 1 ConcurrencyLimit = 1
  RateLimit = 2 RateWindow = 2
  LastTick = 3
\* Every request is served once, and the clock stops at LastTick.
CHECK_DEADLOCK FALSE
INVARIANTS
  RateBounded
