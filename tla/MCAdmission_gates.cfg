SPECIFICATION Spec
CONSTANTS
  p1 = p1 p2 = p2 r1 = r1 r2 = r2 r3 = r3 probe = probe
  Requests = {r1, r2, r3} Probes = {} Principals = {p1, p2} PrincipalOf <- TwoKeys
  GlobalMode = FALSE
  AdmissionLimit = 2 PrincipalLimit = 1 ConcurrencyLimit = 1
  RateLimit = 1 RateWindow = 1
  AdmissionWait = 1 ConcurrencyWait = 1
  Prompt = FALSE MaxOperations = 1 LastArrival = 1 LastTick = 2
\* Every request is served once, and the clock stops at LastTick.
CHECK_DEADLOCK FALSE
SYMMETRY PairSymmetry
INVARIANTS
  TypeOK
  BudgetsConsistent
  LimitsHold
PROPERTY ImplementsGate
