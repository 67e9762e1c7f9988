SPECIFICATION FairSpec
CONSTANTS
  p1 = p1 p2 = p2 r1 = r1 r2 = r2 r3 = r3 probe = probe
  Requests = {r1, r2, probe} Probes = {probe} Principals = {p1, p2} PrincipalOf <- WithProbe
  GlobalMode = TRUE
  AdmissionLimit = 1 PrincipalLimit = 1 ConcurrencyLimit = 1
  RateLimit = 2 RateWindow = 1
  AdmissionWait = 1 ConcurrencyWait = 1
  Prompt = TRUE MaxOperations = 2 LastArrival = 1 LastTick = 3
\* Every request is served once, and the clock stops at LastTick.
CHECK_DEADLOCK FALSE
PROPERTIES
  WaitsEnd
  CancelledRequestsLeave
