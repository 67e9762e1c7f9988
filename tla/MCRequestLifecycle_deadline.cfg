SPECIFICATION ResponsiveSpec
CONSTANTS
  r1 = r1 r2 = r2
  Requests = {r1, r2}
  AdmissionLimit = 1 MaxInterventions = 1
\* Every request is served once.
CHECK_DEADLOCK FALSE
PROPERTY DeadlineEndsRequests
