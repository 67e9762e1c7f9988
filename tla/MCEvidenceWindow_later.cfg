SPECIFICATION Spec
CONSTANTS
  Turns <- TwoCases
  MaxCalls = 2
  MaxFaults = 1
  ScenarioDeadline = TRUE
\* The window ends with a verdict.
CHECK_DEADLOCK FALSE
INVARIANTS
  LaterCasesStillRun
