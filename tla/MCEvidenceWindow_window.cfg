SPECIFICATION FairSpec
CONSTANTS
  Turns <- TwoCases
  MaxCalls = 2
  MaxFaults = 1
  ScenarioDeadline = TRUE
\* The window ends with a verdict.
CHECK_DEADLOCK FALSE
INVARIANTS
  TypeOK
  PassedEvidenceIsExact
  CleanWindowPasses
  CapturesInIngressOrder
  TurnsHoldOwnRecords
  JoinedRowsVerify
PROPERTIES
  CapturesGetWritten
