SPECIFICATION Spec
CONSTANTS
  edit = edit test = test check = check read = read grep = grep
  e = e t = t c = c r1 = r1 r2 = r2 r3 = r3 r4 = r4 g = g
  Tools <- Toolbox Mutation <- MCMutation Verification <- MCVerification Investigation <- MCInvestigation
  Calls <- GateCalls ToolOf <- GateToolOf
  Results = {"text", "failing_text"}
  Ids = {1} MaxBatch = 1
  Denied = {grep} Mode = "passthrough"
  MaxUpstreamCalls = 3 MaxInternalRetries = 2
  Requests <- PlainRequests Claims = {0}
  MaxExecutions = 4 MaxUnanswered = 0 MaxFaults = 0
\* The client may stop at any time: a conversation has no last state to leave.
CHECK_DEADLOCK FALSE
SYMMETRY ReadSymmetry
INVARIANTS
  TerminalFollowsVerification
  NoRepeatWithoutChange
  DeniedNeverReleased
  LoopBounded
  InterventionsReported
  StalledReadsAreWithheld
PROPERTY WithheldForCause
