SPECIFICATION FairSpec
CONSTANTS
  edit = edit test = test check = check read = read grep = grep
  e = e t = t c = c r1 = r1 r2 = r2 r3 = r3 r4 = r4 g = g
  Tools <- Toolbox Mutation <- MCMutation Verification <- MCVerification Investigation <- MCInvestigation
  Calls <- SplitCalls ToolOf <- SplitToolOf
  Results = {"text", "failing_text", "passed", "marker"}
  Ids = {1} MaxBatch = 1
  Denied = {} Mode = "phase_split"
  MaxUpstreamCalls = 3 MaxInternalRetries = 2
  Requests <- SchemaRequests Claims = {0, 1}
  MaxExecutions = 2 MaxUnanswered = 0 MaxFaults = 1
\* The client may stop at any time: a conversation has no last state to leave.
CHECK_DEADLOCK FALSE
INVARIANTS
  TypeOK
  ProjectionPassesTerminalGate
  FailureClaimIsTrue
PROPERTY RequestsAreAnswered
