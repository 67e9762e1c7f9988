SPECIFICATION Spec
CONSTANTS
  edit = edit test = test check = check read = read grep = grep
  e = e t = t c = c r1 = r1 r2 = r2 r3 = r3 r4 = r4 g = g
  Tools <- Toolbox Mutation <- MCMutation Verification <- MCVerification Investigation <- MCInvestigation
  Calls <- BatchCalls ToolOf <- BatchToolOf
  Results = {"text", "failing_text"}
  Ids = {1, 2} MaxBatch = 2
  Denied = {grep} Mode = "passthrough"
  MaxUpstreamCalls = 1 MaxInternalRetries = 0
  Requests <- OnePlainRequest Claims = {0}
  MaxExecutions = 2 MaxUnanswered = 1 MaxFaults = 1
\* The client may stop at any time: a conversation has no last state to leave.
CHECK_DEADLOCK FALSE
INVARIANTS
  LedgerFaithful
  AnswerFollowsExecution
