---------------------------- MODULE AgentHarness ----------------------------
(***************************************************************************)
(* The policy state of one Chat Completions request: core.AgentHarness.    *)
(* The object is rebuilt for every request, is filled from the receipts    *)
(* that the client's transcript proves, and then judges what the upstream  *)
(* model proposes.                                                         *)
(*                                                                         *)
(* A Call stands for one canonical signature (core.canonical_signature):   *)
(* a tool name together with one canonical argument object.  A result text *)
(* is abstracted to the class core.receipt_status tells apart.             *)
(***************************************************************************)
EXTENDS Integers, Sequences, FiniteSets

CONSTANTS Tools,          \* tool names
          Mutation,       \* ToolRoles.mutation
          Verification,   \* ToolRoles.verification
          Investigation,  \* ToolRoles.investigation
          Calls,          \* canonical call signatures
          ToolOf,         \* the tool each signature names
          Results         \* classes of tool result the client may return

ResultClasses == {"text", "object", "passed", "marker",
                  "failing_text", "failed_object", "error_object"}

ASSUME RolesAssumption ==
  /\ Mutation \subseteq Tools /\ Verification \subseteq Tools /\ Investigation \subseteq Tools
  /\ Mutation \cap Verification = {}
  /\ Mutation \cap Investigation = {}
  /\ Verification \cap Investigation = {}

ASSUME CallsAssumption == ToolOf \in [Calls -> Tools]

ASSUME ResultsAssumption == Results \subseteq ResultClasses

\* Successful investigations after a failed verification before another is blocked.
StallThreshold == 3

Statuses == {"success", "failure"}
Receipt == [call: Calls, status: Statuses, epoch: Nat]

VARIABLES epoch,                \* incremented by every successful mutation
          receipts,             \* executed calls, in the order of their results
          pending_verification, \* a mutation succeeded and no verifier ran since
          open_failures,        \* verifiers whose latest result failed
          investigations,       \* investigations_since_failed_verification
          last_action_blocked,
          force_finalize,
          terminal_corrections,
          blocked_duplicates,
          blocked_stalls

ledgerVars == <<epoch, receipts, pending_verification, open_failures, investigations>>
verdictVars == <<last_action_blocked, force_finalize, blocked_duplicates, blocked_stalls>>
harnessVars == <<ledgerVars, verdictVars, terminal_corrections>>

HarnessTypeOK ==
  /\ epoch \in Nat
  /\ receipts \in Seq(Receipt)
  /\ pending_verification \in BOOLEAN
  /\ open_failures \subseteq Tools
  /\ investigations \in Nat
  /\ last_action_blocked \in BOOLEAN
  /\ force_finalize \in BOOLEAN
  /\ terminal_corrections \in Nat
  /\ blocked_duplicates \in Nat
  /\ blocked_stalls \in Nat

-----------------------------------------------------------------------------
\* Fault: a status field is taken over as it is.
ReceiptStatusRaw(result) ==
  IF result \in {"failing_text", "failed_object", "error_object"} THEN "failure"
  ELSE IF result = "passed" THEN "passed" ELSE "success"

\* Structured status and error fields come first, then the failure patterns.
ReceiptStatus(result) ==
  IF result \in {"failing_text", "failed_object", "error_object"} THEN "failure" ELSE "success"

\* A receipt, or an executed call, of a verifier; a successful mutation.
IsCheck(r) == ToolOf[r.call] \in Verification
Passed(r) == r.status = "success"
Changed(r) == Passed(r) /\ ToolOf[r.call] \in Mutation

\* AgentHarness(...): the state of a request before any receipt is replayed.
FreshHarness ==
  /\ epoch' = 0
  /\ receipts' = <<>>
  /\ pending_verification' = FALSE
  /\ open_failures' = {}
  /\ investigations' = 0
  /\ last_action_blocked' = FALSE
  /\ force_finalize' = FALSE
  /\ terminal_corrections' = 0
  /\ blocked_duplicates' = 0
  /\ blocked_stalls' = 0

\* AgentHarness.record: one executed call and the status of its result.
Record(call, status) ==
  LET receipt == [call |-> call, status |-> status, epoch |-> epoch]
      tool == ToolOf[call]
      failedCheck == status = "failure" /\ tool \in Verification
      changed == Changed(receipt)
      stillOpen == IF failedCheck THEN open_failures \cup {tool} ELSE open_failures \ {tool}
      inspected == status = "success" /\ tool \in Investigation
                     /\ stillOpen \cap Verification # {}
  IN /\ receipts' = Append(receipts, receipt)
     /\ last_action_blocked' = FALSE
     /\ force_finalize' = FALSE
     /\ open_failures' = stillOpen
     /\ epoch' = IF changed THEN epoch + 1 ELSE epoch
     /\ pending_verification' = (changed \/ (pending_verification /\ tool \notin Verification))
     /\ investigations' = IF failedCheck \/ changed THEN 0
                          ELSE IF inspected THEN investigations + 1 ELSE investigations
     /\ UNCHANGED <<terminal_corrections, blocked_duplicates, blocked_stalls>>

\* Fault: only the latest receipt is compared.
PriorsLatestOnly(call) ==
  {i \in {Len(receipts)} \ {0} : receipts[i].call = call /\ receipts[i].epoch = epoch}

\* Fault: a change does not make a call worth repeating.
PriorsOfAnyEpoch(call) == {i \in DOMAIN receipts : receipts[i].call = call}

\* AgentHarness.duplicate: the receipts of this epoch with the same signature.
Priors(call) ==
  {i \in DOMAIN receipts : receipts[i].call = call /\ receipts[i].epoch = epoch}
Duplicate(call) == Priors(call) # {}
PriorReceipt(call) ==
  receipts[CHOOSE i \in Priors(call) : \A j \in Priors(call) : j <= i]

\* Fault: one read too many.
StalledTooLate(tool, available) ==
  /\ tool \in Investigation
  /\ open_failures \cap Verification # {}
  /\ available \cap Mutation # {}
  /\ investigations > StallThreshold

\* Fault: one read too few.
StalledTooSoon(tool, available) ==
  /\ tool \in Investigation
  /\ open_failures \cap Verification # {}
  /\ available \cap Mutation # {}
  /\ investigations + 1 >= StallThreshold

\* AgentHarness.stalled_result: enough was read since a verifier failed.
Stalled(tool, available) ==
  /\ tool \in Investigation
  /\ open_failures \cap Verification # {}
  /\ available \cap Mutation # {}
  /\ investigations >= StallThreshold

\* AgentHarness.blocked_result and service._rejected_results: the work is settled.
Settled == ~pending_verification /\ open_failures = {}

\* Fault: a pass of any verifier settles every verifier.
PolicyIssueWithoutFailures(require_receipt) ==
  \/ receipts = <<>> /\ require_receipt
  \/ last_action_blocked /\ ~force_finalize
  \/ receipts # <<>> /\ receipts[Len(receipts)].status = "failure"
  \/ pending_verification

\* Fault: a successful change needs no verification.
PolicyIssueWithoutPending(require_receipt) ==
  \/ receipts = <<>> /\ require_receipt
  \/ last_action_blocked /\ ~force_finalize
  \/ receipts # <<>> /\ receipts[Len(receipts)].status = "failure"
  \/ open_failures # {}

\* AgentHarness.terminal_issue: the part that does not read the answer.
PolicyIssue(require_receipt) ==
  \/ receipts = <<>> /\ require_receipt
  \/ last_action_blocked /\ ~force_finalize
  \/ receipts # <<>> /\ receipts[Len(receipts)].status = "failure"
  \/ open_failures # {}
  \/ pending_verification

\* Fault: only failed verifiers count as failures.
FailedChecks == {i \in DOMAIN receipts : receipts[i].status = "failure" /\ IsCheck(receipts[i])}

FailedReceipts == {i \in DOMAIN receipts : receipts[i].status = "failure"}
=============================================================================
