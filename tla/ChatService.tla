----------------------------- MODULE ChatService -----------------------------
(***************************************************************************)
(* service.ChatService.complete for one conversation: a client that keeps  *)
(* a transcript and executes released tool calls, the proxy that serves    *)
(* one request of it at a time, and an upstream model that may answer      *)
(* anything.                                                               *)
(*                                                                         *)
(* A request runs gate -> reconstruct (one step per message) -> loop (one  *)
(* step per upstream attempt).  The service shares nothing between         *)
(* requests, so requests of other conversations cannot disturb this one.   *)
(* The texts the proxy puts into its private retry transcript are left     *)
(* out: the model may answer them in any way.                              *)
(***************************************************************************)
EXTENDS AgentHarness, SequencesExt

CONSTANTS Ids,                \* tool-call ids the upstream may use
          MaxBatch,           \* longest parallel batch it proposes
          Denied,             \* settings: DENIED_TOOLS
          Mode,               \* settings: UPSTREAM_TOOL_RESPONSE_CAPABILITY_MODE
          MaxUpstreamCalls,   \* settings: max_upstream_calls
          MaxInternalRetries, \* settings: max_internal_retries
          Requests,           \* the requests the client may send
          Claims,             \* values of failed_executions the model may claim
          MaxExecutions,      \* bound: calls the client executes
          MaxUnanswered,      \* bound: released calls a request may leave unanswered
          MaxFaults           \* bound: times the client damages its transcript

Modes == {"passthrough", "phase_split", "combined_v1"}

\* Shapes of response_format that response_schema_contract tells apart.
Formats == {"none", "freeform", "primitive", "strict", "recovery", "summary"}
HasFormat(format) == format # "none"
Keyed(format) == format \in {"primitive", "strict", "recovery", "summary"}
Strict(format) == format \in {"strict", "recovery", "summary"}

\* harness: no X-Shiftedx-Harness: off.  user_turn: a user message follows the transcript.
Request == [harness: BOOLEAN, require_receipt: BOOLEAN, tool_choice_none: BOOLEAN,
            user_turn: BOOLEAN, format: Formats, tools: SUBSET Tools]
NoRequest == [harness |-> TRUE, require_receipt |-> TRUE, tool_choice_none |-> FALSE,
              user_turn |-> TRUE, format |-> "none", tools |-> {}]

ASSUME DeniedAssumption == Denied \subseteq Tools
ASSUME ModeAssumption == Mode \in Modes
ASSUME RequestsAssumption == Requests \subseteq Request
ASSUME BoundsAssumption ==
  /\ MaxUpstreamCalls \in Nat \ {0} /\ MaxInternalRetries \in Nat /\ MaxBatch \in Nat \ {0}
  /\ MaxExecutions \in Nat /\ MaxUnanswered \in Nat /\ MaxFaults \in Nat
  /\ Claims \subseteq Nat

Invalid == "invalid"   \* a proposed call whose function or arguments do not parse
ASSUME InvalidAssumption == Invalid \notin Calls

Proposal == [id: Ids, call: Calls \cup {Invalid}]
Batches == UNION {[1..n -> Proposal] : n \in 1..MaxBatch}

\* A final answer: does it satisfy the declared keys and types, what does it claim.
Content == [valid: BOOLEAN, claim: Claims]

AssistantMessage == [role: {"assistant"}, calls: Seq(Proposal)]
ToolMessage == [role: {"tool"}, id: Ids, result: Results]
Message == AssistantMessage \cup ToolMessage

Paths == {"harness", "off"}
Phases == {"none", "acquisition", "finalization"}
NoOutcome == [kind |-> "none"]
Failed == [kind |-> "error"]
ReleasedCalls(path, batch) == [kind |-> "calls", path |-> path, calls |-> batch]
ReleasedTerminal(path, content, during) ==
  [kind |-> "terminal", path |-> path, content |-> content, phase |-> during]
Projected == [kind |-> "projection"]

VARIABLES stage,            \* idle, reconstruct, loop, off
          request,
          transcript,       \* the client's visible conversation
          awaiting,         \* released calls the client has not answered yet
          executed,         \* ghost: what the client really executed, in order
          faults,           \* ghost: times the client damaged its transcript
          position,         \* next transcript message to reconstruct
          unpaired,         \* reconstruct: pending call ids
          degraded,         \* reconstruct: any warning
          latest,           \* reconstruct: (latest_tool, latest_result)
          upstream_calls, internal_retries, phase,
          intervention_counts, \* the list the endpoint adds to its counters
          outcome

clientVars == <<transcript, awaiting, executed, faults>>
rebuildVars == <<position, unpaired, degraded, latest>>
loopVars == <<upstream_calls, internal_retries, phase>>
vars == <<harnessVars, clientVars, rebuildVars, loopVars,
          stage, request, intervention_counts, outcome>>

-----------------------------------------------------------------------------
\* response_format and tools cannot be enforced together by a split upstream.
UsesSplit(req) == Mode = "phase_split" /\ req.tools # {} /\ Strict(req.format)
UsesCombined(req) == Mode = "combined_v1" /\ req.tools # {} /\ Strict(req.format)

\* Fault: opting out also opts out of the deny set.
RefusedSchemaOnly(req) ==
  Mode \in {"phase_split", "combined_v1"} /\ req.tools # {}
    /\ HasFormat(req.format) /\ ~Strict(req.format)

\* The refusals before any upstream work: opt-out under a deny set, unenforceable schema.
Refused(req) ==
  \/ ~req.harness /\ Denied # {}
  \/ Mode \in {"phase_split", "combined_v1"} /\ req.tools # {}
       /\ HasFormat(req.format) /\ ~Strict(req.format)

RequireReceipt == request.tools # {} /\ request.require_receipt

\* terminal_issue: the part that reads the answer.
ContentIssue(content) ==
  \/ request.format = "recovery" /\ content.valid /\ content.claim # Cardinality(FailedReceipts)
  \/ Keyed(request.format) /\ ~content.valid

Init ==
  /\ stage = "idle" /\ request = NoRequest
  /\ transcript = <<>> /\ awaiting = <<>> /\ executed = <<>> /\ faults = 0
  /\ position = 1 /\ unpaired = {} /\ degraded = FALSE /\ latest = <<>>
  /\ upstream_calls = 0 /\ internal_retries = 0 /\ phase = "none"
  /\ intervention_counts = <<0, 0, 0>> /\ outcome = NoOutcome
  /\ epoch = 0 /\ receipts = <<>> /\ pending_verification = FALSE
  /\ open_failures = {} /\ investigations = 0
  /\ last_action_blocked = FALSE /\ force_finalize = FALSE
  /\ terminal_corrections = 0 /\ blocked_duplicates = 0 /\ blocked_stalls = 0

-----------------------------------------------------------------------------
\* What a request builds is dropped when its frame ends.
DropRequestState ==
  /\ FreshHarness
  /\ position' = 1 /\ unpaired' = {} /\ degraded' = FALSE /\ latest' = <<>>
  /\ upstream_calls' = 0 /\ internal_retries' = 0 /\ phase' = "none"
  /\ intervention_counts' = <<0, 0, 0>>

\* The client executes a released call and appends its result.
ClientExecutes(i, result) ==
  /\ stage = "idle" /\ Len(executed) < MaxExecutions
  /\ awaiting[i].call # Invalid
  /\ transcript' = Append(transcript, [role |-> "tool", id |-> awaiting[i].id, result |-> result])
  /\ executed' = Append(executed, [call |-> awaiting[i].call, status |-> ReceiptStatus(result)])
  /\ awaiting' = RemoveAt(awaiting, i)
  /\ DropRequestState
  /\ request' = NoRequest /\ outcome' = NoOutcome
  /\ UNCHANGED <<stage, faults>>

\* The client loses its oldest message, or sends a tool message twice.
ClientDamages(damaged) ==
  /\ stage = "idle" /\ faults < MaxFaults /\ transcript # <<>>
  /\ transcript' = damaged
  /\ faults' = faults + 1
  /\ DropRequestState
  /\ request' = NoRequest /\ outcome' = NoOutcome
  /\ UNCHANGED <<stage, awaiting, executed>>

ClientDamagesTranscript ==
  \/ ClientDamages(Tail(transcript))
  \/ \E i \in DOMAIN transcript :
        transcript[i].role = "tool" /\ ClientDamages(Append(transcript, transcript[i]))

\* complete(): payload gates.  The combined probe may find the feature missing.
ClientSends(req) ==
  /\ stage = "idle" /\ Len(awaiting) <= MaxUnanswered
  /\ request' = req
  /\ DropRequestState
  /\ \/ /\ Refused(req) \/ UsesCombined(req)
        /\ stage' = "idle" /\ outcome' = Failed
     \/ /\ ~Refused(req)
        /\ stage' = IF req.harness THEN "reconstruct" ELSE "off"
        /\ outcome' = NoOutcome
  /\ UNCHANGED clientVars

-----------------------------------------------------------------------------
\* Fault: a repeated id is skipped without a warning.
ReconstructCallsSilently ==
  LET calls == transcript[position].calls
      fresh == {i \in DOMAIN calls :
                  /\ calls[i].call # Invalid
                  /\ \A p \in unpaired : p.id # calls[i].id
                  /\ \A j \in 1..(i - 1) : calls[j].id = calls[i].id => calls[j].call = Invalid}
  IN /\ transcript[position].role = "assistant"
     /\ unpaired' = unpaired \cup {calls[i] : i \in fresh}
     /\ UNCHANGED <<harnessVars, degraded, latest>>

\* transcript.reconstruct: one iteration per message.
ReconstructCalls ==
  LET calls == transcript[position].calls
      fresh == {i \in DOMAIN calls :
                  /\ calls[i].call # Invalid
                  /\ \A p \in unpaired : p.id # calls[i].id
                  /\ \A j \in 1..(i - 1) : calls[j].id = calls[i].id => calls[j].call = Invalid}
  IN /\ transcript[position].role = "assistant"
     /\ unpaired' = unpaired \cup {calls[i] : i \in fresh}
     /\ degraded' = (degraded \/ fresh # DOMAIN calls)
     /\ UNCHANGED <<harnessVars, latest>>

ReconstructResult ==
  LET message == transcript[position]
  IN /\ message.role = "tool"
     /\ \/ \E p \in unpaired :
             /\ p.id = message.id
             /\ unpaired' = unpaired \ {p}
             /\ Record(p.call, ReceiptStatus(message.result))
             /\ latest' = <<ToolOf[p.call], message.result>>
             /\ UNCHANGED degraded
        \/ /\ \A p \in unpaired : p.id # message.id
           /\ degraded' = TRUE
           /\ UNCHANGED <<harnessVars, unpaired, latest>>

ReconstructMessage ==
  /\ stage = "reconstruct" /\ position <= Len(transcript)
  /\ ReconstructCalls \/ ReconstructResult
  /\ position' = position + 1
  /\ UNCHANGED <<stage, request, clientVars, loopVars, intervention_counts, outcome>>

\* The rebuilt transcript is degraded by any warning, unmatched calls included.
Degraded == degraded \/ unpaired # {}

Reconstructed == stage = "reconstruct" /\ position > Len(transcript)

\* Fault: the passing verifier alone decides, other verifiers may still have failed.
ProjectableUnsettled ==
  /\ ~request.user_turn
  /\ transcript # <<>> /\ transcript[Len(transcript)].role = "tool"
  /\ ~Degraded
  /\ ~last_action_blocked
  /\ receipts # <<>>
  /\ receipts[Len(receipts)].epoch = epoch /\ receipts[Len(receipts)].status = "success"
  /\ latest[1] \in Verification
  /\ request.format = "summary" /\ latest[2] = "passed"

\* projection.decide_local_projection on the latest exactly paired result.
Projectable ==
  /\ ~request.user_turn
  /\ transcript # <<>> /\ transcript[Len(transcript)].role = "tool"
  /\ ~Degraded
  /\ \A i \in DOMAIN transcript :
        transcript[i].role = "tool" => transcript[i].result # "marker"
  /\ ~last_action_blocked /\ Settled
  /\ receipts # <<>>
  /\ LET receipt == receipts[Len(receipts)]
     IN receipt.epoch = epoch /\ receipt.status = "success"
          /\ latest[1] = ToolOf[receipt.call]
  /\ request.tools = {} \/ latest[1] \in request.tools
  /\ latest[1] \in Verification
  /\ request.format = "summary" /\ latest[2] = "passed"

Project ==
  /\ Reconstructed /\ Projectable
  /\ stage' = "idle" /\ outcome' = Projected
  /\ intervention_counts' = <<terminal_corrections, blocked_duplicates, blocked_stalls>>
  /\ UNCHANGED <<harnessVars, clientVars, rebuildVars, loopVars, request>>

\* A client that forbids further calls may start in the finalization phase.
FinalizesAtOnce ==
  /\ request.tool_choice_none
  /\ receipts # <<>> /\ receipts[Len(receipts)].status = "success"
  /\ ~Degraded /\ Settled /\ ~last_action_blocked

EnterLoop ==
  /\ Reconstructed /\ ~Projectable
  /\ stage' = "loop"
  /\ phase' = IF ~UsesSplit(request) THEN "none"
              ELSE IF FinalizesAtOnce THEN "finalization" ELSE "acquisition"
  /\ intervention_counts' = <<terminal_corrections, blocked_duplicates, blocked_stalls>>
  /\ UNCHANGED <<harnessVars, clientVars, rebuildVars, upstream_calls, internal_retries,
                 request, outcome>>

-----------------------------------------------------------------------------
\* service._rejected_results: the verdict on one proposed call.
Verdict(call) ==
  IF call = Invalid THEN "invalid"
  ELSE IF ToolOf[call] \in Denied THEN "denied"
  ELSE IF Stalled(ToolOf[call], request.tools) THEN "stalled"
  ELSE IF Duplicate(call) THEN "duplicate"
  ELSE "allowed"

With(batch, verdict) == {i \in DOMAIN batch : Verdict(batch[i].call) = verdict}

\* Every call repeats one that already succeeded, and nothing is left to verify.
CanFinalize(batch) ==
  /\ \A i \in DOMAIN batch : Verdict(batch[i].call) = "duplicate"
                               /\ PriorReceipt(batch[i].call).status = "success"
  /\ Settled

\* The harness fields _rejected_results leaves behind.
JudgeBatch(batch) ==
  LET rejected == DOMAIN batch \ With(batch, "allowed")
  IN /\ last_action_blocked' = (last_action_blocked \/ rejected # {})
     /\ force_finalize' = (rejected # {} /\ CanFinalize(batch))
     /\ blocked_duplicates' = blocked_duplicates + Cardinality(With(batch, "duplicate"))
     /\ blocked_stalls' = blocked_stalls + Cardinality(With(batch, "stalled"))
     /\ UNCHANGED <<ledgerVars, terminal_corrections>>

Allowed(batch) == With(batch, "allowed") = DOMAIN batch

\* A forced answer moves a split request to the finalization grammar.
AttemptPhase == IF UsesSplit(request) /\ force_finalize THEN "finalization" ELSE phase

\* One iteration of the while loop: one attempt, counted when it answered.
Attempt ==
  /\ stage = "loop" /\ upstream_calls < MaxUpstreamCalls
  /\ upstream_calls' = upstream_calls + 1
  /\ phase' = AttemptPhase
  /\ UNCHANGED <<request, rebuildVars>>

\* Fault: the counts are taken before the verdict.
SnapshotTooEarly ==
  intervention_counts' = <<terminal_corrections, blocked_duplicates, blocked_stalls>>

Snapshot ==
  intervention_counts' = <<terminal_corrections', blocked_duplicates', blocked_stalls'>>

Return(result) == stage' = "idle" /\ outcome' = result

Continue == stage' = "loop" /\ internal_retries' = internal_retries + 1 /\ UNCHANGED outcome

\* Fault: off by one.
RetriesLeftPlusOne == internal_retries <= MaxInternalRetries

RetriesLeft == internal_retries < MaxInternalRetries
CorrectionsLeft == terminal_corrections < 2

\* AgentHarness.correction, then another turn; otherwise harness_retry_exhausted.
CorrectOrGiveUp ==
  /\ UNCHANGED <<ledgerVars, verdictVars, clientVars>>
  /\ \/ /\ RetriesLeft /\ CorrectionsLeft
        /\ terminal_corrections' = terminal_corrections + 1
        /\ Snapshot /\ Continue
     \/ /\ ~(RetriesLeft /\ CorrectionsLeft)
        /\ Return(Failed)
        /\ UNCHANGED <<terminal_corrections, internal_retries, intervention_counts>>

\* upstream.chat raised, or its body holds no usable message.
UpstreamFails ==
  /\ Attempt
  /\ Return(Failed)
  /\ UNCHANGED <<harnessVars, clientVars, internal_retries, intervention_counts>>

\* A tool call in the finalization phase is never released.
FinalizationProposesCalls ==
  /\ Attempt /\ AttemptPhase = "finalization"
  /\ CorrectOrGiveUp

\* Every call of the batch is allowed: the response goes to the client.
ReleaseCalls(batch) ==
  /\ Attempt /\ AttemptPhase # "finalization"
  /\ Allowed(batch)
  /\ JudgeBatch(batch)
  /\ Snapshot
  /\ Return(ReleasedCalls("harness", batch))
  /\ transcript' = Append(transcript, [role |-> "assistant", calls |-> batch])
  /\ awaiting' = awaiting \o batch
  /\ UNCHANGED <<executed, faults, internal_retries>>

\* A blocked call withholds the whole batch and costs a retry.
WithholdBatch(batch) ==
  /\ Attempt /\ AttemptPhase # "finalization"
  /\ ~Allowed(batch)
  /\ JudgeBatch(batch)
  /\ Snapshot
  /\ \/ RetriesLeft /\ Continue
     \/ ~RetriesLeft /\ Return(Failed) /\ UNCHANGED internal_retries
  /\ UNCHANGED clientVars

AcceptTerminal(content) ==
  /\ Attempt
  /\ ~PolicyIssue(RequireReceipt) /\ ~ContentIssue(content)
  /\ Return(ReleasedTerminal("harness", content, AttemptPhase))
  /\ UNCHANGED <<harnessVars, clientVars, internal_retries, intervention_counts>>

CorrectTerminal(content) ==
  /\ Attempt
  /\ PolicyIssue(RequireReceipt) \/ ContentIssue(content)
  /\ CorrectOrGiveUp

\* Fault: off by one.
AttemptsExceeded ==
  /\ stage \in {"loop", "off"} /\ upstream_calls > MaxUpstreamCalls
  /\ Return(Failed)
  /\ UNCHANGED <<harnessVars, clientVars, rebuildVars, loopVars, request, intervention_counts>>

\* The while condition fails: harness_retry_exhausted.
AttemptsExhausted ==
  /\ stage \in {"loop", "off"} /\ upstream_calls >= MaxUpstreamCalls
  /\ Return(Failed)
  /\ UNCHANGED <<harnessVars, clientVars, rebuildVars, loopVars, request, intervention_counts>>

-----------------------------------------------------------------------------
\* Harness opt-out: one pass-through request, or _complete_phase_split_without_harness.
OffPhase == IF phase = "none" /\ UsesSplit(request) THEN "acquisition" ELSE phase

OffAttempt ==
  /\ stage = "off" /\ upstream_calls < MaxUpstreamCalls
  /\ upstream_calls' = upstream_calls + 1
  /\ UNCHANGED <<harnessVars, rebuildVars, executed, faults, request, intervention_counts>>

OffFails ==
  /\ OffAttempt
  /\ Return(Failed)
  /\ UNCHANGED <<transcript, awaiting, internal_retries, phase>>

OffReleaseCalls(batch) ==
  /\ OffAttempt /\ OffPhase # "finalization"
  /\ Return(ReleasedCalls("off", batch))
  /\ transcript' = Append(transcript, [role |-> "assistant", calls |-> batch])
  /\ awaiting' = awaiting \o batch
  /\ UNCHANGED <<internal_retries, phase>>

\* The acquisition answer is dropped and asked for again under the schema.
OffStartFinalization ==
  /\ OffAttempt /\ OffPhase = "acquisition"
  /\ phase' = "finalization"
  /\ UNCHANGED <<stage, outcome, transcript, awaiting, internal_retries>>

OffAcceptTerminal(content) ==
  /\ OffAttempt /\ OffPhase # "acquisition"
  /\ OffPhase = "finalization" => content.valid
  /\ Return(ReleasedTerminal("off", content, OffPhase))
  /\ UNCHANGED <<transcript, awaiting, internal_retries, phase>>

\* Calls, or an answer outside the schema, in the finalization phase.
OffRetry ==
  /\ OffAttempt /\ OffPhase = "finalization"
  /\ \/ /\ RetriesLeft
        /\ internal_retries' = internal_retries + 1
        /\ UNCHANGED <<stage, outcome>>
     \/ /\ ~RetriesLeft
        /\ Return(Failed)
        /\ UNCHANGED internal_retries
  /\ UNCHANGED <<transcript, awaiting, phase>>

-----------------------------------------------------------------------------
ClientStep ==
  \/ \E i \in DOMAIN awaiting, result \in Results : ClientExecutes(i, result)
  \/ ClientDamagesTranscript
  \/ \E req \in Requests : ClientSends(req)

ServiceStep ==
  \/ ReconstructMessage
  \/ Project
  \/ EnterLoop
  \/ UpstreamFails
  \/ FinalizationProposesCalls
  \/ \E batch \in Batches : ReleaseCalls(batch) \/ WithholdBatch(batch)
  \/ \E content \in Content : AcceptTerminal(content) \/ CorrectTerminal(content)
  \/ AttemptsExhausted
  \/ OffFails
  \/ \E batch \in Batches : OffReleaseCalls(batch)
  \/ OffStartFinalization
  \/ \E content \in Content : OffAcceptTerminal(content)
  \/ OffRetry

Next == ClientStep \/ ServiceStep

Spec == Init /\ [][Next]_vars

\* The proxy's coroutine keeps running and every attempt ends: the transport
\* has its own timeout.  The client owes the proxy nothing.
FairSpec == Spec /\ WF_vars(ServiceStep)

-----------------------------------------------------------------------------
(***************************************************************************)
(* Properties.                                                             *)
(***************************************************************************)
Stages == {"idle", "reconstruct", "loop", "off"}

TypeOK ==
  /\ HarnessTypeOK
  /\ stage \in Stages
  /\ request \in Request
  /\ transcript \in Seq(Message)
  /\ awaiting \in Seq(Proposal)
  /\ executed \in Seq([call: Calls, status: Statuses])
  /\ faults \in Nat
  /\ position \in Nat \ {0}
  /\ unpaired \subseteq [id: Ids, call: Calls]
  /\ degraded \in BOOLEAN
  /\ latest \in {<<>>} \cup (Tools \X Results)
  /\ upstream_calls \in Nat /\ internal_retries \in Nat /\ phase \in Phases
  /\ intervention_counts \in Nat \X Nat \X Nat

\* What a history of calls proves: every successful mutation was followed by a
\* passing check, every failed check by a later pass of the same verifier, and
\* the last call succeeded.
Verified(history) ==
  /\ \A m \in DOMAIN history : Changed(history[m]) =>
        \E v \in DOMAIN history : v > m /\ IsCheck(history[v]) /\ Passed(history[v])
  /\ \A f \in DOMAIN history : IsCheck(history[f]) /\ ~Passed(history[f]) =>
        \E v \in DOMAIN history : v > f /\ ToolOf[history[v].call] = ToolOf[history[f].call]
                                    /\ Passed(history[v])
  /\ history # <<>> => Passed(history[Len(history)])

\* The answer in `outcome` passed the harness gates.
HarnessAnswered ==
  \/ outcome.kind = "projection"
  \/ outcome.kind = "terminal" /\ outcome.path = "harness"

\* policy.md: a terminal answer cannot follow a failed receipt, pending verification
\* or an unresolved verification failure, whatever closed the pending flag in between.
TerminalFollowsVerification == HarnessAnswered => Verified(receipts)

\* The client told the proxy everything it did.
Honest == faults = 0 /\ ~Degraded

\* reconstruct: an undamaged transcript yields exactly the calls the client executed.
LedgerFaithful ==
  (Honest /\ stage \in {"reconstruct", "loop"} /\ position > Len(transcript))
    => [i \in DOMAIN receipts |-> [call |-> receipts[i].call, status |-> receipts[i].status]]
         = executed

\* The same gate against the client's real execution history.
AnswerFollowsExecution == (HarnessAnswered /\ Honest) => Verified(executed)

\* A projected answer would also have passed terminal_issue: two gates, one policy.
ProjectionPassesTerminalGate == outcome.kind = "projection" => ~PolicyIssue(RequireReceipt)

HarnessReleasedCalls == outcome.kind = "calls" /\ outcome.path = "harness"

\* A released call repeats an executed one only after a successful mutation at or after it.
NoRepeatWithoutChange ==
  HarnessReleasedCalls =>
    \A k \in DOMAIN outcome.calls, i \in DOMAIN receipts :
      receipts[i].call = outcome.calls[k].call => \E m \in i..Len(receipts) : Changed(receipts[m])

\* No denied tool reaches the client, on either path.
DeniedNeverReleased ==
  outcome.kind = "calls" =>
    \A k \in DOMAIN outcome.calls :
      outcome.calls[k].call # Invalid => ToolOf[outcome.calls[k].call] \notin Denied

\* Reads since the last failed check or successful change of a history.
ReadsSinceSetback(history) ==
  LET setbacks == {i \in DOMAIN history :
                     \/ Changed(history[i])
                     \/ IsCheck(history[i]) /\ ~Passed(history[i])}
  IN {i \in DOMAIN history :
        /\ \A s \in setbacks : s < i
        /\ Passed(history[i]) /\ ToolOf[history[i].call] \in Investigation}

UnresolvedChecks(history) ==
  {f \in DOMAIN history :
     /\ IsCheck(history[f]) /\ ~Passed(history[f])
     /\ \A v \in DOMAIN history :
          v > f /\ ToolOf[history[v].call] = ToolOf[history[f].call] => ~Passed(history[v])}

\* policy.md: after three successful investigations following a failed verification,
\* another one is blocked while a mutation tool is offered.
StalledReadsAreWithheld ==
  (/\ HarnessReleasedCalls /\ Honest /\ request.tools \cap Mutation # {}
   /\ UnresolvedChecks(executed) # {}
   /\ Cardinality(ReadsSinceSetback(executed)) >= StallThreshold)
    => \A k \in DOMAIN outcome.calls : ToolOf[outcome.calls[k].call] \notin Investigation

\* What the client really did gives a reason to withhold the call: it has been executed
\* with no successful change at or after it, or it is a read after enough others.
DoneSinceChange(call) ==
  \E i \in DOMAIN executed :
    executed[i].call = call /\ \A m \in i..Len(executed) : ~Changed(executed[m])
ReadEnough(call) ==
  /\ ToolOf[call] \in Investigation /\ request.tools \cap Mutation # {}
  /\ UnresolvedChecks(executed) # {}
  /\ Cardinality(ReadsSinceSetback(executed)) >= StallThreshold
CauseToWithhold(call) ==
  \/ call = Invalid \/ ToolOf[call] \in Denied
  \/ DoneSinceChange(call) \/ ReadEnough(call)

\* Needed work is not blocked: a batch costs a retry only for a call that is malformed or
\* denied, that the client has executed since the last change, or that reads once more
\* after three reads that followed the last setback of its own history.
WithheldForCause ==
  [][\A batch \in Batches :
       WithholdBatch(batch) /\ Honest => \E k \in DOMAIN batch : CauseToWithhold(batch[k].call)]_vars

\* A recovery answer reports exactly the failures the client really saw.
FailureClaimIsTrue ==
  (outcome.kind = "terminal" /\ outcome.path = "harness" /\ Honest
     /\ request.format = "recovery")
    => outcome.content.claim = Cardinality({i \in DOMAIN executed : ~Passed(executed[i])})

\* Retries, corrections and attempts are bounded independently of each other.
LoopBounded ==
  /\ upstream_calls <= MaxUpstreamCalls
  /\ internal_retries <= MaxInternalRetries
  /\ terminal_corrections <= 2
  /\ stage = "loop" => upstream_calls = internal_retries
  /\ terminal_corrections <= internal_retries

\* Whenever the loop can suspend or has returned, the counts the endpoint would add on
\* an error or a cancellation are the harness's own.
InterventionsReported ==
  (stage = "loop" \/ (stage = "idle" /\ outcome # NoOutcome))
    => intervention_counts = <<terminal_corrections, blocked_duplicates, blocked_stalls>>

\* Every request is answered.
RequestsAreAnswered == (stage # "idle") ~> (stage = "idle")

\* blocked_result tells the model "the prior successful receipt is sufficient, return the
\* required final answer now": the policy should then accept a well-formed answer.
ForcedAnswerIsAcceptable ==
  (stage = "loop" /\ force_finalize) => ~PolicyIssue(RequireReceipt)
=============================================================================
