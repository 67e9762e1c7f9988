# Shiftedx Agent Harness Proxy in TLA+

The proxy (`src/src/shiftedx_harness_proxy`) sits between a coding agent and an OpenAI-compatible
model server. The agent sends a Chat Completions request; the proxy rebuilds from its messages what
the agent has really executed, asks the model for the next step, withholds what the policy forbids
(repeated calls, endless reading, an answer before verification), asks again, and releases a tool
batch or a final answer. Everything runs on one asyncio event loop. A second part of the repository,
the *qualification* code, runs the proxy against a model in supervised campaigns and reconciles the
evidence.

This directory models the policy engine, the service loop, admission and the endpoint; and of the
qualification code the campaign, the supervised run, and the evidence of one scored window.

## 1. Inventory

| Component | State | Operations | Interacts with | What is hard |
|---|---|---|---|---|
| Policy core, `core.py` | one `AgentHarness` per request: receipts, epoch, pending verification, open verifier failures, counters of reads, corrections and blocked calls | `record`, `duplicate`, `stalled_result`, `blocked_result`, `terminal_issue`, `correction` | filled by reconstruction, consulted by projection and the service loop | conditions in four places must agree; counters with boundaries; epochs |
| Transcript reconstruction, `transcript.py` | pending calls by id, warnings, latest exactly paired result (locals of one call) | `reconstruct`, `prepare_tools`, `response_schema_contract` | client messages in, `AgentHarness.record` out | reused ids, results out of order, truncated transcripts |
| Local projection, `projection.py` | none | `decide_local_projection` | answers instead of the model | repeats the terminal gate in its own words |
| Chat service, `service.py`, `provider_capabilities.py` | attempts, retries, phase, the interventions list shared with the endpoint | `complete`, `_complete_phase_split_without_harness`, `_rejected_results` | upstream slots, harness, endpoint | three counters bound one loop; two phases; two paths (harness and opt-out) |
| Admission, `admission.py` | global, per-principal and upstream semaphores, budget objects, rate windows, gauges | `admit`, `upstream_slot`, `_charge_rate`, `_prune_principals` | held by the endpoint for a request, by `BoundedUpstream` for an operation | timers, hand-offs and cancellations meeting each other; pruning a budget in use |
| Endpoint, `api.py`, `streaming.py` | deadline, service task, counters, replay outcome and release flags | `chat`, `_complete_while_connected`, the error handler, `_ReplayStreamingResponse` | admission, service, client connection | deadline, disconnect and completion race; exactly-once release and counting |
| Transport, `transport.py` | an HTTP client | `chat`, `models`, `ready` | model server | I/O only |
| Settings, errors, entry, `config.py`, `errors.py`, `main.py` | constants | parsing | all | none at run time |
| Cache namespace, `cache_policy.py`; projection accounting, `projection_accounting.py` | none | a test of field names; sums over records | endpoint; reports | none |
| Request timing, `qualification_timing.py` | a capture per request with its attempts; a sink with an ingress counter, rows held back and a file | `begin_attempt`, `capture`, `allocate_sequence`, `append`, `finalize_timing_evidence`, `verify_timing_ledger_linkage` | every step of a request; joined with the runner's and the observer's ledgers | captures end out of order; one refused or lost row holds the others back |
| Model-boundary observer, `qualification_observer.py` and its script | append-only ledger of the calls between proxy and model | forward, append, then answer | proxy, runner's cursor, reconciliation | goes on with calls the proxy has given up |
| Campaign, `qualification_campaign*.py` | a directory: lock, event and head per stage, verdict | `advance_qualification_campaign`, `_load_events`, `_write_event`, `_complete_campaign` | runtime, evidence, operator | crash and restart between any two steps and inside a write; two processes |
| Runtime, `qualification_runtime.py` and its script | local variables of one run; Docker resources, observer, benchmark child; durable evidence and outcome | `supervise_qualification_runtime`, `inspect`, `probe`, `_cleanup_runtime`, `_write_outcome` | campaign, model, Docker | a clean-up of many steps, each may fail; signals and kills at any point; orphans |
| Contract, `qualification_contract.py` | parsed documents, observer cursor | scoring gate, `begin_turn`, `consume_turn`, `load_runtime_outcome` | runner, campaign | whose record a late one is |
| Evidence, `qualification_reconciliation.py`, `qualification_model_evidence.py` | counters at the begin of a window | request window, partition checks | ledgers, model | which disagreement is tolerated |
| Paired trial runner, `run_paired_agentic_trial.py` | transport with a prepared id, accounts, cursor | one turn per model request, one row per case | proxy, observer ledger | what a failed turn leaves for the next case |
| Other scripts | reports | drivers | proxy | none that outlives a run |

What makes each component correct:

- *Policy core, reconstruction, service*: no final answer before every change is verified and every
  failed verifier passed again; no repeated call without a change in between; denied tools never
  released, on any path; loops bounded; a request always ends; counts reported whenever it stops.
- *Admission*: permits are neither lost nor invented, budgets of one key are one object, limits hold
  in every window, waits end, a cancelled request leaves.
- *Endpoint*: admission is held exactly while work or delivery goes on, one outcome per request, a
  deadline stops everything, interventions are counted once.
- *Timing, observer, runner, reconciliation*: a window passes exactly when the four accounts are
  complete and agree; records and captures are never credited to another request.
- *Campaign, runtime*: no stage runs twice, no result is lost across a crash, the event chain is an
  append-only log with one verdict, passed evidence is the run's own, a passed run leaves nothing, and what another leaves is never
  beside a later run.

`PROJECT.json` lists the hazards with the line where each bites and the properties that cover it.

## 2. Plan

| Order | Module | Models | Status |
|---|---|---|---|
| 1 | `AgentHarness` | the policy object | done |
| 2 | `ChatService` (extends 1) | client, reconstruction, projection, service loop | done |
| 3 | `ChatServiceProofs`, `ChatLedgerProofs` | theorems about 2 | every safety property |
| 4 | `AdmissionGate`, `AdmissionGateProofs` | what admission promises | done, bounds proved |
| 5 | `Admission` (refines 4), `AdmissionProofs` | controller, semaphores, timers, cancellation | done, every safety property and the refinement proved |
| 6 | `RequestLifecycle`, `RequestLifecycleProofs` | endpoint: deadline, disconnect, cancellation, replay, counters | done, every safety property proved |
| 7 | `StageLedger` | what a campaign promises | done |
| 8 | `Supervision` | one supervised run, model, orphans, Docker | done |
| 9 | `Campaign` (extends 8, refines 7) | event chain, lock, crash and restart | done |
| 10 | `CampaignProofs`, `CampaignRunProofs` | theorems about 9, the refinement included | every safety property |
| 11 | `EvidenceWindow`, `EvidenceWindowProofs` | runner, proxy handlers, observer, timing sink and the supervisor's join | done, every safety property proved |

Every invariant and action property that a passing run checks is now also a theorem. What is left, in
this order: role annotations (`prepare_tools`) against a reference definition; the interventions
inside a timing capture; an abstract specification of the evidence of a window for `EvidenceWindow`
to refine.

## 3. Modules and the code

### AgentHarness (`core.py`)

A *call* is a canonical signature: a tool and one canonical argument object. A result is one of the
classes `receipt_status` tells apart (plain text, an object, a passed verification summary, the
reserved projection marker, and three kinds of failure). Variables carry the names of the fields of
`AgentHarness`. `Record` is `record` with all its effects in order; `Duplicate`, `Stalled`,
`PolicyIssue` and `Settled` are the tests of `duplicate`, `stalled_result`, `terminal_issue` and
`blocked_result`.

### ChatService (`service.py`, `transcript.py`, `projection.py`, `provider_capabilities.py`)

One conversation. The client owns the transcript: it executes released calls in any order
(`ClientExecutes`), may lose its oldest message or repeat a tool message (`ClientDamagesTranscript`),
and sends a request with any settings of the instance (`ClientSends`). The proxy rebuilds the ledger
one message at a time (`ReconstructMessage`), may answer by itself (`Project`), and otherwise enters
the loop, where each step is one upstream attempt. The model is unconstrained: any batch or answer.

| Action | Code |
|---|---|
| `ClientSends`, `Refused` | payload gates of `complete`, before any state exists |
| `ReconstructCalls`, `ReconstructResult` | the two message cases of `reconstruct` |
| `Project`, `Projectable` | `_project_latest_if_current`, `decide_local_projection` |
| `EnterLoop`, `FinalizesAtOnce` | choice of the first phase |
| `ReleaseCalls`, `WithholdBatch`, `JudgeBatch` | `_rejected_results` and the two exits after it |
| `AcceptTerminal`, `CorrectTerminal`, `CorrectOrGiveUp` | `terminal_issue`, `correction` |
| `UpstreamFails`, `FinalizationProposesCalls`, `AttemptsExhausted` | error exits |
| `Off...` | `_complete_phase_split_without_harness` and the pass-through path |

Roles are constants of the instance, also across the requests of a conversation. Two calls of one
batch with the same signature are both released: each is compared with the receipts, not with its
sibling. `last_action_blocked` is cleared only by `record`, so it stays set for the rest of a
request's loop; the model keeps that. The projection marker is looked for in the transcript under the
name `projection.py` uses. Private retry messages are left out, as the model may answer them in any
way; so are the payload's stateless validation, timing and text.

### AdmissionGate and Admission (`admission.py`)

`AdmissionGate` states the promise of `docs/policy.md`: how many requests are admitted at once, in
all and per budget key, how many per rate window, and how many upstream operations run. It has no
semaphores or timers; a request is only *out*, *queued*, *admitted*, *working* or *done*.

`Admission` is the controller. Each semaphore has its free permits and its deque of waiters; each
request has the state of its current acquisition:

    none -> spawned -> granted                     a permit was free
                    -> waiting -> handed -> granted   somebody released one
            any of these -> abandoned              timer or cancellation
                       handed -> returning -> abandoned   the permit goes back first

A step is what a task does between two suspensions. The controller's own locks are never held across
a suspension and therefore never contended, so their bodies are part of the step around them. The
semaphore and `asyncio.wait_for` are external code and follow CPython 3.11, the version of the image.
There, a cancellation that finds the inner task already done is dropped; the model records that as
`swallowed`. A budget object is named by the request that created it, so that two objects of one key
can be told apart. Requests are served once; a readiness probe (`BoundedUpstream.ready`) is an
operation without admission. `Prompt` chooses whether time may pass while a task is ready to run.
`Waiting` gives the places of a deque whose acquisition still waits; a release wakes the first.

`ImplementsGate` maps a request's stage to its phase and its budget key to the gate's.

### RequestLifecycle (`api.py`, `streaming.py`)

One request from arrival to the end of its answer. `stage` says where the request's task is; `work`
is the service task that `_complete_while_connected` starts; the replay of a streamed answer runs in
stages *replaying* and *ending*.

| Action | Code |
|---|---|
| `Arrive`, `TurnedAway`, `Admit` | `_authenticate`, `_deadline_at`, the admission context |
| `AdmitIgnoringDeadline`, `AdmitIgnoringCancel` | as `Admit`, where `wait_for` drops a cancellation |
| `StartWork`, `BodyRefused`, `BodyCutOff` | `_read_payload`, `prepare_replay_request`, opt-out checks |
| `Intervene`, `WorkReturns`, `WorkRaises`, `WorkCancelled`, `CancelLost` | the service task, `_snapshot_timing` |
| `Poll`, `PolledTooLate`, `InterruptWork`, `Unwound`, `WorkFailed` | the exits of `_complete_while_connected` |
| `TooLate`, `Unreplayable`, `Completes` | `_ensure_before_deadline`, `replay_completion`, `counters.observe` |
| `Replay...`, `StreamClosed` | `stream_response` and its handlers |
| `TimerFires`, `ServerCancels` | `timeout_at`, the `except` clauses of `chat` |
| `Fails`, `Aborts` (parts of the above) | `proxy_error_handler`, `except CancelledError` |

Admission is the one global budget of `Admission`, without its queue: a permit is free or not. What a
cancellation meets follows CPython 3.11: thrown into `await task` it goes into the service task first,
and replaces the exception of one that is already over; the exception of a service that failed
otherwise goes before the reason to unwind. The three intervention counts are added up, as they are
always written together. The counters of denials, upstream attempts and projections are left out.

### Supervision (`qualification_runtime.py`, `qualification_model_evidence.py`, `qualification_contract.py`)

`sup` holds the local variables of `supervise_qualification_runtime`; `sup.step` names the call it is
at, in the order `Calls` gives for the three kinds of stage. `Fail`, `Interrupt` and the failures of
single calls lead to `Leave`, that is to the clean-up, where each resource is a step; the outcome is
written last (`Report`), or not at all (`ReportNothing`).

| Action | Code |
|---|---|
| `Enter`, `SpecRefused`, `Load` | `_load_runtime_spec`, `_stage_binding`, the refusal of reserved paths |
| `Begin`, `Unused`, `Distinct`, `PriorPassed` | `ModelEvidenceSession.begin`, `_require_distinct_scored_model_instance`, `_validate_prior_outcome` |
| `FindNothingStale`, `CreateVolume`, `InitializeSecrets`, `LaunchProxy`, `StartObserver`, `Attest` | the calls of the same names |
| `StartObserverLost` | a signal between the start of the observer and its assignment |
| `Act`, `ScoringGate`, `Ask`, `AppendRow`, `FailRow`, `WritePreflight`, `Exit` | the benchmark child and `_invoke_action`, which waits for it |
| `ModelEvidence`, `FinalizeTiming`, `Settle` | the checks after the child |
| `StopObserver`, `Remove` | `_cleanup_runtime` |
| `ReplaceModel`, `StopModel`, `StartModel` | the operator, external |

Signals are delivered at calls, as in CPython 3.11, and are ignored once clean-up has begun. A killed
supervisor leaves its child, its observer and its Docker resources; an orphaned child goes on asking
the model and writing rows, which `foreign` and the run number in each row make visible. `FailRow` is
`append_failure` where the ledger already has rows of the case: it replaces them whoever wrote them,
so a ledger carries a count of its rewrites besides its rows. A stage has one benchmark row (`Cases`), the priming child of a warm lane is left out, and so is parsing: a
specification is accepted or not. The checkouts that the manifest names are taken to stay as they are.

### StageLedger and Campaign (`qualification_campaign.py`)

`StageLedger` is the promise: results are appended in the frozen order until one is not a pass, and
one verdict is given over a full log. `Campaign` is `advance_qualification_campaign`: a process takes
the directory's lock (`Advance`), re-reads the chain (`LoadEvents`; `Proceeds` picks the next stage or
stops), inspects the stage (`Inspect`), and adopts, gives up, or probes and runs it (`Probe`,
`RunStage`, `RunReturns`). `CreateEvent`, `FillEvent`, `CreateHead`, `FillHead` are `_write_event`;
a missing last head is written by whoever loads the chain next. `Complete`, `CreateVerdict` and
`FillVerdict` are `_complete_campaign`; the statistics of the policy-benefit gate are a choice.
`Crash` kills a process anywhere; the kernel frees its lock.

`ImplementsLedger` maps the filled event files to the log and the filled outcome file to the decision.

### EvidenceWindow (`run_paired_agentic_trial.py`, `qualification_timing.py`, `qualification_observer.py`, `qualification_reconciliation.py`, `api.py`)

| Actor | Actions | Code |
|---|---|---|
| runner | `Refuse`, `Withhold`, `Send`, `Answered`, `GiveUp`, `Expire`, `FinishCase` | `CompatibilityClient.complete`, `ProjectionAwareOpenAIClient`, the case loop of `main` |
| handlers | `Arrive`, `Project`, `StartCall`, `End` | the timing middleware, `chat`, `BoundedUpstream.chat`, `RequestTiming` |
| sink | `Capture`, `RefuseCapture` | `PrivateTimingSink.append` |
| observer | `Observe`, `LoseRecord` | the observer's `chat`, `_append_observation` |
| supervisor | `Collect`, `Extract`, `Finalize`, `Reconcile` | model evidence, capture extraction, `finalize_timing_evidence`, `verify_timing_ledger_linkage`, reconciliation |

Requests are numbered in the order their correlation ids are prepared. A request the runner gives up
goes on in the proxy; a call the proxy gives up goes on at the model. Phases of calls (taken to be the
same in attempt and record) and intervention counts are left out; the proxy's `/metrics` counters are
derived from the history of its requests; admission never refuses the sequential runner; the
scenario deadline exists only in v2 campaigns (`ScenarioDeadline`). The slice of a turn or row, in the
code a first and a last record and a count, is the set of the records' numbers; that it is one block
is part of the join. After its verdict the supervisor
removes proxy and observer. `Answered` keeps the defensive branch that books no account, although the
observer, which writes before it answers, never leads there.

### MC modules

`MCChatService`, `MCAdmission`, `MCAdmissionGate`, `MCRequestLifecycle`, `MCCampaign` and
`MCEvidenceWindow` name the model values and give the constant functions (which tool a call names,
which key a request has) and the request sets.

### Faults

A definition introduced by `Fault:` is a plausible bug of the definition that follows it (a dropped
guard, an off-by-one, a permit not given back). Nothing uses it: put in the place of the definition
it makes a property fail, which shows that the property depends on that line of the code.

## 4. Runs

| Run | Instance | Shows |
|---|---|---|
| `chat_gate` | 8 calls over a mutation, two verifiers, four distinct reads and a denied tool; 4 executions; plain, no-receipt, tool-less and opt-out requests; 3 attempts, 2 retries | `TerminalFollowsVerification`, `NoRepeatWithoutChange`, `DeniedNeverReleased`, `LoopBounded`, `InterventionsReported`, `StalledReadsAreWithheld`, `WithheldForCause` |
| `chat_batch` | batches of 2 over 2 ids (they collide), one unanswered call, one transcript fault, 2 executions | `LedgerFaithful`, `AnswerFollowsExecution` |
| `chat_split` | split upstream, four schemas, tool choice, trailing user turn, opt-out; 2 executions, one transcript fault, fair service | `TypeOK`, `ProjectionPassesTerminalGate`, `FailureClaimIsTrue`, `RequestsAreAnswered` |
| `chat_forced` | as `chat_gate` | finding: `ForcedAnswerIsAcceptable` is violated |
| `admission_gate` | four requests of two keys and a probe, two windows | `RateBounded` of the promise, for every window that ever was |
| `admission_gates` | two requests of one key and one of another, time passing at any moment, budgets pruned and recreated | `TypeOK`, `BudgetsConsistent`, `LimitsHold`, `ImplementsGate` |
| `admission_waits` | global mode, a probe competing for the upstream slot, fair event loop | `WaitsEnd`, `CancelledRequestsLeave` |
| `lifecycle_ends` | two requests, plain or streamed, one permit, one intervention each; deadlines, disconnects and server cancellations at any moment; fair event loop | `TypeOK`, `AdmissionExact`, `WorkIsAdmitted`, `InterventionsCountedOnce`, `GuardedRequestsEnd`, `LostDeadlineStillBites` |
| `lifecycle_deadline` | as above, and the model answers at last | finding: `DeadlineEndsRequests` is violated |
| `campaign_chain` | a preflight and one scored pair, two processes, one kill, one fault (signal, lost write, model stop), four model instances, fair commands and operator | `TypeOK`, `NoResultLost`, `PassedEvidenceIsOwn`, `LeftoversContained`, `NeverRerun`, `ImplementsLedger`, `CampaignEnds` |
| `evidence_window` | cases of two and one requests, two model calls, one fault, scenario deadline | `TypeOK`, `PassedEvidenceIsExact`, `CleanWindowPasses`, `CapturesInIngressOrder`, `TurnsHoldOwnRecords`, `JoinedRowsVerify`, `CapturesGetWritten` |
| `evidence_later` | as above | finding: `LaterCasesStillRun` is violated |

### Bounds, and why they are enough

- *Executions* (2 to 4): the policy looks at the latest receipt, at receipts of the current epoch, at
  open failures and at a counter with threshold 3. Four executions reach change, failed check, pass
  of another check, repeat; and a failed check with three reads after it, so that the fourth read is
  proposed at the threshold. Two reach a failure and its recovery, or a passing check beside a failed
  one.
- *Attempts and retries* (3 and 2, or 1 and 0): enough for a correction, a second one and the bound of
  two corrections; the bound of the loop is proved for every value.
- *Batches* of 2 over 2 ids: the shortest in which ids collide inside a batch, across messages and
  with an unanswered call.
- *Transcript faults*: one. `Honest` says when the proxy could know better.
- *Claims* {0, 1}: a true and a false claim for every history of up to one failure, and only false
  ones beyond.
- *Admission*: limits of 1 or 2 with three requests make every semaphore contended; `LastTick` leaves
  room for both waits and two rate windows; `LastArrival` stops new acquisitions so that every timer
  can fire before the clock stops. Requests are one-shot: what a later request of the same key meets
  is played by another request.
- *Lifecycle*: requests meet only at the permit and the counters, so two suffice to have one wait for
  what the other holds; one intervention tells a lost count from a double one.
- *Campaign*: every rule of the chain looks at a stage, its predecessor and the preflight, so one
  scored pair has every kind of neighbour. Two processes and one kill give every interleaving of a
  holder, a waiter and an orphan. Four instances are one per stage and one replacement.
- *Evidence window*: a case of two turns and one of one let a request follow an abandoned one in its
  own case and in the next; two calls make a request with two and two requests with one. The larger
  instance of three calls was checked too and holds, but takes three minutes.
- What the theorems of section 5 state holds without these bounds; only the liveness properties rest on
  the instances alone.
- Symmetry is used only in runs without liveness: over the four reads, and over requests of one key.

`CHECK_DEADLOCK FALSE` where the client may stop, the clock ends or the window has its verdict.

### Fairness

`ChatService!FairSpec`: weak fairness of the service's steps. The coroutine keeps running, and every
attempt ends because the transport has its own timeout. The client owes nothing.
`Admission!FairSpec`: the event loop runs every ready task, time passes, and an operation that was
cancelled ends. Nothing is assumed of a client that holds admission, nor of an operation nobody
cancelled: the timers must do the work.
`RequestLifecycle!FairSpec`: time passes, the event loop runs what is ready (the poll and due timers
included), admission answers because its waits are bounded, and work that was interrupted ends because
the transport has timeouts. A client may stall in its body or in reading a replay forever, and a model
may never answer. `ResponsiveSpec` adds that the model does answer, so that the finding it is used for
blames nothing but the lost deadline. `LostDeadlineStillBites` says without it what is left of that
deadline: a request with a body ends without its result, unless its work never ends.

`Campaign!FairSpec`: the operator repeats the command (`docs/benchmarking.md:88`) and restarts a model
that was used, commands and benchmark children end. Kills, signals and faults are not fair.
`EvidenceWindow!FairSpec`: a handler ends, at the latest at its deadline, and the middleware then
appends its capture. Nothing is assumed of the runner, the observer or the supervisor.

## 5. Theorems

The eight proof modules state every invariant and action property of the passing runs, and both
refinements, for all values of the constants. Each rests on one or two inductive invariants.

`ChatServiceProofs`, for all tools, calls, settings and bounds:

- `TypeCorrect`: `Spec => []TypeOK`.
- `AnswersAreVerified`: `Spec => []TerminalFollowsVerification`.
- `RepeatsFollowChange`: `Spec => []NoRepeatWithoutChange`.
- `LoopIsBounded`: `Spec => []LoopBounded`.
- `DeniedToolsAreWithheld`: `Spec => []DeniedNeverReleased`.
- `CountsAreReported`: `Spec => []InterventionsReported`.
- `ProjectionsPassTheGate`: `Spec => []ProjectionPassesTerminalGate`.

The gate's tests read summaries (`epoch`, `pending_verification`, `open_failures`), while the
properties speak of the history of receipts. The inductive invariant is therefore `TypeOK`, together
with `Summaries`, which says what each summary tells about the receipts (a change with no check after
it is pending; a failed check with no later pass of its verifier is open; two receipts have the same
epoch only if no change lies between them), and `AnswerInv`, which keeps the verdict attached to the
answer while the ledger stands still. `record` is the only step that must re-establish `Summaries`;
every other step leaves the ledger alone or empties it. `LoopBounded` has an invariant of its own,
which relates the counters of attempts, retries and corrections. The last three have `ExitInv`: the
reported counts are the current ones, an opted-out request denies nothing, and a step that ends in an
error has no answer to account for.

`ChatLedgerProofs`, likewise:

- `LedgerIsFaithful`: `Spec => []LedgerFaithful`.
- `AnswersFollowExecution`: `Spec => []AnswerFollowsExecution`.
- `FailureClaimsAreTrue`: `Spec => []FailureClaimIsTrue`.
- `StalledReadsWithheld`: `Spec => []StalledReadsAreWithheld`.
- `WithheldBatchesHaveCause`: `Spec => WithheldForCause`, its counterpart.

Reconstruction pairs results with calls by an id that the client may use again, so no function of the
transcript says which call a result belongs to. `LedgerInv` keeps witnesses: for each executed call
the place where it was proposed and the message that answered it, for each call the client still holds
its place; and a reconstruction that has given no warning has paired results with those places. With
the ledger equal to the client's history, `HistoryInv` carries over to that history what
`ChatServiceProofs` shows of the ledger. Its part `ReadsCounted` relates the counter of reads to the
reads after the last setback. Read in both directions, that and the epochs of `Summaries` give the two
halves of the policy: what must be withheld is withheld, and what is withheld had to be.

`AdmissionGateProofs`, for every set of requests and keys and every setting:

- `RateIsBounded`: `GateSpec => []RateBounded`.

It rests on `GateTyped`, on a counting lemma (a step adds at most one request to those charged in
a window, and only where the count is below the limit), and on the fact that
nobody is charged in the future, so that a window that ends later holds no more than one that ends
now.

`AdmissionProofs`, likewise:

- `AdmissionTyped`: `Spec => []TypeOK`.
- `BudgetsStayConsistent`: `Spec => []BudgetsConsistent`.
- `LimitsAlwaysHold`: `Spec => []LimitsHold`.
- `AdmissionImplementsGate`: `Spec => ImplementsGate`, the refinement.

`AInv` adds what a request's stage says of its acquisition and its budget (`Staged`), that a deque
holds each request once and only requests of its semaphore (`Deques`), that a budget object is created
once (`Created`), and that everyone charged in the current window has an entry of his own in the
budget's arrivals (`Charges`), which is what keeps the rate when a budget is pruned. A permit is free
or in the hands of one request, so that a hand-off moves it and a full semaphore means a full gate.
`LimitsHold` follows from `AInv` alone: the requests counted hold different permits of one semaphore,
as the budget object of a key that is in use is the only one.
The first waiter is the least element of a set of numbers; that there is one is derived from the
well-foundedness of finite subsets, as the library's induction theorems cannot be instantiated.

`RequestLifecycleProofs`, for every finite set of requests, every limit and number of interventions:

- `LifecycleTyped`: `Spec => []TypeOK`.
- `WorkStaysAdmitted`: `Spec => []WorkIsAdmitted`.
- `AdmissionIsExact`: `Spec => []AdmissionExact`.
- `InterventionsAreCountedOnce`: `Spec => []InterventionsCountedOnce`.

The invariant adds to the types that running work is waited for (`WorkWaitedFor`) and that a replay
has released admission exactly when it is past its delivery (`ReleasedAtTheEnd`), which is what makes
the second release of `StreamClosed` idle. `StepKeeps` shows for each action that it keeps the
invariant and is `Balanced`: it leaves the permits alone or moves one between the gate and the request
that steps. The count of holders follows. For the interventions, `NotYetObserved` says that a request
on its way has an up-to-date count and no answer, and every step is `Accounted`: it goes on, ends with
one call of a counter, or comes after that. `InterventionsCountedOnce` speaks of the number of pairs
of a request and one of its interventions, which is their sum without a fold.

`CampaignProofs`, for any number of pairs, processes, instances, faults and crashes:

- `TypeCorrect`: `Spec => []TypeOK`.
- `ResultsAreKept`: `Spec => []NoResultLost`.
- `NoStageRunsTwice`: `Spec => NeverRerun`.
- `LedgerImplemented`: `Spec => ImplementsLedger`, the refinement.

What has to be added to the properties is who may write. `Locking`: a process at work holds the lock,
so the others are idle. `Supervised`: a run under way belongs to that process and its next stage.
`Fresh`: up to its clean-up, the run's stage has no outcome. `Chain`: an event comes after passed
events with their heads, and the results recorded are those of `1..n`. `Positions`: what the process
at work has read about its stage is still true. `Sealed`: a rewritten ledger never regains its
former bytes, so an outcome once touched stays touched. The steps below the campaign are summed up as one `Effect` (no outcome
changes, a ledger is rewritten or left, the run keeps its stage), shown call by call; only the writing of the outcome
(`ReportKeeps`) is on its own. The refinement then needs two steps: a filled event appends, a filled
verdict decides, everything else stutters.

`CampaignRunProofs`, likewise, about the supervised run itself:

- `LeftoversAreContained`: `Spec => []LeftoversContained`.
- `PassedOutcomesAreTheirOwn`: `Spec => []PassedEvidenceIsOwn`.

`RunInv` says that no run is entered twice (`Identities`), that what a run created is still to be
removed unless its clean-up has failed (`Leftovers`), that between the two probes the model's counter
has grown by the run's own requests and those of strangers (`Exclusive`, so that an exact count
excludes strangers), and that a child at its exit left a row of its own or a failure (`OwnRows`).
`Contained` adds that a run at work has a child only while it waits for it (`OwnChild`), and that from
the search for stale resources on it works beside nobody else's: every call is either `Called`, which
makes nothing that is not the run's, or a step with a lemma of its own.
`PassedOutcomesAreTheirOwn` speaks of a passed outcome as long as the rows it hashed are those of the
file, and allows among them a failure that an orphan has put in their place (section 6).

`EvidenceWindowProofs`, for every plan of cases, number of model calls and of faults:

- `EvidenceIsTyped`: `Spec => []TypeOK`.
- `CapturesFollowIngress`: `Spec => []CapturesInIngressOrder`.
- `TurnsAreTheirOwn`: `Spec => []TurnsHoldOwnRecords`.
- `JoinedEvidenceVerifies`: `Spec => []JoinedRowsVerify`.
- `PassedWindowsAreExact`: `Spec => []PassedEvidenceIsExact`.
- `CleanWindowsPass`: `Spec => []CleanWindowPasses`.

The accounts are joined by position and nothing numbers them alike, so the invariant says how each
order arises. `ProxyInv` is about the proxy's side: ingress numbers are given out without gaps, and an
answered request has a smaller one than any later request (`NumbersInv`); the sink has written or lost
what is below its mark and holds the rest back (`FileInv`); the observer records the calls of a request
in order and once, and only its last call can lack a record (`CallsInv`); the model and the observer
agree on completions unless a call did not succeed (`ServedInv`). `AccountsInv` is about the runner and
the supervisor: one client row per request unless an id was left prepared (`RunnerInv`), turns that
partition what was consumed (`TurnsInv`), and, as long as every turn went well, equal ledgers
(`AlignedInv`) whose slices are consecutive blocks (`TiledInv`); what the supervisor has read stays
true while handlers go on (`EvidenceInv`). The steps of handlers and observer enter the second half only
through one relation, `ProxyAdvances`.

`PassedWindowsAreExact` then holds at the last check and nothing moves after it: every row's request was
captured, so no id was left prepared, rows are requests in order; every record is a success, so no call
is pending; and a record of a request lies in that request's block, as the block already has a record
with its number. `CleanWindowsPass` goes through the three places that refuse. In both, increasing
numbers in `1..c` are the identity (`IncreasingIsIdentity`), which is what turns two orders into one.

Assumptions: the ones stated as `ASSUME` beside the constants (roles are disjoint sets of tools,
limits are positive numbers, requests are finite).

Only model-checked: liveness (`RequestsAreAnswered`, `WaitsEnd`, `CancelledRequestsLeave`,
`GuardedRequestsEnd`, `LostDeadlineStillBites`, `CampaignEnds`, `CapturesGetWritten`), which is out of this prover's reach, as
fairness needs ENABLED; and the three findings, which are counterexamples.

## 6. Findings

- `chat_forced`: `blocked_result` asks for the final answer because the repeated call succeeded
  earlier, under conditions weaker than those of `terminal_issue`. When the latest receipt of another
  call failed, no answer is accepted and no call can be made, and the request ends in
  `harness_retry_exhausted`.
- `lifecycle_deadline`: a deadline that meets a permit already granted is dropped by `wait_for`, and is
  the request's only timer. The request then reads its body without any limit, and a client that never
  finishes the body keeps the permit.
- `evidence_later`: a turn prepares a correlation id on the client that all cases share before it
  finds that its case has no time left. The id stays prepared, and every later request of the run is
  refused, although "later cases must still run".

Disagreements seen while modelling that have no run:

- `docs/policy.md:205` describes a separate finalization attempt; an acquisition answer that is
  accepted at once (`service.py:321`) has none.
- `README.md:213` calls `ADMISSION_WAIT_SECONDS` the maximum queue wait; it is applied to the
  principal's and to the global budget in turn.
- `docs/policy.md:66` and `:68` promise that deadline and disconnect stop all work; the dropped
  cancellation above also lets a request go on from admission to its first upstream operation.
- `docs/benchmarking.md:75` says that every evidence writer is no-clobber and atomic;
  `_atomic_write_no_clobber` of the campaign creates the file under its final name and then fills it.
  A process killed in between leaves a torn file that every later command refuses (`Torn`).
- `append_failure` (`run_paired_agentic_trial.py:1242`) replaces the rows of its case so that no
  unverified row of its own benchmark is left; a benchmark child orphaned before it wrote anything
  can in this way also put its failure row in the place of the row of the run that repeats the stage,
  before that run's outcome hashes the file. `PassedEvidenceIsOwn` therefore excludes foreign rows
  that may count as passes, and not failures.

## 7. Not modelled

Settings parsing, transport, cache namespace and projection accounting have no state that steps could
disturb. The endpoint's other routes (`/v1/models`, readiness, metrics) only read or pass through. The
identity documents of the qualification code (manifests, provenance, model and container identity,
credentials) are compared field by field, once, with no interleaving; their failure is one of the
failures of the call that compares them. A checkout that changes between a run and its inspection
(`qualification_runtime.py:1077`) would turn a complete outcome into a partial one; it is listed as a
hazard, and the model takes checkouts as constant. The v2 evidence documents, the policy-benefit
statistics and the other scripts are computations over finished files. Text, headers, durations,
logging and JSON layout are left out everywhere; the classes of results, schemas and answers stand
for them.

Smaller things left out of what is modelled: the unnamed `docker run --rm` container that prepares the
timing volume (its volume is modelled, the container removes itself); the reconciliation's comparison
of the counters of admission rejections, as admission is taken never to refuse the sequential runner;
the size check while the capture file is copied out, one more way for that call to fail. The
hand-over of the admission stack to a response (`api.py:436`) is part of the step that accepts the
result; the fault `LeaveAdmissionPopped` has it happen before the last check that may still refuse
the result.
