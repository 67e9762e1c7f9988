---------------------------- MODULE EvidenceWindow ----------------------------
(* The evidence of one scored proxy stage, from the first request to the      *)
(* verdict. A sequential benchmark runner sends requests to the proxy and     *)
(* keeps its own account of them; the proxy's concurrent handlers call the    *)
(* model through an observer that records every call, and leave one timing    *)
(* capture each in a private sink; the supervisor then joins the four         *)
(* accounts and either refuses the window or passes it. A request the runner  *)
(* gives up on goes on in the proxy, and a call the proxy gives up on goes on *)
(* at the model: every account can grow after the others were closed.         *)
(*                                                                            *)
(* Requests are numbered in the order their correlation ids are prepared.     *)
EXTENDS Integers, Sequences, FiniteSets, FiniteSetsExt, Functions

CONSTANTS Turns,            \* the most requests of each benchmark case, in their order
          MaxCalls,         \* bound: model calls in the window
          MaxFaults,        \* bound: time-outs, failed calls and lost writes
          ScenarioDeadline  \* the runner has a deadline per case (v2 campaigns)

ASSUME EvidenceAssumption ==
  /\ Turns \in Seq(Nat) /\ MaxCalls \in Nat /\ MaxFaults \in Nat
  /\ ScenarioDeadline \in BOOLEAN

VARIABLES runner,      \* the runner's transport, observer cursor and place in the cases
          provisional, \* the runner's ledger of client invocations
          accounting,  \* the runner's ledger of proxy requests
          cases,       \* the rows of the benchmark output
          requests,    \* each prepared request, as its handler has it
          calls,       \* model calls the observer has not recorded yet
          ledger,      \* the observer's file
          served,      \* requests the model has completed
          sink,        \* the timing sink: ingress counter, rows held back, file
          evidence,    \* the supervisor's join
          faults

clientVars == <<runner, provisional, accounting, cases>>
proxyVars == <<requests, calls, ledger, served, sink>>
vars == <<clientVars, proxyVars, evidence, faults>>

Outcomes == {"succeeded", "failed", "cancelled", "deadline"}
Done == {"ended", "captured", "lost"}
Verdicts == {"passed", "refused"}
None == 0
Cases == Len(Turns)
MaxRequests == Cardinality(UNION {{case} \X (1 .. Turns[case]) : case \in 1 .. Cases})
Ids == DOMAIN requests
CallsOf(ids) == UNION {{id} \X DOMAIN requests[id].calls : id \in ids}

Prepared(state) ==
  [state |-> state, sequence |-> 0, calls |-> <<>>, outcome |-> "none",
   projected |-> FALSE, answered |-> FALSE]

Init ==
  /\ runner = [step |-> IF Cases = 0 THEN "closed" ELSE "case", turns |-> 0, expired |-> FALSE,
               prepared |-> None, awaited |-> None, reported |-> "none", consumed |-> {}]
  /\ provisional = <<>> /\ accounting = <<>> /\ cases = <<>>
  /\ requests = <<>> /\ calls = {} /\ ledger = <<>> /\ served = 0
  /\ sink = [next |-> 1, upto |-> 1, pending |-> {}, file |-> <<>>, lost |-> {}]
  /\ evidence = [step |-> "acting", at |-> "acting", completed |-> 0, file |-> <<>>,
                 rows |-> <<>>, observed |-> 0]
  /\ faults = 0

Fault == faults < MaxFaults /\ faults' = faults + 1

-----------------------------------------------------------------------------
(* The runner. A turn is one CompatibilityClient.complete; whatever it raises *)
(* ends its case with a failure row, and the next case begins.                *)

\* Fault: a turn takes whatever was appended since the last one.
MineByPosition(id) == {n \in DOMAIN ledger : n \notin runner.consumed}

\* The records of a request that no turn has consumed, by their numbers in the file. What
\* is kept of them, the first and the last number and the count, is kept here as the set.
Mine(id) == {n \in DOMAIN ledger : ledger[n].request = id /\ n \notin runner.consumed}

Drained == DOMAIN ledger \subseteq runner.consumed
AllOk(slice) == \A n \in slice : ledger[n].ok
Successes(slice) == Cardinality({n \in slice : ledger[n].ok})

Invoked(id, outcome, slice) ==
  provisional' = Append(provisional, [request |-> id, outcome |-> outcome, slice |-> slice])
Accounted(outcome, slice) ==
  accounting' = Append(accounting, [outcome |-> outcome, slice |-> slice,
                                    successes |-> Successes(slice)])

\* What the transport says of an invocation that sent nothing: the outcome of the last
\* request that was sent, or what the exception suggests.
Reported(otherwise) == IF runner.reported = "none" THEN otherwise ELSE runner.reported

CaseOver(client, verdict) ==
  /\ cases' = Append(cases, verdict)
  /\ runner' = [client EXCEPT !.step = IF Len(cases) + 1 = Cases THEN "closed" ELSE "case",
                              !.turns = 0, !.expired = FALSE, !.awaited = None]

InCase == runner.step = "case" /\ runner.turns < Turns[Len(cases) + 1]

\* A correlation id prepared earlier was never used: prepare_qualification_request raises.
Refuse ==
  /\ InCase /\ runner.prepared # None
  /\ Invoked(runner.prepared, Reported("failed"), {})
  /\ CaseOver(runner, "failed")
  /\ UNCHANGED <<accounting, proxyVars, evidence, faults>>

\* The case has no time left: the turn raises after the id was prepared, and sends nothing.
Withhold ==
  /\ InCase /\ runner.prepared = None /\ runner.expired
  /\ requests' = Append(requests, Prepared("withheld"))
  /\ Invoked(Len(requests'), Reported("deadline"), {})
  /\ Accounted(Reported("deadline"), {})
  /\ CaseOver([runner EXCEPT !.prepared = Len(requests')], "failed")
  /\ UNCHANGED <<calls, ledger, served, sink, evidence, faults>>

Send ==
  /\ InCase /\ runner.prepared = None /\ ~runner.expired
  /\ requests' = Append(requests, Prepared("sent"))
  /\ runner' = [runner EXCEPT !.step = "waiting", !.turns = @ + 1, !.reported = "none",
                              !.awaited = Len(requests')]
  /\ UNCHANGED <<provisional, accounting, cases, calls, ledger, served, sink, evidence, faults>>

\* The runner after a turn that reported this outcome and consumed these records.
Consumed(outcome, slice) ==
  [runner EXCEPT !.step = "case", !.awaited = None, !.reported = outcome,
                 !.consumed = @ \cup slice]

\* The answer arrives. An answered request stands only if its records are all there and
\* all successful; without records, or with too few and a failed one, it gets no account
\* (the observer writes before it answers, so the runner does not meet that case).
Answered ==
  /\ runner.step = "waiting" /\ requests[runner.awaited].state \in Done
  /\ LET id == runner.awaited
         request == requests[id]
         slice == Mine(id)
         all == Cardinality(slice) = Len(request.calls)
         client == Consumed(request.outcome, slice)
     IN /\ requests' = [requests EXCEPT ![id].answered = TRUE]
        /\ Invoked(id, request.outcome, slice)
        /\ IF request.outcome = "succeeded" /\ ~all /\ (slice = {} \/ ~AllOk(slice))
           THEN UNCHANGED accounting
           ELSE Accounted(request.outcome, slice)
        /\ IF request.outcome = "succeeded" /\ all /\ AllOk(slice)
           THEN runner' = client /\ UNCHANGED cases
           ELSE CaseOver(client, "failed")
  /\ UNCHANGED <<calls, ledger, served, sink, evidence, faults>>

\* The socket times out or breaks; the handler, if there is one, is not told at once.
GiveUp ==
  /\ runner.step = "waiting" /\ Fault
  /\ LET slice == Mine(runner.awaited)
     IN \E outcome \in {"deadline", "failed"} :
          /\ Invoked(runner.awaited, outcome, slice)
          /\ Accounted(outcome, slice)
          /\ CaseOver(Consumed(outcome, slice), "failed")
  /\ UNCHANGED <<proxyVars, evidence>>

Expire ==
  /\ ScenarioDeadline /\ runner.step # "closed" /\ ~runner.expired /\ Fault
  /\ runner' = [runner EXCEPT !.expired = TRUE]
  /\ UNCHANGED <<provisional, accounting, cases, proxyVars, evidence>>

\* The benchmark has its answer; a record that nobody consumed fails the case.
FinishCase ==
  /\ runner.step = "case" /\ runner.turns > 0
  /\ CaseOver(runner, IF ~runner.expired /\ Drained THEN "scored" ELSE "failed")
  /\ UNCHANGED <<provisional, accounting, proxyVars, evidence, faults>>

-----------------------------------------------------------------------------
(* The proxy's handlers, the observer and the model behind it.                *)

Running(id) == "running" \in Range(requests[id].calls)
Open(id) == requests[id].state = "open"

\* The timing middleware takes the ingress number before the handler runs.
Arrive(id) ==
  /\ requests[id].state = "sent"
  /\ requests' = [requests EXCEPT ![id].state = "open", ![id].sequence = sink.next]
  /\ sink' = [sink EXCEPT !.next = @ + 1]
  /\ UNCHANGED <<clientVars, calls, ledger, served, evidence, faults>>

\* The handler answers from the transcript, without the model.
Project(id) ==
  /\ Open(id) /\ requests[id].calls = <<>> /\ ~requests[id].projected
  /\ requests' = [requests EXCEPT ![id].projected = TRUE]
  /\ UNCHANGED <<clientVars, calls, ledger, served, sink, evidence, faults>>

\* A further call follows only one that succeeded.
StartCall(id) ==
  /\ Open(id) /\ ~requests[id].projected
  /\ Cardinality(CallsOf(Ids)) < MaxCalls
  /\ Range(requests[id].calls) \subseteq {"succeeded"}
  /\ requests' = [requests EXCEPT ![id].calls = Append(@, "running")]
  /\ calls' = calls \cup {[request |-> id, call |-> Len(requests[id].calls) + 1]}
  /\ UNCHANGED <<clientVars, ledger, served, sink, evidence, faults>>

\* The first end of a call stands: one the handler has cancelled stays cancelled.
Settle(call, status) ==
  requests' = [requests EXCEPT ![call.request].calls[call.call] =
                 IF @ = "running" THEN status ELSE @]

\* The observer has the model's answer, or its failure: it records, then answers.
Observe(call) ==
  /\ calls' = calls \ {call}
  /\ \E ok \in BOOLEAN, status \in {"succeeded", "failed"} :
       /\ IF ok /\ status = "succeeded" THEN UNCHANGED faults ELSE Fault
       /\ status = "succeeded" => ok
       /\ ledger' = Append(ledger, [request |-> call.request, call |-> call.call, ok |-> ok])
       /\ served' = IF ok THEN served + 1 ELSE served
       /\ Settle(call, status)
  /\ UNCHANGED <<clientVars, sink, evidence>>

\* The observer cannot write: the record is lost and its number used again.
LoseRecord(call) ==
  /\ Fault
  /\ calls' = calls \ {call} /\ served' = served + 1
  /\ Settle(call, "failed")
  /\ UNCHANGED <<clientVars, ledger, sink, evidence>>

\* Fault: a call in progress is left in progress.
EndedUnfrozen(request, outcome) ==
  [request EXCEPT !.state = "ended", !.outcome = outcome]

Ended(request, outcome) ==
  [request EXCEPT !.state = "ended", !.outcome = outcome,
     !.calls = [n \in DOMAIN @ |-> IF @[n] = "running" THEN "cancelled" ELSE @[n]]]

\* The handler ends: it answers, fails, meets its deadline, or sees the client gone. The
\* last two cancel a call in progress, which the observer and the model go on with.
End(id) ==
  /\ Open(id)
  /\ \E outcome \in Outcomes :
       /\ outcome = "succeeded" => \/ requests[id].projected
                                   \/ Range(requests[id].calls) = {"succeeded"}
       /\ outcome = "failed" => ~Running(id) /\ ~requests[id].projected
       /\ outcome = "cancelled" => runner.awaited # id /\ ~requests[id].projected
       /\ requests' = [requests EXCEPT ![id] = Ended(@, outcome)]
  /\ UNCHANGED <<clientVars, calls, ledger, served, sink, evidence, faults>>

-----------------------------------------------------------------------------
(* The private timing sink.                                                   *)

HeldWith(held, n) == CHOOSE id \in held : requests[id].sequence = n

\* Fault: rows are written as they come.
ContinuingAtOnce(held) == <<CHOOSE id \in held : TRUE>>

\* Fault: an append writes at most its own row.
ContinuingAlone(held) ==
  IF \E id \in held : requests[id].sequence = sink.upto
  THEN <<HeldWith(held, sink.upto)>> ELSE <<>>

\* The first ingress number that is not written and not held.
Missing(held) ==
  Min({n \in sink.upto .. sink.next : \A id \in held : requests[id].sequence # n})

\* The held rows that continue the file without a gap, in order.
Continuing(held) ==
  [k \in 1 .. Missing(held) - sink.upto |-> HeldWith(held, sink.upto + k - 1)]

\* A projection that did not succeed is no valid row: the capture is refused for good.
Valid(id) == requests[id].projected => requests[id].outcome = "succeeded"

RefuseCapture(id) ==
  /\ requests[id].state = "ended" /\ ~Valid(id)
  /\ requests' = [requests EXCEPT ![id].state = "lost"]
  /\ sink' = [sink EXCEPT !.lost = @ \cup {id}]
  /\ UNCHANGED <<clientVars, calls, ledger, served, evidence, faults>>

Capture(id) ==
  /\ requests[id].state = "ended" /\ Valid(id)
  /\ LET held == sink.pending \cup {id}
         rows == Continuing(held)
         flushed == [sink EXCEPT !.pending = held \ Range(rows), !.upto = @ + Len(rows)]
     IN \/ /\ sink' = [flushed EXCEPT !.file = @ \o rows]
           /\ requests' = [requests EXCEPT ![id].state = "captured"]
           /\ UNCHANGED faults
        \/ /\ rows # <<>> /\ Fault   \* the write fails after the rows were taken
           /\ sink' = [flushed EXCEPT !.lost = @ \cup Range(rows)]
           /\ requests' = [requests EXCEPT ![id].state = "lost"]
  /\ UNCHANGED <<clientVars, calls, ledger, served, evidence>>

-----------------------------------------------------------------------------
(* The supervisor, once the runner has exited.                                *)

Passing(step) == [evidence EXCEPT !.step = step]
Refusal == [evidence EXCEPT !.step = "refused", !.at = evidence.step]

\* The model's counters: idle, and as many completions as successful records.
Collect ==
  /\ evidence.step = "acting" /\ runner.step = "closed"
  /\ LET successes == Successes(DOMAIN ledger)
     IN evidence' = IF calls = {} /\ served = successes
                    THEN [Passing("collected") EXCEPT !.completed = successes]
                    ELSE Refusal
  /\ UNCHANGED <<clientVars, proxyVars, faults>>

Extract ==
  /\ evidence.step = "collected"
  /\ evidence' = [Passing("extracted") EXCEPT !.file = sink.file]
  /\ UNCHANGED <<clientVars, proxyVars, faults>>

\* Fault: only a success the observer denies is noticed.
AgreesLoosely(status, record) == status = "succeeded" => record.ok

\* A cancelled call may have failed at the model, and nothing else may differ.
Agrees(status, record) ==
  IF record.ok THEN status = "succeeded" ELSE status # "succeeded"

\* The records the rows before the n-th one claim, and all rows.
CountBefore(rows, n) == Cardinality(UNION {{m} \X rows[m].slice : m \in 1 .. n - 1})
CountAll(rows) == CountBefore(rows, Len(rows) + 1)

\* The n-th capture, client row and account are of one request, and the records it claims
\* are the next ones of the observer, carry its id and agree with its calls.
Joins(n) ==
  LET id == evidence.file[n]
      request == requests[id]
      client == provisional[n]
      account == accounting[n]
      count == Cardinality(client.slice)
      first == CountBefore(provisional, n) + 1
  IN /\ request.sequence = n
     /\ client.outcome = request.outcome /\ account.outcome = request.outcome
     /\ client.request = id
     /\ client.slice = first .. first + count - 1 /\ client.slice \subseteq DOMAIN ledger
     /\ Len(request.calls) = count
     /\ \A k \in 1 .. count :
          /\ ledger[first + k - 1].request = id
          /\ Agrees(request.calls[k], ledger[first + k - 1])
     /\ account.slice = client.slice
     /\ account.successes = Successes(client.slice)

\* Fault: a request without model calls must have a place in the observer's file.
JoinedWithRecords ==
  /\ Len(evidence.file) = Len(provisional) /\ Len(accounting) = Len(provisional)
  /\ \A n \in DOMAIN evidence.file : provisional[n].slice # {} /\ Joins(n)
  /\ CountAll(provisional) = Len(ledger)

Joined ==
  /\ Len(evidence.file) = Len(provisional) /\ Len(accounting) = Len(provisional)
  /\ \A n \in DOMAIN evidence.file : Joins(n)
  /\ CountAll(provisional) = Len(ledger)

\* Fault: the final row counts the records, the failed ones too.
FinalRowCountsAll(n) ==
  LET request == requests[evidence.file[n]]
  IN [outcome |-> request.outcome, calls |-> request.calls, projected |-> request.projected,
      slice |-> provisional[n].slice, successes |-> Cardinality(provisional[n].slice)]

\* finalize_timing_evidence
FinalRow(n) ==
  LET request == requests[evidence.file[n]]
  IN [outcome |-> request.outcome, calls |-> request.calls, projected |-> request.projected,
      slice |-> provisional[n].slice, successes |-> Successes(provisional[n].slice)]

Finalize ==
  /\ evidence.step = "extracted"
  /\ evidence' = IF Joined
                 THEN [Passing("finalized") EXCEPT
                         !.rows = [n \in DOMAIN evidence.file |-> FinalRow(n)],
                         !.observed = Len(ledger)]
                 ELSE Refusal
  /\ UNCHANGED <<clientVars, proxyVars, faults>>

\* verify_timing_ledger_linkage, on the rows as read back and the observer's file as it is now
Linked ==
  /\ \A n \in DOMAIN evidence.rows :
       LET row == evidence.rows[n]
           count == Cardinality(row.slice)
           first == CountBefore(evidence.rows, n) + 1
       IN /\ row.projected => row.outcome = "succeeded" /\ count = 0
          /\ row.slice = first .. first + count - 1 /\ row.slice \subseteq DOMAIN ledger
          /\ Len(row.calls) = count
          /\ \A k \in 1 .. count : Agrees(row.calls[k], ledger[first + k - 1])
          /\ row.successes = Successes(row.slice)
  /\ CountAll(evidence.rows) = Len(ledger)

CountOf(outcomes, log) == Cardinality({n \in DOMAIN log : log[n].outcome \in outcomes})
Arrived == {id \in Ids : requests[id].state \notin {"withheld", "sent"}}

\* The proxy's own counters and the model's against the ledgers. The proxy counts a
\* request when it comes, a call when it starts, an error when the request ends.
Reconciled ==
  /\ Cardinality(Arrived) = Len(evidence.rows)
  /\ Cardinality(CallsOf(Arrived)) = Len(ledger)
  /\ \A outcomes \in {Outcomes \ {"succeeded"}, {"cancelled"}, {"deadline"}} :
       CountOf(outcomes, requests) = CountOf(outcomes, evidence.rows)
  /\ \A n \in DOMAIN ledger : ledger[n].ok
  /\ evidence.completed = Len(ledger)

Reconcile ==
  /\ evidence.step = "finalized"
  /\ evidence' = IF Linked /\ Reconciled THEN Passing("passed") ELSE Refusal
  /\ UNCHANGED <<clientVars, proxyVars, faults>>

-----------------------------------------------------------------------------
RunnerStep == Refuse \/ Withhold \/ Send \/ Answered \/ GiveUp \/ Expire \/ FinishCase
HandlerStep(id) ==
  Arrive(id) \/ Project(id) \/ StartCall(id) \/ End(id) \/ RefuseCapture(id) \/ Capture(id)
ObserverStep(call) == Observe(call) \/ LoseRecord(call)
SupervisorStep == Collect \/ Extract \/ Finalize \/ Reconcile

\* The supervisor removes the proxy and the observer after its verdict.
Up == evidence.step \notin Verdicts

Next ==
  \/ RunnerStep \/ SupervisorStep
  \/ Up /\ \E id \in Ids : HandlerStep(id)
  \/ Up /\ \E call \in calls : ObserverStep(call)

Spec == Init /\ [][Next]_vars

\* A handler's deadline ends it, and the middleware's finally runs when it has ended.
FairSpec ==
  /\ Spec
  /\ \A id \in 1 .. MaxRequests :
       WF_vars(Up /\ id \in Ids /\ (End(id) \/ Capture(id) \/ RefuseCapture(id)))

-----------------------------------------------------------------------------
Statuses == {"running", "succeeded", "failed", "cancelled"}
Request == [state : {"withheld", "sent", "open"} \cup Done, sequence : Nat,
            calls : Seq(Statuses), outcome : Outcomes \cup {"none"},
            projected : BOOLEAN, answered : BOOLEAN]
Row == [outcome : Outcomes, calls : Seq(Statuses), projected : BOOLEAN,
        slice : SUBSET Nat, successes : Nat]
RunnerTyped ==
  /\ runner \in [step : {"case", "waiting", "closed"}, turns : Nat, expired : BOOLEAN,
                 prepared : {None} \cup Ids, awaited : {None} \cup Ids,
                 reported : Outcomes \cup {"none"}, consumed : SUBSET DOMAIN ledger]
  /\ provisional \in Seq([request : Ids, outcome : Outcomes, slice : SUBSET DOMAIN ledger])
  /\ accounting \in Seq([outcome : Outcomes, slice : SUBSET DOMAIN ledger, successes : Nat])
  /\ cases \in Seq({"scored", "failed"}) /\ Len(cases) <= Cases

RequestsTyped ==
  /\ requests \in Seq(Request)
  /\ \A id \in Ids :
       /\ requests[id].outcome = "none" <=> requests[id].state \notin Done
       /\ requests[id].state \in Done => ~Running(id)

ModelTyped ==
  /\ calls \subseteq [request : Ids, call : Nat]
  /\ \A call \in calls : call.call \in DOMAIN requests[call.request].calls
  /\ ledger \in Seq([request : Ids, call : Nat, ok : BOOLEAN]) /\ served \in Nat

SinkTyped ==
  sink \in [next : Nat, upto : Nat, pending : SUBSET Ids, file : Seq(Ids), lost : SUBSET Ids]

EvidenceTyped ==
  /\ evidence \in [step : {"acting", "collected", "extracted", "finalized"} \cup Verdicts,
                   at : {"acting", "collected", "extracted", "finalized"}, completed : Nat,
                   file : Seq(Ids), rows : Seq(Row), observed : Nat]
  /\ faults \in 0 .. MaxFaults

TypeOK == RunnerTyped /\ RequestsTyped /\ ModelTyped /\ SinkTyped /\ EvidenceTyped

\* A window that passes has an exact account: one row per request the runner prepared, in
\* its order, with the outcome its own handler reached, and the observer's records cut into
\* the calls of these requests, each of which both the model and the handler completed.
PassedEvidenceIsExact ==
  evidence.step = "passed" =>
    /\ Len(evidence.rows) = Len(requests) /\ calls = {}
    /\ \A id \in Ids :
         LET row == evidence.rows[id]
         IN /\ requests[id].state = "captured"
            /\ row.outcome = requests[id].outcome /\ row.calls = requests[id].calls
            /\ Range(row.calls) \subseteq {"succeeded"}
            /\ \E before \in 0 .. Len(ledger) :
                 /\ row.slice = before + 1 .. before + Len(row.calls)
                 /\ \A k \in DOMAIN row.calls :
                      ledger[before + k] = [request |-> id, call |-> k, ok |-> TRUE]
    /\ UNION {evidence.rows[id].slice : id \in Ids} = DOMAIN ledger
    /\ \A id, later \in Ids : id < later =>
         \A n \in evidence.rows[id].slice, m \in evidence.rows[later].slice : n < m

\* The other way round: a window in which every request was sent, was answered by its own
\* handler and lost nothing, and whose captures were written in time, is not refused.
CleanWindowPasses ==
  evidence.step = "refused" =>
    \/ \E id \in Ids : \/ requests[id].state # "captured" \/ ~requests[id].answered
                       \/ ~(Range(requests[id].calls) \subseteq {"succeeded"})
    \/ evidence.at \notin {"acting", "collected"} /\ Len(evidence.file) < Len(requests)

\* The capture file follows ingress order whatever order the handlers end in, and has a gap
\* only where a write failed.
CapturesInIngressOrder ==
  \A n \in DOMAIN sink.file :
    /\ \A m \in 1 .. n - 1 : requests[sink.file[m]].sequence < requests[sink.file[n]].sequence
    /\ \A s \in 1 .. requests[sink.file[n]].sequence :
         \E id \in Range(sink.file) \cup sink.lost : requests[id].sequence = s

\* No turn is credited with a record of another request, and no record is credited twice,
\* although abandoned requests go on calling the model.
TurnsHoldOwnRecords ==
  \A n \in DOMAIN provisional :
    /\ \A s \in provisional[n].slice : ledger[s].request = provisional[n].request
    /\ \A m \in DOMAIN provisional \ {n} : provisional[n].slice \cap provisional[m].slice = {}

\* The verification repeats the join in its own words: it accepts whatever the join
\* produced, as long as the observer has recorded nothing since.
JoinedRowsVerify ==
  evidence.step = "finalized" /\ evidence.observed = Len(ledger) => Linked

\* A request that came in has its capture written at last, unless an earlier one, or its
\* own, is lost, or the supervisor had its verdict first.
CapturesGetWritten ==
  \A id \in 1 .. MaxRequests :
    (id \in Ids /\ requests[id].sequence > 0) ~>
      \/ ~Up \/ id \in Range(sink.file)
      \/ id \in Ids /\ \E other \in sink.lost :
           requests[other].sequence <= requests[id].sequence

\* run_paired_agentic_trial.py: "The failed case is evidence; later cases must still run."
\* A case with time left is not kept from sending by an id that another one left prepared.
LaterCasesStillRun ==
  runner.step = "case" /\ ~runner.expired => runner.prepared = None
=============================================================================
