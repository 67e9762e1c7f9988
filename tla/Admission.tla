------------------------------ MODULE Admission ------------------------------
(***************************************************************************)
(* admission.AdmissionController and admission.BoundedUpstream: the global *)
(* and per-principal budgets a request holds for its lifetime, and the     *)
(* upstream slot of each operation, on one asyncio event loop.             *)
(*                                                                         *)
(* A step is what a task does between two suspensions.  The controller's   *)
(* own asyncio.Locks are never held across a suspension, so they are never *)
(* contended and their bodies belong to the step around them.  Every       *)
(* semaphore acquisition runs under asyncio.wait_for, which puts it into a *)
(* task of its own: it starts, may wait, may be handed a permit, and may   *)
(* be abandoned by a timer or a cancellation at any of these points.       *)
(*                                                                         *)
(* A budget object is named by the request that created it.                *)
(***************************************************************************)
EXTENDS Integers, Sequences, FiniteSets, SequencesExt

CONSTANTS Requests,          \* downstream requests, each admitted at most once
          Probes,            \* readiness probes (BoundedUpstream.ready), not admitted
          Principals,        \* authenticated budget keys
          PrincipalOf,       \* the key of each request; GlobalKey when it has none
          GlobalMode,        \* settings: PRINCIPAL_BUDGET_MODE = global
          AdmissionLimit, PrincipalLimit, ConcurrencyLimit, RateLimit, RateWindow,
          AdmissionWait, ConcurrencyWait,
          Prompt,            \* time passes only while the event loop has nothing to run
          MaxOperations,     \* upstream operations of a request (max_upstream_calls)
          LastArrival,       \* bound: no acquisition begins later
          LastTick           \* bound: the clock stops here

GlobalKey == "global"
Keys == Principals \cup {GlobalKey}
AdmissionSem == "admission"
UpstreamSem == "upstream"
Semaphores == Requests \cup {AdmissionSem, UpstreamSem}
None == "none"
Never == -1

ASSUME AdmissionAssumption ==
  /\ IsFiniteSet(Requests) /\ Probes \subseteq Requests
  /\ Requests \cap {AdmissionSem, UpstreamSem, None} = {}
  /\ PrincipalOf \in [Requests -> Keys]
  /\ GlobalMode \in BOOLEAN /\ Prompt \in BOOLEAN
  /\ AdmissionLimit \in Nat \ {0} /\ PrincipalLimit \in Nat \ {0}
  /\ ConcurrencyLimit \in Nat \ {0}
  /\ RateLimit \in Nat \ {0} /\ RateWindow \in Nat \ {0}
  /\ AdmissionWait \in Nat \ {0} /\ ConcurrencyWait \in Nat \ {0}
  /\ MaxOperations \in Nat /\ LastArrival \in Nat /\ LastTick \in Nat

Stages == {"out", "principal", "global", "active", "slot", "upstream", "leaving", "done"}
AcquireStates == {"none", "spawned", "waiting", "handed", "returning", "granted", "abandoned"}
Cancellations == {"no", "pending", "swallowed"}

VARIABLES stage,       \* where each request is
          acquire,     \* its current semaphore acquisition
          due,         \* when its wait_for expires
          cancelled,   \* a deadline or disconnect cancelled it: still to unwind, or swallowed
          budget,      \* the budget object it references
          operations,  \* the upstream operations it has started
          value,       \* free permits of each semaphore
          queue,       \* the futures in each semaphore's deque
          table,       \* _principals
          references, arrivals, last_used,  \* of each budget object
          queued, active, upstream_active, admission_rejections, rate_rejections,
          now,
          charged      \* ghost: when each request was charged to its rate window

requestVars == <<stage, acquire, due, cancelled, budget, operations>>
semaphoreVars == <<value, queue>>
budgetVars == <<table, references, arrivals, last_used>>
counterVars == <<queued, active, upstream_active, admission_rejections, rate_rejections>>
vars == <<requestVars, semaphoreVars, budgetVars, counterVars, charged, now>>

Init ==
  /\ stage = [r \in Requests |-> "out"]
  /\ acquire = [r \in Requests |-> "none"]
  /\ due = [r \in Requests |-> Never]
  /\ cancelled = [r \in Requests |-> "no"]
  /\ budget = [r \in Requests |-> None]
  /\ operations = [r \in Requests |-> 0]
  /\ value = [s \in Semaphores |-> IF s = AdmissionSem THEN AdmissionLimit
                                   ELSE IF s = UpstreamSem THEN ConcurrencyLimit
                                   ELSE PrincipalLimit]
  /\ queue = [s \in Semaphores |-> <<>>]
  /\ table = [k \in Keys |-> None]
  /\ references = [b \in Requests |-> 0]
  /\ arrivals = [b \in Requests |-> <<>>]
  /\ last_used = [b \in Requests |-> 0]
  /\ queued = 0 /\ active = 0 /\ upstream_active = 0
  /\ admission_rejections = 0 /\ rate_rejections = 0
  /\ now = 0
  /\ charged = [r \in Requests |-> Never]

-----------------------------------------------------------------------------
\* asyncio.Semaphore, external.
SemaphoreOf(r) ==
  IF stage[r] = "principal" THEN budget[r]
  ELSE IF stage[r] = "global" THEN AdmissionSem ELSE UpstreamSem

\* locked(): no permit, or somebody who is not cancelled is queued.
Locked(s) == value[s] = 0 \/ queue[s] # <<>>

\* The places in the deque whose future is not done.
Waiting(s) == {i \in DOMAIN queue[s] : acquire[queue[s][i]] = "waiting"}
FirstWaiting(s) == queue[s][Min(Waiting(s))]

\* _wake_up_next on each of the semaphores in S hands a permit to its first waiter.
Woken(S) == {FirstWaiting(s) : s \in {s \in S : Waiting(s) # {}}}

\* release() of the semaphores in S: a waiter takes the permit, or it becomes free.
Release(S) ==
  value' = [s \in Semaphores |-> IF s \in S /\ Waiting(s) = {} THEN value[s] + 1 ELSE value[s]]

\* r's acquisition becomes `state` while those woken from S are handed a permit.
SetAcquire(r, state, S) ==
  acquire' = [q \in Requests |-> IF q = r THEN state
                                 ELSE IF q \in Woken(S) THEN "handed" ELSE acquire[q]]

\* A future is taken out of the deque it was appended to; one never appended is not there.
Places(s, r) == {i \in DOMAIN queue[s] : queue[s][i] = r}
Without(s, r) == IF Places(s, r) = {} THEN queue[s] ELSE RemoveAt(queue[s], Min(Places(s, r)))
Unqueue(r) == queue' = [queue EXCEPT ![SemaphoreOf(r)] = Without(SemaphoreOf(r), r)]

AcquireStarts(r) ==
  /\ acquire[r] = "spawned"
  /\ LET s == SemaphoreOf(r)
     IN \/ /\ ~Locked(s)
           /\ value' = [value EXCEPT ![s] = @ - 1]
           /\ SetAcquire(r, "granted", {})
           /\ UNCHANGED queue
        \/ /\ Locked(s)
           /\ queue' = [queue EXCEPT ![s] = Append(@, r)]
           /\ SetAcquire(r, "waiting", {})
           /\ UNCHANGED value
  /\ UNCHANGED <<stage, due, cancelled, budget, operations, budgetVars, counterVars, charged, now>>

\* The task that was handed a permit runs, and passes on a permit freed meanwhile.
AcquireResumes(r) ==
  /\ acquire[r] = "handed"
  /\ LET s == SemaphoreOf(r)
         S == IF value[s] > 0 THEN {s} ELSE {}
     IN /\ value' = [value EXCEPT ![s] = @ - Cardinality(Woken(S))]
        /\ SetAcquire(r, "granted", S)
  /\ Unqueue(r)
  /\ UNCHANGED <<stage, due, cancelled, budget, operations, budgetVars, counterVars, charged, now>>

\* It was cancelled after the hand-off: the permit goes back.
AcquireReturns(r) ==
  /\ acquire[r] = "returning"
  /\ Release({SemaphoreOf(r)})
  /\ SetAcquire(r, "abandoned", {SemaphoreOf(r)})
  /\ Unqueue(r)
  /\ UNCHANGED <<stage, due, cancelled, budget, operations, budgetVars, counterVars, charged, now>>

\* wait_for cancels the acquisition it waits for.
Abandon(r) ==
  IF acquire[r] = "handed"
  THEN SetAcquire(r, "returning", {}) /\ UNCHANGED queue
  ELSE SetAcquire(r, "abandoned", {}) /\ Unqueue(r)

Unfinished(r) == acquire[r] \in {"spawned", "waiting", "handed"}

\* Fault: the upstream slot is awaited without a timeout.
TimerFiresInAdmission(r) ==
  /\ stage[r] # "slot"
  /\ Unfinished(r) /\ now >= due[r]
  /\ Abandon(r)
  /\ UNCHANGED <<stage, due, cancelled, budget, operations, value, budgetVars, counterVars,
                 charged, now>>

TimerFires(r) ==
  /\ Unfinished(r) /\ now >= due[r]
  /\ Abandon(r)
  /\ UNCHANGED <<stage, due, cancelled, budget, operations, value, budgetVars, counterVars, charged, now>>

\* A deadline or a disconnect cancels the request's task, once.  wait_for of
\* CPython 3.11 drops a cancellation that finds the permit already granted.
Cancel(r) ==
  /\ r \notin Probes
  /\ stage[r] \in {"principal", "global", "active", "slot", "upstream"}
  /\ cancelled[r] = "no"
  /\ cancelled' = [cancelled EXCEPT ![r] = IF acquire[r] = "granted" THEN "swallowed" ELSE "pending"]
  /\ stage' = IF stage[r] = "active" THEN [stage EXCEPT ![r] = "leaving"] ELSE stage
  /\ \/ Unfinished(r) /\ Abandon(r)
     \/ ~Unfinished(r) /\ UNCHANGED <<acquire, queue>>
  /\ UNCHANGED <<due, budget, operations, value, budgetVars, counterVars, charged, now>>

-----------------------------------------------------------------------------
\* _principal: the budget key of a request.
KeyFor(r) == IF GlobalMode THEN GlobalKey ELSE PrincipalOf[r]

\* wait_for(semaphore.acquire(), wait): the acquisition becomes a task.
Await(r, next, wait) ==
  /\ stage' = [stage EXCEPT ![r] = next]
  /\ SetAcquire(r, "spawned", {})
  /\ due' = [due EXCEPT ![r] = now + wait]

\* admit: the request is queued and references the budget of its key.
Arrive(r) ==
  LET k == KeyFor(r)
      b == IF table[k] = None THEN r ELSE table[k]
  IN /\ stage[r] = "out" /\ r \notin Probes
     /\ now <= LastArrival
     /\ queued' = queued + 1
     /\ table' = [table EXCEPT ![k] = b]
     /\ budget' = [budget EXCEPT ![r] = b]
     /\ references' = [references EXCEPT ![b] = @ + 1]
     /\ last_used' = IF table[k] = None THEN [last_used EXCEPT ![b] = now] ELSE last_used
     /\ Await(r, "principal", AdmissionWait)
     /\ UNCHANGED <<cancelled, operations, semaphoreVars, arrivals, active, upstream_active,
                    admission_rejections, rate_rejections, now, charged>>

PrincipalGranted(r) ==
  /\ stage[r] = "principal" /\ acquire[r] = "granted"
  /\ Await(r, "global", AdmissionWait)
  /\ UNCHANGED <<cancelled, budget, operations, semaphoreVars, budgetVars, counterVars, charged,
                 now>>

\* The arrivals of a budget from the first that is still in its window.
InWindow(b) == {i \in DOMAIN arrivals[b] : arrivals[b][i] > now - RateWindow}
Recent(b) == IF InWindow(b) = {} THEN <<>>
             ELSE SubSeq(arrivals[b], Min(InWindow(b)), Len(arrivals[b]))

\* Fault: off by one.
RateExceededByTwo(b) == Len(Recent(b)) > RateLimit

\* _charge_rate: the window of the budget is full.
RateExceeded(b) == Len(Recent(b)) >= RateLimit

\* Fault: a budget in use is forgotten once its window is empty.
ExpiredInUse(b) == Recent(b) = <<>> /\ last_used'[b] <= now - RateWindow

\* _prune_principals: expired arrivals go, and then the budgets nobody uses.
Expired(b) ==
  /\ references'[b] = 0 /\ Recent(b) = <<>>
  /\ last_used'[b] <= now - RateWindow

Prune ==
  /\ arrivals' = [b \in Requests |-> IF \E k \in Keys : table[k] = b THEN Recent(b) ELSE arrivals[b]]
  /\ table' = [k \in Keys |-> IF table[k] # None /\ Expired(table[k]) THEN None ELSE table[k]]

\* admit's finally: give back the semaphores in S and the budget reference, then prune.
Exit(r, S) ==
  LET b == budget[r]
  IN /\ stage' = [stage EXCEPT ![r] = "done"]
     /\ Release(S)
     /\ SetAcquire(r, "none", S)
     /\ due' = [due EXCEPT ![r] = Never]
     /\ budget' = [budget EXCEPT ![r] = None]
     /\ references' = [references EXCEPT ![b] = @ - 1]
     /\ last_used' = IF b \in S THEN [last_used EXCEPT ![b] = now] ELSE last_used
     /\ Prune
     /\ UNCHANGED <<cancelled, operations, queue, upstream_active, now, charged>>

\* _acquire: a timeout counts as a rejection, a cancellation does not.
CountRejection(r) ==
  admission_rejections' = IF cancelled[r] = "pending" THEN admission_rejections
                          ELSE admission_rejections + 1

PrincipalFails(r) ==
  /\ stage[r] = "principal" /\ acquire[r] = "abandoned"
  /\ CountRejection(r)
  /\ queued' = queued - 1
  /\ Exit(r, {})
  /\ UNCHANGED <<active, rate_rejections>>

\* Fault: the principal's permit is not given back.
GlobalFailsHolding(r) ==
  /\ stage[r] = "global" /\ acquire[r] = "abandoned"
  /\ CountRejection(r)
  /\ queued' = queued - 1
  /\ Exit(r, {})
  /\ UNCHANGED <<active, rate_rejections>>

\* Fault: the request counts as active before it is admitted.
GlobalFailsActive(r) ==
  /\ stage[r] = "global" /\ acquire[r] = "abandoned"
  /\ CountRejection(r)
  /\ active' = active - 1
  /\ Exit(r, {budget[r]})
  /\ UNCHANGED <<queued, rate_rejections>>

GlobalFails(r) ==
  /\ stage[r] = "global" /\ acquire[r] = "abandoned"
  /\ CountRejection(r)
  /\ queued' = queued - 1
  /\ Exit(r, {budget[r]})
  /\ UNCHANGED <<active, rate_rejections>>

\* _charge_rate refuses: both permits go back.
RateRejected(r) ==
  /\ stage[r] = "global" /\ acquire[r] = "granted"
  /\ RateExceeded(budget[r])
  /\ rate_rejections' = rate_rejections + 1
  /\ queued' = queued - 1
  /\ Exit(r, {budget[r], AdmissionSem})
  /\ UNCHANGED <<active, admission_rejections>>

Admit(r) ==
  LET b == budget[r]
  IN /\ stage[r] = "global" /\ acquire[r] = "granted"
     /\ ~RateExceeded(b)
     /\ arrivals' = [arrivals EXCEPT ![b] = Append(Recent(b), now)]
     /\ last_used' = [last_used EXCEPT ![b] = now]
     /\ queued' = queued - 1 /\ active' = active + 1
     /\ stage' = [stage EXCEPT ![r] = "active"]
     /\ SetAcquire(r, "none", {})
     /\ due' = [due EXCEPT ![r] = Never]
     /\ charged' = [charged EXCEPT ![r] = now]
     /\ UNCHANGED <<cancelled, budget, operations, semaphoreVars, table, references, upstream_active,
                    admission_rejections, rate_rejections, now>>

\* The response is complete, or an error or a cancellation unwinds the request.
Leave(r) ==
  /\ stage[r] \in {"active", "leaving"}
  /\ active' = active - 1
  /\ Exit(r, {budget[r], AdmissionSem})
  /\ UNCHANGED <<queued, admission_rejections, rate_rejections>>

-----------------------------------------------------------------------------
\* BoundedUpstream: one operation under upstream_slot.
StartOperation(r) ==
  /\ stage[r] = IF r \in Probes THEN "out" ELSE "active"
  /\ operations[r] < MaxOperations
  /\ now <= LastArrival
  /\ Await(r, "slot", ConcurrencyWait)
  /\ UNCHANGED <<cancelled, budget, operations, semaphoreVars, budgetVars, counterVars, charged,
                 now>>

SlotGranted(r) ==
  /\ stage[r] = "slot" /\ acquire[r] = "granted"
  /\ stage' = [stage EXCEPT ![r] = "upstream"]
  /\ SetAcquire(r, "none", {})
  /\ due' = [due EXCEPT ![r] = Never]
  /\ upstream_active' = upstream_active + 1
  /\ operations' = [operations EXCEPT ![r] = @ + 1]
  /\ UNCHANGED <<cancelled, budget, semaphoreVars, budgetVars, queued, active,
                 admission_rejections, rate_rejections, charged, now>>

\* 503 upstream_concurrency_limited, or the cancellation, unwinds the request.
Unwound(r) == IF r \in Probes THEN "done" ELSE "leaving"

\* Fault: a failed slot leaves the request running.
SlotFailsQuietly(r) ==
  /\ stage[r] = "slot" /\ acquire[r] = "abandoned"
  /\ stage' = [stage EXCEPT ![r] = IF r \in Probes THEN "done" ELSE "active"]
  /\ SetAcquire(r, "none", {})
  /\ due' = [due EXCEPT ![r] = Never]
  /\ UNCHANGED <<cancelled, budget, operations, semaphoreVars, budgetVars, counterVars, charged,
                 now>>

SlotFails(r) ==
  /\ stage[r] = "slot" /\ acquire[r] = "abandoned"
  /\ stage' = [stage EXCEPT ![r] = Unwound(r)]
  /\ SetAcquire(r, "none", {})
  /\ due' = [due EXCEPT ![r] = Never]
  /\ UNCHANGED <<cancelled, budget, operations, semaphoreVars, budgetVars, counterVars, charged,
                 now>>

\* The operation returned, failed, or was cancelled.
OperationEnds(r) ==
  /\ stage[r] = "upstream"
  /\ \/ stage' = [stage EXCEPT ![r] = Unwound(r)]
     \/ /\ r \notin Probes /\ cancelled[r] # "pending"
        /\ stage' = [stage EXCEPT ![r] = "active"]
  /\ upstream_active' = upstream_active - 1
  /\ Release({UpstreamSem})
  /\ SetAcquire(r, "none", {UpstreamSem})
  /\ UNCHANGED <<due, cancelled, budget, operations, queue, budgetVars, queued, active,
                 admission_rejections, rate_rejections, charged, now>>

-----------------------------------------------------------------------------
\* The event loop has a step of r to run.
Runnable(r) ==
  \/ acquire[r] \in {"spawned", "handed", "returning", "granted", "abandoned"}
  \/ acquire[r] = "waiting" /\ now >= due[r]
  \/ stage[r] = "leaving"

Tick ==
  /\ now < LastTick
  /\ Prompt => \A r \in Requests : ~Runnable(r)
  /\ now' = now + 1
  /\ UNCHANGED <<requestVars, semaphoreVars, budgetVars, counterVars, charged>>

\* What the event loop runs for r without anything from outside.
Run(r) ==
  \/ AcquireStarts(r) \/ AcquireResumes(r) \/ AcquireReturns(r) \/ TimerFires(r)
  \/ PrincipalGranted(r) \/ PrincipalFails(r) \/ GlobalFails(r)
  \/ RateRejected(r) \/ Admit(r)
  \/ SlotGranted(r) \/ SlotFails(r)
  \/ stage[r] = "leaving" /\ Leave(r)

Next ==
  \/ Tick
  \/ \E r \in Requests :
       \/ Run(r)
       \/ Arrive(r) \/ StartOperation(r) \/ OperationEnds(r)
       \/ stage[r] = "active" /\ Leave(r)
       \/ Cancel(r)

Spec == Init /\ [][Next]_vars

\* The event loop runs what is ready, time passes, and a cancelled operation ends.
FairSpec ==
  /\ Spec /\ WF_vars(Tick)
  /\ \A r \in Requests :
       WF_vars(Run(r)) /\ WF_vars(cancelled[r] = "pending" /\ OperationEnds(r))

-----------------------------------------------------------------------------
(***************************************************************************)
(* Properties.                                                             *)
(***************************************************************************)
TypeOK ==
  /\ stage \in [Requests -> Stages]
  /\ acquire \in [Requests -> AcquireStates]
  /\ due \in [Requests -> Nat \cup {Never}]
  /\ cancelled \in [Requests -> Cancellations]
  /\ budget \in [Requests -> Requests \cup {None}]
  /\ operations \in [Requests -> Nat]
  /\ value \in [Semaphores -> Nat]
  /\ queue \in [Semaphores -> Seq(Requests)]
  /\ table \in [Keys -> Requests \cup {None}]
  /\ references \in [Requests -> Nat]
  /\ arrivals \in [Requests -> Seq(Nat)]
  /\ last_used \in [Requests -> Nat]
  /\ queued \in Nat /\ active \in Nat /\ upstream_active \in Nat
  /\ admission_rejections \in Nat /\ rate_rejections \in Nat
  /\ now \in Nat
  /\ charged \in [Requests -> Nat \cup {Never}]

\* A permit of s is in r's hands: held for its lifetime, or by an acquisition that
\* was handed one and has neither been taken over nor given it back.
InAdmission(r) == stage[r] \in {"active", "slot", "upstream", "leaving"} /\ r \notin Probes
Holds(r, s) ==
  \/ s = AdmissionSem /\ InAdmission(r)
  \/ s = UpstreamSem /\ stage[r] = "upstream"
  \/ s = budget[r] /\ (stage[r] = "global" \/ InAdmission(r))
InFlight(r, s) ==
  /\ stage[r] \in {"principal", "global", "slot"} /\ SemaphoreOf(r) = s
  /\ acquire[r] \in {"handed", "returning", "granted"}

Limit(s) == IF s = AdmissionSem THEN AdmissionLimit
            ELSE IF s = UpstreamSem THEN ConcurrencyLimit ELSE PrincipalLimit

\* No permit is lost or invented by a timeout or a cancellation, whatever it meets.
PermitsConserved ==
  \A s \in Semaphores :
    value[s] + Cardinality({r \in Requests : Holds(r, s)})
             + Cardinality({r \in Requests : InFlight(r, s)}) = Limit(s)

\* The gauges and counters of /metrics describe the requests, on every way out.
GaugesMatch ==
  /\ queued = Cardinality({r \in Requests : stage[r] \in {"principal", "global"}})
  /\ active = Cardinality({r \in Requests : InAdmission(r)})
  /\ upstream_active = Cardinality({r \in Requests : stage[r] = "upstream"})

\* policy.md: principal entries expire only when no request references them, so every
\* request of a key shares the one budget of the table.
BudgetsShared ==
  /\ \A r \in Requests : budget[r] # None => table[KeyFor(r)] = budget[r]
  /\ \A b \in Requests : references[b] = Cardinality({r \in Requests : budget[r] = b})

\* The three accounts that every path through admit and upstream_slot has to keep, those
\* taken by a time-out, a cancellation or a refusal included.
BudgetsConsistent == PermitsConserved /\ GaugesMatch /\ BudgetsShared

\* policy.md: ADMISSION_LIMIT bounds full request lifetimes, CONCURRENCY_LIMIT operations.  The
\* principal's permit comes first, so a key holds no more than its own limit of the places
\* before and behind the global gate, however often its budget object was pruned and made
\* again, and whoever was handed a permit that another had given up.
LimitsHold ==
  /\ Cardinality({r \in Requests : InAdmission(r)}) <= AdmissionLimit
  /\ \A k \in Keys :
       Cardinality({r \in Requests : KeyFor(r) = k /\ (stage[r] = "global" \/ InAdmission(r))})
         <= PrincipalLimit
  /\ Cardinality({r \in Requests : stage[r] = "upstream"}) <= ConcurrencyLimit

\* What admission promises.
Phase(r) ==
  CASE stage[r] \in {"principal", "global"} -> "queued"
    [] stage[r] = "upstream" -> "working"
    [] stage[r] = "slot" /\ r \in Probes -> "out"
    [] stage[r] \in {"active", "slot", "leaving"} /\ r \notin Probes -> "admitted"
    [] OTHER -> stage[r]

Gate == INSTANCE AdmissionGate
          WITH phase <- [r \in Requests |-> Phase(r)],
               BudgetKey <- [r \in Requests |-> KeyFor(r)]

\* Admission implements the gate: the bounds of the settings hold for every budget key,
\* across pruned and recreated budgets, and in every rate window.
ImplementsGate == Gate!GateSpec

\* Nobody waits for a permit forever: the timers of wait_for end every acquisition.
WaitsEnd == \A r \in Requests : (acquire[r] # "none") ~> (acquire[r] = "none")

\* policy.md: a disconnect or the deadline cancels the work and releases both gates.
CancelledRequestsLeave == \A r \in Requests : (cancelled[r] = "pending") ~> (stage[r] = "done")
=============================================================================
