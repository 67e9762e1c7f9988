--------------------------- MODULE RequestLifecycle ---------------------------
(***************************************************************************)
(* api.chat: one Chat Completions request from its arrival to the end of   *)
(* its answer.  The request's task holds an admission permit, runs the     *)
(* chat service in a task of its own, and meets three things that come     *)
(* when they like: the total deadline (asyncio.timeout_at), a client that  *)
(* disconnects, and a cancellation by the server.  A streamed answer keeps *)
(* the permit until its replay has ended.                                  *)
(*                                                                         *)
(* A step is what the request's task or the service's task does between    *)
(* two suspensions.  Leaving the admission stack and the error handler     *)
(* never suspend, so they belong to the step that leaves.                  *)
(***************************************************************************)
EXTENDS Integers, FiniteSets

CONSTANTS Requests,
          AdmissionLimit,   \* settings: ADMISSION_LIMIT
          MaxInterventions  \* bound: corrections and blocked calls of a request

ASSUME LifecycleAssumption ==
  IsFiniteSet(Requests) /\ AdmissionLimit \in Nat \ {0} /\ MaxInterventions \in Nat

Stages == {"out", "admitting", "reading", "working", "unwinding", "replaying", "ending", "done"}
WorkStates == {"none", "running", "cancelling", "returned", "raised", "cancelled"}
Answers == {"none", "result", "error", "deadline", "disconnected", "aborted",
            "streamed", "truncated", "broken"}
CounterNames == {"downstream_requests", "interventions", "errors", "deadline_expiries",
                 "cancellations", "stream_replays"}

VARIABLES stage,         \* where the request's task is
          work,          \* the service task of _complete_while_connected
          disconnecting, \* it unwinds because the poll saw the client gone
          streaming,     \* the client asked for a stream
          gone,          \* clients that disconnected
          late,          \* requests past their deadline
          armed,         \* requests whose timeout_at has still to fire
          aborted,       \* requests the server has cancelled
          released,      \* replays that have released admission
          permits,       \* free permits of the admission gate
          intervention_counts, \* request.state.intervention_counts, its three counts added up
          intervened,    \* ghost: what the harness really did for the request
          counters,      \* Counters; its three intervention counts added up
          answer         \* what became of the request

taskVars == <<stage, work, disconnecting, streaming, released>>
eventVars == <<gone, late, armed, aborted>>
countVars == <<intervention_counts, intervened, counters>>
vars == <<taskVars, eventVars, countVars, permits, answer>>

Init ==
  /\ stage = [r \in Requests |-> "out"]
  /\ work = [r \in Requests |-> "none"]
  /\ disconnecting = {} /\ streaming = {} /\ released = {}
  /\ gone = {} /\ late = {} /\ armed = {} /\ aborted = {}
  /\ permits = AdmissionLimit
  /\ intervention_counts = [r \in Requests |-> 0]
  /\ intervened = [r \in Requests |-> 0]
  /\ counters = [name \in CounterNames |-> 0]
  /\ answer = [r \in Requests |-> "none"]

Goes(r, to) == stage' = [stage EXCEPT ![r] = to]
Holding == {"reading", "working", "unwinding", "replaying"}

\* Counters: the methods called in one step, and the interventions they add.
Count(names, interventions) ==
  counters' = [name \in CounterNames |->
                 counters[name] + (IF name \in names THEN 1 ELSE 0)
                                + (IF name = "interventions" THEN interventions ELSE 0)]

-----------------------------------------------------------------------------
(***************************************************************************)
(* The ways a request ends before its answer is under way.                 *)
(***************************************************************************)
\* Fault: the admission stack is popped as soon as a streamed completion is there, and only
\* then is it found that it cannot be replayed, or comes too late.
LeaveAdmissionPopped(r) ==
  permits' = IF stage[r] \in Holding /\ ~(work[r] = "returned" /\ r \in streaming)
             THEN permits + 1 ELSE permits

\* The admission stack is left: admit's finally gives the permit back.  pop_all comes after
\* everything that may still refuse the result, so chat's own stack owns the permit in each
\* of these endings, also when the completion of a stream is there.
LeaveAdmission(r) ==
  permits' = IF stage[r] \in Holding THEN permits + 1 ELSE permits

ErrorCounts == [error |-> {"errors"},
                deadline |-> {"errors", "deadline_expiries"},
                disconnected |-> {"errors", "cancellations"}]

\* proxy_error_handler, after the admission stack has been left.
Fails(r, code) ==
  /\ Goes(r, "done")
  /\ LeaveAdmission(r)
  /\ Count(ErrorCounts[code], intervention_counts[r])
  /\ answer' = [answer EXCEPT ![r] = code]
  /\ UNCHANGED <<work, disconnecting, streaming, released, intervention_counts, intervened>>

\* Fault: the interventions of a cancelled request are lost.
AbortsUncounted(r) ==
  /\ Goes(r, "done")
  /\ LeaveAdmission(r)
  /\ Count({"cancellations"}, 0)
  /\ answer' = [answer EXCEPT ![r] = "aborted"]
  /\ UNCHANGED <<work, disconnecting, streaming, released, intervention_counts, intervened>>

\* chat's except CancelledError: counted here, as no error handler will run.
Aborts(r) ==
  /\ Goes(r, "done")
  /\ LeaveAdmission(r)
  /\ Count({"cancellations"}, intervention_counts[r])
  /\ answer' = [answer EXCEPT ![r] = "aborted"]
  /\ UNCHANGED <<work, disconnecting, streaming, released, intervention_counts, intervened>>

\* A CancelledError reaches timeout_at: its own becomes TimeoutError and 504, unless
\* the server has cancelled the task as well.
CancelledOut(r) == IF r \in aborted' THEN Aborts(r) ELSE Fails(r, "deadline")

-----------------------------------------------------------------------------
(***************************************************************************)
(* Admission and the body.                                                 *)
(***************************************************************************)
Arrive(r) ==
  /\ stage[r] = "out"
  /\ Goes(r, "admitting")
  /\ armed' = armed \cup {r}
  /\ UNCHANGED <<work, disconnecting, streaming, released, gone, late, aborted, countVars,
                 permits, answer>>

\* authentication_failed before admission, an overload answer of admission.
TurnedAway(r) ==
  /\ stage[r] \in {"out", "admitting"}
  /\ Fails(r, "error")
  /\ UNCHANGED eventVars

\* Fault: nobody looks whether a permit is free.
AdmitOverbooked(r) ==
  /\ stage[r] = "admitting"
  /\ permits' = permits - 1
  /\ Count({"downstream_requests"}, 0)
  /\ Goes(r, "reading")
  /\ UNCHANGED <<work, disconnecting, streaming, released, intervention_counts, intervened, answer>>

Admit(r) ==
  /\ stage[r] = "admitting" /\ permits > 0
  /\ permits' = permits - 1
  /\ Count({"downstream_requests"}, 0)
  /\ Goes(r, "reading")
  /\ UNCHANGED <<work, disconnecting, streaming, released, intervention_counts, intervened, answer>>

\* wait_for drops a cancellation that meets the permit just granted: the deadline
\* will not fire again, the server will not cancel again.
AdmitIgnoringDeadline(r) ==
  /\ r \in late \cap armed
  /\ Admit(r)
  /\ armed' = armed \ {r}
  /\ UNCHANGED <<gone, late, aborted>>

AdmitIgnoringCancel(r) ==
  /\ r \notin aborted
  /\ Admit(r)
  /\ aborted' = aborted \cup {r}
  /\ UNCHANGED <<gone, late, armed>>

\* The body is complete and valid: the service starts in its own task.
StartWork(r, stream) ==
  /\ stage[r] = "reading"
  /\ Goes(r, "working")
  /\ work' = [work EXCEPT ![r] = "running"]
  /\ streaming' = IF stream THEN streaming \cup {r} ELSE streaming
  /\ UNCHANGED <<disconnecting, released, eventVars, countVars, permits, answer>>

\* The body is too large or malformed, or the opt-out is denied.
BodyRefused(r) ==
  /\ stage[r] = "reading"
  /\ Fails(r, "error")
  /\ UNCHANGED eventVars

BodyCutOff(r) ==
  /\ stage[r] = "reading" /\ r \in gone
  /\ Fails(r, "disconnected")
  /\ UNCHANGED eventVars

-----------------------------------------------------------------------------
(***************************************************************************)
(* The service task.                                                       *)
(***************************************************************************)
Active(r) == work[r] \in {"running", "cancelling"}

WorkGoes(r, from, to) ==
  /\ work[r] = from
  /\ work' = [work EXCEPT ![r] = to]
  /\ UNCHANGED <<stage, disconnecting, streaming, released, eventVars, countVars, permits, answer>>

\* The harness corrects or blocks, and _snapshot_timing updates the shared list.
Intervene(r) ==
  /\ work[r] = "running" /\ intervened[r] < MaxInterventions
  /\ intervened' = [intervened EXCEPT ![r] = @ + 1]
  /\ intervention_counts' = [intervention_counts EXCEPT ![r] = @ + 1]
  /\ UNCHANGED <<taskVars, eventVars, counters, permits, answer>>

WorkReturns(r) == WorkGoes(r, "running", "returned")
WorkRaises(r) == WorkGoes(r, "running", "raised")
WorkCancelled(r) == WorkGoes(r, "cancelling", "cancelled")

\* The cancellation met an upstream slot just granted, and was dropped.
CancelLost(r) == WorkGoes(r, "cancelling", "running")

\* task.cancel(), and the interruption of an `await task`: it ends up in the service
\* task, or replaces the exception of one that is already over.
CancelWork(r) ==
  work' = [work EXCEPT ![r] = IF @ = "running" THEN "cancelling"
                              ELSE IF @ = "raised" /\ stage[r] = "unwinding" THEN "cancelled"
                              ELSE @]

-----------------------------------------------------------------------------
(***************************************************************************)
(* The request's task while the service works.                             *)
(***************************************************************************)
\* Fault: a disconnected request does not wait for the work it has cancelled.
PollForgetsWork(r) ==
  /\ stage[r] = "working" /\ Active(r) /\ r \in gone
  /\ Goes(r, "done")
  /\ LeaveAdmission(r)
  /\ CancelWork(r)
  /\ Count({"errors", "cancellations"}, intervention_counts[r])
  /\ answer' = [answer EXCEPT ![r] = "disconnected"]
  /\ UNCHANGED <<disconnecting, streaming, released, intervention_counts, intervened, eventVars>>

\* The poll between two waits of _complete_while_connected.
Poll(r) ==
  /\ stage[r] = "working" /\ Active(r) /\ r \in gone
  /\ Goes(r, "unwinding")
  /\ CancelWork(r)
  /\ disconnecting' = disconnecting \cup {r}
  /\ UNCHANGED <<streaming, released, eventVars, countVars, permits, answer>>

\* is_disconnected suspends, so its answer may find the work over: nothing is left to cancel,
\* and a completion is thrown away.  What the work has raised is WorkFailed's.
PolledTooLate(r) ==
  /\ stage[r] = "working" /\ work[r] = "returned" /\ r \in gone
  /\ Fails(r, "disconnected")
  /\ UNCHANGED eventVars

\* The cancelled work is over: what it raised goes first, then the reason to unwind.
Unwound(r) ==
  /\ stage[r] = "unwinding" /\ ~Active(r)
  /\ UNCHANGED eventVars
  /\ IF work[r] = "raised" THEN Fails(r, "error")
     ELSE IF r \in disconnecting THEN Fails(r, "disconnected")
     ELSE CancelledOut(r)

WorkFailed(r) ==
  /\ stage[r] = "working" /\ work[r] = "raised"
  /\ Fails(r, "error")
  /\ UNCHANGED eventVars

\* replay_completion refuses what it cannot serialize.
Unreplayable(r) ==
  /\ stage[r] = "working" /\ work[r] = "returned" /\ r \in streaming
  /\ Fails(r, "error")
  /\ UNCHANGED eventVars

\* Fault: the deadline is left to the timer.
InTimeUnchecked(r) == TRUE

InTime(r) == r \notin late

\* _ensure_before_deadline: the deadline was lost on the way.
TooLate(r) ==
  /\ stage[r] = "working" /\ work[r] = "returned" /\ ~InTime(r)
  /\ Fails(r, "deadline")
  /\ UNCHANGED eventVars

\* Fault: the replay has no deadline of its own.
ArmNothing(r) == armed' = armed \ {r}

\* chat's timeout_at is left; stream_response enters one of its own.
ArmReplay(r) == armed' = IF r \in streaming THEN armed \cup {r} ELSE armed \ {r}

\* The telemetry of the result is observed; a streamed one takes the admission stack along.
Completes(r) ==
  /\ stage[r] = "working" /\ work[r] = "returned" /\ InTime(r)
  /\ Count({}, intervened[r])
  /\ intervention_counts' = [intervention_counts EXCEPT ![r] = 0]
  /\ ArmReplay(r)
  /\ \/ /\ r \notin streaming
        /\ Goes(r, "done") /\ LeaveAdmission(r)
        /\ answer' = [answer EXCEPT ![r] = "result"]
     \/ /\ r \in streaming
        /\ Goes(r, "replaying")
        /\ UNCHANGED <<permits, answer>>
  /\ UNCHANGED <<work, disconnecting, streaming, released, gone, late, aborted, intervened>>

-----------------------------------------------------------------------------
(***************************************************************************)
(* _ReplayStreamingResponse.                                               *)
(***************************************************************************)
\* Fault: every way out releases.
ReleaseAlways(r) ==
  /\ released' = released \cup {r}
  /\ permits' = permits + 1

ReleaseOnce(r) ==
  /\ released' = released \cup {r}
  /\ permits' = IF r \in released THEN permits ELSE permits + 1

\* observe_replay_outcome.
OutcomeCounts == [streamed |-> {"stream_replays"},
                  aborted |-> {"cancellations"},
                  truncated |-> {"errors", "deadline_expiries"},
                  broken |-> {"errors"}]

\* _record_outcome and the finally of stream_response.
ReplayEnds(r, outcome) ==
  /\ stage[r] = "replaying"
  /\ Goes(r, "done")
  /\ ReleaseOnce(r)
  /\ answer' = [answer EXCEPT ![r] = outcome]
  /\ Count(OutcomeCounts[outcome], 0)
  /\ UNCHANGED <<work, disconnecting, streaming, intervention_counts, intervened>>

ReplayDelivered(r) == ReplayEnds(r, "streamed") /\ UNCHANGED eventVars
ReplayBroken(r) == ReplayEnds(r, "broken") /\ UNCHANGED eventVars

\* A disconnect cancels the response, or its send raises OSError.
ReplayCutOff(r) == r \in gone /\ ReplayEnds(r, "aborted") /\ UNCHANGED eventVars

\* The deadline: admission is released before the stream is closed.
ReplayExpires(r) ==
  /\ Goes(r, "ending")
  /\ ReleaseOnce(r)
  /\ answer' = [answer EXCEPT ![r] = "truncated"]
  /\ Count(OutcomeCounts["truncated"], 0)
  /\ UNCHANGED <<work, disconnecting, streaming, intervention_counts, intervened>>

\* The empty last chunk was sent, or its grace is over; the finally releases again.
StreamClosed(r) ==
  /\ stage[r] = "ending"
  /\ Goes(r, "done")
  /\ ReleaseOnce(r)
  /\ UNCHANGED <<work, disconnecting, streaming, eventVars, countVars, answer>>

-----------------------------------------------------------------------------
(***************************************************************************)
(* What comes when it likes.                                               *)
(***************************************************************************)
Open(r) == stage[r] \notin {"out", "done"}

DeadlinePasses(r) ==
  /\ Open(r) /\ r \notin late
  /\ late' = late \cup {r}
  /\ UNCHANGED <<taskVars, gone, armed, aborted, countVars, permits, answer>>

ClientGoes(r) ==
  /\ Open(r) /\ r \notin gone
  /\ gone' = gone \cup {r}
  /\ UNCHANGED <<taskVars, late, armed, aborted, countVars, permits, answer>>

\* A CancelledError is thrown into the request's task while the service works.
InterruptWork(r) ==
  /\ stage[r] \in {"working", "unwinding"}
  /\ Goes(r, "unwinding")
  /\ CancelWork(r)
  /\ UNCHANGED <<disconnecting, streaming, released, countVars, permits, answer>>

TimerFires(r) ==
  /\ r \in late \cap armed
  /\ armed' = armed \ {r}
  /\ UNCHANGED <<gone, late, aborted>>
  /\ \/ stage[r] \in {"admitting", "reading"} /\ CancelledOut(r)
     \/ InterruptWork(r)
     \/ stage[r] = "replaying" /\ ReplayExpires(r)

ServerCancels(r) ==
  /\ r \notin aborted
  /\ aborted' = aborted \cup {r}
  /\ UNCHANGED <<gone, late, armed>>
  /\ \/ stage[r] \in {"admitting", "reading"} /\ CancelledOut(r)
     \/ InterruptWork(r)
     \/ ReplayEnds(r, "aborted")

-----------------------------------------------------------------------------
\* What the event loop runs for r without anything from outside.
Resume(r) ==
  \/ Unwound(r) \/ WorkFailed(r) \/ TooLate(r) \/ Completes(r)
  \/ Poll(r) \/ PolledTooLate(r) \/ BodyCutOff(r) \/ ReplayCutOff(r)
  \/ StreamClosed(r)
  \/ TimerFires(r)

WorkEnds(r) == WorkReturns(r) \/ WorkRaises(r) \/ WorkCancelled(r)

Step(r) ==
  \/ Resume(r) \/ WorkEnds(r)
  \/ Arrive(r) \/ TurnedAway(r)
  \/ Admit(r) /\ UNCHANGED eventVars
  \/ AdmitIgnoringDeadline(r) \/ AdmitIgnoringCancel(r)
  \/ \E stream \in BOOLEAN : StartWork(r, stream)
  \/ BodyRefused(r)
  \/ Intervene(r) \/ CancelLost(r)
  \/ Unreplayable(r)
  \/ ReplayDelivered(r) \/ ReplayBroken(r)
  \/ DeadlinePasses(r) \/ ClientGoes(r) \/ ServerCancels(r)

Next == \E r \in Requests : Step(r)

Spec == Init /\ [][Next]_vars

\* Time passes, the event loop runs what is ready, admission answers within its waits,
\* and work that was interrupted ends: the transport has timeouts of its own.
FairSpec ==
  /\ Spec
  /\ \A r \in Requests :
       /\ WF_vars(DeadlinePasses(r)) /\ WF_vars(Resume(r))
       /\ WF_vars(stage[r] = "admitting" /\ TurnedAway(r))
       /\ WF_vars(stage[r] = "unwinding" /\ WorkEnds(r))

\* The model answers at last, deadline or not: only the client may stop.
ResponsiveSpec == FairSpec /\ \A r \in Requests : WF_vars(WorkEnds(r))

-----------------------------------------------------------------------------
(***************************************************************************)
(* Properties.                                                             *)
(***************************************************************************)
TypeOK ==
  /\ stage \in [Requests -> Stages]
  /\ work \in [Requests -> WorkStates]
  /\ disconnecting \subseteq Requests /\ streaming \subseteq Requests
  /\ released \subseteq Requests
  /\ gone \subseteq Requests /\ late \subseteq Requests
  /\ armed \subseteq Requests /\ aborted \subseteq Requests
  /\ permits \in Nat
  /\ intervention_counts \in [Requests -> Nat]
  /\ intervened \in [Requests -> Nat]
  /\ counters \in [CounterNames -> Nat]
  /\ answer \in [Requests -> Answers]

Holders == {r \in Requests : stage[r] \in Holding}

\* policy.md: ADMISSION_LIMIT bounds full request lifetimes.  A permit is held from
\* admission to the end of the answer and given back once, on every way out: an error,
\* a cancellation, the handover to a replay, a replay cut off by its deadline.
AdmissionExact == permits + Cardinality(Holders) = AdmissionLimit

\* The service works only while its request holds admission: nobody answers, and gives
\* the permit back, over work that still runs.
WorkIsAdmitted == \A r \in Requests : Active(r) => r \in Holders

\* The requests whose telemetry has been observed; the n-th intervention of r is <<r, n>>.
Observed == {r \in Requests : stage[r] \in {"replaying", "ending", "done"}}
InterventionsOf(R) == {x \in R \X (1..MaxInterventions) : x[2] <= intervened[x[1]]}

\* The harness's interventions reach the counters once, whether the request ends with a
\* result, an error, a deadline, a disconnect or a cancellation.
InterventionsCountedOnce == counters.interventions = Cardinality(InterventionsOf(Observed))

\* The deadline was dropped on admission, and nothing interrupts the request any more.
Unguarded(r) == stage[r] \in {"reading", "working"} /\ r \notin armed

\* A client that stops reading, or never finishes its body, and a model that never answers,
\* hold a permit no longer than the deadline allows, replay included: every request ends,
\* or has lost its deadline.
GuardedRequestsEnd ==
  \A r \in Requests : (stage[r] # "out") ~> (stage[r] = "done" \/ Unguarded(r))

\* _ensure_before_deadline is the second line of the deadline.  The timer of a request whose
\* cancellation was dropped on admission fires no more; once its body is there it still ends,
\* unless its work never does, and a late completion is neither given out nor replayed.
LostDeadlineStillBites ==
  \A r \in Requests :
    (stage[r] = "working" /\ r \in late /\ r \notin armed)
      ~> ((stage[r] = "done" /\ answer[r] \notin {"result", "streamed"}) \/ []Active(r))

\* policy.md: the deadline covers queueing, reading the body, every upstream operation and
\* the delivery of a replay, so every request ends, also one whose client never finishes its body.
DeadlineEndsRequests == \A r \in Requests : (stage[r] # "out") ~> (stage[r] = "done")
=============================================================================
