------------------------ MODULE RequestLifecycleProofs ------------------------
(***************************************************************************)
(* Admission over the life of a request, for every set of requests and     *)
(* every limit.  Each step of a request r leaves the permits alone, or     *)
(* moves exactly one of them between the gate and r.                       *)
(***************************************************************************)
EXTENDS RequestLifecycle, FiniteSetTheorems, TLAPS

\* Work runs only while its request waits for it; a replay that has released admission
\* is ending or done.
WorkWaitedFor == \A r \in Requests : Active(r) => stage[r] \in {"working", "unwinding"}
ReleasedAtTheEnd ==
  \A r \in Requests : /\ r \in released => stage[r] \in {"ending", "done"}
                      /\ stage[r] = "ending" => r \in released

IInv == TypeOK /\ WorkWaitedFor /\ ReleasedAtTheEnd

EventsTyped ==
  gone \subseteq Requests /\ late \subseteq Requests /\ armed \subseteq Requests /\ aborted \subseteq Requests

\* A step of r moves at most r's permit, and the books agree.
Balanced(r) ==
  \/ Holders' = Holders /\ permits' = permits
  \/ r \in Holders /\ Holders' = Holders \ {r} /\ permits' = permits + 1
  \/ r \notin Holders /\ Holders' = Holders \cup {r} /\ permits' = permits - 1

-----------------------------------------------------------------------------
LEMMA CountTyped ==
  ASSUME counters \in [CounterNames -> Nat], NEW names, NEW n \in Nat, Count(names, n)
  PROVE  counters' \in [CounterNames -> Nat]
BY DEF Count

\* An error or a cancellation ends a request whose work is over, and returns its permit.
LEMMA EndingsKeep ==
  ASSUME IInv, NEW r \in Requests, NEW code \in Answers, ~Active(r), stage[r] # "ending",
         Fails(r, code) \/ Aborts(r), EventsTyped'
  PROVE  IInv' /\ Balanced(r)
<1>1. /\ stage' = [stage EXCEPT ![r] = "done"]
      /\ permits' = IF stage[r] \in Holding THEN permits + 1 ELSE permits
      /\ UNCHANGED <<work, disconnecting, streaming, released, intervention_counts, intervened>>
  BY DEF Fails, Aborts, Goes, LeaveAdmission
<1>2. answer' \in [Requests -> Answers]
  BY DEF IInv, TypeOK, Fails, Aborts, Answers
<1>3. counters' \in [CounterNames -> Nat]
  BY CountTyped DEF IInv, TypeOK, Fails, Aborts
<1>4. TypeOK'
  <2>1. stage' \in [Requests -> Stages]
    BY <1>1 DEF IInv, TypeOK, Stages
  <2>2. permits' \in Nat
    BY <1>1 DEF IInv, TypeOK
  <2>3. /\ work' \in [Requests -> WorkStates]
        /\ disconnecting' \subseteq Requests /\ streaming' \subseteq Requests
        /\ released' \subseteq Requests
        /\ intervention_counts' \in [Requests -> Nat] /\ intervened' \in [Requests -> Nat]
    BY <1>1 DEF IInv, TypeOK
  <2> QED
    BY <2>1, <2>2, <2>3, <1>2, <1>3 DEF TypeOK, EventsTyped
<1>5. WorkWaitedFor' /\ ReleasedAtTheEnd'
  BY <1>1 DEF IInv, TypeOK, WorkWaitedFor, ReleasedAtTheEnd, Active
<1>6. Balanced(r)
  BY <1>1 DEF IInv, TypeOK, Balanced, Holders, Holding
<1> QED
  BY <1>4, <1>5, <1>6 DEF IInv

LEMMA CancelledOutKeeps ==
  ASSUME IInv, NEW r \in Requests, ~Active(r), stage[r] # "ending", CancelledOut(r), EventsTyped'
  PROVE  IInv' /\ Balanced(r)
<1>1. Fails(r, "deadline") \/ Aborts(r)
  BY DEF CancelledOut
<1>2. "deadline" \in Answers
  BY DEF Answers
<1> QED
  BY <1>1, <1>2, EndingsKeep

\* Admission takes one permit, for a request whose work has not begun.
LEMMA AdmitKeeps ==
  ASSUME IInv, NEW r \in Requests, Admit(r), EventsTyped'
  PROVE  IInv' /\ Balanced(r)
<1>1. counters' \in [CounterNames -> Nat]
  BY CountTyped DEF IInv, TypeOK, Admit
<1>2. TypeOK'
  BY <1>1 DEF IInv, TypeOK, EventsTyped, Admit, Goes, Stages
<1>3. WorkWaitedFor' /\ ReleasedAtTheEnd'
  BY DEF IInv, TypeOK, WorkWaitedFor, ReleasedAtTheEnd, Active, Admit, Goes
<1>4. Balanced(r)
  BY DEF IInv, TypeOK, Balanced, Holders, Holding, Admit, Goes
<1> QED
  BY <1>2, <1>3, <1>4 DEF IInv

\* The interrupted request waits for its work and keeps its permit.
LEMMA InterruptKeeps ==
  ASSUME IInv, NEW r \in Requests, InterruptWork(r), EventsTyped'
  PROVE  IInv' /\ Balanced(r)
<1>1. TypeOK'
  BY DEF IInv, TypeOK, EventsTyped, InterruptWork, CancelWork, countVars, Goes, Stages, WorkStates
<1>2. WorkWaitedFor' /\ ReleasedAtTheEnd'
  BY DEF IInv, TypeOK, WorkWaitedFor, ReleasedAtTheEnd, Active, InterruptWork, CancelWork, Goes
<1>3. Balanced(r)
  BY DEF IInv, TypeOK, Balanced, Holders, Holding, InterruptWork, Goes
<1> QED
  BY <1>1, <1>2, <1>3 DEF IInv

LEMMA ReplayEndsKeeps ==
  ASSUME IInv, NEW r \in Requests, NEW outcome \in Answers, ReplayEnds(r, outcome), EventsTyped'
  PROVE  IInv' /\ Balanced(r)
<1>1. r \notin released
  BY DEF IInv, ReleasedAtTheEnd, ReplayEnds
<1>2. counters' \in [CounterNames -> Nat]
  BY CountTyped DEF IInv, TypeOK, ReplayEnds
<1>3. TypeOK'
  BY <1>1, <1>2 DEF IInv, TypeOK, EventsTyped, ReplayEnds, ReleaseOnce, Goes, Stages
<1>4. WorkWaitedFor' /\ ReleasedAtTheEnd'
  BY DEF IInv, TypeOK, WorkWaitedFor, ReleasedAtTheEnd, Active, ReplayEnds, ReleaseOnce, Goes
<1>5. Balanced(r)
  BY <1>1 DEF IInv, TypeOK, Balanced, Holders, Holding, ReplayEnds, ReleaseOnce, Goes
<1> QED
  BY <1>3, <1>4, <1>5 DEF IInv

LEMMA ReplayExpiresKeeps ==
  ASSUME IInv, NEW r \in Requests, stage[r] = "replaying", ReplayExpires(r), EventsTyped'
  PROVE  IInv' /\ Balanced(r)
<1>1. r \notin released
  BY DEF IInv, ReleasedAtTheEnd
<1>2. counters' \in [CounterNames -> Nat]
  BY CountTyped DEF IInv, TypeOK, ReplayExpires
<1>3. TypeOK'
  BY <1>1, <1>2 DEF IInv, TypeOK, EventsTyped, ReplayExpires, ReleaseOnce, Goes, Stages, Answers
<1>4. WorkWaitedFor' /\ ReleasedAtTheEnd'
  BY DEF IInv, TypeOK, WorkWaitedFor, ReleasedAtTheEnd, Active, ReplayExpires, ReleaseOnce, Goes
<1>5. Balanced(r)
  BY <1>1 DEF IInv, TypeOK, Balanced, Holders, Holding, ReplayExpires, ReleaseOnce, Goes
<1> QED
  BY <1>3, <1>4, <1>5 DEF IInv

-----------------------------------------------------------------------------
(***************************************************************************)
(* Every step keeps the invariant and the balance.                         *)
(***************************************************************************)
LEMMA TimerFiresKeeps ==
  ASSUME IInv, NEW r \in Requests, TimerFires(r)
  PROVE  IInv' /\ Balanced(r)
<1>1. EventsTyped'
  BY DEF IInv, TypeOK, EventsTyped, TimerFires
<1>2. CASE stage[r] \in {"admitting", "reading"} /\ CancelledOut(r)
  BY <1>1, <1>2, CancelledOutKeeps DEF IInv, WorkWaitedFor
<1>3. CASE InterruptWork(r)
  BY <1>1, <1>3, InterruptKeeps
<1>4. CASE stage[r] = "replaying" /\ ReplayExpires(r)
  BY <1>1, <1>4, ReplayExpiresKeeps
<1> QED
  BY <1>2, <1>3, <1>4 DEF TimerFires

LEMMA ServerCancelsKeeps ==
  ASSUME IInv, NEW r \in Requests, ServerCancels(r)
  PROVE  IInv' /\ Balanced(r)
<1>1. EventsTyped'
  BY DEF IInv, TypeOK, EventsTyped, ServerCancels
<1>2. CASE stage[r] \in {"admitting", "reading"} /\ CancelledOut(r)
  BY <1>1, <1>2, CancelledOutKeeps DEF IInv, WorkWaitedFor
<1>3. CASE InterruptWork(r)
  BY <1>1, <1>3, InterruptKeeps
<1>4. CASE ReplayEnds(r, "aborted")
  BY <1>1, <1>4, ReplayEndsKeeps DEF Answers
<1> QED
  BY <1>2, <1>3, <1>4 DEF ServerCancels

LEMMA ErrorsKeep ==
  ASSUME IInv, NEW r \in Requests,
         \/ TurnedAway(r) \/ BodyRefused(r) \/ BodyCutOff(r) \/ WorkFailed(r)
         \/ Unreplayable(r) \/ TooLate(r) \/ PolledTooLate(r)
  PROVE  IInv' /\ Balanced(r)
<1>1. EventsTyped'
  BY DEF IInv, TypeOK, EventsTyped, TurnedAway, BodyRefused, BodyCutOff, WorkFailed, Unreplayable,
         TooLate, PolledTooLate, eventVars
<1>2. ~Active(r) /\ stage[r] # "ending"
  BY DEF IInv, WorkWaitedFor, Active, TurnedAway, BodyRefused, BodyCutOff, WorkFailed,
         Unreplayable, TooLate, PolledTooLate
<1>3. \E code \in Answers : Fails(r, code)
  BY DEF Answers, TurnedAway, BodyRefused, BodyCutOff, WorkFailed, Unreplayable, TooLate,
         PolledTooLate
<1> QED
  BY <1>1, <1>2, <1>3, EndingsKeep

LEMMA UnwoundKeeps ==
  ASSUME IInv, NEW r \in Requests, Unwound(r)
  PROVE  IInv' /\ Balanced(r)
<1>1. EventsTyped'
  BY DEF IInv, TypeOK, EventsTyped, Unwound, eventVars
<1>2. ~Active(r) /\ stage[r] # "ending"
  BY DEF Unwound
<1>3. CASE CancelledOut(r)
  BY <1>1, <1>2, <1>3, CancelledOutKeeps
<1>4. CASE Fails(r, "error") \/ Fails(r, "disconnected")
  BY <1>1, <1>2, <1>4, EndingsKeep DEF Answers
<1> QED
  BY <1>3, <1>4 DEF Unwound

LEMMA CompletesKeeps ==
  ASSUME IInv, NEW r \in Requests, Completes(r)
  PROVE  IInv' /\ Balanced(r)
<1>1. EventsTyped'
  BY DEF IInv, TypeOK, EventsTyped, Completes, ArmReplay
<1>2. counters' \in [CounterNames -> Nat]
  BY CountTyped DEF IInv, TypeOK, Completes
<1>3. stage[r] = "working" /\ ~Active(r)
  BY DEF Completes, Active
<1>4. \/ Goes(r, "done") /\ permits' = permits + 1
      \/ Goes(r, "replaying") /\ permits' = permits
  BY <1>3 DEF Completes, LeaveAdmission, Holding
<1>5. /\ answer' \in [Requests -> Answers] /\ intervention_counts' \in [Requests -> Nat]
      /\ UNCHANGED <<work, disconnecting, streaming, released, intervened>>
  BY DEF IInv, TypeOK, Completes, Answers
<1>6. stage' \in [Requests -> Stages] /\ permits' \in Nat
  BY <1>4 DEF IInv, TypeOK, Goes, Stages
<1>7. TypeOK'
  BY <1>1, <1>2, <1>5, <1>6 DEF IInv, TypeOK, EventsTyped
<1>8. WorkWaitedFor' /\ ReleasedAtTheEnd'
  BY <1>3, <1>4, <1>5 DEF IInv, TypeOK, WorkWaitedFor, ReleasedAtTheEnd, Active, Goes
<1>9. Balanced(r)
  BY <1>3, <1>4 DEF IInv, TypeOK, Balanced, Holders, Holding, Goes
<1> QED
  BY <1>7, <1>8, <1>9 DEF IInv

\* The stream's finally releases again: the permit is back already.
LEMMA StreamClosedKeeps ==
  ASSUME IInv, NEW r \in Requests, StreamClosed(r)
  PROVE  IInv' /\ Balanced(r)
<1>1. released' = released /\ permits' = permits
  BY DEF IInv, TypeOK, ReleasedAtTheEnd, StreamClosed, ReleaseOnce
<1>2. TypeOK'
  BY <1>1 DEF IInv, TypeOK, StreamClosed, Goes, Stages, eventVars, countVars
<1>3. WorkWaitedFor' /\ ReleasedAtTheEnd'
  BY <1>1 DEF IInv, TypeOK, WorkWaitedFor, ReleasedAtTheEnd, Active, StreamClosed, Goes
<1>4. Balanced(r)
  BY <1>1 DEF IInv, TypeOK, Balanced, Holders, Holding, StreamClosed, Goes
<1> QED
  BY <1>2, <1>3, <1>4 DEF IInv

\* The service task's own steps, the poll, and what happens around the request.
LEMMA QuietStepsKeep ==
  ASSUME IInv, NEW r \in Requests,
         \/ Arrive(r) \/ Poll(r) \/ Intervene(r) \/ CancelLost(r) \/ WorkEnds(r)
         \/ DeadlinePasses(r) \/ ClientGoes(r)
         \/ \E stream \in BOOLEAN : StartWork(r, stream)
  PROVE  IInv' /\ Balanced(r)
<1>1. EventsTyped'
  BY DEF IInv, TypeOK, EventsTyped, Arrive, Poll, Intervene, CancelLost, WorkEnds, WorkReturns,
         WorkRaises, WorkCancelled, WorkGoes, DeadlinePasses, ClientGoes, StartWork, eventVars
<1>2. permits' = permits /\ released' = released /\ counters' = counters /\ answer' = answer
  BY DEF Arrive, Poll, Intervene, CancelLost, WorkEnds, WorkReturns, WorkRaises, WorkCancelled,
         WorkGoes, DeadlinePasses, ClientGoes, StartWork, taskVars, countVars
<1>3. CASE Arrive(r)
  BY <1>1, <1>2, <1>3 DEF IInv, TypeOK, EventsTyped, WorkWaitedFor, ReleasedAtTheEnd, Active,
     Balanced, Holders, Holding, Arrive, Goes, Stages, countVars
<1>4. CASE Poll(r)
  BY <1>1, <1>2, <1>4 DEF IInv, TypeOK, EventsTyped, WorkWaitedFor, ReleasedAtTheEnd, Active,
     Balanced, Holders, Holding, Poll, CancelWork, Goes, Stages, WorkStates, countVars
<1>5. CASE Intervene(r)
  BY <1>1, <1>2, <1>5 DEF IInv, TypeOK, EventsTyped, WorkWaitedFor, ReleasedAtTheEnd, Active,
     Balanced, Holders, Intervene, taskVars
<1>6. CASE CancelLost(r) \/ WorkEnds(r)
  <2> SUFFICES ASSUME NEW from \in {"running", "cancelling"}, NEW to \in WorkStates,
                      WorkGoes(r, from, to)
               PROVE  IInv' /\ Balanced(r)
    BY <1>6 DEF CancelLost, WorkEnds, WorkReturns, WorkRaises, WorkCancelled, WorkStates
  <2>1. Active(r) /\ stage[r] \in {"working", "unwinding"}
    BY DEF WorkGoes, Active, IInv, WorkWaitedFor
  <2> QED
    BY <1>1, <1>2, <2>1 DEF IInv, TypeOK, EventsTyped, WorkWaitedFor, ReleasedAtTheEnd, Active,
       Balanced, Holders, WorkGoes, countVars
<1>7. CASE DeadlinePasses(r) \/ ClientGoes(r)
  <2>1. UNCHANGED <<taskVars, countVars, permits, answer>>
    BY <1>7 DEF DeadlinePasses, ClientGoes
  <2> QED
    BY <1>1, <2>1 DEF IInv, TypeOK, EventsTyped, WorkWaitedFor, ReleasedAtTheEnd, Active,
       Balanced, Holders, taskVars, countVars
<1>8. ASSUME NEW stream \in BOOLEAN, StartWork(r, stream)
      PROVE  IInv' /\ Balanced(r)
  BY <1>1, <1>2, <1>8 DEF IInv, TypeOK, EventsTyped, WorkWaitedFor, ReleasedAtTheEnd, Active,
     Balanced, Holders, Holding, StartWork, Goes, Stages, WorkStates, countVars
<1> QED
  BY <1>3, <1>4, <1>5, <1>6, <1>7, <1>8

LEMMA StepKeeps ==
  ASSUME IInv, NEW r \in Requests, Step(r)
  PROVE  IInv' /\ Balanced(r)
<1>1. CASE Resume(r)
  <2>1. CASE ReplayCutOff(r)
    <3>1. EventsTyped' /\ ReplayEnds(r, "aborted")
      BY <2>1 DEF IInv, TypeOK, EventsTyped, ReplayCutOff, eventVars
    <3> QED
      BY <3>1, ReplayEndsKeeps DEF Answers
  <2> QED
    BY <1>1, <2>1, UnwoundKeeps, ErrorsKeep, CompletesKeeps, QuietStepsKeep, StreamClosedKeeps,
       TimerFiresKeeps DEF Resume
<1>2. CASE \/ Admit(r) /\ UNCHANGED eventVars
           \/ AdmitIgnoringDeadline(r) \/ AdmitIgnoringCancel(r)
  <2>1. EventsTyped' /\ Admit(r)
    BY <1>2 DEF IInv, TypeOK, EventsTyped, AdmitIgnoringDeadline, AdmitIgnoringCancel, eventVars
  <2> QED
    BY <2>1, AdmitKeeps
<1>3. CASE ReplayDelivered(r) \/ ReplayBroken(r)
  <2>1. EventsTyped' /\ (ReplayEnds(r, "streamed") \/ ReplayEnds(r, "broken"))
    BY <1>3 DEF IInv, TypeOK, EventsTyped, ReplayDelivered, ReplayBroken, eventVars
  <2> QED
    BY <2>1, ReplayEndsKeeps DEF Answers
<1> QED
  BY <1>1, <1>2, <1>3, ErrorsKeep, QuietStepsKeep, ServerCancelsKeeps DEF Step

LEMMA InvariantHolds == Spec => []IInv
<1>1. Init => IInv
  BY LifecycleAssumption DEF Init, IInv, TypeOK, WorkWaitedFor, ReleasedAtTheEnd, Active,
     Stages, WorkStates, Answers, CounterNames
<1>2. IInv /\ [Next]_vars => IInv'
  <2> SUFFICES ASSUME IInv, [Next]_vars
               PROVE  IInv'
    OBVIOUS
  <2>1. CASE Next
    BY <2>1, StepKeeps DEF Next
  <2>2. CASE UNCHANGED vars
    BY <2>2 DEF IInv, TypeOK, WorkWaitedFor, ReleasedAtTheEnd, Active, vars, taskVars, eventVars,
       countVars
  <2> QED
    BY <2>1, <2>2
<1> QED
  BY <1>1, <1>2, PTL DEF Spec

-----------------------------------------------------------------------------
(***************************************************************************)
(* The permits add up.                                                     *)
(***************************************************************************)
LEMMA HoldersFinite == IsFiniteSet(Holders) /\ Cardinality(Holders) \in Nat
<1>1. IsFiniteSet(Requests) /\ Holders \subseteq Requests
  BY LifecycleAssumption DEF Holders
<1>2. IsFiniteSet(Holders)
  BY <1>1, FS_Subset
<1> QED
  BY <1>2, FS_CardinalityType

LEMMA BalancedIsExact ==
  ASSUME TypeOK, AdmissionExact, NEW r \in Requests, Balanced(r)
  PROVE  AdmissionExact'
<1>1. IsFiniteSet(Holders) /\ Cardinality(Holders) \in Nat
  BY HoldersFinite
<1>2. permits \in Nat /\ AdmissionLimit \in Nat
  BY LifecycleAssumption DEF TypeOK
<1>3. CASE Holders' = Holders /\ permits' = permits
  BY <1>3 DEF AdmissionExact
<1>4. CASE r \in Holders /\ Holders' = Holders \ {r} /\ permits' = permits + 1
  <2>1. Cardinality(Holders \ {r}) = Cardinality(Holders) - 1
    BY <1>1, <1>4, FS_RemoveElement
  <2> QED
    BY <1>1, <1>2, <1>4, <2>1 DEF AdmissionExact
<1>5. CASE r \notin Holders /\ Holders' = Holders \cup {r} /\ permits' = permits - 1
  <2>1. Cardinality(Holders \cup {r}) = Cardinality(Holders) + 1
    BY <1>1, <1>5, FS_AddElement
  <2> QED
    BY <1>1, <1>2, <1>5, <2>1 DEF AdmissionExact
<1> QED
  BY <1>3, <1>4, <1>5 DEF Balanced

\* RequestLifecycle: every variable keeps its type, the free permits among them.
THEOREM LifecycleTyped == Spec => []TypeOK
<1>1. IInv => TypeOK
  BY DEF IInv
<1> QED
  BY <1>1, InvariantHolds, PTL

\* _complete_while_connected: no service task outlives the permit of its request.
THEOREM WorkStaysAdmitted == Spec => []WorkIsAdmitted
<1>1. IInv => WorkIsAdmitted
  BY DEF IInv, WorkWaitedFor, WorkIsAdmitted, Holders, Holding
<1> QED
  BY <1>1, InvariantHolds, PTL

\* chat and _ReplayStreamingResponse: on every way out of a request its permit is given
\* back once, for any number of requests and any ADMISSION_LIMIT.
THEOREM AdmissionIsExact == Spec => []AdmissionExact
<1>1. Init => AdmissionExact
  <2> SUFFICES ASSUME Init
               PROVE  AdmissionExact
    OBVIOUS
  <2>1. Holders = {} /\ permits = AdmissionLimit
    BY DEF Init, Holders, Holding
  <2>2. Cardinality(Holders) = 0
    BY <2>1, FS_EmptySet
  <2> QED
    BY <2>1, <2>2, LifecycleAssumption DEF AdmissionExact
<1>2. IInv /\ AdmissionExact /\ [Next]_vars => AdmissionExact'
  <2> SUFFICES ASSUME IInv, AdmissionExact, [Next]_vars
               PROVE  AdmissionExact'
    OBVIOUS
  <2>1. TypeOK
    BY DEF IInv
  <2>2. CASE Next
    <3>1. PICK r \in Requests : Step(r)
      BY <2>2 DEF Next
    <3>2. Balanced(r)
      BY <3>1, StepKeeps
    <3> QED
      BY <2>1, <3>2, BalancedIsExact
  <2>3. CASE UNCHANGED vars
    BY <2>3 DEF AdmissionExact, Holders, vars, taskVars
  <2> QED
    BY <2>2, <2>3
<1> QED
  BY <1>1, <1>2, InvariantHolds, PTL DEF Spec

-----------------------------------------------------------------------------
(***************************************************************************)
(* The interventions of a request are observed in the step that ends its   *)
(* work, whatever ends it, and in no other.                                *)
(***************************************************************************)
ObservedStages == {"replaying", "ending", "done"}

\* Until a request is observed, the list the service shares with the endpoint holds what the
\* harness did.
NotYetObserved ==
  \A r \in Requests :
    /\ intervened[r] <= MaxInterventions
    /\ stage[r] \notin ObservedStages => intervention_counts[r] = intervened[r]

OthersKeep(r) ==
  \A q \in Requests \ {r} : /\ stage'[q] = stage[q]
                            /\ intervened'[q] = intervened[q]
                            /\ intervention_counts'[q] = intervention_counts[q]

\* A step of r goes on with its work, ends it, or comes after that.
GoesOn(r) ==
  /\ stage[r] \notin ObservedStages /\ stage'[r] \notin ObservedStages
  /\ counters'.interventions = counters.interventions
  /\ intervention_counts'[r] - intervention_counts[r] = intervened'[r] - intervened[r]
  /\ intervened'[r] <= MaxInterventions

Ends(r) ==
  /\ stage[r] \notin ObservedStages /\ stage'[r] \in ObservedStages
  /\ counters'.interventions = counters.interventions + intervened[r]
  /\ intervened'[r] = intervened[r]

ComesAfter(r) ==
  /\ stage[r] \in ObservedStages /\ stage'[r] \in ObservedStages
  /\ counters'.interventions = counters.interventions
  /\ intervened'[r] = intervened[r]

Accounted(r) == OthersKeep(r) /\ (GoesOn(r) \/ Ends(r) \/ ComesAfter(r))

LEMMA CountsInterventions ==
  ASSUME counters \in [CounterNames -> Nat], NEW names, "interventions" \notin names,
         NEW n \in Nat, Count(names, n)
  PROVE  counters'.interventions = counters.interventions + n
BY DEF Count, CounterNames

LEMMA EndingsAccount ==
  ASSUME TypeOK, NotYetObserved, NEW r \in Requests, stage[r] \notin ObservedStages,
         \/ \E code \in {"error", "deadline", "disconnected"} : Fails(r, code)
         \/ Aborts(r)
  PROVE  Accounted(r)
<1>1. /\ stage' = [stage EXCEPT ![r] = "done"]
      /\ UNCHANGED <<intervention_counts, intervened>>
  BY DEF Fails, Aborts, Goes
<1>2. intervention_counts[r] = intervened[r] /\ intervention_counts[r] \in Nat
  BY DEF NotYetObserved, TypeOK
<1>3. counters'.interventions = counters.interventions + intervened[r]
  <2>1. PICK names : "interventions" \notin names /\ Count(names, intervention_counts[r])
    BY DEF Fails, Aborts, ErrorCounts
  <2> QED BY <1>2, <2>1, CountsInterventions DEF TypeOK
<1>4. stage'[r] = "done" /\ \A q \in Requests \ {r} : stage'[q] = stage[q]
  BY <1>1 DEF TypeOK
<1> QED BY <1>1, <1>3, <1>4 DEF Accounted, OthersKeep, Ends, ObservedStages

LEMMA CancelledOutAccounts ==
  ASSUME TypeOK, NotYetObserved, NEW r \in Requests, stage[r] \notin ObservedStages, CancelledOut(r)
  PROVE  Accounted(r)
BY EndingsAccount DEF CancelledOut

\* The request's task and the service's, before anything is observed.
LEMMA WorkAccounts ==
  ASSUME TypeOK, WorkWaitedFor, NotYetObserved, NEW r \in Requests,
         \/ Arrive(r) \/ Admit(r) \/ Poll(r) \/ InterruptWork(r)
         \/ CancelLost(r) \/ WorkEnds(r) \/ \E stream \in BOOLEAN : StartWork(r, stream)
  PROVE  Accounted(r)
<1>1. /\ UNCHANGED <<intervened, intervention_counts>>
      /\ counters'.interventions = counters.interventions
  <2>1. CASE Admit(r)
    <3>1. Count({"downstream_requests"}, 0)
      BY <2>1 DEF Admit
    <3>2. counters'.interventions = counters.interventions + 0
      BY <3>1, CountsInterventions DEF TypeOK
    <3>3. counters.interventions \in Nat
      BY DEF TypeOK, CounterNames
    <3> QED BY <2>1, <3>2, <3>3 DEF Admit
  <2>2. CASE ~Admit(r)
    BY <2>2 DEF Arrive, Poll, InterruptWork, CancelLost, WorkEnds, WorkReturns, WorkRaises,
       WorkCancelled, WorkGoes, StartWork, countVars
  <2> QED BY <2>1, <2>2
<1>2. \E s \in Stages \ ObservedStages : stage' = [stage EXCEPT ![r] = s]
  <2>1. CASE CancelLost(r) \/ WorkEnds(r)
    <3>1. stage' = stage /\ Active(r)
      BY <2>1 DEF CancelLost, WorkEnds, WorkReturns, WorkRaises, WorkCancelled, WorkGoes, Active
    <3>2. stage[r] \in Stages \ ObservedStages
      BY <3>1 DEF WorkWaitedFor, ObservedStages, Stages
    <3>3. stage' = [stage EXCEPT ![r] = stage[r]]
      BY <3>1 DEF TypeOK
    <3> QED BY <3>2, <3>3
  <2>2. CASE ~(CancelLost(r) \/ WorkEnds(r))
    BY <2>2 DEF Arrive, Admit, Poll, InterruptWork, StartWork, Goes, ObservedStages, Stages
  <2> QED BY <2>1, <2>2
<1>3. stage[r] \notin ObservedStages
  BY DEF Arrive, Admit, Poll, InterruptWork, CancelLost, WorkEnds, WorkReturns, WorkRaises,
     WorkCancelled, WorkGoes, StartWork, WorkWaitedFor, Active, ObservedStages
<1>4. stage'[r] \notin ObservedStages /\ \A q \in Requests \ {r} : stage'[q] = stage[q]
  BY <1>2 DEF TypeOK
<1>5. intervened[r] <= MaxInterventions /\ intervened[r] \in Nat /\ intervention_counts[r] \in Nat
  BY DEF NotYetObserved, TypeOK
<1> QED BY <1>1, <1>3, <1>4, <1>5 DEF Accounted, OthersKeep, GoesOn

LEMMA InterveneAccounts ==
  ASSUME TypeOK, WorkWaitedFor, NEW r \in Requests, Intervene(r)
  PROVE  Accounted(r)
<1>1. stage[r] \notin ObservedStages /\ UNCHANGED <<stage, counters>>
  BY DEF Intervene, Active, WorkWaitedFor, ObservedStages, taskVars
<1>2. /\ intervened[r] \in Nat /\ intervention_counts[r] \in Nat /\ MaxInterventions \in Nat
      /\ intervened[r] < MaxInterventions
      /\ intervened'[r] = intervened[r] + 1 /\ intervention_counts'[r] = intervention_counts[r] + 1
      /\ \A q \in Requests \ {r} : /\ intervened'[q] = intervened[q]
                                   /\ intervention_counts'[q] = intervention_counts[q]
  BY LifecycleAssumption DEF TypeOK, Intervene
<1> QED BY <1>1, <1>2 DEF Accounted, OthersKeep, GoesOn

LEMMA CompletesAccounts ==
  ASSUME TypeOK, NotYetObserved, NEW r \in Requests, Completes(r)
  PROVE  Accounted(r)
<1>1. /\ stage[r] = "working" /\ intervened' = intervened
      /\ intervention_counts' = [intervention_counts EXCEPT ![r] = 0]
  BY DEF Completes
<1>2. counters'.interventions = counters.interventions + intervened[r]
  <2>1. Count({}, intervened[r]) /\ intervened[r] \in Nat
    BY DEF Completes, TypeOK
  <2> QED BY <2>1, CountsInterventions DEF TypeOK
<1>3. stage'[r] \in ObservedStages /\ \A q \in Requests \ {r} : stage'[q] = stage[q]
  BY <1>1 DEF Completes, Goes, TypeOK, ObservedStages
<1>4. \A q \in Requests \ {r} : intervention_counts'[q] = intervention_counts[q]
  BY <1>1 DEF TypeOK
<1> QED BY <1>1, <1>2, <1>3, <1>4 DEF Accounted, OthersKeep, Ends, ObservedStages

\* The replay observes its own outcome and no intervention.
LEMMA ReplayAccounts ==
  ASSUME TypeOK, NotYetObserved, NEW r \in Requests,
         \/ \E outcome \in {"streamed", "broken", "aborted"} : ReplayEnds(r, outcome)
         \/ stage[r] = "replaying" /\ ReplayExpires(r)
         \/ StreamClosed(r)
  PROVE  Accounted(r)
<1>1. /\ stage[r] \in {"replaying", "ending"} /\ UNCHANGED <<intervened, intervention_counts>>
      /\ \E s \in {"ending", "done"} : stage' = [stage EXCEPT ![r] = s]
  BY DEF ReplayEnds, ReplayExpires, StreamClosed, Goes, countVars
<1>2. counters'.interventions = counters.interventions
  <2>1. CASE StreamClosed(r)
    BY <2>1 DEF StreamClosed, countVars
  <2>2. CASE ~StreamClosed(r)
    <3>1. PICK names : "interventions" \notin names /\ Count(names, 0)
      BY <2>2 DEF ReplayEnds, ReplayExpires, OutcomeCounts
    <3>2. counters'.interventions = counters.interventions + 0
      BY <3>1, CountsInterventions DEF TypeOK
    <3>3. counters.interventions \in Nat
      BY DEF TypeOK, CounterNames
    <3> QED BY <3>2, <3>3
  <2> QED BY <2>1, <2>2
<1>3. stage'[r] \in {"ending", "done"} /\ \A q \in Requests \ {r} : stage'[q] = stage[q]
  BY <1>1 DEF TypeOK
<1> QED BY <1>1, <1>2, <1>3 DEF Accounted, OthersKeep, ComesAfter, ObservedStages

LEMMA PassingAccounts ==
  ASSUME TypeOK, NotYetObserved, NEW r \in Requests, DeadlinePasses(r) \/ ClientGoes(r)
  PROVE  Accounted(r)
<1>1. UNCHANGED <<stage, intervened, intervention_counts, counters>>
  BY DEF DeadlinePasses, ClientGoes, taskVars, countVars
<1>2. intervened[r] <= MaxInterventions /\ intervened[r] \in Nat /\ intervention_counts[r] \in Nat
  BY DEF NotYetObserved, TypeOK
<1> QED BY <1>1, <1>2 DEF Accounted, OthersKeep, GoesOn, ComesAfter

LEMMA StepAccounts ==
  ASSUME IInv, NotYetObserved, NEW r \in Requests, Step(r)
  PROVE  Accounted(r)
<1>1. TypeOK /\ WorkWaitedFor
  BY DEF IInv
<1>2. CASE \/ TurnedAway(r) \/ BodyRefused(r) \/ BodyCutOff(r) \/ WorkFailed(r)
           \/ Unreplayable(r) \/ TooLate(r) \/ PolledTooLate(r)
  <2>1. stage[r] \notin ObservedStages
        /\ \E code \in {"error", "deadline", "disconnected"} : Fails(r, code)
    BY <1>2 DEF TurnedAway, BodyRefused, BodyCutOff, WorkFailed, Unreplayable, TooLate,
         PolledTooLate, ObservedStages
  <2> QED BY <1>1, <2>1, EndingsAccount
<1>3. CASE Unwound(r)
  <2>1. stage[r] \notin ObservedStages
        /\ (CancelledOut(r) \/ \E code \in {"error", "deadline", "disconnected"} : Fails(r, code))
    BY <1>3 DEF Unwound, ObservedStages
  <2> QED BY <1>1, <2>1, EndingsAccount, CancelledOutAccounts
<1>4. CASE TimerFires(r) \/ ServerCancels(r)
  <2>1. CASE stage[r] \in {"admitting", "reading"} /\ CancelledOut(r)
    BY <1>1, <2>1, CancelledOutAccounts DEF ObservedStages
  <2>2. CASE InterruptWork(r)
    BY <1>1, <2>2, WorkAccounts
  <2>3. CASE (stage[r] = "replaying" /\ ReplayExpires(r)) \/ ReplayEnds(r, "aborted")
    BY <1>1, <2>3, ReplayAccounts
  <2> QED BY <1>4, <2>1, <2>2, <2>3 DEF TimerFires, ServerCancels
<1>5. CASE ReplayCutOff(r) \/ ReplayDelivered(r) \/ ReplayBroken(r) \/ StreamClosed(r)
  BY <1>1, <1>5, ReplayAccounts DEF ReplayCutOff, ReplayDelivered, ReplayBroken
<1>6. CASE \/ Arrive(r) \/ Poll(r) \/ CancelLost(r) \/ WorkEnds(r)
           \/ Admit(r) \/ AdmitIgnoringDeadline(r) \/ AdmitIgnoringCancel(r)
           \/ \E stream \in BOOLEAN : StartWork(r, stream)
  BY <1>1, <1>6, WorkAccounts DEF AdmitIgnoringDeadline, AdmitIgnoringCancel
<1> QED
  BY <1>1, <1>2, <1>3, <1>4, <1>5, <1>6, CompletesAccounts, InterveneAccounts, PassingAccounts
     DEF Step, Resume

LEMMA AccountedKeeps ==
  ASSUME TypeOK, TypeOK', NotYetObserved, NEW r \in Requests, Accounted(r)
  PROVE  NotYetObserved'
<1> SUFFICES ASSUME NEW q \in Requests
             PROVE  /\ intervened'[q] <= MaxInterventions
                    /\ stage'[q] \notin ObservedStages =>
                         intervention_counts'[q] = intervened'[q]
  BY DEF NotYetObserved
<1>1. /\ intervened[q] <= MaxInterventions
      /\ stage[q] \notin ObservedStages => intervention_counts[q] = intervened[q]
  BY DEF NotYetObserved
<1>2. CASE q # r
  BY <1>1, <1>2 DEF Accounted, OthersKeep
<1>3. CASE q = r
  <2>1. /\ intervention_counts[r] \in Nat /\ intervened[r] \in Nat
        /\ intervention_counts'[r] \in Nat /\ intervened'[r] \in Nat
    BY DEF TypeOK
  <2>2. CASE GoesOn(r)
    BY <1>1, <1>3, <2>1, <2>2 DEF GoesOn
  <2>3. CASE Ends(r)
    BY <1>1, <1>3, <2>3 DEF Ends
  <2>4. CASE ComesAfter(r)
    BY <1>1, <1>3, <2>4 DEF ComesAfter
  <2> QED BY <2>2, <2>3, <2>4 DEF Accounted
<1> QED BY <1>2, <1>3

LEMMA NotYetObservedHolds == Spec => []NotYetObserved
<1>1. Init => NotYetObserved
  BY LifecycleAssumption DEF Init, NotYetObserved
<1>2. IInv /\ IInv' /\ NotYetObserved /\ [Next]_vars => NotYetObserved'
  <2> SUFFICES ASSUME IInv, IInv', NotYetObserved, [Next]_vars PROVE NotYetObserved'
    OBVIOUS
  <2>1. CASE Next
    BY <2>1, StepAccounts, AccountedKeeps DEF Next, IInv
  <2>2. CASE UNCHANGED vars
    BY <2>2 DEF NotYetObserved, vars, taskVars, countVars
  <2> QED BY <2>1, <2>2
<1> QED BY <1>1, <1>2, InvariantHolds, PTL DEF Spec

-----------------------------------------------------------------------------
\* The interventions of one request, each one a pair.
LEMMA OneRequest ==
  ASSUME TypeOK, NEW r \in Requests, intervened[r] <= MaxInterventions
  PROVE  /\ IsFiniteSet(InterventionsOf({r}))
         /\ Cardinality(InterventionsOf({r})) = intervened[r]
<1>1. MaxInterventions \in Nat
  BY LifecycleAssumption
<1>2. PICK k \in Nat : k = intervened[r]
  BY DEF TypeOK
<1>3. InterventionsOf({r}) = {r} \X (1..k)
  BY <1>1, <1>2 DEF InterventionsOf
<1>4. IsFiniteSet({r}) /\ Cardinality({r}) = 1
  BY FS_Singleton
<1>5. IsFiniteSet(1..k) /\ Cardinality(1..k) = k
  <2>1. k \in Int /\ 1 \in Int /\ (1 > k => k = 0)
    BY <1>2
  <2>2. IsFiniteSet(1..k) /\ Cardinality(1..k) = (IF 1 > k THEN 0 ELSE k - 1 + 1)
    BY <2>1, FS_Interval
  <2>3. (IF 1 > k THEN 0 ELSE k - 1 + 1) = k
    BY <1>2, <2>1
  <2> QED BY <2>2, <2>3
<1>6. /\ IsFiniteSet({r} \X (1..k))
      /\ Cardinality({r} \X (1..k)) = Cardinality({r}) * Cardinality(1..k)
  BY <1>4, <1>5, FS_Product
<1>7. Cardinality({r} \X (1..k)) = k
  BY <1>2, <1>4, <1>5, <1>6
<1> QED BY <1>2, <1>3, <1>6, <1>7

LEMMA InterventionsFinite ==
  ASSUME NEW R \in SUBSET Requests
  PROVE  IsFiniteSet(InterventionsOf(R)) /\ Cardinality(InterventionsOf(R)) \in Nat
<1>1. IsFiniteSet(R) /\ IsFiniteSet(1..MaxInterventions)
  BY LifecycleAssumption, FS_Subset, FS_Interval
<1>2. IsFiniteSet(R \X (1..MaxInterventions))
  BY <1>1, FS_Product
<1>3. InterventionsOf(R) \subseteq R \X (1..MaxInterventions)
  BY DEF InterventionsOf
<1>4. IsFiniteSet(InterventionsOf(R))
  BY <1>2, <1>3, FS_Subset
<1> QED BY <1>4, FS_CardinalityType

LEMMA DisjointUnion ==
  ASSUME NEW A, NEW B, IsFiniteSet(A), IsFiniteSet(B), A \cap B = {}
  PROVE  Cardinality(A \cup B) = Cardinality(A) + Cardinality(B)
<1>1. Cardinality(A \cup B) = Cardinality(A) + Cardinality(B) - Cardinality(A \cap B)
  BY FS_Union
<1>2. Cardinality(A \cap B) = 0
  BY FS_EmptySet
<1>3. PICK a \in Nat, b \in Nat : a = Cardinality(A) /\ b = Cardinality(B)
  BY FS_CardinalityType
<1> QED BY <1>1, <1>2, <1>3

LEMMA AccountedCounts ==
  ASSUME TypeOK, NotYetObserved, InterventionsCountedOnce, NEW r \in Requests, Accounted(r)
  PROVE  InterventionsCountedOnce'
<1>1. \A q \in Observed : intervened'[q] = intervened[q]
  BY DEF Accounted, OthersKeep, GoesOn, ComesAfter, Ends, Observed, ObservedStages
<1>2. InterventionsOf(Observed)' = {x \in Observed' \X (1..MaxInterventions) : x[2] <= intervened'[x[1]]}
  BY DEF InterventionsOf
<1>3. CASE GoesOn(r) \/ ComesAfter(r)
  <2>1. Observed' = Observed
    BY <1>3 DEF Accounted, OthersKeep, GoesOn, ComesAfter, Observed, ObservedStages
  <2>2. InterventionsOf(Observed)' = InterventionsOf(Observed)
    BY <1>1, <1>2, <2>1 DEF InterventionsOf
  <2> QED BY <1>3, <2>2 DEF GoesOn, ComesAfter, InterventionsCountedOnce
<1>4. CASE Ends(r)
  <2>1. r \notin Observed /\ Observed' = Observed \cup {r}
    BY <1>4 DEF Accounted, OthersKeep, Ends, Observed, ObservedStages
  <2>2. intervened'[r] = intervened[r]
    BY <1>4 DEF Ends
  <2>3. InterventionsOf(Observed)' = InterventionsOf(Observed) \cup InterventionsOf({r})
    BY <1>1, <1>2, <2>1, <2>2 DEF InterventionsOf
  <2>4. InterventionsOf(Observed) \cap InterventionsOf({r}) = {}
    BY <2>1 DEF InterventionsOf
  <2>5. /\ IsFiniteSet(InterventionsOf(Observed)) /\ Cardinality(InterventionsOf(Observed)) \in Nat
    <3>1. Observed \in SUBSET Requests
      BY DEF Observed
    <3> QED BY <3>1, InterventionsFinite
  <2>6. /\ IsFiniteSet(InterventionsOf({r})) /\ Cardinality(InterventionsOf({r})) = intervened[r]
    BY OneRequest DEF NotYetObserved
  <2>7. Cardinality(InterventionsOf(Observed) \cup InterventionsOf({r}))
          = Cardinality(InterventionsOf(Observed)) + Cardinality(InterventionsOf({r}))
    <3>1. /\ IsFiniteSet(InterventionsOf(Observed)) /\ IsFiniteSet(InterventionsOf({r}))
          /\ InterventionsOf(Observed) \cap InterventionsOf({r}) = {}
      BY <2>4, <2>5, <2>6
    <3> QED BY <3>1, DisjointUnion
  <2>9. PICK c \in Nat : c = Cardinality(InterventionsOf(Observed))
    BY <2>5
  <2>10. Cardinality(InterventionsOf(Observed)') = c + intervened[r]
    <3>1. intervened[r] \in Nat
      BY DEF TypeOK
    <3> QED BY <2>3, <2>6, <2>7, <2>9, <3>1
  <2>11. counters'.interventions = c + intervened[r]
    BY <1>4, <2>9 DEF Ends, InterventionsCountedOnce
  <2> QED BY <2>10, <2>11 DEF InterventionsCountedOnce
<1> QED BY <1>3, <1>4 DEF Accounted

\* api.chat, proxy_error_handler and the telemetry: on every way out of a request the
\* harness's interventions are added to the counters once.
THEOREM InterventionsAreCountedOnce == Spec => []InterventionsCountedOnce
<1>1. Init => InterventionsCountedOnce
  <2> SUFFICES ASSUME Init PROVE InterventionsCountedOnce
    OBVIOUS
  <2>1. Observed = {} /\ counters.interventions = 0
    BY DEF Init, Observed, CounterNames
  <2>2. InterventionsOf(Observed) = {}
    BY <2>1 DEF InterventionsOf
  <2> QED BY <2>1, <2>2, FS_EmptySet DEF InterventionsCountedOnce
<1>2. IInv /\ NotYetObserved /\ InterventionsCountedOnce /\ [Next]_vars
        => InterventionsCountedOnce'
  <2> SUFFICES ASSUME IInv, NotYetObserved, InterventionsCountedOnce, [Next]_vars
               PROVE  InterventionsCountedOnce'
    OBVIOUS
  <2>1. CASE Next
    BY <2>1, StepAccounts, AccountedCounts DEF Next, IInv
  <2>2. CASE UNCHANGED vars
    BY <2>2 DEF InterventionsCountedOnce, InterventionsOf, Observed, vars, taskVars, countVars
  <2> QED BY <2>1, <2>2
<1> QED BY <1>1, <1>2, InvariantHolds, NotYetObservedHolds, PTL DEF Spec
==============================================================================
