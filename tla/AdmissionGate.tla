---------------------------- MODULE AdmissionGate ----------------------------
(***************************************************************************)
(* What admission promises (docs/policy.md, "Admission, deadline, and      *)
(* overload contract"), without the semaphores, budget objects and timers  *)
(* that implement it: how many requests are admitted at a time, in all and *)
(* for one budget key, how many of a key are admitted per rate window, and *)
(* how many upstream operations run at a time.                             *)
(***************************************************************************)
EXTENDS Integers, FiniteSets

CONSTANTS Requests,        \* downstream requests
          Probes,          \* readiness probes: upstream operations without admission
          Keys,            \* budget keys
          BudgetKey,       \* the key each request is charged to
          AdmissionLimit, PrincipalLimit, ConcurrencyLimit,
          RateLimit, RateWindow,
          LastTick         \* bound: the clock stops here

ASSUME GateAssumption ==
  /\ IsFiniteSet(Requests) /\ Probes \subseteq Requests
  /\ BudgetKey \in [Requests -> Keys]
  /\ AdmissionLimit \in Nat \ {0} /\ PrincipalLimit \in Nat \ {0}
  /\ ConcurrencyLimit \in Nat \ {0}
  /\ RateLimit \in Nat \ {0} /\ RateWindow \in Nat \ {0}
  /\ LastTick \in Nat

Never == -1
Phases == {"out", "queued", "admitted", "working", "done"}

VARIABLES phase,   \* where each request is
          charged, \* when each request was charged to its rate window
          now

gateVars == <<phase, charged, now>>

\* The requests inside the admission gate, and those of one key.
Admitted == {r \in Requests \ Probes : phase[r] \in {"admitted", "working"}}
AdmittedFor(key) == {r \in Admitted : BudgetKey[r] = key}
Working == {r \in Requests : phase[r] = "working"}

\* The requests charged to a key in the window that ends at `time`.
ChargedIn(key, time) ==
  {r \in Requests : BudgetKey[r] = key /\ charged[r] # Never
                      /\ time - RateWindow < charged[r] /\ charged[r] <= time}

GateInit ==
  /\ phase = [r \in Requests |-> "out"]
  /\ charged = [r \in Requests |-> Never]
  /\ now = 0

Move(r, from, to) == phase[r] \in from /\ phase' = [phase EXCEPT ![r] = to]

Queue(r) ==
  /\ r \notin Probes /\ Move(r, {"out"}, "queued")
  /\ UNCHANGED <<charged, now>>

\* Fault: the rate window is charged but not tested.
EnterUnmetered(r) ==
  /\ Move(r, {"queued"}, "admitted")
  /\ Cardinality(Admitted) < AdmissionLimit
  /\ Cardinality(AdmittedFor(BudgetKey[r])) < PrincipalLimit
  /\ charged' = [charged EXCEPT ![r] = now]
  /\ UNCHANGED now

\* A request enters when every budget has room for it.
Enter(r) ==
  /\ Move(r, {"queued"}, "admitted")
  /\ Cardinality(Admitted) < AdmissionLimit
  /\ Cardinality(AdmittedFor(BudgetKey[r])) < PrincipalLimit
  /\ Cardinality(ChargedIn(BudgetKey[r], now)) < RateLimit
  /\ charged' = [charged EXCEPT ![r] = now]
  /\ UNCHANGED now

TurnAway(r) ==
  /\ Move(r, {"queued"}, "done")
  /\ UNCHANGED <<charged, now>>

Operate(r) ==
  /\ Move(r, IF r \in Probes THEN {"out"} ELSE {"admitted"}, "working")
  /\ Cardinality(Working) < ConcurrencyLimit
  /\ UNCHANGED <<charged, now>>

EndOperation(r) ==
  /\ Move(r, {"working"}, IF r \in Probes THEN "done" ELSE "admitted")
  /\ UNCHANGED <<charged, now>>

\* A request leaves when it has no upstream operation; a probe may fail to start one.
Depart(r) ==
  /\ Move(r, IF r \in Probes THEN {"out"} ELSE {"admitted"}, "done")
  /\ UNCHANGED <<charged, now>>

Pass == now < LastTick /\ now' = now + 1 /\ UNCHANGED <<phase, charged>>

GateNext ==
  \/ Pass
  \/ \E r \in Requests :
       Queue(r) \/ Enter(r) \/ TurnAway(r) \/ Operate(r) \/ EndOperation(r) \/ Depart(r)

GateSpec == GateInit /\ [][GateNext]_gateVars

-----------------------------------------------------------------------------
GateTypeOK ==
  /\ phase \in [Requests -> Phases]
  /\ charged \in [Requests -> Nat \cup {Never}]
  /\ now \in Nat

\* No rate window, ending now or at any moment of the past, holds more than the limit.
RateBounded ==
  \A key \in Keys : \A time \in 0..now : Cardinality(ChargedIn(key, time)) <= RateLimit
=============================================================================
