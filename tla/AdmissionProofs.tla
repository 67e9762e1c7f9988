---------------------------- MODULE AdmissionProofs ----------------------------
(* Admission for any number of requests, keys, permits and ticks. Every permit of  *)
(* a semaphore is free or in the hands of one request: held for its lifetime, or    *)
(* by an acquisition that was handed it. A semaphore's deque holds each waiting      *)
(* request once, and only for that semaphore, so a permit that is handed on is        *)
(* never handed to somebody else's acquisition; and the arrivals kept in the budget    *)
(* of a key account for every request charged to it in the current window.            *)
EXTENDS Admission, FiniteSetTheorems, SequenceTheorems, WellFoundedInduction, TLAPS

(* Where a request is, what it waits for and what it references.                     *)
Acquires == {"principal", "global", "slot"}
Admitted == {"global", "active", "slot", "upstream", "leaving"}
Referring == {"principal"} \cup Admitted
Staged ==
  \A r \in Requests :
    /\ acquire[r] # "none" <=> stage[r] \in Acquires
    /\ budget[r] # None <=> stage[r] \in Referring /\ r \notin Probes
    /\ r \in Probes => stage[r] \in {"out", "slot", "upstream", "done"}

(* The deque of a semaphore: those whose acquisition of it has started, once each.   *)
Deques ==
  \A s \in Semaphores :
    /\ \A i \in DOMAIN queue[s] :
         /\ acquire[queue[s][i]] \in {"waiting", "handed", "returning"}
         /\ SemaphoreOf(queue[s][i]) = s
    /\ \A i, j \in DOMAIN queue[s] : queue[s][i] = queue[s][j] => i = j

(* A budget object is created by a request that arrives, once.                       *)
Created ==
  \A k \in Keys : table[k] # None => stage[table[k]] # "out" /\ KeyFor(table[k]) = k

(* Every charge of the current window is one of the arrivals of its key's budget.     *)
Charged(k) ==
  {r \in Requests : KeyFor(r) = k /\ charged[r] # Never /\ charged[r] > now - RateWindow}
Placed(C, place, w, at) ==
  /\ \A q, r \in C : place[q] = place[r] => q = r
  /\ \A r \in C : w[place[r]] = at[r]
Accounted(k) ==
  IF table[k] = None THEN Charged(k) = {}
  ELSE \E place \in [Charged(k) -> InWindow(table[k])] :
         Placed(Charged(k), place, arrivals[table[k]], charged)
Charges ==
  /\ \A r \in Requests : charged[r] <= now /\ (charged[r] # Never => stage[r] \notin {"out", "principal", "global"})
  /\ \A k \in Keys : Accounted(k)

AInv == TypeOK /\ Staged /\ Deques /\ Created /\ BudgetsConsistent /\ Charges
------------------------------------------------------------------------------
(* Places in a sequence.                                                             *)
LEMMA LeastOf ==
  ASSUME NEW T \in SUBSET Nat, T # {}
  PROVE  \E x \in T : \A y \in T : x <= y
<1> DEFINE I == {1 .. n : n \in T}
<1>1. I \subseteq FiniteSubsetsOf(Nat) /\ I # {}
  <2>1. ASSUME NEW n \in T PROVE IsFiniteSet(1 .. n) /\ (1 .. n) \subseteq Nat
    BY FS_Interval
  <2> QED
    BY <2>1 DEF FiniteSubsetsOf
<1>2. PICK X \in I : \A Y \in I : ~ (<<Y, X>> \in StrictSubsetOrdering(Nat))
  BY <1>1, FS_StrictSubsetOrderingWellFounded, WFMin, Zenon
<1>3. PICK x \in T : X = 1 .. x
  OBVIOUS
<1>4. ASSUME NEW y \in T, y < x PROVE FALSE
  <2>1. (1 .. y) \subseteq (1 .. x) /\ x \in (1 .. x) /\ x \notin (1 .. y)
    BY <1>4
  <2>2. <<1 .. y, X>> \in StrictSubsetOrdering(Nat)
    BY <1>3, <2>1 DEF StrictSubsetOrdering
  <2> QED
    BY <1>2, <2>2
<1> QED
  BY <1>4

LEMMA MinIs ==
  ASSUME NEW T \in SUBSET Nat, T # {}
  PROVE  Min(T) \in T /\ \A y \in T : Min(T) <= y
BY LeastOf, Zenon DEF Min

LEMMA RemoveAtIs ==
  ASSUME NEW S, NEW q \in Seq(S), NEW i \in 1 .. Len(q)
  PROVE  /\ RemoveAt(q, i) \in Seq(S) /\ Len(RemoveAt(q, i)) = Len(q) - 1
         /\ \A j \in 1 .. Len(q) - 1 : RemoveAt(q, i)[j] = IF j < i THEN q[j] ELSE q[j + 1]
<1> DEFINE a == SubSeq(q, 1, i - 1)
           b == SubSeq(q, i + 1, Len(q))
<1>1. a \in Seq(S) /\ Len(a) = i - 1 /\ \A j \in 1 .. i - 1 : a[j] = q[j]
  OBVIOUS
<1>2. b \in Seq(S) /\ Len(b) = Len(q) - i /\ \A j \in 1 .. Len(q) - i : b[j] = q[j + i]
  OBVIOUS
<1>3. RemoveAt(q, i) = a \o b
  BY DEF RemoveAt
<1> HIDE DEF a, b
<1>4. /\ a \o b \in Seq(S) /\ Len(a \o b) = Len(a) + Len(b)
      /\ \A j \in 1 .. Len(a) + Len(b) : (a \o b)[j] = IF j <= Len(a) THEN a[j] ELSE b[j - Len(a)]
  BY <1>1, <1>2, ConcatProperties
<1>5. Len(q) \in Nat /\ i \in Nat
  OBVIOUS
<1>6. ASSUME NEW j \in 1 .. Len(q) - 1 PROVE (a \o b)[j] = IF j < i THEN q[j] ELSE q[j + 1]
  <2>1. j \in 1 .. Len(a) + Len(b)
    BY <1>1, <1>2, <1>5
  <2>2. CASE j < i
    BY <1>1, <1>4, <1>5, <2>1, <2>2
  <2>3. CASE ~(j < i)
    <3>1. j - (i - 1) \in 1 .. Len(q) - i /\ b[j - (i - 1)] = q[j - (i - 1) + i]
      BY <1>2, <1>5, <2>3
    <3>2. j - (i - 1) + i = j + 1 /\ ~(j <= Len(a))
      BY <1>1, <1>5, <2>3
    <3>3. (a \o b)[j] = b[j - (i - 1)]
      BY <1>1, <1>4, <2>1, <3>2
    <3> QED
      BY <2>3, <3>1, <3>2, <3>3
  <2> QED
    BY <2>2, <2>3
<1> QED
  BY <1>1, <1>2, <1>3, <1>4, <1>5, <1>6

(* What is left of a sequence of distinct elements when one is taken out.             *)
LEMMA RemovedFrom ==
  ASSUME NEW S, NEW q \in Seq(S), NEW i \in DOMAIN q, \A j, k \in DOMAIN q : q[j] = q[k] => j = k
  PROVE  LET w == RemoveAt(q, i) IN
         /\ w \in Seq(S)
         /\ \A j \in DOMAIN w : \E k \in DOMAIN q : w[j] = q[k] /\ w[j] # q[i]
         /\ \A j, k \in DOMAIN w : w[j] = w[k] => j = k
<1> DEFINE w == RemoveAt(q, i)
<1>1. /\ w \in Seq(S) /\ Len(w) = Len(q) - 1 /\ Len(q) \in Nat /\ i \in 1 .. Len(q)
      /\ \A j \in 1 .. Len(q) - 1 : w[j] = IF j < i THEN q[j] ELSE q[j + 1]
  <2>1. i \in 1 .. Len(q) /\ Len(q) \in Nat
    OBVIOUS
  <2> QED
    BY <2>1, RemoveAtIs
<1> HIDE DEF w
<1>2. DOMAIN w = 1 .. Len(q) - 1 /\ DOMAIN q = 1 .. Len(q)
  BY <1>1
<1>3. ASSUME NEW j \in DOMAIN w PROVE \E k \in DOMAIN q : w[j] = q[k] /\ k # i /\ k = IF j < i THEN j ELSE j + 1
  <2>1. CASE j < i
    BY <1>1, <1>2, <2>1
  <2>2. CASE ~(j < i)
    <3>1. j + 1 \in DOMAIN q /\ w[j] = q[j + 1] /\ j + 1 # i
      BY <1>1, <1>2, <2>2
    <3> QED
      BY <2>2, <3>1
  <2> QED
    BY <2>1, <2>2
<1>4. \A j, k \in DOMAIN w : w[j] = w[k] => j = k
  <2> SUFFICES ASSUME NEW j \in DOMAIN w, NEW k \in DOMAIN w, w[j] = w[k] PROVE j = k
    OBVIOUS
  <2>1. PICK m \in DOMAIN q : w[j] = q[m] /\ m = IF j < i THEN j ELSE j + 1
    BY <1>3
  <2>2. PICK n \in DOMAIN q : w[k] = q[n] /\ n = IF k < i THEN k ELSE k + 1
    BY <1>3
  <2>3. m = n
    BY <2>1, <2>2
  <2> QED
    BY <1>1, <1>2, <2>1, <2>2, <2>3
<1>5. \A j \in DOMAIN w : \E k \in DOMAIN q : w[j] = q[k] /\ w[j] # q[i]
  BY <1>3
<1>6. w = RemoveAt(q, i)
  BY DEF w
<1> QED
  BY <1>1, <1>4, <1>5, <1>6
------------------------------------------------------------------------------
(* Semaphores and the requests that have their permits.                              *)
Taker(r, s) == Holds(r, s) \/ InFlight(r, s)
Takers(s) == {r \in Requests : Taker(r, s)}

LEMMA SemaphoreFacts ==
  /\ AdmissionSem \in Semaphores /\ UpstreamSem \in Semaphores /\ Requests \subseteq Semaphores
  /\ AdmissionSem # UpstreamSem /\ AdmissionSem \notin Requests /\ UpstreamSem \notin Requests
  /\ None \notin Requests /\ None # AdmissionSem /\ None # UpstreamSem
  /\ IsFiniteSet(Requests)
  /\ \A s \in Semaphores : Limit(s) \in Nat \ {0}
  /\ \A r \in Requests : KeyFor(r) \in Keys
BY AdmissionAssumption DEF AdmissionSem, UpstreamSem, Semaphores, None, Limit, KeyFor, Keys

LEMMA SemaphoreOfIs ==
  ASSUME TypeOK, Staged, NEW r \in Requests, stage[r] \in Acquires
  PROVE  /\ SemaphoreOf(r) \in Semaphores
         /\ stage[r] = "principal" => SemaphoreOf(r) = budget[r]
         /\ stage[r] = "global" => SemaphoreOf(r) = AdmissionSem
         /\ stage[r] = "slot" => SemaphoreOf(r) = UpstreamSem
BY SemaphoreFacts DEF TypeOK, Staged, SemaphoreOf, Acquires, Referring

LEMMA BudgetIs ==
  ASSUME TypeOK, Staged, NEW r \in Requests, stage[r] \in Referring, r \notin Probes
  PROVE  budget[r] \in Requests /\ budget[r] # None
BY DEF TypeOK, Staged

(* A permit is either held or in flight.                                             *)
LEMMA TakersCounted ==
  TypeOK /\ Staged => \A s \in Semaphores :
    /\ Cardinality(Takers(s)) = Cardinality({r \in Requests : Holds(r, s)})
                                + Cardinality({r \in Requests : InFlight(r, s)})
    /\ IsFiniteSet(Takers(s)) /\ Cardinality(Takers(s)) \in Nat
<1> SUFFICES ASSUME TypeOK, Staged, NEW s \in Semaphores
             PROVE  /\ Cardinality(Takers(s)) = Cardinality({r \in Requests : Holds(r, s)})
                                                + Cardinality({r \in Requests : InFlight(r, s)})
                    /\ IsFiniteSet(Takers(s)) /\ Cardinality(Takers(s)) \in Nat
  OBVIOUS
<1> DEFINE A == {r \in Requests : Holds(r, s)}
           B == {r \in Requests : InFlight(r, s)}
<1>1. A \cap B = {}
  <2> SUFFICES ASSUME NEW r \in Requests, Holds(r, s), InFlight(r, s) PROVE FALSE
    OBVIOUS
  <2> QED
    BY SemaphoreFacts, SemaphoreOfIs, BudgetIs DEF Holds, InFlight, InAdmission, Acquires, Staged, Referring, Admitted
<1>2. IsFiniteSet(A) /\ IsFiniteSet(B) /\ IsFiniteSet(Takers(s))
  BY SemaphoreFacts, FS_Subset DEF Takers
<1>3. A \cup B = Takers(s)
  BY DEF Takers, Taker
<1>4. Cardinality(A \cup B) = Cardinality(A) + Cardinality(B) - Cardinality(A \cap B)
  BY <1>2, FS_Union
<1>5. Cardinality(A) \in Nat /\ Cardinality(B) \in Nat /\ Cardinality(Takers(s)) \in Nat
      /\ Cardinality({}) = 0
  BY <1>2, FS_CardinalityType, FS_EmptySet
<1> HIDE DEF A, B
<1>6. Cardinality(Takers(s)) = Cardinality(A) + Cardinality(B)
  BY <1>1, <1>3, <1>4, <1>5
<1> QED
  BY <1>2, <1>5, <1>6 DEF A, B

LEMMA PermitsAre ==
  TypeOK /\ Staged =>
    (PermitsConserved <=> \A s \in Semaphores : value[s] + Cardinality(Takers(s)) = Limit(s))
<1> SUFFICES ASSUME TypeOK, Staged, NEW s \in Semaphores
             PROVE  value[s] + Cardinality({r \in Requests : Holds(r, s)})
                             + Cardinality({r \in Requests : InFlight(r, s)})
                    = value[s] + Cardinality(Takers(s))
  BY DEF PermitsConserved
<1> DEFINE a == Cardinality({r \in Requests : Holds(r, s)})
           b == Cardinality({r \in Requests : InFlight(r, s)})
<1>1. a \in Nat /\ b \in Nat
  BY SemaphoreFacts, FS_Subset, FS_CardinalityType
<1>2. Cardinality(Takers(s)) = a + b /\ value[s] \in Nat
  BY TakersCounted DEF TypeOK
<1> HIDE DEF a, b
<1>3. value[s] + a + b = value[s] + Cardinality(Takers(s))
  BY <1>1, <1>2
<1> QED
  BY <1>3 DEF a, b

LEMMA PermitsAreNext ==
  (TypeOK /\ Staged)' =>
    (PermitsConserved' <=> (\A s \in Semaphores : value[s] + Cardinality(Takers(s)) = Limit(s))')
BY PermitsAre, PTL

(* Who is woken: the first in the deque that still waits, and for that semaphore.     *)
LEMMA FirstWaitingIs ==
  ASSUME TypeOK, Deques, NEW s \in Semaphores, Waiting(s) # {}
  PROVE  /\ FirstWaiting(s) \in Requests /\ acquire[FirstWaiting(s)] = "waiting"
         /\ SemaphoreOf(FirstWaiting(s)) = s
<1>1. Waiting(s) \in SUBSET Nat /\ queue[s] \in Seq(Requests)
  BY SMTT(30) DEF Waiting, TypeOK
<1> DEFINE i == Min(Waiting(s))
<1>2. i \in Waiting(s) /\ FirstWaiting(s) = queue[s][i]
  BY <1>1, MinIs DEF FirstWaiting
<1> HIDE DEF i
<1>3. i \in DOMAIN queue[s] /\ acquire[queue[s][i]] = "waiting"
  BY <1>2 DEF Waiting
<1>4. queue[s][i] \in Requests /\ SemaphoreOf(queue[s][i]) = s
  BY <1>1, <1>3 DEF Deques
<1> QED
  BY <1>2, <1>3, <1>4

LEMMA WokenAre ==
  ASSUME TypeOK, Deques, NEW S \in SUBSET Semaphores
  PROVE  /\ Woken(S) \subseteq Requests
         /\ \A q \in Requests : q \in Woken(S) <=>
              \E s \in S : Waiting(s) # {} /\ q = FirstWaiting(s)
         /\ \A q \in Woken(S) : acquire[q] = "waiting" /\ SemaphoreOf(q) \in S
BY FirstWaitingIs DEF Woken

(* The deque a request is taken out of, wherever its acquisition is.                  *)
LEMMA UnqueuedIs ==
  ASSUME TypeOK, Staged, Deques, NEW r \in Requests, stage[r] \in Acquires
  PROVE  LET w == Without(SemaphoreOf(r), r) IN
         /\ w \in Seq(Requests)
         /\ \A j \in DOMAIN w : w[j] # r /\ \E k \in DOMAIN queue[SemaphoreOf(r)] :
                                              w[j] = queue[SemaphoreOf(r)][k]
         /\ \A j, k \in DOMAIN w : w[j] = w[k] => j = k
<1> DEFINE s == SemaphoreOf(r)
<1>1. s \in Semaphores /\ queue[s] \in Seq(Requests)
  BY SemaphoreOfIs DEF TypeOK
<1>2. \A j, k \in DOMAIN queue[s] : queue[s][j] = queue[s][k] => j = k
  BY <1>1 DEF Deques
<1> HIDE DEF s
<1>3. CASE Places(s, r) = {}
  <2>1. Without(s, r) = queue[s]
    BY <1>3 DEF Without
  <2>2. \A j \in DOMAIN queue[s] : queue[s][j] # r
    BY <1>3 DEF Places
  <2> QED
    BY <1>1, <1>2, <2>1, <2>2 DEF s
<1>4. CASE Places(s, r) # {}
  <2> DEFINE i == Min(Places(s, r))
  <2>1. Places(s, r) \in SUBSET Nat
    BY <1>1 DEF Places
  <2>2. i \in DOMAIN queue[s] /\ queue[s][i] = r
    BY <1>4, <2>1, MinIs DEF Places
  <2>3. Without(s, r) = RemoveAt(queue[s], i)
    BY <1>4 DEF Without
  <2> HIDE DEF i
  <2> QED
    BY <1>1, <1>2, <2>2, <2>3, RemovedFrom DEF s
<1> QED
  BY <1>3, <1>4

(* What a request takes, by where it is.                                             *)
InHand == {"handed", "returning", "granted"}
Takes(r, st, ac, b, s) ==
  \/ s = b /\ (st \in Admitted \/ (st = "principal" /\ ac \in InHand))
  \/ /\ s = AdmissionSem /\ r \notin Probes
     /\ st \in Admitted
     /\ st = "global" => ac \in InHand
  \/ /\ s = UpstreamSem
     /\ st = "upstream" \/ (st = "slot" /\ ac \in InHand)

LEMMA TakenIs ==
  TypeOK /\ Staged => \A r \in Requests : \A s \in Semaphores :
    Taker(r, s) <=> Takes(r, stage[r], acquire[r], budget[r], s)
<1> SUFFICES ASSUME TypeOK, Staged, NEW r \in Requests, NEW s \in Semaphores
             PROVE Taker(r, s) <=>
                     \/ s = budget[r] /\ (stage[r] \in Admitted \/ (stage[r] = "principal" /\ acquire[r] \in InHand))
                     \/ /\ s = AdmissionSem /\ r \notin Probes
                        /\ stage[r] \in Admitted
                        /\ stage[r] = "global" => acquire[r] \in InHand
                     \/ /\ s = UpstreamSem
                        /\ stage[r] = "upstream" \/ (stage[r] = "slot" /\ acquire[r] \in InHand)
  BY DEF Takes
<1>1. stage[r] \in Stages /\ (budget[r] # None <=> stage[r] \in Referring /\ r \notin Probes)
      /\ (r \in Probes => stage[r] \in {"out", "slot", "upstream", "done"})
  BY DEF TypeOK, Staged
<1>2. s # None
  BY SemaphoreFacts DEF Semaphores
<1>3. InAdmission(r) <=> stage[r] \in Admitted \ {"global"} /\ r \notin Probes
  BY <1>1 DEF InAdmission, Admitted
<1>4. Holds(r, s) <=>
        \/ s = AdmissionSem /\ stage[r] \in Admitted \ {"global"} /\ r \notin Probes
        \/ s = UpstreamSem /\ stage[r] = "upstream"
        \/ s = budget[r] /\ stage[r] \in Admitted
  BY <1>1, <1>2, <1>3 DEF Holds, Admitted, Referring
<1>5. CASE stage[r] = "principal"
  <2>1. InFlight(r, s) <=> s = budget[r] /\ acquire[r] \in InHand
    BY <1>5 DEF InFlight, SemaphoreOf, InHand
  <2> QED
    BY <1>1, <1>2, <1>4, <1>5, <2>1 DEF Taker, Admitted
<1>6. CASE stage[r] = "global"
  <2>1. InFlight(r, s) <=> s = AdmissionSem /\ acquire[r] \in InHand
    BY <1>6 DEF InFlight, SemaphoreOf, InHand
  <2>2. stage[r] \in Admitted /\ stage[r] \notin Admitted \ {"global"} /\ stage[r] # "principal" /\ stage[r] # "slot"
        /\ stage[r] # "upstream" /\ r \notin Probes
    BY <1>1, <1>6 DEF Admitted
  <2>3. Taker(r, s) <=> Holds(r, s) \/ InFlight(r, s)
    BY DEF Taker
  <2> QED
    BY <1>4, <1>6, <2>1, <2>2, <2>3
<1>7. CASE stage[r] = "slot"
  <2>1. InFlight(r, s) <=> s = UpstreamSem /\ acquire[r] \in InHand
    BY <1>7 DEF InFlight, SemaphoreOf, InHand
  <2>2. stage[r] \in Admitted \ {"global"} /\ stage[r] # "principal" /\ stage[r] # "global"
        /\ stage[r] # "upstream"
    BY <1>1, <1>7 DEF Admitted
  <2>3. Taker(r, s) <=> Holds(r, s) \/ InFlight(r, s)
    BY DEF Taker
  <2> QED
    BY <1>4, <1>7, <2>1, <2>2, <2>3
<1>8. CASE stage[r] \notin Acquires
  <2>1. ~ InFlight(r, s) /\ stage[r] # "principal" /\ stage[r] # "global" /\ stage[r] # "slot"
    BY <1>8 DEF InFlight, Acquires
  <2>2. Taker(r, s) <=> Holds(r, s) \/ InFlight(r, s)
    BY DEF Taker
  <2>3. stage[r] \in Admitted <=> stage[r] \in Admitted \ {"global"}
    BY <2>1
  <2> QED
    BY <1>4, <2>1, <2>2, <2>3
<1> QED
  BY <1>5, <1>6, <1>7, <1>8 DEF Acquires

LEMMA TakenNext ==
  (TypeOK /\ Staged)' => (\A r \in Requests : \A s \in Semaphores :
    Taker(r, s) <=> Takes(r, stage[r], acquire[r], budget[r], s))'
BY TakenIs, PTL
------------------------------------------------------------------------------
(* A step of one request, that wakes the first waiter of each semaphore in S.         *)
OthersStay(r) == \A q \in Requests \ {r} : stage'[q] = stage[q] /\ budget'[q] = budget[q]

LEMMA AcquiresAre ==
  ASSUME TypeOK, Deques, NEW r \in Requests, NEW state, NEW S \in SUBSET Semaphores,
         SetAcquire(r, state, S)
  PROVE  /\ acquire'[r] = state
         /\ \A q \in Requests \ {r} :
              acquire'[q] = IF q \in Woken(S) THEN "handed" ELSE acquire[q]
         /\ \A q \in Woken(S) : q \in Requests /\ acquire[q] = "waiting" /\ SemaphoreOf(q) \in S
         /\ state \in AcquireStates => acquire' \in [Requests -> AcquireStates]
<1>1. /\ acquire'[r] = state
      /\ \A q \in Requests \ {r} : acquire'[q] = IF q \in Woken(S) THEN "handed" ELSE acquire[q]
  BY DEF SetAcquire
<1>2. state \in AcquireStates => acquire' \in [Requests -> AcquireStates]
  BY DEF SetAcquire, TypeOK, AcquireStates
<1> QED
  BY <1>1, <1>2, WokenAre

LEMMA NobodyWoken == Woken({}) = {}
BY DEF Woken

LEMMA OthersTake ==
  ASSUME TypeOK, Staged, Deques, NEW r \in Requests, NEW state, NEW S \in SUBSET Semaphores,
         SetAcquire(r, state, S), OthersStay(r), S = {} \/ acquire[r] # "waiting",
         NEW s \in Semaphores
  PROVE  /\ \A q \in Requests \ {r} : Taker(q, s)' <=>
              Taker(q, s) \/ (s \in S /\ Waiting(s) # {} /\ q = FirstWaiting(s))
         /\ s \in S /\ Waiting(s) # {} =>
              FirstWaiting(s) \in Requests \ {r} /\ ~ Taker(FirstWaiting(s), s)
<1>1. ASSUME s \in S, Waiting(s) # {}
      PROVE  FirstWaiting(s) \in Requests \ {r} /\ ~ Taker(FirstWaiting(s), s)
  <2> DEFINE w == FirstWaiting(s)
  <2>1. w \in Requests /\ acquire[w] = "waiting" /\ SemaphoreOf(w) = s
    BY <1>1, FirstWaitingIs
  <2> HIDE DEF w
  <2>2. w # r /\ ~ InFlight(w, s) /\ stage[w] \in Acquires
    BY <1>1, <2>1 DEF InFlight, Staged
  <2>3. ~ Taker(w, s)
    <3>1. acquire[w] \notin InHand
      BY <2>1 DEF InHand
    <3>2. budget[w] # AdmissionSem /\ budget[w] # UpstreamSem /\ AdmissionSem # UpstreamSem
      BY <2>1, SemaphoreFacts DEF TypeOK
    <3>3. stage[w] = "principal" => s = budget[w]
      BY <2>1, <2>2, SemaphoreOfIs
    <3>4. stage[w] = "global" => s = AdmissionSem
      BY <2>1, <2>2, SemaphoreOfIs
    <3>5. stage[w] = "slot" => s = UpstreamSem
      BY <2>1, <2>2, SemaphoreOfIs
    <3> QED
      BY <2>1, <2>2, <3>1, <3>2, <3>3, <3>4, <3>5, TakenIs DEF Acquires, Admitted, Takes
  <2> QED
    BY <2>1, <2>2, <2>3 DEF w
<1>2. ASSUME NEW q \in Requests \ {r}
      PROVE  Taker(q, s)' <=> Taker(q, s) \/ (s \in S /\ Waiting(s) # {} /\ q = FirstWaiting(s))
  <2>1. stage'[q] = stage[q] /\ budget'[q] = budget[q]
    BY DEF OthersStay
  <2>2. SemaphoreOf(q)' = SemaphoreOf(q) /\ (Holds(q, s)' <=> Holds(q, s))
    BY <2>1 DEF SemaphoreOf, Holds, InAdmission
  <2>3. CASE q \notin Woken(S)
    <3>1. acquire'[q] = acquire[q]
      BY <2>3, AcquiresAre
    <3>2. InFlight(q, s)' <=> InFlight(q, s)
      BY <2>1, <2>2, <3>1 DEF InFlight
    <3>3. ~(s \in S /\ Waiting(s) # {} /\ q = FirstWaiting(s))
      BY <2>3, WokenAre
    <3> QED
      BY <2>2, <3>2, <3>3 DEF Taker
  <2>4. CASE q \in Woken(S)
    <3>1. acquire'[q] = "handed" /\ acquire[q] = "waiting" /\ stage[q] \in Acquires
      BY <2>4, AcquiresAre DEF Staged
    <3>2. PICK t \in S : Waiting(t) # {} /\ q = FirstWaiting(t)
      BY <2>4, WokenAre
    <3>3. SemaphoreOf(q) = t
      BY <3>2, FirstWaitingIs
    <3>4. InFlight(q, s)' <=> s = t
      BY <2>1, <2>2, <3>1, <3>3 DEF InFlight, Acquires
    <3>5. ~ InFlight(q, s)
      BY <3>1 DEF InFlight
    <3>6. s \in S /\ Waiting(s) # {} /\ q = FirstWaiting(s) <=> s = t
      BY <3>2, <3>3, FirstWaitingIs
    <3> QED
      BY <2>2, <3>4, <3>5, <3>6 DEF Taker
  <2> QED
    BY <2>3, <2>4
<1> QED
  BY <1>1, <1>2
------------------------------------------------------------------------------
(* Counting.                                                                         *)
LEMMA CountAdded ==
  ASSUME NEW T, IsFiniteSet(T), NEW x, x \notin T
  PROVE  /\ IsFiniteSet(T \cup {x}) /\ Cardinality(T \cup {x}) = Cardinality(T) + 1
         /\ Cardinality(T) \in Nat
BY FS_AddElement, FS_CardinalityType

LEMMA CountRemoved ==
  ASSUME NEW T, IsFiniteSet(T), NEW x \in T
  PROVE  /\ IsFiniteSet(T \ {x}) /\ Cardinality(T \ {x}) = Cardinality(T) - 1
         /\ Cardinality(T) \in Nat \ {0}
<1>1. /\ IsFiniteSet(T \ {x}) /\ Cardinality(T \ {x}) = Cardinality(T) - 1
  BY FS_RemoveElement
<1>2. Cardinality(T) \in Nat /\ Cardinality(T \ {x}) \in Nat
  BY <1>1, FS_CardinalityType
<1> QED
  BY <1>1, <1>2

LEMMA CountSwapped ==
  ASSUME NEW T, IsFiniteSet(T), NEW x \in T, NEW y, y \notin T
  PROVE  Cardinality((T \ {x}) \cup {y}) = Cardinality(T)
<1>1. /\ IsFiniteSet(T \ {x}) /\ Cardinality(T \ {x}) = Cardinality(T) - 1
      /\ Cardinality(T) \in Nat \ {0}
  BY CountRemoved
<1>2. Cardinality((T \ {x}) \cup {y}) = Cardinality(T \ {x}) + 1
  BY <1>1, CountAdded
<1> QED
  BY <1>1, <1>2

(* A step in which r gives up its permits of the semaphores in S, and they are        *)
(* released: each goes to the first who waits for it, or becomes free.                *)
LEMMA ReleaseKeeps ==
  ASSUME TypeOK, Staged, Deques, PermitsConserved, (TypeOK /\ Staged)',
         NEW r \in Requests, NEW state, NEW S \in SUBSET Semaphores,
         SetAcquire(r, state, S), OthersStay(r), S = {} \/ acquire[r] # "waiting",
         \A s \in Semaphores :
           value'[s] = IF s \in S /\ Waiting(s) = {} THEN value[s] + 1 ELSE value[s],
         \A s \in Semaphores :
           IF s \in S THEN Taker(r, s) /\ ~ Taker(r, s)' ELSE Taker(r, s)' <=> Taker(r, s)
  PROVE  PermitsConserved'
<1> SUFFICES ASSUME NEW s \in Semaphores
             PROVE  value'[s] + Cardinality(Takers(s)') = Limit(s)
  BY PermitsAreNext
<1>1. /\ value[s] + Cardinality(Takers(s)) = Limit(s) /\ IsFiniteSet(Takers(s))
      /\ Cardinality(Takers(s)) \in Nat /\ value[s] \in Nat
  BY PermitsAre, TakersCounted DEF TypeOK
<1>2. /\ \A q \in Requests \ {r} : Taker(q, s)' <=>
              Taker(q, s) \/ (s \in S /\ Waiting(s) # {} /\ q = FirstWaiting(s))
      /\ s \in S /\ Waiting(s) # {} =>
              FirstWaiting(s) \in Requests \ {r} /\ ~ Taker(FirstWaiting(s), s)
  BY OthersTake
<1>3. CASE s \notin S
  <2>1. Takers(s)' = Takers(s)
    BY <1>2, <1>3 DEF Takers
  <2> QED
    BY <1>1, <1>3, <2>1
<1>4. CASE s \in S /\ Waiting(s) = {}
  <2>1. Takers(s)' = Takers(s) \ {r} /\ r \in Takers(s)
    BY <1>2, <1>4 DEF Takers
  <2>2. Cardinality(Takers(s)') = Cardinality(Takers(s)) - 1 /\ Cardinality(Takers(s)) \in Nat \ {0}
    BY <1>1, <2>1, CountRemoved
  <2>3. value'[s] = value[s] + 1
    BY <1>4
  <2> QED
    BY <1>1, <2>2, <2>3
<1>5. CASE s \in S /\ Waiting(s) # {}
  <2>1. /\ Takers(s)' = (Takers(s) \ {r}) \cup {FirstWaiting(s)} /\ r \in Takers(s)
        /\ FirstWaiting(s) \notin Takers(s)
    BY <1>2, <1>5 DEF Takers
  <2>2. Cardinality(Takers(s)') = Cardinality(Takers(s))
    BY <1>1, <2>1, CountSwapped
  <2> QED
    BY <1>1, <1>5, <2>2
<1> QED
  BY <1>3, <1>4, <1>5

(* A step in which somebody, r or the first who waits, takes a free permit of s.      *)
LEMMA TakeKeeps ==
  ASSUME TypeOK, Staged, PermitsConserved, (TypeOK /\ Staged)',
         NEW s \in Semaphores, NEW q \in Requests, ~ Taker(q, s), value[s] # 0,
         \A t \in Semaphores : value'[t] = IF t = s THEN value[t] - 1 ELSE value[t],
         \A p \in Requests : \A t \in Semaphores :
           Taker(p, t)' <=> Taker(p, t) \/ (p = q /\ t = s)
  PROVE  PermitsConserved'
<1> SUFFICES ASSUME NEW t \in Semaphores
             PROVE  value'[t] + Cardinality(Takers(t)') = Limit(t)
  BY PermitsAreNext
<1>1. /\ value[t] + Cardinality(Takers(t)) = Limit(t) /\ IsFiniteSet(Takers(t))
      /\ Cardinality(Takers(t)) \in Nat /\ value[t] \in Nat
  BY PermitsAre, TakersCounted DEF TypeOK
<1>2. CASE t # s
  <2>1. Takers(t)' = Takers(t)
    BY <1>2 DEF Takers
  <2> QED
    BY <1>1, <1>2, <2>1
<1>3. CASE t = s
  <2>1. Takers(t)' = Takers(t) \cup {q} /\ q \notin Takers(t)
    BY <1>3 DEF Takers
  <2>2. Cardinality(Takers(t)') = Cardinality(Takers(t)) + 1
    BY <1>1, <2>1, CountAdded
  <2> QED
    BY <1>1, <1>3, <2>2
<1> QED
  BY <1>2, <1>3
------------------------------------------------------------------------------
(* The deques.                                                                       *)
LEMMA SameSemaphore ==
  ASSUME NEW q, NEW t, NEW j, stage'[queue'[t][j]] = stage[q], budget'[queue'[t][j]] = budget[q]
  PROVE  SemaphoreOf(queue[t][j])' = SemaphoreOf(q)
BY DEF SemaphoreOf

LEMMA DequesStay ==
  ASSUME TypeOK, Staged, Deques, NEW r \in Requests, NEW state, NEW S \in SUBSET Semaphores,
         SetAcquire(r, state, S), OthersStay(r), UNCHANGED queue,
         \/ acquire[r] \notin {"waiting", "handed", "returning"}
         \/ /\ state \in {"waiting", "handed", "returning"}
            /\ stage'[r] = stage[r] /\ budget'[r] = budget[r]
  PROVE  Deques'
<1> SUFFICES ASSUME NEW s \in Semaphores, NEW i \in DOMAIN queue[s]
             PROVE  /\ acquire'[queue[s][i]] \in {"waiting", "handed", "returning"}
                    /\ SemaphoreOf(queue[s][i])' = s
  BY DEF Deques
<1>1. PICK q \in Requests : /\ q = queue[s][i] /\ acquire[q] \in {"waiting", "handed", "returning"}
                             /\ SemaphoreOf(q) = s
  BY DEF TypeOK, Deques
<1>2. stage'[q] = stage[q] /\ budget'[q] = budget[q] /\ q = queue'[s][i]
  BY <1>1 DEF OthersStay
<1>3. SemaphoreOf(queue[s][i])' = s
  BY <1>1, <1>2 DEF SemaphoreOf
<1>4. acquire'[q] \in {"waiting", "handed", "returning"}
  BY <1>1, AcquiresAre
<1> QED
  BY <1>1, <1>3, <1>4

LEMMA DequesUnqueue ==
  ASSUME TypeOK, Staged, Deques, NEW r \in Requests, NEW state, NEW S \in SUBSET Semaphores,
         stage[r] \in Acquires, SetAcquire(r, state, S), UNCHANGED <<stage, budget>>, Unqueue(r)
  PROVE  Deques' /\ queue' \in [Semaphores -> Seq(Requests)]
<1> DEFINE s == SemaphoreOf(r)
           w == Without(SemaphoreOf(r), r)
<1>1. s \in Semaphores /\ queue' = [queue EXCEPT ![s] = w]
  BY SemaphoreOfIs DEF Unqueue
<1>2. /\ w \in Seq(Requests)
      /\ \A j \in DOMAIN w : w[j] # r /\ \E k \in DOMAIN queue[s] : w[j] = queue[s][k]
      /\ \A j, k \in DOMAIN w : w[j] = w[k] => j = k
  BY UnqueuedIs
<1> HIDE DEF s, w
<1>3. queue' \in [Semaphores -> Seq(Requests)]
  BY <1>1, <1>2 DEF TypeOK
<1>4. queue'[s] = w /\ \A t \in Semaphores \ {s} : queue'[t] = queue[t]
  BY <1>1 DEF TypeOK
<1>6. ASSUME NEW t \in Semaphores
      PROVE  /\ \A j \in DOMAIN queue'[t] : queue'[t][j] # r /\ \E k \in DOMAIN queue[t] : queue'[t][j] = queue[t][k]
             /\ \A j, k \in DOMAIN queue'[t] : queue'[t][j] = queue'[t][k] => j = k
  <2>1. CASE t = s
    BY <1>2, <1>4, <2>1
  <2>2. CASE t # s
    <3>1. \A j \in DOMAIN queue[t] : queue[t][j] # r
      BY <2>2 DEF Deques, s
    <3>2. \A j, k \in DOMAIN queue[t] : queue[t][j] = queue[t][k] => j = k
      BY DEF Deques
    <3> QED
      BY <1>4, <2>2, <3>1, <3>2
  <2> QED
    BY <2>1, <2>2
<1>7. ASSUME NEW t \in Semaphores, NEW j \in DOMAIN queue'[t]
      PROVE  /\ acquire'[queue'[t][j]] \in {"waiting", "handed", "returning"}
             /\ SemaphoreOf(queue[t][j])' = t
  <2>1. PICK k \in DOMAIN queue[t] : queue'[t][j] = queue[t][k] /\ queue[t][k] # r
    BY <1>6
  <2>2. PICK q \in Requests : /\ q = queue'[t][j] /\ q # r /\ SemaphoreOf(q) = t
                               /\ acquire[q] \in {"waiting", "handed", "returning"}
    BY <2>1 DEF TypeOK, Deques
  <2>3. acquire'[q] \in {"waiting", "handed", "returning"}
    BY <2>2, AcquiresAre
  <2>4. SemaphoreOf(queue[t][j])' = t
    BY <2>2 DEF SemaphoreOf
  <2> QED
    BY <2>2, <2>3, <2>4
<1> QED
  BY <1>3, <1>6, <1>7 DEF Deques

LEMMA DequesAppend ==
  ASSUME TypeOK, Staged, Deques, NEW r \in Requests, acquire[r] = "spawned",
         SetAcquire(r, "waiting", {}), UNCHANGED <<stage, budget>>,
         queue' = [queue EXCEPT ![SemaphoreOf(r)] = Append(@, r)]
  PROVE  Deques' /\ queue' \in [Semaphores -> Seq(Requests)]
<1> DEFINE s == SemaphoreOf(r)
           w == Append(queue[s], r)
<1>1. s \in Semaphores /\ queue' = [queue EXCEPT ![s] = w] /\ queue[s] \in Seq(Requests)
  BY SemaphoreOfIs DEF Staged, TypeOK
<1>2. /\ w \in Seq(Requests) /\ Len(w) = Len(queue[s]) + 1 /\ Len(queue[s]) \in Nat
      /\ \A j \in 1 .. Len(queue[s]) : w[j] = queue[s][j]
      /\ w[Len(queue[s]) + 1] = r
  BY <1>1
<1>3. \A j \in DOMAIN queue[s] : queue[s][j] # r
  BY <1>1 DEF Deques
<1> HIDE DEF w, s
<1>4. queue'[s] = w /\ \A t \in Semaphores \ {s} : queue'[t] = queue[t]
  BY <1>1 DEF TypeOK
<1>5. queue' \in [Semaphores -> Seq(Requests)]
  BY <1>1, <1>2 DEF TypeOK
<1>7. DOMAIN w = 1 .. Len(queue[s]) + 1 /\ DOMAIN queue[s] = 1 .. Len(queue[s])
  BY <1>1, <1>2
<1>8. ASSUME NEW t \in Semaphores, NEW j \in DOMAIN queue'[t]
      PROVE  \/ t = s /\ queue'[t][j] = r /\ j = Len(queue[s]) + 1
             \/ j \in DOMAIN queue[t] /\ queue'[t][j] = queue[t][j]
  BY <1>2, <1>4, <1>7
<1>9. \A q \in Requests : acquire'[q] = IF q = r THEN "waiting" ELSE acquire[q]
  BY AcquiresAre, NobodyWoken
<1>10. ASSUME NEW t \in Semaphores, NEW j \in DOMAIN queue'[t]
       PROVE  /\ acquire'[queue'[t][j]] \in {"waiting", "handed", "returning"}
              /\ SemaphoreOf(queue[t][j])' = t
  <2>1. CASE t = s /\ queue'[t][j] = r
    <3>1. SemaphoreOf(queue[t][j])' = SemaphoreOf(r)
      BY <2>1, SameSemaphore, ZenonT(40)
    <3> QED
      BY <1>9, <2>1, <3>1 DEF s
  <2>2. CASE j \in DOMAIN queue[t] /\ queue'[t][j] = queue[t][j]
    <3>1. /\ queue[t][j] \in Requests /\ SemaphoreOf(queue[t][j]) = t
          /\ acquire[queue[t][j]] \in {"waiting", "handed", "returning"}
      BY <2>2 DEF TypeOK, Deques
    <3>2. PICK q \in Requests : /\ q = queue[t][j] /\ SemaphoreOf(q) = t
                                 /\ acquire[q] \in {"waiting", "handed", "returning"}
      BY <3>1
    <3>3. SemaphoreOf(queue[t][j])' = SemaphoreOf(q)
      BY <2>2, <3>2, SameSemaphore
    <3> QED
      BY <1>9, <2>2, <3>2, <3>3
  <2> QED
    BY <1>8, <2>1, <2>2
<1>11. ASSUME NEW t \in Semaphores, NEW j \in DOMAIN queue'[t], NEW k \in DOMAIN queue'[t],
              queue'[t][j] = queue'[t][k]
       PROVE  j = k
  BY <1>3, <1>8, <1>11 DEF Deques
<1> QED
  BY <1>5, <1>10, <1>11 DEF Deques
------------------------------------------------------------------------------
(* The gauges.                                                                       *)
LEMMA CountChanged ==
  ASSUME NEW P \in SUBSET Requests, NEW Q \in SUBSET Requests, NEW r \in Requests,
         \A q \in Requests \ {r} : q \in P <=> q \in Q
  PROVE  /\ Cardinality(P) \in Nat
         /\ (r \in P <=> r \in Q) => Cardinality(Q) = Cardinality(P)
         /\ r \notin P /\ r \in Q => Cardinality(Q) = Cardinality(P) + 1
         /\ r \in P /\ r \notin Q => Cardinality(Q) = Cardinality(P) - 1 /\ Cardinality(P) # 0
<1>1. IsFiniteSet(P) /\ IsFiniteSet(Q)
  BY SemaphoreFacts, FS_Subset
<1>2. Cardinality(P) \in Nat
  BY <1>1, FS_CardinalityType
<1>3. ASSUME r \in P <=> r \in Q PROVE Cardinality(Q) = Cardinality(P)
  <2>1. P = Q
    BY <1>3
  <2> QED
    BY <2>1
<1>4. ASSUME r \notin P, r \in Q PROVE Cardinality(Q) = Cardinality(P) + 1
  <2>1. Q = P \cup {r}
    BY <1>4
  <2> QED
    BY <1>1, <1>4, <2>1, CountAdded
<1>5. ASSUME r \in P, r \notin Q PROVE Cardinality(Q) = Cardinality(P) - 1 /\ Cardinality(P) # 0
  <2>1. Q = P \ {r}
    BY <1>5
  <2> QED
    BY <1>1, <1>5, <2>1, CountRemoved
<1> QED
  BY <1>2, <1>3, <1>4, <1>5

(* By how much a count changes when one request joins or leaves.                      *)
Change(was, is) == IF was <=> is THEN 0 ELSE IF is THEN 1 ELSE -1
Queueing == {"principal", "global"}
Inside == {"active", "slot", "upstream", "leaving"}
Gauged(r, was, is) ==
  /\ queued' = queued + Change(was \in Queueing, is \in Queueing)
  /\ active' = active + Change(was \in Inside /\ r \notin Probes, is \in Inside /\ r \notin Probes)
  /\ upstream_active' = upstream_active + Change(was = "upstream", is = "upstream")

LEMMA GaugesStep ==
  ASSUME TypeOK, GaugesMatch, NEW r \in Requests, OthersStay(r), Gauged(r, stage[r], stage'[r])
  PROVE  GaugesMatch' /\ queued' \in Nat /\ active' \in Nat /\ upstream_active' \in Nat
<1> DEFINE Q == {q \in Requests : stage[q] \in Queueing}
           A == {q \in Requests : stage[q] \in Inside /\ q \notin Probes}
           U == {q \in Requests : stage[q] = "upstream"}
<1>1. queued = Cardinality(Q) /\ active = Cardinality(A) /\ upstream_active = Cardinality(U)
  BY DEF GaugesMatch, Queueing, Inside, InAdmission
<1>2. GaugesMatch' <=> /\ queued' = Cardinality(Q') /\ active' = Cardinality(A')
                       /\ upstream_active' = Cardinality(U')
  BY DEF GaugesMatch, Queueing, Inside, InAdmission
<1>3. \A q \in Requests \ {r} : stage'[q] = stage[q]
  BY DEF OthersStay
<1>4. Cardinality(Q') = Cardinality(Q) + Change(stage[r] \in Queueing, stage'[r] \in Queueing)
      /\ Cardinality(Q') \in Nat
  <2>1. /\ Q \in SUBSET Requests /\ Q' \in SUBSET Requests
        /\ \A q \in Requests \ {r} : q \in Q <=> q \in Q'
        /\ r \in Q <=> stage[r] \in Queueing
        /\ r \in Q' <=> stage'[r] \in Queueing
    BY <1>3
  <2> HIDE DEF Q
  <2>2. Cardinality(Q) \in Nat /\ Cardinality(Q') \in Nat
    BY <2>1, SemaphoreFacts, FS_Subset, FS_CardinalityType
  <2>3. /\ (r \in Q <=> r \in Q') => Cardinality(Q') = Cardinality(Q)
        /\ r \notin Q /\ r \in Q' => Cardinality(Q') = Cardinality(Q) + 1
        /\ r \in Q /\ r \notin Q' => Cardinality(Q') = Cardinality(Q) - 1
    BY <2>1, CountChanged
  <2> QED
    BY <2>1, <2>2, <2>3 DEF Change
<1>5. Cardinality(A') = Cardinality(A)
                        + Change(stage[r] \in Inside /\ r \notin Probes, stage'[r] \in Inside /\ r \notin Probes)
      /\ Cardinality(A') \in Nat
  <2>1. /\ A \in SUBSET Requests /\ A' \in SUBSET Requests
        /\ \A q \in Requests \ {r} : q \in A <=> q \in A'
        /\ r \in A <=> stage[r] \in Inside /\ r \notin Probes
        /\ r \in A' <=> stage'[r] \in Inside /\ r \notin Probes
    BY <1>3
  <2> HIDE DEF A
  <2>2. Cardinality(A) \in Nat /\ Cardinality(A') \in Nat
    BY <2>1, SemaphoreFacts, FS_Subset, FS_CardinalityType
  <2>3. /\ (r \in A <=> r \in A') => Cardinality(A') = Cardinality(A)
        /\ r \notin A /\ r \in A' => Cardinality(A') = Cardinality(A) + 1
        /\ r \in A /\ r \notin A' => Cardinality(A') = Cardinality(A) - 1
    BY <2>1, CountChanged
  <2> QED
    BY <2>1, <2>2, <2>3 DEF Change
<1>6. Cardinality(U') = Cardinality(U) + Change(stage[r] = "upstream", stage'[r] = "upstream")
      /\ Cardinality(U') \in Nat
  <2>1. /\ U \in SUBSET Requests /\ U' \in SUBSET Requests
        /\ \A q \in Requests \ {r} : q \in U <=> q \in U'
        /\ r \in U <=> stage[r] = "upstream"
        /\ r \in U' <=> stage'[r] = "upstream"
    BY <1>3
  <2> HIDE DEF U
  <2>2. Cardinality(U) \in Nat /\ Cardinality(U') \in Nat
    BY <2>1, SemaphoreFacts, FS_Subset, FS_CardinalityType
  <2>3. /\ (r \in U <=> r \in U') => Cardinality(U') = Cardinality(U)
        /\ r \notin U /\ r \in U' => Cardinality(U') = Cardinality(U) + 1
        /\ r \in U /\ r \notin U' => Cardinality(U') = Cardinality(U) - 1
    BY <2>1, CountChanged
  <2> QED
    BY <2>1, <2>2, <2>3 DEF Change
<1> HIDE DEF Q, A, U
<1> QED
  BY <1>1, <1>2, <1>4, <1>5, <1>6 DEF Gauged
------------------------------------------------------------------------------
(* A step of r alone: where it is (st), its acquisition (state), what it references.  *)
TypedRest ==
  /\ due' \in [Requests -> Nat \cup {Never}]
  /\ cancelled' \in [Requests -> Cancellations]
  /\ operations' \in [Requests -> Nat]
  /\ value' \in [Semaphores -> Nat]
  /\ queue' \in [Semaphores -> Seq(Requests)]
  /\ table' \in [Keys -> Requests \cup {None}]
  /\ references' \in [Requests -> Nat]
  /\ arrivals' \in [Requests -> Seq(Nat)]
  /\ last_used' \in [Requests -> Nat]
  /\ admission_rejections' \in Nat /\ rate_rejections' \in Nat
  /\ now' \in Nat
  /\ charged' \in [Requests -> Nat \cup {Never}]

Fits(r, st, state, b) ==
  /\ state # "none" <=> st \in Acquires
  /\ b # None <=> st \in Referring /\ r \notin Probes
  /\ r \in Probes => st \in {"out", "slot", "upstream", "done"}

LEMMA StepKeeps ==
  ASSUME AInv, NEW r \in Requests, NEW S \in SUBSET Semaphores,
         NEW st \in Stages, NEW state \in AcquireStates, NEW b \in Requests \cup {None},
         SetAcquire(r, state, S), stage' = [stage EXCEPT ![r] = st],
         budget' = [budget EXCEPT ![r] = b],
         TypedRest, Fits(r, st, state, b), Gauged(r, stage[r], st)
  PROVE  /\ TypeOK' /\ Staged' /\ GaugesMatch' /\ OthersStay(r)
         /\ stage'[r] = st /\ acquire'[r] = state /\ budget'[r] = b
<1> USE DEF AInv
<1>1. stage'[r] = st /\ budget'[r] = b /\ OthersStay(r)
  BY DEF TypeOK, OthersStay
<1>2. /\ acquire'[r] = state /\ acquire' \in [Requests -> AcquireStates]
      /\ \A q \in Requests \ {r} : acquire'[q] = IF q \in Woken(S) THEN "handed" ELSE acquire[q]
      /\ \A q \in Woken(S) : acquire[q] = "waiting"
  BY AcquiresAre
<1>3. GaugesMatch' /\ queued' \in Nat /\ active' \in Nat /\ upstream_active' \in Nat
  BY <1>1, GaugesStep DEF BudgetsConsistent
<1>4. TypeOK'
  BY <1>2, <1>3 DEF TypeOK, TypedRest
<1>5. ASSUME NEW q \in Requests
      PROVE  Fits(q, stage'[q], acquire'[q], budget'[q])
  <2>1. CASE q = r
    BY <1>1, <1>2, <2>1
  <2>2. CASE q # r
    BY <1>1, <1>2, <2>2 DEF Fits, OthersStay, Staged
  <2> QED
    BY <2>1, <2>2
<1>6. Staged'
  BY <1>5 DEF Staged, Fits
<1> QED
  BY <1>1, <1>2, <1>3, <1>4, <1>6

(* The budgets and the charges, in a step that leaves them alone.                     *)
LEMMA QuietBudgets ==
  ASSUME AInv, NEW r \in Requests, OthersStay(r),
         UNCHANGED <<budget, table, references, arrivals, charged, now>>,
         stage'[r] # "out", stage'[r] \in Queueing => stage[r] \in Queueing
  PROVE  BudgetsShared' /\ Created' /\ Charges'
<1> USE DEF AInv
<1>1. BudgetsShared'
  BY DEF BudgetsShared, BudgetsConsistent, KeyFor
<1>2. Created'
  BY DEF Created, OthersStay, KeyFor, TypeOK
<1>3. ASSUME NEW k \in Keys PROVE Accounted(k)'
  <2>1. Accounted(k)
    BY DEF Charges
  <2>2. Charged(k)' = Charged(k) /\ InWindow(table[k])' = InWindow(table[k])
    BY DEF Charged, InWindow, KeyFor
  <2> QED
    BY <2>1, <2>2 DEF Accounted
<1>4. \A q \in Requests : charged[q] # Never => stage'[q] \notin {"out", "principal", "global"}
  BY DEF Charges, OthersStay, Queueing
<1> QED
  BY <1>1, <1>2, <1>3, <1>4 DEF Charges

(* What r has, and gives up, in a step that releases the semaphores in S.             *)
GivesUp(r, st, state, b, S) ==
  \A s \in Semaphores :
    IF s \in S THEN Takes(r, stage[r], acquire[r], budget[r], s) /\ ~ Takes(r, st, state, b, s)
    ELSE Takes(r, st, state, b, s) <=> Takes(r, stage[r], acquire[r], budget[r], s)

LEMMA PermitsStep ==
  ASSUME AInv, (TypeOK /\ Staged)', NEW r \in Requests, NEW S \in SUBSET Semaphores,
         NEW state, SetAcquire(r, state, S), OthersStay(r),
         S = {} \/ acquire[r] # "waiting", Release(S),
         GivesUp(r, stage'[r], acquire'[r], budget'[r], S)
  PROVE  PermitsConserved'
<1>1. \A s \in Semaphores :
        value'[s] = IF s \in S /\ Waiting(s) = {} THEN value[s] + 1 ELSE value[s]
  BY DEF Release
<1>2. \A s \in Semaphores :
        IF s \in S THEN Taker(r, s) /\ ~ Taker(r, s)' ELSE Taker(r, s)' <=> Taker(r, s)
  BY TakenIs, TakenNext DEF AInv, GivesUp
<1> QED
  BY <1>1, <1>2, ReleaseKeeps DEF AInv, BudgetsConsistent

LEMMA ReleaseTyped ==
  ASSUME TypeOK, NEW S, Release(S)
  PROVE  value' \in [Semaphores -> Nat]
BY DEF TypeOK, Release

LEMMA NothingReleased ==
  ASSUME TypeOK, UNCHANGED value
  PROVE  Release({})
BY DEF TypeOK, Release

(* A step that leaves the budgets and the charges alone and releases S.               *)
LEMMA QuietKeeps ==
  ASSUME AInv, NEW r \in Requests, NEW S \in SUBSET Semaphores,
         NEW st \in Stages, NEW state \in AcquireStates,
         SetAcquire(r, state, S), stage' = [stage EXCEPT ![r] = st],
         UNCHANGED <<budgetVars, budget, charged, now>>,
         due' \in [Requests -> Nat \cup {Never}],
         cancelled' \in [Requests -> Cancellations],
         operations' \in [Requests -> Nat],
         queue' \in [Semaphores -> Seq(Requests)],
         admission_rejections' \in Nat, rate_rejections' \in Nat,
         Fits(r, st, state, budget[r]), Gauged(r, stage[r], st), Deques',
         S = {} \/ acquire[r] # "waiting", Release(S),
         GivesUp(r, st, state, budget[r], S),
         st # "out", st \in Queueing => stage[r] \in Queueing
  PROVE  AInv'
<1>1. budget' = [budget EXCEPT ![r] = budget[r]] /\ budget[r] \in Requests \cup {None}
  BY DEF AInv, TypeOK
<1>2. UNCHANGED <<budget, table, references, arrivals, last_used, charged, now>>
  BY DEF budgetVars
<1>3. TypedRest
  BY <1>2, ReleaseTyped DEF TypedRest, AInv, TypeOK
<1>4. /\ TypeOK' /\ Staged' /\ GaugesMatch' /\ OthersStay(r)
      /\ stage'[r] = st /\ acquire'[r] = state /\ budget'[r] = budget[r]
  BY <1>1, <1>3, StepKeeps
<1>5. PermitsConserved'
  BY <1>4, PermitsStep
<1>6. BudgetsShared' /\ Created' /\ Charges'
  BY <1>2, <1>4, QuietBudgets
<1> QED
  BY <1>4, <1>5, <1>6 DEF AInv, BudgetsConsistent
------------------------------------------------------------------------------
(* The steps that touch no budget object.                                            *)
LEMMA CapsTyped ==
  AInv => /\ acquire \in [Requests -> AcquireStates] /\ stage \in [Requests -> Stages]
          /\ due \in [Requests -> Nat \cup {Never}] /\ cancelled \in [Requests -> Cancellations]
          /\ operations \in [Requests -> Nat] /\ queue \in [Semaphores -> Seq(Requests)]
          /\ admission_rejections \in Nat /\ rate_rejections \in Nat /\ now \in Nat
          /\ TypeOK /\ Staged /\ Deques
BY DEF AInv, TypeOK

LEMMA QuietDeques ==
  ASSUME AInv, NEW r \in Requests, NEW st, NEW state, NEW b, NEW S \in SUBSET Semaphores,
         SetAcquire(r, state, S), stage' = [stage EXCEPT ![r] = st],
         budget' = [budget EXCEPT ![r] = b], queue' = queue,
         acquire[r] \in {"none", "spawned", "granted", "abandoned"}
  PROVE  Deques' /\ queue' \in [Semaphores -> Seq(Requests)]
<1>1. OthersStay(r)
  BY CapsTyped DEF OthersStay, AInv, TypeOK
<1>2. acquire[r] \notin {"waiting", "handed", "returning"} /\ UNCHANGED queue
  OBVIOUS
<1>3. Deques'
  BY <1>1, <1>2, CapsTyped, DequesStay
<1> QED
  BY <1>3, CapsTyped

LEMMA BudgetSame ==
  AInv => \A r \in Requests : budget = [budget EXCEPT ![r] = budget[r]]
BY DEF AInv, TypeOK

LEMMA PrincipalGrantedKeeps ==
  ASSUME AInv, NEW r \in Requests, PrincipalGranted(r)
  PROVE  AInv'
<1>1. /\ stage[r] = "principal" /\ acquire[r] = "granted" /\ stage' = [stage EXCEPT ![r] = "global"]
      /\ SetAcquire(r, "spawned", {}) /\ due' = [due EXCEPT ![r] = now + AdmissionWait]
      /\ UNCHANGED <<cancelled, budget, operations, value, queue, budgetVars, queued, active,
                     upstream_active, admission_rejections, rate_rejections, charged, now>>
  BY DEF PrincipalGranted, Await, semaphoreVars, counterVars
<1>2. due' \in [Requests -> Nat \cup {Never}]
  BY <1>1, CapsTyped, AdmissionAssumption
<1>3. budget[r] # None /\ r \notin Probes
  BY <1>1, CapsTyped DEF Staged, Referring
<1>4. Fits(r, "global", "spawned", budget[r])
  BY <1>3 DEF Fits, Acquires, Referring, Admitted
<1>5. Gauged(r, stage[r], "global")
  BY <1>1, CapsTyped DEF Gauged, Change, Queueing, Inside, AInv, TypeOK
<1>6. GivesUp(r, "global", "spawned", budget[r], {})
  BY <1>1, SemaphoreFacts DEF GivesUp, Takes, InHand, Admitted
<1>7. Deques' /\ queue' \in [Semaphores -> Seq(Requests)]
  <2>1. /\ budget' = [budget EXCEPT ![r] = budget[r]] /\ queue' = queue
        /\ acquire[r] \in {"none", "spawned", "granted", "abandoned"} /\ {} \in SUBSET Semaphores
    BY <1>1, BudgetSame
  <2> QED
    BY <1>1, <2>1, QuietDeques
<1>8. Release({})
  BY <1>1, CapsTyped, NothingReleased
<1>9. "global" \in Stages /\ "spawned" \in AcquireStates
  BY DEF Stages, AcquireStates
<1> QED
  BY <1>1, <1>2, <1>4, <1>5, <1>6, <1>7, <1>8, <1>9, CapsTyped, QuietKeeps DEF Queueing

LEMMA SlotGrantedKeeps ==
  ASSUME AInv, NEW r \in Requests, SlotGranted(r)
  PROVE  AInv'
<1>1. /\ stage[r] = "slot" /\ acquire[r] = "granted" /\ stage' = [stage EXCEPT ![r] = "upstream"]
      /\ SetAcquire(r, "none", {}) /\ due' = [due EXCEPT ![r] = Never]
      /\ operations' = [operations EXCEPT ![r] = @ + 1] /\ upstream_active' = upstream_active + 1
      /\ UNCHANGED <<cancelled, budget, value, queue, budgetVars, queued, active,
                     admission_rejections, rate_rejections, charged, now>>
  BY DEF SlotGranted, semaphoreVars
<1>2. due' \in [Requests -> Nat \cup {Never}] /\ operations' \in [Requests -> Nat]
  BY <1>1, CapsTyped
<1>4. Fits(r, "upstream", "none", budget[r])
  BY <1>1, CapsTyped DEF Fits, Acquires, Referring, Admitted, Staged
<1>5. Gauged(r, stage[r], "upstream")
  BY <1>1 DEF Gauged, Change, Queueing, Inside, AInv, TypeOK
<1>6. GivesUp(r, "upstream", "none", budget[r], {})
  BY <1>1, SemaphoreFacts DEF GivesUp, Takes, InHand, Admitted
<1>7. Deques' /\ queue' \in [Semaphores -> Seq(Requests)]
  <2>1. /\ budget' = [budget EXCEPT ![r] = budget[r]] /\ queue' = queue
        /\ acquire[r] \in {"none", "spawned", "granted", "abandoned"} /\ {} \in SUBSET Semaphores
    BY <1>1, BudgetSame
  <2> QED
    BY <1>1, <2>1, QuietDeques
<1>8. Release({})
  BY <1>1, CapsTyped, NothingReleased
<1>9. "upstream" \in Stages /\ "none" \in AcquireStates
  BY DEF Stages, AcquireStates
<1> QED
  BY <1>1, <1>2, <1>4, <1>5, <1>6, <1>7, <1>8, <1>9, CapsTyped, QuietKeeps DEF Queueing

LEMMA SlotFailsKeeps ==
  ASSUME AInv, NEW r \in Requests, SlotFails(r)
  PROVE  AInv'
<1> DEFINE st == Unwound(r)
<1>1. /\ stage[r] = "slot" /\ acquire[r] = "abandoned" /\ stage' = [stage EXCEPT ![r] = st]
      /\ SetAcquire(r, "none", {}) /\ due' = [due EXCEPT ![r] = Never]
      /\ UNCHANGED <<cancelled, budget, operations, value, queue, budgetVars, queued, active,
                     upstream_active, admission_rejections, rate_rejections, charged, now>>
  BY DEF SlotFails, semaphoreVars, counterVars
<1>2. due' \in [Requests -> Nat \cup {Never}]
  BY <1>1, CapsTyped
<1>3. st = IF r \in Probes THEN "done" ELSE "leaving"
  BY DEF Unwound
<1> HIDE DEF st
<1>4. Fits(r, st, "none", budget[r])
  BY <1>1, <1>3, CapsTyped DEF Fits, Acquires, Referring, Admitted, Staged
<1>5. Gauged(r, stage[r], st)
  BY <1>1, <1>3 DEF Gauged, Change, Queueing, Inside, AInv, TypeOK
<1>6. GivesUp(r, st, "none", budget[r], {})
  <2>1. r \in Probes => budget[r] = None
    BY CapsTyped DEF Staged
  <2> QED
    BY <1>1, <1>3, <2>1, SemaphoreFacts DEF GivesUp, Takes, InHand, Admitted, Semaphores
<1>7. Deques' /\ queue' \in [Semaphores -> Seq(Requests)]
  <2>1. /\ budget' = [budget EXCEPT ![r] = budget[r]] /\ queue' = queue
        /\ acquire[r] \in {"none", "spawned", "granted", "abandoned"} /\ {} \in SUBSET Semaphores
    BY <1>1, BudgetSame
  <2> QED
    BY <1>1, <2>1, QuietDeques
<1>8. Release({})
  BY <1>1, CapsTyped, NothingReleased
<1>9. st \in Stages /\ "none" \in AcquireStates /\ st # "out" /\ st \notin Queueing
  BY <1>3 DEF Stages, AcquireStates, Queueing
<1> QED
  BY <1>1, <1>2, <1>4, <1>5, <1>6, <1>7, <1>8, <1>9, CapsTyped, QuietKeeps

LEMMA StartOperationKeeps ==
  ASSUME AInv, NEW r \in Requests, StartOperation(r)
  PROVE  AInv'
<1>1. /\ stage[r] = IF r \in Probes THEN "out" ELSE "active"
      /\ stage' = [stage EXCEPT ![r] = "slot"]
      /\ SetAcquire(r, "spawned", {}) /\ due' = [due EXCEPT ![r] = now + ConcurrencyWait]
      /\ UNCHANGED <<cancelled, budget, operations, value, queue, budgetVars, queued, active,
                     upstream_active, admission_rejections, rate_rejections, charged, now>>
  BY DEF StartOperation, Await, semaphoreVars, counterVars
<1>2. due' \in [Requests -> Nat \cup {Never}]
  BY <1>1, CapsTyped, AdmissionAssumption
<1>3. acquire[r] = "none" /\ (r \in Probes <=> budget[r] = None)
  BY <1>1, CapsTyped DEF Staged, Acquires, Referring, Admitted
<1>4. Fits(r, "slot", "spawned", budget[r])
  BY <1>3 DEF Fits, Acquires, Referring, Admitted
<1>5. Gauged(r, stage[r], "slot")
  BY <1>1 DEF Gauged, Change, Queueing, Inside, AInv, TypeOK
<1>6. GivesUp(r, "slot", "spawned", budget[r], {})
  BY <1>1, <1>3, SemaphoreFacts DEF GivesUp, Takes, InHand, Admitted, Semaphores
<1>7. Deques' /\ queue' \in [Semaphores -> Seq(Requests)]
  <2>1. /\ budget' = [budget EXCEPT ![r] = budget[r]] /\ queue' = queue
        /\ acquire[r] \in {"none", "spawned", "granted", "abandoned"} /\ {} \in SUBSET Semaphores
    BY <1>1, <1>3, BudgetSame
  <2> QED
    BY <1>1, <2>1, QuietDeques
<1>8. Release({})
  BY <1>1, CapsTyped, NothingReleased
<1>9. "slot" \in Stages /\ "spawned" \in AcquireStates
  BY DEF Stages, AcquireStates
<1> QED
  BY <1>1, <1>2, <1>4, <1>5, <1>6, <1>7, <1>8, <1>9, CapsTyped, QuietKeeps DEF Queueing

LEMMA OperationEndsKeeps ==
  ASSUME AInv, NEW r \in Requests, OperationEnds(r)
  PROVE  AInv'
<1>1. PICK st : /\ stage' = [stage EXCEPT ![r] = st]
                /\ IF r \in Probes THEN st = "done" ELSE st \in {"leaving", "active"}
  BY DEF OperationEnds, Unwound
<1>2. /\ stage[r] = "upstream" /\ upstream_active' = upstream_active - 1
      /\ Release({UpstreamSem}) /\ SetAcquire(r, "none", {UpstreamSem})
      /\ UNCHANGED <<due, cancelled, budget, operations, queue, budgetVars, queued, active,
                     admission_rejections, rate_rejections, charged, now>>
  BY DEF OperationEnds
<1>3. acquire[r] = "none" /\ (r \in Probes <=> budget[r] = None)
  BY <1>2, CapsTyped DEF Staged, Acquires, Referring, Admitted
<1>4. Fits(r, st, "none", budget[r])
  BY <1>1, <1>3 DEF Fits, Acquires, Referring, Admitted
<1>5. Gauged(r, stage[r], st)
  BY <1>1, <1>2 DEF Gauged, Change, Queueing, Inside, AInv, TypeOK
<1>6. GivesUp(r, st, "none", budget[r], {UpstreamSem})
  <2>1. budget[r] # UpstreamSem
    BY CapsTyped, SemaphoreFacts DEF TypeOK
  <2> QED
    BY <1>1, <1>2, <1>3, <2>1, SemaphoreFacts DEF GivesUp, Takes, InHand, Admitted, Semaphores
<1>7. Deques' /\ queue' \in [Semaphores -> Seq(Requests)]
  <2>1. /\ budget' = [budget EXCEPT ![r] = budget[r]] /\ queue' = queue
        /\ acquire[r] \in {"none", "spawned", "granted", "abandoned"}
        /\ {UpstreamSem} \in SUBSET Semaphores
    BY <1>2, <1>3, BudgetSame, SemaphoreFacts
  <2> QED
    BY <1>1, <1>2, <2>1, QuietDeques
<1>9. /\ st \in Stages /\ "none" \in AcquireStates /\ st # "out" /\ st \notin Queueing
      /\ {UpstreamSem} \in SUBSET Semaphores /\ acquire[r] # "waiting"
  BY <1>1, <1>3, SemaphoreFacts DEF Stages, AcquireStates, Queueing
<1> QED
  BY <1>1, <1>2, <1>4, <1>5, <1>6, <1>7, <1>9, CapsTyped, QuietKeeps
------------------------------------------------------------------------------
(* An acquisition that starts, resumes, returns its permit or is abandoned.           *)
LEMMA StaysThere ==
  ASSUME AInv, NEW r \in Requests
  PROVE  /\ stage = [stage EXCEPT ![r] = stage[r]] /\ stage[r] \in Stages
         /\ budget = [budget EXCEPT ![r] = budget[r]] /\ budget[r] \in Requests \cup {None}
         /\ (UNCHANGED <<queued, active, upstream_active>> => Gauged(r, stage[r], stage[r]))
BY DEF AInv, TypeOK, Gauged, Change

LEMMA AcquireReturnsKeeps ==
  ASSUME AInv, NEW r \in Requests, AcquireReturns(r)
  PROVE  AInv'
<1> DEFINE s == SemaphoreOf(r)
<1>1. /\ acquire[r] = "returning" /\ Release({s}) /\ SetAcquire(r, "abandoned", {s}) /\ Unqueue(r)
      /\ UNCHANGED <<stage, due, cancelled, budget, operations, budgetVars, queued, active,
                     upstream_active, admission_rejections, rate_rejections, charged, now>>
  BY DEF AcquireReturns, counterVars
<1>2. stage[r] \in Acquires
  BY <1>1, CapsTyped DEF Staged
<1>3. /\ s \in Semaphores
      /\ stage[r] = "principal" => s = budget[r]
      /\ stage[r] = "global" => s = AdmissionSem
      /\ stage[r] = "slot" => s = UpstreamSem
  BY <1>2, CapsTyped, SemaphoreOfIs
<1> HIDE DEF s
<1>4. Fits(r, stage[r], "abandoned", budget[r])
  BY <1>1, <1>2, CapsTyped DEF Fits, Staged
<1>5. GivesUp(r, stage[r], "abandoned", budget[r], {s})
  <2>1. budget[r] # UpstreamSem /\ budget[r] # AdmissionSem
    BY CapsTyped, SemaphoreFacts, SMTT(30) DEF TypeOK
  <2>2. stage[r] = "global" => r \notin Probes
    BY CapsTyped DEF Staged
  <2> QED
    BY <1>1, <1>2, <1>3, <2>1, <2>2, SemaphoreFacts DEF GivesUp, Takes, InHand, Admitted, Acquires
<1>6. {s} \in SUBSET Semaphores
  BY <1>3
<1>7. Deques' /\ queue' \in [Semaphores -> Seq(Requests)]
  BY <1>1, <1>2, <1>6, CapsTyped, DequesUnqueue
<1>8. stage' = [stage EXCEPT ![r] = stage[r]] /\ Gauged(r, stage[r], stage[r]) /\ stage[r] # "out"
      /\ stage[r] \in Stages /\ "abandoned" \in AcquireStates /\ acquire[r] # "waiting"
  BY <1>1, <1>2, StaysThere DEF AcquireStates, Acquires
<1> QED
  BY <1>1, <1>4, <1>5, <1>6, <1>7, <1>8, CapsTyped, QuietKeeps

LEMMA AbandonIs ==
  ASSUME AInv, NEW r \in Requests, Unfinished(r), Abandon(r), UNCHANGED <<stage, budget>>
  PROVE  \E state \in {"returning", "abandoned"} :
           /\ SetAcquire(r, state, {})
           /\ Fits(r, stage[r], state, budget[r])
           /\ GivesUp(r, stage[r], state, budget[r], {})
           /\ Deques' /\ queue' \in [Semaphores -> Seq(Requests)]
<1>1. stage[r] \in Acquires /\ acquire[r] \in {"spawned", "waiting", "handed"}
  BY CapsTyped DEF Unfinished, Staged
<1>2. ASSUME NEW state \in {"returning", "abandoned"} PROVE Fits(r, stage[r], state, budget[r])
  BY <1>1, CapsTyped DEF Fits, Staged
<1>3. CASE acquire[r] = "handed"
  <2>1. SetAcquire(r, "returning", {}) /\ UNCHANGED queue
    BY <1>3 DEF Abandon
  <2>2. GivesUp(r, stage[r], "returning", budget[r], {})
    BY <1>3 DEF GivesUp, Takes, InHand
  <2>3. OthersStay(r) /\ {} \in SUBSET Semaphores
    BY DEF OthersStay
  <2>4. Deques'
    <3>1. "returning" \in {"waiting", "handed", "returning"}
          /\ stage'[r] = stage[r] /\ budget'[r] = budget[r]
      OBVIOUS
    <3> QED
      BY <2>1, <2>3, <3>1, CapsTyped, DequesStay
  <2> QED
    BY <1>2, <2>1, <2>2, <2>4, CapsTyped
<1>4. CASE acquire[r] # "handed"
  <2>1. SetAcquire(r, "abandoned", {}) /\ Unqueue(r)
    BY <1>4 DEF Abandon
  <2>2. GivesUp(r, stage[r], "abandoned", budget[r], {})
    BY <1>1, <1>4 DEF GivesUp, Takes, InHand
  <2>3. Deques' /\ queue' \in [Semaphores -> Seq(Requests)]
    <3>1. {} \in SUBSET Semaphores
      OBVIOUS
    <3> QED
      BY <1>1, <2>1, <3>1, CapsTyped, DequesUnqueue
  <2> QED
    BY <1>2, <2>1, <2>2, <2>3
<1> QED
  BY <1>3, <1>4

LEMMA TimerFiresKeeps ==
  ASSUME AInv, NEW r \in Requests, TimerFires(r)
  PROVE  AInv'
<1>1. /\ Unfinished(r) /\ Abandon(r)
      /\ UNCHANGED <<stage, due, cancelled, budget, operations, value, budgetVars, queued, active,
                     upstream_active, admission_rejections, rate_rejections, charged, now>>
  BY DEF TimerFires, counterVars
<1>2. PICK state \in {"returning", "abandoned"} :
        /\ SetAcquire(r, state, {})
        /\ Fits(r, stage[r], state, budget[r])
        /\ GivesUp(r, stage[r], state, budget[r], {})
        /\ Deques' /\ queue' \in [Semaphores -> Seq(Requests)]
  BY <1>1, AbandonIs
<1>3. Release({})
  BY <1>1, CapsTyped, NothingReleased
<1>4. stage' = [stage EXCEPT ![r] = stage[r]] /\ Gauged(r, stage[r], stage[r]) /\ stage[r] # "out"
      /\ stage[r] \in Stages /\ state \in AcquireStates
  BY <1>1, StaysThere, CapsTyped DEF AcquireStates, Acquires, Staged, Unfinished
<1> QED
  BY <1>1, <1>2, <1>3, <1>4, CapsTyped, QuietKeeps

LEMMA CancelKeeps ==
  ASSUME AInv, NEW r \in Requests, Cancel(r)
  PROVE  AInv'
<1>1. /\ r \notin Probes /\ stage[r] \in {"principal", "global", "active", "slot", "upstream"}
      /\ cancelled' \in [Requests -> Cancellations]
      /\ UNCHANGED <<due, budget, operations, value, budgetVars, queued, active,
                     upstream_active, admission_rejections, rate_rejections, charged, now>>
  BY CapsTyped DEF Cancel, counterVars, Cancellations
<1>2. Release({})
  BY <1>1, CapsTyped, NothingReleased
<1>3. CASE stage[r] # "active" /\ Unfinished(r) /\ Abandon(r)
  <2>1. UNCHANGED stage
    BY <1>3 DEF Cancel
  <2>2. PICK state \in {"returning", "abandoned"} :
          /\ SetAcquire(r, state, {})
          /\ Fits(r, stage[r], state, budget[r])
          /\ GivesUp(r, stage[r], state, budget[r], {})
          /\ Deques' /\ queue' \in [Semaphores -> Seq(Requests)]
    BY <1>1, <1>3, <2>1, AbandonIs
  <2>3. stage' = [stage EXCEPT ![r] = stage[r]] /\ Gauged(r, stage[r], stage[r]) /\ stage[r] # "out"
        /\ stage[r] \in Stages /\ state \in AcquireStates
    BY <1>1, <2>1, StaysThere, CapsTyped DEF AcquireStates
  <2> QED
    BY <1>1, <1>2, <2>2, <2>3, CapsTyped, QuietKeeps
<1>4. CASE UNCHANGED <<acquire, queue>>
  <2> DEFINE st == IF stage[r] = "active" THEN "leaving" ELSE stage[r]
  <2>1. stage' = [stage EXCEPT ![r] = st]
    BY CapsTyped DEF Cancel
  <2>2. st = IF stage[r] = "active" THEN "leaving" ELSE stage[r]
    OBVIOUS
  <2> HIDE DEF st
  <2>3. SetAcquire(r, acquire[r], {}) /\ acquire[r] \in AcquireStates
    BY <1>4, CapsTyped, NobodyWoken DEF SetAcquire
  <2>4. Fits(r, st, acquire[r], budget[r])
    BY <1>1, <2>2, CapsTyped DEF Fits, Staged, Acquires, Referring, Admitted
  <2>5. Gauged(r, stage[r], st)
    BY <1>1, <2>2 DEF Gauged, Change, Queueing, Inside, AInv, TypeOK
  <2>6. GivesUp(r, st, acquire[r], budget[r], {})
    BY <1>1, <2>2, SemaphoreFacts DEF GivesUp, Takes, InHand, Admitted
  <2>7. Deques'
    <3>1. OthersStay(r) /\ {} \in SUBSET Semaphores /\ UNCHANGED queue
      BY <1>1, <1>4, <2>1, CapsTyped DEF OthersStay
    <3>2. CASE stage[r] = "active"
      <4>1. acquire[r] \notin {"waiting", "handed", "returning"}
        BY <3>2, CapsTyped DEF Staged, Acquires
      <4> QED
        BY <2>3, <3>1, <4>1, CapsTyped, DequesStay
    <3>3. CASE stage[r] # "active"
      <4>1. stage' = stage /\ budget' = budget
        BY <1>1, <2>1, <2>2, <3>3, CapsTyped
      <4>2. \/ acquire[r] \notin {"waiting", "handed", "returning"}
            \/ /\ acquire[r] \in {"waiting", "handed", "returning"}
               /\ stage'[r] = stage[r] /\ budget'[r] = budget[r]
        BY <4>1
      <4> QED
        BY <2>3, <3>1, <4>2, CapsTyped, DequesStay
    <3> QED
      BY <3>2, <3>3
  <2>8. st \in Stages /\ st # "out" /\ (st \in Queueing => stage[r] \in Queueing)
    BY <1>1, <2>2 DEF Stages, Queueing
  <2> QED
    BY <1>1, <1>2, <1>4, <2>1, <2>3, <2>4, <2>5, <2>6, <2>7, <2>8, CapsTyped, QuietKeeps
<1>5. stage[r] = "active" => ~ Unfinished(r)
  BY CapsTyped DEF Staged, Unfinished, Acquires
<1> QED
  BY <1>3, <1>4, <1>5 DEF Cancel

(* An acquisition that moves on where it is: everything but the permits.              *)
LEMMA MovesOn ==
  ASSUME AInv, NEW r \in Requests, NEW S \in SUBSET Semaphores, NEW state \in AcquireStates,
         stage[r] \in Acquires, state # "none", SetAcquire(r, state, S),
         value' \in [Semaphores -> Nat], queue' \in [Semaphores -> Seq(Requests)], Deques',
         UNCHANGED <<stage, due, cancelled, budget, operations, budgetVars, counterVars, charged, now>>
  PROVE  /\ TypeOK' /\ Staged' /\ acquire'[r] = state /\ stage'[r] = stage[r] /\ budget'[r] = budget[r]
         /\ OthersStay(r)
         /\ PermitsConserved' => AInv'
<1>1. UNCHANGED <<budget, table, references, arrivals, last_used, charged, now, queued, active,
                  upstream_active, admission_rejections, rate_rejections, due, cancelled, operations>>
  BY DEF budgetVars, counterVars
<1>2. TypedRest
  BY <1>1 DEF TypedRest, AInv, TypeOK
<1>3. /\ stage' = [stage EXCEPT ![r] = stage[r]] /\ stage[r] \in Stages
      /\ budget' = [budget EXCEPT ![r] = budget[r]] /\ budget[r] \in Requests \cup {None}
      /\ Gauged(r, stage[r], stage[r])
  BY <1>1, StaysThere
<1>4. Fits(r, stage[r], state, budget[r])
  BY CapsTyped DEF Fits, Staged
<1>5. /\ TypeOK' /\ Staged' /\ GaugesMatch' /\ OthersStay(r)
      /\ stage'[r] = stage[r] /\ acquire'[r] = state /\ budget'[r] = budget[r]
  BY <1>2, <1>3, <1>4, StepKeeps
<1>6. stage'[r] # "out" /\ (stage'[r] \in Queueing => stage[r] \in Queueing)
  BY <1>5 DEF Acquires
<1>7. BudgetsShared' /\ Created' /\ Charges'
  BY <1>1, <1>5, <1>6, QuietBudgets
<1> QED
  BY <1>5, <1>7 DEF AInv, BudgetsConsistent

LEMMA AcquireStartsKeeps ==
  ASSUME AInv, NEW r \in Requests, AcquireStarts(r)
  PROVE  AInv'
<1> DEFINE s == SemaphoreOf(r)
<1>1. /\ acquire[r] = "spawned"
      /\ UNCHANGED <<stage, due, cancelled, budget, operations, budgetVars, counterVars, charged, now>>
  BY DEF AcquireStarts
<1>2. stage[r] \in Acquires
  BY <1>1, CapsTyped DEF Staged
<1>3. /\ s \in Semaphores
      /\ stage[r] = "principal" => s = budget[r]
      /\ stage[r] = "global" => s = AdmissionSem
      /\ stage[r] = "slot" => s = UpstreamSem
  BY <1>2, CapsTyped, SemaphoreOfIs
<1>4. {} \in SUBSET Semaphores /\ "granted" \in AcquireStates /\ "waiting" \in AcquireStates
  BY DEF AcquireStates
<1>5. CASE /\ ~ Locked(s) /\ value' = [value EXCEPT ![s] = @ - 1]
           /\ SetAcquire(r, "granted", {}) /\ UNCHANGED queue
  <2> HIDE DEF s
  <2>1. value[s] # 0 /\ value[s] \in Nat
    BY <1>3, <1>5, CapsTyped DEF Locked, TypeOK
  <2>2. \A t \in Semaphores : value'[t] = IF t = s THEN value[t] - 1 ELSE value[t]
    BY <1>3, <1>5, CapsTyped DEF TypeOK
  <2>3. value' \in [Semaphores -> Nat]
    BY <1>3, <1>5, <2>1, CapsTyped DEF TypeOK
  <2>4. Deques' /\ queue' \in [Semaphores -> Seq(Requests)]
    <3>1. /\ stage' = [stage EXCEPT ![r] = stage[r]] /\ budget' = [budget EXCEPT ![r] = budget[r]]
          /\ queue' = queue /\ acquire[r] \in {"none", "spawned", "granted", "abandoned"}
      BY <1>1, <1>5, StaysThere
    <3> QED
      BY <1>4, <1>5, <3>1, QuietDeques
  <2>5. /\ TypeOK' /\ Staged' /\ acquire'[r] = "granted" /\ stage'[r] = stage[r]
        /\ budget'[r] = budget[r] /\ OthersStay(r)
        /\ PermitsConserved' => AInv'
    BY <1>1, <1>2, <1>4, <1>5, <2>3, <2>4, MovesOn
  <2>6. \A t \in Semaphores : Takes(r, stage[r], "granted", budget[r], t) <=> t = s \/ Takes(r, stage[r], "spawned", budget[r], t)
    <3>1. budget[r] # UpstreamSem /\ budget[r] # AdmissionSem
      BY CapsTyped, SemaphoreFacts, SMTT(30) DEF TypeOK
    <3>2. stage[r] = "global" => r \notin Probes
      BY CapsTyped DEF Staged
    <3> QED
      BY <1>2, <1>3, <3>1, <3>2, SemaphoreFacts DEF Takes, InHand, Admitted, Acquires
  <2>7. ~ Takes(r, stage[r], "spawned", budget[r], s)
    <3>1. budget[r] # UpstreamSem /\ budget[r] # AdmissionSem
      BY CapsTyped, SemaphoreFacts, SMTT(30) DEF TypeOK
    <3> QED
      BY <1>2, <1>3, <3>1, SemaphoreFacts DEF Takes, InHand, Admitted, Acquires
  <2>8. ASSUME NEW p \in Requests, NEW t \in Semaphores
        PROVE  Taker(p, t)' <=> Taker(p, t) \/ (p = r /\ t = s)
    <3>1. CASE p = r
      BY <1>1, <2>5, <2>6, <3>1, CapsTyped, TakenIs, TakenNext
    <3>2. CASE p # r
      <4>1. PICK S \in SUBSET Semaphores : S = {} /\ SetAcquire(r, "granted", S)
        BY <1>4, <1>5
      <4>2. \A q \in Requests \ {r} : Taker(q, t)' <=>
              Taker(q, t) \/ (t \in S /\ Waiting(t) # {} /\ q = FirstWaiting(t))
        BY <2>5, <4>1, CapsTyped, OthersTake
      <4> QED
        BY <3>2, <4>1, <4>2
    <3> QED
      BY <3>1, <3>2
  <2>9. ~ Taker(r, s)
    BY <1>1, <1>3, <2>7, CapsTyped, TakenIs
  <2>10. PermitsConserved'
    BY <1>3, <2>1, <2>2, <2>5, <2>8, <2>9, CapsTyped, TakeKeeps DEF AInv, BudgetsConsistent
  <2> QED
    BY <2>5, <2>10
<1>6. CASE /\ queue' = [queue EXCEPT ![s] = Append(@, r)] /\ SetAcquire(r, "waiting", {})
           /\ UNCHANGED value
  <2>1. Deques' /\ queue' \in [Semaphores -> Seq(Requests)]
    BY <1>1, <1>6, CapsTyped, DequesAppend
  <2> HIDE DEF s
  <2>2. /\ TypeOK' /\ Staged' /\ acquire'[r] = "waiting" /\ stage'[r] = stage[r]
        /\ budget'[r] = budget[r] /\ OthersStay(r)
        /\ PermitsConserved' => AInv'
    <3>1. value' \in [Semaphores -> Nat]
      BY <1>6, CapsTyped DEF TypeOK
    <3> QED
      BY <1>1, <1>2, <1>4, <1>6, <2>1, <3>1, MovesOn
  <2>3. GivesUp(r, stage'[r], acquire'[r], budget'[r], {})
    BY <1>1, <2>2 DEF GivesUp, Takes, InHand
  <2>4. PermitsConserved'
    <3>1. Release({})
      BY <1>6, CapsTyped, NothingReleased
    <3> QED
      BY <1>4, <1>6, <2>2, <2>3, <3>1, PermitsStep
  <2> QED
    BY <2>2, <2>4
<1> QED
  BY <1>5, <1>6 DEF AcquireStarts

LEMMA AcquireResumesKeeps ==
  ASSUME AInv, NEW r \in Requests, AcquireResumes(r)
  PROVE  AInv'
<1> DEFINE s == SemaphoreOf(r)
           S == IF value[s] > 0 THEN {s} ELSE {}
<1>1. /\ acquire[r] = "handed" /\ value' = [value EXCEPT ![s] = @ - Cardinality(Woken(S))]
      /\ SetAcquire(r, "granted", S) /\ Unqueue(r)
      /\ UNCHANGED <<stage, due, cancelled, budget, operations, budgetVars, counterVars, charged, now>>
  BY DEF AcquireResumes
<1>2. stage[r] \in Acquires
  BY <1>1, CapsTyped DEF Staged
<1>3. s \in Semaphores
  BY <1>2, CapsTyped, SemaphoreOfIs
<1>4. S \in SUBSET Semaphores /\ S \subseteq {s} /\ (S # {} => value[s] # 0) /\ value[s] \in Nat
  BY <1>3, CapsTyped DEF TypeOK
<1> HIDE DEF s, S
<1>5. Deques' /\ queue' \in [Semaphores -> Seq(Requests)]
  <2>1. UNCHANGED <<stage, budget>>
    BY <1>1
  <2> QED
    BY <1>1, <1>2, <1>4, <2>1, CapsTyped, DequesUnqueue
<1>6. {} \in SUBSET Semaphores /\ "granted" \in AcquireStates
  BY DEF AcquireStates
<1>7. CASE Woken(S) = {}
  <2>1. SetAcquire(r, "granted", {})
    BY <1>1, <1>7, NobodyWoken DEF SetAcquire
  <2>2. UNCHANGED value
    BY <1>1, <1>3, <1>4, <1>7, FS_EmptySet, CapsTyped DEF TypeOK
  <2>3. /\ TypeOK' /\ Staged' /\ acquire'[r] = "granted" /\ stage'[r] = stage[r]
        /\ budget'[r] = budget[r] /\ OthersStay(r)
        /\ PermitsConserved' => AInv'
    <3>1. value' \in [Semaphores -> Nat]
      BY <2>2, CapsTyped DEF TypeOK
    <3> QED
      BY <1>1, <1>2, <1>5, <1>6, <2>1, <3>1, MovesOn
  <2>4. GivesUp(r, stage'[r], acquire'[r], budget'[r], {})
    BY <1>1, <2>3 DEF GivesUp, Takes, InHand
  <2>5. PermitsConserved'
    <3>1. Release({})
      BY <2>2, CapsTyped, NothingReleased
    <3> QED
      BY <1>6, <2>1, <2>3, <2>4, <3>1, PermitsStep
  <2> QED
    BY <2>3, <2>5
<1>8. CASE Woken(S) # {}
  <2>1. S = {s} /\ Waiting(s) # {} /\ Woken(S) = {FirstWaiting(s)}
    BY <1>4, <1>8 DEF Woken
  <2>2. value' = [value EXCEPT ![s] = @ - 1]
    BY <1>1, <2>1, FS_Singleton
  <2>3. /\ \A t \in Semaphores : value'[t] = IF t = s THEN value[t] - 1 ELSE value[t]
        /\ value' \in [Semaphores -> Nat] /\ value[s] # 0
    BY <1>3, <1>4, <2>1, <2>2, CapsTyped DEF TypeOK
  <2>4. /\ TypeOK' /\ Staged' /\ acquire'[r] = "granted" /\ stage'[r] = stage[r]
        /\ budget'[r] = budget[r] /\ OthersStay(r)
        /\ PermitsConserved' => AInv'
    BY <1>1, <1>2, <1>4, <1>5, <1>6, <2>3, MovesOn
  <2>5. /\ \A t \in Semaphores : \A p \in Requests \ {r} : Taker(p, t)' <=>
              Taker(p, t) \/ (t \in S /\ Waiting(t) # {} /\ p = FirstWaiting(t))
        /\ FirstWaiting(s) \in Requests \ {r} /\ ~ Taker(FirstWaiting(s), s)
    <3>1. S = {} \/ acquire[r] # "waiting"
      BY <1>1
    <3> QED
      BY <1>1, <1>3, <1>4, <2>1, <2>4, <3>1, CapsTyped, OthersTake, ZenonT(40)
  <2>6. \A t \in Semaphores : Taker(r, t)' <=> Taker(r, t)
    <3>1. \A t \in Semaphores : Takes(r, stage[r], "granted", budget[r], t) <=> Takes(r, stage[r], "handed", budget[r], t)
      BY DEF Takes, InHand
    <3> QED
      BY <1>1, <2>4, <3>1, CapsTyped, TakenIs, TakenNext
  <2>7. ASSUME NEW p \in Requests, NEW t \in Semaphores
        PROVE  Taker(p, t)' <=> Taker(p, t) \/ (p = FirstWaiting(s) /\ t = s)
    <3>1. CASE p = r
      BY <2>5, <2>6, <3>1
    <3>2. CASE p # r
      BY <2>1, <2>5, <3>2
    <3> QED
      BY <3>1, <3>2
  <2>8. PermitsConserved'
    <3>1. PICK q \in Requests : q = FirstWaiting(s)
      BY <2>5
    <3>2. /\ ~ Taker(q, s)
          /\ \A p \in Requests : \A t \in Semaphores : Taker(p, t)' <=> Taker(p, t) \/ (p = q /\ t = s)
      BY <2>5, <2>7, <3>1
    <3> QED
      BY <1>3, <2>3, <2>4, <3>2, CapsTyped, TakeKeeps DEF AInv, BudgetsConsistent
  <2> QED
    BY <2>4, <2>8
<1> QED
  BY <1>7, <1>8
------------------------------------------------------------------------------
(* The rate window: what _charge_rate and _prune_principals keep of it.               *)
LEMMA WindowIs ==
  ASSUME TypeOK, NEW b \in Requests, InWindow(b) # {}
  PROVE  \E m \in 1 .. Len(arrivals[b]) :
           /\ \A i \in InWindow(b) : m <= i
           /\ Recent(b) \in Seq(Nat) /\ Len(Recent(b)) = Len(arrivals[b]) - m + 1
           /\ \A j \in 1 .. Len(Recent(b)) : Recent(b)[j] = arrivals[b][j + m - 1]
<1> DEFINE m == Min(InWindow(b))
           a == arrivals[b]
<1>1. a \in Seq(Nat) /\ Len(a) \in Nat /\ DOMAIN a = 1 .. Len(a)
  BY DEF TypeOK
<1>2. InWindow(b) \in SUBSET Nat /\ InWindow(b) \subseteq 1 .. Len(a)
  BY <1>1 DEF InWindow
<1>3. m \in InWindow(b) /\ \A i \in InWindow(b) : m <= i
  BY <1>2, MinIs
<1>4. Recent(b) = SubSeq(a, m, Len(a))
  BY DEF Recent
<1> HIDE DEF m, a
<1>5. m \in 1 .. Len(a)
  BY <1>2, <1>3
<1>6. /\ SubSeq(a, m, Len(a)) \in Seq(Nat) /\ Len(SubSeq(a, m, Len(a))) = Len(a) - m + 1
      /\ \A j \in 1 .. Len(a) - m + 1 : SubSeq(a, m, Len(a))[j] = a[j + m - 1]
  BY <1>1, <1>5
<1> QED
  BY <1>3, <1>4, <1>5, <1>6 DEF a

LEMMA RecentTyped ==
  ASSUME TypeOK, NEW b \in Requests
  PROVE  Recent(b) \in Seq(Nat) /\ Len(Recent(b)) \in Nat /\ (Recent(b) = <<>> => InWindow(b) = {})
<1>1. CASE InWindow(b) = {}
  BY <1>1 DEF Recent
<1>2. CASE InWindow(b) # {}
  <2>1. PICK m \in 1 .. Len(arrivals[b]) :
          /\ Recent(b) \in Seq(Nat) /\ Len(Recent(b)) = Len(arrivals[b]) - m + 1
    BY <1>2, WindowIs
  <2>2. Len(arrivals[b]) \in Nat
    BY DEF TypeOK
  <2> QED
    BY <2>1, <2>2
<1> QED
  BY <1>1, <1>2

(* The charges of a window are still there when the expired arrivals are gone.         *)
LEMMA KeptCharges ==
  ASSUME TypeOK, NEW b \in Requests, NEW C \in SUBSET Requests, NEW place \in [C -> InWindow(b)],
         Placed(C, place, arrivals[b], charged)
  PROVE  \E p \in [C -> 1 .. Len(Recent(b))] : Placed(C, p, Recent(b), charged)
<1>1. CASE InWindow(b) = {}
  <2>1. C = {}
    BY <1>1
  <2>2. [x \in C |-> 1] \in [C -> 1 .. Len(Recent(b))]
    BY <2>1
  <2> QED
    BY <2>1, <2>2 DEF Placed
<1>2. CASE InWindow(b) # {}
  <2>1. PICK m \in 1 .. Len(arrivals[b]) :
           /\ \A i \in InWindow(b) : m <= i
           /\ Recent(b) \in Seq(Nat) /\ Len(Recent(b)) = Len(arrivals[b]) - m + 1
           /\ \A j \in 1 .. Len(Recent(b)) : Recent(b)[j] = arrivals[b][j + m - 1]
    BY <1>2, WindowIs
  <2>2. Len(arrivals[b]) \in Nat /\ InWindow(b) \subseteq 1 .. Len(arrivals[b])
    BY DEF TypeOK, InWindow
  <2> DEFINE p == [r \in C |-> place[r] - m + 1]
  <2>3. ASSUME NEW r \in C
        PROVE  /\ place[r] \in Nat /\ p[r] = place[r] - m + 1 /\ p[r] \in 1 .. Len(Recent(b))
               /\ Recent(b)[p[r]] = charged[r]
    <3>1. place[r] \in InWindow(b) /\ place[r] \in 1 .. Len(arrivals[b]) /\ m <= place[r]
      BY <2>1, <2>2
    <3>2. p[r] = place[r] - m + 1 /\ p[r] \in 1 .. Len(Recent(b)) /\ p[r] + m - 1 = place[r]
      BY <2>1, <2>2, <3>1
    <3>3. Recent(b)[p[r]] = arrivals[b][p[r] + m - 1]
      BY <2>1, <3>2
    <3> QED
      BY <3>1, <3>2, <3>3 DEF Placed
  <2>4. p \in [C -> 1 .. Len(Recent(b))]
    BY <2>3
  <2>5. ASSUME NEW q \in C, NEW r \in C, p[q] = p[r] PROVE q = r
    <3>1. p[q] = place[q] - m + 1 /\ p[r] = place[r] - m + 1 /\ place[q] \in Nat /\ place[r] \in Nat
      BY <2>3
    <3>2. place[q] - m + 1 = place[r] - m + 1
      BY <2>5, <3>1
    <3> HIDE DEF p
    <3>3. place[q] = place[r]
      BY <2>2, <3>1, <3>2
    <3> QED
      BY <3>3 DEF Placed
  <2> HIDE DEF p
  <2> QED
    BY <2>3, <2>4, <2>5 DEF Placed
<1> QED
  BY <1>1, <1>2

LEMMA AccountedNext ==
  ASSUME NEW k \in Keys, NEW b \in Requests, table'[k] = b,
         NEW p \in [Charged(k)' -> DOMAIN arrivals'[b]],
         Placed(Charged(k)', p, arrivals'[b], charged')
  PROVE  Accounted(k)'
<1>1. \A r \in Charged(k)' : charged'[r] > now' - RateWindow
  BY DEF Charged
<1>2. InWindow(table[k])' = {i \in DOMAIN arrivals'[b] : arrivals'[b][i] > now' - RateWindow}
  BY DEF InWindow
<1>3. p \in [Charged(k)' -> InWindow(table[k])']
  BY <1>1, <1>2 DEF Placed
<1>4. table'[k] # None
  BY SemaphoreFacts
<1> QED
  BY <1>3, <1>4 DEF Accounted

(* _charge_rate refuses early enough: what a window holds fits in what is kept of it.   *)
LEMMA ChargesFit ==
  ASSUME AInv, NEW k \in Keys, table[k] # None
  PROVE  Cardinality(Charged(k)) <= Len(Recent(table[k])) /\ Cardinality(Charged(k)) \in Nat
<1> DEFINE b == table[k]
           C == Charged(k)
<1>1. b \in Requests /\ C \in SUBSET Requests
  BY DEF AInv, TypeOK, Charged
<1>2. PICK place \in [C -> InWindow(b)] : Placed(C, place, arrivals[b], charged)
  BY DEF AInv, Charges, Accounted
<1> HIDE DEF b, C
<1>3. PICK p \in [C -> 1 .. Len(Recent(b))] : Placed(C, p, Recent(b), charged)
  BY <1>1, <1>2, CapsTyped, KeptCharges
<1>4. Len(Recent(b)) \in Nat
  BY <1>1, CapsTyped, RecentTyped
<1>5. IsFiniteSet(1 .. Len(Recent(b))) /\ Cardinality(1 .. Len(Recent(b))) = Len(Recent(b))
  BY <1>4, FS_Interval
<1>6. p \in Injection(C, 1 .. Len(Recent(b)))
  BY <1>3 DEF Injection, IsInjective, Placed
<1>7. Cardinality(C) <= Cardinality(1 .. Len(Recent(b))) /\ IsFiniteSet(C)
  BY <1>5, <1>6, FS_Injection
<1>8. Cardinality(C) \in Nat
  BY <1>7, FS_CardinalityType
<1>9. Cardinality(C) <= Len(Recent(b))
  BY <1>5, <1>7
<1> QED
  BY <1>8, <1>9 DEF b, C
------------------------------------------------------------------------------
(* Leaving admit: the finally that every way out goes through.                        *)
LEMMA SharedCounts ==
  ASSUME TypeOK, BudgetsShared, NEW r \in Requests, NEW b \in Requests \cup {None},
         budget' = [budget EXCEPT ![r] = b], budget[r] # b
  PROVE  \A c \in Requests :
           /\ c = b => Cardinality({q \in Requests : budget[q] = c}') = references[c] + 1
           /\ c = budget[r] => /\ Cardinality({q \in Requests : budget[q] = c}') = references[c] - 1
                               /\ references[c] # 0
           /\ c # b /\ c # budget[r] => Cardinality({q \in Requests : budget[q] = c}') = references[c]
<1> SUFFICES ASSUME NEW c \in Requests
             PROVE  /\ c = b => Cardinality({q \in Requests : budget[q] = c}') = references[c] + 1
                    /\ c = budget[r] => /\ Cardinality({q \in Requests : budget[q] = c}') = references[c] - 1
                                        /\ references[c] # 0
                    /\ c # b /\ c # budget[r] => Cardinality({q \in Requests : budget[q] = c}') = references[c]
  OBVIOUS
<1>1. PICK P \in SUBSET Requests : P = {q \in Requests : budget[q] = c}
  OBVIOUS
<1>2. PICK Q \in SUBSET Requests : Q = {q \in Requests : budget'[q] = c}
  OBVIOUS
<1>3. /\ \A q \in Requests \ {r} : q \in P <=> q \in Q
      /\ r \in P <=> budget[r] = c
      /\ r \in Q <=> b = c
  BY <1>1, <1>2 DEF TypeOK
<1>4. references[c] = Cardinality(P)
  BY <1>1 DEF BudgetsShared
<1>5. /\ Cardinality(P) \in Nat
      /\ (r \in P <=> r \in Q) => Cardinality(Q) = Cardinality(P)
      /\ r \notin P /\ r \in Q => Cardinality(Q) = Cardinality(P) + 1
      /\ r \in P /\ r \notin Q => Cardinality(Q) = Cardinality(P) - 1 /\ Cardinality(P) # 0
  BY <1>3, CountChanged
<1> QED
  BY <1>2, <1>3, <1>4, <1>5

LEMMA ExitBudgets ==
  ASSUME AInv, NEW r \in Requests, NEW S, budget[r] # None, Exit(r, S), stage'[r] = "done", OthersStay(r)
  PROVE  /\ BudgetsShared' /\ Created' /\ Charges'
         /\ table' \in [Keys -> Requests \cup {None}] /\ references' \in [Requests -> Nat]
         /\ arrivals' \in [Requests -> Seq(Nat)] /\ last_used' \in [Requests -> Nat]
<1> DEFINE b == budget[r]
           used == IF b \in S THEN [last_used EXCEPT ![b] = now] ELSE last_used
<1>0. /\ budget' = [budget EXCEPT ![r] = None]
      /\ references' = [references EXCEPT ![b] = @ - 1]
      /\ last_used' = used
      /\ Prune
      /\ UNCHANGED <<now, charged>>
  BY DEF Exit
<1>1. b \in Requests /\ TypeOK /\ BudgetsShared
  BY DEF AInv, TypeOK, BudgetsConsistent
<1>2. /\ arrivals' = [c \in Requests |-> IF \E k \in Keys : table[k] = c THEN Recent(c) ELSE arrivals[c]]
      /\ table' = [k \in Keys |-> IF table[k] # None /\ Expired(table[k]) THEN None ELSE table[k]]
  BY <1>0 DEF Prune
<1>3. table' \in [Keys -> Requests \cup {None}] /\ arrivals' \in [Requests -> Seq(Nat)]
  <2>1. \A c \in Requests : Recent(c) \in Seq(Nat) /\ arrivals[c] \in Seq(Nat)
    BY <1>1, RecentTyped DEF TypeOK
  <2>2. \A k \in Keys : table[k] \in Requests \cup {None}
    BY <1>1 DEF TypeOK
  <2>3. arrivals' \in [Requests -> Seq(Nat)]
    BY <1>2, <2>1
  <2> QED
    BY <1>2, <2>2, <2>3
<1>4. \A c \in Requests : Cardinality({q \in Requests : budget[q] = c}')
                            = IF c = b THEN references[c] - 1 ELSE references[c]
  BY <1>0, <1>1, SemaphoreFacts, SharedCounts
<1>5. references[b] # 0
  BY <1>0, <1>1, SemaphoreFacts, SharedCounts
<1>6. references' \in [Requests -> Nat] /\ last_used' \in [Requests -> Nat]
  BY <1>0, <1>1, <1>5 DEF TypeOK
<1>7. \A c \in Requests : references'[c] = Cardinality({q \in Requests : budget[q] = c}')
  BY <1>0, <1>1, <1>4 DEF TypeOK
<1> HIDE DEF b, used
<1>8. ASSUME NEW q \in Requests, budget'[q] # None
      PROVE  table'[KeyFor(q)] = budget'[q]
  <2>1. q # r /\ budget'[q] = budget[q]
    BY <1>0, <1>1, <1>8 DEF TypeOK
  <2>2. /\ table[KeyFor(q)] = budget[q] /\ budget[q] # None /\ budget[q] \in Requests
        /\ KeyFor(q) \in Keys
    BY <1>1, <1>8, <2>1, SemaphoreFacts DEF BudgetsShared, TypeOK
  <2>3. references'[budget[q]] # 0
    <3>1. PICK c \in Requests : c = budget[q]
      BY <2>2
    <3>2. PICK P \in SUBSET Requests : P = {p \in Requests : budget'[p] = c}
      OBVIOUS
    <3>3. q \in P /\ IsFiniteSet(P)
      BY <2>1, <3>1, <3>2, SemaphoreFacts, FS_Subset
    <3>4. Cardinality(P) # 0
      BY <3>3, CountRemoved
    <3>5. references'[c] = Cardinality(P)
      BY <1>7, <3>2
    <3> QED
      BY <3>1, <3>4, <3>5
  <2>4. ~ Expired(table[KeyFor(q)])
    BY <2>2, <2>3 DEF Expired
  <2> QED
    BY <1>2, <2>1, <2>2, <2>4
<1>9. BudgetsShared'
  BY <1>7, <1>8 DEF BudgetsShared, KeyFor
<1>10. Created'
  <2> SUFFICES ASSUME NEW k \in Keys, table'[k] # None
               PROVE  stage'[table'[k]] # "out" /\ KeyFor(table'[k]) = k
    BY DEF Created, KeyFor
  <2>1. table'[k] = table[k] /\ table[k] \in Requests /\ table[k] # None
    BY <1>1, <1>2 DEF TypeOK
  <2>2. stage[table[k]] # "out" /\ KeyFor(table[k]) = k
    BY <2>1 DEF AInv, Created
  <2> QED
    BY <2>1, <2>2 DEF OthersStay
<1>11. ASSUME NEW k \in Keys PROVE Accounted(k)'
  <2>0. Charged(k)' = Charged(k) /\ Charged(k) \in SUBSET Requests
    BY <1>0 DEF Charged, KeyFor
  <2>1. CASE table[k] = None
    <3>1. table'[k] = None /\ Charged(k) = {}
      BY <1>2, <2>1 DEF AInv, Charges, Accounted
    <3> QED
      BY <2>0, <3>1 DEF Accounted
  <2>2. CASE table[k] # None
    <3>1. PICK c \in Requests : c = table[k]
      BY <1>1, <2>2 DEF TypeOK
    <3>2. PICK place \in [Charged(k) -> InWindow(c)] : Placed(Charged(k), place, arrivals[c], charged)
      BY <2>2, <3>1 DEF AInv, Charges, Accounted
    <3>3. PICK p \in [Charged(k) -> 1 .. Len(Recent(c))] : Placed(Charged(k), p, Recent(c), charged)
      BY <1>1, <2>0, <3>2, KeptCharges
    <3>4. arrivals'[c] = Recent(c) /\ DOMAIN Recent(c) = 1 .. Len(Recent(c))
      BY <1>1, <1>2, <3>1, RecentTyped
    <3>5. CASE table'[k] = None
      <4>1. Recent(c) = <<>>
        BY <1>2, <2>2, <3>1, <3>5 DEF Expired
      <4>2. Charged(k) = {}
        BY <1>1, <3>2, <4>1, RecentTyped
      <4> QED
        BY <2>0, <3>5, <4>2 DEF Accounted
    <3>6. CASE table'[k] # None
      <4>1. table'[k] = c
        BY <1>2, <3>1, <3>6
      <4>2. /\ p \in [Charged(k)' -> DOMAIN arrivals'[c]]
            /\ Placed(Charged(k)', p, arrivals'[c], charged')
        BY <1>0, <2>0, <3>3, <3>4
      <4> QED
        BY <4>1, <4>2, AccountedNext
    <3> QED
      BY <3>5, <3>6
  <2> QED
    BY <2>1, <2>2
<1>12. \A q \in Requests : charged'[q] <= now' /\ (charged'[q] # Never => stage'[q] \notin {"out", "principal", "global"})
  BY <1>0 DEF AInv, Charges, OthersStay
<1> QED
  BY <1>3, <1>6, <1>9, <1>10, <1>11, <1>12 DEF Charges

LEMMA ExitKeeps ==
  ASSUME AInv, NEW r \in Requests, NEW S \in SUBSET Semaphores, Exit(r, S), r \notin Probes,
         stage[r] \in Referring, acquire[r] \in {"none", "granted", "abandoned"},
         \A s \in Semaphores : s \in S <=> Takes(r, stage[r], acquire[r], budget[r], s),
         queued' = queued + Change(stage[r] \in Queueing, FALSE),
         active' = active + Change(stage[r] \in Inside, FALSE),
         stage[r] # "upstream",
         admission_rejections' \in Nat, rate_rejections' \in Nat
  PROVE  AInv'
<1>1. /\ stage' = [stage EXCEPT ![r] = "done"] /\ Release(S) /\ SetAcquire(r, "none", S)
      /\ due' = [due EXCEPT ![r] = Never] /\ budget' = [budget EXCEPT ![r] = None]
      /\ UNCHANGED <<cancelled, operations, queue, upstream_active, now, charged>>
  BY DEF Exit
<1>2. budget[r] # None /\ budget[r] \in Requests
  BY CapsTyped, BudgetIs
<1>3. "done" \in Stages /\ "none" \in AcquireStates /\ None \in Requests \cup {None}
  BY DEF Stages, AcquireStates
<1>4. stage'[r] = "done" /\ OthersStay(r)
  BY <1>1, CapsTyped DEF OthersStay, AInv, TypeOK
<1>5. /\ BudgetsShared' /\ Created' /\ Charges'
      /\ table' \in [Keys -> Requests \cup {None}] /\ references' \in [Requests -> Nat]
      /\ arrivals' \in [Requests -> Seq(Nat)] /\ last_used' \in [Requests -> Nat]
  BY <1>2, <1>4, ExitBudgets
<1>6. Deques' /\ queue' \in [Semaphores -> Seq(Requests)]
  BY <1>1, QuietDeques
<1>7. TypedRest
  <2>1. due' \in [Requests -> Nat \cup {Never}] /\ value' \in [Semaphores -> Nat]
    BY <1>1, CapsTyped, ReleaseTyped
  <2> QED
    BY <1>1, <1>5, <1>6, <2>1 DEF TypedRest, AInv, TypeOK
<1>8. Fits(r, "done", "none", None)
  BY DEF Fits, Acquires, Referring, Admitted
<1>9. Gauged(r, stage[r], "done")
  <2>1. upstream_active' = upstream_active + 0
    BY <1>1 DEF AInv, TypeOK
  <2>2. "done" \notin Queueing /\ "done" \notin Inside
    BY DEF Queueing, Inside
  <2> QED
    BY <2>1, <2>2 DEF Gauged, Change
<1>10. /\ TypeOK' /\ Staged' /\ GaugesMatch'
       /\ stage'[r] = "done" /\ acquire'[r] = "none" /\ budget'[r] = None
  BY <1>1, <1>3, <1>7, <1>8, <1>9, StepKeeps
<1>11. GivesUp(r, "done", "none", None, S)
  <2>1. \A s \in Semaphores : ~ Takes(r, "done", "none", None, s)
    BY DEF Takes, Admitted
  <2> QED
    BY <2>1 DEF GivesUp
<1>12. PermitsConserved'
  <2>1. S = {} \/ acquire[r] # "waiting"
    OBVIOUS
  <2> QED
    BY <1>1, <1>4, <1>10, <1>11, <2>1, PermitsStep
<1> QED
  BY <1>5, <1>6, <1>10, <1>12 DEF AInv, BudgetsConsistent

LEMMA WaysOutKeep ==
  ASSUME AInv, NEW r \in Requests,
         PrincipalFails(r) \/ GlobalFails(r) \/ RateRejected(r) \/ Leave(r)
  PROVE  AInv'
<1> USE CapsTyped
<1>1. stage[r] \in Referring /\ r \notin Probes
  <2>1. stage[r] \in {"principal", "global", "active", "leaving"}
    BY DEF PrincipalFails, GlobalFails, RateRejected, Leave
  <2> QED
    BY <2>1 DEF Staged, Referring, Admitted
<1>2. budget[r] \in Requests /\ budget[r] \in Semaphores /\ budget[r] # AdmissionSem /\ budget[r] # UpstreamSem
  BY <1>1, BudgetIs, SemaphoreFacts
<1>3. queued \in Nat /\ active \in Nat
  BY DEF AInv, TypeOK
<1>4. CASE PrincipalFails(r)
  <2>1. /\ stage[r] = "principal" /\ acquire[r] = "abandoned" /\ queued' = queued - 1 /\ active' = active
        /\ Exit(r, {}) /\ admission_rejections' \in Nat /\ rate_rejections' \in Nat
    BY <1>4 DEF PrincipalFails, CountRejection
  <2>2. \A s \in Semaphores : s \in {} <=> Takes(r, stage[r], acquire[r], budget[r], s)
    BY <2>1 DEF Takes, InHand, Admitted
  <2>3. /\ queued' = queued + Change(stage[r] \in Queueing, FALSE)
        /\ active' = active + Change(stage[r] \in Inside, FALSE)
        /\ {} \in SUBSET Semaphores
    BY <1>3, <2>1 DEF Change, Queueing, Inside
  <2> QED
    BY <1>1, <2>1, <2>2, <2>3, ExitKeeps
<1>5. CASE GlobalFails(r)
  <2>1. /\ stage[r] = "global" /\ acquire[r] = "abandoned" /\ queued' = queued - 1 /\ active' = active
        /\ Exit(r, {budget[r]}) /\ admission_rejections' \in Nat /\ rate_rejections' \in Nat
    BY <1>5 DEF GlobalFails, CountRejection
  <2>2. \A s \in Semaphores : s \in {budget[r]} <=> Takes(r, stage[r], acquire[r], budget[r], s)
    BY <2>1 DEF Takes, InHand, Admitted
  <2>3. /\ queued' = queued + Change(stage[r] \in Queueing, FALSE)
        /\ active' = active + Change(stage[r] \in Inside, FALSE)
        /\ {budget[r]} \in SUBSET Semaphores
    BY <1>2, <1>3, <2>1 DEF Change, Queueing, Inside
  <2> QED
    BY <1>1, <2>1, <2>2, <2>3, ExitKeeps
<1>6. CASE RateRejected(r)
  <2>1. /\ stage[r] = "global" /\ acquire[r] = "granted" /\ queued' = queued - 1 /\ active' = active
        /\ Exit(r, {budget[r], AdmissionSem}) /\ admission_rejections' \in Nat /\ rate_rejections' \in Nat
    BY <1>6 DEF RateRejected
  <2>2. \A s \in Semaphores : s \in {budget[r], AdmissionSem} <=> Takes(r, stage[r], acquire[r], budget[r], s)
    BY <1>1, <2>1 DEF Takes, InHand, Admitted
  <2>3. /\ queued' = queued + Change(stage[r] \in Queueing, FALSE)
        /\ active' = active + Change(stage[r] \in Inside, FALSE)
        /\ {budget[r], AdmissionSem} \in SUBSET Semaphores
    BY <1>2, <1>3, <2>1, SemaphoreFacts DEF Change, Queueing, Inside
  <2> QED
    BY <1>1, <2>1, <2>2, <2>3, ExitKeeps
<1>7. CASE Leave(r)
  <2>1. /\ stage[r] \in {"active", "leaving"} /\ active' = active - 1 /\ queued' = queued
        /\ Exit(r, {budget[r], AdmissionSem}) /\ admission_rejections' \in Nat /\ rate_rejections' \in Nat
    BY <1>7 DEF Leave
  <2>2. acquire[r] = "none"
    BY <2>1 DEF Staged, Acquires
  <2>3. \A s \in Semaphores : s \in {budget[r], AdmissionSem} <=> Takes(r, stage[r], acquire[r], budget[r], s)
    BY <1>1, <2>1 DEF Takes, InHand, Admitted
  <2>4. /\ queued' = queued + Change(stage[r] \in Queueing, FALSE)
        /\ active' = active + Change(stage[r] \in Inside, FALSE)
        /\ {budget[r], AdmissionSem} \in SUBSET Semaphores
    BY <1>2, <1>3, <2>1, SemaphoreFacts DEF Change, Queueing, Inside
  <2> QED
    BY <1>1, <2>1, <2>2, <2>3, <2>4, ExitKeeps
<1> QED
  BY <1>4, <1>5, <1>6, <1>7
------------------------------------------------------------------------------
(* Entering admit.                                                                   *)
LEMMA ArriveKeeps ==
  ASSUME AInv, NEW r \in Requests, Arrive(r)
  PROVE  AInv'
<1> USE CapsTyped
<1> DEFINE k == KeyFor(r)
           e == IF table[k] = None THEN r ELSE table[k]
           used == IF table[k] = None THEN [last_used EXCEPT ![e] = now] ELSE last_used
<1>1. /\ stage[r] = "out" /\ r \notin Probes /\ queued' = queued + 1
      /\ table' = [table EXCEPT ![k] = e] /\ budget' = [budget EXCEPT ![r] = e]
      /\ references' = [references EXCEPT ![e] = @ + 1]
      /\ last_used' = used
      /\ stage' = [stage EXCEPT ![r] = "principal"] /\ SetAcquire(r, "spawned", {})
      /\ due' = [due EXCEPT ![r] = now + AdmissionWait]
      /\ UNCHANGED <<cancelled, operations, value, queue, arrivals, active, upstream_active,
                     admission_rejections, rate_rejections, now, charged>>
  BY DEF Arrive, Await, semaphoreVars
<1>2. k \in Keys /\ e \in Requests /\ e # None /\ (table[k] # None => e = table[k])
  BY SemaphoreFacts DEF TypeOK
<1>3. used \in [Requests -> Nat]
  BY <1>2 DEF TypeOK
<1> HIDE DEF e, used
<1>4. acquire[r] = "none" /\ budget[r] = None
  BY <1>1 DEF Staged, Acquires, Referring, Admitted
<1>5. "principal" \in Stages /\ "spawned" \in AcquireStates /\ e \in Requests \cup {None}
      /\ {} \in SUBSET Semaphores
  BY <1>2 DEF Stages, AcquireStates
<1>6. /\ stage'[r] = "principal" /\ OthersStay(r)
      /\ \A q \in Requests : budget'[q] = IF q = r THEN e ELSE budget[q]
  BY <1>1 DEF OthersStay, TypeOK
<1>7. Deques' /\ queue' \in [Semaphores -> Seq(Requests)]
  <2>1. queue' = queue /\ acquire[r] \in {"none", "spawned", "granted", "abandoned"}
    BY <1>1, <1>4
  <2> QED
    BY <1>1, <1>5, <2>1, QuietDeques
<1>8. TypedRest
  <2>1. due' \in [Requests -> Nat \cup {Never}]
    BY <1>1, AdmissionAssumption DEF TypeOK
  <2>2. references' \in [Requests -> Nat]
    BY <1>1, <1>2 DEF TypeOK
  <2>3. table' \in [Keys -> Requests \cup {None}]
    BY <1>1, <1>2 DEF TypeOK
  <2> QED
    BY <1>1, <1>3, <1>7, <2>1, <2>2, <2>3 DEF TypedRest, TypeOK
<1>9. Fits(r, "principal", "spawned", e)
  BY <1>1, <1>2 DEF Fits, Acquires, Referring
<1>10. Gauged(r, stage[r], "principal")
  BY <1>1 DEF Gauged, Change, Queueing, Inside, TypeOK
<1>11. /\ TypeOK' /\ Staged' /\ GaugesMatch'
       /\ acquire'[r] = "spawned" /\ budget'[r] = e
  BY <1>1, <1>5, <1>8, <1>9, <1>10, StepKeeps
<1>12. PermitsConserved'
  <2>1. GivesUp(r, stage'[r], acquire'[r], budget'[r], {})
    <3>1. GivesUp(r, "principal", "spawned", e, {})
      BY <1>1, <1>4 DEF GivesUp, Takes, InHand, Admitted
    <3> QED
      BY <1>6, <1>11, <3>1
  <2>2. Release({}) /\ acquire[r] # "waiting"
    BY <1>1, <1>4, NothingReleased
  <2> QED
    BY <1>1, <1>5, <1>6, <1>11, <2>1, <2>2, PermitsStep
<1>13. BudgetsShared'
  <2>0. BudgetsShared
    BY DEF AInv, BudgetsConsistent
  <2>1. \A c \in Requests : Cardinality({q \in Requests : budget[q] = c}')
                              = IF c = e THEN references[c] + 1 ELSE references[c]
    <3>1. budget' = [budget EXCEPT ![r] = e] /\ budget[r] # e /\ TypeOK /\ \A c \in Requests : c # budget[r]
      BY <1>1, <1>2, <1>4, SemaphoreFacts
    <3>2. \A c \in Requests :
           /\ c = e => Cardinality({q \in Requests : budget[q] = c}') = references[c] + 1
           /\ c # e /\ c # budget[r] => Cardinality({q \in Requests : budget[q] = c}') = references[c]
      BY <1>5, <2>0, <3>1, SharedCounts
    <3> QED
      BY <3>1, <3>2
  <2>2. \A c \in Requests : references'[c] = Cardinality({q \in Requests : budget[q] = c}')
    BY <1>1, <1>2, <2>1 DEF TypeOK
  <2>3. ASSUME NEW q \in Requests, budget'[q] # None
        PROVE  table'[KeyFor(q)] = budget'[q]
    <3>1. CASE q = r
      BY <1>1, <1>2, <1>6, <3>1 DEF TypeOK
    <3>2. CASE q # r
      <4>1. budget'[q] = budget[q] /\ table[KeyFor(q)] = budget[q] /\ KeyFor(q) \in Keys
        BY <1>6, <2>0, <2>3, <3>2, SemaphoreFacts DEF BudgetsShared
      <4>2. table'[KeyFor(q)] = table[KeyFor(q)]
        BY <1>1, <1>2, <2>3, <4>1 DEF TypeOK
      <4> QED
        BY <4>1, <4>2
    <3> QED
      BY <3>1, <3>2
  <2> QED
    BY <2>2, <2>3 DEF BudgetsShared, KeyFor
<1>14. Created'
  <2> SUFFICES ASSUME NEW j \in Keys, table'[j] # None
               PROVE  stage'[table'[j]] # "out" /\ KeyFor(table'[j]) = j
    BY DEF Created, KeyFor
  <2>1. CASE table[j] # None
    <3>1. table'[j] = table[j] /\ table[j] \in Requests
      BY <1>1, <1>2, <2>1 DEF TypeOK
    <3>2. stage[table[j]] # "out" /\ KeyFor(table[j]) = j
      BY <2>1 DEF AInv, Created
    <3> QED
      BY <1>6, <3>1, <3>2 DEF OthersStay
  <2>2. CASE table[j] = None
    <3>1. j = k /\ table'[j] = r
      BY <1>1, <1>2, <2>2 DEF TypeOK, e
    <3> QED
      BY <1>6, <3>1
  <2> QED
    BY <2>1, <2>2
<1>15. Charges'
  <2>1. \A q \in Requests : charged'[q] <= now' /\ (charged'[q] # Never => stage'[q] \notin {"out", "principal", "global"})
    BY <1>1, <1>6 DEF AInv, Charges, OthersStay
  <2>2. ASSUME NEW j \in Keys PROVE Accounted(j)'
    <3>1. Charged(j)' = Charged(j) /\ Charged(j) \in SUBSET Requests /\ Accounted(j)
      BY <1>1 DEF Charged, KeyFor, AInv, Charges
    <3>2. CASE table[j] # None
      <4>1. table'[j] = table[j]
        BY <1>1, <1>2, <3>2 DEF TypeOK
      <4>2. InWindow(table[j])' = InWindow(table[j])
        BY <1>1, <4>1 DEF InWindow
      <4> QED
        BY <1>1, <3>1, <3>2, <4>1, <4>2 DEF Accounted
    <3>3. CASE table[j] = None
      <4>1. Charged(j)' = {}
        BY <3>1, <3>3 DEF Accounted
      <4>2. CASE table'[j] = None
        BY <4>1, <4>2 DEF Accounted
      <4>3. CASE table'[j] # None
        <5>1. PICK c \in Requests : table'[j] = c
          BY <1>11, <4>3 DEF TypeOK
        <5>2. /\ [x \in {} |-> 1] \in [Charged(j)' -> DOMAIN arrivals'[c]]
              /\ Placed(Charged(j)', [x \in {} |-> 1], arrivals'[c], charged')
          BY <4>1 DEF Placed
        <5> QED
          BY <5>1, <5>2, AccountedNext
      <4> QED
        BY <4>2, <4>3
    <3> QED
      BY <3>2, <3>3
  <2> QED
    BY <2>1, <2>2 DEF Charges
<1> QED
  BY <1>7, <1>11, <1>12, <1>13, <1>14, <1>15 DEF AInv, BudgetsConsistent

LEMMA AdmitCharges ==
  ASSUME AInv, NEW r \in Requests, Admit(r), stage'[r] = "active", OthersStay(r)
  PROVE  Charges' /\ arrivals' \in [Requests -> Seq(Nat)] /\ charged' \in [Requests -> Nat \cup {Never}]
<1> USE CapsTyped
<1> DEFINE b == budget[r]
           w == Append(Recent(b), now)
<1>1. /\ stage[r] = "global" /\ arrivals' = [arrivals EXCEPT ![b] = w]
      /\ charged' = [charged EXCEPT ![r] = now]
      /\ UNCHANGED <<budget, table, now>>
  BY DEF Admit
<1>2. b \in Requests /\ table[KeyFor(r)] = b /\ b # None /\ KeyFor(r) \in Keys
  <2>1. r \notin Probes
    BY <1>1 DEF Staged
  <2>2. b \in Requests /\ b # None
    BY <1>1, <2>1, BudgetIs DEF Referring, Admitted
  <2> QED
    BY <2>2, SemaphoreFacts DEF AInv, BudgetsConsistent, BudgetsShared
<1>3. charged[r] = Never /\ now \in Nat
  BY <1>1 DEF AInv, Charges
<1>4. Recent(b) \in Seq(Nat) /\ Len(Recent(b)) \in Nat /\ (Recent(b) = <<>> => InWindow(b) = {})
  BY <1>2, RecentTyped
<1>5. /\ w \in Seq(Nat) /\ DOMAIN w = 1 .. Len(Recent(b)) + 1 /\ w[Len(Recent(b)) + 1] = now
      /\ \A i \in 1 .. Len(Recent(b)) : w[i] = Recent(b)[i]
  BY <1>3, <1>4
<1> HIDE DEF b, w
<1>6. /\ arrivals' \in [Requests -> Seq(Nat)] /\ arrivals'[b] = w
      /\ \A c \in Requests : c # b => arrivals'[c] = arrivals[c]
  BY <1>1, <1>2, <1>5 DEF TypeOK
<1>7. /\ charged' \in [Requests -> Nat \cup {Never}] /\ charged'[r] = now
      /\ \A q \in Requests : q # r => charged'[q] = charged[q]
  BY <1>1, <1>3 DEF TypeOK
<1>8. \A q \in Requests : charged'[q] <= now' /\ (charged'[q] # Never => stage'[q] \notin {"out", "principal", "global"})
  BY <1>1, <1>3, <1>7 DEF AInv, Charges, OthersStay
<1>9. ASSUME NEW j \in Keys PROVE Accounted(j)'
  <2>1. Accounted(j) /\ table'[j] = table[j]
    BY <1>1 DEF AInv, Charges
  <2>2. PICK C \in SUBSET Requests : C = Charged(j)
    BY DEF Charged
  <2>3. CASE j = KeyFor(r)
    <3>1. table[j] = b /\ table[j] # None
      BY <1>2, <2>3
    <3>2. Charged(j)' = C \cup {r} /\ r \notin C
      <4>1. \A q \in Requests : q \in Charged(j)' <=>
              KeyFor(q) = j /\ charged'[q] # Never /\ charged'[q] > now - RateWindow
        BY <1>1 DEF Charged, KeyFor
      <4>2. \A q \in Requests : q \in C <=>
              KeyFor(q) = j /\ charged[q] # Never /\ charged[q] > now - RateWindow
        BY <2>2 DEF Charged
      <4>3. now > now - RateWindow /\ now # Never
        BY <1>3, AdmissionAssumption DEF Never
      <4>4. Charged(j)' \subseteq Requests
        BY DEF Charged
      <4> QED
        BY <1>3, <1>7, <2>3, <4>1, <4>2, <4>3, <4>4
    <3>3. PICK place \in [C -> InWindow(b)] : Placed(C, place, arrivals[b], charged)
      BY <2>1, <2>2, <3>1 DEF Accounted
    <3>4. PICK p \in [C -> 1 .. Len(Recent(b))] : Placed(C, p, Recent(b), charged)
      BY <1>2, <3>3, KeptCharges
    <3> DEFINE n == Len(Recent(b)) + 1
               p2 == [q \in C \cup {r} |-> IF q = r THEN n ELSE p[q]]
    <3>5. \A q \in C : p[q] \in 1 .. Len(Recent(b)) /\ p[q] # n /\ p2[q] = p[q] /\ q # r
      BY <1>4, <3>2
    <3>6. p2 \in [C \cup {r} -> 1 .. n] /\ p2[r] = n
      BY <1>4, <3>5
    <3>7. ASSUME NEW q \in C \cup {r}, NEW s \in C \cup {r}, p2[q] = p2[s] PROVE q = s
      <4>1. CASE q = r \/ s = r
        BY <3>5, <3>6, <3>7, <4>1
      <4>2. CASE q # r /\ s # r
        <5>1. q \in C /\ s \in C /\ p[q] = p[s]
          BY <3>5, <3>7, <4>2
        <5> QED
          BY <3>4, <5>1 DEF Placed
      <4> QED
        BY <4>1, <4>2
    <3>8. ASSUME NEW q \in C \cup {r} PROVE w[p2[q]] = charged'[q]
      <4>1. CASE q = r
        BY <1>5, <1>7, <3>6, <4>1
      <4>2. CASE q # r
        <5>1. q \in C /\ q \in Requests /\ p2[q] = p[q] /\ p[q] \in 1 .. Len(Recent(b))
          BY <3>5, <4>2
        <5>2. w[p[q]] = Recent(b)[p[q]] /\ Recent(b)[p[q]] = charged[q]
          BY <1>5, <3>4, <5>1 DEF Placed
        <5> QED
          BY <1>7, <4>2, <5>1, <5>2
      <4> QED
        BY <4>1, <4>2
    <3> HIDE DEF p2
    <3>9. p2 \in [Charged(j)' -> DOMAIN arrivals'[b]] /\ Placed(Charged(j)', p2, arrivals'[b], charged')
      BY <1>5, <1>6, <3>2, <3>6, <3>7, <3>8 DEF Placed
    <3> QED
      BY <1>2, <2>1, <3>1, <3>9, AccountedNext
  <2>4. CASE j # KeyFor(r)
    <3>1. Charged(j)' = Charged(j)
      <4>1. \A q \in Requests : q \in Charged(j)' <=>
              KeyFor(q) = j /\ charged'[q] # Never /\ charged'[q] > now - RateWindow
        BY <1>1 DEF Charged, KeyFor
      <4>2. \A q \in Requests : q \in Charged(j) <=>
              KeyFor(q) = j /\ charged[q] # Never /\ charged[q] > now - RateWindow
        BY DEF Charged
      <4>3. Charged(j)' \subseteq Requests /\ Charged(j) \subseteq Requests
        BY DEF Charged
      <4> QED
        BY <1>7, <2>4, <4>1, <4>2, <4>3
    <3>2. CASE table[j] = None
      BY <2>1, <3>1, <3>2 DEF Accounted
    <3>3. CASE table[j] # None
      <4>1. PICK c \in Requests : c = table[j]
        BY <3>3 DEF TypeOK
      <4>2. c # b
        BY <1>2, <2>4, <3>3, <4>1 DEF AInv, Created
      <4>3. PICK place \in [C -> InWindow(c)] : Placed(C, place, arrivals[c], charged)
        BY <2>1, <2>2, <3>3, <4>1 DEF Accounted
      <4>4. \A q \in C : charged'[q] = charged[q]
        <5>1. r \notin C
          BY <2>2, <2>4 DEF Charged
        <5> QED
          BY <1>7, <5>1
      <4>5. place \in [Charged(j)' -> DOMAIN arrivals'[c]] /\ Placed(Charged(j)', place, arrivals'[c], charged')
        <5>1. arrivals'[c] = arrivals[c] /\ InWindow(c) \subseteq DOMAIN arrivals[c] /\ Charged(j)' = C
          BY <1>6, <2>2, <3>1, <4>2 DEF InWindow
        <5> QED
          BY <4>3, <4>4, <5>1 DEF Placed
      <4> QED
        BY <2>1, <4>1, <4>5, AccountedNext
    <3> QED
      BY <3>2, <3>3
  <2> QED
    BY <2>3, <2>4
<1> QED
  BY <1>6, <1>7, <1>8, <1>9 DEF Charges

LEMMA AdmitKeeps ==
  ASSUME AInv, NEW r \in Requests, Admit(r)
  PROVE  AInv'
<1> USE CapsTyped
<1>1. /\ stage[r] = "global" /\ acquire[r] = "granted" /\ last_used' = [last_used EXCEPT ![budget[r]] = now]
      /\ queued' = queued - 1 /\ active' = active + 1 /\ stage' = [stage EXCEPT ![r] = "active"]
      /\ SetAcquire(r, "none", {}) /\ due' = [due EXCEPT ![r] = Never]
      /\ UNCHANGED <<cancelled, budget, operations, value, queue, table, references, upstream_active,
                     admission_rejections, rate_rejections, now>>
  BY DEF Admit, semaphoreVars
<1>2. /\ stage'[r] = "active" /\ OthersStay(r) /\ r \notin Probes
  BY <1>1 DEF OthersStay, TypeOK, Staged
<1>3. Charges' /\ arrivals' \in [Requests -> Seq(Nat)] /\ charged' \in [Requests -> Nat \cup {Never}]
  BY <1>2, AdmitCharges
<1>4. budget' = [budget EXCEPT ![r] = budget[r]] /\ budget[r] \in Requests /\ budget[r] # None
  BY <1>1, <1>2, BudgetSame, BudgetIs DEF Referring, Admitted
<1>5. "active" \in Stages /\ "none" \in AcquireStates /\ budget[r] \in Requests \cup {None}
      /\ {} \in SUBSET Semaphores
  BY <1>4 DEF Stages, AcquireStates
<1>6. Deques' /\ queue' \in [Semaphores -> Seq(Requests)]
  <2>1. queue' = queue /\ acquire[r] \in {"none", "spawned", "granted", "abandoned"}
    BY <1>1
  <2> QED
    BY <1>1, <1>4, <1>5, <2>1, QuietDeques
<1>7. TypedRest
  <2>1. due' \in [Requests -> Nat \cup {Never}] /\ last_used' \in [Requests -> Nat]
    BY <1>1, <1>4 DEF TypeOK
  <2> QED
    BY <1>1, <1>3, <1>6, <2>1 DEF TypedRest, TypeOK
<1>8. Fits(r, "active", "none", budget[r])
  BY <1>2, <1>4 DEF Fits, Acquires, Referring, Admitted
<1>9. Gauged(r, stage[r], "active")
  BY <1>1, <1>2 DEF Gauged, Change, Queueing, Inside, TypeOK
<1>10. /\ TypeOK' /\ Staged' /\ GaugesMatch'
       /\ acquire'[r] = "none" /\ budget'[r] = budget[r]
  <2>1. PICK b \in Requests \cup {None} : b = budget[r]
    BY <1>5
  <2>2. /\ budget' = [budget EXCEPT ![r] = b] /\ Fits(r, "active", "none", b)
        /\ SetAcquire(r, "none", {}) /\ stage' = [stage EXCEPT ![r] = "active"]
    BY <1>1, <1>4, <1>8, <2>1
  <2> QED
    BY <1>5, <1>7, <1>9, <2>1, <2>2, StepKeeps, ZenonT(40)
<1>11. PermitsConserved'
  <2>1. GivesUp(r, stage'[r], acquire'[r], budget'[r], {})
    <3>1. GivesUp(r, "active", "none", budget[r], {})
      BY <1>1, <1>2 DEF GivesUp, Takes, InHand, Admitted
    <3> QED
      BY <1>2, <1>10, <3>1
  <2>2. Release({}) /\ acquire[r] # "waiting"
    BY <1>1, NothingReleased
  <2> QED
    BY <1>1, <1>2, <1>5, <1>10, <2>1, <2>2, PermitsStep
<1>12. BudgetsShared'
  BY <1>1 DEF AInv, BudgetsConsistent, BudgetsShared, KeyFor
<1>13. Created'
  BY <1>1, <1>2 DEF AInv, Created, OthersStay, KeyFor, TypeOK
<1> QED
  BY <1>3, <1>6, <1>10, <1>11, <1>12, <1>13 DEF AInv, BudgetsConsistent

LEMMA TickKeeps ==
  ASSUME AInv, Tick
  PROVE  AInv'
<1> USE CapsTyped
<1>1. /\ now' = now + 1 /\ now \in Nat
      /\ UNCHANGED <<stage, acquire, due, cancelled, budget, operations, value, queue, table, references,
                     arrivals, last_used, queued, active, upstream_active, admission_rejections,
                     rate_rejections, charged>>
  BY DEF Tick, requestVars, semaphoreVars, budgetVars, counterVars
<1>2. TypeOK'
  BY <1>1 DEF TypeOK
<1>3. Staged'
  BY <1>1 DEF Staged
<1>4. Deques'
  BY <1>1 DEF AInv, Deques, SemaphoreOf
<1>5. Created' /\ BudgetsShared'
  BY <1>1 DEF AInv, Created, KeyFor, BudgetsConsistent, BudgetsShared
<1>6. GaugesMatch'
  BY <1>1 DEF AInv, BudgetsConsistent, GaugesMatch, InAdmission
<1>7. PermitsConserved'
  <2>1. \A s \in Semaphores : Takers(s)' = Takers(s)
    BY <1>1 DEF Takers, Taker, Holds, InFlight, InAdmission, SemaphoreOf
  <2>2. \A s \in Semaphores : value[s] + Cardinality(Takers(s)) = Limit(s)
    BY PermitsAre DEF AInv, BudgetsConsistent
  <2> QED
    BY <1>1, <1>2, <1>3, <2>1, <2>2, PermitsAreNext
<1>8. \A q \in Requests : charged'[q] <= now' /\ (charged'[q] # Never => stage'[q] \notin {"out", "principal", "global"})
  BY <1>1 DEF AInv, Charges, TypeOK, Never
<1>9. ASSUME NEW j \in Keys PROVE Accounted(j)'
  <2>1. Accounted(j) /\ table'[j] = table[j]
    BY <1>1 DEF AInv, Charges
  <2>2. Charged(j)' \subseteq Charged(j)
    BY <1>1, AdmissionAssumption DEF Charged, KeyFor, TypeOK, Never
  <2>3. CASE table[j] = None
    BY <2>1, <2>2, <2>3 DEF Accounted
  <2>4. CASE table[j] # None
    <3>1. PICK c \in Requests : c = table[j]
      BY <2>4 DEF TypeOK
    <3>2. PICK place \in [Charged(j) -> InWindow(c)] : Placed(Charged(j), place, arrivals[c], charged)
      BY <2>1, <2>4, <3>1 DEF Accounted
    <3> DEFINE p == [q \in Charged(j)' |-> place[q]]
    <3>3. \A q \in Charged(j)' : q \in Charged(j) /\ p[q] = place[q] /\ p[q] \in InWindow(c)
      BY <2>2, <3>2
    <3>4. p \in [Charged(j)' -> DOMAIN arrivals'[c]]
      BY <1>1, <3>3 DEF InWindow
    <3> HIDE DEF p
    <3>5. Placed(Charged(j)', p, arrivals'[c], charged')
      BY <1>1, <3>2, <3>3 DEF Placed
    <3> QED
      BY <2>1, <3>1, <3>4, <3>5, AccountedNext
  <2> QED
    BY <2>3, <2>4
<1> QED
  BY <1>2, <1>3, <1>4, <1>5, <1>6, <1>7, <1>8, <1>9 DEF AInv, BudgetsConsistent, Charges
------------------------------------------------------------------------------
LEMMA InitHolds == Init => AInv
<1> SUFFICES ASSUME Init PROVE AInv
  OBVIOUS
<1> USE AdmissionAssumption
<1>1. TypeOK
  BY DEF Init, TypeOK, Stages, AcquireStates, Cancellations, Never
<1>2. Staged
  BY DEF Init, Staged, Acquires, Referring, Admitted
<1>3. Deques
  BY DEF Init, Deques
<1>4. Created
  BY DEF Init, Created
<1>5. PermitsConserved
  <2>1. \A s \in Semaphores : Takers(s) = {}
    BY DEF Init, Takers, Taker, Holds, InFlight, InAdmission
  <2>2. \A s \in Semaphores : value[s] = Limit(s)
    BY DEF Init, Limit
  <2>3. ASSUME NEW s \in Semaphores PROVE value[s] + Cardinality(Takers(s)) = Limit(s)
    <3>1. Limit(s) \in Nat
      BY SemaphoreFacts
    <3>2. Cardinality(Takers(s)) = 0 /\ value[s] = Limit(s)
      BY <2>1, <2>2, FS_EmptySet
    <3> QED
      BY <3>1, <3>2
  <2> QED
    BY <1>1, <1>2, <2>3, PermitsAre
<1>6. GaugesMatch
  <2>1. /\ {r \in Requests : stage[r] \in {"principal", "global"}} = {}
        /\ {r \in Requests : InAdmission(r)} = {}
        /\ {r \in Requests : stage[r] = "upstream"} = {}
    BY DEF Init, InAdmission
  <2>2. queued = 0 /\ active = 0 /\ upstream_active = 0
    BY DEF Init
  <2> QED
    BY <2>1, <2>2, FS_EmptySet DEF GaugesMatch
<1>7. BudgetsShared
  <2>1. \A b \in Requests : {r \in Requests : budget[r] = b} = {} /\ references[b] = 0
    BY SemaphoreFacts DEF Init
  <2>2. \A r \in Requests : budget[r] = None
    BY DEF Init
  <2> QED
    BY <2>1, <2>2, FS_EmptySet DEF BudgetsShared
<1>8. Charges
  <2>1. \A k \in Keys : Charged(k) = {} /\ table[k] = None
    BY DEF Init, Charged
  <2>2. \A r \in Requests : charged[r] = Never /\ now = 0
    BY DEF Init
  <2> QED
    BY <2>1, <2>2 DEF Charges, Accounted, Never
<1> QED
  BY <1>1, <1>2, <1>3, <1>4, <1>5, <1>6, <1>7, <1>8 DEF AInv, BudgetsConsistent

LEMMA StepHolds == AInv /\ [Next]_vars => AInv'
<1> SUFFICES ASSUME AInv, [Next]_vars PROVE AInv'
  OBVIOUS
<1>1. ASSUME NEW r \in Requests, Run(r) PROVE AInv'
  <2>1. CASE AcquireStarts(r) \/ AcquireResumes(r) \/ AcquireReturns(r) \/ TimerFires(r)
    BY <2>1, AcquireStartsKeeps, AcquireResumesKeeps, AcquireReturnsKeeps, TimerFiresKeeps
  <2>2. CASE PrincipalGranted(r) \/ Admit(r) \/ SlotGranted(r) \/ SlotFails(r)
    BY <2>2, PrincipalGrantedKeeps, AdmitKeeps, SlotGrantedKeeps, SlotFailsKeeps
  <2>3. CASE PrincipalFails(r) \/ GlobalFails(r) \/ RateRejected(r) \/ Leave(r)
    BY <2>3, WaysOutKeep
  <2> QED
    BY <1>1, <2>1, <2>2, <2>3 DEF Run
<1>2. ASSUME NEW r \in Requests, Arrive(r) \/ StartOperation(r) \/ OperationEnds(r) \/ Leave(r) \/ Cancel(r)
      PROVE  AInv'
  BY <1>2, ArriveKeeps, StartOperationKeeps, OperationEndsKeeps, WaysOutKeep, CancelKeeps
<1>3. CASE UNCHANGED vars
  <2>1. UNCHANGED <<stage, acquire, due, cancelled, budget, operations, value, queue, table, references,
                    arrivals, last_used, queued, active, upstream_active, admission_rejections,
                    rate_rejections, charged, now>>
    BY <1>3 DEF vars, requestVars, semaphoreVars, budgetVars, counterVars
  <2>2. TypeOK' /\ Staged'
    BY <2>1 DEF AInv, TypeOK, Staged
  <2>3. Deques' /\ Created' /\ BudgetsShared'
    BY <2>1 DEF AInv, Deques, SemaphoreOf, Created, KeyFor, BudgetsConsistent, BudgetsShared
  <2>4. GaugesMatch'
    BY <2>1 DEF AInv, BudgetsConsistent, GaugesMatch, InAdmission
  <2>5. PermitsConserved'
    <3>1. \A s \in Semaphores : Takers(s)' = Takers(s)
      BY <2>1 DEF Takers, Taker, Holds, InFlight, InAdmission, SemaphoreOf
    <3>2. \A s \in Semaphores : value[s] + Cardinality(Takers(s)) = Limit(s)
      BY PermitsAre DEF AInv, BudgetsConsistent
    <3> QED
      BY <2>1, <2>2, <3>1, <3>2, PermitsAreNext
  <2>6. Charges'
    <3>1. ASSUME NEW k \in Keys PROVE Accounted(k)'
      <4>1. Accounted(k)
        BY DEF AInv, Charges
      <4>2. Charged(k)' = Charged(k) /\ InWindow(table[k])' = InWindow(table[k])
        BY <2>1 DEF Charged, InWindow, KeyFor
      <4> QED
        BY <2>1, <4>1, <4>2 DEF Accounted
    <3> QED
      BY <2>1, <3>1 DEF AInv, Charges
  <2> QED
    BY <2>2, <2>3, <2>4, <2>5, <2>6 DEF AInv, BudgetsConsistent
<1> QED
  BY <1>1, <1>2, <1>3, TickKeeps DEF Next

LEMMA Inductive == Spec => []AInv
BY InitHolds, StepHolds, PTL DEF Spec

(* admission.AdmissionController and BoundedUpstream: what a request is doing, its       *)
(* acquisition and every account of the controller stay well formed; no permit count,    *)
(* reference count or gauge ever goes below zero.                                        *)
THEOREM AdmissionTyped == Spec => []TypeOK
<1>1. AInv => TypeOK
  BY DEF AInv
<1> QED
  BY <1>1, Inductive, PTL

(* AdmissionController.admit, _acquire and upstream_slot: no permit is lost or invented by *)
(* a time-out or a cancellation, wherever it meets an acquisition; the gauges count the     *)
(* requests that are there; and all the requests of a key share its one budget object.       *)
THEOREM BudgetsStayConsistent == Spec => []BudgetsConsistent
<1>1. AInv => BudgetsConsistent
  BY DEF AInv
<1> QED
  BY <1>1, Inductive, PTL

(* policy.md "ADMISSION_LIMIT bounds full downstream request lifetimes and CONCURRENCY_LIMIT *)
(* bounds one upstream operation at a time": the limits hold at every moment, a key's        *)
(* before and behind the global gate, through hand-offs, abandoned acquisitions and budget   *)
(* objects that are pruned and made again.                                                   *)
THEOREM LimitsAlwaysHold == Spec => []LimitsHold
<1>1. AInv => LimitsHold
  <2> SUFFICES ASSUME AInv PROVE LimitsHold
    OBVIOUS
  <2> USE CapsTyped
  <2>1. ASSUME NEW s \in Semaphores, NEW X, X \subseteq Takers(s)
        PROVE  Cardinality(X) <= Limit(s)
    <3>1. value[s] + Cardinality(Takers(s)) = Limit(s) /\ value[s] \in Nat
      BY PermitsAre DEF AInv, BudgetsConsistent, TypeOK
    <3>2. IsFiniteSet(Takers(s)) /\ Cardinality(Takers(s)) \in Nat
      BY TakersCounted
    <3>3. IsFiniteSet(X) /\ Cardinality(X) <= Cardinality(Takers(s))
      BY <2>1, <3>2, FS_Subset
    <3>4. Cardinality(X) \in Nat
      BY <3>3, FS_CardinalityType
    <3> QED
      BY <3>1, <3>2, <3>3, <3>4
  <2>2. Cardinality({r \in Requests : InAdmission(r)}) <= AdmissionLimit
    <3>1. {r \in Requests : InAdmission(r)} \subseteq Takers(AdmissionSem)
      BY DEF Takers, Taker, Holds
    <3>2. Limit(AdmissionSem) = AdmissionLimit /\ AdmissionSem \in Semaphores
      BY SemaphoreFacts DEF Limit
    <3> QED
      BY <2>1, <3>1, <3>2
  <2>3. Cardinality({r \in Requests : stage[r] = "upstream"}) <= ConcurrencyLimit
    <3>1. {r \in Requests : stage[r] = "upstream"} \subseteq Takers(UpstreamSem)
      BY DEF Takers, Taker, Holds
    <3>2. Limit(UpstreamSem) = ConcurrencyLimit /\ UpstreamSem \in Semaphores
      BY SemaphoreFacts DEF Limit
    <3> QED
      BY <2>1, <3>1, <3>2
  <2>4. ASSUME NEW k \in Keys
        PROVE  Cardinality({r \in Requests : KeyFor(r) = k /\ (stage[r] = "global" \/ InAdmission(r))})
                 <= PrincipalLimit
    <3> DEFINE X == {r \in Requests : KeyFor(r) = k /\ (stage[r] = "global" \/ InAdmission(r))}
    <3>1. ASSUME NEW r \in X
          PROVE  budget[r] \in Requests /\ budget[r] = table[k] /\ Taker(r, budget[r])
      <4>0. r \in Requests /\ KeyFor(r) = k
        BY <3>1
      <4>1. stage[r] = "global" \/ InAdmission(r)
        BY <3>1
      <4> HIDE DEF X
      <4>2. r \notin Probes /\ stage[r] \in Referring
        BY <4>0, <4>1 DEF Staged, InAdmission, Referring, Admitted
      <4>3. budget[r] \in Requests /\ budget[r] # None
        BY <4>0, <4>2, BudgetIs
      <4>4. budget[r] = table[k]
        BY <4>0, <4>3 DEF AInv, BudgetsConsistent, BudgetsShared
      <4>5. Holds(r, budget[r])
        BY <4>1 DEF Holds
      <4>6. Taker(r, budget[r])
        BY <4>5 DEF Taker
      <4> QED
        BY <4>3, <4>4, <4>6
    <3> SUFFICES Cardinality(X) <= PrincipalLimit
      OBVIOUS
    <3> HIDE DEF X
    <3>2. CASE X = {}
      <4>1. Cardinality(X) = 0
        BY <3>2, FS_EmptySet
      <4>2. PrincipalLimit \in Nat \ {0}
        BY AdmissionAssumption
      <4> QED
        BY <4>1, <4>2
    <3>3. CASE X # {}
      <4>1. PICK b : b = table[k]
        OBVIOUS
      <4>2. b \in Requests
        BY <3>1, <3>3, <4>1
      <4>3. X \subseteq Takers(b)
        BY <3>1, <4>1 DEF Takers, X
      <4>4. b \in Semaphores /\ Limit(b) = PrincipalLimit
        BY <4>2, SemaphoreFacts DEF Limit
      <4> QED
        BY <2>1, <4>3, <4>4
    <3> QED
      BY <3>2, <3>3
  <2> QED
    BY <2>2, <2>3, <2>4 DEF LimitsHold
<1> QED
  BY <1>1, Inductive, PTL
------------------------------------------------------------------------------
(* Admission implements its gate.                                                    *)
PhaseOf(r, st) ==
  IF st \in Queueing THEN "queued" ELSE IF st = "upstream" THEN "working"
  ELSE IF st = "slot" /\ r \in Probes THEN "out"
  ELSE IF st \in {"active", "slot", "leaving"} /\ r \notin Probes THEN "admitted" ELSE st

phase == [r \in Requests |-> Phase(r)]

LEMMA PhaseIs == \A r \in Requests : phase[r] = PhaseOf(r, stage[r])
BY DEF phase, Phase, PhaseOf, Queueing

LEMMA PhaseNext == (\A r \in Requests : phase[r] = PhaseOf(r, stage[r]))'
BY PhaseIs, PTL

LEMMA PhaseMoves ==
  ASSUME AInv, NEW r \in Requests, NEW st, stage' = [stage EXCEPT ![r] = st],
         NEW from, PhaseOf(r, stage[r]) \in from
  PROVE  Gate!Move(r, from, PhaseOf(r, st))
<1>1. \A q \in Requests : stage'[q] = IF q = r THEN st ELSE stage[q]
  BY CapsTyped
<1>2. \A q \in Requests : phase'[q] = IF q = r THEN PhaseOf(r, st) ELSE phase[q]
  BY <1>1, PhaseIs, PhaseNext
<1>3. DOMAIN phase = Requests /\ DOMAIN phase' = Requests
      /\ phase = [q \in Requests |-> phase[q]] /\ phase' = [q \in Requests |-> phase'[q]]
  BY DEF phase
<1>4. phase' = [phase EXCEPT ![r] = PhaseOf(r, st)]
  BY <1>2, <1>3
<1> QED
  BY <1>4, PhaseIs DEF Gate!Move, phase

(* The gate counts as this module does.                                               *)
LEMMA SameCount == ASSUME NEW S PROVE Gate!Cardinality(S) = Cardinality(S)
BY DEF Gate!Cardinality, Cardinality

(* Whoever has the last permit of a semaphore finds it below its limit.                *)
LEMMA BelowLimit ==
  ASSUME AInv, NEW s \in Semaphores, NEW r \in Requests, Taker(r, s),
         NEW X, X \subseteq Takers(s) \ {r}
  PROVE  Cardinality(X) < Limit(s)
<1>1. /\ value[s] + Cardinality(Takers(s)) = Limit(s) /\ IsFiniteSet(Takers(s)) /\ value[s] \in Nat
  BY CapsTyped, PermitsAre, TakersCounted DEF AInv, BudgetsConsistent, TypeOK
<1>2. r \in Takers(s)
  BY DEF Takers
<1>3. /\ IsFiniteSet(Takers(s) \ {r}) /\ Cardinality(Takers(s) \ {r}) = Cardinality(Takers(s)) - 1
      /\ Cardinality(Takers(s)) \in Nat \ {0}
  BY <1>1, <1>2, CountRemoved
<1>4. Cardinality(X) <= Cardinality(Takers(s) \ {r}) /\ IsFiniteSet(X)
  BY <1>3, FS_Subset
<1>5. Cardinality(X) \in Nat
  BY <1>4, FS_CardinalityType
<1> QED
  BY <1>1, <1>3, <1>4, <1>5

LEMMA AdmitEnters ==
  ASSUME AInv, NEW r \in Requests, Admit(r)
  PROVE  Gate!Enter(r)
<1> USE CapsTyped
<1> DEFINE b == budget[r]
           k == KeyFor(r)
<1>1. /\ stage[r] = "global" /\ acquire[r] = "granted" /\ ~ RateExceeded(b)
      /\ stage' = [stage EXCEPT ![r] = "active"]
      /\ charged' = [charged EXCEPT ![r] = now] /\ now' = now
  BY DEF Admit
<1>2. r \notin Probes /\ b \in Requests /\ b # None /\ k \in Keys /\ table[k] = b
  <2>1. r \notin Probes
    BY <1>1 DEF Staged
  <2>2. b \in Requests /\ b # None
    BY <1>1, <2>1, BudgetIs DEF Referring, Admitted
  <2> QED
    BY <2>1, <2>2, SemaphoreFacts DEF AInv, BudgetsConsistent, BudgetsShared
<1> HIDE DEF b
<1>3. Gate!Move(r, {"queued"}, "admitted")
  <2>1. PhaseOf(r, "active") = "admitted" /\ PhaseOf(r, "global") = "queued"
    BY <1>2 DEF PhaseOf, Queueing
  <2>2. /\ stage' = [stage EXCEPT ![r] = "active"] /\ PhaseOf(r, stage[r]) \in {"queued"}
    BY <1>1, <2>1
  <2>3. Gate!Move(r, {"queued"}, PhaseOf(r, "active"))
    BY <2>2, PhaseMoves
  <2> QED
    BY <2>1, <2>3
<1>4. \A q \in Gate!Admitted : q \in Requests /\ q \notin Probes /\ q # r /\ stage[q] \in Inside
  <2>1. \A q \in Gate!Admitted : q \in Requests /\ q \notin Probes /\ phase[q] \in {"admitted", "working"}
    BY DEF Gate!Admitted, phase
  <2>2. \A q \in Requests : stage[q] \in Stages
    BY DEF TypeOK
  <2>3. \A q \in Requests : PhaseOf(q, stage[q]) \in {"admitted", "working"} => stage[q] \in Inside
    BY <2>2 DEF PhaseOf, Stages, Inside, Queueing
  <2>4. \A q \in Gate!Admitted : stage[q] \in Inside
    BY <2>1, <2>3, PhaseIs
  <2> QED
    BY <1>1, <2>1, <2>4 DEF Inside
<1>5. Cardinality(Gate!Admitted) < AdmissionLimit
  <2>1. Taker(r, AdmissionSem)
    BY <1>1, <1>2, SemaphoreFacts, TakenIs DEF Takes, InHand, Admitted
  <2>2. \A q \in Gate!Admitted : Taker(q, AdmissionSem)
    BY <1>4, SemaphoreFacts, TakenIs DEF Takes, Inside, Admitted
  <2>3. Gate!Admitted \subseteq Takers(AdmissionSem) \ {r}
    BY <1>4, <2>2 DEF Takers
  <2>4. Cardinality(Gate!Admitted) < Limit(AdmissionSem)
    BY <2>1, <2>3, SemaphoreFacts, BelowLimit
  <2> QED
    BY <2>4 DEF Limit
<1>6. Cardinality(Gate!AdmittedFor(k)) < PrincipalLimit
  <2>1. b \in Semaphores /\ Limit(b) = PrincipalLimit
    BY <1>2, SemaphoreFacts DEF Limit
  <2>2. Taker(r, b)
    BY <1>1, <2>1, TakenIs DEF Takes, Admitted, b
  <2>3. \A q \in Gate!AdmittedFor(k) : q \in Gate!Admitted /\ KeyFor(q) = k
    BY DEF Gate!AdmittedFor, Gate!Admitted
  <2>4. ASSUME NEW q \in Gate!AdmittedFor(k) PROVE q \in Requests \ {r} /\ Taker(q, b)
    <3>1. q \in Requests \ {r} /\ q \notin Probes /\ stage[q] \in Inside /\ KeyFor(q) = k
      BY <1>4, <2>3
    <3>2. budget[q] # None
      BY <3>1 DEF Staged, Referring, Admitted, Inside
    <3>3. budget[q] = b
      BY <1>2, <3>1, <3>2 DEF AInv, BudgetsConsistent, BudgetsShared
    <3> QED
      BY <2>1, <3>1, <3>3, TakenIs DEF Takes, Inside, Admitted
  <2>5. Gate!AdmittedFor(k) \subseteq Takers(b) \ {r}
    BY <2>4 DEF Takers
  <2> QED
    BY <2>1, <2>2, <2>5, BelowLimit
<1>7. Cardinality(Gate!ChargedIn(k, now)) < RateLimit
  <2>1. Gate!ChargedIn(k, now) \subseteq Charged(k)
    BY AdmissionAssumption DEF Gate!ChargedIn, Charged, Gate!Never, Never, TypeOK
  <2>2. Charged(k) \subseteq Gate!ChargedIn(k, now)
    BY AdmissionAssumption DEF Gate!ChargedIn, Charged, Gate!Never, Never, TypeOK, AInv, Charges
  <2>3. Cardinality(Charged(k)) <= Len(Recent(b)) /\ Cardinality(Charged(k)) \in Nat
    BY <1>2, ChargesFit
  <2>4. Len(Recent(b)) < RateLimit
    BY <1>1, <1>2, RecentTyped, AdmissionAssumption DEF RateExceeded
  <2>5. Gate!ChargedIn(k, now) = Charged(k)
    BY <2>1, <2>2
  <2>6. Cardinality(Charged(k)) < RateLimit
    BY <1>2, <2>3, <2>4, RecentTyped, AdmissionAssumption
  <2> QED
    BY <2>5, <2>6
<1> QED
  BY <1>1, <1>3, <1>5, <1>6, <1>7, SameCount DEF Gate!Enter

LEMMA SlotOperates ==
  ASSUME AInv, NEW r \in Requests, SlotGranted(r)
  PROVE  Gate!Operate(r)
<1> USE CapsTyped
<1>1. /\ stage[r] = "slot" /\ acquire[r] = "granted" /\ stage' = [stage EXCEPT ![r] = "upstream"]
      /\ UNCHANGED <<charged, now>>
  BY DEF SlotGranted
<1>2. Gate!Move(r, IF r \in Probes THEN {"out"} ELSE {"admitted"}, "working")
  <2>1. PhaseOf(r, "upstream") = "working"
        /\ PhaseOf(r, stage[r]) \in IF r \in Probes THEN {"out"} ELSE {"admitted"}
    BY <1>1 DEF PhaseOf, Queueing
  <2>2. Gate!Move(r, IF r \in Probes THEN {"out"} ELSE {"admitted"}, PhaseOf(r, "upstream"))
    BY <1>1, <2>1, PhaseMoves
  <2> QED
    BY <2>1, <2>2
<1>3. Cardinality(Gate!Working) < ConcurrencyLimit
  <2>1. Taker(r, UpstreamSem)
    BY <1>1, SemaphoreFacts, TakenIs DEF Takes, InHand
  <2>2. \A q \in Gate!Working : q \in Requests /\ phase[q] = "working"
    BY DEF Gate!Working, phase
  <2>3. \A q \in Requests : stage[q] \in Stages /\ (PhaseOf(q, stage[q]) = "working" => stage[q] = "upstream")
    BY DEF PhaseOf, Stages, Queueing, TypeOK
  <2>4. \A q \in Gate!Working : q \in Requests /\ stage[q] = "upstream"
    BY <2>2, <2>3, PhaseIs
  <2>5. \A q \in Gate!Working : q # r /\ Taker(q, UpstreamSem)
    BY <1>1, <2>4, SemaphoreFacts, TakenIs DEF Takes
  <2>6. Gate!Working \subseteq Takers(UpstreamSem) \ {r}
    BY <2>4, <2>5 DEF Takers
  <2>7. Cardinality(Gate!Working) < Limit(UpstreamSem)
    BY <2>1, <2>6, SemaphoreFacts, BelowLimit
  <2> QED
    BY <2>7, SemaphoreFacts DEF Limit
<1> QED
  BY <1>1, <1>2, <1>3, SameCount DEF Gate!Operate

(* A step that the gate does not see, or that is one of its other actions.             *)
LEMMA OthersMove ==
  ASSUME AInv, NEW r \in Requests, NEW st, stage' = [stage EXCEPT ![r] = st], UNCHANGED <<charged, now>>,
         \/ PhaseOf(r, st) = PhaseOf(r, stage[r])
         \/ r \notin Probes /\ PhaseOf(r, stage[r]) = "out" /\ PhaseOf(r, st) = "queued"
         \/ PhaseOf(r, stage[r]) = "queued" /\ PhaseOf(r, st) = "done"
         \/ PhaseOf(r, stage[r]) = "working" /\ PhaseOf(r, st) = IF r \in Probes THEN "done" ELSE "admitted"
         \/ PhaseOf(r, stage[r]) = (IF r \in Probes THEN "out" ELSE "admitted") /\ PhaseOf(r, st) = "done"
  PROVE  [Gate!GateNext]_(Gate!gateVars)
<1> DEFINE f == PhaseOf(r, stage[r])
           t == PhaseOf(r, st)
<1>1. \A from : f \in from => Gate!Move(r, from, t)
  BY PhaseMoves
<1> HIDE DEF f, t
<1>2. CASE t = f
  <2>1. phase' = [phase EXCEPT ![r] = f]
    BY <1>1, <1>2 DEF Gate!Move, phase
  <2>2. phase[r] = f /\ phase = [q \in Requests |-> phase[q]]
    BY PhaseIs DEF f, phase
  <2>3. phase' = phase
    BY <2>1, <2>2
  <2>4. UNCHANGED Gate!gateVars
    BY <2>3 DEF Gate!gateVars, phase
  <2> QED
    BY <2>4
<1>3. CASE r \notin Probes /\ f = "out" /\ t = "queued"
  <2>1. Gate!Queue(r)
    BY <1>1, <1>3 DEF Gate!Queue
  <2> QED
    BY <2>1 DEF Gate!GateNext
<1>4. CASE f = "queued" /\ t = "done"
  <2>1. Gate!TurnAway(r)
    BY <1>1, <1>4 DEF Gate!TurnAway
  <2> QED
    BY <2>1 DEF Gate!GateNext
<1>5. CASE f = "working" /\ t = IF r \in Probes THEN "done" ELSE "admitted"
  <2>1. Gate!EndOperation(r)
    BY <1>1, <1>5 DEF Gate!EndOperation
  <2> QED
    BY <2>1 DEF Gate!GateNext
<1>6. CASE f = (IF r \in Probes THEN "out" ELSE "admitted") /\ t = "done"
  <2>1. Gate!Move(r, IF r \in Probes THEN {"out"} ELSE {"admitted"}, "done")
    BY <1>1, <1>6
  <2>2. Gate!Depart(r)
    BY <2>1 DEF Gate!Depart
  <2> QED
    BY <2>2 DEF Gate!GateNext
<1> QED
  BY <1>2, <1>3, <1>4, <1>5, <1>6 DEF f, t

LEMMA StepImplements == AInv /\ [Next]_vars => [Gate!GateNext]_(Gate!gateVars)
<1> SUFFICES ASSUME AInv, [Next]_vars PROVE [Gate!GateNext]_(Gate!gateVars)
  OBVIOUS
<1> USE CapsTyped
<1>1. ASSUME UNCHANGED <<stage, charged, now>> PROVE [Gate!GateNext]_(Gate!gateVars)
  <2>1. phase' = phase
    BY <1>1 DEF phase, Phase
  <2>2. UNCHANGED Gate!gateVars
    BY <1>1, <2>1 DEF Gate!gateVars, phase
  <2> QED
    BY <2>2
<1>2. ASSUME NEW r \in Requests,
             AcquireStarts(r) \/ AcquireResumes(r) \/ AcquireReturns(r) \/ TimerFires(r)
      PROVE  [Gate!GateNext]_(Gate!gateVars)
  <2>1. UNCHANGED <<stage, charged, now>>
    BY <1>2 DEF AcquireStarts, AcquireResumes, AcquireReturns, TimerFires
  <2> QED
    BY <1>1, <2>1
<1>3. ASSUME NEW r \in Requests, Admit(r) \/ SlotGranted(r)
      PROVE  [Gate!GateNext]_(Gate!gateVars)
  <2>1. Gate!Enter(r) \/ Gate!Operate(r)
    BY <1>3, AdmitEnters, SlotOperates
  <2> QED
    BY <2>1 DEF Gate!GateNext
<1>4. ASSUME NEW r \in Requests, Arrive(r)
      PROVE  [Gate!GateNext]_(Gate!gateVars)
  <2>1. /\ stage[r] = "out" /\ r \notin Probes /\ stage' = [stage EXCEPT ![r] = "principal"]
        /\ UNCHANGED <<charged, now>>
    BY <1>4 DEF Arrive, Await
  <2>2. PhaseOf(r, stage[r]) = "out" /\ PhaseOf(r, "principal") = "queued"
    BY <2>1 DEF PhaseOf, Queueing
  <2> QED
    BY <2>1, <2>2, OthersMove
<1>5. ASSUME NEW r \in Requests, PrincipalGranted(r)
      PROVE  [Gate!GateNext]_(Gate!gateVars)
  <2>1. stage[r] = "principal" /\ stage' = [stage EXCEPT ![r] = "global"] /\ UNCHANGED <<charged, now>>
    BY <1>5 DEF PrincipalGranted, Await
  <2>2. PhaseOf(r, "global") = PhaseOf(r, stage[r])
    BY <2>1 DEF PhaseOf, Queueing
  <2> QED
    BY <2>1, <2>2, OthersMove
<1>6. ASSUME NEW r \in Requests, PrincipalFails(r) \/ GlobalFails(r) \/ RateRejected(r)
      PROVE  [Gate!GateNext]_(Gate!gateVars)
  <2>1. stage[r] \in Queueing /\ stage' = [stage EXCEPT ![r] = "done"] /\ UNCHANGED <<charged, now>>
    BY <1>6 DEF PrincipalFails, GlobalFails, RateRejected, Exit, Queueing
  <2>2. PhaseOf(r, stage[r]) = "queued" /\ PhaseOf(r, "done") = "done"
    BY <2>1 DEF PhaseOf, Queueing
  <2> QED
    BY <2>1, <2>2, OthersMove
<1>7. ASSUME NEW r \in Requests, Leave(r)
      PROVE  [Gate!GateNext]_(Gate!gateVars)
  <2>1. stage[r] \in {"active", "leaving"} /\ stage' = [stage EXCEPT ![r] = "done"] /\ UNCHANGED <<charged, now>>
    BY <1>7 DEF Leave, Exit
  <2>2. r \notin Probes
    BY <2>1 DEF Staged
  <2>3. PhaseOf(r, stage[r]) = "admitted" /\ PhaseOf(r, "done") = "done"
    BY <2>1, <2>2 DEF PhaseOf, Queueing
  <2> QED
    BY <2>1, <2>2, <2>3, OthersMove
<1>8. ASSUME NEW r \in Requests, StartOperation(r)
      PROVE  [Gate!GateNext]_(Gate!gateVars)
  <2>1. /\ stage[r] = IF r \in Probes THEN "out" ELSE "active"
        /\ stage' = [stage EXCEPT ![r] = "slot"] /\ UNCHANGED <<charged, now>>
    BY <1>8 DEF StartOperation, Await
  <2>2. PhaseOf(r, "slot") = PhaseOf(r, stage[r])
    BY <2>1 DEF PhaseOf, Queueing
  <2> QED
    BY <2>1, <2>2, OthersMove
<1>9. ASSUME NEW r \in Requests, SlotFails(r)
      PROVE  [Gate!GateNext]_(Gate!gateVars)
  <2>1. stage[r] = "slot" /\ stage' = [stage EXCEPT ![r] = Unwound(r)] /\ UNCHANGED <<charged, now>>
    BY <1>9 DEF SlotFails
  <2>2. \/ PhaseOf(r, Unwound(r)) = PhaseOf(r, stage[r])
        \/ PhaseOf(r, stage[r]) = (IF r \in Probes THEN "out" ELSE "admitted") /\ PhaseOf(r, Unwound(r)) = "done"
    BY <2>1 DEF PhaseOf, Queueing, Unwound
  <2> QED
    BY <2>1, <2>2, OthersMove
<1>10. ASSUME NEW r \in Requests, OperationEnds(r)
       PROVE  [Gate!GateNext]_(Gate!gateVars)
  <2>1. PICK st : /\ stage' = [stage EXCEPT ![r] = st]
                  /\ IF r \in Probes THEN st = "done" ELSE st \in {"leaving", "active"}
    BY <1>10 DEF OperationEnds, Unwound
  <2>2. stage[r] = "upstream" /\ UNCHANGED <<charged, now>>
    BY <1>10 DEF OperationEnds
  <2>3. PhaseOf(r, stage[r]) = "working" /\ PhaseOf(r, st) = IF r \in Probes THEN "done" ELSE "admitted"
    BY <2>1, <2>2 DEF PhaseOf, Queueing
  <2> QED
    BY <2>1, <2>2, <2>3, OthersMove
<1>11. ASSUME NEW r \in Requests, Cancel(r)
       PROVE  [Gate!GateNext]_(Gate!gateVars)
  <2>1. r \notin Probes /\ UNCHANGED <<charged, now>>
    BY <1>11 DEF Cancel
  <2>2. CASE stage[r] = "active"
    <3>1. stage' = [stage EXCEPT ![r] = "leaving"]
      BY <1>11, <2>2 DEF Cancel
    <3>2. PhaseOf(r, "leaving") = PhaseOf(r, stage[r])
      BY <2>1, <2>2 DEF PhaseOf, Queueing
    <3> QED
      BY <2>1, <3>1, <3>2, OthersMove
  <2>3. CASE stage[r] # "active"
    BY <1>1, <1>11, <2>1, <2>3 DEF Cancel
  <2> QED
    BY <2>2, <2>3
<1>12. CASE Tick
  <2>1. stage' = stage /\ charged' = charged /\ now < LastTick /\ now' = now + 1
    BY <1>12 DEF Tick, requestVars
  <2>2. phase' = phase
    BY <2>1 DEF phase, Phase
  <2>3. Gate!Pass
    BY <2>1, <2>2 DEF Gate!Pass, phase
  <2> QED
    BY <2>3 DEF Gate!GateNext
<1>13. CASE UNCHANGED vars
  <2>1. UNCHANGED <<stage, charged, now>>
    BY <1>13 DEF vars, requestVars
  <2> QED
    BY <1>1, <2>1
<1> QED
  <2>1. ASSUME NEW r \in Requests, Run(r) PROVE [Gate!GateNext]_(Gate!gateVars)
    BY <1>2, <1>3, <1>5, <1>6, <1>7, <1>9, <2>1 DEF Run
  <2>2. ASSUME NEW r \in Requests,
               Arrive(r) \/ StartOperation(r) \/ OperationEnds(r) \/ Leave(r) \/ Cancel(r)
        PROVE  [Gate!GateNext]_(Gate!gateVars)
    BY <1>4, <1>7, <1>8, <1>10, <1>11, <2>2
  <2> QED
    BY <1>12, <1>13, <2>1, <2>2 DEF Next

LEMMA InitImplements == Init => Gate!GateInit
<1> SUFFICES ASSUME Init PROVE Gate!GateInit
  OBVIOUS
<1>1. \A r \in Requests : Phase(r) = "out"
  BY DEF Init, Phase
<1> QED
  BY <1>1 DEF Init, Gate!GateInit, Gate!Never, Never

(* AdmissionController and BoundedUpstream implement the gate they promise: the settings     *)
(* bound the admitted requests in all and of every budget key, the requests charged to a     *)
(* key in a rate window, and the upstream operations, although a budget object may be         *)
(* pruned and created anew and any acquisition may be abandoned at any of its steps.          *)
THEOREM AdmissionImplementsGate == Spec => ImplementsGate
BY InitImplements, StepImplements, Inductive, PTL DEF Spec, ImplementsGate, Gate!GateSpec
==============================================================================
