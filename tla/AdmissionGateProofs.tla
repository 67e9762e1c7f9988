------------------------- MODULE AdmissionGateProofs -------------------------
(***************************************************************************)
(* The rate bound of AdmissionGate, for every set of requests and keys and *)
(* every setting.  A step adds at most one request to a window, and only   *)
(* where the count is below its limit.                                     *)
(***************************************************************************)
EXTENDS AdmissionGate, FiniteSetTheorems, TLAPS

\* Nobody is charged in the future.
ChargesPast == \A r \in Requests : charged[r] <= now

-----------------------------------------------------------------------------
LEMMA CountGrows ==
  ASSUME NEW S, NEW T, NEW x, IsFiniteSet(S), T \subseteq S \cup {x}
  PROVE  Cardinality(T) <= Cardinality(S) + 1
<1>1. IsFiniteSet(S \cup {x}) /\ Cardinality(S \cup {x}) <= Cardinality(S) + 1
  <2>1. Cardinality(S) \in Nat
    BY FS_CardinalityType
  <2>2. /\ IsFiniteSet(S \cup {x})
        /\ \/ Cardinality(S \cup {x}) = Cardinality(S)
           \/ Cardinality(S \cup {x}) = Cardinality(S) + 1
    BY FS_AddElement
  <2> QED
    BY <2>1, <2>2
<1>2. Cardinality(T) <= Cardinality(S \cup {x})
  BY <1>1, FS_Subset
<1>3. /\ Cardinality(S) \in Nat /\ Cardinality(S \cup {x}) \in Nat
      /\ IsFiniteSet(T) /\ Cardinality(T) \in Nat
  BY <1>1, FS_CardinalityType, FS_Subset
<1> QED
  BY <1>1, <1>2, <1>3

LEMMA CountShrinks ==
  ASSUME NEW S, NEW T, NEW n \in Nat, IsFiniteSet(S), T \subseteq S, Cardinality(S) <= n
  PROVE  Cardinality(T) <= n
<1>1. IsFiniteSet(T) /\ Cardinality(T) <= Cardinality(S)
  BY FS_Subset
<1>2. Cardinality(S) \in Nat /\ Cardinality(T) \in Nat
  BY <1>1, FS_CardinalityType
<1> QED
  BY <1>1, <1>2

LEMMA ChargedFinite == \A key, time : IsFiniteSet(ChargedIn(key, time))
<1>1. IsFiniteSet(Requests)
  BY GateAssumption
<1>2. \A S : S \subseteq Requests => IsFiniteSet(S)
  BY <1>1, FS_Subset
<1>3. \A key, time : ChargedIn(key, time) \subseteq Requests
  BY DEF ChargedIn
<1> QED
  BY <1>2, <1>3

-----------------------------------------------------------------------------
\* AdmissionGate: every variable keeps its type.
THEOREM GateTyped == GateSpec => []GateTypeOK
<1>1. GateInit => GateTypeOK
  BY DEF GateInit, GateTypeOK, Phases, Never
<1>2. GateTypeOK /\ [GateNext]_gateVars => GateTypeOK'
  <2> SUFFICES ASSUME GateTypeOK, [GateNext]_gateVars
               PROVE  GateTypeOK'
    OBVIOUS
  <2>1. CASE Pass
    BY <2>1 DEF GateTypeOK, Pass
  <2>2. ASSUME NEW r \in Requests,
               Queue(r) \/ Enter(r) \/ TurnAway(r) \/ Operate(r) \/ EndOperation(r) \/ Depart(r)
        PROVE  GateTypeOK'
    BY <2>2 DEF GateTypeOK, Phases, Move, Queue, Enter, TurnAway, Operate, EndOperation, Depart
  <2>3. CASE UNCHANGED gateVars
    BY <2>3 DEF GateTypeOK, gateVars
  <2> QED
    BY <2>1, <2>2, <2>3 DEF GateNext
<1> QED
  BY <1>1, <1>2, PTL DEF GateSpec

LEMMA ChargesStayPast ==
  ASSUME GateTypeOK, ChargesPast, [GateNext]_gateVars
  PROVE  ChargesPast'
<1>1. CASE Pass
  BY <1>1 DEF GateTypeOK, ChargesPast, Pass, Never
<1>2. ASSUME NEW r \in Requests,
             Queue(r) \/ Enter(r) \/ TurnAway(r) \/ Operate(r) \/ EndOperation(r) \/ Depart(r)
      PROVE  ChargesPast'
  BY <1>2 DEF GateTypeOK, ChargesPast, Queue, Enter, TurnAway, Operate, EndOperation, Depart
<1>3. CASE UNCHANGED gateVars
  BY <1>3 DEF ChargesPast, gateVars
<1> QED
  BY <1>1, <1>2, <1>3 DEF GateNext

-----------------------------------------------------------------------------
\* _charge_rate: no rate window of a budget key, past or present, exceeds the limit.
THEOREM RateIsBounded == GateSpec => []RateBounded
<1> DEFINE Inv == ChargesPast /\ RateBounded
<1>1. GateInit => Inv
  <2> SUFFICES ASSUME GateInit PROVE Inv
    OBVIOUS
  <2>1. \A key, time : ChargedIn(key, time) = {}
    BY DEF GateInit, ChargedIn
  <2> QED
    BY <2>1, FS_EmptySet, GateAssumption DEF GateInit, ChargesPast, RateBounded, Never
<1>2. GateTypeOK /\ Inv /\ [GateNext]_gateVars => Inv'
  <2> SUFFICES ASSUME GateTypeOK, ChargesPast, RateBounded, [GateNext]_gateVars,
                      NEW key \in Keys, NEW time \in 0..now'
               PROVE  Cardinality(ChargedIn(key, time)') <= RateLimit
    BY ChargesStayPast DEF RateBounded
  <2> USE ChargedFinite
  <2>0. RateLimit \in Nat
    BY GateAssumption
  <2>1. CASE \E r \in Requests : Enter(r)
    <3>1. PICK r \in Requests : Enter(r)
      BY <2>1
    <3>2. CASE time = now /\ BudgetKey[r] = key
      <4>1. ChargedIn(key, time)' \subseteq ChargedIn(key, now) \cup {r}
        BY <3>1, <3>2 DEF Enter, ChargedIn, GateTypeOK
      <4>2. Cardinality(ChargedIn(key, time)') <= Cardinality(ChargedIn(key, now)) + 1
        BY <4>1, CountGrows
      <4>3. IsFiniteSet(ChargedIn(key, time)')
        BY <4>1, FS_AddElement, FS_Subset
      <4>4. Cardinality(ChargedIn(key, time)') \in Nat /\ Cardinality(ChargedIn(key, now)) \in Nat
        BY <4>3, FS_CardinalityType
      <4> QED
        BY <2>0, <3>1, <3>2, <4>2, <4>4 DEF Enter
    <3>3. CASE ~(time = now /\ BudgetKey[r] = key)
      <4>1. ChargedIn(key, time)' \subseteq ChargedIn(key, time) /\ time \in 0..now
        BY <3>1, <3>3 DEF Enter, ChargedIn, GateTypeOK
      <4> QED
        BY <2>0, <4>1, CountShrinks DEF RateBounded
    <3> QED
      BY <3>2, <3>3
  <2>2. CASE Pass
    <3>1. CASE time = now + 1
      <4>1. ChargedIn(key, time)' \subseteq ChargedIn(key, now) /\ now \in 0..now
        BY <2>2, <3>1, GateAssumption DEF Pass, ChargedIn, ChargesPast, GateTypeOK, Never
      <4> QED
        BY <2>0, <4>1, CountShrinks DEF RateBounded
    <3>2. CASE time # now + 1
      <4>1. ChargedIn(key, time)' \subseteq ChargedIn(key, time) /\ time \in 0..now
        BY <2>2, <3>2 DEF Pass, ChargedIn, GateTypeOK
      <4> QED
        BY <2>0, <4>1, CountShrinks DEF RateBounded
    <3> QED
      BY <3>1, <3>2
  <2>3. CASE UNCHANGED <<charged, now>>
    <3>1. ChargedIn(key, time)' \subseteq ChargedIn(key, time) /\ time \in 0..now
      BY <2>3 DEF ChargedIn
    <3> QED
      BY <2>0, <3>1, CountShrinks DEF RateBounded
  <2> QED
    BY <2>1, <2>2, <2>3
       DEF GateNext, gateVars, Queue, TurnAway, Operate, EndOperation, Depart
<1> QED
  BY <1>1, <1>2, GateTyped, PTL DEF GateSpec
=============================================================================
