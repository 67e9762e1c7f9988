--------------------------- MODULE ChatLedgerProofs ---------------------------
(***************************************************************************)
(* Theorems about what the client really did: the ledger that reconstruct  *)
(* reads from an undamaged transcript is the client's own history, so the  *)
(* gates, which look at the ledger, judge that history.                    *)
(*                                                                         *)
(* Call ids may repeat, so that a tool message does not name its call by   *)
(* its id.  The invariant therefore keeps, as witnesses, where each        *)
(* executed call was proposed and where its result stands (Traced), and    *)
(* says of a reconstruction without a warning that it has paired the       *)
(* results with just those calls (Rebuilt).                                *)
(***************************************************************************)
EXTENDS ChatServiceProofs, SequenceTheorems

\* The calls of the transcript: a place is a message and an index in its batch.
Proposed == {pl \in (DOMAIN transcript) \X Nat :
               /\ transcript[pl[1]].role = "assistant"
               /\ pl[2] \in DOMAIN transcript[pl[1]].calls}
CallAt(pl) == transcript[pl[1]].calls[pl[2]]

\* The k-th executed call was proposed at origin[k] and answered by message at[k]; the
\* i-th call the client still holds was proposed at held[i].
Executions(at, origin) ==
  /\ at \in [DOMAIN executed -> DOMAIN transcript]
  /\ origin \in [DOMAIN executed -> Proposed]
  /\ \A k \in DOMAIN executed :
       /\ transcript[at[k]].role = "tool"
       /\ transcript[at[k]].id = CallAt(origin[k]).id
       /\ executed[k].call = CallAt(origin[k]).call
       /\ executed[k].status = ReceiptStatus(transcript[at[k]].result)
       /\ origin[k][1] < at[k]
  /\ \A j, k \in DOMAIN executed : j < k => at[j] < at[k]
  /\ \A j, k \in DOMAIN executed : origin[j] = origin[k] => j = k
  /\ \A p \in DOMAIN transcript : transcript[p].role = "tool" => \E k \in DOMAIN executed : at[k] = p

Holdings(origin, held) ==
  /\ held \in [DOMAIN awaiting -> Proposed]
  /\ \A i \in DOMAIN awaiting : awaiting[i] = CallAt(held[i])
  /\ \A i, j \in DOMAIN awaiting : held[i] = held[j] => i = j
  /\ \A i \in DOMAIN awaiting, k \in DOMAIN executed : held[i] # origin[k]

Traced(at, origin, held) == Executions(at, origin) /\ Holdings(origin, held)

\* The receipts repeat the client's history, as far as they go.
Agree ==
  \A k \in DOMAIN receipts : /\ receipts[k].call = executed[k].call
                             /\ receipts[k].status = executed[k].status
SameHistory == Len(receipts) = Len(executed) /\ Agree

\* The places read so far whose result was not.
Open(origin) ==
  {pl \in Proposed : pl[1] < position /\ \A k \in DOMAIN receipts : origin[k] # pl}

Rebuilt(at, origin) ==
  (stage = "reconstruct" /\ ~degraded) =>
    /\ Len(receipts) <= Len(executed) /\ Agree
    /\ \A k \in DOMAIN executed : at[k] < position <=> k <= Len(receipts)
    /\ unpaired = {CallAt(pl) : pl \in Open(origin)}
    /\ \A a, b \in Open(origin) : CallAt(a).id = CallAt(b).id => a = b

LedgerInv ==
  faults = 0 => \E at, origin, held : Traced(at, origin, held) /\ Rebuilt(at, origin)

\* Once the transcript has been read without a warning, the receipts are the history.
Followed ==
  (Honest /\ (stage = "loop" \/ HarnessAnswered \/ HarnessReleasedCalls)) => SameHistory

-----------------------------------------------------------------------------
LEMMA MembersTyped ==
  ASSUME NEW S, NEW s \in Seq(S) PROVE \A i \in DOMAIN s : s[i] \in S
OBVIOUS

LEMMA RemovedIs ==
  ASSUME NEW S, NEW s \in Seq(S), NEW i \in DOMAIN s
  PROVE  /\ DOMAIN RemoveAt(s, i) = 1..(Len(s) - 1)
         /\ \A j \in 1..(Len(s) - 1) : RemoveAt(s, i)[j] = IF j < i THEN s[j] ELSE s[j + 1]
<1>1. Len(s) \in Nat /\ i \in 1..Len(s) /\ s \in Seq(S)
  OBVIOUS
<1> DEFINE a == SubSeq(s, 1, i - 1)
           b == SubSeq(s, i + 1, Len(s))
<1>2. a \in Seq(S) /\ Len(a) = i - 1 /\ \A j \in 1..(i - 1) : a[j] = s[j]
  BY <1>1
<1>3. b \in Seq(S) /\ Len(b) = Len(s) - i /\ \A j \in 1..(Len(s) - i) : b[j] = s[j + i]
  BY <1>1
<1>4. RemoveAt(s, i) = a \o b
  BY DEF RemoveAt
<1> HIDE DEF a, b
<1>5. /\ a \o b \in Seq(S) /\ Len(a \o b) = Len(a) + Len(b)
      /\ \A j \in 1..(Len(a) + Len(b)) :
            (a \o b)[j] = IF j <= Len(a) THEN a[j] ELSE b[j - Len(a)]
  BY <1>2, <1>3, ConcatProperties
<1>6. ASSUME NEW j \in 1..(Len(s) - 1)
      PROVE  (a \o b)[j] = IF j < i THEN s[j] ELSE s[j + 1]
  <2>1. j \in 1..(Len(a) + Len(b))
    BY <1>1, <1>2, <1>3
  <2>2. CASE j < i
    BY <1>1, <1>2, <1>5, <2>1, <2>2
  <2>3. CASE ~(j < i)
    <3>1. j - Len(a) \in 1..(Len(s) - i) /\ (j - Len(a)) + i = j + 1
      BY <1>1, <1>2, <2>3
    <3>2. (a \o b)[j] = b[j - Len(a)]
      BY <1>1, <1>2, <1>5, <2>1, <2>3
    <3> QED BY <1>3, <2>3, <3>1, <3>2
  <2> QED BY <2>2, <2>3
<1>7. DOMAIN (a \o b) = 1..(Len(s) - 1)
  BY <1>1, <1>2, <1>3, <1>5, SMTT(30)
<1> QED BY <1>4, <1>6, <1>7

\* A longer transcript has the places of the shorter one.
LEMMA PlacesStay ==
  ASSUME transcript \in Seq(Message), NEW m \in Message, transcript' = Append(transcript, m)
  PROVE  /\ DOMAIN transcript = 1..Len(transcript) /\ Len(transcript) \in Nat
         /\ DOMAIN transcript' = 1..(Len(transcript) + 1)
         /\ \A p \in DOMAIN transcript : transcript'[p] = transcript[p]
         /\ transcript'[Len(transcript) + 1] = m
         /\ Proposed \subseteq Proposed'
         /\ \A pl \in Proposed : pl[1] \in DOMAIN transcript /\ CallAt(pl)' = CallAt(pl)
<1>1. /\ DOMAIN transcript = 1..Len(transcript) /\ Len(transcript) \in Nat
      /\ DOMAIN transcript' = 1..(Len(transcript) + 1)
      /\ \A p \in DOMAIN transcript : transcript'[p] = transcript[p]
      /\ transcript'[Len(transcript) + 1] = m
  OBVIOUS
<1>2. ASSUME NEW pl \in Proposed
      PROVE  pl \in Proposed' /\ pl[1] \in DOMAIN transcript /\ CallAt(pl)' = CallAt(pl)
  <2>1. pl \in (DOMAIN transcript) \X Nat /\ pl[1] \in DOMAIN transcript
    BY DEF Proposed
  <2>2. transcript'[pl[1]] = transcript[pl[1]]
    BY <1>1, <2>1
  <2>3. pl \in (DOMAIN transcript') \X Nat
    BY <1>1, <2>1
  <2> QED BY <2>1, <2>2, <2>3 DEF Proposed, CallAt
<1> QED BY <1>1, <1>2

-----------------------------------------------------------------------------
\* Executing a held call appends its result: the place moves from held to origin.
LEMMA ClientExecutesTraced ==
  ASSUME TypeOK, NEW i \in DOMAIN awaiting, NEW result \in Results, ClientExecutes(i, result),
         NEW at, NEW origin, NEW held, Traced(at, origin, held)
  PROVE  \E at1, origin1, held1 : Traced(at1, origin1, held1)'
<1> DEFINE m == [role |-> "tool", id |-> awaiting[i].id, result |-> result]
           x == [call |-> awaiting[i].call, status |-> ReceiptStatus(result)]
           n == Len(executed) + 1
           T == Len(transcript) + 1
           w == Len(awaiting) - 1
<1>a. PICK at1 : at1 = [k \in 1..n |-> IF k = n THEN T ELSE at[k]]
  OBVIOUS
<1>b. PICK origin1 : origin1 = [k \in 1..n |-> IF k = n THEN held[i] ELSE origin[k]]
  OBVIOUS
<1>c. PICK held1 : held1 = [j \in 1..w |-> IF j < i THEN held[j] ELSE held[j + 1]]
  OBVIOUS
<1>1. awaiting \in Seq(Proposal) /\ transcript \in Seq(Message)
      /\ executed \in Seq([call: Calls, status: Statuses])
  BY DEF TypeOK
<1>2. awaiting[i] \in Proposal /\ awaiting[i].call # Invalid
  BY <1>1 DEF ClientExecutes
<1>3. m \in Message /\ x \in [call: Calls, status: Statuses]
  BY <1>2, StatusType DEF Proposal, Message, ToolMessage
<1>4. /\ transcript' = Append(transcript, m) /\ executed' = Append(executed, x)
      /\ awaiting' = RemoveAt(awaiting, i)
  BY DEF ClientExecutes
<1>5. /\ DOMAIN executed = 1..Len(executed) /\ Len(executed) \in Nat /\ DOMAIN executed' = 1..n
      /\ \A k \in DOMAIN executed : executed'[k] = executed[k]
      /\ executed'[n] = x
  BY <1>1, <1>3, <1>4
<1>6. /\ DOMAIN transcript = 1..Len(transcript) /\ Len(transcript) \in Nat
      /\ DOMAIN transcript' = 1..T
      /\ \A p \in DOMAIN transcript : transcript'[p] = transcript[p]
      /\ transcript'[T] = m
      /\ Proposed \subseteq Proposed'
      /\ \A pl \in Proposed : pl[1] \in DOMAIN transcript /\ CallAt(pl)' = CallAt(pl)
  BY <1>1, <1>3, <1>4, PlacesStay
<1>7. /\ DOMAIN awaiting = 1..Len(awaiting) /\ Len(awaiting) \in Nat /\ i \in 1..Len(awaiting)
      /\ DOMAIN awaiting' = 1..w
      /\ \A j \in 1..w : awaiting'[j] = IF j < i THEN awaiting[j] ELSE awaiting[j + 1]
  <2>1. DOMAIN awaiting = 1..Len(awaiting) /\ Len(awaiting) \in Nat /\ i \in 1..Len(awaiting)
    BY <1>1
  <2>2. /\ DOMAIN RemoveAt(awaiting, i) = 1..(Len(awaiting) - 1)
        /\ \A j \in 1..(Len(awaiting) - 1) :
              RemoveAt(awaiting, i)[j] = IF j < i THEN awaiting[j] ELSE awaiting[j + 1]
    BY <1>1, RemovedIs
  <2> QED BY <1>4, <2>1, <2>2
<1>8. /\ at \in [DOMAIN executed -> DOMAIN transcript]
      /\ origin \in [DOMAIN executed -> Proposed] /\ held \in [DOMAIN awaiting -> Proposed]
  BY DEF Traced, Executions, Holdings
<1>9. at1 \in [DOMAIN executed' -> DOMAIN transcript']
  BY <1>a, <1>5, <1>6, <1>8
<1>10. origin1 \in [DOMAIN executed' -> Proposed']
  BY <1>b, <1>5, <1>6, <1>7, <1>8
<1>11. held1 \in [DOMAIN awaiting' -> Proposed']
  BY <1>c, <1>6, <1>7, <1>8
<1>12. /\ at1[n] = T /\ origin1[n] = held[i]
       /\ \A k \in DOMAIN executed : k # n /\ at1[k] = at[k] /\ origin1[k] = origin[k]
       /\ \A j \in 1..w : held1[j] = IF j < i THEN held[j] ELSE held[j + 1]
  BY <1>a, <1>b, <1>c, <1>5
<1> HIDE DEF m, x, n, T, w
<1>13. Executions(at1, origin1)'
  <2>1. ASSUME NEW k \in DOMAIN executed'
        PROVE  /\ transcript'[at1[k]].role = "tool"
               /\ transcript'[at1[k]].id = CallAt(origin1[k])'.id
               /\ executed'[k].call = CallAt(origin1[k])'.call
               /\ executed'[k].status = ReceiptStatus(transcript'[at1[k]].result)
               /\ origin1[k][1] < at1[k]
    <3>1. CASE k = n
      <4>1. held[i] \in Proposed /\ awaiting[i] = CallAt(held[i])
        BY <1>8 DEF Traced, Holdings
      <4>2. held[i][1] \in DOMAIN transcript /\ CallAt(held[i])' = awaiting[i]
        BY <1>6, <4>1
      <4> QED BY <1>5, <1>6, <1>12, <3>1, <4>1, <4>2 DEF m, x, T
    <3>2. CASE k \in DOMAIN executed
      <4>1. /\ at[k] \in DOMAIN transcript /\ origin[k] \in Proposed
            /\ transcript[at[k]].role = "tool"
            /\ transcript[at[k]].id = CallAt(origin[k]).id
            /\ executed[k].call = CallAt(origin[k]).call
            /\ executed[k].status = ReceiptStatus(transcript[at[k]].result)
            /\ origin[k][1] < at[k]
        BY <1>8, <3>2 DEF Traced, Executions
      <4> QED BY <1>5, <1>6, <1>12, <3>2, <4>1
    <3> QED BY <1>5, <3>1, <3>2 DEF n
  <2>2. ASSUME NEW j \in DOMAIN executed', NEW k \in DOMAIN executed', j < k
        PROVE  at1[j] < at1[k]
    <3>1. j \in DOMAIN executed /\ at[j] \in DOMAIN transcript
      BY <1>5, <1>8, <2>2 DEF n
    <3>2. CASE k = n
      BY <1>6, <1>12, <3>1, <3>2 DEF T
    <3>3. CASE k \in DOMAIN executed
      BY <1>12, <2>2, <3>1, <3>3 DEF Traced, Executions
    <3> QED BY <1>5, <3>2, <3>3 DEF n
  <2>3. ASSUME NEW j \in DOMAIN executed', NEW k \in DOMAIN executed', origin1[j] = origin1[k]
        PROVE  j = k
    <3>1. \A a \in DOMAIN executed : held[i] # origin[a]
      BY DEF Traced, Holdings
    <3>2. \A a, b \in DOMAIN executed : origin[a] = origin[b] => a = b
      BY DEF Traced, Executions
    <3>3. \A a \in DOMAIN executed' : a = n \/ a \in DOMAIN executed
      BY <1>5 DEF n
    <3> QED BY <1>12, <2>3, <3>1, <3>2, <3>3
  <2>4. ASSUME NEW p \in DOMAIN transcript', transcript'[p].role = "tool"
        PROVE  \E k \in DOMAIN executed' : at1[k] = p
    <3>1. CASE p = T
      BY <1>5, <1>12, <3>1 DEF n
    <3>2. CASE p \in DOMAIN transcript
      <4>1. PICK k \in DOMAIN executed : at[k] = p
        BY <1>6, <2>4, <3>2 DEF Traced, Executions
      <4> QED BY <1>5, <1>12, <4>1 DEF n
    <3> QED BY <1>6, <3>1, <3>2 DEF T
  <2> QED BY <1>9, <1>10, <2>1, <2>2, <2>3, <2>4 DEF Executions
<1>14. Holdings(origin1, held1)'
  <2>1. ASSUME NEW j \in DOMAIN awaiting'
        PROVE  \E a \in DOMAIN awaiting : /\ a = (IF j < i THEN j ELSE j + 1) /\ a # i
                                          /\ held1[j] = held[a] /\ awaiting'[j] = awaiting[a]
    BY <1>7, <1>12 DEF w
  <2>2. /\ \A a \in DOMAIN awaiting : awaiting[a] = CallAt(held[a])
        /\ \A a, b \in DOMAIN awaiting : held[a] = held[b] => a = b
        /\ \A a \in DOMAIN awaiting, k \in DOMAIN executed : held[a] # origin[k]
    BY DEF Traced, Holdings
  <2>3. \A j \in DOMAIN awaiting' : awaiting'[j] = CallAt(held1[j])'
    BY <1>6, <1>8, <2>1, <2>2
  <2>4. ASSUME NEW j \in DOMAIN awaiting', NEW k \in DOMAIN awaiting', held1[j] = held1[k]
        PROVE  j = k
    <3>1. PICK a \in DOMAIN awaiting : a = (IF j < i THEN j ELSE j + 1) /\ held1[j] = held[a]
      BY <2>1
    <3>2. PICK b \in DOMAIN awaiting : b = (IF k < i THEN k ELSE k + 1) /\ held1[k] = held[b]
      BY <2>1
    <3>3. a = b
      BY <2>2, <2>4, <3>1, <3>2
    <3> QED BY <1>7, <3>1, <3>2, <3>3 DEF w
  <2>5. ASSUME NEW j \in DOMAIN awaiting', NEW k \in DOMAIN executed'
        PROVE  held1[j] # origin1[k]
    <3>1. PICK a \in DOMAIN awaiting : a # i /\ held1[j] = held[a]
      BY <2>1
    <3>2. CASE k = n
      BY <1>12, <2>2, <3>1, <3>2
    <3>3. CASE k \in DOMAIN executed
      BY <1>12, <2>2, <3>1, <3>3
    <3> QED BY <1>5, <3>2, <3>3 DEF n
  <2> QED BY <1>11, <2>3, <2>4, <2>5 DEF Holdings
<1> QED BY <1>13, <1>14 DEF Traced

\* A released batch adds places that the client now holds.
LEMMA BatchTraced ==
  ASSUME TypeOK, NEW batch \in Batches, NEW at, NEW origin, NEW held, Traced(at, origin, held),
         transcript' = Append(transcript, [role |-> "assistant", calls |-> batch]),
         awaiting' = awaiting \o batch, executed' = executed
  PROVE  \E held1 : Traced(at, origin, held1)'
<1> DEFINE m == [role |-> "assistant", calls |-> batch]
           a == Len(awaiting)
<1>0. PICK T : T = Len(transcript) + 1
  OBVIOUS
<1>1. /\ awaiting \in Seq(Proposal) /\ transcript \in Seq(Message) /\ batch \in Seq(Proposal)
      /\ executed \in Seq([call: Calls, status: Statuses])
  BY BatchIsSequence DEF TypeOK
<1>2. m \in Message
  BY <1>1 DEF Message, AssistantMessage
<1>3. /\ DOMAIN transcript = 1..Len(transcript) /\ Len(transcript) \in Nat
      /\ DOMAIN transcript' = 1..T
      /\ \A p \in DOMAIN transcript : transcript'[p] = transcript[p]
      /\ transcript'[T] = m
      /\ Proposed \subseteq Proposed'
      /\ \A pl \in Proposed : pl[1] \in DOMAIN transcript /\ CallAt(pl)' = CallAt(pl)
  BY <1>0, <1>1, <1>2, PlacesStay
<1>4. /\ DOMAIN awaiting = 1..a /\ a \in Nat /\ DOMAIN batch = 1..Len(batch) /\ Len(batch) \in Nat
      /\ DOMAIN awaiting' = 1..(a + Len(batch))
      /\ \A j \in 1..(a + Len(batch)) :
            awaiting'[j] = IF j <= a THEN awaiting[j] ELSE batch[j - a]
  BY <1>1
<1>5. \A j \in 1..Len(batch) : /\ <<T, j>> \in Proposed' /\ CallAt(<<T, j>>)' = batch[j]
                               /\ <<T, j>>[1] = T /\ <<T, j>>[2] = j
  <2> SUFFICES ASSUME NEW j \in 1..Len(batch)
               PROVE  /\ <<T, j>> \in Proposed' /\ CallAt(<<T, j>>)' = batch[j]
                      /\ <<T, j>>[1] = T /\ <<T, j>>[2] = j
    OBVIOUS
  <2>1. <<T, j>> \in (DOMAIN transcript') \X Nat
    BY <1>0, <1>3
  <2> QED BY <1>3, <1>4, <2>1 DEF Proposed, CallAt, m
<1>6. /\ at \in [DOMAIN executed -> DOMAIN transcript]
      /\ origin \in [DOMAIN executed -> Proposed] /\ held \in [DOMAIN awaiting -> Proposed]
  BY DEF Traced, Executions, Holdings
<1>7. PICK held1 : held1 = [j \in 1..(a + Len(batch)) |-> IF j <= a THEN held[j] ELSE <<T, j - a>>]
  OBVIOUS
<1>8. /\ \A j \in DOMAIN awaiting : j \in DOMAIN awaiting' /\ held1[j] = held[j]
                                    /\ awaiting'[j] = awaiting[j]
      /\ \A j \in DOMAIN awaiting' : j \notin DOMAIN awaiting =>
            j - a \in 1..Len(batch) /\ held1[j] = <<T, j - a>> /\ awaiting'[j] = batch[j - a]
  BY <1>4, <1>7
<1>9. held1 \in [DOMAIN awaiting' -> Proposed']
  <2>1. \A j \in DOMAIN awaiting' : held1[j] \in Proposed'
    BY <1>3, <1>5, <1>6, <1>8, ZenonT(40)
  <2> QED BY <1>4, <1>7, <2>1
<1> HIDE DEF m
<1>10. Executions(at, origin)'
  <2>1. at \in [DOMAIN executed' -> DOMAIN transcript']
    BY <1>3, <1>6
  <2>2. origin \in [DOMAIN executed' -> Proposed']
    BY <1>3, <1>6
  <2>3. ASSUME NEW k \in DOMAIN executed'
        PROVE  /\ transcript'[at[k]].role = "tool"
               /\ transcript'[at[k]].id = CallAt(origin[k])'.id
               /\ executed'[k].call = CallAt(origin[k])'.call
               /\ executed'[k].status = ReceiptStatus(transcript'[at[k]].result)
               /\ origin[k][1] < at[k]
    <3>1. /\ at[k] \in DOMAIN transcript /\ origin[k] \in Proposed
          /\ transcript[at[k]].role = "tool"
          /\ transcript[at[k]].id = CallAt(origin[k]).id
          /\ executed[k].call = CallAt(origin[k]).call
          /\ executed[k].status = ReceiptStatus(transcript[at[k]].result)
          /\ origin[k][1] < at[k]
      BY <1>6 DEF Traced, Executions
    <3> QED BY <1>3, <3>1
  <2>4. /\ \A j, k \in DOMAIN executed' : j < k => at[j] < at[k]
        /\ \A j, k \in DOMAIN executed' : origin[j] = origin[k] => j = k
    BY DEF Traced, Executions
  <2>5. ASSUME NEW p \in DOMAIN transcript', transcript'[p].role = "tool"
        PROVE  \E k \in DOMAIN executed' : at[k] = p
    <3>1. p \in DOMAIN transcript
      BY <1>0, <1>3, <2>5 DEF m
    <3> QED BY <1>3, <2>5, <3>1 DEF Traced, Executions
  <2> QED BY <2>1, <2>2, <2>3, <2>4, <2>5 DEF Executions
<1>11. Holdings(origin, held1)'
  <2>1. /\ \A j \in DOMAIN awaiting : awaiting[j] = CallAt(held[j])
        /\ \A j, k \in DOMAIN awaiting : held[j] = held[k] => j = k
        /\ \A j \in DOMAIN awaiting, k \in DOMAIN executed : held[j] # origin[k]
    BY DEF Traced, Holdings
  <2>2. T \notin DOMAIN transcript
    BY <1>0, <1>3
  <2>3. ASSUME NEW j \in DOMAIN awaiting' PROVE awaiting'[j] = CallAt(held1[j])'
    <3>1. CASE j \in DOMAIN awaiting
      <4>1. held[j] \in Proposed /\ awaiting'[j] = CallAt(held[j])
        BY <1>6, <1>8, <2>1, <3>1
      <4>2. CallAt(held[j])' = CallAt(held[j]) /\ held1[j] = held[j]
        BY <1>3, <1>8, <3>1, <4>1
      <4> QED BY <4>1, <4>2
    <3>2. CASE j \notin DOMAIN awaiting
      <4>1. PICK i \in 1..Len(batch) : held1[j] = <<T, i>> /\ awaiting'[j] = batch[i]
        BY <1>8, <3>2
      <4>2. CallAt(<<T, i>>)' = batch[i]
        BY <1>5
      <4> QED BY <4>1, <4>2
    <3> QED BY <3>1, <3>2
  <2>4. \A j \in DOMAIN awaiting' :
          IF j \in DOMAIN awaiting THEN held1[j][1] \in DOMAIN transcript
          ELSE held1[j][1] = T /\ held1[j][2] = j - a
    BY <1>3, <1>5, <1>6, <1>8
  <2>5. ASSUME NEW j \in DOMAIN awaiting', NEW k \in DOMAIN awaiting', held1[j] = held1[k]
        PROVE  j = k
    <3>1. CASE j \in DOMAIN awaiting
      <4>1. k \in DOMAIN awaiting
        BY <2>2, <2>4, <2>5, <3>1
      <4> QED BY <1>8, <2>1, <2>5, <3>1, <4>1
    <3>2. CASE j \notin DOMAIN awaiting
      <4>1. k \notin DOMAIN awaiting
        BY <2>2, <2>4, <2>5, <3>2
      <4>2. j - a = k - a
        BY <2>4, <2>5, <3>2, <4>1
      <4> QED BY <1>4, <4>2
    <3> QED BY <3>1, <3>2
  <2>6. ASSUME NEW j \in DOMAIN awaiting', NEW k \in DOMAIN executed'
        PROVE  held1[j] # origin[k]
    <3>1. origin[k][1] \in DOMAIN transcript /\ k \in DOMAIN executed
      BY <1>3, <1>6
    <3> QED BY <1>8, <2>1, <2>2, <2>4, <3>1
  <2> QED BY <1>9, <2>3, <2>5, <2>6 DEF Holdings
<1> QED BY <1>10, <1>11 DEF Traced

-----------------------------------------------------------------------------
\* Reading an assistant message without a warning opens exactly its places.
LEMMA CallsRebuilt ==
  ASSUME TypeOK, ReconstructMessage, ReconstructCalls,
         NEW at, NEW origin, NEW held, Traced(at, origin, held), Rebuilt(at, origin)
  PROVE  Rebuilt(at, origin)'
<1> SUFFICES ASSUME ~degraded'
             PROVE  /\ Len(receipts') <= Len(executed') /\ Agree'
                    /\ \A k \in DOMAIN executed' : at[k] < position' <=> k <= Len(receipts')
                    /\ unpaired' = {CallAt(pl)' : pl \in Open(origin)'}
                    /\ \A a, b \in Open(origin)' : CallAt(a)'.id = CallAt(b)'.id => a = b
  BY DEF Rebuilt
<1> DEFINE calls == transcript[position].calls
           fresh == {i \in DOMAIN calls :
                       /\ calls[i].call # Invalid
                       /\ \A p \in unpaired : p.id # calls[i].id
                       /\ \A j \in 1..(i - 1) : calls[j].id = calls[i].id => calls[j].call = Invalid}
           Read == {pl \in Proposed : pl[1] = position}
<1>1. /\ stage = "reconstruct" /\ position \in Nat /\ position \in 1..Len(transcript)
      /\ position' = position + 1
      /\ transcript \in Seq(Message) /\ UNCHANGED <<transcript, executed, receipts>>
      /\ transcript[position].role = "assistant"
  BY DEF ReconstructMessage, ReconstructCalls, TypeOK, clientVars, harnessVars, ledgerVars
<1>2. ~degraded /\ fresh = DOMAIN calls /\ unpaired' = unpaired \cup {calls[i] : i \in fresh}
  BY DEF ReconstructCalls
<1>3. calls \in Seq(Proposal)
  <2>1. transcript[position] \in AssistantMessage
    BY <1>1 DEF Message, ToolMessage
  <2> QED BY <2>1 DEF AssistantMessage
<1>4. /\ \A i \in DOMAIN calls, p \in unpaired : p.id # calls[i].id
      /\ \A i, j \in DOMAIN calls : calls[i].id = calls[j].id => i = j
  <2>1. DOMAIN calls = 1..Len(calls) /\ Len(calls) \in Nat
    BY <1>3
  <2>2. \A i \in DOMAIN calls : calls[i].call # Invalid /\ \A p \in unpaired : p.id # calls[i].id
    BY <1>2
  <2>3. ASSUME NEW i \in DOMAIN calls, NEW j \in DOMAIN calls, j < i PROVE calls[j].id # calls[i].id
    BY <1>2, <2>1, <2>2, <2>3
  <2>4. \A i, j \in DOMAIN calls : i < j \/ j < i \/ i = j
    BY <2>1
  <2> QED BY <2>2, <2>3, <2>4
<1>5. /\ Len(receipts) <= Len(executed) /\ Agree
      /\ \A k \in DOMAIN executed : at[k] < position <=> k <= Len(receipts)
      /\ unpaired = {CallAt(pl) : pl \in Open(origin)}
      /\ \A a, b \in Open(origin) : CallAt(a).id = CallAt(b).id => a = b
  BY <1>1, <1>2 DEF Rebuilt
<1>6. /\ at \in [DOMAIN executed -> DOMAIN transcript]
      /\ origin \in [DOMAIN executed -> Proposed]
      /\ \A k \in DOMAIN executed : transcript[at[k]].role = "tool" /\ origin[k][1] < at[k]
  BY DEF Traced, Executions
<1>7. \A k \in DOMAIN executed : at[k] # position /\ at[k] \in Nat
  BY <1>1, <1>6
<1>8. \A k \in DOMAIN executed : at[k] < position' <=> k <= Len(receipts)
  BY <1>1, <1>5, <1>7
<1>9. DOMAIN receipts \subseteq DOMAIN executed
      /\ \A k \in DOMAIN receipts : k <= Len(receipts)
  <2>1. receipts \in Seq(Receipt) /\ executed \in Seq([call: Calls, status: Statuses])
    BY DEF TypeOK, HarnessTypeOK
  <2> QED BY <1>5, <2>1
<1>10. \A pl \in Proposed : pl[1] \in Nat
  BY <1>1 DEF Proposed
<1>11. ASSUME NEW pl \in Read, NEW k \in DOMAIN receipts PROVE origin[k] # pl
  <2>1. at[k] < position /\ origin[k][1] < at[k] /\ at[k] \in Nat /\ origin[k] \in Proposed
    BY <1>5, <1>6, <1>7, <1>9
  <2>2. origin[k][1] # position
    BY <1>1, <1>10, <2>1
  <2> QED BY <2>2
<1>12. Proposed' = Proposed /\ \A pl : CallAt(pl)' = CallAt(pl)
  BY <1>1 DEF Proposed, CallAt
<1>13. Open(origin)' = Open(origin) \cup Read
  <2>1. \A pl \in Proposed : pl[1] < position' <=> pl[1] < position \/ pl[1] = position
    BY <1>1, <1>10
  <2>2. Open(origin)' = {pl \in Proposed : pl[1] < position' /\ \A k \in DOMAIN receipts : origin[k] # pl}
    BY <1>1, <1>12 DEF Open
  <2> QED BY <1>11, <2>1, <2>2 DEF Open
<1>14. /\ \A pl \in Read : pl[2] \in DOMAIN calls /\ CallAt(pl) = calls[pl[2]]
                           /\ pl = <<position, pl[2]>>
       /\ \A i \in DOMAIN calls : <<position, i>> \in Read /\ CallAt(<<position, i>>) = calls[i]
  <2>1. DOMAIN calls \subseteq Nat /\ position \in DOMAIN transcript
    BY <1>1, <1>3
  <2>2. ASSUME NEW pl \in Read
        PROVE  pl[2] \in DOMAIN calls /\ CallAt(pl) = calls[pl[2]] /\ pl = <<position, pl[2]>>
    BY DEF Proposed, CallAt
  <2>3. ASSUME NEW i \in DOMAIN calls
        PROVE  <<position, i>> \in Read /\ CallAt(<<position, i>>) = calls[i]
    <3>1. <<position, i>> \in (DOMAIN transcript) \X Nat
      BY <2>1
    <3> QED BY <1>1, <3>1 DEF Proposed, CallAt
  <2> QED BY <2>2, <2>3
<1> HIDE DEF calls, fresh, Read
<1>15. unpaired' = {CallAt(pl)' : pl \in Open(origin)'}
  <2>1. {calls[i] : i \in DOMAIN calls} = {CallAt(pl) : pl \in Read}
    <3>1. \A i \in DOMAIN calls : \E pl \in Read : CallAt(pl) = calls[i]
      BY <1>14
    <3>2. \A pl \in Read : \E i \in DOMAIN calls : CallAt(pl) = calls[i]
      BY <1>14
    <3> QED BY <3>1, <3>2
  <2>2. {CallAt(pl)' : pl \in Open(origin)'} = {CallAt(pl) : pl \in Open(origin) \cup Read}
    BY <1>12, <1>13
  <2>3. unpaired' = {CallAt(pl) : pl \in Open(origin)} \cup {CallAt(pl) : pl \in Read}
    BY <1>2, <1>5, <2>1
  <2> QED BY <2>2, <2>3
<1>16. ASSUME NEW a \in Open(origin)', NEW b \in Open(origin)', CallAt(a)'.id = CallAt(b)'.id
       PROVE  a = b
  <2>1. CallAt(a).id = CallAt(b).id
    BY <1>12, <1>16
  <2>2. a \in Open(origin) \cup Read /\ b \in Open(origin) \cup Read
    BY <1>13
  <2>3. CASE a \in Open(origin) /\ b \in Open(origin)
    BY <1>5, <2>1, <2>3
  <2>4. CASE a \in Read /\ b \in Read
    BY <1>4, <1>14, <2>1, <2>4
  <2>5. \A c \in Open(origin), d \in Read : CallAt(c).id # CallAt(d).id
    BY <1>4, <1>5, <1>14
  <2> QED BY <2>1, <2>2, <2>3, <2>4, <2>5
<1>17. Len(receipts') <= Len(executed') /\ Agree'
  BY <1>1, <1>5 DEF Agree
<1> QED BY <1>1, <1>8, <1>15, <1>16, <1>17

\* Reading a result without a warning pairs it with the next executed call.
LEMMA ResultRebuilt ==
  ASSUME TypeOK, ReconstructMessage, ReconstructResult,
         NEW at, NEW origin, NEW held, Traced(at, origin, held), Rebuilt(at, origin)
  PROVE  Rebuilt(at, origin)'
<1> SUFFICES ASSUME ~degraded'
             PROVE  /\ Len(receipts') <= Len(executed') /\ Agree'
                    /\ \A k \in DOMAIN executed' : at[k] < position' <=> k <= Len(receipts')
                    /\ unpaired' = {CallAt(pl)' : pl \in Open(origin)'}
                    /\ \A a, b \in Open(origin)' : CallAt(a)'.id = CallAt(b)'.id => a = b
  BY DEF Rebuilt
<1> DEFINE message == transcript[position]
           K == Len(receipts) + 1
<1>1. /\ stage = "reconstruct" /\ position \in Nat /\ position \in 1..Len(transcript)
      /\ position' = position + 1
      /\ transcript \in Seq(Message) /\ UNCHANGED <<transcript, executed>>
      /\ message.role = "tool" /\ position \in DOMAIN transcript
  BY DEF ReconstructMessage, ReconstructResult, TypeOK, clientVars
<1>2. PICK p \in unpaired : /\ p.id = message.id /\ unpaired' = unpaired \ {p}
                            /\ Record(p.call, ReceiptStatus(message.result)) /\ ~degraded
  BY DEF ReconstructResult
<1>3. /\ Len(receipts) <= Len(executed) /\ Agree
      /\ \A k \in DOMAIN executed : at[k] < position <=> k <= Len(receipts)
      /\ unpaired = {CallAt(pl) : pl \in Open(origin)}
      /\ \A a, b \in Open(origin) : CallAt(a).id = CallAt(b).id => a = b
  BY <1>1, <1>2 DEF Rebuilt
<1>4. /\ at \in [DOMAIN executed -> DOMAIN transcript]
      /\ origin \in [DOMAIN executed -> Proposed]
      /\ \A k \in DOMAIN executed : /\ transcript[at[k]].id = CallAt(origin[k]).id
                                    /\ executed[k].call = CallAt(origin[k]).call
                                    /\ executed[k].status = ReceiptStatus(transcript[at[k]].result)
                                    /\ origin[k][1] < at[k]
      /\ \A j, k \in DOMAIN executed : j < k => at[j] < at[k]
      /\ \A j, k \in DOMAIN executed : origin[j] = origin[k] => j = k
      /\ \E k \in DOMAIN executed : at[k] = position
  BY <1>1 DEF Traced, Executions
<1>5. /\ DOMAIN executed = 1..Len(executed) /\ Len(executed) \in Nat
      /\ DOMAIN receipts = 1..Len(receipts) /\ Len(receipts) \in Nat
      /\ DOMAIN transcript = 1..Len(transcript)
  BY <1>1 DEF TypeOK, HarnessTypeOK
<1>6. \A k \in DOMAIN executed : at[k] \in Nat
  BY <1>4, <1>5
<1>7. K \in DOMAIN executed /\ at[K] = position
  <2>1. PICK k \in DOMAIN executed : at[k] = position
    BY <1>4
  <2>2. k > Len(receipts)
    BY <1>1, <1>3, <1>5, <2>1
  <2>3. K \in DOMAIN executed /\ K <= k
    BY <1>5, <2>2
  <2>4. ~(K < k)
    <3> SUFFICES ASSUME K < k PROVE FALSE
      OBVIOUS
    <3>1. at[K] < position
      BY <1>4, <2>1, <2>3
    <3>2. K <= Len(receipts)
      BY <1>3, <2>3, <3>1
    <3> QED BY <1>5, <3>2
  <2>5. K = k
    BY <1>5, <2>3, <2>4
  <2> QED BY <2>1, <2>3, <2>5
<1>8. PICK o : o = origin[K]
  OBVIOUS
<1>9. /\ o \in Open(origin) /\ CallAt(o).id = message.id /\ CallAt(o).call = executed[K].call
      /\ executed[K].status = ReceiptStatus(message.result)
  <2>1. o \in Proposed /\ o[1] < position
    BY <1>4, <1>7, <1>8
  <2>2. \A k \in DOMAIN receipts : origin[k] # o
    <3> SUFFICES ASSUME NEW k \in DOMAIN receipts PROVE origin[k] # o
      OBVIOUS
    <3>1. k \in DOMAIN executed /\ k # K
      BY <1>3, <1>5
    <3> QED BY <1>4, <1>7, <1>8, <3>1
  <2> QED BY <1>4, <1>7, <1>8, <2>1, <2>2 DEF Open
<1>10. p = CallAt(o)
  <2>1. PICK a \in Open(origin) : p = CallAt(a)
    BY <1>3
  <2>2. a = o
    BY <1>2, <1>3, <1>9, <2>1
  <2> QED BY <2>1, <2>2
<1>11. /\ receipts' = Append(receipts, [call |-> p.call, status |-> ReceiptStatus(message.result),
                                        epoch |-> epoch])
       /\ Len(receipts') = K /\ DOMAIN receipts' = 1..K
       /\ receipts'[K].call = p.call /\ receipts'[K].status = ReceiptStatus(message.result)
       /\ \A k \in DOMAIN receipts : receipts'[k] = receipts[k]
  <2>1. receipts' = Append(receipts, [call |-> p.call, status |-> ReceiptStatus(message.result),
                                      epoch |-> epoch])
    BY <1>2 DEF Record
  <2>2. receipts \in Seq(Receipt)
    BY DEF TypeOK, HarnessTypeOK
  <2> QED BY <2>1, <2>2
<1>12. Len(receipts') <= Len(executed') /\ Agree'
  <2>1. Len(receipts') <= Len(executed')
    BY <1>1, <1>5, <1>7, <1>11
  <2>2. ASSUME NEW k \in DOMAIN receipts'
        PROVE  receipts'[k].call = executed'[k].call /\ receipts'[k].status = executed'[k].status
    <3>1. CASE k = K
      BY <1>1, <1>9, <1>10, <1>11, <3>1
    <3>2. CASE k \in DOMAIN receipts
      BY <1>1, <1>3, <1>11, <3>2 DEF Agree
    <3> QED BY <1>5, <1>11, <3>1, <3>2
  <2> QED BY <2>1, <2>2 DEF Agree
<1>13. ASSUME NEW k \in DOMAIN executed
       PROVE  at[k] < position' <=> k <= Len(receipts')
  <2>1. CASE k < K
    <3>1. at[k] < position
      BY <1>3, <1>5, <2>1
    <3> QED BY <1>1, <1>5, <1>6, <1>11, <2>1, <3>1
  <2>2. CASE k = K
    BY <1>1, <1>7, <1>11, <2>2
  <2>3. CASE K < k
    <3>1. position < at[k]
      BY <1>4, <1>7, <2>3
    <3> QED BY <1>1, <1>5, <1>6, <1>11, <2>3, <3>1
  <2> QED BY <1>5, <2>1, <2>2, <2>3
<1>14. Proposed' = Proposed /\ \A pl : CallAt(pl)' = CallAt(pl)
  BY <1>1 DEF Proposed, CallAt
<1>15. Open(origin)' = Open(origin) \ {o}
  <2>1. \A pl \in Proposed : pl[1] \in Nat /\ pl[1] # position
    BY <1>1, <1>5 DEF Proposed
  <2>2. \A pl \in Proposed : pl[1] < position' <=> pl[1] < position
    BY <1>1, <2>1
  <2>3. \A pl : (\A k \in DOMAIN receipts' : origin[k] # pl)
                  <=> (\A k \in DOMAIN receipts : origin[k] # pl) /\ pl # o
    <3>1. DOMAIN receipts' = DOMAIN receipts \cup {K}
      BY <1>5, <1>11
    <3> QED BY <1>8, <3>1
  <2>4. Open(origin)' = {pl \in Proposed : pl[1] < position' /\ \A k \in DOMAIN receipts' : origin[k] # pl}
    BY <1>14 DEF Open
  <2> QED BY <2>2, <2>3, <2>4 DEF Open
<1>16. unpaired' = {CallAt(pl)' : pl \in Open(origin)'}
  <2>1. {CallAt(pl)' : pl \in Open(origin)'} = {CallAt(pl) : pl \in Open(origin) \ {o}}
    BY <1>14, <1>15
  <2>2. \A pl \in Open(origin) \ {o} : CallAt(pl) # p
    BY <1>3, <1>9, <1>10
  <2> QED BY <1>2, <1>3, <1>10, <2>1, <2>2
<1>17. \A a, b \in Open(origin)' : CallAt(a)'.id = CallAt(b)'.id => a = b
  BY <1>3, <1>14, <1>15
<1> QED BY <1>1, <1>12, <1>13, <1>16, <1>17

\* At the end of an undamaged transcript without a warning the receipts are the history.
LEMMA ReadIsSame ==
  ASSUME TypeOK, LedgerInv, Honest, stage = "reconstruct", position > Len(transcript)
  PROVE  SameHistory
<1>1. PICK at, origin, held : Traced(at, origin, held) /\ Rebuilt(at, origin)
  BY DEF LedgerInv, Honest
<1>2. /\ Len(receipts) <= Len(executed) /\ Agree
      /\ \A k \in DOMAIN executed : at[k] < position <=> k <= Len(receipts)
  BY <1>1 DEF Rebuilt, Honest, Degraded
<1>3. at \in [DOMAIN executed -> DOMAIN transcript]
  BY <1>1 DEF Traced, Executions
<1>4. /\ DOMAIN executed = 1..Len(executed) /\ Len(executed) \in Nat
      /\ Len(receipts) \in Nat /\ DOMAIN transcript = 1..Len(transcript)
      /\ position \in Nat /\ Len(transcript) \in Nat
  BY DEF TypeOK, HarnessTypeOK
<1>5. \A k \in DOMAIN executed : at[k] < position
  BY <1>3, <1>4
<1>6. Len(executed) <= Len(receipts)
  <2>1. CASE Len(executed) = 0
    BY <1>4, <2>1
  <2>2. CASE Len(executed) > 0
    <3>1. Len(executed) \in DOMAIN executed
      BY <1>4, <2>2
    <3> QED BY <1>2, <1>5, <3>1
  <2> QED BY <1>4, <2>1, <2>2
<1> QED BY <1>2, <1>4, <1>6 DEF SameHistory

\* Outside reconstruct only the client's side of the ledger matters.
LEMMA TracedIsEnough ==
  ASSUME stage' # "reconstruct",
         NEW at, NEW origin, NEW held, Traced(at, origin, held)'
  PROVE  LedgerInv'
<1>1. Rebuilt(at, origin)'
  BY DEF Rebuilt
<1> QED BY <1>1 DEF LedgerInv

LEMMA TracedKept ==
  ASSUME UNCHANGED clientVars, NEW at, NEW origin, NEW held, Traced(at, origin, held)
  PROVE  Traced(at, origin, held)'
<1>1. UNCHANGED <<transcript, awaiting, executed>>
  BY DEF clientVars
<1>2. Proposed' = Proposed /\ \A pl : CallAt(pl)' = CallAt(pl)
  BY <1>1 DEF Proposed, CallAt
<1> QED BY <1>1, <1>2 DEF Traced, Executions, Holdings

\* A step that leaves the client alone and is not, or no longer, reconstructing.
LEMMA LedgerKept ==
  ASSUME LedgerInv, UNCHANGED clientVars, stage' # "reconstruct"
  PROVE  LedgerInv'
<1> SUFFICES ASSUME faults' = 0 PROVE LedgerInv'
  BY DEF LedgerInv
<1>1. PICK at, origin, held : Traced(at, origin, held)
  BY DEF LedgerInv, clientVars
<1> QED BY <1>1, TracedKept, TracedIsEnough

\* A batch that reaches the client, on either path.
LEMMA BatchLedger ==
  ASSUME TypeOK, LedgerInv, NEW batch \in Batches, stage' # "reconstruct",
         transcript' = Append(transcript, [role |-> "assistant", calls |-> batch]),
         awaiting' = awaiting \o batch, UNCHANGED <<executed, faults>>
  PROVE  LedgerInv'
<1> SUFFICES ASSUME faults' = 0 PROVE LedgerInv'
  BY DEF LedgerInv
<1>1. PICK at, origin, held : Traced(at, origin, held)
  BY DEF LedgerInv
<1>2. PICK held1 : Traced(at, origin, held1)'
  BY <1>1, BatchTraced
<1> QED BY <1>2, TracedIsEnough

LEMMA ClientLedger == TypeOK /\ LedgerInv /\ ClientStep => LedgerInv'
<1> SUFFICES ASSUME TypeOK, LedgerInv, ClientStep, faults' = 0 PROVE LedgerInv'
  BY DEF LedgerInv
<1>1. ASSUME NEW i \in DOMAIN awaiting, NEW result \in Results, ClientExecutes(i, result)
      PROVE  LedgerInv'
  <2>1. faults = 0 /\ stage' # "reconstruct"
    BY <1>1 DEF ClientExecutes
  <2>2. PICK at, origin, held : Traced(at, origin, held)
    BY <2>1 DEF LedgerInv
  <2>3. PICK at1, origin1, held1 : Traced(at1, origin1, held1)'
    BY <1>1, <2>2, ClientExecutesTraced
  <2> QED BY <2>1, <2>3, TracedIsEnough
<1>2. CASE ClientDamagesTranscript
  <2>1. faults' = faults + 1 /\ faults \in Nat
    BY <1>2 DEF ClientDamagesTranscript, ClientDamages, TypeOK
  <2> QED BY <2>1
<1>3. ASSUME NEW req \in Requests, ClientSends(req) PROVE LedgerInv'
  <2>1. UNCHANGED clientVars /\ faults = 0
    BY <1>3 DEF ClientSends, clientVars
  <2>2. PICK at, origin, held : Traced(at, origin, held)
    BY <2>1 DEF LedgerInv
  <2>3. Traced(at, origin, held)'
    BY <2>1, <2>2, TracedKept
  <2>4. receipts' = <<>> /\ position' = 1 /\ unpaired' = {}
    BY <1>3 DEF ClientSends, DropRequestState, FreshHarness
  <2>5. \A p \in DOMAIN transcript' : p \in Nat /\ ~(p < 1)
    <3>1. transcript' = transcript /\ transcript \in Seq(Message)
      BY <2>1 DEF clientVars, TypeOK
    <3> QED BY <3>1
  <2>6. DOMAIN executed' = 1..Len(executed') /\ Len(executed') \in Nat
    <3>1. executed' = executed /\ executed \in Seq([call: Calls, status: Statuses])
      BY <2>1 DEF clientVars, TypeOK
    <3> QED BY <3>1
  <2>7. at \in [DOMAIN executed' -> DOMAIN transcript']
    BY <2>3 DEF Traced, Executions
  <2>8. \A k \in DOMAIN executed' : at[k] < position' <=> k <= Len(receipts')
    BY <2>4, <2>5, <2>6, <2>7
  <2>9. Open(origin)' = {}
    <3>1. \A pl \in Proposed' : pl[1] \in DOMAIN transcript'
      BY DEF Proposed
    <3> QED BY <2>4, <2>5, <3>1 DEF Open
  <2>10. Len(receipts') <= Len(executed') /\ Agree'
    BY <2>4, <2>6 DEF Agree
  <2>11. Rebuilt(at, origin)'
    BY <2>4, <2>8, <2>9, <2>10 DEF Rebuilt
  <2> QED BY <2>3, <2>11 DEF LedgerInv
<1> QED BY <1>1, <1>2, <1>3 DEF ClientStep

LEMMA ReconstructLedger == TypeOK /\ LedgerInv /\ ReconstructMessage => LedgerInv'
<1> SUFFICES ASSUME TypeOK, LedgerInv, ReconstructMessage, faults' = 0 PROVE LedgerInv'
  BY DEF LedgerInv
<1>1. UNCHANGED clientVars /\ faults = 0
  BY DEF ReconstructMessage, clientVars
<1>2. PICK at, origin, held : Traced(at, origin, held) /\ Rebuilt(at, origin)
  BY <1>1 DEF LedgerInv
<1>3. Traced(at, origin, held)'
  BY <1>1, <1>2, TracedKept
<1>4. Rebuilt(at, origin)'
  BY <1>2, CallsRebuilt, ResultRebuilt DEF ReconstructMessage
<1> QED BY <1>3, <1>4 DEF LedgerInv

\* What a service step does to the client.
LEMMA StepLedger == TypeOK /\ LedgerInv /\ [Next]_vars => LedgerInv'
<1> SUFFICES ASSUME TypeOK, LedgerInv, [Next]_vars PROVE LedgerInv'
  OBVIOUS
<1>1. CASE ClientStep
  BY <1>1, ClientLedger
<1>2. CASE ServiceStep
  <2>1. CASE ReconstructMessage
    BY <2>1, ReconstructLedger
  <2>2. CASE \E batch \in Batches : ReleaseCalls(batch) \/ OffReleaseCalls(batch)
    <3>1. PICK batch \in Batches : ReleaseCalls(batch) \/ OffReleaseCalls(batch)
      BY <2>2
    <3>2. /\ stage' # "reconstruct" /\ awaiting' = awaiting \o batch
          /\ transcript' = Append(transcript, [role |-> "assistant", calls |-> batch])
          /\ UNCHANGED <<executed, faults>>
      BY <3>1 DEF ReleaseCalls, OffReleaseCalls, OffAttempt, Return
    <3> QED BY <3>2, BatchLedger
  <2>3. CASE \/ Project \/ EnterLoop \/ UpstreamFails \/ AttemptsExhausted
             \/ FinalizationProposesCalls
             \/ \E batch \in Batches : WithholdBatch(batch)
             \/ \E content \in Content : AcceptTerminal(content) \/ CorrectTerminal(content)
    <3>1. UNCHANGED clientVars /\ stage' # "reconstruct"
      BY <2>3 DEF Project, EnterLoop, UpstreamFails, AttemptsExhausted, FinalizationProposesCalls,
         WithholdBatch, AcceptTerminal, CorrectTerminal, CorrectOrGiveUp, Return, Continue
    <3> QED BY <3>1, LedgerKept
  <2>4. CASE \/ OffFails \/ OffStartFinalization \/ OffRetry
             \/ \E content \in Content : OffAcceptTerminal(content)
    <3>1. UNCHANGED clientVars /\ stage' # "reconstruct"
      BY <2>4 DEF OffFails, OffStartFinalization, OffRetry, OffAcceptTerminal, OffAttempt, Return,
         clientVars
    <3> QED BY <3>1, LedgerKept
  <2> QED BY <1>2, <2>1, <2>2, <2>3, <2>4 DEF ServiceStep
<1>3. CASE UNCHANGED vars
  <2> SUFFICES ASSUME faults' = 0 PROVE LedgerInv'
    BY DEF LedgerInv
  <2>1. /\ UNCHANGED <<clientVars, stage, degraded, receipts, executed, position, unpaired, transcript>>
        /\ faults = 0
    BY <1>3 DEF vars, clientVars, harnessVars, ledgerVars, rebuildVars
  <2>2. PICK at, origin, held : Traced(at, origin, held) /\ Rebuilt(at, origin)
    BY <2>1 DEF LedgerInv
  <2>3. Rebuilt(at, origin)'
    BY <2>1, <2>2 DEF Rebuilt, Agree, Open, Proposed, CallAt
  <2> QED BY <2>1, <2>2, <2>3, TracedKept DEF LedgerInv
<1> QED BY <1>1, <1>2, <1>3 DEF Next

LEMMA LedgerTraced == Spec => []LedgerInv
<1>1. Init => LedgerInv
  <2> SUFFICES ASSUME Init PROVE LedgerInv
    OBVIOUS
  <2>1. transcript = <<>> /\ awaiting = <<>> /\ executed = <<>> /\ stage = "idle"
    BY DEF Init
  <2>2. PICK f : f = [k \in {} |-> k]
    OBVIOUS
  <2>3. Executions(f, f)
    BY <2>1, <2>2 DEF Executions
  <2>4. Holdings(f, f)
    BY <2>1, <2>2 DEF Holdings
  <2>5. Rebuilt(f, f)
    BY <2>1 DEF Rebuilt
  <2> QED BY <2>3, <2>4, <2>5 DEF LedgerInv, Traced
<1>2. TypeOK /\ LedgerInv /\ [Next]_vars => LedgerInv'
  BY StepLedger
<1> QED BY <1>1, <1>2, TypeCorrect, PTL DEF Spec

-----------------------------------------------------------------------------
\* The reads since the last setback are counted while a check is unresolved.
ReadsCounted ==
  UnresolvedChecks(receipts) # {} =>
    IsFiniteSet(ReadsSinceSetback(receipts))
      /\ Cardinality(ReadsSinceSetback(receipts)) <= investigations

\* Nothing released was stalled, and a recovery answer claims the failures on record.
ReleasedUnstalled ==
  HarnessReleasedCalls =>
    \A k \in DOMAIN outcome.calls : ~Stalled(ToolOf[outcome.calls[k].call], request.tools)

ClaimMatches ==
  (outcome.kind = "terminal" /\ outcome.path = "harness" /\ request.format = "recovery")
    => outcome.content.claim = Cardinality(FailedReceipts)

HistoryInv == Followed /\ ReadsCounted /\ ReleasedUnstalled /\ ClaimMatches

\* A receipt that is no setback adds at most one read, and one that counts.
LEMMA RecordCountsReads ==
  ASSUME HarnessTypeOK, Summaries, ReadsCounted,
         NEW call \in Calls, NEW status \in Statuses, Record(call, status)
  PROVE  ReadsCounted'
<1> DEFINE receipt == [call |-> call, status |-> status, epoch |-> epoch]
           n == Len(receipts) + 1
           failedCheck == status = "failure" /\ ToolOf[call] \in Verification
           stillOpen == IF failedCheck THEN open_failures \cup {ToolOf[call]}
                        ELSE open_failures \ {ToolOf[call]}
           inspected == status = "success" /\ ToolOf[call] \in Investigation
                          /\ stillOpen \cap Verification # {}
           Setback(r) == Changed(r) \/ (IsCheck(r) /\ ~Passed(r))
           Read(r) == Passed(r) /\ ToolOf[r.call] \in Investigation
<1>1. /\ receipts \in Seq(Receipt) /\ receipts' = Append(receipts, receipt)
      /\ investigations \in Nat
      /\ investigations' = IF failedCheck \/ Changed(receipt) THEN 0
                           ELSE IF inspected THEN investigations + 1 ELSE investigations
  BY DEF HarnessTypeOK, Record
<1>2. /\ DOMAIN receipts = 1..Len(receipts) /\ Len(receipts) \in Nat
      /\ DOMAIN receipts' = 1..n /\ n \notin DOMAIN receipts
      /\ DOMAIN receipts' = DOMAIN receipts \cup {n}
      /\ \A i \in DOMAIN receipts : receipts'[i] = receipts[i] /\ i < n /\ i \in Nat
      /\ receipts'[n] = receipt
  BY <1>1
<1>3. /\ \A i \in DOMAIN receipts : Setback(receipts'[i]) <=> Setback(receipts[i])
      /\ \A i \in DOMAIN receipts : Read(receipts'[i]) <=> Read(receipts[i])
  BY <1>2
<1>4. Setback(receipt) <=> failedCheck \/ Changed(receipt)
  BY DEF Statuses, IsCheck, Passed
<1>5. /\ ReadsSinceSetback(receipts) =
           {i \in DOMAIN receipts :
              /\ \A s \in DOMAIN receipts : Setback(receipts[s]) => s < i
              /\ Read(receipts[i])}
      /\ ReadsSinceSetback(receipts)' =
           {i \in DOMAIN receipts' :
              /\ \A s \in DOMAIN receipts' : Setback(receipts'[s]) => s < i
              /\ Read(receipts'[i])}
  BY DEF ReadsSinceSetback, Changed, IsCheck, Passed
<1>6. CASE Setback(receipt)
  <2>1. ReadsSinceSetback(receipts)' = {}
    BY <1>2, <1>5, <1>6
  <2>2. investigations' = 0
    BY <1>1, <1>4, <1>6
  <2>3. Cardinality({}) = 0 /\ IsFiniteSet({})
    BY FS_EmptySet
  <2> QED BY <2>1, <2>2, <2>3 DEF ReadsCounted
<1>7. CASE ~Setback(receipt)
  <2> SUFFICES ASSUME UnresolvedChecks(receipts)' # {}
               PROVE  /\ IsFiniteSet(ReadsSinceSetback(receipts)')
                      /\ Cardinality(ReadsSinceSetback(receipts)') <= investigations'
    BY DEF ReadsCounted
  <2>1. PICK f \in DOMAIN receipts' :
          /\ IsCheck(receipts'[f]) /\ ~Passed(receipts'[f])
          /\ \A v \in DOMAIN receipts' :
               v > f /\ ToolOf[receipts'[v].call] = ToolOf[receipts'[f].call] => ~Passed(receipts'[v])
    BY DEF UnresolvedChecks, IsCheck, Passed
  <2>2. f # n
    BY <1>2, <1>7, <2>1
  <2>3. f \in DOMAIN receipts /\ receipts'[f] = receipts[f]
    BY <1>2, <2>1, <2>2
  <2>4. \A v \in DOMAIN receipts :
          v > f /\ ToolOf[receipts[v].call] = ToolOf[receipts[f].call] => ~Passed(receipts[v])
    BY <1>2, <2>1, <2>3
  <2>5. f \in UnresolvedChecks(receipts)
    BY <2>1, <2>3, <2>4 DEF UnresolvedChecks
  <2>6. ToolOf[receipts[f].call] \in open_failures
    BY <2>1, <2>3, <2>4 DEF Summaries, FailuresListed
  <2>7. /\ IsFiniteSet(ReadsSinceSetback(receipts))
        /\ Cardinality(ReadsSinceSetback(receipts)) <= investigations
    BY <2>5 DEF ReadsCounted
  <2>8. ~failedCheck /\ ~Changed(receipt)
    BY <1>4, <1>7
  <2>9. CASE Read(receipt)
    <3>1. ReadsSinceSetback(receipts)' = ReadsSinceSetback(receipts) \cup {n}
      BY <1>2, <1>3, <1>5, <1>7, <2>9
    <3>2. n \notin ReadsSinceSetback(receipts)
      BY <1>2, <1>5
    <3>3. ToolOf[receipts[f].call] \in Verification
      BY <2>1, <2>3 DEF IsCheck
    <3>4. ToolOf[call] \in Investigation /\ status = "success"
      BY <2>9 DEF Passed
    <3>5. inspected
      BY <2>6, <2>8, <3>3, <3>4, RolesAssumption
    <3>6. investigations' = investigations + 1
      BY <1>1, <2>8, <3>5
    <3>7. /\ IsFiniteSet(ReadsSinceSetback(receipts) \cup {n})
          /\ Cardinality(ReadsSinceSetback(receipts) \cup {n})
               = Cardinality(ReadsSinceSetback(receipts)) + 1
      BY <2>7, <3>2, FS_AddElement
    <3>8. Cardinality(ReadsSinceSetback(receipts)) \in Nat
      BY <2>7, FS_CardinalityType
    <3>9. PICK c : c = Cardinality(ReadsSinceSetback(receipts))
      OBVIOUS
    <3>10. IsFiniteSet(ReadsSinceSetback(receipts)')
      BY <3>1, <3>7
    <3>11. Cardinality(ReadsSinceSetback(receipts)') = c + 1
      BY <3>1, <3>7, <3>9
    <3>12. c \in Nat /\ c <= investigations
      BY <2>7, <3>8, <3>9
    <3> HIDE DEF n, receipt, failedCheck, stillOpen, inspected
    <3> QED BY <1>1, <3>6, <3>10, <3>11, <3>12
  <2>10. CASE ~Read(receipt)
    <3>1. ReadsSinceSetback(receipts)' = ReadsSinceSetback(receipts)
      BY <1>2, <1>3, <1>5, <1>7, <2>10
    <3>2. inspected => Read(receipt)
      BY DEF Passed
    <3>3. investigations' = investigations
      BY <1>1, <2>8, <2>10, <3>2
    <3> QED BY <2>7, <3>1, <3>3
  <2> QED BY <2>9, <2>10
<1> QED BY <1>6, <1>7

LEMMA LedgerCountKept ==
  ASSUME ReadsCounted, UNCHANGED ledgerVars PROVE ReadsCounted'
<1>1. UNCHANGED <<receipts, investigations>>
  BY DEF ledgerVars
<1> QED
  BY <1>1 DEF ReadsCounted, UnresolvedChecks, ReadsSinceSetback, Changed, IsCheck, Passed

LEMMA NoReceiptsNoReads == ASSUME receipts' = <<>> PROVE ReadsCounted'
BY DEF ReadsCounted, UnresolvedChecks

\* A step that releases nothing on the harness path has no answer to justify.
LEMMA NothingReleased ==
  ASSUME \/ outcome' \in {NoOutcome, Failed}
         \/ \E during, content : outcome' = ReleasedTerminal("off", content, during)
         \/ \E batch : outcome' = ReleasedCalls("off", batch)
  PROVE  /\ ~HarnessAnswered' /\ ~HarnessReleasedCalls'
         /\ ReleasedUnstalled' /\ ClaimMatches'
BY DEF HarnessAnswered, HarnessReleasedCalls, ReleasedUnstalled, ClaimMatches, NoOutcome, Failed,
       ReleasedTerminal, ReleasedCalls

\* In the loop and after it the ledger and the history stand still.
LEMMA LoopFollows ==
  ASSUME Followed, stage = "loop", UNCHANGED <<ledgerVars, executed, faults, rebuildVars>>
  PROVE  Followed'
<1>1. UNCHANGED <<receipts, degraded, unpaired>>
  BY DEF ledgerVars, rebuildVars
<1> QED BY <1>1 DEF Followed, Honest, Degraded, SameHistory, Agree

LEMMA ReadFollows ==
  ASSUME TypeOK, LedgerInv, Reconstructed, UNCHANGED <<ledgerVars, executed, faults, rebuildVars>>
  PROVE  Followed'
<1>1. UNCHANGED <<receipts, degraded, unpaired>>
  BY DEF ledgerVars, rebuildVars
<1>2. Honest => SameHistory
  BY ReadIsSame DEF Reconstructed
<1> QED BY <1>1, <1>2 DEF Followed, Honest, Degraded, SameHistory, Agree

-----------------------------------------------------------------------------
LEMMA ClientHistory == ClientStep => HistoryInv'
<1> SUFFICES ASSUME ClientStep PROVE HistoryInv'
  OBVIOUS
<1>1. DropRequestState /\ outcome' \in {NoOutcome, Failed} /\ stage' # "loop"
  BY DEF ClientStep, ClientExecutes, ClientDamagesTranscript, ClientDamages, ClientSends
<1>2. ReadsCounted'
  BY <1>1, NoReceiptsNoReads DEF DropRequestState, FreshHarness
<1>3. Followed'
  BY <1>1, NothingReleased DEF Followed
<1> QED BY <1>1, <1>2, <1>3, NothingReleased DEF HistoryInv

LEMMA ReconstructHistory == IInv /\ HistoryInv /\ ReconstructMessage => HistoryInv'
<1> SUFFICES ASSUME IInv, HistoryInv, ReconstructMessage PROVE HistoryInv'
  OBVIOUS
<1>1. outcome' \in {NoOutcome, Failed} /\ stage' # "loop"
  BY DEF ReconstructMessage, IInv, AnswerInv, AnswerOnlyWhenIdle
<1>2. Followed'
  BY <1>1, NothingReleased DEF Followed
<1>3. ReadsCounted'
  <2>1. CASE UNCHANGED harnessVars
    BY <2>1, LedgerCountKept DEF HistoryInv, harnessVars
  <2>2. ASSUME NEW p \in unpaired, ReconstructResult,
               Record(p.call, ReceiptStatus(transcript[position].result))
        PROVE  ReadsCounted'
    <3>1. p.call \in Calls
      BY DEF IInv, TypeOK
    <3>2. transcript[position].result \in Results
      <4>1. transcript[position] \in ToolMessage
        BY <2>2 DEF IInv, TypeOK, ReconstructMessage, ReconstructResult, Message, AssistantMessage
      <4> QED BY <4>1 DEF ToolMessage
    <3>3. ReceiptStatus(transcript[position].result) \in Statuses
      BY <3>2, StatusType
    <3> QED BY <2>2, <3>1, <3>3, RecordCountsReads DEF IInv, TypeOK, HistoryInv
  <2> QED BY <2>1, <2>2 DEF ReconstructMessage, ReconstructCalls, ReconstructResult
<1> QED BY <1>1, <1>2, <1>3, NothingReleased DEF HistoryInv

\* Entering the loop, or answering at once: what was read is the history.
LEMMA ReadHistory == IInv /\ LedgerInv /\ HistoryInv /\ (Project \/ EnterLoop) => HistoryInv'
<1> SUFFICES ASSUME IInv, LedgerInv, HistoryInv, Project \/ EnterLoop PROVE HistoryInv'
  OBVIOUS
<1>1. Reconstructed /\ UNCHANGED <<ledgerVars, executed, faults, rebuildVars>>
  BY DEF Project, EnterLoop, harnessVars, clientVars
<1>2. Followed' /\ ReadsCounted'
  BY <1>1, ReadFollows, LedgerCountKept DEF IInv, HistoryInv
<1>3. outcome' = Projected \/ outcome' = NoOutcome
  BY DEF Project, EnterLoop, Reconstructed, IInv, AnswerInv, AnswerOnlyWhenIdle
<1>4. ReleasedUnstalled' /\ ClaimMatches'
  BY <1>3 DEF ReleasedUnstalled, ClaimMatches, HarnessReleasedCalls, Projected, NoOutcome
<1> QED BY <1>2, <1>4 DEF HistoryInv

LEMMA LoopHistory ==
  ASSUME IInv, HistoryInv,
         \/ UpstreamFails \/ FinalizationProposesCalls
         \/ \E batch \in Batches : WithholdBatch(batch)
         \/ \E content \in Content : CorrectTerminal(content)
  PROVE  HistoryInv'
<1>1. /\ stage = "loop" /\ UNCHANGED <<ledgerVars, executed, faults, rebuildVars>>
      /\ outcome' = outcome \/ outcome' = Failed
  BY DEF UpstreamFails, FinalizationProposesCalls, WithholdBatch, CorrectTerminal, CorrectOrGiveUp,
         Attempt, Return, Continue, JudgeBatch, harnessVars, clientVars
<1>2. outcome' \in {NoOutcome, Failed}
  BY <1>1 DEF IInv, AnswerInv, AnswerOnlyWhenIdle
<1> QED BY <1>1, <1>2, LoopFollows, LedgerCountKept, NothingReleased DEF HistoryInv

LEMMA ReleaseHistory ==
  ASSUME IInv, HistoryInv, NEW batch \in Batches, ReleaseCalls(batch)
  PROVE  HistoryInv'
<1>1. /\ stage = "loop" /\ UNCHANGED <<ledgerVars, executed, faults, rebuildVars, request>>
      /\ outcome' = ReleasedCalls("harness", batch)
  BY DEF ReleaseCalls, Attempt, Return, JudgeBatch
<1>2. ASSUME NEW k \in DOMAIN batch
      PROVE  ~Stalled(ToolOf[batch[k].call], request.tools)
  <2>1. Verdict(batch[k].call) = "allowed"
    BY DEF ReleaseCalls, Allowed, With
  <2> QED BY <2>1 DEF Verdict
<1>3. ReleasedUnstalled' /\ ClaimMatches'
  <2>1. UNCHANGED <<open_failures, investigations>>
    BY <1>1 DEF ledgerVars
  <2> QED
    BY <1>1, <1>2, <2>1 DEF ReleasedUnstalled, ClaimMatches, ReleasedCalls, Stalled
<1> QED BY <1>1, <1>3, LoopFollows, LedgerCountKept DEF HistoryInv

LEMMA AcceptHistory ==
  ASSUME IInv, HistoryInv, NEW content \in Content, AcceptTerminal(content)
  PROVE  HistoryInv'
<1>1. /\ stage = "loop" /\ UNCHANGED <<ledgerVars, executed, faults, rebuildVars, request>>
      /\ outcome' = ReleasedTerminal("harness", content, AttemptPhase)
  BY DEF AcceptTerminal, Attempt, Return, harnessVars, clientVars
<1>2. request.format = "recovery" => content.claim = Cardinality(FailedReceipts)
  BY DEF AcceptTerminal, ContentIssue, Keyed
<1>3. FailedReceipts' = FailedReceipts
  BY <1>1 DEF FailedReceipts, ledgerVars
<1>4. ReleasedUnstalled' /\ ClaimMatches'
  BY <1>1, <1>2, <1>3 DEF ReleasedUnstalled, HarnessReleasedCalls, ClaimMatches, ReleasedTerminal
<1> QED BY <1>1, <1>4, LoopFollows, LedgerCountKept DEF HistoryInv

LEMMA OffHistory ==
  ASSUME IInv, HistoryInv,
         \/ OffFails \/ OffStartFinalization \/ OffRetry
         \/ \E batch \in Batches : OffReleaseCalls(batch)
         \/ \E content \in Content : OffAcceptTerminal(content)
  PROVE  HistoryInv'
<1>1. UNCHANGED ledgerVars /\ stage = "off" /\ stage' # "loop" /\ outcome = NoOutcome
  BY DEF OffFails, OffStartFinalization, OffRetry, OffReleaseCalls, OffAcceptTerminal, OffAttempt,
         Return, harnessVars, IInv, AnswerInv, AnswerOnlyWhenIdle
<1>2. \/ outcome' \in {NoOutcome, Failed}
      \/ \E during, content : outcome' = ReleasedTerminal("off", content, during)
      \/ \E batch : outcome' = ReleasedCalls("off", batch)
  BY <1>1 DEF OffFails, OffStartFinalization, OffRetry, OffReleaseCalls, OffAcceptTerminal, Return
<1>3. Followed'
  BY <1>1, <1>2, NothingReleased DEF Followed
<1> QED BY <1>1, <1>2, <1>3, NothingReleased, LedgerCountKept DEF HistoryInv

LEMMA ExhaustedHistory == IInv /\ HistoryInv /\ AttemptsExhausted => HistoryInv'
<1> SUFFICES ASSUME IInv, HistoryInv, AttemptsExhausted PROVE HistoryInv'
  OBVIOUS
<1>1. UNCHANGED ledgerVars /\ stage' # "loop" /\ outcome' \in {NoOutcome, Failed}
  BY DEF AttemptsExhausted, Return, harnessVars
<1>2. Followed'
  BY <1>1, NothingReleased DEF Followed
<1> QED BY <1>1, <1>2, NothingReleased, LedgerCountKept DEF HistoryInv

LEMMA StepHistory == IInv /\ LedgerInv /\ HistoryInv /\ [Next]_vars => HistoryInv'
<1> SUFFICES ASSUME IInv, LedgerInv, HistoryInv, [Next]_vars PROVE HistoryInv'
  OBVIOUS
<1>1. CASE ServiceStep
  BY <1>1, ReconstructHistory, ReadHistory, LoopHistory, ReleaseHistory, AcceptHistory, OffHistory,
     ExhaustedHistory DEF ServiceStep
<1>2. CASE UNCHANGED vars
  <2>1. UNCHANGED <<ledgerVars, receipts, executed, faults, degraded, unpaired, stage, outcome,
                    request, open_failures, investigations>>
    BY <1>2 DEF vars, harnessVars, ledgerVars, clientVars, rebuildVars
  <2>2. Followed'
    BY <2>1 DEF HistoryInv, Followed, Honest, Degraded, SameHistory, Agree, HarnessAnswered,
       HarnessReleasedCalls
  <2>3. ReleasedUnstalled' /\ ClaimMatches'
    BY <2>1 DEF HistoryInv, ReleasedUnstalled, ClaimMatches, HarnessReleasedCalls, Stalled,
       FailedReceipts
  <2> QED BY <2>1, <2>2, <2>3, LedgerCountKept DEF HistoryInv
<1> QED BY <1>1, <1>2, ClientHistory DEF Next

LEMMA HistoryFollowed == Spec => []HistoryInv
<1>1. Init => HistoryInv
  BY DEF Init, HistoryInv, Followed, ReadsCounted, UnresolvedChecks, ReleasedUnstalled, ClaimMatches,
         HarnessAnswered, HarnessReleasedCalls, NoOutcome
<1>2. IInv /\ LedgerInv /\ HistoryInv /\ [Next]_vars => HistoryInv'
  BY StepHistory
<1> QED BY <1>1, <1>2, Invariant, LedgerTraced, PTL DEF Spec

-----------------------------------------------------------------------------
\* What the gates read off the receipts holds of a history they repeat.
LEMMA SameJudgement ==
  ASSUME TypeOK, SameHistory
  PROVE  /\ UnresolvedChecks(executed) = UnresolvedChecks(receipts)
         /\ ReadsSinceSetback(executed) = ReadsSinceSetback(receipts)
         /\ Verified(receipts) => Verified(executed)
         /\ FailedReceipts = {i \in DOMAIN executed : ~Passed(executed[i])}
<1>1. /\ DOMAIN receipts = DOMAIN executed /\ Len(receipts) = Len(executed)
      /\ (executed # <<>> => receipts # <<>> /\ Len(receipts) \in DOMAIN receipts)
  BY DEF SameHistory, TypeOK, HarnessTypeOK
<1>2. \A i \in DOMAIN receipts : /\ receipts[i].call = executed[i].call
                                 /\ receipts[i].status = executed[i].status
                                 /\ receipts[i].status \in Statuses
  <2>1. \A i \in DOMAIN receipts : receipts[i] \in Receipt
    BY DEF TypeOK, HarnessTypeOK
  <2> QED BY <2>1 DEF SameHistory, Agree, Receipt
<1>3. \A i \in DOMAIN receipts : /\ IsCheck(receipts[i]) <=> IsCheck(executed[i])
                                 /\ Passed(receipts[i]) <=> Passed(executed[i])
                                 /\ Changed(receipts[i]) <=> Changed(executed[i])
                                 /\ ToolOf[receipts[i].call] = ToolOf[executed[i].call]
  BY <1>2 DEF IsCheck, Passed, Changed
<1>4. UnresolvedChecks(executed) = UnresolvedChecks(receipts)
  BY <1>1, <1>3 DEF UnresolvedChecks
<1>5. ReadsSinceSetback(executed) = ReadsSinceSetback(receipts)
  BY <1>1, <1>3 DEF ReadsSinceSetback
<1>6. Verified(receipts) => Verified(executed)
  BY <1>1, <1>3 DEF Verified
<1>7. FailedReceipts = {i \in DOMAIN executed : ~Passed(executed[i])}
  BY <1>1, <1>2 DEF FailedReceipts, Passed, Statuses
<1> QED BY <1>4, <1>5, <1>6, <1>7

\* transcript.reconstruct: from a transcript the client did not damage, and without a
\* warning, the proxy rebuilds exactly the calls the client executed, in their order and
\* with their results, however ids repeat and results are reordered.
THEOREM LedgerIsFaithful == Spec => []LedgerFaithful
<1>1. TypeOK /\ LedgerInv /\ HistoryInv => LedgerFaithful
  <2> SUFFICES ASSUME TypeOK, LedgerInv, HistoryInv, Honest,
                      stage \in {"reconstruct", "loop"}, position > Len(transcript)
               PROVE  [i \in DOMAIN receipts |->
                         [call |-> receipts[i].call, status |-> receipts[i].status]] = executed
    BY DEF LedgerFaithful
  <2>1. SameHistory
    BY ReadIsSame DEF HistoryInv, Followed
  <2>2. /\ DOMAIN receipts = DOMAIN executed
        /\ \A i \in DOMAIN receipts : /\ receipts[i].call = executed[i].call
                                      /\ receipts[i].status = executed[i].status
        /\ executed \in Seq([call: Calls, status: Statuses])
    BY <2>1 DEF SameHistory, Agree, TypeOK, HarnessTypeOK
  <2>3. \A i \in DOMAIN executed :
          executed[i] = [call |-> executed[i].call, status |-> executed[i].status]
    <3>1. \A i \in DOMAIN executed : executed[i] \in [call: Calls, status: Statuses]
      BY <2>2, MembersTyped
    <3> QED BY <3>1
  <2>4. executed = [i \in DOMAIN executed |-> executed[i]]
    BY <2>2
  <2> QED BY <2>2, <2>3, <2>4
<1> QED BY <1>1, TypeCorrect, LedgerTraced, HistoryFollowed, PTL

\* policy.md "a terminal answer cannot follow ...", of the client's own history: with an
\* undamaged transcript an answer rests on what was executed, not only on the receipts.
THEOREM AnswersFollowExecution == Spec => []AnswerFollowsExecution
<1>1. IInv /\ HistoryInv => AnswerFollowsExecution
  BY SameJudgement DEF IInv, AnswerInv, TerminalFollowsVerification, HistoryInv, Followed,
     AnswerFollowsExecution
<1> QED BY <1>1, Invariant, HistoryFollowed, PTL

\* AgentHarness.terminal_issue, of the client's own history: a recovery answer reports
\* exactly the failures the client saw.
THEOREM FailureClaimsAreTrue == Spec => []FailureClaimIsTrue
<1>1. TypeOK /\ HistoryInv => FailureClaimIsTrue
  <2> SUFFICES ASSUME TypeOK, HistoryInv, outcome.kind = "terminal", outcome.path = "harness",
                      Honest, request.format = "recovery"
               PROVE  outcome.content.claim
                        = Cardinality({i \in DOMAIN executed : ~Passed(executed[i])})
    BY DEF FailureClaimIsTrue
  <2>1. SameHistory
    BY DEF HistoryInv, Followed, HarnessAnswered
  <2>2. outcome.content.claim = Cardinality(FailedReceipts)
    BY DEF HistoryInv, ClaimMatches
  <2> QED BY <2>1, <2>2, SameJudgement
<1> QED BY <1>1, TypeCorrect, HistoryFollowed, PTL

\* policy.md "repeated investigation", of the client's own history: with an unresolved
\* check and three reads since the last setback, no further read reaches the client while
\* a mutation is offered.
THEOREM StalledReadsWithheld == Spec => []StalledReadsAreWithheld
<1>1. IInv /\ HistoryInv => StalledReadsAreWithheld
  <2> SUFFICES ASSUME IInv, HistoryInv, HarnessReleasedCalls, Honest,
                      request.tools \cap Mutation # {}, UnresolvedChecks(executed) # {},
                      Cardinality(ReadsSinceSetback(executed)) >= StallThreshold,
                      NEW k \in DOMAIN outcome.calls
               PROVE  ToolOf[outcome.calls[k].call] \notin Investigation
    BY DEF StalledReadsAreWithheld
  <2>1. /\ UnresolvedChecks(receipts) # {}
        /\ Cardinality(ReadsSinceSetback(receipts)) >= StallThreshold
    <3>1. SameHistory
      BY DEF HistoryInv, Followed
    <3> QED BY <3>1, SameJudgement DEF IInv
  <2>2. investigations >= StallThreshold
    <3>1. /\ IsFiniteSet(ReadsSinceSetback(receipts))
          /\ Cardinality(ReadsSinceSetback(receipts)) <= investigations
      BY <2>1 DEF HistoryInv, ReadsCounted
    <3>2. Cardinality(ReadsSinceSetback(receipts)) \in Nat /\ investigations \in Nat
      BY <3>1, FS_CardinalityType DEF IInv, TypeOK, HarnessTypeOK
    <3> QED BY <2>1, <3>1, <3>2 DEF StallThreshold
  <2>3. open_failures \cap Verification # {}
    <3>1. PICK f \in DOMAIN receipts :
            /\ IsCheck(receipts[f]) /\ ~Passed(receipts[f])
            /\ \A v \in DOMAIN receipts :
                 v > f /\ ToolOf[receipts[v].call] = ToolOf[receipts[f].call] => ~Passed(receipts[v])
      BY <2>1 DEF UnresolvedChecks
    <3>2. ToolOf[receipts[f].call] \in open_failures
      BY <3>1 DEF IInv, Summaries, FailuresListed
    <3> QED BY <3>1, <3>2 DEF IsCheck
  <2>4. ~Stalled(ToolOf[outcome.calls[k].call], request.tools)
    BY DEF HistoryInv, ReleasedUnstalled
  <2> QED BY <2>2, <2>3, <2>4 DEF Stalled
<1> QED BY <1>1, Invariant, HistoryFollowed, PTL

-----------------------------------------------------------------------------
\* Epochs grow along the ledger, and only a change ends one.
EpochsGrow ==
  /\ \A i, j \in DOMAIN receipts : i <= j => receipts[i].epoch <= receipts[j].epoch
  /\ \A i \in DOMAIN receipts : receipts[i].epoch <= epoch
  /\ \A m \in DOMAIN receipts : Changed(receipts[m]) => receipts[m].epoch < epoch

\* Each open failure is a check of the ledger that has not passed since.
FailuresReal ==
  \A tool \in open_failures : tool \in Verification =>
    \E f \in UnresolvedChecks(receipts) : ToolOf[receipts[f].call] = tool

\* No read is counted twice, or kept over a setback.
ReadsReal ==
  /\ IsFiniteSet(ReadsSinceSetback(receipts))
  /\ investigations <= Cardinality(ReadsSinceSetback(receipts))

CauseInv == EpochsGrow /\ FailuresReal /\ ReadsReal

LEMMA RecordKeepsCause ==
  ASSUME HarnessTypeOK, CauseInv, NEW call \in Calls, NEW status \in Statuses, Record(call, status)
  PROVE  CauseInv'
<1> DEFINE receipt == [call |-> call, status |-> status, epoch |-> epoch]
           n == Len(receipts) + 1
           failedCheck == status = "failure" /\ ToolOf[call] \in Verification
           stillOpen == IF failedCheck THEN open_failures \cup {ToolOf[call]}
                        ELSE open_failures \ {ToolOf[call]}
           inspected == status = "success" /\ ToolOf[call] \in Investigation
                          /\ stillOpen \cap Verification # {}
           Setback(r) == Changed(r) \/ (IsCheck(r) /\ ~Passed(r))
           Read(r) == Passed(r) /\ ToolOf[r.call] \in Investigation
<1>1. /\ receipts \in Seq(Receipt) /\ receipts' = Append(receipts, receipt)
      /\ investigations \in Nat /\ epoch \in Nat
      /\ epoch' = IF Changed(receipt) THEN epoch + 1 ELSE epoch
      /\ open_failures' = stillOpen
      /\ investigations' = IF failedCheck \/ Changed(receipt) THEN 0
                           ELSE IF inspected THEN investigations + 1 ELSE investigations
  BY DEF HarnessTypeOK, Record
<1>2. /\ DOMAIN receipts = 1..Len(receipts) /\ Len(receipts) \in Nat
      /\ DOMAIN receipts' = 1..n /\ n \notin DOMAIN receipts
      /\ DOMAIN receipts' = DOMAIN receipts \cup {n}
      /\ \A i \in DOMAIN receipts : receipts'[i] = receipts[i] /\ i < n /\ i \in Nat
      /\ receipts'[n] = receipt
  BY <1>1
<1>3. /\ \A i \in DOMAIN receipts : receipts[i].epoch \in Nat
      /\ receipt.epoch = epoch /\ receipt.call = call /\ receipt.status = status
  <2>1. \A i \in DOMAIN receipts : receipts[i] \in Receipt
    BY <1>1
  <2> QED BY <2>1 DEF Receipt
<1>4. EpochsGrow'
  <2>1. epoch <= epoch' /\ epoch' \in Nat /\ (Changed(receipt) => epoch < epoch')
    BY <1>1
  <2>2. \A i \in DOMAIN receipts' : receipts'[i].epoch \in Nat /\ receipts'[i].epoch <= epoch
    BY <1>1, <1>2, <1>3 DEF CauseInv, EpochsGrow
  <2>3. \A i, j \in DOMAIN receipts' : i <= j => receipts'[i].epoch <= receipts'[j].epoch
    <3>1. ASSUME NEW i \in DOMAIN receipts', NEW j \in DOMAIN receipts', i <= j
          PROVE  receipts'[i].epoch <= receipts'[j].epoch
      <4>1. CASE j = n
        BY <1>2, <1>3, <2>2, <4>1
      <4>2. CASE j # n
        <5>1. i \in DOMAIN receipts /\ j \in DOMAIN receipts
          BY <1>2, <3>1, <4>2
        <5> QED BY <1>2, <3>1, <5>1 DEF CauseInv, EpochsGrow
      <4> QED BY <4>1, <4>2
    <3> QED BY <3>1
  <2>4. \A m \in DOMAIN receipts' : Changed(receipts'[m]) => receipts'[m].epoch < epoch'
    <3>1. ASSUME NEW m \in DOMAIN receipts', Changed(receipts'[m]), m # n
          PROVE  receipts'[m].epoch < epoch'
      <4>1. m \in DOMAIN receipts /\ receipts'[m] = receipts[m]
        BY <1>2, <3>1
      <4>2. receipts[m].epoch < epoch
        BY <3>1, <4>1 DEF CauseInv, EpochsGrow
      <4> QED BY <1>1, <1>3, <2>1, <4>1, <4>2
    <3>2. Changed(receipts'[n]) => receipts'[n].epoch < epoch'
      BY <1>2, <1>3, <2>1
    <3> QED BY <3>1, <3>2
  <2>5. \A i \in DOMAIN receipts' : receipts'[i].epoch <= epoch'
    BY <1>1, <2>1, <2>2
  <2> QED BY <2>3, <2>4, <2>5 DEF EpochsGrow, Changed, Passed
<1>5. FailuresReal'
  <2> SUFFICES ASSUME NEW tool \in stillOpen, tool \in Verification
               PROVE  \E f \in UnresolvedChecks(receipts)' : ToolOf[receipts'[f].call] = tool
    BY <1>1 DEF FailuresReal
  <2>1. UnresolvedChecks(receipts)' =
          {f \in DOMAIN receipts' :
             /\ IsCheck(receipts'[f]) /\ ~Passed(receipts'[f])
             /\ \A v \in DOMAIN receipts' :
                  v > f /\ ToolOf[receipts'[v].call] = ToolOf[receipts'[f].call]
                    => ~Passed(receipts'[v])}
    BY DEF UnresolvedChecks, IsCheck, Passed
  <2>2. CASE failedCheck /\ tool = ToolOf[call]
    <3>1. IsCheck(receipts'[n]) /\ ~Passed(receipts'[n]) /\ ToolOf[receipts'[n].call] = tool
      BY <1>2, <1>3, <2>2 DEF IsCheck, Passed
    <3>2. \A v \in DOMAIN receipts' : ~(v > n)
      BY <1>2
    <3>3. n \in UnresolvedChecks(receipts)'
      BY <1>2, <2>1, <3>1, <3>2
    <3> QED BY <3>1, <3>3
  <2>3. CASE ~(failedCheck /\ tool = ToolOf[call])
    <3>1. tool \in open_failures /\ (tool = ToolOf[call] => failedCheck)
      BY <2>3
    <3>2. tool # ToolOf[call]
      BY <2>3, <3>1
    <3>3. PICK f \in UnresolvedChecks(receipts) : ToolOf[receipts[f].call] = tool
      BY <3>1 DEF CauseInv, FailuresReal
    <3>4. /\ f \in DOMAIN receipts /\ IsCheck(receipts[f]) /\ ~Passed(receipts[f])
          /\ \A v \in DOMAIN receipts :
               v > f /\ ToolOf[receipts[v].call] = ToolOf[receipts[f].call] => ~Passed(receipts[v])
      BY DEF UnresolvedChecks
    <3>5. receipts'[f] = receipts[f] /\ f \in DOMAIN receipts'
      BY <1>2, <3>4
    <3>6. ToolOf[receipts'[n].call] # tool
      BY <1>2, <1>3, <3>2
    <3>7. ASSUME NEW v \in DOMAIN receipts', v > f, ToolOf[receipts'[v].call] = ToolOf[receipts'[f].call]
          PROVE  ~Passed(receipts'[v])
      <4>1. v # n
        BY <3>3, <3>5, <3>6, <3>7
      <4>2. v \in DOMAIN receipts /\ receipts'[v] = receipts[v]
        BY <1>2, <4>1
      <4> QED BY <3>4, <3>5, <3>7, <4>2
    <3>8. f \in UnresolvedChecks(receipts)'
      BY <2>1, <3>4, <3>5, <3>7
    <3> QED BY <3>3, <3>5, <3>8
  <2> QED BY <2>2, <2>3
<1>6. /\ \A i \in DOMAIN receipts : Setback(receipts'[i]) <=> Setback(receipts[i])
      /\ \A i \in DOMAIN receipts : Read(receipts'[i]) <=> Read(receipts[i])
  BY <1>2
<1>7. Setback(receipt) <=> failedCheck \/ Changed(receipt)
  BY DEF Statuses, IsCheck, Passed
<1>8. /\ ReadsSinceSetback(receipts) =
           {i \in DOMAIN receipts :
              /\ \A s \in DOMAIN receipts : Setback(receipts[s]) => s < i
              /\ Read(receipts[i])}
      /\ ReadsSinceSetback(receipts)' =
           {i \in DOMAIN receipts' :
              /\ \A s \in DOMAIN receipts' : Setback(receipts'[s]) => s < i
              /\ Read(receipts'[i])}
  BY DEF ReadsSinceSetback, Changed, IsCheck, Passed
<1>9. /\ IsFiniteSet(ReadsSinceSetback(receipts))
      /\ investigations <= Cardinality(ReadsSinceSetback(receipts))
  BY DEF CauseInv, ReadsReal
<1>10. PICK c : c = Cardinality(ReadsSinceSetback(receipts))
  OBVIOUS
<1>11. c \in Nat /\ investigations <= c
  BY <1>9, <1>10, FS_CardinalityType
<1>12. CASE Setback(receipt)
  <2>1. ReadsSinceSetback(receipts)' = {}
    BY <1>2, <1>8, <1>12
  <2>2. investigations' = 0
    BY <1>1, <1>7, <1>12
  <2>3. Cardinality({}) = 0 /\ IsFiniteSet({})
    BY FS_EmptySet
  <2>4. ReadsReal'
    BY <2>1, <2>2, <2>3 DEF ReadsReal
  <2> QED BY <1>4, <1>5, <2>4 DEF CauseInv
<1>13. CASE ~Setback(receipt)
  <2>1. ~failedCheck /\ ~Changed(receipt)
    BY <1>7, <1>13
  <2>2. CASE Read(receipt)
    <3>1. ReadsSinceSetback(receipts)' = ReadsSinceSetback(receipts) \cup {n}
      BY <1>2, <1>6, <1>8, <1>13, <2>2
    <3>2. n \notin ReadsSinceSetback(receipts)
      BY <1>2, <1>8
    <3>3. /\ IsFiniteSet(ReadsSinceSetback(receipts) \cup {n})
          /\ Cardinality(ReadsSinceSetback(receipts) \cup {n})
               = Cardinality(ReadsSinceSetback(receipts)) + 1
      BY <1>9, <3>2, FS_AddElement
    <3>4. investigations' \in {investigations, investigations + 1}
      BY <1>1, <2>1
    <3>5. IsFiniteSet(ReadsSinceSetback(receipts)') /\ Cardinality(ReadsSinceSetback(receipts)') = c + 1
      BY <1>10, <3>1, <3>3
    <3>6. investigations' <= c + 1
      BY <1>1, <1>11, <3>4
    <3>7. ReadsReal'
      BY <3>5, <3>6 DEF ReadsReal
    <3> QED BY <1>4, <1>5, <3>7 DEF CauseInv
  <2>3. CASE ~Read(receipt)
    <3>1. ReadsSinceSetback(receipts)' = ReadsSinceSetback(receipts)
      BY <1>2, <1>6, <1>8, <1>13, <2>3
    <3>2. inspected => Read(receipt)
      BY DEF Passed
    <3>3. investigations' = investigations
      BY <1>1, <2>1, <2>3, <3>2
    <3>4. ReadsReal'
      BY <1>9, <3>1, <3>3 DEF ReadsReal
    <3> QED BY <1>4, <1>5, <3>4 DEF CauseInv
  <2> QED BY <2>2, <2>3
<1> QED BY <1>12, <1>13

LEMMA EmptyLedgerHasCause ==
  /\ receipts = <<>> /\ open_failures = {} /\ investigations = 0 => CauseInv
  /\ receipts' = <<>> /\ open_failures' = {} /\ investigations' = 0 => CauseInv'
<1>1. Cardinality({}) = 0 /\ IsFiniteSet({})
  BY FS_EmptySet
<1>2. ReadsSinceSetback(<<>>) = {}
  BY DEF ReadsSinceSetback
<1> QED BY <1>1, <1>2 DEF CauseInv, EpochsGrow, FailuresReal, ReadsReal

LEMMA LedgerCauseKept ==
  ASSUME CauseInv, UNCHANGED ledgerVars PROVE CauseInv'
<1>1. UNCHANGED <<epoch, receipts, open_failures, investigations>>
  BY DEF ledgerVars
<1> QED
  BY <1>1 DEF CauseInv, EpochsGrow, FailuresReal, ReadsReal, UnresolvedChecks, ReadsSinceSetback,
     Changed, IsCheck, Passed

LEMMA StepCause == IInv /\ CauseInv /\ [Next]_vars => CauseInv'
<1> SUFFICES ASSUME IInv, CauseInv, [Next]_vars PROVE CauseInv'
  OBVIOUS
<1>1. CASE ClientStep
  <2>1. DropRequestState
    BY <1>1 DEF ClientStep, ClientExecutes, ClientDamagesTranscript, ClientDamages, ClientSends
  <2> QED BY <2>1, EmptyLedgerHasCause DEF DropRequestState, FreshHarness
<1>2. CASE ReconstructMessage
  <2>1. CASE UNCHANGED harnessVars
    BY <2>1, LedgerCauseKept DEF harnessVars
  <2>2. ASSUME NEW p \in unpaired, ReconstructResult,
               Record(p.call, ReceiptStatus(transcript[position].result))
        PROVE  CauseInv'
    <3>1. p.call \in Calls
      BY DEF IInv, TypeOK
    <3>2. transcript[position].result \in Results
      <4>1. transcript[position] \in ToolMessage
        BY <1>2, <2>2 DEF IInv, TypeOK, ReconstructMessage, ReconstructResult, Message,
           AssistantMessage
      <4> QED BY <4>1 DEF ToolMessage
    <3>3. ReceiptStatus(transcript[position].result) \in Statuses
      BY <3>2, StatusType
    <3> QED BY <2>2, <3>1, <3>3, RecordKeepsCause DEF IInv, TypeOK
  <2> QED BY <1>2, <2>1, <2>2 DEF ReconstructMessage, ReconstructCalls, ReconstructResult
<1>3. CASE ServiceStep /\ ~ReconstructMessage
  <2>1. UNCHANGED ledgerVars
    BY <1>3 DEF ServiceStep, Project, EnterLoop, UpstreamFails, FinalizationProposesCalls,
       CorrectOrGiveUp, ReleaseCalls, WithholdBatch, JudgeBatch, AcceptTerminal, CorrectTerminal,
       AttemptsExhausted, OffFails, OffReleaseCalls, OffStartFinalization, OffAcceptTerminal,
       OffRetry, OffAttempt, harnessVars
  <2> QED BY <2>1, LedgerCauseKept
<1>4. CASE UNCHANGED vars
  BY <1>4, LedgerCauseKept DEF vars, harnessVars
<1> QED BY <1>1, <1>2, <1>3, <1>4 DEF Next

\* What the verdicts were read off the receipts gives the cause in the history itself.
LEMMA VerdictHasCause ==
  ASSUME IInv, CauseInv, SameHistory, NEW call, Verdict(call) # "allowed"
  PROVE  CauseToWithhold(call)
<1>1. CASE call = Invalid \/ ToolOf[call] \in Denied
  BY <1>1 DEF CauseToWithhold
<1>2. CASE Stalled(ToolOf[call], request.tools)
  <2>1. PICK tool \in open_failures : tool \in Verification
    BY <1>2 DEF Stalled
  <2>2. UnresolvedChecks(receipts) # {}
    BY <2>1 DEF CauseInv, FailuresReal
  <2>3. PICK c : c = Cardinality(ReadsSinceSetback(receipts))
    OBVIOUS
  <2>4. c \in Nat /\ investigations <= c
    BY <2>3, FS_CardinalityType DEF CauseInv, ReadsReal
  <2>5. c >= StallThreshold
    BY <1>2, <2>4 DEF Stalled, StallThreshold, IInv, TypeOK, HarnessTypeOK
  <2>6. /\ UnresolvedChecks(executed) # {}
        /\ Cardinality(ReadsSinceSetback(executed)) >= StallThreshold
    BY <2>2, <2>3, <2>5, SameJudgement DEF IInv
  <2> QED BY <1>2, <2>6 DEF Stalled, CauseToWithhold, ReadEnough
<1>3. CASE Duplicate(call)
  <2>1. PICK i \in DOMAIN receipts : receipts[i].call = call /\ receipts[i].epoch = epoch
    BY <1>3 DEF Duplicate, Priors
  <2>2. /\ DOMAIN receipts = 1..Len(receipts) /\ Len(receipts) \in Nat
        /\ DOMAIN executed = DOMAIN receipts /\ Len(executed) = Len(receipts)
        /\ \A m \in DOMAIN receipts : receipts[m].epoch \in Nat
    <3>1. \A m \in DOMAIN receipts : receipts[m] \in Receipt
      BY DEF IInv, TypeOK, HarnessTypeOK
    <3> QED BY <3>1 DEF IInv, TypeOK, HarnessTypeOK, SameHistory, Receipt
  <2>3. ASSUME NEW m \in i..Len(executed) PROVE ~Changed(executed[m])
    <3>1. m \in DOMAIN receipts /\ i <= m
      BY <2>2
    <3>2. receipts[i].epoch <= receipts[m].epoch
      BY <3>1 DEF CauseInv, EpochsGrow
    <3>3. ~Changed(receipts[m])
      BY <2>1, <2>2, <3>1, <3>2 DEF CauseInv, EpochsGrow
    <3> QED BY <3>1, <3>3 DEF SameHistory, Agree, Changed, Passed
  <2>4. executed[i].call = call
    BY <2>1 DEF SameHistory, Agree
  <2> QED BY <2>2, <2>3, <2>4 DEF CauseToWithhold, DoneSinceChange
<1> QED BY <1>1, <1>2, <1>3 DEF Verdict

\* service._rejected_results, of the client's own history: needed work is not blocked.  A
\* withheld batch has a call that is malformed or denied, repeats what was executed since
\* the last change, or reads once more after three reads since the last setback.
THEOREM WithheldBatchesHaveCause == Spec => WithheldForCause
<1> DEFINE Justified == \A batch \in Batches : WithholdBatch(batch) /\ Honest =>
                          \E k \in DOMAIN batch : CauseToWithhold(batch[k].call)
<1>1. Init => CauseInv
  BY EmptyLedgerHasCause DEF Init
<1>2. IInv /\ CauseInv /\ [Next]_vars => CauseInv'
  BY StepCause
<1>3. IInv /\ CauseInv /\ HistoryInv => Justified
  <2> SUFFICES ASSUME IInv, CauseInv, HistoryInv,
                      NEW batch \in Batches, WithholdBatch(batch), Honest
               PROVE  \E k \in DOMAIN batch : CauseToWithhold(batch[k].call)
    OBVIOUS
  <2>1. PICK k \in DOMAIN batch : Verdict(batch[k].call) # "allowed"
    BY DEF WithholdBatch, Allowed, With
  <2>2. SameHistory
    BY DEF WithholdBatch, Attempt, HistoryInv, Followed
  <2> QED BY <2>1, <2>2, VerdictHasCause
<1>4. IInv /\ CauseInv /\ HistoryInv /\ [Next]_vars => [Justified]_vars
  BY <1>3
<1> QED BY <1>1, <1>2, <1>4, Invariant, HistoryFollowed, PTL DEF Spec, WithheldForCause
==============================================================================
