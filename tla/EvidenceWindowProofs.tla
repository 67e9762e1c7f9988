------------------------- MODULE EvidenceWindowProofs -------------------------
(***************************************************************************)
(* Theorems about EvidenceWindow for every plan of cases, number of model  *)
(* calls and number of faults.                                             *)
(*                                                                         *)
(* The accounts are joined by position: the n-th capture, the n-th client  *)
(* row, the n-th account and the next records of the observer must belong  *)
(* together.  Nothing in the code numbers them alike, so what has to be    *)
(* carried through every step is how the four orders arise: a sequential   *)
(* runner (RunnerInv), ingress numbers (NumbersInv), a sink that holds     *)
(* rows back (FileInv) and one model call of a request after the other     *)
(* (CallsInv).  TurnsInv and what follows it relate them.                  *)
(*                                                                         *)
(* A window that passes is then exact (ReconciledExact): nothing but       *)
(* captured requests has a row, so the rows are the requests in their      *)
(* order.  And a clean window is not refused (CleanKeeps): with every      *)
(* request answered the four orders are the same one.                      *)
(***************************************************************************)
EXTENDS EvidenceWindow, FiniteSetTheorems, SequenceTheorems, WellFoundedInduction, TLAPS

\* The runner has one invocation per request, in their order, as long as none of its ids was
\* left prepared; the request it waits for is the last.
RunnerInv ==
  /\ runner.step = "waiting" =>
       /\ runner.awaited = Len(requests) /\ runner.awaited \in Ids /\ runner.prepared = None
       /\ ~requests[runner.awaited].answered
  /\ runner.step # "waiting" => runner.awaited = None
  /\ runner.step # "closed" => Len(cases) < Cases
  /\ runner.prepared # None =>
       /\ requests[runner.prepared].state = "withheld"
       /\ \E n \in DOMAIN provisional : provisional[n].request = runner.prepared
  /\ runner.prepared = None =>
       /\ \A id \in Ids : requests[id].state # "withheld"
       /\ Len(requests) = Len(provisional) + (IF runner.step = "waiting" THEN 1 ELSE 0)
       /\ \A n \in DOMAIN provisional : provisional[n].request = n

\* What the handlers have done with a request.
RequestsInv ==
  \A id \in Ids :
    /\ requests[id].calls # <<>> => requests[id].state \notin {"withheld", "sent"}
    /\ requests[id].projected => requests[id].calls = <<>>
    /\ requests[id].answered => requests[id].state \in Done
    /\ requests[id].state = "captured" => Valid(id)

\* Ingress numbers are given out one by one; those below sink.upto are in the file or lost.
NumbersGiven ==
  /\ sink.next >= 1
  /\ \A id \in Ids : /\ requests[id].sequence < sink.next
                     /\ requests[id].sequence = 0 <=> requests[id].state \in {"withheld", "sent"}
NumbersDistinct ==
  \A a, b \in Ids : a # b /\ requests[a].sequence > 0 => requests[a].sequence # requests[b].sequence
NumbersUsed == \A s \in 1 .. sink.next - 1 : \E id \in Ids : requests[id].sequence = s
NumbersOrdered ==
  \A a, b \in Ids : a < b /\ requests[a].answered /\ requests[b].sequence > 0 =>
    requests[a].sequence < requests[b].sequence
NumbersInv == NumbersGiven /\ NumbersDistinct /\ NumbersUsed /\ NumbersOrdered

FileInv ==
  /\ sink.upto \in 1 .. sink.next
  /\ \A id \in sink.pending : requests[id].state = "captured" /\ requests[id].sequence > sink.upto
  /\ \A id \in Range(sink.file) : requests[id].state = "captured" /\ requests[id].sequence < sink.upto
  /\ \A id \in sink.lost : requests[id].state \in {"captured", "lost"}
  /\ \A s \in 1 .. sink.upto - 1 :
       \E id \in Range(sink.file) \cup sink.lost : requests[id].sequence = s
  /\ \A m, n \in DOMAIN sink.file : m < n =>
       requests[sink.file[m]].sequence < requests[sink.file[n]].sequence

StatusOf(call) == requests[call.request].calls[call.call]

\* The observer records the calls of a request in their order, each at most once, and only
\* the last one can be without a record or without success.
RecordsOwned ==
  \A n \in DOMAIN ledger :
    /\ ledger[n].call \in DOMAIN requests[ledger[n].request].calls
    /\ StatusOf(ledger[n]) # "running"
    /\ StatusOf(ledger[n]) = "succeeded" => ledger[n].ok
RecordsOrdered ==
  \A n, m \in DOMAIN ledger :
    n < m /\ ledger[n].request = ledger[m].request => ledger[n].call < ledger[m].call
PendingLast ==
  \A call \in calls :
    /\ call.call = Len(requests[call.request].calls)
    /\ StatusOf(call) \in {"running", "cancelled"}
    /\ \A n \in DOMAIN ledger : ledger[n].request = call.request => ledger[n].call < call.call
SuccessesRecorded ==
  \A id \in Ids : \A k \in DOMAIN requests[id].calls :
    requests[id].calls[k] = "succeeded" =>
      \E n \in DOMAIN ledger : ledger[n].request = id /\ ledger[n].call = k
RunningPending ==
  \A id \in Ids : \A k \in DOMAIN requests[id].calls :
    requests[id].calls[k] = "running" => [request |-> id, call |-> k] \in calls
CallsInv ==
  RecordsOwned /\ RecordsOrdered /\ PendingLast /\ SuccessesRecorded /\ RunningPending

\* Only a call that is not counted as a success can leave the model and the observer apart.
ServedInv ==
  (\A id \in Ids : Range(requests[id].calls) \subseteq {"succeeded", "running"}) =>
    served = Successes(DOMAIN ledger)

TurnsInv ==
  /\ TurnsHoldOwnRecords
  /\ \A n \in DOMAIN provisional : provisional[n].slice \subseteq runner.consumed
  /\ runner.consumed \subseteq UNION {provisional[n].slice : n \in DOMAIN provisional}

Faultless(id) == requests[id].answered /\ Range(requests[id].calls) \subseteq {"succeeded"}

\* With every turn so far answered and all its calls successful, the two ledgers of the
\* runner agree and the turns cut the observer's file into blocks.
Smooth == runner.prepared = None /\ \A n \in DOMAIN provisional : Faultless(n)

AlignedInv ==
  Smooth =>
    /\ Len(accounting) = Len(provisional)
    /\ \A n \in DOMAIN provisional :
         /\ provisional[n].outcome = requests[n].outcome
         /\ accounting[n] = [outcome |-> provisional[n].outcome, slice |-> provisional[n].slice,
                             successes |-> Successes(provisional[n].slice)]

TiledInv ==
  Smooth =>
    /\ \A n \in DOMAIN provisional :
         /\ Cardinality(provisional[n].slice) = Len(requests[n].calls)
         /\ provisional[n].slice =
              CountBefore(provisional, n) + 1 .. CountBefore(provisional, n) + Cardinality(provisional[n].slice)
    /\ CountAll(provisional) <= Len(ledger)
    /\ \A m \in DOMAIN ledger : m <= CountAll(provisional) <=> ledger[m].request \in DOMAIN provisional

\* What the supervisor read stays true while handlers go on.
JoinedAt(observed) ==
  /\ Len(evidence.file) = Len(provisional) /\ Len(accounting) = Len(provisional)
  /\ \A n \in DOMAIN evidence.file : Joins(n)
  /\ CountAll(provisional) = observed /\ observed <= Len(ledger)

EvidenceInv ==
  /\ evidence.step # "acting" => runner.step = "closed"
  /\ evidence.step \in {"collected", "extracted", "finalized"} /\ Smooth =>
       evidence.completed = Len(ledger)
  /\ \A n \in DOMAIN evidence.file : requests[evidence.file[n]].state = "captured"
  /\ \A m, n \in DOMAIN evidence.file : m < n =>
       requests[evidence.file[m]].sequence < requests[evidence.file[n]].sequence
  /\ evidence.step = "finalized" =>
       /\ JoinedAt(evidence.observed)
       /\ evidence.rows = [n \in DOMAIN evidence.file |-> FinalRow(n)]

-----------------------------------------------------------------------------
(* What the actions do to the requests.                                        *)

\* Only one request changes, and becomes r.
Becomes(id, r) ==
  /\ requests' \in Seq(Request) /\ Ids' = Ids /\ Len(requests') = Len(requests)
  /\ requests'[id] = r /\ \A q \in Ids \ {id} : requests'[q] = requests[q]

LEMMA OneRequestChanges ==
  ASSUME RequestsTyped, NEW id \in Ids, NEW r \in Request, requests' = [requests EXCEPT ![id] = r]
  PROVE  Becomes(id, r)
<1>1. requests \in Seq(Request) /\ id \in 1 .. Len(requests) /\ Ids = 1 .. Len(requests)
  BY DEF RequestsTyped, Ids
<1>2. requests' \in Seq(Request) /\ Len(requests') = Len(requests)
  BY <1>1, ExceptSeq
<1>3. Ids' = 1 .. Len(requests')
  BY <1>2 DEF Ids
<1>4. requests'[id] = r /\ \A q \in Ids \ {id} : requests'[q] = requests[q]
  BY <1>1
<1> QED
  BY <1>1, <1>2, <1>3, <1>4 DEF Becomes

LEMMA RequestIs ==
  ASSUME RequestsTyped, NEW id \in Ids
  PROVE  /\ requests[id] \in Request
         /\ requests[id].calls \in Seq(Statuses) /\ requests[id].sequence \in Nat
         /\ DOMAIN requests[id].calls = 1 .. Len(requests[id].calls)
         /\ Len(requests[id].calls) \in Nat
<1>1. requests[id] \in Request
  BY DEF RequestsTyped, Ids
<1> QED
  BY <1>1 DEF Request

LEMMA ArriveIs ==
  ASSUME RequestsTyped, SinkTyped, NEW id \in Ids, Arrive(id)
  PROVE  Becomes(id, [requests[id] EXCEPT !.state = "open", !.sequence = sink.next])
<1> DEFINE r == [requests[id] EXCEPT !.state = "open", !.sequence = sink.next]
<1>1. requests[id] \in Request /\ sink.next \in Nat
  BY RequestIs DEF SinkTyped
<1>2. r \in Request
  BY <1>1 DEF Request
<1>3. requests' = [requests EXCEPT ![id] = r]
  BY DEF Arrive, Ids
<1> QED
  BY <1>2, <1>3, OneRequestChanges

LEMMA ProjectIs ==
  ASSUME RequestsTyped, NEW id \in Ids, Project(id)
  PROVE  Becomes(id, [requests[id] EXCEPT !.projected = TRUE])
<1> DEFINE r == [requests[id] EXCEPT !.projected = TRUE]
<1>1. r \in Request
  BY RequestIs DEF Request
<1>2. requests' = [requests EXCEPT ![id] = r]
  BY DEF Project, Ids
<1> QED
  BY <1>1, <1>2, OneRequestChanges

LEMMA StartCallIs ==
  ASSUME RequestsTyped, NEW id \in Ids, StartCall(id)
  PROVE  Becomes(id, [requests[id] EXCEPT !.calls = Append(requests[id].calls, "running")])
<1> DEFINE r == [requests[id] EXCEPT !.calls = Append(requests[id].calls, "running")]
<1>1. r \in Request
  <2>1. Append(requests[id].calls, "running") \in Seq(Statuses)
    BY RequestIs DEF Statuses
  <2> QED
    BY <2>1, RequestIs DEF Request
<1>2. requests' = [requests EXCEPT ![id] = r]
  BY DEF StartCall, Ids
<1> QED
  BY <1>1, <1>2, OneRequestChanges

\* The calls of a request when the call with number k has ended.
Settled(id, k, status) ==
  [requests[id].calls EXCEPT ![k] = IF @ = "running" THEN status ELSE @]

LEMMA SettleIs ==
  ASSUME RequestsTyped, ModelTyped, NEW call \in calls, NEW status \in {"succeeded", "failed"},
         Settle(call, status)
  PROVE  /\ call.request \in Ids /\ call.call \in DOMAIN requests[call.request].calls
         /\ Settled(call.request, call.call, status) \in Seq(Statuses)
         /\ Len(Settled(call.request, call.call, status)) = Len(requests[call.request].calls)
         /\ Becomes(call.request,
              [requests[call.request] EXCEPT !.calls = Settled(call.request, call.call, status)])
<1>1. PICK id \in Ids : id = call.request
  BY DEF ModelTyped
<1>2. PICK k \in DOMAIN requests[id].calls : k = call.call
  BY <1>1 DEF ModelTyped
<1>3. PICK old \in Seq(Statuses) : old = requests[id].calls
  BY RequestIs
<1> DEFINE new == Settled(id, k, status)
           r == [requests[id] EXCEPT !.calls = new]
<1>4. k \in 1 .. Len(old) /\ (IF old[k] = "running" THEN status ELSE old[k]) \in Statuses
  BY <1>2, <1>3 DEF Statuses
<1>5. new \in Seq(Statuses) /\ Len(new) = Len(old)
  <2>1. new = [old EXCEPT ![k] = IF old[k] = "running" THEN status ELSE old[k]]
    BY <1>3 DEF Settled
  <2> QED
    BY <2>1, <1>4, ExceptSeq
<1>6. r \in Request
  BY <1>5, RequestIs DEF Request
<1>7. requests' = [requests EXCEPT ![id] = r]
  BY <1>1, <1>2, RequestIs DEF Settle, Settled, Ids, Request
<1> HIDE DEF new, r
<1>8. Becomes(id, r)
  BY <1>6, <1>7, OneRequestChanges
<1> QED
  BY <1>1, <1>2, <1>3, <1>5, <1>8 DEF new, r

LEMMA EndedIs ==
  ASSUME RequestsTyped, NEW id \in Ids, NEW outcome \in Outcomes
  PROVE  /\ Ended(requests[id], outcome) \in Request
         /\ Ended(requests[id], outcome).state = "ended"
         /\ Ended(requests[id], outcome).outcome = outcome
         /\ Ended(requests[id], outcome).sequence = requests[id].sequence
         /\ Ended(requests[id], outcome).projected = requests[id].projected
         /\ Ended(requests[id], outcome).answered = requests[id].answered
         /\ Len(Ended(requests[id], outcome).calls) = Len(requests[id].calls)
         /\ \A k \in DOMAIN requests[id].calls :
              Ended(requests[id], outcome).calls[k] =
                IF requests[id].calls[k] = "running" THEN "cancelled" ELSE requests[id].calls[k]
<1>1. PICK old \in Seq(Statuses) : old = requests[id].calls
  BY RequestIs
<1> DEFINE new == [n \in DOMAIN old |-> IF old[n] = "running" THEN "cancelled" ELSE old[n]]
<1>2. DOMAIN old = 1 .. Len(old) /\ Len(old) \in Nat
  BY <1>1
<1>3. \A n \in DOMAIN old : new[n] \in Statuses
  BY <1>1, <1>2 DEF Statuses
<1>4. new \in Seq(Statuses) /\ Len(new) = Len(old) /\ DOMAIN new = DOMAIN old
  BY <1>2, <1>3
<1>5. Ended(requests[id], outcome) =
        [requests[id] EXCEPT !.state = "ended", !.outcome = outcome, !.calls = new]
  BY <1>1 DEF Ended
<1> DEFINE r == [requests[id] EXCEPT !.state = "ended", !.outcome = outcome, !.calls = new]
<1>6. \A n \in DOMAIN old : new[n] = IF old[n] = "running" THEN "cancelled" ELSE old[n]
  OBVIOUS
<1> HIDE DEF new
<1>7. /\ r \in Request /\ r.state = "ended" /\ r.outcome = outcome /\ r.calls = new
      /\ r.sequence = requests[id].sequence /\ r.projected = requests[id].projected
      /\ r.answered = requests[id].answered
  BY <1>4, RequestIs DEF Request, Done
<1> HIDE DEF r
<1>8. Ended(requests[id], outcome) = r
  BY <1>5 DEF r
<1> QED
  BY <1>1, <1>2, <1>4, <1>6, <1>7, <1>8

LEMMA EndIs ==
  ASSUME RequestsTyped, NEW id \in Ids, NEW outcome \in Outcomes,
         requests' = [requests EXCEPT ![id] = Ended(@, outcome)]
  PROVE  Becomes(id, Ended(requests[id], outcome))
<1>1. requests' = [requests EXCEPT ![id] = Ended(requests[id], outcome)]
  BY DEF Ids
<1> QED
  BY <1>1, EndedIs, OneRequestChanges

LEMMA StateBecomes ==
  ASSUME RequestsTyped, NEW id \in Ids, NEW state \in {"captured", "lost"},
         requests' = [requests EXCEPT ![id].state = state]
  PROVE  Becomes(id, [requests[id] EXCEPT !.state = state])
<1> DEFINE r == [requests[id] EXCEPT !.state = state]
<1>1. r \in Request
  BY RequestIs DEF Request, Done
<1>2. requests' = [requests EXCEPT ![id] = r]
  BY DEF Ids
<1> QED
  BY <1>1, <1>2, OneRequestChanges

LEMMA AnsweredBecomes ==
  ASSUME RequestsTyped, NEW id \in Ids, requests' = [requests EXCEPT ![id].answered = TRUE]
  PROVE  Becomes(id, [requests[id] EXCEPT !.answered = TRUE])
<1> DEFINE r == [requests[id] EXCEPT !.answered = TRUE]
<1>1. r \in Request
  BY RequestIs DEF Request
<1>2. requests' = [requests EXCEPT ![id] = r]
  BY DEF Ids
<1> QED
  BY <1>1, <1>2, OneRequestChanges

LEMMA AppendedIs ==
  ASSUME RequestsTyped, NEW state \in {"withheld", "sent"},
         requests' = Append(requests, Prepared(state))
  PROVE  /\ requests' \in Seq(Request) /\ Len(requests') = Len(requests) + 1
         /\ Ids' = Ids \cup {Len(requests) + 1} /\ Len(requests) + 1 \notin Ids
         /\ Ids = 1 .. Len(requests) /\ Len(requests) \in Nat
         /\ requests'[Len(requests) + 1] = Prepared(state)
         /\ \A q \in Ids : requests'[q] = requests[q]
<1>1. Prepared(state) \in Request
  <2>1. <<>> \in Seq(Statuses)
    OBVIOUS
  <2> QED
    BY <2>1 DEF Prepared, Request
<1> DEFINE r == Prepared(state)
<1> HIDE DEF r
<1>2. r \in Request /\ requests' = Append(requests, r) /\ requests \in Seq(Request)
  BY <1>1 DEF r, RequestsTyped
<1>3. /\ requests' \in Seq(Request) /\ Len(requests') = Len(requests) + 1
      /\ Len(requests) \in Nat /\ DOMAIN requests = 1 .. Len(requests)
      /\ DOMAIN requests' = 1 .. Len(requests) + 1
      /\ requests'[Len(requests) + 1] = r
      /\ \A q \in 1 .. Len(requests) : requests'[q] = requests[q]
  BY <1>2
<1> QED
  BY <1>3 DEF r, Ids

-----------------------------------------------------------------------------
(* The proxy: requests, ingress numbers, the sink, the observer's records.     *)
ProxyInv ==
  /\ RequestsTyped /\ ModelTyped /\ SinkTyped
  /\ RequestsInv /\ NumbersInv /\ FileInv /\ CallsInv /\ ServedInv

LEMMA MembersTyped ==
  ASSUME NEW S, NEW s \in Seq(S)
  PROVE  \A n \in DOMAIN s : s[n] \in S
OBVIOUS

LEMMA LedgerIs ==
  ASSUME ModelTyped
  PROVE  /\ Len(ledger) \in Nat /\ DOMAIN ledger = 1 .. Len(ledger)
         /\ \A n \in DOMAIN ledger :
              /\ ledger[n] \in [request : Ids, call : Nat, ok : BOOLEAN]
              /\ ledger[n].request \in Ids /\ ledger[n].call \in Nat /\ ledger[n].ok \in BOOLEAN
<1>1. ledger \in Seq([request : Ids, call : Nat, ok : BOOLEAN])
  BY DEF ModelTyped
<1>2. \A n \in DOMAIN ledger : ledger[n] \in [request : Ids, call : Nat, ok : BOOLEAN]
  BY <1>1, MembersTyped
<1> QED
  BY <1>1, <1>2

\* A step that leaves every call and record alone.
LEMMA CallsStay ==
  ASSUME RequestsTyped, ModelTyped, CallsInv, ServedInv, Ids' = Ids,
         \A id \in Ids : requests'[id].calls = requests[id].calls,
         UNCHANGED <<calls, ledger, served>>
  PROVE  ModelTyped' /\ CallsInv' /\ ServedInv'
<1>1. ModelTyped'
  <2>1. \A call \in calls : call.request \in Ids
    BY DEF ModelTyped
  <2> QED
    BY <2>1 DEF ModelTyped
<1>2. \A n \in DOMAIN ledger : StatusOf(ledger[n])' = StatusOf(ledger[n])
  BY LedgerIs DEF StatusOf
<1>3. \A call \in calls : call.request \in Ids
  BY DEF ModelTyped
<1>4. \A call \in calls : requests'[call.request].calls[call.call] = StatusOf(call)
  BY <1>3 DEF StatusOf
<1>5. CallsInv'
  <2>1. RecordsOwned'
    BY <1>2, LedgerIs DEF CallsInv, RecordsOwned
  <2>2. PendingLast'
    BY <1>3, <1>4 DEF CallsInv, PendingLast, StatusOf
  <2>3. SuccessesRecorded'
    BY DEF CallsInv, SuccessesRecorded
  <2>4. RunningPending'
    BY DEF CallsInv, RunningPending
  <2>5. RecordsOrdered'
    BY DEF CallsInv, RecordsOrdered
  <2> QED
    BY <2>1, <2>2, <2>3, <2>4, <2>5 DEF CallsInv
<1>6. ServedInv'
  BY DEF ServedInv, Successes
<1> QED
  BY <1>1, <1>5, <1>6

\* A step that gives out no ingress number and answers nothing.
LEMMA NumbersStay ==
  ASSUME NumbersInv, Ids' = Ids, sink'.next = sink.next,
         \A id \in Ids : /\ requests'[id].sequence = requests[id].sequence
                         /\ requests'[id].answered = requests[id].answered
                         /\ requests'[id].state \in {"withheld", "sent"} <=>
                              requests[id].state \in {"withheld", "sent"}
  PROVE  NumbersInv'
BY DEF NumbersInv, NumbersGiven, NumbersDistinct, NumbersUsed, NumbersOrdered

\* A step that writes nothing and loses nothing.
LEMMA FileStays ==
  ASSUME SinkTyped, FileInv, Ids' = Ids,
         sink'.next >= sink.next, sink'.next \in Nat, sink'.upto = sink.upto, sink'.pending = sink.pending,
         sink'.file = sink.file, sink'.lost = sink.lost,
         \A id \in Ids : requests[id].state \in {"captured", "lost"} =>
           /\ requests'[id].sequence = requests[id].sequence
           /\ requests'[id].state = requests[id].state
  PROVE  FileInv'
<1>1. /\ sink.upto \in Nat /\ sink.next \in Nat /\ sink.pending \subseteq Ids
      /\ Range(sink.file) \subseteq Ids /\ sink.lost \subseteq Ids
      /\ \A n \in DOMAIN sink.file : sink.file[n] \in Range(sink.file)
  BY DEF SinkTyped, Range
<1>2. sink'.upto \in 1 .. sink'.next
  BY <1>1 DEF FileInv
<1>3. \A id \in Range(sink.file) \cup sink.lost \cup sink.pending :
        /\ id \in Ids /\ requests'[id].sequence = requests[id].sequence
        /\ requests'[id].state = requests[id].state
  BY <1>1 DEF FileInv
<1> QED
  BY <1>1, <1>2, <1>3 DEF FileInv

LEMMA ArriveKeeps ==
  ASSUME ProxyInv, NEW id \in Ids, Arrive(id)
  PROVE  ProxyInv'
<1> USE DEF ProxyInv
<1>1. Becomes(id, [requests[id] EXCEPT !.state = "open", !.sequence = sink.next])
  BY ArriveIs
<1>2. /\ requests'[id].state = "open" /\ requests'[id].sequence = sink.next
      /\ requests'[id].calls = requests[id].calls /\ requests'[id].outcome = requests[id].outcome
      /\ requests'[id].projected = requests[id].projected
      /\ requests'[id].answered = requests[id].answered
  BY <1>1, RequestIs DEF Becomes, Request
<1>3. Ids' = Ids /\ \A q \in Ids : q # id => requests'[q] = requests[q]
  BY <1>1 DEF Becomes
<1>4. requests[id].state = "sent" /\ requests[id].sequence = 0 /\ UNCHANGED <<calls, ledger, served>>
  BY DEF Arrive, NumbersInv, NumbersGiven
<1>5. sink.next \in Nat /\ sink' = [sink EXCEPT !.next = sink.next + 1]
  BY DEF SinkTyped, Arrive
<1>6. RequestsTyped'
  <2>1. requests[id].outcome = "none"
    BY <1>4 DEF RequestsTyped, Done
  <2> QED
    BY <1>1, <1>2, <1>3, <2>1 DEF RequestsTyped, Becomes, Running, Done
<1>7. ModelTyped' /\ CallsInv' /\ ServedInv'
  BY <1>2, <1>3, <1>4, CallsStay
<1>8. SinkTyped'
  BY <1>3, <1>5 DEF SinkTyped
<1>9. RequestsInv'
  <2>1. ~requests[id].answered
    BY <1>4 DEF RequestsInv, Done
  <2> QED
    BY <1>2, <1>3, <2>1 DEF RequestsInv, Valid
<1>10. /\ sink'.next = sink.next + 1 /\ sink'.upto = sink.upto /\ sink'.pending = sink.pending
       /\ sink'.file = sink.file /\ sink'.lost = sink.lost
  BY <1>5 DEF SinkTyped
<1>11. NumbersInv'
  <2>1. \A q \in Ids : requests[q].sequence \in Nat /\ requests'[q].sequence \in Nat
    BY <1>2, <1>3, <1>5, RequestIs
  <2>2. /\ sink'.next >= 1
        /\ \A q \in Ids :
             /\ requests'[q].sequence < sink'.next
             /\ requests'[q].sequence = 0 <=> requests'[q].state \in {"withheld", "sent"}
    BY <1>2, <1>3, <1>5, <1>10, <2>1 DEF NumbersInv, NumbersGiven
  <2>3. \A a, b \in Ids : a # b /\ requests'[a].sequence > 0 =>
          requests'[a].sequence # requests'[b].sequence
    BY <1>2, <1>3, <1>5, <2>1 DEF NumbersInv, NumbersGiven, NumbersDistinct
  <2>4. \A s \in 1 .. sink'.next - 1 : \E q \in Ids : requests'[q].sequence = s
    <3>1. ASSUME NEW s \in 1 .. sink'.next - 1, s # sink.next
          PROVE  \E q \in Ids : requests'[q].sequence = s
      <4>1. s \in 1 .. sink.next - 1
        BY <3>1, <1>5, <1>10
      <4>2. PICK q \in Ids : requests[q].sequence = s
        BY <4>1 DEF NumbersInv, NumbersUsed
      <4>3. q # id
        BY <1>4, <4>1, <4>2
      <4> QED
        BY <1>3, <4>2, <4>3
    <3> QED
      BY <1>2, <3>1
  <2>5. \A a, b \in Ids : a < b /\ requests'[a].answered /\ requests'[b].sequence > 0 =>
          requests'[a].sequence < requests'[b].sequence
    <3>1. ~requests[id].answered
      BY <1>4 DEF RequestsInv, Done
    <3> QED
      BY <1>2, <1>3, <1>5, <2>1, <3>1 DEF NumbersInv, NumbersGiven, NumbersOrdered
  <2>6. Ids' = Ids
    BY <1>3
  <2>7. NumbersGiven'
    BY <2>2, <2>6 DEF NumbersGiven
  <2>8. NumbersDistinct'
    BY <2>3, <2>6 DEF NumbersDistinct
  <2>9. NumbersUsed' /\ NumbersOrdered'
    BY <2>4, <2>5, <2>6 DEF NumbersUsed, NumbersOrdered
  <2> QED
    BY <2>7, <2>8, <2>9 DEF NumbersInv
<1>12. FileInv'
  BY <1>3, <1>4, <1>5, <1>10, FileStays
<1> QED
  BY <1>6, <1>7, <1>8, <1>9, <1>11, <1>12

LEMMA ProjectKeeps ==
  ASSUME ProxyInv, NEW id \in Ids, Project(id)
  PROVE  ProxyInv'
<1> USE DEF ProxyInv
<1>1. Becomes(id, [requests[id] EXCEPT !.projected = TRUE])
  BY ProjectIs
<1>2. /\ requests'[id].state = requests[id].state /\ requests'[id].sequence = requests[id].sequence
      /\ requests'[id].calls = requests[id].calls /\ requests'[id].outcome = requests[id].outcome
      /\ requests'[id].projected /\ requests'[id].answered = requests[id].answered
  BY <1>1, RequestIs DEF Becomes, Request
<1>3. Ids' = Ids /\ \A q \in Ids : q # id => requests'[q] = requests[q]
  BY <1>1 DEF Becomes
<1>4. /\ requests[id].state = "open" /\ requests[id].calls = <<>>
      /\ UNCHANGED <<calls, ledger, served, sink>>
  BY DEF Project, Open
<1>5. RequestsTyped'
  <2>1. requests' \in Seq(Request)
    BY <1>1 DEF Becomes
  <2>2. \A q \in Ids : /\ requests'[q].state = requests[q].state
                       /\ requests'[q].outcome = requests[q].outcome
                       /\ requests'[q].calls = requests[q].calls
    BY <1>2, <1>3
  <2> QED
    BY <1>3, <2>1, <2>2 DEF RequestsTyped, Running
<1>6. ModelTyped' /\ CallsInv' /\ ServedInv'
  BY <1>2, <1>3, <1>4, CallsStay
<1>7. SinkTyped'
  BY <1>3, <1>4 DEF SinkTyped
<1>8. RequestsInv'
  BY <1>2, <1>3, <1>4 DEF RequestsInv, Valid
<1>9. \A q \in Ids : /\ requests'[q].sequence = requests[q].sequence
                     /\ requests'[q].answered = requests[q].answered
                     /\ requests'[q].state = requests[q].state
  BY <1>2, <1>3
<1>10. NumbersInv'
  BY <1>3, <1>4, <1>9, NumbersStay
<1>11. FileInv'
  <2>1. sink.next \in Nat /\ sink.next >= sink.next
    BY DEF SinkTyped
  <2> QED
    BY <1>3, <1>4, <1>9, <2>1, FileStays
<1> QED
  BY <1>5, <1>6, <1>7, <1>8, <1>10, <1>11

LEMMA StartCallKeeps ==
  ASSUME ProxyInv, NEW id \in Ids, StartCall(id)
  PROVE  ProxyInv'
<1> USE DEF ProxyInv
<1>1. Becomes(id, [requests[id] EXCEPT !.calls = Append(requests[id].calls, "running")])
  BY StartCallIs
<1>2. /\ requests'[id].state = requests[id].state /\ requests'[id].sequence = requests[id].sequence
      /\ requests'[id].calls = Append(requests[id].calls, "running")
      /\ requests'[id].outcome = requests[id].outcome
      /\ requests'[id].projected = requests[id].projected
      /\ requests'[id].answered = requests[id].answered
  BY <1>1, RequestIs DEF Becomes, Request
<1>3. Ids' = Ids /\ \A q \in Ids : q # id => requests'[q] = requests[q]
  BY <1>1 DEF Becomes
<1>4. PICK c \in Nat : c = Len(requests[id].calls)
  BY RequestIs
<1>5. /\ requests[id].state = "open" /\ ~requests[id].projected
      /\ \A k \in DOMAIN requests[id].calls : requests[id].calls[k] = "succeeded"
      /\ calls' = calls \cup {[request |-> id, call |-> c + 1]}
      /\ UNCHANGED <<ledger, served, sink>>
  BY <1>4 DEF StartCall, Open, Range
<1>6. /\ DOMAIN requests[id].calls = 1 .. c /\ DOMAIN requests'[id].calls = 1 .. c + 1
      /\ Len(requests'[id].calls) = c + 1 /\ requests'[id].calls[c + 1] = "running"
      /\ \A k \in 1 .. c : requests'[id].calls[k] = requests[id].calls[k]
  BY <1>2, <1>4, RequestIs
<1>7. \A call \in calls : call.request \in Ids /\ call.request # id
  BY <1>5 DEF ModelTyped, CallsInv, PendingLast, StatusOf
<1>8. RequestsTyped'
  BY <1>1, <1>2, <1>3, <1>5 DEF RequestsTyped, Becomes, Running, Done
<1>9. ModelTyped'
  <2>1. [request |-> id, call |-> c + 1] \in [request : Ids, call : Nat]
    BY <1>4
  <2> QED
    BY <1>3, <1>5, <1>6, <1>7, <2>1 DEF ModelTyped
<1>10. RequestsInv'
  BY <1>2, <1>3, <1>5 DEF RequestsInv, Valid, Done
<1>11. CallsInv'
  <2>1. RecordsOwned'
    <3>1. \A n \in DOMAIN ledger :
            /\ ledger[n].request \in Ids
            /\ ledger[n].call \in DOMAIN requests'[ledger[n].request].calls
            /\ StatusOf(ledger[n])' = StatusOf(ledger[n])
      BY <1>3, <1>5, <1>6, LedgerIs DEF CallsInv, RecordsOwned, StatusOf
    <3> QED
      BY <1>5, <3>1 DEF CallsInv, RecordsOwned
  <2>2. PendingLast'
    <3>1. ASSUME NEW n \in DOMAIN ledger, ledger[n].request = id PROVE ledger[n].call < c + 1
      BY <3>1, <1>4, <1>6, LedgerIs DEF CallsInv, RecordsOwned
    <3>2. ASSUME NEW call \in calls
          PROVE  /\ call.call = Len(requests'[call.request].calls)
                 /\ requests'[call.request].calls[call.call] \in {"running", "cancelled"}
                 /\ \A n \in DOMAIN ledger : ledger[n].request = call.request => ledger[n].call < call.call
      BY <1>3, <1>7 DEF CallsInv, PendingLast, StatusOf
    <3>3. PICK new : new = [request |-> id, call |-> c + 1]
      OBVIOUS
    <3>4. /\ new.call = Len(requests'[new.request].calls)
          /\ requests'[new.request].calls[new.call] \in {"running", "cancelled"}
          /\ \A n \in DOMAIN ledger : ledger[n].request = new.request => ledger[n].call < new.call
      BY <1>6, <3>1, <3>3
    <3>5. calls' = calls \cup {new}
      BY <1>5, <3>3
    <3>6. \A call \in calls' :
            /\ call.call = Len(requests'[call.request].calls)
            /\ requests'[call.request].calls[call.call] \in {"running", "cancelled"}
            /\ \A n \in DOMAIN ledger : ledger[n].request = call.request => ledger[n].call < call.call
      BY <3>2, <3>4, <3>5
    <3> QED
      BY <1>5, <3>6 DEF PendingLast, StatusOf
  <2>3. SuccessesRecorded'
    <3>1. ASSUME NEW q \in Ids, NEW k \in DOMAIN requests'[q].calls,
                 requests'[q].calls[k] = "succeeded"
          PROVE  \E n \in DOMAIN ledger : ledger[n].request = q /\ ledger[n].call = k
      <4>1. k \in DOMAIN requests[q].calls /\ requests[q].calls[k] = "succeeded"
        BY <1>3, <1>4, <1>6, <3>1, SMTT(30)
      <4> QED
        BY <4>1 DEF CallsInv, SuccessesRecorded
    <3> QED
      BY <1>3, <1>5, <3>1 DEF SuccessesRecorded
  <2>4. RunningPending'
    BY <1>3, <1>5, <1>6 DEF CallsInv, RunningPending
  <2>5. RecordsOrdered'
    BY <1>5 DEF CallsInv, RecordsOrdered
  <2> QED
    BY <2>1, <2>2, <2>3, <2>4, <2>5 DEF CallsInv
<1>12. ServedInv'
  <2>1. ASSUME \A q \in Ids : Range(requests'[q].calls) \subseteq {"succeeded", "running"}
        PROVE  \A q \in Ids : Range(requests[q].calls) \subseteq {"succeeded", "running"}
    <3>1. Range(requests[id].calls) \subseteq {"succeeded", "running"}
      BY <1>5 DEF Range
    <3> QED
      BY <1>3, <2>1, <3>1
  <2> QED
    BY <1>3, <1>5, <2>1 DEF ServedInv, Successes
<1>13. SinkTyped'
  BY <1>3, <1>5 DEF SinkTyped
<1>14. \A q \in Ids : /\ requests'[q].sequence = requests[q].sequence
                      /\ requests'[q].answered = requests[q].answered
                      /\ requests'[q].state = requests[q].state
  BY <1>2, <1>3
<1>15. NumbersInv'
  BY <1>3, <1>5, <1>14, NumbersStay
<1>16. FileInv'
  <2>1. sink.next \in Nat /\ sink.next >= sink.next
    BY DEF SinkTyped
  <2> QED
    BY <1>3, <1>5, <1>14, <2>1, FileStays
<1> QED
  BY <1>8, <1>9, <1>10, <1>11, <1>12, <1>13, <1>15, <1>16

LEMMA EndKeeps ==
  ASSUME ProxyInv, NEW id \in Ids, End(id)
  PROVE  ProxyInv'
<1> USE DEF ProxyInv
<1>1. PICK outcome \in Outcomes :
        /\ outcome = "failed" => ~requests[id].projected
        /\ outcome = "cancelled" => ~requests[id].projected
        /\ requests' = [requests EXCEPT ![id] = Ended(@, outcome)]
  BY DEF End
<1>2. Becomes(id, Ended(requests[id], outcome))
  BY <1>1, EndIs
<1>3. /\ requests'[id].state = "ended" /\ requests'[id].sequence = requests[id].sequence
      /\ requests'[id].outcome = outcome
      /\ requests'[id].projected = requests[id].projected
      /\ requests'[id].answered = requests[id].answered
      /\ Len(requests'[id].calls) = Len(requests[id].calls)
      /\ \A k \in DOMAIN requests[id].calls :
           requests'[id].calls[k] =
             IF requests[id].calls[k] = "running" THEN "cancelled" ELSE requests[id].calls[k]
  BY <1>2, EndedIs DEF Becomes
<1>4. Ids' = Ids /\ \A q \in Ids : q # id => requests'[q] = requests[q]
  BY <1>2 DEF Becomes
<1>5. requests[id].state = "open" /\ UNCHANGED <<calls, ledger, served, sink>>
  BY DEF End, Open
<1>6. DOMAIN requests'[id].calls = DOMAIN requests[id].calls
  <2>1. requests'[id].calls \in Seq(Statuses)
    BY <1>2, EndedIs DEF Becomes, Request
  <2> QED
    BY <2>1, <1>3, RequestIs
<1>7. \A k \in DOMAIN requests[id].calls : requests'[id].calls[k] # "running"
  BY <1>3
<1>8. RequestsTyped'
  <2>1. "running" \notin Range(requests'[id].calls)
    BY <1>6, <1>7 DEF Range
  <2>2. requests'[id].outcome # "none"
    BY <1>3 DEF Outcomes
  <2>3. requests' \in Seq(Request)
    BY <1>2 DEF Becomes
  <2> QED
    BY <1>3, <1>4, <2>1, <2>2, <2>3 DEF RequestsTyped, Running, Done
<1>9. ModelTyped'
  <2>1. \A call \in calls : call.request \in Ids
    BY DEF ModelTyped
  <2> QED
    BY <1>4, <1>5, <1>6, <2>1 DEF ModelTyped
<1>10. RequestsInv'
  <2>1. requests[id].calls = <<>> => requests'[id].calls = <<>>
    <3>1. requests'[id].calls \in Seq(Statuses)
      BY <1>2, EndedIs DEF Becomes, Request
    <3> QED
      BY <1>3, <3>1
  <2> QED
    BY <1>3, <1>4, <1>5, <2>1 DEF RequestsInv, Valid, Done
<1>11. CallsInv'
  <2>1. \A n \in DOMAIN ledger :
          /\ ledger[n].request \in Ids
          /\ ledger[n].call \in DOMAIN requests[ledger[n].request].calls
          /\ StatusOf(ledger[n]) # "running"
    BY LedgerIs DEF CallsInv, RecordsOwned
  <2>2. \A n \in DOMAIN ledger : StatusOf(ledger[n])' = StatusOf(ledger[n])
    BY <1>3, <1>4, <1>5, <2>1 DEF StatusOf
  <2>3. RecordsOwned'
    BY <1>4, <1>5, <1>6, <2>1, <2>2 DEF CallsInv, RecordsOwned
  <2>4. PendingLast'
    <3>1. ASSUME NEW call \in calls
          PROVE  /\ call.call = Len(requests'[call.request].calls)
                 /\ requests'[call.request].calls[call.call] \in {"running", "cancelled"}
      <4>1. call.request \in Ids /\ call.call \in DOMAIN requests[call.request].calls
        BY DEF ModelTyped
      <4>2. /\ call.call = Len(requests[call.request].calls)
            /\ requests[call.request].calls[call.call] \in {"running", "cancelled"}
        BY DEF CallsInv, PendingLast, StatusOf
      <4> QED
        BY <1>3, <1>4, <4>1, <4>2
    <3> QED
      BY <1>5, <3>1 DEF CallsInv, PendingLast, StatusOf
  <2>5. SuccessesRecorded'
    BY <1>3, <1>4, <1>5, <1>6 DEF CallsInv, SuccessesRecorded
  <2>6. RunningPending'
    BY <1>4, <1>5, <1>6, <1>7 DEF CallsInv, RunningPending
  <2>7. RecordsOrdered'
    BY <1>5 DEF CallsInv, RecordsOrdered
  <2> QED
    BY <2>3, <2>4, <2>5, <2>6, <2>7 DEF CallsInv
<1>12. ServedInv'
  <2>1. ASSUME Range(requests'[id].calls) \subseteq {"succeeded", "running"}
        PROVE  Range(requests[id].calls) \subseteq {"succeeded", "running"}
    BY <1>3, <1>6, <2>1 DEF Range
  <2> QED
    BY <1>4, <1>5, <2>1 DEF ServedInv, Successes
<1>13. SinkTyped'
  BY <1>4, <1>5 DEF SinkTyped
<1>14. NumbersInv'
  <2>1. \A q \in Ids : /\ requests'[q].sequence = requests[q].sequence
                       /\ requests'[q].answered = requests[q].answered
                       /\ requests'[q].state \in {"withheld", "sent"} <=>
                            requests[q].state \in {"withheld", "sent"}
    BY <1>3, <1>4, <1>5
  <2> QED
    BY <1>4, <1>5, <2>1, NumbersStay
<1>15. FileInv'
  <2>1. sink.next \in Nat /\ sink.next >= sink.next
    BY DEF SinkTyped
  <2>2. \A q \in Ids : requests[q].state \in {"captured", "lost"} => requests'[q] = requests[q]
    BY <1>4, <1>5
  <2> QED
    BY <1>4, <1>5, <2>1, <2>2, FileStays
<1> QED
  BY <1>8, <1>9, <1>10, <1>11, <1>12, <1>13, <1>14, <1>15

LEMMA RefuseCaptureKeeps ==
  ASSUME ProxyInv, NEW id \in Ids, RefuseCapture(id)
  PROVE  ProxyInv'
<1> USE DEF ProxyInv
<1>1. Becomes(id, [requests[id] EXCEPT !.state = "lost"])
  BY StateBecomes DEF RefuseCapture
<1>2. /\ requests'[id].state = "lost" /\ requests'[id].sequence = requests[id].sequence
      /\ requests'[id].calls = requests[id].calls /\ requests'[id].outcome = requests[id].outcome
      /\ requests'[id].projected = requests[id].projected
      /\ requests'[id].answered = requests[id].answered
  BY <1>1, RequestIs DEF Becomes, Request
<1>3. Ids' = Ids /\ \A q \in Ids : q # id => requests'[q] = requests[q]
  BY <1>1 DEF Becomes
<1>4. requests[id].state = "ended" /\ UNCHANGED <<calls, ledger, served>>
  BY DEF RefuseCapture
<1>5. /\ sink'.next = sink.next /\ sink'.upto = sink.upto /\ sink'.pending = sink.pending
      /\ sink'.file = sink.file /\ sink'.lost = sink.lost \cup {id}
      /\ sink' \in [next : Nat, upto : Nat, pending : SUBSET Ids, file : Seq(Ids), lost : SUBSET Ids]
  BY DEF RefuseCapture, SinkTyped
<1>6. RequestsTyped'
  <2>1. requests' \in Seq(Request)
    BY <1>1 DEF Becomes
  <2> QED
    BY <1>2, <1>3, <1>4, <2>1 DEF RequestsTyped, Running, Done
<1>7. ModelTyped' /\ CallsInv' /\ ServedInv'
  BY <1>2, <1>3, <1>4, CallsStay
<1>8. SinkTyped'
  BY <1>3, <1>5 DEF SinkTyped
<1>9. RequestsInv'
  BY <1>2, <1>3, <1>4 DEF RequestsInv, Valid, Done
<1>10. NumbersInv'
  <2>1. \A q \in Ids : /\ requests'[q].sequence = requests[q].sequence
                       /\ requests'[q].answered = requests[q].answered
                       /\ requests'[q].state \in {"withheld", "sent"} <=>
                            requests[q].state \in {"withheld", "sent"}
    BY <1>2, <1>3, <1>4
  <2> QED
    BY <1>3, <1>5, <2>1, NumbersStay
<1>11. FileInv'
  <2>1. /\ sink.upto \in Nat /\ sink.next \in Nat /\ sink.pending \subseteq Ids
        /\ Range(sink.file) \subseteq Ids /\ sink.lost \subseteq Ids
        /\ \A n \in DOMAIN sink.file : sink.file[n] \in Range(sink.file)
    BY DEF SinkTyped, Range
  <2>2. \A q \in Range(sink.file) \cup sink.lost \cup sink.pending :
          q \in Ids /\ requests'[q] = requests[q]
    BY <1>3, <1>4, <2>1 DEF FileInv
  <2> QED
    BY <1>2, <1>5, <2>1, <2>2, SMTT(30) DEF FileInv
<1> QED
  BY <1>6, <1>7, <1>8, <1>9, <1>10, <1>11

LEMMA LeastOf ==
  ASSUME NEW T \in SUBSET Nat, T # {}
  PROVE  \E x \in T : \A y \in T : x <= y
<1> DEFINE I == {1 .. n : n \in T}
<1>1. I \subseteq FiniteSubsetsOf(Nat) /\ I # {}
  <2>1. ASSUME NEW n \in T PROVE IsFiniteSet(1 .. n) /\ (1 .. n) \subseteq Nat
    BY FS_Interval
  <2> QED
    BY <2>1 DEF FiniteSubsetsOf
<1>2. PICK X \in I : \A Y \in I : ~ (<<Y, X>> \in StrictSubsetOrdering(Nat))
  BY <1>1, FS_StrictSubsetOrderingWellFounded, WFMin, Zenon
<1>3. PICK x \in T : X = 1 .. x
  OBVIOUS
<1>4. ASSUME NEW y \in T, y < x PROVE FALSE
  <2>1. (1 .. y) \subseteq (1 .. x) /\ x \in (1 .. x) /\ x \notin (1 .. y)
    BY <1>4
  <2>2. <<1 .. y, X>> \in StrictSubsetOrdering(Nat)
    BY <1>3, <2>1 DEF StrictSubsetOrdering
  <2> QED
    BY <1>2, <2>2
<1> QED
  BY <1>4

\* The rows an append writes: consecutive ingress numbers from sink.upto on, all held.
LEMMA ContinuingIs ==
  ASSUME ProxyInv, NEW held \in SUBSET Ids
  PROVE  /\ Missing(held) \in sink.upto .. sink.next
         /\ \A q \in held : requests[q].sequence # Missing(held)
         /\ Continuing(held) \in Seq(Ids) /\ Len(Continuing(held)) = Missing(held) - sink.upto
         /\ \A k \in 1 .. Missing(held) - sink.upto :
              /\ Continuing(held)[k] \in held
              /\ requests[Continuing(held)[k]].sequence = sink.upto + k - 1
<1> USE DEF ProxyInv
<1> DEFINE T == {n \in sink.upto .. sink.next : \A q \in held : requests[q].sequence # n}
<1>1. sink.upto \in Nat /\ sink.next \in Nat /\ sink.upto <= sink.next
  BY DEF SinkTyped, FileInv
<1>2. \A q \in held : requests[q].sequence \in Nat /\ requests[q].sequence < sink.next
  BY RequestIs DEF NumbersInv, NumbersGiven
<1>3. T \in SUBSET Nat /\ sink.next \in T
  BY <1>1, <1>2
<1>4. PICK x \in T : \A y \in T : x <= y
  BY <1>3, LeastOf
<1>5. PICK m : m = Missing(held)
  OBVIOUS
<1>6. m \in T /\ \A y \in T : m <= y
  <2> HIDE DEF T
  <2>1. \E z \in T : \A y \in T : z <= y
    BY <1>4
  <2>2. Min(T) \in T /\ \A y \in T : Min(T) <= y
    BY <2>1, Zenon DEF Min
  <2>3. Missing(held) = Min(T)
    BY DEF Missing, T
  <2> QED
    BY <1>5, <2>2, <2>3
<1>7. m \in sink.upto .. sink.next /\ \A q \in held : requests[q].sequence # m
  BY <1>6
<1>8. ASSUME NEW n \in sink.upto .. m - 1 PROVE \E q \in held : requests[q].sequence = n
  <2>1. n \in sink.upto .. sink.next /\ ~(m <= n)
    BY <1>1, <1>7
  <2> QED
    BY <1>6, <2>1
<1>9. PICK c \in Nat : c = m - sink.upto
  BY <1>1, <1>7
<1>10. ASSUME NEW k \in 1 .. c
       PROVE  /\ HeldWith(held, sink.upto + k - 1) \in held
              /\ requests[HeldWith(held, sink.upto + k - 1)].sequence = sink.upto + k - 1
  <2>1. sink.upto + k - 1 \in sink.upto .. m - 1
    BY <1>1, <1>7, <1>9
  <2>2. PICK n : n = sink.upto + k - 1
    OBVIOUS
  <2>3. \E q \in held : requests[q].sequence = n
    BY <1>8, <2>1, <2>2
  <2>4. HeldWith(held, n) \in held /\ requests[HeldWith(held, n)].sequence = n
    BY <2>3 DEF HeldWith
  <2> QED
    BY <2>2, <2>4
<1>11. Continuing(held) = [k \in 1 .. c |-> HeldWith(held, sink.upto + k - 1)]
  BY <1>5, <1>9 DEF Continuing
<1>12. Continuing(held) \in Seq(Ids) /\ Len(Continuing(held)) = c
  <2>1. \A k \in 1 .. c : HeldWith(held, sink.upto + k - 1) \in Ids
    BY <1>10
  <2> QED
    BY <1>9, <1>11, <2>1
<1>13. \A k \in 1 .. c : /\ Continuing(held)[k] \in held
                         /\ requests[Continuing(held)[k]].sequence = sink.upto + k - 1
  BY <1>10, <1>11
<1> QED
  BY <1>5, <1>7, <1>9, <1>12, <1>13

\* new is s followed by t, of a and b elements.
Concatenates(new, s, t, a, b) ==
  /\ DOMAIN new = 1 .. a + b /\ DOMAIN s = 1 .. a /\ DOMAIN t = 1 .. b
  /\ \A n \in 1 .. a : new[n] = s[n]
  /\ \A n \in 1 .. b : new[a + n] = t[n]
  /\ \A n \in 1 .. a + b : n \in 1 .. a \/ \E k \in 1 .. b : n = a + k

LEMMA ConcatIs ==
  ASSUME NEW S, NEW s \in Seq(S), NEW t \in Seq(S)
  PROVE  Concatenates(s \o t, s, t, Len(s), Len(t))
<1>1. PICK new : new = s \o t
  OBVIOUS
<1>2. PICK a \in Nat, b \in Nat : a = Len(s) /\ b = Len(t)
  BY LenProperties
<1>3. DOMAIN s = 1 .. a /\ DOMAIN t = 1 .. b
  BY <1>2, LenProperties
<1>4. /\ new \in Seq(S) /\ Len(new) = a + b
      /\ \A i \in 1 .. a + b : new[i] = IF i <= a THEN s[i] ELSE t[i - a]
  BY <1>1, <1>2, ConcatProperties
<1>5. DOMAIN new = 1 .. a + b
  BY <1>4, LenProperties
<1>6. \A n \in 1 .. a : new[n] = s[n]
  BY <1>4
<1>7. ASSUME NEW n \in 1 .. b PROVE new[a + n] = t[n]
  <2>1. a + n \in 1 .. a + b /\ ~(a + n <= a) /\ (a + n) - a = n
    OBVIOUS
  <2> QED
    BY <1>4, <2>1
<1>8. ASSUME NEW n \in 1 .. a + b, n \notin 1 .. a PROVE \E k \in 1 .. b : n = a + k
  <2>1. n - a \in 1 .. b /\ n = a + (n - a)
    BY <1>8
  <2> QED
    BY <2>1
<1>9. Concatenates(new, s, t, a, b)
  BY <1>3, <1>5, <1>6, <1>7, <1>8 DEF Concatenates
<1> QED
  BY <1>1, <1>2, <1>9

LEMMA ConcatRange ==
  ASSUME NEW S, NEW s \in Seq(S), NEW t \in Seq(S)
  PROVE  Range(s \o t) = Range(s) \cup Range(t)
<1>1. PICK a \in Nat, b \in Nat : a = Len(s) /\ b = Len(t)
  BY LenProperties
<1>2. PICK new : new = s \o t
  OBVIOUS
<1>3. Concatenates(new, s, t, a, b)
  BY <1>1, <1>2, ConcatIs
<1>4. \A n \in 1 .. a : n \in 1 .. a + b
  OBVIOUS
<1>5. \A n \in 1 .. b : a + n \in 1 .. a + b
  OBVIOUS
<1>6. Range(s) \subseteq Range(new)
  BY <1>3, <1>4 DEF Range, Concatenates
<1>7. Range(t) \subseteq Range(new)
  BY <1>3, <1>5 DEF Range, Concatenates
<1>8. Range(new) \subseteq Range(s) \cup Range(t)
  <2>1. ASSUME NEW n \in 1 .. a + b PROVE new[n] \in Range(s) \cup Range(t)
    <3>1. CASE n \in 1 .. a
      BY <1>3, <3>1 DEF Range, Concatenates
    <3>2. CASE n \notin 1 .. a
      <4>1. PICK k \in 1 .. b : n = a + k
        BY <1>3, <3>2 DEF Concatenates
      <4> QED
        BY <1>3, <4>1 DEF Range, Concatenates
    <3> QED
      BY <3>1, <3>2
  <2> QED
    BY <1>3, <2>1 DEF Range, Concatenates
<1> QED
  BY <1>2, <1>6, <1>7, <1>8

\* A finished request that has no capture yet was not written, held or lost.
LEMMA NotYetCaptured ==
  ASSUME ProxyInv, NEW id \in Ids, requests[id].state = "ended"
  PROVE  /\ id \notin sink.pending /\ id \notin Range(sink.file) /\ id \notin sink.lost
         /\ requests[id].sequence >= sink.upto
<1> USE DEF ProxyInv
<1>1. id \notin sink.pending /\ id \notin Range(sink.file) /\ id \notin sink.lost
  BY DEF FileInv
<1>2. requests[id].sequence \in Nat /\ requests[id].sequence > 0 /\ sink.upto \in Nat
  BY RequestIs DEF NumbersInv, NumbersGiven, SinkTyped
<1>3. ASSUME requests[id].sequence < sink.upto PROVE FALSE
  <2>1. PICK q \in Range(sink.file) \cup sink.lost : requests[q].sequence = requests[id].sequence
    BY <1>2, <1>3 DEF FileInv
  <2>2. q \in Ids /\ q # id
    BY <1>1, <2>1 DEF SinkTyped, Range
  <2> QED
    BY <1>2, <2>1, <2>2 DEF NumbersInv, NumbersDistinct
<1> QED
  BY <1>1, <1>2, <1>3

LEMMA CaptureKeeps ==
  ASSUME ProxyInv, NEW id \in Ids, Capture(id)
  PROVE  ProxyInv'
<1> USE DEF ProxyInv
<1>1. PICK held : held = sink.pending \cup {id}
  OBVIOUS
<1>2. PICK rows : rows = Continuing(held)
  OBVIOUS
<1>3. PICK m : m = Missing(held)
  OBVIOUS
<1>4. requests[id].state = "ended" /\ Valid(id) /\ UNCHANGED <<calls, ledger, served>>
  BY DEF Capture
<1>5. /\ sink.upto \in Nat /\ sink.next \in Nat /\ sink.pending \subseteq Ids /\ sink.file \in Seq(Ids)
      /\ Range(sink.file) \subseteq Ids /\ sink.lost \subseteq Ids
      /\ sink.upto \in 1 .. sink.next
  BY DEF SinkTyped, Range, FileInv
<1>6. held \in SUBSET Ids
  BY <1>1, <1>5
<1>7. /\ m \in sink.upto .. sink.next /\ \A q \in held : requests[q].sequence # m
      /\ rows \in Seq(Ids) /\ Len(rows) = m - sink.upto
      /\ \A k \in 1 .. m - sink.upto : rows[k] \in held /\ requests[rows[k]].sequence = sink.upto + k - 1
  BY <1>2, <1>3, <1>6, ContinuingIs
<1>8. PICK c \in Nat : c = m - sink.upto
  BY <1>5, <1>7
<1>9. Len(rows) = c /\ DOMAIN rows = 1 .. c /\ sink.upto + Len(rows) = m /\ m \in Nat
  BY <1>5, <1>7, <1>8
<1>10. PICK state \in {"captured", "lost"} :
         /\ requests' = [requests EXCEPT ![id].state = state]
         /\ sink'.next = sink.next /\ sink'.upto = m /\ sink'.pending = held \ Range(rows)
         /\ state = "captured" => sink'.file = sink.file \o rows /\ sink'.lost = sink.lost
         /\ state = "lost" => /\ sink'.file = sink.file /\ sink'.lost = sink.lost \cup Range(rows)
                              /\ rows # <<>>
         /\ sink' = [next |-> sink'.next, upto |-> sink'.upto, pending |-> sink'.pending,
                     file |-> sink'.file, lost |-> sink'.lost]
  <2>1. PICK flushed : flushed = [sink EXCEPT !.pending = held \ Range(rows), !.upto = @ + Len(rows)]
    OBVIOUS
  <2>2. /\ flushed.next = sink.next /\ flushed.upto = m /\ flushed.pending = held \ Range(rows)
        /\ flushed.file = sink.file /\ flushed.lost = sink.lost
        /\ DOMAIN flushed = {"next", "upto", "pending", "file", "lost"}
        /\ flushed = [next |-> flushed.next, upto |-> flushed.upto, pending |-> flushed.pending,
                      file |-> flushed.file, lost |-> flushed.lost]
    BY <1>9, <2>1 DEF SinkTyped
  <2>3. \/ /\ sink' = [flushed EXCEPT !.file = @ \o rows]
           /\ requests' = [requests EXCEPT ![id].state = "captured"]
        \/ /\ rows # <<>>
           /\ sink' = [flushed EXCEPT !.lost = @ \cup Range(rows)]
           /\ requests' = [requests EXCEPT ![id].state = "lost"]
    BY <1>1, <1>2, <2>1 DEF Capture
  <2>4. CASE /\ sink' = [flushed EXCEPT !.file = @ \o rows]
             /\ requests' = [requests EXCEPT ![id].state = "captured"]
    BY <2>2, <2>4
  <2>5. CASE /\ rows # <<>>
             /\ sink' = [flushed EXCEPT !.lost = @ \cup Range(rows)]
             /\ requests' = [requests EXCEPT ![id].state = "lost"]
    BY <2>2, <2>5
  <2> QED
    BY <2>3, <2>4, <2>5
<1>11. Becomes(id, [requests[id] EXCEPT !.state = state])
  BY <1>10, StateBecomes
<1>12. /\ requests'[id].state = state /\ requests'[id].sequence = requests[id].sequence
       /\ requests'[id].calls = requests[id].calls /\ requests'[id].outcome = requests[id].outcome
       /\ requests'[id].projected = requests[id].projected
       /\ requests'[id].answered = requests[id].answered
  BY <1>11, RequestIs DEF Becomes, Request
<1>13. Ids' = Ids /\ \A q \in Ids : q # id => requests'[q] = requests[q]
  BY <1>11 DEF Becomes
<1>14. RequestsTyped'
  <2>1. requests' \in Seq(Request)
    BY <1>11 DEF Becomes
  <2> QED
    BY <1>4, <1>12, <1>13, <2>1 DEF RequestsTyped, Running, Done
<1>15. ModelTyped' /\ CallsInv' /\ ServedInv'
  BY <1>4, <1>12, <1>13, CallsStay
<1>16. Range(rows) \subseteq held /\ Range(rows) = {rows[k] : k \in 1 .. c}
  BY <1>7, <1>8, <1>9 DEF Range
<1>17. SinkTyped'
  <2>1. sink.file \o rows \in Seq(Ids)
    BY <1>5, <1>7
  <2>2. sink'.file \in Seq(Ids) /\ sink'.lost \subseteq Ids /\ sink'.pending \subseteq Ids
    BY <1>5, <1>6, <1>10, <1>16, <2>1
  <2> QED
    BY <1>5, <1>9, <1>10, <1>13, <2>2 DEF SinkTyped
<1>18. RequestsInv'
  BY <1>4, <1>12, <1>13 DEF RequestsInv, Valid, Done
<1>19. \A q \in Ids : requests'[q].sequence = requests[q].sequence /\ requests[q].sequence \in Nat
  BY <1>12, <1>13, RequestIs
<1>20. NumbersInv'
  <2>1. \A q \in Ids : /\ requests'[q].sequence = requests[q].sequence
                       /\ requests'[q].answered = requests[q].answered
                       /\ requests'[q].state \in {"withheld", "sent"} <=>
                            requests[q].state \in {"withheld", "sent"}
    BY <1>4, <1>12, <1>13
  <2> QED
    BY <1>10, <1>13, <2>1, NumbersStay
<1>21. /\ id \notin sink.pending /\ id \notin Range(sink.file) /\ id \notin sink.lost
       /\ requests[id].sequence >= sink.upto
  BY <1>4, NotYetCaptured
<1>22. \A q \in held : requests[q].sequence >= sink.upto
  BY <1>1, <1>5, <1>19, <1>21 DEF FileInv
\* What stays held is beyond the gap.
<1>23. ASSUME NEW q \in held, requests[q].sequence <= m PROVE q \in Range(rows)
  <2>1. q \in Ids /\ requests[q].sequence \in Nat /\ requests[q].sequence # m
    BY <1>6, <1>7, <1>19
  <2>2. PICK k \in 1 .. c : requests[q].sequence = sink.upto + k - 1
    <3>1. requests[q].sequence - sink.upto + 1 \in 1 .. c
      BY <1>5, <1>8, <1>9, <1>22, <1>23, <2>1
    <3>2. requests[q].sequence = sink.upto + (requests[q].sequence - sink.upto + 1) - 1
      BY <1>5, <2>1
    <3> QED
      BY <3>1, <3>2
  <2>3. rows[k] \in held /\ requests[rows[k]].sequence = requests[q].sequence
    BY <1>7, <1>8, <2>2
  <2>4. rows[k] = q
    BY <1>5, <1>6, <1>22, <2>1, <2>3 DEF NumbersInv, NumbersDistinct
  <2> QED
    BY <1>16, <2>4
\* A failed write loses the row it was called for.
<1>24. state = "lost" => id \in Range(rows)
  <2>1. ASSUME state = "lost" PROVE rows[1] = id
    <3>1. c >= 1
      BY <1>9, <1>10, <2>1, <1>7
    <3>2. rows[1] \in held /\ requests[rows[1]].sequence = sink.upto
      BY <1>5, <1>7, <1>8, <3>1
    <3>3. rows[1] \notin sink.pending
      BY <1>5, <1>19, <3>2 DEF FileInv
    <3> QED
      BY <1>1, <3>2, <3>3
  <2>2. ASSUME state = "lost" PROVE 1 \in 1 .. c
    BY <1>9, <1>10, <2>2, <1>7
  <2> QED
    BY <1>16, <2>1, <2>2
<1>25. FileInv'
  <2>1. sink'.upto \in 1 .. sink'.next
    BY <1>5, <1>7, <1>10
  <2>2. ASSUME NEW q \in held, q \notin Range(rows)
        PROVE  requests'[q].state = "captured" /\ requests'[q].sequence > m
    <3>1. requests[q].sequence > m
      BY <1>6, <1>9, <1>19, <1>23, <2>2
    <3>2. q # id => requests[q].state = "captured"
      BY <1>1 DEF FileInv
    <3> QED
      BY <1>6, <1>10, <1>12, <1>13, <1>24, <2>2, <3>1, <3>2
  <2>3. \A q \in sink'.pending : requests'[q].state = "captured" /\ requests'[q].sequence > sink'.upto
    BY <1>10, <2>2
  <2>4. ASSUME NEW q \in Range(rows)
        PROVE  /\ q \in Ids /\ requests'[q].sequence < m /\ requests'[q].sequence >= sink.upto
               /\ requests'[q].state \in {"captured", "lost"}
               /\ state = "captured" => requests'[q].state = "captured"
    <3>1. PICK k \in 1 .. c : q = rows[k]
      BY <1>16
    <3>2. requests[q].sequence = sink.upto + k - 1 /\ q \in held
      BY <1>7, <1>8, <3>1
    <3>3. requests[q].sequence < m /\ requests[q].sequence >= sink.upto
      BY <1>5, <1>8, <1>9, <3>2
    <3>4. q # id => requests[q].state = "captured"
      BY <1>1, <3>2 DEF FileInv
    <3> QED
      BY <1>6, <1>10, <1>12, <1>13, <1>19, <3>2, <3>3, <3>4
  <2>5. ASSUME NEW q \in Range(sink.file) \cup sink.lost
        PROVE  q \in Ids /\ requests'[q] = requests[q]
    BY <1>5, <1>13, <1>21
  <2>6. Range(sink.file \o rows) = Range(sink.file) \cup Range(rows)
    BY <1>5, <1>7, ConcatRange
  <2>7. \A q \in Range(sink'.file) : requests'[q].state = "captured" /\ requests'[q].sequence < sink'.upto
    <3>1. ASSUME NEW q \in Range(sink.file)
          PROVE  requests'[q].state = "captured" /\ requests'[q].sequence < m
      <4>1. q \in Ids /\ requests'[q] = requests[q]
        BY <2>5
      <4>2. requests[q].state = "captured" /\ requests[q].sequence < sink.upto
        BY DEF FileInv
      <4>3. requests[q].sequence \in Nat
        BY <4>1, <1>19
      <4>4. requests[q].sequence < m
        BY <1>5, <1>7, <4>2, <4>3
      <4> QED
        BY <4>1, <4>2, <4>4
    <3> QED
      BY <1>10, <2>4, <2>6, <3>1
  <2>8. \A q \in sink'.lost : requests'[q].state \in {"captured", "lost"}
    BY <1>10, <2>4, <2>5 DEF FileInv
  <2>9. \A s \in 1 .. sink'.upto - 1 :
          \E q \in Range(sink'.file) \cup sink'.lost : requests'[q].sequence = s
    <3>1. Range(sink'.file) \cup sink'.lost = Range(sink.file) \cup sink.lost \cup Range(rows)
      BY <1>10, <2>6
    <3>2. ASSUME NEW s \in 1 .. m - 1, s < sink.upto
          PROVE  \E q \in Range(sink.file) \cup sink.lost : requests'[q].sequence = s
      <4>1. s \in 1 .. sink.upto - 1
        BY <1>5, <1>9, <3>2
      <4> QED
        BY <2>5, <4>1 DEF FileInv
    <3>3. ASSUME NEW s \in 1 .. m - 1, s >= sink.upto
          PROVE  \E q \in Range(rows) : requests'[q].sequence = s
      <4>1. PICK k \in 1 .. c : s = sink.upto + k - 1
        <5>1. s - sink.upto + 1 \in 1 .. c /\ s = sink.upto + (s - sink.upto + 1) - 1
          BY <1>5, <1>8, <1>9, <3>3, SMTT(30)
        <5> QED
          BY <5>1
      <4>2. rows[k] \in Ids /\ requests[rows[k]].sequence = s
        BY <1>6, <1>7, <1>8, <4>1
      <4> QED
        BY <1>16, <1>19, <4>2
    <3> QED
      BY <1>5, <1>9, <1>10, <3>1, <3>2, <3>3, SMTT(30)
  <2>10. \A i, n \in DOMAIN sink'.file : i < n =>
           requests'[sink'.file[i]].sequence < requests'[sink'.file[n]].sequence
    <3>1. PICK a \in Nat : a = Len(sink.file)
      BY <1>5
    <3>2. PICK new : new = sink.file \o rows
      OBVIOUS
    <3>3. /\ DOMAIN new = 1 .. a + c /\ DOMAIN sink.file = 1 .. a
          /\ \A n \in 1 .. a : new[n] = sink.file[n]
          /\ \A n \in 1 .. c : new[a + n] = rows[n]
          /\ \A n \in 1 .. a + c : n \in 1 .. a \/ \E k \in 1 .. c : n = a + k
      <4>1. sink.file \in Seq(Ids) /\ rows \in Seq(Ids) /\ Len(rows) = c
        BY <1>5, <1>7, <1>9
      <4>2. Concatenates(sink.file \o rows, sink.file, rows, Len(sink.file), Len(rows))
        BY <4>1, ConcatIs
      <4>3. Concatenates(new, sink.file, rows, a, c)
        BY <3>1, <3>2, <4>1, <4>2
      <4> QED
        BY <4>3 DEF Concatenates
    <3>4. \A n \in 1 .. a :
            /\ sink.file[n] \in Range(sink.file) /\ sink.file[n] \in Ids
            /\ requests'[sink.file[n]].sequence = requests[sink.file[n]].sequence
            /\ requests'[sink.file[n]].sequence < sink.upto
            /\ requests'[sink.file[n]].sequence \in Nat
      <4>1. \A n \in 1 .. a : sink.file[n] \in Range(sink.file)
        BY <3>3 DEF Range
      <4>2. \A q \in Range(sink.file) : /\ q \in Ids /\ requests'[q].sequence = requests[q].sequence
                                        /\ requests'[q].sequence < sink.upto
                                        /\ requests'[q].sequence \in Nat
        BY <1>5, <1>19 DEF FileInv
      <4> QED
        BY <4>1, <4>2
    <3>7. \A n \in 1 .. c : requests'[rows[n]].sequence = sink.upto + n - 1
      BY <1>6, <1>7, <1>8, <1>19
    <3>8. \A i, n \in 1 .. a : i < n =>
            requests'[sink.file[i]].sequence < requests'[sink.file[n]].sequence
      BY <3>3, <3>4 DEF FileInv
    <3>9. ASSUME NEW i \in 1 .. a + c, NEW n \in 1 .. a + c, i < n
          PROVE  requests'[new[i]].sequence < requests'[new[n]].sequence
      <4>1. CASE n \in 1 .. a
        <5>1. i \in 1 .. a
          BY <3>9, <4>1
        <5> QED
          BY <3>3, <3>8, <3>9, <4>1, <5>1
      <4>2. CASE n \notin 1 .. a
        <5>1. PICK k \in 1 .. c : n = a + k
          BY <3>3, <4>2
        <5>2. requests'[new[n]].sequence = sink.upto + k - 1
          BY <3>3, <3>7, <5>1
        <5>3. CASE i \in 1 .. a
          <6>1. new[i] = sink.file[i] /\ requests'[sink.file[i]].sequence < sink.upto
                /\ requests'[sink.file[i]].sequence \in Nat
            BY <3>3, <3>4, <5>3
          <6> QED
            BY <1>5, <5>2, <6>1
        <5>4. CASE i \notin 1 .. a
          <6>1. PICK j \in 1 .. c : i = a + j
            BY <3>3, <5>4
          <6>2. requests'[new[i]].sequence = sink.upto + j - 1
            BY <3>3, <3>7, <6>1
          <6>3. j < k
            BY <3>9, <5>1, <6>1
          <6> QED
            BY <1>5, <5>2, <6>2, <6>3
        <5> QED
          BY <5>3, <5>4
      <4> QED
        BY <4>1, <4>2
    <3>5. CASE state = "captured"
      BY <1>10, <3>2, <3>3, <3>5, <3>9
    <3>6. CASE state = "lost"
      BY <1>10, <3>3, <3>6, <3>8
    <3> QED
      BY <3>5, <3>6
  <2> QED
    BY <2>1, <2>3, <2>7, <2>8, <2>9, <2>10 DEF FileInv
<1> QED
  BY <1>14, <1>15, <1>17, <1>18, <1>20, <1>25

\* The call with number k of request id has ended with this status, unless it was cancelled.
Settling(id, k, status) ==
  /\ requests' \in Seq(Request) /\ Ids' = Ids
  /\ \A q \in Ids : q # id => requests'[q] = requests[q]
  /\ requests'[id].state = requests[id].state /\ requests'[id].sequence = requests[id].sequence
  /\ requests'[id].outcome = requests[id].outcome
  /\ requests'[id].projected = requests[id].projected
  /\ requests'[id].answered = requests[id].answered
  /\ Len(requests'[id].calls) = Len(requests[id].calls)
  /\ DOMAIN requests'[id].calls = DOMAIN requests[id].calls
  /\ \A j \in DOMAIN requests[id].calls :
       requests'[id].calls[j] = IF j = k /\ requests[id].calls[j] = "running"
                                THEN status ELSE requests[id].calls[j]

LEMMA SettlingIs ==
  ASSUME RequestsTyped, ModelTyped, NEW call \in calls, NEW status \in {"succeeded", "failed"},
         Settle(call, status)
  PROVE  Settling(call.request, call.call, status)
<1>1. PICK id \in Ids : id = call.request
  BY DEF ModelTyped
<1>2. PICK k \in DOMAIN requests[id].calls : k = call.call
  BY <1>1 DEF ModelTyped
<1>3. PICK new : new = Settled(id, k, status)
  OBVIOUS
<1>4. /\ new \in Seq(Statuses) /\ Len(new) = Len(requests[id].calls)
      /\ Becomes(id, [requests[id] EXCEPT !.calls = new])
  BY <1>1, <1>2, <1>3, SettleIs
<1>5. \A j \in DOMAIN requests[id].calls :
        new[j] = IF j = k /\ requests[id].calls[j] = "running" THEN status ELSE requests[id].calls[j]
  BY <1>2, <1>3, RequestIs DEF Settled
<1>6. DOMAIN new = DOMAIN requests[id].calls
  BY <1>4, RequestIs
<1>7. /\ requests'[id].calls = new
      /\ requests'[id].state = requests[id].state /\ requests'[id].sequence = requests[id].sequence
      /\ requests'[id].outcome = requests[id].outcome
      /\ requests'[id].projected = requests[id].projected
      /\ requests'[id].answered = requests[id].answered
  BY <1>4, RequestIs DEF Becomes, Request
<1>8. Settling(id, k, status)
  BY <1>4, <1>5, <1>6, <1>7 DEF Settling, Becomes
<1> QED
  BY <1>1, <1>2, <1>8

\* The end of a call matters to nothing but the calls.
LEMMA SettlingKeeps ==
  ASSUME ProxyInv, NEW call \in calls, NEW status \in {"succeeded", "failed"},
         Settling(call.request, call.call, status), sink' = sink
  PROVE  RequestsTyped' /\ SinkTyped' /\ RequestsInv' /\ NumbersInv' /\ FileInv'
<1> USE DEF ProxyInv
<1>1. PICK id \in Ids : id = call.request
  BY DEF ModelTyped
<1>2. PICK k \in DOMAIN requests[id].calls : k = call.call
  BY <1>1 DEF ModelTyped
<1>3. Settling(id, k, status)
  BY <1>1, <1>2
<1>4. \A q \in Ids : /\ requests'[q].sequence = requests[q].sequence
                     /\ requests'[q].answered = requests[q].answered
                     /\ requests'[q].state = requests[q].state
                     /\ requests'[q].outcome = requests[q].outcome
                     /\ requests'[q].projected = requests[q].projected
  BY <1>3 DEF Settling
<1>5. RequestsTyped'
  <2>1. ASSUME NEW q \in Ids, requests[q].state \in Done PROVE "running" \notin Range(requests'[q].calls)
    <3>1. "running" \notin Range(requests[q].calls)
      BY <2>1 DEF RequestsTyped, Running
    <3>2. CASE q = id
      <4>1. \A j \in DOMAIN requests[id].calls : requests[id].calls[j] # "running"
        BY <3>1, <3>2 DEF Range
      <4> QED
        BY <1>3, <3>2, <4>1 DEF Settling, Range
    <3> QED
      BY <1>3, <3>1, <3>2 DEF Settling
  <2>2. requests' \in Seq(Request) /\ Ids' = Ids
    BY <1>3 DEF Settling
  <2> QED
    BY <1>4, <2>1, <2>2 DEF RequestsTyped, Running
<1>6. Ids' = Ids /\ SinkTyped'
  BY <1>3 DEF SinkTyped, Settling
<1>7. RequestsInv'
  <2>1. ASSUME NEW q \in Ids PROVE requests[q].calls = <<>> <=> requests'[q].calls = <<>>
    <3>1. requests'[q].calls \in Seq(Statuses)
      <4>1. requests' \in Seq(Request) /\ q \in DOMAIN requests'
        BY <1>3 DEF Settling, Ids
      <4>2. requests'[q] \in Request
        BY <4>1
      <4> QED
        BY <4>2 DEF Request
    <3>2. Len(requests'[q].calls) = Len(requests[q].calls)
      BY <1>3 DEF Settling
    <3> QED
      BY <3>1, <3>2, RequestIs
  <2> QED
    BY <1>4, <1>6, <2>1 DEF RequestsInv, Valid
<1>8. NumbersInv'
  BY <1>4, <1>6, NumbersStay
<1>9. FileInv'
  <2>1. sink.next \in Nat /\ sink.next >= sink.next
    BY DEF SinkTyped
  <2> QED
    BY <1>4, <1>6, <2>1, FileStays
<1> QED
  BY <1>5, <1>6, <1>7, <1>8, <1>9

\* Of the calls that stay pending, none is of the same request.
LEMMA PendingElsewhere ==
  ASSUME ModelTyped, PendingLast, NEW call \in calls
  PROVE  \A other \in calls \ {call} : other.request # call.request
<1>1. ASSUME NEW other \in calls, other.request = call.request PROVE other = call
  <2>1. other.call = call.call
    BY <1>1 DEF PendingLast
  <2> QED
    BY <1>1, <2>1 DEF ModelTyped
<1> QED
  BY <1>1

LEMMA PendingStays ==
  ASSUME ProxyInv, NEW call \in calls, NEW status \in {"succeeded", "failed"},
         Settling(call.request, call.call, status), calls' = calls \ {call}
  PROVE  /\ calls' \subseteq [request : Ids', call : Nat]
         /\ \A other \in calls' : other.call \in DOMAIN requests'[other.request].calls
         /\ \A other \in calls' : requests'[other.request] = requests[other.request]
         /\ RunningPending'
<1> USE DEF ProxyInv
<1>1. PICK id \in Ids : id = call.request
  BY DEF ModelTyped
<1>2. PICK k \in DOMAIN requests[id].calls : k = call.call
  BY <1>1 DEF ModelTyped
<1>3. Settling(id, k, status)
  BY <1>1, <1>2
<1>4. Ids' = Ids
  BY <1>3 DEF Settling
<1>5. \A other \in calls' : other.request \in Ids /\ other.request # id
  BY <1>1, PendingElsewhere DEF CallsInv, ModelTyped
<1>6. \A other \in calls' : requests'[other.request] = requests[other.request]
  BY <1>3, <1>5 DEF Settling
<1>7. ASSUME NEW q \in Ids, NEW j \in DOMAIN requests'[q].calls, requests'[q].calls[j] = "running"
      PROVE  [request |-> q, call |-> j] \in calls'
  <2>1. /\ j \in DOMAIN requests[q].calls /\ requests[q].calls[j] = "running"
        /\ ~(q = id /\ j = k)
    BY <1>3, <1>7 DEF Settling
  <2>2. [request |-> q, call |-> j] \in calls
    BY <2>1 DEF CallsInv, RunningPending
  <2>3. [request |-> q, call |-> j] # call
    BY <1>1, <1>2, <2>1
  <2> QED
    BY <2>2, <2>3
<1>8. RunningPending'
  BY <1>4, <1>7 DEF RunningPending
<1> QED
  BY <1>4, <1>6, <1>8 DEF ModelTyped

\* The records there are belong to earlier calls than the one that ends.
LEMMA RecordsStay ==
  ASSUME ProxyInv, NEW call \in calls, NEW status \in {"succeeded", "failed"},
         Settling(call.request, call.call, status), NEW n \in DOMAIN ledger
  PROVE  /\ ledger[n].request \in Ids
         /\ ledger[n].call \in DOMAIN requests'[ledger[n].request].calls
         /\ requests'[ledger[n].request].calls[ledger[n].call] = StatusOf(ledger[n])
         /\ ledger[n].request = call.request => ledger[n].call < call.call
<1> USE DEF ProxyInv
<1>1. PICK id \in Ids : id = call.request
  BY DEF ModelTyped
<1>2. PICK k \in DOMAIN requests[id].calls : k = call.call
  BY <1>1 DEF ModelTyped
<1>3. Settling(id, k, status)
  BY <1>1, <1>2
<1>4. /\ ledger[n].request \in Ids /\ ledger[n].call \in Nat
      /\ ledger[n].call \in DOMAIN requests[ledger[n].request].calls
      /\ ledger[n].request = id => ledger[n].call < k
  BY <1>1, <1>2, LedgerIs DEF CallsInv, RecordsOwned, PendingLast
<1>5. k \in Nat
  BY RequestIs
<1>6. ledger[n].request = id => ledger[n].call # k
  BY <1>4, <1>5
<1>7. ASSUME NEW q \in Ids, NEW j \in DOMAIN requests[q].calls, q = id => j # k
      PROVE  j \in DOMAIN requests'[q].calls /\ requests'[q].calls[j] = requests[q].calls[j]
  <2>1. CASE q = id
    BY <1>3, <1>7, <2>1 DEF Settling
  <2>2. CASE q # id
    BY <1>3, <2>2 DEF Settling
  <2> QED
    BY <2>1, <2>2
<1> QED
  BY <1>1, <1>2, <1>4, <1>6, <1>7 DEF StatusOf

LEMMA LoseRecordKeeps ==
  ASSUME ProxyInv, NEW call \in calls, LoseRecord(call)
  PROVE  ProxyInv'
<1> USE DEF ProxyInv
<1>1. PICK id \in Ids : id = call.request
  BY DEF ModelTyped
<1>2. PICK k \in DOMAIN requests[id].calls : k = call.call
  BY <1>1 DEF ModelTyped
<1>3. /\ Settling(call.request, call.call, "failed") /\ calls' = calls \ {call}
      /\ ledger' = ledger /\ served' = served + 1 /\ sink' = sink
  BY SettlingIs DEF LoseRecord
<1>4. RequestsTyped' /\ SinkTyped' /\ RequestsInv' /\ NumbersInv' /\ FileInv'
  BY <1>3, SettlingKeeps
<1>5. /\ calls' \subseteq [request : Ids', call : Nat]
      /\ \A other \in calls' : other.call \in DOMAIN requests'[other.request].calls
      /\ \A other \in calls' : requests'[other.request] = requests[other.request]
      /\ RunningPending'
  BY <1>3, PendingStays
<1>6. Settling(id, k, "failed") /\ Ids' = Ids
  BY <1>1, <1>2, <1>3 DEF Settling
<1>7. ModelTyped'
  BY <1>3, <1>5, <1>6 DEF ModelTyped
<1>8. \A n \in DOMAIN ledger :
        /\ ledger[n].request \in Ids
        /\ ledger[n].call \in DOMAIN requests'[ledger[n].request].calls
        /\ requests'[ledger[n].request].calls[ledger[n].call] = StatusOf(ledger[n])
  BY <1>3, RecordsStay
<1>9. CallsInv'
  <2>1. RecordsOwned'
    BY <1>3, <1>8 DEF CallsInv, RecordsOwned, StatusOf
  <2>2. PendingLast'
    BY <1>3, <1>5 DEF CallsInv, PendingLast, StatusOf
  <2>3. SuccessesRecorded'
    <3>1. ASSUME NEW q \in Ids, NEW j \in DOMAIN requests'[q].calls,
                 requests'[q].calls[j] = "succeeded"
          PROVE  j \in DOMAIN requests[q].calls /\ requests[q].calls[j] = "succeeded"
      BY <1>6, <3>1 DEF Settling
    <3> QED
      BY <1>3, <1>6, <3>1 DEF CallsInv, SuccessesRecorded
  <2>4. RecordsOrdered'
    BY <1>3 DEF CallsInv, RecordsOrdered
  <2> QED
    BY <1>5, <2>1, <2>2, <2>3, <2>4 DEF CallsInv
<1>10. ServedInv'
  <2>1. requests'[id].calls[k] \in {"failed", "cancelled"}
    <3>1. requests[id].calls[k] \in {"running", "cancelled"}
      BY <1>1, <1>2 DEF CallsInv, PendingLast, StatusOf
    <3> QED
      BY <1>6, <3>1 DEF Settling
  <2>2. requests'[id].calls[k] \in Range(requests'[id].calls)
    BY <1>6 DEF Settling, Range
  <2> QED
    BY <1>6, <2>1, <2>2 DEF ServedInv
<1> QED
  BY <1>4, <1>7, <1>9, <1>10

LEMMA AppendIs ==
  ASSUME NEW S, NEW s \in Seq(S), NEW e \in S
  PROVE  /\ Append(s, e) \in Seq(S) /\ Len(Append(s, e)) = Len(s) + 1 /\ Len(s) \in Nat
         /\ DOMAIN s = 1 .. Len(s) /\ DOMAIN Append(s, e) = 1 .. Len(s) + 1
         /\ DOMAIN Append(s, e) = DOMAIN s \cup {Len(s) + 1} /\ Len(s) + 1 \notin DOMAIN s
         /\ Append(s, e)[Len(s) + 1] = e
         /\ \A n \in DOMAIN s : Append(s, e)[n] = s[n]
<1>1. /\ Append(s, e) \in Seq(S) /\ Len(Append(s, e)) = Len(s) + 1 /\ Len(s) \in Nat
      /\ DOMAIN s = 1 .. Len(s)
  OBVIOUS
<1>2. DOMAIN Append(s, e) = 1 .. Len(s) + 1
  BY <1>1
<1>3. 1 .. Len(s) + 1 = (1 .. Len(s)) \cup {Len(s) + 1}
  BY <1>1
<1> QED
  BY <1>1, <1>2, <1>3
LEMMA ObserveKeeps ==
  ASSUME ProxyInv, NEW call \in calls, Observe(call)
  PROVE  ProxyInv'
<1> USE DEF ProxyInv
<1>1. PICK id \in Ids : id = call.request
  BY DEF ModelTyped
<1>2. PICK k \in DOMAIN requests[id].calls : k = call.call
  BY <1>1 DEF ModelTyped
<1>3. PICK ok \in BOOLEAN, status \in {"succeeded", "failed"} :
        /\ status = "succeeded" => ok
        /\ ledger' = Append(ledger, [request |-> call.request, call |-> call.call, ok |-> ok])
        /\ served' = IF ok THEN served + 1 ELSE served
        /\ Settle(call, status)
  BY DEF Observe
<1>4. Settling(call.request, call.call, status) /\ calls' = calls \ {call} /\ sink' = sink
  BY <1>3, SettlingIs DEF Observe
<1>5. RequestsTyped' /\ SinkTyped' /\ RequestsInv' /\ NumbersInv' /\ FileInv'
  BY <1>4, SettlingKeeps
<1>6. /\ calls' \subseteq [request : Ids', call : Nat]
      /\ \A other \in calls' : other.call \in DOMAIN requests'[other.request].calls
      /\ \A other \in calls' : requests'[other.request] = requests[other.request]
      /\ RunningPending'
  BY <1>4, PendingStays
<1>7. Settling(id, k, status) /\ Ids' = Ids
  BY <1>1, <1>2, <1>4 DEF Settling
<1>8. PICK record : record = [request |-> id, call |-> k, ok |-> ok]
  OBVIOUS
<1>9. PICK last \in Nat : last = Len(ledger)
  BY LedgerIs
<1>10. record.request = id /\ record.call = k /\ record.ok = ok /\ k \in Nat
       /\ record \in [request : Ids, call : Nat, ok : BOOLEAN]
  BY <1>8, RequestIs
<1>11. /\ ledger' \in Seq([request : Ids, call : Nat, ok : BOOLEAN])
       /\ DOMAIN ledger = 1 .. last /\ DOMAIN ledger' = DOMAIN ledger \cup {last + 1}
       /\ last + 1 \notin DOMAIN ledger /\ ledger'[last + 1] = record
       /\ \A n \in DOMAIN ledger : ledger'[n] = ledger[n]
  <2>1. ledger' = Append(ledger, record)
    BY <1>1, <1>2, <1>3, <1>8
  <2>2. ledger \in Seq([request : Ids, call : Nat, ok : BOOLEAN])
    BY DEF ModelTyped
  <2> QED
    BY <1>9, <1>10, <2>1, <2>2, AppendIs
<1>12. ModelTyped'
  <2>1. served \in Nat /\ served' \in Nat
    BY <1>3 DEF ModelTyped
  <2> QED
    BY <1>6, <1>7, <1>11, <2>1 DEF ModelTyped
<1>13. \A n \in DOMAIN ledger :
         /\ ledger[n].request \in Ids
         /\ ledger[n].call \in DOMAIN requests'[ledger[n].request].calls
         /\ requests'[ledger[n].request].calls[ledger[n].call] = StatusOf(ledger[n])
         /\ ledger[n].request = id => ledger[n].call < k
  BY <1>1, <1>2, <1>4, RecordsStay
<1>14. requests[id].calls[k] \in {"running", "cancelled"} /\ k = Len(requests[id].calls)
  BY <1>1, <1>2 DEF CallsInv, PendingLast, StatusOf
<1>15. /\ k \in DOMAIN requests'[id].calls /\ requests'[id].calls[k] # "running"
       /\ requests'[id].calls[k] = "succeeded" <=> requests[id].calls[k] = "running" /\ status = "succeeded"
  BY <1>7, <1>14 DEF Settling
<1>16. CallsInv'
  <2>1. RecordsOwned'
    <3>1. ASSUME NEW n \in DOMAIN ledger'
          PROVE  /\ ledger'[n].call \in DOMAIN requests'[ledger'[n].request].calls
                 /\ requests'[ledger'[n].request].calls[ledger'[n].call] # "running"
                 /\ requests'[ledger'[n].request].calls[ledger'[n].call] = "succeeded" => ledger'[n].ok
      <4>1. CASE n = last + 1
        BY <1>3, <1>10, <1>11, <1>15, <4>1
      <4>2. CASE n # last + 1
        <5>1. n \in DOMAIN ledger /\ ledger'[n] = ledger[n]
          BY <1>11, <4>2
        <5> QED
          BY <1>13, <5>1 DEF CallsInv, RecordsOwned
      <4> QED
        BY <4>1, <4>2
    <3> QED
      BY <3>1 DEF RecordsOwned, StatusOf
  <2>2. RecordsOrdered'
    <3>1. ASSUME NEW n \in DOMAIN ledger', NEW m \in DOMAIN ledger', n < m,
                 ledger'[n].request = ledger'[m].request
          PROVE  ledger'[n].call < ledger'[m].call
      <4>1. n \in DOMAIN ledger /\ ledger'[n] = ledger[n]
        BY <1>9, <1>11, <3>1
      <4>2. CASE m = last + 1
        BY <1>10, <1>11, <1>13, <3>1, <4>1, <4>2
      <4>3. CASE m # last + 1
        <5>1. m \in DOMAIN ledger /\ ledger'[m] = ledger[m]
          BY <1>11, <4>3
        <5> QED
          BY <3>1, <4>1, <5>1 DEF CallsInv, RecordsOrdered
      <4> QED
        BY <4>2, <4>3
    <3> QED
      BY <3>1 DEF RecordsOrdered
  <2>3. PendingLast'
    <3>1. ASSUME NEW other \in calls'
          PROVE  /\ other.call = Len(requests'[other.request].calls)
                 /\ requests'[other.request].calls[other.call] \in {"running", "cancelled"}
                 /\ \A n \in DOMAIN ledger' :
                      ledger'[n].request = other.request => ledger'[n].call < other.call
      <4>1. other \in calls /\ other.request # id
        BY <1>1, <1>4, PendingElsewhere DEF CallsInv
      <4>2. /\ other.call = Len(requests[other.request].calls)
            /\ requests[other.request].calls[other.call] \in {"running", "cancelled"}
            /\ \A n \in DOMAIN ledger :
                 ledger[n].request = other.request => ledger[n].call < other.call
        BY <4>1 DEF CallsInv, PendingLast, StatusOf
      <4>3. requests'[other.request] = requests[other.request]
        BY <1>6
      <4> QED
        BY <1>10, <1>11, <4>1, <4>2, <4>3
    <3> QED
      BY <3>1 DEF PendingLast, StatusOf
  <2>4. SuccessesRecorded'
    <3>1. ASSUME NEW q \in Ids, NEW j \in DOMAIN requests'[q].calls,
                 requests'[q].calls[j] = "succeeded"
          PROVE  \E n \in DOMAIN ledger' : ledger'[n].request = q /\ ledger'[n].call = j
      <4>1. CASE q = id /\ j = k
        BY <1>10, <1>11, <4>1
      <4>2. CASE ~(q = id /\ j = k)
        <5>1. j \in DOMAIN requests[q].calls /\ requests[q].calls[j] = "succeeded"
          BY <1>7, <3>1, <4>2 DEF Settling
        <5>2. PICK n \in DOMAIN ledger : ledger[n].request = q /\ ledger[n].call = j
          BY <5>1 DEF CallsInv, SuccessesRecorded
        <5>3. n \in DOMAIN ledger' /\ ledger'[n] = ledger[n]
          BY <1>11
        <5> QED
          BY <5>2, <5>3
      <4> QED
        BY <4>1, <4>2
    <3> QED
      BY <1>7, <3>1 DEF SuccessesRecorded
  <2> QED
    BY <1>6, <2>1, <2>2, <2>3, <2>4 DEF CallsInv
<1>17. ServedInv'
  <2>1. SUFFICES ASSUME \A q \in Ids : Range(requests'[q].calls) \subseteq {"succeeded", "running"}
                 PROVE  served' = Successes(DOMAIN ledger)'
    BY <1>7 DEF ServedInv
  <2>2. requests'[id].calls[k] = "succeeded"
    <3>1. requests'[id].calls[k] \in Range(requests'[id].calls)
      BY <1>15 DEF Range
    <3> QED
      BY <1>15, <2>1, <3>1
  <2>3. ok /\ requests[id].calls[k] = "running"
    BY <1>3, <1>15, <2>2
  <2>4. ASSUME NEW q \in Ids PROVE Range(requests[q].calls) \subseteq {"succeeded", "running"}
    <3>1. CASE q = id
      <4>1. \A j \in DOMAIN requests[id].calls : requests[id].calls[j] \in {"succeeded", "running"}
        <5>1. ASSUME NEW j \in DOMAIN requests[id].calls, j # k
              PROVE  requests[id].calls[j] \in Range(requests'[id].calls)
          BY <1>7, <5>1 DEF Settling, Range
        <5> QED
          BY <2>1, <2>3, <5>1
      <4> QED
        BY <3>1, <4>1 DEF Range
    <3>2. CASE q # id
      BY <1>7, <2>1, <3>2 DEF Settling
    <3> QED
      BY <3>1, <3>2
  <2>5. served = Successes(DOMAIN ledger)
    BY <2>4 DEF ServedInv
  <2>6. PICK good : good = {n \in DOMAIN ledger : ledger[n].ok}
    OBVIOUS
  <2>7. {n \in DOMAIN ledger' : ledger'[n].ok} = good \cup {last + 1} /\ last + 1 \notin good
    BY <1>10, <1>11, <2>3, <2>6
  <2>8. IsFiniteSet(good)
    <3>1. IsFiniteSet(1 .. last) /\ good \in SUBSET (1 .. last)
      BY <1>9, <1>11, <2>6, FS_Interval
    <3> QED
      BY <3>1, FS_Subset
  <2>9. Cardinality(good \cup {last + 1}) = Cardinality(good) + 1
    BY <2>7, <2>8, FS_AddElement
  <2> QED
    BY <1>3, <2>3, <2>5, <2>6, <2>7, <2>9 DEF Successes
<1> QED
  BY <1>5, <1>12, <1>16, <1>17
-----------------------------------------------------------------------------
(* What a step of the proxy leaves to the accounts of the others.              *)
ProxyAdvances ==
  /\ UNCHANGED <<clientVars, evidence>> /\ (faults' = faults \/ Fault)
  /\ Ids' = Ids /\ Len(requests') = Len(requests)
  /\ \A q \in Ids :
       /\ requests'[q].answered = requests[q].answered
       /\ requests[q].state = "withheld" <=> requests'[q].state = "withheld"
       /\ requests[q].state \in Done =>
            /\ requests'[q].state \in Done /\ requests'[q].sequence = requests[q].sequence
            /\ requests'[q].outcome = requests[q].outcome
            /\ requests'[q].projected = requests[q].projected
            /\ requests'[q].calls = requests[q].calls
       /\ requests[q].state = "captured" => requests'[q].state = "captured"
  /\ Len(ledger') \in Nat /\ Len(ledger) <= Len(ledger')
  /\ DOMAIN ledger' = 1 .. Len(ledger') /\ DOMAIN ledger \subseteq DOMAIN ledger'
  /\ \A n \in DOMAIN ledger : ledger'[n] = ledger[n]
  /\ \A n \in DOMAIN ledger' \ DOMAIN ledger :
       n > Len(ledger) /\ \E call \in calls : ledger'[n].request = call.request

\* A handler changes its own request only, and calls no more once it has ended.
LEMMA HandlerAdvances ==
  ASSUME ModelTyped, NEW id \in Ids, NEW r, Becomes(id, r),
         UNCHANGED <<clientVars, ledger, evidence>>, faults' = faults \/ Fault,
         r.answered = requests[id].answered,
         requests[id].state = "withheld" <=> r.state = "withheld",
         requests[id].state \in Done => /\ r.state \in Done /\ r.sequence = requests[id].sequence
                                        /\ r.outcome = requests[id].outcome
                                        /\ r.projected = requests[id].projected
                                        /\ r.calls = requests[id].calls,
         requests[id].state = "captured" => r.state = "captured"
  PROVE  ProxyAdvances
<1>1. Ids' = Ids /\ Len(requests') = Len(requests)
  BY DEF Becomes
<1>2. requests'[id] = r /\ \A q \in Ids : q # id => requests'[q] = requests[q]
  BY DEF Becomes
<1>3. Len(ledger) \in Nat /\ DOMAIN ledger = 1 .. Len(ledger) /\ ledger' = ledger
  BY LedgerIs
<1> QED
  BY <1>1, <1>2, <1>3 DEF ProxyAdvances

LEMMA HandlerStepAdvances ==
  ASSUME ProxyInv, NEW id \in Ids, HandlerStep(id)
  PROVE  ProxyAdvances
<1> USE DEF ProxyInv
<1>1. CASE Arrive(id)
  <2>1. PICK r : r = [requests[id] EXCEPT !.state = "open", !.sequence = sink.next]
    OBVIOUS
  <2>2. Becomes(id, r)
    BY <1>1, <2>1, ArriveIs
  <2>3. r.state = "open" /\ r.answered = requests[id].answered /\ requests[id].state = "sent"
    BY <1>1, <2>1, RequestIs DEF Arrive, Request
  <2>4. UNCHANGED <<clientVars, ledger, evidence, faults>>
    BY <1>1 DEF Arrive
  <2> QED
    BY <2>2, <2>3, <2>4, HandlerAdvances DEF Done
<1>2. CASE Project(id)
  <2>1. PICK r : r = [requests[id] EXCEPT !.projected = TRUE]
    OBVIOUS
  <2>2. Becomes(id, r)
    BY <1>2, <2>1, ProjectIs
  <2>3. r.state = "open" /\ r.answered = requests[id].answered /\ requests[id].state = "open"
    BY <1>2, <2>1, RequestIs DEF Project, Open, Request
  <2>4. UNCHANGED <<clientVars, ledger, evidence, faults>>
    BY <1>2 DEF Project
  <2> QED
    BY <2>2, <2>3, <2>4, HandlerAdvances DEF Done
<1>3. CASE StartCall(id)
  <2>1. PICK r : r = [requests[id] EXCEPT !.calls = Append(requests[id].calls, "running")]
    OBVIOUS
  <2>2. Becomes(id, r)
    BY <1>3, <2>1, StartCallIs
  <2>3. r.state = "open" /\ r.answered = requests[id].answered /\ requests[id].state = "open"
    BY <1>3, <2>1, RequestIs DEF StartCall, Open, Request
  <2>4. UNCHANGED <<clientVars, ledger, evidence, faults>>
    BY <1>3 DEF StartCall
  <2> QED
    BY <2>2, <2>3, <2>4, HandlerAdvances DEF Done
<1>4. CASE End(id)
  <2>1. PICK outcome \in Outcomes : requests' = [requests EXCEPT ![id] = Ended(@, outcome)]
    BY <1>4 DEF End
  <2>2. PICK r : r = Ended(requests[id], outcome)
    OBVIOUS
  <2>3. Becomes(id, r)
    BY <2>1, <2>2, EndIs
  <2>4. r.state = "ended" /\ r.answered = requests[id].answered
    BY <2>2, EndedIs
  <2>5. requests[id].state = "open" /\ UNCHANGED <<clientVars, ledger, evidence, faults>>
    BY <1>4 DEF End, Open
  <2> QED
    BY <2>3, <2>4, <2>5, HandlerAdvances DEF Done
<1>5. ASSUME NEW state \in {"captured", "lost"}, requests[id].state = "ended",
             requests' = [requests EXCEPT ![id].state = state],
             UNCHANGED <<clientVars, ledger, evidence>>, faults' = faults \/ Fault
      PROVE  ProxyAdvances
  <2>1. PICK r : r = [requests[id] EXCEPT !.state = state]
    OBVIOUS
  <2>2. Becomes(id, r)
    BY <1>5, <2>1, StateBecomes
  <2>3. /\ r.state = state /\ r.answered = requests[id].answered /\ r.sequence = requests[id].sequence
        /\ r.outcome = requests[id].outcome /\ r.projected = requests[id].projected
        /\ r.calls = requests[id].calls
    BY <2>1, RequestIs DEF Request
  <2> QED
    BY <1>5, <2>2, <2>3, HandlerAdvances DEF Done
<1>6. CASE RefuseCapture(id)
  BY <1>5, <1>6 DEF RefuseCapture
<1>7. CASE Capture(id)
  <2>1. requests[id].state = "ended" /\ UNCHANGED <<clientVars, ledger, evidence>>
    BY <1>7 DEF Capture
  <2>2. PICK state \in {"captured", "lost"} :
          requests' = [requests EXCEPT ![id].state = state] /\ (faults' = faults \/ Fault)
    BY <1>7 DEF Capture
  <2> QED
    BY <1>5, <2>1, <2>2
<1> QED
  BY <1>1, <1>2, <1>3, <1>4, <1>6, <1>7 DEF HandlerStep

\* A call that ends after its request has ended was cancelled and stays so.
LEMMA SettlingAdvances ==
  ASSUME ProxyInv, NEW call \in calls, NEW status \in {"succeeded", "failed"},
         Settling(call.request, call.call, status), NEW q \in Ids
  PROVE  /\ requests'[q].answered = requests[q].answered
         /\ requests'[q].state = requests[q].state
         /\ requests'[q].sequence = requests[q].sequence
         /\ requests'[q].outcome = requests[q].outcome
         /\ requests'[q].projected = requests[q].projected
         /\ requests[q].state \in Done => requests'[q].calls = requests[q].calls
<1> USE DEF ProxyInv
<1>1. PICK id \in Ids : id = call.request
  BY DEF ModelTyped
<1>2. PICK k \in DOMAIN requests[id].calls : k = call.call
  BY <1>1 DEF ModelTyped
<1>3. Settling(id, k, status)
  BY <1>1, <1>2
<1>4. ASSUME requests[id].state \in Done PROVE requests'[id].calls = requests[id].calls
  <2>1. \A j \in DOMAIN requests[id].calls : requests[id].calls[j] # "running"
    BY <1>4 DEF RequestsTyped, Running, Range
  <2>2. \A j \in DOMAIN requests[id].calls : requests'[id].calls[j] = requests[id].calls[j]
    BY <1>3, <2>1 DEF Settling
  <2>3. requests'[id].calls \in Seq(Statuses) /\ requests[id].calls \in Seq(Statuses)
    <3>1. requests' \in Seq(Request) /\ id \in DOMAIN requests'
      BY <1>3 DEF Settling, Ids
    <3>2. requests'[id] \in Request
      BY <3>1
    <3> QED
      BY <3>2, RequestIs DEF Request
  <2>4. Len(requests'[id].calls) = Len(requests[id].calls)
    BY <1>3 DEF Settling
  <2> QED
    BY <2>2, <2>3, <2>4, RequestIs
<1> QED
  BY <1>3, <1>4 DEF Settling

LEMMA ObserverStepAdvances ==
  ASSUME ProxyInv, NEW call \in calls, ObserverStep(call)
  PROVE  ProxyAdvances
<1> USE DEF ProxyInv
<1>1. PICK status \in {"succeeded", "failed"} : Settling(call.request, call.call, status)
  BY SettlingIs DEF ObserverStep, Observe, LoseRecord
<1>2. \A q \in Ids :
        /\ requests'[q].answered = requests[q].answered
        /\ requests'[q].state = requests[q].state
        /\ requests'[q].sequence = requests[q].sequence
        /\ requests'[q].outcome = requests[q].outcome
        /\ requests'[q].projected = requests[q].projected
        /\ requests[q].state \in Done => requests'[q].calls = requests[q].calls
  BY <1>1, SettlingAdvances
<1>3. Ids' = Ids /\ Len(requests') = Len(requests)
  <2>1. requests' \in Seq(Request) /\ Ids' = Ids
    BY <1>1 DEF Settling
  <2> QED
    BY <2>1 DEF Ids, RequestsTyped
<1>4. UNCHANGED <<clientVars, evidence>> /\ (faults' = faults \/ Fault)
  BY DEF ObserverStep, Observe, LoseRecord
<1>5. /\ Len(ledger') \in Nat /\ Len(ledger) <= Len(ledger')
      /\ DOMAIN ledger' = 1 .. Len(ledger') /\ DOMAIN ledger \subseteq DOMAIN ledger'
      /\ \A n \in DOMAIN ledger : ledger'[n] = ledger[n]
      /\ \A n \in DOMAIN ledger' \ DOMAIN ledger :
           n > Len(ledger) /\ ledger'[n].request = call.request
  <2>1. CASE ledger' = ledger
    BY <2>1, LedgerIs
  <2>2. ASSUME NEW ok \in BOOLEAN,
               ledger' = Append(ledger, [request |-> call.request, call |-> call.call, ok |-> ok])
        PROVE  <1>5!:
    <3>1. PICK record : record = [request |-> call.request, call |-> call.call, ok |-> ok]
      OBVIOUS
    <3>2. record \in [request : Ids, call : Nat, ok : BOOLEAN] /\ record.request = call.request
      BY <3>1 DEF ModelTyped
    <3>3. ledger \in Seq([request : Ids, call : Nat, ok : BOOLEAN]) /\ ledger' = Append(ledger, record)
      BY <2>2, <3>1 DEF ModelTyped
    <3>4. /\ Len(ledger') = Len(ledger) + 1 /\ Len(ledger) \in Nat
          /\ DOMAIN ledger' = 1 .. Len(ledger) + 1
          /\ DOMAIN ledger' = DOMAIN ledger \cup {Len(ledger) + 1}
          /\ ledger'[Len(ledger) + 1] = record
          /\ \A n \in DOMAIN ledger : ledger'[n] = ledger[n]
      BY <3>2, <3>3, AppendIs
    <3> QED
      BY <3>2, <3>4
  <2> QED
    BY <2>1, <2>2 DEF ObserverStep, Observe, LoseRecord
<1> QED
  BY <1>2, <1>3, <1>4, <1>5 DEF ProxyAdvances
LEMMA ProxyStepKeeps ==
  ASSUME ProxyInv,
         (\E id \in Ids : HandlerStep(id)) \/ (\E call \in calls : ObserverStep(call))
  PROVE  ProxyInv' /\ ProxyAdvances
<1>1. ASSUME NEW id \in Ids, HandlerStep(id) PROVE ProxyInv' /\ ProxyAdvances
  BY <1>1, HandlerStepAdvances, ArriveKeeps, ProjectKeeps, StartCallKeeps, EndKeeps,
     RefuseCaptureKeeps, CaptureKeeps DEF HandlerStep
<1>2. ASSUME NEW call \in calls, ObserverStep(call) PROVE ProxyInv' /\ ProxyAdvances
  BY <1>2, ObserverStepAdvances, ObserveKeeps, LoseRecordKeeps DEF ObserverStep
<1> QED
  BY <1>1, <1>2

-----------------------------------------------------------------------------
(* The accounts while the proxy goes on.                                       *)
LEMMA SeqWiden ==
  ASSUME NEW S, NEW T, S \subseteq T, NEW s \in Seq(S)
  PROVE  s \in Seq(T)
OBVIOUS

LEMMA ProvisionalIs ==
  ASSUME RunnerTyped
  PROVE  /\ Len(provisional) \in Nat /\ DOMAIN provisional = 1 .. Len(provisional)
         /\ \A n \in DOMAIN provisional :
              /\ provisional[n].request \in Ids /\ provisional[n].outcome \in Outcomes
              /\ provisional[n].slice \subseteq DOMAIN ledger
<1>1. provisional \in Seq([request : Ids, outcome : Outcomes, slice : SUBSET DOMAIN ledger])
  BY DEF RunnerTyped
<1>2. \A n \in DOMAIN provisional :
        provisional[n] \in [request : Ids, outcome : Outcomes, slice : SUBSET DOMAIN ledger]
  BY <1>1, MembersTyped
<1> QED
  BY <1>1, <1>2

LEMMA AccountingIs ==
  ASSUME RunnerTyped
  PROVE  \A n \in DOMAIN accounting : accounting[n].slice \subseteq DOMAIN ledger
<1>1. accounting \in Seq([outcome : Outcomes, slice : SUBSET DOMAIN ledger, successes : Nat])
  BY DEF RunnerTyped
<1>2. \A n \in DOMAIN accounting :
        accounting[n] \in [outcome : Outcomes, slice : SUBSET DOMAIN ledger, successes : Nat]
  BY <1>1, MembersTyped
<1> QED
  BY <1>2

\* The runner's types allow for more requests and more records.
LEMMA RunnerTypesWiden ==
  ASSUME RunnerTyped, UNCHANGED clientVars, Ids \subseteq Ids', DOMAIN ledger \subseteq DOMAIN ledger'
  PROVE  RunnerTyped'
<1>1. provisional \in Seq([request : Ids', outcome : Outcomes, slice : SUBSET DOMAIN ledger'])
  <2>1. [request : Ids, outcome : Outcomes, slice : SUBSET DOMAIN ledger] \subseteq
          [request : Ids', outcome : Outcomes, slice : SUBSET DOMAIN ledger']
    OBVIOUS
  <2> QED
    BY <2>1, SeqWiden DEF RunnerTyped
<1>2. accounting \in Seq([outcome : Outcomes, slice : SUBSET DOMAIN ledger', successes : Nat])
  <2>1. [outcome : Outcomes, slice : SUBSET DOMAIN ledger, successes : Nat] \subseteq
          [outcome : Outcomes, slice : SUBSET DOMAIN ledger', successes : Nat]
    OBVIOUS
  <2> QED
    BY <2>1, SeqWiden DEF RunnerTyped
<1>3. runner \in [step : {"case", "waiting", "closed"}, turns : Nat, expired : BOOLEAN,
                  prepared : {None} \cup Ids', awaited : {None} \cup Ids',
                  reported : Outcomes \cup {"none"}, consumed : SUBSET DOMAIN ledger']
  BY DEF RunnerTyped
<1> QED
  BY <1>1, <1>2, <1>3 DEF RunnerTyped, clientVars

LEMMA SmoothIs ==
  ASSUME RunnerTyped, RunnerInv, Smooth
  PROVE  /\ DOMAIN provisional \subseteq Ids
         /\ \A n \in DOMAIN provisional : provisional[n].request = n /\ Faultless(n)
<1>1. \A n \in DOMAIN provisional : provisional[n].request = n /\ Faultless(n)
  BY DEF Smooth, RunnerInv
<1>2. \A n \in DOMAIN provisional : provisional[n].request \in Ids
  BY ProvisionalIs
<1> QED
  BY <1>1, <1>2

LEMMA AdvancesSmooth ==
  ASSUME RequestsInv, RunnerTyped, RunnerInv, RunnerInv', ProxyAdvances, Smooth'
  PROVE  Smooth
<1>1. runner' = runner /\ provisional' = provisional
  BY DEF ProxyAdvances, clientVars
<1>2. runner.prepared = None
  BY <1>1 DEF Smooth
<1>3. DOMAIN provisional \subseteq Ids
  BY <1>2, ProvisionalIs DEF RunnerInv
<1>4. ASSUME NEW n \in DOMAIN provisional PROVE Faultless(n)
  <2>1. n \in Ids /\ requests'[n].answered /\ Range(requests'[n].calls) \subseteq {"succeeded"}
    BY <1>1, <1>3 DEF Smooth, Faultless
  <2>2. requests[n].answered
    BY <2>1 DEF ProxyAdvances
  <2>3. requests[n].state \in Done
    BY <2>1, <2>2 DEF RequestsInv
  <2>4. requests'[n].calls = requests[n].calls
    BY <2>1, <2>3 DEF ProxyAdvances
  <2> QED
    BY <2>1, <2>2, <2>4 DEF Faultless
<1> QED
  BY <1>2, <1>4 DEF Smooth

LEMMA RunnerInvStays ==
  ASSUME RunnerTyped, RunnerInv, ProxyAdvances
  PROVE  RunnerInv'
<1>1. runner' = runner /\ provisional' = provisional /\ cases' = cases
  BY DEF ProxyAdvances, clientVars
<1>2. runner.prepared # None => runner.prepared \in Ids
  BY DEF RunnerTyped
<1>3. Ids' = Ids /\ Len(requests') = Len(requests)
  BY DEF ProxyAdvances
<1>4. \A q \in Ids : /\ requests'[q].answered = requests[q].answered
                     /\ requests[q].state = "withheld" <=> requests'[q].state = "withheld"
  BY DEF ProxyAdvances
<1>5. runner.step = "waiting" => ~requests'[runner.awaited].answered
  BY <1>4 DEF RunnerInv
<1>6. runner.prepared # None => requests'[runner.prepared].state = "withheld"
  BY <1>2, <1>4 DEF RunnerInv
<1> QED
  BY <1>1, <1>3, <1>4, <1>5, <1>6 DEF RunnerInv

LEMMA TurnsInvStays ==
  ASSUME RunnerTyped, TurnsInv, ProxyAdvances
  PROVE  TurnsInv'
<1>1. runner' = runner /\ provisional' = provisional
  BY DEF ProxyAdvances, clientVars
<1>2. \A n \in DOMAIN provisional : \A s \in provisional[n].slice : ledger'[s] = ledger[s]
  BY ProvisionalIs DEF ProxyAdvances
<1> QED
  BY <1>1, <1>2 DEF TurnsInv, TurnsHoldOwnRecords

\* The records of a slice count the same however the file has grown.
LEMMA SuccessesStay ==
  ASSUME ProxyAdvances, NEW slice \in SUBSET DOMAIN ledger
  PROVE  Successes(slice)' = Successes(slice)
<1>1. \A n \in slice : ledger'[n] = ledger[n]
  BY DEF ProxyAdvances
<1>2. {n \in slice : ledger'[n].ok} = {n \in slice : ledger[n].ok}
  BY <1>1
<1> QED
  BY <1>2 DEF Successes

LEMMA AlignedInvStays ==
  ASSUME RequestsInv, RunnerTyped, RunnerInv, RunnerInv', AlignedInv, ProxyAdvances
  PROVE  AlignedInv'
<1>1. provisional' = provisional /\ accounting' = accounting
  BY DEF ProxyAdvances, clientVars
<1>2. SUFFICES ASSUME Smooth' PROVE
        /\ Len(accounting) = Len(provisional)
        /\ \A n \in DOMAIN provisional :
             /\ provisional[n].outcome = requests'[n].outcome
             /\ accounting[n] = [outcome |-> provisional[n].outcome, slice |-> provisional[n].slice,
                                 successes |-> Successes(provisional[n].slice)']
  BY <1>1 DEF AlignedInv
<1>3. Smooth
  BY <1>2, AdvancesSmooth
<1>4. ASSUME NEW n \in DOMAIN provisional
      PROVE  /\ requests'[n].outcome = requests[n].outcome
             /\ Successes(provisional[n].slice)' = Successes(provisional[n].slice)
  <2>1. n \in Ids /\ requests[n].answered
    BY <1>3, SmoothIs DEF Faultless
  <2>2. requests[n].state \in Done
    BY <2>1 DEF RequestsInv
  <2>3. requests'[n].outcome = requests[n].outcome
    BY <2>1, <2>2 DEF ProxyAdvances
  <2>4. PICK slice : slice = provisional[n].slice
    OBVIOUS
  <2>5. slice \in SUBSET DOMAIN ledger
    BY <2>4, ProvisionalIs
  <2>6. Successes(slice)' = Successes(slice)
    BY <2>5, SuccessesStay
  <2> QED
    BY <1>1, <2>3, <2>4, <2>6 DEF Successes
<1> QED
  BY <1>3, <1>4, <1>1 DEF AlignedInv, Successes
-----------------------------------------------------------------------------
(* Counting records: the blocks of the observer's file.                        *)
LEMMA SameSize ==
  ASSUME NEW S, NEW T, IsFiniteSet(S), NEW f \in [S -> T],
         \A a, b \in S : f[a] = f[b] => a = b, \A t \in T : \E s \in S : f[s] = t
  PROVE  IsFiniteSet(T) /\ Cardinality(T) = Cardinality(S)
<1>1. f \in Injection(S, T)
  BY DEF Injection, IsInjective
<1>2. f \in Surjection(S, T)
  BY DEF Surjection
<1>3. ExistsBijection(S, T)
  BY <1>1, <1>2 DEF ExistsBijection, Bijection
<1> QED
  BY <1>3, FS_Bijection

LEMMA TaggedSize ==
  ASSUME NEW n, NEW slice, IsFiniteSet(slice)
  PROVE  IsFiniteSet({n} \X slice) /\ Cardinality({n} \X slice) = Cardinality(slice)
<1> DEFINE f == [s \in slice |-> <<n, s>>]
<1>1. f \in [slice -> {n} \X slice]
  OBVIOUS
<1>2. \A a, b \in slice : f[a] = f[b] => a = b
  OBVIOUS
<1>3. \A t \in {n} \X slice : \E s \in slice : f[s] = t
  OBVIOUS
<1> HIDE DEF f
<1> QED
  BY <1>1, <1>2, <1>3, SameSize

\* The rows before the n-th one claim finitely many records.
LEMMA CountBeforeIs ==
  ASSUME NEW rows, NEW D, IsFiniteSet(D), NEW n \in Nat, \A m \in 1 .. n - 1 : rows[m].slice \subseteq D
  PROVE  /\ IsFiniteSet(UNION {{m} \X rows[m].slice : m \in 1 .. n - 1})
         /\ CountBefore(rows, n) \in Nat
<1> DEFINE pairs == UNION {{m} \X rows[m].slice : m \in 1 .. n - 1}
<1>1. IsFiniteSet((1 .. n - 1) \X D)
  <2>1. IsFiniteSet(1 .. n - 1)
    BY FS_Interval
  <2> QED
    BY <2>1, FS_Product
<1>2. pairs \in SUBSET ((1 .. n - 1) \X D)
  OBVIOUS
<1>3. IsFiniteSet(pairs)
  BY <1>1, <1>2, FS_Subset
<1> QED
  BY <1>3, FS_CardinalityType DEF CountBefore

LEMMA CountNext ==
  ASSUME NEW rows, NEW D, IsFiniteSet(D), NEW n \in Nat, \A m \in 1 .. n : rows[m].slice \subseteq D,
         n >= 1
  PROVE  /\ CountBefore(rows, n) \in Nat /\ Cardinality(rows[n].slice) \in Nat
         /\ CountBefore(rows, n + 1) = CountBefore(rows, n) + Cardinality(rows[n].slice)
<1> DEFINE before == UNION {{m} \X rows[m].slice : m \in 1 .. n - 1}
           row == {n} \X rows[n].slice
           upto == UNION {{m} \X rows[m].slice : m \in 1 .. n}
<1>1. \A m \in 1 .. n - 1 : m \in 1 .. n
  OBVIOUS
<1>2. IsFiniteSet(before) /\ CountBefore(rows, n) \in Nat
  BY <1>1, CountBeforeIs
<1>3. n \in 1 .. n
  OBVIOUS
<1>4. PICK slice : slice = rows[n].slice
  OBVIOUS
<1>5. IsFiniteSet(slice)
  BY <1>3, <1>4, FS_Subset
<1>6. IsFiniteSet(row) /\ Cardinality(row) = Cardinality(slice) /\ Cardinality(slice) \in Nat
  BY <1>4, <1>5, TaggedSize, FS_CardinalityType
<1>7. before \cap row = {}
  OBVIOUS
<1>8. upto = before \cup row
  <2>1. 1 .. n = (1 .. n - 1) \cup {n}
    OBVIOUS
  <2> QED
    BY <2>1
<1>9. CountBefore(rows, n + 1) = Cardinality(upto) /\ CountBefore(rows, n) = Cardinality(before)
  <2>1. 1 .. (n + 1) - 1 = 1 .. n
    OBVIOUS
  <2> QED
    BY <2>1 DEF CountBefore
<1> HIDE DEF before, row, upto
<1>10. Cardinality(before \cup row) = Cardinality(before) + Cardinality(row) - Cardinality({})
  BY <1>2, <1>6, <1>7, FS_Union
<1> QED
  BY <1>2, <1>4, <1>6, <1>8, <1>9, <1>10, FS_EmptySet

\* Only the slices of the rows before count.
LEMMA CountStays ==
  ASSUME NEW rows, NEW longer, NEW n \in Nat, \A m \in 1 .. n - 1 : longer[m].slice = rows[m].slice
  PROVE  CountBefore(longer, n) = CountBefore(rows, n)
<1>1. {{m} \X longer[m].slice : m \in 1 .. n - 1} = {{m} \X rows[m].slice : m \in 1 .. n - 1}
  <2>1. \A m \in 1 .. n - 1 : {m} \X longer[m].slice = {m} \X rows[m].slice
    OBVIOUS
  <2> QED
    BY <2>1
<1> QED
  BY <1>1 DEF CountBefore

LEMMA LedgerFinite ==
  ASSUME ModelTyped
  PROVE  IsFiniteSet(DOMAIN ledger)
BY LedgerIs, FS_Interval

LEMMA CountAllIs ==
  ASSUME ModelTyped, RunnerTyped
  PROVE  CountAll(provisional) \in Nat
<1>1. Len(provisional) + 1 \in Nat /\ (Len(provisional) + 1) - 1 = Len(provisional)
  BY ProvisionalIs
<1>2. \A m \in 1 .. (Len(provisional) + 1) - 1 : provisional[m].slice \subseteq DOMAIN ledger
  BY <1>1, ProvisionalIs
<1> QED
  BY <1>1, <1>2, LedgerFinite, CountBeforeIs DEF CountAll

LEMMA TiledInvStays ==
  ASSUME ModelTyped, CallsInv, RequestsInv, RunnerTyped, RunnerInv, RunnerInv', TiledInv, ProxyAdvances
  PROVE  TiledInv'
<1>1. provisional' = provisional
  BY DEF ProxyAdvances, clientVars
<1>2. SUFFICES ASSUME Smooth' PROVE
        /\ \A n \in DOMAIN provisional : Len(requests'[n].calls) = Len(requests[n].calls)
        /\ CountAll(provisional) <= Len(ledger')
        /\ \A m \in DOMAIN ledger' :
             m <= CountAll(provisional) <=> ledger'[m].request \in DOMAIN provisional
  <2>1. Smooth' => Smooth
    BY AdvancesSmooth
  <2> QED
    BY <1>1, <1>2, <2>1 DEF TiledInv, CountAll, CountBefore
<1>3. Smooth
  BY <1>2, AdvancesSmooth
<1>4. ASSUME NEW n \in DOMAIN provisional PROVE Len(requests'[n].calls) = Len(requests[n].calls)
  <2>1. n \in Ids /\ requests[n].answered
    BY <1>3, SmoothIs DEF Faultless
  <2>2. requests[n].state \in Done
    BY <2>1 DEF RequestsInv
  <2> QED
    BY <2>1, <2>2 DEF ProxyAdvances
<1>5. PICK c \in Nat : c = CountAll(provisional)
  BY CountAllIs
<1>6. c <= Len(ledger) /\ \A m \in DOMAIN ledger : m <= c <=> ledger[m].request \in DOMAIN provisional
  BY <1>3, <1>5 DEF TiledInv
<1>7. Len(ledger) \in Nat /\ Len(ledger') \in Nat /\ Len(ledger) <= Len(ledger')
  BY LedgerIs DEF ProxyAdvances
<1>8. ASSUME NEW m \in DOMAIN ledger'
      PROVE  m <= c <=> ledger'[m].request \in DOMAIN provisional
  <2>1. CASE m \in DOMAIN ledger
    BY <1>6, <2>1 DEF ProxyAdvances
  <2>2. CASE m \notin DOMAIN ledger
    <3>1. m > Len(ledger) /\ m \in Nat
      BY <1>7, <1>8, <2>2 DEF ProxyAdvances
    <3>2. PICK call \in calls : ledger'[m].request = call.request
      BY <1>8, <2>2 DEF ProxyAdvances
    <3>3. /\ call.call \in DOMAIN requests[call.request].calls
          /\ requests[call.request].calls[call.call] # "succeeded"
      BY DEF ModelTyped, CallsInv, PendingLast, StatusOf
    <3>4. ~(Range(requests[call.request].calls) \subseteq {"succeeded"})
      BY <3>3 DEF Range
    <3>5. call.request \notin DOMAIN provisional
      BY <1>3, <3>4, SmoothIs DEF Faultless
    <3> QED
      BY <1>6, <1>7, <3>1, <3>2, <3>5
  <2> QED
    BY <2>1, <2>2
<1> QED
  BY <1>4, <1>5, <1>6, <1>7, <1>8
-----------------------------------------------------------------------------
(* What the supervisor has read, while the proxy goes on.                      *)
LEMMA EvidenceIs ==
  ASSUME EvidenceTyped
  PROVE  /\ evidence.file \in Seq(Ids) /\ Len(evidence.file) \in Nat
         /\ DOMAIN evidence.file = 1 .. Len(evidence.file)
         /\ \A n \in DOMAIN evidence.file : evidence.file[n] \in Ids
<1>1. evidence.file \in Seq(Ids)
  BY DEF EvidenceTyped
<1>2. \A n \in DOMAIN evidence.file : evidence.file[n] \in Ids
  BY <1>1, MembersTyped
<1> QED
  BY <1>1, <1>2

LEMMA EvidenceTypesStay ==
  ASSUME EvidenceTyped, evidence' = evidence, Ids \subseteq Ids', faults' = faults \/ Fault
  PROVE  EvidenceTyped'
<1>1. faults' \in 0 .. MaxFaults
  BY EvidenceAssumption DEF EvidenceTyped, Fault
<1>2. evidence.file \in Seq(Ids')
  BY SeqWiden DEF EvidenceTyped
<1> QED
  BY <1>1, <1>2 DEF EvidenceTyped

\* Once the runner has exited, every request has its row; if all went well, no call is pending.
LEMMA ClosedSmooth ==
  ASSUME RequestsTyped, ModelTyped, CallsInv, RunnerTyped, RunnerInv,
         runner.step = "closed", Smooth
  PROVE  /\ Ids = DOMAIN provisional /\ Len(requests) = Len(provisional)
         /\ \A id \in Ids : Faultless(id)
         /\ calls = {} /\ \A n \in DOMAIN ledger : ledger[n].ok
<1>1. Len(requests) = Len(provisional) /\ Len(provisional) \in Nat
  BY ProvisionalIs DEF Smooth, RunnerInv
<1>2. Ids = DOMAIN provisional
  BY <1>1, ProvisionalIs DEF RequestsTyped, Ids
<1>3. \A id \in Ids : Faultless(id)
  BY <1>2 DEF Smooth
<1>4. \A id \in Ids : \A k \in DOMAIN requests[id].calls : requests[id].calls[k] = "succeeded"
  BY <1>3 DEF Faultless, Range
<1>5. calls = {}
  <2>1. ASSUME NEW call \in calls PROVE FALSE
    <3>1. /\ call.request \in Ids /\ call.call \in DOMAIN requests[call.request].calls
          /\ requests[call.request].calls[call.call] # "succeeded"
      BY DEF ModelTyped, CallsInv, PendingLast, StatusOf
    <3> QED
      BY <1>4, <3>1
  <2> QED
    BY <2>1
<1>6. \A n \in DOMAIN ledger : ledger[n].ok
  BY <1>4, LedgerIs DEF CallsInv, RecordsOwned, StatusOf
<1> QED
  BY <1>1, <1>2, <1>3, <1>5, <1>6

LEMMA JoinsStay ==
  ASSUME ModelTyped, RunnerTyped, ProxyAdvances, NEW n \in DOMAIN evidence.file,
         n \in DOMAIN provisional, n \in DOMAIN accounting, n \in Nat,
         evidence.file[n] \in Ids, requests[evidence.file[n]].state = "captured", Joins(n)
  PROVE  Joins(n)'
<1>1. PICK id \in Ids : id = evidence.file[n]
  OBVIOUS
<1>2. PICK slice \in SUBSET DOMAIN ledger : slice = provisional[n].slice
  BY ProvisionalIs
<1>3. PICK count \in Nat : count = Cardinality(slice)
  BY LedgerFinite, FS_Subset, FS_CardinalityType
<1>4. PICK before \in Nat : before = CountBefore(provisional, n)
  <2>1. \A m \in 1 .. n - 1 : provisional[m].slice \subseteq DOMAIN ledger
    BY ProvisionalIs
  <2> QED
    BY <2>1, LedgerFinite, CountBeforeIs
<1>5. /\ evidence' = evidence /\ provisional' = provisional /\ accounting' = accounting
  BY DEF ProxyAdvances, clientVars
<1>6. /\ requests'[id].sequence = requests[id].sequence
      /\ requests'[id].outcome = requests[id].outcome
      /\ requests'[id].calls = requests[id].calls
  BY <1>1 DEF ProxyAdvances, Done
<1>7. CountBefore(provisional, n)' = before
  BY <1>4, <1>5 DEF CountBefore
<1>8. /\ requests[id].sequence = n
      /\ provisional[n].outcome = requests[id].outcome
      /\ accounting[n].outcome = requests[id].outcome
      /\ provisional[n].request = id
      /\ slice = before + 1 .. before + 1 + count - 1
      /\ Len(requests[id].calls) = count
      /\ \A k \in 1 .. count :
           /\ ledger[before + 1 + k - 1].request = id
           /\ Agrees(requests[id].calls[k], ledger[before + 1 + k - 1])
      /\ accounting[n].slice = slice
      /\ accounting[n].successes = Successes(slice)
  BY <1>1, <1>2, <1>3, <1>4 DEF Joins
<1>9. \A k \in 1 .. count : before + 1 + k - 1 \in DOMAIN ledger
  <2>1. \A k \in 1 .. count : before + 1 + k - 1 \in before + 1 .. before + 1 + count - 1
    OBVIOUS
  <2> QED
    BY <1>8, <2>1
<1>10. \A k \in 1 .. count : ledger'[before + 1 + k - 1] = ledger[before + 1 + k - 1]
  BY <1>9 DEF ProxyAdvances
<1>11. slice \subseteq DOMAIN ledger' /\ Successes(slice)' = Successes(slice)
  BY SuccessesStay DEF ProxyAdvances
<1>12. provisional'[n].slice = slice
  BY <1>2, <1>5
<1>13. accounting'[n].successes = Successes(provisional[n].slice)'
  BY <1>5, <1>8, <1>11, <1>12 DEF Successes
<1>14. \A k \in 1 .. count :
         /\ ledger'[before + 1 + k - 1].request = id
         /\ Agrees(requests'[id].calls[k], ledger'[before + 1 + k - 1])
  BY <1>6, <1>8, <1>10
<1> QED
  BY <1>1, <1>3, <1>5, <1>6, <1>7, <1>8, <1>11, <1>12, <1>13, <1>14 DEF Joins

LEMMA EvidenceInvStays ==
  ASSUME ProxyInv, RunnerTyped, EvidenceTyped, RunnerInv, RunnerInv', EvidenceInv, ProxyAdvances
  PROVE  EvidenceInv'
<1> USE DEF ProxyInv
<1>1. /\ evidence' = evidence /\ runner' = runner /\ provisional' = provisional
      /\ accounting' = accounting
  BY DEF ProxyAdvances, clientVars
<1>2. ASSUME evidence.step \in {"collected", "extracted", "finalized"}, Smooth'
      PROVE  evidence.completed = Len(ledger')
  <2>1. Smooth /\ runner.step = "closed"
    BY <1>2, AdvancesSmooth DEF EvidenceInv
  <2>2. calls = {} /\ evidence.completed = Len(ledger)
    BY <1>2, <2>1, ClosedSmooth DEF EvidenceInv
  <2>3. DOMAIN ledger' = DOMAIN ledger
    BY <2>2 DEF ProxyAdvances
  <2>4. PICK a \in Nat, b \in Nat : a = Len(ledger) /\ b = Len(ledger')
    BY LedgerIs DEF ProxyAdvances
  <2>5. 1 .. a = 1 .. b /\ a <= b
    BY <2>3, <2>4, LedgerIs DEF ProxyAdvances
  <2>6. b = 0 \/ b \in 1 .. b
    OBVIOUS
  <2> QED
    BY <2>2, <2>4, <2>5, <2>6
<1>3. \A n \in DOMAIN evidence.file :
        /\ evidence.file[n] \in Ids /\ requests'[evidence.file[n]].state = "captured"
        /\ requests[evidence.file[n]].state = "captured"
        /\ requests'[evidence.file[n]].sequence = requests[evidence.file[n]].sequence
        /\ requests'[evidence.file[n]].outcome = requests[evidence.file[n]].outcome
        /\ requests'[evidence.file[n]].projected = requests[evidence.file[n]].projected
        /\ requests'[evidence.file[n]].calls = requests[evidence.file[n]].calls
  <2>1. \A n \in DOMAIN evidence.file :
          evidence.file[n] \in Ids /\ requests[evidence.file[n]].state = "captured"
    BY EvidenceIs DEF EvidenceInv
  <2> QED
    BY <2>1 DEF ProxyAdvances, Done
<1>4. ASSUME evidence.step = "finalized" PROVE JoinedAt(evidence.observed)'
  <2>1. JoinedAt(evidence.observed)
    BY <1>4 DEF EvidenceInv
  <2>2. \A n \in DOMAIN evidence.file : n \in DOMAIN provisional /\ n \in DOMAIN accounting /\ n \in Nat
    BY <2>1, EvidenceIs, ProvisionalIs DEF JoinedAt, RunnerTyped
  <2>3. \A n \in DOMAIN evidence.file : Joins(n)'
    BY <1>3, <2>1, <2>2, JoinsStay DEF JoinedAt
  <2>4. evidence.observed <= Len(ledger')
    BY <2>1, LedgerIs DEF JoinedAt, ProxyAdvances, EvidenceTyped
  <2>5. CountAll(provisional)' = CountAll(provisional)
    BY <1>1 DEF CountAll, CountBefore
  <2> QED
    BY <1>1, <2>1, <2>3, <2>4, <2>5 DEF JoinedAt
<1>5. ASSUME evidence.step = "finalized" PROVE evidence.rows = [n \in DOMAIN evidence.file |-> FinalRow(n)']
  <2>1. evidence.rows = [n \in DOMAIN evidence.file |-> FinalRow(n)] /\ JoinedAt(evidence.observed)
    BY <1>5 DEF EvidenceInv
  <2>2. ASSUME NEW n \in DOMAIN evidence.file PROVE FinalRow(n)' = FinalRow(n)
    <3>1. n \in DOMAIN provisional
      BY <2>1, EvidenceIs, ProvisionalIs DEF JoinedAt
    <3>2. PICK slice \in SUBSET DOMAIN ledger : slice = provisional[n].slice
      BY <3>1, ProvisionalIs
    <3>3. Successes(slice)' = Successes(slice)
      BY SuccessesStay
    <3>4. Successes(provisional[n].slice)' = Successes(provisional[n].slice)
      BY <1>1, <3>2, <3>3 DEF Successes
    <3> QED
      BY <1>1, <1>3, <3>4 DEF FinalRow
  <2> QED
    BY <2>1, <2>2
<1> QED
  <2>1. (evidence.step # "acting" => runner.step = "closed")'
    BY <1>1 DEF EvidenceInv
  <2>2. (evidence.step \in {"collected", "extracted", "finalized"} /\ Smooth =>
           evidence.completed = Len(ledger))'
    BY <1>1, <1>2
  <2>3. (\A n \in DOMAIN evidence.file : requests[evidence.file[n]].state = "captured")'
    BY <1>1, <1>3
  <2>4. (\A m, n \in DOMAIN evidence.file : m < n =>
           requests[evidence.file[m]].sequence < requests[evidence.file[n]].sequence)'
    BY <1>1, <1>3 DEF EvidenceInv
  <2>5. (evidence.step = "finalized" =>
           /\ JoinedAt(evidence.observed)
           /\ evidence.rows = [n \in DOMAIN evidence.file |-> FinalRow(n)])'
    BY <1>1, <1>4, <1>5
  <2> QED
    BY <2>1, <2>2, <2>3, <2>4, <2>5 DEF EvidenceInv
AccountsInv ==
  /\ RunnerTyped /\ EvidenceTyped
  /\ RunnerInv /\ TurnsInv /\ AlignedInv /\ TiledInv /\ EvidenceInv

LEMMA ProxyAdvancesKeeps ==
  ASSUME ProxyInv, AccountsInv, ProxyAdvances
  PROVE  AccountsInv'
<1> USE DEF ProxyInv, AccountsInv
<1>1. RunnerTyped'
  BY RunnerTypesWiden DEF ProxyAdvances
<1>2. EvidenceTyped'
  BY EvidenceTypesStay DEF ProxyAdvances
<1>3. RunnerInv'
  BY RunnerInvStays
<1>4. TurnsInv' /\ AlignedInv' /\ TiledInv'
  BY <1>3, TurnsInvStays, AlignedInvStays, TiledInvStays
<1>5. EvidenceInv'
  BY <1>3, EvidenceInvStays
<1> QED
  BY <1>1, <1>2, <1>3, <1>4, <1>5

-----------------------------------------------------------------------------
(* The runner's steps, as the proxy sees them.                                 *)
LEMMA ProxyUnchanged ==
  ASSUME ProxyInv, UNCHANGED proxyVars
  PROVE  ProxyInv'
<1> USE DEF ProxyInv, proxyVars
<1>1. RequestsTyped' /\ SinkTyped' /\ RequestsInv'
  BY DEF RequestsTyped, SinkTyped, RequestsInv, Running, Valid, Ids
<1>2. Ids' = Ids
  BY DEF Ids
<1>3. ModelTyped' /\ CallsInv' /\ ServedInv'
  BY <1>2, CallsStay
<1>4. NumbersInv'
  BY <1>2, NumbersStay
<1>5. FileInv'
  <2>1. sink.next \in Nat /\ sink.next >= sink.next
    BY DEF SinkTyped
  <2> QED
    BY <1>2, <2>1, FileStays
<1> QED
  BY <1>1, <1>3, <1>4, <1>5

LEMMA AppendKeeps ==
  ASSUME ProxyInv, NEW state \in {"withheld", "sent"}, requests' = Append(requests, Prepared(state)),
         UNCHANGED <<calls, ledger, served, sink>>
  PROVE  ProxyInv'
<1> USE DEF ProxyInv
<1>1. PICK last \in Nat : last = Len(requests) + 1
  BY DEF RequestsTyped
<1>2. /\ requests' \in Seq(Request) /\ Ids' = Ids \cup {last} /\ last \notin Ids
      /\ Ids = 1 .. Len(requests) /\ Len(requests) \in Nat
      /\ requests'[last] = Prepared(state)
      /\ \A q \in Ids : requests'[q] = requests[q]
  BY <1>1, AppendedIs
<1>3. /\ requests'[last].state = state /\ requests'[last].sequence = 0
      /\ requests'[last].calls = <<>> /\ requests'[last].outcome = "none"
      /\ ~requests'[last].projected /\ ~requests'[last].answered
      /\ Range(requests'[last].calls) = {} /\ DOMAIN requests'[last].calls = {}
  <2>1. /\ requests'[last].state = state /\ requests'[last].sequence = 0
        /\ requests'[last].calls = <<>> /\ requests'[last].outcome = "none"
        /\ ~requests'[last].projected /\ ~requests'[last].answered
    <3>1. PICK r : r = Prepared(state)
      OBVIOUS
    <3>2. /\ r.state = state /\ r.sequence = 0 /\ r.calls = <<>> /\ r.outcome = "none"
          /\ r.projected = FALSE /\ r.answered = FALSE
      BY <3>1 DEF Prepared
    <3>3. requests'[last] = r
      BY <1>2, <3>1
    <3> QED
      BY <3>2, <3>3
  <2>2. DOMAIN requests'[last].calls = {}
    BY <2>1
  <2> QED
    BY <2>1, <2>2 DEF Range
<1>20. requests'[last].sequence = 0 /\ ~requests'[last].answered /\ \A q \in Ids' : q \in Ids \/ q = last
  BY <1>2, <1>3
<1>4. RequestsTyped'
  <2>1. ASSUME NEW q \in Ids'
        PROVE  /\ requests'[q].outcome = "none" <=> requests'[q].state \notin Done
               /\ requests'[q].state \in Done => "running" \notin Range(requests'[q].calls)
    <3>1. CASE q \in Ids
      BY <1>2, <3>1 DEF RequestsTyped, Running
    <3>2. CASE q = last
      BY <1>3, <3>2 DEF Done
    <3> QED
      BY <1>20, <3>1, <3>2
  <2> QED
    BY <1>2, <2>1 DEF RequestsTyped, Running
<1>5. ModelTyped'
  <2>1. \A call \in calls : call.request \in Ids
    BY DEF ModelTyped
  <2>2. ledger \in Seq([request : Ids', call : Nat, ok : BOOLEAN])
    <3>1. [request : Ids, call : Nat, ok : BOOLEAN] \subseteq [request : Ids', call : Nat, ok : BOOLEAN]
      BY <1>2
    <3> QED
      BY <3>1, SeqWiden DEF ModelTyped
  <2> QED
    BY <1>2, <2>1, <2>2 DEF ModelTyped
<1>6. SinkTyped'
  <2>1. sink.file \in Seq(Ids')
    BY <1>2, SeqWiden DEF SinkTyped
  <2> QED
    BY <1>2, <2>1 DEF SinkTyped
<1>7. RequestsInv'
  <2>1. ASSUME NEW q \in Ids'
        PROVE  /\ requests'[q].calls # <<>> => requests'[q].state \notin {"withheld", "sent"}
               /\ requests'[q].projected => requests'[q].calls = <<>>
               /\ requests'[q].answered => requests'[q].state \in Done
               /\ requests'[q].state = "captured" =>
                    (requests'[q].projected => requests'[q].outcome = "succeeded")
    <3>1. CASE q = last
      BY <1>3, <3>1
    <3>2. CASE q \in Ids
      BY <1>2, <3>2 DEF RequestsInv, Valid
    <3> QED
      BY <1>2, <3>1, <3>2
  <2> QED
    BY <2>1 DEF RequestsInv, Valid
<1>8. NumbersInv'
  <2>0. /\ \A q \in Ids \cup {last} : requests'[q].sequence > 0 => q \in Ids
        /\ \A q \in Ids \cup {last} : requests'[q].answered => q \in Ids
    <3>1. requests'[last].sequence = 0 /\ ~requests'[last].answered
      BY <1>20
    <3>2. ~(requests'[last].sequence > 0)
      BY <3>1
    <3> QED
      BY <3>1, <3>2
  <2>1. \A q \in Ids : requests[q].sequence \in Nat
    BY RequestIs
  <2>2. sink.next \in Nat
    BY DEF SinkTyped
  <2>3. NumbersGiven'
    <3>1. ASSUME NEW q \in Ids \cup {last}
          PROVE  /\ requests'[q].sequence < sink.next
                 /\ requests'[q].sequence = 0 <=> requests'[q].state \in {"withheld", "sent"}
      <4>1. CASE q = last
        <5>1. sink.next >= 1
          BY DEF NumbersInv, NumbersGiven
        <5>2. requests'[last].sequence = 0 /\ requests'[last].state = state
          BY <1>3
        <5>3. requests'[q].sequence = 0 /\ requests'[q].state = state
          BY <4>1, <5>2
        <5> QED
          BY <2>2, <5>1, <5>3
      <4>2. CASE q \in Ids
        BY <1>2, <4>2 DEF NumbersInv, NumbersGiven
      <4> QED
        BY <1>2, <4>1, <4>2
    <3> QED
      BY <1>2, <3>1 DEF NumbersInv, NumbersGiven
  <2>4. NumbersDistinct'
    <3>1. ASSUME NEW a \in Ids \cup {last}, NEW b \in Ids \cup {last}, a # b, requests'[a].sequence > 0
          PROVE  requests'[a].sequence # requests'[b].sequence
      <4>1. a \in Ids
        BY <2>0, <3>1
      <4>2. CASE b = last
        <5>1. requests'[last].sequence = 0
          BY <1>20
        <5>2. requests'[b].sequence = 0
          BY <4>2, <5>1
        <5>3. ~(requests'[b].sequence > 0)
          BY <5>2
        <5>4. requests'[a].sequence > 0
          BY <3>1
        <5> QED
          BY <5>3, <5>4
      <4>3. CASE b \in Ids
        BY <1>2, <3>1, <4>1, <4>3 DEF NumbersInv, NumbersDistinct
      <4> QED
        BY <1>2, <4>2, <4>3
    <3> QED
      BY <1>2, <3>1, ZenonT(40) DEF NumbersDistinct
  <2>5. NumbersUsed'
    BY <1>2, <1>3 DEF NumbersInv, NumbersUsed
  <2>6. NumbersOrdered'
    <3>1. ASSUME NEW a \in Ids \cup {last}, NEW b \in Ids \cup {last}, a < b, requests'[a].answered,
                 requests'[b].sequence > 0
          PROVE  requests'[a].sequence < requests'[b].sequence
      <4>1. a \in Ids /\ b \in Ids
        BY <2>0, <3>1
      <4> QED
        BY <1>2, <3>1, <4>1 DEF NumbersInv, NumbersOrdered
    <3> QED
      BY <1>2, <3>1 DEF NumbersOrdered
  <2> QED
    BY <2>3, <2>4, <2>5, <2>6 DEF NumbersInv
<1>9. FileInv'
  <2>1. /\ sink.pending \subseteq Ids /\ Range(sink.file) \subseteq Ids /\ sink.lost \subseteq Ids
        /\ \A n \in DOMAIN sink.file : sink.file[n] \in Ids
    BY DEF SinkTyped, Range
  <2> QED
    BY <1>2, <2>1 DEF FileInv
<1>10. CallsInv'
  <2>1. \A n \in DOMAIN ledger : ledger[n].request \in Ids
    BY LedgerIs
  <2>2. \A call \in calls : call.request \in Ids
    BY DEF ModelTyped
  <2>3. RecordsOwned'
    BY <1>2, <2>1 DEF CallsInv, RecordsOwned, StatusOf
  <2>4. RecordsOrdered'
    BY DEF CallsInv, RecordsOrdered
  <2>5. PendingLast'
    BY <1>2, <2>2 DEF CallsInv, PendingLast, StatusOf
  <2>6. SuccessesRecorded'
    <3>1. ASSUME NEW q \in Ids', NEW j \in DOMAIN requests'[q].calls,
                 requests'[q].calls[j] = "succeeded"
          PROVE  \E n \in DOMAIN ledger : ledger[n].request = q /\ ledger[n].call = j
      <4>1. q \in Ids
        BY <1>2, <1>3
      <4> QED
        BY <1>2, <3>1, <4>1 DEF CallsInv, SuccessesRecorded
    <3> QED
      BY <3>1 DEF SuccessesRecorded
  <2>7. RunningPending'
    BY <1>2, <1>3, ZenonT(40) DEF CallsInv, RunningPending
  <2> QED
    BY <2>3, <2>4, <2>5, <2>6, <2>7 DEF CallsInv
<1>11. ServedInv'
  BY <1>2 DEF ServedInv, Successes
<1> QED
  BY <1>4, <1>5, <1>6, <1>7, <1>8, <1>9, <1>10, <1>11

LEMMA AnswerKeeps ==
  ASSUME ProxyInv, NEW id \in Ids, id = Len(requests), requests[id].state \in Done,
         requests' = [requests EXCEPT ![id].answered = TRUE],
         UNCHANGED <<calls, ledger, served, sink>>
  PROVE  ProxyInv'
<1> USE DEF ProxyInv
<1>1. Becomes(id, [requests[id] EXCEPT !.answered = TRUE])
  BY AnsweredBecomes
<1>2. /\ requests'[id].state = requests[id].state /\ requests'[id].sequence = requests[id].sequence
      /\ requests'[id].calls = requests[id].calls /\ requests'[id].outcome = requests[id].outcome
      /\ requests'[id].projected = requests[id].projected /\ requests'[id].answered
  BY <1>1, RequestIs DEF Becomes, Request
<1>3. Ids' = Ids /\ \A q \in Ids : q # id => requests'[q] = requests[q]
  BY <1>1 DEF Becomes
<1>4. requests' \in Seq(Request)
  BY <1>1 DEF Becomes
<1>5. \A q \in Ids : /\ requests'[q].state = requests[q].state
                     /\ requests'[q].sequence = requests[q].sequence
                     /\ requests'[q].calls = requests[q].calls
                     /\ requests'[q].outcome = requests[q].outcome
                     /\ requests'[q].projected = requests[q].projected
                     /\ q # id => requests'[q].answered = requests[q].answered
  BY <1>2, <1>3
<1>6. RequestsTyped'
  BY <1>3, <1>4, <1>5 DEF RequestsTyped, Running
<1>7. ModelTyped' /\ CallsInv' /\ ServedInv'
  BY <1>3, <1>5, CallsStay
<1>8. SinkTyped'
  BY <1>3 DEF SinkTyped
<1>9. RequestsInv'
  BY <1>3, <1>5 DEF RequestsInv, Valid
<1>10. NumbersInv'
  <2>1. \A q \in Ids : q <= id
    BY DEF RequestsTyped, Ids
  <2>2. NumbersOrdered'
    <3>1. ASSUME NEW a \in Ids, NEW b \in Ids, a < b, requests'[a].answered, requests'[b].sequence > 0
          PROVE  requests'[a].sequence < requests'[b].sequence
      <4>1. a \in Nat /\ b \in Nat /\ id \in Nat
        BY DEF RequestsTyped, Ids
      <4>2. a # id
        BY <2>1, <3>1, <4>1
      <4> QED
        BY <1>5, <3>1, <4>2 DEF NumbersInv, NumbersOrdered
    <3> QED
      BY <1>3, <3>1 DEF NumbersOrdered
  <2>3. NumbersGiven' /\ NumbersDistinct' /\ NumbersUsed'
    BY <1>3, <1>5 DEF NumbersInv, NumbersGiven, NumbersDistinct, NumbersUsed
  <2> QED
    BY <2>2, <2>3 DEF NumbersInv
<1>11. FileInv'
  <2>1. sink.next \in Nat /\ sink.next >= sink.next
    BY DEF SinkTyped
  <2> QED
    BY <1>3, <1>5, <2>1, FileStays
<1> QED
  BY <1>6, <1>7, <1>8, <1>9, <1>10, <1>11
-----------------------------------------------------------------------------
(* The runner's ledgers.                                                       *)
RunnerRecord(ids, records) ==
  [step : {"case", "waiting", "closed"}, turns : Nat, expired : BOOLEAN,
   prepared : {None} \cup ids, awaited : {None} \cup ids,
   reported : Outcomes \cup {"none"}, consumed : SUBSET records]
ProvisionalRow(ids, records) == [request : ids, outcome : Outcomes, slice : SUBSET records]
AccountingRow(records) == [outcome : Outcomes, slice : SUBSET records, successes : Nat]

LEMMA RunnerTypedIs ==
  RunnerTyped <=>
    /\ runner \in RunnerRecord(Ids, DOMAIN ledger)
    /\ provisional \in Seq(ProvisionalRow(Ids, DOMAIN ledger))
    /\ accounting \in Seq(AccountingRow(DOMAIN ledger))
    /\ cases \in Seq({"scored", "failed"}) /\ Len(cases) <= Cases
BY DEF RunnerTyped, RunnerRecord, ProvisionalRow, AccountingRow

LEMMA RecordsWiden ==
  ASSUME RunnerTyped, Ids \subseteq Ids', ledger' = ledger
  PROVE  /\ runner \in RunnerRecord(Ids', DOMAIN ledger)
         /\ provisional \in Seq(ProvisionalRow(Ids', DOMAIN ledger))
         /\ accounting \in Seq(AccountingRow(DOMAIN ledger))
<1>1. ProvisionalRow(Ids, DOMAIN ledger) \subseteq ProvisionalRow(Ids', DOMAIN ledger)
  BY DEF ProvisionalRow
<1>2. RunnerRecord(Ids, DOMAIN ledger) \subseteq RunnerRecord(Ids', DOMAIN ledger)
  BY DEF RunnerRecord
<1> QED
  BY <1>1, <1>2, RunnerTypedIs, SeqWiden

\* The rows of a turn that has come to its end.
RowAdded(id, outcome, slice) ==
  /\ provisional' \in Seq(ProvisionalRow(Ids', DOMAIN ledger))
  /\ Len(provisional') = Len(provisional) + 1 /\ Len(provisional) \in Nat
  /\ DOMAIN provisional' = 1 .. Len(provisional) + 1 /\ DOMAIN provisional = 1 .. Len(provisional)
  /\ DOMAIN provisional' = DOMAIN provisional \cup {Len(provisional) + 1}
  /\ Len(provisional) + 1 \notin DOMAIN provisional
  /\ provisional'[Len(provisional) + 1].request = id
  /\ provisional'[Len(provisional) + 1].outcome = outcome
  /\ provisional'[Len(provisional) + 1].slice = slice
  /\ \A n \in DOMAIN provisional : provisional'[n] = provisional[n]

LEMMA InvokedIs ==
  ASSUME RunnerTyped, Ids \subseteq Ids', ledger' = ledger,
         NEW id, id \in Ids', NEW outcome \in Outcomes, NEW slice \in SUBSET DOMAIN ledger,
         Invoked(id, outcome, slice)
  PROVE  RowAdded(id, outcome, slice)
<1>1. PICK row : row = [request |-> id, outcome |-> outcome, slice |-> slice]
  OBVIOUS
<1>2. row \in ProvisionalRow(Ids', DOMAIN ledger) /\ provisional' = Append(provisional, row)
  BY <1>1 DEF ProvisionalRow, Invoked
<1>3. /\ provisional' \in Seq(ProvisionalRow(Ids', DOMAIN ledger))
      /\ Len(provisional') = Len(provisional) + 1 /\ Len(provisional) \in Nat
      /\ DOMAIN provisional = 1 .. Len(provisional) /\ DOMAIN provisional' = 1 .. Len(provisional) + 1
      /\ DOMAIN provisional' = DOMAIN provisional \cup {Len(provisional) + 1}
      /\ Len(provisional) + 1 \notin DOMAIN provisional
      /\ provisional'[Len(provisional) + 1] = row
      /\ \A n \in DOMAIN provisional : provisional'[n] = provisional[n]
  <2>1. provisional \in Seq(ProvisionalRow(Ids', DOMAIN ledger))
    BY RecordsWiden
  <2> QED
    BY <1>2, <2>1, AppendIs
<1>4. row.request = id /\ row.outcome = outcome /\ row.slice = slice
  BY <1>1
<1> QED
  BY <1>3, <1>4 DEF RowAdded

LEMMA SuccessesIs ==
  ASSUME ModelTyped, NEW slice \in SUBSET DOMAIN ledger
  PROVE  /\ IsFiniteSet(slice) /\ Cardinality(slice) \in Nat /\ Successes(slice) \in Nat
         /\ Successes(slice) <= Cardinality(slice)
         /\ Successes(slice) = Cardinality(slice) <=> AllOk(slice)
<1>1. IsFiniteSet(slice) /\ Cardinality(slice) \in Nat
  BY LedgerFinite, FS_Subset, FS_CardinalityType
<1>2. PICK good \in SUBSET slice : good = {n \in slice : ledger[n].ok}
  OBVIOUS
<1>3. /\ IsFiniteSet(good) /\ Cardinality(good) \in Nat /\ Cardinality(good) <= Cardinality(slice)
      /\ Cardinality(slice) = Cardinality(good) => slice = good
  BY <1>1, FS_Subset, FS_CardinalityType
<1>4. slice = good <=> AllOk(slice)
  BY <1>2 DEF AllOk
<1> QED
  BY <1>1, <1>2, <1>3, <1>4 DEF Successes

RowAccounted(outcome, slice) ==
  /\ accounting' \in Seq(AccountingRow(DOMAIN ledger))
  /\ Len(accounting') = Len(accounting) + 1 /\ Len(accounting) \in Nat
  /\ accounting'[Len(accounting) + 1] = [outcome |-> outcome, slice |-> slice,
                                         successes |-> Successes(slice)]
  /\ \A n \in DOMAIN accounting : accounting'[n] = accounting[n]
  /\ DOMAIN accounting = 1 .. Len(accounting)

LEMMA AccountedIs ==
  ASSUME RunnerTyped, ModelTyped, NEW outcome \in Outcomes, NEW slice \in SUBSET DOMAIN ledger,
         Accounted(outcome, slice)
  PROVE  RowAccounted(outcome, slice)
<1>1. PICK row : row = [outcome |-> outcome, slice |-> slice, successes |-> Successes(slice)]
  OBVIOUS
<1>2. row \in AccountingRow(DOMAIN ledger) /\ accounting' = Append(accounting, row)
  BY <1>1, SuccessesIs DEF AccountingRow, Accounted
<1>3. accounting \in Seq(AccountingRow(DOMAIN ledger))
  BY RunnerTypedIs
<1>4. /\ accounting' \in Seq(AccountingRow(DOMAIN ledger))
      /\ Len(accounting') = Len(accounting) + 1 /\ Len(accounting) \in Nat
      /\ accounting'[Len(accounting) + 1] = row
      /\ \A n \in DOMAIN accounting : accounting'[n] = accounting[n]
      /\ DOMAIN accounting = 1 .. Len(accounting)
  BY <1>2, <1>3, AppendIs
<1> QED
  BY <1>1, <1>4 DEF RowAccounted

\* The runner after a case, as the client of the last turn left it.
CaseEnds(client) ==
  /\ runner' \in RunnerRecord(Ids', DOMAIN ledger)
  /\ runner'.step \in {"case", "closed"} /\ runner'.awaited = None
  /\ runner'.prepared = client.prepared /\ runner'.consumed = client.consumed
  /\ cases' \in Seq({"scored", "failed"}) /\ Len(cases') <= Cases
  /\ runner'.step # "closed" => Len(cases') < Cases

LEMMA CaseOverIs ==
  ASSUME NEW client, client \in RunnerRecord(Ids', DOMAIN ledger), NEW verdict \in {"scored", "failed"},
         CaseOver(client, verdict), cases \in Seq({"scored", "failed"}), Len(cases) < Cases
  PROVE  CaseEnds(client)
<1>1. Cases \in Nat
  BY EvidenceAssumption DEF Cases
<1>2. /\ cases' \in Seq({"scored", "failed"}) /\ Len(cases') = Len(cases) + 1 /\ Len(cases) \in Nat
  BY AppendIs DEF CaseOver
<1>3. PICK step \in {"case", "closed"} : step = IF Len(cases) + 1 = Cases THEN "closed" ELSE "case"
  OBVIOUS
<1>4. runner' = [client EXCEPT !.step = step, !.turns = 0, !.expired = FALSE, !.awaited = None]
  BY <1>3 DEF CaseOver
<1>5. /\ runner' \in RunnerRecord(Ids', DOMAIN ledger)
      /\ runner'.step = step /\ runner'.awaited = None
      /\ runner'.prepared = client.prepared /\ runner'.consumed = client.consumed
  <2>1. client.prepared \in {None} \cup Ids' /\ client.consumed \in SUBSET DOMAIN ledger
        /\ client.reported \in Outcomes \cup {"none"}
    BY DEF RunnerRecord
  <2> QED
    BY <1>4, <2>1 DEF RunnerRecord
<1> QED
  BY <1>1, <1>2, <1>3, <1>5 DEF CaseEnds

\* A turn that is credited with unconsumed records of its own request.
LEMMA TurnAdded ==
  ASSUME RunnerTyped, TurnsInv, NEW id, NEW outcome, NEW slice \in SUBSET DOMAIN ledger,
         RowAdded(id, outcome, slice), ledger' = ledger,
         runner'.consumed = runner.consumed \cup slice, slice \cap runner.consumed = {},
         \A s \in slice : ledger[s].request = id
  PROVE  TurnsInv'
<1>1. PICK last : last = Len(provisional) + 1
  OBVIOUS
<1>2. /\ DOMAIN provisional' = DOMAIN provisional \cup {last} /\ last \notin DOMAIN provisional
      /\ provisional'[last].request = id /\ provisional'[last].slice = slice
      /\ \A n \in DOMAIN provisional : provisional'[n] = provisional[n]
  BY <1>1 DEF RowAdded
<1>3. \A n \in DOMAIN provisional : provisional[n].slice \subseteq runner.consumed
  BY DEF TurnsInv
<1>4. TurnsHoldOwnRecords'
  <2>1. ASSUME NEW n \in DOMAIN provisional'
        PROVE  \A s \in provisional'[n].slice : ledger[s].request = provisional'[n].request
    <3>1. CASE n = last
      BY <1>2, <3>1
    <3>2. CASE n \in DOMAIN provisional
      BY <1>2, <3>2 DEF TurnsInv, TurnsHoldOwnRecords
    <3> QED
      BY <1>2, <3>1, <3>2
  <2>2. ASSUME NEW n \in DOMAIN provisional', NEW m \in DOMAIN provisional', m # n
        PROVE  provisional'[n].slice \cap provisional'[m].slice = {}
    <3>1. CASE n = last
      <4>1. provisional'[n].slice = slice /\ provisional'[m].slice \subseteq runner.consumed
        BY <1>2, <1>3, <2>2, <3>1
      <4> QED
        BY <4>1
    <3>2. CASE m = last
      <4>1. provisional'[m].slice = slice /\ provisional'[n].slice \subseteq runner.consumed
        BY <1>2, <1>3, <2>2, <3>2
      <4> QED
        BY <4>1
    <3>3. CASE n \in DOMAIN provisional /\ m \in DOMAIN provisional
      BY <1>2, <2>2, <3>3 DEF TurnsInv, TurnsHoldOwnRecords
    <3> QED
      BY <1>2, <3>1, <3>2, <3>3
  <2> QED
    BY <2>1, <2>2 DEF TurnsHoldOwnRecords
<1>5. \A n \in DOMAIN provisional' : provisional'[n].slice \subseteq runner'.consumed
  BY <1>2, <1>3
<1>6. runner'.consumed \subseteq UNION {provisional'[n].slice : n \in DOMAIN provisional'}
  <2>1. ASSUME NEW s \in runner.consumed PROVE \E n \in DOMAIN provisional' : s \in provisional'[n].slice
    <3>1. PICK n \in DOMAIN provisional : s \in provisional[n].slice
      BY DEF TurnsInv
    <3> QED
      BY <1>2, <3>1
  <2>2. ASSUME NEW s \in slice PROVE \E n \in DOMAIN provisional' : s \in provisional'[n].slice
    BY <1>2
  <2> QED
    BY <2>1, <2>2
<1> QED
  BY <1>4, <1>5, <1>6 DEF TurnsInv

LEMMA TurnsSame ==
  ASSUME TurnsInv, provisional' = provisional, ledger' = ledger, runner'.consumed = runner.consumed
  PROVE  TurnsInv'
BY DEF TurnsInv, TurnsHoldOwnRecords

LEMMA NotSmooth ==
  ASSUME ~Smooth'
  PROVE  AlignedInv' /\ TiledInv'
BY DEF AlignedInv, TiledInv

\* A step of the runner that ends no turn.
LEMMA SmoothSame ==
  ASSUME RunnerTyped, RunnerInv, AlignedInv, TiledInv, provisional' = provisional,
         accounting' = accounting, ledger' = ledger, runner'.prepared = runner.prepared,
         \A q \in Ids : requests'[q] = requests[q]
  PROVE  AlignedInv' /\ TiledInv'
<1>1. SUFFICES ASSUME Smooth' PROVE AlignedInv' /\ TiledInv'
  BY NotSmooth
<1>2. DOMAIN provisional \subseteq Ids
  <2>1. \A n \in DOMAIN provisional : provisional[n].request = n /\ provisional[n].request \in Ids
    BY <1>1, ProvisionalIs DEF Smooth, RunnerInv
  <2> QED
    BY <2>1
<1>3. Smooth
  BY <1>1, <1>2 DEF Smooth, Faultless
<1>4. AlignedInv'
  BY <1>2, <1>3 DEF AlignedInv, Successes
<1>5. TiledInv'
  BY <1>2, <1>3 DEF TiledInv, CountAll, CountBefore
<1> QED
  BY <1>4, <1>5

\* The supervisor has read nothing while the runner is at work.
LEMMA RunnerLeavesEvidence ==
  ASSUME EvidenceTyped, EvidenceInv, runner.step # "closed", evidence' = evidence, Ids \subseteq Ids',
         faults' = faults \/ Fault,
         \A q \in Ids : requests'[q].state = requests[q].state /\ requests'[q].sequence = requests[q].sequence
  PROVE  EvidenceTyped' /\ EvidenceInv'
<1>1. evidence.step = "acting"
  BY DEF EvidenceInv
<1>2. \A n \in DOMAIN evidence.file : evidence.file[n] \in Ids
  BY EvidenceIs
<1>3. EvidenceTyped'
  BY EvidenceTypesStay
<1>4. EvidenceInv'
  BY <1>1, <1>2 DEF EvidenceInv
<1> QED
  BY <1>3, <1>4
LEMMA ReportedIs ==
  ASSUME RunnerTyped, NEW otherwise \in Outcomes
  PROVE  Reported(otherwise) \in Outcomes
<1>1. runner.reported \in Outcomes \cup {"none"}
  BY DEF RunnerTyped
<1> QED
  BY <1>1 DEF Reported

LEMMA RefuseKeeps ==
  ASSUME ProxyInv, AccountsInv, Refuse
  PROVE  ProxyInv' /\ AccountsInv'
<1> USE DEF AccountsInv
<1>1. /\ runner.step = "case" /\ runner.prepared # None /\ UNCHANGED <<accounting, proxyVars, evidence, faults>>
      /\ Invoked(runner.prepared, Reported("failed"), {}) /\ CaseOver(runner, "failed")
  BY DEF Refuse, InCase
<1>2. Ids' = Ids /\ requests' = requests /\ ledger' = ledger
  BY <1>1 DEF proxyVars, Ids
<1>3. ProxyInv'
  BY <1>1, ProxyUnchanged
<1>4. runner.prepared \in Ids
  BY <1>1 DEF RunnerTyped
<1>5. Reported("failed") \in Outcomes
  BY ReportedIs DEF Outcomes
<1>6. RowAdded(runner.prepared, Reported("failed"), {})
  BY <1>1, <1>2, <1>4, <1>5, InvokedIs
<1>7. CaseEnds(runner)
  BY <1>1, <1>2, RunnerTypedIs, CaseOverIs DEF RunnerInv
<1>8. RunnerTyped'
  BY <1>1, <1>2, <1>6, <1>7, RunnerTypedIs DEF RowAdded, CaseEnds, RunnerTyped, RunnerRecord, ProvisionalRow
<1>9. TurnsInv'
  BY <1>2, <1>6, <1>7, TurnAdded DEF CaseEnds
<1>10. runner'.prepared = runner.prepared /\ runner'.step # "waiting" /\ runner'.awaited = None
       /\ (runner'.step # "closed" => Len(cases') < Cases)
  BY <1>7 DEF CaseEnds
<1>11. \E n \in DOMAIN provisional' : provisional'[n].request = runner.prepared
  BY <1>6 DEF RowAdded
<1>12. RunnerInv'
  BY <1>1, <1>2, <1>10, <1>11 DEF RunnerInv
<1>13. AlignedInv' /\ TiledInv'
  BY <1>1, <1>10, NotSmooth DEF Smooth
<1>14. EvidenceTyped' /\ EvidenceInv'
  BY <1>1, <1>2, RunnerLeavesEvidence
<1> QED
  BY <1>3, <1>8, <1>9, <1>12, <1>13, <1>14

LEMMA WithholdKeeps ==
  ASSUME ProxyInv, AccountsInv, Withhold
  PROVE  ProxyInv' /\ AccountsInv'
<1> USE DEF AccountsInv
<1>1. /\ runner.step = "case" /\ runner.prepared = None
      /\ requests' = Append(requests, Prepared("withheld"))
      /\ Invoked(Len(requests'), Reported("deadline"), {})
      /\ Accounted(Reported("deadline"), {})
      /\ CaseOver([runner EXCEPT !.prepared = Len(requests')], "failed")
      /\ UNCHANGED <<calls, ledger, served, sink, evidence, faults>>
  BY DEF Withhold, InCase
<1>2. ProxyInv'
  BY <1>1, AppendKeeps
<1>3. PICK last : last = Len(requests')
  OBVIOUS
<1>4. /\ last = Len(requests) + 1 /\ Ids' = Ids \cup {last} /\ last \notin Ids
      /\ requests'[last].state = "withheld" /\ last # None
      /\ \A q \in Ids : requests'[q] = requests[q]
  BY <1>1, <1>3, AppendedIs DEF Prepared, ProxyInv, None
<1>5. Reported("deadline") \in Outcomes
  BY ReportedIs DEF Outcomes
<1>6. RowAdded(last, Reported("deadline"), {})
  BY <1>1, <1>3, <1>4, <1>5, InvokedIs
<1>7. RowAccounted(Reported("deadline"), {})
  BY <1>1, <1>5, AccountedIs DEF ProxyInv
<1>8. PICK client : client = [runner EXCEPT !.prepared = last]
  OBVIOUS
<1>9. /\ client \in RunnerRecord(Ids', DOMAIN ledger)
      /\ client.prepared = last /\ client.consumed = runner.consumed
  <2>1. runner \in RunnerRecord(Ids', DOMAIN ledger)
    BY <1>1, <1>4, RecordsWiden
  <2> QED
    BY <1>4, <1>8, <2>1 DEF RunnerRecord
<1>10. CaseEnds(client)
  BY <1>1, <1>3, <1>8, <1>9, RunnerTypedIs, CaseOverIs DEF RunnerInv
<1>11. RunnerTyped'
  BY <1>1, <1>6, <1>7, <1>10 DEF RowAdded, RowAccounted, CaseEnds, RunnerTyped, RunnerRecord,
     ProvisionalRow, AccountingRow
<1>12. TurnsInv'
  BY <1>1, <1>6, <1>9, <1>10, TurnAdded DEF CaseEnds
<1>13. runner'.prepared = last /\ runner'.step # "waiting" /\ runner'.awaited = None
       /\ (runner'.step # "closed" => Len(cases') < Cases)
  BY <1>9, <1>10 DEF CaseEnds
<1>14. \E n \in DOMAIN provisional' : provisional'[n].request = last
  BY <1>6 DEF RowAdded
<1>15. RunnerInv'
  BY <1>4, <1>13, <1>14 DEF RunnerInv
<1>16. AlignedInv' /\ TiledInv'
  BY <1>4, <1>13, NotSmooth DEF Smooth
<1>17. EvidenceTyped' /\ EvidenceInv'
  BY <1>1, <1>4, RunnerLeavesEvidence
<1> QED
  BY <1>2, <1>11, <1>12, <1>15, <1>16, <1>17

LEMMA SendKeeps ==
  ASSUME ProxyInv, AccountsInv, Send
  PROVE  ProxyInv' /\ AccountsInv'
<1> USE DEF AccountsInv
<1>1. /\ runner.step = "case" /\ runner.prepared = None
      /\ requests' = Append(requests, Prepared("sent"))
      /\ runner' = [runner EXCEPT !.step = "waiting", !.turns = @ + 1, !.reported = "none",
                                  !.awaited = Len(requests')]
      /\ UNCHANGED <<provisional, accounting, cases, calls, ledger, served, sink, evidence, faults>>
  BY DEF Send, InCase
<1>2. ProxyInv'
  BY <1>1, AppendKeeps
<1>3. PICK last : last = Len(requests')
  OBVIOUS
<1>4. /\ last = Len(requests) + 1 /\ Ids' = Ids \cup {last} /\ last \notin Ids
      /\ requests'[last].state = "sent" /\ ~requests'[last].answered
      /\ \A q \in Ids : requests'[q] = requests[q]
  BY <1>1, <1>3, AppendedIs DEF Prepared, ProxyInv
<1>5. /\ runner' \in RunnerRecord(Ids', DOMAIN ledger)
      /\ runner'.step = "waiting" /\ runner'.awaited = last
      /\ runner'.prepared = None /\ runner'.consumed = runner.consumed
  <2>1. runner \in RunnerRecord(Ids', DOMAIN ledger)
    BY <1>1, <1>4, RecordsWiden
  <2>2. PICK turns \in Nat : turns = runner.turns + 1
    BY <2>1 DEF RunnerRecord
  <2>3. runner' = [runner EXCEPT !.step = "waiting", !.turns = turns, !.reported = "none",
                                 !.awaited = last]
    BY <1>1, <1>3, <2>1, <2>2 DEF RunnerRecord
  <2>4. last \in Ids'
    BY <1>4
  <2> QED
    BY <1>1, <2>1, <2>3, <2>4 DEF RunnerRecord
<1>6. RunnerTyped'
  <2>1. /\ provisional \in Seq(ProvisionalRow(Ids', DOMAIN ledger))
        /\ accounting \in Seq(AccountingRow(DOMAIN ledger))
    BY <1>1, <1>4, RecordsWiden
  <2> QED
    BY <1>1, <1>5, <2>1 DEF RunnerTyped, RunnerRecord, ProvisionalRow, AccountingRow
<1>7. TurnsInv'
  BY <1>1, <1>5, TurnsSame
<1>8. RunnerInv'
  <2>1. /\ \A id \in Ids : requests[id].state # "withheld"
        /\ Len(requests) = Len(provisional)
        /\ \A n \in DOMAIN provisional : provisional[n].request = n
        /\ Len(cases) < Cases /\ Len(provisional) \in Nat
    BY <1>1, ProvisionalIs DEF RunnerInv
  <2>2. \A id \in Ids' : requests'[id].state # "withheld"
    BY <1>4, <2>1
  <2>3. last \in Ids' /\ Len(requests') = Len(provisional) + 1
    BY <1>3, <1>4, <2>1
  <2>4. /\ provisional' = provisional /\ cases' = cases
        /\ runner'.step = "waiting" /\ runner'.awaited = last /\ runner'.prepared = None
        /\ last = Len(requests') /\ ~requests'[last].answered
    BY <1>1, <1>3, <1>4, <1>5
  <2> QED
    BY <2>1, <2>2, <2>3, <2>4 DEF RunnerInv
<1>9. AlignedInv' /\ TiledInv'
  BY <1>1, <1>4, <1>5, SmoothSame
<1>10. EvidenceTyped' /\ EvidenceInv'
  BY <1>1, <1>4, RunnerLeavesEvidence
<1> QED
  BY <1>2, <1>6, <1>7, <1>8, <1>9, <1>10

LEMMA ExpireKeeps ==
  ASSUME ProxyInv, AccountsInv, Expire
  PROVE  ProxyInv' /\ AccountsInv'
<1> USE DEF AccountsInv
<1>1. /\ runner.step # "closed" /\ runner' = [runner EXCEPT !.expired = TRUE] /\ Fault
      /\ UNCHANGED <<provisional, accounting, cases, proxyVars, evidence>>
  BY DEF Expire
<1>2. Ids' = Ids /\ requests' = requests /\ ledger' = ledger
  BY <1>1 DEF proxyVars, Ids
<1>3. ProxyInv'
  BY <1>1, ProxyUnchanged
<1>4. /\ runner' \in RunnerRecord(Ids', DOMAIN ledger)
      /\ runner'.step = runner.step /\ runner'.awaited = runner.awaited
      /\ runner'.prepared = runner.prepared /\ runner'.consumed = runner.consumed
  BY <1>1, <1>2, RunnerTypedIs DEF RunnerRecord
<1>5. RunnerTyped'
  BY <1>1, <1>2, <1>4 DEF RunnerTyped, RunnerRecord
<1>6. TurnsInv'
  BY <1>1, <1>2, <1>4, TurnsSame
<1>7. RunnerInv'
  BY <1>1, <1>2, <1>4 DEF RunnerInv
<1>8. AlignedInv' /\ TiledInv'
  BY <1>1, <1>2, <1>4, SmoothSame
<1>9. EvidenceTyped' /\ EvidenceInv'
  BY <1>1, <1>2, RunnerLeavesEvidence
<1> QED
  BY <1>3, <1>5, <1>6, <1>7, <1>8, <1>9

LEMMA FinishCaseKeeps ==
  ASSUME ProxyInv, AccountsInv, FinishCase
  PROVE  ProxyInv' /\ AccountsInv'
<1> USE DEF AccountsInv
<1>1. PICK verdict \in {"scored", "failed"} : CaseOver(runner, verdict)
  BY DEF FinishCase
<1>2. runner.step = "case" /\ UNCHANGED <<provisional, accounting, proxyVars, evidence, faults>>
  BY DEF FinishCase
<1>3. Ids' = Ids /\ requests' = requests /\ ledger' = ledger
  BY <1>2 DEF proxyVars, Ids
<1>4. ProxyInv'
  BY <1>2, ProxyUnchanged
<1>5. CaseEnds(runner)
  BY <1>1, <1>2, <1>3, RunnerTypedIs, CaseOverIs DEF RunnerInv
<1>6. RunnerTyped'
  BY <1>2, <1>3, <1>5 DEF RunnerTyped, CaseEnds, RunnerRecord
<1>7. TurnsInv'
  BY <1>2, <1>3, <1>5, TurnsSame DEF CaseEnds
<1>8. RunnerInv'
  BY <1>2, <1>3, <1>5 DEF RunnerInv, CaseEnds
<1>9. AlignedInv' /\ TiledInv'
  BY <1>2, <1>3, <1>5, SmoothSame DEF CaseEnds
<1>10. EvidenceTyped' /\ EvidenceInv'
  BY <1>2, <1>3, RunnerLeavesEvidence
<1> QED
  BY <1>4, <1>6, <1>7, <1>8, <1>9, <1>10

LEMMA ConsumedIs ==
  ASSUME RunnerTyped, Ids \subseteq Ids', ledger' = ledger, NEW outcome \in Outcomes,
         NEW slice \in SUBSET DOMAIN ledger
  PROVE  /\ Consumed(outcome, slice) \in RunnerRecord(Ids', DOMAIN ledger)
         /\ Consumed(outcome, slice).step = "case" /\ Consumed(outcome, slice).awaited = None
         /\ Consumed(outcome, slice).prepared = runner.prepared
         /\ Consumed(outcome, slice).consumed = runner.consumed \cup slice
<1>1. runner \in RunnerRecord(Ids', DOMAIN ledger)
  BY RecordsWiden
<1> QED
  BY <1>1 DEF Consumed, RunnerRecord

\* The turn of the awaited request has ended.
LEMMA TurnEnds ==
  ASSUME RequestsTyped, RunnerTyped, RunnerInv, runner.step = "waiting", NEW id, id = runner.awaited,
         NEW outcome, NEW slice, RowAdded(id, outcome, slice), Ids' = Ids, Len(requests') = Len(requests),
         \A q \in Ids : requests'[q].state = requests[q].state,
         runner'.step \in {"case", "closed"}, runner'.awaited = None, runner'.prepared = runner.prepared,
         runner'.step # "closed" => Len(cases') < Cases
  PROVE  RunnerInv' /\ id = Len(provisional) + 1 /\ id = Len(requests) /\ id \in Ids
<1>1. /\ id = Len(requests) /\ id \in Ids /\ runner.prepared = None
      /\ \A q \in Ids : requests[q].state # "withheld"
      /\ Len(requests) = Len(provisional) + 1
      /\ \A n \in DOMAIN provisional : provisional[n].request = n
  BY DEF RunnerInv
<1>2. \A n \in DOMAIN provisional' : provisional'[n].request = n
  BY <1>1 DEF RowAdded
<1>3. Len(requests') = Len(provisional')
  BY <1>1 DEF RowAdded
<1>4. Len(provisional') \in Nat
  BY DEF RowAdded
<1> QED
  BY <1>1, <1>2, <1>3, <1>4 DEF RunnerInv

LEMMA GiveUpKeeps ==
  ASSUME ProxyInv, AccountsInv, GiveUp
  PROVE  ProxyInv' /\ AccountsInv'
<1> USE DEF AccountsInv
<1>1. PICK id : id = runner.awaited
  OBVIOUS
<1>2. PICK slice : slice = Mine(id)
  OBVIOUS
<1>3. PICK outcome \in {"deadline", "failed"} :
        /\ Invoked(id, outcome, slice) /\ Accounted(outcome, slice)
        /\ CaseOver(Consumed(outcome, slice), "failed")
  BY <1>1, <1>2 DEF GiveUp
<1>4. runner.step = "waiting" /\ Fault /\ UNCHANGED <<proxyVars, evidence>>
  BY DEF GiveUp
<1>5. Ids' = Ids /\ requests' = requests /\ ledger' = ledger
  BY <1>4 DEF proxyVars, Ids
<1>6. ProxyInv'
  BY <1>4, ProxyUnchanged
<1>7. id \in Ids /\ ~requests[id].answered /\ Len(cases) < Cases
  BY <1>1, <1>4 DEF RunnerInv
<1>8. /\ slice \in SUBSET DOMAIN ledger /\ slice \cap runner.consumed = {}
      /\ \A s \in slice : ledger[s].request = id
  BY <1>2 DEF Mine
<1>9. outcome \in Outcomes
  BY DEF Outcomes
<1>10. RowAdded(id, outcome, slice)
  BY <1>3, <1>5, <1>7, <1>8, <1>9, InvokedIs
<1>11. RowAccounted(outcome, slice)
  BY <1>3, <1>8, <1>9, AccountedIs DEF ProxyInv
<1>12. PICK client : client = Consumed(outcome, slice)
  OBVIOUS
<1>13. /\ client \in RunnerRecord(Ids', DOMAIN ledger) /\ client.prepared = runner.prepared
       /\ client.consumed = runner.consumed \cup slice
  BY <1>5, <1>8, <1>9, <1>12, ConsumedIs
<1>14. CaseEnds(client)
  BY <1>3, <1>7, <1>12, <1>13, RunnerTypedIs, CaseOverIs
<1>15. RunnerTyped'
  BY <1>5, <1>10, <1>11, <1>14 DEF RowAdded, RowAccounted, CaseEnds, RunnerTyped, RunnerRecord,
     ProvisionalRow, AccountingRow
<1>16. TurnsInv'
  BY <1>5, <1>8, <1>10, <1>13, <1>14, TurnAdded DEF CaseEnds
<1>17. RunnerInv' /\ id = Len(provisional) + 1
  BY <1>1, <1>4, <1>5, <1>10, <1>13, <1>14, TurnEnds DEF CaseEnds, ProxyInv
<1>18. ~Smooth'
  <2>1. id \in DOMAIN provisional'
    BY <1>10, <1>17 DEF RowAdded
  <2>2. ~requests'[id].answered
    BY <1>5, <1>7
  <2> QED
    BY <2>1, <2>2 DEF Smooth, Faultless
<1>19. AlignedInv' /\ TiledInv'
  BY <1>18, NotSmooth
<1>20. EvidenceTyped' /\ EvidenceInv'
  BY <1>4, <1>5, RunnerLeavesEvidence
<1> QED
  BY <1>6, <1>15, <1>16, <1>17, <1>19, <1>20
\* When everything went well so far, the records of the awaited request are all there are
\* beyond those of the turns before, one for each of its calls.
LEMMA SmoothSlice ==
  ASSUME RequestsTyped, ModelTyped, CallsInv, RunnerTyped, RunnerInv, TurnsInv, TiledInv, Smooth,
         runner.step = "waiting", NEW id, id = runner.awaited,
         Range(requests[id].calls) \subseteq {"succeeded"}
  PROVE  /\ Mine(id) = CountAll(provisional) + 1 .. Len(ledger)
         /\ CountAll(provisional) <= Len(ledger)
         /\ Cardinality(Mine(id)) = Len(requests[id].calls)
         /\ Len(requests[id].calls) = Len(ledger) - CountAll(provisional)
         /\ AllOk(Mine(id))
<1>1. /\ id = Len(requests) /\ id \in Ids /\ Len(requests) = Len(provisional) + 1
      /\ Len(provisional) \in Nat /\ DOMAIN provisional = 1 .. Len(provisional)
      /\ Ids = 1 .. Len(requests)
  BY ProvisionalIs DEF RunnerInv, Ids, RequestsTyped
<1>2. Ids = DOMAIN provisional \cup {id} /\ id \notin DOMAIN provisional
  BY <1>1
<1>3. PICK c \in Nat : c = CountAll(provisional)
  BY CountAllIs
<1>4. PICK last \in Nat : last = Len(ledger)
  BY LedgerIs
<1>5. /\ c <= last /\ DOMAIN ledger = 1 .. last
      /\ \A m \in DOMAIN ledger : m <= c <=> ledger[m].request \in DOMAIN provisional
  BY <1>3, <1>4, LedgerIs DEF TiledInv
<1>6. \A n \in DOMAIN ledger : ledger[n].request \in Ids /\ (n <= c <=> ledger[n].request # id)
  BY <1>2, <1>5, LedgerIs
<1>7. \A n \in DOMAIN ledger : ledger[n].request = id => n \notin runner.consumed
  <2>1. ASSUME NEW n \in DOMAIN ledger, ledger[n].request = id, n \in runner.consumed PROVE FALSE
    <3>1. PICK m \in DOMAIN provisional : n \in provisional[m].slice
      BY <2>1 DEF TurnsInv
    <3>2. ledger[n].request = m
      BY <3>1, SmoothIs DEF TurnsInv, TurnsHoldOwnRecords
    <3> QED
      BY <1>2, <2>1, <3>1, <3>2
  <2> QED
    BY <2>1
<1>8. PICK slice : slice = Mine(id)
  OBVIOUS
<1>9. slice = c + 1 .. last
  <2>1. slice = {n \in DOMAIN ledger : ledger[n].request = id}
    BY <1>7, <1>8 DEF Mine
  <2>2. ASSUME NEW n \in slice PROVE n \in c + 1 .. last
    BY <1>5, <1>6, <2>1
  <2>3. ASSUME NEW n \in c + 1 .. last PROVE n \in slice
    <3>1. n \in 1 .. last /\ ~(n <= c)
      OBVIOUS
    <3> QED
      BY <1>5, <1>6, <2>1, <3>1
  <2> QED
    BY <2>2, <2>3
<1>10. /\ slice \subseteq DOMAIN ledger /\ \A n \in slice : ledger[n].request = id
       /\ \A n \in DOMAIN ledger : ledger[n].request = id => n \in slice
  BY <1>7, <1>8 DEF Mine
<1>11. PICK k \in Nat : k = Len(requests[id].calls)
  BY <1>1, RequestIs
<1>12. DOMAIN requests[id].calls = 1 .. k /\ \A j \in 1 .. k : requests[id].calls[j] = "succeeded"
  BY <1>1, <1>11, RequestIs DEF Range
<1>13. IsFiniteSet(slice) /\ Cardinality(slice) = last - c
  <2>1. IsFiniteSet(c + 1 .. last) /\ Cardinality(c + 1 .. last) = IF c + 1 > last THEN 0 ELSE last - (c + 1) + 1
    BY FS_Interval
  <2>2. c + 1 > last => last - c = 0
    BY <1>5
  <2>3. last - (c + 1) + 1 = last - c
    OBVIOUS
  <2> QED
    BY <1>9, <2>1, <2>2, <2>3
<1>14. Cardinality(1 .. k) = Cardinality(slice)
  <2> DEFINE f == [n \in slice |-> ledger[n].call]
  <2>1. f \in [slice -> 1 .. k]
    BY <1>10, <1>12 DEF CallsInv, RecordsOwned
  <2>2. ASSUME NEW a \in slice, NEW b \in slice, f[a] = f[b] PROVE a = b
    <3>1. a \in DOMAIN ledger /\ b \in DOMAIN ledger /\ ledger[a].call = ledger[b].call
      BY <1>10, <2>2
    <3>2. ledger[a].call \in Nat /\ ledger[a].request = ledger[b].request
      BY <1>10, <3>1, LedgerIs
    <3>3. ~(a < b) /\ ~(b < a)
      BY <3>1, <3>2 DEF CallsInv, RecordsOrdered
    <3>4. a \in Nat /\ b \in Nat
      BY <1>5, <3>1
    <3> QED
      BY <3>3, <3>4
  <2>3. ASSUME NEW t \in 1 .. k PROVE \E s \in slice : f[s] = t
    <3>1. PICK n \in DOMAIN ledger : ledger[n].request = id /\ ledger[n].call = t
      BY <1>1, <1>12 DEF CallsInv, SuccessesRecorded
    <3>2. n \in slice
      BY <1>10, <3>1
    <3> QED
      BY <3>1, <3>2
  <2> HIDE DEF f
  <2> QED
    BY <1>13, <2>1, <2>2, <2>3, SameSize
<1>15. Cardinality(1 .. k) = k
  BY FS_Interval
<1>16. AllOk(slice)
  BY <1>10, <1>12 DEF AllOk, CallsInv, RecordsOwned, StatusOf
<1> QED
  BY <1>3, <1>4, <1>5, <1>8, <1>9, <1>11, <1>13, <1>14, <1>15, <1>16

\* The block of the new turn follows those before it.
LEMMA TilesGrow ==
  ASSUME ModelTyped, RunnerTyped, RunnerInv, TiledInv, Smooth, NEW id, NEW outcome, NEW slice,
         RowAdded(id, outcome, slice), id = Len(provisional) + 1, ledger' = ledger,
         slice = CountAll(provisional) + 1 .. Len(ledger), CountAll(provisional) <= Len(ledger),
         slice \in SUBSET DOMAIN ledger,
         Cardinality(slice) = Len(requests[id].calls),
         Cardinality(slice) = Len(ledger) - CountAll(provisional),
         \A n \in DOMAIN provisional : requests'[n].calls = requests[n].calls,
         requests'[id].calls = requests[id].calls,
         \A m \in DOMAIN ledger : ledger[m].request \in DOMAIN provisional'
  PROVE  TiledInv'
<1>1. PICK c \in Nat : c = CountAll(provisional)
  BY CountAllIs
<1>2. PICK last \in Nat : last = Len(ledger)
  BY LedgerIs
<1>3. PICK rows : rows = provisional'
  OBVIOUS
<1>4. /\ id \in Nat /\ id >= 1 /\ Len(provisional) \in Nat /\ Len(rows) = id
      /\ DOMAIN provisional = 1 .. id - 1 /\ DOMAIN rows = DOMAIN provisional \cup {id}
      /\ rows[id].slice = slice
      /\ \A n \in DOMAIN provisional : rows[n] = provisional[n]
  <2>1. id - 1 = Len(provisional) /\ id \in Nat /\ id >= 1
    BY DEF RowAdded
  <2> QED
    BY <1>3, <2>1 DEF RowAdded
<1>5. \A n \in 1 .. id : CountBefore(rows, n) = CountBefore(provisional, n)
  <2>1. ASSUME NEW n \in 1 .. id PROVE CountBefore(rows, n) = CountBefore(provisional, n)
    <3>1. n \in Nat /\ \A m \in 1 .. n - 1 : m \in DOMAIN provisional
      BY <1>4
    <3>2. \A m \in 1 .. n - 1 : rows[m].slice = provisional[m].slice
      BY <1>4, <3>1
    <3> QED
      BY <3>1, <3>2, CountStays
  <2> QED
    BY <2>1
<1>6. CountBefore(rows, id) = c
  <2>1. CountBefore(provisional, id) = c
    BY <1>1 DEF CountAll
  <2> QED
    BY <1>4, <1>5, <2>1
<1>7. CountAll(rows) = last
  <2>1. \A m \in 1 .. id : rows[m].slice \subseteq DOMAIN ledger
    <3>1. \A m \in 1 .. id : m \in DOMAIN provisional \/ m = id
      BY <1>4
    <3>2. \A m \in DOMAIN provisional : rows[m].slice \subseteq DOMAIN ledger
      BY <1>4, ProvisionalIs
    <3> QED
      BY <1>4, <3>1, <3>2
  <2>2. CountBefore(rows, id + 1) = CountBefore(rows, id) + Cardinality(rows[id].slice)
    BY <1>4, <2>1, LedgerFinite, CountNext
  <2>3. c + (last - c) = last
    OBVIOUS
  <2> QED
    BY <1>1, <1>2, <1>4, <1>6, <2>2, <2>3 DEF CountAll
<1>8. ASSUME NEW n \in DOMAIN rows
      PROVE  /\ Cardinality(rows[n].slice) = Len(requests'[n].calls)
             /\ rows[n].slice = CountBefore(rows, n) + 1 .. CountBefore(rows, n) + Cardinality(rows[n].slice)
  <2>1. CASE n = id
    <3>1. c + (last - c) = last
      OBVIOUS
    <3> QED
      BY <1>1, <1>2, <1>4, <1>6, <2>1, <3>1
  <2>2. CASE n \in DOMAIN provisional
    <3>1. n \in 1 .. id
      BY <1>4, <2>2
    <3>2. CountBefore(rows, n) = CountBefore(provisional, n) /\ rows[n] = provisional[n]
      BY <1>4, <1>5, <2>2, <3>1
    <3>3. /\ Cardinality(provisional[n].slice) = Len(requests[n].calls)
          /\ provisional[n].slice = CountBefore(provisional, n) + 1 ..
               CountBefore(provisional, n) + Cardinality(provisional[n].slice)
      BY <2>2 DEF TiledInv
    <3> QED
      BY <2>2, <3>2, <3>3
  <2> QED
    BY <1>4, <2>1, <2>2
<1>9. \A m \in DOMAIN ledger : m <= last
  BY <1>2, LedgerIs
<1>10. CountAll(provisional)' = last
  BY <1>3, <1>7 DEF CountAll, CountBefore
<1>11. \A n : CountBefore(provisional, n)' = CountBefore(rows, n)
  BY <1>3 DEF CountBefore
<1>12. \A m \in DOMAIN ledger : ledger[m].request \in DOMAIN rows
  BY <1>3
<1>13. last <= last
  OBVIOUS
<1> QED
  BY <1>2, <1>3, <1>8, <1>9, <1>10, <1>11, <1>12, <1>13 DEF TiledInv
LEMMA AlignmentGrows ==
  ASSUME RunnerTyped, AlignedInv, Smooth, NEW id, NEW outcome, NEW slice,
         RowAdded(id, outcome, slice), RowAccounted(outcome, slice), id = Len(provisional) + 1,
         ledger' = ledger, \A n \in DOMAIN provisional : requests'[n].outcome = requests[n].outcome,
         requests'[id].outcome = outcome
  PROVE  AlignedInv'
<1>1. /\ Len(accounting) = Len(provisional)
      /\ \A n \in DOMAIN provisional :
           /\ provisional[n].outcome = requests[n].outcome
           /\ accounting[n] = [outcome |-> provisional[n].outcome, slice |-> provisional[n].slice,
                               successes |-> Successes(provisional[n].slice)]
  BY DEF AlignedInv
<1>2. PICK rows, accounts : rows = provisional' /\ accounts = accounting'
  OBVIOUS
<1>3. /\ DOMAIN rows = DOMAIN provisional \cup {id} /\ Len(rows) = Len(accounts)
      /\ rows[id].slice = slice /\ rows[id].outcome = outcome
      /\ \A n \in DOMAIN provisional : rows[n] = provisional[n] /\ accounts[n] = accounting[n]
      /\ accounts[id] = [outcome |-> outcome, slice |-> slice, successes |-> Successes(slice)]
  BY <1>1, <1>2 DEF RowAdded, RowAccounted
<1>4. ASSUME NEW n \in DOMAIN rows
      PROVE  /\ rows[n].outcome = requests'[n].outcome
             /\ accounts[n] = [outcome |-> rows[n].outcome, slice |-> rows[n].slice,
                               successes |-> Successes(rows[n].slice)]
  <2>1. CASE n = id
    BY <1>3, <2>1
  <2>2. CASE n \in DOMAIN provisional
    BY <1>1, <1>3, <2>2
  <2> QED
    BY <1>3, <2>1, <2>2
<1>5. \A n \in DOMAIN rows : Successes(provisional[n].slice)' = Successes(rows[n].slice)
  BY <1>2 DEF Successes
<1> QED
  BY <1>2, <1>3, <1>4, <1>5 DEF AlignedInv

LEMMA AnsweredKeeps ==
  ASSUME ProxyInv, AccountsInv, Answered
  PROVE  ProxyInv' /\ AccountsInv'
<1> USE DEF AccountsInv
<1>1. PICK id : id = runner.awaited
  OBVIOUS
<1>2. PICK slice : slice = Mine(id)
  OBVIOUS
<1>3. PICK outcome : outcome = requests[id].outcome
  OBVIOUS
<1>4. PICK client : client = Consumed(outcome, slice)
  OBVIOUS
<1>5. /\ runner.step = "waiting" /\ requests[id].state \in Done
      /\ requests' = [requests EXCEPT ![id].answered = TRUE]
      /\ Invoked(id, outcome, slice)
      /\ UNCHANGED <<calls, ledger, served, sink, evidence, faults>>
  BY <1>1, <1>2, <1>3 DEF Answered
<1>6. \/ accounting' = accounting /\ (Cardinality(slice) # Len(requests[id].calls))
      \/ Accounted(outcome, slice)
  BY <1>1, <1>2, <1>3 DEF Answered
<1>7. (runner' = client /\ cases' = cases) \/ CaseOver(client, "failed")
  BY <1>1, <1>2, <1>3, <1>4 DEF Answered
<1>8. /\ id \in Ids /\ id = Len(requests) /\ Len(cases) < Cases /\ runner.prepared = None
      /\ Len(requests) = Len(provisional) + 1
      /\ cases \in Seq({"scored", "failed"}) /\ Len(cases) <= Cases
  BY <1>1, <1>5, RunnerTypedIs DEF RunnerInv
<1>9. ProxyInv'
  BY <1>5, <1>8, AnswerKeeps
<1>10. Becomes(id, [requests[id] EXCEPT !.answered = TRUE])
  BY <1>5, <1>8, AnsweredBecomes DEF ProxyInv
<1>11. /\ requests'[id].state = requests[id].state /\ requests'[id].sequence = requests[id].sequence
       /\ requests'[id].calls = requests[id].calls /\ requests'[id].outcome = requests[id].outcome
  BY <1>8, <1>10, RequestIs DEF Becomes, Request, ProxyInv
<1>12. /\ Ids' = Ids /\ Len(requests') = Len(requests)
       /\ \A q \in Ids : q # id => requests'[q] = requests[q]
  BY <1>10 DEF Becomes
<1>13. /\ slice \in SUBSET DOMAIN ledger /\ slice \cap runner.consumed = {}
       /\ \A s \in slice : ledger[s].request = id
  BY <1>2 DEF Mine
<1>14. outcome \in Outcomes
  <2>1. outcome # "none"
    BY <1>3, <1>5, <1>8 DEF ProxyInv, RequestsTyped
  <2> QED
    BY <1>3, <1>8, <2>1, RequestIs DEF Request, ProxyInv
<1>15. RowAdded(id, outcome, slice)
  BY <1>5, <1>8, <1>12, <1>13, <1>14, InvokedIs
<1>16. accounting' = accounting \/ RowAccounted(outcome, slice)
  BY <1>6, <1>13, <1>14, AccountedIs DEF ProxyInv
<1>17. /\ client \in RunnerRecord(Ids', DOMAIN ledger) /\ client.prepared = runner.prepared
       /\ client.consumed = runner.consumed \cup slice /\ client.step = "case" /\ client.awaited = None
  BY <1>4, <1>5, <1>12, <1>13, <1>14, ConsumedIs
<1>18. CaseEnds(client)
  <2>1. CASE runner' = client /\ cases' = cases
    BY <1>8, <1>17, <2>1 DEF CaseEnds
  <2>2. CASE CaseOver(client, "failed")
    BY <1>8, <1>17, <2>2, CaseOverIs
  <2> QED
    BY <1>7, <2>1, <2>2
<1>19. RunnerTyped'
  <2>1. accounting' \in Seq(AccountingRow(DOMAIN ledger))
    BY <1>16, RunnerTypedIs DEF RowAccounted
  <2> QED
    BY <1>5, <1>15, <1>18, <2>1 DEF RowAdded, CaseEnds, RunnerTyped, RunnerRecord,
       ProvisionalRow, AccountingRow
<1>20. TurnsInv'
  BY <1>5, <1>13, <1>15, <1>17, <1>18, TurnAdded DEF CaseEnds
<1>21. RunnerInv'
  <2>1. \A q \in Ids : requests'[q].state = requests[q].state
    BY <1>11, <1>12
  <2> QED
    BY <1>1, <1>5, <1>12, <1>15, <1>17, <1>18, <2>1, TurnEnds DEF CaseEnds, ProxyInv
<1>22. AlignedInv' /\ TiledInv'
  <2>1. SUFFICES ASSUME Smooth' PROVE AlignedInv' /\ TiledInv'
    BY NotSmooth
  <2>2. id = Len(provisional) + 1 /\ id \notin DOMAIN provisional
        /\ DOMAIN provisional' = DOMAIN provisional \cup {id}
    BY <1>8, <1>15 DEF RowAdded
  <2>3. DOMAIN provisional \subseteq Ids
    BY <1>8, ProvisionalIs DEF RunnerInv
  <2>4. \A n \in DOMAIN provisional : requests'[n] = requests[n]
    BY <1>12, <2>2, <2>3
  <2>5. Smooth
    BY <1>8, <2>1, <2>2, <2>4 DEF Smooth, Faultless
  <2>6. Range(requests[id].calls) \subseteq {"succeeded"}
    BY <1>11, <2>1, <2>2 DEF Smooth, Faultless
  <2>7. /\ slice = CountAll(provisional) + 1 .. Len(ledger)
        /\ CountAll(provisional) <= Len(ledger)
        /\ Cardinality(slice) = Len(requests[id].calls)
        /\ Len(requests[id].calls) = Len(ledger) - CountAll(provisional)
    BY <1>1, <1>2, <1>5, <2>5, <2>6, SmoothSlice DEF ProxyInv
  <2>8. RowAccounted(outcome, slice)
    BY <1>6, <1>13, <1>14, <2>7, AccountedIs DEF ProxyInv
  <2>9. AlignedInv'
    <3>1. requests'[id].outcome = outcome
      BY <1>3, <1>11
    <3>2. \A n \in DOMAIN provisional : requests'[n].outcome = requests[n].outcome
      BY <2>4
    <3> QED
      BY <1>5, <1>15, <2>2, <2>5, <2>8, <3>1, <3>2, AlignmentGrows
  <2>10. TiledInv'
    <3>1. \A m \in DOMAIN ledger : ledger[m].request \in DOMAIN provisional'
      <4>1. \A m \in DOMAIN ledger : ledger[m].request \in Ids
        BY LedgerIs DEF ProxyInv
      <4>2. Ids = 1 .. Len(provisional) + 1 /\ Len(provisional) \in Nat
        BY <1>8, ProvisionalIs DEF ProxyInv, RequestsTyped, Ids
      <4>3. Ids = DOMAIN provisional'
        BY <1>15, <4>2 DEF RowAdded
      <4> QED
        BY <4>1, <4>3
    <3>2. \A n \in DOMAIN provisional : requests'[n].calls = requests[n].calls
      BY <2>4
    <3>3. Cardinality(slice) = Len(ledger) - CountAll(provisional)
      BY <2>7
    <3> QED
      BY <1>5, <1>11, <1>13, <1>15, <2>2, <2>5, <2>7, <3>1, <3>2, <3>3, TilesGrow DEF ProxyInv
  <2> QED
    BY <2>9, <2>10
<1>23. EvidenceTyped' /\ EvidenceInv'
  <2>1. \A q \in Ids : requests'[q].state = requests[q].state /\ requests'[q].sequence = requests[q].sequence
    BY <1>11, <1>12
  <2> QED
    BY <1>5, <1>12, <2>1, RunnerLeavesEvidence
<1> QED
  BY <1>9, <1>19, <1>20, <1>21, <1>22, <1>23
-----------------------------------------------------------------------------
(* The supervisor.                                                             *)
LEMMA AccountsUnread ==
  ASSUME ProxyInv, AccountsInv, UNCHANGED <<clientVars, proxyVars>>
  PROVE  /\ ProxyInv' /\ RunnerTyped' /\ RunnerInv' /\ TurnsInv' /\ AlignedInv' /\ TiledInv'
         /\ Ids' = Ids /\ Smooth' = Smooth
<1> USE DEF AccountsInv
<1>1. ProxyInv'
  BY ProxyUnchanged
<1>2. /\ runner' = runner /\ provisional' = provisional /\ accounting' = accounting /\ cases' = cases
      /\ requests' = requests /\ ledger' = ledger /\ Ids' = Ids
  BY DEF clientVars, proxyVars, Ids
<1>3. RunnerTyped' /\ RunnerInv'
  BY <1>2 DEF RunnerTyped, RunnerInv
<1>4. TurnsInv'
  BY <1>2, TurnsSame
<1>5. AlignedInv' /\ TiledInv'
  BY <1>2, SmoothSame
<1>6. Smooth' = Smooth
  BY <1>2 DEF Smooth, Faultless
<1> QED
  BY <1>1, <1>2, <1>3, <1>4, <1>5, <1>6

LEMMA RefusalKeeps ==
  ASSUME EvidenceTyped, EvidenceInv, runner.step = "closed",
         evidence.step \in {"acting", "collected", "extracted", "finalized"},
         evidence' = Refusal, UNCHANGED <<clientVars, proxyVars, faults>>
  PROVE  EvidenceTyped' /\ EvidenceInv'
<1>1. /\ evidence'.step = "refused" /\ evidence'.file = evidence.file
      /\ evidence' \in [step : {"acting", "collected", "extracted", "finalized"} \cup Verdicts,
                        at : {"acting", "collected", "extracted", "finalized"}, completed : Nat,
                        file : Seq(Ids), rows : Seq(Row), observed : Nat]
  BY DEF Refusal, EvidenceTyped, Verdicts
<1>2. Ids' = Ids /\ requests' = requests /\ runner' = runner /\ faults' = faults
  BY DEF clientVars, proxyVars, Ids
<1>3. EvidenceTyped'
  BY <1>1, <1>2 DEF EvidenceTyped
<1>4. EvidenceInv'
  BY <1>1, <1>2 DEF EvidenceInv
<1> QED
  BY <1>3, <1>4

LEMMA CollectKeeps ==
  ASSUME ProxyInv, AccountsInv, Collect
  PROVE  ProxyInv' /\ AccountsInv'
<1> USE DEF AccountsInv
<1>1. /\ evidence.step = "acting" /\ runner.step = "closed"
      /\ UNCHANGED <<clientVars, proxyVars, faults>>
  BY DEF Collect
<1>2. /\ ProxyInv' /\ RunnerTyped' /\ RunnerInv' /\ TurnsInv' /\ AlignedInv' /\ TiledInv'
      /\ Ids' = Ids /\ Smooth' = Smooth
  BY <1>1, AccountsUnread
<1>3. requests' = requests /\ runner' = runner /\ faults' = faults /\ ledger' = ledger
  BY <1>1 DEF clientVars, proxyVars
<1>4. CASE evidence' = Refusal
  BY <1>1, <1>2, <1>4, RefusalKeeps
<1>5. PICK successes \in Nat : successes = Successes(DOMAIN ledger)
  BY SuccessesIs DEF ProxyInv
<1>6. CASE evidence' = [Passing("collected") EXCEPT !.completed = successes]
  <2>1. /\ evidence'.step = "collected" /\ evidence'.file = evidence.file
        /\ evidence'.completed = successes
        /\ evidence' \in [step : {"acting", "collected", "extracted", "finalized"} \cup Verdicts,
                          at : {"acting", "collected", "extracted", "finalized"}, completed : Nat,
                          file : Seq(Ids), rows : Seq(Row), observed : Nat]
    BY <1>6 DEF Passing, EvidenceTyped
  <2>2. ASSUME Smooth PROVE successes = Len(ledger)
    <3>1. AllOk(DOMAIN ledger)
      BY <1>1, <2>2, ClosedSmooth DEF ProxyInv, AllOk
    <3>2. successes = Cardinality(DOMAIN ledger)
      BY <1>5, <3>1, SuccessesIs DEF ProxyInv
    <3>3. PICK last \in Nat : last = Len(ledger) /\ DOMAIN ledger = 1 .. last
      BY LedgerIs DEF ProxyInv
    <3>4. Cardinality(1 .. last) = last
      BY FS_Interval
    <3> QED
      BY <3>2, <3>3, <3>4
  <2>3. EvidenceTyped'
    BY <1>2, <1>3, <2>1 DEF EvidenceTyped
  <2>4. EvidenceInv'
    BY <1>1, <1>2, <1>3, <2>1, <2>2 DEF EvidenceInv
  <2> QED
    BY <1>2, <2>3, <2>4
<1> QED
  BY <1>2, <1>4, <1>5, <1>6 DEF Collect

LEMMA ExtractKeeps ==
  ASSUME ProxyInv, AccountsInv, Extract
  PROVE  ProxyInv' /\ AccountsInv'
<1> USE DEF AccountsInv
<1>1. /\ evidence.step = "collected" /\ evidence' = [Passing("extracted") EXCEPT !.file = sink.file]
      /\ UNCHANGED <<clientVars, proxyVars, faults>>
  BY DEF Extract
<1>2. /\ ProxyInv' /\ RunnerTyped' /\ RunnerInv' /\ TurnsInv' /\ AlignedInv' /\ TiledInv'
      /\ Ids' = Ids /\ Smooth' = Smooth
  BY <1>1, AccountsUnread
<1>3. requests' = requests /\ runner' = runner /\ faults' = faults /\ ledger' = ledger
  BY <1>1 DEF clientVars, proxyVars
<1>4. sink.file \in Seq(Ids)
  BY DEF ProxyInv, SinkTyped
<1>5. /\ evidence'.step = "extracted" /\ evidence'.file = sink.file
      /\ evidence'.completed = evidence.completed
      /\ evidence' \in [step : {"acting", "collected", "extracted", "finalized"} \cup Verdicts,
                        at : {"acting", "collected", "extracted", "finalized"}, completed : Nat,
                        file : Seq(Ids), rows : Seq(Row), observed : Nat]
  BY <1>1, <1>4 DEF Passing, EvidenceTyped
<1>6. EvidenceTyped'
  BY <1>2, <1>3, <1>5 DEF EvidenceTyped
<1>7. EvidenceInv'
  <2>1. /\ \A n \in DOMAIN sink.file : requests[sink.file[n]].state = "captured"
        /\ \A m, n \in DOMAIN sink.file : m < n =>
             requests[sink.file[m]].sequence < requests[sink.file[n]].sequence
    BY DEF ProxyInv, FileInv, Range
  <2> QED
    BY <1>1, <1>2, <1>3, <1>5, <2>1 DEF EvidenceInv
<1> QED
  BY <1>2, <1>6, <1>7

LEMMA FinalRowIs ==
  ASSUME ProxyInv, RunnerTyped, EvidenceTyped, EvidenceInv, NEW n \in DOMAIN evidence.file,
         n \in DOMAIN provisional
  PROVE  FinalRow(n) \in Row
<1>1. PICK id \in Ids : id = evidence.file[n]
  BY EvidenceIs
<1>2. requests[id].outcome # "none" /\ requests[id] \in Request
  BY <1>1, RequestIs DEF ProxyInv, EvidenceInv, RequestsTyped, Done
<1>3. PICK slice \in SUBSET DOMAIN ledger : slice = provisional[n].slice
  BY ProvisionalIs
<1>4. Successes(slice) \in Nat /\ slice \in SUBSET Nat
  BY SuccessesIs, LedgerIs DEF ProxyInv
<1> QED
  BY <1>1, <1>2, <1>3, <1>4 DEF FinalRow, Row, Request

LEMMA FinalizeKeeps ==
  ASSUME ProxyInv, AccountsInv, Finalize
  PROVE  ProxyInv' /\ AccountsInv'
<1> USE DEF AccountsInv
<1>1. evidence.step = "extracted" /\ UNCHANGED <<clientVars, proxyVars, faults>>
  BY DEF Finalize
<1>2. runner.step = "closed"
  BY <1>1 DEF EvidenceInv
<1>3. /\ ProxyInv' /\ RunnerTyped' /\ RunnerInv' /\ TurnsInv' /\ AlignedInv' /\ TiledInv'
      /\ Ids' = Ids /\ Smooth' = Smooth
  BY <1>1, AccountsUnread
<1>4. /\ requests' = requests /\ runner' = runner /\ faults' = faults /\ ledger' = ledger
      /\ provisional' = provisional /\ accounting' = accounting
  BY <1>1 DEF clientVars, proxyVars
<1>5. CASE evidence' = Refusal
  BY <1>1, <1>2, <1>3, <1>5, RefusalKeeps
<1>6. PICK rows : rows = [n \in DOMAIN evidence.file |-> FinalRow(n)]
  OBVIOUS
<1>7. CASE Joined /\ evidence' = [Passing("finalized") EXCEPT !.rows = rows, !.observed = Len(ledger)]
  <2>1. DOMAIN evidence.file = DOMAIN provisional
    BY <1>7, EvidenceIs, ProvisionalIs DEF Joined
  <2>2. rows \in Seq(Row)
    <3>1. \A n \in DOMAIN evidence.file : FinalRow(n) \in Row
      BY <2>1, FinalRowIs
    <3> QED
      BY <1>6, <3>1, EvidenceIs
  <2>3. Len(ledger) \in Nat
    BY LedgerIs DEF ProxyInv
  <2>4. /\ evidence'.step = "finalized" /\ evidence'.file = evidence.file
        /\ evidence'.completed = evidence.completed
        /\ evidence'.rows = rows /\ evidence'.observed = Len(ledger)
        /\ evidence' \in [step : {"acting", "collected", "extracted", "finalized"} \cup Verdicts,
                          at : {"acting", "collected", "extracted", "finalized"}, completed : Nat,
                          file : Seq(Ids), rows : Seq(Row), observed : Nat]
    BY <1>7, <2>2, <2>3 DEF Passing, EvidenceTyped
  <2>5. EvidenceTyped'
    BY <1>3, <1>4, <2>4 DEF EvidenceTyped
  <2>6. \A n \in DOMAIN evidence.file : Joins(n)' /\ FinalRow(n)' = FinalRow(n)
    <3>1. ASSUME NEW n \in DOMAIN evidence.file PROVE Joins(n)' /\ FinalRow(n)' = FinalRow(n)
      <4>1. Joins(n)
        BY <1>7 DEF Joined
      <4>2. CountBefore(provisional, n)' = CountBefore(provisional, n)
        BY <1>4 DEF CountBefore
      <4>3. Successes(provisional[n].slice)' = Successes(provisional[n].slice)
        BY <1>4 DEF Successes
      <4>4. Joins(n)'
        BY <1>4, <2>4, <4>1, <4>2, <4>3 DEF Joins
      <4> QED
        BY <1>4, <2>4, <4>3, <4>4 DEF FinalRow
    <3> QED
      BY <3>1
  <2>7. CountAll(provisional)' = CountAll(provisional) /\ CountAll(provisional) = Len(ledger)
    BY <1>4, <1>7 DEF CountAll, CountBefore, Joined
  <2>8. JoinedAt(evidence.observed)'
    BY <1>4, <1>7, <2>3, <2>4, <2>6, <2>7 DEF JoinedAt, Joined
  <2>9. evidence'.rows = [n \in DOMAIN evidence'.file |-> FinalRow(n)']
    BY <1>6, <2>4, <2>6
  <2>10. EvidenceInv'
    BY <1>1, <1>2, <1>3, <1>4, <2>4, <2>8, <2>9 DEF EvidenceInv
  <2> QED
    BY <1>3, <2>5, <2>10
<1> QED
  BY <1>5, <1>6, <1>7 DEF Finalize

LEMMA ReconcileKeeps ==
  ASSUME ProxyInv, AccountsInv, Reconcile
  PROVE  ProxyInv' /\ AccountsInv'
<1> USE DEF AccountsInv
<1>1. evidence.step = "finalized" /\ UNCHANGED <<clientVars, proxyVars, faults>>
  BY DEF Reconcile
<1>2. runner.step = "closed"
  BY <1>1 DEF EvidenceInv
<1>3. /\ ProxyInv' /\ RunnerTyped' /\ RunnerInv' /\ TurnsInv' /\ AlignedInv' /\ TiledInv'
      /\ Ids' = Ids /\ Smooth' = Smooth
  BY <1>1, AccountsUnread
<1>4. requests' = requests /\ runner' = runner /\ faults' = faults
  BY <1>1 DEF clientVars, proxyVars
<1>5. CASE evidence' = Refusal
  BY <1>1, <1>2, <1>3, <1>5, RefusalKeeps
<1>6. CASE evidence' = Passing("passed")
  <2>1. /\ evidence'.step = "passed" /\ evidence'.file = evidence.file
        /\ evidence' \in [step : {"acting", "collected", "extracted", "finalized"} \cup Verdicts,
                          at : {"acting", "collected", "extracted", "finalized"}, completed : Nat,
                          file : Seq(Ids), rows : Seq(Row), observed : Nat]
    BY <1>6 DEF Passing, EvidenceTyped, Verdicts
  <2>2. EvidenceTyped'
    BY <1>3, <1>4, <2>1 DEF EvidenceTyped
  <2>3. EvidenceInv'
    BY <1>2, <1>4, <2>1 DEF EvidenceInv
  <2> QED
    BY <1>3, <2>2, <2>3
<1> QED
  BY <1>5, <1>6 DEF Reconcile
-----------------------------------------------------------------------------
(* The invariant, and what it says of every window.                            *)
IInv == ProxyInv /\ AccountsInv

LEMMA InitHolds ==
  ASSUME Init
  PROVE  IInv
<1>1. /\ provisional = <<>> /\ accounting = <<>> /\ cases = <<>> /\ requests = <<>> /\ calls = {}
      /\ ledger = <<>> /\ served = 0 /\ faults = 0
      /\ runner = [step |-> IF Cases = 0 THEN "closed" ELSE "case", turns |-> 0, expired |-> FALSE,
                   prepared |-> None, awaited |-> None, reported |-> "none", consumed |-> {}]
      /\ sink = [next |-> 1, upto |-> 1, pending |-> {}, file |-> <<>>, lost |-> {}]
      /\ evidence = [step |-> "acting", at |-> "acting", completed |-> 0, file |-> <<>>,
                     rows |-> <<>>, observed |-> 0]
  BY DEF Init
<1>2. Cases \in Nat /\ MaxFaults \in Nat
  BY EvidenceAssumption DEF Cases
<1>3. Ids = {} /\ DOMAIN ledger = {} /\ DOMAIN provisional = {}
  BY <1>1 DEF Ids
<1>4. RequestsTyped
  BY <1>1, <1>3 DEF RequestsTyped
<1>5. ModelTyped
  BY <1>1 DEF ModelTyped
<1>6. sink.next = 1 /\ sink.upto = 1 /\ sink.pending = {} /\ sink.file = <<>> /\ sink.lost = {}
      /\ DOMAIN sink.file = {} /\ Range(sink.file) = {}
  BY <1>1 DEF Range
<1>7. SinkTyped
  <2>1. <<>> \in Seq(Ids)
    OBVIOUS
  <2> QED
    BY <1>1, <2>1 DEF SinkTyped
<1>8. RequestsInv /\ NumbersInv
  BY <1>3, <1>6 DEF RequestsInv, NumbersInv, NumbersGiven, NumbersDistinct, NumbersUsed, NumbersOrdered
<1>9. FileInv
  BY <1>6 DEF FileInv
<1>10. CallsInv
  BY <1>1, <1>3 DEF CallsInv, RecordsOwned, RecordsOrdered, PendingLast, SuccessesRecorded, RunningPending
<1>11. ServedInv
  <2>1. {n \in DOMAIN ledger : ledger[n].ok} = {}
    BY <1>3
  <2> QED
    BY <1>1, <2>1, FS_EmptySet DEF ServedInv, Successes
<1>12. /\ runner.step = (IF Cases = 0 THEN "closed" ELSE "case") /\ runner.prepared = None
       /\ runner.awaited = None /\ runner.consumed = {}
  BY <1>1
<1>13. RunnerTyped
  <2>1. runner \in RunnerRecord(Ids, DOMAIN ledger)
    BY <1>1 DEF RunnerRecord
  <2>2. Len(cases) <= Cases
    BY <1>1, <1>2
  <2> QED
    BY <1>1, <2>1, <2>2, RunnerTypedIs
<1>14. RunnerInv
  BY <1>1, <1>2, <1>3, <1>12 DEF RunnerInv
<1>15. TurnsInv
  BY <1>3, <1>12 DEF TurnsInv, TurnsHoldOwnRecords
<1>16. AlignedInv
  BY <1>1, <1>3 DEF AlignedInv
<1>17. TiledInv
  <2>1. {{m} \X provisional[m].slice : m \in 1 .. (Len(provisional) + 1) - 1} = {}
    <3>1. 1 .. (Len(provisional) + 1) - 1 = {}
      BY <1>1
    <3> QED
      BY <3>1
  <2>2. CountAll(provisional) = 0
    BY <2>1, FS_EmptySet DEF CountAll, CountBefore
  <2> QED
    BY <1>1, <1>3, <2>2 DEF TiledInv
<1>18. EvidenceTyped
  <2>1. <<>> \in Seq(Ids) /\ <<>> \in Seq(Row)
    OBVIOUS
  <2> QED
    BY <1>1, <1>2, <2>1 DEF EvidenceTyped
<1>19. EvidenceInv
  <2>1. evidence.step = "acting" /\ DOMAIN evidence.file = {}
    BY <1>1
  <2> QED
    BY <2>1 DEF EvidenceInv
<1> QED
  BY <1>4, <1>5, <1>7, <1>8, <1>9, <1>10, <1>11, <1>13, <1>14, <1>15, <1>16, <1>17, <1>18, <1>19
  DEF IInv, ProxyInv, AccountsInv

LEMMA NextKeeps ==
  ASSUME IInv, [Next]_vars
  PROVE  IInv'
<1> USE DEF IInv
<1>1. CASE RunnerStep
  BY <1>1, RefuseKeeps, WithholdKeeps, SendKeeps, AnsweredKeeps, GiveUpKeeps, ExpireKeeps,
     FinishCaseKeeps DEF RunnerStep
<1>2. CASE SupervisorStep
  BY <1>2, CollectKeeps, ExtractKeeps, FinalizeKeeps, ReconcileKeeps DEF SupervisorStep
<1>3. CASE (\E id \in Ids : HandlerStep(id)) \/ (\E call \in calls : ObserverStep(call))
  BY <1>3, ProxyStepKeeps, ProxyAdvancesKeeps
<1>4. CASE UNCHANGED vars
  <2>1. UNCHANGED <<clientVars, proxyVars>> /\ evidence' = evidence /\ faults' = faults
    BY <1>4 DEF vars
  <2>2. /\ ProxyInv' /\ RunnerTyped' /\ RunnerInv' /\ TurnsInv' /\ AlignedInv' /\ TiledInv'
        /\ Ids' = Ids /\ Smooth' = Smooth
    BY <2>1, AccountsUnread
  <2>3. EvidenceTyped'
    BY <2>1, <2>2, EvidenceTypesStay DEF AccountsInv
  <2>4. EvidenceInv'
    <3>1. \A n : Joins(n)' = Joins(n) /\ FinalRow(n)' = FinalRow(n)
      BY <2>1 DEF Joins, FinalRow, CountBefore, Successes, clientVars, proxyVars
    <3> QED
      BY <2>1, <2>2, <3>1 DEF EvidenceInv, AccountsInv, JoinedAt, CountAll, CountBefore, clientVars, proxyVars
  <2> QED
    BY <2>2, <2>3, <2>4 DEF AccountsInv
<1> QED
  BY <1>1, <1>2, <1>3, <1>4 DEF Next

LEMMA AlwaysIInv == Spec => []IInv
<1>1. Init => IInv
  BY InitHolds
<1>2. IInv /\ [Next]_vars => IInv'
  BY NextKeeps
<1> QED
  BY <1>1, <1>2, PTL DEF Spec

\* Every account is of its type, and refers to requests that were prepared and to records
\* that the observer has written.
THEOREM EvidenceIsTyped == Spec => []TypeOK
<1>1. IInv => TypeOK
  BY DEF IInv, ProxyInv, AccountsInv, TypeOK
<1> QED
  BY <1>1, AlwaysIInv, PTL

\* The capture file is in ingress order, with gaps only where a capture was lost, whatever
\* order the handlers end in and however many rows the sink has to hold back.
THEOREM CapturesFollowIngress == Spec => []CapturesInIngressOrder
<1>1. IInv => CapturesInIngressOrder
  <2>1. SUFFICES ASSUME IInv, NEW n \in DOMAIN sink.file
                 PROVE  /\ \A m \in 1 .. n - 1 :
                             requests[sink.file[m]].sequence < requests[sink.file[n]].sequence
                        /\ \A s \in 1 .. requests[sink.file[n]].sequence :
                             \E id \in Range(sink.file) \cup sink.lost : requests[id].sequence = s
    BY DEF CapturesInIngressOrder
  <2>2. FileInv /\ SinkTyped /\ RequestsTyped
    BY <2>1 DEF IInv, ProxyInv
  <2>3. sink.file \in Seq(Ids) /\ sink.upto \in Nat
    BY <2>2 DEF SinkTyped
  <2>4. PICK id \in Ids : id = sink.file[n] /\ id \in Range(sink.file)
    BY <2>3 DEF Range
  <2>5. requests[id].sequence \in Nat /\ requests[id].sequence < sink.upto
    BY <2>2, <2>4, RequestIs DEF FileInv
  <2>6. \A m \in 1 .. n - 1 : m \in DOMAIN sink.file /\ m < n
    BY <2>3
  <2>7. \A s \in 1 .. requests[id].sequence : s \in 1 .. sink.upto - 1
    BY <2>3, <2>5
  <2> QED
    BY <2>2, <2>4, <2>6, <2>7 DEF FileInv
<1> QED
  BY <1>1, AlwaysIInv, PTL

\* No turn holds a record of another request, and no record is held twice, though requests
\* that were given up go on calling the model.
THEOREM TurnsAreTheirOwn == Spec => []TurnsHoldOwnRecords
<1>1. IInv => TurnsHoldOwnRecords
  BY DEF IInv, AccountsInv, TurnsInv
<1> QED
  BY <1>1, AlwaysIInv, PTL

\* The rows the join leaves claim the same records as the client rows they were made of.
LEMMA RowsCount ==
  ASSUME IInv, evidence.step = "finalized"
  PROVE  /\ DOMAIN evidence.rows = 1 .. Len(provisional) /\ Len(evidence.rows) = Len(provisional)
         /\ DOMAIN evidence.file = 1 .. Len(provisional)
         /\ \A n \in 1 .. Len(provisional) : evidence.rows[n] = FinalRow(n) /\ Joins(n)
         /\ \A n \in 1 .. Len(provisional) :
              CountBefore(evidence.rows, n) = CountBefore(provisional, n)
         /\ CountAll(evidence.rows) = CountAll(provisional)
<1>1. /\ Len(evidence.file) = Len(provisional) /\ \A n \in DOMAIN evidence.file : Joins(n)
      /\ evidence.rows = [n \in DOMAIN evidence.file |-> FinalRow(n)]
  BY DEF IInv, AccountsInv, EvidenceInv, JoinedAt
<1>2. PICK size \in Nat : size = Len(provisional)
  BY ProvisionalIs DEF IInv, AccountsInv
<1>3. DOMAIN evidence.file = 1 .. size
  BY <1>1, <1>2, EvidenceIs DEF IInv, AccountsInv
<1>4. /\ DOMAIN evidence.rows = 1 .. size
      /\ \A n \in 1 .. size : evidence.rows[n] = FinalRow(n)
  BY <1>1, <1>3
<1>5. Len(evidence.rows) = size
  <2>1. PICK rows \in Seq(Row) : rows = evidence.rows
    BY DEF IInv, AccountsInv, EvidenceTyped
  <2>2. Len(rows) \in Nat /\ 1 .. Len(rows) = 1 .. size
    BY <1>4, <2>1
  <2>3. \A n \in Nat : n \in 1 .. Len(rows) <=> n \in 1 .. size
    BY <2>2
  <2>4. Len(rows) = size
    <3>1. Len(rows) >= 1 => Len(rows) <= size
      BY <2>2, <2>3
    <3>2. size >= 1 => size <= Len(rows)
      BY <2>2, <2>3
    <3> QED
      BY <2>2, <3>1, <3>2
  <2> QED
    BY <2>1, <2>4
<1>6. \A n \in 1 .. size : evidence.rows[n].slice = provisional[n].slice
  <2>1. \A n : FinalRow(n).slice = provisional[n].slice
    BY DEF FinalRow
  <2> QED
    BY <1>4, <2>1
<1>7. ASSUME NEW n \in Nat, n <= size + 1
      PROVE  CountBefore(evidence.rows, n) = CountBefore(provisional, n)
  <2>1. \A m \in 1 .. n - 1 : evidence.rows[m].slice = provisional[m].slice
    BY <1>2, <1>6, <1>7
  <2> QED
    BY <2>1, CountStays
<1>8. CountAll(evidence.rows) = CountAll(provisional)
  BY <1>2, <1>5, <1>7 DEF CountAll
<1>9. \A n \in 1 .. size : n \in Nat /\ n <= size + 1
  BY <1>2
<1> QED
  BY <1>1, <1>2, <1>3, <1>4, <1>5, <1>7, <1>8, <1>9

LEMMA JoinedIsLinked ==
  ASSUME IInv, evidence.step = "finalized", evidence.observed = Len(ledger)
  PROVE  Linked
<1>1. CountAll(evidence.rows) = Len(ledger)
  BY RowsCount DEF IInv, AccountsInv, EvidenceInv, JoinedAt
<1>2. ASSUME NEW n \in 1 .. Len(provisional)
      PROVE  LET row == evidence.rows[n]
                 count == Cardinality(row.slice)
                 first == CountBefore(evidence.rows, n) + 1
             IN /\ row.projected => row.outcome = "succeeded" /\ count = 0
                /\ row.slice = first .. first + count - 1 /\ row.slice \subseteq DOMAIN ledger
                /\ Len(row.calls) = count
                /\ \A k \in 1 .. count : Agrees(row.calls[k], ledger[first + k - 1])
                /\ row.successes = Successes(row.slice)
  <2>1. /\ evidence.rows[n] = FinalRow(n) /\ Joins(n) /\ n \in DOMAIN evidence.file
        /\ CountBefore(evidence.rows, n) = CountBefore(provisional, n)
    BY RowsCount
  <2>2. PICK id \in Ids : id = evidence.file[n]
    BY <2>1, EvidenceIs DEF IInv, AccountsInv
  <2>3. /\ requests[id].projected => requests[id].outcome = "succeeded"
        /\ requests[id].projected => requests[id].calls = <<>>
    BY <2>1, <2>2 DEF IInv, ProxyInv, AccountsInv, EvidenceInv, RequestsInv, Valid
  <2>4. PICK slice : slice = provisional[n].slice
    OBVIOUS
  <2>5. PICK row : row = evidence.rows[n]
    OBVIOUS
  <2>6. /\ row.slice = slice /\ row.calls = requests[id].calls /\ row.outcome = requests[id].outcome
        /\ row.projected = requests[id].projected /\ row.successes = Successes(slice)
    BY <2>1, <2>2, <2>4, <2>5 DEF FinalRow
  <2>7. PICK count, before : count = Cardinality(slice) /\ before = CountBefore(provisional, n)
    OBVIOUS
  <2>8. /\ slice = before + 1 .. before + 1 + count - 1 /\ slice \subseteq DOMAIN ledger
        /\ Len(requests[id].calls) = count
        /\ \A k \in 1 .. count : Agrees(requests[id].calls[k], ledger[before + 1 + k - 1])
    BY <2>1, <2>2, <2>4, <2>7 DEF Joins
  <2>9. requests[id].projected => count = 0
    BY <2>3, <2>8
  <2> QED
    BY <2>1, <2>3, <2>5, <2>6, <2>7, <2>8, <2>9
<1> QED
  BY <1>1, <1>2, RowsCount DEF Linked

\* The verification accepts what the join produced, until the observer records one more call.
THEOREM JoinedEvidenceVerifies == Spec => []JoinedRowsVerify
<1>1. IInv => JoinedRowsVerify
  BY JoinedIsLinked DEF JoinedRowsVerify
<1> QED
  BY <1>1, AlwaysIInv, PTL
-----------------------------------------------------------------------------
(* Counting along an order.                                                    *)

\* c numbers below c + 1 in increasing order are 1 to c.
LEMMA IncreasingIsIdentity ==
  ASSUME NEW c \in Nat, NEW f \in [1 .. c -> 1 .. c],
         \A a, b \in 1 .. c : a < b => f[a] < f[b]
  PROVE  \A k \in 1 .. c : f[k] = k
<1>1. \A k \in 1 .. c : f[k] >= k
  <2> DEFINE T == {k \in 1 .. c : f[k] < k}
  <2>1. SUFFICES ASSUME T # {} PROVE FALSE
    OBVIOUS
  <2>2. T \in SUBSET Nat
    OBVIOUS
  <2>3. PICK k \in T : \A y \in T : k <= y
    BY <2>1, <2>2, LeastOf
  <2>4. k \in 1 .. c /\ f[k] < k /\ f[k] \in 1 .. c
    OBVIOUS
  <2>5. k - 1 \in 1 .. c /\ k - 1 \notin T
    BY <2>3, <2>4
  <2>6. f[k - 1] \in 1 .. c /\ f[k - 1] >= k - 1 /\ f[k - 1] < f[k]
    BY <2>4, <2>5
  <2> QED
    BY <2>4, <2>6
<1>2. \A k \in 1 .. c : f[k] <= k
  <2> DEFINE T == {k \in 1 .. c : f[k] > k}
             U == {c - k : k \in T}
  <2>1. SUFFICES ASSUME T # {} PROVE FALSE
    OBVIOUS
  <2>2. U \in SUBSET Nat /\ U # {}
    BY <2>1, SMTT(30)
  <2>3. PICK u \in U : \A y \in U : u <= y
    BY <2>2, LeastOf
  <2>4. PICK k \in T : u = c - k
    OBVIOUS
  <2>5. k \in 1 .. c /\ f[k] > k /\ f[k] \in 1 .. c
    OBVIOUS
  <2>6. k + 1 \in 1 .. c /\ k + 1 \notin T
    <3>1. k + 1 \in 1 .. c
      BY <2>5
    <3>2. ASSUME k + 1 \in T PROVE FALSE
      <4>1. c - (k + 1) \in U
        BY <3>2
      <4>2. u <= c - (k + 1)
        BY <2>3, <4>1
      <4> QED
        BY <2>4, <2>5, <4>2
    <3> QED
      BY <3>1, <3>2
  <2>7. f[k + 1] \in 1 .. c /\ f[k + 1] <= k + 1 /\ f[k] < f[k + 1]
    BY <2>5, <2>6
  <2> QED
    BY <2>5, <2>7
<1>3. \A k \in 1 .. c : f[k] \in 1 .. c
  OBVIOUS
<1> QED
  BY <1>1, <1>2, <1>3

\* More rows claim no fewer records.
LEMMA CountGrows ==
  ASSUME NEW rows, NEW D, IsFiniteSet(D), NEW n \in Nat, NEW m \in Nat, n <= m,
         \A k \in 1 .. m - 1 : rows[k].slice \subseteq D
  PROVE  /\ CountBefore(rows, n) \in Nat /\ CountBefore(rows, m) \in Nat
         /\ CountBefore(rows, n) <= CountBefore(rows, m)
<1> DEFINE few == UNION {{k} \X rows[k].slice : k \in 1 .. n - 1}
           more == UNION {{k} \X rows[k].slice : k \in 1 .. m - 1}
<1>1. \A k \in 1 .. n - 1 : k \in 1 .. m - 1
  OBVIOUS
<1>2. \A k \in 1 .. n - 1 : rows[k].slice \subseteq D
  BY <1>1
<1>3. CountBefore(rows, n) \in Nat
  BY <1>2, CountBeforeIs
<1>4. IsFiniteSet(more) /\ CountBefore(rows, m) \in Nat
  BY CountBeforeIs
<1>5. few \in SUBSET more
  BY <1>1
<1>6. CountBefore(rows, n) = Cardinality(few) /\ CountBefore(rows, m) = Cardinality(more)
  BY DEF CountBefore
<1> HIDE DEF few, more
<1>7. Cardinality(few) <= Cardinality(more)
  BY <1>4, <1>5, FS_Subset
<1> QED
  BY <1>3, <1>4, <1>6, <1>7
-----------------------------------------------------------------------------
(* What a window that is passed looks like.                                    *)

\* The rows are those of the requests, in their order, and every call succeeded.
RowsOwned ==
  /\ Len(evidence.rows) = Len(requests) /\ Len(requests) \in Nat /\ Ids = 1 .. Len(requests)
  /\ DOMAIN provisional = Ids /\ calls = {}
  /\ \A id \in Ids :
       /\ requests[id].state = "captured" /\ evidence.rows[id] = FinalRow(id)
       /\ evidence.file[id] = id /\ Joins(id)
       /\ Range(requests[id].calls) \subseteq {"succeeded"}

LEMMA ReconciledOwned ==
  ASSUME IInv, evidence.step = "finalized", Linked, Reconciled
  PROVE  RowsOwned
<1> USE DEF IInv, AccountsInv, ProxyInv
<1>1. PICK size \in Nat : size = Len(provisional) /\ DOMAIN provisional = 1 .. size
  BY ProvisionalIs
<1>2. /\ DOMAIN evidence.file = 1 .. size /\ Len(evidence.rows) = size
      /\ \A n \in 1 .. size : evidence.rows[n] = FinalRow(n) /\ Joins(n)
  BY <1>1, RowsCount
<1>3. ASSUME NEW n \in 1 .. size
      PROVE  /\ evidence.file[n] \in Ids /\ requests[evidence.file[n]].state = "captured"
             /\ provisional[n].request = evidence.file[n]
  <2>1. evidence.file[n] \in Ids
    BY <1>2, EvidenceIs
  <2>2. requests[evidence.file[n]].state = "captured"
    BY <1>2 DEF EvidenceInv
  <2>3. provisional[n].request = evidence.file[n]
    BY <1>2 DEF Joins
  <2> QED
    BY <2>1, <2>2, <2>3
<1>4. runner.prepared = None /\ runner.step = "closed"
  <2>1. runner.step = "closed"
    BY DEF EvidenceInv
  <2>2. ASSUME runner.prepared # None PROVE FALSE
    <3>1. PICK n \in 1 .. size : provisional[n].request = runner.prepared
      BY <1>1, <2>2 DEF RunnerInv
    <3>2. requests[runner.prepared].state = "withheld"
      BY <2>2 DEF RunnerInv
    <3> QED
      BY <1>3, <3>1, <3>2
  <2> QED
    BY <2>1, <2>2
<1>5. Len(requests) = size /\ Ids = 1 .. size /\ \A n \in 1 .. size : provisional[n].request = n
  <2>1. Len(requests) = size /\ \A n \in 1 .. size : provisional[n].request = n
    BY <1>1, <1>4 DEF RunnerInv
  <2>2. Ids = 1 .. Len(requests)
    BY DEF RequestsTyped, Ids
  <2> QED
    BY <2>1, <2>2
<1>6. ASSUME NEW id \in Ids, NEW k \in DOMAIN requests[id].calls
      PROVE  requests[id].calls[k] = "succeeded"
  <2>1. Joins(id) /\ evidence.file[id] = id
    BY <1>2, <1>3, <1>5
  <2>2. PICK slice, count, before : /\ slice = provisional[id].slice /\ count = Cardinality(slice)
                                    /\ before = CountBefore(provisional, id)
    OBVIOUS
  <2>3. /\ slice = before + 1 .. before + 1 + count - 1 /\ slice \subseteq DOMAIN ledger
        /\ Len(requests[id].calls) = count
        /\ \A j \in 1 .. count : Agrees(requests[id].calls[j], ledger[before + 1 + j - 1])
    BY <2>1, <2>2 DEF Joins
  <2>4. requests[id].calls \in Seq(Statuses)
    BY RequestIs DEF Request
  <2>5. count \in Nat /\ k \in 1 .. count
    BY <2>3, <2>4
  <2>6. before \in Nat
    <3>1. \A m \in 1 .. id - 1 : provisional[m].slice \subseteq DOMAIN ledger
      BY <1>1, <1>5, ProvisionalIs
    <3>2. id \in Nat
      BY <1>5
    <3> QED
      BY <2>2, <3>1, <3>2, LedgerFinite, CountBeforeIs
  <2>7. before + 1 + k - 1 \in DOMAIN ledger
    BY <2>3, <2>5, <2>6
  <2>8. ledger[before + 1 + k - 1].ok
    BY <2>7 DEF Reconciled
  <2> QED
    BY <2>3, <2>5, <2>8 DEF Agrees
<1>7. calls = {}
  <2>1. ASSUME NEW call \in calls PROVE FALSE
    <3>1. /\ call.request \in Ids /\ call.call \in DOMAIN requests[call.request].calls
          /\ requests[call.request].calls[call.call] # "succeeded"
      BY DEF ModelTyped, CallsInv, PendingLast, StatusOf
    <3> QED
      BY <1>6, <3>1
  <2> QED
    BY <2>1
<1>8. ASSUME NEW id \in Ids
      PROVE  /\ requests[id].state = "captured" /\ evidence.rows[id] = FinalRow(id)
             /\ evidence.file[id] = id /\ Joins(id)
             /\ Range(requests[id].calls) \subseteq {"succeeded"}
  <2>1. id \in 1 .. size
    BY <1>5
  <2>2. evidence.file[id] = id
    BY <2>1, <1>3, <1>5
  <2>3. Range(requests[id].calls) \subseteq {"succeeded"}
    BY <1>6 DEF Range
  <2> QED
    BY <2>1, <2>2, <2>3, <1>2, <1>3
<1> QED
  BY <1>1, <1>2, <1>5, <1>7, <1>8 DEF RowsOwned

\* The block of a request holds the records of its calls, one after the other.
Block(id, before) ==
  /\ before \in 0 .. Len(ledger)
  /\ evidence.rows[id].slice = before + 1 .. before + Len(requests[id].calls)
  /\ \A k \in DOMAIN requests[id].calls :
       /\ before + k \in DOMAIN ledger
       /\ ledger[before + k] = [request |-> id, call |-> k, ok |-> TRUE]

LEMMA BlocksAre ==
  ASSUME IInv, evidence.step = "finalized", Linked, Reconciled, NEW id \in Ids
  PROVE  /\ Block(id, CountBefore(provisional, id))
         /\ evidence.rows[id].outcome = requests[id].outcome
         /\ evidence.rows[id].calls = requests[id].calls
         /\ evidence.rows[id].slice = provisional[id].slice
         /\ Cardinality(provisional[id].slice) = Len(requests[id].calls)
<1> USE DEF IInv, AccountsInv, ProxyInv
<1>1. RowsOwned
  BY ReconciledOwned
<1>2. id \in Nat /\ id >= 1 /\ Joins(id) /\ evidence.file[id] = id /\ evidence.rows[id] = FinalRow(id)
  BY <1>1 DEF RowsOwned
<1>3. PICK slice, before : slice = provisional[id].slice /\ before = CountBefore(provisional, id)
  OBVIOUS
<1>4. PICK list \in Seq(Statuses) : list = requests[id].calls
  BY RequestIs DEF Request
<1>5. PICK count \in Nat : count = Len(list) /\ DOMAIN list = 1 .. count
  OBVIOUS
<1>6. /\ Cardinality(slice) = count
      /\ slice = before + 1 .. before + 1 + count - 1 /\ slice \subseteq DOMAIN ledger
      /\ \A k \in 1 .. count : ledger[before + 1 + k - 1].request = id
  BY <1>2, <1>3, <1>4, <1>5 DEF Joins
<1>7. /\ evidence.rows[id].slice = slice /\ evidence.rows[id].calls = list
      /\ evidence.rows[id].outcome = requests[id].outcome
  BY <1>2, <1>3, <1>4 DEF FinalRow
<1>8. PICK written \in Nat : written = Len(ledger) /\ DOMAIN ledger = 1 .. written
  BY LedgerIs
<1>9. before \in 0 .. written
  <2>1. PICK size \in Nat : size = Len(provisional) /\ DOMAIN provisional = 1 .. size
    BY ProvisionalIs
  <2>2. \A k \in 1 .. (size + 1) - 1 : provisional[k].slice \subseteq DOMAIN ledger
    BY <2>1, ProvisionalIs
  <2>3. id <= size + 1 /\ size + 1 \in Nat
    BY <1>1, <2>1 DEF RowsOwned
  <2>4. CountAll(provisional) = written
    BY <1>8, RowsCount DEF Linked
  <2>5. /\ CountBefore(provisional, id) \in Nat
        /\ CountBefore(provisional, id) <= CountBefore(provisional, size + 1)
    BY <1>2, <2>2, <2>3, LedgerFinite, CountGrows
  <2> QED
    BY <1>3, <2>1, <2>4, <2>5 DEF CountAll
<1>10. before \in Nat /\ slice = before + 1 .. before + count
  BY <1>6, <1>9
<1>11. ASSUME NEW k \in 1 .. count
       PROVE  /\ before + k \in DOMAIN ledger /\ ledger[before + k].request = id
              /\ ledger[before + k].ok = TRUE /\ ledger[before + k].call \in 1 .. count
              /\ ledger[before + k] \in [request : Ids, call : Nat, ok : BOOLEAN]
  <2>1. before + k \in slice /\ before + 1 + k - 1 = before + k
    BY <1>10
  <2>2. before + k \in DOMAIN ledger /\ ledger[before + k].request = id
    BY <1>6, <2>1
  <2>3. ledger[before + k] \in [request : Ids, call : Nat, ok : BOOLEAN]
    BY <2>2, LedgerIs
  <2>4. ledger[before + k].ok
    BY <2>2 DEF Reconciled
  <2>5. ledger[before + k].call \in DOMAIN list
    BY <1>4, <2>2 DEF CallsInv, RecordsOwned
  <2> QED
    BY <1>5, <2>2, <2>3, <2>4, <2>5
<1>12. \A k \in 1 .. count : ledger[before + k].call = k
  <2> DEFINE f == [k \in 1 .. count |-> ledger[before + k].call]
  <2>1. f \in [1 .. count -> 1 .. count]
    BY <1>11
  <2>2. ASSUME NEW a \in 1 .. count, NEW b \in 1 .. count, a < b PROVE f[a] < f[b]
    <3>1. before + a < before + b
      BY <1>10, <2>2
    <3> QED
      BY <1>11, <3>1 DEF CallsInv, RecordsOrdered
  <2>3. \A k \in 1 .. count : f[k] = ledger[before + k].call
    OBVIOUS
  <2> HIDE DEF f
  <2>4. \A k \in 1 .. count : f[k] = k
    BY <2>1, <2>2, IncreasingIsIdentity
  <2> QED
    BY <2>3, <2>4
<1>13. \A k \in 1 .. count : ledger[before + k] = [request |-> id, call |-> k, ok |-> TRUE]
  BY <1>11, <1>12
<1>14. Block(id, before)
  BY <1>4, <1>5, <1>7, <1>8, <1>9, <1>10, <1>11, <1>13 DEF Block
<1> QED
  BY <1>3, <1>4, <1>5, <1>6, <1>7, <1>14

LEMMA BlocksCoverRecords ==
  ASSUME IInv, evidence.step = "finalized", Linked, Reconciled
  PROVE  UNION {evidence.rows[id].slice : id \in Ids} = DOMAIN ledger
<1>1. ModelTyped /\ CallsInv /\ RequestsTyped
  BY DEF IInv, ProxyInv
<1>2. ASSUME NEW id \in Ids PROVE evidence.rows[id].slice \subseteq DOMAIN ledger
  BY BlocksAre, ProvisionalIs, ReconciledOwned DEF IInv, AccountsInv, RowsOwned
<1>3. ASSUME NEW n \in DOMAIN ledger PROVE \E id \in Ids : n \in evidence.rows[id].slice
  <2>1. PICK id \in Ids : id = ledger[n].request
    BY <1>1, LedgerIs
  <2>2. PICK k : k = ledger[n].call /\ k \in DOMAIN requests[id].calls
    BY <1>1, <2>1 DEF CallsInv, RecordsOwned
  <2>3. PICK before : Block(id, before)
    BY BlocksAre
  <2>4. /\ before + k \in DOMAIN ledger
        /\ ledger[before + k] = [request |-> id, call |-> k, ok |-> TRUE]
    BY <2>2, <2>3 DEF Block
  <2>5. n \in Nat /\ before + k \in Nat /\ k \in Nat
    BY <1>1, <2>2, <2>4, LedgerIs
  <2>6. n = before + k
    <3>1. ~(n < before + k)
      BY <1>1, <2>1, <2>2, <2>4, <2>5 DEF CallsInv, RecordsOrdered
    <3>2. ~(before + k < n)
      BY <1>1, <2>1, <2>2, <2>4, <2>5 DEF CallsInv, RecordsOrdered
    <3> QED
      BY <2>5, <3>1, <3>2
  <2>7. requests[id].calls \in Seq(Statuses)
    BY <1>1, RequestIs DEF Request
  <2>8. k \in 1 .. Len(requests[id].calls) /\ before \in Nat /\ Len(requests[id].calls) \in Nat
    BY <1>1, <2>2, <2>3, <2>7, LedgerIs DEF Block
  <2>9. before + k \in before + 1 .. before + Len(requests[id].calls)
    BY <2>8
  <2> QED
    BY <2>3, <2>6, <2>9 DEF Block
<1> QED
  BY <1>2, <1>3

LEMMA BlocksAreInOrder ==
  ASSUME IInv, evidence.step = "finalized", Linked, Reconciled,
         NEW id \in Ids, NEW later \in Ids, id < later,
         NEW n \in evidence.rows[id].slice, NEW m \in evidence.rows[later].slice
  PROVE  n < m
<1> USE DEF IInv, AccountsInv, ProxyInv
<1>1. RowsOwned
  BY ReconciledOwned
<1>2. id \in Nat /\ later \in Nat /\ id >= 1 /\ id + 1 <= later /\ id + 1 \in Nat
  BY <1>1 DEF RowsOwned
<1>3. PICK before, next : /\ before = CountBefore(provisional, id)
                          /\ next = CountBefore(provisional, later)
  OBVIOUS
<1>4. PICK count : count = Len(requests[id].calls)
  OBVIOUS
<1>5. PICK size : size = Len(requests[later].calls)
  OBVIOUS
<1>6. Block(id, before) /\ Block(later, next) /\ Cardinality(provisional[id].slice) = count
  BY <1>3, <1>4, BlocksAre
<1>7. /\ n \in before + 1 .. before + count /\ m \in next + 1 .. next + size
      /\ before \in Nat /\ next \in Nat
  BY <1>4, <1>5, <1>6, LedgerIs DEF Block
<1>8. \A k \in 1 .. later - 1 : provisional[k].slice \subseteq DOMAIN ledger
  BY <1>1, <1>2, ProvisionalIs DEF RowsOwned
<1>9. \A k \in 1 .. id : provisional[k].slice \subseteq DOMAIN ledger
  BY <1>2, <1>8
<1>10. /\ CountBefore(provisional, id + 1) = before + count /\ count \in Nat
  BY <1>2, <1>3, <1>6, <1>9, LedgerFinite, CountNext
<1>11. CountBefore(provisional, id + 1) <= next
  BY <1>2, <1>3, <1>8, LedgerFinite, CountGrows
<1>12. size \in Nat
  <2>1. requests[later].calls \in Seq(Statuses)
    BY RequestIs DEF Request
  <2> QED
    BY <1>5, <2>1
<1> QED
  BY <1>7, <1>10, <1>11, <1>12

\* What PassedEvidenceIsExact says of a window that passed.
ExactRow(id, row) ==
  /\ requests[id].state = "captured"
  /\ row.outcome = requests[id].outcome /\ row.calls = requests[id].calls
  /\ Range(row.calls) \subseteq {"succeeded"}
  /\ \E before \in 0 .. Len(ledger) :
       /\ row.slice = before + 1 .. before + Len(row.calls)
       /\ \A k \in DOMAIN row.calls :
            ledger[before + k] = [request |-> id, call |-> k, ok |-> TRUE]
Exact ==
  /\ Len(evidence.rows) = Len(requests) /\ calls = {}
  /\ \A id \in Ids : ExactRow(id, evidence.rows[id])
  /\ UNION {evidence.rows[id].slice : id \in Ids} = DOMAIN ledger
  /\ \A id, later \in Ids : id < later =>
       \A n \in evidence.rows[id].slice, m \in evidence.rows[later].slice : n < m

LEMMA ReconciledExact ==
  ASSUME IInv, evidence.step = "finalized", Linked, Reconciled
  PROVE  Exact
<1>1. RowsOwned
  BY ReconciledOwned
<1>2. ASSUME NEW id \in Ids PROVE ExactRow(id, evidence.rows[id])
  <2>1. /\ evidence.rows[id].outcome = requests[id].outcome
        /\ evidence.rows[id].calls = requests[id].calls
    BY BlocksAre
  <2>2. PICK before : Block(id, before)
    BY BlocksAre
  <2>3. PICK row : row = evidence.rows[id]
    OBVIOUS
  <2>4. PICK list : list = requests[id].calls
    OBVIOUS
  <2>5. /\ requests[id].state = "captured" /\ Range(list) \subseteq {"succeeded"}
    BY <1>1, <2>4 DEF RowsOwned
  <2>6. /\ before \in 0 .. Len(ledger) /\ row.slice = before + 1 .. before + Len(list)
        /\ \A k \in DOMAIN list : ledger[before + k] = [request |-> id, call |-> k, ok |-> TRUE]
    BY <2>2, <2>3, <2>4 DEF Block
  <2>7. row.outcome = requests[id].outcome /\ row.calls = list
    BY <2>1, <2>3, <2>4
  <2>8. \E b \in 0 .. Len(ledger) :
          /\ row.slice = b + 1 .. b + Len(list)
          /\ \A k \in DOMAIN list : ledger[b + k] = [request |-> id, call |-> k, ok |-> TRUE]
    BY <2>6
  <2>9. ExactRow(id, row)
    BY <2>4, <2>5, <2>7, <2>8 DEF ExactRow
  <2> QED
    BY <2>3, <2>9
<1>3. \A id, later \in Ids : id < later =>
        \A n \in evidence.rows[id].slice, m \in evidence.rows[later].slice : n < m
  BY BlocksAreInOrder
<1>4. UNION {evidence.rows[id].slice : id \in Ids} = DOMAIN ledger
  BY BlocksCoverRecords
<1>5. Len(evidence.rows) = Len(requests) /\ calls = {}
  BY <1>1 DEF RowsOwned
<1> QED
  BY <1>2, <1>3, <1>4, <1>5 DEF Exact

ExactOncePassed == evidence.step = "passed" => Exact

LEMMA ExactSame ==
  ASSUME requests' = requests, calls' = calls, ledger' = ledger, evidence'.rows = evidence.rows
  PROVE  Exact' = Exact
BY DEF Exact, ExactRow, Ids, Range

LEMMA PassedKeeps ==
  ASSUME IInv, ExactOncePassed, [Next]_vars
  PROVE  ExactOncePassed'
<1>1. SUFFICES ASSUME evidence'.step = "passed" PROVE Exact'
  BY DEF ExactOncePassed
<1>2. evidence.step # "acting" => runner.step = "closed"
  BY DEF IInv, AccountsInv, EvidenceInv
<1>3. CASE RunnerStep
  <2>1. evidence' = evidence
    BY <1>3 DEF RunnerStep, Refuse, Withhold, Send, Answered, GiveUp, Expire, FinishCase
  <2>2. runner.step # "closed"
    BY <1>3 DEF RunnerStep, Refuse, Withhold, Send, Answered, GiveUp, Expire, FinishCase, InCase
  <2> QED
    BY <1>1, <1>2, <2>1, <2>2
<1>4. CASE Collect \/ Extract \/ Finalize
  <2>1. evidence'.step # "passed"
    BY <1>4 DEF Collect, Extract, Finalize, Passing, Refusal, IInv, AccountsInv, EvidenceTyped
  <2> QED
    BY <1>1, <2>1
<1>5. CASE Reconcile
  <2>1. /\ evidence.step = "finalized" /\ requests' = requests /\ calls' = calls /\ ledger' = ledger
    BY <1>5 DEF Reconcile, proxyVars
  <2>2. Linked /\ Reconciled /\ evidence' = Passing("passed")
    BY <1>1, <1>5 DEF Reconcile, Refusal, IInv, AccountsInv, EvidenceTyped
  <2>3. evidence'.rows = evidence.rows
    BY <2>2 DEF Passing, IInv, AccountsInv, EvidenceTyped
  <2> QED
    BY <2>1, <2>2, <2>3, ReconciledExact, ExactSame
<1>6. CASE Up /\ ((\E id \in Ids : HandlerStep(id)) \/ (\E call \in calls : ObserverStep(call)))
  <2>1. evidence' = evidence
    BY <1>6 DEF HandlerStep, ObserverStep, Arrive, Project, StartCall, End, RefuseCapture, Capture,
       Observe, LoseRecord
  <2>2. evidence.step # "passed"
    BY <1>6 DEF Up, Verdicts
  <2> QED
    BY <1>1, <2>1, <2>2
<1>7. CASE UNCHANGED vars
  BY <1>1, <1>7, ExactSame DEF vars, proxyVars, ExactOncePassed
<1> QED
  BY <1>3, <1>4, <1>5, <1>6, <1>7 DEF Next, SupervisorStep

\* A window that passes has one row per request the runner prepared, with the outcome and
\* the calls of its own handler, and the rows cut the observer's file, without rest and in
\* order, into the calls of the requests, all of which succeeded.
THEOREM PassedWindowsAreExact == Spec => []PassedEvidenceIsExact
<1>1. Init => ExactOncePassed
  BY DEF Init, ExactOncePassed
<1>2. IInv /\ ExactOncePassed /\ [Next]_vars => ExactOncePassed'
  BY PassedKeeps
<1>3. ExactOncePassed => PassedEvidenceIsExact
  BY DEF ExactOncePassed, Exact, ExactRow, PassedEvidenceIsExact
<1> QED
  BY <1>1, <1>2, <1>3, AlwaysIInv, PTL DEF Spec
-----------------------------------------------------------------------------
(* What a window that is refused looks like.                                   *)

\* Every request was sent, answered and captured, and its calls succeeded.
Clean == \A id \in Ids : requests[id].state = "captured" /\ Faultless(id)

LEMMA CleanIsSmooth ==
  ASSUME IInv, Clean, runner.step = "closed"
  PROVE  /\ Smooth /\ Ids = DOMAIN provisional /\ Len(requests) = Len(provisional)
         /\ Len(requests) \in Nat /\ Ids = 1 .. Len(requests)
         /\ calls = {} /\ \A n \in DOMAIN ledger : ledger[n].ok
<1> USE DEF IInv, AccountsInv, ProxyInv
<1>1. runner.prepared = None
  <2>1. runner.prepared \in {None} \cup Ids
    BY DEF RunnerTyped
  <2>2. runner.prepared # None => requests[runner.prepared].state = "withheld"
    BY DEF RunnerInv
  <2> QED
    BY <2>1, <2>2 DEF Clean
<1>2. Ids = 1 .. Len(requests) /\ Len(requests) \in Nat
  BY DEF RequestsTyped, Ids
<1>3. Len(requests) = Len(provisional)
  BY <1>1, ProvisionalIs DEF RunnerInv
<1>4. DOMAIN provisional = Ids
  BY <1>2, <1>3, ProvisionalIs
<1>5. Smooth
  BY <1>1, <1>4 DEF Smooth, Clean
<1> QED
  BY <1>2, <1>3, <1>4, <1>5, ClosedSmooth

\* Every record is of a request, so the turns account for all of them.
LEMMA CleanCountsAll ==
  ASSUME IInv, Clean, runner.step = "closed"
  PROVE  CountAll(provisional) = Len(ledger)
<1> USE DEF IInv, AccountsInv, ProxyInv
<1>1. Smooth /\ Ids = DOMAIN provisional
  BY CleanIsSmooth
<1>2. PICK c \in Nat : c = CountAll(provisional)
  BY CountAllIs
<1>3. c <= Len(ledger) /\ \A m \in DOMAIN ledger : ledger[m].request \in DOMAIN provisional => m <= c
  BY <1>1, <1>2 DEF TiledInv
<1>4. PICK written \in Nat : written = Len(ledger) /\ DOMAIN ledger = 1 .. written
  BY LedgerIs
<1>5. \A m \in 1 .. written : m <= c
  BY <1>1, <1>3, <1>4, LedgerIs
<1>6. written <= c
  <2>1. CASE written = 0
    BY <2>1
  <2>2. CASE written >= 1
    <3>1. written \in 1 .. written
      BY <2>2
    <3> QED
      BY <1>5, <3>1
  <2> QED
    BY <2>1, <2>2
<1> QED
  BY <1>2, <1>3, <1>4, <1>6

\* With every request answered, the runner's order and the ingress order are the same.
LEMMA CleanNumbers ==
  ASSUME IInv, Clean, runner.step = "closed", NEW id \in Ids
  PROVE  requests[id].sequence = id
<1> USE DEF IInv, AccountsInv, ProxyInv
<1>1. PICK c \in Nat : c = Len(requests) /\ Ids = 1 .. c
  BY CleanIsSmooth
<1>2. PICK top \in Nat : top = sink.next - 1
  BY DEF NumbersInv, NumbersGiven, SinkTyped
<1> DEFINE f == [i \in 1 .. c |-> requests[i].sequence]
<1>3. ASSUME NEW i \in Ids PROVE requests[i].sequence \in 1 .. top
  <2>1. requests[i].sequence \in Nat /\ sink.next \in Nat
    BY RequestIs DEF SinkTyped
  <2>2. requests[i].sequence < sink.next /\ requests[i].sequence # 0
    BY DEF NumbersInv, NumbersGiven, Clean
  <2> QED
    BY <1>2, <2>1, <2>2
<1>4. f \in [1 .. c -> 1 .. top]
  BY <1>1, <1>3
<1>5. ASSUME NEW a \in 1 .. c, NEW b \in 1 .. c, a < b PROVE f[a] < f[b]
  <2>1. a \in Ids /\ b \in Ids /\ requests[a].answered
    BY <1>1 DEF Clean, Faultless
  <2>2. requests[b].sequence > 0
    BY <1>3, <2>1
  <2>3. requests[a].sequence < requests[b].sequence
    BY <1>5, <2>1, <2>2 DEF NumbersInv, NumbersOrdered
  <2> QED
    BY <2>3
<1>6. \A s \in 1 .. top : \E i \in 1 .. c : f[i] = s
  BY <1>1, <1>2 DEF NumbersInv, NumbersUsed
<1>7. f[id] = requests[id].sequence /\ id \in 1 .. c
  BY <1>1
<1> HIDE DEF f
<1>8. \A a, b \in 1 .. c : f[a] = f[b] => a = b
  <2>1. \A a \in 1 .. c : f[a] \in Nat
    BY <1>4
  <2>2. ASSUME NEW a \in 1 .. c, NEW b \in 1 .. c, f[a] = f[b] PROVE ~(a < b)
    BY <1>5, <2>1, <2>2
  <2> QED
    BY <2>2
<1>9. top = c
  <2>1. IsFiniteSet(1 .. c) /\ Cardinality(1 .. c) = c /\ Cardinality(1 .. top) = top
    BY FS_Interval
  <2> QED
    BY <1>4, <1>6, <1>8, <2>1, SameSize
<1> QED
  BY <1>4, <1>5, <1>7, <1>9, IncreasingIsIdentity

\* A capture file that is not short holds every request once, in order.
LEMMA CleanFile ==
  ASSUME IInv, Clean, runner.step = "closed", Len(evidence.file) >= Len(requests)
  PROVE  Len(evidence.file) = Len(requests) /\ \A n \in DOMAIN evidence.file : evidence.file[n] = n
<1> USE DEF IInv, AccountsInv, ProxyInv
<1>1. PICK c \in Nat : c = Len(requests) /\ Ids = 1 .. c
  BY CleanIsSmooth
<1>2. PICK size \in Nat : size = Len(evidence.file) /\ DOMAIN evidence.file = 1 .. size
  BY EvidenceIs
<1> DEFINE f == [n \in 1 .. size |-> evidence.file[n]]
<1>3. f \in [1 .. size -> 1 .. c]
  BY <1>1, <1>2, EvidenceIs
<1>4. ASSUME NEW a \in 1 .. size, NEW b \in 1 .. size, a < b PROVE f[a] < f[b]
  <2>1. evidence.file[a] \in Ids /\ evidence.file[b] \in Ids
    BY <1>2, EvidenceIs
  <2>2. requests[evidence.file[a]].sequence < requests[evidence.file[b]].sequence
    BY <1>2, <1>4 DEF EvidenceInv
  <2>3. evidence.file[a] < evidence.file[b]
    BY <2>1, <2>2, CleanNumbers
  <2> QED
    BY <2>3
<1>5. \A n \in 1 .. size : f[n] = evidence.file[n]
  OBVIOUS
<1> HIDE DEF f
<1>6. \A a, b \in 1 .. size : f[a] = f[b] => a = b
  <2>1. \A a \in 1 .. size : f[a] \in Nat
    BY <1>3
  <2>2. ASSUME NEW a \in 1 .. size, NEW b \in 1 .. size, f[a] = f[b] PROVE ~(a < b)
    BY <1>4, <2>1, <2>2
  <2> QED
    BY <2>2
<1>7. size <= c
  <2>1. /\ IsFiniteSet(1 .. c) /\ Cardinality(1 .. c) = c /\ Cardinality(1 .. size) = size
    BY FS_Interval
  <2>2. f \in Injection(1 .. size, 1 .. c)
    BY <1>3, <1>6 DEF Injection, IsInjective
  <2> QED
    BY <2>1, <2>2, FS_Injection
<1>8. size = c
  BY <1>1, <1>2, <1>7
<1>9. \A n \in 1 .. size : f[n] = n
  BY <1>3, <1>4, <1>8, IncreasingIsIdentity
<1> QED
  BY <1>1, <1>2, <1>5, <1>8, <1>9

LEMMA CleanJoins ==
  ASSUME IInv, Clean, runner.step = "closed", NEW n \in Ids, evidence.file[n] = n
  PROVE  Joins(n)
<1> USE DEF IInv, AccountsInv, ProxyInv
<1>1. Smooth /\ Ids = DOMAIN provisional
  BY CleanIsSmooth
<1>2. PICK slice, before, count : /\ slice = provisional[n].slice /\ before = CountBefore(provisional, n)
                                  /\ count = Cardinality(slice)
  OBVIOUS
<1>3. PICK list \in Seq(Statuses) : list = requests[n].calls
  BY RequestIs DEF Request
<1>4. count = Len(list) /\ slice = before + 1 .. before + count
  BY <1>1, <1>2, <1>3 DEF TiledInv
<1>5. slice \subseteq DOMAIN ledger /\ \A s \in slice : ledger[s].request = n
  BY <1>1, <1>2, ProvisionalIs, SmoothIs DEF TurnsInv, TurnsHoldOwnRecords
<1>6. before \in Nat
  <2>1. n \in Nat /\ \A m \in 1 .. n - 1 : m \in Ids
    BY CleanIsSmooth
  <2>2. \A m \in 1 .. n - 1 : provisional[m].slice \subseteq DOMAIN ledger
    BY <1>1, <2>1, ProvisionalIs
  <2> QED
    BY <1>2, <2>1, <2>2, LedgerFinite, CountBeforeIs
<1>7. count \in Nat /\ DOMAIN list = 1 .. count
  BY <1>4
<1>8. ASSUME NEW k \in 1 .. count
      PROVE  /\ ledger[before + 1 + k - 1].request = n
             /\ Agrees(list[k], ledger[before + 1 + k - 1])
  <2>1. before + 1 + k - 1 \in slice
    BY <1>4, <1>6, <1>7
  <2>2. ledger[before + 1 + k - 1].ok
    BY <1>5, <2>1, CleanIsSmooth
  <2>3. list[k] = "succeeded"
    <3>1. list[k] \in Range(list)
      BY <1>7 DEF Range
    <3> QED
      BY <1>3, <3>1 DEF Clean, Faultless
  <2> QED
    BY <1>5, <2>1, <2>2, <2>3 DEF Agrees
<1>9. /\ provisional[n].outcome = requests[n].outcome /\ provisional[n].request = n
      /\ accounting[n] = [outcome |-> provisional[n].outcome, slice |-> slice,
                          successes |-> Successes(slice)]
  BY <1>1, <1>2, SmoothIs DEF AlignedInv
<1>10. /\ accounting[n].outcome = requests[n].outcome /\ accounting[n].slice = slice
       /\ accounting[n].successes = Successes(slice)
  BY <1>9
<1>11. requests[n].sequence = n
  BY CleanNumbers
<1>12. slice = before + 1 .. before + 1 + count - 1
  BY <1>4, <1>6, <1>7
<1> QED
  BY <1>2, <1>3, <1>4, <1>5, <1>8, <1>9, <1>10, <1>11, <1>12 DEF Joins

LEMMA CleanJoined ==
  ASSUME IInv, Clean, runner.step = "closed", Len(evidence.file) >= Len(requests)
  PROVE  Joined
<1>1. Len(evidence.file) = Len(requests) /\ \A n \in DOMAIN evidence.file : evidence.file[n] = n
  BY CleanFile
<1>2. Smooth /\ Len(requests) = Len(provisional) /\ Ids = 1 .. Len(requests)
  BY CleanIsSmooth
<1>3. DOMAIN evidence.file = Ids
  BY <1>1, <1>2, EvidenceIs DEF IInv, AccountsInv
<1>4. Len(accounting) = Len(provisional)
  BY <1>2 DEF IInv, AccountsInv, AlignedInv
<1> QED
  BY <1>1, <1>2, <1>3, <1>4, CleanJoins, CleanCountsAll DEF Joined

\* The observer has one record for each call of a request, and no other.
LEMMA CleanCalls ==
  ASSUME IInv, Clean
  PROVE  Cardinality(CallsOf(Ids)) = Len(ledger)
<1> USE DEF IInv, ProxyInv
<1>1. PICK written \in Nat : written = Len(ledger) /\ DOMAIN ledger = 1 .. written
  BY LedgerIs
<1> DEFINE f == [n \in DOMAIN ledger |-> <<ledger[n].request, ledger[n].call>>]
<1>2. f \in [DOMAIN ledger -> CallsOf(Ids)]
  <2>1. ASSUME NEW n \in DOMAIN ledger
        PROVE  <<ledger[n].request, ledger[n].call>> \in CallsOf(Ids)
    <3>1. ledger[n].request \in Ids
      BY LedgerIs
    <3>2. ledger[n].call \in DOMAIN requests[ledger[n].request].calls
      BY DEF CallsInv, RecordsOwned
    <3> QED
      BY <3>1, <3>2 DEF CallsOf
  <2> QED
    BY <2>1
<1>3. ASSUME NEW a \in DOMAIN ledger, NEW b \in DOMAIN ledger, f[a] = f[b] PROVE a = b
  <2>1. /\ ledger[a].request = ledger[b].request /\ ledger[a].call = ledger[b].call
        /\ ledger[a].call \in Nat /\ ledger[b].call \in Nat
    BY <1>3, LedgerIs
  <2>2. ~(a < b) /\ ~(b < a)
    BY <2>1 DEF CallsInv, RecordsOrdered
  <2> QED
    BY <1>1, <2>2
<1>4. ASSUME NEW call \in CallsOf(Ids) PROVE \E n \in DOMAIN ledger : f[n] = call
  <2>1. PICK id \in Ids : \E k \in DOMAIN requests[id].calls : call = <<id, k>>
    BY DEF CallsOf
  <2>2. PICK k \in DOMAIN requests[id].calls : call = <<id, k>>
    BY <2>1
  <2>3. requests[id].calls[k] = "succeeded"
    BY DEF Clean, Faultless, Range
  <2>4. PICK n \in DOMAIN ledger : ledger[n].request = id /\ ledger[n].call = k
    BY <2>3 DEF CallsInv, SuccessesRecorded
  <2> QED
    BY <2>2, <2>4
<1>5. IsFiniteSet(DOMAIN ledger) /\ Cardinality(DOMAIN ledger) = written
  <2>1. IsFiniteSet(1 .. written) /\ Cardinality(1 .. written) = written
    BY FS_Interval
  <2> QED
    BY <1>1, <2>1
<1> HIDE DEF f
<1> QED
  BY <1>1, <1>2, <1>3, <1>4, <1>5, SameSize

LEMMA CleanReconciled ==
  ASSUME IInv, Clean, evidence.step = "finalized"
  PROVE  Linked /\ Reconciled
<1> USE DEF IInv, AccountsInv, ProxyInv
<1>1. runner.step = "closed"
  BY DEF EvidenceInv
<1>2. PICK c \in Nat : c = Len(requests) /\ Ids = 1 .. c /\ Len(provisional) = c
  BY <1>1, CleanIsSmooth
<1>3. Smooth /\ \A n \in DOMAIN ledger : ledger[n].ok
  BY <1>1, CleanIsSmooth
<1>4. evidence.observed = Len(ledger)
  BY <1>1, CleanCountsAll DEF EvidenceInv, JoinedAt
<1>5. Linked
  BY <1>4, JoinedIsLinked
<1>6. /\ DOMAIN evidence.rows = Ids /\ Len(evidence.rows) = c
      /\ \A n \in Ids : evidence.rows[n] = FinalRow(n) /\ Joins(n)
  BY <1>2, RowsCount
<1>7. Arrived = Ids
  BY DEF Arrived, Clean
<1>8. Cardinality(Ids) = c
  <2>1. Cardinality(1 .. c) = c
    BY FS_Interval
  <2> QED
    BY <1>2, <2>1
<1>9. ASSUME NEW n \in Ids PROVE evidence.rows[n].outcome = requests[n].outcome
  <2>1. provisional[n].request = n
    BY <1>1, <1>3, CleanIsSmooth, SmoothIs
  <2>2. evidence.file[n] = n
    BY <1>6, <2>1 DEF Joins
  <2>3. FinalRow(n).outcome = requests[evidence.file[n]].outcome
    BY DEF FinalRow
  <2> QED
    BY <1>6, <2>2, <2>3
<1>10. \A outcomes : CountOf(outcomes, requests) = CountOf(outcomes, evidence.rows)
  <2>1. ASSUME NEW outcomes
        PROVE  {n \in Ids : requests[n].outcome \in outcomes} =
               {n \in Ids : evidence.rows[n].outcome \in outcomes}
    BY <1>9
  <2> QED
    BY <1>6, <2>1 DEF CountOf, Ids
<1>11. evidence.completed = Len(ledger)
  BY <1>3 DEF EvidenceInv
<1> QED
  BY <1>3, <1>5, <1>6, <1>7, <1>8, <1>10, <1>11, CleanCalls DEF Reconciled

LEMMA CleanKeeps ==
  ASSUME IInv, CleanWindowPasses, [Next]_vars
  PROVE  CleanWindowPasses'
<1> DEFINE Excused(at) ==
             \/ ~Clean
             \/ at \notin {"acting", "collected"} /\ Len(evidence.file) < Len(requests)
<1>1. CleanWindowPasses <=> (evidence.step = "refused" => Excused(evidence.at))
  BY DEF CleanWindowPasses, Clean, Faultless
<1>2. evidence.step # "acting" => runner.step = "closed"
  BY DEF IInv, AccountsInv, EvidenceInv
<1>3. SUFFICES ASSUME evidence'.step = "refused"
               PROVE  /\ evidence'.file = evidence.file /\ requests' = requests
                      /\ Excused(evidence'.at)
  BY <1>1, ZenonT(40) DEF CleanWindowPasses, Clean, Faultless, Ids, Range
<1>4. CASE RunnerStep
  <2>1. evidence' = evidence
    BY <1>4 DEF RunnerStep, Refuse, Withhold, Send, Answered, GiveUp, Expire, FinishCase
  <2>2. runner.step # "closed"
    BY <1>4 DEF RunnerStep, Refuse, Withhold, Send, Answered, GiveUp, Expire, FinishCase, InCase
  <2> QED
    BY <1>2, <1>3, <2>1, <2>2
<1>5. CASE SupervisorStep
  <2>1. requests' = requests
    BY <1>5 DEF SupervisorStep, Collect, Extract, Finalize, Reconcile, proxyVars
  <2>2. ASSUME evidence' = Refusal
        PROVE  evidence'.file = evidence.file /\ evidence'.at = evidence.step
    BY <2>2 DEF Refusal, IInv, AccountsInv, EvidenceTyped
  <2>3. CASE Collect
    <3>1. evidence' = Refusal
      BY <1>3, <2>3 DEF Collect, Passing, IInv, AccountsInv, EvidenceTyped
    <3>2. ~(calls = {} /\ served = Successes(DOMAIN ledger)) /\ runner.step = "closed"
      BY <1>3, <2>3 DEF Collect, Passing, IInv, AccountsInv, EvidenceTyped
    <3>3. ASSUME Clean PROVE FALSE
      <4>1. calls = {}
        BY <3>2, <3>3, CleanIsSmooth
      <4>2. \A id \in Ids : Range(requests[id].calls) \subseteq {"succeeded", "running"}
        BY <3>3 DEF Clean, Faultless
      <4> QED
        BY <3>2, <4>1, <4>2 DEF IInv, ProxyInv, ServedInv
    <3> QED
      BY <2>1, <2>2, <3>1, <3>3
  <2>4. CASE Extract
    BY <1>3, <2>4 DEF Extract, Passing, IInv, AccountsInv, EvidenceTyped
  <2>5. CASE Finalize
    <3>1. evidence' = Refusal /\ ~Joined
      BY <1>3, <2>5 DEF Finalize, Passing, IInv, AccountsInv, EvidenceTyped
    <3>2. evidence.step = "extracted" /\ runner.step = "closed"
      BY <1>2, <2>5 DEF Finalize
    <3>3. Clean => Len(evidence.file) < Len(requests)
      <4>1. Clean => ~(Len(evidence.file) >= Len(requests))
        BY <3>1, <3>2, CleanJoined
      <4>2. Len(evidence.file) \in Nat
        BY EvidenceIs DEF IInv, AccountsInv
      <4>3. Len(requests) \in Nat
        BY DEF IInv, ProxyInv, RequestsTyped
      <4> QED
        BY <4>1, <4>2, <4>3
    <3> QED
      BY <2>1, <2>2, <3>1, <3>2, <3>3
  <2>6. CASE Reconcile
    <3>1. evidence' = Refusal /\ ~(Linked /\ Reconciled) /\ evidence.step = "finalized"
      BY <1>3, <2>6 DEF Reconcile, Passing, IInv, AccountsInv, EvidenceTyped
    <3>2. ~Clean
      BY <3>1, CleanReconciled
    <3> QED
      BY <2>1, <2>2, <3>1, <3>2
  <2> QED
    BY <1>5, <2>3, <2>4, <2>5, <2>6 DEF SupervisorStep
<1>6. CASE Up /\ ((\E id \in Ids : HandlerStep(id)) \/ (\E call \in calls : ObserverStep(call)))
  <2>1. evidence' = evidence
    BY <1>6 DEF HandlerStep, ObserverStep, Arrive, Project, StartCall, End, RefuseCapture, Capture,
       Observe, LoseRecord
  <2>2. evidence.step # "refused"
    BY <1>6 DEF Up, Verdicts
  <2> QED
    BY <1>3, <2>1, <2>2
<1>7. CASE UNCHANGED vars
  BY <1>1, <1>3, <1>7 DEF vars, proxyVars
<1> QED
  BY <1>4, <1>5, <1>6, <1>7 DEF Next

\* A window is refused only for a reason: a request that was not sent, answered or captured,
\* a call that did not succeed, or a capture that was written too late to be in the file.
THEOREM CleanWindowsPass == Spec => []CleanWindowPasses
<1>1. Init => CleanWindowPasses
  BY DEF Init, CleanWindowPasses
<1>2. IInv /\ CleanWindowPasses /\ [Next]_vars => CleanWindowPasses'
  BY CleanKeeps
<1> QED
  BY <1>1, <1>2, AlwaysIInv, PTL DEF Spec
==============================================================================
