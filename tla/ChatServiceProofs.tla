-------------------------- MODULE ChatServiceProofs --------------------------
(***************************************************************************)
(* Theorems about ChatService for every set of tools, calls, ids and       *)
(* results and every bound.                                                *)
(*                                                                         *)
(* The gates read three summaries of the receipts: pending_verification,   *)
(* open_failures and epoch.  What the properties promise is about the      *)
(* receipts themselves.  Summaries says what each summary guarantees, and  *)
(* record is the only step that has to re-establish it.                    *)
(***************************************************************************)
EXTENDS ChatService, FiniteSetTheorems, TLAPS

\* Each failed check is listed as open until the same verifier passes.
FailuresListed ==
  \A f \in DOMAIN receipts : IsCheck(receipts[f]) /\ ~Passed(receipts[f]) =>
    \/ ToolOf[receipts[f].call] \in open_failures
    \/ \E v \in DOMAIN receipts : /\ v > f /\ Passed(receipts[v])
                                  /\ ToolOf[receipts[v].call] = ToolOf[receipts[f].call]

\* With no verification pending, some verifier ran after each successful mutation.
ChangesChecked ==
  ~pending_verification =>
    \A m \in DOMAIN receipts : Changed(receipts[m]) =>
      \E v \in DOMAIN receipts : v > m /\ IsCheck(receipts[v])

\* A receipt of an earlier epoch is followed, or was, a successful mutation.
EpochsSeparated ==
  \A i \in DOMAIN receipts :
    /\ receipts[i].epoch <= epoch
    /\ receipts[i].epoch < epoch => \E m \in i..Len(receipts) : Changed(receipts[m])

Summaries == FailuresListed /\ ChangesChecked /\ EpochsSeparated

\* Nothing has been answered while a request is being served.
AnswerOnlyWhenIdle == stage # "idle" => outcome = NoOutcome

AnswerInv == AnswerOnlyWhenIdle /\ TerminalFollowsVerification /\ NoRepeatWithoutChange

IInv == TypeOK /\ Summaries /\ AnswerInv

-----------------------------------------------------------------------------
LEMMA BatchIsSequence ==
  ASSUME NEW batch \in Batches
  PROVE  batch \in Seq(Proposal)
BY BoundsAssumption DEF Batches

LEMMA StatusType == \A result \in Results : ReceiptStatus(result) \in Statuses
BY DEF ReceiptStatus, Statuses

\* record keeps the harness well typed.
LEMMA RecordTyped ==
  ASSUME HarnessTypeOK, NEW call \in Calls, NEW status \in Statuses, Record(call, status)
  PROVE  HarnessTypeOK'
<1> DEFINE receipt == [call |-> call, status |-> status, epoch |-> epoch]
<1>1. receipt \in Receipt
  BY DEF HarnessTypeOK, Receipt
<1>2. receipts' \in Seq(Receipt)
  BY <1>1 DEF HarnessTypeOK, Record
<1>3. ToolOf[call] \in Tools
  BY CallsAssumption
<1>4. open_failures' \subseteq Tools
  BY <1>3 DEF HarnessTypeOK, Record
<1>5. epoch' \in Nat /\ investigations' \in Nat
  BY DEF HarnessTypeOK, Record
<1>6. pending_verification' \in BOOLEAN
  BY Zenon DEF HarnessTypeOK, Record, Changed, Passed
<1> QED
  BY <1>2, <1>4, <1>5, <1>6 DEF HarnessTypeOK, Record

\* record re-establishes what the summaries say of the receipts.
LEMMA RecordSummarises ==
  ASSUME HarnessTypeOK, Summaries,
         NEW call \in Calls, NEW status \in Statuses, Record(call, status)
  PROVE  Summaries'
<1> DEFINE receipt == [call |-> call, status |-> status, epoch |-> epoch]
           n == Len(receipts) + 1
<1>1. /\ receipts \in Seq(Receipt) /\ epoch \in Nat
      /\ receipts' = Append(receipts, receipt)
  BY DEF HarnessTypeOK, Record
<1>2. /\ DOMAIN receipts = 1..Len(receipts) /\ Len(receipts) \in Nat
      /\ DOMAIN receipts' = 1..n /\ Len(receipts') = n
      /\ \A i \in DOMAIN receipts : receipts'[i] = receipts[i]
      /\ receipts'[n] = receipt
  BY <1>1
<1>3. FailuresListed'
  <2> SUFFICES ASSUME NEW f \in DOMAIN receipts',
                      IsCheck(receipts'[f]), ~Passed(receipts'[f])
               PROVE  \/ ToolOf[receipts'[f].call] \in open_failures'
                      \/ \E v \in DOMAIN receipts' :
                           /\ v > f /\ Passed(receipts'[v])
                           /\ ToolOf[receipts'[v].call] = ToolOf[receipts'[f].call]
    BY DEF FailuresListed, IsCheck, Passed
  <2>1. CASE f = n
    BY <1>2, <2>1 DEF Record, IsCheck, Passed, Statuses
  <2>2. CASE f \in DOMAIN receipts
    <3>1. CASE \E v \in DOMAIN receipts : /\ v > f /\ Passed(receipts[v])
                                  /\ ToolOf[receipts[v].call] = ToolOf[receipts[f].call]
      BY <1>2, <2>2, <3>1
    <3>2. CASE ToolOf[receipts[f].call] \in open_failures
      <4>1. CASE ToolOf[receipts[f].call] \in open_failures'
        BY <1>2, <2>2, <4>1
      <4>2. CASE ToolOf[receipts[f].call] \notin open_failures'
        \* It was closed: this call is the same verifier, and it passed.
        <5>1. ToolOf[call] = ToolOf[receipts[f].call] /\ status # "failure"
          BY <3>2, <4>2, <1>2, <2>2 DEF Record, IsCheck
        <5>2. Passed(receipts'[n]) /\ ToolOf[receipts'[n].call] = ToolOf[receipts'[f].call]
          BY <1>2, <2>2, <5>1 DEF Passed, Statuses
        <5> QED
          BY <1>2, <2>2, <5>2
      <4> QED BY <4>1, <4>2
    <3> QED BY <3>1, <3>2, <1>2, <2>2 DEF Summaries, FailuresListed
  <2> QED BY <1>2, <2>1, <2>2
<1>4. ChangesChecked'
  <2> SUFFICES ASSUME ~pending_verification', NEW m \in DOMAIN receipts', Changed(receipts'[m])
               PROVE  \E v \in DOMAIN receipts' : v > m /\ IsCheck(receipts'[v])
    BY DEF ChangesChecked, Changed, IsCheck, Passed
  <2>1. ~Changed(receipt)
    BY DEF Record
  <2>2. m \in DOMAIN receipts
    BY <1>2, <2>1
  <2>3. CASE pending_verification
    <3>1. pending_verification' = (Changed(receipt)
             \/ (pending_verification /\ ToolOf[call] \notin Verification))
      BY Zenon DEF Record
    <3>2. ToolOf[call] \in Verification
      BY Zenon, <2>3, <3>1
    <3>3. IsCheck(receipts'[n])
      BY <1>2, <3>2 DEF IsCheck
    <3> QED BY <1>2, <2>2, <3>3
  <2>4. CASE ~pending_verification
    <3>1. PICK v \in DOMAIN receipts : v > m /\ IsCheck(receipts[v])
      BY <1>2, <2>2, <2>4 DEF Summaries, ChangesChecked
    <3> QED BY <1>2, <3>1
  <2> QED BY <2>3, <2>4
<1>5. EpochsSeparated'
  <2>1. epoch' = (IF Changed(receipt) THEN epoch + 1 ELSE epoch)
    BY DEF Record
  <2> SUFFICES ASSUME NEW i \in DOMAIN receipts'
               PROVE  /\ receipts'[i].epoch <= epoch'
                      /\ receipts'[i].epoch < epoch' =>
                           \E m \in i..Len(receipts') : Changed(receipts'[m])
    BY DEF EpochsSeparated, Changed, Passed
  <2>2. CASE i = n
    BY <1>1, <1>2, <2>1, <2>2
  <2>3. CASE i \in DOMAIN receipts
    <3>1. receipts[i].epoch \in Nat
      <4>1. receipts[i] \in Receipt
        BY <1>1, <2>3
      <4> QED BY <4>1 DEF Receipt
    <3>2. receipts[i].epoch <= epoch
      BY <2>3 DEF Summaries, EpochsSeparated
    <3>3. CASE Changed(receipt)
      BY <1>1, <1>2, <2>1, <2>3, <3>1, <3>2, <3>3
    <3>4. CASE ~Changed(receipt)
      <4> SUFFICES ASSUME receipts[i].epoch < epoch
                   PROVE  \E m \in i..n : Changed(receipts'[m])
        BY <1>2, <2>1, <2>3, <3>2, <3>4
      <4>1. PICK m \in i..Len(receipts) : Changed(receipts[m])
        BY <2>3 DEF Summaries, EpochsSeparated
      <4> QED BY <1>2, <2>3, <4>1
    <3> QED BY <3>3, <3>4
  <2> QED BY <1>2, <2>2, <2>3
<1> QED
  BY <1>3, <1>4, <1>5 DEF Summaries

\* With nothing open or pending and a good last receipt, the receipts are verified.
LEMMA SettledIsVerified ==
  ASSUME receipts \in Seq(Receipt), Summaries, Settled,
         receipts # <<>> => Passed(receipts[Len(receipts)])
  PROVE  Verified(receipts)
<1>1. \A f \in DOMAIN receipts : IsCheck(receipts[f]) /\ ~Passed(receipts[f]) =>
        \E v \in DOMAIN receipts : v > f /\ ToolOf[receipts[v].call] = ToolOf[receipts[f].call]
                                     /\ Passed(receipts[v])
  BY DEF Summaries, FailuresListed, Settled
<1>2. ASSUME NEW m \in DOMAIN receipts, Changed(receipts[m])
      PROVE  \E v \in DOMAIN receipts : v > m /\ IsCheck(receipts[v]) /\ Passed(receipts[v])
  <2>1. PICK c \in DOMAIN receipts : c > m /\ IsCheck(receipts[c])
    BY <1>2 DEF Summaries, ChangesChecked, Settled
  <2>2. CASE Passed(receipts[c])
    BY <2>1, <2>2
  <2>3. CASE ~Passed(receipts[c])
    <3>1. PICK v \in DOMAIN receipts : /\ v > c /\ Passed(receipts[v])
                                       /\ ToolOf[receipts[v].call] = ToolOf[receipts[c].call]
      BY <1>1, <2>1, <2>3
    <3> QED BY <2>1, <3>1 DEF IsCheck
  <2> QED BY <2>2, <2>3
<1> QED BY <1>1, <1>2 DEF Verified

-----------------------------------------------------------------------------
LEMMA EmptyReceipts == <<>> \in Seq(Receipt)
OBVIOUS

LEMMA InitIInv == Init => IInv
<1> SUFFICES ASSUME Init PROVE IInv
  OBVIOUS
<1>1. NoRequest \in Request
  BY DEF NoRequest, Request, Formats
<1>2. TypeOK
  <2>1. <<>> \in Seq(Message) /\ <<>> \in Seq(Proposal)
        /\ <<>> \in Seq([call: Calls, status: Statuses])
    OBVIOUS
  <2>2. HarnessTypeOK
    BY EmptyReceipts DEF Init, HarnessTypeOK
  <2>3. intervention_counts \in Nat \X Nat \X Nat
    BY DEF Init
  <2>4. /\ stage \in Stages /\ request \in Request
        /\ transcript \in Seq(Message) /\ awaiting \in Seq(Proposal)
        /\ executed \in Seq([call: Calls, status: Statuses]) /\ faults \in Nat
    BY <1>1, <2>1 DEF Init, Stages
  <2>5. position \in Nat \ {0} /\ upstream_calls \in Nat /\ internal_retries \in Nat
    BY DEF Init
  <2>8. degraded \in BOOLEAN
    BY DEF Init
  <2>9. phase \in Phases
    BY DEF Init, Phases
  <2>7. unpaired \subseteq [id: Ids, call: Calls]
    BY Zenon DEF Init
  <2>6. latest \in {<<>>} \cup (Tools \X Results)
    BY Zenon DEF Init
  <2> QED
    BY <2>2, <2>3, <2>4, <2>5, <2>6, <2>7, <2>8, <2>9 DEF TypeOK
<1>3. Summaries
  BY DEF Init, Summaries, FailuresListed, ChangesChecked, EpochsSeparated
<1>4. AnswerInv
  BY DEF Init, AnswerInv, AnswerOnlyWhenIdle, TerminalFollowsVerification,
         NoRepeatWithoutChange, HarnessAnswered, HarnessReleasedCalls, NoOutcome
<1> QED BY <1>2, <1>3, <1>4 DEF IInv

\* Dropping a request's state leaves a fresh, summarised harness.
LEMMA DroppedIsFresh ==
  ASSUME DropRequestState
  PROVE  /\ HarnessTypeOK' /\ Summaries'
         /\ position' = 1 /\ unpaired' = {} /\ degraded' = FALSE /\ latest' = <<>>
         /\ upstream_calls' = 0 /\ internal_retries' = 0 /\ phase' = "none"
         /\ intervention_counts' = <<0, 0, 0>>
<1>1. HarnessTypeOK'
  BY EmptyReceipts DEF DropRequestState, FreshHarness, HarnessTypeOK
<1>2. Summaries'
  BY DEF DropRequestState, FreshHarness, Summaries, FailuresListed, ChangesChecked,
         EpochsSeparated
<1> QED BY <1>1, <1>2 DEF DropRequestState

LEMMA FreshIsTyped ==
  /\ <<0, 0, 0>> \in Nat \X Nat \X Nat
  /\ {} \subseteq [id: Ids, call: Calls]
  /\ "none" \in Phases
  /\ <<>> \in {<<>>} \cup (Tools \X Results)
BY DEF Phases

\* The summaries depend on the ledger variables only.
LEMMA SummariesKept ==
  ASSUME Summaries, UNCHANGED ledgerVars
  PROVE  Summaries'
BY DEF Summaries, ledgerVars, FailuresListed, ChangesChecked, EpochsSeparated,
       Changed, Passed, IsCheck

\* A step that answers nothing, or fails, or answers off the harness path.
LEMMA NothingAnswered ==
  ASSUME \/ outcome' = NoOutcome
         \/ outcome' = Failed /\ stage' = "idle"
         \/ \E during, content : outcome' = ReleasedTerminal("off", content, during) /\ stage' = "idle"
         \/ \E batch : outcome' = ReleasedCalls("off", batch) /\ stage' = "idle"
  PROVE  AnswerInv'
BY DEF AnswerInv, AnswerOnlyWhenIdle, TerminalFollowsVerification, NoRepeatWithoutChange,
       HarnessAnswered, HarnessReleasedCalls, NoOutcome, Failed, ReleasedTerminal, ReleasedCalls

\* A proposal the model may make extends the conversation with typed messages.
LEMMA BatchAppended ==
  ASSUME TypeOK, NEW batch \in Batches,
         transcript' = Append(transcript, [role |-> "assistant", calls |-> batch]),
         awaiting' = awaiting \o batch
  PROVE  transcript' \in Seq(Message) /\ awaiting' \in Seq(Proposal)
<1>1. batch \in Seq(Proposal)
  BY BatchIsSequence
<1>2. [role |-> "assistant", calls |-> batch] \in Message
  BY <1>1 DEF Message, AssistantMessage
<1> QED BY <1>1, <1>2 DEF TypeOK

\* A harness left alone, or only judged, keeps its type and its summaries.
LEMMA HarnessKept ==
  ASSUME HarnessTypeOK, Summaries, UNCHANGED harnessVars
  PROVE  HarnessTypeOK' /\ Summaries'
<1>1. UNCHANGED ledgerVars
  BY DEF harnessVars
<1> QED BY <1>1, SummariesKept DEF HarnessTypeOK, harnessVars, ledgerVars, verdictVars

LEMMA JudgedIsTyped ==
  ASSUME HarnessTypeOK, Summaries, NEW batch \in Batches, JudgeBatch(batch)
  PROVE  HarnessTypeOK' /\ Summaries'
<1>1. IsFiniteSet(DOMAIN batch)
  <2>1. PICK n \in 1..MaxBatch : DOMAIN batch = 1..n
    BY DEF Batches
  <2> QED BY <2>1, FS_Interval, BoundsAssumption
<1>2. \A verdict : Cardinality(With(batch, verdict)) \in Nat
  <2> SUFFICES ASSUME NEW verdict PROVE Cardinality(With(batch, verdict)) \in Nat
    OBVIOUS
  <2>1. With(batch, verdict) \subseteq DOMAIN batch
    BY DEF With
  <2> QED BY <1>1, <2>1, FS_Subset, FS_CardinalityType
<1>3. UNCHANGED ledgerVars /\ UNCHANGED terminal_corrections
  BY DEF JudgeBatch
<1>4. blocked_duplicates' \in Nat /\ blocked_stalls' \in Nat
  BY <1>2 DEF JudgeBatch, HarnessTypeOK
<1>5. last_action_blocked' \in BOOLEAN /\ force_finalize' \in BOOLEAN
  BY Zenon DEF JudgeBatch, HarnessTypeOK
<1> QED BY <1>3, <1>4, <1>5, SummariesKept DEF HarnessTypeOK, ledgerVars

-----------------------------------------------------------------------------
LEMMA ClientExecutesIInv ==
  ASSUME IInv, NEW i \in DOMAIN awaiting, NEW result \in Results, ClientExecutes(i, result)
  PROVE  IInv'
<1>0. awaiting \in Seq(Proposal) /\ awaiting[i].call # Invalid /\ awaiting' = RemoveAt(awaiting, i)
  BY DEF IInv, TypeOK, ClientExecutes
<1>1. awaiting[i].call \in Calls /\ awaiting[i].id \in Ids
  <2>1. awaiting[i] \in Proposal
    BY <1>0
  <2> QED BY <1>0, <2>1 DEF Proposal
<1>2. [role |-> "tool", id |-> awaiting[i].id, result |-> result] \in Message
  BY <1>1 DEF Message, ToolMessage
<1>3. transcript' \in Seq(Message)
  BY <1>2 DEF IInv, TypeOK, ClientExecutes
<1>4. [call |-> awaiting[i].call, status |-> ReceiptStatus(result)]
        \in [call: Calls, status: Statuses]
  BY <1>1, StatusType
<1>5. executed' \in Seq([call: Calls, status: Statuses])
  BY <1>4 DEF IInv, TypeOK, ClientExecutes
<1>6. awaiting' \in Seq(Proposal)
  BY <1>0 DEF RemoveAt
<1>7. NoRequest \in Request
  BY DEF NoRequest, Request, Formats
<1>8. AnswerInv'
  BY NothingAnswered DEF ClientExecutes
<1> QED
  BY <1>3, <1>5, <1>6, <1>7, <1>8, DroppedIsFresh, FreshIsTyped
     DEF ClientExecutes, IInv, TypeOK

LEMMA ClientDamagesIInv ==
  ASSUME IInv, ClientDamagesTranscript
  PROVE  IInv'
<1>1. PICK damaged \in Seq(Message) : ClientDamages(damaged)
  <2>1. CASE ClientDamages(Tail(transcript))
    <3>1. transcript \in Seq(Message) /\ transcript # <<>>
      BY <2>1 DEF IInv, TypeOK, ClientDamages
    <3>2. Tail(transcript) \in Seq(Message)
      BY <3>1
    <3> QED BY Zenon, <2>1, <3>2
  <2>2. ASSUME NEW i \in DOMAIN transcript, ClientDamages(Append(transcript, transcript[i]))
        PROVE  \E damaged \in Seq(Message) : ClientDamages(damaged)
    <3>1. transcript[i] \in Message /\ transcript \in Seq(Message)
      BY DEF IInv, TypeOK
    <3>2. Append(transcript, transcript[i]) \in Seq(Message)
      BY <3>1
    <3> QED BY <2>2, <3>2
  <2> QED BY <2>1, <2>2 DEF ClientDamagesTranscript
<1>2. NoRequest \in Request
  BY DEF NoRequest, Request, Formats
<1>3. AnswerInv'
  BY <1>1, NothingAnswered DEF ClientDamages
<1> QED
  BY <1>1, <1>2, <1>3, DroppedIsFresh, FreshIsTyped DEF ClientDamages, IInv, TypeOK

LEMMA ClientSendsIInv ==
  ASSUME IInv, NEW req \in Requests, ClientSends(req)
  PROVE  IInv'
<1>1. req \in Request
  BY RequestsAssumption
<1>2. AnswerInv'
  BY NothingAnswered DEF ClientSends
<1>3. stage' \in Stages
  BY DEF ClientSends, Stages
<1> QED
  BY <1>1, <1>2, <1>3, DroppedIsFresh, FreshIsTyped DEF ClientSends, IInv, TypeOK, clientVars

-----------------------------------------------------------------------------
\* The variables of the client and of the rebuilt transcript keep their types.
LEMMA KeptTyped ==
  ASSUME TypeOK
  PROVE  /\ UNCHANGED clientVars => /\ transcript' \in Seq(Message)
                                    /\ awaiting' \in Seq(Proposal)
                                    /\ executed' \in Seq([call: Calls, status: Statuses])
                                    /\ faults' \in Nat
         /\ UNCHANGED rebuildVars => /\ position' \in Nat \ {0}
                                     /\ unpaired' \subseteq [id: Ids, call: Calls]
                                     /\ degraded' \in BOOLEAN
                                     /\ latest' \in {<<>>} \cup (Tools \X Results)
         /\ UNCHANGED loopVars => /\ upstream_calls' \in Nat
                                  /\ internal_retries' \in Nat
                                  /\ phase' \in Phases
BY DEF TypeOK, clientVars, rebuildVars, loopVars

LEMMA ReconstructCallsIInv ==
  ASSUME IInv, ReconstructMessage, ReconstructCalls
  PROVE  IInv'
<1> DEFINE calls == transcript[position].calls
           fresh == {i \in DOMAIN calls :
                       /\ calls[i].call # Invalid
                       /\ \A p \in unpaired : p.id # calls[i].id
                       /\ \A j \in 1..(i - 1) : calls[j].id = calls[i].id => calls[j].call = Invalid}
<1>1. transcript[position] \in AssistantMessage
  BY DEF IInv, TypeOK, ReconstructMessage, ReconstructCalls, Message, ToolMessage
<1>2. calls \in Seq(Proposal)
  BY <1>1 DEF AssistantMessage
<1>3. \A i \in fresh : calls[i] \in [id: Ids, call: Calls]
  <2> SUFFICES ASSUME NEW i \in fresh PROVE calls[i] \in [id: Ids, call: Calls]
    OBVIOUS
  <2>1. calls[i] \in Proposal /\ calls[i].call # Invalid
    BY <1>2
  <2> QED BY <2>1 DEF Proposal
<1>4. unpaired' = unpaired \cup {calls[i] : i \in fresh}
  BY DEF ReconstructCalls
<1>5. unpaired' \subseteq [id: Ids, call: Calls]
  BY <1>3, <1>4 DEF IInv, TypeOK
<1>6. degraded' \in BOOLEAN
  BY Zenon DEF ReconstructCalls, IInv, TypeOK
<1>7. HarnessTypeOK' /\ Summaries'
  BY HarnessKept DEF ReconstructCalls, IInv, TypeOK
<1>8. AnswerInv'
  BY NothingAnswered DEF IInv, AnswerInv, AnswerOnlyWhenIdle, ReconstructMessage
<1>9. position' \in Nat \ {0}
  BY DEF IInv, TypeOK, ReconstructMessage
<1>10. UNCHANGED <<stage, request, clientVars, loopVars, intervention_counts, outcome, latest>>
  BY DEF ReconstructMessage, ReconstructCalls
<1> QED
  BY <1>5, <1>6, <1>7, <1>8, <1>9, <1>10, KeptTyped DEF IInv, TypeOK

LEMMA ReconstructResultIInv ==
  ASSUME IInv, ReconstructMessage, ReconstructResult
  PROVE  IInv'
<1>1. transcript[position] \in ToolMessage
  BY DEF IInv, TypeOK, ReconstructMessage, ReconstructResult, Message, AssistantMessage
<1>2. transcript[position].result \in Results
  BY <1>1 DEF ToolMessage
<1>3. AnswerInv'
  BY NothingAnswered DEF IInv, AnswerInv, AnswerOnlyWhenIdle, ReconstructMessage
<1>4. position' \in Nat \ {0}
  BY DEF IInv, TypeOK, ReconstructMessage
<1>5. UNCHANGED <<stage, request, clientVars, loopVars, intervention_counts, outcome>>
  BY DEF ReconstructMessage
<1>6. /\ unpaired' \subseteq [id: Ids, call: Calls] /\ degraded' \in BOOLEAN
      /\ latest' \in {<<>>} \cup (Tools \X Results)
      /\ HarnessTypeOK' /\ Summaries'
  <2>1. ASSUME NEW p \in unpaired, unpaired' = unpaired \ {p}, UNCHANGED degraded,
               Record(p.call, ReceiptStatus(transcript[position].result)),
               latest' = <<ToolOf[p.call], transcript[position].result>>
        PROVE  /\ unpaired' \subseteq [id: Ids, call: Calls] /\ degraded' \in BOOLEAN
               /\ latest' \in {<<>>} \cup (Tools \X Results)
               /\ HarnessTypeOK' /\ Summaries'
    <3>1. p.call \in Calls /\ ToolOf[p.call] \in Tools
      BY CallsAssumption DEF IInv, TypeOK
    <3>2. HarnessTypeOK' /\ Summaries'
      BY <1>2, <2>1, <3>1, StatusType, RecordTyped, RecordSummarises DEF IInv, TypeOK
    <3>3. latest' \in Tools \X Results
      BY <1>2, <2>1, <3>1
    <3> QED BY <2>1, <3>2, <3>3 DEF IInv, TypeOK
  <2>2. CASE degraded' = TRUE /\ UNCHANGED <<harnessVars, unpaired, latest>>
    BY <2>2, HarnessKept DEF IInv, TypeOK
  <2> QED BY <2>1, <2>2 DEF ReconstructResult
<1> QED
  BY <1>3, <1>4, <1>5, <1>6, KeptTyped DEF IInv, TypeOK

LEMMA ReconstructMessageIInv == IInv /\ ReconstructMessage => IInv'
BY ReconstructCallsIInv, ReconstructResultIInv DEF ReconstructMessage

-----------------------------------------------------------------------------
\* What one attempt leaves typed, whatever it is answered with.
LEMMA AttemptTyped ==
  ASSUME TypeOK, Attempt
  PROVE  /\ upstream_calls' \in Nat /\ phase' \in Phases /\ request' \in Request
         /\ position' \in Nat \ {0} /\ unpaired' \subseteq [id: Ids, call: Calls]
         /\ degraded' \in BOOLEAN /\ latest' \in {<<>>} \cup (Tools \X Results)
         /\ AttemptPhase \in Phases
<1>1. AttemptPhase \in Phases
  BY DEF AttemptPhase, TypeOK, Phases
<1> QED BY <1>1, KeptTyped DEF Attempt, TypeOK

\* The snapshot taken of a well-typed harness is well typed.
LEMMA SnapshotTyped ==
  ASSUME HarnessTypeOK', Snapshot
  PROVE  intervention_counts' \in Nat \X Nat \X Nat
BY DEF HarnessTypeOK, Snapshot

LEMMA CorrectOrGiveUpIInv ==
  ASSUME IInv, Attempt, CorrectOrGiveUp
  PROVE  IInv'
<1>1. /\ UNCHANGED <<ledgerVars, verdictVars, clientVars>>
      /\ outcome = NoOutcome
  BY DEF CorrectOrGiveUp, Attempt, IInv, AnswerInv, AnswerOnlyWhenIdle
<1>2. Summaries'
  BY <1>1, SummariesKept DEF IInv
<1>3. CASE /\ terminal_corrections' = terminal_corrections + 1
           /\ Snapshot /\ Continue
  <2>1. HarnessTypeOK'
    BY <1>1, <1>3 DEF IInv, TypeOK, HarnessTypeOK, ledgerVars, verdictVars
  <2>2. AnswerInv'
    BY <1>1, <1>3, NothingAnswered DEF Continue
  <2>3. internal_retries' \in Nat /\ stage' \in Stages
    BY <1>3 DEF Continue, IInv, TypeOK, Stages
  <2> QED
    BY <1>1, <1>2, <1>3, <2>1, <2>2, <2>3, AttemptTyped, SnapshotTyped, KeptTyped
       DEF IInv, TypeOK
<1>4. CASE /\ Return(Failed)
           /\ UNCHANGED <<terminal_corrections, internal_retries, intervention_counts>>
  <2>1. HarnessTypeOK'
    BY <1>1, <1>4 DEF IInv, TypeOK, HarnessTypeOK, ledgerVars, verdictVars
  <2>2. AnswerInv' /\ stage' \in Stages
    BY <1>4, NothingAnswered DEF Return, Stages
  <2> QED
    BY <1>1, <1>2, <1>4, <2>1, <2>2, AttemptTyped, KeptTyped DEF IInv, TypeOK
<1> QED BY <1>3, <1>4 DEF CorrectOrGiveUp

LEMMA UpstreamFailsIInv == IInv /\ UpstreamFails => IInv'
<1> SUFFICES ASSUME IInv, UpstreamFails PROVE IInv'
  OBVIOUS
<1>1. HarnessTypeOK' /\ Summaries'
  BY HarnessKept DEF IInv, TypeOK, UpstreamFails
<1>2. AnswerInv' /\ stage' \in Stages
  BY NothingAnswered DEF UpstreamFails, Return, Stages
<1> QED BY <1>1, <1>2, AttemptTyped, KeptTyped DEF UpstreamFails, IInv, TypeOK

LEMMA ReleaseCallsIInv ==
  ASSUME IInv, NEW batch \in Batches, ReleaseCalls(batch)
  PROVE  IInv'
<1>1. HarnessTypeOK' /\ Summaries'
  BY JudgedIsTyped DEF IInv, TypeOK, ReleaseCalls
<1>2. /\ transcript' \in Seq(Message) /\ awaiting' \in Seq(Proposal)
      /\ UNCHANGED <<executed, faults, internal_retries>>
  BY BatchAppended DEF IInv, ReleaseCalls
<1>3. outcome' = ReleasedCalls("harness", batch) /\ stage' = "idle"
  BY DEF ReleaseCalls, Return
<1>4. UNCHANGED ledgerVars
  BY DEF ReleaseCalls, JudgeBatch
<1>5. ASSUME NEW k \in DOMAIN batch, NEW i \in DOMAIN receipts,
             receipts[i].call = batch[k].call
      PROVE  \E m \in i..Len(receipts) : Changed(receipts[m])
  <2>1. Verdict(batch[k].call) = "allowed"
    BY DEF ReleaseCalls, Allowed, With
  <2>2. ~Duplicate(batch[k].call)
    BY <2>1 DEF Verdict
  <2>3. receipts[i].epoch # epoch
    BY <1>5, <2>2 DEF Duplicate, Priors
  <2>4. receipts[i].epoch <= epoch /\ receipts[i].epoch \in Nat /\ epoch \in Nat
    <3>1. receipts[i] \in Receipt
      BY DEF IInv, TypeOK, HarnessTypeOK
    <3> QED BY <3>1 DEF IInv, Summaries, EpochsSeparated, TypeOK, HarnessTypeOK, Receipt
  <2> QED BY <2>3, <2>4 DEF IInv, Summaries, EpochsSeparated
<1>6. AnswerInv'
  BY <1>3, <1>4, <1>5
     DEF AnswerInv, AnswerOnlyWhenIdle, TerminalFollowsVerification, NoRepeatWithoutChange,
         HarnessAnswered, HarnessReleasedCalls, ReleasedCalls, ledgerVars, Changed, Passed
<1>7. intervention_counts' \in Nat \X Nat \X Nat
  BY <1>1, SnapshotTyped DEF ReleaseCalls
<1> QED
  BY <1>1, <1>2, <1>3, <1>6, <1>7, AttemptTyped DEF ReleaseCalls, IInv, TypeOK, Stages

LEMMA WithholdBatchIInv ==
  ASSUME IInv, NEW batch \in Batches, WithholdBatch(batch)
  PROVE  IInv'
<1>1. HarnessTypeOK' /\ Summaries'
  BY JudgedIsTyped DEF IInv, TypeOK, WithholdBatch
<1>2. intervention_counts' \in Nat \X Nat \X Nat
  BY <1>1, SnapshotTyped DEF WithholdBatch
<1>3. outcome = NoOutcome
  BY DEF WithholdBatch, Attempt, IInv, AnswerInv, AnswerOnlyWhenIdle
<1>4. \/ Continue
      \/ Return(Failed) /\ UNCHANGED internal_retries
  BY DEF WithholdBatch
<1>5. AnswerInv' /\ stage' \in Stages /\ internal_retries' \in Nat
  BY <1>3, <1>4, NothingAnswered DEF Continue, Return, Stages, IInv, TypeOK
<1> QED
  BY <1>1, <1>2, <1>5, AttemptTyped, KeptTyped DEF WithholdBatch, IInv, TypeOK

LEMMA AcceptTerminalIInv ==
  ASSUME IInv, NEW content \in Content, AcceptTerminal(content)
  PROVE  IInv'
<1>1. HarnessTypeOK' /\ Summaries'
  BY HarnessKept DEF IInv, TypeOK, AcceptTerminal
<1>2. Settled /\ (receipts # <<>> => Passed(receipts[Len(receipts)]))
  <2>1. ~PolicyIssue(RequireReceipt)
    BY DEF AcceptTerminal
  <2>2. receipts # <<>> => receipts[Len(receipts)] \in Receipt
    BY DEF IInv, TypeOK, HarnessTypeOK
  <2> QED BY <2>1, <2>2 DEF PolicyIssue, Settled, Passed, Receipt, Statuses
<1>3. Verified(receipts)
  BY <1>2, SettledIsVerified DEF IInv, TypeOK, HarnessTypeOK
<1>4. UNCHANGED receipts
  BY DEF AcceptTerminal, harnessVars, ledgerVars
<1>5. outcome' = ReleasedTerminal("harness", content, AttemptPhase) /\ stage' = "idle"
  BY DEF AcceptTerminal, Return
<1>6. Verified(receipts)'
  BY <1>3, <1>4 DEF Verified, Changed, IsCheck, Passed
<1>7. AnswerInv'
  BY <1>5, <1>6 DEF AnswerInv, AnswerOnlyWhenIdle, TerminalFollowsVerification,
         NoRepeatWithoutChange, HarnessAnswered, HarnessReleasedCalls, ReleasedTerminal
<1> QED
  BY <1>1, <1>5, <1>7, AttemptTyped, KeptTyped DEF AcceptTerminal, IInv, TypeOK, Stages

LEMMA ProjectIInv == IInv /\ Project => IInv'
<1> SUFFICES ASSUME IInv, Project PROVE IInv'
  OBVIOUS
<1>1. HarnessTypeOK' /\ Summaries'
  BY HarnessKept DEF IInv, TypeOK, Project
<1>2. Settled /\ (receipts # <<>> => Passed(receipts[Len(receipts)]))
  BY DEF Project, Projectable, Passed
<1>3. Verified(receipts)
  BY <1>2, SettledIsVerified DEF IInv, TypeOK, HarnessTypeOK
<1>4. UNCHANGED receipts
  BY DEF Project, harnessVars, ledgerVars
<1>5. outcome' = Projected /\ stage' = "idle"
  BY DEF Project
<1>6. Verified(receipts)'
  BY <1>3, <1>4 DEF Verified, Changed, IsCheck, Passed
<1>7. AnswerInv'
  BY <1>5, <1>6 DEF AnswerInv, AnswerOnlyWhenIdle, TerminalFollowsVerification,
         NoRepeatWithoutChange, HarnessAnswered, HarnessReleasedCalls, Projected
<1>8. intervention_counts' \in Nat \X Nat \X Nat
  BY DEF Project, IInv, TypeOK, HarnessTypeOK
<1> QED
  BY <1>1, <1>5, <1>7, <1>8, KeptTyped DEF Project, IInv, TypeOK, Stages

LEMMA EnterLoopIInv == IInv /\ EnterLoop => IInv'
<1> SUFFICES ASSUME IInv, EnterLoop PROVE IInv'
  OBVIOUS
<1>1. HarnessTypeOK' /\ Summaries'
  BY HarnessKept DEF IInv, TypeOK, EnterLoop
<1>2. AnswerInv'
  BY NothingAnswered DEF EnterLoop, Reconstructed, IInv, AnswerInv, AnswerOnlyWhenIdle
<1>3. intervention_counts' \in Nat \X Nat \X Nat
  BY DEF EnterLoop, IInv, TypeOK, HarnessTypeOK
<1>4. phase' \in Phases /\ stage' \in Stages
  BY DEF EnterLoop, Phases, Stages
<1> QED
  BY <1>1, <1>2, <1>3, <1>4, KeptTyped DEF EnterLoop, IInv, TypeOK

LEMMA AttemptsExhaustedIInv == IInv /\ AttemptsExhausted => IInv'
<1> SUFFICES ASSUME IInv, AttemptsExhausted PROVE IInv'
  OBVIOUS
<1>1. HarnessTypeOK' /\ Summaries'
  BY HarnessKept DEF IInv, TypeOK, AttemptsExhausted
<1>2. AnswerInv' /\ stage' \in Stages
  BY NothingAnswered DEF AttemptsExhausted, Return, Stages
<1> QED
  BY <1>1, <1>2, KeptTyped DEF AttemptsExhausted, IInv, TypeOK

-----------------------------------------------------------------------------
\* Every step of the opt-out path leaves the harness and the rebuilt state alone.
LEMMA OffIInv ==
  ASSUME IInv, OffAttempt,
         \/ UNCHANGED <<stage, outcome>>
         \/ Return(Failed)
         \/ \E batch : Return(ReleasedCalls("off", batch))
         \/ \E during, content : Return(ReleasedTerminal("off", content, during)),
         transcript' \in Seq(Message), awaiting' \in Seq(Proposal),
         internal_retries' \in Nat, phase' \in Phases
  PROVE  IInv'
<1>1. HarnessTypeOK' /\ Summaries'
  BY HarnessKept DEF IInv, TypeOK, OffAttempt
<1>2. outcome = NoOutcome /\ stage = "off"
  BY DEF OffAttempt, IInv, AnswerInv, AnswerOnlyWhenIdle
<1>3. AnswerInv'
  <2>1. CASE UNCHANGED <<stage, outcome>>
    BY <1>2, <2>1, NothingAnswered
  <2>2. CASE Return(Failed)
    BY <2>2, NothingAnswered DEF Return
  <2>3. CASE \E batch : Return(ReleasedCalls("off", batch))
    BY <2>3, NothingAnswered DEF Return
  <2>4. CASE \E during, content : Return(ReleasedTerminal("off", content, during))
    BY <2>4, NothingAnswered DEF Return
  <2> QED BY <2>1, <2>2, <2>3, <2>4
<1>4. stage' \in Stages
  BY <1>2 DEF Return, Stages
<1> QED
  BY <1>1, <1>3, <1>4, KeptTyped DEF OffAttempt, IInv, TypeOK

LEMMA OffStepIInv ==
  ASSUME IInv,
         \/ OffFails
         \/ \E batch \in Batches : OffReleaseCalls(batch)
         \/ OffStartFinalization
         \/ \E content \in Content : OffAcceptTerminal(content)
         \/ OffRetry
  PROVE  IInv'
<1>1. CASE OffFails
  BY <1>1, OffIInv DEF OffFails, IInv, TypeOK
<1>2. ASSUME NEW batch \in Batches, OffReleaseCalls(batch) PROVE IInv'
  <2>1. transcript' \in Seq(Message) /\ awaiting' \in Seq(Proposal)
    BY <1>2, BatchAppended DEF OffReleaseCalls, IInv
  <2> QED BY <1>2, <2>1, OffIInv DEF OffReleaseCalls, IInv, TypeOK
<1>3. CASE OffStartFinalization
  BY <1>3, OffIInv DEF OffStartFinalization, IInv, TypeOK, Phases
<1>4. ASSUME NEW content \in Content, OffAcceptTerminal(content) PROVE IInv'
  BY <1>4, OffIInv DEF OffAcceptTerminal, IInv, TypeOK
<1>5. CASE OffRetry
  <2>1. internal_retries' \in Nat
    BY <1>5 DEF OffRetry, IInv, TypeOK
  <2>2. \/ UNCHANGED <<stage, outcome>>
        \/ Return(Failed)
    BY <1>5 DEF OffRetry
  <2> QED BY <1>5, <2>1, <2>2, OffIInv DEF OffRetry, IInv, TypeOK
<1> QED BY <1>1, <1>2, <1>3, <1>4, <1>5

LEMMA StutterIInv == IInv /\ UNCHANGED vars => IInv'
<1> SUFFICES ASSUME IInv, UNCHANGED vars PROVE IInv'
  OBVIOUS
<1>1. HarnessTypeOK' /\ Summaries'
  BY HarnessKept DEF IInv, TypeOK, vars
<1>2. UNCHANGED <<stage, outcome, receipts>>
  BY DEF vars, harnessVars, ledgerVars
<1>3. AnswerInv'
  BY <1>2 DEF IInv, AnswerInv, AnswerOnlyWhenIdle, TerminalFollowsVerification,
     NoRepeatWithoutChange, HarnessAnswered, HarnessReleasedCalls, Verified, Changed,
     IsCheck, Passed
<1> QED BY <1>1, <1>3, KeptTyped DEF IInv, TypeOK, vars

LEMMA StepIInv == IInv /\ [Next]_vars => IInv'
<1> SUFFICES ASSUME IInv, [Next]_vars PROVE IInv'
  OBVIOUS
<1>1. CASE ClientStep
  BY <1>1, ClientExecutesIInv, ClientDamagesIInv, ClientSendsIInv DEF ClientStep
<1>2. CASE ServiceStep
  <2>1. CASE ReconstructMessage
    BY <2>1, ReconstructMessageIInv
  <2>2. CASE Project \/ EnterLoop \/ UpstreamFails \/ AttemptsExhausted
    BY <2>2, ProjectIInv, EnterLoopIInv, UpstreamFailsIInv, AttemptsExhaustedIInv
  <2>3. CASE FinalizationProposesCalls
    BY <2>3, CorrectOrGiveUpIInv DEF FinalizationProposesCalls
  <2>4. CASE \E batch \in Batches : ReleaseCalls(batch) \/ WithholdBatch(batch)
    BY <2>4, ReleaseCallsIInv, WithholdBatchIInv
  <2>5. CASE \E content \in Content : AcceptTerminal(content) \/ CorrectTerminal(content)
    BY <2>5, AcceptTerminalIInv, CorrectOrGiveUpIInv DEF CorrectTerminal
  <2>6. CASE \/ OffFails
             \/ \E batch \in Batches : OffReleaseCalls(batch)
             \/ OffStartFinalization
             \/ \E content \in Content : OffAcceptTerminal(content)
             \/ OffRetry
    BY <2>6, OffStepIInv
  <2> QED BY <1>2, <2>1, <2>2, <2>3, <2>4, <2>5, <2>6 DEF ServiceStep
<1>3. CASE UNCHANGED vars
  BY <1>3, StutterIInv
<1> QED BY <1>1, <1>2, <1>3 DEF Next

\* The inductive invariant holds in every reachable state.
LEMMA Invariant == Spec => []IInv
<1>1. Init => IInv
  BY InitIInv
<1>2. IInv /\ [Next]_vars => IInv'
  BY StepIInv
<1> QED BY <1>1, <1>2, PTL DEF Spec

\* Every variable of ChatService.complete keeps its type.
THEOREM TypeCorrect == Spec => []TypeOK
<1>1. IInv => TypeOK
  BY DEF IInv
<1> QED BY <1>1, Invariant, PTL

\* policy.md "a terminal answer cannot follow ...": whatever the model proposes and
\* whatever the client sends, an answer the harness releases, projected ones included,
\* rests on receipts in which every successful mutation was followed by a passing
\* check and every failed check by a pass of the same verifier.
THEOREM AnswersAreVerified == Spec => []TerminalFollowsVerification
<1>1. IInv => TerminalFollowsVerification
  BY DEF IInv, AnswerInv
<1> QED BY <1>1, Invariant, PTL

\* policy.md "identical calls are blocked only within an unchanged epoch": a released
\* call repeats a receipt only when a successful mutation lies at or after it.
THEOREM RepeatsFollowChange == Spec => []NoRepeatWithoutChange
<1>1. IInv => NoRepeatWithoutChange
  BY DEF IInv, AnswerInv
<1> QED BY <1>1, Invariant, PTL

-----------------------------------------------------------------------------
\* The loop's counters start at zero: reconstruct spends nothing.
LoopInv ==
  /\ LoopBounded
  /\ stage = "reconstruct" => upstream_calls = 0 /\ internal_retries = 0

LEMMA DroppedIsBounded ==
  ASSUME DropRequestState, stage' # "loop" PROVE LoopInv'
BY BoundsAssumption DEF DropRequestState, FreshHarness, LoopInv, LoopBounded

\* A retry, with or without a correction, keeps attempts and retries in step.
LEMMA CorrectOrGiveUpBounded ==
  ASSUME TypeOK, LoopInv, Attempt, CorrectOrGiveUp PROVE LoopInv'
<1>1. /\ upstream_calls = internal_retries /\ upstream_calls < MaxUpstreamCalls
      /\ upstream_calls' = upstream_calls + 1
  BY DEF LoopInv, LoopBounded, Attempt
<1>2. /\ upstream_calls \in Nat /\ internal_retries \in Nat /\ terminal_corrections \in Nat
      /\ terminal_corrections <= internal_retries /\ terminal_corrections <= 2
      /\ internal_retries <= MaxInternalRetries
  BY DEF TypeOK, HarnessTypeOK, LoopInv, LoopBounded
<1>3. CASE /\ RetriesLeft /\ CorrectionsLeft /\ Continue
           /\ terminal_corrections' = terminal_corrections + 1
  BY <1>1, <1>2, <1>3, BoundsAssumption
     DEF RetriesLeft, CorrectionsLeft, Continue, LoopInv, LoopBounded
<1>4. CASE /\ Return(Failed)
           /\ UNCHANGED <<terminal_corrections, internal_retries>>
  BY <1>1, <1>2, <1>4, BoundsAssumption DEF Return, LoopInv, LoopBounded
<1> QED BY <1>3, <1>4 DEF CorrectOrGiveUp

LEMMA WithholdBatchBounded ==
  ASSUME TypeOK, LoopInv, NEW batch \in Batches, WithholdBatch(batch) PROVE LoopInv'
<1>1. /\ upstream_calls = internal_retries /\ upstream_calls < MaxUpstreamCalls
      /\ upstream_calls' = upstream_calls + 1
  BY DEF LoopInv, LoopBounded, Attempt, WithholdBatch
<1>2. /\ upstream_calls \in Nat /\ internal_retries \in Nat /\ terminal_corrections \in Nat
      /\ terminal_corrections <= internal_retries /\ terminal_corrections <= 2
      /\ internal_retries <= MaxInternalRetries
      /\ terminal_corrections' = terminal_corrections
  BY DEF TypeOK, HarnessTypeOK, LoopInv, LoopBounded, WithholdBatch, JudgeBatch
<1>3. CASE RetriesLeft /\ Continue
  BY <1>1, <1>2, <1>3, BoundsAssumption DEF RetriesLeft, Continue, LoopInv, LoopBounded
<1>4. CASE Return(Failed) /\ UNCHANGED internal_retries
  BY <1>1, <1>2, <1>4, BoundsAssumption DEF Return, LoopInv, LoopBounded
<1> QED BY <1>3, <1>4 DEF WithholdBatch

\* An attempt that ends the request spends one upstream call and no retry.
LEMMA LastAttemptBounded ==
  ASSUME TypeOK, LoopInv, Attempt, stage' = "idle",
         UNCHANGED <<terminal_corrections, internal_retries>>
  PROVE  LoopInv'
BY BoundsAssumption DEF TypeOK, HarnessTypeOK, LoopInv, LoopBounded, Attempt

LEMMA OffBounded ==
  ASSUME TypeOK, LoopInv, OffAttempt, stage' \in {"off", "idle"},
         \/ UNCHANGED internal_retries
         \/ RetriesLeft /\ internal_retries' = internal_retries + 1
  PROVE  LoopInv'
<1>1. terminal_corrections' = terminal_corrections
  BY DEF OffAttempt, harnessVars
<1> QED
  BY <1>1, BoundsAssumption
     DEF TypeOK, HarnessTypeOK, LoopInv, LoopBounded, OffAttempt, RetriesLeft

LEMMA StepLoopInv == TypeOK /\ LoopInv /\ [Next]_vars => LoopInv'
<1> SUFFICES ASSUME TypeOK, LoopInv, [Next]_vars PROVE LoopInv'
  OBVIOUS
<1>1. CASE ClientStep
  <2>1. DropRequestState /\ stage' # "loop"
    BY <1>1 DEF ClientStep, ClientExecutes, ClientDamagesTranscript, ClientDamages, ClientSends
  <2> QED BY <2>1, DroppedIsBounded
<1>2. CASE ServiceStep
  <2>1. CASE ReconstructMessage
    <3>1. UNCHANGED terminal_corrections
      BY <2>1 DEF ReconstructMessage, ReconstructCalls, ReconstructResult, harnessVars, Record
    <3> QED BY <2>1, <3>1 DEF ReconstructMessage, loopVars, LoopInv, LoopBounded
  <2>2. CASE Project \/ EnterLoop
    BY <2>2 DEF Project, EnterLoop, Reconstructed, harnessVars, loopVars, LoopInv, LoopBounded
  <2>3. CASE UpstreamFails \/ \E content \in Content : AcceptTerminal(content)
    BY <2>3, LastAttemptBounded DEF UpstreamFails, AcceptTerminal, Return, harnessVars
  <2>4. CASE \E batch \in Batches : ReleaseCalls(batch)
    BY <2>4, LastAttemptBounded DEF ReleaseCalls, JudgeBatch, Return
  <2>5. CASE \E batch \in Batches : WithholdBatch(batch)
    BY <2>5, WithholdBatchBounded
  <2>6. CASE FinalizationProposesCalls \/ \E content \in Content : CorrectTerminal(content)
    BY <2>6, CorrectOrGiveUpBounded DEF FinalizationProposesCalls, CorrectTerminal
  <2>7. CASE AttemptsExhausted
    BY <2>7 DEF AttemptsExhausted, Return, harnessVars, loopVars, LoopInv, LoopBounded
  <2>8. CASE \/ OffFails
             \/ \E batch \in Batches : OffReleaseCalls(batch)
             \/ OffStartFinalization
             \/ \E content \in Content : OffAcceptTerminal(content)
    BY <2>8, OffBounded DEF OffFails, OffReleaseCalls, OffStartFinalization,
       OffAcceptTerminal, OffAttempt, Return
  <2>9. CASE OffRetry
    BY <2>9, OffBounded DEF OffRetry, OffAttempt, Return
  <2> QED
    BY <1>2, <2>1, <2>2, <2>3, <2>4, <2>5, <2>6, <2>7, <2>8, <2>9 DEF ServiceStep
<1>3. CASE UNCHANGED vars
  BY <1>3 DEF vars, harnessVars, loopVars, LoopInv, LoopBounded
<1> QED BY <1>1, <1>2, <1>3 DEF Next

\* policy.md "terminal corrections, internal retries, and total upstream calls are
\* independently bounded": whatever the model answers, one request costs at most
\* max_upstream_calls attempts, and each attempt after the first spends a retry.
THEOREM LoopIsBounded == Spec => []LoopBounded
<1>1. Init => LoopInv
  BY BoundsAssumption DEF Init, LoopInv, LoopBounded
<1>2. TypeOK /\ LoopInv /\ [Next]_vars => LoopInv'
  BY StepLoopInv
<1>3. LoopInv => LoopBounded
  BY DEF LoopInv
<1> QED BY <1>1, <1>2, <1>3, TypeCorrect, PTL DEF Spec
-----------------------------------------------------------------------------
\* The counts are the harness's own from the moment the request can suspend or return;
\* an opted-out request is served only where nothing is denied.
CountsAreCurrent ==
  stage \in {"loop", "off"} \/ (stage = "idle" /\ outcome # NoOutcome)
    => intervention_counts = <<terminal_corrections, blocked_duplicates, blocked_stalls>>

OptOutDeniesNothing == stage = "off" => Denied = {}

ExitInv ==
  /\ CountsAreCurrent
  /\ OptOutDeniesNothing
  /\ DeniedNeverReleased
  /\ ProjectionPassesTerminalGate

\* A step that answers nothing, or an error, has nothing to answer for.
LEMMA QuietExit ==
  ASSUME outcome' \in {NoOutcome, Failed}
  PROVE  DeniedNeverReleased' /\ ProjectionPassesTerminalGate'
BY DEF NoOutcome, Failed, DeniedNeverReleased, ProjectionPassesTerminalGate

LEMMA ClientStepExits == ClientStep => ExitInv'
<1> SUFFICES ASSUME ClientStep PROVE ExitInv'
  OBVIOUS
<1>1. DropRequestState /\ outcome' \in {NoOutcome, Failed}
  BY DEF ClientStep, ClientExecutes, ClientDamagesTranscript, ClientDamages, ClientSends
<1>2. CountsAreCurrent'
  BY <1>1 DEF DropRequestState, FreshHarness, CountsAreCurrent
<1>3. OptOutDeniesNothing'
  BY DEF ClientStep, ClientExecutes, ClientDamagesTranscript, ClientDamages, ClientSends,
         Refused, OptOutDeniesNothing
<1> QED BY <1>1, <1>2, <1>3, QuietExit DEF ExitInv

\* Reading the transcript, projecting an answer, entering the loop.
LEMMA ReconstructionExits ==
  IInv /\ ExitInv /\ (ReconstructMessage \/ Project \/ EnterLoop) => ExitInv'
<1> SUFFICES ASSUME IInv, ExitInv, ReconstructMessage \/ Project \/ EnterLoop PROVE ExitInv'
  OBVIOUS
<1>1. CASE ReconstructMessage \/ EnterLoop
  <2>1. stage = "reconstruct" /\ stage' \in {"reconstruct", "loop"} /\ UNCHANGED outcome
    BY <1>1 DEF ReconstructMessage, EnterLoop, Reconstructed
  <2>2. outcome' \in {NoOutcome, Failed}
    BY <2>1 DEF IInv, AnswerInv, AnswerOnlyWhenIdle
  <2>3. CountsAreCurrent'
    BY <1>1, <2>1 DEF ReconstructMessage, EnterLoop, CountsAreCurrent, harnessVars, verdictVars
  <2> QED BY <2>1, <2>2, <2>3, QuietExit DEF ExitInv, OptOutDeniesNothing
<1>2. CASE Project
  <2>1. /\ stage' = "idle" /\ outcome' = Projected
        /\ intervention_counts' = <<terminal_corrections, blocked_duplicates, blocked_stalls>>
        /\ UNCHANGED <<harnessVars, request>>
    BY <1>2 DEF Project
  <2>2. UNCHANGED <<receipts, last_action_blocked, force_finalize, open_failures,
                    pending_verification, terminal_corrections, blocked_duplicates,
                    blocked_stalls>>
    BY <2>1 DEF harnessVars, ledgerVars, verdictVars
  <2>3. ~PolicyIssue(RequireReceipt)
    BY <1>2 DEF Project, Projectable, Settled, PolicyIssue
  <2>4. ~PolicyIssue(RequireReceipt)'
    BY <2>1, <2>2, <2>3 DEF PolicyIssue, RequireReceipt
  <2> QED
    BY <2>1, <2>2, <2>4
       DEF ExitInv, CountsAreCurrent, OptOutDeniesNothing, DeniedNeverReleased,
           ProjectionPassesTerminalGate, Projected
<1> QED BY <1>1, <1>2

\* An attempt of the loop that releases nothing keeps the counts current.
LEMMA LoopExits ==
  ASSUME IInv, ExitInv, stage' \in {"loop", "idle"}, outcome' \in {NoOutcome, Failed},
         \/ Snapshot
         \/ /\ stage \in {"loop", "off"}
            /\ UNCHANGED <<terminal_corrections, verdictVars, intervention_counts>>
  PROVE  ExitInv'
<1>1. CountsAreCurrent'
  BY DEF ExitInv, CountsAreCurrent, Snapshot, verdictVars
<1> QED BY <1>1, QuietExit DEF ExitInv, OptOutDeniesNothing

LEMMA HarnessExits ==
  ASSUME IInv, ExitInv,
         \/ UpstreamFails \/ FinalizationProposesCalls \/ AttemptsExhausted
         \/ \E batch \in Batches : WithholdBatch(batch)
         \/ \E content \in Content : CorrectTerminal(content)
  PROVE  ExitInv'
<1>1. stage # "idle" => outcome = NoOutcome
  BY DEF IInv, AnswerInv, AnswerOnlyWhenIdle
<1>2. CASE UpstreamFails \/ AttemptsExhausted
  BY <1>2, LoopExits DEF UpstreamFails, AttemptsExhausted, Attempt, Return, harnessVars
<1>3. ASSUME Attempt, CorrectOrGiveUp PROVE ExitInv'
  BY <1>1, <1>3, LoopExits DEF Attempt, CorrectOrGiveUp, Return, Continue
<1>4. ASSUME NEW batch \in Batches, WithholdBatch(batch) PROVE ExitInv'
  BY <1>1, <1>4, LoopExits DEF Attempt, WithholdBatch, Return, Continue
<1> QED BY <1>2, <1>3, <1>4 DEF FinalizationProposesCalls, CorrectTerminal

LEMMA ReleaseExits ==
  ASSUME IInv, ExitInv, NEW batch \in Batches, ReleaseCalls(batch)
  PROVE  ExitInv'
<1>1. outcome' = ReleasedCalls("harness", batch) /\ stage' = "idle" /\ Snapshot
  BY DEF ReleaseCalls, Return
<1>2. ASSUME NEW k \in DOMAIN batch, batch[k].call # Invalid
      PROVE  ToolOf[batch[k].call] \notin Denied
  <2>1. Verdict(batch[k].call) = "allowed"
    BY DEF ReleaseCalls, Allowed, With
  <2> QED BY <1>2, <2>1 DEF Verdict
<1>3. DeniedNeverReleased'
  BY <1>1, <1>2 DEF DeniedNeverReleased, ReleasedCalls
<1> QED
  BY <1>1, <1>3 DEF ExitInv, CountsAreCurrent, Snapshot, OptOutDeniesNothing,
     ProjectionPassesTerminalGate, ReleasedCalls

LEMMA AcceptExits ==
  ASSUME IInv, ExitInv, NEW content \in Content, AcceptTerminal(content)
  PROVE  ExitInv'
<1>1. /\ outcome' = ReleasedTerminal("harness", content, AttemptPhase) /\ stage' = "idle"
      /\ stage = "loop" /\ UNCHANGED <<terminal_corrections, verdictVars, intervention_counts>>
  BY DEF AcceptTerminal, Attempt, Return, harnessVars
<1> QED
  BY <1>1 DEF ExitInv, CountsAreCurrent, OptOutDeniesNothing, DeniedNeverReleased, verdictVars,
     ProjectionPassesTerminalGate, ReleasedTerminal

\* The opt-out path: nothing is denied.
LEMMA OffExits ==
  ASSUME IInv, ExitInv,
         \/ OffFails
         \/ \E batch \in Batches : OffReleaseCalls(batch)
         \/ OffStartFinalization
         \/ \E content \in Content : OffAcceptTerminal(content)
         \/ OffRetry
  PROVE  ExitInv'
<1>1. /\ stage = "off" /\ Denied = {} /\ outcome = NoOutcome
      /\ UNCHANGED <<terminal_corrections, verdictVars, intervention_counts, request>>
      /\ stage' \in {"off", "idle"}
  BY DEF OffFails, OffReleaseCalls, OffStartFinalization, OffAcceptTerminal, OffRetry,
         OffAttempt, Return, harnessVars, ExitInv, OptOutDeniesNothing, IInv, AnswerInv,
         AnswerOnlyWhenIdle
<1>2. CountsAreCurrent' /\ OptOutDeniesNothing'
  BY <1>1 DEF ExitInv, CountsAreCurrent, OptOutDeniesNothing, verdictVars
<1>3. CASE OffFails \/ OffStartFinalization \/ OffRetry
  <2>1. outcome' \in {NoOutcome, Failed}
    BY <1>1, <1>3 DEF OffFails, OffStartFinalization, OffRetry, Return
  <2> QED BY <1>2, <2>1, QuietExit DEF ExitInv
<1>4. ASSUME NEW batch \in Batches, OffReleaseCalls(batch) PROVE ExitInv'
  <2>1. outcome' = ReleasedCalls("off", batch)
    BY <1>4 DEF OffReleaseCalls, Return
  <2> QED
    BY <1>1, <1>2, <2>1 DEF ExitInv, DeniedNeverReleased, ProjectionPassesTerminalGate,
       ReleasedCalls
<1>5. ASSUME NEW content \in Content, OffAcceptTerminal(content) PROVE ExitInv'
  <2>1. outcome' = ReleasedTerminal("off", content, OffPhase)
    BY <1>5 DEF OffAcceptTerminal, Return
  <2> QED
    BY <1>2, <2>1 DEF ExitInv, DeniedNeverReleased, ProjectionPassesTerminalGate,
       ReleasedTerminal
<1> QED BY <1>3, <1>4, <1>5

LEMMA StepExits == IInv /\ ExitInv /\ [Next]_vars => ExitInv'
<1> SUFFICES ASSUME IInv, ExitInv, [Next]_vars PROVE ExitInv'
  OBVIOUS
<1>1. CASE ServiceStep
  BY <1>1, ReconstructionExits, HarnessExits, ReleaseExits, AcceptExits, OffExits DEF ServiceStep
<1>2. CASE UNCHANGED vars
  <2>1. UNCHANGED <<stage, outcome, request, intervention_counts, receipts, last_action_blocked,
                    force_finalize, open_failures, pending_verification, terminal_corrections,
                    blocked_duplicates, blocked_stalls>>
    BY <1>2 DEF vars, harnessVars, ledgerVars, verdictVars
  <2> QED
    BY <2>1 DEF ExitInv, CountsAreCurrent, OptOutDeniesNothing, DeniedNeverReleased,
       ProjectionPassesTerminalGate, PolicyIssue, RequireReceipt
<1> QED BY <1>1, <1>2, ClientStepExits DEF Next

LEMMA Exits == Spec => []ExitInv
<1>1. Init => ExitInv
  BY DEF Init, ExitInv, CountsAreCurrent, OptOutDeniesNothing, DeniedNeverReleased,
         ProjectionPassesTerminalGate, NoOutcome
<1>2. IInv /\ ExitInv /\ [Next]_vars => ExitInv'
  BY StepExits
<1> QED BY <1>1, <1>2, Invariant, PTL DEF Spec

\* policy.md "denied tools": no path releases a call of a denied tool, the opt-out path,
\* which does not look at the names, included.
THEOREM DeniedToolsAreWithheld == Spec => []DeniedNeverReleased
<1>1. ExitInv => DeniedNeverReleased
  BY DEF ExitInv
<1> QED BY <1>1, Exits, PTL

\* service.complete writes the caller's list of intervention counts before every point at
\* which it can be cancelled or return, so that the endpoint counts what really happened.
THEOREM CountsAreReported == Spec => []InterventionsReported
<1>1. ExitInv => InterventionsReported
  BY DEF ExitInv, CountsAreCurrent, InterventionsReported
<1> QED BY <1>1, Exits, PTL

\* projection.decide_local_projection never lets through what terminal_issue would refuse.
THEOREM ProjectionsPassTheGate == Spec => []ProjectionPassesTerminalGate
<1>1. ExitInv => ProjectionPassesTerminalGate
  BY DEF ExitInv
<1> QED BY <1>1, Exits, PTL
==============================================================================
