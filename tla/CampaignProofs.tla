---------------------------- MODULE CampaignProofs ----------------------------
(* The event chain of a campaign, for any number of stages, processes, model     *)
(* instances, faults and crashes. The argument rests on two facts about who may *)
(* write: every process that is at work holds the lock, so at most one writes   *)
(* events; and a supervised run belongs to that process and to a stage without  *)
(* an event, so the one writer of outcomes never meets a recorded stage.        *)
EXTENDS Campaign, FiniteSetTheorems, TLAPS

SupFields == {"step", "seq", "run", "instance", "before", "attempts", "exit", "status", "reports",
              "watching", "tried", "todo", "refused"}
Resting == {"idle", "load", "clean", "returned"}
Ledgers == [edits : Nat, entries : Seq([run : Nat, failure : BOOLEAN])]
Child == [run : Nat, seq : Seqs, at : {"gate", "ask", "row", "exit"}]

(* Types the campaign's own invariant leaves out.                              *)
SupTyped ==
  /\ DOMAIN sup = SupFields
  /\ sup.seq \in Seqs /\ sup.status \in Statuses /\ sup.run \in Nat /\ sup.instance \in Nat
Shape ==
  /\ SupTyped
  /\ runs \in Nat
  /\ model \in [up : BOOLEAN, instance : Nat, completed : Nat]
  /\ children \subseteq Child
  /\ rows \in [Seqs -> Ledgers]

(* Who writes: the lock, and the run below it.                                 *)
Locking == \A p \in Procs : pc[p] # "idle" => lock = p
Supervised ==
  sup.step # "idle" => lock \in Procs /\ pc[lock] = "supervising" /\ next[lock] = sup.seq
Fresh == sup.step \notin Resting => outcome[sup.seq] = "absent"

(* A ledger is rewritten, never restored, so a result that was touched stays so. *)
Sealed ==
  /\ sealed \in [Seqs -> Ledgers]
  /\ \A s \in Seqs : outcome[s] # "absent" =>
       rows[s] = sealed[s] \/ rows[s].edits > sealed[s].edits

(* The chain: whatever has an event comes after passed stages with their heads. *)
PassedBefore(s) == \A t \in Seqs : t < s => event[t] = "passed" /\ head[t] = "whole"
AllPassed == \A s \in Seqs : event[s] = "passed"
Chain ==
  /\ \A s \in Seqs : event[s] # "absent" => PassedBefore(s)
  /\ Recorded = 1 .. Cardinality(Recorded)
  /\ verdict # "absent" => AllPassed

(* What the process at work has found out about its stage still holds.          *)
Judged(s, status) ==
  \/ status \in Statuses /\ outcome[s] = status
  \/ status = "partial" /\ (outcome[s] = "absent" \/ ~Untouched(s))
Position(p) ==
  /\ pc[p] \in {"healing", "healing2"} => Written = 1 .. next[p] /\ event[next[p]] # "torn"
  /\ pc[p] \in {"inspecting", "probing", "running", "supervising", "event"} =>
       event[next[p]] = "absent" /\ PassedBefore(next[p])
  /\ pc[p] = "event2" => event[next[p]] = "torn" /\ PassedBefore(next[p])
  /\ pc[p] \in {"event", "event2"} => Judged(next[p], result[p])
  /\ pc[p] \in {"head", "head2"} => event[next[p]] = result[p] /\ event[next[p]] # "absent"
  /\ pc[p] \in {"completing", "verdict", "verdict2"} => AllPassed
  /\ pc[p] \in {"verdict", "verdict2"} => result[p] \in {"passed", "failed"}
  /\ pc[p] = "verdict2" => verdict = "torn"
Positions == \A p \in Procs : Position(p)

IInv ==
  /\ TypeOK /\ Shape /\ Locking /\ Supervised /\ Fresh /\ Sealed /\ Chain /\ Positions
  /\ NoResultLost

(* What every step below the campaign does, but for the one that writes the     *)
(* outcome.                                                                    *)
Effect ==
  /\ Shape'
  /\ sup'.seq = sup.seq
  /\ sup.step = "idle" => sup'.step = "idle"
  /\ sup'.step \notin Resting => sup.step \notin Resting \/ outcome[sup.seq] = "absent"
  /\ UNCHANGED <<outcome, instance, sealed, author>>
  /\ \A s \in Seqs : rows'[s] = rows[s] \/ rows'[s].edits > rows[s].edits

------------------------------------------------------------------------------
(* A run of the supervisor keeps its stage and its types.                       *)
LEMMA LeaveTyped ==
  ASSUME SupTyped, NEW status \in Statuses
  PROVE  /\ DOMAIN Leave(status) = SupFields
         /\ Leave(status).seq = sup.seq /\ Leave(status).status = status
         /\ Leave(status).run = sup.run /\ Leave(status).instance = sup.instance
         /\ Leave(status).step = "clean"
BY DEF SupTyped, SupFields, Leave

LEMMA ProceedTyped ==
  ASSUME SupTyped, NEW step
  PROVE  LET moved == [sup EXCEPT !.step = step]
         IN /\ DOMAIN moved = SupFields
            /\ moved.seq = sup.seq /\ moved.status = sup.status
            /\ moved.run = sup.run /\ moved.instance = sup.instance
            /\ moved.step = step
BY DEF SupTyped, SupFields

(* A call of the try block that leaves the model, the rows and the children.    *)
LEMMA CallEffect ==
  ASSUME Shape, sup.step # "idle",
         UNCHANGED <<outcome, instance, rows, sealed, author, children, model, runs>>,
         \/ \E step : sup' = [sup EXCEPT !.step = step] /\ sup.step \notin Resting
         \/ \E status \in Statuses : sup' = Leave(status)
         \/ sup' = [sup EXCEPT !.todo = Tail(@), !.refused = sup'.refused]
  PROVE  Effect
<1>1. /\ SupTyped' /\ sup'.seq = sup.seq
      /\ sup'.step \notin Resting => sup.step \notin Resting
  <2>1. ASSUME NEW step, sup' = [sup EXCEPT !.step = step], sup.step \notin Resting
        PROVE  <1>1!:
    BY <2>1, ProceedTyped DEF Shape, SupTyped
  <2>2. ASSUME NEW status \in Statuses, sup' = Leave(status)
        PROVE  <1>1!:
    BY <2>2, LeaveTyped DEF Shape, SupTyped, Resting
  <2>3. ASSUME sup' = [sup EXCEPT !.todo = Tail(@), !.refused = sup'.refused]
        PROVE  <1>1!:
    BY <2>3 DEF Shape, SupTyped, SupFields
  <2> QED
    BY <2>1, <2>2, <2>3
<1>2. Shape'
  BY <1>1 DEF Shape
<1> QED
  BY <1>1, <1>2 DEF Effect

LEMMA LoadEffect ==
  ASSUME Shape, Load
  PROVE  Effect
<1>1. "failed" \in Statuses
  BY DEF Statuses
<1>2. /\ sup.step = "load"
      /\ UNCHANGED <<outcome, instance, rows, sealed, author, children, model, runs>>
  BY DEF Load, At, durable, world
<1>3. CASE outcome[sup.seq] # "absent"
  BY <1>1, <1>2, <1>3, CallEffect DEF Load
<1>4. CASE outcome[sup.seq] = "absent" /\ HasEvidence(sup.seq)
  <2>1. sup' = [Leave("failed") EXCEPT !.reports = TRUE]
    BY <1>4 DEF Load
  <2>2. SupTyped' /\ sup'.seq = sup.seq /\ sup'.step = "clean"
    BY <1>1, <2>1, LeaveTyped DEF Shape, SupTyped, SupFields
  <2> QED
    BY <1>2, <2>2 DEF Effect, Shape, Resting
<1>5. CASE outcome[sup.seq] = "absent" /\ ~HasEvidence(sup.seq)
  <2>1. sup' = [sup EXCEPT !.step = Proceed, !.reports = TRUE]
    BY <1>5 DEF Load
  <2>2. SupTyped' /\ sup'.seq = sup.seq
    BY <2>1 DEF Shape, SupTyped, SupFields
  <2> QED
    BY <1>2, <1>5, <2>2 DEF Effect, Shape
<1> QED
  BY <1>3, <1>4, <1>5

LEMMA BeginEffect ==
  ASSUME Shape, Begin
  PROVE  Effect
<1>1. /\ sup.step = "begin"
      /\ UNCHANGED <<outcome, instance, rows, sealed, author, children, model, runs>>
      /\ sup' = [sup EXCEPT !.step = Proceed, !.instance = model.instance, !.before = model.completed]
  BY DEF Begin, At, durable
<1>2. model.instance \in Nat
  BY DEF Shape
<1>3. SupTyped' /\ sup'.seq = sup.seq
  BY <1>1, <1>2 DEF Shape, SupTyped, SupFields
<1> QED
  BY <1>1, <1>3 DEF Effect, Shape, Resting

LEMMA CreateEffect ==
  ASSUME Shape, NEW kind \in Resources, Create(kind)
  PROVE  Effect
<1>1. /\ sup.step = kind
      /\ UNCHANGED <<outcome, instance, rows, sealed, author, children, model, runs>>
  BY DEF Create, At
<1>2. kind \notin Resting
  BY DEF Resources, Containers, Volumes, Resting
<1>3. PICK succeeds \in BOOLEAN :
        sup' = [(IF succeeds THEN [sup EXCEPT !.step = Proceed] ELSE Leave("failed"))
                  EXCEPT !.tried = @ \cup {kind}]
  BY DEF Create
<1>4. SupTyped' /\ sup'.seq = sup.seq
  <2>1. CASE succeeds
    <3>1. sup' = [[sup EXCEPT !.step = Proceed] EXCEPT !.tried = @ \cup {kind}]
      BY <1>3, <2>1
    <3> QED
      BY <3>1 DEF Shape, SupTyped, SupFields
  <2>2. CASE ~succeeds
    <3>1. sup' = [Leave("failed") EXCEPT !.tried = @ \cup {kind}]
      BY <1>3, <2>2
    <3>2. "failed" \in Statuses
      BY DEF Statuses
    <3> QED
      BY <3>1, <3>2, LeaveTyped DEF Shape, SupTyped, SupFields
  <2> QED
    BY <2>1, <2>2
<1> QED
  BY <1>1, <1>2, <1>4 DEF Effect, Shape, Resting

LEMMA ObserverEffect ==
  ASSUME Shape, StartObserver \/ StartObserverLost
  PROVE  Effect
<1>1. /\ sup.step = "observer"
      /\ UNCHANGED <<outcome, instance, rows, sealed, author, children, model, runs>>
  BY DEF StartObserver, StartObserverLost, Spawn, At
<1>2. "interrupted" \in Statuses /\ sup.step \notin Resting
  BY <1>1 DEF Statuses, Resting
<1>3. CASE StartObserver
  <2>1. sup' = [sup EXCEPT !.step = Proceed, !.watching = TRUE]
    BY <1>3 DEF StartObserver
  <2>2. SupTyped' /\ sup'.seq = sup.seq
    BY <2>1 DEF Shape, SupTyped, SupFields
  <2> QED
    BY <1>1, <1>2, <2>2 DEF Effect, Shape, Resting
<1>4. CASE StartObserverLost
  <2>1. sup' = Leave("interrupted")
    BY <1>4 DEF StartObserverLost
  <2> QED
    BY <1>1, <1>2, <2>1, CallEffect DEF Resting
<1> QED
  BY <1>3, <1>4

LEMMA ActEffect ==
  ASSUME Shape, Act
  PROVE  Effect
<1>1. /\ sup.step = "act"
      /\ UNCHANGED <<outcome, instance, rows, sealed, author, model, runs>>
      /\ children' = children \cup {[run |-> sup.run, seq |-> sup.seq, at |-> "gate"]}
      /\ sup' = [sup EXCEPT !.step = Proceed]
  BY DEF Act, At, durable
<1>2. [run |-> sup.run, seq |-> sup.seq, at |-> "gate"] \in Child
  BY DEF Shape, SupTyped, Child
<1>3. children' \subseteq Child
  BY <1>1, <1>2 DEF Shape
<1>4. SupTyped' /\ sup'.seq = sup.seq
  BY <1>1, ProceedTyped DEF Shape, SupTyped
<1> QED
  BY <1>1, <1>3, <1>4 DEF Effect, Shape, Resting

LEMMA InterruptEffect ==
  ASSUME Shape, SpecRefused \/ Interrupt
  PROVE  Effect
<1>1. /\ sup.step # "idle"
      /\ UNCHANGED <<outcome, instance, rows, sealed, author, model, runs>>
      /\ children' \subseteq children
      /\ \E status \in Statuses : sup' = Leave(status)
  BY DEF SpecRefused, Interrupt, At, InTry, durable, world, Statuses
<1>2. SupTyped' /\ sup'.seq = sup.seq /\ sup'.step = "clean"
  BY <1>1, LeaveTyped DEF Shape, SupTyped
<1> QED
  BY <1>1, <1>2 DEF Effect, Shape, Resting

LEMMA TryEffect ==
  ASSUME Shape,
         FindNothingStale \/ Attest \/ ModelEvidence \/ FinalizeTiming \/ Settle \/ Fail
  PROVE  Effect
<1>1. UNCHANGED <<outcome, instance, rows, sealed, author, children, model, runs>>
  BY DEF FindNothingStale, Attest, ModelEvidence, FinalizeTiming, Settle, Fail, durable, world
<1>2. sup.step \notin Resting
  BY DEF FindNothingStale, Attest, ModelEvidence, FinalizeTiming, Settle, Fail, At, InTry, Resting,
         Resources, Containers, Volumes
<1>3. \/ \E step : sup' = [sup EXCEPT !.step = step]
      \/ \E status \in Statuses : sup' = Leave(status)
  <2>1. CASE FindNothingStale \/ Attest \/ FinalizeTiming
    BY <2>1 DEF FindNothingStale, Attest, FinalizeTiming
  <2>2. CASE ModelEvidence
    BY <2>2 DEF ModelEvidence, Statuses
  <2>3. CASE Settle
    BY <2>3 DEF Settle, Statuses
  <2>4. CASE Fail
    BY <2>4 DEF Fail, Statuses
  <2> QED
    BY <2>1, <2>2, <2>3, <2>4
<1> QED
  BY <1>1, <1>2, <1>3, CallEffect DEF Resting

LEMMA CleanEffect ==
  ASSUME Shape, StopObserver \/ Remove
  PROVE  Effect
<1>1. /\ UNCHANGED <<outcome, instance, rows, sealed, author, children, model, runs>>
      /\ sup.step # "idle"
  BY DEF StopObserver, Remove, Cleaning, At, durable
<1>2. PICK refused : sup' = Cleaned(refused)
  BY DEF StopObserver, Remove
<1>3. SupTyped' /\ sup'.seq = sup.seq /\ sup'.step = sup.step
  BY <1>2 DEF Cleaned, Shape, SupTyped, SupFields
<1> QED
  BY <1>1, <1>3 DEF Effect, Shape

LEMMA ReportNothingEffect ==
  ASSUME Shape, ReportNothing
  PROVE  Effect
<1>1. /\ UNCHANGED <<outcome, instance, rows, sealed, author, children, model, runs>>
      /\ sup.step # "idle"
      /\ sup' = [sup EXCEPT !.step = "returned", !.status = "failed"]
  BY DEF ReportNothing, Finished, At, durable, world
<1>2. SupTyped' /\ sup'.seq = sup.seq /\ sup'.step = "returned"
  BY <1>1 DEF Shape, SupTyped, SupFields, Statuses
<1> QED
  BY <1>1, <1>2 DEF Effect, Shape, Resting

(* A benchmark child moves, answers a request or appends its row.               *)
LEMMA MovesTyped ==
  ASSUME Shape, NEW c \in children, NEW at \in {"gate", "ask", "row", "exit"}, Moves(c, at)
  PROVE  children' \subseteq Child
<1>1. c \in Child
  BY DEF Shape
<1>2. [c EXCEPT !.at = at] \in Child
  BY <1>1 DEF Child
<1> QED
  BY <1>2 DEF Moves, Shape

LEMMA GateEffect ==
  ASSUME Shape, NEW c \in children, ScoringGate(c)
  PROVE  Effect
<1>1. children' \subseteq Child
  BY MovesTyped DEF ScoringGate
<1> QED
  BY <1>1 DEF ScoringGate, Effect, Shape, SupTyped, durable

LEMMA AskEffect ==
  ASSUME Shape, NEW c \in children, Ask(c)
  PROVE  Effect
<1>1. children' \subseteq Child
  BY MovesTyped DEF Ask
<1>2. /\ UNCHANGED <<outcome, instance, rows, sealed, author, runs>>
      /\ model' = model \/ model' = [model EXCEPT !.completed = @ + 1]
      /\ sup' = sup \/ sup' = [sup EXCEPT !.attempts = @ + 1]
  BY DEF Ask, Served, durable
<1>3. model' \in [up : BOOLEAN, instance : Nat, completed : Nat]
  BY <1>2 DEF Shape
<1>4. SupTyped' /\ sup'.seq = sup.seq /\ sup'.step = sup.step
  BY <1>2 DEF Shape, SupTyped, SupFields
<1> QED
  BY <1>1, <1>2, <1>3, <1>4 DEF Effect, Shape

LEMMA WritesEffect ==
  ASSUME Shape, NEW c \in children, NEW entries \in Seq([run : Nat, failure : BOOLEAN]),
         Writes(c, entries)
  PROVE  Effect
<1>1. children' \subseteq Child
  BY MovesTyped DEF Writes
<1>2. /\ UNCHANGED <<outcome, instance, sealed, author, model, sup, runs>>
      /\ rows' = [rows EXCEPT ![c.seq] = [edits |-> @.edits + 1, entries |-> entries]]
  BY DEF Writes
<1>3. c.seq \in Seqs /\ rows[c.seq] \in Ledgers
  BY DEF Shape, Child
<1>4. rows[c.seq].edits \in Nat /\ [edits |-> rows[c.seq].edits + 1, entries |-> entries] \in Ledgers
  BY <1>3 DEF Ledgers
<1>5. rows' \in [Seqs -> Ledgers]
  BY <1>2, <1>3, <1>4 DEF Shape
<1>6. ASSUME NEW s \in Seqs
      PROVE  rows'[s] = rows[s] \/ rows'[s].edits > rows[s].edits
  BY <1>2, <1>3, <1>4 DEF Shape
<1> QED
  BY <1>1, <1>2, <1>5, <1>6 DEF Effect, Shape, SupTyped

LEMMA RowTyped ==
  ASSUME Shape, NEW c \in children, NEW failure \in BOOLEAN
  PROVE  /\ Row(c, failure) \in [run : Nat, failure : BOOLEAN]
         /\ <<Row(c, failure)>> \in Seq([run : Nat, failure : BOOLEAN])
<1>1. Row(c, failure) \in [run : Nat, failure : BOOLEAN]
  BY DEF Shape, Child, Row
<1> HIDE DEF Row
<1> QED
  BY <1>1

(* The three ways a child writes its ledger.                                    *)
LEMMA RowEffect ==
  ASSUME Shape, NEW c \in children, AppendRow(c) \/ FailRow(c) \/ WritePreflight(c)
  PROVE  Effect
<1>1. CASE AppendRow(c)
  <2>1. c.seq \in Seqs
    BY DEF Shape, Child
  <2>2. rows[c.seq].entries \in Seq([run : Nat, failure : BOOLEAN])
    BY <2>1 DEF Shape, Ledgers
  <2>3. Row(c, FALSE) \in [run : Nat, failure : BOOLEAN]
    BY RowTyped
  <2>4. Append(rows[c.seq].entries, Row(c, FALSE)) \in Seq([run : Nat, failure : BOOLEAN])
    <3>1. \A S : \A q \in Seq(S), x \in S : Append(q, x) \in Seq(S)
      OBVIOUS
    <3> QED
      BY <2>2, <2>3, <3>1, Zenon
  <2> QED
    BY <1>1, <2>4, WritesEffect DEF AppendRow
<1>2. CASE FailRow(c)
  BY <1>2, RowTyped, WritesEffect DEF FailRow
<1>3. CASE WritePreflight(c)
  BY <1>3, RowTyped, WritesEffect DEF WritePreflight
<1> QED
  BY <1>1, <1>2, <1>3

LEMMA ExitEffect ==
  ASSUME Shape, NEW c \in children, Exit(c)
  PROVE  Effect
<1>1. /\ UNCHANGED <<outcome, instance, rows, sealed, author, model, runs>>
      /\ children' \subseteq children
      /\ \/ sup' = sup
         \/ /\ sup.step = "acting"
            /\ \E exit : sup' = [sup EXCEPT !.step = Proceed, !.exit = exit]
  BY DEF Exit, Own, At
<1>2. /\ SupTyped' /\ sup'.seq = sup.seq
      /\ sup.step = "acting" \/ sup'.step = sup.step
  BY <1>1 DEF Shape, SupTyped, SupFields
<1> QED
  BY <1>1, <1>2 DEF Effect, Shape, Resting

LEMMA OperatorEffect ==
  ASSUME Shape, Operator
  PROVE  Effect
<1>1. UNCHANGED <<outcome, instance, rows, sealed, author, children, sup, runs>>
  BY DEF Operator, ReplaceModel, StopModel, StartModel, durable
<1>2. \/ model' = [model EXCEPT !.up = FALSE]
      \/ model' = [up |-> TRUE, instance |-> model.instance + 1, completed |-> 0]
  BY DEF Operator, ReplaceModel, StopModel, StartModel, Stops
<1>3. model' \in [up : BOOLEAN, instance : Nat, completed : Nat]
  <2>1. /\ model \in [up : BOOLEAN, instance : Nat, completed : Nat]
        /\ model.instance \in Nat
    BY DEF Shape
  <2>2. CASE model' = [model EXCEPT !.up = FALSE]
    BY <2>1, <2>2, Zenon
  <2>3. CASE model' = [up |-> TRUE, instance |-> model.instance + 1, completed |-> 0]
    <3>1. model.instance + 1 \in Nat
      BY <2>1
    <3> QED
      BY <2>3, <3>1
  <2> QED
    BY <1>2, <2>2, <2>3
<1> QED
  BY <1>1, <1>3 DEF Effect, Shape, SupTyped

LEMMA BelowEffect ==
  ASSUME Shape, Supervise \/ ChildStep \/ Operator, ~Report
  PROVE  Effect
<1>1. CASE Supervise
  BY <1>1, LoadEffect, BeginEffect, CreateEffect, ObserverEffect, ActEffect, InterruptEffect,
     TryEffect, CleanEffect, ReportNothingEffect
  DEF Supervise, CreateVolume, InitializeSecrets, LaunchProxy, Resources, Containers, Volumes
<1>2. CASE ChildStep
  BY <1>2, GateEffect, AskEffect, RowEffect, ExitEffect DEF ChildStep
<1> QED
  BY <1>1, <1>2, OperatorEffect
------------------------------------------------------------------------------
(* Steps below the campaign keep the invariant.                                 *)
LEMMA StageFacts == StageCount \in Nat \ {0} /\ Seqs = 1 .. StageCount /\ 1 \in Seqs
BY SupervisionAssumption DEF StageCount, Seqs

LEMMA Initially == Init => IInv
<1> SUFFICES ASSUME Init PROVE IInv
  OBVIOUS
<1>1. TypeOK
  <2>1. next \in [Procs -> Seqs]
    BY StageFacts DEF Init
  <2> QED
    BY <2>1 DEF Init, SupervisionInit, TypeOK, EventFiles, HeadFiles, VerdictFiles, Places, Statuses
<1>2. Shape
  <2>1. SupTyped
    BY StageFacts DEF Init, SupervisionInit, Idle, SupTyped, SupFields, Statuses
  <2>2. rows \in [Seqs -> Ledgers]
    BY DEF Init, SupervisionInit, NoRows, Ledgers
  <2> QED
    BY <2>1, <2>2 DEF Init, SupervisionInit, Shape
<1>3. Recorded = {}
  BY DEF Init, Recorded
<1>4. Chain
  BY <1>3, FS_EmptySet DEF Init, Chain
<1>5. Supervised /\ Fresh
  BY DEF Init, SupervisionInit, Idle, Supervised, Fresh, Resting
<1>6. Sealed
  BY DEF Init, SupervisionInit, Sealed, NoRows, Ledgers
<1>7. Locking /\ Positions /\ NoResultLost
  BY DEF Init, Locking, Positions, Position, NoResultLost, Statuses
<1> QED
  BY <1>1, <1>2, <1>4, <1>5, <1>6, <1>7 DEF IInv

LEMMA TouchedStays ==
  ASSUME Shape, Sealed, Effect, NEW s \in Seqs, ~Untouched(s)
  PROVE  ~Untouched(s)'
<1>1. outcome'[s] = "passed" /\ outcome[s] = "passed" /\ sealed'[s] = sealed[s]
  BY DEF Effect, Untouched
<1>2. rows[s] = sealed[s] \/ rows[s].edits > sealed[s].edits
  BY <1>1 DEF Sealed
<1>3. rows[s].edits \in Nat /\ rows'[s].edits \in Nat /\ sealed[s].edits \in Nat
  BY DEF Shape, Effect, Sealed, Ledgers
<1>4. rows'[s] = rows[s] \/ rows'[s].edits > rows[s].edits
  BY DEF Effect
<1> QED
  BY <1>1, <1>2, <1>3, <1>4 DEF Untouched, Cases

LEMMA SealedStays ==
  ASSUME Shape, Sealed, Effect
  PROVE  Sealed'
<1> SUFFICES ASSUME NEW s \in Seqs, outcome[s] # "absent"
             PROVE  rows'[s] = sealed[s] \/ rows'[s].edits > sealed[s].edits
  BY DEF Sealed, Effect
<1>1. rows[s] = sealed[s] \/ rows[s].edits > sealed[s].edits
  BY DEF Sealed
<1>2. rows[s].edits \in Nat /\ rows'[s].edits \in Nat /\ sealed[s].edits \in Nat
  BY DEF Shape, Effect, Sealed, Ledgers
<1>3. rows'[s] = rows[s] \/ rows'[s].edits > rows[s].edits
  BY DEF Effect
<1> QED
  BY <1>1, <1>2, <1>3

LEMMA EffectKeeps ==
  ASSUME IInv, Effect, UNCHANGED campaignVars
  PROVE  IInv'
<1> USE DEF IInv
<1>0. UNCHANGED <<event, head, verdict, lock, pc, next, result, expected>>
  BY DEF campaignVars, files, locals
<1>1. TypeOK'
  BY <1>0 DEF TypeOK, Effect
<1>2. Supervised' /\ Fresh' /\ Locking'
  BY <1>0 DEF Supervised, Fresh, Locking, Effect, Resting
<1>3. Chain'
  BY <1>0 DEF Chain, Recorded, PassedBefore, AllPassed
<1>4. NoResultLost'
  <2> SUFFICES ASSUME NEW s \in Seqs
               PROVE  /\ event[s] \in Statuses => event[s] = outcome[s]
                      /\ event[s] = "partial" /\ outcome[s] # "absent" => ~Untouched(s)'
    BY <1>0 DEF NoResultLost, Effect
  <2> QED
    BY TouchedStays DEF NoResultLost
<1>5. Positions'
  <2> SUFFICES ASSUME NEW p \in Procs PROVE Position(p)'
    BY DEF Positions
  <2>1. Position(p) /\ next[p] \in Seqs
    BY DEF Positions, TypeOK
  <2>2. Judged(next[p], result[p]) => Judged(next[p], result[p])'
    BY <1>0, <2>1, TouchedStays DEF Judged, Effect
  <2>3. Written' = Written
    BY <1>0 DEF Written
  <2> QED
    BY <1>0, <2>1, <2>2, <2>3 DEF Position, PassedBefore, AllPassed
<1> QED
  BY <1>1, <1>2, <1>3, <1>4, <1>5, SealedStays DEF Effect

LEMMA ReportKeeps ==
  ASSUME IInv, Report, UNCHANGED campaignVars
  PROVE  IInv'
<1> USE DEF IInv
<1> DEFINE s == sup.seq
<1>0. UNCHANGED <<event, head, verdict, lock, pc, next, result, expected>>
  BY DEF campaignVars, files, locals
<1>1. /\ sup.step = "clean" /\ s \in Seqs /\ outcome[s] = "absent"
      /\ UNCHANGED <<rows, runs, model, children>>
      /\ FinalStatus \in Statuses
      /\ outcome' = [outcome EXCEPT ![s] = FinalStatus]
      /\ sealed' = [sealed EXCEPT ![s] = rows[s]]
      /\ author' = [author EXCEPT ![s] = sup.run]
      /\ instance' = [instance EXCEPT ![s] = IF FinalStatus = "passed" THEN sup.instance ELSE 0]
      /\ sup' = [sup EXCEPT !.step = "returned", !.status = FinalStatus]
  BY DEF Report, Finished, At, FinalStatus, Shape, SupTyped, Statuses, world
<1>2. lock \in Procs /\ pc[lock] = "supervising" /\ next[lock] = s
  BY <1>1 DEF Supervised
<1>3. event[s] = "absent"
  BY <1>2 DEF Positions, Position
<1>4. TypeOK'
  BY <1>0, <1>1 DEF TypeOK, Shape, SupTyped
<1>5. SupTyped' /\ sup'.seq = sup.seq /\ sup'.step = "returned"
  BY <1>1 DEF Shape, SupTyped, SupFields
<1>6. Shape'
  BY <1>1, <1>5 DEF Shape
<1>7. Supervised' /\ Fresh' /\ Locking'
  BY <1>0, <1>2, <1>5 DEF Supervised, Fresh, Locking, Resting
<1>8. Sealed'
  BY <1>1 DEF Sealed, Shape, TypeOK
<1>9. Chain'
  BY <1>0 DEF Chain, Recorded, PassedBefore, AllPassed
<1>10. \A t \in Seqs \ {s} : outcome'[t] = outcome[t] /\ Untouched(t)' = Untouched(t)
  BY <1>1 DEF Untouched, TypeOK, Sealed
<1>11. NoResultLost'
  BY <1>0, <1>3, <1>10 DEF NoResultLost, Statuses
<1>12. Positions'
  <2> SUFFICES ASSUME NEW p \in Procs PROVE Position(p)'
    BY DEF Positions
  <2>1. pc[p] \notin {"event", "event2"}
    BY <1>2 DEF Locking
  <2>2. Written' = Written
    BY <1>0 DEF Written
  <2> QED
    BY <1>0, <2>1, <2>2 DEF Positions, Position, PassedBefore, AllPassed
<1> QED
  BY <1>4, <1>6, <1>7, <1>8, <1>9, <1>11, <1>12
------------------------------------------------------------------------------
(* Steps of a process that holds the lock.                                      *)
LEMMA OthersIdle ==
  ASSUME IInv, NEW p \in Procs, pc[p] # "idle"
  PROVE  lock = p /\ \A q \in Procs : q # p => pc[q] = "idle"
BY DEF IInv, Locking

LEMMA SupervisorIdle ==
  ASSUME IInv, NEW p \in Procs, pc[p] \notin {"idle", "supervising"}
  PROVE  sup.step = "idle"
BY OthersIdle DEF IInv, Supervised

(* p moves on, or gives the lock back, and leaves the supervisor alone.         *)
LEMMA MoveKeeps ==
  ASSUME IInv, NEW p \in Procs, pc[p] # "idle", UNCHANGED supVars, sup.step = "idle",
         NEW at, pc' = [pc EXCEPT ![p] = at], lock' = lock \/ at = "idle",
         TypeOK', Position(p)', Chain', NoResultLost'
  PROVE  IInv'
<1>1. UNCHANGED <<outcome, rows, sealed, sup, runs, model, children>>
  BY DEF supVars, durable, world
<1>2. Shape' /\ Supervised' /\ Fresh' /\ Sealed'
  BY <1>1 DEF IInv, Shape, SupTyped, Supervised, Fresh, Sealed
<1>3. \A q \in Procs \ {p} : pc'[q] = "idle"
  BY OthersIdle DEF IInv, TypeOK
<1>4. Locking'
  BY <1>3, OthersIdle DEF IInv, Locking, TypeOK
<1>5. Positions'
  BY <1>3 DEF Positions, Position
<1> QED
  BY <1>2, <1>4, <1>5 DEF IInv

LEMMA ReadKeeps ==
  ASSUME IInv, NEW p \in Procs, pc[p] # "idle", UNCHANGED <<supVars, files>>, sup.step = "idle",
         NEW at \in Places, pc' = [pc EXCEPT ![p] = at], lock' = lock \/ (lock' = None /\ at = "idle"),
         next' \in [Procs -> Seqs], expected' \in [Procs -> Nat],
         result' \in [Procs -> Statuses \cup {"absent", "partial"}], Position(p)'
  PROVE  IInv'
<1>1. UNCHANGED <<event, head, verdict, outcome, instance, author, rows, sealed>>
  BY DEF files, supVars, durable
<1>2. TypeOK'
  BY <1>1 DEF IInv, TypeOK
<1>3. Chain'
  BY <1>1 DEF IInv, Chain, Recorded, PassedBefore, AllPassed
<1>4. NoResultLost'
  BY <1>1 DEF IInv, NoResultLost, Untouched
<1> QED
  BY <1>2, <1>3, <1>4, MoveKeeps

LEMMA ForgetsTyped ==
  ASSUME TypeOK, NEW p \in Procs, Forgets(p)
  PROVE  /\ pc' = [pc EXCEPT ![p] = "idle"] /\ pc'[p] = "idle" /\ "idle" \in Places
         /\ next' \in [Procs -> Seqs] /\ expected' \in [Procs -> Nat]
         /\ result' \in [Procs -> Statuses \cup {"absent", "partial"}]
         /\ Position(p)'
<1>1. /\ next' \in [Procs -> Seqs] /\ expected' \in [Procs -> Nat]
      /\ result' \in [Procs -> Statuses \cup {"absent", "partial"}]
      /\ pc' = [pc EXCEPT ![p] = "idle"]
      /\ pc'[p] = "idle" /\ "idle" \in Places
  BY StageFacts DEF Forgets, TypeOK, Places
<1>2. Position(p)'
  BY <1>1 DEF Position
<1> QED
  BY <1>1, <1>2

LEMMA ReleaseKeeps ==
  ASSUME IInv, NEW p \in Procs, pc[p] # "idle", UNCHANGED <<supVars, files>>, sup.step = "idle",
         Forgets(p), lock' = None
  PROVE  IInv'
<1>1. TypeOK
  BY DEF IInv
<1> QED
  BY <1>1, ForgetsTyped, ReadKeeps

LEMMA AdvanceKeeps ==
  ASSUME IInv, NEW p \in Procs, Advance(p)
  PROVE  IInv'
<1>1. /\ pc[p] = "idle" /\ lock = None /\ lock' = p
      /\ pc' = [pc EXCEPT ![p] = "loading"]
      /\ UNCHANGED <<event, head, verdict, next, result, expected>>
      /\ UNCHANGED <<outcome, instance, author, rows, sealed, sup, runs, model, children>>
  BY DEF Advance, supVars, durable, world, files
<1>2. \A q \in Procs : pc[q] = "idle" /\ pc'[q] = IF q = p THEN "loading" ELSE "idle"
  BY <1>1, CampaignAssumption DEF IInv, Locking, TypeOK
<1>3. sup.step = "idle"
  BY <1>1, CampaignAssumption DEF IInv, Supervised
<1>4. TypeOK'
  BY <1>1 DEF IInv, TypeOK, Places
<1>5. Shape' /\ Supervised' /\ Fresh' /\ Sealed'
  BY <1>1, <1>3 DEF IInv, Shape, SupTyped, Supervised, Fresh, Sealed
<1>6. Chain'
  BY <1>1 DEF IInv, Chain, Recorded, PassedBefore, AllPassed
<1>7. NoResultLost'
  BY <1>1 DEF IInv, NoResultLost, Untouched
<1>8. Locking' /\ Positions'
  BY <1>1, <1>2 DEF Locking, Positions, Position
<1> QED
  BY <1>4, <1>5, <1>6, <1>7, <1>8 DEF IInv

(* What a chain that holds says of the next stage.                              *)
LEMMA NextStage ==
  ASSUME IInv, NEW n \in Nat, Written = 1 .. n, n > 0 => event[n] = "passed"
  PROVE  /\ n <= StageCount /\ (n > 0 => n \in Seqs)
         /\ n = StageCount => AllPassed
         /\ n # StageCount => n + 1 \in Seqs /\ event[n + 1] = "absent"
         /\ \A t \in Seqs : t < n + 1 => event[t] = "passed" /\ (t # n => head[t] = "whole")
<1>1. Written \subseteq Seqs
  BY DEF Written
<1>2. n <= StageCount /\ (n > 0 => n \in Seqs)
  BY <1>1, StageFacts
<1>3. ASSUME NEW t \in Seqs, t < n + 1
      PROVE  event[t] = "passed" /\ (t # n => head[t] = "whole")
  <2>1. CASE t = n
    BY <2>1, <1>3, StageFacts
  <2>2. CASE t # n
    <3>1. t < n /\ n \in Seqs
      BY <2>2, <1>3, <1>2, StageFacts
    <3>2. n \in Written
      BY <3>1, StageFacts
    <3> QED
      BY <3>1, <3>2 DEF Written, IInv, Chain, PassedBefore
  <2> QED
    BY <2>1, <2>2
<1>4. n = StageCount => AllPassed
  BY <1>3, StageFacts DEF AllPassed
<1>5. n # StageCount => n + 1 \in Seqs /\ event[n + 1] = "absent"
  <2> SUFFICES ASSUME n # StageCount PROVE n + 1 \in Seqs /\ n + 1 \notin Written
    BY DEF Written
  <2> QED
    BY <1>2, StageFacts
<1> QED
  BY <1>2, <1>3, <1>4, <1>5

(* The process goes on from a chain that holds up to n and has its last head.    *)
LEMMA ProceedsPositioned ==
  ASSUME IInv, NEW p \in Procs, NEW n \in Nat, Written = 1 .. n, n > 0 => event[n] # "torn",
         event' = event, Proceeds(p, n), UNCHANGED <<outcome, verdict>>,
         \A t \in Seqs : head'[t] = IF t = n THEN "whole" ELSE head[t]
  PROVE  /\ \E at \in Places : /\ pc' = [pc EXCEPT ![p] = at]
                               /\ lock' = lock \/ (lock' = None /\ at = "idle")
         /\ next' \in [Procs -> Seqs] /\ expected' \in [Procs -> Nat]
         /\ result' \in [Procs -> Statuses \cup {"absent", "partial"}]
         /\ Position(p)'
<1>1. CASE n > 0 /\ event[n] # "passed"
  BY <1>1, ForgetsTyped DEF Proceeds, IInv
<1>2. CASE ~(n > 0 /\ event[n] # "passed")
  <2>1. /\ n <= StageCount /\ (n > 0 => n \in Seqs)
        /\ n = StageCount => AllPassed
        /\ n # StageCount => n + 1 \in Seqs /\ event[n + 1] = "absent"
        /\ \A t \in Seqs : t < n + 1 => event[t] = "passed" /\ (t # n => head[t] = "whole")
    BY <1>2, NextStage
  <2>2. CASE n = StageCount
    <3>1. /\ pc' = [pc EXCEPT ![p] = "completing"]
          /\ next' = [next EXCEPT ![p] = n]
          /\ UNCHANGED <<lock, result, expected>>
      BY <1>2, <2>2 DEF Proceeds
    <3>2. n \in Seqs
      BY <2>1, <2>2, StageFacts
    <3>3. pc'[p] = "completing" /\ AllPassed'
      BY <2>1, <2>2, <3>1 DEF IInv, TypeOK, AllPassed
    <3>4. Position(p)'
      BY <3>3 DEF Position
    <3>5. "completing" \in Places /\ next' \in [Procs -> Seqs]
      BY <3>1, <3>2 DEF IInv, TypeOK, Places
    <3> QED
      BY <3>1, <3>4, <3>5 DEF IInv, TypeOK
  <2>3. CASE n # StageCount
    <3>1. /\ pc' = [pc EXCEPT ![p] = "inspecting"]
          /\ next' = [next EXCEPT ![p] = n + 1]
          /\ UNCHANGED <<lock, result, expected>>
      BY <1>2, <2>3 DEF Proceeds
    <3>2. pc'[p] = "inspecting" /\ next'[p] = n + 1 /\ next' \in [Procs -> Seqs]
      BY <2>1, <2>3, <3>1 DEF IInv, TypeOK
    <3>3. event'[next'[p]] = "absent" /\ PassedBefore(next[p])'
      BY <2>1, <2>3, <3>2 DEF PassedBefore
    <3>4. Position(p)'
      BY <3>2, <3>3 DEF Position
    <3>5. "inspecting" \in Places
      BY DEF Places
    <3> QED
      BY <3>1, <3>2, <3>4, <3>5 DEF IInv, TypeOK
  <2> QED
    BY <2>2, <2>3
<1> QED
  BY <1>1, <1>2

LEMMA LoadKeeps ==
  ASSUME IInv, NEW p \in Procs, LoadEvents(p)
  PROVE  IInv'
<1>1. pc[p] = "loading" /\ UNCHANGED <<supVars, files>> /\ sup.step = "idle"
  BY SupervisorIdle DEF LoadEvents
<1>2. Count \in Nat
  <2>1. IsFiniteSet(Seqs) /\ Written \in SUBSET Seqs
    BY StageFacts, FS_Interval DEF Written
  <2> QED
    BY <2>1, FS_Subset, FS_CardinalityType DEF Count
<1>3. CASE ~ChainHolds(Count) /\ Forgets(p) /\ lock' = None
  BY <1>1, <1>3, ReleaseKeeps
<1>4. ASSUME ChainHolds(Count)
      PROVE  /\ Written = 1 .. Count
             /\ Count > 0 => Count \in Seqs /\ event[Count] # "torn"
             /\ Count > 0 => head[Count] # "torn"
  <2>1. Written = 1 .. Count /\ \A s \in 1 .. Count : EventHolds(s)
    BY <1>4 DEF ChainHolds
  <2>2. Count > 0 => Count \in 1 .. Count
    BY <1>2
  <2>3. Written \subseteq Seqs
    BY DEF Written
  <2> QED
    BY <1>4, <2>1, <2>2, <2>3 DEF ChainHolds, EventHolds, Statuses
<1>5. CASE /\ ChainHolds(Count) /\ Count > 0 /\ head[Count] = "absent"
           /\ pc' = [pc EXCEPT ![p] = "healing"]
           /\ next' = [next EXCEPT ![p] = Count]
           /\ UNCHANGED <<lock, result, expected>>
  <2>1. Count \in Seqs /\ event[Count] # "torn" /\ Written = 1 .. Count
    BY <1>4, <1>5
  <2>2. pc'[p] = "healing" /\ next'[p] = Count /\ next' \in [Procs -> Seqs]
    BY <1>5, <2>1 DEF IInv, TypeOK
  <2>3. event' = event /\ Written' = Written
    BY <1>1 DEF files, Written
  <2>4. Position(p)'
    <3>1. Written' = 1 .. next'[p] /\ event'[next'[p]] # "torn"
      BY <2>1, <2>2, <2>3
    <3> QED
      BY <2>2, <3>1 DEF Position
  <2>5. /\ result' \in [Procs -> Statuses \cup {"absent", "partial"}]
        /\ expected' \in [Procs -> Nat] /\ "healing" \in Places
    BY <1>5 DEF IInv, TypeOK, Places
  <2> QED
    BY <1>1, <1>5, <2>2, <2>4, <2>5, ReadKeeps
<1>6. CASE ChainHolds(Count) /\ (Count > 0 => head[Count] = "whole") /\ Proceeds(p, Count)
  <2>1. UNCHANGED <<event, head, verdict, outcome>>
    BY <1>1 DEF files, supVars, durable
  <2>2. /\ \E at \in Places : /\ pc' = [pc EXCEPT ![p] = at]
                              /\ lock' = lock \/ (lock' = None /\ at = "idle")
        /\ next' \in [Procs -> Seqs] /\ expected' \in [Procs -> Nat]
        /\ result' \in [Procs -> Statuses \cup {"absent", "partial"}]
        /\ Position(p)'
    <3>1. \A t \in Seqs : head'[t] = IF t = Count THEN "whole" ELSE head[t]
      BY <1>6, <2>1, StageFacts
    <3> QED
      BY <1>2, <1>4, <1>6, <2>1, <3>1, ProceedsPositioned
  <2> QED
    BY <1>1, <2>2, ReadKeeps
<1> QED
  BY <1>3, <1>5, <1>6 DEF LoadEvents

(* What the inspection of the next stage found is what will be recorded.         *)
LEMMA InspectionJudges ==
  ASSUME IInv, NEW s \in Seqs
  PROVE  /\ Inspection(s) = "partial" => Judged(s, "partial")
         /\ Inspection(s) = "complete" => outcome[s] \in Statuses /\ Judged(s, outcome[s])
<1>1. outcome[s] \in Statuses \cup {"absent"}
  BY DEF IInv, TypeOK
<1> QED
  BY <1>1 DEF Inspection, Judged

LEMMA JudgeKeeps ==
  ASSUME IInv, NEW p \in Procs, pc[p] = "inspecting", UNCHANGED <<supVars, files>>,
         sup.step = "idle", NEW status \in Statuses \cup {"partial"}, Judged(next[p], status),
         GoesWith(p, "event", status)
  PROVE  IInv'
<1>1. /\ pc' = [pc EXCEPT ![p] = "event"] /\ pc'[p] = "event" /\ "event" \in Places
      /\ next' = next /\ lock' = lock /\ expected' = expected
      /\ result' = [result EXCEPT ![p] = status] /\ result'[p] = status
  BY DEF GoesWith, IInv, TypeOK, Places
<1>2. event[next[p]] = "absent" /\ PassedBefore(next[p])
  BY DEF IInv, Positions, Position
<1>3. UNCHANGED <<event, head, verdict, outcome, rows, sealed>>
  BY DEF supVars, files, durable
<1>4. Judged(next[p], result[p])'
  BY <1>1, <1>3 DEF Judged, Untouched
<1>5. PassedBefore(next[p])' /\ event'[next'[p]] = "absent"
  BY <1>1, <1>2, <1>3 DEF PassedBefore
<1>6. Position(p)'
  BY <1>1, <1>4, <1>5 DEF Position
<1>7. /\ result' \in [Procs -> Statuses \cup {"absent", "partial"}]
      /\ next' \in [Procs -> Seqs] /\ expected' \in [Procs -> Nat]
  BY <1>1 DEF IInv, TypeOK
<1> QED
  BY <1>1, <1>6, <1>7, ReadKeeps

LEMMA FindKeeps ==
  ASSUME IInv, NEW p \in Procs, NEW at \in {"running", "probing"},
         pc[p] \in {"inspecting", "probing"}, UNCHANGED <<supVars, files, lock, next, result>>,
         pc' = [pc EXCEPT ![p] = at], expected' \in [Procs -> Nat], sup.step = "idle"
  PROVE  IInv'
<1>1. event[next[p]] = "absent" /\ PassedBefore(next[p])
  BY DEF IInv, Positions, Position
<1>2. UNCHANGED <<event, head>> /\ pc'[p] = at /\ at \in Places
  BY DEF files, IInv, TypeOK, Places
<1>3. PassedBefore(next[p])' /\ event'[next'[p]] = "absent"
  BY <1>1, <1>2 DEF PassedBefore
<1>4. Position(p)'
  BY <1>2, <1>3 DEF Position
<1>5. next' \in [Procs -> Seqs] /\ result' \in [Procs -> Statuses \cup {"absent", "partial"}]
  BY DEF IInv, TypeOK
<1>6. UNCHANGED <<supVars, files>>
  OBVIOUS
<1> QED
  BY <1>2, <1>4, <1>5, <1>6, ReadKeeps

LEMMA InspectKeeps ==
  ASSUME IInv, NEW p \in Procs, Inspect(p)
  PROVE  IInv'
<1>1. pc[p] = "inspecting" /\ UNCHANGED supVars /\ sup.step = "idle" /\ next[p] \in Seqs
  BY SupervisorIdle DEF Inspect, IInv, TypeOK
<1>2. CASE Inspection(next[p]) = "partial" /\ GoesWith(p, "event", "partial")
  <2>1. UNCHANGED <<supVars, files>>
    BY <1>1, <1>2 DEF GoesWith
  <2> QED
    BY <1>1, <1>2, <2>1, InspectionJudges, JudgeKeeps
<1>3. CASE Inspection(next[p]) = "complete" /\ GoesWith(p, "event", outcome[next[p]])
  <2>1. UNCHANGED <<supVars, files>>
    BY <1>1, <1>3 DEF GoesWith
  <2> QED
    BY <1>1, <1>3, <2>1, InspectionJudges, JudgeKeeps
<1>4. CASE Release(p)
  BY <1>1, <1>4, ReleaseKeeps DEF Release
<1>5. CASE Goes(p, "running") \/ Goes(p, "probing")
  BY <1>1, <1>5, FindKeeps DEF Goes, IInv, TypeOK
<1> QED
  BY <1>2, <1>3, <1>4, <1>5 DEF Inspect

LEMMA ProbeKeeps ==
  ASSUME IInv, NEW p \in Procs, Probe(p)
  PROVE  IInv'
<1>1. pc[p] = "probing" /\ UNCHANGED supVars /\ sup.step = "idle"
  BY SupervisorIdle DEF Probe
<1>2. CASE Release(p)
  BY <1>1, <1>2, ReleaseKeeps DEF Release
<1>3. CASE /\ pc' = [pc EXCEPT ![p] = "running"]
           /\ expected' = [expected EXCEPT ![p] = model.instance]
           /\ UNCHANGED <<files, lock, next, result, crashes>>
  <2>1. expected' \in [Procs -> Nat]
    BY <1>3 DEF IInv, TypeOK, Shape
  <2> QED
    BY <1>1, <1>3, <2>1, FindKeeps
<1> QED
  BY <1>2, <1>3 DEF Probe

(* The supervisor is entered, and left.                                          *)
LEMMA SupervisorSwitches ==
  ASSUME IInv, NEW p \in Procs, pc[p] # "idle", UNCHANGED <<durable, world, files>>,
         NEW at \in Places, pc' = [pc EXCEPT ![p] = at], lock' = lock \/ (lock' = None /\ at = "idle"),
         next' \in [Procs -> Seqs], expected' \in [Procs -> Nat],
         result' \in [Procs -> Statuses \cup {"absent", "partial"}], Position(p)', runs' \in Nat,
         SupTyped', sup'.step \in {"idle", "load"},
         sup'.step # "idle" => lock' = p /\ at = "supervising" /\ next'[p] = sup'.seq
  PROVE  IInv'
<1>1. /\ UNCHANGED <<event, head, verdict, outcome, instance, author, rows, sealed>>
      /\ UNCHANGED <<model, children>>
  BY DEF files, durable, world
<1>2. TypeOK'
  BY <1>1, OthersIdle DEF IInv, TypeOK
<1>3. Chain'
  BY <1>1 DEF IInv, Chain, Recorded, PassedBefore, AllPassed
<1>4. NoResultLost'
  BY <1>1 DEF IInv, NoResultLost, Untouched
<1>5. Shape' /\ Sealed'
  BY <1>1 DEF IInv, Shape, Sealed
<1>6. \A q \in Procs : pc'[q] = IF q = p THEN at ELSE "idle"
  BY OthersIdle DEF IInv, TypeOK
<1>7. Locking'
  BY <1>6, OthersIdle DEF Locking
<1>8. Supervised' /\ Fresh'
  BY <1>6 DEF Supervised, Fresh, Resting
<1>9. Positions'
  BY <1>6 DEF Positions, Position
<1> QED
  BY <1>2, <1>3, <1>4, <1>5, <1>7, <1>8, <1>9 DEF IInv

LEMMA IdleTyped == Idle.step = "idle" /\ (sup' = Idle => SupTyped' /\ sup'.step = "idle")
BY StageFacts DEF Idle, SupTyped, SupFields, Statuses

LEMMA RunStageKeeps ==
  ASSUME IInv, NEW p \in Procs, RunStage(p)
  PROVE  IInv'
<1>1. /\ pc[p] = "running"
      /\ UNCHANGED <<durable, world, files, lock, next, result, expected>>
      /\ pc' = [pc EXCEPT ![p] = "supervising"] /\ "supervising" \in Places
      /\ runs' = runs + 1
      /\ sup' = [Idle EXCEPT !.step = "load", !.seq = next[p], !.run = runs + 1]
  BY DEF RunStage, Enter, Goes, Places
<1>2. next[p] \in Seqs /\ runs \in Nat /\ lock = p /\ pc'[p] = "supervising"
  BY <1>1, OthersIdle DEF IInv, TypeOK, Shape
<1>3. SupTyped' /\ sup'.step = "load" /\ sup'.seq = next[p]
  BY <1>1, <1>2 DEF Idle, SupTyped, SupFields, Statuses
<1>4. event[next[p]] = "absent" /\ PassedBefore(next[p])
  BY <1>1 DEF IInv, Positions, Position
<1>5. PassedBefore(next[p])' /\ event'[next'[p]] = "absent"
  BY <1>1, <1>4 DEF PassedBefore, files
<1>6. Position(p)'
  BY <1>2, <1>5 DEF Position
<1>7. /\ next' \in [Procs -> Seqs] /\ expected' \in [Procs -> Nat] /\ runs' \in Nat
      /\ result' \in [Procs -> Statuses \cup {"absent", "partial"}]
  BY <1>1, <1>2 DEF IInv, TypeOK
<1> QED
  BY <1>1, <1>2, <1>3, <1>6, <1>7, SupervisorSwitches

LEMMA RunReturnsKeeps ==
  ASSUME IInv, NEW p \in Procs, RunReturns(p)
  PROVE  IInv'
<1>1. /\ pc[p] = "supervising" /\ UNCHANGED <<durable, world, runs>>
      /\ SupTyped' /\ sup'.step = "idle" /\ runs \in Nat /\ next[p] \in Seqs
  BY IdleTyped DEF RunReturns, IInv, Shape, TypeOK
<1>2. CASE Release(p)
  <2>1. Forgets(p) /\ lock' = None /\ UNCHANGED files /\ TypeOK
    BY <1>2 DEF Release, IInv
  <2> QED
    BY <1>1, <2>1, ForgetsTyped, SupervisorSwitches
<1>3. CASE Accepted(p) /\ GoesWith(p, "event", outcome[next[p]])
  <2>1. outcome[next[p]] \in Statuses /\ Judged(next[p], outcome[next[p]])
    BY <1>1, <1>3, InspectionJudges DEF Accepted
  <2>2. /\ pc' = [pc EXCEPT ![p] = "event"] /\ pc'[p] = "event" /\ "event" \in Places
        /\ UNCHANGED <<files, next, lock, expected>>
        /\ result' = [result EXCEPT ![p] = outcome[next[p]]] /\ result'[p] = outcome[next[p]]
    BY <1>3 DEF GoesWith, IInv, TypeOK, Places
  <2>3. event[next[p]] = "absent" /\ PassedBefore(next[p])
    BY <1>1 DEF IInv, Positions, Position
  <2>4. Judged(next[p], result[p])'
    BY <1>1, <2>1, <2>2 DEF Judged, Untouched, durable
  <2>5. PassedBefore(next[p])' /\ event'[next'[p]] = "absent"
    BY <2>2, <2>3 DEF PassedBefore, files
  <2>6. Position(p)'
    BY <2>2, <2>4, <2>5 DEF Position
  <2>7. /\ next' \in [Procs -> Seqs] /\ expected' \in [Procs -> Nat]
        /\ result' \in [Procs -> Statuses \cup {"absent", "partial"}]
    BY <2>1, <2>2 DEF IInv, TypeOK
  <2> QED
    BY <1>1, <2>2, <2>6, <2>7, SupervisorSwitches
<1> QED
  BY <1>2, <1>3 DEF RunReturns

LEMMA CrashKeeps ==
  ASSUME IInv, NEW p \in Procs, Crash(p)
  PROVE  IInv'
<1>1. /\ pc[p] # "idle" /\ Forgets(p) /\ TypeOK
      /\ lock' = None
      /\ UNCHANGED <<durable, world, files, runs>>
  BY OthersIdle DEF Crash, IInv
<1>2. SupTyped' /\ sup'.step = "idle" /\ runs' \in Nat
  <2>1. CASE pc[p] = "supervising"
    BY <1>1, <2>1, IdleTyped DEF Crash, IInv, Shape
  <2>2. CASE pc[p] # "supervising"
    BY <1>1, <2>2, SupervisorIdle DEF Crash, IInv, Shape, SupTyped
  <2> QED
    BY <2>1, <2>2
<1> QED
  BY <1>1, <1>2, ForgetsTyped, SupervisorSwitches
------------------------------------------------------------------------------
(* The writes: an event, its head, the verdict, each created and then filled.    *)
LEMMA CreateEventKeeps ==
  ASSUME IInv, NEW p \in Procs, CreateEvent(p)
  PROVE  IInv'
<1> DEFINE n == next[p]
<1>1. /\ pc[p] = "event" /\ event[n] = "absent" /\ n \in Seqs
      /\ event' = [event EXCEPT ![n] = "torn"]
      /\ pc' = [pc EXCEPT ![p] = "event2"] /\ pc'[p] = "event2"
      /\ UNCHANGED <<supVars, head, verdict, lock, next, result, expected>>
      /\ UNCHANGED <<outcome, instance, author, rows, sealed>>
      /\ sup.step = "idle"
  BY SupervisorIdle DEF CreateEvent, IInv, TypeOK, supVars, durable
<1>2. PassedBefore(n) /\ Judged(n, result[p])
  BY <1>1 DEF IInv, Positions, Position
<1>3. TypeOK'
  BY <1>1 DEF IInv, TypeOK, EventFiles, Places
<1>4. \A t \in Seqs : event'[t] = IF t = n THEN "torn" ELSE event[t]
  BY <1>1 DEF IInv, TypeOK
<1>5. PassedBefore(n)'
  BY <1>1, <1>2, <1>4, StageFacts DEF PassedBefore
<1>6. Judged(n, result[p])'
  BY <1>1, <1>2 DEF Judged, Untouched
<1>7. Position(p)'
  BY <1>1, <1>4, <1>5, <1>6 DEF Position
<1>8. Recorded' = Recorded
  BY <1>1, <1>4 DEF Recorded
<1>9. Chain'
  <2>1. ASSUME NEW s \in Seqs, event'[s] # "absent" PROVE PassedBefore(s)'
    <3>1. CASE s = n
      BY <1>1, <1>2, <1>4, <3>1, StageFacts DEF PassedBefore
    <3>2. CASE s # n
      BY <1>1, <1>4, <2>1, <3>2 DEF IInv, Chain, PassedBefore
    <3> QED
      BY <3>1, <3>2
  <2>2. verdict' # "absent" => AllPassed'
    BY <1>1 DEF IInv, Chain, AllPassed
  <2> QED
    BY <1>8, <2>1, <2>2 DEF IInv, Chain
<1>10. NoResultLost'
  BY <1>1, <1>4 DEF IInv, NoResultLost, Untouched, Statuses
<1> QED
  BY <1>1, <1>3, <1>7, <1>9, <1>10, MoveKeeps

(* The stages with a result are the ones up to the event that is filled.         *)
LEMMA RecordedGrows ==
  ASSUME IInv, NEW p \in Procs, FillEvent(p)
  PROVE  LET n == next[p]
         IN /\ n \in Seqs /\ result[p] \in Statuses \cup {"partial"} /\ PassedBefore(n)
            /\ \A t \in Seqs : event'[t] = IF t = n THEN result[p] ELSE event[t]
            /\ \A t \in Seqs : t > n => event[t] = "absent"
            /\ Recorded = 1 .. n - 1 /\ Cardinality(Recorded) = n - 1
            /\ Recorded' = 1 .. n /\ Cardinality(Recorded') = n
<1> DEFINE n == next[p]
<1>1. /\ pc[p] = "event2" /\ n \in Seqs /\ n \in Nat \ {0}
      /\ event' = [event EXCEPT ![n] = result[p]]
  BY StageFacts DEF FillEvent, IInv, TypeOK
<1>2. event[n] = "torn" /\ PassedBefore(n) /\ Judged(n, result[p])
  BY <1>1 DEF IInv, Positions, Position
<1>3. result[p] \in Statuses \cup {"partial"}
  BY <1>2 DEF Judged
<1>4. \A t \in Seqs : event'[t] = IF t = n THEN result[p] ELSE event[t]
  BY <1>1 DEF IInv, TypeOK
<1>5. \A t \in Seqs : t > n => event[t] = "absent"
  BY <1>1, <1>2, StageFacts DEF IInv, Chain, PassedBefore
<1>6. \A t \in Seqs : t < n => event[t] = "passed"
  BY <1>2 DEF PassedBefore
<1>7. Recorded = {t \in Seqs : t < n} /\ Recorded' = {t \in Seqs : t <= n}
  BY <1>1, <1>2, <1>3, <1>4, <1>5, <1>6, StageFacts DEF Recorded, Statuses
<1>8. Recorded = 1 .. n - 1 /\ Recorded' = 1 .. n
  BY <1>1, <1>7, StageFacts
<1>9. Cardinality(1 .. n - 1) = n - 1 /\ Cardinality(1 .. n) = n
  <2> DEFINE below == n - 1
  <2>1. below \in Int /\ n \in Int /\ 1 \in Int /\ below = n - 1
    BY <1>1
  <2>2. /\ Cardinality(1 .. below) = IF 1 > below THEN 0 ELSE below - 1 + 1
        /\ Cardinality(1 .. n) = IF 1 > n THEN 0 ELSE n - 1 + 1
    <3> HIDE DEF below
    <3> QED
      BY <2>1, FS_Interval
  <2> QED
    BY <1>1, <2>2
<1> QED
  BY <1>1, <1>2, <1>3, <1>4, <1>5, <1>8, <1>9

LEMMA FillEventKeeps ==
  ASSUME IInv, NEW p \in Procs, FillEvent(p)
  PROVE  IInv'
<1> DEFINE n == next[p]
<1>1. /\ pc[p] = "event2" /\ n \in Seqs
      /\ pc' = [pc EXCEPT ![p] = "head"] /\ pc'[p] = "head"
      /\ UNCHANGED <<supVars, head, verdict, lock, next, result, expected>>
      /\ UNCHANGED <<outcome, instance, author, rows, sealed>>
      /\ sup.step = "idle"
  BY SupervisorIdle DEF FillEvent, IInv, TypeOK, supVars, durable
<1>2. /\ PassedBefore(n) /\ result[p] \in Statuses \cup {"partial"}
      /\ \A t \in Seqs : event'[t] = IF t = n THEN result[p] ELSE event[t]
      /\ \A t \in Seqs : t > n => event[t] = "absent"
      /\ Recorded' = 1 .. Cardinality(Recorded')
  BY RecordedGrows
<1>3. event[n] = "torn" /\ Judged(n, result[p])
  BY <1>1 DEF IInv, Positions, Position
<1>4. TypeOK'
  <2>1. event' \in [Seqs -> EventFiles]
    BY <1>1, <1>2 DEF IInv, TypeOK, EventFiles, FillEvent
  <2> QED
    BY <1>1, <2>1 DEF IInv, TypeOK, Places
<1>5. Position(p)'
  <2>1. event'[n] = result[p] /\ event'[n] # "absent"
    BY <1>1, <1>2 DEF Statuses
  <2> QED
    BY <1>1, <2>1 DEF Position
<1>6. Chain'
  <2>1. ASSUME NEW s \in Seqs, event'[s] # "absent" PROVE PassedBefore(s)'
    <3>1. \A t \in Seqs : t < n => event'[t] = "passed" /\ head'[t] = "whole"
      BY <1>1, <1>2, StageFacts DEF PassedBefore
    <3>2. s <= n
      BY <1>1, <1>2, <2>1, StageFacts
    <3> QED
      BY <1>1, <3>1, <3>2, StageFacts DEF PassedBefore
  <2>2. verdict = "absent"
    BY <1>1, <1>3 DEF IInv, Chain, AllPassed
  <2> QED
    BY <1>1, <1>2, <2>1, <2>2 DEF Chain
<1>7. NoResultLost'
  <2> SUFFICES ASSUME NEW s \in Seqs
               PROVE  /\ event'[s] \in Statuses => event'[s] = outcome[s]
                      /\ event'[s] = "partial" /\ outcome[s] # "absent" => ~Untouched(s)
    BY <1>1 DEF NoResultLost, Untouched
  <2>1. CASE s = n
    BY <1>2, <1>3, <2>1 DEF Judged, Statuses
  <2>2. CASE s # n
    BY <1>2, <2>2 DEF IInv, NoResultLost
  <2> QED
    BY <2>1, <2>2
<1> QED
  BY <1>1, <1>4, <1>5, <1>6, <1>7, MoveKeeps

LEMMA CreateHeadKeeps ==
  ASSUME IInv, NEW p \in Procs, CreateHead(p)
  PROVE  IInv'
<1> DEFINE n == next[p]
           at == IF pc[p] = "head" THEN "head2" ELSE "healing2"
<1>1. /\ pc[p] \in {"head", "healing"} /\ head[n] = "absent" /\ n \in Seqs
      /\ head' = [head EXCEPT ![n] = "torn"]
      /\ pc' = [pc EXCEPT ![p] = at] /\ pc'[p] = at
      /\ UNCHANGED <<supVars, event, verdict, lock, next, result, expected>>
      /\ UNCHANGED <<outcome, instance, author, rows, sealed>>
      /\ sup.step = "idle"
  BY SupervisorIdle DEF CreateHead, IInv, TypeOK, supVars, durable
<1>2. TypeOK'
  BY <1>1 DEF IInv, TypeOK, HeadFiles, Places
<1>3. Recorded' = Recorded /\ Written' = Written
  BY <1>1 DEF Recorded, Written
<1>4. Position(p)'
  <2>1. pc[p] = "head" => event[n] = result[p] /\ event[n] # "absent"
    BY <1>1 DEF IInv, Positions, Position
  <2>2. pc[p] = "healing" => Written = 1 .. n /\ event[n] # "torn"
    BY <1>1 DEF IInv, Positions, Position
  <2>3. CASE pc[p] = "head"
    BY <1>1, <2>1, <2>3 DEF Position
  <2>4. CASE pc[p] = "healing"
    BY <1>1, <1>3, <2>2, <2>4 DEF Position
  <2> QED
    BY <1>1, <2>3, <2>4
<1>5. Chain'
  <2>1. ASSUME NEW s \in Seqs, event'[s] # "absent" PROVE PassedBefore(s)'
    <3>1. PassedBefore(s)
      BY <1>1, <2>1 DEF IInv, Chain
    <3>2. \A t \in Seqs : t < s => t # n
      BY <1>1, <3>1 DEF PassedBefore
    <3> QED
      BY <1>1, <3>1, <3>2 DEF PassedBefore, IInv, TypeOK
  <2> QED
    BY <1>1, <1>3, <2>1 DEF IInv, Chain, AllPassed
<1>6. NoResultLost'
  BY <1>1 DEF IInv, NoResultLost, Untouched
<1> QED
  BY <1>1, <1>2, <1>4, <1>5, <1>6, MoveKeeps

LEMMA FillHeadKeeps ==
  ASSUME IInv, NEW p \in Procs, FillHead(p)
  PROVE  IInv'
<1> DEFINE n == next[p]
<1>1. /\ pc[p] \in {"head2", "healing2"} /\ n \in Seqs
      /\ head' = [head EXCEPT ![n] = "whole"]
      /\ UNCHANGED <<supVars, event, verdict>>
      /\ UNCHANGED <<outcome, instance, author, rows, sealed>>
      /\ sup.step = "idle"
  BY SupervisorIdle DEF FillHead, IInv, TypeOK, supVars, durable
<1>2. \A t \in Seqs : head'[t] = IF t = n THEN "whole" ELSE head[t]
  BY <1>1 DEF IInv, TypeOK
<1>3. PICK at \in Places :
        /\ pc' = [pc EXCEPT ![p] = at] /\ (lock' = lock \/ (lock' = None /\ at = "idle"))
        /\ next' \in [Procs -> Seqs] /\ expected' \in [Procs -> Nat]
        /\ result' \in [Procs -> Statuses \cup {"absent", "partial"}]
        /\ Position(p)'
  <2>1. CASE pc[p] = "healing2" /\ Proceeds(p, n)
    <3>1. Written = 1 .. n /\ event[n] # "torn" /\ n \in Nat
      BY <1>1, <2>1, StageFacts DEF IInv, Positions, Position
    <3> QED
      BY <1>1, <1>2, <2>1, <3>1, ProceedsPositioned
  <2>2. CASE /\ pc[p] = "head2" /\ n = StageCount /\ result[p] = "passed"
             /\ pc' = [pc EXCEPT ![p] = "completing"]
             /\ UNCHANGED <<lock, next, result, expected>>
    <3>1. event[n] = "passed"
      BY <2>2 DEF IInv, Positions, Position
    <3>2. PassedBefore(n)
      BY <1>1, <3>1 DEF IInv, Chain
    <3>3. AllPassed
      BY <2>2, <3>1, <3>2, StageFacts DEF AllPassed, PassedBefore
    <3>4. AllPassed' /\ pc'[p] = "completing" /\ "completing" \in Places
      BY <1>1, <2>2, <3>3 DEF AllPassed, IInv, TypeOK, Places
    <3>5. Position(p)'
      BY <3>4 DEF Position
    <3> QED
      BY <2>2, <3>4, <3>5 DEF IInv, TypeOK
  <2>3. CASE Forgets(p) /\ lock' = None
    BY <2>3, ForgetsTyped DEF IInv
  <2> QED
    BY <2>1, <2>2, <2>3 DEF FillHead
<1>4. TypeOK'
  BY <1>1, <1>3 DEF IInv, TypeOK, HeadFiles
<1>5. Chain'
  <2>1. ASSUME NEW s \in Seqs, event'[s] # "absent" PROVE PassedBefore(s)'
    BY <1>1, <1>2, <2>1 DEF IInv, Chain, PassedBefore
  <2>2. Recorded' = Recorded
    BY <1>1 DEF Recorded
  <2> QED
    BY <1>1, <2>1, <2>2 DEF IInv, Chain, AllPassed
<1>6. NoResultLost'
  BY <1>1 DEF IInv, NoResultLost, Untouched
<1> QED
  BY <1>1, <1>3, <1>4, <1>5, <1>6, MoveKeeps

LEMMA CompleteKeeps ==
  ASSUME IInv, NEW p \in Procs, Complete(p)
  PROVE  IInv'
<1>1. pc[p] = "completing" /\ UNCHANGED supVars /\ sup.step = "idle" /\ AllPassed
  BY SupervisorIdle DEF Complete, IInv, Positions, Position
<1>2. CASE Release(p)
  BY <1>1, <1>2, ReleaseKeeps DEF Release
<1>3. CASE \E judgement \in Judgements : GoesWith(p, "verdict", judgement)
  <2>1. PICK judgement \in {"passed", "failed"} : GoesWith(p, "verdict", judgement)
    BY <1>3 DEF Judgements
  <2>2. /\ pc' = [pc EXCEPT ![p] = "verdict"] /\ pc'[p] = "verdict" /\ "verdict" \in Places
        /\ result' = [result EXCEPT ![p] = judgement] /\ result'[p] = judgement
        /\ UNCHANGED <<files, lock, next, expected>>
    BY <2>1 DEF GoesWith, IInv, TypeOK, Places
  <2>3. AllPassed'
    BY <1>1, <2>2 DEF AllPassed, files
  <2>4. Position(p)'
    BY <2>2, <2>3 DEF Position
  <2>5. /\ result' \in [Procs -> Statuses \cup {"absent", "partial"}]
        /\ next' \in [Procs -> Seqs] /\ expected' \in [Procs -> Nat]
    BY <2>2 DEF IInv, TypeOK, Statuses
  <2> QED
    BY <1>1, <2>2, <2>4, <2>5, ReadKeeps
<1> QED
  BY <1>2, <1>3 DEF Complete

LEMMA VerdictKeeps ==
  ASSUME IInv, NEW p \in Procs, CreateVerdict(p) \/ FillVerdict(p)
  PROVE  IInv'
<1>1. /\ pc[p] \in {"verdict", "verdict2"} /\ AllPassed
      /\ result[p] \in {"passed", "failed"} /\ sup.step = "idle"
      /\ UNCHANGED <<supVars, event, head>>
      /\ UNCHANGED <<outcome, instance, author, rows, sealed>>
  BY SupervisorIdle DEF CreateVerdict, FillVerdict, IInv, Positions, Position, supVars, durable
<1>2. AllPassed' /\ Recorded' = Recorded
  BY <1>1 DEF AllPassed, Recorded
<1>3. Chain'
  BY <1>1, <1>2 DEF IInv, Chain, PassedBefore
<1>4. NoResultLost'
  BY <1>1 DEF IInv, NoResultLost, Untouched
<1>5. CASE CreateVerdict(p)
  <2>1. /\ verdict' = "torn" /\ pc' = [pc EXCEPT ![p] = "verdict2"] /\ pc'[p] = "verdict2"
        /\ UNCHANGED <<lock, next, result, expected>>
    BY <1>5 DEF CreateVerdict, IInv, TypeOK
  <2>2. Position(p)'
    BY <1>1, <1>2, <2>1 DEF Position
  <2>3. TypeOK'
    BY <1>1, <2>1 DEF IInv, TypeOK, VerdictFiles, Places
  <2> QED
    BY <1>1, <1>3, <1>4, <2>1, <2>2, <2>3, MoveKeeps
<1>6. CASE FillVerdict(p)
  <2>1. verdict' = result[p] /\ Forgets(p) /\ lock' = None
    BY <1>6 DEF FillVerdict
  <2>2. /\ pc' = [pc EXCEPT ![p] = "idle"] /\ "idle" \in Places /\ Position(p)'
        /\ next' \in [Procs -> Seqs] /\ expected' \in [Procs -> Nat]
        /\ result' \in [Procs -> Statuses \cup {"absent", "partial"}]
    BY <2>1, ForgetsTyped DEF IInv
  <2>3. TypeOK'
    BY <1>1, <2>1, <2>2 DEF IInv, TypeOK, VerdictFiles
  <2> QED
    BY <1>1, <1>3, <1>4, <2>1, <2>2, <2>3, MoveKeeps
<1> QED
  BY <1>5, <1>6

LEMMA NextKeeps == IInv /\ [Next]_vars => IInv'
<1> SUFFICES ASSUME IInv, [Next]_vars PROVE IInv'
  OBVIOUS
<1>1. CASE Campaigns
  BY <1>1, AdvanceKeeps, LoadKeeps, InspectKeeps, ProbeKeeps, RunStageKeeps, RunReturnsKeeps,
     CreateEventKeeps, FillEventKeeps, CreateHeadKeeps, FillHeadKeeps, CompleteKeeps, VerdictKeeps
  DEF Campaigns, Step
<1>2. CASE Crashes
  BY <1>2, CrashKeeps DEF Crashes
<1>3. CASE Below
  <2>1. CASE Report
    BY <1>3, <2>1, ReportKeeps DEF Below
  <2>2. CASE ~Report
    BY <1>3, <2>2, BelowEffect, EffectKeeps DEF Below, IInv
  <2> QED
    BY <2>1, <2>2
<1>4. CASE UNCHANGED vars
  <2>1. UNCHANGED campaignVars /\ UNCHANGED supVars
    BY <1>4 DEF vars
  <2>2. Effect
    BY <2>1 DEF IInv, Shape, SupTyped, Effect, supVars, durable, world
  <2> QED
    BY <2>1, <2>2, EffectKeeps
<1> QED
  BY <1>1, <1>2, <1>3, <1>4 DEF Next

LEMMA Inductive == Spec => []IInv
BY Initially, NextKeeps, PTL DEF Spec
------------------------------------------------------------------------------
(* Every variable keeps its type, in every state of every campaign.             *)
THEOREM TypeCorrect == Spec => []TypeOK
<1>1. IInv => TypeOK
  BY DEF IInv
<1> QED
  BY <1>1, Inductive, PTL

(* What a supervised run wrote as its outcome is what the chain records for its *)
(* stage, and the campaign never gives up as partial a stage whose outcome      *)
(* still covers its rows: crashes between the outcome and the event included.   *)
THEOREM ResultsAreKept == Spec => []NoResultLost
<1>1. IInv => NoResultLost
  BY DEF IInv
<1> QED
  BY <1>1, Inductive, PTL

(* Only the supervisor that acts starts a child.                                *)
LEMMA ChildrenStay ==
  ASSUME Below, ~Act
  PROVE  \A c \in children' : \E d \in children : c.run = d.run
<1>1. CASE Supervise
  <2>1. children' \subseteq children
    BY <1>1 DEF Supervise, SpecRefused, Load, Begin, FindNothingStale, CreateVolume,
       InitializeSecrets, LaunchProxy, Create, StartObserver, StartObserverLost, Spawn, Attest,
       ModelEvidence, FinalizeTiming, Settle, Fail, Interrupt, StopObserver, Remove, Report,
       ReportNothing, world
  <2> QED
    BY <2>1
<1>2. CASE ChildStep
  <2>1. PICK c \in children : ScoringGate(c) \/ Ask(c) \/ Exit(c) \/ \E entries : Writes(c, entries)
    BY <1>2 DEF ChildStep, AppendRow, FailRow, WritePreflight
  <2>2. children' \subseteq children \/ \E at : Moves(c, at)
    BY <2>1 DEF ScoringGate, Ask, Writes, Exit
  <2>3. ASSUME NEW at, Moves(c, at)
        PROVE  \A e \in children' : \E d \in children : e.run = d.run
    <3>1. [c EXCEPT !.at = at].run = c.run
      OBVIOUS
    <3> QED
      BY <2>3, <3>1 DEF Moves
  <2> QED
    BY <2>2, <2>3
<1>3. CASE Operator
  BY <1>3 DEF Operator, ReplaceModel, StopModel, StartModel
<1> QED
  BY <1>1, <1>2, <1>3 DEF Below

LEMMA ChildrenOutsideStay ==
  ASSUME Campaigns \/ Crashes \/ UNCHANGED vars
  PROVE  children' = children
<1>1. CASE Campaigns
  BY <1>1 DEF Campaigns, Step, Advance, LoadEvents, Inspect, Probe, RunStage, Enter, RunReturns,
     CreateEvent, FillEvent, CreateHead, FillHead, Complete, CreateVerdict, FillVerdict,
     supVars, world
<1>2. CASE Crashes
  BY <1>2 DEF Crashes, Crash, world
<1>3. CASE UNCHANGED vars
  BY <1>3 DEF vars, supVars, world
<1> QED
  BY <1>1, <1>2, <1>3

(* A benchmark child is only ever started below the process that holds the lock, *)
(* for its stage, which has no outcome and no event, after passed stages whose   *)
(* heads are written: no sequence of crashes, adoptions and repeated commands    *)
(* scores a stage twice.                                                       *)
THEOREM NoStageRunsTwice == Spec => NeverRerun
<1> DEFINE Once == \A c \in children' : c.run \notin {d.run : d \in children} =>
                     /\ lock # None /\ pc[lock] = "supervising" /\ next[lock] = c.seq
                     /\ outcome[c.seq] = "absent" /\ event[c.seq] = "absent"
                     /\ \A t \in Seqs : t < c.seq => event[t] = "passed" /\ head[t] = "whole"
<1>1. ASSUME IInv, [Next]_vars PROVE Once
  <2>1. CASE Below /\ Act
    <3>1. /\ sup.step = "act"
          /\ children' = children \cup {[run |-> sup.run, seq |-> sup.seq, at |-> "gate"]}
      BY <2>1 DEF Act, At
    <3>2. outcome[sup.seq] = "absent"
      BY <1>1, <3>1 DEF IInv, Fresh, Resting
    <3>3. lock \in Procs /\ pc[lock] = "supervising" /\ next[lock] = sup.seq /\ lock # None
      BY <1>1, <3>1, CampaignAssumption DEF IInv, Supervised
    <3>4. event[sup.seq] = "absent" /\ PassedBefore(sup.seq)
      <4>1. Position(lock)
        BY <1>1, <3>3 DEF IInv, Positions
      <4> QED
        BY <3>3, <4>1 DEF Position
    <3> QED
      BY <3>1, <3>2, <3>3, <3>4 DEF PassedBefore
  <2>2. CASE Below /\ ~Act
    BY <2>2, ChildrenStay
  <2>3. CASE Campaigns \/ Crashes \/ UNCHANGED vars
    BY <2>3, ChildrenOutsideStay
  <2> QED
    BY <1>1, <2>1, <2>2, <2>3 DEF Next
<1>2. IInv /\ [Next]_vars => [Once]_vars
  BY <1>1
<1> QED
  BY <1>2, Inductive, PTL DEF Spec, NeverRerun
------------------------------------------------------------------------------
(* The chain implements the abstract ledger.                                    *)
LEMMA LedgerStarts == Init => Ledger!LedgerInit
<1> SUFFICES ASSUME Init PROVE Ledger!LedgerInit
  OBVIOUS
<1>1. Recorded = {} /\ verdict = "absent"
  BY DEF Init, Recorded
<1>2. Length = 0
  BY <1>1, FS_EmptySet DEF Length
<1>3. Log = <<>>
  BY <1>2 DEF Log
<1> QED
  BY <1>1, <1>3 DEF Ledger!LedgerInit

(* A step that fills no event leaves the log alone.                             *)
LEMMA LogStays ==
  ASSUME IInv, Recorded' = Recorded, \A s \in Recorded : event'[s] = event[s]
  PROVE  Log' = Log
<1>1. Length' = Length /\ Recorded = 1 .. Length
  BY DEF Length, IInv, Chain
<1> QED
  BY <1>1 DEF Log

(* A filled event is appended to a log of passes.                               *)
LEMMA FillAppends ==
  ASSUME IInv, NEW p \in Procs, FillEvent(p)
  PROVE  Ledger!LedgerNext
<1> DEFINE n == next[p]
<1>1. /\ n \in Seqs /\ result[p] \in Statuses \cup {"partial"} /\ PassedBefore(n)
      /\ \A t \in Seqs : event'[t] = IF t = n THEN result[p] ELSE event[t]
      /\ Length = n - 1 /\ Length' = n
  BY RecordedGrows DEF Length
<1>2. n \in Nat \ {0} /\ n - 1 \in Nat /\ n <= StageCount /\ StageCount \in Nat
  BY <1>1, StageFacts
<1>3. Log = [s \in 1 .. n - 1 |-> event[s]] /\ Log' = [s \in 1 .. n |-> event'[s]]
  BY <1>1 DEF Log
<1>4. \A s \in 1 .. n - 1 : s \in Seqs /\ s < n /\ event[s] = "passed"
  BY <1>1, <1>2, StageFacts DEF PassedBefore
<1>5. Log \in Seq({"passed"}) /\ Len(Log) = n - 1
  BY <1>2, <1>3, <1>4
<1>6. Log' = Append(Log, result[p])
  <2>1. Append(Log, result[p]) = [s \in 1 .. n |-> IF s = n THEN result[p] ELSE Log[s]]
    BY <1>2, <1>5
  <2>2. \A s \in 1 .. n : event'[s] = IF s = n THEN result[p] ELSE Log[s]
    BY <1>1, <1>2, <1>3, <1>4, StageFacts
  <2>3. [s \in 1 .. n |-> event'[s]] = [s \in 1 .. n |-> IF s = n THEN result[p] ELSE Log[s]]
    BY <2>2
  <2>4. Log' = [s \in 1 .. n |-> event'[s]]
    BY <1>3
  <2> HIDE DEF n
  <2> QED
    BY <2>1, <2>3, <2>4, Zenon
<1>7. verdict = "absent" /\ verdict' = verdict
  <2>1. event[n] = "torn"
    BY DEF FillEvent, IInv, Positions, Position
  <2> QED
    BY <1>1, <2>1 DEF FillEvent, IInv, Chain, AllPassed
<1>8. Ledger!Continues
  BY <1>3, <1>4 DEF Ledger!Continues
<1>9. Ledger!Append1(result[p])
  BY <1>2, <1>5, <1>6, <1>7, <1>8 DEF Ledger!Append1
<1>10. result[p] \in Ledger!Results
  BY <1>1 DEF Ledger!Results, Statuses
<1> QED
  BY <1>9, <1>10 DEF Ledger!LedgerNext

(* A verdict decides a log that is full of passes.                              *)
LEMMA VerdictDecides ==
  ASSUME IInv, NEW p \in Procs, FillVerdict(p)
  PROVE  Ledger!LedgerNext
<1>1. /\ verdict = "torn" /\ verdict' = result[p] /\ result[p] \in {"passed", "failed"}
      /\ AllPassed /\ event' = event
  BY DEF FillVerdict, IInv, Positions, Position
<1>2. Recorded = Seqs
  BY <1>1 DEF Recorded, AllPassed
<1>3. Length = StageCount
  BY <1>2, StageFacts, FS_Interval DEF Length
<1>4. Recorded' = Recorded
  BY <1>1 DEF Recorded
<1>5. Log' = Log
  BY <1>1, <1>4, LogStays
<1>6. Len(Log) = StageCount /\ Ledger!Continues
  BY <1>1, <1>3, StageFacts DEF Log, AllPassed, Ledger!Continues
<1>7. Ledger!Decide(result[p])
  BY <1>1, <1>5, <1>6 DEF Ledger!Decide
<1> QED
  BY <1>1, <1>7 DEF Ledger!LedgerNext, Ledger!Verdicts

LEMMA OthersStutter ==
  ASSUME IInv, [Next]_vars, \A p \in Procs : ~FillEvent(p) /\ ~FillVerdict(p)
  PROVE  UNCHANGED Ledger!ledgerVars
<1>1. CASE \E p \in Procs : CreateEvent(p)
  <2>1. PICK p \in Procs : CreateEvent(p)
    BY <1>1
  <2>2. next[p] \in Seqs /\ event[next[p]] = "absent" /\ verdict' = verdict
        /\ event' = [event EXCEPT ![next[p]] = "torn"]
    BY <2>1 DEF CreateEvent, IInv, TypeOK
  <2>3. Recorded' = Recorded /\ \A s \in Recorded : event'[s] = event[s]
    BY <2>2 DEF Recorded, IInv, TypeOK
  <2> QED
    BY <2>2, <2>3, LogStays DEF Ledger!ledgerVars
<1>2. CASE \E p \in Procs : CreateVerdict(p)
  <2>1. verdict = "absent" /\ verdict' = "torn" /\ event' = event
    BY <1>2 DEF CreateVerdict
  <2>2. Log' = Log
    BY <2>1, LogStays DEF Recorded
  <2> QED
    BY <2>1, <2>2 DEF Ledger!ledgerVars
<1>3. CASE \A p \in Procs : ~CreateEvent(p) /\ ~CreateVerdict(p)
  <2>1. event' = event /\ verdict' = verdict
    BY <1>3 DEF Next, vars, Campaigns, Crashes, Below, Step, Advance, LoadEvents, Inspect, Probe,
       RunStage, RunReturns, CreateHead, FillHead, Complete, Crash, Release, Goes, GoesWith, files,
       campaignVars
  <2>2. Log' = Log
    BY <2>1, LogStays DEF Recorded
  <2> QED
    BY <2>1, <2>2 DEF Ledger!ledgerVars
<1> QED
  BY <1>1, <1>2, <1>3

(* The files of a campaign are an append-only log of stage results in the       *)
(* frozen order, ended by the first that is not a pass, with one verdict over a *)
(* log of passes, whatever processes advance it and wherever they are killed.  *)
THEOREM LedgerImplemented == Spec => ImplementsLedger
<1>1. IInv /\ [Next]_vars => [Ledger!LedgerNext]_(Ledger!ledgerVars)
  BY FillAppends, VerdictDecides, OthersStutter
<1> QED
  BY <1>1, LedgerStarts, Inductive, PTL DEF Spec, ImplementsLedger, Ledger!LedgerSpec
==============================================================================
