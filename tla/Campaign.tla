------------------------------ MODULE Campaign ------------------------------
(* advance_qualification_campaign over the supervised stages of Supervision.   *)
(* Any number of processes try to advance the campaign of one directory: under *)
(* an exclusive lock each re-reads the chain of events, inspects the next      *)
(* stage, adopts, runs or gives it up, and records the result as an event file *)
(* followed by a head file. A process may be killed between any two steps and  *)
(* in the middle of a write, which creates the file before it fills it.        *)
EXTENDS Supervision

CONSTANTS Procs,        \* processes that run the advance command
          None,
          MaxCrashes    \* bound: processes killed

ASSUME CampaignAssumption == MaxCrashes \in Nat /\ None \notin Procs

VARIABLES event,        \* durable: each stage's event file
          head,         \* durable: each stage's head file
          verdict,      \* durable: the campaign's outcome file
          lock,         \* holder of the directory's lock
          pc, next, result, expected,  \* each process: where it is, its stage, result, instance
          crashes

files == <<event, head, verdict>>
locals == <<pc, next, result, expected>>
campaignVars == <<files, lock, locals, crashes>>
vars == <<supVars, campaignVars>>

StageCount == 1 + 2 * Slots
Statuses == {"passed", "failed", "interrupted"}
EventFiles == Statuses \cup {"absent", "torn", "partial"}
Places == {"idle", "loading", "healing", "healing2", "inspecting", "probing", "running",
           "supervising", "event", "event2", "head", "head2", "completing", "verdict", "verdict2"}
HeadFiles == {"absent", "torn", "whole"}
VerdictFiles == {"absent", "torn", "passed", "failed"}

Written == {s \in Seqs : event[s] # "absent"}
Count == Cardinality(Written)
Recorded == {s \in Seqs : event[s] \notin {"absent", "torn"}}
UsedInstances == {instance[s] : s \in {t \in Seqs : event[t] = "passed"}}

Init ==
  /\ SupervisionInit
  /\ event = [s \in Seqs |-> "absent"]
  /\ head = [s \in Seqs |-> "absent"]
  /\ verdict = "absent"
  /\ lock = None
  /\ pc = [p \in Procs |-> "idle"]
  /\ next = [p \in Procs |-> 1]
  /\ result = [p \in Procs |-> "absent"]
  /\ expected = [p \in Procs |-> 0]
  /\ crashes = 0

(* The command returns or raises: its descriptor is closed, the lock is free.  *)
Forgets(p) ==
  /\ pc' = [pc EXCEPT ![p] = "idle"]
  /\ next' = [next EXCEPT ![p] = 1]
  /\ result' = [result EXCEPT ![p] = "absent"]
  /\ expected' = [expected EXCEPT ![p] = 0]
Release(p) ==
  /\ Forgets(p)
  /\ lock' = None
  /\ UNCHANGED <<files, crashes>>
Goes(p, at) ==
  /\ pc' = [pc EXCEPT ![p] = at]
  /\ UNCHANGED <<files, lock, next, result, expected, crashes>>
GoesWith(p, at, status) ==
  /\ pc' = [pc EXCEPT ![p] = at]
  /\ result' = [result EXCEPT ![p] = status]
  /\ UNCHANGED <<files, lock, next, expected, crashes>>

------------------------------------------------------------------------------
(* The command opens the lock file and waits for the lock.                     *)
Advance(p) ==
  /\ pc[p] = "idle" /\ lock = None
  /\ lock' = p
  /\ pc' = [pc EXCEPT ![p] = "loading"]
  /\ UNCHANGED <<supVars, files, next, result, expected, crashes>>

(* _load_events. The names must be 1..n, every event must say what a new        *)
(* inspection of its stage says, every head but the last must be there.        *)
EventHolds(s) ==
  \/ event[s] = "partial"
  \/ event[s] \in Statuses /\ Inspection(s) = "complete" /\ event[s] = outcome[s]
ChainHolds(n) ==
  /\ Written = 1 .. n
  /\ \A s \in 1 .. n : EventHolds(s)
  /\ \A s \in 1 .. n - 1 : head[s] = "whole"
  /\ n > 0 => head[n] # "torn"
  /\ Cardinality(UsedInstances) = Cardinality({s \in 1 .. n : event[s] = "passed"})

(* A failed chain is final, a full one is to be judged, any other has a next stage. *)
ProceedsAfterFailure(p, n) ==
  /\ pc' = [pc EXCEPT ![p] = IF n = StageCount THEN "completing" ELSE "inspecting"]
  /\ next' = [next EXCEPT ![p] = IF n = StageCount THEN n ELSE n + 1]
  /\ UNCHANGED <<lock, result, expected>>
ProceedsPastEnd(p, n) ==
  IF n > 0 /\ event[n] # "passed" THEN Forgets(p) /\ lock' = None
  ELSE /\ pc' = [pc EXCEPT ![p] = IF n = StageCount THEN "completing" ELSE "inspecting"]
       /\ next' = [next EXCEPT ![p] = n + 1]
       /\ UNCHANGED <<lock, result, expected>>
Proceeds(p, n) ==
  IF n > 0 /\ event[n] # "passed" THEN Forgets(p) /\ lock' = None
  ELSE /\ pc' = [pc EXCEPT ![p] = IF n = StageCount THEN "completing" ELSE "inspecting"]
       /\ next' = [next EXCEPT ![p] = IF n = StageCount THEN n ELSE n + 1]
       /\ UNCHANGED <<lock, result, expected>>
LoadNeverHeals(p) ==
  /\ pc[p] = "loading"
  /\ \/ ~ChainHolds(Count) /\ Forgets(p) /\ lock' = None
     \/ ChainHolds(Count) /\ Proceeds(p, Count)
  /\ UNCHANGED <<supVars, files, crashes>>
LoadNeedsHead(p) ==
  /\ pc[p] = "loading"
  /\ LET holds == ChainHolds(Count) /\ (Count > 0 => head[Count] = "whole") IN
     \/ ~holds /\ Forgets(p) /\ lock' = None
     \/ holds /\ Proceeds(p, Count)
  /\ UNCHANGED <<supVars, files, crashes>>
LoadEvents(p) ==
  /\ pc[p] = "loading"
  /\ \/ ~ChainHolds(Count) /\ Forgets(p) /\ lock' = None
     \/ /\ ChainHolds(Count) /\ Count > 0 /\ head[Count] = "absent"
        /\ pc' = [pc EXCEPT ![p] = "healing"]
        /\ next' = [next EXCEPT ![p] = Count]
        /\ UNCHANGED <<lock, result, expected>>
     \/ /\ ChainHolds(Count) /\ (Count > 0 => head[Count] = "whole")
        /\ Proceeds(p, Count)
  /\ UNCHANGED <<supVars, files, crashes>>

(* _inspect_stage on the next stage: a finished one is adopted as it is, one    *)
(* that left a trace and no outcome is given up, a new one is run.             *)
Reused(s) == outcome[s] = "passed" /\ instance[s] \in UsedInstances
Inspect(p) ==
  /\ pc[p] = "inspecting"
  /\ LET s == next[p] IN
       \/ Inspection(s) = "partial" /\ GoesWith(p, "event", "partial")
       \/ Inspection(s) = "complete" /\
            IF Reused(s) THEN Release(p) ELSE GoesWith(p, "event", outcome[s])
       \/ Inspection(s) = "absent" /\ Goes(p, IF s = 1 THEN "running" ELSE "probing")
  /\ UNCHANGED supVars

(* The readiness probe of a scored stage: an offline or used model means that   *)
(* the operator must restart it (exit status 2); nothing has been written.     *)
Ready == model.up /\ model.completed = 0
Probe(p) ==
  /\ pc[p] = "probing"
  /\ IF Ready /\ model.instance \notin UsedInstances
     THEN /\ pc' = [pc EXCEPT ![p] = "running"]
          /\ expected' = [expected EXCEPT ![p] = model.instance]
          /\ UNCHANGED <<files, lock, next, result, crashes>>
     ELSE Release(p)
  /\ UNCHANGED supVars

(* QualificationCampaignStageRunner.run: supervise, then inspect the outcome    *)
(* the run left. Any disagreement raises, and no event is written.             *)
RunStage(p) ==
  /\ pc[p] = "running" /\ Enter(next[p])
  /\ Goes(p, "supervising")
Accepted(p) ==
  LET s == next[p] IN
  /\ Inspection(s) = "complete" /\ outcome[s] = sup.status
  /\ outcome[s] = "passed" /\ s > 1 => instance[s] = expected[p]
  /\ ~Reused(s)
RunReturns(p) ==
  /\ pc[p] = "supervising" /\ At("returned")
  /\ sup' = Idle
  /\ IF Accepted(p) THEN GoesWith(p, "event", outcome[next[p]]) ELSE Release(p)
  /\ UNCHANGED <<durable, world, runs, faults>>

(* _write_event: the event file, then its head; each is created, then filled.  *)
CreateEvent(p) ==
  /\ pc[p] = "event" /\ event[next[p]] = "absent"
  /\ event' = [event EXCEPT ![next[p]] = "torn"]
  /\ pc' = [pc EXCEPT ![p] = "event2"]
  /\ UNCHANGED <<supVars, head, verdict, lock, next, result, expected, crashes>>
FillEvent(p) ==
  /\ pc[p] = "event2"
  /\ event' = [event EXCEPT ![next[p]] = result[p]]
  /\ pc' = [pc EXCEPT ![p] = "head"]
  /\ UNCHANGED <<supVars, head, verdict, lock, next, result, expected, crashes>>
CreateHead(p) ==
  /\ pc[p] \in {"head", "healing"} /\ head[next[p]] = "absent"
  /\ head' = [head EXCEPT ![next[p]] = "torn"]
  /\ pc' = [pc EXCEPT ![p] = IF pc[p] = "head" THEN "head2" ELSE "healing2"]
  /\ UNCHANGED <<supVars, event, verdict, lock, next, result, expected, crashes>>
FillHead(p) ==
  /\ pc[p] \in {"head2", "healing2"}
  /\ head' = [head EXCEPT ![next[p]] = "whole"]
  /\ \/ pc[p] = "healing2" /\ Proceeds(p, next[p])
     \/ /\ pc[p] = "head2" /\ next[p] = StageCount /\ result[p] = "passed"
        /\ pc' = [pc EXCEPT ![p] = "completing"]
        /\ UNCHANGED <<lock, next, result, expected>>
     \/ /\ pc[p] = "head2" /\ ~(next[p] = StageCount /\ result[p] = "passed")
        /\ Forgets(p) /\ lock' = None
  /\ UNCHANGED <<supVars, event, verdict, crashes>>

(* _complete_campaign: one instance per stage, then the verdict of the scored   *)
(* rows, which must still be those the outcomes hashed. A verdict already      *)
(* there is only compared.                                                     *)
Judgements == IF \A s \in Seqs : s > 1 => Untouched(s) THEN {"passed", "failed"} ELSE {"failed"}
Complete(p) ==
  /\ pc[p] = "completing"
  /\ IF Cardinality(UsedInstances) = StageCount /\ verdict = "absent"
     THEN \E judgement \in Judgements : GoesWith(p, "verdict", judgement) ELSE Release(p)
  /\ UNCHANGED supVars
CreateVerdict(p) ==
  /\ pc[p] = "verdict" /\ verdict = "absent"
  /\ verdict' = "torn"
  /\ pc' = [pc EXCEPT ![p] = "verdict2"]
  /\ UNCHANGED <<supVars, event, head, lock, next, result, expected, crashes>>
FillVerdict(p) ==
  /\ pc[p] = "verdict2"
  /\ verdict' = result[p]
  /\ Forgets(p) /\ lock' = None
  /\ UNCHANGED <<supVars, event, head, crashes>>

(* The process is killed. The kernel frees its lock; its benchmark child, its   *)
(* observer and its Docker resources stay.                                     *)
Crash(p) ==
  /\ pc[p] # "idle" /\ crashes < MaxCrashes
  /\ crashes' = crashes + 1
  /\ Forgets(p)
  /\ lock' = IF lock = p THEN None ELSE lock
  /\ sup' = IF pc[p] = "supervising" THEN Idle ELSE sup
  /\ UNCHANGED <<durable, world, runs, faults, files>>

Step(p) ==
    \/ Advance(p) \/ LoadEvents(p) \/ Inspect(p) \/ Probe(p) \/ RunStage(p)
    \/ RunReturns(p) \/ CreateEvent(p) \/ FillEvent(p) \/ CreateHead(p) \/ FillHead(p)
    \/ Complete(p) \/ CreateVerdict(p) \/ FillVerdict(p)

Campaigns == \E p \in Procs : Step(p)
Crashes == \E p \in Procs : Crash(p)
Below == (Supervise \/ ChildStep \/ Operator) /\ UNCHANGED campaignVars

Next == Campaigns \/ Crashes \/ Below

(* The operator repeats the command and, between runs, replaces a model that    *)
(* has served requests or that a passed stage names. Commands end.             *)
Fairness ==
  /\ WF_vars(Campaigns)
  /\ WF_vars(Supervise /\ UNCHANGED campaignVars)
  /\ WF_vars(ChildStep /\ UNCHANGED campaignVars)
  /\ WF_vars((ReplaceModel \/ StartModel) /\ UNCHANGED campaignVars)

Spec == Init /\ [][Next]_vars
FairSpec == Spec /\ Fairness
------------------------------------------------------------------------------
(* Every variable has its type.                                                *)
TypeOK ==
  /\ event \in [Seqs -> EventFiles]
  /\ head \in [Seqs -> HeadFiles]
  /\ verdict \in VerdictFiles
  /\ lock \in Procs \cup {None}
  /\ pc \in [Procs -> Places]
  /\ next \in [Procs -> Seqs]
  /\ result \in [Procs -> Statuses \cup {"absent", "partial"}]
  /\ expected \in [Procs -> Nat]
  /\ outcome \in [Seqs -> Statuses \cup {"absent"}]
  /\ instance \in [Seqs -> Nat]
  /\ author \in [Seqs -> Nat]

(* A result the supervisor has written is what the campaign records, and it is  *)
(* not given up as partial while the rows it covers are the rows of the file.  *)
NoResultLost ==
  \A s \in Seqs : /\ event[s] \in Statuses => event[s] = outcome[s]
                  /\ event[s] = "partial" /\ outcome[s] # "absent" => ~Untouched(s)

(* A passed outcome speaks of its own run alone: its rows are that run's, but for *)
(* a failure an orphan of the stage may have put in their place, and the model  *)
(* served nobody else, before the run or between its two probes.               *)
PassedEvidenceIsOwn ==
  \A s \in Seqs : outcome[s] = "passed" /\ Untouched(s) =>
    /\ foreign[s] = 0
    /\ \A n \in DOMAIN sealed[s].entries :
         sealed[s].entries[n].failure \/ sealed[s].entries[n].run = author[s]

(* What a run has left behind. A passed one left nothing of its own: no resource *)
(* and no observer, and no benchmark child. What any other has left, a process   *)
(* lost to a signal included, is gone before a later run makes its own.         *)
PassedLeavesNothing ==
  \A s \in Seqs : outcome[s] = "passed" =>
    /\ author[s] \notin observers
    /\ \A kind \in Resources : <<kind, author[s]>> \notin owned
PassedLeavesNoChild ==
  \A s \in Seqs : outcome[s] = "passed" => \A c \in children : c.run # author[s]
Serving == sup.step \in InTry \ {"load", "begin", "stale"} /\ Stage # "score-direct"
WorksAlone ==
  Serving => /\ \A r \in observers : r = sup.run
             /\ \A made \in owned : made[2] = sup.run
LeftoversContained == PassedLeavesNothing /\ PassedLeavesNoChild /\ WorksAlone

(* A benchmark child is started only for the stage that is next, without an     *)
(* outcome, below the process that holds the campaign's lock.                  *)
NeverRerun ==
  [][\A c \in children' : c.run \notin {d.run : d \in children} =>
       /\ lock # None /\ pc[lock] = "supervising" /\ next[lock] = c.seq
       /\ outcome[c.seq] = "absent" /\ event[c.seq] = "absent"
       /\ \A t \in Seqs : t < c.seq => event[t] = "passed" /\ head[t] = "whole"]_vars

(* The event chain is the abstract ledger, in the order of the stages.          *)
Length == Cardinality(Recorded)
Log == [s \in 1 .. Length |-> event[s]]
Ledger == INSTANCE StageLedger WITH Stages <- StageCount, log <- Log,
            decision <- IF verdict \in {"absent", "torn"} THEN "open" ELSE verdict
ImplementsLedger == Ledger!LedgerSpec

(* A campaign whose command is repeated ends: in a final event, a verdict, or   *)
(* a file torn by a crash, unless the operator runs out of models.             *)
Torn == verdict = "torn" \/ \E s \in Seqs : event[s] = "torn" \/ head[s] = "torn"
Ended == verdict \notin {"absent", "torn"} \/ \E s \in Recorded : event[s] # "passed"
Tampered == \E s \in Seqs : ~Untouched(s)
CampaignEnds == <>(Ended \/ (Torn /\ lock = None) \/ Tampered \/ model.instance = MaxInstances)
==============================================================================
