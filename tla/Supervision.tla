----------------------------- MODULE Supervision -----------------------------
(* supervise_qualification_runtime: one leased run of a campaign stage. It     *)
(* checks that the stage has left no evidence, takes the model's counters,     *)
(* creates labelled Docker resources and an observer child, runs the benchmark *)
(* child, proves that the model served nobody else, cleans up and only then    *)
(* writes the stage's outcome. Around it: the model the operator restarts, the *)
(* benchmark children (a killed supervisor leaves them running), and Docker.   *)
EXTENDS Integers, Sequences, FiniteSets, TLC

CONSTANTS Slots,        \* scored direct/proxy pairs (6 in a v1 campaign, 8 in v2)
          MaxInstances, \* bound: model processes the operator starts
          MaxFaults     \* bound: faults to the supervisor, model stops,
                        \* commands and writes that fail without a trace

ASSUME SupervisionAssumption ==
  /\ Slots \in Nat /\ MaxInstances \in Nat /\ MaxFaults \in Nat

VARIABLES outcome,      \* durable: each stage's outcome document
          instance,     \* durable: the model instance its model evidence names
          evidence,     \* durable: reserved evidence files, benchmark rows apart
          rows,         \* durable: the benchmark ledger: its rows, by run, which of them only record
                        \* a failure, and how often the file was rewritten
          sealed,       \* durable: the rows the outcome's hash covers
          author,       \* the run that wrote the outcome
          owned,        \* labelled Docker resources, with the run that made them
          observers,    \* runs whose observer child is alive
          children,     \* benchmark children, orphans included
          model,        \* the model server: up, its instance, requests it has completed
          foreign,      \* requests of others the model of a run has served, before a scored
                        \* run or between the two probes of any run
          sup,          \* the supervisor's local variables
          runs, faults

Seqs == 1 .. 1 + 2 * Slots
StageOf(s) == IF s = 1 THEN "preflight"
              ELSE IF s % 2 = 0 THEN "score-direct" ELSE "score-proxy"

durable == <<outcome, instance, evidence, rows, sealed, author>>
world == <<owned, observers, children, model, foreign>>
supVars == <<durable, world, sup, runs, faults>>

Cases == 1
Containers == {"proxy", "initializer"}
Volumes == {"secrets", "timing"}
Resources == Containers \cup Volumes

(* The calls of one run, in their order; cleanup and the outcome follow.       *)
Calls(stage) ==
  CASE stage = "score-direct" -> <<"load", "begin", "act", "acting", "collect", "finalize", "settle">>
    [] stage = "preflight" -> <<"load", "begin", "stale", "secrets", "initializer", "observer",
                                "proxy", "attest", "act", "acting", "collect", "settle">>
    [] OTHER -> <<"load", "begin", "stale", "secrets", "timing", "initializer", "observer",
                  "proxy", "attest", "act", "acting", "collect", "finalize", "settle">>
NextCall(stage, call) ==
  LET calls == Calls(stage)
      here == CHOOSE n \in DOMAIN calls : calls[n] = call
  IN calls[here + 1]
InTry == {"load", "begin", "stale", "secrets", "timing", "initializer", "observer", "proxy",
          "attest", "act", "acting", "collect", "finalize", "settle"}

(* No two writes of a ledger leave the same bytes: a row carries its run's       *)
(* identifier and durations.                                                   *)
NoRows == [edits |-> 0, entries |-> <<>>]

Idle == [step |-> "idle", seq |-> 1, run |-> 0, instance |-> 0, before |-> 0, attempts |-> 0,
         exit |-> 0, status |-> "failed", reports |-> FALSE, watching |-> FALSE,
         tried |-> {}, todo |-> <<>>, refused |-> {}]

SupervisionInit ==
  /\ outcome = [s \in Seqs |-> "absent"]
  /\ instance = [s \in Seqs |-> 0]
  /\ evidence = [s \in Seqs |-> {}]
  /\ rows = [s \in Seqs |-> NoRows]
  /\ sealed = [s \in Seqs |-> NoRows]
  /\ author = [s \in Seqs |-> 0]
  /\ owned = {} /\ observers = {} /\ children = {}
  /\ model = [up |-> TRUE, instance |-> 1, completed |-> 0]
  /\ foreign = [s \in Seqs |-> 0]
  /\ sup = Idle
  /\ runs = 0 /\ faults = 0

At(call) == sup.step = call
Stage == StageOf(sup.seq)
Proceed == NextCall(Stage, sup.step)
Scored == Stage # "preflight"
CleanupOrder == <<"observer", "proxy", "initializer", "secrets", "timing">>

(* The end of the try block: whatever ended it, cleanup comes next.            *)
Leave(status) == [sup EXCEPT !.step = "clean", !.status = status, !.todo = CleanupOrder,
                             !.before = 0, !.attempts = 0, !.exit = 0]

(* What the adapter's inspect sees: a passed outcome is valid only while the    *)
(* rows it hashed are the rows of the file, and as many as there are cases.    *)
Untouched(s) == outcome[s] = "passed" => rows[s] = sealed[s] /\ Len(sealed[s].entries) = Cases
HasEvidence(s) == evidence[s] # {} \/ rows[s].entries # <<>>
InspectionEvidenceFirst(s) ==
  IF HasEvidence(s) THEN "partial" ELSE IF outcome[s] # "absent" THEN "complete" ELSE "absent"
Inspection(s) ==
  IF outcome[s] # "absent" THEN IF Untouched(s) THEN "complete" ELSE "partial"
  ELSE IF HasEvidence(s) THEN "partial" ELSE "absent"
------------------------------------------------------------------------------

(* supervise_qualification_runtime is entered for stage s.                     *)
Enter(s) ==
  /\ At("idle")
  /\ runs' = runs + 1
  /\ sup' = [Idle EXCEPT !.step = "load", !.seq = s, !.run = runs + 1]
  /\ UNCHANGED <<durable, world, faults>>

(* _load_runtime_spec, _stage_binding: until they succeed there is no outcome  *)
(* path and nothing will be written.                                           *)
SpecRefused ==
  /\ At("load") /\ faults < MaxFaults
  /\ faults' = faults + 1
  /\ sup' = Leave("failed")
  /\ UNCHANGED <<durable, world, runs>>

Load ==
  /\ At("load")
  /\ sup' = IF outcome[sup.seq] # "absent" THEN Leave("failed")
            ELSE IF HasEvidence(sup.seq) THEN [Leave("failed") EXCEPT !.reports = TRUE]
            ELSE [sup EXCEPT !.step = Proceed, !.reports = TRUE]
  /\ UNCHANGED <<durable, world, runs, faults>>

(* The stages a scored run builds on must have passed, untouched.              *)
PriorStages(s) == CASE StageOf(s) = "preflight" -> {}
                    [] StageOf(s) = "score-direct" -> {1}
                    [] OTHER -> {1, s - 1}
PriorPassed(s) == \A p \in PriorStages(s) : outcome[p] = "passed" /\ Untouched(p)
(* A scored run needs a model that has served nothing, and another process than *)
(* the treatment before it.                                                    *)
Before(s) == IF StageOf(s) = "score-direct" THEN 1 ELSE s - 1
Distinct(s) == StageOf(s) # "preflight" => model.instance # instance[Before(s)]
Unused(s) == StageOf(s) # "preflight" => model.completed = 0

(* ModelEvidenceSession.begin takes the counters the window starts from.       *)
Begin ==
  /\ At("begin") /\ model.up
  /\ PriorPassed(sup.seq) /\ Unused(sup.seq) /\ Distinct(sup.seq)
  /\ sup' = [sup EXCEPT !.step = Proceed, !.instance = model.instance, !.before = model.completed]
  /\ foreign' = [foreign EXCEPT ![sup.seq] = IF Scored THEN model.completed ELSE 0]
  /\ UNCHANGED <<durable, owned, observers, children, model, runs, faults>>

(* Fault: labelled resources of an earlier run are not looked for.              *)
FindPortFree ==
  /\ At("stale") /\ observers = {}
  /\ sup' = [sup EXCEPT !.step = Proceed]
  /\ UNCHANGED <<durable, world, runs, faults>>

(* _assert_port_available, _assert_no_stale_owned_resources: any labelled      *)
(* resource of this manifest, and any observer still on its port, is refused.  *)
FindNothingStale ==
  /\ At("stale") /\ owned = {} /\ observers = {}
  /\ sup' = [sup EXCEPT !.step = Proceed]
  /\ UNCHANGED <<durable, world, runs, faults>>

(* A Docker resource is marked as attempted before the command runs, so one    *)
(* that appears although the command fails is cleaned up too.                  *)
Reserves == IF At("timing") THEN {"capture"} ELSE {}
Create(kind) ==
  /\ At(kind)
  /\ evidence' = [evidence EXCEPT ![sup.seq] = @ \cup Reserves]
  /\ \E exists, succeeds \in BOOLEAN :
       /\ succeeds => exists
       /\ owned' = IF exists THEN owned \cup {<<kind, sup.run>>} ELSE owned
       /\ sup' = [(IF succeeds THEN [sup EXCEPT !.step = Proceed] ELSE Leave("failed"))
                    EXCEPT !.tried = @ \cup {kind}]
  /\ UNCHANGED <<outcome, instance, rows, sealed, author, observers, children, model, foreign,
                 runs, faults>>
CreateVolume == \E kind \in Volumes : Create(kind)
InitializeSecrets == Create("initializer")
LaunchProxy == Create("proxy")

(* The observer child reserves its own ledger when it starts.                  *)
Spawn(watching) ==
  /\ At("observer")
  /\ observers' = observers \cup {sup.run}
  /\ evidence' = [evidence EXCEPT ![sup.seq] = @ \cup {"observer"}]
  /\ UNCHANGED <<outcome, instance, rows, sealed, author, owned, children, model, foreign, runs>>
StartObserver ==
  /\ Spawn(TRUE)
  /\ sup' = [sup EXCEPT !.step = Proceed, !.watching = TRUE]
  /\ UNCHANGED faults
(* A signal after the fork and before the assignment: nobody holds the child.  *)
StartObserverLost ==
  /\ Spawn(FALSE) /\ faults < MaxFaults
  /\ faults' = faults + 1
  /\ sup' = Leave("interrupted")

Attest ==
  /\ At("attest")
  /\ evidence' = [evidence EXCEPT ![sup.seq] = @ \cup {"attestation"}]
  /\ sup' = [sup EXCEPT !.step = Proceed]
  /\ UNCHANGED <<outcome, instance, rows, sealed, author, world, runs, faults>>

(* The action: the benchmark child runs, and the supervisor waits for it.      *)
Act ==
  /\ At("act")
  /\ children' = children \cup {[run |-> sup.run, seq |-> sup.seq, at |-> "gate"]}
  /\ sup' = [sup EXCEPT !.step = Proceed]
  /\ UNCHANGED <<durable, owned, observers, model, foreign, runs, faults>>
------------------------------------------------------------------------------
(* A benchmark child passes its scoring gate, asks the model, writes its row     *)
(* and exits. A request can be served and recorded, fail, or be served after   *)
(* its client gave it up.                                                      *)
Own(c) == At("acting") /\ c.run = sup.run
InWindow == sup.step \in InTry \ {"load", "begin", "finalize", "settle"}
Moves(c, at) == children' = (children \ {c}) \cup {[c EXCEPT !.at = at]}
Served(c) ==
  /\ model' = [model EXCEPT !.completed = @ + 1]
  /\ foreign' = IF ~Own(c) /\ InWindow /\ model.instance = sup.instance
                THEN [foreign EXCEPT ![sup.seq] = @ + 1] ELSE foreign
ScoringGate(c) ==
  /\ c \in children /\ c.at = "gate"
  /\ rows[c.seq].entries = <<>> /\ PriorPassed(c.seq)
  /\ Moves(c, "ask")
  /\ UNCHANGED <<durable, owned, observers, model, foreign, sup, runs, faults>>
Ask(c) ==
  /\ c \in children /\ c.at = "ask"
  /\ Moves(c, "row")
  /\ \/ /\ model.up /\ Served(c)
        /\ sup' = IF Own(c) THEN [sup EXCEPT !.attempts = @ + 1] ELSE sup
     \/ model.up /\ Served(c) /\ UNCHANGED sup
     \/ UNCHANGED <<model, foreign, sup>>
  /\ UNCHANGED <<durable, owned, observers, runs, faults>>
(* A scored child appends its row, scored or failed; when there are rows of its *)
(* case already, whoever wrote them, append_failure puts its failure row in     *)
(* their place. A preflight writes its ledger once, and never over another.    *)
Writes(c, entries) ==
  /\ c \in children /\ c.at = "row"
  /\ Moves(c, "exit")
  /\ rows' = [rows EXCEPT ![c.seq] = [edits |-> @.edits + 1, entries |-> entries]]
  /\ UNCHANGED <<outcome, instance, evidence, sealed, author, owned, observers, model, foreign, sup,
                 runs, faults>>
Row(c, failure) == [run |-> c.run, failure |-> failure]
AppendRow(c) ==
  /\ StageOf(c.seq) # "preflight"
  /\ Writes(c, Append(rows[c.seq].entries, Row(c, FALSE)))
FailRow(c) ==
  /\ StageOf(c.seq) # "preflight" /\ rows[c.seq].entries # <<>>
  /\ Writes(c, <<Row(c, TRUE)>>)
WritePreflight(c) ==
  /\ StageOf(c.seq) = "preflight" /\ rows[c.seq].entries = <<>>
  /\ Writes(c, <<Row(c, FALSE)>>)
(* It ends at any point; its attempt ledger is written last, and only once.     *)
Completes(c) == c.at = "exit" /\ "attempts" \notin evidence[c.seq]
Exit(c) ==
  /\ c \in children
  /\ children' = children \ {c}
  /\ evidence' = [evidence EXCEPT ![c.seq] = IF Completes(c) THEN @ \cup {"attempts"} ELSE @]
  /\ sup' = IF Own(c)
            THEN [sup EXCEPT !.step = Proceed, !.exit = IF Completes(c) THEN 0 ELSE 1] ELSE sup
  /\ UNCHANGED <<outcome, instance, rows, sealed, author, owned, observers, model, foreign, runs,
                 faults>>
------------------------------------------------------------------------------
(* After the child: liveness, model evidence (kept whatever it finds), timing   *)
(* and reconciliation. A child that failed stays the reason of the failure.    *)
RequestWindowUncounted == model.up /\ model.instance = sup.instance
RequestWindow == model.up /\ model.instance = sup.instance
                 /\ model.completed - sup.before = sup.attempts
ModelEvidence ==
  /\ At("collect")
  /\ evidence' = [evidence EXCEPT ![sup.seq] = @ \cup {"model"}]
  /\ sup' = IF RequestWindow \/ sup.exit # 0 THEN [sup EXCEPT !.step = Proceed] ELSE Leave("failed")
  /\ UNCHANGED <<outcome, instance, rows, sealed, author, world, runs, faults>>
FinalizeTiming ==
  /\ At("finalize")
  /\ evidence' = [evidence EXCEPT ![sup.seq] = @ \cup {"timings"}]
  /\ sup' = [sup EXCEPT !.step = Proceed]
  /\ UNCHANGED <<outcome, instance, rows, sealed, author, world, runs, faults>>
OutputComplete == Len(rows[sup.seq].entries) = Cases
Settle ==
  /\ At("settle")
  /\ evidence' = [evidence EXCEPT ![sup.seq] =
                    IF Stage = "score-proxy" THEN @ \cup {"reconciliation"} ELSE @]
  /\ sup' = Leave(IF sup.exit = 0 /\ OutputComplete THEN "passed" ELSE "failed")
  /\ UNCHANGED <<outcome, instance, rows, sealed, author, world, runs, faults>>

(* Any call of the try block may fail.                                         *)
Fail ==
  /\ sup.step \in InTry \ ({"load", "acting"} \cup Resources)
  /\ sup' = Leave("failed")
  /\ UNCHANGED <<durable, world, runs, faults>>

(* SIGINT or SIGTERM in the try block; the wait for the child kills it. From    *)
(* cleanup on, signals are ignored.                                            *)
Interrupt ==
  /\ sup.step \in InTry /\ faults < MaxFaults
  /\ faults' = faults + 1
  /\ sup' = Leave("interrupted")
  /\ children' = IF At("acting") THEN {c \in children : c.run # sup.run} ELSE children
  /\ UNCHANGED <<durable, owned, observers, model, foreign, runs>>
------------------------------------------------------------------------------
(* _cleanup_runtime: one resource per step, in this order. Each removal is      *)
(* written "failed = failed or remove(...)": after a failure none is tried.    *)
Now == Head(sup.todo)
Removes(kind) == kind \in sup.tried /\ sup.refused = {}
Cleaned(refused) == [sup EXCEPT !.todo = Tail(@), !.refused = @ \cup refused]
Cleaning(kind) == At("clean") /\ sup.todo # <<>> /\ Now = kind
StopObserver ==
  /\ Cleaning("observer")
  /\ \/ /\ observers' = IF sup.watching THEN observers \ {sup.run} ELSE observers
        /\ sup' = Cleaned({})
     \/ sup.watching /\ sup' = Cleaned({"observer"}) /\ UNCHANGED observers
  /\ UNCHANGED <<durable, owned, children, model, foreign, runs, faults>>
Remove ==
  \E kind \in Resources :
    /\ Cleaning(kind)
    /\ \/ ~Removes(kind) /\ sup' = Cleaned({}) /\ UNCHANGED owned
       \/ Removes(kind) /\ sup' = Cleaned({}) /\ owned' = owned \ {<<kind, sup.run>>}
       \/ Removes(kind) /\ sup' = Cleaned({kind}) /\ UNCHANGED owned
    /\ UNCHANGED <<durable, observers, children, model, foreign, runs, faults>>

(* _write_outcome, once, after cleanup; a failed cleanup fails the stage.       *)
Finished == At("clean") /\ sup.todo = <<>>
FinalStatusKept == sup.status
FinalStatus == IF sup.refused # {} THEN "failed" ELSE sup.status
Report ==
  /\ Finished /\ sup.reports /\ outcome[sup.seq] = "absent"
  /\ outcome' = [outcome EXCEPT ![sup.seq] = FinalStatus]
  /\ instance' = [instance EXCEPT ![sup.seq] = IF FinalStatus = "passed" THEN sup.instance ELSE 0]
  /\ sealed' = [sealed EXCEPT ![sup.seq] = rows[sup.seq]]
  /\ author' = [author EXCEPT ![sup.seq] = sup.run]
  /\ sup' = [sup EXCEPT !.step = "returned", !.status = FinalStatus]
  /\ UNCHANGED <<evidence, rows, world, runs, faults>>
ReportNothing ==
  /\ Finished
  /\ sup.reports => faults < MaxFaults
  /\ faults' = IF sup.reports THEN faults + 1 ELSE faults
  /\ sup' = [sup EXCEPT !.step = "returned", !.status = "failed"]
  /\ UNCHANGED <<durable, world, runs>>
------------------------------------------------------------------------------
(* The operator replaces the model between runs; it may also stop by itself.   *)
Stops == model.up /\ model' = [model EXCEPT !.up = FALSE]
ReplaceModel ==
  /\ At("idle") /\ Stops
  /\ model.completed > 0 \/ \E s \in Seqs : instance[s] = model.instance
  /\ UNCHANGED <<durable, owned, observers, children, foreign, sup, runs, faults>>
StopModel ==
  /\ Stops /\ faults < MaxFaults
  /\ faults' = faults + 1
  /\ UNCHANGED <<durable, owned, observers, children, foreign, sup, runs>>
StartModel ==
  /\ ~model.up /\ model.instance < MaxInstances
  /\ model' = [up |-> TRUE, instance |-> model.instance + 1, completed |-> 0]
  /\ UNCHANGED <<durable, owned, observers, children, foreign, sup, runs, faults>>

Supervise ==
  \/ SpecRefused \/ Load \/ Begin \/ FindNothingStale \/ CreateVolume
  \/ InitializeSecrets \/ LaunchProxy
  \/ StartObserver \/ StartObserverLost \/ Attest \/ Act \/ ModelEvidence \/ FinalizeTiming \/ Settle
  \/ Fail \/ Interrupt \/ StopObserver \/ Remove \/ Report \/ ReportNothing
ChildStep == \E c \in children :
  ScoringGate(c) \/ Ask(c) \/ AppendRow(c) \/ FailRow(c) \/ WritePreflight(c) \/ Exit(c)
Operator == ReplaceModel \/ StopModel \/ StartModel
==============================================================================
