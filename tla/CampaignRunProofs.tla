--------------------------- MODULE CampaignRunProofs ---------------------------
(* What a passed outcome says of its run, for any number of stages, processes,   *)
(* model instances, faults and crashes. A run keeps one identity; the model's     *)
(* counter covers the run's own requests and those of others as long as its       *)
(* process is the one the run began with; a child that reached its end has left    *)
(* a row of its own or a failure in its place; and what the run created is still    *)
(* to be cleaned up, unless cleaning has failed.                                    *)
EXTENDS CampaignProofs

Window == InTry \ {"load", "begin", "finalize", "settle"}
Closed == {"finalize", "settle"}
Alive == sup.step \notin {"idle", "returned"}
Passing == At("clean") /\ sup.status = "passed"
Named == Resources \cup {"observer"}

SupRecord ==
  [step : InTry \cup {"idle", "clean", "returned"}, seq : Seqs, run : Nat, instance : Nat,
   before : Nat, attempts : Nat, exit : {0, 1}, status : Statuses, reports : BOOLEAN,
   watching : BOOLEAN, tried : SUBSET Resources, todo : Seq(Named), refused : SUBSET Named]
OnPath(call) == \E n \in DOMAIN Calls(Stage) : Calls(Stage)[n] = call
RunTyped ==
  /\ sup \in SupRecord
  /\ sup.step \in InTry => OnPath(sup.step)
  /\ foreign \in [Seqs -> Nat]
  /\ sup.step \in {"load", "begin"} => sup.attempts = 0

(* No run is entered twice, and a run at work has reported nothing yet.           *)
Identities ==
  /\ sup.step # "idle" => sup.run = runs
  /\ \A c \in children : c.run <= runs /\ (sup.step # "idle" /\ c.run = sup.run => c.seq = sup.seq)
  /\ \A s \in Seqs : author[s] <= runs /\ (Alive => author[s] # sup.run)
  /\ \A r \in observers : r \in Nat /\ r <= runs
  /\ \A kind, r : <<kind, r>> \in owned => r \in Nat /\ r <= runs

(* Whatever the run at work has created, cleanup knows of and has still to remove,  *)
(* or it has failed already and so will the outcome.                              *)
Awaits(kind) == sup.refused # {} \/ \E n \in DOMAIN sup.todo : sup.todo[n] = kind
Leftovers ==
  /\ Alive => \A kind \in Resources : <<kind, sup.run>> \in owned =>
       kind \in sup.tried /\ (At("clean") => Awaits(kind))
  /\ Alive /\ sup.run \in observers =>
       /\ sup.watching \/ (At("clean") /\ sup.status # "passed")
       /\ At("clean") => Awaits("observer") \/ sup.status # "passed"
  /\ PassedLeavesNothing

(* Between the probes the counter has grown by at least what the run asked for and   *)
(* what others did, unless another process answers for the model.                  *)
Exclusive ==
  /\ sup.step \in Window =>
       /\ model.instance >= sup.instance
       /\ model.instance = sup.instance =>
            model.completed - sup.before >= sup.attempts + foreign[sup.seq]
  /\ (sup.step \in Closed /\ sup.exit = 0) \/ Passing => foreign[sup.seq] = 0
  /\ \A s \in Seqs : outcome[s] = "passed" => foreign[s] = 0

(* A row of the run, or a failure in its place, or more rows than a case has.       *)
Holds(entries, run) ==
  entries # <<>> /\ (Len(entries) = 1 => entries[1].failure \/ entries[1].run = run)
OwnRows ==
  /\ \A c \in children : c.at = "exit" => Holds(rows[c.seq].entries, c.run)
  /\ (sup.step \in Closed \cup {"collect"} /\ sup.exit = 0) \/ Passing =>
       Holds(rows[sup.seq].entries, sup.run)
  /\ \A s \in Seqs : outcome[s] = "passed" => Holds(sealed[s].entries, author[s])

RunInv == RunTyped /\ Identities /\ Leftovers /\ Exclusive /\ OwnRows
------------------------------------------------------------------------------
(* The order of the calls: a run begins, works in its window, and leaves it after     *)
(* the model evidence.                                                              *)
LEMMA NextCallIs ==
  ASSUME NEW stage, NEW n \in DOMAIN Calls(stage),
         \A m \in DOMAIN Calls(stage) : Calls(stage)[m] = Calls(stage)[n] => m = n
  PROVE  NextCall(stage, Calls(stage)[n]) = Calls(stage)[n + 1]
<1>1. (CHOOSE m \in DOMAIN Calls(stage) : Calls(stage)[m] = Calls(stage)[n]) = n
  OBVIOUS
<1> QED
  BY <1>1 DEF NextCall

LEMMA StageKinds == Stage \in {"preflight", "score-direct", "score-proxy"}
BY DEF Stage, StageOf

Follows(call, step) ==
  /\ call = "load" => step = "begin"
  /\ call \in {"begin"} \cup (Window \ {"acting", "collect"}) => step \in Window \ {"collect"}
  /\ call = "begin" /\ Stage # "score-direct" => step = "stale"
  /\ call = "act" => step = "acting"
  /\ call = "acting" => step = "collect"
  /\ call \in {"collect", "finalize"} => step \in Closed

LEMMA ProceedFollows ==
  ASSUME OnPath(sup.step), sup.step # "settle"
  PROVE  Proceed \in InTry /\ OnPath(Proceed) /\ Follows(sup.step, Proceed)
<1>1. PICK n \in DOMAIN Calls(Stage) : Calls(Stage)[n] = sup.step
  BY DEF OnPath
<1>2. ASSUME NEW k \in Nat, DOMAIN Calls(Stage) = 1 .. k, Calls(Stage)[k] = "settle",
             \A m \in 1 .. k : Calls(Stage)[m] = Calls(Stage)[n] => m = n
      PROVE  n + 1 \in DOMAIN Calls(Stage) /\ Proceed = Calls(Stage)[n + 1] /\ OnPath(Proceed)
  <2>1. n \in 1 .. k - 1 /\ n + 1 \in DOMAIN Calls(Stage)
    BY <1>1, <1>2
  <2>2. Proceed = Calls(Stage)[n + 1]
    BY <1>1, <1>2, NextCallIs DEF Proceed
  <2> QED
    BY <2>1, <2>2 DEF OnPath
<1>3. CASE Stage = "score-direct"
  <2>1. Calls(Stage) = <<"load", "begin", "act", "acting", "collect", "finalize", "settle">>
    BY <1>3 DEF Calls
  <2>2. n + 1 \in DOMAIN Calls(Stage) /\ Proceed = Calls(Stage)[n + 1] /\ OnPath(Proceed)
    BY <1>1, <1>2, <2>1
  <2> QED
    BY <1>1, <1>3, <2>1, <2>2 DEF Follows, Window, Closed, InTry
<1>4. CASE Stage = "preflight"
  <2>1. Calls(Stage) = <<"load", "begin", "stale", "secrets", "initializer", "observer",
                         "proxy", "attest", "act", "acting", "collect", "settle">>
    BY <1>4 DEF Calls
  <2>2. n + 1 \in DOMAIN Calls(Stage) /\ Proceed = Calls(Stage)[n + 1] /\ OnPath(Proceed)
    BY <1>1, <1>2, <2>1
  <2> QED
    BY <1>1, <2>1, <2>2 DEF Follows, Window, Closed, InTry
<1>5. CASE Stage = "score-proxy"
  <2>1. Calls(Stage) = <<"load", "begin", "stale", "secrets", "timing", "initializer", "observer",
                         "proxy", "attest", "act", "acting", "collect", "finalize", "settle">>
    BY <1>5 DEF Calls
  <2>2. n + 1 \in DOMAIN Calls(Stage) /\ Proceed = Calls(Stage)[n + 1] /\ OnPath(Proceed)
    BY <1>1, <1>2, <2>1
  <2> QED
    BY <1>1, <2>1, <2>2 DEF Follows, Window, Closed, InTry
<1> QED
  BY <1>3, <1>4, <1>5, StageKinds
------------------------------------------------------------------------------
(* Steps of the try block: the run goes to its next call, or leaves for cleanup.     *)
TryStep ==
  /\ sup.step \in InTry
  /\ sup' \in SupRecord /\ sup'.seq = sup.seq /\ sup'.run = sup.run
  /\ \/ sup.step # "settle" /\ sup'.step = Proceed
     \/ sup'.step = "clean" /\ sup'.todo = CleanupOrder
  /\ sup.tried \subseteq sup'.tried /\ sup'.watching \in {sup.watching, TRUE}
  /\ sup.step = "load" => sup'.step = "clean" \/ sup'.attempts = 0
  /\ UNCHANGED <<runs, outcome, author, sealed, rows>>
  /\ \A c \in children' : c \in children \/ (c.run = sup.run /\ c.seq = sup.seq /\ c.at = "gate")
  /\ \A r \in observers' :
       \/ r \in observers
       \/ r = sup.run /\ (sup'.watching \/ (sup'.step = "clean" /\ sup'.status # "passed"))
  /\ \A kind, r : <<kind, r>> \in owned' =>
       <<kind, r>> \in owned \/ (r = sup.run /\ kind \in sup'.tried)

LEMMA TryTyped ==
  ASSUME RunTyped, TryStep, foreign' \in [Seqs -> Nat]
  PROVE  RunTyped'
<1>1. sup.step # "settle" /\ sup'.step = Proceed =>
        OnPath(sup.step)' /\ (sup'.step \in {"load", "begin"} => sup.step = "load")
  <2> SUFFICES ASSUME sup.step # "settle", sup'.step = Proceed
               PROVE  OnPath(sup.step)' /\ (sup'.step \in {"load", "begin"} => sup.step = "load")
    OBVIOUS
  <2>1. OnPath(Proceed) /\ Follows(sup.step, Proceed)
    BY ProceedFollows DEF RunTyped, TryStep
  <2>2. Stage' = Stage
    BY DEF TryStep, Stage
  <2>3. OnPath(sup.step)'
    BY <2>1, <2>2 DEF OnPath
  <2>4. sup.step \in {"collect", "finalize", "acting", "load", "begin"} \cup (Window \ {"acting", "collect"})
    BY DEF TryStep, Window, InTry
  <2> QED
    BY <2>1, <2>3, <2>4 DEF Follows, Window, Closed
<1> QED
  BY <1>1 DEF RunTyped, TryStep, InTry

LEMMA TryKeeps ==
  ASSUME RunTyped, Identities, Leftovers, TryStep
  PROVE  Identities' /\ Leftovers'
<1>1. /\ Alive /\ sup.step # "clean" /\ sup.step # "idle"
      /\ sup.run = runs /\ sup'.run = runs /\ sup.run \in Nat /\ runs' = runs
  BY DEF TryStep, InTry, Alive, Identities, RunTyped, SupRecord
<1>2. Identities'
  <2>1. \A c \in children' : c.run <= runs /\ (c.run = sup.run => c.seq = sup.seq)
    BY <1>1 DEF TryStep, Identities
  <2>2. \A s \in Seqs : author'[s] <= runs /\ author'[s] # sup.run
    BY <1>1 DEF TryStep, Identities
  <2>3. \A r \in observers' : r \in Nat /\ r <= runs
    BY <1>1 DEF TryStep, Identities
  <2>4. \A kind, r : <<kind, r>> \in owned' => r \in Nat /\ r <= runs
    BY <1>1 DEF TryStep, Identities
  <2> QED
    BY <1>1, <2>1, <2>2, <2>3, <2>4 DEF Identities, TryStep
<1>3. \A kind \in Resources : <<kind, sup.run>> \in owned' => kind \in sup'.tried
  BY <1>1 DEF Leftovers, TryStep
<1>4. sup.run \in observers' => sup'.watching \/ (sup'.step = "clean" /\ sup'.status # "passed")
  BY <1>1 DEF Leftovers, TryStep, At
<1>5. sup'.step = "clean" => \A kind \in Resources \cup {"observer"} : Awaits(kind)'
  <2> SUFFICES ASSUME sup'.step = "clean", NEW kind \in Resources \cup {"observer"}
               PROVE  \E n \in DOMAIN CleanupOrder : CleanupOrder[n] = kind
    <3>1. sup'.step # "clean" \/ sup'.todo = CleanupOrder
      <4>1. sup.step # "settle" /\ sup'.step = Proceed => sup'.step # "clean"
        BY ProceedFollows DEF RunTyped, TryStep, InTry
      <4> QED
        BY <4>1 DEF TryStep
    <3> QED
      BY <3>1 DEF Awaits
  <2>1. kind \in {"observer", "proxy", "initializer", "secrets", "timing"}
    BY DEF Resources, Containers, Volumes
  <2> QED
    BY <2>1 DEF CleanupOrder
<1>6. PassedLeavesNothing'
  <2> SUFFICES ASSUME NEW s \in Seqs, outcome[s] = "passed"
               PROVE  /\ author[s] \notin observers'
                      /\ \A kind \in Resources : <<kind, author[s]>> \notin owned'
    BY DEF PassedLeavesNothing, TryStep
  <2>1. author[s] # sup.run
    BY <1>1 DEF Identities
  <2> QED
    BY <2>1 DEF Leftovers, PassedLeavesNothing, TryStep
<1>7. /\ Alive' => \A kind \in Resources : <<kind, sup'.run>> \in owned' =>
           kind \in sup'.tried /\ (At("clean")' => Awaits(kind)')
      /\ Alive' /\ sup'.run \in observers' =>
           /\ sup'.watching \/ (At("clean")' /\ sup'.status # "passed")
           /\ At("clean")' => Awaits("observer")' \/ sup'.status # "passed"
  BY <1>1, <1>3, <1>4, <1>5 DEF At
<1> QED
  BY <1>2, <1>6, <1>7 DEF Leftovers

(* A run that leaves the try block without a pass has nothing more to show.          *)
LEMMA FailedKeeps ==
  ASSUME RunInv, TryStep, sup'.step = "clean", sup'.status # "passed", UNCHANGED foreign
  PROVE  RunInv'
<1>1. RunTyped' /\ Identities' /\ Leftovers'
  BY TryTyped, TryKeeps DEF RunInv, RunTyped
<1>2. Exclusive'
  BY DEF RunInv, Exclusive, TryStep, Passing, At, Window, Closed, InTry
<1>3. OwnRows'
  BY DEF RunInv, OwnRows, TryStep, Passing, At, Closed
<1> QED
  BY <1>1, <1>2, <1>3 DEF RunInv

(* A call inside the window that is not the wait for the child.                      *)
LEMMA WindowKeeps ==
  ASSUME RunInv, TryStep, sup.step \in Window \ {"acting", "collect"}, sup'.step = Proceed,
         sup'.instance = sup.instance, sup'.before = sup.before, sup'.attempts = sup.attempts,
         UNCHANGED <<foreign, model>>
  PROVE  RunInv'
<1>1. RunTyped' /\ Identities' /\ Leftovers'
  BY TryTyped, TryKeeps DEF RunInv, RunTyped
<1>2. sup'.step \in Window \ {"collect"}
  BY ProceedFollows DEF RunInv, RunTyped, Follows, Window
<1>3. Exclusive'
  BY <1>2 DEF RunInv, Exclusive, TryStep, Passing, At, Window, Closed, InTry
<1>4. OwnRows'
  BY <1>2 DEF RunInv, OwnRows, TryStep, Passing, At, Window, Closed, InTry
<1> QED
  BY <1>1, <1>3, <1>4 DEF RunInv

LEMMA LeaveIs ==
  ASSUME sup \in SupRecord, NEW status \in Statuses
  PROVE  LET left == Leave(status) IN
         /\ left \in SupRecord
         /\ left.step = "clean" /\ left.todo = CleanupOrder /\ left.status = status
         /\ left.seq = sup.seq /\ left.run = sup.run /\ left.tried = sup.tried
         /\ left.watching = sup.watching
<1>1. CleanupOrder \in Seq(Named)
  BY DEF CleanupOrder, Named, Resources, Containers, Volumes
<1> QED
  BY <1>1 DEF SupRecord, Leave

LEMMA GoesIs ==
  ASSUME sup \in SupRecord, NEW step \in InTry
  PROVE  LET moved == [sup EXCEPT !.step = step] IN
         /\ moved \in SupRecord
         /\ moved.step = step
         /\ moved.seq = sup.seq /\ moved.run = sup.run /\ moved.tried = sup.tried
         /\ moved.watching = sup.watching /\ moved.instance = sup.instance
         /\ moved.before = sup.before /\ moved.attempts = sup.attempts /\ moved.exit = sup.exit
         /\ moved.status = sup.status /\ moved.refused = sup.refused
BY DEF SupRecord

(* Any call of the try block can end it.                                             *)
LEMMA EndKeeps ==
  ASSUME RunInv, SpecRefused \/ Fail \/ Interrupt
  PROVE  RunInv'
<1>1. PICK status \in {"failed", "interrupted"} : sup' = Leave(status)
  BY DEF SpecRefused, Fail, Interrupt
<1>2. /\ sup.step \in InTry
      /\ children' \subseteq children
      /\ UNCHANGED <<runs, outcome, author, sealed, rows, owned, observers, foreign>>
  BY DEF SpecRefused, Fail, Interrupt, At, InTry, durable, world
<1>3. status \in Statuses /\ status # "passed" /\ sup \in SupRecord
  BY DEF Statuses, RunInv, RunTyped
<1>4. TryStep
  BY <1>1, <1>2, <1>3, LeaveIs DEF TryStep
<1> QED
  BY <1>1, <1>2, <1>3, <1>4, LeaveIs, FailedKeeps

LEMMA LoadKeepsRun ==
  ASSUME RunInv, Load
  PROVE  RunInv'
<1>1. /\ sup.step = "load" /\ sup.step \in InTry /\ sup \in SupRecord /\ sup.attempts = 0
      /\ UNCHANGED <<runs, outcome, author, sealed, rows, owned, observers, foreign, children, model>>
  BY DEF Load, At, InTry, RunInv, RunTyped, durable, world
<1>2. "failed" \in Statuses
  BY DEF Statuses
<1>3. CASE outcome[sup.seq] # "absent" \/ HasEvidence(sup.seq)
  <2>1. /\ sup' \in SupRecord /\ sup'.step = "clean" /\ sup'.todo = CleanupOrder
        /\ sup'.status = "failed" /\ sup'.seq = sup.seq /\ sup'.run = sup.run
        /\ sup'.tried = sup.tried /\ sup'.watching = sup.watching
    <3>1. CASE sup' = Leave("failed")
      BY <1>1, <1>2, <3>1, LeaveIs
    <3>2. CASE sup' = [Leave("failed") EXCEPT !.reports = TRUE]
      BY <1>1, <1>2, <3>2, LeaveIs DEF SupRecord
    <3> QED
      BY <1>3, <3>1, <3>2 DEF Load
  <2>2. TryStep
    BY <1>1, <2>1 DEF TryStep
  <2> QED
    BY <1>1, <2>1, <2>2, FailedKeeps
<1>4. CASE outcome[sup.seq] = "absent" /\ ~HasEvidence(sup.seq)
  <2>1. sup' = [sup EXCEPT !.step = Proceed, !.reports = TRUE]
    BY <1>4 DEF Load
  <2>2. Proceed = "begin" /\ Proceed \in InTry
    BY <1>1, ProceedFollows DEF RunInv, RunTyped, Follows
  <2>3. /\ sup' \in SupRecord /\ sup'.step = "begin" /\ sup'.seq = sup.seq /\ sup'.run = sup.run
        /\ sup'.tried = sup.tried /\ sup'.watching = sup.watching /\ sup'.attempts = 0
    BY <1>1, <2>1, <2>2 DEF SupRecord
  <2>4. TryStep
    BY <1>1, <2>2, <2>3 DEF TryStep
  <2>5. RunTyped' /\ Identities' /\ Leftovers'
    BY <1>1, <2>4, TryTyped, TryKeeps DEF RunInv, RunTyped
  <2>6. Exclusive' /\ OwnRows'
    BY <1>1, <2>3 DEF RunInv, Exclusive, OwnRows, Passing, At, Window, Closed
  <2> QED
    BY <2>5, <2>6 DEF RunInv
<1> QED
  BY <1>3, <1>4

(* The window opens on a model whose requests so far are not the run's.              *)
LEMMA BeginKeepsRun ==
  ASSUME IInv, RunInv, Begin
  PROVE  RunInv'
<1>1. /\ sup.step = "begin" /\ sup.step \in InTry /\ sup \in SupRecord /\ sup.attempts = 0
      /\ sup.seq \in Seqs /\ foreign \in [Seqs -> Nat]
      /\ UNCHANGED <<runs, outcome, author, sealed, rows, owned, observers, children, model>>
      /\ sup' = [sup EXCEPT !.step = Proceed, !.instance = model.instance, !.before = model.completed]
      /\ foreign' = [foreign EXCEPT ![sup.seq] = IF Scored THEN model.completed ELSE 0]
  BY DEF Begin, At, InTry, RunInv, RunTyped, SupRecord, durable
<1>2. Proceed \in Window \ {"collect"}
  BY <1>1, ProceedFollows DEF RunInv, RunTyped, Follows
<1>3. model.instance \in Nat /\ model.completed \in Nat
  BY DEF IInv, Shape
<1>4. Scored => model.completed = 0
  BY DEF Begin, Unused, Scored, Stage
<1>5. /\ sup' \in SupRecord /\ sup'.step = Proceed /\ sup'.seq = sup.seq /\ sup'.run = sup.run
      /\ sup'.tried = sup.tried /\ sup'.watching = sup.watching /\ sup'.attempts = 0
      /\ sup'.instance = model.instance /\ sup'.before = model.completed
  BY <1>1, <1>2, <1>3 DEF SupRecord, Window
<1>6. /\ foreign'[sup.seq] = 0 /\ foreign' \in [Seqs -> Nat]
      /\ \A s \in Seqs \ {sup.seq} : foreign'[s] = foreign[s]
  BY <1>1, <1>4
<1>7. TryStep
  BY <1>1, <1>5 DEF TryStep
<1>8. RunTyped' /\ Identities' /\ Leftovers'
  BY <1>6, <1>7, TryTyped, TryKeeps DEF RunInv
<1>9. Exclusive'
  <2>1. outcome[sup.seq] = "absent"
    BY <1>1 DEF IInv, Fresh, Resting
  <2> QED
    BY <1>1, <1>2, <1>3, <1>5, <1>6, <2>1 DEF RunInv, Exclusive, Passing, At, Window, Closed
<1>10. OwnRows'
  BY <1>1, <1>2, <1>5 DEF RunInv, OwnRows, Passing, At, Window, Closed, InTry
<1> QED
  BY <1>8, <1>9, <1>10 DEF RunInv

(* What the run creates it has marked before.                                        *)
LEMMA CreateKeepsRun ==
  ASSUME RunInv, NEW kind \in Resources, Create(kind)
  PROVE  RunInv'
<1>1. /\ sup.step = kind /\ sup \in SupRecord
      /\ sup.step \in InTry /\ sup.step \in Window \ {"acting", "collect"} /\ sup.step # "load"
      /\ UNCHANGED <<runs, outcome, author, sealed, rows, observers, children, foreign, model>>
      /\ owned' \subseteq owned \cup {<<kind, sup.run>>}
  BY DEF Create, At, InTry, Window, Resources, Containers, Volumes, RunInv, RunTyped
<1>2. PICK succeeds \in BOOLEAN :
        sup' = [(IF succeeds THEN [sup EXCEPT !.step = Proceed] ELSE Leave("failed"))
                  EXCEPT !.tried = @ \cup {kind}]
  BY DEF Create
<1>3. CASE succeeds
  <2>1. sup' = [[sup EXCEPT !.step = Proceed] EXCEPT !.tried = @ \cup {kind}]
    BY <1>2, <1>3
  <2>2. Proceed \in InTry
    BY <1>1, ProceedFollows DEF RunInv, RunTyped, Window
  <2>3. /\ sup' \in SupRecord /\ sup'.step = Proceed /\ sup'.seq = sup.seq /\ sup'.run = sup.run
        /\ sup'.tried = sup.tried \cup {kind} /\ sup'.watching = sup.watching
        /\ sup'.instance = sup.instance /\ sup'.before = sup.before /\ sup'.attempts = sup.attempts
    <3> DEFINE moved == [sup EXCEPT !.step = Proceed]
    <3>1. /\ moved \in SupRecord /\ moved.step = Proceed /\ moved.seq = sup.seq
          /\ moved.run = sup.run /\ moved.tried = sup.tried /\ moved.watching = sup.watching
          /\ moved.instance = sup.instance /\ moved.before = sup.before
          /\ moved.attempts = sup.attempts
      BY <1>1, <2>2, GoesIs
    <3>2. sup' = [moved EXCEPT !.tried = @ \cup {kind}]
      BY <2>1
    <3> HIDE DEF moved
    <3> QED
      BY <3>1, <3>2 DEF SupRecord
  <2>4. TryStep
    BY <1>1, <2>3 DEF TryStep, Window
  <2> QED
    BY <1>1, <2>3, <2>4, WindowKeeps
<1>4. CASE ~succeeds
  <2>1. sup' = [Leave("failed") EXCEPT !.tried = @ \cup {kind}]
    BY <1>2, <1>4
  <2>2. /\ sup' \in SupRecord /\ sup'.step = "clean" /\ sup'.todo = CleanupOrder
        /\ sup'.status = "failed" /\ sup'.seq = sup.seq /\ sup'.run = sup.run
        /\ sup'.tried = sup.tried \cup {kind} /\ sup'.watching = sup.watching
    BY <1>1, <2>1, LeaveIs DEF SupRecord, Statuses
  <2>3. TryStep
    BY <1>1, <2>2 DEF TryStep
  <2> QED
    BY <1>1, <2>2, <2>3, FailedKeeps
<1> QED
  BY <1>3, <1>4

LEMMA ObserverKeepsRun ==
  ASSUME RunInv, StartObserver \/ StartObserverLost
  PROVE  RunInv'
<1>1. /\ sup.step = "observer" /\ sup \in SupRecord
      /\ sup.step \in InTry /\ sup.step \in Window \ {"acting", "collect"} /\ sup.step # "load"
      /\ UNCHANGED <<runs, outcome, author, sealed, rows, owned, children, foreign, model>>
      /\ observers' = observers \cup {sup.run}
  BY DEF StartObserver, StartObserverLost, Spawn, At, InTry, Window, RunInv, RunTyped
<1>2. CASE StartObserver
  <2>1. sup' = [sup EXCEPT !.step = Proceed, !.watching = TRUE]
    BY <1>2 DEF StartObserver
  <2>2. Proceed \in InTry
    BY <1>1, ProceedFollows DEF RunInv, RunTyped, Window
  <2>3. /\ sup' \in SupRecord /\ sup'.step = Proceed /\ sup'.seq = sup.seq /\ sup'.run = sup.run
        /\ sup'.tried = sup.tried /\ sup'.watching = TRUE
        /\ sup'.instance = sup.instance /\ sup'.before = sup.before /\ sup'.attempts = sup.attempts
    BY <1>1, <2>1, <2>2 DEF SupRecord
  <2>4. TryStep
    BY <1>1, <2>3 DEF TryStep, Window
  <2> QED
    BY <1>1, <2>3, <2>4, WindowKeeps
<1>3. CASE StartObserverLost
  <2>1. sup' = Leave("interrupted") /\ "interrupted" \in Statuses
    BY <1>3 DEF StartObserverLost, Statuses
  <2>2. TryStep /\ sup'.step = "clean" /\ sup'.status = "interrupted"
    BY <1>1, <2>1, LeaveIs DEF TryStep
  <2> QED
    BY <1>1, <2>2, FailedKeeps
<1> QED
  BY <1>2, <1>3

LEMMA CallsKeepRun ==
  ASSUME RunInv, FindNothingStale \/ Attest \/ Act
  PROVE  RunInv'
<1>1. /\ sup \in SupRecord
      /\ sup.step \in InTry /\ sup.step \in Window \ {"acting", "collect"} /\ sup.step # "load"
      /\ UNCHANGED <<runs, outcome, author, sealed, rows, owned, observers, foreign, model>>
      /\ children' \subseteq children \cup {[run |-> sup.run, seq |-> sup.seq, at |-> "gate"]}
      /\ sup' = [sup EXCEPT !.step = Proceed]
  BY DEF FindNothingStale, Attest, Act, At, InTry, Window, RunInv, RunTyped, durable, world
<1>2. Proceed \in InTry
  BY <1>1, ProceedFollows DEF RunInv, RunTyped, Window
<1>3. TryStep
  BY <1>1, <1>2, GoesIs DEF TryStep, Window
<1> QED
  BY <1>1, <1>2, <1>3, GoesIs, WindowKeeps

(* The window closes: a run that goes on without a failed child has seen the model     *)
(* complete exactly what it asked for.                                              *)
LEMMA EvidenceKeepsRun ==
  ASSUME IInv, RunInv, ModelEvidence
  PROVE  RunInv'
<1>1. /\ sup.step = "collect" /\ sup \in SupRecord /\ sup.step \in InTry /\ sup.seq \in Seqs
      /\ UNCHANGED <<runs, outcome, author, sealed, rows, owned, observers, foreign, children, model>>
  BY DEF ModelEvidence, At, InTry, RunInv, RunTyped, SupRecord, world
<1>2. CASE RequestWindow \/ sup.exit # 0
  <2>1. Proceed \in Closed /\ Proceed \in InTry
    BY <1>1, ProceedFollows DEF RunInv, RunTyped, Follows
  <2>2. sup' = [sup EXCEPT !.step = Proceed]
    BY <1>2 DEF ModelEvidence
  <2>3. TryStep
    BY <1>1, <2>1, <2>2, GoesIs DEF TryStep
  <2>4. RunTyped' /\ Identities' /\ Leftovers'
    BY <1>1, <2>3, TryTyped, TryKeeps DEF RunInv, RunTyped
  <2>5. sup.exit = 0 => foreign[sup.seq] = 0
    <3> SUFFICES ASSUME sup.exit = 0 PROVE foreign[sup.seq] = 0
      OBVIOUS
    <3>1. model.instance = sup.instance /\ model.completed - sup.before = sup.attempts
      BY <1>2 DEF RequestWindow
    <3>2. model.completed - sup.before >= sup.attempts + foreign[sup.seq]
      BY <1>1, <3>1 DEF RunInv, Exclusive, Window, InTry
    <3>3. sup.attempts \in Nat /\ foreign[sup.seq] \in Nat
      BY <1>1 DEF RunInv, RunTyped, SupRecord
    <3> QED
      BY <3>1, <3>2, <3>3
  <2>6. sup'.step \in Closed /\ sup'.exit = sup.exit /\ sup'.seq = sup.seq /\ sup'.run = sup.run
    BY <1>1, <2>1, <2>2, GoesIs
  <2>7. Exclusive'
    BY <1>1, <2>5, <2>6 DEF RunInv, Exclusive, Passing, At, Window, Closed
  <2>8. OwnRows'
    BY <1>1, <2>6 DEF RunInv, OwnRows, Passing, At, Closed
  <2> QED
    BY <2>4, <2>7, <2>8 DEF RunInv
<1>3. CASE ~(RequestWindow \/ sup.exit # 0)
  <2>1. sup' = Leave("failed") /\ "failed" \in Statuses
    BY <1>3 DEF ModelEvidence, Statuses
  <2>2. TryStep /\ sup'.step = "clean" /\ sup'.status = "failed"
    BY <1>1, <2>1, LeaveIs DEF TryStep
  <2> QED
    BY <1>1, <2>2, FailedKeeps
<1> QED
  BY <1>2, <1>3

LEMMA FinalizeKeepsRun ==
  ASSUME RunInv, FinalizeTiming
  PROVE  RunInv'
<1>1. /\ sup.step = "finalize" /\ sup \in SupRecord /\ sup.step \in InTry
      /\ sup' = [sup EXCEPT !.step = Proceed]
      /\ UNCHANGED <<runs, outcome, author, sealed, rows, owned, observers, foreign, children, model>>
  BY DEF FinalizeTiming, At, InTry, RunInv, RunTyped, world
<1>2. Proceed \in Closed /\ Proceed \in InTry
  BY <1>1, ProceedFollows DEF RunInv, RunTyped, Follows
<1>3. TryStep
  BY <1>1, <1>2, GoesIs DEF TryStep
<1>4. RunTyped' /\ Identities' /\ Leftovers'
  BY <1>1, <1>3, TryTyped, TryKeeps DEF RunInv, RunTyped
<1>5. sup'.step \in Closed /\ sup'.exit = sup.exit /\ sup'.seq = sup.seq /\ sup'.run = sup.run
  BY <1>1, <1>2, GoesIs
<1>6. Exclusive' /\ OwnRows'
  BY <1>1, <1>5 DEF RunInv, Exclusive, OwnRows, Passing, At, Window, Closed
<1> QED
  BY <1>4, <1>6 DEF RunInv

LEMMA SettleKeepsRun ==
  ASSUME RunInv, Settle
  PROVE  RunInv'
<1> DEFINE status == IF sup.exit = 0 /\ OutputComplete THEN "passed" ELSE "failed"
<1>1. /\ sup.step = "settle" /\ sup \in SupRecord /\ sup.step \in InTry
      /\ sup' = Leave(status) /\ status \in Statuses
      /\ UNCHANGED <<runs, outcome, author, sealed, rows, owned, observers, foreign, children, model>>
  BY DEF Settle, At, InTry, RunInv, RunTyped, Statuses, world
<1>2. /\ sup'.step = "clean" /\ sup'.status = status /\ sup'.seq = sup.seq /\ sup'.run = sup.run
      /\ TryStep
  <2> HIDE DEF status
  <2> QED
    BY <1>1, LeaveIs DEF TryStep
<1>3. RunTyped' /\ Identities' /\ Leftovers'
  BY <1>1, <1>2, TryTyped, TryKeeps DEF RunInv, RunTyped
<1>4. Exclusive' /\ OwnRows'
  BY <1>1, <1>2 DEF RunInv, Exclusive, OwnRows, Passing, At, Window, Closed, InTry
<1> QED
  BY <1>3, <1>4 DEF RunInv
------------------------------------------------------------------------------
(* Steps of the children and of the operator, beside the run.                        *)
Beside ==
  /\ UNCHANGED <<outcome, author, sealed, owned, observers, runs>>
  /\ sup' = sup \/ (sup.step = "acting" /\ sup' = [sup EXCEPT !.attempts = @ + 1])
  /\ \A c \in children' : \E d \in children : c.run = d.run /\ c.seq = d.seq
  /\ foreign' \in [Seqs -> Nat]

LEMMA BesideKeeps ==
  ASSUME RunInv, Beside
  PROVE  RunTyped' /\ Identities' /\ Leftovers'
<1>1. /\ sup \in SupRecord /\ sup' \in SupRecord
      /\ sup'.step = sup.step /\ sup'.seq = sup.seq /\ sup'.run = sup.run /\ sup'.tried = sup.tried
      /\ sup'.watching = sup.watching /\ sup'.status = sup.status /\ sup'.todo = sup.todo
      /\ sup'.refused = sup.refused /\ (sup.step \in {"load", "begin"} => sup'.attempts = sup.attempts)
  <2>1. CASE sup' = sup
    BY <2>1 DEF RunInv, RunTyped
  <2>2. CASE sup.step = "acting" /\ sup' = [sup EXCEPT !.attempts = @ + 1]
    BY <2>2, SMTT(30) DEF RunInv, RunTyped, SupRecord
  <2> QED
    BY <2>1, <2>2 DEF Beside
<1>2. RunTyped'
  <2>1. Stage' = Stage
    BY <1>1 DEF Stage
  <2> QED
    BY <1>1, <2>1 DEF RunInv, RunTyped, Beside, OnPath
<1>3. Identities'
  BY <1>1 DEF RunInv, Identities, Beside, Alive
<1>4. Leftovers'
  BY <1>1 DEF RunInv, Leftovers, Beside, Alive, At, Awaits, PassedLeavesNothing
<1> QED
  BY <1>2, <1>3, <1>4

LEMMA MovesAre ==
  ASSUME IInv, NEW c \in children, NEW at, Moves(c, at)
  PROVE  /\ \A e \in children' : \E d \in children : e.run = d.run /\ e.seq = d.seq
         /\ \A e \in children' : e \in children \/ (e.run = c.run /\ e.seq = c.seq /\ e.at = at)
<1>1. c \in Child
  BY DEF IInv, Shape
<1>2. LET e == [c EXCEPT !.at = at] IN e.run = c.run /\ e.seq = c.seq /\ e.at = at
  BY <1>1 DEF Child
<1> QED
  BY <1>2 DEF Moves

LEMMA GateKeepsRun ==
  ASSUME IInv, RunInv, NEW c \in children, ScoringGate(c)
  PROVE  RunInv'
<1>1. /\ Moves(c, "ask")
      /\ UNCHANGED <<outcome, rows, author, sealed, owned, observers, runs, sup, model, foreign>>
  BY DEF ScoringGate, durable
<1>2. Beside
  BY <1>1, MovesAre DEF Beside, RunInv, RunTyped
<1>3. Exclusive' /\ OwnRows'
  BY <1>1, MovesAre DEF RunInv, Exclusive, OwnRows, Passing, At
<1> QED
  BY <1>2, <1>3, BesideKeeps DEF RunInv

(* A request counts once for the model, and either as the run's or as another's.     *)
LEMMA AskKeepsRun ==
  ASSUME IInv, RunInv, NEW c \in children, Ask(c)
  PROVE  RunInv'
<1>1. /\ Moves(c, "row")
      /\ UNCHANGED <<outcome, rows, author, sealed, owned, observers, runs>>
      /\ sup \in SupRecord /\ sup.seq \in Seqs /\ foreign \in [Seqs -> Nat]
  BY DEF Ask, durable, RunInv, RunTyped, SupRecord
<1>2. OwnRows'
  <2>1. /\ sup'.step = sup.step /\ sup'.exit = sup.exit /\ sup'.status = sup.status
        /\ sup'.seq = sup.seq /\ sup'.run = sup.run
    <3>1. sup' = sup \/ sup' = [sup EXCEPT !.attempts = @ + 1]
      BY DEF Ask
    <3> QED
      BY <1>1, <3>1 DEF SupRecord
  <2> QED
    BY <1>1, <2>1, MovesAre DEF RunInv, OwnRows, Passing, At
<1>3. CASE UNCHANGED <<model, foreign, sup>>
  <2>1. Beside
    BY <1>1, <1>3, MovesAre DEF Beside
  <2>2. Exclusive'
    BY <1>1, <1>3 DEF RunInv, Exclusive, Passing, At
  <2> QED
    BY <1>2, <2>1, <2>2, BesideKeeps DEF RunInv
<1>4. CASE Served(c) /\ sup' \in {sup, IF Own(c) THEN [sup EXCEPT !.attempts = @ + 1] ELSE sup}
  <2>1. /\ sup' = sup \/ (Own(c) /\ sup.step = "acting" /\ sup' = [sup EXCEPT !.attempts = @ + 1])
        /\ sup.step = "acting" <=> At("acting")
    BY <1>4 DEF Own, At
  <2>2. /\ model'.instance = model.instance /\ model'.completed = model.completed + 1
        /\ model.instance \in Nat /\ model.completed \in Nat
    BY <1>4 DEF Served, IInv, Shape
  <2>3. /\ foreign' \in [Seqs -> Nat]
        /\ \A s \in Seqs : foreign'[s] = foreign[s] \/ (s = sup.seq /\ InWindow /\ ~Own(c))
        /\ foreign'[sup.seq] = foreign[sup.seq] \/ foreign'[sup.seq] = foreign[sup.seq] + 1
        /\ Own(c) => foreign' = foreign
    <3>1. CASE ~Own(c) /\ InWindow /\ model.instance = sup.instance
      BY <1>1, <1>4, <3>1 DEF Served
    <3>2. CASE ~(~Own(c) /\ InWindow /\ model.instance = sup.instance)
      BY <1>1, <1>4, <3>2 DEF Served
    <3> QED
      BY <3>1, <3>2
  <2>4. Beside
    BY <1>1, <2>1, <2>3, MovesAre DEF Beside
  <2>5. /\ sup'.step = sup.step /\ sup'.exit = sup.exit /\ sup'.status = sup.status
        /\ sup'.seq = sup.seq /\ sup'.instance = sup.instance /\ sup'.before = sup.before
        /\ sup'.attempts = sup.attempts \/ (Own(c) /\ sup'.attempts = sup.attempts + 1)
        /\ sup.attempts \in Nat /\ sup.before \in Nat /\ foreign[sup.seq] \in Nat
    BY <1>1, <2>1 DEF SupRecord
  <2>6. InWindow <=> sup.step \in Window
    BY DEF InWindow, Window
  <2>7. Exclusive'
    <3>1. ASSUME sup.step \in Window
          PROVE  /\ model'.instance >= sup'.instance
                 /\ model'.instance = sup'.instance =>
                      model'.completed - sup'.before >= sup'.attempts + foreign'[sup'.seq]
      BY <2>2, <2>3, <2>5, <3>1 DEF RunInv, Exclusive
    <3>2. (sup'.step \in Closed /\ sup'.exit = 0) \/ Passing' => foreign'[sup'.seq] = 0
      BY <1>1, <2>3, <2>5, <2>6 DEF RunInv, Exclusive, Passing, At, Window, Closed, InTry
    <3>3. ASSUME NEW s \in Seqs, outcome'[s] = "passed" PROVE foreign'[s] = 0
      <4>1. InWindow => outcome[sup.seq] = "absent"
        BY <2>6 DEF IInv, Fresh, Resting, Window, InTry
      <4> QED
        BY <1>1, <2>3, <3>3, <4>1 DEF RunInv, Exclusive
    <3> QED
      BY <2>5, <3>1, <3>2, <3>3 DEF Exclusive
  <2> QED
    BY <1>2, <2>4, <2>7, BesideKeeps DEF RunInv
<1> QED
  BY <1>3, <1>4 DEF Ask

(* A row that is written is its run's own or stands in for more than one, and no     *)
(* later row makes one of another run the only one.                                 *)
LEMMA WritesKeepRun ==
  ASSUME IInv, RunInv, NEW c \in children, NEW entries, Writes(c, entries), Holds(entries, c.run),
         \A r : Holds(rows[c.seq].entries, r) => Holds(entries, r)
  PROVE  RunInv'
<1>1. /\ Moves(c, "exit") /\ c \in Child
      /\ UNCHANGED <<outcome, author, sealed, owned, observers, runs, sup, model, foreign>>
      /\ rows' = [rows EXCEPT ![c.seq] = [edits |-> @.edits + 1, entries |-> entries]]
      /\ rows \in [Seqs -> Ledgers] /\ sup.seq \in Seqs
  BY DEF Writes, IInv, Shape, RunInv, RunTyped, SupRecord
<1>2. Beside
  BY <1>1, MovesAre DEF Beside, RunInv, RunTyped
<1>3. Exclusive'
  BY <1>1 DEF RunInv, Exclusive, Passing, At
<1>4. /\ c.seq \in Seqs
      /\ \A s \in Seqs : rows'[s].entries = IF s = c.seq THEN entries ELSE rows[s].entries
  BY <1>1 DEF Child
<1>5. ASSUME NEW s \in Seqs, NEW r, Holds(rows[s].entries, r)
      PROVE  Holds(rows'[s].entries, r)
  BY <1>4, <1>5
<1>6. ASSUME NEW e \in children', e.at = "exit" PROVE Holds(rows'[e.seq].entries, e.run)
  <2>1. CASE e \in children
    <3>1. e.seq \in Seqs
      BY <2>1 DEF IInv, Shape, Child
    <3> QED
      BY <2>1, <3>1, <1>5, <1>6 DEF RunInv, OwnRows
  <2>2. CASE e.run = c.run /\ e.seq = c.seq
    BY <2>2, <1>4
  <2> QED
    BY <1>1, <2>1, <2>2, MovesAre
<1>7. OwnRows'
  BY <1>1, <1>5, <1>6 DEF RunInv, OwnRows, Passing, At
<1> QED
  BY <1>2, <1>3, <1>7, BesideKeeps DEF RunInv

LEMMA RowKeepsRun ==
  ASSUME IInv, RunInv, NEW c \in children, AppendRow(c) \/ FailRow(c) \/ WritePreflight(c)
  PROVE  RunInv'
<1> DEFINE entries == rows[c.seq].entries
<1>1. entries \in Seq([run : Nat, failure : BOOLEAN])
  <2>1. c.seq \in Seqs
    BY DEF IInv, Shape, Child
  <2> QED
    BY <2>1 DEF IInv, Shape, Ledgers
<1>2. \A failure \in BOOLEAN : Row(c, failure).run = c.run /\ Row(c, failure).failure = failure
  BY DEF Row
<1>3. \A failure \in BOOLEAN : Holds(<<Row(c, failure)>>, c.run)
  BY <1>2 DEF Holds
<1>4. CASE AppendRow(c)
  <2>1. /\ Append(entries, Row(c, FALSE)) # <<>>
        /\ Len(Append(entries, Row(c, FALSE))) = Len(entries) + 1 /\ Len(entries) \in Nat
        /\ Len(Append(entries, Row(c, FALSE))) = 1 => Append(entries, Row(c, FALSE))[1] = Row(c, FALSE)
        /\ entries # <<>> => Len(entries) # 0
    <3>1. \A x : /\ Append(entries, x) # <<>> /\ Len(Append(entries, x)) = Len(entries) + 1
                 /\ Len(entries) \in Nat
                 /\ Len(Append(entries, x)) = 1 => Append(entries, x)[1] = x
                 /\ entries # <<>> => Len(entries) # 0
      BY <1>1, SMTT(30)
    <3> QED
      BY <3>1, Zenon
  <2>2. Holds(Append(entries, Row(c, FALSE)), c.run)
    BY <1>2, <2>1 DEF Holds
  <2>3. \A r : Holds(entries, r) => Holds(Append(entries, Row(c, FALSE)), r)
    <3>1. entries # <<>> => Len(Append(entries, Row(c, FALSE))) # 1
      <4> DEFINE longer == Len(Append(entries, Row(c, FALSE)))
      <4>1. longer = Len(entries) + 1 /\ Len(entries) \in Nat /\ (entries # <<>> => Len(entries) # 0)
        BY <2>1
      <4> HIDE DEF longer
      <4>2. entries # <<>> => longer # 1
        BY <4>1
      <4> QED
        BY <4>2 DEF longer
    <3> QED
      BY <2>1, <3>1, Zenon DEF Holds
  <2> QED
    BY <1>4, <2>2, <2>3, WritesKeepRun DEF AppendRow
<1>5. CASE FailRow(c)
  <2>1. \A r : Holds(entries, r) => Holds(<<Row(c, TRUE)>>, r)
    BY <1>2 DEF Holds
  <2> QED
    BY <1>3, <1>5, <2>1, WritesKeepRun DEF FailRow
<1>6. CASE WritePreflight(c)
  <2>1. \A r : Holds(entries, r) => Holds(<<Row(c, FALSE)>>, r)
    BY <1>6 DEF Holds, WritePreflight
  <2> QED
    BY <1>3, <1>6, <2>1, WritesKeepRun DEF WritePreflight
<1> QED
  BY <1>4, <1>5, <1>6

(* The child that ends well has written its row.                                    *)
LEMMA ExitKeepsRun ==
  ASSUME IInv, RunInv, NEW c \in children, Exit(c)
  PROVE  RunInv'
<1>1. /\ children' = children \ {c}
      /\ UNCHANGED <<outcome, rows, author, sealed, owned, observers, runs, model, foreign>>
      /\ sup \in SupRecord
  BY DEF Exit, RunInv, RunTyped
<1>2. CASE ~Own(c)
  <2>1. sup' = sup
    BY <1>2 DEF Exit
  <2>2. Beside
    BY <1>1, <2>1 DEF Beside, RunInv, RunTyped
  <2>3. Exclusive' /\ OwnRows'
    BY <1>1, <2>1 DEF RunInv, Exclusive, OwnRows, Passing, At
  <2> QED
    BY <2>2, <2>3, BesideKeeps DEF RunInv
<1>3. CASE Own(c)
  <2>1. /\ sup.step = "acting" /\ c.run = sup.run /\ sup.step \in InTry
        /\ sup' = [sup EXCEPT !.step = Proceed, !.exit = IF Completes(c) THEN 0 ELSE 1]
    BY <1>3 DEF Exit, Own, At, InTry
  <2>2. Proceed = "collect"
    BY <2>1, ProceedFollows DEF RunInv, RunTyped, Follows
  <2>3. c.seq = sup.seq
    BY <2>1 DEF RunInv, Identities
  <2>4. /\ sup' \in SupRecord /\ sup'.step = "collect" /\ sup'.seq = sup.seq /\ sup'.run = sup.run
        /\ sup'.tried = sup.tried /\ sup'.watching = sup.watching /\ sup'.instance = sup.instance
        /\ sup'.before = sup.before /\ sup'.attempts = sup.attempts
        /\ sup'.exit = IF Completes(c) THEN 0 ELSE 1
    BY <1>1, <2>1, <2>2 DEF SupRecord, InTry
  <2>5. TryStep
    BY <1>1, <2>1, <2>2, <2>4 DEF TryStep
  <2>6. RunTyped' /\ Identities' /\ Leftovers'
    BY <1>1, <2>5, TryTyped, TryKeeps DEF RunInv, RunTyped
  <2>7. Exclusive'
    BY <1>1, <2>1, <2>4 DEF RunInv, Exclusive, Passing, At, Window, Closed, InTry
  <2>8. sup'.exit = 0 => Holds(rows[sup.seq].entries, sup.run)
    BY <2>1, <2>3, <2>4 DEF Completes, RunInv, OwnRows
  <2>9. OwnRows'
    BY <1>1, <2>4, <2>8 DEF RunInv, OwnRows, Passing, At
  <2> QED
    BY <2>6, <2>7, <2>9 DEF RunInv
<1> QED
  BY <1>2, <1>3

(* Another process of the model is another instance.                                *)
LEMMA OperatorKeepsRun ==
  ASSUME IInv, RunInv, Operator
  PROVE  RunInv'
<1>1. UNCHANGED <<outcome, rows, author, sealed, owned, observers, runs, sup, children, foreign>>
  BY DEF Operator, ReplaceModel, StopModel, StartModel, durable
<1>2. /\ model.instance \in Nat
      /\ \/ model'.instance = model.instance /\ model'.completed = model.completed
         \/ model'.instance = model.instance + 1
  <2>1. model \in [up : BOOLEAN, instance : Nat, completed : Nat]
    BY DEF IInv, Shape
  <2> QED
    BY <2>1 DEF Operator, ReplaceModel, StopModel, StartModel, Stops
<1>3. Beside
  BY <1>1 DEF Beside, RunInv, RunTyped
<1>4. OwnRows'
  BY <1>1 DEF RunInv, OwnRows, Passing, At
<1>5. Exclusive'
  <2>1. sup.instance \in Nat
    BY DEF RunInv, RunTyped, SupRecord
  <2> QED
    BY <1>1, <1>2, <2>1 DEF RunInv, Exclusive, Passing, At
<1> QED
  BY <1>3, <1>4, <1>5, BesideKeeps DEF RunInv
------------------------------------------------------------------------------
(* Cleanup and the outcome.                                                          *)
LEMMA CleanedIs ==
  ASSUME sup \in SupRecord, sup.todo # <<>>, NEW refused \in SUBSET Named, sup' = Cleaned(refused)
  PROVE  /\ sup' \in SupRecord
         /\ sup'.step = sup.step /\ sup'.seq = sup.seq /\ sup'.run = sup.run /\ sup'.exit = sup.exit
         /\ sup'.status = sup.status /\ sup'.tried = sup.tried /\ sup'.watching = sup.watching
         /\ sup'.refused = sup.refused \cup refused
         /\ \A kind : Awaits(kind) => kind = Now \/ Awaits(kind)'
<1>1. /\ sup.todo \in Seq(Named) /\ Tail(sup.todo) \in Seq(Named)
      /\ Len(Tail(sup.todo)) = Len(sup.todo) - 1 /\ Len(sup.todo) \in Nat \ {0}
      /\ \A n \in 1 .. Len(sup.todo) - 1 : Tail(sup.todo)[n] = sup.todo[n + 1]
      /\ Now = sup.todo[1]
  BY DEF SupRecord, Now
<1>2. /\ sup' \in SupRecord
      /\ sup'.step = sup.step /\ sup'.seq = sup.seq /\ sup'.run = sup.run /\ sup'.exit = sup.exit
      /\ sup'.status = sup.status /\ sup'.tried = sup.tried /\ sup'.watching = sup.watching
      /\ sup'.refused = sup.refused \cup refused /\ sup'.todo = Tail(sup.todo)
  BY <1>1 DEF SupRecord, Cleaned
<1>3. ASSUME NEW kind, NEW n \in DOMAIN sup.todo, sup.todo[n] = kind, kind # Now
      PROVE  \E m \in DOMAIN sup'.todo : sup'.todo[m] = kind
  <2>1. n - 1 \in 1 .. Len(sup.todo) - 1 /\ Tail(sup.todo)[n - 1] = sup.todo[n]
    BY <1>1, <1>3, SMTT(30)
  <2>2. DOMAIN Tail(sup.todo) = 1 .. Len(sup.todo) - 1
    BY <1>1
  <2> QED
    BY <1>2, <1>3, <2>1, <2>2
<1> QED
  BY <1>2, <1>3 DEF Awaits

LEMMA CleaningKeeps ==
  ASSUME RunInv, StopObserver \/ Remove
  PROVE  RunInv'
<1>1. /\ sup.step = "clean" /\ sup.todo # <<>> /\ sup \in SupRecord /\ Alive
      /\ UNCHANGED <<outcome, rows, author, sealed, runs, model, foreign, children>>
      /\ observers' \subseteq observers /\ owned' \subseteq owned
  BY DEF StopObserver, Remove, Cleaning, At, RunInv, RunTyped, Alive, durable
<1>2. PICK refused \in SUBSET Named :
        /\ sup' = Cleaned(refused)
        /\ sup.run \in observers' /\ Now = "observer" => refused # {} \/ ~sup.watching
        /\ \A kind \in Resources :
             <<kind, sup.run>> \in owned' /\ Now = kind => refused # {} \/ ~Removes(kind)
  <2>1. CASE StopObserver
    <3>1. /\ Now = "observer" /\ "observer" \notin Resources /\ "observer" \in Named
          /\ \/ sup' = Cleaned({}) /\ (sup.run \in observers' => ~sup.watching)
             \/ sup' = Cleaned({"observer"})
      BY <2>1 DEF StopObserver, Cleaning, Named, Resources, Containers, Volumes
    <3> QED
      BY <3>1
  <2>2. CASE Remove
    <3>1. PICK kind \in Resources :
            /\ Now = kind /\ kind # "observer" /\ kind \in Named
            /\ \/ sup' = Cleaned({}) /\ (<<kind, sup.run>> \in owned' => ~Removes(kind))
               \/ sup' = Cleaned({kind})
      BY <2>2 DEF Remove, Cleaning, Named, Resources, Containers, Volumes
    <3> QED
      BY <3>1
  <2> QED
    BY <2>1, <2>2
<1>3. /\ sup' \in SupRecord
      /\ sup'.step = sup.step /\ sup'.seq = sup.seq /\ sup'.run = sup.run /\ sup'.exit = sup.exit
      /\ sup'.status = sup.status /\ sup'.tried = sup.tried /\ sup'.watching = sup.watching
      /\ sup'.refused = sup.refused \cup refused
      /\ \A kind : Awaits(kind) => kind = Now \/ Awaits(kind)'
  BY <1>1, <1>2, CleanedIs
<1>4. RunTyped'
  BY <1>1, <1>3 DEF RunInv, RunTyped, InTry
<1>5. Identities'
  BY <1>1, <1>3 DEF RunInv, Identities, Alive
<1>6. Leftovers'
  <2>1. ASSUME NEW kind \in Resources, <<kind, sup.run>> \in owned'
        PROVE  kind \in sup'.tried /\ Awaits(kind)'
    <3>1. kind \in sup.tried /\ Awaits(kind)
      BY <1>1, <2>1 DEF RunInv, Leftovers, At
    <3>2. kind = Now => refused # {} \/ sup.refused # {}
      BY <1>2, <2>1, <3>1 DEF Removes
    <3> QED
      BY <1>3, <3>1, <3>2 DEF Awaits
  <2>2. ASSUME sup.run \in observers', sup.status = "passed"
        PROVE  sup'.watching /\ Awaits("observer")'
    <3>1. sup.watching /\ Awaits("observer")
      BY <1>1, <2>2 DEF RunInv, Leftovers, At
    <3>2. Now = "observer" => refused # {}
      BY <1>2, <2>2, <3>1
    <3> QED
      BY <1>3, <3>1, <3>2 DEF Awaits
  <2>3. PassedLeavesNothing'
    BY <1>1 DEF RunInv, Leftovers, PassedLeavesNothing
  <2> QED
    BY <1>1, <1>3, <2>1, <2>2, <2>3 DEF Leftovers, At
<1>7. Exclusive' /\ OwnRows'
  BY <1>1, <1>3 DEF RunInv, Exclusive, OwnRows, Passing, At, Window, Closed, InTry
<1> QED
  BY <1>4, <1>5, <1>6, <1>7 DEF RunInv

(* What passes has been cleaned up, was served alone, and has its own rows.           *)
LEMMA ReportKeepsRun ==
  ASSUME IInv, RunInv, Report
  PROVE  RunInv'
<1> DEFINE s == sup.seq
<1>1. /\ sup.step = "clean" /\ sup.todo = <<>> /\ sup \in SupRecord /\ s \in Seqs /\ Alive
      /\ UNCHANGED <<rows, runs, model, foreign, children, observers, owned>>
      /\ FinalStatus \in Statuses
      /\ outcome' = [outcome EXCEPT ![s] = FinalStatus]
      /\ sealed' = [sealed EXCEPT ![s] = rows[s]]
      /\ author' = [author EXCEPT ![s] = sup.run]
      /\ sup' = [sup EXCEPT !.step = "returned", !.status = FinalStatus]
      /\ outcome \in [Seqs -> Statuses \cup {"absent"}] /\ author \in [Seqs -> Nat]
      /\ sealed \in [Seqs -> Ledgers]
  BY DEF Report, Finished, At, FinalStatus, RunInv, RunTyped, SupRecord, Statuses, world, Alive,
     IInv, TypeOK, Sealed
<1>2. sup' \in SupRecord /\ sup'.step = "returned" /\ sup'.seq = s /\ sup'.run = sup.run
  BY <1>1 DEF SupRecord
<1>3. FinalStatus = "passed" => sup.status = "passed" /\ sup.refused = {}
  BY DEF FinalStatus
<1>4. /\ outcome'[s] = FinalStatus /\ author'[s] = sup.run /\ sealed'[s] = rows[s]
      /\ \A t \in Seqs \ {s} : /\ outcome'[t] = outcome[t] /\ author'[t] = author[t]
                               /\ sealed'[t] = sealed[t]
  BY <1>1
<1>5. RunTyped'
  BY <1>1, <1>2 DEF RunInv, RunTyped, InTry
<1>6. Identities'
  BY <1>1, <1>2, <1>4 DEF RunInv, RunTyped, SupRecord, Identities, Alive
<1>7. Leftovers'
  <2>1. ASSUME FinalStatus = "passed"
        PROVE  sup.run \notin observers /\ \A kind \in Resources : <<kind, sup.run>> \notin owned
    <3>1. \A kind : ~Awaits(kind)
      BY <1>1, <1>3, <2>1 DEF Awaits
    <3> QED
      BY <1>1, <1>3, <2>1, <3>1 DEF RunInv, Leftovers, At
  <2>2. PassedLeavesNothing'
    <3> SUFFICES ASSUME NEW t \in Seqs, outcome'[t] = "passed"
                 PROVE  /\ author'[t] \notin observers
                        /\ \A kind \in Resources : <<kind, author'[t]>> \notin owned
      BY <1>1 DEF PassedLeavesNothing
    <3> HIDE DEF s
    <3> QED
      BY <1>4, <2>1 DEF RunInv, Leftovers, PassedLeavesNothing
  <2> QED
    BY <1>2, <2>2 DEF Leftovers, Alive
<1>8. Exclusive'
  <2> HIDE DEF s
  <2>1. FinalStatus = "passed" => foreign[s] = 0
    BY <1>1, <1>3 DEF RunInv, Exclusive, Passing, At, s
  <2> QED
    BY <1>1, <1>2, <1>4, <2>1 DEF RunInv, Exclusive, Passing, At, Window, Closed, InTry
<1>9. OwnRows'
  <2>1. FinalStatus = "passed" => Holds(rows[s].entries, sup.run)
    BY <1>1, <1>3 DEF RunInv, OwnRows, Passing, At
  <2> HIDE DEF s
  <2> QED
    BY <1>1, <1>2, <1>4, <2>1 DEF RunInv, OwnRows, Passing, At, Closed
<1> QED
  BY <1>5, <1>6, <1>7, <1>8, <1>9 DEF RunInv

(* The supervisor at rest: between runs, or returned without an outcome.            *)
LEMMA RestKeeps ==
  ASSUME RunInv, sup' \in SupRecord, sup'.step \in {"idle", "returned"},
         sup'.step = "returned" => sup.step # "idle" /\ sup'.run = sup.run /\ sup'.seq = sup.seq,
         UNCHANGED <<outcome, rows, author, sealed, owned, observers, children, foreign, runs>>
  PROVE  RunInv'
<1>1. RunTyped' /\ Identities'
  BY DEF RunInv, RunTyped, Identities, Alive, InTry
<1>2. Leftovers'
  BY DEF RunInv, Leftovers, PassedLeavesNothing, Alive
<1>3. Exclusive' /\ OwnRows'
  BY DEF RunInv, Exclusive, OwnRows, Passing, At, Window, Closed, InTry
<1> QED
  BY <1>1, <1>2, <1>3 DEF RunInv

LEMMA IdleIs ==
  Idle \in SupRecord /\ Idle.step = "idle" /\ Idle.attempts = 0 /\ Idle.tried = {}
<1>1. <<>> \in Seq(Named)
  OBVIOUS
<1> QED
  BY <1>1, StageFacts DEF Idle, SupRecord, Statuses

LEMMA ReportNothingKeepsRun ==
  ASSUME RunInv, ReportNothing
  PROVE  RunInv'
<1>1. /\ sup.step = "clean" /\ sup \in SupRecord
      /\ UNCHANGED <<outcome, rows, author, sealed, owned, observers, children, foreign, runs>>
      /\ sup' = [sup EXCEPT !.step = "returned", !.status = "failed"]
  BY DEF ReportNothing, Finished, At, RunInv, RunTyped, durable, world
<1>2. sup' \in SupRecord /\ sup'.step = "returned" /\ sup'.seq = sup.seq /\ sup'.run = sup.run
  BY <1>1 DEF SupRecord, Statuses
<1> QED
  BY <1>1, <1>2, RestKeeps

(* A new run has an identity nobody has used.                                       *)
LEMMA EnterKeepsRun ==
  ASSUME IInv, RunInv, NEW s \in Seqs, Enter(s)
  PROVE  RunInv'
<1>1. /\ sup.step = "idle" /\ runs' = runs + 1 /\ runs \in Nat
      /\ UNCHANGED <<outcome, rows, author, sealed, owned, observers, children, foreign, model>>
      /\ sup' = [Idle EXCEPT !.step = "load", !.seq = s, !.run = runs + 1]
  BY DEF Enter, At, IInv, Shape, durable, world
<1>2. /\ sup' \in SupRecord /\ sup'.step = "load" /\ sup'.seq = s /\ sup'.run = runs + 1
      /\ sup'.attempts = 0 /\ sup'.tried = {}
  <2>1. PICK idle \in SupRecord :
          /\ idle.attempts = 0 /\ idle.tried = {}
          /\ sup' = [idle EXCEPT !.step = "load", !.seq = s, !.run = runs + 1]
    BY <1>1, IdleIs
  <2>2. runs + 1 \in Nat
    BY <1>1
  <2> QED
    BY <2>1, <2>2 DEF SupRecord, InTry
<1>3. RunTyped'
  <2>1. Stage' \in {"preflight", "score-direct", "score-proxy"}
    BY DEF Stage, StageOf
  <2>2. \A stage : 1 \in DOMAIN Calls(stage) /\ Calls(stage)[1] = "load"
    <3> SUFFICES ASSUME NEW stage PROVE 1 \in DOMAIN Calls(stage) /\ Calls(stage)[1] = "load"
      OBVIOUS
    <3>1. CASE stage = "score-direct"
      BY <3>1 DEF Calls
    <3>2. CASE stage = "preflight"
      BY <3>2 DEF Calls
    <3>3. CASE stage \notin {"preflight", "score-direct"}
      BY <3>3 DEF Calls
    <3> QED
      BY <3>1, <3>2, <3>3
  <2>3. OnPath(sup.step)'
    BY <1>2, <2>2 DEF OnPath
  <2> QED
    BY <1>1, <1>2, <2>3 DEF RunInv, RunTyped
<1>4. Identities'
  <2>1. /\ \A c \in children : c.run \in Nat /\ c.run <= runs
        /\ \A t \in Seqs : author[t] \in Nat /\ author[t] <= runs
    BY DEF RunInv, Identities, IInv, Shape, Child, TypeOK
  <2> QED
    BY <1>1, <1>2, <2>1 DEF RunInv, Identities
<1>5. Leftovers'
  <2>1. sup'.run \notin observers /\ \A kind : <<kind, sup'.run>> \notin owned
    BY <1>1, <1>2 DEF RunInv, Identities
  <2> QED
    BY <1>1, <1>2, <2>1 DEF RunInv, Leftovers, PassedLeavesNothing
<1>6. Exclusive' /\ OwnRows'
  BY <1>1, <1>2 DEF RunInv, Exclusive, OwnRows, Passing, At, Window, Closed
<1> QED
  BY <1>3, <1>4, <1>5, <1>6 DEF RunInv

(* Processes that advance the campaign enter a run and take leave of it.             *)
LEMMA CampaignKeepsRun ==
  ASSUME IInv, RunInv, Campaigns \/ Crashes \/ UNCHANGED vars
  PROVE  RunInv'
<1>1. CASE UNCHANGED supVars
  BY <1>1 DEF supVars, durable, world, RunInv, RunTyped, OnPath, Stage, Identities, Leftovers,
     Exclusive, OwnRows, Alive, Passing, At, Awaits, PassedLeavesNothing
<1>2. CASE \E p \in Procs : RunStage(p)
  <2>1. PICK p \in Procs : RunStage(p)
    BY <1>2
  <2>2. next[p] \in Seqs
    BY DEF IInv, TypeOK
  <2> QED
    BY <2>1, <2>2, EnterKeepsRun DEF RunStage
<1>3. CASE sup' = Idle /\ UNCHANGED <<durable, world, runs>>
  BY <1>3, IdleIs, RestKeeps DEF durable, world
<1> QED
  BY <1>1, <1>2, <1>3 DEF Campaigns, Step, Crashes, Crash, Advance, LoadEvents, Inspect, Probe,
     RunReturns, CreateEvent, FillEvent, CreateHead, FillHead, Complete, CreateVerdict, FillVerdict,
     vars, supVars, durable, world

LEMMA RunStarts == Init => RunInv
<1> SUFFICES ASSUME Init PROVE RunInv
  OBVIOUS
<1>1. sup = Idle /\ sup \in SupRecord /\ sup.step = "idle"
  BY IdleIs DEF Init, SupervisionInit
<1>2. RunTyped
  BY <1>1 DEF Init, SupervisionInit, RunTyped, InTry
<1>3. Identities /\ Leftovers
  BY <1>1 DEF Init, SupervisionInit, Identities, Leftovers, Alive, PassedLeavesNothing
<1>4. Exclusive /\ OwnRows
  BY <1>1 DEF Init, SupervisionInit, Exclusive, OwnRows, Window, Closed, InTry, Passing, At
<1> QED
  BY <1>2, <1>3, <1>4 DEF RunInv

LEMMA NextKeepsRun == IInv /\ RunInv /\ [Next]_vars => RunInv'
<1> SUFFICES ASSUME IInv, RunInv, [Next]_vars PROVE RunInv'
  OBVIOUS
<1>1. CASE Below /\ Supervise
  BY <1>1, EndKeeps, LoadKeepsRun, BeginKeepsRun, CreateKeepsRun, ObserverKeepsRun, CallsKeepRun,
     EvidenceKeepsRun, FinalizeKeepsRun, SettleKeepsRun, CleaningKeeps, ReportKeepsRun,
     ReportNothingKeepsRun
  DEF Supervise, CreateVolume, InitializeSecrets, LaunchProxy, Resources, Containers, Volumes
<1>2. CASE Below /\ ChildStep
  BY <1>2, GateKeepsRun, AskKeepsRun, RowKeepsRun, ExitKeepsRun DEF ChildStep
<1>3. CASE Below /\ Operator
  BY <1>3, OperatorKeepsRun
<1> QED
  BY <1>1, <1>2, <1>3, CampaignKeepsRun DEF Next, Below

LEMMA RunInductive == Spec => [](IInv /\ RunInv)
BY Inductive, RunStarts, NextKeepsRun, PTL DEF Spec
------------------------------------------------------------------------------
(* A run at work has at most one child of its own, and only while it waits for it.    *)
OwnChild ==
  /\ Alive /\ sup.step # "acting" => \A c \in children : c.run # sup.run
  /\ sup.step = "acting" => \A c, d \in children : c.run = sup.run /\ d.run = sup.run => c = d
Contained == OwnChild /\ PassedLeavesNoChild /\ WorksAlone

(* A call of the try block that starts no benchmark child.                            *)
Called ==
  /\ sup.step \in InTry /\ sup'.run = sup.run /\ sup'.seq = sup.seq
  /\ sup'.step = "clean" \/ (sup.step \notin {"settle", "acting", "act"} /\ sup'.step = Proceed)
  /\ UNCHANGED <<outcome, author>>
  /\ children' \subseteq children /\ (sup.step = "acting" => \A c \in children' : c.run # sup.run)
  /\ \A r \in observers' : r \in observers \/ r = sup.run
  /\ \A made \in owned' : made \in owned \/ made[2] = sup.run
  /\ sup.step = "stale" => (observers = {} /\ owned = {}) \/ sup'.step = "clean"

LEMMA CalledKeeps ==
  ASSUME RunInv, Contained, Called
  PROVE  Contained'
<1>1. Alive /\ \A c \in children' : c.run # sup'.run
  BY DEF Called, Contained, OwnChild, Alive, InTry
<1>2. OwnChild'
  BY <1>1 DEF OwnChild
<1>3. PassedLeavesNoChild'
  BY DEF Called, Contained, PassedLeavesNoChild
<1>4. WorksAlone'
  <2> SUFFICES ASSUME Serving' PROVE WorksAlone'
    BY DEF WorksAlone
  <2>1. sup'.step \in InTry \ {"load", "begin", "stale"} /\ Stage # "score-direct"
    BY DEF Serving, Called, Stage
  <2>2. sup.step # "settle" /\ sup'.step = Proceed /\ sup.step \in InTry
    BY <2>1 DEF Called, InTry
  <2>3. OnPath(sup.step)
    BY <2>2 DEF RunInv, RunTyped
  <2>4. Follows(sup.step, Proceed)
    BY <2>2, <2>3, ProceedFollows
  <2>5. sup.step \notin {"load", "begin"}
    BY <2>1, <2>2, <2>4 DEF Follows
  <2>6. CASE sup.step = "stale"
    BY <2>1, <2>6 DEF Called, WorksAlone, InTry
  <2>7. CASE sup.step # "stale"
    <3>1. Serving
      BY <2>1, <2>2, <2>5, <2>7 DEF Serving
    <3> QED
      BY <3>1 DEF Called, Contained, WorksAlone
  <2> QED
    BY <2>6, <2>7
<1> QED
  BY <1>2, <1>3, <1>4 DEF Contained

(* The calls of the run, by what they do to the supervisor's record.                  *)
LEMMA CallIs ==
  ASSUME RunInv,
         \/ SpecRefused \/ Load \/ Begin \/ FindNothingStale \/ \E kind \in Resources : Create(kind)
         \/ StartObserver \/ StartObserverLost \/ Attest \/ ModelEvidence \/ FinalizeTiming
         \/ Settle \/ Fail \/ Interrupt
  PROVE  Called
<1>1. sup \in SupRecord
  BY DEF RunInv, RunTyped
<1>2. \A status \in Statuses : LET left == Leave(status) IN
        left \in SupRecord /\ left.step = "clean" /\ left.run = sup.run /\ left.seq = sup.seq
  BY <1>1, LeaveIs
<1>3. "failed" \in Statuses /\ "interrupted" \in Statuses /\ "passed" \in Statuses
  BY DEF Statuses
<1>4. CASE SpecRefused \/ Fail \/ Interrupt
  <2>1. PICK status \in {"failed", "interrupted"} : sup' = Leave(status)
    BY <1>4 DEF SpecRefused, Fail, Interrupt
  <2>2. sup'.step = "clean" /\ sup'.run = sup.run /\ sup'.seq = sup.seq
    BY <1>2, <1>3, <2>1
  <2>3. /\ sup.step \in InTry
        /\ children' \subseteq children /\ (sup.step = "acting" => \A c \in children' : c.run # sup.run)
        /\ UNCHANGED <<outcome, author, owned, observers>>
    BY <1>4 DEF SpecRefused, Fail, Interrupt, At, InTry, durable, world
  <2> QED
    BY <2>2, <2>3 DEF Called
<1>5. CASE Load
  <2>1. sup.step = "load" /\ UNCHANGED <<outcome, author, children, owned, observers>>
    BY <1>5 DEF Load, At, durable, world
  <2>2. \/ sup' = Leave("failed") \/ sup' = [Leave("failed") EXCEPT !.reports = TRUE]
        \/ sup' = [sup EXCEPT !.step = Proceed, !.reports = TRUE]
    BY <1>5 DEF Load
  <2>3. sup'.step \in {"clean", Proceed} /\ sup'.run = sup.run /\ sup'.seq = sup.seq
    <3>1. CASE sup' = [Leave("failed") EXCEPT !.reports = TRUE]
      BY <1>2, <1>3, <3>1 DEF SupRecord
    <3>2. CASE sup' = [sup EXCEPT !.step = Proceed, !.reports = TRUE]
      BY <1>1, <3>2 DEF SupRecord
    <3> QED
      BY <1>2, <1>3, <2>2, <3>1, <3>2
  <2> QED
    BY <2>1, <2>3 DEF Called, InTry
<1>6. CASE Begin
  <2>1. /\ sup.step = "begin" /\ UNCHANGED <<outcome, author, children, owned, observers>>
        /\ sup' = [sup EXCEPT !.step = Proceed, !.instance = model.instance,
                              !.before = model.completed]
    BY <1>6 DEF Begin, At, durable
  <2>2. sup'.step = Proceed /\ sup'.run = sup.run /\ sup'.seq = sup.seq
    BY <1>1, <2>1 DEF SupRecord
  <2> QED
    BY <2>1, <2>2 DEF Called, InTry
<1>7. CASE FindNothingStale \/ Attest \/ FinalizeTiming
  <2>1. /\ sup.step \in {"stale", "attest", "finalize"}
        /\ sup.step = "stale" => observers = {} /\ owned = {}
        /\ UNCHANGED <<outcome, author, children, owned, observers>>
        /\ sup' = [sup EXCEPT !.step = Proceed]
    BY <1>7 DEF FindNothingStale, Attest, FinalizeTiming, At, durable, world
  <2>2. sup'.step = Proceed /\ sup'.run = sup.run /\ sup'.seq = sup.seq
    BY <1>1, <2>1 DEF SupRecord
  <2> QED
    BY <2>1, <2>2 DEF Called, InTry
<1>8. ASSUME NEW kind \in Resources, Create(kind) PROVE Called
  <2>1. /\ sup.step = kind /\ kind \in {"proxy", "initializer", "secrets", "timing"}
        /\ UNCHANGED <<outcome, author, children, observers>>
        /\ owned' \subseteq owned \cup {<<kind, sup.run>>}
    BY <1>8 DEF Create, At, Resources, Containers, Volumes
  <2>2. \/ sup' = [[sup EXCEPT !.step = Proceed] EXCEPT !.tried = @ \cup {kind}]
        \/ sup' = [Leave("failed") EXCEPT !.tried = @ \cup {kind}]
    BY <1>8 DEF Create
  <2>3. sup'.step \in {"clean", Proceed} /\ sup'.run = sup.run /\ sup'.seq = sup.seq
    <3>1. CASE sup' = [[sup EXCEPT !.step = Proceed] EXCEPT !.tried = @ \cup {kind}]
      BY <1>1, <3>1 DEF SupRecord
    <3>2. CASE sup' = [Leave("failed") EXCEPT !.tried = @ \cup {kind}]
      BY <1>2, <1>3, <3>2 DEF SupRecord
    <3> QED
      BY <2>2, <3>1, <3>2
  <2>4. \A made \in owned' : made \in owned \/ made[2] = sup.run
    BY <2>1
  <2> QED
    BY <2>1, <2>3, <2>4 DEF Called, InTry
<1>9. CASE StartObserver \/ StartObserverLost
  <2>1. /\ sup.step = "observer" /\ UNCHANGED <<outcome, author, children, owned>>
        /\ observers' = observers \cup {sup.run}
        /\ \/ sup' = [sup EXCEPT !.step = Proceed, !.watching = TRUE]
           \/ sup' = Leave("interrupted")
    BY <1>9 DEF StartObserver, StartObserverLost, Spawn, At
  <2>2. sup'.step \in {"clean", Proceed} /\ sup'.run = sup.run /\ sup'.seq = sup.seq
    <3>1. CASE sup' = [sup EXCEPT !.step = Proceed, !.watching = TRUE]
      BY <1>1, <3>1 DEF SupRecord
    <3> QED
      BY <1>2, <1>3, <2>1, <3>1
  <2> QED
    BY <2>1, <2>2 DEF Called, InTry
<1>10. CASE ModelEvidence \/ Settle
  <2>1. /\ sup.step \in {"collect", "settle"}
        /\ UNCHANGED <<outcome, author, children, owned, observers>>
        /\ \/ sup.step = "collect" /\ sup' = [sup EXCEPT !.step = Proceed]
           \/ \E status \in {"failed", "passed"} : sup' = Leave(status)
    BY <1>10 DEF ModelEvidence, Settle, At, world
  <2>2. /\ sup'.step = "clean" \/ (sup.step = "collect" /\ sup'.step = Proceed)
        /\ sup'.run = sup.run /\ sup'.seq = sup.seq
    <3>1. CASE sup.step = "collect" /\ sup' = [sup EXCEPT !.step = Proceed]
      BY <1>1, <3>1 DEF SupRecord
    <3> QED
      BY <1>2, <1>3, <2>1, <3>1
  <2> QED
    BY <2>1, <2>2 DEF Called, InTry
<1> QED
  BY <1>4, <1>5, <1>6, <1>7, <1>8, <1>9, <1>10

(* The benchmark child of the run is the only one it starts.                          *)
LEMMA ActContains ==
  ASSUME RunInv, Contained, Act
  PROVE  Contained'
<1>1. /\ sup.step = "act" /\ sup \in SupRecord /\ Alive
      /\ UNCHANGED <<outcome, author, owned, observers>>
      /\ children' = children \cup {[run |-> sup.run, seq |-> sup.seq, at |-> "gate"]}
      /\ sup' = [sup EXCEPT !.step = Proceed]
  BY DEF Act, At, RunInv, RunTyped, Alive, durable
<1>2. Proceed = "acting"
  BY <1>1, ProceedFollows DEF RunInv, RunTyped, Follows, InTry
<1>3. sup'.step = "acting" /\ sup'.run = sup.run /\ sup'.seq = sup.seq
  BY <1>1, <1>2 DEF SupRecord
<1>4. \A c \in children : c.run # sup.run
  BY <1>1 DEF Contained, OwnChild
<1>5. OwnChild'
  BY <1>1, <1>3, <1>4 DEF OwnChild
<1>6. PassedLeavesNoChild'
  BY <1>1 DEF Contained, PassedLeavesNoChild, RunInv, Identities
<1>7. Stage' = Stage
  BY <1>3 DEF Stage
<1>8. WorksAlone'
  BY <1>1, <1>3, <1>7 DEF Contained, WorksAlone, Serving, InTry
<1> QED
  BY <1>5, <1>6, <1>8 DEF Contained

(* A child that moves on is the same child.                                           *)
LEMMA MoveContains ==
  ASSUME IInv, RunInv, Contained, NEW c \in children, NEW at, Moves(c, at),
         sup' = sup \/ sup' = [sup EXCEPT !.attempts = @ + 1],
         UNCHANGED <<outcome, author, owned, observers>>
  PROVE  Contained'
<1>1. sup'.step = sup.step /\ sup'.run = sup.run /\ sup'.seq = sup.seq /\ Stage' = Stage
  <2>1. sup \in SupRecord
    BY DEF RunInv, RunTyped
  <2>2. sup'.step = sup.step /\ sup'.run = sup.run /\ sup'.seq = sup.seq
    BY <2>1 DEF SupRecord
  <2> QED
    BY <2>2 DEF Stage
<1>2. PICK moved : moved.run = c.run /\ children' = (children \ {c}) \cup {moved}
  <2>1. [c EXCEPT !.at = at].run = c.run
    BY DEF IInv, Shape, Child
  <2> QED
    BY <2>1 DEF Moves
<1>3. OwnChild'
  BY <1>1, <1>2 DEF Contained, OwnChild, Alive
<1>4. PassedLeavesNoChild'
  BY <1>2 DEF Contained, PassedLeavesNoChild
<1>5. WorksAlone'
  BY <1>1 DEF Contained, WorksAlone, Serving
<1> QED
  BY <1>3, <1>4, <1>5 DEF Contained

LEMMA ChildContains ==
  ASSUME IInv, RunInv, Contained, NEW c \in children,
         ScoringGate(c) \/ Ask(c) \/ AppendRow(c) \/ FailRow(c) \/ WritePreflight(c) \/ Exit(c)
  PROVE  Contained'
<1>1. CASE ScoringGate(c)
  BY <1>1, MoveContains DEF ScoringGate, durable
<1>2. CASE Ask(c)
  BY <1>2, MoveContains DEF Ask, durable
<1>3. CASE AppendRow(c) \/ FailRow(c) \/ WritePreflight(c)
  BY <1>3, MoveContains DEF AppendRow, FailRow, WritePreflight, Writes
<1>4. CASE Exit(c)
  <2>1. children' = children \ {c} /\ UNCHANGED <<outcome, author, owned, observers>>
    BY <1>4 DEF Exit
  <2>2. PassedLeavesNoChild'
    BY <2>1 DEF Contained, PassedLeavesNoChild
  <2>3. CASE ~Own(c)
    <3>1. sup' = sup
      BY <1>4, <2>3 DEF Exit
    <3> QED
      BY <2>1, <2>2, <3>1 DEF Contained, OwnChild, Alive, WorksAlone, Serving, Stage
  <2>4. CASE Own(c)
    <3>1. /\ sup.step = "acting" /\ c.run = sup.run /\ sup \in SupRecord
          /\ sup' = [sup EXCEPT !.step = Proceed, !.exit = IF Completes(c) THEN 0 ELSE 1]
      BY <1>4, <2>4 DEF Exit, Own, At, RunInv, RunTyped
    <3>2. Proceed = "collect"
      BY <3>1, ProceedFollows DEF RunInv, RunTyped, Follows, InTry
    <3>3. sup'.step = "collect" /\ sup'.run = sup.run /\ sup'.seq = sup.seq
      BY <3>1, <3>2 DEF SupRecord
    <3>4. OwnChild'
      BY <2>1, <3>1, <3>3 DEF Contained, OwnChild
    <3>5. WorksAlone'
      <4>1. Stage' = Stage
        BY <3>3 DEF Stage
      <4> QED
        BY <2>1, <3>1, <3>3, <4>1 DEF Contained, WorksAlone, Serving, InTry
    <3> QED
      BY <2>2, <3>4, <3>5 DEF Contained
  <2> QED
    BY <2>3, <2>4
<1> QED
  BY <1>1, <1>2, <1>3, <1>4

(* Cleanup and the outcome come when no child of the run is left.                      *)
LEMMA EndContains ==
  ASSUME IInv, RunInv, Contained, StopObserver \/ Remove \/ Report \/ ReportNothing
  PROVE  Contained'
<1>1. /\ sup.step = "clean" /\ sup \in SupRecord /\ Alive /\ children' = children
  BY DEF StopObserver, Remove, Report, ReportNothing, Cleaning, Finished, At, RunInv, RunTyped,
     Alive, world
<1>2. \A c \in children : c.run # sup.run
  BY <1>1 DEF Contained, OwnChild
<1>3. sup'.step \in {"clean", "returned"} /\ sup'.run = sup.run
  <2>1. CASE StopObserver \/ Remove
    <3>1. \E refused : sup' = Cleaned(refused)
      BY <2>1 DEF StopObserver, Remove
    <3> QED
      BY <1>1, <3>1 DEF Cleaned, SupRecord
  <2>2. CASE Report
    <3>1. sup' = [sup EXCEPT !.step = "returned", !.status = FinalStatus]
      BY <2>2 DEF Report
    <3> QED
      BY <1>1, <3>1 DEF SupRecord
  <2>3. CASE ReportNothing
    <3>1. sup' = [sup EXCEPT !.step = "returned", !.status = "failed"]
      BY <2>3 DEF ReportNothing
    <3> QED
      BY <1>1, <3>1 DEF SupRecord
  <2> QED
    BY <2>1, <2>2, <2>3
<1>4. OwnChild' /\ WorksAlone'
  BY <1>1, <1>2, <1>3 DEF OwnChild, WorksAlone, Serving, InTry
<1>5. PassedLeavesNoChild'
  <2>1. CASE Report
    <3>1. /\ outcome' = [outcome EXCEPT ![sup.seq] = FinalStatus]
          /\ author' = [author EXCEPT ![sup.seq] = sup.run]
          /\ outcome \in [Seqs -> Statuses \cup {"absent"}] /\ author \in [Seqs -> Nat]
      BY <2>1 DEF Report, IInv, TypeOK
    <3> QED
      BY <1>1, <1>2, <3>1 DEF Contained, PassedLeavesNoChild
  <2>2. CASE UNCHANGED <<outcome, author>>
    BY <1>1, <2>2 DEF Contained, PassedLeavesNoChild
  <2> QED
    BY <2>1, <2>2 DEF StopObserver, Remove, ReportNothing, durable
<1> QED
  BY <1>4, <1>5 DEF Contained

(* A new run finds what earlier ones left, and refuses to go on beside it.             *)
LEMMA CampaignContains ==
  ASSUME IInv, RunInv, Contained, Campaigns \/ Crashes \/ UNCHANGED vars
  PROVE  Contained'
<1>1. CASE UNCHANGED supVars
  BY <1>1 DEF supVars, durable, world, Contained, OwnChild, PassedLeavesNoChild, WorksAlone,
     Serving, Stage, Alive
<1>2. CASE \E p \in Procs : RunStage(p)
  <2>1. PICK p \in Procs : Enter(next[p])
    BY <1>2 DEF RunStage
  <2>2. /\ UNCHANGED <<outcome, author, children, observers, owned>> /\ runs \in Nat
        /\ next[p] \in Seqs
        /\ sup' = [Idle EXCEPT !.step = "load", !.seq = next[p], !.run = runs + 1]
    BY <2>1 DEF Enter, durable, world, IInv, Shape, TypeOK
  <2>3. sup'.step = "load" /\ sup'.run = runs + 1
    BY <2>2, IdleIs DEF SupRecord
  <2>4. \A c \in children : c.run # sup'.run
    BY <2>2, <2>3 DEF RunInv, Identities, IInv, Shape, Child
  <2> QED
    BY <2>2, <2>3, <2>4 DEF Contained, OwnChild, PassedLeavesNoChild, WorksAlone, Serving
<1>3. CASE sup' = Idle /\ UNCHANGED <<durable, world, runs>>
  <2>1. sup'.step = "idle"
    BY <1>3, IdleIs
  <2> QED
    BY <1>3, <2>1 DEF durable, world, Contained, OwnChild, PassedLeavesNoChild, WorksAlone, Serving,
       Alive, InTry
<1> QED
  BY <1>1, <1>2, <1>3 DEF Campaigns, Step, Crashes, Crash, Advance, LoadEvents, Inspect, Probe,
     RunReturns, CreateEvent, FillEvent, CreateHead, FillHead, Complete, CreateVerdict, FillVerdict,
     vars, supVars, durable, world

LEMMA NextContains == IInv /\ RunInv /\ Contained /\ [Next]_vars => Contained'
<1> SUFFICES ASSUME IInv, RunInv, Contained, [Next]_vars PROVE Contained'
  OBVIOUS
<1>1. CASE Below /\ Supervise
  BY <1>1, CallIs, CalledKeeps, ActContains, EndContains
  DEF Supervise, CreateVolume, InitializeSecrets, LaunchProxy, Resources, Containers, Volumes
<1>2. CASE Below /\ ChildStep
  BY <1>2, ChildContains DEF ChildStep
<1>3. CASE Below /\ Operator
  <2>1. UNCHANGED <<outcome, author, owned, observers, sup, children>>
    BY <1>3 DEF Operator, ReplaceModel, StopModel, StartModel, durable
  <2> QED
    BY <2>1 DEF Contained, OwnChild, PassedLeavesNoChild, WorksAlone, Serving, Stage, Alive
<1> QED
  BY <1>1, <1>2, <1>3, CampaignContains DEF Next, Below

(* A passed run has left no observer, no labelled Docker resource and no benchmark      *)
(* child: not after a command that failed although its resource appeared, and not when  *)
(* an earlier removal was refused. What a run of any other end has left, a killed         *)
(* supervisor's included, is gone before a later run makes an observer or a resource.   *)
THEOREM LeftoversAreContained == Spec => []LeftoversContained
<1>1. Init => Contained
  BY IdleIs DEF Init, SupervisionInit, Contained, OwnChild, PassedLeavesNoChild, WorksAlone,
     Serving, Alive, InTry
<1>2. RunInv /\ Contained => LeftoversContained
  BY DEF RunInv, Leftovers, Contained, LeftoversContained
<1> QED
  BY <1>1, <1>2, RunInductive, NextContains, PTL DEF Spec

(* As long as the rows a passed outcome hashed are still the rows of the file, each of   *)
(* them is the run's own or records a failure, which an orphan of the stage may have     *)
(* put in the place of its rows. The model served nobody else, before a scored run or    *)
(* between its probes: no restarted model and no orphan's request gets a pass.           *)
THEOREM PassedOutcomesAreTheirOwn == Spec => []PassedEvidenceIsOwn
<1>1. IInv /\ RunInv => PassedEvidenceIsOwn
  <2> SUFFICES ASSUME IInv, RunInv, NEW s \in Seqs, outcome[s] = "passed", Untouched(s)
               PROVE  /\ foreign[s] = 0
                      /\ \A n \in DOMAIN sealed[s].entries :
                           sealed[s].entries[n].failure \/ sealed[s].entries[n].run = author[s]
    BY DEF PassedEvidenceIsOwn
  <2>1. foreign[s] = 0 /\ Holds(sealed[s].entries, author[s])
    BY DEF RunInv, Exclusive, OwnRows
  <2>2. sealed[s].entries \in Seq([run : Nat, failure : BOOLEAN]) /\ Len(sealed[s].entries) = 1
    BY DEF IInv, Sealed, Ledgers, Untouched, Cases
  <2>3. DOMAIN sealed[s].entries = {1}
    BY <2>2
  <2> QED
    BY <2>1, <2>2, <2>3 DEF Holds
<1> QED
  BY <1>1, RunInductive, PTL
==============================================================================
