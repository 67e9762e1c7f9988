---------------------------- MODULE StageLedger ----------------------------
(* What a qualification campaign promises, whatever happens to the processes *)
(* that advance it: an append-only log of stage results in the one frozen    *)
(* order, ended by the first result that is not a pass, and one verdict over *)
(* a log in which every stage passed.                                        *)
EXTENDS Integers, Sequences

CONSTANTS Stages        \* how many stages the manifest freezes

VARIABLES log,          \* the results recorded so far
          decision      \* "open" until the campaign has a verdict

ledgerVars == <<log, decision>>

Results == {"passed", "failed", "interrupted", "partial"}
Verdicts == {"passed", "failed"}

Continues == \A n \in DOMAIN log : log[n] = "passed"

LedgerInit == log = <<>> /\ decision = "open"

Append1(result) ==
  /\ decision = "open"
  /\ Continues
  /\ Len(log) < Stages
  /\ log' = Append(log, result)
  /\ UNCHANGED decision

Decide(verdict) ==
  /\ decision = "open"
  /\ Continues
  /\ Len(log) = Stages
  /\ decision' = verdict
  /\ UNCHANGED log

LedgerNext == \/ \E result \in Results : Append1(result)
              \/ \E verdict \in Verdicts : Decide(verdict)

LedgerSpec == LedgerInit /\ [][LedgerNext]_ledgerVars
============================================================================
