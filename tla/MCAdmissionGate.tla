--------------------------- MODULE MCAdmissionGate ---------------------------
(***************************************************************************)
(* A small instance of AdmissionGate.                                      *)
(***************************************************************************)
EXTENDS AdmissionGate, TLC

CONSTANTS p1, p2, r1, r2, r3, r4, probe

MCBudgetKey == (r1 :> p1) @@ (r2 :> p1) @@ (r3 :> p1) @@ (r4 :> p2) @@ (probe :> p2)
=============================================================================
