----------------------------- MODULE MCAdmission -----------------------------
(***************************************************************************)
(* Small instances of Admission.                                           *)
(***************************************************************************)
EXTENDS Admission, TLC

CONSTANTS p1, p2,             \* principals
          r1, r2, r3, probe   \* requests

\* Two requests of one principal and one of another.
TwoKeys == (r1 :> p1) @@ (r2 :> p1) @@ (r3 :> p2)
\* A readiness probe competes with requests for the upstream slots.
WithProbe == (r1 :> p1) @@ (r2 :> p1) @@ (probe :> GlobalKey)

PairSymmetry == Permutations({r1, r2})
=============================================================================
