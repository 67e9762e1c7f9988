-------------------------- MODULE MCRequestLifecycle --------------------------
(***************************************************************************)
(* Small instances of RequestLifecycle.                                    *)
(***************************************************************************)
EXTENDS RequestLifecycle, TLC

CONSTANTS r1, r2
=============================================================================
