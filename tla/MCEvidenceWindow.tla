--------------------------- MODULE MCEvidenceWindow ---------------------------
(* Small instances of EvidenceWindow: two benchmark cases.                    *)
EXTENDS EvidenceWindow, TLC

TwoCases == <<2, 1>>
=============================================================================
