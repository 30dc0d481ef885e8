--------------------------- MODULE MCMenuFlowSync ---------------------------
(* An instance of MenuFlowSync for TLC. *)
EXTENDS MenuFlowSync, TLC

CONSTANTS o1, o2, d1, d2, c1, c2, c3, c4
MCBodies == {"FINISHED", "PENDING", None}
=============================================================================
