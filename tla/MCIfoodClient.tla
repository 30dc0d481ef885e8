--------------------------- MODULE MCIfoodClient ---------------------------
(* An instance of IfoodClient for TLC. *)
EXTENDS IfoodClient, TLC

CONSTANTS c1, c2, o1, o2, p1, p2

(* The orders of two merchants: one has a profile of its own. *)
MCProfileMap == (o1 :> p2) @@ (o2 :> None)
MCOneProfile == o1 :> p2

(* Only the cancellations are paced. *)
MCMinInterval == [e \in Endpoint |-> IF e = "cancel" THEN 2 ELSE 0]
=============================================================================
