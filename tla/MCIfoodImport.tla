---------------------------- MODULE MCIfoodImport ----------------------------
(* Small instances of IfoodImport for TLC: one store and its two orders,    *)
(* one with two eligible events, one with an eligible one; the polling and  *)
(* two more imports.                                                        *)
EXTENDS IfoodImport, TLC

CONSTANTS o1, o2, c1, e1, e2, e3, d1, d2, d3, poll, hook1, hook2

MCOrder == {o1, o2}
MCEvent == {e1, e2, e3}
MCImporter == {poll, hook1, hook2}
TwoImporters == {poll, hook1}
MCOrderOf == (e1 :> o1) @@ (e2 :> o1) @@ (e3 :> o2)
AllEligible == [e \in MCEvent |-> "import"]
OneCancel == (e1 :> "import") @@ (e2 :> "cancel") @@ (e3 :> "import")
MCShopOf == [o \in MCOrder |-> c1]
OneCredit == [c \in {c1} |-> 1]
TwoCredits == [c \in {c1} |-> 2]

=============================================================================
