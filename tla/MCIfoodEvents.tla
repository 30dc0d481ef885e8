---------------------------- MODULE MCIfoodEvents ----------------------------
(* Small instances of IfoodEvents for TLC: one or two orders of one store,  *)
(* placed and then cancelled or concluded.                                  *)
EXTENDS IfoodEvents, TLC

CONSTANTS o1, o2, c1, placed, ended, concluded, placed2, ended2, d1, d2, poll, hook1, admin

MCOrderOf == [e \in Event |-> IF e \in {placed2, ended2} THEN o2 ELSE o1]
MCKindOf == (placed :> "import") @@ (ended :> "cancel") @@ (concluded :> "conclude")
              @@ (placed2 :> "import") @@ (ended2 :> "cancel")
PlacedAndEnded == (placed :> "import") @@ (ended :> "cancel")
MCShopOf == [o \in Order |-> c1]
OneCredit == c1 :> 1
TwoCredits == c1 :> 2
OneByOne == {{e} : e \in Event}
=============================================================================
