--------------------------- MODULE MCIfoodCredits ---------------------------
(* Small instances of IfoodCredits for TLC: one company, a super            *)
(* administrator, an administrator of its city and one of another city.    *)
EXTENDS IfoodCredits, TLC

CONSTANTS c1, o1, o2, here, elsewhere

MCCompany == {c1}
MCOrder == {o1, o2}
MCRequester == { [type |-> "superadmin", city |-> elsewhere],
                 [type |-> "admin", city |-> here],
                 [type |-> "admin", city |-> elsewhere] }
MCCityOf == [c \in {c1} |-> here]
MCAmount == {1, 2}
MCInitialAccount == [c \in {c1} |-> [released |-> 2, used |-> 1, available |-> 1]]
MCCounterEdit == {[released |-> 3, used |-> 0, available |-> 3]}

AllOps == {"ADD", "REMOVE", "CONSUME", "REFUND", "SAVE"}

Symmetric == Permutations(Request) \cup Permutations(MCOrder)
=============================================================================
