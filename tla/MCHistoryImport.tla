-------------------------- MODULE MCHistoryImport --------------------------
(* An instance of HistoryImport for TLC: two spellings of one login, a     *)
(* reference by _id, a delivery without logical id, one without a store.   *)
EXTENDS HistoryImport

D(id, alias, key, owner, link, valid) ==
  [id |-> id, alias |-> alias, key |-> key, owner |-> owner, link |-> link,
   valid |-> valid]
K(name, spelling) == [name |-> name, spelling |-> spelling]
W(t, id, key, owner, link) ==
  [table |-> t, row |-> [id |-> id, key |-> key, owner |-> owner, link |-> link,
                         by |-> "app"]]

Untidy == [t \in Table |->
  CASE t = "city" -> <<D("c", "_c", K("breves", 1), None, None, TRUE)>>
    [] t = "user" -> <<D("u1", "_u1", K("ana", 1), "_c", None, TRUE),
                       D("u2", "_u2", K("ana", 2), "c", None, TRUE),
                       D("u3", "_u3", K("rui", 1), "c", None, FALSE)>>
    [] t = "delivery" -> <<D("e1", "_e1", K("o1", 1), "_u1", None, TRUE),
                           D(None, "_e2", None, "u2", None, TRUE),
                           D("e3", "_e3", None, None, None, FALSE)>>
    [] t = "link" -> <<D("o1", None, None, "u1", "e1", TRUE)>>
    [] t = "record" -> <<D("h1", "_h1", None, "u2", None, TRUE)>>]

(* A source the preflight accepts, but for an id of two records. *)
Tidy == [t \in Table |->
  CASE t = "city" -> <<>>
    [] t = "user" -> <<D("u1", "_u1", K("ana", 1), None, None, TRUE),
                       D("u2", "_u2", K("ana", 2), None, None, TRUE)>>
    [] t = "delivery" -> <<D("e1", "_e1", K("o1", 1), "u1", None, TRUE),
                           D(None, "_e2", None, "u2", None, TRUE)>>
    [] t = "link" -> <<D("o1", None, None, "u1", "e1", TRUE)>>
    [] t = "record" -> <<D("h1", "_h1", None, "u2", None, TRUE),
                         D("h1", "_h2", None, "u2", None, TRUE),
                         D(None, "_h3", None, "u2", None, TRUE)>>]
TwoOrders == [Tidy EXCEPT !["delivery"] =
  <<D("e1", "_e1", K("o1", 1), "u1", None, TRUE),
    D("e2", "_e2", K("o1", 1), "u2", None, TRUE)>>]
MCSources == {Untidy, Tidy, TwoOrders}

NewCity == {W("city", "c9", K("breves", 2), None, None)}
NewUser == {W("user", "u9", K("ana", 1), "c9", None)}
NewDelivery == {W("delivery", "x1", K("o1", 1), "u9", None)}
NewLink == {W("link", "o1", None, "u9", "x1")}
MCAppWrites == NewCity \cup NewUser \cup NewDelivery \cup NewLink
MCExisting == {{}, NewCity \cup NewUser, NewDelivery}
=============================================================================
