----------------------------- MODULE MCListings -----------------------------
(* Two cities; the clock starts on a Monday, the last day of a week. *)
EXTENDS Listings, TLC

U(type, city) == [type |-> type, city |-> city]
MCUsers ==
  [root |-> U("superadmin", "c2"), boss |-> U("admin", "c1"),
   shop1 |-> U("shopkeeperadmin", "c1"),
   rider |-> U("motoboy", "c1")]
MCFee == [c1 |-> 2, c2 |-> 0]

Q(status, driver, day) ==
  [status |-> status, driver |-> driver, store |-> None, city |-> None,
   createdIn |-> day, createdUntil |-> None]
CONSTANTS d1, d2
Doc(t, status, m) == [created |-> t, store |-> "shop1", city |-> "c1", active |-> TRUE,
                      driver |-> m, status |-> status]
MCExisting ==
  {[stored |-> d1 :> Doc(2, "PENDENTE", None),
    coming |-> d2 :> Doc(1, "PENDENTE", None)],
   [stored |-> (d1 :> Doc(1, "FINALIZADO", "rider")) @@ (d2 :> Doc(2, "FINALIZADO", "rider")),
    coming |-> <<>>],
   [stored |-> d1 :> Doc(2, "FINALIZADO", "rider"), coming |-> <<>>]}
MCQueries == {Q({}, None, None), Q({Pending}, None, 1)}
=============================================================================
