------------------------ MODULE MCDeliveryLifecycle ------------------------
(* Small instances of DeliveryLifecycle for TLC: two couriers, a store and *)
(* an administrator of one city.                                           *)
EXTENDS DeliveryLifecycle, TLC

CONSTANTS m1, m2, s1, a1, d1, d2, here

MCUser == {m1, m2, s1, a1}
NoAdmin == {m1, m2, s1}
MCTypeOf ==
  (m1 :> "motoboy") @@ (m2 :> "motoboy") @@ (s1 :> "shopkeeper")
    @@ (a1 :> "admin")
MCCityOf == [u \in MCUser |-> here]
Couriers == {m1, m2}
NoUsers == {}

Doc(status, motoboy, flags, bare) ==
  [status |-> status, motoboy |-> motoboy, store |-> s1, active |-> TRUE,
   flags |-> flags, bare |-> bare]
Begun(doc, facts) == [document |-> doc, notified |-> doc.flags, ifood |-> facts]

Fresh    == Begun(Doc("PENDING", None, {}, TRUE), {})
Waiting  == Begun(Doc("AWAITING_RELEASE", None, {}, TRUE), {})
OnItsWay == Begun(Doc("ONCOURSE", m1, {"assignDriver", "goingToOrigin"}, FALSE), {})
AtDoor   == Begun(Doc("AWAITING_CODE", m1,
                      {"assignDriver", "goingToOrigin", "dispatch",
                       "arrivedAtDestination"}, FALSE), {"dropCodeRequested"})
AnyStage == {Fresh, Waiting, OnItsWay, AtDoor}
FreshOnly == {Fresh}

To(status)   == [NoBody EXCEPT !.status = status]
Take(m)      == [NoBody EXCEPT !.motoboy = m]
TakeOnCourse(m) == [To("ONCOURSE") EXCEPT !.motoboy = m]
WithCode     == [To("FINISHED") EXCEPT !.code = TRUE]
NoteOnly     == [NoBody EXCEPT !.noteOnly = TRUE]

EveryDto == [u \in MCUser |->
  {Take(m1), TakeOnCourse(m2), To("ARRIVED_AT_STORE"), To("COLLECTED"),
   To("ARRIVED_AT_DESTINATION"), WithCode, To("FINISHED"), To("CANCELED"),
   NoteOnly}]
CourierDto == [u \in MCUser |->
  IF u \in Couriers THEN {TakeOnCourse(u)} ELSE {To("CANCELED")}]

EveryOp == Op \cup Passive
CourierOps == {"UPDATE", "DELETE", "CANCEL_EVENT"}
EitherWay == {"concluded", "cancelled"}
ByCancelling == {"cancelled"}

OneDelivery == {d1}
TwoDeliveries == {d1, d2}
StoreOfOne == d1 :> s1

Symmetric == Permutations(Request)
=============================================================================
