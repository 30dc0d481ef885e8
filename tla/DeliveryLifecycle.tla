------------------------- MODULE DeliveryLifecycle -------------------------
(***************************************************************************)
(* The life of a delivery document (delivery/delivery.service.ts): claims  *)
(* by couriers, status updates by couriers, stores and administrators,     *)
(* deletion, release, the clean-up of stale iFood orders, and the events   *)
(* that iFood sends.                                                       *)
(*                                                                         *)
(* A handler reads the document, calls iFood and other collections, and    *)
(* writes the document back; between two of these round trips any other    *)
(* handler may run.  What it writes is, but for the claim, the copy it     *)
(* read with some fields replaced.  task[r] is the local state of the      *)
(* handler serving request r, pc[r] the round trip it makes next.          *)
(***************************************************************************)
EXTENDS Naturals, FiniteSets

CONSTANTS
  User, TypeOf, CityOf,  \* users, their types and cities
  Master,                \* users with the permission "master"
  Patient,               \* users who wait for an answer before asking again
  Delivery,              \* ids of the deliveries
  LinkStore,             \* the store of each delivery linked to an iFood order
  Start,                 \* [document, notified, ifood]: what a delivery may begin as
  Dto,                   \* the bodies of the updates each user sends
  Quota,                 \* motoboysDeliveriesAmount
  Ops,                   \* the entry points open, and whether handlers may die
  Closing,               \* the ways iFood may close an order
  Request,               \* ids of the requests served
  None                   \* no user, no status

Linked == DOMAIN LinkStore

InProgress == {"ONCOURSE", "ARRIVED_AT_STORE", "COLLECTED",
               "ARRIVED_AT_DESTINATION", "AWAITING_CODE"}
AtDestination == {"ARRIVED_AT_DESTINATION", "AWAITING_CODE"}
Status == {"AWAITING_RELEASE", "PENDING", "FINISHED", "CANCELED"} \cup InProgress

(* The notifications of the logistics API; a flag of the document records  *)
(* each.  A document lacks the flag fields (bare) until the first write    *)
(* that goes through buildPersistableDelivery.                             *)
Notice == {"assignDriver", "goingToOrigin", "arrivedAtOrigin", "dispatch",
           "arrivedAtDestination"}

(* What is true of the order at iFood, what iFood has answered about it    *)
(* (refusedAsEnded: it refused a code in words like "already" or "cancel"), *)
(* and whether its event DELIVERY_DROP_CODE_REQUESTED is stored here.      *)
Fact == {"dropCodeRequested", "codeVerified", "refusedAsEnded",
         "cancelAccepted", "concluded", "cancelled"}

Document == [status : Status, motoboy : User \cup {None}, store : User,
             active : BOOLEAN, flags : SUBSET Notice, bare : BOOLEAN]

Body == [status : Status \cup {None}, motoboy : User \cup {None},
         store : User \cup {None}, code : BOOLEAN, noteOnly : BOOLEAN]

Op == {"UPDATE", "DELETE", "RELEASE", "CLEANUP", "CANCEL_EVENT",
       "CONCLUDE_EVENT", "STATUS_EVENT", "CANCEL_FAILED_EVENT"}
Passive == {"DROP_CODE_EVENT", "CRASH"}

ASSUME LifecycleAssumption ==
  /\ None \notin User \cup Status
  /\ LinkStore \in [Linked -> User] /\ Linked \subseteq Delivery
  /\ Start \subseteq [document : Document, notified : SUBSET Notice,
                      ifood : SUBSET Fact]
  /\ \A u \in User : Dto[u] \subseteq Body
  /\ \A u \in User : \A dto \in Dto[u] :
       dto.noteOnly => dto.status = None /\ dto.motoboy = None
  /\ Closing \subseteq {"concluded", "cancelled"}
  /\ Ops \subseteq Op \cup Passive

VARIABLES
  delivery,   \* the delivery documents
  notified,   \* the notifications iFood accepted, of each delivery
  ifood,      \* the facts true of the order of each delivery
  accepted,   \* the couriers whose claim succeeded, of each delivery
  refunded,   \* deliveries whose credit the credits service was asked back
  task, pc

records == <<delivery, accepted, refunded>>
outside == <<notified, ifood>>
vars == <<records, outside, task, pc>>

Task == [op : Op, user : User \cup {None}, delivery : Delivery, dto : Body,
         copy : Document, todo : SUBSET Notice, gained : SUBSET Notice]
NoTask == [op |-> "NONE"]
NoBody == [status |-> None, motoboy |-> None, store |-> None,
           code |-> FALSE, noteOnly |-> FALSE]

InFlight == {"count", "decide", "claim", "sync", "notify", "check", "confirm",
             "merge", "write", "saveFlags", "refund", "askCancel", "remove",
             "finish", "stamp", "release", "query"}

TypeOK ==
  /\ delivery \in [Delivery -> Document]
  /\ notified \in [Delivery -> SUBSET Notice]
  /\ ifood \in [Delivery -> SUBSET Fact]
  /\ accepted \in [Delivery -> SUBSET User]
  /\ refunded \subseteq Delivery
  /\ task \in [Request -> Task \cup {NoTask}]
  /\ pc \in [Request -> InFlight \cup {"idle", "ended"}]
  /\ \A r \in Request : pc[r] \in InFlight <=> task[r] # NoTask

Init ==
  /\ \E s \in [Delivery -> Start] :
       /\ delivery = [d \in Delivery |-> s[d].document]
       /\ notified = [d \in Delivery |-> s[d].notified]
       /\ ifood = [d \in Delivery |-> s[d].ifood]
  /\ accepted = [d \in Delivery |-> {}]
  /\ refunded = {}
  /\ task = [r \in Request |-> NoTask]
  /\ pc = [r \in Request |-> "idle"]

-----------------------------------------------------------------------------
(* Roles                                                                   *)

IsMotoboy(u) == TypeOf[u] = "motoboy"
IsStore(u)   == TypeOf[u] \in {"shopkeeper", "shopkeeperadmin"}
IsAdmin(u)   == TypeOf[u] \in {"admin", "superadmin"} \/ u \in Master
IsManager(u) == TypeOf[u] \in {"admin", "superadmin"} \/ IsStore(u)

MayAccess(u, city) == TypeOf[u] = "superadmin" \/ CityOf[u] = city

Assigned(doc) == doc.motoboy # None \/ doc.status \in InProgress

MayMove(u, doc) == IsAdmin(u) \/ ~(IsStore(u) /\ Assigned(doc))

(* The refusals at the head of updateDelivery.                             *)
MayUpdate(u, dto, doc) ==
  /\ MayAccess(u, CityOf[doc.store])
  /\ dto.status # None => MayMove(u, doc)
  /\ (IsAdmin(u) \/ IsStore(u)) =>
       /\ dto.store # None => IsAdmin(u) /\ MayAccess(u, CityOf[dto.store])
       /\ dto.motoboy # None =>
            IsMotoboy(dto.motoboy) /\ MayAccess(u, CityOf[dto.motoboy])
  /\ IsMotoboy(u) =>
       /\ doc.motoboy \in {None, u}
       /\ dto.status = "ONCOURSE" => dto.motoboy # None

-----------------------------------------------------------------------------
(* Steps of a handler                                                      *)

(* A refused request changes nothing: it is not begun.                     *)
Begin(r, op, u, d, dto, next) ==
  /\ pc[r] = "idle"
  /\ op \in Ops
  /\ u \in Patient => \A q \in Request : task[q] # NoTask => task[q].user # u
  /\ task' = [task EXCEPT ![r] =
       [op |-> op, user |-> u, delivery |-> d, dto |-> dto,
        copy |-> delivery[d], todo |-> {}, gained |-> {}]]
  /\ pc' = [pc EXCEPT ![r] = next]

Goto(r, next) ==
  /\ pc' = [pc EXCEPT ![r] = next]
  /\ UNCHANGED task

End(r) ==
  /\ pc' = [pc EXCEPT ![r] = "ended"]
  /\ task' = [task EXCEPT ![r] = NoTask]

Continue(r, t, next) ==
  /\ pc' = [pc EXCEPT ![r] = next]
  /\ task' = [task EXCEPT ![r] = t]

(* repository.save and $set write every field of the image; only the flag  *)
(* fields may be missing from it, and then keep what the document has.     *)
Save(d, image) ==
  delivery' = [delivery EXCEPT ![d] =
    [status |-> image.status, motoboy |-> image.motoboy, store |-> image.store,
     active |-> image.active,
     flags |-> IF image.bare THEN delivery[d].flags ELSE image.flags,
     bare |-> delivery[d].bare /\ image.bare]]

(* buildPersistableDelivery: absent flags become false.                    *)
Persistable(doc, status, motoboy, flags) ==
  [status |-> status, motoboy |-> motoboy, store |-> doc.store,
   active |-> doc.active, flags |-> flags, bare |-> FALSE]

Closed(doc, status, active) ==
  [status |-> status, motoboy |-> doc.motoboy, store |-> doc.store,
   active |-> active, flags |-> doc.flags, bare |-> doc.bare]

(* motoboyFinded and changedDelivery of updateDelivery.                    *)
Chosen(t) ==
  IF t.dto.motoboy # None /\ IsMotoboy(t.user) THEN t.user ELSE t.dto.motoboy

(* Mutant: fields missing from the body are written as undefined.          *)
ChangedUnsanitized(t) ==
  [status |-> t.dto.status,
   motoboy |-> IF Chosen(t) # None THEN Chosen(t) ELSE t.copy.motoboy,
   store |-> t.copy.store,
   active |-> t.copy.active, flags |-> t.copy.flags, bare |-> t.copy.bare]

Changed(t) ==
  [status |-> IF t.dto.status # None THEN t.dto.status
              ELSE IF t.dto.motoboy # None /\ t.copy.status = "PENDING"
                   THEN "ONCOURSE" ELSE t.copy.status,
   motoboy |-> IF Chosen(t) # None THEN Chosen(t) ELSE t.copy.motoboy,
   store |-> IF t.dto.store # None /\ IsAdmin(t.user)
             THEN t.dto.store ELSE t.copy.store,
   active |-> t.copy.active, flags |-> t.copy.flags, bare |-> t.copy.bare]

IsClaim(dto, doc) ==
  /\ doc.status = "PENDING"
  /\ dto.motoboy # None
  /\ dto.status \in {None, "ONCOURSE"}

Route(dto, doc) ==
  IF dto.noteOnly THEN "merge"
  ELSE IF dto.status = "ARRIVED_AT_DESTINATION" THEN "decide"
  ELSE IF IsClaim(dto, doc) THEN "claim" ELSE "sync"

-----------------------------------------------------------------------------
(* updateDelivery                                                          *)

UpdateRead(r, u, d, dto) ==
  /\ MayUpdate(u, dto, delivery[d])
  /\ Begin(r, "UPDATE", u, d, dto,
           IF IsMotoboy(u) /\ dto.motoboy # None
           THEN "count" ELSE Route(dto, delivery[d]))
  /\ UNCHANGED <<records, outside>>

(* The deliveries a courier holds, as the quota counts them.               *)
Held(m) ==
  {d \in Delivery : /\ delivery[d].active
                    /\ delivery[d].motoboy = m
                    /\ delivery[d].status \in InProgress \cup {"PENDING"}
                    /\ CityOf[delivery[d].store] = CityOf[m]}

(* Mutant: the quota admits one delivery too many.                         *)
CountQuotaOffByOne(r) ==
  LET t == task[r] IN
  /\ pc[r] = "count"
  /\ IF Cardinality(Held(t.user)) > Quota
     THEN End(r) ELSE Goto(r, Route(t.dto, t.copy))
  /\ UNCHANGED <<records, outside>>

CountQuota(r) ==
  LET t == task[r] IN
  /\ pc[r] = "count"
  /\ IF Cardinality(Held(t.user)) >= Quota
     THEN End(r) ELSE Goto(r, Route(t.dto, t.copy))
  /\ UNCHANGED <<records, outside>>

DecideDestination(r) ==
  LET t == task[r]
      asked == t.delivery \in Linked /\ "dropCodeRequested" \in ifood[t.delivery]
  IN
  /\ pc[r] = "decide"
  /\ Continue(r, IF asked THEN [t EXCEPT !.dto.status = "AWAITING_CODE"] ELSE t,
              "sync")
  /\ UNCHANGED <<records, outside>>

(* claimPendingDeliveryAtomically: one conditional update.                 *)
IsFreeUnfiltered(doc) == doc.active   \* mutant: no filter on the courier
IsFree(doc) == doc.active /\ doc.status = "PENDING" /\ doc.motoboy = None

Claim(r) ==
  LET t == task[r]  d == t.delivery IN
  /\ pc[r] = "claim"
  /\ \/ /\ IsFree(delivery[d])
        /\ Save(d, Persistable(Changed(t), "ONCOURSE", Chosen(t), t.copy.flags))
        /\ accepted' = [accepted EXCEPT ![d] = @ \cup {Chosen(t)}]
        /\ Goto(r, "sync")
        /\ UNCHANGED refunded
     \/ /\ ~IsFree(delivery[d])
        /\ End(r)
        /\ UNCHANGED records
  /\ UNCHANGED outside

-----------------------------------------------------------------------------
(* syncIfoodIfNeeded, from updateDelivery and releaseDelivery              *)

SwallowsErrors(t) == t.op = "RELEASE" \/ IsClaim(t.dto, t.copy)

(* nextDelivery: read again after a claim, else the copy with its changes. *)
Target(t) ==
  IF IsClaim(t.dto, t.copy) THEN delivery[t.delivery] ELSE Changed(t)

NextStatus(t) ==
  IF t.op = "RELEASE" \/ Target(t).status = "ONCOURSE" THEN "ONCOURSE"
  ELSE IF t.dto.status # None THEN t.dto.status ELSE Target(t).status

Courier(t) ==
  IF Target(t).motoboy # None THEN Target(t).motoboy ELSE t.copy.motoboy

NeedsSync(t) ==
  /\ t.delivery \in Linked
  /\ t.copy.status = NextStatus(t) => NextStatus(t) \in InProgress

AfterSync(t, gained) ==
  IF ~SwallowsErrors(t) THEN "merge"
  ELSE IF gained = {} THEN "done" ELSE "saveFlags"

Proceed(r, t) ==
  IF AfterSync(t, t.gained) = "done" THEN End(r)
  ELSE Continue(r, t, AfterSync(t, t.gained))

Plan(t) ==
  LET toStore == IF Courier(t) = None THEN {}
                 ELSE {"assignDriver", "goingToOrigin"}
      planned == CASE NextStatus(t) = "ONCOURSE" -> toStore
                   [] NextStatus(t) = "ARRIVED_AT_STORE" ->
                        toStore \cup {"arrivedAtOrigin"}
                   [] NextStatus(t) = "COLLECTED" -> toStore \cup {"dispatch"}
                   [] OTHER -> {"arrivedAtDestination"}
  IN planned \ t.copy.flags

SyncNothing(r) ==
  LET t == task[r] IN
  /\ pc[r] = "sync"
  /\ \/ ~NeedsSync(t)
     \/ NextStatus(t) \in {"PENDING", "AWAITING_RELEASE"}
  /\ Proceed(r, t)
  /\ UNCHANGED <<records, outside>>

(* The flag of the arrival is returned even when it was already set.       *)
SyncProgress(r) ==
  LET t == task[r]
      kept == IF NextStatus(t) \in AtDestination
              THEN t.copy.flags \cap {"arrivedAtDestination"} ELSE {}
      planned == [t EXCEPT !.todo = Plan(t), !.gained = kept]
  IN
  /\ pc[r] = "sync"
  /\ NeedsSync(t)
  /\ NextStatus(t) \in InProgress
  /\ IF Plan(t) = {} THEN Proceed(r, planned) ELSE Continue(r, planned, "notify")
  /\ UNCHANGED <<records, outside>>

(* The notifications go out one at a time, the driver and the way to the   *)
(* store first.  When one fails, those already accepted leave no flag.     *)
PrecedesSwapped(a, b) == a # "assignDriver" /\ b = "assignDriver"   \* mutant

Precedes(a, b) ==
  \/ a = "assignDriver" /\ b # "assignDriver"
  \/ a = "goingToOrigin" /\ b \notin {"assignDriver", "goingToOrigin"}

(* Mutant: an error of iFood is taken for success.                         *)
NotifyOptimistic(r) ==
  LET t == task[r]  d == t.delivery IN
  /\ pc[r] = "notify"
  /\ \E n \in t.todo :
       LET sent == [t EXCEPT !.todo = @ \ {n}, !.gained = @ \cup {n}] IN
       /\ \A m \in t.todo : ~Precedes(m, n)
       /\ notified' \in {notified, [notified EXCEPT ![d] = @ \cup {n}]}
       /\ IF t.todo = {n} THEN Proceed(r, sent) ELSE Continue(r, sent, "notify")
  /\ UNCHANGED <<records, ifood>>

Notify(r) ==
  LET t == task[r]  d == t.delivery IN
  /\ pc[r] = "notify"
  /\ \E n \in t.todo :
       /\ \A m \in t.todo : ~Precedes(m, n)
       /\ \/ LET sent == [t EXCEPT !.todo = @ \ {n}, !.gained = @ \cup {n}] IN
             /\ notified' = [notified EXCEPT ![d] = @ \cup {n}]
             /\ IF t.todo = {n} THEN Proceed(r, sent) ELSE Continue(r, sent, "notify")
          \/ /\ notified' \in {notified, [notified EXCEPT ![d] = @ \cup {n}]}
             /\ End(r)
  /\ UNCHANGED <<records, ifood>>

(* requestCancellation at iFood: accepted or not, and the answer may be lost. *)
Terminal(d) == ifood[d] \cap {"concluded", "cancelled"} # {}

IfoodAcceptsCancel(d) ==
  /\ ~Terminal(d)
  /\ ifood' = [ifood EXCEPT ![d] = @ \cup {"cancelAccepted"}]

(* An update to CANCELED goes on whatever iFood answers.                   *)
SyncCancel(r) ==
  LET t == task[r] IN
  /\ pc[r] = "sync"
  /\ NeedsSync(t)
  /\ NextStatus(t) = "CANCELED"
  /\ IfoodAcceptsCancel(t.delivery) \/ UNCHANGED ifood
  /\ Proceed(r, t)
  /\ UNCHANGED <<records, notified>>

SyncFinish(r) ==
  LET t == task[r]
      arrived == "arrivedAtDestination" \in t.copy.flags
                   \/ t.copy.status \in AtDestination
  IN
  /\ pc[r] = "sync"
  /\ NeedsSync(t)
  /\ NextStatus(t) = "FINISHED"
  /\ IF arrived THEN Goto(r, "check") ELSE End(r)
  /\ UNCHANGED <<records, outside>>

(* isIfoodOrderCanceled: an error of the query counts as "not canceled".   *)
CheckCanceled(r) ==
  /\ pc[r] = "check"
  /\ \/ "cancelled" \in ifood[task[r].delivery] /\ End(r)
     \/ Goto(r, "confirm")
  /\ UNCHANGED <<records, outside>>

(* Without a request for the code, only a concluded order passes.  With    *)
(* one, the code is verified: iFood takes it, refuses it or fails.  After  *)
(* a failure a concluded order passes.                                     *)
CodeAsked(d) == "dropCodeRequested" \in ifood[d]

(* isOrderInTerminalState: a refusal with such words is a success, and     *)
(* iFood may choose them for an order that it has not closed.              *)
RefusesAsEnded(d) == ifood' = [ifood EXCEPT ![d] = @ \cup {"refusedAsEnded"}]

(* Mutant: a failed verification finishes the delivery all the same.       *)
VerifyCodeLenient(r, t) ==
  /\ t.dto.code
  /\ \/ ifood' = [ifood EXCEPT ![t.delivery] = @ \cup {"codeVerified"}]
     \/ UNCHANGED ifood
  /\ Proceed(r, t)

VerifyCode(r, t) ==
  LET d == t.delivery IN
  /\ t.dto.code
  /\ \/ /\ ~Terminal(d)
        /\ ifood' = [ifood EXCEPT ![d] = @ \cup {"codeVerified"}]
        /\ Proceed(r, t) \/ End(r)
     \/ RefusesAsEnded(d) /\ Proceed(r, t)
     \/ "concluded" \in ifood[d] /\ Proceed(r, t) /\ UNCHANGED ifood
     \/ End(r) /\ UNCHANGED ifood

ConfirmFinish(r) ==
  LET t == task[r]  d == t.delivery IN
  /\ pc[r] = "confirm"
  /\ \/ ~CodeAsked(d) /\ "concluded" \in ifood[d] /\ Proceed(r, t) /\ UNCHANGED ifood
     \/ ~CodeAsked(d) /\ End(r) /\ UNCHANGED ifood
     \/ CodeAsked(d) /\ VerifyCode(r, t)
     \/ CodeAsked(d) /\ ~t.dto.code /\ End(r) /\ UNCHANGED ifood
  /\ UNCHANGED <<records, notified>>

-----------------------------------------------------------------------------
(* The end of updateDelivery                                               *)

(* persistDeliveryUpdate: read the document again, for the fields the copy *)
(* lacks, then $set the copy with its changes.                             *)
MergeCurrent(r) ==
  LET t == task[r]
      base == IF t.copy.bare THEN delivery[t.delivery].flags ELSE t.copy.flags
  IN
  /\ pc[r] = "merge"
  /\ Continue(r, [t EXCEPT !.gained = base \cup @], "write")
  /\ UNCHANGED <<records, outside>>

WriteUpdate(r) ==
  LET t == task[r]  doc == Changed(t) IN
  /\ pc[r] = "write"
  /\ Save(t.delivery, Persistable(doc, doc.status, doc.motoboy, t.gained))
  /\ IF t.dto.status = "CANCELED" /\ t.copy.status # "CANCELED"
     THEN Goto(r, "refund") ELSE End(r)
  /\ UNCHANGED <<accepted, refunded, outside>>

SaveFlags(r) ==
  LET t == task[r]  d == t.delivery IN
  /\ pc[r] = "saveFlags"
  /\ delivery' = [delivery EXCEPT ![d].flags = @ \cup t.gained]
  /\ End(r)
  /\ UNCHANGED <<accepted, refunded, outside>>

AskRefund(r) ==
  /\ pc[r] = "refund"
  /\ refunded' = refunded \cup {task[r].delivery}
  /\ End(r)
  /\ UNCHANGED <<delivery, accepted, outside>>

-----------------------------------------------------------------------------
(* deleteDelivery, cleanupStaleIfoodDeliveries, cancelDeliveryFromIfood    *)

DeleteRead(r, u, d) ==
  LET doc == delivery[d] IN
  /\ IsManager(u)
  /\ doc.active
  /\ IsStore(u) => doc.store = u
  /\ MayMove(u, doc)
  /\ Begin(r, "DELETE", u, d, NoBody, IF d \in Linked THEN "askCancel" ELSE "remove")
  /\ UNCHANGED <<records, outside>>

(* Mutant: the answer of iFood is not looked at.                           *)
AskCancelBlindly(r) ==
  /\ pc[r] = "askCancel"
  /\ IfoodAcceptsCancel(task[r].delivery) \/ UNCHANGED ifood
  /\ Goto(r, "remove")
  /\ UNCHANGED <<records, notified>>

(* Deletion goes on only when iFood accepts the cancellation.              *)
AskCancel(r) ==
  /\ pc[r] = "askCancel"
  /\ \/ IfoodAcceptsCancel(task[r].delivery) /\ (Goto(r, "remove") \/ End(r))
     \/ UNCHANGED ifood /\ End(r)
  /\ UNCHANGED <<records, notified>>

(* One delivery of the clean-up's loop: each is served on its own copy.    *)
CleanupRead(r, u, d) ==
  LET doc == delivery[d] IN
  /\ IsManager(u)
  /\ d \in Linked
  /\ TypeOf[u] = "admin" \/ LinkStore[d] = u
  /\ doc.active /\ doc.status \in {"PENDING", "ONCOURSE"}
  /\ Begin(r, "CLEANUP", u, d, NoBody, "query")
  /\ UNCHANGED <<records, outside>>

QueryOrder(r) ==
  /\ pc[r] = "query"
  /\ \/ Terminal(task[r].delivery) /\ Goto(r, "remove")
     \/ End(r)
  /\ UNCHANGED <<records, outside>>

CancelEventRead(r, d) ==
  /\ d \in Linked /\ "cancelled" \in ifood[d]
  /\ delivery[d].active
  /\ Begin(r, "CANCEL_EVENT", None, d, NoBody, "remove")
  /\ UNCHANGED <<records, outside>>

(* Mutant: only the cancellation by iFood gives the credit back.           *)
RemoveWithoutRefund(r) ==
  LET t == task[r] IN
  /\ pc[r] = "remove"
  /\ Save(t.delivery, Closed(t.copy, "CANCELED", FALSE))
  /\ IF t.op # "CANCEL_EVENT" THEN End(r) ELSE Goto(r, "refund")
  /\ UNCHANGED <<accepted, refunded, outside>>

Remove(r) ==
  LET t == task[r] IN
  /\ pc[r] = "remove"
  /\ Save(t.delivery, Closed(t.copy, "CANCELED", FALSE))
  /\ IF t.op = "CLEANUP" THEN End(r) ELSE Goto(r, "refund")
  /\ UNCHANGED <<accepted, refunded, outside>>

-----------------------------------------------------------------------------
(* finishDeliveryFromIfood, updateExternalIfoodStatus,                     *)
(* handleIfoodCancellationRequestFailed, releaseDelivery                   *)

ConcludeEventRead(r, d) ==
  /\ d \in Linked /\ "concluded" \in ifood[d]
  /\ delivery[d].active /\ delivery[d].status # "FINISHED"
  /\ Begin(r, "CONCLUDE_EVENT", None, d, NoBody, "finish")
  /\ UNCHANGED <<records, outside>>

Finish(r) ==
  LET t == task[r] IN
  /\ pc[r] = "finish"
  /\ Save(t.delivery, Closed(t.copy, "FINISHED", t.copy.active))
  /\ End(r)
  /\ UNCHANGED <<accepted, refunded, outside>>

(* Any other event of a linked order, or the refusal of a cancellation:    *)
(* texts and codes are stamped on the copy and the whole copy is saved.    *)
StatusEventRead(r, d) ==
  /\ d \in Linked /\ delivery[d].active
  /\ Begin(r, "STATUS_EVENT", None, d, NoBody, "stamp")
  /\ UNCHANGED <<records, outside>>

CancelFailedRead(r, d) ==
  /\ d \in Linked /\ delivery[d].active /\ "cancelAccepted" \in ifood[d]
  /\ Begin(r, "CANCEL_FAILED_EVENT", None, d, NoBody, "stamp")
  /\ UNCHANGED <<records, outside>>

Stamp(r) ==
  LET t == task[r] IN
  /\ pc[r] = "stamp"
  /\ Save(t.delivery,
          Persistable(t.copy, t.copy.status, t.copy.motoboy, t.copy.flags))
  /\ End(r)
  /\ UNCHANGED <<accepted, refunded, outside>>

ReleaseRead(r, u, d, m) ==
  LET doc == delivery[d]
      final == IF m # None THEN m ELSE doc.motoboy
  IN
  /\ IsManager(u)
  /\ doc.status = "AWAITING_RELEASE"
  /\ MayAccess(u, CityOf[doc.store])
  /\ final # None => IsMotoboy(final) /\ MayAccess(u, CityOf[final])
  /\ Begin(r, "RELEASE", u, d, [NoBody EXCEPT !.motoboy = final], "release")
  /\ UNCHANGED <<records, outside>>

Release(r) ==
  LET t == task[r]
      m == t.dto.motoboy
      status == IF m = None THEN "PENDING" ELSE "ONCOURSE"
  IN
  /\ pc[r] = "release"
  /\ Save(t.delivery, Persistable(t.copy, status, m, t.copy.flags))
  /\ IF t.delivery \in Linked /\ m # None THEN Goto(r, "sync") ELSE End(r)
  /\ UNCHANGED <<accepted, refunded, outside>>

-----------------------------------------------------------------------------
(* iFood, the couriers of its own, its customers                           *)

IfoodAsksForCode(d) ==
  /\ "DROP_CODE_EVENT" \in Ops
  /\ d \in Linked /\ ~Terminal(d) /\ ~CodeAsked(d)
  /\ ifood' = [ifood EXCEPT ![d] = @ \cup {"dropCodeRequested"}]
  /\ UNCHANGED <<records, notified, task, pc>>

IfoodCloses(d, how) ==
  /\ d \in Linked /\ ~Terminal(d)
  /\ ifood' = [ifood EXCEPT ![d] = @ \cup {how}]
  /\ UNCHANGED <<records, notified, task, pc>>

(* A database error or a restart ends a handler between two round trips.   *)
Interrupt(r) ==
  /\ "CRASH" \in Ops
  /\ pc[r] \in InFlight
  /\ End(r)
  /\ UNCHANGED <<records, outside>>

Quiet ==
  /\ \A r \in Request : pc[r] \notin InFlight
  /\ UNCHANGED vars

Receive(r) ==
  \E d \in Delivery :
    \/ \E u \in User : \E dto \in Dto[u] : UpdateRead(r, u, d, dto)
    \/ \E u \in User : DeleteRead(r, u, d)
    \/ \E u \in User : CleanupRead(r, u, d)
    \/ \E u \in User, m \in User \cup {None} : ReleaseRead(r, u, d, m)
    \/ CancelEventRead(r, d)
    \/ ConcludeEventRead(r, d)
    \/ StatusEventRead(r, d)
    \/ CancelFailedRead(r, d)

Advance(r) ==
  \/ CountQuota(r)
  \/ DecideDestination(r)
  \/ Claim(r)
  \/ SyncNothing(r)
  \/ SyncProgress(r)
  \/ Notify(r)
  \/ SyncCancel(r)
  \/ SyncFinish(r)
  \/ CheckCanceled(r)
  \/ ConfirmFinish(r)
  \/ MergeCurrent(r)
  \/ WriteUpdate(r)
  \/ SaveFlags(r)
  \/ AskRefund(r)
  \/ AskCancel(r)
  \/ QueryOrder(r)
  \/ Remove(r)
  \/ Finish(r)
  \/ Stamp(r)
  \/ Release(r)

Next ==
  \/ Quiet
  \/ \E d \in Delivery :
       \/ IfoodAsksForCode(d)
       \/ \E how \in Closing : IfoodCloses(d, how)
  \/ \E r \in Request : Receive(r) \/ Advance(r) \/ Interrupt(r)

Spec == Init /\ [][Next]_vars

(* Node runs a handler on as soon as the awaited round trip is answered.   *)
FairSpec == Spec /\ \A r \in Request : WF_vars(Advance(r))

-----------------------------------------------------------------------------
(* Properties                                                              *)

(* Whatever fails, dies or runs in between, a flag such as                 *)
(* ifoodAssignDriverSynced is set only once iFood accepted the             *)
(* notification, so that no later status skips one iFood never got.        *)
FlagsAreNotified == \A d \in Delivery : delivery[d].flags \subseteq notified[d]

(* iFood never hears that a driver is on the way to the store before it    *)
(* has heard who drives: requests of the two may fail and be repeated by   *)
(* different handlers (ensureIfoodOnCourseSynced).                         *)
OriginAfterAssign ==
  \A d \in Delivery :
    "goingToOrigin" \in notified[d] => "assignDriver" \in notified[d]

(* An iFood delivery is FINISHED only upon an answer of iFood: it verified *)
(* the code, closed the order, or refused the code in words that           *)
(* isOrderInTerminalState takes for a closed order.  Never on an answer    *)
(* that was lost or another refusal, by whatever path the status came in:  *)
(* an update, an event, or the save of an older copy.                      *)
FinishedIsAnswered ==
  \A d \in Linked :
    delivery[d].status = "FINISHED" =>
      ifood[d] \cap {"codeVerified", "refusedAsEnded", "concluded", "cancelled"} # {}

(* An iFood delivery leaves the board (isActive false) only when iFood     *)
(* accepted its cancellation or closed the order: a deletion that iFood    *)
(* refuses must not diverge from it.                                       *)
RemovalJustified ==
  \A d \in Linked :
    ~delivery[d].active =>
      ifood[d] \cap {"cancelAccepted", "concluded", "cancelled"} # {}

(* Two couriers never both win the same delivery, however their claims     *)
(* interleave with each other, with deletions and with final events.       *)
OneWinner == \A d \in Delivery : Cardinality(accepted[d]) <= 1

(* A courier who only claims never holds more deliveries than the quota,   *)
(* as the refusal of updateDelivery says.  It holds of couriers who wait   *)
(* for the answer to one claim before making the next (Patient): the count *)
(* and the claim are two round trips.                                      *)
QuotaHeld ==
  \A m \in User : IsMotoboy(m) => Cardinality(Held(m)) <= Quota

(* A delivery that is canceled by an update, a deletion or iFood gets its  *)
(* credit asked back, unless the process dies first.                       *)
CanceledIsRefunded ==
  \A d \in Delivery : delivery[d].status = "CANCELED" ~> d \in refunded
=============================================================================
