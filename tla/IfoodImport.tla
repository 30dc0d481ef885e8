----------------------------- MODULE IfoodImport -----------------------------
(***************************************************************************)
(* The import of iFood orders: importFromEvents and its two retries        *)
(* (ifood/ifood-import.service.ts), the readiness check, createDelivery    *)
(* as the import calls it, and the link of order and delivery.             *)
(*                                                                         *)
(* Several imports run at once: that of a webhook, that of a polling       *)
(* cycle, those started by added credits. importingOrderIds keeps two of   *)
(* one process from working on one order; the unique indexes of deliveries *)
(* and links may be missing, for their creation is only tried at start-up. *)
(*                                                                         *)
(* An importer goes through the orders of its batch one by one. pc[i] is   *)
(* the round trip it makes next for the order task[i].order.               *)
(***************************************************************************)
EXTENDS Integers, FiniteSets, Sequences

CONSTANTS
  Order,           \* iFood orders
  Company,         \* stores with the integration
  Event,           \* iFood events
  DeliveryId,      \* the uuids that createDelivery may draw
  Importer,        \* imports that may run at once
  Poller,          \* the one that polling cycles run
  NoOrder,
  NoDelivery,
  OrderOf,         \* the order of each event
  KindOf,          \* what each event says
  ShopOf,          \* resolveTargetShopkeeperId: a company, or else no store
  Deliverable,     \* orders of type DELIVERY that the merchant delivers
  InitialCredits,  \* the credits of each company
  PollWindow,      \* rows a polling cycle looks back at (150 in the code)
  CompanyWindow,   \* rows the retry of one company looks back at (500)
  DeliveryIndex,   \* whether the unique index of deliveries could be created
  LinkIndex,       \* whether that of links could
  MaxTopUps        \* bound on the credits added

Kind == {"import", "cancel", "conclude", "other"}

ASSUME ImportAssumption ==
  /\ OrderOf \in [Event -> Order]
  /\ KindOf \in [Event -> Kind]
  /\ DOMAIN ShopOf = Order
  /\ InitialCredits \in [Company -> Nat]
  /\ DeliveryIndex \in BOOLEAN /\ LinkIndex \in BOOLEAN
  /\ NoOrder \notin Order /\ NoDelivery \notin DeliveryId
  /\ Poller \in Importer
  /\ MaxTopUps \in Nat /\ PollWindow \in Nat /\ CompanyWindow \in Nat

(* A delivery without an order is one not created yet.                     *)
Delivery == [order : Order \cup {NoOrder}, active : BOOLEAN]
NotCreated == [order |-> NoOrder, active |-> FALSE]

Link == [order : Order, delivery : DeliveryId]

Task == [events : SUBSET Event, todo : SUBSET Order,
         order : Order \cup {NoOrder}, delivery : DeliveryId \cup {NoDelivery}]
NoTask == [events |-> {}, todo |-> {}, order |-> NoOrder, delivery |-> NoDelivery]

Working == {"findLink", "locate", "analyze", "readEvents", "findRealLink",
            "build", "consume", "save", "link"}

VARIABLES
  rows,        \* ifood_event, in the order of processedAt
  ifood,       \* whether each order is still open at iFood
  deliveries,  \* the delivery documents
  links,       \* ifood_order_link
  credits,     \* ifoodOrdersAvailable of each company
  charges,     \* CONSUME operations made for each order
  topUps,      \* credits added so far
  blocked,     \* blockDeliverys of the process
  importing,   \* importingOrderIds of the process
  task,        \* the locals of each importer
  pc           \* where each importer stands

vars == <<rows, ifood, deliveries, links, credits, charges, topUps, blocked, importing, task, pc>>

TypeOK ==
  /\ rows \in Seq(Event)
  /\ ifood \in [Order -> {"open", "closed"}]
  /\ deliveries \in [DeliveryId -> Delivery]
  /\ links \subseteq Link
  /\ credits \in [Company -> Nat]
  /\ charges \in [Order -> Nat]
  /\ topUps \in Nat
  /\ blocked \in BOOLEAN
  /\ importing \subseteq Order
  /\ task \in [Importer -> Task]
  /\ pc \in [Importer -> {"idle", "next"} \cup Working]

Init ==
  /\ rows = <<>>
  /\ ifood = [o \in Order |-> "open"]
  /\ deliveries = [d \in DeliveryId |-> NotCreated]
  /\ links = {}
  /\ credits = InitialCredits
  /\ charges = [o \in Order |-> 0]
  /\ topUps = 0
  /\ blocked = FALSE
  /\ importing = {}
  /\ task = [i \in Importer |-> NoTask]
  /\ pc = [i \in Importer |-> "idle"]

-----------------------------------------------------------------------------
(* Helpers                                                                 *)

Created(d) == deliveries[d].order # NoOrder
CreatedFor(o) == {d \in DeliveryId : deliveries[d].order = o}
LinksOf(o) == {l \in links : l.order = o}
Linked(o) == LinksOf(o) # {}
HasShop(o) == ShopOf[o] \in Company

Closing(e) == KindOf[e] \in {"cancel", "conclude"}
Stored == {rows[k] : k \in DOMAIN rows}

(* findRecentEligibleImportEvents: the last n rows of eligible events.     *)
Recent(n) ==
  LET eligible == {k \in DOMAIN rows : KindOf[rows[k]] = "import"} IN
  {rows[k] : k \in {k \in eligible : Cardinality({j \in eligible : j > k}) < n}}

(* getOrderReadiness, its events: no end of the order and a reason to go.  *)
Ready(known) ==
  /\ \A e \in known : ~Closing(e)
  /\ \E e \in known : KindOf[e] = "import"

EventsOf(o, known) == {e \in known : OrderOf[e] = o}

Goto(i, to) == pc' = [pc EXCEPT ![i] = to]

(* The finally of the loop over orders.                                    *)
LeaveClaimed(i) ==   \* mutant: the order stays in importingOrderIds
  /\ pc' = [pc EXCEPT ![i] = "next"]
  /\ task' = [task EXCEPT ![i].order = NoOrder, ![i].delivery = NoDelivery]
  /\ UNCHANGED importing

Leave(i) ==
  /\ pc' = [pc EXCEPT ![i] = "next"]
  /\ task' = [task EXCEPT ![i].order = NoOrder, ![i].delivery = NoDelivery]
  /\ importing' = importing \ {task[i].order}

(* A step of an import that goes on to its next round trip.                 *)
Proceed(i, to) ==
  /\ Goto(i, to)
  /\ UNCHANGED <<task, importing>>

-----------------------------------------------------------------------------
(* Who starts an import                                                    *)

(* importFromEvents of a batch: its orders are those of eligible events.   *)
StartImport(i, batch) ==
  /\ pc[i] = "idle"
  /\ pc' = [pc EXCEPT ![i] = "next"]
  /\ task' = [task EXCEPT ![i] =
       [NoTask EXCEPT !.events = batch,
                      !.todo = {OrderOf[e] : e \in {e \in batch : KindOf[e] = "import"}}]]
  /\ UNCHANGED importing

(* Fresh events arrive, by the webhook, which stores them first, or by     *)
(* polling, which stores them at its end, if it gets there. An order only  *)
(* has a closing event when it is closed.                                  *)
Receive(i, e, storedFirst) ==
  /\ i # Poller
  /\ e \notin Stored
  /\ Closing(e) => ifood[OrderOf[e]] = "closed"
  /\ StartImport(i, {e})
  /\ rows' = IF storedFirst THEN Append(rows, e) ELSE rows
  /\ UNCHANGED <<ifood, deliveries, links, credits, charges, topUps, blocked>>

(* retryPendingImportsForActiveMerchants, at the end of each polling cycle. *)
RetryAll ==
  /\ StartImport(Poller, Recent(PollWindow))
  /\ UNCHANGED <<rows, ifood, deliveries, links, credits, charges, topUps, blocked>>

(* addCredits, then retryPendingImportsForCompany in the background.       *)
CompanyEvents(c) == {e \in Recent(CompanyWindow) : ShopOf[OrderOf[e]] = c}

AddCredits(i, c) ==
  /\ i # Poller
  /\ topUps < MaxTopUps
  /\ topUps' = topUps + 1
  /\ credits' = [credits EXCEPT ![c] = @ + 1]
  /\ StartImport(i, CompanyEvents(c))
  /\ UNCHANGED <<rows, ifood, deliveries, links, charges, blocked>>

-----------------------------------------------------------------------------
(* One order                                                               *)

Untouched == UNCHANGED <<rows, ifood, deliveries, links, credits, charges, topUps, blocked>>

(* The head of the loop: an order that somebody imports is skipped.        *)
NextOrderUnguarded(i) ==   \* mutant: importingOrderIds is not consulted
  /\ pc[i] = "next"
  /\ \/ /\ task[i].todo = {}
        /\ pc' = [pc EXCEPT ![i] = "idle"]
        /\ task' = [task EXCEPT ![i] = NoTask]
        /\ UNCHANGED importing
     \/ \E o \in task[i].todo :
          /\ importing' = importing \cup {o}
          /\ task' = [task EXCEPT ![i].todo = @ \ {o}, ![i].order = o]
          /\ pc' = [pc EXCEPT ![i] = "findLink"]
  /\ Untouched

NextOrder(i) ==
  /\ pc[i] = "next"
  /\ \/ /\ task[i].todo = {}
        /\ pc' = [pc EXCEPT ![i] = "idle"]
        /\ task' = [task EXCEPT ![i] = NoTask]
        /\ UNCHANGED importing
     \/ \E o \in task[i].todo \cap importing :
          /\ task' = [task EXCEPT ![i].todo = @ \ {o}]
          /\ UNCHANGED <<pc, importing>>
     \/ \E o \in task[i].todo \ importing :
          /\ importing' = importing \cup {o}
          /\ task' = [task EXCEPT ![i].todo = @ \ {o}, ![i].order = o]
          /\ pc' = [pc EXCEPT ![i] = "findLink"]
  /\ Untouched

(* findByIfoodOrderId: an order with a link only gets a better locator.    *)
FindLink(i) ==
  LET o == task[i].order IN
  /\ pc[i] = "findLink"
  /\ \/ ~Linked(o) /\ Proceed(i, "analyze")
     \/ Linked(o) /\ Proceed(i, "locate")
  /\ Untouched

(* getOrderDetails, resolveOrderLocator, updateIfoodOrderLocatorIfBetter:  *)
(* the locator and the time of change of the delivery are data left out.   *)
UpdateLocator(i) ==
  /\ pc[i] = "locate"
  /\ Leave(i)
  /\ Untouched

(* analyzeOrder: the order as iFood describes it.                          *)
AnalyzeOrder(i) ==
  LET o == task[i].order
      able == o \in Deliverable /\ ifood[o] = "open" IN
  /\ pc[i] = "analyze"
  /\ \/ able /\ Proceed(i, "readEvents")
     \/ ~able /\ Leave(i)
  /\ Untouched

(* The events of the readiness check: those of the batch and the stored.   *)
ReadEvents(i) ==
  LET known == EventsOf(task[i].order, task[i].events \cup Stored) IN
  /\ pc[i] = "readEvents"
  /\ \/ Ready(known) /\ Proceed(i, "findRealLink")
     \/ ~Ready(known) /\ Leave(i)
  /\ Untouched

(* getOrderDetails, then the link under the merchant found there.          *)
FindRealLink(i) ==
  LET o == task[i].order IN
  /\ pc[i] = "findRealLink"
  /\ \/ Linked(o) /\ Proceed(i, "locate")
     \/ ~Linked(o) /\ Proceed(i, "build")
  /\ Untouched

(* resolveTargetShopkeeperId, buildCreateDeliveryDto, the checks of        *)
(* createDelivery before its first write: a store, and deliveries open.    *)
MayCreate(o) == HasShop(o) /\ ~blocked

BuildDelivery(i) ==
  /\ pc[i] = "build"
  /\ \/ MayCreate(task[i].order) /\ Proceed(i, "consume")
     \/ ~MayCreate(task[i].order) /\ Leave(i)
  /\ Untouched

(* consumeCreditForOrder: one conditional update.                          *)
ConsumeUnfiltered(i) ==   \* mutant: no $gte filter
  LET o == task[i].order IN
  /\ pc[i] = "consume"
  /\ Proceed(i, "save")
  /\ credits' = [credits EXCEPT ![ShopOf[o]] = @ - 1]
  /\ charges' = [charges EXCEPT ![o] = @ + 1]
  /\ UNCHANGED <<rows, ifood, deliveries, links, topUps, blocked>>

ConsumeFree(i) ==   \* mutant: the counter does not move
  LET o == task[i].order IN
  /\ pc[i] = "consume"
  /\ \/ /\ credits[ShopOf[o]] >= 1
        /\ Proceed(i, "save")
        /\ charges' = [charges EXCEPT ![o] = @ + 1]
        /\ UNCHANGED credits
     \/ /\ credits[ShopOf[o]] < 1
        /\ Leave(i)
        /\ UNCHANGED <<credits, charges>>
  /\ UNCHANGED <<rows, ifood, deliveries, links, topUps, blocked>>

Consume(i) ==
  LET o == task[i].order
      c == ShopOf[o] IN
  /\ pc[i] = "consume"
  /\ \/ /\ credits[c] >= 1
        /\ Proceed(i, "save")
        /\ credits' = [credits EXCEPT ![c] = @ - 1]
        /\ charges' = [charges EXCEPT ![o] = @ + 1]
     \/ /\ credits[c] < 1
        /\ Leave(i)
        /\ UNCHANGED <<credits, charges>>
  /\ UNCHANGED <<rows, ifood, deliveries, links, topUps, blocked>>

(* deliveryRepository.save: a duplicate key is an error, and the credit    *)
(* stays consumed.                                                         *)
Duplicate(o) == DeliveryIndex /\ CreatedFor(o) # {}

SaveDelivery(i) ==
  /\ pc[i] = "save"
  /\ \/ /\ Duplicate(task[i].order)
        /\ Leave(i)
        /\ UNCHANGED deliveries
     \/ /\ ~Duplicate(task[i].order)
        /\ Goto(i, "link")
        /\ \E d \in DeliveryId :
             /\ ~Created(d)
             /\ deliveries' = [deliveries EXCEPT ![d] =
                  [order |-> task[i].order, active |-> TRUE]]
             /\ task' = [task EXCEPT ![i].delivery = d]
        /\ UNCHANGED importing
  /\ UNCHANGED <<rows, ifood, links, credits, charges, topUps, blocked>>

(* createLink.                                                             *)
CreateLink(i) ==
  LET o == task[i].order
      refused == LinkIndex /\ Linked(o) IN
  /\ pc[i] = "link"
  /\ Leave(i)
  /\ links' = IF refused THEN links
              ELSE links \cup {[order |-> o, delivery |-> task[i].delivery]}
  /\ UNCHANGED <<rows, ifood, deliveries, credits, charges, topUps, blocked>>

(* The order is concluded or cancelled at iFood.                           *)
IfoodCloses(o) ==
  /\ ifood[o] = "open"
  /\ ifood' = [ifood EXCEPT ![o] = "closed"]
  /\ UNCHANGED <<rows, deliveries, links, credits, charges, topUps, blocked, importing, task, pc>>

(* A store deletes the delivery, or an event cancels it: it stays in the   *)
(* database, inactive, with its link.                                      *)
DeleteDelivery(d) ==
  /\ deliveries[d].active
  /\ deliveries' = [deliveries EXCEPT ![d].active = FALSE]
  /\ UNCHANGED <<rows, ifood, links, credits, charges, topUps, blocked, importing, task, pc>>

(* changeConfigs, its switch: no deliveries for today, or again.           *)
ChangeConfigs ==
  /\ blocked' = ~blocked
  /\ UNCHANGED <<rows, ifood, deliveries, links, credits, charges, topUps, importing, task, pc>>

-----------------------------------------------------------------------------
ImportStep(i) ==
  \/ NextOrder(i)
  \/ FindLink(i)
  \/ UpdateLocator(i)
  \/ AnalyzeOrder(i)
  \/ ReadEvents(i)
  \/ FindRealLink(i)
  \/ BuildDelivery(i)
  \/ Consume(i)
  \/ SaveDelivery(i)
  \/ CreateLink(i)

Next ==
  \/ RetryAll
  \/ \E i \in Importer :
       \/ \E e \in Event, storedFirst \in BOOLEAN : Receive(i, e, storedFirst)
       \/ \E c \in Company : AddCredits(i, c)
       \/ ImportStep(i)
  \/ \E o \in Order : IfoodCloses(o)
  \/ \E d \in DeliveryId : DeleteDelivery(d)
  \/ ChangeConfigs

Spec == Init /\ [][Next]_vars

(* An import goes on until its batch is done, and a timer starts the next  *)
(* polling cycle, which ends with a retry.                                 *)
FairSpec ==
  /\ Spec
  /\ WF_vars(RetryAll)
  /\ \A i \in Importer : WF_vars(ImportStep(i))

-----------------------------------------------------------------------------
(* Failures: Spec leaves them out, IfoodEvents adds them.                  *)

(* A round trip that throws: the error is logged and the loop goes on. One *)
(* whose write was made but whose answer was lost fails at the next step.  *)
Fail(i) ==
  /\ pc[i] \in Working
  /\ Leave(i)
  /\ Untouched

(* A restart of the process: importingOrderIds and the switch were in      *)
(* memory.                                                                 *)
Crash ==
  /\ \E i \in Importer : pc[i] # "idle"
  /\ pc' = [i \in Importer |-> "idle"]
  /\ task' = [i \in Importer |-> NoTask]
  /\ importing' = {}
  /\ blocked' = FALSE
  /\ UNCHANGED <<rows, ifood, deliveries, links, credits, charges, topUps>>

-----------------------------------------------------------------------------
(* Properties                                                              *)

(* However webhook, polling and retries overlap, one order becomes one     *)
(* delivery, a deleted one included: the links found by findByIfoodOrderId *)
(* and importingOrderIds are enough, without the unique index.             *)
OneDelivery ==
  \A d, e \in DeliveryId :
    (Created(d) /\ deliveries[d].order = deliveries[e].order) => d = e

(* An order has one link, even after failures and restarts in the middle   *)
(* of an import and without the unique index of links: cancelDeliveryFromIfood *)
(* and its siblings look up one link per order.                            *)
OneLink ==
  \A l, m \in links : l.order = m.order => l = m

(* The store of an order that came in with an eligible event gets it as a  *)
(* delivery, unless the order ends at iFood or the credits run out first.  *)
(* An import skipped because another one was under way, or refused for     *)
(* lack of credits or while deliveries were closed, is made up for by the  *)
(* retries once deliveries stay open.                                      *)
EligibleIsLinked ==
  <>[]~blocked =>
    \A o \in Deliverable :
      (HasShop(o) /\ \E e \in Stored : OrderOf[e] = o /\ KindOf[e] = "import")
        ~> (Linked(o) \/ ifood[o] = "closed" \/ credits[ShopOf[o]] = 0)

(* How far an order has come, as ImportLedger tells it.                    *)
StageOf(o) ==
  CASE Linked(o) -> "linked"
    [] ~Linked(o) /\ CreatedFor(o) # {} -> "made"
    [] ~Linked(o) /\ CreatedFor(o) = {} /\ charges[o] > 0 -> "paid"
    [] OTHER -> "none"

Ledger == INSTANCE ImportLedger WITH stage <- [o \in Order |-> StageOf(o)]

(* As long as nothing fails, the imports do what ImportLedger promises:    *)
(* each order is paid once, made once and linked once, whoever imports it. *)
ImplementsLedger == Ledger!Spec
=============================================================================
