-------------------------- MODULE IfoodImportProofs --------------------------
(***************************************************************************)
(* Proofs about IfoodImport, for any orders, stores, events, importers and *)
(* with or without the unique indexes of the database.                     *)
(***************************************************************************)
EXTENDS IfoodImport, TLAPS

-----------------------------------------------------------------------------
(* The inductive invariant                                                 *)

(* Whoever works on an order holds it in importingOrderIds, alone.         *)
Claims ==
  \A i \in Importer :
    pc[i] \in Working => task[i].order \in Order /\ task[i].order \in importing

Exclusive ==
  \A i, j \in Importer :
    (pc[i] \in Working /\ pc[j] \in Working /\ task[i].order = task[j].order) => i = j

(* What an importer has seen of its order still holds when it acts.        *)
Fresh == {"analyze", "readEvents", "findRealLink", "build", "consume", "save", "link"}

Standing(i) ==
  LET o == task[i].order IN
  /\ pc[i] \in Fresh => ~Linked(o)
  /\ pc[i] \in {"consume", "save"} => HasShop(o)
  /\ pc[i] = "save" => charges[o] = 1 /\ CreatedFor(o) = {}
  /\ pc[i] = "link" => /\ charges[o] = 1
                       /\ task[i].delivery \in DeliveryId
                       /\ CreatedFor(o) = {task[i].delivery}

(* An order is paid once; the credit is on its way to a link, or at it.    *)
Paid(o) ==
  /\ charges[o] <= 1
  /\ charges[o] = 1 =>
       \/ Linked(o)
       \/ \E i \in Importer : pc[i] \in {"save", "link"} /\ task[i].order = o
  /\ charges[o] = 0 => CreatedFor(o) = {} /\ ~Linked(o)

OneOfEach(o) ==
  /\ \A d, e \in CreatedFor(o) : d = e
  /\ \A l, m \in LinksOf(o) : l = m

ImportInv ==
  /\ Claims
  /\ Exclusive
  /\ \A i \in Importer : Standing(i)
  /\ \A o \in Order : Paid(o) /\ OneOfEach(o)

IInv == TypeOK /\ ImportInv

-----------------------------------------------------------------------------
(* Types                                                                   *)

LEMMA StoredAreEvents ==
  ASSUME TypeOK
  PROVE  Stored \subseteq Event /\ \A n \in Nat : Recent(n) \subseteq Event
<1>1. \A k \in DOMAIN rows : rows[k] \in Event
  BY DEF TypeOK
<1>2. Stored \subseteq Event
  BY <1>1 DEF Stored
<1>3. ASSUME NEW n \in Nat
      PROVE  Recent(n) \subseteq Event
  BY <1>1 DEF Recent
<1>. QED
  BY <1>2, <1>3

LEMMA StartIsTyped ==
  ASSUME TypeOK, NEW i \in Importer, NEW batch \in SUBSET Event,
         StartImport(i, batch)
  PROVE  /\ task' \in [Importer -> Task]
         /\ pc' \in [Importer -> {"idle", "next"} \cup Working]
         /\ importing' \subseteq Order
<1>1. {OrderOf[e] : e \in {e \in batch : KindOf[e] = "import"}} \subseteq Order
  BY ImportAssumption
<1>2. [NoTask EXCEPT !.events = batch,
         !.todo = {OrderOf[e] : e \in {e \in batch : KindOf[e] = "import"}}] \in Task
  BY <1>1 DEF NoTask, Task
<1>. QED
  BY <1>2 DEF StartImport, TypeOK

LEMMA LeaveIsTyped ==
  ASSUME TypeOK, NEW i \in Importer, Leave(i)
  PROVE  /\ task' \in [Importer -> Task]
         /\ pc' \in [Importer -> {"idle", "next"} \cup Working]
         /\ importing' \subseteq Order
<1>1. [task[i] EXCEPT !.order = NoOrder, !.delivery = NoDelivery] \in Task
  BY DEF TypeOK, Task
<1>2. task' = [task EXCEPT ![i] = [task[i] EXCEPT !.order = NoOrder, !.delivery = NoDelivery]]
  BY DEF Leave, TypeOK, Task
<1>. QED
  BY <1>1, <1>2 DEF Leave, TypeOK

LEMMA ProceedIsTyped ==
  ASSUME TypeOK, NEW i \in Importer, NEW to \in Working, Proceed(i, to)
  PROVE  /\ task' \in [Importer -> Task]
         /\ pc' \in [Importer -> {"idle", "next"} \cup Working]
         /\ importing' \subseteq Order
BY DEF Proceed, Goto, TypeOK

LEMMA NextOrderIsTyped ==
  ASSUME TypeOK, NEW i \in Importer, NextOrder(i)
  PROVE  TypeOK'
<1>1. NoTask \in Task
  BY DEF NoTask, Task
<1>2. ASSUME NEW o \in task[i].todo
      PROVE  /\ o \in Order
             /\ [task[i] EXCEPT !.todo = @ \ {o}] \in Task
             /\ [task[i] EXCEPT !.todo = @ \ {o}, !.order = o] \in Task
  BY DEF TypeOK, Task
<1>3. CASE task[i].todo = {} /\ pc' = [pc EXCEPT ![i] = "idle"]
             /\ task' = [task EXCEPT ![i] = NoTask] /\ UNCHANGED importing
  BY <1>1, <1>3 DEF NextOrder, Untouched, TypeOK
<1>4. ASSUME NEW o \in task[i].todo \cap importing,
             task' = [task EXCEPT ![i].todo = @ \ {o}], UNCHANGED <<pc, importing>>
      PROVE  TypeOK'
  <2>1. task' = [task EXCEPT ![i] = [task[i] EXCEPT !.todo = @ \ {o}]]
    BY <1>4 DEF TypeOK, Task
  <2>. QED
    BY <1>2, <1>4, <2>1 DEF NextOrder, Untouched, TypeOK
<1>5. ASSUME NEW o \in task[i].todo \ importing,
             importing' = importing \cup {o},
             task' = [task EXCEPT ![i].todo = @ \ {o}, ![i].order = o],
             pc' = [pc EXCEPT ![i] = "findLink"]
      PROVE  TypeOK'
  <2>1. task' = [task EXCEPT ![i] = [task[i] EXCEPT !.todo = @ \ {o}, !.order = o]]
    BY <1>5 DEF TypeOK, Task
  <2>2. /\ task' \in [Importer -> Task]
        /\ pc' \in [Importer -> {"idle", "next"} \cup Working]
        /\ importing' \subseteq Order
    BY <1>2, <1>5, <2>1 DEF TypeOK, Working
  <2>. QED
    BY <2>2 DEF NextOrder, Untouched, TypeOK
<1>. QED
  BY <1>3, <1>4, <1>5 DEF NextOrder

LEMMA ImportStepIsTyped ==
  ASSUME IInv, NEW i \in Importer, ImportStep(i)
  PROVE  TypeOK'
<1>. USE DEF IInv
<1>1. CASE NextOrder(i)
  BY <1>1, NextOrderIsTyped
<1>2. CASE \/ FindLink(i) \/ UpdateLocator(i) \/ AnalyzeOrder(i) \/ ReadEvents(i)
           \/ FindRealLink(i) \/ BuildDelivery(i)
  <2>1. Untouched /\ (Leave(i) \/ \E to \in Working : Proceed(i, to))
    BY <1>2 DEF FindLink, UpdateLocator, AnalyzeOrder, ReadEvents, FindRealLink, BuildDelivery, Working
  <2>. QED
    BY <2>1, LeaveIsTyped, ProceedIsTyped DEF TypeOK, Untouched
<1>3. CASE Consume(i)
  <2>1. /\ task' \in [Importer -> Task]
        /\ pc' \in [Importer -> {"idle", "next"} \cup Working]
        /\ importing' \subseteq Order
    BY <1>3, LeaveIsTyped, ProceedIsTyped DEF Consume, Working
  <2>2. credits' \in [Company -> Nat]
    BY <1>3 DEF Consume, TypeOK
  <2>3. charges' \in [Order -> Nat]
    BY <1>3 DEF Consume, TypeOK
  <2>. QED
    BY <1>3, <2>1, <2>2, <2>3 DEF Consume, TypeOK
<1>4. CASE SaveDelivery(i)
  <2>1. CASE Leave(i) /\ UNCHANGED deliveries
    BY <1>4, <2>1, LeaveIsTyped DEF SaveDelivery, TypeOK
  <2>2. ASSUME Goto(i, "link"), UNCHANGED importing,
               NEW d \in DeliveryId,
               deliveries' = [deliveries EXCEPT ![d] =
                  [order |-> task[i].order, active |-> TRUE]],
               task' = [task EXCEPT ![i].delivery = d]
        PROVE  TypeOK'
    <3>1. [task[i] EXCEPT !.delivery = d] \in Task
            /\ task' = [task EXCEPT ![i] = [task[i] EXCEPT !.delivery = d]]
      BY <2>2 DEF TypeOK, Task
    <3>2. [order |-> task[i].order, active |-> TRUE] \in Delivery
      BY DEF TypeOK, Task, Delivery
    <3>. QED
      BY <1>4, <2>2, <3>1, <3>2 DEF SaveDelivery, Goto, TypeOK, Working
  <2>. QED
    BY <1>4, <2>1, <2>2 DEF SaveDelivery
<1>5. CASE CreateLink(i)
  <2>1. task[i].delivery \in DeliveryId /\ task[i].order \in Order
    BY <1>5 DEF CreateLink, ImportInv, Claims, Standing, Working
  <2>2. links' \subseteq Link
    BY <1>5, <2>1 DEF CreateLink, TypeOK, Link
  <2>. QED
    BY <1>5, <2>2, LeaveIsTyped DEF CreateLink, TypeOK
<1>. QED
  BY <1>1, <1>2, <1>3, <1>4, <1>5 DEF ImportStep

LEMMA NextIsTyped ==
  ASSUME IInv, Next
  PROVE  TypeOK'
<1>. USE DEF IInv
<1>1. CASE RetryAll
  BY <1>1, StoredAreEvents, StartIsTyped, ImportAssumption DEF RetryAll, TypeOK
<1>2. ASSUME NEW i \in Importer, NEW e \in Event, NEW storedFirst \in BOOLEAN,
             Receive(i, e, storedFirst)
      PROVE  TypeOK'
  BY <1>2, StartIsTyped DEF Receive, TypeOK
<1>3. ASSUME NEW i \in Importer, NEW c \in Company, AddCredits(i, c)
      PROVE  TypeOK'
  <2>1. CompanyEvents(c) \subseteq Event
    BY StoredAreEvents, ImportAssumption DEF CompanyEvents
  <2>. QED
    BY <1>3, <2>1, StartIsTyped DEF AddCredits, TypeOK
<1>4. ASSUME NEW i \in Importer, ImportStep(i)
      PROVE  TypeOK'
  BY <1>4, ImportStepIsTyped
<1>5. ASSUME NEW o \in Order, IfoodCloses(o)
      PROVE  TypeOK'
  BY <1>5 DEF IfoodCloses, TypeOK
<1>6. ASSUME NEW d \in DeliveryId, DeleteDelivery(d)
      PROVE  TypeOK'
  BY <1>6 DEF DeleteDelivery, TypeOK, Delivery
<1>7. CASE ChangeConfigs
  BY <1>7 DEF ChangeConfigs, TypeOK
<1>. QED
  BY <1>1, <1>2, <1>3, <1>4, <1>5, <1>6, <1>7 DEF Next

-----------------------------------------------------------------------------
(* Steps                                                                   *)

(* What an order is to the invariant besides those who work on it.         *)
Same(o) ==
  /\ charges'[o] = charges[o]
  /\ CreatedFor(o)' = CreatedFor(o)
  /\ LinksOf(o)' = LinksOf(o)

OthersStay(i) ==
  \A j \in Importer \ {i} : pc'[j] = pc[j] /\ task'[j] = task[j]

(* A step of an importer that stays at, or leaves, the order it works on.  *)
LEMMA OrderStep ==
  ASSUME IInv, NEW i \in Importer, NEW o \in Order,
         pc[i] \in Working, task[i].order = o, OthersStay(i),
         \A p \in Order \ {o} : Same(p),
         pc'[i] \in Working => task'[i].order = o /\ importing' = importing,
         pc'[i] \notin Working => importing' = importing \ {o},
         Standing(i)', Paid(o)', OneOfEach(o)'
  PROVE  ImportInv'
<1>. USE DEF IInv, ImportInv
<1>1. \A j \in Importer \ {i} : pc[j] \in Working =>
        task[j].order \in Order \ {o} /\ task[j].order \in importing
  BY DEF Claims, Exclusive
<1>2. Claims'
  BY <1>1 DEF Claims, OthersStay
<1>3. Exclusive'
  BY <1>1 DEF Exclusive, OthersStay
<1>4. ASSUME NEW j \in Importer
      PROVE  Standing(j)'
  <2>1. CASE j = i
    BY <2>1
  <2>2. CASE j # i /\ pc[j] \in Working
    BY <1>1, <2>2 DEF Standing, OthersStay, Same, Linked, HasShop
  <2>3. CASE j # i /\ pc[j] \notin Working
    BY <2>3 DEF Standing, OthersStay, Working, Fresh
  <2>. QED
    BY <2>1, <2>2, <2>3
<1>5. ASSUME NEW p \in Order
      PROVE  Paid(p)' /\ OneOfEach(p)'
  <2>1. CASE p = o
    BY <2>1
  <2>2. CASE p # o
    BY <2>2 DEF Paid, OneOfEach, OthersStay, Same, Linked, Working
  <2>. QED
    BY <2>1, <2>2
<1>. QED
  BY <1>2, <1>3, <1>4, <1>5

(* A step that leaves orders and workers alone.                            *)
LEMMA QuietStep ==
  ASSUME IInv, NEW i \in Importer, pc[i] \notin Working, pc'[i] \notin Working,
         OthersStay(i), UNCHANGED importing,
         \A p \in Order : Same(p)
  PROVE  ImportInv'
<1>. USE DEF IInv, ImportInv
<1>1. Claims' /\ Exclusive'
  BY DEF Claims, Exclusive, OthersStay
<1>2. ASSUME NEW j \in Importer
      PROVE  Standing(j)'
  <2>1. CASE pc'[j] \in Working
    BY <2>1 DEF Standing, OthersStay, Same, Linked, HasShop, Claims
  <2>2. CASE pc'[j] \notin Working
    BY <2>2 DEF Standing, Working, Fresh
  <2>. QED
    BY <2>1, <2>2
<1>3. ASSUME NEW p \in Order
      PROVE  Paid(p)' /\ OneOfEach(p)'
  BY DEF Paid, OneOfEach, OthersStay, Same, Linked, Working
<1>. QED
  BY <1>1, <1>2, <1>3

(* What the order is when an importer has seen no link of it.              *)
LEMMA UnpaidBefore ==
  ASSUME IInv, NEW i \in Importer,
         pc[i] \in {"analyze", "readEvents", "findRealLink", "build", "consume"}
  PROVE  charges[task[i].order] = 0 /\ CreatedFor(task[i].order) = {}
<1>1. task[i].order \in Order /\ ~Linked(task[i].order)
  BY DEF IInv, ImportInv, Claims, Standing, Working, Fresh
<1>2. \A j \in Importer :
        ~(pc[j] \in {"save", "link"} /\ task[j].order = task[i].order)
  BY DEF IInv, ImportInv, Exclusive, Working
<1>3. charges[task[i].order] \in Nat
  BY <1>1 DEF IInv, TypeOK
<1>. QED
  BY <1>1, <1>2, <1>3 DEF IInv, ImportInv, Paid

(* A step that writes nothing an order is made of.                         *)
LEMMA ControlStep ==
  ASSUME IInv, NEW i \in Importer, pc[i] \in Working \ {"save", "link"},
         \A p \in Order : Same(p),
         \/ Leave(i)
         \/ /\ \E to \in Working \ {"save", "link"} : Proceed(i, to)
            /\ pc'[i] \in Fresh => ~Linked(task[i].order)
            /\ pc'[i] = "consume" => HasShop(task[i].order)
  PROVE  ImportInv'
<1>1. PICK o \in Order : task[i].order = o
  BY DEF IInv, ImportInv, Claims
<1>2. OthersStay(i)
  BY DEF OthersStay, Leave, Proceed, Goto, IInv, TypeOK
<1>3. /\ pc'[i] \in Working => task'[i].order = o /\ importing' = importing
      /\ pc'[i] \notin Working => importing' = importing \ {o}
  BY <1>1 DEF Leave, Proceed, Goto, IInv, TypeOK, Working
<1>4. pc'[i] \notin {"save", "link"}
  BY DEF Leave, Proceed, Goto, IInv, TypeOK
<1>5. pc'[i] \in Fresh => ~Linked(o) /\ pc'[i] # "next"
  BY <1>1 DEF Leave, IInv, TypeOK, Fresh
<1>6. pc'[i] = "consume" => HasShop(o)
  BY <1>1 DEF Leave, IInv, TypeOK
<1>7. Standing(i)'
  BY <1>1, <1>3, <1>4, <1>5, <1>6 DEF Standing, Same, Linked, HasShop, Fresh, Working
<1>8. ASSUME charges[o] = 1
      PROVE  Linked(o) \/ \E j \in Importer \ {i} :
                             pc[j] \in {"save", "link"} /\ task[j].order = o
  BY <1>1, <1>8 DEF IInv, ImportInv, Paid
<1>9. Paid(o)' /\ OneOfEach(o)'
  BY <1>1, <1>2, <1>8 DEF IInv, ImportInv, Paid, OneOfEach, OthersStay, Same, Linked
<1>. QED
  BY <1>1, <1>2, <1>3, <1>7, <1>9, OrderStep

LEMMA ControlSteps ==
  ASSUME IInv, NEW i \in Importer,
         \/ FindLink(i) \/ UpdateLocator(i) \/ AnalyzeOrder(i) \/ ReadEvents(i)
         \/ FindRealLink(i) \/ BuildDelivery(i)
  PROVE  ImportInv'
<1>1. Untouched /\ \A p \in Order : Same(p)
  BY DEF FindLink, UpdateLocator, AnalyzeOrder, ReadEvents, FindRealLink, BuildDelivery, Untouched,
         Same, CreatedFor, LinksOf
<1>2. ~Linked(task[i].order) \/ pc[i] = "findLink" \/ pc[i] \notin Fresh
  BY DEF IInv, ImportInv, Standing
<1>3. pc[i] \in Working \ {"save", "link"}
  BY DEF FindLink, UpdateLocator, AnalyzeOrder, ReadEvents, FindRealLink, BuildDelivery, Working
<1>4. CASE FindLink(i)
  BY <1>1, <1>3, <1>4, ControlStep
     DEF FindLink, Proceed, Goto, IInv, TypeOK, Working, Fresh
<1>5. CASE AnalyzeOrder(i)
  BY <1>1, <1>2, <1>3, <1>5, ControlStep
     DEF AnalyzeOrder, Proceed, Goto, IInv, TypeOK, Working, Fresh
<1>6. CASE ReadEvents(i)
  BY <1>1, <1>2, <1>3, <1>6, ControlStep
     DEF ReadEvents, Proceed, Goto, IInv, TypeOK, Working, Fresh
<1>7. CASE FindRealLink(i)
  BY <1>1, <1>3, <1>7, ControlStep
     DEF FindRealLink, Proceed, Goto, IInv, TypeOK, Working, Fresh
<1>8. CASE BuildDelivery(i)
  BY <1>1, <1>2, <1>3, <1>8, ControlStep
     DEF BuildDelivery, MayCreate, Proceed, Goto, IInv, TypeOK, Working, Fresh
<1>9. CASE UpdateLocator(i)
  BY <1>1, <1>3, <1>9, ControlStep DEF UpdateLocator
<1>. QED
  BY <1>4, <1>5, <1>6, <1>7, <1>8, <1>9

LEMMA NextOrderStep ==
  ASSUME IInv, NEW i \in Importer, NextOrder(i)
  PROVE  ImportInv'
<1>1. pc[i] = "next" /\ OthersStay(i) /\ \A p \in Order : Same(p)
  BY DEF NextOrder, Untouched, OthersStay, Same, CreatedFor, LinksOf, IInv, TypeOK
<1>2. CASE pc'[i] \notin Working /\ UNCHANGED importing
  BY <1>1, <1>2, QuietStep DEF Working
<1>3. ASSUME NEW o \in task[i].todo \ importing,
             importing' = importing \cup {o},
             task'[i].order = o,
             pc'[i] = "findLink"
      PROVE  ImportInv'
  <2>. USE DEF IInv, ImportInv
  <2>1. o \in Order
    BY <1>3 DEF TypeOK, Task
  <2>2. Claims' /\ Exclusive'
    BY <1>1, <1>3, <2>1 DEF Claims, Exclusive, OthersStay
  <2>3. ASSUME NEW j \in Importer
        PROVE  Standing(j)'
    <3>1. CASE j = i
      BY <1>3, <3>1 DEF Standing, Fresh
    <3>2. CASE j # i /\ pc[j] \in Working
      BY <1>1, <3>2 DEF Standing, OthersStay, Same, Linked, HasShop, Claims
    <3>3. CASE j # i /\ pc[j] \notin Working
      BY <1>1, <3>3 DEF Standing, OthersStay, Working, Fresh
    <3>. QED
      BY <3>1, <3>2, <3>3
  <2>4. ASSUME NEW p \in Order
        PROVE  Paid(p)' /\ OneOfEach(p)'
    BY <1>1 DEF Paid, OneOfEach, OthersStay, Same, Linked
  <2>. QED
    BY <2>2, <2>3, <2>4
<1>4. \/ pc'[i] \notin Working /\ UNCHANGED importing
      \/ \E o \in task[i].todo \ importing :
           /\ importing' = importing \cup {o}
           /\ task'[i].order = o
           /\ pc'[i] = "findLink"
  BY DEF NextOrder, IInv, TypeOK, Task, Working
<1>. QED
  BY <1>2, <1>3, <1>4

LEMMA ConsumeStep ==
  ASSUME IInv, NEW i \in Importer, Consume(i)
  PROVE  ImportInv'
<1>1. PICK o \in Order : task[i].order = o
  BY DEF Consume, IInv, ImportInv, Claims, Working
<1>2. pc[i] = "consume" /\ ~Linked(o) /\ HasShop(o) /\ charges[o] = 0 /\ CreatedFor(o) = {}
  BY <1>1, UnpaidBefore DEF Consume, IInv, ImportInv, Standing, Fresh
<1>3. UNCHANGED <<links, deliveries>>
  BY DEF Consume
<1>4. CASE Leave(i) /\ UNCHANGED charges
  <2>1. \A p \in Order : Same(p)
    BY <1>3, <1>4 DEF Same, CreatedFor, LinksOf
  <2>. QED
    BY <1>2, <1>4, <2>1, ControlStep DEF Working
<1>5. CASE Proceed(i, "save") /\ charges' = [charges EXCEPT ![o] = @ + 1]
  <2>1. /\ OthersStay(i)
        /\ pc'[i] = "save" /\ task'[i].order = o /\ importing' = importing
    BY <1>1, <1>5 DEF OthersStay, Proceed, Goto, IInv, TypeOK
  <2>2. charges'[o] = 1 /\ \A p \in Order \ {o} : charges'[p] = charges[p]
    BY <1>2, <1>5 DEF IInv, TypeOK
  <2>3. \A p \in Order : CreatedFor(p)' = CreatedFor(p) /\ LinksOf(p)' = LinksOf(p)
    BY <1>3 DEF CreatedFor, LinksOf
  <2>4. Standing(i)'
    BY <1>2, <2>1, <2>2, <2>3 DEF Standing, Linked, HasShop
  <2>5. Paid(o)' /\ OneOfEach(o)'
    BY <2>1, <2>2, <2>3 DEF Paid, OneOfEach, IInv, ImportInv
  <2>. QED
    BY <1>1, <1>2, <2>1, <2>2, <2>3, <2>4, <2>5, OrderStep DEF Same, Working
<1>. QED
  BY <1>1, <1>4, <1>5 DEF Consume

LEMMA SaveStep ==
  ASSUME IInv, NEW i \in Importer, SaveDelivery(i)
  PROVE  ImportInv'
<1>1. PICK o \in Order : task[i].order = o
  BY DEF SaveDelivery, IInv, ImportInv, Claims, Working
<1>2. pc[i] = "save" /\ ~Linked(o) /\ charges[o] = 1 /\ CreatedFor(o) = {}
  BY <1>1 DEF SaveDelivery, IInv, ImportInv, Standing, Fresh
<1>3. ~Duplicate(o) /\ UNCHANGED <<links, charges, importing>>
  BY <1>1, <1>2 DEF SaveDelivery, Duplicate
<1>4. PICK d \in DeliveryId :
        /\ ~Created(d)
        /\ deliveries' = [deliveries EXCEPT ![d] =
              [order |-> o, active |-> TRUE]]
        /\ task' = [task EXCEPT ![i].delivery = d]
  BY <1>1, <1>3 DEF SaveDelivery
<1>5. /\ OthersStay(i)
      /\ pc'[i] = "link" /\ task'[i].order = o /\ task'[i].delivery = d
  BY <1>1, <1>3, <1>4 DEF SaveDelivery, OthersStay, Goto, IInv, TypeOK, Task
<1>6. CreatedFor(o)' = {d}
  BY <1>2, <1>4 DEF CreatedFor, IInv, TypeOK
<1>7. \A p \in Order \ {o} : CreatedFor(p)' = CreatedFor(p)
  BY <1>4, ImportAssumption DEF CreatedFor, Created, IInv, TypeOK
<1>8. \A p \in Order : LinksOf(p)' = LinksOf(p) /\ charges'[p] = charges[p]
  BY <1>3 DEF LinksOf
<1>9. Standing(i)'
  BY <1>2, <1>5, <1>6, <1>8 DEF Standing, Linked
<1>10. Paid(o)' /\ OneOfEach(o)'
  BY <1>2, <1>5, <1>6, <1>8 DEF Paid, OneOfEach, Linked
<1>. QED
  BY <1>1, <1>2, <1>3, <1>5, <1>7, <1>8, <1>9, <1>10, OrderStep DEF Same, Working

LEMMA LinkStep ==
  ASSUME IInv, NEW i \in Importer, CreateLink(i)
  PROVE  ImportInv'
<1>1. PICK o \in Order : task[i].order = o
  BY DEF CreateLink, IInv, ImportInv, Claims, Working
<1>2. /\ pc[i] = "link" /\ ~Linked(o) /\ charges[o] = 1
      /\ CreatedFor(o) = {task[i].delivery}
  BY <1>1 DEF CreateLink, IInv, ImportInv, Standing, Fresh
<1>3. /\ links' = links \cup {[order |-> o, delivery |-> task[i].delivery]}
      /\ UNCHANGED <<charges, deliveries>>
  BY <1>1, <1>2 DEF CreateLink
<1>4. OthersStay(i) /\ pc'[i] = "next" /\ importing' = importing \ {o}
  BY <1>1 DEF CreateLink, Leave, OthersStay, IInv, TypeOK
<1>5. LinksOf(o)' = {[order |-> o, delivery |-> task[i].delivery]}
  BY <1>2, <1>3 DEF Linked, LinksOf
<1>6. \A p \in Order \ {o} : LinksOf(p)' = LinksOf(p)
  BY <1>3 DEF LinksOf
<1>7. \A p \in Order : CreatedFor(p)' = CreatedFor(p) /\ charges'[p] = charges[p]
  BY <1>3 DEF CreatedFor
<1>8. Standing(i)'
  BY <1>4 DEF Standing, Fresh
<1>9. Paid(o)' /\ OneOfEach(o)'
  BY <1>2, <1>5, <1>7 DEF Paid, OneOfEach, Linked
<1>. QED
  BY <1>1, <1>2, <1>4, <1>6, <1>7, <1>8, <1>9, OrderStep DEF Same, Working

-----------------------------------------------------------------------------
LEMMA NextKeepsImportInv ==
  ASSUME IInv, Next
  PROVE  ImportInv'
<1>1. ASSUME NEW i \in Importer, pc[i] = "idle", NEW batch, StartImport(i, batch),
             UNCHANGED <<deliveries, links, charges>>
      PROVE  ImportInv'
  <2>1. pc[i] \notin Working /\ pc'[i] \notin Working /\ OthersStay(i) /\ UNCHANGED importing
    BY <1>1 DEF StartImport, OthersStay, Working, IInv, TypeOK
  <2>2. \A p \in Order : Same(p)
    BY <1>1 DEF Same, CreatedFor, LinksOf
  <2>. QED
    BY <2>1, <2>2, QuietStep
<1>2. CASE RetryAll
  BY <1>1, <1>2, ImportAssumption DEF RetryAll, StartImport
<1>3. ASSUME NEW i \in Importer, NEW e \in Event, NEW storedFirst \in BOOLEAN,
             Receive(i, e, storedFirst)
      PROVE  ImportInv'
  BY <1>1, <1>3 DEF Receive, StartImport
<1>4. ASSUME NEW i \in Importer, NEW c \in Company, AddCredits(i, c)
      PROVE  ImportInv'
  BY <1>1, <1>4 DEF AddCredits, StartImport
<1>5. ASSUME NEW i \in Importer, ImportStep(i)
      PROVE  ImportInv'
  BY <1>5, NextOrderStep, ControlSteps, ConsumeStep, SaveStep, LinkStep
     DEF ImportStep
<1>6. CASE \/ \E o \in Order : IfoodCloses(o)
           \/ \E d \in DeliveryId : DeleteDelivery(d)
           \/ ChangeConfigs
  <2>1. \A d \in DeliveryId : deliveries'[d].order = deliveries[d].order
    BY <1>6 DEF IfoodCloses, ChangeConfigs, DeleteDelivery, IInv, TypeOK, Delivery
  <2>2. UNCHANGED <<links, charges, importing, task, pc>>
    BY <1>6 DEF IfoodCloses, ChangeConfigs, DeleteDelivery
  <2>3. \A p \in Order : Same(p)
    BY <2>1, <2>2 DEF Same, CreatedFor, LinksOf
  <2>. USE DEF IInv, ImportInv
  <2>4. Claims' /\ Exclusive'
    BY <2>2 DEF Claims, Exclusive
  <2>5. ASSUME NEW j \in Importer
        PROVE  Standing(j)'
    BY <2>2, <2>3 DEF Standing, Same, Linked, HasShop, Claims, Working, Fresh
  <2>6. ASSUME NEW p \in Order
        PROVE  Paid(p)' /\ OneOfEach(p)'
    BY <2>2, <2>3 DEF Paid, OneOfEach, Same, Linked
  <2>. QED
    BY <2>4, <2>5, <2>6
<1>. QED
  BY <1>2, <1>3, <1>4, <1>5, <1>6 DEF Next

THEOREM ImportInvariant == Spec => []IInv
<1>1. Init => IInv
  <2> SUFFICES ASSUME Init
               PROVE  IInv
    OBVIOUS
  <2>1. TypeOK
    <3>1. NotCreated \in Delivery /\ NoTask \in Task
      BY DEF NotCreated, Delivery, NoTask, Task
    <3>2. credits \in [Company -> Nat] /\ charges \in [Order -> Nat]
            /\ ifood \in [Order -> {"open", "closed"}] /\ topUps \in Nat
      BY ImportAssumption DEF Init
    <3>3. rows \in Seq(Event) /\ links \subseteq Link /\ importing \subseteq Order
      BY DEF Init
    <3>4. blocked \in BOOLEAN
      BY DEF Init
    <3>. QED
      BY <3>1, <3>2, <3>3, <3>4 DEF Init, TypeOK
  <2>2. \A o \in Order : CreatedFor(o) = {} /\ LinksOf(o) = {}
    BY ImportAssumption DEF Init, CreatedFor, LinksOf, NotCreated
  <2>3. ImportInv
    BY <2>2 DEF Init, ImportInv, Claims, Exclusive, Standing, Paid, OneOfEach, Linked,
                Working, Fresh
  <2>. QED
    BY <2>1, <2>3 DEF IInv
<1>2. IInv /\ [Next]_vars => IInv'
  <2> SUFFICES ASSUME IInv, [Next]_vars
               PROVE  IInv'
    OBVIOUS
  <2>1. CASE Next
    BY <2>1, NextIsTyped, NextKeepsImportInv DEF IInv
  <2>2. CASE UNCHANGED vars
    <3>1. TypeOK'
      BY <2>2 DEF IInv, TypeOK, vars
    <3>2. \A p \in Order : Same(p)
      BY <2>2 DEF Same, CreatedFor, LinksOf, vars
    <3>3. Claims' /\ Exclusive'
      BY <2>2 DEF IInv, ImportInv, Claims, Exclusive, vars
    <3>4. ASSUME NEW j \in Importer
          PROVE  Standing(j)'
      BY <2>2, <3>2 DEF IInv, ImportInv, Standing, Same, Linked, HasShop, Claims,
                        Working, Fresh, vars
    <3>5. ASSUME NEW p \in Order
          PROVE  Paid(p)' /\ OneOfEach(p)'
      BY <2>2, <3>2 DEF IInv, ImportInv, Paid, OneOfEach, Same, Linked, vars
    <3>. QED
      BY <3>1, <3>3, <3>4, <3>5 DEF IInv, ImportInv
  <2>. QED
    BY <2>1, <2>2
<1>. QED
  BY <1>1, <1>2, PTL DEF Spec

-----------------------------------------------------------------------------
(* The properties                                                          *)

(* Every variable keeps its type: in particular no interleaving of imports *)
(* and top-ups makes the credits of a store negative.                      *)
THEOREM TypeCorrect == Spec => []TypeOK
BY ImportInvariant, PTL DEF IInv

(* However many imports overlap, and with or without the unique index of   *)
(* deliveries, no order becomes two deliveries.                            *)
THEOREM OrderHasOneDelivery == Spec => []OneDelivery
<1>1. IInv => OneDelivery
  <2> SUFFICES ASSUME IInv, NEW d \in DeliveryId, NEW e \in DeliveryId,
                      Created(d), deliveries[d].order = deliveries[e].order
               PROVE  d = e
    BY DEF OneDelivery
  <2>1. deliveries[d].order \in Order
    BY DEF Created, IInv, TypeOK, Delivery
  <2>. QED
    BY <2>1 DEF IInv, ImportInv, OneOfEach, CreatedFor
<1>. QED
  BY <1>1, ImportInvariant, PTL

(* Nor does it get two links, with or without the unique index of links.   *)
THEOREM OrderHasOneLink == Spec => []OneLink
<1>1. IInv => OneLink
  BY DEF OneLink, IInv, ImportInv, OneOfEach, LinksOf, TypeOK, Link
<1>. QED
  BY <1>1, ImportInvariant, PTL

-----------------------------------------------------------------------------
(* Refinement                                                              *)

(* A step that is one of ImportLedger leaves the stage of all orders but   *)
(* one, and the rest of the ledger is common to both.                      *)
LEMMA StagesStay ==
  ASSUME NEW o \in Order, Same(o)
  PROVE  StageOf(o)' = StageOf(o)
BY DEF Same, StageOf, Linked

stages == [o \in Order |-> StageOf(o)]

LEMMA OneStageMoves ==
  ASSUME NEW o \in Order, \A p \in Order \ {o} : Same(p)
  PROVE  stages' = [stages EXCEPT ![o] = StageOf(o)']
<1>1. \A p \in Order \ {o} : StageOf(p)' = StageOf(p)
  BY StagesStay
<1>. QED
  BY <1>1 DEF stages

(* A step that neither creates, links nor pays is none of the ledger.      *)
LEMMA NoLedgerStep ==
  ASSUME \A o \in Order : Same(o), UNCHANGED <<charges, credits>>
  PROVE  UNCHANGED Ledger!vars
<1>1. \A o \in Order : StageOf(o)' = StageOf(o)
  BY StagesStay
<1>. QED
  BY <1>1 DEF Ledger!vars

LEMMA ConsumePays ==
  ASSUME IInv, NEW i \in Importer, Consume(i)
  PROVE  [Ledger!Next]_(Ledger!vars)
<1>1. PICK o \in Order : task[i].order = o
  BY DEF Consume, IInv, ImportInv, Claims, Working
<1>2. pc[i] = "consume" /\ ~Linked(o) /\ HasShop(o) /\ charges[o] = 0 /\ CreatedFor(o) = {}
  BY <1>1, UnpaidBefore DEF Consume, IInv, ImportInv, Standing, Fresh
<1>3. \A p \in Order : CreatedFor(p)' = CreatedFor(p) /\ LinksOf(p)' = LinksOf(p)
  BY DEF Consume, CreatedFor, LinksOf
<1>4. CASE credits[ShopOf[o]] < 1
  BY <1>1, <1>2, <1>3, <1>4, NoLedgerStep DEF Consume, Same, HasShop, IInv, TypeOK
<1>5. CASE credits[ShopOf[o]] >= 1
  <2>1. /\ credits' = [credits EXCEPT ![ShopOf[o]] = @ - 1]
        /\ charges' = [charges EXCEPT ![o] = @ + 1]
    BY <1>1, <1>2, <1>5 DEF Consume, HasShop, IInv, TypeOK
  <2>2. charges'[o] = 1 /\ \A p \in Order \ {o} : charges'[p] = charges[p]
    BY <1>2, <2>1 DEF IInv, TypeOK
  <2>3. StageOf(o) = "none" /\ StageOf(o)' = "paid"
    BY <1>2, <1>3, <2>2 DEF StageOf, Linked
  <2>4. stages[o] = "none" /\ stages' = [stages EXCEPT ![o] = "paid"]
    BY <1>3, <2>2, <2>3, OneStageMoves DEF Same, stages
  <2>5. Ledger!Pay(o)
    BY <1>2, <1>5, <2>1, <2>4 DEF Ledger!Pay, Ledger!Advance, HasShop, stages
  <2>. QED
    BY <2>5 DEF Ledger!Next
<1>. QED
  BY <1>2, <1>4, <1>5 DEF HasShop, IInv, TypeOK

LEMMA SaveMakes ==
  ASSUME IInv, NEW i \in Importer, SaveDelivery(i)
  PROVE  [Ledger!Next]_(Ledger!vars)
<1>1. PICK o \in Order : task[i].order = o
  BY DEF SaveDelivery, IInv, ImportInv, Claims, Working
<1>2. pc[i] = "save" /\ ~Linked(o) /\ charges[o] = 1 /\ CreatedFor(o) = {}
  BY <1>1 DEF SaveDelivery, IInv, ImportInv, Standing, Fresh
<1>3. ~Duplicate(o) /\ UNCHANGED <<links, charges, credits>>
  BY <1>1, <1>2 DEF SaveDelivery, Duplicate
<1>4. PICK d \in DeliveryId :
        /\ ~Created(d)
        /\ deliveries' = [deliveries EXCEPT ![d] =
              [order |-> o, active |-> TRUE]]
  BY <1>1, <1>3 DEF SaveDelivery
<1>5. CreatedFor(o)' = {d}
  BY <1>2, <1>4 DEF CreatedFor, IInv, TypeOK
<1>6. \A p \in Order \ {o} : CreatedFor(p)' = CreatedFor(p)
  BY <1>4, ImportAssumption DEF CreatedFor, Created, IInv, TypeOK
<1>7. \A p \in Order : LinksOf(p)' = LinksOf(p)
  BY <1>3 DEF LinksOf
<1>8. StageOf(o) = "paid" /\ StageOf(o)' = "made"
  BY <1>2, <1>5, <1>7 DEF StageOf, Linked
<1>9. stages[o] = "paid" /\ stages' = [stages EXCEPT ![o] = "made"]
  BY <1>3, <1>6, <1>7, <1>8, OneStageMoves DEF Same, stages
<1>10. Ledger!Make(o)
  BY <1>3, <1>9 DEF Ledger!Make, Ledger!Advance, stages
<1>. QED
  BY <1>10 DEF Ledger!Next

LEMMA LinkConnects ==
  ASSUME IInv, NEW i \in Importer, CreateLink(i)
  PROVE  [Ledger!Next]_(Ledger!vars)
<1>1. PICK o \in Order : task[i].order = o
  BY DEF CreateLink, IInv, ImportInv, Claims, Working
<1>2. /\ ~Linked(o) /\ charges[o] = 1
      /\ CreatedFor(o) = {task[i].delivery}
  BY <1>1 DEF CreateLink, IInv, ImportInv, Standing, Fresh
<1>3. /\ links' = links \cup {[order |-> o, delivery |-> task[i].delivery]}
      /\ UNCHANGED <<charges, credits, deliveries>>
  BY <1>1, <1>2 DEF CreateLink
<1>4. LinksOf(o)' # {}
  <2>1. [order |-> o, delivery |-> task[i].delivery] \in LinksOf(o)'
    BY <1>3 DEF LinksOf
  <2>. QED
    BY <2>1
<1>5. \A p \in Order \ {o} : LinksOf(p)' = LinksOf(p)
  BY <1>3 DEF LinksOf
<1>6. \A p \in Order : CreatedFor(p)' = CreatedFor(p)
  BY <1>3 DEF CreatedFor
<1>7. StageOf(o) = "made" /\ StageOf(o)' = "linked"
  BY <1>2, <1>4 DEF StageOf, Linked
<1>8. stages[o] = "made" /\ stages' = [stages EXCEPT ![o] = "linked"]
  BY <1>3, <1>5, <1>6, <1>7, OneStageMoves DEF Same, stages
<1>9. Ledger!Connect(o)
  BY <1>3, <1>8 DEF Ledger!Connect, Ledger!Advance, stages
<1>. QED
  BY <1>9 DEF Ledger!Next

(* Every step of the imports is one step of ImportLedger, or none.         *)
LEMMA StepsOfLedger ==
  ASSUME IInv, [Next]_vars
  PROVE  [Ledger!Next]_(Ledger!vars)
<1>1. CASE \/ UNCHANGED <<deliveries, links, charges, credits>>
           \/ \E o \in Order : IfoodCloses(o)
           \/ \E d \in DeliveryId : DeleteDelivery(d)
           \/ ChangeConfigs
  <2>1. \A d \in DeliveryId : deliveries'[d].order = deliveries[d].order
    BY <1>1 DEF IfoodCloses, ChangeConfigs, DeleteDelivery, IInv, TypeOK, Delivery
  <2>2. UNCHANGED <<links, charges, credits>>
    BY <1>1 DEF IfoodCloses, ChangeConfigs, DeleteDelivery
  <2>3. \A o \in Order : Same(o)
    BY <2>1, <2>2 DEF Same, CreatedFor, LinksOf
  <2>. QED
    BY <2>2, <2>3, NoLedgerStep
<1>2. ASSUME NEW i \in Importer, NEW c \in Company, AddCredits(i, c)
      PROVE  [Ledger!Next]_(Ledger!vars)
  <2>1. /\ credits' = [credits EXCEPT ![c] = @ + 1]
        /\ UNCHANGED <<deliveries, links, charges>>
    BY <1>2 DEF AddCredits
  <2>2. \A o \in Order : Same(o)
    BY <2>1 DEF Same, CreatedFor, LinksOf
  <2>3. stages' = stages
    BY <2>2, StagesStay DEF stages
  <2>4. Ledger!TopUp(c)
    BY <2>1, <2>3 DEF Ledger!TopUp, stages
  <2>. QED
    BY <2>4 DEF Ledger!Next
<1>3. CASE \E i \in Importer : Consume(i) \/ SaveDelivery(i) \/ CreateLink(i)
  BY <1>3, ConsumePays, SaveMakes, LinkConnects
<1>4. ASSUME NEW i \in Importer, ImportStep(i)
      PROVE  \/ UNCHANGED <<deliveries, links, charges, credits>>
             \/ Consume(i) \/ SaveDelivery(i) \/ CreateLink(i)
  BY <1>4 DEF ImportStep, NextOrder, FindLink, UpdateLocator, AnalyzeOrder, ReadEvents, FindRealLink,
              BuildDelivery, Untouched
<1>. QED
  BY <1>1, <1>2, <1>3, <1>4 DEF Next, RetryAll, Receive, vars

(* As long as no handler fails, the imports implement ImportLedger: each   *)
(* order is paid, made and linked once, whichever importers get to it.     *)
THEOREM ImportsImplementLedger == Spec => ImplementsLedger
<1>1. Init => Ledger!Init
  <2> SUFFICES ASSUME Init
               PROVE  Ledger!Init
    OBVIOUS
  <2>1. \A o \in Order : CreatedFor(o) = {} /\ LinksOf(o) = {}
    BY ImportAssumption DEF Init, CreatedFor, LinksOf, NotCreated
  <2>2. \A o \in Order : StageOf(o) = "none"
    BY <2>1 DEF Init, StageOf, Linked
  <2>. QED
    BY <2>2 DEF Init, Ledger!Init
<1>2. IInv /\ [Next]_vars => [Ledger!Next]_(Ledger!vars)
  BY StepsOfLedger
<1>. QED
  BY <1>1, <1>2, ImportInvariant, PTL DEF Spec, ImplementsLedger, Ledger!Spec
=============================================================================
