---------------------- MODULE DeliveryLifecycleProofs ----------------------
(***************************************************************************)
(* Proofs about DeliveryLifecycle, for any users, deliveries, requests and *)
(* bodies.                                                                 *)
(***************************************************************************)
EXTENDS DeliveryLifecycle, FiniteSetTheorems, TLAPS

(* A step by the handler it belongs to, for proofs by cases.               *)
Reads(r, d) ==
  \/ \E u \in User : \E dto \in Dto[u] : UpdateRead(r, u, d, dto)
  \/ \E u \in User : DeleteRead(r, u, d)
  \/ \E u \in User : CleanupRead(r, u, d)
  \/ \E u \in User, m \in User \cup {None} : ReleaseRead(r, u, d, m)
  \/ CancelEventRead(r, d)
  \/ ConcludeEventRead(r, d)
  \/ StatusEventRead(r, d)
  \/ CancelFailedRead(r, d)

IfoodActs(d) ==
  \/ IfoodAsksForCode(d)
  \/ \E how \in Closing : IfoodCloses(d, how)

LEMMA NextCases ==
  ASSUME Next
  PROVE  \/ Quiet
         \/ \E d \in Delivery : IfoodActs(d)
         \/ \E r \in Request : \E d \in Delivery : Reads(r, d)
         \/ \E r \in Request : Advance(r) \/ Interrupt(r)
BY DEF Next, Receive, Reads, IfoodActs

-----------------------------------------------------------------------------
(* What a handler knows of its request where it uses it.                   *)
ClaimerKnown ==
  \A r \in Request :
    /\ pc[r] = "count" =>
         task[r].user \in User /\ IsMotoboy(task[r].user)
           /\ task[r].dto.motoboy # None
    /\ pc[r] = "claim" => Chosen(task[r]) \in User

TypeInv == TypeOK /\ ClaimerKnown

(* Locals that are set are those of a request.                             *)
LEMMA TasksAreReal ==
  ASSUME TypeOK, NEW r \in Request, pc[r] \in InFlight
  PROVE  /\ task[r] \in Task
         /\ task[r].delivery \in Delivery
         /\ task[r].copy \in Document
         /\ delivery[task[r].delivery] \in Document
BY DEF TypeOK, Task

LEMMA NoTaskIsNoTask == NoTask \notin Task
BY DEF Task, NoTask, Op

(* Each image a handler writes is a document.                              *)
LEMMA ImagesAreDocuments ==
  ASSUME NEW t \in Task
  PROVE  /\ Changed(t) \in Document
         /\ Chosen(t) \in User \cup {None}
         /\ \A status \in Status, m \in User \cup {None}, f \in SUBSET Notice :
              \A doc \in Document : Persistable(doc, status, m, f) \in Document
         /\ \A status \in Status, a \in BOOLEAN :
              Closed(t.copy, status, a) \in Document
<1>1. Chosen(t) \in User \cup {None}
  BY DEF Chosen, Task, Body
<1>2. Changed(t) \in Document
  BY <1>1 DEF Changed, Task, Body, Document, Status, InProgress
<1>3. \A status \in Status, m \in User \cup {None}, f \in SUBSET Notice :
        \A doc \in Document : Persistable(doc, status, m, f) \in Document
  BY DEF Persistable, Document
<1>4. \A status \in Status, a \in BOOLEAN :
        Closed(t.copy, status, a) \in Document
  BY DEF Closed, Document, Task
<1>. QED
  BY <1>1, <1>2, <1>3, <1>4

LEMMA SaveIsTyped ==
  ASSUME delivery \in [Delivery -> Document], NEW d \in Delivery,
         NEW image \in Document, Save(d, image)
  PROVE  delivery' \in [Delivery -> Document]
<1>1. [status |-> image.status, motoboy |-> image.motoboy, store |-> image.store,
       active |-> image.active,
       flags |-> IF image.bare THEN delivery[d].flags ELSE image.flags,
       bare |-> delivery[d].bare /\ image.bare] \in Document
  BY DEF Document
<1>. QED
  BY <1>1 DEF Save

(* The steps that only change locals keep them typed.                      *)
LEMMA ContinueIsTyped ==
  ASSUME TypeOK, NEW r \in Request, NEW t \in Task, NEW next \in InFlight,
         Continue(r, t, next)
  PROVE  /\ task' \in [Request -> Task \cup {NoTask}]
         /\ pc' \in [Request -> InFlight \cup {"idle", "ended"}]
         /\ \A q \in Request : pc'[q] \in InFlight <=> task'[q] # NoTask
BY NoTaskIsNoTask DEF TypeOK, Continue

LEMMA EndIsTyped ==
  ASSUME TypeOK, NEW r \in Request, End(r)
  PROVE  /\ task' \in [Request -> Task \cup {NoTask}]
         /\ pc' \in [Request -> InFlight \cup {"idle", "ended"}]
         /\ \A q \in Request : pc'[q] \in InFlight <=> task'[q] # NoTask
BY DEF TypeOK, End, InFlight

LEMMA GotoIsTyped ==
  ASSUME TypeOK, NEW r \in Request, pc[r] \in InFlight,
         NEW next \in InFlight, Goto(r, next)
  PROVE  /\ task' \in [Request -> Task \cup {NoTask}]
         /\ pc' \in [Request -> InFlight \cup {"idle", "ended"}]
         /\ \A q \in Request : pc'[q] \in InFlight <=> task'[q] # NoTask
BY DEF TypeOK, Goto

LEMMA BeginIsTyped ==
  ASSUME TypeOK, NEW r \in Request, NEW op, NEW u \in User \cup {None},
         NEW d \in Delivery, NEW dto \in Body, NEW next \in InFlight,
         op \in Op, Begin(r, op, u, d, dto, next)
  PROVE  /\ task' \in [Request -> Task \cup {NoTask}]
         /\ pc' \in [Request -> InFlight \cup {"idle", "ended"}]
         /\ \A q \in Request : pc'[q] \in InFlight <=> task'[q] # NoTask
<1>1. [op |-> op, user |-> u, delivery |-> d, dto |-> dto,
       copy |-> delivery[d], todo |-> {}, gained |-> {}] \in Task
  BY DEF TypeOK, Task
<1>. QED
  BY <1>1, NoTaskIsNoTask DEF TypeOK, Begin

LEMMA ProceedIsTyped ==
  ASSUME TypeOK, NEW r \in Request, NEW t \in Task, Proceed(r, t)
  PROVE  /\ task' \in [Request -> Task \cup {NoTask}]
         /\ pc' \in [Request -> InFlight \cup {"idle", "ended"}]
         /\ \A q \in Request : pc'[q] \in InFlight <=> task'[q] # NoTask
<1>1. CASE AfterSync(t, t.gained) = "done"
  BY <1>1, EndIsTyped DEF Proceed
<1>2. CASE AfterSync(t, t.gained) # "done"
  <2>1. AfterSync(t, t.gained) \in InFlight
    BY <1>2 DEF AfterSync, InFlight
  <2>. QED
    BY <1>2, <2>1, ContinueIsTyped DEF Proceed
<1>. QED
  BY <1>1, <1>2

(* The locals are typed when those of the handler's step are.              *)
LocalsTyped ==
  /\ task \in [Request -> Task \cup {NoTask}]
  /\ pc \in [Request -> InFlight \cup {"idle", "ended"}]
  /\ \A r \in Request : pc[r] \in InFlight <=> task[r] # NoTask

LEMMA ReadsAreTyped ==
  ASSUME TypeInv, NEW r \in Request, NEW d \in Delivery, Reads(r, d)
  PROVE  TypeInv'
<1>. USE DEF TypeInv
<1>1. ASSUME NEW u \in User, NEW dto \in Dto[u], UpdateRead(r, u, d, dto)
      PROVE  TypeInv'
  <2>1. dto \in Body
    BY LifecycleAssumption
  <2>2. (IF IsMotoboy(u) /\ dto.motoboy # None
         THEN "count" ELSE Route(dto, delivery[d])) \in InFlight
    BY DEF Route, InFlight
  <2>3. LocalsTyped'
    BY <1>1, <2>1, <2>2, BeginIsTyped DEF UpdateRead, Op, LocalsTyped
  <2>4. TypeOK'
    BY <1>1, <2>3 DEF UpdateRead, TypeOK, LocalsTyped, records, outside
  <2>5. ClaimerKnown'
    <3>1. ASSUME NEW q \in Request, q # r
          PROVE  pc'[q] = pc[q] /\ task'[q] = task[q]
      BY <1>1, <3>1 DEF UpdateRead, Begin, TypeOK
    <3>2. /\ task'[r].user = u /\ task'[r].dto = dto /\ task'[r].copy = delivery[d]
          /\ pc'[r] = IF IsMotoboy(u) /\ dto.motoboy # None
                      THEN "count" ELSE Route(dto, delivery[d])
      BY <1>1 DEF UpdateRead, Begin, TypeOK
    <3>3. ~(IsMotoboy(u) /\ dto.motoboy # None) /\ pc'[r] = "claim"
            => Chosen(task'[r]) \in User
      BY <2>1, <3>2 DEF Route, IsClaim, Chosen, Body
    <3>4. pc'[r] = "claim" => Chosen(task'[r]) \in User
      BY <3>2, <3>3
    <3>5. pc'[r] = "count" => /\ task'[r].user \in User
                              /\ IsMotoboy(task'[r].user)
                              /\ task'[r].dto.motoboy # None
      BY <3>2 DEF Route
    <3>. QED
      BY <3>1, <3>4, <3>5, Zenon DEF ClaimerKnown, Chosen
  <2>. QED
    BY <2>4, <2>5
<1>2. ASSUME NEW op \in Op, NEW u \in User \cup {None}, NEW dto \in Body,
             NEW next \in InFlight \ {"count", "claim"},
             Begin(r, op, u, d, dto, next), UNCHANGED <<records, outside>>
      PROVE  TypeInv'
  <2>1. LocalsTyped'
    BY <1>2, BeginIsTyped DEF LocalsTyped
  <2>2. TypeOK'
    BY <1>2, <2>1 DEF TypeOK, LocalsTyped, records, outside
  <2>3. ClaimerKnown'
    <3>1. ASSUME NEW q \in Request, q # r
          PROVE  pc'[q] = pc[q] /\ task'[q] = task[q]
      BY <1>2, <3>1 DEF Begin, TypeOK
    <3>2. pc'[r] = next
      BY <1>2 DEF Begin, TypeOK
    <3>. QED
      BY <3>1, <3>2, Zenon DEF ClaimerKnown, Chosen
  <2>. QED
    BY <2>2, <2>3
<1>3. NoBody \in Body /\ \A m \in User \cup {None} : [NoBody EXCEPT !.motoboy = m] \in Body
  BY DEF NoBody, Body
<1>. HIDE DEF TypeInv
<1>4. ASSUME NEW u \in User, DeleteRead(r, u, d)
      PROVE  TypeInv'
  BY <1>2, <1>3, <1>4 DEF DeleteRead, Op, InFlight
<1>5. ASSUME NEW u \in User, CleanupRead(r, u, d)
      PROVE  TypeInv'
  BY <1>2, <1>3, <1>5 DEF CleanupRead, Op, InFlight
<1>6. ASSUME NEW u \in User, NEW m \in User \cup {None}, ReleaseRead(r, u, d, m)
      PROVE  TypeInv'
  <2>1. delivery[d].motoboy \in User \cup {None}
    BY DEF TypeInv, TypeOK, Document
  <2>2. (IF m # None THEN m ELSE delivery[d].motoboy) \in User \cup {None}
    BY <2>1
  <2>. QED
    BY <1>2, <1>3, <1>6, <2>2 DEF ReleaseRead, Op, InFlight
<1>7. CASE CancelEventRead(r, d)
  BY <1>2, <1>3, <1>7 DEF CancelEventRead, Op, InFlight
<1>8. CASE ConcludeEventRead(r, d)
  BY <1>2, <1>3, <1>8 DEF ConcludeEventRead, Op, InFlight
<1>9. CASE StatusEventRead(r, d)
  BY <1>2, <1>3, <1>9 DEF StatusEventRead, Op, InFlight
<1>10. CASE CancelFailedRead(r, d)
  BY <1>2, <1>3, <1>10 DEF CancelFailedRead, Op, InFlight
<1>. QED
  BY <1>1, <1>4, <1>5, <1>6, <1>7, <1>8, <1>9, <1>10 DEF Reads

(* A step of handler r that goes on beyond the claim, or ends.             *)
OthersKept(r) ==
  \A q \in Request \ {r} : pc'[q] = pc[q] /\ task'[q] = task[q]

MovesOn(r) ==
  LocalsTyped' /\ OthersKept(r) /\ pc'[r] \notin {"count", "claim"}

LEMMA HandlerMovesOn ==
  ASSUME TypeOK, NEW r \in Request, pc[r] \in InFlight
  PROVE  /\ End(r) => MovesOn(r)
         /\ \A next \in InFlight \ {"count", "claim"} : Goto(r, next) => MovesOn(r)
         /\ \A t \in Task : \A next \in InFlight \ {"count", "claim"} :
              Continue(r, t, next) => MovesOn(r)
         /\ \A t \in Task : Proceed(r, t) => MovesOn(r)
<1>1. End(r) => MovesOn(r)
  BY EndIsTyped DEF MovesOn, LocalsTyped, OthersKept, End, TypeOK
<1>2. ASSUME NEW next \in InFlight \ {"count", "claim"}, Goto(r, next)
      PROVE  MovesOn(r)
  BY <1>2, GotoIsTyped DEF MovesOn, LocalsTyped, OthersKept, Goto, TypeOK
<1>3. ASSUME NEW t \in Task, NEW next \in InFlight \ {"count", "claim"},
             Continue(r, t, next)
      PROVE  MovesOn(r)
  BY <1>3, ContinueIsTyped DEF MovesOn, LocalsTyped, OthersKept, Continue, TypeOK
<1>4. ASSUME NEW t \in Task, Proceed(r, t)
      PROVE  MovesOn(r)
  <2>1. CASE AfterSync(t, t.gained) = "done"
    BY <1>1, <1>4, <2>1 DEF Proceed
  <2>2. CASE AfterSync(t, t.gained) \in {"merge", "saveFlags"}
    BY <1>3, <1>4, <2>2 DEF Proceed, InFlight
  <2>. QED
    BY <2>1, <2>2 DEF AfterSync
<1>. QED
  BY <1>1, <1>2, <1>3, <1>4, Zenon

LEMMA TypedStep ==
  ASSUME TypeInv, NEW r \in Request, MovesOn(r),
         delivery' \in [Delivery -> Document],
         notified' \in [Delivery -> SUBSET Notice],
         ifood' \in [Delivery -> SUBSET Fact],
         accepted' \in [Delivery -> SUBSET User],
         refunded' \subseteq Delivery
  PROVE  TypeInv'
<1>1. TypeOK'
  BY DEF MovesOn, LocalsTyped, TypeOK
<1>2. \A q \in Request \ {r} : pc'[q] = pc[q] /\ task'[q] = task[q]
  BY DEF MovesOn, OthersKept
<1>3. ClaimerKnown'
  BY <1>2, Zenon DEF MovesOn, TypeInv, ClaimerKnown, Chosen
<1>. QED
  BY <1>1, <1>3 DEF TypeInv

(* The update of a set of facts or notices, for one delivery.              *)
LEMMA AddingIsTyped ==
  ASSUME NEW S, NEW f \in [Delivery -> SUBSET S], NEW d \in Delivery, NEW x \in S
  PROVE  [f EXCEPT ![d] = @ \cup {x}] \in [Delivery -> SUBSET S]
OBVIOUS

LEMMA AdvancesAreTyped ==
  ASSUME TypeInv, NEW r \in Request, pc[r] \in InFlight, Advance(r)
  PROVE  TypeInv'
<1>1. TypeOK
  BY DEF TypeInv
<1>2. /\ task[r] \in Task
      /\ task[r].delivery \in Delivery
      /\ task[r].copy \in Document
      /\ delivery[task[r].delivery] \in Document
  BY <1>1, TasksAreReal
<1>3. /\ delivery \in [Delivery -> Document]
      /\ notified \in [Delivery -> SUBSET Notice]
      /\ ifood \in [Delivery -> SUBSET Fact]
      /\ accepted \in [Delivery -> SUBSET User]
      /\ refunded \subseteq Delivery
  BY <1>1 DEF TypeOK
<1>4. ASSUME MovesOn(r), UNCHANGED <<records, outside>>
      PROVE  TypeInv'
  BY <1>3, <1>4, TypedStep DEF records, outside
<1>5. ASSUME MovesOn(r), UNCHANGED <<records, notified>>,
             ifood' \in [Delivery -> SUBSET Fact]
      PROVE  TypeInv'
  BY <1>3, <1>5, TypedStep DEF records
<1>6. ASSUME MovesOn(r), UNCHANGED <<accepted, refunded, outside>>,
             delivery' \in [Delivery -> Document]
      PROVE  TypeInv'
  BY <1>3, <1>6, TypedStep DEF outside
<1>7. End(r) => MovesOn(r)
  BY <1>1, HandlerMovesOn
<1>8. \A next \in InFlight \ {"count", "claim"} : Goto(r, next) => MovesOn(r)
  BY <1>1, HandlerMovesOn
<1>9. \A t \in Task : \A next \in InFlight \ {"count", "claim"} :
        Continue(r, t, next) => MovesOn(r)
  BY <1>1, HandlerMovesOn
<1>10. \A t \in Task : Proceed(r, t) => MovesOn(r)
  BY <1>1, HandlerMovesOn
<1>11. CASE CountQuota(r)
  <2>1. CASE End(r)
    BY <1>4, <1>7, <1>11, <2>1 DEF CountQuota
  <2>2. CASE pc[r] = "count" /\ Goto(r, Route(task[r].dto, task[r].copy))
    <3>1. Route(task[r].dto, task[r].copy) \in InFlight
      BY DEF Route, InFlight
    <3>2. LocalsTyped'
      BY <1>1, <2>2, <3>1, GotoIsTyped DEF LocalsTyped
    <3>3. TypeOK'
      BY <1>1, <1>11, <3>2 DEF CountQuota, TypeOK, LocalsTyped, records, outside
    <3>4. Chosen(task[r]) \in User /\ Route(task[r].dto, task[r].copy) # "count"
      BY <2>2 DEF TypeInv, ClaimerKnown, Chosen, Route
    <3>5. ClaimerKnown'
      BY <1>1, <2>2, <3>4 DEF TypeInv, ClaimerKnown, Goto, TypeOK, Chosen
    <3>. QED
      BY <3>3, <3>5 DEF TypeInv
  <2>. QED
    BY <1>11, <2>1, <2>2 DEF CountQuota
<1>12. CASE DecideDestination(r)
  <2>1. [task[r] EXCEPT !.dto.status = "AWAITING_CODE"] \in Task
    BY <1>2 DEF Task, Body, Status, InProgress
  <2>. QED
    BY <1>2, <1>4, <1>9, <1>12, <2>1 DEF DecideDestination, InFlight
<1>13. CASE Claim(r)
  <2>1. CASE IsFree(delivery[task[r].delivery])
    <3>1. Chosen(task[r]) \in User
      BY <1>13 DEF Claim, TypeInv, ClaimerKnown
    <3>2. Persistable(Changed(task[r]), "ONCOURSE", Chosen(task[r]), task[r].copy.flags)
            \in Document
      <4>1. "ONCOURSE" \in Status /\ task[r].copy.flags \in SUBSET Notice
        BY <1>2 DEF Status, InProgress, Document
      <4>. QED
        BY <1>2, <3>1, <4>1, ImagesAreDocuments
    <3>3. delivery' \in [Delivery -> Document]
      BY <1>2, <1>3, <1>13, <2>1, <3>2, SaveIsTyped DEF Claim
    <3>4. accepted' \in [Delivery -> SUBSET User]
      BY <1>2, <1>3, <1>13, <2>1, <3>1, AddingIsTyped DEF Claim
    <3>5. MovesOn(r)
      BY <1>8, <1>13, <2>1 DEF Claim, InFlight
    <3>. QED
      BY <1>3, <1>13, <2>1, <3>3, <3>4, <3>5, TypedStep DEF Claim, outside
  <2>2. CASE ~IsFree(delivery[task[r].delivery])
    BY <1>4, <1>7, <1>13, <2>2 DEF Claim
  <2>. QED
    BY <2>1, <2>2
<1>14. CASE SyncNothing(r)
  BY <1>2, <1>4, <1>10, <1>14 DEF SyncNothing
<1>15. CASE SyncProgress(r)
  <2> DEFINE kept == IF NextStatus(task[r]) \in AtDestination
                     THEN task[r].copy.flags \cap {"arrivedAtDestination"} ELSE {}
             planned == [task[r] EXCEPT !.todo = Plan(task[r]), !.gained = kept]
  <2>1. planned \in Task
    BY <1>2 DEF Task, Document, Plan, Notice
  <2>2. Proceed(r, planned) \/ Continue(r, planned, "notify")
    BY <1>15 DEF SyncProgress
  <2>3. MovesOn(r)
    BY <1>9, <1>10, <2>1, <2>2 DEF InFlight
  <2>. QED
    BY <1>4, <1>15, <2>3 DEF SyncProgress
<1>16. CASE Notify(r)
  <2>1. PICK n \in task[r].todo :
          LET sent == [task[r] EXCEPT !.todo = @ \ {n}, !.gained = @ \cup {n}] IN
          /\ notified' \in {notified,
                            [notified EXCEPT ![task[r].delivery] = @ \cup {n}]}
          /\ Proceed(r, sent) \/ Continue(r, sent, "notify") \/ End(r)
    BY <1>16 DEF Notify
  <2>2. n \in Notice
    BY <1>2, <2>1 DEF Task
  <2>3. [task[r] EXCEPT !.todo = @ \ {n}, !.gained = @ \cup {n}] \in Task
    BY <1>2, <2>2 DEF Task
  <2>4. notified' \in [Delivery -> SUBSET Notice]
    BY <1>2, <1>3, <2>1, <2>2, AddingIsTyped
  <2>5. MovesOn(r)
    BY <1>7, <1>9, <1>10, <2>1, <2>3 DEF InFlight
  <2>. QED
    BY <1>3, <1>16, <2>4, <2>5, TypedStep DEF Notify, records
<1>17. CASE SyncCancel(r)
  <2>1. ifood' \in [Delivery -> SUBSET Fact]
    BY <1>2, <1>3, <1>17 DEF SyncCancel, IfoodAcceptsCancel, Fact
  <2>. QED
    BY <1>2, <1>5, <1>10, <1>17, <2>1 DEF SyncCancel
<1>18. CASE SyncFinish(r)
  BY <1>4, <1>7, <1>8, <1>18 DEF SyncFinish, InFlight
<1>19. CASE CheckCanceled(r)
  BY <1>4, <1>7, <1>8, <1>19 DEF CheckCanceled, InFlight
<1>20. CASE ConfirmFinish(r)
  <2>1. ifood' \in [Delivery -> SUBSET Fact]
    BY <1>2, <1>3, <1>20 DEF ConfirmFinish, VerifyCode, RefusesAsEnded, Fact
  <2>2. MovesOn(r)
    BY <1>2, <1>7, <1>10, <1>20 DEF ConfirmFinish, VerifyCode, RefusesAsEnded
  <2>. QED
    BY <1>5, <1>20, <2>1, <2>2 DEF ConfirmFinish
<1>21. CASE MergeCurrent(r)
  <2> DEFINE base == IF task[r].copy.bare THEN delivery[task[r].delivery].flags
                     ELSE task[r].copy.flags
  <2>1. [task[r] EXCEPT !.gained = base \cup @] \in Task
    BY <1>2 DEF Task, Document
  <2>. QED
    BY <1>4, <1>9, <1>21, <2>1 DEF MergeCurrent, InFlight
<1>22. CASE WriteUpdate(r)
  <2> DEFINE doc == Changed(task[r])
  <2>1. doc \in Document
    BY <1>2, ImagesAreDocuments
  <2>2. doc.status \in Status /\ doc.motoboy \in User \cup {None}
          /\ task[r].gained \in SUBSET Notice
    BY <1>2, <2>1 DEF Document, Task
  <2>3. Persistable(doc, doc.status, doc.motoboy, task[r].gained) \in Document
    BY <1>2, <2>1, <2>2, ImagesAreDocuments
  <2>4. delivery' \in [Delivery -> Document]
    BY <1>2, <1>3, <1>22, <2>3, SaveIsTyped DEF WriteUpdate
  <2>. QED
    BY <1>6, <1>7, <1>8, <1>22, <2>4 DEF WriteUpdate, InFlight
<1>23. CASE SaveFlags(r)
  <2> DEFINE doc == delivery[task[r].delivery]
  <2>1. [doc EXCEPT !.flags = @ \cup task[r].gained] \in Document
    BY <1>2 DEF Document, Task
  <2>2. delivery' \in [Delivery -> Document]
    BY <1>2, <1>3, <1>23, <2>1 DEF SaveFlags
  <2>. QED
    BY <1>6, <1>7, <1>23, <2>2 DEF SaveFlags
<1>24. CASE AskRefund(r)
  <2>1. refunded' \subseteq Delivery
    BY <1>2, <1>3, <1>24 DEF AskRefund
  <2>. QED
    BY <1>3, <1>7, <1>24, <2>1, TypedStep DEF AskRefund, outside
<1>25. CASE AskCancel(r)
  <2>1. ifood' \in [Delivery -> SUBSET Fact]
    BY <1>2, <1>3, <1>25 DEF AskCancel, IfoodAcceptsCancel, Fact
  <2>. QED
    BY <1>5, <1>7, <1>8, <1>25, <2>1 DEF AskCancel, InFlight
<1>26. CASE QueryOrder(r)
  BY <1>4, <1>7, <1>8, <1>26 DEF QueryOrder, InFlight
<1>27. CASE Remove(r)
  <2>1. Closed(task[r].copy, "CANCELED", FALSE) \in Document
    BY <1>2, ImagesAreDocuments DEF Status
  <2>2. delivery' \in [Delivery -> Document]
    BY <1>2, <1>3, <1>27, <2>1, SaveIsTyped DEF Remove
  <2>. QED
    BY <1>6, <1>7, <1>8, <1>27, <2>2 DEF Remove, InFlight
<1>28. CASE Finish(r)
  <2>1. task[r].copy.active \in BOOLEAN
    BY <1>2 DEF Document
  <2>2. Closed(task[r].copy, "FINISHED", task[r].copy.active) \in Document
    BY <1>2, <2>1, ImagesAreDocuments DEF Status
  <2>3. delivery' \in [Delivery -> Document]
    BY <1>2, <1>3, <1>28, <2>2, SaveIsTyped DEF Finish
  <2>. QED
    BY <1>6, <1>7, <1>28, <2>3 DEF Finish
<1>29. CASE Stamp(r)
  <2> DEFINE doc == task[r].copy
  <2>1. doc.status \in Status /\ doc.motoboy \in User \cup {None}
          /\ doc.flags \in SUBSET Notice
    BY <1>2 DEF Document
  <2>2. Persistable(doc, doc.status, doc.motoboy, doc.flags) \in Document
    BY <1>2, <2>1, ImagesAreDocuments
  <2>3. delivery' \in [Delivery -> Document]
    BY <1>2, <1>3, <1>29, <2>2, SaveIsTyped DEF Stamp
  <2>. QED
    BY <1>6, <1>7, <1>29, <2>3 DEF Stamp
<1>30. CASE Release(r)
  <2> DEFINE m == task[r].dto.motoboy
             status == IF m = None THEN "PENDING" ELSE "ONCOURSE"
  <2>1. status \in Status /\ m \in User \cup {None}
          /\ task[r].copy.flags \in SUBSET Notice
    BY <1>2 DEF Task, Body, Status, InProgress, Document
  <2>2. Persistable(task[r].copy, status, m, task[r].copy.flags) \in Document
    BY <1>2, <2>1, ImagesAreDocuments
  <2>3. delivery' \in [Delivery -> Document]
    BY <1>2, <1>3, <1>30, <2>2, SaveIsTyped DEF Release
  <2>. QED
    BY <1>6, <1>7, <1>8, <1>30, <2>3 DEF Release, InFlight
<1>. QED
  BY <1>11, <1>12, <1>13, <1>14, <1>15, <1>16, <1>17, <1>18, <1>19, <1>20,
     <1>21, <1>22, <1>23, <1>24, <1>25, <1>26, <1>27, <1>28, <1>29, <1>30
     DEF Advance

LEMMA AdvancesAreInFlight ==
  ASSUME NEW r, Advance(r)
  PROVE  pc[r] \in InFlight
BY DEF Advance, InFlight, CountQuota, DecideDestination, Claim, SyncNothing,
       SyncProgress, Notify, SyncCancel, SyncFinish, CheckCanceled,
       ConfirmFinish, MergeCurrent, WriteUpdate, SaveFlags, AskRefund,
       AskCancel, QueryOrder, Remove, Finish, Stamp, Release

LEMMA TypeInvariant == Spec => []TypeInv
<1>1. Init => TypeInv
  <2> SUFFICES ASSUME Init PROVE TypeInv
    OBVIOUS
  <2>1. PICK s \in [Delivery -> Start] :
          /\ delivery = [d \in Delivery |-> s[d].document]
          /\ notified = [d \in Delivery |-> s[d].notified]
          /\ ifood = [d \in Delivery |-> s[d].ifood]
    BY DEF Init
  <2>2. \A d \in Delivery : s[d] \in [document : Document, notified : SUBSET Notice,
                                      ifood : SUBSET Fact]
    BY LifecycleAssumption
  <2>3. /\ delivery \in [Delivery -> Document]
        /\ notified \in [Delivery -> SUBSET Notice]
        /\ ifood \in [Delivery -> SUBSET Fact]
    BY <2>1, <2>2
  <2>4. TypeOK
    BY <2>3 DEF Init, TypeOK, InFlight
  <2>5. ClaimerKnown
    BY DEF Init, ClaimerKnown
  <2>. QED
    BY <2>4, <2>5 DEF TypeInv
<1>2. TypeInv /\ [Next]_vars => TypeInv'
  <2> SUFFICES ASSUME TypeInv, [Next]_vars
               PROVE  TypeInv'
    OBVIOUS
  <2>1. CASE UNCHANGED vars
    BY <2>1 DEF vars, records, outside, TypeInv, TypeOK, ClaimerKnown, Chosen
  <2>2. CASE Quiet
    BY <2>1, <2>2 DEF Quiet
  <2>3. ASSUME NEW d \in Delivery, IfoodActs(d)
        PROVE  TypeInv'
    <3>1. ifood' \in [Delivery -> SUBSET Fact]
      BY <2>3, LifecycleAssumption
         DEF TypeInv, TypeOK, IfoodActs, IfoodAsksForCode, IfoodCloses, Fact
    <3>2. UNCHANGED <<records, notified, task, pc>>
      BY <2>3 DEF IfoodActs, IfoodAsksForCode, IfoodCloses
    <3>. QED
      BY <3>1, <3>2 DEF records, TypeInv, TypeOK, ClaimerKnown, Chosen
  <2>4. ASSUME NEW r \in Request, NEW d \in Delivery, Reads(r, d)
        PROVE  TypeInv'
    BY <2>4, ReadsAreTyped
  <2>5. ASSUME NEW r \in Request, Advance(r)
        PROVE  TypeInv'
    BY <2>5, AdvancesAreInFlight, AdvancesAreTyped
  <2>6. ASSUME NEW r \in Request, Interrupt(r)
        PROVE  TypeInv'
    <3>1. MovesOn(r)
      BY <2>6, HandlerMovesOn DEF TypeInv, Interrupt
    <3>. QED
      BY <2>6, <3>1, TypedStep DEF TypeInv, TypeOK, Interrupt, records, outside
  <2>. QED
    BY <2>1, <2>2, <2>3, <2>4, <2>5, <2>6, NextCases
<1>. QED
  BY <1>1, <1>2, PTL DEF Spec

(* The documents, the facts at iFood and the locals of every handler keep  *)
(* their types, whatever is written from however old a copy.               *)
THEOREM TypeCorrect == Spec => []TypeOK
<1>1. TypeInv => TypeOK
  BY DEF TypeInv
<1>. QED
  BY <1>1, TypeInvariant, PTL

-----------------------------------------------------------------------------
(* What the steps of a handler do to its locals.                           *)
LEMMA LocalSteps ==
  ASSUME TypeOK, NEW r \in Request
  PROVE  /\ End(r) => OthersKept(r) /\ pc'[r] = "ended"
         /\ \A next : Goto(r, next) =>
              OthersKept(r) /\ pc'[r] = next /\ task'[r] = task[r]
         /\ \A t, next : Continue(r, t, next) =>
              OthersKept(r) /\ pc'[r] = next /\ task'[r] = t
         /\ \A t : Proceed(r, t) =>
              /\ OthersKept(r)
              /\ \/ pc'[r] = "ended"
                 \/ pc'[r] = "merge" /\ ~SwallowsErrors(t) /\ task'[r] = t
                 \/ pc'[r] = "saveFlags" /\ task'[r] = t
BY DEF TypeOK, OthersKept, End, Goto, Continue, Proceed, AfterSync

LEMMA BeginSteps ==
  ASSUME TypeOK, NEW r \in Request, NEW d \in Delivery, Reads(r, d)
  PROVE  /\ OthersKept(r)
         /\ task'[r].delivery = d
         /\ task'[r].copy = delivery[d]
         /\ task'[r].gained = {}
         /\ UNCHANGED <<records, outside>>
         /\ pc'[r] # "notify"
<1>. USE DEF TypeOK, OthersKept, Begin
<1>1. ASSUME NEW u \in User, NEW dto \in Dto[u], UpdateRead(r, u, d, dto)
      PROVE  /\ OthersKept(r)
             /\ task'[r].delivery = d
             /\ task'[r].copy = delivery[d]
             /\ task'[r].gained = {}
             /\ UNCHANGED <<records, outside>>
             /\ pc'[r] # "notify"
  BY <1>1 DEF UpdateRead, Route
<1>. QED
  BY <1>1 DEF Reads, DeleteRead, CleanupRead, ReleaseRead, CancelEventRead,
              ConcludeEventRead, StatusEventRead, CancelFailedRead

(* What iFood accepted and what is true of its orders stays so.            *)
LEMMA FactsGrow ==
  ASSUME TypeInv, [Next]_vars
  PROVE  \A d \in Delivery : notified[d] \subseteq notified'[d]
                               /\ ifood[d] \subseteq ifood'[d]
<1>. USE DEF TypeInv, TypeOK
<1>1. CASE UNCHANGED vars \/ Quiet
  BY <1>1 DEF vars, outside, Quiet
<1>2. ASSUME NEW d \in Delivery, IfoodActs(d)
      PROVE  \A e \in Delivery : notified[e] \subseteq notified'[e]
                                   /\ ifood[e] \subseteq ifood'[e]
  BY <1>2 DEF IfoodActs, IfoodAsksForCode, IfoodCloses
<1>3. ASSUME NEW r \in Request, NEW d \in Delivery, Reads(r, d)
      PROVE  UNCHANGED outside
  BY <1>3, BeginSteps
<1>4. ASSUME NEW r \in Request, Interrupt(r)
      PROVE  UNCHANGED outside
  BY <1>4 DEF Interrupt
<1>5. ASSUME NEW r \in Request, Advance(r)
      PROVE  \A e \in Delivery : notified[e] \subseteq notified'[e]
                                   /\ ifood[e] \subseteq ifood'[e]
  <2>1. CASE Notify(r)
    BY <2>1 DEF Notify
  <2>2. CASE SyncCancel(r) \/ AskCancel(r)
    BY <2>2 DEF SyncCancel, AskCancel, IfoodAcceptsCancel
  <2>3. CASE ConfirmFinish(r)
    BY <2>3 DEF ConfirmFinish, VerifyCode, RefusesAsEnded
  <2>4. CASE UNCHANGED outside
    BY <2>4 DEF outside
  <2>. QED
    BY <1>5, <2>1, <2>2, <2>3, <2>4
       DEF Advance, CountQuota, DecideDestination, Claim, SyncNothing,
           SyncProgress, SyncFinish, CheckCanceled, MergeCurrent, WriteUpdate,
           SaveFlags, AskRefund, QueryOrder, Remove, Finish, Stamp, Release
<1>. QED
  BY <1>1, <1>2, <1>3, <1>4, <1>5, NextCases DEF outside

-----------------------------------------------------------------------------
(* Flags are true in every copy a handler holds, and those it has gathered *)
(* are true too: so whichever it writes back stays true.  The first notice *)
(* has been accepted before the second is sent.                            *)
TrueCopy(r) ==
  /\ task[r].copy.flags \subseteq notified[task[r].delivery]
  /\ task[r].gained \subseteq notified[task[r].delivery]

InOrder(r) ==
  "goingToOrigin" \in task[r].todo =>
    "assignDriver" \in task[r].todo \cup notified[task[r].delivery]

FlagInv ==
  /\ FlagsAreNotified
  /\ OriginAfterAssign
  /\ \A r \in Request : pc[r] \in InFlight => TrueCopy(r)
  /\ \A r \in Request : pc[r] = "notify" => InOrder(r)

(* A delivery begins with flags that are true.                             *)
TrueStart ==
  \A s \in Start :
    /\ s.document.flags \subseteq s.notified
    /\ "goingToOrigin" \in s.notified => "assignDriver" \in s.notified

(* The invariant after a step of handler r, from what the step does to the *)
(* documents, the notices and its locals.                                  *)
LEMMA FlagStep ==
  ASSUME TypeInv, FlagInv, TypeOK', NEW r \in Request, OthersKept(r),
         [Next]_vars, FlagsAreNotified', OriginAfterAssign',
         pc'[r] \in InFlight => TrueCopy(r)',
         pc'[r] = "notify" => InOrder(r)'
  PROVE  FlagInv'
<1>1. \A d \in Delivery : notified[d] \subseteq notified'[d]
  BY FactsGrow
<1>2. ASSUME NEW q \in Request, q # r, pc'[q] \in InFlight
      PROVE  TrueCopy(q)'
  <2>1. pc'[q] = pc[q] /\ task'[q] = task[q]
    BY <1>2 DEF OthersKept
  <2>2. task[q].delivery \in Delivery /\ TrueCopy(q)
    BY <1>2, <2>1, TasksAreReal DEF TypeInv, FlagInv
  <2>. QED
    BY <1>1, <2>1, <2>2 DEF TrueCopy
<1>3. ASSUME NEW q \in Request, q # r, pc'[q] = "notify"
      PROVE  InOrder(q)'
  <2>1. pc'[q] = pc[q] /\ task'[q] = task[q]
    BY <1>3 DEF OthersKept
  <2>2. task[q].delivery \in Delivery /\ InOrder(q)
    BY <1>3, <2>1, TasksAreReal DEF TypeInv, FlagInv, InFlight
  <2>. QED
    BY <1>1, <2>1, <2>2 DEF InOrder
<1>. QED
  BY <1>2, <1>3 DEF FlagInv

(* What Save leaves in a document: true flags, if those of the image are.  *)
LEMMA SaveKeepsFlags ==
  ASSUME TypeInv, FlagsAreNotified, NEW d \in Delivery, NEW image \in Document,
         Save(d, image), image.bare \/ image.flags \subseteq notified[d],
         UNCHANGED notified
  PROVE  FlagsAreNotified'
BY DEF TypeInv, TypeOK, FlagsAreNotified, Save

(* The steps that leave the documents and the notices alone, and the       *)
(* copies and the flags that a handler holds.                              *)
LEMMA FlagQuietStep ==
  ASSUME TypeInv, FlagInv, TypeOK', [Next]_vars, NEW r \in Request,
         pc[r] \in InFlight, UNCHANGED <<delivery, notified>>,
         OthersKept(r), pc'[r] # "notify",
         pc'[r] \in InFlight =>
           /\ task'[r].delivery = task[r].delivery
           /\ task'[r].copy = task[r].copy
           /\ task'[r].gained \subseteq task[r].gained \cup task[r].copy.flags
  PROVE  FlagInv'
<1>1. FlagsAreNotified' /\ OriginAfterAssign'
  BY DEF FlagInv, FlagsAreNotified, OriginAfterAssign
<1>2. pc'[r] \in InFlight => TrueCopy(r)'
  BY DEF FlagInv, TrueCopy
<1>. QED
  BY <1>1, <1>2, FlagStep

(* The steps that write a document.                                        *)
LEMMA FlagWriteStep ==
  ASSUME TypeInv, FlagInv, TypeOK', [Next]_vars, NEW r \in Request,
         pc[r] \in InFlight, UNCHANGED notified, FlagsAreNotified',
         OthersKept(r), pc'[r] # "notify",
         pc'[r] \in InFlight => task'[r] = task[r]
  PROVE  FlagInv'
<1>1. OriginAfterAssign'
  BY DEF FlagInv, OriginAfterAssign
<1>2. pc'[r] \in InFlight => TrueCopy(r)'
  BY DEF FlagInv, TrueCopy
<1>. QED
  BY <1>1, <1>2, FlagStep

LEMMA FlagAdvance ==
  ASSUME TypeInv, FlagInv, TypeOK', [Next]_vars, NEW r \in Request, Advance(r)
  PROVE  FlagInv'
<1>1. TypeOK /\ pc[r] \in InFlight
  BY AdvancesAreInFlight DEF TypeInv
<1>2. /\ task[r] \in Task
      /\ task[r].delivery \in Delivery
      /\ task[r].copy \in Document
  BY <1>1, TasksAreReal
<1>3. TrueCopy(r) /\ FlagsAreNotified
  BY <1>1 DEF FlagInv
<1>4. /\ End(r) => OthersKept(r) /\ pc'[r] = "ended"
      /\ \A next : Goto(r, next) =>
           OthersKept(r) /\ pc'[r] = next /\ task'[r] = task[r]
      /\ \A t, next : Continue(r, t, next) =>
           OthersKept(r) /\ pc'[r] = next /\ task'[r] = t
      /\ \A t : Proceed(r, t) =>
           /\ OthersKept(r)
           /\ \/ pc'[r] = "ended"
              \/ pc'[r] = "merge" /\ ~SwallowsErrors(t) /\ task'[r] = t
              \/ pc'[r] = "saveFlags" /\ task'[r] = t
  BY <1>1, LocalSteps
<1>5. "ended" \notin InFlight
  BY DEF InFlight
<1>6. CASE \/ CountQuota(r) \/ SyncNothing(r) \/ SyncCancel(r) \/ SyncFinish(r)
           \/ CheckCanceled(r) \/ ConfirmFinish(r) \/ AskRefund(r)
           \/ AskCancel(r) \/ QueryOrder(r)
  <2>1. UNCHANGED <<delivery, notified>>
    BY <1>6 DEF CountQuota, SyncNothing, SyncCancel, SyncFinish, CheckCanceled,
                ConfirmFinish, AskRefund, AskCancel, QueryOrder, records, outside
  <2>2. /\ OthersKept(r)
        /\ pc'[r] # "notify"
        /\ pc'[r] \in InFlight => task'[r] = task[r]
    BY <1>4, <1>5, <1>6
       DEF CountQuota, SyncNothing, SyncCancel, SyncFinish, CheckCanceled,
           ConfirmFinish, VerifyCode, RefusesAsEnded, AskRefund, AskCancel, QueryOrder, Route
  <2>. QED
    BY <1>1, <2>1, <2>2, FlagQuietStep
<1>7. CASE DecideDestination(r)
  <2>1. /\ OthersKept(r) /\ pc'[r] = "sync"
        /\ \/ task'[r] = task[r]
           \/ task'[r] = [task[r] EXCEPT !.dto.status = "AWAITING_CODE"]
    BY <1>4, <1>7 DEF DecideDestination
  <2>2. /\ task'[r].delivery = task[r].delivery
        /\ task'[r].copy = task[r].copy
        /\ task'[r].gained = task[r].gained
    BY <1>2, <2>1 DEF Task
  <2>. QED
    BY <1>1, <1>7, <2>1, <2>2, FlagQuietStep DEF DecideDestination, records, outside
<1>8. CASE SyncProgress(r)
  <2> DEFINE kept == IF NextStatus(task[r]) \in AtDestination
                     THEN task[r].copy.flags \cap {"arrivedAtDestination"} ELSE {}
             planned == [task[r] EXCEPT !.todo = Plan(task[r]), !.gained = kept]
  <2>1. /\ planned.delivery = task[r].delivery
        /\ planned.copy = task[r].copy
        /\ planned.gained \subseteq task[r].copy.flags
        /\ planned.todo = Plan(task[r])
    BY <1>2 DEF Task
  <2>2. CASE Proceed(r, planned)
    <3>1. /\ OthersKept(r)
          /\ pc'[r] # "notify"
          /\ pc'[r] \in InFlight => task'[r] = planned
      BY <1>4, <1>5, <2>2
    <3>. QED
      BY <1>1, <1>8, <2>1, <3>1, FlagQuietStep DEF SyncProgress, records, outside
  <2>3. CASE Continue(r, planned, "notify")
    <3>1. OthersKept(r) /\ pc'[r] = "notify" /\ task'[r] = planned
      BY <1>4, <2>3
    <3>2. UNCHANGED <<delivery, notified>>
      BY <1>8 DEF SyncProgress, records, outside
    <3>3. TrueCopy(r)'
      BY <1>3, <2>1, <3>1, <3>2 DEF TrueCopy
    <3>4. "goingToOrigin" \in Plan(task[r])
            => "assignDriver" \in Plan(task[r]) \cup task[r].copy.flags
      BY DEF Plan
    <3>5. InOrder(r)'
      BY <1>3, <2>1, <3>1, <3>2, <3>4 DEF InOrder, TrueCopy
    <3>6. FlagsAreNotified' /\ OriginAfterAssign'
      BY <3>2 DEF FlagInv, FlagsAreNotified, OriginAfterAssign
    <3>. QED
      BY <3>1, <3>3, <3>5, <3>6, FlagStep
  <2>. QED
    BY <1>8, <2>2, <2>3 DEF SyncProgress
<1>9. CASE Notify(r)
  <2>1. PICK n \in task[r].todo :
          LET sent == [task[r] EXCEPT !.todo = @ \ {n}, !.gained = @ \cup {n}] IN
          /\ \A m \in task[r].todo : ~Precedes(m, n)
          /\ \/ /\ notified' = [notified EXCEPT ![task[r].delivery] = @ \cup {n}]
                /\ Proceed(r, sent) \/ Continue(r, sent, "notify")
             \/ /\ notified' \in {notified,
                                  [notified EXCEPT ![task[r].delivery] = @ \cup {n}]}
                /\ End(r)
    BY <1>9 DEF Notify
  <2> DEFINE sent == [task[r] EXCEPT !.todo = @ \ {n}, !.gained = @ \cup {n}]
  <2>2. /\ sent.delivery = task[r].delivery
        /\ sent.copy = task[r].copy
        /\ sent.gained = task[r].gained \cup {n}
        /\ sent.todo = task[r].todo \ {n}
    BY <1>2 DEF Task
  <2>3. InOrder(r) /\ OriginAfterAssign
    BY <1>9 DEF FlagInv, Notify
  <2>4. n = "goingToOrigin" => "assignDriver" \in notified[task[r].delivery]
    BY <2>1, <2>3 DEF InOrder, Precedes
  <2>5. notified \in [Delivery -> SUBSET Notice]
    BY <1>1 DEF TypeOK
  <2>6. OriginAfterAssign'
    BY <1>2, <2>1, <2>3, <2>4, <2>5 DEF OriginAfterAssign
  <2>7. FlagsAreNotified'
    BY <1>2, <1>3, <1>9, <2>1, <2>5 DEF FlagsAreNotified, Notify, records
  <2>8. CASE End(r)
    <3>1. OthersKept(r) /\ pc'[r] = "ended"
      BY <1>4, <2>8
    <3>. QED
      BY <1>5, <2>6, <2>7, <3>1, FlagStep
  <2>9. CASE /\ notified' = [notified EXCEPT ![task[r].delivery] = @ \cup {n}]
             /\ Proceed(r, sent) \/ Continue(r, sent, "notify")
    <3>1. OthersKept(r) /\ (pc'[r] \in InFlight => task'[r] = sent)
      BY <1>4, <1>5, <2>9
    <3>2. notified'[task[r].delivery] = notified[task[r].delivery] \cup {n}
      BY <1>2, <2>5, <2>9
    <3>3. pc'[r] \in InFlight => TrueCopy(r)'
      BY <1>3, <2>2, <3>1, <3>2 DEF TrueCopy
    <3>4. pc'[r] = "notify" => InOrder(r)'
      BY <2>2, <2>3, <3>1, <3>2 DEF InOrder, InFlight
    <3>. QED
      BY <2>6, <2>7, <3>1, <3>3, <3>4, FlagStep
  <2>. QED
    BY <2>1, <2>8, <2>9
<1>10. CASE MergeCurrent(r)
  <2> DEFINE base == IF task[r].copy.bare THEN delivery[task[r].delivery].flags
                     ELSE task[r].copy.flags
             merged == [task[r] EXCEPT !.gained = base \cup @]
  <2>1. OthersKept(r) /\ pc'[r] = "write" /\ task'[r] = merged
    BY <1>4, <1>10 DEF MergeCurrent
  <2>2. /\ merged.delivery = task[r].delivery
        /\ merged.copy = task[r].copy
        /\ merged.gained = base \cup task[r].gained
    BY <1>2 DEF Task
  <2>3. UNCHANGED <<delivery, notified>>
    BY <1>10 DEF MergeCurrent, records, outside
  <2>4. base \subseteq notified[task[r].delivery]
    BY <1>2, <1>3 DEF FlagsAreNotified, TrueCopy
  <2>5. TrueCopy(r)'
    BY <1>3, <2>1, <2>2, <2>3, <2>4 DEF TrueCopy
  <2>6. FlagsAreNotified' /\ OriginAfterAssign'
    BY <2>3 DEF FlagInv, FlagsAreNotified, OriginAfterAssign
  <2>. QED
    BY <2>1, <2>5, <2>6, FlagStep
<1>11. CASE SaveFlags(r)
  <2>1. delivery' = [delivery EXCEPT ![task[r].delivery].flags = @ \cup task[r].gained]
    BY <1>11 DEF SaveFlags
  <2>2. delivery \in [Delivery -> Document]
    BY <1>1 DEF TypeOK
  <2>3. \A d \in Delivery :
          delivery'[d].flags = IF d = task[r].delivery
                               THEN delivery[d].flags \cup task[r].gained
                               ELSE delivery[d].flags
    BY <1>2, <2>1, <2>2 DEF Document
  <2>4. UNCHANGED notified
    BY <1>11 DEF SaveFlags, outside
  <2>5. FlagsAreNotified'
    BY <1>2, <1>3, <2>3, <2>4 DEF FlagsAreNotified, TrueCopy
  <2>. QED
    BY <1>1, <1>4, <1>5, <1>11, <2>4, <2>5, FlagWriteStep DEF SaveFlags
<1>12. ASSUME NEW image \in Document, Save(task[r].delivery, image),
              image.bare \/ image.flags \subseteq notified[task[r].delivery],
              UNCHANGED notified, OthersKept(r), pc'[r] # "notify",
              pc'[r] \in InFlight => task'[r] = task[r]
       PROVE  FlagInv'
  <2>1. FlagsAreNotified'
    BY <1>2, <1>3, <1>12, SaveKeepsFlags
  <2>. QED
    BY <1>1, <1>12, <2>1, FlagWriteStep
<1>13. /\ \A doc \in Document, status \in Status, m \in User \cup {None},
             f \in SUBSET Notice :
            /\ Persistable(doc, status, m, f) \in Document
            /\ Persistable(doc, status, m, f).flags = f
       /\ \A status \in Status, a \in BOOLEAN :
            /\ Closed(task[r].copy, status, a) \in Document
            /\ Closed(task[r].copy, status, a).flags = task[r].copy.flags
       /\ Changed(task[r]) \in Document
       /\ Chosen(task[r]) \in User \cup {None}
  BY <1>2, ImagesAreDocuments DEF Persistable, Closed
<1>14. /\ task[r].copy.flags \in SUBSET Notice
       /\ task[r].gained \in SUBSET Notice
       /\ task[r].copy.flags \subseteq notified[task[r].delivery]
       /\ task[r].gained \subseteq notified[task[r].delivery]
       /\ task[r].copy.status \in Status
       /\ task[r].copy.motoboy \in User \cup {None}
       /\ task[r].copy.active \in BOOLEAN
       /\ Changed(task[r]).status \in Status
       /\ Changed(task[r]).motoboy \in User \cup {None}
       /\ task[r].dto.motoboy \in User \cup {None}
       /\ {"ONCOURSE", "PENDING", "CANCELED", "FINISHED"} \subseteq Status
  BY <1>2, <1>3, <1>13 DEF TrueCopy, Document, Task, Body, Status, InProgress
<1>15. ASSUME NEW doc \in Document, NEW status \in Status,
              NEW m \in User \cup {None}, NEW f \in SUBSET Notice,
              f \subseteq notified[task[r].delivery],
              Save(task[r].delivery, Persistable(doc, status, m, f)),
              UNCHANGED notified, OthersKept(r), pc'[r] # "notify",
              pc'[r] \in InFlight => task'[r] = task[r]
       PROVE  FlagInv'
  BY <1>12, <1>13, <1>15
<1>16. ASSUME NEW status \in Status, NEW a \in BOOLEAN,
              Save(task[r].delivery, Closed(task[r].copy, status, a)),
              UNCHANGED notified, OthersKept(r), pc'[r] # "notify",
              pc'[r] \in InFlight => task'[r] = task[r]
       PROVE  FlagInv'
  BY <1>12, <1>13, <1>14, <1>16
<1>17. CASE Claim(r)
  <2>1. CASE End(r) /\ UNCHANGED records
    BY <1>1, <1>4, <1>5, <1>17, <2>1, FlagQuietStep DEF Claim, records, outside
  <2>2. CASE /\ Save(task[r].delivery,
                     Persistable(Changed(task[r]), "ONCOURSE", Chosen(task[r]),
                                 task[r].copy.flags))
             /\ Goto(r, "sync")
    <3>1. OthersKept(r) /\ pc'[r] = "sync" /\ task'[r] = task[r] /\ UNCHANGED notified
      BY <1>4, <1>17, <2>2 DEF Claim, outside
    <3>. QED
      BY <1>13, <1>14, <1>15, <2>2, <3>1
  <2>. QED
    BY <1>17, <2>1, <2>2 DEF Claim
<1>18. ASSUME \/ WriteUpdate(r) \/ Remove(r) \/ Finish(r) \/ Stamp(r) \/ Release(r)
       PROVE  /\ OthersKept(r) /\ pc'[r] # "notify" /\ UNCHANGED notified
              /\ pc'[r] \in InFlight => task'[r] = task[r]
  <2>1. UNCHANGED notified
    BY <1>18 DEF WriteUpdate, Remove, Finish, Stamp, Release, outside
  <2>2. End(r) \/ Goto(r, "refund") \/ Goto(r, "sync")
    BY <1>18 DEF WriteUpdate, Remove, Finish, Stamp, Release
  <2>. QED
    BY <1>4, <1>5, <2>1, <2>2
<1>19. CASE WriteUpdate(r)
  BY <1>13, <1>14, <1>15, <1>18, <1>19 DEF WriteUpdate
<1>20. CASE Remove(r)
  BY <1>14, <1>16, <1>18, <1>20 DEF Remove
<1>21. CASE Finish(r)
  BY <1>14, <1>16, <1>18, <1>21 DEF Finish
<1>22. CASE Stamp(r)
  BY <1>2, <1>14, <1>15, <1>18, <1>22 DEF Stamp
<1>23. CASE Release(r)
  <2>1. (IF task[r].dto.motoboy = None THEN "PENDING" ELSE "ONCOURSE") \in Status
    BY <1>14
  <2>. QED
    BY <1>2, <1>14, <1>15, <1>18, <1>23, <2>1 DEF Release
<1>. QED
  BY <1>6, <1>7, <1>8, <1>9, <1>10, <1>11, <1>17, <1>19, <1>20, <1>21, <1>22,
     <1>23 DEF Advance

LEMMA FlagInvariant ==
  ASSUME TrueStart
  PROVE  Spec => []FlagInv
<1>1. Init => FlagInv
  BY DEF Init, TrueStart, FlagInv, FlagsAreNotified, OriginAfterAssign, InFlight
<1>2. TypeInv /\ TypeInv' /\ FlagInv /\ [Next]_vars => FlagInv'
  <2> SUFFICES ASSUME TypeInv, TypeInv', FlagInv, [Next]_vars
               PROVE  FlagInv'
    OBVIOUS
  <2>1. TypeOK /\ TypeOK'
    BY DEF TypeInv
  <2>2. CASE UNCHANGED <<delivery, notified, task, pc>>
    BY <2>2 DEF FlagInv, FlagsAreNotified, OriginAfterAssign, TrueCopy, InOrder
  <2>3. ASSUME NEW d \in Delivery, IfoodActs(d)
        PROVE  FlagInv'
    BY <2>2, <2>3 DEF IfoodActs, IfoodAsksForCode, IfoodCloses, records
  <2>4. ASSUME NEW r \in Request, NEW d \in Delivery, Reads(r, d)
        PROVE  FlagInv'
    <3>1. /\ OthersKept(r) /\ task'[r].delivery = d
          /\ task'[r].copy = delivery[d] /\ task'[r].gained = {}
          /\ UNCHANGED <<delivery, notified>> /\ pc'[r] # "notify"
      BY <2>1, <2>4, BeginSteps DEF records, outside
    <3>2. FlagsAreNotified' /\ OriginAfterAssign'
      BY <3>1 DEF FlagInv, FlagsAreNotified, OriginAfterAssign
    <3>3. TrueCopy(r)'
      BY <3>1 DEF TrueCopy, FlagInv, FlagsAreNotified
    <3>. QED
      BY <2>1, <3>1, <3>2, <3>3, FlagStep
  <2>5. ASSUME NEW r \in Request, Advance(r)
        PROVE  FlagInv'
    BY <2>1, <2>5, FlagAdvance
  <2>6. ASSUME NEW r \in Request, Interrupt(r)
        PROVE  FlagInv'
    <3>1. OthersKept(r) /\ pc'[r] = "ended"
      BY <2>1, <2>6, LocalSteps DEF Interrupt
    <3>. QED
      BY <2>1, <2>6, <3>1, FlagQuietStep DEF Interrupt, InFlight, records, outside
  <2>. QED
    BY <2>2, <2>3, <2>4, <2>5, <2>6, NextCases
       DEF Quiet, vars, records, outside
<1>. QED
  BY <1>1, <1>2, TypeInvariant, PTL DEF Spec

(* A flag ifood...Synced is never ahead of iFood: no failure, death or     *)
(* save of an old copy makes a later status skip a notification that iFood *)
(* never accepted.                                                         *)
THEOREM FlagsNeverAhead ==
  ASSUME TrueStart
  PROVE  Spec => []FlagsAreNotified
<1>1. FlagInv => FlagsAreNotified
  BY DEF FlagInv
<1>. QED
  BY <1>1, FlagInvariant, PTL

(* iFood never hears of a driver on the way before it hears who drives,    *)
(* whichever handlers send the two notices.                                *)
THEOREM DriverKnownFirst ==
  ASSUME TrueStart
  PROVE  Spec => []OriginAfterAssign
<1>1. FlagInv => OriginAfterAssign
  BY DEF FlagInv
<1>. QED
  BY <1>1, FlagInvariant, PTL

-----------------------------------------------------------------------------
(* What closes a delivery is confirmed by iFood in every copy and in every *)
(* decision that a handler is about to write.                              *)
Confirm(facts) ==
  facts \cap {"codeVerified", "refusedAsEnded", "concluded", "cancelled"} # {}
Justify(facts) == facts \cap {"cancelAccepted", "concluded", "cancelled"} # {}
Confirmed(d) == Confirm(ifood[d])
Justified(d) == Justify(ifood[d])

ConfirmedDoc(doc, d) ==
  /\ doc.status = "FINISHED" => Confirmed(d)
  /\ ~doc.active => Justified(d)

ConfirmedTask(r) ==
  LET t == task[r]  d == t.delivery IN
  d \in Linked =>
    /\ ConfirmedDoc(t.copy, d)
    /\ pc[r] \in {"merge", "write"} /\ Changed(t).status = "FINISHED" => Confirmed(d)
    /\ pc[r] = "notify" /\ ~SwallowsErrors(t) => Changed(t).status # "FINISHED"
    /\ pc[r] = "finish" => Confirmed(d)
    /\ pc[r] = "remove" => Justified(d)

ClosedInv ==
  /\ \A d \in Linked : ConfirmedDoc(delivery[d], d)
  /\ \A r \in Request : pc[r] \in InFlight => ConfirmedTask(r)
  /\ \A r \in Request : pc[r] = "count" => ~task[r].dto.noteOnly

(* A delivery begins closed only if iFood confirmed it.                    *)
ConfirmedStart ==
  \A s \in Start :
    /\ s.document.status = "FINISHED" => Confirm(s.ifood)
    /\ ~s.document.active => Justify(s.ifood)

(* An update that writes FINISHED was synced as FINISHED.                  *)
LEMMA FinishIsSynced ==
  ASSUME NEW t \in Task, ~SwallowsErrors(t), Changed(t).status = "FINISHED"
  PROVE  NextStatus(t) = "FINISHED"
<1>1. Target(t) = Changed(t) /\ t.op # "RELEASE"
  BY DEF SwallowsErrors, Target
<1>2. t.dto.status # None => Changed(t).status = t.dto.status
  BY DEF Changed
<1>. QED
  BY <1>1, <1>2 DEF NextStatus

LEMMA LinkedIsDelivery == Linked \subseteq Delivery
BY LifecycleAssumption

LEMMA ConfirmationStays ==
  ASSUME TypeInv, [Next]_vars
  PROVE  \A d \in Linked :
           /\ Confirm(ifood[d]) => Confirm(ifood'[d])
           /\ Justify(ifood[d]) => Justify(ifood'[d])
BY FactsGrow, LinkedIsDelivery DEF Confirm, Justify

LEMMA ClosedStep ==
  ASSUME TypeInv, ClosedInv, NEW r \in Request, OthersKept(r), [Next]_vars,
         \A d \in Linked : ConfirmedDoc(delivery[d], d)',
         pc'[r] \in InFlight => ConfirmedTask(r)',
         pc'[r] = "count" => ~task'[r].dto.noteOnly
  PROVE  ClosedInv'
<1>1. ASSUME NEW q \in Request, q # r, pc'[q] \in InFlight
      PROVE  ConfirmedTask(q)'
  <2>1. pc'[q] = pc[q] /\ task'[q] = task[q]
    BY <1>1 DEF OthersKept
  <2>2. ConfirmedTask(q)
    BY <1>1, <2>1 DEF ClosedInv
  <2>4. SUFFICES ASSUME task[q].delivery \in Linked
                 PROVE  ConfirmedTask(q)'
    BY <2>1 DEF ConfirmedTask
  <2>5. /\ Confirm(ifood[task[q].delivery]) => Confirm(ifood'[task[q].delivery])
        /\ Justify(ifood[task[q].delivery]) => Justify(ifood'[task[q].delivery])
    BY <2>4, ConfirmationStays
  <2>. QED
    BY <2>1, <2>2, <2>4, <2>5, Zenon
       DEF ConfirmedTask, ConfirmedDoc, Confirmed, Justified
<1>2. ASSUME NEW q \in Request, q # r, pc'[q] = "count"
      PROVE  ~task'[q].dto.noteOnly
  BY <1>2 DEF OthersKept, ClosedInv
<1>. QED
  BY <1>1, <1>2 DEF ClosedInv

(* A step that leaves the documents alone.                                 *)
LEMMA ClosedQuietStep ==
  ASSUME TypeInv, ClosedInv, NEW r \in Request, OthersKept(r), [Next]_vars,
         UNCHANGED delivery,
         pc'[r] \in InFlight => ConfirmedTask(r)',
         pc'[r] = "count" => ~task'[r].dto.noteOnly
  PROVE  ClosedInv'
<1>1. ASSUME NEW d \in Linked
      PROVE  ConfirmedDoc(delivery[d], d)'
  <2>1. ConfirmedDoc(delivery[d], d)
    BY DEF ClosedInv
  <2>. QED
    BY <2>1, ConfirmationStays DEF ConfirmedDoc, Confirmed, Justified
<1>. QED
  BY <1>1, ClosedStep

(* A step that writes a confirmed image, and then ends or goes on to       *)
(* where nothing is owed.                                                  *)
LEMMA ClosedWriteStep ==
  ASSUME TypeInv, ClosedInv, NEW r \in Request, OthersKept(r), [Next]_vars,
         pc[r] \in InFlight,
         NEW image \in Document, Save(task[r].delivery, image),
         task[r].delivery \in Linked => ConfirmedDoc(image, task[r].delivery),
         pc'[r] \in {"sync", "refund", "ended"},
         pc'[r] # "ended" => task'[r] = task[r]
  PROVE  ClosedInv'
<1>1. task[r].delivery \in Delivery /\ delivery \in [Delivery -> Document]
  BY TasksAreReal DEF TypeInv, TypeOK
<1>2. ASSUME NEW d \in Linked
      PROVE  ConfirmedDoc(delivery[d], d)'
  <2>1. \/ delivery'[d].status = image.status /\ delivery'[d].active = image.active
             /\ d = task[r].delivery
        \/ delivery'[d] = delivery[d]
    BY <1>1, LinkedIsDelivery DEF Save
  <2>2. ConfirmedDoc(delivery[d], d)
    BY DEF ClosedInv
  <2>. QED
    BY <2>1, <2>2, ConfirmationStays DEF ConfirmedDoc, Confirmed, Justified
<1>3. pc'[r] \in InFlight => ConfirmedTask(r)'
  <2>1. ConfirmedTask(r)
    BY DEF ClosedInv
  <2>3. SUFFICES ASSUME task[r].delivery \in Linked, pc'[r] \in {"sync", "refund"}
                 PROVE  ConfirmedTask(r)'
    BY DEF ConfirmedTask, InFlight
  <2>4. /\ Confirm(ifood[task[r].delivery]) => Confirm(ifood'[task[r].delivery])
        /\ Justify(ifood[task[r].delivery]) => Justify(ifood'[task[r].delivery])
    BY <2>3, ConfirmationStays
  <2>5. task'[r] = task[r] /\ pc'[r] \notin {"merge", "write", "notify", "finish", "remove"}
    BY <2>3
  <2>. QED
    BY <2>1, <2>3, <2>4, <2>5
       DEF ConfirmedTask, ConfirmedDoc, Confirmed, Justified
<1>. QED
  BY <1>2, <1>3, ClosedStep

(* A step to a round trip that owes no more than a confirmed copy, and one *)
(* to a round trip that owes what it has just learnt.                      *)
LEMMA ClosedTravelStep ==
  ASSUME TypeInv, ClosedInv, NEW r \in Request, OthersKept(r), [Next]_vars,
         pc[r] \in InFlight, UNCHANGED delivery, pc'[r] # "count",
         pc'[r] \in InFlight =>
           /\ task'[r].delivery = task[r].delivery
           /\ task'[r].copy = task[r].copy,
         task[r].delivery \in Linked =>
           /\ pc'[r] \in {"merge", "write"} /\ Changed(task'[r]).status = "FINISHED"
                => Confirm(ifood'[task[r].delivery])
           /\ pc'[r] = "notify" /\ ~SwallowsErrors(task'[r])
                => Changed(task'[r]).status # "FINISHED"
           /\ pc'[r] = "finish" => Confirm(ifood'[task[r].delivery])
           /\ pc'[r] = "remove" => Justify(ifood'[task[r].delivery])
  PROVE  ClosedInv'
<1>1. ASSUME pc'[r] \in InFlight
      PROVE  ConfirmedTask(r)'
  <2>1. SUFFICES ASSUME task[r].delivery \in Linked
                 PROVE  ConfirmedTask(r)'
    BY <1>1 DEF ConfirmedTask
  <2>2. ConfirmedDoc(task[r].copy, task[r].delivery)
    BY <2>1 DEF ClosedInv, ConfirmedTask
  <2>3. /\ Confirm(ifood[task[r].delivery]) => Confirm(ifood'[task[r].delivery])
        /\ Justify(ifood[task[r].delivery]) => Justify(ifood'[task[r].delivery])
    BY <2>1, ConfirmationStays
  <2>. QED
    BY <1>1, <2>1, <2>2, <2>3
       DEF ConfirmedTask, ConfirmedDoc, Confirmed, Justified
<1>. QED
  BY <1>1, ClosedQuietStep

(* The step that ends a synchronisation owes the confirmation of what the  *)
(* update is about to write.                                               *)
LEMMA ClosedProceedStep ==
  ASSUME TypeInv, ClosedInv, NEW r \in Request, [Next]_vars,
         pc[r] \in InFlight, UNCHANGED delivery,
         NEW t \in Task, t.delivery = task[r].delivery, t.copy = task[r].copy,
         Proceed(r, t),
         t.delivery \in Linked /\ ~SwallowsErrors(t) /\ Changed(t).status = "FINISHED"
           => Confirm(ifood'[t.delivery])
  PROVE  ClosedInv'
<1>1. /\ OthersKept(r)
      /\ \/ pc'[r] = "ended"
         \/ pc'[r] = "merge" /\ ~SwallowsErrors(t) /\ task'[r] = t
         \/ pc'[r] = "saveFlags" /\ task'[r] = t
  BY LocalSteps DEF TypeInv
<1>2. /\ pc'[r] \notin {"count", "write", "notify", "finish", "remove"}
      /\ pc'[r] \in InFlight => task'[r] = t
      /\ pc'[r] = "merge" => ~SwallowsErrors(t)
  BY <1>1 DEF InFlight
<1>3. pc'[r] = "merge" => pc'[r] \in InFlight
  BY DEF InFlight
<1>. QED
  BY <1>1, <1>2, <1>3, ClosedTravelStep

LEMMA ClosedAdvance ==
  ASSUME TypeInv, ClosedInv, [Next]_vars, NEW r \in Request, Advance(r)
  PROVE  ClosedInv'
<1>1. TypeOK /\ pc[r] \in InFlight
  BY AdvancesAreInFlight DEF TypeInv
<1>2. /\ task[r] \in Task
      /\ task[r].delivery \in Delivery
      /\ task[r].copy \in Document
  BY <1>1, TasksAreReal
<1>3. /\ End(r) => OthersKept(r) /\ pc'[r] = "ended"
      /\ \A next : Goto(r, next) =>
           OthersKept(r) /\ pc'[r] = next /\ task'[r] = task[r]
      /\ \A t, next : Continue(r, t, next) =>
           OthersKept(r) /\ pc'[r] = next /\ task'[r] = t
  BY <1>1, LocalSteps
<1>4. "ended" \notin InFlight
  BY DEF InFlight
<1>5. ASSUME OthersKept(r), UNCHANGED delivery,
             pc'[r] \notin {"count", "merge", "write", "notify", "finish", "remove"},
             pc'[r] \in InFlight =>
               /\ task'[r].delivery = task[r].delivery
               /\ task'[r].copy = task[r].copy
      PROVE  ClosedInv'
  BY <1>1, <1>5, ClosedTravelStep
<1>6. ASSUME End(r), UNCHANGED delivery
      PROVE  ClosedInv'
  BY <1>3, <1>4, <1>5, <1>6
<1>7. ASSUME NEW next \in {"decide", "claim", "sync", "check", "confirm", "refund"},
             Goto(r, next), UNCHANGED delivery
      PROVE  ClosedInv'
  BY <1>3, <1>5, <1>7
<1>8. CASE CountQuota(r)
  <2>1. ~task[r].dto.noteOnly
    BY <1>8 DEF ClosedInv, CountQuota
  <2>2. Route(task[r].dto, task[r].copy) \in {"decide", "claim", "sync"}
    BY <2>1 DEF Route
  <2>. QED
    BY <1>6, <1>7, <1>8, <2>2 DEF CountQuota, records
<1>9. CASE DecideDestination(r)
  <2>1. /\ OthersKept(r) /\ pc'[r] = "sync"
        /\ \/ task'[r] = task[r]
           \/ task'[r] = [task[r] EXCEPT !.dto.status = "AWAITING_CODE"]
    BY <1>3, <1>9 DEF DecideDestination
  <2>2. /\ task'[r].delivery = task[r].delivery
        /\ task'[r].copy = task[r].copy
    BY <1>2, <2>1 DEF Task
  <2>. QED
    BY <1>5, <1>9, <2>1, <2>2 DEF DecideDestination, records
<1>10. CASE SyncNothing(r)
  <2>1. Proceed(r, task[r]) /\ UNCHANGED delivery
    BY <1>10 DEF SyncNothing, records
  <2>2. ASSUME task[r].delivery \in Linked, ~SwallowsErrors(task[r]),
               Changed(task[r]).status = "FINISHED"
        PROVE  Confirm(ifood'[task[r].delivery])
    <3>1. NextStatus(task[r]) = "FINISHED"
      BY <1>2, <2>2, FinishIsSynced
    <3>2. task[r].copy.status = "FINISHED"
      BY <1>10, <2>2, <3>1 DEF SyncNothing, NeedsSync, InProgress
    <3>3. Confirm(ifood[task[r].delivery])
      BY <1>1, <2>2, <3>2 DEF ClosedInv, ConfirmedTask, ConfirmedDoc, Confirmed
    <3>. QED
      BY <2>2, <3>3, ConfirmationStays
  <2>. QED
    BY <1>1, <1>2, <2>1, <2>2, ClosedProceedStep
<1>11. CASE SyncProgress(r)
  <2> DEFINE kept == IF NextStatus(task[r]) \in AtDestination
                     THEN task[r].copy.flags \cap {"arrivedAtDestination"} ELSE {}
             planned == [task[r] EXCEPT !.todo = Plan(task[r]), !.gained = kept]
  <2>1. /\ planned.delivery = task[r].delivery
        /\ planned.copy = task[r].copy
        /\ planned.dto = task[r].dto
        /\ planned.user = task[r].user
        /\ planned.op = task[r].op
        /\ planned \in Task
    BY <1>2 DEF Task, Document, Plan, Notice
  <2>2. /\ Changed(planned) = Changed(task[r])
        /\ SwallowsErrors(planned) <=> SwallowsErrors(task[r])
    <3>1. Chosen(planned) = Chosen(task[r])
      BY <2>1 DEF Chosen
    <3>2. Changed(planned) = Changed(task[r])
      BY <2>1, <3>1 DEF Changed
    <3>. QED
      BY <2>1, <3>2 DEF SwallowsErrors
  <2>3. ~SwallowsErrors(task[r]) => Changed(task[r]).status # "FINISHED"
    BY <1>2, <1>11, FinishIsSynced DEF SyncProgress, InProgress
  <2>4. UNCHANGED delivery
    BY <1>11 DEF SyncProgress, records
  <2>5. CASE Proceed(r, planned)
    BY <1>1, <2>1, <2>2, <2>3, <2>4, <2>5, ClosedProceedStep
  <2>6. CASE Continue(r, planned, "notify")
    <3>1. OthersKept(r) /\ pc'[r] = "notify" /\ task'[r] = planned
      BY <1>3, <2>6
    <3>. QED
      BY <1>1, <2>1, <2>2, <2>3, <2>4, <3>1, ClosedTravelStep
  <2>. QED
    BY <1>11, <2>5, <2>6 DEF SyncProgress
<1>12. CASE Notify(r)
  <2>1. PICK n \in task[r].todo :
          LET sent == [task[r] EXCEPT !.todo = @ \ {n}, !.gained = @ \cup {n}] IN
          Proceed(r, sent) \/ Continue(r, sent, "notify") \/ End(r)
    BY <1>12 DEF Notify
  <2> DEFINE sent == [task[r] EXCEPT !.todo = @ \ {n}, !.gained = @ \cup {n}]
  <2>2. /\ sent.delivery = task[r].delivery
        /\ sent.copy = task[r].copy
        /\ sent.dto = task[r].dto
        /\ sent.user = task[r].user
        /\ sent.op = task[r].op
        /\ sent \in Task
    BY <1>2 DEF Task
  <2>3. /\ Changed(sent) = Changed(task[r])
        /\ SwallowsErrors(sent) <=> SwallowsErrors(task[r])
    <3>1. Chosen(sent) = Chosen(task[r])
      BY <2>2 DEF Chosen
    <3>2. Changed(sent) = Changed(task[r])
      BY <2>2, <3>1 DEF Changed
    <3>. QED
      BY <2>2, <3>2 DEF SwallowsErrors
  <2>4. task[r].delivery \in Linked /\ ~SwallowsErrors(task[r])
          => Changed(task[r]).status # "FINISHED"
    BY <1>1, <1>12 DEF Notify, ClosedInv, ConfirmedTask
  <2>5. UNCHANGED delivery
    BY <1>12 DEF Notify, records
  <2>6. CASE Proceed(r, sent)
    BY <1>1, <2>2, <2>3, <2>4, <2>5, <2>6, ClosedProceedStep
  <2>7. CASE Continue(r, sent, "notify")
    <3>1. OthersKept(r) /\ pc'[r] = "notify" /\ task'[r] = sent
      BY <1>3, <2>7
    <3>. QED
      BY <1>1, <2>2, <2>3, <2>4, <2>5, <3>1, ClosedTravelStep
  <2>. QED
    BY <1>6, <2>1, <2>5, <2>6, <2>7
<1>13. CASE SyncCancel(r)
  <2>1. Proceed(r, task[r]) /\ UNCHANGED delivery
    BY <1>13 DEF SyncCancel, records
  <2>2. ~SwallowsErrors(task[r]) => Changed(task[r]).status # "FINISHED"
    BY <1>2, <1>13, FinishIsSynced DEF SyncCancel
  <2>. QED
    BY <1>1, <1>2, <2>1, <2>2, ClosedProceedStep
<1>14. CASE SyncFinish(r)
  BY <1>6, <1>7, <1>14 DEF SyncFinish, records
<1>15. CASE CheckCanceled(r)
  BY <1>6, <1>7, <1>15 DEF CheckCanceled, records
<1>16. CASE ConfirmFinish(r)
  <2>1. UNCHANGED delivery
    BY <1>16 DEF ConfirmFinish, records
  <2>2. CASE End(r)
    BY <1>6, <2>1, <2>2
  <2>3. CASE /\ Proceed(r, task[r])
             /\ Confirm(ifood'[task[r].delivery])
    BY <1>1, <1>2, <2>1, <2>3, ClosedProceedStep
  <2>4. \/ End(r)
        \/ Proceed(r, task[r]) /\ Confirm(ifood'[task[r].delivery])
    <3>1. ifood \in [Delivery -> SUBSET Fact]
      BY <1>1 DEF TypeOK
    <3>2. CASE "concluded" \in ifood[task[r].delivery] /\ Proceed(r, task[r])
                 /\ UNCHANGED ifood
      BY <3>2 DEF Confirm
    <3>3. CASE VerifyCode(r, task[r])
      BY <1>2, <3>1, <3>3 DEF VerifyCode, RefusesAsEnded, Confirm
    <3>. QED
      BY <1>16, <3>2, <3>3 DEF ConfirmFinish
  <2>. QED
    BY <2>2, <2>3, <2>4
<1>17. CASE MergeCurrent(r)
  <2> DEFINE base == IF task[r].copy.bare THEN delivery[task[r].delivery].flags
                     ELSE task[r].copy.flags
             merged == [task[r] EXCEPT !.gained = base \cup @]
  <2>1. OthersKept(r) /\ pc'[r] = "write" /\ task'[r] = merged
    BY <1>3, <1>17 DEF MergeCurrent
  <2>2. /\ merged.delivery = task[r].delivery
        /\ merged.copy = task[r].copy
        /\ merged.dto = task[r].dto
        /\ merged.user = task[r].user
    BY <1>2 DEF Task
  <2>3. Changed(merged) = Changed(task[r])
    <3>1. Chosen(merged) = Chosen(task[r])
      BY <2>2 DEF Chosen
    <3>. QED
      BY <2>2, <3>1 DEF Changed
  <2>4. task[r].delivery \in Linked /\ Changed(task[r]).status = "FINISHED"
          => Confirm(ifood[task[r].delivery])
    BY <1>1, <1>17 DEF MergeCurrent, ClosedInv, ConfirmedTask, Confirmed
  <2>5. task[r].delivery \in Linked /\ Changed(task[r]).status = "FINISHED"
          => Confirm(ifood'[task[r].delivery])
    BY <2>4, ConfirmationStays
  <2>6. UNCHANGED delivery
    BY <1>17 DEF MergeCurrent, records
  <2>. QED
    BY <1>1, <2>1, <2>2, <2>3, <2>5, <2>6, ClosedTravelStep
<1>18. CASE AskRefund(r)
  BY <1>6, <1>18 DEF AskRefund
<1>19. CASE AskCancel(r)
  <2>1. UNCHANGED delivery
    BY <1>19 DEF AskCancel, records
  <2>2. CASE IfoodAcceptsCancel(task[r].delivery) /\ Goto(r, "remove")
    <3>1. ifood \in [Delivery -> SUBSET Fact]
      BY <1>1 DEF TypeOK
    <3>2. Justify(ifood'[task[r].delivery])
      BY <1>2, <2>2, <3>1 DEF IfoodAcceptsCancel, Justify
    <3>3. OthersKept(r) /\ pc'[r] = "remove" /\ task'[r] = task[r]
      BY <1>3, <2>2
    <3>. QED
      BY <1>1, <2>1, <3>2, <3>3, ClosedTravelStep
  <2>. QED
    BY <1>6, <1>19, <2>1, <2>2 DEF AskCancel
<1>20. CASE QueryOrder(r)
  <2>1. UNCHANGED delivery
    BY <1>20 DEF QueryOrder, records
  <2>2. CASE Terminal(task[r].delivery) /\ Goto(r, "remove")
    <3>1. Justify(ifood[task[r].delivery])
      BY <2>2 DEF Terminal, Justify
    <3>2. task[r].delivery \in Linked => Justify(ifood'[task[r].delivery])
      BY <3>1, ConfirmationStays
    <3>3. OthersKept(r) /\ pc'[r] = "remove" /\ task'[r] = task[r]
      BY <1>3, <2>2
    <3>. QED
      BY <1>1, <2>1, <3>2, <3>3, ClosedTravelStep
  <2>. QED
    BY <1>6, <1>20, <2>1, <2>2 DEF QueryOrder
<1>21. task[r].delivery \in Linked => ConfirmedDoc(task[r].copy, task[r].delivery)
  BY <1>1 DEF ClosedInv, ConfirmedTask
<1>22. ASSUME NEW image \in Document, Save(task[r].delivery, image),
              task[r].delivery \in Linked => ConfirmedDoc(image, task[r].delivery),
              End(r) \/ Goto(r, "refund") \/ Goto(r, "sync")
       PROVE  ClosedInv'
  <2>1. /\ OthersKept(r)
        /\ pc'[r] \in {"sync", "refund", "ended"}
        /\ pc'[r] # "ended" => task'[r] = task[r]
    BY <1>3, <1>22
  <2>. QED
    BY <1>1, <1>22, <2>1, ClosedWriteStep
<1>23. ASSUME NEW doc \in Document, NEW status \in Status,
              NEW m \in User \cup {None}, NEW f \in SUBSET Notice,
              Save(task[r].delivery, Persistable(doc, status, m, f)),
              doc.active = task[r].copy.active,
              task[r].delivery \in Linked /\ status = "FINISHED"
                => Confirmed(task[r].delivery),
              End(r) \/ Goto(r, "refund") \/ Goto(r, "sync")
       PROVE  ClosedInv'
  <2>1. Persistable(doc, status, m, f) \in Document
    BY <1>2, ImagesAreDocuments
  <2>2. task[r].delivery \in Linked
          => ConfirmedDoc(Persistable(doc, status, m, f), task[r].delivery)
    BY <1>21, <1>23 DEF ConfirmedDoc, Persistable
  <2>. QED
    BY <1>22, <1>23, <2>1, <2>2
<1>24. /\ task[r].copy.flags \in SUBSET Notice
       /\ task[r].gained \in SUBSET Notice
       /\ task[r].copy.status \in Status
       /\ task[r].copy.motoboy \in User \cup {None}
       /\ task[r].copy.active \in BOOLEAN
       /\ task[r].dto.motoboy \in User \cup {None}
       /\ {"ONCOURSE", "PENDING", "CANCELED", "FINISHED"} \subseteq Status
  BY <1>2 DEF Document, Task, Body, Status, InProgress
<1>25. /\ Changed(task[r]) \in Document
       /\ Chosen(task[r]) \in User \cup {None}
       /\ Changed(task[r]).status \in Status
       /\ Changed(task[r]).motoboy \in User \cup {None}
       /\ Changed(task[r]).active = task[r].copy.active
  BY <1>2, ImagesAreDocuments DEF Document, Changed
<1>26. CASE Claim(r)
  <2>1. CASE End(r) /\ UNCHANGED records
    BY <1>6, <2>1 DEF records
  <2>2. CASE /\ Save(task[r].delivery,
                     Persistable(Changed(task[r]), "ONCOURSE", Chosen(task[r]),
                                 task[r].copy.flags))
             /\ Goto(r, "sync")
    BY <1>23, <1>24, <1>25, <2>2
  <2>. QED
    BY <1>26, <2>1, <2>2 DEF Claim
<1>27. CASE WriteUpdate(r)
  <2>1. task[r].delivery \in Linked /\ Changed(task[r]).status = "FINISHED"
          => Confirmed(task[r].delivery)
    BY <1>1, <1>27 DEF WriteUpdate, ClosedInv, ConfirmedTask
  <2>2. End(r) \/ Goto(r, "refund")
    BY <1>27 DEF WriteUpdate
  <2>3. Save(task[r].delivery,
             Persistable(Changed(task[r]), Changed(task[r]).status,
                         Changed(task[r]).motoboy, task[r].gained))
    BY <1>27 DEF WriteUpdate
  <2>. QED
    BY <1>23, <1>24, <1>25, <2>1, <2>2, <2>3
<1>28. CASE SaveFlags(r)
  <2>1. delivery \in [Delivery -> Document]
    BY <1>1 DEF TypeOK
  <2>2. \A d \in Delivery : /\ delivery'[d].status = delivery[d].status
                            /\ delivery'[d].active = delivery[d].active
    BY <1>2, <1>28, <2>1 DEF SaveFlags, Document
  <2>3. ASSUME NEW d \in Linked
        PROVE  ConfirmedDoc(delivery[d], d)'
    <3>1. ConfirmedDoc(delivery[d], d)
      BY DEF ClosedInv
    <3>. QED
      BY <2>2, <3>1, ConfirmationStays, LinkedIsDelivery
         DEF ConfirmedDoc, Confirmed, Justified
  <2>4. OthersKept(r) /\ pc'[r] = "ended"
    BY <1>3, <1>28 DEF SaveFlags
  <2>. QED
    BY <1>4, <2>3, <2>4, ClosedStep
<1>29. CASE Remove(r)
  <2>1. task[r].delivery \in Linked => Justified(task[r].delivery)
    BY <1>1, <1>29 DEF Remove, ClosedInv, ConfirmedTask
  <2>2. Closed(task[r].copy, "CANCELED", FALSE) \in Document
    BY <1>2, <1>24, ImagesAreDocuments
  <2>3. task[r].delivery \in Linked
          => ConfirmedDoc(Closed(task[r].copy, "CANCELED", FALSE), task[r].delivery)
    BY <2>1 DEF ConfirmedDoc, Closed
  <2>. QED
    BY <1>22, <1>29, <2>2, <2>3 DEF Remove
<1>30. CASE Finish(r)
  <2>1. task[r].delivery \in Linked => Confirmed(task[r].delivery)
    BY <1>1, <1>30 DEF Finish, ClosedInv, ConfirmedTask
  <2>2. Closed(task[r].copy, "FINISHED", task[r].copy.active) \in Document
    BY <1>2, <1>24, ImagesAreDocuments
  <2>3. task[r].delivery \in Linked
          => ConfirmedDoc(Closed(task[r].copy, "FINISHED", task[r].copy.active),
                          task[r].delivery)
    BY <1>21, <2>1 DEF ConfirmedDoc, Closed
  <2>. QED
    BY <1>22, <1>30, <2>2, <2>3 DEF Finish
<1>31. CASE Stamp(r)
  <2>1. task[r].delivery \in Linked /\ task[r].copy.status = "FINISHED"
          => Confirmed(task[r].delivery)
    BY <1>21 DEF ConfirmedDoc
  <2>. QED
    BY <1>2, <1>23, <1>24, <1>31, <2>1 DEF Stamp
<1>32. CASE Release(r)
  <2> DEFINE status == IF task[r].dto.motoboy = None THEN "PENDING" ELSE "ONCOURSE"
  <2>1. status \in Status /\ status # "FINISHED"
    BY <1>24
  <2>2. End(r) \/ Goto(r, "sync")
    BY <1>32 DEF Release
  <2>3. Save(task[r].delivery,
             Persistable(task[r].copy, status, task[r].dto.motoboy, task[r].copy.flags))
    BY <1>32 DEF Release
  <2>. QED
    BY <1>2, <1>23, <1>24, <2>1, <2>2, <2>3
<1>. QED
  BY <1>8, <1>9, <1>10, <1>11, <1>12, <1>13, <1>14, <1>15, <1>16, <1>17, <1>18,
     <1>19, <1>20, <1>26, <1>27, <1>28, <1>29, <1>30, <1>31, <1>32 DEF Advance

LEMMA ClosedReads ==
  ASSUME TypeInv, ClosedInv, [Next]_vars, NEW r \in Request, NEW d \in Delivery,
         Reads(r, d)
  PROVE  ClosedInv'
<1>1. TypeOK
  BY DEF TypeInv
<1>2. /\ OthersKept(r)
      /\ task'[r].delivery = d
      /\ task'[r].copy = delivery[d]
      /\ UNCHANGED <<delivery, ifood>>
  BY <1>1, BeginSteps DEF records, outside
<1>3. d \in Linked => ConfirmedDoc(delivery[d], d)
  BY DEF ClosedInv
<1>4. ASSUME pc'[r] \in InFlight => pc'[r] \notin {"merge", "write", "notify"},
             d \in Linked /\ pc'[r] = "finish" => Confirm(ifood[d]),
             d \in Linked /\ pc'[r] = "remove" => Justify(ifood[d]),
             pc'[r] = "count" => ~task'[r].dto.noteOnly
      PROVE  ClosedInv'
  <2>1. pc'[r] \in InFlight => ConfirmedTask(r)'
    BY <1>2, <1>3, <1>4
       DEF ConfirmedTask, ConfirmedDoc, Confirmed, Justified
  <2>. QED
    BY <1>2, <1>4, <2>1, ClosedQuietStep
<1>5. ASSUME NEW u \in User, NEW dto \in Dto[u], UpdateRead(r, u, d, dto)
      PROVE  ClosedInv'
  <2>1. dto.noteOnly => dto.status = None /\ dto.motoboy = None
    BY LifecycleAssumption
  <2>2. /\ task'[r].dto = dto
        /\ pc'[r] = IF IsMotoboy(u) /\ dto.motoboy # None
                    THEN "count" ELSE Route(dto, delivery[d])
    BY <1>1, <1>5 DEF UpdateRead, Begin, TypeOK
  <2>3. CASE pc'[r] # "merge"
    BY <1>4, <2>1, <2>2, <2>3 DEF Route
  <2>4. CASE pc'[r] = "merge"
    <3>1. dto.noteOnly
      BY <2>2, <2>4 DEF Route
    <3>2. Changed(task'[r]).status = delivery[d].status
      BY <1>2, <2>1, <2>2, <3>1 DEF Changed
    <3>3. ConfirmedTask(r)'
      BY <1>2, <1>3, <2>4, <3>2
         DEF ConfirmedTask, ConfirmedDoc, Confirmed, Justified
    <3>. QED
      BY <1>2, <2>4, <3>3, ClosedQuietStep
  <2>. QED
    BY <2>3, <2>4
<1>6. ASSUME NEW u \in User, DeleteRead(r, u, d)
      PROVE  ClosedInv'
  <2>1. pc'[r] = IF d \in Linked THEN "askCancel" ELSE "remove"
    BY <1>1, <1>6 DEF DeleteRead, Begin, TypeOK
  <2>. QED
    BY <1>4, <2>1
<1>7. ASSUME \/ \E u \in User : CleanupRead(r, u, d)
             \/ \E u \in User, m \in User \cup {None} : ReleaseRead(r, u, d, m)
             \/ StatusEventRead(r, d)
             \/ CancelFailedRead(r, d)
      PROVE  ClosedInv'
  <2>1. pc'[r] \in {"query", "release", "stamp"}
    BY <1>1, <1>7
       DEF CleanupRead, ReleaseRead, StatusEventRead, CancelFailedRead, Begin, TypeOK
  <2>. QED
    BY <1>4, <2>1
<1>8. CASE CancelEventRead(r, d)
  <2>1. pc'[r] = "remove" /\ Justify(ifood[d])
    BY <1>1, <1>8 DEF CancelEventRead, Begin, TypeOK, Justify
  <2>. QED
    BY <1>4, <2>1
<1>9. CASE ConcludeEventRead(r, d)
  <2>1. pc'[r] = "finish" /\ Confirm(ifood[d])
    BY <1>1, <1>9 DEF ConcludeEventRead, Begin, TypeOK, Confirm
  <2>. QED
    BY <1>4, <2>1
<1>. QED
  BY <1>5, <1>6, <1>7, <1>8, <1>9 DEF Reads

LEMMA ClosedInvariant ==
  ASSUME ConfirmedStart
  PROVE  Spec => []ClosedInv
<1>1. Init => ClosedInv
  <2> SUFFICES ASSUME Init PROVE ClosedInv
    OBVIOUS
  <2>1. PICK s \in [Delivery -> Start] :
          /\ delivery = [d \in Delivery |-> s[d].document]
          /\ ifood = [d \in Delivery |-> s[d].ifood]
    BY DEF Init
  <2>2. \A d \in Linked : ConfirmedDoc(delivery[d], d)
    BY <2>1, LinkedIsDelivery DEF ConfirmedStart, ConfirmedDoc, Confirmed, Justified
  <2>. QED
    BY <2>2 DEF Init, ClosedInv, InFlight
<1>2. TypeInv /\ ClosedInv /\ [Next]_vars => ClosedInv'
  <2> SUFFICES ASSUME TypeInv, ClosedInv, [Next]_vars
               PROVE  ClosedInv'
    OBVIOUS
  <2>1. CASE UNCHANGED vars \/ Quiet
    BY <2>1 DEF Quiet, vars, records, outside, ClosedInv, ConfirmedTask,
                ConfirmedDoc, Confirmed, Justified
  <2>2. ASSUME NEW d \in Delivery, IfoodActs(d)
        PROVE  ClosedInv'
    <3>1. UNCHANGED <<delivery, task, pc>>
      BY <2>2 DEF IfoodActs, IfoodAsksForCode, IfoodCloses, records
    <3>2. ASSUME NEW e \in Linked
          PROVE  ConfirmedDoc(delivery[e], e)'
      <4>1. ConfirmedDoc(delivery[e], e)
        BY DEF ClosedInv
      <4>. QED
        BY <3>1, <4>1, ConfirmationStays DEF ConfirmedDoc, Confirmed, Justified
    <3>3. ASSUME NEW q \in Request, pc'[q] \in InFlight
          PROVE  ConfirmedTask(q)'
      <4>1. ConfirmedTask(q)
        BY <3>1, <3>3 DEF ClosedInv
      <4>2. SUFFICES ASSUME task[q].delivery \in Linked
                     PROVE  ConfirmedTask(q)'
        BY <3>1 DEF ConfirmedTask
      <4>3. /\ Confirm(ifood[task[q].delivery]) => Confirm(ifood'[task[q].delivery])
            /\ Justify(ifood[task[q].delivery]) => Justify(ifood'[task[q].delivery])
        BY <4>2, ConfirmationStays
      <4>. QED
        BY <3>1, <4>1, <4>2, <4>3, Zenon
           DEF ConfirmedTask, ConfirmedDoc, Confirmed, Justified
    <3>. QED
      BY <3>1, <3>2, <3>3 DEF ClosedInv
  <2>3. ASSUME NEW r \in Request, NEW d \in Delivery, Reads(r, d)
        PROVE  ClosedInv'
    BY <2>3, ClosedReads
  <2>4. ASSUME NEW r \in Request, Advance(r)
        PROVE  ClosedInv'
    BY <2>4, ClosedAdvance
  <2>5. ASSUME NEW r \in Request, Interrupt(r)
        PROVE  ClosedInv'
    <3>1. OthersKept(r) /\ pc'[r] = "ended" /\ UNCHANGED delivery
      BY <2>5, LocalSteps DEF Interrupt, TypeInv, records
    <3>. QED
      BY <3>1, ClosedQuietStep DEF InFlight
  <2>. QED
    BY <2>1, <2>2, <2>3, <2>4, <2>5, NextCases
<1>. QED
  BY <1>1, <1>2, TypeInvariant, PTL DEF Spec

(* However late or old the write that closes it, an iFood delivery is      *)
(* FINISHED only after iFood verified its code, closed the order or        *)
(* refused the code in the words of an order that has ended: no lost       *)
(* answer and no other refusal finishes one.                               *)
THEOREM FinishNeedsIfood ==
  ASSUME ConfirmedStart
  PROVE  Spec => []FinishedIsAnswered
<1>1. ClosedInv => FinishedIsAnswered
  BY DEF ClosedInv, FinishedIsAnswered, ConfirmedDoc, Confirmed, Confirm
<1>. QED
  BY <1>1, ClosedInvariant, PTL

(* Nothing takes an iFood delivery off the board that iFood has neither    *)
(* agreed to cancel nor closed.                                            *)
THEOREM RemovalNeedsIfood ==
  ASSUME ConfirmedStart
  PROVE  Spec => []RemovalJustified
<1>1. ClosedInv => RemovalJustified
  BY DEF ClosedInv, RemovalJustified, ConfirmedDoc, Justified, Justify
<1>. QED
  BY <1>1, ClosedInvariant, PTL

-----------------------------------------------------------------------------
(* No handler writes a free delivery back: this is what keeps the second   *)
(* claim of a delivery from passing its filter.  It takes bodies that      *)
(* name a courier or a status other than PENDING, and no handler that      *)
(* saves a whole copy without changing its status or courier.              *)
Decides(dto) == dto.motoboy # None \/ dto.status \notin {None, "PENDING"}

DecisiveBodies == \A u \in User : \A dto \in Dto[u] : Decides(dto)
NoStaleSaves == Ops \cap {"STATUS_EVENT", "CANCEL_FAILED_EVENT", "RELEASE"} = {}

Free(doc) == doc.status = "PENDING" /\ doc.motoboy = None

Updating == {"count", "decide", "claim", "sync", "notify", "check", "confirm",
             "merge", "write"}

ClaimInv ==
  /\ \A d \in Delivery : accepted[d] # {} => ~Free(delivery[d])
  /\ \A d \in Delivery : \A m, n \in accepted[d] : m = n
  /\ \A r \in Request :
       /\ pc[r] \in Updating => task[r].user \in User /\ Decides(task[r].dto)
       /\ pc[r] \notin {"stamp", "release"}

LEMMA DecisiveUpdates ==
  ASSUME NEW t \in Task, t.user \in User, Decides(t.dto)
  PROVE  ~Free(Changed(t))
<1>1. t.dto.motoboy # None => Chosen(t) # None
  BY LifecycleAssumption DEF Chosen
<1>2. t.dto.motoboy # None => Changed(t).motoboy # None
  BY <1>1 DEF Changed
<1>3. t.dto.status \notin {None, "PENDING"} => Changed(t).status # "PENDING"
  BY DEF Changed
<1>. QED
  BY <1>2, <1>3 DEF Decides, Free

(* A step that accepts no claim, and frees no delivery.                    *)
LEMMA ClaimStep ==
  ASSUME TypeInv, ClaimInv, NEW r \in Request, OthersKept(r), UNCHANGED accepted,
         \A d \in Delivery : ~Free(delivery[d]) => ~Free(delivery[d])',
         pc'[r] \in Updating => task'[r].user \in User /\ Decides(task'[r].dto),
         pc'[r] \notin {"stamp", "release"}
  PROVE  ClaimInv'
<1>1. ASSUME NEW q \in Request
      PROVE  /\ pc'[q] \in Updating => task'[q].user \in User /\ Decides(task'[q].dto)
             /\ pc'[q] \notin {"stamp", "release"}
  <2>1. CASE q = r
    BY <2>1
  <2>2. CASE q # r
    BY <2>2 DEF ClaimInv, OthersKept
  <2>. QED
    BY <2>1, <2>2
<1>2. ASSUME NEW d \in Delivery, accepted'[d] # {}
      PROVE  ~Free(delivery[d])'
  BY <1>2 DEF ClaimInv
<1>3. \A d \in Delivery : \A m, n \in accepted'[d] : m = n
  BY DEF ClaimInv
<1>. QED
  BY <1>1, <1>2, <1>3 DEF ClaimInv

LEMMA SaveOccupies ==
  ASSUME delivery \in [Delivery -> Document], NEW d \in Delivery,
         NEW image, Save(d, image), ~Free(image)
  PROVE  \A e \in Delivery : ~Free(delivery[e]) \/ e = d => ~Free(delivery'[e])
BY DEF Save, Free

LEMMA ClaimAdvance ==
  ASSUME TypeInv, ClaimInv, NEW r \in Request, Advance(r)
  PROVE  ClaimInv'
<1>1. TypeOK /\ pc[r] \in InFlight
  BY AdvancesAreInFlight DEF TypeInv
<1>2. /\ task[r] \in Task
      /\ task[r].delivery \in Delivery
      /\ delivery \in [Delivery -> Document]
      /\ accepted \in [Delivery -> SUBSET User]
  BY <1>1, TasksAreReal DEF TypeOK
<1>3. /\ End(r) => OthersKept(r) /\ pc'[r] = "ended"
      /\ \A next : Goto(r, next) =>
           OthersKept(r) /\ pc'[r] = next /\ task'[r] = task[r]
      /\ \A t, next : Continue(r, t, next) =>
           OthersKept(r) /\ pc'[r] = next /\ task'[r] = t
      /\ \A t : Proceed(r, t) =>
           /\ OthersKept(r)
           /\ \/ pc'[r] = "ended"
              \/ pc'[r] = "merge" /\ ~SwallowsErrors(t) /\ task'[r] = t
              \/ pc'[r] = "saveFlags" /\ task'[r] = t
  BY <1>1, LocalSteps
<1>4. pc[r] \in Updating => task[r].user \in User /\ Decides(task[r].dto)
  BY DEF ClaimInv
<1>5. ASSUME UNCHANGED <<accepted, delivery>>, OthersKept(r),
             pc'[r] \in Updating => task'[r].user \in User /\ Decides(task'[r].dto),
             pc'[r] \notin {"stamp", "release"}
      PROVE  ClaimInv'
  BY <1>5, ClaimStep
<1>6. ASSUME UNCHANGED accepted, NEW image, ~Free(image),
             Save(task[r].delivery, image), OthersKept(r),
             pc'[r] \notin Updating \cup {"stamp", "release"}
      PROVE  ClaimInv'
  <2>1. \A e \in Delivery : ~Free(delivery[e]) => ~Free(delivery'[e])
    BY <1>2, <1>6, SaveOccupies
  <2>. QED
    BY <1>6, <2>1, ClaimStep
<1>7. CASE \/ CountQuota(r) \/ SyncNothing(r) \/ SyncCancel(r) \/ SyncFinish(r)
           \/ CheckCanceled(r) \/ ConfirmFinish(r)
  <2>1. pc[r] \in Updating /\ UNCHANGED <<accepted, delivery>>
    BY <1>7 DEF CountQuota, SyncNothing, SyncCancel, SyncFinish, CheckCanceled,
                ConfirmFinish, records, Updating
  <2>2. \/ End(r) \/ Proceed(r, task[r])
        \/ \E next \in Updating : Goto(r, next)
    BY <1>7 DEF CountQuota, SyncNothing, SyncCancel, SyncFinish, CheckCanceled,
                ConfirmFinish, VerifyCode, RefusesAsEnded, Route, Updating
  <2>3. /\ OthersKept(r) /\ pc'[r] \notin {"stamp", "release"}
        /\ pc'[r] \in Updating => task'[r] = task[r]
    BY <1>3, <2>2 DEF Updating
  <2>. QED
    BY <1>4, <1>5, <2>1, <2>3
<1>8. CASE AskRefund(r) \/ AskCancel(r) \/ QueryOrder(r)
  <2>1. UNCHANGED <<accepted, delivery>>
    BY <1>8 DEF AskRefund, AskCancel, QueryOrder, records
  <2>2. OthersKept(r) /\ pc'[r] \in {"ended", "remove"}
    BY <1>3, <1>8 DEF AskRefund, AskCancel, QueryOrder
  <2>. QED
    BY <1>5, <2>1, <2>2 DEF Updating
<1>9. CASE DecideDestination(r)
  <2>1. /\ OthersKept(r) /\ pc'[r] = "sync"
        /\ \/ task'[r] = task[r]
           \/ task'[r] = [task[r] EXCEPT !.dto.status = "AWAITING_CODE"]
    BY <1>3, <1>9 DEF DecideDestination
  <2>2. pc[r] \in Updating
    BY <1>9 DEF DecideDestination, Updating
  <2>3. task'[r].user \in User /\ Decides(task'[r].dto)
    <3>1. CASE task'[r] = task[r]
      BY <1>4, <2>2, <3>1
    <3>2. CASE task'[r] = [task[r] EXCEPT !.dto.status = "AWAITING_CODE"]
      <4>1. task'[r].user = task[r].user /\ task'[r].dto.status = "AWAITING_CODE"
        BY <1>2, <3>2 DEF Task, Body
      <4>2. "AWAITING_CODE" \notin {None, "PENDING"}
        BY LifecycleAssumption DEF Status, InProgress
      <4>. QED
        BY <1>4, <2>2, <4>1, <4>2 DEF Decides
    <3>. QED
      BY <2>1, <3>1, <3>2
  <2>. QED
    BY <1>5, <1>9, <2>1, <2>3 DEF DecideDestination, records
<1>10. CASE Claim(r)
  <2>1. CASE End(r) /\ UNCHANGED records
    BY <1>3, <1>5, <2>1 DEF records, Updating
  <2>2. CASE IsFree(delivery[task[r].delivery])
    <3> DEFINE d == task[r].delivery
               image == Persistable(Changed(task[r]), "ONCOURSE", Chosen(task[r]),
                                    task[r].copy.flags)
    <3>1. Save(d, image) /\ accepted' = [accepted EXCEPT ![d] = @ \cup {Chosen(task[r])}]
            /\ Goto(r, "sync") /\ pc[r] \in Updating
      BY <1>10, <2>2 DEF Claim, Updating
    <3>2. ~Free(image)
      BY DEF Free, Persistable
    <3>3. \A e \in Delivery : ~Free(delivery[e]) \/ e = d => ~Free(delivery'[e])
      BY <1>2, <3>1, <3>2, SaveOccupies
    <3>4. accepted[d] = {}
      BY <1>2, <2>2 DEF ClaimInv, IsFree, Free
    <3>5. \A e \in Delivery : accepted'[e] # {} => ~Free(delivery'[e])
      BY <1>2, <3>1, <3>3 DEF ClaimInv
    <3>6. \A e \in Delivery : \A m, n \in accepted'[e] : m = n
      BY <1>2, <3>1, <3>4 DEF ClaimInv
    <3>7. OthersKept(r) /\ pc'[r] = "sync" /\ task'[r] = task[r]
      BY <1>3, <3>1
    <3>8. \A q \in Request :
            /\ pc'[q] \in Updating => task'[q].user \in User /\ Decides(task'[q].dto)
            /\ pc'[q] \notin {"stamp", "release"}
      BY <1>4, <3>1, <3>7 DEF ClaimInv, OthersKept
    <3>. QED
      BY <3>5, <3>6, <3>8 DEF ClaimInv
  <2>. QED
    BY <1>10, <2>1, <2>2 DEF Claim
<1>11. CASE SyncProgress(r)
  <2>1. PICK t : /\ Proceed(r, t) \/ Continue(r, t, "notify")
                 /\ t.user = task[r].user /\ t.dto = task[r].dto
    <3> DEFINE kept == IF NextStatus(task[r]) \in AtDestination
                       THEN task[r].copy.flags \cap {"arrivedAtDestination"} ELSE {}
               planned == [task[r] EXCEPT !.todo = Plan(task[r]), !.gained = kept]
    <3>1. planned.user = task[r].user /\ planned.dto = task[r].dto
      BY <1>2 DEF Task
    <3>2. Proceed(r, planned) \/ Continue(r, planned, "notify")
      BY <1>11 DEF SyncProgress
    <3>. QED
      BY <3>1, <3>2
  <2>2. /\ OthersKept(r) /\ pc'[r] \notin {"stamp", "release"}
        /\ pc'[r] \in Updating => task'[r] = t
    BY <1>3, <2>1 DEF Updating
  <2>3. pc[r] \in Updating /\ UNCHANGED <<accepted, delivery>>
    BY <1>11 DEF SyncProgress, records, Updating
  <2>. QED
    BY <1>4, <1>5, <2>1, <2>2, <2>3
<1>12. CASE Notify(r)
  <2>1. PICK t : /\ Proceed(r, t) \/ Continue(r, t, "notify") \/ End(r)
                 /\ t.user = task[r].user /\ t.dto = task[r].dto
    <3>1. PICK n \in task[r].todo :
            LET sent == [task[r] EXCEPT !.todo = @ \ {n}, !.gained = @ \cup {n}] IN
            Proceed(r, sent) \/ Continue(r, sent, "notify") \/ End(r)
      BY <1>12 DEF Notify
    <3> DEFINE sent == [task[r] EXCEPT !.todo = @ \ {n}, !.gained = @ \cup {n}]
    <3>2. sent.user = task[r].user /\ sent.dto = task[r].dto
      BY <1>2 DEF Task
    <3>. QED
      BY <3>1, <3>2
  <2>2. /\ OthersKept(r) /\ pc'[r] \notin {"stamp", "release"}
        /\ pc'[r] \in Updating => task'[r] = t
    BY <1>3, <2>1 DEF Updating
  <2>3. pc[r] \in Updating /\ UNCHANGED <<accepted, delivery>>
    BY <1>12 DEF Notify, records, Updating
  <2>. QED
    BY <1>4, <1>5, <2>1, <2>2, <2>3
<1>13. CASE MergeCurrent(r)
  <2> DEFINE base == IF task[r].copy.bare THEN delivery[task[r].delivery].flags
                     ELSE task[r].copy.flags
             merged == [task[r] EXCEPT !.gained = base \cup @]
  <2>1. OthersKept(r) /\ pc'[r] = "write" /\ task'[r] = merged
    BY <1>3, <1>13 DEF MergeCurrent
  <2>2. merged.user = task[r].user /\ merged.dto = task[r].dto
    BY <1>2 DEF Task
  <2>3. pc[r] \in Updating /\ UNCHANGED <<accepted, delivery>>
    BY <1>13 DEF MergeCurrent, records, Updating
  <2>. QED
    BY <1>4, <1>5, <2>1, <2>2, <2>3
<1>14. CASE WriteUpdate(r)
  <2> DEFINE doc == Changed(task[r])
             image == Persistable(doc, doc.status, doc.motoboy, task[r].gained)
  <2>1. pc[r] \in Updating
    BY <1>14 DEF WriteUpdate, Updating
  <2>2. ~Free(doc)
    BY <1>2, <1>4, <2>1, DecisiveUpdates
  <2>3. ~Free(image)
    BY <2>2 DEF Free, Persistable
  <2>4. Save(task[r].delivery, image) /\ UNCHANGED accepted
    BY <1>14 DEF WriteUpdate
  <2>5. OthersKept(r) /\ pc'[r] \in {"refund", "ended"}
    BY <1>3, <1>14 DEF WriteUpdate
  <2>. QED
    BY <1>6, <2>3, <2>4, <2>5 DEF Updating
<1>15. CASE SaveFlags(r)
  <2>1. \A d \in Delivery : /\ delivery'[d].status = delivery[d].status
                            /\ delivery'[d].motoboy = delivery[d].motoboy
    BY <1>2, <1>15 DEF SaveFlags, Document
  <2>2. \A d \in Delivery : ~Free(delivery[d]) => ~Free(delivery[d])'
    BY <2>1 DEF Free
  <2>3. OthersKept(r) /\ pc'[r] = "ended" /\ UNCHANGED accepted
    BY <1>3, <1>15 DEF SaveFlags
  <2>. QED
    BY <2>2, <2>3, ClaimStep DEF Updating
<1>16. CASE Remove(r)
  <2>1. ~Free(Closed(task[r].copy, "CANCELED", FALSE))
    BY DEF Free, Closed
  <2>2. OthersKept(r) /\ pc'[r] \in {"refund", "ended"}
    BY <1>3, <1>16 DEF Remove
  <2>. QED
    BY <1>6, <1>16, <2>1, <2>2 DEF Remove, Updating
<1>17. CASE Finish(r)
  <2>1. ~Free(Closed(task[r].copy, "FINISHED", task[r].copy.active))
    BY DEF Free, Closed
  <2>2. OthersKept(r) /\ pc'[r] = "ended"
    BY <1>3, <1>17 DEF Finish
  <2>. QED
    BY <1>6, <1>17, <2>1, <2>2 DEF Finish, Updating
<1>18. ~Stamp(r) /\ ~Release(r)
  BY DEF ClaimInv, Stamp, Release
<1>. QED
  BY <1>7, <1>8, <1>9, <1>10, <1>11, <1>12, <1>13, <1>14, <1>15, <1>16, <1>17,
     <1>18 DEF Advance

LEMMA ClaimInvariant ==
  ASSUME DecisiveBodies, NoStaleSaves
  PROVE  Spec => []ClaimInv
<1>1. Init => ClaimInv
  BY DEF Init, ClaimInv, Updating
<1>2. TypeInv /\ ClaimInv /\ [Next]_vars => ClaimInv'
  <2> SUFFICES ASSUME TypeInv, ClaimInv, [Next]_vars
               PROVE  ClaimInv'
    OBVIOUS
  <2>1. CASE UNCHANGED <<delivery, accepted, task, pc>>
    BY <2>1 DEF ClaimInv, Free
  <2>2. ASSUME NEW d \in Delivery, IfoodActs(d)
        PROVE  ClaimInv'
    BY <2>1, <2>2 DEF IfoodActs, IfoodAsksForCode, IfoodCloses, records
  <2>3. ASSUME NEW r \in Request, NEW d \in Delivery, Reads(r, d)
        PROVE  ClaimInv'
    <3>1. OthersKept(r) /\ UNCHANGED <<delivery, accepted>>
      BY <2>3, BeginSteps DEF TypeInv, records
    <3>2. ASSUME pc'[r] \notin {"stamp", "release"},
                 pc'[r] \in Updating => task'[r].user \in User /\ Decides(task'[r].dto)
          PROVE  ClaimInv'
      BY <3>1, <3>2, ClaimStep
    <3>3. ASSUME NEW u \in User, NEW dto \in Dto[u], UpdateRead(r, u, d, dto)
          PROVE  ClaimInv'
      <4>1. pc'[r] \notin {"stamp", "release"}
              /\ task'[r].user = u /\ task'[r].dto = dto
        BY <3>3 DEF UpdateRead, Begin, TypeInv, TypeOK, Route
      <4>. QED
        BY <3>2, <4>1 DEF DecisiveBodies
    <3>4. CASE \/ \E u \in User : DeleteRead(r, u, d)
               \/ \E u \in User : CleanupRead(r, u, d)
               \/ CancelEventRead(r, d)
               \/ ConcludeEventRead(r, d)
      <4>1. pc'[r] \in {"askCancel", "remove", "query", "finish"}
        BY <3>4 DEF DeleteRead, CleanupRead, CancelEventRead, ConcludeEventRead,
                    Begin, TypeInv, TypeOK
      <4>. QED
        BY <3>2, <4>1 DEF Updating
    <3>5. ~\E u \in User, m \in User \cup {None} : ReleaseRead(r, u, d, m)
      BY DEF ReleaseRead, Begin, NoStaleSaves
    <3>6. ~StatusEventRead(r, d) /\ ~CancelFailedRead(r, d)
      BY DEF StatusEventRead, CancelFailedRead, Begin, NoStaleSaves
    <3>. QED
      BY <2>3, <3>3, <3>4, <3>5, <3>6 DEF Reads
  <2>4. ASSUME NEW r \in Request, Advance(r)
        PROVE  ClaimInv'
    BY <2>4, ClaimAdvance
  <2>5. ASSUME NEW r \in Request, Interrupt(r)
        PROVE  ClaimInv'
    <3>1. OthersKept(r) /\ pc'[r] = "ended" /\ UNCHANGED <<delivery, accepted>>
      BY <2>5, LocalSteps DEF Interrupt, TypeInv, records
    <3>. QED
      BY <3>1, ClaimStep DEF Updating
  <2>. QED
    BY <2>1, <2>2, <2>3, <2>4, <2>5, NextCases DEF Quiet, vars, records
<1>. QED
  BY <1>1, <1>2, TypeInvariant, PTL DEF Spec

(* Whatever couriers claim a delivery, and whoever deletes, cancels or     *)
(* finishes it meanwhile, at most one courier's claim succeeds.            *)
THEOREM AtMostOneWinner ==
  ASSUME DecisiveBodies, NoStaleSaves
  PROVE  Spec => []OneWinner
<1>1. ClaimInv => OneWinner
  <2> SUFFICES ASSUME ClaimInv, NEW d \in Delivery
               PROVE  Cardinality(accepted[d]) <= 1
    BY DEF OneWinner
  <2>1. CASE accepted[d] = {}
    BY <2>1, FS_EmptySet
  <2>2. CASE accepted[d] # {}
    <3>1. PICK m \in accepted[d] : TRUE
      BY <2>2
    <3>2. accepted[d] = {m}
      BY <3>1 DEF ClaimInv
    <3>. QED
      BY <3>2, FS_Singleton
  <2>. QED
    BY <2>1, <2>2
<1>. QED
  BY <1>1, ClaimInvariant, PTL

=============================================================================
