---------------------------- MODULE MenuFlowSync ----------------------------
(***************************************************************************)
(* The integration with MenuFlow (menuflow-integration/): deliveries it    *)
(* creates and cancels, and the synchronisation that tells it each status. *)
(*                                                                         *)
(* A handler that changes the status of a delivery sets the flag           *)
(* menuFlowSyncPending in the same write.  The synchronisation reads the   *)
(* document, posts its status, and clears the flag; it runs one operation  *)
(* at a time, in a chain of promises (chain), and a timer repeats what is  *)
(* pending.  call[c] is the handler serving call c, sync[t] the operation  *)
(* that call t, or the timer (Timer), put in the chain.                    *)
(***************************************************************************)
EXTENDS Naturals, Sequences, FiniteSets

CONSTANTS
  Order,        \* MenuFlow's order ids
  Delivery,     \* ids that createDelivery may draw
  Call,         \* calls served
  Bodies,       \* statuses a body of updateDelivery may carry; None is a note
  Ops,          \* entry points open
  UniqueIndex,  \* has scripts/migrate-menuflow-integration.js been applied?
  Rejected,     \* orders whose status MenuFlow answers with an error
  Window,       \* pending deliveries a retry looks at (25)
  MaxRestarts,  \* bound: restarts of the process
  Timer, None

Status == {"AWAITING_RELEASE", "PENDING", "ONCOURSE", "COLLECTED", "FINISHED",
           "CANCELED"}
Op == {"CREATE", "CANCEL", "RELEASE", "CLAIM", "UPDATE", "DELETE"}
Task == Call \cup {Timer}

ASSUME MenuFlowAssumption ==
  /\ Timer \notin Call /\ None \notin Delivery \cup Status \cup Order
  /\ Bodies \subseteq Status \cup {None} /\ Ops \subseteq Op
  /\ UniqueIndex \in BOOLEAN /\ Rejected \subseteq Order
  /\ Window \in Nat \ {0} /\ MaxRestarts \in Nat

VARIABLES
  delivery,   \* the documents; None where no document has the id
  call, pc,   \* the handlers
  answer,     \* the delivery that an accepted CREATE was answered with
  chain,      \* syncQueue: operations waiting, the head is running
  sync,       \* their local state
  retrying,   \* retryRunning
  due,        \* deliveries the retry still has to go through
  known,      \* the newest status MenuFlow has of each delivery
  late,       \* posts given up that may still arrive
  clock,      \* the time that handlers stamp documents with (updatedAt)
  restarts,
  crossed,    \* history: deliveries written while their status was being sent
  overwritten \* history: deliveries updated from an older copy

handlers == <<call, pc, answer, clock>>
process == <<chain, sync, retrying, due>>
outside == <<known, late>>
past == <<crossed, overwritten>>
vars == <<delivery, handlers, process, outside, restarts, past>>

Document == [order : Order, status : Status, active : BOOLEAN,
             pending : BOOLEAN, updatedAt : Nat]
News == [delivery : Delivery, status : Status, at : Nat]
Local == [op : Op, order : Order \cup {None}, delivery : Delivery \cup {None},
          copy : Document \cup {None}, current : Document \cup {None},
          body : Status \cup {None}, stamp : Nat]
NoLocal == [op |-> "NONE"]
SyncState == [pc : {"idle", "queued", "read", "post", "clear", "fail"},
              mark : BOOLEAN, delivery : Delivery \cup {None},
              copy : Document \cup {None}]
Idle == [pc |-> "idle", mark |-> FALSE, delivery |-> None, copy |-> None]

ASSUME NoneIsNothing ==
  None \notin Document /\ None \notin News

TypeOK ==
  /\ delivery \in [Delivery -> Document \cup {None}]
  /\ call \in [Call -> Local \cup {NoLocal}]
  /\ pc \in [Call -> {"idle", "save", "again", "write", "merge", "update",
                      "ended"}]
  /\ answer \in [Call -> Delivery \cup {None}]
  /\ chain \in Seq(Task)
  /\ sync \in [Task -> SyncState]
  /\ retrying \in BOOLEAN /\ due \subseteq Delivery
  /\ known \in [Delivery -> News \cup {None}]
  /\ late \subseteq News
  /\ clock \in Nat /\ restarts \in Nat
  /\ crossed \subseteq Delivery /\ overwritten \subseteq Delivery

Init ==
  /\ delivery = [d \in Delivery |-> None]
  /\ call = [c \in Call |-> NoLocal] /\ pc = [c \in Call |-> "idle"]
  /\ answer = [c \in Call |-> None]
  /\ chain = <<>> /\ sync = [t \in Task |-> Idle]
  /\ retrying = FALSE /\ due = {}
  /\ known = [d \in Delivery |-> None] /\ late = {}
  /\ clock = 0 /\ restarts = 0
  /\ crossed = {} /\ overwritten = {}

----------------------------------------------------------------------------
(* Handlers.                                                               *)

Stored == {d \in Delivery : delivery[d] # None}
OfOrder(o) == {d \in Stored : delivery[d].order = o}

Begin(c, op, o, d, body, next) ==
  /\ pc[c] = "idle" /\ op \in Ops
  /\ call' = [call EXCEPT ![c] =
       [op |-> op, order |-> o, delivery |-> d,
        copy |-> IF d = None THEN None ELSE delivery[d], current |-> None,
        body |-> body, stamp |-> 0]]
  /\ pc' = [pc EXCEPT ![c] = next]

Finish(c) ==
  /\ call' = [call EXCEPT ![c] = NoLocal]
  /\ pc' = [pc EXCEPT ![c] = "ended"]

Answer(c, d) == answer' = [answer EXCEPT ![c] = d]

(* Deliveries whose status an operation has read and not yet settled.      *)
BeingSent == {sync[t].delivery : t \in {u \in Task : sync[u].pc \in {"post", "clear"}}}

(* One write of document d, image m.                                       *)
Put(d, m) ==
  /\ delivery' = [delivery EXCEPT ![d] = m]
  /\ clock' = clock + 1
  /\ crossed' = crossed \cup ({d} \cap BeingSent)
  /\ UNCHANGED overwritten

(* createDelivery of MenuFlow: it looks for the order, and refuses stores  *)
(* that are not linked, not enabled, inactive or without a city.           *)
CreateFind(c) ==
  /\ "CREATE" \in Ops /\ pc[c] = "idle"
  /\ \E o \in Order :
       \/ /\ OfOrder(o) = {}
          /\ Begin(c, "CREATE", o, None, None, "save")
          /\ UNCHANGED answer
       \/ \E d \in OfOrder(o) :
            /\ Answer(c, d) /\ Finish(c)
  /\ UNCHANGED <<delivery, clock, process, outside, restarts, past>>

Refuse(c) ==
  /\ pc[c] = "save" /\ Finish(c)
  /\ UNCHANGED <<delivery, answer, clock, process, outside, restarts, past>>

NewDelivery(o) == [order |-> o, status |-> "AWAITING_RELEASE", active |-> TRUE,
                   pending |-> FALSE, updatedAt |-> clock + 1]

(* The unique index of source and menuFlowOrderId, once it is created.     *)
AnyOrder(o) == FALSE
Duplicate(o) == UniqueIndex /\ OfOrder(o) # {}

CreateSave(c) ==
  /\ pc[c] = "save"
  /\ ~ Duplicate(call[c].order)
  /\ \E d \in Delivery \ Stored :
       /\ Put(d, NewDelivery(call[c].order)) /\ Answer(c, d)
  /\ Finish(c)
  /\ UNCHANGED <<process, outside, restarts>>

DuplicateKey(c) ==
  /\ pc[c] = "save"
  /\ Duplicate(call[c].order)
  /\ pc' = [pc EXCEPT ![c] = "again"]
  /\ UNCHANGED <<delivery, call, answer, clock, process, outside, restarts, past>>

FindAgain(c) ==
  /\ pc[c] = "again"
  /\ \E d \in OfOrder(call[c].order) : Answer(c, d)
  /\ Finish(c)
  /\ UNCHANGED <<delivery, clock, process, outside, restarts, past>>

(* Who may read a copy to write it back whole: MenuFlow cancels, a store   *)
(* releases or deletes, a courier claims, anybody updates.                 *)
MayBegin(op, d) ==
  CASE op = "CANCEL" -> delivery[d].status \notin {"CANCELED", "FINISHED"}
    [] op = "RELEASE" -> delivery[d].status = "AWAITING_RELEASE"
    [] op = "DELETE" -> delivery[d].active
    [] op = "CLAIM" -> delivery[d].status = "PENDING"

ReadCopy(c) ==
  /\ \E d \in Stored :
       \/ \E op \in {"CANCEL", "RELEASE", "DELETE", "CLAIM"} :
            /\ MayBegin(op, d)
            /\ Begin(c, op, delivery[d].order, d, None, "write")
       \/ \E body \in Bodies :
            Begin(c, "UPDATE", delivery[d].order, d, body, "merge")
  /\ UNCHANGED <<delivery, answer, clock, process, outside, restarts, past>>

(* What each of them makes of its copy: the status is new, so is pending.  *)
WrittenQuietly(c, s, active) ==
  [call[c].copy EXCEPT !.status = s, !.active = active, !.updatedAt = clock + 1]
Written(c, s, active) ==
  [call[c].copy EXCEPT !.status = s, !.active = active, !.pending = TRUE,
                       !.updatedAt = clock + 1]

(* queueDelivery *)
Enqueue(t, d, mark) ==
  /\ chain' = Append(chain, t)
  /\ sync' = [sync EXCEPT ![t] = [Idle EXCEPT !.pc = "queued", !.mark = mark,
                                              !.delivery = d]]

Cancel(c) ==
  /\ pc[c] = "write" /\ call[c].op = "CANCEL"
  /\ Put(call[c].delivery, Written(c, "CANCELED", FALSE))
  /\ Enqueue(c, call[c].delivery, TRUE)
  /\ Finish(c)
  /\ UNCHANGED <<answer, retrying, due, outside, restarts>>

Release(c) ==
  /\ pc[c] = "write" /\ call[c].op = "RELEASE"
  /\ \E s \in {"PENDING", "ONCOURSE"} :
       Put(call[c].delivery, Written(c, s, call[c].copy.active))
  /\ Finish(c)
  /\ UNCHANGED <<answer, process, outside, restarts>>

Delete(c) ==
  /\ pc[c] = "write" /\ call[c].op = "DELETE"
  /\ Put(call[c].delivery, Written(c, "CANCELED", FALSE))
  /\ Finish(c)
  /\ UNCHANGED <<answer, process, outside, restarts>>

Claim(c) ==
  LET d == call[c].delivery IN
  /\ pc[c] = "write" /\ call[c].op = "CLAIM"
  /\ IF delivery[d].active /\ delivery[d].status = "PENDING"
     THEN Put(d, Written(c, "ONCOURSE", call[c].copy.active))
     ELSE UNCHANGED <<delivery, clock, past>>
  /\ Finish(c)
  /\ UNCHANGED <<answer, process, outside, restarts>>

(* persistDeliveryUpdate reads the document a second time, and writes the  *)
(* first copy over it; pending is raised if that changes the status.       *)
MergeRead(c) ==
  /\ pc[c] = "merge"
  /\ call' = [call EXCEPT ![c].current = delivery[call[c].delivery],
                          ![c].stamp = clock + 1]
  /\ clock' = clock + 1
  /\ pc' = [pc EXCEPT ![c] = "update"]
  /\ UNCHANGED <<delivery, answer, process, outside, restarts, past>>

UpdateImage(c) ==
  LET s == IF call[c].body = None THEN call[c].copy.status ELSE call[c].body
  IN [call[c].copy EXCEPT !.status = s, !.updatedAt = call[c].stamp,
        !.pending = @ \/ call[c].current.status # s]

UpdateWrite(c) ==
  LET d == call[c].delivery IN
  /\ pc[c] = "update"
  /\ delivery' = [delivery EXCEPT ![d] = UpdateImage(c)]
  /\ crossed' = crossed \cup ({d} \cap BeingSent)
  /\ overwritten' = overwritten \cup IF delivery[d] # call[c].copy THEN {d} ELSE {}
  /\ Finish(c)
  /\ UNCHANGED <<answer, clock, process, outside, restarts>>

CallNext(c) ==
  \/ CreateFind(c) \/ Refuse(c) \/ CreateSave(c) \/ DuplicateKey(c) \/ FindAgain(c)
  \/ ReadCopy(c) \/ Cancel(c) \/ Release(c) \/ Delete(c) \/ Claim(c)
  \/ MergeRead(c) \/ UpdateWrite(c)

----------------------------------------------------------------------------
(* The synchronisation.                                                    *)

OutOfTurn(t) == \E i \in DOMAIN chain : chain[i] = t
Running(t) == chain # <<>> /\ Head(chain) = t

Step(t, next) == sync' = [sync EXCEPT ![t].pc = next]

(* The operation ends, well or not, and lets the next one of the chain run. *)
Leave(t) ==
  /\ chain' = Tail(chain)
  /\ sync' = [sync EXCEPT ![t] = Idle]

UnsetPending(d, flag) ==
  delivery' = [delivery EXCEPT ![d].pending = IF flag THEN TRUE ELSE None]
SetPending(d, flag) == delivery' = [delivery EXCEPT ![d].pending = flag]

syncFrame == <<handlers, retrying, due, restarts, past>>

MarkPending(t) ==
  /\ Running(t) /\ sync[t].pc = "queued"
  /\ IF sync[t].mark THEN SetPending(sync[t].delivery, TRUE)
                     ELSE UNCHANGED delivery
  /\ Step(t, "read")
  /\ UNCHANGED <<chain, outside, syncFrame>>

SyncRead(t) ==
  /\ Running(t) /\ sync[t].pc = "read"
  /\ sync' = [sync EXCEPT ![t].pc = "post",
                          ![t].copy = delivery[sync[t].delivery]]
  /\ UNCHANGED <<delivery, chain, outside, syncFrame>>

NewsOf(t) == [delivery |-> sync[t].delivery, status |-> sync[t].copy.status,
              at |-> sync[t].copy.updatedAt]

(* MenuFlow keeps the newest of what it is told, by updatedAt.             *)
Tell(news) ==
  known' = [known EXCEPT ![news.delivery] =
              IF @ # None /\ @.at > news.at THEN @ ELSE news]

PostAccepted(t) ==
  /\ Running(t) /\ sync[t].pc = "post" /\ sync[t].copy.order \notin Rejected
  /\ Tell(NewsOf(t)) /\ Step(t, "clear")
  /\ UNCHANGED <<delivery, chain, late, syncFrame>>

(* An error, or no answer in 10 seconds: then the post may still arrive.   *)
PostFails(t) ==
  /\ Running(t) /\ sync[t].pc = "post"
  /\ late' \in {late, late \cup {NewsOf(t)}}
  /\ sync[t].copy.order \in Rejected => late' = late
  /\ Step(t, "fail")
  /\ UNCHANGED <<delivery, chain, known, syncFrame>>

Arrive(news) ==
  /\ Tell(news) /\ late' = late \ {news}
  /\ UNCHANGED <<delivery, process, handlers, restarts, past>>

ClearPending(t) ==
  /\ Running(t) /\ sync[t].pc = "clear"
  /\ SetPending(sync[t].delivery, FALSE)
  /\ Leave(t)
  /\ UNCHANGED <<outside, syncFrame>>

KeepPending(t) ==
  /\ Running(t) /\ sync[t].pc = "fail"
  /\ SetPending(sync[t].delivery, TRUE)
  /\ Leave(t)
  /\ UNCHANGED <<outside, syncFrame>>

(* A database round trip that throws.                                      *)
SyncThrows(t) ==
  /\ Running(t)
  /\ \/ sync[t].pc = "clear" /\ Step(t, "fail") /\ UNCHANGED chain
     \/ sync[t].pc \in {"queued", "read", "fail"} /\ Leave(t)
  /\ UNCHANGED <<delivery, outside, syncFrame>>

(* retryPending: a tick while it is running does nothing.                  *)
Pending == {d \in Stored : delivery[d].pending}

RetryFind ==
  /\ ~ retrying /\ Pending # {}
  /\ \E s \in SUBSET Pending :
       /\ Cardinality(s) = IF Cardinality(Pending) < Window
                           THEN Cardinality(Pending) ELSE Window
       /\ due' = s
  /\ retrying' = TRUE
  /\ UNCHANGED <<delivery, handlers, chain, sync, outside, restarts, past>>

RetryNext ==
  /\ retrying /\ sync[Timer].pc = "idle"
  /\ \E d \in due : Enqueue(Timer, d, FALSE) /\ due' = due \ {d}
  /\ UNCHANGED <<delivery, handlers, retrying, outside, restarts, past>>

RetryDoneOnce ==
  /\ retrying /\ sync[Timer].pc = "idle" /\ due = {}
  /\ UNCHANGED vars
RetryDone ==
  /\ retrying /\ sync[Timer].pc = "idle" /\ due = {}
  /\ retrying' = FALSE
  /\ UNCHANGED <<delivery, handlers, chain, sync, due, outside, restarts, past>>

SyncGoesOn(t) ==
  MarkPending(t) \/ SyncRead(t) \/ PostAccepted(t) \/ PostFails(t)
    \/ ClearPending(t) \/ KeepPending(t)

RetryGoesOn == RetryFind \/ RetryNext \/ RetryDone

(* A restart loses the handlers, the chain and the retry; a post under way *)
(* may still arrive.                                                       *)
Restart ==
  /\ restarts < MaxRestarts
  /\ restarts' = restarts + 1
  /\ pc' = [c \in Call |-> IF pc[c] = "idle" THEN "idle" ELSE "ended"]
  /\ call' = [c \in Call |-> NoLocal]
  /\ chain' = <<>> /\ sync' = [t \in Task |-> Idle]
  /\ retrying' = FALSE /\ due' = {}
  /\ late' \in {late, late \cup {NewsOf(t) : t \in {u \in Task : sync[u].pc = "post"}}}
  /\ UNCHANGED <<delivery, answer, clock, known, past>>

Next ==
  \/ \E c \in Call : CallNext(c)
  \/ \E t \in Task : SyncGoesOn(t) \/ SyncThrows(t)
  \/ \E news \in late : Arrive(news)
  \/ RetryGoesOn \/ Restart

Spec == Init /\ [][Next]_vars

(* The timer fires again and again, an operation goes on, and what fails    *)
(* (the database, MenuFlow) does not fail for ever.                        *)
FairSpec ==
  /\ Spec
  /\ WF_vars(RetryGoesOn)
  /\ \A t \in Task : WF_vars(SyncGoesOn(t))
  /\ SF_vars(MarkPending(Timer)) /\ SF_vars(SyncRead(Timer))
  /\ SF_vars(PostAccepted(Timer)) /\ SF_vars(ClearPending(Timer))

----------------------------------------------------------------------------
(* Properties.                                                             *)

(* What MenuFlow believes of a delivery: the answer to the creation told   *)
(* it the first status.                                                    *)
Believed(d) == IF known[d] = None THEN "AWAITING_RELEASE" ELSE known[d].status

(* The flag is never lost: a delivery that is not pending is one whose     *)
(* status MenuFlow has, whatever died, failed or arrived late, unless the  *)
(* document was written while its status was being sent, or from an older  *)
(* copy.                                                                   *)
SettledIsKnown ==
  \A d \in Stored \ (crossed \cup overwritten) :
    ~ delivery[d].pending => Believed(d) = delivery[d].status

(* createDelivery: however MenuFlow repeats its call, an order has one     *)
(* delivery, and every accepted call was answered with it.                 *)
OneDeliveryPerOrder ==
  /\ \A o \in Order : Cardinality(OfOrder(o)) <= 1
  /\ \A b, c \in Call :
       answer[b] # None /\ answer[c] # None
         /\ delivery[answer[b]].order = delivery[answer[c]].order
       => answer[b] = answer[c]

(* The chain of promises: MenuFlow answers the post of a status only if it *)
(* had no newer one of that delivery, unless an update wrote an older copy *)
(* back.                                                                   *)
NewsInOrder ==
  [][\A t \in Task :
       sync[t].pc = "post" /\ sync'[t].pc = "clear"
       => LET d == sync[t].delivery IN
          known[d] = None \/ d \in overwritten \/ known[d].at <= sync[t].copy.updatedAt]_vars

(* retryPending and its timer: in the end MenuFlow has the status of every *)
(* delivery it does not reject, over failures and restarts.                *)
EventuallyKnown ==
  \A d \in Delivery :
    <>[](\/ delivery[d] = None \/ d \in crossed \cup overwritten
         \/ delivery[d].order \in Rejected
         \/ Believed(d) = delivery[d].status)
=============================================================================
