----------------------------- MODULE IfoodEvents -----------------------------
(***************************************************************************)
(* How iFood events come in: the polling cycle of                          *)
(* ifood-auto-polling.service.ts and the promise queue of                  *)
(* ifood-webhook.service.ts, which share the table of events, the handlers *)
(* of the delivery service and the import (IfoodImport), with failing      *)
(* round trips and restarts.                                               *)
(*                                                                         *)
(* iFood returns an event to a poll until it is acknowledged, and posts it *)
(* to the webhook at any time, more than once if it likes. One poll may    *)
(* list an event more than once, and the cycle takes each copy for an      *)
(* event of its own; of a webhook call the second copy is found stored, so *)
(* that a set stands for its list. Every row that                          *)
(* either channel writes is already marked acknowledged, so the rows the   *)
(* cycle looks for to acknowledge again do not exist, and its              *)
(* markAsAcknowledged finds no row of a fresh event: neither is an action. *)
(* Deletions by a store and the switch of changeConfigs are IfoodImport's. *)
(***************************************************************************)
EXTENDS IfoodImport

CONSTANTS
  Hook,            \* the importer that the webhook queue runs
  NoEvent,
  Payloads,        \* the sets of events iFood posts together
  EventIndex,      \* whether eventId is unique in the database
  MaxPosts,        \* bound on the webhook calls
  MaxCopies,       \* bound on how often one poll lists an event
  Ops              \* which of the channels and failures are open

ASSUME EventsAssumption ==
  /\ Hook \in Importer \ {Poller}
  /\ NoEvent \notin Event
  /\ Payloads \subseteq SUBSET Event
  /\ EventIndex \in BOOLEAN
  /\ MaxPosts \in Nat /\ MaxCopies \in Nat \ {0}
  /\ Ops \subseteq {"HOOK", "POLL", "FAIL", "CRASH"}

(* What the webhook has in hand: the events to go through in its stage,    *)
(* the one it looked up, and those that were fresh.                        *)
Stage == {"idle", "find", "apply", "import", "mark", "retry"}
Hand == [stage : Stage, todo : SUBSET Event, event : Event \cup {NoEvent},
         fresh : SUBSET Event]
EmptyHand == [stage |-> "idle", todo |-> {}, event |-> NoEvent, fresh |-> {}]

(* What polling has in hand are lists, here the number of copies of each   *)
(* event: their order is left open. taken are the targets of the ACK.      *)
List == [Event -> 0..MaxCopies]   \* what one poll may return
EmptyList == [e \in Event |-> 0]
In(list) == {e \in Event : list[e] > 0}
Less(list, e) == [list EXCEPT ![e] = @ - 1]
Only(list, events) == [e \in Event |-> IF e \in events THEN list[e] ELSE 0]
Cycle == [stage : Stage, todo : [Event -> Nat], taken : SUBSET Event,
          fresh : [Event -> Nat]]
EmptyCycle == [stage |-> "idle", todo |-> EmptyList, taken |-> {}, fresh |-> EmptyList]

VARIABLES
  emitted,    \* events iFood has created
  acked,      \* events acknowledged at iFood
  queue,      \* webhook calls waiting in the chain of promises
  posted,     \* webhook calls so far
  hook,       \* the webhook call being processed
  cycle,      \* the polling cycle
  finished,   \* deliveries that a CONCLUDED event finished
  applied,    \* how often each channel handed a closing event to its handler
  repeated    \* history: events of polls that listed an event more than once

inVars == <<emitted, acked, queue, posted, hook, cycle, finished, applied, repeated>>
allVars == <<vars, inVars>>

Channel == {"hook", "poll"}

EventsInit ==
  /\ Init
  /\ emitted = {} /\ acked = {} /\ queue = <<>> /\ posted = 0
  /\ hook = EmptyHand /\ cycle = EmptyCycle
  /\ finished = {} /\ repeated = {}
  /\ applied = [x \in Channel \X Event |-> 0]

-----------------------------------------------------------------------------
(* iFood                                                                   *)

Emit(e) ==
  /\ e \notin emitted
  /\ ifood[OrderOf[e]] = "open"
  /\ emitted' = emitted \cup {e}
  /\ ifood' = IF Closing(e) THEN [ifood EXCEPT ![OrderOf[e]] = "closed"] ELSE ifood
  /\ UNCHANGED <<rows, deliveries, links, credits, charges, topUps, blocked, importing, task, pc>>
  /\ UNCHANGED <<acked, queue, posted, hook, cycle, finished, applied, repeated>>

(* receiveWebhook: the call is answered at once and queued.                *)
Post(payload) ==
  /\ "HOOK" \in Ops
  /\ payload \subseteq emitted
  /\ posted < MaxPosts
  /\ posted' = posted + 1
  /\ queue' = Append(queue, payload)
  /\ UNCHANGED <<vars, emitted, acked, hook, cycle, finished, applied, repeated>>

-----------------------------------------------------------------------------
(* What both channels do                                                   *)

AddRow(e) ==
  /\ rows' = Append(rows, e)
  /\ UNCHANGED <<ifood, deliveries, links, credits, charges, topUps, blocked, importing, task, pc>>

(* cancelDeliveryFromIfood and finishDeliveryFromIfood: without a link or   *)
(* an active delivery they return, and nobody handles the event again.     *)
(* What happens between their read and their save is DeliveryLifecycle's.  *)
Handle(channel, e) ==
  LET d == {l.delivery : l \in LinksOf(OrderOf[e])}
      live == {x \in d : deliveries[x].active} IN
  /\ applied' = [applied EXCEPT ![<<channel, e>>] = @ + 1]
  /\ \/ /\ KindOf[e] = "cancel"
        /\ deliveries' = [x \in DeliveryId |->
             IF x \in live THEN [deliveries[x] EXCEPT !.active = FALSE] ELSE deliveries[x]]
        /\ UNCHANGED finished
     \/ /\ KindOf[e] = "conclude"
        /\ finished' = finished \cup live
        /\ UNCHANGED deliveries
  /\ UNCHANGED <<rows, ifood, links, credits, charges, topUps, blocked, importing, task, pc>>

ClosingOfConclusions(events) ==   \* mutant: the code CAN is not looked for
  {e \in events : KindOf[e] = "conclude"}

ClosingOf(events) == {e \in events : Closing(e)}

(* Cancellations are handled before conclusions.                           *)
Foremost(e, events) ==
  /\ e \in events
  /\ KindOf[e] = "conclude" => \A f \in events : KindOf[f] # "cancel"

-----------------------------------------------------------------------------
(* processIncomingEvents                                                   *)

HookOnly == UNCHANGED <<emitted, acked, posted, cycle, repeated>>

TakePost ==
  /\ hook.stage = "idle" /\ queue # <<>>
  /\ hook' = [EmptyHand EXCEPT !.stage = "find", !.todo = Head(queue)]
  /\ queue' = Tail(queue)
  /\ HookOnly /\ UNCHANGED <<vars, finished, applied>>

(* findByEventId.                                                          *)
HookFind(e) ==
  /\ hook.stage = "find" /\ e \in hook.todo
  /\ hook' = IF e \in Stored
             THEN [hook EXCEPT !.todo = @ \ {e}]
             ELSE [hook EXCEPT !.todo = @ \ {e}, !.stage = "mark", !.event = e]
  /\ HookOnly /\ UNCHANGED <<vars, queue, finished, applied>>

(* markAsProcessed: a duplicate key ends the call, the events it has       *)
(* already marked with it.                                                 *)
HookMarkForgotten ==   \* mutant: the row is not written
  /\ hook.stage = "mark"
  /\ hook' = [hook EXCEPT !.stage = "find", !.event = NoEvent,
                          !.fresh = @ \cup {hook.event}]
  /\ HookOnly /\ UNCHANGED <<vars, queue, finished, applied>>

HookMark ==
  /\ hook.stage = "mark"
  /\ \/ /\ EventIndex /\ hook.event \in Stored
        /\ hook' = EmptyHand
        /\ UNCHANGED vars
     \/ /\ ~(EventIndex /\ hook.event \in Stored)
        /\ AddRow(hook.event)
        /\ hook' = [hook EXCEPT !.stage = "find", !.event = NoEvent,
                                !.fresh = @ \cup {hook.event}]
  /\ HookOnly /\ UNCHANGED <<queue, finished, applied>>

(* The status of every fresh event first (DeliveryLifecycle), then those   *)
(* that end an order.                                                      *)
HookSort ==
  /\ hook.stage = "find" /\ hook.todo = {}
  /\ hook' = [hook EXCEPT !.stage = "apply", !.todo = ClosingOf(hook.fresh)]
  /\ HookOnly /\ UNCHANGED <<vars, queue, finished, applied>>

HookApply(e) ==
  /\ hook.stage = "apply" /\ Foremost(e, hook.todo)
  /\ Handle("hook", e)
  /\ hook' = [hook EXCEPT !.todo = @ \ {e}]
  /\ HookOnly /\ UNCHANGED queue

HookImport ==
  /\ hook.stage = "apply" /\ hook.todo = {}
  /\ StartImport(Hook, hook.fresh)
  /\ hook' = [hook EXCEPT !.stage = "import"]
  /\ Untouched
  /\ HookOnly /\ UNCHANGED <<queue, finished, applied>>

HookDone ==
  /\ hook.stage = "import" /\ pc[Hook] = "idle"
  /\ hook' = EmptyHand
  /\ HookOnly /\ UNCHANGED <<vars, queue, finished, applied>>

-----------------------------------------------------------------------------
(* runPollingCycle. isPollingCycleRunning allows one cycle at a time.      *)

PollOnly == UNCHANGED <<emitted, queue, posted, hook>>

(* pollEvents appends the answers of all its requests to one list.         *)
StartCycle ==
  /\ "POLL" \in Ops
  /\ cycle.stage = "idle"
  /\ \E list \in List :
       /\ In(list) = emitted \ acked
       /\ cycle' = [EmptyCycle EXCEPT !.stage = "find", !.todo = list, !.taken = In(list)]
       /\ repeated' = IF \E e \in Event : list[e] > 1 THEN repeated \cup In(list)
                                                      ELSE repeated
  /\ PollOnly /\ UNCHANGED <<vars, acked, finished, applied>>

(* findByEventId of each copy: the fresh list repeats what the poll did.   *)
PollFind(e) ==
  /\ cycle.stage = "find" /\ e \in In(cycle.todo)
  /\ cycle' = [cycle EXCEPT !.todo = Less(@, e),
                            !.fresh[e] = IF e \in Stored THEN @ ELSE @ + 1]
  /\ PollOnly /\ UNCHANGED <<vars, acked, finished, applied, repeated>>

(* ackWithDeadlineAndFallback: past the deadline the same events are       *)
(* acknowledged again in small batches, with the same effect. Its targets  *)
(* are the only list that is freed of copies.                              *)
PollAck ==
  /\ cycle.stage = "find" /\ In(cycle.todo) = {}
  /\ acked' = acked \cup cycle.taken
  /\ cycle' = [cycle EXCEPT !.stage = "apply",
                            !.todo = Only(cycle.fresh, ClosingOf(In(cycle.fresh)))]
  /\ PollOnly /\ UNCHANGED <<vars, finished, applied, repeated>>

PollApply(e) ==
  /\ cycle.stage = "apply" /\ Foremost(e, In(cycle.todo))
  /\ Handle("poll", e)
  /\ cycle' = [cycle EXCEPT !.todo = Less(@, e)]
  /\ PollOnly /\ UNCHANGED <<acked, repeated>>

PollImport ==
  /\ cycle.stage = "apply" /\ In(cycle.todo) = {}
  /\ StartImport(Poller, In(cycle.fresh))
  /\ cycle' = [cycle EXCEPT !.stage = "mark", !.todo = cycle.fresh]
  /\ Untouched
  /\ PollOnly /\ UNCHANGED <<acked, finished, applied, repeated>>

(* markAsProcessed of every fresh event, only after the import of all. The *)
(* second copy of an event meets the index and ends the cycle: what was    *)
(* left of the list is acknowledged, and stored by nobody.                 *)
PollMarkEligible(e) ==   \* mutant: only the eligible events are stored
  /\ cycle.stage = "mark" /\ pc[Poller] = "idle" /\ e \in In(cycle.todo)
  /\ cycle' = [cycle EXCEPT !.todo = Less(@, e)]
  /\ \/ KindOf[e] = "import" /\ AddRow(e)
     \/ KindOf[e] # "import" /\ UNCHANGED vars
  /\ PollOnly /\ UNCHANGED <<acked, finished, applied, repeated>>

PollMark(e) ==
  /\ cycle.stage = "mark" /\ pc[Poller] = "idle" /\ e \in In(cycle.todo)
  /\ \/ /\ EventIndex /\ e \in Stored
        /\ cycle' = EmptyCycle
        /\ UNCHANGED vars
     \/ /\ ~(EventIndex /\ e \in Stored)
        /\ AddRow(e)
        /\ cycle' = [cycle EXCEPT !.todo = Less(@, e)]
  /\ PollOnly /\ UNCHANGED <<acked, finished, applied, repeated>>

(* retryPendingImportsForActiveMerchants ends every cycle.                 *)
PollRetry ==
  /\ cycle.stage = "mark" /\ pc[Poller] = "idle" /\ In(cycle.todo) = {}
  /\ StartImport(Poller, Recent(PollWindow))
  /\ cycle' = [EmptyCycle EXCEPT !.stage = "retry"]
  /\ Untouched
  /\ PollOnly /\ UNCHANGED <<acked, finished, applied, repeated>>

PollDone ==
  /\ cycle.stage = "retry" /\ pc[Poller] = "idle"
  /\ cycle' = EmptyCycle
  /\ PollOnly /\ UNCHANGED <<vars, acked, finished, applied, repeated>>

-----------------------------------------------------------------------------
(* Failures                                                                *)

(* A round trip of a webhook call throws: its events are dropped, and the  *)
(* queue goes on with the next call.                                       *)
HookFails ==
  /\ "FAIL" \in Ops
  /\ hook.stage \in {"find", "mark", "apply"}
  /\ hook' = EmptyHand
  /\ HookOnly /\ UNCHANGED <<vars, queue, finished, applied>>

(* A round trip of a cycle throws. iFood may have got some of the batches  *)
(* of acknowledgements.                                                    *)
PollFails ==
  /\ "FAIL" \in Ops
  /\ cycle.stage \in {"find", "apply", "mark"} /\ pc[Poller] = "idle"
  /\ cycle' = EmptyCycle
  /\ \/ UNCHANGED acked
     \/ /\ cycle.stage = "find" /\ In(cycle.todo) = {}
        /\ \E part \in SUBSET cycle.taken : acked' = acked \cup part
  /\ PollOnly /\ UNCHANGED <<vars, finished, applied, repeated>>

(* The process restarts: the queue of calls and the cycle were in memory.  *)
Restart ==
  /\ "CRASH" \in Ops
  /\ Crash \/ ((hook # EmptyHand \/ cycle # EmptyCycle) /\ UNCHANGED vars)
  /\ \A i \in Importer : pc'[i] = "idle"
  /\ queue' = <<>> /\ hook' = EmptyHand /\ cycle' = EmptyCycle
  /\ UNCHANGED <<emitted, acked, posted, finished, applied, repeated>>

-----------------------------------------------------------------------------
PollStep ==
  \/ StartCycle
  \/ \E e \in Event : PollFind(e) \/ PollApply(e) \/ PollMark(e)
  \/ PollAck
  \/ PollImport
  \/ PollRetry
  \/ PollDone

HookStep ==
  \/ TakePost
  \/ \E e \in Event : HookFind(e) \/ HookApply(e)
  \/ HookMark
  \/ HookSort
  \/ HookImport
  \/ HookDone

(* A step of IfoodImport that the channels take no part in.                *)
Import(i) == ImportStep(i) /\ UNCHANGED inVars
TopUp(i, c) == i # Hook /\ AddCredits(i, c) /\ UNCHANGED inVars
ImportFails(i) == "FAIL" \in Ops /\ Fail(i) /\ UNCHANGED inVars

EventsNext ==
  \/ \E e \in Event : Emit(e)
  \/ \E payload \in Payloads : Post(payload)
  \/ HookStep
  \/ PollStep
  \/ \E i \in Importer :
       \/ Import(i)
       \/ ImportFails(i)
       \/ \E c \in Company : TopUp(i, c)
  \/ HookFails
  \/ PollFails
  \/ Restart

EventsSpec == EventsInit /\ [][EventsNext]_allVars

(* The timer starts cycles for ever, each goes on, and so do the calls of  *)
(* the queue and every import. Nothing makes iFood emit or post.           *)
EventsFairSpec ==
  /\ EventsSpec
  /\ WF_allVars(PollStep)
  /\ WF_allVars(HookStep)
  /\ \A i \in Importer : WF_allVars(Import(i))

-----------------------------------------------------------------------------
(* Properties                                                              *)

(* The same event posted again, polled again because its acknowledgement   *)
(* failed, or interrupted by a failure or a restart, reaches the handlers  *)
(* of the webhook once at most, and those of polling as often as a single  *)
(* poll listed it: never from a second cycle (processIncomingEvents,       *)
(* runPollingCycle).                                                       *)
HandledAsListed ==
  \A e \in Event :
    /\ applied[<<"hook", e>>] <= 1
    /\ applied[<<"poll", e>>] <= IF e \in repeated THEN MaxCopies ELSE 1

(* With polling alone an event of iFood is stored in the end, although it  *)
(* is acknowledged long before, if no poll that brought it listed an event *)
(* twice: retries and readiness read it there.                             *)
PolledIsStored ==
  \A e \in Event : e \in emitted ~> (e \in Stored \/ e \in repeated)

InProgress(o) == \E d \in CreatedFor(o) : deliveries[d].active /\ d \notin finished

(* Once iFood has cancelled or concluded an order, its delivery does not   *)
(* stay with the couriers: the handlers end it, or it is never created.    *)
EndReachesDelivery ==
  \A e \in Event :
    (Closing(e) /\ e \in emitted) ~> []~InProgress(OrderOf[e])
=============================================================================
