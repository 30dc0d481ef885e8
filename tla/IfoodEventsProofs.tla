-------------------------- MODULE IfoodEventsProofs --------------------------
(***************************************************************************)
(* Proofs about IfoodEvents: webhook, polling and top-ups at once, with    *)
(* failing round trips and restarts anywhere, with or without the unique   *)
(* indexes, for any events, orders, payloads and importers.                *)
(***************************************************************************)
EXTENDS IfoodEvents, IfoodImportProofs

-----------------------------------------------------------------------------
(* An event reaches the handlers of the webhook once, and those of polling  *)
(* as often as one poll listed it.                                         *)

EventsTyped ==
  /\ rows \in Seq(Event)
  /\ emitted \subseteq Event /\ acked \subseteq Event
  /\ queue \in Seq(SUBSET Event)
  /\ hook \in Hand /\ cycle \in Cycle
  /\ repeated \subseteq Event
  /\ applied \in [Channel \X Event -> Nat]

Untold(channel, e) == applied[<<channel, e>>] = 0

(* The webhook stores an event before it handles it, and does not take one *)
(* that is stored: not even one that polling stored in between matters,    *)
(* for the webhook itself handles one call after the other.                *)
HookOnce ==
  /\ \A e \in Event : Untold("hook", e) \/ (applied[<<"hook", e>>] = 1 /\ e \in Stored)
  /\ hook.stage = "mark" => hook.event \in Event /\ Untold("hook", hook.event)
  /\ hook.stage \in {"find", "mark"} =>
       \A e \in hook.fresh : Untold("hook", e) /\ e \in Stored
  /\ hook.stage = "apply" => \A e \in hook.todo : Untold("hook", e) /\ e \in Stored

(* Polling acknowledges an event before it handles it, and iFood does not  *)
(* return it again: its handlers see no more copies than that one poll had. *)
Bound(e) == IF e \in repeated THEN MaxCopies ELSE 1

PollFits ==
  /\ cycle.stage = "find" =>
       /\ \A e \in Event :
            /\ cycle.todo[e] + cycle.fresh[e] <= Bound(e)
            /\ cycle.todo[e] + cycle.fresh[e] > 0 => e \in cycle.taken
       /\ \A e \in cycle.taken : Untold("poll", e)
  /\ cycle.stage = "apply" =>
       \A e \in Event :
         /\ applied[<<"poll", e>>] + cycle.todo[e] <= Bound(e)
         /\ cycle.todo[e] > 0 => e \in acked

PollOnce ==
  /\ \A e \in Event : applied[<<"poll", e>>] <= Bound(e) /\ (Untold("poll", e) \/ e \in acked)
  /\ PollFits

EventsInv == EventsTyped /\ HookOnce /\ PollOnce

own == <<rows, emitted, acked, queue, hook, cycle, applied, repeated>>

LEMMA EmptyHandIsHand == EmptyHand \in Hand /\ EmptyCycle \in Cycle
BY DEF EmptyHand, Hand, Stage, EmptyCycle, Cycle, EmptyList

LEMMA BoundIsNat ==
  ASSUME NEW e \in Event
  PROVE  Bound(e) \in Nat /\ Bound(e) >= 1 /\ Bound(e)' \in Nat
         /\ (repeated \subseteq repeated' => Bound(e) <= Bound(e)')
BY EventsAssumption DEF Bound

LEMMA OwnUnchanged ==
  ASSUME EventsInv, UNCHANGED own
  PROVE  EventsInv'
BY DEF EventsInv, EventsTyped, HookOnce, PollOnce, PollFits, Bound, Untold, Stored, own

LEMMA StartOfEvents ==
  ASSUME EventsInit
  PROVE  EventsInv
BY EmptyHandIsHand, EventsAssumption DEF EventsInit, Init, EventsInv, EventsTyped, HookOnce,
   PollOnce, PollFits, Bound, Untold, EmptyHand, EmptyCycle, Channel

LEMMA AddRowStores ==
  ASSUME EventsTyped, NEW e \in Event, AddRow(e)
  PROVE  rows' \in Seq(Event) /\ Stored \subseteq Stored' /\ e \in Stored'
<1>1. rows' = Append(rows, e) /\ rows \in Seq(Event)
  BY DEF AddRow, EventsTyped
<1>2. rows' \in Seq(Event) /\ DOMAIN rows = 1..Len(rows) /\ DOMAIN rows' = 1..(Len(rows) + 1)
  BY <1>1
<1>3. \A k \in DOMAIN rows : k \in DOMAIN rows' /\ rows'[k] = rows[k]
  BY <1>1, <1>2
<1>4. rows'[Len(rows) + 1] = e /\ Len(rows) + 1 \in DOMAIN rows'
  BY <1>1, <1>2
<1>. QED
  BY <1>2, <1>3, <1>4 DEF Stored

(* The records in hand.                                                    *)
LEMMA HandFields ==
  ASSUME NEW h \in Hand
  PROVE  /\ h.stage \in Stage /\ h.todo \subseteq Event /\ h.event \in Event \cup {NoEvent}
         /\ h.fresh \subseteq Event
BY DEF Hand

LEMMA CycleFields ==
  ASSUME NEW c \in Cycle
  PROVE  /\ c.stage \in Stage /\ c.taken \subseteq Event
         /\ c.todo \in [Event -> Nat] /\ c.fresh \in [Event -> Nat]
BY DEF Cycle

(* A step of one channel that hands no event over leaves the invariant, if *)
(* what it has in hand fits its stage.                                     *)
HookFits ==
  /\ hook.stage = "mark" => hook.event \in Event /\ Untold("hook", hook.event)
  /\ hook.stage \in {"find", "mark"} =>
       \A e \in hook.fresh : Untold("hook", e) /\ e \in Stored
  /\ hook.stage = "apply" => \A e \in hook.todo : Untold("hook", e) /\ e \in Stored

LEMMA HookMoves ==
  ASSUME EventsInv, hook' \in Hand, HookFits', queue' \in Seq(SUBSET Event),
         rows' \in Seq(Event), Stored \subseteq Stored',
         UNCHANGED <<emitted, acked, cycle, applied, repeated>>
  PROVE  EventsInv'
<1>1. EventsTyped'
  BY DEF EventsInv, EventsTyped
<1>2. HookOnce'
  <2>1. \A e \in Event : (Untold("hook", e) \/ (applied[<<"hook", e>>] = 1 /\ e \in Stored))'
    BY DEF EventsInv, HookOnce, Untold
  <2>. QED
    BY <2>1 DEF HookFits, HookOnce
<1>3. PollOnce'
  BY DEF EventsInv, PollOnce, PollFits, Bound, Untold
<1>. QED
  BY <1>1, <1>2, <1>3 DEF EventsInv

LEMMA PollMoves ==
  ASSUME EventsInv, cycle' \in Cycle, PollFits', acked' \subseteq Event, acked \subseteq acked',
         rows' \in Seq(Event), Stored \subseteq Stored',
         repeated \subseteq repeated', repeated' \subseteq Event,
         UNCHANGED <<emitted, queue, hook, applied>>
  PROVE  EventsInv'
<1>1. EventsTyped'
  BY DEF EventsInv, EventsTyped
<1>2. PollOnce'
  <2>1. ASSUME NEW e \in Event
        PROVE  (applied[<<"poll", e>>] <= Bound(e) /\ (Untold("poll", e) \/ e \in acked))'
    <3>1. applied[<<"poll", e>>] \in Nat /\ Bound(e) \in Nat /\ Bound(e)' \in Nat
          /\ Bound(e) <= Bound(e)'
      BY BoundIsNat, EventsAssumption DEF EventsInv, EventsTyped, Channel, Bound
    <3>2. applied[<<"poll", e>>] <= Bound(e) /\ (Untold("poll", e) \/ e \in acked)
      BY DEF EventsInv, PollOnce
    <3>3. applied' = applied
      OBVIOUS
    <3>4. applied'[<<"poll", e>>] <= Bound(e)'
      BY <3>1, <3>2, <3>3
    <3>5. Untold("poll", e)' \/ e \in acked'
      BY <3>2, <3>3 DEF Untold
    <3>. QED
      BY <3>4, <3>5
  <2>. QED
    BY <2>1 DEF PollOnce
<1>3. HookOnce'
  <2>1. \A e \in Event : (Untold("hook", e) \/ (applied[<<"hook", e>>] = 1 /\ e \in Stored))'
    BY DEF EventsInv, HookOnce, Untold
  <2>2. HookFits'
    BY DEF EventsInv, HookOnce, HookFits, Untold
  <2>. QED
    BY <2>1, <2>2 DEF HookFits, HookOnce
<1>. QED
  BY <1>1, <1>2, <1>3 DEF EventsInv

(* What a step that keeps the rows needs of them.                          *)
LEMMA SameRows ==
  ASSUME EventsInv, UNCHANGED rows
  PROVE  rows' \in Seq(Event) /\ Stored' = Stored
BY DEF EventsInv, EventsTyped, Stored

LEMMA EmitKeeps ==
  ASSUME EventsInv, NEW e \in Event, Emit(e)
  PROVE  EventsInv'
<1>1. emitted' \subseteq Event /\ UNCHANGED <<rows, acked, queue, hook, cycle, applied, repeated>>
  BY DEF Emit, EventsInv, EventsTyped
<1>. QED
  BY <1>1 DEF EventsInv, EventsTyped, HookOnce, PollOnce, PollFits, Bound, Untold,
     Stored

LEMMA PostKeeps ==
  ASSUME EventsInv, NEW payload \in Payloads, Post(payload)
  PROVE  EventsInv'
<1>1. payload \in SUBSET Event /\ queue \in Seq(SUBSET Event)
  BY DEF Post, EventsInv, EventsTyped
<1>2. queue' \in Seq(SUBSET Event)
  BY <1>1 DEF Post
<1>3. UNCHANGED <<rows, emitted, acked, hook, cycle, applied, repeated>>
  BY DEF Post, vars
<1>. QED
  BY <1>2, <1>3 DEF EventsInv, EventsTyped, HookOnce, PollOnce, PollFits, Bound, Untold,
     Stored

LEMMA TakePostKeeps ==
  ASSUME EventsInv, TakePost
  PROVE  EventsInv'
<1>1. queue \in Seq(SUBSET Event) /\ queue # <<>>
  BY DEF TakePost, EventsInv, EventsTyped
<1>2. Head(queue) \in SUBSET Event /\ Tail(queue) \in Seq(SUBSET Event)
  BY <1>1
<1>3. hook' = [stage |-> "find", todo |-> Head(queue), event |-> NoEvent,
               fresh |-> {}]
  BY DEF TakePost, EmptyHand
<1>4. hook' \in Hand
  BY <1>2, <1>3 DEF Hand, Stage
<1>5. HookFits'
  BY <1>3 DEF HookFits
<1>6. UNCHANGED <<rows, emitted, acked, cycle, applied, repeated>> /\ queue' = Tail(queue)
  BY DEF TakePost, HookOnly, vars
<1>. QED
  BY <1>2, <1>4, <1>5, <1>6, SameRows, HookMoves

LEMMA HookFindKeeps ==
  ASSUME EventsInv, NEW e \in Event, HookFind(e)
  PROVE  EventsInv'
<1>1. hook \in Hand /\ hook.stage = "find"
  BY DEF HookFind, EventsInv, EventsTyped
<1>2. UNCHANGED <<rows, emitted, acked, queue, cycle, applied, repeated>> /\ queue' \in Seq(SUBSET Event)
  BY DEF HookFind, HookOnly, vars, EventsInv, EventsTyped
<1>3. \A f \in hook.fresh : Untold("hook", f) /\ f \in Stored
  BY <1>1 DEF EventsInv, HookOnce
<1>4. CASE e \in Stored
  <2>1. hook' = [hook EXCEPT !.todo = @ \ {e}]
    BY <1>4 DEF HookFind
  <2>2. hook' \in Hand /\ hook'.stage = "find" /\ hook'.fresh = hook.fresh
    BY <1>1, <2>1 DEF Hand, Stage
  <2>3. HookFits'
    BY <1>2, <1>3, <2>2, SameRows DEF HookFits, Untold
  <2>. QED
    BY <1>2, <2>2, <2>3, SameRows, HookMoves
<1>5. CASE e \notin Stored
  <2>1. hook' = [hook EXCEPT !.todo = @ \ {e}, !.stage = "mark", !.event = e]
    BY <1>5 DEF HookFind
  <2>2. hook' \in Hand /\ hook'.stage = "mark" /\ hook'.fresh = hook.fresh /\ hook'.event = e
    BY <1>1, <2>1 DEF Hand, Stage
  <2>3. Untold("hook", e)
    BY <1>5 DEF EventsInv, HookOnce
  <2>4. HookFits'
    BY <1>2, <1>3, <2>2, <2>3, SameRows DEF HookFits, Untold
  <2>. QED
    BY <1>2, <2>2, <2>4, SameRows, HookMoves
<1>. QED
  BY <1>4, <1>5

LEMMA EmptyHandFits ==
  /\ hook' = EmptyHand => HookFits'
  /\ cycle' = EmptyCycle => PollFits'
BY DEF EmptyHand, EmptyCycle, HookFits, PollFits

LEMMA HookMarkKeeps ==
  ASSUME EventsInv, HookMark
  PROVE  EventsInv'
<1>1. hook \in Hand /\ hook.stage = "mark" /\ hook.event \in Event /\ Untold("hook", hook.event)
      /\ \A f \in hook.fresh : Untold("hook", f) /\ f \in Stored
  BY DEF HookMark, EventsInv, EventsTyped, HookOnce
<1>2. UNCHANGED <<emitted, acked, queue, cycle, applied, repeated>> /\ queue' \in Seq(SUBSET Event)
  BY DEF HookMark, HookOnly, EventsInv, EventsTyped
<1>3. CASE hook' = EmptyHand /\ UNCHANGED vars
  BY <1>2, <1>3, EmptyHandIsHand, EmptyHandFits, SameRows, HookMoves DEF vars
<1>4. CASE AddRow(hook.event)
           /\ hook' = [hook EXCEPT !.stage = "find", !.event = NoEvent,
                                   !.fresh = @ \cup {hook.event}]
  <2>1. rows' \in Seq(Event) /\ Stored \subseteq Stored' /\ hook.event \in Stored'
    BY <1>1, <1>4, AddRowStores DEF EventsInv
  <2>2. hook' \in Hand /\ hook'.stage = "find" /\ hook'.fresh = hook.fresh \cup {hook.event}
    BY <1>1, <1>4 DEF Hand, Stage
  <2>3. HookFits'
    BY <1>1, <1>2, <2>1, <2>2 DEF HookFits, Untold
  <2>. QED
    BY <1>2, <2>1, <2>2, <2>3, HookMoves
<1>. QED
  BY <1>3, <1>4 DEF HookMark

LEMMA HookSortKeeps ==
  ASSUME EventsInv, HookSort
  PROVE  EventsInv'
<1>1. hook \in Hand /\ hook' = [hook EXCEPT !.stage = "apply", !.todo = ClosingOf(hook.fresh)]
      /\ hook.stage = "find"
  BY DEF HookSort, EventsInv, EventsTyped
<1>2. ClosingOf(hook.fresh) \subseteq hook.fresh /\ hook.fresh \subseteq Event
  BY <1>1, HandFields DEF ClosingOf
<1>3. hook' \in Hand /\ hook'.stage = "apply" /\ hook'.todo \subseteq hook.fresh
  BY <1>1, <1>2 DEF Hand, Stage
<1>4. UNCHANGED <<rows, emitted, acked, queue, cycle, applied, repeated>> /\ queue' \in Seq(SUBSET Event)
  BY DEF HookSort, HookOnly, vars, EventsInv, EventsTyped
<1>5. HookFits'
  BY <1>1, <1>3, <1>4, SameRows DEF HookFits, Untold, EventsInv, HookOnce
<1>. QED
  BY <1>3, <1>4, <1>5, SameRows, HookMoves

(* The count a handler makes.                                              *)
LEMMA HandleCounts ==
  ASSUME EventsInv, NEW c \in Channel, NEW e \in Event, Handle(c, e)
  PROVE  /\ rows' = rows /\ applied' \in [Channel \X Event -> Nat]
         /\ applied'[<<c, e>>] = applied[<<c, e>>] + 1
         /\ \A x \in Channel \X Event : x # <<c, e>> => applied'[x] = applied[x]
<1>1. applied \in [Channel \X Event -> Nat] /\ <<c, e>> \in Channel \X Event
  BY DEF EventsInv, EventsTyped
<1>2. applied' = [applied EXCEPT ![<<c, e>>] = @ + 1] /\ rows' = rows
  BY DEF Handle
<1>. QED
  BY <1>1, <1>2

LEMMA HookApplyKeeps ==
  ASSUME EventsInv, NEW e \in Event, HookApply(e)
  PROVE  EventsInv'
<1>1. hook \in Hand /\ hook.stage = "apply" /\ e \in hook.todo
  BY DEF HookApply, Foremost, EventsInv, EventsTyped
<1>2. \A f \in hook.todo : Untold("hook", f) /\ f \in Stored
  BY <1>1 DEF EventsInv, HookOnce
<1>3. hook' = [hook EXCEPT !.todo = @ \ {e}] /\ Handle("hook", e)
      /\ UNCHANGED <<emitted, acked, queue, cycle, repeated>>
  BY DEF HookApply, HookOnly
<1>4. hook' \in Hand /\ hook'.stage = "apply" /\ hook'.todo = hook.todo \ {e}
  BY <1>1, <1>3 DEF Hand, Stage
<1>0. applied[<<"hook", e>>] = 0 /\ e \in Event
  BY <1>1, <1>2, HandFields DEF Untold
<1>5. /\ rows' = rows /\ applied' \in [Channel \X Event -> Nat]
      /\ applied'[<<"hook", e>>] = 1
      /\ \A f \in Event : f # e => applied'[<<"hook", f>>] = applied[<<"hook", f>>]
      /\ \A f \in Event : applied'[<<"poll", f>>] = applied[<<"poll", f>>]
  BY <1>0, <1>3, HandleCounts DEF Channel
<1>6. EventsTyped'
  BY <1>3, <1>4, <1>5 DEF EventsInv, EventsTyped
<1>7. HookOnce'
  <2>1. \A f \in Event : (Untold("hook", f) \/ (applied[<<"hook", f>>] = 1 /\ f \in Stored))'
    BY <1>1, <1>2, <1>5, SameRows DEF EventsInv, HookOnce, Untold
  <2>2. \A f \in hook'.todo : (Untold("hook", f) /\ f \in Stored)'
    <3>. TAKE f \in hook'.todo
    <3>1. f \in Event /\ f # e /\ f \in hook.todo
      BY <1>1, <1>4, HandFields
    <3>. QED
      BY <3>1, <1>2, <1>5, SameRows DEF Untold
  <2>. QED
    BY <2>1, <2>2, <1>4 DEF HookOnce
<1>8. PollOnce'
  <2>1. \A f \in Event : Bound(f)' = Bound(f) /\ (Untold("poll", f)' <=> Untold("poll", f))
    BY <1>3, <1>5 DEF Untold, Bound
  <2>2. cycle.taken \subseteq Event
    BY CycleFields DEF EventsInv, EventsTyped
  <2>3. PollFits'
    BY <1>3, <1>5, <2>1, <2>2 DEF EventsInv, PollOnce, PollFits
  <2>. QED
    BY <1>3, <1>5, <2>1, <2>3 DEF EventsInv, PollOnce
<1>. QED
  BY <1>6, <1>7, <1>8 DEF EventsInv

LEMMA HookImportKeeps ==
  ASSUME EventsInv, HookImport
  PROVE  EventsInv'
<1>1. hook \in Hand /\ hook' = [hook EXCEPT !.stage = "import"]
  BY DEF HookImport, EventsInv, EventsTyped
<1>2. hook' \in Hand /\ hook'.stage = "import"
  BY <1>1 DEF Hand, Stage
<1>3. UNCHANGED <<rows, emitted, acked, queue, cycle, applied, repeated>> /\ queue' \in Seq(SUBSET Event)
  BY DEF HookImport, HookOnly, Untouched, EventsInv, EventsTyped
<1>. QED
  BY <1>2, <1>3, SameRows, HookMoves DEF HookFits

LEMMA HookEnds ==
  ASSUME EventsInv, HookDone \/ HookFails
  PROVE  EventsInv'
<1>1. UNCHANGED <<rows, emitted, acked, queue, cycle, applied, repeated>> /\ queue' \in Seq(SUBSET Event)
      /\ hook' = EmptyHand
  BY DEF HookDone, HookFails, HookOnly, vars, EventsInv, EventsTyped
<1>. QED
  BY <1>1, EmptyHandIsHand, EmptyHandFits, SameRows, HookMoves

LEMMA StartCycleKeeps ==
  ASSUME EventsInv, StartCycle
  PROVE  EventsInv'
<1>1. PICK list \in List :
        /\ In(list) = emitted \ acked
        /\ cycle' = [EmptyCycle EXCEPT !.stage = "find", !.todo = list, !.taken = In(list)]
        /\ repeated' = IF \E e \in Event : list[e] > 1 THEN repeated \cup In(list)
                                                       ELSE repeated
  BY DEF StartCycle
<1>2. /\ cycle'.stage = "find" /\ cycle'.todo = list /\ cycle'.taken = In(list)
      /\ cycle'.fresh = EmptyList
  BY <1>1 DEF EmptyCycle
<1>3. list \in [Event -> Nat] /\ EmptyList \in [Event -> Nat] /\ In(list) \subseteq Event
      /\ \A e \in Event : list[e] <= MaxCopies
  BY EventsAssumption DEF List, EmptyList, In
<1>4. cycle' \in Cycle
  BY <1>1, <1>3 DEF Cycle, Stage, EmptyCycle
<1>5. UNCHANGED <<rows, emitted, acked, queue, hook, applied>> /\ acked' \subseteq Event
  BY DEF StartCycle, PollOnly, vars, EventsInv, EventsTyped
<1>6. repeated \subseteq repeated' /\ repeated' \subseteq Event
  BY <1>1, <1>3 DEF EventsInv, EventsTyped
<1>7. \A e \in In(list) : Untold("poll", e)
  BY <1>1, <1>3 DEF EventsInv, PollOnce
<1>8. ASSUME NEW e \in Event
      PROVE  list[e] + EmptyList[e] = list[e] /\ list[e] <= Bound(e)'
             /\ (list[e] > 0 => e \in In(list))
  <2>1. EmptyList[e] = 0 /\ list[e] \in Nat
    BY <1>3 DEF EmptyList
  <2>2. CASE list[e] > 1
    BY <1>1, <1>3, <2>1, <2>2 DEF Bound, In
  <2>3. CASE ~(list[e] > 1)
    BY <2>1, <2>3, EventsAssumption DEF Bound, In
  <2>. QED
    BY <2>1, <2>2, <2>3
<1>9. PollFits'
  BY <1>2, <1>5, <1>7, <1>8 DEF PollFits, Untold
<1>. QED
  BY <1>4, <1>5, <1>6, <1>9, SameRows, PollMoves

(* A copy is taken from a list.                                            *)
LEMMA LessIsList ==
  ASSUME NEW list \in [Event -> Nat], NEW e \in In(list)
  PROVE  /\ Less(list, e) \in [Event -> Nat]
         /\ e \in Event /\ Less(list, e)[e] = list[e] - 1 /\ list[e] > 0
         /\ \A f \in Event : f # e => Less(list, e)[f] = list[f]
BY DEF Less, In

LEMMA PollFindKeeps ==
  ASSUME EventsInv, NEW e \in Event, PollFind(e)
  PROVE  EventsInv'
<1>1. /\ cycle \in Cycle /\ cycle.stage = "find" /\ e \in In(cycle.todo) /\ PollFits
  BY DEF PollFind, EventsInv, EventsTyped, PollOnce
<1>2. /\ UNCHANGED <<rows, emitted, acked, queue, hook, applied, repeated>>
      /\ acked' \subseteq Event /\ repeated' \subseteq Event
  BY DEF PollFind, PollOnly, vars, EventsInv, EventsTyped
<1>3. cycle.todo \in [Event -> Nat] /\ cycle.fresh \in [Event -> Nat]
  BY <1>1, CycleFields
<1>. DEFINE fresh == [cycle.fresh EXCEPT ![e] = IF e \in Stored THEN @ ELSE @ + 1]
<1>4. cycle' = [cycle EXCEPT !.todo = Less(@, e), !.fresh = fresh]
  BY <1>1, <1>3 DEF PollFind, Cycle
<1>5. fresh \in [Event -> Nat] /\ fresh[e] <= cycle.fresh[e] + 1
      /\ \A f \in Event : f # e => fresh[f] = cycle.fresh[f]
  BY <1>3
<1>. HIDE DEF fresh
<1>6. /\ cycle' \in Cycle /\ cycle'.stage = "find" /\ cycle'.taken = cycle.taken
      /\ cycle'.todo = Less(cycle.todo, e) /\ cycle'.fresh = fresh
  BY <1>1, <1>3, <1>4, <1>5, LessIsList DEF Cycle
<1>7. ASSUME NEW f \in Event
      PROVE  /\ cycle'.todo[f] + cycle'.fresh[f] <= Bound(f)'
             /\ cycle'.todo[f] + cycle'.fresh[f] > 0 => f \in cycle.taken
  <2>1. /\ cycle.todo[f] + cycle.fresh[f] <= Bound(f)
        /\ cycle.todo[f] + cycle.fresh[f] > 0 => f \in cycle.taken
    BY <1>1 DEF PollFits
  <2>2. Bound(f)' = Bound(f) /\ Bound(f) \in Nat
    BY <1>2, BoundIsNat DEF Bound
  <2>3. /\ cycle'.todo[f] \in Nat /\ cycle'.fresh[f] \in Nat
        /\ cycle.todo[f] \in Nat /\ cycle.fresh[f] \in Nat
    BY <1>1, <1>3, <1>5, <1>6, LessIsList
  <2>4. cycle'.todo[f] + cycle'.fresh[f] <= cycle.todo[f] + cycle.fresh[f]
    BY <1>1, <1>3, <1>5, <1>6, <2>3, LessIsList
  <2>. QED
    BY <2>1, <2>2, <2>3, <2>4
<1>8. PollFits'
  BY <1>1, <1>2, <1>6, <1>7 DEF PollFits, Untold
<1>. QED
  BY <1>2, <1>6, <1>8, SameRows, PollMoves

LEMMA PollAckKeeps ==
  ASSUME EventsInv, PollAck
  PROVE  EventsInv'
<1>1. /\ cycle \in Cycle /\ cycle.stage = "find" /\ PollFits
  BY DEF PollAck, EventsInv, EventsTyped, PollOnce
<1>. DEFINE todo == Only(cycle.fresh, ClosingOf(In(cycle.fresh)))
<1>2. /\ UNCHANGED <<rows, emitted, queue, hook, applied, repeated>>
      /\ acked' = acked \cup cycle.taken
      /\ cycle' = [cycle EXCEPT !.stage = "apply", !.todo = todo]
  BY DEF PollAck, PollOnly, vars
<1>3. cycle.todo \in [Event -> Nat] /\ cycle.fresh \in [Event -> Nat] /\ cycle.taken \subseteq Event
  BY <1>1, CycleFields
<1>4. todo \in [Event -> Nat] /\ \A e \in Event : todo[e] <= cycle.fresh[e]
  BY <1>3 DEF Only
<1>. HIDE DEF todo
<1>5. cycle' \in Cycle /\ cycle'.stage = "apply" /\ cycle'.todo = todo
  BY <1>1, <1>2, <1>4 DEF Cycle, Stage
<1>6. acked' \subseteq Event /\ acked \subseteq acked' /\ repeated' \subseteq Event
  BY <1>2, <1>3 DEF EventsInv, EventsTyped
<1>7. ASSUME NEW e \in Event
      PROVE  (applied[<<"poll", e>>] + cycle.todo[e] <= Bound(e)
              /\ (cycle.todo[e] > 0 => e \in acked))'
  <2>1. /\ cycle.todo[e] + cycle.fresh[e] <= Bound(e)
        /\ cycle.todo[e] + cycle.fresh[e] > 0 => e \in cycle.taken
        /\ e \in cycle.taken => applied[<<"poll", e>>] = 0
    BY <1>1 DEF PollFits, Untold
  <2>2. Bound(e)' = Bound(e) /\ Bound(e) \in Nat
    BY <1>2, BoundIsNat DEF Bound
  <2>3. /\ cycle.todo[e] \in Nat /\ cycle.fresh[e] \in Nat /\ todo[e] \in Nat
        /\ todo[e] <= cycle.fresh[e]
    BY <1>3, <1>4
  <2>4. applied[<<"poll", e>>] <= Bound(e) /\ applied[<<"poll", e>>] \in Nat
    BY DEF EventsInv, EventsTyped, PollOnce, Channel
  <2>. QED
    BY <1>2, <1>5, <2>1, <2>2, <2>3, <2>4
<1>8. PollFits'
  BY <1>5, <1>7 DEF PollFits
<1>. QED
  BY <1>2, <1>5, <1>6, <1>8, SameRows, PollMoves

LEMMA PollApplyKeeps ==
  ASSUME EventsInv, NEW e \in Event, PollApply(e)
  PROVE  EventsInv'
<1>1. cycle \in Cycle /\ cycle.stage = "apply" /\ e \in In(cycle.todo) /\ PollFits
  BY DEF PollApply, Foremost, EventsInv, EventsTyped, PollOnce
<1>2. cycle.todo \in [Event -> Nat]
  BY <1>1, CycleFields
<1>3. cycle' = [cycle EXCEPT !.todo = Less(@, e)] /\ Handle("poll", e)
      /\ UNCHANGED <<emitted, acked, queue, hook, repeated>>
  BY DEF PollApply, PollOnly
<1>4. cycle' \in Cycle /\ cycle'.stage = "apply" /\ cycle'.todo = Less(cycle.todo, e)
  BY <1>1, <1>2, <1>3, LessIsList DEF Cycle
<1>5. /\ rows' = rows /\ applied' \in [Channel \X Event -> Nat]
      /\ applied'[<<"poll", e>>] = applied[<<"poll", e>>] + 1
      /\ \A f \in Event : f # e => applied'[<<"poll", f>>] = applied[<<"poll", f>>]
      /\ \A f \in Event : applied'[<<"hook", f>>] = applied[<<"hook", f>>]
  BY <1>3, HandleCounts DEF Channel
<1>6. EventsTyped'
  BY <1>3, <1>4, <1>5 DEF EventsInv, EventsTyped
<1>7. PollOnce'
  <2>1. ASSUME NEW f \in Event
        PROVE  /\ applied'[<<"poll", f>>] \in Nat /\ cycle'.todo[f] \in Nat
               /\ applied'[<<"poll", f>>] + cycle'.todo[f] <= Bound(f)'
               /\ applied'[<<"poll", f>>] > 0 => f \in acked'
               /\ cycle'.todo[f] > 0 => f \in acked'
    <3>1. /\ applied[<<"poll", f>>] + cycle.todo[f] <= Bound(f)
          /\ cycle.todo[f] > 0 => f \in acked
      BY <1>1 DEF PollFits
    <3>2. applied[<<"poll", f>>] \in Nat /\ cycle.todo[f] \in Nat
          /\ (applied[<<"poll", f>>] > 0 => f \in acked)
      BY <1>2 DEF EventsInv, EventsTyped, PollOnce, Untold, Channel
    <3>3. Bound(f)' = Bound(f) /\ Bound(f) \in Nat
      BY <1>3, BoundIsNat DEF Bound
    <3>4. CASE f = e
      <4>1. cycle'.todo[e] = cycle.todo[e] - 1 /\ cycle.todo[e] > 0
        BY <1>1, <1>2, <1>4, LessIsList
      <4>. QED
        BY <1>3, <1>5, <3>1, <3>2, <3>3, <3>4, <4>1
    <3>5. CASE f # e
      <4>1. cycle'.todo[f] = cycle.todo[f] /\ applied'[<<"poll", f>>] = applied[<<"poll", f>>]
        BY <1>1, <1>2, <1>4, <1>5, <3>5, LessIsList
      <4>. QED
        BY <1>3, <3>1, <3>2, <3>3, <4>1
    <3>. QED
      BY <3>4, <3>5
  <2>2. ASSUME NEW f \in Event
        PROVE  (applied[<<"poll", f>>] <= Bound(f) /\ (Untold("poll", f) \/ f \in acked))'
    <3>1. Bound(f)' \in Nat
      BY BoundIsNat
    <3>. QED
      BY <2>1, <3>1 DEF Untold
  <2>3. PollFits'
    BY <1>4, <2>1 DEF PollFits
  <2>. QED
    BY <2>2, <2>3 DEF PollOnce
<1>8. HookOnce'
  <2>1. hook \in Hand
    BY DEF EventsInv, EventsTyped
  <2>2. \A f \in Event : Untold("hook", f)' <=> Untold("hook", f)
    BY <1>5 DEF Untold
  <2>3. hook.fresh \subseteq Event /\ hook.todo \subseteq Event
    BY <2>1, HandFields
  <2>4. \A f \in Event : (Untold("hook", f) \/ (applied[<<"hook", f>>] = 1 /\ f \in Stored))'
    BY <1>5, SameRows DEF EventsInv, HookOnce, Untold
  <2>5. HookFits'
    BY <1>3, <1>5, <2>2, <2>3, SameRows DEF EventsInv, HookOnce, HookFits
  <2>. QED
    BY <2>4, <2>5 DEF HookOnce, HookFits
<1>. QED
  BY <1>6, <1>7, <1>8 DEF EventsInv

LEMMA PollImportKeeps ==
  ASSUME EventsInv, PollImport
  PROVE  EventsInv'
<1>1. cycle \in Cycle /\ cycle' = [cycle EXCEPT !.stage = "mark", !.todo = cycle.fresh]
  BY DEF PollImport, EventsInv, EventsTyped
<1>2. cycle' \in Cycle /\ cycle'.stage = "mark"
  BY <1>1, CycleFields DEF Cycle, Stage
<1>3. /\ UNCHANGED <<rows, emitted, acked, queue, hook, applied, repeated>>
      /\ acked' \subseteq Event /\ repeated' \subseteq Event
  BY DEF PollImport, PollOnly, Untouched, EventsInv, EventsTyped
<1>. QED
  BY <1>2, <1>3, SameRows, PollMoves DEF PollFits

LEMMA PollMarkKeeps ==
  ASSUME EventsInv, NEW e \in Event, PollMark(e)
  PROVE  EventsInv'
<1>1. cycle \in Cycle /\ cycle.stage = "mark" /\ e \in In(cycle.todo)
  BY DEF PollMark, EventsInv, EventsTyped
<1>2. /\ UNCHANGED <<emitted, acked, queue, hook, applied, repeated>>
      /\ acked' \subseteq Event /\ repeated' \subseteq Event
  BY DEF PollMark, PollOnly, EventsInv, EventsTyped
<1>3. CASE cycle' = EmptyCycle /\ UNCHANGED vars
  BY <1>2, <1>3, EmptyHandIsHand, EmptyHandFits, SameRows, PollMoves DEF vars
<1>4. CASE AddRow(e) /\ cycle' = [cycle EXCEPT !.todo = Less(@, e)]
  <2>1. cycle' \in Cycle /\ cycle'.stage = "mark"
    BY <1>1, <1>4, CycleFields, LessIsList DEF Cycle
  <2>2. rows' \in Seq(Event) /\ Stored \subseteq Stored'
    BY <1>4, AddRowStores DEF EventsInv
  <2>. QED
    BY <1>2, <2>1, <2>2, PollMoves DEF PollFits
<1>. QED
  BY <1>3, <1>4 DEF PollMark

LEMMA PollRetryKeeps ==
  ASSUME EventsInv, PollRetry
  PROVE  EventsInv'
<1>1. cycle' = [EmptyCycle EXCEPT !.stage = "retry"]
  BY DEF PollRetry
<1>2. cycle' \in Cycle /\ cycle'.stage = "retry"
  BY <1>1, EmptyHandIsHand DEF Cycle, Stage, EmptyCycle
<1>3. /\ UNCHANGED <<rows, emitted, acked, queue, hook, applied, repeated>>
      /\ acked' \subseteq Event /\ repeated' \subseteq Event
  BY DEF PollRetry, PollOnly, Untouched, EventsInv, EventsTyped
<1>. QED
  BY <1>2, <1>3, SameRows, PollMoves DEF PollFits

LEMMA PollEnds ==
  ASSUME EventsInv, PollDone \/ PollFails
  PROVE  EventsInv'
<1>1. cycle \in Cycle /\ acked \subseteq Event /\ repeated \subseteq Event
  BY DEF EventsInv, EventsTyped
<1>2. UNCHANGED <<rows, emitted, queue, hook, applied, repeated>> /\ cycle' = EmptyCycle
  BY DEF PollDone, PollFails, PollOnly, vars
<1>3. acked' = acked \/ \E part \in SUBSET cycle.taken : acked' = acked \cup part
  BY DEF PollDone, PollFails
<1>4. acked' \subseteq Event /\ acked \subseteq acked'
  BY <1>1, <1>3, CycleFields
<1>. QED
  BY <1>1, <1>2, <1>4, EmptyHandIsHand, EmptyHandFits, SameRows, PollMoves

LEMMA RestartKeeps ==
  ASSUME EventsInv, Restart
  PROVE  EventsInv'
<1>1. rows' = rows
  BY DEF Restart, Crash, vars
<1>2. /\ UNCHANGED <<emitted, acked, applied, repeated>>
      /\ queue' = <<>> /\ hook' = EmptyHand /\ cycle' = EmptyCycle
  BY DEF Restart
<1>3. queue' \in Seq(SUBSET Event)
  BY <1>2
<1>4. EventsTyped'
  BY <1>1, <1>2, <1>3, EmptyHandIsHand DEF EventsInv, EventsTyped
<1>5. HookOnce'
  BY <1>1, <1>2, SameRows DEF EventsInv, HookOnce, Untold, EmptyHand
<1>6. PollOnce'
  BY <1>2 DEF EventsInv, PollOnce, PollFits, Bound, Untold, EmptyCycle
<1>. QED
  BY <1>4, <1>5, <1>6 DEF EventsInv

LEMMA ImportsLeaveIt ==
  ASSUME EventsInv, NEW i \in Importer,
         Import(i) \/ ImportFails(i) \/ \E c \in Company : TopUp(i, c)
  PROVE  EventsInv'
<1>1. UNCHANGED inVars
  BY DEF Import, ImportFails, TopUp
<1>2. rows' = rows
  BY DEF Import, ImportFails, TopUp, Fail, AddCredits, Untouched, ImportStep, NextOrder, FindLink,
     UpdateLocator, AnalyzeOrder, ReadEvents, FindRealLink, BuildDelivery, Consume, SaveDelivery,
     CreateLink
<1>. QED
  BY <1>1, <1>2, OwnUnchanged DEF inVars, own

LEMMA EventsStep ==
  ASSUME EventsInv, [EventsNext]_allVars
  PROVE  EventsInv'
<1>1. CASE EventsNext
  <2>1. CASE HookStep
    BY <2>1, TakePostKeeps, HookFindKeeps, HookMarkKeeps, HookSortKeeps, HookApplyKeeps,
       HookImportKeeps, HookEnds DEF HookStep
  <2>2. CASE PollStep
    BY <2>2, StartCycleKeeps, PollFindKeeps, PollAckKeeps, PollApplyKeeps, PollImportKeeps,
       PollMarkKeeps, PollRetryKeeps, PollEnds DEF PollStep
  <2>3. CASE \E i \in Importer :
               Import(i) \/ ImportFails(i) \/ \E c \in Company : TopUp(i, c)
    BY <2>3, ImportsLeaveIt
  <2>4. CASE \/ \E e \in Event : Emit(e)
             \/ \E payload \in Payloads : Post(payload)
    BY <2>4, EmitKeeps, PostKeeps
  <2>5. CASE HookFails \/ PollFails \/ Restart
    BY <2>5, HookEnds, PollEnds, RestartKeeps
  <2>. QED
    BY <1>1, <2>1, <2>2, <2>3, <2>4, <2>5 DEF EventsNext
<1>2. CASE UNCHANGED allVars
  BY <1>2, OwnUnchanged DEF allVars, vars, inVars, own
<1>. QED
  BY <1>1, <1>2

(* The invariant holds of polling, webhook and imports, over failures and  *)
(* restarts.                                                               *)
THEOREM EventsInvHolds == EventsSpec => []EventsInv
<1>1. EventsInit => EventsInv
  BY StartOfEvents
<1>2. EventsInv /\ [EventsNext]_allVars => EventsInv'
  BY EventsStep
<1>. QED
  BY <1>1, <1>2, PTL DEF EventsSpec

(* However often iFood posts an event, and wherever a round trip fails or  *)
(* the process restarts, the webhook hands it to its handlers once at      *)
(* most, and polling as often as one poll listed it, once if no event of   *)
(* that poll was listed twice: no second cycle handles it.                 *)
THEOREM HandledOnce == EventsSpec => []HandledAsListed
<1>1. EventsInv => HandledAsListed
  <2>. SUFFICES ASSUME EventsInv, NEW e \in Event
                PROVE  /\ applied[<<"hook", e>>] <= 1
                       /\ applied[<<"poll", e>>] <= Bound(e)
    BY DEF HandledAsListed, Bound
  <2>1. applied[<<"hook", e>>] = 0 \/ applied[<<"hook", e>>] = 1
    BY DEF EventsInv, HookOnce, Untold
  <2>. QED
    BY <2>1 DEF EventsInv, PollOnce
<1>. QED
  BY <1>1, EventsInvHolds, PTL

-----------------------------------------------------------------------------
(* An order gets one link, whatever fails.                                 *)

(* What IfoodImportProofs has of the orders under way, without what a      *)
(* failure breaks: a credit may be paid and a delivery made for nothing.   *)
Places == {"idle", "next"} \cup Working

LinkInv ==
  /\ task \in [Importer -> Task]
  /\ pc \in [Importer -> Places]
  /\ importing \subseteq Order
  /\ Claims
  /\ Exclusive
  /\ \A i \in Importer : pc[i] \in Fresh => ~Linked(task[i].order)
  /\ OneLink

linkVars == <<links, importing, task, pc>>

LEMMA LinkVarsUnchanged ==
  ASSUME LinkInv, UNCHANGED linkVars
  PROVE  LinkInv'
BY DEF LinkInv, Claims, Exclusive, Linked, LinksOf, OneLink, linkVars

LEMMA FreshIsWorking == Fresh \subseteq Working /\ Working \subseteq Places
BY DEF Fresh, Working, Places

(* One importer moves.                                                     *)
LEMMA ImporterMoves ==
  ASSUME LinkInv, NEW i \in Importer, NEW t \in Task, NEW p \in Places,
         task' = [task EXCEPT ![i] = t], pc' = [pc EXCEPT ![i] = p],
         importing' \subseteq Order,
         \A j \in Importer \ {i} : pc[j] \in Working => task[j].order \in importing',
         p \in Working =>
           /\ t.order \in Order /\ t.order \in importing'
           /\ \A j \in Importer \ {i} : pc[j] \in Working => task[j].order # t.order,
         p \in Fresh => LinksOf(t.order)' = {},
         \A j \in Importer \ {i} : pc[j] \in Fresh => LinksOf(task[j].order)' = {},
         OneLink'
  PROVE  LinkInv'
<1>1. task' \in [Importer -> Task] /\ pc' \in [Importer -> Places]
  BY DEF LinkInv
<1>2. /\ task'[i] = t /\ pc'[i] = p
      /\ \A j \in Importer \ {i} : task'[j] = task[j] /\ pc'[j] = pc[j]
  BY DEF LinkInv
<1>3. Claims'
  BY <1>2 DEF LinkInv, Claims
<1>4. Exclusive'
  BY <1>2 DEF LinkInv, Exclusive
<1>5. \A j \in Importer : (pc[j] \in Fresh => ~Linked(task[j].order))'
  <2>. SUFFICES ASSUME NEW j \in Importer, pc'[j] \in Fresh
                PROVE  {l \in links' : l.order = task'[j].order} = {}
    BY DEF Linked, LinksOf
  <2>1. CASE j = i
    BY <1>2, <2>1 DEF LinksOf
  <2>2. CASE j # i
    BY <1>2, <2>2 DEF LinksOf
  <2>. QED
    BY <2>1, <2>2
<1>. QED
  BY <1>1, <1>3, <1>4, <1>5 DEF LinkInv

(* The same without a new link.                                            *)
LEMMA ImporterMovesAlone ==
  ASSUME LinkInv, NEW i \in Importer, NEW t \in Task, NEW p \in Places,
         task' = [task EXCEPT ![i] = t], pc' = [pc EXCEPT ![i] = p],
         importing' \subseteq Order, UNCHANGED links,
         \A j \in Importer \ {i} : pc[j] \in Working => task[j].order \in importing',
         p \in Working =>
           /\ t.order \in Order /\ t.order \in importing'
           /\ \A j \in Importer \ {i} : pc[j] \in Working => task[j].order # t.order,
         p \in Fresh => ~Linked(t.order)
  PROVE  LinkInv'
<1>1. p \in Fresh => LinksOf(t.order)' = {}
  BY DEF Linked, LinksOf
<1>2. \A j \in Importer \ {i} : pc[j] \in Fresh => LinksOf(task[j].order)' = {}
  BY DEF LinkInv, Linked, LinksOf
<1>3. OneLink'
  BY DEF LinkInv, OneLink
<1>. QED
  BY <1>1, <1>2, <1>3, ImporterMoves

(* The orders of the others.                                               *)
LEMMA OthersHold ==
  ASSUME LinkInv, NEW i \in Importer
  PROVE  /\ \A j \in Importer \ {i} : pc[j] \in Working => task[j].order \in importing
         /\ pc[i] \in Working => /\ task[i].order \in Order /\ task[i].order \in importing
                                 /\ \A j \in Importer \ {i} :
                                      pc[j] \in Working => task[j].order # task[i].order
BY DEF LinkInv, Claims, Exclusive

LEMMA StartKeepsLinks ==
  ASSUME LinkInv, NEW i \in Importer, NEW batch \in SUBSET Event, StartImport(i, batch),
         UNCHANGED links
  PROVE  LinkInv'
<1>. DEFINE t == [NoTask EXCEPT !.events = batch,
                    !.todo = {OrderOf[e] : e \in {e \in batch : KindOf[e] = "import"}}]
<1>1. {OrderOf[e] : e \in {e \in batch : KindOf[e] = "import"}} \subseteq Order
  BY ImportAssumption
<1>2. t \in Task
  BY <1>1 DEF NoTask, Task
<1>3. task' = [task EXCEPT ![i] = t] /\ pc' = [pc EXCEPT ![i] = "next"] /\ UNCHANGED importing
  BY DEF StartImport
<1>4. "next" \in Places /\ "next" \notin Working /\ "next" \notin Fresh
  BY DEF Places, Working, Fresh
<1>5. importing' \subseteq Order
  BY <1>3 DEF LinkInv
<1>. HIDE DEF t
<1>. QED
  BY <1>2, <1>3, <1>4, <1>5, OthersHold, ImporterMovesAlone

LEMMA LeaveMoves ==
  ASSUME LinkInv, NEW i \in Importer, Leave(i)
  PROVE  \E t \in Task : task' = [task EXCEPT ![i] = t] /\ pc' = [pc EXCEPT ![i] = "next"]
<1>1. [task[i] EXCEPT !.order = NoOrder, !.delivery = NoDelivery] \in Task
  BY DEF LinkInv, Task
<1>2. task' = [task EXCEPT ![i] = [task[i] EXCEPT !.order = NoOrder, !.delivery = NoDelivery]]
  BY DEF Leave, LinkInv, Task
<1>. QED
  BY <1>1, <1>2 DEF Leave

LEMMA LeaveKeepsLinks ==
  ASSUME LinkInv, NEW i \in Importer, pc[i] \in Working, Leave(i), UNCHANGED links
  PROVE  LinkInv'
<1>1. PICK t \in Task : task' = [task EXCEPT ![i] = t] /\ pc' = [pc EXCEPT ![i] = "next"]
  BY LeaveMoves
<1>2. "next" \in Places /\ "next" \notin Working /\ "next" \notin Fresh
  BY DEF Places, Working, Fresh
<1>3. importing' = importing \ {task[i].order} /\ importing' \subseteq Order
  BY DEF Leave, LinkInv
<1>4. \A j \in Importer \ {i} : pc[j] \in Working => task[j].order \in importing'
  BY <1>3, OthersHold
<1>. QED
  BY <1>1, <1>2, <1>3, <1>4, ImporterMovesAlone

LEMMA ProceedKeepsLinks ==
  ASSUME LinkInv, NEW i \in Importer, NEW to \in Working, pc[i] \in Working, Proceed(i, to),
         UNCHANGED links, to \in Fresh => ~Linked(task[i].order)
  PROVE  LinkInv'
<1>1. task[i] \in Task /\ task' = [task EXCEPT ![i] = task[i]] /\ pc' = [pc EXCEPT ![i] = to]
      /\ UNCHANGED importing /\ importing' \subseteq Order
  BY DEF Proceed, Goto, LinkInv
<1>. QED
  BY <1>1, OthersHold, ImporterMovesAlone, FreshIsWorking

LEMMA NextOrderKeepsLinks ==
  ASSUME LinkInv, NEW i \in Importer, NextOrder(i)
  PROVE  LinkInv'
<1>1. UNCHANGED links /\ pc[i] = "next" /\ task[i] \in Task /\ importing \subseteq Order
  BY DEF NextOrder, Untouched, LinkInv
<1>2. /\ "next" \in Places /\ "next" \notin Working /\ "next" \notin Fresh
      /\ "idle" \in Places /\ "idle" \notin Working /\ "idle" \notin Fresh
      /\ "findLink" \in Places /\ "findLink" \notin Fresh
  BY DEF Places, Working, Fresh
<1>3. ASSUME NEW o \in task[i].todo
      PROVE  /\ o \in Order
             /\ [task[i] EXCEPT !.todo = @ \ {o}] \in Task
             /\ [task[i] EXCEPT !.todo = @ \ {o}, !.order = o] \in Task
  BY <1>1 DEF Task
<1>4. CASE pc' = [pc EXCEPT ![i] = "idle"]
           /\ task' = [task EXCEPT ![i] = NoTask] /\ UNCHANGED importing
  <2>1. NoTask \in Task
    BY DEF NoTask, Task
  <2>. QED
    BY <1>1, <1>2, <1>4, <2>1, OthersHold, ImporterMovesAlone
<1>5. ASSUME NEW o \in task[i].todo \cap importing,
             task' = [task EXCEPT ![i].todo = @ \ {o}], UNCHANGED <<pc, importing>>
      PROVE  LinkInv'
  <2>1. task' = [task EXCEPT ![i] = [task[i] EXCEPT !.todo = @ \ {o}]]
    BY <1>5 DEF LinkInv, Task
  <2>2. pc' = [pc EXCEPT ![i] = "next"]
    BY <1>1, <1>5 DEF LinkInv
  <2>. QED
    BY <1>1, <1>2, <1>3, <1>5, <2>1, <2>2, OthersHold, ImporterMovesAlone
<1>6. ASSUME NEW o \in task[i].todo \ importing,
             importing' = importing \cup {o},
             task' = [task EXCEPT ![i].todo = @ \ {o}, ![i].order = o],
             pc' = [pc EXCEPT ![i] = "findLink"]
      PROVE  LinkInv'
  <2>. DEFINE t == [task[i] EXCEPT !.todo = @ \ {o}, !.order = o]
  <2>1. task' = [task EXCEPT ![i] = t]
    BY <1>6 DEF LinkInv, Task
  <2>2. t \in Task /\ t.order = o /\ o \in Order
    BY <1>1, <1>3, <1>6 DEF Task
  <2>3. \A j \in Importer \ {i} : pc[j] \in Working => task[j].order # o
    BY <1>6, OthersHold
  <2>4. \A j \in Importer \ {i} : pc[j] \in Working => task[j].order \in importing'
    BY <1>6, OthersHold
  <2>5. importing' \subseteq Order /\ o \in importing'
    BY <1>1, <1>6, <2>2
  <2>. HIDE DEF t
  <2>. QED
    BY <1>1, <1>2, <1>6, <2>1, <2>2, <2>3, <2>4, <2>5, ImporterMovesAlone
<1>. QED
  BY <1>4, <1>5, <1>6 DEF NextOrder

LEMMA SaveKeepsLinks ==
  ASSUME LinkInv, NEW i \in Importer, SaveDelivery(i)
  PROVE  LinkInv'
<1>1. UNCHANGED links /\ pc[i] = "save" /\ task[i] \in Task /\ importing \subseteq Order
      /\ ~Linked(task[i].order) /\ pc[i] \in Working
  BY DEF SaveDelivery, LinkInv, Fresh, Working
<1>2. CASE Leave(i)
  BY <1>1, <1>2, LeaveKeepsLinks
<1>3. ASSUME NEW d \in DeliveryId, task' = [task EXCEPT ![i].delivery = d], Goto(i, "link"),
             UNCHANGED importing
      PROVE  LinkInv'
  <2>. DEFINE t == [task[i] EXCEPT !.delivery = d]
  <2>1. task' = [task EXCEPT ![i] = t] /\ pc' = [pc EXCEPT ![i] = "link"]
    BY <1>3 DEF LinkInv, Task, Goto
  <2>2. t \in Task /\ t.order = task[i].order
    BY <1>1 DEF Task
  <2>3. "link" \in Places
    BY DEF Places, Working
  <2>4. ~Linked(t.order)
    BY <1>1, <2>2 DEF Linked, LinksOf
  <2>5. importing' = importing
    BY <1>3
  <2>6. \A j \in Importer \ {i} : pc[j] \in Working => task[j].order \in importing'
    BY <2>5, OthersHold
  <2>7. /\ t.order \in Order /\ t.order \in importing'
        /\ \A j \in Importer \ {i} : pc[j] \in Working => task[j].order # t.order
    BY <1>1, <2>2, <2>5, OthersHold
  <2>. HIDE DEF t
  <2>. QED
    BY <1>1, <2>1, <2>2, <2>3, <2>4, <2>5, <2>6, <2>7, ImporterMovesAlone
<1>. QED
  BY <1>2, <1>3 DEF SaveDelivery

LEMMA LinkKeepsLinks ==
  ASSUME LinkInv, NEW i \in Importer, CreateLink(i)
  PROVE  LinkInv'
<1>. DEFINE new == [order |-> task[i].order, delivery |-> task[i].delivery]
<1>1. pc[i] \in Working /\ LinksOf(task[i].order) = {} /\ Leave(i)
  BY DEF CreateLink, LinkInv, Fresh, Working, Linked
<1>2. links' = links \cup {new} /\ new.order = task[i].order
  BY <1>1 DEF CreateLink, Linked
<1>. HIDE DEF new
<1>3. PICK t \in Task : task' = [task EXCEPT ![i] = t] /\ pc' = [pc EXCEPT ![i] = "next"]
  BY <1>1, LeaveMoves
<1>4. "next" \in Places /\ "next" \notin Working /\ "next" \notin Fresh
  BY DEF Places, Working, Fresh
<1>5. importing' = importing \ {task[i].order} /\ importing' \subseteq Order
  BY <1>1 DEF Leave, LinkInv
<1>6. \A j \in Importer \ {i} : pc[j] \in Working => task[j].order \in importing'
  BY <1>1, <1>5, OthersHold
<1>7. ASSUME NEW j \in Importer \ {i}, pc[j] \in Fresh
      PROVE  LinksOf(task[j].order)' = {}
  <2>1. LinksOf(task[j].order) = {}
    BY <1>7 DEF LinkInv, Linked
  <2>2. task[j].order # task[i].order /\ task'[j] = task[j]
    BY <1>1, <1>3, <1>7, OthersHold, FreshIsWorking DEF LinkInv
  <2>. QED
    BY <1>2, <2>1, <2>2 DEF LinksOf
<1>8. OneLink'
  BY <1>1, <1>2 DEF LinkInv, OneLink, LinksOf
<1>. QED
  BY <1>3, <1>4, <1>5, <1>6, <1>7, <1>8, ImporterMoves

LEMMA ImportStepKeepsLinks ==
  ASSUME LinkInv, NEW i \in Importer, ImportStep(i)
  PROVE  LinkInv'
<1>1. CASE \/ FindLink(i) \/ UpdateLocator(i) \/ AnalyzeOrder(i) \/ ReadEvents(i)
           \/ FindRealLink(i) \/ BuildDelivery(i) \/ Consume(i)
  <2>1. UNCHANGED links /\ pc[i] \in Working
    BY <1>1 DEF FindLink, UpdateLocator, AnalyzeOrder, ReadEvents, FindRealLink, BuildDelivery,
       Consume, Untouched, Working
  <2>2. pc[i] \in Fresh => ~Linked(task[i].order)
    BY DEF LinkInv
  <2>3. \/ Leave(i)
        \/ \E to \in Working : Proceed(i, to) /\ (to \in Fresh => ~Linked(task[i].order))
    BY <1>1, <2>2 DEF FindLink, UpdateLocator, AnalyzeOrder, ReadEvents, FindRealLink,
       BuildDelivery, Consume, Working, Fresh
  <2>. QED
    BY <2>1, <2>3, LeaveKeepsLinks, ProceedKeepsLinks
<1>. QED
  BY <1>1, NextOrderKeepsLinks, SaveKeepsLinks, LinkKeepsLinks DEF ImportStep

LEMMA RestartKeepsLinks ==
  ASSUME LinkInv, Restart
  PROVE  LinkInv'
<1>1. CASE Crash
  <2>1. NoTask \in Task /\ "idle" \in Places /\ "idle" \notin Working /\ "idle" \notin Fresh
    BY DEF NoTask, Task, Places, Working, Fresh
  <2>2. links' = links /\ importing' = {} /\ pc' = [i \in Importer |-> "idle"]
        /\ task' = [i \in Importer |-> NoTask]
    BY <1>1 DEF Crash
  <2>3. task' \in [Importer -> Task] /\ pc' \in [Importer -> Places] /\ importing' \subseteq Order
    BY <2>1, <2>2
  <2>4. \A i \in Importer : pc'[i] \notin Working /\ pc'[i] \notin Fresh
    BY <2>1, <2>2
  <2>5. Claims' /\ Exclusive'
    BY <2>4 DEF Claims, Exclusive
  <2>. QED
    BY <2>2, <2>3, <2>4, <2>5 DEF LinkInv, OneLink
<1>2. CASE UNCHANGED vars
  BY <1>2, LinkVarsUnchanged DEF vars, linkVars
<1>. QED
  BY <1>1, <1>2 DEF Restart

LEMMA BatchesAreEvents ==
  ASSUME EventsInv
  PROVE  /\ hook.fresh \subseteq Event /\ In(cycle.fresh) \subseteq Event
         /\ \A n \in Nat : Recent(n) \subseteq Event
<1>1. \A k \in DOMAIN rows : rows[k] \in Event
  BY DEF EventsInv, EventsTyped
<1>2. ASSUME NEW n \in Nat
      PROVE  Recent(n) \subseteq Event
  BY <1>1 DEF Recent
<1>. QED
  BY <1>2, HandFields DEF EventsInv, EventsTyped, In

LEMMA LinksStep ==
  ASSUME EventsInv, LinkInv, [EventsNext]_allVars
  PROVE  LinkInv'
<1>1. CASE HookStep
  <2>1. CASE HookImport
    BY <2>1, BatchesAreEvents, StartKeepsLinks, EventsAssumption DEF HookImport, Untouched
  <2>2. CASE \/ TakePost \/ HookMark \/ HookSort \/ HookDone
             \/ \E e \in Event : HookFind(e) \/ HookApply(e)
    <3>1. UNCHANGED linkVars
      BY <2>2 DEF TakePost, HookMark, HookSort, HookDone, HookFind, HookApply, AddRow, Handle,
         vars, linkVars
    <3>. QED
      BY <3>1, LinkVarsUnchanged
  <2>. QED
    BY <1>1, <2>1, <2>2 DEF HookStep
<1>2. CASE PollStep
  <2>1. CASE PollImport
    BY <2>1, BatchesAreEvents, StartKeepsLinks, ImportAssumption DEF PollImport, Untouched
  <2>2. CASE PollRetry
    BY <2>2, BatchesAreEvents, StartKeepsLinks, ImportAssumption DEF PollRetry, Untouched
  <2>3. CASE \/ StartCycle \/ PollAck \/ PollDone
             \/ \E e \in Event : PollFind(e) \/ PollApply(e) \/ PollMark(e)
    <3>1. UNCHANGED linkVars
      BY <2>3 DEF StartCycle, PollAck, PollDone, PollFind, PollApply, PollMark, AddRow, Handle,
         vars, linkVars
    <3>. QED
      BY <3>1, LinkVarsUnchanged
  <2>. QED
    BY <1>2, <2>1, <2>2, <2>3 DEF PollStep
<1>3. ASSUME NEW i \in Importer, Import(i)
      PROVE  LinkInv'
  BY <1>3, ImportStepKeepsLinks DEF Import
<1>4. ASSUME NEW i \in Importer, ImportFails(i)
      PROVE  LinkInv'
  BY <1>4, LeaveKeepsLinks DEF ImportFails, Fail, Untouched
<1>5. ASSUME NEW i \in Importer, NEW c \in Company, TopUp(i, c)
      PROVE  LinkInv'
  <2>1. CompanyEvents(c) \subseteq Event
    BY BatchesAreEvents, ImportAssumption DEF CompanyEvents
  <2>. QED
    BY <1>5, <2>1, StartKeepsLinks DEF TopUp, AddCredits
<1>6. CASE \/ \E e \in Event : Emit(e)
           \/ \E payload \in Payloads : Post(payload)
           \/ HookFails \/ PollFails
           \/ UNCHANGED allVars
  <2>1. UNCHANGED linkVars
    BY <1>6 DEF Emit, Post, HookFails, PollFails, vars, allVars, linkVars
  <2>. QED
    BY <2>1, LinkVarsUnchanged
<1>. QED
  BY <1>1, <1>2, <1>3, <1>4, <1>5, <1>6, RestartKeepsLinks DEF EventsNext

(* Webhook, polling and top-ups importing the same orders at once, with    *)
(* round trips failing and the process restarting between any two steps,   *)
(* give an order one link at most, even without the unique index (OneLink).*)
THEOREM LinkedOnce == EventsSpec => []OneLink
<1>1. EventsInit => LinkInv
  <2>. SUFFICES ASSUME EventsInit
                PROVE  LinkInv
    OBVIOUS
  <2>1. NoTask \in Task /\ "idle" \in Places /\ "idle" \notin Working /\ "idle" \notin Fresh
    BY DEF NoTask, Task, Places, Working, Fresh
  <2>. QED
    BY <2>1 DEF EventsInit, Init, LinkInv, Claims, Exclusive, OneLink
<1>2. EventsInv /\ LinkInv /\ [EventsNext]_allVars => LinkInv'
  BY LinksStep
<1>3. LinkInv => OneLink
  BY DEF LinkInv
<1>. QED
  BY <1>1, <1>2, <1>3, EventsInvHolds, PTL DEF EventsSpec
=============================================================================
