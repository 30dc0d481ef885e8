---------------------------- MODULE IfoodCredits ----------------------------
(***************************************************************************)
(* The iFood credits of a company: three counters in its user document     *)
(* (ifoodOrdersReleased, ifoodOrdersUsed, ifoodOrdersAvailable) and one    *)
(* history row per operation (ifood/ifood-credits.service.ts).             *)
(*                                                                         *)
(* Every counter update is one atomic findOneAndUpdate of the user         *)
(* document; the reads before it and the history row after it are          *)
(* database round trips of their own, so other requests run in between.    *)
(* The user document is also written whole, from a copy read earlier, by   *)
(* user.service.ts and authenticator.service.ts: WholeSave below.          *)
(*                                                                         *)
(* A request is used once: pc[r] is the round trip it will make next, or   *)
(* how it ended.                                                           *)
(***************************************************************************)
EXTENDS Integers, FiniteSets

CONSTANTS
  Company,         \* users of type shopkeeper or shopkeeperadmin
  Order,           \* order keys: an iFood order id, or a delivery id
  Request,         \* identifiers of the requests served
  Requester,       \* who asks for an adjustment: records [type, city]
  CityOf,          \* the city of each company
  Amount,          \* amounts of one adjustment (the DTO demands at least 1)
  InitialAccount,  \* the counters each company starts with
  CounterEdit,     \* counters an UpdateUserDto may carry, each a partial account
  Ops              \* the entry points open in this instance

Counter == {"released", "used", "available"}
Account == [released : Int, used : Int, available : Int]

IsBalanced(a) == a.available + a.used = a.released

ASSUME CreditsAssumption ==
  /\ Amount \subseteq Nat \ {0}
  /\ CityOf \in [Company -> {u.city : u \in Requester}]
  /\ InitialAccount \in [Company -> Account]
  /\ \A e \in CounterEdit :
       DOMAIN e \subseteq Counter /\ \A f \in DOMAIN e : e[f] \in Int
  /\ Ops \subseteq {"ADD", "REMOVE", "CONSUME", "REFUND", "SAVE"}

IsSolvent(a) ==
  /\ IsBalanced(a)
  /\ a.used >= 0 /\ a.available >= 0

(* The DTOs accept any numbers as counters. The accounting below can only  *)
(* hold when administrators create companies with counters that add up     *)
(* and, when they type counters over, send all three and adding up.        *)
ConsistentEntry ==
  /\ \A c \in Company : IsSolvent(InitialAccount[c])
  /\ \A e \in CounterEdit : e \in Account /\ IsSolvent(e)

NoCall == [op |-> "NONE"]

Adjustment == [op : {"ADD", "REMOVE"}, company : Company, amount : Amount]
OrderMove  == [op : {"CONSUME", "REFUND"}, company : Company, order : Order]
WholeSave  == [op : {"SAVE"}, company : Company, copy : Account]
Call       == Adjustment \cup OrderMove \cup WholeSave

Waiting == {"findConsume", "giveBack", "register", "save"}
Ended   == {"done", "rejected", "failed", "unlogged"}

VARIABLES
  account,   \* the three counters of each company's user document
  history,   \* ifood_credit_history: one row per request that wrote one
  call,      \* what each request asked for
  pc         \* where each request stands

vars == <<account, history, call, pc>>

Row == [id : Request, entry : Adjustment \cup OrderMove]

TypeOK ==
  /\ account \in [Company -> Account]
  /\ history \subseteq Row
  /\ call \in [Request -> Call \cup {NoCall}]
  /\ pc \in [Request -> {"idle"} \cup Waiting \cup Ended]

Init ==
  /\ account = InitialAccount
  /\ history = {}
  /\ call = [r \in Request |-> NoCall]
  /\ pc = [r \in Request |-> "idle"]

-----------------------------------------------------------------------------
(* Helpers                                                                 *)

MayManage(u, c) ==
  \/ u.type = "superadmin"
  \/ u.type = "admin" /\ u.city = CityOf[c]

Begin(r, next, request) ==
  /\ pc[r] = "idle"
  /\ request.op \in Ops
  /\ call' = [call EXCEPT ![r] = request]
  /\ pc' = [pc EXCEPT ![r] = next]

Goto(r, from, to) ==
  /\ pc[r] = from
  /\ pc' = [pc EXCEPT ![r] = to]
  /\ UNCHANGED call

HasRow(op, c, o) ==
  \E row \in history : row.entry = [op |-> op, company |-> c, order |-> o]

NoEdit == [f \in {} |-> 0]

(* Mutant: counters the DTO lacks are written as undefined.                *)
OverlayRaw(copy, e) == e

(* The spread of updateUser: a counter of the DTO where it has one, else   *)
(* the counter of the copy read before.                                    *)
Overlay(copy, e) ==
  LET pick(f, old) == IF f \in DOMAIN e THEN e[f] ELSE old IN
  [released  |-> pick("released", copy.released),
   used      |-> pick("used", copy.used),
   available |-> pick("available", copy.available)]

(* The $inc documents of the four operations.                              *)
Moved(a, released, used, available) ==
  [released  |-> a.released + released,
   used      |-> a.used + used,
   available |-> a.available + available]

Released(a, n) == Moved(a, n, 0, n)
Removed(a, n)  == Moved(a, -n, 0, -n)
Consumed(a)    == Moved(a, 0, 1, -1)
GivenBackTwice(a) == Moved(a, 0, -1, 2)   \* mutant: the sum is not kept
GivenBack(a)   == Moved(a, 0, -1, 1)

CanRemove(a, n) == a.available >= n /\ a.released >= n
CanConsumeAlways(a) == TRUE               \* mutant: no $gte filter
CanConsume(a)   == a.available >= 1
CanGiveBack(a)  == a.used >= 1

-----------------------------------------------------------------------------
(* addCredits and removeCredits: role checks, then one conditional update. *)

AddCredits(r, u, c, n) ==
  /\ MayManage(u, c)
  /\ Begin(r, "register", [op |-> "ADD", company |-> c, amount |-> n])
  /\ account' = [account EXCEPT ![c] = Released(@, n)]
  /\ UNCHANGED history

RemoveCredits(r, u, c, n) ==
  LET request == [op |-> "REMOVE", company |-> c, amount |-> n] IN
  /\ MayManage(u, c)
  /\ \/ /\ CanRemove(account[c], n)
        /\ Begin(r, "register", request)
        /\ account' = [account EXCEPT ![c] = Removed(@, n)]
     \/ /\ ~CanRemove(account[c], n)
        /\ Begin(r, "rejected", request)
        /\ UNCHANGED account
  /\ UNCHANGED history

(* consumeCreditForOrder: no look at the history, one conditional update.  *)
ConsumeCredit(r, c, o) ==
  LET request == [op |-> "CONSUME", company |-> c, order |-> o] IN
  /\ \/ /\ CanConsume(account[c])
        /\ Begin(r, "register", request)
        /\ account' = [account EXCEPT ![c] = Consumed(@)]
     \/ /\ ~CanConsume(account[c])
        /\ Begin(r, "rejected", request)
        /\ UNCHANGED account
  /\ UNCHANGED history

(* refundCreditForOrder: look for a REFUND row, look for a CONSUME row,    *)
(* then give the credit back; each is a round trip of its own.             *)
FindRefund(r, c, o) ==
  /\ Begin(r, IF HasRow("REFUND", c, o) THEN "done" ELSE "findConsume",
           [op |-> "REFUND", company |-> c, order |-> o])
  /\ UNCHANGED <<account, history>>

FindConsumeSkipped(r) ==   \* mutant: no look for the consumption
  /\ Goto(r, "findConsume", "giveBack")
  /\ UNCHANGED <<account, history>>

FindConsume(r) ==
  /\ Goto(r, "findConsume",
          IF HasRow("CONSUME", call[r].company, call[r].order)
          THEN "giveBack" ELSE "done")
  /\ UNCHANGED <<account, history>>

GiveBackUnchecked(r) ==    \* mutant: the result of the update is not looked at
  LET c == call[r].company IN
  /\ Goto(r, "giveBack", "register")
  /\ account' = [account EXCEPT ![c] = IF CanGiveBack(@) THEN GivenBack(@) ELSE @]
  /\ UNCHANGED history

GiveBack(r) ==
  LET c == call[r].company IN
  /\ pc[r] = "giveBack"
  /\ \/ /\ CanGiveBack(account[c])
        /\ Goto(r, "giveBack", "register")
        /\ account' = [account EXCEPT ![c] = GivenBack(@)]
     \/ /\ ~CanGiveBack(account[c])
        /\ Goto(r, "giveBack", "rejected")
        /\ UNCHANGED account
  /\ UNCHANGED history

(* registerHistory: the row, with an id of its own, after the counters.    *)
RegisterHistory(r) ==
  /\ Goto(r, "register", "done")
  /\ history' = history \cup {[id |-> r, entry |-> call[r]]}
  /\ UNCHANGED account

-----------------------------------------------------------------------------
(* A save of the whole user document: read it, compute (hash a password,   *)
(* resolve a city, compare a token), write back the copy with some fields  *)
(* replaced. Only UpdateUserDto can carry counters.                        *)

ReadUser(r, c) ==
  /\ Begin(r, "save", [op |-> "SAVE", company |-> c, copy |-> account[c]])
  /\ UNCHANGED <<account, history>>

SaveUser(r) ==
  /\ Goto(r, "save", "done")
  /\ \E e \in {NoEdit} \cup CounterEdit :
       account' = [account EXCEPT ![call[r].company] = Overlay(call[r].copy, e)]
  /\ UNCHANGED history

(* A database error or a restart of the process ends a request between two *)
(* round trips; an update already made stays made, without its row.        *)
Interrupt(r) ==
  /\ pc[r] \in Waiting
  /\ Goto(r, pc[r], IF pc[r] = "register" THEN "unlogged" ELSE "failed")
  /\ UNCHANGED <<account, history>>

-----------------------------------------------------------------------------
(* Nothing left to serve.                                                  *)
Quiet ==
  /\ \A r \in Request : pc[r] \in Ended
  /\ UNCHANGED vars

Next ==
  \/ Quiet
  \/ \E r \in Request :
         \/ \E u \in Requester, c \in Company, n \in Amount : AddCredits(r, u, c, n)
         \/ \E u \in Requester, c \in Company, n \in Amount : RemoveCredits(r, u, c, n)
         \/ \E c \in Company, o \in Order : ConsumeCredit(r, c, o)
         \/ \E c \in Company, o \in Order : FindRefund(r, c, o)
         \/ FindConsume(r)
         \/ GiveBack(r)
         \/ RegisterHistory(r)
         \/ \E c \in Company : ReadUser(r, c)
         \/ SaveUser(r)
         \/ Interrupt(r)

Spec == Init /\ [][Next]_vars

-----------------------------------------------------------------------------
(* Properties                                                              *)

(* No interleaving of adjustments, consumptions, refunds and whole-document *)
(* saves breaks the sum of the counters: what is available and what is     *)
(* used add up to what was released (the $inc documents of                 *)
(* ifood-credits.service.ts move two counters at a time).                  *)
Balanced == \A c \in Company : IsBalanced(account[c])

(* Even when two refunds of one order race past the check for an earlier   *)
(* refund, the $gte filters keep the balance within what was released: no  *)
(* credit is created and none is spent that is not there.                  *)
WithinReleased ==
  \A c \in Company :
    /\ 0 <= account[c].available
    /\ account[c].available <= account[c].released

(* A credit comes back only for an order that paid one: a refund past its  *)
(* checks, and every REFUND row, has a CONSUME row of the same company and *)
(* order, whatever happened between the check and the update.              *)
RefundHasConsumption ==
  \A r \in Request :
    (call[r].op = "REFUND"
       /\ pc[r] \in {"giveBack", "register", "unlogged", "rejected"})
      => HasRow("CONSUME", call[r].company, call[r].order)

(* Requests whose update of the counters was made, logged or not.          *)
Applied(op, c) ==
  {r \in Request :
     /\ call[r].op = op /\ call[r].company = c
     /\ \/ pc[r] \in {"register", "unlogged"}
        \/ \E row \in history : row.id = r}

(* Until a whole-document save comes in, no update is lost: the used       *)
(* counter is what the consumptions took less what the refunds gave back,  *)
(* rows still to be written and rows lost with a request included.         *)
UsedReconciled ==
  (\A r \in Request : call[r].op # "SAVE") =>
    \A c \in Company :
      account[c].used = InitialAccount[c].used
        + Cardinality(Applied("CONSUME", c)) - Cardinality(Applied("REFUND", c))
=============================================================================
