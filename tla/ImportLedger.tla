---------------------------- MODULE ImportLedger ----------------------------
(***************************************************************************)
(* What the import of iFood orders promises, without its handlers: an      *)
(* order is paid with one credit of its store, becomes one delivery and    *)
(* is linked to it, in that order and each once. IfoodImport implements    *)
(* it as long as no handler fails between two of its writes.               *)
(***************************************************************************)
EXTENDS Integers

CONSTANTS
  Order,           \* iFood orders
  Company,         \* stores
  ShopOf,          \* the store of each order, or something else when it has none
  InitialCredits   \* the credits each store starts with

VARIABLES
  stage,     \* how far each order has come
  charges,   \* credits consumed for each order
  credits    \* credits each store has left

vars == <<stage, charges, credits>>

Stage == {"none", "paid", "made", "linked"}

Init ==
  /\ stage = [o \in Order |-> "none"]
  /\ charges = [o \in Order |-> 0]
  /\ credits = InitialCredits

Advance(o, from, to) ==
  /\ stage[o] = from
  /\ stage' = [stage EXCEPT ![o] = to]

Pay(o) ==
  /\ Advance(o, "none", "paid")
  /\ ShopOf[o] \in Company
  /\ credits[ShopOf[o]] >= 1
  /\ charges' = [charges EXCEPT ![o] = @ + 1]
  /\ credits' = [credits EXCEPT ![ShopOf[o]] = @ - 1]

Make(o) ==
  /\ Advance(o, "paid", "made")
  /\ UNCHANGED <<charges, credits>>

Connect(o) ==
  /\ Advance(o, "made", "linked")
  /\ UNCHANGED <<charges, credits>>

TopUp(c) ==
  /\ credits' = [credits EXCEPT ![c] = @ + 1]
  /\ UNCHANGED <<stage, charges>>

Next ==
  \/ \E o \in Order : Pay(o) \/ Make(o) \/ Connect(o)
  \/ \E c \in Company : TopUp(c)

Spec == Init /\ [][Next]_vars
=============================================================================
