------------------------- MODULE IfoodCreditsProofs -------------------------
(***************************************************************************)
(* Proofs about IfoodCredits, for any companies, orders, requests and      *)
(* amounts: the counters stay typed, balanced and within what was          *)
(* released, and no credit is given back for an order that paid none.      *)
(***************************************************************************)
EXTENDS IfoodCredits, FiniteSetTheorems, TLAPS

(* A step of one of the actions, for proofs by cases.                      *)
LEMMA NextCases ==
  ASSUME Next
  PROVE  \/ Quiet
         \/ \E r \in Request, u \in Requester, c \in Company, n \in Amount :
              AddCredits(r, u, c, n) \/ RemoveCredits(r, u, c, n)
         \/ \E r \in Request, c \in Company, o \in Order :
              ConsumeCredit(r, c, o) \/ FindRefund(r, c, o)
         \/ \E r \in Request, c \in Company : ReadUser(r, c)
         \/ \E r \in Request :
              FindConsume(r) \/ GiveBack(r) \/ RegisterHistory(r)
                \/ SaveUser(r) \/ Interrupt(r)
BY DEF Next

-----------------------------------------------------------------------------
(* What each request is waiting for agrees with what it asked for: this is *)
(* what makes call[r].copy, call[r].order mean something when they are     *)
(* used.                                                                   *)
CallMatchesPc ==
  \A r \in Request :
    /\ pc[r] = "save" => call[r] \in WholeSave
    /\ pc[r] \in {"findConsume", "giveBack"} =>
         call[r] \in OrderMove /\ call[r].op = "REFUND"
    /\ pc[r] = "register" => call[r] \in Adjustment \cup OrderMove

TypeInv == TypeOK /\ CallMatchesPc

(* The three updates of the counters keep an account an account.           *)
LEMMA AccountUpdates ==
  ASSUME NEW a \in Account, NEW n \in Int
  PROVE  /\ Released(a, n) \in Account
         /\ Removed(a, n) \in Account
         /\ Consumed(a) \in Account
         /\ GivenBack(a) \in Account
BY DEF Account, Moved, Released, Removed, Consumed, GivenBack

LEMMA OverlayIsAccount ==
  ASSUME NEW a \in Account, NEW e \in {NoEdit} \cup CounterEdit
  PROVE  Overlay(a, e) \in Account
BY CreditsAssumption DEF Overlay, Account, Counter, NoEdit

LEMMA TypeInvariant == Spec => []TypeInv
<1>1. Init => TypeInv
  BY CreditsAssumption
     DEF Init, TypeInv, TypeOK, CallMatchesPc, Waiting, Ended, NoCall
<1>2. TypeInv /\ [Next]_vars => TypeInv'
  <2> SUFFICES ASSUME TypeInv, [Next]_vars
               PROVE  TypeInv'
    OBVIOUS
  <2> USE DEF TypeInv, TypeOK, CallMatchesPc, Begin, Goto, Call,
              Adjustment, OrderMove, WholeSave, NoCall, Waiting, Ended
  <2>1. CASE UNCHANGED vars
    BY <2>1 DEF vars
  <2>2. CASE Quiet
    BY <2>2 DEF Quiet, vars
  <2>3. ASSUME NEW r \in Request, NEW u \in Requester, NEW c \in Company,
               NEW n \in Amount, AddCredits(r, u, c, n)
        PROVE  TypeInv'
    <3>1. n \in Int
      BY CreditsAssumption
    <3>2. account' \in [Company -> Account]
      BY <2>3, <3>1, AccountUpdates DEF AddCredits
    <3>. QED
      BY <2>3, <3>2 DEF AddCredits
  <2>4. ASSUME NEW r \in Request, NEW u \in Requester, NEW c \in Company,
               NEW n \in Amount, RemoveCredits(r, u, c, n)
        PROVE  TypeInv'
    <3>1. n \in Int
      BY CreditsAssumption
    <3>2. account' \in [Company -> Account]
      <4>1. account' = [account EXCEPT ![c] = Removed(@, n)] \/ account' = account
        BY <2>4 DEF RemoveCredits
      <4>2. Removed(account[c], n) \in Account
        BY <3>1, AccountUpdates
      <4>. QED
        BY <4>1, <4>2
    <3>. QED
      BY <2>4, <3>2 DEF RemoveCredits
  <2>5. ASSUME NEW r \in Request, NEW c \in Company, NEW o \in Order,
               ConsumeCredit(r, c, o)
        PROVE  TypeInv'
    <3>1. account' \in [Company -> Account]
      BY <2>5, AccountUpdates, 0 \in Int DEF ConsumeCredit
    <3>. QED
      BY <2>5, <3>1 DEF ConsumeCredit
  <2>6. ASSUME NEW r \in Request, NEW c \in Company, NEW o \in Order,
               FindRefund(r, c, o)
        PROVE  TypeInv'
    BY <2>6 DEF FindRefund
  <2>7. ASSUME NEW r \in Request, NEW c \in Company, ReadUser(r, c)
        PROVE  TypeInv'
    BY <2>7 DEF ReadUser
  <2>8. ASSUME NEW r \in Request, FindConsume(r)
        PROVE  TypeInv'
    BY <2>8 DEF FindConsume
  <2>9. ASSUME NEW r \in Request, GiveBack(r)
        PROVE  TypeInv'
    <3>1. account' \in [Company -> Account]
      BY <2>9, AccountUpdates, 0 \in Int DEF GiveBack
    <3>. QED
      BY <2>9, <3>1 DEF GiveBack
  <2>10. ASSUME NEW r \in Request, RegisterHistory(r)
         PROVE  TypeInv'
    BY <2>10 DEF RegisterHistory, Row
  <2>11. ASSUME NEW r \in Request, SaveUser(r)
         PROVE  TypeInv'
    <3>1. account' \in [Company -> Account]
      BY <2>11, OverlayIsAccount DEF SaveUser
    <3>. QED
      BY <2>11, <3>1 DEF SaveUser
  <2>12. ASSUME NEW r \in Request, Interrupt(r)
         PROVE  TypeInv'
    BY <2>12 DEF Interrupt
  <2>. QED
    BY <2>1, <2>2, <2>3, <2>4, <2>5, <2>6, <2>7, <2>8, <2>9, <2>10,
       <2>11, <2>12, NextCases
<1>. QED
  BY <1>1, <1>2, PTL DEF Spec

(* The counters, rows and requests keep their types.                       *)
THEOREM TypeCorrect == Spec => []TypeOK
<1>1. TypeInv => TypeOK
  BY DEF TypeInv
<1>. QED
  BY <1>1, TypeInvariant, PTL

-----------------------------------------------------------------------------
(* The accounts are solvent, and so is every copy of one that a whole      *)
(* document save is about to write back.                                   *)
SolventInv ==
  /\ \A c \in Company : IsSolvent(account[c])
  /\ \A r \in Request : pc[r] = "save" => IsSolvent(call[r].copy)

(* Each update of the counters keeps a solvent account solvent, under the  *)
(* condition its filter checks.                                            *)
LEMMA SolventUpdates ==
  ASSUME NEW a \in Account, NEW n \in Nat, IsSolvent(a)
  PROVE  /\ IsSolvent(Released(a, n))
         /\ CanRemove(a, n) => IsSolvent(Removed(a, n))
         /\ CanConsume(a) => IsSolvent(Consumed(a))
         /\ CanGiveBack(a) => IsSolvent(GivenBack(a))
BY DEF Account, IsSolvent, IsBalanced, Moved, Released, Removed, Consumed,
       GivenBack, CanRemove, CanConsume, CanGiveBack

LEMMA SolventOverlay ==
  ASSUME ConsistentEntry, NEW a \in Account, IsSolvent(a),
         NEW e \in {NoEdit} \cup CounterEdit
  PROVE  IsSolvent(Overlay(a, e))
<1>1. CASE e = NoEdit
  BY <1>1 DEF NoEdit, Overlay, IsSolvent, IsBalanced
<1>2. CASE e \in CounterEdit
  <2>1. e \in Account /\ IsSolvent(e)
    BY <1>2 DEF ConsistentEntry
  <2>2. DOMAIN e = {"released", "used", "available"}
    BY <2>1 DEF Account
  <2>3. Overlay(a, e) = [released |-> e.released, used |-> e.used,
                         available |-> e.available]
    BY <2>1, <2>2 DEF Overlay, Account
  <2>. QED
    BY <2>1, <2>3 DEF IsSolvent, IsBalanced
<1>. QED
  BY <1>1, <1>2

LEMMA SolventInvariant ==
  ASSUME ConsistentEntry
  PROVE  Spec => []SolventInv
<1>1. Init => SolventInv
  BY DEF Init, SolventInv, ConsistentEntry
<1>2. TypeInv /\ SolventInv /\ [Next]_vars => SolventInv'
  <2> SUFFICES ASSUME TypeInv, SolventInv, [Next]_vars
               PROVE  SolventInv'
    OBVIOUS
  <2> USE DEF SolventInv, TypeInv, TypeOK, Begin, Goto
  <2>1. CASE UNCHANGED vars
    BY <2>1 DEF vars
  <2>2. CASE Quiet
    BY <2>2 DEF Quiet, vars
  <2>3. ASSUME NEW r \in Request, NEW u \in Requester, NEW c \in Company,
               NEW n \in Amount, AddCredits(r, u, c, n)
        PROVE  SolventInv'
    <3>1. n \in Nat
      BY CreditsAssumption
    <3>2. IsSolvent(Released(account[c], n))
      BY <3>1, SolventUpdates
    <3>. QED
      BY <2>3, <3>2 DEF AddCredits
  <2>4. ASSUME NEW r \in Request, NEW u \in Requester, NEW c \in Company,
               NEW n \in Amount, RemoveCredits(r, u, c, n)
        PROVE  SolventInv'
    <3>1. n \in Nat
      BY CreditsAssumption
    <3>2. CanRemove(account[c], n) => IsSolvent(Removed(account[c], n))
      BY <3>1, SolventUpdates
    <3>. QED
      BY <2>4, <3>2 DEF RemoveCredits
  <2>5. ASSUME NEW r \in Request, NEW c \in Company, NEW o \in Order,
               ConsumeCredit(r, c, o)
        PROVE  SolventInv'
    <3>1. CanConsume(account[c]) => IsSolvent(Consumed(account[c]))
      BY SolventUpdates
    <3>. QED
      BY <2>5, <3>1 DEF ConsumeCredit
  <2>6. ASSUME NEW r \in Request, NEW c \in Company, NEW o \in Order,
               FindRefund(r, c, o)
        PROVE  SolventInv'
    BY <2>6 DEF FindRefund
  <2>7. ASSUME NEW r \in Request, NEW c \in Company, ReadUser(r, c)
        PROVE  SolventInv'
    BY <2>7 DEF ReadUser
  <2>8. ASSUME NEW r \in Request, FindConsume(r)
        PROVE  SolventInv'
    BY <2>8 DEF FindConsume
  <2>9. ASSUME NEW r \in Request, GiveBack(r)
        PROVE  SolventInv'
    <3>1. call[r].company \in Company
      BY <2>9 DEF GiveBack, CallMatchesPc, OrderMove
    <3>2. CanGiveBack(account[call[r].company])
            => IsSolvent(GivenBack(account[call[r].company]))
      BY <3>1, SolventUpdates
    <3>. QED
      BY <2>9, <3>1, <3>2 DEF GiveBack
  <2>10. ASSUME NEW r \in Request, RegisterHistory(r)
         PROVE  SolventInv'
    BY <2>10 DEF RegisterHistory
  <2>11. ASSUME NEW r \in Request, SaveUser(r)
         PROVE  SolventInv'
    <3>1. call[r].company \in Company /\ call[r].copy \in Account
      BY <2>11 DEF SaveUser, CallMatchesPc, WholeSave
    <3>2. IsSolvent(call[r].copy)
      BY <2>11 DEF SaveUser
    <3>3. \A e \in {NoEdit} \cup CounterEdit : IsSolvent(Overlay(call[r].copy, e))
      BY <3>1, <3>2, SolventOverlay
    <3>. QED
      BY <2>11, <3>1, <3>3 DEF SaveUser
  <2>12. ASSUME NEW r \in Request, Interrupt(r)
         PROVE  SolventInv'
    BY <2>12 DEF Interrupt
  <2>. QED
    BY <2>1, <2>2, <2>3, <2>4, <2>5, <2>6, <2>7, <2>8, <2>9, <2>10,
       <2>11, <2>12, NextCases
<1>. QED
  BY <1>1, <1>2, TypeInvariant, PTL DEF Spec

(* Whatever adjustments, consumptions, racing refunds and whole-document   *)
(* saves run, the counters of a company add up.                            *)
THEOREM CountersBalanced ==
  ASSUME ConsistentEntry
  PROVE  Spec => []Balanced
<1>1. SolventInv => Balanced
  BY DEF SolventInv, Balanced, IsSolvent
<1>. QED
  BY <1>1, SolventInvariant, PTL

(* No interleaving spends a credit that is not there, or gives back more   *)
(* than was released.                                                      *)
THEOREM CreditsWithinReleased ==
  ASSUME ConsistentEntry
  PROVE  Spec => []WithinReleased
<1>1. TypeInv /\ SolventInv => WithinReleased
  <2> SUFFICES ASSUME TypeInv, SolventInv, NEW c \in Company
               PROVE  /\ 0 <= account[c].available
                      /\ account[c].available <= account[c].released
    BY DEF WithinReleased
  <2>1. account[c] \in Account
    BY DEF TypeInv, TypeOK
  <2>2. IsSolvent(account[c])
    BY DEF SolventInv
  <2>. QED
    BY <2>1, <2>2 DEF Account, IsSolvent, IsBalanced
<1>. QED
  BY <1>1, SolventInvariant, TypeInvariant, PTL

-----------------------------------------------------------------------------
(* Rows are never removed or changed.                                      *)
LEMMA HistoryGrows ==
  ASSUME [Next]_vars
  PROVE  history \subseteq history'
BY NextCases
   DEF vars, Quiet, AddCredits, RemoveCredits, ConsumeCredit, FindRefund,
       FindConsume, GiveBack, RegisterHistory, ReadUser, SaveUser, Interrupt

(* A refund that got past its checks is a refund of a consumed credit.     *)
THEOREM RefundsHaveConsumption == Spec => []RefundHasConsumption
<1>1. Init => RefundHasConsumption
  BY DEF Init, RefundHasConsumption
<1>2. TypeInv /\ RefundHasConsumption /\ [Next]_vars => RefundHasConsumption'
  <2> SUFFICES ASSUME TypeInv, RefundHasConsumption, [Next]_vars,
                      NEW q \in Request, call'[q].op = "REFUND",
                      pc'[q] \in {"giveBack", "register", "unlogged", "rejected"}
               PROVE  \E row \in history' :
                        row.entry = [op |-> "CONSUME",
                                     company |-> call'[q].company,
                                     order |-> call'[q].order]
    BY DEF RefundHasConsumption, HasRow
  <2>1. HasRow("CONSUME", call'[q].company, call'[q].order)
    <3> USE DEF RefundHasConsumption, TypeInv, TypeOK, Begin, Goto
    <3>1. CASE UNCHANGED <<call[q], pc[q]>>
      BY <3>1
    <3>2. CASE FindConsume(q)
      BY <3>2 DEF FindConsume
    <3>3. CASE GiveBack(q)
      BY <3>3 DEF GiveBack
    <3>4. CASE Interrupt(q)
      BY <3>4 DEF Interrupt, Waiting
    <3>5. UNCHANGED <<call[q], pc[q]>> \/ FindConsume(q) \/ GiveBack(q) \/ Interrupt(q)
      BY NextCases
         DEF vars, Quiet, AddCredits, RemoveCredits, ConsumeCredit, FindRefund,
             FindConsume, GiveBack, RegisterHistory, ReadUser, SaveUser, Interrupt
    <3>. QED
      BY <3>1, <3>2, <3>3, <3>4, <3>5
  <2>. QED
    BY <2>1, HistoryGrows DEF HasRow
<1>. QED
  BY <1>1, <1>2, TypeInvariant, PTL DEF Spec

-----------------------------------------------------------------------------
(* The used counter against the requests that moved it.                    *)

(* Updates are counted once: a request has its row when it is done, so one *)
(* that has still to write it is counted for where it stands.              *)
ReconciledInv ==
  /\ \A r \in Request : pc[r] = "idle" => call[r].op # "SAVE"
  /\ \A row \in history : pc[row.id] = "done"
  /\ \A op \in {"CONSUME", "REFUND"}, c \in Company : IsFiniteSet(Applied(op, c))
  /\ UsedReconciled

(* A request that moves on without an update, or is done with its row, is  *)
(* counted as before.                                                      *)
LEMMA AppliedStays ==
  ASSUME TypeInv, \A row \in history : pc[row.id] = "done",
         NEW r \in Request, NEW op \in {"CONSUME", "REFUND"}, NEW c \in Company,
         \A q \in Request \ {r} : call'[q] = call[q] /\ pc'[q] = pc[q],
         \/ /\ pc[r] = "register" /\ pc'[r] = "unlogged"
            /\ call'[r] = call[r] /\ history' = history
         \/ /\ pc[r] = "register" /\ pc'[r] = "done" /\ call'[r] = call[r]
            /\ history' = history \cup {[id |-> r, entry |-> call[r]]}
         \/ /\ pc[r] \in {"idle", "findConsume", "giveBack", "save"}
            /\ pc'[r] \notin {"register", "unlogged"} \/ call'[r].op # op
            /\ history' = history
  PROVE  Applied(op, c)' = Applied(op, c)
<1>1. ASSUME NEW q \in Request \ {r}
      PROVE  q \in Applied(op, c)' <=> q \in Applied(op, c)
  BY <1>1 DEF Applied
<1>2. r \in Applied(op, c)' <=> r \in Applied(op, c)
  <2>1. pc[r] # "done" /\ ~ \E row \in history : row.id = r
    OBVIOUS
  <2>2. CASE pc'[r] = "unlogged" /\ call'[r] = call[r] /\ pc[r] = "register"
             /\ history' = history
    BY <2>1, <2>2 DEF Applied, TypeInv, TypeOK
  <2>3. CASE /\ pc[r] = "register" /\ call'[r] = call[r]
             /\ history' = history \cup {[id |-> r, entry |-> call[r]]}
    <3>. DEFINE new == [id |-> r, entry |-> call[r]]
    <3>1. new \in history' /\ new.id = r
      BY <2>3
    <3>. QED
      BY <2>3, <3>1 DEF Applied
  <2>4. CASE /\ pc[r] \in {"idle", "findConsume", "giveBack", "save"}
             /\ pc'[r] \notin {"register", "unlogged"} \/ call'[r].op # op
             /\ history' = history
    BY <2>1, <2>4 DEF Applied
  <2>. QED
    BY <2>2, <2>3, <2>4
<1>. QED
  BY <1>1, <1>2 DEF Applied

(* A request that has made its update is one more.                         *)
LEMMA AppliedGrows ==
  ASSUME TypeInv, \A row \in history : pc[row.id] = "done",
         NEW r \in Request, NEW op \in {"CONSUME", "REFUND"}, NEW c \in Company,
         \A q \in Request \ {r} : call'[q] = call[q] /\ pc'[q] = pc[q],
         pc[r] \in {"idle", "giveBack"}, pc'[r] = "register", history' = history,
         call'[r].op = op,
         IsFiniteSet(Applied(op, c))
  PROVE  /\ IsFiniteSet(Applied(op, c)')
         /\ Cardinality(Applied(op, c)') =
              Cardinality(Applied(op, c)) + (IF call'[r].company = c THEN 1 ELSE 0)
<1>1. ASSUME NEW q \in Request \ {r}
      PROVE  q \in Applied(op, c)' <=> q \in Applied(op, c)
  BY <1>1 DEF Applied
<1>2. r \notin Applied(op, c) /\ (r \in Applied(op, c)' <=> call'[r].company = c)
  <2>1. ~ \E row \in history : row.id = r
    OBVIOUS
  <2>. QED
    BY <2>1 DEF Applied
<1>3. Applied(op, c)' = IF call'[r].company = c THEN Applied(op, c) \cup {r}
                        ELSE Applied(op, c)
  BY <1>1, <1>2 DEF Applied
<1>. QED
  BY <1>2, <1>3, FS_AddElement, FS_CardinalityType

(* Where a step leaves the counts as they are, and the used counter too,   *)
(* the two still agree.                                                    *)
LEMMA ReconciledStays ==
  ASSUME TypeInv, ReconciledInv, NEW r \in Request,
         \A row \in history' : pc'[row.id] = "done",
         \A q \in Request : pc'[q] = "idle" => call'[q].op # "SAVE",
         \A q \in Request : call[q].op = "SAVE" => call'[q].op = "SAVE",
         \A op \in {"CONSUME", "REFUND"}, c \in Company :
           Applied(op, c)' = Applied(op, c),
         (\A q \in Request : call'[q].op # "SAVE") =>
           \A c \in Company : account'[c].used = account[c].used
  PROVE  ReconciledInv'
<1>1. \A op \in {"CONSUME", "REFUND"}, c \in Company : IsFiniteSet(Applied(op, c)')
  BY DEF ReconciledInv
<1>2. ASSUME \A q \in Request : call'[q].op # "SAVE", NEW c \in Company
      PROVE  account'[c].used = InitialAccount[c].used
               + Cardinality(Applied("CONSUME", c)') - Cardinality(Applied("REFUND", c)')
  <2>1. account[c].used = InitialAccount[c].used
          + Cardinality(Applied("CONSUME", c)) - Cardinality(Applied("REFUND", c))
    BY <1>2 DEF ReconciledInv, UsedReconciled
  <2>2. account'[c].used = account[c].used
    BY <1>2
  <2>. QED
    BY <2>1, <2>2
<1>. QED
  BY <1>1, <1>2 DEF ReconciledInv, UsedReconciled

(* A request that moves between its round trips.                           *)
Moves(r) ==
  /\ \A q \in Request \ {r} : call'[q] = call[q] /\ pc'[q] = pc[q]
  /\ pc'[r] # "idle"
  /\ pc[r] = "idle" \/ call'[r] = call[r]

LEMMA QuietMove ==
  ASSUME TypeInv, ReconciledInv, NEW r \in Request, Moves(r),
         \/ /\ pc[r] = "register" /\ pc'[r] = "unlogged" /\ history' = history
         \/ /\ pc[r] = "register" /\ pc'[r] = "done"
            /\ history' = history \cup {[id |-> r, entry |-> call[r]]}
         \/ /\ pc[r] \in {"idle", "findConsume", "giveBack", "save"}
            /\ \/ pc'[r] \notin {"register", "unlogged"}
               \/ call'[r].op \in {"ADD", "REMOVE"}
            /\ history' = history,
         \/ call'[r].op = "SAVE"
         \/ \A c \in Company : account'[c].used = account[c].used
  PROVE  ReconciledInv'
<1>1. \A row \in history : pc[row.id] = "done" /\ row.id \in Request
  BY DEF ReconciledInv, TypeInv, TypeOK, Row
<1>2. \A row \in history' : pc'[row.id] = "done"
  BY <1>1 DEF Moves
<1>3. \A q \in Request : pc'[q] = "idle" => call'[q].op # "SAVE"
  BY DEF Moves, ReconciledInv
<1>4. \A q \in Request : call[q].op = "SAVE" => call'[q].op = "SAVE"
  BY DEF Moves, ReconciledInv
<1>5. ASSUME NEW op \in {"CONSUME", "REFUND"}, NEW c \in Company
      PROVE  Applied(op, c)' = Applied(op, c)
  <2>1. call'[r].op \in {"ADD", "REMOVE"} => call'[r].op # op
    OBVIOUS
  <2>. QED
    BY <1>1, <2>1, AppliedStays DEF Moves
<1>. QED
  BY <1>2, <1>3, <1>4, <1>5, ReconciledStays

(* A consumption or a refund at its update.                                *)
LEMMA CountedMove ==
  ASSUME TypeInv, ReconciledInv, NEW r \in Request, Moves(r),
         pc[r] \in {"idle", "giveBack"}, pc'[r] = "register", history' = history,
         NEW d \in Company, call'[r].company = d,
         \/ /\ call'[r].op = "CONSUME" /\ account' = [account EXCEPT ![d] = Consumed(@)]
         \/ /\ call'[r].op = "REFUND" /\ account' = [account EXCEPT ![d] = GivenBack(@)]
  PROVE  ReconciledInv'
<1>1. \A row \in history' : pc[row.id] = "done" /\ row.id \in Request
  BY DEF ReconciledInv, TypeInv, TypeOK, Row
<1>2. \A row \in history' : pc'[row.id] = "done"
  BY <1>1 DEF Moves
<1>3. \A q \in Request : pc'[q] = "idle" => call'[q].op # "SAVE"
  BY DEF Moves, ReconciledInv
<1>4. \A q \in Request : call[q].op = "SAVE" => call'[q].op = "SAVE"
  BY DEF Moves, ReconciledInv
<1>. DEFINE one(op, c) == IF call'[r].op = op /\ c = d THEN 1 ELSE 0
<1>5. ASSUME NEW op \in {"CONSUME", "REFUND"}, NEW c \in Company
      PROVE  /\ IsFiniteSet(Applied(op, c)')
             /\ Cardinality(Applied(op, c)') = Cardinality(Applied(op, c)) + one(op, c)
             /\ Cardinality(Applied(op, c)) \in Nat
  <2>1. IsFiniteSet(Applied(op, c)) /\ Cardinality(Applied(op, c)) \in Nat
    BY FS_CardinalityType DEF ReconciledInv
  <2>2. CASE call'[r].op = op
    BY <1>1, <2>1, <2>2, AppliedGrows DEF Moves
  <2>3. CASE call'[r].op # op
    <3>1. Applied(op, c)' = Applied(op, c)
      <4>1. \A q \in Request : q \in Applied(op, c)' <=> q \in Applied(op, c)
        BY <2>3, <1>1 DEF Applied, Moves
      <4>. QED
        BY <4>1 DEF Applied
    <3>. QED
      BY <2>1, <2>3, <3>1
  <2>. QED
    BY <2>2, <2>3
<1>6. ASSUME NEW c \in Company
      PROVE  /\ account[c].used \in Int
             /\ account'[c].used = account[c].used + one("CONSUME", c) - one("REFUND", c)
  <2>1. account[c] \in Account /\ account \in [Company -> Account]
    BY DEF TypeInv, TypeOK
  <2>. QED
    BY <2>1 DEF Account, Consumed, GivenBack, Moved
<1>7. ASSUME \A q \in Request : call'[q].op # "SAVE", NEW c \in Company
      PROVE  account'[c].used = InitialAccount[c].used
               + Cardinality(Applied("CONSUME", c)') - Cardinality(Applied("REFUND", c)')
  <2>1. account[c].used = InitialAccount[c].used
          + Cardinality(Applied("CONSUME", c)) - Cardinality(Applied("REFUND", c))
    BY <1>4, <1>7 DEF ReconciledInv, UsedReconciled
  <2>2. InitialAccount[c].used \in Int
    BY CreditsAssumption DEF Account
  <2>. HIDE DEF one
  <2>3. one("CONSUME", c) \in Int /\ one("REFUND", c) \in Int
    BY DEF one
  <2>. QED
    BY <2>1, <2>2, <2>3, <1>5, <1>6
<1>. QED
  BY <1>2, <1>3, <1>5, <1>7 DEF ReconciledInv, UsedReconciled

(* consumeCreditForOrder and refundCreditForOrder: until a save of a whole *)
(* user comes in, no $inc is lost or made twice.  The used counter is what *)
(* the consumptions took less what the refunds gave back, those without a  *)
(* row included.                                                           *)
THEOREM UsedIsReconciled == Spec => []UsedReconciled
<1>1. Init => ReconciledInv
  <2>. SUFFICES ASSUME Init
                PROVE  ReconciledInv
    OBVIOUS
  <2>1. \A op \in {"CONSUME", "REFUND"}, c \in Company : Applied(op, c) = {}
    BY DEF Init, Applied, NoCall
  <2>2. \A c \in Company : InitialAccount[c].used \in Int
    BY CreditsAssumption DEF Account
  <2>3. \A c \in Company : account[c].used = InitialAccount[c].used + 0 - 0
    BY <2>2 DEF Init
  <2>4. UsedReconciled
    BY <2>1, <2>3, FS_EmptySet DEF UsedReconciled
  <2>5. \A op \in {"CONSUME", "REFUND"}, c \in Company : IsFiniteSet(Applied(op, c))
    BY <2>1, FS_EmptySet
  <2>. QED
    BY <2>4, <2>5 DEF Init, ReconciledInv, NoCall
<1>2. TypeInv /\ ReconciledInv /\ [Next]_vars => ReconciledInv'
  <2>. SUFFICES ASSUME TypeInv, ReconciledInv, [Next]_vars
                PROVE  ReconciledInv'
    OBVIOUS
  <2>. USE DEF Begin, Goto, Moves
  <2>0. /\ call \in [Request -> Call \cup {NoCall}] /\ account \in [Company -> Account]
        /\ pc \in [Request -> {"idle"} \cup Waiting \cup Ended]
    BY DEF TypeInv, TypeOK
  <2>1. CASE UNCHANGED vars \/ Quiet
    <3>1. UNCHANGED vars
      BY <2>1 DEF Quiet
    <3>. QED
      BY <3>1 DEF vars, ReconciledInv, UsedReconciled, Applied
  <2>2. ASSUME NEW r \in Request, NEW u \in Requester, NEW c \in Company,
               NEW n \in Amount, AddCredits(r, u, c, n)
        PROVE  ReconciledInv'
    <3>1. n \in Int
      BY CreditsAssumption
    <3>2. \A d \in Company : account'[d].used = account[d].used
      BY <2>0, <2>2, <3>1 DEF AddCredits, Released, Moved, Account
    <3>. QED
      BY <2>0, <2>2, <3>2, QuietMove DEF AddCredits
  <2>3. ASSUME NEW r \in Request, NEW u \in Requester, NEW c \in Company,
               NEW n \in Amount, RemoveCredits(r, u, c, n)
        PROVE  ReconciledInv'
    <3>1. n \in Int
      BY CreditsAssumption
    <3>2. \A d \in Company : account'[d].used = account[d].used
      BY <2>0, <2>3, <3>1 DEF RemoveCredits, Removed, Moved, Account
    <3>. QED
      BY <2>0, <2>3, <3>2, QuietMove DEF RemoveCredits
  <2>4. ASSUME NEW r \in Request, NEW c \in Company, NEW o \in Order,
               ConsumeCredit(r, c, o)
        PROVE  ReconciledInv'
    <3>1. Moves(r) /\ pc[r] = "idle" /\ history' = history
          /\ call'[r].op = "CONSUME" /\ call'[r].company = c
      BY <2>0, <2>4 DEF ConsumeCredit
    <3>2. \/ pc'[r] = "register" /\ account' = [account EXCEPT ![c] = Consumed(@)]
          \/ pc'[r] = "rejected" /\ account' = account
      BY <2>0, <2>4 DEF ConsumeCredit
    <3>. QED
      BY <3>1, <3>2, QuietMove, CountedMove
  <2>5. ASSUME NEW r \in Request, NEW c \in Company, NEW o \in Order,
               FindRefund(r, c, o)
        PROVE  ReconciledInv'
    BY <2>0, <2>5, QuietMove DEF FindRefund
  <2>6. ASSUME NEW r \in Request, NEW c \in Company, ReadUser(r, c)
        PROVE  ReconciledInv'
    BY <2>0, <2>6, QuietMove DEF ReadUser
  <2>7. ASSUME NEW r \in Request, FindConsume(r)
        PROVE  ReconciledInv'
    BY <2>0, <2>7, QuietMove DEF FindConsume
  <2>8. ASSUME NEW r \in Request, GiveBack(r)
        PROVE  ReconciledInv'
    <3>1. Moves(r) /\ pc[r] = "giveBack" /\ history' = history /\ call' = call
          /\ call[r] \in OrderMove /\ call[r].op = "REFUND"
      BY <2>0, <2>8 DEF GiveBack, TypeInv, CallMatchesPc
    <3>2. call[r].company \in Company
      BY <3>1 DEF OrderMove
    <3>3. \/ /\ pc'[r] = "register"
             /\ account' = [account EXCEPT ![call[r].company] = GivenBack(@)]
          \/ pc'[r] = "rejected" /\ account' = account
      BY <2>0, <2>8 DEF GiveBack
    <3>. QED
      BY <3>1, <3>2, <3>3, QuietMove, CountedMove
  <2>9. ASSUME NEW r \in Request, RegisterHistory(r)
        PROVE  ReconciledInv'
    BY <2>0, <2>9, QuietMove DEF RegisterHistory
  <2>10. ASSUME NEW r \in Request, SaveUser(r)
         PROVE  ReconciledInv'
    <3>1. call'[r].op = "SAVE"
      BY <2>0, <2>10 DEF SaveUser, TypeInv, CallMatchesPc, WholeSave
    <3>. QED
      BY <2>0, <2>10, <3>1, QuietMove DEF SaveUser
  <2>11. ASSUME NEW r \in Request, Interrupt(r)
         PROVE  ReconciledInv'
    BY <2>0, <2>11, QuietMove DEF Interrupt, Waiting
  <2>. QED
    BY <2>1, <2>2, <2>3, <2>4, <2>5, <2>6, <2>7, <2>8, <2>9, <2>10, <2>11, NextCases
<1>3. ReconciledInv => UsedReconciled
  BY DEF ReconciledInv
<1>. QED
  BY <1>1, <1>2, <1>3, TypeInvariant, PTL DEF Spec
=============================================================================
