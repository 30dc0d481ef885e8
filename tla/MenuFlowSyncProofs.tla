------------------------- MODULE MenuFlowSyncProofs -------------------------
(***************************************************************************)
(* Proofs about MenuFlowSync, for any deliveries, calls and orders, any    *)
(* failures of MenuFlow and the database, any number of restarts.          *)
(***************************************************************************)
EXTENDS MenuFlowSync, FiniteSetTheorems, TLAPS

-----------------------------------------------------------------------------
(* The inductive invariant                                                 *)

(* What each handler has in hand.                                          *)
Holding(c) == pc[c] \in {"write", "merge", "update"}

CallsFit ==
  \A c \in Call :
    /\ pc[c] \in {"save", "again"} => call[c] \in Local /\ call[c].order \in Order
    /\ Holding(c) =>
         /\ call[c] \in Local /\ call[c].delivery \in Stored /\ call[c].copy \in Document
         /\ call[c].copy.order = delivery[call[c].delivery].order
    /\ pc[c] = "update" => call[c].current \in Document

(* What the synchronisation has in hand.                                   *)
Sending(t) == sync[t].pc \in {"post", "clear"}

SyncFits ==
  /\ due \subseteq Stored
  /\ \A t \in Task : /\ sync[t].pc # "idle" => sync[t].delivery \in Stored
                     /\ Sending(t) => sync[t].copy \in Document
  /\ \A d \in Delivery : known[d] # None => known[d].delivery = d

(* Everything anybody holds of a delivery is a version of its document:    *)
(* the document itself, copies, what MenuFlow knows and may still get.     *)
VersionOf(d) ==
  [delivery |-> d, status |-> delivery[d].status, at |-> delivery[d].updatedAt]
CopyOf(c) ==
  [delivery |-> call[c].delivery, status |-> call[c].copy.status, at |-> call[c].copy.updatedAt]
CurrentOf(c) ==
  [delivery |-> call[c].delivery, status |-> call[c].current.status,
   at |-> call[c].current.updatedAt]

IsVersion(v) ==
  \/ \E d \in Stored : v = VersionOf(d)
  \/ \E c \in Call : Holding(c) /\ v = CopyOf(c)
  \/ \E c \in Call : pc[c] = "update" /\ v = CurrentOf(c)
  \/ \E t \in Task : Sending(t) /\ v = NewsOf(t)
  \/ \E d \in Delivery : known[d] # None /\ v = known[d]
  \/ v \in late

(* A version is told by its time, and none is newer than the document.     *)
VersionsFit ==
  /\ \A v \in News :
       IsVersion(v) =>
         /\ v.delivery \in Stored /\ v.at <= clock
         /\ v.delivery \notin overwritten => v.at <= delivery[v.delivery].updatedAt
  /\ \A v, w \in News :
       IsVersion(v) /\ IsVersion(w) /\ v.delivery = w.delivery /\ v.at = w.at
         => v.status = w.status

(* The time an update will stamp its document with is nobody else's.       *)
StampsFit ==
  \A c \in Call :
    pc[c] = "update" =>
      /\ call[c].stamp <= clock /\ call[c].copy.updatedAt < call[c].stamp
      /\ \A v \in News :
           IsVersion(v) /\ v.delivery = call[c].delivery => v.at # call[c].stamp
      /\ \A b \in Call \ {c} : pc[b] = "update" => call[b].stamp # call[c].stamp
      /\ call[c].delivery \notin overwritten =>
           call[c].copy.updatedAt <= call[c].current.updatedAt

(* What is being sent is what the document says, unless they crossed; once *)
(* MenuFlow has answered, it knows it.                                     *)
SentFits ==
  \A t \in Task :
    Sending(t) /\ sync[t].delivery \notin crossed =>
      /\ sync[t].copy.status = delivery[sync[t].delivery].status
      /\ sync[t].copy.updatedAt = delivery[sync[t].delivery].updatedAt
      /\ sync[t].pc = "clear" /\ sync[t].delivery \notin overwritten =>
           /\ known[sync[t].delivery] # None
           /\ known[sync[t].delivery].at = sync[t].copy.updatedAt

(* A delivery that is not pending is known, and no late post undoes that.  *)
SettledFor(d) ==
  /\ Believed(d) = delivery[d].status
  /\ \A n \in late :
       n.delivery = d /\ (known[d] = None \/ n.at >= known[d].at)
         => n.status = delivery[d].status

Settled ==
  \A d \in Stored \ (crossed \cup overwritten) : ~ delivery[d].pending => SettledFor(d)

SyncInv ==
  /\ TypeOK /\ CallsFit /\ SyncFits
  /\ VersionsFit /\ StampsFit
  /\ SentFits /\ Settled

LEMMA SyncStarts == Init => SyncInv
<1>. SUFFICES ASSUME Init
              PROVE  SyncInv
  OBVIOUS
<1>1. Idle \in SyncState
  BY DEF Idle, SyncState
<1>2. TypeOK
  <2>1. chain \in Seq(Task) /\ clock \in Nat /\ restarts \in Nat
    BY DEF Init
  <2>2. /\ delivery \in [Delivery -> Document \cup {None}]
        /\ call \in [Call -> Local \cup {NoLocal}]
        /\ answer \in [Call -> Delivery \cup {None}]
        /\ sync \in [Task -> SyncState]
        /\ known \in [Delivery -> News \cup {None}]
    BY <1>1 DEF Init
  <2>3. /\ pc \in [Call -> {"idle", "save", "again", "write", "merge", "update", "ended"}]
        /\ retrying \in BOOLEAN /\ due \subseteq Delivery /\ late \subseteq News
        /\ crossed \subseteq Delivery /\ overwritten \subseteq Delivery
    BY DEF Init
  <2>. QED
    BY <2>1, <2>2, <2>3 DEF TypeOK
<1>3. Stored = {} /\ CallsFit /\ SyncFits
  BY DEF Init, Stored, CallsFit, SyncFits, Holding, Sending, Idle
<1>4. \A v \in News : ~ IsVersion(v)
  BY <1>3 DEF Init, IsVersion, Holding, Sending, Idle
<1>. QED
  BY <1>2, <1>3, <1>4 DEF Init, SyncInv, VersionsFit, StampsFit, SentFits, Settled, Sending, Idle

-----------------------------------------------------------------------------
(* What the parts of the invariant need of a step                          *)

(* The documents say the same to everybody but the timer.                  *)
SameDocuments ==
  /\ Stored' = Stored
  /\ \A d \in Stored : /\ delivery'[d].status = delivery[d].status
                       /\ delivery'[d].updatedAt = delivery[d].updatedAt
                       /\ delivery'[d].order = delivery[d].order

NoNewVersion == \A v \in News : IsVersion(v)' => IsVersion(v)

LEMMA VersionsStay ==
  ASSUME SyncInv, SameDocuments, NoNewVersion, clock' \in Nat, clock <= clock',
         UNCHANGED overwritten
  PROVE  VersionsFit'
<1>1. ASSUME NEW v \in News, IsVersion(v)'
      PROVE  /\ v.delivery \in Stored' /\ v.at <= clock'
             /\ v.delivery \notin overwritten' => v.at <= delivery'[v.delivery].updatedAt
  <2>1. IsVersion(v)
    BY <1>1 DEF NoNewVersion
  <2>2. /\ v.delivery \in Stored /\ v.at <= clock
        /\ v.delivery \notin overwritten => v.at <= delivery[v.delivery].updatedAt
    BY <2>1 DEF SyncInv, VersionsFit
  <2>3. v.at \in Nat /\ clock \in Nat
    BY DEF News, SyncInv, TypeOK
  <2>4. v.at <= clock'
    BY <2>2, <2>3
  <2>. QED
    BY <2>2, <2>4 DEF SameDocuments
<1>2. ASSUME NEW v \in News, NEW w \in News, IsVersion(v)', IsVersion(w)',
             v.delivery = w.delivery, v.at = w.at
      PROVE  v.status = w.status
  BY <1>2 DEF NoNewVersion, SyncInv, VersionsFit
<1>. QED
  BY <1>1, <1>2 DEF VersionsFit

LEMMA StampsStay ==
  ASSUME SyncInv, clock' \in Nat, clock <= clock', overwritten \subseteq overwritten',
         \A c \in Call : pc'[c] = "update" => pc[c] = "update" /\ call'[c] = call[c],
         \A v \in News :
           IsVersion(v)' =>
             \/ IsVersion(v)
             \/ \A c \in Call : pc'[c] = "update" => v.at # call[c].stamp
  PROVE  StampsFit'
<1>. SUFFICES ASSUME NEW c \in Call, pc'[c] = "update"
              PROVE  (/\ call[c].stamp <= clock /\ call[c].copy.updatedAt < call[c].stamp
                      /\ \A v \in News :
                           IsVersion(v) /\ v.delivery = call[c].delivery => v.at # call[c].stamp
                      /\ \A b \in Call \ {c} : pc[b] = "update" => call[b].stamp # call[c].stamp
                      /\ call[c].delivery \notin overwritten =>
                           call[c].copy.updatedAt <= call[c].current.updatedAt)'
  BY DEF StampsFit
<1>1. /\ pc[c] = "update" /\ call'[c] = call[c]
      /\ call[c].stamp <= clock /\ call[c].copy.updatedAt < call[c].stamp
      /\ \A v \in News :
           IsVersion(v) /\ v.delivery = call[c].delivery => v.at # call[c].stamp
      /\ \A b \in Call \ {c} : pc[b] = "update" => call[b].stamp # call[c].stamp
      /\ call[c].delivery \notin overwritten =>
           call[c].copy.updatedAt <= call[c].current.updatedAt
  BY DEF SyncInv, StampsFit
<1>2. call[c].stamp \in Nat /\ clock \in Nat
  <2>1. call[c] \in Local
    BY <1>1 DEF SyncInv, CallsFit, Holding
  <2>. QED
    BY <2>1 DEF Local, SyncInv, TypeOK
<1>3. call[c].stamp <= clock'
  BY <1>1, <1>2
<1>4. ASSUME NEW v \in News, IsVersion(v)', v.delivery = call[c].delivery
      PROVE  v.at # call[c].stamp
  BY <1>1, <1>4
<1>5. \A b \in Call \ {c} : pc'[b] = "update" => call'[b].stamp # call'[c].stamp
  BY <1>1
<1>. QED
  BY <1>1, <1>3, <1>4, <1>5

(* The news of d stay or grow old, and its document stays.                 *)
LEMMA SentStays ==
  ASSUME SyncInv, SameDocuments, UNCHANGED <<known, crossed, overwritten>>,
         \A t \in Task : Sending(t)' => Sending(t) /\ sync'[t] = sync[t]
  PROVE  SentFits'
<1>. SUFFICES ASSUME NEW t \in Task, Sending(t)', sync'[t].delivery \notin crossed'
              PROVE  (/\ sync[t].copy.status = delivery[sync[t].delivery].status
                      /\ sync[t].copy.updatedAt = delivery[sync[t].delivery].updatedAt
                      /\ sync[t].pc = "clear" /\ sync[t].delivery \notin overwritten =>
                           /\ known[sync[t].delivery] # None
                           /\ known[sync[t].delivery].at = sync[t].copy.updatedAt)'
  BY DEF SentFits
<1>1. sync'[t] = sync[t] /\ Sending(t) /\ sync[t].delivery \in Stored
  BY DEF SyncInv, SyncFits, Sending
<1>. QED
  BY <1>1 DEF SyncInv, SentFits, SameDocuments

LEMMA SettledStays ==
  ASSUME SyncInv, SameDocuments, UNCHANGED <<known, crossed, overwritten>>,
         \A d \in Stored : delivery'[d].pending = delivery[d].pending \/ delivery'[d].pending,
         late' \subseteq late
  PROVE  Settled'
<1>. SUFFICES ASSUME NEW d \in Stored' \ (crossed' \cup overwritten'), ~ delivery'[d].pending
              PROVE  SettledFor(d)'
  BY DEF Settled
<1>1. d \in Stored \ (crossed \cup overwritten) /\ ~ delivery[d].pending
  BY DEF SameDocuments
<1>2. SettledFor(d)
  BY <1>1 DEF SyncInv, Settled
<1>. QED
  BY <1>1, <1>2 DEF SettledFor, Believed, SameDocuments

(* Types of what is stored.                                                *)
LEMMA StoredIsDocument ==
  ASSUME TypeOK, NEW d \in Stored
  PROVE  d \in Delivery /\ delivery[d] \in Document
         /\ delivery[d].order \in Order /\ delivery[d].status \in Status
         /\ delivery[d].updatedAt \in Nat /\ delivery[d].pending \in BOOLEAN
         /\ delivery[d].active \in BOOLEAN
<1>1. d \in Delivery /\ delivery[d] # None
  BY DEF Stored
<1>2. delivery[d] \in Document
  BY <1>1 DEF TypeOK
<1>. QED
  BY <1>1, <1>2 DEF Document

LEMMA VersionsAreNews ==
  ASSUME SyncInv
  PROVE  /\ \A d \in Stored : VersionOf(d) \in News
         /\ \A c \in Call : Holding(c) => CopyOf(c) \in News
         /\ \A c \in Call : pc[c] = "update" => CurrentOf(c) \in News
         /\ \A t \in Task : Sending(t) => NewsOf(t) \in News
         /\ \A d \in Delivery : known[d] # None => known[d] \in News
<1>1. \A d \in Stored : VersionOf(d) \in News
  BY StoredIsDocument DEF SyncInv, VersionOf, News
<1>2. ASSUME NEW c \in Call, Holding(c)
      PROVE  CopyOf(c) \in News
  <2>1. call[c].copy \in Document /\ call[c].delivery \in Delivery
    BY <1>2 DEF SyncInv, CallsFit, Stored
  <2>. QED
    BY <2>1 DEF CopyOf, News, Document
<1>3. ASSUME NEW c \in Call, pc[c] = "update"
      PROVE  CurrentOf(c) \in News
  <2>1. call[c].current \in Document /\ call[c].delivery \in Delivery
    BY <1>3 DEF SyncInv, CallsFit, Stored, Holding
  <2>. QED
    BY <2>1 DEF CurrentOf, News, Document
<1>4. ASSUME NEW t \in Task, Sending(t)
      PROVE  NewsOf(t) \in News
  <2>1. sync[t].copy \in Document /\ sync[t].delivery \in Delivery
    BY <1>4 DEF SyncInv, SyncFits, Stored, Sending
  <2>. QED
    BY <2>1 DEF NewsOf, News, Document
<1>5. \A d \in Delivery : known[d] # None => known[d] \in News
  BY DEF SyncInv, TypeOK
<1>. QED
  BY <1>1, <1>2, <1>3, <1>4, <1>5

-----------------------------------------------------------------------------
(* Handlers                                                                *)

Step5 == {"idle", "save", "again", "write", "merge", "update", "ended"}

OtherCalls(c) == \A b \in Call \ {c} : call'[b] = call[b] /\ pc'[b] = pc[b]

CallsTyped == call \in [Call -> Local \cup {NoLocal}] /\ pc \in [Call -> Step5]

LEMMA Begins ==
  ASSUME SyncInv, NEW c \in Call, NEW op \in Op, NEW o \in Order \cup {None},
         NEW d \in Stored \cup {None}, NEW body \in Status \cup {None},
         NEW next \in Step5, Begin(c, op, o, d, body, next)
  PROVE  /\ CallsTyped' /\ OtherCalls(c)
         /\ pc'[c] = next /\ call'[c] \in Local /\ call'[c].order = o /\ call'[c].delivery = d
         /\ call'[c].copy = IF d = None THEN None ELSE delivery[d]
<1>. DEFINE local == [op |-> op, order |-> o, delivery |-> d,
                      copy |-> IF d = None THEN None ELSE delivery[d], current |-> None,
                      body |-> body, stamp |-> 0]
<1>1. d \in Delivery \cup {None}
      /\ (IF d = None THEN None ELSE delivery[d]) \in Document \cup {None}
  BY StoredIsDocument DEF SyncInv, Stored
<1>2. local \in Local
  BY <1>1 DEF Local
<1>3. call' = [call EXCEPT ![c] = local] /\ pc' = [pc EXCEPT ![c] = next]
  BY DEF Begin
<1>4. call \in [Call -> Local \cup {NoLocal}] /\ pc \in [Call -> Step5]
  BY DEF SyncInv, TypeOK, Step5
<1>5. local.order = o /\ local.delivery = d
      /\ local.copy = IF d = None THEN None ELSE delivery[d]
  OBVIOUS
<1>. HIDE DEF local
<1>. QED
  BY <1>2, <1>3, <1>4, <1>5 DEF CallsTyped, OtherCalls

LEMMA Finishes ==
  ASSUME SyncInv, NEW c \in Call, Finish(c)
  PROVE  CallsTyped' /\ OtherCalls(c) /\ pc'[c] = "ended"
BY DEF Finish, SyncInv, TypeOK, Step5, CallsTyped, OtherCalls

(* A call that writes no document.                                         *)
LEMMA QuietCall ==
  ASSUME SyncInv, NEW c \in Call, CallsTyped', OtherCalls(c),
         answer' \in [Call -> Delivery \cup {None}],
         UNCHANGED <<delivery, clock, process, outside, restarts, past>>,
         pc'[c] # "update",
         pc'[c] \in {"save", "again"} => call'[c] \in Local /\ call'[c].order \in Order,
         Holding(c)' => /\ call'[c] \in Local /\ call'[c].delivery \in Stored
                        /\ call'[c].copy = delivery[call'[c].delivery]
  PROVE  SyncInv'
<1>1. TypeOK'
  BY DEF SyncInv, TypeOK, CallsTyped, Step5, process, outside, past
<1>2. SameDocuments
  BY DEF SameDocuments, Stored
<1>3. CallsFit'
  <2>1. ASSUME NEW b \in Call \ {c}
        PROVE  /\ pc'[b] \in {"save", "again"} => call'[b] \in Local /\ call'[b].order \in Order
               /\ Holding(b)' =>
                    /\ call'[b] \in Local /\ call'[b].delivery \in Stored'
                    /\ call'[b].copy \in Document
                    /\ call'[b].copy.order = delivery'[call'[b].delivery].order
               /\ pc'[b] = "update" => call'[b].current \in Document
    BY <1>2 DEF SyncInv, CallsFit, OtherCalls, Holding, SameDocuments
  <2>2. Holding(c)' =>
          /\ call'[c] \in Local /\ call'[c].delivery \in Stored'
          /\ call'[c].copy \in Document
          /\ call'[c].copy.order = delivery'[call'[c].delivery].order
    BY <1>2, StoredIsDocument DEF SyncInv, SameDocuments
  <2>. QED
    BY <2>1, <2>2 DEF CallsFit
<1>4. SyncFits'
  BY <1>2 DEF SyncInv, SyncFits, Sending, SameDocuments, process, outside
<1>5. NoNewVersion
  <2>. SUFFICES ASSUME NEW v \in News, IsVersion(v)'
                PROVE  IsVersion(v)
    BY DEF NoNewVersion
  <2>1. CASE \E b \in Call : Holding(b)' /\ v = CopyOf(b)'
    <3>1. PICK b \in Call : Holding(b)' /\ v = CopyOf(b)'
      BY <2>1
    <3>2. CASE b = c
      <4>1. v = VersionOf(call'[c].delivery)
        BY <3>1, <3>2 DEF CopyOf, VersionOf
      <4>. QED
        BY <3>1, <3>2, <4>1 DEF IsVersion
    <3>3. CASE b # c
      BY <3>1, <3>3 DEF IsVersion, Holding, CopyOf, OtherCalls
    <3>. QED
      BY <3>2, <3>3
  <2>2. CASE \E b \in Call : pc'[b] = "update" /\ v = CurrentOf(b)'
    BY <2>2 DEF IsVersion, CurrentOf, OtherCalls
  <2>3. CASE \/ \E d \in Stored' : v = VersionOf(d)'
             \/ \E t \in Task : Sending(t)' /\ v = NewsOf(t)'
             \/ \E d \in Delivery : known'[d] # None /\ v = known'[d]
             \/ v \in late'
    BY <1>2, <2>3 DEF IsVersion, VersionOf, NewsOf, Sending, SameDocuments, process, outside
  <2>. QED
    BY <2>1, <2>2, <2>3 DEF IsVersion
<1>6. clock' = clock /\ clock' \in Nat /\ clock <= clock' /\ UNCHANGED <<crossed, overwritten>>
  BY DEF SyncInv, TypeOK, past
<1>7. VersionsFit'
  BY <1>2, <1>5, <1>6, VersionsStay
<1>8. StampsFit'
  <2>1. \A b \in Call : pc'[b] = "update" => pc[b] = "update" /\ call'[b] = call[b]
    BY DEF OtherCalls
  <2>. QED
    BY <1>5, <1>6, <2>1, StampsStay DEF NoNewVersion
<1>9. SentFits' /\ Settled'
  BY <1>2, <1>6, SentStays, SettledStays DEF process, outside, Sending
<1>. QED
  BY <1>1, <1>3, <1>4, <1>7, <1>8, <1>9 DEF SyncInv

LEMMA QuietCalls ==
  ASSUME SyncInv, NEW c \in Call,
         CreateFind(c) \/ Refuse(c) \/ DuplicateKey(c) \/ FindAgain(c) \/ ReadCopy(c)
  PROVE  SyncInv'
<1>0. answer \in [Call -> Delivery \cup {None}] /\ Stored \subseteq Delivery /\ None \notin Delivery
  BY MenuFlowAssumption DEF SyncInv, TypeOK, Stored
<1>1. CASE Refuse(c)
  BY <1>0, <1>1, Finishes, QuietCall DEF Refuse, Holding
<1>2. ASSUME NEW d \in Stored, Answer(c, d), Finish(c),
             UNCHANGED <<delivery, clock, process, outside, restarts, past>>
      PROVE  SyncInv'
  <2>1. answer' \in [Call -> Delivery \cup {None}]
    BY <1>0, <1>2 DEF Answer
  <2>. QED
    BY <1>2, <2>1, Finishes, QuietCall DEF Holding
<1>3. CASE FindAgain(c)
  BY <1>2, <1>3 DEF FindAgain, OfOrder
<1>4. CASE CreateFind(c)
  <2>1. ASSUME NEW o \in Order, Begin(c, "CREATE", o, None, None, "save"), UNCHANGED answer
        PROVE  SyncInv'
    <3>1. /\ CallsTyped' /\ OtherCalls(c)
          /\ pc'[c] = "save" /\ call'[c] \in Local /\ call'[c].order = o
      BY <2>1, Begins DEF Op, Step5
    <3>2. UNCHANGED <<delivery, clock, process, outside, restarts, past>>
      BY <1>4 DEF CreateFind
    <3>. QED
      BY <1>0, <2>1, <3>1, <3>2, QuietCall DEF Holding
  <2>2. ASSUME NEW o \in Order, NEW d \in OfOrder(o), Answer(c, d), Finish(c)
        PROVE  SyncInv'
    BY <1>2, <1>4, <2>2 DEF CreateFind, OfOrder
  <2>. QED
    BY <1>4, <2>1, <2>2 DEF CreateFind
<1>5. CASE DuplicateKey(c)
  <2>1. /\ pc[c] = "save" /\ pc' = [pc EXCEPT ![c] = "again"]
        /\ UNCHANGED <<delivery, call, answer, clock, process, outside, restarts, past>>
    BY <1>5 DEF DuplicateKey
  <2>2. call[c] \in Local /\ call[c].order \in Order
    BY <2>1 DEF SyncInv, CallsFit
  <2>3. CallsTyped' /\ OtherCalls(c) /\ pc'[c] = "again" /\ call'[c] = call[c]
    BY <2>1 DEF SyncInv, TypeOK, CallsTyped, OtherCalls, Step5
  <2>. QED
    BY <1>0, <2>1, <2>2, <2>3, QuietCall DEF Holding
<1>6. CASE ReadCopy(c)
  <2>1. ASSUME NEW d \in Stored, NEW op \in Op, NEW body \in Status \cup {None},
               NEW next \in {"write", "merge"},
               Begin(c, op, delivery[d].order, d, body, next)
        PROVE  SyncInv'
    <3>1. delivery[d].order \in Order /\ d # None
      BY <1>0, StoredIsDocument DEF SyncInv
    <3>2. /\ CallsTyped' /\ OtherCalls(c)
          /\ pc'[c] = next /\ call'[c] \in Local /\ call'[c].delivery = d
          /\ call'[c].copy = delivery[d]
      BY <2>1, <3>1, Begins DEF Step5
    <3>3. UNCHANGED <<delivery, answer, clock, process, outside, restarts, past>>
      BY <1>6 DEF ReadCopy
    <3>. QED
      BY <1>0, <2>1, <3>2, <3>3, QuietCall DEF Holding
  <2>2. \A op \in {"CANCEL", "RELEASE", "DELETE", "CLAIM", "UPDATE"} : op \in Op
    BY DEF Op
  <2>3. None \in Status \cup {None} /\ \A body \in Bodies : body \in Status \cup {None}
    BY MenuFlowAssumption
  <2>. QED
    BY <1>6, <2>1, <2>2, <2>3 DEF ReadCopy
<1>. QED
  BY <1>1, <1>3, <1>4, <1>5, <1>6

(* A handler writes a document, stamped with the newest time.              *)
LEMMA WriteKeeps ==
  ASSUME SyncInv, NEW c \in Call, NEW d \in Delivery, NEW m \in Document, Put(d, m),
         m.updatedAt = clock + 1,
         d \in Stored => m.order = delivery[d].order /\ m.pending,
         d \notin Stored => m.status = "AWAITING_RELEASE",
         OtherCalls(c), CallsTyped', pc'[c] = "ended",
         answer' \in [Call -> Delivery \cup {None}],
         chain' \in Seq(Task), sync' \in [Task -> SyncState],
         \A t \in Task : sync'[t].pc # "idle" => sync'[t].delivery \in Stored',
         \A t \in Task : Sending(t)' => Sending(t) /\ sync'[t] = sync[t],
         UNCHANGED <<retrying, due, outside, restarts>>
  PROVE  SyncInv'
<1>1. /\ delivery' = [delivery EXCEPT ![d] = m] /\ clock' = clock + 1
      /\ crossed' = crossed \cup ({d} \cap BeingSent) /\ overwritten' = overwritten
      /\ UNCHANGED <<known, late>>
  BY DEF Put, outside
<1>2. /\ delivery \in [Delivery -> Document \cup {None}] /\ clock \in Nat /\ clock' \in Nat
      /\ clock <= clock' /\ m # None
  BY <1>1, NoneIsNothing DEF SyncInv, TypeOK
<1>3. /\ delivery'[d] = m /\ \A e \in Delivery \ {d} : delivery'[e] = delivery[e]
      /\ Stored' = Stored \cup {d} /\ Stored \subseteq Delivery
  BY <1>1, <1>2 DEF Stored
<1>4. delivery' \in [Delivery -> Document \cup {None}]
  BY <1>1, <1>2
<1>5. TypeOK'
  BY <1>1, <1>2, <1>4 DEF SyncInv, TypeOK, CallsTyped, Step5, outside
<1>6. \A e \in Stored : delivery'[e].order = delivery[e].order
  BY <1>3
<1>7. CallsFit'
  <2>. SUFFICES ASSUME NEW b \in Call
                PROVE  (/\ pc[b] \in {"save", "again"} => call[b] \in Local /\ call[b].order \in Order
                        /\ Holding(b) =>
                             /\ call[b] \in Local /\ call[b].delivery \in Stored
                             /\ call[b].copy \in Document
                             /\ call[b].copy.order = delivery[call[b].delivery].order
                        /\ pc[b] = "update" => call[b].current \in Document)'
    BY DEF CallsFit
  <2>1. CASE b = c
    BY <2>1 DEF Holding
  <2>2. CASE b # c
    BY <1>3, <1>6, <2>2 DEF SyncInv, CallsFit, OtherCalls, Holding
  <2>. QED
    BY <2>1, <2>2
<1>8. SyncFits'
  <2>1. \A t \in Task : (Sending(t) => sync[t].copy \in Document)'
    BY DEF SyncInv, SyncFits
  <2>. QED
    BY <1>1, <1>3, <2>1 DEF SyncInv, SyncFits
<1>9. VersionOf(d)' = [delivery |-> d, status |-> m.status, at |-> clock + 1]
  BY <1>3 DEF VersionOf
<1>10. ASSUME NEW v \in News, IsVersion(v)'
       PROVE  IsVersion(v) \/ v = VersionOf(d)'
  <2>1. ASSUME NEW e \in Stored', v = VersionOf(e)'
        PROVE  IsVersion(v) \/ v = VersionOf(d)'
    <3>1. CASE e # d
      <4>1. e \in Stored /\ VersionOf(e)' = VersionOf(e)
        BY <1>3, <3>1 DEF VersionOf
      <4>. QED
        BY <2>1, <4>1 DEF IsVersion
    <3>. QED
      BY <2>1, <3>1
  <2>2. CASE \/ \E b \in Call : Holding(b)' /\ v = CopyOf(b)'
             \/ \E b \in Call : pc'[b] = "update" /\ v = CurrentOf(b)'
    BY <2>2 DEF IsVersion, Holding, CopyOf, CurrentOf, OtherCalls
  <2>3. CASE \/ \E t \in Task : Sending(t)' /\ v = NewsOf(t)'
             \/ \E e \in Delivery : known'[e] # None /\ v = known'[e]
             \/ v \in late'
    BY <1>1, <2>3 DEF IsVersion, NewsOf
  <2>. QED
    BY <1>10, <2>1, <2>2, <2>3 DEF IsVersion
<1>11. \A v \in News : v.at \in Nat
  BY DEF News
<1>12. VersionsFit'
  <2>1. ASSUME NEW v \in News, IsVersion(v)
        PROVE  /\ v.delivery \in Stored' /\ v.at <= clock' /\ v.at # clock + 1
               /\ v.delivery \notin overwritten' => v.at <= delivery'[v.delivery].updatedAt
    <3>1. /\ v.delivery \in Stored /\ v.at <= clock
          /\ v.delivery \notin overwritten => v.at <= delivery[v.delivery].updatedAt
      BY <2>1 DEF SyncInv, VersionsFit
    <3>2. v.at <= clock + 1 /\ v.at # clock + 1
      BY <1>2, <1>11, <3>1
    <3>. QED
      BY <1>1, <1>3, <3>1, <3>2
  <2>2. LET v == VersionOf(d)' IN
        /\ v.delivery \in Stored' /\ v.at <= clock' /\ v.at = clock + 1
        /\ v.at <= delivery'[v.delivery].updatedAt
    BY <1>1, <1>2, <1>3, <1>9
  <2>3. ASSUME NEW v \in News, NEW w \in News, IsVersion(v)', IsVersion(w)',
               v.delivery = w.delivery, v.at = w.at
        PROVE  v.status = w.status
    <3>1. CASE IsVersion(v) /\ IsVersion(w)
      BY <2>3, <3>1 DEF SyncInv, VersionsFit
    <3>2. CASE v = VersionOf(d)' /\ w = VersionOf(d)'
      BY <3>2
    <3>. QED
      BY <1>10, <2>1, <2>2, <2>3, <3>1, <3>2
  <2>4. \A v \in News :
          IsVersion(v)' =>
            /\ v.delivery \in Stored' /\ v.at <= clock'
            /\ v.delivery \notin overwritten' => v.at <= delivery'[v.delivery].updatedAt
    BY <1>10, <2>1, <2>2
  <2>. QED
    BY <2>3, <2>4 DEF VersionsFit
<1>13. StampsFit'
  <2>1. \A b \in Call : pc'[b] = "update" => pc[b] = "update" /\ call'[b] = call[b]
    BY DEF OtherCalls
  <2>2. ASSUME NEW b \in Call, pc[b] = "update"
        PROVE  call[b].stamp # clock + 1
    <3>1. call[b].stamp \in Nat /\ call[b].stamp <= clock
      BY <2>2 DEF SyncInv, CallsFit, StampsFit, Holding, Local
    <3>. QED
      BY <1>2, <3>1
  <2>3. \A v \in News :
          IsVersion(v)' =>
            \/ IsVersion(v)
            \/ \A b \in Call : pc'[b] = "update" => v.at # call[b].stamp
    BY <1>9, <1>10, <2>1, <2>2
  <2>. QED
    BY <1>1, <1>2, <2>1, <2>3, StampsStay
<1>14. SentFits'
  <2>. SUFFICES ASSUME NEW t \in Task, Sending(t)', sync'[t].delivery \notin crossed'
                PROVE  (/\ sync[t].copy.status = delivery[sync[t].delivery].status
                        /\ sync[t].copy.updatedAt = delivery[sync[t].delivery].updatedAt
                        /\ sync[t].pc = "clear" /\ sync[t].delivery \notin overwritten =>
                             /\ known[sync[t].delivery] # None
                             /\ known[sync[t].delivery].at = sync[t].copy.updatedAt)'
    BY DEF SentFits
  <2>1. sync'[t] = sync[t] /\ Sending(t) /\ sync[t].delivery \in Stored
    BY DEF SyncInv, SyncFits, Sending
  <2>2. sync[t].delivery # d /\ sync[t].delivery \notin crossed
    BY <1>1, <2>1 DEF BeingSent, Sending
  <2>3. delivery'[sync[t].delivery] = delivery[sync[t].delivery]
    BY <1>3, <2>1, <2>2
  <2>. QED
    BY <1>1, <2>1, <2>2, <2>3 DEF SyncInv, SentFits
<1>15. Settled'
  <2>. SUFFICES ASSUME NEW e \in Stored' \ (crossed' \cup overwritten'), ~ delivery'[e].pending
                PROVE  SettledFor(e)'
    BY DEF Settled
  <2>1. CASE e # d
    <3>1. e \in Stored \ (crossed \cup overwritten) /\ delivery'[e] = delivery[e]
      BY <1>1, <1>3, <2>1
    <3>2. SettledFor(e)
      BY <3>1 DEF SyncInv, Settled
    <3>. QED
      BY <1>1, <3>1, <3>2 DEF SettledFor, Believed
  <2>2. CASE e = d
    <3>1. d \notin Stored /\ delivery'[d].status = "AWAITING_RELEASE"
      BY <1>3, <2>2
    <3>2. known[d] = None
      <4>1. known[d] # None => known[d] \in News /\ IsVersion(known[d]) /\ known[d].delivery = d
        BY VersionsAreNews DEF SyncInv, SyncFits, IsVersion
      <4>. QED
        BY <3>1, <4>1 DEF SyncInv, VersionsFit
    <3>3. \A n \in late : n.delivery # d
      <4>1. \A n \in late : n \in News /\ IsVersion(n)
        BY DEF SyncInv, TypeOK, IsVersion
      <4>. QED
        BY <3>1, <4>1 DEF SyncInv, VersionsFit
    <3>. QED
      BY <1>1, <2>2, <3>1, <3>2, <3>3 DEF SettledFor, Believed
  <2>. QED
    BY <2>1, <2>2
<1>. QED
  BY <1>5, <1>7, <1>8, <1>12, <1>13, <1>14, <1>15 DEF SyncInv

(* What a handler makes of its copy is a document of the same order.       *)
LEMMA WrittenFits ==
  ASSUME SyncInv, NEW c \in Call, pc[c] = "write", NEW s \in Status, NEW active \in BOOLEAN
  PROVE  LET m == Written(c, s, active) IN
         /\ m \in Document /\ m.updatedAt = clock + 1 /\ m.pending
         /\ m.order = delivery[call[c].delivery].order
<1>1. /\ clock + 1 \in Nat /\ TRUE \in BOOLEAN /\ call[c].copy \in Document
      /\ call[c].copy.order = delivery[call[c].delivery].order
  BY DEF SyncInv, TypeOK, CallsFit, Holding
<1>. DEFINE m0 == call[c].copy
            m1 == [m0 EXCEPT !.status = s]
            m2 == [m1 EXCEPT !.active = active]
            m3 == [m2 EXCEPT !.pending = TRUE]
            m4 == [m3 EXCEPT !.updatedAt = clock + 1]
<1>2. m1 \in Document /\ m1.order = m0.order
  BY <1>1 DEF Document
<1>3. m2 \in Document /\ m2.order = m1.order
  BY <1>2 DEF Document
<1>4. m3 \in Document /\ m3.order = m2.order /\ m3.pending
  BY <1>3 DEF Document
<1>5. m4 \in Document /\ m4.order = m3.order /\ m4.pending = m3.pending
      /\ m4.updatedAt = clock + 1
  BY <1>1, <1>4 DEF Document
<1>6. m4 = Written(c, s, active)
  BY DEF Written
<1>. HIDE DEF m1, m2, m3, m4
<1>. QED
  BY <1>1, <1>2, <1>3, <1>4, <1>5, <1>6

(* The writes of the handlers.                                             *)
LEMMA CallWrites ==
  ASSUME SyncInv, NEW c \in Call,
         CreateSave(c) \/ Cancel(c) \/ Release(c) \/ Delete(c) \/ Claim(c)
  PROVE  SyncInv'
<1>0. /\ answer \in [Call -> Delivery \cup {None}] /\ Stored \subseteq Delivery
      /\ chain \in Seq(Task) /\ sync \in [Task -> SyncState] /\ c \in Task
      /\ clock \in Nat /\ None \notin Delivery
  BY MenuFlowAssumption DEF SyncInv, TypeOK, Stored, Task
<1>1. \A t \in Task : sync[t].pc # "idle" => sync[t].delivery \in Stored
  BY DEF SyncInv, SyncFits
<1>2. ASSUME NEW d \in Delivery, NEW m \in Document, Put(d, m), m.updatedAt = clock + 1,
             d \in Stored => m.order = delivery[d].order /\ m.pending,
             d \notin Stored => m.status = "AWAITING_RELEASE",
             Finish(c), answer' \in [Call -> Delivery \cup {None}],
             UNCHANGED <<process, outside, restarts>>
      PROVE  SyncInv'
  <2>1. Stored \subseteq Stored'
    BY <1>0, <1>2, NoneIsNothing DEF Put, Stored, SyncInv, TypeOK
  <2>2. UNCHANGED <<chain, sync, retrying, due, outside, restarts>>
    BY <1>2 DEF process
  <2>3. OtherCalls(c) /\ CallsTyped' /\ pc'[c] = "ended"
    BY <1>2, Finishes
  <2>4. \A t \in Task : Sending(t)' => Sending(t) /\ sync'[t] = sync[t]
    BY <2>2 DEF Sending
  <2>. QED
    BY <1>0, <1>1, <1>2, <2>1, <2>2, <2>3, <2>4, WriteKeeps
<1>3. ASSUME pc[c] = "write"
      PROVE  /\ call[c].delivery \in Stored /\ call[c].copy \in Document
             /\ call[c].copy.order = delivery[call[c].delivery].order
             /\ call[c].copy.active \in BOOLEAN
  BY <1>3 DEF SyncInv, CallsFit, Holding, Document
<1>4. ASSUME pc[c] = "write", NEW s \in Status, NEW active \in BOOLEAN
      PROVE  LET m == Written(c, s, active) IN
             /\ m \in Document /\ m.updatedAt = clock + 1 /\ m.pending
             /\ m.order = delivery[call[c].delivery].order
  BY <1>4, WrittenFits
<1>5. CASE CreateSave(c)
  <2>1. call[c].order \in Order
    BY <1>5 DEF CreateSave, SyncInv, CallsFit
  <2>2. PICK d \in Delivery \ Stored : Put(d, NewDelivery(call[c].order)) /\ Answer(c, d)
    BY <1>5 DEF CreateSave
  <2>3. /\ NewDelivery(call[c].order) \in Document
        /\ NewDelivery(call[c].order).updatedAt = clock + 1
        /\ NewDelivery(call[c].order).status = "AWAITING_RELEASE"
    BY <1>0, <2>1 DEF NewDelivery, Document, Status
  <2>4. answer' \in [Call -> Delivery \cup {None}]
    BY <1>0, <2>2 DEF Answer
  <2>5. Finish(c) /\ UNCHANGED <<process, outside, restarts>>
    BY <1>5 DEF CreateSave
  <2>. QED
    BY <1>2, <2>2, <2>3, <2>4, <2>5
<1>6. CASE Release(c)
  <2>1. pc[c] = "write" /\ Finish(c) /\ UNCHANGED <<answer, process, outside, restarts>>
    BY <1>6 DEF Release
  <2>2. PICK s \in {"PENDING", "ONCOURSE"} :
          Put(call[c].delivery, Written(c, s, call[c].copy.active))
    BY <1>6 DEF Release
  <2>3. s \in Status
    BY DEF Status
  <2>. QED
    BY <1>0, <1>2, <1>3, <1>4, <2>1, <2>2, <2>3
<1>7. CASE Delete(c)
  <2>1. /\ pc[c] = "write" /\ Finish(c) /\ UNCHANGED <<answer, process, outside, restarts>>
        /\ Put(call[c].delivery, Written(c, "CANCELED", FALSE))
    BY <1>7 DEF Delete
  <2>2. "CANCELED" \in Status
    BY DEF Status
  <2>. QED
    BY <1>0, <1>2, <1>3, <1>4, <2>1, <2>2
<1>8. CASE Claim(c)
  <2>1. pc[c] = "write" /\ Finish(c) /\ UNCHANGED <<answer, process, outside, restarts>>
    BY <1>8 DEF Claim
  <2>2. CASE Put(call[c].delivery, Written(c, "ONCOURSE", call[c].copy.active))
    <3>1. "ONCOURSE" \in Status
      BY DEF Status
    <3>. QED
      BY <1>0, <1>2, <1>3, <1>4, <2>1, <2>2, <3>1
  <2>3. CASE UNCHANGED <<delivery, clock, past>>
    <3>1. UNCHANGED <<delivery, clock, process, outside, restarts, past>>
      BY <2>1, <2>3
    <3>2. answer' \in [Call -> Delivery \cup {None}]
      BY <1>0, <2>1
    <3>. QED
      BY <2>1, <3>1, <3>2, Finishes, QuietCall DEF Holding
  <2>. QED
    BY <1>8, <2>2, <2>3 DEF Claim
<1>9. CASE Cancel(c)
  <2>1. /\ pc[c] = "write" /\ Finish(c) /\ UNCHANGED <<answer, retrying, due, outside, restarts>>
        /\ Put(call[c].delivery, Written(c, "CANCELED", FALSE))
        /\ Enqueue(c, call[c].delivery, TRUE)
    BY <1>9 DEF Cancel
  <2>2. "CANCELED" \in Status
    BY DEF Status
  <2>. DEFINE queued == [Idle EXCEPT !.pc = "queued", !.mark = TRUE,
                                     !.delivery = call[c].delivery]
  <2>3. queued \in SyncState /\ queued.pc = "queued" /\ queued.delivery = call[c].delivery
    BY <1>0, <1>3, <2>1 DEF Idle, SyncState
  <2>4. chain' = Append(chain, c) /\ sync' = [sync EXCEPT ![c] = queued]
    BY <2>1 DEF Enqueue
  <2>. HIDE DEF queued
  <2>5. chain' \in Seq(Task) /\ sync' \in [Task -> SyncState]
    BY <1>0, <2>3, <2>4
  <2>6. Stored \subseteq Stored'
    BY <1>0, <1>3, <1>4, <2>1, <2>2, NoneIsNothing DEF Put, Stored, SyncInv, TypeOK
  <2>7. \A t \in Task : sync'[t].pc # "idle" => sync'[t].delivery \in Stored'
    BY <1>0, <1>1, <1>3, <2>1, <2>3, <2>4, <2>6
  <2>8. \A t \in Task : Sending(t)' => Sending(t) /\ sync'[t] = sync[t]
    BY <1>0, <2>3, <2>4 DEF Sending
  <2>9. answer' \in [Call -> Delivery \cup {None}]
    BY <1>0, <2>1
  <2>. QED
    BY <1>0, <1>3, <1>4, <2>1, <2>2, <2>5, <2>7, <2>8, <2>9, Finishes, WriteKeeps
<1>. QED
  BY <1>5, <1>6, <1>7, <1>8, <1>9

(* The second read of an update: a fresh stamp, and the newest version.    *)
LEMMA MergeReadKeeps ==
  ASSUME SyncInv, NEW c \in Call, MergeRead(c)
  PROVE  SyncInv'
<1>. DEFINE d == call[c].delivery
            l0 == call[c]
            l1 == [l0 EXCEPT !.current = delivery[d]]
            l2 == [l1 EXCEPT !.stamp = clock + 1]
<1>1. /\ pc[c] = "merge" /\ clock' = clock + 1 /\ pc' = [pc EXCEPT ![c] = "update"]
      /\ UNCHANGED <<delivery, answer, process, outside, restarts, past>>
  BY DEF MergeRead
<1>2. /\ call \in [Call -> Local \cup {NoLocal}] /\ pc \in [Call -> Step5]
      /\ clock \in Nat /\ clock' \in Nat /\ clock <= clock'
  BY <1>1 DEF SyncInv, TypeOK, Step5
<1>3. /\ Holding(c) /\ l0 \in Local /\ d \in Stored /\ l0.copy \in Document
      /\ l0.copy.order = delivery[d].order
  BY <1>1 DEF SyncInv, CallsFit, Holding
<1>4. delivery[d] \in Document
  BY <1>3, StoredIsDocument DEF SyncInv
<1>5. l1 \in Local /\ l1.copy = l0.copy /\ l1.delivery = d /\ l1.current = delivery[d]
  BY <1>3, <1>4 DEF Local
<1>6. /\ l2 \in Local /\ l2.copy = l1.copy /\ l2.delivery = l1.delivery
      /\ l2.current = l1.current /\ l2.stamp = clock + 1
  <2>. HIDE DEF l0, l1, d
  <2>. DEFINE at == clock + 1
  <2>1. at \in Nat
    BY <1>2
  <2>. HIDE DEF at
  <2>2. l2 = [l1 EXCEPT !.stamp = at]
    BY DEF at
  <2>. HIDE DEF l2
  <2>3. l2 \in Local
    BY <1>5, <2>1, <2>2 DEF Local
  <2>4. /\ l2.copy = l1.copy /\ l2.delivery = l1.delivery
        /\ l2.current = l1.current /\ l2.stamp = at
    BY <1>5, <2>2 DEF Local
  <2>. QED
    BY <2>3, <2>4 DEF at
<1>7. call' = [call EXCEPT ![c] = l2]
  <2>1. call' = [call EXCEPT ![c].current = delivery[call[c].delivery],
                             ![c].stamp = clock + 1]
    BY DEF MergeRead
  <2>. QED
    BY <1>2, <2>1
<1>. HIDE DEF l1, l2
<1>8. OtherCalls(c) /\ CallsTyped' /\ call'[c] = l2 /\ pc'[c] = "update"
  BY <1>1, <1>2, <1>6, <1>7 DEF OtherCalls, CallsTyped, Step5
<1>9. /\ call'[c].copy = call[c].copy /\ call'[c].delivery = d
      /\ call'[c].current = delivery[d] /\ call'[c].stamp = clock + 1
  BY <1>5, <1>6, <1>8
<1>10. TypeOK'
  BY <1>1, <1>2, <1>8 DEF SyncInv, TypeOK, CallsTyped, Step5, process, outside, past
<1>11. SameDocuments /\ UNCHANGED <<known, late, crossed, overwritten, sync, due>>
  BY <1>1 DEF SameDocuments, Stored, process, outside, past
<1>12. CallsFit'
  <2>1. ASSUME NEW b \in Call \ {c}
        PROVE  (/\ pc[b] \in {"save", "again"} => call[b] \in Local /\ call[b].order \in Order
                /\ Holding(b) =>
                     /\ call[b] \in Local /\ call[b].delivery \in Stored
                     /\ call[b].copy \in Document
                     /\ call[b].copy.order = delivery[call[b].delivery].order
                /\ pc[b] = "update" => call[b].current \in Document)'
    BY <1>8, <1>11 DEF SyncInv, CallsFit, OtherCalls, Holding, SameDocuments
  <2>2. (/\ call[c] \in Local /\ call[c].delivery \in Stored /\ call[c].copy \in Document
         /\ call[c].copy.order = delivery[call[c].delivery].order
         /\ call[c].current \in Document)'
    BY <1>1, <1>3, <1>4, <1>6, <1>8, <1>9, <1>11 DEF SameDocuments
  <2>3. pc'[c] \notin {"save", "again"}
    BY <1>8
  <2>. QED
    BY <2>1, <2>2, <2>3 DEF CallsFit
<1>13. SyncFits'
  BY <1>11 DEF SyncInv, SyncFits, Sending, SameDocuments
<1>14. NoNewVersion
  <2>. SUFFICES ASSUME NEW v \in News, IsVersion(v)'
                PROVE  IsVersion(v)
    BY DEF NoNewVersion
  <2>1. CASE \E b \in Call : Holding(b)' /\ v = CopyOf(b)'
    BY <1>3, <1>8, <1>9, <2>1 DEF IsVersion, Holding, CopyOf, OtherCalls
  <2>2. CASE \E b \in Call : pc'[b] = "update" /\ v = CurrentOf(b)'
    <3>1. PICK b \in Call : pc'[b] = "update" /\ v = CurrentOf(b)'
      BY <2>2
    <3>2. CASE b = c
      <4>1. v = VersionOf(d)
        BY <1>9, <3>1, <3>2 DEF CurrentOf, VersionOf
      <4>. QED
        BY <1>3, <4>1 DEF IsVersion
    <3>3. CASE b # c
      BY <1>8, <3>1, <3>3 DEF IsVersion, CurrentOf, OtherCalls
    <3>. QED
      BY <3>2, <3>3
  <2>3. CASE \/ \E e \in Stored' : v = VersionOf(e)'
             \/ \E t \in Task : Sending(t)' /\ v = NewsOf(t)'
             \/ \E e \in Delivery : known'[e] # None /\ v = known'[e]
             \/ v \in late'
    BY <1>11, <2>3 DEF IsVersion, VersionOf, NewsOf, Sending, SameDocuments
  <2>. QED
    BY <2>1, <2>2, <2>3 DEF IsVersion
<1>15. VersionsFit'
  BY <1>2, <1>11, <1>14, VersionsStay
<1>16. StampsFit'
  <2>1. \A v \in News : IsVersion(v)' => v.at <= clock /\ v.at \in Nat
    BY <1>14 DEF NoNewVersion, SyncInv, VersionsFit, News
  <2>2. /\ IsVersion(CopyOf(c)) /\ CopyOf(c) \in News
        /\ CopyOf(c).at = call[c].copy.updatedAt /\ CopyOf(c).delivery = d
    BY <1>3, VersionsAreNews DEF IsVersion, CopyOf
  <2>3. /\ call[c].copy.updatedAt \in Nat /\ call[c].copy.updatedAt <= clock
        /\ d \notin overwritten => call[c].copy.updatedAt <= delivery[d].updatedAt
    BY <2>2 DEF SyncInv, VersionsFit, News
  <2>4. ASSUME NEW b \in Call \ {c}, pc[b] = "update"
        PROVE  /\ call[b].stamp \in Nat /\ call[b].stamp <= clock
               /\ call[b].copy.updatedAt < call[b].stamp
               /\ \A v \in News :
                    IsVersion(v) /\ v.delivery = call[b].delivery => v.at # call[b].stamp
               /\ \A e \in Call \ {b} : pc[e] = "update" => call[e].stamp # call[b].stamp
               /\ call[b].delivery \notin overwritten =>
                    call[b].copy.updatedAt <= call[b].current.updatedAt
    <3>1. call[b] \in Local
      BY <2>4 DEF SyncInv, CallsFit, Holding
    <3>2. call[b].stamp \in Nat
      BY <3>1 DEF Local
    <3>. QED
      BY <2>4, <3>2 DEF SyncInv, StampsFit
  <2>5. (/\ call[c].stamp <= clock /\ call[c].copy.updatedAt < call[c].stamp
         /\ \A v \in News :
              IsVersion(v) /\ v.delivery = call[c].delivery => v.at # call[c].stamp
         /\ \A b \in Call \ {c} : pc[b] = "update" => call[b].stamp # call[c].stamp
         /\ call[c].delivery \notin overwritten =>
              call[c].copy.updatedAt <= call[c].current.updatedAt)'
    <3>1. call'[c].stamp <= clock' /\ call'[c].copy.updatedAt < call'[c].stamp
      BY <1>1, <1>2, <1>9, <2>3
    <3>2. \A v \in News : IsVersion(v)' => v.at # call'[c].stamp
      BY <1>2, <1>9, <2>1
    <3>3. ASSUME NEW b \in Call \ {c}, pc'[b] = "update"
          PROVE  call'[b].stamp # call'[c].stamp
      <4>1. pc[b] = "update" /\ call'[b] = call[b]
        BY <1>8, <3>3 DEF OtherCalls
      <4>2. call[b].stamp \in Nat /\ call[b].stamp <= clock
        BY <2>4, <4>1
      <4>. QED
        BY <1>2, <1>9, <4>1, <4>2
    <3>4. call'[c].delivery \notin overwritten' =>
              call'[c].copy.updatedAt <= call'[c].current.updatedAt
      BY <1>9, <1>11, <2>3
    <3>. QED
      BY <3>1, <3>2, <3>3, <3>4
  <2>6. ASSUME NEW b \in Call \ {c}, pc'[b] = "update"
        PROVE (/\ call[b].stamp <= clock /\ call[b].copy.updatedAt < call[b].stamp
               /\ \A v \in News :
                    IsVersion(v) /\ v.delivery = call[b].delivery => v.at # call[b].stamp
               /\ \A e \in Call \ {b} : pc[e] = "update" => call[e].stamp # call[b].stamp
               /\ call[b].delivery \notin overwritten =>
                    call[b].copy.updatedAt <= call[b].current.updatedAt)'
    <3>1. pc[b] = "update" /\ call'[b] = call[b]
      BY <1>8, <2>6 DEF OtherCalls
    <3>2. call[b].stamp <= clock' /\ call[b].stamp # clock + 1
      BY <1>1, <1>2, <2>4, <3>1
    <3>3. \A v \in News :
            IsVersion(v)' /\ v.delivery = call[b].delivery => v.at # call[b].stamp
      BY <1>14, <2>4, <3>1 DEF NoNewVersion
    <3>4. ASSUME NEW e \in Call \ {b}, pc'[e] = "update"
          PROVE  call'[e].stamp # call[b].stamp
      BY <1>8, <1>9, <2>4, <3>1, <3>2, <3>4 DEF OtherCalls
    <3>. QED
      BY <1>11, <2>4, <3>1, <3>2, <3>3, <3>4
  <2>. QED
    BY <2>5, <2>6 DEF StampsFit
<1>17. SentFits' /\ Settled'
  BY <1>1, <1>11, SentStays, SettledStays DEF Sending
<1>. QED
  BY <1>10, <1>12, <1>13, <1>15, <1>16, <1>17 DEF SyncInv

(* An update writes its copy back: unless somebody wrote in between, what  *)
(* it takes for the stored status is the stored status.                    *)
LEMMA UpdateFits ==
  ASSUME SyncInv, NEW c \in Call, pc[c] = "update"
  PROVE  LET m == UpdateImage(c)
             d == call[c].delivery IN
         /\ d \in Stored /\ m \in Document /\ m.order = delivery[d].order
         /\ m.updatedAt = call[c].stamp
         /\ d \notin overwritten /\ delivery[d] = call[c].copy /\ ~ m.pending =>
              m.status = delivery[d].status /\ ~ delivery[d].pending
<1>. DEFINE d == call[c].delivery
            m0 == call[c].copy
            s == IF call[c].body = None THEN m0.status ELSE call[c].body
            p == m0.pending \/ call[c].current.status # s
            m1 == [m0 EXCEPT !.status = s]
            m2 == [m1 EXCEPT !.updatedAt = call[c].stamp]
            m3 == [m2 EXCEPT !.pending = p]
<1>1. /\ call[c] \in Local /\ d \in Stored /\ m0 \in Document
      /\ m0.order = delivery[d].order /\ call[c].current \in Document
  BY DEF SyncInv, CallsFit, Holding
<1>2. s \in Status /\ call[c].stamp \in Nat
  BY <1>1 DEF Local, Document
<1>3. UpdateImage(c) = m3
  <2>1. UpdateImage(c) = [m0 EXCEPT !.status = s, !.updatedAt = call[c].stamp,
                                    !.pending = @ \/ call[c].current.status # s]
    BY DEF UpdateImage
  <2>2. m2.pending = m0.pending
    BY <1>1 DEF Document
  <2>. QED
    BY <2>1, <2>2
<1>4. p \in BOOLEAN
  OBVIOUS
<1>. HIDE DEF s, p
<1>5. m1 \in Document /\ m1.order = m0.order /\ m1.status = s
  BY <1>1, <1>2 DEF Document
<1>. HIDE DEF m1
<1>6. /\ m2 \in Document /\ m2.order = m1.order /\ m2.status = m1.status
      /\ m2.updatedAt = call[c].stamp
  BY <1>2, <1>5 DEF Document
<1>. HIDE DEF m2
<1>7. /\ m3 \in Document /\ m3.order = m2.order /\ m3.status = m2.status
      /\ m3.updatedAt = m2.updatedAt /\ m3.pending = p
  BY <1>4, <1>6 DEF Document
<1>8. ASSUME d \notin overwritten, delivery[d] = call[c].copy, ~ p
      PROVE  s = delivery[d].status /\ ~ delivery[d].pending
  <2>1. call[c].current.status = s /\ ~ m0.pending
    BY <1>8 DEF p
  <2>2. call[c].copy.updatedAt <= call[c].current.updatedAt
    BY <1>8 DEF SyncInv, StampsFit
  <2>3. CurrentOf(c) \in News /\ IsVersion(CurrentOf(c))
    BY VersionsAreNews DEF IsVersion
  <2>4. VersionOf(d) \in News /\ IsVersion(VersionOf(d))
    BY <1>1, VersionsAreNews DEF IsVersion
  <2>5. /\ CurrentOf(c).delivery = d /\ CurrentOf(c).at = call[c].current.updatedAt
        /\ CurrentOf(c).status = call[c].current.status
        /\ VersionOf(d).delivery = d /\ VersionOf(d).at = delivery[d].updatedAt
        /\ VersionOf(d).status = delivery[d].status
    BY DEF CurrentOf, VersionOf
  <2>6. call[c].current.updatedAt <= delivery[d].updatedAt
    BY <1>8, <2>3, <2>5 DEF SyncInv, VersionsFit
  <2>7. call[c].current.updatedAt \in Nat /\ delivery[d].updatedAt \in Nat
    BY <1>1, <1>8 DEF Document
  <2>8. call[c].current.updatedAt = delivery[d].updatedAt
    BY <1>8, <2>2, <2>6, <2>7
  <2>9. call[c].current.status = delivery[d].status
    BY <2>3, <2>4, <2>5, <2>8 DEF SyncInv, VersionsFit
  <2>. QED
    BY <1>8, <2>1, <2>9
<1>. HIDE DEF m3
<1>. QED
  BY <1>1, <1>3, <1>5, <1>6, <1>7, <1>8

LEMMA UpdateKeeps ==
  ASSUME SyncInv, NEW c \in Call, UpdateWrite(c)
  PROVE  SyncInv'
<1>0. SUFFICES ASSUME NEW d, NEW m, d = call[c].delivery, m = UpdateImage(c)
               PROVE  SyncInv'
  OBVIOUS
<1>1. /\ pc[c] = "update" /\ delivery' = [delivery EXCEPT ![d] = m]
      /\ crossed' = crossed \cup ({d} \cap BeingSent)
      /\ overwritten' = overwritten \cup IF delivery[d] # call[c].copy THEN {d} ELSE {}
      /\ UNCHANGED <<answer, clock, process, outside, restarts>>
  BY <1>0 DEF UpdateWrite
<1>2. /\ d \in Stored /\ m \in Document /\ m.order = delivery[d].order
      /\ m.updatedAt = call[c].stamp
      /\ d \notin overwritten /\ delivery[d] = call[c].copy /\ ~ m.pending =>
           m.status = delivery[d].status /\ ~ delivery[d].pending
  BY <1>0, <1>1, UpdateFits
<1>3. OtherCalls(c) /\ CallsTyped' /\ pc'[c] = "ended"
  BY Finishes DEF UpdateWrite
<1>4. /\ delivery \in [Delivery -> Document \cup {None}] /\ clock \in Nat /\ clock' = clock
      /\ Stored \subseteq Delivery /\ m # None
      /\ UNCHANGED <<chain, sync, retrying, due, known, late>>
  BY <1>1, <1>2, NoneIsNothing DEF SyncInv, TypeOK, Stored, process, outside
<1>5. /\ delivery'[d] = m /\ \A e \in Delivery \ {d} : delivery'[e] = delivery[e]
      /\ Stored' = Stored /\ delivery' \in [Delivery -> Document \cup {None}]
  BY <1>1, <1>2, <1>4 DEF Stored
<1>6. TypeOK'
  <2>1. overwritten' \subseteq Delivery /\ crossed' \subseteq Delivery
    BY <1>1, <1>2, <1>4 DEF SyncInv, TypeOK
  <2>. QED
    BY <1>1, <1>3, <1>4, <1>5, <2>1 DEF SyncInv, TypeOK, CallsTyped, Step5
<1>7. \A e \in Stored : delivery'[e].order = delivery[e].order
  BY <1>2, <1>4, <1>5
<1>8. CallsFit'
  <2>. SUFFICES ASSUME NEW b \in Call
                PROVE  (/\ pc[b] \in {"save", "again"} => call[b] \in Local /\ call[b].order \in Order
                        /\ Holding(b) =>
                             /\ call[b] \in Local /\ call[b].delivery \in Stored
                             /\ call[b].copy \in Document
                             /\ call[b].copy.order = delivery[call[b].delivery].order
                        /\ pc[b] = "update" => call[b].current \in Document)'
    BY DEF CallsFit
  <2>1. CASE b = c
    BY <1>3, <2>1 DEF Holding
  <2>2. CASE b # c
    BY <1>3, <1>5, <1>7, <2>2 DEF SyncInv, CallsFit, OtherCalls, Holding
  <2>. QED
    BY <2>1, <2>2
<1>9. SyncFits'
  BY <1>4, <1>5 DEF SyncInv, SyncFits, Sending
<1>10. VersionOf(d)' = [delivery |-> d, status |-> m.status, at |-> call[c].stamp]
  BY <1>2, <1>5 DEF VersionOf
<1>11. ASSUME NEW v \in News, IsVersion(v)'
       PROVE  IsVersion(v) \/ v = [delivery |-> d, status |-> m.status, at |-> call[c].stamp]
  <2>1. ASSUME NEW e \in Stored', v = VersionOf(e)', e # d
        PROVE  IsVersion(v)
    <3>1. e \in Stored /\ VersionOf(e)' = VersionOf(e)
      BY <1>4, <1>5, <2>1 DEF VersionOf
    <3>. QED
      BY <2>1, <3>1 DEF IsVersion
  <2>2. CASE \/ \E b \in Call : Holding(b)' /\ v = CopyOf(b)'
             \/ \E b \in Call : pc'[b] = "update" /\ v = CurrentOf(b)'
    BY <1>3, <2>2 DEF IsVersion, Holding, CopyOf, CurrentOf, OtherCalls
  <2>3. CASE \/ \E t \in Task : Sending(t)' /\ v = NewsOf(t)'
             \/ \E e \in Delivery : known'[e] # None /\ v = known'[e]
             \/ v \in late'
    BY <1>4, <2>3 DEF IsVersion, NewsOf, Sending
  <2>. QED
    BY <1>10, <1>11, <2>1, <2>2, <2>3 DEF IsVersion
<1>. DEFINE new == [delivery |-> d, status |-> m.status, at |-> call[c].stamp]
<1>12. /\ call[c].stamp \in Nat /\ call[c].copy.updatedAt \in Nat
       /\ call[c].stamp <= clock /\ call[c].copy.updatedAt < call[c].stamp
       /\ \A v \in News : IsVersion(v) /\ v.delivery = d => v.at # call[c].stamp
       /\ \A b \in Call \ {c} : pc[b] = "update" => call[b].stamp # call[c].stamp
  <2>1. call[c] \in Local /\ call[c].copy \in Document
    BY <1>1 DEF SyncInv, CallsFit, Holding
  <2>. QED
    BY <1>0, <1>1, <2>1 DEF SyncInv, StampsFit, Local, Document
<1>13. new.delivery = d /\ new.at = call[c].stamp
  OBVIOUS
<1>. HIDE DEF new
<1>14. VersionsFit'
  <2>1. ASSUME NEW v \in News, IsVersion(v)
        PROVE  /\ v.delivery \in Stored' /\ v.at <= clock'
               /\ v.delivery \notin overwritten' => v.at <= delivery'[v.delivery].updatedAt
    <3>1. /\ v.delivery \in Stored /\ v.at <= clock /\ v.at \in Nat
          /\ v.delivery \notin overwritten => v.at <= delivery[v.delivery].updatedAt
      BY <2>1 DEF SyncInv, VersionsFit, News
    <3>2. CASE v.delivery = d /\ d \notin overwritten'
      <4>1. d \notin overwritten /\ delivery[d] = call[c].copy
        BY <1>1, <3>2
      <4>2. v.at <= call[c].copy.updatedAt
        BY <3>1, <3>2, <4>1
      <4>3. v.at <= call[c].stamp
        BY <1>12, <3>1, <4>2
      <4>. QED
        BY <1>2, <1>4, <1>5, <3>1, <3>2, <4>3
    <3>. QED
      BY <1>1, <1>4, <1>5, <3>1, <3>2
  <2>2. /\ new.delivery \in Stored' /\ new.at <= clock'
        /\ new.at <= delivery'[new.delivery].updatedAt
    BY <1>2, <1>4, <1>5, <1>12, <1>13
  <2>3. \A v \in News :
          IsVersion(v)' =>
            /\ v.delivery \in Stored' /\ v.at <= clock'
            /\ v.delivery \notin overwritten' => v.at <= delivery'[v.delivery].updatedAt
    BY <1>11, <2>1, <2>2 DEF new
  <2>4. ASSUME NEW v \in News, NEW w \in News, IsVersion(v)', IsVersion(w)',
               v.delivery = w.delivery, v.at = w.at
        PROVE  v.status = w.status
    <3>1. (IsVersion(v) \/ v = new) /\ (IsVersion(w) \/ w = new)
      BY <1>11, <2>4 DEF new
    <3>2. CASE IsVersion(v) /\ IsVersion(w)
      BY <2>4, <3>2 DEF SyncInv, VersionsFit
    <3>. QED
      BY <1>12, <1>13, <2>4, <3>1, <3>2
  <2>. QED
    BY <2>3, <2>4 DEF VersionsFit
<1>15. StampsFit'
  <2>1. \A b \in Call : pc'[b] = "update" => b # c /\ pc[b] = "update" /\ call'[b] = call[b]
    BY <1>3 DEF OtherCalls
  <2>2. \A v \in News :
          IsVersion(v)' =>
            \/ IsVersion(v)
            \/ \A b \in Call : pc'[b] = "update" => v.at # call[b].stamp
    BY <1>11, <1>12, <1>13, <2>1 DEF new
  <2>3. clock' \in Nat /\ clock <= clock' /\ overwritten \subseteq overwritten'
    BY <1>1, <1>4
  <2>. QED
    BY <2>1, <2>2, <2>3, StampsStay
<1>16. SentFits'
  <2>. SUFFICES ASSUME NEW t \in Task, Sending(t)', sync'[t].delivery \notin crossed'
                PROVE  (/\ sync[t].copy.status = delivery[sync[t].delivery].status
                        /\ sync[t].copy.updatedAt = delivery[sync[t].delivery].updatedAt
                        /\ sync[t].pc = "clear" /\ sync[t].delivery \notin overwritten =>
                             /\ known[sync[t].delivery] # None
                             /\ known[sync[t].delivery].at = sync[t].copy.updatedAt)'
    BY DEF SentFits
  <2>1. sync' = sync /\ Sending(t) /\ sync[t].delivery \in Stored
    BY <1>4 DEF SyncInv, SyncFits, Sending
  <2>2. sync[t].delivery # d /\ sync[t].delivery \notin crossed
    BY <1>1, <2>1 DEF BeingSent, Sending
  <2>3. delivery'[sync[t].delivery] = delivery[sync[t].delivery]
    BY <1>4, <1>5, <2>1, <2>2
  <2>. QED
    BY <1>1, <1>4, <2>1, <2>2, <2>3 DEF SyncInv, SentFits
<1>17. Settled'
  <2>. SUFFICES ASSUME NEW e \in Stored' \ (crossed' \cup overwritten'), ~ delivery'[e].pending
                PROVE  SettledFor(e)'
    BY DEF Settled
  <2>1. e \in Stored \ (crossed \cup overwritten)
    BY <1>1, <1>5
  <2>2. delivery'[e].status = delivery[e].status /\ ~ delivery[e].pending
    <3>1. CASE e # d
      BY <1>4, <1>5, <2>1, <3>1
    <3>2. CASE e = d
      <4>1. delivery[d] = call[c].copy
        BY <1>1, <3>2
      <4>. QED
        BY <1>2, <1>5, <2>1, <3>2, <4>1
    <3>. QED
      BY <3>1, <3>2
  <2>3. SettledFor(e)
    BY <2>1, <2>2 DEF SyncInv, Settled
  <2>. QED
    BY <1>4, <2>2, <2>3 DEF SettledFor, Believed
<1>. QED
  BY <1>6, <1>8, <1>9, <1>14, <1>15, <1>16, <1>17 DEF SyncInv

-----------------------------------------------------------------------------
(* The synchronisation                                                     *)

(* A call goes on as it was, or is over.                                   *)
SameCalls ==
  \A c \in Call : \/ call'[c] = call[c] /\ pc'[c] = pc[c]
                  \/ pc'[c] \in {"idle", "ended"}

(* A step that writes no status and tells MenuFlow nothing.                *)
LEMMA QuietSync ==
  ASSUME SyncInv, SameDocuments, delivery' \in [Delivery -> Document \cup {None}],
         CallsTyped', SameCalls,
         chain' \in Seq(Task), sync' \in [Task -> SyncState],
         retrying' \in BOOLEAN, due' \subseteq Stored, restarts' \in Nat, late' \subseteq News,
         UNCHANGED <<answer, clock, known, past>>,
         \A t \in Task : sync'[t].pc # "idle" => sync'[t].delivery \in Stored,
         \A t \in Task :
           Sending(t)' =>
             \/ Sending(t) /\ sync'[t] = sync[t]
             \/ sync'[t].pc = "post" /\ sync'[t].copy = delivery[sync'[t].delivery],
         \A n \in late' : n \in late \/ \E t \in Task : Sending(t) /\ n = NewsOf(t),
         Settled'
  PROVE  SyncInv'
<1>1. UNCHANGED <<answer, clock, known, crossed, overwritten>>
  BY DEF past
<1>2. TypeOK'
  <2>1. due' \subseteq Delivery
    BY DEF Stored
  <2>. QED
    BY <1>1, <2>1 DEF SyncInv, TypeOK, CallsTyped, Step5
<1>3. \A d \in Stored : delivery[d] \in Document /\ delivery'[d].order = delivery[d].order
  BY StoredIsDocument DEF SyncInv, SameDocuments
<1>4. CallsFit'
  <2>. SUFFICES ASSUME NEW b \in Call
                PROVE  (/\ pc[b] \in {"save", "again"} => call[b] \in Local /\ call[b].order \in Order
                        /\ Holding(b) =>
                             /\ call[b] \in Local /\ call[b].delivery \in Stored
                             /\ call[b].copy \in Document
                             /\ call[b].copy.order = delivery[call[b].delivery].order
                        /\ pc[b] = "update" => call[b].current \in Document)'
    BY DEF CallsFit
  <2>1. CASE pc'[b] \in {"idle", "ended"}
    BY <2>1 DEF Holding
  <2>2. CASE call'[b] = call[b] /\ pc'[b] = pc[b]
    BY <1>3, <2>2 DEF SyncInv, CallsFit, Holding, SameDocuments
  <2>. QED
    BY <2>1, <2>2 DEF SameCalls
<1>5. SyncFits'
  <2>1. ASSUME NEW t \in Task, Sending(t)'
        PROVE  sync'[t].copy \in Document
    <3>1. CASE Sending(t) /\ sync'[t] = sync[t]
      BY <3>1 DEF SyncInv, SyncFits
    <3>2. CASE sync'[t].pc = "post" /\ sync'[t].copy = delivery[sync'[t].delivery]
      BY <1>3, <3>2
    <3>. QED
      BY <2>1, <3>1, <3>2
  <2>. QED
    BY <1>1, <2>1 DEF SyncInv, SyncFits, SameDocuments
<1>6. NoNewVersion
  <2>. SUFFICES ASSUME NEW v \in News, IsVersion(v)'
                PROVE  IsVersion(v)
    BY DEF NoNewVersion
  <2>1. CASE \E d \in Stored' : v = VersionOf(d)'
    BY <2>1 DEF IsVersion, VersionOf, SameDocuments
  <2>2. CASE \/ \E b \in Call : Holding(b)' /\ v = CopyOf(b)'
             \/ \E b \in Call : pc'[b] = "update" /\ v = CurrentOf(b)'
    BY <2>2 DEF IsVersion, Holding, CopyOf, CurrentOf, SameCalls
  <2>3. CASE \E t \in Task : Sending(t)' /\ v = NewsOf(t)'
    <3>1. PICK t \in Task : Sending(t)' /\ v = NewsOf(t)'
      BY <2>3
    <3>2. CASE Sending(t) /\ sync'[t] = sync[t]
      BY <3>1, <3>2 DEF IsVersion, NewsOf
    <3>3. CASE sync'[t].pc = "post" /\ sync'[t].copy = delivery[sync'[t].delivery]
      <4>1. sync'[t].delivery \in Stored
        BY <3>3
      <4>2. v = VersionOf(sync'[t].delivery)
        BY <3>1, <3>3 DEF NewsOf, VersionOf
      <4>. QED
        BY <4>1, <4>2 DEF IsVersion
    <3>. QED
      BY <3>1, <3>2, <3>3
  <2>4. CASE \E d \in Delivery : known'[d] # None /\ v = known'[d]
    BY <1>1, <2>4 DEF IsVersion
  <2>5. CASE v \in late'
    BY <2>5 DEF IsVersion
  <2>. QED
    BY <2>1, <2>2, <2>3, <2>4, <2>5 DEF IsVersion
<1>7. clock' \in Nat /\ clock <= clock'
  BY <1>1 DEF SyncInv, TypeOK
<1>8. VersionsFit'
  BY <1>1, <1>6, <1>7, VersionsStay
<1>9. StampsFit'
  <2>1. \A b \in Call : pc'[b] = "update" => pc[b] = "update" /\ call'[b] = call[b]
    BY DEF SameCalls
  <2>. QED
    BY <1>1, <1>6, <1>7, <2>1, StampsStay DEF NoNewVersion
<1>10. SentFits'
  <2>. SUFFICES ASSUME NEW t \in Task, Sending(t)', sync'[t].delivery \notin crossed'
                PROVE  (/\ sync[t].copy.status = delivery[sync[t].delivery].status
                        /\ sync[t].copy.updatedAt = delivery[sync[t].delivery].updatedAt
                        /\ sync[t].pc = "clear" /\ sync[t].delivery \notin overwritten =>
                             /\ known[sync[t].delivery] # None
                             /\ known[sync[t].delivery].at = sync[t].copy.updatedAt)'
    BY DEF SentFits
  <2>1. sync'[t].delivery \in Stored
    BY DEF Sending
  <2>2. CASE Sending(t) /\ sync'[t] = sync[t]
    BY <1>1, <2>1, <2>2 DEF SyncInv, SentFits, SameDocuments
  <2>3. CASE sync'[t].pc = "post" /\ sync'[t].copy = delivery[sync'[t].delivery]
    BY <2>1, <2>3 DEF SameDocuments
  <2>. QED
    BY <2>2, <2>3
<1>. QED
  BY <1>2, <1>4, <1>5, <1>8, <1>9, <1>10 DEF SyncInv

(* MenuFlow is told a version, which is the stored status if it is new and *)
(* the delivery not pending.                                               *)
LEMMA TellKeeps ==
  ASSUME SyncInv, NEW news \in News, IsVersion(news), Tell(news),
         UNCHANGED <<delivery, handlers, past, chain, retrying, due, restarts>>,
         sync' \in [Task -> SyncState], late' \subseteq late,
         \A t \in Task : sync'[t].pc # "idle" =>
           sync[t].pc # "idle" /\ sync'[t].delivery = sync[t].delivery,
         \A t \in Task : Sending(t)' =>
           /\ Sending(t) /\ sync'[t].copy = sync[t].copy
           /\ sync'[t].pc = sync[t].pc \/ news = NewsOf(t),
         \A d \in Stored \ (crossed \cup overwritten) :
           ~ delivery[d].pending /\ d = news.delivery
             /\ (known[d] = None \/ news.at >= known[d].at)
           => news.status = delivery[d].status
  PROVE  SyncInv'
<1>. DEFINE d == news.delivery
<1>1. /\ UNCHANGED <<delivery, call, pc, answer, clock, crossed, overwritten, chain, retrying,
                     due, restarts>>
      /\ Stored' = Stored /\ Stored \subseteq Delivery /\ SameDocuments
  BY DEF handlers, past, Stored, SameDocuments
<1>2. /\ known \in [Delivery -> News \cup {None}] /\ clock \in Nat /\ news # None
      /\ news.at \in Nat /\ d \in Delivery
  BY NoneIsNothing DEF SyncInv, TypeOK, News
<1>3. known' = [known EXCEPT ![d] = IF known[d] # None /\ known[d].at > news.at
                                    THEN known[d] ELSE news]
  BY <1>2 DEF Tell
<1>4. /\ \A e \in Delivery \ {d} : known'[e] = known[e]
      /\ known' \in [Delivery -> News \cup {None}]
      /\ \/ known[d] # None /\ known'[d] = known[d]
         \/ known'[d] = news /\ (known[d] = None \/ news.at >= known[d].at)
  <2>1. known[d] # None => known[d].at \in Nat
    BY <1>2 DEF News
  <2>2. ~ (known[d] # None /\ known[d].at > news.at)
          => known[d] = None \/ news.at >= known[d].at
    BY <1>2, <2>1
  <2>. QED
    BY <1>2, <1>3, <2>2
<1>5. TypeOK'
  BY <1>1, <1>4 DEF SyncInv, TypeOK
<1>6. CallsFit'
  BY <1>1 DEF SyncInv, CallsFit, Holding
<1>7. SyncFits'
  BY <1>1, <1>2, <1>4 DEF SyncInv, SyncFits
<1>8. NoNewVersion
  <2>. SUFFICES ASSUME NEW v \in News, IsVersion(v)'
                PROVE  IsVersion(v)
    BY DEF NoNewVersion
  <2>1. CASE \E e \in Stored' : v = VersionOf(e)'
    BY <1>1, <2>1 DEF IsVersion, VersionOf
  <2>2. CASE \/ \E b \in Call : Holding(b)' /\ v = CopyOf(b)'
             \/ \E b \in Call : pc'[b] = "update" /\ v = CurrentOf(b)'
    BY <1>1, <2>2 DEF IsVersion, Holding, CopyOf, CurrentOf
  <2>3. CASE \E t \in Task : Sending(t)' /\ v = NewsOf(t)'
    BY <2>3 DEF IsVersion, NewsOf, Sending
  <2>4. CASE \E e \in Delivery : known'[e] # None /\ v = known'[e]
    BY <1>4, <2>4 DEF IsVersion
  <2>5. CASE v \in late'
    BY <2>5 DEF IsVersion
  <2>. QED
    BY <2>1, <2>2, <2>3, <2>4, <2>5 DEF IsVersion
<1>9. VersionsFit' /\ StampsFit'
  <2>1. clock' \in Nat /\ clock <= clock'
    BY <1>1, <1>2
  <2>2. VersionsFit'
    BY <1>1, <1>8, <2>1, VersionsStay
  <2>3. \A b \in Call : pc'[b] = "update" => pc[b] = "update" /\ call'[b] = call[b]
    BY <1>1
  <2>4. StampsFit'
    BY <1>1, <1>8, <2>1, <2>3, StampsStay DEF NoNewVersion
  <2>. QED
    BY <2>2, <2>4
<1>10. SentFits'
  <2>. SUFFICES ASSUME NEW t \in Task, Sending(t)', sync'[t].delivery \notin crossed'
                PROVE  (/\ sync[t].copy.status = delivery[sync[t].delivery].status
                        /\ sync[t].copy.updatedAt = delivery[sync[t].delivery].updatedAt
                        /\ sync[t].pc = "clear" /\ sync[t].delivery \notin overwritten =>
                             /\ known[sync[t].delivery] # None
                             /\ known[sync[t].delivery].at = sync[t].copy.updatedAt)'
    BY DEF SentFits
  <2>. DEFINE e == sync[t].delivery
  <2>1. /\ Sending(t) /\ sync'[t].copy = sync[t].copy /\ sync'[t].delivery = e
        /\ e \in Stored /\ e \notin crossed
        /\ sync[t].copy.status = delivery[e].status
        /\ sync[t].copy.updatedAt = delivery[e].updatedAt
    BY <1>1 DEF SyncInv, SyncFits, SentFits, Sending
  <2>2. ASSUME sync'[t].pc = "clear", e \notin overwritten
        PROVE  known'[e] # None /\ known'[e].at = sync[t].copy.updatedAt
    <3>0. delivery[e].updatedAt \in Nat
      BY <2>1, StoredIsDocument DEF SyncInv
    <3>1. known[e] # None => known[e] \in News /\ known[e].at \in Nat
                             /\ known[e].at <= delivery[e].updatedAt
      <4>1. known[e] # None => known[e] \in News /\ IsVersion(known[e]) /\ known[e].delivery = e
        BY <1>1, <2>1, VersionsAreNews DEF SyncInv, SyncFits, IsVersion
      <4>. QED
        BY <2>1, <2>2, <4>1 DEF SyncInv, VersionsFit, News
    <3>2. d = e => news.at <= delivery[e].updatedAt
      BY <2>2 DEF SyncInv, VersionsFit
    <3>3. CASE news = NewsOf(t)
      <4>1. d = e /\ news.at = delivery[e].updatedAt
        BY <2>1, <3>3 DEF NewsOf
      <4>2. known'[e] = news \/ (known'[e] = known[e] /\ known[e] # None)
        <5>1. known'[d] = news \/ (known'[d] = known[d] /\ known[d] # None)
          BY <1>4
        <5>2. d = e
          BY <4>1
        <5>. HIDE DEF d, e
        <5>. QED
          BY <5>1, <5>2
      <4>3. CASE known'[e] = news
        BY <1>2, <2>1, <4>1, <4>3
      <4>4. CASE known'[e] = known[e] /\ known[e] # None /\ known'[e] # news
        <5>1. known'[d] = IF known[d] # None /\ known[d].at > news.at THEN known[d] ELSE news
          BY <1>2, <1>3
        <5>2. known[e].at > news.at
          BY <4>1, <4>4, <5>1
        <5>. QED
          BY <1>2, <3>0, <3>1, <4>1, <4>4, <5>2
      <4>. QED
        BY <4>2, <4>3, <4>4
    <3>4. CASE sync'[t].pc = sync[t].pc
      <4>1. known[e] # None /\ known[e].at = sync[t].copy.updatedAt
        BY <2>1, <2>2, <3>4 DEF SyncInv, SentFits
      <4>2. CASE known'[e] = known[e]
        BY <4>1, <4>2
      <4>3. CASE known'[e] # known[e]
        <5>1. d = e /\ known'[e] = news /\ news.at >= known[e].at
          BY <1>1, <1>4, <2>1, <4>1, <4>3
        <5>. QED
          BY <1>2, <2>1, <3>0, <3>2, <4>1, <5>1
      <4>. QED
        BY <4>2, <4>3
    <3>. QED
      BY <2>1, <3>3, <3>4
  <2>. QED
    BY <1>1, <2>1, <2>2
<1>11. Settled'
  <2>. SUFFICES ASSUME NEW e \in Stored' \ (crossed' \cup overwritten'), ~ delivery'[e].pending
                PROVE  SettledFor(e)'
    BY DEF Settled
  <2>1. e \in Stored \ (crossed \cup overwritten) /\ ~ delivery[e].pending /\ e \in Delivery
    BY <1>1
  <2>2. SettledFor(e)
    BY <2>1 DEF SyncInv, Settled
  <2>3. CASE known'[e] = known[e]
    BY <1>1, <2>2, <2>3 DEF SettledFor, Believed
  <2>4. CASE known'[e] # known[e]
    <3>1. e = d /\ known'[e] = news /\ (known[e] = None \/ news.at >= known[e].at)
      BY <1>4, <2>1, <2>4
    <3>2. news.status = delivery[e].status
      BY <2>1, <3>1
    <3>3. ASSUME NEW n \in late', n.delivery = e, n.at >= news.at
          PROVE  n.status = delivery[e].status
      <4>1. n \in late /\ n.at \in Nat
        BY DEF SyncInv, TypeOK, News
      <4>2. known[e] # None => known[e].at \in Nat
        BY <1>2, <2>1 DEF News
      <4>3. known[e] = None \/ n.at >= known[e].at
        BY <1>2, <3>1, <3>3, <4>1, <4>2
      <4>. QED
        BY <2>2, <3>3, <4>1, <4>3 DEF SettledFor
    <3>. QED
      BY <1>1, <1>2, <3>1, <3>2, <3>3 DEF SettledFor, Believed
  <2>. QED
    BY <2>3, <2>4
<1>. QED
  BY <1>5, <1>6, <1>7, <1>9, <1>10, <1>11 DEF SyncInv

(* The pieces of its steps.                                                *)
LEMMA SetPendingFits ==
  ASSUME SyncInv, NEW d \in Stored, NEW flag \in BOOLEAN, SetPending(d, flag)
  PROVE  /\ delivery' \in [Delivery -> Document \cup {None}] /\ SameDocuments
         /\ delivery'[d].pending = flag
         /\ \A e \in Stored \ {d} : delivery'[e] = delivery[e]
<1>. DEFINE m0 == delivery[d]
            m == [m0 EXCEPT !.pending = flag]
<1>1. d \in Delivery /\ m0 \in Document /\ delivery \in [Delivery -> Document \cup {None}]
  BY StoredIsDocument DEF SyncInv, TypeOK
<1>2. /\ m \in Document /\ m.order = m0.order /\ m.status = m0.status
      /\ m.updatedAt = m0.updatedAt /\ m.pending = flag
  BY <1>1 DEF Document
<1>3. delivery' = [delivery EXCEPT ![d] = m]
  <2>1. delivery' = [delivery EXCEPT ![d].pending = flag]
    BY DEF SetPending
  <2>. QED
    BY <1>1, <2>1
<1>. HIDE DEF m
<1>4. delivery'[d] = m /\ \A e \in Delivery \ {d} : delivery'[e] = delivery[e]
  BY <1>1, <1>3
<1>5. delivery' \in [Delivery -> Document \cup {None}]
  BY <1>1, <1>2, <1>3
<1>6. Stored' = Stored /\ Stored \subseteq Delivery
  BY <1>1, <1>2, <1>4, NoneIsNothing DEF Stored
<1>7. SameDocuments
  BY <1>2, <1>4, <1>6 DEF SameDocuments
<1>. QED
  BY <1>2, <1>4, <1>5, <1>6, <1>7

SyncStep == {"idle", "queued", "read", "post", "clear", "fail"}

LEMMA StepFits ==
  ASSUME SyncInv, NEW t \in Task, NEW next \in SyncStep, Step(t, next)
  PROVE  /\ sync' \in [Task -> SyncState] /\ \A u \in Task \ {t} : sync'[u] = sync[u]
         /\ sync'[t].pc = next /\ sync'[t].delivery = sync[t].delivery
         /\ sync'[t].copy = sync[t].copy
<1>. DEFINE s0 == sync[t]
            s == [s0 EXCEPT !.pc = next]
<1>1. s0 \in SyncState /\ sync \in [Task -> SyncState]
  BY DEF SyncInv, TypeOK
<1>2. s \in SyncState
  BY <1>1 DEF SyncState, SyncStep
<1>3. s.pc = next /\ s.delivery = s0.delivery /\ s.copy = s0.copy
  BY <1>1 DEF SyncState
<1>4. sync' = [sync EXCEPT ![t] = s]
  <2>1. sync' = [sync EXCEPT ![t].pc = next]
    BY DEF Step
  <2>. QED
    BY <1>1, <2>1
<1>. HIDE DEF s
<1>. QED
  BY <1>1, <1>2, <1>3, <1>4

LEMMA LeaveFits ==
  ASSUME SyncInv, NEW t \in Task, Running(t), Leave(t)
  PROVE  /\ chain' \in Seq(Task) /\ sync' \in [Task -> SyncState]
         /\ \A u \in Task \ {t} : sync'[u] = sync[u]
         /\ sync'[t].pc = "idle"
<1>1. chain \in Seq(Task) /\ chain # <<>> /\ sync \in [Task -> SyncState]
  BY DEF SyncInv, TypeOK, Running
<1>2. Idle \in SyncState /\ Idle.pc = "idle"
  BY DEF Idle, SyncState
<1>3. chain' = Tail(chain) /\ sync' = [sync EXCEPT ![t] = Idle]
  BY DEF Leave
<1>4. chain' \in Seq(Task)
  BY <1>1, <1>3
<1>. QED
  BY <1>1, <1>2, <1>3, <1>4

LEMMA EnqueueFits ==
  ASSUME SyncInv, NEW t \in Task, NEW d \in Stored, NEW mark \in BOOLEAN, Enqueue(t, d, mark)
  PROVE  /\ chain' \in Seq(Task) /\ sync' \in [Task -> SyncState]
         /\ \A u \in Task \ {t} : sync'[u] = sync[u]
         /\ sync'[t].pc = "queued" /\ sync'[t].delivery = d
<1>. DEFINE queued == [Idle EXCEPT !.pc = "queued", !.mark = mark, !.delivery = d]
<1>1. queued \in SyncState /\ queued.pc = "queued" /\ queued.delivery = d
  BY DEF Idle, SyncState, Stored
<1>2. chain' = Append(chain, t) /\ sync' = [sync EXCEPT ![t] = queued]
  BY DEF Enqueue
<1>. HIDE DEF queued
<1>3. chain \in Seq(Task) /\ sync \in [Task -> SyncState]
  BY DEF SyncInv, TypeOK
<1>4. chain' \in Seq(Task)
  BY <1>2, <1>3
<1>. QED
  BY <1>1, <1>2, <1>3, <1>4

(* A post given up may arrive: it says what the document says.             *)
LEMMA LateFits ==
  ASSUME SyncInv, SameDocuments, UNCHANGED <<known, past>>,
         \A n \in late' :
           n \in late \/ \E t \in Task : sync[t].pc = "post" /\ n = NewsOf(t),
         \A d \in Stored : delivery'[d].pending = delivery[d].pending
  PROVE  Settled'
<1>. SUFFICES ASSUME NEW d \in Stored' \ (crossed' \cup overwritten'), ~ delivery'[d].pending
              PROVE  SettledFor(d)'
  BY DEF Settled
<1>1. d \in Stored \ (crossed \cup overwritten) /\ ~ delivery[d].pending
  BY DEF SameDocuments, past
<1>2. SettledFor(d)
  BY <1>1 DEF SyncInv, Settled
<1>3. ASSUME NEW n \in late', n.delivery = d, known[d] = None \/ n.at >= known[d].at
      PROVE  n.status = delivery[d].status
  <2>1. CASE n \in late
    BY <1>2, <1>3, <2>1 DEF SettledFor
  <2>2. CASE \E t \in Task : sync[t].pc = "post" /\ n = NewsOf(t)
    <3>1. PICK t \in Task : sync[t].pc = "post" /\ n = NewsOf(t)
      BY <2>2
    <3>2. Sending(t) /\ sync[t].delivery = d /\ n.status = sync[t].copy.status
      BY <1>3, <3>1 DEF Sending, NewsOf
    <3>. QED
      BY <1>1, <3>2 DEF SyncInv, SentFits
  <2>. QED
    BY <2>1, <2>2
<1>. QED
  BY <1>1, <1>2, <1>3 DEF SettledFor, Believed, SameDocuments

(* The steps of the operation that is running.                             *)
LEMMA SyncStepKeeps ==
  ASSUME SyncInv, NEW t \in Task,
         MarkPending(t) \/ SyncRead(t) \/ PostFails(t) \/ ClearPending(t) \/ KeepPending(t)
           \/ SyncThrows(t)
  PROVE  SyncInv'
<1>0. /\ delivery \in [Delivery -> Document \cup {None}] /\ chain \in Seq(Task)
      /\ sync \in [Task -> SyncState] /\ late \subseteq News
      /\ CallsTyped /\ retrying \in BOOLEAN /\ due \subseteq Stored /\ restarts \in Nat
      /\ \A u \in Task : sync[u].pc # "idle" => sync[u].delivery \in Stored
  BY DEF SyncInv, TypeOK, SyncFits, CallsTyped, Step5
<1>1. UNCHANGED syncFrame
  BY DEF MarkPending, SyncRead, PostFails, ClearPending, KeepPending, SyncThrows
<1>2. UNCHANGED <<call, pc, answer, clock, retrying, due, restarts, past, crossed, overwritten>>
  BY <1>1 DEF syncFrame, handlers, past
<1>3. CallsTyped' /\ SameCalls
  BY <1>0, <1>2 DEF CallsTyped, SameCalls
<1>4. ASSUME UNCHANGED delivery
      PROVE  SameDocuments /\ delivery' \in [Delivery -> Document \cup {None}]
             /\ \A d \in Stored : delivery'[d].pending = delivery[d].pending
  BY <1>0, <1>4 DEF SameDocuments, Stored
<1>5. CASE MarkPending(t)
  <2>1. sync[t].pc = "queued" /\ sync[t].delivery \in Stored /\ UNCHANGED <<chain, known, late>>
    BY <1>0, <1>5 DEF MarkPending, outside
  <2>2. Step(t, "read")
    BY <1>5 DEF MarkPending
  <2>3. /\ sync' \in [Task -> SyncState] /\ \A u \in Task \ {t} : sync'[u] = sync[u]
        /\ sync'[t].pc = "read" /\ sync'[t].delivery = sync[t].delivery
    BY <2>2, StepFits DEF SyncStep
  <2>4. /\ SameDocuments /\ delivery' \in [Delivery -> Document \cup {None}]
        /\ \A d \in Stored : delivery'[d].pending = delivery[d].pending \/ delivery'[d].pending
    <3>1. CASE SetPending(sync[t].delivery, TRUE)
      BY <2>1, <3>1, SetPendingFits
    <3>2. CASE UNCHANGED delivery
      BY <1>4, <3>2
    <3>. QED
      BY <1>5, <3>1, <3>2 DEF MarkPending
  <2>5. Settled'
    BY <1>2, <2>1, <2>4, SettledStays
  <2>6. \A u \in Task : Sending(u)' => Sending(u) /\ sync'[u] = sync[u]
    BY <2>3 DEF Sending
  <2>7. \A u \in Task : sync'[u].pc # "idle" => sync'[u].delivery \in Stored
    BY <1>0, <2>1, <2>3
  <2>. QED
    BY <1>0, <1>2, <1>3, <2>1, <2>3, <2>4, <2>5, <2>6, <2>7, QuietSync
<1>6. CASE SyncRead(t)
  <2>1. /\ sync[t].pc = "read" /\ sync[t].delivery \in Stored
        /\ UNCHANGED <<delivery, chain, known, late>>
    BY <1>0, <1>6 DEF SyncRead, outside
  <2>. DEFINE d == sync[t].delivery
              s0 == sync[t]
              s1 == [s0 EXCEPT !.pc = "post"]
              s2 == [s1 EXCEPT !.copy = delivery[d]]
  <2>2. s1 \in SyncState /\ s1.delivery = d /\ s1.pc = "post"
    BY <1>0 DEF SyncState
  <2>3. delivery[d] \in Document
    BY <2>1, StoredIsDocument DEF SyncInv
  <2>4. sync' = [sync EXCEPT ![t] = s2]
    BY <1>0, <1>6 DEF SyncRead
  <2>. HIDE DEF s1
  <2>5. s2 \in SyncState /\ s2.delivery = d /\ s2.pc = "post" /\ s2.copy = delivery[d]
    BY <2>2, <2>3 DEF SyncState
  <2>. HIDE DEF s2
  <2>6. /\ sync' \in [Task -> SyncState] /\ \A u \in Task \ {t} : sync'[u] = sync[u]
        /\ sync'[t].pc = "post" /\ sync'[t].delivery = d /\ sync'[t].copy = delivery[d]
    BY <1>0, <2>4, <2>5
  <2>7. Settled'
    BY <1>2, <1>4, <2>1, SettledStays
  <2>8. \A u \in Task : Sending(u)' =>
          \/ Sending(u) /\ sync'[u] = sync[u]
          \/ sync'[u].pc = "post" /\ sync'[u].copy = delivery[sync'[u].delivery]
    BY <2>6 DEF Sending
  <2>9. \A u \in Task : sync'[u].pc # "idle" => sync'[u].delivery \in Stored
    BY <1>0, <2>1, <2>6
  <2>. QED
    BY <1>0, <1>2, <1>3, <1>4, <2>1, <2>6, <2>7, <2>8, <2>9, QuietSync
<1>7. CASE PostFails(t)
  <2>1. /\ sync[t].pc = "post" /\ UNCHANGED <<delivery, chain, known>>
        /\ late' \in {late, late \cup {NewsOf(t)}} /\ Step(t, "fail")
    BY <1>7 DEF PostFails
  <2>2. /\ sync' \in [Task -> SyncState] /\ \A u \in Task \ {t} : sync'[u] = sync[u]
        /\ sync'[t].pc = "fail" /\ sync'[t].delivery = sync[t].delivery
    BY <2>1, StepFits DEF SyncStep
  <2>3. late' \subseteq News
    BY <1>0, <2>1, VersionsAreNews DEF Sending
  <2>4. \A n \in late' : n \in late \/ \E u \in Task : sync[u].pc = "post" /\ n = NewsOf(u)
    BY <2>1
  <2>5. Settled'
    BY <1>2, <1>4, <2>1, <2>4, LateFits
  <2>6. \A n \in late' : n \in late \/ \E u \in Task : Sending(u) /\ n = NewsOf(u)
    BY <2>4 DEF Sending
  <2>7. \A u \in Task : Sending(u)' => Sending(u) /\ sync'[u] = sync[u]
    BY <2>2 DEF Sending
  <2>8. \A u \in Task : sync'[u].pc # "idle" => sync'[u].delivery \in Stored
    BY <1>0, <2>1, <2>2
  <2>. QED
    BY <1>0, <1>2, <1>3, <1>4, <2>1, <2>2, <2>3, <2>5, <2>6, <2>7, <2>8, QuietSync
<1>8. ASSUME Running(t), Leave(t), sync[t].pc # "idle", UNCHANGED <<known, late>>,
             SameDocuments, delivery' \in [Delivery -> Document \cup {None}], Settled'
      PROVE  SyncInv'
  <2>1. /\ chain' \in Seq(Task) /\ sync' \in [Task -> SyncState]
        /\ \A u \in Task \ {t} : sync'[u] = sync[u]
    BY <1>8, LeaveFits
  <2>2. sync'[t].pc = "idle"
    BY <1>8, LeaveFits
  <2>3. \A u \in Task : Sending(u)' => Sending(u) /\ sync'[u] = sync[u]
    BY <2>1, <2>2 DEF Sending
  <2>4. \A u \in Task : sync'[u].pc # "idle" => sync'[u].delivery \in Stored
    BY <1>0, <2>1, <2>2
  <2>. QED
    BY <1>0, <1>2, <1>3, <1>8, <2>1, <2>3, <2>4, QuietSync
<1>9. CASE ClearPending(t)
  <2>. DEFINE d == sync[t].delivery
  <2>1. /\ Running(t) /\ Leave(t) /\ sync[t].pc = "clear" /\ UNCHANGED <<known, late>>
        /\ SetPending(d, FALSE) /\ d \in Stored
    BY <1>0, <1>9 DEF ClearPending, outside
  <2>2. /\ delivery' \in [Delivery -> Document \cup {None}] /\ SameDocuments
        /\ \A e \in Stored \ {d} : delivery'[e] = delivery[e]
    BY <2>1, SetPendingFits
  <2>3. ASSUME d \notin crossed, d \notin overwritten
        PROVE  SettledFor(d)
    <3>1. known[d] # None /\ known[d].at = delivery[d].updatedAt
      BY <2>1, <2>3 DEF SyncInv, SentFits, Sending
    <3>2. /\ known[d] \in News /\ IsVersion(known[d]) /\ known[d].delivery = d
          /\ VersionOf(d) \in News /\ IsVersion(VersionOf(d))
      BY <2>1, <3>1, VersionsAreNews DEF IsVersion, SyncInv, SyncFits, Stored
    <3>3. /\ VersionOf(d).delivery = d /\ VersionOf(d).at = delivery[d].updatedAt
          /\ VersionOf(d).status = delivery[d].status
      BY DEF VersionOf
    <3>4. known[d].status = delivery[d].status
      BY <3>1, <3>2, <3>3 DEF SyncInv, VersionsFit
    <3>5. ASSUME NEW n \in late, n.delivery = d, n.at >= known[d].at
          PROVE  n.status = delivery[d].status
      <4>1. n \in News /\ IsVersion(n)
        BY DEF SyncInv, TypeOK, IsVersion
      <4>2. n.at <= delivery[d].updatedAt
        BY <2>3, <3>5, <4>1 DEF SyncInv, VersionsFit
      <4>3. n.at \in Nat /\ delivery[d].updatedAt \in Nat
        BY <2>1, <4>1, StoredIsDocument DEF News, SyncInv
      <4>4. n.at = delivery[d].updatedAt
        BY <3>1, <3>5, <4>2, <4>3
      <4>. QED
        BY <3>2, <3>3, <3>5, <4>1, <4>4 DEF SyncInv, VersionsFit
    <3>. QED
      BY <3>1, <3>4, <3>5 DEF SettledFor, Believed
  <2>4. Settled'
    <3>. SUFFICES ASSUME NEW e \in Stored' \ (crossed' \cup overwritten'),
                         ~ delivery'[e].pending
                  PROVE  SettledFor(e)'
      BY DEF Settled
    <3>1. e \in Stored \ (crossed \cup overwritten)
      BY <1>2, <2>2 DEF SameDocuments
    <3>2. SettledFor(e)
      <4>1. CASE e = d
        BY <2>3, <3>1, <4>1
      <4>2. CASE e # d
        BY <2>2, <3>1, <4>2 DEF SyncInv, Settled
      <4>. QED
        BY <4>1, <4>2
    <3>. QED
      BY <2>1, <2>2, <3>1, <3>2 DEF SettledFor, Believed, SameDocuments
  <2>. QED
    BY <1>8, <2>1, <2>2, <2>4
<1>10. CASE KeepPending(t)
  <2>1. /\ Running(t) /\ Leave(t) /\ sync[t].pc = "fail" /\ UNCHANGED <<known, late>>
        /\ SetPending(sync[t].delivery, TRUE) /\ sync[t].delivery \in Stored
    BY <1>0, <1>10 DEF KeepPending, outside
  <2>2. /\ delivery' \in [Delivery -> Document \cup {None}] /\ SameDocuments
        /\ \A d \in Stored : delivery'[d].pending = delivery[d].pending \/ delivery'[d].pending
    BY <2>1, SetPendingFits
  <2>3. Settled'
    BY <1>2, <2>1, <2>2, SettledStays
  <2>. QED
    BY <1>8, <2>1, <2>2, <2>3
<1>11. CASE SyncThrows(t)
  <2>1. Running(t) /\ UNCHANGED <<delivery, known, late>>
    BY <1>11 DEF SyncThrows, outside
  <2>2. Settled'
    BY <1>2, <1>4, <2>1, SettledStays
  <2>3. CASE sync[t].pc = "clear" /\ Step(t, "fail") /\ UNCHANGED chain
    <3>1. /\ sync' \in [Task -> SyncState] /\ \A u \in Task \ {t} : sync'[u] = sync[u]
          /\ sync'[t].pc = "fail" /\ sync'[t].delivery = sync[t].delivery
      BY <2>3, StepFits DEF SyncStep
    <3>2. \A u \in Task : Sending(u)' => Sending(u) /\ sync'[u] = sync[u]
      BY <3>1 DEF Sending
    <3>3. \A u \in Task : sync'[u].pc # "idle" => sync'[u].delivery \in Stored
      BY <1>0, <2>3, <3>1
    <3>. QED
      BY <1>0, <1>2, <1>3, <1>4, <2>1, <2>2, <2>3, <3>1, <3>2, <3>3, QuietSync
  <2>4. CASE sync[t].pc \in {"queued", "read", "fail"} /\ Leave(t)
    BY <1>4, <1>8, <2>1, <2>2, <2>4
  <2>. QED
    BY <1>11, <2>3, <2>4 DEF SyncThrows
<1>. QED
  BY <1>5, <1>6, <1>7, <1>9, <1>10, <1>11

(* What MenuFlow is told: the answer to a post, or a post that comes late. *)
LEMMA TellSteps ==
  /\ SyncInv /\ (\E t \in Task : PostAccepted(t)) => SyncInv'
  /\ SyncInv /\ (\E news \in late : Arrive(news)) => SyncInv'
<1>1. ASSUME SyncInv, NEW t \in Task, PostAccepted(t)
      PROVE  SyncInv'
  <2>1. /\ sync[t].pc = "post" /\ Tell(NewsOf(t)) /\ Step(t, "clear")
        /\ UNCHANGED <<delivery, chain, late, handlers, retrying, due, restarts, past>>
    BY <1>1 DEF PostAccepted, syncFrame
  <2>2. /\ sync' \in [Task -> SyncState] /\ \A u \in Task \ {t} : sync'[u] = sync[u]
        /\ sync'[t].pc = "clear" /\ sync'[t].delivery = sync[t].delivery
        /\ sync'[t].copy = sync[t].copy
    BY <1>1, <2>1, StepFits DEF SyncStep
  <2>3. Sending(t) /\ NewsOf(t) \in News /\ IsVersion(NewsOf(t))
    BY <1>1, <2>1, VersionsAreNews DEF Sending, IsVersion
  <2>4. \A u \in Task : sync'[u].pc # "idle" =>
          sync[u].pc # "idle" /\ sync'[u].delivery = sync[u].delivery
    BY <2>1, <2>2
  <2>5. \A u \in Task : Sending(u)' =>
          /\ Sending(u) /\ sync'[u].copy = sync[u].copy
          /\ sync'[u].pc = sync[u].pc \/ NewsOf(t) = NewsOf(u)
    BY <2>2, <2>3 DEF Sending
  <2>6. \A d \in Stored \ (crossed \cup overwritten) :
          d = NewsOf(t).delivery => NewsOf(t).status = delivery[d].status
    BY <1>1, <2>3 DEF SyncInv, SentFits, NewsOf
  <2>. QED
    BY <1>1, <2>1, <2>2, <2>3, <2>4, <2>5, <2>6, TellKeeps
<1>2. ASSUME SyncInv, NEW news \in late, Arrive(news)
      PROVE  SyncInv'
  <2>1. /\ Tell(news) /\ late' \subseteq late
        /\ UNCHANGED <<delivery, handlers, past, chain, sync, retrying, due, restarts>>
    BY <1>2 DEF Arrive, process
  <2>2. news \in News /\ IsVersion(news) /\ sync' \in [Task -> SyncState]
    BY <1>2, <2>1 DEF SyncInv, TypeOK, IsVersion
  <2>3. \A d \in Stored \ (crossed \cup overwritten) :
          ~ delivery[d].pending /\ d = news.delivery
            /\ (known[d] = None \/ news.at >= known[d].at)
          => news.status = delivery[d].status
    BY <1>2 DEF SyncInv, Settled, SettledFor
  <2>4. \A u \in Task : Sending(u)' => Sending(u) /\ sync'[u] = sync[u]
    BY <2>1 DEF Sending
  <2>. QED
    BY <1>2, <2>1, <2>2, <2>3, <2>4, TellKeeps
<1>. QED
  BY <1>1, <1>2

(* The retry, a restart, and a step that changes nothing.                  *)
LEMMA OtherSteps ==
  ASSUME SyncInv, RetryGoesOn \/ Restart \/ UNCHANGED vars
  PROVE  SyncInv'
<1>0. /\ delivery \in [Delivery -> Document \cup {None}] /\ chain \in Seq(Task)
      /\ sync \in [Task -> SyncState] /\ late \subseteq News
      /\ CallsTyped /\ retrying \in BOOLEAN /\ due \subseteq Stored /\ restarts \in Nat
      /\ \A u \in Task : sync[u].pc # "idle" => sync[u].delivery \in Stored
  BY DEF SyncInv, TypeOK, SyncFits, CallsTyped, Step5
<1>1. delivery' = delivery /\ answer' = answer /\ clock' = clock /\ known' = known
      /\ past' = past /\ crossed' = crossed /\ overwritten' = overwritten
  BY DEF RetryGoesOn, RetryFind, RetryNext, RetryDone, Restart, vars, handlers, outside, past
<1>2. SameDocuments /\ delivery' \in [Delivery -> Document \cup {None}]
      /\ \A d \in Stored : delivery'[d].pending = delivery[d].pending
  BY <1>0, <1>1 DEF SameDocuments, Stored
<1>3. CASE RetryFind \/ RetryDone \/ UNCHANGED vars
  <2>1. /\ UNCHANGED <<call, pc, chain, sync, late, restarts>>
        /\ retrying' \in BOOLEAN /\ due' \subseteq Stored
    BY <1>0, <1>3 DEF RetryFind, RetryDone, Pending, vars, handlers, process, outside
  <2>2. CallsTyped' /\ SameCalls
    BY <1>0, <2>1 DEF CallsTyped, SameCalls
  <2>3. Settled'
    BY <1>1, <1>2, <2>1, SettledStays
  <2>4. \A u \in Task : Sending(u)' => Sending(u) /\ sync'[u] = sync[u]
    BY <2>1 DEF Sending
  <2>. QED
    BY <1>0, <1>1, <1>2, <2>1, <2>2, <2>3, <2>4, QuietSync
<1>4. CASE RetryNext
  <2>1. PICK d \in due : Enqueue(Timer, d, FALSE) /\ due' = due \ {d}
    BY <1>4 DEF RetryNext
  <2>2. UNCHANGED <<call, pc, retrying, late, restarts>>
    BY <1>4 DEF RetryNext, handlers, outside
  <2>3. Timer \in Task /\ d \in Stored
    BY <1>0, <2>1 DEF Task
  <2>4. /\ chain' \in Seq(Task) /\ sync' \in [Task -> SyncState]
        /\ \A u \in Task \ {Timer} : sync'[u] = sync[u]
        /\ sync'[Timer].pc = "queued" /\ sync'[Timer].delivery = d
    BY <2>1, <2>3, EnqueueFits
  <2>5. CallsTyped' /\ SameCalls
    BY <1>0, <2>2 DEF CallsTyped, SameCalls
  <2>6. Settled'
    BY <1>1, <1>2, <2>2, SettledStays
  <2>7. \A u \in Task : Sending(u)' => Sending(u) /\ sync'[u] = sync[u]
    BY <2>4 DEF Sending
  <2>8. /\ \A u \in Task : sync'[u].pc # "idle" => sync'[u].delivery \in Stored
        /\ due' \subseteq Stored
    BY <1>0, <2>1, <2>3, <2>4
  <2>. QED
    BY <1>0, <1>1, <1>2, <2>2, <2>4, <2>5, <2>6, <2>7, <2>8, QuietSync
<1>5. CASE Restart
  <2>1. /\ pc' = [c \in Call |-> IF pc[c] = "idle" THEN "idle" ELSE "ended"]
        /\ call' = [c \in Call |-> NoLocal] /\ chain' = <<>>
        /\ sync' = [t \in Task |-> Idle] /\ retrying' = FALSE /\ due' = {}
        /\ restarts' = restarts + 1
        /\ late' \in {late, late \cup {NewsOf(t) : t \in {u \in Task : sync[u].pc = "post"}}}
    BY <1>5 DEF Restart
  <2>2. CallsTyped' /\ SameCalls
    BY <2>1 DEF CallsTyped, SameCalls, Step5
  <2>3. Idle \in SyncState /\ Idle.pc = "idle"
    BY DEF Idle, SyncState
  <2>4. \A n \in late' : n \in late \/ \E t \in Task : sync[t].pc = "post" /\ n = NewsOf(t)
    BY <2>1
  <2>5. late' \subseteq News
    BY <1>0, <2>4, VersionsAreNews DEF Sending
  <2>6. Settled'
    BY <1>1, <1>2, <2>4, LateFits
  <2>7. \A n \in late' : n \in late \/ \E t \in Task : Sending(t) /\ n = NewsOf(t)
    BY <2>4 DEF Sending
  <2>8. chain' \in Seq(Task) /\ restarts' \in Nat /\ sync' \in [Task -> SyncState]
    BY <1>0, <2>1, <2>3
  <2>9. \A u \in Task : sync'[u].pc = "idle"
    BY <2>1, <2>3
  <2>. QED
    BY <1>0, <1>1, <1>2, <2>1, <2>2, <2>5, <2>6, <2>7, <2>8, <2>9, QuietSync DEF Sending
<1>. QED
  BY <1>3, <1>4, <1>5 DEF RetryGoesOn

LEMMA SyncNext == SyncInv /\ [Next]_vars => SyncInv'
<1>. SUFFICES ASSUME SyncInv, [Next]_vars
              PROVE  SyncInv'
  OBVIOUS
<1>1. ASSUME NEW c \in Call, CallNext(c)
      PROVE  SyncInv'
  <2>1. CASE CreateFind(c) \/ Refuse(c) \/ DuplicateKey(c) \/ FindAgain(c) \/ ReadCopy(c)
    BY <2>1, QuietCalls
  <2>2. CASE CreateSave(c) \/ Cancel(c) \/ Release(c) \/ Delete(c) \/ Claim(c)
    BY <2>2, CallWrites
  <2>3. CASE MergeRead(c)
    BY <2>3, MergeReadKeeps
  <2>4. CASE UpdateWrite(c)
    BY <2>4, UpdateKeeps
  <2>. QED
    BY <1>1, <2>1, <2>2, <2>3, <2>4 DEF CallNext
<1>2. ASSUME NEW t \in Task, SyncGoesOn(t) \/ SyncThrows(t)
      PROVE  SyncInv'
  <2>1. CASE PostAccepted(t)
    BY <2>1, TellSteps
  <2>2. CASE MarkPending(t) \/ SyncRead(t) \/ PostFails(t) \/ ClearPending(t) \/ KeepPending(t)
               \/ SyncThrows(t)
    BY <2>2, SyncStepKeeps
  <2>. QED
    BY <1>2, <2>1, <2>2 DEF SyncGoesOn
<1>3. CASE \E news \in late : Arrive(news)
  BY <1>3, TellSteps
<1>4. CASE RetryGoesOn \/ Restart \/ UNCHANGED vars
  BY <1>4, OtherSteps
<1>. QED
  BY <1>1, <1>2, <1>3, <1>4 DEF Next

-----------------------------------------------------------------------------
(* What the run checks, for every instance                                 *)

(* The invariant holds of menuflow-status-sync.service.ts and the handlers *)
(* around it, whatever fails, is given up, comes late or restarts.         *)
THEOREM SyncInvHolds == Spec => []SyncInv
BY SyncStarts, SyncNext, PTL DEF Spec

(* Documents, handlers, the chain, what MenuFlow knows and what may still  *)
(* reach it keep their types (TypeOK).                                     *)
THEOREM TypeCorrect == Spec => []TypeOK
<1>1. SyncInv => TypeOK
  BY DEF SyncInv
<1>. QED
  BY <1>1, SyncInvHolds, PTL

(* syncDelivery and retryPending: a delivery whose flag is not set is one  *)
(* whose status MenuFlow has, whatever failed, died or came late, unless   *)
(* it was written while it was sent or from an older copy.                 *)
THEOREM SettledHolds == Spec => []SettledIsKnown
<1>1. SyncInv => SettledIsKnown
  BY DEF SyncInv, Settled, SettledFor, SettledIsKnown
<1>. QED
  BY <1>1, SyncInvHolds, PTL

-----------------------------------------------------------------------------
(* One delivery per order, once the unique index exists                    *)

OneInv ==
  /\ \A a, b \in Stored : delivery[a].order = delivery[b].order => a = b
  /\ \A c \in Call : answer[c] # None => answer[c] \in Stored

(* A step stores a delivery, or leaves the orders of the stored ones and   *)
(* answers with one of them.                                               *)
SameOrders ==
  /\ Stored' = Stored
  /\ \A d \in Stored : delivery'[d].order = delivery[d].order
  /\ \A c \in Call : answer'[c] = answer[c] \/ answer'[c] \in Stored

LEMMA ImageKeepsOrders ==
  ASSUME SyncInv, NEW d \in Stored, NEW m \in Document, m.order = delivery[d].order,
         delivery' = [delivery EXCEPT ![d] = m], UNCHANGED answer
  PROVE  SameOrders
<1>1. delivery \in [Delivery -> Document \cup {None}] /\ Stored \subseteq Delivery
  BY DEF SyncInv, TypeOK, Stored
<1>2. delivery'[d] = m /\ \A e \in Delivery \ {d} : delivery'[e] = delivery[e]
  BY <1>1
<1>3. Stored' = Stored
  BY <1>1, <1>2, NoneIsNothing DEF Stored
<1>. QED
  BY <1>1, <1>2, <1>3 DEF SameOrders

LEMMA OrdersOfCalls ==
  ASSUME SyncInv, NEW c \in Call, CallNext(c), ~ CreateSave(c)
  PROVE  SameOrders
<1>0. answer \in [Call -> Delivery \cup {None}]
  BY DEF SyncInv, TypeOK
<1>1. ASSUME UNCHANGED delivery, UNCHANGED answer \/ \E d \in Stored : Answer(c, d)
      PROVE  SameOrders
  BY <1>0, <1>1 DEF SameOrders, Stored, Answer
<1>2. CASE CreateFind(c) \/ Refuse(c) \/ DuplicateKey(c) \/ FindAgain(c) \/ ReadCopy(c)
           \/ MergeRead(c)
  BY <1>1, <1>2 DEF CreateFind, Refuse, DuplicateKey, FindAgain, ReadCopy, MergeRead, OfOrder
<1>3. ASSUME pc[c] = "write", NEW s \in Status, NEW active \in BOOLEAN,
             Put(call[c].delivery, Written(c, s, active)), UNCHANGED answer
      PROVE  SameOrders
  <2>1. call[c].delivery \in Stored
    BY <1>3 DEF SyncInv, CallsFit, Holding
  <2>2. /\ Written(c, s, active) \in Document
        /\ Written(c, s, active).order = delivery[call[c].delivery].order
    BY <1>3, WrittenFits
  <2>. QED
    BY <1>3, <2>1, <2>2, ImageKeepsOrders DEF Put
<1>4. /\ {"CANCELED", "PENDING", "ONCOURSE"} \subseteq Status /\ FALSE \in BOOLEAN
      /\ pc[c] = "write" => call[c].copy.active \in BOOLEAN
  BY DEF Status, SyncInv, CallsFit, Holding, Document
<1>5. CASE Cancel(c)
  BY <1>3, <1>4, <1>5 DEF Cancel
<1>6. CASE Release(c)
  <2>1. /\ pc[c] = "write" /\ UNCHANGED answer
        /\ \E s \in {"PENDING", "ONCOURSE"} :
             Put(call[c].delivery, Written(c, s, call[c].copy.active))
    BY <1>6 DEF Release
  <2>. QED
    BY <1>3, <1>4, <2>1
<1>7. CASE Delete(c)
  BY <1>3, <1>4, <1>7 DEF Delete
<1>8. CASE Claim(c)
  <2>1. /\ pc[c] = "write" /\ UNCHANGED answer
        /\ \/ Put(call[c].delivery, Written(c, "ONCOURSE", call[c].copy.active))
           \/ UNCHANGED delivery
    BY <1>8 DEF Claim
  <2>. QED
    BY <1>1, <1>3, <1>4, <2>1
<1>9. CASE UpdateWrite(c)
  <2>1. /\ pc[c] = "update" /\ UNCHANGED answer
        /\ delivery' = [delivery EXCEPT ![call[c].delivery] = UpdateImage(c)]
    BY <1>9 DEF UpdateWrite
  <2>. QED
    BY <2>1, UpdateFits, ImageKeepsOrders
<1>. QED
  BY <1>2, <1>5, <1>6, <1>7, <1>8, <1>9 DEF CallNext

LEMMA OrdersOfSync ==
  ASSUME SyncInv,
         \/ \E t \in Task : SyncGoesOn(t) \/ SyncThrows(t)
         \/ \E news \in late : Arrive(news)
         \/ RetryGoesOn \/ Restart \/ UNCHANGED vars
  PROVE  SameOrders
<1>1. UNCHANGED answer
  BY DEF SyncGoesOn, SyncThrows, MarkPending, SyncRead, PostAccepted, PostFails, ClearPending,
         KeepPending, Arrive, RetryGoesOn, RetryFind, RetryNext, RetryDone, Restart, vars,
         syncFrame, handlers
<1>2. \/ UNCHANGED delivery
      \/ \E t \in Task : \E flag \in BOOLEAN :
           sync[t].pc # "idle" /\ SetPending(sync[t].delivery, flag)
  BY DEF SyncGoesOn, SyncThrows, MarkPending, SyncRead, PostAccepted, PostFails, ClearPending,
         KeepPending, Arrive, RetryGoesOn, RetryFind, RetryNext, RetryDone, Restart, vars
<1>3. CASE UNCHANGED delivery
  BY <1>1, <1>3 DEF SameOrders, Stored
<1>4. ASSUME NEW t \in Task, NEW flag \in BOOLEAN,
             sync[t].pc # "idle", SetPending(sync[t].delivery, flag)
      PROVE  SameOrders
  <2>1. sync[t].delivery \in Stored
    BY <1>4 DEF SyncInv, SyncFits
  <2>2. SameDocuments
    BY <1>4, <2>1, SetPendingFits
  <2>. QED
    BY <1>1, <2>2 DEF SameDocuments, SameOrders
<1>. QED
  BY <1>2, <1>3, <1>4

LEMMA OneNext ==
  ASSUME UniqueIndex, SyncInv, OneInv, [Next]_vars
  PROVE  OneInv'
<1>1. ASSUME SameOrders
      PROVE  OneInv'
  BY <1>1 DEF SameOrders, OneInv
<1>2. ASSUME NEW c \in Call, CreateSave(c)
      PROVE  OneInv'
  <2>1. OfOrder(call[c].order) = {} /\ call[c].order \in Order
    BY <1>2 DEF CreateSave, Duplicate, SyncInv, CallsFit
  <2>2. PICK d \in Delivery \ Stored :
          /\ delivery' = [delivery EXCEPT ![d] = NewDelivery(call[c].order)]
          /\ answer' = [answer EXCEPT ![c] = d]
    BY <1>2 DEF CreateSave, Put, Answer
  <2>3. /\ delivery \in [Delivery -> Document \cup {None}]
        /\ answer \in [Call -> Delivery \cup {None}] /\ clock \in Nat
    BY DEF SyncInv, TypeOK
  <2>4. /\ NewDelivery(call[c].order) \in Document
        /\ NewDelivery(call[c].order).order = call[c].order
    BY <2>1, <2>3 DEF NewDelivery, Document, Status
  <2>5. /\ delivery'[d] = NewDelivery(call[c].order)
        /\ \A e \in Delivery \ {d} : delivery'[e] = delivery[e]
    BY <2>2, <2>3
  <2>6. Stored' = Stored \cup {d} /\ Stored \subseteq Delivery
    BY <2>2, <2>4, <2>5, NoneIsNothing DEF Stored
  <2>7. \A e \in Stored : delivery'[e].order = delivery[e].order /\ delivery[e].order # call[c].order
    BY <2>1, <2>2, <2>5, <2>6 DEF OfOrder
  <2>8. \A a, b \in Stored' : delivery'[a].order = delivery'[b].order => a = b
    BY <2>4, <2>5, <2>6, <2>7 DEF OneInv
  <2>9. \A b \in Call : answer'[b] # None => answer'[b] \in Stored'
    BY <2>2, <2>3, <2>6 DEF OneInv
  <2>. QED
    BY <2>8, <2>9 DEF OneInv
<1>3. CASE \E c \in Call : CallNext(c)
  BY <1>1, <1>2, <1>3, OrdersOfCalls
<1>4. CASE ~ \E c \in Call : CallNext(c)
  BY <1>1, <1>4, OrdersOfSync DEF Next
<1>. QED
  BY <1>3, <1>4

(* createDelivery: with the unique index of source and menuFlowOrderId, an *)
(* order has one delivery however MenuFlow repeats its call, and every     *)
(* accepted call was answered with it.                                     *)
THEOREM OneDeliveryHolds ==
  ASSUME UniqueIndex
  PROVE  Spec => []OneDeliveryPerOrder
<1>1. Init => OneInv
  BY DEF Init, OneInv, Stored
<1>2. SyncInv /\ OneInv /\ [Next]_vars => OneInv'
  BY OneNext
<1>3. SyncInv /\ OneInv => OneDeliveryPerOrder
  <2>. SUFFICES ASSUME SyncInv, OneInv
                PROVE  OneDeliveryPerOrder
    OBVIOUS
  <2>1. ASSUME NEW o \in Order
        PROVE  Cardinality(OfOrder(o)) <= 1
    <3>1. CASE OfOrder(o) = {}
      BY <3>1, FS_EmptySet
    <3>2. CASE OfOrder(o) # {}
      <4>1. PICK d : d \in OfOrder(o)
        BY <3>2
      <4>2. OfOrder(o) = {d}
        BY <4>1 DEF OfOrder, OneInv
      <4>. QED
        BY <4>2, FS_Singleton
    <3>. QED
      BY <3>1, <3>2
  <2>. QED
    BY <2>1 DEF OneInv, OneDeliveryPerOrder
<1>. QED
  BY <1>1, <1>2, <1>3, SyncInvHolds, PTL DEF Spec

-----------------------------------------------------------------------------
(* News in order                                                           *)

(* One operation of the chain goes on at a time; while it sends a version, *)
(* MenuFlow has and will get nothing newer of that delivery.               *)
Newest(t) ==
  /\ known[sync[t].delivery] # None =>
       known[sync[t].delivery].at <= sync[t].copy.updatedAt
  /\ \A n \in late : n.delivery = sync[t].delivery => n.at <= sync[t].copy.updatedAt

TurnInv ==
  /\ \A t \in Task : sync[t].pc \notin {"idle", "queued"} => Running(t)
  /\ \A t \in Task : Sending(t) /\ sync[t].delivery \notin overwritten => Newest(t)

LEMMA EnqueueKeepsTurns ==
  ASSUME SyncInv, TurnInv, NEW t \in Task, NEW d, NEW mark, Enqueue(t, d, mark),
         UNCHANGED <<known, late, overwritten>>
  PROVE  TurnInv'
<1>1. /\ chain' = Append(chain, t) /\ chain \in Seq(Task)
      /\ \A u \in Task \ {t} : sync'[u] = sync[u]
      /\ sync'[t].pc = "queued"
  BY DEF Enqueue, Idle, SyncInv, TypeOK
<1>2. ASSUME NEW u \in Task, sync'[u].pc \notin {"idle", "queued"}
      PROVE  Running(u)'
  <2>1. u # t /\ sync'[u] = sync[u] /\ Running(u)
    BY <1>1, <1>2 DEF TurnInv
  <2>2. chain # <<>> /\ Head(chain) = u
    BY <2>1 DEF Running
  <2>3. chain' # <<>> /\ Head(chain') = u
    BY <1>1, <2>2
  <2>. QED
    BY <2>3 DEF Running
<1>3. ASSUME NEW u \in Task, Sending(u)', sync'[u].delivery \notin overwritten'
      PROVE  Newest(u)'
  <2>1. u # t /\ sync'[u] = sync[u] /\ Sending(u)
    BY <1>1, <1>3 DEF Sending
  <2>. QED
    BY <1>3, <2>1 DEF TurnInv, Newest
<1>. QED
  BY <1>2, <1>3 DEF TurnInv

(* The running operation t does a step: no other one is sending.           *)
LEMMA RunningKeepsTurns ==
  ASSUME SyncInv, TurnInv, NEW t \in Task, Running(t), UNCHANGED overwritten,
         \A u \in Task \ {t} : sync'[u] = sync[u],
         \/ chain' = chain
         \/ sync'[t].pc = "idle",
         Sending(t)' /\ sync'[t].delivery \notin overwritten => Newest(t)'
  PROVE  TurnInv'
<1>1. ASSUME NEW u \in Task \ {t}
      PROVE  sync'[u].pc \in {"idle", "queued"}
  BY DEF TurnInv, Running
<1>2. \A u \in Task : sync'[u].pc \notin {"idle", "queued"} => Running(u)'
  BY <1>1 DEF Running
<1>3. \A u \in Task : Sending(u)' => u = t
  BY <1>1 DEF Sending
<1>. QED
  BY <1>2, <1>3 DEF TurnInv

LEMMA TurnNext ==
  ASSUME SyncInv, TurnInv, [Next]_vars
  PROVE  TurnInv'
<1>0. /\ sync \in [Task -> SyncState] /\ known \in [Delivery -> News \cup {None}]
      /\ late \subseteq News
      /\ \A t \in Task : sync[t].pc # "idle" => sync[t].delivery \in Stored
      /\ Stored \subseteq Delivery
  BY DEF SyncInv, TypeOK, SyncFits, Stored
<1>1. ASSUME UNCHANGED <<chain, sync, known, late>>, overwritten \subseteq overwritten'
      PROVE  TurnInv'
  BY <1>1 DEF TurnInv, Running, Sending, Newest
<1>2. ASSUME NEW c \in Call, CallNext(c)
      PROVE  TurnInv'
  <2>1. CASE Cancel(c)
    <3>1. Enqueue(c, call[c].delivery, TRUE) /\ UNCHANGED <<known, late, overwritten>> /\ c \in Task
      BY <2>1 DEF Cancel, Put, outside, Task
    <3>. QED
      BY <3>1, EnqueueKeepsTurns
  <2>2. CASE ~ Cancel(c)
    <3>1. UNCHANGED <<chain, sync, known, late>> /\ overwritten \subseteq overwritten'
      BY <1>2, <2>2 DEF CallNext, CreateFind, Refuse, CreateSave, DuplicateKey, FindAgain,
           ReadCopy, Release, Delete, Claim, MergeRead, UpdateWrite, Put, process, outside, past
    <3>. QED
      BY <1>1, <3>1
  <2>. QED
    BY <2>1, <2>2
<1>3. ASSUME NEW t \in Task, SyncGoesOn(t) \/ SyncThrows(t)
      PROVE  TurnInv'
  <2>0. Running(t) /\ UNCHANGED overwritten
    BY <1>3 DEF SyncGoesOn, SyncThrows, MarkPending, SyncRead, PostAccepted, PostFails,
         ClearPending, KeepPending, syncFrame, past
  <2>1. ASSUME NEW next \in {"read", "fail"}, Step(t, next), UNCHANGED chain
        PROVE  TurnInv'
    <3>1. /\ \A u \in Task \ {t} : sync'[u] = sync[u]
          /\ sync'[t].pc = next
      BY <2>1, StepFits DEF SyncStep
    <3>2. ~ Sending(t)'
      BY <3>1 DEF Sending
    <3>. QED
      BY <2>0, <2>1, <3>1, <3>2, RunningKeepsTurns
  <2>2. ASSUME Leave(t)
        PROVE  TurnInv'
    <3>1. /\ \A u \in Task \ {t} : sync'[u] = sync[u]
          /\ sync'[t].pc = "idle"
      BY <2>0, <2>2, LeaveFits
    <3>2. ~ Sending(t)'
      BY <3>1 DEF Sending
    <3>. QED
      BY <2>0, <3>1, <3>2, RunningKeepsTurns
  <2>3. CASE MarkPending(t) \/ PostFails(t) \/ ClearPending(t) \/ KeepPending(t) \/ SyncThrows(t)
    BY <2>1, <2>2, <2>3 DEF MarkPending, PostFails, ClearPending, KeepPending, SyncThrows
  <2>4. CASE SyncRead(t)
    <3>. DEFINE d == sync[t].delivery
    <3>1. /\ sync[t].pc = "read" /\ UNCHANGED <<chain, known, late>>
          /\ sync' = [sync EXCEPT ![t].pc = "post", ![t].copy = delivery[d]]
      BY <2>4 DEF SyncRead, outside
    <3>2. /\ \A u \in Task \ {t} : sync'[u] = sync[u]
          /\ sync'[t].delivery = d /\ sync'[t].copy = delivery[d]
      BY <1>0, <3>1 DEF SyncState
    <3>3. d \in Stored
      BY <1>0, <3>1
    <3>4. ASSUME d \notin overwritten
          PROVE  Newest(t)'
      <4>1. known[d] # None => known[d].at <= delivery[d].updatedAt
        <5>1. known[d] # None => known[d] \in News /\ IsVersion(known[d]) /\ known[d].delivery = d
          BY <1>0, <3>3, VersionsAreNews DEF SyncInv, SyncFits, IsVersion
        <5>. QED
          BY <3>4, <5>1 DEF SyncInv, VersionsFit
      <4>2. \A n \in late : n.delivery = d => n.at <= delivery[d].updatedAt
        BY <1>0, <3>4 DEF IsVersion, SyncInv, VersionsFit
      <4>. QED
        BY <3>1, <3>2, <4>1, <4>2 DEF Newest
    <3>. QED
      BY <2>0, <3>1, <3>2, <3>4, RunningKeepsTurns
  <2>5. CASE PostAccepted(t)
    <3>. DEFINE d == sync[t].delivery
    <3>1. /\ sync[t].pc = "post" /\ UNCHANGED <<chain, late>>
          /\ Tell(NewsOf(t)) /\ Step(t, "clear")
      BY <2>5 DEF PostAccepted
    <3>2. /\ \A u \in Task \ {t} : sync'[u] = sync[u]
          /\ sync'[t].delivery = d /\ sync'[t].copy = sync[t].copy
      BY <3>1, StepFits DEF SyncStep
    <3>3. d \in Delivery /\ Sending(t)
      BY <1>0, <3>1 DEF Sending
    <3>4. known'[d] = known[d] \/ known'[d] = NewsOf(t)
      BY <1>0, <3>1, <3>3 DEF Tell, NewsOf
    <3>5. NewsOf(t).at = sync[t].copy.updatedAt /\ sync[t].copy.updatedAt \in Nat
      BY <3>3 DEF NewsOf, SyncInv, SyncFits, Document
    <3>6. ASSUME d \notin overwritten
          PROVE  Newest(t)'
      BY <3>1, <3>2, <3>3, <3>4, <3>5, <3>6 DEF TurnInv, Newest
    <3>. QED
      BY <2>0, <3>1, <3>2, <3>6, RunningKeepsTurns
  <2>. QED
    BY <1>3, <2>3, <2>4, <2>5 DEF SyncGoesOn
<1>4. ASSUME NEW news \in late, Arrive(news)
      PROVE  TurnInv'
  <2>1. /\ UNCHANGED <<chain, sync, overwritten>> /\ late' = late \ {news}
        /\ known' = [known EXCEPT ![news.delivery] =
                       IF @ # None /\ @.at > news.at THEN @ ELSE news]
    BY <1>4 DEF Arrive, process, past, Tell
  <2>2. ASSUME NEW u \in Task, Sending(u)', sync'[u].delivery \notin overwritten'
        PROVE  Newest(u)'
    <3>. DEFINE d == sync[u].delivery
    <3>1. Newest(u) /\ d \in Delivery /\ sync'[u] = sync[u]
      BY <1>0, <2>1, <2>2 DEF TurnInv, Sending
    <3>2. known'[d] = known[d] \/ (known'[d] = news /\ news.delivery = d)
      BY <1>0, <2>1, <3>1
    <3>. QED
      BY <2>1, <3>1, <3>2 DEF Newest
  <2>. QED
    BY <2>1, <2>2 DEF TurnInv, Running
<1>5. CASE RetryNext
  <2>1. PICK d \in due : Enqueue(Timer, d, FALSE)
    BY <1>5 DEF RetryNext
  <2>2. Timer \in Task /\ UNCHANGED <<known, late, overwritten>>
    BY <1>5 DEF RetryNext, Task, outside, past
  <2>. QED
    BY <2>1, <2>2, EnqueueKeepsTurns
<1>6. CASE Restart
  <2>1. \A t \in Task : sync'[t].pc = "idle"
    BY <1>6 DEF Restart, Idle
  <2>. QED
    BY <2>1 DEF TurnInv, Sending
<1>7. CASE RetryFind \/ RetryDone \/ UNCHANGED vars
  BY <1>1, <1>7 DEF RetryFind, RetryDone, vars, process, outside, past
<1>. QED
  BY <1>2, <1>3, <1>4, <1>5, <1>6, <1>7 DEF Next, RetryGoesOn

(* The chain of promises: MenuFlow answers the post of a status only if it *)
(* had no newer one of that delivery, unless an update wrote an older copy *)
(* back.                                                                   *)
THEOREM NewsComeInOrder == Spec => NewsInOrder
<1>1. Init => TurnInv
  BY DEF Init, TurnInv, Sending, Idle
<1>2. SyncInv /\ TurnInv /\ [Next]_vars => TurnInv'
  BY TurnNext
<1>3. SyncInv /\ TurnInv /\ [Next]_vars =>
        [\A t \in Task :
           sync[t].pc = "post" /\ sync'[t].pc = "clear"
           => LET d == sync[t].delivery IN
              known[d] = None \/ d \in overwritten \/ known[d].at <= sync[t].copy.updatedAt]_vars
  BY DEF TurnInv, Sending, Newest
<1>. QED
  BY <1>1, <1>2, <1>3, SyncInvHolds, PTL DEF Spec, NewsInOrder
=============================================================================
