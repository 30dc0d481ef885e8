------------------------------ MODULE Listings ------------------------------
(***************************************************************************)
(* What users are shown of the deliveries while these change: the pages of *)
(* the list, the counters of the dashboard, the number beside a driver's   *)
(* name and the settlement of a store.                                     *)
(*                                                                         *)
(* A delivery holds a copy of its establishment, city included, as it was  *)
(* when the delivery was created or an administrator named another.  That  *)
(* may be any user: nobody looks at the type.  Whatever handler saves a    *)
(* delivery, here it gives it any status, any driver and either activity   *)
(* (DeliveryLifecycle says which); it never touches createdAt.             *)
(***************************************************************************)
EXTENDS Integers, FiniteSets, Sequences, SequencesExt, Paging

CONSTANTS
  Delivery,
  InitialUsers,    \* [id -> [type, city]]
  City,
  Fee,             \* deliveryFeeValue of each city
  Statuses,        \* the statuses of the instance
  Queries,         \* what the list is asked for
  Readers,         \* who turns the pages of the list
  Existing,        \* what may be stored, and on its way, at the start
  Take,            \* itemsPerPage
  FirstPageRows, NextPageRows,
  DayLength,       \* ticks of a day
  LocalOffset,     \* ticks the server's zone is ahead of UTC
  Behind,          \* ticks that the createdAt of a delivery is behind UTC
  StartTime, MaxTime, MaxSaves, MaxMoves,   \* bounds
  None

AwaitingRelease == "AGUARDANDO_LIBERACAO"
Pending == "PENDENTE"
Finished == "FINALIZADO"
Canceled == "CANCELADO"
Admins == {"admin", "superadmin"}
Shopkeepers == {"shopkeeper", "shopkeeperadmin"}

(* Who a delivery may name, what it holds, and what a list is asked for. *)
Anyone == DOMAIN InitialUsers \cup {None}
Document == [created : Nat, store : Anyone, city : City \cup {None}, active : BOOLEAN,
             driver : Anyone, status : Statuses]
Asked == [status : SUBSET Statuses, driver : Anyone, store : Anyone,
          city : City \cup {None}, createdIn : Nat \cup {None}, createdUntil : Nat \cup {None}]

ASSUME ListingsAssumption ==
  /\ {AwaitingRelease, Pending, "ACAMINHO", Finished, Canceled} \subseteq Statuses
  /\ IsFiniteSet(Delivery) /\ IsFiniteSet(DOMAIN InitialUsers) /\ StartTime \in Nat
  /\ None \notin DOMAIN InitialUsers \cup City /\ Queries \subseteq Asked
  /\ \A u \in DOMAIN InitialUsers :
       InitialUsers[u] \in [type : STRING, city : City \cup {None}]
  /\ \A e \in Existing : \A docs \in {e.stored, e.coming} :
       DOMAIN docs \subseteq Delivery /\ \A d \in DOMAIN docs : docs[d] \in Document
  /\ \A e \in Existing : DOMAIN e.stored \cap DOMAIN e.coming = {}
  /\ Take \in Nat \ {0} /\ DayLength \in Nat \ {0}
  /\ LocalOffset \in Int /\ Behind \in Int
  /\ FirstPageRows \in Nat \ {0} /\ NextPageRows \in Nat \ {0}
  /\ \A c \in City : Fee[c] \in Nat

VARIABLES
  users,     \* users there are
  stored,    \* deliveries there are: id -> document
  coming,    \* deliveries whose createdAt is taken and that are not stored yet
  clock,
  saves, moves,
  walk,      \* somebody turns the pages of the list
  moved      \* history: has a user moved or gone?

vars == <<users, stored, coming, clock, saves, moves, walk, moved>>

OfType(types) == {u \in DOMAIN users : users[u].type \in types}
NoWalk == [page |-> 0, of |-> None, query |-> None, where |-> None,
           before |-> {}, seen |-> <<>>, left |-> FALSE, pc |-> "none"]

Init ==
  /\ users = InitialUsers
  /\ \E e \in Existing : stored = e.stored /\ coming = e.coming
  /\ clock = StartTime /\ saves = 0 /\ moves = 0
  /\ walk = NoWalk /\ moved = FALSE

----------------------------------------------------------------------------
(* Filters: a where clause says which values of each field it lets through. *)

All == [active |-> BOOLEAN, status |-> Statuses, city |-> City \cup {None},
        store |-> Anyone, driver |-> Anyone, from |-> 0, until |-> MaxTime]

Passes(doc, where) ==
  /\ \A field \in {"active", "status", "city", "store", "driver"} :
       doc[field] \in where[field]
  /\ where.from <= doc.created /\ doc.created <= where.until
Found(where) == {d \in DOMAIN stored : Passes(stored[d], where)}

(* Equal createdAt come in any order, in each query anew.                  *)
ByCreatedAt(S) ==
  {s \in SetToSeqs(S) :
     \A i, j \in DOMAIN s : i < j => stored[s[i]].created <= stored[s[j]].created}

OnlyIfGiven(value, all) == IF value = None THEN all ELSE {value}
FirstGiven(value, default) == IF value = None THEN default ELSE value

StartOfDay(day, offset) == day * DayLength - offset
EndOfDay(day, offset) == StartOfDay(day + 1, offset) - 1

applyCityWhere(user, selected) ==
  IF user.type # "superadmin" THEN {user.city}
  ELSE OnlyIfGiven(FirstGiven(selected, user.city), City \cup {None})

(* parseReportDateFilter reads a day in the server's zone. *)
From(query) ==
  IF query.createdIn = None THEN 0 ELSE StartOfDay(query.createdIn, LocalOffset)
Until(query) ==
  LET last == FirstGiven(query.createdUntil, query.createdIn)
  IN IF last = None THEN MaxTime ELSE EndOfDay(last, LocalOffset)

(* The filter of createdBy is one more of the kind of establishmentId.     *)
buildDeliveriesWhere(id, query) ==
  LET user == users[id]
      asked == IF query.status = {} THEN Statuses ELSE query.status
  IN [active |-> IF Canceled \in query.status THEN BOOLEAN ELSE {TRUE},
      city |-> applyCityWhere(user, query.city),
      status |-> IF user.type = "motoboy" THEN asked \ {AwaitingRelease} ELSE asked,
      store |-> IF user.type \in Shopkeepers THEN {id}
                ELSE OnlyIfGiven(query.store, Anyone),
      driver |-> IF user.type # "motoboy" THEN OnlyIfGiven(query.driver, Anyone)
                 ELSE IF Pending \in query.status THEN Anyone ELSE {id},
      from |-> From(query), until |-> Until(query)]

----------------------------------------------------------------------------
(* Counters of the dashboard.                                              *)

(* The server's day; clock is the createdAt a delivery would get now. *)
Today == (clock + Behind + LocalOffset) \div DayLength
(* Day 0 is a Sunday; the week begins on Tuesday. *)
WeekStart == Today - ((((Today % 7) - 2) + 7) % 7)

DateRange(query) ==
  [createdIn |-> FirstGiven(query.createdIn, WeekStart),
   createdUntil |-> FirstGiven(FirstGiven(query.createdUntil, query.createdIn),
                               WeekStart + 6)]

buildAssignedDeliveriesWhere(id, city) ==
  LET user == users[id] IN
  [All EXCEPT
    !.active = {TRUE},
    !.status = Statuses \ {Finished, Canceled},
    !.city = applyCityWhere(user, city),
    !.driver = IF user.type = "motoboy" THEN {id} ELSE Anyone \ {None},
    !.store = IF user.type \in Shopkeepers THEN {id} ELSE Anyone]

getDashboardCounts(id, query) ==
  LET user == users[id]
      city == IF user.type = "superadmin" THEN FirstGiven(query.city, user.city)
              ELSE user.city
      range == DateRange(query)
      Count(where) ==
        Cardinality(Found([where EXCEPT
          !.from = StartOfDay(range.createdIn, LocalOffset),
          !.until = EndOfDay(range.createdUntil, LocalOffset)]))
      CountOf(status) ==
        Count(buildDeliveriesWhere(id, [query EXCEPT !.city = city, !.status = {status}]))
  IN IF user.type = "superadmin" /\ city = None
     THEN [pending |-> 0, assigned |-> 0, waitingRelease |-> 0,
           totalEntregas |-> 0, totalValorAdmin |-> 0, range |-> range]
     ELSE [pending |-> CountOf(Pending),
           assigned |-> Count(buildAssignedDeliveriesWhere(id, city)),
           waitingRelease |-> CountOf(AwaitingRelease),
           totalEntregas |-> CountOf(Finished),
           totalValorAdmin |-> CountOf(Finished) * Fee[city],
           range |-> range]

----------------------------------------------------------------------------
(* Drivers with their number of running deliveries (user.service.ts).      *)

ListedMotoboys(id) ==
  {m \in OfType({"motoboy"}) :
    /\ users[id].type = "motoboy" => m = id
    /\ users[id].city # None => users[m].city = users[id].city
    /\ users[id].type # "superadmin" => users[m].city # None /\ users[m].city = users[id].city}

CountsInAllCities(id) ==   \* mutant: the cities are not told apart
  [m \in ListedMotoboys(id) |->
     Cardinality(Found([All EXCEPT !.active = {TRUE}, !.driver = {m},
                                   !.status = Statuses \ {Finished, Canceled}]))]

(* One aggregation for all drivers; a driver it does not return has 0.     *)
SummariesOptimized(id) ==
  LET match == [All EXCEPT
        !.active = {TRUE}, !.driver = ListedMotoboys(id),
        !.status = Statuses \ {Finished, Canceled},
        !.city = OnlyIfGiven(users[id].city, @)]
      group == [m \in {stored[d].driver : d \in Found(match)} |->
                  Cardinality({d \in Found(match) : stored[d].driver = m})]
  IN [m \in ListedMotoboys(id) |-> IF m \in DOMAIN group THEN group[m] ELSE 0]

(* The fallback: one query for each driver.                                *)
SummariesLegacy(id) ==
  [m \in ListedMotoboys(id) |->
     Cardinality(Found([All EXCEPT
       !.active = {TRUE}, !.driver = {m},
       !.status = Statuses \ {Finished, Canceled},
       !.city = OnlyIfGiven(users[id].city, @)]))]

----------------------------------------------------------------------------
(* Settlement of a store (financial-settlement.service.ts), days in UTC.   *)

SettlementDeliveries(store, createdIn, createdUntil) ==
  CHOOSE rows \in ByCreatedAt(
    Found([All EXCEPT !.active = {TRUE}, !.status = {Finished}, !.store = {store},
                      !.from = StartOfDay(createdIn, 0),
                      !.until = EndOfDay(createdUntil, 0)])) : TRUE

(* Refused without a city or a fee (every city has a PIX key here, and the *)
(* monthly fee is not asked for).  The city is the one the store is in     *)
(* now: deliveries have no cityId.                                         *)
buildSettlement(store, createdIn, createdUntil) ==
  LET rows == SettlementDeliveries(store, createdIn, createdUntil)
      city == users[store].city
      refused == rows = <<>> \/ city = None \/ Fee[city] = 0
  IN IF refused THEN [pages |-> <<>>, totalDeliveries |-> 0]
     ELSE [pages |-> SettlementPages(rows, FirstPageRows, NextPageRows),
           totalDeliveries |-> Len(rows) * Fee[city]]

----------------------------------------------------------------------------
(* Steps.  The list somebody is turning the pages of loses a delivery that *)
(* stops matching; Keep notes that in the history part of walk.            *)

Matching == IF walk.pc = "none" THEN {} ELSE Found(walk.where)
Keep ==
  walk' = [walk EXCEPT !.left = @ \/ \E d \in Matching : ~ Passes(stored'[d], walk.where)]

With(docs, d, doc) == [e \in DOMAIN docs \cup {d} |-> IF e = d THEN doc ELSE docs[e]]

(* createDelivery takes createdAt before the document is stored.           *)
(* An administrator names the establishment, anybody else is it.           *)
StartCreation(d, s, status, m) ==
  /\ d \notin DOMAIN stored \cup DOMAIN coming
  /\ s \in DOMAIN users /\ users[s].city # None
  /\ coming' = With(coming, d,
       [created |-> clock, store |-> s, city |-> users[s].city, active |-> TRUE,
        driver |-> m, status |-> IF m = None THEN status ELSE "ACAMINHO"])
  /\ UNCHANGED <<users, stored, clock, saves, moves, walk, moved>>

StoreCreation(d) ==
  /\ d \in DOMAIN coming
  /\ stored' = With(stored, d, coming[d])
  /\ coming' = [e \in DOMAIN coming \ {d} |-> coming[e]]
  /\ Keep
  /\ UNCHANGED <<users, clock, saves, moves, moved>>

(* A handler saves a delivery, and with it the establishment: the copy it  *)
(* had, or the one that an administrator names.                            *)
Places(d) ==
  {[store |-> stored[d].store, city |-> stored[d].city]}
    \cup {[store |-> u, city |-> users[u].city] : u \in DOMAIN users}

SaveDelivery(d, status, active, m, place) ==
  /\ saves < MaxSaves
  /\ saves' = saves + 1
  /\ d \in DOMAIN stored
  /\ stored' = [stored EXCEPT ![d] =
       [created |-> stored[d].created, store |-> place.store, city |-> place.city,
        active |-> active, driver |-> m, status |-> status]]
  /\ Keep
  /\ UNCHANGED <<users, coming, clock, moves, moved>>

(* updateUser moves a user to another city, deleteUser deletes one; what   *)
(* deliveries hold of it stays as it was.                                  *)
MoveUser(u, c) ==
  /\ moves < MaxMoves
  /\ moves' = moves + 1
  /\ u \in DOMAIN users
  /\ users' = [users EXCEPT ![u].city = c]
  /\ moved' = TRUE
  /\ UNCHANGED <<stored, coming, clock, saves, walk>>

DeleteUser(u) ==
  /\ moves < MaxMoves
  /\ moves' = moves + 1
  /\ u \in DOMAIN users
  /\ users' = [v \in DOMAIN users \ {u} |-> users[v]]
  /\ moved' = TRUE
  /\ UNCHANGED <<stored, coming, clock, saves, walk>>

Tick ==
  /\ clock < MaxTime
  /\ clock' = clock + 1
  /\ UNCHANGED <<users, stored, coming, saves, moves, walk, moved>>

(* listDeliveries reads the user, and then the page: two round trips.      *)
AskPage ==
  /\ walk.pc \in {"none", "page"}
  /\ \E u \in Readers \cap DOMAIN users, q \in Queries :
       /\ walk.pc = "page" => u = walk.of /\ q = walk.query
       /\ LET where == buildDeliveriesWhere(u, q) IN
          walk' = [walk EXCEPT !.pc = "find", !.of = u, !.query = q,
                     !.page = @ + 1, !.where = where,
                     !.before = IF walk.pc = "none" THEN Found(where) ELSE @,
                     !.left = @ \/ (walk.pc = "page" /\ where # walk.where)]
  /\ UNCHANGED <<users, stored, coming, clock, saves, moves, moved>>

SkipFromPage == walk.page * Take   \* mutant: pages counted from 0
Skip == (walk.page - 1) * Take

(* The caller goes on until a page is not full.                            *)
ReadPage ==
  /\ walk.pc = "find"
  /\ \E list \in ByCreatedAt(Found(walk.where)) :
       LET page == Slice(list, Skip, Skip + Take) IN
       walk' = [walk EXCEPT !.seen = @ \o page,
                            !.pc = IF Len(page) < Take THEN "done" ELSE "page"]
  /\ UNCHANGED <<users, stored, coming, clock, saves, moves, moved>>

Next ==
  \/ \E d \in Delivery :
       \/ \E s \in DOMAIN users, m \in Anyone, status \in {Pending, AwaitingRelease} :
            /\ m = None \/ m \in DOMAIN users
            /\ StartCreation(d, s, status, m)
       \/ StoreCreation(d)
       \/ /\ d \in DOMAIN stored
          /\ \E status \in Statuses, active \in BOOLEAN, place \in Places(d),
                m \in OfType({"motoboy"}) \cup {None, stored[d].driver} :
               SaveDelivery(d, status, active, m, place)
  \/ \E u \in DOMAIN InitialUsers : DeleteUser(u) \/ \E c \in City : MoveUser(u, c)
  \/ Tick
  \/ AskPage
  \/ ReadPage

Spec == Init /\ [][Next]_vars

----------------------------------------------------------------------------
(* Properties.                                                             *)

NoTies(S) == \A d, e \in S : d # e => stored[d].created # stored[e].created

(* Deliveries may be stored in another order than their createdAt while    *)
(* somebody turns the pages, and push others to a later page; but as long  *)
(* as none leaves the list and no two are of the same instant, everything  *)
(* that was in the list at the start is seen.                              *)
PagesComplete ==
  walk.pc = "done" /\ ~ walk.left /\ NoTies(Found(walk.where))
  => walk.before \subseteq Range(walk.seen)

EstablishmentsIn(c) == {u \in DOMAIN users : users[u].city = c}

FinishedIn(c, range, offset) ==
  Found([All EXCEPT !.active = {TRUE}, !.status = {Finished}, !.city = {c},
                    !.from = StartOfDay(range.createdIn, offset),
                    !.until = EndOfDay(range.createdUntil, offset)])

(* What the dashboard tells an administrator to collect for a period is    *)
(* what the settlements of the city's users for that period charge, each   *)
(* delivery as one row of one of their pages, but for the deliveries of    *)
(* the hours by which the server's days and those of UTC differ; unless    *)
(* somebody moved, whose old deliveries stay with the old city.            *)
SettlementsAgree ==
  \A u \in OfType(Admins), q \in Queries :
    ~ moved /\ users[u].city # None /\ q.store = None /\ q.driver = None
    => LET city == users[u].city
           shown == getDashboardCounts(u, [q EXCEPT !.city = None])
           settled(s) == buildSettlement(s, shown.range.createdIn, shown.range.createdUntil)
           rows(s) == FlattenSeq(settled(s).pages)
           local == FinishedIn(city, shown.range, LocalOffset)
           utc == FinishedIn(city, shown.range, 0)
           notShown == Cardinality(utc \ local)
           notSettled == Cardinality(local \ utc)
       IN /\ shown.totalValorAdmin + notShown * Fee[city] =
               MapThenSumSet(LAMBDA s : settled(s).totalDeliveries, EstablishmentsIn(city))
                 + notSettled * Fee[city]
          /\ Fee[city] > 0 =>
             shown.totalEntregas + notShown =
               MapThenSumSet(LAMBDA s : Len(rows(s)), EstablishmentsIn(city)) + notSettled
          /\ \A s \in EstablishmentsIn(city) : IsInjective(rows(s))

(* The number beside a driver's name is the same from the aggregation and  *)
(* from its fallback, and is what the list shows an administrator who      *)
(* asks for that driver's running deliveries.                              *)
CountersAgree ==
  \A u \in OfType(Admins) : \A m \in ListedMotoboys(u) :
    LET running == [status |-> Statuses \ {Finished, Canceled}, driver |-> m,
                    store |-> None, city |-> None, createdIn |-> None,
                    createdUntil |-> None]
    IN /\ SummariesOptimized(u)[m] = SummariesLegacy(u)[m]
       /\ SummariesLegacy(u)[m] = Cardinality(Found(buildDeliveriesWhere(u, running)))
=============================================================================
