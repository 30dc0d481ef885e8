--------------------------- MODULE HistoryImport ---------------------------
(***************************************************************************)
(* The scripts that bring the old MongoDB into PostgreSQL while the        *)
(* application is in use: import-mongo-history.js in its two modes         *)
(* ("merge" keeps what exists, "final" is --sync-existing) and             *)
(* migrate-mongo-to-postgres.js ("copy").                                  *)
(*                                                                         *)
(* The source does not change: source[t] is what its cursor returns.       *)
(* table is PostgreSQL.  A run reads what exists once, at its start, and   *)
(* inserts in batches, each of them one statement; it may die between two  *)
(* of them and be started again.                                           *)
(***************************************************************************)
EXTENDS Naturals, Sequences, SequencesExt

CONSTANTS
  Sources,     \* the old databases there may be, each of [Table -> Seq(Doc)]
  AppWrites,   \* what the application may add: [table, row]
  Existing,    \* what there may be at the start, sets of such writes
  Modes,       \* modes the scripts are started in
  BatchSize,
  MaxDeaths,   \* bound: runs that die
  None

(* "record" is the history of credits, and stands for the settlements,     *)
(* logs and events, that are imported alike.                               *)
TableOrder == <<"city", "user", "delivery", "link", "record">>
Table == Range(TableOrder)
People == {"city", "user"}

(* A document: its logical id, its _id, what identifies it beside the id   *)
(* (name and state of a city, login of a user, order of a delivery), the   *)
(* city or user it belongs to, the delivery of a link, and whether its     *)
(* required fields are there.  A key is [name, spelling].                  *)
VARIABLES
  source,
  table,     \* rows of each table
  pc, mode,  \* the run
  known,     \* targetState: ids read at the start of the run
  map,       \* idMap of cities and of users
  rows,      \* rows still to be inserted
  deaths,
  quiet,     \* history: has the application written nothing since the start?
  settled,   \* history: a run has ended well, and nothing was written since
  raced      \* history: cities or users were added behind the plan of a run

run == <<pc, mode, known, map, rows>>
past == <<quiet, settled, raced>>
vars == <<source, table, run, deaths, past>>

Document == UNION {Range(S[t]) : S \in Sources, t \in Table}
Written == AppWrites \cup UNION Existing

(* A document has an id or an _id; what the application writes has an id.  *)
ASSUME ImportAssumption ==
  /\ Modes \subseteq {"merge", "final", "copy"}
  /\ BatchSize \in Nat \ {0} /\ MaxDeaths \in Nat
  /\ Sources \subseteq [Table -> Seq(Document)]
  /\ \A d \in Document : d.valid \in BOOLEAN /\ (d.valid => d.id # None \/ d.alias # None)
  /\ \A w \in Written :
       /\ w.table \in Table /\ w.row.id # None
       /\ w.row = [id |-> w.row.id, key |-> w.row.key, owner |-> w.row.owner,
                    link |-> w.row.link, by |-> "app"]
  /\ \A s \in Existing : \A v, w \in s :
       v.table = w.table /\ v.row.id = w.row.id => v = w

Ids(t) == {r.id : r \in table[t]}

TypeOK ==
  /\ DOMAIN table = Table
  /\ \A t \in Table : \A r \in table[t] :
       /\ DOMAIN r = {"id", "key", "owner", "link", "by"}
       /\ r.id # None /\ r.by \in Modes \cup {"app"}
  /\ \A t \in Table : \A q, r \in table[t] : q.id = r.id => q = r
  /\ pc \in {"idle", "cities", "users", "insert"}
  /\ mode \in Modes \cup {None}
  /\ DOMAIN rows = Table /\ DOMAIN map = People
  /\ deaths \in 0..MaxDeaths
  /\ quiet \in BOOLEAN /\ settled \in BOOLEAN /\ raced \in BOOLEAN

NoRows == [t \in Table |-> <<>>]
NoMap == [t \in People |-> <<>>]

Init ==
  /\ source \in Sources
  /\ \E s \in Existing :
       table = [t \in Table |-> {w.row : w \in {v \in s : v.table = t}}]
  /\ pc = "idle" /\ mode = None
  /\ known = [t \in Table |-> {}] /\ map = NoMap /\ rows = NoRows
  /\ deaths = 0 /\ quiet = TRUE /\ settled = FALSE /\ raced = FALSE

----------------------------------------------------------------------------
(* The plan of a run.                                                      *)

Aliases(d) == {d.id, d.alias} \ {None}
LogicalId(d) == d.id
SourceId(d) == IF d.id # None THEN d.id ELSE d.alias

RowWithNewId(d, id, owner) ==
  [id |-> IF d.id = None THEN ToString(Cardinality(table["delivery"])) ELSE id,
   key |-> d.key, owner |-> owner, link |-> d.link, by |-> mode]
RowOf(d, id, owner) ==
  [id |-> id, key |-> d.key, owner |-> owner, link |-> d.link, by |-> mode]

mapAliases(m, aliases, id) ==
  [a \in aliases \cup DOMAIN m |-> IF a \in aliases THEN id ELSE m[a]]
Mapped(m, id) == IF id \in DOMAIN m THEN m[id] ELSE id

(* One document of prepareCityMerge or prepareUserMerge: the row with its  *)
(* id, or else the one with its name, is it; or else it is a new row.      *)
ByIdOnly(seen, d) == {r \in seen : r.id \in Aliases(d)}
Same(seen, d) ==
  LET byId == {r \in seen : r.id \in Aliases(d)}
  IN IF byId # {} THEN byId ELSE {r \in seen : r.key.name = d.key.name}

Merge(plan, d) ==
  LET same == Same(plan.seen, d)
      id == IF same = {} THEN SourceId(d) ELSE (CHOOSE r \in same : TRUE).id
      row == RowOf(d, id, Mapped(plan.cities, d.owner))
  IN IF ~ d.valid THEN plan
     ELSE [plan EXCEPT
            !.map = mapAliases(@, Aliases(d), id),
            !.seen = IF same = {} THEN @ \cup {row} ELSE @,
            !.insert = IF same = {} \/ mode = "final" THEN Append(@, row) ELSE @]

Plan(t, cities) ==
  FoldLeft(Merge, [map |-> <<>>, seen |-> table[t], insert |-> <<>>,
                   cities |-> cities], source[t])

(* The documents of a cursor that are in W. *)
Only(docs, W) ==
  FoldLeft(LAMBDA kept, d : IF d \in W THEN Append(kept, d) ELSE kept, <<>>, docs)

(* What importCursor inserts: valid documents that were not known at the   *)
(* start of the run, with their references mapped to current users.        *)
Candidates(t, users) ==
  LET docs == Only(source[t], {d \in Range(source[t]) :
                d.valid /\ (mode = "final" \/ SourceId(d) \notin known[t])})
  IN [i \in DOMAIN docs |-> RowOf(docs[i], SourceId(docs[i]), Mapped(users, docs[i].owner))]

(* What the copy inserts: every document as it is, a city by its _id, and  *)
(* a log or an entry of the credits that has no id of its own too.         *)
CopyId(t, d) ==
  IF t = "city" /\ d.alias # None THEN d.alias
  ELSE IF t = "record" THEN SourceId(d) ELSE d.id

Copies(t) ==
  LET docs == Only(source[t], {d \in Range(source[t]) : d.valid /\ CopyId(t, d) # None})
  IN [i \in DOMAIN docs |-> RowOf(docs[i], CopyId(t, docs[i]), docs[i].owner)]

(* runPreflight: what PostgreSQL's unique indexes would refuse of users,   *)
(* deliveries and links.                                                   *)
Twice(t, field) ==
  \E i, j \in DOMAIN source[t] :
    i # j /\ source[t][i][field] # None /\ source[t][i][field] = source[t][j][field]

UsersOnly ==
  /\ \A d \in Range(source["user"]) : d.valid /\ d.id # None
  /\ ~ Twice("user", "key")
Preflight ==
  /\ UsersOnly
  /\ \A t \in {"delivery", "link"} : ~ Twice(t, "id") /\ ~ Twice(t, "key")

----------------------------------------------------------------------------
(* Steps of a run.                                                         *)

Start(m) ==
  /\ pc = "idle"
  /\ m = "copy" => Preflight
  /\ mode' = m
  /\ known' = [t \in Table |-> Ids(t)]
  /\ pc' = IF m = "copy" THEN "users" ELSE "cities"
  /\ quiet' = TRUE
  /\ UNCHANGED <<source, table, map, rows, deaths, settled, raced>>

PlanCities ==
  LET plan == Plan("city", <<>>) IN
  /\ pc = "cities"
  /\ map' = [map EXCEPT !["city"] = plan.map]
  /\ rows' = [rows EXCEPT !["city"] = plan.insert]
  /\ pc' = "users"
  /\ UNCHANGED <<source, table, mode, known, deaths, past>>

(* The rows of the other tables follow from the maps and from known.       *)
PlanUsers ==
  LET plan == Plan("user", map["city"]) IN
  /\ pc = "users"
  /\ IF mode = "copy"
     THEN rows' = [t \in Table |-> Copies(t)] /\ UNCHANGED map
     ELSE /\ map' = [map EXCEPT !["user"] = plan.map]
          /\ rows' = [t \in Table |->
               CASE t = "city" -> rows["city"]
                 [] t = "user" -> plan.insert
                 [] OTHER -> Candidates(t, plan.map)]
  /\ pc' = "insert"
  /\ UNCHANGED <<source, table, mode, known, deaths, past>>

(* Unique indexes: ids, logins, orders of deliveries.                      *)
ClashOfKeys(t, q, r) == t \in {"user", "delivery"} /\ q.key # None /\ q.key = r.key
Clash(t, q, r) ==
  \/ q.id = r.id
  \/ t \in {"user", "delivery"} /\ q.key # None /\ q.key = r.key

(* ON CONFLICT DO NOTHING, row by row.                                     *)
InsertDoNothing(t, have, batch) ==
  FoldLeft(LAMBDA acc, r :
             IF \E q \in acc : Clash(t, q, r) THEN acc ELSE acc \cup {r},
           have, batch)

(* ON CONFLICT (id) DO UPDATE: PostgreSQL refuses a statement that meets   *)
(* another index, or one row twice.                                        *)
Refused(t, batch) ==
  \E i \in DOMAIN batch :
    \/ \E q \in table[t] : Clash(t, q, batch[i]) /\ q.id # batch[i].id
    \/ \E j \in DOMAIN batch : j # i /\ Clash(t, batch[i], batch[j])

Upsert(have, batch) ==
  {r \in have : \A i \in DOMAIN batch : batch[i].id # r.id} \cup Range(batch)

(* The first table with rows left, its next statement.                     *)
Ready(t) ==
  /\ pc = "insert" /\ rows[t] # <<>>
  /\ \A i, j \in 1..Len(TableOrder) :
       TableOrder[j] = t /\ i < j => rows[TableOrder[i]] = <<>>

FullBatch(t) == IF Len(rows[t]) < BatchSize THEN <<>> ELSE SubSeq(rows[t], 1, BatchSize)
Batch(t) == SubSeq(rows[t], 1, IF BatchSize < Len(rows[t]) THEN BatchSize ELSE Len(rows[t]))

InsertBatch(t) ==
  /\ Ready(t)
  /\ mode # "merge" => ~ Refused(t, Batch(t))
  /\ table' = [table EXCEPT ![t] =
       IF mode = "merge" THEN InsertDoNothing(t, @, Batch(t)) ELSE Upsert(@, Batch(t))]
  /\ rows' = [rows EXCEPT ![t] = SubSeq(@, Len(Batch(t)) + 1, Len(@))]
  /\ UNCHANGED <<source, pc, mode, known, map, deaths, past>>

Leave ==
  /\ pc' = "idle" /\ mode' = None
  /\ known' = [t \in Table |-> {}] /\ map' = NoMap /\ rows' = NoRows

Fail ==
  /\ \E t \in Table : Ready(t) /\ mode # "merge" /\ Refused(t, Batch(t))
  /\ Leave
  /\ UNCHANGED <<source, table, deaths, past>>

Complete ==
  /\ pc = "insert" /\ rows = NoRows
  /\ Leave
  /\ settled' = (quiet /\ mode # "copy")
  /\ UNCHANGED <<source, table, deaths, quiet, raced>>

Die ==
  /\ pc # "idle" /\ deaths < MaxDeaths
  /\ deaths' = deaths + 1
  /\ Leave
  /\ UNCHANGED <<source, table, past>>

(* The application adds a user, or what importFromEvents makes of an order: *)
(* createDelivery writes the delivery, and createLink, a step of its own   *)
(* that may come late or never, the link.                                  *)
AppAdds ==
  /\ \E w \in AppWrites :
       /\ \A q \in table[w.table] : ~ Clash(w.table, q, w.row)
       /\ w.table = "link" => w.row.link \in Ids("delivery")
       /\ table' = [table EXCEPT ![w.table] = @ \cup {w.row}]
       /\ raced' = (raced \/ (pc \in {"users", "insert"} /\ w.table \in People))
  /\ quiet' = FALSE /\ settled' = FALSE
  /\ UNCHANGED <<source, run, deaths>>

RunGoesOn == PlanCities \/ PlanUsers \/ (\E t \in Table : InsertBatch(t)) \/ Complete \/ Fail

Next == (\E m \in Modes : Start(m)) \/ RunGoesOn \/ Die \/ AppAdds

Spec == Init /\ [][Next]_vars

(* Somebody runs the import until it has ended well.                       *)
FairSpec == Spec /\ SF_vars(Start("merge")) /\ WF_vars(RunGoesOn)

----------------------------------------------------------------------------
(* Properties.                                                             *)

(* A run that ended well, whatever died before it, left nothing behind: a  *)
(* document that can be recovered has its row, or gave way to the row of   *)
(* its login, name or order.                                               *)
EverythingRecovered ==
  settled => \A t \in Table : \A i \in DOMAIN source[t] :
    LET d == source[t][i] IN
    d.valid => \E r \in table[t] :
      \/ r.id \in Aliases(d)
      \/ t \in People /\ r.key.name = d.key.name
      \/ t = "delivery" /\ d.key # None /\ r.key = d.key

UserDocs(id) ==
  {d \in Range(source["user"]) : d.valid /\ id \in Aliases(d)}

(* 'remapeia o histórico para o ID atual' (:15) and its table by table     *)
(* order: what a merge imported of a user belongs to a row of that user,   *)
(* unless users were added behind the plan of a run; and wherever a run    *)
(* died, an imported link has its delivery, unless that gave way to the    *)
(* delivery that the application had stored for the same order.            *)
HistoryHasItsUser ==
  ~ raced => \A t \in {"delivery", "link", "record"} : \A i \in DOMAIN source[t] :
    \A r \in table[t], d \in UserDocs(source[t][i].owner) :
      r.by = "merge" /\ r.id = SourceId(source[t][i])
      => \E u \in table["user"] :
           u.id = r.owner /\ (u.id \in Aliases(d) \/ u.key.name = d.key.name)

LinksFollowDeliveries ==
  \A r \in table["link"], d \in Range(source["delivery"]) :
    r.by = "merge" /\ d.valid /\ SourceId(d) = r.link
    => \E q \in table["delivery"] : q.id = r.link \/ (d.key # None /\ q.key = d.key)

ReferencesResolve == HistoryHasItsUser /\ LinksFollowDeliveries

(* 'Pode rodar o comando novamente ... é idempotente' (:70): after a run   *)
(* that ended well a merge changes nothing.                                *)
RerunChangesNothing ==
  [][mode = "merge" /\ settled /\ settled' => UNCHANGED table]_vars

(* 'procura duplicidades que impediriam os índices PostgreSQL'             *)
(* (MIGRACAO-SUPABASE.md): a copy into a database of its own is not        *)
(* refused half-way, but for ids of events, logs and credits, which the    *)
(* preflight does not look at.                                             *)
PreflightSuffices ==
  \A t \in Table \ {"record"} :
    mode = "copy" /\ Ready(t) /\ (\A s \in Table : \A q \in table[s] : q.by = "copy")
    => ~ Refused(t, Batch(t))

(* An import that is started again after each death ends well.             *)
Converges == <>[]settled
=============================================================================
