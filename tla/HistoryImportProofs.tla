------------------------ MODULE HistoryImportProofs ------------------------
(***************************************************************************)
(* Proofs about HistoryImport, for any old databases, any application and  *)
(* any batches: tables keep their types, a copy that the preflight let     *)
(* through is not refused; and of the merge that it recovers everything,   *)
(* changes nothing when it is run again, and leaves no reference open.     *)
(***************************************************************************)
EXTENDS HistoryImport, FiniteSetTheorems, SequenceTheorems, WellFoundedInduction, TLAPS

-----------------------------------------------------------------------------
(* What tables, maps and batches hold.                                     *)

Ident ==
  ({d.id : d \in Document} \cup {d.alias : d \in Document} \cup {w.row.id : w \in Written})
    \ {None}
Key == {d.key : d \in Document} \cup {w.row.key : w \in Written}
Owner == {d.owner : d \in Document} \cup {w.row.owner : w \in Written} \cup Ident
Link == {d.link : d \in Document} \cup {w.row.link : w \in Written}
Row == [id : Ident, key : Key, owner : Owner, link : Link, by : Modes \cup {"app"}]
Map == UNION {[D -> Ident] : D \in SUBSET Ident}

UniqueIds(S) == \A q, r \in S : q.id = r.id => q = r

ImportTypes ==
  /\ source \in Sources
  /\ table \in [Table -> SUBSET Row] /\ \A t \in Table : UniqueIds(table[t])
  /\ rows \in [Table -> Seq(Row)] /\ map \in [People -> Map]
  /\ known \in [Table -> SUBSET Ident]
  /\ pc \in {"idle", "cities", "users", "insert"}
  /\ IF pc = "idle" THEN mode = None ELSE mode \in Modes
  /\ pc = "idle" => rows = NoRows
  /\ \A t \in Table : \A i \in DOMAIN rows[t] : rows[t][i].by = mode
  /\ deaths \in 0..MaxDeaths
  /\ quiet \in BOOLEAN /\ settled \in BOOLEAN /\ raced \in BOOLEAN

-----------------------------------------------------------------------------
(* The copy                                                                *)

(* MongoDB keeps the _id of cities unique, and the entity's index the id   *)
(* of users (user.entity.ts:18); the preflight looks at neither.           *)
MongoKeepsIds ==
  \A S \in Sources :
    /\ \A i, j \in DOMAIN S["city"] :
         i # j /\ CopyId("city", S["city"][i]) # None
         => CopyId("city", S["city"][i]) # CopyId("city", S["city"][j])
    /\ \A i, j \in DOMAIN S["user"] :
         i # j /\ S["user"][i].id # None => S["user"][i].id # S["user"][j].id

CopyOf(t, r) ==
  \E d \in Range(source[t]) : d.valid /\ r.id = CopyId(t, d) /\ r.key = d.key

CopiesLeft(t) ==
  /\ \A i \in DOMAIN rows[t] : CopyOf(t, rows[t][i])
  /\ t # "record" =>
       \A i, j \in DOMAIN rows[t] : i # j => ~ Clash(t, rows[t][i], rows[t][j])

(* Whatever was copied is a document of the source as the preflight saw    *)
(* it, and no two rows that are still to be copied disturb each other.     *)
CopyInv ==
  /\ ImportTypes
  /\ pc # "idle" /\ mode = "copy" =>
       /\ pc # "cities" /\ Preflight
       /\ \A t \in Table : CopiesLeft(t)
  /\ \A t \in Table : \A r \in table[t] : r.by = "copy" => CopyOf(t, r)

-----------------------------------------------------------------------------
(* The merge                                                               *)

(* The row that is found again for a document when the import is repeated. *)
Holds(t, r, d) ==
  IF t \in People THEN r.id \in Aliases(d) \/ r.key.name = d.key.name
  ELSE r.id = SourceId(d) \/ (t = "delivery" /\ d.key # None /\ r.key = d.key)

(* The row a document is imported as.                                      *)
Carries(t, r, d) ==
  IF t \in People THEN Holds(t, r, d) ELSE r.id = SourceId(d) /\ r.key = d.key

Recovered(t) ==
  \A d \in Range(source[t]) : d.valid => \E r \in table[t] : Holds(t, r, d)
Planned(t) ==
  \A d \in Range(source[t]) : d.valid =>
    \/ \E r \in table[t] : Holds(t, r, d)
    \/ \E r \in Range(rows[t]) : Carries(t, r, d)

(* Rows that the table takes, all of them.                                 *)
Fresh(t) ==
  /\ \A i \in DOMAIN rows[t], q \in table[t] : ~ Clash(t, q, rows[t][i])
  /\ \A i, j \in DOMAIN rows[t] : i # j => ~ Clash(t, rows[t][i], rows[t][j])

(* Which plans are made.                                                   *)
IsPlanned(t) == pc = "insert" \/ (t = "city" /\ pc = "users")

MergeInv ==
  /\ ImportTypes
  /\ \A t \in Table : known[t] \subseteq Ids(t)
  /\ \A t \in People : IsPlanned(t) /\ (quiet \/ ~ raced) => Fresh(t)
  /\ quiet => \A t \in Table : IsPlanned(t) => Planned(t)
  /\ settled => \A t \in Table :
       /\ Recovered(t)
       /\ \A r \in Range(rows[t]) : \E q \in table[t] : Clash(t, q, r)

-----------------------------------------------------------------------------
(* The references of the merge                                             *)

History == {"delivery", "link", "record"}

(* In the source no two users share an id, and no two documents of a       *)
(* collection either: the unique indexes of the entities                   *)
(* (user.entity.ts:18, delivery.entity.ts:10, ifood-order-link.entity.ts:5,*)
(* log.entity.ts:18), an _id being nobody else's id.                       *)
TidySource ==
  \A S \in Sources :
    /\ \A d, e \in Range(S["user"]) :
         d.valid /\ e.valid /\ Aliases(d) \cap Aliases(e) # {} => d = e
    /\ \A t \in History : \A d, e \in Range(S[t]) :
         SourceId(d) = SourceId(e) /\ SourceId(d) # None => d = e

Names(u, d) == u.id \in Aliases(d) \/ u.key.name = d.key.name

(* Where the plan sends the references to a user.                          *)
Remapped(d, a) ==
  /\ a \in DOMAIN map["user"]
  /\ \E u \in table["user"] \cup Range(rows["user"]) : u.id = map["user"][a] /\ Names(u, d)

FromDocument(t, r) ==
  \E d \in Range(source[t]) :
    /\ d.valid /\ r.id = SourceId(d) /\ r.key = d.key /\ r.link = d.link
    /\ r.owner = Mapped(map["user"], d.owner)

(* The delivery of a document is there, or another one has its order.      *)
Refuses(q, d) == d.key # None /\ q.key = d.key /\ q.id # SourceId(d)

Arrives(d) ==
  \/ \E q \in table["delivery"] : q.id = SourceId(d) \/ Refuses(q, d)
  \/ \E q \in Range(rows["delivery"]) : q.id = SourceId(d) /\ q.key = d.key

ReferencesInv ==
  /\ MergeInv
  /\ pc = "insert" =>
       /\ \A t \in History : \A r \in Range(rows[t]) : FromDocument(t, r)
       /\ ~ raced => \A d \in Range(source["user"]) : d.valid =>
            \A a \in Aliases(d) : Remapped(d, a)
       /\ \A d \in Range(source["delivery"]) : d.valid => Arrives(d)
  /\ ReferencesResolve

-----------------------------------------------------------------------------
(* Induction over 0..n, by a least counterexample.                         *)

LEMMA LeastNatural ==
  ASSUME NEW T \in SUBSET Nat, T # {}
  PROVE  \E m \in T : \A k \in T : m <= k
<1>. DEFINE U == {0..k : k \in T}
<1>1. \A k \in T : IsFiniteSet(0..k) /\ 0..k \in SUBSET Nat
  BY FS_Interval
<1>2. U \subseteq FiniteSubsetsOf(Nat) /\ U # {}
  BY <1>1 DEF FiniteSubsetsOf
<1>3. IsWellFoundedOn(StrictSubsetOrdering(Nat), FiniteSubsetsOf(Nat))
  BY FS_StrictSubsetOrderingWellFounded
<1>4. PICK x \in U : \A y \in U : ~ (<<y, x>> \in StrictSubsetOrdering(Nat))
  <2>. HIDE DEF U
  <2>. QED
    BY <1>2, <1>3, WFMin
<1>5. PICK m \in T : x = 0..m
  BY <1>4
<1>6. ASSUME NEW k \in T, ~ (m <= k)
      PROVE  FALSE
  <2>1. 0..k \in U /\ 0..m \in U
    BY <1>5, <1>6
  <2>2. m \in 0..m /\ m \notin 0..k
    BY <1>6
  <2>3. 0..k \subseteq 0..m /\ 0..k # 0..m
    BY <1>6, <2>2
  <2>4. <<0..k, 0..m>> \in StrictSubsetOrdering(Nat)
    BY <1>1, <2>3 DEF StrictSubsetOrdering
  <2>. QED
    BY <1>4, <1>5, <2>1, <2>4
<1>. QED
  BY <1>6

Climbs(n, G) == 0 \in G /\ \A k \in 0..n : k # n /\ k \in G => k + 1 \in G

LEMMA Climb ==
  ASSUME NEW n \in Nat, NEW G, Climbs(n, G)
  PROVE  \A k \in 0..n : k \in G
<1>. DEFINE T == {k \in 0..n : k \notin G}
<1>. SUFFICES ASSUME T # {} PROVE FALSE
  OBVIOUS
<1>1. T \in SUBSET Nat
  OBVIOUS
<1>2. PICK m \in T : \A k \in T : m <= k
  <2>. HIDE DEF T
  <2>. QED
    BY <1>1, LeastNatural
<1>3. m \in 0..n /\ m \notin G /\ m # 0
  BY DEF Climbs
<1>4. m - 1 \in 0..n /\ m - 1 # n /\ ~ (m <= m - 1) /\ (m - 1) + 1 = m
  BY <1>3
<1>5. m - 1 \in G
  BY <1>2, <1>4
<1>. QED
  BY <1>3, <1>4, <1>5 DEF Climbs

-----------------------------------------------------------------------------
(* Folds: there is the function by which FoldLeft is defined.              *)

Folds(A, D, n, docs, step, start) ==
  /\ n \in Nat /\ start \in A
  /\ \A k \in 1..n : docs[k] \in D
  /\ \A a \in A, d \in D : step[a][d] \in A
IsFold(h, A, n, docs, step, start) ==
  /\ h \in [SUBSET (1..n) -> A]
  /\ \A s \in SUBSET (1..n) :
       h[s] = IF s = {} THEN start ELSE step[h[s \ {Max(s)}]][docs[Max(s)]]

LEMMA FoldExists ==
  ASSUME NEW A, NEW D, NEW n, NEW docs, NEW step, NEW start,
         Folds(A, D, n, docs, step, start)
  PROVE  \E h : IsFold(h, A, n, docs, step, start)
<1>. DEFINE Fold(h, k) == IsFold(h, A, k, docs, step, start)
            G == {k \in 0..n : \E h : Fold(h, k)}
<1>. USE DEF Folds
<1>1. 0 \in G
  <2>. DEFINE h == [s \in SUBSET (1..0) |-> start]
  <2>1. \A s \in SUBSET (1..0) : s = {} /\ h[s] = start
    OBVIOUS
  <2>2. h \in [SUBSET (1..0) -> A]
    OBVIOUS
  <2>4. Fold(h, 0)
    BY <2>1, <2>2 DEF IsFold
  <2>. HIDE DEF h
  <2>3. \E f : Fold(f, 0)
    BY <2>4
  <2>. QED
    BY <2>3
<1>2. ASSUME NEW k \in 0..n, k # n, k \in G
      PROVE  k + 1 \in G
  <2>1. PICK h : Fold(h, k)
    BY <1>2
  <2>. DEFINE g == [s \in SUBSET (1..(k + 1)) |->
                      IF k + 1 \in s THEN step[h[s \ {k + 1}]][docs[k + 1]] ELSE h[s]]
  <2>2. \A s \in SUBSET (1..(k + 1)) : k + 1 \notin s => s \in SUBSET (1..k)
    BY <1>2
  <2>3. \A s \in SUBSET (1..(k + 1)) : s \ {k + 1} \in SUBSET (1..k)
    BY <1>2
  <2>4. \A s \in SUBSET (1..(k + 1)) : h[s \ {k + 1}] \in A /\ docs[k + 1] \in D
    BY <1>2, <2>1, <2>3 DEF IsFold
  <2>5. g \in [SUBSET (1..(k + 1)) -> A]
    BY <2>1, <2>2, <2>4 DEF IsFold
  <2>6. ASSUME NEW s \in SUBSET (1..(k + 1))
        PROVE  g[s] = IF s = {} THEN start ELSE step[g[s \ {Max(s)}]][docs[Max(s)]]
    <3>1. CASE k + 1 \in s
      <4>1. \A x \in s : k + 1 >= x
        BY <1>2
      <4>2. \A y \in s : (\A x \in s : y >= x) => y = k + 1
        BY <1>2, <3>1, <4>1
      <4>3. Max(s) = k + 1
        BY <3>1, <4>1, <4>2 DEF Max
      <4>4. s \ {k + 1} \in SUBSET (1..(k + 1)) /\ k + 1 \notin s \ {k + 1}
        OBVIOUS
      <4>5. g[s \ {k + 1}] = h[s \ {k + 1}]
        BY <4>4
      <4>. QED
        BY <3>1, <4>3, <4>5
    <3>2. CASE k + 1 \notin s
      <4>1. s \in SUBSET (1..k) /\ s \ {Max(s)} \in SUBSET (1..(k + 1))
            /\ k + 1 \notin s \ {Max(s)}
        BY <2>2, <3>2
      <4>2. g[s] = h[s] /\ g[s \ {Max(s)}] = h[s \ {Max(s)}]
        BY <3>2, <4>1
      <4>. QED
        BY <2>1, <4>1, <4>2 DEF IsFold
    <3>. QED
      BY <3>1, <3>2
  <2>7. Fold(g, k + 1)
    BY <2>5, <2>6 DEF IsFold
  <2>. HIDE DEF g
  <2>8. k + 1 \in 0..n /\ \E f : Fold(f, k + 1)
    BY <1>2, <2>7
  <2>. QED
    BY <2>8
<1>. HIDE DEF G
<1>3. Climbs(n, G)
  BY <1>1, <1>2 DEF Climbs
<1>4. n \in G
  BY <1>3, Climb
<1>. QED
  BY <1>4 DEF G

LEMMA MaxIsIn ==
  ASSUME NEW n \in Nat, NEW s \in SUBSET (1..n), s # {}
  PROVE  Max(s) \in s
<1>. DEFINE T == {m \in 0..n : \A x \in s : m >= x}
<1>1. T \in SUBSET Nat /\ n \in T
  OBVIOUS
<1>2. PICK m \in T : \A k \in T : m <= k
  <2>. HIDE DEF T
  <2>. QED
    BY <1>1, LeastNatural
<1>3. m \in 0..n /\ \A x \in s : m >= x
  OBVIOUS
<1>4. m \in s
  <2>. SUFFICES ASSUME m \notin s PROVE FALSE
    OBVIOUS
  <2>1. \A x \in s : x \in 1..n /\ x # m
    OBVIOUS
  <2>2. m # 0
    <3>1. PICK x \in s : TRUE
      OBVIOUS
    <3>. QED
      BY <1>3, <2>1, <3>1
  <2>3. m - 1 \in 0..n /\ \A x \in s : m - 1 >= x
    BY <1>3, <2>1, <2>2
  <2>4. m - 1 \in T
    BY <2>3
  <2>. QED
    BY <1>2, <1>3, <2>4
<1>5. \E x \in s : \A y \in s : x >= y
  BY <1>3, <1>4
<1>. QED
  BY <1>5 DEF Max

(* The last of 1..k, and what is before it.                                *)
LEMMA LastOf ==
  ASSUME NEW k \in Nat \ {0}
  PROVE  Max(1..k) = k /\ (1..k) \ {k} = 1..(k - 1) /\ 1..k # {}
<1>1. \A y \in 1..k : (\A x \in 1..k : y >= x) => y = k
  OBVIOUS
<1>2. k \in 1..k /\ \A x \in 1..k : k >= x
  OBVIOUS
<1>. QED
  BY <1>1, <1>2 DEF Max

(* A fold followed from document to document stays in its set.             *)
Follows(f, A, n, docs, step, start) ==
  /\ f[0] = start
  /\ \A k \in 1..n : f[k - 1] \in A => f[k] = step[f[k - 1]][docs[k]]

LEMMA FoldStays ==
  ASSUME NEW A, NEW D, NEW n, NEW docs, NEW step, NEW start,
         Folds(A, D, n, docs, step, start),
         NEW f, Follows(f, A, n, docs, step, start)
  PROVE  \A k \in 0..n : f[k] \in A
<1>. USE DEF Folds, Follows
<1>. DEFINE G == {k \in 0..n : f[k] \in A}
<1>1. 0 \in G
  OBVIOUS
<1>2. ASSUME NEW k \in 0..n, k # n, k \in G
      PROVE  k + 1 \in G
  <2>1. k + 1 \in 1..n /\ (k + 1) - 1 = k /\ k + 1 \in 0..n
    BY <1>2
  <2>2. docs[k + 1] \in D /\ f[k] \in A
    BY <1>2, <2>1
  <2>3. f[k + 1] = step[f[k]][docs[k + 1]]
    BY <2>1, <2>2
  <2>. QED
    BY <2>1, <2>2, <2>3
<1>. HIDE DEF G
<1>3. Climbs(n, G)
  BY <1>1, <1>2 DEF Climbs
<1>4. \A k \in 0..n : k \in G
  BY <1>3, Climb
<1>. QED
  BY <1>4 DEF G

(* The documents kept up to each of them.                                  *)
IsKeeping(h, docs, W) ==
  h = [s \in SUBSET (DOMAIN docs) |->
        IF s = {} THEN <<>>
        ELSE IF docs[Max(s)] \in W THEN Append(h[s \ {Max(s)}], docs[Max(s)])
             ELSE h[s \ {Max(s)}]]

MaybeAppend(kept, d, W) == IF d \in W THEN Append(kept, d) ELSE kept
Keeps(f, D, docs, W) ==
  /\ f \in [0..Len(docs) -> Seq(D)]
  /\ f[0] = <<>> /\ f[Len(docs)] = Only(docs, W)
  /\ \A k \in 1..Len(docs) : f[k] = MaybeAppend(f[k - 1], docs[k], W)

LEMMA OnlyByPrefix ==
  ASSUME NEW D, NEW docs \in Seq(D), NEW W
  PROVE  \E f : Keeps(f, D, docs, W)
<1>. DEFINE n == Len(docs)
            step == [a \in Seq(D) |-> [d \in D |-> IF d \in W THEN Append(a, d) ELSE a]]
            h == CHOOSE h : IsKeeping(h, docs, W)
<1>1. n \in Nat /\ DOMAIN docs = 1..n /\ \A k \in 1..n : docs[k] \in D
  OBVIOUS
<1>2. \A a \in Seq(D), d \in D :
        /\ step[a][d] \in Seq(D)
        /\ step[a][d] = IF d \in W THEN Append(a, d) ELSE a
  OBVIOUS
<1>3. <<>> \in Seq(D)
  OBVIOUS
<1>. HIDE DEF n, step
<1>4. Folds(Seq(D), D, n, docs, step, <<>>)
  BY <1>1, <1>2, <1>3 DEF Folds
<1>5. PICK g : IsFold(g, Seq(D), n, docs, step, <<>>)
  BY <1>4, FoldExists
<1>6. /\ g \in [SUBSET (1..n) -> Seq(D)]
      /\ \A s \in SUBSET (1..n) :
           g[s] = IF s = {} THEN <<>> ELSE step[g[s \ {Max(s)}]][docs[Max(s)]]
  BY <1>5 DEF IsFold
<1>7. IsKeeping(g, docs, W)
  <2>1. ASSUME NEW s \in SUBSET (1..n), s # {}
        PROVE  step[g[s \ {Max(s)}]][docs[Max(s)]]
                 = IF docs[Max(s)] \in W THEN Append(g[s \ {Max(s)}], docs[Max(s)])
                   ELSE g[s \ {Max(s)}]
    <3>1. Max(s) \in 1..n
      BY <1>1, <2>1, MaxIsIn
    <3>2. s \ {Max(s)} \in SUBSET (1..n)
      OBVIOUS
    <3>3. g[s \ {Max(s)}] \in Seq(D) /\ docs[Max(s)] \in D
      BY <1>1, <1>6, <3>1, <3>2
    <3>. QED
      BY <1>2, <3>3
  <2>. QED
    BY <1>1, <1>6, <2>1 DEF IsKeeping
<1>8. IsKeeping(h, docs, W)
  BY <1>7
<1>9. Only(docs, W) = h[DOMAIN docs]
  BY DEF Only, FoldLeft, MapThenFoldSet, IsKeeping
<1>. HIDE DEF h
<1>10. \A s \in SUBSET (1..n) :
         h[s] = IF s = {} THEN <<>>
                ELSE IF docs[Max(s)] \in W THEN Append(h[s \ {Max(s)}], docs[Max(s)])
                     ELSE h[s \ {Max(s)}]
  BY <1>1, <1>8 DEF IsKeeping
<1>. DEFINE f == [k \in 0..n |-> h[1..k]]
<1>11. f[0] = <<>>
  <2>1. 1..0 = {} /\ {} \in SUBSET (1..n) /\ 0 \in 0..n
    BY <1>1
  <2>2. h[{}] = <<>>
    BY <1>10, <2>1
  <2>. QED
    BY <2>1, <2>2
<1>12. f[n] = Only(docs, W)
  BY <1>1, <1>9
<1>13. ASSUME NEW k \in 1..n
       PROVE  f[k] = IF docs[k] \in W THEN Append(f[k - 1], docs[k]) ELSE f[k - 1]
  <2>1. k \in Nat \ {0} /\ k \in 0..n /\ k - 1 \in 0..n
    BY <1>1
  <2>2. Max(1..k) = k /\ (1..k) \ {k} = 1..(k - 1) /\ 1..k # {}
    BY <2>1, LastOf
  <2>3. 1..k \in SUBSET (1..n)
    BY <1>1
  <2>4. h[1..k] = IF docs[k] \in W THEN Append(h[1..(k - 1)], docs[k]) ELSE h[1..(k - 1)]
    BY <1>10, <2>2, <2>3
  <2>. QED
    BY <2>1, <2>4
<1>14. DOMAIN f = 0..n /\ f = [k \in 0..n |-> f[k]]
  OBVIOUS
<1>. HIDE DEF f
<1>15. \A k \in 0..n : f[k] \in Seq(D)
  <2>1. ASSUME NEW k \in 1..n, f[k - 1] \in Seq(D)
        PROVE  f[k] = step[f[k - 1]][docs[k]]
    BY <1>1, <1>2, <1>13, <2>1
  <2>2. Follows(f, Seq(D), n, docs, step, <<>>)
    BY <1>11, <2>1, Zenon DEF Follows
  <2>. QED
    BY <1>4, <2>2, FoldStays
<1>16. f \in [0..n -> Seq(D)]
  BY <1>14, <1>15
<1>. QED
  BY <1>11, <1>12, <1>13, <1>16 DEF n, Keeps, MaybeAppend

(* What is kept are the documents in W, each where it stood.               *)
IsPlaced(at, kept, docs, k, W) ==
  /\ at \in [1..Len(kept) -> 1..k]
  /\ \A i \in 1..Len(kept) : kept[i] = docs[at[i]] /\ docs[at[i]] \in W
  /\ \A i, j \in 1..Len(kept) : i # j => at[i] # at[j]
  /\ \A j \in 1..k : docs[j] \in W => \E i \in 1..Len(kept) : at[i] = j

LEMMA OneMoreKept ==
  ASSUME NEW D, NEW docs \in Seq(D), NEW k \in 0..Len(docs), k # Len(docs), NEW W,
         NEW kept \in Seq(D), NEW at, IsPlaced(at, kept, docs, k, W)
  PROVE  \E a : IsPlaced(a, MaybeAppend(kept, docs[k + 1], W), docs, k + 1, W)
<1>. USE DEF IsPlaced
<1>1. k + 1 \in 1..Len(docs) /\ docs[k + 1] \in D /\ 1..k \subseteq 1..(k + 1)
      /\ (1..(k + 1)) \ (1..k) = {k + 1}
  OBVIOUS
<1>2. CASE docs[k + 1] \in W
  <2>. DEFINE more == Append(kept, docs[k + 1])
              m == Len(kept)
              a == [i \in 1..(m + 1) |-> IF i = m + 1 THEN k + 1 ELSE at[i]]
  <2>1. m \in Nat /\ Len(more) = m + 1 /\ more[m + 1] = docs[k + 1]
        /\ \A i \in 1..m : more[i] = kept[i]
    BY <1>1
  <2>2. \A i \in 1..(m + 1) : i # m + 1 => i \in 1..m
    BY <2>1
  <2>3. \A i \in 1..m : i \in 1..(m + 1) /\ i # m + 1 /\ at[i] \in 1..k /\ at[i] # k + 1
    BY <2>1
  <2>. HIDE DEF more, m
  <2>4. a \in [1..(m + 1) -> 1..(k + 1)]
    BY <1>1, <2>1, <2>2, <2>3
  <2>5. a[m + 1] = k + 1 /\ \A i \in 1..m : a[i] = at[i]
    BY <2>1, <2>3
  <2>. HIDE DEF a
  <2>6. \A i \in 1..(m + 1) : more[i] = docs[a[i]] /\ docs[a[i]] \in W
    BY <1>2, <2>1, <2>2, <2>5 DEF m
  <2>7. \A i, j \in 1..(m + 1) : i # j => a[i] # a[j]
    BY <2>2, <2>3, <2>5 DEF m
  <2>8. \A j \in 1..(k + 1) : docs[j] \in W => \E i \in 1..(m + 1) : a[i] = j
    BY <1>1, <2>1, <2>3, <2>5 DEF m
  <2>9. IsPlaced(a, more, docs, k + 1, W)
    BY <2>1, <2>4, <2>6, <2>7, <2>8
  <2>10. more = MaybeAppend(kept, docs[k + 1], W)
    BY <1>2 DEF more, MaybeAppend
  <2>. HIDE DEF IsPlaced
  <2>. QED
    BY <2>9, <2>10
<1>3. CASE docs[k + 1] \notin W
  <2>1. IsPlaced(at, kept, docs, k + 1, W)
    BY <1>1, <1>3
  <2>2. kept = MaybeAppend(kept, docs[k + 1], W)
    BY <1>3 DEF MaybeAppend
  <2>. HIDE DEF IsPlaced
  <2>. QED
    BY <2>1, <2>2
<1>. QED
  BY <1>2, <1>3

LEMMA OnlyIsPlaced ==
  ASSUME NEW D, NEW docs \in Seq(D), NEW W
  PROVE  /\ Only(docs, W) \in Seq(D)
         /\ \E at : IsPlaced(at, Only(docs, W), docs, Len(docs), W)
<1>. DEFINE n == Len(docs)
<1>10. PICK f : Keeps(f, D, docs, W)
  BY OnlyByPrefix
<1>1. /\ n \in Nat /\ f \in [0..n -> Seq(D)] /\ f[0] = <<>> /\ f[n] = Only(docs, W)
      /\ \A k \in 1..n : f[k] = MaybeAppend(f[k - 1], docs[k], W)
  BY <1>10 DEF Keeps
<1>. DEFINE G == {k \in 0..n : \E at : IsPlaced(at, f[k], docs, k, W)}
<1>2. 0 \in G
  <2>1. f[0] = <<>> /\ Len(f[0]) = 0 /\ 1..0 = {} /\ 0 \in 0..n
    BY <1>1
  <2>. DEFINE at == [i \in 1..0 |-> i]
  <2>2. at \in [1..0 -> 1..0]
    BY <2>1
  <2>. HIDE DEF at
  <2>3. IsPlaced(at, f[0], docs, 0, W)
    BY <2>1, <2>2 DEF IsPlaced
  <2>. QED
    BY <2>1, <2>3
<1>3. ASSUME NEW k \in 0..n, k # n, k \in G
      PROVE  k + 1 \in G
  <2>1. PICK at : IsPlaced(at, f[k], docs, k, W)
    BY <1>3
  <2>2. k + 1 \in 1..n /\ (k + 1) - 1 = k /\ k + 1 \in 0..n /\ f[k] \in Seq(D)
    BY <1>1, <1>3
  <2>3. f[k + 1] = MaybeAppend(f[k], docs[k + 1], W)
    BY <1>1, <2>2
  <2>4. \E a : IsPlaced(a, f[k + 1], docs, k + 1, W)
    BY <1>3, <2>1, <2>2, <2>3, OneMoreKept
  <2>. QED
    BY <2>2, <2>4
<1>. HIDE DEF G
<1>4. Climbs(n, G)
  BY <1>2, <1>3 DEF Climbs
<1>5. n \in G
  BY <1>4, Climb
<1>. QED
  BY <1>1, <1>5 DEF G

-----------------------------------------------------------------------------
(* Documents, rows and maps                                                *)

LEMMA Tables == Table = {"city", "user", "delivery", "link", "record"}
<1>1. DOMAIN TableOrder = 1..5
  BY DEF TableOrder
<1>2. TableOrder[1] = "city" /\ TableOrder[2] = "user" /\ TableOrder[3] = "delivery"
      /\ TableOrder[4] = "link" /\ TableOrder[5] = "record"
  BY DEF TableOrder
<1>3. \A i \in 1..5 : i = 1 \/ i = 2 \/ i = 3 \/ i = 4 \/ i = 5
  OBVIOUS
<1>. QED
  BY <1>1, <1>2, <1>3 DEF Table, Range

LEMMA TypesSuffice == ImportTypes => TypeOK
<1>. SUFFICES ASSUME ImportTypes PROVE TypeOK
  OBVIOUS
<1>1. \A r \in Row : /\ DOMAIN r = {"id", "key", "owner", "link", "by"}
                     /\ r.id # None /\ r.by \in Modes \cup {"app"}
  BY DEF Row, Ident
<1>2. mode \in Modes \cup {None}
  BY DEF ImportTypes
<1>3. \A t \in Table : \A q, r \in table[t] : q.id = r.id => q = r
  BY DEF ImportTypes, UniqueIds
<1>4. \A t \in Table : table[t] \subseteq Row
  BY DEF ImportTypes
<1>. QED
  BY <1>1, <1>2, <1>3, <1>4 DEF ImportTypes, TypeOK

LEMMA SourceFits ==
  ASSUME source \in Sources, NEW t \in Table
  PROVE  /\ source[t] \in Seq(Document) /\ Range(source[t]) \subseteq Document
         /\ Range(source[t]) = {source[t][i] : i \in 1..Len(source[t])}
         /\ DOMAIN source[t] = 1..Len(source[t])
<1>1. source[t] \in Seq(Document)
  BY ImportAssumption
<1>. QED
  BY <1>1 DEF Range

LEMMA DocumentFits ==
  ASSUME NEW d \in Document
  PROVE  /\ d.id \in Ident \cup {None} /\ d.alias \in Ident \cup {None}
         /\ Aliases(d) \subseteq Ident
         /\ d.key \in Key /\ d.owner \in Owner /\ d.link \in Link
         /\ d.valid \in BOOLEAN
         /\ d.valid => SourceId(d) \in Ident /\ SourceId(d) \in Aliases(d)
         /\ SourceId(d) # None => SourceId(d) \in Aliases(d)
BY ImportAssumption DEF Ident, Key, Owner, Link, Aliases, SourceId

LEMMA RowFits ==
  ASSUME NEW d \in Document, NEW id \in Ident, NEW owner \in Owner, mode \in Modes
  PROVE  /\ RowOf(d, id, owner) \in Row
         /\ RowOf(d, id, owner).id = id /\ RowOf(d, id, owner).key = d.key
         /\ RowOf(d, id, owner).owner = owner /\ RowOf(d, id, owner).link = d.link
         /\ RowOf(d, id, owner).by = mode
<1>1. d.key \in Key /\ d.link \in Link
  BY DocumentFits
<1>. QED
  BY <1>1 DEF Row, RowOf

LEMMA MapFits ==
  ASSUME NEW m \in Map
  PROVE  DOMAIN m \subseteq Ident /\ \A a \in DOMAIN m : m[a] \in Ident
<1>1. PICK D \in SUBSET Ident : m \in [D -> Ident]
  BY DEF Map
<1>. QED
  BY <1>1

LEMMA MappedFits ==
  ASSUME NEW m \in Map, NEW owner \in Owner
  PROVE  Mapped(m, owner) \in Owner
BY MapFits DEF Mapped, Owner

LEMMA AliasesMapped ==
  ASSUME NEW m \in Map, NEW aliases \in SUBSET Ident, NEW id \in Ident
  PROVE  mapAliases(m, aliases, id) \in Map
<1>1. DOMAIN m \subseteq Ident /\ \A a \in DOMAIN m : m[a] \in Ident
  BY MapFits
<1>2. mapAliases(m, aliases, id) \in [aliases \cup DOMAIN m -> Ident]
  BY <1>1 DEF mapAliases
<1>3. aliases \cup DOMAIN m \in SUBSET Ident
  BY <1>1
<1>. QED
  BY <1>2, <1>3 DEF Map

LEMMA EmptyMap == <<>> \in Map /\ DOMAIN <<>> = {}
<1>1. <<>> \in [{} -> Ident]
  OBVIOUS
<1>. QED
  BY <1>1 DEF Map

-----------------------------------------------------------------------------
(* The plan of cities and of users                                         *)

PlanType == [map : Map, seen : SUBSET Row, insert : Seq(Row), cities : Map]
NewRow(plan, d) == RowOf(d, SourceId(d), Mapped(plan.cities, d.owner))

LEMMA MergeSteps ==
  ASSUME NEW plan \in PlanType, NEW d \in Document, mode \in Modes
  PROVE  /\ Merge(plan, d) \in PlanType
         /\ Merge(plan, d).cities = plan.cities
         /\ \/ Merge(plan, d).insert = plan.insert
            \/ \E row \in Row : /\ row.by = mode
                                /\ Merge(plan, d).insert = Append(plan.insert, row)
         /\ ~ d.valid => Merge(plan, d) = plan
         /\ d.valid /\ Same(plan.seen, d) = {} =>
              /\ Merge(plan, d).map = mapAliases(plan.map, Aliases(d), SourceId(d))
              /\ Merge(plan, d).seen = plan.seen \cup {NewRow(plan, d)}
              /\ Merge(plan, d).insert = Append(plan.insert, NewRow(plan, d))
         /\ d.valid /\ Same(plan.seen, d) # {} =>
              /\ \E r \in Same(plan.seen, d) :
                   Merge(plan, d).map = mapAliases(plan.map, Aliases(d), r.id)
              /\ Merge(plan, d).seen = plan.seen
              /\ mode = "merge" => Merge(plan, d).insert = plan.insert
<1>. DEFINE same == Same(plan.seen, d)
            found == CHOOSE r \in same : TRUE
            id == IF same = {} THEN SourceId(d) ELSE found.id
            row == RowOf(d, id, Mapped(plan.cities, d.owner))
            next == [plan EXCEPT
                      !.map = mapAliases(@, Aliases(d), id),
                      !.seen = IF same = {} THEN @ \cup {row} ELSE @,
                      !.insert = IF same = {} \/ mode = "final" THEN Append(@, row) ELSE @]
<1>1. Merge(plan, d) = IF ~ d.valid THEN plan ELSE next
  BY DEF Merge
<1>2. same \subseteq plan.seen /\ plan.seen \subseteq Row /\ plan.insert \in Seq(Row)
      /\ plan.map \in Map /\ plan.cities \in Map
  BY DEF PlanType, Same
<1>3. same # {} => found \in same /\ found.id \in Ident
  BY <1>2 DEF Row
<1>4. d.valid => id \in Ident
  BY <1>3, DocumentFits
<1>5. Mapped(plan.cities, d.owner) \in Owner
  BY <1>2, MappedFits, DocumentFits
<1>6. d.valid => row \in Row /\ row.by = mode
  BY <1>4, <1>5, RowFits
<1>7. d.valid => mapAliases(plan.map, Aliases(d), id) \in Map
  BY <1>2, <1>4, AliasesMapped, DocumentFits
<1>. HIDE DEF row, id, found, same
<1>8. /\ next.map = mapAliases(plan.map, Aliases(d), id)
      /\ next.seen = IF same = {} THEN plan.seen \cup {row} ELSE plan.seen
      /\ next.insert = IF same = {} \/ mode = "final" THEN Append(plan.insert, row)
                       ELSE plan.insert
      /\ next.cities = plan.cities
  BY DEF PlanType
<1>9. d.valid => next \in PlanType
  <2>1. d.valid => Append(plan.insert, row) \in Seq(Row)
    BY <1>2, <1>6
  <2>2. d.valid => plan.seen \cup {row} \in SUBSET Row
    BY <1>2, <1>6
  <2>. QED
    BY <1>2, <1>7, <2>1, <2>2 DEF PlanType
<1>. HIDE DEF next
<1>10. d.valid /\ same = {} => id = SourceId(d) /\ row = NewRow(plan, d)
  BY DEF id, row, NewRow
<1>11. d.valid /\ same # {} => found \in same /\ id = found.id
  BY <1>3 DEF id
<1>12. \/ Merge(plan, d).insert = plan.insert
       \/ \E r \in Row : r.by = mode /\ Merge(plan, d).insert = Append(plan.insert, r)
  BY <1>1, <1>6, <1>8
<1>. QED
  BY <1>1, <1>8, <1>9, <1>10, <1>11, <1>12 DEF same

(* The plans after each document.                                          *)
StartPlan(t, cities) == [map |-> <<>>, seen |-> table[t], insert |-> <<>>, cities |-> cities]
IsMerging(h, docs, start) ==
  h = [s \in SUBSET (DOMAIN docs) |->
        IF s = {} THEN start ELSE Merge(h[s \ {Max(s)}], docs[Max(s)])]
Plans(f, t, cities) ==
  /\ f \in [0..Len(source[t]) -> PlanType]
  /\ f[0] = StartPlan(t, cities) /\ f[Len(source[t])] = Plan(t, cities)
  /\ \A k \in 1..Len(source[t]) : f[k] = Merge(f[k - 1], source[t][k])

LEMMA PlanByPrefix ==
  ASSUME ImportTypes, mode \in Modes, NEW t \in Table, NEW cities \in Map
  PROVE  \E f : Plans(f, t, cities)
<1>. DEFINE docs == source[t]
            n == Len(docs)
            start == StartPlan(t, cities)
            step == [a \in PlanType |-> [d \in Document |-> Merge(a, d)]]
            h == CHOOSE h : IsMerging(h, docs, start)
<1>1. n \in Nat /\ DOMAIN docs = 1..n /\ \A k \in 1..n : docs[k] \in Document
  BY SourceFits DEF ImportTypes
<1>2. \A a \in PlanType, d \in Document : step[a][d] = Merge(a, d) /\ Merge(a, d) \in PlanType
  BY MergeSteps
<1>3. start \in PlanType
  BY EmptyMap DEF StartPlan, PlanType, ImportTypes
<1>. HIDE DEF n, docs, start, step
<1>4. Folds(PlanType, Document, n, docs, step, start)
  BY <1>1, <1>2, <1>3 DEF Folds
<1>5. PICK g : IsFold(g, PlanType, n, docs, step, start)
  BY <1>4, FoldExists
<1>6. /\ g \in [SUBSET (1..n) -> PlanType]
      /\ \A s \in SUBSET (1..n) :
           g[s] = IF s = {} THEN start ELSE step[g[s \ {Max(s)}]][docs[Max(s)]]
  BY <1>5 DEF IsFold
<1>7. IsMerging(g, docs, start)
  <2>1. ASSUME NEW s \in SUBSET (1..n), s # {}
        PROVE  step[g[s \ {Max(s)}]][docs[Max(s)]] = Merge(g[s \ {Max(s)}], docs[Max(s)])
    <3>1. Max(s) \in 1..n
      BY <1>1, <2>1, MaxIsIn
    <3>2. s \ {Max(s)} \in SUBSET (1..n)
      OBVIOUS
    <3>3. g[s \ {Max(s)}] \in PlanType /\ docs[Max(s)] \in Document
      BY <1>1, <1>6, <3>1, <3>2
    <3>. QED
      BY <1>2, <3>3
  <2>. QED
    BY <1>1, <1>6, <2>1 DEF IsMerging
<1>8. IsMerging(h, docs, start)
  BY <1>7
<1>9. Plan(t, cities) = h[DOMAIN docs]
  BY DEF Plan, FoldLeft, MapThenFoldSet, IsMerging, docs, start, StartPlan
<1>. HIDE DEF h
<1>10. \A s \in SUBSET (1..n) :
         h[s] = IF s = {} THEN start ELSE Merge(h[s \ {Max(s)}], docs[Max(s)])
  BY <1>1, <1>8 DEF IsMerging
<1>. DEFINE f == [k \in 0..n |-> h[1..k]]
<1>11. f[0] = start
  <2>1. 1..0 = {} /\ {} \in SUBSET (1..n) /\ 0 \in 0..n
    BY <1>1
  <2>2. h[{}] = start
    BY <1>10, <2>1
  <2>. QED
    BY <2>1, <2>2
<1>12. f[n] = Plan(t, cities)
  BY <1>1, <1>9
<1>13. ASSUME NEW k \in 1..n
       PROVE  f[k] = Merge(f[k - 1], docs[k])
  <2>1. k \in Nat \ {0} /\ k \in 0..n /\ k - 1 \in 0..n
    BY <1>1
  <2>2. Max(1..k) = k /\ (1..k) \ {k} = 1..(k - 1) /\ 1..k # {}
    BY <2>1, LastOf
  <2>3. 1..k \in SUBSET (1..n)
    BY <1>1
  <2>4. h[1..k] = Merge(h[1..(k - 1)], docs[k])
    BY <1>10, <2>2, <2>3
  <2>. QED
    BY <2>1, <2>4
<1>14. DOMAIN f = 0..n /\ f = [k \in 0..n |-> f[k]]
  OBVIOUS
<1>. HIDE DEF f
<1>15. \A k \in 0..n : f[k] \in PlanType
  <2>1. ASSUME NEW k \in 1..n, f[k - 1] \in PlanType
        PROVE  f[k] = step[f[k - 1]][docs[k]]
    BY <1>1, <1>2, <1>13, <2>1
  <2>2. Follows(f, PlanType, n, docs, step, start)
    BY <1>11, <2>1, Zenon DEF Follows
  <2>. QED
    BY <1>4, <2>2, FoldStays
<1>16. f \in [0..n -> PlanType]
  BY <1>14, <1>15
<1>. QED
  BY <1>11, <1>12, <1>13, <1>16 DEF n, docs, start, Plans

(* ON CONFLICT DO NOTHING, row by row.                                     *)
Taken(t, have, r) == IF \E q \in have : Clash(t, q, r) THEN have ELSE have \cup {r}
IsInserting(h, t, docs, start) ==
  h = [s \in SUBSET (DOMAIN docs) |->
        IF s = {} THEN start
        ELSE IF \E q \in h[s \ {Max(s)}] : Clash(t, q, docs[Max(s)]) THEN h[s \ {Max(s)}]
             ELSE h[s \ {Max(s)}] \cup {docs[Max(s)]}]
Inserts(f, t, have, batch) ==
  /\ f \in [0..Len(batch) -> SUBSET Row]
  /\ f[0] = have /\ f[Len(batch)] = InsertDoNothing(t, have, batch)
  /\ \A k \in 1..Len(batch) : f[k] = Taken(t, f[k - 1], batch[k])

LEMMA InsertByPrefix ==
  ASSUME NEW t, NEW have \in SUBSET Row, NEW batch \in Seq(Row)
  PROVE  \E f : Inserts(f, t, have, batch)
<1>. DEFINE n == Len(batch)
            step == [a \in SUBSET Row |-> [r \in Row |-> Taken(t, a, r)]]
            h == CHOOSE h : IsInserting(h, t, batch, have)
<1>1. n \in Nat /\ DOMAIN batch = 1..n /\ \A k \in 1..n : batch[k] \in Row
  OBVIOUS
<1>2. \A a \in SUBSET Row, r \in Row :
        step[a][r] = Taken(t, a, r) /\ Taken(t, a, r) \in SUBSET Row
  BY DEF Taken
<1>. HIDE DEF n, step
<1>4. Folds(SUBSET Row, Row, n, batch, step, have)
  BY <1>1, <1>2 DEF Folds
<1>5. PICK g : IsFold(g, SUBSET Row, n, batch, step, have)
  BY <1>4, FoldExists
<1>6. /\ g \in [SUBSET (1..n) -> SUBSET Row]
      /\ \A s \in SUBSET (1..n) :
           g[s] = IF s = {} THEN have ELSE step[g[s \ {Max(s)}]][batch[Max(s)]]
  BY <1>5 DEF IsFold
<1>7. IsInserting(g, t, batch, have)
  <2>1. ASSUME NEW s \in SUBSET (1..n), s # {}
        PROVE  step[g[s \ {Max(s)}]][batch[Max(s)]] = Taken(t, g[s \ {Max(s)}], batch[Max(s)])
    <3>1. Max(s) \in 1..n
      BY <1>1, <2>1, MaxIsIn
    <3>2. s \ {Max(s)} \in SUBSET (1..n)
      OBVIOUS
    <3>3. g[s \ {Max(s)}] \in SUBSET Row /\ batch[Max(s)] \in Row
      BY <1>1, <1>6, <3>1, <3>2
    <3>. QED
      BY <1>2, <3>3
  <2>. QED
    BY <1>1, <1>6, <2>1 DEF IsInserting, Taken
<1>8. IsInserting(h, t, batch, have)
  BY <1>7
<1>9. InsertDoNothing(t, have, batch) = h[DOMAIN batch]
  BY DEF InsertDoNothing, FoldLeft, MapThenFoldSet, IsInserting
<1>. HIDE DEF h
<1>10. \A s \in SUBSET (1..n) :
         h[s] = IF s = {} THEN have ELSE Taken(t, h[s \ {Max(s)}], batch[Max(s)])
  BY <1>1, <1>8 DEF IsInserting, Taken
<1>. DEFINE f == [k \in 0..n |-> h[1..k]]
<1>11. f[0] = have
  <2>1. 1..0 = {} /\ {} \in SUBSET (1..n) /\ 0 \in 0..n
    BY <1>1
  <2>2. h[{}] = have
    BY <1>10, <2>1
  <2>. QED
    BY <2>1, <2>2
<1>12. f[n] = InsertDoNothing(t, have, batch)
  BY <1>1, <1>9
<1>13. ASSUME NEW k \in 1..n
       PROVE  f[k] = Taken(t, f[k - 1], batch[k])
  <2>1. k \in Nat \ {0} /\ k \in 0..n /\ k - 1 \in 0..n
    BY <1>1
  <2>2. Max(1..k) = k /\ (1..k) \ {k} = 1..(k - 1) /\ 1..k # {}
    BY <2>1, LastOf
  <2>3. 1..k \in SUBSET (1..n)
    BY <1>1
  <2>4. h[1..k] = Taken(t, h[1..(k - 1)], batch[k])
    BY <1>10, <2>2, <2>3
  <2>. QED
    BY <2>1, <2>4
<1>14. DOMAIN f = 0..n /\ f = [k \in 0..n |-> f[k]]
  OBVIOUS
<1>. HIDE DEF f
<1>15. \A k \in 0..n : f[k] \in SUBSET Row
  <2>1. ASSUME NEW k \in 1..n, f[k - 1] \in SUBSET Row
        PROVE  f[k] = step[f[k - 1]][batch[k]]
    BY <1>1, <1>2, <1>13, <2>1
  <2>2. Follows(f, SUBSET Row, n, batch, step, have)
    BY <1>11, <2>1, Zenon DEF Follows
  <2>. QED
    BY <1>4, <2>2, FoldStays
<1>16. f \in [0..n -> SUBSET Row]
  BY <1>14, <1>15
<1>. QED
  BY <1>11, <1>12, <1>13, <1>16 DEF n, Inserts

(* Everything comes from the table or the batch, and nothing is lost but   *)
(* rows that would clash.                                                  *)
InsertedSoFar(t, have, batch, k, now) ==
  /\ have \subseteq now /\ now \subseteq have \cup {batch[i] : i \in 1..k}
  /\ \A i \in 1..k : \E q \in now : Clash(t, q, batch[i])
  /\ UniqueIds(have) => UniqueIds(now)
  /\ (/\ \A i \in 1..Len(batch), q \in have : ~ Clash(t, q, batch[i])
      /\ \A i, j \in 1..Len(batch) : i # j => ~ Clash(t, batch[i], batch[j]))
     => now = have \cup {batch[i] : i \in 1..k}
  /\ (\A i \in 1..Len(batch) : \E q \in have : Clash(t, q, batch[i])) => now = have

LEMMA OneMoreInserted ==
  ASSUME NEW t, NEW have, NEW batch, Len(batch) \in Nat, NEW k \in 0..Len(batch),
         k # Len(batch), NEW now, InsertedSoFar(t, have, batch, k, now)
  PROVE  InsertedSoFar(t, have, batch, k + 1, Taken(t, now, batch[k + 1]))
<1>. DEFINE next == Taken(t, now, batch[k + 1])
<1>1. k + 1 \in 1..Len(batch) /\ \A i \in 1..k : i \in 1..Len(batch) /\ i # k + 1
  OBVIOUS
<1>2. {batch[i] : i \in 1..(k + 1)} = {batch[i] : i \in 1..k} \cup {batch[k + 1]}
  <2>1. \A i \in 1..(k + 1) : i \in 1..k \/ i = k + 1
    OBVIOUS
  <2>2. \A i \in 1..k : i \in 1..(k + 1)
    OBVIOUS
  <2>3. k + 1 \in 1..(k + 1)
    OBVIOUS
  <2>. QED
    BY <2>1, <2>2, <2>3
<1>3. now \subseteq next /\ next \subseteq now \cup {batch[k + 1]}
  BY DEF Taken
<1>4. \E q \in next : Clash(t, q, batch[k + 1])
  BY DEF Taken, Clash
<1>5. \A i \in 1..(k + 1) : \E q \in next : Clash(t, q, batch[i])
  <2>1. \A i \in 1..(k + 1) : i \in 1..k \/ i = k + 1
    OBVIOUS
  <2>. QED
    BY <1>3, <1>4, <2>1 DEF InsertedSoFar
<1>6. UniqueIds(have) => UniqueIds(next)
  BY DEF InsertedSoFar, UniqueIds, Taken, Clash
<1>7. ASSUME \A i \in 1..Len(batch), q \in have : ~ Clash(t, q, batch[i]),
             \A i, j \in 1..Len(batch) : i # j => ~ Clash(t, batch[i], batch[j])
      PROVE  next = have \cup {batch[i] : i \in 1..(k + 1)}
  <2>1. now = have \cup {batch[i] : i \in 1..k}
    BY <1>7 DEF InsertedSoFar
  <2>2. \A q \in now : ~ Clash(t, q, batch[k + 1])
    BY <1>1, <1>7, <2>1
  <2>. QED
    BY <1>2, <2>1, <2>2 DEF Taken
<1>8. ASSUME \A i \in 1..Len(batch) : \E q \in have : Clash(t, q, batch[i])
      PROVE  next = have
  BY <1>1, <1>8 DEF InsertedSoFar, Taken
<1>9. have \subseteq next /\ next \subseteq have \cup {batch[i] : i \in 1..(k + 1)}
  BY <1>2, <1>3 DEF InsertedSoFar
<1>. HIDE DEF next
<1>10. InsertedSoFar(t, have, batch, k + 1, next)
  BY <1>5, <1>6, <1>7, <1>8, <1>9 DEF InsertedSoFar
<1>. QED
  BY <1>10 DEF next

LEMMA InsertFacts ==
  ASSUME NEW t, NEW have \in SUBSET Row, NEW batch \in Seq(Row)
  PROVE  InsertedSoFar(t, have, batch, Len(batch), InsertDoNothing(t, have, batch))
<1>. DEFINE n == Len(batch)
<1>1. PICK f : Inserts(f, t, have, batch)
  BY InsertByPrefix
<1>2. n \in Nat /\ f[0] = have /\ f[n] = InsertDoNothing(t, have, batch)
      /\ \A k \in 1..n : f[k] = Taken(t, f[k - 1], batch[k])
  BY <1>1 DEF Inserts
<1>. DEFINE G == {k \in 0..n : InsertedSoFar(t, have, batch, k, f[k])}
<1>3. 0 \in G
  <2>1. 1..0 = {} /\ 0 \in 0..n
    BY <1>2
  <2>2. InsertedSoFar(t, have, batch, 0, have)
    BY <2>1 DEF InsertedSoFar
  <2>. QED
    BY <1>2, <2>1, <2>2
<1>4. ASSUME NEW k \in 0..n, k # n, k \in G
      PROVE  k + 1 \in G
  <2>1. k + 1 \in 1..n /\ (k + 1) - 1 = k /\ k + 1 \in 0..n
    BY <1>2, <1>4
  <2>2. f[k + 1] = Taken(t, f[k], batch[k + 1])
    BY <1>2, <2>1
  <2>3. InsertedSoFar(t, have, batch, k, f[k])
    BY <1>4
  <2>4. InsertedSoFar(t, have, batch, k + 1, f[k + 1])
    BY <1>2, <1>4, <2>2, <2>3, OneMoreInserted
  <2>. QED
    BY <2>1, <2>4
<1>. HIDE DEF G
<1>5. Climbs(n, G)
  BY <1>3, <1>4 DEF Climbs
<1>6. n \in G
  BY <1>2, <1>5, Climb
<1>. QED
  BY <1>2, <1>6 DEF G

-----------------------------------------------------------------------------
(* Types                                                                   *)

ByMode(s) == \A i \in DOMAIN s : s[i].by = mode

LEMMA PlanTyped ==
  ASSUME ImportTypes, mode \in Modes, NEW t \in Table, NEW cities \in Map
  PROVE  Plan(t, cities) \in PlanType /\ ByMode(Plan(t, cities).insert)
<1>. DEFINE n == Len(source[t])
<1>1. PICK f : Plans(f, t, cities)
  BY PlanByPrefix
<1>2. n \in Nat /\ \A k \in 1..n : source[t][k] \in Document
  BY SourceFits DEF ImportTypes
<1>3. /\ f \in [0..n -> PlanType] /\ f[0] = StartPlan(t, cities) /\ f[n] = Plan(t, cities)
      /\ \A k \in 1..n : f[k] = Merge(f[k - 1], source[t][k])
  BY <1>1 DEF Plans
<1>. DEFINE G == {k \in 0..n : ByMode(f[k].insert)}
<1>4. 0 \in G
  <2>1. f[0].insert = <<>> /\ 0 \in 0..n
    BY <1>2, <1>3 DEF StartPlan
  <2>. QED
    BY <2>1 DEF ByMode
<1>5. ASSUME NEW k \in 0..n, k # n, k \in G
      PROVE  k + 1 \in G
  <2>1. k + 1 \in 1..n /\ (k + 1) - 1 = k /\ k + 1 \in 0..n
    BY <1>2, <1>5
  <2>2. f[k + 1] = Merge(f[k], source[t][k + 1]) /\ f[k] \in PlanType
        /\ source[t][k + 1] \in Document
    BY <1>2, <1>3, <2>1
  <2>3. \/ f[k + 1].insert = f[k].insert
        \/ \E row \in Row : row.by = mode /\ f[k + 1].insert = Append(f[k].insert, row)
    BY <2>2, MergeSteps
  <2>4. ByMode(f[k].insert) /\ f[k].insert \in Seq(Row)
    BY <1>5, <2>2 DEF PlanType
  <2>5. ASSUME NEW row \in Row, row.by = mode, f[k + 1].insert = Append(f[k].insert, row)
        PROVE  ByMode(f[k + 1].insert)
    BY <2>4, <2>5 DEF ByMode
  <2>6. ByMode(f[k + 1].insert)
    BY <2>3, <2>4, <2>5
  <2>. QED
    BY <2>1, <2>6
<1>. HIDE DEF G
<1>6. Climbs(n, G)
  BY <1>4, <1>5 DEF Climbs
<1>7. n \in G
  BY <1>2, <1>6, Climb
<1>. QED
  BY <1>2, <1>3, <1>7 DEF G

(* What is planned for the other tables, and what is copied.               *)
Wanted(t) ==
  {d \in Range(source[t]) : d.valid /\ (mode = "final" \/ SourceId(d) \notin known[t])}
Copied(t) == {d \in Range(source[t]) : d.valid /\ CopyId(t, d) # None}

LEMMA CandidatesFit ==
  ASSUME ImportTypes, mode \in Modes, NEW t \in Table, NEW users \in Map
  PROVE  /\ Candidates(t, users) \in Seq(Row) /\ ByMode(Candidates(t, users))
         /\ Len(Candidates(t, users)) = Len(Only(source[t], Wanted(t)))
         /\ Only(source[t], Wanted(t)) \in Seq(Document)
         /\ \A i \in 1..Len(Candidates(t, users)) :
              LET d == Only(source[t], Wanted(t))[i] IN
              Candidates(t, users)[i] = RowOf(d, SourceId(d), Mapped(users, d.owner))
<1>. DEFINE docs == Only(source[t], Wanted(t))
            rs == [i \in DOMAIN docs |->
                     RowOf(docs[i], SourceId(docs[i]), Mapped(users, docs[i].owner))]
<1>1. Candidates(t, users) = rs
  BY DEF Candidates, Wanted
<1>2. source[t] \in Seq(Document)
  BY SourceFits DEF ImportTypes
<1>3. docs \in Seq(Document) /\ \E at : IsPlaced(at, docs, source[t], Len(source[t]), Wanted(t))
  BY <1>2, OnlyIsPlaced
<1>4. \A i \in 1..Len(docs) : docs[i] \in Document /\ docs[i].valid
  <2>1. PICK at : IsPlaced(at, docs, source[t], Len(source[t]), Wanted(t))
    BY <1>3
  <2>. HIDE DEF docs
  <2>2. \A i \in 1..Len(docs) : docs[i] \in Wanted(t)
    BY <2>1 DEF IsPlaced
  <2>3. \A i \in 1..Len(docs) : docs[i] \in Document
    BY <1>3
  <2>. QED
    BY <2>2, <2>3 DEF Wanted
<1>5. DOMAIN docs = 1..Len(docs) /\ Len(docs) \in Nat
  BY <1>3
<1>. HIDE DEF docs
<1>6. \A i \in 1..Len(docs) : rs[i] \in Row /\ rs[i].by = mode
  <2>1. ASSUME NEW i \in 1..Len(docs)
        PROVE  rs[i] \in Row /\ rs[i].by = mode
    <3>1. SourceId(docs[i]) \in Ident /\ docs[i].owner \in Owner
      BY <1>4, DocumentFits
    <3>2. Mapped(users, docs[i].owner) \in Owner
      BY <3>1, MappedFits
    <3>. QED
      BY <1>4, <1>5, <3>1, <3>2, RowFits
  <2>. QED
    BY <2>1
<1>7. rs \in Seq(Row) /\ Len(rs) = Len(docs) /\ DOMAIN rs = 1..Len(docs)
  BY <1>5, <1>6
<1>8. ByMode(rs)
  BY <1>6, <1>7 DEF ByMode
<1>9. \A i \in 1..Len(docs) :
        rs[i] = RowOf(docs[i], SourceId(docs[i]), Mapped(users, docs[i].owner))
  BY <1>5
<1>. HIDE DEF rs
<1>. QED
  BY <1>1, <1>3, <1>7, <1>8, <1>9 DEF docs

LEMMA CopiesFit ==
  ASSUME ImportTypes, mode \in Modes, NEW t \in Table
  PROVE  /\ Copies(t) \in Seq(Row) /\ ByMode(Copies(t))
         /\ Len(Copies(t)) = Len(Only(source[t], Copied(t)))
         /\ Only(source[t], Copied(t)) \in Seq(Document)
         /\ \A i \in 1..Len(Copies(t)) :
              LET d == Only(source[t], Copied(t))[i] IN
              Copies(t)[i].id = CopyId(t, d) /\ Copies(t)[i].key = d.key
<1>. DEFINE docs == Only(source[t], Copied(t))
            rs == [i \in DOMAIN docs |-> RowOf(docs[i], CopyId(t, docs[i]), docs[i].owner)]
<1>1. Copies(t) = rs
  BY DEF Copies, Copied
<1>2. source[t] \in Seq(Document)
  BY SourceFits DEF ImportTypes
<1>3. docs \in Seq(Document) /\ \E at : IsPlaced(at, docs, source[t], Len(source[t]), Copied(t))
  BY <1>2, OnlyIsPlaced
<1>4. \A i \in 1..Len(docs) : docs[i] \in Document /\ CopyId(t, docs[i]) # None
  <2>1. PICK at : IsPlaced(at, docs, source[t], Len(source[t]), Copied(t))
    BY <1>3
  <2>. HIDE DEF docs
  <2>2. \A i \in 1..Len(docs) : docs[i] \in Copied(t)
    BY <2>1 DEF IsPlaced
  <2>3. \A i \in 1..Len(docs) : docs[i] \in Document
    BY <1>3
  <2>. QED
    BY <2>2, <2>3 DEF Copied
<1>5. DOMAIN docs = 1..Len(docs) /\ Len(docs) \in Nat
  BY <1>3
<1>. HIDE DEF docs
<1>6. ASSUME NEW i \in 1..Len(docs)
      PROVE  /\ rs[i] \in Row /\ rs[i].by = mode
             /\ rs[i].id = CopyId(t, docs[i]) /\ rs[i].key = docs[i].key
  <2>1. CopyId(t, docs[i]) \in Ident /\ docs[i].owner \in Owner
    BY <1>4, DocumentFits DEF CopyId
  <2>. QED
    BY <1>4, <1>5, <2>1, RowFits
<1>7. rs \in Seq(Row) /\ Len(rs) = Len(docs) /\ DOMAIN rs = 1..Len(docs)
  BY <1>5, <1>6
<1>8. ByMode(rs)
  BY <1>6, <1>7 DEF ByMode
<1>. HIDE DEF rs
<1>. QED
  BY <1>1, <1>3, <1>6, <1>7, <1>8 DEF docs

(* A statement takes rows from the front, and leaves the others.           *)
Rest(t) == SubSeq(rows[t], Len(Batch(t)) + 1, Len(rows[t]))

LEMMA BatchFits ==
  ASSUME ImportTypes, NEW t \in Table
  PROVE  /\ Batch(t) \in Seq(Row) /\ ByMode(Batch(t))
         /\ Rest(t) \in Seq(Row) /\ ByMode(Rest(t))
         /\ Len(Batch(t)) <= Len(rows[t]) /\ Len(Rest(t)) = Len(rows[t]) - Len(Batch(t))
         /\ \A i \in 1..Len(Batch(t)) : i \in 1..Len(rows[t]) /\ Batch(t)[i] = rows[t][i]
         /\ \A i \in 1..Len(Rest(t)) :
              /\ Len(Batch(t)) + i \in 1..Len(rows[t])
              /\ Rest(t)[i] = rows[t][Len(Batch(t)) + i]
<1>. DEFINE s == rows[t]
            m == IF BatchSize < Len(s) THEN BatchSize ELSE Len(s)
<1>1. s \in Seq(Row) /\ ByMode(s)
  BY DEF ImportTypes, ByMode
<1>2. BatchSize \in Nat
  BY ImportAssumption
<1>3. m \in Nat /\ m <= Len(s) /\ Len(s) \in Nat /\ Batch(t) = SubSeq(s, 1, m)
  BY <1>1, <1>2 DEF Batch
<1>. HIDE DEF s, m
<1>4. /\ Batch(t) \in Seq(Row) /\ Len(Batch(t)) = m /\ DOMAIN Batch(t) = 1..m
      /\ \A i \in 1..m : i \in 1..Len(s) /\ Batch(t)[i] = s[i]
  BY <1>1, <1>3
<1>5. Rest(t) = SubSeq(s, m + 1, Len(s))
  BY <1>4 DEF Rest, s
<1>6. /\ Rest(t) \in Seq(Row) /\ Len(Rest(t)) = Len(s) - m /\ DOMAIN Rest(t) = 1..(Len(s) - m)
      /\ \A i \in 1..(Len(s) - m) : m + i \in 1..Len(s) /\ Rest(t)[i] = s[m + i]
  BY <1>1, <1>3, <1>5
<1>7. \A i \in 1..Len(s) : s[i].by = mode
  BY <1>1 DEF ByMode
<1>8. ByMode(Batch(t))
  <2>1. \A i \in 1..m : Batch(t)[i].by = mode
    BY <1>4, <1>7
  <2>. QED
    BY <1>4, <2>1 DEF ByMode
<1>9. ByMode(Rest(t))
  <2>1. \A i \in 1..(Len(s) - m) : Rest(t)[i].by = mode
    BY <1>6, <1>7
  <2>. QED
    BY <1>6, <2>1 DEF ByMode
<1>. QED
  BY <1>3, <1>4, <1>6, <1>8, <1>9 DEF s

LEMMA UpsertFits ==
  ASSUME ImportTypes, NEW t \in Table, ~ Refused(t, Batch(t))
  PROVE  /\ Upsert(table[t], Batch(t)) \in SUBSET Row
         /\ UniqueIds(Upsert(table[t], Batch(t)))
<1>. DEFINE b == Batch(t)
<1>1. b \in Seq(Row) /\ DOMAIN b = 1..Len(b)
  BY BatchFits
<1>2. \A i, j \in DOMAIN b : i # j => b[i].id # b[j].id
  BY DEF Refused, Clash
<1>3. table[t] \in SUBSET Row /\ UniqueIds(table[t])
  BY DEF ImportTypes
<1>. HIDE DEF b
<1>4. Range(b) \subseteq Row
  BY <1>1 DEF Range
<1>5. UniqueIds(Upsert(table[t], b))
  BY <1>2, <1>3 DEF UniqueIds, Upsert, Range
<1>. QED
  BY <1>3, <1>4, <1>5 DEF Upsert, b

LEMMA WrittenFits ==
  ASSUME NEW w \in Written
  PROVE  w.table \in Table /\ w.row \in Row /\ w.row.by = "app"
<1>1. w \in Written
  OBVIOUS
<1>2. /\ w.table \in Table /\ w.row.id # None
      /\ w.row = [id |-> w.row.id, key |-> w.row.key, owner |-> w.row.owner,
                  link |-> w.row.link, by |-> "app"]
  BY <1>1, ImportAssumption
<1>3. w.row.id \in Ident /\ w.row.key \in Key /\ w.row.owner \in Owner /\ w.row.link \in Link
  BY <1>1, <1>2 DEF Ident, Key, Owner, Link
<1>4. [id |-> w.row.id, key |-> w.row.key, owner |-> w.row.owner,
       link |-> w.row.link, by |-> "app"] \in Row
  BY <1>3 DEF Row
<1>5. [id |-> w.row.id, key |-> w.row.key, owner |-> w.row.owner,
       link |-> w.row.link, by |-> "app"].by = "app"
  OBVIOUS
<1>6. w.row \in Row /\ w.row.by = "app"
  BY <1>2, <1>4, <1>5
<1>. QED
  BY <1>1, <1>2, <1>6

LEMMA WrittenDiffer ==
  ASSUME NEW s \in Existing
  PROVE  \A v, w \in s : v.table = w.table /\ v.row.id = w.row.id => v = w
BY ImportAssumption

LEMMA NothingPlanned ==
  /\ NoRows \in [Table -> Seq(Row)] /\ \A t \in Table : NoRows[t] = <<>> /\ DOMAIN NoRows[t] = {}
  /\ NoMap \in [People -> Map]
  /\ [t \in Table |-> {}] \in [Table -> SUBSET Ident]
<1>1. <<>> \in Seq(Row) /\ DOMAIN <<>> = {}
  OBVIOUS
<1>. QED
  BY <1>1, EmptyMap DEF NoRows, NoMap

LEMMA InitTypes == Init => ImportTypes
<1>. SUFFICES ASSUME Init PROVE ImportTypes
  OBVIOUS
<1>1. PICK s \in Existing : table = [t \in Table |-> {w.row : w \in {v \in s : v.table = t}}]
  BY DEF Init
<1>2. \A w \in s : w.row \in Row
  BY WrittenFits DEF Written
<1>3. table \in [Table -> SUBSET Row]
  BY <1>1, <1>2
<1>4. ASSUME NEW t \in Table PROVE UniqueIds(table[t])
  <2>1. \A q \in table[t] : \E w \in s : w.table = t /\ q = w.row
    BY <1>1
  <2>. QED
    BY <2>1, WrittenDiffer DEF UniqueIds
<1>5. 0 \in 0..MaxDeaths
  BY ImportAssumption
<1>. QED
  BY <1>3, <1>4, <1>5, NothingPlanned DEF Init, ImportTypes

(* What a run leaves behind when it ends, well or not.                     *)
LEMMA LeaveTypes ==
  ASSUME ImportTypes, Leave, UNCHANGED <<source, table>>,
         deaths' \in 0..MaxDeaths, settled' \in BOOLEAN, UNCHANGED <<quiet, raced>>
  PROVE  ImportTypes'
<1>1. rows' = NoRows /\ map' = NoMap /\ known' = [t \in Table |-> {}]
      /\ pc' = "idle" /\ mode' = None
  BY DEF Leave
<1>2. /\ source' \in Sources
      /\ table' \in [Table -> SUBSET Row] /\ \A t \in Table : UniqueIds(table'[t])
      /\ quiet' \in BOOLEAN /\ raced' \in BOOLEAN
  BY DEF ImportTypes
<1>3. \A t \in Table : \A i \in DOMAIN rows'[t] : rows'[t][i].by = mode'
  BY <1>1, NothingPlanned
<1>4. /\ rows' \in [Table -> Seq(Row)] /\ map' \in [People -> Map]
      /\ known' \in [Table -> SUBSET Ident]
  BY <1>1, NothingPlanned
<1>5. /\ pc' \in {"idle", "cities", "users", "insert"} /\ rows' = NoRows
      /\ IF pc' = "idle" THEN mode' = None ELSE mode' \in Modes
  BY <1>1
<1>. QED
  BY <1>2, <1>3, <1>4, <1>5 DEF ImportTypes

LEMMA StartTypes ==
  ASSUME ImportTypes, NEW m \in Modes, Start(m)
  PROVE  ImportTypes'
<1>1. known' \in [Table -> SUBSET Ident]
  <2>1. \A t \in Table : Ids(t) \subseteq Ident
    BY DEF Ids, ImportTypes, Row
  <2>. QED
    BY <2>1 DEF Start
<1>2. \A t \in Table : \A i \in DOMAIN rows[t] : FALSE
  BY NothingPlanned DEF Start, ImportTypes
<1>. QED
  BY <1>1, <1>2 DEF Start, ImportTypes

LEMMA PlanCitiesTypes ==
  ASSUME ImportTypes, PlanCities
  PROVE  ImportTypes'
<1>1. mode \in Modes
  BY DEF PlanCities, ImportTypes
<1>2. "city" \in Table /\ "city" \in People
  BY Tables DEF People
<1>3. Plan("city", <<>>) \in PlanType /\ ByMode(Plan("city", <<>>).insert)
  BY <1>1, <1>2, EmptyMap, PlanTyped
<1>4. /\ map' = [map EXCEPT !["city"] = Plan("city", <<>>).map]
      /\ rows' = [rows EXCEPT !["city"] = Plan("city", <<>>).insert]
      /\ pc' = "users" /\ UNCHANGED <<source, table, mode, known, deaths, past>>
  BY DEF PlanCities
<1>5. map' \in [People -> Map] /\ rows' \in [Table -> Seq(Row)]
  BY <1>2, <1>3, <1>4 DEF PlanType, ImportTypes
<1>6. \A t \in Table : \A i \in DOMAIN rows'[t] : rows'[t][i].by = mode'
  <2>1. rows'["city"] = Plan("city", <<>>).insert /\ \A t \in Table : t # "city" => rows'[t] = rows[t]
    BY <1>2, <1>4 DEF ImportTypes
  <2>. QED
    BY <1>3, <1>4, <2>1 DEF ByMode, ImportTypes
<1>. QED
  BY <1>1, <1>4, <1>5, <1>6 DEF ImportTypes, past

(* The rows of every table, once users are planned.                        *)
LEMMA PlannedRows ==
  ASSUME ImportTypes, PlanUsers
  PROVE  /\ mode = "copy" => rows' = [t \in Table |-> Copies(t)] /\ map' = map
         /\ mode # "copy" =>
              /\ rows'["city"] = rows["city"]
              /\ rows'["user"] = Plan("user", map["city"]).insert
              /\ \A t \in Table : t \notin People =>
                   rows'[t] = Candidates(t, Plan("user", map["city"]).map)
              /\ map'["user"] = Plan("user", map["city"]).map
              /\ map'["city"] = map["city"] /\ DOMAIN map' = People
              /\ rows' = [t \in Table |-> rows'[t]]
         /\ pc = "users" /\ pc' = "insert" /\ mode \in Modes
         /\ UNCHANGED <<source, table, mode, known, deaths, past>>
<1>1. "user" \in Table /\ "city" \in Table /\ "user" \in People /\ "city" \in People
  BY Tables DEF People
<1>2. mode \in Modes
  BY DEF PlanUsers, ImportTypes
<1>3. mode = "copy" => rows' = [t \in Table |-> Copies(t)] /\ map' = map
  BY DEF PlanUsers
<1>. DEFINE plan == Plan("user", map["city"])
<1>4. ASSUME mode # "copy"
      PROVE  /\ map' = [map EXCEPT !["user"] = plan.map]
             /\ rows' = [t \in Table |->
                  CASE t = "city" -> rows["city"]
                    [] t = "user" -> plan.insert
                    [] OTHER -> Candidates(t, plan.map)]
  BY <1>4 DEF PlanUsers
<1>. HIDE DEF plan
<1>5. ASSUME mode # "copy"
      PROVE  /\ rows'["city"] = rows["city"] /\ rows'["user"] = plan.insert
             /\ \A t \in Table : t \notin People => rows'[t] = Candidates(t, plan.map)
             /\ rows' = [t \in Table |-> rows'[t]]
  BY <1>1, <1>4, <1>5 DEF People
<1>6. ASSUME mode # "copy"
      PROVE  map'["user"] = plan.map /\ map'["city"] = map["city"] /\ DOMAIN map' = People
  BY <1>1, <1>4, <1>6 DEF ImportTypes
<1>7. pc = "users" /\ pc' = "insert" /\ UNCHANGED <<source, table, mode, known, deaths, past>>
  BY DEF PlanUsers
<1>. QED
  BY <1>2, <1>3, <1>5, <1>6, <1>7 DEF plan

LEMMA PlanUsersTypes ==
  ASSUME ImportTypes, PlanUsers
  PROVE  ImportTypes'
<1>1. mode \in Modes /\ pc' = "insert" /\ UNCHANGED <<source, table, mode, known, deaths, past>>
  BY PlannedRows
<1>2. "user" \in Table /\ "city" \in Table /\ "user" \in People /\ "city" \in People
      /\ People = {"city", "user"}
  BY Tables DEF People
<1>. DEFINE plan == Plan("user", map["city"])
<1>3. map["city"] \in Map
  BY <1>2 DEF ImportTypes
<1>4. plan \in PlanType /\ ByMode(plan.insert)
  BY <1>1, <1>2, <1>3, PlanTyped
<1>5. plan.map \in Map /\ plan.insert \in Seq(Row)
  BY <1>4 DEF PlanType
<1>6. \A t \in Table : /\ Copies(t) \in Seq(Row) /\ ByMode(Copies(t))
                       /\ Candidates(t, plan.map) \in Seq(Row) /\ ByMode(Candidates(t, plan.map))
  BY <1>1, <1>5, CopiesFit, CandidatesFit
<1>7. rows["city"] \in Seq(Row) /\ ByMode(rows["city"])
  BY <1>2 DEF ImportTypes, ByMode
<1>8. CASE mode = "copy"
  <2>1. rows' = [t \in Table |-> Copies(t)] /\ map' = map
    BY <1>8, PlannedRows
  <2>2. rows' \in [Table -> Seq(Row)]
    BY <1>6, <2>1
  <2>3. \A t \in Table : \A i \in DOMAIN rows'[t] : rows'[t][i].by = mode'
    BY <1>1, <1>6, <2>1 DEF ByMode
  <2>. QED
    BY <1>1, <2>1, <2>2, <2>3 DEF ImportTypes, past
<1>9. CASE mode # "copy"
  <2>1. /\ rows'["city"] = rows["city"] /\ rows'["user"] = plan.insert
        /\ \A t \in Table : t \notin People => rows'[t] = Candidates(t, plan.map)
        /\ rows' = [t \in Table |-> rows'[t]]
        /\ map'["user"] = plan.map /\ map'["city"] = map["city"] /\ DOMAIN map' = People
    BY <1>9, PlannedRows
  <2>. HIDE DEF plan
  <2>2. \A t \in Table : rows'[t] \in Seq(Row) /\ ByMode(rows'[t])
    BY <1>2, <1>4, <1>5, <1>6, <1>7, <2>1
  <2>3. rows' \in [Table -> Seq(Row)]
    BY <2>1, <2>2
  <2>4. \A t \in Table : \A i \in DOMAIN rows'[t] : rows'[t][i].by = mode'
    BY <1>1, <2>2 DEF ByMode
  <2>5. pc' # "idle" /\ mode' \in Modes
    BY <1>1
  <2>6. map' \in [People -> Map]
    <3>1. map' = [map EXCEPT !["user"] = plan.map]
      BY <1>9 DEF PlanUsers, plan
    <3>. QED
      BY <1>5, <3>1 DEF ImportTypes
  <2>. QED
    BY <1>1, <2>3, <2>4, <2>5, <2>6 DEF ImportTypes, past
<1>. QED
  BY <1>8, <1>9

(* What a statement does to its table.                                     *)
LEMMA InsertSteps ==
  ASSUME ImportTypes, NEW t \in Table, InsertBatch(t)
  PROVE  /\ pc = "insert" /\ mode \in Modes
         /\ table'[t] = IF mode = "merge" THEN InsertDoNothing(t, table[t], Batch(t))
                        ELSE Upsert(table[t], Batch(t))
         /\ mode # "merge" => ~ Refused(t, Batch(t))
         /\ rows'[t] = Rest(t)
         /\ \A u \in Table : u # t => table'[u] = table[u] /\ rows'[u] = rows[u]
         /\ DOMAIN table' = Table /\ DOMAIN rows' = Table
         /\ UNCHANGED <<source, pc, mode, known, map, deaths, past>>
<1>1. DOMAIN table = Table /\ DOMAIN rows = Table
  BY DEF ImportTypes
<1>2. pc = "insert" /\ mode \in Modes
  BY DEF InsertBatch, Ready, ImportTypes
<1>. QED
  BY <1>1, <1>2 DEF InsertBatch, Rest

LEMMA InsertTypes ==
  ASSUME ImportTypes, NEW t \in Table, InsertBatch(t)
  PROVE  ImportTypes'
<1>1. Batch(t) \in Seq(Row) /\ Rest(t) \in Seq(Row) /\ ByMode(Rest(t))
  BY BatchFits
<1>2. table[t] \in SUBSET Row /\ UniqueIds(table[t])
  BY DEF ImportTypes
<1>3. mode = "merge" => table'[t] \in SUBSET Row /\ UniqueIds(table'[t])
  <2>1. InsertedSoFar(t, table[t], Batch(t), Len(Batch(t)), InsertDoNothing(t, table[t], Batch(t)))
    BY <1>1, <1>2, InsertFacts
  <2>2. InsertDoNothing(t, table[t], Batch(t)) \in SUBSET Row
        /\ UniqueIds(InsertDoNothing(t, table[t], Batch(t)))
    BY <1>1, <1>2, <2>1 DEF InsertedSoFar
  <2>. QED
    BY <2>2, InsertSteps
<1>4. mode # "merge" => table'[t] \in SUBSET Row /\ UniqueIds(table'[t])
  BY UpsertFits, InsertSteps
<1>5. table' = [u \in Table |-> table'[u]] /\ rows' = [u \in Table |-> rows'[u]]
  BY DEF InsertBatch, ImportTypes
<1>6. \A u \in Table : table'[u] \in SUBSET Row /\ UniqueIds(table'[u]) /\ rows'[u] \in Seq(Row)
  BY <1>1, <1>3, <1>4, InsertSteps DEF ImportTypes
<1>7. table' \in [Table -> SUBSET Row] /\ rows' \in [Table -> Seq(Row)]
  BY <1>5, <1>6
<1>8. \A u \in Table : \A i \in DOMAIN rows'[u] : rows'[u][i].by = mode'
  BY <1>1, InsertSteps DEF ByMode, ImportTypes
<1>9. UNCHANGED <<source, pc, mode, known, map, deaths, past>> /\ pc = "insert" /\ mode \in Modes
  BY InsertSteps
<1>. QED
  BY <1>6, <1>7, <1>8, <1>9 DEF ImportTypes, past

(* What the application adds does not meet what is there.                  *)
Added(w, t) == IF w.table = t THEN {w.row} ELSE {}

LEMMA AppSteps ==
  ASSUME ImportTypes, AppAdds
  PROVE  \E w \in AppWrites :
           /\ \A t \in Table : table'[t] = table[t] \cup Added(w, t)
           /\ \A t \in Table : Added(w, t) \subseteq Row /\ UniqueIds(table'[t])
           /\ \A t \in Table : \A r \in Added(w, t) :
                r.by = "app" /\ \A q \in table[t] : ~ Clash(t, q, r)
           /\ raced' = (raced \/ (pc \in {"users", "insert"} /\ w.table \in People))
           /\ table' = [t \in Table |-> table'[t]]
<1>1. PICK w \in AppWrites :
         /\ \A q \in table[w.table] : ~ Clash(w.table, q, w.row)
         /\ table' = [table EXCEPT ![w.table] = @ \cup {w.row}]
         /\ raced' = (raced \/ (pc \in {"users", "insert"} /\ w.table \in People))
  BY DEF AppAdds
<1>2. w.table \in Table /\ w.row \in Row /\ w.row.by = "app"
  BY WrittenFits DEF Written
<1>3. table \in [Table -> SUBSET Row]
  BY DEF ImportTypes
<1>4. \A t \in Table : table'[t] = table[t] \cup Added(w, t)
  BY <1>1, <1>2, <1>3 DEF Added
<1>5. \A t \in Table : \A r \in Added(w, t) :
        r \in Row /\ r.by = "app" /\ \A q \in table[t] : ~ Clash(t, q, r)
  BY <1>1, <1>2 DEF Added
<1>6. \A t \in Table : \A q, r \in Added(w, t) : q = r
  BY DEF Added
<1>7. \A t \in Table : UniqueIds(table'[t])
  BY <1>4, <1>5, <1>6 DEF ImportTypes, UniqueIds, Clash
<1>8. table' = [t \in Table |-> table'[t]]
  BY <1>1, <1>3
<1>9. \A t \in Table : Added(w, t) \subseteq Row
  BY <1>5
<1>. QED
  BY <1>1, <1>4, <1>5, <1>7, <1>8, <1>9

LEMMA AppAddsTypes ==
  ASSUME ImportTypes, AppAdds
  PROVE  ImportTypes'
<1>1. /\ table' = [t \in Table |-> table'[t]]
      /\ \A t \in Table : table'[t] \in SUBSET Row /\ UniqueIds(table'[t])
  BY AppSteps DEF ImportTypes
<1>2. raced' \in BOOLEAN /\ quiet' \in BOOLEAN /\ settled' \in BOOLEAN
  BY DEF AppAdds
<1>3. table' \in [Table -> SUBSET Row]
  BY <1>1
<1>4. UNCHANGED <<source, run, deaths>>
  BY DEF AppAdds
<1>. QED
  BY <1>1, <1>2, <1>3, <1>4 DEF ImportTypes, run

LEMMA TypesKept == ImportTypes /\ [Next]_vars => ImportTypes'
<1>. SUFFICES ASSUME ImportTypes, [Next]_vars PROVE ImportTypes'
  OBVIOUS
<1>1. CASE \E m \in Modes : Start(m)
  BY <1>1, StartTypes
<1>2. CASE PlanCities
  BY <1>2, PlanCitiesTypes
<1>3. CASE PlanUsers
  BY <1>3, PlanUsersTypes
<1>4. CASE \E t \in Table : InsertBatch(t)
  BY <1>4, InsertTypes
<1>5. CASE Complete \/ Fail
  BY <1>5, LeaveTypes DEF Complete, Fail, past, ImportTypes
<1>6. CASE Die
  <2>1. deaths' \in 0..MaxDeaths
    BY <1>6, ImportAssumption DEF Die, ImportTypes
  <2>. QED
    BY <1>6, <2>1, LeaveTypes DEF Die, past, ImportTypes
<1>7. CASE AppAdds
  BY <1>7, AppAddsTypes
<1>8. CASE UNCHANGED vars
  BY <1>8 DEF vars, run, past, ImportTypes
<1>. QED
  BY <1>1, <1>2, <1>3, <1>4, <1>5, <1>6, <1>7, <1>8 DEF Next, RunGoesOn

(* Whatever the source and the application hold, tables keep their types   *)
(* and one row per id, and a run what it works with.                       *)
THEOREM ImportTypeCorrect == Spec => []TypeOK
<1>1. Spec => []ImportTypes
  BY InitTypes, TypesKept, PTL DEF Spec
<1>. QED
  BY <1>1, TypesSuffice, PTL

-----------------------------------------------------------------------------
(* The copy is not refused.                                                *)

LEMMA CopiesDiffer ==
  ASSUME ImportTypes, mode \in Modes, MongoKeepsIds, Preflight, NEW t \in Table
  PROVE  /\ \A i \in 1..Len(Copies(t)) : CopyOf(t, Copies(t)[i])
         /\ t # "record" =>
              \A i, j \in 1..Len(Copies(t)) : i # j => ~ Clash(t, Copies(t)[i], Copies(t)[j])
<1>. DEFINE docs == Only(source[t], Copied(t))
            n == Len(Copies(t))
            src == source[t]
<1>1. /\ n = Len(docs) /\ docs \in Seq(Document)
      /\ \A i \in 1..n : Copies(t)[i].id = CopyId(t, docs[i]) /\ Copies(t)[i].key = docs[i].key
  BY CopiesFit
<1>2. PICK at : IsPlaced(at, docs, src, Len(src), Copied(t))
  BY SourceFits, OnlyIsPlaced DEF ImportTypes
<1>3. DOMAIN src = 1..Len(src) /\ source \in Sources
  BY SourceFits DEF ImportTypes
<1>. HIDE DEF docs, n, src
<1>4. /\ \A i \in 1..n : /\ at[i] \in DOMAIN src
                         /\ Copies(t)[i].id = CopyId(t, src[at[i]])
                         /\ Copies(t)[i].key = src[at[i]].key
                         /\ src[at[i]] \in Copied(t)
      /\ \A i, j \in 1..n : i # j => at[i] # at[j]
  BY <1>1, <1>2, <1>3 DEF IsPlaced
<1>5. \A i \in 1..n : CopyOf(t, Copies(t)[i])
  BY <1>4 DEF CopyOf, Copied
<1>6. ASSUME NEW i \in 1..n, NEW j \in 1..n, i # j, t # "record"
      PROVE  ~ Clash(t, Copies(t)[i], Copies(t)[j])
  <2>1. at[i] \in DOMAIN src /\ at[j] \in DOMAIN src /\ at[i] # at[j]
    BY <1>4, <1>6
  <2>2. CopyId(t, src[at[i]]) # None /\ CopyId(t, src[at[j]]) # None
    BY <1>4 DEF Copied
  <2>3. CASE t = "city"
    <3>1. CopyId(t, src[at[i]]) # CopyId(t, src[at[j]])
      BY <1>3, <2>1, <2>2, <2>3 DEF MongoKeepsIds, src
    <3>. QED
      BY <1>4, <2>3, <3>1 DEF Clash
  <2>4. CASE t = "user"
    <3>1. src[at[i]].id # src[at[j]].id
      BY <1>3, <2>1, <2>2, <2>4 DEF MongoKeepsIds, src, CopyId
    <3>2. src[at[i]].key # None => src[at[i]].key # src[at[j]].key
      BY <2>1, <2>4 DEF Preflight, UsersOnly, Twice, src
    <3>. QED
      BY <1>4, <2>4, <3>1, <3>2 DEF Clash, CopyId
  <2>5. CASE t \in {"delivery", "link"}
    <3>1. src[at[i]].id # src[at[j]].id
      BY <2>1, <2>2, <2>5 DEF Preflight, Twice, src, CopyId
    <3>2. src[at[i]].key # None => src[at[i]].key # src[at[j]].key
      BY <2>1, <2>5 DEF Preflight, Twice, src
    <3>. QED
      BY <1>4, <2>5, <3>1, <3>2 DEF Clash, CopyId
  <2>. QED
    BY <1>6, <2>3, <2>4, <2>5, Tables
<1>. QED
  BY <1>5, <1>6 DEF n

LEMMA CopyStarts == Init => CopyInv
<1>. SUFFICES ASSUME Init PROVE CopyInv
  OBVIOUS
<1>1. PICK s \in Existing : table = [t \in Table |-> {w.row : w \in {v \in s : v.table = t}}]
  BY DEF Init
<1>2. \A w \in s : w.row.by = "app"
  BY WrittenFits DEF Written
<1>3. \A t \in Table : \A r \in table[t] : r.by = "app"
  BY <1>1, <1>2
<1>4. ImportTypes /\ pc = "idle"
  BY InitTypes DEF Init
<1>. QED
  BY <1>3, <1>4 DEF CopyInv

LEMMA CopyInsert ==
  ASSUME CopyInv, NEW t \in Table, InsertBatch(t), ImportTypes'
  PROVE  CopyInv'
<1>1. ImportTypes
  BY DEF CopyInv
<1>2. /\ pc = "insert" /\ rows'[t] = Rest(t) /\ UNCHANGED <<source, pc, mode>>
      /\ \A u \in Table : u # t => table'[u] = table[u] /\ rows'[u] = rows[u]
  BY <1>1, InsertSteps
<1>3. \A i \in DOMAIN Batch(t) : Batch(t)[i] \in Range(rows[t]) /\ Batch(t)[i].by = mode
  <2>1. /\ Batch(t) \in Seq(Row) /\ ByMode(Batch(t)) /\ rows[t] \in Seq(Row)
        /\ \A i \in 1..Len(Batch(t)) : i \in 1..Len(rows[t]) /\ Batch(t)[i] = rows[t][i]
    BY <1>1, BatchFits DEF ImportTypes
  <2>2. DOMAIN Batch(t) = 1..Len(Batch(t)) /\ DOMAIN rows[t] = 1..Len(rows[t])
    BY <2>1
  <2>. QED
    BY <2>1, <2>2 DEF ByMode, Range
<1>4. \A r \in table'[t] : r \in table[t] \/ (r \in Range(rows[t]) /\ r.by = mode)
  <2>1. CASE mode = "merge"
    <3>1. InsertedSoFar(t, table[t], Batch(t), Len(Batch(t)), table'[t])
      BY <1>1, <2>1, BatchFits, InsertFacts, InsertSteps DEF ImportTypes
    <3>2. DOMAIN Batch(t) = 1..Len(Batch(t))
      BY <1>1, BatchFits
    <3>. QED
      BY <1>3, <3>1, <3>2 DEF InsertedSoFar
  <2>2. CASE mode # "merge"
    <3>1. table'[t] = Upsert(table[t], Batch(t))
      BY <1>1, <2>2, InsertSteps
    <3>. QED
      BY <1>3, <3>1 DEF Upsert, Range
  <2>. QED
    BY <2>1, <2>2
<1>6. \A u \in Table : \A r : CopyOf(u, r) => CopyOf(u, r)'
  BY <1>2 DEF CopyOf
<1>7. \A u \in Table : \A r \in table'[u] : r.by = "copy" => CopyOf(u, r)'
  <2>1. ASSUME NEW r \in table'[t], r.by = "copy" PROVE CopyOf(t, r)
    BY <1>2, <1>4, <2>1 DEF CopyInv, CopiesLeft, Range
  <2>. QED
    BY <1>2, <1>6, <2>1 DEF CopyInv
<1>8. ASSUME mode = "copy"
      PROVE  Preflight' /\ \A u \in Table : CopiesLeft(u)'
  <2>1. Preflight'
    BY <1>2, <1>8 DEF CopyInv, Preflight, UsersOnly, Twice
  <2>2. /\ Rest(t) \in Seq(Row) /\ DOMAIN Rest(t) = 1..Len(Rest(t))
        /\ Len(Batch(t)) \in Nat /\ DOMAIN rows[t] = 1..Len(rows[t])
        /\ \A i \in 1..Len(Rest(t)) :
             /\ Len(Batch(t)) + i \in 1..Len(rows[t])
             /\ Rest(t)[i] = rows[t][Len(Batch(t)) + i]
    BY <1>1, BatchFits DEF ImportTypes
  <2>3. \A u \in Table : CopiesLeft(u)
    BY <1>2, <1>8 DEF CopyInv
  <2>4. \A i \in DOMAIN rows'[t] : CopyOf(t, rows'[t][i])
    BY <1>2, <2>2, <2>3 DEF CopiesLeft
  <2>5. t # "record" => \A i, j \in DOMAIN rows'[t] : i # j => ~ Clash(t, rows'[t][i], rows'[t][j])
    <3>1. \A i, j \in 1..Len(Rest(t)) : i # j => Len(Batch(t)) + i # Len(Batch(t)) + j
      BY <2>2
    <3>2. t # "record" => \A i, j \in DOMAIN rows[t] : i # j => ~ Clash(t, rows[t][i], rows[t][j])
      BY <2>3 DEF CopiesLeft
    <3>3. \A i \in DOMAIN rows'[t] :
            /\ i \in 1..Len(Rest(t)) /\ Len(Batch(t)) + i \in DOMAIN rows[t]
            /\ rows'[t][i] = rows[t][Len(Batch(t)) + i]
      BY <1>2, <2>2
    <3>. HIDE <1>1, <1>2
    <3>. QED
      BY <3>1, <3>2, <3>3
  <2>6. CopiesLeft(t)'
    BY <1>2, <2>4, <2>5 DEF CopiesLeft, CopyOf
  <2>7. \A u \in Table : u # t => CopiesLeft(u)'
    BY <1>2, <2>3 DEF CopiesLeft, CopyOf
  <2>. QED
    BY <2>1, <2>6, <2>7
<1>. QED
  BY <1>2, <1>7, <1>8 DEF CopyInv

LEMMA CopyKept ==
  ASSUME MongoKeepsIds, CopyInv, [Next]_vars
  PROVE  CopyInv'
<1>1. ImportTypes /\ ImportTypes'
  BY TypesKept DEF CopyInv
<1>2. CASE \E m \in Modes : Start(m)
  <2>1. PICK m \in Modes : Start(m)
    BY <1>2
  <2>2. m = "copy" => Preflight'
    BY <2>1 DEF Start, Preflight, UsersOnly, Twice
  <2>3. \A t \in Table : DOMAIN rows'[t] = {}
    BY <1>1, <2>1, NothingPlanned DEF Start, ImportTypes
  <2>4. \A t \in Table : \A r \in table'[t] : r.by = "copy" => CopyOf(t, r)'
    BY <2>1 DEF Start, CopyInv, CopyOf
  <2>. QED
    BY <1>1, <2>1, <2>2, <2>3, <2>4 DEF Start, CopyInv, CopiesLeft
<1>3. CASE PlanCities
  <2>1. UNCHANGED <<source, table, mode>> /\ pc = "cities"
    BY <1>3 DEF PlanCities
  <2>2. \A t \in Table : \A r \in table'[t] : r.by = "copy" => CopyOf(t, r)'
    BY <2>1 DEF CopyInv, CopyOf
  <2>3. mode # "copy"
    BY <2>1 DEF CopyInv
  <2>. QED
    BY <1>1, <2>1, <2>2, <2>3 DEF CopyInv
<1>4. CASE PlanUsers
  <2>1. /\ UNCHANGED <<source, table, mode>> /\ pc = "users" /\ pc' = "insert" /\ mode \in Modes
        /\ mode = "copy" => rows' = [t \in Table |-> Copies(t)]
    BY <1>1, <1>4, PlannedRows
  <2>2. \A t \in Table : \A r \in table'[t] : r.by = "copy" => CopyOf(t, r)'
    BY <2>1 DEF CopyInv, CopyOf
  <2>3. ASSUME mode = "copy"
        PROVE  Preflight' /\ \A t \in Table : CopiesLeft(t)'
    <3>1. Preflight
      BY <2>1, <2>3 DEF CopyInv
    <3>2. Preflight'
      BY <2>1, <3>1 DEF Preflight, UsersOnly, Twice
    <3>3. \A t \in Table : rows'[t] = Copies(t) /\ DOMAIN rows'[t] = 1..Len(Copies(t))
      BY <1>1, <2>1, <2>3, CopiesFit
    <3>4. \A t \in Table : \A i \in DOMAIN rows'[t] : CopyOf(t, rows'[t][i])
      BY <1>1, <2>1, <3>1, <3>3, CopiesDiffer
    <3>5. \A t \in Table \ {"record"} : \A i, j \in DOMAIN rows'[t] :
            i # j => ~ Clash(t, rows'[t][i], rows'[t][j])
      BY <1>1, <2>1, <3>1, <3>3, CopiesDiffer
    <3>. QED
      BY <2>1, <3>2, <3>4, <3>5 DEF CopiesLeft, CopyOf
  <2>. QED
    BY <1>1, <2>1, <2>2, <2>3 DEF CopyInv
<1>5. CASE \E t \in Table : InsertBatch(t)
  BY <1>1, <1>5, CopyInsert
<1>6. CASE Complete \/ Fail \/ Die
  <2>1. UNCHANGED <<source, table>> /\ pc' = "idle"
    BY <1>6 DEF Complete, Fail, Die, Leave
  <2>2. \A t \in Table : \A r \in table'[t] : r.by = "copy" => CopyOf(t, r)'
    BY <2>1 DEF CopyInv, CopyOf
  <2>. QED
    BY <1>1, <2>1, <2>2 DEF CopyInv
<1>7. CASE AppAdds
  <2>1. UNCHANGED <<source, pc, mode, rows>>
    BY <1>7 DEF AppAdds, run
  <2>2. \A t \in Table : \A r \in table'[t] : r \in table[t] \/ r.by = "app"
    BY <1>1, <1>7, AppSteps
  <2>3. \A t \in Table : \A r : CopyOf(t, r) => CopyOf(t, r)'
    BY <2>1 DEF CopyOf
  <2>4. \A t \in Table : \A r \in table'[t] : r.by = "copy" => CopyOf(t, r)'
    BY <2>2, <2>3 DEF CopyInv
  <2>5. Preflight => Preflight'
    BY <2>1 DEF Preflight, UsersOnly, Twice
  <2>. QED
    BY <1>1, <2>1, <2>3, <2>4, <2>5 DEF CopyInv, CopiesLeft
<1>8. CASE UNCHANGED vars
  BY <1>1, <1>8 DEF CopyInv, CopiesLeft, CopyOf, Preflight, UsersOnly, Twice, vars, run
<1>. QED
  BY <1>2, <1>3, <1>4, <1>5, <1>6, <1>7, <1>8 DEF Next, RunGoesOn

LEMMA CopyPasses ==
  ASSUME CopyInv
  PROVE  PreflightSuffices
<1>. SUFFICES ASSUME NEW t \in Table, t # "record", mode = "copy", Ready(t),
                     \A s \in Table : \A q \in table[s] : q.by = "copy",
                     Refused(t, Batch(t))
              PROVE  FALSE
  BY DEF PreflightSuffices
<1>. DEFINE b == Batch(t)
<1>1. /\ Preflight
      /\ \A i \in DOMAIN rows[t] : CopyOf(t, rows[t][i])
      /\ \A i, j \in DOMAIN rows[t] : i # j => ~ Clash(t, rows[t][i], rows[t][j])
  BY DEF Ready, CopyInv, CopiesLeft
<1>2. \A i \in DOMAIN b : i \in DOMAIN rows[t] /\ b[i] = rows[t][i]
  <2>1. b \in Seq(Row) /\ rows[t] \in Seq(Row)
        /\ \A i \in 1..Len(b) : i \in 1..Len(rows[t]) /\ b[i] = rows[t][i]
    BY BatchFits DEF ImportTypes, CopyInv
  <2>. QED
    BY <2>1
<1>. HIDE DEF b
<1>3. \A i, j \in DOMAIN b : j # i => ~ Clash(t, b[i], b[j])
  BY <1>1, <1>2
<1>4. ASSUME NEW i \in DOMAIN b, NEW q \in table[t], Clash(t, q, b[i]), q.id # b[i].id
      PROVE  FALSE
  <2>1. t \in {"user", "delivery"} /\ q.key # None /\ q.key = b[i].key
    BY <1>4 DEF Clash
  <2>2. CopyOf(t, q) /\ CopyOf(t, b[i])
    BY <1>1, <1>2 DEF CopyInv
  <2>3. PICK d \in Range(source[t]), e \in Range(source[t]) :
          /\ q.id = CopyId(t, d) /\ q.key = d.key
          /\ b[i].id = CopyId(t, e) /\ b[i].key = e.key
    BY <2>2 DEF CopyOf
  <2>4. PICK x \in DOMAIN source[t], y \in DOMAIN source[t] : d = source[t][x] /\ e = source[t][y]
    BY <2>3 DEF Range
  <2>5. x # y
    BY <1>4, <2>3, <2>4
  <2>6. Twice(t, "key")
    BY <2>1, <2>3, <2>4, <2>5 DEF Twice
  <2>. QED
    BY <1>1, <2>1, <2>6 DEF Preflight, UsersOnly
<1>. QED
  BY <1>3, <1>4 DEF Refused, b

(* Where MongoDB kept its ids unique, what the preflight checked is        *)
(* enough: whatever dies and is started again, and whatever the batches,   *)
(* no statement of the copy is refused, but for events, logs and credits.  *)
THEOREM CopyGoesThrough == ASSUME MongoKeepsIds PROVE Spec => []PreflightSuffices
<1>1. CopyInv /\ [Next]_vars => CopyInv'
  BY CopyKept
<1>2. Spec => []CopyInv
  BY <1>1, CopyStarts, PTL DEF Spec
<1>. QED
  BY <1>2, CopyPasses, PTL

-----------------------------------------------------------------------------
(* The merge recovers everything, and a second merge nothing.              *)

LEMMA PeopleAreTables == People \subseteq Table /\ "city" \in People /\ "user" \in People
BY Tables DEF People

(* Appending one more row.                                                 *)
LEMMA RowAppended ==
  ASSUME NEW s \in Seq(Row), NEW r \in Row
  PROVE  /\ Range(Append(s, r)) = Range(s) \cup {r}
         /\ DOMAIN Append(s, r) = 1..(Len(s) + 1) /\ DOMAIN s = 1..Len(s) /\ Len(s) \in Nat
         /\ \A i \in DOMAIN Append(s, r) : i # Len(s) + 1 => i \in DOMAIN s /\ Append(s, r)[i] = s[i]
         /\ Append(s, r)[Len(s) + 1] = r
<1>. DEFINE a == Append(s, r)
            n == Len(s)
<1>1. n \in Nat /\ DOMAIN s = 1..n /\ DOMAIN a = 1..(n + 1) /\ a[n + 1] = r
  OBVIOUS
<1>2. \A i \in 1..n : a[i] = s[i]
  OBVIOUS
<1>. HIDE DEF a, n
<1>3. \A i \in 1..(n + 1) : i # n + 1 => i \in 1..n
  BY <1>1
<1>4. \A i \in 1..n : i \in 1..(n + 1)
  BY <1>1
<1>5. n + 1 \in 1..(n + 1)
  BY <1>1
<1>6. Range(a) = Range(s) \cup {r}
  BY <1>1, <1>2, <1>3, <1>4, <1>5 DEF Range
<1>. QED
  BY <1>1, <1>2, <1>3, <1>6 DEF a, n

PlanSoFar(t, plan, k) ==
  /\ plan.seen = table[t] \cup Range(plan.insert)
  /\ \A i \in 1..k : source[t][i].valid => \E r \in plan.seen : Holds(t, r, source[t][i])
  /\ \A i \in DOMAIN plan.insert : \A q \in table[t] : ~ Clash(t, q, plan.insert[i])
  /\ \A i, j \in DOMAIN plan.insert : i # j => ~ Clash(t, plan.insert[i], plan.insert[j])
  /\ Recovered(t) => plan.insert = <<>>

LEMMA OneMorePlanned ==
  ASSUME ImportTypes, mode = "merge", mode \in Modes, NEW t \in People, NEW plan \in PlanType,
         NEW k \in 0..Len(source[t]), k # Len(source[t]), PlanSoFar(t, plan, k)
  PROVE  PlanSoFar(t, Merge(plan, source[t][k + 1]), k + 1)
<1>. DEFINE d == source[t][k + 1]
            next == Merge(plan, d)
            new == NewRow(plan, d)
<1>0. t \in Table
  BY PeopleAreTables
<1>1. k + 1 \in 1..Len(source[t]) /\ d \in Document /\ d \in Range(source[t])
      /\ \A i \in 1..(k + 1) : i \in 1..k \/ i = k + 1
  <2>1. k + 1 \in 1..Len(source[t]) /\ \A i \in 1..(k + 1) : i \in 1..k \/ i = k + 1
    BY <1>0, SourceFits DEF ImportTypes
  <2>. QED
    BY <1>0, <2>1, SourceFits DEF ImportTypes
<1>2. /\ plan.seen = table[t] \cup Range(plan.insert)
      /\ \A i \in 1..k : source[t][i].valid => \E r \in plan.seen : Holds(t, r, source[t][i])
      /\ \A i \in DOMAIN plan.insert : \A q \in table[t] : ~ Clash(t, q, plan.insert[i])
      /\ \A i, j \in DOMAIN plan.insert : i # j => ~ Clash(t, plan.insert[i], plan.insert[j])
      /\ Recovered(t) => plan.insert = <<>>
  BY DEF PlanSoFar
<1>3. plan.insert \in Seq(Row) /\ plan.cities \in Map
  BY DEF PlanType
<1>. HIDE DEF d
<1>4. CASE ~ d.valid
  <2>1. next = plan
    BY <1>1, <1>4, MergeSteps
  <2>. QED
    BY <1>1, <1>2, <1>4, <2>1 DEF PlanSoFar, d
<1>5. CASE d.valid /\ Same(plan.seen, d) # {}
  <2>1. next.seen = plan.seen /\ next.insert = plan.insert
    BY <1>1, <1>5, MergeSteps
  <2>2. \E r \in plan.seen : Holds(t, r, d)
    BY <1>5 DEF Same, Holds
  <2>. HIDE DEF next
  <2>3. PlanSoFar(t, next, k + 1)
    BY <1>1, <1>2, <2>1, <2>2 DEF PlanSoFar, d
  <2>. QED
    BY <2>3 DEF next, d
<1>6. CASE d.valid /\ Same(plan.seen, d) = {}
  <2>1. next.seen = plan.seen \cup {new} /\ next.insert = Append(plan.insert, new)
    BY <1>1, <1>6, MergeSteps
  <2>2. SourceId(d) \in Ident /\ SourceId(d) \in Aliases(d) /\ d.owner \in Owner
    BY <1>1, <1>6, DocumentFits
  <2>3. new \in Row /\ new.id = SourceId(d) /\ new.key = d.key
    BY <1>1, <1>3, <2>2, MappedFits, RowFits DEF NewRow
  <2>. HIDE DEF next, new
  <2>4. \A q \in plan.seen : q.id # new.id /\ q.id \notin Aliases(d) /\ q.key.name # d.key.name
    BY <1>6, <2>2, <2>3 DEF Same
  <2>5. \A q \in plan.seen : ~ Clash(t, q, new) /\ ~ Clash(t, new, q)
    BY <2>3, <2>4 DEF Clash
  <2>6. Holds(t, new, d)
    BY <2>2, <2>3 DEF Holds
  <2>7. /\ Range(next.insert) = Range(plan.insert) \cup {new}
        /\ \A i \in DOMAIN next.insert :
             \/ i \in DOMAIN plan.insert /\ next.insert[i] = plan.insert[i]
             \/ i = Len(plan.insert) + 1 /\ next.insert[i] = new
    BY <1>3, <2>1, <2>3, RowAppended
  <2>8. next.seen = table[t] \cup Range(next.insert)
    BY <1>2, <2>1, <2>7
  <2>9. \A i \in 1..(k + 1) : source[t][i].valid => \E r \in next.seen : Holds(t, r, source[t][i])
    BY <1>1, <1>2, <2>1, <2>6 DEF d
  <2>10. \A i \in DOMAIN next.insert : \A q \in table[t] : ~ Clash(t, q, next.insert[i])
    BY <1>2, <2>5, <2>7
  <2>11. \A i \in DOMAIN plan.insert : plan.insert[i] \in plan.seen
    BY <1>2 DEF Range
  <2>12. \A i, j \in DOMAIN next.insert : i # j => ~ Clash(t, next.insert[i], next.insert[j])
    BY <1>2, <2>5, <2>7, <2>11
  <2>13. ~ Recovered(t)
    <3>1. \A r \in table[t] : ~ Holds(t, r, d)
      BY <1>2, <2>4 DEF Holds
    <3>. QED
      BY <1>1, <1>6, <3>1 DEF Recovered
  <2>14. PlanSoFar(t, next, k + 1)
    BY <2>8, <2>9, <2>10, <2>12, <2>13 DEF PlanSoFar
  <2>. QED
    BY <2>14 DEF next, d
<1>. QED
  BY <1>4, <1>5, <1>6

LEMMA PlanCovers ==
  ASSUME ImportTypes, mode = "merge", mode \in Modes, NEW t \in People, NEW cities \in Map
  PROVE  PlanSoFar(t, Plan(t, cities), Len(source[t]))
<1>. DEFINE n == Len(source[t])
<1>1. t \in Table
  BY PeopleAreTables
<1>2. PICK f : Plans(f, t, cities)
  BY <1>1, PlanByPrefix
<1>3. n \in Nat
  BY <1>1, SourceFits DEF ImportTypes
<1>4. /\ f \in [0..n -> PlanType] /\ f[0] = StartPlan(t, cities) /\ f[n] = Plan(t, cities)
      /\ \A k \in 1..n : f[k] = Merge(f[k - 1], source[t][k])
  BY <1>2 DEF Plans
<1>. DEFINE G == {k \in 0..n : PlanSoFar(t, f[k], k)}
<1>5. 0 \in G
  <2>1. f[0].insert = <<>> /\ f[0].seen = table[t] /\ 0 \in 0..n /\ 1..0 = {}
    BY <1>3, <1>4 DEF StartPlan
  <2>2. DOMAIN f[0].insert = {} /\ Range(f[0].insert) = {}
    BY <2>1 DEF Range
  <2>3. PlanSoFar(t, f[0], 0)
    BY <2>1, <2>2 DEF PlanSoFar
  <2>. QED
    BY <2>1, <2>3
<1>6. ASSUME NEW k \in 0..n, k # n, k \in G
      PROVE  k + 1 \in G
  <2>1. k + 1 \in 1..n /\ (k + 1) - 1 = k /\ k + 1 \in 0..n
    BY <1>3, <1>6
  <2>2. f[k + 1] = Merge(f[k], source[t][k + 1]) /\ f[k] \in PlanType
    BY <1>4, <2>1
  <2>3. PlanSoFar(t, f[k], k)
    BY <1>6
  <2>4. PlanSoFar(t, f[k + 1], k + 1)
    BY <1>6, <2>2, <2>3, OneMorePlanned
  <2>. QED
    BY <2>1, <2>4
<1>. HIDE DEF G
<1>7. Climbs(n, G)
  BY <1>5, <1>6 DEF Climbs
<1>8. n \in G
  BY <1>3, <1>7, Climb
<1>. QED
  BY <1>4, <1>8 DEF G

LEMMA PlanHolds ==
  ASSUME ImportTypes, NEW t \in Table, NEW plan, PlanSoFar(t, plan, Len(source[t]))
  PROVE  \A d \in Range(source[t]) : d.valid => \E r \in plan.seen : Holds(t, r, d)
<1>1. \A i \in 1..Len(source[t]) :
        source[t][i].valid => \E r \in plan.seen : Holds(t, r, source[t][i])
  BY DEF PlanSoFar
<1>2. DOMAIN source[t] = 1..Len(source[t])
  BY SourceFits DEF ImportTypes
<1>. QED
  BY <1>1, <1>2 DEF Range

(* What the candidates of the other tables are.                            *)
LEMMA CandidatesAre ==
  ASSUME ImportTypes, mode = "merge", mode \in Modes, NEW t \in Table, NEW users \in Map
  PROVE  /\ \A r \in Range(Candidates(t, users)) : \E d \in Range(source[t]) :
              /\ d.valid /\ SourceId(d) \notin known[t]
              /\ r = RowOf(d, SourceId(d), Mapped(users, d.owner))
         /\ \A d \in Range(source[t]) : d.valid /\ SourceId(d) \notin known[t] =>
              RowOf(d, SourceId(d), Mapped(users, d.owner)) \in Range(Candidates(t, users))
<1>. DEFINE docs == Only(source[t], Wanted(t))
            c == Candidates(t, users)
            src == source[t]
<1>1. /\ c \in Seq(Row) /\ docs \in Seq(Document) /\ Len(c) = Len(docs)
      /\ \A i \in 1..Len(c) : c[i] = RowOf(docs[i], SourceId(docs[i]), Mapped(users, docs[i].owner))
  BY CandidatesFit
<1>2. PICK at : IsPlaced(at, docs, src, Len(src), Wanted(t))
  BY SourceFits, OnlyIsPlaced DEF ImportTypes
<1>3. DOMAIN c = 1..Len(c) /\ DOMAIN src = 1..Len(src)
  BY <1>1, SourceFits DEF ImportTypes
<1>. HIDE DEF docs, c, src
<1>4. ASSUME NEW r \in Range(c)
      PROVE  \E d \in Range(src) : /\ d \in Wanted(t)
                                   /\ r = RowOf(d, SourceId(d), Mapped(users, d.owner))
  <2>1. PICK i \in 1..Len(c) : r = c[i]
    BY <1>3 DEF Range
  <2>2. docs[i] \in Wanted(t)
    BY <1>1, <1>2, <2>1 DEF IsPlaced
  <2>3. docs[i] \in Range(src)
    BY <2>2 DEF Wanted, src
  <2>. QED
    BY <1>1, <2>1, <2>2, <2>3
<1>5. ASSUME NEW d \in Wanted(t)
      PROVE  RowOf(d, SourceId(d), Mapped(users, d.owner)) \in Range(c)
  <2>1. PICK j \in 1..Len(src) : src[j] = d
    BY <1>3 DEF Wanted, Range, src
  <2>2. PICK i \in 1..Len(docs) : at[i] = j
    BY <1>2, <1>5, <2>1 DEF IsPlaced
  <2>3. docs[i] = d
    BY <1>2, <2>1, <2>2 DEF IsPlaced
  <2>4. c[i] = RowOf(d, SourceId(d), Mapped(users, d.owner)) /\ i \in DOMAIN c
    BY <1>1, <1>3, <2>2, <2>3
  <2>. QED
    BY <2>4 DEF Range
<1>6. \A d \in Range(src) : d \in Wanted(t) <=> d.valid /\ SourceId(d) \notin known[t]
  BY DEF Wanted, src
<1>. QED
  BY <1>4, <1>5, <1>6 DEF c, src

LEMMA MergeStarts == Init => MergeInv
<1>. SUFFICES ASSUME Init PROVE MergeInv
  OBVIOUS
<1>1. ImportTypes /\ pc = "idle" /\ settled = FALSE /\ known = [t \in Table |-> {}]
  BY InitTypes DEF Init
<1>. QED
  BY <1>1 DEF MergeInv, IsPlanned

LEMMA MergeStart ==
  ASSUME MergeInv, NEW m \in Modes, Start(m), m = "merge", ImportTypes'
  PROVE  MergeInv'
<1>1. /\ known' = [t \in Table |-> Ids(t)] /\ pc' = "cities" /\ pc = "idle"
      /\ UNCHANGED <<source, table, rows, settled>>
  BY DEF Start
<1>2. \A t \in Table : known'[t] \subseteq Ids(t)'
  BY <1>1 DEF Ids
<1>3. settled' => \A t \in Table :
        Recovered(t)' /\ (\A r \in Range(rows[t]) : \E q \in table[t] : Clash(t, q, r))'
  BY <1>1 DEF MergeInv, Recovered
<1>. QED
  BY <1>1, <1>2, <1>3 DEF MergeInv, IsPlanned

LEMMA MergePlansCities ==
  ASSUME MergeInv, PlanCities, mode = "merge", ImportTypes'
  PROVE  MergeInv'
<1>. DEFINE plan == Plan("city", <<>>)
<1>1. /\ ImportTypes /\ mode \in Modes /\ pc = "cities" /\ pc' = "users"
      /\ UNCHANGED <<source, table, mode, known, quiet, settled, raced>>
      /\ rows' = [rows EXCEPT !["city"] = plan.insert]
  BY DEF MergeInv, PlanCities, ImportTypes, past
<1>2. PlanSoFar("city", plan, Len(source["city"])) /\ plan \in PlanType
  BY <1>1, EmptyMap, PeopleAreTables, PlanCovers, PlanTyped
<1>3. rows'["city"] = plan.insert /\ \A t \in Table : t # "city" => rows'[t] = rows[t]
  BY <1>1, PeopleAreTables DEF ImportTypes
<1>. HIDE DEF plan
<1>4. Fresh("city")'
  BY <1>1, <1>2, <1>3 DEF Fresh, PlanSoFar
<1>5. Planned("city")'
  <2>1. \A d \in Range(source["city"]) : d.valid => \E r \in plan.seen : Holds("city", r, d)
    BY <1>1, <1>2, PeopleAreTables, PlanHolds
  <2>2. plan.seen = table["city"] \cup Range(rows'["city"])
    BY <1>2, <1>3 DEF PlanSoFar
  <2>. QED
    BY <1>1, <2>1, <2>2 DEF Planned, Carries, People
<1>6. ASSUME settled', NEW t \in Table
      PROVE  Recovered(t)' /\ (\A r \in Range(rows[t]) : \E q \in table[t] : Clash(t, q, r))'
  <2>1. Recovered(t) /\ \A r \in Range(rows[t]) : \E q \in table[t] : Clash(t, q, r)
    BY <1>1, <1>6 DEF MergeInv
  <2>2. t = "city" => Range(rows'[t]) = {}
    <3>1. t = "city" => rows'[t] = <<>>
      BY <1>2, <1>3, <2>1 DEF PlanSoFar
    <3>. QED
      BY <3>1 DEF Range
  <2>. QED
    BY <1>1, <1>3, <2>1, <2>2 DEF Recovered
<1>7. \A t \in Table : known'[t] \subseteq Ids(t)'
  BY <1>1 DEF MergeInv, Ids
<1>. QED
  BY <1>1, <1>4, <1>5, <1>6, <1>7 DEF MergeInv, IsPlanned

LEMMA MergePlansUsers ==
  ASSUME MergeInv, PlanUsers, mode = "merge", ImportTypes'
  PROVE  MergeInv'
<1>. DEFINE plan == Plan("user", map["city"])
<1>1. /\ ImportTypes /\ mode \in Modes /\ pc = "users" /\ pc' = "insert" /\ mode # "copy"
      /\ UNCHANGED <<source, table, mode, known, quiet, settled, raced>>
  BY PlannedRows DEF MergeInv, past
<1>2. /\ rows'["city"] = rows["city"] /\ rows'["user"] = plan.insert
      /\ \A t \in Table : t \notin People => rows'[t] = Candidates(t, plan.map)
  BY <1>1, PlannedRows
<1>3. map["city"] \in Map
  BY <1>1, PeopleAreTables DEF ImportTypes
<1>4. PlanSoFar("user", plan, Len(source["user"])) /\ plan \in PlanType /\ plan.map \in Map
  BY <1>1, <1>3, PeopleAreTables, PlanCovers, PlanTyped DEF PlanType
<1>. HIDE DEF plan
<1>5. \A t \in Table : known[t] \subseteq Ids(t)
  BY DEF MergeInv
<1>6. ASSUME NEW t \in Table, t \notin People
      PROVE  /\ \A r \in Range(rows'[t]) : \E d \in Range(source[t]) :
                  d.valid /\ r.id = SourceId(d) /\ r.key = d.key
             /\ \A d \in Range(source[t]) : d.valid =>
                  \/ \E r \in table[t] : Holds(t, r, d)
                  \/ \E r \in Range(rows'[t]) : Carries(t, r, d)
  <2>1. \A d \in Document : d.valid =>
          LET r == RowOf(d, SourceId(d), Mapped(plan.map, d.owner))
          IN r.id = SourceId(d) /\ r.key = d.key
    BY DEF RowOf
  <2>2. \A r \in Range(rows'[t]) : \E d \in Range(source[t]) :
          d.valid /\ r = RowOf(d, SourceId(d), Mapped(plan.map, d.owner))
    BY <1>1, <1>2, <1>4, <1>6, CandidatesAre
  <2>3. ASSUME NEW d \in Range(source[t]), d.valid
        PROVE  \/ \E r \in table[t] : Holds(t, r, d)
               \/ \E r \in Range(rows'[t]) : Carries(t, r, d)
    <3>1. CASE SourceId(d) \in known[t]
      BY <1>5, <1>6, <3>1 DEF Ids, Holds
    <3>2. CASE SourceId(d) \notin known[t]
      <4>1. RowOf(d, SourceId(d), Mapped(plan.map, d.owner)) \in Range(rows'[t])
        BY <1>1, <1>2, <1>4, <1>6, <2>3, <3>2, CandidatesAre
      <4>. QED
        BY <1>6, <4>1 DEF Carries, RowOf
    <3>. QED
      BY <3>1, <3>2
  <2>. QED
    BY <2>2, <2>3 DEF RowOf
<1>7. ASSUME NEW t \in People, quiet \/ ~ raced
      PROVE  Fresh(t)'
  <2>1. CASE t = "user"
    BY <1>1, <1>2, <1>4, <2>1 DEF Fresh, PlanSoFar
  <2>2. CASE t = "city"
    <3>1. Fresh("city")
      BY <1>1, <1>7, <2>2 DEF MergeInv, IsPlanned
    <3>. QED
      BY <1>1, <1>2, <2>2, <3>1 DEF Fresh
  <2>. QED
    BY <2>1, <2>2 DEF People
<1>8. ASSUME NEW t \in Table, quiet
      PROVE  Planned(t)'
  <2>1. CASE t = "user"
    <3>1. \A d \in Range(source["user"]) : d.valid => \E r \in plan.seen : Holds("user", r, d)
      BY <1>1, <1>4, PeopleAreTables, PlanHolds
    <3>2. plan.seen = table["user"] \cup Range(rows'["user"])
      BY <1>2, <1>4 DEF PlanSoFar
    <3>. QED
      BY <1>1, <2>1, <3>1, <3>2 DEF Planned, Carries, People
  <2>2. CASE t = "city"
    <3>1. Planned("city")
      BY <1>1, <1>8, <2>2 DEF MergeInv, IsPlanned
    <3>. QED
      BY <1>1, <1>2, <2>2, <3>1 DEF Planned
  <2>3. CASE t \notin People
    BY <1>1, <1>6, <2>3 DEF Planned
  <2>. QED
    BY <2>1, <2>2, <2>3 DEF People
<1>9. ASSUME settled, NEW t \in Table
      PROVE  Recovered(t)' /\ (\A r \in Range(rows[t]) : \E q \in table[t] : Clash(t, q, r))'
  <2>1. Recovered(t) /\ \A r \in Range(rows[t]) : \E q \in table[t] : Clash(t, q, r)
    BY <1>9 DEF MergeInv
  <2>2. CASE t = "user"
    <3>1. rows'[t] = <<>>
      BY <1>2, <1>4, <2>1, <2>2 DEF PlanSoFar
    <3>2. Range(rows'[t]) = {}
      BY <3>1 DEF Range
    <3>. QED
      BY <1>1, <2>1, <3>2 DEF Recovered
  <2>3. CASE t = "city"
    BY <1>1, <1>2, <2>1, <2>3 DEF Recovered
  <2>4. CASE t \notin People
    <3>1. ASSUME NEW r \in Range(rows'[t])
          PROVE  \E q \in table[t] : Clash(t, q, r)
      <4>1. PICK d \in Range(source[t]) : d.valid /\ r.id = SourceId(d) /\ r.key = d.key
        BY <1>6, <2>4
      <4>2. PICK q \in table[t] : Holds(t, q, d)
        BY <2>1, <4>1 DEF Recovered
      <4>3. Clash(t, q, r)
        BY <2>4, <4>1, <4>2 DEF Holds, Clash
      <4>. QED
        BY <4>3
    <3>. QED
      BY <1>1, <2>1, <3>1 DEF Recovered
  <2>. QED
    BY <2>2, <2>3, <2>4 DEF People
<1>10. \A t \in Table : known'[t] \subseteq Ids(t)'
  BY <1>1, <1>5 DEF Ids
<1>. QED
  BY <1>1, <1>7, <1>8, <1>9, <1>10 DEF MergeInv

(* A statement of the merge takes all rows where none clashes, none where  *)
(* all do, and never loses a row.                                          *)
LEMMA MergeTakes ==
  ASSUME ImportTypes, mode = "merge", NEW t \in Table, InsertBatch(t)
  PROVE  /\ table[t] \subseteq table'[t] /\ table'[t] \subseteq table[t] \cup Range(rows[t])
         /\ Range(rows'[t]) \subseteq Range(rows[t])
         /\ \A r \in Range(rows[t]) : r \in Range(rows'[t]) \/ \E q \in table'[t] : Clash(t, q, r)
         /\ Fresh(t) => Fresh(t)' /\ Range(rows[t]) \subseteq table'[t] \cup Range(rows'[t])
         /\ (\A r \in Range(rows[t]) : \E q \in table[t] : Clash(t, q, r)) => table'[t] = table[t]
<1>. DEFINE b == Batch(t)
            m == Len(b)
            n == Len(rows[t])
<1>1. /\ table'[t] = InsertDoNothing(t, table[t], b) /\ rows'[t] = Rest(t)
  BY InsertSteps
<1>2. rows[t] \in Seq(Row) /\ table[t] \in SUBSET Row
  BY DEF ImportTypes
<1>3. /\ b \in Seq(Row) /\ Rest(t) \in Seq(Row)
      /\ m <= n /\ Len(Rest(t)) = n - m
      /\ \A i \in 1..m : i \in 1..n /\ b[i] = rows[t][i]
      /\ \A i \in 1..Len(Rest(t)) : m + i \in 1..n /\ Rest(t)[i] = rows[t][m + i]
  BY BatchFits
<1>4. InsertedSoFar(t, table[t], b, m, table'[t])
  BY <1>1, <1>2, <1>3, InsertFacts
<1>5. m \in Nat /\ n \in Nat /\ DOMAIN b = 1..m /\ DOMAIN rows[t] = 1..n
      /\ DOMAIN rows'[t] = 1..(n - m)
  BY <1>1, <1>2, <1>3
<1>6. \A i \in 1..(n - m) : m + i \in 1..n /\ rows'[t][i] = rows[t][m + i]
  BY <1>1, <1>3
<1>. HIDE DEF b, m, n
<1>7. \A i \in 1..n : i \in 1..m \/ (i - m \in 1..(n - m) /\ m + (i - m) = i)
  BY <1>3, <1>5
<1>8. \A i \in 1..n : i \in 1..m \/ (i - m \in 1..(n - m) /\ rows'[t][i - m] = rows[t][i])
  BY <1>6, <1>7
<1>9. {b[i] : i \in 1..m} \subseteq Range(rows[t])
  BY <1>3, <1>5 DEF Range
<1>10. Range(rows'[t]) \subseteq Range(rows[t])
  BY <1>5, <1>6 DEF Range
<1>11. table[t] \subseteq table'[t] /\ table'[t] \subseteq table[t] \cup Range(rows[t])
  BY <1>4, <1>9 DEF InsertedSoFar
<1>12. ASSUME NEW r \in Range(rows[t])
       PROVE  r \in Range(rows'[t]) \/ \E i \in 1..m : r = b[i]
  <2>1. PICK i \in 1..n : r = rows[t][i]
    BY <1>5 DEF Range
  <2>2. CASE i \in 1..m
    BY <1>3, <2>1, <2>2
  <2>3. CASE i - m \in 1..(n - m) /\ rows'[t][i - m] = rows[t][i]
    BY <1>5, <2>1, <2>3 DEF Range
  <2>. QED
    BY <1>8, <2>2, <2>3
<1>13. \A r \in Range(rows[t]) : r \in Range(rows'[t]) \/ \E q \in table'[t] : Clash(t, q, r)
  BY <1>4, <1>12 DEF InsertedSoFar
<1>14. ASSUME Fresh(t)
       PROVE  Fresh(t)' /\ Range(rows[t]) \subseteq table'[t] \cup Range(rows'[t])
  <2>1. /\ \A i \in 1..n : \A q \in table[t] : ~ Clash(t, q, rows[t][i])
        /\ \A i, j \in 1..n : i # j => ~ Clash(t, rows[t][i], rows[t][j])
    BY <1>5, <1>14 DEF Fresh
  <2>2. /\ \A i \in 1..m, q \in table[t] : ~ Clash(t, q, b[i])
        /\ \A i, j \in 1..m : i # j => ~ Clash(t, b[i], b[j])
    BY <1>3, <2>1
  <2>3. m = Len(b)
    BY DEF m
  <2>4. table'[t] = table[t] \cup {b[i] : i \in 1..m}
    BY <1>4, <2>2, <2>3 DEF InsertedSoFar
  <2>5. \A i \in 1..(n - m) : \A j \in 1..m : m + i # j
    BY <1>5
  <2>6. \A i \in 1..(n - m) : \A q \in table'[t] : ~ Clash(t, q, rows'[t][i])
    BY <1>3, <1>6, <2>1, <2>4, <2>5
  <2>7. \A i, j \in 1..(n - m) : i # j => m + i # m + j
    BY <1>5
  <2>8. \A i, j \in 1..(n - m) : i # j => ~ Clash(t, rows'[t][i], rows'[t][j])
    BY <1>6, <2>1, <2>7
  <2>9. Fresh(t)'
    BY <1>5, <2>6, <2>8 DEF Fresh
  <2>. QED
    BY <1>12, <2>4, <2>9
<1>15. ASSUME \A r \in Range(rows[t]) : \E q \in table[t] : Clash(t, q, r)
       PROVE  table'[t] = table[t]
  <2>1. \A i \in 1..m : \E q \in table[t] : Clash(t, q, b[i])
    BY <1>9, <1>15
  <2>2. m = Len(b)
    BY DEF m
  <2>. QED
    BY <1>4, <2>1, <2>2 DEF InsertedSoFar
<1>. QED
  BY <1>10, <1>11, <1>13, <1>14, <1>15

LEMMA MergeInsert ==
  ASSUME MergeInv, mode = "merge", NEW t \in Table, InsertBatch(t), ImportTypes'
  PROVE  MergeInv'
<1>1. /\ ImportTypes /\ pc = "insert"
      /\ UNCHANGED <<source, pc, mode, known, map, quiet, settled, raced>>
      /\ \A u \in Table : u # t => table'[u] = table[u] /\ rows'[u] = rows[u]
  BY InsertSteps DEF MergeInv, past
<1>2. /\ table[t] \subseteq table'[t]
      /\ Range(rows'[t]) \subseteq Range(rows[t])
      /\ \A r \in Range(rows[t]) : r \in Range(rows'[t]) \/ \E q \in table'[t] : Clash(t, q, r)
      /\ Fresh(t) => Fresh(t)' /\ Range(rows[t]) \subseteq table'[t] \cup Range(rows'[t])
      /\ (\A r \in Range(rows[t]) : \E q \in table[t] : Clash(t, q, r)) => table'[t] = table[t]
  BY <1>1, MergeTakes
<1>3. \A u \in Table : known'[u] \subseteq Ids(u)'
  <2>1. \A u \in Table : table[u] \subseteq table'[u]
    BY <1>1, <1>2
  <2>. QED
    BY <1>1, <2>1 DEF MergeInv, Ids
<1>4. ASSUME NEW u \in People, (quiet \/ ~ raced)'
      PROVE  Fresh(u)'
  <2>1. Fresh(u)
    BY <1>1, <1>4 DEF MergeInv, IsPlanned
  <2>2. u # t => Fresh(u)'
    BY <1>1, <2>1, PeopleAreTables DEF Fresh
  <2>. QED
    BY <1>2, <2>1, <2>2
<1>5. ASSUME NEW u \in Table, quiet'
      PROVE  Planned(u)'
  <2>1. Planned(u)
    BY <1>1, <1>5 DEF MergeInv, IsPlanned
  <2>2. CASE u # t
    BY <1>1, <2>1, <2>2 DEF Planned
  <2>3. CASE u = t
    <3>1. ASSUME NEW d \in Range(source[t]), d.valid
          PROVE  \/ \E r \in table'[t] : Holds(t, r, d)
                 \/ \E r \in Range(rows'[t]) : Carries(t, r, d)
      <4>1. CASE \E r \in table[t] : Holds(t, r, d)
        BY <1>2, <4>1
      <4>2. ASSUME NEW r \in Range(rows[t]), Carries(t, r, d)
            PROVE  \/ \E q \in table'[t] : Holds(t, q, d)
                   \/ \E q \in Range(rows'[t]) : Carries(t, q, d)
        <5>1. CASE t \in People
          <6>1. Fresh(t)
            BY <1>1, <1>5, <5>1 DEF MergeInv, IsPlanned
          <6>2. r \in table'[t] \/ r \in Range(rows'[t])
            BY <1>2, <6>1
          <6>3. Holds(t, r, d)
            BY <4>2, <5>1 DEF Carries
          <6>. QED
            BY <4>2, <6>2, <6>3
        <5>2. CASE t \notin People
          <6>1. CASE r \in Range(rows'[t])
            BY <4>2, <6>1
          <6>2. ASSUME NEW q \in table'[t], Clash(t, q, r)
                PROVE  Holds(t, q, d)
            BY <4>2, <5>2, <6>2 DEF Carries, Clash, Holds, People
          <6>. QED
            BY <1>2, <6>1, <6>2
        <5>. QED
          BY <5>1, <5>2
      <4>. QED
        BY <2>1, <2>3, <3>1, <4>1, <4>2 DEF Planned
    <3>. QED
      BY <1>1, <2>3, <3>1 DEF Planned
  <2>. QED
    BY <2>2, <2>3
<1>6. ASSUME NEW u \in Table, settled'
      PROVE  Recovered(u)' /\ (\A r \in Range(rows[u]) : \E q \in table[u] : Clash(u, q, r))'
  <2>1. Recovered(u) /\ \A r \in Range(rows[u]) : \E q \in table[u] : Clash(u, q, r)
    BY <1>1, <1>6 DEF MergeInv
  <2>2. table'[u] = table[u] /\ Range(rows'[u]) \subseteq Range(rows[u])
    BY <1>1, <1>2, <2>1
  <2>. QED
    BY <1>1, <2>1, <2>2 DEF Recovered
<1>. QED
  BY <1>3, <1>4, <1>5, <1>6 DEF MergeInv

LEMMA MergeLeave ==
  ASSUME MergeInv, Leave, UNCHANGED <<source, table>>, ImportTypes',
         settled' => settled \/ \A t \in Table : Recovered(t)
  PROVE  MergeInv'
<1>1. pc' = "idle" /\ rows' = NoRows /\ \A t \in Table : known'[t] = {}
  BY DEF Leave
<1>2. \A t \in Table : Range(rows'[t]) = {}
  BY <1>1, NothingPlanned DEF Range
<1>3. settled' => \A t \in Table : Recovered(t)'
  BY DEF MergeInv, Recovered
<1>. QED
  BY <1>1, <1>2, <1>3 DEF MergeInv, IsPlanned

LEMMA MergeAppAdds ==
  ASSUME MergeInv, AppAdds, ImportTypes'
  PROVE  MergeInv'
<1>1. ImportTypes
  BY DEF MergeInv
<1>2. PICK w \in AppWrites :
        /\ \A t \in Table : table'[t] = table[t] \cup Added(w, t)
        /\ raced' = (raced \/ (pc \in {"users", "insert"} /\ w.table \in People))
  BY <1>1, AppSteps
<1>3. UNCHANGED <<source, pc, known, rows>> /\ quiet' = FALSE /\ settled' = FALSE
  BY DEF AppAdds, run
<1>4. \A t \in Table : known'[t] \subseteq Ids(t)'
  BY <1>2, <1>3 DEF MergeInv, Ids
<1>5. ASSUME NEW t \in People, IsPlanned(t)', ~ raced'
      PROVE  Fresh(t)'
  <2>1. pc \in {"users", "insert"} /\ IsPlanned(t)
    BY <1>3, <1>5 DEF IsPlanned
  <2>2. Added(w, t) = {}
    BY <1>2, <1>5, <2>1 DEF Added
  <2>3. table'[t] = table[t] /\ Fresh(t)
    BY <1>2, <1>5, <2>1, <2>2, PeopleAreTables DEF MergeInv
  <2>. QED
    BY <1>3, <2>3 DEF Fresh
<1>. QED
  BY <1>3, <1>4, <1>5 DEF MergeInv

LEMMA MergeKept ==
  ASSUME Modes = {"merge"}, MergeInv, [Next]_vars
  PROVE  MergeInv'
<1>1. ImportTypes /\ ImportTypes'
  BY TypesKept DEF MergeInv
<1>2. pc # "idle" => mode = "merge"
  BY <1>1 DEF ImportTypes
<1>3. CASE \E m \in Modes : Start(m)
  BY <1>1, <1>3, MergeStart
<1>4. CASE PlanCities
  BY <1>1, <1>2, <1>4, MergePlansCities DEF PlanCities
<1>5. CASE PlanUsers
  BY <1>1, <1>2, <1>5, MergePlansUsers DEF PlanUsers
<1>6. CASE \E t \in Table : InsertBatch(t)
  BY <1>1, <1>2, <1>6, MergeInsert DEF InsertBatch, Ready
<1>7. CASE Complete
  <2>1. settled' => \A t \in Table : Recovered(t)
    <3>1. \A t \in Table : Range(rows[t]) = {}
      BY <1>7, NothingPlanned DEF Complete, Range
    <3>2. settled' => \A t \in Table : Planned(t)
      BY <1>7 DEF Complete, MergeInv, IsPlanned
    <3>. QED
      BY <3>1, <3>2 DEF Planned, Recovered
  <2>. QED
    BY <1>1, <1>7, <2>1, MergeLeave DEF Complete
<1>8. CASE Fail \/ Die
  BY <1>1, <1>8, MergeLeave DEF Fail, Die, past
<1>9. CASE AppAdds
  BY <1>1, <1>9, MergeAppAdds
<1>10. CASE UNCHANGED vars
  BY <1>1, <1>10 DEF MergeInv, IsPlanned, Fresh, Planned, Recovered, Ids, vars, run, past
<1>. QED
  BY <1>3, <1>4, <1>5, <1>6, <1>7, <1>8, <1>9, <1>10 DEF Next, RunGoesOn

(* However often the merge died and was started again, whatever there was  *)
(* before it: once it has ended well with nobody writing meanwhile, every  *)
(* document of the old database has its row, or gave way to the row of its *)
(* login, name or order.                                                   *)
THEOREM MergeRecoversEverything ==
  ASSUME Modes = {"merge"} PROVE Spec => []EverythingRecovered
<1>1. MergeInv /\ [Next]_vars => MergeInv'
  BY MergeKept
<1>2. Spec => []MergeInv
  BY <1>1, MergeStarts, PTL DEF Spec
<1>3. MergeInv => EverythingRecovered
  <2>. SUFFICES ASSUME MergeInv, settled, NEW t \in Table, NEW i \in DOMAIN source[t],
                       source[t][i].valid
                PROVE  \E r \in table[t] :
                         \/ r.id \in Aliases(source[t][i])
                         \/ t \in People /\ r.key.name = source[t][i].key.name
                         \/ t = "delivery" /\ source[t][i].key # None /\ r.key = source[t][i].key
    BY DEF EverythingRecovered
  <2>. DEFINE d == source[t][i]
  <2>1. d \in Range(source[t]) /\ d \in Document
    BY SourceFits DEF MergeInv, ImportTypes, Range
  <2>2. PICK r \in table[t] : Holds(t, r, d)
    BY <2>1 DEF MergeInv, Recovered
  <2>3. SourceId(d) \in Aliases(d)
    BY <2>1, DocumentFits
  <2>. QED
    BY <2>2, <2>3 DEF Holds
<1>. QED
  BY <1>2, <1>3, PTL

(* And then running it again changes nothing.                              *)
THEOREM MergeIsIdempotent ==
  ASSUME Modes = {"merge"} PROVE Spec => RerunChangesNothing
<1>1. MergeInv /\ [Next]_vars => MergeInv'
  BY MergeKept
<1>2. Spec => []MergeInv
  BY <1>1, MergeStarts, PTL DEF Spec
<1>3. MergeInv /\ [Next]_vars => [mode = "merge" /\ settled /\ settled' => UNCHANGED table]_vars
  <2>. SUFFICES ASSUME MergeInv, Next, mode = "merge", settled, settled'
                PROVE  table' = table
    OBVIOUS
  <2>1. ASSUME NEW t \in Table, InsertBatch(t)
        PROVE  table' = table
    <3>1. ImportTypes /\ \A r \in Range(rows[t]) : \E q \in table[t] : Clash(t, q, r)
      BY DEF MergeInv
    <3>2. table'[t] = table[t]
      BY <2>1, <3>1, MergeTakes
    <3>3. \A u \in Table : table'[u] = table[u]
      BY <2>1, <3>1, <3>2, InsertSteps
    <3>4. table = [u \in Table |-> table[u]] /\ table' = [u \in Table |-> table'[u]]
      BY <2>1, <3>1 DEF InsertBatch, ImportTypes
    <3>. QED
      BY <3>3, <3>4
  <2>. QED
    BY <2>1 DEF Next, RunGoesOn, Start, PlanCities, PlanUsers, Complete, Fail, Die, AppAdds
<1>. QED
  BY <1>2, <1>3, PTL DEF Spec, RerunChangesNothing

-----------------------------------------------------------------------------
(* The merge leaves no reference open.                                     *)

(* Where a plan sends the ids of the users it has seen.                    *)
PlanMaps(plan, k) ==
  \A i \in 1..k : source["user"][i].valid =>
    \A a \in Aliases(source["user"][i]) :
      /\ a \in DOMAIN plan.map
      /\ \E u \in plan.seen : u.id = plan.map[a] /\ Names(u, source["user"][i])

LEMMA OneMoreMapped ==
  ASSUME ImportTypes, TidySource, mode \in Modes, NEW plan \in PlanType,
         NEW k \in 0..Len(source["user"]), k # Len(source["user"]), PlanMaps(plan, k)
  PROVE  PlanMaps(Merge(plan, source["user"][k + 1]), k + 1)
<1>. DEFINE d == source["user"][k + 1]
            next == Merge(plan, d)
<1>1. k + 1 \in 1..Len(source["user"]) /\ d \in Document
      /\ (\A i \in 1..Len(source["user"]) : source["user"][i] \in Range(source["user"]))
      /\ \A i \in 1..(k + 1) : i \in 1..k \/ i = k + 1
  <2>1. k + 1 \in 1..Len(source["user"]) /\ \A i \in 1..(k + 1) : i \in 1..k \/ i = k + 1
    BY PeopleAreTables, SourceFits DEF ImportTypes
  <2>2. source["user"] \in Seq(Document)
    BY PeopleAreTables, SourceFits DEF ImportTypes
  <2>. QED
    BY <2>1, <2>2 DEF Range
<1>2. \A i \in 1..k : i \in 1..Len(source["user"])
  BY <1>1
<1>. HIDE DEF d
<1>3. CASE ~ d.valid
  <2>1. next = plan
    BY <1>1, <1>3, MergeSteps
  <2>. QED
    BY <1>1, <1>3, <2>1 DEF PlanMaps, d
<1>4. CASE d.valid
  <2>1. PICK u \in next.seen :
          next.map = mapAliases(plan.map, Aliases(d), u.id) /\ Names(u, d)
    <3>1. CASE Same(plan.seen, d) = {}
      <4>1. SourceId(d) \in Ident /\ SourceId(d) \in Aliases(d) /\ d.owner \in Owner
        BY <1>1, <1>4, DocumentFits
      <4>2. plan.cities \in Map
        BY DEF PlanType
      <4>3. NewRow(plan, d).id = SourceId(d)
        BY <1>1, <4>1, <4>2, MappedFits, RowFits DEF NewRow
      <4>4. /\ next.map = mapAliases(plan.map, Aliases(d), SourceId(d))
            /\ next.seen = plan.seen \cup {NewRow(plan, d)}
        BY <1>1, <1>4, <3>1, MergeSteps
      <4>. HIDE DEF next
      <4>. QED
        BY <4>1, <4>3, <4>4 DEF Names
    <3>2. CASE Same(plan.seen, d) # {}
      <4>1. PICK r \in Same(plan.seen, d) : next.map = mapAliases(plan.map, Aliases(d), r.id)
        BY <1>1, <1>4, <3>2, MergeSteps
      <4>2. next.seen = plan.seen
        BY <1>1, <1>4, <3>2, MergeSteps
      <4>3. r \in plan.seen /\ Names(r, d)
        BY <4>1 DEF Same, Names
      <4>. HIDE DEF next
      <4>. QED
        BY <4>1, <4>2, <4>3
    <3>. QED
      BY <3>1, <3>2
  <2>2. plan.seen \subseteq next.seen
    BY <1>1, <1>4, MergeSteps
  <2>. HIDE DEF next
  <2>3. /\ DOMAIN next.map = Aliases(d) \cup DOMAIN plan.map
        /\ \A a \in Aliases(d) : next.map[a] = u.id
        /\ \A a \in DOMAIN plan.map : a \notin Aliases(d) => next.map[a] = plan.map[a]
    BY <2>1 DEF mapAliases
  <2>4. ASSUME NEW i \in 1..(k + 1), source["user"][i].valid, NEW a \in Aliases(source["user"][i])
        PROVE  /\ a \in DOMAIN next.map
               /\ \E v \in next.seen : v.id = next.map[a] /\ Names(v, source["user"][i])
    <3>1. CASE source["user"][i] = d
      BY <2>1, <2>3, <2>4, <3>1
    <3>2. CASE source["user"][i] # d
      <4>1. i \in 1..k
        BY <1>1, <3>2 DEF d
      <4>2. Aliases(source["user"][i]) \cap Aliases(d) = {}
        BY <1>1, <1>2, <1>4, <2>4, <3>2, <4>1 DEF TidySource, ImportTypes, d
      <4>3. /\ a \in DOMAIN plan.map
            /\ \E v \in plan.seen : v.id = plan.map[a] /\ Names(v, source["user"][i])
        BY <2>4, <4>1 DEF PlanMaps
      <4>. QED
        BY <2>2, <2>3, <2>4, <4>2, <4>3
    <3>. QED
      BY <3>1, <3>2
  <2>5. PlanMaps(next, k + 1)
    BY <2>4 DEF PlanMaps
  <2>. QED
    BY <2>5 DEF next, d
<1>. QED
  BY <1>3, <1>4

LEMMA PlanRemaps ==
  ASSUME ImportTypes, TidySource, mode \in Modes, NEW cities \in Map
  PROVE  PlanMaps(Plan("user", cities), Len(source["user"]))
<1>. DEFINE n == Len(source["user"])
<1>1. PICK f : Plans(f, "user", cities)
  BY PeopleAreTables, PlanByPrefix
<1>2. n \in Nat
  BY PeopleAreTables, SourceFits DEF ImportTypes
<1>3. /\ f \in [0..n -> PlanType] /\ f[n] = Plan("user", cities)
      /\ \A k \in 1..n : f[k] = Merge(f[k - 1], source["user"][k])
  BY <1>1 DEF Plans
<1>. DEFINE G == {k \in 0..n : PlanMaps(f[k], k)}
<1>4. 0 \in G
  <2>1. 0 \in 0..n /\ 1..0 = {}
    BY <1>2
  <2>2. PlanMaps(f[0], 0)
    BY <2>1 DEF PlanMaps
  <2>. QED
    BY <2>1, <2>2
<1>5. ASSUME NEW k \in 0..n, k # n, k \in G
      PROVE  k + 1 \in G
  <2>1. k + 1 \in 1..n /\ (k + 1) - 1 = k /\ k + 1 \in 0..n
    BY <1>2, <1>5
  <2>2. f[k + 1] = Merge(f[k], source["user"][k + 1]) /\ f[k] \in PlanType
    BY <1>3, <2>1
  <2>3. PlanMaps(f[k], k)
    BY <1>5
  <2>4. PlanMaps(f[k + 1], k + 1)
    BY <1>5, <2>2, <2>3, OneMoreMapped
  <2>. QED
    BY <2>1, <2>4
<1>. HIDE DEF G
<1>6. Climbs(n, G)
  BY <1>4, <1>5 DEF Climbs
<1>7. n \in G
  BY <1>2, <1>6, Climb
<1>. QED
  BY <1>3, <1>7 DEF G

LEMMA HistoryTables == History \subseteq Table \ People /\ "delivery" \in Table /\ "link" \in Table
BY Tables DEF History, People

LEMMA EarlierDone ==
  /\ \A t \in History : Ready(t) => Range(rows["user"]) = {}
  /\ Ready("link") => Range(rows["delivery"]) = {}
<1>1. Len(TableOrder) = 5 /\ TableOrder[2] = "user" /\ TableOrder[3] = "delivery"
      /\ TableOrder[4] = "link" /\ TableOrder[5] = "record"
  BY DEF TableOrder
<1>2. \A t : Ready(t) => \A i, j \in 1..5 : TableOrder[j] = t /\ i < j => rows[TableOrder[i]] = <<>>
  BY <1>1 DEF Ready
<1>3. \A t \in History : Ready(t) => rows["user"] = <<>>
  <2>1. ASSUME Ready("delivery") PROVE rows["user"] = <<>>
    BY <1>1, <1>2, <2>1, 2 \in 1..5, 3 \in 1..5, 2 < 3
  <2>2. ASSUME Ready("link") PROVE rows["user"] = <<>>
    BY <1>1, <1>2, <2>2, 2 \in 1..5, 4 \in 1..5, 2 < 4
  <2>3. ASSUME Ready("record") PROVE rows["user"] = <<>>
    BY <1>1, <1>2, <2>3, 2 \in 1..5, 5 \in 1..5, 2 < 5
  <2>. QED
    BY <2>1, <2>2, <2>3 DEF History
<1>4. Ready("link") => rows["delivery"] = <<>>
  BY <1>1, <1>2, 3 \in 1..5, 4 \in 1..5, 3 < 4
<1>. QED
  BY <1>3, <1>4 DEF Range

(* Rows of the application open no reference, and no row that stays does.  *)
LEMMA ReferencesGrow ==
  ASSUME ReferencesResolve, UNCHANGED source, raced => raced',
         \A t \in Table : table[t] \subseteq table'[t],
         \A t \in History : \A r \in table'[t] : r \in table[t] \/ r.by # "merge"
  PROVE  ReferencesResolve'
<1>1. History = {"delivery", "link", "record"} /\ "user" \in Table /\ "delivery" \in Table
  BY PeopleAreTables, HistoryTables DEF History
<1>2. \A id : UserDocs(id)' = UserDocs(id)
  BY DEF UserDocs
<1>3. HistoryHasItsUser'
  BY <1>1, <1>2 DEF ReferencesResolve, HistoryHasItsUser
<1>4. LinksFollowDeliveries'
  BY <1>1 DEF ReferencesResolve, LinksFollowDeliveries
<1>. QED
  BY <1>3, <1>4 DEF ReferencesResolve

(* What a merge imports belongs to a row of its user ...                   *)
LEMMA NewHasItsUser ==
  ASSUME ReferencesInv, TidySource, NEW t \in History, Ready(t), ~ raced,
         NEW r \in Range(rows[t]), NEW i \in DOMAIN source[t],
         NEW d \in UserDocs(source[t][i].owner), r.id = SourceId(source[t][i])
  PROVE  \E u \in table["user"] : u.id = r.owner /\ Names(u, d)
<1>1. pc = "insert" /\ ImportTypes /\ t \in Table
  BY HistoryTables DEF Ready, ReferencesInv, MergeInv
<1>2. PICK e \in Range(source[t]) :
        e.valid /\ r.id = SourceId(e) /\ r.owner = Mapped(map["user"], e.owner)
  BY <1>1 DEF ReferencesInv, FromDocument
<1>3. e \in Document /\ source \in Sources /\ source[t][i] \in Range(source[t])
  BY <1>1, SourceFits DEF ImportTypes, Range
<1>4. SourceId(e) # None
  BY <1>2, <1>3, DocumentFits DEF Ident
<1>5. e = source[t][i]
  BY <1>2, <1>3, <1>4 DEF TidySource
<1>6. d \in Range(source["user"]) /\ d.valid /\ e.owner \in Aliases(d)
  BY <1>5 DEF UserDocs
<1>7. Remapped(d, e.owner)
  BY <1>1, <1>6 DEF ReferencesInv
<1>8. Range(rows["user"]) = {}
  BY EarlierDone
<1>. QED
  BY <1>2, <1>7, <1>8 DEF Remapped, Mapped

(* ... and a link, to a delivery that is there or that gave way.           *)
LEMMA NewHasItsDelivery ==
  ASSUME ReferencesInv, Ready("link"),
         NEW d \in Range(source["delivery"]), d.valid
  PROVE  \E q \in table["delivery"] : q.id = SourceId(d) \/ (d.key # None /\ q.key = d.key)
<1>1. Range(rows["delivery"]) = {}
  BY EarlierDone DEF ReferencesInv, MergeInv
<1>. QED
  BY <1>1 DEF Ready, ReferencesInv, Arrives, Refuses

LEMMA ReferencesStart == Init => ReferencesInv
<1>. SUFFICES ASSUME Init PROVE ReferencesInv
  OBVIOUS
<1>1. PICK s \in Existing : table = [t \in Table |-> {w.row : w \in {v \in s : v.table = t}}]
  BY DEF Init
<1>2. \A w \in s : w.row.by = "app"
  BY WrittenFits DEF Written
<1>5. \A t \in Table : \A r \in table[t] : r.by = "app"
  BY <1>1, <1>2
<1>6. ReferencesResolve
  BY <1>5, HistoryTables DEF ReferencesResolve, HistoryHasItsUser, LinksFollowDeliveries, History
<1>7. MergeInv /\ pc = "idle"
  BY MergeStarts DEF Init
<1>. QED
  BY <1>6, <1>7 DEF ReferencesInv

LEMMA ReferencesPlanned ==
  ASSUME ReferencesInv, TidySource, PlanUsers, mode = "merge", MergeInv'
  PROVE  ReferencesInv'
<1>. DEFINE plan == Plan("user", map["city"])
<1>1. /\ ImportTypes /\ mode \in Modes /\ pc' = "insert" /\ mode # "copy"
      /\ UNCHANGED <<source, table, mode, known, quiet, settled, raced>>
  BY PlannedRows DEF ReferencesInv, MergeInv, past
<1>2. /\ rows'["user"] = plan.insert /\ map'["user"] = plan.map
      /\ \A t \in History : t \in Table /\ t \notin People /\ rows'[t] = Candidates(t, plan.map)
  BY <1>1, HistoryTables, PlannedRows
<1>3. map["city"] \in Map
  BY <1>1, PeopleAreTables DEF ImportTypes
<1>4. /\ PlanSoFar("user", plan, Len(source["user"])) /\ PlanMaps(plan, Len(source["user"]))
      /\ plan.map \in Map
  BY <1>1, <1>3, PeopleAreTables, PlanCovers, PlanRemaps, PlanTyped DEF PlanType
<1>. HIDE DEF plan
<1>5. ASSUME NEW t \in History, NEW r \in Range(rows'[t])
      PROVE  FromDocument(t, r)'
  <2>1. PICK d \in Range(source[t]) :
          d.valid /\ r = RowOf(d, SourceId(d), Mapped(plan.map, d.owner))
    BY <1>1, <1>2, <1>4, <1>5, CandidatesAre
  <2>2. r.id = SourceId(d) /\ r.key = d.key /\ r.link = d.link /\ r.owner = Mapped(plan.map, d.owner)
    BY <2>1 DEF RowOf
  <2>. QED
    BY <1>1, <1>2, <2>1, <2>2 DEF FromDocument
<1>6. ASSUME NEW d \in Range(source["user"]), d.valid, NEW a \in Aliases(d)
      PROVE  Remapped(d, a)'
  <2>1. PICK i \in 1..Len(source["user"]) : d = source["user"][i]
    BY <1>1, PeopleAreTables, SourceFits DEF ImportTypes
  <2>2. a \in DOMAIN plan.map /\ \E u \in plan.seen : u.id = plan.map[a] /\ Names(u, d)
    BY <1>4, <1>6, <2>1 DEF PlanMaps
  <2>3. plan.seen = table["user"] \cup Range(plan.insert)
    BY <1>4 DEF PlanSoFar
  <2>. QED
    BY <1>1, <1>2, <2>2, <2>3 DEF Remapped
<1>7. ASSUME NEW d \in Range(source["delivery"]), d.valid
      PROVE  Arrives(d)'
  <2>1. CASE SourceId(d) \in known["delivery"]
    <3>1. SourceId(d) \in Ids("delivery")
      BY <2>1, HistoryTables DEF ReferencesInv, MergeInv
    <3>. QED
      BY <1>1, <3>1 DEF Ids, Arrives
  <2>2. CASE SourceId(d) \notin known["delivery"]
    <3>1. RowOf(d, SourceId(d), Mapped(plan.map, d.owner)) \in Range(rows'["delivery"])
      BY <1>1, <1>2, <1>4, <1>7, <2>2, CandidatesAre DEF History
    <3>. QED
      BY <3>1 DEF Arrives, RowOf
  <2>. QED
    BY <2>1, <2>2
<1>8. ReferencesResolve'
  BY <1>1, ReferencesGrow DEF ReferencesInv
<1>. QED
  BY <1>1, <1>5, <1>6, <1>7, <1>8 DEF ReferencesInv

LEMMA ReferencesInsert ==
  ASSUME ReferencesInv, TidySource, mode = "merge",
         NEW t \in Table, InsertBatch(t), MergeInv'
  PROVE  ReferencesInv'
<1>1. /\ ImportTypes /\ ImportTypes' /\ pc = "insert" /\ Ready(t)
      /\ UNCHANGED <<source, pc, mode, map, quiet, raced>>
      /\ \A u \in Table : u # t => table'[u] = table[u] /\ rows'[u] = rows[u]
  BY InsertSteps DEF ReferencesInv, MergeInv, past, InsertBatch
<1>2. /\ table[t] \subseteq table'[t] /\ table'[t] \subseteq table[t] \cup Range(rows[t])
      /\ Range(rows'[t]) \subseteq Range(rows[t])
      /\ \A r \in Range(rows[t]) : r \in Range(rows'[t]) \/ \E q \in table'[t] : Clash(t, q, r)
      /\ Fresh(t) => Range(rows[t]) \subseteq table'[t] \cup Range(rows'[t])
  BY <1>1, MergeTakes
<1>3. \A u \in Table : table[u] \subseteq table'[u] /\ Range(rows'[u]) \subseteq Range(rows[u])
  BY <1>1, <1>2
<1>4. \A r \in Range(rows[t]) : r.by = "merge"
  BY <1>1 DEF ImportTypes, Range
<1>5. ASSUME NEW u \in History, NEW r \in Range(rows'[u])
      PROVE  FromDocument(u, r)'
  <2>1. FromDocument(u, r)
    BY <1>1, <1>3, <1>5, HistoryTables DEF ReferencesInv
  <2>. QED
    BY <1>1, <2>1 DEF FromDocument
<1>6. ASSUME ~ raced', NEW d \in Range(source["user"]), d.valid, NEW a \in Aliases(d)
      PROVE  Remapped(d, a)'
  <2>1. Remapped(d, a)
    BY <1>1, <1>6 DEF ReferencesInv
  <2>2. t = "user" => Fresh(t)
    BY <1>1, <1>6 DEF ReferencesInv, MergeInv, IsPlanned, People
  <2>3. table["user"] \cup Range(rows["user"]) \subseteq table'["user"] \cup Range(rows'["user"])
    BY <1>1, <1>2, <2>2, PeopleAreTables
  <2>. QED
    BY <1>1, <2>1, <2>3 DEF Remapped
<1>7. ASSUME NEW d \in Range(source["delivery"]), d.valid
      PROVE  Arrives(d)'
  <2>1. Arrives(d)
    BY <1>1, <1>7 DEF ReferencesInv
  <2>2. CASE \E q \in table["delivery"] : q.id = SourceId(d) \/ Refuses(q, d)
    BY <1>3, <2>2, HistoryTables DEF Arrives, Refuses
  <2>3. ASSUME NEW q \in Range(rows["delivery"]), q.id = SourceId(d), q.key = d.key
        PROVE  Arrives(d)'
    <3>1. CASE q \in Range(rows'["delivery"])
      BY <2>3, <3>1 DEF Arrives
    <3>2. CASE q \notin Range(rows'["delivery"])
      <4>1. PICK p \in table'["delivery"] : Clash("delivery", p, q)
        BY <1>1, <1>2, <3>2, HistoryTables
      <4>2. p.id = SourceId(d) \/ (d.key # None /\ p.key = d.key /\ p.id # SourceId(d))
        BY <2>3, <4>1 DEF Clash
      <4>. QED
        BY <4>2 DEF Arrives, Refuses
    <3>. QED
      BY <3>1, <3>2
  <2>. QED
    BY <2>1, <2>2, <2>3 DEF Arrives
<1>9. ReferencesResolve
  BY DEF ReferencesInv
<1>10. HistoryHasItsUser'
  <2>. SUFFICES ASSUME ~ raced', NEW u \in History, NEW i \in DOMAIN source[u],
                       NEW r \in table'[u], NEW d \in UserDocs(source[u][i].owner),
                       r.by = "merge", r.id = SourceId(source[u][i])
                PROVE  \E v \in table'["user"] : v.id = r.owner /\ Names(v, d)
    BY <1>1 DEF HistoryHasItsUser, UserDocs, History, Names
  <2>1. \E v \in table["user"] : v.id = r.owner /\ Names(v, d)
    <3>1. CASE r \in table[u]
      BY <1>1, <1>9, <3>1 DEF ReferencesResolve, HistoryHasItsUser, History, Names
    <3>2. CASE r \notin table[u]
      <4>1. u = t /\ r \in Range(rows[t])
        BY <1>1, <1>2, <3>2, HistoryTables
      <4>. QED
        BY <1>1, <4>1, NewHasItsUser
    <3>. QED
      BY <3>1, <3>2
  <2>. QED
    BY <1>3, <2>1, PeopleAreTables
<1>11. LinksFollowDeliveries'
  <2>. SUFFICES ASSUME NEW r \in table'["link"], r.by = "merge",
                       NEW d \in Range(source["delivery"]), d.valid, SourceId(d) = r.link
                PROVE  \E q \in table'["delivery"] :
                         q.id = r.link \/ (d.key # None /\ q.key = d.key)
    BY <1>1 DEF LinksFollowDeliveries
  <2>1. \E q \in table["delivery"] : q.id = r.link \/ (d.key # None /\ q.key = d.key)
    <3>1. CASE r \in table["link"]
      BY <1>9, <3>1 DEF ReferencesResolve, LinksFollowDeliveries
    <3>2. CASE r \notin table["link"]
      <4>1. t = "link"
        BY <1>1, <3>2, HistoryTables
      <4>. QED
        BY <1>1, <4>1, NewHasItsDelivery
    <3>. QED
      BY <3>1, <3>2
  <2>. QED
    BY <1>3, <2>1, HistoryTables
<1>. QED
  BY <1>1, <1>5, <1>6, <1>7, <1>10, <1>11 DEF ReferencesInv, ReferencesResolve

LEMMA ReferencesAppAdds ==
  ASSUME ReferencesInv, AppAdds, MergeInv'
  PROVE  ReferencesInv'
<1>1. ImportTypes
  BY DEF ReferencesInv, MergeInv
<1>2. PICK w \in AppWrites :
        /\ \A t \in Table : table'[t] = table[t] \cup Added(w, t)
        /\ \A t \in Table : \A r \in Added(w, t) : r.by = "app"
        /\ raced => raced'
  BY <1>1, AppSteps
<1>3. UNCHANGED <<source, pc, map, rows>>
  BY DEF AppAdds, run
<1>4. \A t \in Table : table[t] \subseteq table'[t]
  BY <1>2
<1>5. ReferencesResolve'
  BY <1>2, <1>3, <1>4, HistoryTables, ReferencesGrow DEF ReferencesInv
<1>7. ASSUME pc' = "insert"
      PROVE  /\ \A t \in History : \A r \in Range(rows'[t]) : FromDocument(t, r)'
             /\ ~ raced' => \A d \in Range(source'["user"]) : d.valid =>
                  \A a \in Aliases(d) : Remapped(d, a)'
             /\ \A d \in Range(source'["delivery"]) : d.valid => Arrives(d)'
  <2>1. \A t \in History : \A r \in Range(rows'[t]) : FromDocument(t, r)'
    BY <1>3, <1>7 DEF ReferencesInv, FromDocument
  <2>2. \A d, a : Remapped(d, a) => Remapped(d, a)'
    BY <1>3, <1>4, PeopleAreTables DEF Remapped
  <2>3. \A d : Arrives(d) => Arrives(d)'
    BY <1>3, <1>4, HistoryTables DEF Arrives, Refuses
  <2>. QED
    BY <1>2, <1>3, <1>7, <2>1, <2>2, <2>3 DEF ReferencesInv
<1>. QED
  BY <1>1, <1>5, <1>7 DEF ReferencesInv

LEMMA ReferencesKept ==
  ASSUME Modes = {"merge"}, TidySource, ReferencesInv, [Next]_vars
  PROVE  ReferencesInv'
<1>1. MergeInv /\ MergeInv'
  BY MergeKept DEF ReferencesInv
<1>2. pc # "idle" => mode = "merge"
  BY <1>1 DEF MergeInv, ImportTypes
<1>3. CASE PlanUsers
  BY <1>1, <1>2, <1>3, ReferencesPlanned DEF PlanUsers
<1>4. CASE \E t \in Table : InsertBatch(t)
  BY <1>1, <1>2, <1>4, ReferencesInsert DEF InsertBatch, Ready
<1>5. CASE AppAdds
  BY <1>1, <1>5, ReferencesAppAdds
<1>6. ASSUME UNCHANGED <<source, table, raced>>, pc' # "insert" \/ UNCHANGED <<pc, rows, map>>
      PROVE  ReferencesInv'
  <2>1. ReferencesResolve'
    BY <1>6, ReferencesGrow DEF ReferencesInv
  <2>2. CASE pc' # "insert"
    BY <1>1, <2>1, <2>2 DEF ReferencesInv
  <2>3. CASE UNCHANGED <<pc, rows, map>>
    BY <1>1, <1>6, <2>1, <2>3 DEF ReferencesInv, FromDocument, Remapped, Arrives, Refuses
  <2>. QED
    BY <1>6, <2>2, <2>3
<1>7. CASE (\E m \in Modes : Start(m)) \/ PlanCities \/ Complete \/ Fail \/ Die \/ UNCHANGED vars
  BY <1>6, <1>7 DEF Start, PlanCities, Complete, Fail, Die, Leave, vars, run, past
<1>. QED
  BY <1>3, <1>4, <1>5, <1>7 DEF Next, RunGoesOn

(* Wherever a merge died and whatever the application wrote meanwhile:     *)
(* what was imported of a user belongs to a row of that user, unless users *)
(* were added behind the plan of a run, and an imported link has its       *)
(* delivery unless that gave way to another of the same order.             *)
THEOREM HistoryIsRemapped ==
  ASSUME Modes = {"merge"}, TidySource
  PROVE  Spec => []ReferencesResolve
<1>1. ReferencesInv /\ [Next]_vars => ReferencesInv'
  BY ReferencesKept
<1>2. Spec => []ReferencesInv
  BY <1>1, ReferencesStart, PTL DEF Spec
<1>. QED
  BY <1>2, PTL DEF ReferencesInv
=============================================================================
