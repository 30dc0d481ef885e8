--------------------------- MODULE ListingsProofs ---------------------------
(***************************************************************************)
(* Proofs about Paging, for lists and pages of any length: no row is left  *)
(* out, none is on two pages, no page is empty or too long; and about      *)
(* Listings, for any users, deliveries, queries and times: the counters    *)
(* agree, no page skips a delivery, and a settlement charges what the      *)
(* dashboard counts.                                                       *)
(***************************************************************************)
EXTENDS Listings, FiniteSetTheorems, SequenceTheorems, WellFoundedInduction, TLAPS

(* The row that is the j-th of page i.                                     *)
RowOf(first, size, i, j) == first + (i - 1) * size + j

-----------------------------------------------------------------------------
(* Arithmetic                                                              *)

LEMMA Division ==
  ASSUME NEW a \in Nat, NEW b \in Nat \ {0}
  PROVE  /\ a \div b \in Nat /\ a % b \in Nat
         /\ a = (a \div b) * b + (a % b) /\ a % b < b
OBVIOUS

LEMMA Distributes ==
  ASSUME NEW i \in Int, NEW b \in Nat
  PROVE  i * b = (i - 1) * b + b /\ (i + 1) * b = i * b + b /\ i * b \in Int
OBVIOUS

LEMMA Monotone ==
  ASSUME NEW i \in Int, NEW k \in Int, i <= k, NEW b \in Nat
  PROVE  i * b <= k * b
OBVIOUS

LEMMA StrictlyMonotone ==
  ASSUME NEW i \in Int, NEW k \in Int, i < k, NEW b \in Nat
  PROVE  i * b + b <= k * b
<1>1. (i + 1) * b <= k * b
  BY Monotone
<1>. QED
  BY <1>1, Distributes

(* The cuts of n rows behind the first: the last of them begins before the *)
(* end of the list, and there is no room for another.                      *)
LEMMA CutsFit ==
  ASSUME NEW n \in Nat, NEW first \in Nat, NEW size \in Nat \ {0}
  PROVE  /\ NumberOfCuts(n, first, size) \in Nat
         /\ n <= first => NumberOfCuts(n, first, size) = 0
         /\ n > first => /\ (NumberOfCuts(n, first, size) - 1) * size < n - first
                         /\ n - first <= NumberOfCuts(n, first, size) * size
<1>1. CASE n <= first
  BY <1>1 DEF NumberOfCuts
<1>2. CASE n > first
  <2>. DEFINE a == n - first + size - 1
              q == a \div size
              r == a % size
  <2>1. a \in Nat /\ a = n - first + size - 1
    BY <1>2
  <2>2. q \in Nat /\ r \in Nat /\ a = q * size + r /\ r < size
    BY <2>1, Division
  <2>3. q * size = (q - 1) * size + size /\ q * size \in Int /\ (q - 1) * size \in Int
    BY <2>2, Distributes
  <2>. HIDE DEF q, r, a
  <2>4. (q - 1) * size < n - first /\ n - first <= q * size
    BY <2>1, <2>2, <2>3
  <2>5. NumberOfCuts(n, first, size) = q
    BY <1>2 DEF NumberOfCuts, q, a
  <2>. QED
    BY <1>2, <2>2, <2>4, <2>5
<1>. QED
  BY <1>1, <1>2

-----------------------------------------------------------------------------
(* Pages                                                                   *)

(* Page i of the rows behind the first: its rows and its length.           *)
PageFits(s, first, size, i) ==
  LET page == Chunks(s, first, size)[i] IN
  /\ Len(page) \in 1..size
  /\ Len(page) = IF first + i * size <= Len(s) THEN size ELSE Len(s) - first - (i - 1) * size
  /\ \A j \in 1..Len(page) : /\ RowOf(first, size, i, j) \in (first + 1)..Len(s)
                             /\ page[j] = s[RowOf(first, size, i, j)]

LEMMA PageIsSlice ==
  ASSUME NEW S, NEW s \in Seq(S), NEW first \in Nat, NEW size \in Nat \ {0},
         NEW i \in 1..NumberOfCuts(Len(s), first, size)
  PROVE  PageFits(s, first, size, i)
<1>. DEFINE n == Len(s)
            cuts == NumberOfCuts(n, first, size)
            q == (i - 1) * size
            to == AtMost(first + i * size, n)
            page == Chunks(s, first, size)[i]
<1>1. n \in Nat /\ cuts \in Nat /\ i \in 1..cuts /\ i \in Int
  BY CutsFit
<1>2. n > first /\ (cuts - 1) * size < n - first
  <2>1. /\ n <= first => cuts = 0
        /\ n > first => (cuts - 1) * size < n - first
    BY <1>1, CutsFit
  <2>. HIDE DEF n, cuts
  <2>. QED
    BY <1>1, <2>1
<1>3. q <= (cuts - 1) * size /\ q \in Int /\ i * size = q + size /\ (cuts - 1) * size \in Int
  BY <1>1, Monotone, Distributes
<1>4. 0 * size <= q
  BY <1>1, Monotone
<1>5. q \in Nat /\ q < n - first
  BY <1>1, <1>2, <1>3, <1>4
<1>6. page = SubSeq(s, first + q + 1, to)
  BY <1>1 DEF Chunks, Slice
<1>7. to \in Nat /\ to <= n /\ to >= first + q + 1
      /\ to = IF first + q + size <= n THEN first + q + size ELSE n
  BY <1>1, <1>3, <1>5 DEF AtMost
<1>. HIDE DEF q, to, n, cuts
<1>8. /\ page \in Seq(S) /\ Len(page) = to - (first + q)
      /\ \A j \in 1..Len(page) : page[j] = s[first + q + j]
  <2>. DEFINE m == first + q + 1
  <2>1. m \in 1..n /\ to \in m..n /\ m = first + q + 1
    BY <1>1, <1>5, <1>7
  <2>. HIDE DEF m, page
  <2>2. page = SubSeq(s, m, to)
    BY <1>6, <2>1
  <2>3. n = Len(s)
    BY DEF n
  <2>4. page = [j \in 1..(to - m + 1) |-> s[m + j - 1]]
    BY <2>1, <2>2, <2>3
  <2>5. \A j \in 1..(to - m + 1) : m + j - 1 \in 1..n /\ s[m + j - 1] \in S
    BY <1>1, <2>1, <2>3
  <2>6. to - m + 1 \in Nat
    BY <1>1, <2>1
  <2>7. page \in Seq(S) /\ Len(page) = to - m + 1
    BY <2>4, <2>5, <2>6
  <2>8. ASSUME NEW j \in 1..Len(page)
        PROVE  page[j] = s[first + q + j]
    <3>1. m + j - 1 = first + q + j
      BY <1>1, <1>5, <2>1, <2>6, <2>7
    <3>2. page[j] = s[m + j - 1]
      BY <2>4, <2>7
    <3>. QED
      BY <3>1, <3>2
  <2>9. to - m + 1 = to - (first + q)
    BY <1>1, <1>5, <1>7, <2>1
  <2>. QED
    BY <2>7, <2>8, <2>9
<1>9. Len(page) \in 1..size
  BY <1>1, <1>5, <1>7, <1>8
<1>10. Len(page) = IF first + i * size <= n THEN size ELSE n - first - q
  BY <1>1, <1>3, <1>5, <1>7, <1>8
<1>11. \A j \in 1..Len(page) : first + q + j \in (first + 1)..n
  BY <1>1, <1>5, <1>7, <1>8
<1>. QED
  BY <1>8, <1>9, <1>10, <1>11 DEF PageFits, RowOf, q, n

(* The page and place of a row.                                            *)
LEMMA RowHasPage ==
  ASSUME NEW n \in Nat, NEW first \in Nat, NEW size \in Nat \ {0},
         NEW k \in (first + 1)..n
  PROVE  \E i \in 1..NumberOfCuts(n, first, size), j \in 1..size : k = RowOf(first, size, i, j)
<1>. DEFINE a == k - first - 1
            q == a \div size
            r == a % size
            cuts == NumberOfCuts(n, first, size)
<1>1. a \in Nat
  OBVIOUS
<1>2. q \in Nat /\ r \in Nat /\ a = q * size + r /\ r < size
  BY <1>1, Division
<1>3. cuts \in Nat /\ n - first <= cuts * size
  BY CutsFit
<1>4. q < cuts
  <2>. SUFFICES ASSUME cuts <= q
                PROVE  FALSE
    BY <1>2, <1>3
  <2>1. cuts * size <= q * size
    BY <1>2, <1>3, Monotone
  <2>2. cuts * size \in Int /\ q * size \in Int
    BY <1>2, <1>3, Distributes
  <2>3. a < n - first
    OBVIOUS
  <2>. HIDE DEF q, r, a, cuts
  <2>. QED
    BY <1>1, <1>2, <1>3, <2>1, <2>2, <2>3
<1>5. k = a + first + 1 /\ q * size \in Int
  BY <1>2, Distributes
<1>. HIDE DEF q, r, a, cuts
<1>6. q + 1 \in 1..cuts /\ r + 1 \in 1..size
  BY <1>2, <1>3, <1>4
<1>7. k = first + q * size + (r + 1)
  BY <1>1, <1>2, <1>5
<1>8. (q + 1) - 1 = q
  BY <1>2
<1>9. k = RowOf(first, size, q + 1, r + 1)
  BY <1>7, <1>8 DEF RowOf
<1>. QED
  BY <1>6, <1>9 DEF cuts

(* No row has two.                                                         *)
Apart(first, size, i, j, k, l) ==
  RowOf(first, size, i, j) = RowOf(first, size, k, l) => i = k /\ j = l

LEMMA PagesAreApart ==
  ASSUME NEW first \in Nat, NEW size \in Nat \ {0},
         NEW i \in Int, NEW j \in 1..size, NEW k \in Int, NEW l \in 1..size
  PROVE  Apart(first, size, i, j, k, l)
<1>. SUFFICES ASSUME RowOf(first, size, i, j) = RowOf(first, size, k, l)
              PROVE  i = k /\ j = l
  BY DEF Apart
<1>. DEFINE p == (i - 1) * size
            q == (k - 1) * size
<1>1. p \in Int /\ q \in Int
  BY Distributes
<1>2. first + p + j = first + q + l
  BY DEF RowOf
<1>3. i < k => p + size <= q
  BY StrictlyMonotone
<1>4. k < i => q + size <= p
  BY StrictlyMonotone
<1>5. i = k => p = q
  OBVIOUS
<1>. HIDE DEF p, q
<1>. QED
  BY <1>1, <1>2, <1>3, <1>4, <1>5

-----------------------------------------------------------------------------
(* What the two lists show                                                 *)

LEMMA RowIsShown ==
  ASSUME NEW S, NEW s \in Seq(S), NEW first \in Nat, NEW size \in Nat \ {0},
         NEW k \in (first + 1)..Len(s)
  PROVE  \E i \in 1..NumberOfCuts(Len(s), first, size) :
           \E j \in 1..Len(Chunks(s, first, size)[i]) :
             /\ RowOf(first, size, i, j) = k
             /\ Chunks(s, first, size)[i][j] = s[k]
<1>0. Len(s) \in Nat
  OBVIOUS
<1>1. PICK i \in 1..NumberOfCuts(Len(s), first, size), j \in 1..size :
        k = RowOf(first, size, i, j)
  BY <1>0, RowHasPage
<1>. DEFINE page == Chunks(s, first, size)[i]
            q == (i - 1) * size
<1>3. NumberOfCuts(Len(s), first, size) \in Nat /\ i \in Int
  BY <1>0, CutsFit
<1>2. /\ Len(page) \in 1..size
      /\ Len(page) = IF first + i * size <= Len(s) THEN size ELSE Len(s) - first - q
      /\ \A l \in 1..Len(page) : page[l] = s[RowOf(first, size, i, l)]
  <2>1. PageFits(s, first, size, i)
    BY PageIsSlice
  <2>. QED
    BY <2>1 DEF PageFits
<1>4. q \in Int
  BY <1>3, Distributes
<1>5. k = first + q + j
  BY <1>1 DEF RowOf
<1>. HIDE DEF page, q
<1>6. j \in 1..Len(page)
  BY <1>2, <1>4, <1>5
<1>7. page[j] = s[k]
  BY <1>1, <1>2, <1>6
<1>. QED
  BY <1>1, <1>6, <1>7 DEF page

(* chunkMerchants: every merchant of a poll is in one batch, at one place, *)
(* and iFood is never sent an empty batch or more than it takes.           *)
THEOREM MerchantsInOneBatch ==
  ASSUME NEW S, NEW merchants \in Seq(S), NEW size \in Nat \ {0}
  PROVE  LET batches == chunkMerchants(merchants, size) IN
         /\ \A i \in DOMAIN batches : Len(batches[i]) \in 1..size
         /\ \A k \in DOMAIN merchants : \E i \in DOMAIN batches : \E j \in 1..Len(batches[i]) :
              RowOf(0, size, i, j) = k /\ batches[i][j] = merchants[k]
         /\ \A i, g \in DOMAIN batches, j, l \in 1..size :
              RowOf(0, size, i, j) = RowOf(0, size, g, l) => i = g /\ j = l
<1>1. ASSUME NEW z \in Nat, z = 0
      PROVE  LET batches == Chunks(merchants, z, size) IN
             /\ \A i \in DOMAIN batches : Len(batches[i]) \in 1..size
             /\ \A k \in DOMAIN merchants :
                  \E i \in DOMAIN batches : \E j \in 1..Len(batches[i]) :
                    RowOf(z, size, i, j) = k /\ batches[i][j] = merchants[k]
             /\ \A i, g \in DOMAIN batches, j, l \in 1..size :
                  RowOf(z, size, i, j) = RowOf(z, size, g, l) => i = g /\ j = l
  <2>. DEFINE batches == Chunks(merchants, z, size)
              cuts == NumberOfCuts(Len(merchants), z, size)
  <2>0. Len(merchants) \in Nat
    OBVIOUS
  <2>1. cuts \in Nat
    BY <2>0, CutsFit
  <2>2. DOMAIN batches = 1..cuts
    BY DEF Chunks
  <2>3. \A i \in 1..cuts : Len(batches[i]) \in 1..size
    BY PageIsSlice DEF PageFits
  <2>4. \A k \in (z + 1)..Len(merchants) :
          \E i \in 1..cuts : \E j \in 1..Len(batches[i]) :
            RowOf(z, size, i, j) = k /\ batches[i][j] = merchants[k]
    BY RowIsShown
  <2>5. \A i, g \in 1..cuts, j, l \in 1..size :
          RowOf(z, size, i, j) = RowOf(z, size, g, l) => i = g /\ j = l
    <3>1. 1..cuts \subseteq Int
      BY <2>1
    <3>. HIDE DEF cuts
    <3>2. \A i, g \in 1..cuts, j, l \in 1..size : Apart(z, size, i, j, g, l)
      BY <3>1, PagesAreApart
    <3>. QED
      BY <3>2 DEF Apart
  <2>6. DOMAIN merchants = (z + 1)..Len(merchants)
    BY <1>1, <2>0
  <2>. QED
    BY <2>2, <2>3, <2>4, <2>5, <2>6
<1>. QED
  BY <1>1 DEF chunkMerchants

(* The row that is the j-th of page p of a settlement.                     *)
SettlementRow(firstPageRows, nextPageRows, p, j) ==
  IF p = 1 THEN j ELSE RowOf(firstPageRows, nextPageRows, p - 1, j)

LEMMA SettlementPage ==
  ASSUME NEW S, NEW rows \in Seq(S), NEW f \in Nat \ {0}, NEW m \in Nat \ {0}
  PROVE  LET pages == SettlementPages(rows, f, m)
             cuts == NumberOfCuts(Len(rows), f, m) IN
         /\ cuts \in Nat /\ DOMAIN pages = 1..(cuts + 1) /\ Len(pages) = cuts + 1
         /\ pages[1] = Slice(rows, 0, f)
         /\ \A p \in 2..(cuts + 1) : pages[p] = Chunks(rows, f, m)[p - 1]
         /\ Len(pages[1]) = AtMost(f, Len(rows))
         /\ \A j \in 1..Len(pages[1]) : pages[1][j] = rows[j]
<1>. DEFINE cuts == NumberOfCuts(Len(rows), f, m)
            first == Slice(rows, 0, f)
            rest == Chunks(rows, f, m)
            to == AtMost(f, Len(rows))
<1>1. cuts \in Nat
  <2>1. Len(rows) \in Nat
    OBVIOUS
  <2>. QED
    BY <2>1, CutsFit
<1>2. rest = [i \in 1..cuts |-> Slice(rows, f + (i - 1) * m, f + i * m)]
  BY DEF Chunks
<1>. HIDE DEF cuts
<1>3. to \in 0..Len(rows)
  BY DEF AtMost
<1>4. first = SubSeq(rows, 1, to)
  BY DEF Slice
<1>. HIDE DEF to, first
<1>5. Len(first) = to /\ \A j \in 1..to : first[j] = rows[j]
  BY <1>3, <1>4
<1>6. Len(rest) = cuts /\ rest \in Seq({rest[i] : i \in 1..cuts})
  <2>. HIDE DEF rest
  <2>1. DOMAIN rest = 1..cuts /\ rest = [i \in 1..cuts |-> rest[i]]
    BY <1>2
  <2>. QED
    BY <1>1, <2>1
<1>. HIDE DEF rest
<1>7. LET pages == <<first>> \o rest IN
      /\ DOMAIN pages = 1..(cuts + 1) /\ Len(pages) = cuts + 1 /\ pages[1] = first
      /\ \A p \in 2..(cuts + 1) : pages[p] = rest[p - 1]
  BY <1>1, <1>6
<1>8. SettlementPages(rows, f, m) = <<first>> \o rest
  BY DEF SettlementPages, first, rest
<1>. QED
  BY <1>1, <1>5, <1>7, <1>8 DEF cuts, rest, to, first

(* The pages of a settlement: every row of a period is on one page, at one *)
(* place, though the first page has less room than the others.             *)
THEOREM RowsOnOnePage ==
  ASSUME NEW S, NEW rows \in Seq(S), NEW f \in Nat \ {0}, NEW m \in Nat \ {0}
  PROVE  LET pages == SettlementPages(rows, f, m) IN
         /\ Len(pages[1]) <= f
         /\ \A p \in DOMAIN pages \ {1} : Len(pages[p]) \in 1..m
         /\ \A k \in DOMAIN rows : \E p \in DOMAIN pages : \E j \in 1..Len(pages[p]) :
              SettlementRow(f, m, p, j) = k /\ pages[p][j] = rows[k]
         /\ \A p, q \in DOMAIN pages :
              \A j \in 1..Len(pages[p]), l \in 1..Len(pages[q]) :
                SettlementRow(f, m, p, j) = SettlementRow(f, m, q, l) => p = q /\ j = l
<1>. DEFINE pages == SettlementPages(rows, f, m)
            rest == Chunks(rows, f, m)
            cuts == NumberOfCuts(Len(rows), f, m)
<1>1. /\ cuts \in Nat /\ DOMAIN pages = 1..(cuts + 1)
      /\ \A p \in 2..(cuts + 1) : pages[p] = rest[p - 1]
      /\ Len(pages[1]) = AtMost(f, Len(rows))
      /\ \A j \in 1..Len(pages[1]) : pages[1][j] = rows[j]
  BY SettlementPage
<1>2. \A i \in 1..cuts :
        /\ Len(rest[i]) \in 1..m
        /\ \A j \in 1..Len(rest[i]) : RowOf(f, m, i, j) \in (f + 1)..Len(rows)
  <2>1. \A i \in 1..cuts : PageFits(rows, f, m, i)
    BY PageIsSlice
  <2>. QED
    BY <2>1 DEF PageFits
<1>3. \A k \in (f + 1)..Len(rows) : \E i \in 1..cuts : \E j \in 1..Len(rest[i]) :
        RowOf(f, m, i, j) = k /\ rest[i][j] = rows[k]
  BY RowIsShown
<1>. HIDE DEF pages, rest, cuts
<1>4. Len(pages[1]) \in Nat /\ Len(pages[1]) <= f /\ Len(pages[1]) <= Len(rows)
      /\ (Len(pages[1]) = f \/ Len(pages[1]) = Len(rows))
  BY <1>1 DEF AtMost
<1>5. \A p \in DOMAIN pages \ {1} : p - 1 \in 1..cuts /\ pages[p] = rest[p - 1]
  BY <1>1
<1>6. \A p \in DOMAIN pages \ {1} : Len(pages[p]) \in 1..m
  BY <1>2, <1>5
<1>7. ASSUME NEW k \in DOMAIN rows
      PROVE  \E p \in DOMAIN pages : \E j \in 1..Len(pages[p]) :
               SettlementRow(f, m, p, j) = k /\ pages[p][j] = rows[k]
  <2>1. CASE k <= Len(pages[1])
    <3>1. 1 \in DOMAIN pages /\ k \in 1..Len(pages[1])
      BY <1>1, <1>4, <2>1
    <3>. QED
      BY <1>1, <3>1 DEF SettlementRow
  <2>2. CASE k > Len(pages[1])
    <3>1. k \in (f + 1)..Len(rows)
      BY <1>4, <2>2
    <3>2. PICK i \in 1..cuts : \E j \in 1..Len(rest[i]) :
            RowOf(f, m, i, j) = k /\ rest[i][j] = rows[k]
      BY <1>3, <3>1
    <3>3. /\ i + 1 \in DOMAIN pages /\ i + 1 # 1 /\ (i + 1) - 1 = i
          /\ i + 1 \in 2..(cuts + 1)
      BY <1>1, <3>2
    <3>4. pages[i + 1] = rest[i]
      BY <1>1, <3>3
    <3>5. \A j \in Nat : SettlementRow(f, m, i + 1, j) = RowOf(f, m, i, j)
      BY <3>3 DEF SettlementRow
    <3>6. PICK j \in 1..Len(rest[i]) : RowOf(f, m, i, j) = k /\ rest[i][j] = rows[k]
      BY <3>2
    <3>7. j \in Nat
      OBVIOUS
    <3>8. /\ j \in 1..Len(pages[i + 1])
          /\ SettlementRow(f, m, i + 1, j) = k /\ pages[i + 1][j] = rows[k]
      BY <3>4, <3>5, <3>6, <3>7
    <3>. QED
      BY <3>3, <3>8
  <2>3. k \in Nat
    OBVIOUS
  <2>. QED
    BY <1>4, <2>1, <2>2, <2>3
<1>8. ASSUME NEW p \in DOMAIN pages, NEW j \in 1..Len(pages[p])
      PROVE  IF p = 1 THEN SettlementRow(f, m, p, j) <= f
             ELSE SettlementRow(f, m, p, j) \in (f + 1)..Len(rows) /\ j \in 1..m /\ p - 1 \in Int
  <2>1. CASE p = 1
    BY <1>4, <2>1 DEF SettlementRow
  <2>2. CASE p # 1
    <3>1. p - 1 \in 1..cuts /\ pages[p] = rest[p - 1]
      BY <1>5, <2>2
    <3>2. Len(rest[p - 1]) \in 1..m /\ RowOf(f, m, p - 1, j) \in (f + 1)..Len(rows)
      BY <1>2, <3>1
    <3>. QED
      BY <2>2, <3>1, <3>2 DEF SettlementRow
  <2>. QED
    BY <2>1, <2>2
<1>9. ASSUME NEW p \in DOMAIN pages, NEW q \in DOMAIN pages,
             NEW j \in 1..Len(pages[p]), NEW l \in 1..Len(pages[q]),
             SettlementRow(f, m, p, j) = SettlementRow(f, m, q, l)
      PROVE  p = q /\ j = l
  <2>1. CASE p = 1 /\ q = 1
    BY <1>9, <2>1 DEF SettlementRow
  <2>2. CASE p # 1 /\ q # 1
    <3>1. /\ j \in 1..m /\ l \in 1..m /\ p - 1 \in Int /\ q - 1 \in Int
          /\ RowOf(f, m, p - 1, j) = RowOf(f, m, q - 1, l)
      BY <1>8, <1>9, <2>2 DEF SettlementRow
    <3>. DEFINE a == p - 1
                b == q - 1
    <3>5. a \in Int /\ b \in Int /\ RowOf(f, m, a, j) = RowOf(f, m, b, l)
      BY <3>1
    <3>. HIDE DEF a, b
    <3>6. Apart(f, m, a, j, b, l)
      BY <3>1, <3>5, PagesAreApart
    <3>2. p - 1 = q - 1 /\ j = l
      BY <3>5, <3>6 DEF Apart, a, b
    <3>. QED
      BY <1>1, <3>2
  <2>3. CASE (p = 1) # (q = 1)
    <3>1. SettlementRow(f, m, p, j) <= f => p = 1
      BY <1>8
    <3>2. SettlementRow(f, m, q, l) <= f => q = 1
      BY <1>8
    <3>. QED
      BY <1>8, <1>9, <2>3, <3>1, <3>2
  <2>. QED
    BY <2>1, <2>2, <2>3
<1>. QED
  BY <1>4, <1>6, <1>7, <1>9 DEF pages

-----------------------------------------------------------------------------
(* What Listings keeps: every document is of its kind, and nobody appears  *)
(* who was not there at the start.                                         *)

User == [type : STRING, city : City \cup {None}]
AreDocuments(docs) ==
  DOMAIN docs \subseteq Delivery /\ \A d \in DOMAIN docs : docs[d] \in Document

ListingsTypes ==
  /\ DOMAIN users \subseteq DOMAIN InitialUsers
  /\ \A u \in DOMAIN users : users[u] \in User
  /\ AreDocuments(stored) /\ AreDocuments(coming)
  /\ DOMAIN stored \cap DOMAIN coming = {}
  /\ clock \in Nat

LEMMA OneMoreDocument ==
  ASSUME NEW docs, AreDocuments(docs), NEW d \in Delivery, NEW doc \in Document
  PROVE  AreDocuments(With(docs, d, doc))
BY DEF AreDocuments, With

LEMMA TypesInit == Init => ListingsTypes
<1>. SUFFICES ASSUME Init PROVE ListingsTypes
  OBVIOUS
<1>1. PICK e \in Existing : stored = e.stored /\ coming = e.coming
  BY DEF Init
<1>. QED
  BY <1>1, ListingsAssumption DEF Init, ListingsTypes, AreDocuments, User

LEMMA TypesNext == ListingsTypes /\ [Next]_vars => ListingsTypes'
<1>. SUFFICES ASSUME ListingsTypes, [Next]_vars PROVE ListingsTypes'
  OBVIOUS
<1>. USE DEF ListingsTypes
<1>1. ASSUME NEW d \in Delivery, NEW s \in DOMAIN users, NEW m \in Anyone,
             NEW status \in {Pending, AwaitingRelease}, StartCreation(d, s, status, m)
      PROVE  ListingsTypes'
  <2>. DEFINE doc == [created |-> clock, store |-> s, city |-> users[s].city,
                      active |-> TRUE, driver |-> m,
                      status |-> IF m = None THEN status ELSE "ACAMINHO"]
  <2>1. doc \in Document
    <3>1. users[s].city \in City \cup {None}
      BY DEF User
    <3>2. (IF m = None THEN status ELSE "ACAMINHO") \in Statuses
      BY ListingsAssumption
    <3>3. s \in Anyone
      BY DEF Anyone
    <3>. QED
      BY <3>1, <3>2, <3>3 DEF Document
  <2>2. AreDocuments(With(coming, d, doc))
    BY <2>1, OneMoreDocument
  <2>3. coming' = With(coming, d, doc)
    BY <1>1 DEF StartCreation
  <2>4. UNCHANGED <<users, stored, clock>>
    BY <1>1 DEF StartCreation
  <2>. HIDE DEF doc
  <2>5. AreDocuments(coming)' /\ AreDocuments(stored)'
    BY <2>2, <2>3, <2>4 DEF AreDocuments
  <2>6. DOMAIN stored' \cap DOMAIN coming' = {}
    BY <1>1, <2>3, <2>4 DEF StartCreation, With
  <2>. QED
    BY <2>4, <2>5, <2>6
<1>2. ASSUME NEW d \in Delivery, StoreCreation(d)
      PROVE  ListingsTypes'
  <2>1. coming[d] \in Document
    BY <1>2 DEF StoreCreation, AreDocuments
  <2>2. AreDocuments(With(stored, d, coming[d]))
    BY <2>1, OneMoreDocument
  <2>3. AreDocuments([e \in DOMAIN coming \ {d} |-> coming[e]])
    BY DEF AreDocuments
  <2>4. /\ stored' = With(stored, d, coming[d])
        /\ coming' = [e \in DOMAIN coming \ {d} |-> coming[e]]
        /\ UNCHANGED <<users, clock>>
    BY <1>2 DEF StoreCreation
  <2>5. AreDocuments(stored)' /\ AreDocuments(coming)'
    BY <2>2, <2>3, <2>4 DEF AreDocuments
  <2>6. DOMAIN stored' \cap DOMAIN coming' = {}
    BY <2>4 DEF With
  <2>. QED
    BY <2>4, <2>5, <2>6
<1>3. ASSUME NEW d \in Delivery, d \in DOMAIN stored, NEW status \in Statuses,
             NEW active \in BOOLEAN, NEW place \in Places(d),
             NEW m \in OfType({"motoboy"}) \cup {None, stored[d].driver},
             SaveDelivery(d, status, active, m, place)
      PROVE  ListingsTypes'
  <2>. DEFINE doc == [created |-> stored[d].created, store |-> place.store,
                      city |-> place.city, active |-> active, driver |-> m,
                      status |-> status]
  <2>1. stored[d] \in Document
    BY <1>3 DEF AreDocuments
  <2>2. m \in Anyone
    BY <2>1 DEF OfType, Anyone, Document
  <2>3. place.store \in Anyone /\ place.city \in City \cup {None}
    BY <2>1 DEF Places, Anyone, Document, User
  <2>4. doc \in Document
    BY <2>1, <2>2, <2>3 DEF Document
  <2>5. stored' = [stored EXCEPT ![d] = doc] /\ UNCHANGED <<users, coming, clock>>
    BY <1>3 DEF SaveDelivery
  <2>. HIDE DEF doc
  <2>6. /\ DOMAIN stored' = DOMAIN stored /\ stored'[d] = doc
        /\ \A e \in DOMAIN stored : e # d => stored'[e] = stored[e]
    BY <1>3, <2>5
  <2>7. AreDocuments(stored)' /\ AreDocuments(coming)'
    BY <2>4, <2>5, <2>6 DEF AreDocuments
  <2>. QED
    BY <2>5, <2>6, <2>7
<1>4. ASSUME NEW u \in DOMAIN InitialUsers, NEW c \in City, MoveUser(u, c)
      PROVE  ListingsTypes'
  <2>1. /\ u \in DOMAIN users /\ users' = [users EXCEPT ![u].city = c]
        /\ UNCHANGED <<stored, coming, clock>>
    BY <1>4 DEF MoveUser
  <2>2. users'[u] = [users[u] EXCEPT !.city = c]
    BY <2>1
  <2>3. users'[u] \in User
    BY <2>1, <2>2 DEF User
  <2>4. \A v \in DOMAIN users' : users'[v] \in User
    BY <2>1, <2>3
  <2>. QED
    BY <2>1, <2>4 DEF AreDocuments
<1>5. ASSUME NEW u \in DOMAIN InitialUsers, DeleteUser(u)
      PROVE  ListingsTypes'
  BY <1>5 DEF DeleteUser, AreDocuments
<1>6. CASE Tick
  BY <1>6 DEF Tick, AreDocuments
<1>7. CASE AskPage
  BY <1>7 DEF AskPage, AreDocuments
<1>8. CASE ReadPage
  BY <1>8 DEF ReadPage, AreDocuments
<1>9. CASE UNCHANGED vars
  BY <1>9 DEF vars, AreDocuments
<1>. QED
  BY <1>1, <1>2, <1>3, <1>4, <1>5, <1>6, <1>7, <1>8, <1>9 DEF Next

LEMMA ListingsTypeCorrect == Spec => []ListingsTypes
BY TypesInit, TypesNext, PTL DEF Spec

-----------------------------------------------------------------------------
(* The number beside a driver's name.                                      *)

LEMMA ListedAreUsers ==
  ASSUME ListingsTypes, NEW u, NEW m \in ListedMotoboys(u)
  PROVE  m \in DOMAIN users /\ m \in Anyone /\ m # None
BY ListingsAssumption DEF ListingsTypes, ListedMotoboys, OfType, Anyone

(* What the aggregation groups under a driver is what the query for that   *)
(* driver finds; a driver without a group has nothing to be found.         *)
LEMMA SummariesMatch ==
  ASSUME ListingsTypes, NEW u \in DOMAIN users, NEW m \in ListedMotoboys(u)
  PROVE  SummariesOptimized(u)[m] = SummariesLegacy(u)[m]
<1>. DEFINE running == Statuses \ {Finished, Canceled}
            cities == OnlyIfGiven(users[u].city, All.city)
            match == [All EXCEPT !.active = {TRUE}, !.driver = ListedMotoboys(u),
                                 !.status = running, !.city = cities]
            mine(r) == [All EXCEPT !.active = {TRUE}, !.driver = {r},
                                   !.status = running, !.city = cities]
            Of(r) == {d \in Found(match) : stored[d].driver = r}
            group == [r \in {stored[d].driver : d \in Found(match)} |-> Cardinality(Of(r))]
<1>1. Of(m) = Found(mine(m))
  BY DEF Found, Passes, All
<1>2. SummariesLegacy(u)[m] = Cardinality(Found(mine(m)))
  BY DEF SummariesLegacy, All
<1>3. SummariesOptimized(u)[m] = IF m \in DOMAIN group THEN group[m] ELSE 0
  BY DEF SummariesOptimized, All
<1>4. CASE m \in DOMAIN group
  BY <1>1, <1>2, <1>3, <1>4
<1>5. CASE m \notin DOMAIN group
  <2>1. Of(m) = {}
    BY <1>5
  <2>. QED
    BY <1>1, <1>2, <1>3, <1>5, <2>1, FS_EmptySet
<1>. QED
  BY <1>4, <1>5

(* An administrator's list of that driver's running deliveries.            *)
LEMMA ListMatches ==
  ASSUME ListingsTypes, NEW u \in OfType(Admins), NEW m \in ListedMotoboys(u)
  PROVE  SummariesLegacy(u)[m] =
           Cardinality(Found(buildDeliveriesWhere(u,
             [status |-> Statuses \ {Finished, Canceled}, driver |-> m, store |-> None,
              city |-> None, createdIn |-> None, createdUntil |-> None])))
<1>. DEFINE running == Statuses \ {Finished, Canceled}
            query == [status |-> running, driver |-> m, store |-> None, city |-> None,
                      createdIn |-> None, createdUntil |-> None]
            list == buildDeliveriesWhere(u, query)
            mine == [All EXCEPT !.active = {TRUE}, !.driver = {m}, !.status = running,
                                !.city = OnlyIfGiven(users[u].city, All.city)]
<1>1. u \in DOMAIN users /\ users[u].type \in Admins
  BY DEF OfType
<1>2. users[u].type # "motoboy" /\ users[u].type \notin Shopkeepers
  BY <1>1 DEF Admins, Shopkeepers
<1>3. running # {} /\ Canceled \notin running
  BY ListingsAssumption DEF Pending, Finished, Canceled
<1>4. m # None
  BY ListedAreUsers
<1>5. applyCityWhere(users[u], None) = OnlyIfGiven(users[u].city, City \cup {None})
  <2>1. CASE users[u].type = "superadmin"
    BY <2>1 DEF applyCityWhere, FirstGiven
  <2>2. CASE users[u].type # "superadmin"
    <3>1. users[u].city # None
      BY <2>2 DEF ListedMotoboys
    <3>. QED
      BY <2>2, <3>1 DEF applyCityWhere, OnlyIfGiven
  <2>. QED
    BY <2>1, <2>2
<1>6. list = mine
  <2>. DEFINE where == [active |-> {TRUE}, city |-> OnlyIfGiven(users[u].city, City \cup {None}),
                        status |-> running, store |-> Anyone, driver |-> {m},
                        from |-> 0, until |-> MaxTime]
  <2>1. query.status = running /\ query.driver = m /\ query.store = None
        /\ query.city = None /\ query.createdIn = None /\ query.createdUntil = None
    OBVIOUS
  <2>2. From(query) = 0 /\ Until(query) = MaxTime
    BY <2>1 DEF From, Until, FirstGiven
  <2>. HIDE DEF query, running
  <2>3. /\ (IF Canceled \in query.status THEN BOOLEAN ELSE {TRUE}) = {TRUE}
        /\ (IF query.status = {} THEN Statuses ELSE query.status) = running
        /\ OnlyIfGiven(query.store, Anyone) = Anyone
        /\ OnlyIfGiven(query.driver, Anyone) = {m}
        /\ applyCityWhere(users[u], query.city) = OnlyIfGiven(users[u].city, City \cup {None})
    BY <1>3, <1>4, <1>5, <2>1 DEF OnlyIfGiven
  <2>. DEFINE asked == IF query.status = {} THEN Statuses ELSE query.status
              active == IF Canceled \in query.status THEN BOOLEAN ELSE {TRUE}
              given == OnlyIfGiven(query.store, Anyone)
              driver == OnlyIfGiven(query.driver, Anyone)
              city == applyCityWhere(users[u], query.city)
              from == From(query)
              until == Until(query)
  <2>5. list = [active |-> active, city |-> city, status |-> asked, store |-> given,
                driver |-> driver, from |-> from, until |-> until]
    BY <1>2 DEF buildDeliveriesWhere
  <2>6. /\ active = {TRUE} /\ asked = running /\ given = Anyone /\ driver = {m}
        /\ city = OnlyIfGiven(users[u].city, City \cup {None}) /\ from = 0 /\ until = MaxTime
    BY <2>2, <2>3
  <2>. HIDE DEF asked, active, given, driver, city, from, until, list
  <2>4. list = where
    BY <2>5, <2>6
  <2>7. All.city = City \cup {None}
    BY DEF All
  <2>. DEFINE cities == OnlyIfGiven(users[u].city, City \cup {None})
  <2>8. mine = [All EXCEPT !.active = {TRUE}, !.driver = {m}, !.status = running,
                           !.city = cities]
    BY <2>7
  <2>9. where = [active |-> {TRUE}, city |-> cities, status |-> running, store |-> Anyone,
                 driver |-> {m}, from |-> 0, until |-> MaxTime]
    OBVIOUS
  <2>. HIDE DEF cities, where, mine
  <2>10. where = mine
    BY <2>8, <2>9 DEF All
  <2>. QED
    BY <2>4, <2>10
<1>7. SummariesLegacy(u)[m] = Cardinality(Found(mine))
  BY DEF SummariesLegacy, All
<1>. QED
  BY <1>6, <1>7

(* For any users, cities and deliveries: the aggregation and its fallback  *)
(* count the same for every driver, and it is what the administrator's     *)
(* list shows (findMotoboySummariesOptimized, buildDeliveriesWhere).       *)
THEOREM NumbersAgree == Spec => []CountersAgree
<1>1. ListingsTypes => CountersAgree
  <2>. SUFFICES ASSUME ListingsTypes, NEW u \in OfType(Admins), NEW m \in ListedMotoboys(u)
                PROVE  LET running == [status |-> Statuses \ {Finished, Canceled},
                                       driver |-> m, store |-> None, city |-> None,
                                       createdIn |-> None, createdUntil |-> None]
                       IN /\ SummariesOptimized(u)[m] = SummariesLegacy(u)[m]
                          /\ SummariesLegacy(u)[m] =
                               Cardinality(Found(buildDeliveriesWhere(u, running)))
    BY DEF CountersAgree
  <2>1. u \in DOMAIN users
    BY DEF OfType
  <2>. QED
    BY <2>1, SummariesMatch, ListMatches
<1>. QED
  BY <1>1, ListingsTypeCorrect, PTL

-----------------------------------------------------------------------------
(* Turning the pages                                                       *)

(* The rank of a delivery in a list by createdAt without ties.             *)
AtOrBefore(d, S) == {e \in S : stored[e].created <= stored[d].created}
Rank(d, S) == Cardinality(AtOrBefore(d, S))
PagesRead == IF walk.pc = "find" THEN walk.page - 1 ELSE walk.page

WalkTypes ==
  /\ DOMAIN walk = DOMAIN NoWalk
  /\ walk.page \in Nat /\ walk.seen \in Seq(Delivery)
  /\ walk.pc \in {"none", "find", "page", "done"}
  /\ walk.pc = "none" => walk.page = 0
  /\ walk.pc = "find" => walk.page > 0

(* Nothing left the list since its first page was asked for.               *)
Undisturbed == walk.pc # "none" /\ ~ walk.left
Kept == Undisturbed => walk.before \subseteq Found(walk.where)

(* What was in the list at the start and has not been seen stands behind   *)
(* the pages already read: others can only push it further back.           *)
StillToCome ==
  Undisturbed /\ NoTies(Found(walk.where))
  => \A d \in walk.before :
       d \in Range(walk.seen) \/ Rank(d, Found(walk.where)) > PagesRead * Take

PagesInv == ListingsTypes /\ WalkTypes /\ Kept /\ StillToCome /\ PagesComplete

LEMMA FoundIsFinite ==
  ASSUME ListingsTypes, NEW where
  PROVE  /\ Found(where) \subseteq DOMAIN stored /\ IsFiniteSet(Found(where))
         /\ \A d \in Found(where) : stored[d].created \in Nat
<1>1. Found(where) \in SUBSET Delivery
  BY DEF Found, ListingsTypes, AreDocuments
<1>2. IsFiniteSet(Found(where))
  BY <1>1, FS_Subset, ListingsAssumption
<1>3. \A d \in DOMAIN stored : stored[d].created \in Nat
  BY DEF ListingsTypes, AreDocuments, Document
<1>. QED
  BY <1>2, <1>3 DEF Found

LEMMA RankIsNat ==
  ASSUME NEW S, IsFiniteSet(S), NEW d
  PROVE  IsFiniteSet(AtOrBefore(d, S)) /\ Rank(d, S) \in Nat /\ Rank(d, S) <= Cardinality(S)
<1>1. AtOrBefore(d, S) \in SUBSET S
  BY DEF AtOrBefore
<1>. QED
  BY <1>1, FS_Subset, FS_CardinalityType DEF Rank

(* A list by createdAt has every delivery at its rank.                     *)
LEMMA RowsStandAtTheirRank ==
  ASSUME NEW S, IsFiniteSet(S), \A d \in S : stored[d].created \in Nat, NoTies(S),
         NEW list \in ByCreatedAt(S)
  PROVE  /\ list \in Seq(S) /\ Len(list) = Cardinality(S)
         /\ \A d \in S : Rank(d, S) \in 1..Len(list) /\ list[Rank(d, S)] = d
<1>. DEFINE n == Cardinality(S)
<1>1. n \in Nat
  BY FS_CardinalityType
<1>2. list \in [1..n -> S] /\ IsInjective(list)
      /\ \A i, j \in 1..n : i < j => stored[list[i]].created <= stored[list[j]].created
  BY DEF ByCreatedAt, SetToSeqs, IsInjective
<1>3. IsFiniteSet(1..n) /\ Cardinality(1..n) = n
  BY <1>1, FS_Interval
<1>4. list \in Surjection(1..n, S)
  <2>1. list \in Injection(1..n, S)
    BY <1>2 DEF Injection
  <2>. QED
    BY <1>3, <2>1, FS_Injection
<1>5. ASSUME NEW d \in S
      PROVE  Rank(d, S) \in 1..n /\ list[Rank(d, S)] = d
  <2>1. PICK i \in 1..n : list[i] = d
    BY <1>4 DEF Surjection
  <2>. DEFINE upTo == [j \in 1..i |-> list[j]]
  <2>2. 1..i \subseteq 1..n
    BY <1>1
  <2>3. \A j \in 1..i : list[j] \in AtOrBefore(d, S)
    BY <1>2, <2>1, <2>2 DEF AtOrBefore
  <2>4. upTo \in Injection(1..i, AtOrBefore(d, S))
    BY <1>2, <2>2, <2>3 DEF Injection, IsInjective
  <2>5. ASSUME NEW e \in AtOrBefore(d, S)
        PROVE  \E j \in 1..i : upTo[j] = e
    <3>1. PICK j \in 1..n : list[j] = e
      BY <1>4 DEF Surjection, AtOrBefore
    <3>2. e \in S /\ stored[e].created <= stored[d].created
      BY DEF AtOrBefore
    <3>3. j <= i
      <4>1. SUFFICES ASSUME i < j PROVE FALSE
        BY <1>1, <2>1, <3>1
      <4>2. stored[d].created <= stored[e].created
        BY <1>2, <2>1, <3>1, <4>1
      <4>3. stored[d].created = stored[e].created
        BY <3>2, <4>2
      <4>4. d = e
        BY <3>2, <4>3 DEF NoTies
      <4>. QED
        BY <1>2, <2>1, <3>1, <4>1, <4>4 DEF IsInjective
    <3>. QED
      BY <3>1, <3>3
  <2>6. upTo \in Bijection(1..i, AtOrBefore(d, S))
    BY <2>4, <2>5 DEF Bijection, Injection, Surjection
  <2>7. Rank(d, S) = i
    <3>1. IsFiniteSet(1..i) /\ Cardinality(1..i) = i
      BY <1>1, FS_Interval
    <3>. QED
      BY <2>6, <3>1, FS_Bijection DEF ExistsBijection, Rank
  <2>. QED
    BY <2>1, <2>7
<1>6. list \in Seq(S) /\ Len(list) = n
  BY <1>1, <1>2
<1>. QED
  BY <1>5, <1>6

(* Others may come into the list, before a delivery or behind it.          *)
LEMMA RanksGrow ==
  ASSUME ListingsTypes, ListingsTypes', NEW where,
         Found(where) \subseteq Found(where)',
         \A d \in DOMAIN stored : d \in DOMAIN stored' /\ stored'[d].created = stored[d].created
  PROVE  /\ NoTies(Found(where))' => NoTies(Found(where))
         /\ \A d \in Found(where) :
              /\ Rank(d, Found(where)) \in Nat /\ Rank(d, Found(where))' \in Nat
              /\ Rank(d, Found(where)) <= Rank(d, Found(where))'
<1>1. Found(where) \subseteq DOMAIN stored
  BY FoundIsFinite
<1>2. \A d \in Found(where) : d \in Found(where)' /\ stored'[d].created = stored[d].created
  BY <1>1
<1>3. NoTies(Found(where))' => NoTies(Found(where))
  BY <1>2 DEF NoTies
<1>4. ASSUME NEW d \in Found(where)
      PROVE  /\ Rank(d, Found(where)) \in Nat /\ Rank(d, Found(where))' \in Nat
             /\ Rank(d, Found(where)) <= Rank(d, Found(where))'
  <2>1. AtOrBefore(d, Found(where)) \subseteq AtOrBefore(d, Found(where))'
    BY <1>2 DEF AtOrBefore
  <2>2. IsFiniteSet(Found(where)')
    <3>1. Found(where)' \in SUBSET Delivery
      BY DEF Found, ListingsTypes, AreDocuments
    <3>. QED
      BY <3>1, FS_Subset, ListingsAssumption
  <2>3. IsFiniteSet(AtOrBefore(d, Found(where))')
    <3>1. AtOrBefore(d, Found(where))' \in SUBSET Found(where)'
      BY DEF AtOrBefore
    <3>. QED
      BY <2>2, <3>1, FS_Subset
  <2>4. Rank(d, Found(where))' \in Nat
    BY <2>3, FS_CardinalityType DEF Rank
  <2>5. Rank(d, Found(where)) <= Rank(d, Found(where))'
    BY <2>1, <2>3, FS_Subset DEF Rank
  <2>6. Rank(d, Found(where)) \in Nat
    BY FoundIsFinite, RankIsNat
  <2>. QED
    BY <2>4, <2>5, <2>6
<1>. QED
  BY <1>3, <1>4

(* What a page holds of a list.                                            *)
LEMMA PageOfList ==
  ASSUME NEW S, NEW list \in Seq(S), NEW from \in Nat, NEW size \in Nat
  PROVE  LET page == Slice(list, from, from + size) IN
         /\ page \in Seq(S)
         /\ Len(page) < size => Len(list) < from + size
         /\ \A k \in (from + 1)..(from + size) :
              k <= Len(list) => list[k] \in Range(page)
<1>. DEFINE to == AtMost(from + size, Len(list))
            page == Slice(list, from, from + size)
<1>1. /\ to \in Nat /\ to <= Len(list) /\ to <= from + size /\ Len(list) \in Nat
      /\ to = from + size \/ to = Len(list)
  BY DEF AtMost
<1>2. page = SubSeq(list, from + 1, to)
  BY DEF Slice
<1>. HIDE DEF to, page
<1>3. \A i \in (from + 1)..to : list[i] \in S
  <2>1. \A i \in (from + 1)..to : i \in 1..Len(list)
    BY <1>1
  <2>. QED
    BY <2>1
<1>4. /\ page \in Seq(S)
      /\ Len(page) = IF from + 1 <= to THEN to - from ELSE 0
      /\ \A i \in 1..(to - from) : page[i] = list[from + i]
  <2>. DEFINE m == from + 1
  <2>1. m \in Int /\ to \in Int /\ m = from + 1 /\ to - m + 1 = to - from
    BY <1>1
  <2>. HIDE DEF m
  <2>2. \A i \in m..to : list[i] \in S
    BY <1>3, <2>1
  <2>3. page = SubSeq(list, m, to)
    BY <1>2, <2>1
  <2>4. /\ page \in Seq(S)
        /\ Len(page) = IF m <= to THEN to - m + 1 ELSE 0
        /\ \A i \in 1..(to - m + 1) : page[i] = list[m + i - 1]
    BY <2>1, <2>2, <2>3, SubSeqProperties
  <2>5. \A i \in 1..(to - from) : m + i - 1 = from + i
    BY <1>1, <2>1
  <2>. QED
    BY <2>1, <2>4, <2>5
<1>5. Len(page) < size => Len(list) < from + size
  BY <1>1, <1>4
<1>6. ASSUME NEW k \in (from + 1)..(from + size), k <= Len(list)
      PROVE  list[k] \in Range(page)
  <2>1. k <= to
    BY <1>1, <1>6
  <2>2. k - from \in 1..(to - from) /\ from + (k - from) = k
    BY <1>1, <2>1
  <2>3. page[k - from] = list[k]
    BY <1>4, <2>2
  <2>4. k - from \in DOMAIN page
    BY <1>1, <1>4, <2>2
  <2>. QED
    BY <2>3, <2>4 DEF Range
<1>. QED
  BY <1>4, <1>5, <1>6 DEF page

LEMMA SeenGrows ==
  ASSUME NEW S, NEW seen \in Seq(S), NEW page \in Seq(S)
  PROVE  /\ seen \o page \in Seq(S)
         /\ Range(seen) \subseteq Range(seen \o page)
         /\ Range(page) \subseteq Range(seen \o page)
<1>1. /\ seen \o page \in Seq(S) /\ Len(seen \o page) = Len(seen) + Len(page)
      /\ \A i \in 1..(Len(seen) + Len(page)) :
           (seen \o page)[i] = IF i <= Len(seen) THEN seen[i] ELSE page[i - Len(seen)]
  BY ConcatProperties
<1>2. Len(seen) \in Nat /\ Len(page) \in Nat
      /\ DOMAIN seen = 1..Len(seen) /\ DOMAIN page = 1..Len(page)
      /\ DOMAIN (seen \o page) = 1..(Len(seen) + Len(page))
  BY <1>1
<1>3. \A i \in DOMAIN seen : i \in DOMAIN (seen \o page) /\ (seen \o page)[i] = seen[i]
  BY <1>1, <1>2
<1>4. ASSUME NEW j \in DOMAIN page
      PROVE  /\ Len(seen) + j \in DOMAIN (seen \o page)
             /\ (seen \o page)[Len(seen) + j] = page[j]
  <2>1. Len(seen) + j \in 1..(Len(seen) + Len(page)) /\ ~ (Len(seen) + j <= Len(seen))
        /\ (Len(seen) + j) - Len(seen) = j
    BY <1>2
  <2>. QED
    BY <1>1, <1>2, <2>1
<1>5. Range(seen) \subseteq Range(seen \o page)
  BY <1>3 DEF Range
<1>6. Range(page) \subseteq Range(seen \o page)
  BY <1>4 DEF Range
<1>. QED
  BY <1>1, <1>5, <1>6

(* A delivery is stored, or saved, while somebody turns the pages.         *)
LEMMA OthersDisturb ==
  ASSUME PagesInv, ListingsTypes', Keep,
         \A d \in DOMAIN stored : d \in DOMAIN stored' /\ stored'[d].created = stored[d].created
  PROVE  PagesInv'
<1>. USE DEF PagesInv
<1>1. PICK where : where = walk.where
  OBVIOUS
<1>2. /\ DOMAIN walk' = DOMAIN walk
      /\ walk'.page = walk.page /\ walk'.seen = walk.seen /\ walk'.pc = walk.pc
      /\ walk'.where = where /\ walk'.before = walk.before
      /\ walk'.left = (walk.left \/ \E d \in Matching : ~ Passes(stored'[d], walk.where))
  BY <1>1 DEF Keep, WalkTypes, NoWalk
<1>3. WalkTypes'
  BY <1>2 DEF WalkTypes
<1>4. Undisturbed' => Undisturbed
  BY <1>2 DEF Undisturbed
<1>5. Undisturbed' => Found(where) \subseteq Found(where)'
  <2>. SUFFICES ASSUME Undisturbed', NEW d \in Found(where) PROVE d \in Found(where)'
    OBVIOUS
  <2>1. walk.pc # "none" /\ ~ \E e \in Found(where) : ~ Passes(stored'[e], where)
    BY <1>1, <1>2 DEF Undisturbed, Matching
  <2>2. d \in DOMAIN stored'
    BY DEF Found
  <2>. QED
    BY <2>1, <2>2 DEF Found
<1>6. Found(walk.where) = Found(where) /\ Found(walk.where)' = Found(where)'
  BY <1>1, <1>2 DEF Found
<1>7. Kept'
  BY <1>2, <1>4, <1>5, <1>6 DEF Kept
<1>8. Undisturbed' /\ NoTies(Found(walk.where))' => NoTies(Found(walk.where))
  BY <1>5, <1>6, RanksGrow DEF NoTies
<1>9. StillToCome'
  <2>. SUFFICES ASSUME Undisturbed', NoTies(Found(walk.where))', NEW d \in walk.before,
                       d \notin Range(walk.seen)
                PROVE  Rank(d, Found(where))' > PagesRead * Take
    BY <1>2, <1>6 DEF StillToCome, PagesRead
  <2>1. Undisturbed /\ NoTies(Found(walk.where))
    BY <1>4, <1>8
  <2>2. Rank(d, Found(where)) > PagesRead * Take /\ d \in Found(where)
    BY <1>6, <2>1 DEF StillToCome, Kept
  <2>3. /\ Rank(d, Found(where)) <= Rank(d, Found(where))'
        /\ Rank(d, Found(where)) \in Nat /\ Rank(d, Found(where))' \in Nat
    BY <1>5, <2>2, RanksGrow
  <2>5. PagesRead * Take \in Int
    BY ListingsAssumption DEF PagesRead, WalkTypes
  <2>6. PagesRead' = PagesRead
    BY <1>2 DEF PagesRead
  <2>. QED
    BY <2>2, <2>3, <2>5, <2>6
<1>10. PagesComplete'
  BY <1>2, <1>4, <1>8, <1>6 DEF PagesComplete, Undisturbed
<1>. QED
  BY <1>3, <1>7, <1>9, <1>10

LEMMA ListStays ==
  ASSUME PagesInv, ListingsTypes', UNCHANGED <<stored, walk>>
  PROVE  PagesInv'
BY DEF PagesInv, WalkTypes, Kept, StillToCome, PagesComplete, Undisturbed, Found, NoTies,
       Rank, AtOrBefore, PagesRead

LEMMA PageIsAskedFor ==
  ASSUME PagesInv, ListingsTypes', AskPage
  PROVE  PagesInv'
<1>. USE DEF PagesInv
<1>20. PICK u \in Readers \cap DOMAIN users, q \in Queries :
        LET where == buildDeliveriesWhere(u, q) IN
        walk' = [walk EXCEPT !.pc = "find", !.of = u, !.query = q, !.page = @ + 1,
                   !.where = where,
                   !.before = IF walk.pc = "none" THEN Found(where) ELSE @,
                   !.left = @ \/ (walk.pc = "page" /\ where # walk.where)]
  BY DEF AskPage
<1>21. PICK where : where = buildDeliveriesWhere(u, q)
  OBVIOUS
<1>1. /\ walk.pc \in {"none", "page"}
      /\ walk' = [walk EXCEPT !.pc = "find", !.of = u, !.query = q, !.page = @ + 1,
                    !.where = where,
                    !.before = IF walk.pc = "none" THEN Found(where) ELSE @,
                    !.left = @ \/ (walk.pc = "page" /\ where # walk.where)]
      /\ stored' = stored
  BY <1>20, <1>21 DEF AskPage
<1>2. /\ DOMAIN walk' = DOMAIN walk
      /\ walk'.page = walk.page + 1 /\ walk'.seen = walk.seen /\ walk'.pc = "find"
      /\ walk'.where = where
      /\ walk'.before = IF walk.pc = "none" THEN Found(where) ELSE walk.before
      /\ walk'.left = (walk.left \/ (walk.pc = "page" /\ where # walk.where))
  BY <1>1 DEF WalkTypes, NoWalk
<1>3. WalkTypes'
  BY <1>2 DEF WalkTypes
<1>4. PagesRead' = walk.page /\ (walk.pc = "page" => PagesRead = walk.page)
  BY <1>1, <1>2 DEF PagesRead, WalkTypes
<1>5. Found(walk.where)' = Found(where)
  BY <1>1, <1>2 DEF Found
<1>6. Undisturbed' /\ walk.pc = "page" => Undisturbed /\ walk.where = where
  BY <1>1, <1>2 DEF Undisturbed
<1>7. Kept'
  BY <1>1, <1>2, <1>5, <1>6 DEF Kept
<1>8. StillToCome'
  <2>. SUFFICES ASSUME Undisturbed', NoTies(Found(where)), NEW d \in walk'.before,
                       d \notin Range(walk.seen)
                PROVE  Rank(d, Found(where)) > walk.page * Take
    BY <1>1, <1>2, <1>4, <1>5 DEF StillToCome, NoTies, Rank, AtOrBefore
  <2>1. CASE walk.pc = "none"
    <3>1. d \in Found(where) /\ walk.page = 0
      BY <1>2, <2>1 DEF WalkTypes
    <3>2. IsFiniteSet(AtOrBefore(d, Found(where))) /\ Rank(d, Found(where)) \in Nat
      BY FoundIsFinite, RankIsNat
    <3>3. d \in AtOrBefore(d, Found(where))
      BY <3>1, FoundIsFinite DEF AtOrBefore
    <3>4. Rank(d, Found(where)) # 0
      BY <3>2, <3>3, FS_EmptySet DEF Rank
    <3>5. walk.page * Take = 0
      BY <3>1, ListingsAssumption
    <3>. QED
      BY <3>2, <3>4, <3>5
  <2>2. CASE walk.pc = "page"
    <3>1. Undisturbed /\ walk.where = where
      BY <1>6, <2>2
    <3>. QED
      BY <1>2, <1>4, <2>2, <3>1 DEF StillToCome
  <2>. QED
    BY <1>1, <2>1, <2>2
<1>9. PagesComplete'
  BY <1>2 DEF PagesComplete
<1>. QED
  BY <1>3, <1>7, <1>8, <1>9

LEMMA PageIsRead ==
  ASSUME PagesInv, ListingsTypes', ReadPage
  PROVE  PagesInv'
<1>. USE DEF PagesInv
<1>1. PICK where, list, page :
        /\ where = walk.where /\ list \in ByCreatedAt(Found(where))
        /\ page = Slice(list, Skip, Skip + Take)
        /\ walk.pc = "find" /\ stored' = stored
        /\ walk' = [walk EXCEPT !.seen = @ \o page,
                                !.pc = IF Len(page) < Take THEN "done" ELSE "page"]
  BY DEF ReadPage
<1>2. /\ DOMAIN walk' = DOMAIN walk
      /\ walk'.page = walk.page /\ walk'.seen = walk.seen \o page
      /\ walk'.pc = (IF Len(page) < Take THEN "done" ELSE "page")
      /\ walk'.where = where /\ walk'.before = walk.before /\ walk'.left = walk.left
  BY <1>1 DEF WalkTypes, NoWalk
<1>3. Skip \in Nat /\ Take \in Nat /\ Skip + Take = walk.page * Take
      /\ PagesRead = walk.page - 1 /\ PagesRead' = walk.page /\ Skip = PagesRead * Take
      /\ walk.page * Take \in Nat
  <2>1. walk.page \in Nat /\ walk.page > 0 /\ Take \in Nat
    BY <1>1, ListingsAssumption DEF WalkTypes
  <2>2. PagesRead = walk.page - 1 /\ PagesRead' = walk.page
    BY <1>1, <1>2 DEF PagesRead
  <2>3. walk.page - 1 \in Nat
    BY <2>1
  <2>4. (walk.page - 1) * Take \in Nat /\ walk.page * Take = (walk.page - 1) * Take + Take
    BY <2>1, <2>3, Distributes
  <2>. QED
    BY <2>1, <2>2, <2>4 DEF Skip
<1>4. Found(walk.where) = Found(where) /\ Found(walk.where)' = Found(where)
  BY <1>1, <1>2 DEF Found
<1>5. IsFiniteSet(Found(where)) /\ (\A d \in Found(where) : stored[d].created \in Nat)
      /\ Found(where) \subseteq Delivery
  BY FoundIsFinite DEF ListingsTypes, AreDocuments
<1>6. list \in Seq(Delivery)
  <2>1. Cardinality(Found(where)) \in Nat
    BY <1>5, FS_CardinalityType
  <2>2. list \in [1..Cardinality(Found(where)) -> Found(where)]
    BY <1>1 DEF ByCreatedAt, SetToSeqs
  <2>. QED
    BY <1>5, <2>1, <2>2
<1>7. /\ page \in Seq(Delivery)
      /\ Len(page) < Take => Len(list) < Skip + Take
      /\ \A k \in (Skip + 1)..(Skip + Take) : k <= Len(list) => list[k] \in Range(page)
  BY <1>1, <1>3, <1>6, PageOfList
<1>8. /\ walk'.seen \in Seq(Delivery)
      /\ Range(walk.seen) \subseteq Range(walk'.seen)
      /\ Range(page) \subseteq Range(walk'.seen)
  BY <1>2, <1>7, SeenGrows DEF WalkTypes
<1>9. WalkTypes'
  BY <1>1, <1>2, <1>8 DEF WalkTypes
<1>10. Undisturbed' => Undisturbed
  BY <1>1, <1>2 DEF Undisturbed
<1>11. Kept'
  BY <1>2, <1>4, <1>10 DEF Kept
<1>12. ASSUME Undisturbed', NoTies(Found(where)), NEW d \in walk.before,
              d \notin Range(walk'.seen)
       PROVE  Rank(d, Found(where)) > walk.page * Take /\ Rank(d, Found(where)) <= Len(list)
  <2>1. Undisturbed /\ d \notin Range(walk.seen)
    BY <1>8, <1>10, <1>12
  <2>2. d \in Found(where) /\ Rank(d, Found(where)) > Skip
    BY <1>3, <1>4, <1>12, <2>1 DEF Kept, StillToCome
  <2>3. Rank(d, Found(where)) \in 1..Len(list) /\ list[Rank(d, Found(where))] = d
    BY <1>1, <1>5, <1>12, <2>2, RowsStandAtTheirRank
  <2>4. ~ (Rank(d, Found(where)) <= Skip + Take)
    BY <1>3, <1>7, <1>8, <1>12, <2>2, <2>3
  <2>. QED
    BY <1>3, <2>3, <2>4
<1>13. StillToCome'
  BY <1>1, <1>2, <1>3, <1>4, <1>12 DEF StillToCome, NoTies, Rank, AtOrBefore
<1>14. PagesComplete'
  <2>. SUFFICES ASSUME walk'.pc = "done", ~ walk'.left, NoTies(Found(where)),
                       NEW d \in walk.before, d \notin Range(walk'.seen)
                PROVE  FALSE
    BY <1>1, <1>2, <1>4 DEF PagesComplete, NoTies
  <2>1. Undisturbed'
    BY DEF Undisturbed
  <2>2. Len(list) < walk.page * Take /\ Len(list) \in Nat
    BY <1>2, <1>3, <1>6, <1>7
  <2>3. Rank(d, Found(where)) > walk.page * Take /\ Rank(d, Found(where)) <= Len(list)
    BY <1>12, <2>1
  <2>4. Rank(d, Found(where)) \in Nat
    BY <1>5, RankIsNat
  <2>. QED
    BY <1>3, <2>2, <2>3, <2>4
<1>. QED
  BY <1>9, <1>11, <1>13, <1>14

LEMMA PagesInit == Init => PagesInv
<1>. SUFFICES ASSUME Init PROVE PagesInv
  OBVIOUS
<1>1. walk = NoWalk
  BY DEF Init
<1>2. WalkTypes
  BY <1>1 DEF WalkTypes, NoWalk
<1>. QED
  BY <1>1, <1>2, TypesInit
     DEF PagesInv, Kept, StillToCome, PagesComplete, Undisturbed, NoWalk

LEMMA PagesNext == PagesInv /\ [Next]_vars => PagesInv'
<1>. SUFFICES ASSUME PagesInv, [Next]_vars PROVE PagesInv'
  OBVIOUS
<1>1. ListingsTypes /\ ListingsTypes'
  BY TypesNext DEF PagesInv
<1>2. ASSUME NEW d \in Delivery, NEW s, NEW m, NEW status, StartCreation(d, s, status, m)
      PROVE  PagesInv'
  BY <1>1, <1>2, ListStays DEF StartCreation
<1>3. ASSUME NEW d \in Delivery, StoreCreation(d)
      PROVE  PagesInv'
  <2>1. Keep /\ stored' = With(stored, d, coming[d]) /\ d \notin DOMAIN stored
    BY <1>1, <1>3 DEF StoreCreation, ListingsTypes
  <2>2. \A e \in DOMAIN stored : e \in DOMAIN stored' /\ stored'[e] = stored[e]
    BY <2>1 DEF With
  <2>. QED
    BY <1>1, <2>1, <2>2, OthersDisturb
<1>4. ASSUME NEW d \in Delivery, NEW status, NEW active, NEW m, NEW place,
             SaveDelivery(d, status, active, m, place)
      PROVE  PagesInv'
  <2>. DEFINE doc == [created |-> stored[d].created, store |-> place.store,
                      city |-> place.city, active |-> active, driver |-> m,
                      status |-> status]
  <2>1. Keep /\ d \in DOMAIN stored /\ stored' = [stored EXCEPT ![d] = doc]
    BY <1>4 DEF SaveDelivery
  <2>2. doc.created = stored[d].created
    OBVIOUS
  <2>. HIDE DEF doc
  <2>3. /\ DOMAIN stored' = DOMAIN stored /\ stored'[d] = doc
        /\ \A e \in DOMAIN stored : e # d => stored'[e] = stored[e]
    BY <2>1
  <2>4. \A e \in DOMAIN stored : e \in DOMAIN stored' /\ stored'[e].created = stored[e].created
    BY <2>2, <2>3
  <2>. QED
    BY <1>1, <2>1, <2>4, OthersDisturb
<1>5. ASSUME NEW u, NEW c, MoveUser(u, c) PROVE PagesInv'
  BY <1>1, <1>5, ListStays DEF MoveUser
<1>6. ASSUME NEW u, DeleteUser(u) PROVE PagesInv'
  BY <1>1, <1>6, ListStays DEF DeleteUser
<1>7. CASE Tick
  BY <1>1, <1>7, ListStays DEF Tick
<1>8. CASE AskPage
  BY <1>1, <1>8, PageIsAskedFor
<1>9. CASE ReadPage
  BY <1>1, <1>9, PageIsRead
<1>10. CASE UNCHANGED vars
  BY <1>1, <1>10, ListStays DEF vars
<1>. QED
  BY <1>2, <1>3, <1>4, <1>5, <1>6, <1>7, <1>8, <1>9, <1>10 DEF Next

(* Any number of deliveries, of any page length: whoever turns all pages   *)
(* has seen what was in the list at the start, though others are stored in *)
(* front of it meanwhile, if nothing leaves the list and no two deliveries *)
(* share a createdAt (listDeliveries).                                     *)
THEOREM NothingIsSkipped == Spec => []PagesComplete
<1>1. Spec => []PagesInv
  BY PagesInit, PagesNext, PTL DEF Spec
<1>2. PagesInv => PagesComplete
  BY DEF PagesInv
<1>. QED
  BY <1>1, <1>2, PTL

-----------------------------------------------------------------------------
(* Sums and joins by recursion: what satisfies the recursion is one thing. *)

LEMMA LeastNatural ==
  ASSUME NEW T \in SUBSET Nat, T # {}
  PROVE  \E m \in T : \A k \in T : m <= k
<1>. DEFINE U == {0..k : k \in T}
<1>1. \A k \in T : IsFiniteSet(0..k) /\ 0..k \in SUBSET Nat
  BY FS_Interval
<1>2. U \subseteq FiniteSubsetsOf(Nat) /\ U # {}
  BY <1>1 DEF FiniteSubsetsOf
<1>3. IsWellFoundedOn(StrictSubsetOrdering(Nat), FiniteSubsetsOf(Nat))
  BY FS_StrictSubsetOrderingWellFounded
<1>4. PICK x \in U : \A y \in U : ~ (<<y, x>> \in StrictSubsetOrdering(Nat))
  <2>. HIDE DEF U
  <2>. QED
    BY <1>2, <1>3, WFMin
<1>5. PICK m \in T : x = 0..m
  BY <1>4
<1>6. ASSUME NEW k \in T, ~ (m <= k)
      PROVE  FALSE
  <2>1. 0..k \in U /\ 0..m \in U
    BY <1>5, <1>6
  <2>2. m \in 0..m /\ m \notin 0..k
    BY <1>6
  <2>3. 0..k \subseteq 0..m /\ 0..k # 0..m
    BY <1>6, <2>2
  <2>4. <<0..k, 0..m>> \in StrictSubsetOrdering(Nat)
    BY <1>1, <2>3 DEF StrictSubsetOrdering
  <2>. QED
    BY <1>4, <1>5, <2>1, <2>4
<1>. QED
  BY <1>6

LEMMA SmallestSet ==
  ASSUME NEW S, IsFiniteSet(S), NEW U, U \subseteq SUBSET S, U # {}
  PROVE  \E x \in U : \A y \in U : y \subseteq x => y = x
<1>1. U \subseteq FiniteSubsetsOf(S)
  BY FS_Subset DEF FiniteSubsetsOf
<1>2. IsWellFoundedOn(StrictSubsetOrdering(S), FiniteSubsetsOf(S))
  BY FS_StrictSubsetOrderingWellFounded
<1>3. PICK x \in U : \A y \in U : ~ (<<y, x>> \in StrictSubsetOrdering(S))
  BY <1>1, <1>2, WFMin
<1>. QED
  BY <1>3 DEF StrictSubsetOrdering

(* The rows up to the end of page i, and the recursion of FlattenSeq.      *)
UpTo(n, f, m, i) == AtMost(f + (i - 1) * m, n)
IsJoin(h, seqs) ==
  h = [i \in 1..Len(seqs) |-> IF i = 1 THEN seqs[i] ELSE h[i - 1] \o seqs[i]]

LEMMA PagesAreAdjacent ==
  ASSUME NEW S, NEW rows \in Seq(S), NEW f \in Nat \ {0}, NEW m \in Nat \ {0},
         NEW i \in 2..(NumberOfCuts(Len(rows), f, m) + 1)
  PROVE  /\ UpTo(Len(rows), f, m, i - 1) \in 0..Len(rows)
         /\ UpTo(Len(rows), f, m, i) \in UpTo(Len(rows), f, m, i - 1)..Len(rows)
         /\ SettlementPages(rows, f, m)[i] =
              SubSeq(rows, UpTo(Len(rows), f, m, i - 1) + 1, UpTo(Len(rows), f, m, i))
<1>. DEFINE n == Len(rows)
            cuts == NumberOfCuts(n, f, m)
            q == (i - 2) * m
<1>1. n \in Nat /\ cuts \in Nat /\ i \in 2..(cuts + 1) /\ i - 1 \in 1..cuts /\ i \in Int
  <2>1. n \in Nat
    OBVIOUS
  <2>2. cuts \in Nat
    BY <2>1, CutsFit
  <2>. HIDE DEF n, cuts
  <2>3. i \in 2..(cuts + 1)
    BY DEF cuts, n
  <2>. QED
    BY <2>1, <2>2, <2>3
<1>2. n > f /\ (cuts - 1) * m < n - f
  <2>1. /\ n <= f => cuts = 0
        /\ n > f => (cuts - 1) * m < n - f
    BY <1>1, CutsFit
  <2>. HIDE DEF n, cuts
  <2>. QED
    BY <1>1, <2>1
<1>3. q <= (cuts - 1) * m /\ q \in Int /\ (cuts - 1) * m \in Int
      /\ (i - 1) * m = q + m /\ (i - 1 - 1) * m = q /\ 0 * m <= q
  <2>1. i - 2 \in Int /\ cuts - 1 \in Int /\ i - 2 <= cuts - 1 /\ 0 <= i - 2 /\ i - 1 - 1 = i - 2
        /\ i - 1 = (i - 2) + 1
    BY <1>1
  <2>. HIDE DEF cuts
  <2>2. (i - 2) * m <= (cuts - 1) * m /\ 0 * m <= (i - 2) * m
    BY <2>1, Monotone
  <2>3. (i - 2 + 1) * m = (i - 2) * m + m /\ (i - 2) * m \in Int /\ (cuts - 1) * m \in Int
    BY <2>1, Distributes
  <2>. QED
    BY <2>1, <2>2, <2>3
<1>4. q \in Nat /\ f + q < n
  <2>. HIDE DEF q, n, cuts
  <2>. QED
    BY <1>1, <1>2, <1>3
<1>5. UpTo(n, f, m, i - 1) = f + q /\ UpTo(n, f, m, i) = AtMost(f + (q + m), n)
  <2>. HIDE DEF q, n
  <2>. QED
    BY <1>3, <1>4 DEF UpTo, AtMost
<1>6. SettlementPages(rows, f, m)[i] = Chunks(rows, f, m)[i - 1]
  BY SettlementPage
<1>7. Chunks(rows, f, m)[i - 1] = Slice(rows, f + (i - 1 - 1) * m, f + (i - 1) * m)
  BY <1>1 DEF Chunks
<1>8. SettlementPages(rows, f, m)[i] = SubSeq(rows, f + q + 1, AtMost(f + (q + m), n))
  <2>. HIDE DEF q
  <2>. QED
    BY <1>3, <1>6, <1>7 DEF Slice
<1>. HIDE DEF q, n, cuts
<1>9. f + q \in 0..n /\ AtMost(f + (q + m), n) \in (f + q)..n
  BY <1>1, <1>4 DEF AtMost
<1>. QED
  BY <1>5, <1>8, <1>9 DEF n

(* The pages of a settlement, one behind the other, are its rows.          *)
LEMMA PagesJoined ==
  ASSUME NEW S, NEW rows \in Seq(S), NEW f \in Nat \ {0}, NEW m \in Nat \ {0}
  PROVE  FlattenSeq(SettlementPages(rows, f, m)) = rows
<1>. DEFINE pages == SettlementPages(rows, f, m)
            n == Len(rows)
            cuts == NumberOfCuts(n, f, m)
            g == [i \in 1..(cuts + 1) |-> SubSeq(rows, 1, UpTo(n, f, m, i))]
<1>1. n \in Nat /\ cuts \in Nat /\ Len(pages) = cuts + 1
  BY SettlementPage
<1>2. pages[1] = g[1]
  <2>1. pages[1] = Slice(rows, 0, f)
    BY SettlementPage
  <2>2. UpTo(n, f, m, 1) = AtMost(f, n)
    <3>1. f + (1 - 1) * m = f
      OBVIOUS
    <3>. QED
      BY <3>1 DEF UpTo
  <2>3. g[1] = SubSeq(rows, 1, AtMost(f, n))
    <3>1. 1 \in 1..(cuts + 1)
      BY <1>1
    <3>2. g[1] = SubSeq(rows, 1, UpTo(n, f, m, 1))
      BY <3>1
    <3>. QED
      BY <2>2, <3>2
  <2>4. Slice(rows, 0, f) = SubSeq(rows, 1, AtMost(f, n))
    BY DEF Slice
  <2>. HIDE DEF g
  <2>. QED
    BY <2>1, <2>3, <2>4
<1>3. ASSUME NEW i \in 2..(cuts + 1)
      PROVE  g[i] = g[i - 1] \o pages[i]
  <2>1. /\ UpTo(n, f, m, i - 1) \in 0..n
        /\ UpTo(n, f, m, i) \in UpTo(n, f, m, i - 1)..n
        /\ pages[i] = SubSeq(rows, UpTo(n, f, m, i - 1) + 1, UpTo(n, f, m, i))
    BY PagesAreAdjacent
  <2>2. g[i] = SubSeq(rows, 1, UpTo(n, f, m, i)) /\ g[i - 1] = SubSeq(rows, 1, UpTo(n, f, m, i - 1))
    <3>1. i \in 1..(cuts + 1) /\ i - 1 \in 1..(cuts + 1)
      BY <1>1
    <3>. QED
      BY <3>1
  <2>. DEFINE k == UpTo(n, f, m, i - 1)
              l == UpTo(n, f, m, i)
              o == 1
  <2>3. o \in 1..(Len(rows) + 1) /\ k \in (o - 1)..Len(rows) /\ l \in k..Len(rows)
    BY <1>1, <2>1
  <2>. HIDE DEF k, l, o
  <2>4. SubSeq(rows, o, k) \o SubSeq(rows, k + 1, l) = SubSeq(rows, o, l)
    BY <2>3, ConcatAdjacentSubSeq
  <2>. QED
    BY <2>1, <2>2, <2>4 DEF k, l, o
<1>4. g[cuts + 1] = rows
  <2>1. f + cuts * m >= n
    <3>1. /\ n <= f => cuts = 0
          /\ n > f => n - f <= cuts * m
      BY <1>1, CutsFit
    <3>2. cuts * m \in Int
      BY <1>1, Distributes
    <3>. HIDE DEF cuts, n
    <3>3. cuts = 0 => cuts * m = 0
      OBVIOUS
    <3>. QED
      BY <1>1, <3>1, <3>2, <3>3
  <2>2. UpTo(n, f, m, cuts + 1) = n
    <3>1. (cuts + 1 - 1) = cuts
      BY <1>1
    <3>2. cuts * m \in Int
      BY <1>1, Distributes
    <3>. HIDE DEF cuts, n
    <3>. QED
      BY <1>1, <2>1, <3>1, <3>2 DEF UpTo, AtMost
  <2>. QED
    BY <1>1, <2>2, SubSeqFull
<1>. DEFINE h == CHOOSE h : IsJoin(h, pages)
<1>. HIDE DEF pages, cuts, n
<1>5. IsJoin(g, pages)
  <2>1. g = [i \in 1..(cuts + 1) |-> IF i = 1 THEN pages[i] ELSE g[i - 1] \o pages[i]]
    <3>1. \A i \in 1..(cuts + 1) : i = 1 \/ i \in 2..(cuts + 1)
      BY <1>1
    <3>2. \A i \in 1..(cuts + 1) : g[i] = IF i = 1 THEN pages[i] ELSE g[i - 1] \o pages[i]
      BY <1>2, <1>3, <3>1
    <3>. QED
      BY <3>2
  <2>. HIDE DEF g
  <2>. QED
    BY <1>1, <2>1 DEF IsJoin
<1>6. FlattenSeq(pages) = h[cuts + 1]
  BY <1>1 DEF FlattenSeq, IsJoin
<1>. HIDE DEF g
<1>7. IsJoin(h, pages)
  BY <1>5
<1>. HIDE DEF h
<1>8. \A i \in 1..(cuts + 1) : h[i] = IF i = 1 THEN pages[i] ELSE h[i - 1] \o pages[i]
  BY <1>1, <1>7 DEF IsJoin
<1>9. \A i \in 1..(cuts + 1) : h[i] = g[i]
  <2>. SUFFICES ASSUME {i \in 1..(cuts + 1) : h[i] # g[i]} # {} PROVE FALSE
    OBVIOUS
  <2>1. PICK i \in {j \in 1..(cuts + 1) : h[j] # g[j]} :
          \A k \in {j \in 1..(cuts + 1) : h[j] # g[j]} : i <= k
    <3>1. {j \in 1..(cuts + 1) : h[j] # g[j]} \in SUBSET Nat
      BY <1>1
    <3>. QED
      BY <3>1, LeastNatural
  <2>2. CASE i = 1
    BY <1>2, <1>8, <2>1, <2>2
  <2>3. CASE i # 1
    <3>1. i \in 2..(cuts + 1) /\ i - 1 \in 1..(cuts + 1) /\ ~ (i <= i - 1)
      BY <1>1, <2>1, <2>3
    <3>2. h[i - 1] = g[i - 1]
      BY <2>1, <3>1
    <3>. QED
      BY <1>3, <1>8, <2>1, <2>3, <3>1, <3>2
  <2>. QED
    BY <2>2, <2>3
<1>10. cuts + 1 \in 1..(cuts + 1)
  BY <1>1
<1>. QED
  BY <1>4, <1>6, <1>9, <1>10 DEF pages

(* The recursion of MapThenSumSet.                                         *)
Some(T) == CHOOSE x \in T : TRUE
IsSum(h, S, w) ==
  h = [T \in SUBSET S |-> IF T = {} THEN 0 ELSE w[Some(T)] + h[T \ {Some(T)}]]

(* The sum over a set of parts that share nothing, each counted k times.   *)
LEMMA SumOfParts ==
  ASSUME NEW S, IsFiniteSet(S), NEW D, IsFiniteSet(D),
         NEW F, \A s \in S : F[s] \in SUBSET D,
         \A s, t \in S : s # t => F[s] \cap F[t] = {},
         NEW k \in Nat, NEW w, \A s \in S : w[s] = Cardinality(F[s]) * k
  PROVE  /\ \E h : IsSum(h, S, w)
         /\ \A h : IsSum(h, S, w) => h[S] = Cardinality(UNION {F[s] : s \in S}) * k
<1>. DEFINE Parts(T) == UNION {F[s] : s \in T}
            g == [T \in SUBSET S |-> Cardinality(Parts(T)) * k]
<1>1. \A T \in SUBSET S : T # {} => Some(T) \in T /\ Some(T) \in S /\ T \ {Some(T)} \in SUBSET S
  BY DEF Some
<1>2. \A T \in SUBSET S : IsFiniteSet(Parts(T)) /\ Cardinality(Parts(T)) \in Nat
  <2>1. \A T \in SUBSET S : Parts(T) \in SUBSET D
    OBVIOUS
  <2>2. ASSUME NEW T \in SUBSET S
        PROVE  IsFiniteSet(Parts(T))
    <3>. HIDE DEF Parts
    <3>. QED
      BY <2>1, FS_Subset
  <2>. HIDE DEF Parts
  <2>. QED
    BY <2>2, FS_CardinalityType
<1>3. ASSUME NEW T \in SUBSET S, T # {}
      PROVE  g[T] = w[Some(T)] + g[T \ {Some(T)}]
  <2>. DEFINE x == Some(T)
              rest == T \ {x}
  <2>1. x \in T /\ x \in S /\ rest \in SUBSET S
    BY <1>1, <1>3
  <2>2. Parts(T) = F[x] \cup Parts(rest)
    BY <2>1
  <2>3. F[x] \cap Parts(rest) = {}
    BY <2>1
  <2>4. IsFiniteSet(F[x])
    <3>1. F[x] \in SUBSET D
      BY <2>1
    <3>. QED
      BY <3>1, FS_Subset
  <2>5. Cardinality(F[x]) \in Nat
    BY <2>4, FS_CardinalityType
  <2>6. IsFiniteSet(Parts(rest)) /\ Cardinality(Parts(rest)) \in Nat
    BY <1>2, <2>1
  <2>7. g[T] = Cardinality(Parts(T)) * k /\ g[rest] = Cardinality(Parts(rest)) * k
    BY <2>1
  <2>. HIDE DEF Parts, x, rest, g
  <2>8. Cardinality(Parts(T)) = Cardinality(F[x]) + Cardinality(Parts(rest))
    <3>1. Cardinality(F[x] \cup Parts(rest)) =
            Cardinality(F[x]) + Cardinality(Parts(rest)) - Cardinality(F[x] \cap Parts(rest))
      BY <2>4, <2>6, FS_Union
    <3>2. Cardinality(F[x] \cap Parts(rest)) = 0
      BY <2>3, FS_EmptySet
    <3>. QED
      BY <2>2, <2>5, <2>6, <3>1, <3>2
  <2>9. \A a, b \in Nat : (a + b) * k = a * k + b * k
    OBVIOUS
  <2>10. g[T] = w[x] + g[rest]
    BY <2>1, <2>5, <2>6, <2>7, <2>8, <2>9
  <2>. QED
    BY <2>10 DEF x, rest
<1>4. g[{}] = 0
  <2>1. Parts({}) = {}
    OBVIOUS
  <2>2. Cardinality({}) * k = 0
    BY FS_EmptySet
  <2>. QED
    BY <2>1, <2>2
<1>5. g[S] = Cardinality(UNION {F[s] : s \in S}) * k
  OBVIOUS
<1>6. IsSum(g, S, w)
  <2>1. \A T \in SUBSET S :
          Cardinality(Parts(T)) * k = IF T = {} THEN 0 ELSE w[Some(T)] + g[T \ {Some(T)}]
    <3>1. \A T \in SUBSET S : g[T] = Cardinality(Parts(T)) * k
      OBVIOUS
    <3>. HIDE DEF g, Parts
    <3>2. {} \in SUBSET S
      OBVIOUS
    <3>. QED
      BY <1>3, <1>4, <3>1, <3>2
  <2>. HIDE DEF Parts
  <2>. QED
    BY <2>1 DEF IsSum
<1>. HIDE DEF g
<1>7. ASSUME NEW h, IsSum(h, S, w)
      PROVE  h[S] = g[S]
  <2>1. \A T \in SUBSET S : h[T] = IF T = {} THEN 0 ELSE w[Some(T)] + h[T \ {Some(T)}]
    BY <1>7 DEF IsSum
  <2>. DEFINE bad == {T \in SUBSET S : h[T] # g[T]}
  <2>2. SUFFICES ASSUME bad # {} PROVE FALSE
    OBVIOUS
  <2>3. PICK T \in bad : \A U \in bad : U \subseteq T => U = T
    <3>1. bad \subseteq SUBSET S
      OBVIOUS
    <3>. HIDE DEF bad
    <3>. QED
      BY <2>2, <3>1, SmallestSet
  <2>4. CASE T = {}
    BY <1>4, <2>1, <2>3, <2>4
  <2>5. CASE T # {}
    <3>1. Some(T) \in T /\ T \ {Some(T)} \in SUBSET S
      BY <1>1, <2>5
    <3>2. h[T \ {Some(T)}] = g[T \ {Some(T)}]
      BY <2>3, <3>1
    <3>. QED
      BY <1>3, <2>1, <2>3, <2>5, <3>2
  <2>. QED
    BY <2>4, <2>5
<1>. QED
  BY <1>5, <1>6, <1>7

(* There is a list by createdAt of any deliveries.                         *)
LEMMA ListExists ==
  ASSUME NEW S, IsFiniteSet(S), \A d \in S : stored[d].created \in Nat
  PROVE  ByCreatedAt(S) # {}
<1>. DEFINE bad == {T \in SUBSET S : ByCreatedAt(T) = {}}
<1>1. SUFFICES ASSUME bad # {} PROVE FALSE
  OBVIOUS
<1>2. PICK T \in bad : \A U \in bad : U \subseteq T => U = T
  <2>1. bad \subseteq SUBSET S
    OBVIOUS
  <2>. HIDE DEF bad
  <2>. QED
    BY <1>1, <2>1, SmallestSet
<1>3. T \in SUBSET S /\ ByCreatedAt(T) = {} /\ IsFiniteSet(T) /\ Cardinality(T) \in Nat
  <2>1. IsFiniteSet(T)
    BY FS_Subset
  <2>. QED
    BY <1>2, <2>1, FS_CardinalityType
<1>4. CASE T = {}
  <2>1. Cardinality(T) = 0 /\ 1..0 = {}
    BY <1>4, FS_EmptySet
  <2>2. <<>> \in [1..Cardinality(T) -> T] /\ DOMAIN <<>> = {}
    BY <2>1
  <2>3. <<>> \in ByCreatedAt(T)
    BY <2>1, <2>2 DEF ByCreatedAt, SetToSeqs
  <2>. QED
    BY <1>3, <2>3
<1>5. CASE T # {}
  <2>1. PICK d \in T : \A e \in T : stored[d].created <= stored[e].created
    <3>. DEFINE times == {stored[d].created : d \in T}
    <3>1. times \in SUBSET Nat /\ times # {}
      BY <1>3, <1>5
    <3>. HIDE DEF times
    <3>2. PICK t \in times : \A u \in times : t <= u
      BY <3>1, LeastNatural
    <3>. QED
      BY <3>2 DEF times
  <2>. DEFINE rest == T \ {d}
              n == Cardinality(rest)
  <2>2. rest \in SUBSET S /\ rest # T /\ IsFiniteSet(rest) /\ n \in Nat /\ Cardinality(T) = n + 1
    <3>1. IsFiniteSet(rest) /\ Cardinality(rest) = Cardinality(T) - 1
      BY <1>3, FS_RemoveElement
    <3>2. n \in Nat
      BY <3>1, FS_CardinalityType
    <3>. QED
      BY <1>3, <3>1, <3>2
  <2>3. PICK list : list \in ByCreatedAt(rest)
    BY <1>2, <2>2
  <2>4. /\ list \in [1..n -> rest]
        /\ \A i, j \in 1..n : i # j => list[i] # list[j]
        /\ \A i, j \in 1..n : i < j => stored[list[i]].created <= stored[list[j]].created
    BY <2>3 DEF ByCreatedAt, SetToSeqs
  <2>. DEFINE longer == [i \in 1..(n + 1) |-> IF i = 1 THEN d ELSE list[i - 1]]
  <2>. HIDE DEF n
  <2>5. \A i \in 1..(n + 1) : i = 1 \/ (i - 1 \in 1..n /\ list[i - 1] \in rest)
    BY <2>2, <2>4
  <2>6. longer \in [1..(n + 1) -> T]
    BY <2>5
  <2>7. /\ longer[1] = d
        /\ \A i \in 1..(n + 1) : i # 1 => longer[i] = list[i - 1]
    BY <2>2
  <2>. HIDE DEF longer, rest
  <2>8. ASSUME NEW i \in 1..(n + 1), NEW j \in 1..(n + 1), i < j
        PROVE  longer[i] # longer[j] /\ stored[longer[i]].created <= stored[longer[j]].created
    <3>1. j # 1 /\ j - 1 \in 1..n /\ longer[j] = list[j - 1] /\ list[j - 1] \in rest
      BY <2>2, <2>5, <2>7, <2>8
    <3>2. CASE i = 1
      <4>1. list[j - 1] \in T /\ list[j - 1] # d
        BY <3>1 DEF rest
      <4>. QED
        BY <2>1, <2>7, <3>1, <3>2, <4>1
    <3>3. CASE i # 1
      <4>1. i - 1 \in 1..n /\ i - 1 < j - 1 /\ longer[i] = list[i - 1]
        BY <2>2, <2>7, <2>8, <3>3
      <4>. QED
        BY <2>4, <3>1, <4>1
    <3>. QED
      BY <3>2, <3>3
  <2>9. \A i, j \in 1..(n + 1) : i # j => longer[i] # longer[j]
    <3>1. \A i, j \in 1..(n + 1) : i # j => i < j \/ j < i
      BY <2>2
    <3>. QED
      BY <2>8, <3>1
  <2>10. longer \in SetToSeqs(T)
    BY <2>2, <2>6, <2>9 DEF SetToSeqs
  <2>11. longer \in ByCreatedAt(T)
    <3>1. DOMAIN longer = 1..(n + 1)
      BY <2>6
    <3>. QED
      BY <2>8, <2>10, <3>1 DEF ByCreatedAt
  <2>. QED
    BY <1>3, <2>11
<1>. QED
  BY <1>4, <1>5

-----------------------------------------------------------------------------
(* Settlements                                                             *)

(* While nobody moves, a delivery is in the city of its establishment.     *)
InPlace(docs) ==
  \A d \in DOMAIN docs : /\ docs[d].store \in DOMAIN users
                         /\ users[docs[d].store].city = docs[d].city
StoresInv == ListingsTypes /\ (~ moved => InPlace(stored) /\ InPlace(coming))

(* So it was with what was there at the start.                             *)
StartsInPlace ==
  \A e \in Existing : \A docs \in {e.stored, e.coming} : \A d \in DOMAIN docs :
    /\ docs[d].store \in DOMAIN InitialUsers
    /\ InitialUsers[docs[d].store].city = docs[d].city

LEMMA StoresInit ==
  ASSUME StartsInPlace
  PROVE  Init => StoresInv
<1>. SUFFICES ASSUME Init PROVE StoresInv
  OBVIOUS
<1>1. PICK e \in Existing : stored = e.stored /\ coming = e.coming
  BY DEF Init
<1>2. users = InitialUsers
  BY DEF Init
<1>3. InPlace(stored) /\ InPlace(coming)
  BY <1>1, <1>2 DEF StartsInPlace, InPlace
<1>. QED
  BY <1>3, TypesInit DEF StoresInv

LEMMA StoresNext == StoresInv /\ [Next]_vars => StoresInv'
<1>. SUFFICES ASSUME StoresInv, [Next]_vars, ~ moved' PROVE InPlace(stored)' /\ InPlace(coming)'
  BY TypesNext DEF StoresInv
<1>. USE DEF StoresInv
<1>0. ListingsTypes /\ ListingsTypes'
  BY TypesNext
<1>1. ASSUME NEW d \in Delivery, NEW s \in DOMAIN users, NEW m, NEW status,
             StartCreation(d, s, status, m)
      PROVE  InPlace(stored)' /\ InPlace(coming)'
  <2>. DEFINE doc == [created |-> clock, store |-> s, city |-> users[s].city,
                      active |-> TRUE, driver |-> m,
                      status |-> IF m = None THEN status ELSE "ACAMINHO"]
  <2>1. /\ s \in DOMAIN users /\ coming' = With(coming, d, doc)
        /\ UNCHANGED <<users, stored, moved>>
    BY <1>1 DEF StartCreation
  <2>2. doc.store = s /\ doc.city = users[s].city
    OBVIOUS
  <2>. HIDE DEF doc
  <2>3. \A e \in DOMAIN coming' : coming'[e] = doc \/ (e \in DOMAIN coming /\ coming'[e] = coming[e])
    BY <2>1 DEF With
  <2>. QED
    BY <2>1, <2>2, <2>3 DEF InPlace
<1>2. ASSUME NEW d \in Delivery, StoreCreation(d)
      PROVE  InPlace(stored)' /\ InPlace(coming)'
  <2>1. /\ d \in DOMAIN coming /\ stored' = With(stored, d, coming[d])
        /\ coming' = [e \in DOMAIN coming \ {d} |-> coming[e]]
        /\ UNCHANGED <<users, moved>>
    BY <1>2 DEF StoreCreation
  <2>2. /\ \A e \in DOMAIN stored' :
             stored'[e] = coming[d] \/ (e \in DOMAIN stored /\ stored'[e] = stored[e])
        /\ \A e \in DOMAIN coming' : e \in DOMAIN coming /\ coming'[e] = coming[e]
    BY <2>1 DEF With
  <2>. QED
    BY <2>1, <2>2 DEF InPlace
<1>3. ASSUME NEW d \in Delivery, NEW status, NEW active, NEW m,
             NEW place \in Places(d), SaveDelivery(d, status, active, m, place)
      PROVE  InPlace(stored)' /\ InPlace(coming)'
  <2>. DEFINE doc == [created |-> stored[d].created, store |-> place.store,
                      city |-> place.city, active |-> active, driver |-> m,
                      status |-> status]
  <2>1. /\ d \in DOMAIN stored /\ stored' = [stored EXCEPT ![d] = doc]
        /\ UNCHANGED <<users, coming, moved>>
    BY <1>3 DEF SaveDelivery
  <2>2. InPlace(stored) /\ InPlace(coming)
    BY <2>1
  <2>3. doc.store = place.store /\ doc.city = place.city
    OBVIOUS
  <2>. HIDE DEF doc
  <2>4. doc.store \in DOMAIN users /\ users[doc.store].city = doc.city
    BY <2>1, <2>2, <2>3 DEF Places, InPlace
  <2>5. \A e \in DOMAIN stored' : stored'[e] = doc \/ (e \in DOMAIN stored /\ stored'[e] = stored[e])
    BY <2>1
  <2>. QED
    BY <2>1, <2>2, <2>4, <2>5 DEF InPlace
<1>4. ASSUME NEW u, NEW c, MoveUser(u, c)
      PROVE  InPlace(stored)' /\ InPlace(coming)'
  BY <1>4 DEF MoveUser
<1>5. ASSUME NEW u, DeleteUser(u)
      PROVE  InPlace(stored)' /\ InPlace(coming)'
  BY <1>5 DEF DeleteUser
<1>6. CASE Tick
  BY <1>6 DEF Tick, InPlace
<1>7. CASE AskPage
  BY <1>7 DEF AskPage, InPlace
<1>8. CASE ReadPage
  BY <1>8 DEF ReadPage, InPlace
<1>9. CASE UNCHANGED vars
  BY <1>9 DEF vars, InPlace
<1>. QED
  BY <1>1, <1>2, <1>3, <1>4, <1>5, <1>6, <1>7, <1>8, <1>9 DEF Next

SettledWhere(store, from, until) ==
  [All EXCEPT !.active = {TRUE}, !.status = {Finished}, !.store = {store},
              !.from = StartOfDay(from, 0), !.until = EndOfDay(until, 0)]

(* The rows of a settlement are the deliveries found, each once.           *)
LEMMA SettlementRows ==
  ASSUME ListingsTypes, NEW store, NEW from, NEW until
  PROVE  /\ SettlementDeliveries(store, from, until) \in Seq(Delivery)
         /\ IsInjective(SettlementDeliveries(store, from, until))
         /\ Len(SettlementDeliveries(store, from, until)) =
              Cardinality(Found(SettledWhere(store, from, until)))
         /\ Len(SettlementDeliveries(store, from, until)) \in Nat
         /\ SettlementDeliveries(store, from, until) = <<>>
            <=> Len(SettlementDeliveries(store, from, until)) = 0
<1>. DEFINE rows == SettlementDeliveries(store, from, until)
            found == Found(SettledWhere(store, from, until))
            n == Cardinality(found)
<1>1. IsFiniteSet(found) /\ found \subseteq Delivery /\ \A d \in found : stored[d].created \in Nat
  BY FoundIsFinite DEF ListingsTypes, AreDocuments
<1>2. rows = CHOOSE list \in ByCreatedAt(found) : TRUE
  BY DEF SettlementDeliveries, SettledWhere
<1>. HIDE DEF rows, found
<1>3. rows \in ByCreatedAt(found)
  BY <1>1, <1>2, ListExists
<1>4. n \in Nat
  BY <1>1, FS_CardinalityType
<1>5. rows \in [1..n -> found] /\ IsInjective(rows)
  BY <1>3 DEF ByCreatedAt, SetToSeqs, IsInjective
<1>. HIDE DEF n
<1>6. rows \in Seq(Delivery) /\ Len(rows) = n
  BY <1>1, <1>4, <1>5
<1>7. rows = <<>> <=> Len(rows) = 0
  BY <1>6
<1>. QED
  BY <1>4, <1>5, <1>6, <1>7 DEF rows, found, n

(* What buildSettlement charges a store and shows of its rows.             *)
LEMMA SettlementOfStore ==
  ASSUME ListingsTypes, NEW store, users[store].city \in City, NEW from, NEW until
  PROVE  LET rows == SettlementDeliveries(store, from, until)
             settled == buildSettlement(store, from, until)
             fee == Fee[users[store].city]
         IN /\ settled.totalDeliveries = Len(rows) * fee
            /\ FlattenSeq(settled.pages) = IF fee > 0 THEN rows ELSE <<>>
<1>. DEFINE rows == SettlementDeliveries(store, from, until)
            settled == buildSettlement(store, from, until)
            fee == Fee[users[store].city]
            refused == rows = <<>> \/ users[store].city = None \/ fee = 0
<1>1. /\ rows \in Seq(Delivery) /\ Len(rows) \in Nat
      /\ rows = <<>> <=> Len(rows) = 0
  BY SettlementRows
<1>2. settled = IF refused THEN [pages |-> <<>>, totalDeliveries |-> 0]
                ELSE [pages |-> SettlementPages(rows, FirstPageRows, NextPageRows),
                      totalDeliveries |-> Len(rows) * fee]
  BY DEF buildSettlement
<1>3. fee \in Nat /\ users[store].city # None
  BY ListingsAssumption
<1>. HIDE DEF rows, settled, fee
<1>4. CASE refused
  <2>1. settled.totalDeliveries = 0 /\ settled.pages = <<>>
    BY <1>2, <1>4
  <2>2. FlattenSeq(<<>>) = <<>>
    BY DEF FlattenSeq
  <2>3. (rows = <<>> \/ fee = 0) /\ Len(rows) * fee = 0
    BY <1>1, <1>3, <1>4
  <2>. QED
    BY <1>3, <2>1, <2>2, <2>3 DEF rows, settled, fee
<1>5. CASE ~ refused
  <2>1. /\ settled.totalDeliveries = Len(rows) * fee
        /\ settled.pages = SettlementPages(rows, FirstPageRows, NextPageRows)
    BY <1>2, <1>5
  <2>2. FlattenSeq(settled.pages) = rows
    BY <1>1, <2>1, PagesJoined, ListingsAssumption
  <2>3. fee > 0
    BY <1>3, <1>5
  <2>. QED
    BY <2>1, <2>2, <2>3 DEF rows, settled, fee
<1>. QED
  BY <1>4, <1>5

(* What is finished in a city, the days beginning that long before UTC's.  *)
FinishedWhere(city, from, until, offset) ==
  [All EXCEPT !.active = {TRUE}, !.status = {Finished}, !.city = {city},
              !.from = StartOfDay(from, offset), !.until = EndOfDay(until, offset)]

(* A filter is its fields.                                                 *)
SameFilter(v, w) ==
  /\ v.active = w.active /\ v.status = w.status /\ v.city = w.city
  /\ v.store = w.store /\ v.driver = w.driver /\ v.from = w.from /\ v.until = w.until

LEMMA SameFilterFindsSame ==
  ASSUME NEW v, NEW w, SameFilter(v, w)
  PROVE  Found(v) = Found(w)
BY DEF SameFilter, Found, Passes

LEMMA FinishedFields ==
  ASSUME NEW c, NEW from, NEW until, NEW offset
  PROVE  SameFilter(FinishedWhere(c, from, until, offset),
           [active |-> {TRUE}, city |-> {c}, status |-> {Finished},
            store |-> Anyone, driver |-> Anyone,
            from |-> StartOfDay(from, offset), until |-> EndOfDay(until, offset)])
BY DEF SameFilter, FinishedWhere, All

LEMMA SettledFields ==
  ASSUME NEW s, NEW from, NEW until
  PROVE  SameFilter(SettledWhere(s, from, until),
           [active |-> {TRUE}, city |-> City \cup {None}, status |-> {Finished},
            store |-> {s}, driver |-> Anyone,
            from |-> StartOfDay(from, 0), until |-> EndOfDay(until, 0)])
BY DEF SameFilter, SettledWhere, All

LEMMA DashboardShows ==
  ASSUME ListingsTypes, NEW u \in OfType(Admins), users[u].city # None,
         NEW q \in Asked, q.store = None, q.driver = None
  PROVE  LET asked == [q EXCEPT !.city = None]
             shown == getDashboardCounts(u, asked)
             finished == Cardinality(FinishedIn(users[u].city, DateRange(asked), LocalOffset))
         IN /\ shown.totalEntregas = finished
            /\ shown.totalValorAdmin = finished * Fee[users[u].city]
            /\ shown.range = DateRange(asked)
<1>. DEFINE asked == [q EXCEPT !.city = None]
            city == IF users[u].type = "superadmin" THEN FirstGiven(asked.city, users[u].city)
                    ELSE users[u].city
            range == DateRange(asked)
            query == [asked EXCEPT !.city = city, !.status = {Finished}]
            list == buildDeliveriesWhere(u, query)
            counted == [list EXCEPT !.from = StartOfDay(range.createdIn, LocalOffset),
                                    !.until = EndOfDay(range.createdUntil, LocalOffset)]
            finished == Cardinality(Found(counted))
<1>1. u \in DOMAIN users /\ users[u].type # "motoboy" /\ users[u].type \notin Shopkeepers
  BY DEF OfType, Admins, Shopkeepers
<1>2. asked.city = None
  BY DEF Asked
<1>3. city = users[u].city
  BY <1>2 DEF FirstGiven
<1>4. LET shown == getDashboardCounts(u, asked) IN
      /\ shown.totalEntregas = finished /\ shown.totalValorAdmin = finished * Fee[city]
      /\ shown.range = range
  <2>1. ~ (users[u].type = "superadmin" /\ city = None)
    BY <1>3
  <2>. QED
    BY <2>1 DEF getDashboardCounts
<1>5. /\ query.status = {Finished} /\ query.city = users[u].city
      /\ query.store = None /\ query.driver = None
  <2>. HIDE DEF city
  <2>. QED
    BY <1>3 DEF Asked
<1>. HIDE DEF query, range, city
<1>6. applyCityWhere(users[u], users[u].city) = {users[u].city}
  BY DEF applyCityWhere, FirstGiven, OnlyIfGiven
<1>. DEFINE from == From(query)
            until == Until(query)
<1>7. list = [active |-> {TRUE}, city |-> {users[u].city}, status |-> {Finished},
              store |-> Anyone, driver |-> Anyone, from |-> from, until |-> until]
  <2>. DEFINE asks == IF query.status = {} THEN Statuses ELSE query.status
              active == IF Canceled \in query.status THEN BOOLEAN ELSE {TRUE}
              given == OnlyIfGiven(query.store, Anyone)
              driver == OnlyIfGiven(query.driver, Anyone)
              cities == applyCityWhere(users[u], query.city)
  <2>1. list = [active |-> active, city |-> cities, status |-> asks, store |-> given,
                driver |-> driver, from |-> from, until |-> until]
    BY <1>1 DEF buildDeliveriesWhere
  <2>2. /\ active = {TRUE} /\ asks = {Finished} /\ given = Anyone /\ driver = Anyone
        /\ cities = {users[u].city}
    BY <1>5, <1>6 DEF OnlyIfGiven, Finished, Canceled
  <2>. HIDE DEF asks, active, given, driver, cities, from, until, list
  <2>. QED
    BY <2>1, <2>2
<1>. DEFINE start == StartOfDay(range.createdIn, LocalOffset)
            end == EndOfDay(range.createdUntil, LocalOffset)
<1>8. counted = [list EXCEPT !.from = start, !.until = end]
  OBVIOUS
<1>9. SameFilter(FinishedWhere(users[u].city, range.createdIn, range.createdUntil, LocalOffset),
        [active |-> {TRUE}, city |-> {users[u].city}, status |-> {Finished},
         store |-> Anyone, driver |-> Anyone, from |-> start, until |-> end])
  BY FinishedFields
<1>. HIDE DEF counted, list, from, until, start, end
<1>10. SameFilter(counted, FinishedWhere(users[u].city, range.createdIn, range.createdUntil, LocalOffset))
  BY <1>7, <1>8, <1>9 DEF SameFilter
<1>11. finished = Cardinality(FinishedIn(users[u].city, range, LocalOffset))
  BY <1>10, SameFilterFindsSame DEF FinishedIn, FinishedWhere
<1>. QED
  BY <1>3, <1>4, <1>11 DEF range

(* The finished deliveries of a city are those of its stores.              *)
LEMMA CityIsItsUsers ==
  ASSUME StoresInv, ~ moved, NEW c \in City, NEW from, NEW until
  PROVE  /\ Found(FinishedWhere(c, from, until, 0)) =
              UNION {Found(SettledWhere(s, from, until)) : s \in EstablishmentsIn(c)}
         /\ \A s, t \in EstablishmentsIn(c) : s # t =>
              Found(SettledWhere(s, from, until)) \cap Found(SettledWhere(t, from, until)) = {}
<1>. DEFINE start == StartOfDay(from, 0)
            end == EndOfDay(until, 0)
            InTime(d) == /\ stored[d].active = TRUE /\ stored[d].status = Finished
                         /\ start <= stored[d].created /\ stored[d].created <= end
<1>1. \A d \in DOMAIN stored : stored[d] \in Document
  BY DEF StoresInv, ListingsTypes, AreDocuments
<1>2. \A d : d \in Found(FinishedWhere(c, from, until, 0))
             <=> d \in DOMAIN stored /\ InTime(d) /\ stored[d].city = c
  <2>. DEFINE w == [active |-> {TRUE}, city |-> {c}, status |-> {Finished},
                    store |-> Anyone, driver |-> Anyone, from |-> start, until |-> end]
  <2>1. Found(FinishedWhere(c, from, until, 0)) = Found(w)
    BY FinishedFields, SameFilterFindsSame
  <2>2. w.active = {TRUE} /\ w.city = {c} /\ w.status = {Finished} /\ w.store = Anyone
        /\ w.driver = Anyone /\ w.from = start /\ w.until = end
    OBVIOUS
  <2>. HIDE DEF start, end, w
  <2>. QED
    BY <1>1, <2>1, <2>2 DEF Found, Passes, Document
<1>3. \A s, d : d \in Found(SettledWhere(s, from, until))
                <=> d \in DOMAIN stored /\ InTime(d) /\ stored[d].store = s
  <2>. SUFFICES ASSUME NEW s, NEW d
                PROVE  d \in Found(SettledWhere(s, from, until))
                       <=> d \in DOMAIN stored /\ InTime(d) /\ stored[d].store = s
    OBVIOUS
  <2>. DEFINE w == [active |-> {TRUE}, city |-> City \cup {None}, status |-> {Finished},
                    store |-> {s}, driver |-> Anyone, from |-> start, until |-> end]
  <2>1. Found(SettledWhere(s, from, until)) = Found(w)
    BY SettledFields, SameFilterFindsSame
  <2>2. w.active = {TRUE} /\ w.city = City \cup {None} /\ w.status = {Finished}
        /\ w.store = {s} /\ w.driver = Anyone /\ w.from = start /\ w.until = end
    OBVIOUS
  <2>. HIDE DEF start, end, w
  <2>. QED
    BY <1>1, <2>1, <2>2 DEF Found, Passes, Document
<1>. HIDE DEF start, end, InTime
<1>4. \A d \in DOMAIN stored : stored[d].city = c <=> stored[d].store \in EstablishmentsIn(c)
  BY DEF StoresInv, InPlace, EstablishmentsIn
<1>5. Found(FinishedWhere(c, from, until, 0)) =
        UNION {Found(SettledWhere(s, from, until)) : s \in EstablishmentsIn(c)}
  <2>1. ASSUME NEW d \in Found(FinishedWhere(c, from, until, 0))
        PROVE  \E s \in EstablishmentsIn(c) : d \in Found(SettledWhere(s, from, until))
    BY <1>2, <1>3, <1>4
  <2>2. ASSUME NEW s \in EstablishmentsIn(c), NEW d \in Found(SettledWhere(s, from, until))
        PROVE  d \in Found(FinishedWhere(c, from, until, 0))
    BY <1>2, <1>3, <1>4
  <2>. QED
    BY <2>1, <2>2
<1>6. ASSUME NEW s \in EstablishmentsIn(c), NEW t \in EstablishmentsIn(c), s # t
      PROVE  Found(SettledWhere(s, from, until)) \cap Found(SettledWhere(t, from, until)) = {}
  BY <1>3, <1>6
<1>. QED
  BY <1>5, <1>6

(* Two finite sets, what each has that the other has not added to the other *)
LEMMA SameUnion ==
  ASSUME NEW S, NEW T, IsFiniteSet(S), IsFiniteSet(T)
  PROVE  Cardinality(S) + Cardinality(T \ S) = Cardinality(T) + Cardinality(S \ T)
<1>1. /\ IsFiniteSet(T \ S) /\ IsFiniteSet(S \ T)
      /\ Cardinality(T \ S) = Cardinality(T) - Cardinality(T \cap S)
      /\ Cardinality(S \ T) = Cardinality(S) - Cardinality(S \cap T)
  BY FS_Difference
<1>2. S \cap T = T \cap S /\ IsFiniteSet(S \cap T)
  BY FS_Intersection
<1>3. /\ Cardinality(S) \in Nat /\ Cardinality(T) \in Nat
      /\ Cardinality(S \cap T) \in Nat
  BY <1>2, FS_CardinalityType
<1>. DEFINE both == Cardinality(S \cap T)
<1>4. Cardinality(T \cap S) = both
  BY <1>2
<1>. HIDE DEF both
<1>5. both \in Nat
  BY <1>3 DEF both
<1>. QED
  BY <1>1, <1>3, <1>4, <1>5 DEF both

LEMMA FactorsOut ==
  ASSUME NEW a \in Nat, NEW b \in Nat, NEW c \in Nat, NEW d \in Nat, NEW k \in Nat,
         (a + b) * k = (c + d) * k
  PROVE  a * k + b * k = c * k + d * k
OBVIOUS

LEMMA TotalsAgree ==
  ASSUME StoresInv, ~ moved,
         NEW u \in OfType(Admins), users[u].city # None,
         NEW q \in Queries, q.store = None, q.driver = None
  PROVE  LET city == users[u].city
             shown == getDashboardCounts(u, [q EXCEPT !.city = None])
             settled(s) == buildSettlement(s, shown.range.createdIn, shown.range.createdUntil)
             rows(s) == FlattenSeq(settled(s).pages)
             local == FinishedIn(city, shown.range, LocalOffset)
             utc == FinishedIn(city, shown.range, 0)
             notShown == Cardinality(utc \ local)
             notSettled == Cardinality(local \ utc)
         IN /\ shown.totalValorAdmin + notShown * Fee[city] =
                 MapThenSumSet(LAMBDA s : settled(s).totalDeliveries, EstablishmentsIn(city))
                   + notSettled * Fee[city]
            /\ Fee[city] > 0 =>
               shown.totalEntregas + notShown =
                 MapThenSumSet(LAMBDA s : Len(rows(s)), EstablishmentsIn(city)) + notSettled
            /\ \A s \in EstablishmentsIn(city) : IsInjective(rows(s))
<1>. DEFINE shown == getDashboardCounts(u, [q EXCEPT !.city = None])
            settled(s) == buildSettlement(s, shown.range.createdIn, shown.range.createdUntil)
            rows(s) == FlattenSeq(settled(s).pages)
            c == users[u].city
            fee == Fee[c]
            S == EstablishmentsIn(c)
            from == DateRange([q EXCEPT !.city = None]).createdIn
            until == DateRange([q EXCEPT !.city = None]).createdUntil
            found == Found(FinishedWhere(c, from, until, 0))
            counted == Found(FinishedWhere(c, from, until, LocalOffset))
            local == FinishedIn(c, shown.range, LocalOffset)
            utc == FinishedIn(c, shown.range, 0)
            F == [s \in S |-> Found(SettledWhere(s, from, until))]
            charges == [s \in S |-> settled(s).totalDeliveries]
            lengths == [s \in S |-> Len(rows(s))]
<1>1. ListingsTypes /\ u \in DOMAIN users /\ q \in Asked
  BY ListingsAssumption DEF StoresInv, OfType
<1>2. c \in City /\ fee \in Nat
  <2>1. users[u] \in User
    BY <1>1 DEF ListingsTypes
  <2>. QED
    BY <2>1, ListingsAssumption DEF User
<1>3. /\ shown.totalEntregas = Cardinality(counted)
      /\ shown.totalValorAdmin = Cardinality(counted) * fee
      /\ shown.range.createdIn = from /\ shown.range.createdUntil = until
      /\ local = counted /\ utc = found
  BY <1>1, DashboardShows DEF FinishedIn, FinishedWhere
<1>4. /\ IsFiniteSet(found) /\ Cardinality(found) \in Nat
      /\ IsFiniteSet(counted) /\ Cardinality(counted) \in Nat
  BY <1>1, FoundIsFinite, FS_CardinalityType
<1>5. /\ found = UNION {F[s] : s \in S}
      /\ \A s, t \in S : s # t => F[s] \cap F[t] = {}
  <2>1. /\ found = UNION {Found(SettledWhere(s, from, until)) : s \in S}
        /\ \A s, t \in S : s # t =>
             Found(SettledWhere(s, from, until)) \cap Found(SettledWhere(t, from, until)) = {}
    BY <1>2, CityIsItsUsers
  <2>2. \A s \in S : F[s] = Found(SettledWhere(s, from, until))
    OBVIOUS
  <2>. HIDE DEF F, S, found, from, until
  <2>. QED
    BY <2>1, <2>2
<1>6. \A s \in S : F[s] \in SUBSET DOMAIN stored
  BY <1>1, FoundIsFinite
<1>7. IsFiniteSet(S) /\ IsFiniteSet(DOMAIN stored)
  <2>1. IsFiniteSet(DOMAIN stored)
    <3>1. DOMAIN stored \in SUBSET Delivery
      BY <1>1 DEF ListingsTypes, AreDocuments
    <3>. QED
      BY <3>1, FS_Subset, ListingsAssumption
  <2>2. IsFiniteSet(S)
    <3>1. S \in SUBSET DOMAIN InitialUsers
      BY <1>1 DEF EstablishmentsIn, ListingsTypes
    <3>. QED
      BY <3>1, FS_Subset, ListingsAssumption
  <2>. QED
    BY <2>1, <2>2
<1>8. ASSUME NEW s \in S
      PROVE  /\ charges[s] = Cardinality(F[s]) * fee
             /\ IsInjective(rows(s))
             /\ fee > 0 => lengths[s] = Cardinality(F[s]) * 1
  <2>. DEFINE list == SettlementDeliveries(s, from, until)
  <2>1. users[s].city = c
    BY DEF EstablishmentsIn
  <2>2. settled(s) = buildSettlement(s, from, until)
    BY <1>3
  <2>3. /\ settled(s).totalDeliveries = Len(list) * fee
        /\ rows(s) = IF fee > 0 THEN list ELSE <<>>
    BY <1>1, <1>2, <2>1, <2>2, SettlementOfStore
  <2>4. /\ IsInjective(list) /\ Len(list) = Cardinality(Found(SettledWhere(s, from, until)))
        /\ Len(list) \in Nat
    BY <1>1, SettlementRows
  <2>5. F[s] = Found(SettledWhere(s, from, until)) /\ charges[s] = settled(s).totalDeliveries
        /\ lengths[s] = Len(rows(s))
    OBVIOUS
  <2>6. IsInjective(<<>>)
    BY DEF IsInjective
  <2>. HIDE DEF list, rows, settled, F, charges, lengths, fee, S, from, until
  <2>. QED
    BY <1>2, <2>3, <2>4, <2>5, <2>6
<1>9. \A T \in SUBSET S : T # {} => Some(T) \in S
  BY DEF Some
<1>10. MapThenSumSet(LAMBDA s : settled(s).totalDeliveries, S) = Cardinality(found) * fee
  <2>. DEFINE P(h) == h = [T \in SUBSET S |->
                IF T = {} THEN 0
                ELSE settled(CHOOSE x \in T : TRUE).totalDeliveries
                     + h[T \ {CHOOSE x \in T : TRUE}]]
              sum == CHOOSE h : P(h)
  <2>. HIDE DEF settled, S, F, found, fee
  <2>1. MapThenSumSet(LAMBDA s : settled(s).totalDeliveries, S) = sum[S]
    BY DEF MapThenSumSet, MapThenFoldSet
  <2>2. \A s \in S : charges[s] = settled(s).totalDeliveries
    OBVIOUS
  <2>. HIDE DEF charges
  <2>3. ASSUME NEW h
        PROVE  P(h) <=> IsSum(h, S, charges)
    <3>1. [T \in SUBSET S |-> IF T = {} THEN 0
             ELSE settled(CHOOSE x \in T : TRUE).totalDeliveries + h[T \ {CHOOSE x \in T : TRUE}]]
          = [T \in SUBSET S |-> IF T = {} THEN 0 ELSE charges[Some(T)] + h[T \ {Some(T)}]]
      BY <1>9, <2>2 DEF Some
    <3>. QED
      BY <3>1 DEF IsSum
  <2>4. fee \in Nat /\ \A s \in S : charges[s] = Cardinality(F[s]) * fee
    BY <1>2, <1>8
  <2>5. /\ \E h : IsSum(h, S, charges)
        /\ \A h : IsSum(h, S, charges) => h[S] = Cardinality(UNION {F[s] : s \in S}) * fee
    BY <1>5, <1>6, <1>7, <2>4, SumOfParts
  <2>. HIDE DEF P
  <2>6. P(sum)
    BY <2>3, <2>5
  <2>. QED
    BY <1>5, <2>1, <2>3, <2>5, <2>6
<1>11. fee > 0 => MapThenSumSet(LAMBDA s : Len(rows(s)), S) = Cardinality(found)
  <2>. SUFFICES ASSUME fee > 0 PROVE MapThenSumSet(LAMBDA s : Len(rows(s)), S) = Cardinality(found)
    OBVIOUS
  <2>. DEFINE P(h) == h = [T \in SUBSET S |->
                IF T = {} THEN 0
                ELSE Len(rows(CHOOSE x \in T : TRUE)) + h[T \ {CHOOSE x \in T : TRUE}]]
              sum == CHOOSE h : P(h)
              one == 1
  <2>. HIDE DEF rows, S, F, found, fee
  <2>1. MapThenSumSet(LAMBDA s : Len(rows(s)), S) = sum[S]
    BY DEF MapThenSumSet, MapThenFoldSet
  <2>2. \A s \in S : lengths[s] = Len(rows(s))
    OBVIOUS
  <2>. HIDE DEF lengths
  <2>3. ASSUME NEW h
        PROVE  P(h) <=> IsSum(h, S, lengths)
    <3>1. [T \in SUBSET S |-> IF T = {} THEN 0
             ELSE Len(rows(CHOOSE x \in T : TRUE)) + h[T \ {CHOOSE x \in T : TRUE}]]
          = [T \in SUBSET S |-> IF T = {} THEN 0 ELSE lengths[Some(T)] + h[T \ {Some(T)}]]
      BY <1>9, <2>2 DEF Some
    <3>. QED
      BY <3>1 DEF IsSum
  <2>4. one \in Nat /\ \A s \in S : lengths[s] = Cardinality(F[s]) * one
    BY <1>8
  <2>. HIDE DEF one
  <2>5. /\ \E h : IsSum(h, S, lengths)
        /\ \A h : IsSum(h, S, lengths) => h[S] = Cardinality(UNION {F[s] : s \in S}) * one
    BY <1>5, <1>6, <1>7, <2>4, SumOfParts
  <2>. HIDE DEF P
  <2>6. P(sum)
    BY <2>3, <2>5
  <2>7. Cardinality(found) * one = Cardinality(found)
    BY <1>4 DEF one
  <2>. QED
    BY <1>5, <2>1, <2>3, <2>5, <2>6, <2>7
<1>12. /\ Cardinality(counted) + Cardinality(found \ counted) =
            Cardinality(found) + Cardinality(counted \ found)
       /\ (Cardinality(counted) + Cardinality(found \ counted)) * fee =
            (Cardinality(found) + Cardinality(counted \ found)) * fee
  <2>. HIDE DEF counted, found, fee
  <2>. QED
    BY <1>4, SameUnion
<1>13. /\ Cardinality(counted) * fee + Cardinality(found \ counted) * fee =
            Cardinality(found) * fee + Cardinality(counted \ found) * fee
  <2>1. Cardinality(found \ counted) \in Nat /\ Cardinality(counted \ found) \in Nat
    BY <1>4, FS_Difference, FS_CardinalityType
  <2>. HIDE DEF counted, found, fee
  <2>. QED
    BY <1>2, <1>4, <1>12, <2>1, FactorsOut
<1>. HIDE DEF shown, settled, rows, c, fee, S, from, until, found, counted, local, utc
<1>14. /\ shown.totalValorAdmin + Cardinality(utc \ local) * fee =
            MapThenSumSet(LAMBDA s : settled(s).totalDeliveries, S)
              + Cardinality(local \ utc) * fee
       /\ fee > 0 => shown.totalEntregas + Cardinality(utc \ local) =
            MapThenSumSet(LAMBDA s : Len(rows(s)), S) + Cardinality(local \ utc)
  BY <1>3, <1>10, <1>11, <1>12, <1>13
<1>. QED
  BY <1>8, <1>14 DEF shown, settled, rows, c, fee, S, local, utc

(* For any number of users, deliveries, rows a page and distance between   *)
(* the server's zone and UTC: what the dashboard tells an administrator to *)
(* collect for a period is what the settlements of the city's users        *)
(* charge, but for the deliveries in the hours by which their days differ, *)
(* as long as nobody moves or goes (getDashboardCounts, buildSettlement).  *)
THEOREM SettlementsMatch ==
  ASSUME StartsInPlace
  PROVE  Spec => []SettlementsAgree
<1>1. Spec => []StoresInv
  BY StoresInit, StoresNext, PTL DEF Spec
<1>2. StoresInv => SettlementsAgree
  <2>. SUFFICES ASSUME StoresInv PROVE SettlementsAgree
    OBVIOUS
  <2>. QED
    BY TotalsAgree DEF SettlementsAgree
<1>. QED
  BY <1>1, <1>2, PTL
=============================================================================
