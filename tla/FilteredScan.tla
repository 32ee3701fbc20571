---------------------------- MODULE FilteredScan ----------------------------
(***************************************************************************)
(* The scan of one part with the predicates and the join keys pushed into  *)
(* it: TableScanOperator (src/exec/table_scan.cc), which orders the fields *)
(* it asks for, rebinds the filter to them and puts the columns back at    *)
(* their places; the ScanFilter (src/exec/scan_filter.cc); and the reader  *)
(* of the row group (src/io/filtered_scan.cc), which decodes the filter's  *)
(* columns first, string columns piece by piece and perhaps through the    *)
(* chunk's dictionary, and then copies only the rows that pass.            *)
(*                                                                         *)
(* The fields are A (fixed width, the join's key), S (a VARCHAR) and X,    *)
(* which no predicate reads.  A copied value stands for itself as the row  *)
(* of the chunk it was decoded from, so a reader that lost its place       *)
(* shows in what comes out.                                                *)
(***************************************************************************)
EXTENDS Integers, Sequences, FiniteSets, SequenceTheorems, FiniteSetTheorems, TLAPS

CONSTANTS
  PartRows,    \* the rows of the part
  BatchSize    \* ExecContext::batch_size

\* A part has rows (ParquetTable::Open leaves out the empty row groups), and MakeFilteredScan
\* refuses a batch size below 1.
ASSUME ScanSizes == PartRows \in Nat \ {0} /\ BatchSize \in Nat \ {0}

VARIABLES
  value,       \* the part's values: field, row
  pushed,      \* the fields with a predicate, in the order of MakeScanFilter
  keys,        \* the values the join's key filter may contain, NoKeys without one
  filterOnly,  \* the fields nothing above the scan reads
  late,        \* X is the row id of a narrow scan
  dictionary,  \* the chunk of S is read as indices into its dictionary
  dictSize,    \* the distinct values of that dictionary
  pos,         \* the rows each field's column reader has passed
  left,        \* rows_left_
  next,        \* next_row_
  offset,      \* offset_ of the narrow scan
  rows,        \* the rows of the batch being read, 0 between batches
  column,      \* the filter's columns done in it
  done,        \* the rows of a string column done
  selected,    \* the bitmap of the batch: the positions still selected
  read,        \* the rows decoded of each of the filter's columns
  out,         \* what the operator has returned, field by field
  state        \* "scanning", "end" or "invalid"

config == <<value, pushed, keys, filterOnly, late, dictionary, dictSize>>
filteredScanVars ==
  <<config, pos, left, next, offset, rows, column, done, selected, read, out, state>>

Fields == 1 .. 3
A == 1
S == 2
X == 3
NullValue == 0
Passing == {1}    \* what a predicate is true for
NoKeys == {NullValue}
Rows == 1 .. PartRows

\* The elements of a set of numbers in ascending order: the one at place n has n up to it.
UpTo(s, i) == {j \in s : j <= i}
InOrder(s) == [n \in 1 .. Cardinality(s) |-> CHOOSE i \in s : Cardinality(UpTo(s, i)) = n]

-----------------------------------------------------------------------------
(* TableScanOperator: the fields asked for and where they are               *)

\* A narrow scan leaves its late field out.
ReadFields == IF late THEN Fields \ {X} ELSE Fields

\* The fields asked for: the returned ones in their own order, then those read only to filter on.
ScanFields == InOrder(ReadFields \ filterOnly) \o InOrder(filterOnly)

\* ScanPositionOf, and NarrowFilter's read_index: a field's place in the list asked for.
ScanPositionOf(f) == CHOOSE i \in DOMAIN ScanFields : ScanFields[i] = f

Returned == Len(ScanFields) - Cardinality(filterOnly)

-----------------------------------------------------------------------------
(* The ScanFilter                                                           *)

\* The columns of the pushed predicates, then the key filter's unless it is one of them
\* (BothScanFilters), as fields.
FilterColumns ==
  IF keys # NoKeys /\ A \notin Range(pushed) THEN Append(pushed, A) ELSE pushed

\* Whether a value of a field passes what the filter asks of it: NULL fails a predicate, and
\* the key filter may or may not contain its hash.
Passes(f, v) ==
  /\ f \in Range(pushed) => v \in Passing
  /\ f = A /\ keys # NoKeys => v \in keys

\* The predicate is asked once per distinct value: KeepByDictionary's conditions.
ByDictionary(piece) == dictionary /\ dictSize # 0 /\ dictSize <= piece

\* ReadPiece: whether the piece has a view per row.
HasViews(f, piece) ==
  \/ ~dictionary
  \/ ScanPositionOf(f) <= Returned
  \/ dictSize = 0
  \/ dictSize > piece

-----------------------------------------------------------------------------
(* FilteredScanReader                                                       *)

Distinct(f) == Cardinality(Range(value[f]) \ {NullValue})

FilteredScanInit ==
  /\ value \in {v \in [Fields -> [Rows -> {NullValue, 1, 2}]] :
                  NullValue \notin Range(v[A]) /\ Range(v[X]) = {1}}
  /\ pushed \in {<<>>, <<A>>, <<S>>, <<A, S>>, <<S, A>>}
  /\ keys \in {NoKeys, {1}, {2}, {1, 2}}
  /\ filterOnly \in SUBSET (IF keys = NoKeys THEN Range(pushed) ELSE Range(pushed) \ {A})
  /\ late \in BOOLEAN
  /\ late => keys = NoKeys /\ filterOnly = {}
  /\ dictionary \in BOOLEAN
  /\ dictSize \in IF dictionary THEN Distinct(S) .. Distinct(S) + 1 ELSE {0}
  /\ pos = [f \in Fields |-> 0]
  /\ left = PartRows /\ next = 0 /\ offset = 0
  /\ rows = 0 /\ column = 0 /\ done = 0
  /\ selected = {} /\ read = [f \in Fields |-> <<>>]
  /\ out = [f \in Fields |-> <<>>]
  /\ state = "scanning"

BatchRows == IF BatchSize < left THEN BatchSize ELSE left

\* ReadNextBatch: the next rows, all selected.
StartBatch ==
  /\ state = "scanning" /\ rows = 0 /\ left > 0
  /\ rows' = BatchRows
  /\ left' = left - rows'
  /\ next' = next + rows'
  /\ selected' = 1 .. rows'
  /\ column' = 0 /\ done' = 0
  /\ read' = [f \in Fields |-> <<>>]
  /\ UNCHANGED <<config, pos, offset, out, state>>

\* The column of the filter that is next: what the position it was rebound to names.
FilterField == ScanFields[ScanPositionOf(FilterColumns[column + 1])]

InBatch == state = "scanning" /\ rows > 0
Filtering == InBatch /\ column < Len(FilterColumns)

\* The rows a reader gives next.
NextRows(f, n) == [i \in 1 .. n |-> pos[f] + i]

\* A fixed-width column is read whole and the filter applied to it.
FilterFixed ==
  /\ Filtering /\ FilterField # S
  /\ LET f == FilterField
         got == NextRows(f, rows)
     IN  /\ selected' = {i \in selected : Passes(FilterColumns[column + 1], value[f][got[i]])}
         /\ read' = [read EXCEPT ![f] = got]
         /\ pos' = [pos EXCEPT ![f] = @ + rows]
  /\ column' = column + 1
  /\ UNCHANGED <<config, left, next, offset, rows, done, out, state>>

\* FilterStrings: a piece of a string column, at most to the end of a page.  A piece without
\* views can be asked by its dictionary only.
FilterPiece ==
  /\ Filtering /\ FilterField = S
  /\ \E piece \in 1 .. rows - done :
       LET got == NextRows(S, piece)
           passes(i) == Passes(FilterColumns[column + 1], value[S][got[i - done]])
       IN  /\ selected' = {i \in selected : i - done \in 1 .. piece => passes(i)}
           /\ state' = IF HasViews(S, piece) \/ ByDictionary(piece) THEN state ELSE "invalid"
           /\ read' = [read EXCEPT ![S] = @ \o got]
           /\ pos' = [pos EXCEPT ![S] = @ + piece]
           /\ IF done + piece = rows
                THEN done' = 0 /\ column' = column + 1
                ELSE done' = done + piece /\ UNCHANGED column
  /\ UNCHANGED <<config, left, next, offset, rows, out>>

Chosen == InOrder(selected)

\* Mutant: the columns of a batch that lost every row are left where they are.
MoveMutant(f) == IF f \in Range(FilterColumns) \/ selected = {} THEN pos[f] ELSE pos[f] + rows

\* The columns the filter did not read are read past the batch, or skipped.
Move(f) == IF f \in Range(FilterColumns) THEN pos[f] ELSE pos[f] + rows

\* The selected rows of a column: Candidates::Finish and Compact of what the filter read,
\* ReadStrings and ReadFixed of the rest.
Selected(f) ==
  LET got == IF f \in Range(FilterColumns) THEN read[f] ELSE NextRows(f, rows)
  IN  [i \in DOMAIN Chosen |-> got[Chosen[i]]]

\* Narrow: the rows' positions in the part, reported by a filtered scan, counted otherwise.
RowIds ==
  [i \in DOMAIN Chosen |-> IF pushed # <<>> THEN next - rows + Chosen[i] ELSE offset + i]

\* WithPlaceholders: the returned columns back at their own positions.
ColumnOf(f) ==
  CASE f \in filterOnly -> [i \in DOMAIN Chosen |-> NullValue]
    [] late /\ f = X -> RowIds
    [] OTHER ->
         LET nth == Cardinality({g \in 1 .. f - 1 : g \notin filterOnly}) + 1
         IN  Selected(ScanFields[nth])

\* Every column of the filter is applied: the rows that pass are returned, or the batch is
\* dropped when none does.
FinishBatch ==
  /\ InBatch /\ column = Len(FilterColumns)
  /\ out' = [f \in Fields |-> out[f] \o ColumnOf(f)]
  /\ pos' = [f \in Fields |-> IF f \in Range(ScanFields) THEN Move(f) ELSE pos[f]]
  /\ offset' = offset + Len(Chosen)
  /\ rows' = 0
  /\ selected' = {} /\ read' = [f \in Fields |-> <<>>] /\ column' = 0
  /\ UNCHANGED <<config, left, next, done, state>>

End ==
  /\ state = "scanning" /\ rows = 0 /\ left = 0
  /\ state' = "end"
  /\ UNCHANGED <<config, pos, left, next, offset, rows, column, done, selected, read, out>>

FilteredScanNext == StartBatch \/ FilterFixed \/ FilterPiece \/ FinishBatch \/ End

FilteredScanSpec == FilteredScanInit /\ [][FilteredScanNext]_filteredScanVars

-----------------------------------------------------------------------------
\* Whether a row passes every predicate, and may match a key.
RowPasses(r) == \A f \in Fields : Passes(f, value[f][r])

\* The rows returned are those of the part that pass every predicate and whose key the filter
\* may contain, in the part's order, whatever the pages, the dictionary and the order the
\* columns are asked in; every column carries its own values of those rows, at its own place.
RowsExact ==
  LET expected == InOrder({r \in 1 .. next - rows : RowPasses(r)})
  IN  \A f \in Fields :
        out[f] = IF f \in filterOnly THEN [i \in DOMAIN expected |-> NullValue] ELSE expected

\* Between batches the readers of every column stand at the same row: a batch that loses all of
\* its rows moves the columns the filter never read as well.
ReadersAligned == rows = 0 => \A f \in Range(ScanFields) : pos[f] = next

\* A VARCHAR piece without views is always one the filter asks through the dictionary (the two
\* conditions, in io and in exec, are complementary), and no column of the filter is read twice.
NeverInvalid ==
  /\ state # "invalid"
  /\ IsInjective(FilterColumns)

\* A filtered scan returns exactly the passing rows, every column its own values, its
\* readers aligned between batches, and meets no piece of strings it cannot test.
FilteredRowsExact == NeverInvalid /\ ReadersAligned /\ RowsExact

-----------------------------------------------------------------------------
(***************************************************************************)
(* The order of the rows.  A batch's rows are chosen by their places in a  *)
(* bitmap: these lemmas say what the places of a set in ascending order    *)
(* are, and how those of two batches join.                                 *)
(***************************************************************************)

\* q lists the set s in ascending order.
Increasing(q, n, s) ==
  /\ q \in [1 .. n -> s]
  /\ \A a, b \in 1 .. n : a < b => q[a] < q[b]
  /\ \A i \in s : \E a \in 1 .. n : q[a] = i

\* The k-th of an increasing enumeration of s has k elements of s up to it.
LEMMA RankOf ==
  ASSUME NEW s, s \subseteq Int, NEW n \in Nat, NEW q, Increasing(q, n, s), NEW k \in 1 .. n
  PROVE  Cardinality(UpTo(s, q[k])) = k
<1> DEFINE t == {j \in s : j <= q[k]}
           g == [a \in 1 .. k |-> q[a]]
<1>1. k \in Nat /\ \A a \in 1 .. k : a \in 1 .. n /\ (a < k \/ a = k)
  OBVIOUS
<1>2. ASSUME NEW a \in 1 .. k
      PROVE  q[a] \in t
  <2>1. q[a] \in s /\ q[k] \in s /\ q[a] \in Int /\ q[k] \in Int
    BY <1>1, Zenon DEF Increasing
  <2>2. q[a] < q[k] \/ q[a] = q[k]
    BY <1>1 DEF Increasing
  <2> QED BY <2>1, <2>2
<1>3. ASSUME NEW j \in t
      PROVE  \E a \in 1 .. k : q[a] = j
  <2>1. PICK a \in 1 .. n : q[a] = j
    BY DEF Increasing
  <2>2. CASE a <= k
    BY <2>1, <2>2
  <2>3. CASE ~(a <= k)
    <3>1. k < a
      BY <2>3
    <3>2. q[k] < q[a] /\ q[k] \in Int /\ q[a] \in Int
      BY <3>1, Zenon DEF Increasing
    <3> QED BY <3>2, <2>1
  <2> QED BY <2>2, <2>3, Zenon
<1>4. g \in Surjection(1 .. k, t)
  BY <1>2, <1>3, Zenon DEF Surjection
<1>5. \A a, b \in 1 .. k : q[a] = q[b] => a = b
  <2> SUFFICES ASSUME NEW a \in 1 .. k, NEW b \in 1 .. k, a # b
               PROVE  q[a] # q[b]
    OBVIOUS
  <2>1. q[a] \in Int /\ q[b] \in Int
    BY <1>1, Zenon DEF Increasing
  <2>2. a < b \/ b < a
    OBVIOUS
  <2>3. q[a] < q[b] \/ q[b] < q[a]
    BY <2>2, <1>1, Zenon DEF Increasing
  <2> QED BY <2>1, <2>3
<1>6. g \in Injection(1 .. k, t)
  BY <1>2, <1>5, Zenon DEF Injection, IsInjective
<1>7. ExistsBijection(1 .. k, t)
  BY <1>4, <1>6, Zenon DEF ExistsBijection, Bijection
<1> QED BY <1>1, <1>7, FS_CountingElements, Zenon DEF UpTo

\* There is one increasing enumeration, and InOrder is it.
LEMMA InOrderUnique ==
  ASSUME NEW s, s \subseteq Int, NEW n \in Nat, NEW q, Increasing(q, n, s)
  PROVE  InOrder(s) = q /\ Cardinality(s) = n
<1>1. q \in Surjection(1 .. n, s)
  BY DEF Increasing, Surjection
<1>2. \A a, b \in 1 .. n : q[a] = q[b] => a = b
  <2> SUFFICES ASSUME NEW a \in 1 .. n, NEW b \in 1 .. n, a # b
               PROVE  q[a] # q[b]
    OBVIOUS
  <2>1. q[a] \in Int /\ q[b] \in Int
    BY Zenon DEF Increasing
  <2>2. a < b \/ b < a
    OBVIOUS
  <2>3. q[a] < q[b] \/ q[b] < q[a]
    BY <2>2 DEF Increasing
  <2> QED BY <2>1, <2>3
<1>3. q \in Injection(1 .. n, s)
  BY <1>2 DEF Increasing, Injection, IsInjective
<1>4. Cardinality(s) = n
  <2>1. ExistsBijection(1 .. n, s)
    BY <1>1, <1>3 DEF ExistsBijection, Bijection
  <2> QED BY <2>1, FS_CountingElements
<1>5. ASSUME NEW k \in 1 .. n
      PROVE  Cardinality(UpTo(s, q[k])) = k
  BY RankOf, Zenon
<1>6. ASSUME NEW k \in 1 .. n
      PROVE  (CHOOSE i \in s : Cardinality(UpTo(s, i)) = k) = q[k]
  <2>1. q[k] \in s /\ Cardinality(UpTo(s, q[k])) = k
    BY <1>5 DEF Increasing
  <2>2. ASSUME NEW i \in s, Cardinality(UpTo(s, i)) = k
        PROVE  i = q[k]
    <3>1. PICK a \in 1 .. n : q[a] = i
      BY DEF Increasing
    <3>2. Cardinality(UpTo(s, q[a])) = a
      BY <1>5
    <3> QED BY <3>1, <3>2, <2>2, Zenon
  <2> QED BY <2>1, <2>2, Zenon
<1>7. InOrder(s) = [k \in 1 .. n |-> q[k]]
  BY <1>4, <1>6 DEF InOrder
<1> QED BY <1>4, <1>7, Zenon DEF Increasing

\* Every finite set of integers has one.
LEMMA InOrderIncreasing ==
  ASSUME NEW s, s \subseteq Int, IsFiniteSet(s)
  PROVE  /\ Cardinality(s) \in Nat
         /\ Increasing(InOrder(s), Cardinality(s), s)
         /\ \A i \in s : /\ Cardinality(UpTo(s, i)) \in 1 .. Cardinality(s)
                         /\ InOrder(s)[Cardinality(UpTo(s, i))] = i
<1> DEFINE n == Cardinality(s)
           rank == [i \in s |-> Cardinality(UpTo(s, i))]
<1>1. n \in Nat
  BY FS_CardinalityType
<1>2. ASSUME NEW i \in s
      PROVE  /\ IsFiniteSet(UpTo(s, i)) /\ Cardinality(UpTo(s, i)) \in 1 .. n
  <2>1. UpTo(s, i) \in SUBSET s
    BY DEF UpTo
  <2>2. IsFiniteSet(UpTo(s, i)) /\ Cardinality(UpTo(s, i)) <= n
    BY <2>1, FS_Subset, Zenon
  <2>3. i \in UpTo(s, i)
    BY DEF UpTo
  <2>4. Cardinality(UpTo(s, i)) \in Nat /\ Cardinality(UpTo(s, i)) # 0
    BY <2>2, <2>3, FS_CardinalityType, FS_EmptySet, Zenon
  <2> QED BY <2>2, <2>4, <1>1, SMTT(60)
<1>3. ASSUME NEW i \in s, NEW j \in s, i < j
      PROVE  Cardinality(UpTo(s, i)) < Cardinality(UpTo(s, j))
  <2>1. UpTo(s, i) \in SUBSET UpTo(s, j) /\ UpTo(s, i) # UpTo(s, j)
    <3>1. i \in Int /\ j \in Int /\ \A m \in s : m \in Int
      OBVIOUS
    <3>2. \A m \in UpTo(s, i) : m \in UpTo(s, j)
      BY <3>1, <1>3, SMTT(60) DEF UpTo
    <3>3. j \in UpTo(s, j) /\ j \notin UpTo(s, i)
      BY <3>1, <1>3, SMTT(60) DEF UpTo
    <3> QED BY <3>2, <3>3, Zenon
  <2>2. /\ Cardinality(UpTo(s, i)) <= Cardinality(UpTo(s, j))
        /\ Cardinality(UpTo(s, i)) # Cardinality(UpTo(s, j))
    BY <2>1, <1>2, FS_Subset, Zenon
  <2> QED BY <2>2, <1>2
<1>4. rank \in Injection(s, 1 .. n)
  <2>1. rank \in [s -> 1 .. n]
    BY <1>2
  <2>2. ASSUME NEW i \in s, NEW j \in s, rank[i] = rank[j]
        PROVE  i = j
    BY <2>2, <1>2, <1>3, SMTT(60)
  <2> QED BY <2>1, <2>2, Zenon DEF Injection, IsInjective
<1>5. rank \in Surjection(s, 1 .. n)
  <2>1. IsFiniteSet(1 .. n) /\ Cardinality(1 .. n) = n
    BY <1>1, FS_Interval, SMTT(60)
  <2> QED BY <1>4, <2>1, FS_Injection, SMTT(60)
<1>6. \A k \in 1 .. n : \E i \in s : Cardinality(UpTo(s, i)) = k
  BY <1>5, Zenon DEF Surjection
<1>7. \A k \in 1 .. n : InOrder(s)[k] \in s /\ Cardinality(UpTo(s, InOrder(s)[k])) = k
  BY <1>6 DEF InOrder
<1>8. ASSUME NEW i \in s
      PROVE  InOrder(s)[Cardinality(UpTo(s, i))] = i
  <2> DEFINE k == Cardinality(UpTo(s, i))
  <2>1. k \in 1 .. n
    BY <1>2
  <2>2. InOrder(s)[k] \in s /\ Cardinality(UpTo(s, InOrder(s)[k])) = k
    BY <1>7, <2>1, Zenon
  <2>3. PICK m \in s : m = InOrder(s)[k]
    BY <2>2, Zenon
  <2>4. ~(m < i) /\ ~(i < m)
    BY <2>1, <2>2, <2>3, <1>3
  <2>5. m \in Int /\ i \in Int
    OBVIOUS
  <2> QED BY <2>3, <2>4, <2>5
<1>9. Increasing(InOrder(s), n, s)
  <2>1. InOrder(s) \in [1 .. n -> s]
    BY <1>7 DEF InOrder
  <2>2. ASSUME NEW a \in 1 .. n, NEW b \in 1 .. n, a < b
        PROVE  InOrder(s)[a] < InOrder(s)[b]
    <3>1. PICK i \in s : i = InOrder(s)[a] /\ Cardinality(UpTo(s, i)) = a
      BY <1>7, Zenon
    <3>2. PICK j \in s : j = InOrder(s)[b] /\ Cardinality(UpTo(s, j)) = b
      BY <1>7, Zenon
    <3>3. i # j /\ ~(j < i)
      BY <3>1, <3>2, <1>3, <2>2
    <3>4. i \in Int /\ j \in Int
      OBVIOUS
    <3> QED BY <3>1, <3>2, <3>3, <3>4
  <2>3. \A i \in s : \E a \in 1 .. n : InOrder(s)[a] = i
    BY <1>2, <1>8, Zenon
  <2> QED BY <2>1, <2>2, <2>3, Zenon DEF Increasing
<1> QED BY <1>1, <1>2, <1>8, <1>9, Zenon

\* What enumerates the smaller part of a set and then the greater enumerates the set.
LEMMA InOrderAppend ==
  ASSUME NEW s, s \subseteq Int, IsFiniteSet(s), NEW t, t \subseteq Int, IsFiniteSet(t),
         \A i \in s, j \in t : i < j
  PROVE  InOrder(s \cup t) = InOrder(s) \o InOrder(t)
<1> DEFINE m == Cardinality(s)
           n == Cardinality(t)
           q == InOrder(s) \o InOrder(t)
<1>1. /\ m \in Nat /\ InOrder(s) \in [1 .. m -> s]
      /\ \A a, b \in 1 .. m : a < b => InOrder(s)[a] < InOrder(s)[b]
      /\ \A i \in s : \E a \in 1 .. m : InOrder(s)[a] = i
  BY InOrderIncreasing, Zenon DEF Increasing
<1>2. /\ n \in Nat /\ InOrder(t) \in [1 .. n -> t]
      /\ \A a, b \in 1 .. n : a < b => InOrder(t)[a] < InOrder(t)[b]
      /\ \A i \in t : \E a \in 1 .. n : InOrder(t)[a] = i
  BY InOrderIncreasing, Zenon DEF Increasing
<1> HIDE DEF m, n
<1>3. PICK u \in [1 .. m -> s] : u = InOrder(s)
  BY <1>1
<1>4. PICK v \in [1 .. n -> t] : v = InOrder(t)
  BY <1>2
<1>5. u \in Seq(s) /\ Len(u) = m /\ v \in Seq(t) /\ Len(v) = n
  BY <1>1, <1>2
<1>6. q = [k \in 1 .. m + n |-> IF k <= m THEN u[k] ELSE v[k - m]]
  <2>1. q \in Seq(s \cup t) /\ Len(q) = m + n
    BY <1>3, <1>4, <1>5
  <2>2. \A z \in Seq(s \cup t) : z = [k \in 1 .. Len(z) |-> z[k]]
    OBVIOUS
  <2>3. ASSUME NEW k \in 1 .. m + n
        PROVE  q[k] = IF k <= m THEN u[k] ELSE v[k - m]
    BY <1>1, <1>2, <1>3, <1>4, <1>5, SMTT(60)
  <2> HIDE DEF q
  <2> QED BY <2>1, <2>2, <2>3, Zenon
<1>7. q \in [1 .. m + n -> s \cup t]
  <2>1. \A k \in 1 .. m + n : IF k <= m THEN k \in 1 .. m ELSE k - m \in 1 .. n
    BY <1>1, <1>2, SMTT(60)
  <2>2. \A k \in 1 .. m + n : (IF k <= m THEN u[k] ELSE v[k - m]) \in s \cup t
    BY <2>1, Zenon
  <2> QED BY <1>6, <2>2, Zenon
<1>8. ASSUME NEW a \in 1 .. m + n, NEW b \in 1 .. m + n, a < b
      PROVE  q[a] < q[b]
  <2>1. CASE b <= m
    <3>1. a \in 1 .. m /\ b \in 1 .. m
      BY <1>8, <1>1, <1>2, <2>1
    <3>2. u[a] < u[b]
      BY <3>1, <1>8, <1>1, <1>3, Zenon
    <3> QED BY <3>1, <3>2, <1>6
  <2>2. CASE a <= m /\ ~(b <= m)
    <3>1. a \in 1 .. m /\ b - m \in 1 .. n
      BY <1>8, <1>1, <1>2, <2>2
    <3>2. u[a] \in s /\ v[b - m] \in t
      BY <3>1
    <3> QED BY <3>1, <3>2, <2>2, <1>6, Zenon
  <2>3. CASE ~(a <= m)
    <3>1. a - m \in 1 .. n /\ b - m \in 1 .. n /\ a - m < b - m /\ ~(b <= m)
      BY <1>8, <1>1, <1>2, <2>3
    <3>2. v[a - m] < v[b - m]
      BY <3>1, <1>2, <1>4, Zenon
    <3> QED BY <3>1, <3>2, <2>3, <1>6, Zenon
  <2>4. a <= m \/ ~(a <= m)
    OBVIOUS
  <2>5. m \in Int /\ a \in Int /\ b \in Int
    BY <1>1, <1>2
  <2> QED BY <2>1, <2>2, <2>3, Zenon
<1>9. ASSUME NEW i \in s \cup t
      PROVE  \E a \in 1 .. m + n : q[a] = i
  <2>1. CASE i \in s
    <3>1. PICK a \in 1 .. m : u[a] = i
      BY <2>1, <1>1, <1>3, Zenon
    <3>2. a \in 1 .. m + n /\ a <= m
      BY <1>1, <1>2
    <3>3. q[a] = i
      BY <3>1, <3>2, <1>6, Zenon
    <3> QED BY <3>2, <3>3, Zenon
  <2>2. CASE i \in t
    <3>1. PICK a \in 1 .. n : v[a] = i
      BY <2>2, <1>2, <1>4
    <3>2. a + m \in 1 .. m + n /\ ~(a + m <= m) /\ (a + m) - m = a
      BY <1>1, <1>2
    <3>3. q[a + m] = i
      BY <3>1, <3>2, <1>6
    <3> QED BY <3>2, <3>3, Zenon
  <2> QED BY <2>1, <2>2, Zenon
<1> HIDE DEF q
<1>10. Increasing(q, m + n, s \cup t)
  BY <1>7, <1>8, <1>9 DEF Increasing
<1>11. m + n \in Nat /\ s \cup t \subseteq Int
  BY <1>1, <1>2
<1> QED BY <1>10, <1>11, InOrderUnique, Zenon DEF q

\* The elements of a set, all moved by b, come in the same order.
LEMMA InOrderShift ==
  ASSUME NEW s, s \subseteq Int, IsFiniteSet(s), NEW b \in Int
  PROVE  InOrder({b + i : i \in s}) = [n \in DOMAIN InOrder(s) |-> b + InOrder(s)[n]]
<1> DEFINE m == Cardinality(s)
           t == {b + i : i \in s}
           q == [n \in 1 .. m |-> b + InOrder(s)[n]]
<1>1. /\ m \in Nat /\ InOrder(s) \in [1 .. m -> s]
      /\ \A a, c \in 1 .. m : a < c => InOrder(s)[a] < InOrder(s)[c]
      /\ \A i \in s : \E a \in 1 .. m : InOrder(s)[a] = i
  BY InOrderIncreasing, Zenon DEF Increasing
<1> HIDE DEF m
<1>2. PICK u \in [1 .. m -> s] : u = InOrder(s)
  BY <1>1
<1>3. \A a \in 1 .. m : u[a] \in s /\ u[a] \in Int
  BY Zenon
<1>4. q \in [1 .. m -> t] /\ \A a \in 1 .. m : q[a] = b + u[a]
  BY <1>2, <1>3, Zenon
<1>5. \A a, c \in 1 .. m : a < c => q[a] < q[c]
  BY <1>1, <1>2, <1>3, <1>4, SMTT(60)
<1>6. \A i \in t : \E a \in 1 .. m : q[a] = i
  BY <1>1, <1>2, <1>4
<1>7. t \subseteq Int
  OBVIOUS
<1> HIDE DEF t, q
<1>8. InOrder(t) = q
  <2>1. Increasing(q, m, t)
    BY <1>4, <1>5, <1>6, Zenon DEF Increasing
  <2> QED BY <1>1, <1>7, <2>1, InOrderUnique, Zenon
<1> QED BY <1>1, <1>8, Zenon DEF t, q

\* 1 .. n is in order.
LEMMA InOrderInterval ==
  ASSUME NEW n \in Nat
  PROVE  InOrder(1 .. n) = [i \in 1 .. n |-> i]
<1> DEFINE q == [i \in 1 .. n |-> i]
<1>1. Increasing(q, n, 1 .. n)
  BY DEF Increasing
<1> HIDE DEF q
<1>2. 1 .. n \subseteq Int
  OBVIOUS
<1> QED BY <1>1, <1>2, InOrderUnique, Zenon DEF q

-----------------------------------------------------------------------------
(***************************************************************************)
(* The inductive invariant: how far every column of the filter is within   *)
(* the batch; the readers, what they have decoded and the bitmap follow.   *)
(***************************************************************************)

\* The rows before the batch, and those of it the k-th column of the filter has been asked for.
Base == next - rows
Tested(k) == IF k <= column THEN rows ELSE IF k = column + 1 THEN done ELSE 0

\* The rows returned so far.
Expected == {r \in 1 .. Base : RowPasses(r)}

\* What MakeFilteredScan is given.
ScanConfigOK ==
  /\ value \in [Fields -> [Rows -> {NullValue, 1, 2}]]
  /\ pushed \in {<<>>, <<A>>, <<S>>, <<A, S>>, <<S, A>>}
  /\ keys \in {NoKeys, {1}, {2}, {1, 2}}
  /\ filterOnly \subseteq Range(pushed)
  /\ late \in BOOLEAN
  /\ late => keys = NoKeys /\ filterOnly = {}
  /\ dictionary \in BOOLEAN /\ dictSize \in Nat

\* The types, and the places of a batch in the part and of the filter in the batch.
ScanTypeOK ==
  /\ ScanConfigOK
  /\ pos \in [Fields -> Nat]
  /\ left \in Nat /\ next \in Nat /\ offset \in Nat /\ rows \in Nat
  /\ column \in Nat /\ done \in Nat
  /\ read \in [Fields -> Seq(Nat)] /\ out \in [Fields -> Seq(Nat)]
  /\ state \in {"scanning", "end"}
  /\ left + next = PartRows /\ rows <= next
  /\ column <= Len(FilterColumns)
  /\ rows = 0 => column = 0
  /\ done > 0 => column < Len(FilterColumns) /\ FilterColumns[column + 1] = S /\ done < rows

\* Every column of the filter has decoded the rows it was asked for, the other columns none, and
\* the bitmap holds what the filter has said of the batch so far.
BatchInv ==
  /\ \A k \in DOMAIN FilterColumns :
       LET f == FilterColumns[k]
       IN  pos[f] = Base + Tested(k) /\ read[f] = [i \in 1 .. Tested(k) |-> Base + i]
  /\ \A f \in ReadFields : f \notin Range(FilterColumns) => pos[f] = Base
  /\ selected = {i \in 1 .. rows :
                   \A k \in DOMAIN FilterColumns :
                     i <= Tested(k) =>
                       Passes(FilterColumns[k], value[FilterColumns[k]][Base + i])}

ScanInv ==
  /\ ScanTypeOK
  /\ BatchInv
  /\ RowsExact
  /\ offset = Cardinality(Expected)

-----------------------------------------------------------------------------
\* The values of the sequences a filter's columns are.
LEMMA OneColumn ==
  ASSUME NEW a
  PROVE  <<a>> \in Seq({a}) /\ Len(<<a>>) = 1 /\ Range(<<a>>) = {a} /\ IsInjective(<<a>>)
<1>1. Len(<<a>>) = 1 /\ <<a>>[1] = a /\ DOMAIN <<a>> = 1 .. 1 /\ <<a>> \in Seq({a})
  OBVIOUS
<1>2. \A i : i \in 1 .. 1 <=> i = 1
  OBVIOUS
<1>3. \A x : x \in Range(<<a>>) <=> x = a
  BY <1>1, <1>2, ZenonT(60) DEF Range
<1>4. Range(<<a>>) = {a}
  BY <1>3, Zenon
<1>5. IsInjective(<<a>>)
  BY <1>1, <1>2 DEF IsInjective
<1> QED BY <1>1, <1>4, <1>5, SMTT(60)

LEMMA TwoColumns ==
  ASSUME NEW a, NEW b, a # b
  PROVE  /\ <<a, b>> \in Seq({a, b}) /\ Len(<<a, b>>) = 2
         /\ Range(<<a, b>>) = {a, b} /\ IsInjective(<<a, b>>)
<1>1. /\ Len(<<a, b>>) = 2 /\ <<a, b>>[1] = a /\ <<a, b>>[2] = b /\ DOMAIN <<a, b>> = 1 .. 2
      /\ <<a, b>> \in Seq({a, b})
  OBVIOUS
<1>2. \A i : i \in 1 .. 2 <=> i = 1 \/ i = 2
  OBVIOUS
<1>3. \A x : x \in Range(<<a, b>>) <=> x = a \/ x = b
  BY <1>1, <1>2, ZenonT(60) DEF Range
<1>4. Range(<<a, b>>) = {a, b}
  BY <1>3, ZenonT(60)
<1>5. IsInjective(<<a, b>>)
  BY <1>1, <1>2 DEF IsInjective
<1> QED BY <1>1, <1>4, <1>5, SMTT(60)

\* The columns of the filter are among A and S, each once, and a field that is none of them passes.
LEMMA ColumnsOfPushed ==
  ASSUME pushed \in {<<>>, <<A>>, <<S>>, <<A, S>>, <<S, A>>}, filterOnly \subseteq Range(pushed)
  PROVE  /\ FilterColumns \in Seq({A, S}) /\ Len(FilterColumns) \in Nat
         /\ DOMAIN FilterColumns = 1 .. Len(FilterColumns)
         /\ \A k \in DOMAIN FilterColumns : FilterColumns[k] \in {A, S}
         /\ IsInjective(FilterColumns)
         /\ \A f \in Fields : f \notin Range(FilterColumns) => \A v : Passes(f, v)
         /\ filterOnly \subseteq {A, S}
         /\ pushed = <<>> /\ keys = NoKeys => FilterColumns = <<>>
<1> DEFINE c == FilterColumns
           Lists == {<<>>, <<A>>, <<S>>, <<A, S>>, <<S, A>>}
<1>1. pushed \in Lists /\ filterOnly \subseteq Range(pushed)
  OBVIOUS
<1>2. A # S
  BY DEF A, S
<1>3. \A q \in Lists : q \in Seq({A, S}) /\ Range(q) \subseteq {A, S} /\ IsInjective(q)
  <2>1. <<>> \in Seq({A, S}) /\ Range(<<>>) = {} /\ IsInjective(<<>>)
    BY DEF Range, IsInjective
  <2>2. <<A>> \in Seq({A, S}) /\ Range(<<A>>) = {A} /\ IsInjective(<<A>>)
    BY OneColumn
  <2>3. <<S>> \in Seq({A, S}) /\ Range(<<S>>) = {S} /\ IsInjective(<<S>>)
    BY OneColumn
  <2>4. <<A, S>> \in Seq({A, S}) /\ Range(<<A, S>>) = {A, S} /\ IsInjective(<<A, S>>)
    BY <1>2, TwoColumns
  <2>5. <<S, A>> \in Seq({A, S}) /\ Range(<<S, A>>) = {A, S} /\ IsInjective(<<S, A>>)
    BY <1>2, TwoColumns
  <2> QED BY <2>1, <2>2, <2>3, <2>4, <2>5, Zenon
<1>4. pushed \in Seq({A, S}) /\ Range(pushed) \subseteq {A, S} /\ IsInjective(pushed)
  BY <1>1, <1>3, Zenon
<1>5. CASE keys = NoKeys \/ A \in Range(pushed)
  <2>1. c = pushed
    BY <1>5 DEF FilterColumns
  <2>2. \A f \in Fields : f \notin Range(c) => \A v : Passes(f, v)
    BY <1>5, <2>1, Zenon DEF Passes
  <2> HIDE DEF c, Lists
  <2>3. c \in Seq({A, S}) /\ IsInjective(c) /\ filterOnly \subseteq {A, S}
    BY <1>1, <1>4, <2>1
  <2> QED BY <2>1, <2>2, <2>3 DEF c
<1>6. CASE keys # NoKeys /\ A \notin Range(pushed)
  <2>1. c = Append(pushed, A)
    BY <1>6 DEF FilterColumns
  <2> DEFINE n == Len(pushed)
  <2>2. /\ c \in Seq({A, S}) /\ n \in Nat /\ Len(c) = n + 1 /\ DOMAIN c = 1 .. n + 1
        /\ \A k \in 1 .. n : c[k] = pushed[k]
        /\ c[n + 1] = A
    BY <1>4, <2>1
  <2>3. DOMAIN pushed = 1 .. n
    BY <1>4
  <2> HIDE DEF c, Lists, n
  <2>4. \A k \in 1 .. n : c[k] # A
    BY <1>6, <2>2, <2>3, Zenon DEF Range
  <2>5. \A k \in 1 .. n + 1 : k \in 1 .. n \/ k = n + 1
    BY <2>2
  <2>6. IsInjective(c)
    BY <1>4, <2>2, <2>3, <2>4, <2>5, Zenon DEF IsInjective
  <2>7. ASSUME NEW f \in Range(pushed) \cup {A}
        PROVE  f \in Range(c)
    <3>1. CASE f \in Range(pushed)
      <4>1. PICK k \in 1 .. n : f = pushed[k]
        BY <2>3, <3>1, SMTT(60) DEF Range
      <4>2. k \in 1 .. n + 1
        BY <2>2
      <4> QED BY <2>2, <4>1, <4>2 DEF Range
    <3>2. CASE f = A
      <4>1. n + 1 \in 1 .. n + 1
        BY <2>2
      <4> QED BY <2>2, <3>2, <4>1, Zenon DEF Range
    <3> QED BY <3>1, <3>2, Zenon
  <2>8. \A f \in Fields : f \notin Range(c) => \A v : Passes(f, v)
    BY <2>7, ZenonT(60) DEF Passes
  <2>9. filterOnly \subseteq {A, S} /\ \A k \in DOMAIN c : c[k] \in {A, S}
    BY <1>1, <1>4, <2>2
  <2> QED BY <1>6, <2>2, <2>6, <2>8, <2>9, SMTT(60) DEF c
<1> QED BY <1>5, <1>6, SMTT(60)

LEMMA ColumnsOfFilter ==
  ASSUME ScanTypeOK
  PROVE  /\ FilterColumns \in Seq({A, S}) /\ Len(FilterColumns) \in Nat
         /\ DOMAIN FilterColumns = 1 .. Len(FilterColumns)
         /\ \A k \in DOMAIN FilterColumns : FilterColumns[k] \in {A, S}
         /\ IsInjective(FilterColumns)
         /\ \A f \in Fields : f \notin Range(FilterColumns) => \A v : Passes(f, v)
         /\ filterOnly \subseteq {A, S}
         /\ pushed = <<>> /\ keys = NoKeys => FilterColumns = <<>>
  BY ColumnsOfPushed, Zenon DEF ScanTypeOK, ScanConfigOK

\* The list asked for holds the fields read, and a field nothing rebinds twice is at the place
\* ScanPositionOf gives; the returned ones are where WithPlaceholders looks for them.
LEMMA FieldsAskedFor ==
  ASSUME ScanTypeOK
  PROVE  /\ Range(ScanFields) = ReadFields
         /\ \A f \in ReadFields : ScanFields[ScanPositionOf(f)] = f
         /\ \A f \in ReadFields \ filterOnly :
              ScanFields[Cardinality({g \in 1 .. f - 1 : g \notin filterOnly}) + 1] = f
<1> DEFINE s == ReadFields \ filterOnly
           u == InOrder(s)
           v == InOrder(filterOnly)
<1>1. /\ A = 1 /\ S = 2 /\ X = 3 /\ Fields = {1, 2, 3} /\ filterOnly \subseteq {1, 2}
      /\ ReadFields \in {{1, 2}, {1, 2, 3}}
  <2>1. Fields = {1, 2, 3}
    BY DEF Fields
  <2>2. Fields \ {X} = {1, 2}
    BY <2>1 DEF X
  <2>3. filterOnly \subseteq {A, S}
    BY ColumnsOfFilter
  <2> QED BY <2>1, <2>2, <2>3, SMTT(60) DEF A, S, X, ReadFields
<1>2. /\ IsFiniteSet(1 .. 3) /\ IsFiniteSet(s) /\ IsFiniteSet(filterOnly)
      /\ s \subseteq Int /\ filterOnly \subseteq Int
  <2>0. \A a, b \in Int : IsFiniteSet(a .. b)
    BY FS_Interval
  <2>1. IsFiniteSet(1 .. 3)
    <3>1. 1 \in Int /\ 3 \in Int
      OBVIOUS
    <3> QED BY <2>0, <3>1, ZenonT(60)
  <2>2. ReadFields \in SUBSET (1 .. 3) /\ s \in SUBSET (1 .. 3) /\ filterOnly \in SUBSET (1 .. 3)
    BY <1>1
  <2>4. IsFiniteSet(s)
    BY <2>1, <2>2, FS_Subset, Zenon
  <2>5. IsFiniteSet(filterOnly)
    BY <2>1, <2>2, FS_Subset, Zenon
  <2> QED BY <2>1, <2>2, <2>4, <2>5, SMTT(60)
<1> DEFINE m == Cardinality(s)
           n == Cardinality(filterOnly)
<1>3. /\ m \in Nat /\ u \in [1 .. m -> s] /\ \A f \in s : \E a \in 1 .. m : u[a] = f
      /\ \A f \in s : Cardinality(UpTo(s, f)) \in 1 .. m /\ u[Cardinality(UpTo(s, f))] = f
  BY <1>2, InOrderIncreasing, Zenon DEF Increasing
<1>4. n \in Nat /\ v \in [1 .. n -> filterOnly] /\ \A f \in filterOnly : \E a \in 1 .. n : v[a] = f
  BY <1>2, InOrderIncreasing, Zenon DEF Increasing
<1> HIDE DEF m, n, u, v
<1>5. u \in Seq(s) /\ Len(u) = m /\ v \in Seq(filterOnly) /\ Len(v) = n
  BY <1>3, <1>4
<1>6. /\ DOMAIN ScanFields = 1 .. m + n
      /\ \A a \in 1 .. m : ScanFields[a] = u[a]
      /\ \A a \in 1 .. n : ScanFields[m + a] = v[a]
  <2>1. ScanFields = u \o v
    BY DEF ScanFields, u, v
  <2>2. u \in Seq(Int) /\ v \in Seq(Int)
    <3>1. u \in [1 .. m -> Int] /\ v \in [1 .. n -> Int]
      BY <1>2, <1>3, <1>4, Zenon
    <3> QED BY <1>3, <1>4, <3>1
  <2>3. /\ Len(u \o v) = m + n
        /\ \A i \in 1 .. m + n : (u \o v)[i] = IF i <= m THEN u[i] ELSE v[i - m]
        /\ u \o v \in Seq(Int)
    BY <1>5, <2>2, ConcatProperties, ZenonT(60)
  <2>4. \A a \in 1 .. m : a \in 1 .. m + n /\ a <= m
    BY <1>3, <1>4
  <2>5. \A a \in 1 .. n : m + a \in 1 .. m + n /\ ~(m + a <= m) /\ (m + a) - m = a
    BY <1>3, <1>4
  <2>6. DOMAIN (u \o v) = 1 .. m + n
    BY <2>3
  <2> QED BY <2>1, <2>3, <2>4, <2>5, <2>6, Zenon
<1>7. \A a \in DOMAIN ScanFields : ScanFields[a] \in ReadFields
  <2> SUFFICES ASSUME NEW a \in 1 .. m + n
               PROVE  ScanFields[a] \in ReadFields
    BY <1>6
  <2>1. CASE a <= m
    BY <1>3, <1>6, <2>1
  <2>2. CASE ~(a <= m)
    <3>1. a - m \in 1 .. n /\ m + (a - m) = a
      BY <1>3, <1>4, <2>2
    <3>2. filterOnly \subseteq ReadFields
      BY <1>1
    <3>3. ScanFields[m + (a - m)] = v[a - m]
      BY <1>6, <3>1, Zenon
    <3> QED BY <1>4, <3>1, <3>2, <3>3, Zenon
  <2> QED BY <2>1, <2>2
<1>8. ASSUME NEW f \in ReadFields
      PROVE  \E a \in DOMAIN ScanFields : ScanFields[a] = f
  <2>1. CASE f \in s
    <3>1. PICK a \in 1 .. m : u[a] = f
      BY <1>3, <2>1
    <3>2. a \in 1 .. m + n
      BY <1>3, <1>4
    <3> QED BY <1>6, <3>1, <3>2, SMTT(60)
  <2>2. CASE f \in filterOnly
    <3>1. PICK a \in 1 .. n : v[a] = f
      BY <1>4, <2>2, Zenon
    <3>2. m + a \in 1 .. m + n
      BY <1>3, <1>4, SMTT(60)
    <3> QED BY <1>6, <3>1, <3>2, Zenon
  <2> QED BY <2>1, <2>2, Zenon
<1>9. Range(ScanFields) = ReadFields
  BY <1>7, <1>8, Zenon DEF Range
<1>10. \A f \in ReadFields : ScanFields[ScanPositionOf(f)] = f
  BY <1>8, Zenon DEF ScanPositionOf
<1>11. ASSUME NEW f \in s
       PROVE  ScanFields[Cardinality({g \in 1 .. f - 1 : g \notin filterOnly}) + 1] = f
  <2> DEFINE below == {g \in 1 .. f - 1 : g \notin filterOnly}
  <2>1. f \in Int /\ f \in 1 .. 3 /\ f \notin filterOnly
    BY <1>1
  <2>2. below \in SUBSET (1 .. 3) /\ f \notin below /\ UpTo(s, f) = below \cup {f}
    BY <1>1, <2>1, SMTT(60) DEF UpTo
  <2>3. IsFiniteSet(below)
    BY <1>2, <2>2, FS_Subset, SMTT(60)
  <2>4. Cardinality(UpTo(s, f)) = Cardinality(below) + 1
    BY <2>2, <2>3, FS_AddElement, Zenon
  <2> QED BY <1>3, <1>6, <2>4, Zenon
<1> QED BY <1>9, <1>10, <1>11, SMTT(60)

\* What depends on the configuration of a scan alone stays.
LEMMA ConfigStays ==
  ASSUME UNCHANGED config
  PROVE  /\ FilterColumns' = FilterColumns /\ ReadFields' = ReadFields
         /\ ScanConfigOK => ScanConfigOK'
         /\ \A f, v : Passes(f, v)' <=> Passes(f, v)
         /\ \A r : RowPasses(r)' <=> RowPasses(r)
<1>1. /\ value' = value /\ pushed' = pushed /\ keys' = keys /\ filterOnly' = filterOnly
      /\ late' = late /\ dictionary' = dictionary /\ dictSize' = dictSize
  BY DEF config
<1>2. \A f, v : Passes(f, v)' <=> Passes(f, v)
  BY <1>1, Zenon DEF Passes
<1>3. FilterColumns' = FilterColumns /\ ReadFields' = ReadFields
  BY <1>1, Zenon DEF FilterColumns, ReadFields
<1>4. \A r : RowPasses(r)' <=> RowPasses(r)
  BY <1>1, <1>2, ZenonT(60) DEF RowPasses
<1>5. ScanConfigOK => ScanConfigOK'
  BY <1>1, Zenon DEF ScanConfigOK
<1> QED BY <1>2, <1>3, <1>4, <1>5, SMTT(60)

\* While the batch does not move and nothing is returned, what was returned stays exact.
LEMMA ReturnedStays ==
  ASSUME ScanInv, UNCHANGED <<config, out, offset>>, Base' = Base
  PROVE  RowsExact' /\ offset' = Cardinality(Expected)'
<1>1. out' = out /\ offset' = offset /\ filterOnly' = filterOnly /\ UNCHANGED config
  BY DEF config
<1>2. \A r : RowPasses(r)' <=> RowPasses(r)
  BY <1>1, ConfigStays, Zenon
<1>3. Expected' = Expected
  BY <1>2, Zenon DEF Expected
<1>4. /\ \A f \in Fields : out[f] = IF f \in filterOnly
                                    THEN [i \in DOMAIN InOrder(Expected) |-> NullValue]
                                    ELSE InOrder(Expected)
      /\ offset = Cardinality(Expected)
  BY Zenon DEF ScanInv, RowsExact, Expected, Base
<1>5. /\ \A f \in Fields : out'[f] = IF f \in filterOnly'
                                     THEN [i \in DOMAIN InOrder(Expected)' |-> NullValue]
                                     ELSE InOrder(Expected)'
      /\ offset' = Cardinality(Expected)'
  BY <1>1, <1>3, <1>4, ZenonT(60)
<1> QED BY <1>5, Zenon DEF RowsExact, Expected, Base

\* Every scan starts with nothing read and nothing returned.
LEMMA InitInv == FilteredScanInit => ScanInv
<1> SUFFICES ASSUME FilteredScanInit PROVE ScanInv
  OBVIOUS
<1>1. ScanTypeOK
  <2>1. /\ value \in [Fields -> [Rows -> {NullValue, 1, 2}]]
        /\ pushed \in {<<>>, <<A>>, <<S>>, <<A, S>>, <<S, A>>}
        /\ keys \in {NoKeys, {1}, {2}, {1, 2}}
        /\ filterOnly \subseteq Range(pushed)
        /\ late \in BOOLEAN /\ (late => keys = NoKeys /\ filterOnly = {})
        /\ dictionary \in BOOLEAN
    BY Zenon DEF FilteredScanInit
  <2>2. dictSize \in Nat
    <3>1. Distinct(S) \in Nat
      <4> DEFINE vs == Range(value[S]) \ {NullValue}
      <4>1. value[S] \in [Rows -> {NullValue, 1, 2}]
        BY <2>1 DEF Fields, S
      <4>2. vs \in SUBSET {1, 2}
        BY <4>1 DEF Range
      <4>3. IsFiniteSet({1, 2})
        <5>1. IsFiniteSet({1})
          BY FS_Singleton
        <5>2. IsFiniteSet({1} \cup {2})
          BY <5>1, FS_AddElement, Zenon
        <5>3. {1, 2} = {1} \cup {2}
          OBVIOUS
        <5> QED BY <5>2, <5>3, Zenon
      <4>4. IsFiniteSet(vs)
        BY <4>2, <4>3, FS_Subset, SMTT(60)
      <4> QED BY <4>4, FS_CardinalityType, Zenon DEF Distinct
    <3>2. dictSize \in (Distinct(S) .. Distinct(S) + 1) \cup {0}
      BY DEF FilteredScanInit
    <3> QED BY <3>1, <3>2
  <2>3. /\ pos = [f \in Fields |-> 0] /\ left = PartRows /\ next = 0 /\ offset = 0
        /\ rows = 0 /\ column = 0 /\ done = 0 /\ state = "scanning"
        /\ read = [f \in Fields |-> <<>>] /\ out = [f \in Fields |-> <<>>]
    BY DEF FilteredScanInit
  <2>4. read \in [Fields -> Seq(Nat)] /\ out \in [Fields -> Seq(Nat)] /\ pos \in [Fields -> Nat]
    BY <2>3
  <2>5. Len(FilterColumns) \in Nat
    BY <2>1, ColumnsOfPushed, SMTT(60)
  <2> QED BY <2>1, <2>2, <2>3, <2>4, <2>5, ScanSizes, SMTT(60) DEF ScanTypeOK, ScanConfigOK
<1>2. /\ pos = [f \in Fields |-> 0] /\ next = 0 /\ offset = 0 /\ rows = 0 /\ column = 0 /\ done = 0
      /\ selected = {} /\ read = [f \in Fields |-> <<>>] /\ out = [f \in Fields |-> <<>>]
  BY DEF FilteredScanInit
<1>3. Base = 0 /\ \A k : Tested(k) = 0
  BY <1>2 DEF Base, Tested
<1>4. BatchInv
  <2>1. \A k \in DOMAIN FilterColumns : FilterColumns[k] \in Fields
    BY <1>1, ColumnsOfFilter DEF A, S, Fields
  <2>2. ReadFields \subseteq Fields
    BY DEF ReadFields
  <2>3. \A b : [i \in 1 .. 0 |-> b + i] = <<>>
    OBVIOUS
  <2>4. \A k \in DOMAIN FilterColumns :
          LET f == FilterColumns[k]
          IN  pos[f] = Base + Tested(k) /\ read[f] = [i \in 1 .. Tested(k) |-> Base + i]
    BY <1>2, <1>3, <2>1, <2>3, SMTT(60)
  <2>5. \A f \in ReadFields : f \notin Range(FilterColumns) => pos[f] = Base
    BY <1>2, <1>3, <2>2, Zenon
  <2>6. selected = {i \in 1 .. rows :
                      \A k \in DOMAIN FilterColumns :
                        i <= Tested(k) =>
                          Passes(FilterColumns[k], value[FilterColumns[k]][Base + i])}
    BY <1>2, SMTT(60)
  <2> QED BY <2>4, <2>5, <2>6, SMTT(60) DEF BatchInv
<1>5. Expected = {} /\ Cardinality(Expected) = 0
  BY <1>3, FS_EmptySet DEF Expected
<1>6. InOrder(Expected) = <<>>
  BY <1>5 DEF InOrder
<1>7. RowsExact
  <2>1. \A f \in Fields : out[f] = IF f \in filterOnly
                                   THEN [i \in DOMAIN InOrder(Expected) |-> NullValue]
                                   ELSE InOrder(Expected)
    BY <1>2, <1>6
  <2> QED BY <2>1, Zenon DEF RowsExact, Expected, Base
<1> QED BY <1>1, <1>2, <1>4, <1>5, <1>7, SMTT(60) DEF ScanInv

\* ReadNextBatch: no column of the filter has been asked for any row of the new batch.
LEMMA StartBatchInv == ScanInv /\ StartBatch => ScanInv'
<1> SUFFICES ASSUME ScanInv, StartBatch PROVE ScanInv'
  OBVIOUS
<1>1. /\ state = "scanning" /\ rows = 0 /\ left > 0 /\ rows' = BatchRows /\ left' = left - rows'
      /\ next' = next + rows' /\ selected' = 1 .. rows' /\ column' = 0 /\ done' = 0
      /\ read' = [f \in Fields |-> <<>>] /\ UNCHANGED <<config, pos, offset, out, state>>
  BY DEF StartBatch
<1>2. ScanTypeOK /\ BatchInv
  BY DEF ScanInv
<1>3. /\ left \in Nat /\ next \in Nat /\ column = 0 /\ done = 0 /\ left + next = PartRows
  BY <1>1, <1>2 DEF ScanTypeOK
<1>4. rows' \in Nat /\ 0 < rows' /\ rows' <= left
  BY <1>1, <1>3, ScanSizes, SMTT(60) DEF BatchRows
<1>5. FilterColumns' = FilterColumns /\ ReadFields' = ReadFields /\ ScanConfigOK'
  BY <1>1, <1>2, ConfigStays, SMTT(60) DEF ScanTypeOK
<1>6. Base = next /\ Base' = next /\ \A k : Tested(k) = 0
  BY <1>1, <1>3, <1>4 DEF Base, Tested
<1>7. /\ DOMAIN FilterColumns = 1 .. Len(FilterColumns) /\ Len(FilterColumns) \in Nat
      /\ \A k \in DOMAIN FilterColumns : FilterColumns[k] \in Fields
  BY <1>2, ColumnsOfFilter, SMTT(60) DEF A, S, Fields
<1>8. \A k \in DOMAIN FilterColumns : Tested(k)' = 0
  BY <1>1, <1>7, SMTT(60) DEF Tested
<1>9. ScanTypeOK'
  <2>1. read' \in [Fields -> Seq(Nat)]
    BY <1>1
  <2>2. left' \in Nat /\ next' \in Nat /\ left' + next' = PartRows /\ rows' <= next'
    BY <1>1, <1>3, <1>4, SMTT(60)
  <2> QED BY <1>1, <1>2, <1>4, <1>5, <1>7, <2>1, <2>2, SMTT(60) DEF ScanTypeOK
<1>10. BatchInv'
  <2>1. \A b : [i \in 1 .. 0 |-> b + i] = <<>>
    OBVIOUS
  <2>2. \A k \in DOMAIN FilterColumns : pos[FilterColumns[k]] = Base + Tested(k)
    BY <1>2, Zenon DEF BatchInv
  <2>3. ASSUME NEW k \in DOMAIN FilterColumns
        PROVE  /\ pos'[FilterColumns[k]] = Base' + Tested(k)'
               /\ read'[FilterColumns[k]] = [i \in 1 .. Tested(k)' |-> Base' + i]
    BY <1>1, <1>6, <1>7, <1>8, <2>1, <2>2
  <2>4. \A f \in ReadFields' : f \notin Range(FilterColumns)' => pos'[f] = Base'
    BY <1>1, <1>2, <1>5, <1>6 DEF BatchInv
  <2>5. \A i \in 1 .. rows', k \in DOMAIN FilterColumns' : ~(i <= Tested(k)')
    BY <1>5, <1>8
  <2>6. selected' = {i \in 1 .. rows' :
                       \A k \in DOMAIN FilterColumns' :
                         i <= Tested(k)' =>
                           Passes(FilterColumns[k], value[FilterColumns[k]][Base + i])'}
    BY <1>1, <2>5, Zenon
  <2> QED BY <1>5, <2>3, <2>4, <2>6, Zenon DEF BatchInv
<1>11. RowsExact' /\ offset' = Cardinality(Expected)'
  BY <1>1, <1>6, ReturnedStays, Zenon
<1> QED BY <1>9, <1>10, <1>11, SMTT(60) DEF ScanInv

\* The k-th column of the filter is asked for the next n rows of the batch: the others stay.
LEMMA AskedInv ==
  ASSUME ScanTypeOK, BatchInv, UNCHANGED <<config, rows, next>>,
         NEW k \in DOMAIN FilterColumns, NEW n \in Nat, Tested(k) \in Nat,
         \A j \in DOMAIN FilterColumns : Tested(j)' = IF j = k THEN Tested(k) + n ELSE Tested(j),
         pos' = [pos EXCEPT ![FilterColumns[k]] = @ + n],
         read' = [read EXCEPT ![FilterColumns[k]] = [i \in 1 .. Tested(k) + n |-> Base + i]],
         selected' = {i \in selected :
                        i - Tested(k) \in 1 .. n =>
                          Passes(FilterColumns[k], value[FilterColumns[k]][Base + i])}
  PROVE  BatchInv'
<1> DEFINE c == FilterColumns
           asked(j, i) == Passes(FilterColumns[j], value[FilterColumns[j]][Base + i])
<1>1. FilterColumns' = FilterColumns /\ ReadFields' = ReadFields /\ value' = value /\ rows' = rows
  BY ConfigStays, Zenon DEF config
<1>2. \A f, v : Passes(f, v)' <=> Passes(f, v)
  BY ConfigStays, Zenon
<1>3. Base' = Base /\ Base \in Nat /\ rows \in Nat
  BY DEF Base, ScanTypeOK
<1>4. /\ \A j \in DOMAIN c : c[j] \in Fields
      /\ \A i, j \in DOMAIN c : c[i] = c[j] => i = j
      /\ \A j \in DOMAIN c : c[j] \in Range(c)
  BY ColumnsOfFilter, SMTT(60) DEF A, S, Fields, IsInjective, Range
<1>5. /\ \A j \in DOMAIN c : pos[c[j]] = Base + Tested(j)
      /\ \A j \in DOMAIN c : read[c[j]] = [i \in 1 .. Tested(j) |-> Base + i]
      /\ \A f \in ReadFields : f \notin Range(c) => pos[f] = Base
      /\ selected = {i \in 1 .. rows : \A j \in DOMAIN c : i <= Tested(j) => asked(j, i)}
  BY Zenon DEF BatchInv
<1>6. DOMAIN pos = Fields /\ DOMAIN read = Fields /\ ReadFields \subseteq Fields
  BY Zenon DEF ScanTypeOK, ReadFields
<1> HIDE DEF c, asked
<1>7. ASSUME NEW j \in DOMAIN c
      PROVE  pos'[c[j]] = Base' + Tested(j)' /\ read'[c[j]] = [i \in 1 .. Tested(j)' |-> Base' + i]
  <2>1. CASE j = k
    <3>1. pos'[c[k]] = pos[c[k]] + n /\ read'[c[k]] = [i \in 1 .. Tested(k) + n |-> Base + i]
      BY <1>4, <1>6, Zenon DEF c
    <3>2. Tested(k)' = Tested(k) + n /\ pos[c[k]] = Base + Tested(k)
      BY <1>5, Zenon DEF c
    <3> QED BY <1>3, <2>1, <3>1, <3>2
  <2>2. CASE j # k
    <3>1. c[j] # c[k] /\ k \in DOMAIN c
      BY <1>4, <2>2 DEF c
    <3>2. pos'[c[j]] = pos[c[j]] /\ read'[c[j]] = read[c[j]]
      BY <1>4, <1>6, <3>1 DEF c
    <3>3. Tested(j)' = Tested(j)
      BY <2>2, Zenon DEF c
    <3> QED BY <1>3, <1>5, <3>2, <3>3
  <2> QED BY <2>1, <2>2, Zenon
<1>8. ASSUME NEW f \in ReadFields, f \notin Range(c)
      PROVE  pos'[f] = Base'
  <2>1. f # c[k] /\ f \in Fields
    BY <1>4, <1>6, <1>8, SMTT(60) DEF c
  <2>2. pos'[f] = pos[f]
    BY <1>6, <2>1, SMTT(60) DEF c
  <2> QED BY <1>3, <1>5, <1>8, <2>2, SMTT(60)
<1>9. ASSUME NEW i \in 1 .. rows
      PROVE  i \in selected' <=> \A j \in DOMAIN c : i <= Tested(j)' => asked(j, i)
  <2>1. i \in selected <=> \A j \in DOMAIN c : i <= Tested(j) => asked(j, i)
    BY <1>5, Zenon
  <2>2. i \in selected' <=> i \in selected /\ (i - Tested(k) \in 1 .. n => asked(k, i))
    BY Zenon DEF asked
  <2>3. /\ k \in DOMAIN c /\ Tested(k)' = Tested(k) + n
        /\ \A j \in DOMAIN c : j # k => Tested(j)' = Tested(j)
    BY Zenon DEF c
  <2>4. i <= Tested(k) + n <=> i <= Tested(k) \/ i - Tested(k) \in 1 .. n
    OBVIOUS
  <2> QED BY <2>1, <2>2, <2>3, <2>4, SMTT(60)
<1>10. \A i \in selected' : i \in 1 .. rows
  BY <1>5, Zenon
<1>11. selected' = {i \in 1 .. rows' : \A j \in DOMAIN c : i <= Tested(j)' => asked(j, i)'}
  <2>1. \A j, i : asked(j, i)' <=> asked(j, i)
    BY <1>1, <1>2, <1>3, Zenon DEF asked
  <2> QED BY <1>1, <1>9, <1>10, <2>1, ZenonT(60)
<1> QED BY <1>1, <1>7, <1>8, <1>11, SMTT(60) DEF BatchInv, c, asked

\* The column of the filter that is next is read where the filter was rebound to it.
LEMMA NextColumn ==
  ASSUME ScanInv, Filtering
  PROVE  /\ column + 1 \in DOMAIN FilterColumns
         /\ FilterColumns[column + 1] \in {A, S}
         /\ FilterField = FilterColumns[column + 1]
         /\ Tested(column + 1) = done
         /\ rows \in Nat /\ 0 < rows /\ state = "scanning"
         /\ column \in Nat /\ done \in Nat /\ column < Len(FilterColumns)
<1>1. ScanTypeOK /\ column < Len(FilterColumns) /\ rows > 0 /\ state = "scanning"
  BY DEF ScanInv, Filtering, InBatch
<1>2. column \in Nat /\ done \in Nat /\ rows \in Nat
  BY <1>1 DEF ScanTypeOK
<1>3. column + 1 \in DOMAIN FilterColumns /\ FilterColumns[column + 1] \in {A, S}
  <2>1. DOMAIN FilterColumns = 1 .. Len(FilterColumns) /\ Len(FilterColumns) \in Nat
    BY <1>1, ColumnsOfFilter, Zenon
  <2>2. column + 1 \in DOMAIN FilterColumns
    BY <1>1, <1>2, <2>1
  <2> QED BY <1>1, <2>2, ColumnsOfFilter
<1>4. {A, S} \subseteq ReadFields
  BY DEF ReadFields, Fields, A, S, X
<1>5. FilterField = FilterColumns[column + 1]
  BY <1>1, <1>3, <1>4, FieldsAskedFor DEF FilterField
<1>6. Tested(column + 1) = done
  BY <1>2 DEF Tested
<1> QED BY <1>1, <1>2, <1>3, <1>5, <1>6, SMTT(60)

\* A fixed-width column is asked for the whole batch.
LEMMA FilterFixedInv == ScanInv /\ FilterFixed => ScanInv'
<1> SUFFICES ASSUME ScanInv, FilterFixed PROVE ScanInv'
  OBVIOUS
<1> DEFINE k == column + 1
           f == FilterColumns[k]
<1>1. Filtering /\ FilterField # S
  BY DEF FilterFixed
<1>2. /\ k \in DOMAIN FilterColumns /\ f \in {A, S} /\ FilterField = f /\ Tested(k) = done
      /\ rows \in Nat /\ 0 < rows /\ column \in Nat /\ done \in Nat /\ column < Len(FilterColumns)
      /\ state = "scanning"
  BY <1>1, NextColumn
<1>3. ScanTypeOK /\ BatchInv
  BY DEF ScanInv
<1>4. done = 0 /\ f \in Fields
  BY <1>1, <1>2, <1>3 DEF ScanTypeOK, A, S, Fields
<1>5. pos[f] = Base /\ Base \in Nat
  <2>1. Base \in Nat
    BY <1>3 DEF ScanTypeOK, Base
  <2>2. pos[f] = Base + Tested(k)
    BY <1>2, <1>3, Zenon DEF BatchInv
  <2> QED BY <1>2, <1>4, <2>1, <2>2, SMTT(60)
<1>6. /\ selected' = {i \in selected : Passes(f, value[f][NextRows(f, rows)[i]])}
      /\ read' = [read EXCEPT ![f] = NextRows(f, rows)]
      /\ pos' = [pos EXCEPT ![f] = @ + rows]
      /\ column' = column + 1
      /\ UNCHANGED <<config, left, next, offset, rows, done, out, state>>
  BY <1>2, Zenon DEF FilterFixed
<1>7. selected \subseteq 1 .. rows
  BY <1>3, Zenon DEF BatchInv
<1>8. NextRows(f, rows) = [i \in 1 .. rows |-> Base + i]
  BY <1>5 DEF NextRows
<1>9. /\ FilterColumns' = FilterColumns /\ Len(FilterColumns) \in Nat
      /\ DOMAIN FilterColumns = 1 .. Len(FilterColumns) /\ ScanConfigOK'
  BY <1>3, <1>6, ColumnsOfFilter, ConfigStays, Zenon DEF ScanTypeOK
<1>10. \A j \in DOMAIN FilterColumns : Tested(j)' = IF j = k THEN Tested(k) + rows ELSE Tested(j)
  BY <1>2, <1>4, <1>6, <1>9 DEF Tested
<1>11. selected' = {i \in selected : i - Tested(k) \in 1 .. rows => Passes(f, value[f][Base + i])}
  <2>1. \A i \in selected : i - Tested(k) \in 1 .. rows /\ NextRows(f, rows)[i] = Base + i
    BY <1>2, <1>4, <1>7, <1>8, SMTT(60)
  <2> QED BY <1>6, <2>1
<1>12. read' = [read EXCEPT ![f] = [i \in 1 .. Tested(k) + rows |-> Base + i]]
  <2>1. Tested(k) + rows = rows
    BY <1>2, <1>4
  <2> QED BY <1>6, <1>8, <2>1, Zenon
<1>13. BatchInv'
  BY <1>2, <1>3, <1>6, <1>10, <1>11, <1>12, AskedInv, Zenon
<1>14. ScanTypeOK'
  <2>1. pos' \in [Fields -> Nat]
    BY <1>2, <1>3, <1>4, <1>6, SMTT(60) DEF ScanTypeOK
  <2>2. [i \in 1 .. rows |-> Base + i] \in Seq(Nat)
    BY <1>2, <1>5, SMTT(60)
  <2>3. read' \in [Fields -> Seq(Nat)]
    BY <1>3, <1>4, <1>6, <1>8, <2>2, Zenon DEF ScanTypeOK
  <2>4. column' \in Nat /\ column' <= Len(FilterColumns') /\ done' = 0 /\ (rows' = 0 => column' = 0)
    BY <1>2, <1>4, <1>6, <1>9, SMTT(60)
  <2> QED BY <1>3, <1>6, <1>9, <2>1, <2>3, <2>4, SMTT(60) DEF ScanTypeOK
<1>15. RowsExact' /\ offset' = Cardinality(Expected)'
  <2>1. Base' = Base
    BY <1>6, Zenon DEF Base
  <2> QED BY <1>6, <2>1, ReturnedStays, SMTT(60)
<1> QED BY <1>13, <1>14, <1>15 DEF ScanInv

\* A string column is asked for a piece of the batch, which has views or is asked by its dictionary.
LEMMA FilterPieceInv == ScanInv /\ FilterPiece => ScanInv'
<1> SUFFICES ASSUME ScanInv, FilterPiece PROVE ScanInv'
  OBVIOUS
<1> DEFINE k == column + 1
<1>1. Filtering /\ FilterField = S
  BY Zenon DEF FilterPiece
<1>2. /\ k \in DOMAIN FilterColumns /\ FilterColumns[k] = S /\ Tested(k) = done
      /\ rows \in Nat /\ 0 < rows /\ column \in Nat /\ done \in Nat /\ column < Len(FilterColumns)
      /\ state = "scanning"
  BY <1>1, NextColumn, Zenon
<1>3. ScanTypeOK /\ BatchInv
  BY DEF ScanInv
<1>4. done < rows /\ S \in Fields
  BY <1>2, <1>3 DEF ScanTypeOK, S, Fields
<1>5. pos[S] = Base + done /\ read[S] = [i \in 1 .. done |-> Base + i] /\ Base \in Nat
  <2>1. Base \in Nat
    BY <1>3 DEF ScanTypeOK, Base
  <2>2. LET f == FilterColumns[k]
        IN  pos[f] = Base + Tested(k) /\ read[f] = [i \in 1 .. Tested(k) |-> Base + i]
    BY <1>2, <1>3, Zenon DEF BatchInv
  <2> QED BY <1>2, <2>1, <2>2, Zenon
<1>6. PICK piece \in 1 .. rows - done :
        /\ selected' = {i \in selected : i - done \in 1 .. piece =>
                          Passes(FilterColumns[k], value[S][NextRows(S, piece)[i - done]])}
        /\ state' = IF HasViews(S, piece) \/ ByDictionary(piece) THEN state ELSE "invalid"
        /\ read' = [read EXCEPT ![S] = @ \o NextRows(S, piece)]
        /\ pos' = [pos EXCEPT ![S] = @ + piece]
        /\ IF done + piece = rows
             THEN done' = 0 /\ column' = column + 1
             ELSE done' = done + piece /\ UNCHANGED column
  BY Zenon DEF FilterPiece
<1>7. UNCHANGED <<config, left, next, offset, rows, out>>
  BY Zenon DEF FilterPiece
<1>8. piece \in Nat /\ 0 < piece /\ done + piece <= rows
  BY <1>2, <1>4
<1>9. state' = "scanning"
  <2>1. HasViews(S, piece) \/ ByDictionary(piece)
    BY <1>3, <1>8 DEF HasViews, ByDictionary, ScanTypeOK, ScanConfigOK
  <2> QED BY <1>2, <1>6, <2>1, Zenon
<1>10. NextRows(S, piece) = [i \in 1 .. piece |-> Base + done + i]
  BY <1>5 DEF NextRows
<1>11. read[S] \o NextRows(S, piece) = [i \in 1 .. done + piece |-> Base + i]
  <2> DEFINE u == [i \in 1 .. done |-> Base + i]
             v == [i \in 1 .. piece |-> Base + done + i]
             w == [i \in 1 .. done + piece |-> Base + i]
  <2>1. u \in Seq(Nat) /\ Len(u) = done /\ v \in Seq(Nat) /\ Len(v) = piece
    BY <1>2, <1>5, <1>8
  <2>2. w \in Seq(Nat) /\ Len(w) = done + piece /\ \A i \in 1 .. done + piece : w[i] = Base + i
    BY <1>2, <1>5, <1>8
  <2>3. /\ \A i \in 1 .. done : u[i] = Base + i
        /\ \A i \in 1 .. piece : v[i] = Base + done + i
    OBVIOUS
  <2> HIDE DEF u, v, w
  <2>4. /\ u \o v \in Seq(Nat) /\ Len(u \o v) = done + piece
        /\ \A i \in 1 .. done + piece : (u \o v)[i] = IF i <= done THEN u[i] ELSE v[i - done]
    BY <2>1, ConcatProperties, ZenonT(60)
  <2>5. ASSUME NEW i \in 1 .. done + piece
        PROVE  (u \o v)[i] = w[i]
    <3>1. CASE i <= done
      <4>1. i \in 1 .. done
        BY <1>2, <1>8, <3>1, SMTT(60)
      <4> QED BY <2>2, <2>3, <2>4, <3>1, <4>1, Zenon
    <3>2. CASE ~(i <= done)
      <4>1. i - done \in 1 .. piece /\ Base + done + (i - done) = Base + i
        BY <1>2, <1>5, <1>8, <3>2
      <4> QED BY <2>2, <2>3, <2>4, <3>2, <4>1, Zenon
    <3> QED BY <3>1, <3>2, Zenon
  <2>6. \A x, y \in Seq(Nat) : Len(x) = Len(y) /\ (\A i \in 1 .. Len(x) : x[i] = y[i]) => x = y
    BY SeqEqual, Zenon
  <2>7. u \o v = w
    BY <2>2, <2>4, <2>5, <2>6, Zenon
  <2> QED BY <1>5, <1>10, <2>7, Zenon DEF u, v, w
<1>12. /\ FilterColumns' = FilterColumns /\ Len(FilterColumns) \in Nat
       /\ DOMAIN FilterColumns = 1 .. Len(FilterColumns) /\ ScanConfigOK'
  BY <1>3, <1>7, ColumnsOfFilter, ConfigStays, Zenon DEF ScanTypeOK
<1>13. \A j \in DOMAIN FilterColumns : Tested(j)' = IF j = k THEN Tested(k) + piece ELSE Tested(j)
  <2>1. ASSUME NEW j \in DOMAIN FilterColumns
        PROVE  Tested(j)' = IF j = k THEN Tested(k) + piece ELSE Tested(j)
    <3>1. j \in Nat /\ rows' = rows
      BY <1>7, <1>12, SMTT(60)
    <3>2. CASE done + piece = rows
      <4>1. done' = 0 /\ column' = column + 1
        BY <1>6, <3>2
      <4> QED BY <1>2, <1>8, <3>1, <3>2, <4>1, SMTT(60) DEF Tested
    <3>3. CASE done + piece # rows
      <4>1. done' = done + piece /\ column' = column
        BY <1>6, <3>3, SMTT(60)
      <4> QED BY <1>2, <1>8, <3>1, <3>3, <4>1, SMTT(60) DEF Tested
    <3> QED BY <3>2, <3>3, Zenon
  <2> QED BY <2>1, Zenon
<1>14. selected' = {i \in selected : i - Tested(k) \in 1 .. piece =>
                      Passes(FilterColumns[k], value[FilterColumns[k]][Base + i])}
  <2>1. \A i \in selected : i \in Nat
    BY <1>2, <1>3, SMTT(60) DEF BatchInv
  <2>2. \A i \in selected : i - done \in 1 .. piece => NextRows(S, piece)[i - done] = Base + i
    BY <1>2, <1>5, <1>8, <1>10, <2>1, SMTT(60)
  <2> QED BY <1>2, <1>6, <2>2, SMTT(60)
<1>15. pos' = [pos EXCEPT ![FilterColumns[k]] = @ + piece]
       /\ read' = [read EXCEPT ![FilterColumns[k]] = [i \in 1 .. Tested(k) + piece |-> Base + i]]
  BY <1>2, <1>6, <1>11, Zenon
<1>16. BatchInv'
  BY <1>2, <1>3, <1>7, <1>8, <1>13, <1>14, <1>15, AskedInv, Zenon
<1>17. ScanTypeOK'
  <2>1. pos' \in [Fields -> Nat]
    BY <1>3, <1>4, <1>6, <1>8, SMTT(60) DEF ScanTypeOK
  <2>2. [i \in 1 .. done + piece |-> Base + i] \in Seq(Nat)
    BY <1>2, <1>5, <1>8
  <2>3. read' \in [Fields -> Seq(Nat)]
    BY <1>3, <1>4, <1>6, <1>11, <2>2, Zenon DEF ScanTypeOK
  <2>4. /\ column' \in Nat /\ column' <= Len(FilterColumns') /\ done' \in Nat
        /\ (rows' = 0 => column' = 0)
        /\ done' > 0 => column' < Len(FilterColumns') /\ FilterColumns'[column' + 1] = S
                        /\ done' < rows'
    BY <1>2, <1>6, <1>7, <1>8, <1>12, SMTT(60)
  <2> QED BY <1>3, <1>7, <1>9, <1>12, <2>1, <2>3, <2>4, Zenon DEF ScanTypeOK
<1>18. RowsExact' /\ offset' = Cardinality(Expected)'
  <2>1. Base' = Base
    BY <1>7 DEF Base
  <2> QED BY <1>7, <2>1, ReturnedStays, SMTT(60)
<1> QED BY <1>16, <1>17, <1>18 DEF ScanInv

\* Once every column of the filter is asked, the batch's passing rows follow those before it.
LEMMA PassingOfBatch ==
  ASSUME ScanInv, InBatch, column = Len(FilterColumns)
  PROVE  /\ \A k \in DOMAIN FilterColumns : Tested(k) = rows
         /\ selected = {i \in 1 .. rows : RowPasses(Base + i)}
         /\ IsFiniteSet(selected) /\ selected \subseteq Nat
         /\ Cardinality(selected) \in Nat
         /\ Chosen \in [1 .. Cardinality(selected) -> selected]
         /\ IsFiniteSet(Expected) /\ Expected \subseteq Nat
         /\ InOrder({r \in 1 .. next : RowPasses(r)})
              = InOrder(Expected) \o [i \in DOMAIN Chosen |-> Base + Chosen[i]]
         /\ Cardinality({r \in 1 .. next : RowPasses(r)})
              = Cardinality(Expected) + Cardinality(selected)
<1> DEFINE c == FilterColumns
<1>1. ScanTypeOK /\ BatchInv
  BY DEF ScanInv
<1>2. rows \in Nat /\ next \in Nat /\ rows <= next /\ Base \in Nat /\ Base + rows = next
  BY <1>1 DEF ScanTypeOK, Base
<1>3. DOMAIN c = 1 .. Len(c) /\ Len(c) \in Nat
  BY <1>1, ColumnsOfFilter
<1>4. \A k \in DOMAIN c : Tested(k) = rows
  BY <1>3 DEF Tested
<1>5. ASSUME NEW r
      PROVE  RowPasses(r) <=> \A k \in DOMAIN c : Passes(c[k], value[c[k]][r])
  <2>1. \A f \in Fields : f \notin Range(c) => \A v : Passes(f, v)
    BY <1>1, ColumnsOfFilter, Zenon
  <2>2. \A k \in DOMAIN c : c[k] \in Fields
    BY <1>1, ColumnsOfFilter DEF A, S, Fields
  <2>3. \A f \in Range(c) : \E k \in DOMAIN c : f = c[k]
    BY Zenon DEF Range
  <2> QED BY <2>1, <2>2, <2>3, Zenon DEF RowPasses
<1>6. selected = {i \in 1 .. rows : RowPasses(Base + i)}
  <2>1. selected = {i \in 1 .. rows : \A k \in DOMAIN c : i <= Tested(k) =>
                      Passes(c[k], value[c[k]][Base + i])}
    BY <1>1, Zenon DEF BatchInv
  <2>2. \A i \in 1 .. rows, k \in DOMAIN c : i <= Tested(k)
    BY <1>2, <1>4, SMTT(60)
  <2> QED BY <1>5, <2>1, <2>2, Zenon
<1>7. IsFiniteSet(selected) /\ selected \subseteq Nat /\ selected \subseteq Int
  <2>1. IsFiniteSet(1 .. rows) /\ selected \in SUBSET (1 .. rows)
    BY <1>2, <1>6, FS_Interval, SMTT(60)
  <2>2. IsFiniteSet(selected)
    BY <2>1, FS_Subset, Zenon
  <2> QED BY <2>1, <2>2, SMTT(60)
<1>8. IsFiniteSet(Expected) /\ Expected \subseteq Nat /\ Expected \subseteq Int
  <2>1. IsFiniteSet(1 .. Base) /\ Expected \in SUBSET (1 .. Base)
    BY <1>2, FS_Interval, SMTT(60) DEF Expected
  <2>2. IsFiniteSet(Expected)
    BY <2>1, FS_Subset, Zenon
  <2> QED BY <2>1, <2>2
<1>9. Cardinality(selected) \in Nat /\ Chosen \in [1 .. Cardinality(selected) -> selected]
  BY <1>7, InOrderIncreasing, Zenon DEF Chosen, Increasing
<1> DEFINE moved == {Base + i : i \in selected}
           passing == {r \in 1 .. next : RowPasses(r)}
<1>10. passing = Expected \cup moved
  <2>1. ASSUME NEW r \in passing
        PROVE  r \in Expected \cup moved
    <3>1. CASE r <= Base
      BY <1>2, <3>1 DEF Expected
    <3>2. CASE ~(r <= Base)
      <4>1. r - Base \in 1 .. rows /\ Base + (r - Base) = r
        BY <1>2, <3>2
      <4>2. r - Base \in selected
        BY <1>6, <4>1, Zenon
      <4> QED BY <4>1, <4>2, Zenon
    <3> QED BY <3>1, <3>2, Zenon
  <2>2. ASSUME NEW r \in Expected
        PROVE  r \in passing
    BY <1>2, SMTT(60) DEF Expected
  <2>3. ASSUME NEW i \in selected
        PROVE  Base + i \in passing
    BY <1>2, <1>6, SMTT(60)
  <2> QED BY <2>1, <2>2, <2>3
<1>11. \A r \in Expected, m \in moved : r < m
  BY <1>2, <1>6, SMTT(60) DEF Expected
<1>12. moved \subseteq Int
  BY <1>2, <1>7, SMTT(60)
<1>13. IsFiniteSet(moved) /\ Cardinality(moved) = Cardinality(selected)
  <2> DEFINE g == [i \in selected |-> Base + i]
  <2>1. g \in Surjection(selected, moved)
    BY DEF Surjection
  <2>2. \A i, j \in selected : Base + i = Base + j => i = j
    BY <1>2, <1>7
  <2>3. g \in Injection(selected, moved)
    BY <2>2 DEF Injection, IsInjective
  <2>4. ExistsBijection(selected, moved)
    BY <2>1, <2>3, Zenon DEF ExistsBijection, Bijection
  <2> QED BY <1>7, <2>4, FS_Bijection, Zenon
<1>14. InOrder(moved) = [i \in DOMAIN Chosen |-> Base + Chosen[i]]
  <2>1. Base \in Int
    BY <1>2
  <2> QED BY <1>7, <2>1, InOrderShift, SMTT(60) DEF Chosen
<1> HIDE DEF moved, passing
<1>15. InOrder(passing) = InOrder(Expected) \o InOrder(moved)
  BY <1>8, <1>10, <1>11, <1>12, <1>13, InOrderAppend, Zenon
<1>16. Cardinality(passing) = Cardinality(Expected) + Cardinality(selected)
  <2>1. Expected \cap moved = {}
    <3>1. \A r \in Expected : r \in Int
      BY <1>8
    <3>2. \A r \in Expected : ~(r < r)
      BY <3>1
    <3> QED BY <1>11, <3>2, Zenon
  <2>2. Cardinality(Expected) \in Nat /\ Cardinality(moved) \in Nat /\ Cardinality({}) = 0
    BY <1>8, <1>13, FS_CardinalityType, FS_EmptySet
  <2>3. Cardinality(passing)
          = Cardinality(Expected) + Cardinality(moved) - Cardinality(Expected \cap moved)
    BY <1>8, <1>10, <1>13, FS_Union
  <2>4. Cardinality(Expected \cap moved) = 0
    BY <2>1, <2>2, Zenon
  <2> QED BY <1>13, <2>2, <2>3, <2>4
<1> QED BY <1>4, <1>6, <1>7, <1>8, <1>9, <1>14, <1>15, <1>16, Zenon DEF passing

\* What a column of the batch returns is the chosen rows of the part, whatever the filter read of
\* the column, and wherever it was asked for; a narrow scan counts the same rows.
LEMMA ColumnReturned ==
  ASSUME ScanInv, InBatch, column = Len(FilterColumns), NEW f \in Fields, f \notin filterOnly
  PROVE  ColumnOf(f) = [i \in DOMAIN Chosen |-> Base + Chosen[i]]
<1>1. ScanTypeOK /\ BatchInv
  BY DEF ScanInv
<1>2. /\ \A k \in DOMAIN FilterColumns : Tested(k) = rows
      /\ selected = {i \in 1 .. rows : RowPasses(Base + i)}
      /\ Chosen \in [1 .. Cardinality(selected) -> selected]
      /\ Cardinality(selected) \in Nat
  BY PassingOfBatch, Zenon
<1>3. /\ Base \in Nat /\ rows \in Nat /\ next - rows = Base
  BY <1>1 DEF ScanTypeOK, Base
<1>4. \A i \in DOMAIN Chosen : Chosen[i] \in 1 .. rows
  BY <1>2, Zenon
<1>5. CASE late /\ f = X
  <2>1. ColumnOf(f) = RowIds
    BY <1>5 DEF ColumnOf
  <2>2. CASE pushed # <<>>
    BY <1>3, <2>1, <2>2, Zenon DEF RowIds
  <2>3. CASE pushed = <<>>
    <3>1. keys = NoKeys
      BY <1>1, <1>5, Zenon DEF ScanTypeOK, ScanConfigOK
    <3>2. /\ FilterColumns = <<>>
          /\ \A g \in Fields : g \notin Range(FilterColumns) => \A v : Passes(g, v)
      BY <1>1, <2>3, <3>1, ColumnsOfFilter, Zenon
    <3>3. \A r : RowPasses(r)
      <4>1. Range(FilterColumns) = {}
        BY <3>2 DEF Range
      <4> QED BY <3>2, <4>1, ZenonT(60) DEF RowPasses
    <3>4. selected = 1 .. rows /\ Expected = 1 .. Base
      BY <1>2, <3>3 DEF Expected
    <3>5. Chosen = [i \in 1 .. rows |-> i]
      BY <1>3, <3>4, InOrderInterval, SMTT(60) DEF Chosen
    <3>6. offset = Base
      <4>1. offset = Cardinality(1 .. Base)
        BY <3>4 DEF ScanInv
      <4>2. Cardinality(1 .. Base) = IF 1 > Base THEN 0 ELSE Base - 1 + 1
        BY <1>3, FS_Interval, SMTT(60)
      <4> QED BY <1>3, <4>1, <4>2
    <3>7. RowIds = [i \in DOMAIN Chosen |-> offset + i]
      BY <2>3 DEF RowIds
    <3> QED BY <2>1, <3>5, <3>6, <3>7, Zenon
  <2> QED BY <2>2, <2>3, Zenon
<1>6. CASE ~(late /\ f = X)
  <2>1. f \in ReadFields
    BY <1>6 DEF ReadFields
  <2>2. ColumnOf(f)
          = Selected(ScanFields[Cardinality({g \in 1 .. f - 1 : g \notin filterOnly}) + 1])
    BY <1>6 DEF ColumnOf
  <2>3. ColumnOf(f) = Selected(f)
    BY <1>1, <2>1, <2>2, FieldsAskedFor, SMTT(60)
  <2>4. CASE f \in Range(FilterColumns)
    <3>1. PICK k \in DOMAIN FilterColumns : f = FilterColumns[k]
      BY <2>4, Zenon DEF Range
    <3>2. read[f] = [i \in 1 .. rows |-> Base + i]
      BY <1>1, <1>2, <3>1, SMTT(60) DEF BatchInv
    <3>3. Selected(f) = [i \in DOMAIN Chosen |-> read[f][Chosen[i]]]
      BY <2>4 DEF Selected
    <3> QED BY <1>4, <2>3, <3>2, <3>3, SMTT(60)
  <2>5. CASE f \notin Range(FilterColumns)
    <3>1. pos[f] = Base
      BY <1>1, <2>1, <2>5, SMTT(60) DEF BatchInv
    <3>2. NextRows(f, rows) = [i \in 1 .. rows |-> Base + i]
      BY <3>1 DEF NextRows
    <3>3. Selected(f) = [i \in DOMAIN Chosen |-> NextRows(f, rows)[Chosen[i]]]
      BY <2>5 DEF Selected
    <3> QED BY <1>4, <2>3, <3>2, <3>3, SMTT(60)
  <2> QED BY <2>4, <2>5, Zenon
<1> QED BY <1>5, <1>6, SMTT(60)

\* The batch is returned: every column's passing rows, and every reader past the batch.
LEMMA FinishBatchInv == ScanInv /\ FinishBatch => ScanInv'
<1> SUFFICES ASSUME ScanInv, FinishBatch PROVE ScanInv'
  OBVIOUS
<1> DEFINE n == Cardinality(selected)
           ids == [i \in DOMAIN Chosen |-> Base + Chosen[i]]
<1>1. /\ InBatch /\ column = Len(FilterColumns)
      /\ out' = [f \in Fields |-> out[f] \o ColumnOf(f)]
      /\ pos' = [f \in Fields |-> IF f \in Range(ScanFields) THEN Move(f) ELSE pos[f]]
      /\ offset' = offset + Len(Chosen)
      /\ rows' = 0 /\ selected' = {} /\ read' = [f \in Fields |-> <<>>] /\ column' = 0
      /\ UNCHANGED <<config, left, next, done, state>>
  BY DEF FinishBatch
<1>2. ScanTypeOK /\ BatchInv
  BY DEF ScanInv
<1>3. /\ \A k \in DOMAIN FilterColumns : Tested(k) = rows
      /\ n \in Nat /\ Chosen \in [1 .. n -> selected] /\ selected \subseteq Nat
      /\ IsFiniteSet(Expected) /\ Expected \subseteq Nat
      /\ InOrder({r \in 1 .. next : RowPasses(r)}) = InOrder(Expected) \o ids
      /\ Cardinality({r \in 1 .. next : RowPasses(r)}) = Cardinality(Expected) + n
  BY <1>1, PassingOfBatch, SMTT(60)
<1>4. /\ rows \in Nat /\ next \in Nat /\ Base \in Nat /\ Base + rows = next /\ done \in Nat
      /\ ~(done > 0) /\ done = 0
  BY <1>1, <1>2, SMTT(60) DEF ScanTypeOK, Base
<1>5. /\ FilterColumns' = FilterColumns /\ ReadFields' = ReadFields /\ filterOnly' = filterOnly
      /\ Range(FilterColumns)' = Range(FilterColumns)
      /\ \A r : RowPasses(r)' <=> RowPasses(r)
      /\ ScanConfigOK'
  BY <1>1, <1>2, ConfigStays, SMTT(60) DEF config, ScanTypeOK
<1>6. /\ DOMAIN FilterColumns = 1 .. Len(FilterColumns) /\ Len(FilterColumns) \in Nat
      /\ \A k \in DOMAIN FilterColumns : FilterColumns[k] \in {A, S}
      /\ {A, S} \subseteq ReadFields /\ ReadFields \subseteq Fields
  BY <1>2, ColumnsOfFilter DEF A, S, X, Fields, ReadFields
<1>7. Base' = next /\ \A k \in DOMAIN FilterColumns : Tested(k)' = 0
  BY <1>1, <1>4, <1>6, SMTT(60) DEF Base, Tested
<1>8. Expected' = {r \in 1 .. next : RowPasses(r)}
  BY <1>5, <1>7, Zenon DEF Expected
<1>9. ids \in Seq(Nat) /\ Len(ids) = n /\ Len(Chosen) = n /\ DOMAIN Chosen = 1 .. n
  <2>1. \A i \in 1 .. n : Chosen[i] \in Nat
    BY <1>3, Zenon
  <2>2. \A i \in 1 .. n : Base + Chosen[i] \in Nat
    BY <1>4, <2>1
  <2>3. DOMAIN Chosen = 1 .. n
    BY <1>3, Zenon
  <2>4. Len(Chosen) = n
    BY <1>3
  <2> HIDE DEF n
  <2>5. [i \in 1 .. n |-> Base + Chosen[i]] \in Seq(Nat)
    BY <1>3, <2>2
  <2> QED BY <1>3, <2>3, <2>4, <2>5, SMTT(60)
<1>10. ASSUME NEW f \in ReadFields
       PROVE  pos'[f] = next
  <2>1. pos'[f] = Move(f)
    BY <1>1, <1>2, <1>6, FieldsAskedFor
  <2>2. CASE f \in Range(FilterColumns)
    <3>1. PICK k \in DOMAIN FilterColumns : f = FilterColumns[k]
      BY <2>2 DEF Range
    <3>2. pos[f] = Base + Tested(k)
      BY <1>2, <3>1, Zenon DEF BatchInv
    <3> QED BY <1>3, <1>4, <2>1, <2>2, <3>2, Zenon DEF Move
  <2>3. CASE f \notin Range(FilterColumns)
    <3>1. pos[f] = Base
      BY <1>2, <2>3, Zenon DEF BatchInv
    <3> QED BY <1>4, <2>1, <2>3, <3>1 DEF Move
  <2> QED BY <2>2, <2>3
<1>11. BatchInv'
  <2>1. \A b : [i \in 1 .. 0 |-> b + i] = <<>>
    OBVIOUS
  <2>2. ASSUME NEW k \in DOMAIN FilterColumns
        PROVE  /\ pos'[FilterColumns[k]] = Base' + Tested(k)'
               /\ read'[FilterColumns[k]] = [i \in 1 .. Tested(k)' |-> Base' + i]
    <3>1. FilterColumns[k] \in ReadFields /\ FilterColumns[k] \in Fields
      BY <1>6, Zenon
    <3>2. pos'[FilterColumns[k]] = next /\ read'[FilterColumns[k]] = <<>>
      BY <1>1, <1>10, <3>1, Zenon
    <3> QED BY <1>4, <1>7, <2>1, <3>2, SMTT(60)
  <2>3. \A f \in ReadFields' : f \notin Range(FilterColumns)' => pos'[f] = Base'
    BY <1>5, <1>7, <1>10, Zenon
  <2>4. selected' = {i \in 1 .. rows' :
                       \A k \in DOMAIN FilterColumns' :
                         i <= Tested(k)' =>
                           Passes(FilterColumns[k], value[FilterColumns[k]][Base + i])'}
    BY <1>1
  <2> QED BY <1>5, <2>2, <2>3, <2>4 DEF BatchInv
<1>12. InOrder(Expected) \in Seq(Nat) /\ Len(InOrder(Expected)) = Cardinality(Expected)
       /\ Cardinality(Expected) \in Nat
  <2>1. /\ Cardinality(Expected) \in Nat
        /\ InOrder(Expected) \in [1 .. Cardinality(Expected) -> Expected]
    <3>1. Expected \subseteq Int
      BY <1>3
    <3> QED BY <1>3, <3>1, InOrderIncreasing, Zenon DEF Increasing
  <2>2. InOrder(Expected) \in [1 .. Cardinality(Expected) -> Nat]
    BY <1>3, <2>1, Zenon
  <2> QED BY <2>1, <2>2
<1>13. RowsExact'
  <2> DEFINE e == InOrder(Expected)
  <2>1. \A f \in Fields : out[f] = IF f \in filterOnly THEN [i \in DOMAIN e |-> NullValue] ELSE e
    BY Zenon DEF ScanInv, RowsExact, Expected, Base
  <2>2. InOrder(Expected)' = e \o ids
    BY <1>3, <1>8, Zenon
  <2>3. ASSUME NEW f \in Fields
        PROVE  out'[f] = IF f \in filterOnly THEN [i \in DOMAIN (e \o ids) |-> NullValue]
                                             ELSE e \o ids
    <3>1. CASE f \in filterOnly
      <4>0. PICK m \in Nat : m = Len(e)
        BY <1>12
      <4> DEFINE u == [i \in 1 .. m |-> NullValue]
                 v == [i \in 1 .. n |-> NullValue]
                 w == [i \in 1 .. m + n |-> NullValue]
      <4>1. out'[f] = u \o v
        <5>1. ColumnOf(f) = [i \in DOMAIN Chosen |-> NullValue]
          BY <1>2, <3>1, Zenon DEF ColumnOf, ScanTypeOK, ScanConfigOK
        <5>2. DOMAIN e = 1 .. m
          BY <1>12, <4>0
        <5>3. out[f] = u
          BY <2>1, <3>1, <5>2, Zenon
        <5> QED BY <1>1, <1>9, <5>1, <5>3, Zenon
      <4>2. NullValue \in Nat
        BY DEF NullValue
      <4>3. u \in Seq(Nat) /\ v \in Seq(Nat) /\ w \in Seq(Nat)
            /\ Len(u) = m /\ Len(v) = n /\ Len(w) = m + n
        BY <1>3, <4>2, SMTT(60)
      <4>4. /\ \A i \in 1 .. m : u[i] = NullValue
            /\ \A i \in 1 .. n : v[i] = NullValue
            /\ \A i \in 1 .. m + n : w[i] = NullValue
        OBVIOUS
      <4> HIDE DEF u, v, w, n
      <4>5. /\ u \o v \in Seq(Nat) /\ Len(u \o v) = m + n
            /\ \A i \in 1 .. m + n : (u \o v)[i] = IF i <= m THEN u[i] ELSE v[i - m]
        BY <4>3, ConcatProperties, Zenon
      <4>6. \A i \in 1 .. m + n : IF i <= m THEN i \in 1 .. m ELSE i - m \in 1 .. n
        BY <1>3, <4>2
      <4>7. \A i \in 1 .. m + n : (u \o v)[i] = w[i]
        BY <4>4, <4>5, <4>6, Zenon
      <4>8. u \o v = w
        BY <4>3, <4>5, <4>7, SeqEqual, Zenon
      <4>9. DOMAIN (e \o ids) = 1 .. m + n
        BY <1>9, <1>12, <4>0, ConcatProperties DEF n
      <4> QED BY <3>1, <4>1, <4>8, <4>9 DEF w
    <3>2. CASE f \notin filterOnly
      BY <1>1, <2>1, <3>2, ColumnReturned, Zenon
    <3> QED BY <3>1, <3>2, Zenon
  <2> HIDE DEF e
  <2>4. \A f \in Fields : out'[f] = IF f \in filterOnly'
                                    THEN [i \in DOMAIN InOrder(Expected)' |-> NullValue]
                                    ELSE InOrder(Expected)'
    BY <1>5, <2>2, <2>3, Zenon
  <2> QED BY <2>4, Zenon DEF RowsExact, Expected, Base
<1>14. offset' = Cardinality(Expected)'
  BY <1>1, <1>3, <1>8, <1>9, Zenon DEF ScanInv
<1>15. ScanTypeOK'
  <2>1. pos' \in [Fields -> Nat]
    <3>1. \A f \in Fields : (IF f \in Range(ScanFields) THEN Move(f) ELSE pos[f]) \in Nat
      BY <1>2, <1>4, SMTT(60) DEF Move, ScanTypeOK
    <3> QED BY <1>1, <3>1, Zenon
  <2>2. out' \in [Fields -> Seq(Nat)]
    <3>1. ASSUME NEW f \in Fields
          PROVE  out[f] \o ColumnOf(f) \in Seq(Nat)
      <4>1. out[f] \in Seq(Nat)
        BY <1>2, Zenon DEF ScanTypeOK
      <4>2. CASE f \in filterOnly
        <5>1. ColumnOf(f) = [i \in 1 .. n |-> NullValue]
          BY <1>2, <1>9, <4>2, Zenon DEF ColumnOf, ScanTypeOK, ScanConfigOK
        <5>2. ColumnOf(f) \in Seq(Nat)
          BY <1>3, <5>1, SMTT(60) DEF NullValue
        <5> QED BY <4>1, <5>2, SMTT(60)
      <4>3. CASE f \notin filterOnly
        <5>1. ColumnOf(f) = ids
          BY <1>1, <4>3, ColumnReturned, Zenon
        <5> QED BY <1>9, <4>1, <5>1, SMTT(60)
      <4> QED BY <4>2, <4>3, Zenon
    <3> QED BY <1>1, <3>1, Zenon
  <2>3. read' \in [Fields -> Seq(Nat)]
    BY <1>1, SMTT(60)
  <2>4. offset' \in Nat
    BY <1>1, <1>2, <1>3, <1>9, SMTT(60) DEF ScanTypeOK
  <2> QED BY <1>1, <1>2, <1>4, <1>5, <1>6, <2>1, <2>2, <2>3, <2>4, SMTT(60) DEF ScanTypeOK
<1> QED BY <1>11, <1>13, <1>14, <1>15, SMTT(60) DEF ScanInv

\* The end of the part returns nothing more.
LEMMA EndInv ==
  ASSUME ScanInv, End \/ UNCHANGED filteredScanVars
  PROVE  ScanInv'
<1>1. /\ UNCHANGED <<config, pos, left, next, offset, rows, column, done, selected, read, out>>
      /\ state' = "end" \/ state' = state
  BY DEF End, filteredScanVars
<1>2. Base' = Base /\ \A k : Tested(k)' = Tested(k)
  BY <1>1 DEF Base, Tested
<1>3. /\ FilterColumns' = FilterColumns /\ ReadFields' = ReadFields /\ ScanConfigOK'
      /\ \A f, v : Passes(f, v)' <=> Passes(f, v)
  BY <1>1, ConfigStays, Zenon DEF ScanInv, ScanTypeOK
<1>4. ScanTypeOK'
  BY <1>1, <1>3, SMTT(60) DEF ScanInv, ScanTypeOK
<1>5. BatchInv'
  <2>1. /\ BatchInv /\ pos' = pos /\ read' = read /\ selected' = selected /\ rows' = rows
        /\ value' = value /\ ReadFields' = ReadFields
    BY <1>1, <1>3, Zenon DEF ScanInv, config
  <2>2. Range(FilterColumns') = Range(FilterColumns)
    BY <1>3
  <2> QED BY <1>2, <1>3, <2>1, <2>2, SMTT(60) DEF BatchInv
<1>6. RowsExact' /\ offset' = Cardinality(Expected)'
  BY <1>1, <1>2, ReturnedStays, Zenon
<1> QED BY <1>4, <1>5, <1>6, SMTT(60) DEF ScanInv

\* A filtered scan, over any part and with any batch size, returns exactly the rows of the part
\* that pass its predicates and may match a key, in order and each column its own, whatever pages
\* the strings come in and whether they are read through the dictionary; and every batch leaves
\* the readers of all columns at the same row.
THEOREM FilteredScanExact == FilteredScanSpec => []FilteredRowsExact
<1>1. ScanInv /\ [FilteredScanNext]_filteredScanVars => ScanInv'
  BY StartBatchInv, FilterFixedInv, FilterPieceInv, FinishBatchInv, EndInv,
     SMTT(60) DEF FilteredScanNext
<1>2. ScanInv => FilteredRowsExact
  <2> SUFFICES ASSUME ScanInv PROVE FilteredRowsExact
    OBVIOUS
  <2>1. NeverInvalid
    BY ColumnsOfFilter, Zenon DEF ScanInv, ScanTypeOK, NeverInvalid
  <2>2. ASSUME rows = 0, NEW f \in Range(ScanFields)
        PROVE  pos[f] = next
    <3>1. ScanTypeOK /\ BatchInv /\ f \in ReadFields
      BY FieldsAskedFor, Zenon DEF ScanInv
    <3>2. next \in Nat /\ column = 0 /\ done = 0 /\ Base = next
      BY <2>2, <3>1, SMTT(60) DEF ScanTypeOK, Base
    <3>3. CASE f \in Range(FilterColumns)
      <4>1. PICK k \in DOMAIN FilterColumns : f = FilterColumns[k]
        BY <3>3 DEF Range
      <4>2. Tested(k) = 0
        BY <2>2, <3>2, Zenon DEF Tested
      <4>3. pos[f] = Base + Tested(k)
        BY <3>1, <4>1, Zenon DEF BatchInv
      <4> QED BY <3>2, <4>2, <4>3, SMTT(60)
    <3>4. CASE f \notin Range(FilterColumns)
      BY <3>1, <3>2, <3>4, Zenon DEF BatchInv
    <3> QED BY <3>3, <3>4, Zenon
  <2> QED BY <2>1, <2>2, Zenon DEF FilteredRowsExact, ReadersAligned, ScanInv
<1> QED BY <1>1, <1>2, InitInv, PTL DEF FilteredScanSpec
=============================================================================
