----------------------------- MODULE JoinTable ------------------------------
(***************************************************************************)
(* The life of one join build (src/exec/join_table.cc): batches appended   *)
(* to the parts of the build input, some of them failing, in any           *)
(* interleaving of the part tasks; then JoinTableBuilder::Finish.          *)
(***************************************************************************)
EXTENDS Integers, Sequences, FiniteSets, FiniteSetsExt, SequencesExt, Functions

-----------------------------------------------------------------------------
(***************************************************************************)
(* The hash table of a join's build side (src/exec/join_table.cc): parts   *)
(* that partition their batches as they are appended (JoinBuildPart), the  *)
(* runs of every partition in part order (JoinTableBuilder::Merge), the    *)
(* two layouts of a finished table (JoinTable::Build) and its lookup       *)
(* (JoinTable::Find).  A row is [key, id]: its key, a signed number of     *)
(* KeyBits bits or Null, and the rest of its columns; a reference is       *)
(* <<chunk, row>>, both from 1.  A keyless build gives every row one key.  *)
(***************************************************************************)

CONSTANTS
  Null,           \* SQL NULL
  KeyBits,        \* the width of a key: 64
  NumPartitions,  \* kJoinPartitions
  HashOf(_),      \* KeyHashes of a key
  DirectSlots,    \* kDirectSlotsPerRow
  SparseSlots     \* kSparseDirectSlotsPerRow

Partitions == 0 .. NumPartitions - 1

PartitionOf(row) == HashOf(row.key) % NumPartitions

\* x - y in unsigned arithmetic of KeyBits bits.
Minus(x, y) == (x - y) % 2 ^ KeyBits

RowsWithKey(rows, key) == SelectSeq(rows, LAMBDA r : r.key = key)
Keyed(rows) == SelectSeq(rows, LAMBDA r : r.key # Null)

-----------------------------------------------------------------------------
(* JoinBuildPart.  min and max are the code's zeros while there is no row.  *)

EmptyPart == [pieces |-> <<>>, nulls |-> <<>>, input_rows |-> 0, null_key_rows |-> 0,
              num_rows |-> 0, min |-> 0, max |-> 0]

\* The kept rows in partition order, each partition's in theirs (a stable counting
\* sort), and where each partition starts.
PieceOf(rows) ==
  LET of(p) == SelectSeq(rows, LAMBDA r : PartitionOf(r) = p)
  IN  [rows |-> FlattenSeq([i \in 1 .. NumPartitions |-> of(i - 1)]),
       start |-> [p \in 0 .. NumPartitions |->
                    Cardinality({i \in DOMAIN rows : PartitionOf(rows[i]) < p})]]

\* The rows with a NULL key, kept apart for the join that must emit them.
AppendNullKeys(part, rows, keepNulls) ==
  LET nulls == RowsWithKey(rows, Null)
  IN  IF keepNulls /\ nulls # <<>> THEN [part EXCEPT !.nulls = Append(@, nulls)] ELSE part

\* A batch whose selected rows are `rows`.
AppendRows(part, rows, keepNulls) ==
  LET kept == Keyed(rows)
      range == (IF part.num_rows > 0 THEN {part.min, part.max} ELSE {})
                 \cup {kept[i].key : i \in DOMAIN kept}
      counted == [AppendNullKeys(part, rows, keepNulls) EXCEPT
                    !.input_rows = @ + Len(rows),
                    !.null_key_rows = @ + Len(rows) - Len(kept)]
  IN  IF kept = <<>> THEN counted
      ELSE [counted EXCEPT !.pieces = Append(@, PieceOf(kept)), !.num_rows = @ + Len(kept),
                           !.min = Min(range), !.max = Max(range)]

\* Append when AppendRows fails after AppendNullKeys: what that appended is dropped.
FailedAppend(part, rows, keepNulls) ==
  [AppendNullKeys(part, rows, keepNulls) EXCEPT !.nulls = SubSeq(@, 1, Len(part.nulls))]

-----------------------------------------------------------------------------
(* JoinTableBuilder: the parts' pieces as chunks, each partition's runs     *)

ChunksOf(parts) == FlattenSeq([n \in DOMAIN parts |-> parts[n].pieces])

\* The smallest and the largest key of the parts that have rows.
KeyRange(parts) ==
  LET withRows == {n \in DOMAIN parts : parts[n].num_rows > 0}
  IN  IF withRows = {} THEN [min |-> 0, max |-> 0]
      ELSE [min |-> Min({parts[n].min : n \in withRows}),
            max |-> Max({parts[n].max : n \in withRows})]

\* The references of partition p's rows, run after run, in part order.
Segments(chunks, p) ==
  FlattenSeq([c \in DOMAIN chunks |->
                [i \in 1 .. chunks[c].start[p + 1] - chunks[c].start[p] |->
                   <<c, chunks[c].start[p] + i>>]])

RowAt(chunks, ref) == chunks[ref[1]].rows[ref[2]]
KeyAt(chunks, ref) == RowAt(chunks, ref).key

-----------------------------------------------------------------------------
(* The direct layout: an array indexed by the key minus the smallest one    *)

\* The prefix sums of counts[0 .. total - 1] in NumPartitions blocks: each block's own,
\* then the sums of the blocks before it added.
BlockedSums(counts, total) ==
  LET block == (total + NumPartitions - 1) \div NumPartitions
      within == [i \in 0 .. total - 1 |->
                   SumFunctionOnSet(counts, (i \div block) * block .. i)]
      lastOf(c) == Min({(c + 1) * block, total}) - 1
      base == [c \in Partitions |->
                 SumFunction([b \in 0 .. c - 1 |-> within[lastOf(b)]])]
  IN  [i \in 0 .. total - 1 |-> within[i] + base[i \div block]]

\* Where the direct layout puts every row: <<partition, n-th of it>> -> place from 0.
Places(segments, index(_), starts) ==
  [p \in Partitions |->
     [n \in DOMAIN segments[p] |->
        starts[index(segments[p][n]) + 1]
          + Cardinality({m \in 1 .. n - 1 : index(segments[p][m]) = index(segments[p][n])})]]

BuildDirect(chunks, range) ==
  LET segments == [p \in Partitions |-> Segments(chunks, p)]
      index(ref) == Minus(KeyAt(chunks, ref), range.min)
      span == Minus(range.max, range.min)
      refs == UNION {Range(segments[p]) : p \in Partitions}
      count(i) == Cardinality({ref \in refs : index(ref) = i})
      starts == BlockedSums([i \in 0 .. span + 2 |-> count(i - 2)], span + 3)
      places == Places(segments, index, starts)
      placed == UNION {{[ref |-> segments[p][n], at |-> places[p][n]] : n \in DOMAIN segments[p]} :
                         p \in Partitions}
  IN  [layout |-> "direct",
       min |-> range.min,
       span |-> span,
       rows |-> [r \in 1 .. Cardinality(refs) |-> (CHOOSE e \in placed : e.at = r - 1).ref],
       \* placing a key's rows moved its start to their end; the spare entry is dropped
       offsets |-> [i \in 0 .. span + 1 |-> starts[i] + (IF i = 0 THEN 0 ELSE count(i - 1))],
       unique |-> \A i \in 0 .. span : count(i) <= 1]

-----------------------------------------------------------------------------
(* The hashed layout: per partition, buckets of keys, each with its rows    *)

BitCeil(n) == CHOOSE b \in {2 ^ e : e \in 0 .. n} : b >= n /\ b < 2 * n

Same(chunks, a, b) ==
  /\ HashOf(KeyAt(chunks, a)) = HashOf(KeyAt(chunks, b))
  /\ KeyAt(chunks, a) = KeyAt(chunks, b)

\* Each key's entries together, the keys in the order of their first entries.
GroupBucket(chunks, entries) ==
  LET first(i) == \A j \in 1 .. i - 1 : ~Same(chunks, entries[i], entries[j])
      heads == SetToSortSeq({i \in DOMAIN entries : first(i)}, <)
  IN  FlattenSeq([k \in DOMAIN heads |->
        SelectSeq(entries, LAMBDA e : Same(chunks, e, entries[heads[k]]))])

\* Mutant: a run ends where the hash changes; the keys are not compared.
SlotsOfMutant(chunks, entries, first) ==
  LET hash(i) == HashOf(KeyAt(chunks, entries[i]))
      starts == {i \in DOMAIN entries : i = 1 \/ hash(i - 1) # hash(i)}
      stop(i) == Min({j \in starts : j > i} \cup {Len(entries) + 1})
      slot(i) == [key |-> entries[i], begin |-> first + i - 1, end |-> first + stop(i) - 1]
      order == SetToSortSeq(starts, <)
  IN  [k \in DOMAIN order |-> slot(order[k])]

\* The slots of a bucket whose entries start at rows_[first]: one for each run of a key.
SlotsOf(chunks, entries, first) ==
  LET starts == {i \in DOMAIN entries : i = 1 \/ ~Same(chunks, entries[i - 1], entries[i])}
      stop(i) == Min({j \in starts : j > i} \cup {Len(entries) + 1})
      slot(i) == [key |-> entries[i], begin |-> first + i - 1, end |-> first + stop(i) - 1]
      order == SetToSortSeq(starts, <)
  IN  [k \in DOMAIN order |-> slot(order[k])]

\* Partition p's directory, its rows at rows_[first ..]: bit_ceil(rows) buckets.
BuildDirectory(chunks, p, first) ==
  LET segment == Segments(chunks, p)
      buckets == BitCeil(Len(segment))
      bucketOf(ref) == (HashOf(KeyAt(chunks, ref)) \div NumPartitions) % buckets
      add(d, b) ==
        LET entries == GroupBucket(chunks, SelectSeq(segment, LAMBDA ref : bucketOf(ref) = b))
        IN  [d EXCEPT !.slots = Append(@, SlotsOf(chunks, entries, first + Len(d.rows))),
                      !.rows = @ \o entries]
  IN  IF segment = <<>> THEN [mask |-> 0, slots |-> <<>>, rows |-> <<>>]
      ELSE FoldLeft(add, [mask |-> buckets - 1, slots |-> <<>>, rows |-> <<>>],
                    [b \in 1 .. buckets |-> b - 1])

\* The directories, that of partition p the (p + 1)-th, and their rows one after the other.
BuildHashed(chunks) ==
  LET add(h, p) ==
        LET directory == BuildDirectory(chunks, p, Len(h.rows))
        IN  [directories |-> Append(h.directories, directory), rows |-> h.rows \o directory.rows]
      built == FoldLeft(add, [directories |-> <<>>, rows |-> <<>>],
                        [i \in 1 .. NumPartitions |-> i - 1])
  IN  [layout |-> "hashed",
       directories |-> built.directories,
       rows |-> built.rows,
       unique |-> \A d \in Range(built.directories) : \A b \in DOMAIN d.slots :
                    \A s \in Range(d.slots[b]) : s.end - s.begin = 1]

-----------------------------------------------------------------------------
\* JoinTable::Build: direct for one dense integer key, and for a sparser one when the
\* budget can afford the index.
Build(parts, directCandidate, affordable) ==
  LET chunks == ChunksOf(parts)
      rows == SumFunction([n \in DOMAIN parts |-> parts[n].num_rows])
      range == KeyRange(parts)
      span == Minus(range.max, range.min)
      direct == /\ directCandidate
                /\ rows > 0
                /\ \/ span < DirectSlots * rows
                   \/ span < SparseSlots * rows /\ affordable
  IN  [chunks |-> chunks,
       null_chunks |-> FlattenSeq([n \in DOMAIN parts |-> parts[n].nulls]),
       input_rows |-> SumFunction([n \in DOMAIN parts |-> parts[n].input_rows]),
       null_key_rows |-> SumFunction([n \in DOMAIN parts |-> parts[n].null_key_rows]),
       index |-> IF direct THEN BuildDirect(chunks, range) ELSE BuildHashed(chunks)]

NoMatches == [begin |-> 0, end |-> 0]

FindDirect(t, key) ==
  LET index == Minus(key, t.index.min)
  IN  IF index <= t.index.span /\ t.index.offsets[index] # t.index.offsets[index + 1]
      THEN [begin |-> t.index.offsets[index], end |-> t.index.offsets[index + 1]]
      ELSE NoMatches

FindHashed(t, key) ==
  LET directory == t.index.directories[(HashOf(key) % NumPartitions) + 1]
      bucket == (HashOf(key) \div NumPartitions) % (directory.mask + 1)
      found == IF directory.slots = <<>> THEN {}
               ELSE {s \in Range(directory.slots[bucket + 1]) : KeyAt(t.chunks, s.key) = key}
  IN  IF found = {} THEN NoMatches
      ELSE LET slot == CHOOSE s \in found : \A o \in found : s.begin <= o.begin
           IN  [begin |-> slot.begin, end |-> slot.end]

\* The range of rows_ that matches a probe key: none for NULL.
Find(t, key) ==
  IF key = Null \/ t.index.rows = <<>> THEN NoMatches
  ELSE IF t.index.layout = "direct" THEN FindDirect(t, key) ELSE FindHashed(t, key)

\* The build rows of a range, in its order.
RowsIn(t, matches) ==
  [i \in 1 .. matches.end - matches.begin |-> RowAt(t.chunks, t.index.rows[matches.begin + i])]

-----------------------------------------------------------------------------

CONSTANTS
  Keys,      \* the keys the input holds: Null and signed numbers of KeyBits bits
  NumParts,  \* the parts of the build input
  MaxRows,   \* bound: the rows of the input
  MaxBatch,  \* bound: the rows of a batch
  Specs      \* the builds: [direct_candidate, keep_null_keys, keyless]

VARIABLES
  spec,    \* the JoinBuildSpec
  parts,   \* the JoinBuildParts
  input,   \* the rows each part was given, by batches that did not fail
  table    \* the finished table, <<>> before

vars == <<spec, parts, input, table>>

Parts == 1 .. NumParts
NumRows == SumFunction([n \in Parts |-> Len(input[n])])
ProbeKeys == -(2 ^ (KeyBits - 1)) .. 2 ^ (KeyBits - 1) - 1

\* The batches part n may append next: rows named by their place in the input.
Batches(n) ==
  LET keys == IF spec.keyless THEN {0} ELSE Keys
      lengths == 1 .. Min({MaxBatch, MaxRows - NumRows})
      name(i) == <<n, Len(input[n]) + i>>
  IN  {[i \in DOMAIN ks |-> [key |-> ks[i], id |-> name(i)]] :
         ks \in UNION {[1 .. l -> keys] : l \in lengths}}

Init ==
  /\ spec \in Specs
  /\ parts = [n \in Parts |-> EmptyPart]
  /\ input = [n \in Parts |-> <<>>]
  /\ table = <<>>

\* JoinBuildPart::Append of a batch.
AppendBatch(n) ==
  /\ table = <<>>
  /\ \E rows \in Batches(n) :
       /\ parts' = [parts EXCEPT ![n] = AppendRows(@, rows, spec.keep_null_keys)]
       /\ input' = [input EXCEPT ![n] = @ \o rows]
  /\ UNCHANGED <<spec, table>>

\* JoinBuildPart::Append of a batch it has no memory for.
AppendFails(n) ==
  /\ table = <<>>
  /\ \E rows \in Batches(n) :
       parts' = [parts EXCEPT ![n] = FailedAppend(@, rows, spec.keep_null_keys)]
  /\ UNCHANGED <<spec, input, table>>

\* JoinTableBuilder::Finish, with what the budget answers when it is asked.
Finish ==
  /\ table = <<>>
  /\ \E affordable \in BOOLEAN :
       table' = Build(parts, spec.direct_candidate, affordable)
  /\ UNCHANGED <<spec, parts, input>>

Next == (\E n \in Parts : AppendBatch(n) \/ AppendFails(n)) \/ Finish

Spec == Init /\ [][Next]_vars

-----------------------------------------------------------------------------
Input == FlattenSeq([n \in Parts |-> input[n]])

\* JoinTable::Find gives every probe key exactly the build rows with that key, in (part,
\* row) order, in both layouts and at both ends of the key type; NULL finds nothing.
FindsEveryRow ==
  table # <<>> /\ ~spec.keyless =>
    /\ LET rows == Input
       IN  \A k \in ProbeKeys : RowsIn(table, Find(table, k)) = RowsWithKey(rows, k)
    /\ Find(table, Null) = NoMatches

\* A finished table holds every row of the input once, whatever batches failed before: the
\* keyed ones in rows(), the NULL-keyed ones, if it keeps them, in part order, and all of
\* them counted (JoinTableBuilder::Finish).
KeepsEveryRow ==
  table # <<>> =>
    LET rows == RowsIn(table, [begin |-> 0, end |-> Len(table.index.rows)])
        nulls == RowsWithKey(Input, Null)
    IN  /\ Range(rows) = Range(Keyed(Input)) /\ Len(rows) = Len(Keyed(Input))
        /\ FlattenSeq(table.null_chunks) = (IF spec.keep_null_keys THEN nulls ELSE <<>>)
        /\ table.input_rows = Len(Input)
        /\ table.null_key_rows = Len(nulls)

\* unique() is true exactly when no key has two rows: an inner or left join then takes one
\* row a probe row and asks for no more; a one-row join asks it of a keyless build.
UniqueCorrect ==
  table # <<>> =>
    LET rows == Keyed(Input)
    IN  table.index.unique <=> IsInjective([i \in DOMAIN rows |-> rows[i].key])

\* The tasks BuildDirect runs at once, one for each partition, count and place their rows
\* through different offsets: no two of them write one.
TasksDisjoint ==
  table # <<>> =>
    \A p, q \in Partitions : p # q =>
      {KeyAt(table.chunks, r) : r \in Range(Segments(table.chunks, p))}
        \cap {KeyAt(table.chunks, r) : r \in Range(Segments(table.chunks, q))} = {}
=============================================================================
