--------------------------- MODULE GroupAggregate ---------------------------
(***************************************************************************)
(* GROUP BY with keys (src/exec/group_aggregate.cc, and the grouping of    *)
(* parts of src/exec/part_operators.cc).  The serial operator groups its   *)
(* input in one table.  The one over parts groups every part on its own    *)
(* and, once that does not reduce the rows, routes the rest of them to the *)
(* partitions as they are; every partition merges the parts in part order  *)
(* in a table of its own, and the rows of the partitions are built a few   *)
(* partitions at a time.                                                   *)
(*                                                                         *)
(* The tasks of the parts share nothing, and their results come in part    *)
(* order (PartScheduler); the lanes of the partitions share only the parts *)
(* they read, and each takes them in order (PartitionLanes).  So the parts *)
(* run one after another here, and all lanes merge a part in one step.     *)
(***************************************************************************)
EXTENDS Naturals, Sequences, SequencesExt

-----------------------------------------------------------------------------
(***************************************************************************)
(* The groups of a GROUP BY (src/exec/group_table.cc): a key table numbers *)
(* the distinct normalized keys, every group has its aggregates' state and *)
(* its key as it was first seen, in chunks of groups that came together.   *)
(* A row is [key, form, id]: -0.0 and 0.0, and every two NaNs, are one key *)
(* in two forms.  A group's state is the ids of the rows it took in order: *)
(* every aggregate is a function of it.  Operators that depend on the key  *)
(* table give the set of tables they may end in, since arrow's Grouper     *)
(* numbers the new keys of a batch in an order of its own.                 *)
(***************************************************************************)

CONSTANTS
  NormalForm,      \* the form NormalizeDoubleKey gives a key
  PartitionOf(_),  \* the partition of a normalized key: its hash, masked
  NumPartitions,   \* GroupTable::kPartitions
  MaxMergeChunk    \* GroupTable::kMaxMergeChunk

Partitions == 0 .. NumPartitions - 1

\* A key as a row has it, and as the key table keeps it.
KeyOf(row) == [key |-> row.key, form |-> row.form]
Normalized(row) == [key |-> row.key, form |-> NormalForm]
IdsIn(rows) == [i \in DOMAIN rows |-> rows[i].id]
NormalizedKeys(rows) == [i \in DOMAIN rows |-> Normalized(rows[i])]

Make(first_keys) ==
  [keep_first_keys |-> first_keys, uniques |-> <<>>, states |-> <<>>,
   first_keys |-> <<>>, chunk_groups |-> <<>>]

num_groups(t) == Len(t.states)

\* KeyTable::Consume: the keys after it, the new ones in any order.
Numberings(t, keys) == {t.uniques \o new : new \in SetToSeqs(ToSet(keys) \ ToSet(t.uniques))}

IdsOf(uniques, keys) ==
  [i \in DOMAIN keys |-> SelectInSeq(uniques, LAMBDA u : u = keys[i])]

\* For each group after `before`, the first position that maps to it.
FirstPositions(ids, before, after) ==
  [g \in 1 .. after - before |-> SelectInSeq(ids, LAMBDA id : id = before + g)]

\* A chunk of `count` new groups, with their keys unless the table keeps none.
AddGroups(t, count, keys) ==
  [t EXCEPT !.first_keys = IF t.keep_first_keys THEN Append(@, keys) ELSE @,
            !.chunk_groups = Append(@, count),
            !.states = @ \o [g \in 1 .. count |-> <<>>]]

Consume(t, rows) ==
  LET before == num_groups(t)
      ConsumeAs(uniques) ==
        LET ids == IdsOf(uniques, NormalizedKeys(rows))
            after == Len(uniques)
            first == FirstPositions(ids, before, after)
            grown == IF after = before THEN t
                     ELSE AddGroups(t, after - before,
                                    [g \in DOMAIN first |-> KeyOf(rows[first[g]])])
            taken(g) == SelectSeq(rows, LAMBDA r : Normalized(r) = uniques[g])
            old == grown.states
        IN  [grown EXCEPT !.uniques = uniques,
                          !.states = [g \in 1 .. after |-> old[g] \o IdsIn(taken(g))]]
  IN  {ConsumeAs(uniques) : uniques \in Numberings(t, NormalizedKeys(rows))}

-----------------------------------------------------------------------------
(* Partitions. *)

\* The groups of partition p, in group order.
partition_groups(t, p) ==
  SelectSeq([g \in 1 .. num_groups(t) |-> g], LAMBDA g : PartitionOf(t.uniques[g]) = p)

\* The rows whose group Partition() puts into partition p, in input order.
RouteRows(rows, p) == SelectSeq(rows, LAMBDA r : PartitionOf(Normalized(r)) = p)

\* New groups in chunks of at most kMaxMergeChunk, each with its key in `keys`.
AddKeyRows(t, keys) ==
  LET count == (Len(keys) + MaxMergeChunk - 1) \div MaxMergeChunk
      end(c) == IF c = count THEN Len(keys) ELSE c * MaxMergeChunk
      chunks == [c \in 1 .. count |-> SubSeq(keys, (c - 1) * MaxMergeChunk + 1, end(c))]
  IN  [t EXCEPT !.first_keys = @ \o chunks,
                !.chunk_groups = @ \o [c \in 1 .. count |-> Len(chunks[c])],
                !.states = @ \o [g \in DOMAIN keys |-> <<>>]]

\* The key group g of a part is output with: as first seen, or, of a part that keeps none,
\* the normalized one it handed over.
PartKey(part, g) ==
  IF part.keep_first_keys THEN FlattenSeq(part.first_keys)[g] ELSE part.uniques[g]

MergePartition(t, part, p) ==
  LET groups == partition_groups(part, p)
      keys == [i \in DOMAIN groups |-> part.uniques[groups[i]]]
      before == num_groups(t)
      MergeAs(uniques) ==
        LET to == IdsOf(uniques, keys)
            source == FirstPositions(to, before, Len(uniques))
            grown == AddKeyRows(t, [g \in DOMAIN source |-> PartKey(part, groups[source[g]])])
            from(g) == SelectInSeq(to, LAMBDA id : id = g)
            old == grown.states
        IN  [grown EXCEPT !.uniques = uniques,
                          !.states = [g \in 1 .. Len(uniques) |->
                             IF from(g) = 0 THEN old[g]
                                            ELSE old[g] \o part.states[groups[from(g)]]]]
  IN  {MergeAs(uniques) : uniques \in Numberings(t, keys)}

-----------------------------------------------------------------------------
(* Output. *)

Total(counts) == FoldLeft(LAMBDA a, b : a + b, 0, counts)

\* Where a batch that starts at chunk `next` may end: one chunk, or more while they have at
\* most kMaxMergeChunk groups; the bytes of their keys may end it sooner.
ChunkEnds(t, next) ==
  {end \in next + 1 .. Len(t.chunk_groups) :
     end = next + 1 \/ Total(SubSeq(t.chunk_groups, next + 1, end)) <= MaxMergeChunk}

\* NextChunk: the groups of chunks next + 1 .. end, as rows of keys and aggregates.
ChunkRows(t, next, end) ==
  LET keys == FlattenSeq(SubSeq(t.first_keys, next + 1, end))
      group == Total(SubSeq(t.chunk_groups, 1, next))
  IN  [i \in 1 .. Total(SubSeq(t.chunk_groups, next + 1, end)) |->
         [key |-> keys[i], rows |-> t.states[group + i]]]

-----------------------------------------------------------------------------

CONSTANTS
  KeyForms,      \* the keys in the forms they come in, as [key, form]
  FailingKeys,   \* the keys whose group may fail to finalize
  NoFailing,     \* no group does
  NumParts,
  MaxRows,       \* bound: the rows of all parts
  MaxBatchRows,  \* bound: the rows of a batch
  DecideAfter,   \* rows a part groups before it decides to route: decide_after_
  Reduction,     \* a part routes if it reduces its rows less than this to 1 (4 in the code)
  Threads        \* partitions built at a time without memory pressure

VARIABLES
  kind,        \* "serial" or "parts"
  double,      \* whether the key is a DOUBLE, the type with keys in several forms
  routes,      \* MayRouteRows
  failing,     \* once the input has ended: the key whose group fails to finalize, or NoFailing
  state,       \* "reading", "emitting", "end" or "failed"
  part,        \* the part that is read
  input,       \* the rows that were read, in order
  grouper,     \* the part's PartGrouper; its table is the serial operator's table_
  tables,      \* tables_, by partition
  rows,        \* rows_: the batches built of each partition
  built, next_table, next_chunk,
  emitted      \* the batches that were returned

vars == <<kind, double, routes, failing, state, part, input, grouper, tables, rows, built,
          next_table, next_chunk, emitted>>

-----------------------------------------------------------------------------
(* PartGrouper. *)

\* A mutant: no part keeps the keys as they were first seen.
NeverKeepsFirstKeys(isDouble) == FALSE

\* Only a DOUBLE key has another value to output than its normalized one.
PartKeepsFirstKeys(isDouble) == isDouble

MakeGrouper ==
  [table |-> Make(kind = "serial" \/ PartKeepsFirstKeys(double)),
   rows |-> [p \in Partitions |-> <<>>],
   consumed |-> 0, decided |-> ~routes, route |-> FALSE]

\* The routing decision of Add: once, when the part has grouped enough rows.
Decide(g) ==
  IF g.decided \/ g.consumed < DecideAfter THEN g
  ELSE [g EXCEPT !.decided = TRUE, !.route = num_groups(g.table) * Reduction > g.consumed]

\* Add: a batch goes to the partitions, or to the part's own table.
Add(g, batch) ==
  IF g.route
    THEN {[g EXCEPT !.rows = [p \in Partitions |->
             LET split == RouteRows(batch, p) IN IF split = <<>> THEN @[p] ELSE Append(@[p], split)]]}
    ELSE {Decide([g EXCEPT !.table = t, !.consumed = @ + Len(batch)]) :
             t \in Consume(g.table, batch)}

-----------------------------------------------------------------------------
\* The serial operator reads one input, as one part.
FirstPart == IF kind = "serial" THEN NumParts ELSE 1

Init ==
  /\ kind \in {"serial", "parts"}
  /\ double \in BOOLEAN
  /\ routes \in BOOLEAN
  /\ kind = "serial" => ~routes
  /\ failing = NoFailing
  /\ state = "reading" /\ part = FirstPart /\ input = <<>> /\ grouper = MakeGrouper
  /\ tables = [p \in Partitions |-> Make(TRUE)]
  /\ rows = [p \in Partitions |-> <<>>]
  /\ built = 0 /\ next_table = 0 /\ next_chunk = 0 /\ emitted = <<>>

\* Open, which begins with a Close: the query is run again on the same operator.
Open ==
  /\ state' = "reading" /\ part' = FirstPart /\ input' = <<>> /\ grouper' = MakeGrouper
  /\ tables' = [p \in Partitions |-> Make(TRUE)]
  /\ rows' = [p \in Partitions |-> <<>>]
  /\ built' = 0 /\ next_table' = 0 /\ next_chunk' = 0 /\ emitted' = <<>>
  /\ failing' = NoFailing
  /\ UNCHANGED <<kind, double, routes>>

\* The batches a part may come in next.
Batches ==
  {[i \in DOMAIN keys |-> [key |-> keys[i].key, form |-> keys[i].form, id |-> Len(input) + i]] :
     keys \in UNION {[1 .. n -> {k \in KeyForms : double \/ k.form = NormalForm}] :
                       n \in {m \in 1 .. MaxBatchRows : Len(input) + m <= MaxRows}}}

ReadBatch ==
  /\ state = "reading" /\ part <= NumParts
  /\ \E batch \in Batches :
       /\ grouper' \in Add(grouper, batch)
       /\ input' = input \o batch
  /\ UNCHANGED <<kind, double, routes, failing, state, part, tables, rows, built, next_table,
                 next_chunk, emitted>>

\* What a lane does with a part: its groups of the partition, then the rows routed to it.
MergePart(t, p) ==
  FoldLeft(LAMBDA ts, batch : UNION {Consume(s, batch) : s \in ts},
           MergePartition(t, grouper.table, p), grouper.rows[p])

\* A part ends: Finish, and the lanes merge it.  Or the input of the serial operator ends.
EndPart ==
  /\ state = "reading" /\ part <= NumParts
  /\ part' = part + 1
  /\ IF kind = "serial"
       THEN UNCHANGED <<grouper, tables>>
       ELSE /\ grouper' = MakeGrouper
            /\ LET merges == [p \in Partitions |-> MergePart(tables[p], p)]
               IN  tables' \in {t \in [Partitions -> UNION Range(merges)] :
                                  \A p \in Partitions : t[p] \in merges[p]}
  /\ UNCHANGED <<kind, double, routes, failing, state, input, rows, built, next_table, next_chunk,
                 emitted>>

\* CheckFinalize of every table: no group is the one that fails to finalize.
CheckFinalize(ts, fails) ==
  \A i \in DOMAIN ts : \A g \in DOMAIN ts[i].uniques : ts[i].uniques[g].key # fails

\* The input has ended: every finalize error before the first row.
EndInput ==
  /\ state = "reading" /\ part > NumParts
  /\ failing' \in FailingKeys \cup {NoFailing}
  /\ state' = IF CheckFinalize(IF kind = "serial" THEN <<grouper.table>>
                               ELSE [i \in 1 .. NumPartitions |-> tables[i - 1]], failing')
                THEN "emitting" ELSE "failed"
  /\ UNCHANGED <<kind, double, routes, part, input, grouper, tables, rows, built,
                 next_table, next_chunk, emitted>>

-----------------------------------------------------------------------------
(* Output. *)

\* GroupAggregateOperator::Next, over the one table.
NextSerial ==
  /\ kind = "serial" /\ state = "emitting"
  /\ IF next_chunk < Len(grouper.table.chunk_groups)
       THEN \E end \in ChunkEnds(grouper.table, next_chunk) :
              /\ emitted' = Append(emitted, ChunkRows(grouper.table, next_chunk, end))
              /\ next_chunk' = end
              /\ UNCHANGED <<state, grouper>>
       ELSE /\ grouper' = [grouper EXCEPT !.table = Make(TRUE)]
            /\ state' = "end"
            /\ UNCHANGED <<next_chunk, emitted>>
  /\ UNCHANGED <<kind, double, routes, failing, part, input, tables, rows, built, next_table>>

\* The batches NextChunk may return of a table, one after another until there are none.
AllChunks(t) ==
  LET last == Len(t.chunk_groups)
      cut(ends, i) == IF i = 1 THEN 0 ELSE ends[i - 1]
  IN  {[i \in DOMAIN ends |-> ChunkRows(t, cut(ends, i), ends[i])] :
         ends \in {e \in {SetToSortSeq(s, <) : s \in SUBSET (1 .. last)} :
                     /\ last \in ToSet(e) \cup {0}
                     /\ \A i \in DOMAIN e : e[i] \in ChunkEnds(t, cut(e, i))}}

\* BuildRows: the next partitions' rows, as many as threads, or one under memory pressure.
\* Each table goes once its rows are built.
BuildRows ==
  /\ kind = "parts" /\ state = "emitting"
  /\ next_table < NumPartitions /\ next_table = built
  /\ \E wave \in {1, Threads} :
       LET end == IF built + wave < NumPartitions THEN built + wave ELSE NumPartitions
           wanted == built .. end - 1
       IN  /\ built' = end
           /\ LET choices == [p \in Partitions |->
                               IF p \in wanted THEN AllChunks(tables[p]) ELSE {rows[p]}]
              IN  rows' \in {r \in [Partitions -> UNION Range(choices)] :
                               \A p \in Partitions : r[p] \in choices[p]}
           /\ tables' = [p \in Partitions |-> IF p \in wanted THEN Make(TRUE) ELSE tables[p]]
  /\ UNCHANGED <<kind, double, routes, failing, state, part, input, grouper, next_table,
                 next_chunk, emitted>>

\* The next batch of the partition, the next partition, or the end.
NextOfParts ==
  /\ kind = "parts" /\ state = "emitting"
  /\ \/ /\ next_table < built /\ next_chunk < Len(rows[next_table])
        /\ emitted' = Append(emitted, rows[next_table][next_chunk + 1])
        /\ next_chunk' = next_chunk + 1
        /\ UNCHANGED <<state, rows, next_table>>
     \/ /\ next_table < built /\ next_chunk = Len(rows[next_table])
        /\ rows' = [rows EXCEPT ![next_table] = <<>>]
        /\ next_table' = next_table + 1
        /\ next_chunk' = 0
        /\ UNCHANGED <<state, emitted>>
     \/ /\ next_table = NumPartitions
        /\ state' = "end"
        /\ UNCHANGED <<rows, next_table, next_chunk, emitted>>
  /\ UNCHANGED <<kind, double, routes, failing, part, input, grouper, tables, built>>

Next == Open \/ ReadBatch \/ EndPart \/ EndInput \/ NextSerial \/ BuildRows \/ NextOfParts

-----------------------------------------------------------------------------
RowsOf(key) == IdsIn(SelectSeq(input, LAMBDA r : r.key = key))
InputKeys == {r.key : r \in ToSet(input)}

\* However the parts are batched and routed, and in whatever order the key tables number
\* their groups, GROUP BY returns each group once, with its key in the form of its first
\* row, and its aggregates have taken each of its rows once and in input order.
GroupsExact ==
  LET out == FlattenSeq(emitted) IN
  /\ \A i \in DOMAIN out :
       /\ out[i].rows = RowsOf(out[i].key.key)
       /\ out[i].key = KeyOf(input[Head(out[i].rows)])
       /\ \A j \in DOMAIN out : out[i].key.key = out[j].key.key => i = j
  /\ state = "end" => InputKeys = {out[i].key.key : i \in DOMAIN out}

\* An aggregate that fails to finalize in any group fails the query before its first row.
FailsBeforeRows == failing \in InputKeys => emitted = <<>> /\ state # "end"
=============================================================================
