---------------------------- MODULE GroupLevels ----------------------------
(***************************************************************************)
(* The aggregations of two levels: GROUPING SETS, ROLLUP and CUBE in one   *)
(* input (src/exec/grouping_sets.cc) and over parts                        *)
(* (PartGroupingSetsOperator), where the sets that lie in a larger set are *)
(* merged from its groups, and COUNT(DISTINCT) over parts                  *)
(* (PartTwoLevelAggregateOperator), which groups by the keys and the       *)
(* distinct column first and counts those groups afterwards.               *)
(*                                                                         *)
(* A row is [key, id] with one value per key column, NULL among them.  A   *)
(* group table is a function from the keys of its groups to the ids of the *)
(* rows they took: every aggregate is a function of them.  How a part is   *)
(* grouped, the form of a key and the chunks of the output are those of    *)
(* GroupAggregate; the parts come in order (PartScheduler) and all lanes   *)
(* merge a part in one step (PartitionLanes).                              *)
(***************************************************************************)
EXTENDS Integers, Sequences, FiniteSets, SequencesExt

CONSTANTS
  Null,
  NumKeys,        \* the number of key columns
  KeyRows,        \* the key columns a row may have
  SetLists,       \* lists of grouping sets, each of ascending key columns
  KeyHash(_),     \* the hash of a tuple of key values: KeyHashes
  NumPartitions,  \* GroupTable::kPartitions, kTwoLevelPartitions
  Failing,        \* the groups that may fail to finalize, as [set, key]
  NoFailing,      \* no group does
  NumParts,       \* parts of the table, or batches of one input
  SampleParts,    \* of them, the sampled ones: sample_parts_
  MaxRows,        \* bound: the rows of all parts
  Reduction,      \* partitions merge first if it reduces them so much to 1 (4 in the code)
  MaxAllowance,   \* bound: the groups that half of the budget's free bytes hold
  Threads,        \* partitions built at a time without memory pressure
  Counters,       \* kHeavyCounters
  HeavyShare      \* one over kHeavyShare

VARIABLES
  kind,           \* "serial", "parts" or "distinct"
  shape,          \* shape_
  exact,          \* whether the calls merge exactly: MergesExactly, and not per_set
  limited,        \* whether the budget has a limit
  plain,          \* whether the two-level aggregation has plain calls: plain_
  failing,        \* the group that fails to finalize, or NoFailing
  state,          \* "reading", "probed", "emitting", "end" or "failed"
  part,           \* the part that comes next
  input,          \* the rows that were read, in order
  tables,         \* tables_: per set, or per inner table, its partitions
  partial,        \* partial_: per set, the root partitions that were merged first
  reduce, estimate, derived, pending, done,    \* done is emitted_
  rows,           \* rows_: per set, or per partition, the rows that were built
  built, next_entry, next_partition,
  sampled, heavy, heavy_table,                 \* of the two-level aggregation
  emitted         \* the rows that were returned: [entry, rows]

vars == <<kind, shape, exact, limited, plain, failing, state, part, input, tables, partial,
          reduce, estimate, derived, pending, done, rows, built, next_entry, next_partition, sampled,
          heavy, heavy_table, emitted>>

query == <<kind, shape, exact, limited, plain, failing>>
probe == <<partial, reduce, estimate, derived, pending>>
twoLevel == <<sampled, heavy, heavy_table>>

-----------------------------------------------------------------------------
(* Group tables. *)

NoGroups == <<>>
Partitions == 1 .. NumPartitions
Sum(f) == FoldFunction(LAMBDA a, b : a + b, 0, f)
Concat(f) == FoldFunction(LAMBDA a, b : a \o b, <<>>, f)

\* The columns of a set, of a row's keys or of another group's.
ProjectKeys(key, columns) == [i \in DOMAIN columns |-> key[columns[i]]]

PartitionOf(hash) == (hash % NumPartitions) + 1
InPartition(key, p) == key = <<>> \/ PartitionOf(KeyHash(key)) = p

\* The groups of some rows: Consume into an empty table.
GroupBy(batch, set) ==
  [k \in {ProjectKeys(r.key, set) : r \in ToSet(batch)} |->
     LET own == SelectSeq(batch, LAMBDA r : ProjectKeys(r.key, set) = k)
     IN  [i \in DOMAIN own |-> own[i].id]]

StateIn(t, k) == IF k \in DOMAIN t THEN t[k] ELSE <<>>
MergeGroups(t, u) == [k \in DOMAIN t \cup DOMAIN u |-> StateIn(t, k) \o StateIn(u, k)]

Consume(t, batch, set) == MergeGroups(t, GroupBy(batch, set))

MergePartition(t, u, p) ==
  MergeGroups(t, [k \in {l \in DOMAIN u : InPartition(l, p)} |-> u[k]])

\* The groups `from` of the source by some of their keys.  Their states merge in the order the
\* source numbered them, which is its own: any order will do here.
MergeProjected(t, source, columns, from) ==
  MergeGroups(t, [k \in {ProjectKeys(l, columns) : l \in from} |->
                    Concat([l \in {m \in from : ProjectKeys(m, columns) = k} |-> source[l]])])

\* The groups whose projected keys are in partition q.
SplitByKeys(t, columns, q) == {k \in DOMAIN t : InPartition(ProjectKeys(k, columns), q)}

EnsureGroup(t) == MergeGroups(t, [k \in {<<>>} |-> <<>>])

\* No group of the set's partitions fails to finalize.
CheckFinalize(set, ts) ==
  failing = NoFailing \/ failing.set # set \/ \A p \in DOMAIN ts : failing.key \notin DOMAIN ts[p]

-----------------------------------------------------------------------------
(* PlanGroupingSets: which sets are aggregated from the input and which are  *)
(* merged from another's groups.                                             *)

Includes(outer, inner) == ToSet(inner) \subseteq ToSet(outer)

PlanGroupingSets(list, exactly) ==
  LET sets == FoldLeft(LAMBDA seen, s : IF s \in ToSet(seen) THEN seen ELSE Append(seen, s),
                       <<>>, list)
      roots == {s \in DOMAIN sets :
                  exactly => \A o \in DOMAIN sets :
                               Len(sets[o]) > Len(sets[s]) => ~Includes(sets[o], sets[s])}
      over(s) == {r \in roots : Includes(sets[r], sets[s])}
      better(a, b) == Len(sets[a]) < Len(sets[b]) \/ (Len(sets[a]) = Len(sets[b]) /\ a < b)
      source(s) == IF s \in roots THEN s
                   ELSE CHOOSE r \in over(s) : \A o \in over(s) \ {r} : better(r, o)
      position(s, key) == SelectInSeq(sets[source(s)], LAMBDA k : k = key)
  IN  [sets |-> sets,
       entries |-> [e \in DOMAIN list |-> SelectInSeq(sets, LAMBDA s : s = list[e])],
       sources |-> [s \in DOMAIN sets |-> source(s)],
       columns |-> [s \in DOMAIN sets |-> [i \in DOMAIN sets[s] |-> position(s, sets[s][i])]],
       last_entries |-> [s \in DOMAIN sets |-> SelectLastInSeq(list, LAMBDA l : l = sets[s])]]

Sets == DOMAIN shape.sets
root(s) == shape.sources[s] = s
Roots == {s \in Sets : root(s)}

\* GROUPING of every key column: bit n-1-i is set when argument i is not in the set.
GroupingValue(set) == Sum([k \in 1 .. NumKeys |-> IF k \in ToSet(set) THEN 0 ELSE 2 ^ (NumKeys - k)])

\* The rows of a set's table: every key column, NULL where the set lacks it.
SetRows(t, set) ==
  {[keys |-> [k \in 1 .. NumKeys |->
                IF k \in ToSet(set) THEN key[SelectInSeq(set, LAMBDA c : c = k)] ELSE Null],
    rows |-> t[key], grouping |-> GroupingValue(set)] : key \in DOMAIN t}

\* The tables of a set: one, or one per partition if it has keys.
NumTables(s) == IF kind = "serial" \/ shape.sets[s] = <<>> THEN 1 ELSE NumPartitions

-----------------------------------------------------------------------------
(* The inner tables of the two-level aggregation.  The last key column is    *)
(* the distinct one; the keys K are none of the others, or the first.        *)

Prefix == shape.sets[1]
DistinctKeys == Append(Prefix, NumKeys)
KeysOf(inner) == SubSeq(inner, 1, Len(Prefix))
Value(inner) == inner[Len(inner)]

\* Partition(prefix, heavy): by the hash of K, and by the hash of all keys if K is heavy.
PartitionOfInner(inner, heavies) ==
  PartitionOf(KeyHash(IF KeyHash(KeysOf(inner)) \in heavies THEN inner ELSE KeysOf(inner)))

InnerTables == [distinct |-> [p \in Partitions |-> {}], plain |-> [p \in Partitions |-> NoGroups]]

\* A part's inner groups into the partitions: the distinct tables have keys alone.
MergeInner(ts, batch, heavies) ==
  [distinct |-> [p \in Partitions |-> ts.distinct[p] \cup
                   {k \in DOMAIN GroupBy(batch, DistinctKeys) : PartitionOfInner(k, heavies) = p}],
   plain |-> [p \in Partitions |->
                IF ~plain \/ (Prefix = <<>> /\ p > 1) THEN ts.plain[p]
                ELSE MergePartition(ts.plain[p], GroupBy(batch, Prefix), p)]]

-----------------------------------------------------------------------------
NoTables ==
  IF kind = "distinct" THEN InnerTables
  ELSE [s \in Sets |-> [p \in 1 .. NumTables(s) |-> NoGroups]]

NoRows == IF kind = "distinct" THEN [p \in Partitions |-> {}] ELSE [s \in Sets |-> <<>>]

Init ==
  /\ kind \in {"serial", "parts", "distinct"}
  /\ exact \in BOOLEAN
  /\ shape \in {PlanGroupingSets(list, exact) :
                  list \in IF kind = "distinct" THEN {<< <<>> >>, << <<1>> >>} ELSE SetLists}
  /\ limited \in BOOLEAN
  /\ plain \in BOOLEAN
  /\ failing \in Failing \cup {NoFailing}
  /\ kind # "parts" => ~limited
  /\ IF kind = "distinct" THEN exact /\ failing = NoFailing ELSE ~plain
  /\ state = "reading" /\ part = 1 /\ input = <<>> /\ tables = NoTables
  /\ partial = [s \in Sets |-> <<>>] /\ reduce = [s \in Sets |-> TRUE]
  /\ estimate = [s \in Sets |-> 1] /\ derived = [s \in Sets |-> FALSE]
  /\ pending = [s \in Sets |-> 0] /\ done = [s \in Sets |-> FALSE]
  /\ rows = NoRows /\ built = 0 /\ next_entry = 1 /\ next_partition = 1
  /\ sampled = <<>> /\ heavy = {} /\ heavy_table = NoGroups /\ emitted = <<>>

\* Open, which begins with a Close: the query is run again on the same operator.  What Probe
\* sets is left as it was.
Open ==
  /\ state' = "reading" /\ part' = 1 /\ input' = <<>> /\ tables' = NoTables
  /\ partial' = [s \in Sets |-> <<>>] /\ done' = [s \in Sets |-> FALSE]
  /\ rows' = NoRows /\ built' = 0 /\ next_entry' = 1 /\ next_partition' = 1
  /\ sampled' = <<>> /\ heavy' = {} /\ heavy_table' = NoGroups /\ emitted' = <<>>
  /\ UNCHANGED <<query, reduce, estimate, derived, pending>>

\* The rows of the next part, or the next batch of one input.
NextRows ==
  {[i \in DOMAIN keys |-> [key |-> keys[i], id |-> Len(input) + i]] :
     keys \in UNION {[1 .. n -> KeyRows] : n \in 0 .. MaxRows - Len(input)}}

\* The lanes merge a part into every root's partitions, or the serial operator consumes a batch.
ReadPart ==
  /\ state = "reading" /\ kind # "distinct" /\ part <= NumParts
  /\ part' = part + 1
  /\ \E batch \in NextRows :
       /\ input' = input \o batch
       /\ tables' = [s \in Sets |->
            IF ~root(s) THEN tables[s]
            ELSE IF kind = "serial"
              THEN << Consume(tables[s][1], batch, shape.sets[s]) >>
              ELSE [p \in DOMAIN tables[s] |->
                      MergePartition(tables[s][p], GroupBy(batch, shape.sets[s]), p)]]
  /\ UNCHANGED <<query, probe, twoLevel, state, done, rows, built, next_entry, next_partition,
                 emitted>>

-----------------------------------------------------------------------------
(* GroupingSetsOperator: one input. *)

\* Aggregate, after the input: the other sets from their root's groups, a group for the empty
\* set, and every finalize error before the first row.
SecondLevel ==
  /\ state = "reading" /\ kind = "serial" /\ part > NumParts
  /\ LET table(s) ==
           LET source == tables[shape.sources[s]][1]
           IN  IF root(s) THEN tables[s][1]
               ELSE MergeProjected(NoGroups, source, shape.columns[s], DOMAIN source)
         all == [s \in Sets |-> << IF shape.sets[s] = <<>> THEN EnsureGroup(table(s))
                                                          ELSE table(s) >>]
     IN  /\ tables' = all
         /\ state' = IF \A s \in Sets : CheckFinalize(shape.sets[s], all[s])
                       THEN "emitting" ELSE "failed"
  /\ UNCHANGED <<query, probe, twoLevel, part, input, done, rows, built, next_entry,
                 next_partition, emitted>>

\* Next: the rows of a set are built at its first entry and kept until its last.
NextSerial ==
  /\ state = "emitting" /\ kind = "serial"
  /\ IF next_entry > Len(shape.entries)
       THEN /\ state' = "end"
            /\ UNCHANGED <<tables, done, rows, next_entry, emitted>>
       ELSE LET s == shape.entries[next_entry]
                all == IF done[s] THEN rows[s] ELSE << SetRows(tables[s][1], shape.sets[s]) >>
            IN  /\ tables' = [tables EXCEPT ![s] = <<>>]
                /\ done' = [done EXCEPT ![s] = TRUE]
                /\ emitted' = Append(emitted, [entry |-> next_entry, rows |-> all[1]])
                /\ rows' = [rows EXCEPT ![s] = IF shape.last_entries[s] = next_entry THEN <<>>
                                                                                ELSE all]
                /\ next_entry' = next_entry + 1
                /\ UNCHANGED state
  /\ UNCHANGED <<query, probe, twoLevel, part, input, built, next_partition>>

-----------------------------------------------------------------------------
(* PartGroupingSetsOperator: parts. *)

\* Probe: of the root's largest partition, merged by the set's keys, whether the partitions
\* merge first and how many groups the set has.
Largest(ts) == CHOOSE p \in DOMAIN ts : \A q \in DOMAIN ts :
                 \/ Cardinality(DOMAIN ts[q]) < Cardinality(DOMAIN ts[p])
                 \/ Cardinality(DOMAIN ts[q]) = Cardinality(DOMAIN ts[p]) /\ p <= q

ProbeOf(s, ts) ==
  LET largest == ts[Largest(ts)]
      before == Cardinality(DOMAIN largest)
      merged == MergeProjected(NoGroups, largest, shape.columns[s], DOMAIN largest)
      after == Cardinality(DOMAIN merged)
      all == Sum([p \in DOMAIN ts |-> Cardinality(DOMAIN ts[p])])
      reduces == after * Reduction <= before
  IN  IF root(s) \/ shape.sets[s] = <<>> \/ before = 0
        THEN [reduce |-> TRUE, estimate |-> 1, partial |-> <<>>]
        ELSE [reduce |-> reduces,
              estimate |-> Min({all, (after * all) \div before}),
              partial |-> IF reduces THEN [p \in {Largest(ts)} |-> merged] ELSE <<>>]

\* Prepare, up to its first batch: the roots are merged, their finalize errors come first.
Prepare ==
  /\ state = "reading" /\ kind = "parts" /\ part > NumParts
  /\ LET all == [s \in Sets |-> IF root(s) /\ shape.sets[s] = <<>> THEN << EnsureGroup(tables[s][1]) >>
                                                                  ELSE tables[s]]
         of == [s \in Sets |-> ProbeOf(s, all[shape.sources[s]])]
     IN  /\ tables' = all
         /\ IF \A s \in Roots : CheckFinalize(shape.sets[s], all[s])
              THEN /\ state' = "probed"
                   /\ reduce' = [s \in Sets |-> of[s].reduce]
                   /\ estimate' = [s \in Sets |-> of[s].estimate]
                   /\ partial' = [s \in Sets |-> of[s].partial]
                   /\ derived' = [s \in Sets |-> FALSE]
                   /\ pending' = [r \in Sets |-> Cardinality({s \in Sets \ {r} : shape.sources[s] = r})]
              ELSE state' = "failed" /\ UNCHANGED probe
  /\ UNCHANGED <<query, twoLevel, part, input, done, rows, built, next_entry, next_partition,
                 emitted>>

\* The sets to merge next, by their entries: those whose estimates fit, and always the first.
NextBatch(allowance) ==
  LET coming == SubSeq(shape.entries, next_entry, Len(shape.entries))
      waiting == FoldLeft(LAMBDA seen, s : IF root(s) \/ derived[s] \/ s \in ToSet(seen)
                                             THEN seen ELSE Append(seen, s), <<>>, coming)
      bytes(n) == Sum([i \in 1 .. n |-> estimate[waiting[i]]])
      fits(n) == ~limited \/ \A m \in 2 .. n : bytes(m) <= allowance
  IN  SubSeq(waiting, 1, Max({n \in 0 .. Len(waiting) : fits(n)}))

\* The partitions of a set's keys, each from every partition of its root, in order: of what the
\* partition merged first, or straight from its groups.
Derive(s) ==
  LET source == tables[shape.sources[s]]
      columns == shape.columns[s]
      first(p) == IF p \in DOMAIN partial[s] THEN partial[s][p]
                  ELSE MergeProjected(NoGroups, source[p], columns, DOMAIN source[p])
      gather(q) == FoldLeft(LAMBDA t, p : IF reduce[s] THEN MergePartition(t, first(p), q)
                                          ELSE MergeProjected(t, source[p], columns,
                                                              SplitByKeys(source[p], columns, q)),
                            NoGroups, [p \in DOMAIN source |-> p])
  IN  [q \in 1 .. NumTables(s) |->
         IF shape.sets[s] = <<>> THEN EnsureGroup(gather(q)) ELSE gather(q)]

\* DeriveBatch: the batch's sets are merged, their finalize errors come before their rows, and
\* a root nothing else merges from goes once its own rows are built.
DeriveBatch ==
  /\ kind = "parts"
  /\ \/ state = "probed"
     \/ /\ state = "emitting" /\ next_entry <= Len(shape.entries)
        /\ LET s == shape.entries[next_entry] IN ~root(s) /\ ~derived[s]
  /\ \E allowance \in 0 .. MaxAllowance :
       LET batch == ToSet(NextBatch(allowance))
           final == [s \in batch |-> Derive(s)]
           left == [r \in Sets |-> pending[r] - Cardinality({s \in batch : shape.sources[s] = r})]
           free == {r \in {shape.sources[s] : s \in batch} : left[r] = 0 /\ done[r]}
       IN  /\ derived' = [s \in Sets |-> derived[s] \/ s \in batch]
           /\ partial' = [s \in Sets |-> IF s \in batch THEN <<>> ELSE partial[s]]
           /\ pending' = left
           /\ tables' = [s \in Sets |-> CASE s \in batch -> final[s]
                                          [] s \in free -> <<>>
                                          [] OTHER -> tables[s]]
           /\ state' = IF \A s \in batch : CheckFinalize(shape.sets[s], final[s])
                         THEN "emitting" ELSE "failed"
  /\ UNCHANGED <<query, twoLevel, part, input, reduce, estimate, done, rows, built, next_entry,
                 next_partition, emitted>>

\* The set of the next entry, merged.
Entry == shape.entries[next_entry]
Emitting == /\ state = "emitting" /\ kind = "parts" /\ next_entry <= Len(shape.entries)
            /\ root(Entry) \/ derived[Entry]

\* A mutant: every table goes once its rows are built.
NeverKept(s) == FALSE

\* A root is kept while sets are still to be merged from it.
Kept(s) == root(s) /\ pending[s] > 0

\* BuildRows: the next partitions' rows, as many as threads, or one under memory pressure.  Each
\* table goes, but a root's only once every set merged from it is.
BuildRows ==
  /\ Emitting /\ ~done[Entry] /\ next_partition = built + 1 /\ built < NumTables(Entry)
  /\ \E wave \in {1, Threads} :
       LET s == Entry
           end == Min({built + wave, NumTables(s)})
       IN  /\ built' = end
           /\ rows' = [rows EXCEPT ![s] = @ \o [i \in 1 .. end - built |->
                                                 SetRows(tables[s][built + i], shape.sets[s])]]
           /\ tables' = [tables EXCEPT ![s] =
                [p \in DOMAIN @ |-> IF p \in built + 1 .. end /\ ~Kept(s) THEN NoGroups ELSE @[p]]]
  /\ UNCHANGED <<query, probe, twoLevel, state, part, input, done, next_entry, next_partition,
                 emitted>>

\* The rows of the next partition, which go after the set's last entry.
NextPartition ==
  /\ Emitting /\ next_partition <= Len(rows[Entry])
  /\ emitted' = Append(emitted, [entry |-> next_entry, rows |-> rows[Entry][next_partition]])
  /\ rows' = [rows EXCEPT ![Entry][next_partition] =
                IF shape.last_entries[Entry] = next_entry THEN {} ELSE @]
  /\ next_partition' = next_partition + 1
  /\ UNCHANGED <<query, probe, twoLevel, state, part, input, tables, done, built, next_entry>>

\* The entry has no more rows; the next one, or the end.
NextEntry ==
  \/ /\ Emitting /\ next_partition > NumTables(Entry)
     /\ done' = [done EXCEPT ![Entry] = TRUE]
     /\ tables' = [tables EXCEPT ![Entry] = IF root(Entry) /\ pending[Entry] = 0 THEN <<>> ELSE @]
     /\ next_entry' = next_entry + 1 /\ next_partition' = 1 /\ built' = 0
     /\ UNCHANGED <<query, probe, twoLevel, state, part, input, rows, emitted>>
  \/ /\ state = "emitting" /\ kind = "parts" /\ next_entry > Len(shape.entries)
     /\ state' = "end"
     /\ UNCHANGED <<query, probe, twoLevel, part, input, tables, done, rows, built, next_entry,
                    next_partition, emitted>>

-----------------------------------------------------------------------------
(* PartTwoLevelAggregateOperator: COUNT(DISTINCT) over parts. *)

\* HeavyHitters::Add of one hash.
AddHash(summary, hash) ==
  LET counters == summary.counters
      known == DOMAIN counters
  IN  [count |-> summary.count + 1,
       counters |->
         IF hash \in known THEN [counters EXCEPT ![hash] = @ + 1]
         ELSE IF Cardinality(known) < Counters
           THEN [h \in known \cup {hash} |-> IF h = hash THEN 1 ELSE counters[h]]
         ELSE [h \in {k \in known : counters[k] > 1} |-> counters[h] - 1]]

\* HeavyHitters::Above(kHeavyShare), without its fractions.
Above(summary) ==
  {h \in DOMAIN summary.counters :
     summary.counters[h] * HeavyShare * (Counters + 1)
       > summary.count * (Counters + 1) - summary.count * HeavyShare}

\* The heavy keys of the sampled parts, whose inner groups come in an order of their tables' own.
\* Without keys the one group is heavy.
HeavyKeys ==
  LET orders(i) == {[g \in DOMAIN order |-> KeyHash(KeysOf(order[g]))] :
                      order \in SetToSeqs(DOMAIN GroupBy(sampled[i], DistinctKeys))}
      streams == FoldLeft(LAMBDA before, i : {b \o o : b \in before, o \in orders(i)},
                          {<<>>}, [i \in DOMAIN sampled |-> i])
  IN  IF Prefix = <<>> THEN {{KeyHash(<<>>)}}
      ELSE {Above(FoldLeft(AddHash, [count |-> 0, counters |-> <<>>], stream)) : stream \in streams}

\* A sampled part waits for the heavy keys.
SamplePart ==
  /\ state = "reading" /\ kind = "distinct" /\ part <= SampleParts
  /\ part' = part + 1
  /\ \E batch \in NextRows : input' = input \o batch /\ sampled' = Append(sampled, batch)
  /\ UNCHANGED <<query, probe, state, tables, done, rows, built, next_entry, next_partition,
                 heavy, heavy_table, emitted>>

\* The sample decides the heavy keys, then is partitioned by them and merged.
MergeSample ==
  /\ state = "reading" /\ kind = "distinct" /\ part = SampleParts + 1
  /\ heavy' \in HeavyKeys
  /\ tables' = FoldLeft(LAMBDA ts, batch : MergeInner(ts, batch, heavy'), tables, sampled)
  /\ sampled' = <<>>
  /\ state' = "probed"
  /\ UNCHANGED <<query, probe, part, input, done, rows, built, next_entry, next_partition,
                 heavy_table, emitted>>

\* Every other part is partitioned by them on its worker.
MergePart ==
  /\ state = "probed" /\ kind = "distinct" /\ part <= NumParts
  /\ part' = part + 1
  /\ \E batch \in NextRows :
       input' = input \o batch /\ tables' = MergeInner(tables, batch, heavy)
  /\ UNCHANGED <<query, probe, twoLevel, state, done, rows, built, next_entry, next_partition,
                 emitted>>

\* OuterGroups of a partition: a count of the inner groups that have a value, and the plain calls.
OuterGroups(p) ==
  LET inner == tables.distinct[p]
      groups == {KeysOf(k) : k \in inner} \cup DOMAIN tables.plain[p]
  IN  [g \in groups |->
         [count |-> Cardinality({k \in inner : KeysOf(k) = g /\ Value(k) # Null}),
          rows |-> StateIn(tables.plain[p], g)]]

\* OuterGroups::Merge: counts add, states merge.
MergeOuter(t, u) ==
  [g \in DOMAIN t \cup DOMAIN u |->
     IF g \notin DOMAIN t THEN u[g] ELSE IF g \notin DOMAIN u THEN t[g]
     ELSE [count |-> t[g].count + u[g].count, rows |-> t[g].rows \o u[g].rows]]

OuterRows(t) == {[keys |-> g, count |-> t[g].count, rows |-> t[g].rows] : g \in DOMAIN t}
Only(t, groups) == [g \in groups |-> t[g]]

\* A mutant: the groups with keys are taken to be in one partition each.
OnlyGlobalIsHeavy(group) == Prefix = <<>>

\* Whether the inner groups of a group may be in several partitions.
IsHeavy(group) == Prefix = <<>> \/ KeyHash(group) \in heavy

\* What a partition's outer groups give: the rows of the light ones, and the heavy ones.
LightRows(t) == OuterRows(Only(t, {g \in DOMAIN t : ~IsHeavy(g)}))
HeavyGroups(t) == Only(t, {g \in DOMAIN t : IsHeavy(g)})

\* The outer level: the light groups' rows per partition, then the heavy groups across them,
\* and one group at least without keys.
Outer ==
  /\ state = "probed" /\ kind = "distinct" /\ part > NumParts
  /\ LET merged == FoldLeft(LAMBDA t, p : MergeOuter(t, HeavyGroups(OuterGroups(p))),
                            NoGroups, [p \in Partitions |-> p])
         none == [g \in {<<>>} |-> [count |-> 0, rows |-> <<>>]]
     IN  heavy_table' = IF Prefix = <<>> THEN MergeOuter(merged, none) ELSE merged
  /\ rows' = [p \in Partitions |-> LightRows(OuterGroups(p))]
  /\ tables' = InnerTables
  /\ state' = "emitting"
  /\ UNCHANGED <<query, probe, part, input, done, built, next_entry, next_partition, sampled,
                 heavy, emitted>>

\* Next: the light rows by partition, then the heavy ones, then the end.
NextOuter ==
  /\ state = "emitting" /\ kind = "distinct"
  /\ \/ /\ next_partition <= NumPartitions
        /\ emitted' = Append(emitted, [entry |-> 1, rows |-> rows[next_partition]])
        /\ rows' = [rows EXCEPT ![next_partition] = {}]
        /\ next_partition' = next_partition + 1
        /\ UNCHANGED <<state, heavy_table>>
     \/ /\ next_partition > NumPartitions
        /\ emitted' = Append(emitted, [entry |-> 1, rows |-> OuterRows(heavy_table)])
        /\ heavy_table' = NoGroups
        /\ state' = "end"
        /\ UNCHANGED <<rows, next_partition>>
  /\ UNCHANGED <<query, probe, part, input, tables, done, built, next_entry, sampled, heavy>>

Next ==
  \/ Open \/ ReadPart
  \/ SecondLevel \/ NextSerial
  \/ Prepare \/ DeriveBatch \/ BuildRows \/ NextPartition \/ NextEntry
  \/ SamplePart \/ MergeSample \/ MergePart \/ Outer \/ NextOuter

-----------------------------------------------------------------------------
\* The rows of one entry of the list, in the order of the batches.
EmittedOf(entry) ==
  FlattenSeq([i \in DOMAIN emitted |->
                IF emitted[i].entry = entry THEN SetToSeq(emitted[i].rows) ELSE <<>>])

\* The ids a group took are those of its rows: in order, or in any order of a merge that is exact.
Took(ids, group) ==
  IF exact THEN Len(ids) = Len(group) /\ ToSet(ids) = ToSet(group) ELSE ids = group

\* GROUPING SETS: each entry of the list returns the groups of its set over the whole input, each
\* once, with the NULLs and the GROUPING value of the set, and the entries come in order, whichever
\* set was merged from which, in whatever batches and waves.
SetsExact ==
  kind # "distinct" /\ state = "end" =>
    /\ \A i, j \in DOMAIN emitted : i < j => emitted[i].entry <= emitted[j].entry
    /\ \A e \in DOMAIN shape.entries :
         LET set == shape.sets[shape.entries[e]]
             meant == IF set = <<>> THEN EnsureGroup(GroupBy(input, set)) ELSE GroupBy(input, set)
             returned == EmittedOf(e)
         IN  /\ Len(returned) = Cardinality(DOMAIN meant)
             /\ \A row \in SetRows(meant, set) :
                  \E i \in DOMAIN returned :
                    /\ returned[i].keys = row.keys /\ returned[i].grouping = row.grouping
                    /\ Took(returned[i].rows, row.rows)

\* A group that fails to finalize fails the query, and without a memory limit before any row.
SetsFailFirst ==
  LET fails == /\ failing # NoFailing /\ failing.set \in Range(shape.sets)
               /\ \/ failing.set = <<>>
                  \/ failing.key \in {ProjectKeys(r.key, failing.set) : r \in ToSet(input)}
  IN  /\ state = "end" => ~fails
      /\ state = "failed" => fails /\ (~limited => emitted = <<>>)

\* COUNT(DISTINCT) in two levels: every K once, light or heavy, with the distinct values of its
\* rows that are not NULL and every row once in its plain calls; one row without keys, even over
\* no input.
DistinctExact ==
  kind = "distinct" /\ state = "end" =>
    LET groups == GroupBy(input, Prefix)
        meant == IF Prefix = <<>> THEN EnsureGroup(groups) ELSE groups
        returned == EmittedOf(1)
        values(g) == {r.key[NumKeys] : r \in {q \in ToSet(input) : ProjectKeys(q.key, Prefix) = g}}
    IN  /\ Len(returned) = Cardinality(DOMAIN meant)
        /\ \A g \in DOMAIN meant : \E i \in DOMAIN returned :
             /\ returned[i].keys = g
             /\ returned[i].count = Cardinality(values(g) \ {Null})
             /\ Took(returned[i].rows, IF plain THEN meant[g] ELSE <<>>)
=============================================================================
