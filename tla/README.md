# antb1 in TLA+

antb1 answers SQL over Parquet files: a parser, a binder and an optimizer make a plan, the physical
planner makes operators of it, and the operators run on Apache Arrow, in parallel over the *parts*
(row groups) of a table.  This directory models the parts of that system whose correctness depends
on interleavings, failures, retries, boundaries and rewrites, checks them with TLC on small
instances, and proves the core of them with TLAPS for every value of the constants.  Source paths
below are those of the repository, without the leading `src/`.

- [The system](#the-system)
- [Modules](#modules)
- [Runs](#runs)
- [Fairness](#fairness)
- [Proofs](#proofs)
- [Where the code and its comments disagree](#where-the-code-and-its-comments-disagree)
- [Not modelled](#not-modelled)
- [Plan](#plan)

## The system

A query goes from text to tokens, to a statement (sql/), to a bound plan, to an optimized plan
(plan/), to a tree of operators (exec/).  One thread, the *consumer*, calls `Open`, `Next` and
`Close` on that tree.  Operators that read a table in parts submit one task per part to Arrow's
thread pool (the *executor*).  All of them share one `MemoryBudget`.  The code promises one thing
above all (docs/adr/0013-parallel-execution.md): the answer, and the failure if there is one, are
those of the serial run, whatever the timing.  Most properties of the operators are forms of that
promise; those of the planner say that a rewrite keeps the meaning of what it rewrites.

| Part | State | Operations | What is hard | What must hold |
|---|---|---|---|---|
| `PartScheduler` (exec/part_scheduler.h) | window, futures in flight, slots, `stop`, the part reached | `Next`, `Take`, `Submit`, `Drop`, `Stop`, a task's end | parts finish out of order; a part out of memory runs again alone; `Submit` fails or throws | serial results and failure; bounded memory; no task outlives `Stop`; every call returns |
| `PartitionLanes`, `ForEach` (exec/partition_lanes.cc) | a queue and a task per lane, pending parts, first failure; the futures of a loop | `Add`, `Queue`, `Drain`, `Fail`, `Done`, `Finish`, destructor; the loop and its `WaitAll` | the mutex is released while merging; sleeping on a condition; a submission that throws while tasks use the caller's frame | part order per lane; the smallest failure; no lost wake-up; no task outlives its caller |
| grouped merge (exec/part_operators.cc) | scheduler and lanes on one executor | `Merge`, the retry hook, `Close` | threads waiting for each other; two sources of failure | ends; serial failure; a retried part has all the memory |
| `MemoryBudget` (exec/memory_budget.cc) | `used_`, `peak_` | `Charge`, `Uncharge`, `Allocate`, `Reallocate`, `Free`, reservations | calls interleave at atomic operations; the backend fails after the charge | exact count; limit respected; no lost peak |
| `ParallelComputeOperator` | entries, slots, window, input error | `Fill`, `Submit`, `Next`, `Drop`, `Close` | reading ahead of a failing input; dropped batches | same batches and failure as serial; every call returns |
| sort, top-N (exec/sort.cc, part_operators.cc) | buffered rows, threshold, shared bound | `Add`, `Compact`, `Sort`, `Merge`, `Tighten`, tasks, late fetch | stale thresholds, saturating bounds, a bound that races with merges | the window of the stable order |
| hash join (exec/join_table.cc, hash_join.cc) | build parts, two table layouts, probe position, marks | `Append`, `Build`, `Find`, the builder, `Pull`, `NextOutput`, emission of build rows | wrap-around of keys, matches cut by a batch, parts merged concurrently | exactly the join's rows and errors |
| join pipelines (exec/hash_join.cc) | prepared builds, marks, the sink | `Prepare`, `Release`, `Open`, `Next`, `Close` | nested builds that fail, parts that mark one word at once, closing early | tables live while read; no lost mark; every call returns |
| scans (exec/table_scan.cc, io/filtered_scan.cc, exec/key_filter.cc, exec/part_pruning.cc) | readers, selection, published keys | a batch column by column, pruning, key filters | columns moved behind others, readers that skip, filters of outer joins | every row that answers, no other |
| Parquet table (io/parquet_table.cc) | footers, parts, open scan | `Open`, scans of parts and of the table | files replaced between reads | nothing decoded with another file's footer |
| expressions (exec/filter.cc, compute.cc) | selection, gathered rows, compiled steps | `Filter`, `Compute`, the decimal program | which rows an argument is computed on; what may stay unchecked | the answers and failures of row-by-row SQL |
| set operations (exec/set_operation.cc, plan/binder.cc, sql/ast.cc) | groups, memberships, formula | `Open`, build of each input, emission, `Close`; the tree of a compound | inputs only looked up, bits for counts, precedence | SQL's bag algebra; inputs closed |
| grouping (exec/group_table.cc, group_aggregate.cc, grouping_sets.cc, part_operators.cc) | group tables, partitions, levels | consume, partition, route, merge, emit; fold one set into another; two-level COUNT(DISTINCT) | routed rows, first-seen keys, tables freed while others are merged from them | grouping of the whole input, for every set |
| aggregate states (exec/aggregate_state.cc, grouped_aggregate_state.cc) | accumulators of their widths | consume, merge, finish | overflow that follows the grouping of the additions, ties, NULL | the aggregate of all rows, or its failure |
| shared sub-plans and query lifecycle (plan/shared_sub_plans.cc, exec/shared_builds.cc, limit.cc, union_all.cc, engine/session.cc) | groups of equal sub-plans; the shared table, the open input | keys, substitution; `Execute`, `Open`, `Next`, `Close` | columns at other positions; a build that fails half-way | same answer; a closed query holds nothing |
| parser and unparser (sql/parser.cc, unparse.cc) | position, depth, peak, error | one per grammar rule | precedence, depth counted before the tree exists | the canonical text parses back |
| OR factoring (plan/or_factoring.cc) | none | shared conjuncts, implied IN lists | three-valued logic, empty branches | WHERE keeps the same rows |
| join order (plan/join_order.cc, binder.cc) | the table of best orders | estimates, DPccp, greedy, the join tree, semi joins pushed down | rounding to zero, saturation, residuals taken once | the block's answer, in the cheapest order |
| optimizer (plan/optimizer.cc, aggregate_placement.cc, union_branches.cc) | the plan between passes | unnesting, branches, counts, keys, limits, placement, pruning, positions | ids substituted, aggregates over no rows, errors moved past a LIMIT | same columns, answer and failure |

## Modules

A variable keeps the name of the member it stands for (`in_flight_` is `inFlight`), an action the
name of the method, or of the piece of it that runs without another thread in between.

**Running parts.**  `PartSequence` is the abstract promise: parts are delivered in order, and the
first that fails ends the run with its own failure.  `PartScheduler` is the code: `pc` is the
consumer's place in `Next` or `Stop`, `task[p]` where a part's task is, `slots[p]` a finished result.
A part has a *fate*, what it returns when run alone ("ok", "error", "oom"); next to others it may run
out of memory as well.  `under_pressure()` is an arbitrary Boolean at each call, because other
threads of the query decide it.  `Refinement` maps the scheduler to `PartSequence` (same `fate`,
`delivered`, `outcome`).  `ParallelCompute` implements the same `PartSequence` with batches for
parts.  `PartitionLanes` steps at the critical sections of its mutex, and its condition variable is
explicit: a sleeper looks again only when notified.  `GroupMerge` composes an instance of
`PartScheduler` and one of `PartitionLanes` on one executor, with the consumer's loop, the retry
hook and the choice of the failure returned.  `ForEach` is the loop over an index range that the
operators use between those phases: the serial form, submissions that fail or throw, and the
destructor that waits for what was submitted.

**Memory.**  `MemoryBudget` splits every call at its atomic operations.

**Sorting.**  `SortBuffer` is the comparator, the buffer and the threshold, as operators;
`SortOperator` and `PartTopN` are the two users.  A row is its sort keys and an identity, so that
stability is visible; the 64-bit prefix of a key is an exact or a lossy monotone map.

**Joins.**  `JoinKind` is the trait table of plan/join_kind.h.  `JoinTable` has the layouts as
operators and the life of one build; keys are signed numbers of `KeyBits` bits, so that differences
wrap.  `JoinBuilder` adds parts in any order and merges them through `PartitionLanes`.  `HashJoin`
is the probe for every kind and build side.  `JoinPipeline` is the life of nested builds around the
parts that probe them: the tree of builds is a constant, and a call of `PrepareBuilds` a frame of
`stack`.

**Scans and expressions.**  `FilteredScan` decodes a part column by column; a copied value is the
row it was decoded from, so a reader that lost its place shows; the rows of the part and of a batch
are constants.  `KeyScan` is what a scan leaves
out: parts by statistics, rows by the keys of a join's build.  `ParquetTable` is the files, which
other programs may replace.  `Expressions` runs Filter and Compute over batches and selections; the
reference evaluates one row at a time and fails only where SQL must.  `DecimalProgram` has every
path DECIMAL arithmetic can take (compiled wide, compiled narrow, node by node, a column computed
earlier), in base 2 with the digits and integer widths as constants.

**Sets, groups and aggregates.**  `SetFormula`, `SetOperation` and `SetTree` take a compound from
its branches to its rows.  `GroupAggregate` has the table of a GROUP BY as operators that give the
*set* of tables a call may end in, one for each order in which Arrow's Grouper may number the new
keys, and the serial operator and the one over parts on it.  A group's state is the identities of
the rows it took, of which every aggregate is a function; `MayRouteRows` is a choice at the start.
`GroupLevels` has the aggregations of two levels: grouping sets in one input and over parts, with
the sets that are merged from a larger one, the batches a memory limit makes and what is freed when,
and COUNT(DISTINCT) with its sample and heavy keys.  In both, parts run one after another and lanes
merge a part in one step, because `PartScheduler` and `PartitionLanes` show that parts and merges
come in part order for every interleaving.  `Aggregates` has the states themselves, with
accumulators of a few values: what each call consumes, merges and finishes, alone and per group.

**Sharing and running a query.**  `SharedSubPlans` finds repeated sub-plans and substitutes scans of
one result.  `QueryRun` runs such a query: `Session::Execute` drains SharedBuilds over LIMIT over
UNION ALL, where every call of an input may fail and the budget may refuse, and runs the next query
after it.

**From text to plan.**  `SqlParser` is the recursive descent over tokens, the canonical text, and
the factoring of a WHERE; it was compared with the repository's parser on 12,514 texts, with the
same verdict and canonical text on each; its last part states what `Parse` and `ToSql` promise each
other.  `RowEstimates`, `JoinOrder` and `JoinBlock` go from
footers to the join tree of a FROM block: relations with and without a filter of their own, units
(a LEFT JOIN of the FROM list, taken as the rows it gives), and the subqueries of WHERE, semi, anti and one-row, correlated or over a
computed column, each joined in written order over the tree or pushed onto the branch it filters.  `LogicalPlan` is the nodes of a plan, their column ids and
the resolution of positions, and the reference: the rows of a plan and whether it fails after them.
`Optimizer` is the rewrites (unnesting and the placement of aggregates first) and the passes of
`Optimize` in their order, one action each.  A rewrite ends with a plan, with a refusal
(`UnsupportedError`) or with an internal error (a free variable left in a rewritten join); a query
may be refused, and `OptimizedResolves` says that no plan ends with an internal error.

An `MC` module joins several components for one run: a variable (`running`, `pool`) chosen at the
start says which component a behaviour is one of.  The variables of an instantiated component that
does not run keep the value `Idle`; each conjunct of the module's own properties is a property of one
such component.  A component that a theorem is about is extended instead, so that the run checks the
very definition the theorem states: `PartScheduler` and `MemoryBudget` in `MCScheduling`, `JoinBuilder`,
`JoinPipeline` and `ParallelCompute` in `MCJoins`, `GroupMerge` in `MCQueryAlgebra`, `FilteredScan`
in `MCScan`, `PartitionLanes` and `ForEach` in `MCWorkerPools`.  It rests in one of its initial states when another component runs.
`MCWorkerPools` has `GroupMerge`, `ParallelCompute` and `JoinPipeline` too, for the liveness of their
calls.

## Runs

`tlc -config <cfg> <module>` in this directory; each takes less than four minutes on two workers.
Bounds are constants of the cfg or of the MC module's `INSTANCE`s.

| Run | Module, cfg | Bounds, and why they are enough | Shows |
|---|---|---|---|
| scheduling | MCScheduling, Scheduling.cfg | scheduler: 4 parts, window 3, 2 threads: a part can be delivered, awaited, finished ahead and not yet submitted at once; the window can halve and widen; budget: 2 threads, sizes to 2, limits none, 0 and 3: both threads between a charge and its comparison | type, retry alone, bounded parts, nothing left after `Stop`, every call returns, implements `PartSequence`; exact count, limit, peak |
| worker_pools | MCWorkerPools, WorkerPools.cfg | lanes: 3 parts, up to 2 lanes, 2 pending, 2 threads; merge: 2 parts, 2 lanes and fewer threads than tasks; Compute: 3 batches, window 3; pipeline: a join with a nested build, 2 parts and a build row they both may mark, 2 openings (joins has two rows in one word); ForEach: up to 3 tasks | lane order and smallest failure, no task outlives ForEach, every call returns: no deadlock of scheduler, lanes and consumer |
| joins | MCJoins, Joins.cfg | 4-bit keys at both ends of the range, 2 partitions, colliding hashes, 4 rows; 2 parts and 2 lanes; batches of 2 with up to 2 matches for each of 2 probe rows, so matches straddle a batch; pipeline: a join with a nested build, 2 parts, 2 rows in one word of marks, 2 openings; sort: 4 rows in batches of 2, both directions (and, over parts, both NULL placements), limits up to the largest integer (7), 3 parts, 2 at a time, slack 1 so that compaction happens; Compute: 4 batches, window 3 | exact table, earliest failure, parts freed after merges, exact join rows, errors surface, tables live while probed and held no longer, no lost mark; stable window, bounded buffer, top-N equals serial although parts are skipped, Compute implements `PartSequence` |
| scan | MCScan, Scan.cfg | 3 rows in batches of 2; chains of two joins of every kind; 2 files, 2 replacements; 2 batches of 2 rows with a value that fails and NULL; decimals of 3 and 5 binary digits in integers up to 9 and 40, so that a value can exceed its declared width and still fit, down to the smallest of each width | exact rows, unchanged answers, nothing decoded with another footer, lazy evaluation exact, one answer on every decimal path |
| query_algebra | MCQueryAlgebra | 3 inputs of a set operation with 3 rows in all; compounds of 4 branches, a value up to twice in one and 4 times in all; pairs of small sub-plans over 3 tables; 4 rows of 3 keys (one in two forms) in 2 parts and 2 partitions, routing after 2 rows; 3 rows of 2 key columns with NULL, colliding hashes, lists of up to 5 sets; 3 values per call around accumulators that overflow at 7, of which two leave the range of the result but not of the accumulator; 2 queries of 2 inputs, batches with rows not selected, windows inside, at the edge of and past a batch, a build past the cap; the merge of groups: 2 parts, 2 lanes and fewer threads than tasks | bag algebra, precedence, shared results, exact groups of every level, exact aggregates, exact LIMIT and nothing held after a failed query, the merge's failure is the serial one |
| query_planner | MCPlanner, QueryPlanner.cfg | texts of up to three nested operators, compounds of three, FROM items, grouping elements and ORs of up to three branches, depth limit 4; tables of two parts with values at both ends of the width; every join graph of up to four relations, filtered ones and units among them, with up to two subqueries of each kind; plans with correlated subqueries, one nested in another, unions of constants and of a branch that fails, with and without a LIMIT, groups and failing expressions below a LIMIT, aggregates over one and two joins | round trip, bounded depth, WHERE as written keeps the rows the binder plans for, estimates of zero proved, join tree and order, every pass keeps columns and answer, and failures as said below |
| top_n_bound | MCJoins, TopNBound.cfg | as joins | *violated*: see below |
| scan_filter_files | MCScan, ScanFilterFiles.cfg | as scan | *violated*: see below |
| canonical_depth | MCPlanner, CanonicalDepth.cfg | texts with IS NULL and IN before a tighter operator, depth limit 4 | *violated*: see below |
| unnest_classes | MCPlanner, UnnestClasses.cfg | plans where one outer column is compared with two inner ones | *violated*: see below |
| padded_aggregate | MCPlanner, PaddedAggregate.cfg | COUNT and SUM of COALESCE(f.x, 0) over joins that pad f | *violated*: see below |
| decimal_negation | MCScan, DecimalNegation.cfg | as scan | *violated*: see below |

The passing runs leave out what those runs are about, and no more.  query_planner has no text where IS
NULL or IN is followed by a tighter operator, no plan that compares one outer column with two columns
of the subquery, and no aggregate of an expression that is not NULL over the padding of its own join;
the same COALESCE over joins that do not pad it is there.  In scan, `DecimalsExact` excludes by name
(`NegatesTheMinimum`) the expressions that negate a value at the 64-bit minimum; the minimum itself
is one of the values of each column.

`kMinSlack` (4096 in sort.cc), `kRouteDecisionRows`, `kMaxBytes` and the like are constants of the
modules, made small so that both sides of every comparison with them occur.  `CHECK_DEADLOCK FALSE`
stands only where a component ends (a closed scheduler takes no step).  In scheduling and
worker_pools a hang before the end violates the liveness property.  `JoinBuilder`, in joins, waits
only in its `PartitionLanes`, whose calls worker_pools shows to return.

`OptimizedFailures` is stated of the passes that keep the rows an expression is computed for, once
the columns nothing reads are pruned.  Counts, keys and limits keep whether the query fails.  A
condition moved into a UNION ALL may rule out a branch, which then never runs and whose errors are
never reported, as documented (docs/sql-subset.md:1371-1373): that pass makes no query fail, and leaves unreported only the failure
of a branch that gives no row the condition keeps.  Unnesting computes some
expressions for other rows than the text names (docs/adr/0023-unnesting.md, "the engines compute some
expressions over different rows"), so `OptimizedAnswer` compares the plans that both answer.

## Fairness

`PartScheduler!FairSpec` and the specification of `MCWorkerPools` assume weak fairness of the
consumer inside a call, because the thread that entered a call keeps running, and of each submitted
task and lane, because Arrow's pool runs every task it accepted once a thread is free.  Nothing
obliges the consumer to make another call, a submission to succeed, or memory pressure to end.
Spurious wake-ups are not relied on: a sleeper of `PartitionLanes` is enabled only by a
notification.  No strong fairness is used.  The other runs check safety only.

## Proofs

`tlapm <module>.tla` checks a module's proofs, in a few minutes up to a quarter of an hour each.
Leaves that take the default prover more than a moment name their prover and its time.  Every theorem holds for all values of the
constants that satisfy the assumption named; each of those says only that the constants are numbers,
or finite sets, of the expected sign, and TLC evaluates or satisfies it in the runs.

| Theorem | Property | Of |
|---|---|---|
| `TypeCorrect`, `OrderCorrect`, `RetryAlone`, `StopComplete`, `HeldBounded` | `TypeOK`, `InOrder`, `AloneInRetry`, `NothingLeft`, `WindowBound` | `PartScheduler` |
| `Implements` | `Refinement` (to `PartSequence`) | `PartScheduler` |
| `LanesCorrect` | `LanesInOrder` | `PartitionLanes` |
| `MergeCorrect` | `MergeSameAsSerial` | `GroupMerge` |
| `BuildCorrect` | `BuiltLikeSerial` | `JoinBuilder` |
| `ComputeCorrect`, `ComputeEnds` | `ComputeRefines` (to `PartSequence`), `EndsAfterAll` | `ParallelCompute` |
| `PipelineHolds`, `PipelineExact` | `TablesHeld`, `RowsExact` | `JoinPipeline` |
| `LoopCorrect` | `LoopDecides` | `ForEach` |
| `FilteredScanExact` | `FilteredRowsExact` | `FilteredScan` |
| `Exact`, `Bounded`, `PeakCorrect` | `Accounting`, `WithinLimit`, `PeakCovers` | `MemoryBudget` |

Each proof has one lemma per action, a lemma that the first state satisfies the inductive invariant,
and one that the invariant implies the property.  The invariants, and why they are needed:

**`PartSchedulerProofs`** (`SchedulerAssumption`).  That the result of a task that gave up is never
delivered depends on when `stop` is lowered; that, on no task being live then; and that, on
`in_flight_` tracking exactly the live tasks.  `IndInv` states the chain: `FutureInv` (the futures are
consecutive parts, the reserved one last), `TaskInv` (exactly those parts and the awaited one have a
task), `SlotInv` (a result is in its slot before the task ends), `StopInv` (`stop` is up only while
dropping or stopping), `PlaceInv` (where each `pc` is in the part order), `DeliveredInv`.
`WindowBound` says where the held parts are, not only how many: all within one window of
consecutive parts.

**`PartitionLanesProofs`** (`LanesAssumption`).  `Finish` returns the failure the serial order meets
first although lanes run apart, because a lane stops only for a failure that comes before what it
would still do.  `OrderInv` says what a lane has run and has queued are, together, the parts added, in
order; `FailureInv`, that the failure kept is one of a merge that fails, and that a lane without some part
added knows a failure no later than the first it lacks; `HeldInv`, that a part's count is the number of lanes
yet to run it, which is what frees it exactly when the last has; `PlaceInv`, what each place of `Add`
and `Finish` knows across the unlock.  `Failures` are pairs, so "first" is a lexicographic minimum,
whose existence is the library's well-foundedness of `<`.

**`GroupMergeProofs`** (`Sizes`).  The composition: every step is one of the scheduler, of the lanes or
of `Merge` itself.  The lemmas of the two modules above are used through `INSTANCE`, so `MergeInv` is
their two invariants and what ties them: `HandedInv` (the parts the lanes got are those `Next` has
returned, up to the one in hand) and `StatusInv` (what `Merge` has decided, by its place, and that a
failure of the lanes and one of a part are compared in part order).

**`JoinBuilderProofs`** (`Sizes`).  The lanes' invariant again through `INSTANCE`, with `ReleaseInv`
(the parts released are a prefix; each with rows is the lane part its count of predecessors with rows
says), `CallInv` (where the builder and the lanes are) and `OutcomeInv` (what a build that failed or
ended has seen).  The serial failure is the least of the parts that could not be added, passed the row
limit or failed in a merge; the proof shows that parts added out of order and merges run apart find
the same one.

**`ParallelComputeProofs`** (the two constants are numbers).  That the batch taken is the next depends
on `EntriesInv` (`entries_` are exactly the batches read and not returned, also across a `Drop`); that
its result is its own, on `TaskInv` (a slot belongs to a task of `entries_`); that the end comes after
the last batch, on `CountInv` (`in_flight_` counts those tasks, or `Fill` could return with nothing
read).

**`JoinPipelineProofs`** (`PipelineTree`: each build is an input of one other
and none is below itself; `PipelineCounts`).  Two arguments.  *Tables*:
a call of `PrepareBuilds` further in releases builds while its callers still count on theirs.
`StackInv` says the frames of the stack are a path down the tree, each the build its caller is at, so
what lies below one frame is disjoint from what a caller is done with (`CallersApart`); `TableInv`, that
every build a frame is done with has its table unless an earlier one emptied the join, and that the
sink's are there until it ends.  `OnlyPendingProbesHold` is part of it: what is held is exactly
accounted for at each level of a failure.  *Marks*: a part may be dropped, retried or overtaken between
its load of a word and its write.  `MarkInv` says what a part matched and no longer has to mark is
marked, and each mark is a match of some part, which is why a store of the loaded word would be wrong
and the `fetch_or` is not.  `TaskInv` and `SinkInv` say when tasks can exist and that a sink that failed
or ended has none left to read what is then released.

**`ForEach`** (`MaxTasks` is a number; the proof is at the end of `ParallelComputeProofs`).  `LoopInv` relates the futures submitted, those read and the failure
found, with and without executor, at every place the call can leave from.

**`FilteredScan`** (`ScanSizes`; the theorem is in the module itself).  `BatchInv` relates, between the
columns of a batch, how far each column reader is, what it has decoded and which rows are still
selected: those that pass every filter column on the rows it was asked about so far.  A batch then
ends with every reader at the same row, whichever of them were moved over the rows no filter column
selected.  `ScanFields` puts the fields read only to filter on behind the others, so the proof needs
what `InOrder` is (an increasing enumeration of a finite set, and that of the first rows of a part
followed by those of the next batch) and that rebinding finds each filter column's own field.

**`MemoryBudget`** (`BudgetAssumption`; in the module itself).  A sum over the threads is the
cardinality of a set of bytes, which makes a call a step from one finite set to another.  `IndInv` adds
what each place of a call knows: what a call has charged still fits its buffer or reservation
(`CallInv`), and the most bytes granted so far are covered by the peak or by a call on its way to raise
it that far (`PeakInv`).

Only model-checked: all liveness (`CallsReturn`, `PoolsReturn`), which the prover does not do under
fairness; what is defined by recursion over data (sorting and top-N, join layouts and probes,
formulas, groups, aggregates, the parser, estimates, plans and their meaning), of which induction is
out of the prover's reach; and the safety of `QueryRun` and `ParquetTable`, whose properties compare
concatenations of what was read (`FlattenSeq`, a fold).

## Where the code and its comments disagree

Six runs state what a comment or a document says and are violated.

- **top_n_bound.**  exec/part_operators.cc:1504 says the top-N bound "only tightens".  With NULLS
  FIRST it can go from a value to none, when the last kept row becomes a NULL.  The rows
  returned are still right (`TopNSameAsSerial` in run joins).
- **scan_filter_files.**  io/parquet_table.cc:888 says every file has "the same leaves" as the
  first, since `Open` compared the schemas.  It compares Arrow schemas; a DECIMAL may be INT64 in one
  file and bytes in the next, and then a filtered scan that `supports_scan_filter` allowed is
  NotImplemented.
- **canonical_depth.**  sql/parser.h:13-16 says the canonical form of an accepted statement parses
  too.  `a IS NULL * a` is accepted without a level for the parentheses `ToSql` writes around
  `a IS NULL`, so at the depth limit the canonical text is rejected.
- **unnest_classes.**  plan/optimizer.h:37 promises the same answer.  With `t.k = o.k AND t.j = o.k`
  in a scalar subquery, path 2 drops both equalities, although the second becomes `t.k = t.j` and
  not `c = c`: rows with another `t.j` are aggregated.
- **padded_aggregate.**  docs/adr/0032-aggregate-placement.md:366 says of a Compute moved below the
  join with the partial aggregate that "No answer can differ".  Below a join that pads, COALESCE(f.x,
  0) is no longer evaluated for the padded rows: COUNT of it loses them, and the SUM of a group with
  no match is NULL instead of 0.  aggregate_placement.cc:794-804 argues the kinds of aggregates, not
  their arguments.
- **decimal_negation.**  exec/decimal.h:25-27 says a narrow column stores the whole value "because
  every caller has already range-checked it".  Negation checks 128 bits only (exec/compute.cc:1201), so
  of a file's value at the 64-bit minimum it stores the minimum again.

Others were met and have no run, because the answer of a query is the same:

- join_table.h:33 says every decision of a join table "depends on the data only", while the choice
  of the direct layout also asks what the budget can afford (join_table.cc:723).
- physical_planner.cc:1788 says a group of shared sub-plans "with a member inside an already-chosen
  one is left alone", while the code skips it only when a member *is* one that was replaced.
- optimizer.cc:264 and :359 say `Optimize` is idempotent.  On some plans a second application
  rewrites again.  The session optimizes once.
- or_factoring.h:53 and or_factoring_test.cc:236 say the output of the factoring "factors to
  itself".  Where a branch holds a nested OR (`c = 1 AND (a = 2 OR ...) OR c = 1 AND a = 2`), what is
  left becomes a chain of more branches, which factor further.  WHERE is factored once.
- or_factoring.h and `BindElement` say the first error reported is the element's first.  A shared
  conjunct is bound before those written before it in its branch: `(p AND s) OR (s AND q)` binds `s`
  first.
- The compiled decimal program answers NULL for a row with a NULL column where the node-by-node path
  would report an overflow in another part of the same expression.

## Not modelled

PROJECT.json lists every component with its reason.  In short:

- floating-point aggregates and functions: TLC has no such values; their states keep what the
  control reads;
- the lexer, dates, LIKE, case mapping and casts: single-call functions over characters and
  calendars, without state, which the repository's tests enumerate better than a model would;
- name resolution, literals and the typing of expressions in binder.cc and scope.cc, most of the
  binder's lines: error texts and tables of types over one traversal;
- the relation counts of relation_count.cc: a memo over one recursion, which a reference definition
  would repeat;
- the choice of physical operators and the cost gates of physical_planner.cc: any choice is right,
  and the modules take both;
- Arrow itself: its executor, Grouper and readers appear as external actions;
- formatting, profiling and the command line: input and output.

A task that throws outside the `try` of `PartScheduler`'s `Run` (inserting into the slot map
allocates) is left out: its result is taken to reach the slot.

## Plan

1. *Proofs.*  Inductive invariants for `QueryRun` (a closed query holds nothing) and `ParquetTable`
   (nothing decoded with another file's footer).
2. *Grouping in full.*  The tables of `GroupAggregate` inside `GroupMerge`, and the per-partition
   top-N of `BuildRows`.
3. *Binder.*  Scopes and name resolution over small statements, against a reference that looks names
   up by SQL's rules.
