--------------------------- MODULE MCQueryAlgebra ---------------------------
(***************************************************************************)
(* The compounds of a query, its repeated sub-plans, its groups and their  *)
(* aggregates, for one run of TLC: a behaviour is one of the set operation *)
(* operator, of the tree of a compound, of the sharing of sub-plans, of    *)
(* the grouping operators and of the merge of their parts, of the          *)
(* aggregations of two levels, of the states of an aggregate call or of a  *)
(* session running queries.  The merge is GroupMerge as it is proved, and  *)
(* rests at its start when another part runs; the variables of the others  *)
(* are then idle.                                                          *)
(***************************************************************************)
EXTENDS GroupMerge

CONSTANTS NoTable, NoFailing, Idle, Null, GroupingKeys

VARIABLES
  running,                                                            \* the component
  tree, formula, opened, built, call, returned, openInput, inputOpen, \* SetOperation
  inputs, groupTable, member, groupCopies, nextGroup, copiesLeft, batch, read, emitted,
  compound, copies, i, fold,                                          \* SetTree
  plan, table, memo, reported, groups, shared, replaced,              \* SharedSubPlans
  kind, double, routes, failing, state, part, input, grouper,         \* GroupAggregate
  tables, rows, rowsBuilt, next_table, next_chunk, emittedGroups,
  aggregate, tablePart, partRows, scalar, grouped, keys, answer,      \* Aggregates
  levelKind, shape, exact, limited, plain, failingGroup, levelState, levelPart, \* GroupLevels
  levelInput, levelTables, partial, reduce, estimate, derived, unmerged, done, levelRows,
  levelBuilt, next_entry, next_partition, sampled, heavy, heavy_table, emittedLevels,
  query, executed, place, carried, held, filled, bytes, reading, live, \* QueryRun
  current, input_open, skipped, windowed, pulled

-----------------------------------------------------------------------------
\* Two keys, one of them in two forms.
SetRows == {[key |-> "a", form |-> 0], [key |-> "a", form |-> 1], [key |-> "b", form |-> 0]}

SetOperation == INSTANCE SetOperation WITH
  Rows <- SetRows, NormalForm <- 0, MaxInputs <- 3, MaxRows <- 2, MaxAllRows <- 3,
  ChunkRows <- 1, MaxRepeatedRows <- 1, table <- groupTable, copies <- groupCopies,
  result <- returned, pending <- copiesLeft

SetTree == INSTANCE SetTree WITH MaxBranches <- 4, MaxCopies <- 2, MaxAllCopies <- 4

-----------------------------------------------------------------------------
(* Plans over one table of two columns: two sub-plans under a join, a union *)
(* or a limit, and the nested shapes.                                       *)

Plan == INSTANCE SharedSubPlans WITH Plans <- {}, Tables <- {}, MinSharedRows <- 0

Fields == {<<1>>, <<2>>, <<1, 2>>}
Scans == {Plan!Scan(f) : f \in Fields}
GroupsBy(ps) == UNION {{Plan!Group(p, k) : k \in 1 .. Plan!Width(p)} : p \in ps}

SmallSubPlans ==
  Scans \cup GroupsBy(Scans) \cup
  UNION {{Plan!Filter(p, c, 1) : c \in 1 .. Plan!Width(p)} : p \in Scans} \cup
  {Plan!Project(Plan!Group(p, 1), <<c>>) : p \in Scans, c \in 1 .. 2}

\* One aggregation by a column of each side of a self-join, and its counts.
SelfJoined == GroupsBy({Plan!Join(Plan!Scan(<<1, 2>>), Plan!Scan(f), 1, 1) : f \in Fields})

Pairs(ps) == {Plan!Join(l, r, 1, 1) : l \in ps, r \in ps}
Unions(ps) ==
  LET wide == {p \in ps : Plan!Width(p) = 2} IN {Plan!UnionAll(l, r) : l \in wide, r \in wide}

QueryPlans ==
  Pairs(SmallSubPlans) \cup Pairs(SelfJoined) \cup
  Unions(SmallSubPlans) \cup
  {Plan!Join(Plan!UnionAll(l, l), r, 1, 1) : l \in GroupsBy(Scans), r \in GroupsBy(Scans)} \cup
  {Plan!Join(Plan!Limit(l, 1), r, 1, 1) : l \in GroupsBy(Scans), r \in GroupsBy(Scans)} \cup
  {Plan!Join(Plan!Group(l, k), Plan!Join(Plan!Group(l, m), l, 1, 1), 1, 1) :
     l \in GroupsBy(Scans), k \in 1 .. 2, m \in 1 .. 2}

QueryTables == {<< <<1, 2>> >>, << <<1, 2>>, <<1, 1>> >>, << <<1, 2>>, <<2, 2>>, <<2, 1>> >>}

SharedSubPlans == INSTANCE SharedSubPlans WITH
  Plans <- QueryPlans, Tables <- QueryTables, MinSharedRows <- 2

-----------------------------------------------------------------------------
\* Three keys, one of them in two forms, in two partitions.
GroupKeys == SetRows \cup {[key |-> "c", form |-> 0]}
GroupPartition(key) == IF key.key = "b" THEN 1 ELSE 0

GroupAggregate == INSTANCE GroupAggregate WITH
  KeyForms <- GroupKeys, NormalForm <- 0, PartitionOf <- GroupPartition, NumPartitions <- 2,
  FailingKeys <- {"b"}, MaxMergeChunk <- 2, NumParts <- 2, MaxRows <- 4, MaxBatchRows <- 2,
  DecideAfter <- 2, Reduction <- 2, Threads <- 2, built <- rowsBuilt, emitted <- emittedGroups

-----------------------------------------------------------------------------
(* Two key columns with a NULL.  The lists have sets merged from one root and  *)
(* from several, a root before and after the sets merged from it, repeated     *)
(* sets and the empty set; the hashes collide, also between a column's values. *)

LevelRows == {<<1, 1>>, <<1, Null>>, <<2, 1>>}
LevelSets ==
  {<< <<1, 2>>, <<1>>, <<>> >>, << <<1>>, <<2>>, <<>>, <<1>> >>,
   << <<1>>, <<1, 2>>, <<2>>, <<1>>, <<1, 2>> >>, << <<>> >>}
LevelHash(key) ==
  LET number(v) == IF v = Null THEN 3 ELSE v
  IN  CASE Len(key) = 0 -> 0
        [] Len(key) = 1 -> number(key[1]) % 2
        [] OTHER -> (number(key[1]) + number(key[2])) % 3

GroupLevels == INSTANCE GroupLevels WITH
  NumKeys <- 2, KeyRows <- LevelRows, SetLists <- LevelSets, KeyHash <- LevelHash,
  NumPartitions <- 2, NumParts <- 2, SampleParts <- 1, MaxRows <- 3, Reduction <- 2,
  MaxAllowance <- 2, Threads <- 2, Counters <- 1, HeavyShare <- 2,
  Failing <- {[set |-> <<1>>, key |-> <<2>>], [set |-> <<>>, key |-> <<>>]},
  kind <- levelKind, failing <- failingGroup, state <- levelState, part <- levelPart,
  input <- levelInput, tables <- levelTables, pending <- unmerged, rows <- levelRows,
  built <- levelBuilt, emitted <- emittedLevels

-----------------------------------------------------------------------------
(* Accumulators of a few values, so that sums leave them; a DATE whose        *)
(* infinity has no microseconds, and doubles with NaN and both zeros; HUGEINT *)
(* sums past 38 digits within Int128, and past it.                            *)

Double(n, bits) == [nan |-> FALSE, num |-> n, bits |-> bits]

CallInputs ==
  [bigint |-> {-1, 2}, hugeint |-> {-4, 5}, narrow |-> {1},
   double |-> {Double(0, 0), Double(0, 1), Double(-1, 0), [nan |-> TRUE, num |-> 0, bits |-> 1]},
   number |-> {-1, 3}, date |-> {-3, 4, 5}, counts |-> {2, 3}]

AggregateCalls ==
  ({"sum", "avg"} \X {"bigint", "hugeint"}) \cup ({"min", "max"} \X {"double"})
    \cup ({"var_samp", "var_pop"} \X {"number"})
    \cup {<<"count_star", "bigint">>, <<"count", "bigint">>, <<"sum_counts", "counts">>,
          <<"count_distinct", "double">>, <<"avg", "date">>, <<"sum", "narrow">>}

Aggregates == INSTANCE Aggregates WITH
  AccMax <- 7, SumMax <- 6, CountMax <- 5, MicrosMax <- 7, DateInf <- 5, MicrosPerDay <- 2,
  VarMax <- 4, Calls <- AggregateCalls, Inputs <- CallInputs, Keys <- GroupingKeys, Parts <- 2,
  MaxRows <- 3, BatchRows <- 2,
  call <- aggregate, part <- tablePart, rows <- partRows

-----------------------------------------------------------------------------
(* Inputs whose batches begin, end or wholly consist of rows not selected; a  *)
(* build that fits the cap and one past it; windows that begin and end inside *)
(* a batch, at its edges and past the rows, and LIMIT 0.                      *)

BatchOf(numbers, out) ==
  [k \in DOMAIN numbers |-> [row |-> numbers[k], in |-> numbers[k] \notin out]]
Base == <<BatchOf(<<1, 2, 3, 4>>, {2}), BatchOf(<<5>>, {5}), BatchOf(<<6, 7>>, {6})>>
Builds ==
  {<<>>, <<BatchOf(<<11>>, {}), BatchOf(<<12, 13>>, {12, 13}), BatchOf(<<14, 15, 16>>, {14})>>,
   <<BatchOf(<<11, 12>>, {}), BatchOf(<<13, 14>>, {})>>}

RunQueries ==
  {[inputs |-> list, limit |-> l, offset |-> o, build |-> b] :
     list \in {<<"shared", "base">>, <<"shared", "shared">>}, l \in {0, 1, 2, 4, NoTable},
     o \in 0 .. 3, b \in Builds}
  \cup {[inputs |-> <<"base", "base">>, limit |-> l, offset |-> o, build |-> <<>>] :
          l \in {0, 2, 4}, o \in 0 .. 2}

QueryRun == INSTANCE QueryRun WITH
  Queries <- RunQueries, BaseBatches <- Base, BatchSize <- 2, MaxBytes <- 3, MaxQueries <- 2,
  NoLimit <- NoTable, NoQuery <- NoTable, emitted <- windowed, at <- place,
  status <- carried, reserved <- bytes

-----------------------------------------------------------------------------
setOperationVars ==
  <<tree, formula, opened, built, call, returned, openInput, inputOpen, inputs, groupTable,
    member, groupCopies, nextGroup, copiesLeft, batch, read, emitted>>
setTreeVars == <<compound, copies, i, fold>>
sharedSubPlansVars == <<plan, table, memo, reported, groups, shared, replaced>>
groupAggregateVars ==
  <<kind, double, routes, failing, state, part, input, grouper, tables, rows, rowsBuilt,
    next_table, next_chunk, emittedGroups>>
aggregatesVars == <<aggregate, tablePart, partRows, scalar, grouped, keys, answer>>
groupLevelsVars ==
  <<levelKind, shape, exact, limited, plain, failingGroup, levelState, levelPart, levelInput,
    levelTables, partial, reduce, estimate, derived, unmerged, done, levelRows, levelBuilt,
    next_entry, next_partition, sampled, heavy, heavy_table, emittedLevels>>
queryRunVars ==
  <<query, executed, place, carried, held, filled, bytes, reading, live, current, input_open,
    skipped, windowed, pulled>>

\* The variables of a component that is not running.
IdleSetOperation ==
  /\ tree = Idle /\ formula = Idle /\ opened = Idle /\ built = Idle /\ call = Idle
  /\ returned = Idle /\ openInput = Idle /\ inputOpen = Idle /\ inputs = Idle
  /\ groupTable = Idle /\ member = Idle /\ groupCopies = Idle /\ nextGroup = Idle
  /\ copiesLeft = Idle /\ batch = Idle /\ read = Idle /\ emitted = Idle

IdleSetTree == compound = Idle /\ copies = Idle /\ i = Idle /\ fold = Idle

IdleSharedSubPlans ==
  /\ plan = Idle /\ table = Idle /\ memo = Idle /\ reported = Idle
  /\ groups = Idle /\ shared = Idle /\ replaced = Idle

IdleGroupAggregate ==
  /\ kind = Idle /\ double = Idle /\ routes = Idle /\ failing = Idle /\ state = Idle
  /\ part = Idle /\ input = Idle /\ grouper = Idle /\ tables = Idle /\ rows = Idle
  /\ rowsBuilt = Idle /\ next_table = Idle /\ next_chunk = Idle /\ emittedGroups = Idle

IdleAggregates ==
  /\ aggregate = Idle /\ tablePart = Idle /\ partRows = Idle /\ scalar = Idle
  /\ grouped = Idle /\ keys = Idle /\ answer = Idle

IdleGroupLevels ==
  /\ levelKind = Idle /\ shape = Idle /\ exact = Idle /\ limited = Idle /\ plain = Idle
  /\ failingGroup = Idle /\ levelState = Idle /\ levelPart = Idle /\ levelInput = Idle
  /\ levelTables = Idle /\ partial = Idle /\ reduce = Idle /\ estimate = Idle
  /\ derived = Idle /\ unmerged = Idle /\ done = Idle /\ levelRows = Idle
  /\ levelBuilt = Idle /\ next_entry = Idle /\ next_partition = Idle /\ sampled = Idle
  /\ heavy = Idle /\ heavy_table = Idle /\ emittedLevels = Idle

IdleQueryRun ==
  /\ query = Idle /\ executed = Idle /\ place = Idle /\ carried = Idle /\ held = Idle
  /\ filled = Idle /\ bytes = Idle /\ reading = Idle /\ live = Idle /\ current = Idle
  /\ input_open = Idle /\ skipped = Idle /\ windowed = Idle /\ pulled = Idle

\* The merge before its first part: every part and every merge succeeds, without an executor.
RestingMerge ==
  /\ executor = FALSE
  /\ fate = [p \in S!Parts |-> "ok"]
  /\ numLanes = NumLanes
  /\ mergeable = [f \in L!Failures |-> TRUE]
  /\ Init

AlgebraInit ==
  \/ /\ running = "GroupMerge" /\ Init
     /\ IdleSetOperation /\ IdleSetTree /\ IdleSharedSubPlans /\ IdleGroupAggregate
     /\ IdleGroupLevels /\ IdleAggregates /\ IdleQueryRun
  \/ /\ running = "SetOperation" /\ SetOperation!Init /\ RestingMerge
     /\ IdleSetTree /\ IdleSharedSubPlans /\ IdleGroupAggregate /\ IdleGroupLevels
     /\ IdleAggregates /\ IdleQueryRun
  \/ /\ running = "SetTree" /\ SetTree!Init /\ RestingMerge
     /\ IdleSetOperation /\ IdleSharedSubPlans /\ IdleGroupAggregate /\ IdleGroupLevels
     /\ IdleAggregates /\ IdleQueryRun
  \/ /\ running = "SharedSubPlans" /\ SharedSubPlans!Init /\ RestingMerge
     /\ IdleSetOperation /\ IdleSetTree /\ IdleGroupAggregate /\ IdleGroupLevels
     /\ IdleAggregates /\ IdleQueryRun
  \/ /\ running = "GroupAggregate" /\ GroupAggregate!Init /\ RestingMerge
     /\ IdleSetOperation /\ IdleSetTree /\ IdleSharedSubPlans /\ IdleGroupLevels
     /\ IdleAggregates /\ IdleQueryRun
  \/ /\ running = "GroupLevels" /\ GroupLevels!Init /\ RestingMerge
     /\ IdleSetOperation /\ IdleSetTree /\ IdleSharedSubPlans /\ IdleGroupAggregate
     /\ IdleAggregates /\ IdleQueryRun
  \/ /\ running = "Aggregates" /\ Aggregates!Init /\ RestingMerge
     /\ IdleSetOperation /\ IdleSetTree /\ IdleSharedSubPlans /\ IdleGroupAggregate
     /\ IdleGroupLevels /\ IdleQueryRun
  \/ /\ running = "QueryRun" /\ QueryRun!Init /\ RestingMerge
     /\ IdleSetOperation /\ IdleSetTree /\ IdleSharedSubPlans /\ IdleGroupAggregate
     /\ IdleGroupLevels /\ IdleAggregates

\* A merge that is over, its scheduler gone, stays so.
Merged == at = "closing" /\ spc = "closed" /\ UNCHANGED vars

GroupMergeStep ==
  /\ running = "GroupMerge"
  /\ Next \/ Merged
  /\ UNCHANGED <<running, setOperationVars, setTreeVars, sharedSubPlansVars, groupAggregateVars,
                groupLevelsVars, aggregatesVars, queryRunVars>>

SetOperationStep ==
  /\ running = "SetOperation"
  /\ SetOperation!Next
  /\ UNCHANGED <<running, vars, setTreeVars, sharedSubPlansVars, groupAggregateVars,
                groupLevelsVars, aggregatesVars, queryRunVars>>

SetTreeStep ==
  /\ running = "SetTree"
  /\ SetTree!Next
  /\ UNCHANGED <<running, vars, setOperationVars, sharedSubPlansVars, groupAggregateVars,
                groupLevelsVars, aggregatesVars, queryRunVars>>

SharedSubPlansStep ==
  /\ running = "SharedSubPlans"
  /\ SharedSubPlans!Next
  /\ UNCHANGED <<running, vars, setOperationVars, setTreeVars, groupAggregateVars,
                groupLevelsVars, aggregatesVars, queryRunVars>>

GroupAggregateStep ==
  /\ running = "GroupAggregate"
  /\ GroupAggregate!Next
  /\ UNCHANGED <<running, vars, setOperationVars, setTreeVars, sharedSubPlansVars,
                groupLevelsVars, aggregatesVars, queryRunVars>>

GroupLevelsStep ==
  /\ running = "GroupLevels"
  /\ GroupLevels!Next
  /\ UNCHANGED <<running, vars, setOperationVars, setTreeVars, sharedSubPlansVars,
                groupAggregateVars, aggregatesVars, queryRunVars>>

AggregatesStep ==
  /\ running = "Aggregates"
  /\ Aggregates!Next
  /\ UNCHANGED <<running, vars, setOperationVars, setTreeVars, sharedSubPlansVars,
                groupAggregateVars, groupLevelsVars, queryRunVars>>

QueryRunStep ==
  /\ running = "QueryRun"
  /\ QueryRun!Next
  /\ UNCHANGED <<running, vars, setOperationVars, setTreeVars, sharedSubPlansVars,
                groupAggregateVars, groupLevelsVars, aggregatesVars>>

AlgebraNext ==
  \/ GroupMergeStep
  \/ SetOperationStep
  \/ SetTreeStep
  \/ SharedSubPlansStep
  \/ GroupAggregateStep
  \/ GroupLevelsStep
  \/ AggregatesStep
  \/ QueryRunStep

algebraVars ==
  <<running, vars, setOperationVars, setTreeVars, sharedSubPlansVars, groupAggregateVars,
    groupLevelsVars, aggregatesVars, queryRunVars>>

AlgebraSpec == AlgebraInit /\ [][AlgebraNext]_algebraVars

-----------------------------------------------------------------------------
\* SetOperationOperator returns the rows of SQL's bag algebra in their promised order and
\* form, marks groups within the memberships it has, its row estimate is a bound, and it
\* holds one input's resources at a time and none once closed.
SetRowsExact ==
  running = "SetOperation" =>
    /\ SetOperation!MembershipsCover
    /\ SetOperation!RowsExact
    /\ SetOperation!EstimateCovers
    /\ SetOperation!InputsClosed

\* SetOperationTree makes maximal runs, and the plan of its tree returns each row as often
\* as the compound as written.
PlanMeansCompound == running = "SetTree" => SetTree!MaximalRuns /\ SetTree!PlanMeansCompound

\* One computed result serves every member of a group that SharedSubPlans reports, no
\* group is reported for members that are all computed by another, and BuildPhysicalPlan's
\* plan over the shared results returns the rows of the plan as it was.  Running it, a query
\* answers the rows of its LIMIT over its inputs or fails, reads no shared result that is not
\* whole, and once closed holds no input and no memory, whichever call failed.
SharedAnswer ==
  /\ running = "SharedSubPlans" =>
       /\ SharedSubPlans!OneResultServes
       /\ SharedSubPlans!NeverWhollyNested
       /\ SharedSubPlans!SameAnswer
  /\ running = "QueryRun" =>
       /\ QueryRun!ReturnsItsRows
       /\ QueryRun!ClosedHoldsNothing
       /\ QueryRun!OneInputAtATime

\* GROUP BY over parts and over one input returns each group once, its key as in its first
\* row, its rows taken once and in order, and no row at all if a group fails to finalize.
\* GROUPING SETS return the groups of each set of the list, whichever set was merged from
\* which, and COUNT(DISTINCT) in two levels counts every group once, heavy or light.
GroupsExact ==
  /\ running = "GroupAggregate" => GroupAggregate!GroupsExact /\ GroupAggregate!FailsBeforeRows
  /\ running = "GroupLevels" =>
       GroupLevels!SetsExact /\ GroupLevels!SetsFailFirst /\ GroupLevels!DistinctExact

\* However the rows are cut into batches and parts, the merged states of an aggregate call
\* answer what the call means over all of them, alone and per group, and fail exactly when
\* that has no value or a checked sum leaves its accumulator; and the calls that may be merged
\* from finer groups answer the same from them in any order.
AggregatesExact ==
  running = "Aggregates" =>
    /\ Aggregates!MergedStatesExact
    /\ Aggregates!MergedGroupsExact
    /\ Aggregates!ExactMerges
=============================================================================
