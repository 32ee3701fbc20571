------------------------------- MODULE MCJoins -------------------------------
(***************************************************************************)
(* The hash join and the operators of ORDER BY, for one run of TLC: a      *)
(* behaviour is one of the build table itself (its parts, both layouts,    *)
(* its lookups), of the builder that merges the parts on the executor, of  *)
(* the probe, of a pipeline of joins with its builds, of ORDER BY over one *)
(* input, of top-N over the parts of a table, or of the Compute that runs  *)
(* over a sort.  The builder, the pipeline and the Compute are those of    *)
(* the proofs, and rest at their start when another one runs; the          *)
(* variables of the others are then idle.                                  *)
(***************************************************************************)
EXTENDS JoinBuilder, JoinPipeline, ParallelCompute

CONSTANTS
  Null, Idle, root, outer, inner, nested,
  NoValue, MaxInt64, MinSlack   \* SortBuffer

\* Where SQL's NULL and the bounds of SortBuffer live in the numbers.
ASSUME SortConstants == MaxInt64 \in Nat /\ MinSlack \in Nat /\ Null \notin Int

VARIABLES
  component,                                                       \* the one that runs
  spec, buildParts, input, table,                                  \* JoinTable
  kind, side, residual, batchSize, buildRows, nulls, ppc, keep, batch, verdict, probeWindow, slot,
  evaluated, passed, rowPassed, probeMarks, tail, probeOut, probeOpened, matched,  \* HashJoin
  cmp, limit, offset,                                              \* both sorts
  state, buffer, from, end, sortInput, sorted,                     \* SortOperator
  data, stats, topTask, topResult, bound, merges, taken, answer    \* PartTopN

\* Hashes with a partition bit, a bucket bit and a bit above it; -8 and 5 collide.
SmallHash(key) == IF key = 5 THEN 0 ELSE (key + 8) % 8

\* Both layouts, with and without the rows of NULL keys, and the keyless build.
SomeSpecs ==
  {[direct_candidate |-> b, keep_null_keys |-> b, keyless |-> FALSE] : b \in BOOLEAN}
    \cup {[direct_candidate |-> FALSE, keep_null_keys |-> FALSE, keyless |-> TRUE]}

JoinTable == INSTANCE JoinTable WITH
  KeyBits <- 4, NumPartitions <- 2, HashOf <- SmallHash, DirectSlots <- 2, SparseSlots <- 4,
  Keys <- {Null, -8, -7, 5, 7}, NumParts <- 2, MaxRows <- 4, MaxBatch <- 2, Specs <- SomeSpecs,
  parts <- buildParts

HashJoin == INSTANCE HashJoin WITH
  Keys <- {1, 2}, MaxSameKey <- 2, MaxBuildRows <- 3, MaxProbeRows <- 2, BatchSizes <- {2},
  ValuesRows <- 1, rows <- buildRows, pc <- ppc, window <- probeWindow, marks <- probeMarks,
  out <- probeOut, opened <- probeOpened

\* A pipeline with two joins, the outer of which builds from a pipeline with a join of its own.
TwoJoins ==
  [b \in {root, outer, inner, nested} |->
     CASE b = root -> <<outer, inner>>
       [] b = outer -> <<nested>>
       [] OTHER -> <<>>]

\* Every pair of direction, NULL placement and exactness.
AllComparators ==
  {[keys |-> <<[descending |-> d, nulls_first |-> n], [descending |-> n, nulls_first |-> d]>>,
    exact |-> (d = n)] : d, n \in BOOLEAN}

\* Both directions and both exactnesses.
TwoComparators == {c \in AllComparators : ~c.keys[1].nulls_first}

\* One row, or two, among them ties, NULLs and values apart.
SomePartRows == {<<<<Null, 0>>>>, <<<<0, 0>>>>, <<<<1, 0>>>>, <<<<1, 1>>, <<1, 0>>>>,
                 <<<<2, 0>>, <<0, 1>>>>, <<<<Null, 1>>, <<2, 0>>>>}

SortOperator == INSTANCE SortOperator WITH
  Comparators <- TwoComparators, Values <- {Null, 0, 1}, Ties <- {0, 1},
  Windows <- {<<NoValue, 1>>, <<1, 0>>, <<MaxInt64, 1>>},
  BatchSize <- 2, MaxRows <- 4, MaxBatch <- 2,
  next <- from, input <- sortInput, output <- sorted

PartTopN == INSTANCE PartTopN WITH
  Comparators <- AllComparators, Windows <- {<<1, 0>>, <<1, 1>>, <<MaxInt64, 1>>},
  PartRows <- SomePartRows, NumParts <- 3, Window <- 2,
  task <- topTask, result <- topResult, merged <- merges, output <- answer

-----------------------------------------------------------------------------
tableVars == <<spec, buildParts, input, table>>
probeVars ==
  <<kind, side, residual, batchSize, buildRows, nulls, ppc, keep, batch, verdict, probeWindow, slot,
    evaluated, passed, rowPassed, probeMarks, tail, probeOut, probeOpened, matched>>
windowVars == <<cmp, limit, offset>>
sortVars == <<state, buffer, from, end, sortInput, sorted>>
topNVars == <<data, stats, topTask, topResult, bound, merges, taken, answer>>
allSortVars == <<windowVars, sortVars, topNVars, computeVars>>
joinVars == <<vars, pipelineVars, tableVars, probeVars>>
joinsVars == <<component, joinVars, allSortVars>>

IdleTable == spec = Idle /\ buildParts = Idle /\ input = Idle /\ table = Idle

\* The builder before any call: no parts to add, no executor, merges that succeed.
RestingBuilder ==
  /\ rows = [p \in Parts |-> 0]
  /\ executor = FALSE
  /\ numLanes = NumLanes
  /\ mergeable = [f \in L!Failures |-> TRUE]
  /\ Init

\* The operator before Open, whose parts would match nothing.
RestingPipeline ==
  /\ sink = "union"
  /\ matches = [p \in PartIds |-> {}]
  /\ PipelineInit

IdleProbe ==
  /\ kind = Idle /\ side = Idle /\ residual = Idle /\ batchSize = Idle /\ buildRows = Idle
  /\ nulls = Idle /\ ppc = Idle /\ keep = Idle /\ batch = Idle /\ verdict = Idle
  /\ probeWindow = Idle /\ slot = Idle /\ evaluated = Idle /\ passed = Idle /\ rowPassed = Idle
  /\ probeMarks = Idle /\ tail = Idle /\ probeOut = Idle /\ probeOpened = Idle /\ matched = Idle

IdleWindow == cmp = Idle /\ limit = Idle /\ offset = Idle
IdleSort ==
  /\ state = Idle /\ buffer = Idle /\ from = Idle /\ end = Idle
  /\ sortInput = Idle /\ sorted = Idle
IdleTopN ==
  /\ data = Idle /\ stats = Idle /\ topTask = Idle /\ topResult = Idle
  /\ bound = Idle /\ merges = Idle /\ taken = Idle /\ answer = Idle

\* The Compute before its first batch: every batch succeeds, without an executor.
RestingCompute ==
  /\ parallel = FALSE
  /\ fate = [b \in Batches |-> "ok"]
  /\ inputFails = NumBatches
  /\ ComputeInit

NoJoin == RestingBuilder /\ RestingPipeline /\ IdleTable /\ IdleProbe
NoSort == IdleWindow /\ IdleSort /\ IdleTopN /\ RestingCompute

JoinsInit ==
  \/ /\ component = "JoinTable" /\ JoinTable!Init
     /\ RestingBuilder /\ RestingPipeline /\ IdleProbe /\ NoSort
  \/ component = "JoinBuilder" /\ Init /\ RestingPipeline /\ IdleTable /\ IdleProbe /\ NoSort
  \/ /\ component = "JoinPipeline" /\ PipelineInit
     /\ RestingBuilder /\ IdleTable /\ IdleProbe /\ NoSort
  \/ /\ component = "HashJoin" /\ HashJoin!Init
     /\ RestingBuilder /\ RestingPipeline /\ IdleTable /\ NoSort
  \/ component = "SortOperator" /\ SortOperator!Init /\ IdleTopN /\ RestingCompute /\ NoJoin
  \/ component = "PartTopN" /\ PartTopN!Init /\ IdleSort /\ RestingCompute /\ NoJoin
  \/ component = "ParallelCompute" /\ ComputeInit /\ IdleWindow /\ IdleSort /\ IdleTopN /\ NoJoin

JoinTableStep ==
  /\ component = "JoinTable" /\ JoinTable!Next
  /\ UNCHANGED <<component, vars, pipelineVars, probeVars, allSortVars>>

JoinBuilderStep ==
  /\ component = "JoinBuilder" /\ Next
  /\ UNCHANGED <<component, pipelineVars, tableVars, probeVars, allSortVars>>

JoinPipelineStep ==
  /\ component = "JoinPipeline" /\ PipelineNext
  /\ UNCHANGED <<component, vars, tableVars, probeVars, allSortVars>>

HashJoinStep ==
  /\ component = "HashJoin" /\ HashJoin!Next
  /\ UNCHANGED <<component, vars, pipelineVars, tableVars, allSortVars>>

SortOperatorStep ==
  /\ component = "SortOperator" /\ SortOperator!Next
  /\ UNCHANGED <<component, joinVars, topNVars, computeVars>>

PartTopNStep ==
  /\ component = "PartTopN" /\ PartTopN!Next
  /\ UNCHANGED <<component, joinVars, sortVars, computeVars>>

ParallelComputeStep ==
  /\ component = "ParallelCompute" /\ ComputeNext
  /\ UNCHANGED <<component, joinVars, windowVars, sortVars, topNVars>>

JoinsNext ==
  \/ JoinTableStep \/ JoinBuilderStep \/ JoinPipelineStep \/ HashJoinStep
  \/ SortOperatorStep \/ PartTopNStep \/ ParallelComputeStep

JoinsSpec == JoinsInit /\ [][JoinsNext]_joinsVars

-----------------------------------------------------------------------------
\* A finished JoinTable keeps and finds exactly the rows of its input, in both layouts,
\* knows whether its keys are unique, and BuildDirect's tasks write different entries.
TableExact ==
  component = "JoinTable" =>
    /\ JoinTable!TasksDisjoint /\ JoinTable!UniqueCorrect
    /\ JoinTable!KeepsEveryRow /\ JoinTable!FindsEveryRow

\* A residual that fails on a pair fails the join, whatever the batch size.
ErrorsSurface == component = "HashJoin" => HashJoin!ErrorsSurface

\* HashJoinOperator hands on exactly the join's rows of every probe batch, marks exactly
\* the matched build rows, and emits exactly those the kind keeps after the probe; a probe
\* that is never opened could not have given it a row.
JoinExact ==
  component = "HashJoin" =>
    /\ HashJoin!BatchExact
    /\ HashJoin!MarksExact
    /\ HashJoin!TailExact
    /\ HashJoin!UnreadProbe

\* SortOperator emits exactly the LIMIT/OFFSET window of the stably sorted input; while it
\* reads, SortBuffer holds every row it will need, and a top-N no more than LIMIT + OFFSET
\* rows and its slack.
WindowCorrect ==
  component = "SortOperator" =>
    /\ SortOperator!WindowCorrect
    /\ SortOperator!KeepsTheFirst
    /\ SortOperator!MemoryBounded

\* PartTopNOperator emits the window a single sort of all the rows gives, and no part that
\* a task skipped by its bound holds a row of it.
TopNSameAsSerial ==
  component = "PartTopN" => PartTopN!SkipsNothingWanted /\ PartTopN!SameAsSerial

\* "The bound only tightens" (part_operators.cc): a part the bound rules out stays ruled
\* out by every later bound.
BoundOnlyTightens == [][component = "PartTopN" => PartTopN!BoundTightens]_joinsVars
=============================================================================
