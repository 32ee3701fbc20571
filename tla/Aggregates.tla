----------------------------- MODULE Aggregates -----------------------------
(***************************************************************************)
(* An aggregate call over a table read in parts: each part feeds its rows, *)
(* batch by batch, to its own state, and the parts' states are merged in   *)
(* part order.  The call runs twice side by side: without GROUP BY         *)
(* (AggregateSet, PartAggregateOperator) and with one (GroupTable), where  *)
(* the groups' ids are given in the order a part first sees the keys and   *)
(* the merge is one table or one table per partition of the keys.  With a  *)
(* HUGEINT or DECIMAL argument the query also asks for the other of SUM    *)
(* and AVG, which reads the first's accumulator.  Parts do not share       *)
(* state, so they run here one after the other.                            *)
(***************************************************************************)
EXTENDS Integers, Sequences, FiniteSets, Functions

-----------------------------------------------------------------------------
(***************************************************************************)
(* The partial states of the aggregate calls without GROUP BY: what each   *)
(* class of aggregate_state.cc does with a batch, with another part's      *)
(* state and at the end.  A state is one record with the fields of every   *)
(* class; a class reads and writes its own.  A row is a value, NULL        *)
(* included, and whether the batch's selection keeps it.                   *)
(*                                                                         *)
(* Int128 is the range -AccMax-1 .. AccMax and the 38-digit results are    *)
(* -SumMax .. SumMax inside it; BIGINT results are -CountMax .. CountMax;  *)
(* a TIMESTAMP is -MicrosMax .. MicrosMax.  A DOUBLE is a record: whether  *)
(* it is NaN, its number, and the bits that two equal values may differ    *)
(* in (the sign of zero, the payload of NaN).  Rounding of DOUBLE          *)
(* arithmetic is left out: averages and moments are exact fractions.       *)
(***************************************************************************)

CONSTANTS Null,       \* the NULL of a column, and of a result
          AccMax,     \* the largest Int128
          SumMax,     \* the largest 38-digit number
          CountMax,   \* the largest BIGINT
          MicrosMax,  \* the largest TIMESTAMP
          DateInf,    \* the DATE that stands for infinity
          MicrosPerDay,
          VarMax      \* the largest finite DOUBLE a variance may be

\* A result: a value (NULL included), or the error that fails the query.
Value(v) == [ok |-> TRUE, v |-> v]
Failure == [ok |-> FALSE, v |-> Null]

Fits128(n) == n \in (-AccMax - 1)..AccMax
Wrap128(n) == ((n + AccMax + 1) % (2 * AccMax + 2)) - AccMax - 1

\* Exact fractions, in lowest terms with a positive denominator.
RECURSIVE Gcd(_, _)
Gcd(a, b) == IF b = 0 THEN a ELSE Gcd(b, a % b)
Abs(n) == IF n < 0 THEN -n ELSE n
Ratio(n, d) == LET g == Gcd(Abs(n), d) IN <<n \div g, d \div g>>
Plus(p, q) == Ratio(p[1] * q[2] + q[1] * p[2], p[2] * q[2])
Minus(p, q) == Plus(p, <<-q[1], q[2]>>)
Times(p, q) == Ratio(p[1] * q[1], p[2] * q[2])
Over(p, n) == Ratio(p[1], p[2] * n)

NewState == [count |-> 0, sum |-> 0, failed |-> FALSE, keys |-> {},
             best |-> Null, mean |-> <<0, 1>>, dsq |-> <<0, 1>>]

\* The rows a state sees: selected, and for all but COUNT(*) and
\* COUNT(DISTINCT) with a value.
SelectedRows(rows) == SelectSeq(rows, LAMBDA r : r.sel)
RowMask(rows) ==
  LET kept == SelectSeq(rows, LAMBDA r : r.sel /\ r.v # Null)
  IN [i \in DOMAIN kept |-> kept[i].v]

RECURSIVE Total(_)
Total(vals) == IF vals = <<>> THEN 0 ELSE Head(vals) + Total(Tail(vals))

\* One value after another into a state, by the class's own step.
RECURSIVE Each(_, _, _)
Each(Step(_, _), s, vals) ==
  IF vals = <<>> THEN s ELSE Each(Step, Step(s, Head(vals)), Tail(vals))

-----------------------------------------------------------------------------
\* COUNT(*), COUNT(c) and the SUM of counts that a rewritten COUNT becomes.
CountStarConsume(s, rows) == [s EXCEPT !.count = @ + Len(SelectedRows(rows))]
CountConsume(s, vals) == [s EXCEPT !.count = @ + Len(vals)]
CountMerge(s, o) == [s EXCEPT !.count = @ + o.count]
CountFinalize(s) == Value(s.count)

SumCountsConsume(s, vals) == [s EXCEPT !.sum = @ + Total(vals)]
SumCountsMerge(s, o) == [s EXCEPT !.sum = @ + o.sum]
SumCountsFinalize(s) == IF Abs(s.sum) <= CountMax THEN Value(s.sum) ELSE Failure

\* COUNT(DISTINCT c): the distinct keys, NULL among them, one key for the two
\* zeros and one for every NaN.
NormalizeDoubleKey(v) == IF v = Null THEN Null ELSE [v EXCEPT !.bits = 0]
CountDistinctConsume(s, rows) ==
  [s EXCEPT !.keys = @ \cup {NormalizeDoubleKey(SelectedRows(rows)[i].v) :
                               i \in DOMAIN SelectedRows(rows)}]
CountDistinctMerge(s, o) == [s EXCEPT !.keys = @ \cup o.keys]
CountDistinctFinalize(s) == Value(Cardinality(s.keys \ {Null}))

\* SUM and AVG of an integer column: too few rows exist to leave 128 bits.
OneSum(n) == IF Abs(n) <= SumMax THEN Value(n) ELSE Failure
IntegerSumConsume(s, vals) ==
  [s EXCEPT !.sum = @ + Total(vals), !.count = @ + Len(vals)]
IntegerSumMerge(s, o) == [s EXCEPT !.sum = @ + o.sum, !.count = @ + o.count]
IntegerSumFinalize(avg, s) ==
  IF s.count = 0 THEN Value(Null)
  ELSE IF avg THEN Value(Ratio(s.sum, s.count)) ELSE OneSum(s.sum)

\* AVG of dates: a DATE outside the TIMESTAMP range fails the query, except
\* its infinities, which are the TIMESTAMP's.
TemporalMicros(d) ==
  CASE Abs(d) = DateInf -> Value(IF d > 0 THEN MicrosMax ELSE -MicrosMax)
    [] Abs(d) # DateInf /\ Abs(d * MicrosPerDay) <= MicrosMax -> Value(d * MicrosPerDay)
    [] OTHER -> Failure
TemporalStep(s, d) ==
  IF s.failed \/ ~TemporalMicros(d).ok THEN [s EXCEPT !.failed = TRUE]
  ELSE [s EXCEPT !.sum = @ + TemporalMicros(d).v, !.count = @ + 1]
TemporalAvgConsume(s, vals) == Each(TemporalStep, s, vals)
TemporalAvgMerge(s, o) == [s EXCEPT !.sum = @ + o.sum, !.count = @ + o.count]
\* The quotient and the remainder truncate toward zero, as C++ divides.
Truncated(n, d) == IF n < 0 THEN -((-n) \div d) ELSE n \div d
AverageMicros(sum, count) ==
  LET q == Truncated(sum, count)
  IN IF 2 * (sum - q * count) > count THEN q + 1 ELSE q
TemporalAvgFinalize(s) ==
  Value(IF s.count = 0 THEN Null ELSE AverageMicros(s.sum, s.count))

\* SUM and AVG of HUGEINT and DECIMAL: every addition is checked, and the first
\* that leaves 128 bits fails the query.
HugeIntStep(s, v) ==
  IF s.failed \/ ~Fits128(s.sum + v) THEN [s EXCEPT !.failed = TRUE]
  ELSE [s EXCEPT !.sum = @ + v]
HugeIntSumConsume(s, vals) ==
  [Each(HugeIntStep, s, vals) EXCEPT !.count = @ + Len(vals)]
HugeIntSumMergeUnchecked(s, o) ==
  [s EXCEPT !.sum = Wrap128(@ + o.sum), !.count = @ + o.count]
HugeIntSumMerge(s, o) ==
  IF Fits128(s.sum + o.sum)
  THEN [s EXCEPT !.sum = @ + o.sum, !.count = @ + o.count]
  ELSE [s EXCEPT !.failed = TRUE]
HugeIntSumFinalize(avg, s) ==
  IF s.count = 0 THEN Value(Null)
  ELSE IF avg THEN Value(Ratio(s.sum, s.count)) ELSE OneSum(s.sum)

\* SUM and AVG of a DOUBLE column, in row order.
DoubleSumConsume(s, vals) ==
  [s EXCEPT !.sum = @ + Total(vals), !.count = @ + Len(vals)]
DoubleSumMerge(s, o) == [s EXCEPT !.sum = @ + o.sum, !.count = @ + o.count]
DoubleSumFinalize(avg, s) ==
  Value(IF s.count = 0 THEN Null ELSE IF avg THEN Ratio(s.sum, s.count) ELSE s.sum)

\* The variance family: running moments, combined part by part.
AddValue(s, v) ==
  LET n == s.count + 1
      diff == Over(Minus(<<v, 1>>, s.mean), n)
      mean == Plus(s.mean, diff)
      inc == Times(Minus(<<v, 1>>, mean), Minus(<<v, 1>>, s.mean))
  IN [s EXCEPT !.count = n, !.mean = mean, !.dsq = Plus(@, inc)]
Combine(source, target) ==
  CASE target.count = 0 -> [target EXCEPT !.count = source.count, !.mean = source.mean,
                                          !.dsq = source.dsq]
    [] target.count # 0 /\ source.count = 0 -> target
    [] OTHER ->
         LET n == target.count + source.count
             delta == Minus(source.mean, target.mean)
             both == Plus(Times(<<source.count, 1>>, source.mean),
                          Times(<<target.count, 1>>, target.mean))
             shift == Over(Times(Times(delta, delta),
                                 <<source.count * target.count, 1>>), n)
         IN [target EXCEPT !.count = n, !.mean = Over(both, n),
                           !.dsq = Plus(Plus(source.dsq, @), shift)]
VarianceConsume(s, vals) == Each(AddValue, s, vals)
VarianceMerge(s, o) == Combine(o, s)
FinalizeVariance(sample, s) ==
  CASE s.count = 0 \/ (sample /\ s.count = 1) -> Value(Null)
    [] ~sample /\ s.count = 1 -> Value(<<0, 1>>)
    [] OTHER -> LET var == Over(s.dsq, IF sample THEN s.count - 1 ELSE s.count)
                IN IF var[1] <= VarMax * var[2] THEN Value(var) ELSE Failure

\* MIN and MAX: the extreme of each batch, which is NaN only when every value
\* is, offered to the best so far.
Better(min, a, b) == IF min THEN a.num < b.num ELSE a.num > b.num
MinMaxOf(min, vals) ==
  LET real == {i \in DOMAIN vals : ~vals[i].nan}
  IN IF vals = <<>> THEN Null
     ELSE IF real = {} THEN vals[1]
     ELSE vals[CHOOSE i \in real : \A j \in real : ~Better(min, vals[j], vals[i])]
Offer(min, s, v) ==
  IF v = Null \/ (s.best # Null /\ ~s.best.nan /\ (v.nan \/ ~Better(min, v, s.best)))
  THEN s ELSE [s EXCEPT !.best = v]
MinMaxConsume(min, s, vals) == Offer(min, s, MinMaxOf(min, vals))
MinMaxMerge(min, s, o) == IF o.best = Null THEN s ELSE Offer(min, s, o.best)
MinMaxFinalize(s) == Value(s.best)

-----------------------------------------------------------------------------
(***************************************************************************)
(* The per-group accumulators of grouped_aggregate_state.cc.  A state is   *)
(* the sequence of its groups' accumulators, in the record of              *)
(* AggregateState, and for COUNT(DISTINCT) the distinct (group, value)     *)
(* pairs in the order they were first seen.  Rows come as values with the  *)
(* group id of each; MergeGroups takes group from[i] of another state into *)
(* group to[i] of this one.                                                *)
(***************************************************************************)

NewGrouped == [groups |-> <<>>, pairs |-> <<>>, failed |-> FALSE]
Resize(g, n) ==
  [g EXCEPT !.groups = [i \in 1..n |-> IF i <= Len(@) THEN @[i] ELSE NewState]]

\* CheckRows and SameKind: group ids within the state, one target per source.
IdsInRange(g, ids) == \A i \in DOMAIN ids : ids[i] \in DOMAIN g.groups
SameKind(g, o, from, to) ==
  /\ Len(from) = Len(to)
  /\ IdsInRange(o, from) /\ IdsInRange(g, to)

\* The rows, or the merged groups, one after another into their groups.
RECURSIVE AddEach(_, _, _, _)
AddEach(Add(_, _), groups, vals, ids) ==
  IF ids = <<>> THEN groups
  ELSE AddEach(Add, [groups EXCEPT ![Head(ids)] = Add(@, Head(vals))],
               Tail(vals), Tail(ids))
EachRow(Add(_, _), g, vals, ids) ==
  LET groups == AddEach(LAMBDA a, v : IF v = Null THEN a ELSE Add(a, v),
                        g.groups, vals, ids)
  IN [g EXCEPT !.groups = groups,
               !.failed = @ \/ \E i \in DOMAIN groups : groups[i].failed]
EachGroup(Fold(_, _), g, o, from, to) ==
  LET groups == AddEach(Fold, g.groups, [i \in DOMAIN from |-> o.groups[from[i]]], to)
  IN [g EXCEPT !.groups = groups,
               !.failed = @ \/ \E i \in DOMAIN groups : groups[i].failed]

-----------------------------------------------------------------------------
\* COUNT(*) and COUNT(c).
GroupedCountConsume(star, g, vals, ids) ==
  [g EXCEPT !.groups = AddEach(LAMBDA a, v : IF star \/ v # Null
                                             THEN [a EXCEPT !.count = @ + 1] ELSE a,
                               @, vals, ids)]
GroupedCountMerge(g, o, from, to) ==
  EachGroup(LAMBDA a, b : [a EXCEPT !.count = @ + b.count], g, o, from, to)
GroupedCountFinalize(a) == Value(a.count)

\* SUM and AVG of integers; the SUM of counts.
GroupedIntegerSumConsume(g, vals, ids) ==
  EachRow(LAMBDA a, v : [a EXCEPT !.sum = @ + v, !.count = @ + 1], g, vals, ids)
GroupedIntegerSumMerge(g, o, from, to) ==
  EachGroup(LAMBDA a, b : [a EXCEPT !.sum = @ + b.sum, !.count = @ + b.count],
            g, o, from, to)
HugeInts(a) ==
  IF a.count = 0 THEN Value(Null)
  ELSE IF Abs(a.sum) <= SumMax THEN Value(a.sum) ELSE Failure
Averages(a) == Value(IF a.count = 0 THEN Null ELSE Ratio(a.sum, a.count))
GroupedIntegerSumFinalize(avg, a) == IF avg THEN Averages(a) ELSE HugeInts(a)

GroupedSumCountsConsume(g, vals, ids) ==
  EachRow(LAMBDA a, v : [a EXCEPT !.sum = @ + v], g, vals, ids)
GroupedSumCountsMerge(g, o, from, to) ==
  EachGroup(LAMBDA a, b : [a EXCEPT !.sum = @ + b.sum], g, o, from, to)
GroupedSumCountsFinalize(a) == IF Abs(a.sum) <= CountMax THEN Value(a.sum) ELSE Failure
SumCountsCheck(g) == \A i \in DOMAIN g.groups : Abs(g.groups[i].sum) <= CountMax

\* AVG of dates.
GroupedTemporalConsume(g, vals, ids) == EachRow(TemporalStep, g, vals, ids)
GroupedTemporalMerge(g, o, from, to) ==
  EachGroup(LAMBDA a, b : [a EXCEPT !.sum = @ + b.sum, !.count = @ + b.count],
            g, o, from, to)
GroupedTemporalFinalize(a) ==
  Value(IF a.count = 0 THEN Null ELSE AverageMicros(a.sum, a.count))

\* SUM and AVG of HUGEINT and DECIMAL.  The rows of a batch wrap around and set
\* a flag that fails the query once the batch is in; a merge checks each sum.
AddAtUnflagged(a, v) == [a EXCEPT !.count = @ + 1, !.sum = Wrap128(@ + v)]
AddAt(a, v) ==
  [a EXCEPT !.count = @ + 1, !.sum = Wrap128(@ + v),
            !.failed = @ \/ ~Fits128(a.sum + v)]
GroupedHugeIntConsume(g, vals, ids) == EachRow(AddAt, g, vals, ids)
HugeIntAdd(a, b) ==
  IF Fits128(a.sum + b.sum)
  THEN [a EXCEPT !.sum = @ + b.sum, !.count = @ + b.count]
  ELSE [a EXCEPT !.failed = TRUE]
GroupedHugeIntMerge(g, o, from, to) == EachGroup(HugeIntAdd, g, o, from, to)
FinalizeAs(avg, a) == IF avg THEN Averages(a) ELSE HugeInts(a)
\* CheckSumRange and CheckAs: before the first row is returned, every group's
\* sum is in range; a narrow decimal's always is.
CheckSumRange(g) ==
  \A i \in DOMAIN g.groups : g.groups[i].count # 0 => Abs(g.groups[i].sum) <= SumMax
CheckAs(avg, narrow, g) == avg \/ narrow \/ CheckSumRange(g)

\* SUM and AVG of DOUBLE, the variance family.
GroupedDoubleConsume(g, vals, ids) ==
  EachRow(LAMBDA a, v : [a EXCEPT !.sum = @ + v, !.count = @ + 1], g, vals, ids)
GroupedDoubleMerge(g, o, from, to) ==
  EachGroup(LAMBDA a, b : [a EXCEPT !.sum = @ + b.sum, !.count = @ + b.count],
            g, o, from, to)
GroupedDoubleFinalize(avg, a) ==
  Value(IF a.count = 0 THEN Null ELSE IF avg THEN Ratio(a.sum, a.count) ELSE a.sum)

GroupedVarianceConsume(g, vals, ids) == EachRow(AddValue, g, vals, ids)
GroupedVarianceMerge(g, o, from, to) ==
  EachGroup(LAMBDA a, b : Combine(b, a), g, o, from, to)
VarianceCheck(sample, g) ==
  \A i \in DOMAIN g.groups : FinalizeVariance(sample, g.groups[i]).ok

\* MIN and MAX: a group has seen nothing, only NaN, or a value.  The best of a
\* group that has seen only NaN is the quiet NaN, whatever its bits were.
NaN == [nan |-> TRUE, num |-> 0, bits |-> 0]
GroupedOffer(min, a, v) ==
  CASE v.nan -> IF a.best = Null THEN [a EXCEPT !.best = NaN] ELSE a
    [] ~v.nan /\ a.best # Null /\ ~a.best.nan /\ ~Better(min, v, a.best) -> a
    [] OTHER -> [a EXCEPT !.best = v]
GroupedMinMaxConsume(min, g, vals, ids) ==
  EachRow(LAMBDA a, v : GroupedOffer(min, a, v), g, vals, ids)
GroupedMinMaxMerge(min, g, o, from, to) ==
  EachGroup(LAMBDA a, b : IF b.best = Null THEN a ELSE GroupedOffer(min, a, b.best),
            g, o, from, to)
GroupedMinMaxFinalize(a) == Value(a.best)

\* COUNT(DISTINCT): a pair seen for the first time counts for its group unless
\* its value is NULL.
RECURSIVE AddPairs(_, _, _)
AddPairs(g, vals, ids) ==
  IF ids = <<>> THEN g
  ELSE LET pair == <<Head(ids), NormalizeDoubleKey(Head(vals))>>
           new == \A i \in DOMAIN g.pairs : g.pairs[i] # pair
           counted == IF new /\ pair[2] # Null THEN 1 ELSE 0
       IN AddPairs([g EXCEPT !.pairs = IF new THEN Append(@, pair) ELSE @,
                             !.groups[Head(ids)].count = @ + counted],
                   Tail(vals), Tail(ids))
\* The pairs of each group, in the order first seen: a counting sort by group.
PairsByGroup(o, i) == SelectSeq(o.pairs, LAMBDA p : p[1] = i)
RECURSIVE MergePairs(_, _, _, _)
MergePairs(g, o, from, to) ==
  IF from = <<>> THEN g
  ELSE LET own == PairsByGroup(o, Head(from))
       IN MergePairs(AddPairs(g, [k \in DOMAIN own |-> own[k][2]],
                              [k \in DOMAIN own |-> Head(to)]),
                     o, Tail(from), Tail(to))

-----------------------------------------------------------------------------

CONSTANTS Calls,      \* the calls checked: <<kind, input type>>
          Inputs,     \* the values of a column, by input type
          Keys, Parts, MaxRows, BatchRows

VARIABLES call, part, rows, scalar, grouped, keys, answer
vars == <<call, part, rows, scalar, grouped, keys, answer>>

Sums == {"sum", "avg"}
\* The class MakeAggregateState picks for a call.
MakeAggregateState(kind, input) ==
  CASE kind \in {"count_star", "count", "sum_counts", "count_distinct"} -> kind
    [] kind \in {"min", "max"} -> "min_max"
    [] kind \in {"var_samp", "var_pop"} -> "variance"
    [] kind = "avg" /\ input = "date" -> "temporal"
    [] kind \in Sums /\ input = "bigint" -> "integer"
    [] kind \in Sums /\ input \in {"hugeint", "narrow"} -> "huge"
    [] kind \in Sums /\ input = "double" -> "double"
MakeGroupedAggregateState(kind, input) == MakeAggregateState(kind, input)
\* MakeSumAlias: the other of SUM and AVG, when it reads this call's state.
Aliased(c) == MakeGroupedAggregateState(c[1], c[2]) = "huge"
Alias(c) == <<IF c[1] = "sum" THEN "avg" ELSE "sum", c[2]>>

ScalarConsume(c, s, batch) ==
  LET class == MakeAggregateState(c[1], c[2])
      vals == RowMask(batch)
  IN CASE class = "count_star" -> CountStarConsume(s, batch)
       [] class = "count" -> CountConsume(s, vals)
       [] class = "sum_counts" -> SumCountsConsume(s, vals)
       [] class = "count_distinct" -> CountDistinctConsume(s, batch)
       [] class = "integer" -> IntegerSumConsume(s, vals)
       [] class = "temporal" -> TemporalAvgConsume(s, vals)
       [] class = "huge" -> HugeIntSumConsume(s, vals)
       [] class = "double" -> DoubleSumConsume(s, vals)
       [] class = "variance" -> VarianceConsume(s, vals)
       [] class = "min_max" -> MinMaxConsume(c[1] = "min", s, vals)
ScalarMerge(c, s, o) ==
  LET class == MakeAggregateState(c[1], c[2])
  IN CASE class \in {"count_star", "count"} -> CountMerge(s, o)
       [] class = "sum_counts" -> SumCountsMerge(s, o)
       [] class = "count_distinct" -> CountDistinctMerge(s, o)
       [] class = "integer" -> IntegerSumMerge(s, o)
       [] class = "temporal" -> TemporalAvgMerge(s, o)
       [] class = "huge" -> HugeIntSumMerge(s, o)
       [] class = "double" -> DoubleSumMerge(s, o)
       [] class = "variance" -> VarianceMerge(s, o)
       [] class = "min_max" -> MinMaxMerge(c[1] = "min", s, o)
ScalarFinalize(c, s) ==
  LET class == MakeAggregateState(c[1], c[2])
  IN CASE class \in {"count_star", "count"} -> CountFinalize(s)
       [] class = "sum_counts" -> SumCountsFinalize(s)
       [] class = "count_distinct" -> CountDistinctFinalize(s)
       [] class = "integer" -> IntegerSumFinalize(c[1] = "avg", s)
       [] class = "temporal" -> TemporalAvgFinalize(s)
       [] class = "huge" -> HugeIntSumFinalize(c[1] = "avg", s)
       [] class = "double" -> DoubleSumFinalize(c[1] = "avg", s)
       [] class = "variance" -> FinalizeVariance(c[1] = "var_samp", s)
       [] class = "min_max" -> MinMaxFinalize(s)

GroupedConsume(c, g, vals, ids) ==
  LET class == MakeGroupedAggregateState(c[1], c[2])
  IN CASE class \in {"count_star", "count"} ->
                                GroupedCountConsume(class = "count_star", g, vals, ids)
       [] class = "sum_counts" -> GroupedSumCountsConsume(g, vals, ids)
       [] class = "count_distinct" -> AddPairs(g, vals, ids)
       [] class = "integer" -> GroupedIntegerSumConsume(g, vals, ids)
       [] class = "temporal" -> GroupedTemporalConsume(g, vals, ids)
       [] class = "huge" -> GroupedHugeIntConsume(g, vals, ids)
       [] class = "double" -> GroupedDoubleConsume(g, vals, ids)
       [] class = "variance" -> GroupedVarianceConsume(g, vals, ids)
       [] class = "min_max" -> GroupedMinMaxConsume(c[1] = "min", g, vals, ids)
GroupedMerge(c, g, o, from, to) ==
  LET class == MakeGroupedAggregateState(c[1], c[2])
  IN CASE class \in {"count_star", "count"} -> GroupedCountMerge(g, o, from, to)
       [] class = "sum_counts" -> GroupedSumCountsMerge(g, o, from, to)
       [] class = "count_distinct" -> MergePairs(g, o, from, to)
       [] class = "integer" -> GroupedIntegerSumMerge(g, o, from, to)
       [] class = "temporal" -> GroupedTemporalMerge(g, o, from, to)
       [] class = "huge" -> GroupedHugeIntMerge(g, o, from, to)
       [] class = "double" -> GroupedDoubleMerge(g, o, from, to)
       [] class = "variance" -> GroupedVarianceMerge(g, o, from, to)
       [] class = "min_max" -> GroupedMinMaxMerge(c[1] = "min", g, o, from, to)
GroupedFinalize(c, a) ==
  LET class == MakeGroupedAggregateState(c[1], c[2])
  IN CASE class \in {"count_star", "count", "count_distinct"} -> GroupedCountFinalize(a)
       [] class = "sum_counts" -> GroupedSumCountsFinalize(a)
       [] class = "integer" -> GroupedIntegerSumFinalize(c[1] = "avg", a)
       [] class = "temporal" -> GroupedTemporalFinalize(a)
       [] class = "huge" -> FinalizeAs(c[1] = "avg", a)
       [] class = "double" -> GroupedDoubleFinalize(c[1] = "avg", a)
       [] class = "variance" -> FinalizeVariance(c[1] = "var_samp", a)
       [] class = "min_max" -> GroupedMinMaxFinalize(a)
\* CheckFinalize of the states that have one, before a table returns a row.
CheckFinalize(c, g) ==
  LET class == MakeGroupedAggregateState(c[1], c[2])
  IN CASE class = "sum_counts" -> SumCountsCheck(g)
       [] class = "huge" -> CheckAs(c[1] = "avg", c[2] = "narrow", g)
       [] class = "variance" -> VarianceCheck(c[1] = "var_samp", g)
       [] OTHER -> TRUE

\* A mutant: a MIN or MAX of doubles is taken to merge in any order.
MergesAnyMinMax(c) == c[1] \in {"count_star", "count", "sum_counts", "min", "max"}

\* Whether a coarser set of groups may be merged from these groups, in any order.
MergesExactly(c) ==
  \/ c[1] \in {"count_star", "count", "sum_counts"}
  \/ c[1] \in Sums /\ c[2] \in {"bigint", "narrow"}
  \/ c = <<"avg", "date">>
  \/ c[1] \in {"min", "max"} /\ c[2] # "double"
\* What the two-level aggregation allows beside a COUNT(DISTINCT).
TwoLevelAggregation(c) ==
  MergesExactly(c) /\ (c[1] \in Sums => c[2] \in {"bigint", "date"})

-----------------------------------------------------------------------------
RECURSIVE AddKeys(_, _)
AddKeys(seen, new) ==
  IF new = <<>> THEN seen
  ELSE AddKeys(IF \E i \in DOMAIN seen : seen[i] = Head(new) THEN seen
               ELSE Append(seen, Head(new)), Tail(new))
Id(seen, k) == CHOOSE i \in DOMAIN seen : seen[i] = k

\* One value of the type per unselected row is enough: no state may read it.
FirstKey == CHOOSE k \in Keys : TRUE
Rows(c) ==
  [key : Keys, v : Inputs[c[2]] \cup {Null}, sel : {TRUE}]
    \cup {[key |-> FirstKey, v |-> CHOOSE v \in Inputs[c[2]] : TRUE, sel |-> FALSE]}
Batches(c, room) == UNION {[1..n -> Rows(c)] : n \in 1..(IF room < BatchRows THEN room
                                                         ELSE BatchRows)}

Init ==
  /\ call \in Calls
  /\ part = 1
  /\ rows = [p \in 1..Parts |-> <<>>]
  /\ scalar = [p \in 1..Parts |-> NewState]
  /\ grouped = [p \in 1..Parts |-> NewGrouped]
  /\ keys = [p \in 1..Parts |-> <<>>]
  /\ answer = [done |-> FALSE]

\* AggregateSet::Consume and GroupTable::Consume: the rows of a batch.  The keys are
\* interchangeable, so the first row of all may as well have the first of them.
Consume ==
  /\ ~answer.done
  /\ \E batch \in Batches(call, MaxRows - Len(rows[1]) - IF part = 1 THEN 0
                                                         ELSE Len(rows[part])) :
    /\ (\A p \in 1..Parts : rows[p] = <<>>) => batch[1].key = FirstKey
    /\ LET kept == SelectedRows(batch)
           seen == AddKeys(keys[part], [i \in DOMAIN kept |-> kept[i].key])
           vals == [i \in DOMAIN kept |-> kept[i].v]
           ids == [i \in DOMAIN kept |-> Id(seen, kept[i].key)]
           sized == Resize(grouped[part], Len(seen))
       IN /\ scalar' = [scalar EXCEPT ![part] = ScalarConsume(call, @, batch)]
          /\ grouped' = [grouped EXCEPT ![part] = GroupedConsume(call, sized, vals, ids)]
          /\ keys' = [keys EXCEPT ![part] = seen]
          /\ rows' = [rows EXCEPT ![part] = @ \o batch]
  /\ UNCHANGED <<call, part, answer>>

NextPart ==
  /\ ~answer.done /\ part < Parts
  /\ part' = part + 1
  /\ UNCHANGED <<call, rows, scalar, grouped, keys, answer>>

\* PartAggregateOperator::Next: an empty state, and every part's into it.
RECURSIVE MergeScalars(_, _)
MergeScalars(s, p) ==
  IF p > Parts \/ s.failed THEN s
  ELSE MergeScalars(IF scalar[p].failed THEN scalar[p]
                    ELSE ScalarMerge(call, s, scalar[p]), p + 1)
\* GroupTable::Merge, or one partition of a partitioned merge: the groups of
\* each part whose keys are in the partition.
RECURSIVE MergeTables(_, _, _, _)
MergeTables(within, seen, g, p) ==
  IF p > Parts \/ g.failed THEN [keys |-> seen, g |-> g]
  ELSE IF grouped[p].failed THEN [keys |-> seen, g |-> grouped[p]]
  ELSE LET from == SelectSeq([i \in DOMAIN keys[p] |-> i],
                             LAMBDA i : keys[p][i] \in within)
           now == AddKeys(seen, [i \in DOMAIN from |-> keys[p][from[i]]])
           to == [i \in DOMAIN from |-> Id(now, keys[p][from[i]])]
           sized == Resize(g, Len(now))
       IN MergeTables(within, now,
                      IF SameKind(sized, grouped[p], from, to)
                      THEN GroupedMerge(call, sized, grouped[p], from, to)
                      ELSE [sized EXCEPT !.failed = TRUE], p + 1)

\* GroupTable::MergeProjected into the one group without keys: the groups of the merged table,
\* in the order they are given.
MergeProjected(t, from) ==
  GroupedMerge(call, Resize(NewGrouped, 1), t.g, from, [i \in DOMAIN from |-> 1])

Finish ==
  /\ ~answer.done /\ part = Parts
  /\ \E split \in {{Keys}, {{k} : k \in Keys}} :
       LET total == MergeScalars(NewState, 1)
           tables == {MergeTables(within, <<>>, NewGrouped, 1) : within \in split}
           failed == \E t \in tables : t.g.failed
           checked(c) == ~failed /\ \A t \in tables : CheckFinalize(c, t.g)
           groups(c) == [k \in UNION {Range(t.keys) : t \in tables} |->
                           LET t == CHOOSE t \in tables : k \in Range(t.keys)
                           IN GroupedFinalize(c, t.g.groups[Id(t.keys, k)])]
       IN answer' = [done |-> TRUE,
                     scalar |-> IF total.failed THEN Failure ELSE ScalarFinalize(call, total),
                     checked |-> [c \in {call} \cup IF Aliased(call) THEN {Alias(call)} ELSE {}
                                    |-> checked(c)],
                     groups |-> [c \in {call} \cup IF Aliased(call) THEN {Alias(call)} ELSE {}
                                    |-> IF failed THEN <<>> ELSE groups(c)]]
  /\ UNCHANGED <<call, part, rows, scalar, grouped, keys>>

Done == answer.done /\ UNCHANGED vars

Next == Consume \/ NextPart \/ Finish \/ Done
Spec == Init /\ [][Next]_vars

-----------------------------------------------------------------------------
\* What a call means: the answer over the values of all its rows, in order.
RECURSIVE Flat(_, _)
Flat(seqs, p) == IF p > Parts THEN <<>> ELSE seqs[p] \o Flat(seqs, p + 1)
Squares(vals) == Total([i \in DOMAIN vals |-> vals[i] * vals[i]])
Sound(min, vals) ==
  LET nums == {vals[i].num : i \in {j \in DOMAIN vals : ~vals[j].nan}}
  IN IF vals = <<>> THEN Null
     ELSE IF nums = {} THEN NaN
     ELSE [nan |-> FALSE, bits |-> 0,
           num |-> CHOOSE n \in nums : \A m \in nums : IF min THEN n <= m ELSE n >= m]
InDays(d) == IF Abs(d) = DateInf THEN (IF d > 0 THEN MicrosMax ELSE -MicrosMax)
             ELSE d * MicrosPerDay
Meaning(c, all) ==
  LET vals == RowMask(all)
      n == Len(vals)
      micros == [i \in DOMAIN vals |-> InDays(vals[i])]
  IN CASE c[1] = "count_star" -> Value(Len(SelectedRows(all)))
       [] c[1] = "count" -> Value(n)
       [] c[1] = "count_distinct" ->
            Value(Cardinality({[vals[i] EXCEPT !.bits = 0] : i \in DOMAIN vals}))
       [] c[1] = "sum_counts" ->
            IF Abs(Total(vals)) <= CountMax THEN Value(Total(vals)) ELSE Failure
       [] c[1] \in {"min", "max"} -> Value(Sound(c[1] = "min", vals))
       [] c[1] \in Sums /\ n = 0 -> Value(Null)
       [] c[1] = "sum" /\ n > 0 ->
            IF c[2] = "double" \/ Abs(Total(vals)) <= SumMax THEN Value(Total(vals))
            ELSE Failure
       [] c = <<"avg", "date">> /\ n > 0 ->
            IF \E i \in DOMAIN vals : Abs(micros[i]) > MicrosMax THEN Failure
            ELSE Value(CHOOSE m \in -MicrosMax..MicrosMax :
                         LET t == Total(micros)
                         IN IF t < 0 THEN m <= 0 /\ m * n >= t /\ (m - 1) * n < t
                            ELSE 2 * m * n - n < 2 * t /\ 2 * t <= 2 * m * n + n)
       [] c[1] = "avg" /\ c[2] # "date" /\ n > 0 -> Value(Ratio(Total(vals), n))
       [] c[1] \in {"var_samp", "var_pop"} ->
            LET d == IF c[1] = "var_samp" THEN n - 1 ELSE n
                var == Ratio(n * Squares(vals) - Total(vals) * Total(vals), n * d)
            IN IF n = 0 \/ d = 0 THEN Value(Null)
               ELSE IF var[1] <= VarMax * var[2] THEN Value(var) ELSE Failure
Normal(r) == IF call[1] \in {"min", "max"} /\ r.ok THEN Value(NormalizeDoubleKey(r.v)) ELSE r

\* The sums the additions of a call go through, over the rows `of` keeps: the
\* prefixes of each part, and of the parts' totals.
Prefixes(vals) == {Total(SubSeq(vals, 1, i)) : i \in 0..Len(vals)}
Partials(of(_)) ==
  LET part_vals == [p \in 1..Parts |-> RowMask(SelectSeq(rows[p], of))]
  IN UNION {Prefixes(part_vals[p]) : p \in 1..Parts}
       \cup Prefixes([p \in 1..Parts |-> Total(part_vals[p])])
Overflows(c, of(_)) ==
  MakeAggregateState(c[1], c[2]) = "huge" /\ \E n \in Partials(of) : ~Fits128(n)

\* AggregateState: for every way to cut the rows into batches and parts, the
\* merged states answer what the call means over all the rows, and fail exactly
\* when that answer has no value or, for a checked 128-bit sum, when a partial
\* sum leaves the accumulator: never a wrapped, doubled or forgotten value.
MergedStatesExact ==
  answer.done =>
    LET any(r) == TRUE
    IN Normal(answer.scalar) =
         IF Overflows(call, any) THEN Failure ELSE Meaning(call, Flat(rows, 1))

\* GroupedAggregateState: the same for the rows of each group, merged as one
\* table or by partitions, and for the SUM or AVG that reads the other's
\* accumulator; a table whose CheckFinalize passes has an answer for every
\* group, so no row is returned before the query fails.
MergedGroupsExact ==
  answer.done =>
    LET seen == {k \in Keys : \E p \in 1..Parts, i \in 1..MaxRows :
                    i <= Len(rows[p]) /\ rows[p][i].sel /\ rows[p][i].key = k}
        own(k) == SelectSeq(Flat(rows, 1), LAMBDA r : r.key = k)
        overflow(c) == \E k \in seen : Overflows(c, LAMBDA r : r.key = k)
        means(c) == [k \in seen |-> Meaning(c, own(k))]
        never(c) == MakeAggregateState(c[1], c[2]) = "temporal"
                      /\ \E k \in seen : ~means(c)[k].ok
    IN \A c \in DOMAIN answer.groups :
         IF overflow(c) \/ never(c)
         THEN ~answer.checked[c]
         ELSE /\ [k \in DOMAIN answer.groups[c] |-> Normal(answer.groups[c][k])] = means(c)
              /\ answer.checked[c] <=> \A k \in seen : means(c)[k].ok

\* MergesExactly: for the calls it allows, the groups of a table merged into one coarser group,
\* in any order, answer what the call means over all the rows, to the bit, and the check before
\* the first row fails exactly when there is no answer.
ExactMerges ==
  answer.done /\ (MergesExactly(call) \/ TwoLevelAggregation(call)) =>
    LET t == MergeTables(Keys, <<>>, NewGrouped, 1)
        all == DOMAIN t.keys
        meant == Meaning(call, Flat(rows, 1))
    IN t.keys # <<>> /\ ~t.g.failed =>
         \A order \in {o \in [all -> all] : Range(o) = all} :
           LET one == MergeProjected(t, order)
           IN IF meant.ok
              THEN CheckFinalize(call, one) /\ GroupedFinalize(call, one.groups[1]) = meant
              ELSE ~CheckFinalize(call, one)
=============================================================================
