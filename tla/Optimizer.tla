------------------------------ MODULE Optimizer ------------------------------
(***************************************************************************)
(* Optimize (src/plan/optimizer.cc): the passes over a bound plan in their *)
(* order, one action each.  The unnesting pass alone can refuse the query; *)
(* the plan is resolved at the end.                                        *)
(*                                                                         *)
(* First the unnesting and the placement of aggregates, then the rules     *)
(* that keep a plan's shape, each a walk of the whole plan.                *)
(***************************************************************************)
EXTENDS LogicalPlan

-----------------------------------------------------------------------------
(***************************************************************************)
(* The unnesting pass (src/plan/optimizer.cc): every dependent join of a   *)
(* correlated subquery becomes an ordinary join, or the query is refused.  *)
(* Path 1 pulls the correlated conjuncts of an EXISTS or a NOT EXISTS into *)
(* a semi or an anti join.  Path 2 groups the aggregate of a scalar        *)
(* subquery by the inner equivalents of the outer columns it reads.        *)
(*                                                                         *)
(* A rewrite answers the node and the last id in use, refuses the query,   *)
(* or reports a bug of the pass.                                           *)
(***************************************************************************)
CONSTANT
  LeastRestriction   \* kLeastRestriction: how much larger the inner side must be

Rewritten(node, last) == [status |-> "ok", node |-> node, last |-> last]
Ended(status) == [status |-> status, node |-> Limit(<<>>, 0), last |-> 0]
Refused == Ended("refused")                \* UnsupportedError
InternalError == Ended("internal_error")   \* NotImplemented

RECURSIVE HasDependentJoin(_)
HasDependentJoin(node) ==          \* FirstDependentJoin is not null
  node.op = "dependent" \/ \E input \in Range(node.inputs) : HasDependentJoin(input)

DefinedBy(compute, id) == compute.exprs[CHOOSE i \in DOMAIN compute.ids : compute.ids[i] = id]

(* The conjuncts of the block's top filter, each IS TRUE over a column of the *)
(* Compute below it.                                                          *)
Recognized(filter) ==
  \A p \in Range(filter.predicates) :
    p.kind = "is_true" /\ p.column.id \in Range(filter.inputs[1].ids)
Conjuncts(filter) ==
  [i \in DOMAIN filter.predicates |-> DefinedBy(filter.inputs[1], filter.predicates[i].column.id)]

IsEquality(expr) == expr.e = "equal" /\ \A i \in 1..2 : expr.args[i].e = "column"

(***************************************************************************)
(* Path 1.                                                                 *)
(***************************************************************************)
IsCorrelatedFilter(node) == node.op = "filter" /\ node.inputs[1].op = "compute"

(* The block's filter, below the select list and the sort. *)
RECURSIVE BlockOf(_)
BlockOf(node) ==
  IF node.op \in {"project", "compute", "sort"} THEN BlockOf(node.inputs[1]) ELSE node

AsKey(expr, outer) ==
  /\ IsEquality(expr)
  /\ (expr.args[1].id \in outer) /= (expr.args[2].id \in outer)
  /\ KeyType(expr.args[1].type, expr.args[2].type) /= "none"

(* One side of a key, widened to the key's type in a layer of its own. *)
Side(column, type, last) ==
  IF column.type = type
  THEN [column |-> [id |-> column.id, type |-> type], exprs |-> <<>>, ids |-> <<>>]
  ELSE [column |-> [id |-> last + 1, type |-> type],
        exprs |-> <<WidenTo(column, type)>>, ids |-> <<last + 1>>]

(* The keys, the residual and the casts of the conjuncts, in order. *)
Classified(conjuncts, outer, last) ==
  LET Conjunct(done, expr) ==
        IF ~AsKey(expr, outer) THEN [done EXCEPT !.residual = Append(@, expr)]
        ELSE LET a_outer == expr.args[1].id \in outer
                 type == KeyType(expr.args[1].type, expr.args[2].type)
                 left == Side(expr.args[IF a_outer THEN 1 ELSE 2], type, done.last)
                 right == Side(expr.args[IF a_outer THEN 2 ELSE 1], type, done.last + Len(left.ids))
             IN  [keys |-> Append(done.keys, JoinKey(left.column, right.column)),
                  residual |-> done.residual,
                  left_exprs |-> done.left_exprs \o left.exprs, left_ids |-> done.left_ids \o left.ids,
                  right_exprs |-> done.right_exprs \o right.exprs,
                  right_ids |-> done.right_ids \o right.ids,
                  last |-> done.last + Len(left.ids) + Len(right.ids)]
  IN  FoldLeft(Conjunct, [keys |-> <<>>, residual |-> <<>>, left_exprs |-> <<>>, left_ids |-> <<>>,
                          right_exprs |-> <<>>, right_ids |-> <<>>, last |-> last], conjuncts)

Layer(input, exprs, ids) == IF exprs = <<>> THEN input ELSE Compute(input, exprs, ids)

KeyedJoin(join, left, right, parts) ==
  IF FreeVariables(right) /= {} THEN InternalError
  ELSE Rewritten(Join(join.kind, left, right, parts.keys, parts.residual,
                      IF Traits(join.kind)["may_build_left"]
                      THEN ChooseBuildSide(EstimateRows(left), EstimateRows(right)) ELSE "right",
                      EstimateRows(left)), parts.last)
ByJoinKeys(join, filter, parts) ==
  IF parts.keys = <<>> THEN Refused
  ELSE KeyedJoin(join, Layer(join.inputs[1], parts.left_exprs, parts.left_ids),
                 Layer(filter.inputs[1].inputs[1], parts.right_exprs, parts.right_ids), parts)
OverFilter(join, filter, last) ==
  IF ~IsCorrelatedFilter(filter) \/ ~Recognized(filter) THEN Refused
  ELSE ByJoinKeys(join, filter,
                  Classified(Conjuncts(filter), Range(OutputIds(join.inputs[1])), last))
Path1(join, last) == OverFilter(join, BlockOf(join.inputs[2]), last)

(***************************************************************************)
(* Path 2.                                                                 *)
(***************************************************************************)
RECURSIVE IsStrict(_)
IsStrict(expr) ==
  \/ expr.e \in {"column", "constant"}
  \/ expr.e \in {"arith", "cast"} /\ \A i \in DOMAIN expr.args : IsStrict(expr.args[i])

(* A mutant: COUNT is taken for an aggregate that is NULL over no rows. *)
AnyAggregates(calls) == TRUE

StrictAggregates(calls) == \A call \in Range(calls) : call.kind \in {"sum", "avg", "min", "max"}

(* The nodes above the aggregate, top-down; the node under them. *)
RECURSIVE Above(_)
Above(node) ==
  IF node.op \in {"project", "compute"} THEN <<node>> \o Above(node.inputs[1]) ELSE <<>>
RECURSIVE Under(_)
Under(node) == IF node.op \in {"project", "compute"} THEN Under(node.inputs[1]) ELSE node

(* The correlated filter below the aggregate's arguments. *)
ScalarFilter(aggregate) ==
  LET under == aggregate.inputs[1]
  IN  IF under.op = "compute" THEN under.inputs[1] ELSE under

(* An equality of two columns of one type feeds a class and is dropped. *)
FeedsClass(expr) ==
  IsEquality(expr) /\ expr.args[1].type = expr.args[2].type
    /\ KeyType(expr.args[1].type, expr.args[2].type) /= "none"

(* The class of `id` under the equalities `pairs`: the union-find's. *)
RECURSIVE ClassOf(_, _)
ClassOf(class, pairs) ==
  LET more == UNION {p \in pairs : p \cap class /= {}}
  IN  IF more \subseteq class THEN class ELSE ClassOf(class \cup more, pairs)

RECURSIVE ReadsAJoinOrUnion(_)
ReadsAJoinOrUnion(node) ==
  node.op \in {"join", "union_all", "set"} \/ \E i \in Range(node.inputs) : ReadsAJoinOrUnion(i)

RestrictionIsWorth(outer, inner) ==
  outer /= Unknown /\ inner /= Unknown /\ outer > 0 /\ inner > 0 /\ inner >= LeastRestriction * outer

(* What the one-type equalities say: the outer columns read, ascending, of    *)
(* each the first inner column of its class, or none, and the types.          *)
Pairs(equalities) == {{c.args[1].id, c.args[2].id} : c \in Range(equalities)}
Sides(equalities) == UNION {Range(c.args) : c \in Range(equalities)}
InnerOf(id, inner, pairs) ==
  LET class == ClassOf({id}, pairs)
  IN  IF class \cap Range(inner) = {} THEN NoId ELSE SelectSeq(inner, LAMBDA c : c \in class)[1]
Classes(free, inner, equalities) ==
  [outers |-> Ascending(free),
   equivalent |-> [id \in free |-> InnerOf(id, inner, Pairs(equalities))],
   type |-> [id \in UNION Pairs(equalities) |-> (CHOOSE a \in Sides(equalities) : a.id = id).type]]

Typed(classes, id, as) == [id |-> as, type |-> classes.type[id]]

(* The aggregation's input kept to the keys a clone of the outer side binds. *)
ClonedDomain(input, classes, ids, clone, domain) ==
  [node |-> Join("semi", input, clone.node,
                 [i \in DOMAIN classes.outers |->
                    LET outer == classes.outers[i]
                        inner == classes.equivalent[outer]
                    IN  JoinKey(Typed(classes, inner, inner),
                                Typed(classes, outer, domain[CHOOSE k \in DOMAIN ids : ids[k] = outer]))],
                 <<>>, "right", EstimateRows(input)),
   last |-> clone.last]
RestrictedTo(clone, input, classes, left) ==
  ClonedDomain(input, classes, OutputIds(left), clone, OutputIds(clone.node))
RestrictToTheOuterKeys(input, left, classes, last) ==
  IF \/ Len(classes.outers) < 2 /\ ~ReadsAJoinOrUnion(input)
     \/ HasDependentJoin(left) \/ FreeVariables(left) /= {}
     \/ ~RestrictionIsWorth(EstimateRows(left), EstimateRows(input))
     \/ \E outer \in Range(classes.outers) :
          \/ outer \notin Range(OutputIds(left))
          \/ classes.type[outer] /= classes.type[classes.equivalent[outer]]
  THEN [node |-> input, last |-> last]
  ELSE RestrictedTo(CloneWithFreshIds(left, last), input, classes, left)

(* The select item and the select list over the grouped aggregate: a Project  *)
(* outputs the group's keys too.                                              *)
RECURSIVE Rebuilt(_, _, _)
Rebuilt(above, right, keys) ==
  IF above = <<>> THEN right
  ELSE LET node == Head(above)
           input == Rebuilt(Tail(above), right, keys)
       IN  IF node.op = "project"
           THEN Project(input, node.columns \o keys,
                        node.constants \o [i \in DOMAIN keys |-> Leaf("none", "none", NoId, 0)],
                        node.ids \o Ids(keys))
           ELSE WithInputs(node, <<input>>)

Numbered(last, n) == [i \in 1..n |-> last + i]
Mapped(exprs, equivalent) == [i \in DOMAIN exprs |-> MapColumns(exprs[i], equivalent)]

(* The conjuncts that stay, over inner columns alone. *)
StaysBelow(below, kept, equivalent, last) ==
  IF kept = <<>> THEN below
  ELSE Filter(Compute(below, Mapped(kept, equivalent), Numbered(last, Len(kept))),
              [i \in DOMAIN kept |->
                 [kind |-> "is_true", column |-> [id |-> last + i, type |-> "boolean"],
                  other |-> None, op |-> "=", values |-> <<>>]])

(* The aggregate's arguments over the same columns. *)
Arguments(args, input, equivalent) ==
  IF args.op /= "compute" THEN input ELSE Compute(input, Mapped(args.exprs, equivalent), args.ids)

(* The inner equivalents in the order their outer columns name them, each once. *)
Named(classes) == [i \in DOMAIN classes.outers |-> classes.equivalent[classes.outers[i]]]
Distinct(ids) ==
  LET first == SelectSeq([i \in DOMAIN ids |-> i], LAMBDA i : ids[i] \notin {ids[j] : j \in 1..i-1})
  IN  [k \in DOMAIN first |-> ids[first[k]]]

(* One key of the join for every outer column the subquery reads. *)
OuterKeys(classes, group, last) ==
  [i \in DOMAIN classes.outers |->
     LET outer == classes.outers[i]
         inner == classes.equivalent[outer]
     IN  JoinKey(Typed(classes, outer, outer),
                 Typed(classes, inner, last + (CHOOSE k \in DOMAIN group : group[k] = inner)))]

JoinedTo(left, right, keys, last) ==
  IF \E k \in Range(keys) : k.left.type /= k.right.type THEN Refused
  ELSE IF FreeVariables(right) /= {} THEN InternalError
  ELSE Rewritten(Join("inner", left, right, keys, <<>>,
                      ChooseBuildSide(EstimateRows(left), EstimateRows(right)),
                      EstimateRows(left)), last)

(* The group's ids follow `last`, then the kept conjuncts', then the clone's. *)
GroupedOver(restricted, left, above, calls, classes, group, last) ==
  JoinedTo(left,
           Rebuilt(above,
                   GroupAggregate(restricted.node, [i \in DOMAIN group |-> Typed(classes, group[i], group[i])],
                                  Numbered(last, Len(group)), calls),
                   [i \in DOMAIN group |-> Typed(classes, group[i], last + i)]),
           OuterKeys(classes, group, last), restricted.last)

GroupedByEquivalents(left, above, aggregate, filter, kept, classes, group, last) ==
  GroupedOver(RestrictToTheOuterKeys(
                Arguments(aggregate.inputs[1],
                          StaysBelow(filter.inputs[1].inputs[1], kept, classes.equivalent, last + Len(group)),
                          classes.equivalent),
                left, classes, last + Len(group) + Len(kept)),
              left, above, aggregate.calls, classes, group, last)

ByClasses(left, above, aggregate, filter, kept, classes, last) ==
  IF classes.outers = <<>> \/ NoId \in Range(Named(classes)) THEN Refused
  ELSE GroupedByEquivalents(left, above, aggregate, filter, kept, classes, Distinct(Named(classes)), last)

ByConjuncts(left, above, aggregate, filter, conjuncts, free, last) ==
  ByClasses(left, above, aggregate, filter, SelectSeq(conjuncts, LAMBDA c : ~FeedsClass(c)),
            Classes(free, OutputIds(filter.inputs[1].inputs[1]), SelectSeq(conjuncts, FeedsClass)), last)

ScalarGroups(left, above, aggregate, filter, free, last) ==
  IF \/ ~IsCorrelatedFilter(filter)
     \/ ~StrictAggregates(aggregate.calls)
     \/ \E n \in Range(above) : n.op = "compute" /\ \E e \in Range(n.exprs) : ~IsStrict(e)
  THEN Refused
  ELSE IF ~Recognized(filter) THEN Refused
  ELSE ByConjuncts(left, above, aggregate, filter, Conjuncts(filter), free, last)

ScalarOver(join, aggregate, last) ==
  IF aggregate.op /= "aggregate" THEN Refused
  ELSE ScalarGroups(join.inputs[1], Above(join.inputs[2]), aggregate, ScalarFilter(aggregate),
               FreeVariables(join.inputs[2]), last)
Path2(join, last) == ScalarOver(join, Under(join.inputs[2]), last)

(***************************************************************************)
(* The pass: a dependent join before anything inside it.                   *)
(***************************************************************************)
RECURSIVE UnnestNode(_, _)
UnnestNode(node, last) ==
  LET Again(out) == IF out.status /= "ok" THEN out ELSE UnnestNode(out.node, out.last)
      Taken(done, out) ==
        IF out.status /= "ok" THEN [done EXCEPT !.status = out.status]
        ELSE [done EXCEPT !.inputs = Append(@, out.node), !.last = out.last]
      Input(done, input) ==
        IF done.status /= "ok" THEN done ELSE Taken(done, UnnestNode(input, done.last))
      Rebuild(all) ==
        IF all.status /= "ok" THEN Ended(all.status)
        ELSE Rewritten(WithInputs(node, all.inputs), all.last)
  IN  IF node.op = "dependent"
      THEN Again(CASE node.kind \in {"semi", "anti"} -> Path1(node, last)
                   [] node.kind = "one_row" -> Path2(node, last)
                   [] OTHER -> Refused)
      ELSE Rebuild(FoldLeft(Input, [status |-> "ok", inputs |-> <<>>, last |-> last], node.inputs))

Unnest(root) ==
  IF ~HasDependentJoin(root) THEN Rewritten(root, 0) ELSE UnnestNode(root, MaxColumnId(root))

-----------------------------------------------------------------------------
(***************************************************************************)
(* A grouped aggregate computed on one input of a join below it            *)
(* (src/plan/aggregate_placement.cc): which joins admit it, the gate that  *)
(* says where it is worth it, and the exchange that builds the partial     *)
(* aggregate under the join and the final one above.                       *)
(*                                                                         *)
(* `path` holds the nodes from the aggregate's input down to the join,     *)
(* which is its last.                                                      *)
(***************************************************************************)
CONSTANTS
  LeastReduction,     \* kLeastReduction: rows per group
  LeastKeptPercent,   \* kLeastKeptPercent: of the groups built, surviving the joins above
  LeastNarrowing      \* kLeastNarrowing: how much narrower a pre-grouping must be

NoSide == "none"
JoinOf(path) == path[Len(path)]
OutputSet(node) == Range(OutputIds(node))

(* The expression a Compute of the path defines `id` by, as the set of what it reads. *)
Computes(path) == {path[i] : i \in {j \in DOMAIN path : path[j].op = "compute"}}
Reads(path, id) ==
  LET by == {c \in Computes(path) : id \in Range(c.ids)}
  IN  IF by = {} THEN {id}
      ELSE LET c == CHOOSE c \in by : TRUE
           IN  CollectColumnIds(c.exprs[CHOOSE i \in DOMAIN c.ids : c.ids[i] = id])

(* The input of the join that `id` is a column of; "above" when it is neither's. *)
SideOf(path, id) ==
  LET join == JoinOf(path)
      reads == Reads(path, id)
      left == OutputSet(join.inputs[1])
      right == OutputSet(join.inputs[2]) \ left
  IN  CASE reads /= {} /\ reads \subseteq left -> "left"
        [] reads /= {} /\ reads \subseteq right -> "right"
        [] reads /= {} /\ reads \cap (left \cup right) = {} -> "above"
        [] OTHER -> NoSide

Decomposable(kind) == kind \in {"count_star", "count", "sum", "min", "max", "avg", "sum_counts"}

Exchangeable(join) ==
  LET t == Traits(join.kind)
  IN  join.keys /= <<>> /\ join.residual = <<>> /\ t["outputs_right"] /\ ~t["keyless"] /\ ~t["pads_left"]

GroupingCost(type) ==
  CASE type = "boolean" -> 1 [] type = "integer" -> 4 [] type \in {"bigint", "double"} -> 8

(* A join that pads keeps every row of the inputs it preserves. *)
PaddedJoinRows(kind, matches, left, right) ==
  LET t == Traits(kind)
  IN  IF t["pads_left"] /\ t["pads_right"] THEN Saturated(matches + left + right)
      ELSE Max({matches} \cup (IF t["pads_right"] THEN {left} ELSE {})
                        \cup (IF t["pads_left"] THEN {right} ELSE {}))

JoinRows(join) ==
  LET left == EstimateRows(join.inputs[1])
      right == EstimateRows(join.inputs[2])
      domains == Range(EachDistinctValues(join.inputs[1], [k \in DOMAIN join.keys |-> join.keys[k].left.id]))
                   \cup Range(EachDistinctValues(join.inputs[2],
                                                 [k \in DOMAIN join.keys |-> join.keys[k].right.id]))
  IN  IF join.estimate /= Unknown THEN join.estimate
      ELSE IF left = Unknown \/ right = Unknown THEN Unknown
      ELSE PaddedJoinRows(join.kind, Saturated((left * right) \div Max({1} \cup domains)), left, right)

(* The gate, of the rows the aggregate reads now, the rows it would read and  *)
(* the groups it would build.                                                 *)
Judge(now, below, distinct, narrower) ==
  LET groups == Max({distinct, 1})
      reduces == below \div groups >= LeastReduction
  IN  IF Unknown \in {now, below, distinct} THEN "unknown"
      ELSE IF below > now THEN "below_a_filter"
      ELSE IF ~reduces /\ ~narrower THEN "no_reduction"
      ELSE IF now * 100 < below * LeastKeptPercent THEN "join_discards"
      ELSE IF reduces THEN "worth" ELSE "worth_narrower"

(* The columns of `sets`, in order, each once. *)
AddAll(columns, more) ==
  columns \o SelectSeq(more, LAMBDA id : id # NoId /\ id \notin Range(columns))

Refusal == [legal |-> FALSE]

(* The sides the calls' arguments are on: one, where there is a placement. *)
ArgSides(aggregate, path) ==
  {SideOf(path, c.arg.id) : c \in {d \in Range(aggregate.calls) : d.arg /= None}}

LegalAt(aggregate, path, sides) ==
  /\ Exchangeable(JoinOf(path))
  /\ \A i \in 1..Len(path)-1 : path[i].op = "join" => OutputsMatchesOnly(path[i].kind)
  /\ \A c \in Range(aggregate.calls) : Decomposable(c.kind)
  /\ Cardinality(sides) = 1 /\ sides \cap {NoSide, "above"} = {}
  /\ \A c \in Range(aggregate.keys) : SideOf(path, c.id) /= NoSide

(* The join's keys on the aggregated side, then what its grouping columns read. *)
PreGrouping(aggregate, path, join, side) ==
  FoldLeft(LAMBDA out, c : AddAll(out, Ascending(Reads(path, c.id))),
           FoldLeft(LAMBDA out, k : AddAll(out, <<IF side = "left" THEN k.left.id ELSE k.right.id>>),
                    <<>>, join.keys),
           SelectSeq(aggregate.keys, LAMBDA c : SideOf(path, c.id) = side))

TypedColumns(aggregate, join) ==
  UNION {{k.left, k.right} : k \in Range(join.keys)} \cup Range(aggregate.keys)
CostOf(columns) == FoldLeft(+, 0, [i \in DOMAIN columns |-> GroupingCost(columns[i].type)])

(* GroupingCostOf and MuchNarrower: a column of unknown type leaves it undecided. *)
MuchNarrower(keys, pre, typed) ==
  /\ \A id \in Range(pre) : \E c \in typed : c.id = id
  /\ LET cost == CostOf([i \in DOMAIN pre |-> CHOOSE c \in typed : c.id = pre[i]])
     IN  cost > 0 /\ CostOf(keys) >= cost * LeastNarrowing

PlacedAt(aggregate, path, join, left, input, pre) ==
  [legal |-> TRUE, left |-> left, path |-> path, pre_grouping |-> pre,
   needs_identity |-> Traits(join.kind)[IF left THEN "pads_left" ELSE "pads_right"],
   verdict |-> Judge(JoinRows(join), EstimateRows(input), DistinctValues(input, pre),
                     MuchNarrower(aggregate.keys, pre, TypedColumns(aggregate, join)))]

PlacedOn(aggregate, path, join, side) ==
  PlacedAt(aggregate, path, join, side = "left", join.inputs[IF side = "left" THEN 1 ELSE 2],
           PreGrouping(aggregate, path, join, side))

PlacementOn(aggregate, path, sides) ==
  IF ~LegalAt(aggregate, path, sides) THEN Refusal
  ELSE PlacedOn(aggregate, path, JoinOf(path), CHOOSE s \in sides : TRUE)
PlacementAt(aggregate, path) == PlacementOn(aggregate, path, ArgSides(aggregate, path))

(* EachBelowAggregate and AdmittedPlacements: the joins down the aggregated   *)
(* side, deepest first, as long as each one is legal.                         *)
RECURSIVE AdmittedPlacements(_, _, _), AdmittedFrom(_, _, _)
AdmittedFrom(aggregate, node, here) ==
  IF ~here.legal THEN <<>>
  ELSE AdmittedPlacements(aggregate, node.inputs[IF here.left THEN 1 ELSE 2], here.path)
         \o (IF here.verdict \in {"worth", "worth_narrower"} THEN <<here>> ELSE <<>>)
AdmittedPlacements(aggregate, node, above) ==
  CASE node.op = "compute" -> AdmittedPlacements(aggregate, node.inputs[1], Append(above, node))
    [] node.op = "join" -> AdmittedFrom(aggregate, node, PlacementAt(aggregate, Append(above, node)))
    [] OTHER -> <<>>

(***************************************************************************)
(* The exchange.                                                           *)
(***************************************************************************)
AboveJoins(path) == {path[i] : i \in {j \in 1..Len(path)-1 : path[j].op = "join"}}
KeyIdsOf(join) == UNION {{k.left.id, k.right.id} : k \in Range(join.keys)}

(* The Computes of the path, innermost first: they move below the partial. *)
Moving(path) ==
  LET up == Reverse(path) IN SelectSeq(up, LAMBDA n : n.op = "compute")

Buildable(aggregate, placement) ==
  \A c \in Range(aggregate.calls) :
    c.kind /= "avg" /\ (c.kind = "count_star" => ~placement.needs_identity)

Declines(aggregate, placement) ==
  LET path == placement.path
      join == JoinOf(path)
      aggregated == OutputSet(IF placement.left THEN join.inputs[1] ELSE join.inputs[2])
      known == KeyIdsOf(join) \cup ColumnIds(aggregate.keys)
      read_above == ColumnIds(aggregate.keys)
                      \cup UNION {KeyIdsOf(j) : j \in AboveJoins(path) \cup {join}}
      moving == Moving(path)
      Available(i) == aggregated \cup UNION {Range(moving[j].ids) : j \in 1..i-1}
  IN  \/ ~Buildable(aggregate, placement)
      \/ ~(Range(placement.pre_grouping) \subseteq known)
      \/ \E j \in AboveJoins(path) :
           ~(ReadsOf(j) \cap aggregated \subseteq Range(placement.pre_grouping))
      \/ \E i \in DOMAIN moving : \/ Range(moving[i].ids) \cap read_above /= {}
                                  \/ ~(ExprIds(moving[i].exprs) \subseteq Available(i))

(* The joins of the path, rebuilt over `input` in place of the node below. *)
RECURSIVE RebuiltPath(_, _, _, _)
RebuiltPath(path, i, input, renamed) ==
  IF i = 0 THEN input
  ELSE LET node == path[i]
           below == path[i + 1]
           over == [node EXCEPT !.keys = [k \in DOMAIN @ |-> JoinKey(Rename(@[k].left, renamed),
                                                                   Rename(@[k].right, renamed))],
                                !.inputs = [k \in DOMAIN @ |-> IF @[k] = below THEN input ELSE @[k]]]
       IN  RebuiltPath(path, i - 1, IF node.op = "compute" THEN input ELSE over, renamed)

Exchange(aggregate, placement, last) ==
  LET path == placement.path
      join == JoinOf(path)
      mine == IF placement.left THEN 1 ELSE 2
      pre == placement.pre_grouping
      typed == TypedColumns(aggregate, join)
      keys == [i \in DOMAIN pre |-> CHOOSE c \in typed : c.id = pre[i]]
      key_ids == [i \in DOMAIN pre |-> last + i]
      call_ids == [i \in DOMAIN aggregate.calls |-> last + Len(pre) + i]
      renamed == [id \in Range(pre) |-> key_ids[CHOOSE i \in DOMAIN pre : pre[i] = id]]
      moved == FoldLeft(LAMBDA input, c : Compute(input, c.exprs, c.ids), join.inputs[mine], Moving(path))
      partial == GroupAggregate(moved, keys, key_ids,
                   [i \in DOMAIN aggregate.calls |-> [aggregate.calls[i] EXCEPT !.id = call_ids[i]]])
      candidate ==
        [join EXCEPT !.keys = [k \in DOMAIN @ |->
                        IF placement.left THEN JoinKey(Rename(@[k].left, renamed), @[k].right)
                        ELSE JoinKey(@[k].left, Rename(@[k].right, renamed))],
                     !.inputs = [@ EXCEPT ![mine] = partial]]
      finals == [i \in DOMAIN aggregate.calls |->
                   LET c == aggregate.calls[i]
                   IN  Call(IF c.kind \in {"count_star", "count"} THEN "sum_counts" ELSE c.kind,
                            [id |-> call_ids[i], type |-> "bigint"], c.id)]
  IN  [node |-> GroupAggregate(RebuiltPath(path, Len(path) - 1, candidate, renamed),
                               RenameAll(aggregate.keys, renamed), aggregate.key_ids, finals),
       last |-> last + Len(pre) + Len(aggregate.calls)]

(* The deepest placement that can be built. *)
ExchangeFirst(here, placements, last) ==
  IF placements = <<>> THEN [node |-> here, last |-> last]
  ELSE Exchange(here, placements[1], last)
ExchangeHere(here, last) ==
  IF here.op /= "group" THEN [node |-> here, last |-> last]
  ELSE IF here.calls = <<>> THEN [node |-> here, last |-> last]
  ELSE ExchangeFirst(here, SelectSeq(AdmittedPlacements(here, here.inputs[1], <<>>),
                                     LAMBDA p : ~Declines(here, p)), last)

(* The whole plan, its inputs first. *)
RECURSIVE ExchangeAggregates(_, _)
ExchangeAggregates(root, last) ==
  LET Input(done, input) ==
        LET out == ExchangeAggregates(input, done.last)
        IN  [inputs |-> Append(done.inputs, out.node), last |-> out.last]
      all == FoldLeft(Input, [inputs |-> <<>>, last |-> last], root.inputs)
  IN  ExchangeHere(WithInputs(root, all.inputs), all.last)

-----------------------------------------------------------------------------
(***************************************************************************)
(* The rules that keep a plan's shape: COUNT over a scan answered from the *)
(* footers, grouping by the keys that determine the others, a limit below  *)
(* the projections above it, a filter into the branches of a union, and    *)
(* the columns nothing reads dropped.  One operator per rule.  The passes  *)
(* are at the end.                                                         *)
(***************************************************************************)
Over(node, input) == WithInputs(node, <<input>>)

RECURSIVE CountStarToRowCount(_)
CountStarToRowCount(node) ==
  IF /\ node.op = "aggregate"
     /\ node.inputs[1].op = "scan"
     /\ Len(node.calls) = 1 /\ node.calls[1].kind = "count_star"
     /\ ExactRowCount(node.inputs[1].table) /= Unknown
  THEN RowCount(node.inputs[1].table, node.calls[1].id)
  ELSE WithInputs(node, [k \in DOMAIN node.inputs |-> CountStarToRowCount(node.inputs[k])])

(***************************************************************************)
(* Keys that are functions of other keys.                                  *)
(***************************************************************************)
ComputedBy(compute, id) == compute.exprs[CHOOSE i \in DOMAIN compute.ids : compute.ids[i] = id]

(* Whether the k-th key is computed, by the Compute below, from keys alone. *)
Dependent(group, k) ==
  LET compute == group.inputs[1]
      reads == CollectColumnIds(ComputedBy(compute, group.keys[k].id))
  IN  /\ group.keys[k].id \in Range(compute.ids)
      /\ reads /= {}
      /\ \A read \in reads : \E key \in Range(group.keys) :
           key.id = read /\ key.type /= "double"

GroupByDeterminingKeys(group) ==
  LET compute == group.inputs[1]
      positions == [k \in DOMAIN group.keys |-> k]
      dependent == SelectSeq(positions, LAMBDA k : Dependent(group, k))
      kept == SelectSeq(positions, LAMBDA k : ~Dependent(group, k))
      output == [id \in {group.keys[k].id : k \in Range(kept)} |->
                   group.key_ids[CHOOSE k \in Range(kept) : group.keys[k].id = id]]
      by == GroupAggregate(compute, [i \in DOMAIN kept |-> group.keys[kept[i]]],
                           [i \in DOMAIN kept |-> group.key_ids[kept[i]]], group.calls)
      above == Compute(by, [i \in DOMAIN dependent |->
                              MapColumns(ComputedBy(compute, group.keys[dependent[i]].id), output)],
                       [i \in DOMAIN dependent |-> group.key_ids[dependent[i]]])
      columns == [k \in DOMAIN group.keys |-> [group.keys[k] EXCEPT !.id = group.key_ids[k]]]
                   \o [i \in DOMAIN group.calls |-> [id |-> group.calls[i].id, type |-> "bigint"]]
      nothing == [i \in DOMAIN columns |-> Leaf("none", "none", NoId, 0)]
  IN  IF compute.op /= "compute" \/ dependent = <<>> THEN group
      ELSE Project(above, columns, nothing, Ids(columns))

(* A mutant: the groups a LIMIT cuts off are rewritten too. *)
RECURSIVE DependentKeysEverywhere(_, _)
DependentKeysEverywhere(node, limited) ==
  LET current == WithInputs(node, [k \in DOMAIN node.inputs |->
                                     DependentKeysEverywhere(node.inputs[k], limited)])
  IN  IF current.op = "group" /\ current.inputs[1].op = "compute"
      THEN GroupByDeterminingKeys(current) ELSE current

(* `limited`: the nodes above may stop reading before the last row. *)
RECURSIVE DependentKeys(_, _)
DependentKeys(node, limited) ==
  LET here == node.op = "limit" \/ (limited /\ node.op /= "sort")
      below == here /\ node.op \notin {"group", "set"}
      current == WithInputs(node, [k \in DOMAIN node.inputs |-> DependentKeys(node.inputs[k], below)])
  IN  IF current.op = "group" /\ ~here /\ current.inputs[1].op = "compute"
      THEN GroupByDeterminingKeys(current) ELSE current

RECURSIVE LimitBelowProject(_)
LimitBelowProject(node) ==
  IF node.op = "limit" /\ node.inputs[1].op \in {"project", "compute"}
  THEN Over(node.inputs[1], LimitBelowProject(Over(node, node.inputs[1].inputs[1])))
  ELSE WithInputs(node, [k \in DOMAIN node.inputs |-> LimitBelowProject(node.inputs[k])])

(***************************************************************************)
(* Pruning.  `needed` holds the columns the output must keep, and possibly *)
(* columns of another branch, which match nothing here.                    *)
(***************************************************************************)
NeededAbove(node, needed) == Range(OutputIds(node)) \cap needed

(* What a Join asks of both its inputs. *)
JoinAsks(node, needed) == needed \cup ReadsOf(node)

RECURSIVE Prune(_, _)
Prune(node, needed) ==
  LET Each(asked) == [k \in DOMAIN node.inputs |-> Prune(node.inputs[k], asked)]
  IN  CASE node.op = "scan" ->
             LET kept == SelectSeq([i \in DOMAIN node.ids |-> i], LAMBDA i : node.ids[i] \in needed)
             IN  Scan(node.table, [i \in DOMAIN kept |-> node.fields[kept[i]]],
                      [i \in DOMAIN kept |-> node.ids[kept[i]]])
        [] node.op = "filter" ->
             WithInputs([node EXCEPT !.needed = NeededAbove(node, needed)],
                        Each(needed \cup ReadsOf(node)))
        [] node.op = "compute" ->
             LET kept == SelectSeq([i \in DOMAIN node.ids |-> i], LAMBDA i : node.ids[i] \in needed)
                 exprs == [i \in DOMAIN kept |-> node.exprs[kept[i]]]
                 below == Prune(node.inputs[1], needed \cup ExprIds(exprs))
             IN  IF kept = <<>> THEN below
                 ELSE Compute(below, exprs, [i \in DOMAIN kept |-> node.ids[kept[i]]])
        [] node.op \in {"project", "aggregate", "group", "grouping_sets"} ->
             WithInputs(node, Each(ReadsOf(node)))
        [] node.op \in {"sort", "limit"} -> WithInputs(node, Each(needed \cup ReadsOf(node)))
        [] node.op \in {"row_count", "dependent"} -> node
        [] node.op = "join" ->
             WithInputs([node EXCEPT !.needed = NeededAbove(node, needed)],
                        Each(JoinAsks(node, needed)))
        [] node.op \in {"union_all", "set"} ->
             WithInputs(node, [k \in DOMAIN node.inputs |->
                                 Prune(node.inputs[k], ColumnIds(node.columns[k]))])

-----------------------------------------------------------------------------
(***************************************************************************)
(* WHERE conditions over a UNION ALL moved into its branches, and the      *)
(* branches they rule out dropped (src/plan/union_branches.cc and          *)
(* src/plan/branch_truth.cc).  A constant is a constant expression, or     *)
(* NotConstant where nothing says a column is one.                         *)
(***************************************************************************)

NotConstant == Leaf("none", "none", NoId, 0)

(* A constant as the wider type: integers only, and exactly. *)
Widen(constant, to) ==
  IF constant.type = to THEN constant
  ELSE IF constant.value /= Null /\ IsExactWidening(constant.type, to)
  THEN [constant EXCEPT !.type = to] ELSE NotConstant

PositionOf(ids, id) == Max({0} \cup {i \in DOMAIN ids : ids[i] = id})

(* The constant a column holds in every row of `node`. *)
RECURSIVE ConstantColumn(_, _)
ConstantColumn(node, id) ==
  LET at == IF node.op \in {"compute", "project"} THEN PositionOf(node.ids, id) ELSE 0
  IN  CASE node.op \in {"filter", "sort", "limit"} -> ConstantColumn(node.inputs[1], id)
        [] node.op = "compute" ->
             IF at = 0 THEN ConstantColumn(node.inputs[1], id)
             ELSE LET expr == node.exprs[at]
                  IN  IF expr.e = "constant" THEN expr
                      ELSE IF expr.e = "cast" /\ expr.args[1].e = "column"
                      THEN LET from == ConstantColumn(node.inputs[1], expr.args[1].id)
                           IN  IF from = NotConstant \/ from.type /= expr.args[1].type
                               THEN NotConstant ELSE Widen(from, expr.type)
                      ELSE NotConstant
        [] node.op = "project" ->
             IF at = 0 \/ node.constants[at].type /= node.columns[at].type
             THEN NotConstant ELSE node.constants[at]
        [] OTHER -> NotConstant

(***************************************************************************)
(* What a predicate is over the constants of its columns.                  *)
(***************************************************************************)
IsNull(c) == c.e = "constant" /\ c.value = Null

(* The order of two constants is decided for the exact types alone. *)
Ordered2(a, b) == {a.type, b.type} \cap {"double", "boolean", "none"} = {}

TruthOf(holds) == IF holds THEN "always" ELSE "never"
CompareTruth(op, a, b) ==
  IF ~Ordered2(a, b) THEN "unknown"
  ELSE CASE op = "=" -> TruthOf(a.value = b.value)
         [] op = "<>" -> TruthOf(a.value /= b.value)
         [] op = "<" -> TruthOf(a.value < b.value)
         [] op = ">=" -> TruthOf(a.value >= b.value)

OfItsType(column, value) == column /= None /\ value /= NotConstant /\ value.type = column.type

InList(values, value) ==
  IF values = <<>> \/ \E v \in Range(values) : v.type /= value.type \/ ~Ordered2(v, value)
                                                \/ IsNull(v)
  THEN "unknown"
  ELSE TruthOf(\E v \in Range(values) : v.value = value.value)

Negated(truth) ==
  CASE truth = "always" -> "never" [] truth = "never" -> "always" [] truth = "unknown" -> "unknown"

TruthOver(p, column, other) ==
  LET mine == OfItsType(p.column, column)
  IN  IF p.kind = "is_null"
      THEN IF IsNull(column) THEN "always" ELSE IF mine THEN "never" ELSE "unknown"
      ELSE IF p.kind /= "false" /\ (IsNull(column) \/ IsNull(other)) THEN "never"
      ELSE CASE p.kind = "compare" ->
                  IF mine /\ p.values[1].type = column.type
                  THEN CompareTruth(p.op, column, p.values[1]) ELSE "unknown"
             [] p.kind = "compare_columns" ->
                  IF mine /\ OfItsType(p.other, other)
                  THEN CompareTruth(p.op, column, other) ELSE "unknown"
             [] p.kind = "in" -> IF mine THEN InList(p.values, column) ELSE "unknown"
             [] p.kind = "not_in" -> IF mine THEN Negated(InList(p.values, column)) ELSE "unknown"
             [] p.kind = "is_not_null" -> IF mine THEN "always" ELSE "unknown"
             [] p.kind = "false" -> "never"
             [] p.kind = "is_true" -> "unknown"

(* The column of the branch that the union's column `column` reads. *)
SourceOf(union, branch, column) == union.columns[branch][PositionOf(union.ids, column.id)]

TruthInBranch(union, branch, p) ==
  LET ConstantOf(column) ==
        IF column = None THEN NotConstant
        ELSE LET source == SourceOf(union, branch, column)
                 value == ConstantColumn(union.inputs[branch], source.id)
             IN  IF value.type = source.type THEN value ELSE NotConstant
  IN  TruthOver(p, ConstantOf(p.column), ConstantOf(p.other))

(* The predicate over the branch's columns, each with the type it was bound to. *)
InBranch(union, branch, p) ==
  LET InThisBranch(column) ==
        IF column = None THEN None
        ELSE [column EXCEPT !.id = SourceOf(union, branch, column).id]
  IN  [p EXCEPT !.column = InThisBranch(p.column), !.other = InThisBranch(p.other)]

Movable(filter) ==
  LET union == filter.inputs[1]
  IN  /\ filter.predicates /= <<>>
      /\ \A p \in Range(filter.predicates) :
           /\ p.kind /= "false" /\ p.column /= None
           /\ PredicateIds(p) \subseteq Range(union.ids)

RECURSIVE FilterIntoUnionBranches(_)
FilterIntoUnionBranches(node) ==
  IF node.op = "filter" /\ node.inputs[1].op = "union_all" /\ Movable(node)
  THEN LET union == node.inputs[1]
           Truth(k, p) == TruthInBranch(union, k, p)
           live == SelectSeq([k \in DOMAIN union.inputs |-> k],
                     LAMBDA k : \A p \in Range(node.predicates) : Truth(k, p) /= "never")
           Undecided(k) == SelectSeq(node.predicates, LAMBDA p : Truth(k, p) = "unknown")
           Moved(k) == [i \in DOMAIN Undecided(k) |-> InBranch(union, k, Undecided(k)[i])]
           Branch(k) == IF Undecided(k) = <<>> THEN union.inputs[k]
                        ELSE Filter(union.inputs[k], Moved(k))
       IN  IF live = <<>>
           THEN Filter(UnionAll(<<FilterIntoUnionBranches(union.inputs[1])>>,
                                <<union.columns[1]>>, union.ids),
                       <<[kind |-> "false", column |-> None, other |-> None, op |-> "=",
                          values |-> <<>>]>>)
           ELSE UnionAll([i \in DOMAIN live |-> FilterIntoUnionBranches(Branch(live[i]))],
                         [i \in DOMAIN live |-> union.columns[live[i]]], union.ids)
  ELSE WithInputs(node, [k \in DOMAIN node.inputs |-> FilterIntoUnionBranches(node.inputs[k])])
-----------------------------------------------------------------------------
CONSTANTS
  Plans,             \* the plans the binder may hand over
  Unnested(_),       \* Unnest
  After(_, _),       \* RuleApplied
  Answers(_),        \* Answered
  ResolvesTo(_, _)   \* ResolvePositions

VARIABLES
  plan,              \* the plan after the passes so far
  pass,              \* the next pass, or how Optimize ended
  output,            \* LogicalPlan::output of the bound plan
  answer             \* what the bound plan answers

vars == <<plan, pass, output, answer>>

(* The rewrites after the unnesting, by name. *)
RuleApplied(rule, node) ==
  CASE rule = "branches" -> FilterIntoUnionBranches(node)
    [] rule = "count" -> CountStarToRowCount(node)
    [] rule = "keys" -> DependentKeys(node, FALSE)
    [] rule = "limit" -> LimitBelowProject(node)
    [] rule = "exchange" -> ExchangeAggregates(node, MaxColumnId(node)).node
    [] rule = "prune" -> Prune(node, Range(OutputIds(node)))

Init ==
  /\ plan \in Plans
  /\ pass = "unnest"
  /\ output = OutputIds(plan)
  /\ answer = Answers(plan)

UnnestPass ==
  /\ pass = "unnest"
  /\ \E out \in {Unnested(plan)} :
       IF out.status /= "ok" THEN pass' = out.status /\ UNCHANGED plan
       ELSE pass' = "branches" /\ plan' = out.node
  /\ UNCHANGED <<output, answer>>

Pass(rule, next) ==
  /\ pass = rule
  /\ pass' = next
  /\ plan' = After(rule, plan)
  /\ UNCHANGED <<output, answer>>

BranchesPass == Pass("branches", "count")
CountStarPass == Pass("count", "keys")
DependentKeysPass == Pass("keys", "limit")
LimitPass == Pass("limit", "exchange")
ExchangePass == Pass("exchange", "prune")
PrunePass == Pass("prune", "resolve")

(* A dependent join still in the plan is an internal error, and a plan that   *)
(* does not resolve aborts the process.                                       *)
ResolvePass ==
  /\ pass = "resolve"
  /\ pass' = IF HasDependentJoin(plan) THEN "internal_error"
             ELSE IF ResolvesTo(plan, output) THEN "done" ELSE "aborted"
  /\ UNCHANGED <<plan, output, answer>>

Next ==
  \/ UnnestPass
  \/ BranchesPass
  \/ CountStarPass
  \/ DependentKeysPass
  \/ LimitPass
  \/ ExchangePass
  \/ PrunePass
  \/ ResolvePass

Spec == Init /\ [][Next]_vars

(* No pass changes the answer: where neither the bound plan nor the plan so    *)
(* far fails, they output the same rows as often (src/plan/optimizer.cc, every *)
(* rewrite from Unnest to Prune).                                              *)
SameAnswer ==
  LET now == Answers(plan)
  IN  (~answer.fails /\ ~now.fails) => now.rows = answer.rows

(* After every pass the plan still resolves: its columns are created once,     *)
(* every column a node reads is in its input exactly once, the shape of each   *)
(* node is legal, and the root outputs the bound columns in order.  So         *)
(* Optimize neither aborts nor reports a bug of its own: a free variable left  *)
(* in a rewritten join, or a dependent join left in the plan (Path1, Path2,    *)
(* ResolvePositions and the end of Optimize).                                  *)
PlanResolves ==
  /\ ResolvesTo(plan, output)
  /\ pass \notin {"unnest", "refused"} => ~HasDependentJoin(plan)
  /\ pass \notin {"internal_error", "aborted"}

(* Whether the query fails, once the columns nothing reads are gone. *)
Fails(node) == Answers(After("prune", node)).fails

(* The plan without the branches of filtered unions that give no row the       *)
(* filter keeps.                                                               *)
RECURSIVE WithoutEmptyBranches(_)
WithoutEmptyBranches(node) ==
  LET union == node.inputs[1]
      Only(ks) == UnionAll([i \in DOMAIN ks |-> union.inputs[ks[i]]],
                           [i \in DOMAIN ks |-> union.columns[ks[i]]], union.ids)
      Keeps(k) == DOMAIN Answers(Filter(Only(<<k>>), node.predicates)).rows /= {}
  IN  IF node.op = "filter" /\ union.op = "union_all"
      THEN WithInputs(node, <<Only(SelectSeq([k \in DOMAIN union.inputs |-> k], Keeps))>>)
      ELSE WithInputs(node, [k \in DOMAIN node.inputs |-> WithoutEmptyBranches(node.inputs[k])])

(* Whether the query fails does not depend on the rules that keep its rows: an *)
(* expression moved above a grouping, or a limit moved below one, is still     *)
(* computed for every row it was computed for (DependentKeys' `limited`,       *)
(* LimitBelowProject, CountStarToRowCount).  Moving a WHERE clause into a      *)
(* union makes no query fail, and leaves unreported only the failure of a      *)
(* branch that gives no row the clause keeps: such a branch may be ruled out   *)
(* and never run (FilterIntoUnionBranches; docs/sql-subset.md:1371-1373).      *)
FailuresKeptBy(rule, before, after) ==
  IF rule /= "branches" THEN Fails(after) = Fails(before)
  ELSE /\ Fails(after) => Fails(before)
       /\ Fails(WithoutEmptyBranches(before)) => Fails(after)
==============================================================================
