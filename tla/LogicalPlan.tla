----------------------------- MODULE LogicalPlan -----------------------------
(***************************************************************************)
(* Logical plans and their column ids (src/plan/logical_plan.cc), with the *)
(* row estimates the rules read off a plan (src/plan/join_order.cc).       *)
(*                                                                         *)
(* A node is a record: `op` is its kind, `inputs` the sequence of its      *)
(* inputs, and the other fields are the code's.  A column is its id and    *)
(* its type; a position is nothing but the place of an id among the ids of *)
(* the input, so a plan has no other index.  An expression is a record of  *)
(* its kind, its type and its operands.  std::nullopt is Unknown for a     *)
(* count and None for a column or a set.                                   *)
(***************************************************************************)
EXTENDS JoinOrder, JoinKind, TLC

NoId == 0                         \* kNoColumnId
None == [id |-> NoId, type |-> "none"]
NotRecorded == {NoId}             \* a needed_above no pass has set

Types == {"integer", "bigint", "double", "boolean"}

(* IsExactWidening and KeyType: the type two keys are compared in. *)
IsExactWidening(from, to) == from = to \/ (from = "integer" /\ to = "bigint")
KeyType(a, b) ==
  IF {"double", "boolean"} \cap {a, b} /= {} THEN "none"
  ELSE IF IsExactWidening(a, b) THEN b
  ELSE IF IsExactWidening(b, a) THEN a ELSE "none"

(***************************************************************************)
(* Expressions.                                                            *)
(***************************************************************************)
Leaf(e, type, id, value) == [e |-> e, type |-> type, id |-> id, value |-> value, args |-> <<>>]
ColumnExpr(c) == Leaf("column", c.type, c.id, 0)
ConstantExpr(value, type) == Leaf("constant", type, NoId, value)
Applied(e, type, args) == [e |-> e, type |-> type, id |-> NoId, value |-> 0, args |-> args]

Children(expr) == expr.args

(* MapColumns, the columns of `renamed` replaced. *)
RECURSIVE MapColumns(_, _)
MapColumns(expr, renamed) ==
  IF expr.e = "column"
  THEN IF expr.id \in DOMAIN renamed THEN [expr EXCEPT !.id = renamed[expr.id]] ELSE expr
  ELSE [expr EXCEPT !.args = [i \in DOMAIN expr.args |-> MapColumns(expr.args[i], renamed)]]

RECURSIVE CollectColumnIds(_)
CollectColumnIds(expr) ==
  IF expr.e = "column" THEN {expr.id}
  ELSE UNION {CollectColumnIds(Children(expr)[i]) : i \in DOMAIN Children(expr)}

WidenTo(expr, type) == IF expr.type = type THEN expr ELSE Applied("cast", type, <<expr>>)

(***************************************************************************)
(* Nodes.                                                                  *)
(***************************************************************************)
Scan(table, fields, ids) ==
  [op |-> "scan", inputs |-> <<>>, table |-> table, fields |-> fields, ids |-> ids]
Filter(input, predicates) ==
  [op |-> "filter", inputs |-> <<input>>, predicates |-> predicates, needed |-> NotRecorded]
Compute(input, exprs, ids) ==
  [op |-> "compute", inputs |-> <<input>>, exprs |-> exprs, ids |-> ids]
\* `constants` holds a constant expression where a column is one, and None's type elsewhere.
Project(input, columns, constants, ids) ==
  [op |-> "project", inputs |-> <<input>>, columns |-> columns, constants |-> constants, ids |-> ids]
Aggregate(input, calls) == [op |-> "aggregate", inputs |-> <<input>>, calls |-> calls]
GroupAggregate(input, keys, key_ids, calls) ==
  [op |-> "group", inputs |-> <<input>>, keys |-> keys, key_ids |-> key_ids, calls |-> calls]
GroupingSets(input, keys, key_ids, sets, calls, grouping) ==
  [op |-> "grouping_sets", inputs |-> <<input>>, keys |-> keys, key_ids |-> key_ids,
   sets |-> sets, calls |-> calls, grouping |-> grouping]
Sort(input, keys) == [op |-> "sort", inputs |-> <<input>>, keys |-> keys]
Limit(input, rows) == [op |-> "limit", inputs |-> <<input>>, rows |-> rows]
RowCount(table, id) == [op |-> "row_count", inputs |-> <<>>, table |-> table, id |-> id]
Join(kind, left, right, keys, residual, build, estimate) ==
  [op |-> "join", inputs |-> <<left, right>>, kind |-> kind, keys |-> keys,
   residual |-> residual, build |-> build, estimate |-> estimate, needed |-> NotRecorded]
DependentJoin(kind, left, right) ==
  [op |-> "dependent", inputs |-> <<left, right>>, kind |-> kind, mark |-> NoId]
UnionAll(inputs, columns, ids) ==
  [op |-> "union_all", inputs |-> inputs, columns |-> columns, ids |-> ids]
SetOperation(inputs, columns, ids, formula) ==
  [op |-> "set", inputs |-> inputs, columns |-> columns, ids |-> ids, formula |-> formula]

Call(kind, arg, id) == [kind |-> kind, arg |-> arg, id |-> id]
JoinKey(left, right) == [left |-> left, right |-> right]
IsConstant(node, i) == node.constants[i].e = "constant"

WithInputs(node, inputs) == [node EXCEPT !.inputs = inputs]

Ids(columns) == [i \in DOMAIN columns |-> columns[i].id]
Ascending(ids) == SelectSeq([i \in 1..Max(ids \cup {0}) |-> i], LAMBDA i : i \in ids)
Flat(seqs) == FoldLeft(LAMBDA out, s : out \o s, <<>>, seqs)
JoinIds(kind, left, right, own) ==
  left \o (IF Traits(kind)["outputs_right"] THEN right ELSE <<>>)
       \o (IF own = NoId THEN <<>> ELSE <<own>>)

RECURSIVE OutputIds(_)
OutputIds(node) ==
  CASE node.op \in {"scan", "project", "union_all", "set"} -> node.ids
    [] node.op \in {"filter", "sort", "limit"} -> OutputIds(node.inputs[1])
    [] node.op = "compute" -> OutputIds(node.inputs[1]) \o node.ids
    [] node.op = "aggregate" -> Ids(node.calls)
    [] node.op = "group" -> node.key_ids \o Ids(node.calls)
    [] node.op = "grouping_sets" -> node.key_ids \o Ids(node.calls) \o Ids(node.grouping)
    [] node.op = "row_count" -> <<node.id>>
    [] node.op = "join" ->
         JoinIds(node.kind, OutputIds(node.inputs[1]), OutputIds(node.inputs[2]), NoId)
    [] node.op = "dependent" ->
         JoinIds(node.kind, OutputIds(node.inputs[1]), OutputIds(node.inputs[2]), node.mark)

(***************************************************************************)
(* The ids a node reads and defines.                                       *)
(***************************************************************************)
IdsOf(columns) == {c.id : c \in columns \ {None}}
PredicateIds(p) == IdsOf({p.column, p.other})
ColumnIds(columns) == IdsOf(Range(columns))
ArgIds(calls) == IdsOf({c.arg : c \in Range(calls)})
ExprIds(exprs) == UNION {CollectColumnIds(exprs[i]) : i \in DOMAIN exprs}

(* The ids of a node's references, kNoColumnId for one that has none. *)
References(node) ==
  CASE node.op \in {"scan", "limit", "row_count", "dependent"} -> {}
    [] node.op = "filter" ->
         UNION {PredicateIds(node.predicates[i]) : i \in DOMAIN node.predicates}
    [] node.op = "compute" -> ExprIds(node.exprs)
    [] node.op = "project" ->
         {node.columns[i].id : i \in {j \in DOMAIN node.columns : ~IsConstant(node, j)}}
    [] node.op = "aggregate" -> ArgIds(node.calls)
    [] node.op \in {"group", "grouping_sets"} -> ColumnIds(node.keys) \cup ArgIds(node.calls)
    [] node.op = "sort" -> ColumnIds(node.keys)
    [] node.op = "join" -> UNION {{k.left.id, k.right.id} : k \in Range(node.keys)}
                             \cup ExprIds(node.residual)
    [] node.op \in {"union_all", "set"} -> UNION {ColumnIds(c) : c \in Range(node.columns)}

ReadsOf(node) == References(node) \ {NoId}

(* The columns a node creates, in order: a Project's column that keeps the id *)
(* it reads passes it through, and a dependent join without a mark has none.  *)
Created(node) ==
  CASE node.op \in {"scan", "compute", "union_all", "set"} -> node.ids
    [] node.op = "project" ->
         LET new == SelectSeq([i \in DOMAIN node.ids |-> i],
                      LAMBDA i : node.ids[i] /= node.columns[i].id \/ node.ids[i] = NoId)
         IN  [k \in DOMAIN new |-> node.ids[new[k]]]
    [] node.op = "aggregate" -> Ids(node.calls)
    [] node.op = "group" -> node.key_ids \o Ids(node.calls)
    [] node.op = "grouping_sets" -> node.key_ids \o Ids(node.calls) \o Ids(node.grouping)
    [] node.op = "row_count" -> <<node.id>>
    [] node.op = "dependent" -> IF node.mark = NoId THEN <<>> ELSE <<node.mark>>
    [] node.op \in {"filter", "sort", "limit", "join"} -> <<>>

DefinesOf(node) ==
  (IF node.op = "project" THEN Range(node.ids) ELSE Range(Created(node))) \ {NoId}

(* CollectIds: over the whole tree. *)
RECURSIVE CollectReads(_)
CollectReads(node) == ReadsOf(node) \cup UNION {CollectReads(i) : i \in Range(node.inputs)}
RECURSIVE CollectDefines(_)
CollectDefines(node) == DefinesOf(node) \cup UNION {CollectDefines(i) : i \in Range(node.inputs)}

MaxColumnId(node) == Max({NoId} \cup CollectReads(node) \cup CollectDefines(node))
FreeVariables(node) == CollectReads(node) \ CollectDefines(node)

(***************************************************************************)
(* CloneWithFreshIds: the inputs first, then a minted id for every column  *)
(* the node creates and a renamed one for every column it reads.           *)
(***************************************************************************)
Rename(column, renamed) ==
  IF column.id \in DOMAIN renamed THEN [column EXCEPT !.id = renamed[column.id]] ELSE column
RenameAll(columns, renamed) == [i \in DOMAIN columns |-> Rename(columns[i], renamed)]
RenameCalls(calls, renamed) ==
  [i \in DOMAIN calls |-> Rename([calls[i] EXCEPT !.arg = Rename(calls[i].arg, renamed)], renamed)]
NewId(id, renamed) == IF id \in DOMAIN renamed THEN renamed[id] ELSE id
NewIds(ids, renamed) == [i \in DOMAIN ids |-> NewId(ids[i], renamed)]

(* Every column `created` but kNoColumnId, numbered on from `last`. *)
Mint(created, last) ==
  LET real == SelectSeq(created, LAMBDA id : id /= NoId)
  IN  [id \in Range(real) |-> last + (CHOOSE i \in DOMAIN real : real[i] = id)]

FreshIds(node, renamed) ==
  CASE node.op = "scan" -> [node EXCEPT !.ids = NewIds(@, renamed)]
    [] node.op = "filter" ->
         [node EXCEPT !.predicates = [i \in DOMAIN @ |->
                         [@[i] EXCEPT !.column = Rename(@, renamed), !.other = Rename(@, renamed)]],
                      !.needed = NotRecorded]
    [] node.op = "compute" ->
         [node EXCEPT !.exprs = [i \in DOMAIN @ |-> MapColumns(@[i], renamed)],
                      !.ids = NewIds(@, renamed)]
    [] node.op = "project" ->
         [node EXCEPT !.columns = RenameAll(@, renamed), !.ids = NewIds(@, renamed)]
    [] node.op = "aggregate" -> [node EXCEPT !.calls = RenameCalls(@, renamed)]
    [] node.op = "group" ->
         [node EXCEPT !.keys = RenameAll(@, renamed), !.key_ids = NewIds(@, renamed),
                      !.calls = RenameCalls(@, renamed)]
    [] node.op = "grouping_sets" ->
         [node EXCEPT !.keys = RenameAll(@, renamed), !.key_ids = NewIds(@, renamed),
                      !.calls = RenameCalls(@, renamed), !.grouping = RenameAll(@, renamed)]
    [] node.op = "sort" -> [node EXCEPT !.keys = RenameAll(@, renamed)]
    [] node.op = "limit" -> node
    [] node.op = "row_count" -> [node EXCEPT !.id = NewId(@, renamed)]
    [] node.op = "join" ->
         [node EXCEPT !.keys = [i \in DOMAIN @ |-> JoinKey(Rename(@[i].left, renamed),
                                                          Rename(@[i].right, renamed))],
                      !.residual = [i \in DOMAIN @ |-> MapColumns(@[i], renamed)]]
    [] node.op = "dependent" -> [node EXCEPT !.mark = NewId(@, renamed)]
    [] node.op \in {"union_all", "set"} ->
         [node EXCEPT !.columns = [i \in DOMAIN @ |-> RenameAll(@[i], renamed)],
                      !.ids = NewIds(@, renamed)]

(* [inputs, renamed, last] after the inputs up to the k-th; Cloned is the node. *)
RECURSIVE Cloned(_, _, _)
Cloned(node, renamed, last) ==
  LET start == [inputs |-> <<>>, renamed |-> renamed, last |-> last]
      Next1(done, input) ==
        LET c == Cloned(input, done.renamed, done.last)
        IN  [inputs |-> Append(done.inputs, c.node), renamed |-> c.renamed, last |-> c.last]
      below == FoldLeft(Next1, start, node.inputs)
      minted == Mint(Created(node), below.last)
      all == minted @@ below.renamed
  IN  [node |-> WithInputs(FreshIds(node, all), below.inputs), renamed |-> all,
       last |-> below.last + Cardinality(DOMAIN minted)]

(* A mutant: the clone keeps the ids of what it cloned. *)
CloneWithSameIds(node, last) == [node |-> node, last |-> last]

CloneWithFreshIds(node, last) ==
  LET c == Cloned(node, << >>, last) IN [node |-> c.node, last |-> c.last]

(***************************************************************************)
(* ResolvePositions: the invariants a plan must have.  `bound` holds, one  *)
(* set for each dependent join on the path, the columns its right input    *)
(* may read as free variables.                                             *)
(***************************************************************************)
MaxGroupingArgs == 63

InIds(id, ids) == Cardinality({i \in DOMAIN ids : ids[i] = id}) = 1

(* A reference has an id, once among the ids of its input or else of the      *)
(* innermost dependent join that binds it.                                    *)
Resolves(id, ids, bound) ==
  LET frames == {d \in DOMAIN bound : id \in Range(bound[d])}
  IN  /\ id /= NoId
      /\ IF id \in Range(ids) THEN InIds(id, ids)
         ELSE frames /= {} /\ InIds(id, bound[Max(frames)])

(* CheckSetFormula: in postfix order, one tree over every input, in order,    *)
(* whose root is an operator.                                                 *)
CheckSetFormula(formula, inputs) ==
  LET Term(done, term) ==
        IF term.kind = "input"
        THEN [ok |-> done.ok /\ term.input = done.next, next |-> done.next + 1,
              depth |-> done.depth + 1]
        ELSE [ok |-> done.ok /\ term.operands \in 1..done.depth, next |-> done.next,
              depth |-> done.depth - (term.operands - 1)]
      end == FoldLeft(Term, [ok |-> TRUE, next |-> 1, depth |-> 0], formula)
  IN  /\ formula /= <<>>
      /\ end.ok /\ end.next = inputs + 1 /\ end.depth = 1
      /\ Last(formula).kind /= "input"

ColumnsAgree(node) ==
  /\ node.inputs /= <<>> /\ Len(node.columns) = Len(node.inputs)
  /\ \A k \in DOMAIN node.columns :
       /\ Len(node.columns[k]) = Len(node.ids)
       /\ \A i \in DOMAIN node.ids : node.columns[k][i].type = node.columns[1][i].type

NodeShape(node) ==
  CASE node.op = "scan" -> Len(node.ids) = Len(node.fields)
    [] node.op = "compute" -> Len(node.ids) = Len(node.exprs)
    [] node.op = "project" -> Len(node.ids) = Len(node.columns)
    [] node.op = "group" -> Len(node.key_ids) = Len(node.keys)
    [] node.op = "grouping_sets" ->
         /\ Len(node.key_ids) = Len(node.keys) /\ node.sets /= <<>>
         /\ \A s \in Range(node.sets) : s \subseteq DOMAIN node.keys
         /\ \A g \in Range(node.grouping) : /\ Len(g.args) \in 1..MaxGroupingArgs
                                             /\ Range(g.args) \subseteq DOMAIN node.keys
    [] node.op = "join" ->
         LET t == Traits(node.kind)
         IN  /\ t["keyless"] = (node.keys = <<>>)
             /\ node.build = "left" => ~t["keyless"] /\ ~t["pads_left"]
             /\ \A k \in Range(node.keys) : k.left.type = k.right.type
             /\ \A r \in Range(node.residual) : r.type = "boolean"
    [] node.op = "dependent" -> node.kind \in {"semi", "anti", "one_row"}
    [] node.op = "union_all" -> ColumnsAgree(node)
    [] node.op = "set" -> ColumnsAgree(node) /\ CheckSetFormula(node.formula, Len(node.inputs))
    [] node.op \in {"filter", "aggregate", "sort", "limit", "row_count"} -> TRUE

ReadsResolve(node, bound) ==
  LET out == [k \in DOMAIN node.inputs |-> OutputIds(node.inputs[k])]
  IN  CASE node.op = "join" ->
             /\ \A k \in Range(node.keys) : /\ Resolves(k.left.id, out[1], bound)
                                            /\ Resolves(k.right.id, out[2], bound)
             /\ \A id \in ExprIds(node.residual) : Resolves(id, out[1] \o out[2], bound)
        [] node.op \in {"union_all", "set"} ->
             \A k \in DOMAIN node.inputs :
               \A c \in Range(node.columns[k]) : Resolves(c.id, out[k], bound)
        [] OTHER -> \A id \in References(node) : Resolves(id, out[1], bound)

RECURSIVE Walk(_, _)
Walk(node, bound) ==
  /\ NodeShape(node)
  /\ ReadsResolve(node, bound)
  /\ \A k \in DOMAIN node.inputs :
       Walk(node.inputs[k],
            IF node.op = "dependent" /\ k = 2 THEN Append(bound, OutputIds(node.inputs[1])) ELSE bound)

RECURSIVE AllCreated(_)
AllCreated(node) ==
  Flat([k \in DOMAIN node.inputs |-> AllCreated(node.inputs[k])]) \o Created(node)

ResolvePositions(node, output) ==
  /\ Walk(node, <<>>)
  /\ NoId \notin Range(AllCreated(node)) /\ IsInjective(AllCreated(node))
  /\ OutputIds(node) = output

(***************************************************************************)
(* Estimates.  A table is its rows and whether its footers are known: the  *)
(* exact row count and, of each field, the range of its values.            *)
(***************************************************************************)
Null == -9

ExactRowCount(table) == IF table.known THEN Len(table.rows) ELSE Unknown

KeyDomain(table, field) ==
  LET values == {table.rows[i][field] : i \in DOMAIN table.rows} \ {Null}
      non_null == Cardinality({i \in DOMAIN table.rows : table.rows[i][field] /= Null})
  IN  IF ~table.known THEN Unknown
      ELSE IF values = {} THEN 0
      ELSE Min({Max(values) - Min(values) + 1, non_null})

(* The rows of a set operation's formula, a stack of estimates. *)
FormulaRows(formula, rows) ==
  LET Sum(counts) == FoldLeft(+, 0, counts)
      Term(stack, term) ==
        LET keep == SubSeq(stack, 1, Len(stack) - term.operands)
            top == SubSeq(stack, Len(stack) - term.operands + 1, Len(stack))
            known == Range(top) \ {Unknown}
        IN  CASE term.kind = "input" -> Append(stack, rows[term.input])
              [] term.kind = "union" ->
                   Append(keep, IF Unknown \in Range(top) THEN Unknown ELSE Saturated(Sum(top)))
              [] term.kind = "intersect" -> Append(keep, IF known = {} THEN Unknown ELSE Min(known))
              [] term.kind = "except" -> Append(keep, top[1])
  IN  FoldLeft(Term, <<>>, formula)[1]

RECURSIVE EstimateRows(_)
EstimateRows(node) ==
  LET rows == [k \in DOMAIN node.inputs |-> EstimateRows(node.inputs[k])]
  IN  CASE node.op = "scan" -> ExactRowCount(node.table)
        [] node.op \in {"filter", "compute", "project", "group", "sort", "limit", "dependent"} ->
             rows[1]
        [] node.op \in {"aggregate", "row_count"} -> 1
        [] node.op = "join" -> node.estimate
        [] node.op = "union_all" ->
             IF Unknown \in Range(rows) THEN Unknown ELSE Saturated(FoldLeft(+, 0, rows))
        [] node.op = "set" -> IF CheckSetFormula(node.formula, Len(rows))
                              THEN FormulaRows(node.formula, rows) ELSE Unknown
        [] node.op = "grouping_sets" ->
             IF rows[1] = Unknown THEN Unknown ELSE Saturated(Max({rows[1], 1}) * Len(node.sets))

(* The table and the field of every column a Scan below defines. *)
RECURSIVE ScannedColumns(_)
ScannedColumns(node) ==
  IF node.op = "scan"
  THEN [id \in Range(node.ids) |->
          LET i == CHOOSE i \in DOMAIN node.ids : node.ids[i] = id
          IN  [table |-> node.table, field |-> node.fields[i]]]
  ELSE FoldLeft(LAMBDA found, input : found @@ ScannedColumns(input), << >>, node.inputs)

EachDistinctValues(node, columns) ==
  LET scanned == ScannedColumns(node)
  IN  [i \in DOMAIN columns |->
         IF columns[i] \in DOMAIN scanned
         THEN KeyDomain(scanned[columns[i]].table, scanned[columns[i]].field) ELSE Unknown]

DistinctValues(node, columns) ==
  LET domains == EachDistinctValues(node, columns)
      groups == Saturated(FoldLeft(LAMBDA product, d : Multiplied(product, Max({d, 1})), 1, domains))
      rows == EstimateRows(node)
  IN  IF columns = <<>> \/ Unknown \in Range(domains) THEN Unknown
      ELSE IF rows = Unknown THEN groups ELSE Min({groups, Max({rows, 1})})

-----------------------------------------------------------------------------
(***************************************************************************)
(* What a logical plan answers: the rows of every node, in order, as the   *)
(* node comments of src/plan/include/antb1/plan/logical_plan.h define      *)
(* them.  This is the reference the rules of the optimizer are checked     *)
(* against, and models no code of its own.                                 *)
(*                                                                         *)
(* A row is a function from column ids to values.  An answer is the rows a *)
(* node outputs and whether it fails after them: a node that reads its     *)
(* input row by row has output the rows before the failure, and a Limit    *)
(* that has all its rows never sees it.                                    *)
(***************************************************************************)
Failure == -8                  \* an overflow
NegativeZero == -7             \* -0.0: equal to 0, told apart by a function of it
FailsOn == 3                   \* the value "f" fails on

Answer(rows, fails) == [rows |-> rows, fails |-> fails]
Same0(v) == IF v = NegativeZero THEN 0 ELSE v

RECURSIVE Evaluate(_, _)
Evaluate(expr, row) ==
  LET args == [i \in DOMAIN expr.args |-> Evaluate(expr.args[i], row)]
  IN  CASE expr.e = "column" -> row[expr.id]
        [] expr.e = "constant" -> expr.value
        [] expr.e = "cast" -> args[1]
        [] expr.e = "coalesce" -> IF args[1] = Null THEN args[2] ELSE args[1]
        [] expr.e \in {"arith", "equal", "less"} ->
             IF Failure \in Range(args) THEN Failure
             ELSE IF Null \in Range(args) THEN Null
             ELSE CASE expr.e = "arith" ->
                         IF args[1] = FailsOn THEN Failure
                         ELSE IF args[1] = NegativeZero THEN 1 ELSE args[1] % 2
                    [] expr.e = "equal" -> IF Same0(args[1]) = Same0(args[2]) THEN 1 ELSE 0
                    [] expr.e = "less" -> IF Same0(args[1]) < Same0(args[2]) THEN 1 ELSE 0

Compared(op, a, b) ==
  CASE op = "=" -> a = b
    [] op = "<>" -> a /= b
    [] op = "<" -> a < b
    [] op = ">=" -> a >= b

Holds(p, row) ==
  LET value == IF p.column = None THEN Null ELSE row[p.column.id]
      other == IF p.other = None THEN Null ELSE row[p.other.id]
  IN  CASE p.kind = "is_null" -> value = Null
        [] p.kind = "is_not_null" -> value /= Null
        [] p.kind = "false" -> FALSE
        [] p.kind = "is_true" -> value = 1
        [] p.kind = "compare" -> value /= Null /\ Compared(p.op, Same0(value), p.values[1].value)
        [] p.kind = "compare_columns" ->
             value /= Null /\ other /= Null /\ Compared(p.op, Same0(value), Same0(other))
        [] p.kind = "in" -> value /= Null /\ \E c \in Range(p.values) : c.value = Same0(value)
        [] p.kind = "not_in" -> value /= Null /\ \A c \in Range(p.values) : c.value /= Same0(value)

Sum(values) == FoldLeft(+, 0, values)

Aggregated(call, rows) ==
  LET all == [i \in DOMAIN rows |-> IF call.arg = None THEN 1 ELSE Same0(rows[i][call.arg.id])]
      values == SelectSeq(all, LAMBDA v : v /= Null)
  IN  CASE call.kind \in {"count_star", "count"} -> Len(values)
        [] call.kind = "sum_counts" -> Sum(values)
        [] call.kind = "count_distinct" -> Cardinality(Range(values))
        [] OTHER -> IF values = <<>> THEN Null
                    ELSE CASE call.kind = "sum" -> Sum(values)
                           [] call.kind = "min" -> Min(Range(values))
                           [] call.kind = "max" -> Max(Range(values))
                           [] call.kind = "avg" -> (100 * Sum(values)) \div Len(values)

CallsOver(calls, rows) ==
  [id \in {c.id : c \in Range(calls)} |->
     Aggregated(CHOOSE c \in Range(calls) : c.id = id, rows)]

(* The groups of `rows` by the key columns, in the order of their first row. *)
Grouped(rows, keys, key_ids, calls) ==
  LET KeyOf(row) == [k \in DOMAIN keys |-> Same0(row[keys[k].id])]
      first == SelectSeq([i \in DOMAIN rows |-> i],
                         LAMBDA i : \A j \in 1..i-1 : KeyOf(rows[j]) /= KeyOf(rows[i]))
  IN  [g \in DOMAIN first |->
         LET row == rows[first[g]]
         IN  [id \in Range(key_ids) |-> row[keys[CHOOSE k \in DOMAIN key_ids : key_ids[k] = id].id]]
               @@ CallsOver(calls, SelectSeq(rows, LAMBDA r : KeyOf(r) = KeyOf(row)))]

SortedBefore(keys, a, b) ==
  LET Rank(v) == IF v = Null THEN 1000 ELSE Same0(v)
      tuple(row) == [k \in DOMAIN keys |-> Rank(row[keys[k].id])]
  IN  \E k \in DOMAIN keys : /\ tuple(a)[k] < tuple(b)[k]
                             /\ \A j \in 1..k-1 : tuple(a)[j] = tuple(b)[j]

Ordered(rows, keys) ==
  LET order == SortSeq([i \in DOMAIN rows |-> i],
                       LAMBDA i, j : \/ SortedBefore(keys, rows[i], rows[j])
                                     \/ ~SortedBefore(keys, rows[j], rows[i]) /\ i < j)
  IN  [i \in DOMAIN rows |-> rows[order[i]]]

(* The rows before the first of `rows` that is bad. *)
UpTo(rows, bad) == IF bad = {} THEN rows ELSE SubSeq(rows, 1, Min(bad) - 1)

Padded(ids) == [id \in Range(ids) |-> Null]
Matching(node, l, r) ==
  \A k \in Range(node.keys) : /\ l[k.left.id] /= Null
                              /\ l[k.left.id] = r[k.right.id]
Kept(node, l, r) ==
  \A c \in Range(node.residual) : Evaluate(c, l @@ r) = 1

JoinedRows(node, l, candidates, right_ids) ==
  LET matches == SelectSeq(candidates, LAMBDA r : Kept(node, l, r))
      pairs == [m \in DOMAIN matches |-> l @@ matches[m]]
  IN  CASE node.kind = "inner" -> pairs
        [] node.kind \in {"left", "one_row"} -> IF pairs = <<>> THEN <<l @@ Padded(right_ids)>> ELSE pairs
        [] node.kind = "semi" -> IF pairs = <<>> THEN <<>> ELSE <<l>>
        [] node.kind = "anti" -> IF pairs = <<>> THEN <<l>> ELSE <<>>

RECURSIVE Rows(_, _)
Rows(node, outer) ==
  CASE node.op = "scan" ->
         Answer([i \in DOMAIN node.table.rows |->
                   [id \in Range(node.ids) |->
                      node.table.rows[i][node.fields[CHOOSE k \in DOMAIN node.ids : node.ids[k] = id]]]],
                FALSE)
    [] node.op = "row_count" -> Answer(<<node.id :> Len(node.table.rows)>>, FALSE)
    [] node.op \in {"union_all", "set"} ->
         LET parts == [k \in DOMAIN node.inputs |-> Rows(node.inputs[k], outer)]
             Out(k) == [i \in DOMAIN parts[k].rows |->
                          [id \in Range(node.ids) |->
                             parts[k].rows[i][node.columns[k][CHOOSE n \in DOMAIN node.ids :
                                                                node.ids[n] = id].id]]]
             failing == {k \in DOMAIN parts : parts[k].fails}
             upto == IF failing = {} THEN Len(parts) ELSE Min(failing)
             In(k, row) == row \in Range(Out(k))
             every == Flat([k \in DOMAIN parts |-> Out(k)])
             Inside(row) == node.op = "union_all" \/ node.formula[Len(node.formula)].kind = "union"
                            \/ IF node.formula[Len(node.formula)].kind = "intersect"
                               THEN In(1, row) /\ In(2, row) ELSE In(1, row) /\ ~In(2, row)
             distinct == SelectSeq([i \in DOMAIN every |-> i],
                           LAMBDA i : Inside(every[i]) /\ \A j \in 1..i-1 : every[j] /= every[i])
         IN  IF node.op = "union_all" THEN Answer(Flat([k \in 1..upto |-> Out(k)]), failing /= {})
             ELSE IF failing /= {} THEN Answer(<<>>, TRUE)
             ELSE Answer([i \in DOMAIN distinct |-> every[distinct[i]]], FALSE)
    [] node.op \in {"join", "dependent"} ->
         LET left == Rows(node.inputs[1], outer)
             right_ids == OutputIds(node.inputs[2])
             build == IF node.op = "join" THEN Rows(node.inputs[2], outer) ELSE Answer(<<>>, FALSE)
             right == [i \in DOMAIN left.rows |->
                         IF node.op = "join" THEN build ELSE Rows(node.inputs[2], left.rows[i] @@ outer)]
             as == IF node.op = "join" THEN node ELSE [keys |-> <<>>, residual |-> <<>>, kind |-> node.kind]
             candidates == [i \in DOMAIN left.rows |->
                              SelectSeq(right[i].rows, LAMBDA r : Matching(as, left.rows[i], r))]
             bad == {i \in DOMAIN left.rows :
                       \/ right[i].fails
                       \/ \E r \in Range(candidates[i]) : \E c \in Range(as.residual) :
                            Evaluate(c, left.rows[i] @@ r) = Failure}
             good == IF bad = {} THEN Len(left.rows) ELSE Min(bad) - 1
         IN  IF build.fails THEN Answer(<<>>, TRUE)
             ELSE Answer(Flat([i \in 1..good |->
                           JoinedRows(as, left.rows[i], candidates[i], right_ids)]),
                         bad /= {} \/ left.fails)
    [] OTHER ->
         LET input == Rows(node.inputs[1], outer)
             rows == input.rows
             all == IF input.fails THEN Answer(<<>>, TRUE) ELSE Answer(rows, FALSE)
         IN  CASE node.op = "filter" ->
                    Answer(SelectSeq(rows, LAMBDA r : \A p \in Range(node.predicates) : Holds(p, r @@ outer)),
                           input.fails)
               [] node.op = "compute" ->
                    LET bad == {i \in DOMAIN rows : \E e \in Range(node.exprs) :
                                  Evaluate(e, rows[i] @@ outer) = Failure}
                        good == UpTo(rows, bad)
                    IN  Answer([i \in DOMAIN good |->
                                  [id \in Range(node.ids) |->
                                     Evaluate(node.exprs[CHOOSE k \in DOMAIN node.ids : node.ids[k] = id],
                                              good[i] @@ outer)] @@ good[i]],
                               input.fails \/ bad /= {})
               [] node.op = "project" ->
                    Answer([i \in DOMAIN rows |->
                              [id \in Range(node.ids) |->
                                 LET k == CHOOSE k \in DOMAIN node.ids : node.ids[k] = id
                                 IN  IF IsConstant(node, k) THEN node.constants[k].value
                                     ELSE (rows[i] @@ outer)[node.columns[k].id]]],
                           input.fails)
               [] node.op = "limit" ->
                    IF Len(rows) >= node.rows THEN Answer(SubSeq(rows, 1, node.rows), FALSE) ELSE input
               [] node.op = "sort" -> IF all.fails THEN all ELSE Answer(Ordered(rows, node.keys), FALSE)
               [] node.op = "aggregate" ->
                    IF all.fails THEN all ELSE Answer(<<CallsOver(node.calls, rows)>>, FALSE)
               [] node.op = "group" ->
                    IF all.fails THEN all
                    ELSE Answer(Grouped(rows, node.keys, node.key_ids, node.calls), FALSE)
               [] node.op = "grouping_sets" ->
                    LET Keys(s) == SelectSeq([k \in DOMAIN node.keys |-> k], LAMBDA k : k \in s)
                        Of(s) == LET ks == Keys(s)
                                     groups == IF s = {} THEN <<CallsOver(node.calls, rows)>>
                                               ELSE Grouped(rows, [k \in DOMAIN ks |-> node.keys[ks[k]]],
                                                            [k \in DOMAIN ks |-> node.key_ids[ks[k]]], node.calls)
                                     Bit(bits, k) == 2 * bits + (IF k \in s THEN 0 ELSE 1)
                                     levels == [id \in {c.id : c \in Range(node.grouping)} |->
                                                  FoldLeft(Bit, 0, (CHOOSE c \in Range(node.grouping) :
                                                                      c.id = id).args)]
                                 IN  [g \in DOMAIN groups |-> groups[g] @@ levels @@ Padded(node.key_ids)]
                    IN  IF all.fails THEN all
                        ELSE Answer(Flat([k \in DOMAIN node.sets |-> Of(node.sets[k])]), FALSE)

(* The rows as a bag: how often each one is output, by the output columns in order. *)
Valued(node, row) == LET ids == OutputIds(node) IN [i \in DOMAIN ids |-> Same0(row[ids[i]])]
Answered(node) ==
  LET answer == Rows(node, << >>)
      values == [i \in DOMAIN answer.rows |-> Valued(node, answer.rows[i])]
  IN  [fails |-> answer.fails,
       rows  |-> [v \in Range(values) |-> Cardinality({i \in DOMAIN values : values[i] = v})]]
==============================================================================
