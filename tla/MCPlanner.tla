------------------------------ MODULE MCPlanner ------------------------------
(***************************************************************************)
(* From the text of a query to its plan, for one run of TLC: a behaviour   *)
(* is one of the parser and its canonical text, of the estimate of a       *)
(* relation, of the join tree of a block, or of the optimizer, and leaves  *)
(* the others' variables idle.                                             *)
(***************************************************************************)
EXTENDS Optimizer

CONSTANTS
  Idle, Unread,
  Parts,            \* the parts of the planner that run
  Statements,       \* the texts parsed
  ParsesTo(_),      \* Parse: the error, "" for none, and the statement
  Prints(_),        \* ToSql
  SameTree(_, _),   \* EqualIgnoringSpans
  DepthOf(_),       \* Depth
  WheresOf(_),      \* a text read from each WHERE on, in two ways
  OrderOf(_, _, _)  \* OrderJoins

VARIABLES
  running,                               \* the part
  text, parsed, reparsed,                \* Parse and ToSql
  table, pending, kept, columns, done,   \* RowEstimates
  block, search, order, tree             \* JoinBlock

-----------------------------------------------------------------------------
DepthLimit == 4   \* kMaxExpressionDepth
Sql == INSTANCE SqlParser WITH
  MaxDepth <- DepthLimit, Texts <- Statements, Parser <- ParsesTo, Unparser <- Prints, Same <- SameTree,
  Levels <- DepthOf, Wheres <- WheresOf
ParsedText(t) == Sql!Run(t)
Canonical(q) == Sql!StatementSql(q)
SameTrees(p, q) == Sql!EqualIgnoringSpans(p, q)
DepthOfTree(q) == Sql!StatementDepth(q)
WheresOfText(t) == Sql!WhereReadings(t)

(***************************************************************************)
(* The texts that the parser is checked on: expressions of up to three     *)
(* operators, compounds of up to three queries with and without            *)
(* parentheses, FROM items and joins, and grouping elements.               *)
(***************************************************************************)
S(e) == <<"SELECT">> \o e \o <<"FROM", "t">>
Leaves == {<<"a">>, <<"-", "1">>}
Prefixed(e) == {<<"(">> \o e \o <<")">>, <<"-">> \o e, <<"NOT">> \o e, e \o <<"::", "T">>}
Suffixed(e) ==
  {e \o <<"IS", "NOT", "NULL">>, e \o <<"IN", "(", "1", ",", "a", ")">>,
   e \o <<"NOT", "BETWEEN", "1", "AND", "a">>, e \o <<"LIKE", "'s'">>}
Wraps(e) ==
  Prefixed(e) \cup Suffixed(e) \cup
  {<<"CAST", "(">> \o e \o <<"AS", "T", "(", "1", ")", ")">>, <<"f", "(">> \o e \o <<")">>,
   <<"COUNT", "(">> \o e \o <<")">>,
   <<"CASE", "WHEN">> \o e \o <<"THEN", "NULL", "END">>,
   <<"EXTRACT", "(", "Y", "FROM">> \o e \o <<")">>, <<"SUBSTRING", "(">> \o e \o <<"FROM", "1", ")">>}
\* IS NULL or IN, which a tighter operator may follow: its parentheses are a
\* level of the canonical text that the parser does not count.
Postfix(e) == e[Len(e)] \in {"NULL", ")"} /\ \E i \in DOMAIN e : e[i] \in {"IS", "IN"}
Paired(e, ops) == {e \o <<op>> \o <<"a">> : op \in {o \in ops : Postfix(e) => o \in {"AND", "OR"}}}
                   \cup {<<"a", op>> \o e : op \in ops}
Ops == {"+", "*", "=", "AND", "OR"}
L1 == UNION {Wraps(e) \cup Paired(e, Ops) : e \in Leaves}
L2 == UNION {Wraps(e) \cup Paired(e, Ops) : e \in L1}
\* Three operators, none of them between parentheses of its own.
Open1 == UNION {Prefixed(e) \cup Suffixed(e) \cup Paired(e, Ops) : e \in Leaves}
Open2 == UNION {Prefixed(e) \cup Suffixed(e) \cup Paired(e, Ops) : e \in Open1}
L3 == UNION {Prefixed(e) \cup Paired(e, {"-", "OR"}) : e \in Open2}
Chains == {<<"a">> \o o[1] \o <<"a">> \o o[2] \o <<"a">> \o o[3] \o <<"a">> \o o[4] \o <<"a">> :
             o \in [1..4 -> {<<"+">>, <<"*">>, <<"OR">>}]}
ExprTexts == {S(e) : e \in Leaves \cup L1 \cup L2 \cup L3 \cup Chains}
               \cup {S(<<"a">>) \o <<"WHERE">> \o e : e \in L1 \cup L2}
Q1 == {S(<<"a">>), S(<<"NULL">>), S(<<"a">>) \o <<"LIMIT", "1">>, S(<<"a">>) \o <<"ORDER", "BY", "a", "DESC">>,
       S(<<"-", "a">>), <<"WITH", "c", "AS", "(">> \o S(<<"a">>) \o <<")">> \o S(<<"a">>)}
P(q) == <<"(">> \o q \o <<")">>
Compounds(Q) == UNION {{q, P(q)} : q \in Q}
SetOps == {<<"UNION">>, <<"UNION", "ALL">>, <<"INTERSECT">>}
Q2 == {p \o op \o r : p \in Compounds(Q1), op \in SetOps, r \in Compounds(Q1)}
Q3 == {p \o op \o S(<<"a">>) : p \in Compounds(Q2), op \in {<<"UNION", "ALL">>, <<"INTERSECT">>}}
QueryTexts == Compounds(Q1) \cup Compounds(Q2) \cup Q3
FromTexts == {<<"SELECT", "a", "FROM">> \o f : f \in
  {<<"t">> \o j \o i \o o : j \in {<<"JOIN">>, <<"LEFT", "OUTER", "JOIN">>, <<",">>, <<"CROSS", "JOIN">>,
                              <<"SEMI", "JOIN">>, <<"NATURAL", "JOIN">>, <<"AS", "x", ",">>, <<"x", ",">>},
     i \in {<<"t">>, <<"'s'">>, P(S(<<"a">>)), P(S(<<"a">>)) \o <<"AS", "x", "(", "c", ")">>,
            <<"t", "BETWEEN">>, P(P(S(<<"a">>)) \o <<"LIMIT", "1">>), P(P(S(<<"a">>)) \o <<"UNION">> \o S(<<"a">>))},
     o \in {<<>>, <<"ON", "a", "=", "a">>, <<"ON", "a", "AND", "a", "OR", "a">>}}}
Elements == {<<"a">>, <<"(", ")">>, <<"(", "a", ")">>, <<"(", "a", ",", "1", ")">>, <<"(", "a", ")", "+", "1">>}
GroupTexts == {S(<<"a">>) \o <<"GROUP", "BY">> \o g \o h :
  g \in Elements \cup {c \o <<"(">> \o e \o <<",">> \o f \o <<")">> :
     c \in {<<"ROLLUP">>, <<"GROUPING", "SETS">>}, e \in Elements \cup {<<"CUBE", "(", "a", ")">>}, f \in Elements},
  h \in {<<>>, <<"HAVING", "COUNT", "(", "*", ")", "=", "1", "AND", "a">>}}
PostfixTexts == {S(e) : e \in UNION {Paired(e, {"*"}) \cup {e \o <<"*", "a">>} : e \in UNION {Wraps(e) : e \in L1}}}
\* ORs of up to three branches that share conjuncts or bound a column, with and
\* without a sibling that the IN list they imply repeats.
Conditions ==
  {<<"a", "=", "1">>, <<"2", "=", "a">>, <<"a", "IN", "(", "1", ",", "2", ")">>,
   <<"c", "=", "1">>, <<"a", "NOT", "IN", "(", "1", ",", "1", ")">>,
   <<"c", "IN", "(", "2", ",", "1", "+", "2", ")">>}
ConditionPairs == {p \o <<"AND">> \o q : p \in Conditions, q \in Conditions}
WhereText(condition) == S(<<"a">>) \o <<"WHERE">> \o condition
OrTexts ==
  {WhereText(p \o <<"OR">> \o q) :
     p \in Conditions \cup ConditionPairs, q \in Conditions \cup ConditionPairs}
    \cup {WhereText(p \o <<"OR">> \o q \o <<"OR", "a", "=", "1">>) :
            p \in ConditionPairs, q \in Conditions}
    \cup {WhereText(<<"(">> \o p \o <<"OR">> \o q \o
                    <<")", "AND", "a", "IN", "(", "1", ",", "2", ")">>) :
            p \in Conditions, q \in Conditions}
MCTexts == ExprTexts \cup QueryTexts \cup FromTexts \cup GroupTexts \cup OrTexts

-----------------------------------------------------------------------------
\* Tables of up to two parts, with values at both ends of the width and NULL.
NullRow == 9
PartRows == {<<>>, <<<<3>>>>, <<<<0>>, <<2>>>>, <<<<NullRow>>, <<1>>>>, <<<<NullRow>>>>,
             <<<<-600>>, <<599>>, <<0>>>>, <<<<5>>, <<5>>, <<5>>>>, <<<<-600>>, <<-599>>, <<NullRow>>>>}
TableParts == {[rows |-> rows, stats |-> <<s>>, hint |-> h] :
                 rows \in PartRows, s \in BOOLEAN, h \in {Unknown, 2}}
EstimatedTables ==
  {<<>>} \cup {<<p>> : p \in TableParts}
    \cup {<<p, q>> : p \in {r \in TableParts : r.hint = Unknown},
                  q \in {r \in TableParts : r.hint = 2 /\ Len(r.rows) = 2}}
FieldPredicate(kind, op, values) ==
  [kind |-> kind, op |-> op, field |-> 1, values |-> values,
   integer |-> kind \in {"compare", "in", "not_in"}]
FieldPredicates ==
  {FieldPredicate(k, "", <<>>) :
     k \in {"false", "is_null", "is_not_null", "like", "not_like", "is_true"}}
  \cup {FieldPredicate("compare", op, <<v>>) :
          op \in {"=", "<>", "<", "<=", ">", ">="}, v \in {-600, 2, 599}}
  \cup {FieldPredicate(k, "", vs) : k \in {"in", "not_in"}, vs \in {<<0, 5>>, <<-600, 599>>}}
  \cup {[FieldPredicate("compare", "=", <<1>>) EXCEPT !.field = 3]}
  \cup {[FieldPredicate("compare", op, <<1>>) EXCEPT !.integer = FALSE] : op \in {"=", "<"}}
Estimated ==
  {<<p, q>> : p \in FieldPredicates,
              q \in {r \in FieldPredicates : /\ r.kind \in {"compare", "is_not_null", "not_in"}
                                             /\ r.op \in {"", "=", ">="}}}

Estimates == INSTANCE RowEstimates WITH
  Largest <- 5, Widest <- 600, NullValue <- NullRow, Fields <- {1},
  Tables <- EstimatedTables, Chosen <- Estimated

-----------------------------------------------------------------------------
\* Every graph of up to four relations, each equality with domains that depend on its
\* place and on the scheme.
KeyPairs(n) == {<<a, b>> \in (1..n) \X (1..n) : a < b}
Domains(scheme, a, b) ==
  CASE scheme = 1 -> <<Unknown, Unknown>>
    [] scheme = 2 -> IF (a + b) % 2 = 0 THEN <<5, Unknown>> ELSE <<2, 3>>
    [] scheme = 3 -> IF b = 4 THEN <<Unknown, 4>> ELSE <<0, 2>>
EdgesOf(pairs, scheme) ==
  LET all == <<<<1, 4>>, <<1, 3>>, <<1, 2>>, <<2, 4>>, <<2, 3>>, <<3, 4>>>>
      seq == SelectSeq(all, LAMBDA p : p \in pairs)
  IN  [i \in DOMAIN seq |->
         [a |-> seq[i][1], b |-> seq[i][2],
          a_domain |-> Domains(scheme, seq[i][1], seq[i][2])[1],
          b_domain |-> Domains(scheme, seq[i][1], seq[i][2])[2]]]
BlockFrom(rows, pairs, scheme, residuals, filtered, subqueries) ==
  [rows |-> rows, edges |-> EdgesOf(pairs, scheme), residuals |-> residuals,
   single |-> {i \in DOMAIN rows : rows[i] = 1}, filtered |-> filtered, units |-> {},
   subqueries |-> subqueries]
Subquery(kind, relation) ==
  [kind |-> kind, relation |-> relation, computed |-> FALSE, dependent |-> FALSE]
Correlated(kind, relation) == [Subquery(kind, relation) EXCEPT !.dependent = TRUE]
Computed(kind, relation) == [Subquery(kind, relation) EXCEPT !.computed = TRUE]
SubqueryLists ==
  {<<Subquery("semi", 2)>>, <<Subquery("null_aware_anti", 2), Subquery("semi", 1)>>,
   <<Computed("one_row", 1), Subquery("semi", 2)>>, <<Computed("semi", 2), Correlated("anti", 1)>>,
   <<Correlated("one_row", 2), Correlated("semi", 1), Subquery("semi", 1)>>}
JoinBlocks ==
  {BlockFrom(rows, pairs, 2, <<{1, 3}, {2, 3, 4}>>, {}, <<Subquery("semi", 2), Computed("semi", 1)>>) :
     rows \in {f \in [1..4 -> {Unknown, 1, 6}] : f[1] < f[4] /\ f[2] < f[3]}, pairs \in SUBSET KeyPairs(4)}
  \cup {BlockFrom(rows, pairs, c[1], <<{1, 2}>>, c[2], <<Subquery("semi", 3)>>) :
     rows \in [1..3 -> {Unknown, 0, 1, 7}], pairs \in SUBSET KeyPairs(3), c \in {<<2, {}>>, <<3, {3}>>}}
  \cup {BlockFrom(rows, pairs, scheme, <<>>, filtered, list) :
     rows \in [1..2 -> {Unknown, 1, 7}], pairs \in SUBSET KeyPairs(2), scheme \in {1, 3},
     filtered \in SUBSET {1, 2}, list \in SubqueryLists}
  \cup {[BlockFrom(rows, pairs, 1, <<>>, {}, <<Subquery("semi", 2)>>) EXCEPT !.units = {2}] :
     rows \in [1..2 -> {Unknown, 1, 7}], pairs \in SUBSET KeyPairs(2)}

RelationRows(b, r) == IF r \in b.single THEN {1} ELSE {0, 1, 2}
EdgeColumn(v, e) == IF e % 2 = 0 THEN v % 2 ELSE v \div 2
ResidualHolds(relations, row) == \E r \in relations : row[r] = 1
ConditionPasses(v) == v /= 1
SubqueryMatches(k, v) == v /= k

Joins == INSTANCE JoinBlock WITH
  Blocks <- JoinBlocks, Rows <- RelationRows, Column <- EdgeColumn, Holds <- ResidualHolds,
  Passes <- ConditionPasses, Matches <- SubqueryMatches, Orders <- OrderOf

-----------------------------------------------------------------------------
(***************************************************************************)
(* The plans the optimizer is checked on: correlated subqueries of both    *)
(* paths over tables with NULLs and without rows, a WHERE over a union of  *)
(* constant columns, groups by functions of keys below a LIMIT, grouped    *)
(* aggregates over one and two joins, and the nodes no rule rewrites.      *)
(***************************************************************************)
(* Columns: outer table 1..3, inner table 11..13, a third table 21..22. *)
Col(id, type) == [id |-> id, type |-> type]
Nothing == Leaf("none", "none", NoId, 0)
Nothings(n) == [i \in 1..n |-> Nothing]
TableOf(rows, known) == [rows |-> rows, known |-> known]
IsTrue(id) == [kind |-> "is_true", column |-> Col(id, "boolean"), other |-> None, op |-> "=",
               values |-> <<>>]
Cmp(op, a, b) == [kind |-> "compare_columns", column |-> a, other |-> b, op |-> op, values |-> <<>>]
CmpConst(kind, op, a, values) ==
  [kind |-> kind, column |-> a, other |-> None, op |-> op, values |-> values]
Equal(a, b) == Applied("equal", "boolean", <<ColumnExpr(a), ColumnExpr(b)>>)
Less(a, b) == Applied("less", "boolean", <<ColumnExpr(a), ColumnExpr(b)>>)
F(a) == Applied("arith", "integer", <<ColumnExpr(a), ColumnExpr(a)>>)

Outers == {TableOf(<<<<1, 1, 1>>>>, TRUE),
           TableOf(<<<<1, 2, 0>>, <<1, 1, 2>>, <<Null, 1, 0>>>>, FALSE)}
Inners == {TableOf(<<>>, TRUE),
           TableOf(<<<<1, 1, 1>>, <<1, 2, 2>>, <<2, 1, 0>>, <<1, 1, Null>>>>, TRUE),
           TableOf(<<<<Null, 1, 1>>, <<2, 2, 3>>>>, TRUE)}
O(t) == Scan(t, <<1, 2, 3>>, <<1, 2, 3>>)
I(t) == Scan(t, <<1, 2, 3>>, <<11, 12, 13>>)
Third == Scan(TableOf(<<<<1, 0>>, <<1, 1>>>>, TRUE), <<1, 2>>, <<21, 22>>)

(***************************************************************************)
(* Correlated subqueries.                                                  *)
(***************************************************************************)
Conjunct(c) ==
  CASE c = "k=k" -> Equal(Col(11, "integer"), Col(1, "integer"))
    [] c = "k=wide k" -> Equal(Col(11, "bigint"), Col(1, "integer"))
    [] c = "k=double k" -> Equal(Col(11, "double"), Col(1, "double"))
    [] c = "j=j" -> Equal(Col(2, "integer"), Col(12, "integer"))
    [] c = "k=outer j" -> Equal(Col(11, "integer"), Col(2, "integer"))
    [] c = "j=outer k" -> Equal(Col(12, "integer"), Col(1, "integer"))
    [] c = "outer k=j" -> Equal(Col(1, "integer"), Col(2, "integer"))
    [] c = "x<v" -> Less(Col(13, "integer"), Col(3, "integer"))
    [] c = "x<k" -> Less(Col(13, "integer"), Col(1, "integer"))

Block(below, cs) ==
  Filter(Compute(below, [i \in DOMAIN cs |-> Conjunct(cs[i])], [i \in DOMAIN cs |-> 30 + i]),
         [i \in DOMAIN cs |-> IsTrue(30 + i)])

ConjunctLists ==
  {<<"k=k">>, <<"k=wide k">>, <<"k=double k">>, <<"k=k", "x<v">>, <<"k=k", "j=j">>,
   <<"k=k", "k=outer j">>, <<"k=k", "outer k=j">>, <<"x<v">>, <<"k=k", "x<k">>,
   <<"k=wide k", "outer k=j", "x<k">>}

Belows(t) ==
  {I(t),
   Filter(I(t), <<CmpConst("compare", "<", Col(12, "integer"), <<ConstantExpr(2, "integer")>>)>>),
   Join("inner", I(t), Third, <<JoinKey(Col(12, "integer"), Col(21, "integer"))>>, <<>>, "right", 4)}
AllBelows == UNION {Belows(t) : t \in Inners}

Exists(kind, o, below, cs) ==
  Project(DependentJoin(kind, O(o), Project(Block(below, cs), <<Col(11, "integer")>>, <<Nothing>>, <<40>>)),
          <<Col(1, "integer"), Col(2, "integer")>>, Nothings(2), <<1, 51>>)

(* A scalar subquery: the aggregate's argument, the call, and the select item. *)
Scalar(below, cs, call, arg, above) ==
  LET where == Block(below, cs)
      k_or_x == Applied("coalesce", "integer", <<ColumnExpr(Col(13, "integer")), ColumnExpr(Col(1, "integer"))>>)
      input == CASE arg = "f(x)" -> Compute(where, <<F(Col(13, "integer"))>>, <<36>>)
                 [] arg = "x or k" -> Compute(where, <<k_or_x>>, <<36>>)
                 [] arg = "x" -> where
      agg == Aggregate(input, <<Call(call, Col(IF arg = "x" THEN 13 ELSE 36, "integer"), 40)>>)
      strict == Compute(agg, <<F(Col(40, "bigint"))>>, <<41>>)
      or_zero == Applied("coalesce", "bigint", <<ColumnExpr(Col(40, "bigint")), ConstantExpr(0, "bigint")>>)
  IN  CASE above = "none" -> agg
        [] above = "strict" -> strict
        [] above = "coalesce" -> Compute(agg, <<or_zero>>, <<41>>)
        [] above = "list" -> Project(strict, <<Col(41, "bigint")>>, <<Nothing>>, <<42>>)
ScalarId(above) == CASE above = "none" -> 40 [] above \in {"strict", "coalesce"} -> 41 [] above = "list" -> 42

ScalarPlan(o, below, cs, call, arg, above, op) ==
  Project(Filter(DependentJoin("one_row", O(o), Scalar(below, cs, call, arg, above)),
                 <<Cmp(op, Col(3, "integer"), Col(ScalarId(above), "bigint"))>>),
          <<Col(1, "integer"), Col(3, "integer")>>, Nothings(2), <<1, 51>>)

Subqueries ==
  {Exists(kind, o, b, cs) : kind \in {"semi", "anti"}, o \in Outers, b \in AllBelows, cs \in ConjunctLists}
  \cup {ScalarPlan(o, b, cs, c[1], c[2], c[3], op) :
          o \in Outers, b \in AllBelows, cs \in ConjunctLists, op \in {"<", ">="},
          c \in {<<"max", "x", "none">>, <<"count", "x", "none">>, <<"sum", "x or k", "list">>,
                 <<"avg", "f(x)", "strict">>, <<"min", "x", "coalesce">>}}

(* A block whose WHERE clause has a correlated EXISTS of its own. *)
Nested(kind, t) ==
  DependentJoin(kind, I(t),
    Project(Filter(Compute(Third, <<Equal(Col(21, "integer"), Col(11, "integer"))>>, <<38>>), <<IsTrue(38)>>),
            <<Col(21, "integer")>>, <<Nothing>>, <<39>>))
NestedSubqueries ==
  LET blocks == {Nested(kind, t) : kind \in {"semi", "anti"}, t \in Inners}
      lists == {<<"k=k">>, <<"k=k", "x<v">>, <<"x<v">>}
  IN  {Exists(kind, o, b, cs) : kind \in {"semi", "anti"}, o \in Outers, b \in blocks, cs \in lists}
      \cup {ScalarPlan(o, b, cs, "max", "x", "none", "<") : o \in Outers, b \in blocks, cs \in lists}

(* One outer column compared with two columns of the subquery. *)
TwoEquivalents ==
  {ScalarPlan(o, I(t), <<"k=k", "j=outer k">>, "max", "x", "none", "<") : o \in Outers, t \in Inners}

(***************************************************************************)
(* A WHERE over a UNION ALL of constant columns.                           *)
(***************************************************************************)
\* Ids 100n + 1.. : the key, or a function of it that fails on the second row, and a
\* second column of type bigint.
BranchesOf(n) ==
  LET scan == Scan(TableOf(<<<<1, 1>>, <<2, Null>>>>, TRUE), <<1, 2>>, <<100 * n + 1, 100 * n + 2>>)
      key == Col(100 * n + 1, "integer")
      Of(node) == [node |-> node, columns |-> <<key, Col(100 * n + 3, "bigint")>>]
      second == Applied("cast", "bigint", <<ColumnExpr(Col(100 * n + 2, "integer"))>>)
      failing == Scan(TableOf(<<<<1, 1>>, <<FailsOn, 2>>>>, TRUE), <<1, 2>>, <<100 * n + 1, 100 * n + 2>>)
      Failing(expr) == [node |-> Compute(failing, <<F(key), expr>>, <<100 * n + 5, 100 * n + 3>>),
                        columns |-> <<Col(100 * n + 5, "integer"), Col(100 * n + 3, "bigint")>>]
  IN  {Of(Compute(scan, <<second>>, <<100 * n + 3>>)), Failing(second)}
      \cup {Failing(ConstantExpr(c, "bigint")) : c \in {1, 2}}
      \cup {Of(Compute(scan, <<ConstantExpr(c, "bigint")>>, <<100 * n + 3>>)) : c \in {1, 2, Null}}
      \cup {Of(Compute(Project(scan, <<key, Col(NoId, "integer")>>, <<Nothing, ConstantExpr(c, "integer")>>,
                               <<100 * n + 1, 100 * n + 4>>),
                       <<Applied("cast", "bigint", <<ColumnExpr(Col(100 * n + 4, "integer"))>>)>>,
                       <<100 * n + 3>>)) : c \in {2, Null}}

UnionConditions ==
  LET c == Col(62, "bigint")
      One == <<ConstantExpr(1, "bigint")>>
      Two == <<ConstantExpr(1, "bigint"), ConstantExpr(2, "bigint")>>
  IN  {<<CmpConst(kind, "=", c, <<>>)>> : kind \in {"is_null", "is_not_null"}}
      \cup {<<CmpConst("compare", op, c, One)>> : op \in {"=", "<>", "<", ">="}}
      \cup {<<CmpConst(kind, "=", c, values)>> : kind \in {"in", "not_in"}, values \in {One, Two}}
      \cup {<<CmpConst("compare", "=", Col(61, "integer"), <<ConstantExpr(1, "integer")>>),
              CmpConst("compare", ">=", c, One)>>,
            <<Cmp("<", c, c)>>}

Unions ==
  LET Union(a, b, p) ==
        Project(Filter(UnionAll(<<a.node, b.node>>, <<a.columns, b.columns>>, <<61, 62>>), p),
                <<Col(61, "integer"), Col(62, "bigint")>>, Nothings(2), <<61, 63>>)
      is_one == <<CmpConst("compare", "=", Col(62, "bigint"), <<ConstantExpr(1, "bigint")>>)>>
  IN  {Union(a, b, p) : a \in BranchesOf(1), b \in BranchesOf(2), p \in UnionConditions}
      \cup {Limit(Union(a, b, is_one), n) : a \in BranchesOf(1), b \in BranchesOf(2), n \in {1, 2}}

(***************************************************************************)
(* Groups by a column and a function of it, with and without a LIMIT.      *)
(***************************************************************************)
KeyTables == {TableOf(<<<<0, 1>>, <<NegativeZero, 2>>, <<1, 1>>>>, TRUE),
              TableOf(<<<<1, 1>>, <<3, 2>>>>, TRUE), TableOf(<<<<3, 1>>, <<2, 1>>>>, TRUE)}
GroupKeys(t, type, calls) ==
  LET scan == Scan(t, <<1, 2>>, <<1, 2>>)
      k == Col(1, type)
  IN  GroupAggregate(Compute(scan, <<F(k), F(Col(2, "integer"))>>, <<3, 4>>),
                     <<k, Col(3, "integer"), Col(4, "integer")>>, <<71, 72, 73>>, calls)
Grouping ==
  LET out == <<Col(72, "integer"), Col(74, "bigint")>>
      Calls == {<<Call("count_star", None, 74)>>, <<Call("sum", Col(2, "integer"), 74)>>}
      Legal(t, type) == type = "double" \/ \A i \in DOMAIN t.rows : t.rows[i][1] # NegativeZero
      groups == {GroupKeys(c[1], c[2], c[3]) :
                   c \in {d \in KeyTables \X {"integer", "double"} \X Calls : Legal(d[1], d[2])}}
      Select(n) == Project(n, out, Nothings(2), <<72, 75>>)
      sort == <<Col(71, "integer")>>
      Selected(t) == Project(Compute(Scan(t, <<1, 2>>, <<1, 2>>), <<F(Col(1, "integer"))>>, <<3>>),
                             <<Col(3, "integer"), Col(2, "integer")>>, Nothings(2), <<72, 75>>)
  IN  {Limit(Selected(t), n) : t \in {u \in KeyTables : Legal(u, "integer")}, n \in 0..3}
      \cup {Select(g) : g \in groups}
      \cup {Limit(Select(g), n) : g \in groups, n \in {1, 3}}
      \cup {Limit(Select(Sort(g, sort)), 1) : g \in groups}
      \cup {Limit(Select(Filter(g, <<CmpConst("compare", ">=", Col(74, "bigint"),
                                             <<ConstantExpr(2, "bigint")>>)>>)), 1) : g \in groups}

(***************************************************************************)
(* Grouped aggregates over joins.                                          *)
(***************************************************************************)
Facts == {TableOf(<<<<1, 1, 1>>, <<1, 1, 2>>, <<1, 1, Null>>, <<2, 1, 1>>, <<2, 1, 0>>, <<2, 2, 1>>>>, TRUE),
          TableOf(<<<<1, 1, 3>>, <<1, 1, 2>>, <<1, 1, 2>>>>, TRUE)}
Dimensions == {TableOf(<<<<1, 1>>, <<2, 1>>>>, TRUE), TableOf(<<<<1, 2>>, <<1, 1>>, <<3, 1>>>>, TRUE)}
JoinsOf(fact, dimension) ==
  LET f == I(fact)
      d == Scan(dimension, <<1, 2>>, <<21, 22>>)
      d2 == Scan(dimension, <<1, 2>>, <<23, 24>>)
      k == Col(11, "integer")
      first == Join("inner", f, d, <<JoinKey(k, Col(21, "integer"))>>, <<>>, "right", 6)
  IN  {first,
       Join("inner", d, f, <<JoinKey(Col(21, "integer"), k)>>, <<>>, "left", Unknown),
       Join("left", d, f, <<JoinKey(Col(21, "integer"), k)>>, <<>>, "right", 6),
       Join("left", f, d, <<JoinKey(k, Col(21, "integer"))>>, <<>>, "right", 6),
       Join("inner", first, d2, <<JoinKey(k, Col(23, "integer"))>>, <<>>, "right", 6),
       Join("inner", first, d2, <<JoinKey(Col(22, "integer"), Col(23, "integer"))>>, <<>>, "right", 6)}

(* An aggregate of COALESCE(x, 0), which is not NULL where x is. *)
OrZero(join, ks, kind) ==
  GroupAggregate(Compute(join, <<Applied("coalesce", "integer", <<ColumnExpr(Col(13, "integer")),
                                                                   ConstantExpr(0, "integer")>>)>>, <<81>>),
                 ks, [i \in DOMAIN ks |-> 81 + i], <<Call(kind, Col(81, "integer"), 91)>>)
GroupKeyLists == {<<Col(22, "integer")>>, <<Col(11, "integer")>>, <<Col(12, "integer"), Col(22, "integer")>>}
PadsFact(join) == join.kind = "left" /\ OutputIds(join.inputs[2]) = <<11, 12, 13>>

(* Over the LEFT JOIN that pads x. *)
PaddedOrZero ==
  {OrZero(j, ks, kind) : j \in {n \in UNION {JoinsOf(f, d) : f \in Facts, d \in Dimensions} : PadsFact(n)},
                         ks \in GroupKeyLists, kind \in {"count", "sum"}}

Aggregations ==
  LET x == Col(13, "integer")
      fx == Col(81, "integer")
      OverF(join) == Compute(join, <<F(x)>>, <<81>>)
      OverBoth(join) == Compute(join, <<Applied("coalesce", "integer", <<ColumnExpr(x), ColumnExpr(Col(22, "integer"))>>)>>, <<81>>)
      keys == GroupKeyLists
      KeyOut(ks) == [i \in DOMAIN ks |-> 81 + i]
      Plain == {<<Call("sum", x, 91)>>, <<Call("count", x, 91), Call("min", x, 92)>>,
                <<Call("count_star", None, 91), Call("max", x, 92)>>, <<Call("avg", x, 91)>>,
                <<Call("count_distinct", x, 91)>>, <<Call("count_star", None, 91)>>}
      joins == UNION {JoinsOf(f, d) : f \in Facts, d \in Dimensions}
  IN  {GroupAggregate(j, ks, KeyOut(ks), calls) : j \in joins, ks \in keys, calls \in Plain}
      \cup {GroupAggregate(j, ks, KeyOut(ks), <<Call("sum", fx, 91)>>) :
              j \in {OverF(n) : n \in joins} \cup {OverBoth(n) : n \in joins}, ks \in keys}
      \cup {OrZero(j, ks, kind) :
              j \in {n \in joins : ~PadsFact(n)}, ks \in keys, kind \in {"count", "sum"}}

(***************************************************************************)
(* The rest: COUNT over a scan, set operations, grouping sets.             *)
(***************************************************************************)
Counts == {Aggregate(Scan(TableOf(<<<<1>>, <<Null>>>>, known), <<1>>, <<1>>), calls) :
             known \in BOOLEAN, calls \in {<<Call("count_star", None, 2)>>, <<Call("count", Col(1, "integer"), 2)>>,
                                           <<Call("count_star", None, 2), Call("max", Col(1, "integer"), 3)>>}}
Sets ==
  LET a == O(TableOf(<<<<1, 1, 0>>, <<1, 2, 0>>, <<Null, 1, 1>>>>, TRUE))
      b == I(TableOf(<<<<1, 1, 1>>, <<2, 1, 1>>>>, FALSE))
      Formula(op) == <<[kind |-> "input", input |-> 1, operands |-> 0],
                       [kind |-> "input", input |-> 2, operands |-> 0],
                       [kind |-> op, input |-> 0, operands |-> 2]>>
  IN  {Limit(Project(Sort(SetOperation(<<a, b>>, <<<<Col(1, "integer"), Col(2, "integer")>>,
                                                   <<Col(11, "integer"), Col(12, "integer")>>>>,
                                       <<65, 66>>, Formula(op)), <<Col(66, "integer")>>),
                     <<Col(65, "integer")>>, <<Nothing>>, <<65>>), n) :
         op \in {"union", "intersect", "except"}, n \in {1, 9}}
      \cup {Project(GroupingSets(a, <<Col(1, "integer"), Col(2, "integer")>>, <<65, 66>>, sets,
                                 <<Call("sum", Col(3, "integer"), 67)>>, <<[id |-> 69, args |-> <<2, 1>>]>>),
                    <<Col(65, "integer"), Col(67, "bigint"), Col(69, "bigint")>>, Nothings(3), <<65, 68, 69>>) :
              sets \in {<<{1, 2}, {1}, {}>>, <<{2}>>}}

MCPlans == Subqueries \cup NestedSubqueries \cup Unions \cup Grouping \cup Aggregations \cup Counts \cup Sets

-----------------------------------------------------------------------------
sqlVars == <<text, parsed, reparsed>>
estimateVars == <<table, pending, kept, columns, done>>
joinVars == <<block, search, order, tree>>
planVars == <<plan, pass, output, answer>>
plannerVars == <<running, sqlVars, estimateVars, joinVars, planVars>>

IdleSql == text = Idle /\ parsed = Idle /\ reparsed = Idle
IdleEstimates == table = Idle /\ pending = Idle /\ kept = Idle /\ columns = Idle /\ done = Idle
IdleJoins == block = Idle /\ search = Idle /\ order = Idle /\ tree = Idle
IdleOptimizer == plan = Idle /\ pass = Idle /\ output = Idle /\ answer = Idle

PlannerInit ==
  /\ running \in Parts
  /\ \/ running = "sql" /\ Sql!Init /\ IdleEstimates /\ IdleJoins /\ IdleOptimizer
     \/ running = "estimates" /\ Estimates!Init /\ IdleSql /\ IdleJoins /\ IdleOptimizer
     \/ running = "joins" /\ Joins!Init /\ IdleSql /\ IdleEstimates /\ IdleOptimizer
     \/ running = "optimizer" /\ Init /\ IdleSql /\ IdleEstimates /\ IdleJoins

SqlStep == running = "sql" /\ Sql!Next /\ UNCHANGED <<running, estimateVars, joinVars, planVars>>
EstimatesStep ==
  running = "estimates" /\ Estimates!Next /\ UNCHANGED <<running, sqlVars, joinVars, planVars>>
JoinsStep == running = "joins" /\ Joins!Next /\ UNCHANGED <<running, sqlVars, estimateVars, planVars>>
OptimizerStep ==
  running = "optimizer" /\ Next /\ UNCHANGED <<running, sqlVars, estimateVars, joinVars>>

PlannerNext == SqlStep \/ EstimatesStep \/ JoinsStep \/ OptimizerStep
PlannerSpec == PlannerInit /\ [][PlannerNext]_plannerVars

-----------------------------------------------------------------------------
\* Parse and ToSql (parser.cc, unparse.cc): the canonical text of an accepted statement
\* parses.
CanonicalFormParses == running = "sql" => Sql!CanonicalFormParses

\* The canonical text gives the same statement, which is no deeper than kMaxExpressionDepth.
RoundTrip == running = "sql" => Sql!RoundTrip

\* The conjuncts ParseConjuncts splits a WHERE into are the tree ParseExpr gives it, and those
\* FactorSharedConjuncts makes of its ORs keep the same rows.
WhereMeansExpr == running = "sql" => Sql!WhereMeansExpr

\* FilteredRelationRows estimates no row only where the footers prove that none is left.
EstimatesSound == running = "estimates" => Estimates!EstimatesSound

\* The tree of OrderBlock and JoinTree answers the block, whatever the statistics.
TreeAnswersBlock == running = "joins" => Joins!TreeAnswersBlock

\* OrderJoins finds an order as cheap as any.
CheapestOrder == running = "joins" => Joins!CheapestOrder

\* Optimize: every pass keeps a plan whose columns resolve.
OptimizedResolves == running = "optimizer" => PlanResolves

\* Every pass keeps the plan's answer.
OptimizedAnswer == running = "optimizer" => SameAnswer

\* The passes after the unnesting and before the exchange keep whether the plan fails, but
\* for a branch of a union that the WHERE clause rules out.
OptimizedFailures ==
  [][(running = "optimizer" /\ pass \in {"branches", "count", "keys", "limit"}) =>
       FailuresKeptBy(pass, plan, plan')]_plannerVars
==============================================================================
