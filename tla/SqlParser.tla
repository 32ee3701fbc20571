----------------------------- MODULE SqlParser ------------------------------
(***************************************************************************)
(* The recursive-descent parser (parser.cc) over a text's tokens.  The     *)
(* parser's state is a record that its operations pass on: the position,   *)
(* the levels of the tree (depth and peak, which counts the levels the     *)
(* canonical form will add) and the error.  After an error the state stays *)
(* as it is and every token reads as the end, so the rest of an operation  *)
(* changes nothing.  An operation that parses an expression returns the    *)
(* state, the tree and the position of the tree's first token.             *)
(***************************************************************************)
EXTENDS Integers, SequencesExt, FiniteSets

-----------------------------------------------------------------------------
(***************************************************************************)
(* Tokens, syntax trees and their canonical text (token.h, ast.h, ast.cc,  *)
(* unparse.cc).  A token is its text; a quoted identifier keeps its quotes *)
(* as part of the token, so a name node records whether it was quoted.  A  *)
(* text is the sequence of its tokens: spaces and spans are left out but   *)
(* for the strings and $-tokens that touch the token before them.          *)
(***************************************************************************)

\* One integer is past the range of LIMIT.
OutOfRange == {"9223372036854775808"}
Integers1 == {"1", "2"} \cup OutOfRange
Decimals1 == {"1.5"}
\* A plain string, an empty one, and one that touches the token before it.
Strings1 == {"'s'", "''", "'adjacent'"}
Parameters1 == {"$1", "$", "$adjacent"}
Quoted == {"\"a\"", "\"t\"", "\"c\"", "\"C\"", "\"s\"", "\"BETWEEN\"", "\"x\""}
Punctuation == {"(", ")", ",", ".", ";", "*", "+", "-", "/", "//", "%", "=", "<>", "<", "||",
                "::", "[", "{", "?", "->"}
End == ""
Operators1 == {"?", "->", "//"}
IsWord(t) == t \notin {End} \cup Integers1 \cup Decimals1 \cup Strings1 \cup Parameters1
                      \cup Quoted \cup Punctuation
KeywordOf(t) == IF IsWord(t) THEN t ELSE ""

\* The text of a name or a string, a name quoted, and ASCII upper case.
Text(t) == CASE t = "\"a\"" -> "a" [] t = "\"t\"" -> "t" [] t = "\"c\"" -> "c" [] t = "\"C\"" -> "C"
             [] t = "\"s\"" -> "s" [] t = "'s'" -> "s" [] t = "\"BETWEEN\"" -> "BETWEEN"
             [] t = "\"x\"" -> "x" [] OTHER -> t
Quote(name) == CHOOSE q \in Quoted : Text(q) = name
AsciiUpper(name) == IF name = "c" THEN "C" ELSE name

-----------------------------------------------------------------------------
\* Syntax trees.
None == [node |-> "none"]
Column(q, name) == [node |-> "column", qualifier |-> q, name |-> name]
Literal(kind, text) == [node |-> "literal", kind |-> kind, text |-> text]
Null == Literal("null", "")
Node(kind, op, args) == [node |-> kind, op |-> op, args |-> args]
Subquery(kind, query, operand) ==
  [node |-> "subquery", kind |-> kind, query |-> query, operand |-> operand]
Element(kind, exprs, elements) ==
  [node |-> "element", kind |-> kind, exprs |-> exprs, elements |-> elements]
Star(q) == [node |-> "star", qualifier |-> q]
Statement == [with |-> <<>>, distinct |-> FALSE, items |-> <<>>, from |-> <<>>, where |-> <<>>,
              group_by |-> <<>>, grouping |-> <<>>, having |-> <<>>, order_by |-> <<>>,
              limit |-> "", offset |-> "", set_operation |-> <<>>]

Comparisons == {"=", "<>", "<"}
PrecedenceOf(op) ==
  CASE op = "OR" -> 1 [] op = "AND" -> 2 [] op \in Comparisons -> 4 [] op \in {"+", "-"} -> 5
    [] op \in {"*", "/", "//", "%"} -> 6
Precedence(e) ==
  CASE e.node = "binary" -> PrecedenceOf(e.op)
    [] e.node = "unary" -> IF e.op = "NOT" THEN 3 ELSE 7
    [] e.node \in {"LIKE", "IN", "BETWEEN", "IS"} -> 4
    [] e.node = "subquery" -> IF e.kind \in {"IN", "NOT IN"} THEN 4 ELSE 8
    [] OTHER -> 8

\* A branch that is written in parentheses.
IsNestedQuery(q) ==
  q.with # <<>> \/ q.set_operation # <<>> \/ q.order_by # <<>> \/ q.limit # "" \/ q.offset # ""

-----------------------------------------------------------------------------
\* The canonical text (unparse.cc).
Not(op) == IF op = "NOT" THEN <<"NOT">> ELSE <<>>
RECURSIVE Joined(_, _)
Joined(texts, separator) ==
  IF texts = <<>> THEN <<>>
  ELSE IF Len(texts) = 1 THEN texts[1]
  ELSE texts[1] \o separator \o Joined(Tail(texts), separator)
ColumnList(columns) ==
  <<"(">> \o Joined([i \in DOMAIN columns |-> <<Quote(columns[i])>>], <<",">>) \o <<")">>

RECURSIVE Sql(_)
RECURSIVE ElementSql(_)
RECURSIVE StatementSql(_)
SqlBare(e, min) == Sql(e)
SqlAt(e, min) == IF Precedence(e) < min THEN <<"(">> \o Sql(e) \o <<")">> ELSE Sql(e)
List(exprs) == Joined([i \in DOMAIN exprs |-> SqlAt(exprs[i], 1)], <<",">>)

ElementSql(g) ==
  LET inner == Joined([i \in DOMAIN g.elements |-> ElementSql(g.elements[i])], <<",">>)
  IN CASE g.kind = "expr" -> List(g.exprs)
       [] g.kind = "row" -> <<"(">> \o List(g.exprs) \o <<")">>
       [] g.kind = "empty" -> <<"(", ")">>
       [] g.kind = "sets" -> <<"GROUPING", "SETS", "(">> \o inner \o <<")">>
       [] OTHER -> <<g.kind, "(">> \o inner \o <<")">>

BinarySql(e) ==
  LET p == PrecedenceOf(e.op)
  IN SqlAt(e.args[1], IF p = 4 THEN 5 ELSE p) \o <<e.op>> \o SqlAt(e.args[2], p + 1)

CaseSql(e) ==
  LET branches == [i \in DOMAIN e.whens |-> <<"WHEN">> \o SqlAt(e.whens[i], 1)
                                            \o <<"THEN">> \o SqlAt(e.thens[i], 1)]
  IN <<"CASE">> \o (IF e.operand = None THEN <<>> ELSE SqlAt(e.operand, 1))
       \o Joined(branches, <<>>)
       \o (IF e.otherwise = None THEN <<>> ELSE <<"ELSE">> \o SqlAt(e.otherwise, 1)) \o <<"END">>

SubquerySql(e) ==
  LET query == <<"(">> \o StatementSql(e.query) \o <<")">>
  IN CASE e.kind = "EXISTS" -> <<"EXISTS">> \o query
       [] e.kind = "IN" -> SqlAt(e.operand, 5) \o <<"IN">> \o query
       [] e.kind = "NOT IN" -> SqlAt(e.operand, 5) \o <<"NOT", "IN">> \o query
       [] OTHER -> query

Sql(e) ==
  CASE e.node = "column" -> (IF e.qualifier = "" THEN <<>> ELSE <<e.qualifier, ".">>) \o <<e.name>>
    [] e.node = "literal" ->
         (CASE e.kind = "null" -> <<"NULL">>
            [] e.kind = "negative" -> <<"-", e.text>>
            [] e.kind \in {"DATE", "TIMESTAMP"} -> <<e.kind, e.text>>
            [] OTHER -> <<e.text>>)
    [] e.node = "aggregate" ->
         (IF e.op = "*" THEN <<"COUNT", "(", "*", ")">>
          ELSE <<e.op, "(">> \o e.distinct \o SqlAt(e.args[1], 1) \o <<")">>)
    [] e.node = "unary" -> (IF e.op = "NOT" THEN <<"NOT">> \o SqlAt(e.args[1], 3)
                            ELSE <<"-", "(">> \o SqlAt(e.args[1], 1) \o <<")">>)
    [] e.node = "binary" -> BinarySql(e)
    [] e.node = "LIKE" -> SqlAt(e.args[1], 5) \o Not(e.op) \o <<"LIKE">> \o SqlAt(e.args[2], 5)
    [] e.node = "IN" -> SqlAt(e.args[1], 5) \o Not(e.op) \o <<"IN", "(">> \o List(Tail(e.args)) \o <<")">>
    [] e.node = "IS" -> SqlAt(e.args[1], 5) \o <<"IS">> \o Not(e.op) \o <<"NULL">>
    [] e.node = "BETWEEN" -> SqlAt(e.args[1], 5) \o Not(e.op) \o <<"BETWEEN">> \o SqlAt(e.args[2], 5)
                               \o <<"AND">> \o SqlAt(e.args[3], 5)
    [] e.node = "function" -> <<e.op, "(">> \o List(e.args) \o <<")">>
    [] e.node = "case" -> CaseSql(e)
    [] e.node = "extract" -> <<"EXTRACT", "(", e.op, "FROM">> \o SqlAt(e.args[1], 1) \o <<")">>
    [] e.node = "cast" ->
         <<e.op, "(">> \o SqlAt(e.args[1], 1) \o <<"AS", e.type>>
           \o (IF e.params = <<>> THEN <<>>
               ELSE <<"(">> \o Joined([i \in DOMAIN e.params |-> <<e.params[i]>>], <<",">>) \o <<")">>)
           \o <<")">>
    [] e.node = "subquery" -> SubquerySql(e)

\* A sole conjunct other than an AND is written bare.
Conjuncts(conjuncts) ==
  IF Len(conjuncts) = 1 /\ ~(conjuncts[1].node = "binary" /\ conjuncts[1].op = "AND")
  THEN SqlAt(conjuncts[1], 1)
  ELSE Joined([i \in DOMAIN conjuncts |-> SqlAt(conjuncts[i], 3)], <<"AND">>)

FromItemSql(item) ==
  (CASE item.connector = "first" -> <<>>
     [] item.connector = "comma" -> <<",">>
     [] OTHER -> <<item.connector, "JOIN">>)
  \o (IF item.table # "" THEN <<item.table>> ELSE <<"(">> \o StatementSql(item.query) \o <<")">>)
  \o (IF item.alias = "" THEN <<>>
      ELSE <<"AS", Quote(item.alias)>> \o (IF item.columns = <<>> THEN <<>> ELSE ColumnList(item.columns)))
  \o (IF item.on = <<>> THEN <<>> ELSE <<"ON">> \o Conjuncts(item.on))

ItemSql(item) ==
  IF item.value.node = "star"
  THEN (IF item.value.qualifier = "" THEN <<>> ELSE <<item.value.qualifier, ".">>) \o <<"*">>
  ELSE SqlAt(item.value, 1) \o (IF item.alias = "" THEN <<>> ELSE <<"AS", Quote(item.alias)>>)
Clause(words, list) == IF list = <<>> THEN <<>> ELSE words \o list
BlockSql(b) ==
  <<"SELECT">> \o (IF b.distinct THEN <<"DISTINCT">> ELSE <<>>)
    \o Joined([i \in DOMAIN b.items |-> ItemSql(b.items[i])], <<",">>)
    \o <<"FROM">> \o Joined([i \in DOMAIN b.from |-> FromItemSql(b.from[i])], <<>>)
    \o Clause(<<"WHERE">>, IF b.where = <<>> THEN <<>> ELSE Conjuncts(b.where))
    \o Clause(<<"GROUP", "BY">>, Joined([i \in DOMAIN b.grouping |-> ElementSql(b.grouping[i])], <<",">>))
    \o Clause(<<"GROUP", "BY">>, List(b.group_by))
    \o Clause(<<"HAVING">>, IF b.having = <<>> THEN <<>> ELSE Conjuncts(b.having))

OrderSql(item) ==
  SqlAt(item.expr, 1) \o (IF item.descending THEN <<"DESC">> ELSE <<>>)
    \o (IF item.nulls = "" THEN <<>> ELSE <<"NULLS", item.nulls>>)
BranchSql(branch, first) ==
  (IF first THEN <<>> ELSE <<branch.op>> \o (IF branch.all THEN <<"ALL">> ELSE <<>>))
    \o (IF IsNestedQuery(branch.query) THEN <<"(">> \o StatementSql(branch.query) \o <<")">>
        ELSE BlockSql(branch.query))
WithSql(cte) ==
  <<Quote(cte.name)>> \o (IF cte.columns = <<>> THEN <<>> ELSE ColumnList(cte.columns))
    \o <<"AS", "(">> \o StatementSql(cte.query) \o <<")">>
StatementSql(q) ==
  Clause(<<"WITH">>, Joined([i \in DOMAIN q.with |-> WithSql(q.with[i])], <<",">>))
    \o (IF q.set_operation = <<>> THEN BlockSql(q)
        ELSE Joined([i \in DOMAIN q.set_operation |-> BranchSql(q.set_operation[i], i = 1)], <<>>))
    \o Clause(<<"ORDER", "BY">>, Joined([i \in DOMAIN q.order_by |-> OrderSql(q.order_by[i])], <<",">>))
    \o (IF q.limit = "" THEN <<>> ELSE <<"LIMIT", q.limit>>)
    \o (IF q.offset = "" THEN <<>> ELSE <<"OFFSET", q.offset>>)

\* Trees carry no spans here, so equality is that of their parts.
EqualIgnoringSpans(a, b) == a = b

-----------------------------------------------------------------------------
\* The levels of a tree (ast.cc, Depth).
Deepest(S) == CHOOSE d \in S \cup {0} : \A x \in S : x <= d
Below(s) == {s[i] : i \in DOMAIN s}
RECURSIVE Depth(_)
RECURSIVE ElementDepth(_)
RECURSIVE StatementDepth(_)
Depth(e) ==
  CASE e.node \in {"none", "column", "literal"} -> IF e.node = "none" THEN 0 ELSE 1
    [] e.node = "case" -> 1 + Deepest({Depth(x) : x \in {e.operand, e.otherwise} \cup Below(e.whens) \cup Below(e.thens)})
    [] e.node = "subquery" -> 1 + Deepest({Depth(e.operand), StatementDepth(e.query)})
    [] OTHER -> 1 + Deepest({Depth(x) : x \in Below(e.args)})
ElementDepth(g) ==
  LET deepest == Deepest({Depth(x) : x \in Below(g.exprs)} \cup {ElementDepth(x) : x \in Below(g.elements)})
  IN IF g.kind = "expr" THEN deepest ELSE deepest + 1
StatementDepth(q) ==
  Deepest({Depth(i.value) : i \in {x \in Below(q.items) : x.value.node # "star"}}
            \cup {Depth(x) : x \in Below(q.where) \cup Below(q.having) \cup Below(q.group_by)}
            \cup UNION {{Depth(x) : x \in Below(i.on)} : i \in Below(q.from)}
            \cup {ElementDepth(g) : g \in Below(q.grouping)}
            \cup {Depth(i.expr) : i \in Below(q.order_by)}
            \cup {1 + StatementDepth(i.query) : i \in {x \in Below(q.from) : x.table = ""}}
            \cup {1 + StatementDepth(c.query) : c \in Below(q.with)}
            \cup {1 + StatementDepth(b.query) : b \in Below(q.set_operation)})

-----------------------------------------------------------------------------

CONSTANT MaxDepth   \* kMaxExpressionDepth

Reserved ==
  {"ALL", "AND", "ANY", "ARRAY", "AS", "ASC", "BETWEEN", "BY", "CASE", "CAST", "COLLATE", "CROSS",
   "DESC", "DISTINCT", "ELSE", "END", "EXCEPT", "EXISTS", "FALSE", "FETCH", "FOR", "FROM", "FULL",
   "GROUP", "HAVING", "ILIKE", "IN", "INNER", "INTERSECT", "INTERVAL", "INTO", "IS", "JOIN",
   "LATERAL", "LEFT", "LIKE", "LIMIT", "NATURAL", "NOT", "NULL", "OFFSET", "ON", "OR", "ORDER",
   "OUTER", "OVER", "QUALIFY", "RIGHT", "SELECT", "SIMILAR", "SOME", "TABLE", "THEN", "TRUE",
   "UNION", "USING", "WHEN", "WHERE", "WINDOW", "WITH"}
UnsupportedClauses == {"FETCH", "FOR", "QUALIFY", "USING", "WINDOW"}
UnsupportedOperands == {"ALL", "ANY", "ARRAY", "FALSE", "INTERVAL", "NULL", "SOME", "TRUE"}
UnsupportedOperatorWords == {"COLLATE", "GLOB", "ILIKE", "ISNULL", "NOTNULL", "OVER", "SIMILAR"}
ClauseKeywords == {"FROM", "WHERE", "GROUP", "HAVING", "ORDER", "LIMIT", "OFFSET", "INTO", "UNION",
                   "INTERSECT", "EXCEPT"} \cup UnsupportedClauses
\* The words that are no table alias, those of them that have a meaning after
\* a FROM item, and the reserved words that are table aliases.
JoinWords == {"ANTI", "SEMI", "POSITIONAL"}
NotAnAlias == JoinWords \cup {"ASOF", "AT", "PIVOT", "TABLESAMPLE", "UNPIVOT", "ONLY", "GLOB",
                              "ISNULL", "NOTNULL", "CREATE", "SHOW"}
AliasKeywords == {"BETWEEN", "EXISTS", "INTERVAL", "OVER"}
JoinKinds == {"ANTI", "FULL", "INNER", "JOIN", "LEFT", "RIGHT", "SEMI"}
JoinStarts == {"CROSS", "FULL", "INNER", "JOIN", "LEFT", "NATURAL", "RIGHT"}
FunctionKeywords == {"CROSS", "FULL", "ILIKE", "INNER", "IS", "JOIN", "LEFT", "LIKE", "NATURAL",
                     "OUTER", "OVER", "RIGHT", "SIMILAR"}
SubqueryStarts == {"DESCRIBE", "PIVOT", "SELECT", "SHOW", "SUMMARIZE", "UNPIVOT", "WITH"}
\* The first words of statements other than SELECT.
OtherStatements == {"CREATE", "DESCRIBE", "INSERT", "PIVOT", "SHOW", "SUMMARIZE", "TABLE", "UNPIVOT",
                    "VALUES"}
Aggregates == {"COUNT", "SUM", "MIN", "STDDEV"}

IsName(t) == t \in Quoted \/ (IsWord(t) /\ t \notin Reserved)
IsTableAlias(t, after_as) ==
  IF t \in Strings1 THEN after_as /\ t # "''"
  ELSE t \notin NotAnAlias /\ (IsName(t) \/ t \in AliasKeywords)
StartsRelation(t) == t \in Strings1 \cup AliasKeywords \/ IsName(t)
IsFunctionName(t) == IsName(t) \/ t \in FunctionKeywords
IsQualifier(t) == IsName(t) \/ t \in AliasKeywords

-----------------------------------------------------------------------------
\* The parser's state: Peek, Take, an error, and the levels.
NewParser(tokens) ==
  [text |-> tokens, pos |-> 1, depth |-> 0, peak |-> 0, minus |-> FALSE, end |-> "statement",
   parens |-> 0, aggregate_parens |-> 0, err |-> ""]
Failed(s) == s.err # ""
PeekAt(s, n) == IF Failed(s) \/ s.pos + n > Len(s.text) THEN End ELSE s.text[s.pos + n]
Peek(s) == PeekAt(s, 0)
At(s, words) == \A i \in DOMAIN words : PeekAt(s, i - 1) = words[i]
RECURSIVE Take(_, _)
Take(s, n) ==
  IF n = 0 \/ Peek(s) = End THEN s
  ELSE Take([s EXCEPT !.pos = @ + 1,
                      !.parens = IF Peek(s) = "(" THEN @ + 1
                                 ELSE IF Peek(s) = ")" /\ @ > 0 THEN @ - 1 ELSE @], n - 1)
Fail(s, kind) == IF Failed(s) THEN s ELSE [s EXCEPT !.err = kind]
Syntax(s) == Fail(s, "syntax")
Unsupported(s) == Fail(s, "unsupported")
DepthError(s) == Fail(s, "depth")
Expect(s, token) == IF Peek(s) = token THEN Take(s, 1) ELSE Syntax(s)
R(s, e, at) == [s |-> s, e |-> e, at |-> at]

Larger(a, b) == IF a >= b THEN a ELSE b
Deeper(s) ==
  IF s.depth + 1 > MaxDepth THEN DepthError(s)
  ELSE [s EXCEPT !.depth = @ + 1, !.peak = Larger(@, s.depth + 1)]
LiftedUncounted(s, lower) == s
Lifted(s, lower) ==
  IF lower + 1 > MaxDepth THEN DepthError(s) ELSE [s EXCEPT !.peak = Larger(lower + 1, @)]
CanonicalLevel(s, outer) ==
  IF s.peak + 1 > MaxDepth THEN DepthError(s) ELSE [s EXCEPT !.peak = Larger(outer, @ + 1)]
\* A frame of its own: its peak starts at its level.
Frame(s) == [s EXCEPT !.peak = s.depth]
\* Back to the frame of `outer`, whose peak includes the inner one's.
Outer(s, outer) == [s EXCEPT !.depth = outer.depth, !.peak = Larger(outer.peak, @)]

\* A string or a $-token that touches the token before it makes one string.
PrefixedStringAt(s, n) ==
  \/ PeekAt(s, n) = "E" /\ PeekAt(s, n + 1) = "'adjacent'"
  \/ PeekAt(s, n) = "$" /\ PeekAt(s, n + 1) = "$adjacent"
EndsList(s, n) ==
  \/ PeekAt(s, n) \in {End, ";"} \cup ClauseKeywords
  \/ s.end = "parenthesis" /\ PeekAt(s, n) = ")"
IsSetOperator(t) == t \in {"UNION", "INTERSECT", "EXCEPT"}
OpensNestedQuery(s, n) ==
  PeekAt(s, n) = "(" /\ PeekAt(s, n + 1) \in (SubqueryStarts \cap Reserved) \cup {"FROM", "TABLE"}

RECURSIVE ParseExpr(_, _, _)
RECURSIVE ParseQuery(_, _, _)

-----------------------------------------------------------------------------
\* Operators.
StartsIsNull(s) == At(s, <<"IS", "NULL">>) \/ At(s, <<"IS", "NOT", "NULL">>)
InfixPrecedence(s) ==
  LET t == Peek(s)
  IN CASE t \in Comparisons -> 4
       [] t \in {"+", "-"} -> 5
       [] t \in {"*", "/", "%", "//"} -> 6
       [] t = "OR" -> 1
       [] t = "AND" -> 2
       [] t \in {"LIKE", "IN", "BETWEEN"} -> 4
       [] t = "IS" /\ StartsIsNull(s) -> 4
       [] t = "NOT" /\ PeekAt(s, 1) \in {"LIKE", "IN", "BETWEEN"} -> 4
       [] OTHER -> 0
UnsupportedOperator(s) ==
  LET t == Peek(s)
  IN IF \/ t \in {"||", "::", ".", "[", "?", "->"} \cup UnsupportedOperatorWords
        \/ At(s, <<"AT", "TIME">>)
        \/ t = "IS" /\ ~StartsIsNull(s)
        \/ t = "NOT" /\ PeekAt(s, 1) \notin {"LIKE", "IN", "BETWEEN"}
     THEN Unsupported(s) ELSE s

\* A nested query: '(' query ')', one level down.
ParseNestedQuery(s, branch) ==
  LET q == ParseQuery(Take(Frame(Deeper(s)), 1), "parenthesis", branch)
  IN [q EXCEPT !.s = Take(Outer(@, s), 1)]
ParseSubquery(s, kind, operand) ==
  LET q == ParseNestedQuery(s, FALSE) IN R(q.s, Subquery(kind, q.q, operand), s.pos)

\* After a bare scalar subquery, a set operation or a tail would make the
\* parentheses a query.
ParenthesizedFirstBlock(s, e) ==
  IF /\ e.node = "subquery" /\ e.kind = "scalar"
     /\ Peek(s) \in {"UNION", "INTERSECT", "EXCEPT", "ORDER", "LIMIT", "OFFSET"}
  THEN Unsupported(s) ELSE s

\* (',' expr)* ')', after the first value.
RECURSIVE ParseListRest(_, _, _)
ParseListRest(c, s, list) ==
  IF Peek(s) = "," THEN LET v == ParseExpr(c, 1, Take(s, 1))
                        IN ParseListRest(c, v.s, Append(list, v.e))
  ELSE [s |-> Expect(s, ")"), list |-> list]
ParseInList(c, l, negated) ==
  LET s0 == IF Peek(l.s) = "(" THEN l.s ELSE Syntax(l.s)
  IN IF OpensNestedQuery(s0, 0)
     THEN [ParseSubquery(s0, IF negated = "NOT" THEN "NOT IN" ELSE "IN", l.e) EXCEPT !.at = l.at]
     ELSE LET s1 == Take(s0, 1)
              first == ParseExpr(c, 1, IF Peek(s1) = ")" THEN Syntax(s1) ELSE s1)
              rest == ParseListRest(c, ParenthesizedFirstBlock(first.s, first.e), <<l.e, first.e>>)
          IN R(rest.s, Node("IN", negated, rest.list), l.at)
ParseBetween(c, l, negated) ==
  LET low == ParseExpr(c, 5, l.s)
      high == ParseExpr(c, 5, Expect(low.s, "AND"))
  IN R(high.s, Node("BETWEEN", negated, <<l.e, low.e, high.e>>), l.at)
ParseInfix(c, l, precedence) ==
  LET t == Peek(l.s)
      negated == IF t = "NOT" \/ At(l.s, <<"IS", "NOT">>) THEN "NOT" ELSE ""
      word == IF t = "NOT" THEN PeekAt(l.s, 1) ELSE t
      after == [l EXCEPT !.s = Take(@, IF negated = "NOT" THEN 2 ELSE 1)]
      operand == ParseExpr(c, IF word = "LIKE" THEN 5 ELSE precedence + 1, after.s)
  IN CASE word = "IS" -> R(Take(after.s, 1), Node("IS", negated, <<l.e>>), l.at)
       [] word = "BETWEEN" -> ParseBetween(c, after, negated)
       [] word = "IN" -> ParseInList(c, after, negated)
       [] word = "LIKE" ->
            R(IF Peek(operand.s) = "ESCAPE" THEN Unsupported(operand.s) ELSE operand.s,
              Node("LIKE", negated, <<l.e, operand.e>>), l.at)
       [] OTHER -> R(operand.s, Node("binary", t, <<l.e, operand.e>>), l.at)

\* The operator becomes the root at this level: the tree so far moves one
\* level down.  Comparisons do not chain.
RECURSIVE ParseInfixLoop(_, _, _)
ParseInfixLoop(c, min, l) ==
  LET s0 == UnsupportedOperator(l.s)
      precedence == InfixPrecedence(s0)
      combined == ParseInfix(c, [l EXCEPT !.s = Frame(s0)], precedence)
      s1 == Lifted(combined.s, s0.peak)
  IN IF Failed(s0) \/ precedence = 0 \/ precedence < min THEN [l EXCEPT !.s = s0]
     ELSE IF s0.peak + 1 > MaxDepth THEN [l EXCEPT !.s = DepthError(s0)]
     ELSE IF Failed(combined.s) THEN combined
     ELSE ParseInfixLoop(c, min, [combined EXCEPT !.s =
            IF precedence = 4 /\ InfixPrecedence(s1) = 4 THEN Unsupported(s1) ELSE s1])

-----------------------------------------------------------------------------
\* Primary expressions.
RECURSIVE ParseParams(_, _)
ParseParams(s, params) ==
  CASE Peek(s) \in {")", ",", ";", End} -> [s |-> Syntax(s), params |-> params]
    [] Peek(s) \in Integers1 ->
         LET after == Take(s, 1)
             all == Append(params, Peek(s))
         IN IF Peek(after) = "," THEN ParseParams(Take(after, 1), all)
            ELSE [s |-> Expect(after, ")"), params |-> all]
    [] OTHER -> [s |-> Unsupported(s), params |-> params]
MultiWordType(s, name) ==
  IF <<name, Peek(s)>> \in {<<"DOUBLE", "PRECISION">>, <<"TIMESTAMP", "WITH">>} THEN Unsupported(s) ELSE s
ParseTypeName(s) ==
  LET name == Peek(s)
      s0 == IF name \in Quoted \cup {"INTERVAL", "UNION"} THEN Unsupported(s)
            ELSE IF ~IsWord(name) \/ name \in Reserved THEN Syntax(s) ELSE MultiWordType(Take(s, 1), name)
      p == ParseParams(Take(s0, 1), <<>>)
      s1 == IF Peek(s0) = "(" THEN MultiWordType(p.s, name) ELSE s0
  IN [s |-> IF Peek(s1) \in {"[", "ARRAY", "."} THEN Unsupported(s1) ELSE s1,
      type |-> name, params |-> IF Peek(s0) = "(" THEN p.params ELSE <<>>]
Cast(op, operand, t) ==
  [node |-> "cast", op |-> op, args |-> <<operand>>, type |-> t.type, params |-> t.params]

\* x::T::U, whose canonical form is a level deeper for each cast.
RECURSIVE ParseCasts(_, _)
ParseCasts(r, begin) ==
  IF Peek(r.s) # "::" THEN r
  ELSE IF r.s.peak + 1 > MaxDepth THEN [r EXCEPT !.s = DepthError(@)]
  ELSE LET t == ParseTypeName([Take(r.s, 1) EXCEPT !.peak = @ + 1])
       IN ParseCasts(R(t.s, Cast("CAST", r.e, t), begin), begin)

ParseCast(c, s) ==
  LET operand == ParseExpr(c, 1, Take(s, 2))
      t == ParseTypeName(Expect(operand.s, "AS"))
  IN R(Expect(t.s, ")"), Cast(Peek(s), operand.e, t), s.pos)
ParseExtract(c, s) ==
  LET field == PeekAt(s, 2)
      s0 == Take(s, 2)
      s1 == IF field \in Strings1 \cup Quoted \/ PrefixedStringAt(s0, 0) THEN Unsupported(s0)
            ELSE IF ~IsWord(field) THEN Syntax(s0) ELSE Take(s0, 1)
      source == ParseExpr(c, 1, Expect(s1, "FROM"))
  IN R(Expect(source.s, ")"), Node("extract", field, <<source.e>>), s.pos)

\* SUBSTRING(x FROM a FOR b) is the comma form's call.
RECURSIVE ParseSubstringStandard(_, _, _, _)
ParseSubstringStandard(c, s, start, length) ==
  LET v == ParseExpr(c, 1, Take(s, 1))
  IN IF Peek(s) \notin {"FROM", "FOR"}
     THEN IF start = None /\ ~Failed(s) THEN [s |-> Unsupported(s), args |-> <<>>]
          ELSE [s |-> Expect(s, ")"), args |-> IF length = None THEN <<start>> ELSE <<start, length>>]
     ELSE IF (IF Peek(s) = "FROM" THEN start ELSE length) # None
     THEN [s |-> Syntax(s), args |-> <<>>]
     ELSE IF Peek(s) = "FROM" THEN ParseSubstringStandard(c, v.s, v.e, length)
     ELSE ParseSubstringStandard(c, v.s, start, v.e)

\* Special argument syntax is an unsupported call, not a syntax error.
AsCallError(s, before) ==
  IF s.err = "syntax" /\ ~Failed(before) THEN [s EXCEPT !.err = "unsupported"] ELSE s
RECURSIVE ParseArgs(_, _, _)
ParseArgs(c, s, args) ==
  LET v == ParseExpr(c, 1, s)
      s1 == AsCallError(v.s, s)
  IN IF Failed(s) \/ Peek(s) = ")" THEN [s |-> Take(s, 1), args |-> args]
     ELSE IF Peek(s1) = ")" THEN [s |-> Take(s1, 1), args |-> Append(args, v.e)]
     ELSE IF Peek(s1) # "," THEN [s |-> Unsupported(s1), args |-> args]
     ELSE ParseArgs(c, Take(s1, 1), Append(args, v.e))
ParseFunction(c, s) ==
  LET s0 == Take(s, 2)
      first == ParseExpr(c, 1, s0)
      s1 == AsCallError(first.s, s0)
      standard == ParseSubstringStandard(c, s1, None, None)
      rest ==
        IF Peek(s0) \in {"DISTINCT", "ALL", "*"} THEN [s |-> Unsupported(s0), args |-> <<>>]
        ELSE IF Peek(s) # "SUBSTRING" \/ Peek(s0) = ")" THEN ParseArgs(c, s0, <<>>)
        ELSE CASE Peek(s1) \in {"FROM", "FOR"} -> [standard EXCEPT !.args = <<first.e>> \o @]
               [] Peek(s1) = "," -> ParseArgs(c, Take(s1, 1), <<first.e>>)
               [] Peek(s1) = ")" -> ParseArgs(c, s1, <<first.e>>)
               [] OTHER -> [s |-> Unsupported(s1), args |-> <<>>]
  IN R(IF At(rest.s, <<"FILTER", "(">>) THEN Unsupported(rest.s) ELSE rest.s,
       Node("function", Peek(s), rest.args), s.pos)

\* Whether OVER follows the ')' that closes the aggregate call around s.
RECURSIVE LookAheadForOver(_, _, _)
LookAheadForOver(s, n, open) ==
  CASE PeekAt(s, n) = End -> FALSE
    [] PeekAt(s, n) = "(" -> LookAheadForOver(s, n + 1, open + 1)
    [] PeekAt(s, n) = ")" -> IF open = s.aggregate_parens THEN PeekAt(s, n + 1) = "OVER"
                             ELSE LookAheadForOver(s, n + 1, open - 1)
    [] OTHER -> LookAheadForOver(s, n + 1, open)
ParseAggregate(s) ==
  LET kind == Peek(s)
      s0 == Take(s, 2)
      distinct == Peek(s0) = "DISTINCT"
      s1 == IF ~distinct THEN s0
            ELSE IF kind # "COUNT" THEN Unsupported(s0)
            ELSE IF PeekAt(s0, 1) \in {"*", ")"} THEN Syntax(s0) ELSE Take(s0, 1)
      arg == ParseExpr("aggregate", 1, [s1 EXCEPT !.aggregate_parens = s1.parens])
      s2 == [arg.s EXCEPT !.aggregate_parens = s.aggregate_parens]
      Call(t, op, args) ==
        R(t, [node |-> "aggregate", op |-> op, args |-> args,
              distinct |-> IF distinct THEN <<"DISTINCT">> ELSE <<>>], s.pos)
  IN CASE Peek(s1) = "*" -> IF kind = "COUNT" THEN Call(Expect(Take(s1, 1), ")"), "*", <<>>)
                            ELSE Call(Syntax(s1), kind, <<>>)
       [] Peek(s1) = "ALL" -> Call(Unsupported(s1), kind, <<>>)
       [] Peek(s1) = ")" -> Call(IF kind = "COUNT" THEN Unsupported(s1) ELSE Syntax(s1), kind, <<>>)
       [] OTHER -> Call(IF Peek(s2) = "ORDER" THEN Unsupported(s2) ELSE Expect(s2, ")"), kind, <<arg.e>>)

RECURSIVE ParseWhens(_, _, _, _)
ParseWhens(c, s, whens, thens) ==
  LET when == ParseExpr(c, 1, Take(s, 1))
      s0 == Expect(when.s, "THEN")
      null == Peek(s0) = "NULL" /\ PeekAt(s0, 1) \in {"WHEN", "ELSE", "END"}
      then == IF null THEN R(Take(s0, 1), Null, 0) ELSE ParseExpr(c, 1, s0)
  IN IF Peek(s) # "WHEN" THEN [s |-> s, whens |-> whens, thens |-> thens]
     ELSE ParseWhens(c, then.s, Append(whens, when.e), Append(thens, then.e))
ParseCase(c, s) ==
  LET s0 == Take(s, 1)
      operand == IF Peek(s0) = "WHEN" THEN R(s0, None, 0) ELSE ParseExpr(c, 1, s0)
      b == ParseWhens(c, operand.s, <<>>, <<>>)
      s1 == IF b.whens = <<>> THEN Syntax(b.s) ELSE b.s
      otherwise == IF Peek(s1) # "ELSE" THEN R(s1, None, 0)
                   ELSE IF At(s1, <<"ELSE", "NULL", "END">>) THEN R(Take(s1, 2), None, 0)
                   ELSE ParseExpr(c, 1, Take(s1, 1))
  IN R(Expect(otherwise.s, "END"),
       [node |-> "case", operand |-> operand.e, whens |-> b.whens, thens |-> b.thens,
        otherwise |-> otherwise.e], s.pos)

ParseQualifiedColumn(s) ==
  LET name == PeekAt(s, 2)
      s0 == Take(s, 2)
      s1 == IF name = "*" \/ (IsWord(name) /\ ~IsName(name)) THEN Unsupported(s0)
            ELSE IF ~IsName(name) THEN Syntax(s0) ELSE Take(s0, 1)
      s2 == IF Peek(s1) \in {".", "("} THEN Unsupported(s1)
            ELSE IF name = "E" /\ Peek(s1) = "'adjacent'" THEN Syntax(s1)
            ELSE IF Peek(s1) \in Strings1 \/ PrefixedStringAt(s1, 0) THEN Unsupported(s1) ELSE s1
  IN R(s2, Column(Peek(s), name), s.pos)

AggregateInPlace(c, s) ==
  IF c \in {"on", "where", "group_by"} \/ (c = "aggregate" /\ ~LookAheadForOver(s, 0, s.parens))
  THEN R(Syntax(s), None, 0)
  ELSE LET a == ParseAggregate(s)
       IN [a EXCEPT !.s = IF At(@, <<"FILTER", "(">>) THEN Unsupported(@) ELSE @]
ParseIdentifierPrimary(c, s) ==
  LET t == Peek(s)
      next == PeekAt(s, 1)
      string == next \in Strings1 \/ PrefixedStringAt(s, 1)
  IN IF next = "." /\ t \in AliasKeywords THEN R(Unsupported(s), None, 0)
     ELSE IF next = "." /\ t \notin Reserved THEN ParseQualifiedColumn(s)
     ELSE IF t = "EXISTS" /\ OpensNestedQuery(s, 1)
     THEN [ParseSubquery(Take(s, 1), "EXISTS", None) EXCEPT !.at = s.pos]
     ELSE IF (t = "EXISTS" /\ next = "(") \/ t \in UnsupportedOperands THEN R(Unsupported(s), None, 0)
     ELSE IF t = "CASE" THEN ParseCase(c, s)
     ELSE IF t \in {"CAST", "TRY_CAST"} /\ next = "(" THEN ParseCast(c, s)
     ELSE IF next \in Strings1 /\ t \in {"DATE", "TIMESTAMP"}
     THEN R(Take(s, 2), Literal(t, next), s.pos)
     ELSE IF string /\ t \notin Reserved THEN R(Unsupported(s), None, 0)
     ELSE IF next = "(" /\ t \in Aggregates THEN AggregateInPlace(c, s)
     ELSE IF next = "(" /\ t = "EXTRACT" THEN ParseExtract(c, s)
     ELSE IF next = "(" /\ t \notin Reserved \ {"LEFT", "RIGHT"} THEN ParseFunction(c, s)
     ELSE IF t \in Reserved THEN R(Syntax(s), None, 0)
     ELSE R(Take(s, 1), Column("", t), s.pos)

ParsePrimary(c, s) ==
  LET t == Peek(s)
      inner == ParseExpr(c, 1, Take(s, 1))
      s1 == ParenthesizedFirstBlock(inner.s, inner.e)
  IN CASE IsWord(t) -> ParseIdentifierPrimary(c, s)
       [] t \in Quoted ->
            (CASE PeekAt(s, 1) = "." -> ParseQualifiedColumn(s)
               [] PeekAt(s, 1) = "(" -> ParseFunction(c, s)
               [] PeekAt(s, 1) \in Strings1 \/ PrefixedStringAt(s, 1) -> R(Unsupported(s), None, 0)
               [] OTHER -> R(Take(s, 1), Column("", t), s.pos))
       [] t \in Integers1 \cup Decimals1 \cup Strings1 -> R(Take(s, 1), Literal("plain", t), s.pos)
       [] t = "(" -> IF OpensNestedQuery(s, 0) THEN ParseSubquery(s, "scalar", None)
                     ELSE [inner EXCEPT !.s = IF Peek(s1) = "," THEN Unsupported(s1) ELSE Expect(s1, ")")]
       [] t \in {"?", "->", "//", "[", "{"} \cup Parameters1 -> R(Unsupported(s), None, 0)
       [] OTHER -> R(Syntax(s), None, 0)

\* NOT x, - x or a primary and its casts.  NOT and the minus count the level
\* that their parentheses take in the canonical form.
ParsePrefix(c, min, s) ==
  LET t == Peek(s)
      op == Take(s, 1)
      Wrapped(operand, wrapped, name) ==
        [operand EXCEPT !.e = Node("unary", name, <<operand.e>>), !.at = s.pos,
                        !.s = IF Failed(@) THEN @ ELSE IF wrapped THEN CanonicalLevel(@, s.peak)
                              ELSE [@ EXCEPT !.peak = Larger(s.peak, @)]]
      negated == ParseExpr(c, 3, [Frame(op) EXCEPT !.minus = FALSE])
      minus == [ParseExpr(c, 7, [Frame(op) EXCEPT !.minus = TRUE]) EXCEPT !.s.minus = FALSE]
      primary == ParsePrimary(c, [Frame(s) EXCEPT !.minus = FALSE])
      postfix == IF Failed(primary.s) THEN primary ELSE ParseCasts(primary, s.pos)
  IN CASE t = "NOT" -> Wrapped(negated, min > 3 /\ ~s.minus, "NOT")
       [] t = "-" /\ PeekAt(s, 1) \in Integers1 \cup Decimals1 /\ PeekAt(s, 2) # "::" ->
            R([Take(s, 2) EXCEPT !.minus = FALSE], Literal("negative", PeekAt(s, 1)), s.pos)
       [] t = "-" /\ ~(PeekAt(s, 1) \in Integers1 \cup Decimals1 /\ PeekAt(s, 2) # "::") ->
            Wrapped(minus, ~(Peek(op) = "(" /\ minus.at # op.pos), "-")
       [] t = "+" -> R(Unsupported(s), None, 0)
       [] OTHER -> [postfix EXCEPT !.s.peak = Larger(s.peak, @)]

ParseExpr(c, min, s) ==
  LET d == Deeper(s)
      lhs == ParsePrefix(c, min, Frame(d))
      r == IF Failed(lhs.s) THEN lhs ELSE ParseInfixLoop(c, min, lhs)
  IN IF Failed(d) THEN R(d, None, 0) ELSE [r EXCEPT !.s = Outer(@, s)]

-----------------------------------------------------------------------------
\* A predicate, split at its top-level AND chain; an OR after the chain makes
\* it one conjunct, the tree so far its left operand.
RECURSIVE ParseChain(_, _, _, _)
ParseChain(c, s, chain, peaks) ==
  LET e == ParseExpr(c, 3, Frame(s))
      all == Append(chain, e.e)
      tops == Append(peaks, e.s.peak)
  IN IF Peek(e.s) = "AND" THEN ParseChain(c, Take(e.s, 1), all, tops)
     ELSE [s |-> e.s, chain |-> all, peaks |-> tops]
\* A bug to check the property below against: OR takes the last conjunct only.
ConjunctionOfLast(s, tree, rest) ==
  [s |-> s, tree |-> IF rest.chain = <<>> THEN tree ELSE rest.chain[Len(rest.chain)]]
RECURSIVE Conjunction(_, _, _)
Conjunction(s, tree, rest) ==
  IF rest.chain = <<>> THEN [s |-> s, tree |-> tree]
  ELSE Conjunction(Lifted(s, Larger(s.peak, rest.peaks[1])), Node("binary", "AND", <<tree, rest.chain[1]>>),
                   [chain |-> Tail(rest.chain), peaks |-> Tail(rest.peaks)])
RECURSIVE ParseOrs(_, _, _)
ParseOrs(c, s, tree) ==
  LET s0 == IF s.peak + 1 > MaxDepth THEN DepthError(s) ELSE Frame(Take(s, 1))
      rhs == ParseExpr(c, 2, s0)
  IN IF Peek(s) # "OR" THEN [s |-> s, tree |-> tree]
     ELSE ParseOrs(c, Lifted(rhs.s, Larger(s.peak, rhs.s.peak)), Node("binary", "OR", <<tree, rhs.e>>))
ParseConjuncts(c, s) ==
  LET r == ParseChain(c, s, <<>>, <<>>)
      chain == Conjunction([r.s EXCEPT !.peak = r.peaks[1]], r.chain[1],
                           [chain |-> Tail(r.chain), peaks |-> Tail(r.peaks)])
      ors == ParseOrs(c, chain.s, chain.tree)
  IN IF Peek(r.s) = "OR" THEN [s |-> Outer(ors.s, s), list |-> <<ors.tree>>]
     ELSE [s |-> Outer([r.s EXCEPT !.peak = Deepest(Below(r.peaks))], s), list |-> r.chain]

-----------------------------------------------------------------------------
\* The select list.
StarModifier(s) ==
  LET word == Peek(s)
      op == IF word = "NOT" THEN PeekAt(s, 1) ELSE word
      words == (IF word = "NOT" THEN 2 ELSE 1) + (IF op = "SIMILAR" THEN 1 ELSE 0)
      pattern == op \in {"LIKE", "ILIKE"} \cup (IF word = "NOT" THEN {} ELSE {"GLOB"})
                   \/ (op = "SIMILAR" /\ PeekAt(s, words - 1) = "TO")
  IN IF word \in {"EXCLUDE", "REPLACE", "RENAME"} THEN Unsupported(s)
     ELSE IF ~pattern THEN s
     ELSE IF PeekAt(s, words) \in Strings1 \cup {"("} \/ PrefixedStringAt(s, words) THEN Unsupported(s)
     ELSE IF words > 1 THEN Syntax(s) ELSE s
StarAlias(s) ==
  LET complete(n) == PeekAt(s, n) \in {",", "FROM"}
  IN IF Peek(s) = "AS"
     THEN IF PrefixedStringAt(s, 1) THEN Unsupported(s)
          ELSE IF (IsWord(PeekAt(s, 1)) \/ PeekAt(s, 1) \in Quoted \cup Strings1) /\ complete(2)
          THEN Unsupported(s) ELSE Syntax(s)
     ELSE IF /\ IsName(Peek(s)) /\ Peek(s) \notin {"ISNULL", "NOTNULL", "AT"}
             /\ ~PrefixedStringAt(s, 0) /\ complete(1)
     THEN Unsupported(s) ELSE s
StartsStar(s) ==
  Peek(s) = "*" \/ (IsName(Peek(s)) /\ PeekAt(s, 1) = "." /\ PeekAt(s, 2) = "*")
Item(value, alias) == [value |-> value, alias |-> alias]
FinishSelectItem(r) ==
  LET as == Peek(r.s) = "AS"
      s0 == IF as THEN Take(r.s, 1) ELSE r.s
      name == Peek(s0)
  IN IF IsName(name) THEN [s |-> Take(s0, 1), item |-> Item(r.e, Text(name))]
     ELSE IF ~as THEN [s |-> s0, item |-> Item(r.e, "")]
     ELSE [s |-> IF IsWord(name) \/ name \in Strings1 THEN Unsupported(s0) ELSE Syntax(s0),
           item |-> Item(r.e, "")]
ParseStar(s) ==
  LET qualified == Peek(s) # "*"
  IN [s |-> StarAlias(StarModifier(Take(s, IF qualified THEN 3 ELSE 1))),
      item |-> Item(Star(IF qualified THEN Peek(s) ELSE ""), "")]
ParseSelectItem(s) ==
  LET value == ParseExpr("select", 1, s)
  IN IF StartsStar(s) THEN ParseStar(s)
     ELSE IF Peek(s) = "NULL" /\ (PeekAt(s, 1) \in {",", "AS"} \/ EndsList(s, 1))
     THEN FinishSelectItem(R(Take(s, 1), Null, s.pos))
     ELSE IF Failed(value.s) THEN [s |-> value.s, item |-> Item(None, "")] ELSE FinishSelectItem(value)
\* A comma before what ends a list is a trailing comma.
NextInList(s) == IF EndsList(Take(s, 1), 0) THEN Unsupported(s) ELSE Take(s, 1)
RECURSIVE ParseItems(_, _)
ParseItems(s, items) ==
  LET i == ParseSelectItem(s)
      all == Append(items, i.item)
  IN IF Peek(i.s) = "," THEN ParseItems(NextInList(i.s), all) ELSE [s |-> i.s, items |-> all]
ParseSelectList(s) ==
  LET distinct == Peek(s) = "DISTINCT"
      s0 == IF distinct THEN Take(s, 1) ELSE s
      list == ParseItems(IF (distinct /\ At(s0, <<"ON", "(">>)) \/ Peek(s0) = "ALL" THEN Unsupported(s0) ELSE s0, <<>>)
  IN [s |-> list.s, items |-> list.items, distinct |-> distinct]
ExpectFrom(s, has_star) ==
  LET t == Peek(s)
  IN IF t = "FROM" THEN Take(s, 1)
     ELSE IF has_star /\ EndsList(s, 0) THEN Syntax(s)
     ELSE IF EndsList(s, 0) THEN Unsupported(s) ELSE Syntax(s)

-----------------------------------------------------------------------------
\* The FROM list.
ExpectJoinAt(s, n) == PeekAt(s, n) = "JOIN"
CompleteJoinKind(s) ==
  LET kind == PeekAt(s, 1)
  IN \/ kind = "JOIN"
     \/ /\ kind \in JoinKinds
        /\ (kind \in {"LEFT", "RIGHT", "FULL"} /\ PeekAt(s, 2) = "OUTER") \/ ExpectJoinAt(s, 2)
CompleteJoin(s) ==
  CASE Peek(s) \in {"INNER", "CROSS"} -> ExpectJoinAt(s, 1)
    [] Peek(s) \in {"LEFT", "RIGHT", "FULL"} -> ExpectJoinAt(s, IF PeekAt(s, 1) = "OUTER" THEN 2 ELSE 1)
    [] Peek(s) = "NATURAL" -> CompleteJoinKind(s)
    [] OTHER -> TRUE
ParseJoinKeywords(s) ==
  LET t == Peek(s)
      take(connector, n) == [s |-> Take(s, n), connector |-> connector]
  IN IF ~CompleteJoin(s) THEN [s |-> Syntax(s), connector |-> ""]
     ELSE CASE t = "JOIN" -> take("INNER", 1)
            [] t \in {"INNER", "CROSS"} -> take(t, 2)
            [] t = "LEFT" -> take("LEFT", IF PeekAt(s, 1) = "OUTER" THEN 3 ELSE 2)
            [] t \in {"RIGHT", "FULL", "NATURAL"} -> [s |-> Unsupported(s), connector |-> ""]
            [] t = "OUTER" -> [s |-> Syntax(s), connector |-> ""]
            [] OTHER -> [s |-> s, connector |-> ""]

\* Whether the word at the next token has its meaning after a table, a derived
\* table or an ON condition.
Meaning(s, after) ==
  LET t == Peek(s)
      next == PeekAt(s, 1)
  IN CASE t \in JoinWords -> next = "JOIN"
       [] t = "ASOF" -> CompleteJoinKind(s)
       [] t = "AT" -> after = "table" /\ next = "("
       [] t = "PIVOT" -> next = "("
       [] t = "UNPIVOT" -> next \in {"(", "INCLUDE", "EXCLUDE"}
       [] t = "TABLESAMPLE" -> /\ after # "on"
                               /\ \/ next \in Integers1 \cup Decimals1 \cup {"("}
                                  \/ IsName(next) /\ PeekAt(s, 2) = "("
       [] OTHER -> FALSE
StartsLateralItem(s) ==
  LET next == PeekAt(s, 1)
  IN next = "(" \/ (IsFunctionName(next) /\ PeekAt(s, 2) = "(") \/ (IsQualifier(next) /\ PeekAt(s, 2) = ".")
ParenthesizedJoin(s) ==
  LET next == PeekAt(s, 1)
      after == PeekAt(s, 2)
  IN \/ IsFunctionName(next) /\ after = "("
     \/ IsQualifier(next) /\ after = "."
     \/ next = "LATERAL" /\ (after = "(" \/ IsFunctionName(after) \/ IsQualifier(after))
ParseFromSource(s) ==
  LET t == Peek(s)
      next == PeekAt(s, 1)
      after == PeekAt(s, 2)
      table(u) == [s |-> u, table |-> t, query |-> Statement]
      derived == ParseNestedQuery(s, FALSE)
  IN IF t \in Strings1 THEN table(Take(s, 1))
     ELSE IF t # "(" /\ ~IsWord(t) /\ t \notin Quoted THEN table(Syntax(s))
     ELSE IF t # "("
     THEN IF \/ t = "LATERAL" /\ StartsLateralItem(s)
             \/ t = "ONLY" /\ StartsRelation(next)
             \/ next = "(" /\ IsFunctionName(t)
             \/ next = "." /\ t \in AliasKeywords
          THEN table(Unsupported(s))
          ELSE table(IF t \in Reserved THEN Syntax(s) ELSE Take(s, 1))
     ELSE IF next = "(" /\ StartsRelation(after) /\ after \notin SubqueryStarts \cup {"VALUES"}
     THEN table(Unsupported(s))
     ELSE IF \/ next \in {"(", "FROM", "TABLE"} \cup SubqueryStarts
             \/ next = "VALUES" /\ after = "("
     THEN [s |-> derived.s, table |-> "", query |-> derived.q]
     ELSE IF ParenthesizedJoin(s) THEN table(Unsupported(s))
     ELSE IF next \notin Strings1 /\ ~IsName(next) THEN table(Syntax(s))
     ELSE table(IF after \in {")", ",", ";", End} THEN Syntax(s) ELSE Unsupported(s))

RECURSIVE ParseColumnAliases(_, _)
ParseColumnAliases(s, columns) ==
  LET t == Peek(s)
      s0 == IF t \in Strings1 \/ PrefixedStringAt(s, 0) THEN Unsupported(s)
            ELSE IF IsTableAlias(t, FALSE) THEN Take(s, 1) ELSE Syntax(s)
      all == Append(columns, Text(t))
  IN IF Peek(s0) = "," /\ PeekAt(s0, 1) = ")" THEN [s |-> Unsupported(s0), columns |-> all]
     ELSE IF Peek(s0) = "," THEN ParseColumnAliases(Take(s0, 1), all)
     ELSE [s |-> Expect(s0, ")"), columns |-> all]

ParseAlias(s, after) ==
  LET as == Peek(s) = "AS"
      s0 == IF as THEN Take(s, 1) ELSE s
      name == Peek(s0)
      s1 == IF as /\ (name = "''" \/ PrefixedStringAt(s0, 0)) THEN Unsupported(s0)
            ELSE IF IsTableAlias(name, as) THEN Take(s0, 1)
            ELSE IF ~as /\ name \in NotAnAlias /\ Meaning(s0, after) THEN Unsupported(s0)
            ELSE IF as \/ name \in NotAnAlias THEN Syntax(s0) ELSE s0
      aliased == s1.pos > s0.pos
      list == ParseColumnAliases(Take(s1, 1), <<>>)
      columns == IF aliased /\ Peek(s1) = "(" /\ after = "derived" THEN list
                 ELSE [s |-> IF aliased /\ Peek(s1) = "(" THEN Unsupported(s1) ELSE s1, columns |-> <<>>]
  IN [s |-> IF aliased /\ Peek(columns.s) \in NotAnAlias /\ Meaning(columns.s, after)
            THEN Unsupported(columns.s) ELSE columns.s,
      alias |-> IF aliased THEN Text(name) ELSE "", columns |-> columns.columns]

ParseOn(s) ==
  LET on == ParseConjuncts("on", Take(s, 1))
  IN IF Peek(s) = "ON"
     THEN [on EXCEPT !.s = IF Peek(@) \in NotAnAlias /\ Meaning(@, "on") THEN Unsupported(@) ELSE @]
     ELSE [s |-> IF Peek(s) = "USING" \/ (Peek(s) \in JoinStarts /\ CompleteJoin(s))
                 THEN Unsupported(s) ELSE Syntax(s), list |-> <<>>]
ParseFromItem(s, connector) ==
  LET source == ParseFromSource(s)
      qualified == IsName(source.table) /\ Peek(source.s) = "."
      alias == ParseAlias(IF qualified THEN Unsupported(source.s) ELSE source.s,
                          IF source.table = "" THEN "derived" ELSE "table")
      on == IF connector \in {"INNER", "LEFT"} THEN ParseOn(alias.s) ELSE [s |-> alias.s, list |-> <<>>]
  IN [s |-> on.s, item |-> [connector |-> connector, table |-> source.table, query |-> source.query,
                            alias |-> alias.alias, columns |-> alias.columns, on |-> on.list]]
RECURSIVE ParseFromList(_, _, _)
ParseFromList(s, connector, items) ==
  LET i == ParseFromItem(s, connector)
      all == Append(items, i.item)
      join == ParseJoinKeywords(i.s)
  IN IF Failed(i.s) THEN [s |-> i.s, from |-> all]
     ELSE IF Peek(i.s) = ","
     THEN IF EndsList(i.s, 1) /\ PeekAt(i.s, 1) \notin {"FROM", "INTO"}
          THEN [s |-> Unsupported(i.s), from |-> all]
          ELSE ParseFromList(Take(i.s, 1), "comma", all)
     ELSE IF join.connector = "" THEN [s |-> join.s, from |-> all]
     ELSE ParseFromList(join.s, join.connector, all)

-----------------------------------------------------------------------------
\* GROUP BY: expressions and grouping elements.
RECURSIVE ParseGroupingElement(_, _)
RECURSIVE ParseElements(_, _, _)
ParseElements(s, place, elements) ==
  LET g == ParseGroupingElement(s, place)
      all == Append(elements, g.g)
  IN IF Peek(s) = ")" THEN [s |-> Syntax(s), elements |-> elements]
     ELSE IF Peek(g.s) # "," THEN [s |-> Expect(g.s, ")"), elements |-> all]
     ELSE IF PeekAt(g.s, 1) = ")" THEN [s |-> Unsupported(g.s), elements |-> all]
     ELSE ParseElements(Take(g.s, 1), place, all)
ParseGroupingContainer(s, kind) ==
  LET d == Frame(Deeper(s))
      list == ParseElements(Expect(Take(d, IF kind = "sets" THEN 2 ELSE 1), "("),
                            IF kind = "sets" THEN "sets" ELSE "rollup", <<>>)
  IN [s |-> Outer(list.s, s), g |-> Element(kind, <<>>, list.elements)]
RECURSIVE ParseRow(_, _)
ParseRow(s, exprs) ==
  LET e == ParseExpr("group_by", 1, Take(s, 1))
  IN IF Peek(s) = "," THEN ParseRow(e.s, Append(exprs, e.e)) ELSE [s |-> Expect(s, ")"), exprs |-> exprs]
ParseParenthesizedElement(s, place) ==
  LET d == Take(Frame(Deeper(s)), 1)
      first == ParseExpr("group_by", 1, d)
      s1 == ParenthesizedFirstBlock(first.s, first.e)
      row == ParseRow(s1, <<first.e>>)
      e == ParseInfixLoop("group_by", 1, ParseCasts(R(Expect(s1, ")"), first.e, first.at), s.pos))
  IN IF Peek(d) = ")"
     THEN [s |-> IF place = "rollup" THEN Syntax(d) ELSE Take(d, 1), g |-> Element("empty", <<>>, <<>>)]
     ELSE IF Peek(s1) = ","
     THEN [s |-> IF Failed(UnsupportedOperator(row.s)) \/ InfixPrecedence(row.s) # 0
                 THEN Unsupported(row.s) ELSE row.s,
           g |-> Element("row", row.exprs, <<>>)]
     ELSE [s |-> e.s, g |-> Element("expr", <<e.e>>, <<>>)]
ParseGroupingElement(s, place) ==
  LET nested == ParseParenthesizedElement(s, place)
      e == ParseExpr("group_by", 1, s)
  IN IF place # "rollup" /\ Peek(s) \in {"ROLLUP", "CUBE"} /\ PeekAt(s, 1) = "("
     THEN ParseGroupingContainer(s, Peek(s))
     ELSE IF place # "rollup" /\ At(s, <<"GROUPING", "SETS">>) THEN ParseGroupingContainer(s, "sets")
     ELSE IF Peek(s) = "(" /\ ~OpensNestedQuery(s, 0) THEN [nested EXCEPT !.s = Outer(@, s)]
     ELSE [s |-> e.s, g |-> Element("expr", <<e.e>>, <<>>)]
RECURSIVE ParseGroupItems(_, _)
ParseGroupItems(s, items) ==
  LET g == ParseGroupingElement(s, "list")
      all == Append(items, g.g)
  IN IF Peek(g.s) = "," THEN ParseGroupItems(NextInList(g.s), all) ELSE [s |-> g.s, items |-> all]
ParseGroupBy(s, b) ==
  LET s0 == Expect(Take(s, 1), "BY")
      list == ParseGroupItems(s0, <<>>)
      items == list.items
      sets == \E i \in DOMAIN items : items[i].kind # "expr"
  IN IF Peek(s0) = "ALL"
     THEN [s |-> IF PeekAt(s0, 1) = "," THEN Syntax(s0) ELSE Unsupported(s0), b |-> b]
     ELSE [s |-> list.s,
           b |-> IF sets THEN [b EXCEPT !.grouping = items]
                 ELSE [b EXCEPT !.group_by = [i \in DOMAIN items |-> items[i].exprs[1]]]]

-----------------------------------------------------------------------------
\* ORDER BY, LIMIT and OFFSET.
ParseOrderItem(s) ==
  LET e == ParseExpr("order_by", 1, s)
      s0 == IF Peek(e.s) = "USING" THEN Unsupported(e.s) ELSE e.s
      s1 == IF Peek(s0) \in {"ASC", "DESC"} THEN Take(s0, 1) ELSE s0
      nulls == IF Peek(s1) = "NULLS" THEN PeekAt(s1, 1) ELSE ""
  IN [s |-> IF Peek(s1) # "NULLS" THEN s1 ELSE IF nulls \in {"FIRST", "LAST"} THEN Take(s1, 2) ELSE Syntax(s1),
      item |-> [expr |-> e.e, descending |-> Peek(s0) = "DESC", nulls |-> nulls]]
RECURSIVE ParseOrderItems(_, _)
ParseOrderItems(s, items) ==
  LET i == ParseOrderItem(s)
      all == Append(items, i.item)
  IN IF Peek(i.s) = "," THEN ParseOrderItems(NextInList(i.s), all) ELSE [s |-> i.s, items |-> all]
ParseOrderBy(s) ==
  LET s0 == Expect(Take(s, 1), "BY")
  IN ParseOrderItems(IF Peek(s0) = "ALL" THEN Unsupported(s0) ELSE s0, <<>>)

\* The parts of a qualified name before its last one.
RECURSIVE NameParts(_)
NameParts(s) ==
  IF PeekAt(s, 1) = "." /\ (IsWord(PeekAt(s, 2)) \/ PeekAt(s, 2) \in Quoted)
  THEN [NameParts(Take(s, 2)) EXCEPT !.parts = @ + 1] ELSE [s |-> s, parts |-> 1]
LimitExpression(s) ==
  LET name == IF IsName(Peek(s)) THEN NameParts(s) ELSE [s |-> s, parts |-> 1]
      head == Peek(name.s)
      call == (IsWord(head) \/ head \in Quoted) /\ PeekAt(name.s, 1) = "("
      typed == IsName(head) /\ (PeekAt(name.s, 1) \in Strings1 \/ PrefixedStringAt(name.s, 1))
  IN IF name.parts > 1 /\ head = "E" /\ PeekAt(name.s, 1) = "'adjacent'" THEN Syntax(s)
     ELSE IF (call \/ typed) /\ name.parts <= 3 THEN Unsupported(s) ELSE Syntax(s)
ParseLimit(s, clause) ==
  LET t == Peek(s)
      after == Take(s, 1)
      next == Peek(after)
  IN IF t \in Integers1
     THEN IF t \in OutOfRange THEN Syntax(s)
          ELSE IF \/ next \in {"%", "PERCENT", "+", "-", "*", "/", "::", "//"}
                  \/ clause = "LIMIT" /\ next = ","
                  \/ clause = "OFFSET" /\ next \in {"ROW", "ROWS"}
               THEN Unsupported(after) ELSE UnsupportedOperator(after)
     ELSE IF t = "-" THEN Syntax(s)
     ELSE IF t \in Decimals1 \cup UnsupportedOperands \cup {"(", "+", "?", "->", "//", "[", "{"} \cup Strings1 \cup Parameters1
     THEN Unsupported(s) ELSE LimitExpression(s)
RECURSIVE ParseLimits(_, _)
ParseLimits(s, q) ==
  LET limit == q.limit = "" /\ Peek(s) = "LIMIT"
      offset == q.offset = "" /\ Peek(s) = "OFFSET"
      value == PeekAt(s, 1)
  IN IF ~limit /\ ~offset THEN [s |-> s, q |-> q]
     ELSE ParseLimits(ParseLimit(Take(s, 1), Peek(s)),
                      IF limit THEN [q EXCEPT !.limit = value] ELSE [q EXCEPT !.offset = value])
ParseTail(s, q) ==
  LET order == ParseOrderBy(s)
  IN IF Peek(s) = "ORDER" THEN ParseLimits(order.s, [q EXCEPT !.order_by = order.items])
     ELSE ParseLimits(s, q)

-----------------------------------------------------------------------------
\* Blocks, compounds, WITH lists and queries.
ParseBlockCore(s, q) ==
  LET list == ParseSelectList(Take(s, 1))
      star == \E i \in DOMAIN list.items : list.items[i].value.node = "star"
      from == ParseFromList(ExpectFrom(list.s, star), "first", <<>>)
      where == IF Peek(from.s) = "WHERE" THEN ParseConjuncts("where", Take(from.s, 1))
               ELSE [s |-> from.s, list |-> <<>>]
      block == [q EXCEPT !.distinct = list.distinct, !.items = list.items, !.from = from.from,
                         !.where = where.list]
      group == IF Peek(where.s) = "GROUP" THEN ParseGroupBy(where.s, block) ELSE [s |-> where.s, b |-> block]
      having == IF Peek(group.s) = "HAVING" THEN ParseConjuncts("having", Take(group.s, 1))
                ELSE [s |-> group.s, list |-> <<>>]
  IN CASE Failed(list.s) -> [s |-> list.s, q |-> q]
       [] ~Failed(list.s) /\ Failed(from.s) -> [s |-> from.s, q |-> q]
       [] OTHER -> [s |-> having.s, q |-> [group.b EXCEPT !.having = having.list]]
NotAQuery(s) == IF Peek(s) \in {"FROM"} \cup OtherStatements THEN Unsupported(s) ELSE Syntax(s)

ParseSetOperator(s) ==
  LET op == Peek(s)
      s0 == Take(s, 1)
      quantified == Peek(s0) \in {"ALL", "DISTINCT"}
      s1 == IF quantified THEN Take(s0, 1) ELSE s0
  IN [s |-> IF quantified /\ Peek(s1) \in {"ALL", "DISTINCT"} THEN Syntax(s1)
            ELSE IF Peek(s1) = "BY" THEN (IF op = "UNION" THEN Unsupported(s1) ELSE Syntax(s1)) ELSE s1,
      op |-> op, all |-> Peek(s0) = "ALL"]
Branch(query, op, all) == [query |-> query, op |-> op, all |-> all]
RECURSIVE ParseBranches(_, _, _)
ParseBranches(s, branches, after_outer) ==
  LET op == ParseSetOperator(s)
      last == branches[Len(branches)]
      s1 == IF Len(branches) = 1 \/ last.op # op.op \/ last.all # op.all
            THEN Lifted(op.s, op.s.peak) ELSE op.s
      nested == op.op = "INTERSECT" /\ after_outer
      parens == Peek(s1) = "("
      inner == ParseNestedQuery(IF nested THEN Deeper(s1) ELSE s1, TRUE)
      down == [s1 EXCEPT !.depth = @ + 1, !.peak = Larger(@, s1.depth + 1)]
      s2 == IF nested THEN Deeper(down) ELSE down
      block == IF Peek(s2) = "SELECT" THEN ParseBlockCore(s2, Statement)
               ELSE [s |-> IF Peek(s2) = "WITH" THEN Syntax(s2) ELSE NotAQuery(s2), q |-> Statement]
      r == IF parens THEN inner ELSE block
      rest == ParseBranches([r.s EXCEPT !.depth = s.depth], Append(branches, Branch(r.q, op.op, op.all)),
                            after_outer \/ op.op # "INTERSECT")
  IN IF IsSetOperator(Peek(s)) THEN rest ELSE [s |-> s, branches |-> branches]
ParseCompound(s, q, first) ==
  LET c == ParseBranches(s, <<Branch(first, "", FALSE)>>, FALSE)
  IN [s |-> c.s, q |-> [q EXCEPT !.set_operation = c.branches]]

ParseCte(s, names) ==
  LET t == Peek(s)
      s0 == IF PrefixedStringAt(s, 0) THEN Unsupported(s)
            ELSE IF t \notin Strings1 /\ ~IsTableAlias(t, FALSE) THEN Syntax(s)
            ELSE IF AsciiUpper(Text(t)) \in names THEN Syntax(s)
            ELSE IF t \in Strings1 THEN Unsupported(s) ELSE Take(s, 1)
      list == ParseColumnAliases(Take(s0, 1), <<>>)
      columns == IF Peek(s0) = "(" THEN list ELSE [s |-> s0, columns |-> <<>>]
      s1 == IF At(columns.s, <<"USING", "KEY">>) THEN Unsupported(columns.s) ELSE Expect(columns.s, "AS")
      s2 == IF Peek(s1) = "MATERIALIZED" \/ At(s1, <<"NOT", "MATERIALIZED">>) THEN Unsupported(s1)
            ELSE IF Peek(s1) = "(" THEN s1 ELSE Syntax(s1)
      query == ParseNestedQuery(s2, FALSE)
  IN [s |-> query.s, cte |-> [name |-> Text(t), columns |-> columns.columns, query |-> query.q]]
RECURSIVE ParseCtes(_, _, _)
ParseCtes(s, ctes, names) ==
  LET c == ParseCte(s, names)
      all == Append(ctes, c.cte)
  IN IF Peek(c.s) = "," THEN ParseCtes(Take(c.s, 1), all, names \cup {AsciiUpper(c.cte.name)})
     ELSE [s |-> c.s, with |-> all]
ParseWith(s) ==
  LET s0 == Take(s, 1)
  IN ParseCtes(IF Peek(s0) = "RECURSIVE" /\ PeekAt(s0, 1) \notin {"AS", "(", "USING"} THEN Unsupported(s0) ELSE s0,
               <<>>, {})

\* A parenthesized query that stands alone becomes the statement.
Unwrap(s, q, inner) ==
  IF q.with # <<>> /\ inner.with # <<>> THEN [s |-> Syntax(s), q |-> q]
  ELSE [s |-> s, q |-> IF q.with = <<>> THEN inner ELSE [inner EXCEPT !.with = q.with]]
SecondTail(s, q) ==
  IF \/ Peek(s) = "ORDER" /\ q.order_by # <<>>
     \/ Peek(s) = "LIMIT" /\ q.limit # ""
     \/ Peek(s) = "OFFSET" /\ q.offset # ""
  THEN Syntax(s)
  ELSE IF Peek(s) \in {"ORDER", "LIMIT", "OFFSET"} THEN Unsupported(s) ELSE s
RejectNullItem(s, q) ==
  IF q.set_operation = <<>> /\ \E i \in DOMAIN q.items : q.items[i].value = Null THEN Unsupported(s) ELSE s
ParseBlockEnd(s, end) ==
  CASE end = "parenthesis" /\ Peek(s) = ")" -> s
    [] end = "statement" /\ Peek(s) = End -> s
    [] end = "statement" /\ Peek(s) = ";" -> IF PeekAt(s, 1) = End THEN Take(s, 1) ELSE Unsupported(s)
    [] OTHER -> IF Peek(s) \in UnsupportedClauses THEN Unsupported(s) ELSE Syntax(s)

ParseQuery(s, end, branch) ==
  LET with == IF Peek(s) = "WITH" THEN ParseWith(s) ELSE [s |-> s, with |-> <<>>]
      stmt == [Statement EXCEPT !.with = with.with]
      open == [Frame(with.s) EXCEPT !.end = end, !.minus = FALSE]
      parenthesized == Peek(open) = "("
      inner == ParseNestedQuery(open, TRUE)
      alone == Unwrap(inner.s, stmt, inner.q)
      block == ParseBlockCore(open, stmt)
      first == IF parenthesized THEN inner ELSE block
      taken == IF parenthesized THEN inner.q ELSE [block.q EXCEPT !.with = <<>>]
      compound == IsSetOperator(Peek(first.s))
      primary == IF compound THEN ParseCompound(first.s, stmt, taken)
                 ELSE IF parenthesized THEN alone ELSE block
      own_tail == parenthesized /\ ~compound
                    /\ (primary.q.order_by # <<>> \/ primary.q.limit # "" \/ primary.q.offset # "")
      s1 == [primary.s EXCEPT !.peak = Larger(with.s.peak, @)]
      tail == ParseTail(IF own_tail THEN SecondTail(s1, primary.q) ELSE s1, primary.q)
      s2 == IF branch THEN tail.s ELSE RejectNullItem(tail.s, tail.q)
  IN IF ~parenthesized /\ Peek(open) # "SELECT" THEN [s |-> NotAQuery(open), q |-> stmt]
     ELSE IF Failed(first.s) THEN [s |-> first.s, q |-> stmt]
     ELSE [s |-> [ParseBlockEnd(s2, end) EXCEPT !.end = s.end, !.minus = s.minus], q |-> tail.q]

\* Parse: the statement, or the error.
Run(tokens) ==
  LET r == ParseQuery(NewParser(tokens), "statement", FALSE) IN [err |-> r.s.err, q |-> r.q]

-----------------------------------------------------------------------------
(***************************************************************************)
(* What the binder makes of a predicate before it classifies conjuncts     *)
(* (or_factoring.cc, BindElement): the conjuncts that every branch of an   *)
(* OR shares come out of it, and an IN list that it implies goes beside    *)
(* it.  A conjunct that is only bound, for its errors, keeps no row back.  *)
(***************************************************************************)
RECURSIVE Chain(_, _)
Chain(op, e) ==
  IF e.node = "binary" /\ e.op = op THEN Chain(op, e.args[1]) \o Chain(op, e.args[2]) ELSE <<e>>
Branches(e) == Chain("OR", e)
Unique(list) ==
  FoldLeft(LAMBDA acc, x : IF x \in ToSet(acc) THEN acc ELSE Append(acc, x), <<>>, list)

\* The literals that a conjunct bounds a column to: all of an IN list's values
\* or none of them.
IsLiteral(e) == e.node = "literal"
\* A bug to check the property below against: the literals of a list that has others.
LiteralsOf(conjunct, column) ==
  CASE conjunct.node = "IN" /\ conjunct.op = "" /\ conjunct.args[1] = column ->
         SelectSeq(Tail(conjunct.args), IsLiteral)
    [] conjunct.node = "binary" /\ conjunct.op = "=" /\ conjunct.args[1] = column ->
         SelectSeq(Tail(conjunct.args), IsLiteral)
    [] OTHER -> <<>>
ValuesOf(conjunct, column) ==
  LET args == conjunct.args
      other == IF args[1] = column THEN args[2] ELSE args[1]
  IN CASE conjunct.node = "binary" /\ conjunct.op = "=" ->
            IF column \in ToSet(args) /\ IsLiteral(other) THEN <<other>> ELSE <<>>
       [] conjunct.node = "IN" /\ conjunct.op = "" ->
            IF args[1] = column /\ \A v \in ToSet(Tail(args)) : IsLiteral(v) THEN Tail(args) ELSE <<>>
       [] OTHER -> <<>>
KindOf(literal) ==
  CASE literal.kind \in {"plain", "negative"} ->
         (CASE literal.text \in Integers1 -> "integer" [] literal.text \in Decimals1 -> "decimal"
            [] OTHER -> "string")
    [] OTHER -> literal.kind
SameKind(values) == Cardinality({KindOf(v) : v \in ToSet(values)}) = 1

\* The operands that the first branch may bound, in its order.
Constrained(branch) ==
  LET Operand(c) ==
        CASE c.node = "binary" /\ c.op = "=" -> IF IsLiteral(c.args[2]) THEN c.args[1] ELSE c.args[2]
          [] c.node = "IN" /\ c.op = "" -> c.args[1]
          [] OTHER -> None
      all == [i \in DOMAIN branch |-> Operand(branch[i])]
  IN Unique(SelectSeq(all, LAMBDA e : e # None /\ ~IsLiteral(e)))

Planned(e) == [expr |-> e, bind_only |-> FALSE]
DeriveImpliedInLists(per_branch, already, out) ==
  LET Bounds(branch, column) == FlattenSeq([i \in DOMAIN branch |-> ValuesOf(branch[i], column)])
      Derive(acc, column) ==
        LET bounds == [b \in DOMAIN per_branch |-> Bounds(per_branch[b], column)]
            values == FlattenSeq(bounds)
            derived == Node("IN", "", <<column>> \o Unique(values))
        IN IF /\ \A b \in DOMAIN bounds : bounds[b] # <<>>
              /\ SameKind(values)
              /\ Len(Unique(values)) >= 2
              /\ derived \notin ToSet(already)
              /\ \A i \in DOMAIN acc : acc[i].expr # derived
           THEN Append(acc, Planned(derived)) ELSE acc
  IN FoldLeft(Derive, out, Constrained(per_branch[1]))

FactorSharedConjuncts(element, siblings) ==
  LET Factor(out, conjunct) ==
        LET branches == Branches(conjunct)
            per_branch == [b \in DOMAIN branches |-> Chain("AND", branches[b])]
            shared == Unique(SelectSeq(per_branch[1], LAMBDA c :
                        \A b \in DOMAIN per_branch : c \in ToSet(per_branch[b])))
            rest == [b \in DOMAIN per_branch |->
                       SelectSeq(per_branch[b], LAMBDA c : c \notin ToSet(shared))]
            hoisted == out \o [i \in DOMAIN shared |-> Planned(shared[i])]
            Conjunct(r) == FoldLeft(LAMBDA l, e : Node("binary", "AND", <<l, e>>), r[1], Tail(r))
            Folded == FoldLeft(LAMBDA l, r : Node("binary", "OR", <<l, Conjunct(r)>>),
                               Conjunct(rest[1]), Tail(rest))
        IN CASE Len(branches) = 1 -> Append(out, Planned(conjunct))
             [] Len(branches) > 1 /\ shared = <<>> ->
                  DeriveImpliedInLists(per_branch, siblings, Append(out, Planned(conjunct)))
             [] shared # <<>> /\ \E b \in DOMAIN rest : rest[b] = <<>> ->
                  Append(hoisted, [expr |-> conjunct, bind_only |-> TRUE])
             [] OTHER -> DeriveImpliedInLists(rest, siblings, Append(hoisted, Planned(Folded)))
  IN FoldLeft(Factor, <<>>, Chain("AND", element))

BindElements(elements) ==
  LET siblings == FlattenSeq([i \in DOMAIN elements |-> Chain("AND", elements[i])])
  IN FlattenSeq([i \in DOMAIN elements |-> FactorSharedConjuncts(elements[i], siblings)])

\* What a predicate answers for a row, in three-valued logic; an operator that
\* factoring does not read is unknown here.
NullValue == -1
RowsOfWhere == [{"a", "c"} -> {1, 2, 3, NullValue}]
RECURSIVE ValueIn(_, _)
ValueIn(e, row) ==
  LET v == [i \in DOMAIN e.args |-> ValueIn(e.args[i], row)]
      Truth(b) == IF b THEN 1 ELSE 0
      Equals(x, y) == IF NullValue \in {x, y} THEN NullValue ELSE Truth(x = y)
      Negated(x) == IF x = NullValue THEN NullValue ELSE Truth(x = 0)
      AnyOf(xs) == IF \E x \in xs : x \notin {0, NullValue} THEN 1
                   ELSE IF NullValue \in xs THEN NullValue ELSE 0
      in == AnyOf({Equals(v[1], v[i]) : i \in 2..Len(v)})
  IN CASE e.node = "column" -> IF e.name \in DOMAIN row THEN row[e.name] ELSE NullValue
       [] e.node = "literal" -> IF e.text = "1" THEN 1 ELSE IF e.text = "2" THEN 2 ELSE NullValue
       [] e.node = "binary" /\ e.op = "OR" -> AnyOf({v[1], v[2]})
       [] e.node = "binary" /\ e.op = "AND" -> Negated(AnyOf({Negated(v[1]), Negated(v[2])}))
       [] e.node = "binary" /\ e.op = "=" -> Equals(v[1], v[2])
       [] e.node = "binary" /\ e.op = "+" /\ NullValue \notin {v[1], v[2]} -> v[1] + v[2]
       [] e.node = "unary" /\ e.op = "NOT" -> Negated(v[1])
       [] e.node = "IN" -> IF e.op = "" THEN in ELSE Negated(in)
       [] OTHER -> NullValue
KeptBy(exprs) ==
  {row \in RowsOfWhere : \A i \in DOMAIN exprs : ValueIn(exprs[i], row) \notin {0, NullValue}}

-----------------------------------------------------------------------------
\* A text read from a WHERE on: as one expression, as conjuncts, and the rows that
\* they and the conjuncts the binder plans keep.
RECURSIVE AndTree(_, _)
AndTree(tree, rest) ==
  IF rest = <<>> THEN tree ELSE AndTree(Node("binary", "AND", <<tree, Head(rest)>>), Tail(rest))
WhereReadings(tokens) ==
  LET reading(i) ==
        LET s == [NewParser(tokens) EXCEPT !.pos = i + 1]
            tree == ParseExpr("where", 1, s)
            split == ParseConjuncts("where", s)
            bound == BindElements(split.list)
            planned == SelectSeq(bound, LAMBDA c : ~c.bind_only)
        IN [expr |-> IF Failed(tree.s) THEN None ELSE tree.e, expr_end |-> tree.s.pos,
            conjuncts |-> IF Failed(split.s) THEN None ELSE AndTree(Head(split.list), Tail(split.list)),
            conjuncts_end |-> split.s.pos,
            kept |-> IF Failed(split.s) THEN {} ELSE KeptBy(split.list),
            planned |-> IF Failed(split.s) THEN {}
                        ELSE KeptBy([k \in DOMAIN planned |-> planned[k].expr])]
  IN {reading(i) : i \in {j \in DOMAIN tokens : tokens[j] = "WHERE"}}

-----------------------------------------------------------------------------
(***************************************************************************)
(* What Parse and ToSql promise each other (parser.h, unparse.h): a text   *)
(* is parsed, and the canonical text of its statement parsed again.  They  *)
(* are constants here, given by the definitions above where they are       *)
(* checked.                                                                *)
(***************************************************************************)
CONSTANTS Texts,             \* the texts parsed
          Parser(_),         \* Run
          Unparser(_),       \* StatementSql
          Same(_, _),        \* EqualIgnoringSpans
          Levels(_),         \* StatementDepth
          Wheres(_),         \* WhereReadings
          Unread             \* no outcome yet

VARIABLES text, parsed, reparsed
vars == <<text, parsed, reparsed>>

Init == text \in Texts /\ parsed = Unread /\ reparsed = Unread
Parse ==
  /\ parsed = Unread
  /\ parsed' = Parser(text)
  /\ UNCHANGED <<text, reparsed>>
ToSql ==
  /\ parsed # Unread /\ reparsed = Unread
  /\ parsed.err = ""
  /\ reparsed' = Parser(Unparser(parsed.q))
  /\ UNCHANGED <<text, parsed>>
Next == Parse \/ ToSql
Spec == Init /\ [][Next]_vars

\* The canonical text of an accepted statement is accepted, also at the depth
\* limit (parser.h).
CanonicalFormParses == reparsed # Unread => reparsed.err = ""

\* The canonical text of an accepted statement gives the same statement
\* (ToSql, unparse.h): the parentheses it leaves out change no tree, and the
\* levels the parser counts for it are those it takes.  No accepted statement
\* is deeper than the limit that the code that walks trees relies on.
RoundTrip ==
  /\ reparsed # Unread => reparsed.err = "" /\ Same(reparsed.q, parsed.q)
  /\ parsed # Unread /\ parsed.err = "" => Levels(parsed.q) <= MaxDepth

\* The conjuncts that WHERE is split into (ParseConjuncts) are the tree that
\* the expression grammar gives the text, and end where it ends; the split
\* accepts whatever the grammar does.  The conjuncts the binder plans for them,
\* with what the branches of an OR share taken out and the IN lists they imply
\* put beside it (FactorSharedConjuncts), keep the same rows, NULLs included.
WhereMeansExpr ==
  parsed # Unread =>
    \A w \in Wheres(text) :
      /\ w.expr.node # "none" => w.conjuncts = w.expr /\ w.conjuncts_end = w.expr_end
      /\ w.planned = w.kept
=============================================================================
