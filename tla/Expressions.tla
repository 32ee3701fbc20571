---------------------------- MODULE Expressions ----------------------------
(***************************************************************************)
(* The Filter and Compute operators (filter.cc, compute.cc) over a stream  *)
(* of batches.  Expressions are computed a whole batch at a time: AND, OR, *)
(* CASE and COALESCE compute an argument over the rows that still need it, *)
(* gathered into a smaller batch, and scatter the answers back; a failure  *)
(* anywhere fails the query.  A batch is the values of one column and the  *)
(* selection an earlier operator left; what may fail is an operation that  *)
(* has no answer for the value Failing (an overflow, a cast).              *)
(***************************************************************************)
EXTENDS Integers, Sequences, FiniteSets

CONSTANTS Null,
          Fails,     \* the reference's answer where a part has none
          Column,    \* the values of the column, NULL included
          Failing,   \* the value an operation may fail on
          Streams,   \* the streams a filter is checked on
          BatchRows, \* the rows of the batch an expression is checked on
          FilterPredicates

VARIABLES stream, predicates, expr, read, out, failed, ended
vars == <<stream, predicates, expr, read, out, failed, ended>>

Value(vals) == [ok |-> TRUE, v |-> vals]
Failure == [ok |-> FALSE, v |-> <<>>]
Fill(n, v) == [i \in 1..n |-> v]

\* Arrow's kernels on one value: three-valued logic.
And(a, b) == IF a = FALSE \/ b = FALSE THEN FALSE ELSE IF a = Null \/ b = Null THEN Null ELSE TRUE
Or(a, b) == IF a = TRUE \/ b = TRUE THEN TRUE ELSE IF a = Null \/ b = Null THEN Null ELSE FALSE
Not(a) == IF a = Null THEN Null ELSE ~a
Coalesce(a, b) == IF a = Null THEN b ELSE a
Equal(v, c) == IF v = Null THEN Null ELSE v = c

\* The rows of a mask, and a mask's answers put back at its rows.
Count(mask) == Cardinality({i \in DOMAIN mask : mask[i]})
Filtered(vals, mask) ==
  LET nth(n) == CHOOSE i \in DOMAIN mask :
                  mask[i] /\ Cardinality({j \in 1..i : mask[j]}) = n
  IN [n \in 1..Count(mask) |-> vals[nth(n)]]
Scatter(into, mask, vals) ==
  IF vals = <<>> THEN into
  ELSE [i \in DOMAIN into |-> IF mask[i] THEN vals[Cardinality({j \in 1..i : mask[j]})]
                              ELSE into[i]]

-----------------------------------------------------------------------------
\* PredicateEvaluator::Evaluate on one value: under kleene, a predicate folded
\* to IS NOT NULL or to FALSE is NULL where its column is.
RECURSIVE AnyEqual(_, _)
AnyEqual(v, values) ==
  IF Len(values) = 1 THEN Equal(v, Head(values))
  ELSE Or(AnyEqual(v, SubSeq(values, 1, Len(values) - 1)), Equal(v, values[Len(values)]))
\* A mutant: the folded predicates stay two-valued under a NOT or an OR.
FoldedTwoValued(p, v, kleene) ==
  LET is_not_null == p.kind = "is_not_null"
  IN IF is_not_null THEN v # Null ELSE FALSE
Folded(p, v, kleene) ==
  LET is_not_null == p.kind = "is_not_null"
  IN IF ~kleene THEN (IF is_not_null THEN v # Null ELSE FALSE)
     ELSE IF v = Null THEN Null ELSE is_not_null
PredicateOf(p, v, kleene) ==
  CASE p.kind = "compare" -> Equal(v, p.values[1])
    [] p.kind = "in" -> AnyEqual(v, p.values)
    [] p.kind = "not_in" -> Not(AnyEqual(v, p.values))
    [] p.kind = "is_true" -> v
    [] p.kind = "is_null" -> v = Null
    [] p.kind \in {"is_not_null", "false"} -> Folded(p, v, kleene)

RECURSIVE Evaluate(_, _)
\* A mutant: every row is computed, and the mask's are kept.
EvaluateAll(e, batch, mask) ==
  LET r == Evaluate(e, batch)
  IN  [r EXCEPT !.v = IF r.ok THEN Filtered(@, mask) ELSE @]
\* EvaluateSelected: over the rows of the mask only.
EvaluateSelected(e, batch, mask) ==
  CASE Count(mask) = Len(batch) -> Evaluate(e, batch)
    [] Count(mask) = 0 /\ Len(batch) > 0 -> Value(<<>>)
    [] OTHER -> Evaluate(e, Filtered(batch, mask))

\* AND and OR: each further argument over the rows left undecided, whose
\* decided rows get NULL.
RECURSIVE BoolArgs(_, _, _, _)
BoolArgs(e, i, batch, result) ==
  IF i > Len(e.args) THEN Value(result)
  ELSE LET is_and == e.op = "and"
           open == [r \in DOMAIN result |->
                      IF is_and THEN Coalesce(result[r], TRUE) ELSE ~Coalesce(result[r], FALSE)]
           compact == EvaluateSelected(e.args[i], batch, open)
           next == Scatter(Fill(Len(batch), Null), open, compact.v)
       IN IF ~compact.ok THEN Failure
          ELSE BoolArgs(e, i + 1, batch,
                        [r \in DOMAIN result |-> IF is_and THEN And(result[r], next[r])
                                                 ELSE Or(result[r], next[r])])

\* CASE: branch by branch over the rows no earlier branch took.  A branch
\* without a condition is COALESCE's argument; one without a value leaves NULL.
RECURSIVE CaseBranches(_, _, _, _, _)
CaseBranches(e, i, batch, result, remaining) ==
  IF i > Len(e.whens)
  THEN LET rest == EvaluateSelected(e.otherwise, batch, remaining)
       IN IF e.otherwise.node = "none" THEN Value(result)
          ELSE IF rest.ok THEN Value(Scatter(result, remaining, rest.v)) ELSE Failure
  ELSE IF e.whens[i].node = "none"
  THEN LET vals == EvaluateSelected(e.thens[i], batch, remaining)
           now == Scatter(result, remaining, vals.v)
       IN IF ~vals.ok THEN Failure
          ELSE CaseBranches(e, i + 1, batch, now,
                            [r \in DOMAIN now |-> remaining[r] /\ ~(now[r] # Null)])
  ELSE LET compact == EvaluateSelected(e.whens[i], batch, remaining)
           condition == Scatter(Fill(Len(batch), Null), remaining, compact.v)
           taken == [r \in DOMAIN batch |-> Coalesce(condition[r], FALSE) /\ remaining[r]]
           vals == IF e.thens[i].node = "none" THEN Value(<<>>)
                   ELSE EvaluateSelected(e.thens[i], batch, taken)
       IN IF ~compact.ok \/ ~vals.ok THEN Failure
          ELSE CaseBranches(e, i + 1, batch, Scatter(result, taken, vals.v),
                            [r \in DOMAIN batch |-> remaining[r] /\ ~taken[r]])

Evaluate(e, batch) ==
  CASE e.node = "column" -> Value(batch)
    [] e.node = "constant" -> Value(Fill(Len(batch), e.v))
    [] e.node = "risky" ->
         LET o == Evaluate(e.operand, batch)
         IN IF o.ok /\ \E i \in DOMAIN o.v : o.v[i] = Failing THEN Failure ELSE o
    [] e.node = "predicate" ->
         LET o == Evaluate(e.operand, batch)
         IN IF o.ok THEN Value([i \in DOMAIN o.v |-> PredicateOf(e.p, o.v[i], TRUE)]) ELSE o
    [] e.node = "bool" ->
         LET first == Evaluate(e.args[1], batch)
         IN IF ~first.ok THEN Failure
            ELSE IF e.op = "not" THEN Value([i \in DOMAIN first.v |-> Not(first.v[i])])
            ELSE BoolArgs(e, 2, batch, first.v)
    [] e.node = "case" ->
         CaseBranches(e, 1, batch, Fill(Len(batch), Null), Fill(Len(batch), TRUE))

-----------------------------------------------------------------------------
\* The expressions checked.
X == [node |-> "column"]
None == [node |-> "none"]
Risky(e) == [node |-> "risky", operand |-> e]
Predicate(kind, values, o) ==
  [node |-> "predicate", p |-> [kind |-> kind, values |-> values], operand |-> o]
Case(whens, thens, otherwise) ==
  [node |-> "case", whens |-> whens, thens |-> thens, otherwise |-> otherwise]
Conditions == {Predicate("compare", <<1>>, X), Predicate("compare", <<1>>, Risky(X)),
               Predicate("is_null", <<>>, X), Predicate("is_not_null", <<>>, X),
               Predicate("not_in", <<0, 1>>, X), Predicate("false", <<>>, X)}
Bools == {[node |-> "bool", op |-> op, args |-> <<a, b>>] :
            op \in {"and", "or"}, a \in Conditions, b \in Conditions}
Nots == {[node |-> "bool", op |-> "not", args |-> <<a>>] : a \in Conditions \cup Bools}
Answers == {X, Risky(X), None}
Exprs ==
  Bools \cup Nots
    \cup {Case(<<w>>, <<t>>, o) : w \in Bools \cup Nots, t \in {Risky(X)}, o \in {Risky(X), None}}
    \cup {Case(<<w, v>>, <<s, t>>, o) :
            w \in Conditions \cup {None}, v \in Conditions \cup {None},
            s \in {X, Risky(X)}, t \in {X, Risky(X)}, o \in Answers}
    \cup {Case(<<w>>, <<None>>, o) : w \in Conditions, o \in Answers}

\* A filter over a stream, or an expression over one batch.
Init ==
  /\ read = 0 /\ out = <<>> /\ failed = FALSE /\ ended = FALSE
  /\ \/ /\ stream \in Streams
        /\ predicates \in UNION {[1..n -> FilterPredicates] : n \in 0..2}
        /\ expr = X
     \/ /\ stream \in {<<[vals |-> vals, sel |-> Fill(BatchRows, TRUE)]>> :
                         vals \in [1..BatchRows -> Column]}
        /\ predicates = <<>>
        /\ expr \in Exprs

NeverTrue == \E i \in DOMAIN predicates : predicates[i].kind = "false"

\* FilterOperator::Evaluate and the normalisation of its mask.
RECURSIVE Conjunction(_, _)
Conjunction(ps, v) ==
  IF Len(ps) = 1 THEN PredicateOf(ps[1], v, FALSE)
  ELSE And(Conjunction(SubSeq(ps, 1, Len(ps) - 1), v), PredicateOf(ps[Len(ps)], v, FALSE))
Mask(batch) ==
  [i \in DOMAIN batch.vals |->
     Coalesce(And(batch.sel[i], Conjunction(predicates, batch.vals[i])), FALSE)]

\* ComputeBatch: the selected rows of the filter's batch, and the expression
\* over them.
ComputeBatch(vals) == Evaluate(expr, vals)

\* FilterOperator::Next up to a batch with a row, and ComputeOperator::Next.
NextBatch ==
  /\ ~failed /\ ~ended
  /\ IF NeverTrue \/ read = Len(stream)
     THEN /\ ended' = TRUE
          /\ UNCHANGED <<read, out, failed>>
     ELSE LET batch == stream[read + 1]
              mask == IF predicates = <<>> THEN batch.sel ELSE Mask(batch)
              computed == ComputeBatch(Filtered(batch.vals, mask))
          IN /\ read' = read + 1
             /\ failed' = ~computed.ok
             /\ out' = IF predicates # <<>> /\ Count(mask) = 0 THEN out
                       ELSE Append(out, computed.v)
             /\ UNCHANGED ended
  /\ UNCHANGED <<stream, predicates, expr>>
Next == NextBatch
Spec == Init /\ [][Next]_vars

-----------------------------------------------------------------------------
\* SQL's answer for one row, each part computed only when it is needed; Fails
\* when a part that is needed has no answer.
Holds(p, v) ==
  CASE p.kind \in {"compare", "in"} -> \E i \in DOMAIN p.values : p.values[i] = v
    [] p.kind = "not_in" -> v # Null /\ \A i \in DOMAIN p.values : p.values[i] # v
    [] p.kind = "is_null" -> v = Null
    [] p.kind = "is_not_null" -> v # Null
    [] p.kind = "false" -> FALSE
RECURSIVE RowValue(_, _)
RECURSIVE Decide(_, _, _)
Decide(e, i, v) ==
  LET a == RowValue(e.args[i], v)
      rest == IF i = Len(e.args) THEN e.op = "and" ELSE Decide(e, i + 1, v)
  IN CASE a = Fails -> Fails
       [] a = (e.op = "or") -> a
       [] OTHER -> IF rest = Fails THEN Fails ELSE IF e.op = "and" THEN And(a, rest) ELSE Or(a, rest)
RECURSIVE Choose(_, _, _)
Choose(e, i, v) ==
  IF i > Len(e.whens) THEN IF e.otherwise = None THEN Null ELSE RowValue(e.otherwise, v)
  ELSE IF e.whens[i] = None
  THEN LET t == RowValue(e.thens[i], v) IN IF t = Null THEN Choose(e, i + 1, v) ELSE t
  ELSE LET w == RowValue(e.whens[i], v)
       IN IF w = Fails THEN Fails
          ELSE IF w # TRUE THEN Choose(e, i + 1, v)
          ELSE IF e.thens[i] = None THEN Null ELSE RowValue(e.thens[i], v)
RowValue(e, v) ==
  CASE e.node = "column" -> v
    [] e.node = "risky" -> IF RowValue(e.operand, v) = Failing THEN Fails ELSE RowValue(e.operand, v)
    [] e.node = "predicate" ->
         LET o == RowValue(e.operand, v)
         IN IF o = Fails THEN Fails
            ELSE IF o = Null THEN IF e.p.kind = "is_null" THEN TRUE ELSE Null
            ELSE Holds(e.p, o)
    [] e.node = "bool" -> IF e.op # "not" THEN Decide(e, 1, v)
                          ELSE LET a == RowValue(e.args[1], v) IN IF a = Fails THEN Fails ELSE Not(a)
    [] e.node = "case" -> Choose(e, 1, v)

\* Evaluator: a batch fails exactly when SQL's row-by-row evaluation needs a
\* part that has no answer, and otherwise each row has its own answer: the
\* masks, gathers and scatters never compute a row they should skip, skip one
\* they should compute, or move an answer to another row.
EvaluatedLazily ==
  predicates = <<>> /\ read = 1 /\ Len(stream) = 1 =>
    LET answers == [i \in 1..Len(stream[1].vals) |-> RowValue(expr, stream[1].vals[i])]
        kept == Filtered(answers, stream[1].sel)
    IN IF \E i \in DOMAIN kept : kept[i] = Fails THEN failed ELSE ~failed /\ out = <<kept>>

\* FilterOperator: the rows that every predicate is true for, of the rows the
\* input selected, in order and none in an empty batch; a predicate that is
\* never true ends the stream before a batch is read.
RECURSIVE Flat(_)
Flat(seqs) == IF seqs = <<>> THEN <<>> ELSE Head(seqs) \o Flat(Tail(seqs))
FilterKeeps ==
  expr = X =>
    LET passing(b) == Filtered(b.vals, [i \in DOMAIN b.vals |-> b.sel[i] /\ \A p \in DOMAIN predicates : Holds(predicates[p], b.vals[i])])
    IN /\ Flat(out) = Flat([k \in 1..read |-> passing(stream[k])])
       /\ predicates # <<>> => \A k \in DOMAIN out : out[k] # <<>>
       /\ NeverTrue => read = 0
       /\ ended => read = Len(stream) \/ NeverTrue
=============================================================================
