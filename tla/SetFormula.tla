----------------------------- MODULE SetFormula -----------------------------
(***************************************************************************)
(* The formula of a set operation (plan::SetTerm): the postfix form the    *)
(* binder makes of a tree of UNION, INTERSECT and EXCEPT runs              *)
(* (src/plan/binder.cc, Region), what the planner reads from it            *)
(* (src/plan/logical_plan.cc) and how the operator evaluates it            *)
(* (src/exec/set_operation.cc, Combine).  A tree is                        *)
(* [kind, input, operands]: a query (kind "input"), or a run of one        *)
(* operator over two or more operands.                                     *)
(***************************************************************************)
EXTENDS Integers, Sequences, SequencesExt, FiniteSetsExt, FiniteSets

Operators == {"union", "intersect", "intersectAll", "except", "exceptAll"}

Term(kind, input, operands) == [kind |-> kind, input |-> input, operands |-> operands]

\* The runs of a region in postfix: each operand's terms, then the operator.  An
\* operand that is a query or a UNION ALL is an input; a run of another operator
\* belongs to the region.
RECURSIVE RegionTerms(_)
RegionTerms(t) ==
  FlattenSeq([i \in DOMAIN t.operands |->
                IF t.operands[i].kind \in {"input", "unionAll"}
                  THEN <<[kind |-> "input", node |-> t.operands[i], operands |-> 0]>>
                  ELSE RegionTerms(t.operands[i])])
    \o <<[kind |-> t.kind, node |-> t, operands |-> Len(t.operands)]>>

\* The formula of a region, its inputs numbered in written order, and those inputs.
Region(t) ==
  LET terms == RegionTerms(t)
      InputsBefore(i) == Cardinality({j \in 1 .. i - 1 : terms[j].kind = "input"}) IN
  [i \in DOMAIN terms |->
     Term(terms[i].kind, IF terms[i].kind = "input" THEN InputsBefore(i) ELSE 0,
          terms[i].operands)]
RegionInputs(t) ==
  LET terms == SelectSeq(RegionTerms(t), LAMBDA x : x.kind = "input") IN
  [i \in DOMAIN terms |-> terms[i].node]

\* One term of a postfix walk: an operator replaces its operands, the last
\* term.operands values of the stack, by their combination.
Step(stack, term, leaf, combined(_, _)) ==
  IF term.kind = "input"
    THEN Append(stack, leaf)
    ELSE LET first == Len(stack) - term.operands IN
         Append(SubSeq(stack, 1, first),
                combined(term.kind, SubSeq(stack, first + 1, Len(stack))))

\* The formula as a tree again.
SetTreeOf(f) ==
  LET Node(kind, operands) == [kind |-> kind, input |-> 0, operands |-> operands]
      Walk(stack, term) ==
        Step(stack, term, [kind |-> "input", input |-> term.input, operands |-> <<>>], Node) IN
  FoldLeft(Walk, <<>>, f)[1]

\* The inputs whose rows can make a result row.
RECURSIVE MarkStarters(_)
MarkStarters(node) ==
  CASE node.kind = "input" -> {node.input}
    [] node.kind = "union" -> UNION {MarkStarters(node.operands[i]) : i \in DOMAIN node.operands}
    [] OTHER               -> MarkStarters(node.operands[1])

SetStarters(f) == MarkStarters(SetTreeOf(f))

\* The inputs whose count is read, not only whether they hold the row; `isRead` says
\* whether the term above reads this one's count.
RECURSIVE MarkCounted(_, _)
MarkCounted(node, isRead) ==
  IF node.kind = "input"
    THEN IF isRead THEN {node.input} ELSE {}
    ELSE LET operandsRead == \/ node.kind = "exceptAll"
                             \/ node.kind = "intersectAll" /\ isRead IN
         UNION {MarkCounted(node.operands[i], operandsRead) : i \in DOMAIN node.operands}

SetCounted(f) == MarkCounted(SetTreeOf(f), TRUE)

AllRoot(f) == f[Len(f)].kind \in {"intersectAll", "exceptAll"}

\* An operator term over its operands' values, one operand after another.
Combine(kind, values) ==
  LET Bit(b) == IF b THEN 1 ELSE 0
      first  == IF kind \in {"union", "intersect", "except"} THEN Bit(values[1] > 0)
                                                             ELSE values[1]
      Next1(out, v) ==
        CASE kind = "union"        -> Bit(out # 0 \/ v > 0)
          [] kind = "intersect"    -> Bit(out # 0 /\ v > 0)
          [] kind = "except"       -> Bit(out # 0 /\ v = 0)
          [] kind = "intersectAll" -> IF v < out THEN v ELSE out
          [] kind = "exceptAll"    -> IF out - v > 0 THEN out - v ELSE 0 IN
  FoldLeft(Next1, first, Tail(values))

\* The value of a formula, from the value of each input.
Evaluated(f, values) ==
  LET Walk(stack, term) ==
        Step(stack, term, IF term.kind = "input" THEN values[term.input] ELSE 0, Combine) IN
  FoldLeft(Walk, <<>>, f)[1]
=============================================================================
