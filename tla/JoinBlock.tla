------------------------------ MODULE JoinBlock ------------------------------
(***************************************************************************)
(* From the classified conjuncts of an inner block to its join tree        *)
(* (src/plan/binder.cc: OrderBlock, JoinTree, CoreTree, PushSemiJoinsDown  *)
(* and SubqueryJoins), on the join order of JoinOrder.                     *)
(*                                                                         *)
(* A block is a record: rows, the estimates of its relations; edges, the   *)
(* equalities that may be keys; residuals, for each other conjunct the     *)
(* relations it reads; single, the relations whose sub-plan has exactly    *)
(* one row; filtered, those with conditions or computed columns of their   *)
(* own; units, those that are a LEFT JOIN; subqueries, in written order,   *)
(* the subquery conjuncts of the WHERE clause: the kind of the join, the   *)
(* relation its outer side reads, whether that side is computed, and       *)
(* whether the subquery is correlated.  A relation's rows are the set Rows *)
(* of small values; Column, Holds, Passes and Matches say what an          *)
(* equality, a residual, a condition and a subquery read of them.          *)
(***************************************************************************)
EXTENDS JoinOrder

CONSTANTS Blocks,              \* the blocks the binder classifies
          Rows(_, _),          \* the rows of a relation of a block
          Column(_, _),        \* a row's value of the column of an edge
          Holds(_, _),         \* whether a combined row satisfies a residual
          Passes(_),           \* whether a row satisfies its relation's conditions
          Matches(_, _),       \* whether a row is in, or compares with, a subquery's rows
          Orders(_, _, _)      \* OrderJoins

VARIABLES block, search, order, tree
vars == <<block, search, order, tree>>

None == [state |-> "none"]

(* A relation a one-row join can append: it is no unit and has no layer of   *)
(* its own, and no key and no residual reads it.                              *)
JoinsAsOneRow(b, i) ==
  /\ i \in b.single \ (b.units \cup b.filtered)
  /\ \A e \in DOMAIN b.edges : i \notin Ends(b.edges[e])
  /\ \A k \in DOMAIN b.residuals : i \notin b.residuals[k]

(* OrderBlock: the order of a connected block, or of the core its keys        *)
(* connect to the first relation that does not join as one row.               *)
Ordered(steps, root, one_row) ==
  [state |-> "ordered", steps |-> steps, root |-> root, one_row |-> one_row]

InOrder(n, set) == SelectSeq([i \in 1..n |-> i], LAMBDA i : i \in set)

OrderBlock(b, how) ==
  LET n == Len(b.rows)
      one_row == {i \in 1..n : JoinsAsOneRow(b, i)}
      seed == IF one_row = 1..n THEN 1 ELSE Min(1..n \ one_row)
      reached == Reached(b.edges, {seed})
      core == InOrder(n, reached)
      InCore(i) == CHOOSE k \in DOMAIN core : core[k] = i
      edges == [e \in DOMAIN b.edges |-> [b.edges[e] EXCEPT !.a = InCore(@), !.b = InCore(@)]]
      steps == Orders([k \in DOMAIN core |-> b.rows[core[k]]], edges, how)
      InBlock(operand) == IF operand.step THEN operand ELSE RelationOperand(core[operand.index])
  IN  IF FirstUnconnected(n, b.edges) = 0
      THEN Ordered(Orders(b.rows, b.edges, how), 1, <<>>)
      ELSE IF ~(1..n \ reached \subseteq one_row) THEN [state |-> "refused"]
      ELSE Ordered([k \in DOMAIN steps |-> [steps[k] EXCEPT !.left = InBlock(@), !.right = InBlock(@)]],
                   seed, InOrder(n, 1..n \ reached))

(* SubqueryJoins: the joins of the subqueries `ks` over `below`, in written   *)
(* order, each over the column its outer side computes and under the          *)
(* comparison with the row a one-row join appends.                            *)
Over(node, k, below) == [node |-> node, subquery |-> k, input |-> below]

SubqueryJoins(b, ks, below) ==
  LET Computed(k, node) == IF b.subqueries[k].computed THEN Over("compute", k, node) ELSE node
      Joined(k, node) ==
        Over(IF b.subqueries[k].dependent THEN "dependent_join" ELSE "subquery_join", k, node)
      Compared(k, node) == IF b.subqueries[k].kind = "one_row" THEN Over("filter", k, node) ELSE node
  IN  FoldLeft(LAMBDA node, k : Compared(k, Joined(k, Computed(k, node))), below, ks)

(* A semi join filters, so it may run on the branch of the one relation its   *)
(* key is a column of, where no row count is unknown and the branch is no     *)
(* larger than the tree.                                                      *)
PushableSemiJoin(b, o, q) ==
  /\ q.kind = "semi" /\ ~q.dependent /\ ~q.computed
  /\ q.relation \notin b.units
  /\ o.steps /= <<>>
  /\ q.relation \notin ToSet(o.one_row)
  /\ \A i \in DOMAIN b.rows : b.rows[i] /= Unknown
  /\ b.rows[q.relation] <= Last(o.steps).estimate

Written(b, Test(_)) == SelectSeq([k \in DOMAIN b.subqueries |-> k], Test)

PushSemiJoinsDown(b, o) ==
  IF Len(b.rows) < 2 THEN {}
  ELSE {k \in DOMAIN b.subqueries : PushableSemiJoin(b, o, b.subqueries[k])}

(* RelationNode: a relation's branch with the semi joins pushed onto it. *)
RelationNode(b, pushed, r) ==
  SubqueryJoins(b, Written(b, LAMBDA k : k \in pushed /\ b.subqueries[k].relation = r),
                [node |-> "relation", relation |-> r, filtered |-> r \in b.filtered])

Join(kind, left, right, keys, residual, build, estimate) ==
  [node |-> "join", kind |-> kind, left |-> left, right |-> right, keys |-> keys,
   residual |-> residual, build |-> build, estimate |-> estimate]

(* CoreTree: one join per step.  The side of an edge whose relation is below  *)
(* the left input is the left key; a residual is taken once, by the first     *)
(* step that has all of its relations.                                        *)
(* A mutant: the edge's first side is taken for the left key. *)
LeftKeyAsWritten(edge, left_below) == edge.a

LeftKey(edge, left_below) == IF edge.a \in left_below THEN edge.a ELSE edge.b

Untaken(b, steps, k) ==
  {r \in DOMAIN b.residuals :
     \A j \in 1..k - 1 : ~(b.residuals[r] \subseteq BelowOf(steps, StepOperand(j)))}

RECURSIVE CoreNode(_, _, _, _)
CoreNode(b, o, pushed, operand) ==
  IF ~operand.step THEN RelationNode(b, pushed, operand.index)
  ELSE LET step == o.steps[operand.index]
           left_below == BelowOf(o.steps, step.left)
           below == BelowOf(o.steps, operand)
           Key(e) == LET edge == b.edges[e]
                         left == LeftKey(edge, left_below)
                     IN  [edge |-> e, left |-> left,
                          right |-> IF left = edge.a THEN edge.b ELSE edge.a]
       IN  Join("inner", CoreNode(b, o, pushed, step.left), CoreNode(b, o, pushed, step.right),
                {Key(e) : e \in step.edges},
                {r \in Untaken(b, o.steps, operand.index) : b.residuals[r] \subseteq below},
                step.build, step.estimate)

(* JoinTree: the core, then the relations that join as one row, in FROM order. *)
JoinTree(b, o, pushed) ==
  LET core == IF o.steps = <<>> THEN RelationNode(b, pushed, o.root)
              ELSE CoreNode(b, o, pushed, StepOperand(Len(o.steps)))
      estimate == IF o.steps = <<>> THEN b.rows[o.root] ELSE Last(o.steps).estimate
  IN  FoldLeft(LAMBDA below, i : Join("one_row", below, RelationNode(b, pushed, i), {}, {},
                                      "right", estimate),
               core, o.one_row)

Init ==
  /\ block \in Blocks
  /\ search \in {"cost", "greedy"}
  /\ order = None
  /\ tree = None

OrderRelations ==
  /\ order = None
  /\ order' = OrderBlock(block, search)
  /\ UNCHANGED <<block, search, tree>>

Assemble ==
  /\ order.state = "ordered" /\ tree = None
  /\ LET pushed == PushSemiJoinsDown(block, order)
     IN  tree' = SubqueryJoins(block, Written(block, LAMBDA k : k \notin pushed),
                               JoinTree(block, order, pushed))
  /\ UNCHANGED <<block, search, order>>

Next == OrderRelations \/ Assemble
Spec == Init /\ [][Next]_vars

(***************************************************************************)
(* What the tree answers, and what the block asks.                         *)
(***************************************************************************)
RECURSIVE Relations(_)
Relations(node) ==
  CASE node.node = "relation" -> {node.relation}
    [] node.node = "join" -> Relations(node.left) \cup Relations(node.right)
    [] OTHER -> Relations(node.input)

RowsOf(r, filtered) == {v \in Rows(block, r) : filtered => Passes(v)}

(* Whether a row satisfies the conjunct of subquery k. *)
Satisfies(k, row) ==
  LET q == block.subqueries[k]
  IN  (q.kind \in {"semi", "one_row"}) = Matches(k, row[q.relation])

RECURSIVE Answer(_)
Answer(node) ==
  CASE node.node = "relation" ->
         {[r \in {node.relation} |-> v] : v \in RowsOf(node.relation, node.filtered)}
    [] node.node = "join" ->
         {row \in {l @@ r : l \in Answer(node.left), r \in Answer(node.right)} :
            /\ \A key \in node.keys :
                 Column(row[key.left], key.edge) = Column(row[key.right], key.edge)
            /\ \A r \in node.residual : Holds(block.residuals[r], row)}
    [] node.node = "filter" ->
         {row \in Answer(node.input) : Satisfies(node.subquery, row)}
    [] node.node \in {"subquery_join", "dependent_join"} ->
         {row \in Answer(node.input) :
            block.subqueries[node.subquery].kind = "one_row" \/ Satisfies(node.subquery, row)}
    [] node.node = "compute" -> Answer(node.input)

RECURSIVE Readable(_)
Readable(node) ==
  CASE node.node = "relation" -> TRUE
    [] node.node = "join" ->
         /\ Readable(node.left) /\ Readable(node.right)
         /\ Relations(node.left) \cap Relations(node.right) = {}
         /\ \A key \in node.keys : /\ key.left \in Relations(node.left)
                                   /\ key.right \in Relations(node.right)
         /\ IF node.kind = "inner" THEN node.keys /= {} ELSE Cardinality(Answer(node.right)) = 1
         /\ \A r \in node.residual : block.residuals[r] \subseteq Relations(node)
    [] OTHER -> /\ Readable(node.input)
                /\ block.subqueries[node.subquery].relation \in Relations(node.input)

Asked ==
  {row \in [DOMAIN block.rows -> UNION {Rows(block, r) : r \in DOMAIN block.rows}] :
     /\ \A r \in DOMAIN row : row[r] \in RowsOf(r, r \in block.filtered)
     /\ \A e \in DOMAIN block.edges :
          Column(row[block.edges[e].a], e) = Column(row[block.edges[e].b], e)
     /\ \A k \in DOMAIN block.residuals : Holds(block.residuals[k], row)
     /\ \A k \in DOMAIN block.subqueries : Satisfies(k, row)}

(* Whatever order the statistics choose, the tree answers the block: every    *)
(* relation is joined once, every equality is a key whose left column its     *)
(* left input has (CoreTree's a_left), every residual is evaluated by one     *)
(* join that has all its relations, a relation joined as one row has exactly  *)
(* one, whatever is routed to it (JoinsAsOneRow), and every subquery conjunct *)
(* is answered once, pushed onto a branch or above the tree.                  *)
TreeAnswersBlock ==
  tree /= None => /\ Readable(tree)
                  /\ Relations(tree) = DOMAIN block.rows
                  /\ Answer(tree) = Asked

(* The least cost of any tree of `s` whose every join has a key, by trying    *)
(* every split.                                                               *)
RECURSIVE Cheapest(_)
Cheapest(s) ==
  LET IsConnected(x) == Reached(SelectSeq(block.edges, LAMBDA edge : Ends(edge) \subseteq x),
                                {Lowest(x)}) = x
      Size(x) == SubsetRows(block.rows, block.edges, x)
      splits == {x \in SUBSET s : /\ Lowest(s) \in x /\ x /= s
                                 /\ IsConnected(x) /\ IsConnected(s \ x)}
  IN  IF Cardinality(s) = 1 THEN 0
      ELSE Saturated(Size(s) + Min({Cheapest(x) + Cheapest(s \ x) + Min({Size(x), Size(s \ x)}) :
                                      x \in splits}))

(* The enumeration of connected pairs misses none that matters: the order the *)
(* search emits costs no more than any tree of the relations, bushy ones      *)
(* included, and a side of unknown size is built only against another one.    *)
CheapestOrder ==
  (/\ order.state = "ordered" /\ tree = None /\ search = "cost"
   /\ Len(block.rows) \in 2..SearchRelations /\ order.one_row = <<>>) =>
     /\ OrderCost(block.rows, block.edges, order.steps) = Cheapest(DOMAIN block.rows)
     /\ \A k \in DOMAIN order.steps :
          LET step == order.steps[k]
              Size(operand) == IF operand.step THEN order.steps[operand.index].estimate
                               ELSE block.rows[operand.index]
              built == IF step.build = "left" THEN step.left ELSE step.right
          IN  Size(built) = Unknown => Size(step.left) = Unknown /\ Size(step.right) = Unknown
==============================================================================
