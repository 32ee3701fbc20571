------------------------------ MODULE JoinOrder ------------------------------
(***************************************************************************)
(* The join order of an inner block (src/plan/join_order.cc): the dynamic  *)
(* program over connected subsets (DPccp) with the rows its joins carry as *)
(* the cost, the greedy left-deep rule beyond SearchRelations relations,   *)
(* and the build side of every step.  All of it is a function of footer    *)
(* statistics.                                                             *)
(*                                                                         *)
(* A relation is its index, and a set of relations is the code's Mask.     *)
(* `rels` is the sequence of the relations' row counts and `edges` the     *)
(* sequence of their equalities, each with the domains of its two sides.   *)
(* std::nullopt is Unknown.  Largest stands for INT64_MAX and Widest for   *)
(* the largest 128-bit integer.                                            *)
(***************************************************************************)
EXTENDS Integers, Sequences, SequencesExt

CONSTANTS
  Largest,          \* kLargest: what a count saturates at
  Widest,           \* kInt128Max: what a product saturates at
  BuildSideRatio,   \* options_.build_side_ratio, in hundredths
  SearchRelations   \* kSearchRelations: the most relations the search takes

ASSUME JoinOrderAssumption ==
  /\ Largest \in Nat /\ Widest \in Nat /\ Largest <= Widest
  /\ BuildSideRatio \in Nat /\ BuildSideRatio >= 100
  /\ SearchRelations \in Nat

Unknown == -1

Known(count, otherwise) == IF count = Unknown THEN otherwise ELSE count
Saturated(count) == Min({count, Largest})
BlockRows(rels, r) == Known(rels[r], Largest)
Multiplied(a, b) == Min({a * b, Widest})

Ends(edge) == {edge.a, edge.b}

(* What an edge divides by: an unknown domain contributes nothing. *)
DivisorOf(edge) ==
  LET known == {edge.a_domain, edge.b_domain} \ {Unknown}
  IN  [divisor |-> Max(known \cup {1}), empty |-> 0 \in known]

(* The rows of one join of `left` and `right` rows over the edges `crossing`: *)
(* only the largest domain divides.                                           *)
JoinRowsOf(edges, left, right, crossing) ==
  LET divisors == {DivisorOf(edges[e]) : e \in crossing}
  IN  IF left = 0 \/ right = 0 \/ \E d \in divisors : d.empty THEN 0
      ELSE Max({1, Saturated((left * right) \div Max({1} \cup {d.divisor : d \in divisors}))})

(* Per pair of relations, what the edges between the two divide by: keys of   *)
(* one pair are one composite key, so the larger domain counts and not the    *)
(* product.                                                                   *)
DivisorsOf(edges, u, v) ==
  LET divisors == {DivisorOf(edges[e]) : e \in {i \in DOMAIN edges : Ends(edges[i]) = {u, v}}}
  IN  [divisor |-> Saturated(Max({1} \cup {d.divisor : d \in divisors})),
       empty   |-> \E d \in divisors : d.empty]

(* The rows of a subset, in relation order, each relation dividing by every   *)
(* pair it closes; dividing by two divisors is dividing by their product.     *)
RECURSIVE Running(_, _, _)
Running(rels, edges, set) ==
  IF set = {} THEN 1
  ELSE LET r == Max(set)
       IN  FoldSet(LAMBDA u, rows : rows \div DivisorsOf(edges, u, r).divisor,
                   Multiplied(Running(rels, edges, set \ {r}), BlockRows(rels, r)),
                   set \ {r})

SubsetRows(rels, edges, set) ==
  IF \/ \E r \in set : BlockRows(rels, r) = 0
     \/ \E u, v \in set : DivisorsOf(edges, u, v).empty
  THEN 0
  ELSE Max({1, Saturated(Running(rels, edges, set))})

(***************************************************************************)
(* The search.                                                             *)
(***************************************************************************)
Lowest(s) == Min(s)
Below(r) == 1 .. r - 1
MaskOf(s) == FoldSet(LAMBDA r, mask : mask + 2 ^ (r - 1), 0, s)

Neighbours(edges, s, forbidden) ==
  (UNION {Ends(edges[e]) : e \in {i \in DOMAIN edges : Ends(edges[i]) \cap s /= {}}})
    \ (s \cup forbidden)

Connected(edges, s1, s2) ==
  \E e \in DOMAIN edges : \/ edges[e].a \in s1 /\ edges[e].b \in s2
                          \/ edges[e].b \in s1 /\ edges[e].a \in s2

(* The numbers from `n` down to 1, those in `set` only. *)
Downwards(n, set) == SelectSeq([i \in 1..n |-> n + 1 - i], LAMBDA i : i \in set)

(* Every non-empty subset, the larger mask first. *)
ForEachSubset(set) ==
  LET top == MaskOf(set)
      SetOf(mask) == {r \in set : (mask \div 2 ^ (r - 1)) % 2 = 1}
      masks == Downwards(top, {mask \in 1..top : MaskOf(SetOf(mask)) = mask})
  IN  [i \in DOMAIN masks |-> SetOf(masks[i])]

RECURSIVE GrowComplement(_, _, _, _)
GrowComplement(edges, s1, s2, forbidden) ==
  LET neighbours == Neighbours(edges, s2, forbidden)
      adds == ForEachSubset(neighbours)
      joined == SelectSeq(adds, LAMBDA add : Connected(edges, s1, s2 \cup add))
  IN  [i \in DOMAIN joined |-> <<s1, s2 \cup joined[i]>>]
        \o FlattenSeq([i \in DOMAIN adds |->
             GrowComplement(edges, s1, s2 \cup adds[i], forbidden \cup neighbours)])

(* A mutant: complements of one relation only, which finds the chains and no  *)
(* bushy tree.                                                                *)
FindComplementsOfOne(edges, s) ==
  LET single == Downwards(10, Neighbours(edges, s, s \cup Below(Lowest(s))))
  IN  [i \in DOMAIN single |-> <<s, {single[i]}>>]

FindComplements(edges, s) ==
  LET forbidden == s \cup Below(Lowest(s))
      neighbours == Neighbours(edges, s, forbidden)
      downwards == IF neighbours = {} THEN <<>> ELSE Downwards(Max(neighbours), neighbours)
  IN  FlattenSeq([i \in DOMAIN downwards |->
        LET v == downwards[i]
        IN  <<<<s, {v}>>>>
              \o GrowComplement(edges, s, {v}, forbidden \cup (neighbours \cap (Below(v) \cup {v})))])

RECURSIVE GrowSubgraph(_, _, _)
GrowSubgraph(edges, s, forbidden) ==
  LET neighbours == Neighbours(edges, s, forbidden)
      adds == ForEachSubset(neighbours)
  IN  FlattenSeq([i \in DOMAIN adds |-> FindComplements(edges, s \cup adds[i])])
        \o FlattenSeq([i \in DOMAIN adds |->
             GrowSubgraph(edges, s \cup adds[i], forbidden \cup neighbours)])

(* The pairs in the order they are applied: by the size of their union, then  *)
(* its mask, then as they were found.                                         *)
PairsInOrder(n, edges) ==
  LET seeds == [i \in 1..n |-> n + 1 - i]
      found == FlattenSeq([i \in 1..n |->
                 FindComplements(edges, {seeds[i]})
                   \o GrowSubgraph(edges, {seeds[i]}, Below(seeds[i]) \cup {seeds[i]})])
      Union(i) == found[i][1] \cup found[i][2]
      Earlier(i, j) ==
        LET x == Union(i)  y == Union(j)
        IN  \/ Cardinality(x) < Cardinality(y)
            \/ Cardinality(x) = Cardinality(y) /\ MaskOf(x) < MaskOf(y)
            \/ x = y /\ i < j
      order == SortSeq([i \in DOMAIN found |-> i], Earlier)
  IN  [i \in DOMAIN order |-> found[order[i]]]

(* The best plan of a union so far, and the split it takes. *)
Consider(rels, edges, memo, s1, s2) ==
  LET s == s1 \cup s2
      total == Saturated(memo[s1].cost + memo[s2].cost + SubsetRows(rels, edges, s)
                 + Min({SubsetRows(rels, edges, s1), SubsetRows(rels, edges, s2)}))
      flip == Lowest(s2) < Lowest(s1)
  IN  IF s \in DOMAIN memo /\ memo[s].cost <= total THEN memo
      ELSE (s :> [cost |-> total, left |-> IF flip THEN s2 ELSE s1,
                  right |-> IF flip THEN s1 ELSE s2]) @@ memo

(* The memo of every subset a plan was found for; a subset no plan was found  *)
(* for is not in its domain.                                                  *)
Solve(rels, edges) ==
  LET n == Len(rels)
      single == [s \in {{r} : r \in 1..n} |-> [cost |-> 0, left |-> {}, right |-> {}]]
  IN  FoldLeft(LAMBDA memo, pair : Consider(rels, edges, memo, pair[1], pair[2]),
               single, PairsInOrder(n, edges))

(* The side a join builds on: the right, unless it is decisively the larger. *)
ChooseBuildSide(left, right) ==
  IF left = Unknown \/ right = Unknown \/ left <= 0 THEN "right"
  ELSE IF right * 100 > BuildSideRatio * left THEN "left" ELSE "right"

RelationOperand(r) == [step |-> FALSE, index |-> r]
StepOperand(k) == [step |-> TRUE, index |-> k]

JoinStep(left, right, crossing, build, estimate) ==
  [left |-> left, right |-> right, edges |-> crossing, build |-> build, estimate |-> estimate]

(* The steps of the plan that won, children before parents.  A side whose     *)
(* rows nothing knows is the left, so that the other one is built.            *)
RECURSIVE Emit(_, _, _, _, _)
Emit(rels, edges, memo, s, steps) ==
  IF Cardinality(s) = 1
  THEN [operand |-> RelationOperand(Lowest(s)), rows |-> rels[Lowest(s)], steps |-> steps]
  ELSE LET first == Emit(rels, edges, memo, memo[s].left, steps)
           second == Emit(rels, edges, memo, memo[s].right, first.steps)
           unknown_right == second.rows = Unknown /\ first.rows /= Unknown
           left == IF unknown_right THEN second ELSE first
           right == IF unknown_right THEN first ELSE second
           crossing == {e \in DOMAIN edges :
                          /\ Ends(edges[e]) \cap memo[s].left /= {}
                          /\ Ends(edges[e]) \cap memo[s].right /= {}}
           rows == JoinRowsOf(edges, Known(left.rows, Largest), Known(right.rows, Largest), crossing)
           step == JoinStep(left.operand, right.operand, crossing,
                            ChooseBuildSide(left.rows, right.rows), rows)
       IN  [operand |-> StepOperand(Len(second.steps) + 1), rows |-> rows,
            steps |-> Append(second.steps, step)]

(***************************************************************************)
(* The greedy rule.                                                        *)
(***************************************************************************)
Crossing(edges, joined, candidate) ==
  {e \in DOMAIN edges : /\ candidate \in Ends(edges[e])
                        /\ (Ends(edges[e]) \ {candidate}) \cap joined /= {}}

(* The relation of the smallest estimate joins next, the first in FROM on a   *)
(* tie.                                                                       *)
RECURSIVE Add(_, _, _, _, _, _)
Add(rels, edges, joined, left, joined_rows, steps) ==
  IF joined = DOMAIN rels THEN steps
  ELSE LET Estimate(c) == JoinRowsOf(edges, joined_rows, BlockRows(rels, c),
                                     Crossing(edges, joined, c))
           candidates == {c \in DOMAIN rels \ joined : Crossing(edges, joined, c) /= {}}
           next == CHOOSE c \in candidates : \A d \in candidates :
                     \/ Estimate(c) < Estimate(d)
                     \/ Estimate(c) = Estimate(d) /\ c <= d
           step == JoinStep(left, RelationOperand(next), Crossing(edges, joined, next),
                            ChooseBuildSide(joined_rows, rels[next]), Estimate(next))
       IN  Add(rels, edges, joined \cup {next}, StepOperand(Len(steps) + 1), Estimate(next),
               Append(steps, step))

Greedy(rels, edges) ==
  IF Len(rels) < 2 THEN <<>>
  ELSE LET probe == CHOOSE r \in DOMAIN rels : \A q \in DOMAIN rels :
                      \/ BlockRows(rels, r) > BlockRows(rels, q)
                      \/ BlockRows(rels, r) = BlockRows(rels, q) /\ r <= q
       IN  Add(rels, edges, {probe}, RelationOperand(probe), BlockRows(rels, probe), <<>>)

(* Order(): the search where it applies and finds a plan, else the greedy rule. *)
OrderJoins(rels, edges, search) ==
  LET all == DOMAIN rels
      memo == Solve(rels, edges)
  IN  IF search = "cost" /\ Len(rels) \in 2..SearchRelations /\ all \in DOMAIN memo
      THEN Emit(rels, edges, memo, all, <<>>).steps
      ELSE Greedy(rels, edges)

(* The relations the edges connect to `reached`. *)
RECURSIVE Reached(_, _)
Reached(edges, reached) ==
  LET more == Neighbours(edges, reached, {})
  IN  IF more = {} THEN reached ELSE Reached(edges, reached \cup more)

FirstUnconnected(n, edges) ==
  LET missing == IF n = 0 THEN {} ELSE 1..n \ Reached(edges, {1})
  IN  IF missing = {} THEN 0 ELSE Min(missing)

(* The relations below an operand of `steps`. *)
RECURSIVE BelowOf(_, _)
BelowOf(steps, operand) ==
  IF operand.step
  THEN BelowOf(steps, steps[operand.index].left) \cup BelowOf(steps, steps[operand.index].right)
  ELSE {operand.index}

(* What the search minimises, of any order's steps. *)
OrderCost(rels, edges, steps) ==
  Saturated(FoldLeft(LAMBDA cost, k :
    LET left == BelowOf(steps, steps[k].left)
        right == BelowOf(steps, steps[k].right)
    IN  cost + SubsetRows(rels, edges, left \cup right)
          + Min({SubsetRows(rels, edges, left), SubsetRows(rels, edges, right)}),
    0, [k \in DOMAIN steps |-> k]))
==============================================================================
