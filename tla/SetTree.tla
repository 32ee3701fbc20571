------------------------------- MODULE SetTree -------------------------------
(***************************************************************************)
(* From a compound as it is written to the plan of its set operations:     *)
(* SetOperationTree (src/sql/ast.cc) folds the branches into n-ary runs by *)
(* precedence, and the binder (src/plan/binder.cc, Build and Region) cuts  *)
(* the tree at UNION ALL into regions, each one SetOperation with a        *)
(* formula.  One row is followed: a query gives it some number of times,   *)
(* and the plan must return it as often as SQL says of the compound.       *)
(* A branch is [op, all, query]; a query is [leaf, branches]: the number   *)
(* of a block, or 0 and the branches of a parenthesized compound.          *)
(***************************************************************************)
EXTENDS SetFormula

CONSTANTS
  MaxBranches,  \* the most branches of one compound
  MaxCopies,    \* the most copies of the row in one query
  MaxAllCopies  \* the most copies of the row in all queries

VARIABLES
  compound,  \* the branches, in written order
  copies,    \* per block: how often it gives the row, <<>> until the plan is made
  i,         \* the branches folded so far
  fold       \* [outer, op, term]: the loop's locals of SetOperationTree

vars == <<compound, copies, i, fold>>

-----------------------------------------------------------------------------
(* The compounds. *)

Block(n) == [leaf |-> n, branches |-> <<>>]

\* n blocks numbered from first, joined by any operators (the first branch's is unused).
Flat(first, n) ==
  {[b \in 1 .. n |-> [op |-> IF b = 1 THEN "union" ELSE ops[b].op,
                      all |-> b > 1 /\ ops[b].all,
                      query |-> Block(first + b - 1)]] :
     ops \in [2 .. n -> [op : {"union", "intersect", "except"}, all : BOOLEAN]]}

\* A flat compound with one branch in parentheses that holds two blocks or more.
Nested(n) ==
  {[b \in 1 .. Len(c) |->
      [op |-> c[b].op, all |-> c[b].all,
       query |-> CASE b < at -> Block(b)
                   [] b = at -> [leaf |-> 0, branches |-> inner]
                   [] b > at -> Block(b - 1 + Len(inner))]] :
     <<c, at, inner>> \in UNION {Flat(1, n - m + 1) \X {a} \X Flat(a, m) :
                                   m \in 2 .. n - 1, a \in 1 .. n - 1}}

-----------------------------------------------------------------------------
(* SetOperationTree. *)

Run(branch) ==
  CASE branch.op = "union"     -> IF branch.all THEN "unionAll" ELSE "union"
    [] branch.op = "intersect" -> IF branch.all THEN "intersectAll" ELSE "intersect"
    [] branch.op = "except"    -> IF branch.all THEN "exceptAll" ELSE "except"

Precedence(op) == IF op = "intersect" THEN 2 ELSE 1

\* A right operand merged like a left one, whatever the operator.
CombineRunsMutant(left, right, branch) ==
  LET Spliced(t) == IF t.kind = Run(branch) THEN t.operands ELSE <<t>> IN
  [kind |-> Run(branch), input |-> 0, operands |-> Spliced(left) \o Spliced(right)]

\* left op right: a run of one operator and quantifier takes the operands of a left
\* run of the same, and of a right one only for UNION.
CombineRuns(left, right, branch) ==
  LET Same(t) == t.kind = Run(branch) IN
  [kind |-> Run(branch), input |-> 0,
   operands |-> (IF Same(left) THEN left.operands ELSE <<left>>)
                \o (IF branch.op = "union" /\ Same(right) THEN right.operands ELSE <<right>>)]

None == [kind |-> "none"]

\* UNION and EXCEPT still to be combined with the run after them.
Joined(f) == IF f.outer = None THEN f.term ELSE CombineRuns(f.outer, f.term, f.op)

\* One more branch: an INTERSECT extends the run being built, another operator ends it.
TakeBranch(f, operand, branch) ==
  IF Precedence(branch.op) = 2
    THEN [f EXCEPT !.term = CombineRuns(f.term, operand, branch)]
    ELSE [outer |-> Joined(f), op |-> branch, term |-> operand]

\* A parenthesized compound is its tree, a block a leaf.
RECURSIVE Operand(_)
Operand(query) ==
  LET b == query.branches
      Take(f, branch) == TakeBranch(f, Operand(branch.query), branch) IN
  IF b = <<>>
    THEN [kind |-> "input", input |-> query.leaf, operands |-> <<>>]
    ELSE Joined(FoldLeft(Take, [outer |-> None, op |-> b[1], term |-> Operand(b[1].query)], Tail(b)))

-----------------------------------------------------------------------------
(* The plan of a tree, as the number of times it returns the row. *)

\* What SetOperationOperator keeps of an input: its count, or whether it has the row.
Membership(counted, k, value) ==
  IF k \in counted THEN value ELSE IF value > 0 THEN 1 ELSE 0

RECURSIVE Build(_)
Build(t) ==
  CASE t.kind = "input" -> copies[t.input]
    [] t.kind = "unionAll" ->
         FoldLeft(LAMBDA sum, operand : sum + Build(operand), 0, t.operands)
    [] OTHER ->
         LET f       == Region(t)
             values  == FoldLeft(LAMBDA vs, operand : Append(vs, Build(operand)), <<>>,
                                 RegionInputs(t))
             counted == SetCounted(f)
             present == [k \in 0 .. Len(values) - 1 |-> Membership(counted, k, values[k + 1])] IN
         IF \E k \in SetStarters(f) : values[k + 1] > 0 THEN Evaluated(f, present) ELSE 0

-----------------------------------------------------------------------------
NumBlocks(c) ==
  FoldLeft(LAMBDA n, b : n + (IF b.query.leaf # 0 THEN 1 ELSE Len(b.query.branches)), 0, c)

Init ==
  /\ compound \in UNION {Flat(1, n) \cup Nested(n) : n \in 2 .. MaxBranches}
  /\ copies = <<>>
  /\ i = 1
  /\ fold = [outer |-> None, op |-> compound[1], term |-> Operand(compound[1].query)]

\* The loop of SetOperationTree over the compound itself.
Fold ==
  /\ i < Len(compound)
  /\ i' = i + 1
  /\ fold' = TakeBranch(fold, Operand(compound[i + 1].query), compound[i + 1])
  /\ UNCHANGED <<compound, copies>>

\* The rows that the blocks turn out to have, which the plan is made without.
Read ==
  /\ i = Len(compound) /\ copies = <<>>
  /\ copies' \in {c \in [1 .. NumBlocks(compound) -> 0 .. MaxCopies] :
                   FoldFunction(+, 0, c) <= MaxAllCopies}
  /\ UNCHANGED <<compound, i, fold>>

Done == copies # <<>> /\ UNCHANGED vars

Next == Fold \/ Read \/ Done

Spec == Init /\ [][Next]_vars

-----------------------------------------------------------------------------
(* What it promises. *)

\* SQL's rule on the branches as written, from hi down: the last UNION or EXCEPT is
\* applied last, INTERSECT binds tighter, and all of them associate to the left.
Multiplied(branch, a, b) ==
  LET Least(x, y) == IF x < y THEN x ELSE y IN
  CASE Run(branch) = "unionAll"     -> a + b
    [] Run(branch) = "union"        -> Least(a + b, 1)
    [] Run(branch) = "intersectAll" -> Least(a, b)
    [] Run(branch) = "intersect"    -> Least(Least(a, b), 1)
    [] Run(branch) = "exceptAll"    -> a - Least(a, b)
    [] Run(branch) = "except"       -> IF b > 0 THEN 0 ELSE Least(a, 1)

RECURSIVE Written(_, _, _)
Written(c, lo, hi) ==
  LET loose == {b \in lo + 1 .. hi : c[b].op # "intersect"}
      at    == IF loose # {} THEN Max(loose) ELSE hi
      q     == c[lo].query IN
  IF lo = hi
    THEN IF q.leaf # 0 THEN copies[q.leaf] ELSE Written(q.branches, 1, Len(q.branches))
    ELSE Multiplied(c[at], Written(c, lo, at - 1), Written(c, at, hi))

\* A run of a tree the binder may bind: two operands or more, no operand a run that it
\* should have taken in (a left operand of the same kind, any operand of a UNION run),
\* which the rule for the types of a run relies on.
RECURSIVE RunsMaximal(_)
RunsMaximal(t) ==
  \/ t.kind = "input"
  \/ /\ Len(t.operands) >= 2
     /\ t.operands[1].kind # t.kind
     /\ t.kind \in {"union", "unionAll"} => \A k \in DOMAIN t.operands : t.operands[k].kind # t.kind
     /\ \A k \in DOMAIN t.operands : RunsMaximal(t.operands[k])

\* The tree after every branch is made of maximal runs: chains of one operator are one
\* run, whatever parentheses they were written with (ADR 0039's tree and types rules).
MaximalRuns == RunsMaximal(Joined(fold))

\* Whatever rows the blocks have, the plan of the tree returns the row as often as SQL says of
\* the compound: precedence, parentheses, merged and spliced runs, the cut at UNION ALL, and
\* bits kept for counts change nothing.
PlanMeansCompound == copies # <<>> => Build(Joined(fold)) = Written(compound, 1, Len(compound))
=============================================================================
