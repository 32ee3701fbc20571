--------------------------- MODULE SharedSubPlans ---------------------------
(***************************************************************************)
(* Computing a repeated sub-plan once: SharedSubPlans                      *)
(* (src/plan/shared_sub_plans.cc) finds the groups of equivalent           *)
(* sub-plans, and BuildPhysicalPlan (src/exec/physical_planner.cc) chooses *)
(* among them, computes each chosen group's widest member into a table and *)
(* makes every member a scan of it.  A plan is a tree [op, inputs, args]   *)
(* over one table of small rows; a node is named by its position, the      *)
(* inputs taken from the root; a column reference is a position in the     *)
(* input's output, whose column id is the defining node and its column.    *)
(***************************************************************************)
EXTENDS Integers, Sequences, SequencesExt, FiniteSetsExt, FiniteSets

CONSTANTS
  Plans,          \* the plans
  Tables,         \* the contents of the table: sequences of rows
  MinSharedRows   \* kMinSharedRows

VARIABLES
  plan,       \* LogicalPlan::root
  table,      \* the rows of the table
  memo,       \* per position: the key of its sub-tree (KeyMemo)
  reported,   \* whether SharedSubPlans has returned
  groups,     \* what SharedSubPlans reported and the loop has not looked at
  shared,     \* the groups chosen, each a SharedBuild: the position it computes
  replaced    \* per position replaced: [by, columns], its scan of a shared result

vars == <<plan, table, memo, reported, groups, shared, replaced>>

-----------------------------------------------------------------------------
(* The nodes: an operator, its inputs and its arguments, columns being positions *)
(* in an input.                                                                  *)

Node(op, inputs, args) == [op |-> op, inputs |-> inputs, args |-> args]

Scan(fields)        == Node("scan", <<>>, fields)
Filter(p, col, c)   == Node("filter", <<p>>, <<col, c>>)       \* col = c
Project(p, cols)    == Node("project", <<p>>, cols)
Join(l, r, a, b)    == Node("join", <<l, r>>, <<a, b>>)        \* l.a = r.b
Group(p, key)       == Node("group", <<p>>, <<key>>)           \* key, COUNT(*)
Limit(p, n)         == Node("limit", <<p>>, <<n>>)
UnionAll(l, r)      == Node("union", <<l, r>>, <<>>)

RECURSIVE Width(_)
Width(p) ==
  CASE p.op \in {"scan", "project"} -> Len(p.args)
    [] p.op = "group" -> 2
    [] p.op = "join"  -> Width(p.inputs[1]) + Width(p.inputs[2])
    [] OTHER          -> Width(p.inputs[1])

-----------------------------------------------------------------------------
(* Where a column comes from. *)

\* The input of p that its output column j passes through, and its place there: <<>>
\* where p defines the column itself.
Through(p, j) ==
  CASE p.op \in {"filter", "limit"} -> <<1, j>>
    [] p.op = "join" -> IF j <= Width(p.inputs[1]) THEN <<1, j>>
                                                   ELSE <<2, j - Width(p.inputs[1])>>
    [] OTHER -> <<>>

\* The path of output column j inside p, to the node that defines it.
RECURSIVE Within(_, _)
Within(p, j) ==
  LET t == Through(p, j) IN
  IF t = <<>> THEN <<>> ELSE <<t[1]>> \o Within(p.inputs[t[1]], t[2])

\* The origin of output column j of p, and a reference to column j of its input k: that
\* column's origin and the path it is read through.
RECURSIVE Origin(_, _), Key(_, _, _)

\* The path left out: a reference is its column's origin alone.
KeyMutant(p, k, j) == <<Origin(p.inputs[k], j), <<>>>>

Origin(p, j) ==
  LET t == Through(p, j) IN
  CASE t # <<>>       -> Origin(p.inputs[t[1]], t[2])
    [] p.op = "scan"  -> <<"field", p.args[j]>>
    [] p.op = "project" -> <<"=", Key(p, 1, p.args[j])>>
    [] p.op = "group" -> IF j = 1 THEN <<"key", Key(p, 1, p.args[1])>> ELSE <<"count">>
    [] p.op = "union" -> <<"u", Key(p, 1, j), Key(p, 2, j)>>
Key(p, k, j) == <<Origin(p.inputs[k], j), <<k>> \o Within(p.inputs[k], j)>>

NoKey == <<>>

\* A node's own content as a key, or NoKey where a sub-plan that holds it is not shareable.
NodeKey(p) ==
  CASE p.op = "scan"    -> <<"scan">>   \* the fields read do not change the rows
    [] p.op = "filter"  -> <<"filter", Key(p, 1, p.args[1]), p.args[2]>>
    [] p.op = "project" -> <<"project", [i \in DOMAIN p.args |-> Key(p, 1, p.args[i])]>>
    [] p.op = "join"    -> <<"join", Key(p, 1, p.args[1]), Key(p, 2, p.args[2])>>
    [] p.op = "group"   -> <<"group", Key(p, 1, p.args[1])>>
    [] p.op = "union"   -> <<"union", [j \in 1 .. Width(p) |-> Key(p, 1, j)],
                                      [j \in 1 .. Width(p) |-> Key(p, 2, j)]>>
    [] p.op = "limit"   -> NoKey

RECURSIVE SubtreeKey(_)
SubtreeKey(p) ==
  LET below == [k \in DOMAIN p.inputs |-> SubtreeKey(p.inputs[k])] IN
  IF NodeKey(p) = NoKey \/ \E k \in DOMAIN below : below[k] = NoKey
    THEN NoKey ELSE <<NodeKey(p), below>>

-----------------------------------------------------------------------------
(* SharedSubPlans. *)

RECURSIVE At(_, _)
At(p, pos) == IF pos = <<>> THEN p ELSE At(p.inputs[pos[1]], Tail(pos))

\* The positions of the plan in the order a walk from the root meets them, but for those
\* below a union; it goes no further down at the positions in `stops`.
RECURSIVE PreOrder(_, _, _)
PreOrder(p, pos, stops) ==
  LET Below(k) == PreOrder(p.inputs[k], Append(pos, k), stops) IN
  <<pos>> \o
  CASE p.op = "union" \/ pos \in stops \/ p.inputs = <<>> -> <<>>
    [] Len(p.inputs) = 1 -> Below(1)
    [] OTHER             -> Below(1) \o Below(2)

\* Every candidate, with its key.
Collect(p) == PreOrder(p, <<>>, {})
Keys(p) == [pos \in ToSet(Collect(p)) |-> SubtreeKey(At(p, pos))]

\* The candidates with the key of this one.
MembersOf(pos) == SelectSeq(Collect(plan), LAMBDA other : memo[other] = memo[pos])
Repeated ==
  {pos \in DOMAIN memo : memo[pos] # NoKey /\ \E other \in DOMAIN memo \ {pos} :
                                                memo[other] = memo[pos]}

\* An output column by its ordinal and its path inside the member.
Columns(p) == [j \in 1 .. Width(p) |-> <<Origin(p, j), Within(p, j)>>]

\* The group of these members: the widest member, and where each member's columns are in
\* its output; none where its output does not hold every other's.
GroupsOf(members) ==
  LET Out(i)  == Columns(At(plan, members[i]))
      widest  == Min({i \in DOMAIN members :
                        \A j \in DOMAIN members : Len(Out(j)) <= Len(Out(i))})
      Places(c) == {w \in DOMAIN Out(widest) : Out(widest)[w] = c} IN
  IF \A i \in DOMAIN members : \A j \in DOMAIN Out(i) : Places(Out(i)[j]) # {}
    THEN <<[members |-> members, widest |-> members[widest],
            columns |-> [i \in DOMAIN members |->
                           [j \in DOMAIN Out(i) |-> Min(Places(Out(i)[j]))]]]>>
    ELSE <<>>

\* The walk that reports: it does not go below a repeated sub-plan.
Emit == PreOrder(plan, <<>>, Repeated)

\* The groups, each at the first of its members the walk meets.
Reported ==
  LET walk   == Emit
      firsts == SelectSeq([i \in DOMAIN walk |-> i],
                          LAMBDA i : /\ walk[i] \in Repeated
                                     /\ \A j \in 1 .. i - 1 : memo[walk[j]] # memo[walk[i]]) IN
  FlattenSeq([i \in DOMAIN firsts |-> GroupsOf(MembersOf(walk[firsts[i]]))])

-----------------------------------------------------------------------------
(* BuildPhysicalPlan. *)

\* The rows the scans under p read.
RECURSIVE InputRows(_)
InputRows(p) ==
  IF p.op = "scan" THEN Len(table)
  ELSE FoldLeft(LAMBDA sum, input : sum + InputRows(input), 0, p.inputs)

\* Through projections, only an aggregate over enough rows is worth holding.
RECURSIVE Reduces(_)
Reduces(p) == p.op = "group" \/ (p.op = "project" /\ Reduces(p.inputs[1]))
WorthSharing(p) == Reduces(p) /\ InputRows(p) >= MinSharedRows

Init ==
  /\ plan \in Plans
  /\ table \in Tables
  /\ memo = Keys(plan)
  /\ reported = FALSE
  /\ groups = <<>>
  /\ shared = <<>>
  /\ replaced = <<>>

Report ==
  /\ ~reported
  /\ reported' = TRUE
  /\ groups' = Reported
  /\ UNCHANGED <<plan, table, memo, shared, replaced>>

\* One turn of the loop over the groups: left alone where a member is replaced already
\* or the result is not worth holding, else every member becomes a scan of the result.
TakeGroup ==
  /\ groups # <<>>
  /\ groups' = Tail(groups)
  /\ LET g == Head(groups)
         chosen == /\ \A i \in DOMAIN g.members : g.members[i] \notin DOMAIN replaced
                   /\ WorthSharing(At(plan, g.widest))
         scans == [pos \in ToSet(g.members) |->
                     LET i == CHOOSE i \in DOMAIN g.members : g.members[i] = pos IN
                     [by |-> Len(shared) + 1, columns |-> g.columns[i]]] IN
     /\ shared' = IF chosen THEN Append(shared, g) ELSE shared
     /\ replaced' = IF chosen
                      THEN [pos \in DOMAIN replaced \cup DOMAIN scans |->
                              IF pos \in DOMAIN scans THEN scans[pos] ELSE replaced[pos]]
                      ELSE replaced
  /\ UNCHANGED <<plan, table, memo, reported>>

Done == reported /\ groups = <<>> /\ UNCHANGED vars

Next == Report \/ TakeGroup \/ Done

Spec == Init /\ [][Next]_vars

-----------------------------------------------------------------------------
(* What it promises. *)

Picked(row, cols) == [i \in DOMAIN cols |-> row[cols[i]]]

\* The rows of the node at pos, in order, where `substituted` says whether a replaced
\* node is read from the shared result (computed from the plan as it was) or computed.
RECURSIVE Rows(_, _)
Rows(pos, substituted) ==
  LET p == At(plan, pos)
      in == [k \in DOMAIN p.inputs |-> Rows(Append(pos, k), substituted)] IN
  IF substituted /\ pos \in DOMAIN replaced
    THEN LET whole == Rows(shared[replaced[pos].by].widest, FALSE) IN
         [r \in DOMAIN whole |-> Picked(whole[r], replaced[pos].columns)]
    ELSE CASE p.op = "scan" -> [r \in DOMAIN table |-> Picked(table[r], p.args)]
           [] p.op = "filter" -> SelectSeq(in[1], LAMBDA row : row[p.args[1]] = p.args[2])
           [] p.op = "project" -> [r \in DOMAIN in[1] |-> Picked(in[1][r], p.args)]
           [] p.op = "join" ->
                FlattenSeq([l \in DOMAIN in[1] |->
                  LET matches == SelectSeq(in[2], LAMBDA row :
                                             row[p.args[2]] = in[1][l][p.args[1]]) IN
                  [r \in DOMAIN matches |-> in[1][l] \o matches[r]]])
           [] p.op = "group" ->
                LET keys == [r \in DOMAIN in[1] |-> in[1][r][p.args[1]]]
                    firsts == SelectSeq([r \in DOMAIN keys |-> r],
                                        LAMBDA r : \A s \in 1 .. r - 1 : keys[s] # keys[r]) IN
                [g \in DOMAIN firsts |->
                   <<keys[firsts[g]],
                     Cardinality({r \in DOMAIN keys : keys[r] = keys[firsts[g]]})>>]
           [] p.op = "limit" -> SubSeq(in[1], 1, Min({p.args[1], Len(in[1])}))
           [] p.op = "union" -> in[1] \o in[2]

\* Every member of a reported group computes, column for column and row for row, what
\* its columns of the widest member's result hold (SharedSubPlan::members, ::columns):
\* fields not read, the two sides of a self-join and every COUNT(*) are told apart.
OneResultServes ==
  \A i \in DOMAIN groups :
    LET whole == Rows(groups[i].widest, FALSE) IN
    \A m \in DOMAIN groups[i].members :
      Rows(groups[i].members[m], FALSE) =
        [r \in DOMAIN whole |-> Picked(whole[r], groups[i].columns[m])]

\* The plan over the shared results returns the rows of the plan as it was, after any
\* number of groups are replaced, nested ones included.
SameAnswer == replaced # <<>> => Rows(<<>>, TRUE) = Rows(<<>>, FALSE)

Inside(pos, other) == Len(other) < Len(pos) /\ SubSeq(pos, 1, Len(other)) = other

\* No reported group lies wholly inside the members of another, and nothing below a
\* union is a member: such a result would be held for no consumer (shared_sub_plans.h).
NeverWhollyNested ==
  LET all == groups \o shared IN
  \A i, j \in DOMAIN all :
    \E m \in DOMAIN all[i].members :
      ~\E o \in DOMAIN all[j].members : Inside(all[i].members[m], all[j].members[o])
=============================================================================
