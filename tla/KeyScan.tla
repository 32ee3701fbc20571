------------------------------- MODULE KeyScan -------------------------------
(***************************************************************************)
(* What a scan may leave out: the parts whose statistics rule out the      *)
(* predicates over them (src/exec/part_pruning.cc), and the parts and rows *)
(* that no key of a join's build can match (src/exec/key_filter.cc, and    *)
(* ProbeKeyAt .. KeyScanOf of src/exec/physical_planner.cc).               *)
(*                                                                         *)
(* The pipeline is a chain of joins over one scan of two columns.  The     *)
(* filter a join publishes reaches the scan as a position in the scan's    *)
(* own columns, found by walking down the chain; the answer of the chain   *)
(* is compared with that of the same chain over every row.                 *)
(***************************************************************************)
EXTENDS Integers, Sequences, FiniteSets, FiniteSetsExt, Functions, SequencesExt, JoinKind

CONSTANT
  Queries   \* [joins, predicates, parts]: the chain, outermost join first, each
            \* [kind, build, key, rows]; the conjunction over the scan; the table's
            \* parts, each a set of rows

VARIABLES
  joins,       \* the chain
  predicates,  \* the Filter right over the scan
  parts,       \* the table's parts
  hasStats,    \* whether the table has statistics
  published,   \* per join: "none", "bits" (no key but NULL), "interval" or "values"
  pays,        \* per join: CanFilterRows of its filter
  left,        \* the kept parts not yet scanned
  scanned,     \* the rows the scans of the others returned
  answer       \* the rows of the outermost join, NoAnswer until the scans have ended

plan == <<joins, predicates, parts, hasStats, published, pays>>
vars == <<plan, left, scanned, answer>>

NullValue == 0
NoAnswer == {<<>>}
ScanWidth == 2
Joins == 1 .. Len(joins)
Innermost == Len(joins)

-----------------------------------------------------------------------------
(* The joins (plan::JoinKind)                                               *)

\* The width of the output of the chain from join j down.
RECURSIVE Width(_)

Width(j) ==
  IF j > Innermost THEN ScanWidth
  ELSE IF Traits(joins[j].kind)["outputs_right"] THEN Width(j + 1) + 1
  ELSE IF joins[j].build = "right" THEN Width(j + 1) ELSE 1

\* Pads one side with NULLs.
Nulls(n) == [i \in 1 .. n |-> NullValue]

\* A join of two inputs, lk and rk their keys' columns, of widths lw and rw.
JoinRows(kind, lrows, rrows, lk, rk, lw, rw) ==
  LET match(l, r) == l[lk] = r[rk] /\ l[lk] # NullValue
      matches == {l \o r : <<l, r>> \in {p \in lrows \X rrows : match(p[1], p[2])}}
      alone(l) == \A r \in rrows : ~match(l, r)
      padded == {l \o Nulls(rw) : l \in {l \in lrows : alone(l)}}
  IN  CASE kind = "inner" -> matches
        [] kind = "left" -> matches \cup padded
        [] kind = "semi" -> {l \in lrows : ~alone(l)}
        [] kind = "anti" -> {l \in lrows : alone(l)}
        [] kind = "null_aware_anti" ->
             IF \E r \in rrows : r[rk] = NullValue THEN {}
             ELSE {l \in lrows : rrows = {} \/ (l[lk] # NullValue /\ alone(l))}
        [] kind = "full" ->
             matches \cup padded
               \cup {Nulls(lw) \o r : r \in {r \in rrows : \A l \in lrows : ~match(l, r)}}

\* The rows of the chain from join j down over these rows of the scan: the probe input is the
\* one the join does not build on.
RECURSIVE ChainRows(_, _)
ChainRows(j, rows) ==
  IF j > Innermost THEN rows
  ELSE LET probe == ChainRows(j + 1, rows)
           join == joins[j]
       IN  IF join.build = "right"
           THEN JoinRows(join.kind, probe, join.rows, join.key, 1, Width(j + 1), 1)
           ELSE JoinRows(join.kind, join.rows, probe, 1, join.key, 1, Width(j + 1))

-----------------------------------------------------------------------------
(* Predicates and part statistics                                           *)

Compares(op, v, c) ==
  CASE op = "eq" -> v = c
    [] op = "ne" -> v # c
    [] op = "lt" -> v < c
    [] op = "le" -> v <= c
    [] op = "gt" -> v > c
    [] op = "ge" -> v >= c

\* A predicate over one row: NULL is never true but for IS NULL.
True(p, row) ==
  LET v == row[p.column]
  IN  CASE p.kind = "compare" -> v # NullValue /\ Compares(p.op, v, p.c)
        [] p.kind = "in" -> v \in p.values
        [] p.kind = "not_null" -> v # NullValue
        [] p.kind = "null" -> v = NullValue
        [] p.kind = "false" -> FALSE

\* part_stats: the counts, and the interval of the values that are not NULL.
PartStats(part, f) ==
  LET values == {row[f] : row \in part} \ {NullValue}
  IN  [rows |-> Cardinality(part),
       nulls |-> Cardinality({row \in part : row[f] = NullValue}),
       ranged |-> values # {},
       min |-> IF values = {} THEN 0 ELSE Min(values),
       max |-> IF values = {} THEN 0 ELSE Max(values)]

CompareNeverTrue(op, c, lo, hi) ==
  CASE op = "eq" -> c < lo \/ c > hi
    [] op = "ne" -> lo = c /\ hi = c
    [] op = "lt" -> lo >= c
    [] op = "le" -> lo > c
    [] op = "gt" -> hi <= c
    [] op = "ge" -> hi < c

NeverTrue(p, stats) ==
  LET allNull == stats.nulls >= stats.rows
  IN  CASE p.kind = "compare" ->
             allNull \/ (stats.ranged /\ CompareNeverTrue(p.op, p.c, stats.min, stats.max))
        [] p.kind = "in" ->
             allNull \/ (stats.ranged /\ \A v \in p.values : v < stats.min \/ v > stats.max)
        [] p.kind = "not_null" -> allNull
        [] OTHER -> FALSE

PartMayMatch(part) ==
  \A p \in predicates :
    ~(p.kind = "false" \/ (hasStats /\ NeverTrue(p, PartStats(part, p.column))))

KeptParts == {i \in DOMAIN parts : predicates = {} \/ PartMayMatch(parts[i])}

-----------------------------------------------------------------------------
(* The key filter of a build, and the scan that may read it                 *)

BuildKeys(j) == {row[1] : row \in joins[j].rows} \ {NullValue}

MayHoldAKeyIn(j, lo, hi) ==
  CASE published[j] = "values" -> \E k \in BuildKeys(j) : k >= lo /\ k <= hi
    [] published[j] = "interval" -> hi >= Min(BuildKeys(j)) /\ lo <= Max(BuildKeys(j))
    [] OTHER -> TRUE

\* Mutant: a column keeps its position on the way through a join.
StepDownMutant(join, column) == column

\* The position of a column of a join's output in its probe input: a join that builds on its
\* left carries the probe's columns behind the left input's.
StepDown(join, column) == IF join.build = "left" THEN column - 1 ELSE column

\* ProbeKeyAt's walk from the probe input of join j, at join `at`: the column of the scan, 0 when
\* the walk ends on the way.
RECURSIVE Walk(_, _)
Walk(at, column) ==
  CASE at > Innermost -> IF column <= ScanWidth THEN column ELSE 0
    [] EmitsBuildRows(joins[at].kind, joins[at].build) -> 0
    [] joins[at].build = "left" /\ ~Traits(joins[at].kind)["outputs_right"] -> 0
    [] StepDown(joins[at], column) < 1 -> 0
    [] OTHER -> Walk(at + 1, StepDown(joins[at], column))

\* ProbeKeyAt: where the key of join j is in the scan, 0 when its filter may not be used.
ProbeKeyAt(j) ==
  IF ProbeDropsUnmatchedRows(joins[j].kind, joins[j].build)
  THEN Walk(j + 1, joins[j].key) ELSE 0

\* ProbeKeyOf: the innermost join's filter, or the first further up that pays; 0 for none.
ProbeKeyOf ==
  LET offers == {j \in Joins : ProbeKeyAt(j) # 0 /\ published[j] # "none"
                               /\ (j = Innermost \/ pays[j])}
  IN  IF offers = {} THEN 0 ELSE Max(offers)

\* PartHasNoKey: no row of the part can have a key of the build.
PartHasNoKey(j, part) ==
  LET stats == PartStats(part, ProbeKeyAt(j))
  IN  /\ published[j] \in {"interval", "values"} /\ hasStats
      /\ IF stats.ranged THEN ~MayHoldAKeyIn(j, stats.min, stats.max)
                         ELSE stats.nulls >= stats.rows

\* What the scan of a part returns: nothing if no key can be in it, else the rows the pushed
\* predicates and the key filter leave.  A filter that lets more rows through leaves the join more
\* to drop; the one modelled lets through none it could reject.
ScanRows(part) ==
  LET passing == {row \in part : \A p \in predicates : True(p, row)}
      j == ProbeKeyOf
  IN  CASE j = 0 -> passing
        [] j # 0 /\ PartHasNoKey(j, part) -> {}
        [] j # 0 /\ ~PartHasNoKey(j, part) /\ pays[j] ->
             {row \in passing : row[ProbeKeyAt(j)] \in BuildKeys(j)}
        [] OTHER -> passing

-----------------------------------------------------------------------------
\* What MakeKeyFilter may publish: nothing for a build without rows, or one the budget or the
\* cache refuses, and no key but with a key that is not NULL.
Publishable(join) ==
  {"none"} \cup (IF join.rows = {} THEN {}
                 ELSE IF {row[1] : row \in join.rows} = {NullValue} THEN {"bits"}
                 ELSE {"interval", "values"})

Init ==
  /\ \E q \in Queries : joins = q.joins /\ predicates = q.predicates /\ parts = q.parts
  /\ hasStats \in BOOLEAN
  /\ published \in {p \in [Joins -> {"none", "bits", "interval", "values"}] :
                      \A j \in Joins : p[j] \in Publishable(joins[j])}
  /\ pays \in {p \in [Joins -> BOOLEAN] : \A j \in Joins : p[j] => published[j] # "none"}
  /\ left = KeptParts
  /\ scanned = {}
  /\ answer = NoAnswer

\* The scan of a kept part, in the order its task gets to run.
ScanPart ==
  /\ \E i \in left :
       /\ left' = left \ {i}
       /\ scanned' = scanned \cup ScanRows(parts[i])
  /\ UNCHANGED <<plan, answer>>

\* The rows of the chain over what the scans returned.
Answer ==
  /\ left = {} /\ answer = NoAnswer
  /\ answer' = ChainRows(1, scanned)
  /\ UNCHANGED <<plan, left, scanned>>

Next == ScanPart \/ Answer

Spec == Init /\ [][Next]_vars

-----------------------------------------------------------------------------
AllRows == UNION Range(parts)

\* The parts and rows left out change no answer: the chain over what was scanned gives what it
\* gives over every row of the table that passes the predicates, whichever join's filter the scan
\* read, on whichever side the joins build, with keys that are NULL and builds that are empty.
SameAnswer ==
  answer # NoAnswer =>
    answer = ChainRows(1, {row \in AllRows : \A p \in predicates : True(p, row)})

\* A part the statistics rule out has no row that passes the predicates.
KeepsEveryMatch ==
  \A i \in DOMAIN parts \ KeptParts :
    \A row \in parts[i] : \E p \in predicates : ~True(p, row)

\* The column a filter is read for is the column the join probes with: in every row of the chain
\* below the join, the value at the key's position is that of the scan's column in the row.
RightColumn ==
  LET j == ProbeKeyOf
  IN  j # 0 =>
        \A row \in scanned : \A out \in ChainRows(j + 1, {row}) :
          out[joins[j].key] = row[ProbeKeyAt(j)]
=============================================================================
