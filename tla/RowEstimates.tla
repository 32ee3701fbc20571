----------------------------- MODULE RowEstimates -----------------------------
(***************************************************************************)
(* The rows a relation is estimated to have after the conjuncts routed to  *)
(* its scan (binder.cc's FilteredRelationRows over join_order.cc's         *)
(* ColumnRangeOf, ColumnDomain and PredicateRows).  The estimate decides   *)
(* join orders and build sides, and an estimate of no row makes every      *)
(* estimate above it 0 too.                                                *)
(*                                                                         *)
(* A table is a sequence of parts, a part a record of its rows (one value  *)
(* per field), whether its footer has statistics, and its hint of distinct *)
(* values or Unknown.  A predicate is a record [kind, op, field, values,   *)
(* integer]; `integer` says whether its constants are integers, the only   *)
(* ones that can be placed against a range.  Widest is the largest 128-bit *)
(* integer.                                                                *)
(***************************************************************************)
EXTENDS Integers, Sequences, FiniteSetsExt, SequencesExt

CONSTANTS Largest, Widest, Tables, Chosen, NullValue, Fields

VARIABLES table, pending, kept, columns, done
vars == <<table, pending, kept, columns, done>>

Unknown == -1

DefaultScale == 100
EqualDefault == 10
RangeDefault == 33
LikeDefault == 25
NotNullDefault == 90
OtherDefault == 50

Saturated(count) == Min({count, Largest})
Clamp(x, low, high) == Max({low, Min({x, high})})

(* A 128-bit subtraction or addition overflows past Widest. *)
Fits(x) == x \in -Widest - 1 .. Widest

Values(part, field) == {part.rows[i][field] : i \in DOMAIN part.rows} \ {NullValue}
NonNull(part, field) == Len(SelectSeq(part.rows, LAMBDA row : row[field] /= NullValue))

NoRange == [exact |-> FALSE, ranged |-> FALSE, min |-> 0, max |-> 0, non_null |-> 0]

(* The range of a column over its parts; not exact where a part has no        *)
(* statistics.  A part of only NULLs has no value to count.                   *)
ColumnRangeOf(t, field) ==
  LET values == UNION {Values(t[p], field) : p \in DOMAIN t}
      non_null == FoldLeft(LAMBDA n, part : n + NonNull(part, field), 0, t)
  IN  IF t = <<>> \/ \E p \in DOMAIN t : ~t[p].stats[field] THEN NoRange
      ELSE [exact |-> TRUE, ranged |-> values /= {},
            min |-> IF values = {} THEN 0 ELSE Min(values),
            max |-> IF values = {} THEN 0 ELSE Max(values),
            non_null |-> Saturated(non_null)]

(* The distinct values of a column: its range capped at its non-NULL values,  *)
(* else the largest hint when every part has one.                             *)
ColumnDomain(t, field, range) ==
  LET difference == range.max - range.min
      span == IF Fits(difference) /\ Fits(difference + 1) THEN difference + 1 ELSE Widest
      hints == {t[p].hint : p \in DOMAIN t}
  IN  IF t = <<>> THEN 0
      ELSE IF range.exact
           THEN IF range.ranged THEN Saturated(Min({span, range.non_null})) ELSE 0
      ELSE IF Unknown \in hints THEN Unknown ELSE Max(hints \cup {0})

(***************************************************************************)
(* PredicateRows.                                                          *)
(***************************************************************************)
AtLeastOne(rows, count) == Clamp(Saturated(count), IF rows = 0 THEN 0 ELSE 1, rows)

(* A mutant: rounded down to no row. *)
ScaledDown(rows, numerator, denominator) ==
  IF numerator <= 0 THEN 0 ELSE (rows * numerator) \div Max({denominator, 1})

Scaled(rows, numerator, denominator) ==
  IF numerator <= 0 THEN 0
  ELSE IF ~Fits(rows * numerator) THEN rows
  ELSE AtLeastOne(rows, (rows * numerator) \div Max({denominator, 1}))

Complement(rows, matched) == AtLeastOne(rows, rows - matched)

Span(range) == range.max - range.min + 1
Ranged(range) == range.exact /\ range.ranged /\ Fits(range.max - range.min) /\ Fits(Span(range))
Outside(range, value) == Ranged(range) /\ (value < range.min \/ value > range.max)

EqualRows(rows, matching, domain) ==
  IF domain /= Unknown THEN Scaled(rows, matching, domain)
  ELSE Scaled(rows, EqualDefault, DefaultScale)

UnequalRows(rows, matching, domain) ==
  IF domain /= Unknown THEN Complement(rows, Scaled(rows, matching, domain))
  ELSE Scaled(rows, DefaultScale - EqualDefault, DefaultScale)

(* How many of the column's values a comparison admits, clamped to its range. *)
RangeRows(rows, p, range) ==
  LET constant == p.values[1]
      below == p.op \in {"<", "<="}
      admitted == IF below THEN constant - range.min ELSE range.max - constant
      inclusive == IF p.op \in {"<=", ">="} THEN admitted + 1 ELSE admitted
  IN  IF ~Ranged(range) \/ ~p.integer \/ ~Fits(admitted) \/ ~Fits(inclusive)
      THEN Scaled(rows, RangeDefault, DefaultScale)
      ELSE Scaled(rows, Clamp(inclusive, 0, Span(range)), Span(range))

PredicateRows(rows, p, range, domain) ==
  LET matching == Cardinality({i \in DOMAIN p.values :
                                 ~(p.integer /\ Outside(range, p.values[i]))})
      nonNull == Min({rows, range.non_null})
  IN  CASE p.kind = "false" -> 0
        [] p.kind = "is_not_null" ->
             IF range.exact THEN nonNull ELSE Scaled(rows, NotNullDefault, DefaultScale)
        [] p.kind = "is_null" ->
             IF range.exact THEN Complement(rows, nonNull)
             ELSE Scaled(rows, DefaultScale - NotNullDefault, DefaultScale)
        [] p.kind = "in" ->
             IF matching = 0 THEN 0 ELSE EqualRows(rows, matching, domain)
        [] p.kind = "not_in" ->
             IF matching = 0 THEN rows ELSE UnequalRows(rows, matching, domain)
        [] p.kind = "compare" ->
             (CASE p.op = "=" ->
                     IF matching = 0 THEN 0 ELSE EqualRows(rows, 1, domain)
                [] p.op = "<>" ->
                     IF matching = 0 THEN rows ELSE UnequalRows(rows, 1, domain)
                [] OTHER -> RangeRows(rows, p, range))
        [] p.kind = "like" -> Scaled(rows, LikeDefault, DefaultScale)
        [] p.kind = "not_like" -> Scaled(rows, DefaultScale - LikeDefault, DefaultScale)
        [] p.kind \in {"compare_columns", "is_true"} -> Scaled(rows, OtherDefault, DefaultScale)

(***************************************************************************)
(* FilteredRelationRows: one conjunct at a time, each column's statistics  *)
(* read once.  The binding may define no field of a conjunct, which then   *)
(* counts for nothing.                                                     *)
(***************************************************************************)
RowCount(t) == FoldLeft(LAMBDA n, part : n + Len(part.rows), 0, t)

Init ==
  /\ table \in Tables
  /\ pending \in Chosen
  /\ kept = RowCount(table)
  /\ columns = <<>>
  /\ done = {}

Reduce ==
  /\ pending /= <<>>
  /\ LET p == Head(pending)
         fresh == p.field \in Fields /\ p.field \notin DOMAIN columns
         range == ColumnRangeOf(table, p.field)
         read == IF fresh
                 THEN (p.field :> [range |-> range, domain |-> ColumnDomain(table, p.field, range)])
                        @@ columns
                 ELSE columns
     IN  /\ columns' = read
         /\ kept' = CASE p.kind = "false" -> PredicateRows(kept, p, NoRange, Unknown)
                      [] p.kind /= "false" /\ p.field \in Fields ->
                           PredicateRows(kept, p, read[p.field].range, read[p.field].domain)
                      [] OTHER -> kept
         /\ done' = done \cup {p}
  /\ pending' = Tail(pending)
  /\ UNCHANGED table

Next == Reduce
Spec == Init /\ [][Next]_vars

(***************************************************************************)
(* What the conjuncts really keep.  LIKE, a computed BOOLEAN, a comparison *)
(* of two columns or with no integer may keep any row.                     *)
(***************************************************************************)
Satisfies(value, p) ==
  CASE p.kind = "is_null" -> value = NullValue
    [] p.kind = "is_not_null" \/ (p.kind /= "is_null" /\ ~p.integer) -> value /= NullValue
    [] p.kind = "in" /\ p.integer -> value /= NullValue /\ value \in ToSet(p.values)
    [] p.kind = "not_in" /\ p.integer -> value /= NullValue /\ value \notin ToSet(p.values)
    [] p.kind = "compare" /\ p.integer ->
         /\ value /= NullValue
         /\ (CASE p.op = "=" -> value = p.values[1]
               [] p.op = "<>" -> value /= p.values[1]
               [] p.op = "<" -> value < p.values[1]
               [] p.op = "<=" -> value <= p.values[1]
               [] p.op = ">" -> value > p.values[1]
               [] p.op = ">=" -> value >= p.values[1])

Kept(row) == \A p \in done : IF p.kind = "false" THEN FALSE
                             ELSE p.field \in Fields => Satisfies(row[p.field], p)

(* The estimate is never more than the table, and it is none only where the   *)
(* footers prove that no row is left: PredicateRows rounds a selective        *)
(* conjunct down, but "never to no row at all", however many follow it.  A    *)
(* domain read from exact ranges is at least the values the column has.       *)
EstimatesSound ==
  /\ kept \in 0..RowCount(table)
  /\ kept = 0 => \A part \in ToSet(table) : \A i \in DOMAIN part.rows : ~Kept(part.rows[i])
  /\ \A f \in DOMAIN columns : columns[f].range.exact =>
       Min({Largest, Cardinality(UNION {Values(part, f) : part \in ToSet(table)})})
         <= columns[f].domain
==============================================================================
