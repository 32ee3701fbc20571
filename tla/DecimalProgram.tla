--------------------------- MODULE DecimalProgram ---------------------------
(***************************************************************************)
(* DECIMAL arithmetic of the Compute operator (compute.cc) on one row of a *)
(* batch.  The expressions of a node are computed in order; a tree of +,   *)
(* - and * is compiled into a program of steps and run on the row, with a  *)
(* 64-bit form of the steps whose type is narrow; any other tree is        *)
(* computed node by node; and a subtree that an earlier expression of the  *)
(* node computed is read from its column.  A file may hold a value beyond  *)
(* its column's declared width, so what each path may leave unchecked is   *)
(* the subject.                                                            *)
(*                                                                         *)
(* A DECIMAL type is its width and scale, in digits of the base Base; the  *)
(* widths 18 and 38 are SmallWidth and MaxWidth; int64 and Int128 are      *)
(* -Int64Max-1 .. Int64Max and -Int128Max-1 .. Int128Max.                  *)
(***************************************************************************)
EXTENDS Integers, Sequences

CONSTANTS Null, Base, SmallWidth, MaxWidth, Int64Max, Int128Max,
          Columns,    \* [column |-> [int, width, scale]]: an integer or a DECIMAL
          ColumnRows, \* the rows a batch may hold: [column |-> value or Null]
          Leaves,     \* the columns and constants expressions are built from
          InnerOps,   \* the operators of a tree, and of the tree above it
          OuterOps,
          StepLimits  \* the values of kMaxProgramSteps checked

VARIABLES exprs,   \* the node's expressions
          row, limit,
          done,    \* [expr, value] of the expressions computed so far
          failed   \* an expression failed the query
vars == <<exprs, row, limit, done, failed>>

Value(v) == [ok |-> TRUE, v |-> v]
Failure == [ok |-> FALSE, v |-> Null]

Greater(a, b) == IF a > b THEN a ELSE b
Lesser(a, b) == IF a < b THEN a ELSE b
InRange(n, t) == n \in (1 - Base ^ t.width)..(Base ^ t.width - 1)
Fits64(n) == n \in (-Int64Max - 1)..Int64Max
Fits128(n) == n \in (-Int128Max - 1)..Int128Max
Wrap64(n) == ((n + Int64Max + 1) % (2 * Int64Max + 2)) - Int64Max - 1

\* The type the binder gives an operation: the scales' maximum, or their sum;
\* the width capped to 18 while both operands have at most 18, else to 38.
DecimalArithType(op, a, b) ==
  LET scale == IF op = "mul" THEN a.scale + b.scale ELSE Greater(a.scale, b.scale)
      whole == Greater(a.width - a.scale, b.width - b.scale)
      width == CASE op = "mul" -> a.width + b.width
                 [] op = "mod" -> whole + scale
                 [] OTHER -> whole + scale + 1
      small == /\ a.width <= SmallWidth /\ b.width <= SmallWidth
               /\ op = "mul" => scale < SmallWidth
  IN [int |-> FALSE, scale |-> scale,
      width |-> IF op # "mod" /\ width > SmallWidth /\ small THEN SmallWidth
                ELSE Lesser(width, MaxWidth)]
RECURSIVE TypeOf(_)
TypeOf(e) == CASE e.node = "column" -> Columns[e.column]
               [] e.node = "constant" -> e.type
               [] e.node = "negate" -> TypeOf(e.operand)
               [] e.node = "arith" -> DecimalArithType(e.op, TypeOf(e.left), TypeOf(e.right))
IsDecimal(t) == ~t.int

\* An expression that this one is, among those already computed: DECIMAL only.
Reuses(e) == IsDecimal(TypeOf(e)) /\ \E i \in DOMAIN done : done[i].expr = e
Reused(e) == done[CHOOSE i \in DOMAIN done : done[i].expr = e].value

\* C++ remainder: the dividend's sign.
Remainder(x, y) ==
  LET m == (IF x < 0 THEN -x ELSE x) % (IF y < 0 THEN -y ELSE y)
  IN IF x < 0 THEN -m ELSE m
Apply(op, x, y) == CASE op = "add" -> x + y
                     [] op = "sub" -> x - y
                     [] op = "mul" -> x * y
                     [] op = "mod" -> Remainder(x, y)

-----------------------------------------------------------------------------
\* The rescale of an operand to the scale of a step: none for *.
ScaleFactor(from, to, op) ==
  IF op = "mul" \/ to.scale <= from.scale THEN 1 ELSE Base ^ (to.scale - from.scale)

\* Compile: the columns, constants and steps a tree becomes, or not ok.  A
\* column is `checked` when its values are known to be within its type: only
\* the result of an earlier arithmetic expression.
NoProgram == [ok |-> FALSE, source |-> [kind |-> "constant", at |-> 0],
              columns |-> <<>>, constants |-> <<>>, steps |-> <<>>]
AddColumn(p, v, checked) ==
  [p EXCEPT !.ok = TRUE, !.columns = Append(@, [v |-> v, checked |-> checked]),
            !.source = [kind |-> "column", at |-> Len(p.columns) + 1]]
AddConstant(p, v) ==
  [p EXCEPT !.ok = TRUE, !.constants = Append(@, v),
            !.source = [kind |-> "constant", at |-> Len(p.constants) + 1]]
AddStep(p, e, left, right) ==
  LET type == TypeOf(e)
      lf == ScaleFactor(TypeOf(e.left), type, e.op)
      rf == ScaleFactor(TypeOf(e.right), type, e.op)
      unchecked(source, factor) ==
        /\ e.op # "mul" /\ source.kind = "column" /\ factor = 1
        /\ ~p.columns[source.at].checked
      step == [op |-> e.op, type |-> type, left |-> left, right |-> right,
               lf |-> lf, rf |-> rf,
               check_left |-> unchecked(left, lf), check_right |-> unchecked(right, rf),
               narrow |-> /\ type.width <= SmallWidth
                          /\ Fits64(Base ^ type.width - 1) /\ Fits64(lf) /\ Fits64(rf)]
  IN [p EXCEPT !.ok = TRUE, !.steps = Append(@, step),
               !.source = [kind |-> "step", at |-> Len(p.steps) + 1]]
\* Only an arithmetic result was tested against its own type: a negation, say,
\* may carry a value its type does not admit.
AlwaysTrusted(e) == e.node # "column"
ResultChecked(e) == e.node = "arith"
RECURSIVE Compile(_, _)
Compile(e, p) ==
  IF Reuses(e) THEN AddColumn(p, Reused(e), ResultChecked(e))
  ELSE CASE e.node = "constant" -> AddConstant(p, e.v)
         [] e.node = "column" ->
              IF IsDecimal(TypeOf(e)) THEN AddColumn(p, row[e.column], FALSE)
              ELSE [p EXCEPT !.ok = FALSE]
         [] e.node = "arith" ->
              LET l == Compile(e.left, p)
                  r == Compile(e.right, l)
              IN IF e.op = "mod" \/ Len(p.steps) + 1 > limit \/ ~l.ok \/ ~r.ok
                    \/ Len(r.steps) + 1 > limit
                 THEN [p EXCEPT !.ok = FALSE]
                 ELSE AddStep(r, e, l.source, r.source)
         [] e.node = "negate" -> [p EXCEPT !.ok = FALSE]

\* NarrowStep: the step in 64 bits, or not ok when anything leaves them or the
\* step's range, and the 128-bit form decides.
NarrowStep(step, x, y) ==
  LET sx == x * step.lf
      sy == y * step.rf
      out == Apply(step.op, sx, sy)
  IN IF /\ step.narrow /\ Fits64(x) /\ Fits64(y) /\ Fits64(sx) /\ Fits64(sy)
        /\ step.lf # 1 \/ step.check_left => InRange(sx, step.type)
        /\ step.rf # 1 \/ step.check_right => InRange(sy, step.type)
        /\ Fits64(out) /\ InRange(out, step.type)
     THEN Value(out) ELSE Failure
WideStep(step, x, y) ==
  LET sx == x * step.lf
      sy == y * step.rf
      out == Apply(step.op, sx, sy)
  IN IF /\ step.lf # 1 => Fits128(sx) /\ InRange(sx, step.type)
        /\ step.lf = 1 /\ step.check_left => InRange(sx, step.type)
        /\ step.rf # 1 => Fits128(sy) /\ InRange(sy, step.type)
        /\ step.rf = 1 /\ step.check_right => InRange(sy, step.type)
        /\ Fits128(out) /\ InRange(out, step.type)
     THEN Value(out) ELSE Failure
RECURSIVE RunSteps(_, _)
RunSteps(p, slots) ==
  LET step == p.steps[Len(slots) + 1]
      read(s) == CASE s.kind = "column" -> p.columns[s.at].v
                   [] s.kind = "constant" -> p.constants[s.at]
                   [] s.kind = "step" -> slots[s.at]
      fast == NarrowStep(step, read(step.left), read(step.right))
      out == IF fast.ok THEN fast ELSE WideStep(step, read(step.left), read(step.right))
  IN IF ~out.ok THEN Failure
     ELSE IF Len(slots) + 1 = Len(p.steps) THEN out
     ELSE RunSteps(p, Append(slots, out.v))
\* RunDecimalProgram under ProgramValidity: no step runs for a row that has no
\* value in some column of the tree.
RunDecimalProgram(p) ==
  IF \E i \in DOMAIN p.columns : p.columns[i].v = Null THEN Value(Null)
  ELSE RunSteps(p, <<>>)

-----------------------------------------------------------------------------
\* The node-by-node path.  ReadDecimalOperand and ScalarDecimalOperand trust an
\* integer column and a constant; RescaleOperand checks what it rescales.
ReadOperand(e, v) ==
  [v |-> v, checked |-> e.node = "constant" \/ ~IsDecimal(TypeOf(e)), ok |-> TRUE]
RescaleOperand(o, from, to) ==
  LET factor == Base ^ (to.scale - from.scale)
  IN IF from.scale = to.scale THEN o
     ELSE IF o.v = Null THEN [o EXCEPT !.checked = TRUE]
     ELSE [v |-> o.v * factor, checked |-> TRUE,
           ok |-> Fits128(o.v * factor) /\ InRange(o.v * factor, to)]
DecimalArith(l, r, op, type) ==
  LET out == Apply(op, l.v, r.v)
  IN CASE l.v = Null \/ r.v = Null -> Value(Null)
       [] l.v # Null /\ r.v # Null /\ op # "mul"
            /\ \E o \in {l, r} : ~o.checked /\ ~InRange(o.v, type) -> Failure
       [] OTHER -> IF op = "mod" /\ r.v = 0 THEN Value(Null)
                   ELSE IF Fits128(out) /\ InRange(out, type) THEN Value(out) ELSE Failure

\* Evaluate(NegateExpr): the type is kept and only the physical width limits it.
Negate(v, type) ==
  CASE v = Null -> Value(Null)
    [] v # Null /\ ~Fits128(-v) -> Failure
    [] OTHER -> Value(IF type.width <= SmallWidth THEN Wrap64(-v) ELSE -v)

RECURSIVE Evaluate(_)
Evaluate(e) ==
  IF Reuses(e) THEN Value(Reused(e))
  ELSE CASE e.node = "column" -> Value(row[e.column])
         [] e.node = "constant" -> Value(e.v)
         [] e.node = "negate" ->
              LET v == Evaluate(e.operand) IN IF v.ok THEN Negate(v.v, TypeOf(e)) ELSE v
         [] e.node = "arith" ->
              LET p == Compile(e, NoProgram)
                  type == TypeOf(e)
                  operand(x) ==
                    LET v == Evaluate(x)
                        o == ReadOperand(x, v.v)
                    IN IF ~v.ok THEN [o EXCEPT !.ok = FALSE]
                       ELSE IF e.op = "mul" THEN o ELSE RescaleOperand(o, TypeOf(x), type)
                  l == operand(e.left)
                  r == operand(e.right)
              IN IF p.ok /\ p.source.kind = "step" /\ p.columns # <<>> THEN RunDecimalProgram(p)
                 ELSE IF ~l.ok \/ ~r.ok THEN Failure
                 ELSE DecimalArith(l, r, e.op, type)

-----------------------------------------------------------------------------
Arith(op, l, r) == [node |-> "arith", op |-> op, left |-> l, right |-> r]
Computed(e) == TypeOf(e).scale <= MaxWidth
IsConstant(e) == e.node = "constant"
\* Operations with a DECIMAL operand, the binder having folded those of two
\* constants; a % beyond the widest DECIMAL is a DOUBLE's.
Trees(ops, ls, rs) ==
  {t \in {Arith(op, l, r) : op \in ops, l \in ls, r \in rs} :
     /\ IsDecimal(TypeOf(t.left)) \/ IsDecimal(TypeOf(t.right))
     /\ ~(IsConstant(t.left) /\ IsConstant(t.right))
     /\ Computed(t)}
Negations == {[node |-> "negate", operand |-> l] :
                l \in {x \in Leaves : ~IsConstant(x) /\ IsDecimal(TypeOf(x))}}
Inner == Trees(InnerOps, Leaves, Leaves) \cup Negations
Outer == Trees(OuterOps, Inner, Leaves) \cup Trees(OuterOps, Leaves, Inner)
InnerOf(e) == IF e.left \in Leaves THEN e.right ELSE e.left

\* One expression, or one after its own subtree.
Init ==
  /\ exprs \in {<<e>> : e \in Inner \cup Outer} \cup {<<InnerOf(e), e>> : e \in Outer}
  /\ row \in ColumnRows
  /\ limit \in StepLimits
  /\ done = <<>>
  /\ failed = FALSE

\* ComputeBatch: the next expression, which may read the earlier ones.
Compute ==
  /\ ~failed /\ Len(done) < Len(exprs)
  /\ LET e == exprs[Len(done) + 1]
         v == Evaluate(e)
     IN /\ failed' = ~v.ok
        /\ done' = IF v.ok THEN Append(done, [expr |-> e, value |-> v.v]) ELSE done
  /\ UNCHANGED <<exprs, row, limit>>

Next == Compute
Spec == Init /\ [][Next]_vars

-----------------------------------------------------------------------------
\* What DuckDB computes: each operand of +, - and % cast to the result's type,
\* which every value must fit, and the result checked too.  A negation keeps
\* the type and fails where the type's physical width has no such value.
RECURSIVE Meaning(_)
Meaning(e) ==
  CASE e.node = "column" -> Value(row[e.column])
    [] e.node = "constant" -> Value(e.v)
    [] e.node = "negate" ->
         LET v == Meaning(e.operand)
             fits == IF TypeOf(e).width <= SmallWidth THEN Fits64(-v.v) ELSE Fits128(-v.v)
         IN IF v.v = Null THEN v ELSE IF fits THEN Value(-v.v) ELSE Failure
    [] e.node = "arith" ->
         LET type == TypeOf(e)
             cast(x) == LET m == Meaning(x)
                            n == m.v * Base ^ (type.scale - TypeOf(x).scale)
                        IN IF ~m.ok \/ m.v = Null \/ e.op = "mul" THEN m
                           ELSE IF InRange(n, type) THEN Value(n) ELSE Failure
             l == cast(e.left)
             r == cast(e.right)
         IN CASE ~l.ok \/ ~r.ok -> Failure
              [] l.ok /\ r.ok /\ (l.v = Null \/ r.v = Null) -> Value(Null)
              [] OTHER -> IF e.op = "mod" /\ r.v = 0 THEN Value(Null)
                          ELSE IF InRange(Apply(e.op, l.v, r.v), type)
                          THEN Value(Apply(e.op, l.v, r.v)) ELSE Failure
RECURSIVE Reads(_)
Reads(e) == CASE e.node = "column" -> {e.column}
              [] e.node = "constant" -> {}
              [] e.node = "negate" -> Reads(e.operand)
              [] e.node = "arith" -> Reads(e.left) \cup Reads(e.right)

\* A negation of a narrow column that holds the 64-bit minimum.
RECURSIVE NegatesTheMinimum(_)
NegatesTheMinimum(e) ==
  CASE e.node \in {"column", "constant"} -> FALSE
    [] e.node = "negate" ->
         /\ TypeOf(e).width <= SmallWidth
         /\ e.operand.node = "column" /\ row[e.operand.column] = -Int64Max - 1
    [] e.node = "arith" -> NegatesTheMinimum(e.left) \/ NegatesTheMinimum(e.right)

\* Evaluator: every answer is DuckDB's, and a query fails only where DuckDB's
\* does, whichever of the program, its 64-bit steps, the node-by-node path and
\* the reuse of an earlier expression computed it, values beyond a column's
\* declared width included.  Only a row with a NULL operand may be answered,
\* with NULL, where another operand's part would have failed.  The one value
\* left out is what NegationKeepsValue is about.
DecimalsExact ==
  /\ \A i \in DOMAIN done :
       LET m == Meaning(exprs[i])
       IN \/ NegatesTheMinimum(exprs[i])
          \/ m = Value(done[i].value)
          \/ done[i].value = Null /\ \E c \in Reads(exprs[i]) : row[c] = Null
  /\ failed => \/ NegatesTheMinimum(exprs[Len(done) + 1])
              \/ ~Meaning(exprs[Len(done) + 1]).ok

\* DecimalColumnBuilder ("a narrow column stores the low 64 bits, which is the
\* whole value, because every caller has already range-checked it"): the
\* column a negation builds holds the whole value of every row.
NegationKeepsValue ==
  \A i \in DOMAIN done :
    (exprs[i].node = "negate" /\ done[i].value # Null) =>
      done[i].value = -row[exprs[i].operand.column]
=============================================================================
