---------------------------- MODULE SetOperation ----------------------------
(***************************************************************************)
(* SetOperationOperator (src/exec/set_operation.cc), with the formula the  *)
(* binder gives it (src/plan/binder.cc, Region) and what the planner reads *)
(* from that formula (src/plan/logical_plan.cc).  One table of groups      *)
(* holds the distinct rows; only the starters insert groups, every other   *)
(* input looks its rows up; an input keeps a presence bit or a count per   *)
(* group; the formula then gives each group its copies.  Inputs are opened *)
(* one after another, and an input, the table or the budget may fail at    *)
(* any step.  A row is a key and the form it was written in (-0.0 and 0.0  *)
(* are one key in two forms); a batch of an input is one row.              *)
(***************************************************************************)
EXTENDS SetFormula

CONSTANTS
  Rows,             \* the rows an input may give: [key, form]
  NormalForm,       \* the form of a normalized key
  MaxInputs,        \* the most inputs of one operation
  MaxRows,          \* the most rows of one input
  MaxAllRows,       \* the most rows of all the inputs together
  ChunkRows,        \* GroupTable::NextChunk, in groups
  MaxRepeatedRows,  \* SetOperationOperator::kMaxRepeatedRows
  NoTable           \* table_ == nullptr

VARIABLES
  tree,        \* the compound as written: what the formula is made from
  formula,     \* formula_
  opened,      \* opened_
  built,       \* built_
  call,        \* where the consumer's call is: "none", "build" or "emit"
  result,      \* what the last call returned: "ok", "end" or "error"
  openInput,   \* open_input_
  inputOpen,   \* input_open_
  inputs,      \* per input: "open" or "closed", as its own Open and Close leave it
  table,       \* the groups in the order they were inserted, each as first seen
  member,      \* per input, per group: a presence bit or a count (bits_, counts_)
  copies,      \* copies_
  nextGroup,   \* next_group_
  pending,     \* pending_copies_
  batch,       \* the rows taken for the batch NextRepeated is making
  read,        \* per input: the rows it gave since Open
  emitted      \* the rows Next returned since Open

vars == <<tree, formula, opened, built, call, result, openInput, inputOpen, inputs, table,
          member, copies, nextGroup, pending, batch, read, emitted>>

\* A compound over the inputs lo .. hi, in written order: one of them, or a run of
\* one operator (sql::SetTree; UNION ALL stays outside, as an input).  A run takes in a left
\* operand of its own kind, and a UNION any operand.
RECURSIVE TreesOf(_, _), Splits(_, _)
Splits(lo, hi) ==
  {<<t>> : t \in TreesOf(lo, hi)} \cup
  UNION {{<<t>> \o rest : t \in TreesOf(lo, m), rest \in Splits(m + 1, hi)} : m \in lo .. hi - 1}
TreesOf(lo, hi) ==
  IF lo = hi
    THEN {[kind |-> "input", input |-> lo, operands |-> <<>>]}
    ELSE LET operands == UNION {{<<t>> \o rest : t \in TreesOf(lo, m), rest \in Splits(m + 1, hi)} :
                                  m \in lo .. hi - 1}
             Taken(op, ts) == IF op = "union" THEN ts ELSE <<Head(ts)>> IN
         UNION {{[kind |-> op, input |-> 0, operands |-> ts] :
                   ts \in {os \in operands : \A t \in ToSet(Taken(op, os)) : t.kind # op}} :
                  op \in Operators}

\* The compounds of two to MaxInputs inputs.
Compounds == UNION {TreesOf(0, n - 1) : n \in 2 .. MaxInputs}

-----------------------------------------------------------------------------
\* The copies of group g: the formula over its memberships.
CopiesOf(g) == Evaluated(formula, [k \in DOMAIN member |-> member[k][g]])

\* The rows the join order counts on (join_order.cc), from the rows of each input,
\* Unknown where a table cannot say.
Unknown == -1

EstimateRows(f, rows) ==
  LET Estimate(kind, ests) ==
        LET known == SelectSeq(ests, LAMBDA e : e # Unknown) IN
        CASE kind = "union" -> IF Len(known) = Len(ests)
                                 THEN FoldLeft(LAMBDA a, b : a + b, 0, ests) ELSE Unknown
          [] kind \in {"intersect", "intersectAll"} ->
               IF known = <<>> THEN Unknown ELSE Min(ToSet(known))
          [] kind \in {"except", "exceptAll"} -> ests[1]
      Walk(stack, term) ==
        Step(stack, term, IF term.kind = "input" THEN rows[term.input] ELSE 0, Estimate) IN
  FoldLeft(Walk, <<>>, f)[1]

Inputs == {formula[i].input : i \in {j \in DOMAIN formula : formula[j].kind = "input"}}
Starters == SetStarters(formula)
Counted == SetCounted(formula)
LastInput == Max(Inputs)

-----------------------------------------------------------------------------
Init ==
  /\ tree \in Compounds
  /\ formula = Region(tree)
  /\ opened = FALSE
  /\ built = FALSE
  /\ call = "none"
  /\ result = "ok"
  /\ openInput = 0
  /\ inputOpen = FALSE
  /\ inputs = [k \in Inputs |-> "closed"]
  /\ table = NoTable
  /\ member = [k \in Inputs |-> <<>>]
  /\ copies = <<>>
  /\ nextGroup = 1
  /\ pending = 0
  /\ batch = <<>>
  /\ read = [k \in Inputs |-> <<>>]
  /\ emitted = <<>>

\* Close forgets the input that is open.
ResetMutant ==
  /\ inputOpen' = FALSE
  /\ inputs' = inputs
  /\ member' = [k \in Inputs |-> <<>>]
  /\ copies' = <<>>
  /\ built' = FALSE
  /\ nextGroup' = 1
  /\ pending' = 0
  /\ batch' = <<>>
  /\ UNCHANGED <<tree, formula, call, openInput>>

\* What Close does, but for opened_: the input that is open is closed (its own
\* status is returned and changes nothing else), everything is given back.
Reset ==
  /\ inputOpen' = FALSE
  /\ inputs' = IF inputOpen THEN [inputs EXCEPT ![openInput] = "closed"] ELSE inputs
  /\ member' = [k \in Inputs |-> <<>>]
  /\ copies' = <<>>
  /\ built' = FALSE
  /\ nextGroup' = 1
  /\ pending' = 0
  /\ batch' = <<>>
  /\ UNCHANGED <<tree, formula, call, openInput>>

\* Open: Close, then a new table; the inputs are opened by the first Next.
Open ==
  /\ call = "none"
  /\ Reset
  /\ opened' = TRUE
  /\ table' = <<>>
  /\ result' = "ok"
  /\ read' = [k \in Inputs |-> <<>>]
  /\ emitted' = <<>>

\* Open fails: the input left open fails to close, or the table cannot be made.
OpenFails ==
  /\ call = "none"
  /\ Reset
  /\ opened' = FALSE
  /\ table' = NoTable
  /\ result' = "error"
  /\ read' = [k \in Inputs |-> <<>>]
  /\ emitted' = <<>>

Close ==
  /\ call = "none"
  /\ opened
  /\ Reset
  /\ opened' = FALSE
  /\ table' = NoTable
  /\ read' = [k \in Inputs |-> <<>>]
  /\ emitted' = <<>>
  /\ UNCHANGED result

\* The consumer asks for the next batch; it never does after a failure (Drain closes).
CallNext ==
  /\ call = "none"
  /\ opened
  /\ result # "error"
  /\ call' = IF built THEN "emit" ELSE "build"
  /\ openInput' = IF built THEN openInput ELSE 0
  /\ UNCHANGED <<tree, formula, opened, built, result, inputOpen, inputs, table, member, copies,
                 nextGroup, pending, batch, read, emitted>>

-----------------------------------------------------------------------------
(* Build. *)

\* The call ends with an error.
Fail ==
  /\ call' = "none"
  /\ result' = "error"
  /\ UNCHANGED <<tree, formula, opened, built, openInput, copies, nextGroup, pending, batch, read,
                 emitted>>

\* Mutant: the memberships of inputs already read do not grow.
GrowMutant(groups) ==
  [k \in Inputs |-> IF k < openInput THEN member[k] ELSE
     [g \in 1 .. groups |-> IF g <= Len(member[k]) THEN member[k][g] ELSE 0]]

\* Every membership grows to the table's groups.
Grow(groups) ==
  [k \in Inputs |-> [g \in 1 .. groups |-> IF g <= Len(member[k]) THEN member[k][g] ELSE 0]]

\* The group of a row in a table: 0 where it has none.
GroupIn(groups, r) ==
  LET found == {g \in DOMAIN groups : groups[g].key = r.key} IN
  IF found = {} THEN 0 ELSE Min(found)

\* GroupTable::Consume: a new key inserts a group, kept as first seen.
Consume(r) == IF GroupIn(table, r) = 0 THEN Append(table, r) ELSE table

\* Input k's membership of group g once a row of it is found there.
Marked(members, k, g) ==
  [members EXCEPT ![k][g] = IF k \in Counted THEN @ + 1 ELSE 1]

InBuild == call = "build"

\* The input that is open may give one more row, within the bounds.
GivesRow ==
  /\ Len(read[openInput]) < MaxRows
  /\ MapThenSumSet(LAMBDA k : Len(read[k]), Inputs) < MaxAllRows

\* The next input is opened: marked open first, so that Close closes it even if its
\* Open fails.
OpenInput ==
  /\ InBuild
  /\ ~inputOpen
  /\ openInput \in Inputs
  /\ inputOpen' = TRUE
  /\ inputs' = [inputs EXCEPT ![openInput] = "open"]
  /\ \/ UNCHANGED <<tree, formula, opened, built, call, result, openInput, table, member, copies,
                    nextGroup, pending, batch, read, emitted>>
     \/ Fail /\ UNCHANGED <<table, member>>

\* A row of a starter: its group, and the memberships grown to it.
StarterRow(r) ==
  /\ InBuild /\ inputOpen
  /\ openInput \in Starters
  /\ GivesRow
  /\ table' = Consume(r)
  /\ \/ /\ member' = Marked(Grow(Len(table')), openInput, GroupIn(table', r))
        /\ read' = [read EXCEPT ![openInput] = Append(@, r)]
        /\ UNCHANGED <<tree, formula, opened, built, call, result, openInput, inputOpen, inputs,
                       copies, nextGroup, pending, batch, emitted>>
     \* the budget refuses what Grow would hold
     \/ Fail /\ UNCHANGED <<inputOpen, inputs, member>>

\* A row of another input: looked up, never inserted.
LookupRow(r) ==
  /\ InBuild /\ inputOpen
  /\ openInput \notin Starters
  /\ GivesRow
  /\ member' = IF GroupIn(table, r) = 0 THEN member
               ELSE Marked(member, openInput, GroupIn(table, r))
  /\ read' = [read EXCEPT ![openInput] = Append(@, r)]
  /\ UNCHANGED <<tree, formula, opened, built, call, result, openInput, inputOpen, inputs, table,
                 copies, nextGroup, pending, batch, emitted>>

\* The input's Next fails, or Consume, or Lookup.
InputFails ==
  /\ InBuild /\ inputOpen
  /\ Fail
  /\ UNCHANGED <<inputOpen, inputs, table, member>>

\* The end of an input: closed before the next one opens; its Close may fail.
InputEnds ==
  /\ InBuild /\ inputOpen
  /\ inputOpen' = FALSE
  /\ inputs' = [inputs EXCEPT ![openInput] = "closed"]
  /\ \/ /\ openInput' = openInput + 1
        /\ UNCHANGED <<tree, formula, opened, built, call, result, table, member, copies,
                       nextGroup, pending, batch, read, emitted>>
     \/ Fail /\ UNCHANGED <<table, member>>

\* After the last input: each group's copies; the memberships are given back.
Evaluate ==
  /\ InBuild
  /\ ~inputOpen
  /\ openInput = LastInput + 1
  /\ copies' = [g \in DOMAIN table |-> CopiesOf(g)]
  /\ member' = [k \in Inputs |-> <<>>]
  /\ built' = TRUE
  /\ call' = "emit"
  /\ UNCHANGED <<tree, formula, opened, result, openInput, inputOpen, inputs, table, nextGroup,
                 pending, batch, read, emitted>>

\* The budget refuses the copies.
EvaluateFails ==
  /\ InBuild
  /\ ~inputOpen
  /\ openInput = LastInput + 1
  /\ Fail
  /\ UNCHANGED <<inputOpen, inputs, table, member>>

-----------------------------------------------------------------------------
(* The output. *)

Return(r) ==
  /\ call' = "none"
  /\ result' = r
  /\ UNCHANGED <<tree, formula, opened, built, openInput, inputOpen, inputs, member, copies, read>>

\* The stream is over: the table is given back, and a later Next finds none.
EmitEnd ==
  /\ call = "emit"
  /\ table # NoTable => nextGroup > Len(table) /\ batch = <<>>
  /\ table' = NoTable
  /\ Return("end")
  /\ UNCHANGED <<nextGroup, pending, batch, emitted>>

\* NextDistinct: the next chunk of groups, with a selection of those that are kept;
\* a chunk of which none is kept is passed over.
EmitChunk ==
  /\ call = "emit"
  /\ table # NoTable
  /\ ~AllRoot(formula)
  /\ nextGroup <= Len(table)
  /\ LET last == Min({nextGroup + ChunkRows - 1, Len(table)})
         kept == SelectSeq([i \in 1 .. last - nextGroup + 1 |-> nextGroup + i - 1],
                           LAMBDA g : copies[g] > 0) IN
     /\ nextGroup' = last + 1
     /\ emitted' = emitted \o [i \in DOMAIN kept |-> table[kept[i]]]
     /\ IF kept = <<>>
          THEN UNCHANGED <<tree, formula, opened, built, call, result, openInput, inputOpen,
                           inputs, member, copies, read>>
          ELSE Return("ok")
  /\ UNCHANGED <<table, pending, batch>>

Normalized(r) == [r EXCEPT !.form = NormalForm]

\* NextRepeated, one turn of its loop: the copies of the next group, as many as the
\* batch has room for; a group with more of them goes on in the next batch.
RepeatGroup ==
  /\ call = "emit"
  /\ table # NoTable
  /\ AllRoot(formula)
  /\ nextGroup <= Len(table)
  /\ Len(batch) < MaxRepeatedRows
  /\ LET wanted == IF pending = 0 THEN copies[nextGroup] ELSE pending
         take   == Min({wanted, MaxRepeatedRows - Len(batch)}) IN
     /\ batch' = batch \o [i \in 1 .. take |-> Normalized(table[nextGroup])]
     /\ pending' = wanted - take
     /\ nextGroup' = IF wanted = take THEN nextGroup + 1 ELSE nextGroup
  /\ UNCHANGED <<tree, formula, opened, built, call, result, openInput, inputOpen, inputs, table,
                 member, copies, read, emitted>>

\* The batch is full, or the groups are over.
EmitRepeated ==
  /\ call = "emit"
  /\ table # NoTable
  /\ AllRoot(formula)
  /\ batch # <<>>
  /\ nextGroup > Len(table) \/ Len(batch) = MaxRepeatedRows
  /\ emitted' = emitted \o batch
  /\ batch' = <<>>
  /\ Return("ok")
  /\ UNCHANGED <<table, nextGroup, pending>>

Next ==
  \/ Open \/ OpenFails \/ Close \/ CallNext
  \/ OpenInput \/ InputFails \/ InputEnds \/ Evaluate \/ EvaluateFails
  \/ \E r \in Rows : StarterRow(r) \/ LookupRow(r)
  \/ EmitEnd \/ EmitChunk \/ RepeatGroup \/ EmitRepeated

Spec == Init /\ [][Next]_vars

-----------------------------------------------------------------------------
(* What it promises. *)

\* The bag algebra of SQL on the compound as written, one binary operation after
\* another: how often a key comes out of node t over the rows the inputs gave.
RECURSIVE Multiplicity(_, _)
Multiplicity(t, key) ==
  LET Least(a, b) == IF a < b THEN a ELSE b
      RECURSIVE Upto(_)
      Upto(n) ==
        LET m == Multiplicity(t.operands[n], key)
            before == Upto(n - 1)
        IN  IF n = 1 THEN (IF t.kind \in {"intersectAll", "exceptAll"} THEN m ELSE Least(m, 1))
            ELSE CASE t.kind = "union"        -> Least(before + m, 1)
                   [] t.kind = "intersect"    -> Least(before, Least(m, 1))
                   [] t.kind = "except"       -> IF m > 0 THEN 0 ELSE before
                   [] t.kind = "intersectAll" -> Least(before, m)
                   [] t.kind = "exceptAll"    -> before - Least(before, m) IN
  IF t.kind = "input"
    THEN Len(SelectSeq(read[t.input], LAMBDA r : r.key = key))
    ELSE Upto(Len(t.operands))

\* The rows in the order they come out: each key where the inputs that can make a
\* result row first gave it, once and as written there under a DISTINCT root, as often
\* as the algebra says and normalized under an ALL root.
ExpectedRows ==
  LET given == FlattenSeq([i \in 1 .. LastInput + 1 |->
                             IF i - 1 \in MarkStarters(tree) THEN read[i - 1] ELSE <<>>])
      firsts == SelectSeq([i \in DOMAIN given |-> i],
                          LAMBDA i : \A j \in 1 .. i - 1 : given[j].key # given[i].key)
      Shown(r) == IF AllRoot(formula) THEN Normalized(r) ELSE r IN
  FlattenSeq([i \in DOMAIN firsts |->
                [c \in 1 .. Multiplicity(tree, given[firsts[i]].key) |-> Shown(given[firsts[i]])]])

\* The rows Next has returned are those of SQL's bag algebra on the compound, whatever
\* inputs were only looked up (a row read before its group exists leaves no trace) and
\* whichever kept a bit for a count; the end of the stream comes after the last of them.
RowsExact ==
  built =>
    LET expected == ExpectedRows
    IN  IsPrefix(emitted, expected) /\ (result = "end" => emitted = expected)

\* Marking a group writes within its input's membership: between two rows every
\* membership covers every group of the table (Build writes through a raw pointer).
MembershipsCover ==
  InBuild => \A k \in Inputs : Len(member[k]) = Len(table)

\* One input's resources at a time, and none once the operator is closed: every input
\* that was opened, or failed to open, is closed before the next one and by Close.
InputsClosed ==
  /\ \A j, k \in Inputs : inputs[j] = "open" /\ inputs[k] = "open" => j = k
  /\ ~opened => \A k \in Inputs : inputs[k] = "closed"

\* EstimateRows never says fewer rows than come out, whichever inputs have no estimate
\* (asked when the rows have just been read).
EstimateCovers ==
  built /\ emitted = <<>> =>
    LET expected == Len(ExpectedRows)
    IN  \A known \in SUBSET Inputs :
          LET estimate == EstimateRows(formula, [k \in Inputs |->
                                         IF k \in known THEN Len(read[k]) ELSE Unknown]) IN
          estimate # Unknown => expected <= estimate
=============================================================================
