---------------------------- MODULE SortOperator ----------------------------
(***************************************************************************)
(* ORDER BY over one input (src/exec/sort.cc, SortOperator): Open prepares *)
(* the buffer, the first Next() reads the whole input into it and sorts,   *)
(* every Next() emits a batch of the window, and Close drops it.  The      *)
(* input's batches are chosen as they are read.                            *)
(***************************************************************************)
EXTENDS SortBuffer

CONSTANTS
  Comparators, \* the sort keys of the query, and whether the first one's prefix is exact
  Values,      \* the first keys a row may have
  Ties,        \* the second keys
  Windows,     \* <<LIMIT, OFFSET>>: numbers, the first one NoValue for no LIMIT
  BatchSize,   \* ctx.batch_size
  MaxRows,     \* bound: the rows of the input
  MaxBatch     \* bound: the rows of one input batch

VARIABLES
  cmp,       \* the comparator
  limit, offset,
  state,     \* "closed", "reading", "emitting", "end" or "failed"
  buffer,    \* buffer_
  next, end, \* next_, end_
  input,     \* the rows read so far, in input order
  output     \* the rows emitted so far

vars == <<cmp, limit, offset, state, buffer, next, end, input, output>>
config == <<cmp, limit, offset>>

\* Input batches; a row's id is its place in the input.
Batches ==
  {[i \in DOMAIN keys |-> [key |-> keys[i], id |-> Len(input) + i]] :
     keys \in BoundedSeq(Values \X Ties, Min({MaxBatch, MaxRows - Len(input)}))}

Init ==
  /\ cmp \in Comparators
  /\ \E w \in Windows : limit = w[1] /\ offset = w[2]
  /\ state = "closed"
  /\ buffer = NewBuffer(NoValue)
  /\ next = 0 /\ end = 0
  /\ input = <<>> /\ output = <<>>

Open ==
  /\ state = "closed"
  /\ buffer' = NewBuffer(KeepOf(limit, offset))
  /\ next' = 0 /\ end' = 0
  /\ state' = "reading"
  /\ UNCHANGED <<config, input, output>>

\* One turn of Next()'s loop: a batch of the input is added.
Read ==
  /\ state = "reading"
  /\ \E rows \in Batches :
       /\ rows # <<>>
       /\ input' = input \o rows
       /\ buffer' = Add(cmp, buffer, rows)
  /\ UNCHANGED <<config, state, next, end, output>>

\* The input, a materialization or the reservation of the buffer's memory fails.
Fail ==
  /\ state \in {"reading", "emitting"}
  /\ state' = "failed"
  /\ UNCHANGED <<config, buffer, next, end, input, output>>

\* A batch's rows [next_, stop); an empty batch ends the output.
Emit(buf, from, to) ==
  IF from >= to
  THEN /\ state' = "end"
       /\ UNCHANGED output
       /\ next' = from
  ELSE LET stop == Min({to, SaturatingAdd(from, BatchSize)})
       IN  /\ output' = output \o Slice(buf, from, stop)
           /\ next' = stop
           /\ state' = "emitting"

\* The input ends: the rows are sorted and the window is emitted from its start.
SortAndEmit ==
  /\ state = "reading"
  /\ LET sorted == Sort(cmp, buffer)
         window == WindowOf(sorted, limit, offset)
     IN  /\ buffer' = sorted
         /\ end' = window.end
         /\ Emit(sorted, window.next, window.end)
  /\ UNCHANGED <<config, input>>

EmitNext ==
  /\ state = "emitting"
  /\ Emit(buffer, next, end)
  /\ UNCHANGED <<config, buffer, end, input>>

Close ==
  /\ state \in {"reading", "emitting", "end", "failed"}
  /\ state' = "closed"
  /\ buffer' = NewBuffer(NoValue)
  /\ input' = <<>> /\ output' = <<>>   \* what the next Open starts from
  /\ UNCHANGED <<config, next, end>>

Next == Open \/ Read \/ Fail \/ SortAndEmit \/ EmitNext \/ Close

Spec == Init /\ [][Next]_vars
-----------------------------------------------------------------------------
\* The output is exactly the LIMIT/OFFSET window of the stably sorted input, rows
\* that tie in input order, and at every point before its end a prefix of it,
\* however the buffer was compacted and filtered on the way (sort.h: "exactly the
\* single-buffer result").
WindowCorrect ==
  LET expected == ExpectedWindow(cmp, input, limit, offset)
  IN  /\ state = "emitting" => IsPrefix(output, expected)
      /\ state = "end" => output = expected

\* While it reads, a top-N holds LIMIT + OFFSET rows and as many again, or the
\* slack, whatever the input's length (sort.h: "memory stays O(keep)").
MemoryBounded ==
  /\ state = "reading"
  /\ limit # NoValue
  => NumRows(buffer) <= SaturatingAdd(buffer.keep, Max({buffer.keep, MinSlack}))

\* The rows still in the buffer always hold the first `keep` rows of everything read.
KeepsTheFirst ==
  state = "reading" =>
    LET n == IF limit = NoValue THEN Len(input) ELSE Min({Len(input), buffer.keep})
    IN  SubSeq(OrderedBy(cmp, RowsOf(buffer)), 1, n) = SubSeq(OrderedBy(cmp, input), 1, n)
=============================================================================
