------------------------------ MODULE PartTopN ------------------------------
(***************************************************************************)
(* ORDER BY .. LIMIT over the parts of a table (src/exec/part_operators.cc,*)
(* PartTopNOperator): a task per part keeps the part's first rows, Next()  *)
(* merges the parts' buffers in part order, and the rows merged so far     *)
(* publish a bound that lets a task skip a part by its statistics.  A task *)
(* reads the bound when it starts, Next() writes it after every merge: the *)
(* two race.  The parts' tasks are scheduled as PartScheduler promises: up *)
(* to Window of them at a time, run again after an OutOfMemory, results in *)
(* part order.                                                             *)
(***************************************************************************)
EXTENDS SortBuffer

CONSTANTS
  Comparators,  \* the sort keys of the query
  Windows,      \* <<LIMIT, OFFSET>>
  PartRows,     \* the rows a part may hold: sequences of keys
  NumParts,
  Window        \* the parts that may be out at once

VARIABLES
  cmp, limit, offset,
  data,    \* the rows of each part, in file order
  stats,   \* the parts that have statistics of the first key
  task,    \* each part's task: "idle", "scanning" or "done"
  result,  \* each finished part's sorted buffer
  bound,   \* Bound::value
  merged,  \* merged_
  taken,   \* the parts merged so far
  output   \* the window emitted, NoValue before the end

vars == <<cmp, limit, offset, data, stats, task, result, bound, merged, taken, output>>
config == <<cmp, limit, offset, data, stats>>

Parts == 0 .. NumParts - 1

Keep == KeepOf(limit, offset)

\* A row's id is its row id in the code: the part's ordinal and the row's offset.
WithIds(part, keys) == [i \in DOMAIN keys |-> [key |-> keys[i], id |-> <<part, i>>]]

-----------------------------------------------------------------------------
(* Part statistics *)

ValuesOf(part) == {data[part][i].key[1] : i \in DOMAIN data[part]} \ {Null}

\* plan::PartStats of the first key: no min and max where every value is NULL.
PartStats(part) ==
  [null_count |-> Cardinality({i \in DOMAIN data[part] : data[part][i].key[1] = Null}),
   min |-> IF ValuesOf(part) = {} THEN NoValue ELSE Min(ValuesOf(part)),
   max |-> IF ValuesOf(part) = {} THEN NoValue ELSE Max(ValuesOf(part))]

\* Mutant: a part has to be strictly better on the first key.
PartMayBeatMutant(st, key, worst) ==
  \/ key.nulls_first /\ st.null_count > 0
  \/ /\ st.min # NoValue
     /\ IF key.descending THEN st.max > worst ELSE st.min < worst

\* Whether a part with these statistics may hold a row before one with that bound.
PartMayBeat(st, key, worst) ==
  \/ key.nulls_first /\ st.null_count > 0
  \/ /\ st.min # NoValue
     /\ IF key.descending THEN st.max >= worst ELSE st.min <= worst

-----------------------------------------------------------------------------
Init ==
  /\ cmp \in Comparators
  /\ \E w \in Windows : limit = w[1] /\ offset = w[2]
  /\ \E keys \in [Parts -> PartRows] : data = [p \in Parts |-> WithIds(p, keys[p])]
  /\ stats \in {Parts, Parts \ {NumParts - 1}}
  /\ task = [p \in Parts |-> "idle"]
  /\ result = [p \in Parts |-> NewBuffer(NoValue)]
  /\ bound = NoValue
  /\ merged = NewBuffer(Keep)
  /\ taken = 0
  /\ output = NoValue

\* The buffer of a skipped part, which merges as nothing.
EmptyRows == NewBuffer(Keep)

\* A task starts: it reads the bound and either skips the part or begins to scan it.
Start(part) ==
  /\ task[part] = "idle"
  /\ part \in taken .. taken + Window - 1
  /\ IF part \in stats /\ bound # NoValue /\ ~PartMayBeat(PartStats(part), cmp.keys[1], bound)
     THEN /\ task' = [task EXCEPT ![part] = "done"]
          /\ result' = [result EXCEPT ![part] = EmptyRows]
     ELSE /\ task' = [task EXCEPT ![part] = "scanning"]
          /\ UNCHANGED result
  /\ UNCHANGED <<config, bound, merged, taken, output>>

\* The scan ends: the part's first `keep` rows, sorted.
Finish(part) ==
  /\ task[part] = "scanning"
  /\ task' = [task EXCEPT ![part] = "done"]
  /\ result' = [result EXCEPT
                  ![part] = Sort(cmp, Add(cmp, NewBuffer(Keep), data[part]))]
  /\ UNCHANGED <<config, bound, merged, taken, output>>

\* The task runs out of memory and PartScheduler runs the part again.
RunOutOfMemory(part) ==
  /\ task[part] = "scanning"
  /\ task' = [task EXCEPT ![part] = "idle"]
  /\ UNCHANGED <<config, result, bound, merged, taken, output>>

\* Next() merges the next part, and publishes the key of its last kept row.
MergeNext ==
  /\ taken < NumParts
  /\ task[taken] = "done"
  /\ merged' = Tighten(cmp, Merge(cmp, merged, result[taken]))
  /\ bound' = ThresholdKey(merged')
  /\ taken' = taken + 1
  /\ UNCHANGED <<config, task, result, output>>

-----------------------------------------------------------------------------
(* Late materialization: the late columns of the window's rows are read    *)
(* from their parts, the rows of one part at a time, and put back in the   *)
(* window's order.  A row's late value here is its id.                     *)

\* The window's parts, in order of their first row there.
Ordinals(window) == FoldLeft(LAMBDA seen, row :
                               IF Contains(seen, row.id[1]) THEN seen ELSE Append(seen, row.id[1]),
                             <<>>, window)

\* The window positions of a part's rows, ascending.
Members(window, part) == SelectSeq([r \in DOMAIN window |-> r],
                                   LAMBDA r : window[r].id[1] = part)

\* The pieces, part after part, and where each window row lands in them.
Fetch(window) ==
  LET parts == Ordinals(window)
      order == FlattenSeq([n \in DOMAIN parts |-> Members(window, parts[n])])
      joined == FlattenSeq([n \in DOMAIN parts |->
                   [m \in DOMAIN Members(window, parts[n]) |->
                      <<parts[n], window[Members(window, parts[n])[m]].id[2]>>]])
      place(r) == CHOOSE p \in DOMAIN order : order[p] = r
  IN  [r \in DOMAIN window |-> [key |-> window[r].key, late |-> joined[place(r)]]]

\* Every part is merged: the window is sorted, cut out and completed.
EmitWindow ==
  /\ taken = NumParts
  /\ output = NoValue
  /\ LET sorted == Sort(cmp, merged)
         window == WindowOf(sorted, limit, offset)
     IN  /\ merged' = sorted
         /\ output' = Fetch(Slice(sorted, window.next, window.end))
  /\ UNCHANGED <<config, task, result, bound, taken>>

Next ==
  \/ \E part \in Parts : Start(part) \/ Finish(part) \/ RunOutOfMemory(part)
  \/ MergeNext
  \/ EmitWindow

Spec == Init /\ [][Next]_vars
-----------------------------------------------------------------------------
\* All the rows, parts in part order.
AllRows == FlattenSeq([n \in 1 .. NumParts |-> data[n - 1]])

\* The window is the one a single sort of all the rows gives, ties in part order and
\* file order, with every row's own late columns, whichever parts the racing bound let
\* the tasks skip (part_operators.h: "for any number of threads").
SameAsSerial ==
  output # NoValue =>
    output = [r \in DOMAIN ExpectedWindow(cmp, AllRows, limit, offset) |->
                [key |-> ExpectedWindow(cmp, AllRows, limit, offset)[r].key,
                 late |-> ExpectedWindow(cmp, AllRows, limit, offset)[r].id]]

\* A part a task skipped holds no row of the final window: a bound that was stale when
\* the task used it was never too tight.
SkipsNothingWanted ==
  \A part \in Parts :
    task[part] = "done" /\ result[part].chunks = <<>> =>
      \A r \in DOMAIN ExpectedWindow(cmp, AllRows, limit, offset) :
        ExpectedWindow(cmp, AllRows, limit, offset)[r].id[1] # part

\* A part the bound rules out is ruled out by the next one.
BoundTightens ==
  \A part \in stats :
    /\ bound # NoValue
    /\ ~PartMayBeat(PartStats(part), cmp.keys[1], bound)
    => bound' # NoValue /\ ~PartMayBeat(PartStats(part), cmp.keys[1], bound')
=============================================================================
