------------------------------ MODULE QueryRun ------------------------------
(***************************************************************************)
(* A session running queries one after another: Session::Execute           *)
(* (src/engine/session.cc) drains (src/exec/operator.cc) a tree of         *)
(* SharedBuilds, Limit and UnionAll (src/exec/shared_builds.cc, limit.cc,  *)
(* union_all.cc).  An input of UNION ALL is a base table or a scan of the  *)
(* shared result, a MaterializedTable (materialized_table.cc) the build    *)
(* fills first.  Every call of an input's Open, Next and Close may fail,   *)
(* and so may the reservation of memory.  A batch is a sequence of         *)
(* [row, in]: a row and whether it is selected; a row takes a byte.        *)
(***************************************************************************)
EXTENDS Integers, SequencesExt, FiniteSets

CONSTANTS
  Queries,      \* [inputs, limit, offset, build]: build is the batches of the shared sub-plan
  BaseBatches,  \* the batches of a base table
  BatchSize,    \* ExecContext::batch_size
  MaxBytes,     \* MaterializedTable::kMaxBytes
  MaxQueries,   \* bound: queries of the session
  NoLimit,      \* a query without LIMIT
  NoQuery       \* between queries

VARIABLES
  query,       \* the query being executed
  executed,    \* how many have returned
  at,          \* where Execute is
  status,      \* the status it carries
  held,        \* MaterializedTable::batches_
  filled,      \* filled_
  reserved,    \* memory_.bytes(), all of the session's budget that is used
  reading,     \* what the open input has left to return
  live,        \* the inputs, and 0 for the build, whose Open was called and Close was not
  current,     \* UnionAllOperator::current_, from 1
  input_open,  \* input_open_
  skipped,     \* LimitOperator::skipped_
  emitted,     \* emitted_
  pulled       \* the rows PullAll has

tableVars == <<held, filled, reserved>>
unionVars == <<current, input_open>>
limitVars == <<skipped, emitted>>
vars ==
  <<query, executed, at, status, tableVars, reading, live, unionVars, limitVars, pulled>>

-----------------------------------------------------------------------------
(* Batches. *)

Materialize(batch) ==
  LET kept == SelectSeq(batch, LAMBDA r : r.in) IN [k \in DOMAIN kept |-> kept[k].row]

Unselected(rows) == [k \in DOMAIN rows |-> [row |-> rows[k], in |-> TRUE]]

\* The last row one too early where rows before it are not selected.
WindowMutant(in, skip, take) ==
  LET picked == {k \in DOMAIN in : in[k].in}
      Nth(n) == CHOOSE k \in picked : Cardinality({j \in picked : j <= k}) = n IN
  SubSeq(in, Nth(skip + 1), Nth(skip + 1) + take - 1)

\* The selected rows skip + 1 .. skip + take of a batch, in the smallest range of its rows.
Window(in, skip, take) ==
  LET picked == {k \in DOMAIN in : in[k].in}
      Nth(n) == CHOOSE k \in picked : Cardinality({j \in picked : j <= k}) = n IN
  SubSeq(in, Nth(skip + 1), Nth(skip + take))

\* A scan of the filled table: its batches cut to the batch size.
DoScan ==
  LET Slices(rows) ==
        [k \in 1 .. (Len(rows) + BatchSize - 1) \div BatchSize |->
           Unselected(SubSeq(rows, (k - 1) * BatchSize + 1,
                             IF k * BatchSize < Len(rows) THEN k * BatchSize ELSE Len(rows)))] IN
  FlattenSeq([k \in DOMAIN held |-> Slices(held[k])])

-----------------------------------------------------------------------------
(* MaterializedTable. *)

TableReset == held' = <<>> /\ filled' = FALSE /\ reserved' = 0
TableRelease == held' = <<>> /\ filled' = FALSE /\ reserved' = 0

\* Refused past the cap or by the budget, the table left as it was.
TableAppend(rows) ==
  LET bytes == reserved + Len(rows) IN
  \/ /\ bytes <= MaxBytes
     /\ held' = Append(held, rows) /\ reserved' = bytes
     /\ UNCHANGED status
  \/ /\ status' = "failed"
     /\ UNCHANGED <<held, reserved>>

-----------------------------------------------------------------------------
Init ==
  /\ query = NoQuery
  /\ executed = 0
  /\ at = "idle"
  /\ status = "ok"
  /\ held = <<>> /\ filled = FALSE /\ reserved = 0
  /\ reading = <<>> /\ live = {}
  /\ current = 1 /\ input_open = FALSE
  /\ skipped = 0 /\ emitted = 0
  /\ pulled = <<>>

Shares(q) == \E k \in DOMAIN q.inputs : q.inputs[k] = "shared"

\* Execute builds the operators anew and Drain opens the root.
Execute ==
  /\ at = "idle" /\ executed < MaxQueries
  /\ query' \in Queries
  /\ at' = IF Shares(query') THEN "build" ELSE "open"
  /\ status' = "ok" /\ pulled' = <<>>
  /\ UNCHANGED <<executed, tableVars, reading, live, unionVars, limitVars>>

\* SharedBuildsOperator::Open: the table emptied and the build opened.  Drain does not
\* close a root whose Open failed.
BuildOpen ==
  /\ at = "build"
  /\ TableReset
  /\ live' = live \cup {0}
  /\ \/ at' = "filling" /\ reading' = query.build /\ UNCHANGED status
     \/ at' = "unopened" /\ status' = "failed" /\ UNCHANGED reading
  /\ UNCHANGED <<query, executed, unionVars, limitVars, pulled>>

\* One batch of the build appended, as the rows selected in it; an empty one is left out.
BuildNext ==
  /\ at = "filling" /\ reading # <<>>
  /\ reading' = Tail(reading)
  /\ LET rows == Materialize(Head(reading)) IN
     \/ rows # <<>> /\ TableAppend(rows)
     \/ rows = <<>> /\ UNCHANGED <<status, held, reserved>>
  /\ at' = IF status' = "ok" THEN "filling" ELSE "filled"
  /\ UNCHANGED <<query, executed, filled, live, unionVars, limitVars, pulled>>

\* The build ends, or its Next fails.
BuildEnds ==
  /\ at = "filling"
  /\ at' = "filled"
  /\ \/ reading = <<>> /\ UNCHANGED status
     \/ status' = "failed"
  /\ UNCHANGED <<query, executed, tableVars, reading, live, unionVars, limitVars, pulled>>

\* The build's own failure dropped: its Close decides.
BuildCloseMutant ==
  /\ at = "filled"
  /\ live' = live \ {0}
  /\ \/ at' = "open" /\ filled' = TRUE /\ status' = "ok"
     \/ at' = "unopened" /\ status' = "failed" /\ UNCHANGED filled
  /\ UNCHANGED <<query, executed, held, reserved, reading, unionVars, limitVars, pulled>>

\* Closed whatever happened; finished only if nothing failed.
BuildClose ==
  /\ at = "filled"
  /\ live' = live \ {0}
  /\ \/ status = "ok" /\ at' = "open" /\ filled' = TRUE /\ UNCHANGED status
     \/ at' = "unopened" /\ status' = "failed" /\ UNCHANGED filled
  /\ UNCHANGED <<query, executed, held, reserved, reading, unionVars, limitVars, pulled>>

\* LimitOperator::Open and UnionAllOperator::Open: no input is opened yet.
OpenInput ==
  /\ at = "open"
  /\ at' = "pull"
  /\ skipped' = 0 /\ emitted' = 0
  /\ current' = 1 /\ input_open' = FALSE
  /\ UNCHANGED <<query, executed, status, tableVars, reading, live, pulled>>

-----------------------------------------------------------------------------
(* PullAll: Limit's loop over UnionAll's. *)

BelowLimit == query.limit # NoLimit => emitted < query.limit

\* Open of the next input, which is to be closed even if it fails; a scan of the shared
\* result reads it as it is then, and fails on an unfilled one.
InputOpen ==
  /\ at = "pull" /\ BelowLimit /\ current <= Len(query.inputs) /\ ~input_open
  /\ input_open' = TRUE
  /\ live' = live \cup {current}
  /\ \/ /\ query.inputs[current] = "shared" => filled
        /\ reading' = IF query.inputs[current] = "shared" THEN DoScan ELSE BaseBatches
        /\ UNCHANGED <<at, status>>
     \/ /\ at' = "close" /\ status' = "failed"
        /\ UNCHANGED reading
  /\ UNCHANGED <<query, executed, tableVars, current, limitVars, pulled>>

\* One batch of the open input, through the offset and the limit.
InputNext ==
  /\ at = "pull" /\ BelowLimit /\ input_open /\ reading # <<>>
  /\ \/ /\ reading' = Tail(reading)
        /\ LET in    == Head(reading)
               rows  == Len(Materialize(in))
               skip  == IF query.offset - skipped < rows THEN query.offset - skipped ELSE rows
               after == rows - skip
               take  == IF query.limit # NoLimit /\ query.limit - emitted < after
                          THEN query.limit - emitted ELSE after IN
           /\ skipped' = skipped + skip
           /\ emitted' = emitted + take
           /\ pulled' = IF take = 0 THEN pulled
                        ELSE pulled \o Materialize(IF skip = 0 /\ take = rows
                                                     THEN in ELSE Window(in, skip, take))
        /\ UNCHANGED <<at, status>>
     \/ /\ at' = "close" /\ status' = "failed"
        /\ UNCHANGED <<reading, limitVars, pulled>>
  /\ UNCHANGED <<query, executed, tableVars, live, unionVars>>

\* An input at its end is closed before the next one opens.
InputEnds ==
  /\ at = "pull" /\ BelowLimit /\ input_open /\ reading = <<>>
  /\ input_open' = FALSE /\ current' = current + 1
  /\ live' = live \ {current}
  /\ \/ UNCHANGED <<at, status>>
     \/ at' = "close" /\ status' = "failed"
  /\ UNCHANGED <<query, executed, tableVars, reading, limitVars, pulled>>

\* The limit reached, where the input is not pulled again, or the end of the last input.
PulledAll ==
  /\ at = "pull" /\ (~BelowLimit \/ current > Len(query.inputs))
  /\ at' = "close"
  /\ UNCHANGED <<query, executed, status, tableVars, reading, live, unionVars, limitVars, pulled>>

-----------------------------------------------------------------------------
\* UnionAllOperator::Close: the open input, if any, whose Close may fail.
UnionClose ==
  /\ live' = IF input_open THEN live \ {current} ELSE live
  /\ \/ UNCHANGED status
     \/ input_open /\ status' = "failed"
  /\ input_open' = FALSE /\ current' = 1

\* The input's failing Close returned before the table is released.
SharedCloseMutant ==
  /\ UnionClose
  /\ IF status' = status THEN TableRelease ELSE UNCHANGED tableVars

\* SharedBuildsOperator::Close: the table released whatever the input's Close answers.
SharedClose ==
  /\ UnionClose
  /\ TableRelease

\* Drain closes a root it opened, after a failure too.
Close ==
  /\ at = "close"
  /\ at' = "closed"
  /\ SharedClose
  /\ UNCHANGED <<query, executed, reading, limitVars, pulled>>

\* Execute returns, and its operators and tables are destroyed with what they still hold.
Return ==
  /\ at \in {"closed", "unopened"}
  /\ at' = "idle" /\ executed' = executed + 1
  /\ query' = NoQuery
  /\ TableRelease
  /\ live' = {} /\ reading' = <<>> /\ pulled' = <<>>
  /\ input_open' = FALSE /\ current' = 1 /\ skipped' = 0 /\ emitted' = 0
  /\ status' = "ok"

Next ==
  \/ Execute
  \/ BuildOpen
  \/ BuildNext
  \/ BuildEnds
  \/ BuildClose
  \/ OpenInput
  \/ InputOpen
  \/ InputNext
  \/ InputEnds
  \/ PulledAll
  \/ Close
  \/ Return
  \/ at = "idle" /\ executed = MaxQueries /\ UNCHANGED vars

Spec == Init /\ [][Next]_vars

-----------------------------------------------------------------------------
(* What a query means: its inputs' selected rows one after another, cut. *)

RowsOf(batches) == FlattenSeq([k \in DOMAIN batches |-> Materialize(batches[k])])

Meaning(q) ==
  LET all == FlattenSeq([k \in DOMAIN q.inputs |->
                RowsOf(IF q.inputs[k] = "shared" THEN q.build ELSE BaseBatches)])
      end == IF q.limit # NoLimit /\ q.offset + q.limit < Len(all)
               THEN q.offset + q.limit ELSE Len(all) IN
  SubSeq(all, q.offset + 1, end)

\* A query that returns answers exactly the rows of its OFFSET and LIMIT over its inputs in
\* order, the shared result being that of its whole build: a build cut short by a failure, by
\* the cap or by the budget never reads as fewer rows (SharedBuildsOperator::Open,
\* LimitOperator::Next, Window).
ReturnsItsRows == at = "closed" /\ status = "ok" => pulled = Meaning(query)

\* Whatever failed and however early LIMIT stopped, a closed query holds no input open and no
\* byte of the session's budget (UnionAllOperator::Close, SharedBuildsOperator::Close, Drain).
ClosedHoldsNothing == at = "closed" => live = {} /\ reserved = 0 /\ held = <<>>

\* One input's resources are held at a time, the build's gone before the consumers', and no
\* consumer opens a shared result before it is whole or after it was given back.
OneInputAtATime ==
  /\ Cardinality(live) <= 1
  /\ at = "pull" =>
       reserved = Len(FlattenSeq(held)) /\ (Shares(query) => filled)
=============================================================================
