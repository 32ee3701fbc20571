----------------------------- MODULE JoinBuilder -----------------------------
(***************************************************************************)
(* JoinTableBuilder (src/exec/join_table.cc): the consumer adds the parts  *)
(* of a join build in any order; the builder releases them in part order   *)
(* to PartitionLanes, whose tasks list each partition's rows on the        *)
(* executor; Finish waits for them, builds the table and frees the parts.  *)
(* The table itself is JoinTable's.  A part is its number of rows; a       *)
(* failure is <<what, part, lane>>, lane 0 unless what is "merge".         *)
(***************************************************************************)
EXTENDS Integers, Sequences, FiniteSets

CONSTANTS
  NumParts,  \* num_parts
  NumLanes,  \* kJoinPartitions
  Window,    \* max_pending
  Threads,   \* the executor's threads
  RowCounts, \* the rows a part may have
  MaxRows    \* kMaxRows: 2^32 - 1

VARIABLES
  rows,      \* the rows of each part: 0 for a part without pieces
  pc,        \* the consumer's place
  caller,    \* what waits in Merged(): "add", "merged" or "finish"
  parts,     \* parts_: the parts added and not freed
  next,      \* next_part_
  numRows,   \* num_rows_, of the released parts
  handed,    \* the parts handed to the lanes, in order
  failed,    \* failed_
  finished,  \* finished_
  result,    \* what the last call returned
  \* the lanes (PartitionLanes)
  executor, numLanes, mergeable, lpc, awake, added, refused, queue, task, lfailed, merging,
  merged, remaining, pending, failure

L == INSTANCE PartitionLanes WITH MaxLanes <- NumLanes, MaxPending <- Window, pc <- lpc,
                                  failed <- lfailed

lanesVars == <<executor, numLanes, mergeable, lpc, awake, added, refused, queue, task, lfailed,
               merging, merged, remaining, pending, failure>>
callVars == <<rows, pc, caller, parts, next, numRows, handed, failed, finished, result>>
vars == <<callVars, lanesVars>>

Parts == 0 .. NumParts - 1

OK == <<"ok", -1, 0>>
Invalid == <<"invalid", -1, 0>>

\* failure_ of the lanes, with the part's own number.
MergeFailure == <<"merge", handed[failure[1] + 1], failure[2]>>

Init ==
  /\ rows \in [Parts -> RowCounts]
  /\ pc = "idle"
  /\ caller = "add"
  /\ parts = {}
  /\ next = 0
  /\ numRows = 0
  /\ handed = <<>>
  /\ failed = OK
  /\ finished = FALSE
  /\ result = OK
  /\ L!Init
  /\ numLanes = NumLanes

-----------------------------------------------------------------------------
(* Add and Release                                                          *)

\* Add's checks: the build's failure comes first, then what a caller got wrong.
AddRefuses(p) ==
  /\ pc = "idle"
  /\ ~(failed = OK /\ failure # L!NoFailure)
  /\ failed # OK \/ finished \/ p \in parts
  /\ result' = IF failed # OK THEN failed ELSE Invalid
  /\ UNCHANGED <<rows, pc, caller, parts, next, numRows, handed, failed, finished, lanesVars>>

\* A merge failed on the executor: Add returns Merged().
AddMeetsFailure(p) ==
  /\ pc = "idle"
  /\ failed = OK /\ failure # L!NoFailure
  /\ pc' = "merged"
  /\ caller' = "add"
  /\ UNCHANGED <<rows, parts, next, numRows, handed, failed, finished, result, lanesVars>>

\* The part is kept; those that are next in part order are released.
AddKeeps(p) ==
  /\ pc = "idle"
  /\ failed = OK /\ failure = L!NoFailure
  /\ ~finished
  /\ p \notin parts
  /\ parts' = parts \cup {p}
  /\ pc' = "release"
  /\ caller' = "add"
  /\ UNCHANGED <<rows, next, numRows, handed, failed, finished, result, lanesVars>>

\* The loop ends at the first part not added.
AddReturns ==
  /\ pc = "release"
  /\ next \notin parts
  /\ pc' = "idle"
  /\ result' = OK
  /\ UNCHANGED <<rows, caller, parts, next, numRows, handed, failed, finished, lanesVars>>

\* Add's loop: the next part in part order has been added.
MayRelease == next \in parts

\* Release fails: too many rows, or std::bad_alloc before any count changes.  Merged()
\* follows: an earlier part's merge may have failed too.
ReleaseFails ==
  /\ pc = "release"
  /\ MayRelease
  /\ \/ numRows + rows[next] > MaxRows /\ failed' = <<"rows", next, 0>>
     \/ failed' = <<"memory", next, 0>>
  /\ next' = next + 1
  /\ pc' = "merged"
  /\ UNCHANGED <<rows, caller, parts, numRows, handed, finished, result, lanesVars>>

\* Release counts the part and, if it has pieces, hands it to the lanes.
Release ==
  /\ pc = "release"
  /\ MayRelease
  /\ numRows + rows[next] <= MaxRows
  /\ next' = next + 1
  /\ numRows' = numRows + rows[next]
  /\ handed' = IF rows[next] > 0 THEN Append(handed, next) ELSE handed
  /\ pc' = IF rows[next] > 0 THEN "hand" ELSE "release"
  /\ UNCHANGED <<rows, caller, parts, failed, finished, result, lanesVars>>

\* lanes_->Add(part) is called and goes on to its end.
LanesAdd ==
  /\ pc = "hand"
  /\ \/ lpc = "idle" /\ added < Len(handed) /\ (L!AddCall \/ L!AddSerial)
     \/ lpc = "add" /\ L!CallStep
  /\ UNCHANGED callVars

\* It returns OK: the next part; or a failure: Merged().
LanesAddReturns ==
  /\ pc = "hand"
  /\ lpc = "finish" \/ (lpc = "idle" /\ added = Len(handed))
  /\ pc' = IF lpc = "finish" \/ (~executor /\ failure # L!NoFailure) THEN "merged" ELSE "release"
  /\ UNCHANGED <<rows, caller, parts, next, numRows, handed, failed, finished, result, lanesVars>>

-----------------------------------------------------------------------------
(* Merged and Finish                                                        *)

MergedCall ==
  /\ pc = "idle"
  /\ pc' = "merged"
  /\ caller' = "merged"
  /\ UNCHANGED <<rows, parts, next, numRows, handed, failed, finished, result, lanesVars>>

FinishCall ==
  /\ pc = "idle"
  /\ \/ /\ finished
        /\ result' = Invalid
        /\ UNCHANGED <<pc, caller, finished>>
     \/ /\ ~finished
        /\ finished' = TRUE
        /\ pc' = "merged"
        /\ caller' = "finish"
        /\ UNCHANGED result
  /\ UNCHANGED <<rows, parts, next, numRows, handed, failed, lanesVars>>

\* lanes_->Finish() waits for the tasks.
LanesFinish ==
  /\ pc = "merged"
  /\ (L!WaitCall /\ lpc' = "finish") \/ (lpc = "finish" /\ L!CallStep)
  /\ UNCHANGED callVars

\* Mutant: a failed release wins over a merge failure.
FailureOfMutant == IF failed = OK /\ failure # L!NoFailure THEN MergeFailure ELSE failed

\* A merge failure is of an earlier part than a failed release: it wins.
FailureOf == IF failure # L!NoFailure THEN MergeFailure ELSE failed

\* What Finish returns without a failure: a part is missing, or the table, or no memory
\* for it.
Finished == IF next < NumParts THEN {Invalid} ELSE {<<"table", -1, 0>>, <<"memory", -1, 0>>}

\* Mutant: Finish frees the parts before it waits for the merges.
MergedReturnsMutant ==
  /\ pc = "merged"
  /\ lpc = "finished" \/ (caller = "finish" /\ lpc = "finish")
  /\ lpc' = "idle"
  /\ failed' = FailureOf
  /\ result' \in IF caller = "finish" /\ failed' = OK THEN Finished ELSE {failed'}
  /\ parts' = IF caller = "finish" THEN {} ELSE parts
  /\ pc' = "idle"
  /\ UNCHANGED <<rows, caller, next, numRows, handed, finished, executor, numLanes, mergeable,
                 awake, added, refused, queue, task, lfailed, merging, merged, remaining, pending,
                 failure>>

\* Merged() returns; Finish goes on to build the table and frees the parts, whatever the
\* outcome.  The lanes can be finished again.
MergedReturns ==
  /\ pc = "merged"
  /\ lpc = "finished"
  /\ lpc' = "idle"
  /\ failed' = FailureOf
  /\ result' \in IF caller = "finish" /\ failed' = OK THEN Finished ELSE {failed'}
  /\ parts' = IF caller = "finish" THEN {} ELSE parts
  /\ pc' = "idle"
  /\ UNCHANGED <<rows, caller, next, numRows, handed, finished, executor, numLanes, mergeable,
                 awake, added, refused, queue, task, lfailed, merging, merged, remaining, pending,
                 failure>>

Call == (\E p \in Parts : AddRefuses(p) \/ AddMeetsFailure(p) \/ AddKeeps(p))
        \/ MergedCall \/ FinishCall

CallStep == AddReturns \/ ReleaseFails \/ Release \/ LanesAdd \/ LanesAddReturns
            \/ LanesFinish \/ MergedReturns

LaneTask(l) == L!Drain(l) /\ UNCHANGED callVars

Next == Call \/ CallStep \/ \E l \in L!Lanes : LaneTask(l)

Spec == Init /\ [][Next]_vars

-----------------------------------------------------------------------------
\* The failure of the serial build: the parts in order, each one's rows counted, then its
\* partitions merged in order.
RowsBefore(p) == LET sum[q \in 0 .. NumParts] == IF q = 0 THEN 0 ELSE sum[q - 1] + rows[q - 1]
                 IN  sum[p]
LanePart(p) == Cardinality({q \in 0 .. p - 1 : rows[q] > 0})
BadLanes(p) == {l \in L!Lanes : rows[p] > 0 /\ ~mergeable[<<LanePart(p), l>>]}
TooMany(p) == RowsBefore(p) + rows[p] > MaxRows
SerialFailure ==
  LET bad == {p \in Parts : TooMany(p) \/ BadLanes(p) # {}}
      first == CHOOSE p \in bad : \A q \in bad : p <= q
  IN  IF bad = {} THEN OK
      ELSE IF TooMany(first) THEN <<"rows", first, 0>>
      ELSE <<"merge", first, CHOOSE l \in BadLanes(first) : \A m \in BadLanes(first) : l <= m>>

\* Unless memory runs out or a task is refused, the failure of a build is that of the
\* serial one and a table comes from a build without one, in whatever order the parts were
\* added and their merges ran (join_table.h: "It is the failure of the earliest part, as in
\* the serial order").
EarliestFailure ==
  pc = "idle" /\ refused = {} =>
    /\ failed[1] \notin {"ok", "memory"} => failed = SerialFailure
    /\ result[1] = "table" => SerialFailure = OK /\ next = NumParts

\* Finish frees the parts when no lane reads them any more: a run points into its part's
\* hashes.
FreedAfterMerges == finished /\ pc = "idle" => parts = {} /\ L!NoLaneRuns /\ pending = 0

\* A build fails like the serial one, and its parts outlive their merges.
BuiltLikeSerial == EarliestFailure /\ FreedAfterMerges
=============================================================================
