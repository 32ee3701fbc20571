----------------------------- MODULE GroupMerge -----------------------------
(***************************************************************************)
(* The merge of a parallel GROUP BY: PartGroupAggregateOperator::Merge     *)
(* (src/exec/part_operators.cc), and the same loop of the grouping sets    *)
(* and the two-level aggregation.  The operator's thread takes the parts   *)
(* from a PartScheduler and hands each one to PartitionLanes; both run     *)
(* their tasks on one executor, both share the consumer's thread, and the  *)
(* scheduler's retry hook waits for the lanes.                             *)
(***************************************************************************)
EXTENDS Integers, Sequences, FiniteSets

CONSTANTS
  NumParts,     \* the parts of the table
  NumLanes,     \* the partitions of the groups
  MergeWindow,  \* the parts ahead of the consumer, and the parts handed on
  Threads       \* the executor's threads

VARIABLES
  at,      \* where Merge() is: "next", "add", "finish" or "closing"
  status,  \* the scheduler's failure, "none" or "raised" (an exception leaves Next)
  result,  \* what Merge() returns, once it does
  executor,
  \* the scheduler (PartScheduler)
  fate, spc, window, nextSubmit, nextResult, stopped, inFlight, reserved, awaited, ret, stop,
  stask, slots, delivered, outcome,
  \* the lanes (PartitionLanes)
  numLanes, mergeable, lpc, awake, added, refused, queue, ltask, failed, merging, merged,
  remaining, pending, failure

S == INSTANCE PartScheduler WITH MaxWindow <- MergeWindow, pc <- spc, task <- stask
L == INSTANCE PartitionLanes WITH
  MaxLanes <- NumLanes, MaxPending <- MergeWindow, pc <- lpc, task <- ltask

schedulerVars == <<executor, fate, spc, window, nextSubmit, nextResult, stopped, inFlight,
                   reserved, awaited, ret, stop, stask, slots, delivered, outcome>>
lanesVars == <<executor, numLanes, mergeable, lpc, awake, added, refused, queue, ltask, failed,
               merging, merged, remaining, pending, failure>>
vars == <<at, status, result, schedulerVars, lanesVars>>

Init ==
  /\ at = "next"
  /\ status = "none"
  /\ result = <<>>
  /\ S!Init
  /\ L!Init
  /\ numLanes = NumLanes

-----------------------------------------------------------------------------

\* The executor's threads serve the parts' tasks and the lanes' tasks.
Busy == Cardinality({p \in S!Parts : stask[p] \in {"running", "cancelling", "slotted"}})
        + Cardinality({l \in L!Lanes : ltask[l] = "running"})

PartTask(p) ==
  /\ S!TaskStep(p)
  /\ stask[p] = "queued" => Busy < Threads
  /\ UNCHANGED <<at, status, result, lanesVars>>

LaneTask(l) ==
  /\ L!Drain(l)
  /\ ltask[l] = "queued" => Busy < Threads
  /\ UNCHANGED <<at, status, result, schedulerVars>>

\* scheduler_->Next() is called while parts are left.
TakeCall ==
  /\ at = "next"
  /\ S!NextCall
  /\ UNCHANGED <<at, status, result, lanesVars>>

\* Mutant: the retry does not wait for the lanes.
MayRetryMutant == TRUE

\* The retry hook: a part that ran out of memory runs again once the earlier
\* parts are merged and freed (lanes->Wait()).
MayRetry == L!NoLaneRuns

\* A step of Next(); when it returns, its part goes to the lanes, or its
\* failure ends the loop.
TakeStep ==
  /\ at = "next"
  /\ spc = "beforeRetry" => MayRetry
  /\ S!CallStep
  /\ at' = CASE spc' = "idle" -> "add"
             [] spc' \in {"closed", "raised"} -> "finish"
             [] OTHER -> "next"
  /\ status' = IF spc' = "closed" THEN outcome' ELSE IF spc' = "raised" THEN "raised" ELSE status
  /\ UNCHANGED <<result, lanesVars>>

\* lanes->Add is called with the part taken.
AddCall ==
  /\ at = "add"
  /\ lpc = "idle"
  /\ added < Len(delivered)
  /\ L!AddCall \/ L!AddSerial
  /\ UNCHANGED <<at, status, result, schedulerVars>>

\* A step of Add.
AddStep ==
  /\ at = "add"
  /\ lpc = "add"
  /\ L!CallStep
  /\ UNCHANGED <<at, status, result, schedulerVars>>

\* Add has returned OK: the loop goes on.
AddReturns ==
  /\ at = "add"
  /\ lpc = "idle"
  /\ added = Len(delivered)
  /\ failure = L!NoFailure \/ executor
  /\ at' = "next"
  /\ UNCHANGED <<status, result, schedulerVars, lanesVars>>

\* Add returns a failure: with an executor it is in Finish(), which LanesFinish
\* completes.
AddFails ==
  /\ at = "add"
  /\ \/ lpc = "finish"
     \/ lpc = "idle" /\ added = Len(delivered) /\ ~executor /\ failure # L!NoFailure
  /\ at' = "finish"
  /\ UNCHANGED <<status, result, schedulerVars, lanesVars>>

\* Every part is taken and added.
LoopEnds ==
  /\ at = "next"
  /\ spc = "idle"
  /\ S!done
  /\ at' = "finish"
  /\ UNCHANGED <<status, result, schedulerVars, lanesVars>>

\* lanes->Finish() is called and waits.  Its WaitCall may also be Wait or the
\* destructor in the lanes' own module; here it is Finish.
LanesFinish ==
  /\ at = "finish"
  /\ lpc # "finished"
  /\ (L!WaitCall /\ lpc' = "finish") \/ L!CallStep
  /\ UNCHANGED <<at, status, result, schedulerVars>>

\* Mutant: the scheduler's status wins over a merge failure.
MergeStatusMutant ==
  IF status # "none" THEN <<status>>
  ELSE IF failure # L!NoFailure THEN <<"merge", failure>> ELSE <<"ok">>

\* A merge failure is of an earlier part than any failure of the scheduler.  An
\* exception leaves Merge() through the lanes' destructor, which waits too.
MergeStatus ==
  IF status # "raised" /\ failure # L!NoFailure THEN <<"merge", failure>>
  ELSE IF status # "none" THEN <<status>> ELSE <<"ok">>

\* Merge() returns; the scheduler goes with the operator's Close() or before
\* the rows are built.
MergeReturns ==
  /\ at = "finish"
  /\ lpc = "finished"
  /\ result' = MergeStatus
  /\ at' = "closing"
  /\ UNCHANGED <<status, schedulerVars, lanesVars>>

\* scheduler_.reset().
Reset ==
  /\ at = "closing"
  /\ spc # "closed"
  /\ S!StopCall \/ S!StopDone
  /\ UNCHANGED <<at, status, result, lanesVars>>

ConsumerStep ==
  \/ TakeCall \/ TakeStep \/ AddCall \/ AddStep \/ AddReturns \/ AddFails
  \/ LoopEnds \/ LanesFinish \/ MergeReturns \/ Reset

Next ==
  \/ \E p \in S!Parts : PartTask(p)
  \/ \E l \in L!Lanes : LaneTask(l)
  \/ ConsumerStep

Spec == Init /\ [][Next]_vars

-----------------------------------------------------------------------------
(* Properties.                                                              *)

\* A part that runs again alone has all the memory of the merge: no task, no
\* finished part, and no part that a lane has yet to merge.
RetryHasAllMemory ==
  spc = "alone" /\ executor =>
    pending = 0 /\ L!NoLaneRuns /\ \A p \in S!Parts : ~S!Live(p) /\ slots[p] = "none"

\* The failures of the serial run: a part's own before its merges, its merges
\* in lane order.
PartFails(p) == fate[p] # "ok"
MergeFails(p) == {l \in L!Lanes : ~mergeable[<<p, l>>]}
SerialStatus ==
  LET bad == {p \in S!Parts : PartFails(p) \/ MergeFails(p) # {}}
      first == CHOOSE p \in bad : \A q \in bad : p <= q
  IN IF bad = {} THEN <<"ok">>
     ELSE IF PartFails(first) THEN <<fate[first]>>
     ELSE <<"merge", <<first, CHOOSE l \in MergeFails(first) : \A m \in MergeFails(first) : l <= m>>>>

\* Unless the executor or the heap refuses to take work, Merge() returns what
\* the serial run returns: the same first failure, or success, whatever the
\* timing of parts and lanes (part_operators.cc: "A merge failure is of an
\* earlier part than any failure of the scheduler seen after it").
SameAsSerial ==
  at = "closing" /\ refused = {} /\ status \notin {"submitFailure", "raised"} =>
    result = SerialStatus

\* The retried part has all the memory of the merge, and Merge() the serial run's result.
MergeSameAsSerial == RetryHasAllMemory /\ SameAsSerial
=============================================================================
