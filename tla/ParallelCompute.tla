--------------------------- MODULE ParallelCompute ---------------------------
(***************************************************************************)
(* ParallelComputeOperator (src/exec/parallel_compute.cc): a Compute over  *)
(* a sort or an aggregation.  The consumer's thread reads the input ahead  *)
(* and computes several batches at a time on the executor; the results are *)
(* returned in input order.                                                *)
(*                                                                         *)
(* Batches are numbered in input order; `fate` is what computing a batch   *)
(* alone returns, and `inputFails` the batch in whose place the input      *)
(* fails, if any.  Next to others a batch may run out of memory instead.   *)
(***************************************************************************)
EXTENDS Integers, Sequences, FiniteSets

CONSTANTS
  NumBatches,     \* the batches of the input
  MaxWindow,      \* ctx.threads, at least 1: the batches computed at a time
  ComputeThreads  \* the executor's threads

VARIABLES
  parallel,    \* whether there is an executor
  fate,        \* what each batch returns when it is computed alone
  inputFails,  \* the batch in whose place the input fails, NumBatches for none
  cpc,         \* the consumer's place in Next() or Close()
  entries,     \* entries_: [id, submitted]
  inFlight,    \* in_flight_
  window,      \* window_
  nextId,      \* next_id_: the batches read
  inputDone,   \* input_done_
  inputError,  \* input_error_ is not OK
  batchTask,   \* the executor's task of each batch
  slots,       \* shared_->slots
  delivered,   \* the batches Next() returned, in that order
  outcome      \* "running", or how the query's use of the operator ended

computeVars == <<parallel, fate, inputFails, cpc, entries, inFlight, window, nextId, inputDone,
                 inputError, batchTask, slots, delivered, outcome>>

Batches == 0 .. NumBatches - 1

Fates == {"ok", "error", "oom"}

ComputeInit ==
  /\ parallel \in BOOLEAN
  /\ fate \in [Batches -> Fates]
  /\ inputFails \in 0 .. NumBatches
  /\ cpc = "idle"
  /\ entries = <<>>
  /\ inFlight = 0
  /\ window = MaxWindow
  /\ nextId = 0
  /\ inputDone = FALSE
  /\ inputError = FALSE
  /\ batchTask = [b \in Batches |-> "none"]
  /\ slots = [b \in Batches |-> "none"]
  /\ delivered = <<>>
  /\ outcome = "running"

-----------------------------------------------------------------------------
(* The executor: Shared::ComputeIntoSlot.                                   *)

ThreadFree == Cardinality({b \in Batches : batchTask[b] \in {"running", "slotted"}}) < ComputeThreads

TaskStep(b) ==
  /\ \/ /\ batchTask[b] = "queued"
        /\ ThreadFree
        /\ batchTask' = [batchTask EXCEPT ![b] = "running"]
        /\ UNCHANGED slots
     \/ /\ batchTask[b] = "running"
        /\ \E result \in {fate[b], "oom"} : slots' = [slots EXCEPT ![b] = result]
        /\ batchTask' = [batchTask EXCEPT ![b] = "slotted"]
     \/ /\ batchTask[b] = "slotted"
        /\ batchTask' = [batchTask EXCEPT ![b] = "done"]
        /\ UNCHANGED slots
  /\ UNCHANGED <<parallel, fate, inputFails, cpc, entries, inFlight, window, nextId, inputDone,
                 inputError, delivered, outcome>>

-----------------------------------------------------------------------------
(* The consumer.                                                            *)

\* The input's next batch, its end or its failure.
InputNext == IF nextId = inputFails /\ inputFails < NumBatches THEN "failure"
             ELSE IF nextId = NumBatches THEN "end" ELSE "batch"

\* Next() without an executor is ComputeOperator: one batch, here.
NextSerial ==
  /\ cpc = "idle"
  /\ ~parallel
  /\ \/ /\ InputNext = "batch"
        /\ fate[nextId] = "ok"
        /\ delivered' = Append(delivered, nextId)
        /\ nextId' = nextId + 1
        /\ UNCHANGED <<cpc, outcome>>
     \/ /\ InputNext = "batch"
        /\ fate[nextId] # "ok"
        /\ outcome' = fate[nextId]
        /\ nextId' = nextId + 1
        /\ cpc' = "failed"
        /\ UNCHANGED delivered
     \/ /\ InputNext = "failure"
        /\ outcome' = "error"
        /\ cpc' = "failed"
        /\ UNCHANGED <<delivered, nextId>>
     \/ /\ InputNext = "end"
        /\ cpc' = "ended"
        /\ UNCHANGED <<delivered, nextId, outcome>>
  /\ UNCHANGED <<parallel, fate, inputFails, entries, inFlight, window, inputDone, inputError,
                 batchTask, slots>>

NextCall ==
  /\ cpc = "idle"
  /\ parallel
  /\ cpc' = "fill"
  /\ UNCHANGED <<parallel, fate, inputFails, entries, inFlight, window, nextId, inputDone,
                 inputError, batchTask, slots, delivered, outcome>>

\* Fill()'s room(): under pressure only for a batch alone.
Room(pressure) == inFlight < window /\ (inFlight = 0 \/ ~pressure)

\* The entries that no task computes: those read before a Drop.
Unsubmitted == {i \in DOMAIN entries : ~entries[i].submitted}

\* Submit(entry) of the i-th of the entries es: the executor takes the task, or
\* Next() returns its failure or its exception, the entry as it was.
Submit(es, i) ==
  \/ /\ entries' = [es EXCEPT ![i].submitted = TRUE]
     /\ inFlight' = inFlight + 1
     /\ batchTask' = [batchTask EXCEPT ![es[i].id] = "queued"]
     /\ UNCHANGED <<cpc, outcome>>
  \/ /\ entries' = es
     /\ outcome' \in {"submitFailure", "raised"}
     /\ cpc' = "failed"
     /\ UNCHANGED <<inFlight, batchTask>>

\* Fill() computes the batches dropped before, in order.
FillDropped ==
  /\ cpc = "fill"
  /\ \E pressure \in BOOLEAN : Room(pressure)
  /\ \E i \in Unsubmitted : (\A j \in Unsubmitted : i <= j) /\ Submit(entries, i)
  /\ UNCHANGED <<parallel, fate, inputFails, window, nextId, inputDone, inputError, slots,
                 delivered>>

\* Fill() reads a batch ahead and submits it.
FillReads ==
  /\ cpc = "fill"
  /\ Unsubmitted = {}
  /\ ~inputDone
  /\ \E pressure \in BOOLEAN : Room(pressure)
  /\ InputNext = "batch"
  /\ nextId' = nextId + 1
  /\ Submit(Append(entries, [id |-> nextId, submitted |-> FALSE]), Len(entries) + 1)
  /\ UNCHANGED <<parallel, fate, inputFails, window, inputDone, inputError, slots, delivered>>

\* Fill() reaches the end of the input, or its failure, which waits for the
\* batches read before it.
FillEnds ==
  /\ cpc = "fill"
  /\ Unsubmitted = {}
  /\ ~inputDone
  /\ \E pressure \in BOOLEAN : Room(pressure)
  /\ InputNext # "batch"
  /\ inputDone' = TRUE
  /\ inputError' = (InputNext = "failure")
  /\ UNCHANGED <<parallel, fate, inputFails, cpc, entries, inFlight, window, nextId, batchTask, slots,
                 delivered, outcome>>

\* Fill() returns.
FillReturns ==
  /\ cpc = "fill"
  /\ \/ \E pressure \in BOOLEAN : ~Room(pressure)
     \/ Unsubmitted = {} /\ inputDone
  /\ cpc' = "take"
  /\ UNCHANGED <<parallel, fate, inputFails, entries, inFlight, window, nextId, inputDone,
                 inputError, batchTask, slots, delivered, outcome>>

\* No batch is left: Next() returns the input's failure or the end.
NextEnds ==
  /\ cpc = "take"
  /\ entries = <<>>
  /\ outcome' = IF inputError THEN "error" ELSE outcome
  /\ cpc' = IF inputError THEN "failed" ELSE "ended"
  /\ UNCHANGED <<parallel, fate, inputFails, entries, inFlight, window, nextId, inputDone,
                 inputError, batchTask, slots, delivered>>

\* The batch returned, or its failure.
TakeReturns(b, result) ==
  /\ entries' = Tail(entries)
  /\ \/ result = "ok" /\ delivered' = Append(delivered, b) /\ cpc' = "idle" /\ UNCHANGED outcome
     \/ result # "ok" /\ outcome' = result /\ cpc' = "failed" /\ UNCHANGED delivered

\* Mutant: the slot's result is returned, an out-of-memory one too.
NextTakesMutant ==
  /\ cpc = "take"
  /\ entries # <<>>
  /\ LET b == entries[1].id IN
     /\ batchTask[b] = "done"
     /\ TakeReturns(b, slots[b])
     /\ batchTask' = [batchTask EXCEPT ![b] = "none"]
     /\ slots' = [slots EXCEPT ![b] = "none"]
  /\ inFlight' = inFlight - 1
  /\ UNCHANGED <<parallel, fate, inputFails, window, nextId, inputDone, inputError>>

\* The front batch's task has ended: its result is returned and the window
\* adapts; when it ran out of memory, the batches in flight are dropped first.
NextTakes ==
  /\ cpc = "take"
  /\ entries # <<>>
  /\ LET b == entries[1].id IN
     /\ batchTask[b] = "done"
     /\ batchTask' = [batchTask EXCEPT ![b] = "none"]
     /\ slots' = [slots EXCEPT ![b] = "none"]
     /\ \/ /\ slots[b] = "oom"
           /\ entries' = [entries EXCEPT ![1].submitted = FALSE]
           /\ cpc' = "dropping"
           /\ UNCHANGED <<window, delivered, outcome>>
        \/ /\ slots[b] # "oom"
           /\ TakeReturns(b, slots[b])
           /\ \E pressure \in BOOLEAN :
                window' = IF pressure THEN (IF window \div 2 < 1 THEN 1 ELSE window \div 2)
                          ELSE (IF window + 1 > MaxWindow THEN MaxWindow ELSE window + 1)
  /\ inFlight' = inFlight - 1
  /\ UNCHANGED <<parallel, fate, inputFails, nextId, inputDone, inputError>>

\* Drop(): every batch in flight is waited for, and the results go.
Drop ==
  /\ \A i \in DOMAIN entries : entries[i].submitted => batchTask[entries[i].id] = "done"
  /\ inFlight' = 0
  /\ batchTask' = [b \in Batches |->
                IF \E i \in DOMAIN entries : entries[i].submitted /\ entries[i].id = b
                THEN "none" ELSE batchTask[b]]
  /\ slots' = [b \in Batches |-> "none"]

\* Mutant: the dropped batches keep their futures.
DropBatchesMutant ==
  /\ cpc = "dropping"
  /\ Drop
  /\ window' = 1
  /\ cpc' = "alone"
  /\ UNCHANGED <<parallel, fate, inputFails, entries, nextId, inputDone, inputError, delivered,
                 outcome>>

\* The batches ahead stay, to be computed again; then this one alone.
DropBatches ==
  /\ cpc = "dropping"
  /\ Drop
  /\ entries' = [i \in DOMAIN entries |-> [entries[i] EXCEPT !.submitted = FALSE]]
  /\ window' = 1
  /\ cpc' = "alone"
  /\ UNCHANGED <<parallel, fate, inputFails, nextId, inputDone, inputError, delivered, outcome>>

ComputeAlone ==
  /\ cpc = "alone"
  /\ TakeReturns(entries[1].id, fate[entries[1].id])
  /\ UNCHANGED <<parallel, fate, inputFails, inFlight, window, nextId, inputDone, inputError, batchTask,
                 slots>>

\* Close() or the destructor: early (a Limit above), at the end or after a
\* failure.  Drop() ends before the input is closed.
CloseCall ==
  /\ cpc \in {"idle", "ended", "failed"}
  /\ cpc' = "closing"
  /\ outcome' = IF outcome = "running" THEN "stopped" ELSE outcome
  /\ UNCHANGED <<parallel, fate, inputFails, entries, inFlight, window, nextId, inputDone,
                 inputError, batchTask, slots, delivered>>

CloseDone ==
  /\ cpc = "closing"
  /\ Drop
  /\ entries' = <<>>
  /\ cpc' = "closed"
  /\ UNCHANGED <<parallel, fate, inputFails, window, nextId, inputDone, inputError, delivered,
                 outcome>>

ComputeStep ==
  \/ FillDropped \/ FillReads \/ FillEnds \/ FillReturns
  \/ NextEnds \/ NextTakes \/ DropBatches \/ ComputeAlone \/ CloseDone

ComputeNext ==
  \/ \E b \in Batches : TaskStep(b)
  \/ NextSerial \/ NextCall \/ ComputeStep \/ CloseCall

ComputeSpec == ComputeInit /\ [][ComputeNext]_computeVars

-----------------------------------------------------------------------------
\* What a batch returns when the batches are computed one after another: the input's failure
\* in the place of its batch.
SerialFate == [b \in Batches |-> IF b = inputFails THEN "error" ELSE fate[b]]

Sequence == INSTANCE PartSequence WITH NumParts <- NumBatches, fate <- SerialFate

\* The batches come in input order and the first failure in that order ends the query with the
\* failure ComputeOperator returns (parallel_compute.h), however the tasks interleave and
\* whichever of them run out of memory next to the others.
ComputeRefines == Sequence!Spec

\* Next() returns the end only after every batch, and never in the place of a failure.
EndsAfterAll ==
  cpc = "ended" => Len(delivered) = NumBatches /\ \A b \in Batches : SerialFate[b] = "ok"
=============================================================================
