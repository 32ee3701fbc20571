---------------------------- MODULE PartScheduler ----------------------------
(***************************************************************************)
(* PartScheduler<T> (src/exec/part_scheduler.h): runs a task for every     *)
(* part of a table, ahead of the consumer on an executor, and hands the    *)
(* results back strictly in part order.                                    *)
(*                                                                         *)
(* The consumer is one thread; `pc` says where in Next() or Stop() it is.  *)
(* Each submitted part is a task of the executor (Arrow's thread pool,     *)
(* external), which runs Shared::RunIntoSlot.  A future of `in_flight_` is *)
(* named by its part, or is NoTask while it is only reserved.  The steps   *)
(* are the points where the two can interleave: every access to the slots  *)
(* (under their mutex), to `stop` (an atomic) and to a future.             *)
(*                                                                         *)
(* What a part returns is its fate (PartSequence); next to other parts it  *)
(* may run out of memory instead.  MemoryBudget::under_pressure() depends  *)
(* on every thread of the query and is any Boolean at each call.           *)
(***************************************************************************)
EXTENDS Integers, Sequences, FiniteSets

CONSTANTS
  NumParts,   \* the parts of the table
  MaxWindow,  \* `window` of the constructor: the parts that may run ahead
  Threads     \* the executor's threads

ASSUME SchedulerAssumption ==
  /\ NumParts \in Nat
  /\ MaxWindow \in Nat \ {0}   \* the constructor raises a smaller window to 1
  /\ Threads \in Nat \ {0}

VARIABLES
  executor,    \* whether there is an executor
  fate,        \* what each part returns when it runs alone
  pc,          \* the consumer's place
  window,      \* window_
  nextSubmit,  \* next_submit_
  nextResult,  \* next_result_
  stopped,     \* stopped_
  inFlight,    \* in_flight_, the futures by part
  reserved,    \* Submit() is between emplace_back and the future's move
  awaited,     \* the part whose future Take() popped and waits for
  ret,         \* the status the call under way will return once Stop() has waited
  stop,        \* shared_->stop
  task,        \* the executor's task of each part
  slots,       \* shared_->slots
  delivered,   \* the parts whose results Next() returned, in that order
  outcome      \* "running", or how the run ended

consumerVars == <<pc, window, nextSubmit, nextResult, stopped, inFlight, reserved, awaited, ret>>
vars == <<executor, fate, consumerVars, stop, task, slots, delivered, outcome>>

Parts == 0 .. NumParts - 1

NoTask == -1   \* an invalid future, or no part awaited

Fates == {"ok", "error", "oom"}

Results == Fates \cup {"cancelled"}

TaskStates == {"none", "queued", "running", "cancelling", "slotted", "done"}

Places == {"idle", "take", "await", "dropping", "beforeRetry", "alone",
           "refill", "stopping", "raised", "closed"}

Returns == {"none", "error", "oom", "cancelled", "lost", "submitFailure", "raised", "stopped"}

\* The part's task is submitted and has not ended: it may use what the
\* scheduler's owner owns.
Live(p) == task[p] \in {"queued", "running", "cancelling", "slotted"}

TypeOK ==
  /\ executor \in BOOLEAN
  /\ fate \in [Parts -> Fates]
  /\ pc \in Places
  /\ window \in 1 .. MaxWindow
  /\ nextSubmit \in 0 .. NumParts
  /\ nextResult \in 0 .. NumParts
  /\ stopped \in BOOLEAN
  /\ inFlight \in Seq(Parts \cup {NoTask})
  /\ reserved \in BOOLEAN
  /\ awaited \in Parts \cup {NoTask}
  /\ ret \in Returns
  /\ stop \in BOOLEAN
  /\ task \in [Parts -> TaskStates]
  /\ slots \in [Parts -> Results \cup {"none"}]
  /\ delivered \in Seq(Parts)
  /\ outcome \in {"running"} \cup (Returns \ {"none"})

Init ==
  /\ executor \in BOOLEAN
  /\ fate \in [Parts -> Fates]
  /\ pc = "idle"
  /\ window = MaxWindow
  /\ nextSubmit = 0
  /\ nextResult = 0
  /\ stopped = FALSE
  /\ inFlight = <<>>
  /\ reserved = FALSE
  /\ awaited = NoTask
  /\ ret = "none"
  /\ stop = FALSE
  /\ task = [p \in Parts |-> "none"]
  /\ slots = [p \in Parts |-> "none"]
  /\ delivered = <<>>
  /\ outcome = "running"

-----------------------------------------------------------------------------
(* The executor's threads: Shared::RunIntoSlot of one part.                 *)

\* An executor thread is free (Arrow's thread pool, external).
ThreadFree == Cardinality({p \in Parts : task[p] \in {"running", "cancelling", "slotted"}}) < Threads

\* A thread takes the part's task.
TaskStart(p) ==
  /\ task[p] = "queued"
  /\ ThreadFree
  /\ task' = [task EXCEPT ![p] = "running"]
  /\ UNCHANGED <<executor, fate, consumerVars, stop, slots, delivered, outcome>>

\* Between two batches the task sees `stop` and gives up (RunPart).
TaskSeesStop(p) ==
  /\ task[p] = "running"
  /\ stop
  /\ task' = [task EXCEPT ![p] = "cancelling"]
  /\ UNCHANGED <<executor, fate, consumerVars, stop, slots, delivered, outcome>>

\* What a task may leave in its slot: next to other parts a part may run out
\* of memory where it would not alone.
TaskResults(p) ==
  IF task[p] = "cancelling" THEN {"cancelled"} ELSE {fate[p], "oom"}

\* The task's result goes to its slot, under the mutex.
TaskSlot(p) ==
  /\ task[p] \in {"running", "cancelling"}
  /\ \E result \in TaskResults(p) : slots' = [slots EXCEPT ![p] = result]
  /\ task' = [task EXCEPT ![p] = "slotted"]
  /\ UNCHANGED <<executor, fate, consumerVars, stop, delivered, outcome>>

\* The task's future completes.
TaskDone(p) ==
  /\ task[p] = "slotted"
  /\ task' = [task EXCEPT ![p] = "done"]
  /\ UNCHANGED <<executor, fate, consumerVars, stop, slots, delivered, outcome>>

TaskStep(p) == TaskStart(p) \/ TaskSeesStop(p) \/ TaskSlot(p) \/ TaskDone(p)

-----------------------------------------------------------------------------
(* The consumer.                                                            *)

done == stopped \/ nextResult >= NumParts

\* Next() is called: without an executor the part runs here, otherwise Take()
\* fills the window first.
NextCall ==
  /\ pc = "idle"
  /\ ~done
  /\ pc' = IF executor THEN "take" ELSE "alone"
  /\ UNCHANGED <<executor, fate, window, nextSubmit, nextResult, stopped, inFlight, reserved,
                 awaited, ret, stop, task, slots, delivered, outcome>>

\* Mutant: the window's comparison is off by one.
RoomMutant(pressure) ==
  /\ ~stopped
  /\ nextSubmit < NumParts
  /\ Len(inFlight) <= window
  /\ inFlight = <<>> \/ ~pressure

\* Submit()'s loop goes on: parts left, room in the window, and under memory
\* pressure nothing in flight.
Room(pressure) ==
  /\ ~stopped
  /\ nextSubmit < NumParts
  /\ Len(inFlight) < window
  /\ inFlight = <<>> \/ ~pressure

\* in_flight_.emplace_back(): a future that no task completes yet.
SubmitReserve ==
  /\ pc \in {"take", "refill"}
  /\ ~reserved
  /\ \E pressure \in BOOLEAN : Room(pressure)
  /\ inFlight' = Append(inFlight, NoTask)
  /\ reserved' = TRUE
  /\ UNCHANGED <<executor, fate, pc, window, nextSubmit, nextResult, stopped, awaited, ret, stop,
                 task, slots, delivered, outcome>>

\* executor_->Submit succeeds.
SubmitTask ==
  /\ reserved
  /\ reserved' = FALSE
  /\ inFlight' = [inFlight EXCEPT ![Len(inFlight)] = nextSubmit]
  /\ task' = [task EXCEPT ![nextSubmit] = "queued"]
  /\ nextSubmit' = nextSubmit + 1
  /\ UNCHANGED <<executor, fate, pc, window, nextResult, stopped, awaited, ret, stop, slots,
                 delivered, outcome>>

\* Mutant: the future of a failed submission stays in in_flight_.
UnreserveMutant == UNCHANGED inFlight

\* in_flight_.pop_back(): the reserved future is given back.
Unreserve == inFlight' = SubSeq(inFlight, 1, Len(inFlight) - 1)

\* executor_->Submit fails, or throws std::bad_alloc: Next() stops the
\* scheduler and returns that status, a result already taken dropped.
SubmitFails ==
  /\ reserved
  /\ reserved' = FALSE
  /\ Unreserve
  /\ nextResult' = IF pc = "take" THEN nextResult + 1 ELSE nextResult
  /\ ret' = "submitFailure"
  /\ stopped' = TRUE
  /\ stop' = TRUE
  /\ pc' = "stopping"
  /\ UNCHANGED <<executor, fate, window, nextSubmit, awaited, task, slots, delivered, outcome>>

\* executor_->Submit throws anything else: it leaves Next() as it is, and only
\* Stop() may follow.
SubmitThrows ==
  /\ reserved
  /\ reserved' = FALSE
  /\ Unreserve
  /\ pc' = "raised"
  /\ UNCHANGED <<executor, fate, window, nextSubmit, nextResult, stopped, awaited, ret, stop,
                 task, slots, delivered, outcome>>

\* Take()'s Submit() returns: the first future is popped and waited for.
TakeFront ==
  /\ pc = "take"
  /\ ~reserved
  /\ \E pressure \in BOOLEAN : ~Room(pressure)
  /\ inFlight # <<>>
  /\ awaited' = Head(inFlight)
  /\ inFlight' = Tail(inFlight)
  /\ pc' = "await"
  /\ UNCHANGED <<executor, fate, window, nextSubmit, nextResult, stopped, reserved, ret, stop,
                 task, slots, delivered, outcome>>

\* Stop() sets its flags; its Drop() is StopDone.
BeginStop(status) ==
  /\ ret' = status
  /\ stopped' = TRUE
  /\ stop' = TRUE
  /\ pc' = "stopping"

\* Mutant: a window of one is halved to none.
NarrowedMutant == window \div 2

\* The window under memory pressure, and its widening without.
Narrowed == IF window \div 2 < 1 THEN 1 ELSE window \div 2
Widened == IF window + 1 > MaxWindow THEN MaxWindow ELSE window + 1

\* Next() after Take(): a failure stops the scheduler; otherwise the window
\* adapts and is filled again before the result is returned.
TakeReturns(result) ==
  /\ nextResult' = nextResult + 1
  /\ \/ /\ result # "ok"
        /\ BeginStop(result)
        /\ UNCHANGED <<window, delivered>>
     \/ /\ result = "ok"
        /\ executor
        /\ \E pressure \in BOOLEAN :
             window' = IF pressure THEN Narrowed ELSE Widened
        /\ pc' = "refill"
        /\ UNCHANGED <<ret, stopped, stop, delivered>>
     \/ /\ result = "ok"
        /\ ~executor
        /\ delivered' = Append(delivered, nextResult)
        /\ pc' = "idle"
        /\ UNCHANGED <<ret, stopped, stop, window>>

\* Mutant: a part that ran out of memory next to others fails at once.
TakeResultMutant ==
  /\ pc = "await"
  /\ task[awaited] = "done"
  /\ TakeReturns(IF slots[nextResult] = "none" THEN "lost" ELSE slots[nextResult])
  /\ slots' = [slots EXCEPT ![nextResult] = "none"]
  /\ task' = [task EXCEPT ![awaited] = "none"]
  /\ awaited' = NoTask
  /\ UNCHANGED <<executor, fate, nextSubmit, inFlight, reserved, outcome>>

\* The awaited future is complete and the part's slot holds a result, or
\* (TakeSlot's own error) none.
TakeResult ==
  /\ pc = "await"
  /\ task[awaited] = "done"
  /\ slots[nextResult] # "oom"
  /\ TakeReturns(IF slots[nextResult] = "none" THEN "lost" ELSE slots[nextResult])
  /\ slots' = [slots EXCEPT ![nextResult] = "none"]
  /\ task' = [task EXCEPT ![awaited] = "none"]
  /\ awaited' = NoTask
  /\ UNCHANGED <<executor, fate, nextSubmit, inFlight, reserved, outcome>>

\* The part ran out of memory next to others: the parts ahead are stopped.
TakeOutOfMemory ==
  /\ pc = "await"
  /\ task[awaited] = "done"
  /\ slots[nextResult] = "oom"
  /\ slots' = [slots EXCEPT ![nextResult] = "none"]
  /\ task' = [task EXCEPT ![awaited] = "none"]
  /\ awaited' = NoTask
  /\ stop' = TRUE
  /\ pc' = "dropping"
  /\ UNCHANGED <<executor, fate, window, nextSubmit, nextResult, stopped, inFlight, reserved, ret,
                 delivered, outcome>>

\* Mutant: the futures are given up without waiting for their tasks.
DropMutant ==
  /\ inFlight' = <<>>
  /\ slots' = [p \in Parts |-> "none"]
  /\ UNCHANGED task

\* Drop(): every future in flight is waited for, then the results go.
Drop ==
  /\ \A i \in DOMAIN inFlight : inFlight[i] # NoTask /\ task[inFlight[i]] = "done"
  /\ inFlight' = <<>>
  /\ task' = [p \in Parts |-> IF \E i \in DOMAIN inFlight : inFlight[i] = p THEN "none" ELSE task[p]]
  /\ slots' = [p \in Parts |-> "none"]

\* The parts ahead are dropped; they run again when reached.
DropAhead ==
  /\ pc = "dropping"
  /\ Drop
  /\ stop' = FALSE
  /\ nextSubmit' = nextResult + 1
  /\ window' = 1
  /\ pc' = "beforeRetry"
  /\ UNCHANGED <<executor, fate, nextResult, stopped, reserved, awaited, ret, delivered, outcome>>

\* before_retry_(): the sink frees what it can (lanes.Wait() of the merging sinks).
BeforeRetry ==
  /\ pc = "beforeRetry"
  /\ pc' = "alone"
  /\ UNCHANGED <<executor, fate, window, nextSubmit, nextResult, stopped, inFlight, reserved,
                 awaited, ret, stop, task, slots, delivered, outcome>>

\* The part runs on the calling thread, with no other part.
RunAlone ==
  /\ pc = "alone"
  /\ TakeReturns(fate[nextResult])
  /\ UNCHANGED <<executor, fate, nextSubmit, inFlight, reserved, awaited, task, slots, outcome>>

\* Next()'s own Submit() returns, and Next() the result.
NextReturns ==
  /\ pc = "refill"
  /\ ~reserved
  /\ \E pressure \in BOOLEAN : ~Room(pressure)
  /\ delivered' = Append(delivered, nextResult - 1)
  /\ pc' = "idle"
  /\ UNCHANGED <<executor, fate, window, nextSubmit, nextResult, stopped, inFlight, reserved,
                 awaited, ret, stop, task, slots, outcome>>

\* The consumer is done with the scheduler (Stop() or its destructor): early,
\* at the end, or after an exception.
StopCall ==
  /\ pc \in {"idle", "raised"}
  /\ BeginStop(IF pc = "raised" THEN "raised" ELSE "stopped")
  /\ UNCHANGED <<executor, fate, window, nextSubmit, nextResult, inFlight, reserved, awaited,
                 task, slots, delivered, outcome>>

\* Stop() has waited for every task and released the results.
StopDone ==
  /\ pc = "stopping"
  /\ Drop
  /\ pc' = "closed"
  /\ outcome' = ret
  /\ UNCHANGED <<executor, fate, window, nextSubmit, nextResult, stopped, reserved, awaited, ret,
                 stop, delivered>>

SubmitStep == SubmitReserve \/ SubmitTask \/ SubmitFails \/ SubmitThrows

\* The steps of a call under way.
CallStep ==
  \/ SubmitStep
  \/ TakeFront \/ TakeResult \/ TakeOutOfMemory
  \/ DropAhead \/ BeforeRetry \/ RunAlone
  \/ NextReturns \/ StopDone

Next ==
  \/ \E p \in Parts : TaskStep(p)
  \/ NextCall
  \/ CallStep
  \/ StopCall

\* The consumer's thread goes on inside a call, and so does every executor
\* thread; when the next call comes, if ever, is the consumer's choice.
Fairness ==
  /\ WF_vars(CallStep)
  /\ \A p \in Parts : WF_vars(TaskStep(p))

Spec == Init /\ [][Next]_vars
FairSpec == Spec /\ Fairness

-----------------------------------------------------------------------------
(* Properties.                                                              *)

\* The results returned are the first parts in part order, each its own and
\* none of a task that gave up or was dropped (part_scheduler.h: "hands the
\* results back strictly in part order"; "only the schedule changes, never
\* the results").
InOrder ==
  /\ \A i \in DOMAIN delivered : delivered[i] = i - 1 /\ fate[i - 1] = "ok"
  /\ ret \notin {"cancelled", "lost"}

\* While a part that ran out of memory runs again, it is alone: no task of
\* this scheduler is left, and no finished part's result is held (Take: "no
\* task runs any more").
AloneInRetry ==
  pc \in {"beforeRetry", "alone"} =>
    /\ \A p \in Parts : ~Live(p) /\ slots[p] = "none"
    /\ ~stop

\* A part's memory is held from its submission until its result is taken or
\* released.  The parts held at a time are among the widest window's next parts, so
\* no more than it has (the class comment: "at most `window` of them submitted or
\* finished but not yet taken").
Held(p) == Live(p) \/ task[p] = "done" \/ slots[p] # "none"
WindowBound ==
  \E low \in 0 .. NumParts : \A p \in Parts : Held(p) => p \in low .. (low + MaxWindow - 1)

\* Once Stop() or the destructor has returned, no task runs and no result is
\* left: the sinks' tasks use what their operator owns.
NothingLeft ==
  pc = "closed" => \A p \in Parts : task[p] = "none" /\ slots[p] = "none"

\* The futures Drop() waits for are those of submitted tasks, one per part
\* next_result_ .. next_submit_ - 1 and in that order (the comments on Submit
\* and on in_flight_), except while Stop() ends the run: a task that runs is
\* never without its future, nor a future without its task.
Tracked(p) == p = awaited \/ \E i \in DOMAIN inFlight : inFlight[i] = p
Tracking ==
  /\ \A p \in Parts : task[p] # "none" <=> Tracked(p)
  /\ ~reserved => \A i \in DOMAIN inFlight : inFlight[i] = nextSubmit - Len(inFlight) + i - 1
  /\ executor /\ pc \in {"idle", "raised"} => nextSubmit = nextResult + Len(inFlight)

\* Every call of Next() and Stop() returns, whatever fails on the way: no
\* future of in_flight_ is waited for that no task completes.
CallsReturn == pc \notin {"idle", "raised", "closed"} ~> pc \in {"idle", "raised", "closed"}

\* The scheduler implements the promise of PartSequence for every number of
\* threads, window and budget, and without an executor.
Promise == INSTANCE PartSequence
Refinement == Promise!Spec
=============================================================================
