------------------------------- MODULE ForEach -------------------------------
(***************************************************************************)
(* ForEach (src/exec/partition_lanes.{h,cc}): fn(0) .. fn(n - 1) as tasks  *)
(* of the executor, waited for, or one after another without one.  The     *)
(* tasks use the caller's frame, so none may outlive the call, however it  *)
(* ends: the destructor of WaitAll waits for those submitted also when the *)
(* call returns early or throws.                                           *)
(*                                                                         *)
(* Whether fn fails depends on the index alone (std::bad_alloc in a task   *)
(* is a failure with a status of its own); a Submit may fail or throw, and *)
(* a status may not be copied or made, at any time.                        *)
(***************************************************************************)
EXTENDS Integers, FiniteSets

CONSTANTS
  MaxTasks,     \* n is up to so many
  LoopThreads   \* the executor's threads

VARIABLES
  loopExecutor,  \* whether there is an executor
  n,             \* the indices
  fnFate,          \* what fn returns: "ok", "error", or "memory" for a std::bad_alloc
  place,         \* the call's place
  tasks,         \* the task of an index: "none", "queued", "running" or "done"
  submitted,     \* `submitted`, and the tasks in `tasks`: 0 .. nextSubmit - 1
  nextSubmit,
  looked,        \* the futures whose status has been read, or the indices run here
  result         \* what the call returns, "thrown" for a std::bad_alloc

loopVars == <<loopExecutor, n, fnFate, place, tasks, submitted, nextSubmit, looked, result>>

Indices == 0 .. MaxTasks - 1

LoopInit ==
  /\ loopExecutor \in BOOLEAN
  /\ n \in 0 .. MaxTasks
  /\ fnFate \in [Indices -> {"ok", "error", "memory"}]
  /\ place = "call"
  /\ tasks = [i \in Indices |-> "none"]
  /\ submitted = "ok"
  /\ nextSubmit = 0
  /\ looked = 0
  /\ result = "none"

-----------------------------------------------------------------------------
(* The call.                                                                *)

Ended(status) == place' = "ended" /\ result' = status

\* Without an executor, or for one index at most: here, up to the first failure.
RunHere ==
  /\ place = "call"
  /\ ~loopExecutor \/ n <= 1
  /\ \/ looked = n /\ Ended("ok") /\ UNCHANGED <<tasks, looked>>
     \/ /\ looked < n
        /\ tasks' = [tasks EXCEPT ![looked] = "done"]
        /\ looked' = looked + 1
        /\ \/ fnFate[looked] = "ok" /\ UNCHANGED <<place, result>>
           \/ fnFate[looked] # "ok" /\ Ended(fnFate[looked])
  /\ UNCHANGED <<loopExecutor, n, fnFate, submitted, nextSubmit>>

\* tasks.reserve(n) makes room for every future, or throws with none submitted.
Reserve ==
  /\ place = "call"
  /\ loopExecutor /\ n > 1
  /\ \/ place' = "submit" /\ UNCHANGED result
     \/ place' = "unwind" /\ result' = "thrown"
  /\ UNCHANGED <<loopExecutor, n, fnFate, tasks, submitted, nextSubmit, looked>>

\* Submit of the next index.  One that fails, or throws, has started nothing and
\* is the last; not even its status may be made.
SubmitTask ==
  /\ place = "submit"
  /\ nextSubmit < n
  /\ \/ /\ tasks' = [tasks EXCEPT ![nextSubmit] = "queued"]
        /\ nextSubmit' = nextSubmit + 1
        /\ UNCHANGED <<place, submitted, result>>
     \/ /\ submitted' \in {"error", "memory"}
        /\ place' = "wait"
        /\ UNCHANGED <<tasks, nextSubmit, result>>
     \/ /\ place' = "unwind" /\ result' = "thrown"
        /\ UNCHANGED <<tasks, nextSubmit, submitted>>
  /\ UNCHANGED <<loopExecutor, n, fnFate, looked>>

SubmittedAll ==
  /\ place = "submit"
  /\ nextSubmit = n
  /\ place' = "wait"
  /\ UNCHANGED <<loopExecutor, n, fnFate, tasks, submitted, nextSubmit, looked, result>>

\* The statuses in index order, each waited for; the first that is not OK, copied
\* if there is memory for it, is returned at once.
ReadStatus ==
  /\ place = "wait"
  /\ looked < nextSubmit
  /\ tasks[looked] = "done"
  /\ \/ fnFate[looked] = "ok" /\ looked' = looked + 1 /\ UNCHANGED <<place, result>>
     \/ /\ fnFate[looked] # "ok"
        /\ place' = "unwind"
        /\ result' \in {fnFate[looked], "thrown"}
        /\ UNCHANGED looked
  /\ UNCHANGED <<loopExecutor, n, fnFate, tasks, submitted, nextSubmit>>

ReadSubmitted ==
  /\ place = "wait"
  /\ looked = nextSubmit
  /\ place' = "unwind"
  /\ result' = submitted
  /\ UNCHANGED <<loopExecutor, n, fnFate, tasks, submitted, nextSubmit, looked>>

\* Mutant: the tasks are waited for on the way to a status only.
WaitAllMutant ==
  /\ place = "unwind"
  /\ place' = "ended"
  /\ UNCHANGED <<loopExecutor, n, fnFate, tasks, submitted, nextSubmit, looked, result>>

\* ~WaitAll: every task submitted ends first.
WaitAll ==
  /\ place = "unwind"
  /\ \A i \in 0 .. nextSubmit - 1 : tasks[i] = "done"
  /\ place' = "ended"
  /\ UNCHANGED <<loopExecutor, n, fnFate, tasks, submitted, nextSubmit, looked, result>>

LoopStep ==
  \/ RunHere \/ Reserve \/ SubmitTask \/ SubmittedAll \/ ReadStatus \/ ReadSubmitted \/ WaitAll

-----------------------------------------------------------------------------
(* A task, on a thread of the executor (Arrow's thread pool, external).     *)
StartTask(i) ==
  /\ tasks[i] = "queued"
  /\ Cardinality({j \in Indices : tasks[j] = "running"}) < LoopThreads
  /\ tasks' = [tasks EXCEPT ![i] = "running"]
  /\ UNCHANGED <<loopExecutor, n, fnFate, place, submitted, nextSubmit, looked, result>>

EndTask(i) ==
  /\ tasks[i] = "running"
  /\ tasks' = [tasks EXCEPT ![i] = "done"]
  /\ UNCHANGED <<loopExecutor, n, fnFate, place, submitted, nextSubmit, looked, result>>

IndexTask(i) == StartTask(i) \/ EndTask(i)

LoopNext == LoopStep \/ \E i \in Indices : IndexTask(i)

LoopSpec == LoopInit /\ [][LoopNext]_loopVars

-----------------------------------------------------------------------------
\* No task is left to use `fn` and `guarded` once the call has ended, thrown or
\* not (partition_lanes.h: "the tasks already submitted still end before ForEach
\* returns, or throws").
NoTaskOutlives == place = "ended" => \A i \in Indices : tasks[i] \in {"none", "done"}

\* What the call returns does not depend on the timing (partition_lanes.h: "the
\* first failure in index order decides the status"): that of the first index
\* that failed, an index that could not be submitted failing with its Submit, and
\* OK only when every index ran.
FirstFailureDecides ==
  (place = "ended" /\ result # "thrown") =>
    LET failing == {i \in 0 .. n - 1 : tasks[i] = "done" /\ fnFate[i] # "ok"}
    IN IF failing # {}
       THEN \E i \in failing : result = fnFate[i] /\ \A j \in failing : i <= j
       ELSE /\ result = submitted
            /\ result = "ok" => \A i \in 0 .. n - 1 : tasks[i] = "done"

\* Both, as the caller of ForEach relies on them.
LoopDecides == NoTaskOutlives /\ FirstFailureDecides

=============================================================================
