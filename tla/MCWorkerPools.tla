--------------------------- MODULE MCWorkerPools ---------------------------
(***************************************************************************)
(* The operators that run tasks on the executor behind one consumer, for   *)
(* one run of TLC: a behaviour is one of the lanes of PartitionLanes, of   *)
(* the merge of groups, of the parallel Compute operator, of a pipeline of *)
(* joins or of a call of ForEach.  PartitionLanes and ForEach are those of *)
(* the proofs, and rest at their start when another one runs.  Of the      *)
(* other three, a variable that two of them have is declared once, and the *)
(* variables the one that runs does not have are idle.                     *)
(***************************************************************************)
EXTENDS PartitionLanes, ForEach

CONSTANTS Idle, root, outer, inner, nested

VARIABLES
  pool,   \* the component that runs
  \* GroupMerge, its scheduler and its lanes
  status, spc, nextPart, nextResult, stopped, reserved, awaited, ret, stask,
  mNumLanes, mMergeable, lpc, mAwake, mAdded, mRefused, mQueue, ltask, mFailed, mMerging,
  mMerged, mRemaining, mPending, mFailure,
  \* GroupMerge and ParallelCompute
  parallel, partFate, window, inFlight, slots, delivered, outcome,
  \* GroupMerge and JoinPipeline
  at, mergeResult, stop,
  \* ParallelCompute
  cpc, inputFails, entries, nextId, inputDone, inputError,
  \* ParallelCompute and JoinPipeline
  partTask,
  \* JoinPipeline
  sink, matches, runs, opened, sinkOpen, phase, stack, tables, empties, marks, running, todo,
  loaded, alone, got, probed, ended, out

-----------------------------------------------------------------------------
Merge == INSTANCE GroupMerge WITH
  NumParts <- 2, NumLanes <- 2, MergeWindow <- 2, executor <- parallel, fate <- partFate,
  nextSubmit <- nextPart, result <- mergeResult, numLanes <- mNumLanes, mergeable <- mMergeable,
  awake <- mAwake, added <- mAdded, refused <- mRefused, queue <- mQueue, failed <- mFailed,
  merging <- mMerging, merged <- mMerged, remaining <- mRemaining, pending <- mPending,
  failure <- mFailure

Compute == INSTANCE ParallelCompute WITH
  NumBatches <- 3, MaxWindow <- 3, ComputeThreads <- Threads, fate <- partFate,
  batchTask <- partTask

\* A pipeline with two joins, the outer of which builds from a pipeline with a join of its own.
InputsOf ==
  [b \in {root, outer, inner, nested} |->
     CASE b = root -> <<outer, inner>>
       [] b = outer -> <<nested>>
       [] OTHER -> <<>>]

Pipeline == INSTANCE JoinPipeline WITH
  Root <- root, Builds <- {outer, inner, nested}, PartCount <- 2, PoolThreads <- Threads,
  BuildRowCount <- 1, MaxRuns <- 2, returned <- mergeResult

-----------------------------------------------------------------------------
mergeVars ==
  <<status, spc, nextPart, nextResult, stopped, reserved, awaited, ret, stask, mNumLanes,
    mMergeable, lpc, mAwake, mAdded, mRefused, mQueue, ltask, mFailed, mMerging, mMerged,
    mRemaining, mPending, mFailure>>
mergeComputeVars == <<parallel, partFate, window, inFlight, slots, delivered, outcome>>
mergePipelineVars == <<at, mergeResult, stop>>
computeVars == <<cpc, inputFails, entries, nextId, inputDone, inputError>>
computePipelineVars == <<partTask>>
pipelineVars ==
  <<sink, matches, runs, opened, sinkOpen, phase, stack, tables, empties, marks, running,
    todo, loaded, alone, got, probed, ended, out>>

idleButLanes ==
  <<pool, loopVars, mergeVars, mergeComputeVars, mergePipelineVars, computeVars,
    computePipelineVars, pipelineVars>>
idleButMerge == <<pool, vars, loopVars, computeVars, computePipelineVars, pipelineVars>>
idleButCompute == <<pool, vars, loopVars, mergeVars, mergePipelineVars, pipelineVars>>
idleButPipeline == <<pool, vars, loopVars, mergeVars, mergeComputeVars, computeVars>>
idleButLoop ==
  <<pool, vars, mergeVars, mergeComputeVars, mergePipelineVars, computeVars,
    computePipelineVars, pipelineVars>>
poolsVars == <<vars, idleButLanes>>

NoMerge ==
  /\ status = Idle /\ spc = Idle /\ nextPart = Idle /\ nextResult = Idle /\ stopped = Idle
  /\ reserved = Idle /\ awaited = Idle /\ ret = Idle /\ stask = Idle /\ mNumLanes = Idle
  /\ mMergeable = Idle /\ lpc = Idle /\ mAwake = Idle /\ mAdded = Idle /\ mRefused = Idle
  /\ mQueue = Idle /\ ltask = Idle /\ mFailed = Idle /\ mMerging = Idle /\ mMerged = Idle
  /\ mRemaining = Idle /\ mPending = Idle /\ mFailure = Idle

NoMergeCompute ==
  /\ parallel = Idle /\ partFate = Idle /\ window = Idle /\ inFlight = Idle /\ slots = Idle
  /\ delivered = Idle /\ outcome = Idle

NoMergePipeline == at = Idle /\ mergeResult = Idle /\ stop = Idle
NoCompute ==
  /\ cpc = Idle /\ inputFails = Idle /\ entries = Idle /\ nextId = Idle /\ inputDone = Idle
  /\ inputError = Idle
NoComputePipeline == partTask = Idle
NoPipeline ==
  /\ sink = Idle /\ matches = Idle /\ runs = Idle /\ opened = Idle /\ sinkOpen = Idle
  /\ phase = Idle /\ stack = Idle /\ tables = Idle /\ empties = Idle /\ marks = Idle
  /\ running = Idle /\ todo = Idle /\ loaded = Idle /\ alone = Idle /\ got = Idle
  /\ probed = Idle /\ ended = Idle /\ out = Idle

NoOther ==
  NoMerge /\ NoMergeCompute /\ NoMergePipeline /\ NoCompute /\ NoComputePipeline /\ NoPipeline

\* The lanes before the first part, whose merges would succeed, and a ForEach of no index.
RestingLanes ==
  /\ executor = FALSE /\ numLanes = MaxLanes /\ mergeable = [f \in Failures |-> TRUE]
  /\ Init
RestingLoop ==
  /\ loopExecutor = FALSE /\ n = 0 /\ fnFate = [i \in Indices |-> "ok"]
  /\ LoopInit

PoolsInit ==
  \/ pool = "lanes" /\ Init /\ RestingLoop /\ NoOther
  \/ pool = "loop" /\ LoopInit /\ RestingLanes /\ NoOther
  \/ /\ pool = "merge" /\ Merge!Init /\ RestingLanes /\ RestingLoop
     /\ NoCompute /\ NoComputePipeline /\ NoPipeline
  \/ /\ pool = "compute" /\ Compute!ComputeInit /\ RestingLanes /\ RestingLoop
     /\ NoMerge /\ NoMergePipeline /\ NoPipeline
  \/ /\ pool = "pipeline" /\ Pipeline!PipelineInit /\ RestingLanes /\ RestingLoop
     /\ NoMerge /\ NoMergeCompute /\ NoCompute

LanesStep == pool = "lanes" /\ Next /\ UNCHANGED idleButLanes
MergeStep == pool = "merge" /\ Merge!Next /\ UNCHANGED idleButMerge
ComputeStep == pool = "compute" /\ Compute!ComputeNext /\ UNCHANGED idleButCompute
PipelineStep == pool = "pipeline" /\ Pipeline!PipelineNext /\ UNCHANGED idleButPipeline
ForEachStep == pool = "loop" /\ LoopNext /\ UNCHANGED idleButLoop

PoolsNext == LanesStep \/ MergeStep \/ ComputeStep \/ PipelineStep \/ ForEachStep

\* The consumer goes on inside a call, and every thread of the executor runs its task; when the
\* next call comes is the consumer's choice.
LanesCall == pool = "lanes" /\ CallStep /\ UNCHANGED idleButLanes
LanesTask(l) == pool = "lanes" /\ Drain(l) /\ UNCHANGED idleButLanes
MergeCall == pool = "merge" /\ Merge!ConsumerStep /\ UNCHANGED idleButMerge
MergePart(p) == pool = "merge" /\ Merge!PartTask(p) /\ UNCHANGED idleButMerge
MergeLane(l) == pool = "merge" /\ Merge!LaneTask(l) /\ UNCHANGED idleButMerge
ComputeCall == pool = "compute" /\ Compute!ComputeStep /\ UNCHANGED idleButCompute
ComputeTask(b) == pool = "compute" /\ Compute!TaskStep(b) /\ UNCHANGED idleButCompute
PipelineCall == pool = "pipeline" /\ Pipeline!Consumer /\ UNCHANGED idleButPipeline
PipelineStart(p) == pool = "pipeline" /\ Pipeline!StartPart(p) /\ UNCHANGED idleButPipeline
PipelineTask(p) ==
  /\ pool = "pipeline"
  /\ Pipeline!LoadWord(p) \/ Pipeline!SetMark(p) \/ Pipeline!EndPart(p)
  /\ UNCHANGED idleButPipeline
LoopCall == pool = "loop" /\ LoopStep /\ UNCHANGED idleButLoop
LoopTask(i) == pool = "loop" /\ IndexTask(i) /\ UNCHANGED idleButLoop

\* One component runs, so a call of another and a task of another are one action here.
Call == LanesCall \/ MergeCall \/ ComputeCall \/ PipelineCall \/ LoopCall

PoolsSpec ==
  /\ PoolsInit
  /\ [][PoolsNext]_poolsVars
  /\ WF_poolsVars(Call)
  /\ \A l \in 0 .. 1 : WF_poolsVars(LanesTask(l) \/ MergeLane(l) \/ PipelineStart(l + 1))
  /\ \A p \in 0 .. 2 : WF_poolsVars((p < 2 /\ MergePart(p)) \/ ComputeTask(p)
                                     \/ (p > 0 /\ PipelineTask(p)) \/ LoopTask(p))

-----------------------------------------------------------------------------
\* Every call of the five returns (PartitionLanes' Add, Wait, Finish and destructor, Merge() with
\* the scheduler's destruction, ParallelComputeOperator's Next and Close, the pipeline's Open,
\* Next and Close, ForEach): no wake-up is lost, no task waits for another, and a pool with
\* fewer threads than tasks still serves them all.
PoolsReturn ==
  (\/ pool = "lanes" /\ pc \notin {"idle", "finished", "destroyed"}
   \/ pool = "merge"
   \/ pool = "compute" /\ cpc \in {"fill", "take", "dropping", "alone", "closing"}
   \/ pool = "pipeline" /\ phase /= "idle"
   \/ pool = "loop")
  ~>
  (\/ pool = "lanes" /\ pc \in {"idle", "finished", "destroyed"}
   \/ pool = "merge" /\ at = "closing" /\ spc = "closed"
   \/ pool = "compute" /\ cpc \in {"idle", "ended", "failed", "closed"}
   \/ pool = "pipeline" /\ phase = "idle"
   \/ pool = "loop" /\ place = "ended")
=============================================================================
