-------------------------- MODULE GroupMergeProofs --------------------------
(***************************************************************************)
(* The merge of a parallel GROUP BY returns what the serial run returns,   *)
(* and a part that runs again has all the memory of the merge, for any     *)
(* number of parts, partitions and threads and any window.                 *)
(*                                                                         *)
(* Every step is one of the scheduler, of the lanes or of Merge() itself,  *)
(* so what is proved of PartScheduler and of PartitionLanes holds here,    *)
(* and MergeInv says only how the three go together.                       *)
(***************************************************************************)
EXTENDS GroupMerge, TLAPS

SP == INSTANCE PartSchedulerProofs WITH MaxWindow <- MergeWindow, pc <- spc, task <- stask
LP == INSTANCE PartitionLanesProofs WITH
  MaxLanes <- NumLanes, MaxPending <- MergeWindow, pc <- lpc, task <- ltask

Sizes ==
  /\ NumParts \in Nat
  /\ NumLanes \in Nat
  /\ MergeWindow \in Nat \ {0}
  /\ Threads \in Nat \ {0}

\* The parts Next() has returned and those the lanes got, by where Merge() is.
HandedInv ==
  /\ numLanes = NumLanes
  /\ at \in {"next", "add", "finish", "closing"}
  /\ added <= Len(delivered)
  /\ at = "next" => /\ lpc = "idle" /\ added = Len(delivered) /\ status = "none"
                    /\ ~executor => failure = L!NoFailure
                    /\ spc \notin {"raised", "closed"}
  /\ at = "add" => /\ spc = "idle" /\ status = "none"
                   /\ lpc \in {"idle", "add", "finish"}
                   /\ lpc = "add" => added < Len(delivered)
                   /\ Len(delivered) <= added + 1
                   /\ lpc = "finish" => failure # L!NoFailure
                   /\ ~executor /\ added < Len(delivered) => failure = L!NoFailure
  /\ at \in {"finish", "closing"} => lpc \in {"idle", "finish", "finished"}
  /\ at # "next" => spc \in {"idle", "raised", "stopping", "closed"}
  /\ spc = "alone" /\ executor => L!NoLaneRuns

\* How the scheduler ended, and why no part is left.
StatusInv ==
  /\ status \in {"none", "error", "oom", "submitFailure", "raised"}
  /\ at # "closing" => ret \in {"none", "error", "oom", "submitFailure"}
  /\ status \in {"error", "oom"} => Len(delivered) < NumParts /\ fate[Len(delivered)] = status
  /\ at \in {"finish", "closing"} => /\ failure # L!NoFailure \/ added = Len(delivered)
                                     /\ failure # L!NoFailure \/ status # "none" \/ Len(delivered) = NumParts
  /\ at = "closing" => lpc = "finished" /\ result = MergeStatus

MergeInv == SP!IndInv /\ LP!IndInv /\ HandedInv /\ StatusInv

-----------------------------------------------------------------------------
(* The scheduler and the lanes of GroupMerge are those of the theorems.     *)

\* Each instance counts with its own Cardinality.
LEMMA SameCardinality ==
  \A T : /\ S!Cardinality(T) = Cardinality(T) /\ SP!Cardinality(T) = Cardinality(T)
         /\ L!Cardinality(T) = Cardinality(T) /\ LP!Cardinality(T) = Cardinality(T)
BY Zenon DEF Cardinality, S!Cardinality, SP!Cardinality, L!Cardinality, LP!Cardinality, IsFiniteSet,
       S!IsFiniteSet, SP!IsFiniteSet, L!IsFiniteSet, LP!IsFiniteSet

\* The scheduler's steps here are the steps PartSchedulerProofs is about.
LEMMA SameScheduler ==
  /\ S!Parts = SP!Parts
  /\ S!Init <=> SP!Init
  /\ \A p : S!TaskStep(p) <=> SP!TaskStep(p)
  /\ \A p : S!Live(p) <=> SP!Live(p)
  /\ S!NextCall <=> SP!NextCall
  /\ S!StopCall <=> SP!StopCall
  /\ S!StopDone <=> SP!StopDone
  /\ S!CallStep <=> SP!CallStep
  /\ S!done <=> SP!done
<1> S!Parts = SP!Parts
  BY Zenon DEF S!Parts, SP!Parts
<1> S!Init <=> SP!Init
  BY Zenon DEF S!Init, S!Parts, S!Fates, S!NoTask, SP!Init, SP!Parts, SP!Fates, SP!NoTask
<1> \A p : S!TaskStep(p) <=> SP!TaskStep(p)
  <2> S!ThreadFree <=> SP!ThreadFree
    BY SameCardinality, ZenonT(60) DEF S!ThreadFree, S!Parts, SP!ThreadFree, SP!Parts
  <2> SUFFICES ASSUME NEW p PROVE S!TaskStep(p) <=> SP!TaskStep(p)
    BY Zenon
  <2> S!TaskStart(p) <=> SP!TaskStart(p)
    BY Zenon DEF S!TaskStart, S!consumerVars, SP!TaskStart, SP!consumerVars
  <2> S!TaskSeesStop(p) <=> SP!TaskSeesStop(p)
    BY Zenon DEF S!TaskSeesStop, S!consumerVars, SP!TaskSeesStop, SP!consumerVars
  <2> S!TaskSlot(p) <=> SP!TaskSlot(p)
    BY Zenon DEF S!TaskSlot, S!TaskResults, S!consumerVars, SP!TaskSlot, SP!TaskResults, SP!consumerVars
  <2> S!TaskDone(p) <=> SP!TaskDone(p)
    BY Zenon DEF S!TaskDone, S!done, S!consumerVars, SP!TaskDone, SP!done, SP!consumerVars
  <2> QED BY Zenon DEF S!TaskStep, SP!TaskStep
<1> \A p : S!Live(p) <=> SP!Live(p)
  BY Zenon DEF S!Live, SP!Live
<1> S!NextCall <=> SP!NextCall
  BY Zenon DEF S!NextCall, S!done, SP!NextCall, SP!done
<1> S!StopCall <=> SP!StopCall
  BY Zenon DEF S!StopCall, S!BeginStop, SP!StopCall, SP!BeginStop
<1> S!StopDone <=> SP!StopDone
  BY Zenon DEF S!StopDone, S!Drop, S!NoTask, S!done, S!Parts, SP!StopDone, SP!Drop, SP!NoTask, SP!done,
         SP!Parts
<1> S!CallStep <=> SP!CallStep
  BY Zenon DEF S!CallStep, S!SubmitStep, S!TakeFront, S!TakeResult, S!TakeOutOfMemory, S!DropAhead,
         S!BeforeRetry, S!RunAlone, S!NextReturns, S!StopDone, S!SubmitReserve, S!SubmitTask,
         S!SubmitFails, S!SubmitThrows, S!Room, S!done, S!TakeReturns, S!NoTask, S!Drop,
         S!Unreserve, S!BeginStop, S!Narrowed, S!Widened, S!Parts, SP!CallStep, SP!SubmitStep,
         SP!TakeFront, SP!TakeResult, SP!TakeOutOfMemory, SP!DropAhead, SP!BeforeRetry,
         SP!RunAlone, SP!NextReturns, SP!StopDone, SP!SubmitReserve, SP!SubmitTask,
         SP!SubmitFails, SP!SubmitThrows, SP!Room, SP!done, SP!TakeReturns, SP!NoTask, SP!Drop,
         SP!Unreserve, SP!BeginStop, SP!Narrowed, SP!Widened, SP!Parts
<1> S!done <=> SP!done
  BY Zenon DEF S!done, SP!done
<1> QED BY Zenon

\* The lanes' steps here are the steps PartitionLanesProofs is about.
LEMMA SameLanes ==
  /\ L!NoFailure = LP!NoFailure
  /\ L!AllLanes = LP!AllLanes
  /\ L!Lanes = LP!Lanes
  /\ L!Init <=> LP!Init
  /\ L!NoLaneRuns <=> LP!NoLaneRuns
  /\ \A l : L!Drain(l) <=> LP!Drain(l)
  /\ L!AddCall <=> LP!AddCall
  /\ L!AddSerial <=> LP!AddSerial
  /\ L!WaitCall <=> LP!WaitCall
  /\ L!CallStep <=> LP!CallStep
<1> L!NoFailure = LP!NoFailure
  BY Zenon DEF L!NoFailure, L!NoPart, LP!NoFailure, LP!NoPart
<1> L!AllLanes = LP!AllLanes
  BY Zenon DEF L!AllLanes, LP!AllLanes
<1> L!Lanes = LP!Lanes
  BY Zenon DEF L!Lanes, LP!Lanes
<1> L!Init <=> LP!Init
  BY Zenon DEF L!Init, L!Failures, L!AllLanes, L!NoPart, L!Parts, L!NoFailure, LP!Init, LP!Failures,
         LP!AllLanes, LP!NoPart, LP!Parts, LP!NoFailure
<1> L!NoLaneRuns <=> LP!NoLaneRuns
  BY Zenon DEF L!NoLaneRuns, L!AllLanes, LP!NoLaneRuns, LP!AllLanes
<1> \A l : L!Drain(l) <=> LP!Drain(l)
  <2> L!ThreadFree <=> LP!ThreadFree
    BY SameCardinality, ZenonT(60) DEF L!ThreadFree, L!AllLanes, LP!ThreadFree, LP!AllLanes
  <2> \A new : L!Fail(new) <=> LP!Fail(new)
    BY Zenon DEF L!Fail, L!NoFailure, L!Before, L!NoPart, LP!Fail, LP!NoFailure, LP!Before, LP!NoPart
  <2> \A parts, ends : L!Done(parts, ends) <=> LP!Done(parts, ends)
    BY SameCardinality, ZenonT(60) DEF L!Done, L!Parts, LP!Done, LP!Parts
  <2> \A l, rest : L!DrainNext(l, rest) <=> LP!DrainNext(l, rest)
    BY Zenon DEF L!DrainNext, L!NoPart, LP!DrainNext, LP!NoPart
  <2> SUFFICES ASSUME NEW l PROVE L!Drain(l) <=> LP!Drain(l)
    BY Zenon
  <2> L!DrainStart(l) <=> LP!DrainStart(l)
    BY Zenon DEF L!DrainStart, LP!DrainStart
  <2> L!DrainMerged(l) <=> LP!DrainMerged(l)
    BY Zenon DEF L!DrainMerged, LP!DrainMerged
  <2> L!DrainFailed(l) <=> LP!DrainFailed(l)
    BY Zenon DEF L!DrainFailed, LP!DrainFailed
  <2> QED BY Zenon DEF L!Drain, LP!Drain
<1> L!AddCall <=> LP!AddCall
  BY Zenon DEF L!AddCall, LP!AddCall
<1> L!AddSerial <=> LP!AddSerial
  BY Zenon DEF L!AddSerial, L!Lanes, L!NoFailure, L!AllLanes, L!Fail, L!NoPart, L!Before, LP!AddSerial,
         LP!Lanes, LP!NoFailure, LP!AllLanes, LP!Fail, LP!NoPart, LP!Before
<1> L!WaitCall <=> LP!WaitCall
  BY Zenon DEF L!WaitCall, LP!WaitCall
<1> L!CallStep <=> LP!CallStep
  <2> \A new : L!Fail(new) <=> LP!Fail(new)
    BY Zenon DEF L!Fail, L!NoFailure, L!Before, L!NoPart, LP!Fail, LP!NoFailure, LP!Before, LP!NoPart
  <2> /\ \A refuse : L!Takers(refuse) = LP!Takers(refuse)
        /\ \A pressure : L!AddMayGo(pressure) <=> LP!AddMayGo(pressure)
    BY Zenon DEF L!Takers, L!AddMayGo, L!Lanes, L!NoFailure, L!NoPart, LP!Takers, LP!AddMayGo, LP!Lanes,
           LP!NoFailure, LP!NoPart
  <2> L!AddSleeps <=> LP!AddSleeps
    BY Zenon DEF L!AddSleeps, LP!AddSleeps
  <2> L!AddAfterFailure <=> LP!AddAfterFailure
    BY Zenon DEF L!AddAfterFailure, LP!AddAfterFailure
  <2> L!AddNoMemory <=> LP!AddNoMemory
    BY Zenon DEF L!AddNoMemory, LP!AddNoMemory
  <2> L!AddQueues <=> LP!AddQueues
    BY SameCardinality, ZenonT(60) DEF L!AddQueues, LP!AddQueues
  <2> L!WaitSleeps <=> LP!WaitSleeps
    BY Zenon DEF L!WaitSleeps, LP!WaitSleeps
  <2> L!WaitReturns <=> LP!WaitReturns
    BY Zenon DEF L!WaitReturns, LP!WaitReturns
  <2> QED BY Zenon DEF L!CallStep, LP!CallStep
<1> QED BY Zenon

\* A step of the scheduler, or none, keeps the scheduler's invariant.
LEMMA SchedulerKeeps ==
  ASSUME Sizes, SP!IndInv,
         \/ \E p \in S!Parts : S!TaskStep(p)
         \/ S!NextCall \/ S!CallStep \/ S!StopCall \/ S!StopDone
         \/ UNCHANGED schedulerVars
  PROVE  SP!IndInv'
<1>1. CASE UNCHANGED schedulerVars
  <2>1. UNCHANGED SP!vars
    BY <1>1, ZenonT(60) DEF schedulerVars, SP!vars, SP!consumerVars
  <2> QED BY <2>1, SP!NextInv, ZenonT(60) DEF Sizes
<1>2. CASE ~UNCHANGED schedulerVars
  <2>1. SP!Next
    BY <1>2, SameScheduler, ZenonT(60) DEF SP!Next, SP!CallStep
  <2> QED BY <2>1, SP!NextInv, ZenonT(60) DEF Sizes
<1> QED BY <1>1, <1>2, ZenonT(60)

\* A step of the lanes, or none, keeps the lanes' invariant.
LEMMA LanesKeep ==
  ASSUME Sizes, LP!IndInv, numLanes = NumLanes,
         \/ \E l \in L!Lanes : L!Drain(l)
         \/ L!AddCall \/ L!AddSerial \/ L!WaitCall \/ L!CallStep
         \/ UNCHANGED lanesVars
  PROVE  LP!IndInv'
<1>1. CASE UNCHANGED lanesVars
  <2>1. UNCHANGED LP!vars
    BY <1>1, ZenonT(60) DEF lanesVars, LP!vars
  <2> QED BY <2>1, LP!NextInd, ZenonT(60) DEF Sizes
<1>2. CASE ~UNCHANGED lanesVars
  <2>1. L!Lanes = LP!AllLanes
    BY Zenon DEF L!Lanes, LP!AllLanes
  <2>2. LP!Next
    BY <1>2, <2>1, SameLanes, ZenonT(60) DEF LP!Next
  <2> QED BY <2>2, LP!NextInd, ZenonT(60) DEF Sizes
<1> QED BY <1>1, <1>2, ZenonT(60)

-----------------------------------------------------------------------------
(* The invariant, action by action.                                         *)

\* Merge() as it starts.
LEMMA InitInd ==
  ASSUME Sizes, Init
  PROVE  MergeInv
<1> SP!IndInv
  BY SameScheduler, SP!InitInv, ZenonT(60) DEF Init, Sizes
<1> LP!IndInv
  BY SameLanes, LP!InitInd, ZenonT(60) DEF Init, Sizes
<1> delivered = <<>> /\ Len(delivered) = 0 /\ added = 0 /\ lpc = "idle" /\ spc = "idle" /\ ret = "none"
      /\ failure = L!NoFailure
  BY Zenon DEF Init, S!Init, L!Init
<1> HandedInv /\ StatusInv
  BY DEF Init, HandedInv, StatusInv
<1> QED BY Zenon DEF MergeInv

\* A part's task: Merge() sees it only through the scheduler.
LEMMA PartTaskInd ==
  ASSUME Sizes, MergeInv, NEW p \in S!Parts, PartTask(p)
  PROVE  MergeInv'
<1> SP!IndInv /\ LP!IndInv /\ HandedInv /\ StatusInv
  BY Zenon DEF MergeInv
<1> S!TaskStep(p) /\ UNCHANGED <<at, status, result, lanesVars>>
  BY Zenon DEF PartTask
<1> SP!IndInv' /\ LP!IndInv'
  BY SchedulerKeeps, LanesKeep, ZenonT(60) DEF HandedInv
<1> UNCHANGED <<executor, fate, spc, ret, delivered>>
  BY Zenon DEF S!TaskStep, S!TaskStart, S!TaskSeesStop, S!TaskSlot, S!TaskDone, S!consumerVars
<1> UNCHANGED <<numLanes, lpc, added, ltask, failure>>
  BY Zenon DEF lanesVars
<1> UNCHANGED <<L!NoLaneRuns, MergeStatus>>
  BY Zenon DEF L!NoLaneRuns, MergeStatus
<1> HandedInv' /\ StatusInv'
  BY ZenonT(60) DEF HandedInv, StatusInv
<1> QED BY Zenon DEF MergeInv

\* A lane's task: it may leave a failure.
LEMMA LaneTaskInd ==
  ASSUME Sizes, MergeInv, NEW l \in L!Lanes, LaneTask(l)
  PROVE  MergeInv'
<1> SP!IndInv /\ LP!IndInv /\ HandedInv /\ StatusInv
  BY Zenon DEF MergeInv
<1> L!Drain(l) /\ UNCHANGED <<at, status, result, schedulerVars>>
  BY Zenon DEF LaneTask
<1> SP!IndInv' /\ LP!IndInv'
  BY SchedulerKeeps, LanesKeep, ZenonT(60) DEF HandedInv
<1> l \in LP!AllLanes /\ l \in L!AllLanes
  BY Zenon DEF HandedInv, L!Lanes, LP!AllLanes, L!AllLanes
<1> /\ ltask[l] # "none" /\ executor
    /\ UNCHANGED <<executor, numLanes, mergeable, lpc, added, refused>>
    /\ failure # L!NoFailure => failure' # L!NoFailure
  BY SameLanes, LP!DrainSeen, ZenonT(60) DEF Sizes
<1> ~L!NoLaneRuns /\ ~LP!NoLaneRuns
  BY Zenon DEF L!NoLaneRuns, LP!NoLaneRuns
<1> lpc # "finished" /\ at # "closing" /\ spc # "alone"
  BY Zenon DEF LP!IndInv, LP!PlaceInv, HandedInv, StatusInv
<1> UNCHANGED <<fate, spc, ret, delivered>>
  BY Zenon DEF schedulerVars
<1> HandedInv' /\ StatusInv'
  BY ZenonT(60) DEF HandedInv, StatusInv, L!NoFailure, L!NoPart
<1> QED BY Zenon DEF MergeInv
\* Next() is called.
LEMMA TakeCallInd ==
  ASSUME Sizes, MergeInv, TakeCall
  PROVE  MergeInv'
<1> SP!IndInv /\ LP!IndInv /\ HandedInv /\ StatusInv
  BY Zenon DEF MergeInv
<1> at = "next" /\ S!NextCall /\ UNCHANGED <<at, status, result, lanesVars>>
  BY Zenon DEF TakeCall
<1> SP!IndInv' /\ LP!IndInv'
  BY SchedulerKeeps, LanesKeep, ZenonT(60) DEF HandedInv
<1> /\ UNCHANGED <<executor, fate, ret, delivered>>
    /\ spc' \in {"take", "alone"}
    /\ executor => spc' = "take"
  BY ZenonT(60) DEF S!NextCall
<1> UNCHANGED <<numLanes, lpc, added, ltask, failure>>
  BY ZenonT(60) DEF lanesVars
<1> HandedInv' /\ StatusInv'
  BY Zenon DEF HandedInv, StatusInv
<1> QED BY Zenon DEF MergeInv

\* A step of Next(): when it returns a part, the lanes have every part before it; when it
\* fails, they have every part before the one that failed.
LEMMA TakeStepInd ==
  ASSUME Sizes, MergeInv, TakeStep
  PROVE  MergeInv'
<1> SP!IndInv /\ LP!IndInv /\ HandedInv /\ StatusInv
  BY Zenon DEF MergeInv
<1> at = "next" /\ S!CallStep /\ UNCHANGED <<result, lanesVars>>
  BY Zenon DEF TakeStep
<1> SP!IndInv' /\ LP!IndInv'
  BY SchedulerKeeps, LanesKeep, ZenonT(60) DEF HandedInv
<1> /\ UNCHANGED <<executor, fate>>
    /\ spc' = "idle" => Len(delivered') = Len(delivered) + 1
    /\ spc' # "idle" => UNCHANGED delivered
    /\ spc' = "closed" => outcome' = ret /\ UNCHANGED ret
    /\ ret' \in {ret, "error", "oom", "submitFailure", "cancelled", "lost"}
    /\ spc' = "alone" => spc = "beforeRetry"
  BY SameScheduler, SP!CallEffect, ZenonT(60) DEF Sizes
<1> UNCHANGED <<numLanes, lpc, added, ltask, failure>> /\ UNCHANGED L!NoLaneRuns
  BY ZenonT(60) DEF lanesVars, L!NoLaneRuns
<1> added \in Nat /\ added = Len(delivered) /\ lpc = "idle" /\ status = "none"
  BY SMTT(60) DEF HandedInv, LP!IndInv, LP!LanesTypeOK
<1> /\ ret' = "none" <=> spc' \notin {"stopping", "closed"}
    /\ ret' \notin {"cancelled", "lost"}
    /\ ret' \in {"error", "oom"} => Len(delivered') < NumParts /\ ret' = fate'[Len(delivered')]
  BY Zenon DEF SP!IndInv, SP!DeliveredInv
<1> ret' \in {"none", "error", "oom", "submitFailure"}
  BY Zenon DEF StatusInv
<1>1. CASE spc' = "idle"
  <2> at' = "add" /\ status' = "none"
    BY <1>1, Zenon DEF TakeStep
  <2> QED BY <1>1, SMTT(60) DEF HandedInv, StatusInv, MergeInv
<1>2. CASE spc' = "closed"
  <2> at' = "finish" /\ status' = ret' /\ ret' # "none"
    BY <1>2, ZenonT(60) DEF TakeStep
  <2> QED BY <1>2, ZenonT(60) DEF HandedInv, StatusInv, MergeInv
<1>3. CASE spc' = "raised"
  <2> at' = "finish" /\ status' = "raised"
    BY <1>3, ZenonT(60) DEF TakeStep
  <2> QED BY <1>3, ZenonT(60) DEF HandedInv, StatusInv, MergeInv
<1>4. CASE spc' \notin {"idle", "closed", "raised"}
  <2> at' = "next" /\ status' = "none" /\ (spc' = "alone" => L!NoLaneRuns)
    BY <1>4, Zenon DEF TakeStep, MayRetry
  <2> QED BY <1>4, ZenonT(60) DEF HandedInv, StatusInv, MergeInv
<1> QED BY <1>1, <1>2, <1>3, <1>4, ZenonT(60)

\* Add is called with the part Next() returned; without an executor it merges the part at once.
LEMMA AddCallInd ==
  ASSUME Sizes, MergeInv, AddCall
  PROVE  MergeInv'
<1> SP!IndInv /\ LP!IndInv /\ HandedInv /\ StatusInv
  BY Zenon DEF MergeInv
<1> /\ at = "add" /\ lpc = "idle" /\ added < Len(delivered)
    /\ L!AddCall \/ L!AddSerial
    /\ UNCHANGED <<at, status, result, schedulerVars>>
  BY Zenon DEF AddCall
<1> SP!IndInv' /\ LP!IndInv'
  BY SchedulerKeeps, LanesKeep, ZenonT(60) DEF HandedInv
<1> UNCHANGED <<executor, fate, spc, ret, delivered>>
  BY Zenon DEF schedulerVars
<1> added \in Nat
  BY SMTT(60) DEF LP!IndInv, LP!LanesTypeOK
<1> Len(delivered) \in Nat
  BY SMTT(60) DEF SP!IndInv, SP!TypeOK
<1> \/ executor /\ lpc' = "add" /\ UNCHANGED <<numLanes, added, failure>>
    \/ ~executor /\ lpc' = "idle" /\ added' = added + 1 /\ UNCHANGED numLanes
  BY Zenon DEF L!AddCall, L!AddSerial, HandedInv
<1> HandedInv' /\ StatusInv'
  BY DEF HandedInv, StatusInv
<1> QED BY Zenon DEF MergeInv

\* A step of Add.
LEMMA AddStepInd ==
  ASSUME Sizes, MergeInv, AddStep
  PROVE  MergeInv'
<1> SP!IndInv /\ LP!IndInv /\ HandedInv /\ StatusInv
  BY Zenon DEF MergeInv
<1> at = "add" /\ lpc = "add" /\ L!CallStep /\ UNCHANGED <<at, status, result, schedulerVars>>
  BY Zenon DEF AddStep
<1> SP!IndInv' /\ LP!IndInv'
  BY SchedulerKeeps, LanesKeep, ZenonT(60) DEF HandedInv
<1> UNCHANGED <<executor, fate, spc, ret, delivered>>
  BY Zenon DEF schedulerVars
<1> added \in Nat
  BY SMTT(60) DEF LP!IndInv, LP!LanesTypeOK
<1> Len(delivered) \in Nat
  BY SMTT(60) DEF SP!IndInv, SP!TypeOK
<1> executor
  BY Zenon DEF LP!IndInv, LP!PlaceInv
<1> /\ UNCHANGED numLanes
    /\ lpc' \in {"add", "idle", "finish"}
    /\ lpc' = "add" => added' = added
    /\ lpc' = "idle" => added' = added + 1
    /\ lpc' = "finish" => failure' # L!NoFailure /\ added' \in {added, added + 1}
  BY SameLanes, LP!CallSeen, ZenonT(60) DEF Sizes
<1> HandedInv' /\ StatusInv'
  BY DEF HandedInv, StatusInv
<1> QED BY Zenon DEF MergeInv
\* The loop of Merge() moves on: Add has returned, or every part is added.
LEMMA LoopInd ==
  ASSUME Sizes, MergeInv, AddReturns \/ AddFails \/ LoopEnds
  PROVE  MergeInv'
<1> SP!IndInv /\ LP!IndInv /\ HandedInv /\ StatusInv
  BY Zenon DEF MergeInv
<1> UNCHANGED <<status, result, schedulerVars, lanesVars>>
  BY Zenon DEF AddReturns, AddFails, LoopEnds
<1> SP!IndInv' /\ LP!IndInv'
  BY SchedulerKeeps, LanesKeep, ZenonT(60) DEF HandedInv
<1> UNCHANGED <<executor, fate, spc, ret, delivered, numLanes, lpc, added, ltask, failure>>
  BY ZenonT(60) DEF schedulerVars, lanesVars
<1>1. CASE AddReturns
  <2> at = "add" /\ at' = "next" /\ lpc = "idle" /\ added = Len(delivered)
        /\ (~executor => failure = L!NoFailure)
    BY <1>1, ZenonT(60) DEF AddReturns
  <2> QED BY ZenonT(60) DEF HandedInv, StatusInv, MergeInv
<1>2. CASE AddFails
  <2> at = "add" /\ at' = "finish" /\ lpc \in {"finish", "idle"} /\ failure # L!NoFailure
    BY <1>2, ZenonT(60) DEF AddFails, HandedInv
  <2> QED BY ZenonT(60) DEF HandedInv, StatusInv, MergeInv
<1>3. CASE LoopEnds
  <2> at = "next" /\ at' = "finish" /\ spc = "idle" /\ SP!done
    BY <1>3, SameScheduler, ZenonT(60) DEF LoopEnds
  <2> Len(delivered) = nextResult /\ ~stopped /\ nextResult \in 0 .. NumParts
    BY Zenon DEF SP!IndInv, SP!DeliveredInv, SP!StopInv, SP!TypeOK
  <2> Len(delivered) = NumParts
    BY DEF SP!done, Sizes
  <2> QED BY Zenon DEF HandedInv, StatusInv, MergeInv
<1> QED BY <1>1, <1>2, <1>3, ZenonT(60)

\* Finish() waits for the lanes.
LEMMA LanesFinishInd ==
  ASSUME Sizes, MergeInv, LanesFinish
  PROVE  MergeInv'
<1> SP!IndInv /\ LP!IndInv /\ HandedInv /\ StatusInv
  BY Zenon DEF MergeInv
<1> /\ at = "finish" /\ lpc # "finished"
    /\ (L!WaitCall /\ lpc' = "finish") \/ L!CallStep
    /\ UNCHANGED <<at, status, result, schedulerVars>>
  BY Zenon DEF LanesFinish
<1> SP!IndInv' /\ LP!IndInv'
  BY SchedulerKeeps, LanesKeep, ZenonT(60) DEF HandedInv
<1> UNCHANGED <<executor, fate, spc, ret, delivered>>
  BY Zenon DEF schedulerVars
<1> lpc' \in {"finish", "finished"} /\ UNCHANGED <<numLanes, added, ltask, failure>>
  <2>1. CASE L!WaitCall /\ lpc' = "finish"
    BY <2>1, ZenonT(60) DEF L!WaitCall
  <2>2. CASE L!CallStep
    BY <2>2, SameLanes, LP!CallSeen, ZenonT(60) DEF HandedInv, Sizes
  <2> QED BY <2>1, <2>2, ZenonT(60)
<1> spc # "alone"
  BY Zenon DEF HandedInv
<1> HandedInv' /\ StatusInv'
  BY Zenon DEF HandedInv, StatusInv
<1> QED BY Zenon DEF MergeInv

\* Merge() returns, and the scheduler goes.
LEMMA CloseInd ==
  ASSUME Sizes, MergeInv, MergeReturns \/ Reset
  PROVE  MergeInv'
<1> SP!IndInv /\ LP!IndInv /\ HandedInv /\ StatusInv
  BY Zenon DEF MergeInv
<1> UNCHANGED <<status, lanesVars>> /\ (UNCHANGED schedulerVars \/ S!StopCall \/ S!StopDone)
  BY Zenon DEF MergeReturns, Reset
<1> SP!IndInv' /\ LP!IndInv'
  BY SchedulerKeeps, LanesKeep, ZenonT(60) DEF HandedInv
<1> UNCHANGED <<numLanes, lpc, added, ltask, failure>> /\ UNCHANGED MergeStatus
  BY Zenon DEF lanesVars, MergeStatus
<1>1. CASE MergeReturns
  <2> at = "finish" /\ at' = "closing" /\ lpc = "finished" /\ result' = MergeStatus
        /\ UNCHANGED <<executor, fate, spc, delivered>>
    BY <1>1, ZenonT(60) DEF MergeReturns, schedulerVars
  <2> QED BY Zenon DEF HandedInv, StatusInv, MergeInv
<1>2. CASE Reset
  <2> at = "closing" /\ UNCHANGED <<at, result, executor, fate, delivered>> /\ spc' \in {"stopping", "closed"}
    BY <1>2, Zenon DEF Reset, S!StopCall, S!BeginStop, S!StopDone
  <2> QED BY Zenon DEF HandedInv, StatusInv, MergeInv
<1> QED BY <1>1, <1>2, ZenonT(60)

\* Every step keeps the invariant.
LEMMA NextInd ==
  ASSUME Sizes, MergeInv, [Next]_vars
  PROVE  MergeInv'
<1>1. CASE Next
  BY <1>1, PartTaskInd, LaneTaskInd, TakeCallInd, TakeStepInd, AddCallInd, AddStepInd, LoopInd,
     LanesFinishInd, CloseInd, ZenonT(60) DEF Next, ConsumerStep
<1>2. CASE UNCHANGED vars
  <2> UNCHANGED <<at, status, result, schedulerVars, lanesVars>>
    BY <1>2, ZenonT(60) DEF vars
  <2> SP!IndInv' /\ LP!IndInv' /\ HandedInv /\ StatusInv
    BY SchedulerKeeps, LanesKeep, ZenonT(60) DEF MergeInv, HandedInv
  <2> UNCHANGED <<executor, fate, spc, ret, delivered, numLanes, lpc, added, ltask, failure>>
    BY Zenon DEF schedulerVars, lanesVars
  <2> UNCHANGED <<L!NoLaneRuns, MergeStatus>>
    BY Zenon DEF L!NoLaneRuns, MergeStatus
  <2> HandedInv' /\ StatusInv'
    BY ZenonT(60) DEF HandedInv, StatusInv
  <2> QED BY Zenon DEF MergeInv
<1> QED BY <1>1, <1>2, ZenonT(60)
-----------------------------------------------------------------------------
(* What the invariant says of Merge().                                      *)

\* The least number of a set is the one that is chosen.
LEMMA LeastChosen ==
  ASSUME NEW T, T \subseteq Int, NEW x \in T, \A y \in T : x <= y
  PROVE  (CHOOSE p \in T : \A q \in T : p <= q) = x
<1>1. \A z \in T : (\A y \in T : z <= y) => z = x
  OBVIOUS
<1> DEFINE c == CHOOSE p \in T : \A q \in T : p <= q
<1>2. c \in T /\ \A y \in T : c <= y
  <2>1. \E p \in T : \A q \in T : p <= q
    BY Zenon
  <2> QED BY <2>1, ZenonT(60)
<1> HIDE DEF c
<1> c = x
  BY <1>1, <1>2, ZenonT(60)
<1> QED BY Zenon DEF c

\* The failure kept by the lanes, where there is one, is of the serial run's first bad part.
LEMMA FailureIsSerial ==
  ASSUME Sizes, MergeInv, at = "closing", refused = {}, failure # L!NoFailure
  PROVE  SerialStatus = <<"merge", failure>>
<1> SP!IndInv /\ LP!IndInv /\ HandedInv /\ StatusInv
  BY Zenon DEF MergeInv
<1> LP!FailureIsFirst /\ lpc = "finished" /\ numLanes = NumLanes /\ added <= Len(delivered)
  BY LP!IndImplies, ZenonT(60) DEF Sizes, StatusInv, HandedInv
<1> failure \in LP!Bad /\ \A f \in LP!Bad : f = failure \/ LP!Before(failure, f)
  BY SameLanes, ZenonT(60) DEF LP!FailureIsFirst
<1> added \in Nat /\ \A p \in S!Parts : p < added => fate[p] = "ok"
  <2> added \in 0 .. NumParts /\ Len(delivered) \in Nat
    BY SMTT(60) DEF LP!IndInv, LP!LanesTypeOK, SP!IndInv, SP!TypeOK
  <2> \A i \in 1 .. Len(delivered) : fate[i - 1] = "ok"
    BY Zenon DEF SP!IndInv, SP!DeliveredInv
  <2> SUFFICES ASSUME NEW p \in S!Parts, p < added PROVE fate[p] = "ok"
    BY SMTT(60)
  <2> p + 1 \in 1 .. Len(delivered) /\ (p + 1) - 1 = p
    BY SMTT(60) DEF S!Parts, Sizes
  <2> QED BY Zenon
<1>1. \A p \in S!Parts, l \in L!Lanes : p < added /\ ~mergeable[<<p, l>>] => <<p, l>> \in LP!Bad
  BY SMTT(60) DEF S!Parts, L!Lanes, LP!Bad, LP!Failures, LP!Parts, LP!AllLanes, Sizes
<1>2. PICK p \in S!Parts, l \in L!Lanes : failure = <<p, l>> /\ p < added /\ ~mergeable[<<p, l>>]
  <2> /\ failure \in LP!Parts \X LP!AllLanes /\ failure[1] < added /\ ~mergeable[failure]
      /\ LP!Parts = S!Parts /\ LP!AllLanes = L!Lanes
    BY Zenon DEF S!Parts, L!Lanes, LP!Bad, LP!Failures, LP!Parts, LP!AllLanes
  <2> failure[1] \in S!Parts /\ failure[2] \in L!Lanes /\ failure = <<failure[1], failure[2]>>
    BY SMTT(60)
  <2> QED BY Zenon
<1> DEFINE bad == {q \in S!Parts : PartFails(q) \/ MergeFails(q) # {}}
<1> p \in Int /\ l \in Int /\ bad \subseteq Int /\ MergeFails(p) \subseteq Int /\ l \in MergeFails(p)
  BY <1>2, SMTT(60) DEF S!Parts, L!Lanes, MergeFails, Sizes
<1>3. \A q \in S!Parts, m \in L!Lanes : q < added /\ ~mergeable[<<q, m>>] => p < q \/ (p = q /\ l <= m)
  BY <1>1, <1>2, SMTT(60) DEF LP!Before, S!Parts, L!Lanes, Sizes
<1>4. p \in bad /\ bad # {} /\ \A q \in bad : p <= q
  <2> p \in bad
    BY Zenon
  <2> SUFFICES ASSUME NEW q \in bad, ~(p <= q) PROVE FALSE
    BY Zenon
  <2> q \in S!Parts /\ q < added
    BY <1>2, SMTT(60) DEF S!Parts, Sizes
  <2> ~PartFails(q)
    BY Zenon DEF PartFails
  <2>1. MergeFails(q) # {}
    BY Zenon
  <2> PICK m \in L!Lanes : ~mergeable[<<q, m>>]
    BY <2>1, ZenonT(60) DEF MergeFails
  <2> QED BY <1>3, SMTT(60)
<1>5. \A m \in MergeFails(p) : l <= m
  BY <1>2, <1>3, SMTT(60) DEF MergeFails, S!Parts
<1>6. (CHOOSE r \in bad : \A q \in bad : r <= q) = p
  BY <1>4, LeastChosen, ZenonT(60)
<1>7. (CHOOSE r \in MergeFails(p) : \A m \in MergeFails(p) : r <= m) = l
  BY <1>5, LeastChosen, ZenonT(60)
<1> ~PartFails(p)
  BY <1>2, ZenonT(60) DEF PartFails
<1> HIDE DEF bad
<1>8. SerialStatus = LET first == CHOOSE r \in bad : \A q \in bad : r <= q
                     IN IF bad = {} THEN <<"ok">>
                        ELSE IF PartFails(first) THEN <<fate[first]>>
                        ELSE <<"merge", <<first, CHOOSE r \in MergeFails(first) :
                                                   \A m \in MergeFails(first) : r <= m>>>>
  BY Zenon DEF SerialStatus, bad
<1> QED BY <1>2, <1>4, <1>6, <1>7, <1>8, ZenonT(60)

\* Without one, the serial run's first failure is of the part the scheduler failed at.
LEMMA SuccessIsSerial ==
  ASSUME Sizes, MergeInv, at = "closing", refused = {}, failure = L!NoFailure,
         status \notin {"submitFailure", "raised"}
  PROVE  SerialStatus = IF status # "none" THEN <<status>> ELSE <<"ok">>
<1> SP!IndInv /\ LP!IndInv /\ HandedInv /\ StatusInv
  BY Zenon DEF MergeInv
<1> DEFINE n == Len(delivered)
<1> /\ LP!FailureIsFirst /\ lpc = "finished" /\ numLanes = NumLanes /\ added = n
    /\ status \in {"none", "error", "oom"}
    /\ status = "none" => n = NumParts
    /\ status # "none" => n < NumParts /\ fate[n] = status
  BY LP!IndImplies, ZenonT(60) DEF Sizes, StatusInv, HandedInv
<1> n \in Nat /\ n <= NumParts
  BY SMTT(60) DEF SP!IndInv, SP!TypeOK, SP!DeliveredInv
<1> \A p \in S!Parts : p < n => fate[p] = "ok"
  <2> \A i \in 1 .. n : fate[i - 1] = "ok"
    BY Zenon DEF SP!IndInv, SP!DeliveredInv
  <2> SUFFICES ASSUME NEW p \in S!Parts, p < n PROVE fate[p] = "ok"
    BY Zenon
  <2> p + 1 \in 1 .. n /\ (p + 1) - 1 = p
    BY SMTT(60) DEF S!Parts, Sizes
  <2> QED BY Zenon
<1> HIDE DEF n
<1>1. LP!Bad = {}
  <2> failure \notin LP!Bad
    BY SameLanes, SMTT(60) DEF LP!NoFailure, LP!NoPart, LP!Bad, LP!Failures, LP!Parts, Sizes
  <2> QED BY Zenon DEF LP!FailureIsFirst
<1>2. \A p \in S!Parts, l \in L!Lanes : p < n => mergeable[<<p, l>>]
  BY <1>1, SMTT(60) DEF S!Parts, L!Lanes, LP!Bad, LP!Failures, LP!Parts, LP!AllLanes, Sizes
<1> DEFINE bad == {q \in S!Parts : PartFails(q) \/ MergeFails(q) # {}}
<1>3. bad \subseteq Int /\ \A q \in bad : n <= q /\ q < NumParts
  <2> SUFFICES ASSUME NEW q \in S!Parts, q < n PROVE ~PartFails(q) /\ MergeFails(q) = {}
    BY SMTT(60) DEF S!Parts, Sizes
  <2> QED BY <1>2, Zenon DEF PartFails, MergeFails
<1>4. status # "none" => n \in bad /\ PartFails(n)
  BY SMTT(60) DEF PartFails, S!Parts, Sizes
<1>5. status = "none" => bad = {}
  BY <1>3, SMTT(60)
<1> DEFINE first == CHOOSE r \in bad : \A q \in bad : r <= q
<1>6. status # "none" => first = n
  BY <1>3, <1>4, LeastChosen, Zenon
<1>7. /\ bad = {} => SerialStatus = <<"ok">>
      /\ bad # {} /\ PartFails(first) => SerialStatus = <<fate[first]>>
  BY ZenonT(60) DEF SerialStatus
<1> HIDE DEF bad, first
<1>8. CASE status = "none"
  BY <1>5, <1>7, <1>8, ZenonT(60)
<1>9. CASE status # "none"
  BY <1>4, <1>6, <1>7, <1>9, ZenonT(60)
<1> QED BY <1>8, <1>9, ZenonT(60)

\* The invariant is enough.
LEMMA InvImplies ==
  ASSUME Sizes, MergeInv
  PROVE  MergeSameAsSerial
<1> SP!IndInv /\ LP!IndInv /\ HandedInv /\ StatusInv
  BY Zenon DEF MergeInv
<1>1. RetryHasAllMemory
  <2> SUFFICES ASSUME spc = "alone", executor
               PROVE  pending = 0 /\ L!NoLaneRuns /\ \A p \in S!Parts : ~S!Live(p) /\ slots[p] = "none"
    BY Zenon DEF RetryHasAllMemory
  <2>1. L!NoLaneRuns /\ pending = 0
    BY SameLanes, LP!IdleHoldsNone, ZenonT(60) DEF HandedInv, Sizes
  <2>2. \A p \in S!Parts : ~S!Live(p) /\ slots[p] = "none"
    BY SameScheduler, SP!NoTaskInRetry, ZenonT(60) DEF SP!AloneInRetry, Sizes
  <2> QED BY <2>1, <2>2, ZenonT(60)
<1>2. SameAsSerial
  <2> SUFFICES ASSUME at = "closing", refused = {}, status \notin {"submitFailure", "raised"}
               PROVE  result = SerialStatus
    BY Zenon DEF SameAsSerial
  <2> result = MergeStatus
    BY Zenon DEF StatusInv
  <2> QED BY FailureIsSerial, SuccessIsSerial, ZenonT(60) DEF MergeStatus
<1> QED BY <1>1, <1>2, ZenonT(60) DEF MergeSameAsSerial

\* Merge() of a parallel GROUP BY returns what the serial run returns, and a part that runs
\* again after running out of memory has all the memory of the merge, whatever the number of
\* parts, partitions and threads, the window and the timing (part_operators.cc,
\* PartGroupAggregateOperator::Merge: "A merge failure is of an earlier part than any failure
\* of the scheduler seen after it").
THEOREM MergeCorrect == ASSUME Sizes PROVE Spec => []MergeSameAsSerial
<1>1. Init => MergeInv
  BY InitInd, ZenonT(60)
<1>2. MergeInv /\ [Next]_vars => MergeInv'
  BY NextInd, ZenonT(60)
<1>3. MergeInv => MergeSameAsSerial
  BY InvImplies, Zenon
<1> QED BY <1>1, <1>2, <1>3, PTL DEF Spec
=============================================================================
