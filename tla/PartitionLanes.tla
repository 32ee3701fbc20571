--------------------------- MODULE PartitionLanes ---------------------------
(***************************************************************************)
(* PartitionLanes (src/exec/partition_lanes.{h,cc}): merges the parts of a *)
(* query into partitioned state, one lane per partition.  The consumer     *)
(* hands each part to every lane (Add); a lane with parts queued has one   *)
(* task of the executor, which merges them one after another (Drain).      *)
(*                                                                         *)
(* The steps are the critical sections of `mu_`; a merge itself runs       *)
(* between two of them, and `merging` is the part it works on.  The        *)
(* condition variable is explicit: a consumer whose predicate is false     *)
(* sleeps and looks again only when `changed_` is notified.                *)
(*                                                                         *)
(* Whether a merge succeeds depends on its part and lane alone; queuing a  *)
(* part may fail at any time.                                              *)
(***************************************************************************)
EXTENDS Integers, Sequences, FiniteSets

CONSTANTS
  NumParts,    \* the parts added, in order
  MaxLanes,    \* up to so many partitions
  MaxPending,  \* max_pending of the constructor
  Threads      \* the executor's threads

ASSUME LanesAssumption ==
  /\ NumParts \in Nat
  /\ MaxLanes \in Nat
  /\ MaxPending \in Nat \ {0}   \* the constructor raises a smaller one to 1
  /\ Threads \in Nat \ {0}

VARIABLES
  executor,   \* whether there is an executor
  numLanes,   \* lanes_.size()
  mergeable,  \* whether the merge of a part into a lane succeeds
  pc,         \* the consumer's place
  awake,      \* the consumer has yet to look at its wait's predicate
  added,      \* the parts Add was called with: 0 .. added - 1
  refused,    \* the parts and lanes that could not be queued
  queue,      \* Lane::queue, the parts by number
  task,       \* a lane's task: Lane::running is that there is one
  failed,     \* Lane::failed
  merging,    \* the part a lane's task merges
  merged,     \* the parts merged into a lane, in order
  remaining,  \* Part::remaining; the part's merge function is held while it is not 0
  pending,    \* pending_
  failure     \* failure_

vars == <<executor, numLanes, mergeable, pc, awake, added, refused, queue, task, failed, merging,
          merged, remaining, pending, failure>>

Parts == 0 .. NumParts - 1
AllLanes == 0 .. MaxLanes - 1
Lanes == 0 .. numLanes - 1

NoPart == -1
NoFailure == <<NoPart, 0>>

Failures == Parts \X AllLanes

\* "waitLanes" is Wait() of the retry hook, "finish" Finish(), "destroy" the
\* destructor.
Places == {"idle", "add", "waitLanes", "finish", "destroy", "finished", "destroyed"}

Init ==
  /\ executor \in BOOLEAN
  /\ numLanes \in 0 .. MaxLanes
  /\ mergeable \in [Failures -> BOOLEAN]
  /\ pc = "idle"
  /\ awake = TRUE
  /\ added = 0
  /\ refused = {}
  /\ queue = [l \in AllLanes |-> <<>>]
  /\ task = [l \in AllLanes |-> "none"]
  /\ failed = [l \in AllLanes |-> FALSE]
  /\ merging = [l \in AllLanes |-> NoPart]
  /\ merged = [l \in AllLanes |-> <<>>]
  /\ remaining = [p \in Parts |-> 0]
  /\ pending = 0
  /\ failure = NoFailure

-----------------------------------------------------------------------------
(* Helpers under mu_.                                                       *)

\* (part, lane) in the order in which failures win.
Before(f, g) == f[1] < g[1] \/ (f[1] = g[1] /\ f[2] < g[2])

\* Mutant: the failure seen first wins.
FailMutant(new) ==
  failure' = IF failure # NoFailure \/ new = {} THEN failure
             ELSE CHOOSE f \in new : \A g \in new : f = g \/ Before(f, g)

\* Fail() of each failure in `new`: the smallest (part, lane) is kept.
Fail(new) ==
  LET known == IF failure = NoFailure THEN new ELSE new \cup {failure}
  IN failure' = IF known = {} THEN NoFailure
                ELSE CHOOSE f \in known : \A g \in known : f = g \/ Before(f, g)

\* Mutant: the consumer's waits are not notified.
DoneMutant(parts, ends) ==
  LET released == {p \in parts : remaining[p] = 1}
  IN /\ remaining' = [p \in Parts |-> IF p \in parts THEN remaining[p] - 1 ELSE remaining[p]]
     /\ pending' = pending - Cardinality(released)
     /\ UNCHANGED awake

\* Done() of each part in `parts`: the last lane releases it and wakes the
\* consumer; so does the end of a lane's task.
Done(parts, ends) ==
  LET released == {p \in parts : remaining[p] = 1}
  IN /\ remaining' = [p \in Parts |-> IF p \in parts THEN remaining[p] - 1 ELSE remaining[p]]
     /\ pending' = pending - Cardinality(released)
     /\ awake' = (awake \/ released # {} \/ ends)

-----------------------------------------------------------------------------
(* A lane's task: Drain.                                                    *)

\* An executor thread is free (Arrow's thread pool, external).
ThreadFree == Cardinality({l \in AllLanes : task[l] = "running"}) < Threads

\* The loop's head with the lock held: the next part is popped, or the task
\* ends and wakes the consumer.
DrainNext(l, rest) ==
  \/ /\ rest # <<>>
     /\ merging' = [merging EXCEPT ![l] = Head(rest)]
     /\ queue' = [queue EXCEPT ![l] = Tail(rest)]
     /\ task' = [task EXCEPT ![l] = "running"]
  \/ /\ rest = <<>>
     /\ merging' = [merging EXCEPT ![l] = NoPart]
     /\ queue' = [queue EXCEPT ![l] = <<>>]
     /\ task' = [task EXCEPT ![l] = "none"]

\* The task starts and takes the lane's first part.
DrainStart(l) ==
  /\ task[l] = "queued"
  /\ ThreadFree
  /\ DrainNext(l, queue[l])
  /\ awake' = (awake \/ queue[l] = <<>>)
  /\ UNCHANGED <<executor, numLanes, mergeable, pc, added, refused, failed, merged, remaining,
                 pending, failure>>

\* A merge succeeded: the part is done in this lane, and the task goes on.
DrainMerged(l) ==
  /\ task[l] = "running"
  /\ mergeable[<<merging[l], l>>]
  /\ merged' = [merged EXCEPT ![l] = Append(@, merging[l])]
  /\ Done({merging[l]}, queue[l] = <<>>)
  /\ DrainNext(l, queue[l])
  /\ UNCHANGED <<executor, numLanes, mergeable, pc, added, refused, failed, failure>>

\* Mutant: the lane fails and goes on with the parts it has queued.
DrainFailedMutant(l) ==
  /\ task[l] = "running"
  /\ ~mergeable[<<merging[l], l>>]
  /\ failed' = [failed EXCEPT ![l] = TRUE]
  /\ Fail({<<merging[l], l>>})
  /\ Done({merging[l]}, queue[l] = <<>>)
  /\ DrainNext(l, queue[l])
  /\ UNCHANGED <<executor, numLanes, mergeable, pc, added, refused, merged>>

\* A merge failed: the lane stops, and its other parts are dropped.
DrainFailed(l) ==
  /\ task[l] = "running"
  /\ ~mergeable[<<merging[l], l>>]
  /\ failed' = [failed EXCEPT ![l] = TRUE]
  /\ Fail({<<merging[l], l>>})
  /\ Done({merging[l]} \cup {queue[l][i] : i \in DOMAIN queue[l]}, TRUE)
  /\ DrainNext(l, <<>>)
  /\ UNCHANGED <<executor, numLanes, mergeable, pc, added, refused, merged>>

Drain(l) == DrainStart(l) \/ DrainMerged(l) \/ DrainFailed(l)
-----------------------------------------------------------------------------
(* The consumer.                                                            *)

\* Add is called without an executor: every lane merges the part here, up to
\* the first that fails; after a failure nothing is merged.
AddSerial ==
  /\ pc = "idle"
  /\ ~executor
  /\ added < NumParts
  /\ LET bad == {l \in Lanes : ~mergeable[<<added, l>>]}
         good == {l \in Lanes : \A b \in bad : l < b}
     IN \/ /\ failure # NoFailure
           /\ pc' = "finish"
           /\ UNCHANGED <<added, merged, failure>>
        \/ /\ failure = NoFailure
           /\ added' = added + 1
           /\ merged' = [l \in AllLanes |->
                          IF l \in good THEN Append(merged[l], added) ELSE merged[l]]
           /\ Fail({<<added, l>> : l \in bad})
           /\ UNCHANGED pc
  /\ UNCHANGED <<executor, numLanes, mergeable, awake, refused, queue, task, failed, merging,
                 remaining, pending>>

\* Add is called with an executor: it waits for room.
AddCall ==
  /\ pc = "idle"
  /\ executor
  /\ added < NumParts
  /\ pc' = "add"
  /\ awake' = TRUE
  /\ UNCHANGED <<executor, numLanes, mergeable, added, refused, queue, task, failed, merging,
                 merged, remaining, pending, failure>>

\* Mutant: under memory pressure a part still pending does not hold Add back,
\* and without it one part too many fits.
AddMayGoMutant(pressure) == failure # NoFailure \/ pending <= MaxPending

\* The predicate of Add's wait.
AddMayGo(pressure) == failure # NoFailure \/ pending < (IF pressure THEN 1 ELSE MaxPending)

\* The predicate of Finish(), Wait() and the destructor: running_ == 0.
NoLaneRuns == \A l \in AllLanes : task[l] = "none"

\* Add's wait finds its predicate false.
AddSleeps ==
  /\ pc = "add"
  /\ awake
  /\ \E pressure \in BOOLEAN : ~AddMayGo(pressure)
  /\ awake' = FALSE
  /\ UNCHANGED <<executor, numLanes, mergeable, pc, added, refused, queue, task, failed, merging,
                 merged, remaining, pending, failure>>

\* A failure is known: Add queues nothing and returns Finish().
AddAfterFailure ==
  /\ pc = "add"
  /\ awake
  /\ failure # NoFailure
  /\ pc' = "finish"
  /\ UNCHANGED <<executor, numLanes, mergeable, awake, added, refused, queue, task, failed,
                 merging, merged, remaining, pending, failure>>

\* std::bad_alloc while the part is made: no lane has it, so none may merge a
\* later one.
AddNoMemory ==
  /\ pc = "add"
  /\ awake
  /\ failure = NoFailure
  /\ \E pressure \in BOOLEAN : AddMayGo(pressure)
  /\ Lanes # {}
  /\ refused' = refused \cup {<<added, 0>>}
  /\ Fail({<<added, 0>>})
  /\ added' = added + 1
  /\ pc' = "finish"
  /\ UNCHANGED <<executor, numLanes, mergeable, awake, queue, task, failed, merging, merged,
                 remaining, pending>>

\* The lanes that take the part: those that have not failed and do not refuse it.
Takers(refuse) == {l \in Lanes : ~failed[l]} \ refuse

\* Add queues the part on every lane (Queue), starting a task for each lane
\* without one.  The lanes of `refuse` cannot take it: std::bad_alloc, or their
\* task cannot be submitted.  They fail as if the merge had.
AddQueues ==
  /\ pc = "add"
  /\ awake
  /\ failure = NoFailure
  /\ \E pressure \in BOOLEAN : AddMayGo(pressure)
  /\ \E refuse \in SUBSET Lanes :
       LET takers == Takers(refuse)
       IN /\ refused' = refused \cup {<<added, l>> : l \in refuse}
          /\ failed' = [l \in AllLanes |-> failed[l] \/ l \in refuse]
          /\ Fail({<<added, l>> : l \in refuse})
          /\ queue' = [l \in AllLanes |->
                         IF l \in takers THEN Append(queue[l], added) ELSE queue[l]]
          /\ task' = [l \in AllLanes |->
                        IF l \in takers /\ task[l] = "none" THEN "queued" ELSE task[l]]
          /\ remaining' = [remaining EXCEPT ![added] = Cardinality(takers)]
          /\ pending' = IF takers = {} THEN pending ELSE pending + 1
          /\ pc' = IF refuse = {} THEN "idle" ELSE "finish"
  /\ added' = added + 1
  /\ UNCHANGED <<executor, numLanes, mergeable, awake, merging, merged>>

\* Finish(), Wait() or the destructor is called.
WaitCall ==
  /\ pc = "idle"
  /\ pc' \in {"waitLanes", "finish", "destroy"}
  /\ awake' = TRUE
  /\ UNCHANGED <<executor, numLanes, mergeable, added, refused, queue, task, failed, merging,
                 merged, remaining, pending, failure>>

\* Their wait finds a lane's task running.
WaitSleeps ==
  /\ pc \in {"waitLanes", "finish", "destroy"}
  /\ awake
  /\ ~NoLaneRuns
  /\ awake' = FALSE
  /\ UNCHANGED <<executor, numLanes, mergeable, pc, added, refused, queue, task, failed, merging,
                 merged, remaining, pending, failure>>

\* No lane's task is left: the call returns, Finish() with failure_.
WaitReturns ==
  /\ awake
  /\ NoLaneRuns
  /\ \/ pc = "waitLanes" /\ pc' = "idle"
     \/ pc = "finish" /\ pc' = "finished"
     \/ pc = "destroy" /\ pc' = "destroyed"
  /\ UNCHANGED <<executor, numLanes, mergeable, awake, added, refused, queue, task, failed,
                 merging, merged, remaining, pending, failure>>

\* The steps of a call under way.
CallStep ==
  \/ AddSleeps \/ AddAfterFailure \/ AddNoMemory \/ AddQueues
  \/ WaitSleeps \/ WaitReturns

Next ==
  \/ \E l \in AllLanes : Drain(l)
  \/ AddSerial \/ AddCall \/ WaitCall
  \/ CallStep

Spec == Init /\ [][Next]_vars

-----------------------------------------------------------------------------
(* Properties.                                                              *)

\* Each lane merges the parts in the order added, none left out and none twice,
\* for any number of threads (partition_lanes.h: "each lane sees exactly the
\* parts in the order added"): what it merged, merges and has queued is parts
\* 0, 1, ... in turn.
LaneOrder ==
  \A l \in AllLanes :
    LET current == IF merging[l] = NoPart THEN <<>> ELSE <<merging[l]>>
        seen == merged[l] \o current \o queue[l]
    IN \A i \in DOMAIN seen : seen[i] = i - 1

\* The failures there are among the parts added: of a merge, or of a part that
\* could not be queued.
Bad == {f \in Failures : f[1] < added /\ f[2] < numLanes /\ (~mergeable[f] \/ f \in refused)}

\* What Finish() returns does not depend on the timing: the smallest (part,
\* lane) that fails, of all the parts added; it is OK only when there is none and
\* every lane has merged every part (partition_lanes.h, "which failure wins does
\* not depend on the timing").
FailureIsFirst ==
  pc = "finished" =>
    IF Bad = {} THEN failure = NoFailure /\ \A l \in Lanes : Len(merged[l]) = added
    ELSE failure \in Bad /\ \A f \in Bad : f = failure \/ Before(failure, f)

\* A part's merge function, with the memory it holds, is held exactly while a
\* lane has yet to run it: never released under a lane that merges it or has
\* it queued, and never kept once none does.  At most max_pending parts are held,
\* pending_ counts them, and no task is left after Finish() or the destructor.
HeldWhileNeeded ==
  /\ \A p \in Parts :
       remaining[p] = Cardinality({l \in AllLanes : \/ merging[l] = p
                                                   \/ \E i \in DOMAIN queue[l] : queue[l][i] = p})
  /\ pending = Cardinality({p \in Parts : remaining[p] > 0})
  /\ pending <= MaxPending
  /\ pc \in {"finished", "destroyed"} => NoLaneRuns

\* The three: each lane merges the parts in the order added, Finish() returns the
\* smallest (part, lane) that fails, whatever the timing, and a part's merge function is
\* held exactly while a lane has yet to run it.
LanesInOrder == LaneOrder /\ FailureIsFirst /\ HeldWhileNeeded
=============================================================================
