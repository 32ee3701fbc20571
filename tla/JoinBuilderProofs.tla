------------------------- MODULE JoinBuilderProofs -------------------------
(***************************************************************************)
(* A join build fails like the serial one and frees its parts only after   *)
(* their merges, for any number of parts, rows, partitions and threads,    *)
(* any order of the parts and any window.                                  *)
(*                                                                         *)
(* The lanes keep PartitionLanesProofs' invariant; ReleaseInv says what    *)
(* the lanes were given, CallInv where the builder and the lanes are, and  *)
(* OutcomeInv what a build that has failed or ended has seen.              *)
(***************************************************************************)
EXTENDS JoinBuilder, FiniteSetTheorems, TLAPS

LP == INSTANCE PartitionLanesProofs WITH MaxLanes <- NumLanes, MaxPending <- Window, pc <- lpc,
                                         failed <- lfailed

Sizes ==
  /\ NumParts \in Nat
  /\ NumLanes \in Nat
  /\ Window \in Nat \ {0}
  /\ Threads \in Nat \ {0}
  /\ RowCounts \subseteq Nat
  /\ MaxRows \in Nat

\* `done` parts are released, counted and, with rows, handed to the lanes in part order; a part
\* that could not be released is the next one.
ReleasedTo(done) ==
  /\ done \in 0 .. NumParts
  /\ numRows \in Nat /\ numRows = RowsBefore(done)
  /\ \A p \in 0 .. done - 1 : ~TooMany(p)
  /\ Len(handed) = LanePart(done)
  /\ \A p \in 0 .. done - 1 : rows[p] > 0 => /\ LanePart(p) \in 0 .. Len(handed) - 1
                                             /\ handed[LanePart(p) + 1] = p
  /\ \A i \in 1 .. Len(handed) :
       \E p \in 0 .. done - 1 : handed[i] = p /\ rows[p] > 0 /\ LanePart(p) = i - 1
  /\ \A i, j \in 1 .. Len(handed) : i < j => handed[i] < handed[j]
  /\ failed = OK => done = next
  /\ failed[1] \in {"rows", "memory"} => failed = <<failed[1], done, 0>> /\ done < NumParts
  /\ failed[1] = "rows" => TooMany(done)

ReleaseInv ==
  /\ rows \in [Parts -> Nat]
  /\ parts \subseteq Parts
  /\ next \in 0 .. NumParts
  /\ handed \in Seq(Parts)
  /\ \E done \in 0 .. NumParts : ReleasedTo(done)

\* Where the builder and the lanes are.
CallInv ==
  /\ numLanes = NumLanes
  /\ pc \in {"idle", "release", "hand", "merged"}
  /\ pc \in {"idle", "release"} => lpc = "idle"
  /\ pc = "hand" => lpc \in {"idle", "add", "finish"}
  /\ pc = "merged" => lpc \in {"idle", "finish", "finished"}
  /\ pc \in {"release", "hand"} => failed = OK /\ ~finished /\ caller = "add"
  /\ pc = "merged" /\ caller = "finish" => finished
  /\ added <= Len(handed) /\ Len(handed) <= added + 1
  /\ pc = "release" => added = Len(handed) /\ (~executor => failure = L!NoFailure)
  /\ pc = "hand" => /\ lpc = "add" => added < Len(handed)
                    /\ lpc = "finish" => failure # L!NoFailure
                    /\ ~executor /\ added < Len(handed) => failure = L!NoFailure
  /\ pc \in {"idle", "merged"} /\ failure = L!NoFailure => added = Len(handed)

\* The failure the lanes kept is the first there is.
FirstOfBad == failure \in LP!Bad /\ \A f \in LP!Bad : f = failure \/ LP!Before(failure, f)

\* What a build that failed, or ended, has seen.
OutcomeInv ==
  /\ failed[1] \in {"ok", "rows", "memory", "merge"} /\ (failed[1] = "ok" => failed = OK)
  /\ failed # OK /\ pc = "idle" => L!NoLaneRuns
  /\ failed[1] = "merge" => L!NoLaneRuns /\ failure # L!NoFailure /\ FirstOfBad /\ failed = MergeFailure
  /\ failed[1] \in {"rows", "memory"} /\ pc = "idle" => failure = L!NoFailure /\ LP!Bad = {}
  /\ finished /\ ~(pc = "merged" /\ caller = "finish") => parts = {} /\ L!NoLaneRuns
  /\ result[1] = "table" => finished /\ (refused = {} => SerialFailure = OK /\ next = NumParts)

BuildInv == LP!IndInv /\ ReleaseInv /\ CallInv /\ OutcomeInv

-----------------------------------------------------------------------------
(* The lanes of JoinBuilder are those of the theorems.                      *)

\* Each instance counts with its own Cardinality.
LEMMA SameCardinality ==
  \A T : L!Cardinality(T) = Cardinality(T) /\ LP!Cardinality(T) = Cardinality(T)
BY Zenon DEF Cardinality, L!Cardinality, LP!Cardinality, IsFiniteSet, L!IsFiniteSet, LP!IsFiniteSet

\* The lanes' steps here are the steps PartitionLanesProofs is about.
LEMMA SameLanes ==
  /\ L!NoFailure = LP!NoFailure
  /\ L!AllLanes = LP!AllLanes
  /\ L!Lanes = LP!Lanes
  /\ L!Init <=> LP!Init
  /\ L!NoLaneRuns <=> LP!NoLaneRuns
  /\ \A l : L!Drain(l) <=> LP!Drain(l)
  /\ L!AddCall <=> LP!AddCall
  /\ L!AddSerial <=> LP!AddSerial
  /\ L!WaitCall <=> LP!WaitCall
  /\ L!CallStep <=> LP!CallStep
<1> L!NoFailure = LP!NoFailure
  BY Zenon DEF L!NoFailure, L!NoPart, LP!NoFailure, LP!NoPart
<1> L!AllLanes = LP!AllLanes
  BY Zenon DEF L!AllLanes, LP!AllLanes
<1> L!Lanes = LP!Lanes
  BY Zenon DEF L!Lanes, LP!Lanes
<1> L!Init <=> LP!Init
  BY Zenon DEF L!Init, L!Failures, L!AllLanes, L!NoPart, L!Parts, L!NoFailure, LP!Init, LP!Failures,
         LP!AllLanes, LP!NoPart, LP!Parts, LP!NoFailure
<1> L!NoLaneRuns <=> LP!NoLaneRuns
  BY Zenon DEF L!NoLaneRuns, L!AllLanes, LP!NoLaneRuns, LP!AllLanes
<1> \A l : L!Drain(l) <=> LP!Drain(l)
  <2> L!ThreadFree <=> LP!ThreadFree
    BY SameCardinality, ZenonT(60) DEF L!ThreadFree, L!AllLanes, LP!ThreadFree, LP!AllLanes
  <2> \A new : L!Fail(new) <=> LP!Fail(new)
    BY Zenon DEF L!Fail, L!NoFailure, L!Before, L!NoPart, LP!Fail, LP!NoFailure, LP!Before, LP!NoPart
  <2> \A done, ends : L!Done(done, ends) <=> LP!Done(done, ends)
    BY SameCardinality, Zenon DEF L!Done, L!Parts, LP!Done, LP!Parts
  <2> \A l, rest : L!DrainNext(l, rest) <=> LP!DrainNext(l, rest)
    BY Zenon DEF L!DrainNext, L!NoPart, LP!DrainNext, LP!NoPart
  <2> SUFFICES ASSUME NEW l PROVE L!Drain(l) <=> LP!Drain(l)
    BY Zenon
  <2> L!DrainStart(l) <=> LP!DrainStart(l)
    BY Zenon DEF L!DrainStart, LP!DrainStart
  <2> L!DrainMerged(l) <=> LP!DrainMerged(l)
    BY Zenon DEF L!DrainMerged, LP!DrainMerged
  <2> L!DrainFailed(l) <=> LP!DrainFailed(l)
    BY Zenon DEF L!DrainFailed, LP!DrainFailed
  <2> QED BY Zenon DEF L!Drain, LP!Drain
<1> L!AddCall <=> LP!AddCall
  BY Zenon DEF L!AddCall, LP!AddCall
<1> L!AddSerial <=> LP!AddSerial
  BY Zenon DEF L!AddSerial, L!Lanes, L!NoFailure, L!AllLanes, L!Fail, L!NoPart, L!Before, LP!AddSerial,
         LP!Lanes, LP!NoFailure, LP!AllLanes, LP!Fail, LP!NoPart, LP!Before
<1> L!WaitCall <=> LP!WaitCall
  BY Zenon DEF L!WaitCall, LP!WaitCall
<1> L!CallStep <=> LP!CallStep
  <2> \A new : L!Fail(new) <=> LP!Fail(new)
    BY Zenon DEF L!Fail, L!NoFailure, L!Before, L!NoPart, LP!Fail, LP!NoFailure, LP!Before, LP!NoPart
  <2> /\ \A refuse : L!Takers(refuse) = LP!Takers(refuse)
        /\ \A pressure : L!AddMayGo(pressure) <=> LP!AddMayGo(pressure)
    BY Zenon DEF L!Takers, L!AddMayGo, L!Lanes, L!NoFailure, L!NoPart, LP!Takers, LP!AddMayGo, LP!Lanes,
           LP!NoFailure, LP!NoPart
  <2> L!AddSleeps <=> LP!AddSleeps
    BY Zenon DEF L!AddSleeps, LP!AddSleeps
  <2> L!AddAfterFailure <=> LP!AddAfterFailure
    BY Zenon DEF L!AddAfterFailure, LP!AddAfterFailure
  <2> L!AddNoMemory <=> LP!AddNoMemory
    BY Zenon DEF L!AddNoMemory, LP!AddNoMemory
  <2> L!AddQueues <=> LP!AddQueues
    BY SameCardinality, ZenonT(60) DEF L!AddQueues, LP!AddQueues
  <2> L!WaitSleeps <=> LP!WaitSleeps
    BY Zenon DEF L!WaitSleeps, LP!WaitSleeps
  <2> L!WaitReturns <=> LP!WaitReturns
    BY Zenon DEF L!WaitReturns, LP!WaitReturns
  <2> QED BY Zenon DEF L!CallStep, LP!CallStep
<1> QED BY Zenon

\* A step of the lanes, or none, keeps the lanes' invariant.
LEMMA LanesKeep ==
  ASSUME Sizes, LP!IndInv, numLanes = NumLanes,
         \/ \E l \in L!Lanes : L!Drain(l)
         \/ L!AddCall \/ L!AddSerial \/ L!WaitCall \/ L!CallStep
         \/ UNCHANGED lanesVars
  PROVE  LP!IndInv'
<1>1. CASE UNCHANGED lanesVars
  <2>1. UNCHANGED LP!vars
    BY <1>1, Zenon DEF lanesVars, LP!vars
  <2> QED BY <2>1, LP!NextInd, ZenonT(60) DEF Sizes
<1>2. CASE ~UNCHANGED lanesVars
  <2>1. L!Lanes = LP!AllLanes
    BY Zenon DEF L!Lanes, LP!AllLanes
  <2>2. LP!Next
    BY <1>2, <2>1, SameLanes, ZenonT(60) DEF LP!Next
  <2> QED BY <2>2, LP!NextInd, ZenonT(60) DEF Sizes
<1> QED BY <1>1, <1>2, ZenonT(60)

-----------------------------------------------------------------------------
(* What the serial build counts.                                            *)

\* The serial build depends on the parts and on the merges only.
LEMMA SerialSame ==
  ASSUME UNCHANGED <<rows, mergeable, numLanes>>
  PROVE  /\ \A p : TooMany(p)' = TooMany(p) /\ LanePart(p)' = LanePart(p) /\ RowsBefore(p)' = RowsBefore(p)
         /\ UNCHANGED SerialFailure
<1>1. \A p : RowsBefore(p)' = RowsBefore(p)
  BY Zenon DEF RowsBefore
<1>2. \A p : LanePart(p)' = LanePart(p)
  BY Zenon DEF LanePart
<1>3. \A p : TooMany(p)' = TooMany(p)
  BY <1>1, ZenonT(60) DEF TooMany
<1>4. \A p : BadLanes(p)' = BadLanes(p)
  BY <1>2, ZenonT(60) DEF BadLanes, L!Lanes
<1>5. SerialFailure' = SerialFailure
  BY DEF SerialFailure, TooMany, BadLanes, RowsBefore, LanePart, L!Lanes
<1> QED BY <1>1, <1>2, <1>3, <1>5, ZenonT(60)
\* The rows counted so far: RowsBefore is a sum over the parts in order.
LEMMA RowsCounted ==
  ASSUME Sizes, rows \in [Parts -> Nat]
  PROVE  /\ RowsBefore(0) = 0
         /\ \A p \in Parts : RowsBefore(p + 1) = RowsBefore(p) + rows[p]
<1> DEFINE Sums(f, n) == f = [q \in 0 .. n |-> IF q = 0 THEN 0 ELSE f[q - 1] + rows[q - 1]]
<1>1. ASSUME NEW f, NEW n, Sums(f, n), NEW q \in 0 .. n
      PROVE  f[q] = IF q = 0 THEN 0 ELSE f[q - 1] + rows[q - 1]
  BY <1>1, Zenon
<1>2. \A n \in Nat : \E f : Sums(f, n)
  <2> DEFINE Lack == {n \in Nat : ~ \E f : Sums(f, n)}
  <2> SUFFICES ASSUME Lack # {} PROVE FALSE
    BY Zenon
  <2>1. PICK n \in Lack : \A m \in Lack : n <= m
    BY LP!LeastNumber, ZenonT(60) DEF Sizes
  <2>2. n \in Nat /\ ~ \E f : Sums(f, n)
    BY <2>1, Zenon
  <2>3. CASE n = 0
    <3> DEFINE h == [q \in 0 .. 0 |-> 0]
    <3>1. Sums(h, 0)
      OBVIOUS
    <3> HIDE DEF Sums, h
    <3> QED BY <2>2, <2>3, <3>1, ZenonT(60)
  <2>4. CASE n # 0
    <3>1. n - 1 \in Nat /\ ~ (n <= n - 1)
      BY <2>2, <2>4, SMTT(60)
    <3>2. PICK g : Sums(g, n - 1)
      <4> HIDE DEF Sums
      <4>1. n - 1 \notin Lack
        BY <2>1, <3>1, ZenonT(60)
      <4> QED BY <3>1, <4>1, ZenonT(60)
    <3>3. \A q \in 0 .. n - 1 : g[q] = IF q = 0 THEN 0 ELSE g[q - 1] + rows[q - 1]
      <4> HIDE DEF Sums
      <4> QED BY <1>1, <3>2, ZenonT(60)
    <3> DEFINE h == [q \in 0 .. n |-> IF q = n THEN g[n - 1] + rows[n - 1] ELSE g[q]]
    <3>4. Sums(h, n)
      <4>1. \A q \in 0 .. n - 1 : h[q] = g[q]
        BY <2>2, <2>4, SMTT(60)
      <4>2. \A q \in 0 .. n : h[q] = IF q = 0 THEN 0 ELSE h[q - 1] + rows[q - 1]
        <5> SUFFICES ASSUME NEW q \in 0 .. n PROVE h[q] = IF q = 0 THEN 0 ELSE h[q - 1] + rows[q - 1]
          BY Zenon
        <5>1. CASE q = n
          BY <5>1, <4>1, <2>2, <2>4, SMTT(60)
        <5>2. CASE q # n
          <6>1. q \in 0 .. n - 1 /\ (q # 0 => q - 1 \in 0 .. n - 1)
            BY <5>2, <2>2, <2>4, SMTT(60)
          <6> QED BY <6>1, <3>3, <4>1, ZenonT(60)
        <5> QED BY <5>1, <5>2, ZenonT(60)
      <4> QED BY <4>2, Zenon
    <3> HIDE DEF Sums, h
    <3> QED BY <2>2, <3>4, ZenonT(60)
  <2> QED BY <2>3, <2>4, Zenon
<1> DEFINE sum == CHOOSE f : Sums(f, NumParts)
<1>3. \A p : RowsBefore(p) = sum[p]
  BY Zenon DEF RowsBefore
<1>4. Sums(sum, NumParts)
  <2> HIDE DEF Sums
  <2> QED BY <1>2, ZenonT(60) DEF Sizes
<1> HIDE DEF Sums, sum
<1>5. \A q \in 0 .. NumParts : sum[q] = IF q = 0 THEN 0 ELSE sum[q - 1] + rows[q - 1]
  BY <1>1, <1>4, ZenonT(60)
<1>6. \A p \in Parts : p + 1 \in 0 .. NumParts /\ p + 1 # 0 /\ (p + 1) - 1 = p
  BY DEF Parts, Sizes
<1> QED BY <1>3, <1>5, <1>6, SMTT(60) DEF Sizes

\* The parts with rows before a part, the numbers the lanes know the parts by.
LEMMA PartsCounted ==
  ASSUME Sizes, rows \in [Parts -> Nat]
  PROVE  /\ LanePart(0) = 0
         /\ \A p \in Parts : /\ LanePart(p) \in Nat
                             /\ LanePart(p + 1) = IF rows[p] > 0 THEN LanePart(p) + 1 ELSE LanePart(p)
<1> DEFINE Full(p) == {q \in 0 .. p - 1 : rows[q] > 0}
<1>1. \A p \in Nat : IsFiniteSet(Full(p))
  <2> SUFFICES ASSUME NEW p \in Nat PROVE IsFiniteSet(Full(p))
    BY Zenon
  <2>1. IsFiniteSet(0 .. p - 1)
    BY FS_Interval, SMTT(60)
  <2> QED BY <2>1, FS_Subset, ZenonT(60)
<1>2. LanePart(0) = 0
  <2>1. Full(0) = {}
    OBVIOUS
  <2> QED BY <2>1, FS_EmptySet, ZenonT(60) DEF LanePart
<1> SUFFICES ASSUME NEW p \in Parts
             PROVE  /\ LanePart(p) \in Nat
                    /\ LanePart(p + 1) = IF rows[p] > 0 THEN LanePart(p) + 1 ELSE LanePart(p)
  BY <1>2, ZenonT(60)
<1>3. p \in Nat /\ p \notin Full(p) /\ Full(p + 1) = IF rows[p] > 0 THEN Full(p) \cup {p} ELSE Full(p)
  BY DEF Parts, Sizes
<1>4. IsFiniteSet(Full(p))
  BY <1>1, <1>3, Zenon
<1>5. LanePart(p) = Cardinality(Full(p)) /\ LanePart(p + 1) = Cardinality(Full(p + 1))
  BY Zenon DEF LanePart
<1> HIDE DEF Full
<1>6. Cardinality(Full(p)) \in Nat /\ Cardinality(Full(p) \cup {p}) = Cardinality(Full(p)) + 1
  BY <1>3, <1>4, FS_CardinalityType, FS_AddElement, Zenon
<1> QED BY <1>3, <1>5, <1>6, ZenonT(60)
-----------------------------------------------------------------------------
(* The invariant, action by action.                                         *)

\* What the lanes show stays while they do.
LEMMA ViewSame ==
  ASSUME UNCHANGED <<numLanes, mergeable, added, refused, task, failure>>
  PROVE  UNCHANGED L!NoLaneRuns /\ UNCHANGED LP!Bad /\ UNCHANGED FirstOfBad
<1> UNCHANGED L!NoLaneRuns
  BY Zenon DEF L!NoLaneRuns
<1> UNCHANGED LP!Bad
  BY Zenon DEF LP!Bad
<1> UNCHANGED FirstOfBad
  BY Zenon DEF FirstOfBad
<1> QED BY Zenon

\* What is released stays so, when a merge failure takes the place of a failed release too.
LEMMA ReleasedStays ==
  ASSUME ReleaseInv, UNCHANGED <<rows, mergeable, numLanes, next, numRows, handed>>,
         parts' \subseteq Parts, failed' = failed \/ failed'[1] = "merge"
  PROVE  ReleaseInv'
<1>1. PICK done \in 0 .. NumParts : ReleasedTo(done)
  BY Zenon DEF ReleaseInv
<1>2. \A p : TooMany(p)' = TooMany(p) /\ LanePart(p)' = LanePart(p) /\ RowsBefore(p)' = RowsBefore(p)
  BY SerialSame, Zenon
<1>3. ReleasedTo(done)'
  BY <1>1, <1>2, SMTT(60) DEF ReleasedTo, OK
<1> QED BY <1>3, Zenon DEF ReleaseInv

\* A builder as it is constructed.
LEMMA InitInd ==
  ASSUME Sizes, Init
  PROVE  BuildInv
<1> LP!IndInv
  BY SameLanes, LP!InitInd, ZenonT(60) DEF Init, Sizes
<1> rows \in [Parts -> Nat]
  <2>1. rows \in [Parts -> RowCounts]
    BY Zenon DEF Init
  <2>2. \A p \in Parts : rows[p] \in RowCounts
    BY <2>1, Zenon
  <2>3. \A p \in Parts : rows[p] \in Nat
    <3> RowCounts \subseteq Nat
      BY Zenon DEF Sizes
    <3> QED BY <2>2, ZenonT(60)
  <2> QED BY <2>1, <2>3, ZenonT(60)
<1> handed = <<>> /\ Len(handed) = 0 /\ added = 0 /\ lpc = "idle" /\ failure = L!NoFailure
  BY Zenon DEF Init, L!Init
<1> ReleasedTo(0)
  BY RowsCounted, PartsCounted, SMTT(60) DEF ReleasedTo, Init, OK, Sizes
<1> ReleaseInv
  BY DEF ReleaseInv, Init, Sizes
<1> CallInv /\ OutcomeInv
  BY DEF Init, CallInv, OutcomeInv, OK
<1> QED BY Zenon DEF BuildInv

\* The calls that end at once, and those that go on to Merged().
LEMMA CallsInd ==
  ASSUME Sizes, BuildInv,
         (\E p \in Parts : AddRefuses(p) \/ AddMeetsFailure(p)) \/ MergedCall \/ FinishCall
  PROVE  BuildInv'
<1> LP!IndInv /\ ReleaseInv /\ CallInv /\ OutcomeInv
  BY Zenon DEF BuildInv
<1> pc = "idle" /\ UNCHANGED <<rows, parts, next, numRows, handed, failed, lanesVars>>
  BY Zenon DEF AddRefuses, AddMeetsFailure, MergedCall, FinishCall
<1> LP!IndInv' /\ UNCHANGED <<executor, numLanes, mergeable, lpc, added, refused, task, failure>>
  BY LanesKeep, Zenon DEF CallInv, lanesVars
<1> UNCHANGED L!NoLaneRuns /\ UNCHANGED LP!Bad /\ UNCHANGED FirstOfBad /\ UNCHANGED SerialFailure
  BY ViewSame, SerialSame, ZenonT(60)
<1> ReleaseInv'
  BY ReleasedStays, Zenon DEF ReleaseInv
<1> UNCHANGED MergeFailure
  BY Zenon DEF MergeFailure
<1>1. CASE \E p \in Parts : AddRefuses(p)
  <2> UNCHANGED <<pc, caller, finished>> /\ result' \in {failed, Invalid}
    BY <1>1, ZenonT(60) DEF AddRefuses
  <2> result'[1] # "table"
    BY SMTT(60) DEF OutcomeInv, Invalid
  <2> CallInv' /\ OutcomeInv'
    BY ZenonT(60) DEF CallInv, OutcomeInv
  <2> QED BY Zenon DEF BuildInv
<1>2. CASE (\E p \in Parts : AddMeetsFailure(p)) \/ MergedCall
  <2> pc' = "merged" /\ caller' \in {"add", "merged"} /\ UNCHANGED <<finished, result>>
    BY <1>2, ZenonT(60) DEF AddMeetsFailure, MergedCall
  <2> CallInv' /\ OutcomeInv'
    BY Zenon DEF CallInv, OutcomeInv
  <2> QED BY Zenon DEF BuildInv
<1>3. CASE FinishCall
  <2>1. CASE finished
    <3> UNCHANGED <<pc, caller, finished>> /\ result' = Invalid
      BY <1>3, <2>1, ZenonT(60) DEF FinishCall
    <3> CallInv' /\ OutcomeInv'
      BY Zenon DEF CallInv, OutcomeInv, Invalid
    <3> QED BY Zenon DEF BuildInv
  <2>2. CASE ~finished
    <3> finished' /\ pc' = "merged" /\ caller' = "finish" /\ UNCHANGED result
      BY <1>3, <2>2, ZenonT(60) DEF FinishCall
    <3> CallInv' /\ OutcomeInv'
      BY <2>2, Zenon DEF CallInv, OutcomeInv
    <3> QED BY Zenon DEF BuildInv
  <2> QED BY <2>1, <2>2, ZenonT(60)
<1> QED BY <1>1, <1>2, <1>3, ZenonT(60)

\* Add keeps a part, its loop ends, and lanes_->Add returns to it.
LEMMA LoopInd ==
  ASSUME Sizes, BuildInv, (\E p \in Parts : AddKeeps(p)) \/ AddReturns \/ LanesAddReturns
  PROVE  BuildInv'
<1> LP!IndInv /\ ReleaseInv /\ CallInv /\ OutcomeInv
  BY Zenon DEF BuildInv
<1> /\ UNCHANGED <<rows, next, numRows, handed, failed, finished, lanesVars>>
    /\ parts' \subseteq Parts /\ failed = OK /\ ~finished
  BY Zenon DEF AddKeeps, AddReturns, LanesAddReturns, ReleaseInv, CallInv
<1> LP!IndInv' /\ UNCHANGED <<executor, numLanes, mergeable, lpc, added, refused, task, failure>>
  BY LanesKeep, Zenon DEF CallInv, lanesVars
<1> ReleaseInv'
  BY ReleasedStays, Zenon
<1> result' \in {result, OK}
  BY Zenon DEF AddKeeps, AddReturns, LanesAddReturns
<1> OutcomeInv'
  BY ZenonT(60) DEF OutcomeInv, OK
<1>1. CASE \E p \in Parts : AddKeeps(p)
  <2> pc = "idle" /\ pc' = "release" /\ caller' = "add" /\ failure = L!NoFailure
    BY <1>1, ZenonT(60) DEF AddKeeps
  <2> CallInv'
    BY Zenon DEF CallInv
  <2> QED BY ZenonT(60) DEF BuildInv
<1>2. CASE AddReturns
  <2> pc = "release" /\ pc' = "idle" /\ UNCHANGED caller
    BY <1>2, ZenonT(60) DEF AddReturns
  <2> CallInv'
    BY Zenon DEF CallInv
  <2> QED BY Zenon DEF BuildInv
<1>3. CASE LanesAddReturns
  <2> /\ pc = "hand" /\ UNCHANGED caller
      /\ lpc = "finish" \/ (lpc = "idle" /\ added = Len(handed))
      /\ \/ pc' = "merged" /\ failure # L!NoFailure
         \/ pc' = "release" /\ lpc = "idle" /\ (~executor => failure = L!NoFailure)
    BY <1>3, ZenonT(60) DEF LanesAddReturns, CallInv
  <2> CallInv'
    BY Zenon DEF CallInv
  <2> QED BY Zenon DEF BuildInv
<1> QED BY <1>1, <1>2, <1>3, ZenonT(60)
\* A release that fails: the part counts no more, and Merged() follows.
LEMMA ReleaseFailsInd ==
  ASSUME Sizes, BuildInv, ReleaseFails
  PROVE  BuildInv'
<1> LP!IndInv /\ ReleaseInv /\ CallInv /\ OutcomeInv
  BY Zenon DEF BuildInv
<1> /\ pc = "release" /\ next \in parts /\ next' = next + 1 /\ pc' = "merged"
    /\ UNCHANGED <<rows, caller, parts, numRows, handed, finished, result, lanesVars>>
    /\ \/ numRows + rows[next] > MaxRows /\ failed' = <<"rows", next, 0>>
       \/ failed' = <<"memory", next, 0>>
  BY Zenon DEF ReleaseFails, MayRelease
<1> LP!IndInv' /\ UNCHANGED <<executor, numLanes, mergeable, lpc, added, refused, task, failure>>
  BY LanesKeep, ZenonT(60) DEF CallInv, lanesVars
<1>1. PICK done \in 0 .. NumParts : ReleasedTo(done)
  BY Zenon DEF ReleaseInv
<1>2. done = next /\ next \in Parts /\ next \in Nat /\ next < NumParts /\ next' \in 0 .. NumParts
  BY <1>1, SMTT(60) DEF ReleasedTo, ReleaseInv, CallInv, Parts, Sizes
<1>3. \A p : TooMany(p)' = TooMany(p) /\ LanePart(p)' = LanePart(p) /\ RowsBefore(p)' = RowsBefore(p)
  BY SerialSame, Zenon
<1>4. failed'[1] = "rows" => TooMany(done)
  BY <1>1, <1>2, SMTT(60) DEF ReleasedTo, TooMany
<1>5. ReleasedTo(done)'
  BY <1>1, <1>2, <1>3, <1>4, SMTT(60) DEF ReleasedTo, OK
<1>6. ReleaseInv'
  BY <1>2, <1>5, ZenonT(60) DEF ReleaseInv
<1>7. CallInv' /\ OutcomeInv'
  BY DEF CallInv, OutcomeInv, OK
<1> QED BY <1>6, <1>7, ZenonT(60) DEF BuildInv

\* A release: the part is counted and, if it has rows, the next the lanes get.
LEMMA ReleaseInd ==
  ASSUME Sizes, BuildInv, Release
  PROVE  BuildInv'
<1> LP!IndInv /\ ReleaseInv /\ CallInv /\ OutcomeInv
  BY Zenon DEF BuildInv
<1> /\ pc = "release" /\ next \in parts /\ next' = next + 1
    /\ numRows + rows[next] <= MaxRows /\ numRows' = numRows + rows[next]
    /\ handed' = IF rows[next] > 0 THEN Append(handed, next) ELSE handed
    /\ pc' = IF rows[next] > 0 THEN "hand" ELSE "release"
    /\ UNCHANGED <<rows, caller, parts, failed, finished, result, lanesVars>>
  BY Zenon DEF Release, MayRelease
<1> failed = OK /\ ~finished
  BY Zenon DEF CallInv
<1> LP!IndInv' /\ UNCHANGED <<executor, numLanes, mergeable, lpc, added, refused, task, failure>>
  BY LanesKeep, ZenonT(60) DEF CallInv, lanesVars
<1>1. ReleasedTo(next)
  <2> PICK done \in 0 .. NumParts : ReleasedTo(done)
    BY Zenon DEF ReleaseInv
  <2> QED BY Zenon DEF ReleasedTo
<1>2. PICK n \in Nat : n = next /\ n \in Parts /\ n < NumParts /\ n + 1 \in 0 .. NumParts /\ rows[n] \in Nat
  BY SMTT(60) DEF ReleaseInv, Parts, Sizes
<1>3. /\ RowsBefore(n + 1) = RowsBefore(n) + rows[n] /\ LanePart(n) \in Nat
      /\ LanePart(n + 1) = IF rows[n] > 0 THEN LanePart(n) + 1 ELSE LanePart(n)
  BY <1>2, RowsCounted, PartsCounted, Zenon DEF ReleaseInv
<1>4. \A p : TooMany(p)' = TooMany(p) /\ LanePart(p)' = LanePart(p) /\ RowsBefore(p)' = RowsBefore(p)
  BY SerialSame, ZenonT(60)
<1>5. ReleasedTo(n)
  BY <1>1, <1>2, ZenonT(60)
<1>6. handed \in Seq(Parts) /\ Len(handed) \in Nat /\ Len(handed) = LanePart(n)
  BY <1>5, SMTT(60) DEF ReleaseInv, ReleasedTo
<1>7. ~TooMany(n)
  BY <1>2, <1>5, SMTT(60) DEF ReleasedTo, TooMany, Sizes
<1>8. numRows' = RowsBefore(n + 1) /\ numRows' \in Nat
  <2> numRows \in Nat /\ numRows = RowsBefore(n)
    BY <1>5, ZenonT(60) DEF ReleasedTo
  <2> numRows' = numRows + rows[n]
    BY <1>2, ZenonT(60)
  <2> QED BY <1>2, <1>3, SMTT(60)
<1>9. CASE rows[n] > 0
  <2> DEFINE new == Append(handed, n)
  <2>1. /\ new \in Seq(Parts) /\ Len(new) = Len(handed) + 1 /\ new[Len(handed) + 1] = n
        /\ \A i \in 1 .. Len(handed) : new[i] = handed[i]
    BY <1>2, <1>6, SMTT(60)
  <2>2. handed' = new
    BY <1>2, <1>9, ZenonT(60)
  <2> HIDE DEF new
  <2>3. \A p \in 0 .. n : rows[p] > 0 => LanePart(p) \in 0 .. Len(new) - 1 /\ new[LanePart(p) + 1] = p
    <3> SUFFICES ASSUME NEW p \in 0 .. n, rows[p] > 0
                 PROVE  LanePart(p) \in 0 .. Len(new) - 1 /\ new[LanePart(p) + 1] = p
      BY Zenon
    <3>1. CASE p = n
      BY <3>1, <1>3, <1>6, <2>1, SMTT(60)
    <3>2. CASE p # n
      <4>1. p \in 0 .. n - 1
        BY <3>2, SMTT(60)
      <4>2. LanePart(p) \in 0 .. Len(handed) - 1 /\ handed[LanePart(p) + 1] = p
        BY <4>1, <1>5, ZenonT(60) DEF ReleasedTo
      <4> QED BY <4>2, <1>6, <2>1, SMTT(60)
    <3> QED BY <3>1, <3>2, ZenonT(60)
  <2>4. \A i \in 1 .. Len(new) :
          \E p \in 0 .. n : new[i] = p /\ rows[p] > 0 /\ LanePart(p) = i - 1
    <3> SUFFICES ASSUME NEW i \in 1 .. Len(new)
                 PROVE  \E p \in 0 .. n : new[i] = p /\ rows[p] > 0 /\ LanePart(p) = i - 1
      BY Zenon
    <3>1. CASE i = Len(handed) + 1
      BY <3>1, <1>2, <1>6, <1>9, <2>1, SMTT(60)
    <3>2. CASE i # Len(handed) + 1
      <4>1. i \in 1 .. Len(handed)
        BY <3>2, <1>6, <2>1, SMTT(60)
      <4>2. \E p \in 0 .. n - 1 : handed[i] = p /\ rows[p] > 0 /\ LanePart(p) = i - 1
        BY <4>1, <1>5, ZenonT(60) DEF ReleasedTo
      <4> QED BY <4>1, <4>2, <2>1, <1>2, SMTT(60)
    <3> QED BY <3>1, <3>2, ZenonT(60)
  <2>5. \A i, j \in 1 .. Len(new) : i < j => new[i] < new[j]
    <3> SUFFICES ASSUME NEW i \in 1 .. Len(new), NEW j \in 1 .. Len(new), i < j
                 PROVE  new[i] < new[j]
      BY Zenon
    <3>1. i \in 1 .. Len(handed) /\ new[i] = handed[i] /\ handed[i] \in 0 .. n - 1
      BY <1>5, <1>6, <2>1, SMTT(60) DEF ReleasedTo
    <3>2. CASE j = Len(handed) + 1
      BY <3>1, <3>2, <2>1, SMTT(60)
    <3>3. CASE j # Len(handed) + 1
      <4>1. j \in 1 .. Len(handed) /\ new[j] = handed[j]
        BY <3>3, <1>6, <2>1, SMTT(60)
      <4> QED BY <3>1, <4>1, <1>5, ZenonT(60) DEF ReleasedTo
    <3> QED BY <3>2, <3>3, ZenonT(60)
  <2>6. \A p \in 0 .. n : ~TooMany(p)
    <3> SUFFICES ASSUME NEW p \in 0 .. n, p # n PROVE ~TooMany(p)
      BY <1>7, Zenon
    <3> p \in 0 .. n - 1
      BY <1>2, SMTT(60)
    <3> QED BY <1>5, ZenonT(60) DEF ReleasedTo
  <2>7. Len(new) = LanePart(n + 1)
    BY <1>3, <1>6, <1>9, <2>1, ZenonT(60)
  <2>8. ReleasedTo(n + 1)'
    <3> (n + 1) - 1 = n
      BY <1>2, SMTT(60)
    <3> next' = n + 1 /\ failed' = OK /\ OK[1] = "ok"
      BY <1>2, Zenon DEF OK
    <3>1. /\ \A p \in 0 .. n : TooMany(p)' <=> TooMany(p)
          /\ \A p : LanePart(p)' = LanePart(p)
          /\ RowsBefore(n + 1)' = RowsBefore(n + 1)
      BY <1>4, Zenon
    <3>2. \A p \in 0 .. (n + 1) - 1 : ~TooMany(p)'
      BY <2>6, <3>1, ZenonT(60)
    <3>3. \A p \in 0 .. (n + 1) - 1 : rows'[p] > 0 => /\ LanePart(p)' \in 0 .. Len(handed') - 1
                                                      /\ handed'[LanePart(p)' + 1] = p
      BY <2>2, <2>3, <3>1, ZenonT(60)
    <3>4. ASSUME NEW i \in 1 .. Len(handed')
          PROVE  \E p \in 0 .. (n + 1) - 1 : handed'[i] = p /\ rows'[p] > 0 /\ LanePart(p)' = i - 1
      <4> PICK p \in 0 .. n : new[i] = p /\ rows[p] > 0 /\ LanePart(p) = i - 1
        BY <2>2, <2>4, ZenonT(60)
      <4> handed'[i] = p /\ rows'[p] > 0 /\ LanePart(p)' = i - 1
        BY <2>2, <3>1, ZenonT(60)
      <4> QED BY Zenon
    <3>5. \A i, j \in 1 .. Len(handed') : i < j => handed'[i] < handed'[j]
      BY <2>2, <2>5, ZenonT(60)
    <3>6. numRows' = RowsBefore(n + 1)' /\ Len(handed') = LanePart(n + 1)'
      BY <1>8, <2>2, <2>7, <3>1, ZenonT(60)
    <3>7. failed'[1] # "rows" /\ failed'[1] \notin {"rows", "memory"}
      BY Zenon
    <3> QED BY <1>2, <1>8, <3>2, <3>3, <3>4, <3>5, <3>6, <3>7, ZenonT(60) DEF ReleasedTo
  <2>9. ReleaseInv'
    BY <1>2, <2>1, <2>2, <2>8, ZenonT(60) DEF ReleaseInv
  <2>10. CallInv' /\ OutcomeInv'
    <3> pc' = "hand" /\ Len(handed') = Len(handed) + 1 /\ added \in Nat
      BY <1>2, <1>9, <2>1, <2>2, SMTT(60) DEF LP!IndInv, LP!LanesTypeOK
    <3> QED BY <1>6, SMTT(60) DEF CallInv, OutcomeInv, OK
  <2> QED BY <2>9, <2>10, ZenonT(60) DEF BuildInv
<1>10. CASE ~(rows[n] > 0)
  <2>1. handed' = handed /\ pc' = "release" /\ rows[n] = 0
    BY <1>2, <1>10, SMTT(60)
  <2>2. \A p \in 0 .. n : p \in 0 .. n - 1 \/ p = n
    BY <1>2, SMTT(60)
  <2>3. (n + 1) - 1 = n /\ LanePart(n + 1) = LanePart(n)
    BY <1>2, <1>3, <1>10, SMTT(60)
  <2>4. \A i \in 1 .. Len(handed) :
          \E p \in 0 .. n : handed[i] = p /\ rows[p] > 0 /\ LanePart(p) = i - 1
    BY <1>2, <1>5, SMTT(60) DEF ReleasedTo
  <2>5. ReleasedTo(n + 1)'
    BY <1>2, <1>4, <1>5, <1>7, <1>10, <1>8, <2>1, <2>2, <2>3, <2>4, SMTT(60) DEF ReleasedTo, OK
  <2>6. ReleaseInv'
    BY <1>2, <2>1, <2>5, ZenonT(60) DEF ReleaseInv
  <2>7. CallInv' /\ OutcomeInv'
    BY <2>1, Zenon DEF CallInv, OutcomeInv, OK
  <2> QED BY <2>6, <2>7, Zenon DEF BuildInv
<1> QED BY <1>9, <1>10, ZenonT(60)
\* Add of the lanes takes the released part, or finds a failure.
LEMMA LanesAddInd ==
  ASSUME Sizes, BuildInv, LanesAdd
  PROVE  BuildInv'
<1> LP!IndInv /\ ReleaseInv /\ CallInv /\ OutcomeInv
  BY Zenon DEF BuildInv
<1> /\ pc = "hand"
    /\ \/ lpc = "idle" /\ added < Len(handed) /\ (L!AddCall \/ L!AddSerial)
       \/ lpc = "add" /\ L!CallStep
    /\ UNCHANGED <<rows, pc, caller, parts, next, numRows, handed, failed, finished, result>>
  BY Zenon DEF LanesAdd, callVars
<1> failed = OK /\ ~finished /\ numLanes = NumLanes /\ OK[1] = "ok"
  BY Zenon DEF CallInv, OK
<1> LP!IndInv'
  BY LanesKeep, ZenonT(60)
<1> added \in Nat /\ Len(handed) \in Nat
  BY SMTT(60) DEF LP!IndInv, LP!LanesTypeOK, ReleaseInv
<1> /\ UNCHANGED <<executor, numLanes, mergeable>>
    /\ lpc' \in {"add", "idle", "finish"}
    /\ lpc' = "add" => added' = added
    /\ lpc' = "idle" => added' = added + 1
    /\ lpc' = "finish" => failure' # L!NoFailure /\ added' \in {added, added + 1}
    /\ added < Len(handed)
    /\ ~executor => lpc' = "idle"
  <2>1. CASE L!AddCall
    BY <2>1, Zenon DEF L!AddCall
  <2>2. CASE L!AddSerial
    <3> failure = L!NoFailure
      BY <2>2, ZenonT(60) DEF L!AddSerial, CallInv
    <3> QED BY <2>2, ZenonT(60) DEF L!AddSerial
  <2>3. CASE lpc = "add" /\ L!CallStep
    <3> executor
      BY <2>3, ZenonT(60) DEF LP!IndInv, LP!PlaceInv
    <3> QED BY <2>3, SameLanes, LP!CallSeen, ZenonT(60) DEF Sizes, CallInv
  <2> QED BY <2>1, <2>2, <2>3, Zenon
<1> ReleaseInv'
  BY ReleasedStays, ZenonT(60) DEF ReleaseInv
<1> CallInv'
  BY SMTT(60) DEF CallInv
<1> OutcomeInv'
  BY Zenon DEF OutcomeInv
<1> QED BY Zenon DEF BuildInv

\* Finish of the lanes waits for their tasks.
LEMMA LanesFinishInd ==
  ASSUME Sizes, BuildInv, LanesFinish
  PROVE  BuildInv'
<1> LP!IndInv /\ ReleaseInv /\ CallInv /\ OutcomeInv
  BY ZenonT(60) DEF BuildInv
<1> /\ pc = "merged"
    /\ (L!WaitCall /\ lpc' = "finish") \/ (lpc = "finish" /\ L!CallStep)
    /\ UNCHANGED <<rows, pc, caller, parts, next, numRows, handed, failed, finished, result>>
  BY ZenonT(60) DEF LanesFinish, callVars
<1> LP!IndInv'
  BY LanesKeep, ZenonT(60) DEF CallInv
<1> /\ UNCHANGED <<executor, numLanes, mergeable, added, refused, task, failure>>
    /\ lpc' \in {"finish", "finished"}
  <2>1. CASE L!WaitCall /\ lpc' = "finish"
    BY <2>1, Zenon DEF L!WaitCall
  <2>2. CASE lpc = "finish" /\ L!CallStep
    BY <2>2, SameLanes, LP!CallSeen, ZenonT(60) DEF Sizes
  <2> QED BY <2>1, <2>2, ZenonT(60)
<1> UNCHANGED L!NoLaneRuns /\ UNCHANGED LP!Bad /\ UNCHANGED FirstOfBad /\ UNCHANGED SerialFailure
  BY ViewSame, SerialSame, ZenonT(60)
<1> UNCHANGED MergeFailure
  BY Zenon DEF MergeFailure
<1> ReleaseInv'
  BY ReleasedStays, Zenon DEF ReleaseInv
<1> CallInv' /\ OutcomeInv'
  BY Zenon DEF CallInv, OutcomeInv
<1> QED BY Zenon DEF BuildInv

\* A step of a lane's task: no build has failed or ended, or Merged() waits for it.
LEMMA LaneTaskInd ==
  ASSUME Sizes, BuildInv, NEW l \in L!Lanes, LaneTask(l)
  PROVE  BuildInv'
<1> LP!IndInv /\ ReleaseInv /\ CallInv /\ OutcomeInv
  BY Zenon DEF BuildInv
<1> /\ L!Drain(l)
    /\ UNCHANGED <<rows, pc, caller, parts, next, numRows, handed, failed, finished, result>>
  BY Zenon DEF LaneTask, callVars
<1> LP!IndInv'
  BY LanesKeep, Zenon DEF CallInv
<1> l \in LP!AllLanes /\ LP!Drain(l) /\ L!NoFailure = LP!NoFailure
  BY SameLanes, Zenon DEF CallInv, L!Lanes, LP!AllLanes
<1> /\ task[l] # "none" /\ executor
    /\ UNCHANGED <<executor, numLanes, mergeable, lpc, added, refused>>
    /\ failure # L!NoFailure => failure' # L!NoFailure
  BY LP!DrainSeen, Zenon DEF Sizes
<1> ~L!NoLaneRuns
  BY SameLanes, Zenon DEF LP!NoLaneRuns
<1> UNCHANGED SerialFailure
  BY SerialSame, Zenon
<1> ReleaseInv'
  BY ReleasedStays, ZenonT(60) DEF ReleaseInv
<1> CallInv'
  BY Zenon DEF CallInv
<1> OK[1] = "ok"
  BY Zenon DEF OK
<1> /\ failed[1] # "merge"
    /\ pc = "idle" => failed = OK
    /\ finished => pc = "merged" /\ caller = "finish"
  BY Zenon DEF OutcomeInv
<1> OutcomeInv'
  BY Zenon DEF OutcomeInv
<1> QED BY Zenon DEF BuildInv
-----------------------------------------------------------------------------
(* What has been seen is what the serial build meets.                       *)

\* The least number of a set is the one that is chosen.
LEMMA LeastChosen ==
  ASSUME NEW T, T \subseteq Int, NEW x \in T, \A y \in T : x <= y
  PROVE  (CHOOSE p \in T : \A q \in T : p <= q) = x
<1>1. \A z \in T : (\A y \in T : z <= y) => z = x
  OBVIOUS
<1> DEFINE c == CHOOSE p \in T : \A q \in T : p <= q
<1>2. c \in T /\ \A y \in T : c <= y
  <2>1. \E p \in T : \A q \in T : p <= q
    BY Zenon
  <2> QED BY <2>1, ZenonT(60)
<1> HIDE DEF c
<1> c = x
  BY <1>1, <1>2, ZenonT(60)
<1> QED BY Zenon DEF c

\* The parts with which the serial build fails.
BadParts == {p \in Parts : TooMany(p) \/ BadLanes(p) # {}}

\* A part is bad in a lane of the serial build only where its merge fails.
LEMMA BadLaneFails ==
  ASSUME Sizes, LP!IndInv, numLanes = NumLanes, NEW done \in 0 .. NumParts, ReleasedTo(done),
         NEW p \in 0 .. done - 1, NEW l \in BadLanes(p), LanePart(p) < added
  PROVE  /\ <<LanePart(p), l>> \in LP!Bad /\ l \in Nat
         /\ LanePart(p) \in 0 .. Len(handed) - 1 /\ handed[LanePart(p) + 1] = p
<1> rows[p] > 0 /\ l \in L!Lanes /\ ~mergeable[<<LanePart(p), l>>]
  BY Zenon DEF BadLanes
<1> LanePart(p) \in 0 .. Len(handed) - 1 /\ handed[LanePart(p) + 1] = p
  BY Zenon DEF ReleasedTo
<1> added \in 0 .. NumParts
  BY Zenon DEF LP!IndInv, LP!LanesTypeOK
<1> LanePart(p) \in LP!Parts /\ l \in LP!AllLanes /\ l < numLanes /\ l \in Nat
  BY DEF LP!Parts, LP!AllLanes, L!Lanes, Sizes
<1> QED BY Zenon DEF LP!Bad, LP!Failures

\* Without a failed merge no released part is bad.
LEMMA NoBadPart ==
  ASSUME Sizes, LP!IndInv, numLanes = NumLanes, NEW done \in 0 .. NumParts, ReleasedTo(done),
         added = Len(handed), LP!Bad = {}
  PROVE  \A p \in 0 .. done - 1 : p \notin BadParts
<1> SUFFICES ASSUME NEW p \in 0 .. done - 1, BadLanes(p) # {} PROVE FALSE
  BY Zenon DEF BadParts, ReleasedTo
<1>1. PICK l \in BadLanes(p) : TRUE
  BY Zenon
<1>2. rows[p] > 0
  BY <1>1, ZenonT(60) DEF BadLanes
<1>3. LanePart(p) < added
  BY <1>2 DEF ReleasedTo
<1> QED BY <1>1, <1>3, BadLaneFails, ZenonT(60)

\* SerialFailure, from the first of the bad parts.
LEMMA SerialFirst ==
  /\ BadParts = {} => SerialFailure = OK
  /\ \A p \in BadParts :
       (\A q \in BadParts : p <= q) =>
          /\ TooMany(p) => SerialFailure = <<"rows", p, 0>>
          /\ \A l \in BadLanes(p) :
               ~TooMany(p) /\ (\A m \in BadLanes(p) : l <= m) => SerialFailure = <<"merge", p, l>>
<1> DEFINE First == CHOOSE p \in BadParts : \A q \in BadParts : p <= q
<1> DEFINE FirstLane(p) == CHOOSE l \in BadLanes(p) : \A m \in BadLanes(p) : l <= m
<1>1. SerialFailure = IF BadParts = {} THEN OK
                      ELSE IF TooMany(First) THEN <<"rows", First, 0>>
                      ELSE <<"merge", First, FirstLane(First)>>
  BY Zenon DEF SerialFailure, BadParts
<1>2. ASSUME NEW p \in BadParts, \A q \in BadParts : p <= q
      PROVE  First = p
  <2>1. BadParts \subseteq Int
    BY DEF BadParts, Parts
  <2> QED BY <1>2, <2>1, LeastChosen, ZenonT(60)
<1>3. ASSUME NEW p, NEW l \in BadLanes(p), \A m \in BadLanes(p) : l <= m
      PROVE  FirstLane(p) = l
  <2> BadLanes(p) \subseteq Int
    BY SMTT(60) DEF BadLanes, L!Lanes
  <2> QED BY <1>3, LeastChosen, ZenonT(60)
<1> HIDE DEF First, FirstLane
<1>4. BadParts = {} => SerialFailure = OK
  BY <1>1, Zenon
<1>5. ASSUME NEW p \in BadParts, \A q \in BadParts : p <= q, TooMany(p)
      PROVE  SerialFailure = <<"rows", p, 0>>
  <2> First = p /\ BadParts # {}
    BY <1>2, <1>5, ZenonT(60)
  <2> QED BY <1>1, <1>5, ZenonT(60)
<1>6. ASSUME NEW p \in BadParts, \A q \in BadParts : p <= q, ~TooMany(p),
             NEW l \in BadLanes(p), \A m \in BadLanes(p) : l <= m
      PROVE  SerialFailure = <<"merge", p, l>>
  <2> First = p /\ BadParts # {}
    BY <1>2, <1>6, ZenonT(60)
  <2> FirstLane(p) = l
    BY <1>3, <1>6, ZenonT(60)
  <2> QED BY <1>1, <1>6, ZenonT(60)
<1> QED BY <1>4, <1>5, <1>6, ZenonT(60)
\* Every part is released and no merge failed: neither does the serial build.
LEMMA TableSerial ==
  ASSUME Sizes, LP!IndInv, numLanes = NumLanes, ReleasedTo(NumParts), added = Len(handed), LP!Bad = {}
  PROVE  SerialFailure = OK
<1>1. \A p \in 0 .. NumParts - 1 : p \notin BadParts
  BY NoBadPart, SMTT(60) DEF Sizes
<1>2. BadParts = {}
  BY <1>1, Zenon DEF BadParts, Parts
<1> QED BY <1>2, SerialFirst, ZenonT(60)

\* The part with too many rows is the first that is bad.
LEMMA RowsSerial ==
  ASSUME Sizes, LP!IndInv, ReleaseInv, numLanes = NumLanes, added = Len(handed), LP!Bad = {},
         failed[1] = "rows"
  PROVE  failed = SerialFailure
<1>1. PICK done \in 0 .. NumParts : ReleasedTo(done)
  BY Zenon DEF ReleaseInv
<1>2. failed = <<"rows", done, 0>> /\ done \in Parts /\ TooMany(done)
  BY <1>1, SMTT(60) DEF ReleasedTo, Parts, Sizes
<1>3. done \in BadParts
  BY <1>2, Zenon DEF BadParts
<1>4. \A p \in 0 .. done - 1 : p \notin BadParts
  BY <1>1, NoBadPart, Zenon
<1>5. \A q \in BadParts : done <= q
  BY <1>4 DEF BadParts, Parts
<1> QED BY <1>2, <1>3, <1>5, SerialFirst, ZenonT(60)

\* The first merge that failed is the first thing the serial build fails with.
LEMMA MergeSerial ==
  ASSUME Sizes, LP!IndInv, ReleaseInv, numLanes = NumLanes, added <= Len(handed), refused = {},
         FirstOfBad
  PROVE  MergeFailure = SerialFailure
<1>1. PICK done \in 0 .. NumParts : ReleasedTo(done)
  BY Zenon DEF ReleaseInv
<1> added \in 0 .. NumParts /\ Len(handed) \in Nat
  BY DEF LP!IndInv, LP!LanesTypeOK, ReleaseInv
<1>2. PICK k \in LP!Parts, l \in LP!AllLanes : failure = <<k, l>>
  BY SMTT(60) DEF FirstOfBad, LP!Bad, LP!Failures
<1>3. k \in Nat /\ l \in Nat /\ k < added /\ l \in L!Lanes /\ ~mergeable[<<k, l>>]
  BY <1>2, SMTT(60) DEF FirstOfBad, LP!Bad, LP!Parts, LP!AllLanes, L!Lanes, Sizes
<1>4. PICK p \in 0 .. done - 1 : handed[k + 1] = p /\ rows[p] > 0 /\ LanePart(p) = (k + 1) - 1
  BY <1>1, <1>3, SMTT(60) DEF ReleasedTo
<1>5. LanePart(p) = k /\ p \in Parts /\ ~TooMany(p) /\ p \in Nat
  BY <1>1, <1>3, <1>4, SMTT(60) DEF ReleasedTo, Parts, Sizes
<1>6. l \in BadLanes(p)
  BY <1>3, <1>4, <1>5, Zenon DEF BadLanes
<1>7. p \in BadParts
  BY <1>5, <1>6, ZenonT(60) DEF BadParts
<1>8. \A m \in BadLanes(p) : l <= m
  <2> SUFFICES ASSUME NEW m \in BadLanes(p) PROVE l <= m
    BY Zenon
  <2>1. <<k, m>> \in LP!Bad /\ m \in Nat
    BY <1>1, <1>3, <1>5, BadLaneFails, ZenonT(60)
  <2> QED BY <1>2, <1>3, <2>1, SMTT(60) DEF FirstOfBad, LP!Before
<1>9. \A q \in BadParts : p <= q
  <2> SUFFICES ASSUME NEW q \in BadParts, ~(p <= q) PROVE FALSE
    BY Zenon
  <2>1. q \in 0 .. done - 1 /\ q < p
    BY <1>1, <1>5, SMTT(60) DEF BadParts, Parts
  <2>2. BadLanes(q) # {}
    BY <1>1, <2>1, ZenonT(60) DEF BadParts, ReleasedTo
  <2>3. PICK m \in BadLanes(q) : TRUE
    BY <2>2, Zenon
  <2>4. rows[q] > 0
    BY <2>3, ZenonT(60) DEF BadLanes
  <2>5. LanePart(q) \in 0 .. Len(handed) - 1 /\ handed[LanePart(q) + 1] = q
    BY <1>1, <2>1, <2>4, ZenonT(60) DEF ReleasedTo
  <2>6. LanePart(q) < k
    <3> SUFFICES ASSUME ~(LanePart(q) < k) PROVE FALSE
      BY Zenon
    <3>1. LanePart(q) # k
      BY <1>4, <2>1, <2>5, SMTT(60)
    <3>2. k + 1 < LanePart(q) + 1 /\ k + 1 \in 1 .. Len(handed) /\ LanePart(q) + 1 \in 1 .. Len(handed)
      BY <1>3, <2>5, <3>1, SMTT(60)
    <3>3. handed[k + 1] < handed[LanePart(q) + 1]
      BY <1>1, <3>2, ZenonT(60) DEF ReleasedTo
    <3> QED BY <1>4, <2>1, <2>5, <3>3, SMTT(60)
  <2>7. <<LanePart(q), m>> \in LP!Bad /\ LanePart(q) \in Nat
    BY <1>1, <1>3, <2>1, <2>3, <2>5, <2>6, BadLaneFails, SMTT(60)
  <2> QED BY <1>2, <1>3, <2>6, <2>7, SMTT(60) DEF FirstOfBad, LP!Before
<1>10. MergeFailure = <<"merge", p, l>>
  BY <1>2, <1>4, Zenon DEF MergeFailure
<1> QED BY <1>5, <1>6, <1>7, <1>8, <1>9, <1>10, SerialFirst, ZenonT(60)

-----------------------------------------------------------------------------
(* Merged() and Finish return, and the theorem.                             *)

\* Merged() returns with the lanes' failure before its own; Finish frees the parts.
LEMMA MergedReturnsInd ==
  ASSUME Sizes, BuildInv, MergedReturns
  PROVE  BuildInv'
<1> LP!IndInv /\ ReleaseInv /\ CallInv /\ OutcomeInv
  BY Zenon DEF BuildInv
<1> /\ pc = "merged" /\ lpc = "finished" /\ lpc' = "idle" /\ failed' = FailureOf /\ pc' = "idle"
    /\ result' \in IF caller = "finish" /\ failed' = OK THEN Finished ELSE {failed'}
    /\ parts' = IF caller = "finish" THEN {} ELSE parts
    /\ UNCHANGED <<rows, caller, next, numRows, handed, finished>>
    /\ UNCHANGED <<executor, numLanes, mergeable, awake, added, refused, queue, task, lfailed,
                   merging, merged, remaining, pending, failure>>
  BY Zenon DEF MergedReturns
<1> LP!IndInv'
  <2>1. LP!OrderInv' /\ LP!FailureInv' /\ LP!HeldInv'
    BY LP!PlaceOnly, Zenon DEF Sizes, LP!laneVars
  <2>2. LP!LanesTypeOK'
    BY Zenon DEF LP!IndInv, LP!LanesTypeOK, LP!Places
  <2>3. LP!PlaceInv'
    BY Zenon DEF LP!IndInv, LP!PlaceInv, LP!NoLaneRuns
  <2> QED BY <2>1, <2>2, <2>3, ZenonT(60) DEF LP!IndInv
<1> L!NoFailure = LP!NoFailure /\ numLanes = NumLanes
  BY SameLanes, ZenonT(60) DEF CallInv
<1> L!NoLaneRuns
  BY SameLanes, ZenonT(60) DEF LP!IndInv, LP!PlaceInv
<1> UNCHANGED L!NoLaneRuns /\ UNCHANGED LP!Bad /\ UNCHANGED FirstOfBad /\ UNCHANGED SerialFailure
  BY ViewSame, SerialSame, ZenonT(60)
<1> UNCHANGED MergeFailure
  BY Zenon DEF MergeFailure
<1> OK[1] = "ok" /\ MergeFailure[1] = "merge"
  BY Zenon DEF OK, MergeFailure
<1>1. /\ failure # L!NoFailure => FirstOfBad
      /\ failure = L!NoFailure => LP!Bad = {}
  <2>1. LP!FailureIsFirst
    BY LP!IndImplies, ZenonT(60) DEF Sizes
  <2>2. L!NoFailure \notin LP!Bad
    BY SMTT(60) DEF L!NoFailure, L!NoPart, LP!Bad, LP!Failures, LP!Parts
  <2> QED BY <2>1, <2>2, ZenonT(60) DEF LP!FailureIsFirst, FirstOfBad
<1>2. failed' = failed \/ failed'[1] = "merge"
  BY Zenon DEF FailureOf
<1>3. ReleaseInv'
  BY <1>2, ReleasedStays, ZenonT(60) DEF ReleaseInv
<1>4. CallInv'
  BY Zenon DEF CallInv
<1>5. finished => parts' = {}
  BY Zenon DEF OutcomeInv
<1>6. CASE failure # L!NoFailure
  <2> failed' = MergeFailure /\ result' = failed' /\ failed' # OK
    BY <1>6, ZenonT(60) DEF FailureOf
  <2> FirstOfBad
    BY <1>1, <1>6, ZenonT(60)
  <2>1. OutcomeInv'
    BY <1>5, <1>6, ZenonT(60) DEF OutcomeInv
  <2> QED BY <1>3, <1>4, <2>1, ZenonT(60) DEF BuildInv
<1>7. CASE failure = L!NoFailure
  <2> failed' = failed /\ LP!Bad = {} /\ failed[1] # "merge"
    BY <1>1, <1>7, ZenonT(60) DEF FailureOf, OutcomeInv
  <2>1. result'[1] = "table" => finished /\ SerialFailure = OK /\ next = NumParts
    <3> SUFFICES ASSUME result'[1] = "table" PROVE finished /\ SerialFailure = OK /\ next = NumParts
      BY Zenon
    <3>1. caller = "finish" /\ failed = OK
      BY Zenon DEF OutcomeInv
    <3>2. ~(next < NumParts)
      BY <3>1, SMTT(60) DEF Finished, Invalid
    <3>3. next = NumParts
      BY <3>2, SMTT(60) DEF ReleaseInv, Sizes
    <3>4. ReleasedTo(NumParts)
      BY <3>1, <3>3, ZenonT(60) DEF ReleaseInv, ReleasedTo
    <3>5. finished /\ added = Len(handed)
      BY <1>7, <3>1, ZenonT(60) DEF CallInv
    <3> QED BY <3>3, <3>4, <3>5, TableSerial, ZenonT(60)
  <2>2. OutcomeInv'
    BY <1>5, <1>7, <2>1, ZenonT(60) DEF OutcomeInv
  <2> QED BY <1>3, <1>4, <2>2, ZenonT(60) DEF BuildInv
<1> QED BY <1>6, <1>7, ZenonT(60)

\* Every step keeps the invariant.
LEMMA NextInd ==
  ASSUME Sizes, BuildInv, [Next]_vars
  PROVE  BuildInv'
<1>1. CASE Next
  BY <1>1, CallsInd, LoopInd, ReleaseFailsInd, ReleaseInd, LanesAddInd, LanesFinishInd,
     MergedReturnsInd, LaneTaskInd, ZenonT(60) DEF Next, Call, CallStep
<1>2. CASE UNCHANGED vars
  <2> LP!IndInv /\ ReleaseInv /\ CallInv /\ OutcomeInv
    BY Zenon DEF BuildInv
  <2> UNCHANGED <<rows, pc, caller, parts, next, numRows, handed, failed, finished, result, lanesVars>>
    BY <1>2, ZenonT(60) DEF vars, callVars
  <2> LP!IndInv' /\ UNCHANGED <<executor, numLanes, mergeable, lpc, added, refused, task, failure>>
    BY LanesKeep, ZenonT(60) DEF CallInv, lanesVars
  <2> UNCHANGED L!NoLaneRuns /\ UNCHANGED LP!Bad /\ UNCHANGED FirstOfBad /\ UNCHANGED SerialFailure
    BY ViewSame, SerialSame, ZenonT(60)
  <2> UNCHANGED MergeFailure
    BY Zenon DEF MergeFailure
  <2> ReleaseInv'
    BY ReleasedStays, Zenon DEF ReleaseInv
  <2> CallInv' /\ OutcomeInv'
    BY ZenonT(60) DEF CallInv, OutcomeInv
  <2> QED BY Zenon DEF BuildInv
<1> QED BY <1>1, <1>2, ZenonT(60)

\* The invariant says what the property says.
LEMMA BuildImplies ==
  ASSUME Sizes, BuildInv
  PROVE  BuiltLikeSerial
<1> LP!IndInv /\ ReleaseInv /\ CallInv /\ OutcomeInv
  BY Zenon DEF BuildInv
<1> numLanes = NumLanes
  BY Zenon DEF CallInv
<1>1. ASSUME pc = "idle", refused = {}, failed[1] \notin {"ok", "memory"} PROVE failed = SerialFailure
  <2>1. CASE failed[1] = "merge"
    BY <1>1, <2>1, MergeSerial, ZenonT(60) DEF OutcomeInv, CallInv
  <2>2. CASE failed[1] = "rows"
    BY <1>1, <2>2, RowsSerial, ZenonT(60) DEF OutcomeInv, CallInv
  <2> QED BY <1>1, <2>1, <2>2, ZenonT(60) DEF OutcomeInv
<1>2. EarliestFailure
  BY <1>1, Zenon DEF EarliestFailure, OutcomeInv
<1>3. FreedAfterMerges
  BY SameLanes, LP!IdleHoldsNone, ZenonT(60) DEF FreedAfterMerges, OutcomeInv, Sizes
<1> QED BY <1>2, <1>3, ZenonT(60) DEF BuiltLikeSerial

\* JoinTableBuilder's promise, for any parts, rows, partitions, window and threads: whatever
\* the order in which the parts are added and their merges run, a build that fails has the
\* failure of the serial order, and Finish frees the parts when no lane reads them any more.
THEOREM BuildCorrect ==
  ASSUME Sizes
  PROVE  Spec => []BuiltLikeSerial
<1>1. Init => BuildInv
  BY InitInd, Zenon
<1>2. BuildInv /\ [Next]_vars => BuildInv'
  BY NextInd, Zenon
<1>3. BuildInv => BuiltLikeSerial
  BY BuildImplies, Zenon
<1> QED BY <1>1, <1>2, <1>3, PTL DEF Spec
=============================================================================
