------------------------ MODULE ParallelComputeProofs ------------------------
(***************************************************************************)
(* ParallelComputeOperator returns what ComputeOperator returns, for any   *)
(* number of batches, window and threads.                                  *)
(*                                                                         *)
(* That the batch taken is the next in input order depends on entries_     *)
(* being exactly the batches read and not yet returned, also across a      *)
(* Drop; that its result is its own depends on every slot belonging to a   *)
(* task of entries_, so that Drop() leaves none behind; and that the end   *)
(* is only returned after the last batch depends on in_flight_ counting    *)
(* those tasks, without which Fill() could return with nothing read.       *)
(*                                                                         *)
(* At the end: ForEach, the other loop of tasks behind one consumer.       *)
(***************************************************************************)
EXTENDS ParallelCompute, ForEach, SequenceTheorems, FiniteSetTheorems, TLAPS

Places ==
  {"idle", "fill", "take", "dropping", "alone", "ended", "failed", "closing", "closed"}

Over == cpc \in {"failed", "closing", "closed"}

Entries == [id : Batches, submitted : BOOLEAN]

ComputeTypeOK ==
  /\ parallel \in BOOLEAN
  /\ fate \in [Batches -> Fates]
  /\ inputFails \in 0 .. NumBatches
  /\ cpc \in Places
  /\ entries \in Seq(Entries)
  /\ inFlight \in Nat
  /\ window \in Nat \ {0}
  /\ nextId \in 0 .. NumBatches
  /\ inputDone \in BOOLEAN
  /\ inputError \in BOOLEAN
  /\ batchTask \in [Batches -> {"none", "queued", "running", "slotted", "done"}]
  /\ slots \in [Batches -> {"none", "ok", "error", "oom"}]

\* The batch entries_ begins with: those behind it are the rest of the batches read.
Front == nextId - Len(entries)

EntriesInv ==
  /\ Front >= 0
  /\ \A i \in DOMAIN entries : entries[i].id = Front + i - 1
  /\ nextId <= inputFails
  /\ cpc \in {"dropping", "alone"} => entries # <<>>
  /\ cpc = "alone" => ~entries[1].submitted
  /\ ~parallel => entries = <<>> /\ ~inputDone /\ cpc \in {"idle", "ended", "failed", "closing", "closed"}
  /\ ~Over => Front = Len(delivered)

\* The input has ended at the last batch, or failed in the place of the next.
InputInv ==
  /\ inputDone => nextId = inputFails
  /\ inputError <=> inputDone /\ inputFails < NumBatches
  /\ cpc = "take" /\ entries = <<>> => inputDone
  /\ cpc = "ended" => Len(delivered) = NumBatches /\ inputFails = NumBatches

\* The tasks are those of the entries submitted, and a task's result is its batch's own unless
\* it ran out of memory.
TaskInv ==
  \A b \in Batches :
    /\ batchTask[b] # "none" <=> \E i \in DOMAIN entries : entries[i].id = b /\ entries[i].submitted
    /\ batchTask[b] \in {"slotted", "done"} => slots[b] \in {fate[b], "oom"}

Tasks == {b \in Batches : batchTask[b] # "none"}

CountInv == inFlight = Cardinality(Tasks)

DeliveredInv ==
  /\ delivered \in Seq(Batches)
  /\ \A b \in Batches : b < Len(delivered) => fate[b] = "ok"
  /\ outcome = "running" <=> ~Over

IndInv == ComputeTypeOK /\ EntriesInv /\ InputInv /\ TaskInv /\ CountInv /\ DeliveredInv

-----------------------------------------------------------------------------
(* Tasks and entries.                                                       *)

\* The batches with a task are a finite set.
LEMMA FiniteTasks ==
  ASSUME NumBatches \in Nat
  PROVE  IsFiniteSet(Tasks) /\ Cardinality(Tasks) \in Nat
<1>1. IsFiniteSet(Batches) /\ Tasks \in SUBSET Batches
  BY FS_Interval DEF Batches, Tasks
<1>2. IsFiniteSet(Tasks)
  BY <1>1, FS_Subset, Zenon
<1> QED BY <1>2, FS_CardinalityType, Zenon

\* A task more, as in_flight_ counts them.
LEMMA OneMore ==
  ASSUME NumBatches \in Nat, CountInv, inFlight' = inFlight + 1,
         NEW b, b \notin Tasks, Tasks' = Tasks \cup {b}
  PROVE  CountInv' /\ inFlight' \in Nat
<1>1. Cardinality(Tasks \cup {b}) = Cardinality(Tasks) + 1
  BY FiniteTasks, FS_AddElement, Zenon
<1> QED BY <1>1, FiniteTasks DEF CountInv

\* A task less.
LEMMA OneLess ==
  ASSUME NumBatches \in Nat, CountInv, inFlight' = inFlight - 1,
         NEW b, b \in Tasks, Tasks' = Tasks \ {b}
  PROVE  CountInv' /\ inFlight' \in Nat
<1>1. Cardinality(Tasks \ {b}) = Cardinality(Tasks) - 1
  BY FiniteTasks, FS_RemoveElement, Zenon
<1>2. IsFiniteSet(Tasks \ {b})
  BY FiniteTasks, FS_RemoveElement, Zenon
<1>3. Cardinality(Tasks \ {b}) \in Nat
  BY <1>2, FS_CardinalityType, Zenon
<1> QED BY <1>1, <1>3, FiniteTasks, Zenon DEF CountInv

\* TaskInv for entries_ as it is before a Submit, which may have one entry more.
TasksOf(es) ==
  \A b \in Batches :
    /\ batchTask[b] # "none" <=> \E i \in DOMAIN es : es[i].id = b /\ es[i].submitted
    /\ batchTask[b] \in {"slotted", "done"} => slots[b] \in {fate[b], "oom"}

\* Submit() of an entry that has no task: it has one then, or everything is as it was.
LEMMA SubmitKeeps ==
  ASSUME NumBatches \in Nat, NEW es, es \in Seq(Entries), NEW front \in Nat,
         \A k \in DOMAIN es : es[k].id = front + k - 1,
         NEW i \in DOMAIN es, ~es[i].submitted, Submit(es, i),
         batchTask \in [Batches -> {"none", "queued", "running", "slotted", "done"}],
         inFlight \in Nat, TasksOf(es), CountInv, UNCHANGED <<slots, fate>>
  PROVE  /\ entries' \in Seq(Entries) /\ Len(entries') = Len(es) /\ DOMAIN entries' = DOMAIN es
         /\ \A k \in DOMAIN entries' : entries'[k].id = front + k - 1
         /\ batchTask' \in [Batches -> {"none", "queued", "running", "slotted", "done"}]
         /\ inFlight' \in Nat
         /\ TaskInv' /\ CountInv'
         /\ \/ UNCHANGED <<cpc, outcome>>
            \/ cpc' = "failed" /\ outcome' \in {"submitFailure", "raised"}
<1>1. CASE entries' = es /\ UNCHANGED <<inFlight, batchTask>> /\ cpc' = "failed"
           /\ outcome' \in {"submitFailure", "raised"}
  <2>1. TaskInv'
    BY <1>1, Zenon DEF TasksOf, TaskInv
  <2>2. CountInv'
    BY <1>1 DEF CountInv, Tasks
  <2> QED BY <1>1, <2>1, <2>2, Zenon
<1>2. CASE /\ entries' = [es EXCEPT ![i].submitted = TRUE] /\ inFlight' = inFlight + 1
           /\ batchTask' = [batchTask EXCEPT ![es[i].id] = "queued"] /\ UNCHANGED <<cpc, outcome>>
  <2> DEFINE b == es[i].id
  <2>1. es[i] \in Entries /\ b \in Batches /\ DOMAIN es = 1 .. Len(es)
    <3>1. DOMAIN es = 1 .. Len(es)
      OBVIOUS
    <3>2. es[i] \in Entries
      BY <3>1
    <3> QED BY <3>1, <3>2, Zenon DEF Entries
  <2>2. /\ entries' \in Seq(Entries) /\ Len(entries') = Len(es) /\ DOMAIN entries' = DOMAIN es
        /\ entries'[i].id = b /\ entries'[i].submitted
        /\ \A k \in DOMAIN es \ {i} : entries'[k] = es[k]
    <3> DEFINE e == [es[i] EXCEPT !.submitted = TRUE]
    <3>1. e \in Entries /\ e.id = b /\ e.submitted
      BY <2>1, Zenon DEF Entries
    <3>2. entries' = [es EXCEPT ![i] = e]
      BY <1>2
    <3> HIDE DEF e, b
    <3>3. entries' \in Seq(Entries) /\ Len(entries') = Len(es) /\ \A k \in 1 .. Len(es) : entries'[k] = IF k = i THEN e ELSE es[k]
      BY <2>1, <3>1, <3>2, ExceptSeq
    <3>4. DOMAIN entries' = DOMAIN es
      BY <3>2
    <3> QED BY <2>1, <3>1, <3>3, <3>4, Zenon
  <2>3. \A k \in DOMAIN es : es[k].id = b => k = i
    BY <2>1
  <2>4. batchTask[b] = "none"
    BY <2>1, <2>3, ZenonT(60) DEF TasksOf
  <2>5. batchTask' \in [Batches -> {"none", "queued", "running", "slotted", "done"}]
        /\ batchTask'[b] = "queued" /\ \A c \in Batches \ {b} : batchTask'[c] = batchTask[c]
    BY <1>2, <2>1
  <2>6. \A k \in DOMAIN entries' : entries'[k].id = front + k - 1
    BY <2>2, Zenon
  <2>7. TaskInv'
    <3>1. ASSUME NEW c \in Batches
          PROVE  /\ batchTask'[c] # "none" <=> \E k \in DOMAIN entries' : entries'[k].id = c /\ entries'[k].submitted
                 /\ batchTask'[c] \in {"slotted", "done"} => slots'[c] \in {fate'[c], "oom"}
      <4>1. CASE c = b
        BY <2>2, <2>5, <4>1, SMTT(60)
      <4>2. CASE c # b
        <5>1. batchTask'[c] = batchTask[c]
          BY <2>5, <4>2
        <5>2. (\E k \in DOMAIN entries' : entries'[k].id = c /\ entries'[k].submitted)
                <=> \E k \in DOMAIN es : es[k].id = c /\ es[k].submitted
          BY <2>2, <4>2, Zenon
        <5> QED BY <5>1, <5>2, ZenonT(60) DEF TasksOf
      <4> QED BY <4>1, <4>2, SMTT(60)
    <3> QED BY <3>1, Zenon DEF TaskInv
  <2>8. b \notin Tasks /\ Tasks' = Tasks \cup {b}
    BY <2>1, <2>4, <2>5 DEF Tasks
  <2>9. CountInv' /\ inFlight' \in Nat
    BY <1>2, <2>8, OneMore, Zenon
  <2> QED BY <1>2, <2>2, <2>5, <2>6, <2>7, <2>9, SMTT(60)
<1> QED BY <1>1, <1>2, Zenon DEF Submit

-----------------------------------------------------------------------------
(* What a step is for PartSequence.                                         *)

\* A step the consumer does not see.
LEMMA SequenceStutter ==
  ASSUME UNCHANGED <<fate, inputFails, delivered, outcome>>
  PROVE  UNCHANGED Sequence!vars
BY DEF Sequence!vars, SerialFate

\* The next batch is returned.
LEMMA SequenceDeliver ==
  ASSUME ComputeTypeOK, DeliveredInv, outcome = "running", NEW b \in Batches, b = Len(delivered),
         b < inputFails, fate[b] = "ok", delivered' = Append(delivered, b),
         UNCHANGED <<fate, inputFails, outcome>>
  PROVE  Sequence!Deliver
<1>1. SerialFate[b] = "ok" /\ UNCHANGED SerialFate
  BY DEF SerialFate, ComputeTypeOK, Batches
<1> QED BY <1>1 DEF Sequence!Deliver, Sequence!Parts, Batches

\* The next batch fails, or the input does in its place.
LEMMA SequenceFail ==
  ASSUME ComputeTypeOK, DeliveredInv, outcome = "running", NEW b \in Batches, b = Len(delivered),
         SerialFate[b] # "ok", outcome' = SerialFate[b],
         UNCHANGED <<fate, inputFails, delivered>>
  PROVE  Sequence!Fail
<1>1. UNCHANGED SerialFate
  BY DEF SerialFate
<1> QED BY <1>1 DEF Sequence!Fail, Sequence!Parts, Batches

\* A task cannot be submitted, or the consumer closes the stream early.
LEMMA SequenceEnd ==
  ASSUME outcome = "running", outcome' \in {"submitFailure", "raised", "stopped"},
         UNCHANGED <<fate, inputFails, delivered>>
  PROVE  Sequence!End
<1>1. UNCHANGED SerialFate
  BY DEF SerialFate
<1> QED BY <1>1 DEF Sequence!End

Step == Sequence!Next \/ UNCHANGED Sequence!vars

-----------------------------------------------------------------------------
(* Preservation, action by action.                                          *)

\* The operator as Open() leaves it.
LEMMA InitInd ==
  ASSUME NumBatches \in Nat, MaxWindow \in Nat \ {0}, ComputeInit
  PROVE  IndInv /\ Sequence!Init
<1>1. ComputeTypeOK
  <2>1. inFlight \in Nat /\ window \in Nat \ {0} /\ nextId \in 0 .. NumBatches
    BY DEF ComputeInit
  <2>4. inputDone \in BOOLEAN /\ inputError \in BOOLEAN /\ cpc \in Places
    BY Zenon DEF ComputeInit, Places
  <2>2. entries \in Seq(Entries)
    BY DEF ComputeInit
  <2>3. /\ batchTask \in [Batches -> {"none", "queued", "running", "slotted", "done"}]
        /\ slots \in [Batches -> {"none", "ok", "error", "oom"}]
    BY DEF ComputeInit
  <2> QED BY <2>1, <2>2, <2>3, <2>4, ZenonT(60) DEF ComputeInit, ComputeTypeOK
<1>2. EntriesInv /\ InputInv
  <2>1. entries = <<>> /\ delivered = <<>> /\ nextId = 0 /\ ~inputDone /\ ~inputError /\ cpc = "idle"
    BY DEF ComputeInit
  <2>2. Front = 0 /\ Len(delivered) = 0 /\ DOMAIN entries = {}
    <3>1. Len(entries) = 0 /\ Len(delivered) = 0
      BY <2>1, Zenon
    <3>2. DOMAIN entries = 1 .. 0
      BY <2>1, SMTT(60)
    <3>3. 1 .. 0 = {} /\ 0 - 0 = 0
      OBVIOUS
    <3> QED BY <2>1, <3>1, <3>2, <3>3, Zenon DEF Front
  <2>3. inputFails \in 0 .. NumBatches
    BY DEF ComputeInit
  <2> QED BY <2>1, <2>2, <2>3, SMTT(60) DEF EntriesInv, InputInv
<1>3. TaskInv
  BY DEF ComputeInit, TaskInv
<1>4. CountInv
  <2>1. Tasks = {}
    BY DEF ComputeInit, Tasks
  <2> QED BY <2>1, FS_EmptySet, ZenonT(60) DEF ComputeInit, CountInv
<1>5. DeliveredInv
  BY DEF ComputeInit, DeliveredInv, Over, Batches
<1>6. Sequence!Init
  BY DEF ComputeInit, Sequence!Init, SerialFate, Sequence!Parts, Batches, Fates, Sequence!Fates
<1> QED BY <1>1, <1>2, <1>3, <1>4, <1>5, <1>6, SMTT(60) DEF IndInv

\* A step of a batch's task, which only that task and its slot see.
LEMMA TaskStepInd ==
  ASSUME IndInv, NEW b \in Batches, TaskStep(b)
  PROVE  IndInv' /\ Step
<1> USE DEF IndInv, TaskStep
<1>1. UNCHANGED <<parallel, fate, inputFails, cpc, entries, inFlight, window, nextId, inputDone,
                  inputError, delivered, outcome>>
  OBVIOUS
<1>2. ComputeTypeOK'
  <2>1. batchTask' \in [Batches -> {"none", "queued", "running", "slotted", "done"}]
    BY Zenon DEF ComputeTypeOK
  <2>2. slots' \in [Batches -> {"none", "ok", "error", "oom"}]
    BY Zenon DEF ComputeTypeOK, Fates
  <2> QED BY <1>1, <2>1, <2>2, SMTT(60) DEF ComputeTypeOK
<1>3. EntriesInv' /\ InputInv' /\ DeliveredInv'
  BY <1>1 DEF EntriesInv, InputInv, DeliveredInv, Front, Over
<1>4. \A c \in Batches : batchTask'[c] # "none" <=> batchTask[c] # "none"
  BY DEF ComputeTypeOK
<1>5. \A c \in Batches : batchTask'[c] \in {"slotted", "done"} => slots'[c] \in {fate[c], "oom"}
  BY DEF ComputeTypeOK, TaskInv
<1>6. TaskInv'
  BY <1>1, <1>4, <1>5, SMTT(60) DEF TaskInv
<1>7. Tasks' = Tasks
  BY <1>4, Zenon DEF Tasks
<1>8. CountInv'
  BY <1>1, <1>7, Zenon DEF CountInv
<1>9. Step
  BY <1>1, SequenceStutter, Zenon DEF Step
<1> QED BY <1>2, <1>3, <1>6, <1>8, <1>9, SMTT(60)

\* Next() without an executor: the batch is computed in the call.
LEMMA NextSerialInd ==
  ASSUME NumBatches \in Nat, IndInv, NextSerial
  PROVE  IndInv' /\ Step
<1> ComputeTypeOK /\ EntriesInv /\ InputInv /\ TaskInv /\ CountInv /\ DeliveredInv
  BY DEF IndInv
<1>1. /\ cpc = "idle" /\ ~parallel /\ entries = <<>> /\ outcome = "running" /\ ~inputDone
      /\ UNCHANGED <<parallel, fate, inputFails, entries, inFlight, window, inputDone, inputError, batchTask, slots>>
  BY Zenon DEF NextSerial, EntriesInv, DeliveredInv, Over
<1>2. TaskInv' /\ CountInv'
  BY <1>1 DEF TaskInv, CountInv, Tasks
<1>3. Len(entries) = 0 /\ Front = nextId /\ Len(delivered) = nextId /\ nextId \in Nat /\ nextId <= inputFails /\ inputFails \in Nat
      /\ inputFails <= NumBatches
  BY <1>1, SMTT(60) DEF EntriesInv, Front, Over, ComputeTypeOK
<1>4. InputNext = "batch" => nextId \in Batches /\ nextId < inputFails /\ nextId' \in 0 .. NumBatches
  BY <1>3 DEF InputNext, Batches, ComputeTypeOK, NextSerial
<1>5. ComputeTypeOK'
  <2>1. nextId' \in 0 .. NumBatches /\ cpc' \in Places
    BY <1>4, Zenon DEF NextSerial, ComputeTypeOK, Places, InputNext
  <2> QED BY <1>1, <2>1, SMTT(60) DEF ComputeTypeOK
<1>6. CASE InputNext = "batch" /\ fate[nextId] = "ok"
  <2>1. delivered' = Append(delivered, nextId) /\ nextId' = nextId + 1 /\ UNCHANGED <<cpc, outcome>>
    BY <1>6, Zenon DEF NextSerial
  <2>2. delivered' \in Seq(Batches) /\ Len(delivered') = nextId + 1
    BY <1>3, <1>4, <1>6, <2>1, SMTT(60) DEF DeliveredInv
  <2>3. EntriesInv' /\ InputInv'
    BY <1>1, <1>3, <1>4, <1>6, <2>1, <2>2, SMTT(60) DEF EntriesInv, InputInv, Front, Over
  <2>4. DeliveredInv'
    BY <1>1, <1>3, <1>6, <2>1, <2>2, SMTT(60) DEF DeliveredInv, Over, Batches
  <2>5. Step
    BY <1>1, <1>3, <1>4, <1>6, <2>1, SequenceDeliver, Zenon DEF Step, Sequence!Next
  <2> QED BY <1>2, <1>5, <2>3, <2>4, <2>5, SMTT(60) DEF IndInv
<1>7. CASE InputNext = "batch" /\ fate[nextId] # "ok"
  <2>1. outcome' = fate[nextId] /\ nextId' = nextId + 1 /\ cpc' = "failed" /\ UNCHANGED delivered
    BY <1>7, Zenon DEF NextSerial
  <2>2. EntriesInv' /\ InputInv'
    BY <1>1, <1>3, <1>4, <1>7, <2>1, SMTT(60) DEF EntriesInv, InputInv, Front, Over
  <2>3. outcome' # "running"
    BY <1>4, <1>7, <2>1, Zenon DEF ComputeTypeOK, Fates
  <2>4. DeliveredInv'
    BY <1>1, <2>1, <2>3, Zenon DEF DeliveredInv, Over
  <2>5. SerialFate[nextId] = fate[nextId]
    BY <1>3, <1>4, <1>7, SMTT(60) DEF SerialFate
  <2>6. Step
    BY <1>1, <1>3, <1>4, <1>7, <2>1, <2>5, SequenceFail, SMTT(60) DEF Step, Sequence!Next
  <2> QED BY <1>2, <1>5, <2>2, <2>4, <2>6, Zenon DEF IndInv
<1>8. CASE InputNext = "failure"
  <2>1. outcome' = "error" /\ cpc' = "failed" /\ UNCHANGED <<delivered, nextId>>
    BY <1>8, Zenon DEF NextSerial
  <2>2. EntriesInv' /\ InputInv' /\ DeliveredInv'
    BY <1>1, <1>3, <2>1, SMTT(60) DEF EntriesInv, InputInv, DeliveredInv, Front, Over
  <2>3. nextId = inputFails /\ nextId \in Batches
    BY <1>3, <1>8, SMTT(60) DEF InputNext, Batches
  <2>4. SerialFate[nextId] = "error"
    BY <2>3, Zenon DEF SerialFate
  <2>5. Step
    BY <1>1, <1>3, <2>1, <2>3, <2>4, SequenceFail, SMTT(60) DEF Step, Sequence!Next
  <2> QED BY <1>2, <1>5, <2>2, <2>5, SMTT(60) DEF IndInv
<1>9. CASE InputNext = "end"
  <2>1. cpc' = "ended" /\ UNCHANGED <<delivered, nextId, outcome>>
    BY <1>9, Zenon DEF NextSerial
  <2>2. nextId = NumBatches
    BY <1>9, Zenon DEF InputNext
  <2>3. EntriesInv' /\ InputInv' /\ DeliveredInv'
    BY <1>1, <1>3, <2>1, <2>2, SMTT(60) DEF EntriesInv, InputInv, DeliveredInv, Front, Over
  <2>4. Step
    BY <1>1, <2>1, SequenceStutter, Zenon DEF Step
  <2> QED BY <1>2, <1>5, <2>3, <2>4, Zenon DEF IndInv
<1> QED BY <1>6, <1>7, <1>8, <1>9, SMTT(60) DEF NextSerial

\* Next() is called, Fill() ends the input or returns, and Next() finds no entry.
LEMMA PlaceStepInd ==
  ASSUME NumBatches \in Nat, IndInv, NextCall \/ FillEnds \/ FillReturns \/ NextEnds
  PROVE  IndInv' /\ Step
<1> ComputeTypeOK /\ EntriesInv /\ InputInv /\ TaskInv /\ CountInv /\ DeliveredInv
  BY Zenon DEF IndInv
<1>1. UNCHANGED <<parallel, fate, inputFails, entries, inFlight, window, nextId, batchTask, slots, delivered>>
  BY Zenon DEF NextCall, FillEnds, FillReturns, NextEnds
<1>2. TaskInv' /\ CountInv' /\ Front' = Front
  BY <1>1, Zenon DEF TaskInv, CountInv, Tasks, Front
<1>3. parallel
  BY Zenon DEF EntriesInv, NextCall, FillEnds, FillReturns, NextEnds
<1>4. CASE NextCall
  <2> USE DEF NextCall
  <2>1. ComputeTypeOK'
    BY <1>1, <1>4, Zenon DEF ComputeTypeOK, Places
  <2>2. EntriesInv' /\ InputInv' /\ DeliveredInv'
    BY <1>1, <1>2, <1>4, SMTT(60) DEF EntriesInv, InputInv, DeliveredInv, Over
  <2> QED BY <1>1, <1>2, <1>4, <2>1, <2>2, SequenceStutter, SMTT(60) DEF IndInv, Step
<1>5. CASE FillEnds
  <2>1. /\ cpc = "fill" /\ inputDone' = TRUE /\ inputError' = (InputNext = "failure") /\ InputNext # "batch"
        /\ UNCHANGED <<cpc, outcome>>
    BY <1>5, SMTT(60) DEF FillEnds
  <2>2. nextId \in Nat /\ inputFails \in Nat /\ nextId <= inputFails /\ inputFails <= NumBatches
    BY DEF ComputeTypeOK, EntriesInv
  <2>3. nextId = inputFails /\ (InputNext = "failure" <=> inputFails < NumBatches)
    BY <2>1, <2>2 DEF InputNext
  <2>4. inputDone' \in BOOLEAN /\ inputError' \in BOOLEAN
    BY <2>1, Zenon
  <2>5. ComputeTypeOK'
    BY <1>1, <2>1, <2>4, Zenon DEF ComputeTypeOK
  <2>6. EntriesInv' /\ DeliveredInv'
    BY <1>1, <1>2, <1>3, <2>1, Zenon DEF EntriesInv, DeliveredInv, Over
  <2>7. inputDone' /\ (inputError' <=> inputFails < NumBatches)
    BY <2>1, <2>3, Zenon
  <2>8. InputInv'
    BY <1>1, <2>1, <2>3, <2>7, Zenon DEF InputInv
  <2> QED BY <1>1, <1>2, <2>1, <2>5, <2>6, <2>8, SequenceStutter, SMTT(60) DEF IndInv, Step
<1>6. CASE FillReturns
  <2>1. cpc = "fill" /\ cpc' = "take" /\ UNCHANGED <<inputDone, inputError, outcome>>
    BY <1>6, Zenon DEF FillReturns
  <2>2. ComputeTypeOK'
    BY <1>1, <2>1, Zenon DEF ComputeTypeOK, Places
  <2>3. EntriesInv' /\ DeliveredInv'
    BY <1>1, <1>2, <1>3, <2>1, SMTT(60) DEF EntriesInv, DeliveredInv, Over
  <2>4. entries = <<>> => inputDone
    <3>1. SUFFICES ASSUME entries = <<>> PROVE inputDone
      OBVIOUS
    <3>2. DOMAIN entries = {}
      <4>1. DOMAIN entries = 1 .. 0 /\ 1 .. 0 = {}
        BY <3>1
      <4> QED BY <4>1, Zenon
    <3>3. Tasks = {}
      BY <3>2, ZenonT(60) DEF Tasks, TaskInv
    <3>4. inFlight = 0
      BY <3>3, FS_EmptySet, ZenonT(60) DEF CountInv
    <3>5. \A pressure \in BOOLEAN : Room(pressure)
      BY <3>4 DEF Room, ComputeTypeOK
    <3> QED BY <1>6, <3>5, ZenonT(60) DEF FillReturns
  <2>5. InputInv'
    BY <1>1, <2>1, <2>4, Zenon DEF InputInv
  <2> QED BY <1>1, <1>2, <2>1, <2>2, <2>3, <2>5, SequenceStutter, Zenon DEF IndInv, Step
<1>7. CASE NextEnds
  <2>1. /\ cpc = "take" /\ entries = <<>> /\ outcome' = IF inputError THEN "error" ELSE outcome
        /\ cpc' = IF inputError THEN "failed" ELSE "ended"
        /\ UNCHANGED <<inputDone, inputError>>
    BY <1>7, Zenon DEF NextEnds
  <2>2. ComputeTypeOK'
    <3>1. cpc' \in Places
      BY <2>1, Zenon DEF Places
    <3> QED BY <1>1, <2>1, <3>1, Zenon DEF ComputeTypeOK
  <2>3. inputDone /\ nextId = inputFails /\ outcome = "running" /\ Front = Len(delivered)
    BY <2>1, Zenon DEF InputInv, EntriesInv, DeliveredInv, Over
  <2>4. Len(delivered) = inputFails /\ inputFails \in 0 .. NumBatches
    <3>1. Len(entries) = 0
      BY <2>1
    <3> QED BY <2>3, <3>1, SMTT(60) DEF Front, ComputeTypeOK
  <2>5. CASE inputError
    <3>1. inputFails < NumBatches /\ cpc' = "failed" /\ outcome' = "error"
      BY <2>1, <2>5, Zenon DEF InputInv
    <3>2. EntriesInv' /\ InputInv' /\ DeliveredInv'
      BY <1>1, <1>2, <1>3, <2>1, <3>1, Zenon DEF EntriesInv, InputInv, DeliveredInv, Over
    <3>3. inputFails \in Batches
      BY <2>4, <3>1 DEF Batches
    <3>4. SerialFate[inputFails] = "error"
      BY <3>3 DEF SerialFate
    <3>5. Step
      BY <1>1, <2>3, <2>4, <3>1, <3>3, <3>4, SequenceFail, SMTT(60) DEF Step, Sequence!Next
    <3> QED BY <1>2, <2>2, <3>2, <3>5, Zenon DEF IndInv
  <2>6. CASE ~inputError
    <3>1. inputFails = NumBatches /\ cpc' = "ended" /\ outcome' = outcome
      BY <2>1, <2>3, <2>4, <2>6, SMTT(60) DEF InputInv
    <3>2. EntriesInv' /\ InputInv' /\ DeliveredInv'
      BY <1>1, <1>2, <1>3, <2>1, <2>4, <3>1, SMTT(60) DEF EntriesInv, InputInv, DeliveredInv, Over
    <3> QED BY <1>1, <1>2, <2>2, <3>1, <3>2, SequenceStutter, SMTT(60) DEF IndInv, Step
  <2> QED BY <2>5, <2>6, Zenon
<1> QED BY <1>4, <1>5, <1>6, <1>7, SMTT(60)

\* Fill() submits again a batch that Drop() took back.
LEMMA FillDroppedInd ==
  ASSUME NumBatches \in Nat, IndInv, FillDropped
  PROVE  IndInv' /\ Step
<1> ComputeTypeOK /\ EntriesInv /\ InputInv /\ TaskInv /\ CountInv /\ DeliveredInv
  BY DEF IndInv
<1>1. /\ cpc = "fill" /\ UNCHANGED <<parallel, fate, inputFails, window, nextId, inputDone, inputError, slots, delivered>>
  BY DEF FillDropped
<1>2. PICK i \in DOMAIN entries : ~entries[i].submitted /\ Submit(entries, i)
  BY DEF FillDropped, Unsubmitted
<1>3. entries \in Seq(Entries) /\ Front \in Nat /\ \A k \in DOMAIN entries : entries[k].id = Front + k - 1
  BY DEF ComputeTypeOK, EntriesInv, Front
<1>4. TasksOf(entries)
  BY Zenon DEF TasksOf, TaskInv
<1>5. /\ entries' \in Seq(Entries) /\ Len(entries') = Len(entries) /\ DOMAIN entries' = DOMAIN entries
      /\ \A k \in DOMAIN entries' : entries'[k].id = Front + k - 1
      /\ batchTask' \in [Batches -> {"none", "queued", "running", "slotted", "done"}]
      /\ inFlight' \in Nat
      /\ TaskInv' /\ CountInv'
      /\ \/ UNCHANGED <<cpc, outcome>>
         \/ cpc' = "failed" /\ outcome' \in {"submitFailure", "raised"}
  BY <1>1, <1>2, <1>3, <1>4, SubmitKeeps, Zenon DEF ComputeTypeOK
<1>6. Front' = Front /\ parallel /\ outcome = "running"
  BY <1>1, <1>5, Zenon DEF Front, EntriesInv, DeliveredInv, Over
<1>7. ComputeTypeOK'
  <2>1. cpc' \in Places
    BY <1>1, <1>5, Zenon DEF Places
  <2> QED BY <1>1, <1>5, <2>1, Zenon DEF ComputeTypeOK
<1>8. EntriesInv'
  BY <1>1, <1>5, <1>6, Zenon DEF EntriesInv, Over
<1>9. InputInv' /\ DeliveredInv'
  BY <1>1, <1>5, <1>6, Zenon DEF InputInv, DeliveredInv, Over
<1>10. Step
  BY <1>1, <1>5, <1>6, SequenceStutter, SequenceEnd, SMTT(60) DEF Step, Sequence!Next
<1> QED BY <1>5, <1>7, <1>8, <1>9, <1>10, SMTT(60) DEF IndInv

\* Fill() reads a batch and submits it.
LEMMA FillReadsInd ==
  ASSUME NumBatches \in Nat, IndInv, FillReads
  PROVE  IndInv' /\ Step
<1> ComputeTypeOK /\ EntriesInv /\ InputInv /\ TaskInv /\ CountInv /\ DeliveredInv
  BY DEF IndInv
<1> DEFINE new == [id |-> nextId, submitted |-> FALSE]
           es == Append(entries, new)
<1>1. /\ cpc = "fill" /\ InputNext = "batch" /\ nextId' = nextId + 1 /\ ~inputDone
      /\ Submit(es, Len(entries) + 1)
      /\ UNCHANGED <<parallel, fate, inputFails, window, inputDone, inputError, slots, delivered>>
  BY Zenon DEF FillReads
<1>2. nextId \in Nat /\ nextId \in Batches /\ nextId < inputFails /\ nextId' \in 0 .. NumBatches
      /\ inputFails \in Nat
  BY <1>1 DEF InputNext, ComputeTypeOK, EntriesInv, Batches
<1>3. entries \in Seq(Entries) /\ Front \in Nat /\ \A k \in DOMAIN entries : entries[k].id = Front + k - 1
  BY DEF ComputeTypeOK, EntriesInv, Front
<1>4. new \in Entries /\ new.id = nextId /\ ~new.submitted
  BY <1>2 DEF Entries
<1> HIDE DEF new
<1>5. /\ es \in Seq(Entries) /\ Len(es) = Len(entries) + 1 /\ DOMAIN es = 1 .. Len(entries) + 1
      /\ DOMAIN entries = 1 .. Len(entries) /\ Len(entries) \in Nat
      /\ es[Len(entries) + 1] = new /\ \A k \in 1 .. Len(entries) : es[k] = entries[k]
  BY <1>3, <1>4
<1> HIDE DEF es
<1>6. \A k \in DOMAIN es : es[k].id = Front + k - 1
  <2>1. es[Len(entries) + 1].id = Front + (Len(entries) + 1) - 1
    BY <1>2, <1>4, <1>5 DEF Front
  <2>2. \A k \in DOMAIN es : k \in 1 .. Len(entries) \/ k = Len(entries) + 1
    BY <1>5
  <2> QED BY <1>3, <1>5, <2>1, <2>2, ZenonT(60)
<1>7. TasksOf(es)
  <2>1. ASSUME NEW b \in Batches
        PROVE  (\E i \in DOMAIN es : es[i].id = b /\ es[i].submitted)
                 <=> \E i \in DOMAIN entries : entries[i].id = b /\ entries[i].submitted
    <3>1. \A k \in DOMAIN es : k \in DOMAIN entries \/ k = Len(entries) + 1
      BY <1>5
    <3>2. \A k \in DOMAIN entries : k \in DOMAIN es /\ es[k] = entries[k]
      BY <1>5
    <3> QED BY <1>4, <1>5, <3>1, <3>2
  <2> QED BY <2>1, Zenon DEF TasksOf, TaskInv
<1>8. Len(entries) + 1 \in DOMAIN es /\ ~es[Len(entries) + 1].submitted
  BY <1>4, <1>5
<1>9. /\ entries' \in Seq(Entries) /\ Len(entries') = Len(es) /\ DOMAIN entries' = DOMAIN es
      /\ \A k \in DOMAIN entries' : entries'[k].id = Front + k - 1
      /\ batchTask' \in [Batches -> {"none", "queued", "running", "slotted", "done"}]
      /\ inFlight' \in Nat
      /\ TaskInv' /\ CountInv'
      /\ \/ UNCHANGED <<cpc, outcome>>
         \/ cpc' = "failed" /\ outcome' \in {"submitFailure", "raised"}
  BY <1>1, <1>3, <1>5, <1>6, <1>7, <1>8, SubmitKeeps, ZenonT(60) DEF ComputeTypeOK
<1>10. Front' = Front /\ parallel /\ outcome = "running"
  BY <1>1, <1>2, <1>5, <1>9 DEF Front, EntriesInv, DeliveredInv, Over
<1>11. ComputeTypeOK'
  <2>1. cpc' \in Places
    BY <1>1, <1>9, Zenon DEF Places
  <2> QED BY <1>1, <1>2, <1>9, <2>1, Zenon DEF ComputeTypeOK
<1>12. EntriesInv'
  BY <1>1, <1>2, <1>9, <1>10 DEF EntriesInv, Over
<1>13. InputInv' /\ DeliveredInv'
  BY <1>1, <1>2, <1>9, <1>10, Zenon DEF InputInv, DeliveredInv, Over
<1>14. Step
  BY <1>1, <1>9, <1>10, SequenceStutter, SequenceEnd, Zenon DEF Step, Sequence!Next
<1> QED BY <1>9, <1>11, <1>12, <1>13, <1>14, SMTT(60) DEF IndInv

\* The front entry is the next batch in input order.
LEMMA FrontEntry ==
  ASSUME NumBatches \in Nat, IndInv, ~Over, entries # <<>>
  PROVE  /\ entries[1] \in Entries /\ entries[1].id \in Batches /\ entries[1].id = Len(delivered)
         /\ entries[1].id = Front /\ entries[1].id < inputFails
         /\ 1 \in DOMAIN entries /\ Len(entries) \in Nat \ {0} /\ DOMAIN entries = 1 .. Len(entries)
         /\ \A k \in DOMAIN entries : entries[k] \in Entries /\ (entries[k].id = entries[1].id => k = 1)
         /\ SerialFate[entries[1].id] = fate[entries[1].id]
         /\ outcome = "running"
<1>1. entries \in Seq(Entries) /\ Front \in Nat /\ Front = nextId - Len(entries)
  BY DEF IndInv, ComputeTypeOK, EntriesInv, Front
<1>2. 1 \in DOMAIN entries /\ Len(entries) \in Nat \ {0} /\ DOMAIN entries = 1 .. Len(entries)
  BY <1>1
<1>3. \A k \in DOMAIN entries : entries[k].id = Front + k - 1
  BY DEF IndInv, EntriesInv
<1>4. \A k \in DOMAIN entries : entries[k] \in Entries
  BY <1>1, <1>2
<1>5. entries[1].id = Front /\ Front = Len(delivered) /\ nextId \in Nat /\ nextId <= inputFails /\ inputFails \in Nat
  <2>1. Front = Len(delivered) /\ nextId <= inputFails
    BY DEF IndInv, EntriesInv
  <2>2. nextId \in Nat /\ inputFails \in Nat
    BY DEF IndInv, ComputeTypeOK
  <2>3. entries[1].id = Front + 1 - 1
    BY <1>2, <1>3, Zenon
  <2> QED BY <1>1, <2>1, <2>2, <2>3, SMTT(60)
<1>6. entries[1].id < inputFails
  BY <1>1, <1>2, <1>5, SMTT(60)
<1>7. entries[1].id \in Batches
  BY <1>2, <1>4, Zenon DEF Entries
<1>8. SerialFate[entries[1].id] = fate[entries[1].id]
  BY <1>1, <1>5, <1>6, <1>7, SMTT(60) DEF SerialFate
<1>9. \A k \in DOMAIN entries : entries[k].id = entries[1].id => k = 1
  BY <1>1, <1>2, <1>3, <1>5, SMTT(60)
<1>10. outcome = "running"
  BY DEF IndInv, DeliveredInv
<1> QED BY <1>2, <1>4, <1>5, <1>6, <1>7, <1>8, <1>9, <1>10, SMTT(60)

\* The front entry is returned with the batch's own result: what is left is the rest.
LEMMA TakeReturnsKeeps ==
  ASSUME NumBatches \in Nat, IndInv, ~Over, parallel, entries # <<>>,
         TakeReturns(entries[1].id, fate[entries[1].id]),
         UNCHANGED <<parallel, fate, inputFails, nextId, inputDone, inputError>>
  PROVE  /\ entries' \in Seq(Entries) /\ cpc' \in Places
         /\ \A i \in DOMAIN entries' : entries'[i] = entries[i + 1] /\ i + 1 \in DOMAIN entries
         /\ DOMAIN entries' = 1 .. Len(entries) - 1
         /\ EntriesInv' /\ InputInv' /\ DeliveredInv' /\ Step
<1> DEFINE b == entries[1].id
<1> ComputeTypeOK /\ EntriesInv /\ InputInv /\ TaskInv /\ CountInv /\ DeliveredInv
  BY DEF IndInv
<1>1. /\ entries[1] \in Entries /\ b \in Batches /\ b = Len(delivered)
      /\ b = Front /\ b < inputFails
      /\ 1 \in DOMAIN entries /\ Len(entries) \in Nat \ {0} /\ DOMAIN entries = 1 .. Len(entries)
      /\ SerialFate[b] = fate[b] /\ outcome = "running" /\ b \in Nat
  BY FrontEntry DEF Batches
<1>2. entries \in Seq(Entries) /\ entries' = Tail(entries)
  BY Zenon DEF ComputeTypeOK, TakeReturns
<1>3. /\ entries' \in Seq(Entries) /\ Len(entries') = Len(entries) - 1
      /\ DOMAIN entries' = 1 .. Len(entries) - 1
      /\ \A i \in 1 .. Len(entries) - 1 : entries'[i] = entries[i + 1]
  BY <1>1, <1>2, SMTT(60)
<1>4. Front' = Front + 1
  BY <1>1, <1>3, SMTT(60) DEF Front, ComputeTypeOK
<1>5. \A i \in DOMAIN entries' : i + 1 \in DOMAIN entries /\ entries'[i] = entries[i + 1]
  BY <1>1, <1>3, SMTT(60)
<1>6. \A i \in DOMAIN entries' : entries'[i].id = Front' + i - 1
  <2>1. ASSUME NEW i \in DOMAIN entries'
        PROVE  entries'[i].id = Front' + i - 1
    <3>1. entries[i + 1].id = Front + (i + 1) - 1
      BY <1>5, Zenon DEF EntriesInv
    <3>2. i \in Nat /\ Front \in Nat
      BY <1>1, <1>3, SMTT(60)
    <3> QED BY <1>4, <1>5, <3>1, <3>2, SMTT(60)
  <2> QED BY <2>1, Zenon
<1>7. Front \in Nat /\ Front' \in Nat /\ Front' >= 0 /\ nextId <= inputFails
  BY <1>1, <1>4, SMTT(60) DEF EntriesInv
<1> HIDE DEF b
<1>8. CASE fate[b] = "ok"
  <2>1. delivered' = Append(delivered, b) /\ cpc' = "idle" /\ UNCHANGED outcome
    BY <1>8, Zenon DEF TakeReturns, b
  <2>2. delivered' \in Seq(Batches) /\ Len(delivered') = b + 1
    <3>1. delivered \in Seq(Batches)
      BY DEF DeliveredInv
    <3>2. Append(delivered, b) \in Seq(Batches) /\ Len(Append(delivered, b)) = Len(delivered) + 1
      BY <1>1, <3>1, AppendProperties, ZenonT(60)
    <3> QED BY <1>1, <2>1, <3>2, ZenonT(60)
  <2>3. EntriesInv'
    BY <1>1, <1>4, <1>6, <1>7, <2>1, <2>2, SMTT(60) DEF EntriesInv, Over
  <2>4. InputInv' /\ cpc' \in Places
    BY <2>1, Zenon DEF InputInv, Places
  <2>5. DeliveredInv'
    BY <1>1, <1>8, <2>1, <2>2, SMTT(60) DEF DeliveredInv, Over, Batches
  <2>6. Step
    BY <1>1, <1>8, <2>1, SequenceDeliver, Zenon DEF Step, Sequence!Next
  <2> QED BY <1>3, <1>5, <2>3, <2>4, <2>5, <2>6, SMTT(60)
<1>9. CASE fate[b] # "ok"
  <2>1. outcome' = fate[b] /\ cpc' = "failed" /\ UNCHANGED delivered
    BY <1>9, Zenon DEF TakeReturns, b
  <2>2. outcome' # "running"
    BY <1>1, <2>1, Zenon DEF ComputeTypeOK, Fates
  <2>3. EntriesInv'
    BY <1>6, <1>7, <2>1, Zenon DEF EntriesInv, Over
  <2>4. InputInv' /\ cpc' \in Places /\ DeliveredInv'
    BY <2>1, <2>2, Zenon DEF InputInv, Places, DeliveredInv, Over
  <2>5. Step
    BY <1>1, <1>9, <2>1, SequenceFail, SMTT(60) DEF Step, Sequence!Next
  <2> QED BY <1>3, <1>5, <2>3, <2>4, <2>5, Zenon
<1> QED BY <1>8, <1>9, Zenon

\* A batch computed with the others is taken: returned, or dropped to be computed alone.
LEMMA NextTakesInd ==
  ASSUME NumBatches \in Nat, MaxWindow \in Nat \ {0}, IndInv, NextTakes
  PROVE  IndInv' /\ Step
<1> ComputeTypeOK /\ EntriesInv /\ InputInv /\ TaskInv /\ CountInv /\ DeliveredInv
  BY DEF IndInv
<1> DEFINE b == entries[1].id
<1>1. /\ cpc = "take" /\ entries # <<>> /\ batchTask[b] = "done"
      /\ batchTask' = [batchTask EXCEPT ![b] = "none"] /\ slots' = [slots EXCEPT ![b] = "none"]
      /\ inFlight' = inFlight - 1
      /\ UNCHANGED <<parallel, fate, inputFails, nextId, inputDone, inputError>>
  BY Zenon DEF NextTakes
<1>2. ~Over /\ parallel
  BY <1>1, Zenon DEF Over, EntriesInv
<1>3. /\ entries[1] \in Entries /\ b \in Batches /\ b = Len(delivered) /\ b = Front /\ b < inputFails
      /\ 1 \in DOMAIN entries /\ Len(entries) \in Nat \ {0} /\ DOMAIN entries = 1 .. Len(entries)
      /\ \A k \in DOMAIN entries : entries[k] \in Entries /\ (entries[k].id = b => k = 1)
      /\ outcome = "running"
  BY <1>1, <1>2, FrontEntry, SMTT(60)
<1> HIDE DEF b
<1>4. /\ batchTask' \in [Batches -> {"none", "queued", "running", "slotted", "done"}]
      /\ slots' \in [Batches -> {"none", "ok", "error", "oom"}]
      /\ batchTask'[b] = "none" /\ \A c \in Batches \ {b} : batchTask'[c] = batchTask[c] /\ slots'[c] = slots[c]
  BY <1>1, <1>3, SMTT(60) DEF ComputeTypeOK
<1>5. CountInv' /\ inFlight' \in Nat
  <2>1. b \in Tasks /\ Tasks' = Tasks \ {b}
    BY <1>1, <1>3, <1>4, SMTT(60) DEF Tasks
  <2> QED BY <1>1, <2>1, OneLess, SMTT(60)
<1>6. slots[b] \in {fate[b], "oom"}
  BY <1>1, <1>3 DEF TaskInv
<1>7. CASE slots[b] = "oom"
  <2> DEFINE e == [entries[1] EXCEPT !.submitted = FALSE]
  <2>1. entries' = [entries EXCEPT ![1].submitted = FALSE] /\ cpc' = "dropping" /\ UNCHANGED <<window, delivered, outcome>>
    BY <1>7, Zenon DEF NextTakes, b
  <2>2. e \in Entries /\ e.id = b /\ ~e.submitted
    BY <1>3, Zenon DEF Entries, b
  <2>3. entries \in Seq(Entries) /\ entries' = [entries EXCEPT ![1] = e]
    BY <2>1, Zenon DEF ComputeTypeOK
  <2> HIDE DEF e
  <2>4. /\ entries' \in Seq(Entries) /\ Len(entries') = Len(entries) /\ DOMAIN entries' = DOMAIN entries
        /\ entries'[1] = e /\ \A k \in DOMAIN entries \ {1} : entries'[k] = entries[k]
    BY <1>3, <2>2, <2>3, ExceptSeq
  <2>5. ComputeTypeOK'
    <3>1. cpc' \in Places
      BY <2>1 DEF Places
    <3> QED BY <1>1, <1>4, <1>5, <2>1, <2>4, <3>1, Zenon DEF ComputeTypeOK
  <2>6. Front' = Front
    BY <1>1, <2>4 DEF Front
  <2>7. \A k \in DOMAIN entries' : entries'[k].id = Front + k - 1
    <3>1. \A k \in DOMAIN entries : entries'[k].id = entries[k].id
      BY <2>2, <2>4, SMTT(60) DEF b
    <3> QED BY <2>4, <3>1 DEF EntriesInv
  <2>8. entries' # <<>>
    BY <1>3, <2>4, SMTT(60)
  <2>9. EntriesInv' /\ InputInv' /\ DeliveredInv'
    BY <1>1, <1>2, <2>1, <2>6, <2>7, <2>8, SMTT(60) DEF EntriesInv, InputInv, DeliveredInv, Over
  <2>10. TaskInv'
    <3>1. ASSUME NEW c \in Batches
          PROVE  /\ batchTask'[c] # "none" <=> \E i \in DOMAIN entries' : entries'[i].id = c /\ entries'[i].submitted
                 /\ batchTask'[c] \in {"slotted", "done"} => slots'[c] \in {fate'[c], "oom"}
      <4>1. CASE c = b
        <5>1. \A i \in DOMAIN entries' : ~(entries'[i].id = c /\ entries'[i].submitted)
          BY <1>3, <2>2, <2>4, <4>1, SMTT(60)
        <5> QED BY <1>4, <4>1, <5>1, SMTT(60)
      <4>2. CASE c # b
        <5>1. (\E i \in DOMAIN entries' : entries'[i].id = c /\ entries'[i].submitted)
                <=> \E i \in DOMAIN entries : entries[i].id = c /\ entries[i].submitted
          BY <2>2, <2>4, <4>2, Zenon DEF b
        <5> QED BY <1>1, <1>4, <4>2, <5>1, SMTT(60) DEF TaskInv
      <4> QED BY <4>1, <4>2, Zenon
    <3> QED BY <3>1, Zenon DEF TaskInv
  <2> QED BY <1>1, <1>5, <2>1, <2>5, <2>9, <2>10, SequenceStutter, SMTT(60) DEF IndInv, Step
<1>8. CASE slots[b] # "oom"
  <2>1. TakeReturns(b, fate[b]) /\ window' \in Nat \ {0}
    <3>1. PICK pressure \in BOOLEAN :
            window' = IF pressure THEN (IF window \div 2 < 1 THEN 1 ELSE window \div 2)
                      ELSE (IF window + 1 > MaxWindow THEN MaxWindow ELSE window + 1)
      BY <1>8, Zenon DEF NextTakes, b
    <3>2. window' \in Nat \ {0}
      BY <3>1, SMTT(60) DEF ComputeTypeOK
    <3> QED BY <1>6, <1>8, <3>2, Zenon DEF NextTakes, b
  <2>2. /\ entries' \in Seq(Entries) /\ cpc' \in Places
        /\ \A i \in DOMAIN entries' : entries'[i] = entries[i + 1] /\ i + 1 \in DOMAIN entries
        /\ DOMAIN entries' = 1 .. Len(entries) - 1
        /\ EntriesInv' /\ InputInv' /\ DeliveredInv' /\ Step
    BY <1>1, <1>2, <2>1, TakeReturnsKeeps, Zenon DEF b
  <2>3. ComputeTypeOK'
    BY <1>1, <1>4, <1>5, <2>1, <2>2, Zenon DEF ComputeTypeOK
  <2>4. TaskInv'
    <3>1. ASSUME NEW c \in Batches
          PROVE  /\ batchTask'[c] # "none" <=> \E i \in DOMAIN entries' : entries'[i].id = c /\ entries'[i].submitted
                 /\ batchTask'[c] \in {"slotted", "done"} => slots'[c] \in {fate'[c], "oom"}
      <4>1. CASE c = b
        <5>1. \A i \in DOMAIN entries' : entries'[i].id # c
          <6>1. \A i \in DOMAIN entries' : i + 1 # 1
            BY <1>3, <2>2, SMTT(60)
          <6> QED BY <1>3, <2>2, <4>1, <6>1, SMTT(60)
        <5> QED BY <1>4, <4>1, <5>1, Zenon
      <4>2. CASE c # b
        <5>1. ASSUME NEW k \in DOMAIN entries, k # 1
              PROVE  \E i \in DOMAIN entries' : entries'[i] = entries[k]
          <6>1. k - 1 \in DOMAIN entries' /\ (k - 1) + 1 = k
            BY <1>3, <2>2, <5>1, SMTT(60)
          <6> QED BY <2>2, <6>1, Zenon
        <5>2. (\E i \in DOMAIN entries' : entries'[i].id = c /\ entries'[i].submitted)
                <=> \E i \in DOMAIN entries : entries[i].id = c /\ entries[i].submitted
          BY <2>2, <4>2, <5>1, ZenonT(60) DEF b
        <5> QED BY <1>1, <1>4, <4>2, <5>2 DEF TaskInv
      <4> QED BY <4>1, <4>2, Zenon
    <3> QED BY <3>1, Zenon DEF TaskInv
  <2> QED BY <1>5, <2>2, <2>3, <2>4, Zenon DEF IndInv
<1> QED BY <1>7, <1>8

\* Drop() leaves no task and no result.
LEMMA DropLeavesNone ==
  ASSUME NumBatches \in Nat, IndInv, Drop
  PROVE  /\ \A b \in Batches : batchTask'[b] = "none"
         /\ batchTask' \in [Batches -> {"none", "queued", "running", "slotted", "done"}]
         /\ slots' \in [Batches -> {"none", "ok", "error", "oom"}]
         /\ inFlight' \in Nat /\ CountInv'
<1>1. \A b \in Batches : batchTask'[b] = "none"
  BY DEF Drop, IndInv, TaskInv
<1>2. batchTask' \in [Batches -> {"none", "queued", "running", "slotted", "done"}]
  <2>1. DOMAIN batchTask' = Batches /\ batchTask' = [b \in Batches |-> batchTask'[b]]
    BY DEF Drop
  <2> QED BY <1>1, <2>1, Zenon
<1>3. slots' \in [Batches -> {"none", "ok", "error", "oom"}]
  BY DEF Drop
<1>4. Tasks' = {}
  BY <1>1, Zenon DEF Tasks
<1>5. inFlight' = 0
  BY DEF Drop
<1>6. CountInv'
  BY <1>4, <1>5, FS_EmptySet, Zenon DEF CountInv
<1> QED BY <1>1, <1>2, <1>3, <1>5, <1>6, SMTT(60)

\* Every batch in flight is dropped, the entries stay.
LEMMA DropAheadInd ==
  ASSUME NumBatches \in Nat, IndInv, DropBatches
  PROVE  IndInv' /\ Step
<1> ComputeTypeOK /\ EntriesInv /\ InputInv /\ TaskInv /\ CountInv /\ DeliveredInv
  BY DEF IndInv
<1>1. /\ cpc = "dropping" /\ Drop /\ window' = 1 /\ cpc' = "alone"
      /\ entries' = [i \in DOMAIN entries |-> [entries[i] EXCEPT !.submitted = FALSE]]
      /\ UNCHANGED <<parallel, fate, inputFails, nextId, inputDone, inputError, delivered, outcome>>
  BY DEF DropBatches
<1>2. /\ \A b \in Batches : batchTask'[b] = "none"
      /\ batchTask' \in [Batches -> {"none", "queued", "running", "slotted", "done"}]
      /\ slots' \in [Batches -> {"none", "ok", "error", "oom"}]
      /\ inFlight' \in Nat /\ CountInv'
  BY <1>1, DropLeavesNone, Zenon
<1>3. entries \in Seq(Entries) /\ DOMAIN entries = 1 .. Len(entries) /\ Len(entries) \in Nat
      /\ \A i \in DOMAIN entries : entries[i] \in Entries
  BY DEF ComputeTypeOK
<1>4. \A i \in DOMAIN entries : entries'[i] \in Entries /\ entries'[i].id = entries[i].id /\ ~entries'[i].submitted
  BY <1>1, <1>3, Zenon DEF Entries
<1>5. entries' \in Seq(Entries) /\ Len(entries') = Len(entries) /\ DOMAIN entries' = DOMAIN entries
  <2>1. entries' \in [1 .. Len(entries) -> Entries]
    BY <1>1, <1>3, <1>4, Zenon
  <2> QED BY <1>1, <1>3, <2>1
<1>6. ComputeTypeOK'
  <2>1. cpc' \in Places /\ window' \in Nat \ {0}
    BY <1>1 DEF Places
  <2> QED BY <1>1, <1>2, <1>5, <2>1, Zenon DEF ComputeTypeOK
<1>7. Front' = Front /\ entries # <<>> /\ parallel
  BY <1>1, <1>5, Zenon DEF Front, EntriesInv
<1>8. entries' # <<>>
  BY <1>3, <1>5, <1>7
<1>9. EntriesInv' /\ InputInv' /\ DeliveredInv'
  BY <1>1, <1>4, <1>5, <1>7, <1>8, SMTT(60) DEF EntriesInv, InputInv, DeliveredInv, Over
<1>10. TaskInv'
  BY <1>2, <1>4, <1>5, Zenon DEF TaskInv
<1> QED BY <1>1, <1>2, <1>6, <1>9, <1>10, SequenceStutter, SMTT(60) DEF IndInv, Step

\* The front batch computed with no other: its task is gone already.
LEMMA ComputeAloneInd ==
  ASSUME NumBatches \in Nat, IndInv, ComputeAlone
  PROVE  IndInv' /\ Step
<1> ComputeTypeOK /\ EntriesInv /\ InputInv /\ TaskInv /\ CountInv /\ DeliveredInv
  BY DEF IndInv
<1> DEFINE b == entries[1].id
<1>1. /\ cpc = "alone" /\ TakeReturns(b, fate[b])
      /\ UNCHANGED <<parallel, fate, inputFails, inFlight, window, nextId, inputDone, inputError,
                     batchTask, slots>>
  BY DEF ComputeAlone
<1>2. ~Over /\ parallel /\ entries # <<>> /\ ~entries[1].submitted
  BY <1>1, Zenon DEF Over, EntriesInv
<1>3. /\ Len(entries) \in Nat \ {0} /\ DOMAIN entries = 1 .. Len(entries)
      /\ \A k \in DOMAIN entries : entries[k].id = b => k = 1
  BY <1>2, FrontEntry, Zenon
<1> HIDE DEF b
<1>4. /\ entries' \in Seq(Entries) /\ cpc' \in Places
      /\ \A i \in DOMAIN entries' : entries'[i] = entries[i + 1] /\ i + 1 \in DOMAIN entries
      /\ DOMAIN entries' = 1 .. Len(entries) - 1
      /\ EntriesInv' /\ InputInv' /\ DeliveredInv' /\ Step
  BY <1>1, <1>2, TakeReturnsKeeps, SMTT(60) DEF b
<1>5. ComputeTypeOK'
  BY <1>1, <1>4, ZenonT(60) DEF ComputeTypeOK
<1>6. CountInv'
  <2>1. Tasks' = Tasks
    BY <1>1, Zenon DEF Tasks
  <2> QED BY <1>1, <2>1, SMTT(60) DEF CountInv
<1>7. TaskInv'
  <2>1. ASSUME NEW k \in DOMAIN entries, k # 1
        PROVE  \E i \in DOMAIN entries' : entries'[i] = entries[k]
    <3>1. k - 1 \in DOMAIN entries' /\ (k - 1) + 1 = k
      BY <1>3, <1>4, <2>1, SMTT(60)
    <3> QED BY <1>4, <3>1, Zenon
  <2>2. ASSUME NEW c \in Batches
        PROVE  (\E i \in DOMAIN entries' : entries'[i].id = c /\ entries'[i].submitted)
                 <=> \E i \in DOMAIN entries : entries[i].id = c /\ entries[i].submitted
    BY <1>2, <1>4, <2>1, ZenonT(60)
  <2> QED BY <1>1, <2>2, Zenon DEF TaskInv
<1> QED BY <1>4, <1>5, <1>6, <1>7, SMTT(60) DEF IndInv

\* Close() stops a query that has not ended; the batches in flight stay until Drop().
LEMMA CloseCallInd ==
  ASSUME NumBatches \in Nat, IndInv, CloseCall
  PROVE  IndInv' /\ Step
<1> ComputeTypeOK /\ EntriesInv /\ InputInv /\ TaskInv /\ CountInv /\ DeliveredInv
  BY DEF IndInv
<1>1. /\ cpc \in {"idle", "ended", "failed"} /\ cpc' = "closing"
      /\ outcome' = IF outcome = "running" THEN "stopped" ELSE outcome
      /\ UNCHANGED <<parallel, fate, inputFails, entries, inFlight, window, nextId, inputDone,
                     inputError, batchTask, slots, delivered>>
  BY DEF CloseCall
<1>2. ComputeTypeOK'
  <2>1. cpc' \in Places
    BY <1>1, Zenon DEF Places
  <2> QED BY <1>1, <2>1, Zenon DEF ComputeTypeOK
<1>3. EntriesInv' /\ InputInv'
  BY <1>1, Zenon DEF EntriesInv, InputInv, Over, Front
<1>4. TaskInv' /\ CountInv'
  BY <1>1, Zenon DEF TaskInv, CountInv, Tasks
<1>5. DeliveredInv'
  BY <1>1, Zenon DEF DeliveredInv, Over
<1>6. Step
  <2>1. CASE outcome = "running"
    BY <1>1, <2>1, SequenceEnd, SMTT(60) DEF Step, Sequence!Next
  <2>2. CASE outcome # "running"
    BY <1>1, <2>2, SequenceStutter, Zenon DEF Step
  <2> QED BY <2>1, <2>2
<1> QED BY <1>2, <1>3, <1>4, <1>5, <1>6, SMTT(60) DEF IndInv

\* Close() has waited for every task: nothing is left.
LEMMA CloseDoneInd ==
  ASSUME NumBatches \in Nat, IndInv, CloseDone
  PROVE  IndInv' /\ Step
<1> ComputeTypeOK /\ EntriesInv /\ InputInv /\ TaskInv /\ CountInv /\ DeliveredInv
  BY DEF IndInv
<1>1. /\ cpc = "closing" /\ Drop /\ entries' = <<>> /\ cpc' = "closed"
      /\ UNCHANGED <<parallel, fate, inputFails, window, nextId, inputDone, inputError, delivered,
                     outcome>>
  BY DEF CloseDone
<1>2. /\ \A b \in Batches : batchTask'[b] = "none"
      /\ batchTask' \in [Batches -> {"none", "queued", "running", "slotted", "done"}]
      /\ slots' \in [Batches -> {"none", "ok", "error", "oom"}]
      /\ inFlight' \in Nat /\ CountInv'
  BY <1>1, DropLeavesNone, Zenon
<1>3. entries' \in Seq(Entries) /\ Len(entries') = 0 /\ DOMAIN entries' = {}
  <2>1. 1 .. 0 = {}
    OBVIOUS
  <2>2. <<>> \in Seq(Entries) /\ Len(<<>>) = 0 /\ DOMAIN <<>> = 1 .. 0
    BY EmptySeq
  <2> QED BY <1>1, <2>1, <2>2, ZenonT(60)
<1>4. ComputeTypeOK'
  <2>1. cpc' \in Places
    BY <1>1 DEF Places
  <2> QED BY <1>1, <1>2, <1>3, <2>1, ZenonT(60) DEF ComputeTypeOK
<1>5. EntriesInv' /\ InputInv'
  <2>1. Front' >= 0 /\ nextId \in Nat /\ nextId <= inputFails
    BY <1>1, <1>3, SMTT(60) DEF Front, ComputeTypeOK, EntriesInv
  <2> QED BY <1>1, <1>3, <2>1, SMTT(60) DEF EntriesInv, InputInv, Over
<1>6. TaskInv'
  BY <1>2, <1>3, Zenon DEF TaskInv
<1>7. DeliveredInv'
  BY <1>1, Zenon DEF DeliveredInv, Over
<1> QED BY <1>1, <1>2, <1>4, <1>5, <1>6, <1>7, SequenceStutter, SMTT(60) DEF IndInv, Step

-----------------------------------------------------------------------------
(* The theorems.                                                            *)

\* Every step keeps the invariant and is a step of the parts computed one after another, or
\* none of theirs.
LEMMA NextInd ==
  ASSUME NumBatches \in Nat, MaxWindow \in Nat \ {0}, IndInv, [ComputeNext]_computeVars
  PROVE  IndInv' /\ Step
<1>1. CASE UNCHANGED computeVars
  <2>1. UNCHANGED <<parallel, fate, inputFails, cpc, entries, inFlight, window, nextId, inputDone,
                    inputError, batchTask, slots, delivered, outcome>>
    BY <1>1, Zenon DEF computeVars
  <2>2. ComputeTypeOK' /\ EntriesInv' /\ InputInv' /\ TaskInv' /\ CountInv' /\ DeliveredInv'
    BY <2>1 DEF IndInv, ComputeTypeOK, EntriesInv, InputInv, TaskInv, CountInv, Tasks,
                DeliveredInv, Front, Over
  <2> QED BY <2>1, <2>2, SequenceStutter DEF IndInv, Step
<1>2. CASE \E b \in Batches : TaskStep(b)
  BY <1>2, TaskStepInd, Zenon
<1>3. CASE NextSerial
  BY <1>3, NextSerialInd, Zenon
<1>4. CASE NextCall \/ FillEnds \/ FillReturns \/ NextEnds
  BY <1>4, PlaceStepInd, Zenon
<1>5. CASE FillDropped \/ FillReads
  BY <1>5, FillDroppedInd, FillReadsInd, SMTT(60)
<1>6. CASE NextTakes \/ DropBatches \/ ComputeAlone
  BY <1>6, NextTakesInd, DropAheadInd, ComputeAloneInd, SMTT(60)
<1>7. CASE CloseCall \/ CloseDone
  BY <1>7, CloseCallInd, CloseDoneInd, Zenon
<1> QED BY <1>1, <1>2, <1>3, <1>4, <1>5, <1>6, <1>7, SMTT(60) DEF ComputeNext, ComputeStep

\* The batches computed at once, some of them twice, give the consumer what computing them one
\* after another gives: every batch in input order, the first failure in that order, with its
\* own status, and nothing after it (ParallelComputeStream::Next).
THEOREM ComputeCorrect ==
  ASSUME NumBatches \in Nat, MaxWindow \in Nat \ {0}
  PROVE  ComputeSpec => ComputeRefines
<1>1. ComputeInit => IndInv /\ Sequence!Init
  BY InitInd
<1>2. IndInv /\ [ComputeNext]_computeVars => IndInv' /\ [Sequence!Next]_(Sequence!vars)
  BY NextInd DEF Step
<1> QED BY <1>1, <1>2, PTL DEF ComputeSpec, ComputeRefines, Sequence!Spec

\* The end of the stream is returned only when every batch was, and none of them fails.
THEOREM ComputeEnds ==
  ASSUME NumBatches \in Nat, MaxWindow \in Nat \ {0}
  PROVE  ComputeSpec => []EndsAfterAll
<1>1. ComputeInit => IndInv
  BY InitInd
<1>2. IndInv /\ [ComputeNext]_computeVars => IndInv'
  BY NextInd
<1>3. IndInv => EndsAfterAll
  <2> SUFFICES ASSUME IndInv, cpc = "ended"
               PROVE  Len(delivered) = NumBatches /\ \A b \in Batches : SerialFate[b] = "ok"
    BY DEF EndsAfterAll
  <2>1. Len(delivered) = NumBatches /\ inputFails = NumBatches
    BY DEF IndInv, InputInv
  <2>2. \A b \in Batches : b < NumBatches /\ b # NumBatches
    BY DEF Batches
  <2> QED BY <2>1, <2>2 DEF IndInv, DeliveredInv, SerialFate
<1> QED BY <1>1, <1>2, <1>3, PTL DEF ComputeSpec

-----------------------------------------------------------------------------
(* ForEach, the loop of tasks the operators over parts call, for any number *)
(* of indices and threads.                                                  *)

LoopTypeOK ==
  /\ loopExecutor \in BOOLEAN
  /\ n \in 0 .. MaxTasks
  /\ fnFate \in [Indices -> {"ok", "error", "memory"}]
  /\ place \in {"call", "submit", "wait", "unwind", "ended"}
  /\ tasks \in [Indices -> {"none", "queued", "running", "done"}]
  /\ submitted \in {"ok", "error", "memory"}
  /\ nextSubmit \in 0 .. n
  /\ looked \in 0 .. n

Parallel == loopExecutor /\ n > 1

\* With the executor the tasks are those submitted, and the statuses read are OK: the call
\* stops at the first that is not, or at the Submit that failed.
ParallelInv ==
  /\ place = "call" => nextSubmit = 0
  /\ \A i \in Indices : tasks[i] = "none" <=> i >= nextSubmit
  /\ looked <= nextSubmit
  /\ \A i \in Indices : i < looked => fnFate[i] = "ok"
  /\ place \in {"call", "submit"} => submitted = "ok" /\ looked = 0 /\ result = "none"
  /\ place = "wait" => submitted # "ok" \/ nextSubmit = n
  /\ place \in {"unwind", "ended"} /\ result # "thrown" =>
       \/ looked < nextSubmit /\ fnFate[looked] # "ok" /\ result = fnFate[looked]
       \/ looked = nextSubmit /\ result = submitted /\ (submitted # "ok" \/ nextSubmit = n)
  /\ place = "ended" => \A i \in Indices : i < nextSubmit => tasks[i] = "done"

\* Without it the indices run are those looked at, and all but the last are OK.
SerialInv ==
  /\ place \in {"call", "ended"} /\ nextSubmit = 0 /\ submitted = "ok"
  /\ \A i \in Indices : tasks[i] = IF i < looked THEN "done" ELSE "none"
  /\ place = "call" => \A i \in Indices : i < looked => fnFate[i] = "ok"
  /\ place = "ended" =>
       \/ looked = n /\ result = "ok" /\ \A i \in Indices : i < looked => fnFate[i] = "ok"
       \/ /\ looked > 0 /\ fnFate[looked - 1] # "ok" /\ result = fnFate[looked - 1]
          /\ \A i \in Indices : i < looked - 1 => fnFate[i] = "ok"

LoopInv == LoopTypeOK /\ (Parallel => ParallelInv) /\ (~Parallel => SerialInv)

\* The call's first state satisfies the invariant.
LEMMA LoopInvInit ==
  ASSUME MaxTasks \in Nat, LoopInit
  PROVE  LoopInv
<1>1. LoopTypeOK
  BY DEF LoopInit, LoopTypeOK
<1>2. ParallelInv
  BY DEF LoopInit, ParallelInv, Indices
<1>3. SerialInv
  BY DEF LoopInit, SerialInv, Indices
<1> QED BY <1>1, <1>2, <1>3, SMTT(60) DEF LoopInv

\* A loop without an executor runs its indices in turn up to the first failure.
LEMMA RunHereInv ==
  ASSUME MaxTasks \in Nat, LoopInv, RunHere
  PROVE  LoopInv'
<1> USE DEF RunHere, Ended
<1>1. LoopTypeOK /\ ~Parallel /\ SerialInv
  BY DEF LoopInv, LoopTypeOK, Parallel
<1>2. ~Parallel'
  BY <1>1, Zenon DEF Parallel
<1>3. \A i \in Indices : i \in Nat
  BY DEF Indices
<1>4. CASE looked = n
  <2>1. UNCHANGED <<tasks, looked>> /\ place' = "ended" /\ result' = "ok"
    BY <1>1, <1>4, SMTT(60) DEF LoopTypeOK
  <2>2. LoopTypeOK'
    BY <1>1, <2>1, Zenon DEF LoopTypeOK
  <2>3. SerialInv'
    BY <1>1, <1>4, <2>1, Zenon DEF SerialInv
  <2> QED BY <1>2, <2>2, <2>3, Zenon DEF LoopInv
<1>5. CASE looked # n
  <2>1. /\ looked \in Indices /\ looked \in Nat /\ looked < n
        /\ tasks' = [tasks EXCEPT ![looked] = "done"] /\ looked' = looked + 1
    BY <1>1, <1>5, SMTT(60) DEF LoopTypeOK, Indices
  <2>2. LoopTypeOK'
    BY <1>1, <2>1, SMTT(60) DEF LoopTypeOK
  <2>3. \A i \in Indices : tasks'[i] = IF i < looked' THEN "done" ELSE "none"
    BY <1>1, <1>3, <2>1, SMTT(60) DEF SerialInv, LoopTypeOK
  <2>4. \A i \in Indices : i < looked => fnFate[i] = "ok"
    BY <1>1, Zenon DEF SerialInv
  <2>5. \A i \in Indices : i < looked' => i < looked \/ i = looked
    BY <1>3, <2>1, SMTT(60)
  <2>6. SerialInv'
    <3>1. CASE fnFate[looked] = "ok"
      <4>1. place' = "call"
        BY <1>5, <3>1, Zenon
      <4>2. \A i \in Indices : i < looked' => fnFate'[i] = "ok"
        BY <2>4, <2>5, <3>1, Zenon
      <4> QED BY <1>1, <2>3, <4>1, <4>2, Zenon DEF SerialInv
    <3>2. CASE fnFate[looked] # "ok"
      <4>1. place' = "ended" /\ result' = fnFate[looked] /\ looked' - 1 = looked /\ looked' > 0
        BY <1>5, <2>1, <3>2, SMTT(60)
      <4> QED BY <1>1, <2>3, <2>4, <3>2, <4>1, SMTT(60) DEF SerialInv
    <3> QED BY <3>1, <3>2, Zenon
  <2> QED BY <1>2, <2>2, <2>6, Zenon DEF LoopInv
<1> QED BY <1>4, <1>5, Zenon

\* The tasks are submitted in index order, up to the Submit that fails.
LEMMA SubmitInv ==
  ASSUME MaxTasks \in Nat, LoopInv, Reserve \/ SubmitTask \/ SubmittedAll
  PROVE  LoopInv'
<1>1. LoopTypeOK /\ Parallel /\ ParallelInv
  BY Zenon DEF LoopInv, LoopTypeOK, Parallel, Reserve, SubmitTask, SubmittedAll, SerialInv
<1>2. Parallel'
  BY <1>1, Zenon DEF Parallel, Reserve, SubmitTask, SubmittedAll
<1>3. LoopTypeOK'
  <2>1. CASE Reserve \/ SubmittedAll
    BY <1>1, <2>1 DEF LoopTypeOK, Reserve, SubmittedAll
  <2>2. CASE SubmitTask
    BY <1>1, <2>2 DEF LoopTypeOK, SubmitTask, Indices
  <2> QED BY <2>1, <2>2
<1>4. ParallelInv'
  <2>1. CASE Reserve \/ SubmittedAll
    BY <1>1, <2>1 DEF LoopTypeOK, ParallelInv, Reserve, SubmittedAll
  <2>2. CASE /\ SubmitTask
             /\ tasks' = [tasks EXCEPT ![nextSubmit] = "queued"]
             /\ nextSubmit' = nextSubmit + 1
             /\ UNCHANGED <<place, submitted, result>>
    <3>1. nextSubmit \in Indices /\ nextSubmit \in Nat /\ \A i \in Indices : i \in Nat
      BY <1>1, <2>2, SMTT(60) DEF LoopTypeOK, SubmitTask, Indices
    <3>2. \A i \in Indices : tasks'[i] = "none" <=> i >= nextSubmit'
      BY <1>1, <2>2, <3>1, SMTT(60) DEF LoopTypeOK, ParallelInv
    <3> QED BY <1>1, <2>2, <3>1, <3>2 DEF LoopTypeOK, ParallelInv, SubmitTask
  <2>3. CASE SubmitTask /\ UNCHANGED <<tasks, nextSubmit>>
    BY <1>1, <2>3, Zenon DEF LoopTypeOK, ParallelInv, SubmitTask
  <2> QED BY <2>1, <2>2, <2>3, Zenon DEF SubmitTask
<1> QED BY <1>2, <1>3, <1>4, SMTT(60) DEF LoopInv

\* The statuses are read in index order, and the call ends with every task it submitted.
LEMMA ReadInv ==
  ASSUME MaxTasks \in Nat, LoopInv, ReadStatus \/ ReadSubmitted \/ WaitAll
  PROVE  LoopInv'
<1>1. LoopTypeOK /\ Parallel /\ ParallelInv
  BY Zenon DEF LoopInv, LoopTypeOK, Parallel, ReadStatus, ReadSubmitted, WaitAll, SerialInv
<1>2. Parallel'
  BY <1>1, Zenon DEF Parallel, ReadStatus, ReadSubmitted, WaitAll
<1>3. LoopTypeOK'
  BY <1>1 DEF LoopTypeOK, ReadStatus, ReadSubmitted, WaitAll
<1>4. \A i \in Indices : i \in Nat
  BY DEF Indices
<1>5. ParallelInv'
  <2>1. CASE ReadStatus
    BY <1>1, <1>4, <2>1 DEF LoopTypeOK, ParallelInv, ReadStatus
  <2>2. CASE ReadSubmitted
    BY <1>1, <2>2, Zenon DEF LoopTypeOK, ParallelInv, ReadSubmitted
  <2>3. CASE WaitAll
    BY <1>1, <1>4, <2>3 DEF LoopTypeOK, ParallelInv, WaitAll
  <2> QED BY <2>1, <2>2, <2>3, Zenon
<1> QED BY <1>2, <1>3, <1>5, SMTT(60) DEF LoopInv

\* A task runs to its end.
LEMMA IndexTaskInv ==
  ASSUME MaxTasks \in Nat, LoopInv, NEW i \in Indices, IndexTask(i)
  PROVE  LoopInv'
<1> USE DEF IndexTask, StartTask, EndTask
<1>1. LoopTypeOK /\ Parallel /\ ParallelInv
  BY Zenon DEF LoopInv, LoopTypeOK, SerialInv
<1>2. Parallel' /\ LoopTypeOK'
  BY <1>1, Zenon DEF Parallel, LoopTypeOK
<1>3. \A k \in Indices : tasks'[k] = "none" <=> tasks[k] = "none"
  BY <1>1 DEF LoopTypeOK
<1>4. \A k \in Indices : tasks[k] = "done" => tasks'[k] = "done"
  BY <1>1 DEF LoopTypeOK
<1>5. ParallelInv'
  BY <1>1, <1>3, <1>4 DEF ParallelInv
<1> QED BY <1>2, <1>5, SMTT(60) DEF LoopInv

\* Every step of ForEach and of its tasks keeps the invariant.
LEMMA LoopInvNext ==
  ASSUME MaxTasks \in Nat, LoopInv, [LoopNext]_loopVars
  PROVE  LoopInv'
<1>1. CASE UNCHANGED loopVars
  BY <1>1 DEF loopVars, LoopInv, LoopTypeOK, Parallel, ParallelInv, SerialInv
<1> QED BY <1>1, RunHereInv, SubmitInv, ReadInv, IndexTaskInv, SMTT(60) DEF LoopNext, LoopStep

\* The invariant says what ForEach promises its caller.
LEMMA LoopInvDecides ==
  ASSUME MaxTasks \in Nat, LoopInv
  PROVE  LoopDecides
<1>1. LoopTypeOK /\ \A i \in Indices : i \in Nat
  BY DEF LoopInv, Indices
<1>2. NoTaskOutlives
  BY <1>1 DEF LoopInv, LoopTypeOK, ParallelInv, SerialInv, NoTaskOutlives
<1>3. FirstFailureDecides
  <2> DEFINE failing == {i \in 0 .. n - 1 : tasks[i] = "done" /\ fnFate[i] # "ok"}
  <2>1. SUFFICES ASSUME place = "ended", result # "thrown"
                 PROVE  IF failing # {}
                        THEN \E i \in failing : result = fnFate[i] /\ \A j \in failing : i <= j
                        ELSE /\ result = submitted
                             /\ result = "ok" => \A i \in 0 .. n - 1 : tasks[i] = "done"
    BY Zenon DEF FirstFailureDecides
  <2>2. \A i \in 0 .. n - 1 : i \in Indices /\ i \in Nat
    BY <1>1 DEF LoopTypeOK, Indices
  <2>3. ASSUME NEW k \in failing, result = fnFate[k], \A i \in Indices : i < k => fnFate[i] = "ok"
        PROVE  \E i \in failing : result = fnFate[i] /\ \A j \in failing : i <= j
    <3>1. \A j \in failing : ~(j < k) /\ j \in Nat /\ k \in Nat
      BY <2>2, <2>3, Zenon
    <3>2. \A j \in failing : k <= j
      BY <3>1, SMTT(60)
    <3> QED BY <2>3, <3>2, Zenon
  <2>4. CASE Parallel
    <3>1. ParallelInv
      BY <2>4, Zenon DEF LoopInv
    <3>2. CASE looked < nextSubmit /\ fnFate[looked] # "ok" /\ result = fnFate[looked]
      <4>1. looked \in failing
        BY <1>1, <2>1, <3>1, <3>2, SMTT(60) DEF LoopTypeOK, ParallelInv, Indices
      <4> QED BY <2>3, <3>1, <3>2, <4>1, SMTT(60) DEF ParallelInv
    <3>3. CASE looked = nextSubmit /\ result = submitted /\ (submitted # "ok" \/ nextSubmit = n)
      <4>1. \A i \in 0 .. n - 1 : i < nextSubmit => fnFate[i] = "ok" /\ tasks[i] = "done"
        BY <2>1, <2>2, <3>1, <3>3, Zenon DEF ParallelInv
      <4>2. \A i \in 0 .. n - 1 : i >= nextSubmit => tasks[i] = "none"
        BY <2>2, <3>1, Zenon DEF ParallelInv
      <4>3. \A i \in 0 .. n - 1 : i >= nextSubmit \/ i < nextSubmit
        BY <1>1 DEF LoopTypeOK
      <4>4. failing = {}
        BY <4>1, <4>2, <4>3, Zenon
      <4>5. result = "ok" => \A i \in 0 .. n - 1 : i < nextSubmit
        BY <1>1, <3>3, SMTT(60) DEF LoopTypeOK
      <4> QED BY <3>3, <4>1, <4>4, <4>5, Zenon
    <3> QED BY <2>1, <3>1, <3>2, <3>3, Zenon DEF ParallelInv
  <2>5. CASE ~Parallel
    <3>1. SerialInv
      BY <2>5 DEF LoopInv
    <3>2. CASE looked = n /\ result = "ok" /\ \A i \in Indices : i < looked => fnFate[i] = "ok"
      <4>1. \A i \in 0 .. n - 1 : tasks[i] = "done" /\ fnFate[i] = "ok"
        BY <1>1, <2>2, <3>1, <3>2, SMTT(60) DEF SerialInv, LoopTypeOK
      <4> QED BY <3>1, <3>2, <4>1, Zenon DEF SerialInv
    <3>3. CASE /\ looked > 0 /\ fnFate[looked - 1] # "ok" /\ result = fnFate[looked - 1]
               /\ \A i \in Indices : i < looked - 1 => fnFate[i] = "ok"
      <4>1. looked - 1 \in failing
        BY <1>1, <2>2, <3>1, <3>3, SMTT(60) DEF SerialInv, LoopTypeOK
      <4> QED BY <2>3, <3>3, <4>1, Zenon
    <3> QED BY <2>1, <3>1, <3>2, <3>3, Zenon DEF SerialInv
  <2> QED BY <2>4, <2>5, Zenon
<1> QED BY <1>2, <1>3, Zenon DEF LoopDecides

\* However its tasks interleave and whichever Submit fails, ForEach leaves no task behind and
\* returns the first failure in index order.
THEOREM LoopCorrect ==
  ASSUME MaxTasks \in Nat
  PROVE  LoopSpec => []LoopDecides
<1>1. LoopInit => LoopInv
  BY LoopInvInit
<1>2. LoopInv /\ [LoopNext]_loopVars => LoopInv'
  BY LoopInvNext
<1>3. LoopInv => LoopDecides
  BY LoopInvDecides
<1> QED BY <1>1, <1>2, <1>3, PTL DEF LoopSpec

=============================================================================
