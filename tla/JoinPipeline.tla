---------------------------- MODULE JoinPipeline ----------------------------
(***************************************************************************)
(* The life of join builds around the pipeline that probes them            *)
(* (src/exec/hash_join.cc): BuildsFirstOperator prepares the builds of its *)
(* pipeline, outermost join first, each after the builds its own input     *)
(* probes (JoinBuild::Prepare, PrepareBuilds); then it opens its sink,     *)
(* whose parts run on the executor's threads and read the tables.  The     *)
(* sink is a PartUnionOperator or, for a join that emits its build rows, a *)
(* PartRightJoinOperator: every part marks the rows of the outermost build *)
(* it matches (JoinMarks), and the rows the marks select come after the    *)
(* last part.  The consumer may stop, close and open again at any return.  *)
(* The parts of a build and of the sink are run by PartScheduler, of which *)
(* this keeps what reaches its caller: parts run in any order, results     *)
(* come in part order, and a part out of memory runs once more alone.      *)
(***************************************************************************)
EXTENDS Integers, Sequences, FiniteSets, Functions

CONSTANTS
  Root,           \* the BuildsFirstOperator, which probes its builds_ as a build does
  Builds,         \* the JoinBuilds under it
  InputsOf,       \* builds_ of Root and of every build: the builds its pipeline probes
  PartCount,      \* the parts of every pipeline
  PoolThreads,    \* the executor's threads
  BuildRowCount,  \* the rows of the outermost build
  MaxRuns         \* how often the operator is opened, at most

VARIABLES
  sink,      \* "union", or a PartRightJoinOperator that emits "matched" or "unmatched" rows
  matches,   \* the rows of the outermost build each part matches
  runs,      \* how often Open was called
  opened,    \* opened_
  sinkOpen,  \* sink_opened_
  phase,     \* what the consumer is in: "idle" between calls
  stack,     \* the builds being prepared, the innermost last, each with its next input
  tables,    \* the builds that hold their table
  empties,   \* of those, the ones that empty their join
  marks,     \* the outermost build's marks_, NoMarks when there are none
  running,   \* whether a scheduler exists
  stop,      \* its stop flag
  partTask,  \* each part's task
  todo,      \* the rows a running part has still to mark
  loaded,    \* the word Mark() loaded, NoMarks before
  alone,     \* the part that runs again alone, 0 for none
  got,       \* the parts whose results the consumer took
  probed,    \* probed_
  ended,     \* ended_
  at,        \* position_ of the emitter
  out,       \* the build rows the sink emitted
  returned   \* what the last call returned

NoMarks == {0}

sinkVars == <<probed, ended, at, out>>
taskVars == <<running, stop, partTask, todo, loaded, alone, got>>
buildVars == <<stack, tables, empties, marks>>
pipelineVars ==
  <<sink, matches, runs, opened, sinkOpen, phase, buildVars, taskVars, sinkVars, returned>>

PartIds == 1 .. PartCount
Rows == 1 .. BuildRowCount

Marking == sink # "union"

Outermost == InputsOf[Root][1]
\* The call of PrepareBuilds the operator is in, and those it came from.
Top == stack[Len(stack)]
Callers(s) == SubSeq(s, 1, Len(s) - 1)

\* The builds below some: those their inputs probe, and so on down.
Closed(s) == \A b \in s : Range(InputsOf[b]) \subseteq s
Below(bs) ==
  LET closures == {s \in SUBSET Builds : bs \subseteq s /\ Closed(s)}
  IN  {b \in Builds : \A s \in closures : b \in s}

\* A build belongs to one join of one pipeline, and none is below itself.
Nested ==
  /\ Root \notin Builds
  /\ InputsOf \in [Builds \cup {Root} -> Seq(Builds)]
  /\ InputsOf[Root] # <<>>
  /\ \A b, c \in Builds \cup {Root} : \A i \in DOMAIN InputsOf[b], j \in DOMAIN InputsOf[c] :
       InputsOf[b][i] = InputsOf[c][j] => b = c /\ i = j
  /\ \A b \in Builds : b \notin Below(Range(InputsOf[b]))

\* Parts and rows are counted.
Counts == PartCount \in Nat /\ BuildRowCount \in Nat

ASSUME PipelineTree == Nested
ASSUME PipelineCounts == Counts

NoTasks ==
  /\ running' = FALSE /\ stop' = FALSE /\ alone' = 0 /\ got' = 0
  /\ partTask' = [p \in PartIds |-> "waiting"]
  /\ todo' = [p \in PartIds |-> {}]
  /\ loaded' = [p \in PartIds |-> NoMarks]

\* A new PartScheduler.
NewTasks ==
  /\ running' = TRUE /\ stop' = FALSE /\ alone' = 0 /\ got' = 0
  /\ partTask' = [p \in PartIds |-> "waiting"]
  /\ todo' = [p \in PartIds |-> {}]
  /\ loaded' = [p \in PartIds |-> NoMarks]

PipelineInit ==
  /\ sink \in {"union", "matched", "unmatched"}
  /\ matches \in [PartIds -> SUBSET Rows]
  /\ runs = 0 /\ opened = FALSE /\ sinkOpen = FALSE
  /\ phase = "idle" /\ stack = <<>>
  /\ tables = {} /\ empties = {} /\ marks = NoMarks
  /\ running = FALSE /\ stop = FALSE /\ alone = 0 /\ got = 0
  /\ partTask = [p \in PartIds |-> "waiting"]
  /\ todo = [p \in PartIds |-> {}]
  /\ loaded = [p \in PartIds |-> NoMarks]
  /\ probed = FALSE /\ ended = FALSE /\ at = 0 /\ out = <<>>
  /\ returned = "none"

\* The consumer's call returns.
Return(what) == phase' = "idle" /\ returned' = what

-----------------------------------------------------------------------------
(* JoinBuild: its table, and the tables of the builds its input probes      *)

\* ReleaseBuilds of some builds: each one's Release.
ReleaseBuilds(bs) ==
  LET released == Below(bs)
  IN  /\ tables' = tables \ released
      /\ empties' = empties \ released
      /\ marks' = IF Outermost \in released THEN NoMarks ELSE marks

\* PrepareBuilds goes on to the next build: Prepare, which releases what it holds, and the
\* builds its own input probes come first.
PrepareNext ==
  /\ phase = "builds"
  /\ Top.next <= Len(InputsOf[Top.of])
  /\ LET b == InputsOf[Top.of][Top.next]
     IN  /\ ReleaseBuilds({b})
         /\ stack' = Append(stack, [of |-> b, next |-> 1])
  /\ UNCHANGED <<sink, matches, runs, opened, sinkOpen, phase, taskVars, sinkVars, returned>>

\* The builds a build's input probes are ready: its parts run.
BuildParts ==
  /\ phase = "builds"
  /\ Top.next > Len(InputsOf[Top.of])
  /\ Top.of # Root
  /\ NewTasks
  /\ phase' = "parts"
  /\ UNCHANGED <<sink, matches, runs, opened, sinkOpen, buildVars, sinkVars, returned>>

\* PrepareBuilds after a build: it stops at one that empties its join.
After(frame, emptied) ==
  [frame EXCEPT !.next = IF emptied THEN Len(InputsOf[frame.of]) + 1 ELSE @ + 1]

\* Mutant: the builds the input probed stay.
BuildDoneMutant(b, emptied) ==
  /\ tables' = tables \cup {b}
  /\ empties' = empties \cup (IF emptied THEN {b} ELSE {})
  /\ UNCHANGED marks

\* The table is finished, and the builds the input probed are released.
BuildDone(b, emptied) ==
  LET probes == Below(Range(InputsOf[b]))
  IN  /\ tables' = (tables \ probes) \cup {b}
      /\ empties' = (empties \ probes) \cup (IF emptied THEN {b} ELSE {})
      /\ UNCHANGED marks

\* Every part is merged: the scheduler goes, then the table is finished.
FinishTable ==
  /\ phase = "parts"
  /\ got = PartCount
  /\ NoTasks
  /\ \E emptied \in BOOLEAN :
       LET callers == Callers(stack)
       IN  /\ BuildDone(Top.of, emptied)
           /\ stack' = [callers EXCEPT ![Len(callers)] = After(@, emptied)]
  /\ phase' = "builds"
  /\ UNCHANGED <<sink, matches, runs, opened, sinkOpen, sinkVars, returned>>

\* A part fails, or adding one to the table or finishing it does: the scheduler stops its
\* tasks and waits.
BuildFails ==
  /\ phase = "parts"
  /\ \/ got < PartCount /\ partTask[got + 1] \in {"failed", "invalid", "oom again"}
     \/ got > 0
  /\ stop' = TRUE
  /\ phase' = "failing"
  /\ UNCHANGED <<sink, matches, runs, opened, sinkOpen, buildVars, running, partTask, todo, loaded,
                 alone, got, sinkVars, returned>>

\* What a failed Prepare and the PrepareBuilds that called it release.
Failed == ReleaseBuilds({Top.of} \cup Range(InputsOf[stack[Len(stack) - 1].of]))

\* No task runs any more: Prepare releases, PrepareBuilds releases every build of its list,
\* and its caller fails in turn.
FailUp ==
  /\ phase = "failing"
  /\ \A p \in PartIds : partTask[p] # "running"
  /\ NoTasks
  /\ Failed
  /\ stack' = IF Len(stack) = 2 THEN <<>> ELSE Callers(stack)
  /\ IF Len(stack) = 2 THEN Return("failed") ELSE UNCHANGED <<phase, returned>>
  /\ UNCHANGED <<sink, matches, runs, opened, sinkOpen, sinkVars>>

-----------------------------------------------------------------------------
(* The tasks, on the executor's threads                                     *)

Stage == IF stack = <<>> THEN Root ELSE Top.of

\* Whether a part's probes, opened from the outermost, find their tables: one that empties
\* its join opens no further.
FindsTables ==
  LET probes == InputsOf[Stage]
      reached(j) == \A k \in 1 .. j - 1 : probes[k] \notin empties
  IN  \A j \in DOMAIN probes : reached(j) => probes[j] \in tables

StartPart(p) ==
  /\ running /\ ~stop
  /\ partTask[p] = "waiting"
  /\ IF alone = 0
       THEN Cardinality({q \in PartIds : partTask[q] = "running"}) < PoolThreads
       ELSE p = alone
  /\ partTask' = [partTask EXCEPT ![p] = IF FindsTables THEN "running" ELSE "invalid"]
  /\ todo' = [todo EXCEPT ![p] =
                IF Stage = Root /\ Marking /\ Outermost \notin empties THEN matches[p] ELSE {}]
  /\ UNCHANGED <<sink, matches, runs, opened, sinkOpen, phase, buildVars, running, stop, loaded,
                 alone, got, sinkVars, returned>>

\* JoinMarks::Mark: the load.
LoadWord(p) ==
  /\ partTask[p] = "running" /\ todo[p] # {} /\ loaded[p] = NoMarks
  /\ loaded' = [loaded EXCEPT ![p] = marks]
  /\ UNCHANGED <<sink, matches, runs, opened, sinkOpen, phase, buildVars, running, stop, partTask,
                 todo, alone, got, sinkVars, returned>>

\* Mutant: the bit is stored with the word that was loaded.
OrMutant(word, row) == word \cup {row}

\* fetch_or: the bit joins what the word holds now.
Or(word, row) == marks \cup {row}

\* Mark, after the load: the read-modify-write unless the bit was set.
SetMark(p) ==
  /\ partTask[p] = "running" /\ todo[p] # {} /\ loaded[p] # NoMarks
  /\ \E row \in todo[p] :
       /\ marks' = IF row \in loaded[p] THEN marks ELSE Or(loaded[p], row)
       /\ todo' = [todo EXCEPT ![p] = @ \ {row}]
  /\ loaded' = [loaded EXCEPT ![p] = NoMarks]
  /\ UNCHANGED <<sink, matches, runs, opened, sinkOpen, phase, stack, tables, empties, running,
                 stop, partTask, alone, got, sinkVars, returned>>

\* A task returns: its batches, a failure, out of memory, or it saw the stop flag.
EndPart(p) ==
  /\ partTask[p] = "running" /\ loaded[p] = NoMarks
  /\ \/ todo[p] = {} /\ partTask' = [partTask EXCEPT ![p] = "done"]
     \/ partTask' = [partTask EXCEPT ![p] = "failed"]
     \/ partTask' = [partTask EXCEPT ![p] = IF alone = p THEN "oom again" ELSE "oom"]
  /\ todo' = [todo EXCEPT ![p] = {}]
  /\ UNCHANGED <<sink, matches, runs, opened, sinkOpen, phase, buildVars, running, stop, loaded,
                 alone, got, sinkVars, returned>>

Tasks == \E p \in PartIds : StartPart(p) \/ LoadWord(p) \/ SetMark(p) \/ EndPart(p)

Quiet == \A p \in PartIds : partTask[p] # "running"

\* PartScheduler::Next: the next part's result, in part order.  A sink whose parts hand on
\* batches returns each to the consumer.
TakePart ==
  /\ phase \in {"parts", "sink"}
  /\ running /\ ~stop /\ got < PartCount
  /\ partTask[got + 1] = "done"
  /\ got' = got + 1
  /\ alone' = 0
  /\ \/ UNCHANGED <<phase, returned>>
     \/ phase = "sink" /\ sink # "matched" /\ Return("batch")
  /\ UNCHANGED <<sink, matches, runs, opened, sinkOpen, buildVars, running, stop, partTask, todo,
                 loaded, sinkVars>>

\* The next part ran out of memory: the parts ahead are stopped ...
DropAhead ==
  /\ phase \in {"parts", "sink"}
  /\ running /\ ~stop /\ got < PartCount
  /\ partTask[got + 1] = "oom"
  /\ stop' = TRUE
  /\ UNCHANGED <<sink, matches, runs, opened, sinkOpen, phase, buildVars, running, partTask, todo,
                 loaded, alone, got, sinkVars, returned>>

\* Mutant: the part runs again with the others, as often as it runs out of memory.
RetryPartMutant ==
  /\ phase \in {"parts", "sink"}
  /\ stop /\ Quiet
  /\ got < PartCount /\ partTask[got + 1] = "oom"
  /\ partTask' = [p \in PartIds |-> IF p > got THEN "waiting" ELSE partTask[p]]
  /\ stop' = FALSE
  /\ UNCHANGED <<sink, matches, runs, opened, sinkOpen, phase, buildVars, running, todo, loaded,
                 alone, got, sinkVars, returned>>

\* ... and waited for; it runs again alone, and they run again when they are reached.
RetryPart ==
  /\ phase \in {"parts", "sink"}
  /\ stop /\ Quiet
  /\ got < PartCount /\ partTask[got + 1] = "oom"
  /\ partTask' = [p \in PartIds |-> IF p > got THEN "waiting" ELSE partTask[p]]
  /\ alone' = got + 1
  /\ stop' = FALSE
  /\ UNCHANGED <<sink, matches, runs, opened, sinkOpen, phase, buildVars, running, todo, loaded,
                 got, sinkVars, returned>>

-----------------------------------------------------------------------------
(* BuildsFirstOperator and its sink                                         *)

\* Next before Open or after Close.
NextClosed ==
  /\ phase = "idle" /\ ~opened
  /\ returned' = "invalid"
  /\ UNCHANGED <<sink, matches, runs, opened, sinkOpen, phase, buildVars, taskVars, sinkVars>>

\* The first Next prepares the builds, a later one goes to the sink.
CallNext ==
  /\ phase = "idle" /\ opened
  /\ IF sinkOpen
       THEN phase' = "sink" /\ UNCHANGED stack
       ELSE phase' = "builds" /\ stack' = <<[of |-> Root, next |-> 1]>>
  /\ UNCHANGED <<sink, matches, runs, opened, sinkOpen, tables, empties, marks, taskVars, sinkVars,
                 returned>>

\* The builds are ready: the sink opens.  A PartRightJoinOperator first makes its build's
\* marks, and runs nothing when it cannot.
OpenSink ==
  /\ phase = "builds"
  /\ Top.of = Root /\ Top.next > Len(InputsOf[Root])
  /\ sinkOpen' = TRUE
  /\ stack' = <<>>
  /\ \/ /\ Marking => Outermost \in tables
        /\ marks' = IF Marking THEN {} ELSE marks
        /\ NewTasks
        /\ phase' = "sink"
        /\ UNCHANGED returned
     \/ /\ Marking
        /\ Return(IF Outermost \in tables THEN "failed" ELSE "invalid")
        /\ UNCHANGED <<marks, taskVars>>
  /\ UNCHANGED <<sink, matches, runs, opened, tables, empties, sinkVars>>

\* Next of a sink whose Open failed.
SinkNotOpened ==
  /\ phase = "sink"
  /\ ~running /\ ~probed
  /\ Return("invalid")
  /\ UNCHANGED <<sink, matches, runs, opened, sinkOpen, buildVars, taskVars, sinkVars>>

\* A part of the sink fails: its tasks are stopped ...
SinkPartFails ==
  /\ phase = "sink"
  /\ running /\ ~stop /\ got < PartCount
  /\ partTask[got + 1] \in {"failed", "invalid", "oom again"}
  /\ stop' = TRUE
  /\ phase' = "sinkFailing"
  /\ UNCHANGED <<sink, matches, runs, opened, sinkOpen, buildVars, running, partTask, todo, loaded,
                 alone, got, sinkVars, returned>>

\* ... and waited for.  The builds stay until Close.
SinkFails ==
  /\ phase = "sinkFailing" /\ Quiet
  /\ ended' = TRUE
  /\ Return(IF partTask[got + 1] = "invalid" THEN "invalid" ELSE "failed")
  /\ UNCHANGED <<sink, matches, runs, opened, sinkOpen, buildVars, taskVars, probed, at, out>>

\* scheduler_->done().
PartsIn == running /\ (ended \/ got = PartCount)

\* Every part of a PartUnionOperator is in.
UnionDone ==
  /\ phase = "sink" /\ sink = "union"
  /\ PartsIn
  /\ IF ended THEN UNCHANGED <<tables, empties, marks>> ELSE ReleaseBuilds(Range(InputsOf[Root]))
  /\ ended' = TRUE
  /\ Return("end")
  /\ UNCHANGED <<sink, matches, runs, opened, sinkOpen, stack, taskVars, probed, at, out>>

\* Every part of a PartRightJoinOperator is in: its scheduler goes.
Probed ==
  /\ phase = "sink" /\ Marking
  /\ PartsIn
  /\ probed' = TRUE
  /\ NoTasks
  /\ UNCHANGED <<sink, matches, runs, opened, sinkOpen, phase, buildVars, ended, at, out, returned>>

Emits(row) == (row \in marks) # (sink = "unmatched")

\* BuildRowEmitter::Next: the next row the marks select, in the table's order.
EmitRow ==
  /\ phase = "sink" /\ probed /\ ~ended
  /\ Outermost \in tables \ empties
  /\ \E row \in Rows :
       /\ row > at /\ Emits(row)
       /\ \A other \in at + 1 .. row - 1 : ~Emits(other)
       /\ at' = row
       /\ out' = Append(out, row)
  /\ Return("batch")
  /\ UNCHANGED <<sink, matches, runs, opened, sinkOpen, buildVars, taskVars, probed, ended>>

\* After the last row the builds are released; Next fails when the table or the marks are gone
\* before.
EmitEnd ==
  /\ phase = "sink" /\ probed /\ ~ended
  /\ Outermost \notin tables \ empties \/ \A row \in at + 1 .. BuildRowCount : ~Emits(row)
  /\ LET held == Outermost \in tables /\ marks # NoMarks
     IN  /\ ended' = held
         /\ IF held THEN ReleaseBuilds(Range(InputsOf[Root])) ELSE UNCHANGED <<tables, empties, marks>>
         /\ Return(IF held THEN "end" ELSE "invalid")
  /\ UNCHANGED <<sink, matches, runs, opened, sinkOpen, stack, taskVars, probed, at, out>>

\* Next after the end, or after a failure.
AfterEnd ==
  /\ phase = "sink" /\ probed /\ ended
  /\ Return("end")
  /\ UNCHANGED <<sink, matches, runs, opened, sinkOpen, buildVars, taskVars, sinkVars>>

\* Mutant: the builds are released before the sink is closed.
CallCloseMutant ==
  /\ phase = "idle"
  /\ \/ phase' = "closing" /\ UNCHANGED runs
     \/ phase' = "opening" /\ runs < MaxRuns /\ runs' = runs + 1
  /\ ReleaseBuilds(Range(InputsOf[Root]))
  /\ stop' = (stop \/ running)
  /\ UNCHANGED <<sink, matches, opened, sinkOpen, stack, running, partTask, todo, loaded, alone, got,
                 sinkVars, returned>>

\* Close, and Open, which closes first: the sink stops its parts ...
CallClose ==
  /\ phase = "idle"
  /\ \/ phase' = "closing" /\ UNCHANGED runs
     \/ phase' = "opening" /\ runs < MaxRuns /\ runs' = runs + 1
  /\ stop' = (stop \/ running)
  /\ UNCHANGED <<sink, matches, opened, sinkOpen, buildVars, running, partTask, todo, loaded, alone,
                 got, sinkVars, returned>>

\* ... and waits for them; then the builds are released.
FinishClose ==
  /\ phase \in {"closing", "opening"}
  /\ Quiet
  /\ NoTasks
  /\ ReleaseBuilds(Range(InputsOf[Root]))
  /\ opened' = (phase = "opening")
  /\ sinkOpen' = FALSE
  /\ probed' = FALSE /\ ended' = FALSE /\ at' = 0 /\ out' = <<>>
  /\ Return("ok")
  /\ UNCHANGED <<sink, matches, runs, stack>>

Consumer ==
  \/ PrepareNext \/ BuildParts \/ FinishTable \/ BuildFails \/ FailUp
  \/ TakePart \/ DropAhead \/ RetryPart
  \/ OpenSink \/ SinkNotOpened \/ SinkPartFails \/ SinkFails \/ UnionDone \/ Probed
  \/ EmitRow \/ EmitEnd \/ AfterEnd \/ FinishClose

Calls == NextClosed \/ CallNext \/ CallClose

PipelineNext == Calls \/ Consumer \/ Tasks

PipelineSpec == PipelineInit /\ [][PipelineNext]_pipelineVars

-----------------------------------------------------------------------------
TaskStates == {"waiting", "running", "done", "failed", "invalid", "oom", "oom again"}
Phases == {"idle", "builds", "parts", "failing", "sink", "sinkFailing", "closing", "opening"}

\* No part, and no emitter, ever finds the table of a join it reaches missing
\* (HashJoinOperator::Start's and BuildRowEmitter::Next's Invalid are never returned), though
\* the builds below a join that is emptied are not prepared at all.
NoUnpreparedProbe ==
  /\ \A p \in PartIds : partTask[p] # "invalid"
  /\ probed /\ ~ended => Outermost \in tables /\ marks # NoMarks

\* While a part runs, the tables it reads and the marks it writes are held: neither a failed
\* call, the end of the pipeline, nor Close and Open release them under it.
PinnedWhileRead ==
  \A p \in PartIds : partTask[p] = "running" =>
    /\ FindsTables
    /\ Stage = Root /\ Marking => marks # NoMarks

\* A part and the emitter read and write only what is there: tables, and marks, that were
\* prepared for them and are not released under them.
ProbesFindTables == NoUnpreparedProbe /\ PinnedWhileRead

\* The builds PrepareBuilds is done with.
Prepared(frame) ==
  {InputsOf[frame.of][i] : i \in {j \in DOMAIN InputsOf[frame.of] : j < frame.next}}

\* What holds a table at any time is a pipeline that will probe it: a build that is ready has
\* released the builds its own input probed, and a failed Prepare, Close and a failed Next
\* before the sink opened hold nothing ("A failed Prepare holds nothing").
OnlyPendingProbesHold ==
  tables \subseteq IF sinkOpen THEN Range(InputsOf[Root])
                               ELSE UNION {Prepared(f) : f \in Range(stack)}

\* Tables and marks are there for whoever reads them, and for nobody else.
TablesHeld == ProbesFindTables /\ OnlyPendingProbesHold

\* The rows a right or full join emits are those some part matched (or no part did), in the
\* table's order: no mark is lost to another part's, none is left by a part that failed, was
\* dropped or ran again, and none from an earlier run.
RowsExact ==
  /\ Range(out) = {row \in 1 .. at : (\E p \in PartIds : row \in matches[p]) # (sink = "unmatched")}
  /\ \A i, j \in DOMAIN out : i < j => out[i] < out[j]
=============================================================================
