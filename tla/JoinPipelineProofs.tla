------------------------- MODULE JoinPipelineProofs -------------------------
(***************************************************************************)
(* A pipeline of joins has its tables and its marks whenever a part or the *)
(* emitter uses them, holds no others, and emits the right build rows, for *)
(* every tree of builds and any number of parts, rows and threads.         *)
(*                                                                         *)
(* PipelineInv says of every call of PrepareBuilds on the stack that the   *)
(* builds it is done with have their tables, unless one of them empties    *)
(* the join, and that the stack is a path down the tree: so the builds     *)
(* that a call further in releases are never those a caller still needs.   *)
(* Of the sink it says that what a part has matched and no longer has to   *)
(* mark is marked, and every mark is some part's match.                    *)
(***************************************************************************)
EXTENDS JoinPipeline, TLAPS


Stages == Builds \cup {Root}
Frames == [of : Stages, next : Nat \ {0}]
Words == {NoMarks} \cup SUBSET Rows
Inputs(c) == Range(InputsOf[c])

FlagsOK ==
  /\ sink \in {"union", "matched", "unmatched"}
  /\ phase \in Phases
  /\ opened \in BOOLEAN /\ sinkOpen \in BOOLEAN /\ probed \in BOOLEAN /\ ended \in BOOLEAN
  /\ running \in BOOLEAN /\ stop \in BOOLEAN

BuildsOK == stack \in Seq(Frames) /\ tables \subseteq Builds /\ empties \subseteq Builds

TasksOK ==
  /\ matches \in [PartIds -> SUBSET Rows]
  /\ marks \in Words
  /\ partTask \in [PartIds -> TaskStates]
  /\ todo \in [PartIds -> SUBSET Rows]
  /\ loaded \in [PartIds -> Words]
  /\ alone \in 0 .. PartCount /\ got \in 0 .. PartCount

PipelineTypeOK == FlagsOK /\ BuildsOK /\ TasksOK /\ at \in 0 .. BuildRowCount /\ out \in Seq(Rows)

\* The builds being prepared are each the one its caller is at, and below every caller.
StackInv ==
  /\ stack # <<>> <=> phase \in {"builds", "parts", "failing"}
  /\ stack # <<>> => ~sinkOpen /\ stack[1].of = Root
  /\ phase \in {"parts", "failing"} => Len(stack) > 1
  /\ \A i \in 1 .. Len(stack) : stack[i].next <= Len(InputsOf[stack[i].of]) + 1
  /\ \A i \in 1 .. Len(stack) - 1 :
       /\ stack[i].next <= Len(InputsOf[stack[i].of])
       /\ stack[i + 1].of = InputsOf[stack[i].of][stack[i].next]
  /\ \A i, j \in 1 .. Len(stack) : \A b, c \in Stages :
       i < j /\ stack[i].of = c /\ stack[j].of = b => b \in Below(Inputs(c))

\* The builds before the n-th that a part of a pipeline reaches have their tables.
Found(c, nth) ==
  \A j \in 1 .. Len(InputsOf[c]) :
    j < nth /\ (\A k \in 1 .. j - 1 : InputsOf[c][k] \notin empties) => InputsOf[c][j] \in tables

\* What a call of PrepareBuilds is done with is there, until it fails; so is what the sink
\* probes, until it ends.
TableInv ==
  /\ OnlyPendingProbesHold
  /\ phase \in {"builds", "parts"} \/ running =>
       \A i \in 1 .. Len(stack) : \A c \in Stages : \A nth \in 1 .. Len(InputsOf[c]) + 1 :
         stack[i] = [of |-> c, next |-> nth] => Found(c, nth)
  /\ running /\ stack # <<>> => Top.next > Len(InputsOf[Top.of])
  /\ sinkOpen /\ ~ended => Found(Root, Len(InputsOf[Root]) + 1)

\* Tasks are those of a scheduler, and end before it goes.
PartInv(p) ==
  /\ p <= got => partTask[p] = "done"
  /\ partTask[p] # "invalid"
  /\ partTask[p] # "running" => todo[p] = {} /\ loaded[p] = NoMarks
  /\ todo[p] # {} => sinkOpen /\ Marking

TaskInv ==
  /\ ~running => \A p \in PartIds : partTask[p] = "waiting"
  /\ stop => running
  /\ running => stack # <<>> \/ sinkOpen
  /\ phase = "builds" => ~running
  /\ phase = "parts" => running
  /\ \A p \in PartIds : PartInv(p)

\* A sink that failed has stopped its tasks for good, one that ended has none.
SinkInv ==
  /\ phase \in {"sink", "sinkFailing"} => sinkOpen
  /\ probed => sinkOpen /\ Marking /\ ~running
  /\ phase = "sinkFailing" => running /\ stop /\ got < PartCount
  /\ ended => sinkOpen /\ Quiet
  /\ ended /\ running => got = PartCount \/ stop
  /\ phase = "sinkFailing" \/ (ended /\ running /\ got < PartCount) =>
       partTask[got + 1] \in {"failed", "oom again"}

\* A mark is a match of some part, and what a part has found is marked.
MarksLive == sinkOpen /\ Marking /\ ~ended /\ (running \/ probed)

PartMarks(p) ==
  /\ todo[p] \subseteq matches[p]
  /\ loaded[p] # NoMarks => loaded[p] \subseteq marks
  /\ Outermost \notin empties /\ (probed \/ partTask[p] \in {"running", "done"}) =>
       matches[p] \ todo[p] \subseteq marks

MarkInv ==
  /\ MarksLive => /\ marks \in SUBSET Rows
                  /\ \A row \in marks : \E p \in PartIds : row \in matches[p]
                  /\ \A p \in PartIds : PartMarks(p)
  /\ ~probed => at = 0 /\ out = <<>>
  /\ RowsExact

PipelineInv == PipelineTypeOK /\ StackInv /\ TableInv /\ TaskInv /\ SinkInv /\ MarkInv

-----------------------------------------------------------------------------
(* The tree of builds.                                                      *)

\* What the tree says of a pipeline's builds.
LEMMA Tree ==
  ASSUME Nested
  PROVE  /\ Root \notin Builds /\ Root \in Stages /\ Builds \subseteq Stages
         /\ Len(InputsOf[Root]) > 0
         /\ \A c \in Stages : /\ Len(InputsOf[c]) \in Nat /\ DOMAIN InputsOf[c] = 1 .. Len(InputsOf[c])
                              /\ \A i \in 1 .. Len(InputsOf[c]) : InputsOf[c][i] \in Builds
                              /\ Inputs(c) \in SUBSET Builds
                              /\ \A b : b \in Inputs(c) <=> \E i \in 1 .. Len(InputsOf[c]) : b = InputsOf[c][i]
         /\ \A b, c \in Stages : \A i \in 1 .. Len(InputsOf[b]), j \in 1 .. Len(InputsOf[c]) :
              InputsOf[b][i] = InputsOf[c][j] => b = c /\ i = j
         /\ \A b \in Builds : b \notin Below(Inputs(b))
<1>1. Root \notin Builds /\ Root \in Stages /\ Builds \subseteq Stages
  BY DEF Nested, Stages
<1>2. \A c \in Stages : InputsOf[c] \in Seq(Builds)
  BY DEF Nested, Stages
<1>3. \A c \in Stages : /\ Len(InputsOf[c]) \in Nat /\ DOMAIN InputsOf[c] = 1 .. Len(InputsOf[c])
                        /\ \A i \in 1 .. Len(InputsOf[c]) : InputsOf[c][i] \in Builds
  BY <1>2
<1>4. \A c \in Stages : \A b : b \in Inputs(c) <=> \E i \in 1 .. Len(InputsOf[c]) : b = InputsOf[c][i]
  BY <1>3, Zenon DEF Inputs, Range
<1>5. \A c \in Stages : Inputs(c) \in SUBSET Builds
  BY <1>3, <1>4
<1>6. InputsOf[Root] # <<>>
  BY DEF Nested
<1>7. Len(InputsOf[Root]) > 0
  BY <1>1, <1>2, <1>6
<1>8. \A b, c \in Stages : \A i \in DOMAIN InputsOf[b], j \in DOMAIN InputsOf[c] :
         InputsOf[b][i] = InputsOf[c][j] => b = c /\ i = j
  BY Zenon DEF Nested, Stages
<1>9. \A b, c \in Stages : \A i \in 1 .. Len(InputsOf[b]), j \in 1 .. Len(InputsOf[c]) :
         InputsOf[b][i] = InputsOf[c][j] => b = c /\ i = j
  BY <1>8, <1>3
<1>10. \A b \in Builds : b \notin Below(Inputs(b))
  BY Zenon DEF Nested, Inputs
<1> QED BY <1>1, <1>3, <1>4, <1>5, <1>7, <1>9, <1>10, Zenon

\* The builds below some are among them, are closed under "probes", and are the least such set.
LEMMA BelowLeast ==
  ASSUME Nested, NEW bs \in SUBSET Builds
  PROVE  /\ bs \subseteq Below(bs) /\ Below(bs) \subseteq Builds
         /\ \A c \in Below(bs) : Inputs(c) \subseteq Below(bs)
         /\ \A s \in SUBSET Builds : bs \subseteq s /\ Closed(s) => Below(bs) \subseteq s
<1>1. bs \subseteq Below(bs) /\ Below(bs) \subseteq Builds
  BY DEF Below
<1>2. \A s \in SUBSET Builds : bs \subseteq s /\ Closed(s) => Below(bs) \subseteq s
  BY DEF Below
<1>3. ASSUME NEW c \in Below(bs), NEW b \in Inputs(c)
      PROVE  b \in Below(bs)
  <2>1. c \in Builds /\ b \in Builds
    BY <1>1, <1>3, Tree, Zenon
  <2>2. ASSUME NEW s \in SUBSET Builds, bs \subseteq s, Closed(s)
        PROVE  b \in s
    <3>1. c \in s
      BY <1>2, <2>2
    <3> QED BY <3>1, <1>3, <2>2 DEF Closed, Inputs
  <2> QED BY <2>1, <2>2 DEF Below
<1> QED BY <1>1, <1>2, <1>3

\* What is below a build below some is below those.
LEMMA BelowTransitive ==
  ASSUME Nested, NEW bs \in SUBSET Builds, NEW cs \in SUBSET Builds, bs \subseteq Below(cs)
  PROVE  Below(bs) \subseteq Below(cs)
<1>1. Closed(Below(cs)) /\ Below(cs) \in SUBSET Builds
  BY BelowLeast DEF Closed, Inputs
<1> QED BY <1>1, BelowLeast

\* A pipeline that probes a build below b is b's or one below it, or the build is b itself.
LEMMA BelowOne ==
  ASSUME Nested, NEW b \in Builds, NEW c \in Stages, NEW i \in 1 .. Len(InputsOf[c]),
         InputsOf[c][i] \in Below({b})
  PROVE  InputsOf[c][i] = b \/ c \in Below({b})
<1> DEFINE s == {x \in Below({b}) : x = b \/ \E d \in Below({b}) : x \in Inputs(d)}
<1>1. {b} \subseteq Below({b}) /\ Below({b}) \subseteq Builds
  BY BelowLeast
<1>2. Closed(s)
  <2> SUFFICES ASSUME NEW x \in s, NEW y \in Inputs(x) PROVE y \in s
    BY Zenon DEF Closed, Inputs
  <2>1. x \in Below({b})
    OBVIOUS
  <2>2. y \in Below({b})
    BY <2>1, BelowLeast
  <2> QED BY <2>1, <2>2, Zenon
<1>3. Below({b}) \subseteq s
  <2>1. {b} \subseteq s /\ s \in SUBSET Builds
    BY <1>1
  <2> HIDE DEF s
  <2> QED BY <2>1, <1>2, BelowLeast
<1>4. CASE InputsOf[c][i] # b
  <2>1. PICK d \in Below({b}) : InputsOf[c][i] \in Inputs(d)
    BY <1>3, <1>4, Zenon
  <2>2. d \in Stages
    BY <1>1, Tree, Zenon
  <2>3. PICK j \in 1 .. Len(InputsOf[d]) : InputsOf[c][i] = InputsOf[d][j]
    BY <2>1, <2>2, Tree, SMTT(60)
  <2>4. c = d
    BY <2>2, <2>3, Tree, Zenon
  <2> QED BY <2>4
<1> QED BY <1>4

\* Preparing a build, or finishing one, touches nothing its callers are done with: m is the call
\* of PrepareBuilds that is at it, i that call or one around it.
LEMMA CallersApart ==
  ASSUME Nested, PipelineTypeOK, StackInv,
         NEW i \in 1 .. Len(stack), NEW m \in 1 .. Len(stack), i <= m,
         NEW c \in Stages, NEW d \in Stages, NEW nth \in 1 .. Len(InputsOf[d]),
         stack[i].of = c, stack[m].of = d, stack[m].next = nth,
         NEW j \in 1 .. Len(InputsOf[c]), j < stack[i].next
  PROVE  InputsOf[c][j] \notin Below({InputsOf[d][nth]})
<1> DEFINE b == InputsOf[d][nth]
<1>1. b \in Builds /\ b \in Inputs(d) /\ Inputs(c) \in SUBSET Builds
  BY Tree, Zenon
<1>2. i = m => c = d
  OBVIOUS
<1>3. i # m => d \in Below(Inputs(c))
  <2>1. i # m => i < m
    BY DEF PipelineTypeOK
  <2> QED BY <2>1, Zenon DEF StackInv
<1>4. b \in Below(Inputs(c))
  BY <1>1, <1>2, <1>3, BelowLeast, Zenon
<1>5. Below({b}) \subseteq Below(Inputs(c))
  BY <1>1, <1>4, BelowTransitive, SMTT(60)
<1>6. Below(Inputs(c)) \subseteq Builds
  BY <1>1, BelowLeast, Zenon
<1>7. c \notin Below({b})
  BY <1>5, <1>6, Tree, Zenon
<1>8. InputsOf[c][j] # b
  <2> SUFFICES ASSUME InputsOf[c][j] = b PROVE FALSE
    OBVIOUS
  <2>1. c = d /\ j = nth
    BY Tree
  <2>2. i # m
    BY <2>1
  <2>3. c \in Builds /\ c \in Below(Inputs(c))
    BY <1>3, <1>6, <2>1, <2>2, Zenon
  <2> QED BY <2>3, Tree, Zenon
<1> HIDE DEF b
<1>9. ASSUME InputsOf[c][j] \in Below({b}) PROVE FALSE
  BY <1>1, <1>7, <1>8, <1>9, BelowOne, Zenon
<1> QED BY <1>9 DEF b

\* The callers of the build being prepared.
LEMMA CallersOf ==
  ASSUME NEW S, NEW s \in Seq(S), s # <<>>
  PROVE  /\ Callers(s) \in Seq(S) /\ Len(Callers(s)) = Len(s) - 1 /\ Len(s) \in Nat \ {0}
         /\ \A i \in 1 .. Len(s) - 1 : Callers(s)[i] = s[i]
         /\ s[Len(s)] \in S
<1>1. Len(s) \in Nat \ {0}
  OBVIOUS
<1>2. s[Len(s)] \in S
  BY <1>1
<1>0. Callers(s) = SubSeq(s, 1, Len(s) - 1)
  BY DEF Callers
<1>3. Callers(s) \in Seq(S)
  BY <1>1, <1>0
<1>4. Len(Callers(s)) = Len(s) - 1
  <2>1. CASE Len(s) > 1
    <3>1. Len(SubSeq(s, 1, Len(s) - 1)) = (Len(s) - 1) - 1 + 1
      BY <1>1, <2>1
    <3> QED BY <1>1, <1>0, <3>1
  <2>2. CASE Len(s) = 1
    <3>1. Callers(s) = SubSeq(s, 1, 0)
      BY <1>0, <2>2
    <3>2. Len(SubSeq(s, 1, 0)) = 0
      OBVIOUS
    <3> QED BY <2>2, <3>1, <3>2
  <2>3. Len(s) > 1 \/ Len(s) = 1
    <3>1. \A k \in Nat \ {0} : k > 1 \/ k = 1
      OBVIOUS
    <3> QED BY <1>1, <3>1, Zenon
  <2> QED BY <2>1, <2>2, <2>3, Zenon
<1>5. \A i \in 1 .. Len(s) - 1 : Callers(s)[i] = s[i]
  BY <1>1, <1>0
<1> QED BY <1>1, <1>2, <1>3, <1>4, <1>5, Zenon

-----------------------------------------------------------------------------
(* Every step keeps PipelineInv.                                            *)

\* A step that leaves the builds alone keeps what they say.
LEMMA BuildsKept ==
  ASSUME StackInv, TableInv, UNCHANGED <<stack, tables, empties, sinkOpen>>,
         ended => ended', (phase \in {"builds", "parts"})' \/ running' => phase \in {"builds", "parts"} \/ running,
         running' /\ stack # <<>> => running
  PROVE  TableInv'
<1>1. \A c, nth : Found(c, nth)' <=> Found(c, nth)
  BY DEF Found
<1>2. OnlyPendingProbesHold'
  BY Zenon DEF TableInv, OnlyPendingProbesHold, Prepared
<1>3. (running /\ stack # <<>> => Top.next > Len(InputsOf[Top.of]))'
  BY Zenon DEF TableInv, Top
<1> QED BY <1>1, <1>2, <1>3, Zenon DEF TableInv

\* A step that leaves the emitter alone keeps what it has emitted.
LEMMA RowsKept ==
  ASSUME RowsExact, UNCHANGED <<sink, matches, at, out>>
  PROVE  RowsExact'
  BY Zenon DEF RowsExact

\* A pipeline that is built.
LEMMA InitInd == ASSUME Nested, Counts, PipelineInit PROVE PipelineInv
<1>1. PipelineTypeOK
  <2>1. FlagsOK
    BY Zenon DEF PipelineInit, FlagsOK, Phases
  <2>2. BuildsOK
    BY DEF PipelineInit, BuildsOK
  <2>3. matches \in [PartIds -> SUBSET Rows] /\ marks \in Words
    BY DEF PipelineInit, Words
  <2>4. partTask \in [PartIds -> TaskStates]
    BY DEF PipelineInit, TaskStates
  <2>5. todo \in [PartIds -> SUBSET Rows]
    BY DEF PipelineInit
  <2>6. loaded \in [PartIds -> Words]
    BY DEF PipelineInit, Words
  <2>7. alone \in 0 .. PartCount /\ got \in 0 .. PartCount /\ at \in 0 .. BuildRowCount /\ out \in Seq(Rows)
    BY DEF PipelineInit, Counts
  <2> QED BY <2>1, <2>2, <2>3, <2>4, <2>5, <2>6, <2>7, Zenon DEF PipelineTypeOK, TasksOK
<1>2. StackInv
  BY DEF PipelineInit, StackInv
<1>3. TableInv
  BY DEF PipelineInit, TableInv, OnlyPendingProbesHold
<1>4. TaskInv
  BY DEF PipelineInit, TaskInv, PartInv, Counts, PartIds
<1>5. SinkInv
  <2>1. ~ended /\ ~probed /\ phase = "idle"
    BY DEF PipelineInit
  <2> QED BY <2>1, Zenon DEF SinkInv
<1>6. MarkInv
  BY DEF PipelineInit, MarkInv, MarksLive, RowsExact, Range
<1> QED BY <1>1, <1>2, <1>3, <1>4, <1>5, <1>6, Zenon DEF PipelineInv

\* The pipeline a task belongs to.
LEMMA StageRoot ==
  ASSUME Nested, PipelineTypeOK, StackInv, TaskInv, running
  PROVE  Stage = Root <=> stack = <<>>
<1>1. CASE stack # <<>>
  <2>1. Top = stack[Len(stack)] /\ Top \in Frames /\ Len(stack) \in Nat \ {0}
    BY <1>1, CallersOf DEF PipelineTypeOK, BuildsOK, Top
  <2>2. Len(stack) > 1
    BY <1>1, Zenon DEF StackInv, TaskInv
  <2> DEFINE k == Len(stack) - 1
  <2>3. k \in 1 .. Len(stack) - 1 /\ k + 1 = Len(stack)
    BY <2>1, <2>2
  <2>4. stack[k] \in Frames /\ k \in 1 .. Len(stack)
    BY <2>3 DEF PipelineTypeOK, BuildsOK
  <2> DEFINE c == stack[k].of
             nth == stack[k].next
  <2>5. c \in Stages /\ nth \in Nat \ {0} /\ nth <= Len(InputsOf[c]) /\ Top.of = InputsOf[c][nth]
    BY <2>1, <2>3, <2>4, Zenon DEF StackInv, Frames
  <2> HIDE DEF c, nth
  <2>6. Top.of \in Builds
    BY <2>5, Tree
  <2> QED BY <1>1, <2>6, Tree, Zenon DEF Stage
<1> QED BY <1>1 DEF Stage

\* A part of a pipeline that starts, or runs, finds the tables of the joins it reaches.
LEMMA RunningFinds ==
  ASSUME Nested, PipelineInv, running, ~ended
  PROVE  FindsTables
<1>0. stack = <<>> => sinkOpen
  BY DEF PipelineInv, TaskInv
<1>1. CASE stack = <<>>
  <2>1. Found(Root, Len(InputsOf[Root]) + 1)
    BY <1>0, <1>1 DEF PipelineInv, TableInv
  <2> QED BY <1>1, <2>1, Tree, SMTT(60) DEF Found, FindsTables, Stage
<1>2. CASE stack # <<>>
  <2>1. Top \in Frames /\ Top = stack[Len(stack)] /\ Len(stack) \in 1 .. Len(stack)
    BY <1>2, CallersOf DEF PipelineInv, PipelineTypeOK, BuildsOK, Top
  <2>2. Top.next > Len(InputsOf[Top.of])
    BY <1>2 DEF PipelineInv, TableInv
  <2> DEFINE c == Top.of
             nth == Top.next
  <2>3. c \in Stages /\ nth \in 1 .. Len(InputsOf[c]) + 1 /\ nth > Len(InputsOf[c])
    BY <2>1, <2>2, Tree DEF PipelineInv, StackInv, Frames
  <2>4. stack[Len(stack)] = [of |-> c, next |-> nth]
    BY <2>1 DEF Frames
  <2> HIDE DEF c, nth
  <2>5. Found(c, nth)
    BY <2>1, <2>3, <2>4, Zenon DEF PipelineInv, TableInv
  <2>6. \A j \in DOMAIN InputsOf[c] :
           (\A k \in 1 .. j - 1 : InputsOf[c][k] \notin empties) => InputsOf[c][j] \in tables
    BY <2>3, <2>5, Tree DEF Found
  <2> QED BY <1>2, <2>6, Zenon DEF c, FindsTables, Stage
<1> QED BY <1>1, <1>2

\* A task starts: the tables its probes reach are there.
LEMMA StartPartInd ==
  ASSUME Nested, Counts, PipelineInv, NEW p \in PartIds, StartPart(p)
  PROVE  PipelineInv'
<1>0. /\ running /\ ~stop /\ partTask[p] = "waiting"
      /\ partTask' = [partTask EXCEPT ![p] = IF FindsTables THEN "running" ELSE "invalid"]
      /\ todo' = [todo EXCEPT ![p] =
                    IF Stage = Root /\ Marking /\ Outermost \notin empties THEN matches[p] ELSE {}]
      /\ UNCHANGED <<sink, matches, runs, opened, sinkOpen, phase, stack, tables, empties, marks, running,
                     stop, loaded, alone, got, probed, ended, at, out>>
  BY DEF StartPart, buildVars, sinkVars
<1>1. ~ended /\ (stack = <<>> => sinkOpen)
  <2>1. p > got
    BY <1>0 DEF PipelineInv, TaskInv, PartInv, PipelineTypeOK, TasksOK, PartIds
  <2>2. got # PartCount
    BY <2>1 DEF PipelineInv, PipelineTypeOK, TasksOK, PartIds
  <2>3. ~ended
    BY <1>0, <2>2, Zenon DEF PipelineInv, SinkInv
  <2> QED BY <1>0, <2>3, Zenon DEF PipelineInv, TaskInv
<1>2. FindsTables
  BY <1>0, <1>1, RunningFinds, Zenon
<1>3. partTask' = [partTask EXCEPT ![p] = "running"]
  BY <1>0, <1>2
<1>4. PipelineTypeOK'
  <2>1. FlagsOK' /\ BuildsOK' /\ (at \in 0 .. BuildRowCount /\ out \in Seq(Rows))'
    BY <1>0, Zenon DEF PipelineInv, PipelineTypeOK, FlagsOK, BuildsOK
  <2>2. partTask' \in [PartIds -> TaskStates]
    BY <1>3, Zenon DEF PipelineInv, PipelineTypeOK, TasksOK, TaskStates
  <2>3. todo' \in [PartIds -> SUBSET Rows]
    BY <1>0, Zenon DEF PipelineInv, PipelineTypeOK, TasksOK
  <2> QED BY <1>0, <2>1, <2>2, <2>3, Zenon DEF PipelineInv, PipelineTypeOK, TasksOK
<1>5. StackInv'
  BY <1>0, Zenon DEF PipelineInv, StackInv
<1>6. TableInv'
  BY <1>0, BuildsKept, Zenon DEF PipelineInv
<1>7. TaskInv'
  <2>1. ASSUME NEW q \in PartIds PROVE PartInv(q)'
    <3>1. PartInv(q)
      BY DEF PipelineInv, TaskInv
    <3>2. CASE q # p
      BY <1>0, <1>3, <3>1, <3>2, Zenon DEF PipelineInv, PipelineTypeOK, TasksOK, PartInv, Marking
    <3>3. CASE q = p
      <4>1. partTask'[p] = "running" /\ ~(p <= got)
        BY <1>0, <1>3, <3>1, <3>3, Zenon DEF PipelineInv, PipelineTypeOK, TasksOK, PartInv
      <4>2. todo'[p] # {} => Stage = Root /\ Marking
        BY <1>0, Zenon DEF PipelineInv, PipelineTypeOK, TasksOK
      <4>3. Stage = Root => sinkOpen
        BY <1>0, <1>1, StageRoot, Zenon DEF PipelineInv
      <4> QED BY <1>0, <3>3, <4>1, <4>2, <4>3, Zenon DEF PartInv, Marking
    <3> QED BY <3>2, <3>3
  <2> QED BY <1>0, <2>1, Zenon DEF PipelineInv, TaskInv
<1>8. SinkInv'
  <2>1. phase # "sinkFailing" /\ ~ended'
    BY <1>0, <1>1, Zenon DEF PipelineInv, SinkInv
  <2> QED BY <1>0, <2>1, Zenon DEF PipelineInv, SinkInv, Marking
<1>9. MarkInv'
  <2>1. ASSUME MarksLive, NEW q \in PartIds PROVE PartMarks(q)'
    <3>1. PartMarks(q)
      BY <2>1 DEF PipelineInv, MarkInv
    <3>2. CASE q # p
      BY <1>0, <1>3, <3>1, <3>2,
         Zenon DEF PipelineInv, PipelineTypeOK, TasksOK, PartMarks, Outermost
    <3>3. CASE q = p
      <4>1. stack = <<>>
        BY <2>1, Zenon DEF MarksLive, PipelineInv, StackInv
      <4>2. Stage = Root /\ Marking
        BY <2>1, <4>1 DEF MarksLive, Stage
      <4>3. todo'[p] = IF Outermost \notin empties THEN matches[p] ELSE {}
        BY <1>0, <4>2, Zenon DEF PipelineInv, PipelineTypeOK, TasksOK
      <4> QED BY <1>0, <3>1, <3>3, <4>3 DEF PartMarks, Outermost
    <3> QED BY <3>2, <3>3
  <2>2. MarksLive' <=> MarksLive
    BY <1>0 DEF MarksLive, Marking
  <2>3. RowsExact'
    BY <1>0, RowsKept, Zenon DEF PipelineInv, MarkInv
  <2> QED BY <1>0, <2>1, <2>2, <2>3, Zenon DEF PipelineInv, MarkInv
<1> QED BY <1>4, <1>5, <1>6, <1>7, <1>8, <1>9, Zenon DEF PipelineInv

\* The next part to take is a part.
LEMMA NextPart ==
  ASSUME Counts, TasksOK
  PROVE  /\ got \in Nat /\ PartCount \in Nat /\ got <= PartCount /\ \A p \in PartIds : p \in Nat
         /\ got < PartCount => got + 1 \in PartIds
<1>1. PartCount \in Nat /\ got \in 0 .. PartCount
  BY DEF Counts, TasksOK
<1> QED BY <1>1 DEF PartIds

\* A task that runs is of a sink that has not ended, if it has anything to mark.
LEMMA Marks ==
  ASSUME PipelineInv, NEW p \in PartIds, partTask[p] = "running"
  PROVE  running /\ ~ended /\ ~probed /\ ~(p <= got) /\ (todo[p] # {} => MarksLive)
<1>1. running
  BY DEF PipelineInv, TaskInv
<1>2. ~ended /\ ~probed
  BY <1>1, Zenon DEF PipelineInv, SinkInv, Quiet
<1>3. ~(p <= got)
  BY DEF PipelineInv, TaskInv, PartInv
<1>4. todo[p] # {} => sinkOpen /\ Marking
  BY DEF PipelineInv, TaskInv, PartInv
<1> QED BY <1>1, <1>2, <1>3, <1>4 DEF MarksLive

\* Mark() loads the word.
LEMMA LoadWordInd ==
  ASSUME Nested, Counts, PipelineInv, NEW p \in PartIds, LoadWord(p)
  PROVE  PipelineInv'
<1>0. /\ partTask[p] = "running" /\ todo[p] # {}
      /\ loaded' = [loaded EXCEPT ![p] = marks]
      /\ UNCHANGED <<sink, matches, runs, opened, sinkOpen, phase, stack, tables, empties, marks,
                     running, stop, partTask, todo, alone, got, probed, ended, at, out>>
  BY DEF LoadWord, buildVars, sinkVars
<1>1. PipelineTypeOK'
  <2>1. FlagsOK' /\ BuildsOK' /\ (at \in 0 .. BuildRowCount /\ out \in Seq(Rows))'
    BY <1>0, Zenon DEF PipelineInv, PipelineTypeOK, FlagsOK, BuildsOK
  <2>2. loaded' \in [PartIds -> Words]
    BY <1>0, Zenon DEF PipelineInv, PipelineTypeOK, TasksOK
  <2> QED BY <1>0, <2>1, <2>2, Zenon DEF PipelineInv, PipelineTypeOK, TasksOK
<1>2. StackInv'
  BY <1>0, Zenon DEF PipelineInv, StackInv
<1>3. TableInv'
  BY <1>0, BuildsKept, Zenon DEF PipelineInv
<1>4. TaskInv'
  <2>1. ASSUME NEW q \in PartIds PROVE PartInv(q)'
    <3>1. PartInv(q)
      BY DEF PipelineInv, TaskInv
    <3>2. q # p => loaded'[q] = loaded[q]
      BY <1>0, Zenon DEF PipelineInv, PipelineTypeOK, TasksOK
    <3> QED BY <1>0, <3>1, <3>2, Zenon DEF PartInv, Marking
  <2> QED BY <1>0, <2>1, Zenon DEF PipelineInv, TaskInv
<1>5. SinkInv'
  BY <1>0, Zenon DEF PipelineInv, SinkInv, Marking, Quiet
<1>6. MarkInv'
  <2>1. ASSUME MarksLive, NEW q \in PartIds PROVE PartMarks(q)'
    <3>1. PartMarks(q)
      BY <2>1 DEF PipelineInv, MarkInv
    <3>2. q # p => loaded'[q] = loaded[q]
      BY <1>0, Zenon DEF PipelineInv, PipelineTypeOK, TasksOK
    <3>3. loaded'[p] = marks
      BY <1>0, Zenon DEF PipelineInv, PipelineTypeOK, TasksOK
    <3> QED BY <1>0, <3>1, <3>2, <3>3, Zenon DEF PartMarks, Outermost
  <2>2. MarksLive' <=> MarksLive
    BY <1>0 DEF MarksLive, Marking
  <2>3. RowsExact'
    BY <1>0, RowsKept, Zenon DEF PipelineInv, MarkInv
  <2> QED BY <1>0, <2>1, <2>2, <2>3, Zenon DEF PipelineInv, MarkInv
<1> QED BY <1>1, <1>2, <1>3, <1>4, <1>5, <1>6, Zenon DEF PipelineInv

\* Mark() sets its bit in what the word holds by then.
LEMMA SetMarkInd ==
  ASSUME Nested, Counts, PipelineInv, NEW p \in PartIds, SetMark(p)
  PROVE  PipelineInv'
<1>0. PICK row \in todo[p] :
        /\ partTask[p] = "running" /\ loaded[p] # NoMarks
        /\ marks' = IF row \in loaded[p] THEN marks ELSE marks \cup {row}
        /\ todo' = [todo EXCEPT ![p] = @ \ {row}]
        /\ loaded' = [loaded EXCEPT ![p] = NoMarks]
        /\ UNCHANGED <<sink, matches, runs, opened, sinkOpen, phase, stack, tables, empties, running,
                       stop, partTask, alone, got, probed, ended, at, out>>
  BY Zenon DEF SetMark, Or, sinkVars
<1>1. MarksLive
  BY <1>0, Marks, Zenon
<1>2. /\ marks \in SUBSET Rows /\ \A r \in marks : \E q \in PartIds : r \in matches[q]
      /\ \A q \in PartIds : PartMarks(q)
  BY <1>1 DEF PipelineInv, MarkInv
<1>3. row \in Rows /\ row \in matches[p] /\ loaded[p] \subseteq marks
  <2>1. todo[p] \subseteq matches[p] /\ loaded[p] \subseteq marks
    BY <1>0, <1>2, Zenon DEF PartMarks
  <2> QED BY <1>0, <2>1, Zenon DEF PipelineInv, PipelineTypeOK, TasksOK
<1>4. marks' = marks \cup {row}
  BY <1>0, <1>3, Zenon
<1>5. PipelineTypeOK'
  <2>1. FlagsOK' /\ BuildsOK' /\ (at \in 0 .. BuildRowCount /\ out \in Seq(Rows))'
    BY <1>0, Zenon DEF PipelineInv, PipelineTypeOK, FlagsOK, BuildsOK
  <2>2. marks' \in Words
    BY <1>2, <1>3, <1>4, Zenon DEF Words
  <2>3. todo' \in [PartIds -> SUBSET Rows]
    BY <1>0, Zenon DEF PipelineInv, PipelineTypeOK, TasksOK
  <2>4. loaded' \in [PartIds -> Words]
    BY <1>0, Zenon DEF PipelineInv, PipelineTypeOK, TasksOK, Words
  <2> QED BY <1>0, <2>1, <2>2, <2>3, <2>4, Zenon DEF PipelineInv, PipelineTypeOK, TasksOK
<1>6. StackInv'
  BY <1>0, Zenon DEF PipelineInv, StackInv
<1>7. TableInv'
  BY <1>0, BuildsKept, Zenon DEF PipelineInv
<1>8. \A q \in PartIds : q # p => todo'[q] = todo[q] /\ loaded'[q] = loaded[q]
  BY <1>0, Zenon DEF PipelineInv, PipelineTypeOK, TasksOK
<1>9. todo'[p] = todo[p] \ {row} /\ loaded'[p] = NoMarks
  BY <1>0, Zenon DEF PipelineInv, PipelineTypeOK, TasksOK
<1>10. TaskInv'
  <2>1. ASSUME NEW q \in PartIds PROVE PartInv(q)'
    <3>1. PartInv(q)
      BY DEF PipelineInv, TaskInv
    <3> QED BY <1>0, <1>8, <1>9, <3>1, Zenon DEF PartInv, Marking
  <2> QED BY <1>0, <2>1, Zenon DEF PipelineInv, TaskInv
<1>11. SinkInv'
  BY <1>0, Zenon DEF PipelineInv, SinkInv, Marking, Quiet
<1>12. MarkInv'
  <2>1. ASSUME NEW q \in PartIds PROVE PartMarks(q)'
    <3>1. PartMarks(q)
      BY <1>2
    <3>2. CASE q # p
      BY <1>0, <1>4, <1>8, <3>1, <3>2, Zenon DEF PartMarks, Outermost
    <3>3. CASE q = p
      BY <1>0, <1>4, <1>9, <3>1, <3>3, Zenon DEF PartMarks, Outermost
    <3> QED BY <3>2, <3>3
  <2>2. marks' \in SUBSET Rows /\ \A r \in marks' : \E q \in PartIds : r \in matches'[q]
    BY <1>0, <1>2, <1>3, <1>4, Zenon
  <2>3. RowsExact'
    BY <1>0, RowsKept, Zenon DEF PipelineInv, MarkInv
  <2> QED BY <1>0, <2>1, <2>2, <2>3, Zenon DEF PipelineInv, MarkInv
<1> QED BY <1>5, <1>6, <1>7, <1>10, <1>11, <1>12, Zenon DEF PipelineInv

\* A task returns.
LEMMA EndPartInd ==
  ASSUME Nested, Counts, PipelineInv, NEW p \in PartIds, EndPart(p)
  PROVE  PipelineInv'
<1>0. /\ partTask[p] = "running" /\ loaded[p] = NoMarks
      /\ \E end \in {"done", "failed", "oom", "oom again"} :
           partTask' = [partTask EXCEPT ![p] = end] /\ (end = "done" => todo[p] = {})
      /\ todo' = [todo EXCEPT ![p] = {}]
      /\ UNCHANGED <<sink, matches, runs, opened, sinkOpen, phase, stack, tables, empties, marks,
                     running, stop, loaded, alone, got, probed, ended, at, out>>
  <2>1. /\ partTask[p] = "running" /\ loaded[p] = NoMarks
        /\ \/ todo[p] = {} /\ partTask' = [partTask EXCEPT ![p] = "done"]
           \/ partTask' = [partTask EXCEPT ![p] = "failed"]
           \/ partTask' = [partTask EXCEPT ![p] = IF alone = p THEN "oom again" ELSE "oom"]
        /\ todo' = [todo EXCEPT ![p] = {}]
        /\ UNCHANGED <<sink, matches, runs, opened, sinkOpen, phase, stack, tables, empties, marks,
                       running, stop, loaded, alone, got, probed, ended, at, out>>
    BY Zenon DEF EndPart, buildVars, sinkVars
  <2> QED BY <2>1, Zenon
<1>1. PICK end \in {"done", "failed", "oom", "oom again"} :
        partTask' = [partTask EXCEPT ![p] = end] /\ (end = "done" => todo[p] = {})
  BY <1>0, Zenon
<1>2. running /\ ~ended /\ ~probed /\ ~(p <= got)
  BY <1>0, Marks, Zenon
<1>3. PipelineTypeOK'
  <2>1. FlagsOK' /\ BuildsOK' /\ (at \in 0 .. BuildRowCount /\ out \in Seq(Rows))'
    BY <1>0, Zenon DEF PipelineInv, PipelineTypeOK, FlagsOK, BuildsOK
  <2>2. partTask' \in [PartIds -> TaskStates]
    BY <1>1, Zenon DEF PipelineInv, PipelineTypeOK, TasksOK, TaskStates
  <2>3. todo' \in [PartIds -> SUBSET Rows]
    BY <1>0, Zenon DEF PipelineInv, PipelineTypeOK, TasksOK
  <2> QED BY <1>0, <2>1, <2>2, <2>3, Zenon DEF PipelineInv, PipelineTypeOK, TasksOK
<1>4. StackInv'
  BY <1>0, Zenon DEF PipelineInv, StackInv
<1>5. TableInv'
  BY <1>0, BuildsKept, Zenon DEF PipelineInv
<1>6. \A q \in PartIds : q # p => todo'[q] = todo[q] /\ partTask'[q] = partTask[q]
  BY <1>0, <1>1, Zenon DEF PipelineInv, PipelineTypeOK, TasksOK
<1>7. todo'[p] = {} /\ partTask'[p] = end
  BY <1>0, <1>1, Zenon DEF PipelineInv, PipelineTypeOK, TasksOK
<1>8. TaskInv'
  <2>1. ASSUME NEW q \in PartIds PROVE PartInv(q)'
    <3>1. PartInv(q)
      BY Zenon DEF PipelineInv, TaskInv
    <3>2. CASE q # p
      BY <1>0, <1>6, <3>1, <3>2, Zenon DEF PartInv, Marking
    <3>3. CASE q = p
      BY <1>0, <1>1, <1>2, <1>7, <3>3, Zenon DEF PartInv
    <3> QED BY <3>2, <3>3, Zenon
  <2> QED BY <1>0, <1>2, <2>1, Zenon DEF PipelineInv, TaskInv
<1>9. SinkInv'
  <2>1. ASSUME phase = "sinkFailing" PROVE partTask'[got + 1] \in {"failed", "oom again"}
    <3>1. partTask[got + 1] \in {"failed", "oom again"} /\ got < PartCount
      BY <2>1, Zenon DEF PipelineInv, SinkInv
    <3>2. got + 1 \in PartIds
      BY <3>1, NextPart, Zenon DEF PipelineInv, PipelineTypeOK
    <3>3. got + 1 # p
      BY <1>0, <3>1, Zenon
    <3> QED BY <1>6, <3>1, <3>2, <3>3, Zenon
  <2> QED BY <1>0, <1>2, <2>1, Zenon DEF PipelineInv, SinkInv, Marking
<1>10. MarkInv'
  <2>1. ASSUME MarksLive, NEW q \in PartIds PROVE PartMarks(q)'
    <3>1. PartMarks(q)
      BY <2>1, Zenon DEF PipelineInv, MarkInv
    <3>2. CASE q # p
      BY <1>0, <1>6, <3>1, <3>2, Zenon DEF PartMarks, Outermost
    <3>3. CASE q = p
      BY <1>0, <1>1, <1>2, <1>7, <3>1, <3>3, Zenon DEF PartMarks, Outermost
    <3> QED BY <3>2, <3>3, Zenon
  <2>2. MarksLive' <=> MarksLive
    BY <1>0, Zenon DEF MarksLive, Marking
  <2>3. RowsExact'
    BY <1>0, RowsKept, Zenon DEF PipelineInv, MarkInv
  <2> QED BY <1>0, <2>1, <2>2, <2>3, Zenon DEF PipelineInv, MarkInv
<1> QED BY <1>3, <1>4, <1>5, <1>8, <1>9, <1>10, Zenon DEF PipelineInv

-----------------------------------------------------------------------------
(* The consumer and the scheduler.                                          *)

\* A call or a return between parts, and a stop of the tasks, leave the rest.
LEMMA PhaseKept ==
  ASSUME PipelineInv, stack = <<>>,
         UNCHANGED <<sink, matches, sinkOpen, stack, tables, empties, marks, running, partTask, todo,
                     loaded, alone, got, probed, ended, at, out>>,
         opened' \in BOOLEAN, stop' \in BOOLEAN, stop => stop', stop' => running,
         phase' \in {"idle", "sink", "closing", "opening"}, phase' = "sink" => sinkOpen
  PROVE  PipelineInv'
<1>1. PipelineTypeOK'
  <2>1. FlagsOK'
    BY DEF PipelineInv, PipelineTypeOK, FlagsOK, Phases
  <2>2. BuildsOK' /\ (at \in 0 .. BuildRowCount /\ out \in Seq(Rows))'
    BY DEF PipelineInv, PipelineTypeOK, BuildsOK
  <2>3. TasksOK'
    BY Zenon DEF PipelineInv, PipelineTypeOK, TasksOK
  <2> QED BY <2>1, <2>2, <2>3, Zenon DEF PipelineTypeOK
<1>2. StackInv'
  BY DEF PipelineInv, StackInv
<1>3. TableInv'
  BY BuildsKept, Zenon DEF PipelineInv
<1>4. TaskInv'
  <2>1. ASSUME NEW q \in PartIds PROVE PartInv(q)'
    BY Zenon DEF PipelineInv, TaskInv, PartInv, Marking
  <2> QED BY <2>1, Zenon DEF PipelineInv, TaskInv
<1>5. SinkInv'
  BY Zenon DEF PipelineInv, SinkInv, Marking, Quiet
<1>6. MarkInv'
  <2>1. ASSUME MarksLive, NEW q \in PartIds PROVE PartMarks(q)'
    BY <2>1, Zenon DEF PipelineInv, MarkInv, PartMarks, Outermost
  <2>2. MarksLive' <=> MarksLive
    BY DEF MarksLive, Marking
  <2>3. RowsExact'
    BY RowsKept, Zenon DEF PipelineInv, MarkInv
  <2> QED BY <2>1, <2>2, <2>3, Zenon DEF PipelineInv, MarkInv
<1> QED BY <1>1, <1>2, <1>3, <1>4, <1>5, <1>6, Zenon DEF PipelineInv

\* Next before Open or after Close, of a sink that did not open and of one that ended; Close.
LEMMA ReturnsInd ==
  ASSUME PipelineInv, NextClosed \/ SinkNotOpened \/ AfterEnd \/ CallClose
  PROVE  PipelineInv'
<1>1. /\ phase \in {"idle", "sink"}
      /\ UNCHANGED <<sink, matches, opened, sinkOpen, stack, tables, empties, marks, running, partTask,
                     todo, loaded, alone, got, probed, ended, at, out>>
      /\ phase' \in {"idle", "closing", "opening"}
      /\ stop' = stop \/ stop' = (stop \/ running)
  BY Zenon DEF NextClosed, SinkNotOpened, AfterEnd, CallClose, Return, buildVars, taskVars, sinkVars
<1>2. stack = <<>>
  BY <1>1, Zenon DEF PipelineInv, StackInv
<1>3. opened \in BOOLEAN /\ stop \in BOOLEAN /\ running \in BOOLEAN /\ (stop => running)
  BY DEF PipelineInv, PipelineTypeOK, FlagsOK, TaskInv
<1> QED BY <1>1, <1>2, <1>3, PhaseKept

\* The first Next starts with the builds, a later one goes to the sink.
LEMMA CallNextInd ==
  ASSUME Nested, Counts, PipelineInv, CallNext
  PROVE  PipelineInv'
<1>0. /\ phase = "idle"
      /\ IF sinkOpen THEN phase' = "sink" /\ stack' = stack
                     ELSE phase' = "builds" /\ stack' = <<[of |-> Root, next |-> 1]>>
      /\ UNCHANGED <<sink, matches, opened, sinkOpen, tables, empties, marks, running, stop, partTask,
                     todo, loaded, alone, got, probed, ended, at, out>>
  BY DEF CallNext, taskVars, sinkVars
<1>1. stack = <<>>
  BY <1>0, Zenon DEF PipelineInv, StackInv
<1>2. CASE sinkOpen
  <2>1. opened \in BOOLEAN /\ stop \in BOOLEAN /\ (stop => running)
    BY DEF PipelineInv, PipelineTypeOK, FlagsOK, TaskInv
  <2> QED BY <1>0, <1>1, <1>2, <2>1, PhaseKept, Zenon
<1>3. CASE ~sinkOpen
  <2>0. phase' = "builds" /\ stack' = <<[of |-> Root, next |-> 1]>>
    BY <1>0, <1>3, Zenon
  <2>1. ~running /\ ~probed /\ ~ended /\ ~stop
    BY <1>1, <1>3, Zenon DEF PipelineInv, TaskInv, SinkInv
  <2>2. PipelineTypeOK'
    <3>1. FlagsOK'
      BY <1>0, <2>0, Zenon DEF PipelineInv, PipelineTypeOK, FlagsOK, Phases
    <3>2. BuildsOK'
      BY <1>0, <2>0, Tree DEF PipelineInv, PipelineTypeOK, BuildsOK, Frames
    <3>3. TasksOK' /\ (at \in 0 .. BuildRowCount /\ out \in Seq(Rows))'
      BY <1>0, Zenon DEF PipelineInv, PipelineTypeOK, TasksOK
    <3> QED BY <3>1, <3>2, <3>3 DEF PipelineTypeOK
  <2>3. Len(stack') = 1 /\ stack'[1] = [of |-> Root, next |-> 1] /\ stack' # <<>>
    BY <2>0
  <2>4. StackInv'
    <3>1. Len(InputsOf[Root]) \in Nat
      BY Tree
    <3> QED BY <1>0, <1>3, <2>0, <2>3, <3>1 DEF StackInv
  <2>5. TableInv'
    <3>1. tables = {}
      BY <1>1, <1>3 DEF PipelineInv, TableInv, OnlyPendingProbesHold, Range
    <3>2. OnlyPendingProbesHold'
      BY <1>0, <3>1, Zenon DEF OnlyPendingProbesHold
    <3>3. \A c \in Stages : \A nth \in 1 .. Len(InputsOf[c]) + 1 :
            stack'[1] = [of |-> c, next |-> nth] => Found(c, nth)'
      BY <2>3 DEF Found
    <3> QED BY <1>0, <1>3, <2>1, <2>3, <3>2, <3>3 DEF TableInv
  <2>6. TaskInv'
    <3>1. ASSUME NEW q \in PartIds PROVE PartInv(q)'
      BY <1>0, Zenon DEF PipelineInv, TaskInv, PartInv, Marking
    <3> QED BY <1>0, <2>0, <2>1, <3>1, Zenon DEF PipelineInv, TaskInv
  <2>7. SinkInv'
    BY <1>0, <2>0, <2>1, Zenon DEF SinkInv
  <2>8. MarkInv'
    <3>1. RowsExact'
      BY <1>0, RowsKept, Zenon DEF PipelineInv, MarkInv
    <3> QED BY <1>0, <1>3, <3>1, Zenon DEF PipelineInv, MarkInv, MarksLive
  <2> QED BY <2>2, <2>4, <2>5, <2>6, <2>7, <2>8, Zenon DEF PipelineInv
<1> QED BY <1>2, <1>3

\* The consumer takes a part.
LEMMA TakePartInd ==
  ASSUME Nested, Counts, PipelineInv, TakePart
  PROVE  PipelineInv'
<1>0. /\ phase \in {"parts", "sink"} /\ running /\ ~stop /\ got < PartCount /\ partTask[got + 1] = "done"
      /\ got' = got + 1 /\ alone' = 0
      /\ phase' = phase \/ (phase = "sink" /\ phase' = "idle")
      /\ UNCHANGED <<sink, matches, opened, sinkOpen, stack, tables, empties, marks, running, stop,
                     partTask, todo, loaded, probed, ended, at, out>>
  BY DEF TakePart, Return, buildVars, sinkVars
<1>1. ~ended /\ ~probed
  <2>1. got # PartCount
    BY <1>0 DEF PipelineInv, PipelineTypeOK, TasksOK
  <2> QED BY <1>0, <2>1, Zenon DEF PipelineInv, SinkInv
<1>2. PipelineTypeOK'
  <2>1. FlagsOK'
    BY <1>0, Zenon DEF PipelineInv, PipelineTypeOK, FlagsOK, Phases
  <2>2. BuildsOK' /\ (at \in 0 .. BuildRowCount /\ out \in Seq(Rows))'
    BY <1>0, Zenon DEF PipelineInv, PipelineTypeOK, BuildsOK
  <2>3. got' \in 0 .. PartCount /\ alone' \in 0 .. PartCount
    <3>1. got \in Nat /\ PartCount \in Nat
      BY NextPart, Zenon DEF PipelineInv, PipelineTypeOK
    <3> QED BY <1>0, <3>1
  <2> QED BY <1>0, <2>1, <2>2, <2>3, Zenon DEF PipelineInv, PipelineTypeOK, TasksOK
<1>3. StackInv'
  BY <1>0 DEF PipelineInv, StackInv
<1>4. TableInv'
  BY <1>0, BuildsKept, Zenon DEF PipelineInv
<1>5. TaskInv'
  <2>1. ASSUME NEW q \in PartIds PROVE PartInv(q)'
    <3>1. PartInv(q)
      BY DEF PipelineInv, TaskInv
    <3>2. q <= got + 1 => q <= got \/ q = got + 1
      <4>1. q \in Nat /\ got \in Nat
        BY NextPart DEF PipelineInv, PipelineTypeOK
      <4> QED BY <4>1
    <3> QED BY <1>0, <3>1, <3>2, Zenon DEF PartInv, Marking
  <2> QED BY <1>0, <2>1, Zenon DEF PipelineInv, TaskInv
<1>6. SinkInv'
  BY <1>0, <1>1, Zenon DEF PipelineInv, SinkInv, Marking, Quiet
<1>7. MarkInv'
  <2>1. ASSUME MarksLive, NEW q \in PartIds PROVE PartMarks(q)'
    BY <1>0, <2>1, Zenon DEF PipelineInv, MarkInv, PartMarks, Outermost
  <2>2. MarksLive' <=> MarksLive
    BY <1>0 DEF MarksLive, Marking
  <2>3. RowsExact'
    BY <1>0, RowsKept, Zenon DEF PipelineInv, MarkInv
  <2> QED BY <1>0, <2>1, <2>2, <2>3, Zenon DEF PipelineInv, MarkInv
<1> QED BY <1>2, <1>3, <1>4, <1>5, <1>6, <1>7, Zenon DEF PipelineInv

\* Tasks that are told to stop: a part ran out of memory, or failed.
LEMMA StopInd ==
  ASSUME Nested, Counts, PipelineInv, DropAhead \/ BuildFails \/ SinkPartFails
  PROVE  PipelineInv'
<1>0. /\ \/ phase \in {"parts", "sink"} /\ phase' = phase
         \/ phase = "parts" /\ phase' = "failing"
         \/ phase = "sink" /\ phase' = "sinkFailing" /\ partTask[got + 1] \in {"failed", "invalid", "oom again"}
      /\ stop' = TRUE
      /\ phase = "sink" => running /\ ~stop /\ got < PartCount
      /\ UNCHANGED <<sink, matches, opened, sinkOpen, stack, tables, empties, marks, running, partTask,
                     todo, loaded, alone, got, probed, ended, at, out>>
  BY Zenon DEF DropAhead, BuildFails, SinkPartFails, buildVars, sinkVars
<1>1. running
  BY <1>0, Zenon DEF PipelineInv, TaskInv
<1>2. ~ended
  <2>1. phase = "parts" => ~sinkOpen
    BY Zenon DEF PipelineInv, StackInv
  <2>2. got < PartCount => got # PartCount
    BY NextPart DEF PipelineInv, PipelineTypeOK
  <2> QED BY <1>0, <1>1, <2>1, <2>2, Zenon DEF PipelineInv, SinkInv
<1>3. PipelineTypeOK'
  <2>1. FlagsOK'
    BY <1>0, Zenon DEF PipelineInv, PipelineTypeOK, FlagsOK, Phases
  <2>2. BuildsOK' /\ (at \in 0 .. BuildRowCount /\ out \in Seq(Rows))'
    BY <1>0, Zenon DEF PipelineInv, PipelineTypeOK, BuildsOK
  <2>3. TasksOK'
    BY <1>0, Zenon DEF PipelineInv, PipelineTypeOK, TasksOK
  <2> QED BY <2>1, <2>2, <2>3 DEF PipelineTypeOK
<1>4. StackInv'
  <2>1. /\ phase' \in {"builds", "parts", "failing"} <=> phase \in {"builds", "parts", "failing"}
        /\ phase' \in {"parts", "failing"} => phase \in {"parts", "failing"}
    BY <1>0, Zenon
  <2> QED BY <1>0, <2>1, Zenon DEF PipelineInv, StackInv
<1>5. TableInv'
  BY <1>0, BuildsKept, Zenon DEF PipelineInv
<1>6. TaskInv'
  <2>1. ASSUME NEW q \in PartIds PROVE PartInv(q)'
    BY <1>0, Zenon DEF PipelineInv, TaskInv, PartInv, Marking
  <2> QED BY <1>0, <1>1, <2>1, Zenon DEF PipelineInv, TaskInv
<1>7. SinkInv'
  <2>1. ASSUME phase' = "sinkFailing" PROVE partTask[got + 1] \in {"failed", "oom again"}
    <3>1. got + 1 \in PartIds
      BY <1>0, <2>1, NextPart, Zenon DEF PipelineInv, PipelineTypeOK
    <3>2. partTask[got + 1] # "invalid"
      BY <3>1 DEF PipelineInv, TaskInv, PartInv
    <3> QED BY <1>0, <2>1, <3>2, Zenon
  <2> QED BY <1>0, <1>1, <1>2, <2>1, Zenon DEF PipelineInv, SinkInv, Marking
<1>8. MarkInv'
  <2>1. ASSUME MarksLive, NEW q \in PartIds PROVE PartMarks(q)'
    BY <1>0, <2>1, Zenon DEF PipelineInv, MarkInv, PartMarks, Outermost
  <2>2. MarksLive' <=> MarksLive
    BY <1>0, Zenon DEF MarksLive, Marking
  <2>3. RowsExact'
    BY <1>0, RowsKept, Zenon DEF PipelineInv, MarkInv
  <2> QED BY <1>0, <2>1, <2>2, <2>3, Zenon DEF PipelineInv, MarkInv
<1> QED BY <1>3, <1>4, <1>5, <1>6, <1>7, <1>8, Zenon DEF PipelineInv

\* The part that ran out of memory runs again alone.
LEMMA RetryPartInd ==
  ASSUME Nested, Counts, PipelineInv, RetryPart
  PROVE  PipelineInv'
<1>0. /\ phase \in {"parts", "sink"} /\ stop /\ Quiet /\ got < PartCount /\ partTask[got + 1] = "oom"
      /\ partTask' = [p \in PartIds |-> IF p > got THEN "waiting" ELSE partTask[p]]
      /\ alone' = got + 1 /\ stop' = FALSE
      /\ UNCHANGED <<sink, matches, opened, sinkOpen, phase, stack, tables, empties, marks, running,
                     todo, loaded, got, probed, ended, at, out>>
  BY DEF RetryPart, buildVars, sinkVars
<1>1. running
  BY <1>0, Zenon DEF PipelineInv, TaskInv
<1>2. ~ended /\ ~probed
  BY <1>0, <1>1, Zenon DEF PipelineInv, SinkInv
<1>3. \A q \in PartIds : partTask'[q] = (IF q > got THEN "waiting" ELSE partTask[q])
  BY <1>0
<1>4. PipelineTypeOK'
  <2>1. FlagsOK'
    BY <1>0, Zenon DEF PipelineInv, PipelineTypeOK, FlagsOK
  <2>2. BuildsOK' /\ (at \in 0 .. BuildRowCount /\ out \in Seq(Rows))'
    BY <1>0, Zenon DEF PipelineInv, PipelineTypeOK, BuildsOK
  <2>3. alone' \in 0 .. PartCount
    <3>1. got \in Nat /\ PartCount \in Nat
      BY NextPart DEF PipelineInv, PipelineTypeOK
    <3> QED BY <1>0, <3>1
  <2>4. partTask' \in [PartIds -> TaskStates]
    BY <1>0, Zenon DEF PipelineInv, PipelineTypeOK, TasksOK, TaskStates
  <2> QED BY <1>0, <2>1, <2>2, <2>3, <2>4, Zenon DEF PipelineInv, PipelineTypeOK, TasksOK
<1>5. StackInv'
  BY <1>0 DEF PipelineInv, StackInv
<1>6. TableInv'
  BY <1>0, BuildsKept, Zenon DEF PipelineInv
<1>7. TaskInv'
  <2>1. ASSUME NEW q \in PartIds PROVE PartInv(q)'
    <3>1. PartInv(q) /\ partTask[q] # "running"
      BY <1>0, Zenon DEF PipelineInv, TaskInv, Quiet
    <3>2. q <= got => ~(q > got)
      <4>1. q \in Nat /\ got \in Nat
        BY NextPart DEF PipelineInv, PipelineTypeOK
      <4> QED BY <4>1
    <3> QED BY <1>0, <1>3, <3>1, <3>2, Zenon DEF PartInv, Marking
  <2> QED BY <1>0, <1>1, <2>1, Zenon DEF PipelineInv, TaskInv
<1>8. SinkInv'
  BY <1>0, <1>2, Zenon DEF PipelineInv, SinkInv, Marking
<1>9. MarkInv'
  <2>1. ASSUME MarksLive, NEW q \in PartIds PROVE PartMarks(q)'
    <3>1. PartMarks(q)
      BY <2>1 DEF PipelineInv, MarkInv
    <3>2. partTask'[q] \in {"running", "done"} => partTask[q] \in {"running", "done"}
      BY <1>3
    <3> QED BY <1>0, <3>1, <3>2, Zenon DEF PartMarks, Outermost
  <2>2. MarksLive' <=> MarksLive
    BY <1>0 DEF MarksLive, Marking
  <2>3. RowsExact'
    BY <1>0, RowsKept, Zenon DEF PipelineInv, MarkInv
  <2> QED BY <1>0, <2>1, <2>2, <2>3, Zenon DEF PipelineInv, MarkInv
<1> QED BY <1>4, <1>5, <1>6, <1>7, <1>8, <1>9, Zenon DEF PipelineInv

\* The sink's failure is returned once its tasks have ended.
LEMMA SinkFailsInd ==
  ASSUME Nested, Counts, PipelineInv, SinkFails
  PROVE  PipelineInv'
<1>0. /\ phase = "sinkFailing" /\ Quiet
      /\ ended' = TRUE /\ phase' = "idle"
      /\ UNCHANGED <<sink, matches, opened, sinkOpen, stack, tables, empties, marks, running, stop,
                     partTask, todo, loaded, alone, got, probed, at, out>>
  BY DEF SinkFails, Return, buildVars, taskVars
<1>1. PipelineTypeOK'
  <2>1. FlagsOK'
    BY <1>0, Zenon DEF PipelineInv, PipelineTypeOK, FlagsOK, Phases
  <2>2. BuildsOK' /\ (at \in 0 .. BuildRowCount /\ out \in Seq(Rows))'
    BY <1>0 DEF PipelineInv, PipelineTypeOK, BuildsOK
  <2>3. TasksOK'
    BY <1>0, Zenon DEF PipelineInv, PipelineTypeOK, TasksOK
  <2> QED BY <2>1, <2>2, <2>3 DEF PipelineTypeOK
<1>2. StackInv'
  BY <1>0 DEF PipelineInv, StackInv
<1>3. TableInv'
  BY <1>0, BuildsKept, Zenon DEF PipelineInv
<1>4. TaskInv'
  <2>1. ASSUME NEW q \in PartIds PROVE PartInv(q)'
    BY <1>0, Zenon DEF PipelineInv, TaskInv, PartInv, Marking
  <2> QED BY <1>0, <2>1, Zenon DEF PipelineInv, TaskInv
<1>5. SinkInv'
  BY <1>0, Zenon DEF PipelineInv, SinkInv, Marking, Quiet
<1>6. MarkInv'
  <2>1. RowsExact'
    BY <1>0, RowsKept, Zenon DEF PipelineInv, MarkInv
  <2> QED BY <1>0, <2>1, Zenon DEF PipelineInv, MarkInv, MarksLive
<1> QED BY <1>1, <1>2, <1>3, <1>4, <1>5, <1>6, Zenon DEF PipelineInv

\* The tasks of a new scheduler, and when there is none.
LEMMA FreshTasks ==
  ASSUME Counts, NewTasks \/ NoTasks
  PROVE  /\ stop' = FALSE /\ alone' \in 0 .. PartCount /\ got' \in 0 .. PartCount
         /\ partTask' \in [PartIds -> TaskStates] /\ todo' \in [PartIds -> SUBSET Rows]
         /\ loaded' \in [PartIds -> Words]
         /\ \A p \in PartIds : /\ partTask'[p] = "waiting" /\ todo'[p] = {} /\ loaded'[p] = NoMarks
                             /\ PartInv(p)'
<1>1. /\ stop' = FALSE /\ alone' = 0 /\ got' = 0
      /\ partTask' = [p \in PartIds |-> "waiting"]
      /\ todo' = [p \in PartIds |-> {}]
      /\ loaded' = [p \in PartIds |-> NoMarks]
  BY DEF NewTasks, NoTasks
<1>2. partTask' \in [PartIds -> TaskStates] /\ todo' \in [PartIds -> SUBSET Rows] /\ loaded' \in [PartIds -> Words]
  BY <1>1 DEF TaskStates, Words
<1>3. alone' \in 0 .. PartCount /\ got' \in 0 .. PartCount
  BY <1>1 DEF Counts
<1>4. ASSUME NEW p \in PartIds PROVE ~(p <= got')
  BY <1>1 DEF PartIds, Counts
<1>5. ASSUME NEW p \in PartIds PROVE PartInv(p)'
  BY <1>1, <1>4 DEF PartInv
<1> QED BY <1>1, <1>2, <1>3, <1>5, Zenon

\* The last build being prepared.
LEMMA TopOf ==
  ASSUME Nested, PipelineInv, stack # <<>>
  PROVE  /\ Len(stack) \in Nat \ {0} /\ Len(stack) \in 1 .. Len(stack)
         /\ Top = stack[Len(stack)] /\ Top \in Frames /\ Top.of \in Stages /\ Top.next \in Nat \ {0}
         /\ Top = [of |-> Top.of, next |-> Top.next]
         /\ Top.next <= Len(InputsOf[Top.of]) + 1 /\ Len(InputsOf[Top.of]) \in Nat
         /\ Top.of = Root <=> Len(stack) = 1
         /\ Len(stack) > 1 \/ Len(stack) = 1
<1>1. stack \in Seq(Frames)
  BY DEF PipelineInv, PipelineTypeOK, BuildsOK
<1>2. /\ Len(stack) \in Nat \ {0} /\ Len(stack) \in 1 .. Len(stack)
      /\ Len(stack) > 1 \/ Len(stack) = 1
  <2>1. Len(stack) \in Nat \ {0}
    BY <1>1
  <2>2. \A nth \in Nat \ {0} : nth \in 1 .. nth /\ (nth > 1 \/ nth = 1)
    OBVIOUS
  <2> QED BY <2>1, <2>2, Zenon
<1>3. Top = stack[Len(stack)] /\ Top \in Frames
  BY <1>1, <1>2 DEF Top
<1>4. Top.of \in Stages /\ Top.next \in Nat \ {0} /\ Top = [of |-> Top.of, next |-> Top.next]
  BY <1>3 DEF Frames
<1>5. Top.next <= Len(InputsOf[Top.of]) + 1
  BY <1>2, <1>3, Zenon DEF PipelineInv, StackInv
<1>6. Len(InputsOf[Top.of]) \in Nat
  BY <1>4, Tree, Zenon
<1>7. Len(stack) = 1 => Top.of = Root
  BY <1>3, Zenon DEF PipelineInv, StackInv
<1>8. ASSUME Len(stack) # 1 PROVE Top.of # Root
  <2>1. 1 \in 1 .. Len(stack) /\ 1 < Len(stack)
    <3>1. \A nth \in Nat \ {0} : nth > 1 => 1 \in 1 .. nth /\ 1 < nth
      OBVIOUS
    <3> QED BY <1>2, <1>8, <3>1, Zenon
  <2>2. stack[1].of = Root /\ Root \in Stages
    BY Tree, Zenon DEF PipelineInv, StackInv
  <2>3. Top.of \in Below(Inputs(Root))
    BY <1>2, <1>3, <1>4, <2>1, <2>2, Zenon DEF PipelineInv, StackInv
  <2> QED BY <2>3, Tree, Zenon DEF Below
<1> QED BY <1>2, <1>3, <1>4, <1>5, <1>6, <1>7, <1>8, Zenon

\* A build's parts start.
LEMMA BuildPartsInd ==
  ASSUME Nested, Counts, PipelineInv, BuildParts
  PROVE  PipelineInv'
<1>0. /\ phase = "builds" /\ Top.next > Len(InputsOf[Top.of]) /\ Top.of # Root
      /\ phase' = "parts" /\ running' = TRUE
      /\ UNCHANGED <<sink, matches, opened, sinkOpen, stack, tables, empties, marks, probed, ended,
                     at, out>>
  BY DEF BuildParts, NewTasks, buildVars, sinkVars
<1>1. NewTasks
  BY DEF BuildParts
<1>2. stack # <<>> /\ ~sinkOpen /\ ~ended /\ ~probed
  BY <1>0, Zenon DEF PipelineInv, StackInv, SinkInv
<1>3. PipelineTypeOK'
  <2>1. FlagsOK'
    BY <1>0, <1>1, FreshTasks, Zenon DEF PipelineInv, PipelineTypeOK, FlagsOK, Phases
  <2>2. BuildsOK' /\ (at \in 0 .. BuildRowCount /\ out \in Seq(Rows))'
    BY <1>0 DEF PipelineInv, PipelineTypeOK, BuildsOK
  <2>3. TasksOK'
    BY <1>0, <1>1, FreshTasks, Zenon DEF PipelineInv, PipelineTypeOK, TasksOK
  <2> QED BY <2>1, <2>2, <2>3 DEF PipelineTypeOK
<1>4. StackInv'
  <2>1. Len(stack) > 1
    BY <1>0, <1>2, TopOf, Zenon
  <2> QED BY <1>0, <2>1, Zenon DEF PipelineInv, StackInv
<1>5. TableInv'
  <2>1. \A c, nth : Found(c, nth)' <=> Found(c, nth)
    BY <1>0 DEF Found
  <2>2. OnlyPendingProbesHold'
    BY <1>0, Zenon DEF PipelineInv, TableInv, OnlyPendingProbesHold, Prepared
  <2>3. (Top.next > Len(InputsOf[Top.of]))'
    BY <1>0 DEF Top
  <2> QED BY <1>0, <1>2, <2>1, <2>2, <2>3, Zenon DEF PipelineInv, TableInv
<1>6. TaskInv'
  BY <1>0, <1>1, <1>2, FreshTasks, Zenon DEF TaskInv
<1>7. SinkInv'
  BY <1>0, <1>2, Zenon DEF SinkInv
<1>8. MarkInv'
  <2>1. RowsExact'
    BY <1>0, RowsKept, Zenon DEF PipelineInv, MarkInv
  <2> QED BY <1>0, <1>2, <2>1, Zenon DEF PipelineInv, MarkInv, MarksLive
<1> QED BY <1>3, <1>4, <1>5, <1>6, <1>7, <1>8, Zenon DEF PipelineInv

\* The sink opens over the builds of its pipeline, all prepared.
LEMMA OpenSinkInd ==
  ASSUME Nested, Counts, PipelineInv, OpenSink
  PROVE  PipelineInv'
<1>0. /\ phase = "builds" /\ Top.of = Root /\ Top.next > Len(InputsOf[Root])
      /\ sinkOpen' = TRUE /\ stack' = <<>>
      /\ \/ marks' = (IF Marking THEN {} ELSE marks) /\ NewTasks /\ phase' = "sink"
         \/ phase' = "idle"
            /\ UNCHANGED <<marks, running, stop, partTask, todo, loaded, alone, got>>
      /\ UNCHANGED <<sink, matches, opened, tables, empties, probed, ended, at, out>>
  BY DEF OpenSink, Return, taskVars, sinkVars
<1>1. stack # <<>> /\ ~sinkOpen /\ ~ended /\ ~probed /\ ~running /\ ~stop
  BY <1>0, Zenon DEF PipelineInv, StackInv, SinkInv, TaskInv
<1>2. PipelineTypeOK'
  <2>1. FlagsOK'
    BY <1>0, <1>1, FreshTasks, Zenon DEF PipelineInv, PipelineTypeOK, FlagsOK, Phases, NewTasks
  <2>2. BuildsOK' /\ (at \in 0 .. BuildRowCount /\ out \in Seq(Rows))'
    BY <1>0 DEF PipelineInv, PipelineTypeOK, BuildsOK
  <2>3. TasksOK'
    <3>1. marks' \in Words /\ matches' \in [PartIds -> SUBSET Rows]
      BY <1>0, Zenon DEF PipelineInv, PipelineTypeOK, TasksOK, Words
    <3>2. CASE NewTasks
      BY <3>1, <3>2, FreshTasks, Zenon DEF TasksOK
    <3>3. CASE UNCHANGED <<marks, running, stop, partTask, todo, loaded, alone, got>>
      BY <3>1, <3>3, Zenon DEF PipelineInv, PipelineTypeOK, TasksOK
    <3> QED BY <1>0, <3>2, <3>3, Zenon
  <2> QED BY <2>1, <2>2, <2>3 DEF PipelineTypeOK
<1>3. StackInv'
  BY <1>0 DEF StackInv
<1>4. TableInv'
  <2>1. Len(stack) = 1 /\ stack[1] = Top /\ Top.next \in 1 .. Len(InputsOf[Root]) + 1
        /\ Top.next = Len(InputsOf[Root]) + 1 /\ Top = [of |-> Root, next |-> Top.next]
    <3>1. /\ Len(stack) = 1 /\ stack[1] = Top /\ Top = [of |-> Root, next |-> Top.next]
          /\ Top.next \in Nat \ {0} /\ Len(InputsOf[Root]) \in Nat
          /\ Top.next <= Len(InputsOf[Root]) + 1 /\ Top.next > Len(InputsOf[Root])
      BY <1>0, <1>1, TopOf, Zenon
    <3>2. \A m \in Nat \ {0}, nth \in Nat :
            m <= nth + 1 /\ m > nth => m = nth + 1 /\ m \in 1 .. nth + 1
      OBVIOUS
    <3> QED BY <3>1, <3>2, Zenon
  <2>2. \A nth \in 1 .. Len(InputsOf[Root]) + 1 :
          stack[1] = [of |-> Root, next |-> nth] => Found(Root, nth)
    BY <1>0, <2>1, Tree DEF PipelineInv, TableInv
  <2>3. Found(Root, Len(InputsOf[Root]) + 1)
    BY <2>1, <2>2, Zenon
  <2>4. Found(Root, Len(InputsOf[Root]) + 1)'
    BY <1>0, <2>3, Zenon DEF Found
  <2>5. OnlyPendingProbesHold'
    <3>1. DOMAIN stack = 1 .. Len(stack)
      BY DEF PipelineInv, PipelineTypeOK, BuildsOK
    <3>2. \A f \in Range(stack) : f = Top
      BY <2>1, <3>1 DEF Range
    <3>3. Prepared(Top) \subseteq Range(InputsOf[Root])
      BY <1>0, Zenon DEF Prepared, Range
    <3>4. tables \subseteq UNION {Prepared(f) : f \in Range(stack)}
      BY <1>1, Zenon DEF PipelineInv, TableInv, OnlyPendingProbesHold
    <3>5. tables \subseteq Range(InputsOf[Root])
      BY <3>2, <3>3, <3>4, Zenon
    <3> QED BY <1>0, <3>5, Zenon DEF OnlyPendingProbesHold
  <2> QED BY <1>0, <2>4, <2>5 DEF TableInv
<1>5. TaskInv'
  <2>1. CASE NewTasks /\ phase' = "sink"
    BY <1>0, <2>1, FreshTasks, Zenon DEF TaskInv, NewTasks
  <2>2. CASE phase' = "idle" /\ UNCHANGED <<marks, running, stop, partTask, todo, loaded, alone, got>>
    <3>1. ASSUME NEW q \in PartIds PROVE PartInv(q)'
      BY <1>0, <1>1, <2>2, Zenon DEF PipelineInv, TaskInv, PartInv, Marking
    <3> QED BY <1>0, <1>1, <2>2, <3>1, Zenon DEF PipelineInv, TaskInv
  <2> QED BY <1>0, <2>1, <2>2, Zenon
<1>6. SinkInv'
  BY <1>0, <1>1, Zenon DEF SinkInv
<1>7. MarkInv'
  <2>1. RowsExact'
    BY <1>0, RowsKept, Zenon DEF PipelineInv, MarkInv
  <2>2. CASE NewTasks /\ marks' = (IF Marking THEN {} ELSE marks)
    <3>1. ASSUME NEW q \in PartIds PROVE PartMarks(q)'
      BY <1>0, <1>1, <2>2, FreshTasks, Zenon DEF PartMarks
    <3> QED BY <1>0, <1>1, <2>1, <2>2, <3>1, Zenon DEF PipelineInv, MarkInv, MarksLive, Marking
  <2>3. CASE UNCHANGED <<marks, running, stop, partTask, todo, loaded, alone, got>>
    BY <1>0, <1>1, <2>1, <2>3, Zenon DEF PipelineInv, MarkInv, MarksLive
  <2> QED BY <1>0, <2>2, <2>3, Zenon
<1> QED BY <1>2, <1>3, <1>4, <1>5, <1>6, <1>7, Zenon DEF PipelineInv

-----------------------------------------------------------------------------
(* The end of the sink, and Close.                                          *)

\* ReleaseBuilds only lets go.
LEMMA Releases ==
  ASSUME PipelineTypeOK, NEW bs, ReleaseBuilds(bs)
  PROVE  tables' \subseteq tables /\ empties' \subseteq Builds /\ marks' \in Words
<1>1. marks' = marks \/ marks' = NoMarks
  BY DEF ReleaseBuilds
<1>2. marks' \in Words
  BY <1>1 DEF PipelineTypeOK, TasksOK, Words
<1> QED BY <1>2 DEF ReleaseBuilds, PipelineTypeOK, BuildsOK

\* A sink whose parts are all in, or that has failed, ends.
LEMMA EndKept ==
  ASSUME PipelineInv, sinkOpen, Quiet, stack = <<>>, ended \/ ~running \/ got = PartCount,
         tables' \subseteq tables, empties' \subseteq Builds, marks' \in Words,
         ended' = TRUE, phase' = "idle",
         UNCHANGED <<sink, matches, opened, sinkOpen, stack, running, stop, partTask, todo, loaded,
                     alone, got, probed, at, out>>
  PROVE  PipelineInv'
<1>1. PipelineTypeOK'
  <2>1. FlagsOK'
    BY DEF PipelineInv, PipelineTypeOK, FlagsOK, Phases
  <2>2. BuildsOK' /\ (at \in 0 .. BuildRowCount /\ out \in Seq(Rows))'
    BY DEF PipelineInv, PipelineTypeOK, BuildsOK
  <2>3. TasksOK'
    BY Zenon DEF PipelineInv, PipelineTypeOK, TasksOK
  <2> QED BY <2>1, <2>2, <2>3, Zenon DEF PipelineTypeOK
<1>2. StackInv'
  BY DEF PipelineInv, StackInv
<1>3. TableInv'
  <2>1. OnlyPendingProbesHold'
    BY Zenon DEF PipelineInv, TableInv, OnlyPendingProbesHold
  <2> QED BY <2>1 DEF TableInv
<1>4. TaskInv'
  <2>1. ASSUME NEW q \in PartIds PROVE PartInv(q)'
    BY Zenon DEF PipelineInv, TaskInv, PartInv, Marking
  <2> QED BY <2>1, Zenon DEF PipelineInv, TaskInv
<1>5. SinkInv'
  <2>1. ~ended /\ running => got = PartCount
    OBVIOUS
  <2>2. got = PartCount => ~(got < PartCount)
    BY DEF PipelineInv, PipelineTypeOK, TasksOK
  <2> QED BY <2>1, <2>2, Zenon DEF PipelineInv, SinkInv, Marking, Quiet
<1>6. MarkInv'
  <2>1. RowsExact'
    BY RowsKept, Zenon DEF PipelineInv, MarkInv
  <2> QED BY <2>1, Zenon DEF PipelineInv, MarkInv, MarksLive
<1> QED BY <1>1, <1>2, <1>3, <1>4, <1>5, <1>6, Zenon DEF PipelineInv

\* When the last part is taken every task is done.
LEMMA AllDone ==
  ASSUME Counts, PipelineInv, got = PartCount
  PROVE  \A p \in PartIds : partTask[p] = "done" /\ todo[p] = {}
<1>1. ASSUME NEW p \in PartIds PROVE p <= got
  BY DEF PartIds, Counts
<1> QED BY <1>1 DEF PipelineInv, TaskInv, PartInv

\* Every part of a PartUnionOperator is in.
LEMMA UnionDoneInd ==
  ASSUME Nested, Counts, PipelineInv, UnionDone
  PROVE  PipelineInv'
<1>0. /\ phase = "sink" /\ running /\ (ended \/ got = PartCount)
      /\ (tables' = tables /\ empties' = empties /\ marks' = marks) \/ ReleaseBuilds(Range(InputsOf[Root]))
      /\ ended' = TRUE /\ phase' = "idle"
      /\ UNCHANGED <<sink, matches, opened, sinkOpen, stack, running, stop, partTask, todo, loaded,
                     alone, got, probed, at, out>>
  BY DEF UnionDone, PartsIn, Return, taskVars
<1>1. stack = <<>> /\ sinkOpen
  BY <1>0, Zenon DEF PipelineInv, StackInv, SinkInv
<1>2. Quiet
  <2>1. CASE ended
    BY <2>1, Zenon DEF PipelineInv, SinkInv
  <2>2. CASE got = PartCount
    BY <2>2, AllDone DEF Quiet
  <2> QED BY <1>0, <2>1, <2>2, Zenon
<1>3. tables' \subseteq tables /\ empties' \subseteq Builds /\ marks' \in Words
  <2>1. empties \subseteq Builds /\ marks \in Words
    BY DEF PipelineInv, PipelineTypeOK, BuildsOK, TasksOK
  <2> QED BY <1>0, <2>1, Releases, Zenon DEF PipelineInv
<1> QED BY <1>0, <1>1, <1>2, <1>3, EndKept, Zenon

\* What the emitter reads is there.
LEMMA EmitterHolds ==
  ASSUME Nested, Counts, PipelineInv, probed, ~ended
  PROVE  Outermost \in tables /\ marks # NoMarks /\ sinkOpen /\ ~running
<1>1. sinkOpen /\ Marking /\ ~running
  BY Zenon DEF PipelineInv, SinkInv
<1>2. Found(Root, Len(InputsOf[Root]) + 1)
  BY <1>1, Zenon DEF PipelineInv, TableInv
<1>3. 1 \in 1 .. Len(InputsOf[Root]) /\ 1 < Len(InputsOf[Root]) + 1
  <2>1. Len(InputsOf[Root]) \in Nat /\ Len(InputsOf[Root]) > 0
    BY Tree, Zenon
  <2> QED BY <2>1
<1>4. Outermost \in tables
  BY <1>2, <1>3 DEF Found, Outermost
<1>5. MarksLive
  BY <1>1 DEF MarksLive
<1>6. marks \in SUBSET Rows
  BY <1>5 DEF PipelineInv, MarkInv
<1>7. 0 \notin Rows
  BY DEF Rows
<1> QED BY <1>1, <1>4, <1>6, <1>7, Zenon DEF NoMarks

\* The emitter is past its last row.
LEMMA EmitEndInd ==
  ASSUME Nested, Counts, PipelineInv, EmitEnd
  PROVE  PipelineInv'
<1>0. /\ phase = "sink" /\ probed /\ ~ended
      /\ LET held == Outermost \in tables /\ marks # NoMarks
         IN  /\ ended' = held
             /\ IF held THEN ReleaseBuilds(Range(InputsOf[Root])) ELSE UNCHANGED <<tables, empties, marks>>
      /\ phase' = "idle"
      /\ UNCHANGED <<sink, matches, opened, sinkOpen, stack, running, stop, partTask, todo, loaded,
                     alone, got, probed, at, out>>
  BY DEF EmitEnd, Return, taskVars
<1>1. Outermost \in tables /\ marks # NoMarks /\ sinkOpen /\ ~running
  BY <1>0, EmitterHolds, Zenon
<1>2. ended' = TRUE /\ ReleaseBuilds(Range(InputsOf[Root]))
  BY <1>0, <1>1, Zenon
<1>3. stack = <<>> /\ Quiet
  BY <1>0, <1>1, Zenon DEF PipelineInv, StackInv, TaskInv, Quiet
<1>4. tables' \subseteq tables /\ empties' \subseteq Builds /\ marks' \in Words
  BY <1>2, Releases DEF PipelineInv
<1> QED BY <1>0, <1>1, <1>2, <1>3, <1>4, EndKept, Zenon

\* The parts of a PartRightJoinOperator are in: nothing writes a mark any more.
LEMMA ProbedInd ==
  ASSUME Nested, Counts, PipelineInv, Probed
  PROVE  PipelineInv'
<1>0. /\ phase = "sink" /\ Marking /\ running /\ (ended \/ got = PartCount)
      /\ probed' = TRUE /\ running' = FALSE
      /\ UNCHANGED <<sink, matches, opened, sinkOpen, phase, stack, tables, empties, marks, ended,
                     at, out>>
  BY DEF Probed, PartsIn, NoTasks, buildVars
<1>1. NoTasks
  BY DEF Probed
<1>2. stack = <<>> /\ sinkOpen /\ ~probed
  BY <1>0, Zenon DEF PipelineInv, StackInv, SinkInv
<1>3. PipelineTypeOK'
  <2>1. FlagsOK'
    BY <1>0, <1>1, FreshTasks, Zenon DEF PipelineInv, PipelineTypeOK, FlagsOK
  <2>2. BuildsOK' /\ (at \in 0 .. BuildRowCount /\ out \in Seq(Rows))'
    BY <1>0, Zenon DEF PipelineInv, PipelineTypeOK, BuildsOK
  <2>3. TasksOK'
    BY <1>0, <1>1, FreshTasks, Zenon DEF PipelineInv, PipelineTypeOK, TasksOK
  <2> QED BY <2>1, <2>2, <2>3, Zenon DEF PipelineTypeOK
<1>4. StackInv'
  <2>1. StackInv /\ stack' = stack /\ phase' = phase /\ sinkOpen' = sinkOpen
    BY <1>0, Zenon DEF PipelineInv
  <2> QED BY <2>1, Zenon DEF StackInv
<1>5. TableInv'
  BY <1>0, BuildsKept, Zenon DEF PipelineInv
<1>6. TaskInv'
  BY <1>0, <1>1, FreshTasks, Zenon DEF TaskInv
<1>7. SinkInv'
  BY <1>0, <1>1, <1>2, FreshTasks, Zenon DEF SinkInv, Quiet, Marking
<1>8. MarkInv'
  <2>1. ASSUME ~ended, NEW q \in PartIds PROVE PartMarks(q)'
    <3>1. MarksLive
      BY <1>0, <1>2, <2>1, Zenon DEF MarksLive
    <3>2. PartMarks(q)
      BY <3>1 DEF PipelineInv, MarkInv
    <3>3. partTask[q] = "done" /\ todo[q] = {}
      BY <1>0, <2>1, AllDone, Zenon
    <3>4. todo'[q] = {} /\ loaded'[q] = NoMarks
      BY <1>1, FreshTasks, Zenon
    <3> QED BY <1>0, <3>2, <3>3, <3>4, Zenon DEF PartMarks, Outermost
  <2>2. MarksLive' => MarksLive /\ ~ended
    BY <1>0, <1>2, Zenon DEF MarksLive, Marking
  <2>3. RowsExact'
    BY <1>0, RowsKept, Zenon DEF PipelineInv, MarkInv
  <2> QED BY <1>0, <2>1, <2>2, <2>3, Zenon DEF PipelineInv, MarkInv
<1> QED BY <1>3, <1>4, <1>5, <1>6, <1>7, <1>8, Zenon DEF PipelineInv

\* The emitter hands on the next row the marks select.
LEMMA EmitRowInd ==
  ASSUME Nested, Counts, PipelineInv, EmitRow
  PROVE  PipelineInv'
<1> DEFINE Chosen(r) == (\E p \in PartIds : r \in matches[p]) # (sink = "unmatched")
<1>0. /\ phase = "sink" /\ probed /\ ~ended /\ Outermost \notin empties
      /\ \E row \in Rows : /\ row > at /\ Emits(row)
                           /\ \A other \in at + 1 .. row - 1 : ~Emits(other)
                           /\ at' = row
                           /\ out' = Append(out, row)
      /\ phase' = "idle"
      /\ UNCHANGED <<sink, matches, opened, sinkOpen, stack, tables, empties, marks, running, stop,
                     partTask, todo, loaded, alone, got, probed, ended>>
  BY Zenon DEF EmitRow, Return, buildVars, taskVars
<1>1. PICK row \in Rows : /\ row > at /\ Emits(row)
                          /\ \A other \in at + 1 .. row - 1 : ~Emits(other)
                          /\ at' = row
                          /\ out' = Append(out, row)
  BY <1>0, Zenon
<1>2. stack = <<>> /\ sinkOpen /\ Marking /\ ~running
  BY <1>0, Zenon DEF PipelineInv, StackInv, SinkInv
<1>3. MarksLive
  BY <1>0, <1>2, Zenon DEF MarksLive
<1>4. \A r \in Rows : r \in marks <=> \E p \in PartIds : r \in matches[p]
  <2>1. ASSUME NEW p \in PartIds PROVE matches[p] \subseteq marks
    <3>1. PartMarks(p)
      BY <1>3 DEF PipelineInv, MarkInv
    <3>2. todo[p] = {}
      BY <1>2, Zenon DEF PipelineInv, TaskInv, PartInv
    <3> QED BY <1>0, <3>1, <3>2, Zenon DEF PartMarks
  <2>2. \A r \in marks : \E p \in PartIds : r \in matches[p]
    BY <1>3 DEF PipelineInv, MarkInv
  <2> QED BY <2>1, <2>2
<1>5. \A r \in Rows : Emits(r) <=> Chosen(r)
  <2>1. ASSUME NEW r \in Rows PROVE Emits(r) <=> (r \in marks <=> sink # "unmatched")
    BY DEF Emits
  <2>2. ASSUME NEW r \in Rows
        PROVE  Chosen(r) <=> ((\E p \in PartIds : r \in matches[p]) <=> sink # "unmatched")
    BY Zenon
  <2> QED BY <1>4, <2>1, <2>2, Zenon
<1>6. at \in Nat /\ row \in Nat /\ BuildRowCount \in Nat /\ out \in Seq(Rows) /\ row <= BuildRowCount
  BY DEF PipelineInv, PipelineTypeOK, Counts, Rows
<1>7. PipelineTypeOK'
  <2>1. FlagsOK'
    BY <1>0, Zenon DEF PipelineInv, PipelineTypeOK, FlagsOK, Phases
  <2>2. BuildsOK'
    BY <1>0, Zenon DEF PipelineInv, PipelineTypeOK, BuildsOK
  <2>3. TasksOK'
    BY <1>0, Zenon DEF PipelineInv, PipelineTypeOK, TasksOK
  <2>4. at' \in 0 .. BuildRowCount /\ out' \in Seq(Rows)
    BY <1>1, <1>6
  <2> QED BY <2>1, <2>2, <2>3, <2>4, Zenon DEF PipelineTypeOK
<1>8. StackInv'
  BY <1>0, <1>2 DEF PipelineInv, StackInv
<1>9. TableInv'
  BY <1>0, BuildsKept, Zenon DEF PipelineInv
<1>10. TaskInv'
  <2>1. ASSUME NEW q \in PartIds PROVE PartInv(q)'
    BY <1>0, Zenon DEF PipelineInv, TaskInv, PartInv, Marking
  <2> QED BY <1>0, <2>1, Zenon DEF PipelineInv, TaskInv
<1>11. SinkInv'
  BY <1>0, Zenon DEF PipelineInv, SinkInv, Marking, Quiet
<1>12. MarkInv'
  <2>1. ASSUME NEW q \in PartIds PROVE PartMarks(q)'
    BY <1>0, <1>3, Zenon DEF PipelineInv, MarkInv, PartMarks, Outermost
  <2>2. marks' \in SUBSET Rows /\ \A r \in marks' : \E p \in PartIds : r \in matches'[p]
    BY <1>0, <1>3, Zenon DEF PipelineInv, MarkInv
  <2>3. RowsExact'
    <3>1. /\ Range(out) = {r \in 1 .. at : Chosen(r)}
          /\ \A i, j \in DOMAIN out : i < j => out[i] < out[j]
      BY DEF PipelineInv, MarkInv, RowsExact
    <3>2. /\ DOMAIN out' = 1 .. Len(out) + 1 /\ DOMAIN out = 1 .. Len(out) /\ Len(out) \in Nat
          /\ out'[Len(out) + 1] = row /\ \A i \in 1 .. Len(out) : out'[i] = out[i]
      BY <1>1, <1>6
    <3>3. Range(out') = Range(out) \cup {row}
      BY <3>2 DEF Range
    <3>4. ASSUME NEW r \in 1 .. row PROVE Chosen(r) <=> (r \in 1 .. at /\ Chosen(r)) \/ r = row
      <4>1. r \in 1 .. at \/ r \in at + 1 .. row - 1 \/ r = row
        BY <1>6
      <4>2. r \in Rows
        BY <1>6 DEF Rows
      <4> HIDE DEF Chosen
      <4> QED BY <1>1, <1>5, <4>1, <4>2, Zenon
    <3>5. 1 .. at \subseteq 1 .. row /\ row \in 1 .. row
      <4>1. row > at /\ row \in Nat /\ at \in Nat /\ row > 0
        BY <1>1, <1>6 DEF Rows
      <4> QED BY <4>1
    <3>6. {r \in 1 .. row : Chosen(r)} = {r \in 1 .. at : Chosen(r)} \cup {row}
      <4> HIDE DEF Chosen
      <4> QED BY <3>4, <3>5, Zenon
    <3>7. ASSUME NEW i \in DOMAIN out', NEW j \in DOMAIN out', i < j PROVE out'[i] < out'[j]
      <4>1. i \in 1 .. Len(out)
        BY <3>2, <3>7
      <4>2. CASE j \in 1 .. Len(out)
        BY <3>1, <3>2, <3>7, <4>1, <4>2, Zenon
      <4>3. CASE j = Len(out) + 1
        <5>1. out[i] \in 1 .. at
          BY <3>1, <3>2, <4>1, Zenon DEF Range
        <5>2. out[i] < row
          BY <1>1, <1>6, <5>1
        <5> QED BY <3>2, <4>1, <4>3, <5>2, Zenon
      <4> QED BY <3>2, <4>2, <4>3
    <3>8. Range(out') = {r \in 1 .. at' : Chosen(r)}
      BY <1>1, <3>1, <3>3, <3>6, Zenon
    <3>9. \A r : Chosen(r) <=> (\E p \in PartIds : r \in matches'[p]) # (sink' = "unmatched")
      BY <1>0, Zenon
    <3> QED BY <3>7, <3>8, <3>9, Zenon DEF RowsExact
  <2> QED BY <1>0, <2>1, <2>2, <2>3, Zenon DEF MarkInv
<1> QED BY <1>7, <1>8, <1>9, <1>10, <1>11, <1>12 DEF PipelineInv

\* Close, and the Close of Open, is done.
LEMMA FinishCloseInd ==
  ASSUME Nested, Counts, PipelineInv, FinishClose
  PROVE  PipelineInv'
<1>0. /\ phase \in {"closing", "opening"}
      /\ ReleaseBuilds(Range(InputsOf[Root]))
      /\ opened' \in BOOLEAN
      /\ sinkOpen' = FALSE /\ probed' = FALSE /\ ended' = FALSE /\ at' = 0 /\ out' = <<>>
      /\ phase' = "idle" /\ running' = FALSE
      /\ UNCHANGED <<sink, matches, stack>>
  BY DEF FinishClose, Return, NoTasks
<1>1. NoTasks
  BY DEF FinishClose
<1>2. stack = <<>>
  BY <1>0, Zenon DEF PipelineInv, StackInv
<1>3. PipelineTypeOK'
  <2>1. FlagsOK'
    BY <1>0, <1>1, FreshTasks, Zenon DEF PipelineInv, PipelineTypeOK, FlagsOK, Phases
  <2>2. tables' \subseteq tables /\ empties' \subseteq Builds /\ marks' \in Words
    BY <1>0, Releases, Zenon DEF PipelineInv
  <2>3. BuildsOK'
    BY <1>0, <2>2, Zenon DEF PipelineInv, PipelineTypeOK, BuildsOK
  <2>4. TasksOK'
    BY <1>0, <1>1, <2>2, FreshTasks, Zenon DEF PipelineInv, PipelineTypeOK, TasksOK
  <2>5. at' \in 0 .. BuildRowCount /\ out' \in Seq(Rows)
    BY <1>0 DEF Counts
  <2> QED BY <2>1, <2>3, <2>4, <2>5, Zenon DEF PipelineTypeOK
<1>4. StackInv'
  BY <1>0, <1>2 DEF StackInv
<1>5. TableInv'
  <2>1. tables \subseteq Inputs(Root)
    BY <1>2 DEF PipelineInv, TableInv, OnlyPendingProbesHold, Range, Inputs
  <2>2. Inputs(Root) \subseteq Below(Inputs(Root))
    BY Tree, BelowLeast, Zenon
  <2>3. tables' = {}
    BY <1>0, <2>1, <2>2, Zenon DEF ReleaseBuilds, Inputs
  <2>4. OnlyPendingProbesHold'
    BY <2>3 DEF OnlyPendingProbesHold
  <2> QED BY <1>0, <1>2, <2>4, Zenon DEF TableInv
<1>6. TaskInv'
  BY <1>0, <1>1, FreshTasks, Zenon DEF TaskInv
<1>7. SinkInv'
  BY <1>0, Zenon DEF SinkInv
<1>8. MarkInv'
  <2>1. RowsExact'
    BY <1>0 DEF RowsExact, Range
  <2> QED BY <1>0, <2>1, Zenon DEF MarkInv, MarksLive
<1> QED BY <1>3, <1>4, <1>5, <1>6, <1>7, <1>8, Zenon DEF PipelineInv

-----------------------------------------------------------------------------
(* Builds are prepared, finished and, when one fails, released.             *)

\* A pipeline keeps its builds when what it is done with is not touched.
LEMMA FoundKept ==
  ASSUME Nested, NEW c \in Stages, NEW nth \in 1 .. Len(InputsOf[c]) + 1, Found(c, nth),
         \A j \in 1 .. Len(InputsOf[c]) : j < nth =>
           /\ InputsOf[c][j] \in tables => InputsOf[c][j] \in tables'
           /\ InputsOf[c][j] \in empties => InputsOf[c][j] \in empties'
  PROVE  Found(c, nth)'
<1> SUFFICES ASSUME NEW j \in 1 .. Len(InputsOf[c]), j < nth,
                    \A k \in 1 .. j - 1 : InputsOf[c][k] \notin empties'
             PROVE  InputsOf[c][j] \in tables'
  BY DEF Found
<1>1. Len(InputsOf[c]) \in Nat
  BY Tree, Zenon
<1>2. ASSUME NEW k \in 1 .. j - 1 PROVE InputsOf[c][k] \notin empties
  <2>1. k \in 1 .. Len(InputsOf[c]) /\ k < nth
    BY <1>1
  <2> QED BY <2>1, Zenon
<1>3. InputsOf[c][j] \in tables
  BY <1>2, Zenon DEF Found
<1> QED BY <1>3, Zenon

\* PrepareBuilds goes on to its next build.
LEMMA PrepareNextInd ==
  ASSUME Nested, Counts, PipelineInv, PrepareNext
  PROVE  PipelineInv'
<1> DEFINE d == Top.of
           nth == Top.next
           b == InputsOf[d][nth]
           L == Len(stack)
<1>0. /\ phase = "builds" /\ nth <= Len(InputsOf[d])
      /\ ReleaseBuilds({b})
      /\ stack' = Append(stack, [of |-> b, next |-> 1])
      /\ UNCHANGED <<sink, matches, opened, sinkOpen, phase, running, stop, partTask, todo, loaded,
                     alone, got, probed, ended, at, out>>
  BY Zenon DEF PrepareNext, taskVars, sinkVars
<1>1. stack # <<>> /\ ~sinkOpen /\ ~ended /\ ~probed /\ ~running
  BY <1>0, Zenon DEF PipelineInv, StackInv, SinkInv, TaskInv
<1>2. /\ L \in Nat \ {0} /\ L \in 1 .. L /\ stack[L].of = d /\ stack[L].next = nth
      /\ d \in Stages /\ nth \in Nat \ {0} /\ Len(InputsOf[d]) \in Nat
  BY <1>1, TopOf, Zenon
<1>3. nth \in 1 .. Len(InputsOf[d])
  BY <1>0, <1>2
<1>4. b \in Builds /\ b \in Inputs(d)
  BY <1>2, <1>3, Tree, Zenon
<1>5. stack \in Seq(Frames)
  BY DEF PipelineInv, PipelineTypeOK, BuildsOK
<1> HIDE DEF b
<1>6. /\ stack' \in Seq(Frames) /\ stack' # <<>> /\ Len(stack') = L + 1
      /\ \A i \in 1 .. L : stack'[i] = stack[i]
      /\ stack'[L + 1] = [of |-> b, next |-> 1]
  <2>1. [of |-> b, next |-> 1] \in Frames
    BY <1>4, Tree DEF Frames
  <2> QED BY <1>0, <1>5, <2>1
<1> HIDE DEF d, nth, L
<1>7. PipelineTypeOK'
  <2>1. FlagsOK'
    BY <1>0, Zenon DEF PipelineInv, PipelineTypeOK, FlagsOK
  <2>2. tables' \subseteq tables /\ empties' \subseteq Builds /\ marks' \in Words
    BY <1>0, Releases, Zenon DEF PipelineInv
  <2>3. BuildsOK'
    BY <1>6, <2>2, Zenon DEF PipelineInv, PipelineTypeOK, BuildsOK
  <2>4. TasksOK' /\ (at \in 0 .. BuildRowCount /\ out \in Seq(Rows))'
    BY <1>0, <2>2, Zenon DEF PipelineInv, PipelineTypeOK, TasksOK
  <2> QED BY <2>1, <2>3, <2>4, Zenon DEF PipelineTypeOK
<1>8. 1 .. L + 1 = 1 .. L \cup {L + 1} /\ (L + 1) - 1 = L /\ 1 \in 1 .. L
  BY <1>2
<1>9. StackInv'
  <2>1. /\ stack' # <<>> <=> phase' \in {"builds", "parts", "failing"}
        /\ stack' # <<>> => ~sinkOpen' /\ stack'[1].of = Root
        /\ phase' \in {"parts", "failing"} => Len(stack') > 1
    BY <1>0, <1>1, <1>6, <1>8, Zenon DEF PipelineInv, StackInv
  <2>2. ASSUME NEW i \in 1 .. L + 1 PROVE stack'[i].next <= Len(InputsOf[stack'[i].of]) + 1
    <3>1. CASE i \in 1 .. L
      BY <1>6, <3>1, Zenon DEF PipelineInv, StackInv, L
    <3>2. CASE i = L + 1
      <4>1. Len(InputsOf[b]) \in Nat
        BY <1>4, Tree, Zenon
      <4> QED BY <1>6, <3>2, <4>1
    <3> QED BY <1>8, <3>1, <3>2, Zenon
  <2>3. ASSUME NEW i \in 1 .. L
        PROVE  /\ stack'[i].next <= Len(InputsOf[stack'[i].of])
               /\ stack'[i + 1].of = InputsOf[stack'[i].of][stack'[i].next]
    <3>1. CASE i = L
      BY <1>0, <1>2, <1>6, <3>1, SMTT(60) DEF b
    <3>2. CASE i \in 1 .. L - 1
      <4>1. i + 1 \in 1 .. L
        BY <1>2, <3>2
      <4> QED BY <1>6, <3>2, <4>1, Zenon DEF PipelineInv, StackInv, L
    <3> QED BY <1>2, <3>1, <3>2, SMTT(60)
  <2>4. ASSUME NEW i \in 1 .. L + 1, NEW j \in 1 .. L + 1, NEW x \in Stages, NEW c \in Stages,
               i < j, stack'[i].of = c, stack'[j].of = x
        PROVE  x \in Below(Inputs(c))
    <3>1. i \in 1 .. L
      BY <1>2, <2>4
    <3>2. CASE j \in 1 .. L
      BY <1>6, <2>4, <3>1, <3>2, Zenon DEF PipelineInv, StackInv, L
    <3>3. CASE j = L + 1
      <4>1. x = b /\ stack[i].of = c
        BY <1>6, <2>4, <3>1, <3>3, SMTT(60)
      <4>2. Inputs(c) \subseteq Below(Inputs(c)) /\ \A y \in Below(Inputs(c)) : Inputs(y) \subseteq Below(Inputs(c))
        BY BelowLeast, Tree, Zenon
      <4>3. CASE i = L
        BY <1>2, <1>4, <4>1, <4>2, <4>3, Zenon
      <4>4. CASE i < L
        <5>1. d \in Below(Inputs(c))
          BY <1>2, <3>1, <4>1, <4>4, Zenon DEF PipelineInv, StackInv, L
        <5> QED BY <1>4, <4>1, <4>2, <5>1, Zenon
      <4>5. i = L \/ i < L
        BY <1>2, <3>1, SMTT(60)
      <4> QED BY <4>3, <4>4, <4>5, Zenon
    <3> QED BY <1>8, <3>2, <3>3, Zenon
  <2> QED BY <1>6, <1>8, <2>1, <2>2, <2>3, <2>4, Zenon DEF StackInv
<1>10. TableInv'
  <2>1. OnlyPendingProbesHold'
    <3>1. DOMAIN stack = 1 .. L /\ DOMAIN stack' = 1 .. L + 1
      BY <1>5, <1>6 DEF L
    <3>2. Range(stack) \subseteq Range(stack')
      BY <1>6, <1>8, <3>1 DEF Range
    <3>3. tables \subseteq UNION {Prepared(f) : f \in Range(stack)}
      BY <1>1, Zenon DEF PipelineInv, TableInv, OnlyPendingProbesHold
    <3>4. tables' \subseteq UNION {Prepared(f) : f \in Range(stack')}
      BY <1>0, <3>2, <3>3, Zenon DEF ReleaseBuilds
    <3>5. \A f : Prepared(f)' = Prepared(f)
      BY DEF Prepared
    <3> QED BY <1>0, <1>1, <3>4, <3>5, Zenon DEF OnlyPendingProbesHold
  <2>2. ASSUME NEW i \in 1 .. L + 1, NEW c \in Stages, NEW m \in 1 .. Len(InputsOf[c]) + 1,
               stack'[i] = [of |-> c, next |-> m]
        PROVE  Found(c, m)'
    <3>1. CASE i = L + 1
      <4>1. m = 1
        BY <1>6, <2>2, <3>1, SMTT(60)
      <4> QED BY <4>1 DEF Found
    <3>2. CASE i \in 1 .. L
      <4>1. stack[i] = [of |-> c, next |-> m] /\ stack[i].of = c /\ stack[i].next = m
        BY <1>6, <2>2, <3>2
      <4>2. Found(c, m)
        BY <1>0, <3>2, <4>1, Zenon DEF PipelineInv, TableInv, L
      <4>3. i <= L
        BY <1>2, <3>2
      <4>4. ASSUME NEW j \in 1 .. Len(InputsOf[c]), j < m PROVE InputsOf[c][j] \notin Below({b})
        BY <1>2, <1>3, <3>2, <4>1, <4>3, <4>4, CallersApart, Zenon DEF PipelineInv, L, b
      <4> QED BY <1>0, <4>2, <4>4, FoundKept, Zenon DEF ReleaseBuilds
    <3> QED BY <1>8, <3>1, <3>2, Zenon
  <2> QED BY <1>0, <1>1, <1>6, <2>1, <2>2, SMTT(60) DEF TableInv
<1>11. TaskInv'
  <2>1. ASSUME NEW q \in PartIds PROVE PartInv(q)'
    BY <1>0, Zenon DEF PipelineInv, TaskInv, PartInv, Marking
  <2> QED BY <1>0, <1>1, <2>1, Zenon DEF PipelineInv, TaskInv
<1>12. SinkInv'
  BY <1>0, <1>1, Zenon DEF SinkInv
<1>13. MarkInv'
  <2>1. RowsExact'
    BY <1>0, RowsKept, Zenon DEF PipelineInv, MarkInv
  <2> QED BY <1>0, <1>1, <2>1, Zenon DEF PipelineInv, MarkInv, MarksLive
<1> QED BY <1>7, <1>9, <1>10, <1>11, <1>12, <1>13, Zenon DEF PipelineInv

\* The build being prepared and the call of PrepareBuilds that is at it.
LEMMA Caller ==
  ASSUME Nested, PipelineInv, phase \in {"parts", "failing"},
         NEW K, K = Len(stack) - 1
  PROVE  /\ stack \in Seq(Frames) /\ K \in Nat \ {0} /\ Len(stack) = K + 1 /\ K \in 1 .. K
         /\ K \in 1 .. Len(stack) /\ stack[K] \in Frames
         /\ stack[K].of \in Stages /\ stack[K].next \in 1 .. Len(InputsOf[stack[K].of])
         /\ Top = stack[K + 1]
         /\ Top.of = InputsOf[stack[K].of][stack[K].next]
         /\ Top.of \in Builds
         /\ Callers(stack) \in Seq(Frames) /\ Len(Callers(stack)) = K
         /\ \A i \in 1 .. K : Callers(stack)[i] = stack[i]
<1>1. stack \in Seq(Frames) /\ Len(stack) > 1 /\ stack # <<>>
  BY Zenon DEF PipelineInv, PipelineTypeOK, BuildsOK, StackInv
<1>2. K \in Nat \ {0} /\ Len(stack) = K + 1 /\ K \in 1 .. K /\ K \in 1 .. Len(stack)
  <2>1. Len(stack) \in Nat
    BY <1>1
  <2> QED BY <1>1, <2>1
<1>3. stack[K] \in Frames
  BY <1>1, <1>2
<1>4. stack[K].of \in Stages /\ stack[K].next \in Nat \ {0}
  BY <1>3 DEF Frames
<1>5. /\ stack[K].next <= Len(InputsOf[stack[K].of])
      /\ stack[K + 1].of = InputsOf[stack[K].of][stack[K].next]
  BY <1>2, Zenon DEF PipelineInv, StackInv
<1>6. Len(InputsOf[stack[K].of]) \in Nat
  BY <1>4, Tree, Zenon
<1>7. stack[K].next \in 1 .. Len(InputsOf[stack[K].of])
  BY <1>4, <1>5, <1>6
<1>8. Top = stack[K + 1]
  BY <1>1, <1>2, TopOf, Zenon
<1>9. Top.of \in Builds
  BY <1>4, <1>5, <1>7, <1>8, Tree, SMTT(60)
<1>10. /\ Callers(stack) \in Seq(Frames) /\ Len(Callers(stack)) = K
       /\ \A i \in 1 .. K : Callers(stack)[i] = stack[i]
  BY <1>1, <1>2, CallersOf, Zenon
<1> QED BY <1>1, <1>2, <1>3, <1>4, <1>5, <1>7, <1>8, <1>9, <1>10, SMTT(60)

\* The table of a build is finished, and PrepareBuilds goes on or stops.
LEMMA FinishTableInd ==
  ASSUME Nested, Counts, PipelineInv, FinishTable
  PROVE  PipelineInv'
<1>a. PICK K : K = Len(stack) - 1
  OBVIOUS
<1>b. PICK b, d, nth : b = Top.of /\ d = stack[K].of /\ nth = stack[K].next
  OBVIOUS
<1> DEFINE probes == Below(Inputs(b))
<1>0. /\ phase = "parts" /\ phase' = "builds" /\ running' = FALSE
      /\ \E e \in BOOLEAN :
           /\ tables' = (tables \ probes) \cup {b}
           /\ empties' = (empties \ probes) \cup (IF e THEN {b} ELSE {})
           /\ stack' = [Callers(stack) EXCEPT ![Len(Callers(stack))] = After(@, e)]
      /\ UNCHANGED <<sink, matches, opened, sinkOpen, marks, probed, ended, at, out>>
  BY <1>b, Zenon DEF FinishTable, BuildDone, NoTasks, sinkVars, Inputs
<1>1. NoTasks
  BY DEF FinishTable
<1>2. PICK e \in BOOLEAN :
        /\ tables' = (tables \ probes) \cup {b}
        /\ empties' = (empties \ probes) \cup (IF e THEN {b} ELSE {})
        /\ stack' = [Callers(stack) EXCEPT ![Len(Callers(stack))] = After(@, e)]
  BY <1>0, Zenon
<1>3. stack # <<>> /\ ~sinkOpen /\ ~ended /\ ~probed
  BY <1>0, Zenon DEF PipelineInv, StackInv, SinkInv
<1>4. /\ stack \in Seq(Frames) /\ K \in Nat \ {0} /\ Len(stack) = K + 1 /\ K \in 1 .. K
      /\ K \in 1 .. Len(stack) /\ stack[K] \in Frames
      /\ d \in Stages /\ nth \in 1 .. Len(InputsOf[d])
      /\ Top = stack[K + 1] /\ b = InputsOf[d][nth] /\ b \in Builds
      /\ Callers(stack) \in Seq(Frames) /\ Len(Callers(stack)) = K
      /\ \A i \in 1 .. K : Callers(stack)[i] = stack[i]
  BY <1>0, <1>a, <1>b, Caller, Zenon
<1> DEFINE m == IF e THEN Len(InputsOf[d]) + 1 ELSE nth + 1
<1>5. Len(InputsOf[d]) \in Nat
  BY <1>4, Tree, Zenon
<1>6. m \in 1 .. Len(InputsOf[d]) + 1 /\ nth < m /\ m \in Nat \ {0}
  <2>1. \A j \in Nat : \A i \in 1 .. j :
          /\ j + 1 \in 1 .. j + 1 /\ i < j + 1 /\ j + 1 \in Nat \ {0}
          /\ i + 1 \in 1 .. j + 1 /\ i < i + 1 /\ i + 1 \in Nat \ {0}
    OBVIOUS
  <2>2. CASE e
    BY <1>4, <1>5, <2>1, <2>2, Zenon
  <2>3. CASE ~e
    BY <1>4, <1>5, <2>1, <2>3, Zenon
  <2> QED BY <2>2, <2>3, Zenon
<1>7. /\ Inputs(b) \subseteq probes /\ probes \subseteq Builds
      /\ probes \cup {b} \subseteq Below({b})
  <2>1. Inputs(b) \in SUBSET Builds
    BY <1>4, Tree, Zenon
  <2>2. Inputs(b) \subseteq probes /\ probes \subseteq Builds
    BY <2>1, BelowLeast, Zenon
  <2>3. {b} \subseteq Below({b}) /\ Inputs(b) \subseteq Below({b})
    BY <1>4, BelowLeast
  <2>4. probes \subseteq Below({b})
    BY <1>4, <2>1, <2>3, BelowTransitive, SMTT(60)
  <2> QED BY <2>2, <2>3, <2>4, Zenon
<1> HIDE DEF probes
<1>8. After(stack[K], e) = [of |-> d, next |-> m]
  BY <1>4, <1>b, SMTT(60) DEF After, Frames
<1> HIDE DEF m
<1>9. /\ stack' \in Seq(Frames) /\ stack' # <<>> /\ Len(stack') = K
      /\ \A i \in 1 .. K - 1 : stack'[i] = stack[i]
      /\ stack'[K] = [of |-> d, next |-> m]
  <2>1. [of |-> d, next |-> m] \in Frames
    BY <1>4, <1>6, Zenon DEF Frames
  <2>2. Callers(stack)[K] = stack[K]
    BY <1>4, Zenon
  <2>3. stack' = [Callers(stack) EXCEPT ![K] = [of |-> d, next |-> m]]
    BY <1>2, <1>4, <1>8, <2>2, Zenon
  <2>4. /\ stack' \in Seq(Frames) /\ Len(stack') = K /\ stack'[K] = [of |-> d, next |-> m]
        /\ \A i \in 1 .. K - 1 : stack'[i] = Callers(stack)[i]
    BY <1>4, <2>1, <2>3
  <2>5. \A i \in 1 .. K - 1 : i \in 1 .. K
    BY <1>4
  <2> QED BY <1>4, <2>4, <2>5, Zenon
<1>10. PipelineTypeOK'
  <2>1. FlagsOK'
    BY <1>0, <1>1, FreshTasks, Zenon DEF PipelineInv, PipelineTypeOK, FlagsOK, Phases
  <2>2. BuildsOK'
    <3>1. tables' \subseteq Builds
      BY <1>2, <1>4, Zenon DEF PipelineInv, PipelineTypeOK, BuildsOK
    <3>2. empties' \subseteq Builds
      BY <1>2, <1>4, Zenon DEF PipelineInv, PipelineTypeOK, BuildsOK
    <3> QED BY <1>9, <3>1, <3>2, Zenon DEF BuildsOK
  <2>3. TasksOK' /\ (at \in 0 .. BuildRowCount /\ out \in Seq(Rows))'
    BY <1>0, <1>1, FreshTasks, Zenon DEF PipelineInv, PipelineTypeOK, TasksOK
  <2> QED BY <2>1, <2>2, <2>3, Zenon DEF PipelineTypeOK
<1>11. 1 .. K = 1 .. K - 1 \cup {K} /\ 1 .. K - 1 \subseteq 1 .. Len(stack) /\ 1 .. K - 1 \subseteq 1 .. Len(stack) - 1
       /\ \A i \in 1 .. K : i <= K
  BY <1>4
<1>12. \A i \in 1 .. K : stack'[i].of = stack[i].of
  BY <1>4, <1>9, <1>11, <1>b
<1>13. StackInv'
  <2>1. /\ stack' # <<>> <=> phase' \in {"builds", "parts", "failing"}
        /\ phase' \in {"parts", "failing"} => Len(stack') > 1
    BY <1>0, <1>9, Zenon
  <2>2. ~sinkOpen' /\ stack'[1].of = Root
    <3>1. stack[1].of = Root /\ 1 \in 1 .. K
      BY <1>3, <1>4 DEF PipelineInv, StackInv
    <3> QED BY <1>0, <1>3, <1>12, <3>1, Zenon
  <2>3. ASSUME NEW i \in 1 .. K PROVE stack'[i].next <= Len(InputsOf[stack'[i].of]) + 1
    <3>1. CASE i = K
      <4>1. m <= Len(InputsOf[d]) + 1
        BY <1>5, <1>6
      <4> QED BY <1>9, <3>1, <4>1
    <3>2. CASE i \in 1 .. K - 1
      BY <1>9, <1>11, <3>2, Zenon DEF PipelineInv, StackInv
    <3> QED BY <1>11, <3>1, <3>2, Zenon
  <2>4. ASSUME NEW i \in 1 .. K - 1
        PROVE  /\ stack'[i].next <= Len(InputsOf[stack'[i].of])
               /\ stack'[i + 1].of = InputsOf[stack'[i].of][stack'[i].next]
    <3>1. i + 1 \in 1 .. K
      BY <1>4
    <3> QED BY <1>9, <1>11, <1>12, <3>1, Zenon DEF PipelineInv, StackInv
  <2>5. ASSUME NEW i \in 1 .. K, NEW j \in 1 .. K, NEW x \in Stages, NEW c \in Stages,
               i < j, stack'[i].of = c, stack'[j].of = x
        PROVE  x \in Below(Inputs(c))
    <3>1. i \in 1 .. Len(stack) /\ j \in 1 .. Len(stack)
      BY <1>4, SMTT(60)
    <3> QED BY <1>12, <2>5, <3>1, Zenon DEF PipelineInv, StackInv
  <2> QED BY <1>9, <2>1, <2>2, <2>3, <2>4, <2>5, Zenon DEF StackInv
<1>14. TableInv'
  <2>1. OnlyPendingProbesHold'
    <3>1. tables \subseteq UNION {Prepared(f) : f \in Range(stack)}
      BY <1>3, Zenon DEF PipelineInv, TableInv, OnlyPendingProbesHold
    <3>2. ASSUME NEW x \in tables' PROVE \E f \in Range(stack') : x \in Prepared(f)
      <4>0. stack'[K] \in Range(stack') /\ \A i \in 1 .. K : stack'[i] \in Range(stack')
        BY <1>4, <1>9 DEF Range
      <4>1. CASE x = b
        <5>1. nth \in DOMAIN InputsOf[d] /\ nth < m /\ InputsOf[d][nth] = b
          BY <1>4, <1>6, Tree
        <5>2. b \in Prepared(stack'[K])
          BY <1>9, <5>1 DEF Prepared
        <5> QED BY <4>0, <4>1, <5>2, Zenon
      <4>2. CASE x # b
        <5>1. x \in tables /\ x \notin probes
          BY <1>2, <3>2, <4>2, Zenon
        <5>2. PICK f \in Range(stack) : x \in Prepared(f)
          BY <3>1, <5>1, Zenon
        <5>3. PICK i \in 1 .. Len(stack) : f = stack[i]
          BY <1>4, <5>2 DEF Range
        <5>4. CASE i = K + 1
          <6>1. x \in Range(InputsOf[b])
            BY <1>4, <1>b, <5>2, <5>3, <5>4, Zenon DEF Prepared, Range
          <6> QED BY <1>7, <5>1, <6>1, Zenon DEF Inputs
        <5>5. CASE i \in 1 .. K - 1
          <6>1. f \in Range(stack')
            BY <1>9, <1>11, <4>0, <5>3, <5>5, Zenon
          <6> QED BY <5>2, <6>1, Zenon
        <5>6. CASE i = K
          <6>1. PICK j \in DOMAIN InputsOf[d] : j < nth /\ x = InputsOf[d][j]
            BY <1>b, <5>2, <5>3, <5>6, Zenon DEF Prepared
          <6>2. j < m
            <7>1. j \in Nat
              BY <1>4, Tree, SMTT(60)
            <7> QED BY <1>4, <1>6, <6>1, <7>1, SMTT(60)
          <6>3. x \in Prepared(stack'[K])
            BY <1>9, <6>1, <6>2, SMTT(60) DEF Prepared
          <6> QED BY <4>0, <6>3, Zenon
        <5>7. i = K + 1 \/ i \in 1 .. K - 1 \/ i = K
          BY <1>4
        <5> QED BY <5>4, <5>5, <5>6, <5>7, Zenon
      <4> QED BY <4>1, <4>2, Zenon
    <3>3. \A f : Prepared(f)' = Prepared(f)
      BY Zenon DEF Prepared
    <3> QED BY <1>0, <1>3, <3>2, <3>3, Zenon DEF OnlyPendingProbesHold
  <2>2. ASSUME NEW i \in 1 .. K, NEW c \in Stages, c = stack[i].of,
               NEW j \in 1 .. Len(InputsOf[c]), j < stack[i].next
        PROVE  InputsOf[c][j] \notin Below({b})
    <3>1. /\ i \in 1 .. Len(stack) /\ K \in 1 .. Len(stack) /\ i <= K
          /\ d \in Stages /\ nth \in 1 .. Len(InputsOf[d])
          /\ stack[i].of = c /\ stack[K].of = d /\ stack[K].next = nth
      BY <1>4, <1>11, <1>b, <2>2, Zenon
    <3>2. PipelineTypeOK /\ StackInv
      BY Zenon DEF PipelineInv
    <3>3. InputsOf[c][j] \notin Below({InputsOf[d][nth]})
      BY <2>2, <3>1, <3>2, CallersApart, Zenon
    <3> QED BY <1>4, <3>3, Zenon
  <2>3. ASSUME NEW i \in 1 .. K, NEW c \in Stages, NEW k \in 1 .. Len(InputsOf[c]) + 1,
               stack[i] = [of |-> c, next |-> k]
        PROVE  Found(c, k)'
    <3>1. Found(c, k)
      <4>1. i \in 1 .. Len(stack)
        BY <1>4
      <4> QED BY <1>0, <2>3, <4>1, Zenon DEF PipelineInv, TableInv
    <3>2. ASSUME NEW j \in 1 .. Len(InputsOf[c]), j < k PROVE InputsOf[c][j] \notin Below({b})
      <4>1. c = stack[i].of /\ j < stack[i].next
        BY <2>3, <3>2
      <4> QED BY <2>2, <4>1, Zenon
    <3> QED BY <1>2, <1>7, <3>1, <3>2, FoundKept, Zenon
  <2>4. Found(d, m)'
    <3>1. stack[K] = [of |-> d, next |-> nth]
      BY <1>4, <1>b, Zenon DEF Frames
    <3>2. nth \in 1 .. Len(InputsOf[d]) + 1
      BY <1>4, <1>5
    <3>3. Found(d, nth)'
      BY <1>4, <2>3, <3>1, <3>2, Zenon
    <3> SUFFICES ASSUME NEW j \in 1 .. Len(InputsOf[d]), j < m,
                        \A k \in 1 .. j - 1 : InputsOf[d][k] \notin empties'
                 PROVE  InputsOf[d][j] \in tables'
      BY DEF Found
    <3>4. CASE j < nth
      BY <3>3, <3>4, Zenon DEF Found
    <3>5. CASE j = nth
      BY <1>2, <1>4, <3>5, Zenon
    <3>6. CASE j > nth
      <4>1. e
        BY <1>4, <3>6, SMTT(60) DEF m
      <4>2. nth \in 1 .. j - 1
        BY <1>4, <3>6
      <4> QED BY <1>2, <1>4, <4>1, <4>2, Zenon
    <3> QED BY <1>4, <3>4, <3>5, <3>6
  <2>5. ASSUME NEW i \in 1 .. K, NEW c \in Stages, NEW k \in 1 .. Len(InputsOf[c]) + 1,
               stack'[i] = [of |-> c, next |-> k]
        PROVE  Found(c, k)'
    <3>1. CASE i = K
      <4>1. c = d /\ k = m
        BY <1>9, <2>5, <3>1, SMTT(60)
      <4> QED BY <2>4, <4>1, Zenon
    <3>2. CASE i \in 1 .. K - 1
      <4>1. stack[i] = [of |-> c, next |-> k]
        BY <1>9, <2>5, <3>2, Zenon
      <4> QED BY <2>3, <4>1, Zenon
    <3> QED BY <1>11, <3>1, <3>2, Zenon
  <2> QED BY <1>0, <1>3, <1>9, <2>1, <2>5, Zenon DEF TableInv
<1>15. TaskInv'
  BY <1>0, <1>1, FreshTasks, Zenon DEF TaskInv
<1>16. SinkInv'
  BY <1>0, <1>3, Zenon DEF SinkInv
<1>17. MarkInv'
  <2>1. RowsExact'
    BY <1>0, RowsKept, Zenon DEF PipelineInv, MarkInv
  <2> QED BY <1>0, <1>3, <2>1, Zenon DEF PipelineInv, MarkInv, MarksLive
<1> QED BY <1>10, <1>13, <1>14, <1>15, <1>16, <1>17, SMTT(60) DEF PipelineInv

\* A failed Prepare, and the PrepareBuilds that called it, let go of everything they hold.
LEMMA FailUpInd ==
  ASSUME Nested, Counts, PipelineInv, FailUp
  PROVE  PipelineInv'
<1>a. PICK K : K = Len(stack) - 1
  OBVIOUS
<1>b. PICK b, d : b = Top.of /\ d = stack[K].of
  OBVIOUS
<1>0. /\ phase = "failing" /\ running' = FALSE
      /\ ReleaseBuilds({b} \cup Inputs(d))
      /\ stack' = IF Len(stack) = 2 THEN <<>> ELSE Callers(stack)
      /\ phase' = IF Len(stack) = 2 THEN "idle" ELSE phase
      /\ UNCHANGED <<sink, matches, opened, sinkOpen, probed, ended, at, out>>
  BY <1>a, <1>b, Zenon DEF FailUp, Failed, Return, NoTasks, sinkVars, Inputs
<1>1. NoTasks
  BY Zenon DEF FailUp
<1>2. stack # <<>> /\ ~sinkOpen /\ ~ended /\ ~probed
  BY <1>0, Zenon DEF PipelineInv, StackInv, SinkInv
<1>3. /\ stack \in Seq(Frames) /\ K \in Nat \ {0} /\ Len(stack) = K + 1
      /\ d \in Stages /\ Top = stack[K + 1] /\ b \in Builds
      /\ Callers(stack) \in Seq(Frames) /\ Len(Callers(stack)) = K
      /\ \A i \in 1 .. K : Callers(stack)[i] = stack[i]
  BY <1>0, <1>a, <1>b, Caller, Zenon
<1>4. Inputs(b) \subseteq Below({b} \cup Inputs(d)) /\ Inputs(d) \subseteq Below({b} \cup Inputs(d))
  <2>1. {b} \cup Inputs(d) \in SUBSET Builds
    BY <1>3, Tree, Zenon
  <2>2. /\ {b} \cup Inputs(d) \subseteq Below({b} \cup Inputs(d))
        /\ \A c \in Below({b} \cup Inputs(d)) : Inputs(c) \subseteq Below({b} \cup Inputs(d))
    BY <2>1, BelowLeast, Zenon
  <2> QED BY <2>2, Zenon
<1>5. tables' \subseteq tables /\ empties' \subseteq Builds /\ marks' \in Words
  BY <1>0, Releases, Zenon DEF PipelineInv
<1>6. PipelineTypeOK'
  <2>1. FlagsOK'
    BY <1>0, <1>1, FreshTasks, Zenon DEF PipelineInv, PipelineTypeOK, FlagsOK, Phases
  <2>2. stack' \in Seq(Frames)
    BY <1>0, <1>3
  <2>3. BuildsOK'
    BY <1>5, <2>2, Zenon DEF PipelineInv, PipelineTypeOK, BuildsOK
  <2>4. TasksOK' /\ (at \in 0 .. BuildRowCount /\ out \in Seq(Rows))'
    BY <1>0, <1>1, <1>5, FreshTasks, Zenon DEF PipelineInv, PipelineTypeOK, TasksOK
  <2> QED BY <2>1, <2>3, <2>4, Zenon DEF PipelineTypeOK
\* What is held is what a call around them has prepared.
<1>7. ASSUME NEW x \in tables' PROVE \E i \in 1 .. K - 1 : x \in Prepared(stack[i])
  <2>1. x \in tables /\ x \notin Below({b} \cup Inputs(d))
    BY <1>0, <1>7, Zenon DEF ReleaseBuilds
  <2>2. tables \subseteq UNION {Prepared(f) : f \in Range(stack)}
    BY <1>2, Zenon DEF PipelineInv, TableInv, OnlyPendingProbesHold
  <2>3. PICK f \in Range(stack) : x \in Prepared(f)
    BY <2>1, <2>2, Zenon
  <2>4. PICK i \in 1 .. Len(stack) : f = stack[i]
    BY <1>3, <2>3 DEF Range
  <2>5. x \in Range(InputsOf[stack[i].of])
    BY <2>3, <2>4, Zenon DEF Prepared, Range
  <2>6. i # K + 1 /\ i # K
    BY <1>b, <1>3, <1>4, <2>1, <2>5, Zenon DEF Inputs
  <2>7. i \in 1 .. K - 1
    BY <1>3, <2>6
  <2> QED BY <2>3, <2>4, <2>7, Zenon
<1>8. ASSUME Len(stack) = 2 PROVE StackInv' /\ TableInv'
  <2>0. stack' = <<>> /\ phase' = "idle" /\ K = 1
    BY <1>0, <1>3, <1>8
  <2>1. StackInv'
    BY <2>0 DEF StackInv
  <2>2. TableInv'
    <3>1. tables' = {}
      BY <1>7, <2>0
    <3>2. OnlyPendingProbesHold'
      BY <3>1 DEF OnlyPendingProbesHold
    <3> QED BY <1>0, <1>2, <2>0, <3>2, Zenon DEF TableInv
  <2> QED BY <2>0, <2>1, <2>2, Zenon
<1>9. ASSUME Len(stack) # 2 PROVE StackInv' /\ TableInv'
  <2>0. stack' = Callers(stack) /\ phase' = "failing" /\ K > 1
    BY <1>0, <1>3, <1>9
  <2>1. Len(stack') = K /\ stack' # <<>> /\ \A i \in 1 .. K : stack'[i] = stack[i]
    BY <1>3, <2>0, Zenon
  <2>2. 1 .. K \subseteq 1 .. Len(stack) /\ 1 .. K - 1 \subseteq 1 .. Len(stack) - 1 /\ 1 \in 1 .. K
        /\ 1 .. K - 1 \subseteq 1 .. K /\ \A i \in 1 .. K - 1 : i + 1 \in 1 .. K
    BY <1>3
  <2>3. StackInv'
    <3>1. /\ stack' # <<>> <=> phase' \in {"builds", "parts", "failing"}
          /\ stack' # <<>> => ~sinkOpen' /\ stack'[1].of = Root
          /\ phase' \in {"parts", "failing"} => Len(stack') > 1
      BY <1>0, <1>2, <2>0, <2>1, <2>2, Zenon DEF PipelineInv, StackInv
    <3>2. \A i \in 1 .. K : stack'[i].next <= Len(InputsOf[stack'[i].of]) + 1
      BY <2>1, <2>2, Zenon DEF PipelineInv, StackInv
    <3>3. \A i \in 1 .. K - 1 : /\ stack'[i].next <= Len(InputsOf[stack'[i].of])
                                /\ stack'[i + 1].of = InputsOf[stack'[i].of][stack'[i].next]
      BY <2>1, <2>2, Zenon DEF PipelineInv, StackInv
    <3>4. \A i, j \in 1 .. K : \A x, c \in Stages :
            i < j /\ stack'[i].of = c /\ stack'[j].of = x => x \in Below(Inputs(c))
      BY <2>1, <2>2, SMTT(60) DEF PipelineInv, StackInv
    <3> QED BY <2>1, <3>1, <3>2, <3>3, <3>4, Zenon DEF StackInv
  <2>4. TableInv'
    <3>1. \A i \in 1 .. K - 1 : stack[i] \in Range(stack')
      BY <1>3, <2>0, <2>1, <2>2 DEF Range
    <3>2. \A f : Prepared(f)' = Prepared(f)
      BY DEF Prepared
    <3>3. OnlyPendingProbesHold'
      BY <1>0, <1>2, <1>7, <3>1, <3>2, Zenon DEF OnlyPendingProbesHold
    <3> QED BY <1>0, <1>2, <2>0, <3>3, Zenon DEF TableInv
  <2> QED BY <2>0, <2>3, <2>4, Zenon
<1>10. StackInv' /\ TableInv' /\ phase' \in {"idle", "failing"}
  <2>1. phase' \in {"idle", "failing"}
    BY <1>0
  <2> QED BY <1>8, <1>9, <2>1, Zenon
<1>11. TaskInv'
  BY <1>0, <1>1, <1>10, FreshTasks, Zenon DEF TaskInv
<1>12. SinkInv'
  BY <1>0, <1>2, <1>10, Zenon DEF SinkInv
<1>13. MarkInv'
  <2>1. RowsExact'
    BY <1>0, RowsKept, Zenon DEF PipelineInv, MarkInv
  <2> QED BY <1>0, <1>2, <2>1, Zenon DEF PipelineInv, MarkInv, MarksLive
<1> QED BY <1>6, <1>10, <1>11, <1>12, <1>13, Zenon DEF PipelineInv

-----------------------------------------------------------------------------
(* What follows.                                                            *)

\* Every step keeps PipelineInv.
LEMMA NextInd ==
  ASSUME Nested, Counts, PipelineInv, [PipelineNext]_pipelineVars
  PROVE  PipelineInv'
<1>1. CASE NextClosed \/ SinkNotOpened \/ AfterEnd \/ CallClose
  BY <1>1, ReturnsInd
<1>2. CASE CallNext
  BY <1>2, CallNextInd
<1>3. CASE PrepareNext
  BY <1>3, PrepareNextInd
<1>4. CASE BuildParts
  BY <1>4, BuildPartsInd
<1>5. CASE FinishTable
  BY <1>5, FinishTableInd
<1>6. CASE DropAhead \/ BuildFails \/ SinkPartFails
  BY <1>6, StopInd, SMTT(60)
<1>7. CASE FailUp
  BY <1>7, FailUpInd
<1>8. CASE TakePart
  BY <1>8, TakePartInd
<1>9. CASE RetryPart
  BY <1>9, RetryPartInd
<1>10. CASE OpenSink
  BY <1>10, OpenSinkInd
<1>11. CASE SinkFails
  BY <1>11, SinkFailsInd
<1>12. CASE UnionDone
  BY <1>12, UnionDoneInd
<1>13. CASE Probed
  BY <1>13, ProbedInd
<1>14. CASE EmitRow
  BY <1>14, EmitRowInd
<1>15. CASE EmitEnd
  BY <1>15, EmitEndInd
<1>16. CASE FinishClose
  BY <1>16, FinishCloseInd
<1>17. CASE Tasks
  <2>1. PICK p \in PartIds : StartPart(p) \/ LoadWord(p) \/ SetMark(p) \/ EndPart(p)
    BY <1>17 DEF Tasks
  <2> QED BY <2>1, StartPartInd, LoadWordInd, SetMarkInd, EndPartInd, Zenon
<1>18. CASE UNCHANGED pipelineVars
  <2>0. UNCHANGED <<sink, matches, opened, sinkOpen, phase, stack, tables, empties, marks, running,
                    stop, partTask, todo, loaded, alone, got, probed, ended, at, out>>
    BY <1>18, Zenon DEF pipelineVars, buildVars, taskVars, sinkVars
  <2>1. PipelineTypeOK'
    BY <2>0, SMTT(60) DEF PipelineInv, PipelineTypeOK, FlagsOK, BuildsOK, TasksOK
  <2>2. StackInv'
    BY <2>0 DEF PipelineInv, StackInv
  <2>3. TableInv'
    BY <2>0, BuildsKept, Zenon DEF PipelineInv
  <2>4. TaskInv'
    BY <2>0, Zenon DEF PipelineInv, TaskInv, PartInv, Marking
  <2>5. SinkInv'
    BY <2>0, Zenon DEF PipelineInv, SinkInv, Marking, Quiet
  <2>6. MarkInv'
    <3>1. MarksLive' <=> MarksLive
      BY <2>0 DEF MarksLive, Marking
    <3>2. \A p \in PartIds : PartMarks(p)' <=> PartMarks(p)
      BY <2>0, Zenon DEF PartMarks, Outermost
    <3>3. RowsExact'
      BY <2>0, RowsKept, Zenon DEF PipelineInv, MarkInv
    <3> QED BY <2>0, <3>1, <3>2, <3>3, Zenon DEF PipelineInv, MarkInv
  <2> QED BY <2>1, <2>2, <2>3, <2>4, <2>5, <2>6, Zenon DEF PipelineInv
<1> QED
  BY <1>1, <1>2, <1>3, <1>4, <1>5, <1>6, <1>7, <1>8, <1>9, <1>10, <1>11, <1>12, <1>13, <1>14,
     <1>15, <1>16, <1>17, <1>18, SMTT(60) DEF PipelineNext, Calls, Consumer

\* A part that runs, and the emitter, have what they read and write.
LEMMA PipelineImplies ==
  ASSUME Nested, Counts, PipelineInv
  PROVE  ProbesFindTables /\ OnlyPendingProbesHold /\ RowsExact
<1>1. NoUnpreparedProbe
  <2>1. \A p \in PartIds : partTask[p] # "invalid"
    BY DEF PipelineInv, TaskInv, PartInv
  <2> QED BY <2>1, EmitterHolds DEF NoUnpreparedProbe
<1>2. PinnedWhileRead
  <2> SUFFICES ASSUME NEW p \in PartIds, partTask[p] = "running"
               PROVE  FindsTables /\ (Stage = Root /\ Marking => marks # NoMarks)
    BY DEF PinnedWhileRead
  <2>1. running /\ ~ended
    BY Marks
  <2>2. FindsTables
    BY <2>1, RunningFinds
  <2>3. ASSUME Stage = Root, Marking PROVE marks # NoMarks
    <3>1. sinkOpen
      BY <2>1, <2>3, StageRoot, Zenon DEF PipelineInv, TaskInv
    <3>2. MarksLive
      BY <2>1, <2>3, <3>1, Zenon DEF MarksLive
    <3>3. marks \in SUBSET Rows
      BY <3>2 DEF PipelineInv, MarkInv
    <3>4. 0 \notin Rows
      BY DEF Rows
    <3> QED BY <3>3, <3>4 DEF NoMarks
  <2> QED BY <2>2, <2>3
<1> QED BY <1>1, <1>2, Zenon DEF ProbesFindTables, PipelineInv, TableInv, MarkInv

\* PipelineInv is an invariant of the pipeline.
LEMMA PipelineInvariant == PipelineSpec => []PipelineInv
<1> USE PipelineTree, PipelineCounts
<1>1. PipelineInit => PipelineInv
  BY InitInd
<1>2. PipelineInv /\ [PipelineNext]_pipelineVars => PipelineInv'
  BY NextInd
<1> QED BY <1>1, <1>2, PTL DEF PipelineSpec

\* For every tree of builds, any number of parts, rows and threads, and however parts fail, run
\* out of memory, are dropped or run again, and the consumer stops, closes and opens again: no
\* part and no emitter finds a table or the marks it needs missing or released under it, and a
\* table is held only for a pipeline that will probe it (JoinBuild::Release, ReleaseBuilds).
THEOREM PipelineHolds == PipelineSpec => []TablesHeld
<1>1. PipelineInv => TablesHeld
  BY PipelineTree, PipelineCounts, PipelineImplies, Zenon DEF TablesHeld
<1> QED BY <1>1, PipelineInvariant, PTL

\* In the same runs, the build rows a right or full join has emitted are those its parts matched
\* (or did not), in order, once: no mark of JoinMarks::Mark is lost to another part's.
THEOREM PipelineExact == PipelineSpec => []RowsExact
<1>1. PipelineInv => RowsExact
  BY PipelineTree, PipelineCounts, PipelineImplies, Zenon
<1> QED BY <1>1, PipelineInvariant, PTL

=============================================================================
