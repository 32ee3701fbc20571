------------------------------ MODULE HashJoin ------------------------------
(***************************************************************************)
(* The probe of a hash join, HashJoinOperator (src/exec/hash_join.cc), for *)
(* every kind of join and both build sides: it pulls the probe's batches,  *)
(* looks their keys up in the build's table and hands on the join's rows   *)
(* in batches of at most batch_size rows, resuming inside a probe batch;   *)
(* a join that emits its build rows marks the ones it matched and emits    *)
(* the marked or the unmarked ones after the probe (BuildRowEmitter).      *)
(*                                                                         *)
(* The build's table is what JoinTable promises: its rows grouped by key,  *)
(* a key's rows next to each other.  A probe row is [key, sel], sel its    *)
(* bit of the batch's selection.  The residuals are what they make of each *)
(* candidate pair together: "true", "false" (NULL too) or "error".  Every  *)
(* batch and its pairs' outcomes are chosen when the batch is pulled, so   *)
(* the number of batches is not bounded.                                   *)
(***************************************************************************)
EXTENDS JoinKind, Integers, Sequences, FiniteSets, FiniteSetsExt, SequencesExt

CONSTANTS
  Null,          \* SQL NULL, and the padded side of a row
  Keys,          \* the keys that are not NULL
  MaxSameKey,    \* the build rows of one key, at most
  MaxBuildRows,  \* the keyed build rows, at most
  MaxProbeRows,  \* the rows of a probe batch, at most
  BatchSizes,    \* ExecContext::batch_size
  ValuesRows     \* OneRowValues::rows, the copies of the one row

VARIABLES
  kind, side,  \* kind_, build_side_
  residual,    \* "none", "pairs", or "alike": candidates_alike_
  batchSize,   \* batch_size_
  rows,        \* the keys of JoinTable::rows(), grouped
  nulls,       \* the build's rows with a NULL key
  pc,          \* "start", "pull", "batch", "tail", "end" or "failed"
  keep,        \* keep_
  batch,       \* batch_, the last one pulled
  verdict,     \* what the residuals make of <<row of batch, build row>>
  window,      \* window_, from 0
  slot,        \* (row_, taken_): the slots of the batch taken
  evaluated,   \* evaluated_
  passed,      \* passed_: the rows of batch with a passing pair
  rowPassed,   \* row_passed_
  marks,       \* the build's JoinMarks
  tail,        \* BuildRowEmitter: the rows considered, the NULL-key ones after the keyed
  out,         \* the rows handed on since the last Pull
  opened,      \* input_opened_
  matched      \* history, of a join that emits its build rows: those of the pairs that pass, of
               \* every batch pulled

buildVars == <<kind, side, residual, batchSize, rows, nulls>>
batchVars == <<batch, verdict, window, slot, evaluated, passed, rowPassed>>
vars == <<buildVars, pc, keep, batchVars, marks, tail, out, opened, matched>>

T == Traits(kind)
EmitsBuild == EmitsBuildRows(kind, side)
EmitsUnmatched == EmitsUnmatchedBuildRows(kind, side)

\* The builds: how many rows of each key, and of NULL keys.  A one-row join has one row,
\* an unkeyed one.
Init ==
  /\ kind \in JoinKinds
  /\ side \in {s \in BuildSides : s = "left" => T["may_build_left"]}
  /\ residual \in {"none"} \cup (IF T["residuals"] THEN {"pairs"} ELSE {})
                   \cup (IF T["residuals"] /\ T["filters_left"] THEN {"alike"} ELSE {})
  /\ batchSize \in BatchSizes
  /\ \E count \in [Keys -> 0 .. MaxSameKey] :
       LET inOrder == SetToSeq(Keys)
       IN  rows = FlattenSeq([i \in DOMAIN inOrder |->
                    [n \in 1 .. count[inOrder[i]] |-> inOrder[i]]])
  /\ Len(rows) <= MaxBuildRows
  /\ nulls \in 0 .. 1
  /\ T["keyless"] => Len(rows) = 1 /\ nulls = 0
  /\ pc = "start"
  /\ keep = "none"
  /\ batch = <<>> /\ verdict = <<>> /\ window = 0 /\ slot = 0
  /\ evaluated = FALSE /\ passed = {} /\ rowPassed = FALSE
  /\ marks = {} /\ tail = 0 /\ out = <<>> /\ opened = FALSE /\ matched = {}

-----------------------------------------------------------------------------
(* The build's table                                                        *)

\* JoinTable::Find: the build rows of a probe row's key, none for a NULL key or a row the
\* batch does not select.
Find(probe) == IF probe.sel THEN {b \in DOMAIN rows : rows[b] = probe.key} ELSE {}

Unique == \A b, c \in DOMAIN rows : rows[b] = rows[c] => b = c

EmptiesJoin == EmptyBuildEmptiesJoin(kind) /\ rows = <<>>

-----------------------------------------------------------------------------
(* Start                                                                    *)

\* Whether the kind pads the probe's side.
PadsProbe == IF side = "left" THEN T["pads_left"] ELSE T["pads_right"]

KeepOf ==
  CASE kind = "anti" -> IF rows = <<>> THEN "all" ELSE "unmatched"
    [] kind = "null_aware_anti" ->
         IF nulls > 0 THEN "none" ELSE IF rows = <<>> THEN "all" ELSE "unmatched_not_null"
    [] kind = "one_row" -> "all"
    [] OTHER -> "matched"

\* Whether the probe's rows cannot change what comes out: its input is never opened.
EndsAtOnce ==
  \/ EmptiesJoin
  \/ EmitsBuild /\ EmitsUnmatched /\ ~PadsProbe /\ rows = <<>>

Start ==
  /\ pc = "start"
  /\ IF EndsAtOnce
     THEN pc' = (IF EmitsBuild THEN "tail" ELSE "end") /\ UNCHANGED <<keep, opened>>
     ELSE pc' = "pull" /\ keep' = KeepOf /\ opened' = TRUE
  /\ UNCHANGED <<buildVars, batchVars, marks, tail, out, matched>>

-----------------------------------------------------------------------------
(* Pull                                                                     *)

ProbeRows == [key : Keys, sel : {TRUE}] \cup {[key |-> k, sel |-> FALSE] : k \in {Max(Keys)}}
               \cup {[key |-> Null, sel |-> TRUE]}

Batches == UNION {[1 .. n -> ProbeRows] : n \in 1 .. MaxProbeRows}

\* The outcomes of the residuals for the candidate pairs of b: at most one error, and with
\* alike candidates one outcome for the pairs of a row.
Verdicts(b) ==
  LET pairs == {p \in (DOMAIN b) \X (DOMAIN rows) : p[2] \in Find(b[p[1]])}
      plain == [pairs -> {"true", "false"}]
      withError == {[f EXCEPT ![p] = "error"] : f \in plain, p \in pairs}
      alike == {[p \in pairs |-> f[p[1]]] : f \in [DOMAIN b -> {"true", "false", "error"}]}
  IN  CASE residual = "none" -> {[p \in pairs |-> "true"]}
        [] residual = "alike" -> alike
        [] OTHER -> plain \cup withError

\* The loop of Next comes around with no batch_: what the done or dropped batch held, kept
\* until here beside the rows it gave, is gone.
NextRound ==
  /\ pc = "pull" /\ batch # <<>>
  /\ batch' = <<>> /\ verdict' = <<>> /\ window' = 0 /\ slot' = 0
  /\ evaluated' = FALSE /\ passed' = {} /\ rowPassed' = FALSE
  /\ out' = <<>>
  /\ UNCHANGED <<buildVars, pc, keep, marks, tail, opened, matched>>

\* The next batch: dropped when nothing of it can come out, else its keys are looked up.
PullBatch ==
  /\ pc = "pull" /\ batch = <<>>
  /\ \E b \in Batches :
       /\ batch' = b
       /\ verdict' \in Verdicts(b)
       /\ pc' = IF keep = "none" \/ \A i \in DOMAIN b : ~b[i].sel THEN "pull" ELSE "batch"
  /\ matched' = IF EmitsBuild
                  THEN matched \cup {p[2] : p \in {q \in DOMAIN verdict' : verdict'[q] = "true"}}
                  ELSE matched
  /\ UNCHANGED <<buildVars, keep, window, slot, evaluated, passed, rowPassed, marks, tail, out,
                 opened>>

\* The input ends: a join that emits its build rows does so now.
PullEnd ==
  /\ pc = "pull" /\ batch = <<>>
  /\ pc' = IF EmitsBuild THEN "tail" ELSE "end"
  /\ UNCHANGED <<buildVars, keep, batchVars, marks, tail, out, opened, matched>>

-----------------------------------------------------------------------------
(* What a batch gives                                                       *)

\* A probe row (or Null) beside a build row (or Null), the left input's side first.
Assemble(i, b) == IF side = "left" THEN <<b, i>> ELSE <<i, b>>

\* NextRange: the rows of the next window, and the operator's place after it.
NextRange(limit) == {i \in DOMAIN batch : window < i /\ i <= window + limit}

Done == window >= Len(batch)

\* A set of positions in order.
InOrder(S) == SelectSeq([i \in 1 .. Max(S \cup {0}) |-> i], LAMBDA i : i \in S)

\* The candidates a row takes slots for: with alike ones the first stands for the others.
CandidatesOf(i) ==
  IF residual = "alike" /\ Find(batch[i]) # {} THEN {Min(Find(batch[i]))} ELSE Find(batch[i])

\* NextSlots, all of a batch's: a pair per candidate, a padded one for a row without a
\* candidate where the probe's side is padded.
Slots ==
  LET of(i) ==
        LET inOrder == InOrder(CandidatesOf(i))
        IN  IF inOrder = <<>>
            THEN IF PadsProbe /\ batch[i].sel
                 THEN <<[row |-> i, build |-> Null, last |-> TRUE]>> ELSE <<>>
            ELSE [n \in DOMAIN inOrder |->
                    [row |-> i, build |-> inOrder[n], last |-> n = Len(inOrder)]]
  IN  FlattenSeq([i \in DOMAIN batch |-> of(i)])

\* The next slots, at most batch_size of them.
NextSlots == LET all == Slots IN SubSeq(all, slot + 1, Min({slot + batchSize, Len(all)}))

\* taken_ > 0 after n slots: the row of the n-th goes on in the next.
Continues(n) == LET all == Slots IN n \in 1 .. Len(all) /\ ~all[n].last

PairsOf(slots) == {n \in DOMAIN slots : slots[n].build # Null}

VerdictOf(s) == verdict[<<s.row, s.build>>]

\* Mutant: a row's pairs after one that passed are not evaluated.
ErrsMutant(slots) ==
  \E n \in PairsOf(slots) :
    /\ VerdictOf(slots[n]) = "error"
    /\ \A m \in 1 .. n - 1 : slots[m].row = slots[n].row => VerdictOf(slots[m]) # "true"

\* PassingSlots: the pairs that pass, or an error of one of them.
Errs(slots) == \E n \in PairsOf(slots) : VerdictOf(slots[n]) = "error"
PassingSlots(slots) == {n \in PairsOf(slots) : VerdictOf(slots[n]) = "true"}

\* Whether a pair of the n-th slot's row passed in these slots up to n or, for the row
\* the slots begin inside of, before.
AnyUpTo(slots, n) ==
  \/ \E m \in PassingSlots(slots) : m <= n /\ slots[m].row = slots[n].row
  \/ Continues(slot) /\ slots[n].row = slots[1].row /\ rowPassed

\* Mutant: only the pairs of these slots decide whether a row is padded.
KeepPassingOrPaddedMutant(slots) ==
  LET passing == PassingSlots(slots)
      kept == {n \in DOMAIN slots :
                 \/ n \in passing
                 \/ slots[n].last /\ \A m \in passing : slots[m].row # slots[n].row}
      inOrder == InOrder(kept)
  IN  [k \in DOMAIN inOrder |->
         IF inOrder[k] \in passing THEN slots[inOrder[k]]
         ELSE [slots[inOrder[k]] EXCEPT !.build = Null]]

\* The slots kept: the padded ones, the pairs that passed, and the last candidate of a row
\* none of whose pairs did, padded.
KeepPassingOrPadded(slots) ==
  LET passing == PassingSlots(slots)
      kept == {n \in DOMAIN slots : n \in passing \/ (slots[n].last /\ ~AnyUpTo(slots, n))}
      inOrder == InOrder(kept)
  IN  [k \in DOMAIN inOrder |->
         IF inOrder[k] \in passing THEN slots[inOrder[k]]
         ELSE [slots[inOrder[k]] EXCEPT !.build = Null]]

\* The pairs that passed, in order.
Passing(slots) == SelectSeq(slots, LAMBDA s : VerdictOf(s) = "true")

\* The output rows of the slots.
Emit(slots) == [n \in DOMAIN slots |-> Assemble(slots[n].row, slots[n].build)]

-----------------------------------------------------------------------------
(* NextOutput, by kind.  A step is one output batch or none, or the end of  *)
(* the probe batch.                                                         *)

\* The batch is done: batch_ is cleared, and Next goes round for another (NextRound).
BatchDone == pc' = "pull" /\ UNCHANGED <<buildVars, keep, batchVars, marks, tail, out, opened, matched>>

\* A residual fails: Next returns its status.
Fail == pc' = "failed" /\ UNCHANGED <<buildVars, keep, batchVars, marks, tail, out, opened, matched>>

\* The next window is handed on: the rows `emit`.
HandOnWindow(range, emit) ==
  /\ window' = Max(range)
  /\ out' = out \o emit
  /\ UNCHANGED <<buildVars, pc, keep, batch, verdict, slot, evaluated, passed, rowPassed, tail,
                 opened, matched>>

\* The selected rows of a range that satisfy keeps, beside the build row of(i).
SlotsOf(range, keeps(_), of(_)) ==
  LET inOrder == InOrder({i \in range : keeps(i)})
  IN  [n \in DOMAIN inOrder |-> [row |-> inOrder[n], build |-> of(inOrder[n])]]

HasMatch(i) == Find(batch[i]) # {}
MatchOf(i) == IF HasMatch(i) THEN Min(Find(batch[i])) ELSE Null
Selected(i) == batch[i].sel

\* Inner over unique keys, CompactWindow included: the window's rows that matched.
NextWindow ==
  /\ kind = "inner" /\ Unique
  /\ LET range == NextRange(batchSize)
         pairs == SlotsOf(range, HasMatch, MatchOf)
     IN  IF Done THEN BatchDone
         ELSE IF Errs(pairs) THEN Fail
         ELSE HandOnWindow(range, Emit(Passing(pairs))) /\ UNCHANGED marks

\* Left and full without residuals, over unique keys: the window's selected rows.
NextLeftWindow ==
  /\ kind \in {"left", "full"} /\ Unique /\ residual = "none"
  /\ LET range == NextRange(batchSize)
     IN  IF Done THEN BatchDone
         ELSE /\ HandOnWindow(range, Emit(SlotsOf(range, Selected, MatchOf)))
              /\ marks' = IF EmitsBuild THEN marks \cup UNION {Find(batch[i]) : i \in range}
                          ELSE marks

\* Each selected row with the one row, sliced from its copies.
NextOneRow ==
  /\ kind = "one_row"
  /\ LET range == NextRange(Min({batchSize, ValuesRows}))
     IN  IF Done THEN BatchDone
         ELSE /\ HandOnWindow(range, Emit(SlotsOf(range, Selected, LAMBDA i : 1)))
              /\ UNCHANGED marks

\* Whether a semi, anti or null-aware anti probe keeps row i.
Keeps(i) ==
  LET hit == IF evaluated THEN i \in passed ELSE HasMatch(i)
  IN  CASE keep = "matched" -> hit
        [] keep = "unmatched" -> Selected(i) /\ ~hit
        [] keep = "unmatched_not_null" -> Selected(i) /\ batch[i].key # Null /\ ~hit
        [] OTHER -> Selected(i)

IsFilter == T["filters_left"] /\ ~EmitsBuild

\* Before the first window of a batch with residuals, all of its pairs, slots by slots.
EvaluatePairs ==
  /\ IsFilter /\ residual # "none" /\ keep # "all" /\ ~evaluated
  /\ LET slots == NextSlots
     IN  IF slots = <<>>
         THEN /\ evaluated' = TRUE
              /\ UNCHANGED <<buildVars, pc, keep, batch, verdict, window, slot, passed, rowPassed,
                             marks, tail, out, opened, matched>>
         ELSE IF Errs(slots) THEN Fail
         ELSE /\ passed' = passed \cup {slots[n].row : n \in PassingSlots(slots)}
              /\ slot' = slot + Len(slots)
              /\ UNCHANGED <<buildVars, pc, keep, batch, verdict, window, evaluated, rowPassed,
                             marks, tail, out, opened, matched>>

NextSelected ==
  /\ IsFilter /\ (residual = "none" \/ keep = "all" \/ evaluated)
  /\ LET range == NextRange(batchSize)
     IN  IF Done THEN BatchDone
         ELSE /\ HandOnWindow(range, Emit(SlotsOf(range, Keeps, LAMBDA i : Null)))
              /\ UNCHANGED marks

-----------------------------------------------------------------------------
(* The slots of pairs                                                       *)

HandOnSlots(slots, emit) ==
  /\ slot' = slot + Len(slots)
  /\ out' = out \o emit
  /\ UNCHANGED <<buildVars, pc, keep, batch, verdict, window, evaluated, passed, tail, opened,
                 matched>>

\* Inner over keys that are not unique: each pair, and the residuals over the pairs.
NextPairs ==
  /\ kind = "inner" /\ ~Unique
  /\ LET slots == NextSlots
     IN  IF slots = <<>> THEN BatchDone
         ELSE IF Errs(slots) THEN Fail
         ELSE /\ HandOnSlots(slots, Emit(Passing(slots)))
              /\ UNCHANGED <<rowPassed, marks>>

\* The build rows a full join marks: those of the pairs it emits.
PaddedMarks(slots) == {slots[n].build : n \in PassingSlots(slots)}

\* Left and full with residuals or keys that are not unique.
NextPadded ==
  /\ kind \in {"left", "full"} /\ ~(Unique /\ residual = "none")
  /\ LET slots == NextSlots
     IN  IF slots = <<>> THEN BatchDone
         ELSE IF Errs(slots) THEN Fail
         ELSE /\ HandOnSlots(slots, Emit(KeepPassingOrPadded(slots)))
              /\ marks' = IF EmitsBuild THEN marks \cup PaddedMarks(slots) ELSE marks
              /\ rowPassed' = IF residual = "none" THEN rowPassed
                              ELSE Continues(slot + Len(slots)) /\ AnyUpTo(slots, Len(slots))

\* Semi and anti on a left build: marks the whole batch, and hands no row on.  With alike
\* candidates a row's one pair marks the rows of its key.
MarkedBy(slots) ==
  UNION {IF residual = "alike" THEN Find(batch[slots[n].row]) ELSE {slots[n].build} :
           n \in PassingSlots(slots)}

MarkMatches ==
  /\ T["filters_left"] /\ EmitsBuild
  /\ LET slots == Slots
     IN  IF Errs(slots) THEN Fail
         ELSE /\ marks' = marks \cup MarkedBy(slots)
              /\ pc' = "pull"
              /\ UNCHANGED <<buildVars, keep, batchVars, tail, out, opened, matched>>

NextOutput ==
  /\ pc = "batch"
  /\ \/ NextWindow \/ NextLeftWindow \/ NextOneRow \/ EvaluatePairs \/ NextSelected
     \/ NextPairs \/ NextPadded \/ MarkMatches

-----------------------------------------------------------------------------
(* BuildRowEmitter, after the probe                                         *)

\* The keyed rows the marks select, or for a join that emits its unmatched rows those they
\* do not; the NULL-key ones, after the keyed, come out of such a join only.
TailRows == {b \in DOMAIN rows : (b \in marks) # EmitsUnmatched}
NullRows == IF EmitsUnmatched THEN Len(rows) + 1 .. Len(rows) + nulls ELSE {}

\* BuildRowEmitter::Next: a batch of keyed rows, then of NULL-key ones, then the end.
EmitBuildRows ==
  /\ pc = "tail"
  /\ LET keyed == {b \in TailRows : b > tail}
         left == IF keyed # {} THEN keyed ELSE {b \in NullRows : b > tail}
         next == SubSeq(InOrder(left), 1, Min({batchSize, Cardinality(left)}))
     IN  /\ tail' = IF left = {} THEN tail ELSE Last(next)
         /\ out' = out \o [n \in DOMAIN next |-> Assemble(Null, next[n])]
         /\ pc' = IF left = {} THEN "end" ELSE "tail"
  /\ UNCHANGED <<buildVars, keep, batchVars, marks, opened, matched>>

Next == Start \/ NextRound \/ PullBatch \/ PullEnd \/ NextOutput \/ EmitBuildRows

Spec == Init /\ [][Next]_vars

-----------------------------------------------------------------------------
(* What the kinds mean, row by row (the comments of plan::JoinKind)         *)

\* The build rows row i of batch b matches when the residuals make v of the pairs.
MatchesOf(b, v, i) == {c \in DOMAIN rows : <<i, c>> \in DOMAIN v /\ v[<<i, c>>] = "true"}

RowsOf(b, v, i) ==
  LET hits == InOrder(MatchesOf(b, v, i))
      pairs == [n \in DOMAIN hits |-> Assemble(i, hits[n])]
      alone == <<Assemble(i, Null)>>
      once(p) == IF p THEN alone ELSE <<>>
  IN  CASE ~b[i].sel -> <<>>
        [] kind = "inner" -> pairs
        [] kind \in {"left", "full"} -> IF hits = <<>> THEN alone ELSE pairs
        [] kind = "one_row" -> <<Assemble(i, 1)>>
        [] EmitsBuild -> <<>>
        [] kind = "semi" -> once(hits # <<>>)
        [] kind = "anti" -> once(hits = <<>>)
        [] OTHER -> once(\/ rows = <<>> /\ nulls = 0
                         \/ nulls = 0 /\ b[i].key # Null /\ hits = <<>>)

JoinOf(b, v) == FlattenSeq([i \in DOMAIN b |-> RowsOf(b, v, i)])

-----------------------------------------------------------------------------
(* Properties                                                               *)

\* The rows a probe batch gives, over all its windows or slots, are the join's rows of its
\* own rows by the kind, in probe order and a row's matches in the build's order, whatever
\* batch_size splits them (NextWindow, NextLeftWindow, NextSelected, NextPairs, NextPadded).
BatchExact == pc = "pull" => out = JoinOf(batch, verdict)

\* The marks are the build rows of the pairs that pass the residuals, of every batch so
\* far (MarkMatches, NextPadded, NextLeftWindow).
MarksExact == pc \in {"pull", "tail", "end"} /\ EmitsBuild => marks = matched

\* After the probe come the build rows the kind keeps: the matched ones of a semi join, the
\* others and those with a NULL key of an anti and a full join, once each and in the
\* table's order (BuildRowEmitter).
TailExact ==
  pc = "end" /\ EmitsBuild =>
    LET kept == IF kind = "semi" THEN matched
                ELSE ((DOMAIN rows) \ matched) \cup Len(rows) + 1 .. Len(rows) + nulls
        inOrder == InOrder(kept)
    IN  out = [n \in DOMAIN inOrder |-> Assemble(Null, inOrder[n])]

\* A join whose probe is never opened (Start: EmptiesJoin, or no mark can be set) could
\* not have handed on a row of it, whatever the probe held.
UnreadProbe ==
  pc \in {"tail", "end"} /\ ~opened =>
    \A b \in Batches : \A v \in Verdicts(b) : JoinOf(b, v) = <<>>

\* A residual that fails on a pair fails the join, and nothing else does, whatever the
\* batch size and however early the pair's row matched: every pair is evaluated
\* (PassingSlots, EvaluatePairs; hash_join.h, "Every pair is evaluated").
ErrorsSurface ==
  LET errs == \E p \in DOMAIN verdict : verdict[p] = "error"
  IN  (pc = "pull" => ~errs) /\ (pc = "failed" => errs)
=============================================================================
