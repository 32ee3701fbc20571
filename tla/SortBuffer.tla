----------------------------- MODULE SortBuffer -----------------------------
(***************************************************************************)
(* The comparator, the statistics test and the buffer that ORDER BY and    *)
(* top-N are built on (src/exec/sort.cc, src/exec/part_pruning.cc): rows   *)
(* added in input order and sorted stably, or only the first `keep` of     *)
(* them kept, with rows that cannot be among those dropped on arrival.     *)
(*                                                                         *)
(* A row is [key |-> <<k1, k2, ...>>, id |-> ...]: its sort keys, each a   *)
(* number or Null, and the rest of its columns.  Values that compare equal *)
(* (0.0 and -0.0, two NaNs) are one number here.  A comparator is          *)
(* [keys |-> <<[descending, nulls_first], ...>>, exact |-> BOOLEAN].       *)
(***************************************************************************)
EXTENDS Integers, Sequences, FiniteSets, FiniteSetsExt, SequencesExt

CONSTANTS
  Null,      \* SQL NULL
  NoValue,   \* an empty std::optional
  MaxInt64,  \* std::numeric_limits<int64_t>::max()
  MinSlack   \* kMinSlack: rows a buffer may hold beyond `keep` before it compacts

SaturatingAdd(a, b) == IF a + b > MaxInt64 THEN MaxInt64 ELSE a + b

-----------------------------------------------------------------------------
(* RowComparator *)

\* Whether one non-NULL value is before another, ascending.
ValueBefore(x, y) == x < y

\* -1, 0 or 1: row a before, tied with, or after row b, by the keys from `first` on.
Compare(cmp, a, b, first) ==
  LET differ == {k \in first .. Len(cmp.keys) : a.key[k] # b.key[k]}
      k == Min(differ)
      before == IF Null \in {a.key[k], b.key[k]}
                THEN (a.key[k] = Null) = cmp.keys[k].nulls_first
                ELSE ValueBefore(a.key[k], b.key[k]) # cmp.keys[k].descending
  IN  IF differ = {} THEN 0 ELSE IF before THEN -1 ELSE 1

\* The order-preserving bits of a first key; an inexact prefix loses the low ones.
PrefixBits(cmp, v) == IF cmp.exact THEN v ELSE v \div 2

PrefixOf(cmp, row) ==
  LET v == row.key[1]
  IN  IF v = Null
      THEN [group |-> IF cmp.keys[1].nulls_first THEN 0 ELSE 2, bits |-> 0]
      ELSE [group |-> 1,
            bits |-> IF cmp.keys[1].descending
                     THEN MaxInt64 - PrefixBits(cmp, v) ELSE PrefixBits(cmp, v)]

\* The order SortBuffer::Sort sorts its entries by: the prefixes, then the keys
\* from the first one a prefix does not settle.
EntryLess(cmp, a, b) ==
  LET p == PrefixOf(cmp, a)
      q == PrefixOf(cmp, b)
  IN  IF p.group # q.group THEN p.group < q.group
      ELSE IF p.group # 1 THEN Compare(cmp, a, b, 2) < 0
      ELSE IF p.bits # q.bits THEN p.bits < q.bits
      ELSE Compare(cmp, a, b, IF cmp.exact THEN 2 ELSE 1) < 0

\* The sequence s in the order of Less, elements neither of which is less in the
\* order they had: what std::ranges::stable_sort leaves.
StableSort(s, Less(_, _)) ==
  LET Insert(sorted, x) ==
        LET before == Len(SelectSeq(sorted, LAMBDA y : ~Less(x, y)))
        IN  SubSeq(sorted, 1, before) \o <<x>> \o SubSeq(sorted, before + 1, Len(sorted))
  IN  FoldLeft(Insert, <<>>, s)

-----------------------------------------------------------------------------
(* SortBuffer: keep is a number or NoValue; a reference is <<chunk, row>>.  *)

NewBuffer(keep) ==
  [keep |-> keep, chunks |-> <<>>, order |-> <<>>, threshold |-> NoValue, sorted |-> FALSE]

RowAt(buf, ref) == buf.chunks[ref[1]][ref[2]]

RowsOf(buf) == FlattenSeq(buf.chunks)

NumRows(buf) == Len(RowsOf(buf))

\* SortBuffer::Slice: rows [begin, end) of the sorted order.
Slice(buf, begin, end) == [i \in 1 .. end - begin |-> RowAt(buf, buf.order[begin + i])]

RefsOf(buf) ==
  FlattenSeq([c \in DOMAIN buf.chunks |-> [r \in DOMAIN buf.chunks[c] |-> <<c, r>>]])

\* SortBuffer::Sort without `keep`.
SortAll(cmp, buf) ==
  [buf EXCEPT !.order = StableSort(RefsOf(buf),
                          LAMBDA x, y : EntryLess(cmp, RowAt(buf, x), RowAt(buf, y))),
              !.sorted = TRUE]

\* Sorts, keeps the first rows as one chunk and remembers the last one kept.
Compact(cmp, buf) ==
  LET limit == IF buf.keep = NoValue THEN NumRows(buf) ELSE buf.keep
      kept == Min({NumRows(buf), limit})
      rows == Slice(SortAll(cmp, buf), 0, kept)
  IN  [buf EXCEPT !.chunks = IF kept > 0 THEN <<rows>> ELSE <<>>,
                  !.order = [r \in 1 .. kept |-> <<1, r>>],
                  !.threshold = IF kept > 0 /\ kept = limit THEN <<1, kept>> ELSE NoValue,
                  !.sorted = TRUE]

Sort(cmp, buf) == IF buf.keep = NoValue THEN SortAll(cmp, buf) ELSE Compact(cmp, buf)

\* The rows of a batch that can still be among the first `keep`.
BetterRows(cmp, buf, rows) ==
  IF buf.threshold = NoValue THEN rows
  ELSE SelectSeq(rows, LAMBDA r : Compare(cmp, r, RowAt(buf, buf.threshold), 1) < 0)

\* Mutant: the slack on top of twice the rows to keep.
OutgrownMutant(buf) ==
  /\ buf.keep # NoValue
  /\ NumRows(buf) > SaturatingAdd(buf.keep, SaturatingAdd(buf.keep, MinSlack))

\* The rows beyond `keep` outgrew `keep`, and the least slack.
Outgrown(buf) ==
  /\ buf.keep # NoValue
  /\ NumRows(buf) > SaturatingAdd(buf.keep, Max({buf.keep, MinSlack}))

Add(cmp, buf, rows) ==
  LET better == BetterRows(cmp, buf, rows)
      unsorted == [buf EXCEPT !.sorted = FALSE]
      pushed == [unsorted EXCEPT !.chunks = Append(@, better)]
  IN  IF rows = <<>> THEN buf
      ELSE IF better = <<>> THEN unsorted
      ELSE IF Outgrown(pushed) THEN Compact(cmp, pushed) ELSE pushed

\* SortBuffer::Merge: the other buffer's chunks added in their order.
Merge(cmp, buf, other) ==
  FoldLeft(LAMBDA b, chunk : Add(cmp, b, chunk), buf, other.chunks)

Tighten(cmp, buf) ==
  IF \/ buf.keep = NoValue
     \/ NumRows(buf) < buf.keep
     \/ buf.sorted /\ buf.threshold # NoValue
  THEN buf ELSE Compact(cmp, buf)

\* The first key of the threshold row, NoValue where it is Null.
ThresholdKey(buf) ==
  IF buf.threshold = NoValue \/ RowAt(buf, buf.threshold).key[1] = Null
  THEN NoValue ELSE RowAt(buf, buf.threshold).key[1]

\* Mutant: the OFFSET is kept but not skipped.
WindowOfMutant(buf, limit, offset) ==
  [next |-> 0,
   end |-> IF limit = NoValue THEN NumRows(buf) ELSE Min({NumRows(buf), limit})]

\* The rows [next_, end_) of the sorted buffer that a LIMIT and an OFFSET select.
WindowOf(buf, limit, offset) ==
  LET next == Min({offset, NumRows(buf)})
  IN  [next |-> next,
       end |-> IF limit = NoValue THEN NumRows(buf)
               ELSE Min({NumRows(buf), SaturatingAdd(next, limit)})]

\* How many rows to keep: LIMIT + OFFSET, saturated.
KeepOf(limit, offset) == IF limit = NoValue THEN NoValue ELSE SaturatingAdd(limit, offset)

-----------------------------------------------------------------------------
(* What ORDER BY .. LIMIT .. OFFSET means: the reference for both users.    *)

OrderedBy(cmp, rows) == StableSort(rows, LAMBDA a, b : Compare(cmp, a, b, 1) < 0)

ExpectedWindow(cmp, rows, limit, offset) ==
  LET last == IF limit = NoValue THEN Len(rows) ELSE Min({Len(rows), offset + limit})
  IN  SubSeq(OrderedBy(cmp, rows), offset + 1, last)
=============================================================================
