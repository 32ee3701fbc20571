------------------------------- MODULE MCScan -------------------------------
(***************************************************************************)
(* Scans and the rows computed from them, for one run of TLC: a behaviour  *)
(* is one of a filtered scan of a part, of the parts and rows a scan       *)
(* leaves out, of a table of files that other programs replace, of the     *)
(* Filter and Compute operators, or of DECIMAL arithmetic, and leaves the  *)
(* others' variables idle.                                                 *)
(***************************************************************************)
EXTENDS FilteredScan, JoinKind

CONSTANTS Idle, Null, Fails

VARIABLES
  running,                                                               \* the component
  joins, predicates, parts, hasStats, published, pays, kept, scanned, answer,    \* KeyScan
  disk, replaced, infos, table, scan, handle,                                    \* ParquetTable
  stream, filters, expr, batchesRead, batchesOut, failed, ended,                 \* Expressions
  exprs, row, limit, computed, decimalFailed                                     \* DecimalProgram

-----------------------------------------------------------------------------
(* Chains of two joins over a scan, and predicates over one join. *)

NullKey == 0

\* The sides a kind may build on.
Shapes == (JoinKinds \ {"one_row"}) \X {"right"} \cup {"inner", "semi", "anti"} \X {"left"}

\* A join that emits its build rows ends the pipeline: only the outermost may be one.
InnerShapes == {s \in Shapes : ~EmitsBuildRows(s[1], s[2])}

Join(shape, key, build) == [kind |-> shape[1], build |-> shape[2], key |-> key, rows |-> build]

Builds == {{}, {<<1>>, <<3>>}, {<<2>>, <<NullKey>>}}

OutputWidth(shape) == IF Traits(shape[1])["outputs_right"] THEN 3 ELSE 2

Chains ==
  UNION {{<<Join(outer, ok, b[1]), Join(inner, ik, b[2])>> :
            ok \in 1 .. OutputWidth(inner), ik \in 1 .. 2, b \in {p \in Builds \X Builds : p[1] # p[2]}} :
         outer \in Shapes, inner \in InnerShapes}

\* Parts that an interval of keys, or only the keys themselves, rule out, by either column.
TwoParts == {<<{<<1, 2>>, <<3, 2>>}, {<<2, 1>>, <<NullKey, 1>>}>>}

OneJoin == {<<Join(shape, 1, {<<2>>, <<NullKey>>})>> : shape \in Shapes}

Compares == {[kind |-> "compare", column |-> 1, op |-> op, c |-> c] :
               op \in {"eq", "ne", "lt", "le", "gt", "ge"}, c \in 1 .. 3}

Conjunctions ==
  {{p} : p \in Compares
         \cup {[kind |-> "in", column |-> 1, values |-> v] : v \in {{1}, {1, 3}, {2, 3}}}
         \cup {[kind |-> k, column |-> 1] : k \in {"not_null", "null", "false"}}}
    \cup {{[kind |-> "compare", column |-> 1, op |-> "ge", c |-> 2],
           [kind |-> "compare", column |-> 2, op |-> "ne", c |-> 2]}}

SmallParts == {p \in SUBSET ((0 .. 3) \X {2}) : Cardinality(p) \in 1 .. 2}

KeyScan == INSTANCE KeyScan WITH
  left <- kept,
  Queries <- [joins : Chains, predicates : {{}}, parts : TwoParts]
               \cup [joins : OneJoin, predicates : Conjunctions,
                     parts : {<<p, {<<2, 1>>}>> : p \in SmallParts}]

-----------------------------------------------------------------------------
File(size, footer, schema, physical, groups) ==
  [size |-> size, footer |-> footer, schema |-> schema, physical |-> physical, groups |-> groups]

\* Files of one schema, two of them of one size, an empty row group, a DECIMAL stored as bytes;
\* and a file of another schema.
FileContents ==
  {File(10, 1, "s", "int64", <<1, 0, 2>>), File(10, 2, "s", "int64", <<2>>),
   File(12, 3, "s", "fixed_len_byte_array", <<1, 1>>), File(12, 4, "t", "int32", <<1>>)}

ParquetTable == INSTANCE ParquetTable WITH NumFiles <- 2, Contents <- FileContents, MaxReplaced <- 2

-----------------------------------------------------------------------------
(* Streams of two batches of two rows, the second of a batch selected or not, *)
(* under up to two predicates; expressions over one batch.                    *)

Batches == [vals : [1..2 -> {0, 1, 2, Null}], sel : {<<TRUE, TRUE>>, <<TRUE, FALSE>>}]

Filters ==
  {[kind |-> k, values |-> <<>>] : k \in {"is_null", "is_not_null", "false"}}
    \cup {[kind |-> "compare", values |-> <<1>>], [kind |-> "in", values |-> <<0, 1>>],
          [kind |-> "not_in", values |-> <<1>>]}

Expressions == INSTANCE Expressions WITH
  Column <- {0, 1, 2, Null}, Failing <- 2, BatchRows <- 2,
  Streams <- {<<a, b>> : a \in {x \in Batches : x.vals[1] = 1}, b \in Batches},
  FilterPredicates <- Filters,
  predicates <- filters, read <- batchesRead, out <- batchesOut

-----------------------------------------------------------------------------
(* A DECIMAL column of two binary digits and one of the widest, both with     *)
(* values beyond their widths, the least of their physical ones included, and *)
(* an integer.                                                                *)

Decimal(width, scale) == [int |-> FALSE, width |-> width, scale |-> scale]

DecimalColumns ==
  [a |-> Decimal(2, 1), w |-> Decimal(5, 1), i |-> [int |-> TRUE, width |-> 1, scale |-> 0]]

DecimalLeaves ==
  {[node |-> "column", column |-> c] : c \in DOMAIN DecimalColumns}
    \cup {[node |-> "constant", type |-> Decimal(1, 0), v |-> -1]}

DecimalProgram == INSTANCE DecimalProgram WITH
  Base <- 2, SmallWidth <- 3, MaxWidth <- 5, Int64Max <- 9, Int128Max <- 40,
  Columns <- DecimalColumns, Leaves <- DecimalLeaves,
  ColumnRows <- [a : {-10, -3, 9}, w : {-41, 31, 35}, i : {1}]
                  \cup {[a |-> Null, w |-> 35, i |-> 1], [a |-> 9, w |-> 35, i |-> Null]},
  InnerOps <- {"add", "mul", "mod"}, OuterOps <- {"sub", "mul"}, StepLimits <- {1, 2},
  done <- computed, failed <- decimalFailed

-----------------------------------------------------------------------------
keyScanVars == <<joins, predicates, parts, hasStats, published, pays, kept, scanned, answer>>
parquetTableVars == <<disk, replaced, infos, table, scan, handle>>
expressionVars == <<stream, filters, expr, batchesRead, batchesOut, failed, ended>>
decimalVars == <<exprs, row, limit, computed, decimalFailed>>
vars ==
  <<running, filteredScanVars, keyScanVars, parquetTableVars, expressionVars, decimalVars>>

\* A scan at its start: the unfiltered scan of a part of ones.
RestingFilteredScan ==
  /\ value = [f \in Fields |-> [r \in Rows |-> 1]]
  /\ pushed = <<>> /\ keys = NoKeys /\ filterOnly = {} /\ late = FALSE
  /\ dictionary = FALSE /\ dictSize = 0
  /\ FilteredScanInit

IdleKeyScan ==
  /\ joins = Idle /\ predicates = Idle /\ parts = Idle /\ hasStats = Idle
  /\ published = Idle /\ pays = Idle /\ kept = Idle /\ scanned = Idle /\ answer = Idle

IdleParquetTable ==
  /\ disk = Idle /\ replaced = Idle /\ infos = Idle
  /\ table = Idle /\ scan = Idle /\ handle = Idle

IdleExpressions ==
  /\ stream = Idle /\ filters = Idle /\ expr = Idle /\ batchesRead = Idle
  /\ batchesOut = Idle /\ failed = Idle /\ ended = Idle

IdleDecimals ==
  exprs = Idle /\ row = Idle /\ limit = Idle /\ computed = Idle /\ decimalFailed = Idle

Init ==
  \/ /\ running = "FilteredScan" /\ FilteredScanInit
     /\ IdleKeyScan /\ IdleParquetTable /\ IdleExpressions /\ IdleDecimals
  \/ /\ running = "KeyScan" /\ KeyScan!Init
     /\ RestingFilteredScan /\ IdleParquetTable /\ IdleExpressions /\ IdleDecimals
  \/ /\ running = "ParquetTable" /\ ParquetTable!Init
     /\ RestingFilteredScan /\ IdleKeyScan /\ IdleExpressions /\ IdleDecimals
  \/ /\ running = "Expressions" /\ Expressions!Init
     /\ RestingFilteredScan /\ IdleKeyScan /\ IdleParquetTable /\ IdleDecimals
  \/ /\ running = "DecimalProgram" /\ DecimalProgram!Init
     /\ RestingFilteredScan /\ IdleKeyScan /\ IdleParquetTable /\ IdleExpressions

FilteredScanStep ==
  /\ running = "FilteredScan"
  /\ FilteredScanNext
  /\ UNCHANGED <<running, keyScanVars, parquetTableVars, expressionVars, decimalVars>>

KeyScanStep ==
  /\ running = "KeyScan"
  /\ KeyScan!Next
  /\ UNCHANGED <<running, filteredScanVars, parquetTableVars, expressionVars, decimalVars>>

ParquetTableStep ==
  /\ running = "ParquetTable"
  /\ ParquetTable!Next
  /\ UNCHANGED <<running, filteredScanVars, keyScanVars, expressionVars, decimalVars>>

ExpressionsStep ==
  /\ running = "Expressions"
  /\ Expressions!Next
  /\ UNCHANGED <<running, filteredScanVars, keyScanVars, parquetTableVars, decimalVars>>

DecimalProgramStep ==
  /\ running = "DecimalProgram"
  /\ DecimalProgram!Next
  /\ UNCHANGED <<running, filteredScanVars, keyScanVars, parquetTableVars, expressionVars>>

Next ==
  \/ FilteredScanStep
  \/ KeyScanStep
  \/ ParquetTableStep
  \/ ExpressionsStep
  \/ DecimalProgramStep

Spec == Init /\ [][Next]_vars

-----------------------------------------------------------------------------
\* The parts and rows KeptParts and a join's KeyFilter leave out change no answer: the
\* parts hold no passing row, and the filter is read for the column the join probes with.
KeptRowsAnswer ==
  running = "KeyScan" =>
    KeyScan!KeepsEveryMatch /\ KeyScan!RightColumn /\ KeyScan!SameAnswer

\* No row is decoded with the footer of another file, or of the file there before, and a
\* scan that ends returned exactly the rows the footers counted when ParquetTable::Open
\* read them, over parts that are the table.
ReadsWhatItOpened ==
  running = "ParquetTable" =>
    /\ ParquetTable!DecodesWhatItOpened
    /\ ParquetTable!PartsAreTheTable
    /\ ParquetTable!RowsAsCounted

\* "NotImplemented where supports_scan_filter(fields) is false" (plan/table.h): a part of a
\* table that supports a scan filter over the fields is never refused one.
SupportedIsScanned == running = "ParquetTable" => ParquetTable!SupportedIsScanned

\* The Filter operator keeps the rows every predicate is true for, and the Evaluator's
\* masks, gathers and scatters compute each row's parts exactly where SQL needs them.
ExpressionsExact ==
  running = "Expressions" => Expressions!EvaluatedLazily /\ Expressions!FilterKeeps

\* DECIMAL arithmetic answers, and fails, as its types say on each of its paths, but for
\* the negation of the 64-bit minimum.
DecimalsExact == running = "DecimalProgram" => DecimalProgram!DecimalsExact

\* "a narrow column stores the low 64 bits, which is the whole value, because every caller
\* has already range-checked it" (exec/decimal.h): so does the column a negation builds.
NegationKeepsValue == running = "DecimalProgram" => DecimalProgram!NegationKeepsValue
=============================================================================
