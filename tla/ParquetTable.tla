---------------------------- MODULE ParquetTable ----------------------------
(***************************************************************************)
(* A table of Parquet files (src/io/parquet_table.cc): Open reads every    *)
(* footer once, and the scans that come later, of the whole table or of    *)
(* one part, decode the files with what the footers said.  Files may be    *)
(* replaced at any time between Open and a scan, and between two segments  *)
(* of one scan.                                                            *)
(***************************************************************************)
EXTENDS Integers, Sequences, FiniteSets, SequencesExt

CONSTANTS
  NumFiles,     \* the files ExpandGlob found, in order
  Contents,     \* what a file may hold: [size, footer, schema, physical, groups]
  MaxReplaced   \* bound: how often a file is replaced

VARIABLES
  disk,      \* what every path holds
  replaced,  \* how often a file was replaced
  infos,     \* metadata_, file_bytes_ and footers_: what Open read, file by file
  table,     \* "opening", "open" or "failed"
  scan,      \* the scan under way, its segments left and what it returned; NoScan without one
  handle     \* the open file of the scan: its number and what it holds; NoFile without one

vars == <<disk, replaced, infos, table, scan, handle>>

Files == 1 .. NumFiles
NoScan == [kind |-> "none", of |-> 0, segments |-> <<>>, rows |-> <<>>, status |-> "none"]
NoFile == [file |-> 0, group |-> 0, content |-> CHOOSE c \in Contents : TRUE]

Init ==
  /\ disk \in [Files -> Contents]
  /\ replaced = 0
  /\ infos = <<>>
  /\ table = "opening"
  /\ scan = NoScan
  /\ handle = NoFile

\* Another program puts another file at the path.  A file already open stays as it was.
Replace ==
  /\ replaced < MaxReplaced
  /\ \E f \in Files, c \in Contents :
       /\ c # disk[f]
       /\ disk' = [disk EXCEPT ![f] = c]
  /\ replaced' = replaced + 1
  /\ UNCHANGED <<infos, table, scan, handle>>

\* Open: the next file's footer is read, and its Arrow schema must be the first file's.
OpenNext ==
  /\ table = "opening"
  /\ LET f == Len(infos) + 1
     IN  IF infos # <<>> /\ disk[f].schema # infos[1].schema
         THEN table' = "failed" /\ UNCHANGED infos
         ELSE /\ infos' = Append(infos, disk[f])
              /\ table' = IF f = NumFiles THEN "open" ELSE "opening"
  /\ UNCHANGED <<disk, replaced, scan, handle>>

\* parts_: the row groups with rows, in file order.
Parts ==
  FlattenSeq([f \in DOMAIN infos |->
    SelectSeq([g \in DOMAIN infos[f].groups |-> [file |-> f, group |-> g]],
              LAMBDA p : infos[f].groups[p.group] > 0)])

\* The segments of DoScan: every row group of every file.
AllSegments ==
  FlattenSeq([f \in DOMAIN infos |-> [g \in DOMAIN infos[f].groups |-> [file |-> f, group |-> g]]])

\* FilteredColumnOf: a DECIMAL is decoded only from integers.
Filterable(info) == info.physical \in {"int32", "int64"}

\* supports_scan_filter asks the first file.
SupportsScanFilter == Filterable(infos[1])

StartScan(kind, part, segments) ==
  /\ table = "open" /\ scan.kind = "none"
  /\ scan' = [kind |-> kind, of |-> part, segments |-> segments, rows |-> <<>>,
              status |-> "scanning"]
  /\ UNCHANGED <<disk, replaced, infos, table, handle>>

\* Scan, of the whole table.
Scan == StartScan("table", 0, AllSegments)

\* ScanPart without a filter.
ScanPart == \E p \in DOMAIN Parts : StartScan("part", p, <<Parts[p]>>)

\* ScanPart with a filter, where the planner asked supports_scan_filter.  The part's own file
\* must be filterable too.
ScanPartFiltered ==
  /\ table = "open" /\ SupportsScanFilter /\ scan.kind = "none"
  /\ \E p \in DOMAIN Parts :
       scan' = IF Filterable(infos[Parts[p].file])
               THEN [kind |-> "part", of |-> p, segments |-> <<Parts[p]>>, rows |-> <<>>,
                     status |-> "scanning"]
               ELSE [NoScan EXCEPT !.kind = "part", !.of = p, !.status = "not_implemented"]
  /\ UNCHANGED <<disk, replaced, infos, table, handle>>

\* Mutant: the size alone is compared.
SameFileMutant(f, content) == content.size = infos[f].size

\* OpenSegmentFile: the file is the one Open read.
SameFile(f, content) ==
  /\ content.size = infos[f].size
  /\ content.footer = infos[f].footer

\* Mutant: a file that is not the one opened is left out.
OpenFileMutant ==
  /\ scan.status = "scanning" /\ handle = NoFile /\ scan.segments # <<>>
  /\ LET s == Head(scan.segments)
     IN  IF SameFile(s.file, disk[s.file])
         THEN /\ handle' = [file |-> s.file, group |-> s.group, content |-> disk[s.file]]
              /\ UNCHANGED scan
         ELSE /\ scan' = [scan EXCEPT !.segments = Tail(@)]
              /\ UNCHANGED handle
  /\ UNCHANGED <<disk, replaced, infos, table>>

\* The reader of the next segment.  The segments of one file share its reader.
OpenFile ==
  /\ scan.status = "scanning" /\ handle = NoFile /\ scan.segments # <<>>
  /\ LET s == Head(scan.segments)
     IN  IF SameFile(s.file, disk[s.file])
         THEN /\ handle' = [file |-> s.file, group |-> s.group, content |-> disk[s.file]]
              /\ UNCHANGED scan
         ELSE /\ scan' = [scan EXCEPT !.status = "io_error"]
              /\ UNCHANGED handle
  /\ UNCHANGED <<disk, replaced, infos, table>>

\* The rows of the row group that is next: what the file holds there, NoRow where it holds none.
NoRow == [file |-> 0, group |-> 0, row |-> 0, footer |-> 0]
Decoded(s) ==
  LET c == handle.content
  IN  IF s.group \notin DOMAIN c.groups THEN <<NoRow>>
      ELSE [r \in 1 .. c.groups[s.group] |->
              [file |-> s.file, group |-> s.group, row |-> r, footer |-> c.footer]]

\* Whether the reader serves the segment after the one just read.
KeepsReader(rest) == rest # <<>> /\ Head(rest).file = handle.file

\* A row group is read to its end.
ReadGroup ==
  /\ scan.status = "scanning" /\ handle # NoFile
  /\ LET s == Head(scan.segments)
         rest == Tail(scan.segments)
     IN  /\ scan' = [scan EXCEPT !.rows = @ \o Decoded(s), !.segments = rest]
         /\ handle' = IF KeepsReader(rest) THEN [handle EXCEPT !.group = Head(rest).group]
                                           ELSE NoFile
  /\ UNCHANGED <<disk, replaced, infos, table>>

\* The end of the data.
EndScan ==
  /\ scan.status = "scanning" /\ handle = NoFile /\ scan.segments = <<>>
  /\ scan' = [scan EXCEPT !.status = "end"]
  /\ UNCHANGED <<disk, replaced, infos, table, handle>>

\* The consumer closes the reader, at the end or before it.
CloseScan ==
  /\ scan.kind # "none"
  /\ scan' = NoScan
  /\ handle' = NoFile
  /\ UNCHANGED <<disk, replaced, infos, table>>

Next ==
  \/ Replace \/ OpenNext
  \/ Scan \/ ScanPart \/ ScanPartFiltered
  \/ OpenFile \/ ReadGroup \/ EndScan \/ CloseScan

Spec == Init /\ [][Next]_vars

-----------------------------------------------------------------------------
\* The rows of a segment as its footer counted them at Open.
CountedRows(s) ==
  [r \in 1 .. infos[s.file].groups[s.group] |->
     [file |-> s.file, group |-> s.group, row |-> r, footer |-> infos[s.file].footer]]

RowsOf(segments) == FlattenSeq([i \in DOMAIN segments |-> CountedRows(segments[i])])

\* A scan that reaches its end returned exactly the rows the footers counted at Open (what
\* exact_row_count and part_rows told the planner), each decoded with its own file's footer,
\* though any file may have been replaced before the scan or between two of its segments.
RowsAsCounted ==
  scan.status = "end" =>
    scan.rows = RowsOf(IF scan.kind = "table" THEN AllSegments ELSE <<Parts[scan.of]>>)

\* No row is ever decoded with the footer of another file, or of the file that was there before.
DecodesWhatItOpened ==
  /\ handle # NoFile => handle.file = Head(scan.segments).file
                        /\ handle.content.footer = infos[handle.file].footer
  /\ \A r \in Range(scan.rows) : r # NoRow /\ r.footer = infos[r.file].footer

\* The parts are the table: their rows, in part order, are the rows of the whole scan, and no
\* part is empty (part statistics and late fetches count on it).
PartsAreTheTable ==
  table = "open" =>
    /\ RowsOf(Parts) = RowsOf(AllSegments)
    /\ \A i \in DOMAIN Parts : CountedRows(Parts[i]) # <<>>

\* A part of a table that supports a scan filter over the fields is never refused one.
SupportedIsScanned == scan.status # "not_implemented"
=============================================================================
