----------------------------- MODULE ResultFile -----------------------------
(***************************************************************************)
(* struct CSV (src/include/csv.hpp): the result file that benchmark        *)
(* threads append rows to and that a later run reads to skip what is       *)
(* measured.                                                               *)
(*                                                                         *)
(* The file is a header and lines; a line is the sequence of the pieces    *)
(* appended to it, more than one when a run was stopped inside a row and   *)
(* the next one continued the same line.  A piece is a row and how much of *)
(* it is there: "whole", "late" (cut behind the columns that identify the  *)
(* measurement) or "early" (cut within them).                              *)
(***************************************************************************)
EXTENDS Sequences, Integers

CONSTANTS
  Rows,       \* the measurements, by the columns that identify them
  NoWriter    \* out_mutex is free

VARIABLES
  header,     \* "absent" (no file), "empty", "torn" or "whole"
  lines,      \* the lines after the header
  cut_line,   \* the file ends inside its last line
  existing,   \* existing_entries, as the set of measurements they are of
  writing     \* the row being written under out_mutex, or NoWriter

fileVars == <<header, lines, cut_line, existing, writing>>

Piece(r, cut) == [row |-> r, cut |-> cut]

FileInit ==
  /\ header = "absent" /\ lines = <<>> /\ cut_line = FALSE
  /\ existing = {} /\ writing = NoWriter

\* A line is read column by column from its start, so its first piece decides
\* which measurement it is taken for; a piece cut early is taken for none.
ReadAs(line) == IF line[1].cut = "early" THEN {} ELSE {line[1].row}

\* Mutated form: the first line is taken for the header.
IndexedButFirst == UNION {ReadAs(lines[n]) : n \in DOMAIN lines \ {1}}

Indexed == UNION {ReadAs(lines[n]) : n \in DOMAIN lines}

\* The constructor: write the header of a new or empty file, else check it
\* and index the rows.
OpenFile ==
  /\ header # "torn"
  /\ header' = "whole"
  /\ existing' = Indexed
  /\ UNCHANGED <<lines, cut_line, writing>>

\* The constructor throws: the header is not the expected one.
RefuseFile == header = "torn" /\ UNCHANGED fileVars

exists(r) == r \in existing

Appended(p) ==
  IF cut_line THEN [lines EXCEPT ![Len(lines)] = Append(@, p)]
              ELSE Append(lines, <<p>>)

\* write: the columns go to the stream under out_mutex ...
BeginRow(r) ==
  /\ writing = NoWriter
  /\ writing' = r
  /\ UNCHANGED <<header, lines, cut_line, existing>>

\* ... and std::endl ends the line, hands it to the file and lets go.
EndRow(r) ==
  /\ writing = r
  /\ writing' = NoWriter
  /\ lines' = Appended(Piece(r, "whole"))
  /\ cut_line' = FALSE
  /\ UNCHANGED <<header, existing>>

\* The process ends: a row under way stays in the stream's buffer.
FileClosed ==
  /\ existing' = {} /\ writing' = NoWriter
  /\ UNCHANGED <<header, lines, cut_line>>

\* The machine stops: what was being written may be on disk in part.
HeaderTorn ==
  /\ header \in {"absent", "empty"}
  /\ header' \in {"empty", "torn"}
  /\ existing' = {} /\ writing' = NoWriter
  /\ UNCHANGED <<lines, cut_line>>

RowTorn ==
  /\ writing # NoWriter
  /\ \E cut \in {"early", "late"} : lines' = Appended(Piece(writing, cut))
  /\ cut_line' = TRUE
  /\ existing' = {} /\ writing' = NoWriter
  /\ UNCHANGED header

-----------------------------------------------------------------------------
Pieces == [row : Rows, cut : {"early", "late", "whole"}]

FileTypeOK ==
  /\ header \in {"absent", "empty", "torn", "whole"}
  /\ lines \in Seq(Seq(Pieces))
  /\ cut_line \in BOOLEAN
  /\ existing \subseteq Rows
  /\ writing \in Rows \cup {NoWriter}

\* A line has at least the piece that began it.
LinesBegun == \A n \in DOMAIN lines : lines[n] # <<>>

\* However runs are stopped and started again, no measurement is read from
\* two lines of the file.
RowsOnce ==
  \A m, n \in DOMAIN lines :
    m # n => ReadAs(lines[m]) \cap ReadAs(lines[n]) = {}

=============================================================================
