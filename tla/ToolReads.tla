------------------------------ MODULE ToolReads ------------------------------
(***************************************************************************)
(* A model reads a file too long for one answer: paged_read of             *)
(* src-tauri/src/commands/builtin_tools.rs, called again with the offset   *)
(* its own marker names, by a model that chooses its limits and may have   *)
(* the file edited under it.                                               *)
(*                                                                         *)
(* A file is the lengths of its lines; what a page shows is which lines.   *)
(***************************************************************************)
EXTENDS Naturals, Sequences, SequencesExt, FiniteSetsExt

CONSTANTS
  MaxToolBytes, \* MAX_TOOL_BYTES
  FileLines,    \* bound: lines of the file
  Widths,       \* lengths of lines
  Limits,       \* limits the model gives; 0 stands for none
  MaxPages,     \* bound: pages read
  MaxEdits      \* bound: edits of the file meanwhile

ASSUME ReadsConstants ==
  /\ {MaxToolBytes, FileLines, MaxPages, MaxEdits} \subseteq Nat
  /\ Widths \subseteq Nat /\ Limits \subseteq Nat

VARIABLES
  file,    \* lengths of its lines
  offset,  \* the line the next page begins at
  linesShown,   \* history: the lines shown so far
  pages, edits,
  reading  \* "on", "whole" after a page without a marker, "refused"

readVars == <<file, offset, linesShown, pages, edits, reading>>

Files == SeqOf(Widths, FileLines)

ReadsTypeOK ==
  /\ file \in Files /\ offset \in 0 .. FileLines + 1
  /\ linesShown \in Seq(1 .. FileLines) /\ pages \in 0 .. MaxPages /\ edits \in 0 .. MaxEdits
  /\ reading \in {"on", "whole", "refused"}

\* The first call names no offset, or one of its own: 0 is taken for 1.
ReadsInit ==
  /\ file \in Files /\ offset \in {0, 1}
  /\ linesShown = <<>> /\ pages = 0 /\ edits = 0 /\ reading = "on"

\* The bytes of lines first .. last with their line ends.
Bytes(first, last) == FoldLeft(+, 0, SubSeq(file, first, last)) + (last + 1 - first)

\* last_included: as far as the limit and the cap allow.
LastIncluded(start, limit) ==
  Max({start - 1} \cup
      {k \in start .. Len(file) : /\ limit = 0 \/ k + 1 - start <= limit
                                  /\ Bytes(start, k) <= MaxToolBytes})

\* Where the marker sends the model next; the slip sends it to a line it has seen.
NextOffsetLast(last) == last
NextOffset(last) == last + 1

ReadPage(limit) ==
  LET start == Max({1, offset})
      last == LastIncluded(start, limit)
  IN /\ reading = "on" /\ pages < MaxPages
     /\ pages' = pages + 1
     /\ IF Len(file) > 0 /\ start > Len(file)
          THEN reading' = "refused" /\ UNCHANGED <<offset, linesShown>>
          ELSE /\ linesShown' = linesShown \o [k \in 1 .. last + 1 - start |-> start + k - 1]
               /\ IF last < Len(file)
                    THEN offset' = NextOffset(last) /\ UNCHANGED reading
                    ELSE reading' = "whole" /\ UNCHANGED offset
     /\ UNCHANGED <<file, edits>>

EditFile ==
  /\ edits < MaxEdits /\ reading = "on"
  /\ edits' = edits + 1
  /\ file' \in {f \in Files : Len(f) <= Len(file) + 1 /\ Len(file) <= Len(f) + 1}
  /\ UNCHANGED <<offset, linesShown, pages, reading>>

ReadsNext == (\E limit \in Limits : ReadPage(limit)) \/ EditFile

ReadsSpec == ReadsInit /\ [][ReadsNext]_readVars

-----------------------------------------------------------------------------

Fits == \A k \in DOMAIN file : file[k] + 1 <= MaxToolBytes

\* Following the markers through a file nobody edits, the model is shown each
\* line once and in order, is never sent past the end, and has seen the whole
\* file when a page comes without a marker ("a frontier model loses nothing",
\* builtin_tools.rs:247-252); each page shows something new as long as
\* no single line exceeds the cap.
PagesTile ==
  edits = 0 =>
    /\ linesShown = [k \in 1 .. Len(linesShown) |-> k]
    /\ reading # "refused"
    /\ reading = "whole" => Len(linesShown) = Len(file)
    /\ Fits /\ file # <<>> => Len(linesShown) >= pages

\* The marker "tells the model EXACTLY how to continue": a line longer than the
\* cap is never passed.
AlwaysProgresses == edits = 0 /\ file # <<>> => Len(linesShown) >= pages
=============================================================================
