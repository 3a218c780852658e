------------------------ MODULE MCConsoleTranscript ------------------------
(***************************************************************************)
(* ConsoleTranscript on small instances of two kinds: one entry of a long  *)
(* line of every kind of character at several widths, or a few short lines *)
(* of narrow characters with drags over them.  A behaviour is of one kind, *)
(* so the state spaces add up.  The second kind's bounds are in the        *)
(* configurations.                                                         *)
(***************************************************************************)
EXTENDS ConsoleTranscript

CONSTANT Kinds
VARIABLE kind

Long == INSTANCE ConsoleTranscript WITH
  Characters <- {"n", "w", "zero", "LF", "CR", "BS", "TAB"}, Columns <- {1, 2, 3}, Heights <- {2},
  MaxEntries <- 1, MaxLines <- 1, MaxLength <- 4, MaxScroll <- 1, MaxTouch <- 0

BothInit == kind \in Kinds /\ (kind = "drags" => Init) /\ (kind = "line" => Long!Init)
BothNext ==
  /\ kind' = kind
  /\ \/ kind = "drags" /\ Next
     \/ kind = "line" /\ Long!Next
BothSpec == BothInit /\ [][BothNext]_<<kind, vars>>

\* What the screen shows is the text: no stale row, each cell once, touches on
\* the cell under the finger.
RowsShowTheText ==
  IF kind = "drags" THEN TypeOK /\ CacheIsFresh /\ EveryCellOnce /\ TouchHitsCell
  ELSE Long!TypeOK /\ Long!CacheIsFresh /\ Long!EveryCellOnce /\ Long!TouchHitsCell
=============================================================================
