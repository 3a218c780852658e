----------------------------- MODULE ConsoleWrap -----------------------------
(***************************************************************************)
(* How a logical line of cells is cut into screen rows (Wrap of            *)
(* ConsoleModel in modules/Console.psm1).  A cell is named by what matters *)
(* for layout: "n" one column wide, "w" the first and "c" the continuation *)
(* cell of a wide character, "z" a zero-width scalar, which has a cell of  *)
(* its own in the editor line only.  A row tells, for each of its columns, *)
(* which cell of the line is drawn there: 0 for none (an empty cell).      *)
(***************************************************************************)
EXTENDS Integers, Sequences

Row(cells, first) == [cells |-> cells, first |-> first]

\* A row that is full is closed; the next one starts at the cell after it.
CloseFull(s, cols) ==
  IF Len(s.row) < cols THEN s
  ELSE [s EXCEPT !.rows = Append(@, Row(SubSeq(s.row, 1, cols), s.first)),
                 !.row = <<>>, !.first = s.i]

\* Mutation: the row after the empty column keeps the old first cell.
LeaveColumn_KeepsFirst(s) ==
  [s EXCEPT !.rows = Append(@, Row(Append(s.row, 0), s.first)), !.row = <<>>]

\* The last column stays empty, and the wide character starts the next row.
LeaveColumn(s) ==
  [s EXCEPT !.rows = Append(@, Row(Append(s.row, 0), s.first)), !.row = <<>>, !.first = s.i]

\* A wide character takes the cell after it along, whatever that is by now.
PutWide(s, cols) ==
  LET t == IF Len(s.row) = cols - 1 THEN LeaveColumn(s) ELSE s IN
  [t EXCEPT !.row = @ \o <<s.i, s.i + 1>>, !.i = @ + 2]

PutCell(s) == [s EXCEPT !.row = Append(@, s.i), !.i = @ + 1]

\* The last row is filled up with empty cells; an empty line has one row.
FillUp(s, cols) ==
  IF s.row = <<>> /\ s.rows # <<>> THEN s.rows
  ELSE Append(s.rows, Row([x \in 1 .. cols |-> IF x <= Len(s.row) THEN s.row[x] ELSE 0], s.first))

Wrap(line, cols) ==
  LET Step(s) ==
        IF s.i > Len(line) THEN s
        ELSE CloseFull(IF line[s.i] = "w" THEN PutWide(s, cols) ELSE PutCell(s), cols)
      state[k \in 0 .. Len(line)] ==
        IF k = 0 THEN [rows |-> <<>>, row |-> <<>>, first |-> 1, i |-> 1]
        ELSE Step(state[k - 1])
  IN FillUp(state[Len(line)], cols)
=============================================================================
