-------------------------- MODULE ConsoleTranscript --------------------------
(***************************************************************************)
(* The transcript of the console (ConsoleModel in modules/Console.psm1):   *)
(* entries of logical lines that Write fills a character at a time, the    *)
(* rows they wrap to with their cache, the viewport, and the selection,    *)
(* which the gestures of Start-Console.ps1 take from the last frame drawn. *)
(***************************************************************************)
EXTENDS ConsoleWrap, SequencesExt

CONSTANTS
  Streams,      \* the streams that are written to
  Characters,   \* what is written: "n", "w", "zero", "LF", "CR", "BS", "TAB"
  TabStop,      \* 8 in the code
  Columns,      \* the grid's possible widths
  Heights,      \* and heights
  MaxEntries,   \* bound: entries
  MaxLines,     \* bound: lines of an entry
  MaxLength,    \* bound: cells of a line
  MaxScroll,    \* bound: the scroll offset
  MaxTouch      \* bound: touches on the first rows and columns, 0 for none

ASSUME TranscriptAssumption ==
  /\ TabStop \in Nat \ {0} /\ Columns \subseteq Nat \ {0} /\ Heights \subseteq Nat \ {0}
  /\ "none" \notin Streams

Nowhere == <<>>                                   \* a position that is $null
NoDrag == [at |-> Nowhere, focus |-> Nowhere, byLine |-> FALSE]
NoCache == [cols |-> 0, lines |-> <<>>]           \* CachedRows is $null

VARIABLES
  entries,   \* a sequence of entries, each a sequence of lines of cells
  stream,    \* the stream of $Current, "none" when it is $null
  col,       \* $WriteCol
  cols, rows,\* the grid
  progress,  \* whether a progress row is shown
  scroll,    \* $ScrollOffset
  cache,     \* per entry: the lines and columns its cached rows were made from
  frame,     \* RowMeta and ViewStart of the last Compose
  sel,       \* SelA and SelB: positions <<entry, line, cell>>
  drag       \* the drag: the cell it began at, FocusCell, and ByLine

vars == <<entries, stream, col, cols, rows, progress, scroll, cache, frame, sel, drag>>

Init ==
  /\ entries = <<>> /\ stream = "none" /\ col = 0
  /\ cols \in Columns /\ rows \in Heights
  /\ progress = FALSE /\ scroll = 0 /\ cache = <<>>
  /\ frame = [meta |-> <<>>, start |-> 0]
  /\ sel = [a |-> Nowhere, b |-> Nowhere] /\ drag = NoDrag

-----------------------------------------------------------------------------
(* Write.                                                                   *)

\* A cell is stored; the line grows by empty cells up to it.
SetCell(line, k, cell) ==
  [i \in 1 .. IF k > Len(line) THEN k ELSE Len(line) |->
     IF i = k THEN cell ELSE IF i <= Len(line) THEN line[i] ELSE "null"]

SetCells(line, k, cells) ==
  FoldLeftDomain(LAMBDA l, i : SetCell(l, k + i - 1, cells[i]), line, cells)

\* The cells a character leaves, from the write column on.
CellsOf(ch, at) ==
  CASE ch = "n" -> <<"n">>
    [] ch = "w" -> <<"w", "c">>
    [] ch = "TAB" -> [i \in 1 .. TabStop - (at % TabStop) |-> "n"]
    [] OTHER -> <<>>

ColumnAfter(ch, at) ==
  CASE ch \in {"LF", "CR"} -> 0
    [] ch = "BS" -> IF at = 0 THEN 0 ELSE at - 1
    [] OTHER -> at + Len(CellsOf(ch, at))

Forget(n) == Append(SubSeq(cache, 1, n - 1), NoCache)

\* One character of a Write.  A stream other than the current one's, and
\* whatever comes first after Submit, begins an entry.
Write(s, ch) ==
  LET begins == s # stream
      n == Len(entries) + IF begins THEN 1 ELSE 0
      lines == IF begins THEN << <<>> >> ELSE entries[n]
      at == IF begins THEN 0 ELSE col
      l == Len(lines)
      line == SetCells(lines[l], at + 1, CellsOf(ch, at))
  IN
  /\ n <= MaxEntries /\ Len(line) <= MaxLength
  /\ stream' = s
  /\ IF ch = "LF"
     THEN /\ l < MaxLines
          /\ entries' = Append(SubSeq(entries, 1, n - 1), Append(lines, <<>>))
     ELSE entries' = Append(SubSeq(entries, 1, n - 1), [lines EXCEPT ![l] = line])
  /\ col' = ColumnAfter(ch, at)
  /\ cache' = Forget(n)
  /\ UNCHANGED <<cols, rows, progress, scroll, frame, sel, drag>>

WriteProgress ==
  /\ progress' = ~progress
  /\ UNCHANGED <<entries, stream, col, cols, rows, scroll, cache, frame, sel, drag>>

\* Submit ends the current entry; like every editor operation it pins the view.
Submit ==
  /\ stream' = "none" /\ scroll' = 0
  /\ UNCHANGED <<entries, col, cols, rows, progress, cache, frame, sel, drag>>

-----------------------------------------------------------------------------
(* The viewport.                                                            *)

Scroll(delta) ==
  /\ scroll' = IF scroll - delta < 0 THEN 0 ELSE scroll - delta
  /\ scroll' <= MaxScroll
  /\ UNCHANGED <<entries, stream, col, cols, rows, progress, cache, frame, sel, drag>>

\* The rows of an entry at c columns, with the entry and line each comes from.
RowsOf(e, lines, c) ==
  FlattenSeq([l \in 1 .. Len(lines) |->
    LET wrapped == Wrap(lines[l], c) IN
    [k \in 1 .. Len(wrapped) |->
       [kind |-> "transcript", entry |-> e, line |-> l, row |-> wrapped[k]]]])

\* The lines an entry's rows are made from: cached rows are used as they are.
EntryLines(e, c) == IF cache[e].cols = c THEN cache[e].lines ELSE entries[e]

\* Transcript, progress, and the editor (one row here).
Other(kind) == << [kind |-> kind, entry |-> 0, line |-> 0, row |-> Row(<<>>, 0)] >>
AllRows(c) ==
  FlattenSeq([e \in 1 .. Len(entries) |-> RowsOf(e, EntryLines(e, c), c)])
    \o (IF progress THEN Other("progress") ELSE <<>>) \o Other("editor")

Least(a, b) == IF a < b THEN a ELSE b
\* The first visible row of a view of r rows, scrolled back.
ViewStart(total, back, r) == IF total <= r THEN 0 ELSE total - r - Least(back, total - r)

\* The draw handler: Resize when the surface or the text size changed, and
\* Compose, which notes the rows before it draws their cells.
Draw(c, r) ==
  /\ cols' = c /\ rows' = r
  /\ LET meta == AllRows(c) IN
     frame' = [meta |-> meta, start |-> ViewStart(Len(meta), scroll, r)]
  /\ cache' = [e \in 1 .. Len(entries) |-> [cols |-> c, lines |-> EntryLines(e, c)]]
  /\ UNCHANGED <<entries, stream, col, progress, scroll, sel, drag>>

-----------------------------------------------------------------------------
(* The selection.                                                           *)

\* The position under a cell of the screen, Nowhere outside the transcript.
PositionAt(r, x) ==
  LET li == frame.start + r IN
  IF li > Len(frame.meta) \/ frame.meta[li].kind # "transcript" THEN Nowhere
  ELSE LET m == frame.meta[li] IN <<m.entry, m.line, m.row.first + Least(x, cols) - 1>>

Touches == (1 .. MaxTouch) \X (1 .. MaxTouch)

\* A move of a drag that began at cell a: the focus follows the finger while it
\* is over the transcript, and otherwise stays at the last cell that was.  By
\* line, the ends are widened to whole visible rows.
Select(a, f, byLine) ==
  LET forward == f[1] > a[1] \/ (f[1] = a[1] /\ f[2] >= a[2]) IN
  IF ~byLine THEN [a |-> PositionAt(a[1], a[2]), b |-> PositionAt(f[1], f[2])]
  ELSE IF forward THEN [a |-> PositionAt(a[1], 1), b |-> PositionAt(f[1], cols)]
  ELSE [a |-> PositionAt(a[1], cols), b |-> PositionAt(f[1], 1)]

Drag(a, c, byLine) ==
  /\ \/ drag = NoDrag /\ PositionAt(a[1], a[2]) # Nowhere
     \/ drag # NoDrag /\ drag.at = a /\ (drag.byLine => byLine)
  /\ LET f == IF PositionAt(c[1], c[2]) # Nowhere THEN c ELSE drag.focus IN
     /\ drag' = [at |-> a, focus |-> f, byLine |-> byLine]
     /\ sel' = Select(a, IF f = Nowhere THEN a ELSE f, byLine)
  /\ UNCHANGED <<entries, stream, col, cols, rows, progress, scroll, cache, frame>>

\* Lifting the finger ends the gesture; the selection stays.
Lift ==
  /\ drag # NoDrag /\ drag' = NoDrag
  /\ UNCHANGED <<entries, stream, col, cols, rows, progress, scroll, cache, frame, sel>>

\* A tap clears the selection.
ClearSelection ==
  /\ drag = NoDrag /\ sel.a # Nowhere /\ sel' = [a |-> Nowhere, b |-> Nowhere]
  /\ UNCHANGED <<entries, stream, col, cols, rows, progress, scroll, cache, frame, drag>>

Before(p, q) ==
  \/ p[1] < q[1]
  \/ p[1] = q[1] /\ p[2] < q[2]
  \/ p[1] = q[1] /\ p[2] = q[2] /\ p[3] <= q[3]
From == IF Before(sel.a, sel.b) THEN sel.a ELSE sel.b
To   == IF Before(sel.a, sel.b) THEN sel.b ELSE sel.a

\* The cell is drawn inverse.
IsSelected(p) == sel.a # Nowhere /\ Before(From, p) /\ Before(p, To)

\* Mutation: the first line counts for each line.
CopiedFrom_EachLine(e, l) == From[3]
CopiedFrom(e, l) == IF e = From[1] /\ l = From[2] THEN From[3] ELSE 1
CopiedTo(e, l) == IF e = To[1] /\ l = To[2] THEN To[3] ELSE Len(entries[e][l])

\* The cells that SelectionText copies, in the loops' own bounds.
Copied ==
  IF sel.a = Nowhere THEN {}
  ELSE { p \in UNION {UNION { {<<e, l, c>> : c \in 1 .. Len(entries[e][l])}
                              : l \in 1 .. Len(entries[e])} : e \in 1 .. Len(entries)} :
         LET e == p[1]  l == p[2] IN
         /\ e \in From[1] .. To[1]
         /\ l >= (IF e = From[1] THEN From[2] ELSE 1)
         /\ l <= (IF e = To[1] THEN To[2] ELSE Len(entries[e]))
         /\ p[3] \in CopiedFrom(e, l) .. CopiedTo(e, l) }

-----------------------------------------------------------------------------

Next ==
  \/ \E s \in Streams, ch \in Characters : Write(s, ch)
  \/ WriteProgress \/ Submit
  \/ \E delta \in {-1, 1} : Scroll(delta)
  \/ \E c \in Columns, r \in Heights : Draw(c, r)
  \/ Lift \/ ClearSelection
  \/ \E a \in Touches, c \in Touches, byLine \in BOOLEAN : Drag(a, c, byLine)

Spec == Init /\ [][Next]_vars

-----------------------------------------------------------------------------

\* The write column is inside its line, lines have no holes, and what the
\* selection and the frame refer to exists.
TypeOK ==
  /\ stream \in Streams \cup {"none"} /\ cols \in Columns /\ rows \in Heights
  /\ scroll \in 0 .. MaxScroll /\ Len(cache) = Len(entries) /\ Len(entries) <= MaxEntries
  /\ \A e \in 1 .. Len(entries), l \in 1 .. MaxLines : l <= Len(entries[e]) =>
       \A i \in 1 .. Len(entries[e][l]) : entries[e][l][i] \in {"n", "w", "c"}
  /\ stream # "none" => col \in 0 .. Len(Last(Last(entries)))
  /\ \A p \in {sel.a, sel.b} \ {Nowhere} :
       p[1] \in 1 .. Len(entries) /\ p[2] \in 1 .. Len(entries[p[1]]) /\ p[3] >= 1

\* Cached rows are those of the entry's present text: what is drawn is what was
\* written, also after later writes and changes of width.
CacheIsFresh == \A e \in 1 .. Len(entries) : cache[e].cols = cols => cache[e].lines = entries[e]

\* At two columns or more, each cell of a line is drawn once, and a wide
\* character together with the cell after it in one row.
EveryCellOnce ==
  \A e \in 1 .. Len(entries), c \in Columns \ {1} : \A l \in 1 .. Len(entries[e]) :
    LET line == entries[e][l]
        wrapped == Wrap(line, c)
        drawn == SelectSeq(FlattenSeq([k \in 1 .. Len(wrapped) |-> wrapped[k].cells]),
                           LAMBDA i : i # 0)
    IN
    /\ drawn = [i \in 1 .. Len(line) |-> i]
    /\ \A k \in 1 .. Len(wrapped) :
         LET last == wrapped[k].cells[c] IN last # 0 =>
           ~(line[last] = "w" /\ (c = 1 \/ wrapped[k].cells[c - 1] # last - 1 \/ line[last - 1] # "w"))

\* The position a touch selects is the cell that was drawn under it, also where
\* rows were broken early for wide characters.
TouchHitsCell ==
  \A li \in 1 .. Len(frame.meta) : \A x \in 1 .. Len(frame.meta[li].row.cells) :
    LET m == frame.meta[li]  i == m.row.cells[x] IN
    i # 0 /\ x <= cols /\ Len(m.row.cells) = cols =>
      PositionAt(li - frame.start, x) = <<m.entry, m.line, i>>

\* The cells drawn inverse are those that are copied.
CopiesWhatIsShown ==
  sel.a # Nowhere /\ sel.b # Nowhere =>
    \A e \in 1 .. Len(entries) : \A l \in 1 .. Len(entries[e]) :
      \A i \in 1 .. Len(entries[e][l]) : IsSelected(<<e, l, i>>) <=> <<e, l, i>> \in Copied

\* Compose compares both ends of a selection, so it needs both.
SelectionHasBothEnds == sel.a # Nowhere => sel.b # Nowhere
=============================================================================
