---------------------------- MODULE ConsoleEditor ----------------------------
(***************************************************************************)
(* The editor line of the console (ConsoleModel in modules/Console.psm1):  *)
(* text, caret and composition, the history walk, tab completion, and the  *)
(* cursor that Compose reports for the caret.  A scalar of the text is     *)
(* named by its width as in ConsoleWrap.                                   *)
(***************************************************************************)
EXTENDS ConsoleWrap, SequencesExt

CONSTANTS
  Scalars,        \* what is typed: "n", "w" and "z"
  Prompt,         \* the cells of the prompt and its space
  Compositions,   \* what an input method composes
  Matches,        \* what completion offers for the scalar before the caret
  Columns, Heights, \* the grid's possible sizes
  MaxAbove,       \* bound: transcript and progress rows above the editor
  MaxScroll,      \* bound: the scroll offset
  MaxLength,      \* bound: scalars of the text
  MaxHistory      \* bound: submitted commands

\* Assumed of the constants.
EditorAssumption ==
  /\ Columns \subseteq Nat \ {0} /\ Heights \subseteq Nat \ {0}
  /\ Prompt # <<>> /\ <<>> \in Compositions

NoCompletion == [base |-> <<>>, start |-> 0, index |-> 0, applied |-> <<"none">>]

VARIABLES
  text,       \* $Editor
  caret,      \* $Caret: scalars before it
  comp,       \* $Composition
  history,    \* $History
  index,      \* $HistoryIndex, 0 for -1
  saved,      \* $Saved
  draft,      \* what was being edited when the history walk began
  completion, \* $script:Completion: what it started from, and what it left
  above,      \* rows above the editor
  scroll,     \* $ScrollOffset
  cols, rows  \* the grid

vars == <<text, caret, comp, history, index, saved, draft, completion, above, scroll, cols, rows>>
View == <<above, cols, rows>>
Walk == <<history, index, saved, draft>>

Init ==
  /\ text = <<>> /\ caret = 0 /\ comp = <<>>
  /\ history = <<>> /\ index = 0 /\ saved = <<>> /\ draft = <<>>
  /\ completion = NoCompletion
  /\ above \in 0 .. MaxAbove /\ scroll = 0 /\ cols \in Columns /\ rows \in Heights

Least(a, b) == IF a < b THEN a ELSE b
Most(a, b) == IF a > b THEN a ELSE b

-----------------------------------------------------------------------------
(* Editing.  Every operation pins the view to the bottom.                   *)

CaretAfterInsert == caret + 1

Insert(s) ==
  /\ Len(text) < MaxLength
  /\ text' = InsertAt(text, caret + 1, s) /\ caret' = CaretAfterInsert /\ comp' = <<>> /\ scroll' = 0
  /\ UNCHANGED <<Walk, completion, View>>

Backspace ==
  /\ scroll' = 0
  /\ IF caret > 0 THEN text' = RemoveAt(text, caret) /\ caret' = caret - 1
     ELSE UNCHANGED <<text, caret>>
  /\ UNCHANGED <<comp, Walk, completion, View>>

Delete ==
  /\ scroll' = 0
  /\ text' = IF caret < Len(text) THEN RemoveAt(text, caret + 1) ELSE text
  /\ UNCHANGED <<caret, comp, Walk, completion, View>>

\* EditorMove, and with a step that is long enough EditorHome and EditorEnd.
Move(delta) ==
  /\ caret' = Most(0, Least(Len(text), caret + delta)) /\ scroll' = 0
  /\ UNCHANGED <<text, comp, Walk, completion, View>>

SetComposition(c) ==
  /\ comp' = c /\ scroll' = 0
  /\ UNCHANGED <<text, caret, Walk, completion, View>>

-----------------------------------------------------------------------------
(* History.                                                                 *)

SetEditor(t) == text' = t /\ caret' = Len(t)

\* Mutation: every step up saves the text.
Saves_EachStep == TRUE
Saves == index = 0

HistoryUp ==
  /\ scroll' = 0
  /\ IF history = <<>> THEN UNCHANGED <<text, caret, index, saved, draft>>
     ELSE /\ index' = IF index = 0 THEN Len(history) ELSE Most(1, index - 1)
          /\ saved' = IF Saves THEN text ELSE saved
          /\ draft' = IF index = 0 THEN text ELSE draft
          /\ SetEditor(history[index'])
  /\ UNCHANGED <<comp, history, completion, View>>

HistoryDown ==
  /\ scroll' = 0
  /\ IF index = 0 THEN UNCHANGED <<text, caret, index>>
     ELSE /\ index' = IF index < Len(history) THEN index + 1 ELSE 0
          /\ SetEditor(IF index < Len(history) THEN history[index + 1] ELSE saved)
  /\ UNCHANGED <<comp, history, saved, draft, completion, View>>

Submit ==
  /\ Len(history) < MaxHistory
  /\ history' = Append(history, text) /\ index' = 0 /\ saved' = <<>>
  /\ text' = <<>> /\ caret' = 0 /\ comp' = <<>> /\ scroll' = 0
  /\ UNCHANGED <<draft, completion, View>>

-----------------------------------------------------------------------------
(* Completion: Tab and Shift-Tab.  The matches replace the scalar before    *)
(* the caret; text that completion left goes on with the next match.        *)

\* Mutation: a remembered completion goes on whatever has been typed since.
Continues_Always == completion # NoCompletion
Continues == completion.applied = text

\* Without a match completion forgets what it left before.
NoMatches ==
  /\ ~Continues /\ caret = 0
  /\ completion' = NoCompletion
  /\ UNCHANGED <<text, caret, comp, Walk, scroll, View>>

Complete(step) ==
  LET n == Len(Matches)
      from == IF Continues THEN completion
              ELSE [base |-> text, start |-> caret - 1, index |-> -1, applied |-> <<>>]
      k == (from.index + step + n) % n
      new == SubSeq(from.base, 1, from.start) \o Matches[k + 1]
               \o SubSeq(from.base, from.start + 2, Len(from.base))
  IN
  /\ n > 0 /\ (Continues \/ caret > 0)
  /\ Len(new) <= MaxLength
  /\ text' = new /\ caret' = from.start + Len(Matches[k + 1]) /\ scroll' = 0
  /\ completion' = [from EXCEPT !.index = k, !.applied = new]
  /\ UNCHANGED <<comp, Walk, View>>

-----------------------------------------------------------------------------
(* Compose.                                                                 *)

Cells(scalars) == FlattenSeq([i \in 1 .. Len(scalars) |->
                    IF scalars[i] = "w" THEN <<"w", "c">> ELSE <<scalars[i]>>])

BeforeCaret == Prompt \o Cells(SubSeq(text, 1, caret))
\* The prompt, the text to the caret, the composition, the rest.
EditorLine == BeforeCaret \o Cells(comp) \o Cells(SubSeq(text, caret + 1, Len(text)))

\* Mutation: the prompt is not counted.
CaretCell_NoPrompt == Len(BeforeCaret) - Len(Prompt)
\* The number of cells before the caret's.
CaretCell == Len(BeforeCaret)

ScreenStart ==
  LET total == above + Len(Wrap(EditorLine, cols)) IN
  IF total <= rows THEN 0 ELSE total - rows - Least(scroll, total - rows)
CaretRow == above + (CaretCell \div cols) - ScreenStart
Cursor ==
  [col |-> CaretCell % cols, row |-> Most(0, Least(rows - 1, CaretRow)),
   visible |-> CaretRow >= 0 /\ CaretRow < rows]

\* What others do to the viewport: output, a resize, scrolling.
Output == above < MaxAbove /\ above' = above + 1
          /\ UNCHANGED <<text, caret, comp, Walk, completion, scroll, cols, rows>>
Resize == cols' \in Columns /\ rows' \in Heights
          /\ UNCHANGED <<text, caret, comp, Walk, completion, scroll, above>>
Scroll(delta) == scroll' = Most(0, scroll - delta) /\ scroll' <= MaxScroll
          /\ UNCHANGED <<text, caret, comp, Walk, completion, View>>

Next ==
  \/ \E s \in Scalars : Insert(s)
  \/ Backspace \/ Delete
  \/ \E delta \in {-1, 1, -MaxLength, MaxLength} : Move(delta)
  \/ \E c \in Compositions : SetComposition(c)
  \/ HistoryUp \/ HistoryDown \/ Submit
  \/ NoMatches
  \/ \E step \in {-1, 1} : Complete(step)
  \/ Output \/ Resize
  \/ \E delta \in {-1, 1} : Scroll(delta)

Spec == Init /\ [][Next]_vars

-----------------------------------------------------------------------------

\* The caret is in its text, and a walk at an entry of the history.
TypeOK ==
  /\ text \in Seq(Scalars) /\ Len(text) <= MaxLength /\ caret \in 0 .. Len(text)
  /\ comp \in Compositions /\ index \in 0 .. Len(history) /\ Len(history) <= MaxHistory
  /\ above \in 0 .. MaxAbove /\ scroll \in 0 .. MaxScroll /\ cols \in Columns /\ rows \in Heights

\* "The text being edited is kept and restored after the newest entry": the
\* draft survives the walk, whatever is typed or completed on the way.
WalkGivesTheDraft == index # 0 /\ index' = 0 /\ history' = history => text' = draft

\* The rows and columns of the screen that show cell i of the editor line.
PlacesOf(i) ==
  LET lines == Wrap(EditorLine, cols)
      before == ScreenStart - above
  IN  {place \in (0 .. rows - 1) \X (0 .. cols - 1) :
         /\ place[1] + before \in 0 .. Len(lines) - 1
         /\ lines[place[1] + before + 1].cells[place[2] + 1] = i}

\* "The cursor is at the caret's cell, visible when the viewport shows it":
\* where a cell follows the caret, the visible cursor is on it.
CaretOnItsCell ==
  LET cell == Len(BeforeCaret) + 1
      cursor == Cursor
  IN
  cell <= Len(EditorLine) =>
    IF cursor.visible THEN <<cursor.row, cursor.col>> \in PlacesOf(cell) ELSE PlacesOf(cell) = {}

\* The caret is in its text, and the cursor Compose reports is where it says.
CaretIsSound == TypeOK /\ CaretOnItsCell

\* Completion changes the text that is there: in place of one piece of it, the
\* scalar before the caret or a whole match that an earlier call left, it puts a
\* match, with the caret at its end.  Nothing typed, deleted or recalled since
\* that earlier call is lost, although it works on the text remembered then.
CompletionKeepsTyping ==
  completion' \notin {completion, NoCompletion} =>
    \E first \in 0 .. Len(text) : \E last \in first .. Len(text) :
      /\ <<first, last>> = <<caret - 1, caret>> \/ SubSeq(text, first + 1, last) \in Range(Matches)
      /\ \E i \in 1 .. Len(Matches) :
           /\ text' = SubSeq(text, 1, first) \o Matches[i] \o SubSeq(text, last + 1, Len(text))
           /\ caret' = first + Len(Matches[i])
=============================================================================
