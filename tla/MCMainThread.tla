---------------------------- MODULE MCMainThread ----------------------------
(***************************************************************************)
(* What the app's main thread runs, on small instances: the native host,   *)
(* with a store of three assemblies, and the editor of the console.  The   *)
(* two share no state, so a behaviour is one of a single part; the other   *)
(* does not move, and the state spaces add up.  The editor comes twice: on *)
(* any grid with one command in its history, and on one grid with two.     *)
(***************************************************************************)
EXTENDS NativeHost

VARIABLES part, text, caret, comp, history, index, saved, draft, completion, above, scroll, cols, rows

Image(name, offset, size) == [name |-> name, offset |-> offset, size |-> size]
MCStoreEntries == <<Image("System.Private.CoreLib.dll", 64, 900), Image("Pwsh.dll", 1024, 10), Image("Empty.dll", 2048, 0)>>
MCRequests == {"System.Private.CoreLib.dll", "Pwsh.dll", "Empty.dll", "Absent.dll"}

\* A prompt of one cell; composing nothing or one cell; two matches.
Editor == INSTANCE ConsoleEditor WITH
  Scalars <- {"n", "z"}, Prompt <- <<"n">>, Compositions <- {<<>>, <<"n">>},
  Matches <- <<<<"n">>, <<"z", "n">>>>, Columns <- {1, 2, 3}, Heights <- {1, 2},
  MaxAbove <- 1, MaxScroll <- 1, MaxLength <- 2, MaxHistory <- 1

\* The same line on one grid, with two commands to walk through.
Walker == INSTANCE ConsoleEditor WITH
  Scalars <- {"n", "z"}, Prompt <- <<"n">>, Compositions <- {<<>>},
  Matches <- <<<<"n">>, <<"z", "n">>>>, Columns <- {2}, Heights <- {1},
  MaxAbove <- 0, MaxScroll <- 0, MaxLength <- 2, MaxHistory <- 2

\* What the proofs take of the tables and the store, and the editor of its
\* constants, here.
ASSUME HostIsSound == HostHypotheses
ASSUME EditorIsSound == Editor!EditorAssumption

editorVars == <<text, caret, comp, history, index, saved, draft, completion, above, scroll, cols, rows>>
mainVars == <<part, vars, editorVars>>

-----------------------------------------------------------------------------

EditorIdle ==
  /\ text = "idle" /\ caret = "idle" /\ comp = "idle" /\ history = "idle" /\ index = "idle" /\ saved = "idle"
  /\ draft = "idle" /\ completion = "idle" /\ above = "idle" /\ scroll = "idle" /\ cols = "idle" /\ rows = "idle"

\* The host stays in a first state of its own, of one build.
MainInit ==
  /\ part \in {"host", "editor", "walker"}
  /\ Init /\ (part # "host" => ps = 8 /\ hardware = FALSE)
  /\ CASE part = "host" -> EditorIdle [] part = "editor" -> Editor!Init [] OTHER -> Walker!Init

MainNext ==
  \/ part = "host" /\ Next /\ UNCHANGED <<part, editorVars>>
  \/ part = "editor" /\ Editor!Next /\ UNCHANGED <<part, vars>>
  \/ part = "walker" /\ Walker!Next /\ UNCHANGED <<part, vars>>

MainSpec == MainInit /\ [][MainNext]_mainVars

-----------------------------------------------------------------------------
(* The properties of the editor, under their names there.                    *)

\* The caret is in its text, and its cursor on the cell behind it (ConsoleEditor).
CaretIsSound == part = "editor" => Editor!CaretIsSound

\* A walk through the history gives the text back that was edited (ConsoleEditor).
DraftIsRestored == [][part # "host" => Editor!WalkGivesTheDraft]_<<part, editorVars>>

\* Completion loses nothing typed since it last worked on the line (ConsoleEditor).
CompletionKeepsTyping == [][part # "host" => Editor!CompletionKeepsTyping]_<<part, editorVars>>
=============================================================================
