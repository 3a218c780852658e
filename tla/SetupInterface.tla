------------------------- MODULE SetupInterface -------------------------
(***************************************************************************)
(* The setup interface of setup.ps1: one loop takes keys and what the      *)
(* worker writes from one queue, and draws when the queue is empty.  The   *)
(* worker runs the build in a runspace of its own and reports only through *)
(* the queue, so the loop sees the build late; its runspace stays Running  *)
(* for a while after its last event.                                       *)
(*                                                                         *)
(* A key is chosen when the loop takes it: the user may have typed it at   *)
(* any time before.  Lines, statuses and log entries are not told apart;   *)
(* statusShown and logShown say whether the newest is on the screen.       *)
(***************************************************************************)
EXTENDS Integers, Sequences

CONSTANTS
  LastStep,   \* $StepIds are 1 .. LastStep, each depending on the one before
  Acquire,    \* the step that downloads packages
  Folders,    \* folders that can be chosen for them
  MaxQueue,   \* events of the worker that wait at once
  MaxLines    \* ordinary lines one build writes

ASSUME SetupAssumption ==
  /\ LastStep \in Nat \ {0} /\ Acquire \in 1 .. LastStep
  /\ MaxQueue \in Nat \ {0} /\ MaxLines \in Nat \ {0}

VARIABLES
  loop,            \* "waiting" in Take, in a "batch", "leaving" or "gone"
  dirty,           \* $dirty
  UIMode, ReturnMode, Popup, OfflineShown,
  nav,             \* ActiveNavIndex
  Step, Packages, CacheDirectory, KeepPackageCache,
  ActiveNodeId, FailedNodeId, CompletedNodes, BuildEnded,
  screenShown, statusShown, logShown,   \* is the screen what it should be?
  queue,           \* the worker's events in EventQueue
  worker,          \* the worker's runspace
  DeletePackages,  \* the switch of the command line
  stored,          \* folders with downloaded packages
  answer,          \* to the package question
  deleted          \* folders Remove-DownloadedPackages was called for

ui       == <<UIMode, ReturnMode, Popup, OfflineShown, nav>>
options  == <<Step, Packages, CacheDirectory, KeepPackageCache>>
progress == <<ActiveNodeId, FailedNodeId, CompletedNodes, BuildEnded>>
build    == <<queue, worker, stored>>
ending   == <<answer, deleted>>
vars == <<loop, dirty, ui, options, progress, screenShown, statusShown, logShown,
          build, DeletePackages, ending>>

\* Resolve-StepOrder on this graph.
Plan(target) == [i \in 1 .. target |-> i]

\* The menu: Step, Packages and Build.  The others change only themselves.
Items == <<"Step", "Packages", "Build">>

\* The values before and after x in a list of n that closes on itself.
Beside(x, n) == {(x % n) + 1, ((x + n - 2) % n) + 1}

\* What Get-CanvasCells draws apart from the status lane and the log.
Mode == IF UIMode = "HelpView" THEN ReturnMode ELSE UIMode
Picture ==
  [mode  |-> <<UIMode, Mode>>, popup |-> Popup,
   menu  |-> IF Mode = "Config" THEN <<nav, Step, Packages, CacheDirectory>> ELSE <<>>,
   steps |-> IF Mode = "Building" THEN <<Step, progress>> ELSE <<>>]

NoWorker == [state |-> "none", target |-> 0, at |-> 0, lines |-> 0, folder |-> "none", final |-> FALSE]

Init ==
  /\ loop = "waiting" /\ dirty = FALSE
  /\ UIMode = "Config" /\ ReturnMode = "Config" /\ Popup = "none" /\ OfflineShown = FALSE /\ nav = 1
  /\ Step \in 1 .. LastStep /\ Packages \in {"Memory", "Folder"} /\ CacheDirectory \in Folders
  /\ DeletePackages \in BOOLEAN /\ KeepPackageCache = (~DeletePackages /\ Packages = "Folder")
  /\ ActiveNodeId = 0 /\ FailedNodeId = 0 /\ CompletedNodes = {} /\ BuildEnded = FALSE
  /\ screenShown = TRUE /\ statusShown = TRUE /\ logShown = TRUE
  /\ queue = <<>> /\ worker = NoWorker /\ stored \in SUBSET Folders
  /\ answer = "none" /\ deleted = {}

-----------------------------------------------------------------------------
(* What keys do.  Each operator leaves loop, dirty and screenShown to Key.  *)

Taking == loop \in {"waiting", "batch"}
Go(mode) == UIMode' = mode /\ UNCHANGED <<ReturnMode, Popup, OfflineShown, nav>>
Enter(mode) == UIMode' = mode /\ ReturnMode' = UIMode /\ UNCHANGED <<Popup, OfflineShown, nav>>
Quiet == UNCHANGED <<statusShown, logShown, progress, worker, answer>>

\* Any popup takes the key; only Enter and Escape close it.
ClosePopup ==
  /\ Popup # "none" /\ Popup' = "none"
  /\ UNCHANGED <<UIMode, ReturnMode, OfflineShown, nav, options>> /\ Quiet

\* F12.
ShowDebugPopup ==
  /\ Popup = "none" /\ Popup' = "Debug"
  /\ UNCHANGED <<UIMode, ReturnMode, OfflineShown, nav, options>> /\ Quiet

\* F1 and C.
Overlay ==
  /\ Popup = "none" /\ UIMode \in {"Config", "Building"}
  /\ Enter("HelpView") \/ Enter("LogView")
  /\ UNCHANGED options /\ Quiet

\* Escape, and what else closes an overlay or declines a prompt.
Return ==
  /\ Popup = "none" /\ UIMode \notin {"Config", "Building"}
  /\ Go(ReturnMode) /\ UNCHANGED options /\ Quiet

MoveCursor ==
  /\ Popup = "none" /\ UIMode = "Config"
  /\ nav' \in Beside(nav, Len(Items))
  /\ UNCHANGED <<UIMode, ReturnMode, Popup, OfflineShown, options>> /\ Quiet

\* Left, Right, and Enter on an option.  Mutation: the toggle leaves
\* KeepPackageCache alone.
TogglePackages_Only ==
  Packages' = (IF Packages = "Folder" THEN "Memory" ELSE "Folder") /\ UNCHANGED KeepPackageCache
TogglePackages ==
  /\ Packages' = IF Packages = "Folder" THEN "Memory" ELSE "Folder"
  /\ KeepPackageCache' = (Packages' = "Folder")

SetOptionValue ==
  /\ Popup = "none" /\ UIMode = "Config" /\ UNCHANGED ui /\ Quiet
  /\ \/ /\ Items[nav] = "Step"
        /\ Step' \in Beside(Step, LastStep)
        /\ UNCHANGED <<Packages, CacheDirectory, KeepPackageCache>>
     \/ Items[nav] = "Packages" /\ TogglePackages /\ UNCHANGED <<Step, CacheDirectory>>

\* Enter on a folder: another one is picked, or there is no picker.
SelectCacheFolder ==
  /\ Popup = "none" /\ UIMode = "Config" /\ Items[nav] = "Packages" /\ Packages = "Folder"
  /\ UNCHANGED <<ui, Step, Packages, KeepPackageCache, progress, worker, answer>>
  /\ \/ CacheDirectory' \in Folders /\ UNCHANGED <<statusShown, logShown>>
     \/ UNCHANGED CacheDirectory /\ statusShown' = FALSE /\ logShown' = FALSE

\* B, and Enter on Build.
StartPipelineWorker ==
  /\ Popup = "none" /\ UIMode = "Config" /\ Go("Building")
  /\ UNCHANGED <<options, logShown, answer>>
  /\ IF worker.state = "running"
     THEN UNCHANGED <<progress, worker, statusShown>>
     ELSE /\ ActiveNodeId' = 0 /\ FailedNodeId' = 0 /\ CompletedNodes' = {} /\ BuildEnded' = FALSE
          /\ statusShown' = FALSE
          /\ worker' = [state |-> "running", target |-> Step, at |-> -1, lines |-> 0, final |-> FALSE,
                        folder |-> IF Packages = "Folder" THEN CacheDirectory ELSE "none"]

\* S: the log is saved, or Save-BuildLog throws.  Both change the status.
SaveBuildLog ==
  /\ Popup = "none" /\ UIMode = "Building" /\ BuildEnded
  /\ statusShown' = FALSE /\ logShown' \in {logShown, FALSE}
  /\ UNCHANGED <<ui, options, progress, worker, answer>>

\* Escape after the end of a build.
Back ==
  Popup = "none" /\ UIMode = "Building" /\ BuildEnded /\ Go("Config") /\ UNCHANGED options /\ Quiet

-----------------------------------------------------------------------------
(* Leaving.                                                                 *)

ExitKey == Popup = "none" /\ (UIMode = "Config" \/ (UIMode = "Building" /\ ~BuildEnded))
Downloading == UIMode = "Building" /\ ActiveNodeId = Acquire
Prompt ==
  IF Downloading THEN "CancelPrompt"
  ELSE IF Packages = "Folder" /\ CacheDirectory \in stored THEN "ExitPrompt" ELSE "none"

\* Request-Exit, when there is something to ask.
Ask == ExitKey /\ Prompt # "none" /\ Enter(Prompt) /\ UNCHANGED options /\ Quiet

\* Y and N to the question about packages.
Answer ==
  /\ Popup = "none" /\ UIMode = "ExitPrompt"
  /\ \/ KeepPackageCache' = TRUE  /\ answer' = "Y"
     \/ KeepPackageCache' = FALSE /\ answer' = "N"

\* Control-C, Request-Exit with nothing to ask, Y to the cancel prompt.
Quit ==
  /\ UNCHANGED <<KeepPackageCache, answer>>
  /\ \/ TRUE
     \/ ExitKey /\ Prompt = "none"
     \/ Popup = "none" /\ UIMode = "CancelPrompt"

Exit ==
  /\ Taking /\ loop' = "leaving"
  /\ Answer \/ Quit
  /\ UNCHANGED <<dirty, ui, Step, Packages, CacheDirectory, progress, statusShown, logShown,
                 build, DeletePackages, deleted>>

\* Every other key that does anything marks the screen.
Key ==
  /\ Taking /\ loop' = "batch" /\ dirty' = TRUE
  /\ \/ ClosePopup \/ ShowDebugPopup \/ Overlay \/ Return
     \/ MoveCursor \/ SetOptionValue \/ SelectCacheFolder
     \/ StartPipelineWorker \/ SaveBuildLog \/ Back \/ Ask
  /\ UNCHANGED <<queue, stored, DeletePackages, deleted>>

-----------------------------------------------------------------------------
(* What the loop does with the worker's events.                             *)

Event(type, step) == [type |-> type, step |-> step]
Next1 == Head(queue)

\* A line that says nothing is logged only.  Any other moves the status lane,
\* on its own in the build view and with a redraw elsewhere.
\* Mutation: only a change of step marks the screen.
Marks_Steps(new) == new
Marks(new) == dirty \/ new \/ UIMode # "Building"

\* The step after a completed one, 0 after the last.
Following(step) == IF step < Len(Plan(Step)) THEN Plan(Step)[step + 1] ELSE 0

Output ==
  /\ UNCHANGED <<ui, FailedNodeId, BuildEnded>>
  /\ \/ /\ Next1.type = "Blank"
        /\ UNCHANGED <<dirty, ActiveNodeId, CompletedNodes, statusShown, logShown>>
     \/ /\ Next1.type = "Pass"
        /\ CompletedNodes' = CompletedNodes \cup {Next1.step}
        /\ ActiveNodeId' = Following(Next1.step)
        /\ dirty' = TRUE /\ statusShown' = FALSE /\ logShown' = FALSE
     \/ /\ Next1.type = "Line"
        /\ ActiveNodeId' = IF ActiveNodeId = 0 THEN Plan(Step)[1] ELSE ActiveNodeId
        /\ dirty' = Marks(ActiveNodeId = 0)
        /\ statusShown' = ~dirty' /\ logShown' = FALSE
        /\ UNCHANGED CompletedNodes

Done ==
  /\ Next1.type = "Done"
  /\ ActiveNodeId' = 0 /\ BuildEnded' = TRUE
  /\ dirty' = TRUE /\ statusShown' = FALSE /\ logShown' = FALSE
  /\ UNCHANGED <<ui, FailedNodeId, CompletedNodes>>

\* Mutation: the active step is cleared first.
Fails_Cleared == FailedNodeId' = 0 /\ ActiveNodeId' = 0
Fails == FailedNodeId' = ActiveNodeId /\ ActiveNodeId' = 0

Failed ==
  /\ Next1.type \in {"Failed", "Offline"}
  /\ Fails /\ BuildEnded' = TRUE
  /\ IF Next1.type = "Offline" /\ ~OfflineShown
     THEN Popup' = "Offline" /\ OfflineShown' = TRUE ELSE UNCHANGED <<Popup, OfflineShown>>
  /\ dirty' = TRUE /\ statusShown' = FALSE /\ logShown' = FALSE
  /\ UNCHANGED <<UIMode, ReturnMode, nav, CompletedNodes>>

WorkerEvent ==
  /\ Taking /\ queue # <<>> /\ loop' = "batch" /\ queue' = Tail(queue)
  /\ Output \/ Done \/ Failed
  /\ UNCHANGED <<options, worker, stored, DeletePackages, ending>>

\* The queue is empty and a draw is due, or not.
RenderCanvas ==
  /\ loop = "batch" /\ queue = <<>> /\ loop' = "waiting" /\ dirty' = FALSE
  /\ IF dirty
     THEN screenShown' = TRUE /\ statusShown' = TRUE /\ logShown' = (logShown \/ UIMode = "LogView")
     ELSE UNCHANGED <<screenShown, statusShown, logShown>>
  /\ UNCHANGED <<ui, options, progress, build, DeletePackages, ending>>

-----------------------------------------------------------------------------
(* The worker: a headless run of setup.ps1 whose output becomes events.     *)

Post(event) == Len(queue) < MaxQueue /\ queue' = Append(queue, event)
Working == worker.state = "running" /\ ~worker.final /\ loop # "gone"

\* The command line comes first; then lines, at most MaxLines of them.
WriteLine ==
  \/ worker.at = -1 /\ Post(Event("Line", 0)) /\ worker' = [worker EXCEPT !.at = 0]
  \/ /\ worker.at >= 0 /\ worker.lines < MaxLines
     /\ \E type \in {"Line", "Blank"} : Post(Event(type, 0))
     /\ worker' = [worker EXCEPT !.lines = @ + 1]

CompleteStep ==
  /\ worker.at >= 0 /\ worker.at < worker.target
  /\ Post(Event("Pass", worker.at + 1)) /\ worker' = [worker EXCEPT !.at = @ + 1]

\* A run that has done all its steps may still fail, the repository having changed.
Finish ==
  /\ worker.at >= 0
  /\ \/ worker.at = worker.target /\ Post(Event("Done", 0))
     \/ \E type \in {"Failed", "Offline"} : Post(Event(type, 0))
  /\ worker' = [worker EXCEPT !.final = TRUE]

Work ==
  /\ Working
  /\ \/ (WriteLine \/ CompleteStep \/ Finish) /\ UNCHANGED stored
     \/ /\ worker.at = Acquire - 1 /\ worker.folder # "none"
        /\ stored' = stored \cup {worker.folder} /\ UNCHANGED <<queue, worker>>
  /\ UNCHANGED <<loop, dirty, ui, options, progress, statusShown, logShown, DeletePackages, ending>>

\* The invocation completes after the last event.
WorkerCompletes ==
  /\ worker.state = "running" /\ worker.final /\ worker' = [worker EXCEPT !.state = "ended"]
  /\ UNCHANGED <<loop, dirty, ui, options, progress, statusShown, logShown, queue, stored,
                 DeletePackages, ending>>

-----------------------------------------------------------------------------
(* After the loop: the worker is stopped, then packages may be deleted.     *)

Delete ==
  IF Packages = "Folder" /\ ~KeepPackageCache /\ CacheDirectory \in stored
  THEN stored' = stored \ {CacheDirectory} /\ deleted' = deleted \cup {CacheDirectory}
  ELSE UNCHANGED <<stored, deleted>>

CleanUp ==
  /\ loop = "leaving" /\ loop' = "gone" /\ Delete
  /\ worker' = [worker EXCEPT !.state = IF @ = "none" THEN @ ELSE "ended"]
  /\ UNCHANGED <<dirty, ui, options, progress, statusShown, logShown, queue, DeletePackages, answer>>

Next ==
  \/ (Key \/ Exit \/ WorkerEvent \/ Work \/ WorkerCompletes \/ CleanUp)
     /\ screenShown' = (screenShown /\ Picture' = Picture)
  \/ RenderCanvas

Spec == Init /\ [][Next]_vars

-----------------------------------------------------------------------------
(* Properties.                                                              *)

Remaining == {s \in 1 .. worker.target : s \notin CompletedNodes}
First(s) == \A other \in Remaining : s <= other

\* Builds do not mix: a build counts as ended exactly when its last event has
\* been handled, and until then the step chosen in the menu, from which the
\* view and the progress are computed, is the one the worker was given.
OneBuild ==
  Taking /\ worker.state # "none" =>
    /\ BuildEnded <=> worker.final /\ queue = <<>>
    /\ ~BuildEnded => Step = worker.target

\* The build view shows steps done that are done, the running one as running
\* and the one that failed as failed, though it only reads what was printed.
\* (Nothing is said of a failure after the last step.)
ProgressIsTrue ==
  Taking /\ worker.state # "none" =>
    /\ CompletedNodes \subseteq 1 .. worker.at
    /\ Remaining # {} /\ ~BuildEnded => ActiveNodeId = 0 \/ (ActiveNodeId \in Remaining /\ First(ActiveNodeId))
    /\ Remaining # {} /\ BuildEnded => FailedNodeId \in Remaining /\ First(FailedNodeId)

\* While the loop waits for the next event the screen is what it would draw:
\* the view, the status lane where one is shown, the newest line of the log.
ScreenIsFresh ==
  loop = "waiting" =>
    /\ screenShown
    /\ Mode \in {"Building", "LogView"} => statusShown
    /\ UIMode = "LogView" => logShown

\* Packages are deleted when the user says so and only then: not after Y, not
\* unasked without -DeletePackages; and after N none are left in the folder
\* named in the question, though a build may have been writing there.
PackagesAsAnswered ==
  loop = "gone" =>
    /\ answer = "Y" => deleted = {}
    /\ answer = "N" => CacheDirectory \notin stored
    /\ answer = "none" /\ ~DeletePackages => deleted = {}

\* What is shown of a build is that build's, and true.
BuildIsShown == OneBuild /\ ProgressIsTrue
=============================================================================
