------------------------ MODULE SetupInterfaceProofs ------------------------
(***************************************************************************)
(* What is proved of SetupInterface, for any number of steps, folders and  *)
(* waiting events: the screen is fresh, builds do not mix and are shown    *)
(* truly, and downloaded packages are deleted as the user answered.        *)
(***************************************************************************)
EXTENDS SetupInterface, TLAPS

-----------------------------------------------------------------------------
(* Types, as far as the proofs need them.                                   *)

Modes == {"Config", "Building", "HelpView", "LogView", "CancelPrompt", "ExitPrompt"}
Events == [type : {"Line", "Blank", "Pass", "Done", "Failed", "Offline"}, step : Nat]
Workers ==
  [state : {"none", "running", "ended"}, target : Nat, at : Int, lines : Nat,
   folder : Folders \cup {"none"}, final : BOOLEAN]

TypeInv ==
  /\ loop \in {"waiting", "batch", "leaving", "gone"} /\ dirty \in BOOLEAN
  /\ UIMode \in Modes /\ ReturnMode \in {"Config", "Building"}
  /\ Step \in 1 .. LastStep /\ Packages \in {"Memory", "Folder"} /\ CacheDirectory \in Folders
  /\ queue \in Seq(Events) /\ worker \in Workers

LEMMA Steps == LastStep \in Nat \ {0} /\ LastStep > 0
  BY SetupAssumption

LEMMA BesideType ==
  ASSUME NEW n \in Nat \ {0}, NEW x \in 1 .. n, NEW y \in Beside(x, n)
  PROVE y \in 1 .. n
<1>1. \A k \in Nat : k % n \in 0 .. n - 1
  OBVIOUS
<1>2. x \in Nat /\ x + n - 2 \in Nat
  OBVIOUS
<1>3. x % n \in 0 .. n - 1 /\ (x + n - 2) % n \in 0 .. n - 1
  BY <1>1, <1>2
<1>4. y = (x % n) + 1 \/ y = ((x + n - 2) % n) + 1
  BY DEF Beside
<1> HIDE DEF Beside
<1> QED BY <1>3, <1>4

LEMMA TypeInit == Init => TypeInv
<1>1. NoWorker \in Workers
  BY DEF NoWorker, Workers
<1> SUFFICES ASSUME Init PROVE TypeInv
  OBVIOUS
<1>2. loop = "waiting" /\ dirty \in BOOLEAN /\ UIMode = "Config" /\ ReturnMode = "Config"
  BY DEF Init
<1>3. Step \in 1 .. LastStep /\ Packages \in {"Memory", "Folder"} /\ CacheDirectory \in Folders
  BY DEF Init
<1>4. worker \in Workers
  BY <1>1 DEF Init
<1>5. queue \in Seq(Events)
  BY DEF Init
<1> QED BY <1>2, <1>3, <1>4, <1>5 DEF TypeInv, Modes

LEMMA EventType ==
  ASSUME NEW type \in {"Line", "Blank", "Pass", "Done", "Failed", "Offline"}, NEW step \in Nat
  PROVE /\ Event(type, step) \in Events
        /\ Event(type, step).type = type /\ Event(type, step).step = step
  BY DEF Event, Events

\* What Post does, and what each step of the worker makes of its record.
LEMMA PostShape ==
  ASSUME queue \in Seq(Events), NEW e \in Events, Post(e)
  PROVE /\ queue' \in Seq(Events) /\ Len(queue') = Len(queue) + 1
        /\ \A i \in 1 .. Len(queue) : queue'[i] = queue[i]
        /\ queue'[Len(queue) + 1] = e
  BY DEF Post

LEMMA WorkShape ==
  ASSUME TypeInv, Work
  PROVE /\ worker' \in Workers /\ UNCHANGED <<worker.state, worker.target>>
        /\ \/ \E type \in {"Line", "Blank"} :
                /\ Post(Event(type, 0)) /\ worker'.final = worker.final
                /\ \/ worker.at = -1 /\ worker'.at = 0 /\ type = "Line"
                   \/ worker.at >= 0 /\ worker'.at = worker.at
           \/ /\ worker.at >= 0 /\ worker.at < worker.target /\ Post(Event("Pass", worker.at + 1))
              /\ worker'.at = worker.at + 1 /\ worker'.final = worker.final
           \/ \E type \in {"Done", "Failed", "Offline"} :
                /\ Post(Event(type, 0)) /\ worker.at >= 0 /\ worker'.at = worker.at /\ worker'.final
                /\ type = "Done" => worker.at = worker.target
           \/ UNCHANGED <<queue, worker>>
<1> USE DEF TypeInv, Workers
<1>1. CASE WriteLine
  BY <1>1 DEF WriteLine
<1>2. CASE CompleteStep
  BY <1>2 DEF CompleteStep
<1>3. CASE Finish
  BY <1>3 DEF Finish
<1>4. CASE UNCHANGED <<queue, worker>>
  BY <1>4
<1> QED BY <1>1, <1>2, <1>3, <1>4 DEF Work

LEMMA KeyType == TypeInv /\ Key => TypeInv'
<1> SUFFICES ASSUME TypeInv, Key PROVE TypeInv'
  OBVIOUS
<1> USE DEF TypeInv
<1>1. loop' = "batch" /\ dirty' = TRUE /\ UNCHANGED queue
  BY DEF Key
<1>2. CASE ClosePopup \/ ShowDebugPopup \/ MoveCursor \/ SaveBuildLog
  BY <1>1, <1>2 DEF ClosePopup, ShowDebugPopup, MoveCursor, SaveBuildLog, Quiet, ui, options
<1>3. CASE Overlay \/ Ask
  BY <1>1, <1>3 DEF Overlay, Ask, ExitKey, Prompt, Enter, Quiet, options, Modes
<1>4. CASE Return \/ Back
  BY <1>1, <1>4 DEF Return, Back, Go, Quiet, options, Modes
<1>5. CASE SetOptionValue
  BY <1>1, <1>5, Steps, BesideType DEF SetOptionValue, TogglePackages, Quiet, ui
<1>6. CASE SelectCacheFolder
  BY <1>1, <1>6 DEF SelectCacheFolder, ui
<1>7. CASE StartPipelineWorker
  <2>1. worker' \in Workers
    <3>1. Step \in Nat /\ (IF Packages = "Folder" THEN CacheDirectory ELSE "none") \in Folders \cup {"none"}
      BY Steps
    <3>2. CASE worker.state = "running"
      BY <1>7, <3>2 DEF StartPipelineWorker
    <3>3. CASE worker.state # "running"
      <4> DEFINE folder == IF Packages = "Folder" THEN CacheDirectory ELSE "none"
                 w == [state |-> "running", target |-> Step, at |-> -1, lines |-> 0, final |-> FALSE,
                       folder |-> folder]
      <4>1. w \in Workers
        <5> HIDE DEF folder
        <5> QED BY <3>1 DEF Workers, folder
      <4> QED BY <1>7, <3>3, <4>1 DEF StartPipelineWorker
    <3> QED BY <3>2, <3>3
  <2> QED BY <1>1, <1>7, <2>1 DEF StartPipelineWorker, Go, options, Modes
<1> QED BY <1>2, <1>3, <1>4, <1>5, <1>6, <1>7 DEF Key

LEMMA TypeStep == TypeInv /\ [Next]_vars => TypeInv'
<1> SUFFICES ASSUME TypeInv, [Next]_vars PROVE TypeInv'
  OBVIOUS
<1> USE DEF TypeInv
<1>1. CASE Key
  BY <1>1, KeyType
<1>2. CASE Exit
  BY <1>2 DEF Exit, ui, build
<1>3. CASE WorkerEvent
  <2>1. UNCHANGED <<UIMode, ReturnMode>> /\ dirty' \in BOOLEAN
    BY <1>3 DEF WorkerEvent, Output, Done, Failed, Marks, ui
  <2> QED BY <1>3, <2>1 DEF WorkerEvent, options
<1>4. CASE Work
  <2>1. UNCHANGED <<loop, dirty, ui, options>>
    BY <1>4 DEF Work
  <2>2. queue' \in Seq(Events) /\ worker' \in Workers
    <3>1. worker' \in Workers
      BY <1>4, WorkShape
    <3>2. worker.at >= 0 => worker.at + 1 \in Nat
      BY DEF Workers
    <3>3. CASE UNCHANGED <<queue, worker>>
      BY <3>3
    <3>4. CASE ~UNCHANGED <<queue, worker>>
      <4>1. PICK e \in Events : Post(e)
        BY <1>4, <3>2, <3>4, WorkShape, EventType
      <4> QED BY <3>1, <4>1, PostShape
    <3> QED BY <3>3, <3>4
  <2> QED BY <2>1, <2>2 DEF ui, options
<1>5. CASE WorkerCompletes
  BY <1>5 DEF WorkerCompletes, Workers, ui, options
<1>6. CASE CleanUp
  BY <1>6 DEF CleanUp, Workers, ui, options
<1>7. CASE RenderCanvas
  BY <1>7 DEF RenderCanvas, ui, options, build
<1>8. CASE UNCHANGED vars
  BY <1>8 DEF vars, ui, options, build
<1> QED BY <1>1, <1>2, <1>3, <1>4, <1>5, <1>6, <1>7, <1>8 DEF Next

-----------------------------------------------------------------------------
(* The screen                                                               *)

Fresh ==
  /\ loop = "waiting" => ~dirty
  /\ Taking /\ ~dirty =>
       /\ screenShown
       /\ Mode \in {"Building", "LogView"} => statusShown
       /\ UIMode = "LogView" => logShown

LEMMA FreshStep == TypeInv /\ Fresh /\ [Next]_vars => Fresh'
<1> SUFFICES ASSUME TypeInv, Fresh, [Next]_vars PROVE Fresh'
  OBVIOUS
<1>1. CASE Key
  BY <1>1 DEF Key, Fresh
<1>2. CASE Exit
  BY <1>2 DEF Exit, Fresh, Taking
<1>3. CASE WorkerEvent /\ screenShown' = (screenShown /\ Picture' = Picture)
  <2>1. loop' = "batch" /\ UNCHANGED options /\ Taking
    BY <1>3 DEF WorkerEvent
  <2>2. CASE dirty'
    BY <2>1, <2>2 DEF Fresh
  <2>3. CASE ~dirty' /\ Output
    <3>1. UNCHANGED <<ui, progress>> /\ ~dirty
          /\ (UNCHANGED <<statusShown, logShown>> \/ (UIMode = "Building" /\ statusShown'))
      <4>1. UNCHANGED <<ui, FailedNodeId, BuildEnded>>
        BY <2>3 DEF Output
      <4>2. CASE UNCHANGED <<dirty, ActiveNodeId, CompletedNodes, statusShown, logShown>>
        BY <2>3, <4>1, <4>2 DEF progress
      <4>3. CASE /\ ActiveNodeId' = IF ActiveNodeId = 0 THEN Plan(Step)[1] ELSE ActiveNodeId
                 /\ dirty' = Marks(ActiveNodeId = 0) /\ statusShown' = ~dirty'
                 /\ UNCHANGED CompletedNodes
        <5>1. ~dirty /\ ActiveNodeId # 0 /\ UIMode = "Building" /\ statusShown'
          BY <2>3, <4>3, Zenon DEF Marks
        <5>2. ActiveNodeId' = ActiveNodeId
          BY <4>3, <5>1
        <5> QED BY <4>1, <4>3, <5>1, <5>2 DEF progress
      <4> QED BY <2>3, <4>2, <4>3 DEF Output
    <3>3. Picture' = Picture /\ Mode' = Mode /\ UIMode' = UIMode
      BY <2>1, <3>1 DEF Picture, Mode, ui, options, progress
    <3>4. screenShown
      BY <2>1, <3>1 DEF Fresh
    <3>5. screenShown'
      BY <1>3, <3>3, <3>4, Zenon
    <3>6. (Mode \in {"Building", "LogView"} => statusShown') /\ (UIMode = "LogView" => logShown')
      BY <2>1, <3>1 DEF Fresh
    <3> QED BY <2>1, <3>3, <3>5, <3>6 DEF Fresh
  <2>4. ~dirty' => Output
    BY <1>3 DEF WorkerEvent, Done, Failed
  <2> QED BY <2>2, <2>3, <2>4
<1>4. CASE (Work \/ WorkerCompletes) /\ screenShown' = (screenShown /\ Picture' = Picture)
  <2>1. UNCHANGED <<loop, dirty, ui, options, progress, statusShown, logShown>>
    BY <1>4 DEF Work, WorkerCompletes
  <2>2. Picture' = Picture /\ Mode' = Mode /\ UIMode' = UIMode
    BY <2>1 DEF Picture, Mode, ui, options, progress
  <2> QED BY <1>4, <2>1, <2>2 DEF Fresh, Taking
<1>5. CASE CleanUp
  BY <1>5 DEF CleanUp, Fresh, Taking
<1>6. CASE RenderCanvas
  BY <1>6 DEF RenderCanvas, Fresh, Taking, Mode, ui
<1>7. CASE UNCHANGED vars
  BY <1>7 DEF vars, ui, Fresh, Taking, Mode
<1> QED BY <1>1, <1>2, <1>3, <1>4, <1>5, <1>6, <1>7 DEF Next

-----------------------------------------------------------------------------
(* Downloaded packages                                                      *)

Packed ==
  /\ UIMode = "ExitPrompt" => Packages = "Folder"
  /\ loop # "gone" => deleted = {}
  /\ Taking => answer = "none"
  /\ answer = "Y" => KeepPackageCache
  /\ answer = "N" => ~KeepPackageCache /\ Packages = "Folder"
  /\ answer = "none" /\ ~DeletePackages /\ Packages = "Folder" => KeepPackageCache
  /\ PackagesAsAnswered

LEMMA PackedStep == TypeInv /\ Packed /\ [Next]_vars => Packed'
<1> SUFFICES ASSUME TypeInv, Packed, [Next]_vars PROVE Packed'
  OBVIOUS
<1> USE DEF Packed, PackagesAsAnswered
<1>1. CASE Key
  <2>1. Taking /\ loop' = "batch" /\ UNCHANGED <<DeletePackages, deleted>>
    BY <1>1 DEF Key
  <2>2. UNCHANGED answer
    BY <1>1 DEF Key, ClosePopup, ShowDebugPopup, Overlay, Return, MoveCursor, SetOptionValue,
                SelectCacheFolder, StartPipelineWorker, SaveBuildLog, Back, Ask, Quiet
  <2>3. CASE UNCHANGED <<UIMode, options>>
    BY <2>1, <2>2, <2>3 DEF Taking, options
  <2>4. CASE UIMode' # "ExitPrompt" /\ UNCHANGED options
    BY <2>1, <2>2, <2>4 DEF Taking, options
  <2>5. CASE SetOptionValue
    <3>1. UIMode' = "Config" /\ Taking' /\ answer' = "none"
      BY <2>1, <2>2, <2>5 DEF SetOptionValue, Taking, ui
    <3>2. CASE UNCHANGED <<Packages, KeepPackageCache>>
      BY <2>1, <3>1, <3>2 DEF Taking
    <3>3. CASE TogglePackages
      <4>1. Packages' = "Folder" => KeepPackageCache'
        BY <3>3, Zenon DEF TogglePackages
      <4> QED BY <2>1, <3>1, <4>1 DEF Taking
    <3> QED BY <2>5, <3>2, <3>3 DEF SetOptionValue
  <2>6. CASE SelectCacheFolder
    BY <2>1, <2>2, <2>6 DEF SelectCacheFolder, Taking, ui
  <2>7. CASE Ask
    BY <2>1, <2>2, <2>7 DEF Ask, Enter, Prompt, Taking, options
  <2>8. CASE Overlay \/ Return \/ Back \/ StartPipelineWorker
    BY <2>4, <2>8 DEF Overlay, Enter, Return, Back, Go, StartPipelineWorker, TypeInv
  <2>9. CASE ClosePopup \/ ShowDebugPopup \/ MoveCursor \/ SaveBuildLog
    BY <2>3, <2>9 DEF ClosePopup, ShowDebugPopup, MoveCursor, SaveBuildLog, ui
  <2> QED BY <1>1, <2>5, <2>6, <2>7, <2>8, <2>9 DEF Key
<1>2. CASE Exit
  <2>1. Taking /\ loop' = "leaving"
        /\ UNCHANGED <<UIMode, Packages, CacheDirectory, DeletePackages, deleted>>
    BY <1>2 DEF Exit, ui
  <2>2. CASE Answer
    BY <2>1, <2>2 DEF Answer, Taking
  <2>3. CASE UNCHANGED <<KeepPackageCache, answer>>
    BY <2>1, <2>3 DEF Taking
  <2> QED BY <1>2, <2>2, <2>3 DEF Exit, Quit
<1>3. CASE WorkerEvent
  <2>1. UNCHANGED UIMode
    BY <1>3 DEF WorkerEvent, Output, Done, Failed, ui
  <2> QED BY <1>3, <2>1 DEF WorkerEvent, options, ending, Taking
<1>4. CASE Work
  <2>1. loop # "gone" /\ UNCHANGED <<loop, ui, options, DeletePackages, ending>>
    BY <1>4 DEF Work, Working
  <2> QED BY <2>1 DEF ui, options, ending, Taking
<1>5. CASE WorkerCompletes
  BY <1>5 DEF WorkerCompletes, ui, options, ending, Taking
<1>6. CASE CleanUp
  <2>1. loop = "leaving" /\ loop' = "gone" /\ Delete
        /\ UNCHANGED <<ui, options, DeletePackages, answer>>
    BY <1>6 DEF CleanUp
  <2>2. deleted = {}
    BY <2>1
  <2>3. answer = "Y" \/ (answer = "none" /\ ~DeletePackages) => deleted' = {}
    BY <2>1, <2>2 DEF Delete
  <2>4. answer = "N" => CacheDirectory' \notin stored'
    BY <2>1 DEF Delete, options
  <2> QED BY <2>1, <2>3, <2>4 DEF ui, options, Taking
<1>7. CASE RenderCanvas
  BY <1>7 DEF RenderCanvas, ui, options, build, ending, Taking
<1>8. CASE UNCHANGED vars
  BY <1>8 DEF vars, ui, options, build, ending, Taking
<1> QED BY <1>1, <1>2, <1>3, <1>4, <1>5, <1>6, <1>7, <1>8 DEF Next

-----------------------------------------------------------------------------
(* One build                                                                *)

\* The menu is shown, or what is shown returns to it.
AtMenu == UIMode = "Config" \/ (UIMode # "Building" /\ ReturnMode = "Config")

IsLast(e) == e.type \in {"Done", "Failed", "Offline"}

\* The worker's last event is the last one in the queue, and the menu is only
\* reached when it has been handled.
Single ==
  /\ worker.state = "none" => queue = <<>> /\ ~BuildEnded
  /\ worker.state = "ended" => worker.final
  /\ worker.state # "none" =>
       /\ AtMenu => BuildEnded
       /\ BuildEnded <=> worker.final /\ queue = <<>>
       /\ ~BuildEnded => Step = worker.target
       /\ \A i \in 1 .. Len(queue) : IsLast(queue[i]) <=> worker.final /\ i = Len(queue)

LEMMA SingleStep == TypeInv /\ (Taking => Single) /\ [Next]_vars => (Taking => Single)'
<1> SUFFICES ASSUME TypeInv, Taking => Single, [Next]_vars, Taking' PROVE Single'
  OBVIOUS
<1>0. Len(queue) \in Nat /\ queue \in Seq(Events) /\ (Len(queue) = 0 <=> queue = <<>>)
  BY DEF TypeInv
<1>1. CASE Key
  <2>1. Single /\ UNCHANGED queue
    BY <1>1 DEF Key
  <2>2. CASE UNCHANGED <<worker, BuildEnded, Step>> /\ (AtMenu' => AtMenu \/ BuildEnded)
    BY <2>1, <2>2 DEF Single
  <2>3. CASE ClosePopup \/ ShowDebugPopup \/ MoveCursor \/ SelectCacheFolder \/ SaveBuildLog
    BY <2>2, <2>3 DEF ClosePopup, ShowDebugPopup, MoveCursor, SelectCacheFolder, SaveBuildLog,
                      Quiet, ui, options, progress, AtMenu
  <2>4. CASE Overlay \/ Ask
    BY <2>2, <2>4 DEF Overlay, Ask, ExitKey, Prompt, Enter, Quiet, options, progress, AtMenu
  <2>5. CASE Return \/ Back
    BY <2>2, <2>5 DEF Return, Back, Go, Quiet, options, progress, AtMenu
  <2>6. CASE SetOptionValue
    <3>1. AtMenu /\ UNCHANGED <<ui, worker, progress>>
      BY <2>6 DEF SetOptionValue, AtMenu, Quiet
    <3> QED BY <2>1, <3>1 DEF Single, AtMenu, ui, progress
  <2>7. CASE StartPipelineWorker
    <3>1. AtMenu /\ ~AtMenu'
      BY <2>7 DEF StartPipelineWorker, Go, AtMenu
    <3>2. CASE worker.state = "running"
      BY <2>1, <2>7, <3>1, <3>2 DEF StartPipelineWorker, Single, options, progress
    <3>3. CASE worker.state # "running"
      <4>1. worker.state \in {"none", "running", "ended"}
        BY DEF TypeInv, Workers
      <4>2. queue = <<>>
        BY <2>1, <3>1, <3>3, <4>1 DEF Single
      <4>3. /\ worker'.state = "running" /\ worker'.target = Step /\ ~worker'.final
            /\ ~BuildEnded' /\ Step' = Step
        BY <2>7, <3>3 DEF StartPipelineWorker, options
      <4>4. Len(queue') = 0
        BY <2>1, <4>2
      <4> QED BY <3>1, <4>3, <4>4 DEF Single
    <3> QED BY <3>2, <3>3
  <2> QED BY <1>1, <2>3, <2>4, <2>5, <2>6, <2>7 DEF Key
<1>2. CASE Exit
  BY <1>2 DEF Exit, Taking
<1>3. CASE WorkerEvent
  <2>1. /\ Single /\ queue # <<>> /\ queue' = Tail(queue)
        /\ UNCHANGED <<Step, worker>>
    BY <1>3 DEF WorkerEvent, options
  <2>2. UNCHANGED <<UIMode, ReturnMode>>
    BY <1>3 DEF WorkerEvent, Output, Done, Failed, ui
  <2>3. worker.state # "none" /\ ~BuildEnded /\ ~AtMenu
    BY <2>1 DEF Single
  <2>4. /\ Len(queue) \in Nat \ {0} /\ Len(queue') = Len(queue) - 1
        /\ \A i \in 1 .. Len(queue') : queue'[i] = queue[i + 1]
    BY <1>0, <2>1
  <2>5. \A i \in 1 .. Len(queue') : IsLast(queue'[i]) <=> worker.final /\ i = Len(queue')
    <3> TAKE i \in 1 .. Len(queue')
    <3>1. i + 1 \in 1 .. Len(queue) /\ queue'[i] = queue[i + 1] /\ (i = Len(queue') <=> i + 1 = Len(queue))
      BY <2>4
    <3> QED BY <2>1, <2>3, <3>1 DEF Single
  <2>6. Head(queue) = queue[1] /\ (IsLast(queue[1]) <=> worker.final /\ 1 = Len(queue))
    <3>1. Head(queue) = queue[1] /\ 1 \in 1 .. Len(queue)
      BY <1>0, <2>1, <2>4
    <3> QED BY <2>1, <2>3, <3>1 DEF Single
  <2>7. BuildEnded' <=> worker.final /\ Len(queue') = 0
    <3>1. CASE Output
      BY <2>3, <2>4, <2>6, <3>1 DEF Output, Next1, IsLast
    <3>2. CASE Done \/ Failed
      BY <2>4, <2>6, <3>2 DEF Done, Failed, Next1, IsLast
    <3> QED BY <1>3, <3>1, <3>2 DEF WorkerEvent
  <2>8. Len(queue') = 0 <=> queue' = <<>>
    <3>1. queue' \in Seq(Events)
      BY <1>0, <2>1
    <3> QED BY <3>1
  <2>9. ~AtMenu' /\ Step' = worker.target
    BY <2>1, <2>2, <2>3 DEF AtMenu, Single
  <2> QED BY <2>1, <2>3, <2>5, <2>7, <2>8, <2>9 DEF Single
<1>4. CASE Work
  <2>1. Single /\ worker.state = "running" /\ ~worker.final /\ UNCHANGED <<ui, Step, BuildEnded>>
    BY <1>4 DEF Work, Working, Taking, options, progress
  <2>2. ~BuildEnded /\ ~AtMenu /\ Step = worker.target /\ \A i \in 1 .. Len(queue) : ~IsLast(queue[i])
    BY <2>1 DEF Single
  <2>3. ~AtMenu' /\ ~BuildEnded' /\ worker'.state = "running" /\ Step' = worker'.target
    BY <1>4, <2>1, <2>2, WorkShape DEF AtMenu, ui
  <2>4. CASE UNCHANGED <<queue, worker>>
    BY <2>1, <2>2, <2>3, <2>4 DEF Single
  <2>5. ASSUME NEW e \in Events, Post(e), IsLast(e) <=> worker'.final, worker'.final \in BOOLEAN
        PROVE Single'
    <3>1. /\ Len(queue') = Len(queue) + 1 /\ queue'[Len(queue) + 1] = e
          /\ \A i \in 1 .. Len(queue) : queue'[i] = queue[i]
      BY <1>0, <2>5, PostShape
    <3>2. \A i \in 1 .. Len(queue') : IsLast(queue'[i]) <=> worker'.final /\ i = Len(queue')
      BY <1>0, <2>2, <2>5, <3>1
    <3>3. queue' # <<>>
      BY <1>0, <3>1
    <3> QED BY <2>3, <3>2, <3>3 DEF Single
  <2>6. worker'.final \in BOOLEAN /\ (worker.at >= 0 => worker.at + 1 \in Nat)
    BY <1>4, WorkShape DEF TypeInv, Workers
  <2> QED BY <1>4, <2>1, <2>4, <2>5, <2>6, WorkShape, EventType DEF IsLast
<1>5. CASE WorkerCompletes
  BY <1>5 DEF WorkerCompletes, Single, Taking, AtMenu, ui, options, progress, TypeInv, Workers
<1>6. CASE CleanUp
  BY <1>6 DEF CleanUp, Taking
<1>7. CASE RenderCanvas
  BY <1>7 DEF RenderCanvas, Single, Taking, AtMenu, ui, options, progress, build
<1>8. CASE UNCHANGED vars
  BY <1>8 DEF vars, Single, Taking, AtMenu, ui, options, progress, build
<1> QED BY <1>1, <1>2, <1>3, <1>4, <1>5, <1>6, <1>7, <1>8 DEF Next

-----------------------------------------------------------------------------
(* True progress                                                            *)

IsPass(e) == e.type = "Pass"

\* The passes under way are those after the c steps shown as done, in order
\* and none left out.
Passing(c) ==
  /\ \A i \in 1 .. Len(queue) : IsPass(queue[i]) => queue[i].step \in c + 1 .. worker.at
  /\ \A i, j \in 1 .. Len(queue) :
       i < j /\ IsPass(queue[i]) /\ IsPass(queue[j]) => queue[i].step < queue[j].step
  /\ \A k \in c + 1 .. worker.at : \E i \in 1 .. Len(queue) : IsPass(queue[i]) /\ queue[i].step = k

\* The step shown as running is the next one, as soon as the first line is
\* handled, which comes before everything else.
Running(c) ==
  IF ActiveNodeId = 0
  THEN /\ c = 0
       /\ IF Len(queue) = 0 THEN worker.at = -1 ELSE queue[1].type = "Line"
  ELSE ActiveNodeId = c + 1

Shown(c) ==
  /\ c \in 0 .. worker.target /\ CompletedNodes = 1 .. c
  /\ worker.at \in -1 .. worker.target /\ (c <= worker.at \/ c = 0)
  /\ worker.at = -1 => Len(queue) = 0
  /\ Passing(c)
  /\ c < worker.target /\ ~BuildEnded => Running(c)
  /\ c < worker.target /\ BuildEnded => FailedNodeId = c + 1
  /\ \A i \in 1 .. Len(queue) : queue[i].type = "Done" => worker.at = worker.target

ShownTruly == Taking /\ worker.state # "none" => \E c \in Nat : Shown(c)

\* What handling the first event leaves of the queue.
LEMMA TailShape ==
  ASSUME TypeInv, queue # <<>>, queue' = Tail(queue)
  PROVE /\ Head(queue) = queue[1] /\ queue[1] \in Events /\ Len(queue) \in Nat /\ Len(queue) >= 1
        /\ Len(queue') = Len(queue) - 1
        /\ \A i \in 1 .. Len(queue') : queue'[i] = queue[i + 1]
        /\ \A i \in 1 .. Len(queue) : i = 1 \/ (i - 1 \in 1 .. Len(queue') /\ queue'[i - 1] = queue[i])
<1>1. queue \in Seq(Events) /\ Len(queue) \in Nat /\ Len(queue) >= 1
  BY DEF TypeInv
<1>2. Head(queue) = queue[1] /\ queue[1] \in Events
  BY <1>1
<1>3. Len(queue') = Len(queue) - 1 /\ \A i \in 1 .. Len(queue') : queue'[i] = queue[i + 1]
  BY <1>1
<1>4. ASSUME NEW i \in 1 .. Len(queue), i # 1
      PROVE i - 1 \in 1 .. Len(queue') /\ queue'[i - 1] = queue[i]
  <2>1. i - 1 \in 1 .. Len(queue') /\ (i - 1) + 1 = i
    BY <1>1, <1>3, <1>4
  <2> QED BY <1>3, <2>1
<1> QED BY <1>1, <1>2, <1>3, <1>4

\* An event that is no pass leaves the passes as they are.
LEMMA PassingTail ==
  ASSUME TypeInv, queue # <<>>, queue' = Tail(queue), UNCHANGED worker,
         NEW c \in Nat, Passing(c), ~IsPass(queue[1])
  PROVE Passing(c)'
<1> DEFINE n == Len(queue')
<1>1. /\ Len(queue) \in Nat /\ Len(queue) >= 1 /\ n = Len(queue) - 1
      /\ \A i \in 1 .. n : queue'[i] = queue[i + 1]
      /\ \A i \in 1 .. Len(queue) : i = 1 \/ (i - 1 \in 1 .. n /\ queue'[i - 1] = queue[i])
  BY TailShape
<1>2. \A i \in 1 .. n : i + 1 \in 1 .. Len(queue)
  BY <1>1
<1>3. \A i \in 1 .. n : IsPass(queue'[i]) => queue'[i].step \in c + 1 .. worker.at
  BY <1>1, <1>2 DEF Passing
<1>4. \A i, j \in 1 .. n : i < j /\ IsPass(queue'[i]) /\ IsPass(queue'[j]) => queue'[i].step < queue'[j].step
  <2> SUFFICES ASSUME NEW i \in 1 .. n, NEW j \in 1 .. n, i < j, IsPass(queue'[i]), IsPass(queue'[j])
               PROVE queue'[i].step < queue'[j].step
    OBVIOUS
  <2>1. i + 1 < j + 1 /\ queue'[i] = queue[i + 1] /\ queue'[j] = queue[j + 1]
    BY <1>1
  <2> QED BY <1>2, <2>1 DEF Passing
<1>5. ASSUME NEW k \in c + 1 .. worker.at
      PROVE \E i \in 1 .. n : IsPass(queue'[i]) /\ queue'[i].step = k
  <2>1. PICK i \in 1 .. Len(queue) : IsPass(queue[i]) /\ queue[i].step = k
    BY DEF Passing
  <2>2. i - 1 \in 1 .. n /\ queue'[i - 1] = queue[i]
    BY <1>1, <2>1
  <2> QED BY <2>1, <2>2
<1> QED BY <1>3, <1>4, <1>5 DEF Passing

\* A pass that is handled is that of the next step.
LEMMA PassingPass ==
  ASSUME TypeInv, queue # <<>>, queue' = Tail(queue), UNCHANGED worker,
         NEW c \in Nat, Passing(c), IsPass(queue[1])
  PROVE queue[1].step = c + 1 /\ c + 1 <= worker.at /\ Passing(c + 1)'
<1> DEFINE n == Len(queue')
<1>0. worker.at \in Int
  BY DEF TypeInv, Workers
<1>1. /\ Len(queue) \in Nat /\ Len(queue) >= 1 /\ n = Len(queue) - 1
      /\ \A i \in 1 .. n : queue'[i] = queue[i + 1]
      /\ \A i \in 1 .. Len(queue) : i = 1 \/ (i - 1 \in 1 .. n /\ queue'[i - 1] = queue[i])
  BY TailShape
<1>2. \A i \in 1 .. n : i + 1 \in 1 .. Len(queue) /\ 1 < i + 1
  BY <1>1
<1>3. 1 \in 1 .. Len(queue) /\ queue[1].step \in c + 1 .. worker.at
  BY <1>1 DEF Passing
<1>4. queue[1].step = c + 1 /\ c + 1 <= worker.at
  <2>1. c + 1 \in c + 1 .. worker.at
    BY <1>0, <1>3
  <2>2. PICK i \in 1 .. Len(queue) : IsPass(queue[i]) /\ queue[i].step = c + 1
    BY <2>1 DEF Passing
  <2>3. i = 1 \/ queue[1].step < c + 1
    BY <1>1, <1>3, <2>2 DEF Passing
  <2> QED BY <1>0, <1>3, <2>2, <2>3
<1>5. ASSUME NEW i \in 1 .. n, IsPass(queue'[i]) PROVE queue'[i].step \in (c + 1) + 1 .. worker.at
  <2>1. queue'[i] = queue[i + 1] /\ i + 1 \in 1 .. Len(queue) /\ 1 < i + 1
    BY <1>1, <1>2
  <2>2. queue[i + 1].step \in c + 1 .. worker.at /\ queue[1].step < queue[i + 1].step
    BY <1>3, <1>5, <2>1 DEF Passing
  <2> QED BY <1>0, <1>4, <2>1, <2>2
<1>6. \A i, j \in 1 .. n : i < j /\ IsPass(queue'[i]) /\ IsPass(queue'[j]) => queue'[i].step < queue'[j].step
  <2> SUFFICES ASSUME NEW i \in 1 .. n, NEW j \in 1 .. n, i < j, IsPass(queue'[i]), IsPass(queue'[j])
               PROVE queue'[i].step < queue'[j].step
    OBVIOUS
  <2>1. i + 1 < j + 1 /\ queue'[i] = queue[i + 1] /\ queue'[j] = queue[j + 1]
    BY <1>1
  <2> QED BY <1>2, <2>1 DEF Passing
<1>7. ASSUME NEW k \in (c + 1) + 1 .. worker.at
      PROVE \E i \in 1 .. n : IsPass(queue'[i]) /\ queue'[i].step = k
  <2>1. k \in c + 1 .. worker.at /\ k # c + 1
    BY <1>0
  <2>2. PICK i \in 1 .. Len(queue) : IsPass(queue[i]) /\ queue[i].step = k
    BY <2>1 DEF Passing
  <2>3. i - 1 \in 1 .. n /\ queue'[i - 1] = queue[i]
    BY <1>1, <1>4, <2>1, <2>2
  <2> QED BY <2>2, <2>3
<1> QED BY <1>4, <1>5, <1>6, <1>7 DEF Passing

LEMMA EventShown ==
  ASSUME TypeInv, Single, WorkerEvent, worker.state # "none", NEW c \in Nat, Shown(c)
  PROVE \E d \in Nat : Shown(d)'
<1>1. /\ queue # <<>> /\ queue' = Tail(queue) /\ UNCHANGED <<Step, worker>>
      /\ (Output \/ Done \/ Failed)
  BY DEF WorkerEvent, options
<1> DEFINE n == Len(queue')
<1>2. /\ Head(queue) = queue[1] /\ Len(queue) \in Nat /\ Len(queue) >= 1 /\ n = Len(queue) - 1
      /\ \A i \in 1 .. n : queue'[i] = queue[i + 1]
  BY <1>1, TailShape
<1>3. ~BuildEnded /\ Step = worker.target /\ 1 \in 1 .. Len(queue)
  <2>1. ~BuildEnded
    BY <1>1, Zenon DEF Single
  <2> QED BY <1>2, <2>1 DEF Single
<1>4. /\ worker.at \in Int /\ worker.target \in Nat /\ Step >= 1
      /\ \A s \in 1 .. Step : Plan(Step)[s] = s
      /\ Len(Plan(Step)) = Step
  BY <1>3, Steps DEF TypeInv, Workers, Plan
<1>5. /\ c <= worker.target /\ CompletedNodes = 1 .. c /\ Passing(c) /\ worker.at >= 0
      /\ worker.at <= worker.target /\ c <= worker.at
  BY <1>2, <1>4 DEF Shown
<1>6. c < worker.target => Running(c)
  BY <1>3 DEF Shown
<1>7. \A i \in 1 .. n : queue'[i].type = "Done" => worker.at = worker.target
  <2> SUFFICES ASSUME NEW i \in 1 .. n, queue'[i].type = "Done" PROVE worker.at = worker.target
    OBVIOUS
  <2>1. i + 1 \in 1 .. Len(queue) /\ queue'[i] = queue[i + 1]
    BY <1>2
  <2> QED BY <2>1 DEF Shown
\* A line or a blank: the passes stay, and the first step may begin to run.
<1>8. ASSUME ~IsPass(queue[1]), UNCHANGED <<CompletedNodes, BuildEnded>>,
             c < worker.target => ActiveNodeId' = c + 1
      PROVE Shown(c)'
  <2>1. Passing(c)'
    BY <1>1, <1>5, <1>8, PassingTail
  <2>2. c < worker.target => Running(c)'
    BY <1>8 DEF Running
  <2> QED BY <1>1, <1>3, <1>4, <1>5, <1>7, <1>8, <2>1, <2>2 DEF Shown
<1>9. CASE Output /\ queue[1].type = "Blank"
  <2>1. UNCHANGED <<ActiveNodeId, CompletedNodes, BuildEnded>>
    BY <1>2, <1>9 DEF Output, Next1
  <2>2. c < worker.target => ActiveNodeId = c + 1
    BY <1>2, <1>6, <1>9 DEF Running
  <2> QED BY <1>8, <1>9, <2>1, <2>2 DEF IsPass
<1>10. CASE Output /\ queue[1].type = "Line"
  <2>1. /\ UNCHANGED <<CompletedNodes, BuildEnded>>
        /\ ActiveNodeId' = IF ActiveNodeId = 0 THEN Plan(Step)[1] ELSE ActiveNodeId
    BY <1>2, <1>10 DEF Output, Next1
  <2>2. c < worker.target => ActiveNodeId' = c + 1
    BY <1>4, <1>6, <2>1 DEF Running
  <2> QED BY <1>8, <1>10, <2>1, <2>2 DEF IsPass
<1>11. CASE Output /\ queue[1].type = "Pass"
  <2>1. /\ UNCHANGED BuildEnded /\ CompletedNodes' = CompletedNodes \cup {queue[1].step}
        /\ ActiveNodeId' = Following(queue[1].step)
    BY <1>2, <1>11 DEF Output, Next1
  <2>2. queue[1].step = c + 1 /\ c + 1 <= worker.at /\ Passing(c + 1)'
    BY <1>1, <1>5, <1>11, PassingPass DEF IsPass
  <2>3. CompletedNodes' = 1 .. c + 1
    BY <1>5, <2>1, <2>2
  <2>4. c + 1 < worker.target => ActiveNodeId' = c + 2 /\ ActiveNodeId' # 0
    BY <1>3, <1>4, <2>1, <2>2 DEF Following
  <2>5. c + 1 < worker.target => Running(c + 1)'
    BY <2>4 DEF Running
  <2>6. Shown(c + 1)'
    BY <1>1, <1>3, <1>4, <1>5, <1>7, <2>1, <2>2, <2>3, <2>5 DEF Shown
  <2> QED BY <2>6
\* The last event: no pass is under way any more.
<1>12. CASE Done \/ Failed
  <2>1. IsLast(queue[1]) /\ ~IsPass(queue[1]) /\ BuildEnded' /\ UNCHANGED CompletedNodes
    BY <1>2, <1>12 DEF Done, Failed, Next1, IsLast, IsPass
  <2>2. Len(queue) = 1
    BY <1>3, <2>1 DEF Single
  <2>3. c = worker.at
    <3>1. ~(c + 1 \in c + 1 .. worker.at)
      BY <2>1, <2>2, <1>5 DEF Passing
    <3> QED BY <1>4, <1>5, <3>1
  <2>4. CASE Done
    <3>1. c = worker.target
      BY <1>2, <1>3, <2>3, <2>4 DEF Done, Next1, Shown
    <3>2. Passing(c)'
      BY <1>1, <1>5, <2>1, PassingTail
    <3>3. Shown(c)'
      BY <1>1, <1>4, <1>5, <1>7, <2>1, <3>1, <3>2 DEF Shown
    <3> QED BY <3>3
  <2>5. CASE Failed
    <3>1. FailedNodeId' = ActiveNodeId /\ queue[1].type # "Line"
      BY <1>2, <2>5 DEF Failed, Fails, Next1
    <3>2. c < worker.target => FailedNodeId' = c + 1
      BY <1>2, <1>6, <3>1 DEF Running
    <3>3. Passing(c)'
      BY <1>1, <1>5, <2>1, PassingTail
    <3>4. Shown(c)'
      BY <1>1, <1>4, <1>5, <1>7, <2>1, <3>2, <3>3 DEF Shown
    <3> QED BY <3>4
  <2> QED BY <1>12, <2>4, <2>5
<1>13. Output => queue[1].type \in {"Blank", "Pass", "Line"}
  BY <1>2 DEF Output, Next1
<1> QED BY <1>1, <1>8, <1>9, <1>10, <1>11, <1>12, <1>13

LEMMA WorkShown ==
  ASSUME TypeInv, Single, Work, Taking, worker.state # "none", NEW c \in Nat, Shown(c)
  PROVE Shown(c)'
<1>1. ~worker.final /\ UNCHANGED progress
  BY DEF Work, Working
<1>2. ~BuildEnded
  BY <1>1, Zenon DEF Single
<1>3. worker'.target = worker.target /\ ~BuildEnded'
      /\ UNCHANGED <<CompletedNodes, ActiveNodeId, FailedNodeId>>
  BY <1>1, <1>2, WorkShape DEF progress
<1>4. /\ worker.at \in Int /\ worker.target \in Nat /\ Len(queue) \in Nat /\ queue \in Seq(Events)
      /\ c <= worker.target /\ CompletedNodes = 1 .. c /\ worker.at >= -1 /\ worker.at <= worker.target
      /\ (c <= worker.at \/ c = 0) /\ (worker.at = -1 => Len(queue) = 0)
      /\ Passing(c) /\ (c < worker.target => Running(c))
  BY <1>2 DEF Shown, TypeInv, Workers
<1>5. CASE UNCHANGED <<queue, worker>>
  BY <1>1, <1>5 DEF Shown, Passing, Running, progress
<1> DEFINE n == Len(queue)
\* An event that is posted: it is a pass only of the next step, and the first
\* event of all is a line.
<1>6. ASSUME NEW e \in Events, Post(e), worker'.at \in Int, worker'.at <= worker.target, worker'.at >= 0,
             IF IsPass(e) THEN worker.at >= 0 /\ e.step = worker.at + 1 /\ worker'.at = worker.at + 1
             ELSE worker'.at = worker.at \/ (worker.at = -1 /\ worker'.at = 0 /\ e.type = "Line"),
             e.type = "Done" => worker'.at = worker.target
      PROVE Shown(c)'
  <2>1. /\ Len(queue') = n + 1 /\ queue'[n + 1] = e
        /\ \A i \in 1 .. n : queue'[i] = queue[i]
    BY <1>4, <1>6, PostShape
  <2>2. worker.at <= worker'.at /\ c <= worker'.at
    BY <1>4, <1>6
  <2>3. \A i \in 1 .. n + 1 : i \in 1 .. n \/ i = n + 1
    BY <1>4
  <2>4. \A i \in 1 .. n : IsPass(queue[i]) => queue[i].step \in c + 1 .. worker.at
    BY <1>4 DEF Passing
  <2>5. \A i \in 1 .. n + 1 : IsPass(queue'[i]) => queue'[i].step \in c + 1 .. worker'.at
    <3> SUFFICES ASSUME NEW i \in 1 .. n + 1, IsPass(queue'[i]) PROVE queue'[i].step \in c + 1 .. worker'.at
      OBVIOUS
    <3>1. CASE i \in 1 .. n
      BY <1>4, <1>6, <2>1, <2>2, <2>4, <3>1
    <3>2. CASE i = n + 1
      <4>1. IsPass(e) /\ queue'[i].step = e.step
        BY <2>1, <3>2
      <4>2. c <= worker.at
        BY <1>4, <1>6, <4>1
      <4> QED BY <1>4, <1>6, <4>1, <4>2
    <3> QED BY <2>3, <3>1, <3>2
  <2>6. \A i, j \in 1 .. n + 1 :
          i < j /\ IsPass(queue'[i]) /\ IsPass(queue'[j]) => queue'[i].step < queue'[j].step
    <3> SUFFICES ASSUME NEW i \in 1 .. n + 1, NEW j \in 1 .. n + 1, i < j, IsPass(queue'[i]), IsPass(queue'[j])
                 PROVE queue'[i].step < queue'[j].step
      OBVIOUS
    <3>1. i \in 1 .. n /\ queue'[i] = queue[i]
      BY <1>4, <2>1
    <3>2. CASE j \in 1 .. n
      BY <1>4, <2>1, <3>1, <3>2 DEF Passing
    <3>3. CASE j = n + 1
      <4>1. IsPass(e) /\ queue'[j].step = e.step
        BY <2>1, <3>3
      <4>2. e.step = worker.at + 1 /\ queue[i].step \in c + 1 .. worker.at
        BY <1>6, <2>4, <3>1, <4>1
      <4> QED BY <1>4, <3>1, <4>1, <4>2
    <3> QED BY <2>3, <3>2, <3>3
  <2>7. ASSUME NEW k \in c + 1 .. worker'.at
        PROVE \E i \in 1 .. n + 1 : IsPass(queue'[i]) /\ queue'[i].step = k
    <3>1. CASE k \in c + 1 .. worker.at
      <4>1. PICK i \in 1 .. n : IsPass(queue[i]) /\ queue[i].step = k
        BY <1>4, <3>1 DEF Passing
      <4> QED BY <1>4, <2>1, <4>1
    <3>2. CASE k \notin c + 1 .. worker.at
      <4>1. IsPass(e) /\ k = worker.at + 1
        BY <1>4, <1>6, <2>2, <3>2
      <4> QED BY <1>4, <1>6, <2>1, <4>1
    <3> QED BY <3>1, <3>2
  <2>8. Passing(c)'
    BY <2>1, <2>5, <2>6, <2>7 DEF Passing
  <2>9. c < worker.target => Running(c)'
    <3> SUFFICES ASSUME c < worker.target, ActiveNodeId = 0 PROVE c = 0 /\ queue'[1].type = "Line"
      BY <1>3, <1>4, <2>1 DEF Running
    <3>1. c = 0 /\ IF n = 0 THEN worker.at = -1 ELSE queue[1].type = "Line"
      BY <1>4 DEF Running
    <3>2. CASE n = 0
      BY <1>6, <2>1, <3>1, <3>2
    <3>3. CASE n # 0
      BY <1>4, <2>1, <3>1, <3>3
    <3> QED BY <3>1, <3>2, <3>3
  <2>10. \A i \in 1 .. n + 1 : queue'[i].type = "Done" => worker'.at = worker.target
    <3> SUFFICES ASSUME NEW i \in 1 .. n + 1, queue'[i].type = "Done" PROVE worker'.at = worker.target
      OBVIOUS
    <3>1. CASE i \in 1 .. n
      BY <1>6, <2>1, <2>2, <3>1 DEF Shown
    <3>2. CASE i = n + 1
      BY <1>6, <2>1, <3>2
    <3> QED BY <2>3, <3>1, <3>2
  <2> QED BY <1>3, <1>4, <1>6, <2>1, <2>2, <2>8, <2>9, <2>10 DEF Shown
<1>7. worker.at >= 0 => worker.at + 1 \in Nat
  BY <1>4
<1>8. ASSUME NEW type \in {"Line", "Blank"}, Post(Event(type, 0)),
             \/ worker.at = -1 /\ worker'.at = 0 /\ type = "Line"
             \/ worker.at >= 0 /\ worker'.at = worker.at
      PROVE Shown(c)'
  <2> DEFINE e == Event(type, 0)
  <2>1. e \in Events /\ e.type = type /\ 0 <= worker.target /\ Post(e)
    BY <1>4, <1>8, EventType
  <2>2. worker'.at \in Int /\ worker'.at <= worker.target /\ worker'.at >= 0
    BY <1>4, <1>8
  <2> HIDE DEF e
  <2>3. ~IsPass(e) /\ e.type # "Done"
    BY <2>1 DEF IsPass
  <2>4. worker'.at = worker.at \/ (worker.at = -1 /\ worker'.at = 0 /\ e.type = "Line")
    BY <1>8, <2>1
  <2>5. IF IsPass(e) THEN worker.at >= 0 /\ e.step = worker.at + 1 /\ worker'.at = worker.at + 1
       ELSE worker'.at = worker.at \/ (worker.at = -1 /\ worker'.at = 0 /\ e.type = "Line")
    BY <2>3, <2>4
  <2>6. e.type = "Done" => worker'.at = worker.target
    BY <2>3
  <2> QED BY <1>6, <2>1, <2>2, <2>5, <2>6, Zenon
<1>9. ASSUME worker.at >= 0, worker.at < worker.target, Post(Event("Pass", worker.at + 1)),
             worker'.at = worker.at + 1
      PROVE Shown(c)'
  BY <1>4, <1>6, <1>7, <1>9, EventType DEF IsPass
<1>10. ASSUME NEW type \in {"Done", "Failed", "Offline"}, Post(Event(type, 0)), worker.at >= 0,
              worker'.at = worker.at, type = "Done" => worker.at = worker.target
       PROVE Shown(c)'
  <2> DEFINE e == Event(type, 0)
  <2>1. e \in Events /\ e.type = type /\ Post(e)
    BY <1>10, EventType
  <2>2. worker'.at \in Int /\ worker'.at <= worker.target /\ worker'.at >= 0
    BY <1>4, <1>10
  <2> HIDE DEF e
  <2>3. ~IsPass(e)
    BY <2>1 DEF IsPass
  <2>4. e.type = "Done" => worker'.at = worker.target
    BY <1>10, <2>1
  <2>5. IF IsPass(e) THEN worker.at >= 0 /\ e.step = worker.at + 1 /\ worker'.at = worker.at + 1
       ELSE worker'.at = worker.at \/ (worker.at = -1 /\ worker'.at = 0 /\ e.type = "Line")
    BY <1>10, <2>3
  <2> QED BY <1>6, <2>1, <2>2, <2>4, <2>5, Zenon
<1> QED BY <1>5, <1>8, <1>9, <1>10, WorkShape

\* A build that starts shows nothing done and nothing running.
LEMMA StartShown ==
  ASSUME TypeInv, queue' = <<>>, worker'.state = "running", worker'.target = Step, worker'.at = -1,
         CompletedNodes' = {}, ActiveNodeId' = 0, ~BuildEnded'
  PROVE Shown(0)'
<1>1. Step \in Nat /\ Len(queue') = 0 /\ CompletedNodes' = 1 .. 0
  BY Steps DEF TypeInv
<1>2. Passing(0)' /\ Running(0)'
  BY <1>1 DEF Passing, Running
<1> QED BY <1>1, <1>2 DEF Shown

LEMMA ShownStep ==
  TypeInv /\ (Taking => Single) /\ ShownTruly /\ [Next]_vars => ShownTruly'
<1> SUFFICES ASSUME TypeInv, Taking => Single, ShownTruly, [Next]_vars, Taking', worker'.state # "none"
             PROVE \E c \in Nat : Shown(c)'
  BY DEF ShownTruly
<1>1. ASSUME Taking, worker.state # "none" PROVE Single /\ \E c \in Nat : Shown(c)
  BY <1>1 DEF ShownTruly
<1>2. ASSUME Taking, worker.state # "none", UNCHANGED <<queue, progress, worker.at, worker.target>>
      PROVE \E c \in Nat : Shown(c)'
  <2>1. PICK c \in Nat : Shown(c)
    BY <1>1, <1>2
  <2>2. Shown(c)'
    BY <1>2, <2>1 DEF Shown, Passing, Running, progress
  <2> QED BY <2>2
<1>3. CASE Key
  <2>1. Single /\ Taking /\ UNCHANGED queue
    BY <1>3 DEF Key
  <2>2. CASE UNCHANGED <<progress, worker>>
    BY <1>2, <2>1, <2>2
  <2>3. CASE StartPipelineWorker /\ worker.state # "running"
    <3>1. queue = <<>>
      <4>1. AtMenu /\ worker.state \in {"none", "running", "ended"}
        BY <2>3 DEF StartPipelineWorker, AtMenu, TypeInv, Workers
      <4> QED BY <2>1, <2>3, <4>1 DEF Single
    <3>2. /\ worker'.state = "running" /\ worker'.target = Step /\ worker'.at = -1
          /\ CompletedNodes' = {} /\ ActiveNodeId' = 0 /\ ~BuildEnded'
      BY <2>3 DEF StartPipelineWorker
    <3>3. Shown(0)'
      BY <2>1, <3>1, <3>2, StartShown
    <3> QED BY <3>3
  <2>4. UNCHANGED <<progress, worker>> \/ (StartPipelineWorker /\ worker.state # "running")
    BY <1>3 DEF Key, ClosePopup, ShowDebugPopup, Overlay, Return, MoveCursor, SetOptionValue,
                SelectCacheFolder, StartPipelineWorker, SaveBuildLog, Back, Ask, Quiet
  <2> QED BY <2>2, <2>3, <2>4
<1>4. CASE Exit
  BY <1>4 DEF Exit, Taking
<1>5. CASE WorkerEvent
  <2>1. Taking /\ UNCHANGED worker
    BY <1>5 DEF WorkerEvent
  <2> QED BY <1>1, <1>5, <2>1, EventShown
<1>6. CASE Work
  <2>1. Taking /\ worker.state # "none"
    BY <1>6 DEF Work, Working, Taking
  <2>2. PICK c \in Nat : Shown(c)
    BY <1>1, <2>1
  <2>3. Shown(c)'
    BY <1>1, <1>6, <2>1, <2>2, WorkShown
  <2> QED BY <2>3
<1>7. CASE WorkerCompletes
  <2>1. worker'.at = worker.at /\ worker'.target = worker.target
    BY <1>7 DEF WorkerCompletes, TypeInv, Workers
  <2> QED BY <1>2, <1>7, <2>1 DEF WorkerCompletes, Taking
<1>8. CASE CleanUp
  BY <1>8 DEF CleanUp, Taking
<1>9. CASE RenderCanvas
  BY <1>2, <1>9 DEF RenderCanvas, build, Taking
<1>10. CASE UNCHANGED vars
  BY <1>2, <1>10 DEF vars, build, Taking
<1> QED BY <1>3, <1>4, <1>5, <1>6, <1>7, <1>8, <1>9, <1>10 DEF Next

-----------------------------------------------------------------------------
(* Theorems                                                                 *)

Inv == TypeInv /\ Fresh /\ Packed /\ (Taking => Single) /\ ShownTruly

LEMMA Invariant == Spec => []Inv
<1>1. Init => Inv
  <2> SUFFICES ASSUME Init PROVE Inv
    OBVIOUS
  <2>1. Fresh
    BY DEF Init, Fresh
  <2>2. Packed
    BY DEF Init, Packed, PackagesAsAnswered
  <2>3. Single /\ worker.state = "none"
    BY DEF Init, Single, NoWorker
  <2> QED BY <2>1, <2>2, <2>3, TypeInit DEF Inv, ShownTruly
<1>2. Inv /\ [Next]_vars => Inv'
  BY TypeStep, FreshStep, PackedStep, SingleStep, ShownStep DEF Inv
<1> QED BY <1>1, <1>2, PTL DEF Spec

\* While the loop waits, the screen is what it would draw, however keys, events
\* of the worker and draws alternate.
THEOREM ScreenStaysFresh == Spec => []ScreenIsFresh
<1>1. Inv => ScreenIsFresh
  BY DEF Inv, Fresh, ScreenIsFresh, Taking
<1> QED BY <1>1, Invariant, PTL

\* Downloaded packages are deleted as the user answered, and never unasked
\* without -DeletePackages.
THEOREM PackagesFollowTheAnswer == Spec => []PackagesAsAnswered
<1>1. Inv => PackagesAsAnswered
  BY DEF Inv, Packed
<1> QED BY <1>1, Invariant, PTL

\* A build counts as ended exactly when its last event has been handled, and
\* what is shown of it is done, running or failed: for builds one after the
\* other, of any number of steps, with any number of events waiting.
THEOREM BuildIsShownTruly == Spec => []BuildIsShown
<1>1. Inv => BuildIsShown
  <2> SUFFICES ASSUME Inv, Taking, worker.state # "none" PROVE BuildIsShown
    BY DEF BuildIsShown, OneBuild, ProgressIsTrue
  <2>1. TypeInv /\ Single
    BY DEF Inv
  <2>2. PICK c \in Nat : Shown(c)
    BY DEF Inv, ShownTruly
  <2>3. worker.at \in Int /\ worker.target \in Nat
    BY <2>1 DEF TypeInv, Workers
  <2>4. OneBuild
    BY <2>1 DEF Single, OneBuild
  <2>5. CompletedNodes \subseteq 1 .. worker.at
    BY <2>2, <2>3 DEF Shown
  <2>6. Remaining = c + 1 .. worker.target
    BY <2>2, <2>3 DEF Shown, Remaining
  <2>7. Remaining # {} => c < worker.target /\ c + 1 \in Remaining /\ First(c + 1)
    BY <2>2, <2>3, <2>6 DEF First
  <2>8. Remaining # {} /\ ~BuildEnded => ActiveNodeId = 0 \/ (ActiveNodeId \in Remaining /\ First(ActiveNodeId))
    BY <2>2, <2>7 DEF Shown, Running
  <2>9. Remaining # {} /\ BuildEnded => FailedNodeId \in Remaining /\ First(FailedNodeId)
    BY <2>2, <2>7 DEF Shown
  <2> QED BY <2>4, <2>5, <2>8, <2>9 DEF BuildIsShown, ProgressIsTrue
<1> QED BY <1>1, Invariant, PTL
=============================================================================
