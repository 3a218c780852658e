---------------------------- MODULE ConsoleInput ----------------------------
(***************************************************************************)
(* The main looper of the console: input events and the hold timer of      *)
(* AndroidCanvas.psm1, and the handlers of Start-Console.ps1 that turn     *)
(* them into gestures, edits and one draw per batch.  The fingers are the  *)
(* environment: each touch appends an event to the queue, and the looper   *)
(* gets to it later.                                                       *)
(***************************************************************************)
EXTENDS Integers, Sequences, SequencesExt

CONSTANTS
  HoldTime,     \* ticks of the hold timer (500 ms)
  TapTime,      \* ticks in which a second touch belongs to a tap (300 ms)
  Kinds,        \* the events other than touches that occur
  Paces,        \* TRUE: the looper handles everything before time goes on
  MaxQueue      \* bound: events in the queue

ASSUME InputAssumption ==
  /\ HoldTime \in Nat \ {0} /\ TapTime \in Nat /\ Paces \subseteq BOOLEAN /\ MaxQueue \in Nat
  /\ Kinds \subseteq {"key", "other key", "wheel", "right press", "press", "mouse move", "release",
                    "swipe", "pinch", "hover"}

VARIABLES
  fingers,   \* on the screen, 0 to 2
  still,     \* they have not moved since they were put there
  held,      \* the ticks since then
  queue,     \* events Android has delivered and the looper has not taken
  timer,     \* ticks until the timerfd expires, 0 when it is disarmed
  expired,   \* the timerfd is readable
  ready,     \* callbacks the looper's last poll found and has not run
  drained,   \* the input callback has finished an event
  mode,      \* $G.Mode
  tapAge,    \* the ticks since $G.LastTapTicks
  selection, \* the model has a selection
  keyboard,  \* $ConsoleKeyboard
  atWall,    \* $ConsoleAtWall
  dirty,     \* $ConsoleDirty
  stale,     \* the window shows another state of the model
  window,    \* there is a window
  keepsUp,   \* the pace of the looper, which stays as it is
  did        \* what the last step's hold did, what the fingers did, whether the timer had fired

touch == <<fingers, still, held>>
clock == <<timer, expired>>
model == <<selection, stale, dirty>>
vars == <<touch, queue, clock, ready, drained, mode, tapAge, model, keyboard, atWall, window, keepsUp, did>>

Nothing == [what |-> "nothing", fingers |-> 0, held |-> FALSE, fired |-> FALSE]
Init ==
  /\ fingers = 0 /\ still = TRUE /\ held = 0
  /\ queue = <<>> /\ timer = 0 /\ expired = FALSE /\ ready = <<>> /\ drained = FALSE
  /\ mode = "none" /\ tapAge = TapTime + 1 /\ selection = FALSE
  /\ keyboard = FALSE /\ atWall = FALSE
  /\ dirty = FALSE /\ stale = FALSE /\ window = TRUE
  /\ keepsUp \in Paces /\ did = Nothing

-----------------------------------------------------------------------------
(* The fingers, and time.                                                   *)

Event(kind, pointers, how) == [kind |-> kind, pointers |-> pointers, how |-> how]
Deliver(e) ==
  /\ Len(queue) < MaxQueue /\ (keepsUp => ~expired)
  /\ queue' = Append(queue, e) /\ did' = Nothing
  /\ UNCHANGED <<clock, ready, drained, mode, tapAge, model, keyboard, atWall, window, keepsUp>>

Lay(n) == fingers' = n /\ still' = TRUE /\ held' = 0

\* A first finger near the last tap, elsewhere, or in the edge-gesture zone.
Down == \E how \in {"near", "away", "edge"} :
  fingers = 0 /\ Lay(1) /\ Deliver(Event("down", 1, how))
\* How far it is now from where it was put: less than the slop, mostly
\* horizontal, mostly vertical, or neither.
Drag == \E how \in {"slop", "horizontal", "vertical", "diagonal"} :
  /\ fingers = 1 /\ Deliver(Event("move", 1, how))
  /\ still' = (still /\ how = "slop") /\ UNCHANGED <<fingers, held>>
Up == \E kind \in {"up", "cancel"} :
  fingers = 1 /\ Lay(0) /\ Deliver(Event(kind, 1, "slop"))
SecondDown == fingers = 1 /\ Lay(2) /\ Deliver(Event("pointer down", 2, "still"))
Spread == \E how \in {"still", "apart"} :
  /\ fingers = 2 /\ Deliver(Event("move", 2, how))
  /\ still' = (still /\ how = "still") /\ UNCHANGED <<fingers, held>>
SecondUp == fingers = 2 /\ Lay(1) /\ Deliver(Event("pointer up", 2, IF still THEN "still" ELSE "apart"))
\* Android takes the touch over: the event still counts two pointers.
CancelBoth == fingers = 2 /\ Lay(0) /\ Deliver(Event("cancel", 2, IF still THEN "still" ELSE "apart"))

\* Keys, mouse and touchpad.
Other == \E kind \in Kinds : Deliver(Event(kind, 1, "slop")) /\ UNCHANGED touch

Idle == ready = <<>> /\ queue = <<>> /\ ~expired
Tick ==
  /\ keepsUp => Idle
  /\ held' = IF held < HoldTime THEN held + 1 ELSE held
  /\ tapAge' = IF tapAge <= TapTime THEN tapAge + 1 ELSE tapAge
  /\ timer' = IF timer = 0 THEN 0 ELSE timer - 1
  /\ expired' = (expired \/ timer = 1)
  /\ did' = Nothing
  /\ UNCHANGED <<fingers, still, queue, ready, drained, mode, model, keyboard, atWall, window, keepsUp>>

-----------------------------------------------------------------------------
(* The looper timer and drawing.                                            *)

\* Setting a timerfd forgets an expiration that was not read.
SetTimer(ticks) == timer' = ticks /\ expired' = FALSE
StartLooperTimer == SetTimer(HoldTime)
StopLooperTimer == SetTimer(0)
KeepTimer == UNCHANGED clock

\* Request-WindowDraw: without a window nothing is drawn.
StaleAfterDraw(s) == s /\ ~window

-----------------------------------------------------------------------------
(* The input callback: one event of the queue.                              *)

Change == stale' = TRUE /\ dirty' = TRUE
Same == UNCHANGED <<stale, dirty>>
\* Something that only changes the model when it amounts to something.
MayChange == Change \/ Same

\* Mutation: a key's change is not marked.
KeyChange_Unmarked == stale' = TRUE /\ UNCHANGED dirty
KeyChange == Change
\* A key edits, walks, completes or runs a command; some are left to Android.
Key(e) ==
  /\ e.kind \in {"key", "other key"}
  /\ IF e.kind = "key" THEN KeyChange ELSE Same
  /\ UNCHANGED <<mode, clock, tapAge, selection, keyboard, atWall>>

Mouse(e) ==
  /\ \/ e.kind = "wheel" /\ MayChange /\ UNCHANGED <<mode, selection>>
     \/ e.kind = "right press" /\ MayChange /\ mode' = "done" /\ UNCHANGED selection
     \/ e.kind = "press" /\ Change /\ mode' = "mselect" /\ selection' = FALSE
     \/ e.kind = "mouse move" /\ UNCHANGED mode
          /\ \/ mode = "mselect" /\ selection' = TRUE /\ Change
             \/ UNCHANGED selection /\ Same
     \/ e.kind = "release" /\ mode' = "none" /\ UNCHANGED selection /\ Same
  /\ UNCHANGED <<clock, tapAge, keyboard, atWall>>

\* Touchpad scrolling and pinching, and pointers that hover.
Touchpad(e) ==
  /\ \/ e.kind \in {"swipe", "pinch"} /\ MayChange
     \/ e.kind = "hover" /\ Same
  /\ UNCHANGED <<mode, clock, tapAge, selection, keyboard, atWall>>

TwoModes == {"two", "pinch", "twodone"}

\* Pinching resizes the text between two limits and bumps once at each.
Pinch ==
  \E zone \in {"wall", "near", "inside"} :
    /\ atWall' = (zone = "wall" \/ (atWall /\ zone # "inside"))
    /\ MayChange

Two(e) ==
  /\ e.pointers = 2
  /\ \/ mode \notin TwoModes /\ mode' = "two" /\ StartLooperTimer /\ Same /\ UNCHANGED atWall
     \/ /\ mode = "twodone" \/ (mode = "two" /\ e.how = "still")
        /\ KeepTimer /\ Same /\ UNCHANGED <<mode, atWall>>
     \/ /\ mode = "two" /\ e.how = "apart"
        /\ mode' = "pinch" /\ StopLooperTimer
        /\ IF e.kind = "move" THEN Pinch ELSE Same /\ UNCHANGED atWall
     \/ /\ mode = "pinch"
        /\ KeepTimer /\ UNCHANGED mode
        /\ IF e.kind = "move" THEN Pinch ELSE Same /\ UNCHANGED atWall
  /\ UNCHANGED <<tapAge, selection, keyboard>>

Pending == {"pending", "pending2"}

\* Mutation: a touch does not arm the timer.
ArmHold_Never == KeepTimer
ArmHold == StartLooperTimer
TouchDown(e) ==
  /\ e.kind = "down"
  /\ IF e.how = "edge" THEN mode' = "ignored" /\ KeepTimer
     ELSE /\ mode' = IF e.how = "near" /\ tapAge <= TapTime THEN "pending2" ELSE "pending"
          /\ ArmHold
  /\ Same /\ UNCHANGED <<tapAge, selection, keyboard, atWall>>

\* Mutation: a move in no clear direction leaves the timer running.
EndHold_Keeps == KeepTimer
EndHold == StopLooperTimer
\* The first movement decides the mode; over the transcript a horizontal one selects.
Decide(how) ==
  \/ how = "horizontal" /\ mode' \in {"select", "none"}
  \/ how = "vertical" /\ mode' = "scroll"
  \/ how = "diagonal" /\ UNCHANGED mode

TouchMove(e) ==
  /\ e.kind = "move" /\ e.pointers = 1
  /\ IF mode \in Pending
     THEN IF e.how = "slop" THEN KeepTimer /\ UNCHANGED mode ELSE EndHold /\ Decide(e.how)
     ELSE KeepTimer /\ UNCHANGED mode
  /\ \/ mode' = "select" /\ selection' = TRUE /\ Change
     \/ mode' = "scroll" /\ UNCHANGED selection /\ MayChange
     \/ mode' \notin {"select", "scroll"} /\ UNCHANGED selection /\ Same
  /\ UNCHANGED <<tapAge, keyboard, atWall>>

TouchUp(e) ==
  /\ e.kind \in {"up", "cancel"} /\ e.pointers = 1
  /\ StopLooperTimer
  /\ \/ mode' = "none"
     \/ mode = "select" /\ e.kind = "up" /\ UNCHANGED mode    \* setting the clipboard throws
  /\ IF mode \in Pending
     THEN /\ tapAge' = 0 /\ selection' = FALSE
          /\ IF selection THEN Change ELSE Same
     ELSE Same /\ UNCHANGED <<tapAge, selection>>
  /\ UNCHANGED <<keyboard, atWall>>

\* An event is finished whether its handler returns or throws.
InputEvent ==
  /\ ready # <<>> /\ Head(ready) = "input" /\ queue # <<>>
  /\ LET e == Head(queue) IN
       Key(e) \/ Mouse(e) \/ Touchpad(e) \/ Two(e) \/ TouchDown(e) \/ TouchMove(e) \/ TouchUp(e)
  /\ queue' = Tail(queue) /\ drained' = TRUE /\ did' = Nothing
  /\ UNCHANGED <<touch, ready, window, keepsUp>>

\* The input method takes the event before the handler sees it.
PreDispatched ==
  /\ ready # <<>> /\ Head(ready) = "input" /\ queue # <<>> /\ Head(queue).kind \in {"key", "other key"}
  /\ queue' = Tail(queue) /\ did' = Nothing
  /\ UNCHANGED <<touch, clock, ready, drained, mode, tapAge, model, keyboard, atWall, window, keepsUp>>

\* The queue is empty: one draw for all the events.
InputDone ==
  /\ ready # <<>> /\ Head(ready) = "input" /\ queue = <<>>
  /\ ready' = Tail(ready) /\ drained' = FALSE /\ did' = Nothing
  /\ IF drained /\ dirty THEN dirty' = FALSE /\ stale' = StaleAfterDraw(stale)
     ELSE UNCHANGED <<dirty, stale>>
  /\ UNCHANGED <<touch, queue, clock, mode, tapAge, selection, keyboard, atWall, window, keepsUp>>

-----------------------------------------------------------------------------
(* The timer callback, and the looper.                                      *)

Hold(what) == did' = [what |-> what, fingers |-> fingers, held |-> still /\ held >= HoldTime,
                       fired |-> expired]

AfterHold(m) == IF m = "two" THEN "twodone" ELSE "done"

\* What read returns is not looked at: a timer that was set again since the poll
\* is taken for one that has expired.
TimerCallback ==
  /\ ready # <<>> /\ Head(ready) = "timer"
  /\ ready' = Tail(ready) /\ expired' = FALSE
  /\ \/ /\ mode = "pending" /\ mode' = AfterHold(mode) /\ Hold("paste")
        /\ stale' \in {StaleAfterDraw(TRUE), StaleAfterDraw(stale)}
        /\ UNCHANGED <<dirty, keyboard>>
     \/ /\ mode = "pending2" /\ mode' = AfterHold(mode) /\ Hold("enter")
        /\ stale' = StaleAfterDraw(TRUE) /\ dirty' = TRUE /\ UNCHANGED keyboard
     \/ /\ mode = "two" /\ mode' = AfterHold(mode) /\ Hold("keyboard")
        /\ keyboard' = ~keyboard /\ Same
     \/ mode \notin Pending \cup {"two"} /\ did' = Nothing /\ UNCHANGED <<mode, keyboard>> /\ Same
  /\ UNCHANGED <<touch, queue, timer, drained, tapAge, selection, atWall, window, keepsUp>>

\* The looper waits for both sources and runs the callbacks of those it found.
Poll ==
  /\ ready = <<>> /\ ~Idle
  /\ ready' \in SetToSeqs((IF queue # <<>> THEN {"input"} ELSE {}) \cup (IF expired THEN {"timer"} ELSE {}))
  /\ did' = Nothing
  /\ UNCHANGED <<touch, queue, clock, drained, mode, tapAge, model, keyboard, atWall, window, keepsUp>>

\* Android destroys the window, or makes one and has it drawn.
WindowDestroyed ==
  /\ ready = <<>> /\ window /\ window' = FALSE /\ did' = Nothing
  /\ UNCHANGED <<touch, queue, clock, ready, drained, mode, tapAge, model, keyboard, atWall, keepsUp>>
WindowCreated ==
  /\ ready = <<>> /\ ~window /\ window' = TRUE /\ stale' = FALSE /\ did' = Nothing
  /\ UNCHANGED <<touch, queue, clock, ready, drained, mode, tapAge, selection, dirty, keyboard, atWall, keepsUp>>

-----------------------------------------------------------------------------

Environment == Down \/ Drag \/ Up \/ SecondDown \/ Spread \/ SecondUp \/ CancelBoth \/ Other
Looper == Poll \/ InputEvent \/ InputDone \/ TimerCallback
Next == Environment \/ Tick \/ Looper \/ PreDispatched \/ WindowDestroyed \/ WindowCreated

Spec == Init /\ [][Next]_vars
\* Time passes, and the looper runs the callbacks it has found.
FairSpec == Spec /\ WF_vars(Tick) /\ WF_vars(Poll) /\ WF_vars(InputEvent)
                 /\ WF_vars(InputDone) /\ WF_vars(TimerCallback)

-----------------------------------------------------------------------------

TypeOK ==
  /\ fingers \in 0 .. 2 /\ still \in BOOLEAN /\ held \in 0 .. HoldTime
  /\ Len(queue) <= MaxQueue /\ timer \in 0 .. HoldTime /\ (expired => timer = 0)
  /\ ready \in {<<>>, <<"input">>, <<"timer">>, <<"input", "timer">>, <<"timer", "input">>}
  /\ mode \in {"none", "ignored", "done", "mselect", "select", "scroll"} \cup Pending \cup TwoModes
  /\ tapAge \in 0 .. TapTime + 1

\* "One finger, held still -> paste" and "tap, then touch again and hold ->
\* Enter": with a looper that keeps up, a hold by which one of the two happens
\* was one finger that had been still for the whole of the hold time.
HoldIsHeld ==
  keepsUp /\ did.what \in {"paste", "enter"} => did.fingers = 1 /\ did.held

\* "Stop-LooperTimer disarms it, and $OnElapsed runs ... when it fires": what a
\* hold does, it does because the timer as last set has expired.
ActsOnExpiry == did.what # "nothing" => did.fired

\* Nothing redraws on its own, so when the looper goes back to waiting, the
\* window it has shows the model as the handlers left it.
ViewIsFresh == ready = <<>> /\ window => ~stale

\* A finger that is put down and stays still is not waited for forever, unless
\* events keep the input callback from ever coming to rest.  (A looper that keeps
\* up holds the clock while there is something to handle, so this is about the
\* other one.)
HoldActs ==
  ~keepsUp /\ []<>(ready = <<>> /\ queue = <<>>)
    => ((fingers = 1 /\ still /\ mode = "pending") ~> (mode # "pending" \/ ~still))

\* Holds come from held fingers, and the timer, the queue and the mode they
\* depend on stay within their types.
HoldsAreSound == TypeOK /\ HoldIsHeld
=============================================================================
