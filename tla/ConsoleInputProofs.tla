------------------------- MODULE ConsoleInputProofs -------------------------
(***************************************************************************)
(* What is proved of ConsoleInput, for any times and any queue: the window *)
(* is not stale when the looper waits, and with a looper that keeps up a   *)
(* hold that pastes or enters was one finger held still for all its time.  *)
(***************************************************************************)
EXTENDS ConsoleInput, FiniteSetTheorems, TLAPS

-----------------------------------------------------------------------------
(* Types                                                                    *)

Others == {"key", "other key", "wheel", "right press", "press", "mouse move", "release",
           "swipe", "pinch", "hover"}
Touches == {"down", "move", "up", "cancel", "pointer down", "pointer up"}
Hows == {"near", "away", "edge", "slop", "horizontal", "vertical", "diagonal", "still", "apart"}
InputEvents ==
  [kind : Others, pointers : {1}, how : {"slop"}] \cup [kind : Touches, pointers : {1, 2}, how : Hows]
Readies == {<<>>, <<"input">>, <<"timer">>, <<"input", "timer">>, <<"timer", "input">>}
AllModes == {"none", "ignored", "done", "mselect", "select", "scroll"} \cup Pending \cup TwoModes

TypeInv ==
  /\ fingers \in 0 .. 2 /\ still \in BOOLEAN /\ held \in 0 .. HoldTime
  /\ queue \in Seq(InputEvents) /\ Len(queue) <= MaxQueue
  /\ timer \in 0 .. HoldTime /\ expired \in BOOLEAN /\ (expired => timer = 0)
  /\ ready \in Readies /\ mode \in AllModes /\ tapAge \in 0 .. TapTime + 1
  /\ dirty \in BOOLEAN /\ stale \in BOOLEAN /\ window \in BOOLEAN

LEMMA Numbers ==
  /\ HoldTime \in Nat /\ HoldTime > 0 /\ TapTime \in Nat /\ MaxQueue \in Nat
  /\ Kinds \subseteq Others
<1>1. HoldTime \in Nat /\ HoldTime # 0 /\ TapTime \in Nat /\ MaxQueue \in Nat
  BY InputAssumption
<1>2. Kinds \subseteq Others
  BY InputAssumption, Zenon DEF InputAssumption, Others
<1> QED BY <1>1, <1>2

LEMMA Ends ==
  /\ 0 \in 0 .. HoldTime /\ HoldTime \in 0 .. HoldTime
  /\ 0 \in 0 .. 2 /\ 1 \in 0 .. 2 /\ 2 \in 0 .. 2
  BY Numbers

LEMMA TypeInit == Init => TypeInv
<1> SUFFICES ASSUME Init PROVE TypeInv
  OBVIOUS
<1>1. still \in BOOLEAN /\ expired \in BOOLEAN /\ dirty \in BOOLEAN /\ stale \in BOOLEAN /\ window \in BOOLEAN
  BY DEF Init
<1>2. fingers \in 0 .. 2 /\ held \in 0 .. HoldTime /\ timer \in 0 .. HoldTime /\ tapAge \in 0 .. TapTime + 1
      /\ timer = 0 /\ mode \in AllModes
  BY Numbers DEF Init, AllModes
<1>3. queue \in Seq(InputEvents) /\ Len(queue) <= MaxQueue /\ ready \in Readies
  BY Numbers DEF Init, Readies
<1> QED BY <1>1, <1>2, <1>3 DEF TypeInv

\* The orders in which two callbacks can run.
LEMMA PollOrders ==
  ASSUME NEW S \in SUBSET {"input", "timer"}, NEW f \in SetToSeqs(S)
  PROVE f \in Readies /\ (S = {"input"} => f = <<"input">>) /\ (S = {"timer"} => f = <<"timer">>)
<1>1. CASE S = {}
  <2>1. Cardinality(S) = 0
    BY <1>1, FS_EmptySet
  <2>2. f \in [1 .. 0 -> S]
    BY <2>1 DEF SetToSeqs
  <2>3. f = <<>>
    BY <2>2
  <2> QED BY <1>1, <2>3 DEF Readies
<1>2. ASSUME NEW x \in {"input", "timer"}, S = {x} PROVE f \in Readies /\ f = <<x>>
  <2>1. Cardinality(S) = 1
    BY <1>2, FS_Singleton
  <2>2. f \in [1 .. 1 -> {x}]
    BY <1>2, <2>1 DEF SetToSeqs
  <2>3. f = <<x>>
    BY <2>2
  <2> QED BY <1>2, <2>3 DEF Readies
<1>3. CASE S = {"input", "timer"}
  <2>1. IsFiniteSet({"input"}) /\ Cardinality({"input"}) = 1
    BY FS_Singleton
  <2>2. Cardinality(S) = 2
    <3>1. S = {"input"} \cup {"timer"} /\ "timer" \notin {"input"}
      BY <1>3
    <3> QED BY <2>1, <3>1, FS_AddElement
  <2>3. f \in [1 .. 2 -> S] /\ f[1] # f[2]
    BY <2>2 DEF SetToSeqs
  <2>4. f = <<f[1], f[2]>> /\ f[1] \in S /\ f[2] \in S
    BY <2>3
  <2> QED BY <1>3, <2>3, <2>4 DEF Readies
<1>4. S = {} \/ S = {"input"} \/ S = {"timer"} \/ S = {"input", "timer"}
  OBVIOUS
<1> QED BY <1>1, <1>2, <1>3, <1>4

\* What every step of the fingers puts in the queue.
LEMMA DeliverType ==
  ASSUME TypeInv, NEW e \in InputEvents, Deliver(e)
  PROVE /\ queue' \in Seq(InputEvents) /\ Len(queue') <= MaxQueue
        /\ Len(queue') = Len(queue) + 1 /\ queue'[Len(queue) + 1] = e
        /\ \A i \in 1 .. Len(queue) : queue'[i] = queue[i]
<1>1. queue' = Append(queue, e) /\ Len(queue) < MaxQueue /\ queue \in Seq(InputEvents)
  BY DEF TypeInv, Deliver
<1>2. queue' \in Seq(InputEvents) /\ Len(queue') = Len(queue) + 1
      /\ queue'[Len(queue) + 1] = e /\ \A i \in 1 .. Len(queue) : queue'[i] = queue[i]
  BY <1>1
<1>3. Len(queue) \in Nat
  BY <1>1
<1> QED BY <1>1, <1>2, <1>3, Numbers

\* An event as its parts are known.
LEMMA TouchEvent ==
  ASSUME NEW kind \in Touches, NEW pointers \in {1, 2}, NEW how \in Hows
  PROVE /\ Event(kind, pointers, how) \in InputEvents /\ Event(kind, pointers, how).kind = kind
        /\ Event(kind, pointers, how).pointers = pointers /\ Event(kind, pointers, how).how = how
  BY DEF Event, InputEvents
LEMMA OtherEvent ==
  ASSUME NEW kind \in Others
  PROVE /\ Event(kind, 1, "slop") \in InputEvents /\ Event(kind, 1, "slop").kind = kind
        /\ Event(kind, 1, "slop").pointers = 1
  BY DEF Event, InputEvents

\* The events the fingers can add in a step, and what the step does to them.
LEMMA EnvironmentShape ==
  ASSUME TypeInv, Environment
  PROVE /\ fingers' \in 0 .. 2 /\ still' \in BOOLEAN /\ held' \in 0 .. HoldTime
        /\ \E e \in InputEvents :
             /\ Deliver(e)
             /\ \/ e.kind = "down" /\ fingers' = 1 /\ still' /\ held' = 0
                \/ /\ e.kind \in Others \cup {"move"} /\ e.pointers = 1 /\ (e.kind = "move" => e.how = "slop")
                   /\ UNCHANGED touch
                \/ e.pointers = 1 /\ e.kind = "move" /\ e.how # "slop"
                \/ e.pointers = 1 /\ e.kind \in {"up", "cancel"}
                \/ e.pointers = 2 /\ e.kind # "down"
<1> USE Numbers DEF TypeInv
<1>1. CASE Down
  <2>1. PICK how \in {"near", "away", "edge"} : Lay(1) /\ Deliver(Event("down", 1, how))
    BY <1>1 DEF Down
  <2>2. Event("down", 1, how) \in InputEvents /\ Event("down", 1, how).kind = "down"
    <3>1. "down" \in Touches /\ 1 \in {1, 2} /\ how \in Hows
      BY DEF Touches, Hows
    <3> QED BY <3>1, TouchEvent
  <2> QED BY <2>1, <2>2 DEF Lay
<1>2. CASE Drag
  <2>1. PICK how \in {"slop", "horizontal", "vertical", "diagonal"} :
          /\ Deliver(Event("move", 1, how)) /\ still' = (still /\ how = "slop") /\ UNCHANGED <<fingers, held>>
    BY <1>2 DEF Drag
  <2>2. /\ Event("move", 1, how) \in InputEvents /\ Event("move", 1, how).kind = "move"
        /\ Event("move", 1, how).pointers = 1 /\ Event("move", 1, how).how = how
    <3>1. "move" \in Touches /\ 1 \in {1, 2} /\ how \in Hows
      BY DEF Touches, Hows
    <3> QED BY <3>1, TouchEvent
  <2>3. still' \in BOOLEAN /\ (how = "slop" => still' = still)
    BY <2>1, Zenon
  <2> QED BY <2>1, <2>2, <2>3 DEF touch
<1>3. CASE Up
  <2>1. PICK kind \in {"up", "cancel"} : Lay(0) /\ Deliver(Event(kind, 1, "slop"))
    BY <1>3 DEF Up
  <2>2. /\ Event(kind, 1, "slop") \in InputEvents /\ Event(kind, 1, "slop").kind = kind
        /\ Event(kind, 1, "slop").pointers = 1
    <3>1. kind \in Touches /\ 1 \in {1, 2} /\ "slop" \in Hows
      BY DEF Touches, Hows
    <3> QED BY <3>1, TouchEvent
  <2> QED BY <2>1, <2>2 DEF Lay
<1>4. CASE SecondDown \/ Spread \/ SecondUp \/ CancelBoth
  <2>1. \E kind \in {"pointer down", "pointer up", "move", "cancel"}, how \in Hows : Deliver(Event(kind, 2, how))
    <3>1. "still" \in Hows /\ "apart" \in Hows
      BY DEF Hows
    <3> QED BY <1>4, <3>1, Zenon DEF SecondDown, Spread, SecondUp, CancelBoth
  <2>2. PICK kind \in {"pointer down", "pointer up", "move", "cancel"}, how \in Hows : Deliver(Event(kind, 2, how))
    BY <2>1
  <2>3. /\ Event(kind, 2, how) \in InputEvents /\ Event(kind, 2, how).kind = kind
        /\ Event(kind, 2, how).pointers = 2
    <3>1. kind \in Touches /\ 2 \in {1, 2}
      BY DEF Touches
    <3> QED BY <3>1, TouchEvent
  <2>4. fingers' \in 0 .. 2 /\ held' \in 0 .. HoldTime
    <3>1. CASE SecondDown \/ SecondUp \/ CancelBoth
      <4>1. Lay(2) \/ Lay(1) \/ Lay(0)
        BY <3>1, Zenon DEF SecondDown, SecondUp, CancelBoth
      <4>2. (fingers' = 0 \/ fingers' = 1 \/ fingers' = 2) /\ held' = 0
        BY <4>1, Zenon DEF Lay
      <4> QED BY <4>2, Ends, Zenon
    <3>2. CASE Spread
      BY <3>2 DEF Spread
    <3> QED BY <1>4, <3>1, <3>2
  <2>5. still' \in BOOLEAN
    BY <1>4, Zenon DEF SecondDown, Spread, SecondUp, CancelBoth, Lay
  <2> QED BY <2>2, <2>3, <2>4, <2>5
<1>5. CASE Other
  <2>1. PICK kind \in Others : Deliver(Event(kind, 1, "slop")) /\ UNCHANGED touch
    BY <1>5 DEF Other
  <2>2. /\ Event(kind, 1, "slop") \in InputEvents /\ Event(kind, 1, "slop").kind = kind
        /\ Event(kind, 1, "slop").pointers = 1 /\ kind # "move"
    BY OtherEvent DEF Others
  <2> QED BY <2>1, <2>2 DEF touch
<1> QED BY <1>1, <1>2, <1>3, <1>4, <1>5 DEF Environment

\* What the handler of an event leaves within its type.
LEMMA HandlerType ==
  ASSUME TypeInv, NEW e \in InputEvents,
         Key(e) \/ Mouse(e) \/ Touchpad(e) \/ Two(e) \/ TouchDown(e) \/ TouchMove(e) \/ TouchUp(e)
  PROVE /\ mode' \in AllModes /\ tapAge' \in 0 .. TapTime + 1
        /\ timer' \in 0 .. HoldTime /\ expired' \in BOOLEAN /\ (expired' => timer' = 0)
        /\ stale' \in BOOLEAN /\ dirty' \in BOOLEAN
        /\ (Same \/ Change)
<1> DEFINE ModeOK == mode' \in AllModes /\ tapAge' \in 0 .. TapTime + 1
           ClockOK == timer' \in 0 .. HoldTime /\ expired' \in BOOLEAN /\ (expired' => timer' = 0)
           Drawn == Same \/ Change
<1> USE DEF TypeInv, AllModes, Pending, TwoModes
<1>a. StartLooperTimer \/ KeepTimer \/ StopLooperTimer => ClockOK
  <2>1. StartLooperTimer => ClockOK
    BY Ends, Zenon DEF StartLooperTimer, SetTimer
  <2>2. StopLooperTimer => ClockOK
    BY Ends, Zenon DEF StopLooperTimer, SetTimer
  <2>3. KeepTimer => ClockOK
    BY DEF KeepTimer, clock
  <2> QED BY <2>1, <2>2, <2>3, Zenon
<1>b. Drawn => stale' \in BOOLEAN /\ dirty' \in BOOLEAN
  BY Zenon DEF Same, Change
<1>c. ModeOK /\ (StartLooperTimer \/ KeepTimer \/ StopLooperTimer) /\ Drawn
  <2>1. CASE Key(e)
    BY <2>1, Zenon DEF Key, KeyChange, KeepTimer
  <2>2. CASE Mouse(e)
    <3>1. Drawn /\ KeepTimer
      BY <2>2, Zenon DEF Mouse, MayChange, KeepTimer
    <3>2. ModeOK
      BY <2>2 DEF Mouse
    <3> QED BY <3>1, <3>2, Zenon
  <2>3. CASE Touchpad(e)
    BY <2>3, Zenon DEF Touchpad, MayChange, KeepTimer
  <2>4. CASE Two(e)
    <3>1. Drawn /\ (StartLooperTimer \/ KeepTimer \/ StopLooperTimer)
      BY <2>4, Zenon DEF Two, MayChange, Pinch
    <3>2. ModeOK
      BY <2>4 DEF Two
    <3> QED BY <3>1, <3>2, Zenon
  <2>5. CASE TouchDown(e)
    <3>1. Drawn /\ (StartLooperTimer \/ KeepTimer)
      BY <2>5, Zenon DEF TouchDown, ArmHold
    <3>2. ModeOK
      BY <2>5 DEF TouchDown
    <3> QED BY <3>1, <3>2, Zenon
  <2>6. CASE TouchMove(e)
    <3>1. Drawn /\ (KeepTimer \/ StopLooperTimer)
      BY <2>6, Zenon DEF TouchMove, MayChange, EndHold
    <3>2. ModeOK
      BY <2>6 DEF TouchMove, Decide
    <3> QED BY <3>1, <3>2, Zenon
  <2>7. CASE TouchUp(e)
    <3>1. Drawn /\ StopLooperTimer
      BY <2>7, Zenon DEF TouchUp
    <3>2. ModeOK
      BY <2>7, Numbers DEF TouchUp
    <3> QED BY <3>1, <3>2, Zenon
  <2> QED BY <2>1, <2>2, <2>3, <2>4, <2>5, <2>6, <2>7, Zenon
<1> QED BY <1>a, <1>b, <1>c, Zenon

\* Running an event, or none, takes the first from the queue.
LEMMA TailType ==
  ASSUME NEW q \in Seq(InputEvents), q # <<>>
  PROVE /\ Head(q) \in InputEvents /\ Head(q) = q[1] /\ 1 \in 1 .. Len(q)
        /\ Tail(q) \in Seq(InputEvents) /\ Len(Tail(q)) = Len(q) - 1
        /\ \A i \in 1 .. Len(Tail(q)) : Tail(q)[i] = q[i + 1] /\ i + 1 \in 1 .. Len(q)
<1>1. Len(q) \in Nat /\ Len(q) >= 1
  BY DEF InputEvents
<1> HIDE DEF InputEvents
<1> QED BY <1>1

LEMMA ReadyTail ==
  ASSUME ready \in Readies, ready # <<>>
  PROVE /\ Tail(ready) \in {<<>>, <<"input">>, <<"timer">>} /\ Head(ready) \in {"input", "timer"}
        /\ Head(ready) = "timer" => Tail(ready) \in {<<>>, <<"input">>}
        /\ Head(ready) = "input" => Tail(ready) \in {<<>>, <<"timer">>}
<1>1. CASE ready = <<"input">>
  <2>1. Head(ready) = "input" /\ Tail(ready) = <<>>
    BY <1>1
  <2> QED BY <2>1
<1>4. CASE ready = <<"timer">>
  <2>1. Head(ready) = "timer" /\ Tail(ready) = <<>>
    BY <1>4
  <2> QED BY <2>1
<1>2. CASE ready = <<"input", "timer">>
  <2>1. Head(ready) = "input" /\ Tail(ready) = <<"timer">>
    BY <1>2
  <2> QED BY <2>1
<1>3. CASE ready = <<"timer", "input">>
  <2>1. Head(ready) = "timer" /\ Tail(ready) = <<"input">>
    BY <1>3
  <2> QED BY <2>1
<1> QED BY <1>1, <1>2, <1>3, <1>4 DEF Readies

LEMMA TypeStep == TypeInv /\ [Next]_vars => TypeInv'
<1> SUFFICES ASSUME TypeInv, [Next]_vars PROVE TypeInv'
  OBVIOUS
<1> USE DEF TypeInv
<1>1. CASE Environment
  <2>1. PICK e \in InputEvents : Deliver(e)
    BY <1>1, EnvironmentShape
  <2>2. queue' \in Seq(InputEvents) /\ Len(queue') <= MaxQueue
    BY <2>1, DeliverType
  <2>3. fingers' \in 0 .. 2 /\ still' \in BOOLEAN /\ held' \in 0 .. HoldTime
    BY <1>1, EnvironmentShape
  <2>4. UNCHANGED <<timer, expired, ready, mode, tapAge, dirty, stale, window>>
    BY <2>1 DEF Deliver, clock, model
  <2> QED BY <2>2, <2>3, <2>4
<1>2. CASE Tick
  <2>1. expired' \in BOOLEAN
    BY <1>2, Zenon DEF Tick
  <2>2. expired' => timer' = 0
    <3>1. expired' => expired \/ timer = 1
      BY <1>2, Zenon DEF Tick
    <3> QED BY <1>2, <3>1 DEF Tick
  <2>3. held' \in 0 .. HoldTime /\ timer' \in 0 .. HoldTime /\ tapAge' \in 0 .. TapTime + 1
    BY <1>2, Numbers DEF Tick
  <2>4. UNCHANGED <<fingers, still, queue, ready, mode, dirty, stale, window>>
    BY <1>2 DEF Tick, model
  <2> QED BY <2>1, <2>2, <2>3, <2>4
<1>3. CASE Poll
  <2>1. ready' \in Readies
    <3>1. PICK S \in SUBSET {"input", "timer"} : ready' \in SetToSeqs(S)
      BY <1>3, Zenon DEF Poll
    <3> QED BY <3>1, PollOrders
  <2>2. UNCHANGED <<fingers, still, held, queue, timer, expired, mode, tapAge, dirty, stale, window>>
    BY <1>3 DEF Poll, touch, clock, model
  <2> QED BY <2>1, <2>2
<1>4. CASE InputEvent
  <2>1. Head(queue) \in InputEvents /\ queue' \in Seq(InputEvents) /\ Len(queue') <= MaxQueue
    <3>1. queue # <<>> /\ queue' = Tail(queue) /\ Len(queue) \in Nat
      BY <1>4 DEF InputEvent
    <3> QED BY <3>1, TailType, Numbers
  <2>2. /\ mode' \in AllModes /\ tapAge' \in 0 .. TapTime + 1
        /\ timer' \in 0 .. HoldTime /\ expired' \in BOOLEAN /\ (expired' => timer' = 0)
        /\ stale' \in BOOLEAN /\ dirty' \in BOOLEAN
    BY <1>4, <2>1, HandlerType DEF InputEvent
  <2>3. UNCHANGED <<fingers, still, held, ready, window>>
    BY <1>4 DEF InputEvent, touch
  <2> QED BY <2>1, <2>2, <2>3
<1>5. CASE PreDispatched
  <2>1. queue' \in Seq(InputEvents) /\ Len(queue') <= MaxQueue
    <3>1. queue # <<>> /\ queue' = Tail(queue)
      BY <1>5 DEF PreDispatched
    <3>2. Len(queue) \in Nat
      OBVIOUS
    <3> QED BY <3>1, <3>2, TailType, Numbers
  <2>2. UNCHANGED <<fingers, still, held, timer, expired, ready, mode, tapAge, dirty, stale, window>>
    BY <1>5 DEF PreDispatched, touch, clock, model
  <2> QED BY <2>1, <2>2
<1>6. CASE InputDone
  <2>1. ready' \in Readies
    <3>1. ready' = Tail(ready) /\ ready # <<>>
      BY <1>6 DEF InputDone
    <3> QED BY <3>1, ReadyTail DEF Readies
  <2>2. dirty' \in BOOLEAN
    BY <1>6, Zenon DEF InputDone
  <2>3. stale' \in BOOLEAN
    BY <1>6, Zenon DEF InputDone, StaleAfterDraw
  <2>4. UNCHANGED <<fingers, still, held, queue, timer, expired, mode, tapAge, window>>
    BY <1>6 DEF InputDone, touch, clock
  <2> QED BY <2>1, <2>2, <2>3, <2>4
<1>7. CASE TimerCallback
  <2>1. ready' \in Readies
    <3>1. ready' = Tail(ready) /\ ready # <<>>
      BY <1>7 DEF TimerCallback
    <3> QED BY <3>1, ReadyTail DEF Readies
  <2>2. stale' \in BOOLEAN /\ dirty' \in BOOLEAN
    BY <1>7, Zenon DEF TimerCallback, StaleAfterDraw, Same
  <2>3. mode' \in AllModes
    BY <1>7 DEF TimerCallback, AfterHold, AllModes, TwoModes
  <2>4. expired' = FALSE /\ UNCHANGED <<fingers, still, held, queue, timer, tapAge, window>>
    BY <1>7 DEF TimerCallback, touch
  <2> QED BY <2>1, <2>2, <2>3, <2>4
<1>8. CASE WindowDestroyed \/ WindowCreated
  <2>1. window' \in BOOLEAN /\ stale' \in BOOLEAN /\ dirty' = dirty
    BY <1>8 DEF WindowDestroyed, WindowCreated, model
  <2>2. UNCHANGED <<fingers, still, held, queue, timer, expired, ready, mode, tapAge>>
    BY <1>8 DEF WindowDestroyed, WindowCreated, touch, clock, model
  <2> QED BY <2>1, <2>2
<1>9. CASE UNCHANGED vars
  BY <1>9 DEF vars, touch, clock, model
<1> QED BY <1>1, <1>2, <1>3, <1>4, <1>5, <1>6, <1>7, <1>8, <1>9 DEF Next, Looper

\* Every state of the looper is of its type.
THEOREM Typed == Spec => []TypeOK
<1>1. TypeInv => TypeOK
  BY DEF TypeInv, TypeOK, Readies, AllModes
<1> QED BY TypeInit, TypeStep, <1>1, PTL DEF Spec

-----------------------------------------------------------------------------
(* The window                                                               *)

\* What is not drawn yet is marked, and the input callback that draws it is
\* running or has still to come.
WithInput == {<<"input">>, <<"input", "timer">>, <<"timer", "input">>}
Fresh == window /\ stale => dirty /\ drained /\ ready \in WithInput

LEMMA ReadyInput ==
  ASSUME ready \in Readies, ready # <<>>
  PROVE /\ Head(ready) = "input" => ready \in WithInput
        /\ ready \in WithInput /\ Head(ready) = "timer" => Tail(ready) \in WithInput
<1>1. CASE ready = <<"input">> \/ ready = <<"input", "timer">>
  BY <1>1 DEF WithInput
<1>2. CASE ready = <<"timer">>
  <2>1. Head(ready) = "timer" /\ ready \notin WithInput
    BY <1>2 DEF WithInput
  <2> QED BY <2>1
<1>3. CASE ready = <<"timer", "input">>
  <2>1. Head(ready) = "timer" /\ Tail(ready) = <<"input">>
    BY <1>3
  <2> QED BY <2>1 DEF WithInput
<1> QED BY <1>1, <1>2, <1>3 DEF Readies

LEMMA FreshStep == TypeInv /\ Fresh /\ [Next]_vars => Fresh'
<1> SUFFICES ASSUME TypeInv, Fresh, [Next]_vars, window', stale'
             PROVE dirty' /\ drained' /\ ready' \in WithInput
  BY DEF Fresh
<1>1. CASE Environment
  <2>1. PICK e \in InputEvents : Deliver(e)
    BY <1>1, EnvironmentShape
  <2> QED BY <2>1 DEF Deliver, Fresh, model
<1>2. CASE Tick
  BY <1>2 DEF Tick, Fresh, model
<1>3. CASE Poll
  <2>1. ready = <<>> /\ UNCHANGED <<stale, window>>
    BY <1>3 DEF Poll, model
  <2>2. ready \notin WithInput
    BY <2>1 DEF WithInput
  <2> QED BY <2>1, <2>2 DEF Fresh
<1>4. CASE InputEvent
  <2>1. ready # <<>> /\ Head(ready) = "input" /\ queue # <<>> /\ UNCHANGED <<ready, window>> /\ drained' = TRUE
    BY <1>4 DEF InputEvent
  <2>2. ready' \in WithInput
    BY <2>1, ReadyInput DEF TypeInv
  <2>3. Head(queue) \in InputEvents
    BY <2>1, TailType DEF TypeInv
  <2>4. Same \/ Change
    BY <1>4, <2>3, HandlerType DEF InputEvent
  <2>5. dirty'
    BY <2>1, <2>4, Zenon DEF Fresh, Same, Change
  <2> QED BY <2>1, <2>2, <2>5
<1>5. CASE PreDispatched
  BY <1>5 DEF PreDispatched, Fresh, model
<1>6. CASE InputDone
  <2>1. window = window'
    BY <1>6 DEF InputDone
  <2>2. CASE drained /\ dirty
    BY <1>6, <2>1, <2>2, Zenon DEF InputDone, StaleAfterDraw
  <2>3. CASE ~(drained /\ dirty)
    BY <1>6, <2>1, <2>3, Zenon DEF InputDone, Fresh
  <2> QED BY <2>2, <2>3
<1>7. CASE TimerCallback
  <2>1. window = window' /\ drained = drained' /\ ready # <<>> /\ Head(ready) = "timer" /\ ready' = Tail(ready)
    BY <1>7 DEF TimerCallback
  <2>2. Same
    BY <1>7, <2>1, Zenon DEF TimerCallback, StaleAfterDraw
  <2>3. dirty /\ drained /\ ready \in WithInput /\ dirty' = dirty
    BY <2>1, <2>2 DEF Same, Fresh
  <2> QED BY <2>1, <2>3, ReadyInput DEF TypeInv
<1>8. CASE WindowDestroyed \/ WindowCreated
  BY <1>8, Zenon DEF WindowDestroyed, WindowCreated
<1>9. CASE UNCHANGED vars
  BY <1>9 DEF vars, Fresh, model
<1> QED BY <1>1, <1>2, <1>3, <1>4, <1>5, <1>6, <1>7, <1>8, <1>9 DEF Next, Looper

\* The window shows the model as the handlers left it whenever the looper waits.
THEOREM WindowStaysFresh == Spec => []ViewIsFresh
<1>1. Init => Fresh
  BY DEF Init, Fresh
<1>2. Fresh => ViewIsFresh
  BY DEF Fresh, ViewIsFresh, WithInput
<1> QED BY TypeInit, TypeStep, <1>1, FreshStep, <1>2, PTL DEF Spec

-----------------------------------------------------------------------------
(* Holds, of a looper that keeps up                                         *)

\* An event that neither moves a finger nor lifts or lays one.
Neutral(e) ==
  e.pointers = 1 /\ e.kind \notin {"down", "up", "cancel"} /\ (e.kind = "move" => e.how = "slop")

\* A timer that was found expired is handled before anything else happens.
Paced ==
  /\ ready \in {<<>>, <<"input">>} \/ (ready = <<"timer">> /\ expired)
  /\ expired => queue = <<>> /\ ready \in {<<>>, <<"timer">>}

\* While a hold is pending, and nothing in the queue will end it, its timer
\* lasts until the finger has been held for long enough.
Charged ==
  mode \in Pending /\ (\A i \in 1 .. Len(queue) : Neutral(queue[i])) /\ (timer # 0 \/ expired)
    => fingers = 1 /\ still /\ held + timer >= HoldTime

\* No time has gone by since a finger was laid whose event is in the queue.
Laid ==
  \A i \in 1 .. Len(queue) :
    queue[i].kind = "down" /\ (\A j \in i + 1 .. Len(queue) : Neutral(queue[j]))
      => fingers = 1 /\ still /\ held = 0

Timely == keepsUp => Paced /\ Charged /\ Laid

LEMMA EnvironmentTimely ==
  ASSUME TypeInv, Environment, keepsUp, Paced, Charged, Laid
  PROVE Paced' /\ Charged' /\ Laid'
<1>1. PICK e \in InputEvents :
        /\ Deliver(e)
        /\ \/ e.kind = "down" /\ fingers' = 1 /\ still' /\ held' = 0
           \/ /\ e.kind \in Others \cup {"move"} /\ e.pointers = 1 /\ (e.kind = "move" => e.how = "slop")
              /\ UNCHANGED touch
           \/ e.pointers = 1 /\ e.kind = "move" /\ e.how # "slop"
           \/ e.pointers = 1 /\ e.kind \in {"up", "cancel"}
           \/ e.pointers = 2 /\ e.kind # "down"
  BY EnvironmentShape
<1>2. ~expired /\ UNCHANGED <<timer, expired, ready, mode>>
  BY <1>1 DEF Deliver, clock
<1>3. /\ Len(queue') = Len(queue) + 1 /\ queue'[Len(queue) + 1] = e
      /\ \A i \in 1 .. Len(queue) : queue'[i] = queue[i]
  BY <1>1, DeliverType
<1>4. Len(queue) \in Nat
  BY DEF TypeInv
<1>5. ASSUME Neutral(e) PROVE UNCHANGED <<fingers, still, held>>
  BY <1>1, <1>5 DEF Neutral, touch
<1>6. Paced'
  BY <1>2 DEF Paced
<1>7. Charged'
  <2>1. SUFFICES ASSUME mode' \in Pending, \A i \in 1 .. Len(queue') : Neutral(queue'[i]), timer' # 0 \/ expired'
                 PROVE fingers' = 1 /\ still' /\ held' + timer' >= HoldTime
    BY DEF Charged, Neutral
  <2>2. Len(queue) + 1 \in 1 .. Len(queue') /\ \A i \in 1 .. Len(queue) : i \in 1 .. Len(queue')
    BY <1>3, <1>4
  <2>3. Neutral(e) /\ \A i \in 1 .. Len(queue) : Neutral(queue[i])
    BY <1>3, <2>1, <2>2
  <2>4. fingers = 1 /\ still /\ held + timer >= HoldTime
    BY <1>2, <2>1, <2>3 DEF Charged
  <2> QED BY <1>2, <1>5, <2>3, <2>4
<1>8. Laid'
  <2>1. SUFFICES ASSUME NEW i \in 1 .. Len(queue'), queue'[i].kind = "down",
                        \A j \in i + 1 .. Len(queue') : Neutral(queue'[j])
                 PROVE fingers' = 1 /\ still' /\ held' = 0
    BY DEF Laid, Neutral
  <2>2. CASE i = Len(queue) + 1
    <3>1. e.kind = "down"
      BY <1>3, <2>1, <2>2
    <3>2. "down" \notin Others \cup {"move"}
      BY DEF Others
    <3> QED BY <1>1, <3>1, <3>2
  <2>3. CASE i \in 1 .. Len(queue)
    <3>1. Len(queue) + 1 \in i + 1 .. Len(queue') /\ \A j \in i + 1 .. Len(queue) : j \in i + 1 .. Len(queue') /\ j \in 1 .. Len(queue)
      BY <1>3, <1>4, <2>3
    <3>2. Neutral(e) /\ \A j \in i + 1 .. Len(queue) : Neutral(queue[j])
      BY <1>3, <2>1, <3>1
    <3>3. queue[i].kind = "down"
      BY <1>3, <2>1, <2>3
    <3> QED BY <1>5, <2>3, <3>2, <3>3 DEF Laid
  <2> QED BY <1>3, <1>4, <2>2, <2>3
<1> QED BY <1>6, <1>7, <1>8

\* Taking a neutral event leaves what is known of the queue.
LEMMA TailTimely ==
  ASSUME TypeInv, queue # <<>>, queue' = Tail(queue), UNCHANGED <<touch>>
  PROVE /\ Laid => Laid'
        /\ Neutral(Head(queue)) /\ (\A i \in 1 .. Len(queue') : Neutral(queue'[i]))
             => \A i \in 1 .. Len(queue) : Neutral(queue[i])
<1>1. /\ Head(queue) = queue[1] /\ Len(queue') = Len(queue) - 1 /\ Len(queue) \in Nat
      /\ \A i \in 1 .. Len(queue') : queue'[i] = queue[i + 1] /\ i + 1 \in 1 .. Len(queue)
  BY TailType DEF TypeInv
<1>2. ASSUME Laid PROVE Laid'
  <2>1. SUFFICES ASSUME NEW i \in 1 .. Len(queue'), queue'[i].kind = "down",
                        \A j \in i + 1 .. Len(queue') : Neutral(queue'[j])
                 PROVE fingers = 1 /\ still /\ held = 0
    BY DEF Laid, Neutral, touch
  <2>2. queue[i + 1].kind = "down" /\ i + 1 \in 1 .. Len(queue)
    BY <1>1, <2>1
  <2>3. ASSUME NEW j \in (i + 1) + 1 .. Len(queue) PROVE Neutral(queue[j])
    <3>1. j - 1 \in i + 1 .. Len(queue') /\ j - 1 \in 1 .. Len(queue') /\ (j - 1) + 1 = j
      BY <1>1
    <3> QED BY <1>1, <2>1, <3>1
  <2> QED BY <1>2, <2>2, <2>3 DEF Laid
<1>3. ASSUME Neutral(Head(queue)), \A i \in 1 .. Len(queue') : Neutral(queue'[i]), NEW i \in 1 .. Len(queue)
      PROVE Neutral(queue[i])
  <2>1. CASE i = 1
    BY <1>1, <1>3, <2>1
  <2>2. CASE i # 1
    <3>1. i - 1 \in 1 .. Len(queue') /\ (i - 1) + 1 = i
      BY <1>1, <2>2
    <3> QED BY <1>1, <1>3, <3>1
  <2> QED BY <2>1, <2>2
<1> QED BY <1>2, <1>3

\* What becomes of a pending hold when an event is handled: a touch lays it, a
\* neutral event leaves it, and any other ends it or its timer.
LEMMA HandlerTimely ==
  ASSUME TypeInv, NEW e \in InputEvents, mode' \in Pending,
         Key(e) \/ Mouse(e) \/ Touchpad(e) \/ Two(e) \/ TouchDown(e) \/ TouchMove(e) \/ TouchUp(e)
  PROVE \/ e.kind = "down" /\ timer' = HoldTime
        \/ timer' = 0
        \/ Neutral(e) /\ mode' = mode /\ timer' = timer
<1>1. ASSUME e.kind \in Others PROVE Neutral(e)
  <2>1. e.pointers = 1 /\ e.kind \notin {"down", "up", "cancel", "move"}
    BY <1>1 DEF InputEvents, Touches, Others
  <2> QED BY <2>1 DEF Neutral
<1>2. CASE Key(e)
  <2>1. e.kind \in Others /\ mode' = mode /\ timer' = timer
    BY <1>2 DEF Key, Others, clock
  <2> QED BY <1>1, <2>1
<1>3. CASE Mouse(e)
  <2>1. timer' = timer
    BY <1>3 DEF Mouse, clock
  <2>2. e.kind \in Others /\ mode' = mode
    BY <1>3 DEF Mouse, Others, Pending
  <2> QED BY <1>1, <2>1, <2>2
<1>4. CASE Touchpad(e)
  <2>1. e.kind \in Others /\ mode' = mode /\ timer' = timer
    BY <1>4 DEF Touchpad, Others, clock
  <2> QED BY <1>1, <2>1
<1>5. CASE Two(e)
  <2>1. mode' \in {"two", "pinch", "twodone"}
    BY <1>5 DEF Two, TwoModes
  <2> QED BY <2>1 DEF Pending
<1>6. CASE TouchDown(e)
  <2>1. e.how # "edge"
    BY <1>6 DEF TouchDown, Pending
  <2> QED BY <1>6, <2>1 DEF TouchDown, ArmHold, StartLooperTimer, SetTimer
<1>7. CASE TouchMove(e)
  <2>1. e.kind = "move" /\ e.pointers = 1
    BY <1>7 DEF TouchMove
  <2>2. mode \in Pending
    BY <1>7 DEF TouchMove
  <2>3. CASE e.how = "slop"
    <3>1. mode' = mode /\ timer' = timer
      BY <1>7, <2>2, <2>3 DEF TouchMove, KeepTimer, clock
    <3>2. Neutral(e)
      BY <2>1, <2>3 DEF Neutral
    <3> QED BY <3>1, <3>2
  <2>4. CASE e.how # "slop"
    BY <1>7, <2>2, <2>4 DEF TouchMove, EndHold, StopLooperTimer, SetTimer
  <2> QED BY <2>3, <2>4
<1>8. CASE TouchUp(e)
  BY <1>8 DEF TouchUp, StopLooperTimer, SetTimer
<1> QED BY <1>2, <1>3, <1>4, <1>5, <1>6, <1>7, <1>8

\* A handler lets the timer be or sets it anew.
LEMMA HandlerClock ==
  ASSUME NEW e, Key(e) \/ Mouse(e) \/ Touchpad(e) \/ Two(e) \/ TouchDown(e) \/ TouchMove(e) \/ TouchUp(e)
  PROVE expired' => expired
<1>1. (\E ticks \in {0, HoldTime} : SetTimer(ticks)) \/ KeepTimer
  BY Zenon DEF Key, Mouse, Touchpad, Two, TouchDown, TouchMove, TouchUp, ArmHold, EndHold,
    StartLooperTimer, StopLooperTimer, KeepTimer
<1> QED BY <1>1, Zenon DEF SetTimer, KeepTimer, clock

LEMMA InputTimely ==
  ASSUME TypeInv, InputEvent, keepsUp, Paced, Charged, Laid
  PROVE Paced' /\ Charged' /\ Laid'
<1>1. /\ queue # <<>> /\ queue' = Tail(queue) /\ ready # <<>> /\ Head(ready) = "input"
      /\ UNCHANGED touch /\ ready' = ready
  BY DEF InputEvent
<1>2. ready = <<"input">> /\ ~expired
  <2>1. ready # <<"timer">>
    BY <1>1
  <2> QED BY <1>1, <2>1 DEF Paced
<1> DEFINE e == Head(queue)
<1>4. e \in InputEvents /\ e = queue[1] /\ 1 \in 1 .. Len(queue)
  BY <1>1, TailType DEF TypeInv
<1>5. Key(e) \/ Mouse(e) \/ Touchpad(e) \/ Two(e) \/ TouchDown(e) \/ TouchMove(e) \/ TouchUp(e)
  BY DEF InputEvent
<1>6. ~expired'
  BY <1>2, <1>5, HandlerClock
<1>7. Paced'
  BY <1>1, <1>2, <1>6 DEF Paced
<1>8. Laid'
  BY <1>1, TailTimely
<1>9. Charged'
  <2>1. SUFFICES ASSUME mode' \in Pending, \A i \in 1 .. Len(queue') : Neutral(queue'[i]), timer' # 0
                 PROVE fingers' = 1 /\ still' /\ held' + timer' >= HoldTime
    BY <1>6 DEF Charged, Neutral
  <2>2. CASE e.kind = "down" /\ timer' = HoldTime
    <3>1. ASSUME NEW j \in 1 + 1 .. Len(queue) PROVE Neutral(queue[j])
      <4>1. j - 1 \in 1 .. Len(queue') /\ queue'[j - 1] = queue[(j - 1) + 1] /\ (j - 1) + 1 = j
        <5>1. Len(queue) \in Nat /\ Len(queue') = Len(queue) - 1
              /\ \A i \in 1 .. Len(queue') : queue'[i] = queue[i + 1]
          BY <1>1, TailType DEF TypeInv
        <5> QED BY <5>1
      <4> QED BY <2>1, <4>1
    <3>2. fingers = 1 /\ still /\ held = 0
      BY <1>4, <2>2, <3>1 DEF Laid
    <3> QED BY <1>1, <2>2, <3>2, Numbers DEF touch
  <2>3. CASE Neutral(e) /\ mode' = mode /\ timer' = timer
    <3>1. \A i \in 1 .. Len(queue) : Neutral(queue[i])
      BY <1>1, <2>1, <2>3, TailTimely
    <3> QED BY <1>1, <2>1, <2>3, <3>1 DEF Charged, touch
  <2> QED BY <1>4, <1>5, <2>1, <2>2, <2>3, HandlerTimely
<1> QED BY <1>7, <1>8, <1>9

LEMMA TimerTimely ==
  ASSUME TypeInv, TimerCallback, keepsUp, Paced, Charged, Laid
  PROVE Paced' /\ Charged' /\ Laid' /\ HoldIsHeld'
<1>1. /\ ready # <<>> /\ Head(ready) = "timer" /\ ready' = Tail(ready) /\ expired' = FALSE
      /\ timer' = timer /\ queue' = queue
  BY DEF TimerCallback
<1>2. ready = <<"timer">> /\ expired
  <2>1. ready # <<"input">>
    BY <1>1
  <2> QED BY <1>1, <2>1 DEF Paced
<1>3. queue = <<>> /\ timer = 0
  BY <1>2 DEF Paced, TypeInv
<1>4. Paced'
  <2>1. ready' = <<>>
    BY <1>1, <1>2
  <2> QED BY <1>1, <2>1 DEF Paced
<1>5. Charged' /\ Laid'
  BY <1>1, <1>3 DEF Charged, Laid
<1>6. HoldIsHeld'
  <2>1. ASSUME did'.what \in {"paste", "enter"} PROVE did'.fingers = 1 /\ did'.held
    <3>1. mode \in Pending /\ \E what \in {"paste", "enter"} : Hold(what)
      <4>1. CASE mode = "two" /\ Hold("keyboard")
        BY <2>1, <4>1 DEF Hold
      <4>2. CASE did' = Nothing
        BY <2>1, <4>2 DEF Nothing
      <4> QED BY <4>1, <4>2, Zenon DEF TimerCallback, Pending
    <3>2. fingers = 1 /\ still /\ held + timer >= HoldTime
      BY <1>2, <1>3, <3>1 DEF Charged
    <3>3. held >= HoldTime
      BY <1>3, <3>2 DEF TypeInv
    <3>4. did'.fingers = fingers /\ did'.held = (still /\ held >= HoldTime)
      BY <3>1 DEF Hold
    <3> QED BY <3>2, <3>3, <3>4, Zenon
  <2> QED BY <2>1 DEF HoldIsHeld
<1> QED BY <1>4, <1>5, <1>6

LEMMA TimelyStep == TypeInv /\ Timely /\ HoldIsHeld /\ [Next]_vars => Timely' /\ HoldIsHeld'
<1> SUFFICES ASSUME TypeInv, Timely, HoldIsHeld, [Next]_vars PROVE Timely' /\ HoldIsHeld'
  OBVIOUS
<1> DEFINE Steady == UNCHANGED <<touch, queue, timer, expired, mode>>
<1>a. keepsUp' = keepsUp
  BY Zenon DEF Next, Environment, Looper, Down, Drag, Up, SecondDown, Spread, SecondUp, CancelBoth, Other,
    Deliver, Tick, Poll, InputEvent, InputDone, TimerCallback, PreDispatched, WindowDestroyed, WindowCreated,
    vars
<1>b. CASE ~keepsUp
  BY <1>a, <1>b DEF Timely, HoldIsHeld
<1>c. CASE keepsUp
  <2>0. Paced /\ Charged /\ Laid
    BY <1>c DEF Timely
  <2>a. did' = Nothing => HoldIsHeld'
    BY DEF HoldIsHeld, Nothing
  <2>b. Steady => Charged' /\ Laid'
    BY <2>0 DEF Charged, Laid, touch, Neutral
  <2>1. CASE Environment
    <3>1. did' = Nothing
      <4>1. PICK e \in InputEvents : Deliver(e)
        BY <2>1, EnvironmentShape
      <4> QED BY <4>1 DEF Deliver
    <3>2. Paced' /\ Charged' /\ Laid'
      BY <1>c, <2>0, <2>1, EnvironmentTimely
    <3> QED BY <2>a, <3>1, <3>2 DEF Timely
  <2>2. CASE Tick
    <3>1. Idle /\ UNCHANGED <<fingers, still, queue, ready, mode>> /\ did' = Nothing
      BY <1>c, <2>2 DEF Tick
    <3>2. queue = <<>> /\ ready = <<>> /\ ~expired
      BY <3>1 DEF Idle
    <3>3. held' = (IF held < HoldTime THEN held + 1 ELSE held) /\ timer' = IF timer = 0 THEN 0 ELSE timer - 1
      BY <2>2 DEF Tick
    <3>4. expired' => timer = 1
      BY <2>2, <3>2, Zenon DEF Tick
    <3>5. Paced'
      BY <3>1, <3>2 DEF Paced
    <3>6. Laid'
      BY <3>1, <3>2 DEF Laid
    <3>7. Charged'
      <4>1. SUFFICES ASSUME mode' \in Pending, timer' # 0 \/ expired'
                     PROVE fingers' = 1 /\ still' /\ held' + timer' >= HoldTime
        BY DEF Charged
      <4>2. timer # 0
        BY <3>3, <3>4, <4>1
      <4>3. fingers = 1 /\ still /\ held + timer >= HoldTime
        BY <3>1, <3>2, <4>1, <4>2, <2>0 DEF Charged
      <4>4. held' + timer' >= HoldTime
        BY <3>3, <4>2, <4>3, Numbers DEF TypeInv
      <4> QED BY <3>1, <4>3, <4>4
    <3> QED BY <2>a, <3>1, <3>5, <3>6, <3>7 DEF Timely
  <2>3. CASE Poll
    <3>1. Steady /\ did' = Nothing /\ ready = <<>>
      BY <2>3 DEF Poll, clock
    <3>2. PICK S \in SUBSET {"input", "timer"} :
            /\ S = (IF queue # <<>> THEN {"input"} ELSE {}) \cup (IF expired THEN {"timer"} ELSE {})
            /\ ready' \in SetToSeqs(S)
      BY <2>3, Zenon DEF Poll
    <3>3. (S = {"input"} => ready' = <<"input">>) /\ (S = {"timer"} => ready' = <<"timer">>)
      BY <3>2, PollOrders
    <3>4. ASSUME expired PROVE Paced'
      <4>1. queue = <<>> /\ S = {"timer"}
        BY <2>0, <3>2, <3>4 DEF Paced
      <4>2. ready' = <<"timer">>
        BY <3>3, <4>1, Zenon
      <4> QED BY <3>1, <3>4, <4>1, <4>2 DEF Paced
    <3>5. ASSUME ~expired PROVE Paced'
      <4>1. S = {"input"}
        BY <2>3, <3>1, <3>2, <3>5 DEF Poll, Idle
      <4>2. ready' = <<"input">>
        BY <3>3, <4>1, Zenon
      <4> QED BY <3>1, <3>5, <4>2 DEF Paced
    <3> QED BY <2>a, <2>b, <3>1, <3>4, <3>5 DEF Timely, Paced
  <2>4. CASE InputEvent
    <3>1. did' = Nothing
      BY <2>4 DEF InputEvent
    <3>2. Paced' /\ Charged' /\ Laid'
      BY <1>c, <2>0, <2>4, InputTimely
    <3> QED BY <2>a, <3>1, <3>2 DEF Timely
  <2>5. CASE PreDispatched
    <3>1. /\ queue # <<>> /\ queue' = Tail(queue) /\ ready # <<>> /\ Head(ready) = "input" /\ did' = Nothing
          /\ UNCHANGED touch /\ UNCHANGED <<ready, mode, timer, expired>>
      BY <2>5 DEF PreDispatched, clock
    <3>2. Neutral(Head(queue))
      <4>1. Head(queue) \in InputEvents
        BY <3>1, TailType DEF TypeInv
      <4>2. Head(queue).kind \in {"key", "other key"}
        BY <2>5 DEF PreDispatched
      <4> QED BY <4>1, <4>2 DEF InputEvents, Touches, Neutral
    <3>3. Laid' /\ ((\A i \in 1 .. Len(queue') : Neutral(queue'[i])) => \A i \in 1 .. Len(queue) : Neutral(queue[i]))
      BY <2>0, <3>1, <3>2, TailTimely
    <3>4. Charged'
      BY <2>0, <3>1, <3>3 DEF Charged, touch, Neutral
    <3>5. Paced'
      <4>1. ready # <<"timer">>
        BY <3>1
      <4> QED BY <2>0, <3>1, <4>1 DEF Paced
    <3> QED BY <2>a, <3>1, <3>3, <3>4, <3>5 DEF Timely
  <2>6. CASE InputDone
    <3>1. Steady /\ did' = Nothing /\ ready # <<>> /\ Head(ready) = "input" /\ ready' = Tail(ready)
      BY <2>6 DEF InputDone, clock
    <3>2. ready = <<"input">>
      <4>1. ready # <<"timer">>
        BY <3>1
      <4> QED BY <2>0, <3>1, <4>1 DEF Paced
    <3>3. ready' = <<>>
      BY <3>1, <3>2
    <3> QED BY <2>0, <2>a, <2>b, <3>1, <3>2, <3>3 DEF Timely, Paced
  <2>7. CASE TimerCallback
    BY <1>c, <2>0, <2>7, TimerTimely DEF Timely
  <2>8. CASE WindowDestroyed \/ WindowCreated
    <3>1. Steady /\ did' = Nothing /\ ready' = ready
      BY <2>8 DEF WindowDestroyed, WindowCreated, clock
    <3> QED BY <2>0, <2>a, <2>b, <3>1 DEF Timely, Paced
  <2>9. CASE UNCHANGED vars
    <3>1. Steady /\ did' = did /\ ready' = ready
      BY <2>9 DEF vars, clock
    <3>2. HoldIsHeld'
      BY <1>a, <3>1 DEF HoldIsHeld
    <3> QED BY <2>0, <2>b, <3>1, <3>2 DEF Timely, Paced
  <2> QED BY <2>1, <2>2, <2>3, <2>4, <2>5, <2>6, <2>7, <2>8, <2>9 DEF Next, Looper
<1> QED BY <1>b, <1>c

\* With a looper that keeps up, a hold that pastes or enters is one finger that
\* was still for the whole of the hold time.
THEOREM HoldsComeFromFingers == Spec => []HoldsAreSound
<1>1. Init => Timely /\ HoldIsHeld
  BY DEF Init, Timely, Paced, Charged, Laid, Pending, HoldIsHeld, Nothing
<1>2. TypeInv /\ HoldIsHeld => HoldsAreSound
  BY DEF TypeInv, TypeOK, Readies, AllModes, HoldsAreSound
<1> QED BY TypeInit, TypeStep, <1>1, TimelyStep, <1>2, PTL DEF Spec
=============================================================================
