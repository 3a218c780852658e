----------------------------- MODULE LatestFrame -----------------------------
(***************************************************************************)
(* What the console's frame ring promises its readers, without slots,      *)
(* marks or retries: there is one newest frame, it is replaced by newer    *)
(* ones, and a call of AcquireLatest returns, whole, some frame that was   *)
(* the newest one at a moment between the call and its return.  The states *)
(* are those the contract in docs/console-reference.md speaks of.          *)
(***************************************************************************)
EXTENDS Integers

CONSTANTS Readers, Parts, MaxFrames

VARIABLES
  latest,     \* sequence of the newest frame, 0 before the first commit
  frameOf,    \* the frame each sequence stands for
  calling,    \* readers inside AcquireLatest
  floor,      \* what was newest when the reader's call began
  returned    \* the last frame each reader got

vars == <<latest, frameOf, calling, floor, returned>>

Part == 1 .. Parts
Null == [seq |-> 0, parts |-> [p \in Part |-> 0]]
Copy(n) == [seq |-> n, parts |-> [p \in Part |-> frameOf[n]]]

Init ==
  /\ latest = 0
  /\ frameOf = [n \in 1 .. MaxFrames |-> 0]
  /\ calling = [r \in Readers |-> FALSE]
  /\ floor = [r \in Readers |-> 0]
  /\ returned = [r \in Readers |-> Null]

\* A frame becomes the newest one, or one is being prepared: what readers may
\* still be handed does not change.
Commit ==
  /\ latest' \in latest .. MaxFrames
  /\ \A n \in 1 .. latest : frameOf'[n] = frameOf[n]
  /\ UNCHANGED <<calling, floor, returned>>

Call(r) ==
  /\ ~calling[r]
  /\ calling' = [calling EXCEPT ![r] = TRUE]
  /\ floor' = [floor EXCEPT ![r] = latest]
  /\ UNCHANGED <<latest, frameOf, returned>>

\* $null is an answer only when nothing had been committed at the call.
Return(r) ==
  /\ calling[r]
  /\ calling' = [calling EXCEPT ![r] = FALSE]
  /\ \/ floor[r] = 0 /\ returned' = [returned EXCEPT ![r] = Null]
     \/ \E n \in 1 .. latest :
          n >= floor[r] /\ returned' = [returned EXCEPT ![r] = Copy(n)]
  /\ UNCHANGED <<latest, frameOf, floor>>

\* The reader dies inside the call.
Abandon(r) ==
  /\ calling[r]
  /\ calling' = [calling EXCEPT ![r] = FALSE]
  /\ UNCHANGED <<latest, frameOf, floor, returned>>

Next == Commit \/ \E r \in Readers : Call(r) \/ Return(r) \/ Abandon(r)

Spec == Init /\ [][Next]_vars
=============================================================================
