------------------------------ MODULE FrameRing ------------------------------
(***************************************************************************)
(* ConsoleFrameRing of modules/Console.psm1: one writer and any number of  *)
(* readers share a control block and three frame slots over raw memory.    *)
(* The writer never waits; a reader marks the slot it copies, copies it,   *)
(* and uses the slot's sequence to notice that the slot was replaced.      *)
(*                                                                         *)
(* Every access to shared memory that another thread can tell apart is a   *)
(* step of its own.  Memory is sequentially consistent: the module's own   *)
(* header comment leaves ordering to the lowered implementation.           *)
(* A frame is Parts words (its cells, then its cursor), each tagged with   *)
(* the number of the frame it belongs to.                                  *)
(***************************************************************************)
EXTENDS Integers

CONSTANTS
  Readers,     (* threads or processes that call AcquireLatest             *)
  Writer,      (* the thread that calls BeginWrite and Commit              *)
  Parts,       (* words copied one by one into and out of a slot           *)
  MaxFrames,   (* bound: frames begun, and so sequences stored             *)
  SerialAttach (* TRUE: no constructor runs while another one initialises
                  the control block; FALSE: constructors may interleave      *)

ASSUME RingAssumption ==
  /\ Parts \in Nat \ {0}
  /\ MaxFrames \in Nat \ {0}
  /\ SerialAttach \in BOOLEAN
  /\ Writer \notin Readers

Slots   == 0 .. 2
NoSlot  == -1
Part    == 1 .. Parts
Frame   == 0 .. MaxFrames            \* 0: never written
Threads == Readers \cup {Writer}

VARIABLES
  magic, newest, reader,   \* the control block
  seq, data,               \* per slot: its sequence and its words
  pc,                      \* per thread: the access it makes next
  wnewest, wslot, wpart,   \* locals of BeginWrite and Commit
  begun,                   \* frames begun; the number of the current one
  rslot, rseq, rpart, rcopy, outcome,  \* locals of AcquireLatest
  got,                     \* the last value AcquireLatest returned
  stored,                  \* history: the frame each sequence was stored for
  floor                    \* history: newest sequence when the call began

control == <<magic, newest, reader>>
slots   == <<seq, data>>
wlocals == <<wnewest, wslot, wpart, begun>>
rlocals == <<rslot, rseq, rpart, rcopy, outcome, got>>
history == <<stored, floor>>
vars    == <<control, slots, pc, wlocals, rlocals, history>>

AttachPC == {"new", "setmagic", "setnewest", "setreader", "idle"}
WriterPC == AttachPC \cup {"choose", "write", "sequence", "publish"}
ReaderPC == AttachPC \cup
              {"load", "mark", "loadseq", "check", "copy", "recheck", "release"}

Nothing == [seq |-> 0, parts |-> [p \in Part |-> 0]]   \* $null

Goto(t, from, to) == pc[t] = from /\ pc' = [pc EXCEPT ![t] = to]

\* The sequence of the newest slot: what a call that starts now must reach.
Latest == IF newest \in Slots THEN seq[newest] ELSE 0

Init ==
  /\ magic = FALSE /\ newest = 0 /\ reader = 0      \* zeroed memory
  /\ seq  = [s \in Slots |-> 0]
  /\ data = [s \in Slots |-> [p \in Part |-> 0]]
  /\ pc   = [t \in Threads |-> "new"]
  /\ wnewest = NoSlot /\ wslot = 0 /\ wpart = 1 /\ begun = 0
  /\ rslot = [r \in Readers |-> 0]
  /\ rseq  = [r \in Readers |-> 0]
  /\ rpart = [r \in Readers |-> 1]
  /\ rcopy = [r \in Readers |-> [p \in Part |-> 0]]
  /\ outcome = [r \in Readers |-> "frame"]
  /\ got   = [r \in Readers |-> Nothing]
  /\ stored = [n \in 1 .. MaxFrames |-> 0]
  /\ floor = [r \in Readers |-> 0]

-----------------------------------------------------------------------------
(* The constructor: initialise the control block unless the magic is there. *)

Initialising(t) == pc[t] \in {"setmagic", "setnewest", "setreader"}

Attach(t) ==
  /\ SerialAttach => \A u \in Threads : ~Initialising(u)
  /\ Goto(t, "new", IF magic THEN "idle" ELSE "setmagic")
  /\ UNCHANGED <<control, slots, wlocals, rlocals, history>>

SetMagic(t) ==
  /\ Goto(t, "setmagic", "setnewest")
  /\ magic' = TRUE
  /\ UNCHANGED <<newest, reader, slots, wlocals, rlocals, history>>

SetNewest(t) ==
  /\ Goto(t, "setnewest", "setreader")
  /\ newest' = NoSlot
  /\ UNCHANGED <<magic, reader, slots, wlocals, rlocals, history>>

SetReader(t) ==
  /\ Goto(t, "setreader", "idle")
  /\ reader' = NoSlot
  /\ UNCHANGED <<magic, newest, slots, wlocals, rlocals, history>>

\* The locals of a call end with it.
ForgetWriterLocals == wnewest' = NoSlot /\ wslot' = 0 /\ wpart' = 1
ForgetReaderLocals(r) ==
  /\ rslot' = [rslot EXCEPT ![r] = 0]
  /\ rseq'  = [rseq EXCEPT ![r] = 0]
  /\ rpart' = [rpart EXCEPT ![r] = 1]
  /\ rcopy' = [rcopy EXCEPT ![r] = Nothing.parts]
  /\ outcome' = [outcome EXCEPT ![r] = "frame"]

\* A thread dies at any point; another one takes its place and attaches.
CrashWriter ==
  /\ pc[Writer] # "new"
  /\ pc' = [pc EXCEPT ![Writer] = "new"]
  /\ ForgetWriterLocals
  /\ UNCHANGED <<control, slots, begun, rlocals, history>>

CrashReader(r) ==
  /\ pc[r] # "new"
  /\ pc' = [pc EXCEPT ![r] = "new"]
  /\ ForgetReaderLocals(r)
  /\ UNCHANGED <<control, slots, wlocals, got, history>>

-----------------------------------------------------------------------------
(* The writer: BeginWrite, then Commit. *)

BeginWriteNewest ==
  /\ begun < MaxFrames
  /\ Goto(Writer, "idle", "choose")
  /\ wnewest' = newest
  /\ begun' = begun + 1
  /\ UNCHANGED <<control, slots, wslot, wpart, rlocals, history>>

\* Mutations that test the properties: the reader mark is ignored, or waited for.
ChooseSlot_IgnoresReader ==
  /\ Goto(Writer, "choose", "write")
  /\ \E s \in Slots : s # wnewest /\ wslot' = s
  /\ wpart' = 1
  /\ UNCHANGED <<control, slots, wnewest, begun, rlocals, history>>
ChooseSlot_WaitsForReader ==
  /\ reader = NoSlot
  /\ Goto(Writer, "choose", "write")
  /\ wslot' = IF wnewest = 0 THEN 1 ELSE 0
  /\ wpart' = 1
  /\ UNCHANGED <<control, slots, wnewest, begun, rlocals, history>>

\* The lowest slot that is neither the newest nor the marked one.
ChooseSlot ==
  /\ Goto(Writer, "choose", "write")
  /\ \E s \in Slots :
       /\ s \notin {wnewest, reader}
       /\ \A lower \in Slots : lower < s => lower \in {wnewest, reader}
       /\ wslot' = s
  /\ wpart' = 1
  /\ UNCHANGED <<control, slots, wnewest, begun, rlocals, history>>

WritePart ==
  /\ Goto(Writer, "write", IF wpart = Parts THEN "sequence" ELSE "write")
  /\ data' = [data EXCEPT ![wslot] = [@ EXCEPT ![wpart] = begun]]
  /\ wpart' = IF wpart = Parts THEN 1 ELSE wpart + 1
  /\ UNCHANGED <<control, seq, wnewest, wslot, begun, rlocals, history>>

\* Previous maximum plus one, stored after the words of the frame.
StoreSequence ==
  /\ Goto(Writer, "sequence", "publish")
  /\ \E m \in Slots :
       /\ \A s \in Slots : seq[s] <= seq[m]
       /\ seq' = [seq EXCEPT ![wslot] = seq[m] + 1]
       /\ stored' = [stored EXCEPT ![seq[m] + 1] = begun]
  /\ UNCHANGED <<control, data, wlocals, rlocals, floor>>

StoreNewest ==
  /\ Goto(Writer, "publish", "idle")
  /\ newest' = wslot
  /\ ForgetWriterLocals
  /\ UNCHANGED <<magic, reader, slots, begun, rlocals, history>>

-----------------------------------------------------------------------------
(* A reader: AcquireLatest. *)

\* The call; floor remembers what was newest when it was made.
Acquire(r) ==
  /\ Goto(r, "idle", "load")
  /\ floor' = [floor EXCEPT ![r] = Latest]
  /\ UNCHANGED <<control, slots, wlocals, rlocals, stored>>

LoadNewest(r) ==
  /\ IF newest \in Slots
     THEN /\ Goto(r, "load", "mark")
          /\ rslot' = [rslot EXCEPT ![r] = newest]
          /\ UNCHANGED got
     ELSE /\ Goto(r, "load", "idle")
          /\ got' = [got EXCEPT ![r] = Nothing]
          /\ UNCHANGED rslot
  /\ UNCHANGED <<control, slots, wlocals, rseq, rpart, rcopy, outcome, history>>

MarkSlot(r) ==
  /\ Goto(r, "mark", "loadseq")
  /\ reader' = rslot[r]
  /\ UNCHANGED <<magic, newest, slots, wlocals, rlocals, history>>

LoadSequence(r) ==
  /\ rseq' = [rseq EXCEPT ![r] = seq[rslot[r]]]
  /\ IF seq[rslot[r]] = 0
     THEN /\ Goto(r, "loadseq", "release")
          /\ outcome' = [outcome EXCEPT ![r] = "null"]
     ELSE /\ Goto(r, "loadseq", "check")
          /\ UNCHANGED outcome
  /\ UNCHANGED <<control, slots, wlocals, rslot, rpart, rcopy, got, history>>

CheckNewest(r) ==
  /\ IF newest = rslot[r]
     THEN /\ Goto(r, "check", "copy")
          /\ rpart' = [rpart EXCEPT ![r] = 1]
          /\ UNCHANGED outcome
     ELSE /\ Goto(r, "check", "release")
          /\ outcome' = [outcome EXCEPT ![r] = "retry"]
          /\ UNCHANGED rpart
  /\ UNCHANGED <<control, slots, wlocals, rslot, rseq, rcopy, got, history>>

CopyPart(r) ==
  LET p == rpart[r] IN
  /\ Goto(r, "copy", IF p = Parts THEN "recheck" ELSE "copy")
  /\ rcopy' = [rcopy EXCEPT ![r] = [@ EXCEPT ![p] = data[rslot[r]][p]]]
  /\ rpart' = [rpart EXCEPT ![r] = IF p = Parts THEN 1 ELSE p + 1]
  /\ UNCHANGED <<control, slots, wlocals, rslot, rseq, outcome, got, history>>

\* Mutation: the second look at the sequence is left out.
RecheckSequence_Skipped(r) ==
  /\ Goto(r, "recheck", "release")
  /\ outcome' = [outcome EXCEPT ![r] = "frame"]
  /\ UNCHANGED <<control, slots, wlocals, rslot, rseq, rpart, rcopy, got, history>>

RecheckSequence(r) ==
  /\ Goto(r, "recheck", "release")
  /\ outcome' = [outcome EXCEPT
       ![r] = IF seq[rslot[r]] = rseq[r] THEN "frame" ELSE "retry"]
  /\ UNCHANGED <<control, slots, wlocals, rslot, rseq, rpart, rcopy, got, history>>

\* Mutations: a call that must start again answers $null, or starts again
\* without loading the newest slot.
Release_GivesUp(r) ==
  /\ Goto(r, "release", "idle")
  /\ reader' = NoSlot
  /\ got' = [got EXCEPT ![r] =
       IF outcome[r] = "frame" THEN [seq |-> rseq[r], parts |-> rcopy[r]] ELSE Nothing]
  /\ ForgetReaderLocals(r)
  /\ UNCHANGED <<magic, newest, slots, wlocals, history>>
Release_KeepsSlot(r) ==
  /\ Goto(r, "release", IF outcome[r] = "retry" THEN "mark" ELSE "idle")
  /\ reader' = NoSlot
  /\ UNCHANGED <<magic, newest, slots, wlocals, rlocals, history>>

\* Clear the reader mark, then return or start again.
Release(r) ==
  /\ Goto(r, "release", IF outcome[r] = "retry" THEN "load" ELSE "idle")
  /\ reader' = NoSlot
  /\ got' = [got EXCEPT ![r] =
       IF outcome[r] = "frame" THEN [seq |-> rseq[r], parts |-> rcopy[r]]
       ELSE IF outcome[r] = "null" THEN Nothing ELSE @]
  /\ ForgetReaderLocals(r)
  /\ UNCHANGED <<magic, newest, slots, wlocals, history>>

-----------------------------------------------------------------------------

Construct(t) == Attach(t) \/ SetMagic(t) \/ SetNewest(t) \/ SetReader(t)

CommitStep == ChooseSlot \/ WritePart \/ StoreSequence \/ StoreNewest

AcquireStep(r) ==
  \/ LoadNewest(r) \/ MarkSlot(r) \/ LoadSequence(r) \/ CheckNewest(r)
  \/ CopyPart(r) \/ RecheckSequence(r) \/ Release(r)

Next ==
  \/ \E t \in Threads : Construct(t)
  \/ BeginWriteNewest \/ CommitStep \/ CrashWriter
  \/ \E r \in Readers : Acquire(r) \/ AcquireStep(r) \/ CrashReader(r)

Spec == Init /\ [][Next]_vars

\* A thread that is inside a call is scheduled; making a call, constructing a
\* ring and dying are never required.
FairSpec == Spec /\ WF_vars(CommitStep) /\ \A r \in Readers : WF_vars(AcquireStep(r))

-----------------------------------------------------------------------------

ControlOK ==
  /\ magic \in BOOLEAN
  /\ newest \in Slots \cup {NoSlot}
  /\ reader \in Slots \cup {NoSlot}
SlotsOK ==
  /\ seq \in [Slots -> Frame]
  /\ data \in [Slots -> [Part -> Frame]]
PcOK ==
  /\ pc \in [Threads -> WriterPC \cup ReaderPC]
  /\ pc[Writer] \in WriterPC
  /\ \A r \in Readers : pc[r] \in ReaderPC
WriterOK ==
  /\ wnewest \in Slots \cup {NoSlot}
  /\ wslot \in Slots
  /\ wpart \in Part
  /\ begun \in Frame
ReaderOK ==
  /\ rslot \in [Readers -> Slots]
  /\ rseq \in [Readers -> Frame]
  /\ rpart \in [Readers -> Part]
  /\ rcopy \in [Readers -> [Part -> Frame]]
  /\ outcome \in [Readers -> {"frame", "null", "retry"}]
  /\ got \in [Readers -> [seq : Frame, parts : [Part -> Frame]]]
HistoryOK ==
  /\ stored \in [1 .. MaxFrames -> Frame]
  /\ floor \in [Readers -> Frame]

TypeOK == ControlOK /\ SlotsOK /\ PcOK /\ WriterOK /\ ReaderOK /\ HistoryOK

Writing(s) == pc[Writer] \in {"write", "sequence"} /\ wslot = s

\* A frame AcquireLatest returned is, word for word, the frame that was stored
\* under the sequence it is returned with: never a mix of two frames, and never
\* one frame under the sequence of another.
NoTornFrame ==
  \A r \in Readers : got[r].seq # 0 =>
     \A p \in Part : got[r].parts[p] = stored[got[r].seq]

\* From the moment a reader has confirmed that the slot it marked is the newest
\* until it clears its mark, the writer does not write that slot, however many
\* frames it commits meanwhile.
HeldSlotNotWritten ==
  \A r \in Readers : pc[r] \in {"copy", "recheck"} => ~Writing(rslot[r])

\* Successive calls of a reader never go back to an older frame, and never back
\* to $null once a frame has been returned.
NeverGoesBack ==
  [][\A r \in Readers : got'[r].seq >= got[r].seq]_vars

Committing == pc[Writer] \in {"choose", "write", "sequence", "publish"}
Acquiring(r) ==
  pc[r] \in {"load", "mark", "loadseq", "check", "copy", "recheck", "release"}

\* The writer never waits: a commit that has begun ends, whatever the readers
\* do, and also when one of them died with a slot marked.
WriterNeverWaits == Committing ~> ~Committing

\* A call of AcquireLatest returns once no more frames are committed (the run
\* commits finitely many): it starts again only when the writer has moved on.
AcquireReturns == \A r \in Readers : Acquiring(r) ~> ~Acquiring(r)

-----------------------------------------------------------------------------
(* Why a ring with one reader is safe: the parts of an inductive invariant. *)

OneReader == \A a, b \in Readers : a = b
Filling   == pc[Writer] \in {"write", "sequence", "publish"}
Intact(s) == \A p \in Part : data[s][p] = stored[seq[s]]

\* Sequences stay behind the number of frames begun.
SequenceBound ==
  /\ \A s \in Slots : seq[s] <= begun
  /\ pc[Writer] \in {"choose", "write", "sequence"} =>
       \A s \in Slots : seq[s] < begun

\* The control block is initialised by one thread, before anything else.
InitialisedAlone ==
  /\ ~magic => \A t \in Threads : pc[t] \in {"new", "setmagic"}
  /\ \A t \in Threads : Initialising(t) =>
       \A u \in Threads : u # t => pc[u] = "new"
  /\ (~magic \/ \E t \in Threads : Initialising(t)) =>
       \A s \in Slots : seq[s] = 0

\* The writer never fills the newest slot, and has filled what it publishes.
WriterInv ==
  /\ pc[Writer] = "choose" => wnewest = newest
  /\ Filling => wslot # newest
  /\ pc[Writer] = "write" =>
       \A p \in Part : p < wpart => data[wslot][p] = begun
  /\ pc[Writer] = "sequence" => \A p \in Part : data[wslot][p] = begun
  /\ pc[Writer] = "publish" =>
       /\ Intact(wslot)
       /\ \A s \in Slots : seq[s] <= seq[wslot]

NewestIntact == newest \in Slots /\ seq[newest] > 0 => Intact(newest)

\* What a reader has marked is its own mark; a slot confirmed as newest is out
\* of the writer's reach, so its words and its sequence stand still.
MarkInv(r) ==
  /\ pc[r] \in {"loadseq", "check", "copy", "recheck"} => reader = rslot[r]
  /\ pc[r] \in {"check", "copy", "recheck"} => 0 < rseq[r] /\ rseq[r] <= seq[rslot[r]]
  /\ pc[r] \in {"copy", "recheck"} =>
       /\ Filling => wslot # rslot[r]
       /\ Intact(rslot[r])
       /\ seq[rslot[r]] <= Latest

\* The words copied so far are those of the slot's frame.
CopyInv(r) ==
  /\ pc[r] = "copy" =>
       \A p \in Part : p < rpart[r] => rcopy[r][p] = stored[seq[rslot[r]]]
  /\ pc[r] = "recheck" =>
       \A p \in Part : rcopy[r][p] = stored[seq[rslot[r]]]
  /\ pc[r] = "release" /\ outcome[r] = "frame" =>
       /\ 0 < rseq[r] /\ floor[r] <= rseq[r] /\ rseq[r] <= Latest
       /\ \A p \in Part : rcopy[r][p] = stored[rseq[r]]

\* The slot a call works on is never older than the newest frame at the call.
FreshInv(r) ==
  /\ Acquiring(r) => floor[r] <= Latest
  /\ pc[r] \in {"mark", "loadseq", "check", "copy", "recheck"} =>
       floor[r] <= seq[rslot[r]]
  /\ pc[r] = "release" /\ outcome[r] = "null" => floor[r] = 0

GotInv(r) ==
  /\ got[r].seq <= Latest
  /\ got[r].seq = 0 => got[r] = Nothing
  /\ got[r].seq # 0 => \A p \in Part : got[r].parts[p] = stored[got[r].seq]
  /\ Acquiring(r) => got[r].seq <= floor[r]

\* The conjunction: inductive for one reader whose ring was set up before use.
RingInv ==
  /\ TypeOK /\ SequenceBound /\ InitialisedAlone /\ WriterInv /\ NewestIntact
  /\ \A r \in Readers : MarkInv(r) /\ CopyInv(r) /\ FreshInv(r) /\ GotInv(r)

-----------------------------------------------------------------------------
(* The ring promises what one atomic cell would: see LatestFrame.           *)

Promise == INSTANCE LatestFrame WITH
  latest   <- Latest,
  frameOf  <- stored,
  calling  <- [r \in Readers |-> Acquiring(r)],
  floor    <- floor,
  returned <- got

ImplementsLatestFrame == Promise!Spec
=============================================================================
