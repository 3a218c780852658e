-------------------------- MODULE FrameRingProofs --------------------------
(***************************************************************************)
(* What is proved of FrameRing, for every number of parts and of frames:   *)
(* its types (with any readers), and, for a ring with one reader whose     *)
(* constructors do not overlap, that no returned frame is torn, that the   *)
(* slot being copied is never written, and that the ring implements        *)
(* LatestFrame.                                                            *)
(***************************************************************************)
EXTENDS FrameRing, TLAPS

\* The names under which the actions and the state are unfolded below.
USE RingAssumption DEF Slots, NoSlot, Part, Frame, Threads

-----------------------------------------------------------------------------
(* Types and the bound on sequences, with any number of readers.            *)

\* Members of the constant sets that the leaves below need by name.
LEMMA FirstIsPart == 1 \in Part /\ 0 \in Frame /\ -1 \notin Slots
  OBVIOUS

\* $null, as a value of got.
LEMMA NothingType ==
  /\ Nothing \in [seq : Frame, parts : [Part -> Frame]]
  /\ Nothing.parts \in [Part -> Frame]
  BY DEF Nothing

\* Zeroed memory and threads before their constructors are well typed.
LEMMA TypeInit == Init => TypeOK /\ SequenceBound
<1> SUFFICES ASSUME Init PROVE TypeOK /\ SequenceBound
  OBVIOUS
<1>1. ControlOK /\ WriterOK
  <2>1. ControlOK
    <3>1. magic \in BOOLEAN
      BY Zenon DEF Init
    <3>2. newest = 0 /\ reader = 0
      BY DEF Init
    <3> QED BY <3>1, <3>2 DEF ControlOK
  <2>2. wnewest = NoSlot /\ wslot = 0 /\ wpart = 1 /\ begun = 0
    BY DEF Init
  <2> QED BY <2>1, <2>2, FirstIsPart DEF WriterOK
<1>5. SlotsOK
  BY DEF Init, SlotsOK
<1>6. HistoryOK
  BY DEF Init, HistoryOK
<1>2. PcOK
  BY DEF Init, PcOK, WriterPC, ReaderPC, AttachPC
<1>3. ReaderOK
  BY NothingType DEF Init, ReaderOK
<1>4. SequenceBound
  BY DEF Init, SequenceBound
<1> QED BY <1>1, <1>2, <1>3, <1>4, <1>5, <1>6 DEF TypeOK

\* Sequences lag behind the frames begun: only StoreSequence raises one, and
\* by then the frame it is stored for has been counted.
LEMMA SequenceStep == TypeOK /\ SequenceBound /\ [Next]_vars => SequenceBound'
<1> SUFFICES ASSUME TypeOK, SequenceBound, [Next]_vars PROVE SequenceBound'
  OBVIOUS
<1> USE DEF TypeOK, SlotsOK, WriterOK, PcOK
<1>0. \A s \in Slots : seq[s] \in Int /\ begun \in Int
  OBVIOUS
<1>1. CASE UNCHANGED <<seq, begun>> /\ pc'[Writer] = pc[Writer]
  BY <1>1 DEF SequenceBound
<1>2. CASE UNCHANGED <<seq, begun>> /\ pc'[Writer] \notin {"choose", "write", "sequence"}
  BY <1>2 DEF SequenceBound
<1>3. CASE BeginWriteNewest
  <2>1. seq' = seq /\ begun' = begun + 1
    BY <1>3 DEF BeginWriteNewest, slots
  <2> QED BY <1>0, <2>1 DEF SequenceBound
<1>4. CASE ChooseSlot \/ WritePart
  <2>1. UNCHANGED <<seq, begun>>
    BY <1>4 DEF ChooseSlot, WritePart, slots
  <2>2. pc[Writer] \in {"choose", "write", "sequence"}
    BY <1>4 DEF ChooseSlot, WritePart, Goto
  <2> QED BY <2>1, <2>2 DEF SequenceBound
<1>5. CASE StoreSequence
  <2>1. begun' = begun /\ pc[Writer] = "sequence" /\ pc'[Writer] = "publish"
    BY <1>5 DEF StoreSequence, Goto, wlocals, Threads
  <2>2. PICK m \in Slots : seq' = [seq EXCEPT ![wslot] = seq[m] + 1]
    BY <1>5 DEF StoreSequence
  <2>3. \A s \in Slots : seq[s] < begun
    BY <2>1 DEF SequenceBound
  <2>4. ASSUME NEW s \in Slots PROVE seq'[s] <= begun
    <3>1. CASE s = wslot
      BY <1>0, <2>2, <2>3, <3>1
    <3>2. CASE s # wslot
      BY <1>0, <2>2, <2>3, <3>2
    <3> QED BY <3>1, <3>2
  <2> QED BY <2>1, <2>4 DEF SequenceBound
<1>6. CASE StoreNewest \/ CrashWriter
  <2>1. UNCHANGED <<seq, begun>> /\ pc'[Writer] \in {"idle", "new"}
    BY <1>6 DEF StoreNewest, CrashWriter, Goto, slots, ForgetWriterLocals, Threads
  <2> QED BY <2>1, <1>2
<1>7. ASSUME NEW t \in Threads, Construct(t) PROVE SequenceBound'
  <2>1. UNCHANGED <<seq, begun>>
    BY <1>7 DEF Construct, Attach, SetMagic, SetNewest, SetReader, slots, wlocals
  <2>2. pc'[Writer] = pc[Writer] \/ pc'[Writer] \in AttachPC
    BY <1>7 DEF Construct, Attach, SetMagic, SetNewest, SetReader, Goto, AttachPC
  <2> QED BY <2>1, <2>2, <1>1, <1>2 DEF AttachPC
<1>8. ASSUME NEW r \in Readers, Acquire(r) \/ AcquireStep(r) \/ CrashReader(r)
      PROVE  SequenceBound'
  <2>1. UNCHANGED <<seq, begun>>
    BY <1>8 DEF Acquire, AcquireStep, CrashReader, LoadNewest, MarkSlot, LoadSequence,
       CheckNewest, CopyPart, RecheckSequence, Release, slots, wlocals
  <2>2. pc'[Writer] = pc[Writer]
    BY <1>8 DEF Acquire, AcquireStep, CrashReader, LoadNewest, MarkSlot, LoadSequence,
       CheckNewest, CopyPart, RecheckSequence, Release, Goto
  <2> QED BY <2>1, <2>2, <1>1
<1>9. CASE UNCHANGED vars
  BY <1>9, <1>1 DEF vars, slots, wlocals
<1> QED BY <1>3, <1>4, <1>5, <1>6, <1>7, <1>8, <1>9 DEF Next, CommitStep

\* Every action keeps the types; each case names the groups it leaves alone.
LEMMA TypeStep == TypeOK /\ SequenceBound /\ [Next]_vars => TypeOK'
<1> SUFFICES ASSUME TypeOK, SequenceBound, [Next]_vars PROVE TypeOK'
  OBVIOUS
<1> USE DEF TypeOK
<1>1. ASSUME NEW t \in Threads, Construct(t)
      PROVE  TypeOK'
  <2>1. CASE Attach(t)
      <3>1. ControlOK' /\ SlotsOK' /\ WriterOK' /\ ReaderOK' /\ HistoryOK'
        BY <2>1 DEF Attach, ControlOK, SlotsOK, WriterOK, ReaderOK, HistoryOK, control, slots, wlocals, rlocals, history
      <3>2. PcOK'
        BY <2>1 DEF Attach, Goto, PcOK, WriterPC, ReaderPC, AttachPC
      <3> QED BY <3>1, <3>2 DEF TypeOK
  <2>2. CASE SetMagic(t)
      <3>1. SlotsOK' /\ WriterOK' /\ ReaderOK' /\ HistoryOK'
        BY <2>2 DEF SetMagic, SlotsOK, WriterOK, ReaderOK, HistoryOK, slots, wlocals, rlocals, history
      <3>2. PcOK'
        BY <2>2 DEF SetMagic, Goto, PcOK, WriterPC, ReaderPC, AttachPC
      <3>3. ControlOK'
        BY <2>2 DEF SetMagic, ControlOK, control
      <3> QED BY <3>1, <3>2, <3>3 DEF TypeOK
  <2>3. CASE SetNewest(t)
      <3>1. SlotsOK' /\ WriterOK' /\ ReaderOK' /\ HistoryOK'
        BY <2>3 DEF SetNewest, SlotsOK, WriterOK, ReaderOK, HistoryOK, slots, wlocals, rlocals, history
      <3>2. PcOK'
        BY <2>3 DEF SetNewest, Goto, PcOK, WriterPC, ReaderPC, AttachPC
      <3>3. ControlOK'
        BY <2>3 DEF SetNewest, ControlOK, control
      <3> QED BY <3>1, <3>2, <3>3 DEF TypeOK
  <2>4. CASE SetReader(t)
      <3>1. SlotsOK' /\ WriterOK' /\ ReaderOK' /\ HistoryOK'
        BY <2>4 DEF SetReader, SlotsOK, WriterOK, ReaderOK, HistoryOK, slots, wlocals, rlocals, history
      <3>2. PcOK'
        BY <2>4 DEF SetReader, Goto, PcOK, WriterPC, ReaderPC, AttachPC
      <3>3. ControlOK'
        BY <2>4 DEF SetReader, ControlOK, control
      <3> QED BY <3>1, <3>2, <3>3 DEF TypeOK
  <2> QED BY <1>1, <2>1, <2>2, <2>3, <2>4 DEF Construct
<1>2. CASE BeginWriteNewest
  <2>1. ControlOK' /\ SlotsOK' /\ ReaderOK' /\ HistoryOK'
    BY <1>2 DEF BeginWriteNewest, ControlOK, SlotsOK, ReaderOK, HistoryOK, control, slots, rlocals, history
  <2>2. PcOK'
    BY <1>2 DEF BeginWriteNewest, Goto, PcOK, WriterPC, ReaderPC, AttachPC
  <2>3. WriterOK'
    BY <1>2 DEF BeginWriteNewest, WriterOK, ControlOK, wlocals
  <2> QED BY <2>1, <2>2, <2>3 DEF TypeOK
<1>3. CASE ChooseSlot
  <2>1. ControlOK' /\ SlotsOK' /\ ReaderOK' /\ HistoryOK'
    BY <1>3 DEF ChooseSlot, ControlOK, SlotsOK, ReaderOK, HistoryOK, control, slots, rlocals, history
  <2>2. PcOK'
    BY <1>3 DEF ChooseSlot, Goto, PcOK, WriterPC, ReaderPC, AttachPC
  <2>3. WriterOK'
    BY <1>3 DEF ChooseSlot, WriterOK, wlocals
  <2> QED BY <2>1, <2>2, <2>3 DEF TypeOK
<1>4. CASE WritePart
  <2>1. ControlOK' /\ ReaderOK' /\ HistoryOK'
    BY <1>4 DEF WritePart, ControlOK, ReaderOK, HistoryOK, control, rlocals, history
  <2>2. PcOK'
    BY <1>4 DEF WritePart, Goto, PcOK, WriterPC, ReaderPC, AttachPC
  <2>3. SlotsOK'
    BY <1>4 DEF WritePart, SlotsOK, WriterOK, slots
  <2>4. WriterOK'
    BY <1>4 DEF WritePart, WriterOK, wlocals
  <2> QED BY <2>1, <2>2, <2>3, <2>4 DEF TypeOK
<1>5. CASE StoreSequence
  <2>1. ControlOK' /\ WriterOK' /\ ReaderOK'
    BY <1>5 DEF StoreSequence, ControlOK, WriterOK, ReaderOK, control, wlocals, rlocals
  <2>2. PcOK'
    BY <1>5 DEF StoreSequence, Goto, PcOK, WriterPC, ReaderPC, AttachPC
  <2>3. SlotsOK'
    <3>1. PICK m \in Slots : seq' = [seq EXCEPT ![wslot] = seq[m] + 1]
      BY <1>5 DEF StoreSequence
    <3>2. seq[m] < begun /\ data' = data
      BY <1>5 DEF StoreSequence, SequenceBound, Goto
    <3>3. seq[m] + 1 \in Frame
      BY <3>2 DEF SlotsOK, WriterOK
    <3> QED BY <3>1, <3>2, <3>3 DEF SlotsOK, WriterOK
  <2>4. HistoryOK'
    BY <1>5 DEF StoreSequence, HistoryOK, SlotsOK, WriterOK, SequenceBound, history, Goto
  <2> QED BY <2>1, <2>2, <2>3, <2>4 DEF TypeOK
<1>6. CASE StoreNewest
  <2>1. SlotsOK' /\ ReaderOK' /\ HistoryOK'
    BY <1>6 DEF StoreNewest, SlotsOK, ReaderOK, HistoryOK, slots, rlocals, history
  <2>2. PcOK'
    BY <1>6 DEF StoreNewest, Goto, PcOK, WriterPC, ReaderPC, AttachPC
  <2>3. ControlOK'
    BY <1>6 DEF StoreNewest, ControlOK, WriterOK, control
  <2>4. WriterOK'
    BY <1>6 DEF StoreNewest, WriterOK, ForgetWriterLocals, wlocals
  <2> QED BY <2>1, <2>2, <2>3, <2>4 DEF TypeOK
<1>7. CASE CrashWriter
  <2>1. ControlOK' /\ SlotsOK' /\ ReaderOK' /\ HistoryOK'
    BY <1>7 DEF CrashWriter, ControlOK, SlotsOK, ReaderOK, HistoryOK, control, slots, rlocals, history
  <2>2. PcOK'
    BY <1>7 DEF CrashWriter, Goto, PcOK, WriterPC, ReaderPC, AttachPC
  <2>3. WriterOK'
    BY <1>7 DEF CrashWriter, WriterOK, ForgetWriterLocals, wlocals
  <2> QED BY <2>1, <2>2, <2>3 DEF TypeOK
<1>8. ASSUME NEW r \in Readers, Acquire(r) \/ AcquireStep(r) \/ CrashReader(r)
      PROVE  TypeOK'
  <2>1. CASE Acquire(r)
      <3>1. ControlOK' /\ SlotsOK' /\ WriterOK' /\ ReaderOK'
        BY <2>1 DEF Acquire, ControlOK, SlotsOK, WriterOK, ReaderOK, control, slots, wlocals, rlocals
      <3>2. PcOK'
        BY <2>1 DEF Acquire, Goto, PcOK, WriterPC, ReaderPC, AttachPC
      <3>3. HistoryOK'
        BY <2>1 DEF Acquire, HistoryOK, Latest, SlotsOK, history
      <3> QED BY <3>1, <3>2, <3>3 DEF TypeOK
  <2>2. CASE LoadNewest(r)
      <3>1. ControlOK' /\ SlotsOK' /\ WriterOK' /\ HistoryOK'
        BY <2>2 DEF LoadNewest, ControlOK, SlotsOK, WriterOK, HistoryOK, control, slots, wlocals, history
      <3>2. PcOK'
        BY <2>2 DEF LoadNewest, Goto, PcOK, WriterPC, ReaderPC, AttachPC
      <3>3. ReaderOK'
        <4>1. UNCHANGED <<rseq, rpart, rcopy, outcome>>
          BY <2>2 DEF LoadNewest, ReaderOK
        <4>2. (rslot \in [Readers -> Slots])'
          BY <2>2 DEF LoadNewest, ReaderOK
        <4>3. (got \in [Readers -> [seq : Frame, parts : [Part -> Frame]]])'
          BY <2>2, NothingType DEF LoadNewest, ReaderOK
        <4> QED BY <4>1, <4>2, <4>3 DEF ReaderOK
      <3> QED BY <3>1, <3>2, <3>3 DEF TypeOK
  <2>3. CASE MarkSlot(r)
      <3>1. SlotsOK' /\ WriterOK' /\ ReaderOK' /\ HistoryOK'
        BY <2>3 DEF MarkSlot, SlotsOK, WriterOK, ReaderOK, HistoryOK, slots, wlocals, rlocals, history
      <3>2. PcOK'
        BY <2>3 DEF MarkSlot, Goto, PcOK, WriterPC, ReaderPC, AttachPC
      <3>3. ControlOK'
        BY <2>3 DEF MarkSlot, ControlOK, ReaderOK, control
      <3> QED BY <3>1, <3>2, <3>3 DEF TypeOK
  <2>4. CASE LoadSequence(r)
      <3>1. ControlOK' /\ SlotsOK' /\ WriterOK' /\ HistoryOK'
        BY <2>4 DEF LoadSequence, ControlOK, SlotsOK, WriterOK, HistoryOK, control, slots, wlocals, history
      <3>2. PcOK'
        BY <2>4 DEF LoadSequence, Goto, PcOK, WriterPC, ReaderPC, AttachPC
      <3>3. ReaderOK'
        <4>1. UNCHANGED <<rslot, rpart, rcopy, got>>
          BY <2>4 DEF LoadSequence, ReaderOK
        <4>2. (rseq \in [Readers -> Frame])'
          BY <2>4 DEF LoadSequence, ReaderOK, SlotsOK
        <4>3. (outcome \in [Readers -> {"frame", "null", "retry"}])'
          BY <2>4 DEF LoadSequence, ReaderOK
        <4> QED BY <4>1, <4>2, <4>3 DEF ReaderOK
      <3> QED BY <3>1, <3>2, <3>3 DEF TypeOK
  <2>5. CASE CheckNewest(r)
      <3>1. ControlOK' /\ SlotsOK' /\ WriterOK' /\ HistoryOK'
        BY <2>5 DEF CheckNewest, ControlOK, SlotsOK, WriterOK, HistoryOK, control, slots, wlocals, history
      <3>2. PcOK'
        BY <2>5 DEF CheckNewest, Goto, PcOK, WriterPC, ReaderPC, AttachPC
      <3>3. ReaderOK'
        <4>1. UNCHANGED <<rslot, rseq, rcopy, got>>
          BY <2>5 DEF CheckNewest, ReaderOK
        <4>2. (rpart \in [Readers -> Part])'
          <5>1. rpart' = rpart \/ rpart' = [rpart EXCEPT ![r] = 1]
            BY <2>5 DEF CheckNewest
          <5> QED BY <5>1, FirstIsPart DEF ReaderOK
        <4>3. (outcome \in [Readers -> {"frame", "null", "retry"}])'
          BY <2>5 DEF CheckNewest, ReaderOK
        <4> QED BY <4>1, <4>2, <4>3 DEF ReaderOK
      <3> QED BY <3>1, <3>2, <3>3 DEF TypeOK
  <2>6. CASE CopyPart(r)
      <3>1. ControlOK' /\ SlotsOK' /\ WriterOK' /\ HistoryOK'
        BY <2>6 DEF CopyPart, ControlOK, SlotsOK, WriterOK, HistoryOK, control, slots, wlocals, history
      <3>2. PcOK'
        BY <2>6 DEF CopyPart, Goto, PcOK, WriterPC, ReaderPC, AttachPC
      <3>3. ReaderOK'
        <4>1. UNCHANGED <<rslot, rseq, outcome, got>>
          BY <2>6 DEF CopyPart, ReaderOK
        <4>2. (rpart \in [Readers -> Part])'
          BY <2>6 DEF CopyPart, ReaderOK
        <4>3. (rcopy \in [Readers -> [Part -> Frame]])'
          <5> DEFINE c == [rcopy[r] EXCEPT ![rpart[r]] = data[rslot[r]][rpart[r]]]
          <5>1. data[rslot[r]][rpart[r]] \in Frame
            <6>1. data \in [Slots -> [Part -> Frame]] /\ rslot[r] \in Slots /\ rpart[r] \in Part
              BY DEF ReaderOK, SlotsOK
            <6>2. data[rslot[r]] \in [Part -> Frame]
              BY <6>1, Zenon
            <6> QED BY <6>1, <6>2, Zenon
          <5>2. c \in [Part -> Frame]
            <6>1. rcopy[r] \in [Part -> Frame]
              BY DEF ReaderOK
            <6> QED BY <5>1, <6>1
          <5>3. rcopy' = [rcopy EXCEPT ![r] = c]
            BY <2>6 DEF CopyPart
          <5> HIDE DEF c
          <5> QED BY <5>2, <5>3 DEF ReaderOK
        <4> QED BY <4>1, <4>2, <4>3 DEF ReaderOK
      <3> QED BY <3>1, <3>2, <3>3 DEF TypeOK
  <2>7. CASE RecheckSequence(r)
      <3>1. ControlOK' /\ SlotsOK' /\ WriterOK' /\ HistoryOK'
        BY <2>7 DEF RecheckSequence, ControlOK, SlotsOK, WriterOK, HistoryOK, control, slots, wlocals, history
      <3>2. PcOK'
        BY <2>7 DEF RecheckSequence, Goto, PcOK, WriterPC, ReaderPC, AttachPC
      <3>3. ReaderOK'
        <4>1. UNCHANGED <<rslot, rseq, rpart, rcopy, got>>
          BY <2>7 DEF RecheckSequence, ReaderOK
        <4>2. (outcome \in [Readers -> {"frame", "null", "retry"}])'
          BY <2>7 DEF RecheckSequence, ReaderOK
        <4> QED BY <4>1, <4>2 DEF ReaderOK
      <3> QED BY <3>1, <3>2, <3>3 DEF TypeOK
  <2>8. CASE Release(r)
      <3>1. SlotsOK' /\ WriterOK' /\ HistoryOK'
        BY <2>8 DEF Release, SlotsOK, WriterOK, HistoryOK, slots, wlocals, history
      <3>2. PcOK'
        BY <2>8 DEF Release, Goto, PcOK, WriterPC, ReaderPC, AttachPC
      <3>3. ControlOK'
        BY <2>8 DEF Release, ControlOK, control
      <3>4. ReaderOK'
        <4>1. (rslot \in [Readers -> Slots] /\ rseq \in [Readers -> Frame])'
          BY <2>8 DEF Release, ReaderOK, ForgetReaderLocals
        <4>2. (rpart \in [Readers -> Part])'
          BY <2>8 DEF Release, ReaderOK, ForgetReaderLocals
        <4>3. (rcopy \in [Readers -> [Part -> Frame]])'
          BY <2>8, NothingType DEF Release, ReaderOK, ForgetReaderLocals
        <4>4. (outcome \in [Readers -> {"frame", "null", "retry"}])'
          BY <2>8 DEF Release, ReaderOK, ForgetReaderLocals
        <4>5. (got \in [Readers -> [seq : Frame, parts : [Part -> Frame]]])'
          BY <2>8, NothingType DEF Release, ReaderOK
        <4> QED BY <4>1, <4>2, <4>3, <4>4, <4>5 DEF ReaderOK
      <3> QED BY <3>1, <3>2, <3>3, <3>4 DEF TypeOK
  <2>9. CASE CrashReader(r)
      <3>1. ControlOK' /\ SlotsOK' /\ WriterOK' /\ HistoryOK'
        BY <2>9 DEF CrashReader, ControlOK, SlotsOK, WriterOK, HistoryOK, control, slots, wlocals, history
      <3>2. PcOK'
        BY <2>9 DEF CrashReader, Goto, PcOK, WriterPC, ReaderPC, AttachPC
      <3>3. ReaderOK'
        <4>1. (rslot \in [Readers -> Slots] /\ rseq \in [Readers -> Frame])'
          BY <2>9 DEF CrashReader, ReaderOK, ForgetReaderLocals
        <4>2. (rpart \in [Readers -> Part])'
          BY <2>9 DEF CrashReader, ReaderOK, ForgetReaderLocals
        <4>3. (rcopy \in [Readers -> [Part -> Frame]])'
          BY <2>9, NothingType DEF CrashReader, ReaderOK, ForgetReaderLocals
        <4>4. (outcome \in [Readers -> {"frame", "null", "retry"}])'
          BY <2>9 DEF CrashReader, ReaderOK, ForgetReaderLocals
        <4>5. UNCHANGED got
          BY <2>9 DEF CrashReader, ReaderOK
        <4> QED BY <4>1, <4>2, <4>3, <4>4, <4>5 DEF ReaderOK
      <3> QED BY <3>1, <3>2, <3>3 DEF TypeOK
  <2> QED BY <1>8, <2>1, <2>2, <2>3, <2>4, <2>5, <2>6, <2>7, <2>8, <2>9 DEF AcquireStep
<1>9. CASE UNCHANGED vars
  BY <1>9 DEF vars, control, slots, wlocals, rlocals, history,
     ControlOK, SlotsOK, PcOK, WriterOK, ReaderOK, HistoryOK
<1> QED BY <1>1, <1>2, <1>3, <1>4, <1>5, <1>6, <1>7, <1>8, <1>9 DEF Next, CommitStep

\* Type correctness of the ring, whatever the number of readers and however
\* their constructors interleave.
THEOREM TypeCorrect == Spec => [](TypeOK /\ SequenceBound)
  BY TypeInit, SequenceStep, TypeStep, PTL DEF Spec

-----------------------------------------------------------------------------
(* One reader: the invariant, seen from the steps of the reader.            *)

\* What a reader does leaves the writer's part of the invariant alone: it only
\* moves its own program counter and the mark.
LEMMA ReaderKeepsWriter ==
  ASSUME TypeOK, InitialisedAlone, WriterInv, NewestIntact,
         NEW r \in Readers, Acquire(r) \/ AcquireStep(r) \/ CrashReader(r)
  PROVE  InitialisedAlone' /\ WriterInv' /\ NewestIntact'
<1>1. UNCHANGED <<magic, newest, seq, data, wnewest, wslot, wpart, begun, stored>>
  BY DEF Acquire, AcquireStep, CrashReader, LoadNewest, MarkSlot, LoadSequence,
     CheckNewest, CopyPart, RecheckSequence, Release, control, slots, wlocals, history
<1>2. /\ \A u \in Threads : u # r => pc'[u] = pc[u]
      /\ ~(pc'[r] \in {"setmagic", "setnewest", "setreader"})
      /\ pc'[r] # "new" => pc[r] \notin {"new", "setmagic"}
  <2>1. CASE CrashReader(r)
    BY <2>1 DEF CrashReader, TypeOK, PcOK
  <2>2. CASE Acquire(r)
    BY <2>2 DEF Acquire, Goto, TypeOK, PcOK
  <2>3. CASE LoadNewest(r) \/ MarkSlot(r) \/ LoadSequence(r)
    BY <2>3 DEF LoadNewest, MarkSlot, LoadSequence, Goto, TypeOK, PcOK
  <2>4. CASE CheckNewest(r) \/ CopyPart(r)
    BY <2>4 DEF CheckNewest, CopyPart, Goto, TypeOK, PcOK
  <2>5. CASE RecheckSequence(r) \/ Release(r)
    BY <2>5 DEF RecheckSequence, Release, Goto, TypeOK, PcOK
  <2> QED BY <2>1, <2>2, <2>3, <2>4, <2>5 DEF AcquireStep
<1>3. pc'[Writer] = pc[Writer]
  BY <1>2
<1>4. InitialisedAlone'
  BY <1>1, <1>2, Zenon DEF InitialisedAlone, Initialising
<1>5. WriterInv'
  BY <1>1, <1>3 DEF WriterInv, Filling, Intact
<1>6. NewestIntact'
  BY <1>1 DEF NewestIntact, Intact
<1> QED BY <1>4, <1>5, <1>6

\* The reader's own part of the invariant.  The slots, the newest index and the
\* stored frames stand still, so each case is about the locals it changes.
LEMMA ReaderKeepsReader ==
  ASSUME OneReader, TypeOK, WriterInv, NewestIntact, NEW r \in Readers,
         MarkInv(r), CopyInv(r), FreshInv(r), GotInv(r),
         Acquire(r) \/ AcquireStep(r) \/ CrashReader(r)
  PROVE  MarkInv(r)' /\ CopyInv(r)' /\ FreshInv(r)' /\ GotInv(r)'
<1>1. /\ UNCHANGED <<newest, seq, data, wslot, stored>>
      /\ pc'[Writer] = pc[Writer]
  <2>1. UNCHANGED <<newest, seq, data, wslot, stored>>
    BY DEF Acquire, AcquireStep, CrashReader, LoadNewest, MarkSlot, LoadSequence,
     CheckNewest, CopyPart, RecheckSequence, Release, control, slots, wlocals, history
  <2>2. pc'[Writer] = pc[Writer]
    BY DEF Acquire, AcquireStep, CrashReader, LoadNewest, MarkSlot, LoadSequence,
     CheckNewest, CopyPart, RecheckSequence, Release, Goto, TypeOK, PcOK
  <2> QED BY <2>1, <2>2
<1>2. /\ Latest' = Latest /\ Filling' = Filling
      /\ \A s \in Slots : Intact(s)' = Intact(s)
  BY <1>1 DEF Latest, Filling, Intact
<1>3. /\ rslot[r] \in Slots /\ seq \in [Slots -> Frame] /\ rpart[r] \in Part
      /\ rseq[r] \in Frame /\ floor[r] \in Frame /\ got[r].seq \in Frame
      /\ Latest \in Frame
  <2>1. rslot[r] \in Slots /\ seq \in [Slots -> Frame] /\ rpart[r] \in Part
    BY DEF TypeOK, ReaderOK, SlotsOK
  <2>2. rseq[r] \in Frame /\ floor[r] \in Frame /\ got[r].seq \in Frame
    BY DEF TypeOK, ReaderOK, HistoryOK
  <2>3. Latest \in Frame
    BY <2>1, FirstIsPart DEF Latest
  <2> QED BY <2>1, <2>2, <2>3
<1> USE DEF Goto, Acquiring
<1>4. CASE Acquire(r)
  <2>1. pc[r] = "idle" /\ pc'[r] = "load" /\ floor'[r] = Latest /\ got' = got
    BY <1>4 DEF Acquire, rlocals, TypeOK, PcOK, HistoryOK
  <2> QED BY <1>1, <1>2, <1>3, <2>1 DEF MarkInv, CopyInv, FreshInv, GotInv
<1>5. CASE LoadNewest(r)
  <2>1. CASE newest \in Slots
    <3>1. pc[r] = "load" /\ pc'[r] = "mark" /\ rslot'[r] = newest
      BY <1>5, <2>1 DEF LoadNewest, TypeOK, PcOK, ReaderOK
    <3>2. UNCHANGED <<got, floor>>
      BY <1>5, <2>1 DEF LoadNewest, history
    <3> QED BY <1>1, <1>2, <1>3, <2>1, <3>1, <3>2 DEF MarkInv, CopyInv, FreshInv, GotInv, Latest
  <2>2. CASE newest \notin Slots
    <3>1. pc[r] = "load" /\ pc'[r] = "idle" /\ got'[r] = Nothing
      BY <1>5, <2>2 DEF LoadNewest, TypeOK, PcOK, ReaderOK
    <3>2. Nothing.seq = 0 /\ got'[r].seq = 0
      BY <3>1 DEF Nothing
    <3> QED BY <1>1, <1>2, <1>3, <3>1, <3>2 DEF MarkInv, CopyInv, FreshInv, GotInv
  <2> QED BY <2>1, <2>2
<1>6. CASE MarkSlot(r)
  <2>1. pc[r] = "mark" /\ pc'[r] = "loadseq" /\ reader' = rslot[r]
    BY <1>6 DEF MarkSlot, TypeOK, PcOK
  <2>2. UNCHANGED <<rslot, got, floor>>
    BY <1>6 DEF MarkSlot, rlocals, history
  <2> QED BY <1>1, <1>2, <1>3, <2>1, <2>2 DEF MarkInv, CopyInv, FreshInv, GotInv
<1>7. CASE LoadSequence(r)
  <2>1. pc[r] = "loadseq" /\ rseq'[r] = seq[rslot[r]] /\ UNCHANGED <<reader, rslot, got, floor>>
    BY <1>7 DEF LoadSequence, TypeOK, PcOK, ReaderOK, control, history
  <2>2. CASE seq[rslot[r]] = 0
    <3>1. pc'[r] = "release" /\ outcome'[r] = "null"
      BY <1>7, <2>2 DEF LoadSequence, TypeOK, PcOK, ReaderOK
    <3> QED BY <1>1, <1>2, <1>3, <2>1, <2>2, <3>1 DEF MarkInv, CopyInv, FreshInv, GotInv
  <2>3. CASE seq[rslot[r]] # 0
    <3>1. pc'[r] = "check"
      BY <1>7, <2>3 DEF LoadSequence, TypeOK, PcOK
    <3> QED BY <1>1, <1>2, <1>3, <2>1, <2>3, <3>1 DEF MarkInv, CopyInv, FreshInv, GotInv
  <2> QED BY <2>2, <2>3
<1>8. CASE CheckNewest(r)
  <2>1. pc[r] = "check" /\ UNCHANGED <<reader, rslot, rseq, got, floor>>
    BY <1>8 DEF CheckNewest, control, history
  <2>2. CASE newest = rslot[r]
    <3>1. pc'[r] = "copy" /\ rpart'[r] = 1
      BY <1>8, <2>2 DEF CheckNewest, TypeOK, PcOK, ReaderOK
    <3>2. Intact(rslot[r]) /\ Latest = seq[rslot[r]] /\ (Filling => wslot # rslot[r])
      BY <1>3, <2>1, <2>2 DEF NewestIntact, MarkInv, Latest, WriterInv
    <3> QED BY <1>1, <1>2, <1>3, <2>1, <2>2, <3>1, <3>2 DEF MarkInv, CopyInv, FreshInv, GotInv
  <2>3. CASE newest # rslot[r]
    <3>1. pc'[r] = "release" /\ outcome'[r] = "retry"
      BY <1>8, <2>3 DEF CheckNewest, TypeOK, PcOK, ReaderOK
    <3> QED BY <1>1, <1>2, <1>3, <2>1, <3>1 DEF MarkInv, CopyInv, FreshInv, GotInv
  <2> QED BY <2>2, <2>3
<1>9. CASE CopyPart(r)
  <2>1. /\ pc[r] = "copy" /\ UNCHANGED <<reader, rslot, rseq, got, floor>>
        /\ rcopy'[r] = [rcopy[r] EXCEPT ![rpart[r]] = data[rslot[r]][rpart[r]]]
    BY <1>9 DEF CopyPart, control, history, TypeOK, ReaderOK
  <2>2. /\ \A p \in Part : p < rpart[r] => rcopy'[r][p] = rcopy[r][p]
        /\ rcopy'[r][rpart[r]] = stored[seq[rslot[r]]]
    <3>1. rcopy[r] \in [Part -> Frame] /\ Intact(rslot[r])
      BY <2>1 DEF TypeOK, ReaderOK, MarkInv
    <3> QED BY <1>3, <2>1, <3>1 DEF Intact
  <2>3. CASE rpart[r] = Parts
    <3>1. pc'[r] = "recheck"
      BY <1>9, <2>3 DEF CopyPart, TypeOK, PcOK
    <3>2. \A p \in Part : rcopy'[r][p] = stored[seq[rslot[r]]]
      BY <1>3, <2>1, <2>2, <2>3 DEF CopyInv
    <3> QED BY <1>1, <1>2, <1>3, <2>1, <3>1, <3>2 DEF MarkInv, CopyInv, FreshInv, GotInv
  <2>4. CASE rpart[r] # Parts
    <3>1. pc'[r] = "copy" /\ rpart'[r] = rpart[r] + 1
      BY <1>9, <2>4 DEF CopyPart, TypeOK, PcOK, ReaderOK
    <3>2. \A p \in Part : p < rpart'[r] => rcopy'[r][p] = stored[seq[rslot[r]]]
      BY <1>3, <2>1, <2>2, <3>1 DEF CopyInv
    <3> QED BY <1>1, <1>2, <1>3, <2>1, <3>1, <3>2 DEF MarkInv, CopyInv, FreshInv, GotInv
  <2> QED BY <2>3, <2>4
<1>10. CASE RecheckSequence(r)
  <2>1. pc[r] = "recheck" /\ pc'[r] = "release" /\ UNCHANGED <<rslot, rseq, rcopy, got, floor>>
    BY <1>10 DEF RecheckSequence, history, TypeOK, PcOK
  <2>2. outcome'[r] = IF seq[rslot[r]] = rseq[r] THEN "frame" ELSE "retry"
    BY <1>10 DEF RecheckSequence, TypeOK, ReaderOK
  <2> QED BY <1>1, <1>2, <1>3, <2>1, <2>2 DEF MarkInv, CopyInv, FreshInv, GotInv
<1>11. CASE Release(r)
  <2>1. pc[r] = "release" /\ floor' = floor /\ pc'[r] \in {"load", "idle"}
    BY <1>11 DEF Release, history, TypeOK, PcOK
  <2>2. CASE outcome[r] = "frame"
    <3>1. pc'[r] = "idle" /\ got'[r] = [seq |-> rseq[r], parts |-> rcopy[r]]
      BY <1>11, <2>2 DEF Release, TypeOK, PcOK, ReaderOK
    <3>2. got'[r].seq = rseq[r] /\ got'[r].parts = rcopy[r]
      BY <3>1
    <3> QED BY <1>1, <1>2, <1>3, <2>1, <2>2, <3>1, <3>2 DEF MarkInv, CopyInv, FreshInv, GotInv
  <2>3. CASE outcome[r] = "null"
    <3>1. pc'[r] = "idle" /\ got'[r] = Nothing
      BY <1>11, <2>3 DEF Release, TypeOK, PcOK, ReaderOK
    <3>2. got'[r].seq = 0
      BY <3>1 DEF Nothing
    <3> QED BY <1>1, <1>2, <1>3, <2>1, <3>1, <3>2 DEF MarkInv, CopyInv, FreshInv, GotInv
  <2>4. CASE outcome[r] = "retry"
    <3>1. pc'[r] = "load" /\ got'[r] = got[r]
      BY <1>11, <2>4 DEF Release, TypeOK, PcOK, ReaderOK
    <3> QED BY <1>1, <1>2, <1>3, <2>1, <3>1 DEF MarkInv, CopyInv, FreshInv, GotInv
  <2> QED BY <2>2, <2>3, <2>4 DEF TypeOK, ReaderOK
<1>12. CASE CrashReader(r)
  <2>1. pc'[r] = "new" /\ UNCHANGED <<got, floor>>
    BY <1>12 DEF CrashReader, history, TypeOK, PcOK
  <2> QED BY <1>1, <1>2, <1>3, <2>1 DEF MarkInv, CopyInv, FreshInv, GotInv
<1> QED BY <1>4, <1>5, <1>6, <1>7, <1>8, <1>9, <1>10, <1>11, <1>12 DEF AcquireStep

-----------------------------------------------------------------------------
(* ... from the steps of the writer.                                        *)

\* Locals of the readers, their marks and their program counters stand still
\* while the writer moves.
LEMMA WriterFrame ==
  ASSUME TypeOK, BeginWriteNewest \/ CommitStep \/ CrashWriter
  PROVE  /\ UNCHANGED <<magic, reader, rslot, rseq, rpart, rcopy, outcome, got, floor>>
         /\ \A u \in Readers : pc'[u] = pc[u]
<1>1. UNCHANGED <<magic, reader, rslot, rseq, rpart, rcopy, outcome, got, floor>>
  BY DEF BeginWriteNewest, CommitStep, CrashWriter, ChooseSlot, WritePart, StoreSequence,
     StoreNewest, control, rlocals, history
<1>2. \A u \in Readers : pc'[u] = pc[u]
  BY DEF BeginWriteNewest, CommitStep, CrashWriter, ChooseSlot, WritePart, StoreSequence,
     StoreNewest, Goto, TypeOK, PcOK
<1> QED BY <1>1, <1>2

\* What StoreSequence does: the slot it fills gets a number no slot has.
LEMMA StoreSequenceEffect ==
  ASSUME TypeOK, SequenceBound, StoreSequence
  PROVE  /\ pc[Writer] = "sequence" /\ pc'[Writer] = "publish"
         /\ UNCHANGED <<newest, data, wnewest, wslot, wpart, begun>>
         /\ \E top \in 1 .. MaxFrames :
              /\ \A s \in Slots : seq[s] < top
              /\ seq' = [seq EXCEPT ![wslot] = top]
              /\ stored' = [stored EXCEPT ![top] = begun]
<1>1. pc[Writer] = "sequence" /\ pc'[Writer] = "publish"
  BY DEF StoreSequence, Goto, TypeOK, PcOK
<1>2. UNCHANGED <<newest, data, wnewest, wslot, wpart, begun>>
  BY DEF StoreSequence, control, wlocals
<1>3. PICK m \in Slots : /\ \A s \in Slots : seq[s] <= seq[m]
                         /\ seq' = [seq EXCEPT ![wslot] = seq[m] + 1]
                         /\ stored' = [stored EXCEPT ![seq[m] + 1] = begun]
  BY DEF StoreSequence
<1>4. \A s \in Slots : seq[s] \in Frame
  BY DEF TypeOK, SlotsOK
<1>5. seq[m] < begun /\ begun \in Frame
  BY <1>1 DEF SequenceBound, TypeOK, WriterOK
<1>6. seq[m] + 1 \in 1 .. MaxFrames /\ \A s \in Slots : seq[s] < seq[m] + 1
  BY <1>3, <1>4, <1>5
<1> QED BY <1>1, <1>2, <1>3, <1>6

\* BeginWrite and Commit keep the writer's part: the slot chosen is neither the
\* newest nor the marked one, and it is published with its words complete.
LEMMA WriterKeepsWriter ==
  ASSUME TypeOK, SequenceBound, InitialisedAlone, WriterInv, NewestIntact,
         BeginWriteNewest \/ CommitStep \/ CrashWriter
  PROVE  InitialisedAlone' /\ WriterInv' /\ NewestIntact'
<1>1. magic' = magic /\ \A u \in Threads : u # Writer => pc'[u] = pc[u]
  BY WriterFrame
<1>0. wpart \in Part /\ wslot \in Slots /\ data \in [Slots -> [Part -> Frame]]
      /\ seq \in [Slots -> Frame] /\ stored \in [1 .. MaxFrames -> Frame]
  BY DEF TypeOK, WriterOK, SlotsOK, HistoryOK
<1>2. CASE BeginWriteNewest
  <2>1. /\ pc[Writer] = "idle" /\ pc'[Writer] = "choose" /\ wnewest' = newest
        /\ UNCHANGED <<newest, seq, data, stored>>
    BY <1>2 DEF BeginWriteNewest, Goto, control, slots, history, TypeOK, PcOK
  <2>2. InitialisedAlone'
    BY <1>1, <2>1, Zenon DEF InitialisedAlone, Initialising
  <2> QED BY <2>1, <2>2 DEF WriterInv, NewestIntact, Filling, Intact
<1>3. CASE ChooseSlot
  <2>1. /\ pc[Writer] = "choose" /\ pc'[Writer] = "write"
        /\ wslot' # wnewest /\ wpart' = 1
        /\ UNCHANGED <<newest, seq, data, stored>>
    BY <1>3 DEF ChooseSlot, Goto, control, slots, history, TypeOK, PcOK
  <2>2. InitialisedAlone'
    BY <1>1, <2>1, Zenon DEF InitialisedAlone, Initialising
  <2> QED BY <2>1, <2>2 DEF WriterInv, NewestIntact, Filling, Intact
<1>4. CASE WritePart
  <2>1. /\ pc[Writer] = "write"
        /\ UNCHANGED <<newest, seq, stored, wslot, begun>>
        /\ data' = [data EXCEPT ![wslot] = [data[wslot] EXCEPT ![wpart] = begun]]
    BY <1>4 DEF WritePart, Goto, control, history, TypeOK, SlotsOK
  <2>2. /\ \A s \in Slots : s # wslot => data'[s] = data[s]
        /\ data'[wslot] = [data[wslot] EXCEPT ![wpart] = begun]
    BY <1>0, <2>1
  <2>3. \A p \in Part : data'[wslot][p] = IF p = wpart THEN begun ELSE data[wslot][p]
    BY <1>0, <2>2
  <2>4. \A p \in Part : p < wpart => data[wslot][p] = begun
    BY <2>1 DEF WriterInv
  <2>5. wslot # newest
    BY <2>1 DEF WriterInv, Filling
  <2>6. NewestIntact'
    BY <2>1, <2>2, <2>5 DEF NewestIntact, Intact
  <2>7. CASE wpart = Parts
    <3>1. pc'[Writer] = "sequence"
      BY <1>4, <2>7 DEF WritePart, Goto, TypeOK, PcOK
    <3>2. \A p \in Part : data'[wslot][p] = begun
      <4>1. \A p \in Part : p = wpart \/ p < wpart
        BY <2>7
      <4> QED BY <2>3, <2>4, <4>1
    <3>3. WriterInv'
      BY <2>1, <2>5, <3>1, <3>2 DEF WriterInv, Filling
    <3>4. InitialisedAlone'
      BY <1>1, <2>1, <3>1, Zenon DEF InitialisedAlone, Initialising
    <3> QED BY <2>6, <3>3, <3>4
  <2>8. CASE wpart # Parts
    <3>1. pc'[Writer] = "write" /\ wpart' = wpart + 1
      BY <1>4, <2>8 DEF WritePart, Goto, TypeOK, PcOK
    <3>2. \A p \in Part : p < wpart' => data'[wslot][p] = begun
      <4>1. wpart \in Part
        BY <1>0
      <4>2. \A p \in Part : p < wpart' => p = wpart \/ p < wpart
        BY <3>1, <4>1
      <4> QED BY <2>3, <2>4, <4>2
    <3>3. WriterInv'
      BY <2>1, <2>5, <3>1, <3>2 DEF WriterInv, Filling
    <3>4. InitialisedAlone'
      BY <1>1, <2>1, <3>1, Zenon DEF InitialisedAlone, Initialising
    <3> QED BY <2>6, <3>3, <3>4
  <2> QED BY <2>7, <2>8
<1>5. CASE StoreSequence
  <2>1. /\ pc[Writer] = "sequence" /\ pc'[Writer] = "publish"
        /\ UNCHANGED <<newest, data, wnewest, wslot, wpart, begun>>
    BY <1>5, StoreSequenceEffect
  <2>2. PICK top \in 1 .. MaxFrames :
          /\ \A s \in Slots : seq[s] < top
          /\ seq' = [seq EXCEPT ![wslot] = top]
          /\ stored' = [stored EXCEPT ![top] = begun]
    BY <1>5, StoreSequenceEffect
  <2>3. wslot # newest /\ \A p \in Part : data[wslot][p] = begun
    BY <2>1 DEF WriterInv, Filling
  <2>4. /\ seq'[wslot] = top /\ stored'[top] = begun
        /\ \A s \in Slots : s # wslot => seq'[s] = seq[s]
        /\ \A n \in 1 .. MaxFrames : n # top => stored'[n] = stored[n]
    BY <1>0, <2>2
  <2>5. WriterInv'
    <3>1. Intact(wslot)'
      BY <2>1, <2>3, <2>4 DEF Intact
    <3>2. ASSUME NEW s \in Slots PROVE seq'[s] <= top
      <4>1. seq[s] \in Frame /\ seq[s] < top
        BY <1>0, <2>2, Zenon
      <4>2. CASE s = wslot
        BY <2>4, <4>2
      <4>3. CASE s # wslot
        BY <2>4, <4>1, <4>3
      <4> QED BY <4>2, <4>3
    <3> QED BY <2>1, <2>3, <2>4, <3>1, <3>2 DEF WriterInv, Filling
  <2>6. NewestIntact'
    <3> SUFFICES ASSUME newest \in Slots, seq[newest] > 0
                 PROVE  Intact(newest)'
      BY <2>1, <2>3, <2>4 DEF NewestIntact
    <3>0. seq[newest] \in Frame /\ seq[newest] < top
      BY <1>0, <2>2, Zenon
    <3>1. seq[newest] \in 1 .. MaxFrames /\ seq[newest] # top
      BY <3>0
    <3>2. seq'[newest] = seq[newest] /\ stored'[seq[newest]] = stored[seq[newest]]
      BY <2>3, <2>4, <3>1
    <3> QED BY <2>1, <3>2 DEF NewestIntact, Intact
  <2>7. InitialisedAlone'
    BY <1>1, <2>1, Zenon DEF InitialisedAlone, Initialising
  <2> QED BY <2>5, <2>6, <2>7
<1>6. CASE StoreNewest
  <2>1. /\ pc[Writer] = "publish" /\ pc'[Writer] = "idle" /\ newest' = wslot
        /\ UNCHANGED <<seq, data, stored>>
    BY <1>6 DEF StoreNewest, Goto, slots, history, TypeOK, PcOK
  <2>2. InitialisedAlone'
    BY <1>1, <2>1, Zenon DEF InitialisedAlone, Initialising
  <2>3. Intact(wslot)
    BY <2>1 DEF WriterInv
  <2> QED BY <2>1, <2>2, <2>3 DEF WriterInv, NewestIntact, Filling, Intact
<1>7. CASE CrashWriter
  <2>1. /\ pc[Writer] # "new" /\ pc'[Writer] = "new" /\ UNCHANGED <<newest, seq, data, stored>>
    BY <1>7 DEF CrashWriter, control, slots, history, TypeOK, PcOK
  <2>2. InitialisedAlone'
    BY <1>1, <2>1, Zenon DEF InitialisedAlone, Initialising
  <2> QED BY <2>1, <2>2 DEF WriterInv, NewestIntact, Filling, Intact
<1> QED BY <1>2, <1>3, <1>4, <1>5, <1>6, <1>7 DEF CommitStep

\* The words, the sequence and the stored frame a reader relies on are out of
\* the writer's reach; the newest sequence only grows.
LEMMA WriterKeepsReader ==
  ASSUME TypeOK, SequenceBound, WriterInv, NEW r \in Readers,
         MarkInv(r), CopyInv(r), FreshInv(r), GotInv(r),
         BeginWriteNewest \/ CommitStep \/ CrashWriter
  PROVE  MarkInv(r)' /\ CopyInv(r)' /\ FreshInv(r)' /\ GotInv(r)'
<1> USE DEF Acquiring
<1>1. /\ UNCHANGED <<reader, rslot, rseq, rpart, rcopy, outcome, got, floor>>
      /\ pc'[r] = pc[r]
  BY WriterFrame
<1>2. rslot[r] \in Slots /\ wslot \in Slots /\ newest \in Slots \cup {NoSlot}
      /\ rseq[r] \in Frame /\ floor[r] \in Frame /\ got[r].seq \in Frame
  BY DEF TypeOK, ReaderOK, WriterOK, ControlOK, HistoryOK
<1>3. \A s \in Slots : seq[s] \in Frame
  BY DEF TypeOK, SlotsOK
<1>4. Latest \in Frame
  BY <1>2, <1>3, FirstIsPart DEF Latest
<1>5. CASE BeginWriteNewest
  <2>1. UNCHANGED <<newest, seq, data, stored>> /\ pc'[Writer] = "choose"
    BY <1>5 DEF BeginWriteNewest, Goto, control, slots, history, TypeOK, PcOK
  <2> QED BY <1>1, <1>4, <2>1 DEF MarkInv, CopyInv, FreshInv, GotInv, Filling, Intact, Latest
<1>6. CASE ChooseSlot
  <2>1. UNCHANGED <<newest, seq, data, stored>> /\ wslot' # reader
    BY <1>6 DEF ChooseSlot, control, slots, history
  <2> QED BY <1>1, <1>4, <2>1 DEF MarkInv, CopyInv, FreshInv, GotInv, Intact, Latest
<1>7. CASE WritePart
  <2>1. /\ UNCHANGED <<newest, seq, stored, wslot>> /\ pc[Writer] = "write"
        /\ \A s \in Slots : s # wslot => data'[s] = data[s]
    BY <1>7 DEF WritePart, Goto, control, history, TypeOK, SlotsOK
  <2>2. MarkInv(r)'
    BY <1>1, <1>2, <2>1 DEF MarkInv, Filling, Intact, Latest
  <2> QED BY <1>1, <1>4, <2>1, <2>2 DEF CopyInv, FreshInv, GotInv, Latest
<1>8. CASE StoreSequence
  <2>1. /\ pc[Writer] = "sequence" /\ UNCHANGED <<newest, data, wslot>>
    BY <1>8, StoreSequenceEffect
  <2>2. PICK top \in 1 .. MaxFrames :
          /\ \A s \in Slots : seq[s] < top
          /\ seq' = [seq EXCEPT ![wslot] = top]
          /\ stored' = [stored EXCEPT ![top] = begun]
    BY <1>8, StoreSequenceEffect
  <2>3. /\ seq'[wslot] = top
        /\ \A s \in Slots : s # wslot => seq'[s] = seq[s]
        /\ \A n \in 1 .. MaxFrames : n # top => stored'[n] = stored[n]
    BY <1>2, <2>2 DEF TypeOK, SlotsOK, HistoryOK
  <2>4. Latest' = Latest /\ Latest < top
    <3>1. wslot # newest
      BY <2>1 DEF WriterInv, Filling
    <3> QED BY <1>2, <2>1, <2>2, <2>3, <3>1 DEF Latest
  <2>5. \A s \in Slots : seq[s] <= seq'[s]
    <3> SUFFICES ASSUME NEW s \in Slots PROVE seq[s] <= seq'[s]
      OBVIOUS
    <3>1. seq[s] \in Frame /\ seq[s] < top
      BY <1>3, <2>2, Zenon
    <3>2. CASE s = wslot
      BY <2>3, <3>1, <3>2
    <3>3. CASE s # wslot
      BY <2>3, <3>1, <3>3
    <3> QED BY <3>2, <3>3
  <2>6. seq[rslot[r]] \in Frame /\ seq'[rslot[r]] \in Frame /\ seq[rslot[r]] < top
    <3>1. seq[rslot[r]] \in Frame /\ seq[rslot[r]] < top
      BY <1>2, <1>3, <2>2, Zenon
    <3>2. CASE rslot[r] = wslot
      BY <2>3, <3>1, <3>2
    <3>3. CASE rslot[r] # wslot
      BY <1>2, <2>3, <3>1, <3>3
    <3> QED BY <3>1, <3>2, <3>3
  <2>7. pc[r] \in {"copy", "recheck"} =>
          /\ seq'[rslot[r]] = seq[rslot[r]]
          /\ stored'[seq[rslot[r]]] = stored[seq[rslot[r]]]
          /\ wslot # rslot[r]
    <3> SUFFICES ASSUME pc[r] \in {"copy", "recheck"}
                 PROVE  /\ seq'[rslot[r]] = seq[rslot[r]]
                        /\ stored'[seq[rslot[r]]] = stored[seq[rslot[r]]]
                        /\ wslot # rslot[r]
      OBVIOUS
    <3>1. wslot # rslot[r] /\ 0 < rseq[r] /\ rseq[r] <= seq[rslot[r]]
      BY <2>1 DEF MarkInv, Filling
    <3>2. seq[rslot[r]] \in 1 .. MaxFrames /\ seq[rslot[r]] # top
      BY <1>2, <2>6, <3>1
    <3> QED BY <1>2, <2>3, <3>1, <3>2
  <2>8. MarkInv(r)'
    <3>1. rseq[r] <= seq[rslot[r]] => rseq[r] <= seq'[rslot[r]]
      BY <1>2, <2>5, <2>6
    <3> QED BY <1>1, <2>1, <2>4, <2>7, <3>1 DEF MarkInv, Intact
  <2>9. FreshInv(r)'
    <3>1. floor[r] <= seq[rslot[r]] => floor[r] <= seq'[rslot[r]]
      BY <1>2, <2>5, <2>6
    <3> QED BY <1>1, <2>4, <3>1 DEF FreshInv
  <2>10. CopyInv(r)'
    <3>1. 0 < rseq[r] /\ rseq[r] <= Latest => stored'[rseq[r]] = stored[rseq[r]]
      BY <1>2, <1>4, <2>2, <2>3, <2>4
    <3> QED BY <1>1, <2>4, <2>7, <3>1 DEF CopyInv
  <2>11. GotInv(r)'
    <3>1. got[r].seq # 0 => stored'[got[r].seq] = stored[got[r].seq]
      <4>1. got[r].seq <= Latest
        BY DEF GotInv
      <4> QED BY <1>2, <1>4, <2>2, <2>3, <2>4, <4>1
    <3> QED BY <1>1, <2>4, <3>1 DEF GotInv
  <2> QED BY <1>4, <2>4, <2>8, <2>9, <2>10, <2>11
<1>9. CASE StoreNewest
  <2>1. /\ pc[Writer] = "publish" /\ pc'[Writer] = "idle" /\ newest' = wslot
        /\ UNCHANGED <<seq, data, stored>>
    BY <1>9 DEF StoreNewest, Goto, slots, history, TypeOK, PcOK
  <2>2. Latest' >= Latest /\ Latest' \in Frame
    <3>1. Latest' = seq[wslot] /\ \A s \in Slots : seq[s] <= seq[wslot]
      BY <1>2, <2>1 DEF Latest, WriterInv
    <3> QED BY <1>2, <1>3, <3>1 DEF Latest
  <2>3. seq[rslot[r]] \in Frame
    BY <1>2, <1>3
  <2> QED BY <1>1, <1>2, <1>4, <2>1, <2>2, <2>3 DEF MarkInv, CopyInv, FreshInv, GotInv, Filling, Intact
<1>10. CASE CrashWriter
  <2>1. UNCHANGED <<newest, seq, data, stored>> /\ pc'[Writer] = "new"
    BY <1>10 DEF CrashWriter, control, slots, history, TypeOK, PcOK
  <2> QED BY <1>1, <1>4, <2>1 DEF MarkInv, CopyInv, FreshInv, GotInv, Filling, Intact, Latest
<1> QED BY <1>5, <1>6, <1>7, <1>8, <1>9, <1>10 DEF CommitStep

-----------------------------------------------------------------------------
(* ... and from the constructors.                                           *)

\* Initialising the control block happens before any frame or any call.
LEMMA ConstructKeepsAll ==
  ASSUME SerialAttach, TypeOK, InitialisedAlone, WriterInv, NewestIntact,
         \A r \in Readers : MarkInv(r) /\ CopyInv(r) /\ FreshInv(r) /\ GotInv(r),
         NEW t \in Threads, Construct(t)
  PROVE  /\ InitialisedAlone' /\ WriterInv' /\ NewestIntact'
         /\ \A r \in Readers : MarkInv(r)' /\ CopyInv(r)' /\ FreshInv(r)' /\ GotInv(r)'
         /\ Latest' = Latest
<1> USE DEF Acquiring
<1>1. /\ UNCHANGED <<seq, data, wnewest, wslot, wpart, begun, stored>>
      /\ UNCHANGED <<rslot, rseq, rpart, rcopy, outcome, got, floor>>
      /\ \A u \in Threads : u # t => pc'[u] = pc[u]
  BY DEF Construct, Attach, SetMagic, SetNewest, SetReader, Goto, slots, wlocals,
     rlocals, history, TypeOK, PcOK
<1>2. pc[t] \in {"new", "setmagic", "setnewest", "setreader"}
      /\ pc'[t] \in {"idle", "setmagic", "setnewest", "setreader"}
  BY DEF Construct, Attach, SetMagic, SetNewest, SetReader, Goto, TypeOK, PcOK
<1>3. CASE Attach(t)
  <2>1. UNCHANGED <<magic, newest, reader>>
    BY <1>3 DEF Attach, control
  <2>2. InitialisedAlone'
    <3>1. pc[t] = "new" /\ \A u \in Threads : ~Initialising(u)
      BY <1>3 DEF Attach, Goto
    <3>2. CASE magic
      <4>1. pc'[t] = "idle"
        BY <1>3, <3>2 DEF Attach, Goto, TypeOK, PcOK
      <4> QED BY <1>1, <2>1, <3>1, <3>2, <4>1, Zenon DEF InitialisedAlone, Initialising
    <3>3. CASE ~magic
      <4>1. pc'[t] = "setmagic"
        BY <1>3, <3>3 DEF Attach, Goto, TypeOK, PcOK
      <4>2. \A u \in Threads : pc[u] = "new"
        BY <3>1, <3>3 DEF InitialisedAlone, Initialising
      <4> QED BY <1>1, <2>1, <3>3, <4>1, <4>2 DEF InitialisedAlone, Initialising
    <3> QED BY <3>2, <3>3
  <2>3. WriterInv'
    BY <1>1, <1>2, <2>1 DEF WriterInv, Filling, Intact
  <2>4. NewestIntact' /\ Latest' = Latest
    BY <1>1, <2>1 DEF NewestIntact, Intact, Latest
  <2>5. ASSUME NEW r \in Readers PROVE MarkInv(r)' /\ CopyInv(r)' /\ FreshInv(r)' /\ GotInv(r)'
    <3>1. Filling' => Filling
      BY <1>1, <1>2 DEF Filling
    <3>2. MarkInv(r) /\ CopyInv(r) /\ FreshInv(r) /\ GotInv(r)
      OBVIOUS
    <3>3. CASE r = t
      BY <1>1, <1>2, <2>1, <2>4, <3>2, <3>3 DEF MarkInv, CopyInv, FreshInv, GotInv
    <3>4. CASE r # t
      BY <1>1, <2>1, <2>4, <3>1, <3>2, <3>4 DEF MarkInv, CopyInv, FreshInv, GotInv, Intact
    <3> QED BY <3>3, <3>4
  <2> QED BY <2>2, <2>3, <2>4, <2>5
<1>4. CASE SetMagic(t) \/ SetNewest(t) \/ SetReader(t)
  <2>1. Initialising(t)
    BY <1>4 DEF SetMagic, SetNewest, SetReader, Goto, Initialising
  <2>2. /\ \A u \in Threads : u # t => pc[u] = "new" /\ pc'[u] = "new"
        /\ \A s \in Slots : seq[s] = 0
    BY <1>1, <2>1 DEF InitialisedAlone
  <2>3. newest' \in Slots \cup {NoSlot} /\ newest \in Slots \cup {NoSlot}
    BY <1>4 DEF SetMagic, SetNewest, SetReader, TypeOK, ControlOK
  <2>4. Latest = 0 /\ Latest' = 0
    BY <1>1, <2>2, <2>3 DEF Latest
  <2>5. InitialisedAlone'
    <3>1. pc'[t] # "new" /\ pc'[t] # "setmagic"
      BY <1>4 DEF SetMagic, SetNewest, SetReader, Goto, TypeOK, PcOK
    <3>2. CASE SetMagic(t)
      BY <1>1, <2>2, <3>2 DEF SetMagic, InitialisedAlone, Initialising
    <3>3. CASE SetNewest(t) \/ SetReader(t)
      <4>1. magic' = magic /\ pc[t] \in {"setnewest", "setreader"}
        BY <3>3 DEF SetNewest, SetReader, Goto
      <4>2. magic
        BY <4>1 DEF InitialisedAlone
      <4> QED BY <1>1, <2>2, <4>1, <4>2 DEF InitialisedAlone, Initialising
    <3> QED BY <1>4, <3>2, <3>3
  <2>6. WriterInv'
    BY <1>2, <2>2 DEF WriterInv, Filling
  <2>7. NewestIntact'
    BY <1>1, <2>2 DEF NewestIntact
  <2>8. ASSUME NEW r \in Readers PROVE MarkInv(r)' /\ CopyInv(r)' /\ FreshInv(r)' /\ GotInv(r)'
    <3>1. pc'[r] \in {"new", "idle", "setmagic", "setnewest", "setreader"}
      BY <1>2, <2>2
    <3>2. GotInv(r)
      OBVIOUS
    <3> QED BY <1>1, <2>4, <3>1, <3>2 DEF MarkInv, CopyInv, FreshInv, GotInv
  <2> QED BY <2>4, <2>5, <2>6, <2>7, <2>8
<1> QED BY <1>3, <1>4 DEF Construct

-----------------------------------------------------------------------------
(* The invariant, and what follows from it.                                 *)

\* Also without a reader, a commit only raises the newest sequence.
LEMMA LatestGrows ==
  ASSUME TypeOK, SequenceBound, WriterInv, BeginWriteNewest \/ CommitStep \/ CrashWriter
  PROVE  Latest' >= Latest
<1>1. wslot \in Slots /\ newest \in Slots \cup {NoSlot} /\ \A s \in Slots : seq[s] \in Frame
  BY DEF TypeOK, WriterOK, ControlOK, SlotsOK
<1>2. Latest \in Frame
  BY <1>1, FirstIsPart DEF Latest
<1>3. CASE StoreSequence
  <2>1. newest' = newest /\ newest # wslot
    BY <1>3, StoreSequenceEffect DEF WriterInv, Filling
  <2>2. \E top \in 1 .. MaxFrames : seq' = [seq EXCEPT ![wslot] = top]
    BY <1>3, StoreSequenceEffect
  <2>3. \A s \in Slots : s # wslot => seq'[s] = seq[s]
    BY <1>1, <2>2 DEF TypeOK, SlotsOK
  <2> QED BY <1>2, <2>1, <2>3 DEF Latest
<1>4. CASE StoreNewest
  <2>1. pc[Writer] = "publish" /\ newest' = wslot /\ seq' = seq
    BY <1>4 DEF StoreNewest, Goto, slots
  <2>2. Latest' = seq[wslot] /\ \A s \in Slots : seq[s] <= seq[wslot]
    BY <1>1, <2>1 DEF Latest, WriterInv
  <2> QED BY <1>1, <2>2 DEF Latest
<1>5. CASE BeginWriteNewest \/ ChooseSlot \/ WritePart \/ CrashWriter
  <2>1. UNCHANGED <<newest, seq>>
    BY <1>5 DEF BeginWriteNewest, ChooseSlot, WritePart, CrashWriter, control, slots
  <2> QED BY <1>2, <2>1 DEF Latest
<1> QED BY <1>3, <1>4, <1>5 DEF CommitStep

\* Nothing is written, marked or called yet.
LEMMA RingInit == Init => RingInv
<1> SUFFICES ASSUME Init PROVE RingInv
  OBVIOUS
<1>1. TypeOK /\ SequenceBound
  BY TypeInit
<1>2. /\ \A t \in Threads : pc[t] = "new"
      /\ \A s \in Slots : seq[s] = 0
      /\ got = [r \in Readers |-> Nothing] /\ Nothing.seq = 0
      /\ newest = 0
  BY DEF Init, Nothing
<1>3. InitialisedAlone /\ WriterInv
  BY <1>2 DEF InitialisedAlone, Initialising, WriterInv, Filling
<1>4. NewestIntact /\ Latest = 0
  BY <1>2 DEF NewestIntact, Latest
<1>5. ASSUME NEW r \in Readers
      PROVE  MarkInv(r) /\ CopyInv(r) /\ FreshInv(r) /\ GotInv(r)
  BY <1>2, <1>4 DEF MarkInv, CopyInv, FreshInv, GotInv, Acquiring
<1> QED BY <1>1, <1>3, <1>4, <1>5 DEF RingInv

\* The invariant is inductive for one reader with serial attachment.
LEMMA RingStep ==
  ASSUME OneReader, SerialAttach, RingInv, [Next]_vars
  PROVE  RingInv' /\ Latest' >= Latest
<1>1. TypeOK' /\ SequenceBound'
  BY TypeStep, SequenceStep DEF RingInv
<1>2. Latest \in Int
  BY FirstIsPart DEF RingInv, TypeOK, ControlOK, SlotsOK, Latest
<1>3. ASSUME NEW t \in Threads, Construct(t)
      PROVE  RingInv' /\ Latest' >= Latest
  BY <1>1, <1>2, <1>3, ConstructKeepsAll DEF RingInv
<1>4. CASE BeginWriteNewest \/ CommitStep \/ CrashWriter
  <2>1. InitialisedAlone' /\ WriterInv' /\ NewestIntact'
    BY <1>4, WriterKeepsWriter DEF RingInv
  <2>2. \A r \in Readers : MarkInv(r)' /\ CopyInv(r)' /\ FreshInv(r)' /\ GotInv(r)'
    BY <1>4, WriterKeepsReader DEF RingInv
  <2>3. Latest' >= Latest
    BY <1>4, LatestGrows DEF RingInv
  <2> QED BY <1>1, <2>1, <2>2, <2>3 DEF RingInv
<1>5. ASSUME NEW r \in Readers, Acquire(r) \/ AcquireStep(r) \/ CrashReader(r)
      PROVE  RingInv' /\ Latest' >= Latest
  <2>1. InitialisedAlone' /\ WriterInv' /\ NewestIntact'
    BY <1>5, ReaderKeepsWriter DEF RingInv
  <2>2. MarkInv(r)' /\ CopyInv(r)' /\ FreshInv(r)' /\ GotInv(r)'
    BY <1>5, ReaderKeepsReader DEF RingInv
  <2>3. \A q \in Readers : q = r
    BY DEF OneReader
  <2>4. Latest' = Latest
    <3>1. UNCHANGED <<newest, seq>>
      BY <1>5 DEF Acquire, AcquireStep, CrashReader, LoadNewest, MarkSlot, LoadSequence,
         CheckNewest, CopyPart, RecheckSequence, Release, control, slots
    <3> QED BY <3>1 DEF Latest
  <2> QED BY <1>1, <1>2, <2>1, <2>2, <2>3, <2>4 DEF RingInv
<1>6. CASE UNCHANGED vars
  BY <1>1, <1>2, <1>6 DEF vars, control, slots, wlocals, rlocals, history, RingInv,
     InitialisedAlone, Initialising, WriterInv, Filling, Intact, NewestIntact, MarkInv,
     CopyInv, FreshInv, GotInv, Acquiring, Latest
<1> QED BY <1>3, <1>4, <1>5, <1>6 DEF Next

\* So it holds in every reachable state.
LEMMA RingInvariant == ASSUME OneReader, SerialAttach PROVE Spec => []RingInv
  BY RingInit, RingStep, PTL DEF Spec

\* AcquireLatest never returns a torn frame, nor a frame under the sequence of
\* another, when one reader uses the ring and constructors do not overlap.
THEOREM SingleReaderNeverTorn == ASSUME OneReader, SerialAttach PROVE Spec => []NoTornFrame
<1>1. RingInv => NoTornFrame
  BY DEF RingInv, GotInv, NoTornFrame
<1> QED BY <1>1, RingInvariant, PTL

\* While that reader copies a slot, BeginWrite never hands the slot to the
\* writer, however many frames are committed meanwhile.
THEOREM SingleReaderHeldSlot == ASSUME OneReader, SerialAttach PROVE Spec => []HeldSlotNotWritten
<1>1. RingInv => HeldSlotNotWritten
  BY DEF RingInv, MarkInv, HeldSlotNotWritten, Filling, Writing
<1> QED BY <1>1, RingInvariant, PTL

-----------------------------------------------------------------------------
(* The ring implements the one-cell register of LatestFrame.                *)

\* The program counters, as LatestFrame sees them.
LEMMA CallingStands ==
  ASSUME \A r \in Readers : Acquiring(r)' = Acquiring(r)
  PROVE  [r \in Readers |-> Acquiring(r)]' = [r \in Readers |-> Acquiring(r)]
  OBVIOUS

\* One reader enters or leaves its call.
LEMMA CallingMoves ==
  ASSUME NEW r \in Readers, NEW b \in BOOLEAN, Acquiring(r)' = b,
         \A q \in Readers : q # r => Acquiring(q)' = Acquiring(q)
  PROVE  [q \in Readers |-> Acquiring(q)]' =
           [[q \in Readers |-> Acquiring(q)] EXCEPT ![r] = b]
  OBVIOUS

\* A step inside AcquireLatest stutters, except the returns of LoadNewest and
\* Release, which LatestFrame allows.
LEMMA ReaderStepImplements ==
  ASSUME RingInv, RingInv', NEW r \in Readers, Acquire(r) \/ AcquireStep(r) \/ CrashReader(r)
  PROVE  [Promise!Next]_(Promise!vars)
<1> USE DEF RingInv, TypeOK, PcOK, Goto
<1>1. Latest' = Latest /\ stored' = stored
  BY DEF Acquire, AcquireStep, CrashReader, LoadNewest, MarkSlot, LoadSequence,
     CheckNewest, CopyPart, RecheckSequence, Release, Latest, control, slots, history
<1>2. \A q \in Readers : q # r => Acquiring(q)' = Acquiring(q)
  <2>1. \A q \in Readers : q # r => pc'[q] = pc[q]
    BY DEF Acquire, AcquireStep, CrashReader, LoadNewest, MarkSlot, LoadSequence,
       CheckNewest, CopyPart, RecheckSequence, Release
  <2> QED BY <2>1 DEF Acquiring
<1>3. CASE floor' = floor /\ got' = got /\ Acquiring(r)' = Acquiring(r)
  <2>1. [q \in Readers |-> Acquiring(q)]' = [q \in Readers |-> Acquiring(q)]
    BY <1>2, <1>3, CallingStands
  <2> QED BY <1>1, <1>3, <2>1 DEF Promise!vars
<1>4. CASE Acquire(r)
  <2>1. pc[r] = "idle" /\ pc'[r] = "load" /\ got' = got
        /\ floor' = [floor EXCEPT ![r] = Latest]
    BY <1>4 DEF Acquire, rlocals
  <2>2. ~Acquiring(r) /\ Acquiring(r)'
    BY <2>1 DEF Acquiring
  <2>3. [q \in Readers |-> Acquiring(q)]' =
           [[q \in Readers |-> Acquiring(q)] EXCEPT ![r] = TRUE]
    BY <1>2, <2>2, CallingMoves
  <2>4. Promise!Call(r)
    BY <1>1, <2>1, <2>2, <2>3 DEF Promise!Call
  <2> QED BY <2>4 DEF Promise!Next
<1>5. ASSUME Acquiring(r), ~Acquiring(r)', floor' = floor,
             \/ floor[r] = 0 /\ got' = [got EXCEPT ![r] = Nothing]
             \/ /\ rseq[r] \in 1 .. Latest /\ floor[r] <= rseq[r]
                /\ got' = [got EXCEPT ![r] =
                     [seq |-> rseq[r], parts |-> [p \in Part |-> stored[rseq[r]]]]]
      PROVE  Promise!Next
  <2>1. [q \in Readers |-> Acquiring(q)]' =
           [[q \in Readers |-> Acquiring(q)] EXCEPT ![r] = FALSE]
    <3>1. Acquiring(r)' = FALSE
      BY <1>5 DEF Acquiring
    <3> QED BY <1>2, <3>1, CallingMoves
  <2>2. floor[r] \in Frame /\ Latest \in Frame
    BY FirstIsPart DEF HistoryOK, ControlOK, SlotsOK, Latest
  <2>3. CASE floor[r] = 0 /\ got' = [got EXCEPT ![r] = Nothing]
    <3>1. Promise!Return(r)
      BY <1>1, <1>5, <2>1, <2>3 DEF Promise!Return, Promise!Null, Promise!Part, Nothing
    <3> QED BY <3>1 DEF Promise!Next
  <2>4. CASE /\ rseq[r] \in 1 .. Latest /\ floor[r] <= rseq[r]
             /\ got' = [got EXCEPT ![r] =
                  [seq |-> rseq[r], parts |-> [p \in Part |-> stored[rseq[r]]]]]
    <3>1. rseq[r] >= floor[r]
      BY <2>2, <2>4
    <3>2. Promise!Return(r)
      BY <1>1, <1>5, <2>1, <2>4, <3>1 DEF Promise!Return, Promise!Copy, Promise!Part
    <3> QED BY <3>2 DEF Promise!Next
  <2> QED BY <1>5, <2>3, <2>4
<1>6. CASE LoadNewest(r)
  <2>1. floor' = floor /\ pc[r] = "load"
    BY <1>6 DEF LoadNewest, history
  <2>2. CASE newest \in Slots
    <3>1. pc'[r] = "mark" /\ got' = got
      BY <1>6, <2>2 DEF LoadNewest
    <3> QED BY <1>3, <2>1, <3>1 DEF Acquiring
  <2>3. CASE newest \notin Slots
    <3>1. pc'[r] = "idle" /\ got' = [got EXCEPT ![r] = Nothing]
      BY <1>6, <2>3 DEF LoadNewest
    <3>2. Latest = 0 /\ floor[r] <= Latest /\ floor[r] \in Frame
      BY <2>1, <2>3 DEF Latest, FreshInv, Acquiring, HistoryOK
    <3>3. Acquiring(r) /\ ~Acquiring(r)' /\ floor[r] = 0
      BY <2>1, <3>1, <3>2 DEF Acquiring
    <3> QED BY <1>5, <2>1, <3>1, <3>3
  <2> QED BY <2>2, <2>3
<1>7. CASE MarkSlot(r) \/ LoadSequence(r) \/ CheckNewest(r) \/ CopyPart(r) \/ RecheckSequence(r)
  <2>1. floor' = floor /\ got' = got
    BY <1>7 DEF MarkSlot, LoadSequence, CheckNewest, CopyPart, RecheckSequence,
       history, rlocals
  <2>2. Acquiring(r) /\ Acquiring(r)'
    BY <1>7 DEF MarkSlot, LoadSequence, CheckNewest, CopyPart, RecheckSequence, Acquiring
  <2> QED BY <1>3, <2>1, <2>2
<1>8. CASE Release(r)
  <2>1. floor' = floor /\ pc[r] = "release"
    BY <1>8 DEF Release, history
  <2>2. CASE outcome[r] = "frame"
    <3>1. pc'[r] = "idle" /\ got' = [got EXCEPT ![r] = [seq |-> rseq[r], parts |-> rcopy[r]]]
      BY <1>8, <2>2 DEF Release
    <3>2. /\ 0 < rseq[r] /\ floor[r] <= rseq[r] /\ rseq[r] <= Latest
          /\ \A p \in Part : rcopy[r][p] = stored[rseq[r]]
      BY <2>1, <2>2 DEF CopyInv
    <3>3. rcopy[r] = [p \in Part |-> stored[rseq[r]]]
      BY <3>2 DEF ReaderOK
    <3>4. rseq[r] \in 1 .. Latest
      <4>1. rseq[r] \in Frame /\ Latest \in Frame
        BY FirstIsPart DEF ReaderOK, ControlOK, SlotsOK, Latest
      <4> QED BY <3>2, <4>1
    <3>5. Acquiring(r) /\ ~Acquiring(r)'
      BY <2>1, <3>1 DEF Acquiring
    <3> QED BY <1>5, <2>1, <3>1, <3>2, <3>3, <3>4, <3>5
  <2>3. CASE outcome[r] = "null"
    <3>1. pc'[r] = "idle" /\ got' = [got EXCEPT ![r] = Nothing]
      BY <1>8, <2>3 DEF Release
    <3>2. floor[r] = 0
      BY <2>1, <2>3 DEF FreshInv
    <3>3. Acquiring(r) /\ ~Acquiring(r)'
      BY <2>1, <3>1 DEF Acquiring
    <3> QED BY <1>5, <2>1, <3>1, <3>2, <3>3
  <2>4. CASE outcome[r] = "retry"
    <3>1. pc'[r] = "load" /\ got' = [got EXCEPT ![r] = got[r]]
      BY <1>8, <2>4 DEF Release
    <3>2. got' = got
      BY <3>1 DEF ReaderOK
    <3> QED BY <1>3, <2>1, <3>1, <3>2 DEF Acquiring
  <2> QED BY <2>2, <2>3, <2>4 DEF ReaderOK
<1>9. CASE CrashReader(r)
  <2>1. pc'[r] = "new" /\ UNCHANGED <<got, floor>>
    BY <1>9 DEF CrashReader, history
  <2>2. CASE Acquiring(r)
    <3>1. Acquiring(r)' = FALSE
      BY <2>1 DEF Acquiring
    <3>2. [q \in Readers |-> Acquiring(q)]' =
             [[q \in Readers |-> Acquiring(q)] EXCEPT ![r] = FALSE]
      BY <1>2, <3>1, CallingMoves
    <3>3. Promise!Abandon(r)
      BY <1>1, <2>1, <2>2, <3>2 DEF Promise!Abandon
    <3> QED BY <3>3 DEF Promise!Next
  <2>3. CASE ~Acquiring(r)
    BY <1>3, <2>1, <2>3 DEF Acquiring
  <2> QED BY <2>2, <2>3
<1> QED BY <1>4, <1>6, <1>7, <1>8, <1>9 DEF AcquireStep

\* Every step of the ring is a step of LatestFrame or a stutter.
LEMMA RingImplements ==
  ASSUME OneReader, SerialAttach, RingInv, RingInv', [Next]_vars
  PROVE  [Promise!Next]_(Promise!vars)
<1> USE DEF RingInv
<1>1. CASE BeginWriteNewest \/ CommitStep \/ CrashWriter
  <2>1. got' = got /\ floor' = floor /\ \A u \in Readers : pc'[u] = pc[u]
    BY <1>1, WriterFrame
  <2>2. [q \in Readers |-> Acquiring(q)]' = [q \in Readers |-> Acquiring(q)]
    BY <2>1, CallingStands DEF Acquiring
  <2>3. Latest \in Frame /\ Latest' \in Frame
    BY FirstIsPart DEF TypeOK, ControlOK, SlotsOK, Latest
  <2>4. Latest' >= Latest
    BY RingStep
  <2>5. \A n \in 1 .. Latest : stored'[n] = stored[n]
    <3>1. CASE StoreSequence
      <4>1. \E top \in 1 .. MaxFrames : /\ \A s \in Slots : seq[s] < top
                                        /\ stored' = [stored EXCEPT ![top] = begun]
        BY <3>1, StoreSequenceEffect
      <4>2. PICK top \in 1 .. MaxFrames : /\ \A s \in Slots : seq[s] < top
                                          /\ stored' = [stored EXCEPT ![top] = begun]
        BY <4>1
      <4>4. Latest < top
        <5>1. CASE newest \in Slots
          BY <4>2, <5>1 DEF Latest
        <5>2. CASE newest \notin Slots
          BY <5>2 DEF Latest
        <5> QED BY <5>1, <5>2
      <4>3. \A n \in 1 .. Latest : n # top /\ n \in 1 .. MaxFrames
        BY <2>3, <4>4
      <4> QED BY <4>2, <4>3 DEF TypeOK, HistoryOK
    <3>2. CASE ~StoreSequence
      BY <1>1, <3>2 DEF BeginWriteNewest, CommitStep, CrashWriter, ChooseSlot, WritePart,
         StoreNewest, history
    <3> QED BY <3>1, <3>2
  <2>6. Latest' \in Latest .. MaxFrames
    BY <2>3, <2>4
  <2>7. Promise!Commit
    BY <2>1, <2>2, <2>5, <2>6 DEF Promise!Commit
  <2> QED BY <2>7 DEF Promise!Next
<1>2. ASSUME NEW t \in Threads, Construct(t) PROVE UNCHANGED Promise!vars
  <2>1. Latest' = Latest
    BY <1>2, ConstructKeepsAll
  <2>2. UNCHANGED <<stored, floor, got>>
    BY <1>2 DEF Construct, Attach, SetMagic, SetNewest, SetReader, rlocals, history
  <2>3. \A r \in Readers : Acquiring(r)' = Acquiring(r)
    BY <1>2 DEF Construct, Attach, SetMagic, SetNewest, SetReader, Goto, TypeOK, PcOK, Acquiring
  <2>4. [q \in Readers |-> Acquiring(q)]' = [q \in Readers |-> Acquiring(q)]
    BY <2>3, CallingStands
  <2> QED BY <2>1, <2>2, <2>4 DEF Promise!vars
<1>3. CASE UNCHANGED vars
  <2>1. UNCHANGED <<newest, seq, stored, floor, got, pc>>
    BY <1>3 DEF vars, control, slots, rlocals, history
  <2> QED BY <2>1 DEF Promise!vars, Latest, Acquiring
<1> QED BY <1>1, <1>2, <1>3, ReaderStepImplements DEF Next

\* For a single reader the three slots behave as one cell: every answer of
\* AcquireLatest is a whole frame that was the newest at some moment of the call.
THEOREM SingleReaderRegister ==
  ASSUME OneReader, SerialAttach PROVE Spec => ImplementsLatestFrame
<1>1. Init => Promise!Init
  <2> SUFFICES ASSUME Init PROVE Promise!Init
    OBVIOUS
  <2>1. Latest = 0 /\ \A r \in Readers : Acquiring(r) = FALSE
    BY DEF Init, Latest, Acquiring
  <2>2. stored = [n \in 1 .. MaxFrames |-> 0] /\ floor = [r \in Readers |-> 0]
        /\ got = [r \in Readers |-> Nothing]
    BY DEF Init
  <2>3. [r \in Readers |-> Acquiring(r)] = [r \in Readers |-> FALSE]
    BY <2>1
  <2> QED BY <2>1, <2>2, <2>3 DEF Promise!Init, Promise!Null, Promise!Part, Nothing
<1> QED BY <1>1, RingInvariant, RingImplements, PTL
        DEF Spec, ImplementsLatestFrame, Promise!Spec

\* The reader's successive answers never go back to an older frame.
THEOREM SingleReaderNeverGoesBack ==
  ASSUME OneReader, SerialAttach PROVE Spec => NeverGoesBack
<1>1. ASSUME RingInv, RingInv', [Next]_vars, NEW r \in Readers
      PROVE  got'[r].seq >= got[r].seq
  <2> USE <1>1 DEF RingInv, TypeOK
  <2>0. got[r].seq \in Frame /\ floor[r] \in Frame /\ rseq[r] \in Frame /\ got \in [Readers -> [seq : Frame, parts : [Part -> Frame]]]
    BY DEF ReaderOK, HistoryOK
  <2>1. CASE got' = got
    BY <2>0, <2>1
  <2>2. ASSUME NEW q \in Readers, LoadNewest(q), got' # got
        PROVE  got'[r].seq >= got[r].seq
    <3>1. newest \notin Slots /\ pc[q] = "load"
      BY <2>2 DEF LoadNewest, Goto
    <3>2. Latest = 0 /\ got[r].seq = 0
      BY <2>0, <3>1 DEF Latest, GotInv
    <3>3. q = r /\ got'[r] = Nothing
      BY <2>0, <2>2, <3>1 DEF LoadNewest, OneReader
    <3> QED BY <3>2, <3>3 DEF Nothing
  <2>3. ASSUME NEW q \in Readers, Release(q), got' # got
        PROVE  got'[r].seq >= got[r].seq
    <3>1. q = r
      BY DEF OneReader
    <3>2. pc[r] = "release" /\ got[r].seq <= floor[r]
      BY <2>3, <3>1 DEF Release, Goto, GotInv, Acquiring
    <3>3. CASE outcome[r] = "frame"
      <4>1. got'[r] = [seq |-> rseq[r], parts |-> rcopy[r]]
        BY <2>0, <2>3, <3>1, <3>3 DEF Release
      <4>2. floor[r] <= rseq[r]
        BY <3>2, <3>3 DEF CopyInv
      <4>3. got'[r].seq = rseq[r]
        BY <4>1
      <4> QED BY <2>0, <3>2, <4>2, <4>3
    <3>4. CASE outcome[r] = "null"
      <4>1. got'[r] = Nothing /\ Nothing.seq = 0
        BY <2>0, <2>3, <3>1, <3>4 DEF Release, Nothing
      <4>2. floor[r] = 0
        BY <3>2, <3>4 DEF FreshInv
      <4> QED BY <2>0, <3>2, <4>1, <4>2
    <3>5. CASE outcome[r] = "retry"
      <4>1. got'[r] = got[r]
        BY <2>0, <2>3, <3>1, <3>5 DEF Release
      <4> QED BY <2>0, <4>1
    <3> QED BY <3>3, <3>4, <3>5 DEF ReaderOK
  <2>4. CASE UNCHANGED vars
    BY <2>1, <2>4 DEF vars, rlocals
  <2>5. CASE BeginWriteNewest \/ CommitStep \/ CrashWriter
    BY <2>1, <2>5, WriterFrame
  <2>6. ASSUME NEW t \in Threads, Construct(t) PROVE got' = got
    BY <2>6 DEF Construct, Attach, SetMagic, SetNewest, SetReader, rlocals
  <2>7. ASSUME NEW q \in Readers, Acquire(q) \/ AcquireStep(q) \/ CrashReader(q)
        PROVE  got' = got \/ LoadNewest(q) \/ Release(q)
    BY <2>7 DEF Acquire, AcquireStep, CrashReader, MarkSlot, LoadSequence,
       CheckNewest, CopyPart, RecheckSequence, rlocals
  <2> QED BY <2>1, <2>2, <2>3, <2>4, <2>5, <2>6, <2>7 DEF Next
<1>2. RingInv /\ RingInv' /\ [Next]_vars => [\A r \in Readers : got'[r].seq >= got[r].seq]_vars
  BY <1>1
<1> QED BY <1>2, RingInvariant, PTL DEF Spec, NeverGoesBack
=============================================================================
