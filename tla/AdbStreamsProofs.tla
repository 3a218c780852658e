-------------------------- MODULE AdbStreamsProofs --------------------------
(***************************************************************************)
(* What is proved of AdbStreams, for any number of streams, units, time-   *)
(* outs and restarts, as long as no stream id is used twice: what a stream *)
(* reads is what the device sent on it, with nothing lost on the way; both *)
(* ends keep to the protocol; and on a connection that nothing disturbs a  *)
(* Write that returns has been accepted.                                   *)
(***************************************************************************)
EXTENDS AdbStreams, FiniteSetTheorems, TLAPS

-----------------------------------------------------------------------------
(* Sequences of messages, and what a stream has in them.                    *)

IsData(m, x) == m.cmd = "WRTE" /\ m.arg1 = x
IsEnd(m, x) == m.cmd = "CLSE" /\ m.arg1 = x
IsAck(m, x) == m.cmd = "OKAY" /\ m.arg0 = x
IsOpen(m, x) == m.cmd = "OPEN" /\ m.arg0 = x

\* On the way to the host: the stream's data, its end, anything of it.
NoData(s, x) == \A i \in 1 .. Len(s) : ~IsData(s[i], x)
OneData(s, x) == \A i, j \in 1 .. Len(s) : IsData(s[i], x) /\ IsData(s[j], x) => i = j
DataIs(s, x, n) == \A i \in 1 .. Len(s) : IsData(s[i], x) => s[i].data = n
NoEnd(s, x) == \A i \in 1 .. Len(s) : ~IsEnd(s[i], x)
EndLast(s, x) == \A i, j \in 1 .. Len(s) : IsEnd(s[i], x) /\ i < j => ~IsData(s[j], x)
Quiet(s, x) == \A i \in 1 .. Len(s) : s[i].arg1 # x

\* On the way to the device: acknowledgements, the stream's OPEN.
NoAck(s, x) == \A i \in 1 .. Len(s) : ~IsAck(s[i], x)
OneAck(s, x) == \A i, j \in 1 .. Len(s) : IsAck(s[i], x) /\ IsAck(s[j], x) => i = j
NoOpen(s, x) == \A i \in 1 .. Len(s) : ~IsOpen(s[i], x)
LoneOpen(s, x) == \A i, j \in 1 .. Len(s) : IsOpen(s[i], x) /\ s[j].arg0 = x => i = j
Silent(s, x) == \A i \in 1 .. Len(s) : s[i].arg0 # x

LEMMA TailIndex ==
  ASSUME NEW S, NEW s \in Seq(S), s # <<>>
  PROVE /\ Head(s) \in S /\ Head(s) = s[1] /\ 1 \in 1 .. Len(s) /\ Len(s) \in Nat
        /\ Tail(s) \in Seq(S) /\ Len(Tail(s)) = Len(s) - 1
        /\ \A i \in 1 .. Len(Tail(s)) : Tail(s)[i] = s[i + 1] /\ i + 1 \in 1 .. Len(s)
        /\ \A i \in 1 .. Len(s) : i = 1 \/ (i - 1 \in 1 .. Len(Tail(s)) /\ s[i] = Tail(s)[i - 1])
<1>1. Head(s) = s[1] /\ Len(s) \in Nat /\ Len(s) >= 1 /\ Len(Tail(s)) = Len(s) - 1 /\ Tail(s) \in Seq(S)
  OBVIOUS
<1>2. \A i \in 1 .. Len(Tail(s)) : Tail(s)[i] = s[i + 1] /\ i + 1 \in 1 .. Len(s)
  BY <1>1
<1>3. \A i \in 1 .. Len(s) : i = 1 \/ (i - 1 \in 1 .. Len(Tail(s)) /\ (i - 1) + 1 = i)
  BY <1>1
<1> QED BY <1>1, <1>2, <1>3

LEMMA AppendIndex ==
  ASSUME NEW S, NEW s \in Seq(S), NEW m \in S
  PROVE /\ Append(s, m) \in Seq(S) /\ Len(Append(s, m)) = Len(s) + 1 /\ Len(s) \in Nat
        /\ Append(s, m)[Len(s) + 1] = m /\ Len(s) + 1 \in 1 .. Len(Append(s, m))
        /\ \A i \in 1 .. Len(s) : Append(s, m)[i] = s[i] /\ i \in 1 .. Len(Append(s, m))
        /\ \A i \in 1 .. Len(Append(s, m)) : i = Len(s) + 1 \/ i \in 1 .. Len(s)
  OBVIOUS

\* One more message to the host.
LEMMA HostAppend ==
  ASSUME NEW S, NEW s \in Seq(S), NEW m \in S, NEW x, NEW n
  PROVE LET t == Append(s, m) IN
        /\ NoData(t, x) <=> NoData(s, x) /\ ~IsData(m, x)
        /\ OneData(s, x) /\ (NoData(s, x) \/ ~IsData(m, x)) => OneData(t, x)
        /\ DataIs(s, x, n) /\ (IsData(m, x) => m.data = n) => DataIs(t, x, n)
        /\ NoEnd(t, x) <=> NoEnd(s, x) /\ ~IsEnd(m, x)
        /\ EndLast(s, x) /\ (NoEnd(s, x) \/ ~IsData(m, x)) => EndLast(t, x)
        /\ Quiet(s, x) /\ m.arg1 # x => Quiet(t, x)
<1> DEFINE t == Append(s, m)
<1>0. /\ Len(s) \in Nat /\ t[Len(s) + 1] = m /\ Len(s) + 1 \in 1 .. Len(t)
      /\ \A i \in 1 .. Len(s) : t[i] = s[i] /\ i \in 1 .. Len(t)
      /\ \A i \in 1 .. Len(t) : i = Len(s) + 1 \/ i \in 1 .. Len(s)
  BY AppendIndex
<1> HIDE DEF t
<1>1. NoData(t, x) <=> NoData(s, x) /\ ~IsData(m, x)
  BY <1>0 DEF NoData
<1>2. OneData(s, x) /\ (NoData(s, x) \/ ~IsData(m, x)) => OneData(t, x)
  BY <1>0 DEF NoData, OneData
<1>3. DataIs(s, x, n) /\ (IsData(m, x) => m.data = n) => DataIs(t, x, n)
  BY <1>0 DEF DataIs
<1>4. NoEnd(t, x) <=> NoEnd(s, x) /\ ~IsEnd(m, x)
  BY <1>0 DEF NoEnd
<1>5. EndLast(s, x) /\ (NoEnd(s, x) \/ ~IsData(m, x)) => EndLast(t, x)
  <2> SUFFICES ASSUME EndLast(s, x), NoEnd(s, x) \/ ~IsData(m, x),
                      NEW i \in 1 .. Len(t), NEW j \in 1 .. Len(t), IsEnd(t[i], x), i < j
               PROVE ~IsData(t[j], x)
    BY DEF EndLast
  <2>1. i \in 1 .. Len(s) /\ IsEnd(s[i], x)
    <3>1. i # Len(s) + 1
      BY <1>0
    <3> QED BY <1>0, <3>1
  <2>2. CASE j = Len(s) + 1
    BY <1>0, <2>1, <2>2 DEF NoEnd
  <2>3. CASE j \in 1 .. Len(s)
    BY <1>0, <2>1, <2>3 DEF EndLast
  <2> QED BY <1>0, <2>2, <2>3
<1>6. Quiet(s, x) /\ m.arg1 # x => Quiet(t, x)
  BY <1>0 DEF Quiet
<1> QED BY <1>1, <1>2, <1>3, <1>4, <1>5, <1>6 DEF t

\* The first message taken by the host.
LEMMA HostTail ==
  ASSUME NEW S, NEW s \in Seq(S), s # <<>>, NEW x, NEW n
  PROVE LET t == Tail(s)  m == Head(s) IN
        /\ NoData(s, x) <=> NoData(t, x) /\ ~IsData(m, x)
        /\ OneData(s, x) => OneData(t, x) /\ (IsData(m, x) => NoData(t, x))
        /\ DataIs(s, x, n) => DataIs(t, x, n) /\ (IsData(m, x) => m.data = n)
        /\ NoEnd(s, x) <=> NoEnd(t, x) /\ ~IsEnd(m, x)
        /\ EndLast(s, x) => EndLast(t, x) /\ (IsEnd(m, x) => NoData(s, x))
        /\ Quiet(s, x) => Quiet(t, x) /\ m.arg1 # x
<1> DEFINE t == Tail(s)  m == Head(s)
<1>0. /\ m = s[1] /\ 1 \in 1 .. Len(s) /\ Len(s) \in Nat
      /\ \A i \in 1 .. Len(t) : t[i] = s[i + 1] /\ i + 1 \in 1 .. Len(s)
      /\ \A i \in 1 .. Len(s) : i = 1 \/ (i - 1 \in 1 .. Len(t) /\ s[i] = t[i - 1])
      /\ Len(t) = Len(s) - 1
  BY TailIndex
<1> HIDE DEF t, m
<1>1. NoData(s, x) <=> NoData(t, x) /\ ~IsData(m, x)
  BY <1>0 DEF NoData
<1>2. OneData(s, x) => OneData(t, x) /\ (IsData(m, x) => NoData(t, x))
  BY <1>0 DEF NoData, OneData
<1>3. DataIs(s, x, n) => DataIs(t, x, n) /\ (IsData(m, x) => m.data = n)
  BY <1>0 DEF DataIs
<1>4. NoEnd(s, x) <=> NoEnd(t, x) /\ ~IsEnd(m, x)
  BY <1>0 DEF NoEnd
<1>5. EndLast(s, x) => EndLast(t, x)
  BY <1>0 DEF EndLast
<1>6. EndLast(s, x) /\ IsEnd(m, x) => NoData(s, x)
  <2> SUFFICES ASSUME EndLast(s, x), IsEnd(m, x), NEW j \in 1 .. Len(s) PROVE ~IsData(s[j], x)
    BY DEF NoData
  <2>1. CASE j = 1
    BY <1>0, <2>1 DEF IsEnd, IsData
  <2>2. CASE j # 1
    BY <1>0, <2>2 DEF EndLast
  <2> QED BY <2>1, <2>2
<1>7. Quiet(s, x) => Quiet(t, x) /\ m.arg1 # x
  BY <1>0 DEF Quiet
<1> QED BY <1>1, <1>2, <1>3, <1>4, <1>5, <1>6, <1>7 DEF t, m

\* One more message to the device, and the first one taken by it.
LEMMA DeviceAppend ==
  ASSUME NEW S, NEW s \in Seq(S), NEW m \in S, NEW x
  PROVE LET t == Append(s, m) IN
        /\ NoAck(t, x) <=> NoAck(s, x) /\ ~IsAck(m, x)
        /\ OneAck(s, x) /\ (NoAck(s, x) \/ ~IsAck(m, x)) => OneAck(t, x)
        /\ NoOpen(t, x) <=> NoOpen(s, x) /\ ~IsOpen(m, x)
        /\ LoneOpen(s, x) /\ (m.arg0 # x \/ (NoOpen(s, x) /\ ~IsOpen(m, x)) \/ Silent(s, x)) => LoneOpen(t, x)
        /\ Silent(s, x) /\ m.arg0 # x => Silent(t, x)
<1> DEFINE t == Append(s, m)
<1>0. /\ Len(s) \in Nat /\ t[Len(s) + 1] = m /\ Len(s) + 1 \in 1 .. Len(t)
      /\ \A i \in 1 .. Len(s) : t[i] = s[i] /\ i \in 1 .. Len(t)
      /\ \A i \in 1 .. Len(t) : i = Len(s) + 1 \/ i \in 1 .. Len(s)
  BY AppendIndex
<1> HIDE DEF t
<1>1. NoAck(t, x) <=> NoAck(s, x) /\ ~IsAck(m, x)
  BY <1>0 DEF NoAck
<1>2. OneAck(s, x) /\ (NoAck(s, x) \/ ~IsAck(m, x)) => OneAck(t, x)
  BY <1>0 DEF NoAck, OneAck
<1>3. NoOpen(t, x) <=> NoOpen(s, x) /\ ~IsOpen(m, x)
  BY <1>0 DEF NoOpen
<1>4. LoneOpen(s, x) /\ (m.arg0 # x \/ (NoOpen(s, x) /\ ~IsOpen(m, x)) \/ Silent(s, x)) => LoneOpen(t, x)
  <2> SUFFICES ASSUME LoneOpen(s, x), m.arg0 # x \/ (NoOpen(s, x) /\ ~IsOpen(m, x)) \/ Silent(s, x),
                      NEW i \in 1 .. Len(t), NEW j \in 1 .. Len(t), IsOpen(t[i], x), t[j].arg0 = x
               PROVE i = j
    BY DEF LoneOpen
  <2>1. CASE m.arg0 # x
    BY <1>0, <2>1 DEF LoneOpen, IsOpen
  <2>2. CASE NoOpen(s, x) /\ ~IsOpen(m, x)
    BY <1>0, <2>2 DEF NoOpen
  <2>3. CASE Silent(s, x)
    BY <1>0, <2>3 DEF Silent, IsOpen
  <2> QED BY <2>1, <2>2, <2>3
<1>5. Silent(s, x) /\ m.arg0 # x => Silent(t, x)
  BY <1>0 DEF Silent
<1> QED BY <1>1, <1>2, <1>3, <1>4, <1>5 DEF t

LEMMA DeviceTail ==
  ASSUME NEW S, NEW s \in Seq(S), s # <<>>, NEW x
  PROVE LET t == Tail(s)  m == Head(s) IN
        /\ NoAck(s, x) <=> NoAck(t, x) /\ ~IsAck(m, x)
        /\ OneAck(s, x) => OneAck(t, x) /\ (IsAck(m, x) => NoAck(t, x))
        /\ NoOpen(s, x) <=> NoOpen(t, x) /\ ~IsOpen(m, x)
        /\ LoneOpen(s, x) => LoneOpen(t, x) /\ (IsOpen(m, x) => Silent(t, x))
        /\ Silent(s, x) => Silent(t, x) /\ m.arg0 # x
<1> DEFINE t == Tail(s)  m == Head(s)
<1>0. /\ m = s[1] /\ 1 \in 1 .. Len(s) /\ Len(s) \in Nat
      /\ \A i \in 1 .. Len(t) : t[i] = s[i + 1] /\ i + 1 \in 1 .. Len(s)
      /\ \A i \in 1 .. Len(s) : i = 1 \/ (i - 1 \in 1 .. Len(t) /\ s[i] = t[i - 1])
      /\ Len(t) = Len(s) - 1
  BY TailIndex
<1> HIDE DEF t, m
<1>1. NoAck(s, x) <=> NoAck(t, x) /\ ~IsAck(m, x)
  BY <1>0 DEF NoAck
<1>2. OneAck(s, x) => OneAck(t, x) /\ (IsAck(m, x) => NoAck(t, x))
  BY <1>0 DEF NoAck, OneAck
<1>3. NoOpen(s, x) <=> NoOpen(t, x) /\ ~IsOpen(m, x)
  BY <1>0 DEF NoOpen
<1>4. LoneOpen(s, x) => LoneOpen(t, x)
  BY <1>0 DEF LoneOpen
<1>5. LoneOpen(s, x) /\ IsOpen(m, x) => Silent(t, x)
  <2> SUFFICES ASSUME LoneOpen(s, x), IsOpen(m, x), NEW i \in 1 .. Len(t), t[i].arg0 = x PROVE FALSE
    BY DEF Silent
  <2>1. s[i + 1].arg0 = x /\ i + 1 \in 1 .. Len(s) /\ i + 1 # 1
    BY <1>0
  <2> QED BY <1>0, <2>1 DEF LoneOpen
<1>6. Silent(s, x) => Silent(t, x) /\ m.arg0 # x
  BY <1>0 DEF Silent
<1> QED BY <1>1, <1>2, <1>3, <1>4, <1>5, <1>6 DEF t, m

\* A stream nothing of which is on the way has no data, end or OPEN there.
LEMMA QuietIsNone ==
  ASSUME NEW s, NEW x
  PROVE /\ Quiet(s, x) => NoData(s, x) /\ NoEnd(s, x)
        /\ Silent(s, x) => NoOpen(s, x) /\ NoAck(s, x)
  BY DEF Quiet, Silent, NoData, NoEnd, NoOpen, NoAck, IsData, IsEnd, IsOpen, IsAck

-----------------------------------------------------------------------------
(* Types                                                                    *)

HostMessages == [cmd : {"OKAY", "CLSE", "WRTE"}, arg0 : Nat, arg1 : Ids, data : Nat]
ToHost == HostMessages \cup {Cnxn}
ToDevice == [cmd : {"OPEN", "OKAY", "CLSE", "WRTE"}, arg0 : Ids, arg1 : Nat, data : Nat]
Operations == {"open", "read", "write", "shell"}
Calls == [op : Operations, id : Ids, left : Nat]

TablesType ==
  /\ openStreams \subseteq Ids /\ state \in [Ids -> States] /\ remoteId \in [Ids -> Nat]
  /\ received \in [Ids -> Seq(Nat)] /\ delivered \in [Ids -> Seq(Nat)] /\ written \in [Ids -> Nat]
PipesType ==
  /\ pending \in [Ids -> Seq(HostMessages)] /\ toHost \in Seq(ToHost) /\ toDevice \in Seq(ToDevice)
DeviceType ==
  /\ devRemote \in [Ids -> Nat] /\ devNext \in Nat \ {0}
  /\ devAwait \in [Ids -> BOOLEAN] /\ devSent \in [Ids -> Nat]
CallType == call = Idle \/ call \in Calls
OpensType == opens \in Nat /\ (opens < MaxOpens => nextLocalId = opens + 1 /\ opens + 1 \in Ids)
TypeInv == TablesType /\ PipesType /\ DeviceType /\ CallType /\ OpensType

\* No stream id is used twice on a connection.
DistinctIds == MaxOpens <= MaxId

LEMMA Bounds == MaxId \in Nat /\ MaxId > 0 /\ MaxOpens \in Nat /\ MaxWritten \in Nat /\ 1 \in Ids
  BY StreamsAssumption DEF Ids

LEMMA MessageType ==
  /\ \A m \in HostMessages : m.cmd \in {"OKAY", "CLSE", "WRTE"} /\ m.arg0 \in Nat /\ m.arg1 \in Ids /\ m.data \in Nat
  /\ \A m \in ToDevice : m.cmd \in {"OPEN", "OKAY", "CLSE", "WRTE"} /\ m.arg0 \in Ids /\ m.arg1 \in Nat
  /\ \A m \in ToHost : m.cmd # "CNXN" => m \in HostMessages
  /\ Cnxn.cmd = "CNXN" /\ Cnxn.arg1 = 0 /\ Cnxn \in ToHost
  BY DEF HostMessages, ToDevice, ToHost, Cnxn, Message

LEMMA Sent ==
  ASSUME NEW id \in Ids, NEW remote \in Nat, NEW n \in Nat
  PROVE /\ Open(id) \in ToDevice /\ Open(id).cmd = "OPEN" /\ Open(id).arg0 = id
        /\ Okay(id, remote) \in ToDevice /\ Okay(id, remote).cmd = "OKAY" /\ Okay(id, remote).arg0 = id
        /\ Clse(id, remote) \in ToDevice /\ Clse(id, remote).cmd = "CLSE" /\ Clse(id, remote).arg0 = id
        /\ Wrte(id, remote, n) \in ToDevice /\ Wrte(id, remote, n).cmd = "WRTE" /\ Wrte(id, remote, n).arg0 = id
  BY DEF Open, Okay, Clse, Wrte, Message, ToDevice

LEMMA SentByDevice ==
  ASSUME NEW id \in Ids, NEW remote \in Nat, NEW n \in Nat
  PROVE /\ Okay(remote, id) \in ToHost /\ Okay(remote, id).cmd = "OKAY" /\ Okay(remote, id).arg1 = id
        /\ Clse(remote, id) \in ToHost /\ Clse(remote, id).cmd = "CLSE" /\ Clse(remote, id).arg1 = id
        /\ Wrte(remote, id, n) \in ToHost /\ Wrte(remote, id, n).cmd = "WRTE" /\ Wrte(remote, id, n).arg1 = id
        /\ Wrte(remote, id, n).data = n
  BY DEF Okay, Clse, Wrte, Message, HostMessages, ToHost

LEMMA CallShape ==
  ASSUME CallType
  PROVE /\ call # Idle => call.op \in Operations /\ call.id \in Ids /\ call.left \in Nat
        /\ call.op \in Operations => call # Idle
  BY DEF CallType, Calls, Operations, Idle

LEMMA NewCall ==
  ASSUME NEW op \in Operations, NEW id \in Ids, NEW left \in Nat
  PROVE /\ Call(op, id, left) \in Calls /\ Call(op, id, left).op = op /\ Call(op, id, left).id = id
        /\ Call(op, id, left) # Idle
  BY DEF Call, Calls, Operations, Idle

\* What is sent to the device, as an Append.
LEMMA SendOne ==
  ASSUME toDevice \in Seq(ToDevice), NEW m \in ToDevice, Send(<<m>>)
  PROVE toDevice' = Append(toDevice, m) /\ toDevice' \in Seq(ToDevice)
  BY DEF Send
LEMMA SendClose ==
  ASSUME toDevice \in Seq(ToDevice), NEW id \in Ids, NEW remote \in Nat, Send(CloseMessages(id, remote))
  PROVE /\ toDevice' = toDevice \/ (remote # 0 /\ toDevice' = Append(toDevice, Clse(id, remote)))
        /\ toDevice' \in Seq(ToDevice)
<1>1. CASE CloseMessages(id, remote) = <<>>
  BY <1>1 DEF Send
<1>2. CASE remote # 0 /\ CloseMessages(id, remote) = <<Clse(id, remote)>>
  <2>1. Clse(id, remote) \in ToDevice
    BY Sent
  <2> QED BY <1>2, <2>1, SendOne
<1> QED BY <1>1, <1>2 DEF CloseMessages

\* The message a call takes: from the stream's queue, or else from the pipe.
FromQueue(id) ==
  /\ pending[id] # <<>> /\ Arrival(id) = Head(pending[id])
  /\ pending' = [pending EXCEPT ![id] = Tail(@)] /\ toHost' = toHost
FromPipe(id) ==
  /\ pending[id] = <<>> /\ toHost # <<>> /\ Arrival(id) = Head(toHost)
  /\ toHost' = Tail(toHost) /\ pending' = pending
LEMMA TakeShape ==
  ASSUME PipesType, NEW id \in Ids, Arrived(id), Take(id)
  PROVE /\ FromQueue(id) \/ (FromPipe(id) /\ Arrival(id).arg1 = id)
        /\ Arrival(id) \in HostMessages
        /\ pending' \in [Ids -> Seq(HostMessages)] /\ toHost' \in Seq(ToHost)
<1>1. CASE pending[id] # <<>>
  <2>1. Head(pending[id]) \in HostMessages /\ Tail(pending[id]) \in Seq(HostMessages)
    BY <1>1, TailIndex DEF PipesType
  <2> QED BY <1>1, <2>1 DEF Take, Arrival, FromQueue, PipesType
<1>2. CASE pending[id] = <<>>
  <2>1. toHost # <<>> /\ Head(toHost).cmd # "CNXN" /\ Head(toHost).arg1 = id
    BY <1>2 DEF Arrived
  <2>2. Head(toHost) \in ToHost /\ Tail(toHost) \in Seq(ToHost)
    BY <2>1, TailIndex DEF PipesType
  <2>3. Head(toHost) \in HostMessages
    BY <2>1, <2>2, MessageType
  <2> QED BY <1>2, <2>1, <2>2, <2>3 DEF Take, Arrival, FromPipe, PipesType
<1> QED BY <1>1, <1>2

LEMMA ArrivalType ==
  ASSUME PipesType, NEW id \in Ids, Arrived(id)
  PROVE /\ Arrival(id) \in HostMessages
        /\ \/ pending[id] # <<>> /\ Arrival(id) = Head(pending[id])
           \/ pending[id] = <<>> /\ toHost # <<>> /\ Arrival(id) = Head(toHost) /\ Arrival(id).arg1 = id
<1>1. CASE pending[id] # <<>>
  <2>1. Head(pending[id]) \in HostMessages
    BY <1>1, TailIndex DEF PipesType
  <2> QED BY <1>1, <2>1 DEF Arrival
<1>2. CASE pending[id] = <<>>
  <2>1. toHost # <<>> /\ Head(toHost).cmd # "CNXN" /\ Head(toHost).arg1 = id
    BY <1>2 DEF Arrived
  <2>2. Head(toHost) \in ToHost
    BY <2>1, TailIndex DEF PipesType
  <2>3. Head(toHost) \in HostMessages
    BY <2>1, <2>2, MessageType
  <2> QED BY <1>2, <2>1, <2>3 DEF Arrival
<1> QED BY <1>1, <1>2

LEMMA CloseType ==
  ASSUME PipesType, openStreams \subseteq Ids, NEW id \in Ids, Arrived(id), TakeAndClose(id)
  PROVE /\ pending' \in [Ids -> Seq(HostMessages)] /\ toHost' \in Seq(ToHost)
        /\ openStreams' \subseteq Ids
        /\ toHost' = toHost \/ (toHost # <<>> /\ Head(toHost).arg1 = id /\ toHost' = Tail(toHost))
<1>1. pending' \in [Ids -> Seq(HostMessages)] /\ openStreams' \subseteq Ids
  BY DEF TakeAndClose, PipesType
<1>2. CASE pending[id] # <<>>
  BY <1>1, <1>2 DEF TakeAndClose, PipesType
<1>3. CASE pending[id] = <<>>
  <2>1. toHost # <<>> /\ Head(toHost).arg1 = id
    BY <1>3 DEF Arrived
  <2>2. Tail(toHost) \in Seq(ToHost)
    BY <2>1, TailIndex DEF PipesType
  <2> QED BY <1>1, <1>3, <2>1, <2>2 DEF TakeAndClose
<1> QED BY <1>2, <1>3

LEMMA TypeInit == DistinctIds /\ Init => TypeInv
<1> SUFFICES ASSUME DistinctIds, Init PROVE TypeInv
  OBVIOUS
<1>1. TablesType
  BY DEF Init, TablesType, States
<1>2. PipesType /\ CallType
  BY DEF Init, PipesType, CallType
<1>3. DeviceType
  BY DEF Init, DeviceType
<1>4. OpensType
  BY Bounds DEF Init, OpensType
<1> QED BY <1>1, <1>2, <1>3, <1>4 DEF TypeInv

LEMMA StartType ==
  ASSUME DistinctIds, TypeInv, NEW op \in {"open", "shell"}, Start(op)
  PROVE TypeInv' /\ nextLocalId = opens + 1 /\ opens + 1 \in Ids /\ toDevice' = Append(toDevice, Open(opens + 1))
<1>1. nextLocalId = opens + 1 /\ opens + 1 \in Ids /\ opens < MaxOpens /\ opens \in Nat
  BY DEF Start, TypeInv, OpensType
<1>2. TablesType'
  BY <1>1 DEF Start, TypeInv, TablesType, States
<1>3. toDevice' = Append(toDevice, Open(opens + 1)) /\ PipesType'
  <2>1. Open(opens + 1) \in ToDevice
    BY <1>1, Sent
  <2>2. Send(<<Open(opens + 1)>>) /\ UNCHANGED <<pending, toHost>>
    BY <1>1 DEF Start
  <2> QED BY <2>1, <2>2, SendOne DEF TypeInv, PipesType
<1>4. DeviceType'
  BY DEF Start, device, TypeInv, DeviceType
<1>5. CallType'
  BY <1>1, NewCall DEF Start, CallType, Operations
<1>6. OpensType'
  <2>1. opens' = opens + 1 /\ nextLocalId' = NextId(opens + 1)
    BY <1>1 DEF Start
  <2>2. opens + 1 < MaxOpens => opens + 1 # MaxId /\ (opens + 1) + 1 \in Ids
    BY <1>1, Bounds DEF DistinctIds, Ids
  <2> QED BY <1>1, <2>1, <2>2 DEF OpensType, NextId
<1> QED BY <1>1, <1>2, <1>3, <1>4, <1>5, <1>6 DEF TypeInv

LEMMA RouteType ==
  ASSUME TypeInv, Route
  PROVE /\ TypeInv' /\ toHost # <<>> /\ Head(toHost) \in HostMessages /\ toHost' = Tail(toHost)
        /\ pending' = IF Head(toHost).arg1 \in openStreams
                      THEN [pending EXCEPT ![Head(toHost).arg1] = Append(@, Head(toHost))] ELSE pending
<1>1. toHost # <<>> /\ Head(toHost).cmd # "CNXN" /\ toHost' = Tail(toHost)
      /\ pending' = IF Head(toHost).arg1 \in openStreams
                      THEN [pending EXCEPT ![Head(toHost).arg1] = Append(@, Head(toHost))] ELSE pending
  BY DEF Route, PutAside
<1>2. Head(toHost) \in HostMessages /\ Tail(toHost) \in Seq(ToHost) /\ Head(toHost).arg1 \in Ids
  <2>1. Head(toHost) \in ToHost /\ Tail(toHost) \in Seq(ToHost)
    BY <1>1, TailIndex DEF TypeInv, PipesType
  <2> QED BY <1>1, <2>1, MessageType
<1>3. pending' \in [Ids -> Seq(HostMessages)]
  BY <1>1, <1>2 DEF TypeInv, PipesType
<1>4. PipesType'
  BY <1>1, <1>2, <1>3 DEF Route, PipesType, TypeInv
<1>5. TablesType' /\ DeviceType' /\ CallType' /\ OpensType'
  BY DEF Route, TypeInv, objects, device, TablesType, DeviceType, CallType, OpensType
<1> QED BY <1>1, <1>2, <1>4, <1>5 DEF TypeInv

\* What Receive and the other ways of taking a message leave within its type.
LEMMA ReceiveType ==
  ASSUME TypeInv, NEW id \in Ids, Arrived(id), Receive(id, Arrival(id))
  PROVE /\ PipesType' /\ openStreams' \subseteq Ids /\ state' \in [Ids -> States]
        /\ received' \in [Ids -> Seq(Nat)]
<1> DEFINE m == Arrival(id)
<1>1. m \in HostMessages /\ m.cmd \in {"OKAY", "CLSE", "WRTE"} /\ m.data \in Nat /\ remoteId[id] \in Nat
  BY ArrivalType, MessageType DEF TypeInv, TablesType
<1>2. CASE m.cmd = "WRTE"
  <2>1. Take(id) /\ Send(<<Okay(id, remoteId[id])>>) /\ UNCHANGED <<openStreams, state>>
        /\ received' = [received EXCEPT ![id] = Append(@, m.data)]
    BY <1>2 DEF Receive
  <2>2. Okay(id, remoteId[id]) \in ToDevice
    BY <1>1, Sent
  <2>3. toDevice' \in Seq(ToDevice)
    BY <2>1, <2>2, SendOne DEF TypeInv, PipesType
  <2>4. received' \in [Ids -> Seq(Nat)]
    BY <1>1, <2>1 DEF TypeInv, TablesType
  <2> QED BY <2>1, <2>3, <2>4, TakeShape DEF TypeInv, PipesType, TablesType
<1>3. CASE m.cmd = "CLSE"
  <2>1. TakeAndClose(id) /\ Send(CloseMessages(id, remoteId[id])) /\ UNCHANGED received
        /\ state' = [state EXCEPT ![id] = "closed"]
    BY <1>3 DEF Receive
  <2>2. toDevice' \in Seq(ToDevice)
    BY <1>1, <2>1, SendClose DEF TypeInv, PipesType
  <2>3. state' \in [Ids -> States]
    BY <2>1 DEF TypeInv, TablesType, States
  <2> QED BY <2>1, <2>2, <2>3, CloseType DEF TypeInv, PipesType, TablesType
<1>4. CASE m.cmd = "OKAY"
  <2>1. Take(id) /\ UNCHANGED <<openStreams, state, toDevice, received>>
    BY <1>4 DEF Receive
  <2> QED BY <2>1, TakeShape DEF TypeInv, PipesType, TablesType
<1> QED BY <1>1, <1>2, <1>3, <1>4

LEMMA CallIs ==
  ASSUME TypeInv, call.op \in Operations
  PROVE call # Idle /\ call.id \in Ids /\ call.left \in Nat
  BY CallShape DEF TypeInv

LEMMA OpenReplyType ==
  ASSUME TypeInv, OpenReply
  PROVE TypeInv'
<1> DEFINE id == call.id  m == Arrival(id)  admitted == m.cmd = "OKAY" /\ m.arg0 # 0
<1>1. id \in Ids /\ Arrived(id)
  BY CallIs DEF OpenReply, Operations
<1>2. m \in HostMessages /\ m.arg0 \in Nat
  BY <1>1, ArrivalType, MessageType DEF TypeInv
<1>3. PipesType' /\ openStreams' \subseteq Ids /\ remoteId' \in [Ids -> Nat]
  <2>1. CASE admitted
    <3>1. Take(id) /\ remoteId' = [remoteId EXCEPT ![id] = m.arg0] /\ UNCHANGED <<openStreams, toDevice>>
      BY <2>1 DEF OpenReply
    <3>2. remoteId' \in [Ids -> Nat]
      BY <1>1, <1>2, <3>1 DEF TypeInv, TablesType
    <3> QED BY <1>1, <3>1, <3>2, TakeShape DEF TypeInv, TablesType, PipesType
  <2>2. CASE ~admitted
    <3>1. TakeAndClose(id) /\ Send(CloseMessages(id, 0)) /\ UNCHANGED remoteId
      BY <2>2 DEF OpenReply
    <3>2. toDevice' \in Seq(ToDevice)
      BY <1>1, <3>1, SendClose DEF TypeInv, PipesType
    <3> QED BY <1>1, <3>1, <3>2, CloseType DEF TypeInv, TablesType, PipesType
  <2> QED BY <2>1, <2>2
<1>4. TablesType'
  <2>1. state' = [state EXCEPT ![id] = IF admitted THEN "live" ELSE "failed"]
        /\ UNCHANGED <<received, delivered, written>>
    BY DEF OpenReply
  <2>2. state' \in [Ids -> States]
    BY <1>1, <2>1 DEF TypeInv, TablesType, States
  <2> QED BY <1>3, <2>1, <2>2 DEF TypeInv, TablesType
<1>5. DeviceType' /\ CallType' /\ OpensType'
  BY DEF OpenReply, TypeInv, device, DeviceType, CallType, OpensType
<1> QED BY <1>3, <1>4, <1>5 DEF TypeInv

LEMMA ReadReceivesType ==
  ASSUME TypeInv, ReadReceives
  PROVE TypeInv'
<1> DEFINE id == call.id
<1>1. id \in Ids /\ Arrived(id)
  BY CallIs DEF ReadReceives, Operations
<1>2. PipesType' /\ openStreams' \subseteq Ids /\ state' \in [Ids -> States] /\ received' \in [Ids -> Seq(Nat)]
  BY <1>1, ReceiveType DEF ReadReceives
<1>3. TablesType' /\ DeviceType' /\ OpensType'
  BY <1>2 DEF ReadReceives, TypeInv, TablesType, device, DeviceType, OpensType
<1>4. CallType'
  <2>1. call' = call \/ call' = Idle
    BY DEF ReadReceives
  <2> QED BY <2>1 DEF TypeInv, CallType
<1> QED BY <1>2, <1>3, <1>4 DEF TypeInv

LEMMA WritePieceType ==
  ASSUME TypeInv, NEW id \in Ids, NEW left \in Nat, WritePiece(id, left)
  PROVE /\ written' \in [Ids -> Nat] /\ CallType' /\ toDevice' \in Seq(ToDevice)
        /\ toDevice' = Append(toDevice, Wrte(id, remoteId[id], written[id] + 1))
        /\ call' = Call("write", id, left)
<1>1. remoteId[id] \in Nat /\ written[id] + 1 \in Nat
  BY DEF TypeInv, TablesType
<1>2. written' \in [Ids -> Nat]
  BY <1>1 DEF WritePiece, TypeInv, TablesType
<1>3. Wrte(id, remoteId[id], written[id] + 1) \in ToDevice
  BY <1>1, Sent
<1>4. call' = Call("write", id, left) /\ CallType'
  BY NewCall DEF WritePiece, CallType, Operations
<1> QED BY <1>2, <1>3, <1>4, SendOne DEF WritePiece, TypeInv, PipesType

LEMMA WriteReceivesType ==
  ASSUME TypeInv, WriteReceives
  PROVE TypeInv'
<1> DEFINE id == call.id  m == Arrival(id)
<1>1. id \in Ids /\ Arrived(id) /\ call.left \in Nat
  BY CallIs DEF WriteReceives, Operations
<1>2. /\ PipesType' /\ openStreams' \subseteq Ids /\ state' \in [Ids -> States]
      /\ received' \in [Ids -> Seq(Nat)] /\ written' \in [Ids -> Nat] /\ CallType'
  <2>1. CASE m.cmd = "OKAY" /\ call.left > 0
    <3>1. Take(id) /\ WritePiece(id, call.left - 1) /\ UNCHANGED <<openStreams, state, received>>
      BY <2>1 DEF WriteReceives
    <3>2. call.left - 1 \in Nat
      BY <1>1, <2>1
    <3> QED BY <1>1, <3>1, <3>2, TakeShape, WritePieceType DEF TypeInv, TablesType, PipesType
  <2>2. CASE ~(m.cmd = "OKAY" /\ call.left > 0)
    <3>1. Receive(id, m) /\ (call' = Idle \/ call' = call) /\ UNCHANGED written
      BY <2>2 DEF WriteReceives
    <3> QED BY <1>1, <3>1, ReceiveType DEF TypeInv, TablesType, CallType
  <2> QED BY <2>1, <2>2
<1>3. TablesType' /\ DeviceType' /\ OpensType'
  BY <1>2 DEF WriteReceives, TypeInv, TablesType, device, DeviceType, OpensType
<1> QED BY <1>2, <1>3 DEF TypeInv

LEMMA ShellReceivesType ==
  ASSUME TypeInv, ShellReceives
  PROVE TypeInv'
<1> DEFINE id == call.id  m == Arrival(id)
<1>1. id \in Ids /\ Arrived(id)
  BY CallIs DEF ShellReceives, Operations
<1>2. /\ m \in HostMessages /\ m.arg0 \in Nat /\ m.data \in Nat /\ m.cmd \in {"OKAY", "CLSE", "WRTE"}
      /\ remoteId[id] \in Nat
  BY <1>1, ArrivalType, MessageType DEF TypeInv, TablesType
<1>3. /\ PipesType' /\ openStreams' \subseteq Ids /\ state' \in [Ids -> States]
      /\ delivered' \in [Ids -> Seq(Nat)] /\ remoteId' \in [Ids -> Nat] /\ CallType'
  <2>1. CASE m.cmd = "OKAY"
    <3>1. Take(id) /\ remoteId' = [remoteId EXCEPT ![id] = m.arg0]
          /\ UNCHANGED <<openStreams, state, delivered, toDevice, call>>
      BY <2>1 DEF ShellReceives
    <3>2. remoteId' \in [Ids -> Nat]
      BY <1>1, <1>2, <3>1 DEF TypeInv, TablesType
    <3> QED BY <1>1, <3>1, <3>2, TakeShape DEF TypeInv, TablesType, PipesType, CallType
  <2>2. CASE m.cmd = "WRTE"
    <3>1. Take(id) /\ Send(<<Okay(id, remoteId[id])>>) /\ delivered' = [delivered EXCEPT ![id] = Append(@, m.data)]
          /\ UNCHANGED <<openStreams, state, remoteId, call>>
      BY <2>2 DEF ShellReceives, ShellAck
    <3>2. delivered' \in [Ids -> Seq(Nat)]
      BY <1>1, <1>2, <3>1 DEF TypeInv, TablesType
    <3>3. toDevice' \in Seq(ToDevice)
      BY <1>1, <1>2, <3>1, Sent, SendOne DEF TypeInv, PipesType
    <3> QED BY <1>1, <3>1, <3>2, <3>3, TakeShape DEF TypeInv, TablesType, PipesType, CallType
  <2>3. CASE m.cmd = "CLSE"
    <3> DEFINE remote == IF remoteId[id] = 0 THEN m.arg0 ELSE remoteId[id]
    <3>1. TakeAndClose(id) /\ Send(CloseMessages(id, remote)) /\ call' = Idle
          /\ state' = [state EXCEPT ![id] = "finished"] /\ UNCHANGED <<remoteId, delivered>>
      BY <2>3 DEF ShellReceives
    <3>2. remote \in Nat
      BY <1>2
    <3>3. state' \in [Ids -> States]
      BY <1>1, <3>1 DEF TypeInv, TablesType, States
    <3>4. toDevice' \in Seq(ToDevice)
      <4> HIDE DEF remote
      <4> QED BY <1>1, <3>1, <3>2, SendClose DEF TypeInv, PipesType
    <3> QED BY <1>1, <3>1, <3>3, <3>4, CloseType DEF TypeInv, TablesType, PipesType, CallType
  <2> QED BY <1>2, <2>1, <2>2, <2>3
<1>4. TablesType' /\ DeviceType' /\ OpensType'
  BY <1>3 DEF ShellReceives, TypeInv, TablesType, device, DeviceType, OpensType
<1> QED BY <1>3, <1>4 DEF TypeInv

LEMMA FailType ==
  ASSUME TypeInv, call # Idle, Fail
  PROVE TablesType' /\ pending' \in [Ids -> Seq(HostMessages)] /\ toDevice' \in Seq(ToDevice)
        /\ DeviceType' /\ CallType' /\ OpensType'
<1> DEFINE id == call.id  whole == call.op \in {"open", "shell"}
<1>1. id \in Ids /\ remoteId[id] \in Nat
  BY CallShape DEF TypeInv, TablesType
<1>2. CASE whole
  <2>1. Send(CloseMessages(id, remoteId[id])) /\ openStreams' = openStreams \ {id}
        /\ pending' = [pending EXCEPT ![id] = <<>>] /\ state' = [state EXCEPT ![id] = "failed"]
    BY <1>2 DEF Fail
  <2>2. toDevice' \in Seq(ToDevice)
    BY <1>1, <2>1, SendClose DEF TypeInv, PipesType
  <2>3. state' \in [Ids -> States] /\ pending' \in [Ids -> Seq(HostMessages)]
    BY <1>1, <2>1 DEF TypeInv, TablesType, PipesType, States
  <2>4. TablesType'
    BY <2>1, <2>3 DEF Fail, TypeInv, TablesType
  <2> QED BY <2>2, <2>3, <2>4 DEF Fail, TypeInv, device, DeviceType, CallType, OpensType
<1>3. CASE ~whole
  <2>1. UNCHANGED <<toDevice, openStreams, pending, state>>
    BY <1>3 DEF Fail
  <2> QED BY <2>1 DEF Fail, TypeInv, TablesType, PipesType, device, DeviceType, CallType, OpensType
<1> QED BY <1>2, <1>3

LEMMA FailuresType ==
  ASSUME TypeInv, TimesOut \/ SeesRestart
  PROVE TypeInv'
<1>1. Fail /\ call # Idle
  BY DEF TimesOut, SeesRestart
<1>2. toHost' \in Seq(ToHost)
  <2>1. CASE TimesOut
    BY <2>1 DEF TimesOut, TypeInv, PipesType
  <2>2. CASE SeesRestart
    <3>1. toHost # <<>> /\ toHost' = Tail(toHost)
      BY <2>2 DEF SeesRestart
    <3> QED BY <3>1, TailIndex DEF TypeInv, PipesType
  <2> QED BY <2>1, <2>2
<1> QED BY <1>1, <1>2, FailType DEF TypeInv, PipesType

LEMMA StreamsType ==
  ASSUME TypeInv, NEW id \in Ids, ReadBuffered(id) \/ ReadWaits(id) \/ WriteBegins(id) \/ Dispose(id)
  PROVE TypeInv'
<1>1. CASE ReadBuffered(id)
  <2>1. received[id] # <<>> /\ received[id] \in Seq(Nat) /\ delivered[id] \in Seq(Nat)
    BY <1>1 DEF ReadBuffered, TypeInv, TablesType
  <2>2. Head(received[id]) \in Nat /\ Tail(received[id]) \in Seq(Nat)
    BY <2>1, TailIndex
  <2>3. received' \in [Ids -> Seq(Nat)] /\ delivered' \in [Ids -> Seq(Nat)]
    BY <1>1, <2>1, <2>2 DEF ReadBuffered, TypeInv, TablesType
  <2> QED BY <1>1, <2>3 DEF ReadBuffered, client, device, TypeInv, TablesType, PipesType, DeviceType, CallType, OpensType
<1>2. CASE ReadWaits(id)
  <2>1. CallType'
    <3>1. 0 \in Nat
      OBVIOUS
    <3> QED BY <1>2, <3>1, NewCall DEF ReadWaits, CallType, Operations
  <2> QED BY <1>2, <2>1 DEF ReadWaits, client, objects, device, TypeInv, TablesType, PipesType, DeviceType, OpensType
<1>3. CASE WriteBegins(id)
  <2>1. PICK pieces \in 1 .. MaxWritten - written[id] : WritePiece(id, pieces - 1)
    BY <1>3 DEF WriteBegins
  <2>2. pieces - 1 \in Nat
    BY <2>1, Bounds DEF TypeInv, TablesType
  <2>3. written' \in [Ids -> Nat] /\ CallType' /\ toDevice' \in Seq(ToDevice)
    BY <2>1, <2>2, WritePieceType
  <2> QED BY <1>3, <2>3 DEF WriteBegins, client, device, TypeInv, TablesType, PipesType, DeviceType, OpensType
<1>4. CASE Dispose(id)
  <2>1. toDevice' \in Seq(ToDevice) /\ openStreams' \subseteq Ids /\ pending' \in [Ids -> Seq(HostMessages)]
    <3>1. CASE state[id] = "live"
      <4>1. Send(CloseMessages(id, remoteId[id])) /\ openStreams' = openStreams \ {id}
            /\ pending' = [pending EXCEPT ![id] = <<>>]
        BY <1>4, <3>1 DEF Dispose
      <4>2. remoteId[id] \in Nat
        BY DEF TypeInv, TablesType
      <4> QED BY <4>1, <4>2, SendClose DEF TypeInv, TablesType, PipesType
    <3>2. CASE state[id] # "live"
      BY <1>4, <3>2 DEF Dispose, TypeInv, TablesType, PipesType
    <3> QED BY <3>1, <3>2
  <2>2. state' \in [Ids -> States]
    BY <1>4 DEF Dispose, TypeInv, TablesType, States
  <2> QED BY <1>4, <2>1, <2>2 DEF Dispose, device, TypeInv, TablesType, PipesType, DeviceType, CallType, OpensType
<1> QED BY <1>1, <1>2, <1>3, <1>4

\* The cases of DeviceReceives, each with what it does.
Admits(m) ==
  /\ m.cmd = "OPEN"
  /\ devRemote' = [devRemote EXCEPT ![m.arg0] = devNext] /\ devNext' = devNext + 1
  /\ toHost' = Append(toHost, Okay(devNext, m.arg0)) /\ UNCHANGED devAwait
Rejects(m) ==
  /\ m.cmd = "OPEN"
  /\ toHost' = Append(toHost, Clse(0, m.arg0)) /\ UNCHANGED <<devRemote, devNext, devAwait>>
Accepts(m) ==
  /\ m.cmd = "WRTE" /\ HasSocket(m.arg0)
  /\ toHost' = Append(toHost, Okay(devRemote[m.arg0], m.arg0)) /\ UNCHANGED <<devRemote, devNext, devAwait>>
GoesOn(m) ==
  /\ m.cmd = "OKAY" /\ HasSocket(m.arg0)
  /\ devAwait' = [devAwait EXCEPT ![m.arg0] = FALSE] /\ UNCHANGED <<toHost, devRemote, devNext>>
Answers(m) ==
  /\ m.cmd = "CLSE" /\ HasSocket(m.arg0) /\ devRemote' = [devRemote EXCEPT ![m.arg0] = 0]
  /\ devAwait' = [devAwait EXCEPT ![m.arg0] = FALSE]
  /\ toHost' = Append(toHost, Clse(0, m.arg0)) /\ UNCHANGED devNext
Ignores == UNCHANGED <<toHost, devRemote, devNext, devAwait>>

LEMMA DeviceCases ==
  ASSUME DeviceReceives
  PROVE LET m == Head(toDevice) IN
        /\ toDevice # <<>> /\ toDevice' = Tail(toDevice) /\ UNCHANGED <<hostSide, devSent>>
        /\ Admits(m) \/ Rejects(m) \/ Accepts(m) \/ GoesOn(m) \/ Answers(m) \/ Ignores
<1>1. toDevice # <<>> /\ toDevice' = Tail(toDevice) /\ UNCHANGED <<hostSide, devSent>>
  BY DEF DeviceReceives
<1>2. LET m == Head(toDevice) IN
      Admits(m) \/ Rejects(m) \/ Accepts(m) \/ GoesOn(m) \/ Answers(m) \/ Ignores
  BY Zenon DEF DeviceReceives, Socketless, Admits, Rejects, Accepts, GoesOn, Answers, Ignores
<1> QED BY <1>1, <1>2

LEMMA DeviceReceivesType ==
  ASSUME TypeInv, DeviceReceives
  PROVE TypeInv' /\ Head(toDevice) \in ToDevice /\ Head(toDevice).arg0 \in Ids
<1> DEFINE m == Head(toDevice)  id == m.arg0
<1>1. toDevice # <<>> /\ toDevice' = Tail(toDevice) /\ UNCHANGED <<hostSide, devSent>>
  BY DeviceCases
<1>2. m \in ToDevice /\ id \in Ids /\ toDevice' \in Seq(ToDevice)
  <2>1. m \in ToDevice /\ Tail(toDevice) \in Seq(ToDevice)
    BY <1>1, TailIndex DEF TypeInv, PipesType
  <2> QED BY <1>1, <2>1, MessageType
<1>3. Admits(m) \/ Rejects(m) \/ Accepts(m) \/ GoesOn(m) \/ Answers(m) \/ Ignores
  BY DeviceCases
<1> HIDE DEF m
<1>4. devNext \in Nat /\ devNext # 0 /\ devRemote[id] \in Nat /\ 0 \in Nat
  BY <1>2 DEF TypeInv, DeviceType
<1>5. Okay(devNext, id) \in ToHost /\ Clse(0, id) \in ToHost /\ Okay(devRemote[id], id) \in ToHost
  BY <1>2, <1>4, SentByDevice
<1>6. toHost' \in Seq(ToHost)
  <2>1. toHost' = toHost \/ \E a \in ToHost : toHost' = Append(toHost, a)
    BY <1>3, <1>5, Zenon DEF Admits, Rejects, Accepts, GoesOn, Answers, Ignores
  <2>2. \A a \in ToHost : Append(toHost, a) \in Seq(ToHost)
    BY DEF TypeInv, PipesType
  <2> QED BY <2>1, <2>2 DEF TypeInv, PipesType
<1>7. devRemote' \in [Ids -> Nat] /\ devNext' \in Nat \ {0}
  BY <1>2, <1>3, <1>4 DEF Admits, Rejects, Accepts, GoesOn, Answers, Ignores, TypeInv, DeviceType
<1>8. devAwait' \in [Ids -> BOOLEAN]
  BY <1>2, <1>3 DEF Admits, Rejects, Accepts, GoesOn, Answers, Ignores, TypeInv, DeviceType
<1>9. DeviceType'
  BY <1>1, <1>7, <1>8 DEF TypeInv, DeviceType
<1>10. TablesType' /\ PipesType' /\ CallType' /\ OpensType'
  BY <1>1, <1>2, <1>6 DEF hostSide, client, objects, TypeInv, TablesType, PipesType, CallType, OpensType
<1> QED BY <1>2, <1>9, <1>10 DEF TypeInv, m

LEMMA DeviceStepsType ==
  ASSUME TypeInv, DeviceRestarts \/ \E id \in Ids : DeviceSends(id) \/ DeviceCloses(id)
  PROVE TypeInv'
<1>1. CASE DeviceRestarts
  <2>1. toHost' \in Seq(ToHost)
    BY <1>1, MessageType DEF DeviceRestarts, TypeInv, PipesType
  <2>2. DeviceType'
    BY <1>1 DEF DeviceRestarts, TypeInv, DeviceType
  <2> QED BY <1>1, <2>1, <2>2 DEF DeviceRestarts, hostSide, client, objects, TypeInv, TablesType, PipesType,
    CallType, OpensType
<1>2. ASSUME NEW id \in Ids, DeviceSends(id) PROVE TypeInv'
  <2>1. devRemote[id] \in Nat /\ devSent[id] + 1 \in Nat
    BY DEF TypeInv, DeviceType
  <2>2. toHost' \in Seq(ToHost)
    BY <1>2, <2>1, SentByDevice DEF DeviceSends, TypeInv, PipesType
  <2>3. DeviceType'
    BY <1>2, <2>1 DEF DeviceSends, TypeInv, DeviceType
  <2> QED BY <1>2, <2>2, <2>3 DEF DeviceSends, hostSide, client, objects, TypeInv, TablesType, PipesType,
    CallType, OpensType
<1>3. ASSUME NEW id \in Ids, DeviceCloses(id) PROVE TypeInv'
  <2>1. devRemote[id] \in Nat /\ 0 \in Nat
    BY DEF TypeInv, DeviceType
  <2>2. toHost' \in Seq(ToHost)
    BY <1>3, <2>1, SentByDevice DEF DeviceCloses, TypeInv, PipesType
  <2>3. DeviceType'
    BY <1>3 DEF DeviceCloses, Socketless, TypeInv, DeviceType
  <2> QED BY <1>3, <2>2, <2>3 DEF DeviceCloses, hostSide, client, objects, TypeInv, TablesType, PipesType,
    CallType, OpensType
<1> QED BY <1>1, <1>2, <1>3

LEMMA TypeStep == DistinctIds /\ TypeInv /\ [Next]_vars => TypeInv'
<1> SUFFICES ASSUME DistinctIds, TypeInv, [Next]_vars PROVE TypeInv'
  OBVIOUS
<1>1. CASE Start("open") \/ Start("shell")
  BY <1>1, StartType
<1>2. CASE HostReceives
  BY <1>2, RouteType, OpenReplyType, ReadReceivesType, WriteReceivesType, ShellReceivesType, FailuresType
  DEF HostReceives
<1>3. CASE TimesOut
  BY <1>3, FailuresType
<1>4. CASE \E id \in Ids : ReadBuffered(id) \/ ReadWaits(id) \/ WriteBegins(id) \/ Dispose(id)
  BY <1>4, StreamsType
<1>5. CASE DeviceReceives
  BY <1>5, DeviceReceivesType
<1>6. CASE DeviceRestarts \/ \E id \in Ids : DeviceSends(id) \/ DeviceCloses(id)
  BY <1>6, DeviceStepsType
<1>7. CASE UNCHANGED vars
  BY <1>7 DEF vars, client, objects, device, TypeInv, TablesType, PipesType, DeviceType, CallType, OpensType
<1> QED BY <1>1, <1>2, <1>3, <1>4, <1>5, <1>6, <1>7 DEF Next

-----------------------------------------------------------------------------
(* The inductive invariant, stream by stream.                               *)

\* No data of the stream is on its way to the caller; no end of it is.
Empty(x) == NoData(pending[x], x) /\ NoData(toHost, x)
Unended(x) == NoEnd(pending[x], x) /\ NoEnd(toHost, x)
Over(x) == ~Unended(x) \/ state[x] \in {"closed", "finished"}
Carried(x, n) == DataIs(pending[x], x, n) /\ DataIs(toHost, x, n)
Own(s, x) == \A i \in 1 .. Len(s) : s[i].arg1 = x

\* One unit at a time, and the end behind it.
Lane(x) ==
  /\ Own(pending[x], x)
  /\ OneData(pending[x], x) /\ OneData(toHost, x)
  /\ NoData(pending[x], x) \/ NoData(toHost, x)
  /\ EndLast(pending[x], x) /\ EndLast(toHost, x)
  /\ NoEnd(pending[x], x) \/ NoData(toHost, x)

\* The device sends the next unit when the last one has been taken.
Paced(x) ==
  /\ OneAck(toDevice, x)
  /\ Empty(x) \/ NoAck(toDevice, x)
  /\ devRemote[x] # 0 /\ ~devAwait[x] => Empty(x) /\ NoAck(toDevice, x)

\* Before the device has seen the OPEN there is nothing of the stream, and
\* after the end there is no socket and no OPEN that could make one.
Blank(x) ==
  /\ remoteId[x] = 0 /\ devRemote[x] = 0 /\ devSent[x] = 0
  /\ pending[x] = <<>> /\ received[x] = <<>> /\ delivered[x] = <<>> /\ Quiet(toHost, x)
OneLife(x) ==
  /\ LoneOpen(toDevice, x)
  /\ x > opens => state[x] = "none" /\ Silent(toDevice, x)
  /\ ~NoOpen(toDevice, x) => state[x] \in {"opening", "failed"}
  /\ x > opens \/ ~NoOpen(toDevice, x) => Blank(x)
  /\ Over(x) => devRemote[x] = 0 /\ NoOpen(toDevice, x)

Table(x) ==
  /\ x \in openStreams <=> state[x] \in {"opening", "live"}
  /\ state[x] = "opening" => received[x] = <<>>

\* What the caller and the buffer have is numbered from 1, and only the unit
\* on its way is missing while the stream is open.
Numbered(x) ==
  /\ \A i \in 1 .. Len(delivered[x]) : delivered[x][i] = i
  /\ \A i \in 1 .. Len(received[x]) : received[x][i] = Len(delivered[x]) + i
Count(x) == Len(delivered[x]) + Len(received[x])
Tally(x) ==
  /\ Count(x) <= devSent[x]
  /\ state[x] \in {"closed", "finished"} => Count(x) = devSent[x]
  /\ x \in openStreams /\ Empty(x) => Count(x) = devSent[x]
  /\ x \in openStreams /\ ~Empty(x) => Count(x) + 1 = devSent[x] /\ Carried(x, devSent[x])

Stream(x) == Lane(x) /\ Paced(x) /\ OneLife(x) /\ Table(x) /\ Numbered(x) /\ Tally(x)
Calling ==
  call # Idle => state[call.id] = IF call.op \in {"open", "shell"} THEN "opening" ELSE "live"
StreamsInv == Calling /\ \A x \in Ids : Stream(x)

\* The empty queue, and what follows for a stream that is not blank.
LEMMA Nothing ==
  ASSUME NEW x
  PROVE /\ Own(<<>>, x) /\ OneData(<<>>, x) /\ NoData(<<>>, x) /\ EndLast(<<>>, x) /\ NoEnd(<<>>, x)
        /\ \A n : DataIs(<<>>, x, n)
  BY DEF Own, OneData, NoData, EndLast, NoEnd, DataIs
LEMMA NoDataIs ==
  ASSUME NEW s, NEW x, NEW n, NoData(s, x)
  PROVE DataIs(s, x, n) /\ OneData(s, x) /\ EndLast(s, x)
  BY DEF NoData, DataIs, OneData, EndLast
LEMMA Blankness ==
  ASSUME PipesType, NEW x, OneLife(x)
  PROVE /\ ~Blank(x) => ~(x > opens) /\ NoOpen(toDevice, x)
        /\ Arrived(x) \/ received[x] # <<>> \/ remoteId[x] # 0 \/ devRemote[x] # 0 => ~Blank(x)
        /\ state[x] \in {"live", "closed"} => ~(x > opens) /\ NoOpen(toDevice, x)
<1>1. Blank(x) => ~Arrived(x)
  <2> SUFFICES ASSUME pending[x] = <<>>, Quiet(toHost, x), toHost # <<>>, Head(toHost).arg1 = x PROVE FALSE
    BY DEF Blank, Arrived
  <2> QED BY HostTail DEF PipesType
<1> QED BY <1>1 DEF OneLife, Blank

\* A stream that a step does not concern.
Untouched(x) ==
  /\ pending'[x] = pending[x] /\ state'[x] = state[x] /\ remoteId'[x] = remoteId[x]
  /\ received'[x] = received[x] /\ delivered'[x] = delivered[x]
  /\ devRemote'[x] = devRemote[x] /\ devAwait'[x] = devAwait[x] /\ devSent'[x] = devSent[x]
  /\ x \in openStreams' <=> x \in openStreams
HostElsewhere(x) ==
  \/ toHost' = toHost
  \/ toHost # <<>> /\ Head(toHost).arg1 # x /\ toHost' = Tail(toHost)
  \/ \E m \in ToHost : m.arg1 # x /\ toHost' = Append(toHost, m)
DeviceElsewhere(x) ==
  \/ toDevice' = toDevice
  \/ toDevice # <<>> /\ Head(toDevice).arg0 # x /\ toDevice' = Tail(toDevice)
  \/ \E m \in ToDevice : m.arg0 # x /\ toDevice' = Append(toDevice, m)

LEMMA SameToHost ==
  ASSUME PipesType, NEW x, HostElsewhere(x)
  PROVE /\ NoData(toHost', x) <=> NoData(toHost, x)
        /\ OneData(toHost, x) => OneData(toHost', x)
        /\ \A n : DataIs(toHost, x, n) => DataIs(toHost', x, n)
        /\ NoEnd(toHost', x) <=> NoEnd(toHost, x)
        /\ EndLast(toHost, x) => EndLast(toHost', x)
        /\ Quiet(toHost, x) => Quiet(toHost', x)
<1>1. CASE toHost' = toHost
  BY <1>1
<1>2. CASE toHost # <<>> /\ Head(toHost).arg1 # x /\ toHost' = Tail(toHost)
  <2>1. ~IsData(Head(toHost), x) /\ ~IsEnd(Head(toHost), x)
    BY <1>2 DEF IsData, IsEnd
  <2> QED BY <1>2, <2>1, HostTail DEF PipesType
<1>3. ASSUME NEW m \in ToHost, m.arg1 # x, toHost' = Append(toHost, m)
      PROVE /\ NoData(toHost', x) <=> NoData(toHost, x)
            /\ OneData(toHost, x) => OneData(toHost', x)
            /\ \A n : DataIs(toHost, x, n) => DataIs(toHost', x, n)
            /\ NoEnd(toHost', x) <=> NoEnd(toHost, x)
            /\ EndLast(toHost, x) => EndLast(toHost', x)
            /\ Quiet(toHost, x) => Quiet(toHost', x)
  <2>1. ~IsData(m, x) /\ ~IsEnd(m, x)
    BY <1>3 DEF IsData, IsEnd
  <2> QED BY <1>3, <2>1, HostAppend DEF PipesType
<1> QED BY <1>1, <1>2, <1>3 DEF HostElsewhere

LEMMA SameToDevice ==
  ASSUME PipesType, NEW x, DeviceElsewhere(x)
  PROVE /\ NoAck(toDevice', x) <=> NoAck(toDevice, x)
        /\ OneAck(toDevice, x) => OneAck(toDevice', x)
        /\ NoOpen(toDevice', x) <=> NoOpen(toDevice, x)
        /\ LoneOpen(toDevice, x) => LoneOpen(toDevice', x)
        /\ Silent(toDevice, x) => Silent(toDevice', x)
<1>1. CASE toDevice' = toDevice
  BY <1>1
<1>2. CASE toDevice # <<>> /\ Head(toDevice).arg0 # x /\ toDevice' = Tail(toDevice)
  <2>1. ~IsAck(Head(toDevice), x) /\ ~IsOpen(Head(toDevice), x)
    BY <1>2 DEF IsAck, IsOpen
  <2> QED BY <1>2, <2>1, DeviceTail DEF PipesType
<1>3. ASSUME NEW m \in ToDevice, m.arg0 # x, toDevice' = Append(toDevice, m)
      PROVE /\ NoAck(toDevice', x) <=> NoAck(toDevice, x)
            /\ OneAck(toDevice, x) => OneAck(toDevice', x)
            /\ NoOpen(toDevice', x) <=> NoOpen(toDevice, x)
            /\ LoneOpen(toDevice, x) => LoneOpen(toDevice', x)
            /\ Silent(toDevice, x) => Silent(toDevice', x)
  <2>1. ~IsAck(m, x) /\ ~IsOpen(m, x)
    BY <1>3 DEF IsAck, IsOpen
  <2> QED BY <1>3, <2>1, DeviceAppend DEF PipesType
<1> QED BY <1>1, <1>2, <1>3 DEF DeviceElsewhere

LEMMA Elsewhere ==
  ASSUME PipesType, NEW x \in Ids, Stream(x), Untouched(x), HostElsewhere(x), DeviceElsewhere(x),
         x > opens' => x > opens
  PROVE Stream(x)'
<1>1. (Empty(x)' <=> Empty(x)) /\ (Unended(x)' <=> Unended(x)) /\ (Over(x)' <=> Over(x))
  BY SameToHost DEF Untouched, Empty, Unended, Over
<1>2. Lane(x)'
  BY SameToHost DEF Stream, Lane, Untouched
<1>3. Paced(x)'
  BY <1>1, SameToDevice DEF Stream, Paced, Untouched
<1>4. Blank(x) => Blank(x)'
  BY SameToHost DEF Blank, Untouched
<1>5. OneLife(x)'
  BY <1>1, <1>4, SameToDevice DEF Stream, OneLife, Untouched
<1>6. Table(x)' /\ Numbered(x)'
  BY DEF Stream, Table, Numbered, Untouched
<1>7. Tally(x)'
  <2>1. Count(x)' = Count(x)
    BY DEF Count, Untouched
  <2>2. Carried(x, devSent[x]) => Carried(x, devSent[x])'
    BY SameToHost DEF Carried, Untouched
  <2> QED BY <1>1, <2>1, <2>2 DEF Stream, Tally, Untouched
<1> QED BY <1>2, <1>3, <1>5, <1>6, <1>7 DEF Stream

-----------------------------------------------------------------------------
(* What taking, dropping, clearing and putting aside do to a lane.          *)

\* A call takes its message: data leaves the lane empty, an end was its last.
LEMMA TakeLane ==
  ASSUME PipesType, NEW x \in Ids, Lane(x), Arrived(x), Take(x)
  PROVE /\ Lane(x)' /\ Arrival(x).arg1 = x /\ (Unended(x) => Unended(x)') /\ (Empty(x) => Empty(x)')
        /\ IsData(Arrival(x), x) => ~Empty(x) /\ Empty(x)' /\ \A n : Carried(x, n) => Arrival(x).data = n
        /\ ~IsData(Arrival(x), x) => (Empty(x)' <=> Empty(x)) /\ \A n : Carried(x, n) => Carried(x, n)'
<1> DEFINE m == Arrival(x)  P == pending[x]
<1>1. CASE FromQueue(x)
  <2>1. P # <<>> /\ P \in Seq(HostMessages) /\ m = Head(P) /\ pending'[x] = Tail(P) /\ toHost' = toHost
    BY <1>1 DEF FromQueue, PipesType
  <2>2. m.arg1 = x /\ Own(Tail(P), x)
    BY <2>1, TailIndex DEF Lane, Own
  <2> HIDE DEF P, m
  <2>3. /\ NoData(P, x) <=> NoData(Tail(P), x) /\ ~IsData(m, x)
        /\ OneData(P, x) => OneData(Tail(P), x) /\ (IsData(m, x) => NoData(Tail(P), x))
        /\ \A n : DataIs(P, x, n) => DataIs(Tail(P), x, n) /\ (IsData(m, x) => m.data = n)
        /\ NoEnd(P, x) <=> NoEnd(Tail(P), x) /\ ~IsEnd(m, x)
        /\ EndLast(P, x) => EndLast(Tail(P), x)
    BY <2>1, HostTail
  <2>4. Own(P, x) /\ OneData(P, x) /\ OneData(toHost, x) /\ (NoData(P, x) \/ NoData(toHost, x))
        /\ EndLast(P, x) /\ EndLast(toHost, x) /\ (NoEnd(P, x) \/ NoData(toHost, x))
    BY DEF Lane, P
  <2>5. Lane(x)'
    BY <2>1, <2>2, <2>3, <2>4 DEF Lane
  <2>6. (Empty(x) <=> NoData(P, x) /\ NoData(toHost, x)) /\ (Unended(x) <=> NoEnd(P, x) /\ NoEnd(toHost, x))
        /\ \A n : Carried(x, n) <=> DataIs(P, x, n) /\ DataIs(toHost, x, n)
    BY DEF Empty, Unended, Carried, P
  <2>7. (Empty(x)' <=> NoData(Tail(P), x) /\ NoData(toHost, x))
        /\ (Unended(x)' <=> NoEnd(Tail(P), x) /\ NoEnd(toHost, x))
        /\ \A n : Carried(x, n)' <=> DataIs(Tail(P), x, n) /\ DataIs(toHost, x, n)
    BY <2>1 DEF Empty, Unended, Carried
  <2> QED BY <2>2, <2>3, <2>4, <2>5, <2>6, <2>7 DEF m
<1>2. CASE FromPipe(x) /\ m.arg1 = x
  <2>1. P = <<>> /\ toHost # <<>> /\ toHost \in Seq(ToHost) /\ m = Head(toHost)
        /\ pending'[x] = P /\ toHost' = Tail(toHost)
    BY <1>2 DEF FromPipe, PipesType
  <2> HIDE DEF P, m
  <2>3. /\ NoData(toHost, x) <=> NoData(Tail(toHost), x) /\ ~IsData(m, x)
        /\ OneData(toHost, x) => OneData(Tail(toHost), x) /\ (IsData(m, x) => NoData(Tail(toHost), x))
        /\ \A n : DataIs(toHost, x, n) => DataIs(Tail(toHost), x, n) /\ (IsData(m, x) => m.data = n)
        /\ NoEnd(toHost, x) <=> NoEnd(Tail(toHost), x) /\ ~IsEnd(m, x)
        /\ EndLast(toHost, x) => EndLast(Tail(toHost), x)
    BY <2>1, HostTail
  <2>4. Own(P, x) /\ OneData(P, x) /\ EndLast(P, x) /\ NoData(P, x) /\ NoEnd(P, x) /\ \A n : DataIs(P, x, n)
    BY <2>1, Nothing
  <2>5. OneData(toHost, x) /\ EndLast(toHost, x)
    BY DEF Lane
  <2>6. Lane(x)'
    BY <2>1, <2>3, <2>4, <2>5 DEF Lane
  <2>7. (Empty(x) <=> NoData(P, x) /\ NoData(toHost, x)) /\ (Unended(x) <=> NoEnd(P, x) /\ NoEnd(toHost, x))
        /\ \A n : Carried(x, n) <=> DataIs(P, x, n) /\ DataIs(toHost, x, n)
    BY DEF Empty, Unended, Carried, P
  <2>8. (Empty(x)' <=> NoData(P, x) /\ NoData(Tail(toHost), x))
        /\ (Unended(x)' <=> NoEnd(P, x) /\ NoEnd(Tail(toHost), x))
        /\ \A n : Carried(x, n)' <=> DataIs(P, x, n) /\ DataIs(Tail(toHost), x, n)
    BY <2>1 DEF Empty, Unended, Carried
  <2> QED BY <1>2, <2>3, <2>4, <2>5, <2>6, <2>7, <2>8 DEF m
<1> QED BY <1>1, <1>2, TakeShape

\* The end of a stream arrives after all its data.
LEMMA EndArrives ==
  ASSUME PipesType, NEW x \in Ids, Lane(x), Arrived(x), Arrival(x).cmd = "CLSE"
  PROVE Empty(x) /\ ~Unended(x)
<1>1. CASE pending[x] # <<>> /\ Arrival(x) = Head(pending[x])
  <2>1. IsEnd(Head(pending[x]), x)
    BY <1>1, TailIndex DEF PipesType, Lane, Own, IsEnd
  <2>2. NoData(pending[x], x) /\ ~NoEnd(pending[x], x)
    BY <1>1, <2>1, HostTail DEF PipesType, Lane
  <2> QED BY <2>2 DEF Empty, Unended, Lane
<1>2. CASE pending[x] = <<>> /\ toHost # <<>> /\ Arrival(x) = Head(toHost) /\ Arrival(x).arg1 = x
  <2>1. IsEnd(Head(toHost), x)
    BY <1>2 DEF IsEnd
  <2>2. NoData(toHost, x) /\ ~NoEnd(toHost, x)
    BY <1>2, <2>1, HostTail DEF PipesType, Lane
  <2> QED BY <1>2, <2>2, Nothing DEF Empty, Unended
<1> QED BY <1>1, <1>2, ArrivalType

\* A stream is removed, or a message is dropped.
LEMMA DropLane ==
  ASSUME PipesType, NEW x \in Ids, Lane(x), pending'[x] = <<>> \/ pending'[x] = pending[x],
         toHost' = toHost \/ (toHost # <<>> /\ toHost' = Tail(toHost))
  PROVE /\ Lane(x)' /\ (Unended(x) => Unended(x)') /\ (Empty(x) => Empty(x)')
        /\ Blank(x) => Quiet(toHost', x)
<1>1. /\ NoData(toHost, x) => NoData(toHost', x)
      /\ OneData(toHost, x) => OneData(toHost', x)
      /\ NoEnd(toHost, x) => NoEnd(toHost', x)
      /\ EndLast(toHost, x) => EndLast(toHost', x)
      /\ Quiet(toHost, x) => Quiet(toHost', x)
  <2>1. CASE toHost' = toHost
    BY <2>1
  <2>2. CASE toHost # <<>> /\ toHost' = Tail(toHost)
    BY <2>2, HostTail DEF PipesType
  <2> QED BY <2>1, <2>2
<1>2. CASE pending'[x] = <<>>
  BY <1>1, <1>2, Nothing DEF Lane, Empty, Unended, Blank
<1>3. CASE pending'[x] = pending[x]
  BY <1>1, <1>3 DEF Lane, Empty, Unended, Blank
<1> QED BY <1>2, <1>3

\* A message for another stream is put aside for it.
LEMMA RouteLane ==
  ASSUME PipesType, NEW x \in Ids, Lane(x), toHost # <<>>, Head(toHost) \in HostMessages, Head(toHost).arg1 = x,
         pending'[x] = Append(pending[x], Head(toHost)), toHost' = Tail(toHost)
  PROVE /\ Lane(x)' /\ (Unended(x)' <=> Unended(x)) /\ (Empty(x)' <=> Empty(x))
        /\ \A n : Carried(x, n) => Carried(x, n)'
<1> DEFINE m == Head(toHost)  P == pending[x]
<1>1. P \in Seq(HostMessages) /\ toHost \in Seq(ToHost)
  BY DEF PipesType
<1>2. /\ NoData(toHost, x) <=> NoData(toHost', x) /\ ~IsData(m, x)
      /\ OneData(toHost, x) => OneData(toHost', x) /\ (IsData(m, x) => NoData(toHost', x))
      /\ \A n : DataIs(toHost, x, n) => DataIs(toHost', x, n) /\ (IsData(m, x) => m.data = n)
      /\ NoEnd(toHost, x) <=> NoEnd(toHost', x) /\ ~IsEnd(m, x)
      /\ EndLast(toHost, x) => EndLast(toHost', x) /\ (IsEnd(m, x) => NoData(toHost, x))
  BY <1>1, HostTail
<1>3. Own(P, x) => Own(Append(P, m), x)
  BY <1>1, AppendIndex DEF Own
<1> HIDE DEF m, P
<1>4. /\ NoData(Append(P, m), x) <=> NoData(P, x) /\ ~IsData(m, x)
      /\ OneData(P, x) /\ (NoData(P, x) \/ ~IsData(m, x)) => OneData(Append(P, m), x)
      /\ \A n : DataIs(P, x, n) /\ (IsData(m, x) => m.data = n) => DataIs(Append(P, m), x, n)
      /\ NoEnd(Append(P, m), x) <=> NoEnd(P, x) /\ ~IsEnd(m, x)
      /\ EndLast(P, x) /\ (NoEnd(P, x) \/ ~IsData(m, x)) => EndLast(Append(P, m), x)
  BY <1>1, HostAppend DEF m
<1>5. /\ Own(P, x) /\ OneData(P, x) /\ OneData(toHost, x) /\ (NoData(P, x) \/ NoData(toHost, x))
      /\ EndLast(P, x) /\ EndLast(toHost, x) /\ (NoEnd(P, x) \/ NoData(toHost, x))
  BY DEF Lane, P
<1>6. pending'[x] = Append(P, m)
  BY DEF P, m
<1>7. Lane(x)'
  BY <1>2, <1>3, <1>4, <1>5, <1>6 DEF Lane
<1>8. (Empty(x)' <=> Empty(x)) /\ (Unended(x)' <=> Unended(x))
  BY <1>2, <1>4, <1>6 DEF Empty, Unended, P
<1>9. \A n : Carried(x, n) => Carried(x, n)'
  BY <1>2, <1>4, <1>6 DEF Carried, P
<1> QED BY <1>7, <1>8, <1>9

\* The device adds a message of the stream.
LEMMA SendLane ==
  ASSUME PipesType, NEW x \in Ids, Lane(x), NEW m \in ToHost, m.cmd # "WRTE" \/ (Empty(x) /\ Unended(x)),
         pending'[x] = pending[x], toHost' = Append(toHost, m)
  PROVE /\ Lane(x)' /\ (Empty(x)' <=> Empty(x) /\ ~IsData(m, x)) /\ (Unended(x)' <=> Unended(x) /\ ~IsEnd(m, x))
        /\ \A n : Carried(x, n) /\ (IsData(m, x) => m.data = n) => Carried(x, n)'
<1>1. /\ NoData(toHost', x) <=> NoData(toHost, x) /\ ~IsData(m, x)
      /\ OneData(toHost, x) /\ (NoData(toHost, x) \/ ~IsData(m, x)) => OneData(toHost', x)
      /\ \A n : DataIs(toHost, x, n) /\ (IsData(m, x) => m.data = n) => DataIs(toHost', x, n)
      /\ NoEnd(toHost', x) <=> NoEnd(toHost, x) /\ ~IsEnd(m, x)
      /\ EndLast(toHost, x) /\ (NoEnd(toHost, x) \/ ~IsData(m, x)) => EndLast(toHost', x)
  BY HostAppend DEF PipesType
<1>2. m.cmd # "WRTE" => ~IsData(m, x)
  BY DEF IsData
<1>3. Lane(x)'
  BY <1>1, <1>2 DEF Lane, Empty, Unended
<1>4. (Empty(x)' <=> Empty(x) /\ ~IsData(m, x)) /\ (Unended(x)' <=> Unended(x) /\ ~IsEnd(m, x))
  BY <1>1 DEF Empty, Unended
<1>5. \A n : Carried(x, n) /\ (IsData(m, x) => m.data = n) => Carried(x, n)'
  BY <1>1 DEF Carried
<1> QED BY <1>3, <1>4, <1>5

-----------------------------------------------------------------------------
(* A call takes a message of its stream.                                    *)

\* The host sends nothing, a piece or a CLSE; or it acknowledges the unit it took.
SpeaksOn ==
  \/ toDevice' = toDevice
  \/ \E a \in ToDevice : a.cmd \in {"WRTE", "CLSE"} /\ toDevice' = Append(toDevice, a)
AcksFor(x) ==
  /\ \E a \in ToDevice : a.cmd = "OKAY" /\ toDevice' = Append(toDevice, a)
  /\ ~Empty(x) /\ Empty(x)'

HostOnly(x) ==
  /\ devRemote'[x] = devRemote[x] /\ devAwait'[x] = devAwait[x] /\ devSent'[x] = devSent[x]
  /\ opens' = opens

LEMMA HostStep ==
  ASSUME PipesType, NEW x \in Ids, Paced(x), OneLife(x), ~(x > opens), NoOpen(toDevice, x),
         HostOnly(x), Unended(x) => Unended(x)',
         (SpeaksOn /\ (Empty(x) => Empty(x)')) \/ AcksFor(x),
         state'[x] \in {"closed", "finished"} => Over(x)
  PROVE Paced(x)' /\ OneLife(x)'
<1>1. CASE toDevice' = toDevice /\ (Empty(x) => Empty(x)')
  <2>1. Paced(x)'
    BY <1>1 DEF Paced, HostOnly
  <2>2. OneLife(x)'
    BY <1>1 DEF OneLife, Over, HostOnly
  <2> QED BY <2>1, <2>2
<1>2. ASSUME NEW a \in ToDevice, a.cmd \in {"WRTE", "CLSE", "OKAY"}, toDevice' = Append(toDevice, a),
             (a.cmd # "OKAY" /\ (Empty(x) => Empty(x)')) \/ (~Empty(x) /\ Empty(x)')
      PROVE Paced(x)' /\ OneLife(x)'
  <2>1. ~IsOpen(a, x) /\ (a.cmd # "OKAY" => ~IsAck(a, x))
    BY <1>2 DEF IsOpen, IsAck
  <2>2. /\ NoAck(toDevice', x) <=> NoAck(toDevice, x) /\ ~IsAck(a, x)
        /\ OneAck(toDevice, x) /\ (NoAck(toDevice, x) \/ ~IsAck(a, x)) => OneAck(toDevice', x)
        /\ NoOpen(toDevice', x) <=> NoOpen(toDevice, x) /\ ~IsOpen(a, x)
        /\ LoneOpen(toDevice, x) /\ NoOpen(toDevice, x) /\ ~IsOpen(a, x) => LoneOpen(toDevice', x)
    BY <1>2, DeviceAppend DEF PipesType
  <2>3. Paced(x)'
    BY <1>2, <2>1, <2>2 DEF Paced, HostOnly
  <2>4. OneLife(x)'
    BY <2>1, <2>2 DEF OneLife, Over, HostOnly
  <2> QED BY <2>3, <2>4
<1> QED BY <1>1, <1>2 DEF SpeaksOn, AcksFor

LEMMA Spoken ==
  ASSUME PipesType, NEW id \in Ids, NEW remote \in Nat, NEW n \in Nat
  PROVE /\ Send(CloseMessages(id, remote)) => SpeaksOn /\ \A x : x # id => DeviceElsewhere(x)
        /\ Send(<<Wrte(id, remote, n)>>) => SpeaksOn /\ \A x : x # id => DeviceElsewhere(x)
        /\ Send(<<Okay(id, remote)>>) =>
             /\ \E a \in ToDevice : a.cmd = "OKAY" /\ toDevice' = Append(toDevice, a)
             /\ \A x : x # id => DeviceElsewhere(x)
        /\ Send(<<Open(id)>>) => toDevice' = Append(toDevice, Open(id)) /\ \A x : x # id => DeviceElsewhere(x)
        /\ toDevice' = toDevice => SpeaksOn /\ \A x : DeviceElsewhere(x)
<1>1. ASSUME NEW a \in ToDevice, a.arg0 = id, toDevice' = Append(toDevice, a), NEW x, x # id
      PROVE DeviceElsewhere(x)
  BY <1>1 DEF DeviceElsewhere
<1>2. ASSUME toDevice' = toDevice PROVE SpeaksOn /\ \A x : DeviceElsewhere(x)
  BY <1>2 DEF SpeaksOn, DeviceElsewhere
<1>3. ASSUME Send(CloseMessages(id, remote)) PROVE SpeaksOn /\ \A x : x # id => DeviceElsewhere(x)
  <2>1. toDevice' = toDevice \/ toDevice' = Append(toDevice, Clse(id, remote))
    BY <1>3, SendClose DEF PipesType
  <2>2. Clse(id, remote) \in ToDevice /\ Clse(id, remote).cmd = "CLSE" /\ Clse(id, remote).arg0 = id
    BY Sent
  <2> QED BY <1>1, <1>2, <2>1, <2>2 DEF SpeaksOn
<1>4. ASSUME Send(<<Wrte(id, remote, n)>>) PROVE SpeaksOn /\ \A x : x # id => DeviceElsewhere(x)
  <2>1. Wrte(id, remote, n) \in ToDevice /\ Wrte(id, remote, n).cmd = "WRTE" /\ Wrte(id, remote, n).arg0 = id
    BY Sent
  <2>2. toDevice' = Append(toDevice, Wrte(id, remote, n))
    BY <1>4, <2>1, SendOne DEF PipesType
  <2> QED BY <1>1, <2>1, <2>2 DEF SpeaksOn
<1>5. ASSUME Send(<<Okay(id, remote)>>)
      PROVE /\ \E a \in ToDevice : a.cmd = "OKAY" /\ toDevice' = Append(toDevice, a)
            /\ \A x : x # id => DeviceElsewhere(x)
  <2>1. Okay(id, remote) \in ToDevice /\ Okay(id, remote).cmd = "OKAY" /\ Okay(id, remote).arg0 = id
    BY Sent
  <2>2. toDevice' = Append(toDevice, Okay(id, remote))
    BY <1>5, <2>1, SendOne DEF PipesType
  <2> QED BY <1>1, <2>1, <2>2
<1>6. ASSUME Send(<<Open(id)>>)
      PROVE toDevice' = Append(toDevice, Open(id)) /\ \A x : x # id => DeviceElsewhere(x)
  <2>1. Open(id) \in ToDevice /\ Open(id).arg0 = id
    BY Sent
  <2>2. toDevice' = Append(toDevice, Open(id))
    BY <1>6, <2>1, SendOne DEF PipesType
  <2> QED BY <1>1, <2>1, <2>2
<1> QED BY <1>2, <1>3, <1>4, <1>5, <1>6

\* Other streams do not see what a call takes or removes.
LEMMA TakenElsewhere ==
  ASSUME PipesType, openStreams \subseteq Ids, NEW id \in Ids, Arrived(id), NEW x \in Ids, x # id,
         (Take(id) /\ openStreams' = openStreams) \/ TakeAndClose(id)
  PROVE pending'[x] = pending[x] /\ (x \in openStreams' <=> x \in openStreams) /\ HostElsewhere(x)
<1>1. CASE Take(id) /\ openStreams' = openStreams
  <2>1. FromQueue(id) \/ (FromPipe(id) /\ Arrival(id).arg1 = id)
    BY <1>1, TakeShape
  <2>2. CASE FromQueue(id)
    BY <1>1, <2>2 DEF FromQueue, PipesType, HostElsewhere
  <2>3. CASE FromPipe(id) /\ Arrival(id).arg1 = id
    BY <1>1, <2>3 DEF FromPipe, HostElsewhere
  <2> QED BY <2>1, <2>2, <2>3
<1>2. CASE TakeAndClose(id)
  <2>1. pending'[x] = pending[x] /\ (x \in openStreams' <=> x \in openStreams)
    BY <1>2 DEF TakeAndClose, PipesType
  <2>2. HostElsewhere(x)
    BY <1>2, CloseType DEF HostElsewhere
  <2> QED BY <2>1, <2>2
<1> QED BY <1>1, <1>2

\* A unit received goes behind the ones that are there.
LEMMA NumberedAppend ==
  ASSUME NEW s \in Seq(Nat), NEW n \in Nat, NEW k \in Nat, n = k + Len(s) + 1,
         \A i \in 1 .. Len(s) : s[i] = k + i
  PROVE /\ Append(s, n) \in Seq(Nat) /\ Len(Append(s, n)) = Len(s) + 1
        /\ \A i \in 1 .. Len(Append(s, n)) : Append(s, n)[i] = k + i
<1>1. Len(s) \in Nat
  OBVIOUS
<1>2. \A i \in 1 .. Len(Append(s, n)) : i = Len(s) + 1 \/ i \in 1 .. Len(s)
  BY AppendIndex
<1>3. \A i \in 1 .. Len(s) : Append(s, n)[i] = k + i
  BY AppendIndex
<1>4. Append(s, n)[Len(s) + 1] = k + (Len(s) + 1)
  BY <1>1, AppendIndex
<1> QED BY <1>1, <1>2, <1>3, <1>4, AppendIndex

\* A message that is neither data nor an end.
LEMMA OkayTaken ==
  ASSUME TypeInv, NEW id \in Ids, Stream(id), state[id] \in {"opening", "live"}, Arrived(id),
         Arrival(id).cmd = "OKAY", Take(id), SpeaksOn, HostOnly(id),
         UNCHANGED <<openStreams, received, delivered>>, state'[id] \in {state[id], "live"}
  PROVE Stream(id)'
<1>1. PipesType /\ Lane(id) /\ Paced(id) /\ OneLife(id) /\ Table(id) /\ Numbered(id) /\ Tally(id)
  BY DEF TypeInv, Stream
<1>2. ~(id > opens) /\ NoOpen(toDevice, id)
  BY <1>1, Blankness
<1>3. ~IsData(Arrival(id), id)
  BY DEF IsData
<1>4. Lane(id)' /\ (Unended(id) => Unended(id)') /\ (Empty(id)' <=> Empty(id))
      /\ \A n : Carried(id, n) => Carried(id, n)'
  BY <1>1, <1>3, TakeLane
<1>5. Paced(id)' /\ OneLife(id)'
  BY <1>1, <1>2, <1>4, HostStep
<1>6. Numbered(id)' /\ Table(id)'
  BY <1>1 DEF Numbered, Table
<1>7. Tally(id)'
  BY <1>1, <1>4 DEF Tally, Count, HostOnly
<1> QED BY <1>4, <1>5, <1>6, <1>7 DEF Stream

\* The end of the stream.
LEMMA EndTaken ==
  ASSUME TypeInv, NEW id \in Ids, Stream(id), state[id] \in {"opening", "live"}, Arrived(id),
         Arrival(id).cmd = "CLSE", TakeAndClose(id), SpeaksOn, HostOnly(id),
         UNCHANGED <<received, delivered>>, state'[id] \in {"closed", "finished"}
  PROVE Stream(id)'
<1>1. PipesType /\ Lane(id) /\ Paced(id) /\ OneLife(id) /\ Table(id) /\ Numbered(id) /\ Tally(id)
  BY DEF TypeInv, Stream
<1>2. ~(id > opens) /\ NoOpen(toDevice, id) /\ id \in openStreams
  BY <1>1, Blankness DEF Table
<1>3. Empty(id) /\ ~Unended(id)
  BY <1>1, EndArrives
<1>4. pending'[id] = <<>> /\ (toHost' = toHost \/ (toHost # <<>> /\ toHost' = Tail(toHost)))
      /\ id \notin openStreams'
  BY <1>1, CloseType DEF TakeAndClose, PipesType, TypeInv, TablesType
<1>5. Lane(id)' /\ (Unended(id) => Unended(id)') /\ (Empty(id) => Empty(id)')
  BY <1>1, <1>4, DropLane
<1>6. Paced(id)' /\ OneLife(id)'
  BY <1>1, <1>2, <1>3, <1>5, HostStep DEF Over
<1>7. Numbered(id)' /\ Table(id)'
  BY <1>1, <1>4 DEF Numbered, Table
<1>8. Tally(id)'
  BY <1>1, <1>2, <1>3, <1>4 DEF Tally, Count, HostOnly
<1> QED BY <1>5, <1>6, <1>7, <1>8 DEF Stream

\* A stream that is given up, open or not.
LEMMA Removed ==
  ASSUME TypeInv, NEW id \in Ids, Stream(id), ~(id > opens), HostOnly(id),
         toDevice' = toDevice \/ (NoOpen(toDevice, id) /\ SpeaksOn),
         pending'[id] = <<>> \/ pending'[id] = pending[id],
         toHost' = toHost \/ (toHost # <<>> /\ toHost' = Tail(toHost)),
         UNCHANGED <<remoteId, received, delivered>>, id \notin openStreams',
         state'[id] = "failed" \/ (state'[id] = "disposed" /\ NoOpen(toDevice, id))
  PROVE Stream(id)'
<1>1. PipesType /\ Lane(id) /\ Paced(id) /\ OneLife(id) /\ Table(id) /\ Numbered(id) /\ Tally(id)
  BY DEF TypeInv, Stream
<1>2. Lane(id)' /\ (Unended(id) => Unended(id)') /\ (Empty(id) => Empty(id)') /\ (Blank(id) => Quiet(toHost', id))
  BY <1>1, DropLane
<1>3. Paced(id)' /\ OneLife(id)'
  <2>1. CASE NoOpen(toDevice, id) /\ SpeaksOn
    BY <1>1, <1>2, <2>1, HostStep
  <2>2. CASE toDevice' = toDevice
    <3>1. Paced(id)'
      BY <1>1, <1>2, <2>2 DEF Paced, HostOnly
    <3>2. Blank(id) => Blank(id)'
      BY <1>2 DEF Blank, HostOnly
    <3>3. OneLife(id)'
      BY <1>1, <1>2, <2>2, <3>2 DEF OneLife, Over, HostOnly
    <3> QED BY <3>1, <3>3
  <2> QED BY <2>1, <2>2
<1>4. Numbered(id)' /\ Table(id)'
  BY <1>1 DEF Numbered, Table
<1>5. Tally(id)'
  BY <1>1 DEF Tally, Count, HostOnly
<1> QED BY <1>2, <1>3, <1>4, <1>5 DEF Stream

\* A unit of data, which is acknowledged.
LEMMA UnitTaken ==
  ASSUME TypeInv, NEW id \in Ids, Stream(id), state[id] \in {"opening", "live"}, Arrived(id),
         Arrival(id).cmd = "WRTE", Take(id), Send(<<Okay(id, remoteId[id])>>), HostOnly(id),
         UNCHANGED <<openStreams, state>>
  PROVE /\ Lane(id)' /\ Paced(id)' /\ OneLife(id)' /\ Empty(id)'
        /\ Arrival(id).data \in Nat /\ Arrival(id).data = Len(delivered[id]) + Len(received[id]) + 1
        /\ Len(delivered[id]) + (Len(received[id]) + 1) = devSent'[id]
        /\ (Len(delivered[id]) + 1) + Len(received[id]) = devSent'[id]
<1> DEFINE m == Arrival(id)
<1>1. PipesType /\ Lane(id) /\ Paced(id) /\ OneLife(id) /\ Table(id) /\ Tally(id)
      /\ remoteId[id] \in Nat /\ 0 \in Nat
  BY DEF TypeInv, Stream, TablesType
<1>2. ~(id > opens) /\ NoOpen(toDevice, id) /\ id \in openStreams
  BY <1>1, Blankness DEF Table
<1>3. IsData(m, id)
  BY <1>1, TakeLane DEF IsData
<1>4. Lane(id)' /\ (Unended(id) => Unended(id)') /\ ~Empty(id) /\ Empty(id)'
      /\ \A n : Carried(id, n) => m.data = n
  BY <1>1, <1>3, TakeLane
<1>5. AcksFor(id)
  BY <1>1, <1>4, Spoken DEF AcksFor
<1>6. Paced(id)' /\ OneLife(id)'
  BY <1>1, <1>2, <1>4, <1>5, HostStep
<1>7. Len(delivered[id]) \in Nat /\ Len(received[id]) \in Nat /\ devSent[id] \in Nat /\ devSent'[id] = devSent[id]
  BY DEF TypeInv, TablesType, DeviceType, HostOnly
<1>8. Count(id) + 1 = devSent[id] /\ m.data = devSent[id]
  BY <1>1, <1>2, <1>4 DEF Tally
<1>9. \A a, b \in Nat : a + (b + 1) = a + b + 1 /\ (a + 1) + b = a + b + 1
  OBVIOUS
<1>10. Len(delivered[id]) + Len(received[id]) + 1 = devSent[id]
  BY <1>8 DEF Count
<1>11. /\ Len(delivered[id]) + (Len(received[id]) + 1) = devSent'[id]
       /\ (Len(delivered[id]) + 1) + Len(received[id]) = devSent'[id]
  BY <1>7, <1>9, <1>10
<1> QED BY <1>4, <1>6, <1>7, <1>8, <1>10, <1>11

LEMMA ReceiveStream ==
  ASSUME TypeInv, NEW id \in Ids, Stream(id), state[id] = "live", Arrived(id), Receive(id, Arrival(id)),
         UNCHANGED <<remoteId, delivered>>, HostOnly(id)
  PROVE Stream(id)'
<1> DEFINE m == Arrival(id)
<1>1. PipesType /\ Table(id) /\ Numbered(id) /\ remoteId[id] \in Nat /\ 0 \in Nat
      /\ state \in [Ids -> States] /\ received \in [Ids -> Seq(Nat)]
  BY DEF TypeInv, Stream, TablesType
<1>2. CASE m.cmd = "WRTE"
  <2>1. Take(id) /\ Send(<<Okay(id, remoteId[id])>>) /\ UNCHANGED <<openStreams, state>>
        /\ received' = [received EXCEPT ![id] = Append(@, m.data)]
    BY <1>2 DEF Receive
  <2>2. /\ Lane(id)' /\ Paced(id)' /\ OneLife(id)' /\ Empty(id)'
        /\ m.data \in Nat /\ m.data = Len(delivered[id]) + Len(received[id]) + 1
        /\ Len(delivered[id]) + (Len(received[id]) + 1) = devSent'[id]
    BY <1>2, <2>1, UnitTaken
  <2> HIDE DEF m
  <2>3. received[id] \in Seq(Nat) /\ Len(delivered[id]) \in Nat /\ received'[id] = Append(received[id], m.data)
    BY <1>1, <2>1 DEF TypeInv, TablesType
  <2>4. \A i \in 1 .. Len(received[id]) : received[id][i] = Len(delivered[id]) + i
    BY <1>1 DEF Numbered
  <2>5. /\ Len(received'[id]) = Len(received[id]) + 1
        /\ \A i \in 1 .. Len(received'[id]) : received'[id][i] = Len(delivered[id]) + i
    <3>1. /\ Len(Append(received[id], m.data)) = Len(received[id]) + 1
          /\ \A i \in 1 .. Len(Append(received[id], m.data)) :
               Append(received[id], m.data)[i] = Len(delivered[id]) + i
      BY <2>2, <2>3, <2>4, NumberedAppend
    <3> QED BY <2>3, <3>1
  <2>6. Numbered(id)'
    <3>1. \A i \in 1 .. Len(delivered[id]) : delivered[id][i] = i
      BY <1>1 DEF Numbered
    <3>2. delivered'[id] = delivered[id]
      OBVIOUS
    <3> QED BY <2>5, <3>1, <3>2 DEF Numbered
  <2>7. Count(id)' = devSent'[id]
    BY <2>2, <2>5 DEF Count
  <2>8. Tally(id)'
    <3>1. devSent'[id] \in Nat
      BY DEF HostOnly, TypeInv, DeviceType
    <3> QED BY <2>2, <2>7, <3>1 DEF Tally
  <2>9. Table(id)'
    BY <1>1, <2>1 DEF Table
  <2> QED BY <2>2, <2>6, <2>8, <2>9 DEF Stream
<1>3. CASE m.cmd = "CLSE"
  <2>1. TakeAndClose(id) /\ Send(CloseMessages(id, remoteId[id])) /\ UNCHANGED received /\ state'[id] = "closed"
    BY <1>1, <1>3 DEF Receive
  <2>2. SpeaksOn
    BY <1>1, <2>1, Spoken
  <2> QED BY <1>3, <2>1, <2>2, EndTaken
<1>4. CASE m.cmd = "OKAY"
  <2>1. Take(id) /\ UNCHANGED <<openStreams, state, toDevice, received>>
    BY <1>4 DEF Receive
  <2> QED BY <1>4, <2>1, OkayTaken DEF SpeaksOn
<1> QED
  <2>1. m.cmd \in {"OKAY", "CLSE", "WRTE"}
    BY <1>1, ArrivalType, MessageType
  <2> QED BY <1>2, <1>3, <1>4, <2>1

-----------------------------------------------------------------------------
(* The steps of the host.                                                   *)

LEMMA ReceiveElsewhere ==
  ASSUME TypeInv, NEW id \in Ids, Arrived(id), Receive(id, Arrival(id)), NEW x \in Ids, x # id
  PROVE /\ pending'[x] = pending[x] /\ (x \in openStreams' <=> x \in openStreams)
        /\ state'[x] = state[x] /\ received'[x] = received[x] /\ HostElsewhere(x) /\ DeviceElsewhere(x)
<1> DEFINE m == Arrival(id)
<1>1. PipesType /\ openStreams \subseteq Ids /\ remoteId[id] \in Nat /\ 0 \in Nat
      /\ state \in [Ids -> States] /\ received \in [Ids -> Seq(Nat)]
  BY DEF TypeInv, TablesType
<1>2. CASE m.cmd = "WRTE"
  <2>1. Take(id) /\ Send(<<Okay(id, remoteId[id])>>) /\ UNCHANGED <<openStreams, state>>
        /\ received'[x] = received[x]
    BY <1>1, <1>2 DEF Receive
  <2> QED BY <1>1, <2>1, TakenElsewhere, Spoken
<1>3. CASE m.cmd = "CLSE"
  <2>1. TakeAndClose(id) /\ Send(CloseMessages(id, remoteId[id])) /\ UNCHANGED received /\ state'[x] = state[x]
    BY <1>1, <1>3 DEF Receive
  <2> QED BY <1>1, <2>1, TakenElsewhere, Spoken
<1>4. CASE m.cmd = "OKAY"
  <2>1. Take(id) /\ UNCHANGED <<openStreams, state, toDevice, received>>
    BY <1>4 DEF Receive
  <2> QED BY <1>1, <2>1, TakenElsewhere DEF DeviceElsewhere
<1> QED
  <2>1. m.cmd \in {"OKAY", "CLSE", "WRTE"}
    BY <1>1, ArrivalType, MessageType
  <2> QED BY <1>2, <1>3, <1>4, <2>1

LEMMA OpenReplyStep ==
  ASSUME TypeInv, StreamsInv, OpenReply
  PROVE StreamsInv'
<1>0. PICK id \in Ids : id = call.id
  BY CallIs DEF OpenReply, Operations
<1> DEFINE m == Arrival(id)  admitted == m.cmd = "OKAY" /\ m.arg0 # 0
<1>1. id \in Ids /\ Arrived(id) /\ state[id] = "opening" /\ Stream(id)
  <2>1. id \in Ids /\ call # Idle /\ call.op = "open"
    BY <1>0, CallIs DEF OpenReply, Operations
  <2> QED BY <1>0, <2>1 DEF StreamsInv, Calling, OpenReply
<1>2. PipesType /\ openStreams \subseteq Ids /\ 0 \in Nat /\ state \in [Ids -> States] /\ remoteId \in [Ids -> Nat]
  BY DEF TypeInv, TablesType
<1>3. /\ UNCHANGED <<received, delivered>> /\ \A x \in Ids : HostOnly(x)
      /\ state' = [state EXCEPT ![id] = IF admitted THEN "live" ELSE "failed"] /\ call' = Idle
  BY <1>0 DEF OpenReply, HostOnly, device
<1>4. (Take(id) /\ openStreams' = openStreams) \/ TakeAndClose(id)
  BY <1>0 DEF OpenReply
<1>5. UNCHANGED remoteId \/ remoteId' = [remoteId EXCEPT ![id] = m.arg0]
  BY <1>0 DEF OpenReply
<1>6. toDevice' = toDevice
  <2>1. toDevice' = toDevice \/ Send(CloseMessages(id, 0))
    BY <1>0 DEF OpenReply
  <2> QED BY <1>2, <2>1, SendClose DEF PipesType
<1>7. ASSUME NEW x \in Ids, x # id PROVE Stream(x)'
  <2>1. pending'[x] = pending[x] /\ (x \in openStreams' <=> x \in openStreams) /\ HostElsewhere(x)
    BY <1>1, <1>2, <1>4, <1>7, TakenElsewhere
  <2>2. state'[x] = state[x] /\ remoteId'[x] = remoteId[x]
    BY <1>1, <1>2, <1>3, <1>5, <1>7
  <2>3. Untouched(x) /\ opens' = opens
    BY <1>3, <2>1, <2>2 DEF Untouched, HostOnly
  <2> QED BY <1>2, <1>6, <2>1, <2>3, Elsewhere DEF StreamsInv, DeviceElsewhere
<1>8. Stream(id)'
  <2>1. CASE admitted
    <3>1. Take(id) /\ openStreams' = openStreams /\ state'[id] = "live"
      BY <1>0, <1>1, <1>2, <1>3, <2>1 DEF OpenReply
    <3> QED BY <1>1, <1>3, <1>6, <2>1, <3>1, OkayTaken DEF SpeaksOn
  <2>2. CASE ~admitted
    <3>1. TakeAndClose(id) /\ UNCHANGED remoteId /\ state'[id] = "failed"
      BY <1>0, <1>1, <1>2, <1>3, <2>2 DEF OpenReply
    <3>2. pending'[id] = <<>> /\ id \notin openStreams'
          /\ (toHost' = toHost \/ (toHost # <<>> /\ toHost' = Tail(toHost)))
      BY <1>1, <1>2, <3>1, CloseType DEF TakeAndClose, PipesType
    <3>3. ~(id > opens)
      BY <1>1, <1>2, Blankness DEF Stream
    <3> QED BY <1>1, <1>3, <1>6, <3>1, <3>2, <3>3, Removed
  <2> QED BY <2>1, <2>2
<1>9. Calling'
  BY <1>3 DEF Calling
<1> QED BY <1>7, <1>8, <1>9 DEF StreamsInv

LEMMA ReadReceivesStep ==
  ASSUME TypeInv, StreamsInv, ReadReceives
  PROVE StreamsInv'
<1>0. PICK id \in Ids : id = call.id
  BY CallIs DEF ReadReceives, Operations
<1>1. id \in Ids /\ Arrived(id) /\ state[id] = "live" /\ Stream(id) /\ call # Idle /\ call.op = "read"
  <2>1. id \in Ids /\ call # Idle /\ call.op = "read"
    BY <1>0, CallIs DEF ReadReceives, Operations
  <2> QED BY <1>0, <2>1 DEF StreamsInv, Calling, ReadReceives
<1>2. /\ Receive(id, Arrival(id)) /\ UNCHANGED <<remoteId, delivered>> /\ \A x \in Ids : HostOnly(x)
      /\ opens' = opens /\ call' = IF Arrival(id).cmd = "OKAY" THEN call ELSE Idle
  BY <1>0 DEF ReadReceives, HostOnly, device
<1>3. ASSUME NEW x \in Ids, x # id PROVE Stream(x)'
  <2>1. /\ pending'[x] = pending[x] /\ (x \in openStreams' <=> x \in openStreams)
        /\ state'[x] = state[x] /\ received'[x] = received[x] /\ HostElsewhere(x) /\ DeviceElsewhere(x)
    BY <1>1, <1>2, <1>3, ReceiveElsewhere
  <2>2. Untouched(x)
    BY <1>2, <2>1 DEF Untouched, HostOnly
  <2> QED BY <1>2, <2>1, <2>2, Elsewhere DEF StreamsInv, TypeInv
<1>4. Stream(id)'
  BY <1>1, <1>2, ReceiveStream
<1>5. Calling'
  <2>1. CASE Arrival(id).cmd = "OKAY"
    <3>1. call' = call /\ state' = state
      BY <1>2, <2>1 DEF Receive
    <3> QED BY <3>1 DEF Calling, StreamsInv
  <2>2. CASE Arrival(id).cmd # "OKAY"
    BY <1>2, <2>2 DEF Calling
  <2> QED BY <2>1, <2>2
<1> QED BY <1>3, <1>4, <1>5 DEF StreamsInv

LEMMA WriteReceivesStep ==
  ASSUME TypeInv, StreamsInv, WriteReceives
  PROVE StreamsInv'
<1>0. PICK id \in Ids : id = call.id
  BY CallIs DEF WriteReceives, Operations
<1> DEFINE m == Arrival(id)
<1>1. id \in Ids /\ Arrived(id) /\ state[id] = "live" /\ Stream(id) /\ call # Idle /\ call.op = "write"
      /\ call.left \in Nat
  <2>1. id \in Ids /\ call # Idle /\ call.op = "write" /\ call.left \in Nat
    BY <1>0, CallIs DEF WriteReceives, Operations
  <2> QED BY <1>0, <2>1 DEF StreamsInv, Calling, WriteReceives
<1>2. UNCHANGED <<remoteId, delivered>> /\ (\A x \in Ids : HostOnly(x)) /\ opens' = opens
  BY <1>0 DEF WriteReceives, HostOnly, device
<1>3. PipesType /\ openStreams \subseteq Ids /\ remoteId[id] \in Nat /\ written[id] + 1 \in Nat
  BY <1>1 DEF TypeInv, TablesType
<1>4. CASE m.cmd = "OKAY" /\ call.left > 0
  <2>1. Take(id) /\ WritePiece(id, call.left - 1) /\ UNCHANGED <<openStreams, state, received>>
    BY <1>0, <1>4 DEF WriteReceives
  <2>2. Send(<<Wrte(id, remoteId[id], written[id] + 1)>>) /\ call' = Call("write", id, call.left - 1)
    BY <2>1 DEF WritePiece
  <2>3. SpeaksOn /\ \A x : x # id => DeviceElsewhere(x)
    BY <1>1, <1>3, <2>2, Spoken
  <2>4. ASSUME NEW x \in Ids, x # id PROVE Stream(x)'
    <3>1. pending'[x] = pending[x] /\ (x \in openStreams' <=> x \in openStreams) /\ HostElsewhere(x)
      BY <1>1, <1>3, <2>1, <2>4, TakenElsewhere
    <3>2. Untouched(x)
      BY <1>2, <2>1, <3>1 DEF Untouched, HostOnly
    <3> QED BY <1>2, <1>3, <2>3, <2>4, <3>1, <3>2, Elsewhere DEF StreamsInv
  <2>5. Stream(id)'
    BY <1>1, <1>2, <1>4, <2>1, <2>3, OkayTaken
  <2>6. Calling'
    <3>1. call.left - 1 \in Nat /\ "write" \in Operations
      BY <1>1, <1>4 DEF Operations
    <3>2. Call("write", id, call.left - 1).op = "write" /\ Call("write", id, call.left - 1).id = id
      BY <1>1, <3>1, NewCall
    <3>3. call'.op = "write" /\ call'.id = id
      BY <2>2, <3>2
    <3> QED BY <1>1, <2>1, <3>3 DEF Calling
  <2> QED BY <2>4, <2>5, <2>6 DEF StreamsInv
<1>5. CASE ~(m.cmd = "OKAY" /\ call.left > 0)
  <2>1. Receive(id, m) /\ (call' = Idle \/ (call' = call /\ m.cmd = "WRTE"))
    <3>1. Receive(id, m) /\ call' = IF Acknowledges(m) \/ m.cmd = "CLSE" THEN Idle ELSE call
      BY <1>0, <1>5 DEF WriteReceives
    <3>2. m.cmd \in {"OKAY", "CLSE", "WRTE"}
      BY <1>1, <1>3, ArrivalType, MessageType
    <3> QED BY <3>1, <3>2 DEF Acknowledges
  <2>2. ASSUME NEW x \in Ids, x # id PROVE Stream(x)'
    <3>1. /\ pending'[x] = pending[x] /\ (x \in openStreams' <=> x \in openStreams)
          /\ state'[x] = state[x] /\ received'[x] = received[x] /\ HostElsewhere(x) /\ DeviceElsewhere(x)
      BY <1>1, <2>1, <2>2, ReceiveElsewhere
    <3>2. Untouched(x)
      BY <1>2, <3>1 DEF Untouched, HostOnly
    <3> QED BY <1>2, <1>3, <3>1, <3>2, Elsewhere DEF StreamsInv
  <2>3. Stream(id)'
    BY <1>1, <1>2, <2>1, ReceiveStream
  <2>4. Calling'
    <3>1. CASE call' = Idle
      BY <3>1 DEF Calling
    <3>2. CASE call' = call /\ m.cmd = "WRTE"
      <4>1. state' = state
        BY <2>1, <3>2 DEF Receive
      <4> QED BY <3>2, <4>1 DEF Calling, StreamsInv
    <3> QED BY <2>1, <3>1, <3>2
  <2> QED BY <2>2, <2>3, <2>4 DEF StreamsInv
<1> QED BY <1>4, <1>5

LEMMA ShellReceivesStep ==
  ASSUME TypeInv, StreamsInv, ShellReceives
  PROVE StreamsInv'
<1>0. PICK id \in Ids : id = call.id
  BY CallIs DEF ShellReceives, Operations
<1> DEFINE m == Arrival(id)
<1>1. id \in Ids /\ Arrived(id) /\ state[id] = "opening" /\ Stream(id) /\ call # Idle /\ call.op = "shell"
  <2>1. id \in Ids /\ call # Idle /\ call.op = "shell"
    BY <1>0, CallIs DEF ShellReceives, Operations
  <2> QED BY <1>0, <2>1 DEF StreamsInv, Calling, ShellReceives
<1>2. received' = received /\ (\A x \in Ids : HostOnly(x)) /\ opens' = opens
  BY <1>0 DEF ShellReceives, HostOnly, device
<1>3. PipesType /\ openStreams \subseteq Ids /\ remoteId[id] \in Nat /\ 0 \in Nat /\ m.arg0 \in Nat
      /\ m.cmd \in {"OKAY", "CLSE", "WRTE"}
      /\ state \in [Ids -> States] /\ delivered \in [Ids -> Seq(Nat)] /\ remoteId \in [Ids -> Nat]
  BY <1>1, ArrivalType, MessageType DEF TypeInv, TablesType
<1>4. /\ (Take(id) /\ openStreams' = openStreams) \/ TakeAndClose(id)
      /\ \A x \in Ids : x # id =>
           state'[x] = state[x] /\ remoteId'[x] = remoteId[x] /\ delivered'[x] = delivered[x] /\ DeviceElsewhere(x)
  <2>1. CASE m.cmd = "OKAY"
    <3>1. Take(id) /\ remoteId' = [remoteId EXCEPT ![id] = m.arg0]
          /\ UNCHANGED <<openStreams, state, delivered, toDevice>>
      BY <1>0, <2>1 DEF ShellReceives
    <3> QED BY <1>1, <1>3, <3>1 DEF DeviceElsewhere
  <2>2. CASE m.cmd = "WRTE"
    <3>1. Take(id) /\ Send(<<Okay(id, remoteId[id])>>) /\ UNCHANGED <<openStreams, state, remoteId>>
          /\ delivered' = [delivered EXCEPT ![id] = Append(@, m.data)]
      BY <1>0, <2>2 DEF ShellReceives, ShellAck
    <3> QED BY <1>1, <1>3, <3>1, Spoken
  <2>3. CASE m.cmd = "CLSE"
    <3> DEFINE remote == IF remoteId[id] = 0 THEN m.arg0 ELSE remoteId[id]
    <3>1. TakeAndClose(id) /\ Send(CloseMessages(id, remote)) /\ UNCHANGED <<remoteId, delivered>>
          /\ state' = [state EXCEPT ![id] = "finished"]
      BY <1>0, <2>3 DEF ShellReceives
    <3>2. remote \in Nat
      BY <1>3
    <3> HIDE DEF remote
    <3> QED BY <1>1, <1>3, <3>1, <3>2, Spoken
  <2> QED BY <1>3, <2>1, <2>2, <2>3
<1>5. ASSUME NEW x \in Ids, x # id PROVE Stream(x)'
  <2>1. pending'[x] = pending[x] /\ (x \in openStreams' <=> x \in openStreams) /\ HostElsewhere(x)
    BY <1>1, <1>3, <1>4, <1>5, TakenElsewhere
  <2>2. Untouched(x)
    BY <1>2, <1>4, <1>5, <2>1 DEF Untouched, HostOnly
  <2> QED BY <1>2, <1>3, <1>4, <1>5, <2>1, <2>2, Elsewhere DEF StreamsInv
<1>6. Stream(id)'
  <2>1. CASE m.cmd = "OKAY"
    <3>1. Take(id) /\ UNCHANGED <<openStreams, state, delivered, toDevice>>
      BY <1>0, <2>1 DEF ShellReceives
    <3> QED BY <1>1, <1>2, <2>1, <3>1, OkayTaken DEF SpeaksOn
  <2>2. CASE m.cmd = "WRTE"
    <3>1. Take(id) /\ Send(<<Okay(id, remoteId[id])>>) /\ UNCHANGED <<openStreams, state>>
          /\ delivered' = [delivered EXCEPT ![id] = Append(@, m.data)]
      BY <1>0, <2>2 DEF ShellReceives, ShellAck
    <3>2. /\ Lane(id)' /\ Paced(id)' /\ OneLife(id)' /\ Empty(id)'
          /\ m.data \in Nat /\ m.data = Len(delivered[id]) + Len(received[id]) + 1
          /\ (Len(delivered[id]) + 1) + Len(received[id]) = devSent'[id]
      BY <1>1, <1>2, <2>2, <3>1, UnitTaken
    <3> HIDE DEF m
    <3>3. received[id] = <<>> /\ received'[id] = <<>>
      BY <1>1, <1>2 DEF Stream, Table
    <3>4. delivered[id] \in Seq(Nat) /\ delivered'[id] = Append(delivered[id], m.data)
      BY <1>1, <1>3, <3>1
    <3>5. \A i \in 1 .. Len(delivered[id]) : delivered[id][i] = 0 + i
      BY <1>1 DEF Stream, Numbered
    <3>6. 0 \in Nat /\ m.data = 0 + Len(delivered[id]) + 1
      BY <3>2, <3>3, <3>4
    <3>7. /\ Len(Append(delivered[id], m.data)) = Len(delivered[id]) + 1
          /\ \A i \in 1 .. Len(Append(delivered[id], m.data)) : Append(delivered[id], m.data)[i] = 0 + i
      BY <3>2, <3>4, <3>5, <3>6, NumberedAppend
    <3>8. /\ Len(delivered'[id]) = Len(delivered[id]) + 1
          /\ \A i \in 1 .. Len(delivered'[id]) : delivered'[id][i] = i
      BY <3>4, <3>7
    <3>9. Numbered(id)'
      BY <3>3, <3>8 DEF Numbered
    <3>10. Count(id)' = devSent'[id]
      BY <3>2, <3>3, <3>8 DEF Count
    <3>11. Tally(id)'
      <4>1. devSent'[id] \in Nat
        BY <1>1, <1>2 DEF HostOnly, TypeInv, DeviceType
      <4> QED BY <3>2, <3>10, <4>1 DEF Tally
    <3>12. Table(id)'
      BY <1>1, <1>2, <3>1 DEF Stream, Table
    <3> QED BY <3>2, <3>9, <3>11, <3>12 DEF Stream
  <2>3. CASE m.cmd = "CLSE"
    <3> DEFINE remote == IF remoteId[id] = 0 THEN m.arg0 ELSE remoteId[id]
    <3>1. TakeAndClose(id) /\ Send(CloseMessages(id, remote)) /\ UNCHANGED <<remoteId, delivered>>
          /\ state' = [state EXCEPT ![id] = "finished"]
      BY <1>0, <2>3 DEF ShellReceives
    <3>2. remote \in Nat
      BY <1>3
    <3> HIDE DEF remote
    <3>3. SpeaksOn /\ state'[id] = "finished"
      BY <1>1, <1>3, <3>1, <3>2, Spoken
    <3> QED BY <1>1, <1>2, <2>3, <3>1, <3>3, EndTaken
  <2> QED BY <1>3, <2>1, <2>2, <2>3
<1>7. Calling'
  <2>1. CASE m.cmd = "CLSE"
    BY <1>0, <2>1 DEF ShellReceives, Calling
  <2>2. CASE m.cmd # "CLSE"
    <3>1. UNCHANGED <<call, state>>
      BY <1>0, <1>3, <2>2 DEF ShellReceives
    <3> QED BY <3>1 DEF Calling, StreamsInv
  <2> QED BY <2>1, <2>2
<1> QED BY <1>5, <1>6, <1>7 DEF StreamsInv

\* A call that fails: an open or a shell gives its stream up, a read or a
\* write leaves it as it is.
LEMMA FailStep ==
  ASSUME TypeInv, StreamsInv, TimesOut \/ SeesRestart
  PROVE StreamsInv'
<1>1. call # Idle /\ Fail /\ pending[call.id] = <<>>
      /\ (toHost' = toHost \/ (toHost # <<>> /\ Head(toHost).cmd = "CNXN" /\ toHost' = Tail(toHost)))
  BY DEF TimesOut, SeesRestart
<1>2. PICK id \in Ids : id = call.id
  BY <1>1, CallShape DEF TypeInv
<1>3. PipesType /\ openStreams \subseteq Ids /\ remoteId[id] \in Nat /\ 0 \in Nat /\ state \in [Ids -> States]
      /\ Stream(id)
  BY DEF TypeInv, TablesType, StreamsInv
<1>4. UNCHANGED <<remoteId, received, delivered>> /\ (\A x \in Ids : HostOnly(x)) /\ opens' = opens /\ call' = Idle
  BY <1>1 DEF Fail, HostOnly, device
<1>5. \A x \in Ids : HostElsewhere(x)
  <2> SUFFICES ASSUME NEW x \in Ids, toHost # <<>>, Head(toHost).cmd = "CNXN", toHost' = Tail(toHost)
               PROVE HostElsewhere(x)
    BY <1>1 DEF HostElsewhere
  <2>1. Head(toHost) \in ToHost
    BY <1>3, TailIndex DEF PipesType
  <2>2. Head(toHost).arg1 # x
    <3>1. \A m \in HostMessages : m.cmd # "CNXN"
      BY MessageType
    <3>2. Head(toHost) = Cnxn /\ x # 0
      BY <2>1, <3>1, Bounds DEF ToHost, Ids
    <3> QED BY <3>2, MessageType
  <2> QED BY <2>2 DEF HostElsewhere
<1>6. Calling'
  BY <1>4 DEF Calling
<1>7. CASE call.op \in {"open", "shell"}
  <2>1. Send(CloseMessages(id, remoteId[id])) /\ openStreams' = openStreams \ {id}
        /\ pending' = [pending EXCEPT ![id] = <<>>] /\ state' = [state EXCEPT ![id] = "failed"]
    BY <1>1, <1>2, <1>7 DEF Fail
  <2>2. ASSUME NEW x \in Ids, x # id PROVE Stream(x)'
    <3>1. Untouched(x)
      BY <1>3, <1>4, <2>1, <2>2 DEF Untouched, HostOnly, PipesType
    <3>2. DeviceElsewhere(x)
      BY <1>3, <2>1, <2>2, Spoken
    <3> QED BY <1>3, <1>4, <1>5, <3>1, <3>2, Elsewhere DEF StreamsInv
  <2>3. Stream(id)'
    <3>1. ~(id > opens)
      <4>1. state[id] # "none"
        BY <1>1, <1>2, <1>7 DEF StreamsInv, Calling
      <4> QED BY <1>3, <4>1 DEF Stream, OneLife
    <3>2. toDevice' = toDevice \/ (NoOpen(toDevice, id) /\ SpeaksOn)
      <4>1. toDevice' = toDevice \/ remoteId[id] # 0
        BY <1>3, <2>1, SendClose DEF PipesType
      <4>2. SpeaksOn
        BY <1>3, <2>1, Spoken
      <4>3. remoteId[id] # 0 => NoOpen(toDevice, id)
        BY <1>3, Blankness DEF Stream
      <4> QED BY <4>1, <4>2, <4>3
    <3>3. pending'[id] = <<>> /\ id \notin openStreams' /\ state'[id] = "failed"
      BY <1>3, <2>1 DEF PipesType
    <3>4. toHost' = toHost \/ (toHost # <<>> /\ toHost' = Tail(toHost))
      BY <1>1
    <3> QED BY <1>3, <1>4, <3>1, <3>2, <3>3, <3>4, Removed
  <2> QED BY <1>6, <2>2, <2>3 DEF StreamsInv
<1>8. CASE call.op \notin {"open", "shell"}
  <2>1. UNCHANGED <<toDevice, openStreams, pending, state>>
    BY <1>1, <1>8 DEF Fail
  <2>2. ASSUME NEW x \in Ids PROVE Stream(x)'
    <3>1. Untouched(x) /\ DeviceElsewhere(x)
      BY <1>4, <2>1 DEF Untouched, HostOnly, DeviceElsewhere
    <3> QED BY <1>3, <1>4, <1>5, <3>1, Elsewhere DEF StreamsInv
  <2> QED BY <1>6, <2>2 DEF StreamsInv
<1> QED BY <1>7, <1>8

LEMMA StartStep ==
  ASSUME DistinctIds, TypeInv, StreamsInv, NEW op \in {"open", "shell"}, Start(op)
  PROVE StreamsInv'
<1>1. nextLocalId = opens + 1 /\ opens + 1 \in Ids /\ opens \in Nat
  BY StartType DEF TypeInv, OpensType
<1>2. PICK id \in Ids : id = opens + 1
  BY <1>1
<1>3. /\ openStreams' = openStreams \cup {id} /\ Send(<<Open(id)>>) /\ call' = Call(op, id, 0)
      /\ state' = [state EXCEPT ![id] = "opening"] /\ opens' = opens + 1
      /\ UNCHANGED <<pending, remoteId, received, delivered, toHost, devRemote, devAwait, devSent>>
  BY <1>1, <1>2 DEF Start, device
<1>4. PipesType /\ 0 \in Nat /\ state \in [Ids -> States] /\ Stream(id)
  BY DEF TypeInv, TablesType, StreamsInv
<1>5. toDevice' = Append(toDevice, Open(id)) /\ \A x : x # id => DeviceElsewhere(x)
  BY <1>3, <1>4, Spoken
<1>6. ASSUME NEW x \in Ids, x # id PROVE Stream(x)'
  <2>1. Untouched(x) /\ HostElsewhere(x)
    BY <1>3, <1>4, <1>6 DEF Untouched, HostElsewhere
  <2>2. x > opens' => x > opens
    BY <1>1, <1>2, <1>3, <1>6 DEF Ids
  <2> QED BY <1>4, <1>5, <1>6, <2>1, <2>2, Elsewhere DEF StreamsInv
<1>7. Stream(id)'
  <2>1. Lane(id) /\ Paced(id) /\ OneLife(id) /\ Table(id) /\ Numbered(id) /\ Tally(id)
    BY <1>4 DEF Stream
  <2>2. id > opens /\ ~(id > opens')
    BY <1>1, <1>2, <1>3
  <2>3. Silent(toDevice, id) /\ Blank(id)
    BY <2>1, <2>2 DEF OneLife
  <2>4. Empty(id) /\ Unended(id)
    BY <2>3, Nothing, QuietIsNone DEF Blank, Empty, Unended
  <2>5. Open(id) \in ToDevice /\ IsOpen(Open(id), id) /\ ~IsAck(Open(id), id)
    BY <1>4, Sent DEF IsOpen, IsAck
  <2>6. /\ NoAck(toDevice', id) <=> NoAck(toDevice, id) /\ ~IsAck(Open(id), id)
        /\ OneAck(toDevice, id) /\ (NoAck(toDevice, id) \/ ~IsAck(Open(id), id)) => OneAck(toDevice', id)
        /\ LoneOpen(toDevice, id) /\ Silent(toDevice, id) => LoneOpen(toDevice', id)
    BY <1>4, <1>5, <2>5, DeviceAppend DEF PipesType
  <2>7. state'[id] = "opening" /\ id \in openStreams'
    BY <1>3, <1>4
  <2>8. Lane(id)' /\ (Empty(id)' <=> Empty(id)) /\ (Unended(id)' <=> Unended(id)) /\ Blank(id)'
    BY <1>3, <2>1, <2>3 DEF Lane, Empty, Unended, Blank
  <2>9. Paced(id)'
    BY <1>3, <2>1, <2>5, <2>6, <2>8 DEF Paced
  <2>10. OneLife(id)'
    BY <2>1, <2>2, <2>3, <2>4, <2>6, <2>7, <2>8 DEF OneLife, Over
  <2>11. Table(id)' /\ Numbered(id)'
    BY <1>3, <2>1, <2>3, <2>7 DEF Table, Numbered, Blank
  <2>12. Tally(id)'
    <3>1. received'[id] = <<>> /\ delivered'[id] = <<>> /\ devSent'[id] = 0
      BY <1>3, <2>3 DEF Blank
    <3>2. Count(id)' = 0
      BY <3>1 DEF Count
    <3> QED BY <2>4, <2>8, <3>1, <3>2 DEF Tally
  <2> QED BY <2>8, <2>9, <2>10, <2>11, <2>12 DEF Stream
<1>8. Calling'
  <2>1. call'.op = op /\ call'.id = id /\ state'[id] = "opening"
    BY <1>3, <1>4, NewCall DEF Operations
  <2> QED BY <2>1 DEF Calling
<1> QED BY <1>6, <1>7, <1>8 DEF StreamsInv

LEMMA RouteStep ==
  ASSUME TypeInv, StreamsInv, Route
  PROVE StreamsInv'
<1>1. /\ toHost # <<>> /\ Head(toHost) \in HostMessages /\ toHost' = Tail(toHost)
      /\ pending' = IF Head(toHost).arg1 \in openStreams
                    THEN [pending EXCEPT ![Head(toHost).arg1] = Append(@, Head(toHost))] ELSE pending
  BY RouteType
<1>2. PICK id \in Ids : id = Head(toHost).arg1
  BY <1>1, MessageType
<1>3. PipesType /\ Stream(id)
  BY DEF TypeInv, StreamsInv
<1>4. /\ UNCHANGED <<openStreams, state, remoteId, received, delivered, toDevice>> /\ (\A x \in Ids : HostOnly(x))
      /\ opens' = opens /\ call' = call
  BY DEF Route, objects, device, HostOnly
<1>5. ASSUME NEW x \in Ids, x # id PROVE Stream(x)'
  <2>1. pending'[x] = pending[x] /\ HostElsewhere(x)
    BY <1>1, <1>2, <1>3, <1>5 DEF HostElsewhere, PipesType
  <2>2. Untouched(x) /\ DeviceElsewhere(x)
    BY <1>4, <2>1 DEF Untouched, HostOnly, DeviceElsewhere
  <2> QED BY <1>3, <1>4, <2>1, <2>2, Elsewhere DEF StreamsInv
<1>6. Stream(id)'
  <2>1. Lane(id) /\ Paced(id) /\ OneLife(id) /\ Table(id) /\ Numbered(id) /\ Tally(id)
    BY <1>3 DEF Stream
  <2>2. ~(id > opens) /\ NoOpen(toDevice, id)
    <3>1. ~Quiet(toHost, id)
      BY <1>1, <1>2, <1>3, HostTail DEF PipesType
    <3> QED BY <1>3, <2>1, <3>1, Blankness DEF Blank
  <2>3. Lane(id)' /\ (Unended(id) => Unended(id)') /\ (Empty(id) => Empty(id)')
        /\ (id \in openStreams => (Empty(id)' <=> Empty(id)) /\ \A n : Carried(id, n) => Carried(id, n)')
    <3>1. CASE id \in openStreams
      <4>1. pending'[id] = Append(pending[id], Head(toHost))
        BY <1>1, <1>2, <1>3, <3>1 DEF PipesType
      <4> QED BY <1>1, <1>2, <1>3, <2>1, <4>1, RouteLane
    <3>2. CASE id \notin openStreams
      <4>1. pending'[id] = pending[id]
        BY <1>1, <1>2, <3>2
      <4> QED BY <1>1, <1>3, <2>1, <3>2, <4>1, DropLane
    <3> QED BY <3>1, <3>2
  <2>4. SpeaksOn
    BY <1>4 DEF SpeaksOn
  <2>5. Paced(id)' /\ OneLife(id)'
    <3>1. state'[id] \in {"closed", "finished"} => Over(id)
      BY <1>4 DEF Over
    <3>2. HostOnly(id)
      BY <1>4
    <3> QED BY <1>3, <2>1, <2>2, <2>3, <2>4, <3>1, <3>2, HostStep
  <2>6. Table(id)' /\ Numbered(id)'
    BY <1>4, <2>1 DEF Table, Numbered
  <2>7. Tally(id)'
    BY <1>4, <2>1, <2>3 DEF Tally, Count, HostOnly
  <2> QED BY <2>3, <2>5, <2>6, <2>7 DEF Stream
<1>7. Calling'
  BY <1>4 DEF Calling, StreamsInv
<1> QED BY <1>5, <1>6, <1>7 DEF StreamsInv

\* The caller takes a unit that the stream has buffered.
LEMMA ReadBufferedStep ==
  ASSUME TypeInv, StreamsInv, NEW id \in Ids, ReadBuffered(id)
  PROVE StreamsInv'
<1>1. /\ delivered' = [delivered EXCEPT ![id] = Append(@, Head(received[id]))]
      /\ received' = [received EXCEPT ![id] = Tail(@)] /\ received[id] # <<>>
      /\ UNCHANGED <<openStreams, pending, state, remoteId, call, toDevice, toHost, opens>>
      /\ \A x \in Ids : HostOnly(x)
  BY DEF ReadBuffered, client, device, HostOnly
<1>2. PipesType /\ Stream(id) /\ delivered \in [Ids -> Seq(Nat)] /\ received \in [Ids -> Seq(Nat)]
  BY DEF TypeInv, TablesType, StreamsInv
<1>3. ASSUME NEW x \in Ids, x # id PROVE Stream(x)'
  <2>1. Untouched(x) /\ HostElsewhere(x) /\ DeviceElsewhere(x)
    BY <1>1, <1>2, <1>3 DEF Untouched, HostOnly, HostElsewhere, DeviceElsewhere
  <2> QED BY <1>1, <1>2, <2>1, Elsewhere DEF StreamsInv
<1>4. Stream(id)'
  <2>1. Lane(id) /\ Paced(id) /\ OneLife(id) /\ Table(id) /\ Numbered(id) /\ Tally(id)
    BY <1>2 DEF Stream
  <2> DEFINE r == received[id]  d == delivered[id]
  <2>2. r \in Seq(Nat) /\ d \in Seq(Nat) /\ r # <<>> /\ delivered'[id] = Append(d, Head(r)) /\ received'[id] = Tail(r)
    BY <1>1, <1>2
  <2>3. Lane(id)' /\ (Empty(id)' <=> Empty(id)) /\ (Unended(id)' <=> Unended(id))
    BY <1>1, <2>1 DEF Lane, Empty, Unended
  <2>4. ~(id > opens) /\ NoOpen(toDevice, id)
    BY <1>1, <1>2, <2>1, Blankness
  <2>5. Paced(id)' /\ OneLife(id)'
    <3>1. SpeaksOn /\ (state'[id] \in {"closed", "finished"} => Over(id))
      BY <1>1 DEF SpeaksOn, Over
    <3> QED BY <1>1, <1>2, <2>1, <2>3, <2>4, <3>1, HostStep
  <2>6. (\A i \in 1 .. Len(d) : d[i] = 0 + i) /\ (\A i \in 1 .. Len(r) : r[i] = Len(d) + i)
    BY <1>2, <2>1 DEF Numbered
  <2>7. state[id] # "opening"
    BY <1>1, <2>1 DEF Table
  <2>8. Count(id) = Len(d) + Len(r)
    BY DEF Count
  <2> HIDE DEF d, r
  <2>9. Head(r) = Len(d) + 1 /\ Head(r) \in Nat /\ Len(d) \in Nat /\ Len(r) \in Nat /\ Len(Tail(r)) = Len(r) - 1
        /\ \A i \in 1 .. Len(Tail(r)) : Tail(r)[i] = r[i + 1] /\ i + 1 \in 1 .. Len(r)
    BY <2>2, <2>6, TailIndex
  <2>10. /\ Len(Append(d, Head(r))) = Len(d) + 1
         /\ \A i \in 1 .. Len(Append(d, Head(r))) : Append(d, Head(r))[i] = 0 + i
    <3>1. Head(r) = 0 + Len(d) + 1 /\ 0 \in Nat
      BY <2>9
    <3> QED BY <2>2, <2>6, <2>9, <3>1, NumberedAppend
  <2>11. \A i \in 1 .. Len(Tail(r)) : Tail(r)[i] = (Len(d) + 1) + i
    BY <2>6, <2>9
  <2>12. Numbered(id)'
    BY <2>2, <2>10, <2>11 DEF Numbered
  <2>13. Count(id)' = Count(id)
    <3>1. Len(Append(d, Head(r))) + Len(Tail(r)) = Len(d) + Len(r)
      <4>1. \A a, b \in Nat : (a + 1) + (b - 1) = a + b
        OBVIOUS
      <4>2. (Len(d) + 1) + (Len(r) - 1) = Len(d) + Len(r)
        BY <2>9, <4>1
      <4> QED BY <2>9, <2>10, <4>2
    <3>2. Count(id)' = Len(Append(d, Head(r))) + Len(Tail(r))
      BY <2>2 DEF Count
    <3> QED BY <2>8, <3>1, <3>2
  <2>14. Table(id)'
    BY <1>1, <2>1, <2>7 DEF Table
  <2>15. Tally(id)'
    BY <1>1, <2>1, <2>3, <2>13 DEF Tally, HostOnly, Carried
  <2> QED BY <2>3, <2>5, <2>12, <2>14, <2>15 DEF Stream
<1>5. Calling'
  BY <1>1 DEF Calling, StreamsInv
<1> QED BY <1>3, <1>4, <1>5 DEF StreamsInv

LEMMA ReadWaitsStep ==
  ASSUME TypeInv, StreamsInv, NEW id \in Ids, ReadWaits(id)
  PROVE StreamsInv'
<1>1. /\ UNCHANGED <<openStreams, pending, state, remoteId, received, delivered, toDevice, toHost, opens>>
      /\ (\A x \in Ids : HostOnly(x)) /\ call' = Call("read", id, 0) /\ state[id] = "live"
  BY DEF ReadWaits, client, objects, device, HostOnly
<1>2. ASSUME NEW x \in Ids PROVE Stream(x)'
  <2>1. Untouched(x) /\ HostElsewhere(x) /\ DeviceElsewhere(x)
    BY <1>1 DEF Untouched, HostOnly, HostElsewhere, DeviceElsewhere
  <2> QED BY <1>1, <2>1, Elsewhere DEF StreamsInv, TypeInv
<1>3. Calling'
  <2>1. 0 \in Nat /\ "read" \in Operations
    BY DEF Operations
  <2>2. call'.op = "read" /\ call'.id = id
    BY <1>1, <2>1, NewCall
  <2> QED BY <1>1, <2>2 DEF Calling
<1> QED BY <1>2, <1>3 DEF StreamsInv

LEMMA WriteBeginsStep ==
  ASSUME TypeInv, StreamsInv, NEW id \in Ids, WriteBegins(id)
  PROVE StreamsInv'
<1>1. /\ UNCHANGED <<openStreams, pending, state, remoteId, received, delivered, toHost, opens>>
      /\ (\A x \in Ids : HostOnly(x)) /\ state[id] = "live"
  BY DEF WriteBegins, client, device, HostOnly
<1>2. PipesType /\ Stream(id) /\ remoteId[id] \in Nat /\ written[id] \in Nat /\ written[id] + 1 \in Nat
  BY DEF TypeInv, TablesType, StreamsInv
<1>3. PICK pieces \in 1 .. MaxWritten - written[id] : WritePiece(id, pieces - 1)
  BY DEF WriteBegins
<1>4. Send(<<Wrte(id, remoteId[id], written[id] + 1)>>) /\ call' = Call("write", id, pieces - 1) /\ pieces - 1 \in Nat
  BY <1>2, <1>3, Bounds DEF WritePiece
<1>5. SpeaksOn /\ \A x : x # id => DeviceElsewhere(x)
  BY <1>2, <1>4, Spoken
<1>6. ASSUME NEW x \in Ids, x # id PROVE Stream(x)'
  <2>1. Untouched(x) /\ HostElsewhere(x)
    BY <1>1 DEF Untouched, HostOnly, HostElsewhere
  <2> QED BY <1>1, <1>2, <1>5, <1>6, <2>1, Elsewhere DEF StreamsInv
<1>7. Stream(id)'
  <2>1. Lane(id) /\ Paced(id) /\ OneLife(id) /\ Table(id) /\ Numbered(id) /\ Tally(id)
    BY <1>2 DEF Stream
  <2>2. Lane(id)' /\ (Empty(id)' <=> Empty(id)) /\ (Unended(id)' <=> Unended(id))
    BY <1>1, <2>1 DEF Lane, Empty, Unended
  <2>3. ~(id > opens) /\ NoOpen(toDevice, id)
    BY <1>1, <1>2, <2>1, Blankness
  <2>4. Paced(id)' /\ OneLife(id)'
    BY <1>1, <1>2, <1>5, <2>1, <2>2, <2>3, HostStep
  <2>5. Table(id)' /\ Numbered(id)' /\ Tally(id)'
    BY <1>1, <2>1, <2>2 DEF Table, Numbered, Tally, Count, Carried, HostOnly
  <2> QED BY <2>2, <2>4, <2>5 DEF Stream
<1>8. Calling'
  <2>1. call'.op = "write" /\ call'.id = id
    BY <1>4, NewCall DEF Operations
  <2> QED BY <1>1, <2>1 DEF Calling
<1> QED BY <1>6, <1>7, <1>8 DEF StreamsInv

LEMMA DisposeStep ==
  ASSUME TypeInv, StreamsInv, NEW id \in Ids, Dispose(id)
  PROVE StreamsInv'
<1>1. /\ UNCHANGED <<remoteId, received, delivered, call, toHost, opens>> /\ (\A x \in Ids : HostOnly(x))
      /\ state' = [state EXCEPT ![id] = "disposed"] /\ state[id] \in {"live", "closed"} /\ call = Idle
  BY DEF Dispose, device, HostOnly
<1>2. PipesType /\ openStreams \subseteq Ids /\ Stream(id) /\ remoteId[id] \in Nat /\ 0 \in Nat
      /\ state \in [Ids -> States]
  BY DEF TypeInv, TablesType, StreamsInv
<1>3. /\ SpeaksOn /\ (\A x : x # id => DeviceElsewhere(x))
      /\ pending'[id] = <<>> \/ pending'[id] = pending[id]
      /\ \A x \in Ids : x # id => pending'[x] = pending[x] /\ (x \in openStreams' <=> x \in openStreams)
      /\ id \notin openStreams'
  <2>1. CASE state[id] = "live"
    <3>1. Send(CloseMessages(id, remoteId[id])) /\ openStreams' = openStreams \ {id}
          /\ pending' = [pending EXCEPT ![id] = <<>>]
      BY <2>1 DEF Dispose
    <3> QED BY <1>2, <3>1, Spoken DEF PipesType
  <2>2. CASE state[id] # "live"
    <3>1. UNCHANGED <<toDevice, openStreams, pending>>
      BY <2>2 DEF Dispose
    <3>2. id \notin openStreams
      BY <1>1, <1>2, <2>2 DEF Stream, Table
    <3> QED BY <3>1, <3>2 DEF SpeaksOn, DeviceElsewhere
  <2> QED BY <2>1, <2>2
<1>4. ASSUME NEW x \in Ids, x # id PROVE Stream(x)'
  <2>1. Untouched(x) /\ HostElsewhere(x)
    BY <1>1, <1>2, <1>3, <1>4 DEF Untouched, HostOnly, HostElsewhere
  <2> QED BY <1>1, <1>2, <1>3, <1>4, <2>1, Elsewhere DEF StreamsInv
<1>5. Stream(id)'
  <2>1. ~(id > opens) /\ NoOpen(toDevice, id)
    BY <1>1, <1>2, Blankness DEF Stream
  <2>2. state'[id] = "disposed"
    BY <1>1, <1>2
  <2> QED BY <1>1, <1>2, <1>3, <2>1, <2>2, Removed
<1>6. Calling'
  BY <1>1 DEF Calling
<1> QED BY <1>4, <1>5, <1>6 DEF StreamsInv

-----------------------------------------------------------------------------
(* The steps of the device.                                                 *)

LEMMA DeviceReceivesStep ==
  ASSUME TypeInv, StreamsInv, DeviceReceives
  PROVE StreamsInv'
<1> DEFINE m == Head(toDevice)
<1>1. /\ toDevice # <<>> /\ toDevice' = Tail(toDevice) /\ devSent' = devSent
      /\ UNCHANGED <<openStreams, pending, state, remoteId, received, delivered, call, opens>>
      /\ Admits(m) \/ Rejects(m) \/ Accepts(m) \/ GoesOn(m) \/ Answers(m) \/ Ignores
  BY DeviceCases DEF hostSide, client, objects
<1>2. PICK id \in Ids : id = m.arg0
  BY DeviceReceivesType
<1>3. PipesType /\ Stream(id) /\ devRemote \in [Ids -> Nat] /\ devAwait \in [Ids -> BOOLEAN]
      /\ devNext \in Nat \ {0} /\ 0 \in Nat
  BY DEF TypeInv, DeviceType, StreamsInv
<1>4. ASSUME NEW x \in Ids, x # id PROVE Stream(x)'
  <2>1. DeviceElsewhere(x)
    BY <1>1, <1>2, <1>4 DEF DeviceElsewhere
  <2>2. HostElsewhere(x)
    <3>1. \A a \in ToHost : a.arg1 = id /\ toHost' = Append(toHost, a) => HostElsewhere(x)
      BY <1>4 DEF HostElsewhere
    <3>2. toHost' = toHost => HostElsewhere(x)
      BY DEF HostElsewhere
    <3>3. /\ Okay(devNext, id) \in ToHost /\ Okay(devNext, id).arg1 = id
          /\ Okay(devRemote[id], id) \in ToHost /\ Okay(devRemote[id], id).arg1 = id
          /\ Clse(0, id) \in ToHost /\ Clse(0, id).arg1 = id
      BY <1>3, SentByDevice
    <3>4. toHost' \in {toHost, Append(toHost, Okay(devNext, id)), Append(toHost, Okay(devRemote[id], id)),
                       Append(toHost, Clse(0, id))}
      BY <1>1, <1>2 DEF Admits, Rejects, Accepts, GoesOn, Answers, Ignores
    <3> QED BY <3>1, <3>2, <3>3, <3>4
  <2>3. devRemote'[x] = devRemote[x] /\ devAwait'[x] = devAwait[x]
    BY <1>1, <1>2, <1>3, <1>4 DEF Admits, Rejects, Accepts, GoesOn, Answers, Ignores
  <2>4. Untouched(x)
    BY <1>1, <2>3 DEF Untouched
  <2> QED BY <1>1, <1>3, <2>1, <2>2, <2>4, Elsewhere DEF StreamsInv
<1>5. Stream(id)'
  <2>1. Lane(id) /\ Paced(id) /\ OneLife(id) /\ Table(id) /\ Numbered(id) /\ Tally(id)
    BY <1>3 DEF Stream
  <2>2. /\ NoAck(toDevice, id) <=> NoAck(toDevice', id) /\ ~IsAck(m, id)
        /\ OneAck(toDevice, id) => OneAck(toDevice', id) /\ (IsAck(m, id) => NoAck(toDevice', id))
        /\ NoOpen(toDevice, id) <=> NoOpen(toDevice', id) /\ ~IsOpen(m, id)
        /\ LoneOpen(toDevice, id) => LoneOpen(toDevice', id) /\ (IsOpen(m, id) => Silent(toDevice', id))
        /\ Silent(toDevice, id) => m.arg0 # id
    BY <1>1, <1>3, DeviceTail DEF PipesType
  <2>3. ~(id > opens) /\ ~(id > opens')
    BY <1>1, <1>2, <2>1, <2>2 DEF OneLife
  <2>4. Table(id)' /\ Numbered(id)'
    BY <1>1, <2>1 DEF Table, Numbered
  <2>5. m.arg0 = id
    BY <1>2
  <2> HIDE DEF m
  <2>6. CASE Ignores
    <3>1. /\ Lane(id)' /\ (Empty(id)' <=> Empty(id)) /\ (Unended(id)' <=> Unended(id))
          /\ Blank(id) => Blank(id)'
      BY <1>1, <2>1, <2>6 DEF Ignores, Lane, Empty, Unended, Blank
    <3>2. Paced(id)'
      BY <2>1, <2>2, <2>6, <3>1 DEF Ignores, Paced
    <3>3. OneLife(id)'
      BY <1>1, <2>1, <2>2, <2>3, <2>6, <3>1 DEF Ignores, OneLife, Over
    <3>4. Tally(id)'
      BY <1>1, <2>1, <2>6, <3>1 DEF Ignores, Tally, Count, Carried
    <3> QED BY <2>4, <3>1, <3>2, <3>3, <3>4 DEF Stream
  <2>7. CASE GoesOn(m)
    <3>1. IsAck(m, id) /\ toHost' = toHost /\ devRemote' = devRemote /\ devRemote[id] # 0
      BY <2>5, <2>7 DEF GoesOn, IsAck, HasSocket
    <3>2. Lane(id)' /\ (Empty(id)' <=> Empty(id)) /\ (Unended(id)' <=> Unended(id))
      BY <1>1, <2>1, <3>1 DEF Lane, Empty, Unended
    <3>3. Paced(id)'
      BY <2>1, <2>2, <3>1, <3>2 DEF Paced
    <3>4. NoOpen(toDevice', id)
      BY <1>3, <2>1, <2>2, <3>1, Blankness
    <3>5. OneLife(id)'
      BY <1>1, <2>1, <2>2, <2>3, <3>1, <3>2, <3>4 DEF OneLife, Over
    <3>6. Tally(id)'
      BY <1>1, <2>1, <3>1, <3>2 DEF Tally, Count, Carried
    <3> QED BY <2>4, <3>2, <3>3, <3>5, <3>6 DEF Stream
  <2>8. ASSUME NEW a \in ToHost, a.cmd # "WRTE", toHost' = Append(toHost, a),
               a.cmd = "CLSE" => devRemote'[id] = 0 /\ ~(HasSocket(id) /\ IsOpen(m, id)),
               HasSocket(id) \/ IsOpen(m, id),
               devRemote'[id] = devRemote[id] \/ devRemote'[id] = 0 \/ IsOpen(m, id),
               devAwait'[id] = devAwait[id] \/ devRemote'[id] = 0
        PROVE Stream(id)'
    <3>1. ~IsData(a, id) /\ (a.cmd # "CLSE" => ~IsEnd(a, id))
      BY <2>8 DEF IsData, IsEnd
    <3>2. pending'[id] = pending[id]
      BY <1>1
    <3>3. Lane(id)' /\ (Empty(id)' <=> Empty(id)) /\ (Unended(id)' <=> Unended(id) /\ ~IsEnd(a, id))
          /\ \A n : Carried(id, n) => Carried(id, n)'
      BY <1>3, <2>1, <2>8, <3>1, <3>2, SendLane
    <3>4. NoOpen(toDevice', id)
      <4>1. HasSocket(id) => NoOpen(toDevice, id)
        BY <1>3, <2>1, Blankness DEF HasSocket
      <4>2. IsOpen(m, id) => NoOpen(toDevice', id)
        BY <2>1, <2>2, QuietIsNone DEF OneLife
      <4> QED BY <2>2, <2>8, <4>1, <4>2
    <3>5. IsOpen(m, id) => Empty(id) /\ Unended(id) /\ NoAck(toDevice', id) /\ state[id] \in {"opening", "failed"}
      <4> SUFFICES ASSUME IsOpen(m, id)
                   PROVE Empty(id) /\ Unended(id) /\ NoAck(toDevice', id) /\ state[id] \in {"opening", "failed"}
        OBVIOUS
      <4>1. ~NoOpen(toDevice, id) /\ Silent(toDevice', id)
        BY <2>1, <2>2 DEF OneLife
      <4>2. Blank(id) /\ state[id] \in {"opening", "failed"}
        BY <2>1, <4>1 DEF OneLife
      <4>3. Empty(id) /\ Unended(id)
        BY <4>2, Nothing, QuietIsNone DEF Blank, Empty, Unended
      <4> QED BY <4>1, <4>2, <4>3, QuietIsNone
    <3>6. Paced(id)'
      BY <2>1, <2>2, <2>8, <3>3, <3>5 DEF Paced
    <3>7. OneLife(id)'
      <4>1. Over(id)' => devRemote'[id] = 0
        BY <1>1, <2>1, <2>8, <3>1, <3>3, <3>5 DEF OneLife, Over
      <4> QED BY <2>1, <2>2, <2>3, <3>4, <4>1 DEF OneLife
    <3>8. Tally(id)'
      BY <1>1, <2>1, <3>3 DEF Tally, Count
    <3> QED BY <2>4, <3>3, <3>6, <3>7, <3>8 DEF Stream
  <2>9. CASE Admits(m)
    <3>1. Okay(devNext, id) \in ToHost /\ Okay(devNext, id).cmd = "OKAY"
      BY <1>3, SentByDevice
    <3>2. toHost' = Append(toHost, Okay(devNext, id)) /\ IsOpen(m, id) /\ devAwait' = devAwait
      BY <2>5, <2>9 DEF Admits, IsOpen
    <3> QED BY <2>8, <3>1, <3>2
  <2>10. CASE Rejects(m)
    <3>1. Clse(0, id) \in ToHost /\ Clse(0, id).cmd = "CLSE"
      BY <1>3, SentByDevice
    <3>2. toHost' = Append(toHost, Clse(0, id)) /\ IsOpen(m, id) /\ devAwait' = devAwait /\ devRemote' = devRemote
      BY <2>5, <2>10 DEF Rejects, IsOpen
    <3>3. devRemote[id] = 0
      BY <2>1, <2>2, <3>2 DEF OneLife, Blank
    <3> QED BY <2>8, <3>1, <3>2, <3>3 DEF HasSocket
  <2>11. CASE Accepts(m)
    <3>1. Okay(devRemote[id], id) \in ToHost /\ Okay(devRemote[id], id).cmd = "OKAY"
      BY <1>3, SentByDevice
    <3>2. toHost' = Append(toHost, Okay(devRemote[id], id)) /\ HasSocket(id)
          /\ devAwait' = devAwait /\ devRemote' = devRemote
      BY <2>5, <2>11 DEF Accepts
    <3> QED BY <2>8, <3>1, <3>2
  <2>12. CASE Answers(m)
    <3>1. Clse(0, id) \in ToHost /\ Clse(0, id).cmd = "CLSE"
      BY <1>3, SentByDevice
    <3>2. toHost' = Append(toHost, Clse(0, id)) /\ HasSocket(id) /\ devRemote'[id] = 0 /\ ~IsOpen(m, id)
      BY <1>3, <2>5, <2>12 DEF Answers, IsOpen
    <3> QED BY <2>8, <3>1, <3>2
  <2> QED BY <1>1, <2>6, <2>7, <2>9, <2>10, <2>11, <2>12 DEF m
<1>6. Calling'
  BY <1>1 DEF Calling, StreamsInv
<1> QED BY <1>4, <1>5, <1>6 DEF StreamsInv

LEMMA DeviceSendsStep ==
  ASSUME TypeInv, StreamsInv, NEW id \in Ids, DeviceSends(id)
  PROVE StreamsInv'
<1>1. /\ UNCHANGED <<openStreams, pending, state, remoteId, received, delivered, call, opens, toDevice, devRemote>>
      /\ devSent' = [devSent EXCEPT ![id] = @ + 1] /\ devAwait' = [devAwait EXCEPT ![id] = TRUE]
      /\ toHost' = Append(toHost, Wrte(devRemote[id], id, devSent[id] + 1))
      /\ devRemote[id] # 0 /\ ~devAwait[id]
  BY DEF DeviceSends, hostSide, client, objects, HasSocket
<1>2. PipesType /\ Stream(id) /\ devRemote[id] \in Nat /\ devSent \in [Ids -> Nat] /\ devAwait \in [Ids -> BOOLEAN]
      /\ devSent[id] \in Nat /\ devSent[id] + 1 \in Nat
  BY DEF TypeInv, DeviceType, StreamsInv
<1>3. PICK a \in ToHost : a = Wrte(devRemote[id], id, devSent[id] + 1)
  BY <1>2, SentByDevice
<1>4. a.arg1 = id /\ a.data = devSent[id] + 1 /\ IsData(a, id) /\ ~IsEnd(a, id) /\ toHost' = Append(toHost, a)
  BY <1>1, <1>2, <1>3, SentByDevice DEF IsData, IsEnd
<1>5. ASSUME NEW x \in Ids, x # id PROVE Stream(x)'
  <2>1. Untouched(x) /\ DeviceElsewhere(x)
    BY <1>1, <1>2, <1>5 DEF Untouched, DeviceElsewhere
  <2>2. HostElsewhere(x)
    BY <1>4, <1>5 DEF HostElsewhere
  <2> QED BY <1>1, <1>2, <2>1, <2>2, Elsewhere DEF StreamsInv
<1>6. Stream(id)'
  <2>1. Lane(id) /\ Paced(id) /\ OneLife(id) /\ Table(id) /\ Numbered(id) /\ Tally(id)
    BY <1>2 DEF Stream
  <2>2. Empty(id) /\ NoAck(toDevice, id) /\ ~Over(id) /\ Unended(id) /\ state[id] \notin {"closed", "finished"}
    BY <1>1, <2>1 DEF Paced, OneLife, Over
  <2>3. Lane(id)' /\ ~Empty(id)' /\ Unended(id)'
    BY <1>1, <1>2, <1>4, <2>1, <2>2, SendLane
  <2>4. Paced(id)'
    BY <1>1, <1>2, <2>1, <2>2 DEF Paced
  <2>5. ~(id > opens) /\ NoOpen(toDevice, id)
    BY <1>1, <1>2, <2>1, Blankness
  <2>6. OneLife(id)'
    BY <1>1, <2>1, <2>2, <2>3, <2>5 DEF OneLife, Over
  <2>7. Table(id)' /\ Numbered(id)'
    BY <1>1, <2>1 DEF Table, Numbered
  <2>8. Tally(id)'
    <3>1. Count(id)' = Count(id) /\ devSent'[id] = devSent[id] + 1
      BY <1>1, <1>2 DEF Count
    <3>2. Count(id) \in Nat
      BY DEF Count, TypeInv, TablesType
    <3>3. Carried(id, devSent[id])'
      <4>1. DataIs(pending[id], id, devSent[id] + 1) /\ DataIs(toHost, id, devSent[id] + 1)
        BY <2>2, NoDataIs DEF Empty
      <4>2. DataIs(toHost', id, devSent[id] + 1)
        BY <1>2, <1>4, <4>1, HostAppend DEF PipesType
      <4> QED BY <1>1, <3>1, <4>1, <4>2 DEF Carried
    <3>4. id \in openStreams => Count(id) = devSent[id]
      BY <2>1, <2>2 DEF Tally
    <3>5. Count(id)' <= devSent'[id]
      BY <1>2, <2>1, <3>1, <3>2 DEF Tally
    <3> QED BY <1>1, <2>2, <2>3, <3>1, <3>3, <3>4, <3>5 DEF Tally
  <2> QED BY <2>3, <2>4, <2>6, <2>7, <2>8 DEF Stream
<1>7. Calling'
  BY <1>1 DEF Calling, StreamsInv
<1> QED BY <1>5, <1>6, <1>7 DEF StreamsInv

LEMMA DeviceClosesStep ==
  ASSUME TypeInv, StreamsInv, NEW id \in Ids, DeviceCloses(id)
  PROVE StreamsInv'
<1>1. /\ UNCHANGED <<openStreams, pending, state, remoteId, received, delivered, call, opens, toDevice, devSent>>
      /\ devRemote' = [devRemote EXCEPT ![id] = 0] /\ devAwait' = [devAwait EXCEPT ![id] = FALSE]
      /\ toHost' = Append(toHost, Clse(devRemote[id], id)) /\ devRemote[id] # 0
  BY DEF DeviceCloses, Socketless, hostSide, client, objects, HasSocket
<1>2. PipesType /\ Stream(id) /\ devRemote \in [Ids -> Nat] /\ devAwait \in [Ids -> BOOLEAN] /\ 0 \in Nat
  BY DEF TypeInv, DeviceType, StreamsInv
<1>3. PICK a \in ToHost : a = Clse(devRemote[id], id)
  BY <1>2, SentByDevice
<1>4. a.arg1 = id /\ a.cmd = "CLSE" /\ ~IsData(a, id) /\ toHost' = Append(toHost, a)
  BY <1>1, <1>2, <1>3, SentByDevice DEF IsData
<1>5. ASSUME NEW x \in Ids, x # id PROVE Stream(x)'
  <2>1. Untouched(x) /\ DeviceElsewhere(x)
    BY <1>1, <1>2, <1>5 DEF Untouched, DeviceElsewhere
  <2>2. HostElsewhere(x)
    BY <1>4, <1>5 DEF HostElsewhere
  <2> QED BY <1>1, <1>2, <2>1, <2>2, Elsewhere DEF StreamsInv
<1>6. Stream(id)'
  <2>1. Lane(id) /\ Paced(id) /\ OneLife(id) /\ Table(id) /\ Numbered(id) /\ Tally(id)
    BY <1>2 DEF Stream
  <2>2. pending'[id] = pending[id] /\ devRemote'[id] = 0
    BY <1>1, <1>2
  <2>3. Lane(id)' /\ (Empty(id)' <=> Empty(id)) /\ \A n : Carried(id, n) => Carried(id, n)'
    BY <1>2, <1>4, <2>1, <2>2, SendLane
  <2>4. Paced(id)'
    BY <1>1, <2>1, <2>2, <2>3 DEF Paced
  <2>5. ~(id > opens) /\ NoOpen(toDevice, id)
    BY <1>1, <1>2, <2>1, Blankness
  <2>6. OneLife(id)'
    BY <1>1, <2>1, <2>2, <2>5 DEF OneLife
  <2>7. Table(id)' /\ Numbered(id)'
    BY <1>1, <2>1 DEF Table, Numbered
  <2>8. Tally(id)'
    BY <1>1, <2>1, <2>3 DEF Tally, Count
  <2> QED BY <2>3, <2>4, <2>6, <2>7, <2>8 DEF Stream
<1>7. Calling'
  BY <1>1 DEF Calling, StreamsInv
<1> QED BY <1>5, <1>6, <1>7 DEF StreamsInv

LEMMA DeviceRestartsStep ==
  ASSUME TypeInv, StreamsInv, DeviceRestarts
  PROVE StreamsInv'
<1>1. /\ UNCHANGED <<openStreams, pending, state, remoteId, received, delivered, call, opens, toDevice, devSent>>
      /\ \A x \in Ids : devRemote'[x] = 0 /\ devAwait'[x] = FALSE
      /\ toHost' = Append(toHost, Cnxn)
  BY DEF DeviceRestarts, hostSide, client, objects
<1>2. ASSUME NEW x \in Ids PROVE Stream(x)'
  <2>1. PipesType /\ Lane(x) /\ Paced(x) /\ OneLife(x) /\ Table(x) /\ Numbered(x) /\ Tally(x)
    BY DEF TypeInv, StreamsInv, Stream
  <2>2. HostElsewhere(x)
    <3>1. x # 0
      BY Bounds DEF Ids
    <3> QED BY <1>1, <3>1, MessageType DEF HostElsewhere
  <2>3. Lane(x)' /\ (Empty(x)' <=> Empty(x)) /\ (Unended(x)' <=> Unended(x)) /\ (Blank(x) => Blank(x)')
    BY <1>1, <2>1, <2>2, SameToHost DEF Lane, Empty, Unended, Blank
  <2>4. Paced(x)'
    BY <1>1, <2>1, <2>3 DEF Paced
  <2>5. OneLife(x)'
    BY <1>1, <2>1, <2>3 DEF OneLife, Over
  <2>6. Table(x)' /\ Numbered(x)'
    BY <1>1, <2>1 DEF Table, Numbered
  <2>7. Tally(x)'
    <3>1. Carried(x, devSent[x]) => Carried(x, devSent[x])'
      BY <1>1, <2>1, <2>2, SameToHost DEF Carried
    <3> QED BY <1>1, <2>1, <2>3, <3>1 DEF Tally, Count
  <2> QED BY <2>3, <2>4, <2>5, <2>6, <2>7 DEF Stream
<1>3. Calling'
  BY <1>1 DEF Calling, StreamsInv
<1> QED BY <1>2, <1>3 DEF StreamsInv

-----------------------------------------------------------------------------
(* The invariant, and what it says of the reads.                            *)

LEMMA StreamsInit == DistinctIds /\ Init => StreamsInv
<1> SUFFICES ASSUME Init PROVE StreamsInv
  OBVIOUS
<1>1. ASSUME NEW x \in Ids PROVE Stream(x)
  <2>1. /\ pending[x] = <<>> /\ received[x] = <<>> /\ delivered[x] = <<>> /\ toHost = <<>> /\ toDevice = <<>>
        /\ remoteId[x] = 0 /\ devRemote[x] = 0 /\ devSent[x] = 0 /\ state[x] = "none" /\ openStreams = {}
    BY DEF Init
  <2>2. Quiet(<<>>, x) /\ Silent(<<>>, x) /\ LoneOpen(<<>>, x) /\ OneAck(<<>>, x) /\ NoOpen(<<>>, x)
    BY DEF Quiet, Silent, LoneOpen, OneAck, NoOpen
  <2>3. Empty(x) /\ Unended(x) /\ Blank(x)
    BY <2>1, <2>2, Nothing DEF Empty, Unended, Blank
  <2>4. Lane(x) /\ Paced(x)
    BY <2>1, <2>2, <2>3, Nothing DEF Lane, Paced
  <2>5. OneLife(x) /\ Table(x)
    BY <2>1, <2>2, <2>3 DEF OneLife, Over, Table
  <2>6. Numbered(x) /\ Tally(x)
    BY <2>1 DEF Numbered, Tally, Count
  <2> QED BY <2>4, <2>5, <2>6 DEF Stream
<1>2. Calling
  BY DEF Init, Calling
<1> QED BY <1>1, <1>2 DEF StreamsInv

LEMMA StreamsStep == DistinctIds /\ TypeInv /\ StreamsInv /\ [Next]_vars => StreamsInv'
<1> SUFFICES ASSUME DistinctIds, TypeInv, StreamsInv, [Next]_vars PROVE StreamsInv'
  OBVIOUS
<1>1. CASE Start("open") \/ Start("shell")
  BY <1>1, StartStep
<1>2. CASE HostReceives
  BY <1>2, RouteStep, OpenReplyStep, ReadReceivesStep, WriteReceivesStep, ShellReceivesStep, FailStep
  DEF HostReceives
<1>3. CASE TimesOut
  BY <1>3, FailStep
<1>4. CASE \E id \in Ids : ReadBuffered(id) \/ ReadWaits(id) \/ WriteBegins(id) \/ Dispose(id)
  BY <1>4, ReadBufferedStep, ReadWaitsStep, WriteBeginsStep, DisposeStep
<1>5. CASE DeviceReceives \/ DeviceRestarts
  BY <1>5, DeviceReceivesStep, DeviceRestartsStep
<1>6. CASE \E id \in Ids : DeviceSends(id) \/ DeviceCloses(id)
  BY <1>6, DeviceSendsStep, DeviceClosesStep
<1>7. CASE UNCHANGED vars
  <2>1. UNCHANGED <<openStreams, pending, state, remoteId, received, delivered, call, opens, toDevice, toHost,
                    devRemote, devAwait, devSent>>
    BY <1>7 DEF vars, client, objects, device
  <2>2. ASSUME NEW x \in Ids PROVE Stream(x)'
    <3>1. Untouched(x) /\ HostElsewhere(x) /\ DeviceElsewhere(x)
      BY <2>1 DEF Untouched, HostElsewhere, DeviceElsewhere
    <3> QED BY <2>1, <3>1, Elsewhere DEF StreamsInv, TypeInv
  <2>3. Calling'
    BY <2>1 DEF Calling, StreamsInv
  <2> QED BY <2>2, <2>3 DEF StreamsInv
<1> QED BY <1>1, <1>2, <1>3, <1>4, <1>5, <1>6, <1>7 DEF Next

LEMMA UpToShape ==
  ASSUME NEW n \in Nat
  PROVE /\ UpTo(n) \in Seq(Nat) /\ Len(UpTo(n)) = n
        /\ \A s \in Seq(Nat) : Len(s) = n /\ (\A i \in 1 .. n : s[i] = i) => s = UpTo(n)
        /\ \A k \in Nat : k <= n => SubSeq(UpTo(n), 1, k) = UpTo(k)
<1>1. UpTo(n) \in Seq(Nat) /\ Len(UpTo(n)) = n
  BY DEF UpTo
<1>2. ASSUME NEW s \in Seq(Nat), Len(s) = n, \A i \in 1 .. n : s[i] = i PROVE s = UpTo(n)
  BY <1>2 DEF UpTo
<1>3. ASSUME NEW k \in Nat, k <= n PROVE SubSeq(UpTo(n), 1, k) = UpTo(k)
  BY <1>1, <1>3 DEF UpTo
<1> QED BY <1>1, <1>2, <1>3

LEMMA GotShape ==
  ASSUME TypeInv, NEW x \in Ids, Numbered(x)
  PROVE Count(x) \in Nat /\ Got(x) = UpTo(Count(x)) /\ Len(Got(x)) = Count(x)
<1> DEFINE d == delivered[x]  r == received[x]
<1>1. d \in Seq(Nat) /\ r \in Seq(Nat) /\ Len(d) \in Nat /\ Len(r) \in Nat
  BY DEF TypeInv, TablesType
<1>2. (\A i \in 1 .. Len(d) : d[i] = i) /\ (\A i \in 1 .. Len(r) : r[i] = Len(d) + i)
  BY DEF Numbered
<1>3. Count(x) = Len(d) + Len(r) /\ Got(x) = d \o r
  BY DEF Count, Got
<1> HIDE DEF d, r
<1>4. d \o r \in Seq(Nat) /\ Len(d \o r) = Len(d) + Len(r)
  BY <1>1
<1>5. \A i \in 1 .. Len(d) + Len(r) : (d \o r)[i] = i
  <2> SUFFICES ASSUME NEW i \in 1 .. Len(d) + Len(r) PROVE (d \o r)[i] = i
    OBVIOUS
  <2>1. CASE i <= Len(d)
    <3>1. i \in 1 .. Len(d) /\ (d \o r)[i] = d[i]
      BY <1>1, <2>1
    <3> QED BY <1>2, <3>1
  <2>2. CASE ~(i <= Len(d))
    <3>1. i - Len(d) \in 1 .. Len(r) /\ (d \o r)[i] = r[i - Len(d)] /\ Len(d) + (i - Len(d)) = i
      BY <1>1, <2>2
    <3> QED BY <1>2, <3>1
  <2> QED BY <2>1, <2>2
<1>6. Len(d) + Len(r) \in Nat
  BY <1>1
<1>7. d \o r = UpTo(Len(d) + Len(r))
  BY <1>4, <1>5, <1>6, UpToShape
<1> QED BY <1>3, <1>4, <1>6, <1>7

LEMMA WholeReads == TypeInv /\ StreamsInv => ReadsAreWhole
<1> SUFFICES ASSUME TypeInv, StreamsInv PROVE NothingLost /\ EndIsComplete
  BY DEF ReadsAreWhole
<1>1. \A x \in Ids : Count(x) \in Nat /\ Got(x) = UpTo(Count(x)) /\ Len(Got(x)) = Count(x) /\ devSent[x] \in Nat
  BY GotShape DEF StreamsInv, Stream, TypeInv, DeviceType
<1>2. EndIsComplete
  <2> SUFFICES ASSUME NEW x \in Ids
               PROVE /\ IsPrefix(Got(x), UpTo(devSent[x]))
                     /\ state[x] \in {"closed", "finished"} => Got(x) = UpTo(devSent[x])
    BY DEF EndIsComplete
  <2>1. Count(x) <= devSent[x] /\ (state[x] \in {"closed", "finished"} => Count(x) = devSent[x])
    BY DEF StreamsInv, Stream, Tally
  <2>2. Len(UpTo(devSent[x])) = devSent[x] /\ SubSeq(UpTo(devSent[x]), 1, Count(x)) = UpTo(Count(x))
        /\ SubSeq(UpTo(Count(x)), 1, Count(x)) = UpTo(Count(x))
    <3>1. Count(x) \in Nat /\ devSent[x] \in Nat /\ Count(x) <= Count(x)
      BY <1>1
    <3> QED BY <2>1, <3>1, UpToShape
  <2> QED BY <1>1, <2>1, <2>2 DEF IsPrefix
<1>3. NothingLost
  <2> SUFFICES ASSUME NEW x \in openStreams
               PROVE LET waiting == pending[x] \o toHost  units == UnitsIn(x, waiting) IN
                     /\ Got(x) = UpTo(Len(Got(x)))
                     /\ {waiting[i].data : i \in units} = Len(Got(x)) + 1 .. devSent[x]
                     /\ \A i, j \in units : i < j => waiting[i].data < waiting[j].data
    BY DEF NothingLost
  <2> DEFINE P == pending[x]  H == toHost  waiting == P \o H  units == UnitsIn(x, waiting)
  <2>1. x \in Ids /\ Lane(x) /\ Tally(x)
    BY DEF StreamsInv, Stream, TypeInv, TablesType
  <2>2. P \in Seq(ToHost) /\ H \in Seq(ToHost) /\ Len(P) \in Nat /\ Len(H) \in Nat
    <3>1. pending[x] \in Seq(HostMessages) /\ toHost \in Seq(ToHost)
      BY <2>1 DEF TypeInv, PipesType
    <3> QED BY <3>1 DEF ToHost
  <2>3. Len(waiting) = Len(P) + Len(H)
        /\ (\A i \in 1 .. Len(P) : waiting[i] = P[i] /\ i \in 1 .. Len(waiting))
        /\ (\A i \in 1 .. Len(H) : waiting[Len(P) + i] = H[i] /\ Len(P) + i \in 1 .. Len(waiting))
        /\ \A i \in 1 .. Len(waiting) : i \in 1 .. Len(P) \/ (i - Len(P) \in 1 .. Len(H) /\ waiting[i] = H[i - Len(P)])
    BY <2>2
  <2>4. (Empty(x) <=> NoData(P, x) /\ NoData(H, x)) /\ OneData(P, x) /\ OneData(H, x) /\ (NoData(P, x) \/ NoData(H, x))
        /\ \A n : Carried(x, n) <=> DataIs(P, x, n) /\ DataIs(H, x, n)
    BY <2>1 DEF Empty, Lane, Carried
  <2> HIDE DEF P, H, waiting
  <2>5. \A i \in units : i \in 1 .. Len(waiting) /\ IsData(waiting[i], x)
    BY DEF UnitsIn, IsData
  <2>6. \A i \in 1 .. Len(waiting) : IsData(waiting[i], x) => i \in units
    BY DEF UnitsIn, IsData
  <2> HIDE DEF units
  <2>7. CASE Empty(x)
    <3>1. units = {}
      <4> SUFFICES ASSUME NEW i \in units PROVE FALSE
        OBVIOUS
      <4>1. i \in 1 .. Len(waiting) /\ IsData(waiting[i], x)
        BY <2>5
      <4> QED BY <2>3, <2>4, <2>7, <4>1 DEF NoData
    <3>2. Len(Got(x)) = devSent[x] /\ Got(x) = UpTo(Len(Got(x)))
      BY <1>1, <2>1, <2>7 DEF Tally
    <3>3. Len(Got(x)) + 1 .. devSent[x] = {}
      BY <1>1, <2>1, <3>2
    <3> QED BY <3>1, <3>2, <3>3 DEF units, waiting, P, H
  <2>8. CASE ~Empty(x)
    <3>1. Count(x) + 1 = devSent[x] /\ DataIs(P, x, devSent[x]) /\ DataIs(H, x, devSent[x])
      BY <2>1, <2>4, <2>8 DEF Tally
    <3>2. \A i \in units : waiting[i].data = devSent[x]
      <4> SUFFICES ASSUME NEW i \in units PROVE waiting[i].data = devSent[x]
        OBVIOUS
      <4>1. i \in 1 .. Len(waiting) /\ IsData(waiting[i], x)
        BY <2>5
      <4> QED BY <2>3, <3>1, <4>1 DEF DataIs
    <3>3. \A i, j \in units : i = j
      <4> SUFFICES ASSUME NEW i \in units, NEW j \in units PROVE i = j
        OBVIOUS
      <4>1. i \in 1 .. Len(waiting) /\ IsData(waiting[i], x) /\ j \in 1 .. Len(waiting) /\ IsData(waiting[j], x)
        BY <2>5
      <4>2. CASE NoData(P, x)
        <5>1. i - Len(P) \in 1 .. Len(H) /\ waiting[i] = H[i - Len(P)] /\ j - Len(P) \in 1 .. Len(H)
              /\ waiting[j] = H[j - Len(P)]
          BY <2>3, <4>1, <4>2 DEF NoData
        <5>2. i - Len(P) = j - Len(P)
          BY <2>4, <4>1, <5>1 DEF OneData
        <5> QED BY <2>2, <4>1, <5>2
      <4>3. CASE NoData(H, x)
        <5>1. i \in 1 .. Len(P) /\ waiting[i] = P[i] /\ j \in 1 .. Len(P) /\ waiting[j] = P[j]
          BY <2>3, <4>1, <4>3 DEF NoData
        <5> QED BY <2>4, <4>1, <5>1 DEF OneData
      <4> QED BY <2>4, <4>2, <4>3
    <3>4. \E i \in units : TRUE
      <4>1. CASE ~NoData(P, x)
        BY <2>3, <2>6, <4>1 DEF NoData
      <4>2. CASE ~NoData(H, x)
        BY <2>3, <2>6, <4>2 DEF NoData
      <4> QED BY <2>4, <2>8, <4>1, <4>2
    <3>5. {waiting[i].data : i \in units} = {devSent[x]}
      BY <3>2, <3>4
    <3>6. Len(Got(x)) + 1 .. devSent[x] = {devSent[x]} /\ Got(x) = UpTo(Len(Got(x)))
      BY <1>1, <2>1, <3>1
    <3>7. \A i, j \in units : i < j => waiting[i].data < waiting[j].data
      <4>1. \A i \in units : i \in Nat
        BY <2>5
      <4> QED BY <3>3, <4>1
    <3> QED BY <3>5, <3>6, <3>7 DEF units, waiting, P, H
  <2> QED BY <2>7, <2>8
<1> QED BY <1>2, <1>3

\* However the calls on any number of streams interleave, and whatever times
\* out or restarts: what a stream reads is what the device sent on it, in
\* order, with nothing lost and its end only after the rest, as long as the
\* ids have not started over.
THEOREM ReadsStayWhole == ASSUME DistinctIds PROVE Spec => []ReadsAreWhole
<1>1. Init => TypeInv /\ StreamsInv
  BY TypeInit, StreamsInit
<1>2. TypeInv /\ StreamsInv /\ [Next]_vars => (TypeInv /\ StreamsInv)'
  BY TypeStep, StreamsStep
<1>3. TypeInv /\ StreamsInv => ReadsAreWhole
  BY WholeReads
<1> QED BY <1>1, <1>2, <1>3, PTL DEF Spec

-----------------------------------------------------------------------------
(* What else a stream has in the pipes.                                     *)

IsReply(m, x) == m.cmd = "OKAY" /\ m.arg1 = x
IsPiece(m, x) == m.cmd = "WRTE" /\ m.arg0 = x
IsClose(m, x) == m.cmd = "CLSE" /\ m.arg0 = x

\* On the way to the host: the OKAYs for the stream, which carry the device's
\* id of it, and data that does not overtake the first of them.
NoReply(s, x) == \A i \in 1 .. Len(s) : ~IsReply(s[i], x)
OneReply(s, x) == \A i, j \in 1 .. Len(s) : IsReply(s[i], x) /\ IsReply(s[j], x) => i = j
RepliesFrom(s, x, r) ==
  \A i \in 1 .. Len(s) : IsReply(s[i], x) => s[i].arg0 # 0 /\ (r # 0 => s[i].arg0 = r)
Led(s, x) ==
  \A j \in 1 .. Len(s) : IsData(s[j], x) => \E i \in 1 .. Len(s) : i < j /\ IsReply(s[i], x)

\* On the way to the device: pieces, the CLSE, and the id messages are sent to.
NoPiece(s, x) == \A i \in 1 .. Len(s) : ~IsPiece(s[i], x)
OnePiece(s, x) == \A i, j \in 1 .. Len(s) : IsPiece(s[i], x) /\ IsPiece(s[j], x) => i = j
PieceIs(s, x, n) == \A i \in 1 .. Len(s) : IsPiece(s[i], x) => s[i].data = n
NoClose(s, x) == \A i \in 1 .. Len(s) : ~IsClose(s[i], x)
CloseLast(s, x) == \A i, j \in 1 .. Len(s) : IsClose(s[i], x) /\ i < j => s[j].arg0 # x
Addressed(s, x, r) == \A i \in 1 .. Len(s) : s[i].arg0 = x /\ s[i].cmd # "OPEN" => s[i].arg1 = r

LEMMA ReplyAppend ==
  ASSUME NEW S, NEW s \in Seq(S), NEW m \in S, NEW x
  PROVE LET t == Append(s, m) IN
        /\ NoReply(t, x) <=> NoReply(s, x) /\ ~IsReply(m, x)
        /\ OneReply(s, x) /\ (NoReply(s, x) \/ ~IsReply(m, x)) => OneReply(t, x)
        /\ \A r : RepliesFrom(s, x, r) /\ (IsReply(m, x) => m.arg0 # 0 /\ (r # 0 => m.arg0 = r)) => RepliesFrom(t, x, r)
        /\ Led(s, x) /\ (~NoReply(s, x) \/ ~IsData(m, x)) => Led(t, x)
<1> DEFINE t == Append(s, m)
<1>0. /\ Len(s) \in Nat /\ t[Len(s) + 1] = m /\ Len(s) + 1 \in 1 .. Len(t)
      /\ \A i \in 1 .. Len(s) : t[i] = s[i] /\ i \in 1 .. Len(t) /\ i < Len(s) + 1
      /\ \A i \in 1 .. Len(t) : i = Len(s) + 1 \/ i \in 1 .. Len(s)
  BY AppendIndex
<1> HIDE DEF t
<1>1. NoReply(t, x) <=> NoReply(s, x) /\ ~IsReply(m, x)
  BY <1>0 DEF NoReply
<1>2. OneReply(s, x) /\ (NoReply(s, x) \/ ~IsReply(m, x)) => OneReply(t, x)
  BY <1>0 DEF NoReply, OneReply
<1>3. ASSUME NEW r, RepliesFrom(s, x, r), IsReply(m, x) => m.arg0 # 0 /\ (r # 0 => m.arg0 = r)
      PROVE RepliesFrom(t, x, r)
  BY <1>0, <1>3 DEF RepliesFrom
<1>4. ASSUME Led(s, x), ~NoReply(s, x) \/ ~IsData(m, x) PROVE Led(t, x)
  <2> SUFFICES ASSUME NEW j \in 1 .. Len(t), IsData(t[j], x)
               PROVE \E i \in 1 .. Len(t) : i < j /\ IsReply(t[i], x)
    BY DEF Led
  <2>1. CASE j \in 1 .. Len(s)
    <3>1. PICK i \in 1 .. Len(s) : i < j /\ IsReply(s[i], x)
      BY <1>0, <1>4, <2>1 DEF Led
    <3> QED BY <1>0, <3>1
  <2>2. CASE j = Len(s) + 1
    <3>1. PICK i \in 1 .. Len(s) : IsReply(s[i], x)
      BY <1>0, <1>4, <2>2 DEF NoReply
    <3> QED BY <1>0, <2>2, <3>1
  <2> QED BY <1>0, <2>1, <2>2
<1> QED BY <1>1, <1>2, <1>3, <1>4 DEF t

LEMMA ReplyTail ==
  ASSUME NEW S, NEW s \in Seq(S), s # <<>>, NEW x
  PROVE LET t == Tail(s)  m == Head(s) IN
        /\ NoReply(s, x) <=> NoReply(t, x) /\ ~IsReply(m, x)
        /\ OneReply(s, x) => OneReply(t, x) /\ (IsReply(m, x) => NoReply(t, x))
        /\ \A r : RepliesFrom(s, x, r) => RepliesFrom(t, x, r) /\ (IsReply(m, x) => m.arg0 # 0 /\ (r # 0 => m.arg0 = r))
        /\ Led(s, x) => ~IsData(m, x) /\ (~IsReply(m, x) => Led(t, x))
<1> DEFINE t == Tail(s)  m == Head(s)
<1>0. /\ m = s[1] /\ 1 \in 1 .. Len(s) /\ Len(s) \in Nat
      /\ \A i \in 1 .. Len(t) : t[i] = s[i + 1] /\ i + 1 \in 1 .. Len(s)
      /\ \A i \in 1 .. Len(s) : i = 1 \/ (i - 1 \in 1 .. Len(t) /\ s[i] = t[i - 1])
      /\ Len(t) = Len(s) - 1
  BY TailIndex
<1> HIDE DEF t, m
<1>1. NoReply(s, x) <=> NoReply(t, x) /\ ~IsReply(m, x)
  BY <1>0 DEF NoReply
<1>2. OneReply(s, x) => OneReply(t, x) /\ (IsReply(m, x) => NoReply(t, x))
  BY <1>0 DEF NoReply, OneReply
<1>3. ASSUME NEW r, RepliesFrom(s, x, r)
      PROVE  RepliesFrom(t, x, r) /\ (IsReply(m, x) => m.arg0 # 0 /\ (r # 0 => m.arg0 = r))
  <2>1. IsReply(m, x) => m.arg0 # 0 /\ (r # 0 => m.arg0 = r)
    BY <1>0, <1>3 DEF RepliesFrom
  <2>2. ASSUME NEW i \in 1 .. Len(t), IsReply(t[i], x)
        PROVE  t[i].arg0 # 0 /\ (r # 0 => t[i].arg0 = r)
    <3>1. t[i] = s[i + 1] /\ i + 1 \in 1 .. Len(s)
      BY <1>0
    <3> QED BY <1>3, <2>2, <3>1 DEF RepliesFrom
  <2> QED BY <2>1, <2>2 DEF RepliesFrom
<1>4. Led(s, x) => ~IsData(m, x)
  BY <1>0 DEF Led
<1>5. ASSUME Led(s, x), ~IsReply(m, x) PROVE Led(t, x)
  <2> SUFFICES ASSUME NEW j \in 1 .. Len(t), IsData(t[j], x)
               PROVE \E i \in 1 .. Len(t) : i < j /\ IsReply(t[i], x)
    BY DEF Led
  <2>1. PICK i \in 1 .. Len(s) : i < j + 1 /\ IsReply(s[i], x)
    BY <1>0, <1>5 DEF Led
  <2>2. i # 1
    BY <1>0, <1>5, <2>1
  <2>3. i - 1 \in 1 .. Len(t) /\ i - 1 < j /\ IsReply(t[i - 1], x)
    BY <1>0, <2>1, <2>2
  <2> QED BY <2>3
<1> QED BY <1>1, <1>2, <1>3, <1>4, <1>5 DEF t, m

LEMMA PieceAppend ==
  ASSUME NEW S, NEW s \in Seq(S), NEW m \in S, NEW x
  PROVE LET t == Append(s, m) IN
        /\ NoPiece(t, x) <=> NoPiece(s, x) /\ ~IsPiece(m, x)
        /\ OnePiece(s, x) /\ (NoPiece(s, x) \/ ~IsPiece(m, x)) => OnePiece(t, x)
        /\ \A n : PieceIs(s, x, n) /\ (IsPiece(m, x) => m.data = n) => PieceIs(t, x, n)
        /\ NoClose(t, x) <=> NoClose(s, x) /\ ~IsClose(m, x)
        /\ CloseLast(s, x) /\ (NoClose(s, x) \/ m.arg0 # x) => CloseLast(t, x)
        /\ \A r : Addressed(s, x, r) /\ (m.arg0 = x /\ m.cmd # "OPEN" => m.arg1 = r) => Addressed(t, x, r)
<1> DEFINE t == Append(s, m)
<1>0. /\ Len(s) \in Nat /\ t[Len(s) + 1] = m /\ Len(s) + 1 \in 1 .. Len(t)
      /\ \A i \in 1 .. Len(s) : t[i] = s[i] /\ i \in 1 .. Len(t) /\ i < Len(s) + 1
      /\ \A i \in 1 .. Len(t) : i = Len(s) + 1 \/ i \in 1 .. Len(s)
  BY AppendIndex
<1> HIDE DEF t
<1>1. NoPiece(t, x) <=> NoPiece(s, x) /\ ~IsPiece(m, x)
  BY <1>0 DEF NoPiece
<1>2. OnePiece(s, x) /\ (NoPiece(s, x) \/ ~IsPiece(m, x)) => OnePiece(t, x)
  BY <1>0 DEF NoPiece, OnePiece
<1>3. \A n : PieceIs(s, x, n) /\ (IsPiece(m, x) => m.data = n) => PieceIs(t, x, n)
  BY <1>0 DEF PieceIs
<1>4. NoClose(t, x) <=> NoClose(s, x) /\ ~IsClose(m, x)
  BY <1>0 DEF NoClose
<1>5. ASSUME CloseLast(s, x), NoClose(s, x) \/ m.arg0 # x PROVE CloseLast(t, x)
  <2> SUFFICES ASSUME NEW i \in 1 .. Len(t), NEW j \in 1 .. Len(t), IsClose(t[i], x), i < j PROVE t[j].arg0 # x
    BY DEF CloseLast
  <2>1. i \in 1 .. Len(s) /\ IsClose(s[i], x)
    <3>1. i # Len(s) + 1
      BY <1>0
    <3> QED BY <1>0, <3>1
  <2>2. CASE j = Len(s) + 1
    BY <1>0, <1>5, <2>1, <2>2 DEF NoClose
  <2>3. CASE j \in 1 .. Len(s)
    BY <1>0, <1>5, <2>1, <2>3 DEF CloseLast
  <2> QED BY <1>0, <2>2, <2>3
<1>6. \A r : Addressed(s, x, r) /\ (m.arg0 = x /\ m.cmd # "OPEN" => m.arg1 = r) => Addressed(t, x, r)
  BY <1>0 DEF Addressed
<1> QED BY <1>1, <1>2, <1>3, <1>4, <1>5, <1>6 DEF t

LEMMA PieceTail ==
  ASSUME NEW S, NEW s \in Seq(S), s # <<>>, NEW x
  PROVE LET t == Tail(s)  m == Head(s) IN
        /\ NoPiece(s, x) <=> NoPiece(t, x) /\ ~IsPiece(m, x)
        /\ OnePiece(s, x) => OnePiece(t, x) /\ (IsPiece(m, x) => NoPiece(t, x))
        /\ \A n : PieceIs(s, x, n) => PieceIs(t, x, n) /\ (IsPiece(m, x) => m.data = n)
        /\ NoClose(s, x) <=> NoClose(t, x) /\ ~IsClose(m, x)
        /\ CloseLast(s, x) => CloseLast(t, x)
        /\ \A r : Addressed(s, x, r) => Addressed(t, x, r) /\ (m.arg0 = x /\ m.cmd # "OPEN" => m.arg1 = r)
<1> DEFINE t == Tail(s)  m == Head(s)
<1>0. /\ m = s[1] /\ 1 \in 1 .. Len(s) /\ Len(s) \in Nat
      /\ \A i \in 1 .. Len(t) : t[i] = s[i + 1] /\ i + 1 \in 1 .. Len(s)
      /\ \A i \in 1 .. Len(s) : i = 1 \/ (i - 1 \in 1 .. Len(t) /\ s[i] = t[i - 1])
      /\ Len(t) = Len(s) - 1
  BY TailIndex
<1> HIDE DEF t, m
<1>1. NoPiece(s, x) <=> NoPiece(t, x) /\ ~IsPiece(m, x)
  BY <1>0 DEF NoPiece
<1>2. OnePiece(s, x) => OnePiece(t, x) /\ (IsPiece(m, x) => NoPiece(t, x))
  BY <1>0 DEF NoPiece, OnePiece
<1>3. \A n : PieceIs(s, x, n) => PieceIs(t, x, n) /\ (IsPiece(m, x) => m.data = n)
  BY <1>0 DEF PieceIs
<1>4. NoClose(s, x) <=> NoClose(t, x) /\ ~IsClose(m, x)
  BY <1>0 DEF NoClose
<1>5. CloseLast(s, x) => CloseLast(t, x)
  BY <1>0 DEF CloseLast
<1>6. \A r : Addressed(s, x, r) => Addressed(t, x, r) /\ (m.arg0 = x /\ m.cmd # "OPEN" => m.arg1 = r)
  BY <1>0 DEF Addressed
<1> QED BY <1>1, <1>2, <1>3, <1>4, <1>5, <1>6 DEF t, m

\* What a pipe without messages of the stream has none of.
LEMMA QuietHasNone ==
  ASSUME NEW s, NEW x
  PROVE /\ Quiet(s, x) => NoReply(s, x) /\ Led(s, x)
        /\ NoReply(s, x) => OneReply(s, x) /\ \A r : RepliesFrom(s, x, r)
        /\ Silent(s, x) => NoPiece(s, x) /\ NoClose(s, x) /\ \A r : Addressed(s, x, r)
        /\ NoPiece(s, x) => OnePiece(s, x) /\ \A n : PieceIs(s, x, n)
        /\ NoClose(s, x) => CloseLast(s, x)
  BY DEF Quiet, Silent, NoReply, OneReply, RepliesFrom, Led, NoPiece, NoClose, CloseLast, Addressed, OnePiece,
    PieceIs, IsReply, IsData, IsPiece, IsClose
LEMMA NothingHasNone ==
  ASSUME NEW x
  PROVE Quiet(<<>>, x) /\ Silent(<<>>, x) /\ NoReply(<<>>, x) /\ Led(<<>>, x)
  BY DEF Quiet, Silent, NoReply, Led

-----------------------------------------------------------------------------
(* The inductive invariant, stream by stream.                               *)

Replies(x, r) == RepliesFrom(pending[x], x, r) /\ RepliesFrom(toHost, x, r)
Unanswered(x) == NoReply(pending[x], x) /\ NoReply(toHost, x)
LoneReply(x) ==
  OneReply(pending[x], x) /\ OneReply(toHost, x) /\ (NoReply(pending[x], x) \/ NoReply(toHost, x))
Leading(x) == Led(pending[x], x) /\ (Led(toHost, x) \/ ~NoReply(pending[x], x))

\* Both ends mean the same socket, and the host learns which one before any
\* data of it arrives.
Agreed(x) ==
  /\ Replies(x, devRemote[x])
  /\ remoteId[x] # 0 /\ devRemote[x] # 0 => remoteId[x] = devRemote[x]
  /\ devRemote[x] # 0 => Addressed(toDevice, x, devRemote[x])
  /\ state[x] = "live" => remoteId[x] # 0
  /\ x \in openStreams /\ remoteId[x] = 0 => Leading(x) /\ (devRemote[x] # 0 => ~Unanswered(x))

\* A device that waits for an acknowledgement will get it.
Awaited(x) ==
  /\ devAwait[x] => devRemote[x] # 0
  /\ x \in openStreams /\ devAwait[x] => ~Empty(x) \/ ~NoAck(toDevice, x)

\* The host's CLSE is its last word, and it is on the way while the device
\* still has a socket for a stream that was disposed.
Ended(x) ==
  /\ CloseLast(toDevice, x)
  /\ ~NoClose(toDevice, x) => x \notin openStreams
  /\ state[x] = "disposed" /\ devRemote[x] # 0 => ~NoClose(toDevice, x)

\* Of what a Write sends, one piece is on its way, or the OKAY for it, or none.
Writing(x) == call.op = "write" /\ call.id = x
Taken(x) == NoPiece(toDevice, x) /\ Len(devGot[x]) = written[x]
Settled(x) == Unanswered(x) /\ Taken(x)
Piecewise(x) ==
  /\ \A i \in 1 .. Len(devGot[x]) : devGot[x][i] = i
  /\ accepted[x] <= Len(devGot[x]) /\ Len(devGot[x]) <= written[x]
  /\ OnePiece(toDevice, x) /\ PieceIs(toDevice, x, written[x])
  /\ ~NoPiece(toDevice, x) => written[x] = Len(devGot[x]) + 1
  /\ LoneReply(x)
  /\ ~Unanswered(x) => Taken(x)
  /\ state[x] = "live" /\ ~Writing(x) => Settled(x)
  /\ x > opens \/ ~NoOpen(toDevice, x) => Settled(x)

Kept(x) == Agreed(x) /\ Awaited(x) /\ Ended(x) /\ (Undisturbed => Piecewise(x))
NoRestart == \A i \in 1 .. Len(toHost) : toHost[i].cmd # "CNXN"

\* The rest of the types, and the bounds of what is sent and written.
Extent ==
  /\ nextLocalId \in Ids /\ connected \in BOOLEAN /\ online \in BOOLEAN
  /\ timeouts \in Nat /\ restarts \in Nat
  /\ devGot \in [Ids -> Seq(Nat)] /\ accepted \in [Ids -> Nat]
  /\ \A x \in Ids : devSent[x] <= MaxSent /\ written[x] <= MaxWritten
  /\ call.op = "write" => written[call.id] + call.left <= MaxWritten

ProtocolInv == Extent /\ (\A x \in Ids : Kept(x)) /\ (Undisturbed => NoRestart)

-----------------------------------------------------------------------------
(* What the steps do to the replies on their way.                           *)

\* What a step leaves of the replies, unless it is the device's.
Heard(x) ==
  /\ \A r : Replies(x, r) => Replies(x, r)'
  /\ Unanswered(x) => Unanswered(x)'
  /\ LoneReply(x) => LoneReply(x)'

LEMMA HeardElsewhere ==
  ASSUME PipesType, NEW x, HostElsewhere(x), pending'[x] = pending[x]
  PROVE Heard(x) /\ (Unanswered(x)' <=> Unanswered(x)) /\ (Leading(x) => Leading(x)')
<1>1. /\ NoReply(toHost', x) <=> NoReply(toHost, x)
      /\ OneReply(toHost, x) => OneReply(toHost', x)
      /\ \A r : RepliesFrom(toHost, x, r) => RepliesFrom(toHost', x, r)
      /\ Led(toHost, x) => Led(toHost', x)
  <2>1. CASE toHost' = toHost
    BY <2>1
  <2>2. CASE toHost # <<>> /\ Head(toHost).arg1 # x /\ toHost' = Tail(toHost)
    <3>1. ~IsReply(Head(toHost), x) /\ ~IsData(Head(toHost), x)
      BY <2>2 DEF IsReply, IsData
    <3> QED BY <2>2, <3>1, ReplyTail DEF PipesType
  <2>3. ASSUME NEW m \in ToHost, m.arg1 # x, toHost' = Append(toHost, m)
        PROVE /\ NoReply(toHost', x) <=> NoReply(toHost, x)
              /\ OneReply(toHost, x) => OneReply(toHost', x)
              /\ \A r : RepliesFrom(toHost, x, r) => RepliesFrom(toHost', x, r)
              /\ Led(toHost, x) => Led(toHost', x)
    <3>1. ~IsReply(m, x) /\ ~IsData(m, x)
      BY <2>3 DEF IsReply, IsData
    <3> QED BY <2>3, <3>1, ReplyAppend DEF PipesType
  <2> QED BY <2>1, <2>2, <2>3 DEF HostElsewhere
<1>2. Heard(x)
  BY <1>1 DEF Heard, Replies, Unanswered, LoneReply
<1> QED BY <1>1, <1>2 DEF Unanswered, Leading

LEMMA HeardTake ==
  ASSUME PipesType, NEW x \in Ids, Lane(x), Arrived(x), Take(x)
  PROVE LET m == Arrival(x) IN
        /\ Heard(x)
        /\ IsReply(m, x) => ~Unanswered(x) /\ (LoneReply(x) => Unanswered(x)')
        /\ \A r : Replies(x, r) /\ IsReply(m, x) => m.arg0 # 0 /\ (r # 0 => m.arg0 = r)
        /\ ~IsReply(m, x) => (Unanswered(x)' <=> Unanswered(x))
        /\ Leading(x) => ~IsData(m, x) /\ (~IsReply(m, x) => Leading(x)')
<1> DEFINE m == Arrival(x)  P == pending[x]
<1>1. CASE FromQueue(x)
  <2>1. P # <<>> /\ P \in Seq(HostMessages) /\ m = Head(P) /\ pending'[x] = Tail(P) /\ toHost' = toHost
    BY <1>1 DEF FromQueue, PipesType
  <2> HIDE DEF P, m
  <2>2. /\ NoReply(P, x) <=> NoReply(Tail(P), x) /\ ~IsReply(m, x)
        /\ OneReply(P, x) => OneReply(Tail(P), x) /\ (IsReply(m, x) => NoReply(Tail(P), x))
        /\ \A r : RepliesFrom(P, x, r) =>
             RepliesFrom(Tail(P), x, r) /\ (IsReply(m, x) => m.arg0 # 0 /\ (r # 0 => m.arg0 = r))
        /\ Led(P, x) => ~IsData(m, x) /\ (~IsReply(m, x) => Led(Tail(P), x))
    BY <2>1, ReplyTail
  <2>3. /\ Unanswered(x) <=> NoReply(P, x) /\ NoReply(toHost, x)
        /\ LoneReply(x) <=> OneReply(P, x) /\ OneReply(toHost, x) /\ (NoReply(P, x) \/ NoReply(toHost, x))
        /\ \A r : Replies(x, r) <=> RepliesFrom(P, x, r) /\ RepliesFrom(toHost, x, r)
        /\ Leading(x) <=> Led(P, x) /\ (Led(toHost, x) \/ ~NoReply(P, x))
    BY DEF Unanswered, LoneReply, Replies, Leading, P
  <2>4. /\ Unanswered(x)' <=> NoReply(Tail(P), x) /\ NoReply(toHost, x)
        /\ LoneReply(x)' <=> OneReply(Tail(P), x) /\ OneReply(toHost, x) /\ (NoReply(Tail(P), x) \/ NoReply(toHost, x))
        /\ \A r : Replies(x, r)' <=> RepliesFrom(Tail(P), x, r) /\ RepliesFrom(toHost, x, r)
        /\ Leading(x)' <=> Led(Tail(P), x) /\ (Led(toHost, x) \/ ~NoReply(Tail(P), x))
    BY <2>1 DEF Unanswered, LoneReply, Replies, Leading
  <2>5. Heard(x)
    BY <2>2, <2>3, <2>4 DEF Heard
  <2> QED BY <2>2, <2>3, <2>4, <2>5 DEF m
<1>2. CASE FromPipe(x)
  <2>1. P = <<>> /\ toHost # <<>> /\ toHost \in Seq(ToHost) /\ m = Head(toHost)
        /\ pending'[x] = P /\ toHost' = Tail(toHost)
    BY <1>2 DEF FromPipe, PipesType
  <2> HIDE DEF P, m
  <2> DEFINE t == Tail(toHost)
  <2>2. /\ NoReply(toHost, x) <=> NoReply(t, x) /\ ~IsReply(m, x)
        /\ OneReply(toHost, x) => OneReply(t, x) /\ (IsReply(m, x) => NoReply(t, x))
        /\ \A r : RepliesFrom(toHost, x, r) =>
             RepliesFrom(t, x, r) /\ (IsReply(m, x) => m.arg0 # 0 /\ (r # 0 => m.arg0 = r))
        /\ Led(toHost, x) => ~IsData(m, x) /\ (~IsReply(m, x) => Led(t, x))
    BY <2>1, ReplyTail
  <2> HIDE DEF t
  <2>3. NoReply(P, x) /\ OneReply(P, x) /\ Led(P, x) /\ \A r : RepliesFrom(P, x, r)
    BY <2>1, NothingHasNone, QuietHasNone
  <2>4. /\ Unanswered(x) <=> NoReply(P, x) /\ NoReply(toHost, x)
        /\ LoneReply(x) <=> OneReply(P, x) /\ OneReply(toHost, x) /\ (NoReply(P, x) \/ NoReply(toHost, x))
        /\ \A r : Replies(x, r) <=> RepliesFrom(P, x, r) /\ RepliesFrom(toHost, x, r)
        /\ Leading(x) <=> Led(P, x) /\ (Led(toHost, x) \/ ~NoReply(P, x))
    BY DEF Unanswered, LoneReply, Replies, Leading, P
  <2>5. /\ Unanswered(x)' <=> NoReply(P, x) /\ NoReply(t, x)
        /\ LoneReply(x)' <=> OneReply(P, x) /\ OneReply(t, x) /\ (NoReply(P, x) \/ NoReply(t, x))
        /\ \A r : Replies(x, r)' <=> RepliesFrom(P, x, r) /\ RepliesFrom(t, x, r)
        /\ Leading(x)' <=> Led(P, x) /\ (Led(t, x) \/ ~NoReply(P, x))
    BY <2>1 DEF Unanswered, LoneReply, Replies, Leading, t
  <2>6. Heard(x)
    BY <2>2, <2>3, <2>4, <2>5 DEF Heard
  <2> QED BY <2>2, <2>3, <2>4, <2>5, <2>6 DEF m
<1> QED BY <1>1, <1>2, TakeShape

LEMMA HeardDrop ==
  ASSUME PipesType, NEW x \in Ids, pending'[x] = <<>> \/ pending'[x] = pending[x],
         toHost' = toHost \/ (toHost # <<>> /\ toHost' = Tail(toHost))
  PROVE Heard(x)
<1>1. /\ NoReply(toHost, x) => NoReply(toHost', x)
      /\ OneReply(toHost, x) => OneReply(toHost', x)
      /\ \A r : RepliesFrom(toHost, x, r) => RepliesFrom(toHost', x, r)
  <2>1. CASE toHost' = toHost
    BY <2>1
  <2>2. CASE toHost # <<>> /\ toHost' = Tail(toHost)
    BY <2>2, ReplyTail DEF PipesType
  <2> QED BY <2>1, <2>2
<1>2. CASE pending'[x] = <<>>
  <2>1. NoReply(pending'[x], x) /\ OneReply(pending'[x], x) /\ \A r : RepliesFrom(pending'[x], x, r)
    BY <1>2, NothingHasNone, QuietHasNone
  <2> QED BY <1>1, <2>1 DEF Heard, Replies, Unanswered, LoneReply
<1>3. CASE pending'[x] = pending[x]
  BY <1>1, <1>3 DEF Heard, Replies, Unanswered, LoneReply
<1> QED BY <1>2, <1>3

LEMMA HeardRoute ==
  ASSUME PipesType, NEW x \in Ids, toHost # <<>>, Head(toHost) \in HostMessages,
         pending'[x] = Append(pending[x], Head(toHost)), toHost' = Tail(toHost)
  PROVE Heard(x) /\ (Unanswered(x)' <=> Unanswered(x)) /\ (Leading(x) => Leading(x)')
<1> DEFINE m == Head(toHost)  P == pending[x]  Q == Append(P, m)  t == Tail(toHost)
<1>1. P \in Seq(HostMessages) /\ toHost \in Seq(ToHost) /\ m \in HostMessages
  BY DEF PipesType
<1>2. /\ NoReply(toHost, x) <=> NoReply(t, x) /\ ~IsReply(m, x)
      /\ OneReply(toHost, x) => OneReply(t, x) /\ (IsReply(m, x) => NoReply(t, x))
      /\ \A r : RepliesFrom(toHost, x, r) =>
           RepliesFrom(t, x, r) /\ (IsReply(m, x) => m.arg0 # 0 /\ (r # 0 => m.arg0 = r))
      /\ Led(toHost, x) => ~IsData(m, x) /\ (~IsReply(m, x) => Led(t, x))
  BY <1>1, ReplyTail
<1> HIDE DEF m, P, t
<1>3. /\ NoReply(Q, x) <=> NoReply(P, x) /\ ~IsReply(m, x)
      /\ OneReply(P, x) /\ (NoReply(P, x) \/ ~IsReply(m, x)) => OneReply(Q, x)
      /\ \A r : RepliesFrom(P, x, r) /\ (IsReply(m, x) => m.arg0 # 0 /\ (r # 0 => m.arg0 = r)) => RepliesFrom(Q, x, r)
      /\ Led(P, x) /\ (~NoReply(P, x) \/ ~IsData(m, x)) => Led(Q, x)
  BY <1>1, ReplyAppend
<1>4. pending'[x] = Q /\ toHost' = t
  BY DEF m, P, t
<1> HIDE DEF Q
<1>5. /\ Unanswered(x) <=> NoReply(P, x) /\ NoReply(toHost, x)
      /\ LoneReply(x) <=> OneReply(P, x) /\ OneReply(toHost, x) /\ (NoReply(P, x) \/ NoReply(toHost, x))
      /\ \A r : Replies(x, r) <=> RepliesFrom(P, x, r) /\ RepliesFrom(toHost, x, r)
      /\ Leading(x) <=> Led(P, x) /\ (Led(toHost, x) \/ ~NoReply(P, x))
  BY DEF Unanswered, LoneReply, Replies, Leading, P
<1>6. /\ Unanswered(x)' <=> NoReply(Q, x) /\ NoReply(t, x)
      /\ LoneReply(x)' <=> OneReply(Q, x) /\ OneReply(t, x) /\ (NoReply(Q, x) \/ NoReply(t, x))
      /\ \A r : Replies(x, r)' <=> RepliesFrom(Q, x, r) /\ RepliesFrom(t, x, r)
      /\ Leading(x)' <=> Led(Q, x) /\ (Led(t, x) \/ ~NoReply(Q, x))
  BY <1>4 DEF Unanswered, LoneReply, Replies, Leading
<1>7. Heard(x)
  BY <1>2, <1>3, <1>5, <1>6 DEF Heard
<1> QED BY <1>2, <1>3, <1>5, <1>6, <1>7

\* The device adds a message.
LEMMA HeardSend ==
  ASSUME PipesType, NEW x \in Ids, NEW m \in ToHost, pending'[x] = pending[x], toHost' = Append(toHost, m)
  PROVE /\ Unanswered(x)' <=> Unanswered(x) /\ ~IsReply(m, x)
        /\ LoneReply(x) /\ (Unanswered(x) \/ ~IsReply(m, x)) => LoneReply(x)'
        /\ \A r : Replies(x, r) /\ (IsReply(m, x) => m.arg0 # 0 /\ (r # 0 => m.arg0 = r)) => Replies(x, r)'
        /\ Leading(x) /\ (~Unanswered(x) \/ ~IsData(m, x)) => Leading(x)'
<1>1. /\ NoReply(toHost', x) <=> NoReply(toHost, x) /\ ~IsReply(m, x)
      /\ OneReply(toHost, x) /\ (NoReply(toHost, x) \/ ~IsReply(m, x)) => OneReply(toHost', x)
      /\ \A r : RepliesFrom(toHost, x, r) /\ (IsReply(m, x) => m.arg0 # 0 /\ (r # 0 => m.arg0 = r))
                => RepliesFrom(toHost', x, r)
      /\ Led(toHost, x) /\ (~NoReply(toHost, x) \/ ~IsData(m, x)) => Led(toHost', x)
  BY ReplyAppend DEF PipesType
<1> QED BY <1>1 DEF Unanswered, LoneReply, Replies, Leading

-----------------------------------------------------------------------------
(* How the invariant of a stream is kept.                                   *)

\* The host sends nothing of the stream, or a message of an open one, to the
\* socket if it has one; with the CLSE the stream is no longer open.
Said(x) ==
  \/ toDevice' = toDevice
  \/ \E a \in ToDevice :
       /\ a.arg0 = x /\ a.cmd # "OPEN" /\ x \in openStreams /\ toDevice' = Append(toDevice, a)
       /\ devRemote[x] # 0 => a.arg1 = devRemote[x]
       /\ a.cmd = "CLSE" => x \notin openStreams'

LEMMA EndedKept ==
  ASSUME PipesType, NEW x \in Ids, Ended(x), Said(x), devRemote'[x] = devRemote[x],
         x \in openStreams' => x \in openStreams,
         state'[x] = "disposed" => state[x] = "disposed" \/ ~NoClose(toDevice', x) \/ devRemote[x] = 0
  PROVE Ended(x)'
<1>1. CASE toDevice' = toDevice
  BY <1>1 DEF Ended
<1>2. ASSUME NEW a \in ToDevice, a.arg0 = x, x \in openStreams, toDevice' = Append(toDevice, a),
             a.cmd = "CLSE" => x \notin openStreams'
      PROVE Ended(x)'
  <2>1. NoClose(toDevice, x)
    BY <1>2 DEF Ended
  <2>2. /\ NoClose(toDevice', x) <=> NoClose(toDevice, x) /\ ~IsClose(a, x)
        /\ CloseLast(toDevice, x) /\ NoClose(toDevice, x) => CloseLast(toDevice', x)
    BY <1>2, PieceAppend DEF PipesType
  <2> QED BY <1>2, <2>1, <2>2 DEF Ended, IsClose
<1> QED BY <1>1, <1>2 DEF Said

LEMMA AgreedKept ==
  ASSUME PipesType, NEW x \in Ids, Agreed(x), Said(x), Heard(x), devRemote'[x] = devRemote[x],
         remoteId'[x] # 0 /\ devRemote[x] # 0 => remoteId'[x] = devRemote[x],
         state'[x] = "live" => remoteId'[x] # 0,
         x \in openStreams' /\ remoteId'[x] = 0 =>
           /\ x \in openStreams /\ remoteId[x] = 0 /\ (Leading(x) => Leading(x)')
           /\ ~Unanswered(x) => ~Unanswered(x)'
  PROVE Agreed(x)'
<1>1. devRemote[x] # 0 => Addressed(toDevice', x, devRemote[x])
  <2>1. CASE toDevice' = toDevice
    BY <2>1 DEF Agreed
  <2>2. ASSUME NEW a \in ToDevice, toDevice' = Append(toDevice, a), devRemote[x] # 0, a.arg1 = devRemote[x]
        PROVE Addressed(toDevice', x, devRemote[x])
    BY <2>2, PieceAppend DEF PipesType, Agreed
  <2> QED BY <2>1, <2>2 DEF Said
<1>2. Replies(x, devRemote[x])'
  <2>1. PICK r : r = devRemote[x]
    OBVIOUS
  <2>2. Replies(x, r)'
    BY <2>1 DEF Agreed, Heard
  <2>3. devRemote'[x] = r
    BY <2>1
  <2> QED BY <2>2, <2>3
<1> QED BY <1>1, <1>2 DEF Agreed

LEMMA AwaitedKept ==
  ASSUME PipesType, NEW x \in Ids, Awaited(x), Said(x), devRemote'[x] = devRemote[x], devAwait'[x] = devAwait[x],
         x \in openStreams' => x \in openStreams /\ ((Empty(x)' => Empty(x)) \/ ~NoAck(toDevice', x))
  PROVE Awaited(x)'
<1>1. ~NoAck(toDevice, x) => ~NoAck(toDevice', x)
  <2>1. CASE toDevice' = toDevice
    BY <2>1
  <2>2. ASSUME NEW a \in ToDevice, toDevice' = Append(toDevice, a)
        PROVE ~NoAck(toDevice, x) => ~NoAck(toDevice', x)
    BY <2>2, DeviceAppend DEF PipesType
  <2> QED BY <2>1, <2>2 DEF Said
<1> QED BY <1>1 DEF Awaited

\* No piece is sent.  A stream that becomes live, or is written to no more,
\* has just had its OKAY.
LEMMA PiecesKept ==
  ASSUME PipesType, NEW x \in Ids, Piecewise(x), Heard(x),
         toDevice' = toDevice \/ \E a \in ToDevice : a.cmd # "WRTE" /\ toDevice' = Append(toDevice, a),
         devGot'[x] = devGot[x], written'[x] = written[x],
         accepted'[x] = accepted[x] \/ (accepted'[x] = written[x] /\ ~Unanswered(x)),
         state'[x] = "live" /\ ~Writing(x)' =>
           (state[x] = "live" /\ ~Writing(x)) \/ (~Unanswered(x) /\ Unanswered(x)'),
         x > opens' \/ ~NoOpen(toDevice', x) => x > opens \/ ~NoOpen(toDevice, x),
         devGot[x] \in Seq(Nat), accepted[x] \in Nat
  PROVE Piecewise(x)'
<1>1. /\ NoPiece(toDevice', x) <=> NoPiece(toDevice, x)
      /\ OnePiece(toDevice, x) => OnePiece(toDevice', x)
      /\ \A n : PieceIs(toDevice, x, n) => PieceIs(toDevice', x, n)
  <2>1. CASE toDevice' = toDevice
    BY <2>1
  <2>2. ASSUME NEW a \in ToDevice, a.cmd # "WRTE", toDevice' = Append(toDevice, a)
        PROVE /\ NoPiece(toDevice', x) <=> NoPiece(toDevice, x)
              /\ OnePiece(toDevice, x) => OnePiece(toDevice', x)
              /\ \A n : PieceIs(toDevice, x, n) => PieceIs(toDevice', x, n)
    <3>1. ~IsPiece(a, x)
      BY <2>2 DEF IsPiece
    <3> QED BY <2>2, <3>1, PieceAppend DEF PipesType
  <2> QED BY <2>1, <2>2
<1>2. Taken(x)' <=> Taken(x)
  BY <1>1 DEF Taken
<1>3. accepted'[x] <= Len(devGot[x])
  BY DEF Piecewise, Taken
<1>4. (Unanswered(x) => Unanswered(x)') /\ (LoneReply(x) => LoneReply(x)')
  BY DEF Heard
<1>5. Settled(x) => Settled(x)'
  BY <1>2, <1>4 DEF Settled
<1>6. ~Unanswered(x) /\ Unanswered(x)' => Settled(x)'
  BY <1>2 DEF Piecewise, Settled
<1> QED BY <1>1, <1>2, <1>3, <1>4, <1>5, <1>6 DEF Piecewise

\* The next piece is sent when there is none on its way, nor an OKAY.
LEMMA PieceSent ==
  ASSUME PipesType, NEW x \in Ids, Piecewise(x), Heard(x), Taken(x), Unanswered(x)', ~(x > opens'), NoOpen(toDevice, x),
         NEW a \in ToDevice, a.cmd = "WRTE", a.data = written[x] + 1, toDevice' = Append(toDevice, a),
         devGot'[x] = devGot[x], written'[x] = written[x] + 1, Writing(x)',
         accepted'[x] = accepted[x] \/ accepted'[x] = written[x],
         devGot[x] \in Seq(Nat), accepted[x] \in Nat, written[x] \in Nat
  PROVE Piecewise(x)'
<1>1. /\ OnePiece(toDevice', x) /\ PieceIs(toDevice', x, written'[x])
  <2>1. NoPiece(toDevice, x) /\ OnePiece(toDevice, x) /\ PieceIs(toDevice, x, written'[x])
    BY QuietHasNone DEF Taken
  <2> QED BY <2>1, PieceAppend DEF PipesType
<1>2. NoOpen(toDevice', x)
  <2>1. ~IsOpen(a, x)
    BY DEF IsOpen
  <2> QED BY <2>1, DeviceAppend DEF PipesType
<1>3. Len(devGot[x]) = written[x] /\ LoneReply(x)'
  BY DEF Taken, Heard, Piecewise
<1>4. accepted'[x] <= Len(devGot'[x]) /\ Len(devGot'[x]) <= written'[x] /\ written'[x] = Len(devGot'[x]) + 1
  BY <1>3 DEF Piecewise
<1>5. \A i \in 1 .. Len(devGot'[x]) : devGot'[x][i] = i
  BY DEF Piecewise
<1> QED BY <1>1, <1>2, <1>3, <1>4, <1>5 DEF Piecewise

\* A stream that a step does not concern.
Apart(x) ==
  /\ pending'[x] = pending[x] /\ state'[x] = state[x] /\ remoteId'[x] = remoteId[x]
  /\ devRemote'[x] = devRemote[x] /\ devAwait'[x] = devAwait[x] /\ devGot'[x] = devGot[x]
  /\ written'[x] = written[x] /\ accepted'[x] = accepted[x]
  /\ x \in openStreams' <=> x \in openStreams
  /\ Writing(x)' <=> Writing(x)

LEMMA SaidElsewhere ==
  ASSUME PipesType, NEW x, DeviceElsewhere(x)
  PROVE /\ NoPiece(toDevice', x) <=> NoPiece(toDevice, x)
        /\ OnePiece(toDevice, x) => OnePiece(toDevice', x)
        /\ \A n : PieceIs(toDevice, x, n) => PieceIs(toDevice', x, n)
        /\ NoClose(toDevice', x) <=> NoClose(toDevice, x)
        /\ CloseLast(toDevice, x) => CloseLast(toDevice', x)
        /\ \A r : Addressed(toDevice, x, r) => Addressed(toDevice', x, r)
<1>1. CASE toDevice' = toDevice
  BY <1>1
<1>2. CASE toDevice # <<>> /\ Head(toDevice).arg0 # x /\ toDevice' = Tail(toDevice)
  <2>1. ~IsPiece(Head(toDevice), x) /\ ~IsClose(Head(toDevice), x)
    BY <1>2 DEF IsPiece, IsClose
  <2> QED BY <1>2, <2>1, PieceTail DEF PipesType
<1>3. ASSUME NEW m \in ToDevice, m.arg0 # x, toDevice' = Append(toDevice, m)
      PROVE /\ NoPiece(toDevice', x) <=> NoPiece(toDevice, x)
            /\ OnePiece(toDevice, x) => OnePiece(toDevice', x)
            /\ \A n : PieceIs(toDevice, x, n) => PieceIs(toDevice', x, n)
            /\ NoClose(toDevice', x) <=> NoClose(toDevice, x)
            /\ CloseLast(toDevice, x) => CloseLast(toDevice', x)
            /\ \A r : Addressed(toDevice, x, r) => Addressed(toDevice', x, r)
  <2>1. ~IsPiece(m, x) /\ ~IsClose(m, x)
    BY <1>3 DEF IsPiece, IsClose
  <2> QED BY <1>3, <2>1, PieceAppend DEF PipesType
<1> QED BY <1>1, <1>2, <1>3 DEF DeviceElsewhere

LEMMA KeptElsewhere ==
  ASSUME PipesType, NEW x \in Ids, Kept(x), Apart(x), HostElsewhere(x), DeviceElsewhere(x),
         x > opens' => x > opens, Undisturbed' => Undisturbed
  PROVE Kept(x)'
<1>1. Heard(x) /\ (Unanswered(x)' <=> Unanswered(x)) /\ (Leading(x) => Leading(x)')
  BY HeardElsewhere DEF Apart
<1>2. /\ NoPiece(toDevice', x) <=> NoPiece(toDevice, x)
      /\ OnePiece(toDevice, x) => OnePiece(toDevice', x)
      /\ \A n : PieceIs(toDevice, x, n) => PieceIs(toDevice', x, n)
      /\ NoClose(toDevice', x) <=> NoClose(toDevice, x)
      /\ CloseLast(toDevice, x) => CloseLast(toDevice', x)
      /\ \A r : Addressed(toDevice, x, r) => Addressed(toDevice', x, r)
  BY SaidElsewhere
<1>3. (NoAck(toDevice', x) <=> NoAck(toDevice, x)) /\ (NoOpen(toDevice', x) <=> NoOpen(toDevice, x))
      /\ (Empty(x)' <=> Empty(x))
  BY SameToDevice, SameToHost DEF Empty, Apart
<1>4. Agreed(x)'
  <2>1. PICK r : r = devRemote[x]
    OBVIOUS
  <2>2. Replies(x, r)' /\ devRemote'[x] = r
    BY <1>1, <2>1 DEF Kept, Agreed, Heard, Apart
  <2>3. Replies(x, devRemote[x])'
    BY <2>2
  <2> QED BY <1>1, <1>2, <2>3 DEF Kept, Agreed, Apart
<1>5. Awaited(x)'
  BY <1>3 DEF Kept, Awaited, Apart
<1>6. Ended(x)'
  BY <1>2 DEF Kept, Ended, Apart
<1>7. Undisturbed' => Piecewise(x)'
  <2> SUFFICES ASSUME Undisturbed' PROVE Piecewise(x)'
    OBVIOUS
  <2>1. Piecewise(x)
    BY DEF Kept
  <2>2. Taken(x)' <=> Taken(x)
    BY <1>2 DEF Taken, Apart
  <2>3. (Settled(x)' <=> Settled(x)) /\ LoneReply(x)'
    BY <1>1, <2>1, <2>2 DEF Settled, Heard, Piecewise
  <2> QED BY <1>1, <1>2, <1>3, <2>1, <2>2, <2>3 DEF Piecewise, Apart
<1> QED BY <1>4, <1>5, <1>6, <1>7 DEF Kept

-----------------------------------------------------------------------------
(* What a call does to its own stream.                                      *)

LEMMA SentTo ==
  ASSUME NEW id \in Ids, NEW remote \in Nat, NEW n \in Nat
  PROVE /\ Okay(id, remote).arg1 = remote /\ Clse(id, remote).arg1 = remote
        /\ Wrte(id, remote, n).arg1 = remote /\ Wrte(id, remote, n).data = n
  BY DEF Okay, Clse, Wrte, Message

\* The CLSE of a stream that is given up.
LEMMA SaidClose ==
  ASSUME PipesType, NEW id \in Ids, NEW remote \in Nat, Send(CloseMessages(id, remote)),
         devRemote[id] # 0 /\ remote # 0 => remote = devRemote[id], id \notin openStreams'
  PROVE /\ Said(id)
        /\ toDevice' = toDevice \/ \E a \in ToDevice : a.cmd # "WRTE" /\ toDevice' = Append(toDevice, a)
        /\ NoOpen(toDevice', id) <=> NoOpen(toDevice, id)
        /\ id \in openStreams /\ remote # 0 => ~NoClose(toDevice', id)
<1> PICK a \in ToDevice : a = Clse(id, remote)
  BY Sent
<1>1. a.arg0 = id /\ a.cmd = "CLSE" /\ a.arg1 = remote
  BY Sent, SentTo
<1>2. CASE id \in openStreams /\ remote # 0
  <2>1. Send(<<a>>)
    BY <1>2 DEF CloseMessages
  <2>2. toDevice' = Append(toDevice, a)
    BY <2>1, SendOne DEF PipesType
  <2>3. Said(id)
    BY <1>1, <1>2, <2>2 DEF Said
  <2>4. (NoOpen(toDevice', id) <=> NoOpen(toDevice, id)) /\ ~NoClose(toDevice', id)
    <3>1. ~IsOpen(a, id) /\ IsClose(a, id)
      BY <1>1 DEF IsOpen, IsClose
    <3> QED BY <2>2, <3>1, PieceAppend, DeviceAppend DEF PipesType
  <2> QED BY <1>1, <2>2, <2>3, <2>4
<1>3. CASE ~(id \in openStreams /\ remote # 0)
  <2>1. Send(<<>>)
    BY <1>3 DEF CloseMessages
  <2>2. toDevice' = toDevice
    BY <2>1 DEF Send, PipesType
  <2> QED BY <1>3, <2>2 DEF Said
<1> QED BY <1>2, <1>3

\* The stream is removed: a rejection, an end, a failure or Dispose.
LEMMA RemovedKept ==
  ASSUME TypeInv, Extent, NEW id \in Ids, Kept(id), ~(id > opens), HostOnly(id), Undisturbed' => Undisturbed,
         UNCHANGED <<remoteId, written, accepted, devGot>>,
         pending'[id] = <<>> \/ pending'[id] = pending[id],
         toHost' = toHost \/ (toHost # <<>> /\ toHost' = Tail(toHost)),
         id \notin openStreams', state'[id] \in {"failed", "closed", "finished", "disposed"},
         Said(id), NoOpen(toDevice', id) <=> NoOpen(toDevice, id),
         toDevice' = toDevice \/ \E a \in ToDevice : a.cmd # "WRTE" /\ toDevice' = Append(toDevice, a),
         state'[id] = "disposed" => devRemote[id] = 0 \/ ~NoClose(toDevice', id)
  PROVE Kept(id)'
<1>1. PipesType /\ Agreed(id) /\ Awaited(id) /\ Ended(id) /\ (Undisturbed => Piecewise(id))
  BY DEF TypeInv, Kept
<1>2. Heard(id)
  BY <1>1, HeardDrop
<1>3. Agreed(id)'
  BY <1>1, <1>2, AgreedKept DEF HostOnly, Agreed
<1>4. Awaited(id)'
  BY <1>1, AwaitedKept DEF HostOnly
<1>5. Ended(id)'
  BY <1>1, EndedKept DEF HostOnly
<1>6. Undisturbed' => Piecewise(id)'
  <2> SUFFICES ASSUME Undisturbed' PROVE Piecewise(id)'
    OBVIOUS
  <2>1. devGot[id] \in Seq(Nat) /\ accepted[id] \in Nat
    BY DEF Extent
  <2> QED BY <1>1, <1>2, <2>1, PiecesKept DEF HostOnly
<1> QED BY <1>3, <1>4, <1>5, <1>6 DEF Kept

\* A call takes an OKAY or a unit of data, which it acknowledges.
LEMMA TookKept ==
  ASSUME TypeInv, Extent, NEW id \in Ids, Stream(id), Kept(id), state[id] \in {"opening", "live"},
         HostOnly(id), Undisturbed' => Undisturbed, UNCHANGED <<openStreams, written, devGot>>,
         Arrived(id), Take(id),
         \/ /\ Arrival(id).cmd = "WRTE" /\ Send(<<Okay(id, remoteId[id])>>)
            /\ remoteId'[id] = remoteId[id] /\ state'[id] = state[id]
         \/ /\ Arrival(id).cmd = "OKAY" /\ toDevice' = toDevice /\ state'[id] \in {state[id], "live"}
            /\ remoteId'[id] = Arrival(id).arg0 \/ (remoteId'[id] = remoteId[id] /\ remoteId[id] # 0),
         accepted'[id] = accepted[id] \/ (accepted'[id] = written[id] /\ Arrival(id).cmd = "OKAY"),
         state'[id] = "live" /\ ~Writing(id)' => (state[id] = "live" /\ ~Writing(id)) \/ Arrival(id).cmd = "OKAY"
  PROVE Kept(id)'
<1> DEFINE m == Arrival(id)
<1>1. /\ PipesType /\ Agreed(id) /\ Awaited(id) /\ Ended(id) /\ (Undisturbed => Piecewise(id))
      /\ Lane(id) /\ OneLife(id) /\ Table(id) /\ remoteId[id] \in Nat /\ 0 \in Nat
      /\ devGot[id] \in Seq(Nat) /\ accepted[id] \in Nat
  BY DEF TypeInv, TablesType, Kept, Stream, Extent
<1>2. ~(id > opens) /\ NoOpen(toDevice, id) /\ id \in openStreams
  BY <1>1, Blankness DEF Table
<1>3. /\ Heard(id)
      /\ IsReply(m, id) => ~Unanswered(id) /\ (LoneReply(id) => Unanswered(id)')
      /\ \A r : Replies(id, r) /\ IsReply(m, id) => m.arg0 # 0 /\ (r # 0 => m.arg0 = r)
      /\ ~IsReply(m, id) => (Unanswered(id)' <=> Unanswered(id))
      /\ Leading(id) => ~IsData(m, id) /\ (~IsReply(m, id) => Leading(id)')
  BY <1>1, HeardTake
<1>4. m.arg1 = id /\ (~IsData(m, id) => (Empty(id)' <=> Empty(id)))
  BY <1>1, TakeLane
<1>5. CASE m.cmd = "WRTE"
  <2>1. IsData(m, id) /\ ~IsReply(m, id)
    BY <1>4, <1>5 DEF IsData, IsReply
  <2>2. remoteId[id] # 0
    BY <1>1, <1>2, <1>3, <2>1 DEF Agreed
  <2>3. PICK a \in ToDevice : a = Okay(id, remoteId[id])
    BY <1>1, Sent
  <2>4. a.cmd = "OKAY" /\ a.arg0 = id /\ a.arg1 = remoteId[id] /\ toDevice' = Append(toDevice, a)
    BY <1>1, <1>5, <2>3, Sent, SentTo, SendOne DEF PipesType
  <2>5. Said(id)
    BY <1>1, <1>2, <2>2, <2>4 DEF Said, Agreed
  <2>6. ~NoAck(toDevice', id) /\ NoOpen(toDevice', id)
    <3>1. IsAck(a, id) /\ ~IsOpen(a, id)
      BY <2>4 DEF IsAck, IsOpen
    <3> QED BY <1>1, <1>2, <2>4, <3>1, DeviceAppend DEF PipesType
  <2>7. Agreed(id)'
    BY <1>1, <1>3, <1>5, <2>2, <2>5, AgreedKept DEF HostOnly, Agreed
  <2>8. Awaited(id)'
    BY <1>1, <2>5, <2>6, AwaitedKept DEF HostOnly
  <2>9. Ended(id)'
    BY <1>1, <1>5, <2>5, EndedKept DEF HostOnly
  <2>10. Undisturbed' => Piecewise(id)'
    <3> SUFFICES ASSUME Undisturbed' PROVE Piecewise(id)'
      OBVIOUS
    <3>1. state'[id] = "live" /\ ~Writing(id)' => state[id] = "live" /\ ~Writing(id)
      BY <1>5
    <3>2. accepted'[id] = accepted[id]
      BY <1>5
    <3> QED BY <1>1, <1>2, <1>3, <2>4, <2>6, <3>1, <3>2, PiecesKept DEF HostOnly
  <2> QED BY <2>7, <2>8, <2>9, <2>10 DEF Kept
<1>6. CASE m.cmd = "OKAY"
  <2>1. IsReply(m, id) /\ ~IsData(m, id)
    BY <1>4, <1>6 DEF IsData, IsReply
  <2>2. Said(id) /\ toDevice' = toDevice
    BY <1>6 DEF Said
  <2>3. m.arg0 # 0 /\ (devRemote[id] # 0 => m.arg0 = devRemote[id])
    <3>1. PICK r : r = devRemote[id]
      OBVIOUS
    <3> QED BY <1>1, <1>3, <2>1, <3>1 DEF Agreed
  <2>4. remoteId'[id] # 0 /\ (devRemote[id] # 0 => remoteId'[id] = devRemote[id])
    BY <1>1, <1>6, <2>3 DEF Agreed
  <2>5. Agreed(id)'
    BY <1>1, <1>3, <2>2, <2>4, AgreedKept DEF HostOnly
  <2>6. Awaited(id)'
    BY <1>1, <1>4, <2>1, <2>2, AwaitedKept DEF HostOnly
  <2>7. Ended(id)'
    BY <1>1, <1>6, <2>2, EndedKept DEF HostOnly
  <2>8. Undisturbed' => Piecewise(id)'
    <3> SUFFICES ASSUME Undisturbed' PROVE Piecewise(id)'
      OBVIOUS
    <3>1. ~Unanswered(id) /\ Unanswered(id)'
      BY <1>1, <1>3, <2>1 DEF Piecewise
    <3> QED BY <1>1, <1>2, <1>3, <2>2, <3>1, PiecesKept DEF HostOnly
  <2> QED BY <2>5, <2>6, <2>7, <2>8 DEF Kept
<1> QED BY <1>5, <1>6

\* A Write sends its next piece.
LEMMA WroteKept ==
  ASSUME TypeInv, Extent, NEW id \in Ids, Stream(id), Kept(id), state[id] = "live", Heard(id),
         HostOnly(id), Undisturbed' => Undisturbed, UNCHANGED <<openStreams, state, remoteId, devGot>>,
         NEW left \in Nat, WritePiece(id, left), Empty(id)' => Empty(id),
         Undisturbed => Taken(id) /\ Unanswered(id)',
         accepted'[id] = accepted[id] \/ accepted'[id] = written[id]
  PROVE Kept(id)'
<1>1. /\ PipesType /\ Agreed(id) /\ Awaited(id) /\ Ended(id) /\ (Undisturbed => Piecewise(id))
      /\ OneLife(id) /\ Table(id) /\ remoteId[id] \in Nat /\ 0 \in Nat
      /\ devGot[id] \in Seq(Nat) /\ accepted[id] \in Nat /\ written[id] \in Nat /\ written[id] + 1 \in Nat
  BY DEF TypeInv, TablesType, Kept, Stream, Extent
<1>2. ~(id > opens) /\ NoOpen(toDevice, id) /\ id \in openStreams /\ remoteId[id] # 0
  BY <1>1, Blankness DEF Table, Agreed
<1>3. PICK a \in ToDevice : a = Wrte(id, remoteId[id], written[id] + 1)
  BY <1>1, Sent
<1>4. a.cmd = "WRTE" /\ a.arg0 = id /\ a.arg1 = remoteId[id] /\ a.data = written[id] + 1
  BY <1>1, <1>3, Sent, SentTo
<1>5. toDevice' = Append(toDevice, a) /\ written'[id] = written[id] + 1 /\ Writing(id)'
  <2>1. Call("write", id, left).op = "write" /\ Call("write", id, left).id = id
    BY NewCall DEF Operations
  <2> QED BY <1>3, <2>1, WritePieceType DEF WritePiece, TypeInv, TablesType, Writing
<1>6. Said(id)
  BY <1>1, <1>2, <1>4, <1>5 DEF Said, Agreed
<1>7. Agreed(id)'
  BY <1>1, <1>2, <1>6, AgreedKept DEF HostOnly, Agreed
<1>8. Awaited(id)'
  BY <1>1, <1>6, AwaitedKept DEF HostOnly
<1>9. Ended(id)'
  BY <1>1, <1>6, EndedKept DEF HostOnly
<1>10. Undisturbed' => Piecewise(id)'
  <2> SUFFICES ASSUME Undisturbed' PROVE Piecewise(id)'
    OBVIOUS
  <2> QED BY <1>1, <1>2, <1>4, <1>5, PieceSent DEF HostOnly
<1> QED BY <1>7, <1>8, <1>9, <1>10 DEF Kept

LEMMA ReceiveKept ==
  ASSUME TypeInv, Extent, NEW id \in Ids, Stream(id), Kept(id), state[id] = "live", Arrived(id),
         Receive(id, Arrival(id)), HostOnly(id), Undisturbed' => Undisturbed, UNCHANGED <<remoteId, written, devGot>>,
         accepted'[id] = accepted[id] \/ (accepted'[id] = written[id] /\ Arrival(id).cmd = "OKAY"),
         Arrival(id).cmd # "OKAY" => UNCHANGED accepted,
         ~Writing(id)' /\ Writing(id) => Arrival(id).cmd \in {"OKAY", "CLSE"}
  PROVE Kept(id)'
<1> DEFINE m == Arrival(id)
<1>1. PipesType /\ OneLife(id) /\ Table(id) /\ remoteId[id] \in Nat /\ state \in [Ids -> States] /\ Agreed(id)
      /\ openStreams \subseteq Ids
  BY DEF TypeInv, TablesType, Stream, Kept
<1>2. m.cmd \in {"OKAY", "CLSE", "WRTE"}
  BY <1>1, ArrivalType, MessageType
<1>3. CASE m.cmd = "CLSE"
  <2>1. TakeAndClose(id) /\ Send(CloseMessages(id, remoteId[id])) /\ state'[id] = "closed" /\ UNCHANGED accepted
    BY <1>1, <1>3 DEF Receive
  <2>2. pending'[id] = <<>> /\ (toHost' = toHost \/ (toHost # <<>> /\ toHost' = Tail(toHost)))
        /\ id \notin openStreams'
    BY <1>1, <2>1, CloseType DEF TakeAndClose, PipesType
  <2>3. devRemote[id] # 0 /\ remoteId[id] # 0 => remoteId[id] = devRemote[id]
    BY <1>1 DEF Agreed
  <2>4. /\ Said(id)
        /\ toDevice' = toDevice \/ \E a \in ToDevice : a.cmd # "WRTE" /\ toDevice' = Append(toDevice, a)
        /\ NoOpen(toDevice', id) <=> NoOpen(toDevice, id)
    BY <1>1, <2>1, <2>2, <2>3, SaidClose
  <2>5. ~(id > opens)
    BY <1>1, Blankness
  <2> QED BY <2>1, <2>2, <2>4, <2>5, RemovedKept
<1>4. CASE m.cmd = "WRTE"
  <2>1. Take(id) /\ Send(<<Okay(id, remoteId[id])>>) /\ UNCHANGED <<openStreams, state, accepted>>
    BY <1>4 DEF Receive
  <2> QED BY <1>4, <2>1, TookKept
<1>5. CASE m.cmd = "OKAY"
  <2>1. Take(id) /\ UNCHANGED <<openStreams, state, toDevice>>
    BY <1>5 DEF Receive
  <2>2. remoteId[id] # 0
    BY <1>1 DEF Agreed
  <2> QED BY <1>5, <2>1, <2>2, TookKept
<1> QED BY <1>2, <1>3, <1>4, <1>5

-----------------------------------------------------------------------------
(* The steps of the host.                                                   *)

\* Nobody writes to a stream on account of a call on another one.
LEMMA NotWriting ==
  ASSUME NEW id, NEW x, x # id, call = Idle \/ call.id = id,
         call' = call \/ call' = Idle \/ \E op, left : call' = Call(op, id, left)
  PROVE Writing(x)' <=> Writing(x)
  BY DEF Writing, Idle, Call

LEMMA OpenReplyKept ==
  ASSUME TypeInv, StreamsInv, Extent, \A x \in Ids : Kept(x), OpenReply, NEW y \in Ids
  PROVE Kept(y)'
<1>0. PICK id \in Ids : id = call.id
  BY CallIs DEF OpenReply, Operations
<1> DEFINE m == Arrival(id)  admitted == m.cmd = "OKAY" /\ m.arg0 # 0
<1>1. Arrived(id) /\ state[id] = "opening" /\ Stream(id) /\ call.op = "open"
  <2>1. call # Idle /\ call.op = "open"
    BY CallIs DEF OpenReply, Operations
  <2> QED BY <1>0, <2>1 DEF StreamsInv, Calling, OpenReply
<1>2. /\ PipesType /\ openStreams \subseteq Ids /\ 0 \in Nat /\ state \in [Ids -> States] /\ remoteId \in [Ids -> Nat]
      /\ OneLife(id)
  BY <1>1 DEF TypeInv, TablesType, Stream
<1>3. /\ UNCHANGED <<written, accepted, devGot>> /\ \A x \in Ids : HostOnly(x)
      /\ state' = [state EXCEPT ![id] = IF admitted THEN "live" ELSE "failed"] /\ call' = Idle
      /\ Undisturbed' => Undisturbed
  BY <1>0 DEF OpenReply, HostOnly, device, Undisturbed
<1>4. (Take(id) /\ openStreams' = openStreams) \/ TakeAndClose(id)
  BY <1>0 DEF OpenReply
<1>5. UNCHANGED remoteId \/ remoteId' = [remoteId EXCEPT ![id] = m.arg0]
  BY <1>0 DEF OpenReply
<1>6. toDevice' = toDevice
  <2>1. toDevice' = toDevice \/ Send(CloseMessages(id, 0))
    BY <1>0 DEF OpenReply
  <2> QED BY <1>2, <2>1, SendClose DEF PipesType
<1>7. CASE y # id
  <2>1. pending'[y] = pending[y] /\ (y \in openStreams' <=> y \in openStreams) /\ HostElsewhere(y)
    BY <1>1, <1>2, <1>4, <1>7, TakenElsewhere
  <2>2. state'[y] = state[y] /\ remoteId'[y] = remoteId[y]
    BY <1>2, <1>3, <1>5, <1>7
  <2>3. Writing(y)' <=> Writing(y)
    BY <1>0, <1>3, <1>7, NotWriting
  <2>4. Apart(y) /\ opens' = opens
    BY <1>3, <2>1, <2>2, <2>3 DEF Apart, HostOnly
  <2> QED BY <1>2, <1>3, <1>6, <2>1, <2>4, KeptElsewhere DEF DeviceElsewhere
<1>8. CASE y = id
  <2>1. CASE admitted
    <3>1. Take(id) /\ openStreams' = openStreams /\ state'[id] = "live" /\ remoteId'[id] = m.arg0
      BY <1>0, <1>2, <1>3, <2>1 DEF OpenReply
    <3> QED BY <1>1, <1>3, <1>6, <1>8, <2>1, <3>1, TookKept
  <2>2. CASE ~admitted
    <3>1. TakeAndClose(id) /\ UNCHANGED remoteId /\ state'[id] = "failed"
      BY <1>0, <1>2, <1>3, <2>2 DEF OpenReply
    <3>2. pending'[id] = <<>> /\ id \notin openStreams'
          /\ (toHost' = toHost \/ (toHost # <<>> /\ toHost' = Tail(toHost)))
      BY <1>1, <1>2, <3>1, CloseType DEF TakeAndClose, PipesType
    <3>3. ~(id > opens)
      BY <1>1, <1>2, Blankness
    <3> QED BY <1>3, <1>6, <1>8, <3>1, <3>2, <3>3, RemovedKept DEF Said
  <2> QED BY <2>1, <2>2
<1> QED BY <1>7, <1>8

LEMMA ReadReceivesKept ==
  ASSUME TypeInv, StreamsInv, Extent, \A x \in Ids : Kept(x), ReadReceives, NEW y \in Ids
  PROVE Kept(y)'
<1>0. PICK id \in Ids : id = call.id
  BY CallIs DEF ReadReceives, Operations
<1>1. Arrived(id) /\ state[id] = "live" /\ Stream(id) /\ call.op = "read"
  <2>1. call # Idle /\ call.op = "read"
    BY CallIs DEF ReadReceives, Operations
  <2> QED BY <1>0, <2>1 DEF StreamsInv, Calling, ReadReceives
<1>2. /\ Receive(id, Arrival(id)) /\ UNCHANGED <<remoteId, written, accepted, devGot>>
      /\ (\A x \in Ids : HostOnly(x)) /\ opens' = opens /\ (call' = call \/ call' = Idle)
      /\ Undisturbed' => Undisturbed
  BY <1>0 DEF ReadReceives, HostOnly, device, Undisturbed
<1>3. CASE y # id
  <2>1. /\ pending'[y] = pending[y] /\ (y \in openStreams' <=> y \in openStreams)
        /\ state'[y] = state[y] /\ HostElsewhere(y) /\ DeviceElsewhere(y)
    BY <1>1, <1>2, <1>3, ReceiveElsewhere
  <2>2. Writing(y)' <=> Writing(y)
    BY <1>0, <1>2, <1>3, NotWriting
  <2>3. Apart(y)
    BY <1>2, <2>1, <2>2 DEF Apart, HostOnly
  <2> QED BY <1>2, <2>1, <2>3, KeptElsewhere DEF TypeInv
<1>4. CASE y = id
  <2>1. ~Writing(id)
    BY <1>1 DEF Writing
  <2> QED BY <1>1, <1>2, <1>4, <2>1, ReceiveKept
<1> QED BY <1>3, <1>4

LEMMA WriteReceivesKept ==
  ASSUME TypeInv, StreamsInv, Extent, \A x \in Ids : Kept(x), WriteReceives, NEW y \in Ids
  PROVE Kept(y)'
<1>0. PICK id \in Ids : id = call.id
  BY CallIs DEF WriteReceives, Operations
<1> DEFINE m == Arrival(id)
<1>1. Arrived(id) /\ state[id] = "live" /\ Stream(id) /\ call # Idle /\ call.op = "write" /\ call.left \in Nat
  <2>1. call # Idle /\ call.op = "write" /\ call.left \in Nat
    BY CallIs DEF WriteReceives, Operations
  <2> QED BY <1>0, <2>1 DEF StreamsInv, Calling, WriteReceives
<1>2. /\ UNCHANGED <<remoteId, devGot>> /\ (\A x \in Ids : HostOnly(x)) /\ opens' = opens
      /\ accepted' = IF m.cmd = "OKAY" THEN [accepted EXCEPT ![id] = written[id]] ELSE accepted
      /\ Undisturbed' => Undisturbed
  BY <1>0 DEF WriteReceives, HostOnly, device, Undisturbed, Acknowledges
<1>3. PipesType /\ openStreams \subseteq Ids /\ remoteId[id] \in Nat /\ written[id] + 1 \in Nat /\ Lane(id) /\ Kept(id)
      /\ accepted \in [Ids -> Nat] /\ written \in [Ids -> Nat]
  <2>1. PipesType /\ openStreams \subseteq Ids /\ remoteId[id] \in Nat /\ written \in [Ids -> Nat]
    BY DEF TypeInv, TablesType
  <2>2. Lane(id) /\ Kept(id) /\ accepted \in [Ids -> Nat]
    BY <1>1 DEF Stream, Extent
  <2>3. written[id] \in Nat
    BY <2>1
  <2> QED BY <2>1, <2>2, <2>3
<1>4. CASE m.cmd = "OKAY" /\ call.left > 0
  <2>1. Take(id) /\ WritePiece(id, call.left - 1) /\ UNCHANGED <<openStreams, state>> /\ call.left - 1 \in Nat
    BY <1>0, <1>1, <1>4 DEF WriteReceives
  <2>2. Send(<<Wrte(id, remoteId[id], written[id] + 1)>>) /\ call' = Call("write", id, call.left - 1)
        /\ written' = [written EXCEPT ![id] = @ + 1]
    BY <2>1 DEF WritePiece
  <2>3. CASE y # id
    <3>1. pending'[y] = pending[y] /\ (y \in openStreams' <=> y \in openStreams) /\ HostElsewhere(y)
      BY <1>1, <1>3, <2>1, <2>3, TakenElsewhere
    <3>2. DeviceElsewhere(y)
      BY <1>3, <2>2, <2>3, Spoken
    <3>3. Writing(y)' <=> Writing(y)
      BY <1>0, <2>2, <2>3, NotWriting
    <3>4. Apart(y)
      BY <1>2, <1>3, <2>1, <2>2, <2>3, <3>1, <3>3 DEF Apart, HostOnly
    <3> QED BY <1>2, <1>3, <3>1, <3>2, <3>4, KeptElsewhere
  <2>4. CASE y = id
    <3>1. m.arg1 = id /\ ~IsData(m, id) /\ (Empty(id)' <=> Empty(id))
      BY <1>1, <1>3, <1>4, <2>1, TakeLane DEF IsData
    <3>2. IsReply(m, id)
      BY <1>4, <3>1 DEF IsReply
    <3>3. Heard(id) /\ ~Unanswered(id) /\ (LoneReply(id) => Unanswered(id)')
      BY <1>1, <1>3, <2>1, <3>2, HeardTake
    <3>4. Undisturbed => Taken(id) /\ Unanswered(id)'
      BY <1>3, <3>3 DEF Kept, Piecewise
    <3>5. accepted'[id] = accepted[id] \/ accepted'[id] = written[id]
      BY <1>2, <1>3
    <3> QED BY <1>1, <1>2, <1>3, <2>1, <2>4, <3>1, <3>3, <3>4, <3>5, WroteKept
  <2> QED BY <2>3, <2>4
<1>5. CASE ~(m.cmd = "OKAY" /\ call.left > 0)
  <2>1. Receive(id, m) /\ UNCHANGED written /\ (call' = Idle \/ call' = call)
        /\ (call' = Idle => m.cmd \in {"OKAY", "CLSE"} \/ call = Idle)
    BY <1>0, <1>5 DEF WriteReceives, Acknowledges
  <2>2. CASE y # id
    <3>1. /\ pending'[y] = pending[y] /\ (y \in openStreams' <=> y \in openStreams)
          /\ state'[y] = state[y] /\ HostElsewhere(y) /\ DeviceElsewhere(y)
      BY <1>1, <2>1, <2>2, ReceiveElsewhere
    <3>2. Writing(y)' <=> Writing(y)
      BY <1>0, <2>1, <2>2, NotWriting
    <3>3. Apart(y)
      BY <1>2, <1>3, <2>1, <2>2, <3>1, <3>2 DEF Apart, HostOnly
    <3> QED BY <1>2, <1>3, <3>1, <3>3, KeptElsewhere
  <2>3. CASE y = id
    <3>1. accepted'[id] = accepted[id] \/ (accepted'[id] = written[id] /\ m.cmd = "OKAY")
      BY <1>2, <1>3
    <3>2. ~Writing(id)' /\ Writing(id) => m.cmd \in {"OKAY", "CLSE"}
      BY <1>1, <2>1 DEF Writing
    <3> QED BY <1>1, <1>2, <1>3, <2>1, <2>3, <3>1, <3>2, ReceiveKept
  <2> QED BY <2>2, <2>3
<1> QED BY <1>4, <1>5

LEMMA ShellReceivesKept ==
  ASSUME TypeInv, StreamsInv, Extent, \A x \in Ids : Kept(x), ShellReceives, NEW y \in Ids
  PROVE Kept(y)'
<1>0. PICK id \in Ids : id = call.id
  BY CallIs DEF ShellReceives, Operations
<1> DEFINE m == Arrival(id)
<1>1. Arrived(id) /\ state[id] = "opening" /\ Stream(id) /\ call # Idle /\ call.op = "shell"
  <2>1. call # Idle /\ call.op = "shell"
    BY CallIs DEF ShellReceives, Operations
  <2> QED BY <1>0, <2>1 DEF StreamsInv, Calling, ShellReceives
<1>2. /\ UNCHANGED <<written, accepted, devGot>> /\ (\A x \in Ids : HostOnly(x)) /\ opens' = opens
      /\ Undisturbed' => Undisturbed
  BY <1>0 DEF ShellReceives, HostOnly, device, Undisturbed
<1>3. PipesType /\ openStreams \subseteq Ids /\ remoteId[id] \in Nat /\ 0 \in Nat /\ m.arg0 \in Nat
      /\ m.cmd \in {"OKAY", "CLSE", "WRTE"} /\ state \in [Ids -> States] /\ remoteId \in [Ids -> Nat]
      /\ Lane(id) /\ OneLife(id)
  BY <1>1, ArrivalType, MessageType DEF TypeInv, TablesType, Stream
<1>4. CASE m.cmd = "OKAY"
  <2>1. Take(id) /\ remoteId' = [remoteId EXCEPT ![id] = m.arg0]
        /\ UNCHANGED <<openStreams, state, toDevice, call>>
    BY <1>0, <1>4 DEF ShellReceives
  <2>2. CASE y # id
    <3>1. pending'[y] = pending[y] /\ (y \in openStreams' <=> y \in openStreams) /\ HostElsewhere(y)
      BY <1>1, <1>3, <2>1, <2>2, TakenElsewhere
    <3>2. Apart(y)
      BY <1>2, <1>3, <2>1, <2>2, <3>1 DEF Apart, HostOnly, Writing
    <3> QED BY <1>2, <1>3, <2>1, <3>1, <3>2, KeptElsewhere DEF DeviceElsewhere
  <2>3. CASE y = id
    <3>1. remoteId'[id] = m.arg0
      BY <1>3, <2>1
    <3> QED BY <1>1, <1>2, <1>4, <2>1, <2>3, <3>1, TookKept
  <2> QED BY <2>2, <2>3
<1>5. CASE m.cmd = "WRTE"
  <2>1. Take(id) /\ Send(<<Okay(id, remoteId[id])>>) /\ UNCHANGED <<openStreams, state, remoteId, call>>
    BY <1>0, <1>5 DEF ShellReceives, ShellAck
  <2>2. CASE y # id
    <3>1. pending'[y] = pending[y] /\ (y \in openStreams' <=> y \in openStreams) /\ HostElsewhere(y)
      BY <1>1, <1>3, <2>1, <2>2, TakenElsewhere
    <3>2. Apart(y)
      BY <1>2, <2>1, <2>2, <3>1 DEF Apart, HostOnly, Writing
    <3>3. DeviceElsewhere(y)
      BY <1>3, <2>1, <2>2, Spoken
    <3> QED BY <1>2, <1>3, <3>1, <3>2, <3>3, KeptElsewhere
  <2>3. CASE y = id
    BY <1>1, <1>2, <1>5, <2>1, <2>3, TookKept DEF Writing
  <2> QED BY <2>2, <2>3
<1>6. CASE m.cmd = "CLSE"
  <2> DEFINE remote == IF remoteId[id] = 0 THEN m.arg0 ELSE remoteId[id]
  <2>1. TakeAndClose(id) /\ Send(CloseMessages(id, remote)) /\ UNCHANGED remoteId
        /\ state' = [state EXCEPT ![id] = "finished"] /\ call' = Idle
    BY <1>0, <1>6 DEF ShellReceives
  <2>2. remote \in Nat
    BY <1>3
  <2> HIDE DEF remote
  <2>3. CASE y # id
    <3>1. pending'[y] = pending[y] /\ (y \in openStreams' <=> y \in openStreams) /\ HostElsewhere(y)
      BY <1>1, <1>3, <2>1, <2>3, TakenElsewhere
    <3>2. Writing(y)' <=> Writing(y)
      BY <1>0, <2>1, <2>3, NotWriting
    <3>3. Apart(y)
      BY <1>2, <1>3, <2>1, <2>3, <3>1, <3>2 DEF Apart, HostOnly
    <3>4. DeviceElsewhere(y)
      BY <1>3, <2>1, <2>2, <2>3, Spoken
    <3> QED BY <1>2, <1>3, <3>1, <3>3, <3>4, KeptElsewhere
  <2>4. CASE y = id
    <3>1. pending'[id] = <<>> /\ id \notin openStreams'
          /\ (toHost' = toHost \/ (toHost # <<>> /\ toHost' = Tail(toHost)))
      BY <1>1, <1>3, <2>1, CloseType DEF TakeAndClose, PipesType
    <3>2. devRemote[id] = 0 /\ ~(id > opens)
      <4>1. ~Unended(id)
        BY <1>1, <1>3, <1>6, EndArrives
      <4> QED BY <1>1, <1>3, <4>1, Blankness DEF OneLife, Over
    <3>3. /\ Said(id) /\ (NoOpen(toDevice', id) <=> NoOpen(toDevice, id))
          /\ toDevice' = toDevice \/ \E a \in ToDevice : a.cmd # "WRTE" /\ toDevice' = Append(toDevice, a)
      BY <1>3, <2>1, <2>2, <3>1, <3>2, SaidClose
    <3>4. state'[id] = "finished"
      BY <1>3, <2>1
    <3> QED BY <1>2, <2>1, <2>4, <3>1, <3>2, <3>3, <3>4, RemovedKept
  <2> QED BY <2>3, <2>4
<1> QED BY <1>3, <1>4, <1>5, <1>6

\* A call that fails.  On an undisturbed connection none does.
LEMMA FailKept ==
  ASSUME TypeInv, StreamsInv, Extent, \A x \in Ids : Kept(x), Undisturbed => NoRestart,
         TimesOut \/ SeesRestart, NEW y \in Ids
  PROVE Kept(y)' /\ ~Undisturbed'
<1>1. /\ call # Idle /\ Fail /\ pending[call.id] = <<>>
      /\ toHost' = toHost \/ (toHost # <<>> /\ Head(toHost).cmd = "CNXN" /\ toHost' = Tail(toHost))
  BY DEF TimesOut, SeesRestart
<1>2. PICK id \in Ids : id = call.id
  BY <1>1, CallShape DEF TypeInv
<1>3. PipesType /\ openStreams \subseteq Ids /\ remoteId[id] \in Nat /\ 0 \in Nat /\ state \in [Ids -> States]
      /\ OneLife(id)
  BY DEF TypeInv, TablesType, StreamsInv, Stream
<1>4. /\ UNCHANGED <<remoteId, written, accepted, devGot, restarts>> /\ (\A x \in Ids : HostOnly(x))
      /\ opens' = opens /\ call' = Idle
  BY <1>1 DEF Fail, HostOnly, device
<1>5. ~Undisturbed'
  <2>1. CASE TimesOut
    <3>1. timeouts' = timeouts + 1 /\ timeouts \in Nat
      BY <2>1 DEF TimesOut, Extent
    <3>2. timeouts' # 0
      BY <3>1
    <3> QED BY <3>2 DEF Undisturbed
  <2>2. CASE SeesRestart
    <3>1. toHost # <<>> /\ Head(toHost).cmd = "CNXN" /\ timeouts' = timeouts
      BY <2>2 DEF SeesRestart
    <3>2. ~NoRestart
      BY <1>3, <3>1, TailIndex DEF NoRestart, PipesType
    <3> QED BY <1>4, <3>1, <3>2 DEF Undisturbed
  <2> QED BY <2>1, <2>2
<1>6. HostElsewhere(y)
  <2> SUFFICES ASSUME toHost # <<>>, Head(toHost).cmd = "CNXN", toHost' = Tail(toHost) PROVE HostElsewhere(y)
    BY <1>1 DEF HostElsewhere
  <2>1. Head(toHost) \in ToHost
    BY <1>3, TailIndex DEF PipesType
  <2>2. Head(toHost) = Cnxn /\ y # 0
    <3>1. \A m \in HostMessages : m.cmd # "CNXN"
      BY MessageType
    <3> QED BY <2>1, <3>1, Bounds DEF ToHost, Ids
  <2> QED BY <2>2, MessageType DEF HostElsewhere
<1>7. CASE call.op \in {"open", "shell"}
  <2>1. Send(CloseMessages(id, remoteId[id])) /\ openStreams' = openStreams \ {id}
        /\ pending' = [pending EXCEPT ![id] = <<>>] /\ state' = [state EXCEPT ![id] = "failed"]
    BY <1>1, <1>2, <1>7 DEF Fail
  <2>2. CASE y # id
    <3>1. Writing(y)' <=> Writing(y)
      BY <1>2, <1>4, <2>2, NotWriting
    <3>2. Apart(y)
      BY <1>3, <1>4, <2>1, <2>2, <3>1 DEF Apart, HostOnly, PipesType
    <3>3. DeviceElsewhere(y)
      BY <1>3, <2>1, <2>2, Spoken
    <3> QED BY <1>3, <1>4, <1>5, <1>6, <3>2, <3>3, KeptElsewhere
  <2>3. CASE y = id
    <3>1. ~(id > opens)
      <4>1. state[id] # "none"
        BY <1>1, <1>2, <1>7 DEF StreamsInv, Calling
      <4> QED BY <1>3, <4>1 DEF OneLife
    <3>2. pending'[id] = <<>> /\ id \notin openStreams' /\ state'[id] = "failed"
      BY <1>3, <2>1 DEF PipesType
    <3>3. devRemote[id] # 0 /\ remoteId[id] # 0 => remoteId[id] = devRemote[id]
      BY DEF Kept, Agreed
    <3>4. /\ Said(id) /\ (NoOpen(toDevice', id) <=> NoOpen(toDevice, id))
          /\ toDevice' = toDevice \/ \E a \in ToDevice : a.cmd # "WRTE" /\ toDevice' = Append(toDevice, a)
      BY <1>3, <2>1, <3>2, <3>3, SaidClose
    <3>5. Undisturbed' => Undisturbed
      BY <1>5
    <3> QED BY <1>1, <1>4, <1>5, <2>3, <3>1, <3>2, <3>4, <3>5, RemovedKept
  <2> QED BY <2>2, <2>3
<1>8. CASE call.op \notin {"open", "shell"}
  <2>1. UNCHANGED <<toDevice, openStreams, pending, state>>
    BY <1>1, <1>8 DEF Fail
  <2>2. CASE ~Writing(y)
    <3>1. Apart(y) /\ DeviceElsewhere(y)
      BY <1>4, <2>1, <2>2 DEF Apart, HostOnly, DeviceElsewhere, Writing, Idle
    <3> QED BY <1>3, <1>4, <1>5, <1>6, <3>1, KeptElsewhere
  <2>3. CASE Writing(y)
    <3>1. PipesType /\ Agreed(y) /\ Awaited(y) /\ Ended(y)
      BY <1>3 DEF Kept
    <3>2. Heard(y) /\ (Unanswered(y)' <=> Unanswered(y)) /\ (Leading(y) => Leading(y)') /\ (Empty(y)' <=> Empty(y))
      BY <1>3, <1>6, <2>1, HeardElsewhere, SameToHost DEF Empty
    <3>3. Said(y)
      BY <2>1 DEF Said
    <3>4. Agreed(y)'
      BY <1>4, <2>1, <3>1, <3>2, <3>3, AgreedKept DEF HostOnly, Agreed
    <3>5. Awaited(y)'
      BY <1>4, <2>1, <3>1, <3>2, <3>3, AwaitedKept DEF HostOnly
    <3>6. Ended(y)'
      BY <1>4, <2>1, <3>1, <3>3, EndedKept DEF HostOnly
    <3> QED BY <1>5, <3>4, <3>5, <3>6 DEF Kept
  <2> QED BY <1>5, <2>2, <2>3
<1> QED BY <1>5, <1>7, <1>8

LEMMA StartKept ==
  ASSUME DistinctIds, TypeInv, StreamsInv, Extent, \A x \in Ids : Kept(x),
         NEW op \in {"open", "shell"}, Start(op), NEW y \in Ids
  PROVE Kept(y)'
<1>1. nextLocalId = opens + 1 /\ opens + 1 \in Ids /\ opens \in Nat
  BY StartType DEF TypeInv, OpensType
<1>2. PICK id \in Ids : id = opens + 1
  BY <1>1
<1>3. /\ openStreams' = openStreams \cup {id} /\ Send(<<Open(id)>>) /\ call' = Call(op, id, 0) /\ call = Idle
      /\ state' = [state EXCEPT ![id] = "opening"] /\ opens' = opens + 1 /\ (Undisturbed' => Undisturbed)
      /\ UNCHANGED <<pending, remoteId, written, accepted, toHost, devRemote, devAwait, devGot>>
  BY <1>1, <1>2 DEF Start, device, Undisturbed
<1>4. PipesType /\ 0 \in Nat /\ state \in [Ids -> States] /\ OneLife(id)
  BY DEF TypeInv, TablesType, StreamsInv, Stream
<1>5. toDevice' = Append(toDevice, Open(id)) /\ \A x : x # id => DeviceElsewhere(x)
  BY <1>3, <1>4, Spoken
<1>6. CASE y # id
  <2>1. Writing(y)' <=> Writing(y)
    BY <1>3, <1>6, NotWriting
  <2>2. Apart(y) /\ HostElsewhere(y)
    BY <1>3, <1>4, <1>6, <2>1 DEF Apart, HostElsewhere
  <2>3. y > opens' => y > opens
    BY <1>1, <1>3 DEF Ids
  <2> QED BY <1>3, <1>4, <1>5, <1>6, <2>2, <2>3, KeptElsewhere
<1>7. CASE y = id
  <2>1. id > opens /\ ~(id > opens')
    BY <1>1, <1>2, <1>3
  <2>2. Silent(toDevice, id) /\ Blank(id)
    BY <1>4, <2>1 DEF OneLife
  <2>3. /\ remoteId[id] = 0 /\ devRemote[id] = 0 /\ pending[id] = <<>> /\ Quiet(toHost, id)
        /\ NoReply(pending[id], id) /\ Led(pending[id], id) /\ NoReply(toHost, id) /\ Led(toHost, id)
    BY <2>2, NothingHasNone, QuietHasNone DEF Blank
  <2>4. PICK a \in ToDevice : a = Open(id)
    BY <1>4, Sent
  <2>5. ~IsClose(a, id) /\ a.cmd = "OPEN" /\ toDevice' = Append(toDevice, a)
    BY <1>4, <1>5, <2>4, Sent DEF IsClose
  <2>6. NoClose(toDevice', id) /\ CloseLast(toDevice', id)
    <3>1. NoClose(toDevice, id)
      BY <2>2, QuietHasNone
    <3>2. NoClose(toDevice', id)
      BY <1>4, <2>5, <3>1, PieceAppend DEF PipesType
    <3> QED BY <3>2, QuietHasNone
  <2>7. state'[id] = "opening"
    BY <1>3, <1>4
  <2>8. Agreed(id)'
    <3>1. NoReply(pending'[id], id) /\ Led(pending'[id], id) /\ NoReply(toHost', id) /\ Led(toHost', id)
          /\ devRemote'[id] = 0
      BY <1>3, <2>3
    <3>2. Replies(id, devRemote[id])'
      BY <3>1, QuietHasNone DEF Replies
    <3> QED BY <2>7, <3>1, <3>2 DEF Agreed, Leading
  <2>9. Awaited(id)'
    BY <1>3, <2>3 DEF Kept, Awaited
  <2>10. Ended(id)'
    BY <2>6, <2>7 DEF Ended
  <2>11. Undisturbed' => Piecewise(id)'
    <3> SUFFICES ASSUME Undisturbed' PROVE Piecewise(id)'
      OBVIOUS
    <3>1. Piecewise(id) /\ Heard(id)
      BY <1>3 DEF Kept, Heard, Replies, Unanswered, LoneReply
    <3>2. devGot[id] \in Seq(Nat) /\ accepted[id] \in Nat
      BY DEF Extent
    <3>3. a.cmd # "WRTE"
      BY <2>5
    <3> QED BY <1>3, <1>4, <2>1, <2>5, <2>7, <3>1, <3>2, <3>3, PiecesKept
  <2> QED BY <1>7, <2>8, <2>9, <2>10, <2>11 DEF Kept
<1> QED BY <1>6, <1>7

LEMMA RouteKept ==
  ASSUME TypeInv, StreamsInv, Extent, \A x \in Ids : Kept(x), Route, NEW y \in Ids
  PROVE Kept(y)'
<1>1. /\ toHost # <<>> /\ Head(toHost) \in HostMessages /\ toHost' = Tail(toHost)
      /\ pending' = IF Head(toHost).arg1 \in openStreams
                    THEN [pending EXCEPT ![Head(toHost).arg1] = Append(@, Head(toHost))] ELSE pending
  BY RouteType
<1>2. PICK id \in Ids : id = Head(toHost).arg1
  BY <1>1, MessageType
<1>3. PipesType /\ Stream(id)
  BY DEF TypeInv, StreamsInv
<1>4. /\ UNCHANGED <<openStreams, state, remoteId, written, accepted, devGot, toDevice, call>>
      /\ (\A x \in Ids : HostOnly(x)) /\ opens' = opens /\ (Undisturbed' => Undisturbed)
  BY DEF Route, objects, device, HostOnly, Undisturbed
<1>5. CASE y # id
  <2>1. pending'[y] = pending[y] /\ HostElsewhere(y) /\ DeviceElsewhere(y)
    BY <1>1, <1>2, <1>3, <1>4, <1>5 DEF HostElsewhere, DeviceElsewhere, PipesType
  <2>2. Apart(y)
    BY <1>4, <2>1 DEF Apart, HostOnly, Writing
  <2> QED BY <1>3, <1>4, <2>1, <2>2, KeptElsewhere
<1>6. CASE y = id
  <2>1. PipesType /\ Agreed(id) /\ Awaited(id) /\ Ended(id) /\ (Undisturbed => Piecewise(id)) /\ Said(id) /\ Lane(id)
    BY <1>3, <1>4 DEF Kept, Said, Stream
  <2>2. /\ Heard(id)
        /\ id \in openStreams =>
             /\ Unanswered(id)' <=> Unanswered(id)
             /\ Leading(id) => Leading(id)'
             /\ Empty(id)' <=> Empty(id)
    <3>1. CASE id \in openStreams
      <4>1. pending'[id] = Append(pending[id], Head(toHost))
        BY <1>1, <1>2, <1>3, <3>1 DEF PipesType
      <4> QED BY <1>1, <1>2, <1>3, <2>1, <4>1, RouteLane, HeardRoute
    <3>2. CASE id \notin openStreams
      <4>1. pending'[id] = pending[id]
        BY <1>1, <1>2, <3>2
      <4> QED BY <1>1, <1>3, <3>2, <4>1, HeardDrop
    <3> QED BY <3>1, <3>2
  <2>3. Agreed(id)'
    BY <1>4, <2>1, <2>2, AgreedKept DEF HostOnly, Agreed
  <2>4. Awaited(id)'
    BY <1>4, <2>1, <2>2, AwaitedKept DEF HostOnly
  <2>5. Ended(id)'
    BY <1>4, <2>1, EndedKept DEF HostOnly
  <2>6. Undisturbed' => Piecewise(id)'
    <3> SUFFICES ASSUME Undisturbed' PROVE Piecewise(id)'
      OBVIOUS
    <3>1. devGot[id] \in Seq(Nat) /\ accepted[id] \in Nat /\ (Writing(id)' <=> Writing(id))
      BY <1>4 DEF Extent, Writing
    <3> QED BY <1>4, <2>1, <2>2, <3>1, PiecesKept
  <2> QED BY <1>6, <2>3, <2>4, <2>5, <2>6 DEF Kept
<1> QED BY <1>5, <1>6

LEMMA ReadKept ==
  ASSUME TypeInv, StreamsInv, Extent, \A x \in Ids : Kept(x), NEW id \in Ids, ReadBuffered(id) \/ ReadWaits(id),
         NEW y \in Ids
  PROVE Kept(y)'
<1>1. /\ UNCHANGED <<openStreams, pending, state, remoteId, written, accepted, devRemote, devAwait, devGot, toDevice,
                     toHost, opens>>
      /\ call' = call \/ (call = Idle /\ call' = Call("read", id, 0))
      /\ Undisturbed' => Undisturbed
  BY DEF ReadBuffered, ReadWaits, client, objects, device, Undisturbed
<1>2. Writing(y)' <=> Writing(y)
  BY <1>1 DEF Writing, Idle, Call
<1>3. Apart(y) /\ HostElsewhere(y) /\ DeviceElsewhere(y)
  BY <1>1, <1>2 DEF Apart, HostElsewhere, DeviceElsewhere
<1> QED BY <1>1, <1>3, KeptElsewhere DEF TypeInv

LEMMA WriteBeginsKept ==
  ASSUME TypeInv, StreamsInv, Extent, \A x \in Ids : Kept(x), NEW id \in Ids, WriteBegins(id), NEW y \in Ids
  PROVE Kept(y)'
<1>1. /\ UNCHANGED <<openStreams, pending, state, remoteId, accepted, devGot, toHost, opens>> /\ call = Idle
      /\ (\A x \in Ids : HostOnly(x)) /\ state[id] = "live" /\ (Undisturbed' => Undisturbed)
  BY DEF WriteBegins, client, device, HostOnly, Undisturbed
<1>2. PipesType /\ Stream(id) /\ remoteId[id] \in Nat /\ written \in [Ids -> Nat] /\ written[id] + 1 \in Nat
  BY DEF TypeInv, TablesType, StreamsInv
<1>3. PICK pieces \in 1 .. MaxWritten - written[id] : WritePiece(id, pieces - 1)
  BY DEF WriteBegins
<1>4. /\ Send(<<Wrte(id, remoteId[id], written[id] + 1)>>) /\ call' = Call("write", id, pieces - 1)
      /\ pieces - 1 \in Nat /\ written' = [written EXCEPT ![id] = @ + 1]
  BY <1>2, <1>3, Bounds DEF WritePiece
<1>5. CASE y # id
  <2>1. Writing(y)' <=> Writing(y)
    BY <1>1, <1>4, <1>5, NotWriting
  <2>2. Apart(y) /\ HostElsewhere(y)
    BY <1>1, <1>2, <1>4, <1>5, <2>1 DEF Apart, HostOnly, HostElsewhere
  <2>3. DeviceElsewhere(y)
    BY <1>2, <1>4, <1>5, Spoken
  <2> QED BY <1>1, <1>2, <2>2, <2>3, KeptElsewhere
<1>6. CASE y = id
  <2>1. Heard(id) /\ (Unanswered(id)' <=> Unanswered(id)) /\ (Empty(id)' <=> Empty(id))
    BY <1>1, <1>2, HeardElsewhere DEF HostElsewhere, Empty
  <2>2. ~Writing(id)
    BY <1>1 DEF Writing, Idle
  <2>3. Undisturbed => Taken(id) /\ Unanswered(id)'
    BY <1>1, <2>1, <2>2 DEF Kept, Piecewise, Settled
  <2> QED BY <1>1, <1>2, <1>3, <1>4, <1>6, <2>1, <2>3, WroteKept
<1> QED BY <1>5, <1>6

LEMMA DisposeKept ==
  ASSUME TypeInv, StreamsInv, Extent, \A x \in Ids : Kept(x), NEW id \in Ids, Dispose(id), NEW y \in Ids
  PROVE Kept(y)'
<1>1. /\ UNCHANGED <<remoteId, written, accepted, devGot, call, toHost, opens>> /\ (\A x \in Ids : HostOnly(x))
      /\ state' = [state EXCEPT ![id] = "disposed"] /\ state[id] \in {"live", "closed"}
      /\ Undisturbed' => Undisturbed
  BY DEF Dispose, device, HostOnly, Undisturbed
<1>2. PipesType /\ openStreams \subseteq Ids /\ OneLife(id) /\ Table(id) /\ remoteId[id] \in Nat /\ 0 \in Nat
      /\ state \in [Ids -> States] /\ Agreed(id)
  BY DEF TypeInv, TablesType, StreamsInv, Stream, Kept
<1>3. /\ \A x : x # id => DeviceElsewhere(x)
      /\ pending'[id] = <<>> \/ pending'[id] = pending[id]
      /\ \A x \in Ids : x # id => pending'[x] = pending[x] /\ (x \in openStreams' <=> x \in openStreams)
      /\ id \notin openStreams' /\ Said(id) /\ (NoOpen(toDevice', id) <=> NoOpen(toDevice, id))
      /\ toDevice' = toDevice \/ \E a \in ToDevice : a.cmd # "WRTE" /\ toDevice' = Append(toDevice, a)
      /\ devRemote[id] = 0 \/ ~NoClose(toDevice', id)
  <2>1. CASE state[id] = "live"
    <3>1. Send(CloseMessages(id, remoteId[id])) /\ openStreams' = openStreams \ {id}
          /\ pending' = [pending EXCEPT ![id] = <<>>]
      BY <2>1 DEF Dispose
    <3>2. id \in openStreams /\ remoteId[id] # 0 /\ id \notin openStreams'
          /\ (devRemote[id] # 0 /\ remoteId[id] # 0 => remoteId[id] = devRemote[id])
      BY <1>2, <2>1, <3>1 DEF Table, Agreed
    <3>3. /\ Said(id) /\ (NoOpen(toDevice', id) <=> NoOpen(toDevice, id))
          /\ toDevice' = toDevice \/ \E a \in ToDevice : a.cmd # "WRTE" /\ toDevice' = Append(toDevice, a)
          /\ ~NoClose(toDevice', id)
      BY <1>2, <3>1, <3>2, SaidClose
    <3> QED BY <1>2, <3>1, <3>3, Spoken DEF PipesType
  <2>2. CASE state[id] # "live"
    <3>1. UNCHANGED <<toDevice, openStreams, pending>>
      BY <2>2 DEF Dispose
    <3>2. id \notin openStreams /\ devRemote[id] = 0
      BY <1>1, <1>2, <2>2 DEF Table, OneLife, Over
    <3> QED BY <3>1, <3>2 DEF Said, DeviceElsewhere
  <2> QED BY <2>1, <2>2
<1>4. CASE y # id
  <2>1. Apart(y) /\ HostElsewhere(y)
    BY <1>1, <1>2, <1>3, <1>4 DEF Apart, HostOnly, HostElsewhere, Writing
  <2> QED BY <1>1, <1>2, <1>3, <1>4, <2>1, KeptElsewhere
<1>5. CASE y = id
  <2>1. state'[id] = "disposed" /\ ~(id > opens)
    BY <1>1, <1>2, Blankness
  <2> QED BY <1>1, <1>3, <1>5, <2>1, RemovedKept
<1> QED BY <1>4, <1>5

-----------------------------------------------------------------------------
(* The steps of the device.                                                 *)

LEMMA DeviceDetails ==
  ASSUME DeviceReceives
  PROVE LET m == Head(toDevice) IN
        \/ (Admits(m) \/ Rejects(m) \/ GoesOn(m) \/ Answers(m)) /\ devGot' = devGot
        \/ Accepts(m) /\ devGot' = [devGot EXCEPT ![m.arg0] = Append(@, m.data)]
        \/ /\ Ignores /\ devGot' = devGot
           /\ m.cmd # "OPEN" => devRemote[m.arg0] = 0 \/ devRemote[m.arg0] # m.arg1
  BY Zenon DEF DeviceReceives, Socketless, HasSocket, Admits, Rejects, Accepts, GoesOn, Answers, Ignores

\* A socket sends its id with every OKAY, and data after its first one.
LEMMA AgreedHeard ==
  ASSUME PipesType, NEW x \in Ids, Agreed(x), UNCHANGED <<openStreams, state, remoteId, pending>>,
         devRemote'[x] \in {devRemote[x], 0},
         \A r : Addressed(toDevice, x, r) => Addressed(toDevice', x, r),
         \/ toHost' = toHost
         \/ \E a \in ToHost :
              /\ toHost' = Append(toHost, a)
              /\ IsReply(a, x) => a.arg0 = devRemote[x] /\ devRemote[x] # 0
              /\ IsData(a, x) => devRemote[x] # 0
  PROVE Agreed(x)'
<1>1. PICK r : r = devRemote[x]
  OBVIOUS
<1>2. /\ Replies(x, r)'
      /\ x \in openStreams /\ remoteId[x] = 0 => Leading(x)' /\ (r # 0 => ~Unanswered(x)')
  <2>1. CASE toHost' = toHost
    BY <1>1, <2>1 DEF Agreed, Replies, Leading, Unanswered
  <2>2. ASSUME NEW a \in ToHost, toHost' = Append(toHost, a), IsReply(a, x) => a.arg0 = r /\ r # 0,
               IsData(a, x) => r # 0
        PROVE /\ Replies(x, r)'
              /\ x \in openStreams /\ remoteId[x] = 0 => Leading(x)' /\ (r # 0 => ~Unanswered(x)')
    <3>1. pending'[x] = pending[x] /\ Replies(x, r)
          /\ (x \in openStreams /\ remoteId[x] = 0 => Leading(x) /\ (r # 0 => ~Unanswered(x)))
      BY <1>1 DEF Agreed
    <3> QED BY <2>2, <3>1, HeardSend
  <2> QED BY <1>1, <2>1, <2>2
<1>3. Replies(x, r)' => Replies(x, 0)'
  BY DEF Replies, RepliesFrom
<1>4. Replies(x, devRemote[x])'
  <2>1. PICK q : q = devRemote'[x]
    OBVIOUS
  <2>2. Replies(x, q)'
    BY <1>1, <1>2, <1>3, <2>1
  <2> QED BY <2>1, <2>2
<1>5. remoteId'[x] # 0 /\ devRemote'[x] # 0 => remoteId'[x] = devRemote'[x]
  BY DEF Agreed
<1>6. devRemote'[x] # 0 => Addressed(toDevice', x, devRemote'[x])
  BY DEF Agreed
<1>7. state'[x] = "live" => remoteId'[x] # 0
  BY DEF Agreed
<1>8. x \in openStreams' /\ remoteId'[x] = 0 => Leading(x)' /\ (devRemote'[x] # 0 => ~Unanswered(x)')
  BY <1>1, <1>2
<1> QED BY <1>4, <1>5, <1>6, <1>7, <1>8 DEF Agreed

\* What the device takes off the pipe to it.
LEMMA DeviceTakes ==
  ASSUME PipesType, toDevice # <<>>, toDevice' = Tail(toDevice), NEW x
  PROVE LET m == Head(toDevice) IN
        /\ NoPiece(toDevice, x) <=> NoPiece(toDevice', x) /\ ~IsPiece(m, x)
        /\ OnePiece(toDevice, x) => OnePiece(toDevice', x) /\ (IsPiece(m, x) => NoPiece(toDevice', x))
        /\ \A n : PieceIs(toDevice, x, n) => PieceIs(toDevice', x, n) /\ (IsPiece(m, x) => m.data = n)
        /\ NoClose(toDevice, x) <=> NoClose(toDevice', x) /\ ~IsClose(m, x)
        /\ CloseLast(toDevice, x) => CloseLast(toDevice', x)
        /\ \A r : Addressed(toDevice, x, r) => Addressed(toDevice', x, r) /\ (m.arg0 = x /\ m.cmd # "OPEN" => m.arg1 = r)
        /\ NoAck(toDevice, x) <=> NoAck(toDevice', x) /\ ~IsAck(m, x)
        /\ NoOpen(toDevice, x) <=> NoOpen(toDevice', x) /\ ~IsOpen(m, x)
        /\ LoneOpen(toDevice, x) => (IsOpen(m, x) => Silent(toDevice', x))
  BY PieceTail, DeviceTail DEF PipesType

\* It takes a message of the stream that is no piece, and adds one or none.
LEMMA DeviceKeeps ==
  ASSUME TypeInv, Extent, NEW x \in Ids, Stream(x), Kept(x), toDevice # <<>>, toDevice' = Tail(toDevice), Head(toDevice).arg0 = x,
         UNCHANGED <<openStreams, state, remoteId, pending, written, accepted, call, opens>>,
         Undisturbed' => Undisturbed, devRemote'[x] \in {devRemote[x], 0},
         devAwait'[x] => devAwait[x] /\ devRemote'[x] # 0 /\ ~IsAck(Head(toDevice), x),
         IsClose(Head(toDevice), x) => devRemote'[x] = 0,
         \/ toHost' = toHost
         \/ \E a \in ToHost :
              /\ toHost' = Append(toHost, a)
              /\ a.cmd = "CLSE" \/ (IsPiece(Head(toDevice), x) /\ a.cmd = "OKAY" /\ a.arg0 = devRemote[x] /\ devRemote[x] # 0),
         \/ /\ devGot'[x] = devGot[x]
            /\ IsPiece(Head(toDevice), x) => toHost' = toHost
         \/ IsPiece(Head(toDevice), x) /\ devGot'[x] = Append(devGot[x], Head(toDevice).data)
  PROVE Kept(x)'
<1> DEFINE m == Head(toDevice)
<1>1. PipesType /\ Agreed(x) /\ Awaited(x) /\ Ended(x) /\ (Undisturbed => Piecewise(x)) /\ Lane(x)
  BY DEF TypeInv, Kept, Stream
<1>2. /\ NoPiece(toDevice, x) <=> NoPiece(toDevice', x) /\ ~IsPiece(m, x)
      /\ OnePiece(toDevice, x) => OnePiece(toDevice', x) /\ (IsPiece(m, x) => NoPiece(toDevice', x))
      /\ \A n : PieceIs(toDevice, x, n) => PieceIs(toDevice', x, n) /\ (IsPiece(m, x) => m.data = n)
      /\ NoClose(toDevice, x) <=> NoClose(toDevice', x) /\ ~IsClose(m, x)
      /\ CloseLast(toDevice, x) => CloseLast(toDevice', x)
      /\ \A r : Addressed(toDevice, x, r) => Addressed(toDevice', x, r)
      /\ NoAck(toDevice, x) <=> NoAck(toDevice', x) /\ ~IsAck(m, x)
      /\ NoOpen(toDevice, x) <=> NoOpen(toDevice', x) /\ ~IsOpen(m, x)
  BY <1>1, DeviceTakes
<1> HIDE DEF m
<1>3. Agreed(x)'
  <2>1. \A a \in ToHost : a.cmd = "CLSE" => ~IsReply(a, x) /\ ~IsData(a, x)
    BY DEF IsReply, IsData
  <2>2. \A a \in ToHost : a.cmd = "OKAY" => ~IsData(a, x)
    BY DEF IsData
  <2> QED BY <1>1, <1>2, <2>1, <2>2, AgreedHeard
<1>4. Empty(x)' <=> Empty(x)
  <2>1. CASE toHost' = toHost
    BY <2>1 DEF Empty
  <2>2. ASSUME NEW a \in ToHost, toHost' = Append(toHost, a), a.cmd \in {"CLSE", "OKAY"} PROVE Empty(x)' <=> Empty(x)
    <3>1. ~IsData(a, x) /\ a.cmd # "WRTE" /\ pending'[x] = pending[x]
      BY <2>2 DEF IsData
    <3> QED BY <1>1, <2>2, <3>1, SendLane
  <2> QED BY <2>1, <2>2
<1>5. Awaited(x)'
  BY <1>1, <1>2, <1>4 DEF Awaited, m
<1>6. Ended(x)'
  BY <1>1, <1>2 DEF Ended, m
<1>7. Undisturbed' => Piecewise(x)'
  <2> SUFFICES ASSUME Undisturbed' PROVE Piecewise(x)'
    OBVIOUS
  <2>1. Piecewise(x) /\ (Writing(x)' <=> Writing(x)) /\ pending'[x] = pending[x]
    BY <1>1 DEF Writing
  <2>2. CASE ~IsPiece(m, x)
    <3>1. devGot'[x] = devGot[x]
      BY <2>2 DEF m
    <3>2. (Unanswered(x)' <=> Unanswered(x)) /\ LoneReply(x)'
      <4>1. CASE toHost' = toHost
        BY <2>1, <4>1 DEF Unanswered, LoneReply, Piecewise
      <4>2. ASSUME NEW a \in ToHost, toHost' = Append(toHost, a), a.cmd = "CLSE"
            PROVE (Unanswered(x)' <=> Unanswered(x)) /\ LoneReply(x)'
        <5>1. ~IsReply(a, x)
          BY <4>2 DEF IsReply
        <5> QED BY <1>1, <2>1, <4>2, <5>1, HeardSend DEF Piecewise
      <4> QED BY <2>2, <4>1, <4>2 DEF m
    <3>3. Taken(x)' <=> Taken(x)
      BY <1>2, <2>2, <3>1 DEF Taken
    <3>4. Settled(x)' <=> Settled(x)
      BY <3>2, <3>3 DEF Settled
    <3> QED BY <1>2, <2>1, <2>2, <3>1, <3>2, <3>3, <3>4 DEF Piecewise
  <2>3. CASE IsPiece(m, x)
    <3>1. Unanswered(x) /\ ~Settled(x) /\ ~(x > opens) /\ NoOpen(toDevice, x) /\ ~(state[x] = "live" /\ ~Writing(x))
      BY <1>2, <2>1, <2>3 DEF Piecewise, Taken, Settled
    <3>2. NoPiece(toDevice', x) /\ OnePiece(toDevice', x) /\ PieceIs(toDevice', x, written[x]) /\ NoOpen(toDevice', x)
          /\ m.data = written[x] /\ written[x] = Len(devGot[x]) + 1
      BY <1>2, <2>1, <2>3, <3>1 DEF Piecewise
    <3>3. CASE devGot'[x] = devGot[x] /\ toHost' = toHost
      <4>1. Unanswered(x)' /\ LoneReply(x)'
        BY <2>1, <3>1, <3>3 DEF Unanswered, LoneReply, Piecewise
      <4> QED BY <2>1, <3>1, <3>2, <3>3, <4>1 DEF Piecewise
    <3>4. CASE devGot'[x] = Append(devGot[x], m.data)
      <4>1. LoneReply(x)'
        <5>1. CASE toHost' = toHost
          BY <2>1, <5>1 DEF LoneReply, Piecewise
        <5>2. ASSUME NEW a \in ToHost, toHost' = Append(toHost, a) PROVE LoneReply(x)'
          BY <1>1, <2>1, <3>1, <5>2, HeardSend DEF Piecewise
        <5> QED BY <5>1, <5>2
      <4>2. devGot[x] \in Seq(Nat) /\ written[x] \in Nat /\ accepted[x] \in Nat
        BY <3>1 DEF TypeInv, TablesType, Extent
      <4> DEFINE g == devGot[x]  h == devGot'[x]
      <4>3. (\A i \in 1 .. Len(g) : g[i] = i) /\ accepted[x] <= Len(g) /\ g \in Seq(Nat) /\ h = Append(g, m.data)
            /\ m.data = Len(g) + 1 /\ written[x] = Len(g) + 1 /\ accepted[x] \in Nat
        BY <2>1, <3>2, <3>4, <4>2 DEF Piecewise
      <4> HIDE DEF g, h
      <4>4. Len(h) = Len(g) + 1 /\ Len(g) \in Nat /\ \A i \in 1 .. Len(h) : h[i] = i
        BY <4>3
      <4>5. accepted[x] <= Len(h) /\ Len(h) = written[x]
        BY <4>3, <4>4
      <4>6. Taken(x)'
        BY <3>2, <4>5 DEF Taken, h
      <4>7. Len(devGot'[x]) <= written'[x] /\ accepted'[x] <= Len(devGot'[x])
        BY <4>2, <4>5 DEF h
      <4> QED BY <2>1, <3>1, <3>2, <4>1, <4>4, <4>6, <4>7 DEF Piecewise, h
    <3> QED BY <2>3, <3>3, <3>4 DEF m
  <2> QED BY <2>2, <2>3
<1> QED BY <1>3, <1>5, <1>6, <1>7 DEF Kept

\* The device makes a socket for the stream, of which nothing was under way.
LEMMA DeviceAdmits ==
  ASSUME TypeInv, NEW x \in Ids, Stream(x), Kept(x), toDevice # <<>>, toDevice' = Tail(toDevice),
         Head(toDevice).arg0 = x, Admits(Head(toDevice)), devGot' = devGot,
         UNCHANGED <<openStreams, state, remoteId, pending, written, accepted, call, opens>>,
         Undisturbed' => Undisturbed
  PROVE Kept(x)'
<1> DEFINE m == Head(toDevice)
<1>1. PipesType /\ Awaited(x) /\ Ended(x) /\ (Undisturbed => Piecewise(x)) /\ OneLife(x) /\ Lane(x)
      /\ devRemote \in [Ids -> Nat] /\ devNext \in Nat /\ devNext # 0
  BY DEF TypeInv, DeviceType, Kept, Stream
<1>2. m.cmd = "OPEN" /\ m.arg0 = x /\ devRemote'[x] = devNext /\ devRemote'[x] # 0 /\ devAwait' = devAwait
      /\ toHost' = Append(toHost, Okay(devNext, x))
  BY <1>1 DEF Admits
<1> HIDE DEF m
<1>3. IsOpen(m, x) /\ ~IsPiece(m, x) /\ ~IsClose(m, x) /\ ~IsAck(m, x)
  BY <1>2 DEF IsOpen, IsPiece, IsClose, IsAck
<1>4. /\ NoPiece(toDevice, x) <=> NoPiece(toDevice', x)
      /\ OnePiece(toDevice, x) => OnePiece(toDevice', x)
      /\ \A n : PieceIs(toDevice, x, n) => PieceIs(toDevice', x, n)
      /\ NoClose(toDevice, x) <=> NoClose(toDevice', x)
      /\ CloseLast(toDevice, x) => CloseLast(toDevice', x)
      /\ NoAck(toDevice, x) <=> NoAck(toDevice', x)
      /\ ~NoOpen(toDevice, x) /\ Silent(toDevice', x)
  BY <1>1, <1>3, DeviceTakes DEF OneLife, m
<1>5. Blank(x) /\ state[x] \in {"opening", "failed"} /\ NoOpen(toDevice', x)
  BY <1>1, <1>4, QuietIsNone DEF OneLife
<1>6. NoReply(pending[x], x) /\ NoReply(toHost, x) /\ Led(pending[x], x) /\ Led(toHost, x)
  BY <1>5, NothingHasNone, QuietHasNone DEF Blank
<1>7. PICK a \in ToHost : a = Okay(devNext, x)
  BY <1>1, SentByDevice
<1>8. a.cmd = "OKAY" /\ a.arg1 = x /\ a.arg0 = devNext /\ toHost' = Append(toHost, a) /\ pending'[x] = pending[x]
  BY <1>1, <1>2, <1>7, SentByDevice DEF Okay, Message
<1>9. IsReply(a, x) /\ ~IsData(a, x) /\ ~IsEnd(a, x)
  BY <1>8 DEF IsReply, IsData, IsEnd
<1> PICK n : n = devNext
  OBVIOUS
<1>10. Unanswered(x) /\ Leading(x) /\ Replies(x, n)
  BY <1>6, QuietHasNone DEF Unanswered, Leading, Replies
<1>11. /\ ~Unanswered(x)' /\ (LoneReply(x) => LoneReply(x)') /\ Leading(x)' /\ Replies(x, n)'
       /\ Empty(x)' <=> Empty(x)
  <2>1. /\ Unanswered(x)' <=> Unanswered(x) /\ ~IsReply(a, x)
        /\ LoneReply(x) /\ (Unanswered(x) \/ ~IsReply(a, x)) => LoneReply(x)'
        /\ \A r : Replies(x, r) /\ (IsReply(a, x) => a.arg0 # 0 /\ (r # 0 => a.arg0 = r)) => Replies(x, r)'
        /\ Leading(x) /\ (~Unanswered(x) \/ ~IsData(a, x)) => Leading(x)'
    BY <1>1, <1>8, HeardSend
  <2>2. Empty(x)' <=> Empty(x)
    BY <1>1, <1>8, <1>9, SendLane
  <2> QED BY <1>1, <1>8, <1>9, <1>10, <2>1, <2>2
<1>12. Agreed(x)'
  <2>1. Replies(x, devRemote[x])'
    <3>1. PICK q : q = devRemote'[x]
      OBVIOUS
    <3>2. q = n
      BY <1>2, <3>1
    <3> QED BY <1>11, <3>1, <3>2
  <2>2. Addressed(toDevice', x, devRemote'[x])
    BY <1>4, QuietHasNone
  <2>3. remoteId'[x] = 0 /\ state'[x] # "live"
    BY <1>5 DEF Blank
  <2> QED BY <1>11, <2>1, <2>2, <2>3 DEF Agreed
<1>13. Awaited(x)'
  BY <1>1, <1>2, <1>4, <1>11 DEF Awaited
<1>14. Ended(x)'
  BY <1>1, <1>4, <1>5 DEF Ended
<1>15. Undisturbed' => Piecewise(x)'
  <2> SUFFICES ASSUME Undisturbed' PROVE Piecewise(x)'
    OBVIOUS
  <2>1. Piecewise(x) /\ Settled(x)
    BY <1>1, <1>4 DEF Piecewise
  <2>2. Taken(x)' /\ LoneReply(x)' /\ ~(x > opens')
    <3>1. x > opens => Silent(toDevice, x)
      BY <1>1 DEF OneLife
    <3> QED BY <1>4, <1>11, <2>1, <3>1, QuietIsNone DEF Settled, Taken, Piecewise
  <2> QED BY <1>4, <1>5, <2>1, <2>2 DEF Piecewise
<1> QED BY <1>12, <1>13, <1>14, <1>15 DEF Kept

LEMMA DeviceReceivesKept ==
  ASSUME TypeInv, StreamsInv, Extent, \A x \in Ids : Kept(x), DeviceReceives, NEW y \in Ids
  PROVE Kept(y)'
<1> DEFINE m == Head(toDevice)
<1>1. /\ toDevice # <<>> /\ toDevice' = Tail(toDevice) /\ devSent' = devSent
      /\ UNCHANGED <<openStreams, pending, state, remoteId, written, accepted, call, opens>>
      /\ Undisturbed' => Undisturbed
  BY DeviceCases DEF DeviceReceives, hostSide, client, objects, Undisturbed
<1>2. PICK id \in Ids : id = m.arg0
  BY DeviceReceivesType
<1>3. PipesType /\ Stream(id) /\ Kept(id) /\ devRemote \in [Ids -> Nat] /\ devAwait \in [Ids -> BOOLEAN]
      /\ devNext \in Nat \ {0} /\ 0 \in Nat /\ devGot \in [Ids -> Seq(Nat)]
  BY DEF TypeInv, DeviceType, StreamsInv, Extent
<1>4. \/ (Admits(m) \/ Rejects(m) \/ GoesOn(m) \/ Answers(m)) /\ devGot' = devGot
      \/ Accepts(m) /\ devGot' = [devGot EXCEPT ![id] = Append(@, m.data)]
      \/ /\ Ignores /\ devGot' = devGot
         /\ m.cmd # "OPEN" => devRemote[id] = 0 \/ devRemote[id] # m.arg1
  BY <1>2, DeviceDetails
<1>5. CASE y # id
  <2>1. DeviceElsewhere(y)
    BY <1>1, <1>2, <1>5 DEF DeviceElsewhere
  <2>2. HostElsewhere(y)
    <3>1. \A a \in ToHost : a.arg1 = id /\ toHost' = Append(toHost, a) => HostElsewhere(y)
      BY <1>5 DEF HostElsewhere
    <3>2. toHost' = toHost => HostElsewhere(y)
      BY DEF HostElsewhere
    <3>3. /\ Okay(devNext, id) \in ToHost /\ Okay(devNext, id).arg1 = id
          /\ Okay(devRemote[id], id) \in ToHost /\ Okay(devRemote[id], id).arg1 = id
          /\ Clse(0, id) \in ToHost /\ Clse(0, id).arg1 = id
      BY <1>3, SentByDevice
    <3>4. toHost' \in {toHost, Append(toHost, Okay(devNext, id)), Append(toHost, Okay(devRemote[id], id)),
                       Append(toHost, Clse(0, id))}
      BY <1>2, <1>4 DEF Admits, Rejects, Accepts, GoesOn, Answers, Ignores
    <3> QED BY <3>1, <3>2, <3>3, <3>4
  <2>3. devRemote'[y] = devRemote[y] /\ devAwait'[y] = devAwait[y]
    BY <1>2, <1>3, <1>4, <1>5 DEF Admits, Rejects, Accepts, GoesOn, Answers, Ignores
  <2>4. devGot'[y] = devGot[y]
    BY <1>3, <1>4, <1>5
  <2>5. Apart(y)
    BY <1>1, <2>3, <2>4 DEF Apart, Writing
  <2> QED BY <1>1, <1>3, <2>1, <2>2, <2>5, KeptElsewhere
<1>6. CASE y = id
  <2>1. m.arg0 = id /\ Agreed(id) /\ Awaited(id) /\ OneLife(id) /\ LoneOpen(toDevice, id) /\ Blank(id) \in BOOLEAN
        /\ (m.cmd = "OPEN" => devRemote[id] = 0)
        /\ (m.cmd # "OPEN" /\ devRemote[id] # 0 => m.arg1 = devRemote[id])
    <3>1. m.arg0 = id /\ Agreed(id) /\ Awaited(id) /\ OneLife(id) /\ LoneOpen(toDevice, id)
      BY <1>2, <1>3 DEF Kept, Stream, OneLife
    <3>2. /\ NoOpen(toDevice, id) => ~IsOpen(m, id)
          /\ \A r : Addressed(toDevice, id, r) => (m.arg0 = id /\ m.cmd # "OPEN" => m.arg1 = r)
      BY <1>1, <1>3, DeviceTakes
    <3>3. m.cmd = "OPEN" => IsOpen(m, id)
      BY <3>1 DEF IsOpen
    <3> QED BY <3>1, <3>2, <3>3 DEF OneLife, Blank, Agreed
  <2>2. IsPiece(m, id) <=> m.cmd = "WRTE"
    BY <2>1 DEF IsPiece
  <2>3. (IsClose(m, id) <=> m.cmd = "CLSE") /\ (IsAck(m, id) <=> m.cmd = "OKAY")
    BY <2>1 DEF IsClose, IsAck
  <2>4. devAwait[id] => devRemote[id] # 0
    BY <2>1 DEF Awaited
  <2>5. CASE Admits(m) /\ devGot' = devGot
    BY <1>1, <1>3, <1>6, <2>1, <2>5, DeviceAdmits
  <2> HIDE DEF m
  <2>6. PICK a \in ToHost : a = Clse(0, id)
    BY <1>3, SentByDevice
  <2>7. a.cmd = "CLSE"
    BY <1>3, <2>6, SentByDevice
  <2>8. CASE Rejects(m) /\ devGot' = devGot
    <3>1. toHost' = Append(toHost, a) /\ UNCHANGED <<devRemote, devAwait>> /\ m.cmd = "OPEN"
      BY <2>1, <2>6, <2>8 DEF Rejects
    <3> QED BY <1>1, <1>3, <1>6, <2>1, <2>2, <2>3, <2>4, <2>7, <2>8, <3>1, DeviceKeeps DEF m
  <2>9. CASE GoesOn(m) /\ devGot' = devGot
    <3>1. UNCHANGED <<toHost, devRemote>> /\ m.cmd = "OKAY" /\ ~devAwait'[id]
      BY <1>3, <2>1, <2>9 DEF GoesOn
    <3> QED BY <1>1, <1>3, <1>6, <2>1, <2>2, <2>3, <2>4, <2>9, <3>1, DeviceKeeps DEF m
  <2>10. CASE Answers(m) /\ devGot' = devGot
    <3>1. toHost' = Append(toHost, a) /\ m.cmd = "CLSE" /\ ~devAwait'[id] /\ devRemote'[id] = 0
      BY <1>3, <2>1, <2>6, <2>10 DEF Answers
    <3> QED BY <1>1, <1>3, <1>6, <2>1, <2>2, <2>3, <2>4, <2>7, <2>10, <3>1, DeviceKeeps DEF m
  <2>11. CASE Accepts(m) /\ devGot' = [devGot EXCEPT ![id] = Append(@, m.data)]
    <3>1. toHost' = Append(toHost, Okay(devRemote[id], id)) /\ UNCHANGED <<devRemote, devAwait>> /\ m.cmd = "WRTE"
          /\ devRemote[id] # 0 /\ devGot'[id] = Append(devGot[id], m.data)
      BY <1>3, <2>1, <2>11 DEF Accepts, HasSocket
    <3>2. PICK b \in ToHost : b = Okay(devRemote[id], id)
      BY <1>3, SentByDevice
    <3>3. b.cmd = "OKAY" /\ b.arg0 = devRemote[id] /\ toHost' = Append(toHost, b)
      BY <1>3, <3>1, <3>2, SentByDevice DEF Okay, Message
    <3> QED BY <1>1, <1>3, <1>6, <2>1, <2>2, <2>3, <2>4, <3>1, <3>3, DeviceKeeps DEF m
  <2>12. CASE Ignores /\ devGot' = devGot /\ (m.cmd # "OPEN" => devRemote[id] = 0 \/ devRemote[id] # m.arg1)
    <3>1. UNCHANGED <<toHost, devRemote, devAwait>> /\ devRemote[id] = 0 /\ ~devAwait[id]
      BY <2>1, <2>4, <2>12 DEF Ignores
    <3> QED BY <1>1, <1>3, <1>6, <2>1, <2>2, <2>3, <2>12, <3>1, DeviceKeeps DEF m
  <2> QED BY <1>4, <2>5, <2>8, <2>9, <2>10, <2>11, <2>12
<1> QED BY <1>5, <1>6

\* The device sends data, or closes the stream.
LEMMA DeviceSpeaksKept ==
  ASSUME TypeInv, StreamsInv, Extent, \A x \in Ids : Kept(x), NEW id \in Ids, DeviceSends(id) \/ DeviceCloses(id),
         NEW y \in Ids
  PROVE Kept(y)'
<1>1. /\ UNCHANGED <<openStreams, pending, state, remoteId, written, accepted, call, opens, toDevice, devGot>>
      /\ Undisturbed' => Undisturbed
      /\ devRemote[id] # 0
      /\ \/ devRemote' = devRemote /\ devAwait' = [devAwait EXCEPT ![id] = TRUE]
            /\ toHost' = Append(toHost, Wrte(devRemote[id], id, devSent[id] + 1)) /\ ~devAwait[id]
         \/ devRemote' = [devRemote EXCEPT ![id] = 0] /\ devAwait' = [devAwait EXCEPT ![id] = FALSE]
            /\ toHost' = Append(toHost, Clse(devRemote[id], id))
  BY Zenon DEF DeviceSends, DeviceCloses, Socketless, hostSide, client, objects, HasSocket, Undisturbed
<1>2. PipesType /\ Stream(id) /\ devRemote \in [Ids -> Nat] /\ devAwait \in [Ids -> BOOLEAN]
      /\ devSent[id] + 1 \in Nat /\ 0 \in Nat /\ Kept(id)
  BY DEF TypeInv, DeviceType, StreamsInv
<1>3. PICK a \in ToHost : a = Wrte(devRemote[id], id, devSent[id] + 1)
  BY <1>2, SentByDevice
<1>4. PICK b \in ToHost : b = Clse(devRemote[id], id)
  BY <1>2, SentByDevice
<1>5. a.arg1 = id /\ a.cmd = "WRTE" /\ b.arg1 = id /\ b.cmd = "CLSE"
  BY <1>2, <1>3, <1>4, SentByDevice
<1>6. PICK c \in ToHost : c.arg1 = id /\ toHost' = Append(toHost, c) /\ ~IsReply(c, id)
        /\ \/ devRemote' = devRemote /\ devAwait' = [devAwait EXCEPT ![id] = TRUE] /\ IsData(c, id) /\ ~devAwait[id]
           \/ devRemote' = [devRemote EXCEPT ![id] = 0] /\ devAwait' = [devAwait EXCEPT ![id] = FALSE]
              /\ ~IsData(c, id) /\ c.cmd # "WRTE"
  BY <1>1, <1>3, <1>4, <1>5 DEF IsReply, IsData
<1>7. CASE y # id
  <2>1. HostElsewhere(y) /\ DeviceElsewhere(y)
    BY <1>1, <1>6, <1>7 DEF HostElsewhere, DeviceElsewhere
  <2>2. Apart(y)
    BY <1>1, <1>2, <1>6, <1>7 DEF Apart, Writing
  <2> QED BY <1>1, <1>2, <2>1, <2>2, KeptElsewhere
<1>8. CASE y = id
  <2>1. Agreed(id) /\ Awaited(id) /\ Ended(id) /\ (Undisturbed => Piecewise(id)) /\ Lane(id) /\ pending'[id] = pending[id]
    BY <1>1, <1>2 DEF Kept, Stream
  <2>2. devRemote'[id] \in {devRemote[id], 0}
    BY <1>2, <1>6
  <2>3. Agreed(id)'
    BY <1>1, <1>2, <1>6, <2>1, <2>2, AgreedHeard
  <2>4. Awaited(id)'
    <3>1. CASE IsData(c, id)
      <4>1. ~Empty(id)'
        <5>1. ~NoData(toHost', id)
          BY <1>2, <1>6, <3>1, HostAppend DEF PipesType
        <5> QED BY <5>1 DEF Empty
      <4> QED BY <1>1, <1>6, <3>1, <4>1 DEF Awaited
    <3>2. CASE ~IsData(c, id)
      BY <1>2, <1>6, <3>2 DEF Awaited
    <3> QED BY <3>1, <3>2
  <2>5. Ended(id)'
    BY <1>1, <2>1, <2>2 DEF Ended
  <2>6. Undisturbed' => Piecewise(id)'
    <3> SUFFICES ASSUME Undisturbed' PROVE Piecewise(id)'
      OBVIOUS
    <3>1. Piecewise(id) /\ (Writing(id)' <=> Writing(id)) /\ (Taken(id)' <=> Taken(id))
      BY <1>1, <2>1 DEF Writing, Taken
    <3>2. (Unanswered(id)' <=> Unanswered(id)) /\ LoneReply(id)'
      BY <1>2, <1>6, <2>1, <3>1, HeardSend DEF Piecewise
    <3>3. Settled(id)' <=> Settled(id)
      BY <3>1, <3>2 DEF Settled
    <3> QED BY <1>1, <3>1, <3>2, <3>3 DEF Piecewise
  <2> QED BY <1>8, <2>3, <2>4, <2>5, <2>6 DEF Kept
<1> QED BY <1>7, <1>8

LEMMA DeviceRestartsKept ==
  ASSUME TypeInv, StreamsInv, Extent, \A x \in Ids : Kept(x), DeviceRestarts, NEW y \in Ids
  PROVE Kept(y)' /\ ~Undisturbed'
<1>1. /\ UNCHANGED <<openStreams, pending, state, remoteId, toDevice>>
      /\ devRemote'[y] = 0 /\ devAwait'[y] = FALSE /\ toHost' = Append(toHost, Cnxn) /\ restarts' = restarts + 1
  BY DEF DeviceRestarts, hostSide, client, objects
<1>2. PipesType /\ Agreed(y) /\ Awaited(y) /\ Ended(y) /\ restarts \in Nat
  BY DEF TypeInv, Kept, Extent
<1>3. ~Undisturbed'
  <2>1. restarts' # 0
    BY <1>1, <1>2
  <2> QED BY <2>1 DEF Undisturbed
<1>4. PICK a \in ToHost : a = Cnxn /\ a.cmd = "CNXN"
  BY MessageType
<1>5. ~IsReply(a, y) /\ ~IsData(a, y) /\ toHost' = Append(toHost, a)
  BY <1>1, <1>4 DEF IsReply, IsData
<1>6. Agreed(y)'
  BY <1>1, <1>2, <1>5, AgreedHeard
<1>7. Awaited(y)' /\ Ended(y)'
  BY <1>1, <1>2 DEF Awaited, Ended
<1> QED BY <1>3, <1>6, <1>7 DEF Kept

-----------------------------------------------------------------------------
(* Types and bounds, and what a restart leaves in the pipe.                 *)

LEMMA ExtentQuiet ==
  ASSUME Extent, UNCHANGED <<nextLocalId, online, restarts, devGot, devSent, accepted, written>>,
         connected' \in BOOLEAN, timeouts' \in Nat, call' = call \/ call'.op # "write"
  PROVE Extent'
  BY DEF Extent

LEMMA ExtentStart ==
  ASSUME TypeInv, Extent, NEW op \in {"open", "shell"}, Start(op)
  PROVE Extent'
<1>1. nextLocalId' \in Ids
  BY Bounds DEF Start, NextId, Ids, Extent
<1>2. call'.op # "write"
  BY DEF Start, Call
<1> QED BY <1>1, <1>2 DEF Start, device, Extent

LEMMA ExtentHost ==
  ASSUME TypeInv, Extent,
         \/ Route \/ OpenReply \/ ReadReceives \/ ShellReceives \/ SeesRestart \/ TimesOut
         \/ \E id \in Ids : ReadBuffered(id) \/ ReadWaits(id) \/ Dispose(id)
  PROVE Extent'
<1> USE DEF Extent
<1>0. timeouts + 1 \in Nat /\ Idle.op # "write" /\ \A id : Call("read", id, 0).op # "write"
  BY DEF Idle, Call
<1>1. CASE Route
  BY <1>1, ExtentQuiet DEF Route, objects, device
<1>2. CASE OpenReply
  <2>1. connected' = connected \/ connected' = FALSE
    BY <1>2 DEF OpenReply
  <2> QED BY <1>0, <1>2, <2>1, ExtentQuiet DEF OpenReply, device
<1>3. CASE ReadReceives
  <2>1. call' = call \/ call' = Idle
    BY <1>3 DEF ReadReceives
  <2> QED BY <1>0, <1>3, <2>1, ExtentQuiet DEF ReadReceives, device
<1>4. CASE ShellReceives
  <2>1. call' = call \/ call' = Idle
    <3>1. call # Idle /\ call.id \in Ids /\ Arrived(call.id)
      BY <1>4, CallIs DEF ShellReceives, Operations
    <3>2. Arrival(call.id).cmd \in {"OKAY", "CLSE", "WRTE"}
      BY <3>1, ArrivalType, MessageType DEF TypeInv
    <3> QED BY <1>4, <3>2 DEF ShellReceives
  <2> QED BY <1>0, <1>4, <2>1, ExtentQuiet DEF ShellReceives, device
<1>5. CASE SeesRestart
  <2>1. connected' \in BOOLEAN /\ call' = Idle
    BY <1>5 DEF SeesRestart, Fail
  <2> QED BY <1>0, <1>5, <2>1, ExtentQuiet DEF SeesRestart, Fail, device
<1>6. CASE TimesOut
  <2>1. connected' \in BOOLEAN /\ call' = Idle
    BY <1>6 DEF TimesOut, Fail
  <2> QED BY <1>0, <1>6, <2>1, ExtentQuiet DEF TimesOut, Fail, device
<1>7. ASSUME NEW id \in Ids, ReadBuffered(id) PROVE Extent'
  BY <1>7, ExtentQuiet DEF ReadBuffered, client, device
<1>8. ASSUME NEW id \in Ids, ReadWaits(id) PROVE Extent'
  BY <1>0, <1>8, ExtentQuiet DEF ReadWaits, client, objects, device
<1>9. ASSUME NEW id \in Ids, Dispose(id) PROVE Extent'
  BY <1>9, ExtentQuiet DEF Dispose, device
<1> QED BY <1>1, <1>2, <1>3, <1>4, <1>5, <1>6, <1>7, <1>8, <1>9

\* What a Write has written and what it has left stay within the bound.
LEMMA ExtentPiece ==
  ASSUME TypeInv, Extent, NEW id \in Ids, NEW left \in Nat, WritePiece(id, left),
         written[id] + 1 + left <= MaxWritten
  PROVE /\ \A x \in Ids : written'[x] <= MaxWritten
        /\ written'[call'.id] + call'.left <= MaxWritten
<1>1. written \in [Ids -> Nat] /\ written' = [written EXCEPT ![id] = @ + 1] /\ call' = Call("write", id, left)
      /\ MaxWritten \in Nat
  BY Bounds DEF WritePiece, TypeInv, TablesType
<1>2. call'.id = id /\ call'.left = left /\ written[id] \in Nat /\ written'[id] = written[id] + 1
  BY <1>1 DEF Call
<1>3. ASSUME NEW x \in Ids PROVE written'[x] <= MaxWritten
  <2>1. CASE x = id
    BY <1>1, <1>2, <2>1
  <2>2. CASE x # id
    BY <1>1, <2>2 DEF Extent
  <2> QED BY <2>1, <2>2
<1> QED BY <1>2, <1>3

LEMMA ExtentWrite ==
  ASSUME TypeInv, Extent, WriteReceives \/ \E id \in Ids : WriteBegins(id)
  PROVE Extent'
<1>1. CASE WriteReceives
  <2>0. PICK id \in Ids : id = call.id
    BY <1>1, CallIs DEF WriteReceives, Operations
  <2> DEFINE m == Arrival(id)
  <2>1. /\ UNCHANGED <<nextLocalId, connected, timeouts, online, restarts, devGot, devSent>> /\ call.op = "write"
        /\ accepted' = IF Acknowledges(m) THEN [accepted EXCEPT ![id] = written[id]] ELSE accepted
    BY <1>1, <2>0 DEF WriteReceives, device
  <2>2. written[id] \in Nat /\ call.left \in Nat /\ MaxWritten \in Nat
    BY <1>1, <2>1, CallIs, Bounds DEF TypeInv, TablesType, Operations
  <2>3. accepted' \in [Ids -> Nat]
    BY <2>1, <2>2 DEF Extent
  <2>4. /\ \A x \in Ids : written'[x] <= MaxWritten
        /\ call'.op = "write" => written'[call'.id] + call'.left <= MaxWritten
    <3>1. CASE m.cmd = "OKAY" /\ call.left > 0
      <4>1. WritePiece(id, call.left - 1) /\ call.left - 1 \in Nat
        BY <1>1, <2>0, <2>2, <3>1 DEF WriteReceives
      <4>2. written[id] + 1 + (call.left - 1) <= MaxWritten
        BY <2>0, <2>1, <2>2 DEF Extent
      <4> QED BY <4>1, <4>2, ExtentPiece
    <3>2. CASE ~(m.cmd = "OKAY" /\ call.left > 0)
      <4>1. written' = written /\ (call' = Idle \/ call' = call)
        BY <1>1, <2>0, <3>2 DEF WriteReceives
      <4> QED BY <4>1 DEF Extent, Idle
    <3> QED BY <3>1, <3>2
  <2> QED BY <2>1, <2>3, <2>4 DEF Extent
<1>2. ASSUME NEW id \in Ids, WriteBegins(id) PROVE Extent'
  <2>1. UNCHANGED <<nextLocalId, connected, timeouts, online, restarts, devGot, devSent, accepted>>
    BY <1>2 DEF WriteBegins, client, device
  <2>2. written[id] \in Nat /\ MaxWritten \in Nat
    BY Bounds DEF TypeInv, TablesType
  <2>3. PICK pieces \in 1 .. MaxWritten - written[id] : WritePiece(id, pieces - 1)
    BY <1>2 DEF WriteBegins
  <2>4. pieces - 1 \in Nat /\ written[id] + 1 + (pieces - 1) <= MaxWritten
    BY <2>2, <2>3
  <2>5. /\ \A x \in Ids : written'[x] <= MaxWritten
        /\ written'[call'.id] + call'.left <= MaxWritten
    BY <2>3, <2>4, ExtentPiece
  <2> QED BY <2>1, <2>5 DEF Extent
<1> QED BY <1>1, <1>2

LEMMA ExtentDevice ==
  ASSUME TypeInv, Extent, DeviceReceives \/ DeviceRestarts \/ \E id \in Ids : DeviceSends(id) \/ DeviceCloses(id)
  PROVE Extent'
<1>1. UNCHANGED <<nextLocalId, connected, timeouts, accepted, written, call>>
  BY DEF DeviceReceives, DeviceRestarts, DeviceSends, DeviceCloses, hostSide, client, objects
<1>2. CASE DeviceReceives
  <2> DEFINE m == Head(toDevice)
  <2>1. UNCHANGED <<devSent, online, restarts>>
    BY <1>2 DEF DeviceReceives
  <2>2. m.arg0 \in Ids /\ m.data \in Nat
    BY <1>2, DeviceReceivesType DEF ToDevice
  <2>3. devGot' = devGot \/ devGot' = [devGot EXCEPT ![m.arg0] = Append(@, m.data)]
    BY <1>2, DeviceDetails
  <2>4. devGot' \in [Ids -> Seq(Nat)]
    <3>1. PICK id \in Ids, n \in Nat : id = m.arg0 /\ n = m.data
      BY <2>2
    <3>2. devGot \in [Ids -> Seq(Nat)] /\ (devGot' = devGot \/ devGot' = [devGot EXCEPT ![id] = Append(@, n)])
      BY <2>3, <3>1 DEF Extent
    <3>3. Append(devGot[id], n) \in Seq(Nat)
      BY <3>2
    <3> QED BY <3>2, <3>3
  <2>5. \A x \in Ids : devSent'[x] <= MaxSent /\ written'[x] <= MaxWritten
    BY <1>1, <2>1 DEF Extent
  <2> HIDE DEF m
  <2> QED BY <1>1, <2>1, <2>4, <2>5 DEF Extent
<1>3. CASE DeviceRestarts
  <2>1. restarts' = restarts + 1 /\ online' = FALSE /\ UNCHANGED <<devSent, devGot>>
    BY <1>3 DEF DeviceRestarts
  <2>2. restarts' \in Nat
    BY <2>1 DEF Extent
  <2>3. online' \in BOOLEAN
    BY <2>1, Zenon
  <2> QED BY <1>1, <2>1, <2>2, <2>3 DEF Extent
<1>4. ASSUME NEW id \in Ids, DeviceSends(id) PROVE Extent'
  <2>1. devSent \in [Ids -> Nat] /\ devSent' = [devSent EXCEPT ![id] = @ + 1] /\ devSent[id] < MaxSent
        /\ UNCHANGED <<online, restarts, devGot>> /\ MaxSent \in Nat
    BY <1>4, StreamsAssumption DEF DeviceSends, TypeInv, DeviceType
  <2>2. \A x \in Ids : devSent'[x] <= MaxSent
    BY <2>1 DEF Extent
  <2> QED BY <1>1, <2>1, <2>2 DEF Extent
<1>5. ASSUME NEW id \in Ids, DeviceCloses(id) PROVE Extent'
  BY <1>1, <1>5 DEF DeviceCloses, Extent
<1> QED BY <1>2, <1>3, <1>4, <1>5

LEMMA ExtentStep == TypeInv /\ Extent /\ [Next]_vars => Extent'
<1> SUFFICES ASSUME TypeInv, Extent, [Next]_vars PROVE Extent'
  OBVIOUS
<1>1. CASE UNCHANGED vars
  BY <1>1 DEF vars, client, objects, device, Extent
<1>2. CASE Next
  BY <1>2, ExtentStart, ExtentHost, ExtentWrite, ExtentDevice DEF Next, HostReceives
<1> QED BY <1>1, <1>2

\* Only a restart sends CNXN.
LEMMA RestartStep ==
  ASSUME TypeInv, NoRestart, Next, ~DeviceRestarts
  PROVE NoRestart'
<1>1. PipesType
  BY DEF TypeInv
<1>2. SUFFICES \/ toHost' = toHost
               \/ toHost # <<>> /\ toHost' = Tail(toHost)
               \/ \E a \in ToHost : a.cmd # "CNXN" /\ toHost' = Append(toHost, a)
  <2>1. CASE toHost # <<>> /\ toHost' = Tail(toHost)
    BY <1>1, <2>1, TailIndex DEF NoRestart, PipesType
  <2>2. ASSUME NEW a \in ToHost, a.cmd # "CNXN", toHost' = Append(toHost, a) PROVE NoRestart'
    BY <1>1, <2>2, AppendIndex DEF NoRestart, PipesType
  <2> QED BY <2>1, <2>2 DEF NoRestart
<1>3. ASSUME NEW id \in Ids, Arrived(id), Take(id) PROVE toHost' = toHost \/ (toHost # <<>> /\ toHost' = Tail(toHost))
  BY <1>1, <1>3, TakeShape DEF FromQueue, FromPipe
<1>4. ASSUME NEW id \in Ids, Arrived(id), TakeAndClose(id)
      PROVE toHost' = toHost \/ (toHost # <<>> /\ toHost' = Tail(toHost))
  BY <1>1, <1>4, CloseType DEF TypeInv, TablesType
<1>5. ASSUME NEW id \in Ids, Arrived(id), Receive(id, Arrival(id))
      PROVE toHost' = toHost \/ (toHost # <<>> /\ toHost' = Tail(toHost))
  <2>1. Arrival(id).cmd \in {"OKAY", "CLSE", "WRTE"}
    BY <1>1, <1>5, ArrivalType, MessageType
  <2>2. Take(id) \/ TakeAndClose(id)
    BY <1>5, <2>1 DEF Receive
  <2> QED BY <1>3, <1>4, <1>5, <2>2
<1>6. CASE Start("open") \/ Start("shell") \/ TimesOut
  BY <1>6 DEF Start, TimesOut
<1>7. CASE Route \/ SeesRestart
  BY <1>7 DEF Route, SeesRestart
<1>8. CASE OpenReply
  <2>1. call.id \in Ids /\ Arrived(call.id) /\ (Take(call.id) \/ TakeAndClose(call.id))
    BY <1>8, CallIs DEF OpenReply, Operations
  <2> QED BY <1>3, <1>4, <2>1
<1>9. CASE ReadReceives
  <2>1. call.id \in Ids /\ Arrived(call.id) /\ Receive(call.id, Arrival(call.id))
    BY <1>9, CallIs DEF ReadReceives, Operations
  <2> QED BY <1>5, <2>1
<1>10. CASE WriteReceives
  <2>1. call.id \in Ids /\ Arrived(call.id) /\ (Take(call.id) \/ Receive(call.id, Arrival(call.id)))
    BY <1>10, CallIs DEF WriteReceives, Operations
  <2> QED BY <1>3, <1>5, <2>1
<1>11. CASE ShellReceives
  <2>1. call.id \in Ids /\ Arrived(call.id)
    BY <1>11, CallIs DEF ShellReceives, Operations
  <2>2. Arrival(call.id).cmd \in {"OKAY", "CLSE", "WRTE"}
    BY <1>1, <2>1, ArrivalType, MessageType
  <2>3. Take(call.id) \/ TakeAndClose(call.id)
    BY <1>11, <2>2 DEF ShellReceives
  <2> QED BY <1>3, <1>4, <2>1, <2>3
<1>12. CASE \E id \in Ids : ReadBuffered(id) \/ ReadWaits(id) \/ WriteBegins(id) \/ Dispose(id)
  BY <1>12 DEF ReadBuffered, ReadWaits, WriteBegins, Dispose
<1>13. CASE DeviceReceives
  <2> DEFINE m == Head(toDevice)
  <2>1. m.arg0 \in Ids /\ devNext \in Nat /\ devRemote[m.arg0] \in Nat /\ 0 \in Nat
    BY <1>13, DeviceReceivesType DEF TypeInv, DeviceType
  <2>2. Admits(m) \/ Rejects(m) \/ Accepts(m) \/ GoesOn(m) \/ Answers(m) \/ Ignores
    BY <1>13, DeviceCases
  <2> HIDE DEF m
  <2>3. toHost' \in {toHost, Append(toHost, Okay(devNext, m.arg0)), Append(toHost, Okay(devRemote[m.arg0], m.arg0)),
                     Append(toHost, Clse(0, m.arg0))}
    BY <2>2 DEF Admits, Rejects, Accepts, GoesOn, Answers, Ignores
  <2>4. /\ Okay(devNext, m.arg0) \in ToHost /\ Okay(devNext, m.arg0).cmd # "CNXN"
        /\ Okay(devRemote[m.arg0], m.arg0) \in ToHost /\ Okay(devRemote[m.arg0], m.arg0).cmd # "CNXN"
        /\ Clse(0, m.arg0) \in ToHost /\ Clse(0, m.arg0).cmd # "CNXN"
    BY <2>1, SentByDevice
  <2> QED BY <2>3, <2>4
<1>14. ASSUME NEW id \in Ids, DeviceSends(id) \/ DeviceCloses(id)
       PROVE \E a \in ToHost : a.cmd # "CNXN" /\ toHost' = Append(toHost, a)
  <2>1. devRemote[id] \in Nat /\ devSent[id] + 1 \in Nat /\ 0 \in Nat
    BY DEF TypeInv, DeviceType
  <2>2. /\ Wrte(devRemote[id], id, devSent[id] + 1) \in ToHost /\ Wrte(devRemote[id], id, devSent[id] + 1).cmd # "CNXN"
        /\ Clse(devRemote[id], id) \in ToHost /\ Clse(devRemote[id], id).cmd # "CNXN"
    BY <2>1, SentByDevice
  <2> QED BY <1>14, <2>2 DEF DeviceSends, DeviceCloses
<1> QED BY <1>6, <1>7, <1>8, <1>9, <1>10, <1>11, <1>12, <1>13, <1>14 DEF Next, HostReceives

-----------------------------------------------------------------------------
(* The invariant is one.                                                    *)

LEMMA ProtocolInit == Init => ProtocolInv
<1> SUFFICES ASSUME Init PROVE ProtocolInv
  OBVIOUS
<1>1. Extent
  <2>1. \A x \in Ids : devSent[x] = 0 /\ written[x] = 0
    BY DEF Init
  <2>2. MaxSent \in Nat /\ MaxWritten \in Nat /\ call.op # "write"
    BY StreamsAssumption DEF Init, Idle
  <2>3. nextLocalId \in Ids /\ devGot \in [Ids -> Seq(Nat)] /\ accepted \in [Ids -> Nat]
    BY Bounds DEF Init
  <2> QED BY <2>1, <2>2, <2>3 DEF Init, Extent
<1>2. ASSUME NEW x \in Ids PROVE Kept(x)
  <2>1. /\ pending[x] = <<>> /\ toHost = <<>> /\ toDevice = <<>> /\ remoteId[x] = 0 /\ devRemote[x] = 0
        /\ state[x] = "none" /\ openStreams = {} /\ devAwait[x] = FALSE /\ devGot[x] = <<>> /\ written[x] = 0
        /\ accepted[x] = 0 /\ call.op # "write"
    BY DEF Init, Idle
  <2>2. NoReply(<<>>, x) /\ NoPiece(<<>>, x) /\ NoClose(<<>>, x)
    BY NothingHasNone, QuietHasNone
  <2>3. Unanswered(x) /\ Taken(x) /\ Replies(x, 0) /\ LoneReply(x)
    BY <2>1, <2>2, QuietHasNone DEF Unanswered, Taken, Replies, LoneReply
  <2>4. Agreed(x) /\ Awaited(x) /\ Ended(x)
    BY <2>1, <2>2, <2>3, QuietHasNone DEF Agreed, Awaited, Ended
  <2>5. Piecewise(x)
    BY <2>1, <2>2, <2>3, QuietHasNone DEF Piecewise, Settled
  <2> QED BY <2>4, <2>5 DEF Kept
<1>3. NoRestart
  BY DEF Init, NoRestart
<1> QED BY <1>1, <1>2, <1>3 DEF ProtocolInv

LEMMA ProtocolStep == DistinctIds /\ TypeInv /\ StreamsInv /\ ProtocolInv /\ [Next]_vars => ProtocolInv'
<1> SUFFICES ASSUME DistinctIds, TypeInv, StreamsInv, ProtocolInv, [Next]_vars PROVE ProtocolInv'
  OBVIOUS
<1>1. Extent /\ (\A x \in Ids : Kept(x)) /\ (Undisturbed => NoRestart) /\ Extent'
  BY ExtentStep DEF ProtocolInv
<1>2. ASSUME NEW y \in Ids PROVE Kept(y)'
  <2>1. CASE Start("open") \/ Start("shell")
    BY <1>1, <2>1, StartKept
  <2>2. CASE HostReceives
    BY <1>1, <2>2, RouteKept, OpenReplyKept, ReadReceivesKept, WriteReceivesKept, ShellReceivesKept, FailKept
    DEF HostReceives
  <2>3. CASE TimesOut
    BY <1>1, <2>3, FailKept
  <2>4. CASE \E id \in Ids : ReadBuffered(id) \/ ReadWaits(id) \/ WriteBegins(id) \/ Dispose(id)
    BY <1>1, <2>4, ReadKept, WriteBeginsKept, DisposeKept
  <2>5. CASE DeviceReceives \/ DeviceRestarts
    BY <1>1, <2>5, DeviceReceivesKept, DeviceRestartsKept
  <2>6. CASE \E id \in Ids : DeviceSends(id) \/ DeviceCloses(id)
    BY <1>1, <2>6, DeviceSpeaksKept
  <2>7. CASE UNCHANGED vars
    <3>1. Apart(y) /\ HostElsewhere(y) /\ DeviceElsewhere(y) /\ opens' = opens /\ (Undisturbed' <=> Undisturbed)
      BY <2>7 DEF vars, client, objects, device, Apart, HostElsewhere, DeviceElsewhere, Writing, Undisturbed
    <3> QED BY <1>1, <3>1, KeptElsewhere DEF TypeInv
  <2> QED BY <2>1, <2>2, <2>3, <2>4, <2>5, <2>6, <2>7 DEF Next
<1>3. Undisturbed' => NoRestart'
  <2>1. CASE UNCHANGED vars
    BY <1>1, <2>1 DEF vars, device, Undisturbed, NoRestart
  <2>2. CASE Next
    <3> SUFFICES ASSUME Undisturbed' PROVE NoRestart'
      OBVIOUS
    <3>1. ~DeviceRestarts
      BY <1>1, Bounds, DeviceRestartsKept
    <3>2. Undisturbed
      <4>1. (timeouts' = timeouts \/ timeouts' = timeouts + 1) /\ restarts' = restarts /\ timeouts \in Nat
        BY <1>1, <2>2, <3>1 DEF Extent, Next, HostReceives, Start, Route, OpenReply, ReadReceives, WriteReceives,
          ShellReceives, SeesRestart, TimesOut, Fail, ReadBuffered, ReadWaits, WriteBegins, Dispose, DeviceReceives,
          DeviceSends, DeviceCloses, hostSide, device
      <4> QED BY <4>1 DEF Undisturbed
    <3> QED BY <1>1, <2>2, <3>1, <3>2, RestartStep
  <2> QED BY <2>1, <2>2
<1> QED BY <1>1, <1>2, <1>3 DEF ProtocolInv

-----------------------------------------------------------------------------
(* What it says of the protocol, and of what a Write was told.              *)

LEMMA TypesFollow == TypeInv /\ Extent => TypeOK
<1> SUFFICES ASSUME TypeInv, Extent PROVE TypeOK
  OBVIOUS
<1>1. HostMessages \subseteq Messages /\ ToHost \subseteq Messages /\ ToDevice \subseteq Messages
  <2>1. Ids \subseteq Nat
    BY DEF Ids
  <2>2. HostMessages \subseteq Messages
    BY <2>1 DEF HostMessages, Messages
  <2>3. ToDevice \subseteq Messages
    BY <2>1 DEF ToDevice, Messages
  <2>4. Cnxn \in Messages
    BY DEF Cnxn, Message, Messages
  <2> QED BY <2>2, <2>3, <2>4 DEF ToHost
<1>2. \A S, T : S \subseteq T => Seq(S) \subseteq Seq(T)
  OBVIOUS
<1>3. pending \in [Ids -> Seq(Messages)] /\ toDevice \in Seq(Messages) /\ toHost \in Seq(Messages)
  BY <1>1, <1>2 DEF TypeInv, PipesType
<1>4. call \in [op : {"idle", "open", "read", "write", "shell"}, id : 0 .. MaxId, left : Nat]
  BY Bounds DEF TypeInv, CallType, Idle, Calls, Operations, Ids
<1>5. devSent \in [Ids -> 0 .. MaxSent] /\ written \in [Ids -> 0 .. MaxWritten]
  <2>1. MaxSent \in Nat /\ MaxWritten \in Nat
    BY StreamsAssumption
  <2> QED BY <2>1 DEF TypeInv, DeviceType, TablesType, Extent
<1> QED BY <1>3, <1>4, <1>5 DEF TypeOK, TypeInv, TablesType, DeviceType, Extent

\* How many of a set of places there are: none, or just one.
LEMMA FewPlaces ==
  ASSUME NEW S
  PROVE /\ (\A i \in S : FALSE) => Cardinality(S) = 0
        /\ (\E i \in S : \A j \in S : i = j) => Cardinality(S) = 1
<1>1. (\A i \in S : FALSE) => S = {}
  OBVIOUS
<1>2. ASSUME NEW i \in S, \A j \in S : i = j PROVE Cardinality(S) = 1
  <2>1. S = {i}
    BY <1>2
  <2> QED BY <2>1, FS_Singleton
<1> QED BY <1>1, <1>2, FS_EmptySet

LEMMA DataCount ==
  ASSUME NEW s, NEW x
  PROVE /\ NoData(s, x) => Cardinality(UnitsIn(x, s)) = 0
        /\ ~NoData(s, x) /\ OneData(s, x) => Cardinality(UnitsIn(x, s)) = 1
<1>1. UnitsIn(x, s) = {i \in 1 .. Len(s) : IsData(s[i], x)}
  BY DEF UnitsIn, IsData
<1> QED BY <1>1, FewPlaces DEF NoData, OneData

LEMMA AckCount ==
  ASSUME NEW x
  PROVE /\ NoAck(toDevice, x) => Cardinality(SentOn(x, "OKAY")) = 0
        /\ ~NoAck(toDevice, x) /\ OneAck(toDevice, x) => Cardinality(SentOn(x, "OKAY")) = 1
<1>1. SentOn(x, "OKAY") = {i \in 1 .. Len(toDevice) : IsAck(toDevice[i], x)}
  BY DEF SentOn, IsAck
<1> QED BY <1>1, FewPlaces DEF NoAck, OneAck

LEMMA WholeProtocol == TypeInv /\ StreamsInv /\ ProtocolInv => ProtocolIsKept
<1> SUFFICES ASSUME TypeInv, StreamsInv, ProtocolInv PROVE ProtocolIsKept
  OBVIOUS
<1>1. PipesType /\ Extent /\ openStreams \subseteq Ids /\ remoteId \in [Ids -> Nat] /\ devAwait \in [Ids -> BOOLEAN]
  BY DEF TypeInv, TablesType, DeviceType, ProtocolInv
<1>2. OneAckPerWrite
  <2> SUFFICES ASSUME NEW x \in openStreams, devRemote[x] # 0
               PROVE Cardinality(UnitsIn(x, toHost)) + Cardinality(UnitsIn(x, pending[x]))
                       + Cardinality(SentOn(x, "OKAY")) = IF devAwait[x] THEN 1 ELSE 0
    BY DEF OneAckPerWrite, HasSocket
  <2>1. x \in Ids /\ Lane(x) /\ Paced(x) /\ Awaited(x)
    BY <1>1 DEF StreamsInv, Stream, ProtocolInv, Kept
  <2>2. CASE Empty(x)
    <3>1. Cardinality(UnitsIn(x, toHost)) = 0 /\ Cardinality(UnitsIn(x, pending[x])) = 0
      BY <2>2, DataCount DEF Empty
    <3>2. Cardinality(SentOn(x, "OKAY")) = IF devAwait[x] THEN 1 ELSE 0
      BY <2>1, <2>2, AckCount DEF Paced, Awaited
    <3> QED BY <3>1, <3>2
  <2>3. CASE ~Empty(x)
    <3>1. devAwait[x] /\ NoAck(toDevice, x)
      BY <2>1, <2>3 DEF Paced
    <3>2. Cardinality(SentOn(x, "OKAY")) = 0
      BY <3>1, AckCount
    <3>3. \/ Cardinality(UnitsIn(x, toHost)) = 0 /\ Cardinality(UnitsIn(x, pending[x])) = 1
          \/ Cardinality(UnitsIn(x, toHost)) = 1 /\ Cardinality(UnitsIn(x, pending[x])) = 0
      BY <2>1, <2>3, DataCount DEF Empty, Lane
    <3> QED BY <3>1, <3>2, <3>3
  <2> QED BY <2>2, <2>3
<1>3. ClosedForGood
  <2> SUFFICES ASSUME NEW x \in Ids
               PROVE /\ \A i, j \in 1 .. Len(toDevice) :
                          i < j /\ toDevice[i] = Clse(x, remoteId[x]) => toDevice[j].arg0 # x
                     /\ state[x] \in {"disposed", "closed", "finished"} /\ devRemote[x] # 0 => SentOn(x, "CLSE") # {}
    BY DEF ClosedForGood, HasSocket
  <2>1. Ended(x) /\ OneLife(x)
    BY DEF StreamsInv, Stream, ProtocolInv, Kept
  <2>2. \A m : m = Clse(x, remoteId[x]) => IsClose(m, x)
    BY DEF Clse, Message, IsClose
  <2>3. ~NoClose(toDevice, x) => SentOn(x, "CLSE") # {}
    BY DEF NoClose, IsClose, SentOn
  <2> QED BY <2>1, <2>2, <2>3 DEF Ended, CloseLast, OneLife, Over
<1> QED BY <1>1, <1>2, <1>3, TypesFollow DEF ProtocolIsKept

LEMMA WholeWrites == TypeInv /\ ProtocolInv => WriteIsAccepted
<1> SUFFICES ASSUME TypeInv, ProtocolInv, Undisturbed, NEW x \in Ids
             PROVE accepted[x] <= Len(devGot[x]) /\ IsPrefix(devGot[x], UpTo(written[x]))
  BY DEF WriteIsAccepted
<1> DEFINE g == devGot[x]
<1>1. Piecewise(x) /\ g \in Seq(Nat) /\ Len(g) \in Nat /\ written[x] \in Nat
  BY DEF ProtocolInv, Kept, Extent, TypeInv, TablesType
<1>2. accepted[x] <= Len(g) /\ Len(g) <= written[x] /\ \A i \in 1 .. Len(g) : g[i] = i
  BY <1>1 DEF Piecewise
<1> HIDE DEF g
<1> DEFINE n == Len(g)  u == UpTo(written[x])
<1>3. g = UpTo(n)
  BY <1>1, <1>2, UpToShape
<1>4. Len(u) = written[x] /\ SubSeq(u, 1, n) = UpTo(n)
  BY <1>1, <1>2, UpToShape
<1>5. SubSeq(g, 1, n) = g
  BY <1>1
<1> HIDE DEF u
<1>6. IsPrefix(g, u)
  BY <1>2, <1>3, <1>4, <1>5 DEF IsPrefix
<1> QED BY <1>2, <1>6 DEF g, u

LEMMA ProtocolAlways ==
  ASSUME DistinctIds PROVE Spec => [](TypeInv /\ StreamsInv /\ ProtocolInv)
<1>1. Init => TypeInv /\ StreamsInv /\ ProtocolInv
  BY TypeInit, StreamsInit, ProtocolInit
<1>2. TypeInv /\ StreamsInv /\ ProtocolInv /\ [Next]_vars => (TypeInv /\ StreamsInv /\ ProtocolInv)'
  BY TypeStep, StreamsStep, ProtocolStep
<1> QED BY <1>1, <1>2, PTL DEF Spec

\* However calls, messages, time-outs and restarts interleave on any number of
\* streams: a device that waits for the OKAY of a WRTE has exactly one coming,
\* the WRTE or the OKAY; nothing of a stream follows its CLSE; and a stream the
\* host is done with has its CLSE on the way to a device that still has the
\* socket, as long as the ids have not started over.
THEOREM ProtocolStaysKept == ASSUME DistinctIds PROVE Spec => []ProtocolIsKept
<1>1. TypeInv /\ StreamsInv /\ ProtocolInv => ProtocolIsKept
  BY WholeProtocol
<1> QED BY <1>1, ProtocolAlways, PTL

\* On a connection without time-outs and restarts a piece that Write takes for
\* acknowledged is one the device has accepted, in order, with every piece
\* before it: the OKAY that Write reads is never that of another piece.
THEOREM WritesAreAccepted == ASSUME DistinctIds PROVE Spec => []WriteIsAccepted
<1>1. TypeInv /\ StreamsInv /\ ProtocolInv => WriteIsAccepted
  BY WholeWrites
<1> QED BY <1>1, ProtocolAlways, PTL
=============================================================================
