----------------------------- MODULE AdbStreams -----------------------------
(***************************************************************************)
(* Service streams on one ADB connection (UsbAdbClient and AdbStream of    *)
(* scripts/adb.ps1) and the device's adbd at the other end of the two bulk *)
(* pipes.  The host runs one call at a time, and a call reads the pipe     *)
(* until the message it waits for arrives: messages for other open streams *)
(* are put aside for the calls that will want them.                        *)
(*                                                                         *)
(* A WRTE carries one unit of data, numbered per stream and direction.     *)
(* A pipe transfer either delivers a message or fails after its timeout.   *)
(***************************************************************************)
EXTENDS Integers, Sequences, FiniteSets, SequencesExt

CONSTANTS
  MaxId,        (* UInt32.MaxValue: the largest local stream id             *)
  MaxOpens,     (* bound: streams opened on the connection                  *)
  MaxSent,      (* bound: units the device sends on a stream                *)
  MaxWritten,   (* bound: units the host writes on a stream                 *)
  MaxTimeouts,  (* bound: pipe reads that time out                          *)
  MaxRestarts   (* bound: restarts of the device's connection               *)

ASSUME StreamsAssumption ==
  /\ MaxId \in Nat \ {0}
  /\ {MaxOpens, MaxSent, MaxWritten, MaxTimeouts, MaxRestarts} \subseteq Nat

Ids == 1 .. MaxId

VARIABLES
  nextLocalId, openStreams, pending,   \* UsbAdbClient
  state, remoteId, received,           \* per AdbStream (or ExecuteShell)
  call,                                \* the operation in progress
  connected,                           \* the holder still has the client
  toDevice, toHost,                    \* the bulk pipes
  devRemote, devNext, devAwait, devSent, devGot, online,  \* adbd
  delivered, accepted,                 \* history: what callers of Read were given,
                                       \* and the last unit a Write saw acknowledged
  written, opens, timeouts, restarts   \* counters

client  == <<nextLocalId, openStreams, pending>>
objects == <<state, remoteId, received, delivered, written, accepted>>
device  == <<devRemote, devNext, devAwait, devSent, devGot, online, restarts>>
vars == <<client, objects, call, connected, toDevice, toHost, device, opens, timeouts>>

Message(cmd, arg0, arg1, data) == [cmd |-> cmd, arg0 |-> arg0, arg1 |-> arg1, data |-> data]
Open(id)        == Message("OPEN", id, 0, 0)
Okay(from, to)  == Message("OKAY", from, to, 0)
Clse(from, to)  == Message("CLSE", from, to, 0)
Wrte(from, to, unit) == Message("WRTE", from, to, unit)
Cnxn            == Message("CNXN", 0, 0, 0)

Idle == [op |-> "idle", id |-> 0, left |-> 0]
Call(op, id, left) == [op |-> op, id |-> id, left |-> left]

Init ==
  /\ nextLocalId = 1 /\ openStreams = {} /\ pending = [id \in Ids |-> <<>>]
  /\ state = [id \in Ids |-> "none"] /\ remoteId = [id \in Ids |-> 0]
  /\ received = [id \in Ids |-> <<>>] /\ delivered = [id \in Ids |-> <<>>]
  /\ accepted = [id \in Ids |-> 0]
  /\ call = Idle /\ connected = TRUE
  /\ toDevice = <<>> /\ toHost = <<>>
  /\ devRemote = [id \in Ids |-> 0] /\ devNext = 1
  /\ devAwait = [id \in Ids |-> FALSE]
  /\ devSent = [id \in Ids |-> 0] /\ devGot = [id \in Ids |-> <<>>]
  /\ online = TRUE
  /\ written = [id \in Ids |-> 0] /\ opens = 0 /\ timeouts = 0 /\ restarts = 0

Send(messages) == toDevice' = toDevice \o messages

-----------------------------------------------------------------------------
(* OpenStream, ReadStreamMessage and CloseStream.                           *)

NextId(id) == IF id = MaxId THEN 1 ELSE id + 1

\* An AdbStream ("open") or ExecuteShell ("shell") starts.
Start(op) ==
  LET id == nextLocalId IN
  /\ connected /\ call = Idle /\ opens < MaxOpens
  /\ nextLocalId' = NextId(id)
  /\ openStreams' = openStreams \cup {id}
  /\ Send(<<Open(id)>>)
  /\ call' = Call(op, id, 0)
  /\ state' = [state EXCEPT ![id] = "opening"]
  /\ opens' = opens + 1
  /\ UNCHANGED <<pending, remoteId, received, delivered, written, accepted, connected, toHost, device, timeouts>>

\* Is there a message for the call, and which?  Queued ones are older.
Arrived(id) ==
  \/ pending[id] # <<>>
  \/ toHost # <<>> /\ Head(toHost).cmd # "CNXN" /\ Head(toHost).arg1 = id
Arrival(id) == IF pending[id] # <<>> THEN Head(pending[id]) ELSE Head(toHost)

\* The message is taken, from the stream's queue or from the pipe.
Take(id) ==
  IF pending[id] # <<>>
  THEN pending' = [pending EXCEPT ![id] = Tail(@)] /\ UNCHANGED toHost
  ELSE toHost' = Tail(toHost) /\ UNCHANGED pending

\* Mutation: a message for another stream is put on top of those that wait.
PutAside_Stacks(m) ==
  IF m.arg1 \in openStreams THEN [pending EXCEPT ![m.arg1] = <<m>> \o @] ELSE pending
PutAside(m) ==
  IF m.arg1 \in openStreams THEN [pending EXCEPT ![m.arg1] = Append(@, m)] ELSE pending

\* The call reads a message that is not for its stream.
Route ==
  /\ connected /\ call # Idle /\ pending[call.id] = <<>>
  /\ toHost # <<>> /\ Head(toHost).cmd # "CNXN" /\ Head(toHost).arg1 # call.id
  /\ toHost' = Tail(toHost)
  /\ pending' = PutAside(Head(toHost))
  /\ UNCHANGED <<nextLocalId, openStreams, objects, call, connected, toDevice, device, opens, timeouts>>

\* Mutation: the stream is looked up after it was removed.
CloseMessages_AfterRemoval(id, remote) ==
  IF id \in openStreams \ {id} /\ remote # 0 THEN <<Clse(id, remote)>> ELSE <<>>

\* CloseStream, together with the message that led to it.
CloseMessages(id, remote) ==
  IF id \in openStreams /\ remote # 0 THEN <<Clse(id, remote)>> ELSE <<>>
TakeAndClose(id) ==
  /\ toHost' = IF pending[id] = <<>> THEN Tail(toHost) ELSE toHost
  /\ pending' = [pending EXCEPT ![id] = <<>>]
  /\ openStreams' = openStreams \ {id}

-----------------------------------------------------------------------------
(* AdbStream.                                                               *)

\* The constructor's first message: OKAY with the remote id, or a rejection,
\* on which the holder drops the connection.
OpenReply ==
  LET id == call.id  m == Arrival(id)  admitted == m.cmd = "OKAY" /\ m.arg0 # 0 IN
  /\ connected /\ call.op = "open" /\ Arrived(id)
  /\ IF admitted
     THEN /\ Take(id)
          /\ remoteId' = [remoteId EXCEPT ![id] = m.arg0]
          /\ UNCHANGED <<openStreams, connected, toDevice>>
     ELSE /\ TakeAndClose(id)
          /\ Send(CloseMessages(id, 0))
          /\ connected' = FALSE
          /\ UNCHANGED remoteId
  /\ state' = [state EXCEPT ![id] = IF admitted THEN "live" ELSE "failed"]
  /\ call' = Idle
  /\ UNCHANGED <<nextLocalId, received, delivered, written, accepted, device, opens, timeouts>>

\* Receive: a WRTE is acknowledged and queued, a CLSE answered; the rest of
\* the call depends on what it waits for.
Receive(id, m) ==
  CASE m.cmd = "WRTE" ->
         /\ Take(id)
         /\ Send(<<Okay(id, remoteId[id])>>)
         /\ received' = [received EXCEPT ![id] = Append(@, m.data)]
         /\ UNCHANGED <<openStreams, state>>
    [] m.cmd = "CLSE" ->
         /\ TakeAndClose(id)
         /\ Send(CloseMessages(id, remoteId[id]))
         /\ state' = [state EXCEPT ![id] = "closed"]
         /\ UNCHANGED received
    [] m.cmd = "OKAY" ->
         /\ Take(id)
         /\ UNCHANGED <<openStreams, state, toDevice, received>>

\* Read finds data that an earlier call received.
ReadBuffered(id) ==
  /\ call = Idle /\ state[id] \in {"live", "closed"} /\ received[id] # <<>>
  /\ delivered' = [delivered EXCEPT ![id] = Append(@, Head(received[id]))]
  /\ received' = [received EXCEPT ![id] = Tail(@)]
  /\ UNCHANGED <<client, state, remoteId, written, accepted, call, connected, toDevice, toHost, device, opens, timeouts>>

\* Read has nothing buffered: it waits for the device.
ReadWaits(id) ==
  /\ connected /\ call = Idle /\ state[id] = "live" /\ received[id] = <<>>
  /\ call' = Call("read", id, 0)
  /\ UNCHANGED <<client, objects, connected, toDevice, toHost, device, opens, timeouts>>

\* One turn of Read's loop; it ends with data or with the end of the stream.
ReadReceives ==
  LET id == call.id  m == Arrival(id) IN
  /\ connected /\ call.op = "read" /\ Arrived(id)
  /\ Receive(id, m)
  /\ call' = IF m.cmd = "OKAY" THEN call ELSE Idle
  /\ UNCHANGED <<nextLocalId, remoteId, delivered, written, accepted, connected, device, opens, timeouts>>

\* Write sends its first piece, and a next one each time one is acknowledged.
WritePiece(id, left) ==
  /\ Send(<<Wrte(id, remoteId[id], written[id] + 1)>>)
  /\ written' = [written EXCEPT ![id] = @ + 1]
  /\ call' = Call("write", id, left)

WriteBegins(id) ==
  /\ connected /\ call = Idle /\ state[id] = "live" /\ written[id] < MaxWritten
  /\ \E pieces \in 1 .. MaxWritten - written[id] : WritePiece(id, pieces - 1)
  /\ UNCHANGED <<client, state, remoteId, received, delivered, accepted, connected, toHost, device, opens, timeouts>>

\* Mutations: any message for the stream, or none, ends the wait.
Acknowledges_Any(m) == TRUE
Acknowledges_None(m) == FALSE
Acknowledges(m) == m.cmd = "OKAY"

\* One turn of the loop that waits for the acknowledgement of a piece.
WriteReceives ==
  LET id == call.id  m == Arrival(id) IN
  /\ connected /\ call.op = "write" /\ Arrived(id)
  /\ IF m.cmd = "OKAY" /\ call.left > 0
     THEN /\ Take(id)
          /\ WritePiece(id, call.left - 1)
          /\ UNCHANGED <<openStreams, state, received>>
     ELSE /\ Receive(id, m)
          /\ call' = IF Acknowledges(m) \/ m.cmd = "CLSE" THEN Idle ELSE call
          /\ UNCHANGED written
  /\ accepted' = IF Acknowledges(m) THEN [accepted EXCEPT ![id] = written[id]] ELSE accepted
  /\ UNCHANGED <<nextLocalId, remoteId, delivered, connected, device, opens, timeouts>>

\* Dispose closes the service, not the connection.
Dispose(id) ==
  /\ connected /\ call = Idle /\ state[id] \in {"live", "closed"}
  /\ IF state[id] = "live"
     THEN /\ Send(CloseMessages(id, remoteId[id]))
          /\ openStreams' = openStreams \ {id}
          /\ pending' = [pending EXCEPT ![id] = <<>>]
     ELSE UNCHANGED <<toDevice, openStreams, pending>>
  /\ state' = [state EXCEPT ![id] = "disposed"]
  /\ UNCHANGED <<nextLocalId, remoteId, received, delivered, written, accepted, call, connected, toHost, device, opens, timeouts>>

-----------------------------------------------------------------------------
(* ExecuteShell: everything the command prints, until the device closes.    *)

ShellAck(id) == <<Okay(id, remoteId[id])>>

ShellReceives ==
  LET id == call.id  m == Arrival(id) IN
  /\ connected /\ call.op = "shell" /\ Arrived(id)
  /\ CASE m.cmd = "OKAY" ->
            /\ Take(id)
            /\ remoteId' = [remoteId EXCEPT ![id] = m.arg0]
            /\ UNCHANGED <<openStreams, state, delivered, toDevice, call>>
       [] m.cmd = "WRTE" ->
            /\ Take(id)
            /\ Send(ShellAck(id))
            /\ delivered' = [delivered EXCEPT ![id] = Append(@, m.data)]
            /\ UNCHANGED <<openStreams, state, remoteId, call>>
       [] m.cmd = "CLSE" ->
            /\ TakeAndClose(id)
            /\ Send(CloseMessages(id, IF remoteId[id] = 0 THEN m.arg0 ELSE remoteId[id]))
            /\ state' = [state EXCEPT ![id] = "finished"]
            /\ call' = Idle
            /\ UNCHANGED <<remoteId, delivered>>
  /\ UNCHANGED <<nextLocalId, received, written, accepted, connected, device, opens, timeouts>>

-----------------------------------------------------------------------------
(* A pipe read that fails.  Open and shell are operations of the holder,    *)
(* which drops the client; read and write of a stream only report it.       *)

Fail ==
  LET id == call.id  whole == call.op \in {"open", "shell"} IN
  /\ call' = Idle
  /\ connected' = ~whole
  /\ IF whole
     THEN /\ Send(CloseMessages(id, remoteId[id]))
          /\ openStreams' = openStreams \ {id}
          /\ pending' = [pending EXCEPT ![id] = <<>>]
          /\ state' = [state EXCEPT ![id] = "failed"]
     ELSE UNCHANGED <<toDevice, openStreams, pending, state>>
  /\ UNCHANGED <<nextLocalId, remoteId, received, delivered, written, accepted, device, opens>>

TimesOut ==
  /\ connected /\ call # Idle /\ pending[call.id] = <<>>
  /\ toHost = <<>> /\ timeouts < MaxTimeouts
  /\ timeouts' = timeouts + 1
  /\ Fail
  /\ UNCHANGED toHost

\* ReadStreamMessage meets the device's CNXN or AUTH.
SeesRestart ==
  /\ connected /\ call # Idle /\ pending[call.id] = <<>>
  /\ toHost # <<>> /\ Head(toHost).cmd = "CNXN"
  /\ toHost' = Tail(toHost)
  /\ Fail
  /\ UNCHANGED timeouts

-----------------------------------------------------------------------------
(* adbd: one socket per stream, at most one WRTE of its own unacknowledged. *)

hostSide == <<client, objects, call, connected, opens, timeouts>>
HasSocket(id) == devRemote[id] # 0
Socketless(id) == /\ devRemote' = [devRemote EXCEPT ![id] = 0]
                  /\ devAwait' = [devAwait EXCEPT ![id] = FALSE]

DeviceReceives ==
  /\ toDevice # <<>> /\ toDevice' = Tail(toDevice)
  /\ LET m == Head(toDevice)  id == m.arg0
         known == HasSocket(id) /\ devRemote[id] = m.arg1 IN
     \/ /\ online /\ m.cmd = "OPEN"
        /\ devRemote' = [devRemote EXCEPT ![id] = devNext]
        /\ devNext' = devNext + 1
        /\ toHost' = Append(toHost, Okay(devNext, id))
        /\ UNCHANGED <<devAwait, devGot>>
     \/ /\ online /\ m.cmd = "OPEN"
        /\ toHost' = Append(toHost, Clse(0, id))
        /\ UNCHANGED <<devRemote, devNext, devAwait, devGot>>
     \/ /\ m.cmd = "WRTE" /\ known
        /\ devGot' = [devGot EXCEPT ![id] = Append(@, m.data)]
        /\ toHost' = Append(toHost, Okay(devRemote[id], id))
        /\ UNCHANGED <<devRemote, devNext, devAwait>>
     \/ /\ m.cmd = "OKAY" /\ known
        /\ devAwait' = [devAwait EXCEPT ![id] = FALSE]
        /\ UNCHANGED <<toHost, devRemote, devNext, devGot>>
     \/ /\ m.cmd = "CLSE" /\ known
        /\ Socketless(id)
        /\ toHost' = Append(toHost, Clse(0, id))
        /\ UNCHANGED <<devNext, devGot>>
     \/ /\ IF m.cmd = "OPEN" THEN ~online ELSE ~known
        /\ UNCHANGED <<toHost, devRemote, devNext, devAwait, devGot>>
  /\ UNCHANGED <<hostSide, devSent, online, restarts>>

DeviceSends(id) ==
  /\ HasSocket(id) /\ ~devAwait[id] /\ devSent[id] < MaxSent
  /\ devSent' = [devSent EXCEPT ![id] = @ + 1]
  /\ devAwait' = [devAwait EXCEPT ![id] = TRUE]
  /\ toHost' = Append(toHost, Wrte(devRemote[id], id, devSent[id] + 1))
  /\ UNCHANGED <<hostSide, toDevice, devRemote, devNext, devGot, online, restarts>>

DeviceCloses(id) ==
  /\ HasSocket(id)
  /\ Socketless(id)
  /\ toHost' = Append(toHost, Clse(devRemote[id], id))
  /\ UNCHANGED <<hostSide, toDevice, devNext, devSent, devGot, online, restarts>>

\* The device starts the connection over: its sockets are gone.
DeviceRestarts ==
  /\ online /\ restarts < MaxRestarts
  /\ restarts' = restarts + 1 /\ online' = FALSE
  /\ devRemote' = [id \in Ids |-> 0] /\ devAwait' = [id \in Ids |-> FALSE]
  /\ toHost' = Append(toHost, Cnxn)
  /\ UNCHANGED <<hostSide, toDevice, devNext, devSent, devGot>>

-----------------------------------------------------------------------------

HostReceives == Route \/ OpenReply \/ ReadReceives \/ WriteReceives \/ ShellReceives \/ SeesRestart

Next ==
  \/ Start("open") \/ Start("shell")
  \/ HostReceives \/ TimesOut
  \/ \E id \in Ids : ReadBuffered(id) \/ ReadWaits(id) \/ WriteBegins(id) \/ Dispose(id)
  \/ DeviceReceives \/ DeviceRestarts
  \/ \E id \in Ids : DeviceSends(id) \/ DeviceCloses(id)

Spec == Init /\ [][Next]_vars

\* As long as nothing timed out or restarted, a call in progress keeps reading
\* and adbd keeps serving; which calls are made, what services send and when
\* anything fails is left open.
Undisturbed == timeouts = 0 /\ restarts = 0
FairSpec == Spec /\ WF_vars(Undisturbed /\ HostReceives) /\ WF_vars(Undisturbed /\ DeviceReceives)

-----------------------------------------------------------------------------

States == {"none", "opening", "live", "closed", "disposed", "finished", "failed"}
Messages ==
  [cmd : {"OPEN", "OKAY", "CLSE", "WRTE", "CNXN"}, arg0 : Nat, arg1 : Nat, data : Nat]

TypeOK ==
  /\ nextLocalId \in Ids /\ openStreams \subseteq Ids
  /\ pending \in [Ids -> Seq(Messages)]
  /\ state \in [Ids -> States] /\ remoteId \in [Ids -> Nat]
  /\ received \in [Ids -> Seq(Nat)] /\ delivered \in [Ids -> Seq(Nat)]
  /\ call \in [op : {"idle", "open", "read", "write", "shell"}, id : 0 .. MaxId, left : Nat]
  /\ connected \in BOOLEAN /\ online \in BOOLEAN
  /\ toDevice \in Seq(Messages) /\ toHost \in Seq(Messages)
  /\ devRemote \in [Ids -> Nat] /\ devNext \in Nat \ {0}
  /\ devAwait \in [Ids -> BOOLEAN]
  /\ devSent \in [Ids -> 0 .. MaxSent] /\ devGot \in [Ids -> Seq(Nat)]
  /\ written \in [Ids -> 0 .. MaxWritten]

UnitsIn(id, messages) == {i \in 1 .. Len(messages) : messages[i].cmd = "WRTE" /\ messages[i].arg1 = id}
SentOn(id, cmd) == {i \in 1 .. Len(toDevice) : toDevice[i].cmd = cmd /\ toDevice[i].arg0 = id}
UpTo(n) == [i \in 1 .. n |-> i]
Got(id) == delivered[id] \o received[id]

\* However reads, writes and shell calls of several streams interleave, each
\* unit the device sent on an open stream is in exactly one place, in order:
\* given to the caller, buffered in the stream, put aside, or in the pipe.
NothingLost ==
  \A id \in openStreams :
    LET waiting == pending[id] \o toHost  units == UnitsIn(id, waiting) IN
    /\ Got(id) = UpTo(Len(Got(id)))
    /\ {waiting[i].data : i \in units} = Len(Got(id)) + 1 .. devSent[id]
    /\ \A i, j \in units : i < j => waiting[i].data < waiting[j].data

\* The end of a stream is reported only after everything the device sent on it
\* has been received, and no stream ever shows data of another or out of order.
EndIsComplete ==
  \A id \in Ids :
    /\ IsPrefix(Got(id), UpTo(devSent[id]))
    /\ state[id] \in {"closed", "finished"} => Got(id) = UpTo(devSent[id])

\* The device waits for exactly one acknowledgement per WRTE: while a stream is
\* open at both ends, its WRTE, or the OKAY for it, is somewhere on the way.
OneAckPerWrite ==
  \A id \in openStreams : HasSocket(id) /\ connected =>
    Cardinality(UnitsIn(id, toHost)) + Cardinality(UnitsIn(id, pending[id]))
      + Cardinality(SentOn(id, "OKAY")) = IF devAwait[id] THEN 1 ELSE 0

\* Once the host has closed a stream it sends nothing more on it, and a stream
\* that is no longer open at the host is on its way to being closed at the device.
ClosedForGood ==
  \A id \in Ids :
    /\ \A i, j \in 1 .. Len(toDevice) :
         i < j /\ toDevice[i] = Clse(id, remoteId[id]) => toDevice[j].arg0 # id
    /\ connected /\ state[id] \in {"disposed", "closed", "finished"} /\ HasSocket(id) =>
         SentOn(id, "CLSE") # {}

\* When Write takes a piece for acknowledged, the device has accepted it and
\* every piece before it, as long as no transfer timed out: after a time-out
\* the next Write takes the OKAY of the one that failed for its own.
WriteIsAccepted ==
  Undisturbed =>
    \A id \in Ids : accepted[id] <= Len(devGot[id]) /\ IsPrefix(devGot[id], UpTo(written[id]))

\* On an undisturbed connection a Write comes back without waiting for the
\* pipe's time-out: its acknowledgement, or the end of the stream, is never
\* stuck behind the traffic of other streams.
WriteReturns == call.op = "write" ~> call.op # "write" \/ ~Undisturbed

\* What a stream reads is what the device sent on it, in order, with nothing
\* lost on the way and its end only after the rest.
ReadsAreWhole == NothingLost /\ EndIsComplete

\* Both ends keep to the protocol: one OKAY for a WRTE, one CLSE for a stream
\* and nothing after it, ids and states within their types.
ProtocolIsKept == TypeOK /\ OneAckPerWrite /\ ClosedForGood
=============================================================================
