------------------------------- MODULE AdbSync -------------------------------
(***************************************************************************)
(* File transfer over the sync service (PushBytes and PullBytes of         *)
(* scripts/adb.ps1).  Requests travel one packet per WRTE and each waits   *)
(* for its OKAY; replies are a byte stream that adbd cuts into WRTEs where *)
(* it likes, also in the middle of a header, and that may arrive while the *)
(* host waits for an OKAY.  A byte range is a sequence of units; a header  *)
(* is two of them.  A failed operation ends the connection (the holder).   *)
(***************************************************************************)
EXTENDS Integers, Sequences, SequencesExt

CONSTANTS
  MaxOps,    (* bound: transfers on the connection, one stream id each      *)
  MaxSize,   (* bound: units in a file                                      *)
  DataMax,   (* SYNC_DATA_MAX: units in one DATA packet                     *)
  Burst      (* bound: units adbd puts into one WRTE                        *)

VARIABLES
  op, kind, size,            \* the transfer: its stream id, "push" or "pull"
  pc, after, sent, want,     \* where the host is in it
  canWrite, buffer, got,     \* _syncCanWrite, _syncRecvBuffer, the pulled bytes
  toDevice, toHost,          \* the pipes
  devId, phase, devIn, owes, devOut, devAwait, file, stored  \* the device's service

hostVars   == <<op, kind, size, pc, after, sent, want, canWrite, buffer, got>>
deviceVars == <<devId, phase, devIn, owes, devOut, devAwait, file, stored>>
vars == <<hostVars, toDevice, toHost, deviceVars>>

Msg(cmd, id, body) == [cmd |-> cmd, id |-> id, body |-> body]
Least(a, b) == IF a < b THEN a ELSE b
NoFile == <<<<0, 0>>>>
\* The file of a transfer: units that belong to no other transfer.
Units(id, from, to) == [i \in 1 .. to - from + 1 |-> <<id, from + i - 1>>]
Header(id, length) == <<id, length>>

Init ==
  /\ op = 0 /\ kind = "push" /\ size = 0
  /\ pc = "idle" /\ after = "idle" /\ sent = 0 /\ want = 0
  /\ canWrite = TRUE /\ buffer = <<>> /\ got = <<>>
  /\ toDevice = <<>> /\ toHost = <<>>
  /\ devId = 0 /\ phase = "none" /\ devIn = <<>> /\ owes = FALSE /\ devOut = <<>>
  /\ devAwait = FALSE /\ file = <<>> /\ stored = NoFile

-----------------------------------------------------------------------------
(* The host.                                                                *)

Begin ==
  /\ pc = "idle" /\ op < MaxOps
  /\ kind' \in {"push", "pull"} /\ size' \in 0 .. MaxSize
  /\ op' = op + 1 /\ pc' = "opening"
  /\ buffer' = <<>> /\ canWrite' = TRUE /\ sent' = 0 /\ got' = <<>>
  /\ toDevice' = Append(toDevice, Msg("OPEN", op', <<>>))
  /\ UNCHANGED <<after, want, toHost, deviceVars>>

Next1 == Head(toHost)
Mine  == toHost # <<>> /\ Next1.id = op

\* A message of an earlier transfer: its stream is not open any more.
IgnoreLate ==
  /\ pc \notin {"idle", "dropped"} /\ toHost # <<>> /\ Next1.id # op
  /\ toHost' = Tail(toHost)
  /\ UNCHANGED <<hostVars, toDevice, deviceVars>>

OpenReply ==
  /\ pc = "opening" /\ Mine /\ toHost' = Tail(toHost)
  /\ pc' = IF Next1.cmd = "OKAY" THEN "request" ELSE "dropped"
  /\ UNCHANGED <<op, kind, size, after, sent, want, canWrite, buffer, got, toDevice, deviceVars>>

\* SendSyncWirePacket: the packet goes out, then its OKAY is awaited.
SendPacket(body, continuation) ==
  /\ canWrite /\ canWrite' = FALSE
  /\ toDevice' = Append(toDevice, Msg("WRTE", op, body))
  /\ pc' = "await" /\ after' = continuation

Request ==
  /\ pc = "request"
  /\ IF kind = "push" THEN SendPacket(<<"SEND">>, "data") ELSE SendPacket(<<"RECV">>, "header")
  /\ UNCHANGED <<op, kind, size, sent, want, buffer, got, toHost, deviceVars>>

ChunkEnd == Least(sent + DataMax, size)

SendData ==
  /\ pc = "data" /\ sent < size
  /\ SendPacket(<<"DATA">> \o Units(op, sent + 1, ChunkEnd), "data")
  /\ sent' = ChunkEnd
  /\ UNCHANGED <<op, kind, size, want, buffer, got, toHost, deviceVars>>

SendDone ==
  /\ pc = "data" /\ sent >= size
  /\ SendPacket(<<"DONE">>, "status")
  /\ UNCHANGED <<op, kind, size, sent, want, buffer, got, toHost, deviceVars>>

SendQuit ==
  /\ pc = "quit"
  /\ SendPacket(<<"QUIT">>, "close")
  /\ UNCHANGED <<op, kind, size, sent, want, buffer, got, toHost, deviceVars>>

\* Units ReadSyncStreamBytes is asked for.
Needed == IF pc \in {"status", "header"} THEN 2 ELSE IF pc \in {"chunk", "reason"} THEN want ELSE 0
Filled == Len(buffer) >= Needed

\* Mutation: data that arrives while an OKAY is awaited is not acknowledged.
Ack_OnlyWhenReading == IF pc = "await" THEN <<>> ELSE <<Msg("OKAY", op, <<>>)>>
Ack == <<Msg("OKAY", op, <<>>)>>

\* One turn of the loops of SendSyncWirePacket and ReadSyncStreamBytes.
Receive ==
  /\ pc = "await" \/ (pc \in {"status", "header", "chunk", "reason"} /\ ~Filled)
  /\ Mine /\ toHost' = Tail(toHost)
  /\ \/ /\ Next1.cmd = "OKAY"
        /\ canWrite' = TRUE
        /\ pc' = IF pc = "await" THEN after ELSE pc
        /\ UNCHANGED <<buffer, toDevice>>
     \/ /\ Next1.cmd = "WRTE"
        /\ toDevice' = toDevice \o Ack
        /\ buffer' = buffer \o Next1.body
        /\ UNCHANGED <<pc, canWrite>>
     \/ /\ Next1.cmd = "CLSE"
        /\ toDevice' = Append(toDevice, Msg("CLSE", op, <<>>))
        /\ pc' = "dropped"
        /\ UNCHANGED <<buffer, canWrite>>
  /\ UNCHANGED <<op, kind, size, after, sent, want, got, deviceVars>>

\* Mutation: all that has arrived is taken.
Taken_All(n) == buffer
Consume(n) == buffer' = SubSeq(buffer, n + 1, Len(buffer))
Taken(n) == SubSeq(buffer, 1, n)
Drop == pc' = "dropped" /\ toDevice' = Append(toDevice, Msg("CLSE", op, <<>>))

Finishes(id) == id = IF pc = "status" THEN "OKAY" ELSE "DONE"

\* A status or a chunk header has arrived.
ReadHeader ==
  LET id == buffer[1]  length == buffer[2] IN
  /\ pc \in {"status", "header"} /\ Filled
  /\ Consume(2)
  /\ \/ /\ Finishes(id)
        /\ pc' = "quit" /\ UNCHANGED <<want, toDevice>>
     \/ /\ pc = "header" /\ id = "DATA"
        /\ pc' = "chunk" /\ want' = length /\ UNCHANGED toDevice
     \/ /\ ~Finishes(id) /\ (pc = "header" => id # "DATA")
        /\ IF id = "FAIL" THEN pc' = "reason" /\ want' = length /\ UNCHANGED toDevice
           ELSE Drop /\ UNCHANGED want
  /\ UNCHANGED <<op, kind, size, after, sent, canWrite, got, toHost, deviceVars>>

ReadChunk ==
  /\ pc = "chunk" /\ Filled
  /\ got' = got \o Taken(want)
  /\ Consume(want) /\ pc' = "header"
  /\ UNCHANGED <<op, kind, size, after, sent, want, canWrite, toDevice, toHost, deviceVars>>

\* "SYNC push failed", "SYNC pull failed".
ReadReason ==
  /\ pc = "reason" /\ Filled
  /\ Consume(want) /\ Drop
  /\ UNCHANGED <<op, kind, size, after, sent, want, canWrite, got, toHost, deviceVars>>

\* The transfer succeeds; the stream is closed.
Close ==
  /\ pc = "close" /\ pc' = "idle"
  /\ toDevice' = Append(toDevice, Msg("CLSE", op, <<>>))
  /\ UNCHANGED <<op, kind, size, after, sent, want, canWrite, buffer, got, toHost, deviceVars>>

-----------------------------------------------------------------------------
(* adbd and its sync service.                                               *)

DevReceive ==
  LET m == Head(toDevice)  current == m.id = devId /\ phase # "closed" IN
  /\ toDevice # <<>> /\ toDevice' = Tail(toDevice)
  /\ \/ /\ m.cmd = "OPEN"
        /\ \/ phase' = "ready" /\ toHost' = Append(toHost, Msg("OKAY", m.id, <<>>))
           \/ phase' = "closed" /\ toHost' = Append(toHost, Msg("CLSE", m.id, <<>>))
        /\ devId' = m.id /\ devIn' = <<>> /\ owes' = FALSE /\ devOut' = <<>> /\ devAwait' = FALSE
        /\ file' = <<>> /\ stored' = NoFile
     \/ /\ m.cmd = "WRTE" /\ current
        /\ devIn' = Append(devIn, m.body) /\ owes' = TRUE
        /\ UNCHANGED <<devId, phase, toHost, devOut, devAwait, file, stored>>
     \/ /\ m.cmd = "OKAY" /\ current
        /\ devAwait' = FALSE
        /\ UNCHANGED <<devId, phase, toHost, devIn, owes, devOut, file, stored>>
     \/ /\ m.cmd = "CLSE" /\ current
        /\ phase' = "closed" /\ toHost' = Append(toHost, Msg("CLSE", m.id, <<>>))
        /\ UNCHANGED <<devId, devIn, owes, devOut, devAwait, file, stored>>
     \/ /\ m.cmd # "OPEN" /\ ~current
        /\ UNCHANGED <<toHost, deviceVars>>
  /\ UNCHANGED hostVars

\* A packet is acknowledged when there is room for it; the service may still be
\* busy with the one before.
DevAck ==
  /\ owes /\ phase # "closed" /\ Len(devIn) <= 1
  /\ owes' = FALSE
  /\ toHost' = Append(toHost, Msg("OKAY", devId, <<>>))
  /\ UNCHANGED <<hostVars, toDevice, devId, phase, devIn, devOut, devAwait, file, stored>>

\* What a RECV is answered with: the file in DATA chunks, or a failure.
Content == Units(op, 1, size)
\* The packets of a file's last m units, of n.
Chunks(id, n) ==
  LET left[m \in 0 .. n] ==
        IF m = 0 THEN <<>>
        ELSE LET k == Least(DataMax, m) IN
             Header("DATA", k) \o Units(id, n - m + 1, n - m + k) \o left[m - k]
  IN  left
Failure == Header("FAIL", 1) \o <<"reason">>

\* The service takes a packet when its last reply is written out.
DevServe ==
  LET p == Head(devIn)  c == p[1] IN
  /\ phase # "closed" /\ devIn # <<>> /\ devOut = <<>>
  /\ devIn' = Tail(devIn)
  /\ \/ /\ c \in {"SEND", "DATA", "DONE"} /\ phase # "drain"
        /\ \/ /\ c # "DONE"
              /\ phase' = "receive" /\ file' = file \o Tail(p)
              /\ UNCHANGED <<devOut, stored>>
           \/ /\ c = "DONE"
              /\ phase' = "ready" /\ devOut' = Header("OKAY", 0) /\ stored' = file
              /\ UNCHANGED file
           \/ /\ phase' = IF c = "DONE" THEN "ready" ELSE "drain"
              /\ devOut' = Failure /\ UNCHANGED <<file, stored>>
        /\ UNCHANGED toHost
     \/ /\ c \in {"DATA", "DONE"} /\ phase = "drain"
        /\ phase' = IF c = "DONE" THEN "ready" ELSE "drain"
        /\ UNCHANGED <<devOut, file, stored, toHost>>
     \/ /\ c = "RECV"
        /\ \E reply \in {Chunks(devId, size)[size] \o Header("DONE", 0)} \cup {Chunks(devId, n)[n] \o Failure : n \in 0 .. size} :
             devOut' = reply
        /\ UNCHANGED <<phase, file, stored, toHost>>
     \/ /\ c = "QUIT"
        /\ phase' = "closed" /\ devOut' = <<>>
        /\ toHost' = (IF owes THEN Append(toHost, Msg("OKAY", devId, <<>>)) ELSE toHost)
                       \o <<Msg("CLSE", devId, <<>>)>>
        /\ UNCHANGED <<file, stored>>
  /\ owes' = IF c = "QUIT" THEN FALSE ELSE owes
  /\ UNCHANGED <<hostVars, toDevice, devId, devAwait>>

DevReply ==
  /\ phase # "closed" /\ devOut # <<>> /\ ~devAwait
  /\ \E n \in 1 .. Least(Burst, Len(devOut)) :
       /\ toHost' = Append(toHost, Msg("WRTE", devId, SubSeq(devOut, 1, n)))
       /\ devOut' = SubSeq(devOut, n + 1, Len(devOut))
  /\ devAwait' = TRUE
  /\ UNCHANGED <<hostVars, toDevice, devId, phase, devIn, owes, file, stored>>

DevDies ==
  /\ phase \notin {"none", "closed"} /\ phase' = "closed"
  /\ toHost' = Append(toHost, Msg("CLSE", devId, <<>>))
  /\ UNCHANGED <<hostVars, toDevice, devId, devIn, owes, devOut, devAwait, file, stored>>

-----------------------------------------------------------------------------

HostStep ==
  \/ IgnoreLate \/ OpenReply \/ Request \/ SendData \/ SendDone \/ SendQuit
  \/ Receive \/ ReadHeader \/ ReadChunk \/ ReadReason \/ Close
DeviceStep == DevReceive \/ DevAck \/ DevServe \/ DevReply

Next == Begin \/ HostStep \/ DeviceStep \/ DevDies

\* Both ends keep working; the service never dies on its own account.
Spec == Init /\ [][Next]_vars
FairSpec == Spec /\ WF_vars(HostStep) /\ WF_vars(DeviceStep)

Succeeded == pc \in {"quit", "close"} \/ (pc = "await" /\ after = "close")

\* When PushBytes has seen its status, the device stores the whole file, in
\* order, and nothing of another transfer; a refusal, at whatever packet adbd
\* decides it, is never taken for success.
PushStores == Succeeded /\ kind = "push" => stored = Content

\* PullBytes returns the whole file or throws: chunk boundaries, and replies
\* cut anywhere into messages, do not matter.
PullReturns == Succeeded /\ kind = "pull" => got = Content

\* Nothing is left over for the next transfer to misread.
NothingLeftOver == Succeeded => buffer = <<>>

\* Host and device never wait for each other: a transfer ends, also when the
\* device has replies to send while the host waits for an acknowledgement.
TransferEnds == pc # "idle" ~> pc \in {"idle", "dropped"}
=============================================================================
