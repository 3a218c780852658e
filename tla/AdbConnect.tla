----------------------------- MODULE AdbConnect -----------------------------
(***************************************************************************)
(* Connecting to adbd (UsbAdbClient.Connect of scripts/adb.ps1) and the    *)
(* first stream on the connection.  A connection that fails is tried again *)
(* by the next request; neither closing the handle nor ResetPipe removes   *)
(* what adbd has already written to the bulk pipe, so a new attempt can    *)
(* find the answers to an older one there.                                 *)
(***************************************************************************)
EXTENDS Integers, Sequences

CONSTANTS
  MaxSlow,   (* bound: answers that come after the 10 s pipe timeout        *)
  MaxTokens  (* bound: tokens in use at one time                            *)

Nonces == 1 .. MaxTokens

VARIABLES
  pc,                   \* the host: where Connect or the first OpenStream is
  toDevice, toHost,     \* the bulk pipes
  device,               \* adbd: "offline", "auth", "asking" the user, "online"
  token,                \* the token adbd wants signed
  authorized,           \* the device knows the host's key
  slow                  \* late answers so far

vars == <<pc, toDevice, toHost, device, token, authorized, slow>>

Msg(cmd, t) == [cmd |-> cmd, token |-> t]
Send(m) == toDevice' = Append(toDevice, m)
Waiting == pc \in {"cnxn", "signature", "key", "open"}

Init ==
  /\ pc = "idle" /\ toDevice = <<>> /\ toHost = <<>>
  /\ device = "offline" /\ token = 0 /\ authorized \in BOOLEAN /\ slow = 0

-----------------------------------------------------------------------------
(* The host.                                                                *)

Connect ==
  /\ pc = "idle" /\ pc' = "cnxn"
  /\ Send(Msg("CNXN", 0))
  /\ UNCHANGED <<toHost, device, token, authorized, slow>>

Arrived == toHost # <<>>
First == Head(toHost)

\* The answer to CNXN, to the signature or to the key; anything else is skipped.
Skip ==
  /\ pc \in {"cnxn", "signature", "key"} /\ Arrived
  /\ First.cmd \notin (IF pc = "key" THEN {"CNXN"} ELSE {"CNXN", "AUTH"})
  /\ toHost' = Tail(toHost)
  /\ UNCHANGED <<pc, toDevice, device, token, authorized, slow>>

Accepted ==
  /\ pc \in {"cnxn", "signature", "key"} /\ Arrived /\ First.cmd = "CNXN"
  /\ toHost' = Tail(toHost) /\ pc' = "connected"
  /\ UNCHANGED <<toDevice, device, token, authorized, slow>>

\* Mutation: the key is sent without a signature.
SignToken_SendsKey ==
  /\ pc = "cnxn" /\ Arrived /\ First.cmd = "AUTH"
  /\ toHost' = Tail(toHost) /\ pc' = "key"
  /\ Send(Msg("KEY", 0))
  /\ UNCHANGED <<device, token, authorized, slow>>

SignToken ==
  /\ pc = "cnxn" /\ Arrived /\ First.cmd = "AUTH"
  /\ toHost' = Tail(toHost) /\ pc' = "signature"
  /\ Send(Msg("SIGNATURE", First.token))
  /\ UNCHANGED <<device, token, authorized, slow>>

\* Mutation: the rejected token is signed again.
SendKey_SignsAgain ==
  /\ pc = "signature" /\ Arrived /\ First.cmd = "AUTH"
  /\ toHost' = Tail(toHost) /\ pc' = "signature"
  /\ Send(Msg("SIGNATURE", First.token))
  /\ UNCHANGED <<device, token, authorized, slow>>

SendKey ==
  /\ pc = "signature" /\ Arrived /\ First.cmd = "AUTH"
  /\ toHost' = Tail(toHost) /\ pc' = "key"
  /\ Send(Msg("KEY", 0))
  /\ UNCHANGED <<device, token, authorized, slow>>

\* The first operation on the new connection.
OpenStream ==
  /\ pc = "connected" /\ pc' = "open"
  /\ Send(Msg("OPEN", 0))
  /\ UNCHANGED <<toHost, device, token, authorized, slow>>

\* ReadStreamMessage: a handshake message means that the device restarted the
\* connection; the holder drops the client.
StreamReply ==
  /\ pc = "open" /\ Arrived /\ toHost' = Tail(toHost)
  /\ pc' = CASE First.cmd = "OKAY" -> "working"
              [] First.cmd \in {"CNXN", "AUTH"} -> "idle"
              [] OTHER -> pc
  /\ UNCHANGED <<toDevice, device, token, authorized, slow>>

\* The holder drops the client after a failed operation, or it exits.
Drop ==
  /\ pc = "working" /\ pc' = "idle"
  /\ UNCHANGED <<toDevice, toHost, device, token, authorized, slow>>

\* The pipe read times out: the answer is late, or there will be none.
Quiet == toDevice = <<>> /\ toHost = <<>> /\ device # "asking"
TimesOut ==
  /\ Waiting /\ ~Arrived
  /\ IF Quiet THEN UNCHANGED slow ELSE slow < MaxSlow /\ slow' = slow + 1
  /\ pc' = "idle"
  /\ UNCHANGED <<toDevice, toHost, device, token, authorized>>

-----------------------------------------------------------------------------
(* adbd.                                                                    *)

InUse == {token} \cup {toHost[i].token : i \in 1 .. Len(toHost)}
                 \cup {toDevice[i].token : i \in 1 .. Len(toDevice)}
AskForSignature ==
  \E t \in Nonces \ InUse :
    /\ \A u \in Nonces \ InUse : t <= u
    /\ token' = t /\ device' = "auth"
    /\ toHost' = Append(toHost, Msg("AUTH", t))
ComeOnline == device' = "online" /\ toHost' = Append(toHost, Msg("CNXN", 0)) /\ UNCHANGED token

DeviceReceives ==
  /\ toDevice # <<>> /\ toDevice' = Tail(toDevice)
  /\ LET m == Head(toDevice)
         valid == device = "auth" /\ m.token = token /\ authorized IN
     \/ /\ \/ m.cmd = "CNXN"
           \/ m.cmd = "SIGNATURE" /\ device # "online" /\ ~valid
        /\ AskForSignature
     \/ m.cmd = "SIGNATURE" /\ valid /\ ComeOnline
     \/ m.cmd = "KEY" /\ device # "online" /\ device' = "asking" /\ UNCHANGED <<token, toHost>>
     \/ /\ m.cmd = "OPEN" /\ device = "online"
        /\ toHost' = Append(toHost, Msg("OKAY", 0)) /\ UNCHANGED <<device, token>>
     \/ /\ IF m.cmd = "OPEN" THEN device # "online"
           ELSE m.cmd \in {"SIGNATURE", "KEY"} /\ device = "online"
        /\ UNCHANGED <<device, token, toHost>>
  /\ UNCHANGED <<pc, authorized, slow>>

\* A service writes on its stream; nobody may be left to read it.
ServiceWrites ==
  /\ device = "online" /\ pc = "working" /\ toHost = <<>>
  /\ toHost' = <<Msg("WRTE", 0)>>
  /\ UNCHANGED <<pc, toDevice, device, token, authorized, slow>>

\* The user allows the host's key.
UserAllows ==
  /\ device = "asking" /\ authorized' = TRUE
  /\ ComeOnline
  /\ UNCHANGED <<pc, toDevice, slow>>

-----------------------------------------------------------------------------

HostStep == Connect \/ Skip \/ Accepted \/ SignToken \/ SendKey \/ OpenStream \/ StreamReply
DeviceStep == DeviceReceives \/ UserAllows

Next == HostStep \/ Drop \/ TimesOut \/ DeviceStep \/ ServiceWrites

Spec == Init /\ [][Next]_vars

\* Failed requests are followed by others, the device answers, the user looks
\* at the device, and a read that cannot be answered times out.
FairSpec == Spec /\ WF_vars(HostStep) /\ WF_vars(DeviceStep) /\ WF_vars(TimesOut /\ Quiet)

Mail(pipe, commands) == \A i \in 1 .. Len(pipe) : pipe[i].cmd \in commands
TypeOK ==
  /\ pc \in {"idle", "cnxn", "signature", "key", "connected", "open", "working"}
  /\ device \in {"offline", "auth", "asking", "online"}
  /\ token \in 0 .. MaxTokens /\ authorized \in BOOLEAN /\ slow \in 0 .. MaxSlow
  /\ Mail(toHost, {"CNXN", "AUTH", "OKAY", "WRTE"})
  /\ Mail(toDevice, {"CNXN", "SIGNATURE", "KEY", "OPEN"})

\* As long as no answer came late, the device has accepted this connection when
\* Connect returns, whatever streams of an earlier connection left in the pipe,
\* and the user is only asked about a key that the device does not know.
PromptConnect ==
  slow = 0 =>
    /\ pc = "connected" => device = "online" /\ toDevice = <<>>
    /\ device = "asking" => ~authorized

\* However many answers come late, requests succeed again: stale answers left
\* in the pipe are used up by failed attempts.
Recovers == []<>(pc = "working")
=============================================================================
