---------------------------- MODULE MCAdbHolder ----------------------------
(***************************************************************************)
(* The connection holder's three levels on small instances: AdbRequests,   *)
(* in which connecting is one step; AdbConnect, the steps of connecting to *)
(* one device; and AdbSync, the file transfers over a connection.  A       *)
(* behaviour is one of a single level; the others stay as they began, so   *)
(* the three state spaces add up.                                          *)
(***************************************************************************)
EXTENDS AdbRequests

CONSTANTS MaxSlow, MaxTokens, MaxOps, MaxSize, DataMax, Burst
VARIABLES
  level,
  pc, toDevice, toHost, device, token, authorized, slow,
  op, kind, size, at, after, sent, want, canWrite, buffer, got, toService, toPuller,
  devId, phase, devIn, owes, devOut, devAwait, file, stored

ASSUME HolderAssumption ==
  /\ {MaxSlow, MaxTokens, MaxOps, MaxSize} \subseteq Nat
  /\ {DataMax, Burst} \subseteq Nat \ {0}

Handshake == INSTANCE AdbConnect
Transfer == INSTANCE AdbSync WITH pc <- at, toDevice <- toService, toHost <- toPuller

handshake == <<pc, toDevice, toHost, device, token, authorized, slow>>
transfer == <<op, kind, size, at, after, sent, want, canWrite, buffer, got, toService, toPuller,
              devId, phase, devIn, owes, devOut, devAwait, file, stored>>

HolderInit ==
  /\ level \in {"requests", "handshake", "transfer"}
  /\ Init /\ Handshake!Init /\ Transfer!Init
  /\ level # "handshake" => ~authorized

OfHandshake(action) == level = "handshake" /\ action /\ UNCHANGED <<level, vars, transfer>>
OfTransfer(action) == level = "transfer" /\ action /\ UNCHANGED <<level, vars, handshake>>

HolderNext ==
  \/ level = "requests" /\ Next /\ UNCHANGED <<level, handshake, transfer>>
  \/ OfHandshake(Handshake!Next)
  \/ OfTransfer(Transfer!Next)

HolderVars == <<level, vars, handshake, transfer>>

\* The fairness of AdbConnect and AdbSync; the requests are under none.
HolderSpec ==
  /\ HolderInit /\ [][HolderNext]_HolderVars
  /\ WF_HolderVars(OfHandshake(Handshake!HostStep))
  /\ WF_HolderVars(OfHandshake(Handshake!DeviceStep))
  /\ WF_HolderVars(OfHandshake(Handshake!TimesOut /\ Handshake!Quiet))
  /\ WF_HolderVars(OfTransfer(Transfer!HostStep))
  /\ WF_HolderVars(OfTransfer(Transfer!DeviceStep))

\* The tables are sound, one CNXN reaches a device for each connection, and
\* streams only speak over the present one (AdbRequests; the handshake keeps to
\* its types).
ConnectionsAreKept ==
  TypeOK /\ OneConnection /\ StreamsOfThisConnection /\ Handshake!TypeOK

\* As long as no answer came late, a connection that Connect returns is one
\* the device has accepted (AdbConnect).
PromptConnect == Handshake!PromptConnect

\* However many answers come late, requests succeed again (AdbConnect).
Recovers == level = "handshake" => Handshake!Recovers

\* A transfer that succeeds moved the whole file and left nothing for the next
\* one to misread (AdbSync).
FilesAreWhole == Transfer!PushStores /\ Transfer!PullReturns /\ Transfer!NothingLeftOver

\* Host and device never wait for each other (AdbSync).
TransferEnds == Transfer!TransferEnds
=============================================================================
