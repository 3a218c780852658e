----------------------------- MODULE AdbRequests -----------------------------
(***************************************************************************)
(* What the ADB connection holder does with requests (the request loop of  *)
(* Start-AdbServer and Invoke-AdbClientOperation in scripts/adb.ps1): the  *)
(* device list it remembers, one client per device, and the service        *)
(* streams of its requesters by token.  Requests come one at a time;       *)
(* between two of them devices are plugged in and out.                     *)
(***************************************************************************)
EXTENDS Integers, Sequences, FiniteSets

CONSTANTS
  Devices,      \* instance ids of ADB interfaces
  Any,          \* the selector of a request that names no device
  Tokens,       \* tokens of service streams, each issued once
  MaxSessions,  \* bound: times a device is plugged in
  MaxClients,   \* bound: clients made
  MaxFaults     \* bound: operations that fail although the connection is good

ASSUME RequestsAssumption ==
  Any \notin Devices /\ {MaxSessions, MaxClients, MaxFaults} \subseteq Nat

VARIABLES
  session,   \* per device: which time it is plugged in, 0 when it is not
  sessions,  \* times a device was plugged in
  known,     \* $known: the devices listed; {} also stands for $null
  client,    \* $clients: per device the number of its client, 0 for none
  conns,     \* the clients made: device, session, and whether it is disposed
  streams,   \* $streams: the AdbStream of each token in the table
  issued,    \* tokens issued
  faults,    \* faults so far
  spoke,     \* the client through which the last request for a stream sent or
             \* received, 0 for a request that did neither
  cnxns,     \* per device: CNXNs that adbd received in this session
  excuses,   \* per device: failures and holder exits in this session
  missed     \* per device: requests naming it that failed in a row for no fault

world  == <<session, sessions>>
table  == <<client, conns>>
ghosts == <<cnxns, excuses>>
vars == <<world, known, table, streams, issued, faults, spoke, ghosts, missed>>

Attached == {d \in Devices : session[d] # 0}      \* Get-UsbAdbDevices
Alive(c) == ~conns[c].disposed /\ conns[c].session = session[conns[c].device]
Bump(f, d) == [f EXCEPT ![d] = @ + 1]

\* An AdbStream: its client, whether it has bytes that were not read yet, the
\* kinds of message set aside for it, and _closed.
Stream == [client : 1 .. Len(conns), held : BOOLEAN, aside : SUBSET {"WRTE", "CLSE"}, ended : BOOLEAN]
Opened(c) == [client |-> c, held |-> FALSE, aside |-> {}, ended |-> FALSE]

\* A request that reads from a client sets aside what arrives for that client's
\* other open streams; nothing follows a CLSE.
Waiting(c) ==
  {t \in DOMAIN streams : streams[t].client = c /\ ~streams[t].ended /\ "CLSE" \notin streams[t].aside}
SetAside(c) ==
  {[t \in DOMAIN streams |->
      IF t \in Waiting(c) THEN [streams[t] EXCEPT !.aside = @ \cup m[t]] ELSE streams[t]] :
   m \in [Waiting(c) -> SUBSET {"WRTE", "CLSE"}]}

Init ==
  /\ session = [d \in Devices |-> 0] /\ sessions = 0
  /\ known = {} /\ client = [d \in Devices |-> 0] /\ conns = <<>>
  /\ streams = [t \in {} |-> 0] /\ issued = {} /\ faults = 0
  /\ spoke = 0
  /\ cnxns = [d \in Devices |-> 0] /\ excuses = [d \in Devices |-> 0]
  /\ missed = [d \in Devices |-> 0]

\* A failure that no fault explains is counted, up to two; a success and a
\* fault start the count over, as does any change of what is attached.
Count(s, ok, fault) ==
  missed' = [d \in Devices |-> IF d # s THEN missed[d] ELSE
               IF ok \/ fault THEN 0 ELSE IF missed[d] < 2 THEN missed[d] + 1 ELSE missed[d]]
StartOver == missed' = [d \in Devices |-> 0]

Plug(d) ==
  /\ session[d] = 0 /\ sessions < MaxSessions
  /\ sessions' = sessions + 1 /\ session' = [session EXCEPT ![d] = sessions + 1]
  /\ cnxns' = [cnxns EXCEPT ![d] = 0] /\ excuses' = [excuses EXCEPT ![d] = 0]
  /\ StartOver
  /\ UNCHANGED <<known, table, streams, issued, faults, spoke>>

Unplug(d) ==
  /\ session[d] # 0 /\ session' = [session EXCEPT ![d] = 0]
  /\ StartOver
  /\ UNCHANGED <<sessions, known, table, streams, issued, faults, spoke, ghosts>>

-----------------------------------------------------------------------------
(* Requests for a device.                                                   *)

ListDevices ==
  /\ known' = Attached
  /\ spoke' = 0
  /\ UNCHANGED <<world, table, streams, issued, faults, ghosts, missed>>

\* Select-UsbAdbDevice: the device of that name, or the only one there is.
Selected(s, list) == {d \in list : d = s \/ (s = Any /\ Cardinality(list) = 1)}

\* The list the request is resolved with: the remembered one, and when it has
\* no such device a new one.
Listed(s) ==
  IF known # {} /\ Selected(s, known) # {} THEN known ELSE Attached

NotSelected(s) ==
  /\ Selected(s, Listed(s)) = {}
  /\ known' = Listed(s)
  /\ spoke' = 0
  /\ IF s \in Attached THEN Count(s, FALSE, FALSE) ELSE UNCHANGED missed
  /\ UNCHANGED <<world, table, streams, issued, faults, ghosts>>

\* The constructor of UsbAdbClient throws: the device is gone, or another
\* program holds it.  That is outside the handlers that forget the list.
OpenFails(s) ==
  \E d \in Selected(s, Listed(s)) :
    /\ client[d] = 0
    /\ IF d \in Attached THEN faults < MaxFaults /\ faults' = faults + 1 ELSE UNCHANGED faults
    /\ Count(s, FALSE, d \in Attached)
    /\ known' = Listed(s)
    /\ spoke' = 0
    /\ UNCHANGED <<world, table, streams, issued, ghosts>>

\* Connect throws: the new client is disposed and the list forgotten.
ConnectFails(s) ==
  \E d \in Selected(s, Listed(s)) \cap Attached :
    /\ client[d] = 0
    /\ faults < MaxFaults /\ faults' = faults + 1
    /\ Count(s, FALSE, TRUE)
    /\ known' = {}
    /\ spoke' = 0
    /\ cnxns' = Bump(cnxns, d) /\ excuses' = Bump(excuses, d)
    /\ UNCHANGED <<world, table, streams, issued>>

\* A client for the device is made and connected.
Connected(d) ==
  /\ client[d] = 0 /\ d \in Attached /\ Len(conns) < MaxClients
  /\ conns' = Append(conns, [device |-> d, session |-> session[d], disposed |-> FALSE])
  /\ cnxns' = Bump(cnxns, d)
  /\ client' = [client EXCEPT ![d] = Len(conns) + 1]

ConnectsFirst(s) ==
  /\ \E d \in Selected(s, Listed(s)) : Connected(d)
  /\ known' = Listed(s)
  /\ spoke' = 0
  /\ UNCHANGED <<world, streams, issued, faults, excuses, missed>>

\* The operation itself, through the client in the table: shell, exec-out,
\* push, pull or install, or stream-open with a token.
Succeeds(s, d, t) ==
  /\ Alive(client[d])
  /\ \E others \in SetAside(client[d]) :
       IF t = "none" THEN streams' = others /\ UNCHANGED issued
       ELSE /\ issued' = issued \cup {t}
            /\ streams' = [u \in DOMAIN streams \cup {t} |->
                             IF u = t THEN Opened(client[d]) ELSE others[u]]
  /\ known' = Listed(s)
  /\ spoke' = 0
  /\ Count(s, TRUE, FALSE)
  /\ UNCHANGED <<world, table, faults, ghosts>>

\* Mutations: the failed client stays in the table; it is not disposed.
DropClient_Keeps(d) == conns' = [conns EXCEPT ![client[d]].disposed = TRUE] /\ UNCHANGED client
DropClient_Leaves(d) == client' = [client EXCEPT ![d] = 0] /\ UNCHANGED conns

DropClient(d) ==
  /\ conns' = [conns EXCEPT ![client[d]].disposed = TRUE]
  /\ client' = [client EXCEPT ![d] = 0]

Fails(s, d) ==
  LET fault == Alive(client[d]) IN
  /\ IF fault THEN faults < MaxFaults /\ faults' = faults + 1 ELSE UNCHANGED faults
  /\ DropClient(d)
  /\ known' = {}
  /\ spoke' = 0
  /\ excuses' = Bump(excuses, d)
  /\ Count(s, FALSE, fault)
  /\ streams' \in IF fault THEN SetAside(client[d]) ELSE {streams}
  /\ UNCHANGED <<world, issued, cnxns>>

Operate(s) ==
  \E d \in Selected(s, Listed(s)) :
    /\ client[d] # 0
    /\ \/ \E t \in (Tokens \ issued) \cup {"none"} : Succeeds(s, d, t)
       \/ Fails(s, d)

-----------------------------------------------------------------------------
(* Requests for a service stream.  A failure is reported; nothing is        *)
(* dropped.  A token stays in the table when its client is dropped: what     *)
(* has arrived for it can still be read, and its end.                        *)

\* stream-read and stream-write that do not get to the client: bytes that have
\* arrived, the end, no bytes asked for or given, and a write after the end.
FromWhatArrived(t) ==
  /\ \E left \in {streams[t].held, FALSE} : streams' = [streams EXCEPT ![t].held = left]
  /\ spoke' = 0
  /\ UNCHANGED faults

\* The messages of a stream are taken in order, those set aside first: WRTEs,
\* each answered with an OKAY, then CLSE, answered with a CLSE.
Taken(s) ==
  {r \in [client : {s.client}, held : BOOLEAN, aside : SUBSET s.aside, ended : BOOLEAN] :
     /\ r.ended => r.aside = {}
     /\ "CLSE" \in s.aside \ r.aside => r.ended
     /\ s.aside = {"CLSE"} => r.ended \/ r = s}

\* Over the connection, when it is there: a read with nothing left goes on to
\* the end or a WRTE, a write to its OKAY, and fails at the end.
OverTheConnection(t) ==
  /\ ~streams[t].ended /\ Alive(streams[t].client)
  /\ faults' \in {faults, faults + 1} \cap 0 .. MaxFaults
  /\ \E others \in SetAside(streams[t].client), r \in Taken(streams[t]), way \in {"read", "write"} :
       /\ way = "read" =>
            /\ ~streams[t].held /\ (r.ended \/ faults' # faults => ~r.held)
            /\ streams[t].aside = {"CLSE"} => r.ended
       /\ way = "write" /\ streams[t].held => r.held
       /\ streams' = [others EXCEPT ![t] = r]
  /\ spoke' = streams[t].client

\* On a client that is disposed or unplugged each send and receive throws.  A
\* read has taken a message set aside by then: a WRTE is lost, a CLSE counts.
ConnectionLost(t) ==
  LET s == streams[t] IN
  /\ ~s.ended /\ ~Alive(s.client)
  /\ \E r \in Taken(s) :
       /\ r.held = s.held /\ (r # s => ~s.held)
       /\ r.ended <=> s.aside = {"CLSE"} /\ r # s
       /\ streams' = [streams EXCEPT ![t] = r]
  /\ spoke' = 0
  /\ UNCHANGED faults

StreamTransfer(t) ==
  /\ t \in DOMAIN streams
  /\ FromWhatArrived(t) \/ OverTheConnection(t) \/ ConnectionLost(t)
  /\ UNCHANGED <<world, known, table, issued, ghosts, missed>>

\* A CLSE goes out unless the stream has ended; that may fail, and does when the
\* connection is lost.  The token is removed all the same.
StreamClose(t) ==
  /\ t \in DOMAIN streams
  /\ IF ~streams[t].ended /\ Alive(streams[t].client)
     THEN /\ faults' \in {faults, faults + 1} \cap 0 .. MaxFaults
          /\ spoke' = streams[t].client
     ELSE UNCHANGED faults /\ spoke' = 0
  /\ streams' = [u \in DOMAIN streams \ {t} |-> streams[u]]
  /\ UNCHANGED <<world, known, table, issued, ghosts, missed>>

StreamUnknown(t) ==
  /\ t \in issued \ DOMAIN streams
  /\ spoke' = 0
  /\ UNCHANGED <<world, known, table, streams, issued, faults, ghosts, missed>>

\* kill: everything is disposed; the next request starts another holder.
Kill ==
  /\ conns' = [c \in 1 .. Len(conns) |-> [conns[c] EXCEPT !.disposed = TRUE]]
  /\ client' = [d \in Devices |-> 0] /\ streams' = [t \in {} |-> 0] /\ known' = {}
  /\ excuses' = [d \in Devices |-> excuses[d] + IF client[d] # 0 THEN 1 ELSE 0]
  /\ spoke' = 0
  /\ StartOver
  /\ UNCHANGED <<world, issued, faults, cnxns>>

-----------------------------------------------------------------------------

Next ==
  \/ \E d \in Devices : Plug(d) \/ Unplug(d)
  \/ ListDevices \/ Kill
  \/ \E s \in Devices \cup {Any} :
       NotSelected(s) \/ OpenFails(s) \/ ConnectFails(s) \/ ConnectsFirst(s) \/ Operate(s)
  \/ \E t \in Tokens : StreamTransfer(t) \/ StreamClose(t) \/ StreamUnknown(t)

Spec == Init /\ [][Next]_vars

-----------------------------------------------------------------------------

\* The tables refer to clients that were made, at most one for a device.
TypeOK ==
  /\ session \in [Devices -> 0 .. MaxSessions] /\ sessions \in 0 .. MaxSessions
  /\ known \subseteq Devices /\ issued \subseteq Tokens /\ faults \in 0 .. MaxFaults
  /\ Len(conns) <= MaxClients
  /\ \A d \in Devices : client[d] # 0 => client[d] \in 1 .. Len(conns) /\ conns[client[d]].device = d
  /\ DOMAIN streams \subseteq issued /\ \A t \in DOMAIN streams : streams[t] \in Stream

\* "A device that sees a second CNXN takes its transport offline": in a session
\* a device gets one CNXN, and one more for each failure on its connection and
\* for each holder that went away, however many requests and selectors there are.
OneConnection == \A d \in Devices : session[d] # 0 => cnxns[d] <= excuses[d] + 1

\* A token outlives the connection its stream was opened on, but whatever a
\* stream request sends or receives goes over the device's present connection:
\* an old token yields what had arrived for it and its end, and never speaks to
\* the device, which would take that for a second host on the same interface.
StreamsOfThisConnection == spoke # 0 => client[conns[spoke].device] = spoke

\* A request that names an attached device fails at most once without a fault
\* of the device: the failure makes the next one enumerate and reconnect.
NamedRetryWorks == \A d \in Attached : missed[d] <= 1
=============================================================================
