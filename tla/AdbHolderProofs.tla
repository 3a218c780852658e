--------------------------- MODULE AdbHolderProofs ---------------------------
(***************************************************************************)
(* What is proved of the connection holder, for any devices, tokens and    *)
(* bounds.  Of its requests (AdbRequests): the tables are sound, a device  *)
(* sees no second CNXN of one session without a failure or a new holder in *)
(* between, whatever a stream request sends or receives goes over the      *)
(* device's present connection, and a request that names an attached       *)
(* device fails at most once.  Of the handshake (AdbConnect): as long as no answer comes late,  *)
(* host and device take turns, and a connection that Connect returns is    *)
(* one the device has accepted.  Both hold of the levels together.         *)
(***************************************************************************)
EXTENDS MCAdbHolder, SequenceTheorems, TLAPS

-----------------------------------------------------------------------------
(* The requests: types *)

Client == [device : Devices, session : Nat, disposed : BOOLEAN]

\* What TypeOK leaves open: the ghosts, and what a client is.
Shape ==
  /\ session \in [Devices -> Nat] /\ sessions \in Nat
  /\ client \in [Devices -> Nat] /\ conns \in Seq(Client)
  /\ cnxns \in [Devices -> Nat] /\ excuses \in [Devices -> Nat]
  /\ missed \in [Devices -> Nat]

TypeInv == TypeOK /\ Shape

LEMMA Bounds == MaxSessions \in Nat /\ MaxClients \in Nat /\ MaxFaults \in Nat
  BY RequestsAssumption

LEMMA TypeInit == Init => TypeInv
  BY RequestsAssumption DEF Init, TypeInv, TypeOK, Shape

\* Only attached devices are selected by a request.
LEMMA SelectedIsDevice ==
  ASSUME TypeInv, NEW s \in Devices \cup {Any}
  PROVE Selected(s, Listed(s)) \subseteq Devices /\ Listed(s) \subseteq Devices
  BY DEF TypeInv, TypeOK, Selected, Listed, Attached

\* The count of unexplained failures stays a number.
LEMMA CountType ==
  ASSUME TypeInv, NEW s \in Devices \cup {Any}, NEW ok, NEW fault, Count(s, ok, fault)
  PROVE missed' \in [Devices -> Nat]
  BY DEF TypeInv, Shape, Count

LEMMA BumpType ==
  ASSUME NEW f \in [Devices -> Nat], NEW d \in Devices
  PROVE Bump(f, d) \in [Devices -> Nat]
  BY DEF Bump

\* Messages that are set aside leave every stream with its client.
LEMMA SetAsideKeeps ==
  ASSUME TypeInv, NEW c, NEW others \in SetAside(c)
  PROVE DOMAIN others = DOMAIN streams /\ \A t \in DOMAIN streams : others[t] \in Stream
<1>1. \A t \in DOMAIN streams : streams[t] \in Stream
  BY DEF TypeInv, TypeOK
<1>2. PICK m \in [Waiting(c) -> SUBSET {"WRTE", "CLSE"}] :
        others = [t \in DOMAIN streams |->
                    IF t \in Waiting(c) THEN [streams[t] EXCEPT !.aside = @ \cup m[t]] ELSE streams[t]]
  BY DEF SetAside
<1>3. ASSUME NEW t \in DOMAIN streams PROVE others[t] \in Stream
  <2>1. CASE t \in Waiting(c)
    <3>1. others[t] = [streams[t] EXCEPT !.aside = @ \cup m[t]] /\ m[t] \subseteq {"WRTE", "CLSE"}
      BY <1>2, <2>1
    <3> QED BY <1>1, <3>1 DEF Stream
  <2>2. CASE t \notin Waiting(c)
    BY <1>1, <1>2, <2>2
  <2> QED BY <2>1, <2>2
<1> QED BY <1>2, <1>3

\* So does a request for one stream, whatever it takes for that stream.
LEMMA TakenKeeps ==
  ASSUME TypeInv, NEW t \in DOMAIN streams, NEW r \in Taken(streams[t])
  PROVE r \in Stream
<1>1. streams[t] \in Stream
  BY DEF TypeInv, TypeOK
<1> QED BY <1>1 DEF Taken, Stream

\* A client that is made comes last and stands in the table.
ConnectedShape(d) ==
  /\ conns' \in Seq(Client) /\ Len(conns') = Len(conns) + 1 /\ Len(conns') <= MaxClients
  /\ \A c \in 1 .. Len(conns) : conns'[c] = conns[c]
  /\ conns'[Len(conns) + 1] = [device |-> d, session |-> session[d], disposed |-> FALSE]
  /\ client' \in [Devices -> Nat] /\ client'[d] = Len(conns) + 1
  /\ \A e \in Devices \ {d} : client'[e] = client[e]

LEMMA ConnectedShapes ==
  ASSUME TypeInv, NEW d \in Devices, Connected(d)
  PROVE ConnectedShape(d)
<1> USE DEF TypeInv, TypeOK, Shape, Connected
<1>1. [device |-> d, session |-> session[d], disposed |-> FALSE] \in Client
  BY DEF Client
<1> DEFINE x == [device |-> d, session |-> session[d], disposed |-> FALSE]
<1>2. conns \in Seq(Client) /\ conns' = Append(conns, x) /\ x \in Client
  BY <1>1
<1>3. Len(conns) < MaxClients /\ MaxClients \in Nat
  BY Bounds
<1>4. client' \in [Devices -> Nat] /\ client'[d] = Len(conns) + 1
  BY <1>2
<1>5. \A e \in Devices \ {d} : client'[e] = client[e]
  OBVIOUS
<1> HIDE DEF TypeInv, TypeOK, Shape, Connected, x
<1>6. conns' \in Seq(Client) /\ Len(conns') = Len(conns) + 1
  BY <1>2
<1>7. \A c \in 1 .. Len(conns) : conns'[c] = conns[c]
  BY <1>2
<1>8. conns'[Len(conns) + 1] = x
  BY <1>2
<1>9. Len(conns') <= MaxClients
  BY <1>2, <1>3, <1>6
<1> QED BY <1>4, <1>5, <1>6, <1>7, <1>8, <1>9 DEF ConnectedShape, x

\* A client that is dropped is disposed and leaves the table; the others stay.
DroppedShape(d) ==
  /\ conns' \in Seq(Client) /\ Len(conns') = Len(conns)
  /\ \A c \in 1 .. Len(conns) :
       /\ conns'[c].device = conns[c].device /\ conns'[c].session = conns[c].session
       /\ conns'[c].disposed = (c = client[d] \/ conns[c].disposed)
  /\ client' \in [Devices -> Nat] /\ client'[d] = 0
  /\ \A e \in Devices \ {d} : client'[e] = client[e]

LEMMA DisposeClient ==
  ASSUME NEW x \in Client
  PROVE LET y == [x EXCEPT !.disposed = TRUE] IN
        y \in Client /\ y.device = x.device /\ y.session = x.session /\ y.disposed
  BY DEF Client

LEMMA DropShapes ==
  ASSUME TypeInv, NEW d \in Devices, client[d] # 0, DropClient(d)
  PROVE DroppedShape(d)
<1> DEFINE k == client[d]
           y == [conns[k] EXCEPT !.disposed = TRUE]
<1>1. k \in 1 .. Len(conns) /\ conns \in Seq(Client) /\ client \in [Devices -> Nat]
  BY DEF TypeInv, TypeOK, Shape
<1>2. conns[k] \in Client
  BY <1>1
<1>3. y \in Client /\ y.device = conns[k].device /\ y.session = conns[k].session /\ y.disposed
  BY <1>2, DisposeClient
<1>4. conns' = [conns EXCEPT ![k] = y] /\ client' = [client EXCEPT ![d] = 0]
  BY DEF DropClient
<1> HIDE DEF y, k
<1>5. conns' \in Seq(Client) /\ Len(conns') = Len(conns)
  BY <1>1, <1>3, <1>4
<1>6. \A c \in 1 .. Len(conns) : conns'[c] = IF c = k THEN y ELSE conns[c]
  BY <1>1, <1>4
<1>7. ASSUME NEW c \in 1 .. Len(conns) PROVE conns[c].disposed \in BOOLEAN
  <2>1. conns[c] \in Client
    BY <1>1
  <2> QED BY <2>1 DEF Client
<1>8. client' \in [Devices -> Nat] /\ client'[d] = 0 /\ \A e \in Devices \ {d} : client'[e] = client[e]
  BY <1>1, <1>4
<1>9. ASSUME NEW c \in 1 .. Len(conns)
      PROVE /\ conns'[c].device = conns[c].device /\ conns'[c].session = conns[c].session
            /\ conns'[c].disposed = (c = k \/ conns[c].disposed)
  <2>1. CASE c = k
    BY <2>1, <1>3, <1>6, Zenon
  <2>2. CASE c # k
    BY <2>2, <1>6, <1>7, Zenon
  <2> QED BY <2>1, <2>2
<1> QED BY <1>5, <1>8, <1>9 DEF DroppedShape, k

LEMMA TypeStep == TypeInv /\ [Next]_vars => TypeInv'
<1> SUFFICES ASSUME TypeInv, [Next]_vars PROVE TypeInv'
  OBVIOUS
<1>s. UNCHANGED conns => Stream' = Stream
  BY DEF Stream
<1> USE RequestsAssumption DEF TypeInv, TypeOK, Shape
<1>1. ASSUME NEW d \in Devices, Plug(d) PROVE TypeInv'
  BY <1>s, <1>1 DEF Plug, StartOver, table
<1>2. ASSUME NEW d \in Devices, Unplug(d) PROVE TypeInv'
  BY <1>s, <1>2 DEF Unplug, StartOver, table, ghosts
<1>3. CASE ListDevices
  BY <1>s, <1>3 DEF ListDevices, Attached, world, table, ghosts
<1>4. CASE Kill
  <2>1. conns' \in Seq(Client) /\ Len(conns') = Len(conns)
    <3>1. ASSUME NEW c \in 1 .. Len(conns)
          PROVE [conns[c] EXCEPT !.disposed = TRUE] \in Client
      BY DisposeClient
    <3>2. conns' \in [1 .. Len(conns) -> Client] /\ Len(conns) \in Nat
      BY <1>4, <3>1 DEF Kill
    <3> HIDE DEF TypeInv, TypeOK, Shape
    <3> QED BY <3>2
  <2>2. missed' \in [Devices -> Nat] /\ excuses' \in [Devices -> Nat]
    BY <1>4 DEF Kill, StartOver
  <2> QED BY <1>4, <2>1, <2>2 DEF Kill, world
<1>5. ASSUME NEW s \in Devices \cup {Any}, NotSelected(s) PROVE TypeInv'
  BY <1>s, <1>5, SelectedIsDevice, CountType DEF NotSelected, world, table, ghosts
<1>6. ASSUME NEW s \in Devices \cup {Any}, OpenFails(s) PROVE TypeInv'
  <2>1. PICK d \in Selected(s, Listed(s)) :
          /\ IF d \in Attached THEN faults < MaxFaults /\ faults' = faults + 1 ELSE UNCHANGED faults
          /\ Count(s, FALSE, d \in Attached)
    BY <1>6 DEF OpenFails
  <2>2. missed' \in [Devices -> Nat]
    BY <2>1, CountType
  <2>4. faults' \in 0 .. MaxFaults
    BY <2>1, Bounds
  <2>3. known' \subseteq Devices /\ UNCHANGED <<world, table, streams, issued, ghosts>>
    BY <1>6, SelectedIsDevice DEF OpenFails
  <2> QED BY <1>s, <2>2, <2>3, <2>4 DEF world, table, ghosts
<1>7. ASSUME NEW s \in Devices \cup {Any}, ConnectFails(s) PROVE TypeInv'
  <2>1. PICK d \in Selected(s, Listed(s)) \cap Attached :
          /\ faults < MaxFaults /\ faults' = faults + 1
          /\ Count(s, FALSE, TRUE)
          /\ known' = {}
          /\ cnxns' = Bump(cnxns, d) /\ excuses' = Bump(excuses, d)
          /\ UNCHANGED <<world, table, streams, issued>>
    BY <1>7 DEF ConnectFails
  <2>2. d \in Devices
    BY DEF Attached
  <2>3. missed' \in [Devices -> Nat]
    BY <2>1, CountType
  <2>4. faults' \in 0 .. MaxFaults
    BY <2>1, Bounds
  <2>5. cnxns' \in [Devices -> Nat] /\ excuses' \in [Devices -> Nat]
    <3>1. cnxns \in [Devices -> Nat] /\ excuses \in [Devices -> Nat]
      OBVIOUS
    <3>2. cnxns' = Bump(cnxns, d) /\ excuses' = Bump(excuses, d)
      BY <2>1
    <3> HIDE DEF TypeInv, TypeOK, Shape
    <3> QED BY <2>2, <3>1, <3>2, BumpType
  <2> QED BY <1>s, <2>1, <2>3, <2>4, <2>5 DEF world, table
<1>8. ASSUME NEW s \in Devices \cup {Any}, ConnectsFirst(s) PROVE TypeInv'
  <2>1. PICK d \in Devices : Connected(d)
    BY <1>8, SelectedIsDevice DEF ConnectsFirst
  <2>2. known' \subseteq Devices /\ UNCHANGED <<world, streams, issued, faults, excuses, missed>>
    BY <1>8, SelectedIsDevice DEF ConnectsFirst
  <2>3. ConnectedShape(d)
    BY <2>1, ConnectedShapes
  <2>4. cnxns' \in [Devices -> Nat]
    BY <2>1 DEF Connected, Bump
  <2>5. \A e \in Devices : client'[e] # 0 => client'[e] \in 1 .. Len(conns') /\ conns'[client'[e]].device = e
    <3> TAKE e \in Devices
    <3>1. Len(conns) \in Nat
      OBVIOUS
    <3>2. CASE e = d
      BY <2>3, <3>1, <3>2 DEF ConnectedShape
    <3>3. CASE e # d
      <4>1. client'[e] = client[e]
        BY <2>3, <3>3 DEF ConnectedShape
      <4>2. ASSUME client[e] # 0
            PROVE client[e] \in 1 .. Len(conns) /\ conns[client[e]].device = e
        BY <4>2
      <4>3. Len(conns') = Len(conns) + 1 /\ \A c \in 1 .. Len(conns) : conns'[c] = conns[c]
        BY <2>3 DEF ConnectedShape
      <4> HIDE DEF TypeInv, TypeOK, Shape
      <4> QED BY <3>1, <4>1, <4>2, <4>3
    <3> QED BY <3>2, <3>3
  <2>6. DOMAIN streams \subseteq issued /\ \A t \in DOMAIN streams : streams[t] \in Stream'
    BY <2>3 DEF ConnectedShape, Stream
  <2>7. conns' \in Seq(Client) /\ Len(conns') <= MaxClients /\ client' \in [Devices -> Nat]
    BY <2>3 DEF ConnectedShape
  <2> QED BY <2>2, <2>4, <2>5, <2>6, <2>7 DEF world
<1>9. ASSUME NEW s \in Devices \cup {Any}, NEW d \in Devices,
             NEW t \in (Tokens \ issued) \cup {"none"}, client[d] # 0, Succeeds(s, d, t)
      PROVE TypeInv'
  <2>1. missed' \in [Devices -> Nat]
    BY <1>9, CountType DEF Succeeds
  <2>2. known' \subseteq Devices /\ UNCHANGED <<world, table, faults, ghosts>>
    BY <1>9, SelectedIsDevice DEF Succeeds
  <2>3. PICK others \in SetAside(client[d]) :
          IF t = "none" THEN streams' = others /\ UNCHANGED issued
          ELSE /\ issued' = issued \cup {t}
               /\ streams' = [u \in DOMAIN streams \cup {t} |->
                                IF u = t THEN Opened(client[d]) ELSE others[u]]
    BY <1>9 DEF Succeeds
  <2>4. DOMAIN others = DOMAIN streams /\ \A u \in DOMAIN streams : others[u] \in Stream
    BY SetAsideKeeps
  <2>5. Opened(client[d]) \in Stream
    BY <1>9 DEF Opened, Stream
  <2>6. /\ issued' \subseteq Tokens /\ DOMAIN streams' \subseteq issued'
        /\ \A u \in DOMAIN streams' : streams'[u] \in Stream
    <3> HIDE DEF TypeInv
    <3>1. DOMAIN streams \subseteq issued /\ issued \subseteq Tokens
      BY DEF TypeInv
    <3>2. CASE t = "none"
      BY <2>3, <2>4, <3>1, <3>2
    <3>3. CASE t # "none"
      <4>1. t \in Tokens
        BY <3>3
      <4>2. issued' = issued \cup {t} /\ DOMAIN streams' = DOMAIN streams \cup {t}
        BY <2>3, <3>3
      <4>3. ASSUME NEW u \in DOMAIN streams' PROVE streams'[u] \in Stream
        BY <2>3, <2>4, <2>5, <3>3, <4>2
      <4> QED BY <3>1, <4>1, <4>2, <4>3
    <3> QED BY <3>2, <3>3
  <2>7. Stream' = Stream
    BY <2>2 DEF Stream, table
  <2> QED BY <2>1, <2>2, <2>6, <2>7 DEF world, table, ghosts
<1>14. ASSUME NEW s \in Devices \cup {Any}, NEW d \in Devices, client[d] # 0, Fails(s, d)
       PROVE TypeInv'
  <2>1. missed' \in [Devices -> Nat]
    BY <1>14, CountType DEF Fails
  <2>2. faults' \in 0 .. MaxFaults
    <3>1. UNCHANGED faults \/ (faults < MaxFaults /\ faults' = faults + 1)
      BY <1>14 DEF Fails
    <3> QED BY <3>1, Bounds
  <2>3. known' \subseteq Devices /\ UNCHANGED <<world, issued, cnxns>>
    BY <1>14 DEF Fails
  <2>4. DroppedShape(d)
    BY <1>14, DropShapes DEF Fails
  <2>5. excuses' \in [Devices -> Nat]
    <3>1. excuses' = [excuses EXCEPT ![d] = @ + 1]
      BY <1>14 DEF Fails, Bump
    <3> QED BY <3>1
  <2>6. \A e \in Devices : client'[e] # 0 => client'[e] \in 1 .. Len(conns') /\ conns'[client'[e]].device = e
    <3> TAKE e \in Devices
    <3>1. ASSUME client[e] # 0
          PROVE client[e] \in 1 .. Len(conns) /\ conns[client[e]].device = e
      BY <3>1
    <3> HIDE DEF TypeInv, TypeOK, Shape
    <3> QED BY <2>4, <3>1 DEF DroppedShape
  <2>7. conns' \in Seq(Client) /\ Len(conns') = Len(conns) /\ client' \in [Devices -> Nat]
    BY <2>4 DEF DroppedShape
  <2>8. DOMAIN streams' \subseteq issued' /\ \A u \in DOMAIN streams' : streams'[u] \in Stream'
    <3>1. streams' \in SetAside(client[d]) \/ UNCHANGED streams
      BY <1>14 DEF Fails
    <3>2. DOMAIN streams' = DOMAIN streams /\ \A u \in DOMAIN streams : streams'[u] \in Stream
      BY <3>1, SetAsideKeeps
    <3>3. Stream' = Stream
      BY <2>7 DEF Stream
    <3> QED BY <2>3, <3>2, <3>3
  <2> QED BY <2>1, <2>2, <2>3, <2>5, <2>6, <2>7, <2>8 DEF world
<1>10. ASSUME NEW t \in Tokens, StreamTransfer(t) PROVE TypeInv'
  <2>1. t \in DOMAIN streams /\ UNCHANGED <<world, known, table, issued, ghosts, missed>>
    BY <1>10 DEF StreamTransfer
  <2>2. streams[t] \in Stream
    BY <2>1
  <2>3. faults' \in 0 .. MaxFaults
    <3>1. CASE FromWhatArrived(t) \/ ConnectionLost(t)
      BY <3>1 DEF FromWhatArrived, ConnectionLost
    <3>2. CASE OverTheConnection(t)
      BY <3>2 DEF OverTheConnection
    <3> QED BY <1>10, <3>1, <3>2 DEF StreamTransfer
  <2>4. DOMAIN streams' = DOMAIN streams /\ \A u \in DOMAIN streams : streams'[u] \in Stream
    <3>1. CASE FromWhatArrived(t)
      <4>1. PICK left \in {streams[t].held, FALSE} : streams' = [streams EXCEPT ![t].held = left]
        BY <3>1 DEF FromWhatArrived
      <4>2. [streams[t] EXCEPT !.held = left] \in Stream
        BY <2>2 DEF Stream
      <4>3. streams' = [streams EXCEPT ![t] = [streams[t] EXCEPT !.held = left]]
        BY <4>1
      <4> QED BY <2>1, <4>2, <4>3
    <3>2. CASE OverTheConnection(t)
      <4>1. PICK others \in SetAside(streams[t].client), r \in Taken(streams[t]) :
              streams' = [others EXCEPT ![t] = r]
        BY <3>2 DEF OverTheConnection
      <4>2. r \in Stream /\ DOMAIN others = DOMAIN streams /\ \A u \in DOMAIN streams : others[u] \in Stream
        BY <2>1, SetAsideKeeps, TakenKeeps
      <4> HIDE DEF TypeInv, TypeOK, Shape
      <4> QED BY <2>1, <4>1, <4>2
    <3>3. CASE ConnectionLost(t)
      <4>1. PICK r \in Taken(streams[t]) : streams' = [streams EXCEPT ![t] = r]
        BY <3>3 DEF ConnectionLost
      <4>2. r \in Stream
        BY <2>1, TakenKeeps
      <4> QED BY <2>1, <4>1, <4>2
    <3> QED BY <1>10, <3>1, <3>2, <3>3 DEF StreamTransfer
  <2>5. Stream' = Stream
    BY <2>1 DEF Stream, table
  <2> QED BY <2>1, <2>3, <2>4, <2>5 DEF world, table, ghosts
<1>11. ASSUME NEW t \in Tokens, StreamClose(t) PROVE TypeInv'
  <2>1. UNCHANGED <<world, known, table, issued, ghosts, missed>>
    BY <1>11 DEF StreamClose
  <2>2. faults' \in 0 .. MaxFaults
    BY <1>11 DEF StreamClose
  <2>3. DOMAIN streams' \subseteq issued /\ \A u \in DOMAIN streams' : streams'[u] \in Stream
    BY <1>11 DEF StreamClose
  <2>4. Stream' = Stream
    BY <2>1 DEF Stream, table
  <2> QED BY <2>1, <2>2, <2>3, <2>4 DEF world, table, ghosts
<1>12. ASSUME NEW t \in Tokens, StreamUnknown(t) PROVE TypeInv'
  BY <1>s, <1>12 DEF StreamUnknown, world, table, ghosts
<1>13. CASE UNCHANGED vars
  BY <1>s, <1>13 DEF vars, world, table, ghosts
<1>15. ASSUME NEW s \in Devices \cup {Any}, Operate(s) PROVE TypeInv'
  BY <1>9, <1>14, <1>15, SelectedIsDevice DEF Operate
<1> QED BY <1>1, <1>2, <1>3, <1>4, <1>5, <1>6, <1>7, <1>8, <1>10, <1>11, <1>12, <1>13, <1>15 DEF Next

-----------------------------------------------------------------------------
(* Clients *)

\* What a step does with the clients: a client is added or dropped, all of them
\* go, or they stay as they are.
KilledShape ==
  /\ Len(conns') = Len(conns)
  /\ \A c \in 1 .. Len(conns) : conns'[c].disposed /\ conns'[c].device = conns[c].device
  /\ \A d \in Devices : client'[d] = 0

LEMMA KillShapes == TypeInv /\ Kill => KilledShape
<1> SUFFICES ASSUME TypeInv, Kill PROVE KilledShape
  OBVIOUS
<1>1. Len(conns) \in Nat /\ conns \in Seq(Client)
  BY DEF TypeInv, Shape
<1>2. conns' = [c \in 1 .. Len(conns) |-> [conns[c] EXCEPT !.disposed = TRUE]]
  BY DEF Kill
<1>3. Len(conns') = Len(conns)
  BY <1>1, <1>2
<1>4. ASSUME NEW c \in 1 .. Len(conns)
      PROVE conns'[c].disposed /\ conns'[c].device = conns[c].device
  <2>1. conns[c] \in Client
    BY <1>1
  <2> QED BY <1>2, <2>1, DisposeClient
<1> QED BY <1>3, <1>4 DEF Kill, KilledShape

LEMMA ClientStep ==
  ASSUME TypeInv, [Next]_vars
  PROVE \/ UNCHANGED table
        \/ KilledShape
        \/ \E d \in Devices : client[d] = 0 /\ d \in Attached /\ ConnectedShape(d)
        \/ \E d \in Devices : client[d] # 0 /\ DroppedShape(d)
<1>1. ASSUME NEW d \in Devices, Plug(d) \/ Unplug(d) PROVE UNCHANGED table
  BY <1>1 DEF Plug, Unplug
<1>2. CASE ListDevices
  BY <1>2 DEF ListDevices
<1>3. CASE Kill
  BY <1>3, KillShapes
<1>4. ASSUME NEW s \in Devices \cup {Any}, NotSelected(s) \/ OpenFails(s) \/ ConnectFails(s)
      PROVE UNCHANGED table
  BY <1>4 DEF NotSelected, OpenFails, ConnectFails
<1>5. ASSUME NEW s \in Devices \cup {Any}, ConnectsFirst(s)
      PROVE \E d \in Devices : client[d] = 0 /\ d \in Attached /\ ConnectedShape(d)
  <2>1. PICK d \in Devices : Connected(d)
    BY <1>5, SelectedIsDevice DEF ConnectsFirst
  <2> QED BY <2>1, ConnectedShapes DEF Connected
<1>6. ASSUME NEW s \in Devices \cup {Any}, Operate(s)
      PROVE \/ UNCHANGED table
            \/ \E d \in Devices : client[d] # 0 /\ DroppedShape(d)
  <2>1. PICK d \in Devices : client[d] # 0 /\ (UNCHANGED table \/ Fails(s, d))
    BY <1>6, SelectedIsDevice DEF Operate, Succeeds
  <2> QED BY <2>1, DropShapes DEF Fails
<1>7. ASSUME NEW t \in Tokens, StreamTransfer(t) \/ StreamClose(t) \/ StreamUnknown(t)
      PROVE UNCHANGED table
  BY <1>7 DEF StreamTransfer, StreamClose, StreamUnknown
<1>8. CASE UNCHANGED vars
  BY <1>8 DEF vars
<1> QED BY <1>1, <1>2, <1>3, <1>4, <1>5, <1>6, <1>7, <1>8 DEF Next

\* A client that is not disposed is the one its device has in the table.
Registered ==
  \A c \in 1 .. Len(conns) : ~conns[c].disposed => client[conns[c].device] = c

LEMMA RegisteredStep == TypeInv /\ Registered /\ [Next]_vars => Registered'
<1> SUFFICES ASSUME TypeInv, Registered, [Next]_vars PROVE Registered'
  OBVIOUS
<1>1. Len(conns) \in Nat /\ \A c \in 1 .. Len(conns) : conns[c].device \in Devices
  <2>1. Len(conns) \in Nat /\ \A c \in 1 .. Len(conns) : conns[c] \in Client
    BY DEF TypeInv, Shape
  <2> QED BY <2>1 DEF Client
<1>2. CASE UNCHANGED table
  BY <1>2 DEF table, Registered
<1>3. CASE KilledShape
  BY <1>3 DEF KilledShape, Registered
<1>4. ASSUME NEW d \in Devices, client[d] = 0, ConnectedShape(d) PROVE Registered'
  <2> SUFFICES ASSUME NEW c \in 1 .. Len(conns'), ~conns'[c].disposed
               PROVE client'[conns'[c].device] = c
    BY DEF Registered
  <2>1. CASE c = Len(conns) + 1
    BY <1>4, <2>1 DEF ConnectedShape
  <2>2. CASE c # Len(conns) + 1
    <3>1. c \in 1 .. Len(conns) /\ conns'[c] = conns[c]
      BY <1>1, <1>4, <2>2 DEF ConnectedShape
    <3>2. client[conns[c].device] = c /\ conns[c].device \in Devices /\ c # 0
      BY <1>1, <3>1 DEF Registered
    <3>3. conns[c].device # d
      BY <1>4, <3>2
    <3> QED BY <1>4, <3>1, <3>2, <3>3 DEF ConnectedShape
  <2> QED BY <2>1, <2>2
<1>5. ASSUME NEW d \in Devices, client[d] # 0, DroppedShape(d) PROVE Registered'
  <2> SUFFICES ASSUME NEW c \in 1 .. Len(conns'), ~conns'[c].disposed
               PROVE client'[conns'[c].device] = c
    BY DEF Registered
  <2>1. /\ c \in 1 .. Len(conns) /\ conns'[c].device = conns[c].device
        /\ c # client[d] /\ ~conns[c].disposed
    BY <1>5 DEF DroppedShape
  <2>2. client[conns[c].device] = c /\ conns[c].device \in Devices
    BY <1>1, <2>1 DEF Registered
  <2> QED BY <1>5, <2>1, <2>2 DEF DroppedShape
<1> QED BY <1>2, <1>3, <1>4, <1>5, ClientStep

LEMMA StreamsStep ==
  TypeInv /\ Registered /\ StreamsOfThisConnection /\ [Next]_vars => StreamsOfThisConnection'
<1> SUFFICES ASSUME TypeInv, Registered, StreamsOfThisConnection, [Next]_vars
             PROVE StreamsOfThisConnection'
  OBVIOUS
<1> USE DEF StreamsOfThisConnection
<1>1. ASSUME NEW d \in Devices, Plug(d) \/ Unplug(d) PROVE StreamsOfThisConnection'
  BY <1>1 DEF Plug, Unplug, table
<1>2. CASE ListDevices \/ Kill
  BY <1>2 DEF ListDevices, Kill
<1>3. ASSUME NEW s \in Devices \cup {Any},
             NotSelected(s) \/ OpenFails(s) \/ ConnectFails(s) \/ ConnectsFirst(s) \/ Operate(s)
      PROVE StreamsOfThisConnection'
  <2>1. spoke' = 0
    BY <1>3, Zenon DEF NotSelected, OpenFails, ConnectFails, ConnectsFirst, Operate, Succeeds, Fails
  <2> QED BY <2>1
<1>4. ASSUME NEW t \in DOMAIN streams, spoke' = streams[t].client, Alive(streams[t].client), UNCHANGED table
      PROVE StreamsOfThisConnection'
  <2>1. streams[t].client \in 1 .. Len(conns)
    BY DEF TypeInv, TypeOK, Stream
  <2> QED BY <1>4, <2>1 DEF Alive, Registered, table
<1>5. ASSUME NEW t \in Tokens, StreamTransfer(t) \/ StreamClose(t) PROVE StreamsOfThisConnection'
  <2>1. t \in DOMAIN streams /\ UNCHANGED table
    BY <1>5 DEF StreamTransfer, StreamClose
  <2>2. spoke' = 0 \/ (spoke' = streams[t].client /\ Alive(streams[t].client))
    <3>1. CASE StreamClose(t)
      BY <3>1 DEF StreamClose
    <3>2. CASE FromWhatArrived(t)
      BY <3>2 DEF FromWhatArrived
    <3>3. CASE ConnectionLost(t)
      BY <3>3 DEF ConnectionLost
    <3>4. CASE OverTheConnection(t)
      BY <3>4 DEF OverTheConnection
    <3> QED BY <1>5, <3>1, <3>2, <3>3, <3>4 DEF StreamTransfer
  <2> QED BY <1>4, <2>1, <2>2
<1>6. ASSUME NEW t \in Tokens, StreamUnknown(t) PROVE StreamsOfThisConnection'
  BY <1>6 DEF StreamUnknown
<1>7. CASE UNCHANGED vars
  BY <1>7 DEF vars, table
<1> QED BY <1>1, <1>2, <1>3, <1>5, <1>6, <1>7 DEF Next

-----------------------------------------------------------------------------
(* One connection *)

\* Every CNXN of a session was followed by a failure or a new holder, except
\* that of the connection in the table.
Spent(d) == excuses[d] + (IF client[d] # 0 THEN 1 ELSE 0)
Counted == \A d \in Devices : session[d] # 0 => cnxns[d] <= Spent(d)

\* Counted survives a step that, of each attached device, leaves the session
\* and sends a CNXN only against a new excuse or a new client.
LEMMA CountedBy ==
  ASSUME Counted,
         \A d \in Devices : session'[d] # 0 =>
           \/ cnxns'[d] = 0 /\ Spent(d)' >= 0
           \/ session[d] # 0 /\ cnxns'[d] - cnxns[d] <= Spent(d)' - Spent(d),
         TypeInv, TypeInv'
  PROVE Counted'
<1> SUFFICES ASSUME NEW d \in Devices, session'[d] # 0 PROVE cnxns'[d] <= Spent(d)'
  BY DEF Counted
<1>1. cnxns[d] \in Nat /\ cnxns'[d] \in Nat
  BY DEF TypeInv, Shape
<1>2. Spent(d) \in Nat /\ Spent(d)' \in Nat
  BY DEF TypeInv, Shape, Spent
<1>3. session[d] # 0 => cnxns[d] <= Spent(d)
  BY DEF Counted
<1> QED BY <1>1, <1>2, <1>3

LEMMA CountedStep == TypeInv /\ Counted /\ [Next]_vars => Counted'
<1> SUFFICES ASSUME TypeInv, Counted, [Next]_vars PROVE Counted'
  OBVIOUS
<1>0. TypeInv'
  BY TypeStep
<1>1. \A e \in Devices : cnxns[e] \in Nat /\ excuses[e] \in Nat /\ client[e] \in Nat
  BY DEF TypeInv, Shape
<1>u. ASSUME UNCHANGED <<session, client, cnxns, excuses>> PROVE Counted'
  BY <1>u DEF Counted, Spent
<1>2. ASSUME NEW d \in Devices, Plug(d) PROVE Counted'
  <2>1. cnxns' = [cnxns EXCEPT ![d] = 0] /\ excuses' = [excuses EXCEPT ![d] = 0]
        /\ UNCHANGED client /\ session' = [session EXCEPT ![d] = sessions + 1]
    BY <1>2 DEF Plug, table
  <2>2. \A e \in Devices \ {d} : cnxns'[e] = cnxns[e] /\ Spent(e)' = Spent(e) /\ session'[e] = session[e]
    BY <2>1 DEF TypeInv, Shape, Spent
  <2>3. cnxns'[d] = 0 /\ Spent(d)' >= 0
    BY <2>1 DEF TypeInv, Shape, Spent
  <2>4. \A e \in Devices : Spent(e) \in Nat
    BY <1>1 DEF Spent
  <2> QED BY <1>0, <1>1, <2>2, <2>3, <2>4, CountedBy
<1>3. ASSUME NEW d \in Devices, Unplug(d) PROVE Counted'
  <2>1. \A e \in Devices : session'[e] # 0 => session[e] # 0
    BY <1>3 DEF Unplug, TypeInv, Shape
  <2> QED BY <1>3, <2>1 DEF Unplug, Counted, Spent, table, ghosts
<1>4. CASE ListDevices
  BY <1>4, <1>u DEF ListDevices, world, table, ghosts
<1>5. CASE Kill
  <2>1. \A e \in Devices : client'[e] = 0 /\ excuses'[e] = Spent(e)
    BY <1>5 DEF Kill, Spent
  <2>2. UNCHANGED <<session, cnxns>>
    BY <1>5 DEF Kill, world
  <2> QED BY <1>1, <2>1, <2>2 DEF Counted, Spent
<1>6. ASSUME NEW s \in Devices \cup {Any}, NotSelected(s) \/ OpenFails(s) PROVE Counted'
  BY <1>6, <1>u DEF NotSelected, OpenFails, world, table, ghosts
<1>7. ASSUME NEW s \in Devices \cup {Any}, ConnectFails(s) PROVE Counted'
  <2>1. PICK d \in Devices : cnxns' = Bump(cnxns, d) /\ excuses' = Bump(excuses, d)
    BY <1>7 DEF ConnectFails, Attached
  <2>2. UNCHANGED <<session, client>>
    BY <1>7 DEF ConnectFails, world, table
  <2>3. cnxns' = [cnxns EXCEPT ![d] = @ + 1] /\ excuses' = [excuses EXCEPT ![d] = @ + 1]
    BY <2>1 DEF Bump
  <2>4. \A e \in Devices : cnxns'[e] - cnxns[e] = excuses'[e] - excuses[e]
    BY <1>1, <2>3 DEF TypeInv, Shape
  <2>5. \A e \in Devices : excuses'[e] \in Nat /\ cnxns'[e] \in Nat
    BY <1>0 DEF TypeInv, Shape
  <2>6. \A e \in Devices : cnxns'[e] - cnxns[e] <= Spent(e)' - Spent(e)
    BY <1>1, <2>2, <2>4, <2>5 DEF Spent
  <2> QED BY <1>0, <2>2, <2>6, CountedBy
<1>8. ASSUME NEW s \in Devices \cup {Any}, ConnectsFirst(s) PROVE Counted'
  <2>1. PICK d \in Devices : Connected(d)
    BY <1>8, SelectedIsDevice DEF ConnectsFirst
  <2>2. UNCHANGED <<session, excuses>>
    BY <1>8 DEF ConnectsFirst, world
  <2>3. ConnectedShape(d)
    BY <2>1, ConnectedShapes
  <2>4. client[d] = 0 /\ cnxns'[d] = cnxns[d] + 1 /\ \A e \in Devices \ {d} : cnxns'[e] = cnxns[e]
    BY <2>1 DEF Connected, Bump, TypeInv, Shape
  <2>5. client'[d] # 0 /\ \A e \in Devices \ {d} : client'[e] = client[e]
    BY <2>3 DEF ConnectedShape, TypeInv, Shape
  <2>6. Spent(d)' = Spent(d) + 1 /\ \A e \in Devices \ {d} : Spent(e)' = Spent(e)
    BY <1>1, <2>2, <2>4, <2>5 DEF Spent
  <2>7. \A e \in Devices : Spent(e) \in Nat
    BY <1>1 DEF Spent
  <2>8. \A e \in Devices : cnxns'[e] - cnxns[e] <= Spent(e)' - Spent(e)
    BY <1>1, <2>4, <2>6, <2>7
  <2> QED BY <1>0, <2>2, <2>8, CountedBy
<1>9. ASSUME NEW s \in Devices \cup {Any}, Operate(s) PROVE Counted'
  <2>1. PICK d \in Devices : client[d] # 0 /\ (UNCHANGED <<world, table, ghosts>> \/ Fails(s, d))
    BY <1>9, SelectedIsDevice DEF Operate, Succeeds
  <2>2. CASE UNCHANGED <<world, table, ghosts>>
    BY <1>u, <2>2 DEF world, table, ghosts
  <2>3. CASE Fails(s, d)
    <3>1. UNCHANGED <<session, cnxns>>
      BY <2>3 DEF Fails, world
    <3>2. DroppedShape(d)
      BY <2>1, <2>3, DropShapes DEF Fails
    <3>3. excuses'[d] = excuses[d] + 1 /\ \A e \in Devices \ {d} : excuses'[e] = excuses[e]
      BY <2>3 DEF Fails, Bump, TypeInv, Shape
    <3>4. client'[d] = 0 /\ \A e \in Devices \ {d} : client'[e] = client[e]
      BY <3>2 DEF DroppedShape
    <3>5. \A e \in Devices : Spent(e)' = Spent(e)
      BY <1>1, <2>1, <3>3, <3>4 DEF Spent
    <3> QED BY <3>1, <3>5 DEF Counted
  <2> QED BY <2>1, <2>2, <2>3
<1>10. ASSUME NEW t \in Tokens, StreamTransfer(t) \/ StreamClose(t) \/ StreamUnknown(t)
       PROVE Counted'
  BY <1>10, <1>u DEF StreamTransfer, StreamClose, StreamUnknown, world, table, ghosts
<1>11. CASE UNCHANGED vars
  BY <1>11, <1>u DEF vars, world, table, ghosts
<1> QED
  BY <1>2, <1>3, <1>4, <1>5, <1>6, <1>7, <1>8, <1>9, <1>10, <1>11 DEF Next

-----------------------------------------------------------------------------
(* Requests that are repeated *)

\* An attached device whose last request failed without a fault has no client
\* in the table that the next one could fail through.
Usable(d) == client[d] = 0 \/ Alive(client[d])
Replugged ==
  \A d \in Devices : session[d] # 0 => missed[d] <= 1 /\ (missed[d] # 0 => Usable(d))

\* A request that names an attached device finds it, and no other.
LEMMA NamedIsSelected ==
  ASSUME NEW s \in Attached PROVE Selected(s, Listed(s)) = {s}
<1>1. s \in Devices /\ s # Any
  BY RequestsAssumption DEF Attached
<1>2. \A list : Selected(s, list) = {d \in list : d = s}
  BY <1>1 DEF Selected
<1>3. CASE known # {} /\ Selected(s, known) # {}
  BY <1>2, <1>3 DEF Listed
<1>4. CASE ~(known # {} /\ Selected(s, known) # {})
  BY <1>2, <1>4 DEF Listed
<1> QED BY <1>3, <1>4

\* Replugged survives a step that keeps the sessions and, of every device that
\* is attached, starts the count over, or keeps it while the client stays as good.
LEMMA RepluggedBy ==
  ASSUME Replugged, UNCHANGED session,
         \A d \in Devices : session[d] # 0 =>
           \/ missed'[d] = 0
           \/ missed'[d] <= 1 /\ Usable(d)'
           \/ missed'[d] = missed[d] /\ (Usable(d) => Usable(d)')
  PROVE Replugged'
<1> SUFFICES ASSUME NEW d \in Devices, session'[d] # 0
             PROVE missed'[d] <= 1 /\ (missed'[d] # 0 => Usable(d)')
  BY DEF Replugged
<1>1. session[d] # 0 /\ missed[d] <= 1 /\ (missed[d] # 0 => Usable(d))
  BY DEF Replugged
<1> QED BY <1>1

\* A device keeps a usable client whatever is made or dropped for the others.
LEMMA UsableStays ==
  ASSUME TypeInv, UNCHANGED session, NEW d \in Devices, NEW e \in Devices \ {d},
         ConnectedShape(d) \/ DroppedShape(d), client[d] # 0 \/ ConnectedShape(d), Usable(e)
  PROVE Usable(e)'
<1>1. client'[e] = client[e]
  BY DEF ConnectedShape, DroppedShape
<1>2. CASE client[e] = 0
  BY <1>1, <1>2 DEF Usable
<1>3. CASE client[e] # 0
  <2>1. client[e] \in 1 .. Len(conns) /\ conns[client[e]].device = e /\ Alive(client[e])
    BY <1>3 DEF Usable, TypeInv, TypeOK
  <2>2. CASE ConnectedShape(d)
    BY <1>1, <2>1, <2>2 DEF ConnectedShape, Usable, Alive
  <2>3. CASE DroppedShape(d) /\ client[d] # 0
    <3>1. client[d] # client[e]
      BY <2>1, <2>3 DEF TypeInv, TypeOK
    <3> DEFINE k == client[e]
    <3>2. conns'[k].device = conns[k].device /\ conns'[k].session = conns[k].session /\ ~conns'[k].disposed
      BY <2>1, <2>3, <3>1 DEF DroppedShape, Alive
    <3> QED BY <1>1, <2>1, <3>2 DEF Usable, Alive
  <2> QED BY <2>2, <2>3
<1> QED BY <1>2, <1>3

LEMMA RepluggedStep == TypeInv /\ Replugged /\ [Next]_vars => Replugged'
<1> SUFFICES ASSUME TypeInv, Replugged, [Next]_vars PROVE Replugged'
  OBVIOUS
<1>0. missed \in [Devices -> Nat] /\ client \in [Devices -> Nat]
  BY DEF TypeInv, Shape
<1>u. ASSUME UNCHANGED <<session, table, missed>> PROVE Replugged'
  BY <1>u DEF Replugged, Usable, Alive, table
<1>1. ASSUME StartOver PROVE Replugged'
  <2>1. \A d \in Devices : missed'[d] = 0
    BY <1>0, <1>1 DEF StartOver
  <2> QED BY <2>1 DEF Replugged
<1>2. ASSUME NEW d \in Devices, Plug(d) \/ Unplug(d) PROVE Replugged'
  BY <1>1, <1>2 DEF Plug, Unplug
<1>3. CASE ListDevices
  BY <1>3, <1>u DEF ListDevices, world
<1>4. CASE Kill
  BY <1>1, <1>4 DEF Kill
<1>5. ASSUME NEW s \in Devices \cup {Any}, NotSelected(s) PROVE Replugged'
  <2>1. s \notin Attached
    BY <1>5, NamedIsSelected DEF NotSelected
  <2> QED BY <1>5, <1>u, <2>1 DEF NotSelected, world
<1>6. ASSUME NEW s \in Devices \cup {Any}, NEW d \in Selected(s, Listed(s)),
             UNCHANGED <<session, table>>, Count(s, FALSE, d \in Attached)
      PROVE Replugged'
  <2>1. s \in Attached => missed'[s] = 0
    <3> SUFFICES ASSUME s \in Attached PROVE missed'[s] = 0
      OBVIOUS
    <3>1. d \in Attached
      BY NamedIsSelected
    <3> QED BY <1>0, <1>6, <3>1 DEF Count, Attached
  <2>2. \A e \in Devices \ {s} : missed'[e] = missed[e]
    BY <1>0, <1>6 DEF Count
  <2>3. \A e \in Devices : Usable(e)' = Usable(e)
    BY <1>6 DEF Usable, Alive, table
  <2> QED BY <1>6, <2>1, <2>2, <2>3, RepluggedBy DEF Attached
<1>7. ASSUME NEW s \in Devices \cup {Any}, OpenFails(s) \/ ConnectFails(s) PROVE Replugged'
  <2>1. CASE OpenFails(s)
    BY <1>6, <2>1 DEF OpenFails, world
  <2>2. CASE ConnectFails(s)
    <3>1. PICK d \in Selected(s, Listed(s)) \cap Attached : Count(s, FALSE, TRUE)
      BY <2>2 DEF ConnectFails
    <3>2. Count(s, FALSE, d \in Attached) /\ d \in Selected(s, Listed(s))
      BY <3>1 DEF Count
    <3>3. UNCHANGED <<session, table>>
      BY <2>2 DEF ConnectFails, world
    <3> QED BY <1>6, <3>2, <3>3
  <2> QED BY <1>7, <2>1, <2>2
<1>8. ASSUME NEW s \in Devices \cup {Any}, ConnectsFirst(s) PROVE Replugged'
  <2>1. PICK d \in Devices : Connected(d)
    BY <1>8, SelectedIsDevice DEF ConnectsFirst
  <2>2. UNCHANGED session /\ UNCHANGED missed
    BY <1>8 DEF ConnectsFirst, world
  <2>3. ConnectedShape(d)
    BY <2>1, ConnectedShapes
  <2>4. Usable(d)'
    BY <2>2, <2>3 DEF ConnectedShape, Usable, Alive
  <2>5. \A e \in Devices : Usable(e) => Usable(e)'
    BY <2>2, <2>3, <2>4, UsableStays
  <2> QED BY <2>2, <2>5, RepluggedBy
<1>9. ASSUME NEW s \in Devices \cup {Any}, NEW d \in Selected(s, Listed(s)), client[d] # 0, Fails(s, d)
      PROVE Replugged'
  <2>1. d \in Devices
    BY SelectedIsDevice
  <2>2. UNCHANGED session /\ Count(s, FALSE, Alive(client[d]))
    BY <1>9 DEF Fails, world
  <2>3. DroppedShape(d) /\ client'[d] = 0
    BY <1>9, <2>1, DropShapes DEF Fails, DroppedShape
  <2>4. Usable(d)'
    BY <2>3 DEF Usable
  <2>5. \A e \in Devices : Usable(e) => Usable(e)'
    BY <1>9, <2>1, <2>2, <2>3, <2>4, UsableStays
  <2>6. \A e \in Devices \ {s} : missed'[e] = missed[e]
    BY <1>0, <2>2 DEF Count
  <2>7. s \in Attached => missed'[s] <= 1
    <3> SUFFICES ASSUME s \in Attached PROVE missed'[s] <= 1
      OBVIOUS
    <3>1. d = s /\ session[s] # 0 /\ s \in Devices
      BY NamedIsSelected DEF Attached
    <3>2. CASE Alive(client[d])
      BY <1>0, <2>2, <3>1, <3>2 DEF Count
    <3>3. CASE ~Alive(client[d])
      <4>1. missed[s] = 0
        BY <1>9, <3>1, <3>3 DEF Replugged, Usable
      <4> QED BY <1>0, <2>2, <3>3, <4>1 DEF Count
    <3> QED BY <3>2, <3>3
  <2>8. s \in Attached => Usable(s)'
    BY <2>4, NamedIsSelected
  <2> QED BY <2>2, <2>5, <2>6, <2>7, <2>8, RepluggedBy DEF Attached
<1>10. ASSUME NEW s \in Devices \cup {Any}, NEW d \in Devices, NEW t, Succeeds(s, d, t)
       PROVE Replugged'
  <2>1. UNCHANGED <<session, table>> /\ Count(s, TRUE, FALSE)
    BY <1>10 DEF Succeeds, world
  <2>2. \A e \in Devices : missed'[e] = 0 \/ missed'[e] = missed[e]
    BY <1>0, <2>1 DEF Count
  <2>3. \A e \in Devices : Usable(e)' = Usable(e)
    BY <2>1 DEF Usable, Alive, table
  <2> QED BY <2>1, <2>2, <2>3, RepluggedBy
<1>11. ASSUME NEW s \in Devices \cup {Any}, Operate(s) PROVE Replugged'
  BY <1>9, <1>10, <1>11, SelectedIsDevice DEF Operate
<1>12. ASSUME NEW t \in Tokens, StreamTransfer(t) \/ StreamClose(t) \/ StreamUnknown(t)
       PROVE Replugged'
  BY <1>12, <1>u DEF StreamTransfer, StreamClose, StreamUnknown, world
<1>13. CASE UNCHANGED vars
  BY <1>13, <1>u DEF vars, world
<1> QED
  BY <1>2, <1>3, <1>4, <1>5, <1>7, <1>8, <1>11, <1>12, <1>13 DEF Next

-----------------------------------------------------------------------------
(* The requests: theorems *)

Inv ==
  /\ TypeInv /\ Registered /\ StreamsOfThisConnection
  /\ Counted /\ Replugged

LEMMA Invariant == Spec => []Inv
<1>1. Init => Inv
  <2> SUFFICES ASSUME Init PROVE Inv
    OBVIOUS
  <2>1. TypeInv
    BY TypeInit
  <2>2. Registered /\ StreamsOfThisConnection
    BY DEF Init, Registered, StreamsOfThisConnection
  <2>3. Counted /\ Replugged
    BY DEF Init, Counted, Replugged
  <2> QED BY <2>1, <2>2, <2>3 DEF Inv
<1>2. Inv /\ [Next]_vars => Inv'
  BY TypeStep, RegisteredStep, StreamsStep, CountedStep, RepluggedStep DEF Inv
<1> QED BY <1>1, <1>2, PTL DEF Spec

\* The tables of the holder refer to clients that were made, each for the device
\* it is listed under, and its counters keep their bounds.
THEOREM Typed == Spec => []TypeOK
<1>1. Inv => TypeOK
  BY DEF Inv, TypeInv
<1> QED BY <1>1, Invariant, PTL

LEMMA KeptByInv == Inv => OneConnection
<1> SUFFICES ASSUME Inv, NEW d \in Devices, session[d] # 0 PROVE cnxns[d] <= excuses[d] + 1
  BY DEF OneConnection
<1>1. cnxns[d] \in Nat /\ excuses[d] \in Nat
  BY DEF Inv, TypeInv, Shape
<1>2. cnxns[d] <= Spent(d)
  BY DEF Inv, Counted
<1> QED BY <1>1, <1>2 DEF Spent

\* A device gets one CNXN in a session, and one more for each failure on its
\* connection and each holder that went away.
THEOREM DeviceSeesOneConnection == Spec => []OneConnection
  BY KeptByInv, Invariant, PTL

\* Whatever a stream request sends or receives goes over the device's present
\* connection, although tokens outlive the connection of their stream.
THEOREM StreamsStayOnTheirConnection == Spec => []StreamsOfThisConnection
<1>1. Inv => StreamsOfThisConnection
  BY DEF Inv
<1> QED BY <1>1, Invariant, PTL

\* A request that names an attached device does not fail twice in a row unless
\* the device was at fault.
THEOREM NamedRequestRecovers == Spec => []NamedRetryWorks
<1>1. Inv => NamedRetryWorks
  BY DEF Inv, Replugged, NamedRetryWorks, Attached
<1> QED BY <1>1, Invariant, PTL

-----------------------------------------------------------------------------
(* The handshake.  While no answer comes late, host and device take turns:  *)
(* one message is under way, in one direction, or the user is being asked.  *)
(* All that can lie before the device's answer is a write of a stream of    *)
(* the connection before.                                                   *)

Hello(cmd) == Handshake!Msg(cmd, 0)
Left == {<<>>, <<Hello("WRTE")>>}

\* toDevice, toHost and device, wherever the host is.
Turns ==
  /\ pc = "idle" => toDevice = <<>> /\ toHost \in Left
  /\ pc = "cnxn" =>
       \/ toDevice = <<Hello("CNXN")>> /\ toHost \in Left
       \/ /\ toDevice = <<>> /\ device = "auth"
          /\ \/ toHost = <<Handshake!Msg("AUTH", token)>>
             \/ toHost = <<Hello("WRTE"), Handshake!Msg("AUTH", token)>>
  /\ pc = "signature" =>
       \/ toDevice = <<Handshake!Msg("SIGNATURE", token)>> /\ toHost = <<>> /\ device = "auth"
       \/ toDevice = <<>> /\ toHost = <<Handshake!Msg("AUTH", token)>> /\ device = "auth" /\ ~authorized
       \/ toDevice = <<>> /\ toHost = <<Hello("CNXN")>> /\ device = "online"
  /\ pc = "key" =>
       \/ toDevice = <<Hello("KEY")>> /\ toHost = <<>> /\ device = "auth" /\ ~authorized
       \/ toDevice = <<>> /\ toHost = <<>> /\ device = "asking"
       \/ toDevice = <<>> /\ toHost = <<Hello("CNXN")>> /\ device = "online"
  /\ pc = "connected" => toDevice = <<>> /\ toHost = <<>> /\ device = "online"
  /\ pc = "open" =>
       /\ device = "online"
       /\ \/ toDevice = <<Hello("OPEN")>> /\ toHost = <<>>
          \/ toDevice = <<>> /\ toHost = <<Hello("OKAY")>>
  /\ pc = "working" => toDevice = <<>> /\ toHost \in Left /\ device = "online"
  /\ device = "asking" => pc = "key" /\ ~authorized

HostMail == [cmd : {"CNXN", "AUTH", "OKAY", "WRTE"}, token : 0 .. MaxTokens]
DeviceMail == [cmd : {"CNXN", "SIGNATURE", "KEY", "OPEN"}, token : 0 .. MaxTokens]

HandshakeTypes ==
  /\ toHost \in Seq(HostMail) /\ toDevice \in Seq(DeviceMail)
  /\ pc \in {"idle", "cnxn", "signature", "key", "connected", "open", "working"}
  /\ device \in {"offline", "auth", "asking", "online"}
  /\ token \in 0 .. MaxTokens /\ authorized \in BOOLEAN /\ slow \in 0 .. MaxSlow

HandshakeInv == HandshakeTypes /\ (slow = 0 => Turns)

LEMMA HandshakeBounds == MaxSlow \in Nat /\ MaxTokens \in Nat
  BY HolderAssumption

LEMMA HandshakeStart == Handshake!Init => HandshakeInv
<1> SUFFICES ASSUME Handshake!Init PROVE HandshakeInv
  OBVIOUS
<1>1. HandshakeTypes
  BY HandshakeBounds DEF Handshake!Init, HandshakeTypes
<1>2. Turns
  BY DEF Handshake!Init, Turns, Left
<1> QED BY <1>1, <1>2 DEF HandshakeInv

LEMMA HandshakeTyped == HandshakeInv => Handshake!TypeOK
<1> SUFFICES ASSUME HandshakeTypes PROVE Handshake!TypeOK
  BY DEF HandshakeInv
<1>1. \A i \in 1 .. Len(toHost) : toHost[i].cmd \in {"CNXN", "AUTH", "OKAY", "WRTE"}
  <2>1. \A i \in 1 .. Len(toHost) : toHost[i] \in HostMail
    BY DEF HandshakeTypes
  <2> QED BY <2>1 DEF HostMail
<1>2. \A i \in 1 .. Len(toDevice) : toDevice[i].cmd \in {"CNXN", "SIGNATURE", "KEY", "OPEN"}
  <2>1. \A i \in 1 .. Len(toDevice) : toDevice[i] \in DeviceMail
    BY DEF HandshakeTypes
  <2> QED BY <2>1 DEF DeviceMail
<1> QED BY <1>1, <1>2 DEF HandshakeTypes, Handshake!TypeOK, Handshake!Mail

\* The messages sent are of their kinds.
LEMMA Sent ==
  ASSUME HandshakeTypes, NEW t \in 0 .. MaxTokens
  PROVE /\ \A cmd \in {"CNXN", "AUTH", "OKAY", "WRTE"} : Handshake!Msg(cmd, t) \in HostMail
        /\ \A cmd \in {"CNXN", "SIGNATURE", "KEY", "OPEN"} : Handshake!Msg(cmd, t) \in DeviceMail
        /\ \A cmd : Handshake!Msg(cmd, t).cmd = cmd /\ Handshake!Msg(cmd, t).token = t
  BY DEF Handshake!Msg, HostMail, DeviceMail

LEMMA HandshakeTypesStep ==
  ASSUME HandshakeTypes, Handshake!Next
  PROVE HandshakeTypes'
<1> USE DEF HandshakeTypes
<1>1. 0 \in 0 .. MaxTokens
  BY HandshakeBounds
<1>2. ASSUME NEW m \in DeviceMail, Handshake!Send(m) PROVE toDevice' \in Seq(DeviceMail)
  BY <1>2 DEF Handshake!Send
<1>3. toHost # <<>> => Tail(toHost) \in Seq(HostMail) /\ Head(toHost) \in HostMail
  OBVIOUS
<1>4. toHost # <<>> => Head(toHost).token \in 0 .. MaxTokens
  BY <1>3 DEF HostMail
<1>5. CASE Handshake!Connect
  <2>1. toDevice' \in Seq(DeviceMail)
    BY <1>1, <1>2, <1>5, Sent DEF Handshake!Connect
  <2> QED BY <1>5, <2>1 DEF Handshake!Connect
<1>6. CASE Handshake!Skip
  BY <1>3, <1>6 DEF Handshake!Skip, Handshake!Arrived
<1>7. CASE Handshake!Accepted
  BY <1>3, <1>7 DEF Handshake!Accepted, Handshake!Arrived
<1>8. CASE Handshake!SignToken
  <2>1. toDevice' \in Seq(DeviceMail)
    BY <1>2, <1>4, <1>8, Sent DEF Handshake!SignToken, Handshake!Arrived, Handshake!First
  <2> QED BY <1>3, <1>8, <2>1 DEF Handshake!SignToken, Handshake!Arrived
<1>9. CASE Handshake!SendKey
  <2>1. toDevice' \in Seq(DeviceMail)
    BY <1>1, <1>2, <1>9, Sent DEF Handshake!SendKey
  <2> QED BY <1>3, <1>9, <2>1 DEF Handshake!SendKey, Handshake!Arrived
<1>10. CASE Handshake!OpenStream
  <2>1. toDevice' \in Seq(DeviceMail)
    BY <1>1, <1>2, <1>10, Sent DEF Handshake!OpenStream
  <2> QED BY <1>10, <2>1 DEF Handshake!OpenStream
<1>11. CASE Handshake!StreamReply
  BY <1>3, <1>11 DEF Handshake!StreamReply, Handshake!Arrived
<1>12. CASE Handshake!Drop
  BY <1>12 DEF Handshake!Drop
<1>13. CASE Handshake!TimesOut
  BY <1>13, HandshakeBounds DEF Handshake!TimesOut
<1>14. Handshake!ComeOnline => device' \in {"offline", "auth", "asking", "online"} /\ toHost' \in Seq(HostMail)
                                /\ token' = token
  BY <1>1, Sent DEF Handshake!ComeOnline
<1>15. Handshake!AskForSignature => device' \in {"offline", "auth", "asking", "online"} /\ toHost' \in Seq(HostMail)
                                     /\ token' \in 0 .. MaxTokens
  <2> SUFFICES ASSUME NEW t \in Handshake!Nonces, token' = t, device' = "auth",
                      toHost' = Append(toHost, Handshake!Msg("AUTH", t))
               PROVE device' \in {"offline", "auth", "asking", "online"} /\ toHost' \in Seq(HostMail)
                     /\ token' \in 0 .. MaxTokens
    BY DEF Handshake!AskForSignature
  <2>1. t \in 0 .. MaxTokens
    BY HandshakeBounds DEF Handshake!Nonces
  <2> QED BY <2>1, Sent
<1>16. CASE Handshake!DeviceReceives
  <2>1. /\ toDevice # <<>> /\ toDevice' = Tail(toDevice) /\ UNCHANGED <<pc, authorized, slow>>
        /\ \/ Handshake!AskForSignature
           \/ Handshake!ComeOnline
           \/ device' = "asking" /\ UNCHANGED <<token, toHost>>
           \/ toHost' = Append(toHost, Hello("OKAY")) /\ UNCHANGED <<device, token>>
           \/ UNCHANGED <<device, token, toHost>>
    BY <1>16, Zenon DEF Handshake!DeviceReceives, Hello
  <2>2. toDevice' \in Seq(DeviceMail)
    BY <2>1
  <2>3. Append(toHost, Hello("OKAY")) \in Seq(HostMail)
    BY <1>1, Sent DEF Hello
  <2> QED BY <1>14, <1>15, <2>1, <2>2, <2>3
<1>17. CASE Handshake!ServiceWrites
  <2>1. Handshake!Msg("WRTE", 0) \in HostMail
    BY <1>1, Sent
  <2> QED BY <1>17, <2>1 DEF Handshake!ServiceWrites
<1>18. CASE Handshake!UserAllows
  BY <1>14, <1>18 DEF Handshake!UserAllows
<1> QED BY <1>5, <1>6, <1>7, <1>8, <1>9, <1>10, <1>11, <1>12, <1>13, <1>16, <1>17, <1>18
    DEF Handshake!Next, Handshake!HostStep, Handshake!DeviceStep

LEMMA OneMessage ==
  ASSUME NEW m
  PROVE <<m>> # <<>> /\ Head(<<m>>) = m /\ Tail(<<m>>) = <<>> /\ Append(<<>>, m) = <<m>>
OBVIOUS

LEMMA TwoMessages ==
  ASSUME NEW m, NEW n
  PROVE <<m, n>> # <<>> /\ Head(<<m, n>>) = m /\ Tail(<<m, n>>) = <<n>> /\ Append(<<m>>, n) = <<m, n>>
<1>1. <<m, n>> # <<>> /\ Head(<<m, n>>) = m
  OBVIOUS
<1>2. Tail(<<m, n>>) = <<n>>
  OBVIOUS
<1>3. Append(<<m>>, n) = <<m, n>>
  <2> DEFINE s == Append(<<m>>, n)
  <2>1. <<m>> \in Seq({m, n}) /\ Len(<<m>>) = 1 /\ <<m>>[1] = m
    OBVIOUS
  <2>2. s \in Seq({m, n}) /\ Len(s) = 2 /\ s[1] = m /\ s[2] = n
    BY <2>1, AppendProperties
  <2>3. <<m, n>> \in Seq({m, n}) /\ Len(<<m, n>>) = 2
    OBVIOUS
  <2> HIDE DEF s
  <2>4. s = <<m, n>>
    BY <2>2, <2>3, SeqEqual
  <2> QED BY <2>4 DEF s
<1> QED BY <1>1, <1>2, <1>3

\* A message's command and token.
LEMMA Fields ==
  ASSUME NEW c, NEW t
  PROVE Handshake!Msg(c, t).cmd = c /\ Handshake!Msg(c, t).token = t /\ Hello(c).cmd = c
  BY DEF Handshake!Msg, Hello

\* The turns of the two sides, a step at a time.
LEMMA TurnsStep ==
  ASSUME HandshakeTypes, Turns, slow = 0, slow' = 0, Handshake!Next
  PROVE Turns'
<1>1. pc \in {"idle", "cnxn", "signature", "key", "connected", "open", "working"}
  BY DEF HandshakeTypes
<1>2. \A m : Hello(m) = Handshake!Msg(m, 0)
  BY DEF Hello
<1>3. \A q \in Left : q = <<>> \/ q = <<Hello("WRTE")>>
  BY DEF Left
<1>4. CASE Handshake!Connect
  <2>1. pc = "idle" /\ pc' = "cnxn" /\ toDevice' = Append(toDevice, Hello("CNXN"))
        /\ UNCHANGED <<toHost, device, token, authorized>>
    BY <1>4 DEF Handshake!Connect, Handshake!Send, Hello
  <2>2. toDevice' = <<Hello("CNXN")>> /\ toHost' \in Left /\ device' # "asking"
    BY <2>1, OneMessage DEF Turns
  <2> QED BY <2>1, <2>2 DEF Turns
<1>5. CASE Handshake!Skip
  <2>1. /\ pc \in {"cnxn", "signature", "key"} /\ toHost # <<>> /\ toHost' = Tail(toHost)
        /\ Head(toHost).cmd \notin (IF pc = "key" THEN {"CNXN"} ELSE {"CNXN", "AUTH"})
        /\ UNCHANGED <<pc, toDevice, device, token, authorized>>
    BY <1>5 DEF Handshake!Skip, Handshake!Arrived, Handshake!First
  <2>2. CASE pc = "cnxn"
    <3>1. CASE toDevice = <<Hello("CNXN")>> /\ toHost \in Left
      <4>1. toHost' = <<>>
        BY <1>3, <2>1, <3>1, OneMessage
      <4> QED BY <2>1, <2>2, <3>1, <4>1 DEF Turns, Left
    <3>2. CASE toDevice = <<>> /\ device = "auth" /\ toHost = <<Handshake!Msg("AUTH", token)>>
      BY <2>1, <2>2, <3>2, OneMessage, Fields
    <3>3. CASE /\ toDevice = <<>> /\ device = "auth"
               /\ toHost = <<Hello("WRTE"), Handshake!Msg("AUTH", token)>>
      <4>1. toHost' = <<Handshake!Msg("AUTH", token)>>
        BY <2>1, <3>3, TwoMessages
      <4> QED BY <2>1, <2>2, <3>3, <4>1 DEF Turns
    <3> QED BY <2>2, <3>1, <3>2, <3>3 DEF Turns
  <2>3. CASE pc = "signature"
    BY <2>1, <2>3, OneMessage, Fields DEF Turns
  <2>4. CASE pc = "key"
    BY <2>1, <2>4, OneMessage, Fields DEF Turns
  <2> QED BY <2>1, <2>2, <2>3, <2>4
<1>6. CASE Handshake!Accepted
  <2>1. /\ pc \in {"cnxn", "signature", "key"} /\ toHost # <<>> /\ toHost' = Tail(toHost)
        /\ Head(toHost).cmd = "CNXN" /\ pc' = "connected"
        /\ UNCHANGED <<toDevice, device, token, authorized>>
    BY <1>6 DEF Handshake!Accepted, Handshake!Arrived, Handshake!First
  <2>2. toDevice = <<>> /\ toHost' = <<>> /\ device = "online"
    <3>1. CASE pc = "cnxn"
      BY <1>3, <2>1, <3>1, OneMessage, TwoMessages, Fields DEF Turns
    <3>2. CASE pc = "signature"
      BY <2>1, <3>2, OneMessage, Fields DEF Turns
    <3>3. CASE pc = "key"
      BY <2>1, <3>3, OneMessage, Fields DEF Turns
    <3> QED BY <2>1, <3>1, <3>2, <3>3
  <2> QED BY <2>1, <2>2 DEF Turns
<1>7. CASE Handshake!SignToken
  <2>1. /\ pc = "cnxn" /\ toHost # <<>> /\ toHost' = Tail(toHost) /\ Head(toHost).cmd = "AUTH"
        /\ pc' = "signature" /\ toDevice' = Append(toDevice, Handshake!Msg("SIGNATURE", Head(toHost).token))
        /\ UNCHANGED <<device, token, authorized>>
    BY <1>7 DEF Handshake!SignToken, Handshake!Arrived, Handshake!First, Handshake!Send
  <2>2. toDevice = <<>> /\ device = "auth" /\ toHost = <<Handshake!Msg("AUTH", token)>>
    BY <1>3, <2>1, OneMessage, TwoMessages, Fields DEF Turns
  <2>3. toDevice' = <<Handshake!Msg("SIGNATURE", token)>> /\ toHost' = <<>>
    BY <2>1, <2>2, OneMessage, Fields
  <2> QED BY <2>1, <2>2, <2>3 DEF Turns
<1>8. CASE Handshake!SendKey
  <2>1. /\ pc = "signature" /\ toHost # <<>> /\ toHost' = Tail(toHost) /\ Head(toHost).cmd = "AUTH"
        /\ pc' = "key" /\ toDevice' = Append(toDevice, Hello("KEY"))
        /\ UNCHANGED <<device, token, authorized>>
    BY <1>8 DEF Handshake!SendKey, Handshake!Arrived, Handshake!First, Handshake!Send, Hello
  <2>2. toDevice = <<>> /\ device = "auth" /\ ~authorized /\ toHost' = <<>>
    BY <2>1, OneMessage, Fields DEF Turns
  <2>3. toDevice' = <<Hello("KEY")>>
    BY <2>1, <2>2, OneMessage
  <2> QED BY <2>1, <2>2, <2>3 DEF Turns
<1>9. CASE Handshake!OpenStream
  <2>1. /\ pc = "connected" /\ pc' = "open" /\ toDevice' = Append(toDevice, Hello("OPEN"))
        /\ UNCHANGED <<toHost, device, token, authorized>>
    BY <1>9 DEF Handshake!OpenStream, Handshake!Send, Hello
  <2>2. toDevice' = <<Hello("OPEN")>> /\ toHost' = <<>> /\ device' = "online"
    BY <2>1, OneMessage DEF Turns
  <2> QED BY <2>1, <2>2 DEF Turns
<1>10. CASE Handshake!StreamReply
  <2>1. /\ pc = "open" /\ toHost # <<>> /\ toHost' = Tail(toHost)
        /\ Head(toHost).cmd = "OKAY" => pc' = "working"
        /\ UNCHANGED <<toDevice, device, token, authorized>>
    BY <1>10 DEF Handshake!StreamReply, Handshake!Arrived, Handshake!First
  <2>2. toHost = <<Hello("OKAY")>> /\ toDevice = <<>> /\ device = "online"
    BY <2>1 DEF Turns
  <2>3. toHost' = <<>> /\ pc' = "working"
    BY <2>1, <2>2, OneMessage, Fields
  <2> QED BY <2>1, <2>2, <2>3 DEF Turns, Left
<1>11. CASE Handshake!Drop
  BY <1>11 DEF Handshake!Drop, Turns
<1>12. CASE Handshake!TimesOut
  <2>1. /\ pc \in {"cnxn", "signature", "key", "open"} /\ pc' = "idle"
        /\ toDevice = <<>> /\ toHost = <<>> /\ device # "asking"
    BY <1>12 DEF Handshake!TimesOut, Handshake!Quiet, Handshake!Waiting, Handshake!Arrived
  <2> QED BY <2>1, OneMessage, TwoMessages DEF Turns
<1>13. CASE Handshake!ServiceWrites
  <2>1. /\ pc = "working" /\ toHost' = <<Hello("WRTE")>>
        /\ UNCHANGED <<pc, toDevice, device, token, authorized>>
    BY <1>13 DEF Handshake!ServiceWrites, Hello
  <2> QED BY <2>1 DEF Turns, Left
<1>14. CASE Handshake!UserAllows
  <2>1. /\ device = "asking" /\ device' = "online" /\ toHost' = Append(toHost, Hello("CNXN"))
        /\ UNCHANGED <<pc, toDevice>>
    BY <1>14 DEF Handshake!UserAllows, Handshake!ComeOnline, Hello
  <2>2. pc = "key" /\ toDevice = <<>> /\ toHost = <<>>
    BY <2>1, OneMessage DEF Turns
  <2>3. toHost' = <<Hello("CNXN")>>
    BY <2>1, <2>2, OneMessage
  <2> QED BY <2>1, <2>2, <2>3 DEF Turns
<1>15. CASE Handshake!DeviceReceives
  <2> DEFINE m == Head(toDevice)
             valid == device = "auth" /\ m.token = token /\ authorized
  <2>1. /\ toDevice # <<>> /\ toDevice' = Tail(toDevice) /\ UNCHANGED <<pc, authorized>>
        /\ \/ /\ \/ m.cmd = "CNXN"
                 \/ m.cmd = "SIGNATURE" /\ device # "online" /\ ~valid
              /\ device' = "auth" /\ toHost' = Append(toHost, Handshake!Msg("AUTH", token'))
           \/ /\ m.cmd = "SIGNATURE" /\ valid
              /\ device' = "online" /\ toHost' = Append(toHost, Hello("CNXN"))
           \/ m.cmd = "KEY" /\ device # "online" /\ device' = "asking" /\ UNCHANGED toHost
           \/ m.cmd = "OPEN" /\ device = "online" /\ toHost' = Append(toHost, Hello("OKAY")) /\ UNCHANGED device
           \/ /\ IF m.cmd = "OPEN" THEN device # "online"
                 ELSE m.cmd \in {"SIGNATURE", "KEY"} /\ device = "online"
              /\ UNCHANGED <<device, toHost, token>>
    BY <1>15 DEF Handshake!DeviceReceives, Handshake!AskForSignature, Handshake!ComeOnline, Hello
  <2>2. CASE pc = "cnxn"
    <3>1. toDevice = <<Hello("CNXN")>> /\ toHost \in Left
      BY <2>1, <2>2 DEF Turns
    <3>2. m.cmd = "CNXN" /\ toDevice' = <<>>
      BY <2>1, <3>1, OneMessage, Fields
    <3>3. device' = "auth" /\ toHost' = Append(toHost, Handshake!Msg("AUTH", token'))
      BY <2>1, <3>2
    <3>4. \/ toHost' = <<Handshake!Msg("AUTH", token')>>
          \/ toHost' = <<Hello("WRTE"), Handshake!Msg("AUTH", token')>>
      <4>1. toHost = <<>> \/ toHost = <<Hello("WRTE")>>
        BY <1>3, <3>1
      <4>2. Append(<<>>, Handshake!Msg("AUTH", token')) = <<Handshake!Msg("AUTH", token')>>
        BY OneMessage
      <4>3. Append(<<Hello("WRTE")>>, Handshake!Msg("AUTH", token'))
              = <<Hello("WRTE"), Handshake!Msg("AUTH", token')>>
        BY TwoMessages
      <4> QED BY <3>3, <4>1, <4>2, <4>3
    <3> QED BY <2>1, <2>2, <3>2, <3>3, <3>4 DEF Turns
  <2>3. CASE pc = "signature"
    <3>1. toDevice = <<Handshake!Msg("SIGNATURE", token)>> /\ toHost = <<>> /\ device = "auth"
      BY <2>1, <2>3 DEF Turns
    <3>2. m.cmd = "SIGNATURE" /\ m.token = token /\ toDevice' = <<>>
      BY <2>1, <3>1, OneMessage, Fields
    <3>3. \/ ~authorized /\ device' = "auth" /\ toHost' = <<Handshake!Msg("AUTH", token')>>
          \/ device' = "online" /\ toHost' = <<Hello("CNXN")>>
      BY <2>1, <3>1, <3>2, OneMessage
    <3> QED BY <2>1, <2>3, <3>2, <3>3 DEF Turns
  <2>4. CASE pc = "key"
    <3>1. toDevice = <<Hello("KEY")>> /\ toHost = <<>> /\ device = "auth" /\ ~authorized
      BY <2>1, <2>4 DEF Turns
    <3>2. m.cmd = "KEY" /\ toDevice' = <<>>
      BY <2>1, <3>1, OneMessage, Fields
    <3>3. device' = "asking" /\ toHost' = <<>>
      BY <2>1, <3>1, <3>2
    <3> QED BY <2>1, <2>4, <3>1, <3>2, <3>3 DEF Turns
  <2>5. CASE pc = "open"
    <3>1. toDevice = <<Hello("OPEN")>> /\ toHost = <<>> /\ device = "online"
      BY <2>1, <2>5 DEF Turns
    <3>2. m.cmd = "OPEN" /\ toDevice' = <<>>
      BY <2>1, <3>1, OneMessage, Fields
    <3>3. device' = "online" /\ toHost' = <<Hello("OKAY")>>
      BY <2>1, <3>1, <3>2, OneMessage
    <3> QED BY <2>1, <2>5, <3>2, <3>3 DEF Turns
  <2> QED BY <1>1, <2>1, <2>2, <2>3, <2>4, <2>5 DEF Turns
<1> QED BY <1>4, <1>5, <1>6, <1>7, <1>8, <1>9, <1>10, <1>11, <1>12, <1>13, <1>14, <1>15
    DEF Handshake!Next, Handshake!HostStep, Handshake!DeviceStep

LEMMA HandshakeStep == HandshakeInv /\ [Handshake!Next]_handshake => HandshakeInv'
<1> SUFFICES ASSUME HandshakeInv, [Handshake!Next]_handshake PROVE HandshakeInv'
  OBVIOUS
<1>1. CASE Handshake!Next
  <2>1. HandshakeTypes /\ HandshakeTypes'
    BY <1>1, HandshakeTypesStep DEF HandshakeInv
  <2>2. slow' = slow \/ slow' = slow + 1
    BY <1>1 DEF Handshake!Next, Handshake!HostStep, Handshake!DeviceStep, Handshake!Connect, Handshake!Skip,
      Handshake!Accepted, Handshake!SignToken, Handshake!SendKey, Handshake!OpenStream, Handshake!StreamReply,
      Handshake!Drop, Handshake!TimesOut, Handshake!DeviceReceives, Handshake!UserAllows,
      Handshake!ServiceWrites
  <2>3. slow' = 0 => slow = 0
    BY <2>1, <2>2, HandshakeBounds DEF HandshakeTypes
  <2>4. slow' = 0 => Turns'
    BY <1>1, <2>1, <2>3, TurnsStep DEF HandshakeInv
  <2> QED BY <2>1, <2>4 DEF HandshakeInv
<1>2. CASE UNCHANGED handshake
  BY <1>2 DEF handshake, HandshakeInv, HandshakeTypes, Turns
<1> QED BY <1>1, <1>2

-----------------------------------------------------------------------------
(* The levels together *)



\* A behaviour of the three levels is one of each.
LEMMA LevelsStart == HolderInit => Init /\ Handshake!Init
  BY DEF HolderInit

LEMMA LevelsStep == [HolderNext]_HolderVars => [Next]_vars /\ [Handshake!Next]_handshake
  BY DEF HolderNext, HolderVars, OfHandshake, OfTransfer

LEMMA HandshakeInvariant == HolderSpec => []HandshakeInv
  BY LevelsStart, LevelsStep, HandshakeStart, HandshakeStep, PTL DEF HolderSpec

\* The holder's tables are sound and its streams only speak over the present
\* connection, also when connecting is taken step by step; the handshake keeps to
\* its types.
THEOREM ConnectionsStayKept == HolderSpec => []ConnectionsAreKept
<1>1. HolderSpec => Spec
  BY LevelsStart, LevelsStep, PTL DEF HolderSpec, Spec
<1>2. Inv /\ HandshakeInv => ConnectionsAreKept
  <2> SUFFICES ASSUME Inv, HandshakeInv PROVE ConnectionsAreKept
    OBVIOUS
  <2>1. TypeOK /\ OneConnection /\ StreamsOfThisConnection
    BY KeptByInv DEF Inv, TypeInv
  <2>2. Handshake!TypeOK
    BY HandshakeTyped
  <2> QED BY <2>1, <2>2 DEF ConnectionsAreKept
<1> QED BY <1>1, <1>2, Invariant, HandshakeInvariant, PTL

\* While no answer comes late, a connection that Connect returns is one the device
\* has accepted, with nothing left in the pipe, and the user is asked only about a
\* key the device does not know.
THEOREM ConnectsPromptly == HolderSpec => []PromptConnect
<1>1. HandshakeInv => PromptConnect
  <2> SUFFICES ASSUME Turns, slow = 0
               PROVE /\ pc = "connected" => device = "online" /\ toDevice = <<>>
                     /\ device = "asking" => ~authorized
    BY DEF HandshakeInv, PromptConnect, Handshake!PromptConnect
  <2> QED BY DEF Turns
<1> QED BY <1>1, HandshakeInvariant, PTL
=============================================================================
