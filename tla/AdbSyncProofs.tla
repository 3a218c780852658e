---------------------------- MODULE AdbSyncProofs ---------------------------
(***************************************************************************)
(* What is proved of the file transfers of AdbSync, for any sizes, chunks  *)
(* and bursts and any number of transfers on a connection: a transfer that *)
(* succeeds has moved the whole file and left nothing behind.  What leads  *)
(* there is an account of all that the service has yet to take and the     *)
(* host has yet to read, wherever it is cut into messages.                 *)
(***************************************************************************)
EXTENDS MCAdbHolder, SequenceTheorems, WellFoundedInduction, TLAPS

-----------------------------------------------------------------------------
(* Sequences of units *)

\* What a unit may be: a packet's id (or a reason), a length, a piece of a file.
Word == {"SEND", "DATA", "DONE", "RECV", "QUIT", "OKAY", "FAIL", "reason"}
Datum == Word \cup Nat \cup (Nat \X Nat)

\* A sequence is its first n elements and the rest.
LEMMA SplitAt ==
  ASSUME NEW S, NEW s \in Seq(S), NEW n \in 0..Len(s)
  PROVE  /\ SubSeq(s, 1, n) \in Seq(S) /\ SubSeq(s, n + 1, Len(s)) \in Seq(S)
         /\ SubSeq(s, 1, n) \o SubSeq(s, n + 1, Len(s)) = s
<1> DEFINE one == 1
           all == Len(s)
<1>1. all \in Nat
  BY LenProperties
<1>2. SubSeq(s, 1, n) \in Seq(S) /\ SubSeq(s, n + 1, Len(s)) \in Seq(S)
  BY <1>1
<1>3. one \in 1..(Len(s) + 1) /\ n \in (one - 1)..Len(s) /\ all \in n..Len(s)
  BY <1>1
<1> HIDE DEF one, all
<1>4. SubSeq(s, one, n) \o SubSeq(s, n + 1, all) = SubSeq(s, one, all)
  BY <1>3, ConcatAdjacentSubSeq
<1> QED BY <1>2, <1>4, SubSeqFull DEF one, all

\* What is behind the first n elements.
Behind(s, n) == SubSeq(s, n + 1, Len(s))

\* Two sequences that read the same: what the first part of one holds is taken
\* from the other, and what follows stays.
LEMMA TakeFront ==
  ASSUME NEW S, NEW s \in Seq(S), NEW z \in Seq(S), NEW p \in Seq(S), NEW y \in Seq(S),
         s \o z = p \o y, Len(p) <= Len(s)
  PROVE  SubSeq(s, 1, Len(p)) = p /\ Behind(s, Len(p)) \o z = y
<1> DEFINE n == Len(p)
           f == SubSeq(s, 1, n)
           r == SubSeq(s, n + 1, Len(s))
<1>1. n \in Nat /\ Len(s) \in Nat
  BY LenProperties
<1>2. /\ f \in Seq(S) /\ Len(f) = n /\ \A i \in 1..n : f[i] = s[i]
      /\ r \in Seq(S)
  BY <1>1
<1>3. s = f \o r
  <2>1. n \in 0..Len(s)
    BY <1>1
  <2> HIDE DEF n
  <2> QED BY <2>1, SplitAt
<1>4. f = p
  <2>1. \A i \in 1..n : f[i] = p[i]
    <3> SUFFICES ASSUME NEW i \in 1..n PROVE f[i] = p[i]
      OBVIOUS
    <3>1. i \in 1..(Len(s) + Len(z)) /\ i \in 1..(Len(p) + Len(y)) /\ i <= Len(s) /\ i <= Len(p)
      BY <1>1, LenProperties
    <3>2. (s \o z)[i] = s[i] /\ (p \o y)[i] = p[i]
      BY <3>1, ConcatProperties
    <3> QED BY <1>2, <3>2
  <2> QED BY <1>2, <2>1, SeqEqual
<1> HIDE DEF f, r
<1>5. p \o (r \o z) = p \o y
  <2>1. (f \o r) \o z = f \o (r \o z)
    BY <1>2, ConcatAssociative
  <2> QED BY <1>3, <1>4, <2>1
<1>6. r \o z \in Seq(S)
  BY <1>2, ConcatProperties
<1>7. r \o z = y
  BY <1>5, <1>6, ConcatSimplifications
<1> QED BY <1>4, <1>7 DEF Behind, f, r

\* The pieces of a file from one to another.
LEMMA UnitsShape ==
  ASSUME NEW id \in Nat, NEW a \in Nat, NEW b \in Nat, a <= b
  PROVE  /\ Transfer!Units(id, a + 1, b) \in Seq(Datum)
         /\ Len(Transfer!Units(id, a + 1, b)) = b - a
         /\ \A i \in 1..(b - a) : Transfer!Units(id, a + 1, b)[i] = <<id, a + i>>
<1> DEFINE n == b - a
           u == [i \in 1..n |-> <<id, a + i>>]
<1>1. n \in Nat /\ b - (a + 1) + 1 = n
  OBVIOUS
<1>2. \A i \in 1..n : a + 1 + i - 1 = a + i
  OBVIOUS
<1>3. Transfer!Units(id, a + 1, b) = [i \in 1..n |-> <<id, a + 1 + i - 1>>]
  BY <1>1 DEF Transfer!Units
<1>4. Transfer!Units(id, a + 1, b) = u
  BY <1>2, <1>3
<1>5. \A i \in 1..n : <<id, a + i>> \in Datum
  BY DEF Datum
<1>6. u \in Seq(Datum) /\ Len(u) = n
  BY <1>1, <1>5
<1> QED BY <1>4, <1>6

\* The units behind the first a ones, as far as the b-th.
Part(id, a, b) == Transfer!Units(id, a + 1, b)

LEMMA UnitsJoin ==
  ASSUME NEW id \in Nat, NEW a \in Nat, NEW b \in Nat, NEW c \in Nat, a <= b, b <= c
  PROVE  Part(id, a, b) \o Part(id, b, c) = Part(id, a, c)
<1> DEFINE u == Transfer!Units(id, a + 1, b)
           v == Transfer!Units(id, b + 1, c)
           w == Transfer!Units(id, a + 1, c)
<1>1. u \in Seq(Datum) /\ Len(u) = b - a /\ \A i \in 1..(b - a) : u[i] = <<id, a + i>>
  BY UnitsShape
<1>2. v \in Seq(Datum) /\ Len(v) = c - b /\ \A i \in 1..(c - b) : v[i] = <<id, b + i>>
  BY UnitsShape
<1>3. w \in Seq(Datum) /\ Len(w) = c - a /\ \A i \in 1..(c - a) : w[i] = <<id, a + i>>
  <2>1. a <= c
    OBVIOUS
  <2> QED BY <2>1, UnitsShape
<1> HIDE DEF u, v, w
<1>4. /\ u \o v \in Seq(Datum) /\ Len(u \o v) = Len(u) + Len(v)
      /\ \A i \in 1..(Len(u) + Len(v)) : (u \o v)[i] = IF i <= Len(u) THEN u[i] ELSE v[i - Len(u)]
  BY <1>1, <1>2, ConcatProperties
<1>5. Len(u \o v) = c - a
  BY <1>1, <1>2, <1>4
<1>6. ASSUME NEW i \in 1..(c - a) PROVE (u \o v)[i] = w[i]
  <2>1. (u \o v)[i] = IF i <= b - a THEN u[i] ELSE v[i - (b - a)]
    BY <1>1, <1>2, <1>4
  <2>2. CASE i <= b - a
    <3>1. i \in 1..(b - a)
      BY <2>2
    <3>2. u[i] = <<id, a + i>>
      BY <1>1, <3>1
    <3>3. w[i] = <<id, a + i>>
      BY <1>3
    <3> QED BY <2>1, <2>2, <3>2, <3>3
  <2>3. CASE ~(i <= b - a)
    <3>1. i - (b - a) \in 1..(c - b) /\ b + (i - (b - a)) = a + i
      BY <2>3
    <3> QED BY <1>2, <1>3, <2>1, <2>3, <3>1
  <2> QED BY <2>2, <2>3
<1>7. \A i \in 1..Len(u \o v) : (u \o v)[i] = w[i]
  BY <1>5, <1>6
<1>8. Len(u \o v) = Len(w)
  BY <1>3, <1>5
<1>9. u \o v = w
  BY <1>3, <1>4, <1>7, <1>8, SeqEqual
<1> QED BY <1>9 DEF Part, u, v, w

LEMMA MoreUnits ==
  ASSUME NEW id \in Nat, NEW b \in Nat, NEW c \in Nat, b <= c
  PROVE  Transfer!Units(id, 1, b) \o Part(id, b, c) = Transfer!Units(id, 1, c)
<1> DEFINE zero == 0
<1>1. zero \in Nat /\ zero <= b
  OBVIOUS
<1>2. Part(id, zero, b) = Transfer!Units(id, 1, b) /\ Part(id, zero, c) = Transfer!Units(id, 1, c)
  BY DEF Part
<1> HIDE DEF zero
<1>3. Part(id, zero, b) \o Part(id, b, c) = Part(id, zero, c)
  BY <1>1, UnitsJoin
<1> QED BY <1>2, <1>3

LEMMA NoUnits ==
  ASSUME NEW id \in Nat, NEW from \in Nat
  PROVE  Transfer!Units(id, from + 1, from) = <<>>
  BY UnitsShape, EmptySeq

LEMMA NoUnitsYet == ASSUME NEW id \in Nat PROVE Transfer!Units(id, 1, 0) = <<>>
<1> DEFINE zero == 0
<1>1. zero \in Nat /\ Transfer!Units(id, 1, 0) = Transfer!Units(id, zero + 1, zero)
  OBVIOUS
<1> HIDE DEF zero
<1> QED BY <1>1, NoUnits

-----------------------------------------------------------------------------
(* The packets of a file *)

\* How many units the DATA packet holds that begins a file's last m units.
Portion(m) == Transfer!Least(DataMax, m)

\* What the packets of the last m units are, told from those of fewer.
Packets(id, n, fewer, m) ==
  IF m = 0 THEN <<>>
  ELSE Transfer!Header("DATA", Portion(m)) \o Transfer!Units(id, n - m + 1, n - m + Portion(m))
         \o fewer[m - Portion(m)]

LEMMA TransferBounds == MaxSize \in Nat /\ MaxOps \in Nat /\ DataMax \in Nat \ {0} /\ Burst \in Nat \ {0}
  BY HolderAssumption

LEMMA PortionIs == ASSUME NEW m \in Nat \ {0} PROVE Portion(m) \in 1..m
  BY TransferBounds DEF Portion, Transfer!Least

LEMMA LeastNatural ==
  ASSUME NEW T, T \subseteq Nat, T # {}
  PROVE \E i \in T : \A j \in T : i <= j
<1>1. PICK i \in T : \A j \in T : ~(<<j, i>> \in OpToRel(<, Nat))
  BY NatLessThanWellFounded, WFMin
<1>2. ASSUME NEW j \in T PROVE i <= j
  <2>1. i \in Nat /\ j \in Nat
    OBVIOUS
  <2>2. j < i => <<j, i>> \in OpToRel(<, Nat)
    BY <2>1 DEF OpToRel
  <2>3. ~(j < i)
    BY <1>1, <2>2, Zenon
  <2> QED BY <2>1, <2>3
<1> QED BY <1>2

\* The packets of a file are well defined, the last units first.
LEMMA ChunksUnfold ==
  ASSUME NEW id \in Nat, NEW n \in Nat
  PROVE Transfer!Chunks(id, n) = [m \in 0..n |-> Packets(id, n, Transfer!Chunks(id, n), m)]
<1> DEFINE Is(f, b) == f = [m \in 0..b |-> Packets(id, n, f, m)]
           Missing == {b \in Nat : ~(\E f : Is(f, b))}
<1>1. Missing = {}
  <2> SUFFICES ASSUME Missing # {} PROVE FALSE
    OBVIOUS
  <2>1. PICK b \in Missing : \A c \in Missing : b <= c
    <3>1. Missing \subseteq Nat
      OBVIOUS
    <3> HIDE DEF Missing
    <3> QED BY <3>1, LeastNatural
  <2>2. b \in Nat /\ ~(\E f : Is(f, b))
    OBVIOUS
  <2>3. b # 0
    <3> DEFINE f == [m \in 0..0 |-> <<>>]
    <3>1. \A m \in 0..0 : Packets(id, n, f, m) = <<>>
      BY DEF Packets
    <3>2. Is(f, 0)
      BY <3>1
    <3> QED BY <2>2, <3>2
  <2>4. b - 1 \in Nat /\ ~(b <= b - 1)
    BY <2>2, <2>3
  <2>5. b - 1 \notin Missing
    <3> HIDE DEF Missing
    <3> QED BY <2>1, <2>4
  <2>6. PICK f : Is(f, b - 1)
    BY <2>4, <2>5
  <2> DEFINE g == [m \in 0..b |-> IF m = b THEN Packets(id, n, f, b) ELSE f[m]]
  <2>7. \A m \in 0..(b - 1) : g[m] = f[m]
    BY <2>2
  <2> HIDE DEF g
  <2>8. \A m \in 0..b : Packets(id, n, g, m) = Packets(id, n, f, m)
    <3> SUFFICES ASSUME NEW m \in 0..b PROVE Packets(id, n, g, m) = Packets(id, n, f, m)
      OBVIOUS
    <3>1. CASE m = 0
      BY <3>1 DEF Packets
    <3>2. CASE m # 0
      <4>1. Portion(m) \in 1..m
        BY <2>2, <3>2, PortionIs
      <4>2. m - Portion(m) \in 0..(b - 1)
        BY <2>2, <4>1
      <4>3. g[m - Portion(m)] = f[m - Portion(m)]
        BY <2>7, <4>2
      <4> QED BY <3>2, <4>3 DEF Packets
    <3> QED BY <3>1, <3>2
  <2>9. \A m \in 0..b : (IF m = b THEN Packets(id, n, f, b) ELSE f[m]) = Packets(id, n, g, m)
    <3> SUFFICES ASSUME NEW m \in 0..b
                 PROVE (IF m = b THEN Packets(id, n, f, b) ELSE f[m]) = Packets(id, n, g, m)
      OBVIOUS
    <3>1. CASE m = b
      BY <2>8, <3>1
    <3>2. CASE m # b
      <4>1. m \in 0..(b - 1)
        BY <2>2, <3>2
      <4>2. f[m] = Packets(id, n, f, m)
        BY <2>6, <4>1
      <4> QED BY <2>8, <3>2, <4>2
    <3> QED BY <3>1, <3>2
  <2>10. Is(g, b)
    BY <2>9 DEF g
  <2> QED BY <2>2, <2>10
<1>2. \E f : Is(f, n)
  BY <1>1
<1> DEFINE all == CHOOSE f : Is(f, n)
<1>3. Is(all, n)
  BY <1>2
<1>4. Transfer!Chunks(id, n) = all
  BY DEF Transfer!Chunks, Packets, Portion
<1> HIDE DEF all
<1> QED BY <1>3, <1>4

\* Their bytes, and how they begin.
LEMMA ChunksAre ==
  ASSUME NEW id \in Nat, NEW n \in Nat, NEW m \in 0..n
  PROVE  /\ m = 0 => Transfer!Chunks(id, n)[m] = <<>>
         /\ m # 0 => Transfer!Chunks(id, n)[m]
                       = Transfer!Header("DATA", Portion(m)) \o Transfer!Units(id, n - m + 1, n - m + Portion(m))
                           \o Transfer!Chunks(id, n)[m - Portion(m)]
<1> DEFINE c == Transfer!Chunks(id, n)
<1>1. c = [k \in 0..n |-> Packets(id, n, c, k)]
  BY ChunksUnfold
<1> HIDE DEF c
<1>2. c[m] = Packets(id, n, c, m)
  BY <1>1
<1> QED BY <1>2 DEF Packets, c

LEMMA PairShape ==
  ASSUME NEW S, NEW x \in S, NEW y \in S
  PROVE <<x, y>> \in Seq(S) /\ Len(<<x, y>>) = 2 /\ <<x, y>>[1] = x /\ <<x, y>>[2] = y
  OBVIOUS

LEMMA HeaderShape ==
  ASSUME NEW id \in Word, NEW k \in Nat
  PROVE /\ Transfer!Header(id, k) \in Seq(Datum) /\ Len(Transfer!Header(id, k)) = 2
        /\ Transfer!Header(id, k)[1] = id /\ Transfer!Header(id, k)[2] = k
<1> DEFINE x == id
           y == k
<1>1. x \in Datum /\ y \in Datum
  BY DEF Datum
<1>2. Transfer!Header(id, k) = <<x, y>>
  BY DEF Transfer!Header
<1> HIDE DEF x, y
<1>3. <<x, y>> \in Seq(Datum) /\ Len(<<x, y>>) = 2 /\ <<x, y>>[1] = x /\ <<x, y>>[2] = y
  BY <1>1, PairShape
<1>4. /\ Transfer!Header(id, k) \in Seq(Datum) /\ Len(Transfer!Header(id, k)) = 2
      /\ Transfer!Header(id, k)[1] = x /\ Transfer!Header(id, k)[2] = y
  BY <1>2, <1>3
<1> QED BY <1>4 DEF x, y

LEMMA ChunksType ==
  ASSUME NEW id \in Nat, NEW n \in Nat, NEW m \in 0..n
  PROVE  Transfer!Chunks(id, n)[m] \in Seq(Datum)
<1> DEFINE c == Transfer!Chunks(id, n)
           Bad == {k \in 0..n : c[k] \notin Seq(Datum)}
<1> SUFFICES ASSUME Bad # {} PROVE FALSE
  OBVIOUS
<1>1. PICK b \in Bad : \A k \in Bad : b <= k
  <2>1. Bad \subseteq Nat
    OBVIOUS
  <2> HIDE DEF Bad
  <2> QED BY <2>1, LeastNatural
<1>2. b \in 0..n /\ c[b] \notin Seq(Datum)
  OBVIOUS
<1>3. <<>> \in Seq(Datum)
  OBVIOUS
<1>4. b # 0
  BY <1>2, <1>3, ChunksAre
<1>5. Portion(b) \in 1..b
  BY <1>2, <1>4, PortionIs
<1>6. c[b - Portion(b)] \in Seq(Datum)
  <2>1. b - Portion(b) \in 0..n /\ ~(b <= b - Portion(b))
    BY <1>2, <1>5
  <2>2. b - Portion(b) \notin Bad
    <3> HIDE DEF Bad
    <3> QED BY <1>1, <2>1
  <2> QED BY <2>1, <2>2
<1>7. c[b] = Transfer!Header("DATA", Portion(b)) \o Transfer!Units(id, n - b + 1, n - b + Portion(b)) \o c[b - Portion(b)]
  BY <1>2, <1>4, ChunksAre
<1>8. Transfer!Header("DATA", Portion(b)) \in Seq(Datum)
  <2> DEFINE id0 == "DATA"
             k == Portion(b)
  <2>1. k \in Nat
    BY <1>2, <1>5
  <2>2. id0 \in Word
    BY DEF Word
  <2> HIDE DEF id0, k
  <2>3. Transfer!Header(id0, k) \in Seq(Datum)
    BY <2>1, <2>2, HeaderShape
  <2> QED BY <2>3 DEF id0, k
<1>9. Transfer!Units(id, n - b + 1, n - b + Portion(b)) \in Seq(Datum)
  <2>1. n - b \in Nat /\ n - b + Portion(b) \in Nat /\ n - b <= n - b + Portion(b)
    BY <1>2, <1>5
  <2> QED BY <2>1, UnitsShape
<1> HIDE DEF c
<1>10. c[b] \in Seq(Datum)
  BY <1>6, <1>7, <1>8, <1>9, ConcatProperties
<1> QED BY <1>2, <1>10

-----------------------------------------------------------------------------
(* Pipes *)

\* Messages, and those in a pipe.
Mail == [cmd : {"OPEN", "OKAY", "WRTE", "CLSE"}, id : Nat, body : Seq(Datum)]
In(pipe) == {pipe[i] : i \in 1..Len(pipe)}
Fits(m, cmd, id) == m.cmd = cmd /\ m.id = id
\* Of one kind and stream: there is one, and there is at most one.
Has(cmd, id, pipe) == \E m \in In(pipe) : Fits(m, cmd, id)
One(cmd, id, pipe) == \A i, j \in 1..Len(pipe) : Fits(pipe[i], cmd, id) /\ Fits(pipe[j], cmd, id) => i = j

\* What the WRTE of a stream carries; nothing when there is none.
Carries(id, pipe, body) ==
  /\ \A m \in In(pipe) : Fits(m, "WRTE", id) => m.body = body
  /\ ~Has("WRTE", id, pipe) => body = <<>>
Carried(id, pipe) == CHOOSE body : Carries(id, pipe, body)

LEMMA AppendShape ==
  ASSUME NEW S, NEW p \in Seq(S), NEW m \in S
  PROVE  Append(p, m) \in Seq(S) /\ In(Append(p, m)) = In(p) \cup {m}
<1>1. /\ Append(p, m) \in Seq(S) /\ Len(Append(p, m)) = Len(p) + 1
      /\ \A i \in 1..Len(p) : Append(p, m)[i] = p[i]
      /\ Append(p, m)[Len(p) + 1] = m
  BY AppendProperties
<1>2. 1..(Len(p) + 1) = 1..Len(p) \cup {Len(p) + 1}
  BY LenProperties
<1> HIDE DEF In
<1>3. {Append(p, m)[i] : i \in 1..(Len(p) + 1)} = {p[i] : i \in 1..Len(p)} \cup {m}
  BY <1>1, <1>2
<1> QED BY <1>1, <1>3 DEF In

LEMMA TailShape ==
  ASSUME NEW S, NEW p \in Seq(S), p # <<>>
  PROVE  Tail(p) \in Seq(S) /\ Head(p) \in S /\ In(p) = {Head(p)} \cup In(Tail(p))
<1>1. /\ Head(p) \in S /\ Tail(p) \in Seq(S) /\ Len(Tail(p)) = Len(p) - 1
      /\ \A i \in 1..Len(Tail(p)) : Tail(p)[i] = p[i + 1]
      /\ Head(p) = p[1] /\ Len(p) \in Nat \ {0}
  BY HeadTailProperties
<1>2. \A i \in 1..Len(p) : i = 1 \/ (i - 1 \in 1..Len(Tail(p)) /\ p[i] = Tail(p)[i - 1])
  BY <1>1
<1>3. \A i \in 1..Len(Tail(p)) : i + 1 \in 1..Len(p) /\ Tail(p)[i] = p[i + 1]
  BY <1>1
<1>4. 1 \in 1..Len(p)
  BY <1>1
<1>5. \A x : x \in In(p) => x \in {Head(p)} \cup In(Tail(p))
  BY <1>1, <1>2 DEF In
<1>6. \A x : x \in {Head(p)} \cup In(Tail(p)) => x \in In(p)
  BY <1>1, <1>3, <1>4 DEF In
<1> QED BY <1>1, <1>5, <1>6

LEMMA OneAppend ==
  ASSUME NEW S, NEW p \in Seq(S), NEW m \in S, NEW cmd, NEW id, One(cmd, id, p),
         Has(cmd, id, p) => ~Fits(m, cmd, id)
  PROVE  One(cmd, id, Append(p, m))
<1>1. /\ Len(Append(p, m)) = Len(p) + 1 /\ Len(p) \in Nat
      /\ \A i \in 1..Len(p) : Append(p, m)[i] = p[i]
      /\ Append(p, m)[Len(p) + 1] = m
  BY AppendProperties
<1>2. \A i \in 1..Len(p) : Fits(p[i], cmd, id) => Has(cmd, id, p)
  BY DEF Has, In
<1> SUFFICES ASSUME NEW i \in 1..(Len(p) + 1), NEW j \in 1..(Len(p) + 1),
                    Fits(Append(p, m)[i], cmd, id), Fits(Append(p, m)[j], cmd, id)
             PROVE  i = j
  BY <1>1 DEF One
<1>3. CASE i \in 1..Len(p) /\ j \in 1..Len(p)
  BY <1>1, <1>3 DEF One
<1>4. CASE i = Len(p) + 1 /\ j \in 1..Len(p)
  BY <1>1, <1>2, <1>4
<1>5. CASE i \in 1..Len(p) /\ j = Len(p) + 1
  BY <1>1, <1>2, <1>5
<1> QED BY <1>1, <1>3, <1>4, <1>5

LEMMA OneTail ==
  ASSUME NEW S, NEW p \in Seq(S), p # <<>>, NEW cmd, NEW id, One(cmd, id, p)
  PROVE  One(cmd, id, Tail(p)) /\ (Fits(Head(p), cmd, id) => ~Has(cmd, id, Tail(p)))
<1>1. /\ Len(Tail(p)) = Len(p) - 1
      /\ \A i \in 1..Len(Tail(p)) : Tail(p)[i] = p[i + 1]
      /\ Head(p) = p[1] /\ Len(p) \in Nat \ {0}
  BY HeadTailProperties
<1>2. \A i \in 1..Len(Tail(p)) : i + 1 \in 1..Len(p) /\ i \in Nat /\ i + 1 # 1
  BY <1>1
<1>3. One(cmd, id, Tail(p))
  BY <1>1, <1>2 DEF One
<1>4. ASSUME Fits(Head(p), cmd, id), Has(cmd, id, Tail(p)) PROVE FALSE
  <2>1. PICK i \in 1..Len(Tail(p)) : Fits(Tail(p)[i], cmd, id)
    BY <1>4 DEF Has, In
  <2> QED BY <1>1, <1>2, <1>4, <2>1 DEF One
<1> QED BY <1>3, <1>4

LEMMA HasAppend ==
  ASSUME NEW S, NEW p \in Seq(S), NEW m \in S, NEW cmd, NEW id
  PROVE  Has(cmd, id, Append(p, m)) <=> Has(cmd, id, p) \/ Fits(m, cmd, id)
<1>1. In(Append(p, m)) = In(p) \cup {m}
  BY AppendShape
<1> QED BY <1>1 DEF Has

LEMMA HasTail ==
  ASSUME NEW S, NEW p \in Seq(S), p # <<>>, NEW cmd, NEW id
  PROVE  Has(cmd, id, p) <=> Has(cmd, id, Tail(p)) \/ Fits(Head(p), cmd, id)
<1>1. In(p) = {Head(p)} \cup In(Tail(p))
  BY TailShape
<1> QED BY <1>1 DEF Has

LEMMA CarriedIs ==
  ASSUME NEW id, NEW pipe, NEW body, Carries(id, pipe, body)
  PROVE  Carried(id, pipe) = body
<1>1. Carries(id, pipe, Carried(id, pipe))
  BY DEF Carried
<1>2. CASE Has("WRTE", id, pipe)
  BY <1>1, <1>2 DEF Carries, Has
<1>3. CASE ~Has("WRTE", id, pipe)
  BY <1>1, <1>3 DEF Carries
<1> QED BY <1>2, <1>3

LEMMA CarriesIt ==
  ASSUME NEW id, NEW pipe, One("WRTE", id, pipe)
  PROVE  Carries(id, pipe, Carried(id, pipe))
<1>1. \E body : Carries(id, pipe, body)
  <2>1. CASE Has("WRTE", id, pipe)
    <3>1. PICK i \in 1..Len(pipe) : Fits(pipe[i], "WRTE", id)
      BY <2>1 DEF Has, In
    <3>2. \A m \in In(pipe) : Fits(m, "WRTE", id) => m = pipe[i]
      BY <3>1 DEF In, One
    <3>3. \A m \in In(pipe) : Fits(m, "WRTE", id) => m.body = pipe[i].body
      BY <3>2
    <3> QED BY <2>1, <3>3 DEF Carries
  <2>2. CASE ~Has("WRTE", id, pipe)
    <3>1. Carries(id, pipe, <<>>)
      BY <2>2 DEF Carries, Has
    <3> QED BY <3>1
  <2> QED BY <2>1, <2>2
<1> QED BY <1>1 DEF Carried

\* A message that comes last.
LEMMA CarriedAppend ==
  ASSUME NEW S, NEW p \in Seq(S), NEW m \in S, NEW id, One("WRTE", id, p),
         Has("WRTE", id, p) => ~Fits(m, "WRTE", id)
  PROVE  Carried(id, Append(p, m)) = IF Fits(m, "WRTE", id) THEN m.body ELSE Carried(id, p)
<1>1. In(Append(p, m)) = In(p) \cup {m}
  BY AppendShape
<1>2. Carries(id, p, Carried(id, p))
  BY CarriesIt
<1>3. CASE Fits(m, "WRTE", id)
  <2>1. Carries(id, Append(p, m), m.body)
    BY <1>1, <1>3 DEF Carries, Has
  <2> QED BY <1>3, <2>1, CarriedIs
<1>4. CASE ~Fits(m, "WRTE", id)
  <2>1. Carries(id, Append(p, m), Carried(id, p))
    BY <1>1, <1>2, <1>4 DEF Carries, Has
  <2> QED BY <1>4, <2>1, CarriedIs
<1> QED BY <1>3, <1>4

\* The first message is taken.
LEMMA CarriedTail ==
  ASSUME NEW S, NEW p \in Seq(S), p # <<>>, NEW id, One("WRTE", id, p)
  PROVE  /\ Fits(Head(p), "WRTE", id) => Carried(id, p) = Head(p).body /\ Carried(id, Tail(p)) = <<>>
         /\ ~Fits(Head(p), "WRTE", id) => Carried(id, Tail(p)) = Carried(id, p)
<1>1. In(p) = {Head(p)} \cup In(Tail(p))
  BY TailShape
<1>2. Carries(id, p, Carried(id, p))
  BY CarriesIt
<1>3. ASSUME Fits(Head(p), "WRTE", id) PROVE Carried(id, p) = Head(p).body /\ Carried(id, Tail(p)) = <<>>
  <2>1. Carried(id, p) = Head(p).body
    BY <1>1, <1>2, <1>3 DEF Carries
  <2>2. ~Has("WRTE", id, Tail(p))
    BY <1>3, OneTail
  <2>3. Carries(id, Tail(p), <<>>)
    BY <2>2 DEF Carries, Has
  <2> QED BY <2>1, <2>3, CarriedIs
<1>4. ASSUME ~Fits(Head(p), "WRTE", id) PROVE Carried(id, Tail(p)) = Carried(id, p)
  <2>1. Carries(id, Tail(p), Carried(id, p))
    BY <1>1, <1>2, <1>4 DEF Carries, Has
  <2> QED BY <2>1, CarriedIs
<1> QED BY <1>3, <1>4

\* With no WRTE nothing is carried.
LEMMA CarriedNothing ==
  ASSUME NEW id, NEW pipe, ~Has("WRTE", id, pipe)
  PROVE  Carried(id, pipe) = <<>>
<1>1. Carries(id, pipe, <<>>)
  BY DEF Carries, Has
<1> QED BY <1>1, CarriedIs

LEMMA CarriedType ==
  ASSUME NEW id, NEW pipe \in Seq(Mail), One("WRTE", id, pipe)
  PROVE  Carried(id, pipe) \in Seq(Datum)
<1>1. Carries(id, pipe, Carried(id, pipe))
  BY CarriesIt
<1>2. CASE Has("WRTE", id, pipe)
  <2>1. PICK i \in 1..Len(pipe) : Fits(pipe[i], "WRTE", id)
    BY <1>2 DEF Has, In
  <2>2. pipe[i] \in Mail
    BY ElementOfSeq
  <2>3. pipe[i] \in In(pipe)
    BY DEF In
  <2>4. Carried(id, pipe) = pipe[i].body
    BY <1>1, <2>1, <2>3 DEF Carries
  <2> QED BY <2>2, <2>4 DEF Mail
<1>3. CASE ~Has("WRTE", id, pipe)
  BY <1>1, <1>3, EmptySeq DEF Carries
<1> QED BY <1>2, <1>3

-----------------------------------------------------------------------------
(* The invariant of a transfer *)

TransferTypes ==
  /\ op \in Nat /\ kind \in {"push", "pull"} /\ size \in Nat /\ sent \in Nat /\ after # "opening"
  /\ canWrite \in BOOLEAN /\ buffer \in Seq(Datum)
  /\ toService \in Seq(Mail) /\ toPuller \in Seq(Mail)
  /\ devId \in Nat /\ phase \in {"none", "ready", "receive", "drain", "closed"}
  /\ devIn \in Seq(Seq(Datum)) /\ owes \in BOOLEAN /\ devOut \in Seq(Datum) /\ devAwait \in BOOLEAN

\* Streams are numbered as they are opened.
Numbered ==
  /\ devId <= op
  /\ \A m \in In(toPuller) : m.id <= op
  /\ \A m \in In(toService) : m.id <= op

\* A stream that is being opened has neither sent nor received.
FreshStream == at = "opening" => buffer = <<>> /\ canWrite /\ sent = 0 /\ got = <<>>

\* The device has yet to see the OPEN.
Unseen ==
  /\ at = "opening" /\ devId < op
  /\ \A m \in In(toPuller) : m.id # op
  /\ \A m \in In(toService) : m.id = op <=> m.cmd = "OPEN"
  /\ One("OPEN", op, toService)

InTransfer == at \notin {"idle", "dropped"}

\* Where the host is once its packet is acknowledged.
Now == IF at = "await" THEN after ELSE at

\* One packet at a time is on its way or unacknowledged, in either direction.
OneAtATime ==
  /\ One("WRTE", op, toService) /\ One("OKAY", op, toPuller)
  /\ One("WRTE", op, toPuller) /\ One("OKAY", op, toService)
  /\ Has("WRTE", op, toService) => ~owes /\ ~Has("OKAY", op, toPuller)
  /\ owes => ~Has("OKAY", op, toPuller)
  /\ Has("WRTE", op, toService) \/ owes \/ (Has("OKAY", op, toPuller) /\ at # "opening")
       => ~canWrite /\ at # "opening"
  /\ Has("WRTE", op, toPuller) => ~Has("OKAY", op, toService)
  /\ Has("WRTE", op, toPuller) \/ Has("OKAY", op, toService) => devAwait

\* What the host has yet to read: its buffer, a WRTE under way, and what the
\* service has yet to write.
Rest == buffer \o (Carried(op, toPuller) \o devOut)

Done == Transfer!Header("DONE", 0)
Status == Transfer!Header("OKAY", 0)

\* A file is cut short by a failure only.
EndsWith(n, end) == (end = Done /\ n = size) \/ end = Transfer!Failure

\* Of a file of n units, the host has g, and the rest is in chunks.
Reading(rest) ==
  \E n \in 0..size : \E g \in 0..n : \E end \in {Done, Transfer!Failure} :
    /\ EndsWith(n, end) /\ got = Transfer!Units(op, 1, g)
    /\ rest = Transfer!Chunks(op, n)[n - g] \o end
ReadingChunk(rest) ==
  \E n \in 0..size : \E g \in 0..n : \E end \in {Done, Transfer!Failure} :
    /\ EndsWith(n, end) /\ got = Transfer!Units(op, 1, g)
    /\ want \in 1..(n - g)
    /\ rest = Transfer!Units(op, g + 1, g + want) \o (Transfer!Chunks(op, n)[n - g - want] \o end)

\* What is left to read fits where the host is.
Stage(rest) ==
  /\ Now \in (IF kind = "push" THEN {"opening", "request", "data", "status", "reason", "quit", "close"}
              ELSE {"opening", "request", "header", "chunk", "reason", "quit", "close"})
  /\ sent <= size /\ (Now \in {"opening", "request"} => sent = 0)
  /\ Now \in {"opening", "request", "data", "status"} /\ kind = "push" =>
       rest = <<>> \/ (rest = Status /\ stored = Transfer!Content) \/ rest = Transfer!Failure
  /\ Now \in {"opening", "request"} /\ kind = "pull" => rest = <<>> /\ got = <<>>
  /\ Now = "header" => (rest = <<>> /\ got = <<>>) \/ Reading(rest)
  /\ Now = "chunk" => ReadingChunk(rest)
  /\ Now = "reason" => rest = <<"reason">> /\ want = 1
  /\ Now \in {"quit", "close"} =>
       rest = <<>> /\ (IF kind = "push" THEN stored = Transfer!Content ELSE got = Transfer!Content)

\* A packet takes the service from one place in the transfer to another: -1 before
\* the request, x after x units, size + 1 after the last request, size + 2 at the end.
Goes(way, n, id, p, x, y) ==
  \/ way = "push" /\ p = <<"SEND">> /\ x = -1 /\ y = 0
  \/ way = "push" /\ 0 <= x /\ x < y /\ y <= n /\ p = <<"DATA">> \o Transfer!Units(id, x + 1, y)
  \/ way = "push" /\ p = <<"DONE">> /\ x = n /\ y = n + 1
  \/ way = "pull" /\ p = <<"RECV">> /\ x = -1 /\ y = n + 1
  \/ p = <<"QUIT">> /\ x = n + 1 /\ y = n + 2

\* Packets the service has yet to take, in order.
Leads(way, n, id, packets, x, y) ==
  \E place \in [0..Len(packets) -> Int] :
    /\ place[0] = x /\ place[Len(packets)] = y
    /\ \A i \in 0..Len(packets) : place[i] <= y
    /\ \A i \in 1..Len(packets) : Goes(way, n, id, packets[i], place[i - 1], place[i])

\* Where the host's last packet takes the service.
HostAt ==
  IF Now \in {"opening", "request"} THEN -1
  ELSE IF Now = "data" THEN sent
  ELSE IF Now = "close" THEN size + 2 ELSE size + 1

\* Where the service is in the transfer, and what it has done.
Served(x, rest) ==
  \/ /\ x = -1 /\ phase = "ready" /\ rest = <<>> /\ file = <<>> /\ got = <<>>
     /\ Now \in {"opening", "request", "data", "status", "header"}
  \/ /\ x \in 0..size /\ kind = "push" /\ Now \in {"data", "status", "reason"}
     /\ \/ phase = "receive" /\ rest = <<>> /\ file = Transfer!Units(op, 1, x) /\ Now # "reason"
        \/ phase = "drain" /\ (rest = Transfer!Failure \/ Now = "reason")
  \/ x = size + 1 /\ phase = "ready"

\* The packet that is on its way leads to where the host is.
Underway(y) ==
  IF Has("WRTE", op, toService) THEN Goes(kind, size, op, Carried(op, toService), y, HostAt) ELSE y = HostAt

InOrder == \E x \in Int : \E y \in Int : Leads(kind, size, op, devIn, x, y) /\ Served(x, Rest) /\ Underway(y)

Flow == OneAtATime /\ Stage(Rest) /\ (phase # "closed" => InOrder)

\* Once the device has seen the OPEN, this holds as long as the transfer lasts.
NoOpen == \A m \in In(toService) : m.cmd # "OPEN"
Running == devId = op /\ NoOpen /\ (InTransfer => Flow)

TransferInv == TransferTypes /\ Numbered /\ FreshStream /\ (Unseen \/ Running)

-----------------------------------------------------------------------------
(* Packets and messages *)

LEMMA Words ==
  /\ <<"SEND">> \in Seq(Datum) /\ <<"DATA">> \in Seq(Datum) /\ <<"DONE">> \in Seq(Datum)
  /\ <<"RECV">> \in Seq(Datum) /\ <<"QUIT">> \in Seq(Datum) /\ <<"reason">> \in Seq(Datum)
  /\ <<>> \in Seq(Datum)
<1>1. \A w \in Word : <<w>> \in Seq(Datum)
  BY DEF Datum
<1> QED BY <1>1 DEF Word

LEMMA Replies ==
  /\ Done \in Seq(Datum) /\ Len(Done) = 2 /\ Done[1] = "DONE"
  /\ Status \in Seq(Datum) /\ Len(Status) = 2 /\ Status[1] = "OKAY"
<1> DEFINE done == "DONE"
           okay == "OKAY"
           zero == 0
<1>1. done \in Word /\ okay \in Word /\ zero \in Nat
  BY DEF Word
<1>2. Done = Transfer!Header(done, zero) /\ Status = Transfer!Header(okay, zero)
  BY DEF Done, Status
<1> HIDE DEF done, okay, zero
<1>3. /\ Transfer!Header(done, zero) \in Seq(Datum) /\ Len(Transfer!Header(done, zero)) = 2
      /\ Transfer!Header(done, zero)[1] = done
  BY <1>1, HeaderShape
<1>4. /\ Transfer!Header(okay, zero) \in Seq(Datum) /\ Len(Transfer!Header(okay, zero)) = 2
      /\ Transfer!Header(okay, zero)[1] = okay
  BY <1>1, HeaderShape
<1>5. /\ Done \in Seq(Datum) /\ Len(Done) = 2 /\ Done[1] = done
      /\ Status \in Seq(Datum) /\ Len(Status) = 2 /\ Status[1] = okay
  BY <1>2, <1>3, <1>4
<1> QED BY <1>5 DEF done, okay

Fail == Transfer!Header("FAIL", 1)

LEMMA Failures ==
  /\ Fail \in Seq(Datum) /\ Len(Fail) = 2 /\ Fail[1] = "FAIL" /\ Fail[2] = 1
  /\ Transfer!Failure = Fail \o <<"reason">>
  /\ Transfer!Failure \in Seq(Datum)
  /\ Transfer!Failure[1] = "FAIL" /\ Transfer!Failure[2] = 1
<1> DEFINE fail == "FAIL"
           one == 1
<1>1. fail \in Word /\ one \in Nat
  BY DEF Word
<1>2. Fail = Transfer!Header(fail, one)
  BY DEF Fail
<1> HIDE DEF fail, one
<1>3. /\ Transfer!Header(fail, one) \in Seq(Datum) /\ Len(Transfer!Header(fail, one)) = 2
      /\ Transfer!Header(fail, one)[1] = fail /\ Transfer!Header(fail, one)[2] = one
  BY <1>1, HeaderShape
<1>4. Fail \in Seq(Datum) /\ Len(Fail) = 2 /\ Fail[1] = fail /\ Fail[2] = one
  BY <1>2, <1>3
<1>5. Transfer!Failure = Fail \o <<"reason">>
  BY DEF Transfer!Failure, Fail
<1>6. <<"reason">> \in Seq(Datum) /\ Len(<<"reason">>) = 1
  BY Words
<1> DEFINE r == <<"reason">>
<1> HIDE DEF r
<1>7. Fail \o r \in Seq(Datum) /\ (Fail \o r)[1] = Fail[1] /\ (Fail \o r)[2] = Fail[2]
  BY <1>4, <1>6, ConcatProperties DEF r
<1> QED BY <1>4, <1>5, <1>7 DEF r, fail, one

LEMMA Opening ==
  ASSUME NEW id \in Nat, NEW body \in Seq(Datum)
  PROVE /\ Transfer!Msg("OPEN", id, body) \in Mail /\ Transfer!Msg("OPEN", id, body).id = id
        /\ Transfer!Msg("OPEN", id, body).cmd = "OPEN"
  BY DEF Transfer!Msg, Mail
LEMMA Okaying ==
  ASSUME NEW id \in Nat, NEW body \in Seq(Datum)
  PROVE /\ Transfer!Msg("OKAY", id, body) \in Mail /\ Transfer!Msg("OKAY", id, body).id = id
        /\ Transfer!Msg("OKAY", id, body).cmd = "OKAY"
  BY DEF Transfer!Msg, Mail
LEMMA Writing ==
  ASSUME NEW id \in Nat, NEW body \in Seq(Datum)
  PROVE /\ Transfer!Msg("WRTE", id, body) \in Mail /\ Transfer!Msg("WRTE", id, body).id = id
        /\ Transfer!Msg("WRTE", id, body).cmd = "WRTE" /\ Transfer!Msg("WRTE", id, body).body = body
  BY DEF Transfer!Msg, Mail
LEMMA Closing ==
  ASSUME NEW id \in Nat, NEW body \in Seq(Datum)
  PROVE /\ Transfer!Msg("CLSE", id, body) \in Mail /\ Transfer!Msg("CLSE", id, body).id = id
        /\ Transfer!Msg("CLSE", id, body).cmd = "CLSE"
  BY DEF Transfer!Msg, Mail

\* The DATA packet that is sent, and where it takes the host.
LEMMA NextChunk ==
  ASSUME TransferTypes, sent < size
  PROVE  /\ Transfer!ChunkEnd \in Nat /\ sent < Transfer!ChunkEnd /\ Transfer!ChunkEnd <= size
         /\ Transfer!Units(op, sent + 1, Transfer!ChunkEnd) \in Seq(Datum)
         /\ <<"DATA">> \o Transfer!Units(op, sent + 1, Transfer!ChunkEnd) \in Seq(Datum)
<1>1. Transfer!ChunkEnd \in Nat /\ sent < Transfer!ChunkEnd /\ Transfer!ChunkEnd <= size
  BY TransferBounds DEF TransferTypes, Transfer!ChunkEnd, Transfer!Least
<1>2. Transfer!Units(op, sent + 1, Transfer!ChunkEnd) \in Seq(Datum)
  <2>1. op \in Nat /\ sent \in Nat /\ sent <= Transfer!ChunkEnd
    BY <1>1 DEF TransferTypes
  <2> QED BY <1>1, <2>1, UnitsShape
<1> QED BY <1>1, <1>2, Words, ConcatProperties

-----------------------------------------------------------------------------
(* Types *)

\* What the host asks for is a number of units.
LEMMA WantIs ==
  ASSUME TransferInv, at \in {"chunk", "reason"}
  PROVE  want \in Nat
<1>1. Running /\ InTransfer
  BY DEF TransferInv, Unseen, InTransfer
<1>2. Stage(Rest)
  BY <1>1 DEF Running, Flow
<1>3. CASE at = "chunk"
  <2>1. Now = "chunk"
    BY <1>3 DEF Now
  <2>2. ReadingChunk(Rest)
    BY <1>2, <2>1 DEF Stage
  <2>3. PICK n \in 0..size : \E g \in 0..n : want \in 1..(n - g)
    BY <2>2 DEF ReadingChunk
  <2>4. size \in Nat
    BY DEF TransferInv, TransferTypes
  <2>5. \A g \in 0..n : \A w : w \in 1..(n - g) => w \in Nat
    BY <2>4
  <2> QED BY <2>3, <2>5
<1>4. CASE at = "reason"
  <2>1. Now = "reason"
    BY <1>4 DEF Now
  <2> QED BY <1>2, <2>1 DEF Stage
<1> QED BY <1>3, <1>4

\* A part of what arrived is taken.
LEMMA ConsumeType ==
  ASSUME TransferTypes, NEW n \in Nat, Transfer!Consume(n)
  PROVE  buffer' \in Seq(Datum)
<1>1. buffer \in Seq(Datum) /\ buffer' = SubSeq(buffer, n + 1, Len(buffer))
  BY DEF TransferTypes, Transfer!Consume
<1> QED BY <1>1

LEMMA TransferTypesStep ==
  ASSUME TransferInv, Transfer!Next
  PROVE  TransferTypes'
<1> DEFINE Same == UNCHANGED <<op, kind, size>>
<1>1. TransferTypes
  BY DEF TransferInv
<1>2. op \in Nat /\ devId \in Nat /\ size \in Nat /\ <<>> \in Seq(Datum)
  BY <1>1, Words DEF TransferTypes
<1>3. CASE Transfer!Begin
  <2>1. MaxSize \in Nat /\ op + 1 \in Nat
    BY <1>2, TransferBounds
  <2>2. toService' = Append(toService, Transfer!Msg("OPEN", op + 1, <<>>))
    BY <1>3 DEF Transfer!Begin
  <2>3. toService' \in Seq(Mail)
    <3>1. Transfer!Msg("OPEN", op + 1, <<>>) \in Mail
      BY <1>2, <2>1, Opening
    <3> QED BY <1>1, <2>2, <3>1, AppendShape DEF TransferTypes
  <2> QED BY <1>1, <1>2, <1>3, <2>1, <2>3 DEF TransferTypes, Transfer!Begin, Transfer!deviceVars
<1>4. CASE Transfer!IgnoreLate
  <2>1. toPuller' \in Seq(Mail)
    BY <1>1, <1>4, TailShape DEF TransferTypes, Transfer!IgnoreLate
  <2> QED BY <1>1, <1>4, <2>1 DEF TransferTypes, Transfer!IgnoreLate, Transfer!hostVars, Transfer!deviceVars
<1>5. CASE Transfer!OpenReply
  <2>1. toPuller' \in Seq(Mail)
    BY <1>1, <1>5, TailShape DEF TransferTypes, Transfer!OpenReply, Transfer!Mine
  <2> QED BY <1>1, <1>5, <2>1 DEF TransferTypes, Transfer!OpenReply, Transfer!deviceVars
<1>6. ASSUME NEW body \in Seq(Datum), NEW next, Transfer!SendPacket(body, next)
      PROVE  toService' \in Seq(Mail) /\ canWrite' \in BOOLEAN
  <2>1. Transfer!Msg("WRTE", op, body) \in Mail
    BY <1>2, Writing
  <2>2. toService' = Append(toService, Transfer!Msg("WRTE", op, body)) /\ canWrite' = FALSE
    BY <1>6 DEF Transfer!SendPacket
  <2> QED BY <1>1, <2>1, <2>2, AppendShape DEF TransferTypes
<1>7. CASE Transfer!Request
  <2>0. after' # "opening"
    BY <1>7 DEF Transfer!Request, Transfer!SendPacket
  <2>1. toService' \in Seq(Mail) /\ canWrite' \in BOOLEAN
    BY <1>6, <1>7, Words DEF Transfer!Request
  <2> QED BY <2>0, <1>1, <1>7, <2>1 DEF TransferTypes, Transfer!Request, Transfer!deviceVars
<1>8. CASE Transfer!SendData
  <2>0. after' # "opening"
    BY <1>8 DEF Transfer!SendData, Transfer!SendPacket
  <2>1. sent < size
    BY <1>8 DEF Transfer!SendData
  <2>2. sent' \in Nat /\ <<"DATA">> \o Transfer!Units(op, sent + 1, Transfer!ChunkEnd) \in Seq(Datum)
    BY <1>1, <1>8, <2>1, NextChunk DEF Transfer!SendData
  <2>3. toService' \in Seq(Mail) /\ canWrite' \in BOOLEAN
    BY <1>6, <1>8, <2>2 DEF Transfer!SendData
  <2> QED BY <2>0, <1>1, <1>8, <2>2, <2>3 DEF TransferTypes, Transfer!SendData, Transfer!deviceVars
<1>9. CASE Transfer!SendDone
  <2>0. after' # "opening"
    BY <1>9 DEF Transfer!SendDone, Transfer!SendPacket
  <2>1. toService' \in Seq(Mail) /\ canWrite' \in BOOLEAN
    BY <1>6, <1>9, Words DEF Transfer!SendDone
  <2> QED BY <2>0, <1>1, <1>9, <2>1 DEF TransferTypes, Transfer!SendDone, Transfer!deviceVars
<1>10. CASE Transfer!SendQuit
  <2>0. after' # "opening"
    BY <1>10 DEF Transfer!SendQuit, Transfer!SendPacket
  <2>1. toService' \in Seq(Mail) /\ canWrite' \in BOOLEAN
    BY <1>6, <1>10, Words DEF Transfer!SendQuit
  <2> QED BY <2>0, <1>1, <1>10, <2>1 DEF TransferTypes, Transfer!SendQuit, Transfer!deviceVars
<1>11. CASE Transfer!Receive
  <2> DEFINE m == Head(toPuller)
  <2>1. toPuller' \in Seq(Mail) /\ m \in Mail
    BY <1>1, <1>11, TailShape DEF TransferTypes, Transfer!Receive, Transfer!Mine
  <2>2. \/ canWrite' = TRUE /\ UNCHANGED <<buffer, toService>>
        \/ /\ toService' = toService \o <<Transfer!Msg("OKAY", op, <<>>)>> /\ buffer' = buffer \o m.body
           /\ UNCHANGED canWrite
        \/ toService' = Append(toService, Transfer!Msg("CLSE", op, <<>>)) /\ UNCHANGED <<buffer, canWrite>>
    BY <1>11 DEF Transfer!Receive, Transfer!Next1, Transfer!Ack
  <2>3. Transfer!Msg("OKAY", op, <<>>) \in Mail /\ Transfer!Msg("CLSE", op, <<>>) \in Mail
    BY <1>2, Okaying, Closing
  <2>4. m.body \in Seq(Datum)
    BY <2>1 DEF Mail
  <2> HIDE DEF m
  <2>5. buffer' \in Seq(Datum) /\ canWrite' \in BOOLEAN
    BY <1>1, <2>2, <2>4, ConcatProperties DEF TransferTypes
  <2>6. toService' \in Seq(Mail)
    <3> DEFINE okay == Transfer!Msg("OKAY", op, <<>>)
               close == Transfer!Msg("CLSE", op, <<>>)
    <3> HIDE DEF okay, close
    <3>1. Append(toService, okay) \in Seq(Mail) /\ Append(toService, close) \in Seq(Mail)
          /\ toService \in Seq(Mail) /\ toService \o <<okay>> = Append(toService, okay)
      BY <1>1, <2>3, AppendShape, AppendIsConcat DEF TransferTypes, okay, close
    <3> QED BY <2>2, <3>1 DEF okay, close
  <2> QED BY <1>1, <1>11, <2>1, <2>5, <2>6 DEF TransferTypes, Transfer!Receive, Transfer!deviceVars
<1>12. ASSUME Transfer!Drop PROVE toService' \in Seq(Mail)
  <2>1. Transfer!Msg("CLSE", op, <<>>) \in Mail
    BY <1>2, Closing
  <2>2. toService' = Append(toService, Transfer!Msg("CLSE", op, <<>>))
    BY <1>12 DEF Transfer!Drop
  <2> QED BY <1>1, <2>1, <2>2, AppendShape DEF TransferTypes
<1>13. CASE Transfer!ReadHeader
  <2>1. Transfer!Consume(2)
    BY <1>13 DEF Transfer!ReadHeader
  <2> DEFINE two == 2
  <2>2. buffer' \in Seq(Datum)
    <3>1. two \in Nat /\ Transfer!Consume(two)
      BY <2>1
    <3> HIDE DEF two
    <3> QED BY <1>1, <3>1, ConsumeType
  <2>3. UNCHANGED toService \/ Transfer!Drop
    BY <1>13 DEF Transfer!ReadHeader
  <2>4. toService' \in Seq(Mail)
    BY <1>1, <1>12, <2>3 DEF TransferTypes
  <2> QED BY <1>1, <1>13, <2>2, <2>4 DEF TransferTypes, Transfer!ReadHeader, Transfer!deviceVars
<1>14. CASE Transfer!ReadChunk
  <2>1. want \in Nat /\ Transfer!Consume(want)
    BY <1>14, WantIs DEF Transfer!ReadChunk
  <2>2. buffer' \in Seq(Datum)
    BY <1>1, <2>1, ConsumeType
  <2> QED BY <1>1, <1>14, <2>2 DEF TransferTypes, Transfer!ReadChunk, Transfer!deviceVars
<1>15. CASE Transfer!ReadReason
  <2>1. want \in Nat /\ Transfer!Consume(want) /\ Transfer!Drop
    BY <1>15, WantIs DEF Transfer!ReadReason
  <2>2. buffer' \in Seq(Datum) /\ toService' \in Seq(Mail)
    BY <1>1, <1>12, <2>1, ConsumeType
  <2> QED BY <1>1, <1>15, <2>2 DEF TransferTypes, Transfer!ReadReason, Transfer!deviceVars
<1>16. CASE Transfer!Close
  <2>1. Transfer!Msg("CLSE", op, <<>>) \in Mail
    BY <1>2, Closing
  <2>2. toService' \in Seq(Mail)
    BY <1>1, <1>16, <2>1, AppendShape DEF TransferTypes, Transfer!Close
  <2> QED BY <1>1, <1>16, <2>2 DEF TransferTypes, Transfer!Close, Transfer!deviceVars
<1>17. CASE Transfer!DevReceive
  <2> DEFINE m == Head(toService)
  <2>1. toService' \in Seq(Mail) /\ m \in Mail
    BY <1>1, <1>17, TailShape DEF TransferTypes, Transfer!DevReceive
  <2>2. m.id \in Nat /\ m.body \in Seq(Datum)
    BY <2>1 DEF Mail
  <2>3. Transfer!Msg("OKAY", m.id, <<>>) \in Mail /\ Transfer!Msg("CLSE", m.id, <<>>) \in Mail
    BY <1>2, <2>2, Okaying, Closing
  <2>4. UNCHANGED <<op, kind, size, sent, after, canWrite, buffer>>
    BY <1>17 DEF Transfer!DevReceive, Transfer!hostVars
  <2>5. /\ \/ toPuller' = Append(toPuller, Transfer!Msg("OKAY", m.id, <<>>))
           \/ toPuller' = Append(toPuller, Transfer!Msg("CLSE", m.id, <<>>))
           \/ UNCHANGED toPuller
        /\ devId' = devId \/ devId' = m.id
        /\ devIn' = devIn \/ devIn' = <<>> \/ devIn' = Append(devIn, m.body)
        /\ devOut' = devOut \/ devOut' = <<>>
        /\ phase' = phase \/ phase' = "ready" \/ phase' = "closed"
    <3>1. \/ toPuller' = Append(toPuller, Transfer!Msg("OKAY", m.id, <<>>))
          \/ toPuller' = Append(toPuller, Transfer!Msg("CLSE", m.id, <<>>))
          \/ UNCHANGED toPuller
      BY <1>17 DEF Transfer!DevReceive, Transfer!deviceVars
    <3>2. devId' = devId \/ devId' = m.id
      BY <1>17 DEF Transfer!DevReceive, Transfer!deviceVars
    <3>3. devIn' = devIn \/ devIn' = <<>> \/ devIn' = Append(devIn, m.body)
      BY <1>17 DEF Transfer!DevReceive, Transfer!deviceVars
    <3>4. devOut' = devOut \/ devOut' = <<>>
      BY <1>17 DEF Transfer!DevReceive, Transfer!deviceVars
    <3>5. phase' = phase \/ phase' = "ready" \/ phase' = "closed"
      BY <1>17 DEF Transfer!DevReceive, Transfer!deviceVars
    <3> QED BY <3>1, <3>2, <3>3, <3>4, <3>5
  <2>8. owes' \in BOOLEAN /\ devAwait' \in BOOLEAN
    <3>1. (owes' = owes \/ owes' \in BOOLEAN) /\ (devAwait' = devAwait \/ devAwait' \in BOOLEAN)
      BY <1>17 DEF Transfer!DevReceive, Transfer!deviceVars
    <3> QED BY <1>1, <3>1 DEF TransferTypes
  <2> HIDE DEF m
  <2>6. toPuller' \in Seq(Mail)
    <3> DEFINE okay == Transfer!Msg("OKAY", m.id, <<>>)
               close == Transfer!Msg("CLSE", m.id, <<>>)
    <3>1. okay \in Mail /\ close \in Mail
      BY <2>3
    <3>2. toPuller' = Append(toPuller, okay) \/ toPuller' = Append(toPuller, close) \/ UNCHANGED toPuller
      BY <2>5
    <3>3. toPuller \in Seq(Mail)
      BY <1>1 DEF TransferTypes
    <3> HIDE DEF okay, close
    <3>4. Append(toPuller, okay) \in Seq(Mail) /\ Append(toPuller, close) \in Seq(Mail)
      BY <3>1, <3>3, AppendProperties
    <3> QED BY <3>2, <3>3, <3>4
  <2>7. devIn' \in Seq(Seq(Datum))
    <3>1. Append(devIn, m.body) \in Seq(Seq(Datum)) /\ <<>> \in Seq(Seq(Datum))
      BY <1>1, <2>2, AppendProperties DEF TransferTypes
    <3> QED BY <1>1, <2>5, <3>1 DEF TransferTypes
  <2> QED BY <1>1, <1>2, <2>1, <2>2, <2>4, <2>5, <2>6, <2>7, <2>8 DEF TransferTypes
<1>18. CASE Transfer!DevAck
  <2>1. Transfer!Msg("OKAY", devId, <<>>) \in Mail
    BY <1>2, Okaying
  <2>2. toPuller' \in Seq(Mail)
    BY <1>1, <1>18, <2>1, AppendShape DEF TransferTypes, Transfer!DevAck
  <2> QED BY <1>1, <1>18, <2>2 DEF TransferTypes, Transfer!DevAck, Transfer!hostVars
<1>19. CASE Transfer!DevServe
  <2>1. /\ UNCHANGED <<op, kind, size, sent, after, canWrite, buffer, toService, devId, devAwait>>
        /\ devIn # <<>> /\ devIn' = Tail(devIn) /\ owes' \in {owes, FALSE}
        /\ phase' \in {phase, "receive", "ready", "drain", "closed"}
    BY <1>19 DEF Transfer!DevServe, Transfer!hostVars
  <2>2. \/ devOut' \in {devOut, Status, Transfer!Failure, <<>>}
        \/ devOut' = Transfer!Chunks(devId, size)[size] \o Done
        \/ \E n \in 0..size : devOut' = Transfer!Chunks(devId, n)[n] \o Transfer!Failure
    BY <1>19 DEF Transfer!DevServe, Status, Done
  <2>3. \/ UNCHANGED toPuller
        \/ toPuller' = (IF owes THEN Append(toPuller, Transfer!Msg("OKAY", devId, <<>>)) ELSE toPuller)
                       \o <<Transfer!Msg("CLSE", devId, <<>>)>>
    BY <1>19 DEF Transfer!DevServe
  <2>4. devOut' \in Seq(Datum)
    <3>1. \A n \in 0..size : Transfer!Chunks(devId, n)[n] \in Seq(Datum)
      <4> SUFFICES ASSUME NEW n \in 0..size PROVE Transfer!Chunks(devId, n)[n] \in Seq(Datum)
        OBVIOUS
      <4>1. n \in Nat /\ n \in 0..n
        BY <1>2
      <4> QED BY <1>2, <4>1, ChunksType
    <3>2. Transfer!Chunks(devId, size)[size] \in Seq(Datum)
      <4>1. size \in 0..size
        BY <1>2
      <4> QED BY <3>1, <4>1
    <3>3. Transfer!Chunks(devId, size)[size] \o Done \in Seq(Datum)
      BY <3>2, Replies, ConcatProperties
    <3>4. \A n \in 0..size : Transfer!Chunks(devId, n)[n] \o Transfer!Failure \in Seq(Datum)
      BY <3>1, Failures, ConcatProperties
    <3> QED BY <1>1, <1>2, <2>2, <3>3, <3>4, Replies, Failures DEF TransferTypes
  <2>5. toPuller' \in Seq(Mail)
    <3> DEFINE okay == Transfer!Msg("OKAY", devId, <<>>)
               close == Transfer!Msg("CLSE", devId, <<>>)
               p == IF owes THEN Append(toPuller, okay) ELSE toPuller
    <3>1. okay \in Mail /\ close \in Mail
      BY <1>2, Okaying, Closing
    <3> HIDE DEF okay, close
    <3>2. p \in Seq(Mail)
      BY <1>1, <3>1, AppendShape DEF TransferTypes
    <3>3. UNCHANGED toPuller \/ toPuller' = p \o <<close>>
      BY <2>3 DEF okay, close
    <3> HIDE DEF p
    <3>4. p \o <<close>> = Append(p, close) /\ Append(p, close) \in Seq(Mail)
      BY <3>1, <3>2, AppendIsConcat, AppendShape
    <3> QED BY <1>1, <3>3, <3>4 DEF TransferTypes
  <2>6. devIn' \in Seq(Seq(Datum))
    BY <1>1, <2>1, HeadTailProperties DEF TransferTypes
  <2> QED BY <1>1, <2>1, <2>4, <2>5, <2>6 DEF TransferTypes
<1>20. CASE Transfer!DevReply
  <2>1. PICK n \in 1..Transfer!Least(Burst, Len(devOut)) :
          /\ toPuller' = Append(toPuller, Transfer!Msg("WRTE", devId, SubSeq(devOut, 1, n)))
          /\ devOut' = SubSeq(devOut, n + 1, Len(devOut))
    BY <1>20 DEF Transfer!DevReply
  <2>2. n \in 0..Len(devOut)
    BY <1>1, TransferBounds DEF TransferTypes, Transfer!Least
  <2>3. SubSeq(devOut, 1, n) \in Seq(Datum) /\ SubSeq(devOut, n + 1, Len(devOut)) \in Seq(Datum)
    BY <1>1, <2>2, SplitAt DEF TransferTypes
  <2>4. Transfer!Msg("WRTE", devId, SubSeq(devOut, 1, n)) \in Mail
    BY <1>2, <2>3, Writing
  <2>5. toPuller' \in Seq(Mail)
    BY <1>1, <2>1, <2>4, AppendShape DEF TransferTypes
  <2> QED BY <1>1, <1>20, <2>1, <2>3, <2>5 DEF TransferTypes, Transfer!DevReply, Transfer!hostVars
<1>21. CASE Transfer!DevDies
  <2>1. Transfer!Msg("CLSE", devId, <<>>) \in Mail
    BY <1>2, Closing
  <2>2. toPuller' \in Seq(Mail)
    BY <1>1, <1>21, <2>1, AppendShape DEF TransferTypes, Transfer!DevDies
  <2> QED BY <1>1, <1>21, <2>2 DEF TransferTypes, Transfer!DevDies, Transfer!hostVars
<1> QED BY <1>3, <1>4, <1>5, <1>7, <1>8, <1>9, <1>10, <1>11, <1>13, <1>14, <1>15, <1>16, <1>17, <1>18, <1>19,
           <1>20, <1>21 DEF Transfer!Next, Transfer!HostStep, Transfer!DeviceStep

-----------------------------------------------------------------------------
(* What a step puts into the pipes *)

LEMMA InTail ==
  ASSUME NEW S, NEW p \in Seq(S), p # <<>>
  PROVE  In(Tail(p)) \subseteq In(p) /\ Head(p) \in In(p)
  BY TailShape

\* What the host puts into its pipe is of its transfer, and an OPEN begins one.
HostAdds == \A m \in In(toService') : m \in In(toService) \/ (m.id = op /\ m.cmd # "OPEN")

LEMMA HostAddsOne ==
  ASSUME TransferTypes, NEW m \in Mail, m.id = op, m.cmd # "OPEN", toService' = Append(toService, m)
  PROVE  HostAdds
<1>1. In(toService') = In(toService) \cup {m}
  BY AppendShape DEF TransferTypes
<1> QED BY <1>1 DEF HostAdds

LEMMA HostPipe ==
  ASSUME TransferTypes, Transfer!HostStep \/ Transfer!DeviceStep \/ Transfer!DevDies
  PROVE  HostAdds
<1>1. op \in Nat /\ <<>> \in Seq(Datum) /\ toService \in Seq(Mail)
  BY Words DEF TransferTypes
<1>2. CASE UNCHANGED toService
  BY <1>2 DEF HostAdds
<1>3. ASSUME NEW body \in Seq(Datum), NEW next, Transfer!SendPacket(body, next) PROVE HostAdds
  <2>1. toService' = Append(toService, Transfer!Msg("WRTE", op, body))
    BY <1>3 DEF Transfer!SendPacket
  <2> QED BY <1>1, <2>1, Writing, HostAddsOne
<1>4. CASE toService' = Append(toService, Transfer!Msg("CLSE", op, <<>>))
  BY <1>1, <1>4, Closing, HostAddsOne
<1>5. CASE Transfer!Request
  BY <1>3, <1>5, Words DEF Transfer!Request
<1>6. CASE Transfer!SendData
  BY <1>3, <1>6, NextChunk DEF Transfer!SendData
<1>7. CASE Transfer!SendDone
  BY <1>3, <1>7, Words DEF Transfer!SendDone
<1>8. CASE Transfer!SendQuit
  BY <1>3, <1>8, Words DEF Transfer!SendQuit
<1>9. CASE Transfer!Receive
  <2>1. \/ UNCHANGED toService \/ toService' = Append(toService, Transfer!Msg("CLSE", op, <<>>))
        \/ toService' = toService \o <<Transfer!Msg("OKAY", op, <<>>)>>
    BY <1>9 DEF Transfer!Receive, Transfer!Ack
  <2>2. CASE toService' = toService \o <<Transfer!Msg("OKAY", op, <<>>)>>
    <3> DEFINE okay == Transfer!Msg("OKAY", op, <<>>)
    <3>1. okay \in Mail /\ okay.id = op /\ okay.cmd # "OPEN"
      BY <1>1, Okaying
    <3>2. toService' = toService \o <<okay>>
      BY <2>2
    <3> HIDE DEF okay
    <3>3. toService' = Append(toService, okay)
      BY <1>1, <3>1, <3>2, AppendIsConcat
    <3> QED BY <3>1, <3>3, HostAddsOne
  <2> QED BY <1>2, <1>4, <2>1, <2>2
<1>10. CASE Transfer!ReadHeader
  BY <1>2, <1>4, <1>10 DEF Transfer!ReadHeader, Transfer!Drop
<1>11. CASE Transfer!ReadReason
  BY <1>4, <1>11 DEF Transfer!ReadReason, Transfer!Drop
<1>12. CASE Transfer!Close
  BY <1>4, <1>12 DEF Transfer!Close
<1>13. CASE Transfer!DevReceive
  BY <1>1, <1>13, InTail DEF Transfer!DevReceive, HostAdds
<1>14. CASE Transfer!IgnoreLate \/ Transfer!OpenReply \/ Transfer!ReadChunk
  BY <1>2, <1>14 DEF Transfer!IgnoreLate, Transfer!OpenReply, Transfer!ReadChunk
<1>15. CASE Transfer!DevAck \/ Transfer!DevServe \/ Transfer!DevReply \/ Transfer!DevDies
  BY <1>2, <1>15 DEF Transfer!DevAck, Transfer!DevServe, Transfer!DevReply, Transfer!DevDies
<1> QED BY <1>5, <1>6, <1>7, <1>8, <1>9, <1>10, <1>11, <1>12, <1>13, <1>14, <1>15
    DEF Transfer!HostStep, Transfer!DeviceStep

\* What the device puts into its pipe is of the stream it knows then.
DeviceAdds == \A m \in In(toPuller') : m \in In(toPuller) \/ m.id = devId'

LEMMA DeviceAddsOne ==
  ASSUME TransferTypes, NEW m \in Mail, m.id = devId', toPuller' = Append(toPuller, m)
  PROVE  DeviceAdds
<1>1. In(toPuller') = In(toPuller) \cup {m}
  BY AppendShape DEF TransferTypes
<1> QED BY <1>1 DEF DeviceAdds

LEMMA DevicePipe ==
  ASSUME TransferTypes, Transfer!Next
  PROVE  DeviceAdds
<1>1. devId \in Nat /\ <<>> \in Seq(Datum) /\ toPuller \in Seq(Mail)
  BY Words DEF TransferTypes
<1>2. CASE UNCHANGED toPuller
  BY <1>2 DEF DeviceAdds
<1>3. ASSUME toPuller # <<>>, toPuller' = Tail(toPuller) PROVE DeviceAdds
  BY <1>1, <1>3, InTail DEF DeviceAdds
<1>4. CASE Transfer!IgnoreLate \/ Transfer!OpenReply \/ Transfer!Receive
  BY <1>3, <1>4 DEF Transfer!IgnoreLate, Transfer!OpenReply, Transfer!Receive, Transfer!Mine
<1>5. CASE Transfer!DevReceive
  <2> DEFINE m == Head(toService)
  <2>1. m \in Mail
    BY <1>5, TailShape DEF TransferTypes, Transfer!DevReceive
  <2>2. m.id \in Nat
    BY <2>1 DEF Mail
  <2>3. \/ UNCHANGED toPuller
        \/ devId' = m.id /\ toPuller' = Append(toPuller, Transfer!Msg("OKAY", m.id, <<>>))
        \/ devId' = m.id /\ toPuller' = Append(toPuller, Transfer!Msg("CLSE", m.id, <<>>))
    BY <1>5 DEF Transfer!DevReceive, Transfer!deviceVars
  <2> HIDE DEF m
  <2>4. CASE devId' = m.id /\ toPuller' = Append(toPuller, Transfer!Msg("OKAY", m.id, <<>>))
    BY <1>1, <2>2, <2>4, Okaying, DeviceAddsOne
  <2>5. CASE devId' = m.id /\ toPuller' = Append(toPuller, Transfer!Msg("CLSE", m.id, <<>>))
    BY <1>1, <2>2, <2>5, Closing, DeviceAddsOne
  <2> QED BY <1>2, <2>3, <2>4, <2>5
<1>6. CASE Transfer!DevAck
  BY <1>1, <1>6, Okaying, DeviceAddsOne DEF Transfer!DevAck
<1>7. CASE Transfer!DevServe
  <2> DEFINE okay == Transfer!Msg("OKAY", devId, <<>>)
             close == Transfer!Msg("CLSE", devId, <<>>)
             p == IF owes THEN Append(toPuller, okay) ELSE toPuller
  <2>1. okay \in Mail /\ close \in Mail /\ okay.id = devId /\ close.id = devId
    BY <1>1, Okaying, Closing
  <2>2. devId' = devId /\ (UNCHANGED toPuller \/ toPuller' = p \o <<close>>)
    BY <1>7 DEF Transfer!DevServe
  <2> HIDE DEF okay, close
  <2>3. p \in Seq(Mail) /\ In(p) \subseteq In(toPuller) \cup {okay}
    <3>1. Append(toPuller, okay) \in Seq(Mail) /\ In(Append(toPuller, okay)) = In(toPuller) \cup {okay}
      BY <1>1, <2>1, AppendShape
    <3> QED BY <1>1, <3>1
  <2> HIDE DEF p
  <2>4. p \o <<close>> = Append(p, close) /\ In(Append(p, close)) = In(p) \cup {close}
    BY <2>1, <2>3, AppendShape, AppendIsConcat
  <2>5. \A m \in In(toPuller') : m \in In(toPuller) \/ m = okay \/ m = close
    BY <2>2, <2>3, <2>4
  <2> QED BY <2>1, <2>2, <2>5 DEF DeviceAdds
<1>8. CASE Transfer!DevReply
  <2>1. PICK n \in 1..Transfer!Least(Burst, Len(devOut)) :
          toPuller' = Append(toPuller, Transfer!Msg("WRTE", devId, SubSeq(devOut, 1, n)))
    BY <1>8 DEF Transfer!DevReply
  <2>2. SubSeq(devOut, 1, n) \in Seq(Datum)
    <3>1. n \in 0..Len(devOut) /\ devOut \in Seq(Datum)
      BY TransferBounds DEF TransferTypes, Transfer!Least
    <3> QED BY <3>1, SplitAt
  <2>3. devId' = devId
    BY <1>8 DEF Transfer!DevReply
  <2> QED BY <1>1, <2>1, <2>2, <2>3, Writing, DeviceAddsOne
<1>9. CASE Transfer!DevDies
  BY <1>1, <1>9, Closing, DeviceAddsOne DEF Transfer!DevDies
<1>10. CASE Transfer!Begin \/ Transfer!Request \/ Transfer!SendData \/ Transfer!SendDone \/ Transfer!SendQuit
  BY <1>2, <1>10 DEF Transfer!Begin, Transfer!Request, Transfer!SendData, Transfer!SendDone, Transfer!SendQuit
<1>11. CASE Transfer!ReadHeader \/ Transfer!ReadChunk \/ Transfer!ReadReason \/ Transfer!Close
  BY <1>2, <1>11 DEF Transfer!ReadHeader, Transfer!ReadChunk, Transfer!ReadReason, Transfer!Close
<1> QED BY <1>4, <1>5, <1>6, <1>7, <1>8, <1>9, <1>10, <1>11 DEF Transfer!Next, Transfer!HostStep, Transfer!DeviceStep

\* The stream the device knows changes with an OPEN only.
LEMMA DeviceStream ==
  ASSUME TransferTypes, Transfer!Next
  PROVE  devId' = devId \/ (Transfer!DevReceive /\ \E m \in In(toService) : m.cmd = "OPEN" /\ devId' = m.id)
<1>1. CASE Transfer!DevReceive
  <2>1. Head(toService) \in In(toService)
    BY <1>1, InTail DEF TransferTypes, Transfer!DevReceive
  <2> QED BY <1>1, <2>1 DEF Transfer!DevReceive, Transfer!deviceVars
<1>2. CASE Transfer!Begin \/ Transfer!HostStep
  BY <1>2 DEF Transfer!Begin, Transfer!HostStep, Transfer!IgnoreLate, Transfer!OpenReply, Transfer!Request,
    Transfer!SendData, Transfer!SendDone, Transfer!SendQuit, Transfer!Receive, Transfer!ReadHeader,
    Transfer!ReadChunk, Transfer!ReadReason, Transfer!Close, Transfer!deviceVars
<1>3. CASE Transfer!DevAck \/ Transfer!DevServe \/ Transfer!DevReply \/ Transfer!DevDies
  BY <1>3 DEF Transfer!DevAck, Transfer!DevServe, Transfer!DevReply, Transfer!DevDies
<1> QED BY <1>1, <1>2, <1>3 DEF Transfer!Next, Transfer!DeviceStep

\* Only a new transfer has a new number, and only it is being opened.
LEMMA HostStream ==
  ASSUME TransferTypes, Transfer!HostStep \/ Transfer!DeviceStep \/ Transfer!DevDies
  PROVE  /\ op' = op /\ kind' = kind /\ size' = size
         /\ at' = "opening" => at = "opening" /\ UNCHANGED <<at, buffer, canWrite, sent, got>>
<1>1. CASE Transfer!HostStep
  <2>1. CASE Transfer!IgnoreLate \/ Transfer!OpenReply \/ Transfer!Request \/ Transfer!SendData
    BY <2>1 DEF Transfer!IgnoreLate, Transfer!OpenReply, Transfer!Request, Transfer!SendData,
      Transfer!SendPacket, Transfer!hostVars
  <2>2. CASE Transfer!SendDone \/ Transfer!SendQuit \/ Transfer!ReadChunk \/ Transfer!ReadReason \/ Transfer!Close
    BY <2>2 DEF Transfer!SendDone, Transfer!SendQuit, Transfer!ReadChunk, Transfer!ReadReason, Transfer!Close,
      Transfer!SendPacket, Transfer!Drop
  <2>3. CASE Transfer!ReadHeader
    BY <2>3 DEF Transfer!ReadHeader, Transfer!Drop
  <2>4. CASE Transfer!Receive
    BY <2>4 DEF Transfer!Receive, TransferTypes
  <2> QED BY <1>1, <2>1, <2>2, <2>3, <2>4 DEF Transfer!HostStep
<1>2. CASE Transfer!DeviceStep \/ Transfer!DevDies
  BY <1>2 DEF Transfer!DeviceStep, Transfer!DevReceive, Transfer!DevAck, Transfer!DevServe, Transfer!DevReply,
    Transfer!DevDies, Transfer!hostVars
<1> QED BY <1>1, <1>2

-----------------------------------------------------------------------------
(* Streams are numbered *)

\* A new transfer: no message of its stream is anywhere but its OPEN.
LEMMA BeginStep ==
  ASSUME TransferInv, Transfer!Begin
  PROVE  Numbered' /\ FreshStream' /\ Unseen'
<1>1. TransferTypes /\ Numbered /\ op \in Nat /\ <<>> \in Seq(Datum) /\ op + 1 \in Nat
  BY Words DEF TransferInv, TransferTypes
<1>2. NoOpen /\ devId = op
  BY DEF TransferInv, Unseen, Running, Transfer!Begin
<1>3. /\ op' = op + 1 /\ at' = "opening" /\ buffer' = <<>> /\ canWrite' = TRUE /\ sent' = 0 /\ got' = <<>>
      /\ toService' = Append(toService, Transfer!Msg("OPEN", op + 1, <<>>))
      /\ toPuller' = toPuller /\ devId' = devId
  BY DEF Transfer!Begin, Transfer!deviceVars
<1>4. FreshStream'
  BY <1>3 DEF FreshStream
<1> DEFINE m == Transfer!Msg("OPEN", op + 1, <<>>)
           p == toService
<1>5. m \in Mail /\ m.id = op + 1 /\ m.cmd = "OPEN" /\ p \in Seq(Mail) /\ toService' = Append(p, m)
  BY <1>1, <1>3, Opening DEF TransferTypes
<1>6. (\A k \in In(p) : k.id <= op /\ k.cmd # "OPEN" /\ k \in Mail) /\ (\A k \in In(toPuller) : k.id <= op /\ k \in Mail)
  <2>1. \A k \in In(p) : k \in Mail
    BY <1>5, ElementOfSeq DEF In
  <2>2. \A k \in In(toPuller) : k \in Mail
    BY <1>1, ElementOfSeq DEF In, TransferTypes
  <2> QED BY <1>1, <1>2, <2>1, <2>2 DEF Numbered, NoOpen
<1>7. \A k \in Mail : k.id \in Nat
  BY DEF Mail
<1> HIDE DEF m, p
<1>8. In(Append(p, m)) = In(p) \cup {m}
  BY <1>5, AppendShape
<1>9. Numbered'
  <2>1. devId' <= op' /\ (\A k \in In(toPuller) : k.id <= op + 1) /\ (\A k \in In(Append(p, m)) : k.id <= op + 1)
    BY <1>1, <1>2, <1>3, <1>5, <1>6, <1>7, <1>8
  <2> QED BY <1>3, <1>5, <2>1 DEF Numbered
<1>10. Unseen'
  <2>1. \A k \in In(toPuller) : k.id # op + 1
    BY <1>1, <1>6, <1>7
  <2>2. \A k \in In(Append(p, m)) : k.id = op + 1 <=> k.cmd = "OPEN"
    BY <1>1, <1>5, <1>6, <1>7, <1>8
  <2>3. One("OPEN", op + 1, Append(p, m))
    <3> DEFINE new == op + 1
               open == "OPEN"
    <3>1. \A k \in In(p) : ~Fits(k, open, new)
      BY <1>6 DEF Fits
    <3> HIDE DEF new, open
    <3>2. ~Has(open, new, p)
      BY <3>1 DEF Has
    <3>3. One(open, new, p)
      BY <3>1 DEF One, In
    <3>4. One(open, new, Append(p, m))
      BY <1>5, <3>2, <3>3, OneAppend
    <3> QED BY <3>4 DEF new, open
  <2>4. devId' < op'
    BY <1>1, <1>2, <1>3
  <2> QED BY <1>3, <1>5, <2>1, <2>2, <2>3, <2>4 DEF Unseen
<1> QED BY <1>4, <1>9, <1>10

LEMMA NumberedStep ==
  ASSUME TransferInv, Transfer!HostStep \/ Transfer!DeviceStep \/ Transfer!DevDies
  PROVE  Numbered' /\ FreshStream'
<1>1. TransferTypes /\ Numbered /\ FreshStream /\ Transfer!Next
  BY DEF TransferInv, Transfer!Next
<1>2. op' = op /\ (at' = "opening" => at = "opening" /\ UNCHANGED <<buffer, canWrite, sent, got>>)
  BY <1>1, HostStream
<1>3. HostAdds /\ DeviceAdds
  BY <1>1, HostPipe, DevicePipe
<1>4. devId' <= op
  <2>1. devId' = devId \/ \E m \in In(toService) : devId' = m.id
    BY <1>1, DeviceStream
  <2> QED BY <1>1, <2>1 DEF Numbered
<1>5. op <= op
  BY <1>1 DEF TransferTypes
<1>6. Numbered'
  <2>1. \A m \in In(toService') : m.id <= op
    BY <1>1, <1>3, <1>5 DEF HostAdds, Numbered
  <2>2. \A m \in In(toPuller') : m.id <= op
    BY <1>1, <1>3, <1>4 DEF DeviceAdds, Numbered
  <2> QED BY <1>2, <1>4, <2>1, <2>2 DEF Numbered
<1>7. FreshStream'
  BY <1>1, <1>2 DEF FreshStream
<1> QED BY <1>6, <1>7

\* Once the device has seen the OPEN, it knows the stream until the next transfer.
LEMMA RunningKeeps ==
  ASSUME TransferInv, Running, Transfer!HostStep \/ Transfer!DeviceStep \/ Transfer!DevDies
  PROVE  devId' = op' /\ NoOpen'
<1>1. TransferTypes /\ Transfer!Next
  BY DEF TransferInv, Transfer!Next
<1>2. op' = op /\ HostAdds
  BY <1>1, HostStream, HostPipe
<1>3. devId' = devId
  BY <1>1, DeviceStream DEF Running, NoOpen
<1>4. NoOpen'
  BY <1>2 DEF Running, NoOpen, HostAdds
<1> QED BY <1>2, <1>3, <1>4 DEF Running

-----------------------------------------------------------------------------
(* Packets the service has yet to take *)

LEMMA LeadsNowhere ==
  ASSUME NEW way, NEW n, NEW id, NEW x \in Int
  PROVE  Leads(way, n, id, <<>>, x, x)
<1> DEFINE place == [i \in 0..0 |-> x]
<1>1. place \in [0..0 -> Int] /\ place[0] = x /\ Len(<<>>) = 0
  OBVIOUS
<1>2. \A i \in 0..0 : place[i] <= x
  BY <1>1
<1>3. 1..0 = {}
  OBVIOUS
<1> HIDE DEF place
<1> QED BY <1>1, <1>2, <1>3 DEF Leads

LEMMA GoesOn ==
  ASSUME NEW way, NEW n \in Nat, NEW id, NEW p, NEW x \in Int, NEW y \in Int, Goes(way, n, id, p, x, y)
  PROVE  x < y /\ y <= n + 2 /\ -1 <= x
  BY DEF Goes

LEMMA LeadsOn ==
  ASSUME NEW way, NEW n \in Nat, NEW id, NEW packets, NEW x \in Int, NEW y \in Int,
         Len(packets) \in Nat, Leads(way, n, id, packets, x, y)
  PROVE  x <= y
  BY DEF Leads

LEMMA LeadsAppend ==
  ASSUME NEW S, NEW packets \in Seq(S), NEW p \in S, NEW way, NEW n \in Nat, NEW id,
         NEW x \in Int, NEW y \in Int, NEW z \in Int,
         Leads(way, n, id, packets, x, y), Goes(way, n, id, p, y, z)
  PROVE  Leads(way, n, id, Append(packets, p), x, z)
<1> DEFINE l == Len(packets)
<1>1. l \in Nat /\ Len(Append(packets, p)) = l + 1 /\ (\A i \in 1..l : Append(packets, p)[i] = packets[i])
      /\ Append(packets, p)[l + 1] = p
  BY AppendProperties, LenProperties
<1>2. PICK place \in [0..l -> Int] :
        /\ place[0] = x /\ place[l] = y
        /\ \A i \in 0..l : place[i] <= y
        /\ \A i \in 1..l : Goes(way, n, id, packets[i], place[i - 1], place[i])
  BY DEF Leads
<1>3. y < z
  BY GoesOn
<1> DEFINE longer == [i \in 0..(l + 1) |-> IF i <= l THEN place[i] ELSE z]
<1> HIDE DEF l
<1>4. longer \in [0..(l + 1) -> Int] /\ longer[l + 1] = z /\ (\A i \in 0..l : longer[i] = place[i])
  <2>1. \A i \in 0..(l + 1) : i <= l => place[i] \in Int
    BY <1>1, <1>2
  <2> QED BY <1>1, <2>1
<1> HIDE DEF longer
<1>5. longer[0] = x
  BY <1>1, <1>2, <1>4
<1>6. \A i \in 0..(l + 1) : longer[i] <= z
  <2> SUFFICES ASSUME NEW i \in 0..(l + 1) PROVE longer[i] <= z
    OBVIOUS
  <2>1. CASE i = l + 1
    BY <1>4, <2>1
  <2>2. CASE i # l + 1
    <3>1. i \in 0..l
      BY <1>1, <2>2
    <3>2. longer[i] = place[i] /\ place[i] <= y /\ place[i] \in Int
      BY <1>2, <1>4, <3>1
    <3> QED BY <1>3, <3>2
  <2> QED BY <2>1, <2>2
<1>7. \A i \in 1..(l + 1) : Goes(way, n, id, Append(packets, p)[i], longer[i - 1], longer[i])
  <2> SUFFICES ASSUME NEW i \in 1..(l + 1) PROVE Goes(way, n, id, Append(packets, p)[i], longer[i - 1], longer[i])
    OBVIOUS
  <2>1. CASE i = l + 1
    <3>1. i - 1 = l /\ l \in 0..l
      BY <1>1, <2>1
    <3>2. Append(packets, p)[i] = p /\ longer[i - 1] = y /\ longer[i] = z
      BY <1>1, <1>2, <1>4, <2>1, <3>1
    <3> QED BY <3>2
  <2>2. CASE i # l + 1
    <3>1. i \in 1..l /\ i \in 0..l /\ i - 1 \in 0..l
      BY <1>1, <2>2
    <3>2. Append(packets, p)[i] = packets[i] /\ longer[i - 1] = place[i - 1] /\ longer[i] = place[i]
      BY <1>1, <1>4, <3>1
    <3> QED BY <1>2, <3>1, <3>2
  <2> QED BY <2>1, <2>2
<1> QED BY <1>1, <1>4, <1>5, <1>6, <1>7 DEF Leads

LEMMA LeadsFirst ==
  ASSUME NEW S, NEW packets \in Seq(S), packets # <<>>, NEW way, NEW n \in Nat, NEW id,
         NEW x \in Int, NEW y \in Int, Leads(way, n, id, packets, x, y)
  PROVE  \E v \in Int : Goes(way, n, id, Head(packets), x, v) /\ Leads(way, n, id, Tail(packets), v, y)
<1> DEFINE l == Len(packets)
<1>1. l \in Nat \ {0} /\ Len(Tail(packets)) = l - 1 /\ (\A i \in 1..(l - 1) : Tail(packets)[i] = packets[i + 1])
      /\ Head(packets) = packets[1]
  BY HeadTailProperties, LenProperties
<1>2. PICK place \in [0..l -> Int] :
        /\ place[0] = x /\ place[l] = y
        /\ \A i \in 0..l : place[i] <= y
        /\ \A i \in 1..l : Goes(way, n, id, packets[i], place[i - 1], place[i])
  BY DEF Leads
<1> DEFINE later == [i \in 0..(l - 1) |-> place[i + 1]]
<1> HIDE DEF l
<1>3. \A i \in 0..(l - 1) : i + 1 \in 0..l /\ i + 1 \in 1..l
  BY <1>1
<1>4. later \in [0..(l - 1) -> Int] /\ (\A i \in 0..(l - 1) : later[i] = place[i + 1])
  BY <1>2, <1>3
<1> HIDE DEF later
<1>5. 0 \in 0..(l - 1) /\ l - 1 \in 0..(l - 1) /\ 0 + 1 = 1 /\ l - 1 + 1 = l /\ 1 \in 1..l /\ 1 - 1 = 0 /\ 1 \in 0..l
  BY <1>1
<1>6. later[0] = place[1] /\ later[l - 1] = y /\ place[1] \in Int
  BY <1>2, <1>4, <1>5
<1>7. \A i \in 0..(l - 1) : later[i] <= y
  BY <1>2, <1>3, <1>4
<1>8. \A i \in 1..(l - 1) : Goes(way, n, id, Tail(packets)[i], later[i - 1], later[i])
  <2> SUFFICES ASSUME NEW i \in 1..(l - 1) PROVE Goes(way, n, id, Tail(packets)[i], later[i - 1], later[i])
    OBVIOUS
  <2>1. i \in 0..(l - 1) /\ i - 1 \in 0..(l - 1) /\ i - 1 + 1 = i /\ i + 1 \in 1..l /\ i + 1 - 1 = i
    BY <1>1
  <2>2. Tail(packets)[i] = packets[i + 1] /\ later[i - 1] = place[i] /\ later[i] = place[i + 1]
    BY <1>1, <1>4, <2>1
  <2>3. Goes(way, n, id, packets[i + 1], place[i + 1 - 1], place[i + 1])
    BY <1>2, <2>1
  <2> QED BY <2>1, <2>2, <2>3
<1>9. Goes(way, n, id, Head(packets), x, place[1])
  BY <1>1, <1>2, <1>5
<1>10. Leads(way, n, id, Tail(packets), place[1], y)
  BY <1>1, <1>4, <1>6, <1>7, <1>8 DEF Leads
<1> QED BY <1>6, <1>9, <1>10

-----------------------------------------------------------------------------
(* The OPEN *)

LEMMA NoneIsOne ==
  ASSUME NEW cmd, NEW id, NEW pipe, ~Has(cmd, id, pipe)
  PROVE  One(cmd, id, pipe)
  BY DEF Has, One, In

\* Before the device has seen the OPEN, it may still serve, and the host get, what
\* was of an earlier transfer.
LEMMA UnseenKeeps ==
  ASSUME TransferInv, Unseen, Transfer!HostStep \/ Transfer!DeviceStep \/ Transfer!DevDies,
         ~(Transfer!DevReceive /\ Head(toService).cmd = "OPEN")
  PROVE  Unseen'
<1>1. TransferTypes /\ Transfer!Next /\ FreshStream /\ Numbered
  BY DEF TransferInv, Transfer!Next
<1>2. op' = op /\ op \in Nat
  BY <1>1, HostStream DEF TransferTypes
<1>3. ASSUME Transfer!HostStep
      PROVE Transfer!IgnoreLate
  <2>1. ~Transfer!OpenReply
    <3>1. toPuller # <<>> => Head(toPuller) \in In(toPuller)
      BY <1>1, InTail DEF TransferTypes
    <3> QED BY <3>1 DEF Transfer!OpenReply, Transfer!Mine, Transfer!Next1, Unseen
  <2> QED BY <1>3, <2>1 DEF Unseen, Transfer!HostStep, Transfer!Request, Transfer!SendData, Transfer!SendDone,
        Transfer!SendQuit, Transfer!Receive, Transfer!ReadHeader, Transfer!ReadChunk, Transfer!ReadReason,
        Transfer!Close
<1>4. at' = "opening"
  BY <1>3 DEF Unseen, Transfer!IgnoreLate, Transfer!DeviceStep, Transfer!DevReceive, Transfer!DevAck,
    Transfer!DevServe, Transfer!DevReply, Transfer!DevDies, Transfer!hostVars
<1>5. devId' = devId /\ (UNCHANGED toService \/ (toService # <<>> /\ toService' = Tail(toService)))
  BY <1>3 DEF Transfer!IgnoreLate, Transfer!DeviceStep, Transfer!DevReceive, Transfer!DevAck,
    Transfer!DevServe, Transfer!DevReply, Transfer!DevDies, Transfer!deviceVars
<1>6. \A m \in In(toPuller') : m.id # op
  <2>1. DeviceAdds
    BY <1>1, DevicePipe
  <2>2. devId' # op
    BY <1>1, <1>5 DEF Unseen, TransferTypes
  <2> QED BY <2>1, <2>2 DEF DeviceAdds, Unseen
<1>7. (\A m \in In(toService') : m.id = op <=> m.cmd = "OPEN") /\ One("OPEN", op, toService')
  <2>1. CASE UNCHANGED toService
    BY <2>1 DEF Unseen
  <2>2. CASE toService # <<>> /\ toService' = Tail(toService)
    <3> DEFINE open == "OPEN"
    <3>1. toService \in Seq(Mail) /\ One(open, op, toService)
      BY <1>1 DEF TransferTypes, Unseen
    <3> HIDE DEF open
    <3>2. One(open, op, Tail(toService)) /\ In(Tail(toService)) \subseteq In(toService)
      BY <2>2, <3>1, OneTail, InTail
    <3> QED BY <2>2, <3>2 DEF Unseen, open
  <2> QED BY <1>5, <2>1, <2>2
<1> QED BY <1>2, <1>4, <1>5, <1>6, <1>7 DEF Unseen

\* The device sees the OPEN.
LEMMA SeesOpen ==
  ASSUME TransferInv, Unseen, Transfer!DevReceive, Head(toService).cmd = "OPEN"
  PROVE  Running'
<1> DEFINE m == Head(toService)
           p == toService
           okay == Transfer!Msg("OKAY", op, <<>>)
           close == Transfer!Msg("CLSE", op, <<>>)
<1>1. TransferTypes /\ FreshStream /\ op \in Nat /\ <<>> \in Seq(Datum) /\ p \in Seq(Mail) /\ toPuller \in Seq(Mail)
  BY Words DEF TransferInv, TransferTypes
<1>2. p # <<>> /\ toService' = Tail(p) /\ m.cmd = "OPEN"
  BY DEF Transfer!DevReceive
<1>3. m \in In(p) /\ In(Tail(p)) \subseteq In(p)
  BY <1>1, <1>2, InTail
<1>4. m.id = op
  BY <1>2, <1>3 DEF Unseen
<1>5. /\ devId' = op /\ devIn' = <<>> /\ owes' = FALSE /\ devOut' = <<>> /\ devAwait' = FALSE /\ file' = <<>>
      /\ op' = op /\ kind' = kind /\ size' = size /\ at' = at /\ after' = after /\ sent' = sent
      /\ canWrite' = canWrite /\ buffer' = buffer /\ got' = got
  BY <1>4 DEF Transfer!DevReceive, Transfer!hostVars
<1>6. \/ phase' = "ready" /\ toPuller' = Append(toPuller, okay)
      \/ phase' = "closed" /\ toPuller' = Append(toPuller, close)
  BY <1>4 DEF Transfer!DevReceive
<1>7. okay \in Mail /\ close \in Mail /\ okay.cmd = "OKAY" /\ close.cmd = "CLSE"
  BY <1>1, Okaying, Closing
<1> HIDE DEF okay, close, m, p
<1>8. \A k \in In(Tail(p)) : k.id # op /\ k.cmd # "OPEN"
  <2> DEFINE open == "OPEN"
  <2>1. Fits(m, open, op) /\ One(open, op, p)
    BY <1>2, <1>4 DEF Unseen, Fits, p
  <2> HIDE DEF open
  <2>2. ~Has(open, op, Tail(p))
    BY <1>1, <1>2, <2>1, OneTail DEF m, p
  <2>3. \A k \in In(Tail(p)) : k.id = op <=> k.cmd = open
    BY <1>3 DEF Unseen, p, open
  <2>4. \A k \in In(Tail(p)) : k.cmd # open
    BY <2>2, <2>3 DEF Has, Fits
  <2> QED BY <2>3, <2>4 DEF open
<1>9. NoOpen'
  BY <1>2, <1>8 DEF NoOpen
<1>10. \A cmd : ~Has(cmd, op, toService')
  BY <1>2, <1>8 DEF Has, Fits
<1>11. \A cmd : ~Has(cmd, op, toPuller)
  BY DEF Unseen, Has, Fits
<1>12. \A k \in {okay, close} :
         /\ ~Has("WRTE", op, Append(toPuller, k)) /\ One("OKAY", op, Append(toPuller, k))
  <2> SUFFICES ASSUME NEW k \in {okay, close}
               PROVE ~Has("WRTE", op, Append(toPuller, k)) /\ One("OKAY", op, Append(toPuller, k))
    OBVIOUS
  <2> DEFINE wrte == "WRTE"
             ack == "OKAY"
  <2>1. k \in Mail /\ ~Fits(k, wrte, op)
    BY <1>7 DEF Fits
  <2> HIDE DEF wrte, ack
  <2>2. ~Has(wrte, op, Append(toPuller, k))
    BY <1>1, <1>11, <2>1, HasAppend
  <2>3. One(ack, op, toPuller)
    BY <1>11, NoneIsOne
  <2>4. One(ack, op, Append(toPuller, k))
    BY <1>1, <1>11, <2>1, <2>3, OneAppend
  <2> QED BY <2>2, <2>4 DEF wrte, ack
<1>13. ~Has("WRTE", op, toPuller') /\ One("OKAY", op, toPuller')
  BY <1>6, <1>12
<1>14. OneAtATime'
  <2> DEFINE wrte == "WRTE"
             ack == "OKAY"
  <2>1. ~Has(wrte, op, toService') /\ ~Has(ack, op, toService') /\ ~Has(wrte, op, toPuller')
    BY <1>10, <1>13
  <2> HIDE DEF wrte, ack
  <2>2. One(wrte, op, toService') /\ One(ack, op, toService') /\ One(wrte, op, toPuller')
    BY <2>1, NoneIsOne
  <2>3. at' = "opening"
    BY <1>5 DEF Unseen
  <2> QED BY <1>5, <1>13, <2>1, <2>2, <2>3 DEF OneAtATime, wrte, ack
<1>15. Rest' = <<>>
  <2>1. Carried(op', toPuller') = <<>>
    BY <1>5, <1>13, CarriedNothing
  <2>2. buffer' = <<>>
    BY <1>1, <1>5 DEF Unseen, FreshStream
  <2>3. <<>> \o (<<>> \o <<>>) = <<>>
    BY <1>1, ConcatEmptySeq
  <2> QED BY <1>5, <2>1, <2>2, <2>3 DEF Rest
<1>16. Now' = "opening" /\ got' = <<>> /\ sent' = 0
  BY <1>1, <1>5 DEF Now, Unseen, FreshStream
<1>17. Stage(Rest)'
  <2>1. kind' \in {"push", "pull"} /\ sent' <= size'
    BY <1>1, <1>5, <1>16 DEF TransferTypes
  <2> QED BY <1>15, <1>16, <2>1 DEF Stage
<1>18. ASSUME phase' # "closed" PROVE InOrder'
  <2>1. phase' = "ready"
    BY <1>6, <1>18
  <2>2. HostAt' = -1
    BY <1>16 DEF HostAt
  <2>3. Underway(-1)'
    BY <1>5, <1>10, <2>2 DEF Underway
  <2>4. Served(-1, Rest)'
    BY <1>5, <1>15, <1>16, <2>1 DEF Served
  <2>5. Leads(kind', size', op', devIn', -1, -1)
    <3> DEFINE x == -1
    <3>1. x \in Int
      OBVIOUS
    <3> HIDE DEF x
    <3>2. Leads(kind', size', op', <<>>, x, x)
      BY <3>1, LeadsNowhere
    <3> QED BY <1>5, <3>2 DEF x
  <2> QED BY <2>3, <2>4, <2>5 DEF InOrder
<1> QED BY <1>5, <1>9, <1>14, <1>17, <1>18 DEF Running, Flow

-----------------------------------------------------------------------------
(* What a message means for a stream *)

\* What taking the first message m of p, or adding a last one, means for a stream.
TakenFrom(id, p, q, m) ==
  /\ One("WRTE", id, q) /\ One("OKAY", id, q)
  /\ Has("WRTE", id, p) <=> Has("WRTE", id, q) \/ Fits(m, "WRTE", id)
  /\ Has("OKAY", id, p) <=> Has("OKAY", id, q) \/ Fits(m, "OKAY", id)
  /\ Fits(m, "OKAY", id) => ~Has("OKAY", id, q)
  /\ Fits(m, "WRTE", id) => ~Has("WRTE", id, q) /\ Carried(id, p) = m.body /\ Carried(id, q) = <<>>
  /\ ~Fits(m, "WRTE", id) => Carried(id, q) = Carried(id, p)
AddedTo(id, p, q, m) ==
  /\ One("WRTE", id, q) /\ One("OKAY", id, q)
  /\ Has("WRTE", id, q) <=> Has("WRTE", id, p) \/ Fits(m, "WRTE", id)
  /\ Has("OKAY", id, q) <=> Has("OKAY", id, p) \/ Fits(m, "OKAY", id)
  /\ Carried(id, q) = IF Fits(m, "WRTE", id) THEN m.body ELSE Carried(id, p)

LEMMA Taking ==
  ASSUME NEW S, NEW p \in Seq(S), p # <<>>, NEW id, One("WRTE", id, p), One("OKAY", id, p)
  PROVE  TakenFrom(id, p, Tail(p), Head(p))
<1> DEFINE wrte == "WRTE"
           ack == "OKAY"
<1>1. One(wrte, id, p) /\ One(ack, id, p)
  OBVIOUS
<1> HIDE DEF wrte, ack
<1>2. /\ One(wrte, id, Tail(p)) /\ (Fits(Head(p), wrte, id) => ~Has(wrte, id, Tail(p)))
      /\ One(ack, id, Tail(p)) /\ (Fits(Head(p), ack, id) => ~Has(ack, id, Tail(p)))
  BY <1>1, OneTail
<1>3. /\ Has(wrte, id, p) <=> Has(wrte, id, Tail(p)) \/ Fits(Head(p), wrte, id)
      /\ Has(ack, id, p) <=> Has(ack, id, Tail(p)) \/ Fits(Head(p), ack, id)
  BY HasTail
<1>4. /\ Fits(Head(p), "WRTE", id) => Carried(id, p) = Head(p).body /\ Carried(id, Tail(p)) = <<>>
      /\ ~Fits(Head(p), "WRTE", id) => Carried(id, Tail(p)) = Carried(id, p)
  BY CarriedTail
<1> QED BY <1>2, <1>3, <1>4 DEF TakenFrom, wrte, ack

LEMMA Adding ==
  ASSUME NEW S, NEW p \in Seq(S), NEW m \in S, NEW id, One("WRTE", id, p), One("OKAY", id, p),
         Has("WRTE", id, p) => ~Fits(m, "WRTE", id), Has("OKAY", id, p) => ~Fits(m, "OKAY", id)
  PROVE  AddedTo(id, p, Append(p, m), m)
<1> DEFINE wrte == "WRTE"
           ack == "OKAY"
<1>1. /\ One(wrte, id, p) /\ One(ack, id, p)
      /\ Has(wrte, id, p) => ~Fits(m, wrte, id)
      /\ Has(ack, id, p) => ~Fits(m, ack, id)
  OBVIOUS
<1> HIDE DEF wrte, ack
<1>2. One(wrte, id, Append(p, m)) /\ One(ack, id, Append(p, m))
  BY <1>1, OneAppend
<1>3. /\ Has(wrte, id, Append(p, m)) <=> Has(wrte, id, p) \/ Fits(m, wrte, id)
      /\ Has(ack, id, Append(p, m)) <=> Has(ack, id, p) \/ Fits(m, ack, id)
  BY HasAppend
<1>4. Carried(id, Append(p, m)) = IF Fits(m, "WRTE", id) THEN m.body ELSE Carried(id, p)
  BY CarriedAppend
<1> QED BY <1>2, <1>3, <1>4 DEF AddedTo, wrte, ack

\* A message of another kind, or of another stream, leaves all this alone.
LEMMA StageSame ==
  ASSUME Stage(Rest), UNCHANGED <<op, kind, size, sent, want, got, stored>>, Now' = Now, Rest' = Rest
  PROVE  Stage(Rest)'
<1>1. \A n, end : EndsWith(n, end)' <=> EndsWith(n, end)
  BY DEF EndsWith
<1>2. Reading(Rest) => Reading(Rest)'
  BY <1>1 DEF Reading
<1>3. ReadingChunk(Rest) => ReadingChunk(Rest)'
  BY <1>1 DEF ReadingChunk
<1>4. Transfer!Content' = Transfer!Content
  BY DEF Transfer!Content
<1> QED BY <1>2, <1>3, <1>4 DEF Stage

LEMMA ServedSame ==
  ASSUME NEW x, Served(x, Rest), UNCHANGED <<op, kind, size, phase, file, got>>, Now' = Now, Rest' = Rest
  PROVE  Served(x, Rest)'
  BY DEF Served

LEMMA HostAtSame ==
  ASSUME UNCHANGED <<sent, size>>, Now' = Now
  PROVE  HostAt' = HostAt
  BY DEF HostAt

LEMMA UnderwaySame ==
  ASSUME NEW y, Underway(y), UNCHANGED <<op, kind, size>>, HostAt' = HostAt,
         Has("WRTE", op, toService) <=> Has("WRTE", op, toService'), Carried(op, toService') = Carried(op, toService)
  PROVE  Underway(y)'
  BY DEF Underway

LEMMA InOrderSame ==
  ASSUME InOrder, UNCHANGED <<op, kind, size, sent, phase, file, got, devIn>>, Now' = Now, Rest' = Rest,
         Has("WRTE", op, toService) <=> Has("WRTE", op, toService'), Carried(op, toService') = Carried(op, toService)
  PROVE  InOrder'
<1>1. PICK x \in Int : \E y \in Int : Leads(kind, size, op, devIn, x, y) /\ Served(x, Rest) /\ Underway(y)
  BY DEF InOrder
<1>2. PICK y \in Int : Leads(kind, size, op, devIn, x, y) /\ Served(x, Rest) /\ Underway(y)
  BY <1>1
<1>3. HostAt' = HostAt
  BY HostAtSame
<1>4. Served(x, Rest)' /\ Underway(y)'
  BY <1>2, <1>3, ServedSame, UnderwaySame
<1> QED BY <1>2, <1>4 DEF InOrder

LEMMA RunningTypes ==
  ASSUME TransferInv, Running, InTransfer
  PROVE  /\ TransferTypes /\ Flow /\ devId = op /\ op \in Nat /\ size \in Nat
         /\ toService \in Seq(Mail) /\ toPuller \in Seq(Mail) /\ buffer \in Seq(Datum) /\ devOut \in Seq(Datum)
         /\ devIn \in Seq(Seq(Datum)) /\ <<>> \in Seq(Datum)
         /\ Carried(op, toPuller) \in Seq(Datum) /\ Carried(op, toService) \in Seq(Datum)
         /\ Rest \in Seq(Datum)
<1>1. TransferTypes /\ Flow /\ devId = op
  BY DEF TransferInv, Running
<1>2. toService \in Seq(Mail) /\ toPuller \in Seq(Mail) /\ buffer \in Seq(Datum) /\ devOut \in Seq(Datum)
      /\ devIn \in Seq(Seq(Datum)) /\ <<>> \in Seq(Datum)
  BY <1>1, Words DEF TransferTypes
<1>3. op \in Nat /\ size \in Nat
  BY <1>1 DEF TransferTypes
<1>4. Carried(op, toPuller) \in Seq(Datum) /\ Carried(op, toService) \in Seq(Datum)
  BY <1>1, <1>2, CarriedType DEF Flow, OneAtATime
<1>5. Rest \in Seq(Datum)
  BY <1>2, <1>4, ConcatProperties DEF Rest
<1> QED BY <1>1, <1>2, <1>3, <1>4, <1>5

\* A message of an earlier stream is ignored.
LEMMA FlowIgnoreLate ==
  ASSUME TransferInv, Running, InTransfer, Transfer!IgnoreLate
  PROVE  Flow'
<1>1. /\ toPuller # <<>> /\ Head(toPuller).id # op /\ toPuller' = Tail(toPuller)
      /\ UNCHANGED <<op, kind, size, at, after, sent, want, canWrite, buffer, got, toService,
                     devId, phase, devIn, owes, devOut, devAwait, file, stored>>
  BY DEF Transfer!IgnoreLate, Transfer!Next1, Transfer!hostVars, Transfer!deviceVars
<1>2. Flow /\ toPuller \in Seq(Mail)
  BY RunningTypes
<1>3. TakenFrom(op, toPuller, toPuller', Head(toPuller))
  BY <1>1, <1>2, Taking DEF Flow, OneAtATime
<1>4. ~Fits(Head(toPuller), "WRTE", op) /\ ~Fits(Head(toPuller), "OKAY", op)
  BY <1>1 DEF Fits
<1>5. OneAtATime'
  BY <1>1, <1>2, <1>3, <1>4 DEF Flow, OneAtATime, TakenFrom
<1>6. Rest' = Rest /\ Now' = Now
  BY <1>1, <1>3, <1>4 DEF Rest, Now, TakenFrom
<1>7. Stage(Rest)'
  BY <1>1, <1>2, <1>6, StageSame DEF Flow
<1>8. phase' # "closed" => InOrder'
  BY <1>1, <1>2, <1>6, InOrderSame DEF Flow
<1> QED BY <1>5, <1>7, <1>8 DEF Flow

LEMMA FlowOpenReply ==
  ASSUME TransferInv, Running, InTransfer, Transfer!OpenReply, InTransfer'
  PROVE  Flow'
<1> DEFINE m == Head(toPuller)
<1>1. /\ toPuller # <<>> /\ m.id = op /\ toPuller' = Tail(toPuller) /\ at = "opening"
      /\ at' = "request" /\ m.cmd = "OKAY"
      /\ UNCHANGED <<op, kind, size, after, sent, want, canWrite, buffer, got, toService,
                     devId, phase, devIn, owes, devOut, devAwait, file, stored>>
  BY DEF Transfer!OpenReply, Transfer!Mine, Transfer!Next1, Transfer!deviceVars, InTransfer
<1>2. Flow /\ toPuller \in Seq(Mail)
  BY RunningTypes
<1>3. TakenFrom(op, toPuller, toPuller', m)
  BY <1>1, <1>2, Taking DEF Flow, OneAtATime
<1>4. ~Fits(m, "WRTE", op) /\ Fits(m, "OKAY", op)
  BY <1>1 DEF Fits
<1> HIDE DEF m
<1>5. OneAtATime'
  BY <1>1, <1>2, <1>3, <1>4 DEF Flow, OneAtATime, TakenFrom
<1>6. Rest' = Rest /\ Now = "opening" /\ Now' = "request" /\ HostAt' = HostAt
  BY <1>1, <1>3, <1>4 DEF Rest, Now, TakenFrom, HostAt
<1>7. Stage(Rest)'
  BY <1>1, <1>2, <1>6 DEF Flow, Stage, Transfer!Content
<1>8. ASSUME phase' # "closed" PROVE InOrder'
  <2>1. PICK x \in Int : \E y \in Int : Leads(kind, size, op, devIn, x, y) /\ Served(x, Rest) /\ Underway(y)
    BY <1>1, <1>2, <1>8 DEF Flow, InOrder
  <2>2. PICK y \in Int : Leads(kind, size, op, devIn, x, y) /\ Served(x, Rest) /\ Underway(y)
    BY <2>1
  <2>3. Served(x, Rest)'
    BY <1>1, <1>6, <2>2 DEF Served
  <2>4. Underway(y)'
    BY <1>1, <1>6, <2>2, UnderwaySame
  <2> QED BY <1>1, <2>2, <2>3, <2>4 DEF InOrder
<1> QED BY <1>5, <1>7, <1>8 DEF Flow

-----------------------------------------------------------------------------
(* The host sends *)

\* A packet goes out: it is the only one, and it leads on from where the host was.
LEMMA FlowSend ==
  ASSUME TransferInv, Running, InTransfer, at # "opening",
         NEW body \in Seq(Datum), NEW next, Transfer!SendPacket(body, next),
         UNCHANGED <<op, kind, size, want, buffer, got, toPuller, Transfer!deviceVars>>,
         Stage(Rest)', Goes(kind, size, op, body, HostAt, HostAt'),
         \A x : Served(x, Rest) => Served(x, Rest)'
  PROVE  Flow'
<1> DEFINE m == Transfer!Msg("WRTE", op, body)
<1>1. /\ canWrite /\ canWrite' = FALSE /\ at' = "await" /\ after' = next
      /\ toService' = Append(toService, m)
      /\ UNCHANGED <<devId, phase, devIn, owes, devOut, devAwait, file, stored>>
  BY DEF Transfer!SendPacket, Transfer!deviceVars
<1>2. Flow /\ toService \in Seq(Mail) /\ op \in Nat
  BY RunningTypes
<1>3. m \in Mail /\ m.id = op /\ m.cmd = "WRTE" /\ m.body = body
  BY <1>2, Writing
<1>4. Fits(m, "WRTE", op) /\ ~Fits(m, "OKAY", op)
  BY <1>3 DEF Fits
<1> HIDE DEF m
<1>5. ~Has("WRTE", op, toService) /\ ~owes /\ ~Has("OKAY", op, toPuller)
  BY <1>1, <1>2 DEF Flow, OneAtATime
<1>6. AddedTo(op, toService, toService', m)
  BY <1>1, <1>2, <1>3, <1>4, <1>5, Adding DEF Flow, OneAtATime
<1>7. OneAtATime'
  BY <1>1, <1>2, <1>4, <1>5, <1>6 DEF Flow, OneAtATime, AddedTo
<1>8. ASSUME phase' # "closed" PROVE InOrder'
  <2>1. PICK x \in Int : \E y \in Int : Leads(kind, size, op, devIn, x, y) /\ Served(x, Rest) /\ Underway(y)
    BY <1>1, <1>2, <1>8 DEF Flow, InOrder
  <2>2. PICK y \in Int : Leads(kind, size, op, devIn, x, y) /\ Served(x, Rest) /\ Underway(y)
    BY <2>1
  <2>3. y = HostAt
    BY <1>5, <2>2 DEF Underway
  <2>4. Has("WRTE", op', toService') /\ Carried(op', toService') = body
    BY <1>3, <1>4, <1>6 DEF AddedTo
  <2>5. Underway(y)'
    BY <2>3, <2>4 DEF Underway
  <2> QED BY <1>1, <2>2, <2>5 DEF InOrder
<1> QED BY <1>7, <1>8 DEF Flow

LEMMA FlowRequest ==
  ASSUME TransferInv, Running, InTransfer, Transfer!Request
  PROVE  Flow'
<1>1. /\ at = "request" /\ UNCHANGED <<op, kind, size, sent, want, buffer, got, toPuller, Transfer!deviceVars>>
      /\ UNCHANGED <<devId, phase, devIn, owes, devOut, devAwait, file, stored>>
      /\ IF kind = "push" THEN Transfer!SendPacket(<<"SEND">>, "data")
         ELSE Transfer!SendPacket(<<"RECV">>, "header")
  BY DEF Transfer!Request, Transfer!deviceVars
<1>2. Flow /\ TransferTypes
  BY RunningTypes
<1>3. Now = "request" /\ HostAt = -1
  BY <1>1 DEF Now, HostAt
<1>4. sent = 0 /\ kind \in {"push", "pull"}
  BY <1>2, <1>3 DEF Flow, Stage, TransferTypes
<1>5. Rest' = Rest
  BY <1>1 DEF Rest
<1>6. CASE kind = "push"
  <2>1. Transfer!SendPacket(<<"SEND">>, "data") /\ Now' = "data"
    BY <1>1, <1>6 DEF Transfer!SendPacket, Now
  <2>2. HostAt' = 0
    BY <1>1, <1>4, <2>1 DEF HostAt
  <2>3. Goes(kind, size, op, <<"SEND">>, HostAt, HostAt')
    BY <1>3, <1>6, <2>2 DEF Goes
  <2>4. Stage(Rest)'
    BY <1>1, <1>2, <1>3, <1>4, <1>5, <1>6, <2>1 DEF Flow, Stage, Transfer!Content
  <2>5. \A x : Served(x, Rest) => Served(x, Rest)'
    BY <1>1, <1>3, <1>5, <2>1 DEF Served
  <2> QED BY <1>1, <2>1, <2>3, <2>4, <2>5, FlowSend, Words
<1>7. CASE kind = "pull"
  <2>1. Transfer!SendPacket(<<"RECV">>, "header") /\ Now' = "header"
    BY <1>1, <1>7 DEF Transfer!SendPacket, Now
  <2>2. HostAt' = size + 1
    BY <1>1, <2>1 DEF HostAt
  <2>3. Goes(kind, size, op, <<"RECV">>, HostAt, HostAt')
    BY <1>3, <1>7, <2>2 DEF Goes
  <2>4. Stage(Rest)'
    BY <1>1, <1>2, <1>3, <1>4, <1>5, <1>7, <2>1 DEF Flow, Stage, Transfer!Content
  <2>5. \A x : Served(x, Rest) => Served(x, Rest)'
    BY <1>1, <1>3, <1>5, <2>1 DEF Served
  <2> QED BY <1>1, <2>1, <2>3, <2>4, <2>5, FlowSend, Words
<1> QED BY <1>4, <1>6, <1>7

LEMMA FlowSendData ==
  ASSUME TransferInv, Running, InTransfer, Transfer!SendData
  PROVE  Flow'
<1> DEFINE body == <<"DATA">> \o Transfer!Units(op, sent + 1, Transfer!ChunkEnd)
<1>1. /\ at = "data" /\ UNCHANGED <<op, kind, size, want, buffer, got, toPuller, Transfer!deviceVars>>
      /\ UNCHANGED <<devId, phase, devIn, owes, devOut, devAwait, file, stored>>
      /\ sent < size /\ sent' = Transfer!ChunkEnd /\ Transfer!SendPacket(body, "data")
  BY DEF Transfer!SendData, Transfer!deviceVars
<1>2. Flow /\ TransferTypes
  BY RunningTypes
<1>3. Transfer!ChunkEnd \in Nat /\ sent < Transfer!ChunkEnd /\ Transfer!ChunkEnd <= size /\ body \in Seq(Datum)
  BY <1>1, <1>2, NextChunk
<1>4. Now = "data" /\ HostAt = sent /\ Now' = "data" /\ HostAt' = sent'
  BY <1>1 DEF Now, HostAt, Transfer!SendPacket
<1>5. kind = "push" /\ sent \in Nat
  BY <1>2, <1>4 DEF Flow, Stage, TransferTypes
<1>6. Rest' = Rest
  BY <1>1 DEF Rest
<1>7. Goes(kind, size, op, body, HostAt, HostAt')
  <2>1. 0 <= sent /\ HostAt < HostAt' /\ HostAt' <= size
    BY <1>1, <1>3, <1>4, <1>5
  <2>2. body = <<"DATA">> \o Transfer!Units(op, HostAt + 1, HostAt')
    BY <1>1, <1>4
  <2> HIDE DEF body
  <2> QED BY <1>4, <1>5, <2>1, <2>2 DEF Goes
<1> HIDE DEF body
<1>8. Stage(Rest)'
  BY <1>1, <1>2, <1>3, <1>4, <1>5, <1>6 DEF Flow, Stage, Transfer!Content
<1>9. \A x : Served(x, Rest) => Served(x, Rest)'
  BY <1>1, <1>4, <1>6 DEF Served
<1> QED BY <1>1, <1>3, <1>7, <1>8, <1>9, FlowSend

LEMMA FlowSendDone ==
  ASSUME TransferInv, Running, InTransfer, Transfer!SendDone
  PROVE  Flow'
<1>1. /\ at = "data" /\ UNCHANGED <<op, kind, size, sent, want, buffer, got, toPuller, Transfer!deviceVars>>
      /\ UNCHANGED <<devId, phase, devIn, owes, devOut, devAwait, file, stored>>
      /\ sent >= size /\ Transfer!SendPacket(<<"DONE">>, "status")
  BY DEF Transfer!SendDone, Transfer!deviceVars
<1>2. Flow /\ TransferTypes
  BY RunningTypes
<1>3. Now = "data" /\ HostAt = sent /\ Now' = "status" /\ HostAt' = size + 1
  BY <1>1 DEF Now, HostAt, Transfer!SendPacket
<1>4. kind = "push" /\ sent = size
  BY <1>1, <1>2, <1>3 DEF Flow, Stage, TransferTypes
<1>5. Rest' = Rest
  BY <1>1 DEF Rest
<1>6. Goes(kind, size, op, <<"DONE">>, HostAt, HostAt')
  BY <1>3, <1>4 DEF Goes
<1>7. Stage(Rest)'
  BY <1>1, <1>2, <1>3, <1>4, <1>5 DEF Flow, Stage, Transfer!Content
<1>8. \A x : Served(x, Rest) => Served(x, Rest)'
  BY <1>1, <1>3, <1>5 DEF Served
<1> QED BY <1>1, <1>6, <1>7, <1>8, FlowSend, Words

LEMMA FlowSendQuit ==
  ASSUME TransferInv, Running, InTransfer, Transfer!SendQuit
  PROVE  Flow'
<1>1. /\ at = "quit" /\ UNCHANGED <<op, kind, size, sent, want, buffer, got, toPuller, Transfer!deviceVars>>
      /\ UNCHANGED <<devId, phase, devIn, owes, devOut, devAwait, file, stored>>
      /\ Transfer!SendPacket(<<"QUIT">>, "close")
  BY DEF Transfer!SendQuit, Transfer!deviceVars
<1>2. Flow /\ TransferTypes
  BY RunningTypes
<1>3. Now = "quit" /\ HostAt = size + 1 /\ Now' = "close" /\ HostAt' = size + 2
  BY <1>1 DEF Now, HostAt, Transfer!SendPacket
<1>4. Rest' = Rest
  BY <1>1 DEF Rest
<1>5. Goes(kind, size, op, <<"QUIT">>, HostAt, HostAt')
  BY <1>3 DEF Goes
<1>6. Stage(Rest)'
  BY <1>1, <1>2, <1>3, <1>4 DEF Flow, Stage, Transfer!Content
<1>7. \A x : Served(x, Rest) => Served(x, Rest)'
  BY <1>1, <1>3, <1>4 DEF Served
<1> QED BY <1>1, <1>5, <1>6, <1>7, FlowSend, Words

-----------------------------------------------------------------------------
(* The host receives *)

LEMMA FlowReceive ==
  ASSUME TransferInv, Running, InTransfer, Transfer!Receive, InTransfer'
  PROVE  Flow'
<1> DEFINE m == Head(toPuller)
           okay == Transfer!Msg("OKAY", op, <<>>)
<1>1. /\ at # "opening" /\ toPuller # <<>> /\ m.id = op /\ toPuller' = Tail(toPuller)
      /\ UNCHANGED <<op, kind, size, after, sent, want, got, devId, phase, devIn, owes, devOut, devAwait, file, stored>>
  BY DEF Transfer!Receive, Transfer!Mine, Transfer!Next1, Transfer!deviceVars
<1>2. \/ /\ m.cmd = "OKAY" /\ canWrite' = TRUE /\ at' = (IF at = "await" THEN after ELSE at)
         /\ UNCHANGED <<buffer, toService>>
      \/ /\ m.cmd = "WRTE" /\ toService' = toService \o <<okay>> /\ buffer' = buffer \o m.body
         /\ UNCHANGED <<at, canWrite>>
  BY DEF Transfer!Receive, Transfer!Next1, Transfer!Ack, InTransfer
<1>3. /\ Flow /\ toPuller \in Seq(Mail) /\ toService \in Seq(Mail) /\ op \in Nat /\ <<>> \in Seq(Datum)
      /\ buffer \in Seq(Datum) /\ devOut \in Seq(Datum) /\ TransferTypes
  BY RunningTypes
<1>4. TakenFrom(op, toPuller, toPuller', m)
  BY <1>1, <1>3, Taking DEF Flow, OneAtATime
<1>5. m \in Mail
  BY <1>1, <1>3, TailShape
<1>6. okay \in Mail /\ okay.id = op /\ okay.cmd = "OKAY"
  BY <1>3, Okaying
<1> HIDE DEF m, okay
<1>7. CASE m.cmd = "OKAY"
  <2>1. /\ canWrite' = TRUE /\ at' = (IF at = "await" THEN after ELSE at)
        /\ UNCHANGED <<buffer, toService>>
    BY <1>2, <1>7
  <2>2. Fits(m, "OKAY", op) /\ ~Fits(m, "WRTE", op)
    BY <1>1, <1>7 DEF Fits
  <2>3. at' # "opening" /\ (at = "await" => after # "opening")
    BY <1>1, <1>3, <2>1 DEF TransferTypes
  <2>4. OneAtATime'
    BY <1>1, <1>3, <1>4, <2>1, <2>2, <2>3 DEF Flow, OneAtATime, TakenFrom
  <2>5. Now' = Now
    <3>1. CASE at = "await"
      <4>1. at' = after /\ after' = after
        BY <1>1, <2>1, <3>1
      <4>2. after # "await"
        BY <1>3, <3>1 DEF Flow, Stage, Now
      <4> QED BY <3>1, <4>1, <4>2 DEF Now
    <3>2. CASE at # "await"
      BY <2>1, <3>2 DEF Now
    <3> QED BY <3>1, <3>2
  <2>6. Rest' = Rest
    BY <1>1, <1>4, <2>1, <2>2 DEF Rest, TakenFrom
  <2>7. Stage(Rest)'
    BY <1>1, <1>3, <2>5, <2>6, StageSame DEF Flow
  <2>8. phase' # "closed" => InOrder'
    BY <1>1, <1>3, <2>1, <2>5, <2>6, InOrderSame DEF Flow
  <2> QED BY <2>4, <2>7, <2>8 DEF Flow
<1>8. CASE m.cmd = "WRTE"
  <2>1. /\ toService' = toService \o <<okay>> /\ buffer' = buffer \o m.body
        /\ UNCHANGED <<at, canWrite>>
    BY <1>2, <1>8
  <2>2. Fits(m, "WRTE", op) /\ ~Fits(m, "OKAY", op)
    BY <1>1, <1>8 DEF Fits
  <2>3. Fits(okay, "OKAY", op) /\ ~Fits(okay, "WRTE", op)
    BY <1>6 DEF Fits
  <2>4. Has("WRTE", op, toPuller) /\ ~Has("OKAY", op, toService) /\ devAwait
    BY <1>3, <1>4, <2>2 DEF Flow, OneAtATime, TakenFrom
  <2>5. toService' = Append(toService, okay)
    BY <1>3, <1>6, <2>1, AppendIsConcat
  <2>6. AddedTo(op, toService, toService', okay)
    BY <1>3, <1>6, <2>3, <2>4, <2>5, Adding DEF Flow, OneAtATime
  <2>7. OneAtATime'
    BY <1>1, <1>3, <1>4, <2>1, <2>2, <2>3, <2>4, <2>6 DEF Flow, OneAtATime, TakenFrom, AddedTo
  <2>8. Now' = Now
    BY <1>1, <2>1 DEF Now
  <2>9. Rest' = Rest
    <3>1. Carried(op, toPuller) = m.body /\ Carried(op', toPuller') = <<>> /\ m.body \in Seq(Datum)
      <4>1. m.body \in Seq(Datum)
        BY <1>5 DEF Mail
      <4>2. op' = op
        BY <1>1
      <4> QED BY <1>4, <2>2, <4>1, <4>2 DEF TakenFrom
    <3>2. (buffer \o m.body) \o devOut = buffer \o (m.body \o devOut)
      <4> DEFINE part == m.body
      <4>1. part \in Seq(Datum) /\ buffer \in Seq(Datum) /\ devOut \in Seq(Datum)
        BY <1>3, <3>1
      <4> HIDE DEF part
      <4>2. (buffer \o part) \o devOut = buffer \o (part \o devOut)
        BY <4>1, ConcatAssociative
      <4> QED BY <4>2 DEF part
    <3>3. <<>> \o devOut = devOut
      BY <1>3, ConcatEmptySeq
    <3> QED BY <1>1, <2>1, <3>1, <3>2, <3>3 DEF Rest
  <2>10. Stage(Rest)'
    BY <1>1, <1>3, <2>8, <2>9, StageSame DEF Flow
  <2>11. Carried(op, toService') = Carried(op, toService) /\ (Has("WRTE", op, toService) <=> Has("WRTE", op, toService'))
    BY <2>3, <2>6 DEF AddedTo
  <2>12. phase' # "closed" => InOrder'
    BY <1>1, <1>3, <2>8, <2>9, <2>11, InOrderSame DEF Flow
  <2> QED BY <2>7, <2>10, <2>12 DEF Flow
<1> QED BY <1>2, <1>7, <1>8

-----------------------------------------------------------------------------
(* The host reads *)

\* What the host takes is the front of what is left to read.
LEMMA TakesFront ==
  ASSUME TransferInv, Running, InTransfer, NEW p \in Seq(Datum), NEW y \in Seq(Datum), NEW n \in Nat,
         Rest = p \o y, Len(p) = n, n <= Len(buffer), Transfer!Consume(n), UNCHANGED <<op, toPuller, devOut>>
  PROVE  /\ Transfer!Taken(n) = p /\ Rest' = y
         /\ \A i \in 1..n : buffer[i] = p[i]
<1> DEFINE z == Carried(op, toPuller) \o devOut
<1>1. buffer \in Seq(Datum) /\ z \in Seq(Datum)
  BY RunningTypes, ConcatProperties
<1>2. buffer \o z = p \o y /\ Rest' = buffer' \o z
  BY DEF Rest
<1> HIDE DEF z
<1>3. SubSeq(buffer, 1, Len(p)) = p /\ Behind(buffer, Len(p)) \o z = y
  <2>1. Len(p) <= Len(buffer) /\ p \in Seq(Datum) /\ y \in Seq(Datum)
    OBVIOUS
  <2> QED BY <1>1, <1>2, <2>1, TakeFront
<1>4. Transfer!Taken(n) = p
  BY <1>3 DEF Transfer!Taken
<1>5. Rest' = y
  BY <1>2, <1>3 DEF Transfer!Consume, Behind
<1>6. \A i \in 1..n : SubSeq(buffer, 1, n)[i] = buffer[i]
  BY <1>1
<1> QED BY <1>3, <1>4, <1>5, <1>6

\* With something in the buffer there is something left to read.
LEMMA RestIsNotEmpty ==
  ASSUME TransferInv, Running, InTransfer, Len(buffer) >= 1
  PROVE  Rest # <<>>
<1> DEFINE z == Carried(op, toPuller) \o devOut
<1>1. buffer \in Seq(Datum) /\ z \in Seq(Datum)
  BY RunningTypes, ConcatProperties
<1>2. Rest = buffer \o z
  BY DEF Rest
<1> HIDE DEF z
<1>3. buffer # <<>>
  BY <1>1, EmptySeq
<1> QED BY <1>1, <1>2, <1>3, ConcatSimplifications

\* The three things a header can be: the end, a failure, the start of a chunk.
EndRead ==
  /\ at' = "quit" /\ Rest' = <<>> /\ Rest # Transfer!Failure
  /\ IF kind = "push" THEN stored = Transfer!Content ELSE got = Transfer!Content
FailureRead == at' = "reason" /\ Rest' = <<"reason">> /\ want' = 1
ChunkRead == at' = "chunk" /\ kind = "pull" /\ ReadingChunk(Rest)'

\* What every header has in common: its id and length are the first two units.
LEMMA HeaderRead ==
  ASSUME TransferInv, Running, InTransfer, Transfer!ReadHeader,
         NEW p \in Seq(Datum), NEW y \in Seq(Datum), Rest = p \o y, Len(p) = 2
  PROVE  Rest' = y /\ buffer[1] = p[1] /\ buffer[2] = p[2]
<1> DEFINE n == 2
<1>1. n \in Nat /\ n <= Len(buffer) /\ Transfer!Consume(n) /\ UNCHANGED <<op, toPuller, devOut>>
  BY RunningTypes DEF Transfer!ReadHeader, Transfer!Filled, Transfer!Needed, Transfer!deviceVars
<1>2. Len(p) = n /\ 1 \in 1..n /\ 2 \in 1..n
  OBVIOUS
<1> HIDE DEF n
<1>3. Rest' = y /\ \A i \in 1..n : buffer[i] = p[i]
  BY <1>1, <1>2, TakesFront
<1> QED BY <1>2, <1>3

LEMMA FailureHeader ==
  ASSUME TransferInv, Running, InTransfer, Transfer!ReadHeader, Rest = Transfer!Failure
  PROVE  FailureRead
<1>1. Rest' = <<"reason">> /\ buffer[1] = "FAIL" /\ buffer[2] = 1
  BY HeaderRead, Failures, Words
<1>2. at' = "reason" /\ want' = buffer[2]
  BY <1>1 DEF Transfer!ReadHeader, Transfer!Finishes
<1> QED BY <1>1, <1>2 DEF FailureRead

LEMMA EndHeader ==
  ASSUME TransferInv, Running, InTransfer, Transfer!ReadHeader,
         IF at = "status" THEN Rest = Status ELSE Rest = Done,
         IF kind = "push" THEN stored = Transfer!Content ELSE got = Transfer!Content
  PROVE  EndRead
<1>1. at \in {"status", "header"}
  BY DEF Transfer!ReadHeader
<1>2. Rest' = <<>> /\ buffer[1] = (IF at = "status" THEN "OKAY" ELSE "DONE") /\ Rest # Transfer!Failure
  <2>1. Status \o <<>> = Status /\ Done \o <<>> = Done
    BY Replies, ConcatEmptySeq
  <2>2. CASE at = "status"
    <3>1. Rest = Status \o <<>>
      BY <2>1, <2>2
    <3>2. Rest' = <<>> /\ buffer[1] = Status[1]
      BY <3>1, HeaderRead, Replies, Words
    <3>3. Status[1] = "OKAY" /\ Transfer!Failure[1] = "FAIL"
      BY Replies, Failures
    <3>4. Status # Transfer!Failure
      BY <3>3
    <3> QED BY <2>2, <3>2, <3>3, <3>4
  <2>3. CASE at # "status"
    <3>1. Rest = Done \o <<>>
      BY <2>1, <2>3
    <3>2. Rest' = <<>> /\ buffer[1] = Done[1]
      BY <3>1, HeaderRead, Replies, Words
    <3>3. Done[1] = "DONE" /\ Transfer!Failure[1] = "FAIL"
      BY Replies, Failures
    <3>4. Done # Transfer!Failure
      BY <3>3
    <3> QED BY <2>3, <3>2, <3>3, <3>4
  <2> QED BY <2>2, <2>3
<1>3. at' = "quit"
  BY <1>1, <1>2 DEF Transfer!ReadHeader, Transfer!Finishes
<1> QED BY <1>2, <1>3 DEF EndRead

\* The host has g of n units, and what is left to read begins with a chunk.
ChunkComes(n, g, end) ==
  EndsWith(n, end) /\ got = Transfer!Units(op, 1, g) /\ Rest = Transfer!Chunks(op, n)[n - g] \o end

LEMMA ChunkHeader ==
  ASSUME TransferInv, Running, InTransfer, Transfer!ReadHeader, at = "header", kind = "pull",
         NEW n \in 0..size, NEW g \in 0..n, g # n, NEW end \in {Done, Transfer!Failure},
         ChunkComes(n, g, end)
  PROVE  ChunkRead
<1> DEFINE m == n - g
           k == Portion(m)
           u == Transfer!Units(op, g + 1, g + k)
           c == Transfer!Chunks(op, n)[m - k]
           h == Transfer!Header("DATA", k)
<1>1. op \in Nat /\ size \in Nat /\ n \in Nat /\ g \in Nat /\ m \in Nat \ {0} /\ m \in 0..n
  BY RunningTypes
<1>2. k \in 1..m
  BY <1>1, PortionIs
<1>3. k \in Nat /\ m - k \in 0..n /\ n - m + 1 = g + 1 /\ n - m + k = g + k /\ g <= g + k /\ g + k \in Nat
  BY <1>1, <1>2
<1>4. Transfer!Chunks(op, n)[m] = h \o Transfer!Units(op, n - m + 1, n - m + k) \o c
  BY <1>1, ChunksAre
<1>5. Transfer!Chunks(op, n)[m] = h \o u \o c
  BY <1>3, <1>4
<1>6. u \in Seq(Datum)
  BY <1>1, <1>3, UnitsShape
<1>7. c \in Seq(Datum)
  BY <1>1, <1>3, ChunksType
<1>8. end \in Seq(Datum)
  BY Replies, Failures
<1>9. h \in Seq(Datum) /\ Len(h) = 2 /\ h[1] = "DATA" /\ h[2] = k
  <2> DEFINE data == "DATA"
             l == k
  <2>1. data \in Word
    BY DEF Word
  <2>3. l \in Nat
    BY <1>3
  <2> HIDE DEF data, l
  <2>2. /\ Transfer!Header(data, l) \in Seq(Datum) /\ Len(Transfer!Header(data, l)) = 2
        /\ Transfer!Header(data, l)[1] = data /\ Transfer!Header(data, l)[2] = l
    BY <2>1, <2>3, HeaderShape
  <2> QED BY <2>2 DEF data, l
<1>10. Rest = (h \o u \o c) \o end
  BY <1>5 DEF ChunkComes
<1>11. m - k = n - g - k /\ k \in 1..(n - g)
  BY <1>1, <1>2
<1>12. size' = size /\ op' = op /\ got' = got /\ stored' = stored
  BY DEF Transfer!ReadHeader, Transfer!deviceVars
<1>13. c = Transfer!Chunks(op, n)[n - g - k]
  BY <1>11
<1> HIDE DEF m, k, u, c, h
<1>14. (h \o u \o c) \o end = h \o (u \o (c \o end)) /\ u \o (c \o end) \in Seq(Datum)
  <2> DEFINE e == end
             ce == c \o e
             hu == h \o u
  <2>1. h \in Seq(Datum) /\ u \in Seq(Datum) /\ c \in Seq(Datum) /\ e \in Seq(Datum)
    BY <1>6, <1>7, <1>8, <1>9
  <2> HIDE DEF e
  <2>2. ce \in Seq(Datum) /\ hu \in Seq(Datum)
    BY <2>1, ConcatProperties
  <2> HIDE DEF ce, hu
  <2>3. u \o ce \in Seq(Datum)
    BY <2>1, <2>2, ConcatProperties
  <2>4. (hu \o c) \o e = hu \o (c \o e)
    BY <2>1, <2>2, ConcatAssociative
  <2>5. (h \o u) \o ce = h \o (u \o ce)
    <3>1. h \in Seq(Datum) /\ u \in Seq(Datum) /\ ce \in Seq(Datum)
      BY <2>1, <2>2
    <3> QED BY <3>1, ConcatAssociative
  <2> QED BY <2>3, <2>4, <2>5 DEF e, ce, hu
<1>15. Rest' = u \o (c \o end) /\ buffer[1] = "DATA" /\ buffer[2] = k
  BY <1>9, <1>10, <1>14, HeaderRead
<1>16. at' = "chunk" /\ want' = k
  BY <1>15 DEF Transfer!ReadHeader, Transfer!Finishes
<1>17. ReadingChunk(Rest)'
  <2>1. EndsWith(n, end)'
    BY <1>12 DEF EndsWith, ChunkComes
  <2>2. got' = Transfer!Units(op', 1, g)
    BY <1>12 DEF ChunkComes
  <2>3. want' \in 1..(n - g)
    BY <1>11, <1>16
  <2>4. Rest' = Transfer!Units(op', g + 1, g + want') \o (Transfer!Chunks(op', n)[n - g - want'] \o end)
    BY <1>12, <1>13, <1>15, <1>16 DEF u
  <2>5. n \in 0..size' /\ g \in 0..n /\ end \in {Done, Transfer!Failure}
    BY <1>12
  <2> QED BY <2>1, <2>2, <2>3, <2>4, <2>5 DEF ReadingChunk
<1> QED BY <1>16, <1>17 DEF ChunkRead

LEMMA ReadsHeader ==
  ASSUME TransferInv, Running, InTransfer, Transfer!ReadHeader
  PROVE  /\ Rest # <<>>
         /\ (EndRead /\ (kind = "push" => Rest = Status)) \/ FailureRead \/ ChunkRead
<1>1. Flow /\ TransferTypes /\ size \in Nat /\ op \in Nat
  BY RunningTypes
<1>2. at \in {"status", "header"} /\ Now = at /\ Len(buffer) >= 2
  BY DEF Transfer!ReadHeader, Transfer!Filled, Transfer!Needed, Now
<1>3. Rest # <<>>
  <2>1. Len(buffer) >= 1
    BY <1>1, <1>2, LenProperties DEF TransferTypes
  <2> QED BY <2>1, RestIsNotEmpty
<1>4. CASE Rest = Transfer!Failure
  BY <1>3, <1>4, FailureHeader
<1>5. CASE Rest # Transfer!Failure
  <2>1. CASE at = "status"
    <3>1. kind = "push"
      BY <1>1, <1>2, <2>1 DEF Flow, Stage
    <3>2. Rest = Status /\ stored = Transfer!Content
      BY <1>1, <1>2, <1>3, <1>5, <2>1, <3>1 DEF Flow, Stage
    <3>3. EndRead
      BY <2>1, <3>1, <3>2, EndHeader
    <3> QED BY <1>3, <3>2, <3>3
  <2>2. CASE at = "header"
    <3>1. kind = "pull"
      BY <1>1, <1>2, <2>2 DEF Flow, Stage, TransferTypes
    <3>2. Reading(Rest)
      BY <1>1, <1>2, <1>3, <2>2 DEF Flow, Stage
    <3>3. PICK n \in 0..size : \E g \in 0..n : \E end \in {Done, Transfer!Failure} :
            /\ EndsWith(n, end) /\ got = Transfer!Units(op, 1, g)
            /\ Rest = Transfer!Chunks(op, n)[n - g] \o end
      BY <3>2 DEF Reading
    <3>4. PICK g \in 0..n : \E end \in {Done, Transfer!Failure} :
            /\ EndsWith(n, end) /\ got = Transfer!Units(op, 1, g)
            /\ Rest = Transfer!Chunks(op, n)[n - g] \o end
      BY <3>3
    <3>5. PICK end \in {Done, Transfer!Failure} :
            /\ EndsWith(n, end) /\ got = Transfer!Units(op, 1, g)
            /\ Rest = Transfer!Chunks(op, n)[n - g] \o end
      BY <3>4
    <3>6. CASE g = n
      <4>1. Transfer!Chunks(op, n)[n - g] = <<>>
        <5>1. n - g = 0 /\ n \in Nat
          BY <1>1, <3>6
        <5>2. Transfer!Chunks(op, n)[0] = <<>>
          <6> DEFINE zero == 0
          <6>1. zero \in 0..n /\ zero = 0
            BY <5>1
          <6> HIDE DEF zero
          <6>2. Transfer!Chunks(op, n)[zero] = <<>>
            BY <1>1, <5>1, <6>1, ChunksAre
          <6> QED BY <6>1, <6>2
        <5> QED BY <5>1, <5>2
      <4>2. end \in Seq(Datum)
        BY Replies, Failures
      <4>3. Rest = end
        BY <3>5, <4>1, <4>2, ConcatEmptySeq
      <4>4. end = Done /\ n = size
        BY <1>5, <3>5, <4>3 DEF EndsWith
      <4>5. got = Transfer!Content
        BY <3>5, <3>6, <4>4 DEF Transfer!Content
      <4>6. EndRead
        BY <2>2, <3>1, <4>3, <4>4, <4>5, EndHeader
      <4> QED BY <1>3, <3>1, <4>6
    <3>7. CASE g # n
      <4>1. ChunkRead
        <5>1. ChunkComes(n, g, end)
          BY <3>5 DEF ChunkComes
        <5> QED BY <2>2, <3>1, <3>5, <3>7, <5>1, ChunkHeader
      <4> QED BY <1>3, <4>1
    <3> QED BY <3>6, <3>7
  <2> QED BY <1>2, <2>1, <2>2
<1> QED BY <1>4, <1>5

LEMMA FlowReadHeader ==
  ASSUME TransferInv, Running, InTransfer, Transfer!ReadHeader, InTransfer'
  PROVE  Flow'
<1>1. Flow /\ TransferTypes
  BY RunningTypes
<1>2. /\ at \in {"status", "header"}
      /\ UNCHANGED <<op, kind, size, after, sent, canWrite, got, toPuller,
                     devId, phase, devIn, owes, devOut, devAwait, file, stored>>
  BY DEF Transfer!ReadHeader, Transfer!deviceVars
<1>3. Rest # <<>> /\ ((EndRead /\ (kind = "push" => Rest = Status)) \/ FailureRead \/ ChunkRead)
  BY ReadsHeader
<1>4. at' \in {"quit", "reason", "chunk"}
  BY <1>3 DEF EndRead, FailureRead, ChunkRead
<1>5. UNCHANGED toService
  BY <1>4 DEF Transfer!ReadHeader, Transfer!Drop
<1>6. Now = at /\ Now' = at' /\ HostAt' = HostAt
  BY <1>2, <1>4 DEF Now, HostAt
<1>7. OneAtATime'
  BY <1>1, <1>2, <1>4, <1>5 DEF Flow, OneAtATime
<1>8. Transfer!Content' = Transfer!Content /\ sent' <= size' /\ kind' \in {"push", "pull"}
  BY <1>1, <1>2 DEF Flow, Stage, Transfer!Content, TransferTypes
<1>9. Stage(Rest)'
  <2>1. CASE EndRead
    BY <1>2, <1>6, <1>8, <2>1 DEF Stage, EndRead
  <2>2. CASE FailureRead
    BY <1>2, <1>6, <1>8, <2>2 DEF Stage, FailureRead
  <2>3. CASE ChunkRead
    BY <1>2, <1>6, <1>8, <2>3 DEF Stage, ChunkRead
  <2> QED BY <1>3, <2>1, <2>2, <2>3
<1>10. ASSUME phase' # "closed" PROVE InOrder'
  <2>1. PICK x \in Int : \E y \in Int : Leads(kind, size, op, devIn, x, y) /\ Served(x, Rest) /\ Underway(y)
    BY <1>1, <1>2, <1>10 DEF Flow, InOrder
  <2>2. PICK y \in Int : Leads(kind, size, op, devIn, x, y) /\ Served(x, Rest) /\ Underway(y)
    BY <2>1
  <2>3. Served(x, Rest)'
    <3>1. CASE x = size + 1 /\ phase = "ready"
      BY <1>2, <3>1 DEF Served
    <3>2. CASE ~(x = size + 1 /\ phase = "ready")
      <4>1. x \in 0..size /\ kind = "push" /\ phase = "drain" /\ (Rest = Transfer!Failure \/ Now = "reason")
        BY <1>3, <2>2, <3>2 DEF Served
      <4>2. Rest = Transfer!Failure
        BY <1>2, <1>6, <4>1
      <4>3. at' = "reason"
        BY <1>3, <4>1, <4>2 DEF EndRead, FailureRead, ChunkRead
      <4> QED BY <1>2, <1>6, <4>1, <4>3 DEF Served
    <3> QED BY <3>1, <3>2
  <2>4. Underway(y)'
    BY <1>2, <1>5, <1>6, <2>2, UnderwaySame
  <2> QED BY <1>2, <2>2, <2>3, <2>4 DEF InOrder
<1> QED BY <1>7, <1>9, <1>10 DEF Flow

LEMMA FlowReadChunk ==
  ASSUME TransferInv, Running, InTransfer, Transfer!ReadChunk
  PROVE  Flow'
<1>1. Flow /\ TransferTypes /\ size \in Nat /\ op \in Nat
  BY RunningTypes
<1>2. /\ at = "chunk" /\ at' = "header" /\ Len(buffer) >= want
      /\ got' = got \o Transfer!Taken(want) /\ Transfer!Consume(want)
      /\ UNCHANGED <<op, kind, size, after, sent, want, canWrite, toService, toPuller,
                     devId, phase, devIn, owes, devOut, devAwait, file, stored>>
  BY DEF Transfer!ReadChunk, Transfer!Filled, Transfer!Needed, Transfer!deviceVars
<1>3. Now = "chunk" /\ Now' = "header" /\ HostAt' = HostAt
  BY <1>2 DEF Now, HostAt
<1>4. kind = "pull" /\ ReadingChunk(Rest)
  BY <1>1, <1>3 DEF Flow, Stage, TransferTypes
<1>5. OneAtATime'
  BY <1>1, <1>2 DEF Flow, OneAtATime
<1>6. PICK n \in 0..size : \E g \in 0..n : \E end \in {Done, Transfer!Failure} :
        /\ EndsWith(n, end) /\ got = Transfer!Units(op, 1, g) /\ want \in 1..(n - g)
        /\ Rest = Transfer!Units(op, g + 1, g + want) \o (Transfer!Chunks(op, n)[n - g - want] \o end)
  BY <1>4 DEF ReadingChunk
<1>7. PICK g \in 0..n : \E end \in {Done, Transfer!Failure} :
        /\ EndsWith(n, end) /\ got = Transfer!Units(op, 1, g) /\ want \in 1..(n - g)
        /\ Rest = Transfer!Units(op, g + 1, g + want) \o (Transfer!Chunks(op, n)[n - g - want] \o end)
  BY <1>6
<1>8. PICK end \in {Done, Transfer!Failure} :
        /\ EndsWith(n, end) /\ got = Transfer!Units(op, 1, g) /\ want \in 1..(n - g)
        /\ Rest = Transfer!Units(op, g + 1, g + want) \o (Transfer!Chunks(op, n)[n - g - want] \o end)
  BY <1>7
<1> DEFINE u == Transfer!Units(op, g + 1, g + want)
           c == Transfer!Chunks(op, n)[n - g - want]
           h == g + want
<1>9. n \in Nat /\ g \in Nat /\ want \in Nat /\ h \in Nat /\ h \in 0..n /\ g <= h /\ h - g = want
      /\ n - g - want = n - h /\ n - g - want \in 0..n
  BY <1>1, <1>8
<1>10. u \in Seq(Datum) /\ Len(u) = want
  BY <1>1, <1>9, UnitsShape
<1>11. c \in Seq(Datum)
  BY <1>1, <1>9, ChunksType
<1>12. end \in Seq(Datum)
  BY Replies, Failures
<1>13. Rest = u \o (c \o end)
  BY <1>8
<1>14. Transfer!Taken(want) = u /\ Rest' = c \o end
  <2>1. c \o end \in Seq(Datum)
    BY <1>11, <1>12, ConcatProperties
  <2>2. want <= Len(buffer)
    BY <1>1, <1>2, <1>9, LenProperties DEF TransferTypes
  <2> DEFINE y == c \o end
             n0 == want
  <2>3. n0 \in Nat /\ n0 <= Len(buffer) /\ Transfer!Consume(n0) /\ UNCHANGED <<op, toPuller, devOut>>
    BY <1>2, <1>9, <2>2
  <2>4. u \in Seq(Datum) /\ y \in Seq(Datum) /\ Len(u) = n0 /\ Rest = u \o y
    BY <1>10, <1>13, <2>1
  <2> HIDE DEF u, y, n0
  <2>5. Transfer!Taken(n0) = u /\ Rest' = y
    BY <2>3, <2>4, TakesFront
  <2> QED BY <2>5 DEF y, n0
<1>15. got' = Transfer!Units(op, 1, h)
  <2> DEFINE z == 0
             f == g
             l == h
             id == op
  <2>1. z \in Nat /\ f \in Nat /\ l \in Nat /\ id \in Nat /\ z <= f /\ f <= l
    BY <1>1, <1>9
  <2>2. /\ Transfer!Units(op, 1, g) = Part(id, z, f) /\ Transfer!Units(op, 1, h) = Part(id, z, l)
        /\ u = Part(id, f, l)
    BY DEF Part
  <2> HIDE DEF z, f, l, id, u
  <2>3. Part(id, z, f) \o Part(id, f, l) = Part(id, z, l)
    BY <2>1, UnitsJoin
  <2> QED BY <1>2, <1>8, <1>14, <2>2, <2>3
<1>16. Reading(Rest)'
  <2>1. EndsWith(n, end)'
    BY <1>2, <1>8 DEF EndsWith
  <2>2. Rest' = Transfer!Chunks(op', n)[n - h] \o end
    BY <1>2, <1>9, <1>14
  <2>3. got' = Transfer!Units(op', 1, h) /\ n \in 0..size' /\ h \in 0..n
    BY <1>2, <1>9, <1>15
  <2> HIDE DEF h
  <2> QED BY <2>1, <2>2, <2>3 DEF Reading
<1>17. Stage(Rest)'
  BY <1>1, <1>2, <1>3, <1>4, <1>16 DEF Flow, Stage
<1>18. Rest # <<>>
  <2>1. Len(buffer) >= 1
    BY <1>1, <1>2, <1>8, <1>9, LenProperties DEF TransferTypes
  <2> QED BY <2>1, RestIsNotEmpty
<1>19. ASSUME phase' # "closed" PROVE InOrder'
  <2>1. PICK x \in Int : \E y \in Int : Leads(kind, size, op, devIn, x, y) /\ Served(x, Rest) /\ Underway(y)
    BY <1>1, <1>2, <1>19 DEF Flow, InOrder
  <2>2. PICK y \in Int : Leads(kind, size, op, devIn, x, y) /\ Served(x, Rest) /\ Underway(y)
    BY <2>1
  <2>3. x = size + 1 /\ phase = "ready"
    BY <1>4, <1>18, <2>2 DEF Served
  <2>4. Served(x, Rest)'
    BY <1>2, <2>3 DEF Served
  <2>5. Underway(y)'
    BY <1>2, <1>3, <2>2, UnderwaySame
  <2> QED BY <1>2, <2>2, <2>4, <2>5 DEF InOrder
<1> QED BY <1>5, <1>17, <1>19 DEF Flow

-----------------------------------------------------------------------------
(* The device receives and replies *)

LEMMA FlowDevReceive ==
  ASSUME TransferInv, Running, InTransfer, Transfer!DevReceive
  PROVE  Flow'
<1> DEFINE m == Head(toService)
           close == Transfer!Msg("CLSE", m.id, <<>>)
           current == m.id = op /\ phase # "closed"
<1>1. /\ Flow /\ TransferTypes /\ devId = op /\ op \in Nat /\ size \in Nat /\ <<>> \in Seq(Datum)
      /\ toService \in Seq(Mail) /\ toPuller \in Seq(Mail) /\ devIn \in Seq(Seq(Datum))
  BY RunningTypes
<1>2. /\ toService # <<>> /\ toService' = Tail(toService)
      /\ UNCHANGED <<op, kind, size, at, after, sent, want, canWrite, buffer, got>>
  BY DEF Transfer!DevReceive, Transfer!hostVars
<1>3. m \in Mail /\ m.cmd # "OPEN"
  <2>1. m \in Mail /\ m \in In(toService)
    BY <1>1, <1>2, TailShape, InTail
  <2> QED BY <2>1 DEF Running, NoOpen
<1>4. TakenFrom(op, toService, toService', m)
  BY <1>1, <1>2, Taking DEF Flow, OneAtATime
<1>5. \/ /\ m.cmd = "WRTE" /\ current
         /\ devIn' = Append(devIn, m.body) /\ owes' = TRUE
         /\ UNCHANGED <<devId, phase, toPuller, devOut, devAwait, file, stored>>
      \/ /\ m.cmd = "OKAY" /\ current
         /\ devAwait' = FALSE
         /\ UNCHANGED <<devId, phase, toPuller, devIn, owes, devOut, file, stored>>
      \/ /\ m.cmd = "CLSE" /\ current
         /\ phase' = "closed" /\ toPuller' = Append(toPuller, close)
         /\ UNCHANGED <<devId, devIn, owes, devOut, devAwait, file, stored>>
      \/ /\ ~current
         /\ UNCHANGED <<toPuller, devId, phase, devIn, owes, devOut, devAwait, file, stored>>
  BY <1>1, <1>3 DEF Transfer!DevReceive, Transfer!deviceVars
<1>6. m.id \in Nat /\ m.body \in Seq(Datum)
  BY <1>3 DEF Mail
<1>7. close \in Mail /\ close.cmd = "CLSE"
  BY <1>1, <1>6, Closing
<1>8. ~Fits(close, "WRTE", op) /\ ~Fits(close, "OKAY", op)
  BY <1>7 DEF Fits
<1> HIDE DEF m, close
<1>9. Now' = Now /\ HostAt' = HostAt
  BY <1>2 DEF Now, HostAt
<1>10. CASE m.cmd = "WRTE" /\ current
  <2>1. /\ devIn' = Append(devIn, m.body) /\ owes' = TRUE
        /\ UNCHANGED <<devId, phase, toPuller, devOut, devAwait, file, stored>>
    BY <1>5, <1>10
  <2>2. Fits(m, "WRTE", op) /\ ~Fits(m, "OKAY", op)
    BY <1>10 DEF Fits
  <2>3. OneAtATime'
    BY <1>1, <1>2, <1>4, <2>1, <2>2 DEF Flow, OneAtATime, TakenFrom
  <2>4. Rest' = Rest
    BY <1>2, <2>1 DEF Rest
  <2>5. Stage(Rest)'
    BY <1>1, <1>2, <1>9, <2>1, <2>4, StageSame DEF Flow
  <2>6. ASSUME phase' # "closed" PROVE InOrder'
    <3>1. PICK x \in Int : \E y \in Int : Leads(kind, size, op, devIn, x, y) /\ Served(x, Rest) /\ Underway(y)
      BY <1>1, <2>1, <2>6 DEF Flow, InOrder
    <3>2. PICK y \in Int : Leads(kind, size, op, devIn, x, y) /\ Served(x, Rest) /\ Underway(y)
      BY <3>1
    <3>3. Goes(kind, size, op, m.body, y, HostAt)
      BY <1>4, <2>2, <3>2 DEF Underway, TakenFrom
    <3>4. HostAt \in Int
      BY <1>1 DEF HostAt, TransferTypes
    <3>5. Leads(kind, size, op, devIn', x, HostAt)
      <4> DEFINE p == m.body
                 z == HostAt
      <4>1. p \in Seq(Datum) /\ z \in Int /\ Goes(kind, size, op, p, y, z)
        BY <1>6, <3>3, <3>4
      <4> HIDE DEF p, z
      <4>2. Leads(kind, size, op, Append(devIn, p), x, z)
        BY <1>1, <3>2, <4>1, LeadsAppend
      <4> QED BY <2>1, <4>2 DEF p, z
    <3>6. Served(x, Rest)'
      BY <1>2, <1>9, <2>1, <2>4, <3>2, ServedSame
    <3>7. \E y1 \in Int : Leads(kind', size', op', devIn', x, y1) /\ Served(x, Rest)' /\ Underway(y1)'
      <4>1. ASSUME NEW z, z = HostAt PROVE Leads(kind', size', op', devIn', x, z) /\ Underway(z)'
        BY <1>2, <1>4, <1>9, <2>2, <3>5, <4>1 DEF Underway, TakenFrom
      <4> QED BY <3>4, <3>6, <4>1
    <3> QED BY <3>7 DEF InOrder
  <2> QED BY <2>3, <2>5, <2>6 DEF Flow
<1>11. CASE m.cmd = "OKAY" /\ current
  <2>1. /\ devAwait' = FALSE
        /\ UNCHANGED <<devId, phase, toPuller, devIn, owes, devOut, file, stored>>
    BY <1>5, <1>11
  <2>2. ~Fits(m, "WRTE", op) /\ Fits(m, "OKAY", op)
    BY <1>11 DEF Fits
  <2>3. OneAtATime'
    BY <1>1, <1>2, <1>4, <2>1, <2>2 DEF Flow, OneAtATime, TakenFrom
  <2>4. Rest' = Rest
    BY <1>2, <2>1 DEF Rest
  <2>5. Stage(Rest)'
    BY <1>1, <1>2, <1>9, <2>1, <2>4, StageSame DEF Flow
  <2>6. phase' # "closed" => InOrder'
    <3>1. Carried(op, toService') = Carried(op, toService) /\ (Has("WRTE", op, toService) <=> Has("WRTE", op, toService'))
      BY <1>4, <2>2 DEF TakenFrom
    <3> QED BY <1>1, <1>2, <1>9, <2>1, <2>4, <3>1, InOrderSame DEF Flow
  <2> QED BY <2>3, <2>5, <2>6 DEF Flow
<1>12. CASE m.cmd = "CLSE" /\ current
  <2>1. /\ phase' = "closed" /\ toPuller' = Append(toPuller, close)
        /\ UNCHANGED <<devId, devIn, owes, devOut, devAwait, file, stored>>
    BY <1>5, <1>12
  <2>2. ~Fits(m, "WRTE", op) /\ ~Fits(m, "OKAY", op)
    BY <1>12 DEF Fits
  <2>3. AddedTo(op, toPuller, toPuller', close)
    BY <1>1, <1>7, <1>8, <2>1, Adding DEF Flow, OneAtATime
  <2>4. OneAtATime'
    BY <1>1, <1>2, <1>4, <1>8, <2>1, <2>2, <2>3 DEF Flow, OneAtATime, TakenFrom, AddedTo
  <2>5. Rest' = Rest
    BY <1>2, <1>8, <2>1, <2>3 DEF Rest, AddedTo
  <2>6. Stage(Rest)'
    BY <1>1, <1>2, <1>9, <2>1, <2>5, StageSame DEF Flow
  <2> QED BY <2>1, <2>4, <2>6 DEF Flow
<1>13. CASE ~current
  <2>1. UNCHANGED <<toPuller, devId, phase, devIn, owes, devOut, devAwait, file, stored>>
    BY <1>5, <1>13
  <2>2. OneAtATime'
    BY <1>1, <1>2, <1>4, <2>1 DEF Flow, OneAtATime, TakenFrom
  <2>3. Rest' = Rest
    BY <1>2, <2>1 DEF Rest
  <2>4. Stage(Rest)'
    BY <1>1, <1>2, <1>9, <2>1, <2>3, StageSame DEF Flow
  <2>5. ASSUME phase' # "closed" PROVE InOrder'
    <3>1. ~Fits(m, "WRTE", op)
      BY <1>13, <2>1, <2>5 DEF Fits
    <3>2. Carried(op, toService') = Carried(op, toService) /\ (Has("WRTE", op, toService) <=> Has("WRTE", op, toService'))
      BY <1>4, <3>1 DEF TakenFrom
    <3> QED BY <1>1, <1>2, <1>9, <2>1, <2>3, <2>5, <3>2, InOrderSame DEF Flow
  <2> QED BY <2>2, <2>4, <2>5 DEF Flow
<1> QED BY <1>5, <1>10, <1>11, <1>12, <1>13

LEMMA FlowDevAck ==
  ASSUME TransferInv, Running, InTransfer, Transfer!DevAck
  PROVE  Flow'
<1> DEFINE okay == Transfer!Msg("OKAY", op, <<>>)
<1>1. Flow /\ devId = op /\ op \in Nat /\ <<>> \in Seq(Datum) /\ toPuller \in Seq(Mail)
  BY RunningTypes
<1>2. /\ owes /\ owes' = FALSE /\ toPuller' = Append(toPuller, okay)
      /\ UNCHANGED <<op, kind, size, at, after, sent, want, canWrite, buffer, got, toService,
                     devId, phase, devIn, devOut, devAwait, file, stored>>
  BY <1>1 DEF Transfer!DevAck, Transfer!hostVars
<1>3. okay \in Mail /\ okay.id = op /\ okay.cmd = "OKAY"
  BY <1>1, Okaying
<1>4. Fits(okay, "OKAY", op) /\ ~Fits(okay, "WRTE", op)
  BY <1>3 DEF Fits
<1> HIDE DEF okay
<1>5. AddedTo(op, toPuller, toPuller', okay)
  BY <1>1, <1>2, <1>3, <1>4, Adding DEF Flow, OneAtATime
<1>6. OneAtATime'
  BY <1>1, <1>2, <1>4, <1>5 DEF Flow, OneAtATime, AddedTo
<1>7. Rest' = Rest /\ Now' = Now
  BY <1>2, <1>4, <1>5 DEF Rest, AddedTo, Now
<1>8. Stage(Rest)'
  BY <1>1, <1>2, <1>7, StageSame DEF Flow
<1>9. phase' # "closed" => InOrder'
  BY <1>1, <1>2, <1>7, InOrderSame DEF Flow
<1> QED BY <1>6, <1>8, <1>9 DEF Flow

LEMMA FlowDevDies ==
  ASSUME TransferInv, Running, InTransfer, Transfer!DevDies
  PROVE  Flow'
<1> DEFINE close == Transfer!Msg("CLSE", op, <<>>)
<1>1. Flow /\ devId = op /\ op \in Nat /\ <<>> \in Seq(Datum) /\ toPuller \in Seq(Mail)
  BY RunningTypes
<1>2. /\ phase' = "closed" /\ toPuller' = Append(toPuller, close)
      /\ UNCHANGED <<op, kind, size, at, after, sent, want, canWrite, buffer, got, toService,
                     devId, devIn, owes, devOut, devAwait, file, stored>>
  BY <1>1 DEF Transfer!DevDies, Transfer!hostVars
<1>3. close \in Mail /\ close.cmd = "CLSE"
  BY <1>1, Closing
<1>4. ~Fits(close, "OKAY", op) /\ ~Fits(close, "WRTE", op)
  BY <1>3 DEF Fits
<1> HIDE DEF close
<1>5. AddedTo(op, toPuller, toPuller', close)
  BY <1>1, <1>2, <1>3, <1>4, Adding DEF Flow, OneAtATime
<1>6. OneAtATime'
  BY <1>1, <1>2, <1>4, <1>5 DEF Flow, OneAtATime, AddedTo
<1>7. Rest' = Rest /\ Now' = Now
  BY <1>2, <1>4, <1>5 DEF Rest, AddedTo, Now
<1>8. Stage(Rest)'
  BY <1>1, <1>2, <1>7, StageSame DEF Flow
<1> QED BY <1>2, <1>6, <1>8 DEF Flow

LEMMA FlowDevReply ==
  ASSUME TransferInv, Running, InTransfer, Transfer!DevReply
  PROVE  Flow'
<1>1. Flow /\ devId = op /\ op \in Nat /\ <<>> \in Seq(Datum) /\ toPuller \in Seq(Mail) /\ devOut \in Seq(Datum)
      /\ buffer \in Seq(Datum)
  BY RunningTypes
<1>2. PICK n \in 1..Transfer!Least(Burst, Len(devOut)) :
        /\ toPuller' = Append(toPuller, Transfer!Msg("WRTE", devId, SubSeq(devOut, 1, n)))
        /\ devOut' = SubSeq(devOut, n + 1, Len(devOut))
  BY DEF Transfer!DevReply
<1>3. /\ ~devAwait /\ devAwait' = TRUE
      /\ UNCHANGED <<op, kind, size, at, after, sent, want, canWrite, buffer, got, toService,
                     devId, phase, devIn, owes, file, stored>>
  BY DEF Transfer!DevReply, Transfer!hostVars
<1>4. n \in 0..Len(devOut)
  BY <1>1, TransferBounds DEF Transfer!Least
<1> DEFINE f == SubSeq(devOut, 1, n)
           m == Transfer!Msg("WRTE", op, f)
<1>5. f \in Seq(Datum) /\ devOut' \in Seq(Datum) /\ f \o devOut' = devOut
  BY <1>1, <1>2, <1>4, SplitAt
<1>6. m \in Mail /\ m.id = op /\ m.cmd = "WRTE" /\ m.body = f /\ toPuller' = Append(toPuller, m)
  BY <1>1, <1>2, <1>5, Writing
<1> HIDE DEF f, m
<1>7. Fits(m, "WRTE", op) /\ ~Fits(m, "OKAY", op)
  BY <1>6 DEF Fits
<1>8. ~Has("WRTE", op, toPuller) /\ ~Has("OKAY", op, toService)
  BY <1>1, <1>3 DEF Flow, OneAtATime
<1>9. AddedTo(op, toPuller, toPuller', m)
  BY <1>1, <1>6, <1>7, <1>8, Adding DEF Flow, OneAtATime
<1>10. OneAtATime'
  BY <1>1, <1>3, <1>7, <1>8, <1>9 DEF Flow, OneAtATime, AddedTo
<1>11. Rest' = Rest
  <2>1. Carried(op, toPuller) = <<>> /\ Carried(op, toPuller') = f
    BY <1>6, <1>7, <1>8, <1>9, CarriedNothing DEF AddedTo
  <2>2. <<>> \o devOut = devOut
    BY <1>1, ConcatEmptySeq
  <2> QED BY <1>3, <1>5, <2>1, <2>2 DEF Rest
<1>12. Now' = Now
  BY <1>3 DEF Now
<1>13. Stage(Rest)'
  BY <1>1, <1>3, <1>11, <1>12, StageSame DEF Flow
<1>14. phase' # "closed" => InOrder'
  BY <1>1, <1>3, <1>11, <1>12, InOrderSame DEF Flow
<1> QED BY <1>10, <1>13, <1>14 DEF Flow

-----------------------------------------------------------------------------
(* The service takes a packet *)

\* When nothing is left to read, the next reply is all there is.
LEMMA NothingLeft ==
  ASSUME TransferInv, Running, InTransfer, Rest = <<>>
  PROVE  buffer = <<>> /\ Carried(op, toPuller) = <<>> /\ devOut = <<>>
<1> DEFINE w == Carried(op, toPuller)
           z == w \o devOut
<1>1. buffer \in Seq(Datum) /\ w \in Seq(Datum) /\ devOut \in Seq(Datum) /\ buffer \o z = <<>>
  BY RunningTypes DEF Rest
<1> HIDE DEF w
<1>2. z \in Seq(Datum)
  BY <1>1, ConcatProperties
<1> HIDE DEF z
<1>3. buffer = <<>> /\ z = <<>>
  BY <1>1, <1>2, ConcatEmptySeq
<1>4. w = <<>> /\ devOut = <<>>
  BY <1>1, <1>3, ConcatEmptySeq DEF z
<1> QED BY <1>3, <1>4 DEF w

LEMMA NewReply ==
  ASSUME TransferInv, Running, InTransfer, Rest = <<>>, UNCHANGED <<op, buffer, toPuller>>, devOut' \in Seq(Datum)
  PROVE  Rest' = devOut'
<1>1. buffer = <<>> /\ Carried(op, toPuller) = <<>>
  BY NothingLeft
<1>2. Rest' = <<>> \o (<<>> \o devOut')
  BY <1>1 DEF Rest
<1> QED BY <1>2, ConcatEmptySeq

\* The service has taken a packet.
LEMMA FlowServes ==
  ASSUME TransferInv, Running, InTransfer,
         UNCHANGED <<op, kind, size, at, after, sent, want, canWrite, buffer, got, toService, toPuller,
                     devId, owes, devAwait>>,
         NEW v \in Int, NEW y \in Int, Leads(kind, size, op, devIn', v, y), Underway(y),
         Served(v, Rest)', Stage(Rest)'
  PROVE  Flow'
<1>1. OneAtATime'
  BY RunningTypes DEF Flow, OneAtATime
<1>2. HostAt' = HostAt
  BY DEF HostAt, Now
<1>3. Underway(y)'
  BY <1>2, UnderwaySame
<1>4. InOrder'
  BY <1>3 DEF InOrder
<1> QED BY <1>1, <1>4 DEF Flow

LEMMA PacketShape ==
  ASSUME NEW id \in Nat, NEW a \in Nat, NEW b \in Nat, a <= b
  PROVE  LET p == <<"DATA">> \o Transfer!Units(id, a + 1, b)
         IN  p[1] = "DATA" /\ Tail(p) = Transfer!Units(id, a + 1, b)
<1> DEFINE w == <<"DATA">>
           u == Transfer!Units(id, a + 1, b)
           p == w \o u
<1>1. w \in Seq(Datum) /\ Len(w) = 1 /\ w[1] = "DATA"
  BY Words
<1>2. u \in Seq(Datum) /\ Len(u) \in Nat
  BY UnitsShape
<1> HIDE DEF w, u
<1>3. /\ p \in Seq(Datum) /\ Len(p) = 1 + Len(u)
      /\ p[1] = w[1] /\ \A i \in 1..Len(u) : p[i + 1] = u[i]
  BY <1>1, <1>2, ConcatProperties
<1>4. p # <<>>
  BY <1>2, <1>3, EmptySeq
<1> HIDE DEF p
<1>5. Tail(p) \in Seq(Datum) /\ Len(Tail(p)) = Len(u) /\ \A i \in 1..Len(u) : Tail(p)[i] = p[i + 1]
  BY <1>2, <1>3, <1>4, HeadTailProperties
<1>6. Tail(p) = u
  BY <1>2, <1>3, <1>5, SeqEqual
<1> QED BY <1>1, <1>3, <1>6 DEF p, w, u

\* The packet that is served takes the service from x to v, which the host is past.
Serves(p, x, v) == Goes(kind, size, op, p, x, v) /\ Served(x, Rest) /\ v <= HostAt

LEMMA ServedInOrder ==
  ASSUME TransferInv, Running, InTransfer, Transfer!DevServe
  PROVE  /\ \E x \in Int : \E v \in Int : \E y \in Int :
              Serves(Head(devIn), x, v) /\ Leads(kind, size, op, Tail(devIn), v, y) /\ Underway(y)
         /\ UNCHANGED <<op, kind, size, at, after, sent, want, canWrite, buffer, got, toService, devId, devAwait>>
         /\ devIn' = Tail(devIn) /\ devOut = <<>> /\ phase # "closed"
<1>1. /\ UNCHANGED <<op, kind, size, at, after, sent, want, canWrite, buffer, got, toService, devId, devAwait>>
      /\ devIn' = Tail(devIn) /\ devOut = <<>> /\ phase # "closed" /\ devIn # <<>>
  BY DEF Transfer!DevServe, Transfer!hostVars
<1>2. Flow /\ size \in Nat /\ devIn \in Seq(Seq(Datum)) /\ TransferTypes
  BY RunningTypes
<1>3. PICK x \in Int : \E y \in Int : Leads(kind, size, op, devIn, x, y) /\ Served(x, Rest) /\ Underway(y)
  BY <1>1, <1>2 DEF Flow, InOrder
<1>4. PICK y \in Int : Leads(kind, size, op, devIn, x, y) /\ Served(x, Rest) /\ Underway(y)
  BY <1>3
<1>5. PICK v \in Int : Goes(kind, size, op, Head(devIn), x, v) /\ Leads(kind, size, op, Tail(devIn), v, y)
  BY <1>1, <1>2, <1>4, LeadsFirst
<1>6. v <= y
  <2>1. Tail(devIn) \in Seq(Seq(Datum))
    BY <1>1, <1>2, HeadTailProperties
  <2> DEFINE rest == Tail(devIn)
  <2>2. Len(rest) \in Nat /\ Leads(kind, size, op, rest, v, y)
    BY <1>5, <2>1, LenProperties
  <2> HIDE DEF rest
  <2> QED BY <1>2, <2>2, LeadsOn
<1>7. HostAt \in Int
  BY <1>2 DEF HostAt, TransferTypes
<1>8. y <= HostAt
  <2>1. CASE Has("WRTE", op, toService)
    <3> DEFINE q == Carried(op, toService)
               z == HostAt
    <3>1. z \in Int /\ Goes(kind, size, op, q, y, z)
      BY <1>4, <1>7, <2>1 DEF Underway
    <3> HIDE DEF q, z
    <3>2. y < z
      BY <1>2, <3>1, GoesOn
    <3> QED BY <1>7, <3>2 DEF z
  <2>2. CASE ~Has("WRTE", op, toService)
    BY <1>4, <1>7, <2>2 DEF Underway
  <2> QED BY <2>1, <2>2
<1>9. v <= HostAt
  BY <1>6, <1>7, <1>8
<1> QED BY <1>1, <1>4, <1>5, <1>9 DEF Serves

LEMMA Commands ==
  /\ <<"SEND">>[1] = "SEND" /\ Tail(<<"SEND">>) = <<>> /\ <<"DONE">>[1] = "DONE"
  /\ <<"RECV">>[1] = "RECV" /\ <<"QUIT">>[1] = "QUIT"
  OBVIOUS

LEMMA ServesSend ==
  ASSUME TransferInv, Running, InTransfer, Transfer!DevServe, Serves(Head(devIn), -1, 0),
         Head(devIn) = <<"SEND">>, kind = "push"
  PROVE  Served(0, Rest)' /\ Stage(Rest)' /\ UNCHANGED <<toPuller, owes>>
<1>2. Head(devIn)[1] = "SEND" /\ Tail(Head(devIn)) = <<>>
  BY Commands
<1>3. /\ UNCHANGED <<op, kind, size, at, after, sent, want, canWrite, buffer, got>> /\ devOut = <<>>
      /\ UNCHANGED <<toPuller, owes>>
      /\ \/ phase' = "receive" /\ file' = file \o <<>> /\ UNCHANGED <<devOut, stored>>
         \/ phase' = "drain" /\ devOut' = Transfer!Failure /\ UNCHANGED <<file, stored>>
         \/ phase = "drain"
  BY <1>2 DEF Transfer!DevServe, Transfer!hostVars
<1>4. Now' = Now
  BY <1>3 DEF Now
<1>5. Flow /\ op \in Nat /\ size \in Nat
  BY RunningTypes
<1>6. Now \in {"data", "status"} /\ phase = "ready" /\ Rest = <<>> /\ file = <<>> /\ got = <<>>
  BY <1>5 DEF Serves, Served, HostAt, Stage, Flow
<1>7. CASE phase' = "receive" /\ file' = file \o <<>> /\ UNCHANGED <<devOut, stored>>
  <2>1. Rest' = Rest
    BY <1>3, <1>7 DEF Rest
  <2>2. Stage(Rest)'
    BY <1>3, <1>4, <1>5, <1>7, <2>1, StageSame DEF Flow
  <2>3. Transfer!Units(op, 1, 0) = <<>>
    BY <1>5, NoUnitsYet
  <2>4. Served(0, Rest)'
    BY <1>3, <1>4, <1>5, <1>6, <1>7, <2>1, <2>3 DEF Served
  <2> QED BY <1>3, <2>2, <2>4
<1>8. CASE phase' = "drain" /\ devOut' = Transfer!Failure /\ UNCHANGED <<file, stored>>
  <2>1. Rest' = Transfer!Failure
    BY <1>3, <1>6, <1>8, NewReply, Failures
  <2>2. Stage(Rest)'
    BY <1>3, <1>4, <1>5, <1>6, <2>1 DEF Flow, Stage, Transfer!Failure, Transfer!Header
  <2>3. Served(0, Rest)'
    BY <1>3, <1>4, <1>5, <1>6, <1>8, <2>1 DEF Served, Transfer!Failure, Transfer!Header
  <2> QED BY <1>3, <2>2, <2>3
<1> QED BY <1>3, <1>6, <1>7, <1>8

LEMMA ServesData ==
  ASSUME TransferInv, Running, InTransfer, Transfer!DevServe, NEW x \in Nat, NEW v \in Nat, x < v, v <= size,
         Serves(Head(devIn), x, v), Head(devIn) = <<"DATA">> \o Transfer!Units(op, x + 1, v), kind = "push"
  PROVE  Served(v, Rest)' /\ Stage(Rest)' /\ UNCHANGED <<toPuller, owes>>
<1>1. Flow /\ op \in Nat /\ size \in Nat
  BY RunningTypes
<1>2. Head(devIn)[1] = "DATA" /\ Tail(Head(devIn)) = Transfer!Units(op, x + 1, v)
  <2>1. x <= v
    OBVIOUS
  <2> DEFINE p == <<"DATA">> \o Transfer!Units(op, x + 1, v)
  <2>2. p[1] = "DATA" /\ Tail(p) = Transfer!Units(op, x + 1, v)
    BY <1>1, <2>1, PacketShape
  <2>3. Head(devIn) = p
    OBVIOUS
  <2> QED BY <2>2, <2>3
<1>3. /\ UNCHANGED <<op, kind, size, at, after, sent, want, canWrite, buffer, got>> /\ devOut = <<>>
      /\ UNCHANGED <<toPuller, owes>>
      /\ \/ phase # "drain" /\ phase' = "receive" /\ file' = file \o Transfer!Units(op, x + 1, v) /\ UNCHANGED <<devOut, stored>>
         \/ phase # "drain" /\ phase' = "drain" /\ devOut' = Transfer!Failure /\ UNCHANGED <<file, stored>>
         \/ phase = "drain" /\ phase' = "drain" /\ UNCHANGED <<devOut, file, stored>>
  BY <1>2 DEF Transfer!DevServe, Transfer!hostVars
<1>4. Now' = Now
  BY <1>3 DEF Now
<1>5. /\ x \in 0..size /\ v \in 0..size /\ Now \in {"data", "status", "reason"}
      /\ \/ phase = "receive" /\ Rest = <<>> /\ file = Transfer!Units(op, 1, x) /\ Now # "reason"
         \/ phase = "drain" /\ (Rest = Transfer!Failure \/ Now = "reason")
  BY <1>1 DEF Serves, Served
<1>6. CASE phase = "receive" /\ phase' = "receive" /\ file' = file \o Transfer!Units(op, x + 1, v) /\ UNCHANGED <<devOut, stored>>
  <2>1. Rest' = Rest
    BY <1>3, <1>6 DEF Rest
  <2>2. Stage(Rest)'
    BY <1>1, <1>3, <1>4, <1>6, <2>1, StageSame DEF Flow
  <2>3. file' = Transfer!Units(op, 1, v)
    <3> DEFINE b == x
               c == v
               id == op
    <3>1. id \in Nat /\ b \in Nat /\ c \in Nat /\ b <= c
      BY <1>1
    <3> HIDE DEF b, c, id
    <3>2. Transfer!Units(id, 1, b) \o Part(id, b, c) = Transfer!Units(id, 1, c)
      BY <3>1, MoreUnits
    <3> QED BY <1>5, <1>6, <3>2 DEF Part, b, c, id
  <2>4. Served(v, Rest)'
    BY <1>3, <1>4, <1>5, <1>6, <2>1, <2>3 DEF Served
  <2> QED BY <1>3, <2>2, <2>4
<1>7. CASE phase = "receive" /\ phase' = "drain" /\ devOut' = Transfer!Failure /\ UNCHANGED <<file, stored>>
  <2>1. Rest' = Transfer!Failure
    BY <1>3, <1>5, <1>7, NewReply, Failures
  <2>2. Stage(Rest)'
    BY <1>1, <1>3, <1>4, <1>5, <1>7, <2>1 DEF Flow, Stage, Transfer!Failure, Transfer!Header
  <2>3. Served(v, Rest)'
    BY <1>3, <1>4, <1>5, <1>7, <2>1 DEF Served, Transfer!Failure, Transfer!Header
  <2> QED BY <1>3, <2>2, <2>3
<1>8. CASE phase = "drain" /\ phase' = "drain" /\ UNCHANGED <<devOut, file, stored>>
  <2>1. Rest' = Rest
    BY <1>3, <1>8 DEF Rest
  <2>2. Stage(Rest)'
    BY <1>1, <1>3, <1>4, <1>8, <2>1, StageSame DEF Flow
  <2>3. Served(v, Rest)'
    BY <1>3, <1>4, <1>5, <1>8, <2>1 DEF Served, Transfer!Failure, Transfer!Header
  <2> QED BY <1>3, <2>2, <2>3
<1> QED BY <1>3, <1>5, <1>6, <1>7, <1>8

LEMMA ServesDone ==
  ASSUME TransferInv, Running, InTransfer, Transfer!DevServe,
         Serves(Head(devIn), size, size + 1), Head(devIn) = <<"DONE">>, kind = "push",
         NEW v \in Int, v = size + 1
  PROVE  Served(v, Rest)' /\ Stage(Rest)' /\ UNCHANGED <<toPuller, owes>>
<1>1. Flow /\ op \in Nat /\ size \in Nat /\ sent \in Nat
  BY RunningTypes DEF TransferTypes
<1>2. Head(devIn)[1] = "DONE"
  BY Commands
<1>3. /\ UNCHANGED <<op, kind, size, at, after, sent, want, canWrite, buffer, got>> /\ devOut = <<>>
      /\ UNCHANGED <<toPuller, owes>> /\ phase' = "ready"
      /\ \/ phase # "drain" /\ devOut' = Status /\ stored' = file /\ UNCHANGED file
         \/ phase # "drain" /\ devOut' = Transfer!Failure /\ UNCHANGED <<file, stored>>
         \/ phase = "drain" /\ UNCHANGED <<devOut, file, stored>>
  BY <1>2 DEF Transfer!DevServe, Transfer!hostVars, Status
<1>4. Now' = Now
  BY <1>3 DEF Now
<1>5. /\ Now \in {"status", "reason"}
      /\ \/ phase = "receive" /\ Rest = <<>> /\ file = Transfer!Units(op, 1, size) /\ Now # "reason"
         \/ phase = "drain"
  BY <1>1 DEF Serves, Served, HostAt, Stage, Flow
<1>6. Served(v, Rest)'
  BY <1>1, <1>3 DEF Served
<1>7. CASE phase = "receive" /\ devOut' = Status /\ stored' = file
  <2>1. Rest' = Status
    BY <1>3, <1>5, <1>7, NewReply, Replies
  <2>2. Stage(Rest)'
    BY <1>1, <1>3, <1>4, <1>5, <1>7, <2>1 DEF Flow, Stage, Transfer!Content, Status, Transfer!Header
  <2> QED BY <1>3, <1>6, <2>2
<1>8. CASE phase = "receive" /\ devOut' = Transfer!Failure /\ UNCHANGED <<file, stored>>
  <2>1. Rest' = Transfer!Failure
    BY <1>3, <1>5, <1>8, NewReply, Failures
  <2>2. Stage(Rest)'
    BY <1>1, <1>3, <1>4, <1>5, <1>8, <2>1 DEF Flow, Stage, Transfer!Failure, Transfer!Header
  <2> QED BY <1>3, <1>6, <2>2
<1>9. CASE phase = "drain" /\ UNCHANGED <<devOut, file, stored>>
  <2>1. Rest' = Rest
    BY <1>3, <1>9 DEF Rest
  <2>2. Stage(Rest)'
    BY <1>1, <1>3, <1>4, <1>9, <2>1, StageSame DEF Flow
  <2> QED BY <1>3, <1>6, <2>2
<1> QED BY <1>3, <1>5, <1>7, <1>8, <1>9

LEMMA ServesReceive ==
  ASSUME TransferInv, Running, InTransfer, Transfer!DevServe,
         Serves(Head(devIn), -1, size + 1), Head(devIn) = <<"RECV">>, kind = "pull",
         NEW v \in Int, v = size + 1
  PROVE  Served(v, Rest)' /\ Stage(Rest)' /\ UNCHANGED <<toPuller, owes>>
<1>1. Flow /\ op \in Nat /\ size \in Nat /\ devId = op
  BY RunningTypes
<1>2. Head(devIn)[1] = "RECV"
  BY Commands
<1>3. /\ UNCHANGED <<op, kind, size, at, after, sent, want, canWrite, buffer, got>> /\ devOut = <<>>
      /\ UNCHANGED <<toPuller, owes, phase, file, stored>>
      /\ devOut' \in {Transfer!Chunks(op, size)[size] \o Done}
                  \cup {Transfer!Chunks(op, n)[n] \o Transfer!Failure : n \in 0..size}
  BY <1>1, <1>2 DEF Transfer!DevServe, Transfer!hostVars, Done
<1>4. Now' = Now
  BY <1>3 DEF Now
<1>5. Now = "header" /\ phase = "ready" /\ Rest = <<>> /\ file = <<>> /\ got = <<>>
  <2>1. Now \notin {"opening", "request"} /\ Now \notin {"data", "status"}
    <3>1. Now \in {"opening", "request", "header", "chunk", "reason", "quit", "close"}
      BY <1>1 DEF Stage, Flow
    <3>2. size + 1 <= HostAt
      BY DEF Serves
    <3>3. Now \in {"opening", "request"} => HostAt = -1
      BY DEF HostAt
    <3> QED BY <1>1, <3>1, <3>2, <3>3
  <2>2. ~(-1 \in 0..size) /\ -1 # size + 1
    BY <1>1
  <2>3. Served(-1, Rest)
    BY DEF Serves
  <2> QED BY <2>1, <2>2, <2>3 DEF Served
<1>6. Served(v, Rest)'
  BY <1>1, <1>3, <1>5 DEF Served
<1>7. PICK n \in 0..size : \E end \in {Done, Transfer!Failure} :
        EndsWith(n, end) /\ devOut' = Transfer!Chunks(op, n)[n] \o end
  BY <1>1, <1>3 DEF EndsWith
<1>8. PICK end \in {Done, Transfer!Failure} : EndsWith(n, end) /\ devOut' = Transfer!Chunks(op, n)[n] \o end
  BY <1>7
<1>9. devOut' \in Seq(Datum)
  <2> DEFINE a == Transfer!Chunks(op, n)[n]
             b == end
  <2>1. a \in Seq(Datum)
    BY <1>1, ChunksType
  <2>2. b \in Seq(Datum)
    BY <1>8, Replies, Failures
  <2> HIDE DEF a, b
  <2>3. a \o b \in Seq(Datum)
    BY <2>1, <2>2, ConcatProperties
  <2> QED BY <1>8, <2>3 DEF a, b
<1>10. Rest' = devOut'
  BY <1>3, <1>5, <1>9, NewReply
<1>11. Transfer!Units(op, 1, 0) = <<>>
  BY <1>1, NoUnitsYet
<1>12. Reading(Rest)'
  <2>1. 0 \in 0..n /\ n - 0 = n
    BY <1>1
  <2>2. EndsWith(n, end)' /\ op' = op /\ size' = size /\ got' = got
    BY <1>3, <1>8 DEF EndsWith
  <2> QED BY <1>5, <1>8, <1>10, <1>11, <2>1, <2>2 DEF Reading
<1>13. Stage(Rest)'
  BY <1>1, <1>3, <1>4, <1>5, <1>12 DEF Flow, Stage
<1> QED BY <1>3, <1>6, <1>13

LEMMA ServesQuit ==
  ASSUME TransferInv, Running, InTransfer, Transfer!DevServe,
         Serves(Head(devIn), size + 1, size + 2), Head(devIn) = <<"QUIT">>
  PROVE  Flow'
<1> DEFINE okay == Transfer!Msg("OKAY", op, <<>>)
           close == Transfer!Msg("CLSE", op, <<>>)
           acked == IF owes THEN Append(toPuller, okay) ELSE toPuller
<1>1. /\ Flow /\ op \in Nat /\ size \in Nat /\ devId = op /\ <<>> \in Seq(Datum) /\ toPuller \in Seq(Mail)
  BY RunningTypes
<1>2. Head(devIn)[1] = "QUIT"
  BY Commands
<1>3. /\ UNCHANGED <<op, kind, size, at, after, sent, want, canWrite, buffer, got, toService, devAwait, stored>>
      /\ devOut' = <<>> /\ devOut = <<>> /\ phase' = "closed" /\ owes' = FALSE /\ toPuller' = acked \o <<close>>
  BY <1>1, <1>2 DEF Transfer!DevServe, Transfer!hostVars
<1>4. okay \in Mail /\ okay.id = op /\ okay.cmd = "OKAY"
  BY <1>1, Okaying
<1>5. close \in Mail /\ close.cmd = "CLSE"
  BY <1>1, Closing
<1>6. Fits(okay, "OKAY", op) /\ ~Fits(okay, "WRTE", op) /\ ~Fits(close, "OKAY", op) /\ ~Fits(close, "WRTE", op)
  BY <1>4, <1>5 DEF Fits
<1> HIDE DEF okay, close
<1>7. owes => AddedTo(op, toPuller, acked, okay)
  BY <1>1, <1>4, <1>6, Adding DEF Flow, OneAtATime
<1>8. acked \in Seq(Mail) /\ One("WRTE", op, acked) /\ One("OKAY", op, acked)
  BY <1>1, <1>4, <1>7, AppendShape DEF AddedTo, Flow, OneAtATime
<1>9. /\ Has("WRTE", op, acked) <=> Has("WRTE", op, toPuller)
      /\ Has("OKAY", op, acked) <=> Has("OKAY", op, toPuller) \/ owes
      /\ Carried(op, acked) = Carried(op, toPuller)
  BY <1>6, <1>7 DEF AddedTo
<1>10. acked \o <<close>> = Append(acked, close)
  BY <1>5, <1>8, AppendIsConcat
<1> HIDE DEF acked
<1>11. AddedTo(op, acked, toPuller', close)
  BY <1>3, <1>5, <1>6, <1>8, <1>10, Adding
<1>12. OneAtATime'
  BY <1>1, <1>3, <1>6, <1>9, <1>11 DEF Flow, OneAtATime, AddedTo
<1>13. Rest' = Rest /\ Now' = Now
  BY <1>3, <1>6, <1>9, <1>11 DEF Rest, AddedTo, Now
<1>14. Stage(Rest)'
  BY <1>1, <1>3, <1>13, StageSame DEF Flow
<1> QED BY <1>3, <1>12, <1>14 DEF Flow

LEMMA FlowDevServe ==
  ASSUME TransferInv, Running, InTransfer, Transfer!DevServe
  PROVE  Flow'
<1>1. /\ UNCHANGED <<op, kind, size, at, after, sent, want, canWrite, buffer, got, toService, devId, devAwait>>
      /\ devIn' = Tail(devIn)
  BY ServedInOrder
<1>2. size \in Nat
  BY RunningTypes
<1>3. PICK x \in Int : \E v \in Int : \E y \in Int :
        Serves(Head(devIn), x, v) /\ Leads(kind, size, op, Tail(devIn), v, y) /\ Underway(y)
  BY ServedInOrder
<1>4. PICK v \in Int : \E y \in Int :
        Serves(Head(devIn), x, v) /\ Leads(kind, size, op, Tail(devIn), v, y) /\ Underway(y)
  BY <1>3
<1>5. PICK y \in Int : Serves(Head(devIn), x, v) /\ Leads(kind, size, op, Tail(devIn), v, y) /\ Underway(y)
  BY <1>4
<1> DEFINE p == Head(devIn)
<1>6. \/ kind = "push" /\ p = <<"SEND">> /\ x = -1 /\ v = 0
      \/ kind = "push" /\ 0 <= x /\ x < v /\ v <= size /\ p = <<"DATA">> \o Transfer!Units(op, x + 1, v)
      \/ kind = "push" /\ p = <<"DONE">> /\ x = size /\ v = size + 1
      \/ kind = "pull" /\ p = <<"RECV">> /\ x = -1 /\ v = size + 1
      \/ p = <<"QUIT">> /\ x = size + 1 /\ v = size + 2
  BY <1>5 DEF Serves, Goes
<1>7. CASE p = <<"QUIT">> /\ x = size + 1 /\ v = size + 2
  BY <1>5, <1>7, ServesQuit
<1>8. CASE ~(p = <<"QUIT">> /\ x = size + 1 /\ v = size + 2)
  <2>1. Served(v, Rest)' /\ Stage(Rest)' /\ UNCHANGED <<toPuller, owes>>
    <3>1. CASE kind = "push" /\ p = <<"SEND">> /\ x = -1 /\ v = 0
      <4>1. Serves(p, -1, 0)
        BY <1>5, <3>1
      <4>2. Served(0, Rest)' /\ Stage(Rest)' /\ UNCHANGED <<toPuller, owes>>
        BY <3>1, <4>1, ServesSend
      <4> QED BY <3>1, <4>2
    <3>2. CASE kind = "push" /\ 0 <= x /\ x < v /\ v <= size /\ p = <<"DATA">> \o Transfer!Units(op, x + 1, v)
      <4> DEFINE a == x
                 b == v
      <4>1. a \in Nat /\ b \in Nat /\ a < b /\ b <= size
        BY <1>2, <3>2
      <4>2. Serves(Head(devIn), a, b) /\ Head(devIn) = <<"DATA">> \o Transfer!Units(op, a + 1, b)
        BY <1>5, <3>2
      <4> HIDE DEF a, b
      <4>3. Served(b, Rest)' /\ Stage(Rest)' /\ UNCHANGED <<toPuller, owes>>
        BY <3>2, <4>1, <4>2, ServesData
      <4> QED BY <4>3 DEF b
    <3>3. CASE kind = "push" /\ p = <<"DONE">> /\ x = size /\ v = size + 1
      <4>1. Serves(p, size, size + 1)
        BY <1>5, <3>3
      <4> DEFINE b == v
      <4>2. b \in Int /\ b = size + 1
        BY <3>3
      <4> HIDE DEF b
      <4>3. Served(b, Rest)' /\ Stage(Rest)' /\ UNCHANGED <<toPuller, owes>>
        BY <3>3, <4>1, <4>2, ServesDone
      <4> QED BY <4>3 DEF b
    <3>4. CASE kind = "pull" /\ p = <<"RECV">> /\ x = -1 /\ v = size + 1
      <4>1. Serves(p, -1, size + 1)
        BY <1>5, <3>4
      <4> DEFINE b == v
      <4>2. b \in Int /\ b = size + 1
        BY <3>4
      <4> HIDE DEF b
      <4>3. Served(b, Rest)' /\ Stage(Rest)' /\ UNCHANGED <<toPuller, owes>>
        BY <3>4, <4>1, <4>2, ServesReceive
      <4> QED BY <4>3 DEF b
    <3> QED BY <1>6, <1>8, <3>1, <3>2, <3>3, <3>4
  <2>2. Leads(kind, size, op, devIn', v, y) /\ Underway(y)
    BY <1>1, <1>5
  <2> QED BY <1>1, <2>1, <2>2, FlowServes
<1> QED BY <1>7, <1>8

-----------------------------------------------------------------------------
(* Together *)

LEMMA RunningStep ==
  ASSUME TransferInv, Running, Transfer!HostStep \/ Transfer!DeviceStep \/ Transfer!DevDies
  PROVE  Running'
<1>1. devId' = op' /\ NoOpen'
  BY RunningKeeps
<1>2. CASE ~InTransfer
  <2>1. ~Transfer!HostStep
    BY <1>2 DEF InTransfer, Transfer!HostStep, Transfer!IgnoreLate, Transfer!OpenReply, Transfer!Request,
      Transfer!SendData, Transfer!SendDone, Transfer!SendQuit, Transfer!Receive, Transfer!ReadHeader,
      Transfer!ReadChunk, Transfer!ReadReason, Transfer!Close
  <2>2. at' = at
    BY <2>1 DEF Transfer!DeviceStep, Transfer!DevReceive, Transfer!DevAck, Transfer!DevServe,
      Transfer!DevReply, Transfer!DevDies, Transfer!hostVars
  <2> QED BY <1>1, <1>2, <2>2 DEF Running, InTransfer
<1>3. CASE InTransfer /\ InTransfer'
  <2>1. Flow'
    <3>1. CASE Transfer!ReadReason
      BY <1>3, <3>1 DEF InTransfer, Transfer!ReadReason, Transfer!Drop
    <3>2. CASE Transfer!Close
      BY <1>3, <3>2 DEF InTransfer, Transfer!Close
    <3>3. CASE Transfer!IgnoreLate \/ Transfer!OpenReply \/ Transfer!Request
      BY <1>3, <3>3, FlowIgnoreLate, FlowOpenReply, FlowRequest
    <3>4. CASE Transfer!SendData \/ Transfer!SendDone \/ Transfer!SendQuit
      BY <1>3, <3>4, FlowSendData, FlowSendDone, FlowSendQuit
    <3>5. CASE Transfer!Receive \/ Transfer!ReadHeader \/ Transfer!ReadChunk
      BY <1>3, <3>5, FlowReceive, FlowReadHeader, FlowReadChunk
    <3>6. CASE Transfer!DeviceStep
      BY <1>3, <3>6, FlowDevReceive, FlowDevAck, FlowDevServe, FlowDevReply DEF Transfer!DeviceStep
    <3>7. CASE Transfer!DevDies
      BY <1>3, <3>7, FlowDevDies
    <3> QED BY <3>1, <3>2, <3>3, <3>4, <3>5, <3>6, <3>7 DEF Transfer!HostStep
  <2> QED BY <1>1, <2>1 DEF Running
<1>4. CASE ~InTransfer'
  BY <1>1, <1>4 DEF Running
<1> QED BY <1>2, <1>3, <1>4

LEMMA TransferStart == Transfer!Init => TransferInv
<1> SUFFICES ASSUME Transfer!Init PROVE TransferInv
  OBVIOUS
<1>1. In(<<>>) = {}
  BY DEF In
<1>2. TransferTypes
  BY EmptySeq DEF Transfer!Init, TransferTypes
<1>3. Numbered /\ FreshStream /\ Running
  BY <1>1 DEF Transfer!Init, Numbered, FreshStream, Running, NoOpen, InTransfer
<1> QED BY <1>2, <1>3 DEF TransferInv

LEMMA TransferStep == TransferInv /\ [Transfer!Next]_transfer => TransferInv'
<1> SUFFICES ASSUME TransferInv, [Transfer!Next]_transfer PROVE TransferInv'
  OBVIOUS
<1>1. CASE Transfer!Begin
  <2>1. Numbered' /\ FreshStream' /\ Unseen'
    BY <1>1, BeginStep
  <2>2. TransferTypes'
    BY <1>1, TransferTypesStep DEF Transfer!Next
  <2> QED BY <2>1, <2>2 DEF TransferInv
<1>2. CASE Transfer!HostStep \/ Transfer!DeviceStep \/ Transfer!DevDies
  <2>1. Numbered' /\ FreshStream'
    BY <1>2, NumberedStep
  <2>2. TransferTypes'
    BY <1>2, TransferTypesStep DEF Transfer!Next
  <2>3. Unseen' \/ Running'
    <3>1. CASE Running
      BY <1>2, <3>1, RunningStep
    <3>2. CASE Unseen /\ Transfer!DevReceive /\ Head(toService).cmd = "OPEN"
      BY <3>2, SeesOpen
    <3>3. CASE Unseen /\ ~(Transfer!DevReceive /\ Head(toService).cmd = "OPEN")
      BY <1>2, <3>3, UnseenKeeps
    <3> QED BY <3>1, <3>2, <3>3 DEF TransferInv
  <2> QED BY <2>1, <2>2, <2>3 DEF TransferInv
<1>3. CASE UNCHANGED transfer
  <2>1. UNCHANGED <<op, kind, size, at, after, sent, want, canWrite, buffer, got, toService, toPuller,
                    devId, phase, devIn, owes, devOut, devAwait, file, stored>>
    BY <1>3 DEF transfer
  <2>2. TransferTypes' /\ Numbered' /\ FreshStream'
    BY <2>1 DEF TransferInv, TransferTypes, Numbered, FreshStream
  <2>3. Unseen => Unseen'
    BY <2>1 DEF Unseen
  <2>4. Running => Running'
    <3>1. NoOpen' <=> NoOpen
      BY <2>1 DEF NoOpen
    <3>2. InTransfer' <=> InTransfer
      BY <2>1 DEF InTransfer
    <3>3. Now' = Now /\ Rest' = Rest
      BY <2>1 DEF Now, Rest
    <3>4. OneAtATime => OneAtATime'
      BY <2>1 DEF OneAtATime
    <3>5. Stage(Rest) => Stage(Rest)'
      BY <2>1, <3>3, StageSame
    <3>6. InOrder => InOrder'
      BY <2>1, <3>3, InOrderSame
    <3>7. Flow => Flow'
      BY <2>1, <3>4, <3>5, <3>6 DEF Flow
    <3> QED BY <2>1, <3>1, <3>2, <3>7 DEF Running
  <2> QED BY <2>2, <2>3, <2>4 DEF TransferInv
<1> QED BY <1>1, <1>2, <1>3 DEF Transfer!Next

LEMMA FilesFromInv == TransferInv => FilesAreWhole
<1> SUFFICES ASSUME TransferInv, Transfer!Succeeded
             PROVE  /\ kind = "push" => stored = Transfer!Content
                    /\ kind = "pull" => got = Transfer!Content
                    /\ buffer = <<>>
  BY DEF FilesAreWhole, Transfer!PushStores, Transfer!PullReturns, Transfer!NothingLeftOver
<1>1. Now \in {"quit", "close"} /\ InTransfer /\ at # "opening"
  BY DEF Transfer!Succeeded, Now, InTransfer
<1>2. Running
  BY <1>1 DEF TransferInv, Unseen
<1>3. Stage(Rest)
  BY <1>1, <1>2 DEF Running, Flow
<1>4. Rest = <<>> /\ (IF kind = "push" THEN stored = Transfer!Content ELSE got = Transfer!Content)
  BY <1>1, <1>3 DEF Stage
<1>5. buffer = <<>>
  BY <1>1, <1>2, <1>4, NothingLeft
<1> QED BY <1>4, <1>5

LEMMA TransfersStart == HolderInit => Transfer!Init
  BY DEF HolderInit

LEMMA TransfersStep == [HolderNext]_HolderVars => [Transfer!Next]_transfer
  BY DEF HolderNext, HolderVars, OfHandshake, OfTransfer

\* Whatever the sizes, the chunks the file is sent or returned in, and the messages
\* adbd cuts its replies into: when PushBytes or PullBytes succeeds, the device stores
\* or the host has the whole file, and nothing is left for the next transfer to misread.
THEOREM FilesArriveWhole == HolderSpec => []FilesAreWhole
  BY TransfersStart, TransfersStep, TransferStart, TransferStep, FilesFromInv, PTL DEF HolderSpec
=============================================================================
