--------------------------- MODULE MCAssemblyStore ---------------------------
EXTENDS AssemblyStore
Plain == [kind |-> "plain", size |-> 5, length |-> 5, built |-> 0, frame |-> 5, symbols |-> 0]
PlainDebug == [Plain EXCEPT !.symbols = 3]
Packed == [kind |-> "compressed", size |-> 16, length |-> 20, built |-> 20, frame |-> 20, symbols |-> 0]
Shrunk == [Packed EXCEPT !.length = 18, !.frame = 18]
Grown == [Packed EXCEPT !.length = 24, !.frame = 24]
Damaged == [Packed EXCEPT !.frame = 19]
Empty == [Plain EXCEPT !.size = 0, !.length = 0]

A == <<"A", "dll">>
AB == <<"A", "B", "dll">>
AX == <<"A", "exe">>
ANi == <<"A", "ni", "dll">>
Of(name, image) == [name |-> name, image |-> image, ignored |-> FALSE]
Ignored(name) == [name |-> name, image |-> Empty, ignored |-> TRUE]

MCRequests == {A, <<"A">>, <<"A", "B">>, <<"A", "ni">>, <<"Z">>}
AllNames == MCRequests \union {AB, AX, ANi}
Rank == <<A, <<"A">>, <<"A", "B">>, <<"A", "ni">>, <<"Z">>, AB, AX, ANi>>
Apart == [n \in AllNames |-> CHOOSE i \in 1..8 : Rank[i] = n]
Collide(x, y) == [Apart EXCEPT ![x] = Apart[y]]
Hashes == {Apart, Collide(A, AB), Collide(<<"A">>, AB), Collide(<<"Z">>, A), [n \in AllNames |-> 1]}

MCSources ==
  [writer : {"setup"}, assemblies : {<<Of(A, Plain), Of(AB, Plain)>>, <<Of(AB, Plain), Of(A, Plain)>>,
     <<Of(A, Plain), Of(AX, Plain)>>}, crc : Hashes]
  \union
  [writer : {"generator"}, assemblies : {<<Of(A, Packed), Ignored(ANi), Of(AB, Shrunk)>>,
     <<Of(A, PlainDebug), Ignored(ANi), Of(AB, Shrunk)>>}, crc : Hashes]
  \union
  [writer : {"generator"}, assemblies : {<<Of(A, Grown), Of(AB, Packed)>>, <<Of(A, Damaged)>>}, crc : {Apart}]

\* What the proofs about the threads take of the data, for these sources.
ASSUME TheDataIsSound == StoresAreLaidOut /\ BuffersAreApart /\ StoresAreIndexed /\ NamesAreClear
=============================================================================
