----------------------- MODULE FileConversationsProofs -----------------------
(***************************************************************************)
(* Proofs about the conversation store on files, for any clients,          *)
(* conversations, faults and bounds.                                       *)
(***************************************************************************)
EXTENDS FileConversations, NatSetInduction, FiniteSetTheorems, SequenceTheorems, TLAPS

-----------------------------------------------------------------------------
(* The lines of a file                                                     *)

Msgs(q) == [j \in 1..Len(q) |-> q[j].m]
AllLoad(q) == \A j \in 1..Len(q) : q[j].loads
Open(q) == q # <<>> /\ ~Last(q).end

\* The lines that load hold messages in the order of their numbers, which are at
\* most n, and l has them all.
InOrder(q, l, n) ==
  /\ \A j \in 1..Len(q) : q[j].loads => /\ q[j].m \in Nat /\ q[j].m <= n
                                        /\ \E k \in 1..Len(l) : l[k] = q[j].m
  /\ \A j, k \in 1..Len(q) : j < k /\ q[j].loads /\ q[k].loads => q[j].m < q[k].m

LEMMA Fronts ==
  ASSUME NEW q \in Seq(Lines), Len(q) > 0
  PROVE  /\ Front(q) \in Seq(Lines)
         /\ Len(Front(q)) = Len(q) - 1
         /\ \A j \in 1..(Len(q) - 1) : Front(q)[j] = q[j]
<1> DEFINE n == Len(q) - 1
           f == SubSeq(q, 1, n)
<1>1. n \in Nat /\ \A j \in 1..n : q[j] \in Lines
  OBVIOUS
<1> HIDE DEF n
<1>2. /\ f \in Seq(Lines)
      /\ Len(f) = IF 1 <= n THEN n - 1 + 1 ELSE 0
      /\ \A j \in 1..(n - 1 + 1) : f[j] = q[1 + j - 1]
  BY <1>1, SubSeqProperties
<1> HIDE DEF f
<1>3. f \in Seq(Lines) /\ Len(f) = n /\ \A j \in 1..n : f[j] = q[j]
  BY <1>1, <1>2
<1> QED BY <1>3 DEF Front, f, n

\* A line is added, or takes the place of the last one.
LEMMA WriteLines ==
  ASSUME NEW q \in Seq(Lines), NEW x \in Lines
  PROVE  /\ Write(q, x) \in Seq(Lines)
         /\ Write(q, x) # <<>>
         /\ ~Open(q) => Write(q, x) = Append(q, x)
         /\ Open(q) => /\ Len(Write(q, x)) = Len(q)
                       /\ \A j \in 1..(Len(q) - 1) : Write(q, x)[j] = q[j]
                       /\ ~Write(q, x)[Len(q)].loads
         /\ ~x.end => Open(Write(q, x))
<1> DEFINE y == [m |-> None, loads |-> FALSE, end |-> FALSE]
<1>1. y \in Lines
  BY DEF Lines
<1>2. CASE ~Open(q)
  <2>1. Write(q, x) = Append(q, x)
    BY <1>2 DEF Write, Open
  <2> QED BY <1>2, <2>1 DEF Open, Last
<1>3. CASE Open(q)
  <2>1. Write(q, x) = Append(Front(q), y)
    BY <1>3 DEF Write, Open
  <2>2. Len(q) \in Nat /\ Len(q) > 0
    BY <1>3 DEF Open
  <2>3. /\ Front(q) \in Seq(Lines)
        /\ Len(Front(q)) = Len(q) - 1
        /\ \A j \in 1..(Len(q) - 1) : Front(q)[j] = q[j]
    BY <2>2, Fronts
  <2> HIDE DEF y
  <2>4. /\ Append(Front(q), y) \in Seq(Lines)
        /\ Len(Append(Front(q), y)) = Len(q)
        /\ \A j \in 1..(Len(q) - 1) : Append(Front(q), y)[j] = q[j]
        /\ Append(Front(q), y)[Len(q)] = y
    BY <1>1, <2>2, <2>3
  <2>5. ~y.loads /\ ~y.end
    BY DEF y
  <2> QED BY <1>3, <2>1, <2>2, <2>4, <2>5 DEF Open, Last
<1> QED BY <1>2, <1>3

LEMMA EndLineLines ==
  ASSUME NEW q \in Seq(Lines)
  PROVE  /\ EndLine(q) \in Seq(Lines)
         /\ ~Open(EndLine(q))
         /\ EndLine(q) # <<>>
         /\ ~Open(q) => EndLine(q) = Append(q, [m |-> None, loads |-> FALSE, end |-> TRUE])
         /\ Open(q) => /\ Len(EndLine(q)) = Len(q)
                       /\ \A j \in 1..Len(q) : EndLine(q)[j].m = q[j].m /\ EndLine(q)[j].loads = q[j].loads
<1>1. CASE ~Open(q)
  <2> DEFINE y == [m |-> None, loads |-> FALSE, end |-> TRUE]
  <2>1. EndLine(q) = Append(q, y)
    BY <1>1 DEF EndLine, Open
  <2>2. y \in Lines /\ y.end
    BY DEF Lines
  <2> HIDE DEF y
  <2>3. EndLine(q) \in Seq(Lines) /\ Len(EndLine(q)) = Len(q) + 1 /\ EndLine(q)[Len(q) + 1] = y
    BY <2>1, <2>2
  <2> QED BY <1>1, <2>1, <2>2, <2>3 DEF Open, Last, y
<1>2. CASE Open(q)
  <2> DEFINE y == [Last(q) EXCEPT !.end = TRUE]
  <2>1. EndLine(q) = Append(Front(q), y)
    BY <1>2 DEF EndLine, Open
  <2>2. Len(q) \in Nat /\ Len(q) > 0 /\ q[Len(q)] \in Lines
    BY <1>2 DEF Open
  <2>3. /\ Front(q) \in Seq(Lines)
        /\ Len(Front(q)) = Len(q) - 1
        /\ \A j \in 1..(Len(q) - 1) : Front(q)[j] = q[j]
    BY <2>2, Fronts
  <2>4. y \in Lines /\ y.end /\ y.m = q[Len(q)].m /\ y.loads = q[Len(q)].loads
    BY <2>2 DEF Lines, Last
  <2> HIDE DEF y
  <2>5. /\ Append(Front(q), y) \in Seq(Lines)
        /\ Len(Append(Front(q), y)) = Len(q)
        /\ \A j \in 1..(Len(q) - 1) : Append(Front(q), y)[j] = q[j]
        /\ Append(Front(q), y)[Len(q)] = y
    BY <2>2, <2>3, <2>4
  <2> DEFINE e == EndLine(q)
  <2>6. e \in Seq(Lines) /\ Len(e) = Len(q) /\ e[Len(q)] = y
        /\ \A j \in 1..(Len(q) - 1) : e[j] = q[j]
    BY <2>1, <2>5
  <2> HIDE DEF e
  <2>7. e # <<>> /\ ~Open(e)
    BY <2>2, <2>4, <2>6 DEF Open, Last
  <2>8. ASSUME NEW j \in 1..Len(q) PROVE e[j].m = q[j].m /\ e[j].loads = q[j].loads
    <3>1. CASE j = Len(q)
      BY <2>4, <2>6, <3>1
    <3>2. CASE j # Len(q)
      <4>1. j \in 1..(Len(q) - 1)
        BY <2>2, <3>2
      <4> QED BY <2>6, <4>1
    <3> QED BY <3>1, <3>2
  <2> QED BY <1>2, <2>6, <2>7, <2>8 DEF e
<1> QED BY <1>1, <1>2

\* Load takes the lines before the first that does not load.
LEMMA LoadedLines ==
  ASSUME NEW q \in Seq(Lines)
  PROVE  /\ AllLoad(q) <=> BadLine(q) = 0
         /\ AllLoad(q) => LoadMsgs(q) = Msgs(q)
         /\ \E n \in 0..Len(q) : /\ LoadMsgs(q) = [j \in 1..n |-> q[j].m]
                                 /\ \A j \in 1..n : q[j].loads
<1> DEFINE I == {j \in 1..Len(q) : ~q[j].loads}
<1>0. Len(q) \in Nat
  OBVIOUS
<1>1. BadLine(q) = IF I # {} THEN Min(I) ELSE 0
  BY DEF BadLine, SelectInSeq
<1>2. I # {} => Min(I) \in I /\ \A y \in I : Min(I) <= y
  <2> SUFFICES ASSUME I # {} PROVE Min(I) \in I /\ \A y \in I : Min(I) <= y
    OBVIOUS
  <2>1. I \subseteq Nat
    OBVIOUS
  <2> HIDE DEF I
  <2>2. \E x \in I : \A y \in I : ~(y < x)
    BY <2>1, LeastElement
  <2>3. \E x \in I : \A y \in I : x <= y
    BY <2>1, <2>2
  <2> QED BY <2>3 DEF Min
<1>3. AllLoad(q) <=> I = {}
  BY DEF AllLoad
<1>4. AllLoad(q) <=> BadLine(q) = 0
  BY <1>1, <1>2, <1>3
<1>5. CASE AllLoad(q)
  BY <1>0, <1>4, <1>5 DEF LoadMsgs, Msgs, AllLoad
<1>6. CASE ~AllLoad(q)
  <2> DEFINE n == BadLine(q) - 1
  <2>0. BadLine(q) \in I /\ \A y \in I : BadLine(q) <= y
    BY <1>1, <1>2, <1>3, <1>6
  <2>1. BadLine(q) \in 1..Len(q) /\ \A j \in 1..n : q[j].loads
    <3>1. BadLine(q) \in 1..Len(q)
      BY <2>0
    <3> SUFFICES ASSUME NEW j \in 1..n, ~q[j].loads PROVE FALSE
      BY <3>1
    <3>2. j \in I /\ j < BadLine(q)
      BY <1>0, <3>1
    <3> QED BY <1>0, <2>0, <3>1, <3>2
  <2>2. LoadMsgs(q) = [j \in 1..n |-> q[j].m]
    BY <2>1 DEF LoadMsgs
  <2> QED BY <1>0, <1>4, <1>6, <2>1, <2>2
<1> QED BY <1>4, <1>5, <1>6

LEMMA OrderLater ==
  ASSUME NEW q \in Seq(Lines), NEW l \in Seq(Nat), NEW n \in Nat, InOrder(q, l, n)
  PROVE  InOrder(q, l, n + 1)
BY DEF InOrder

LEMMA OrderKept ==
  ASSUME NEW q \in Seq(Lines), NEW l \in Seq(Nat), NEW n \in Nat, InOrder(q, l, n)
  PROVE  InOrder(q, Append(l, n + 1), n + 1)
<1>1. /\ Append(l, n + 1) \in Seq(Nat)
      /\ Len(Append(l, n + 1)) = Len(l) + 1
      /\ \A k \in 1..Len(l) : Append(l, n + 1)[k] = l[k]
  OBVIOUS
<1> QED BY <1>1 DEF InOrder

\* A line that does not load, or whose message is new, keeps the order.
LEMMA OrderAdded ==
  ASSUME NEW q \in Seq(Lines), NEW l, NEW n \in Nat, InOrder(q, l, n),
         NEW x \in Lines,
         x.loads => /\ x.m \in Nat /\ x.m <= n
                    /\ \E k \in 1..Len(l) : l[k] = x.m
                    /\ \A j \in 1..Len(q) : q[j].loads => q[j].m < x.m
  PROVE  InOrder(Append(q, x), l, n)
<1> DEFINE r == Append(q, x)
<1>1. /\ Len(r) = Len(q) + 1
      /\ \A j \in 1..Len(q) : r[j] = q[j]
      /\ r[Len(q) + 1] = x
      /\ Len(q) \in Nat
  OBVIOUS
<1> HIDE DEF r
<1>2. ASSUME NEW j \in 1..Len(r), r[j].loads
      PROVE  r[j].m \in Nat /\ r[j].m <= n /\ \E k \in 1..Len(l) : l[k] = r[j].m
  <2>1. CASE j \in 1..Len(q)
    BY <1>1, <1>2, <2>1 DEF InOrder
  <2>2. CASE j = Len(q) + 1
    BY <1>1, <1>2, <2>2
  <2> QED BY <1>1, <2>1, <2>2
<1>3. ASSUME NEW j \in 1..Len(r), NEW k \in 1..Len(r), j < k, r[j].loads, r[k].loads
      PROVE  r[j].m < r[k].m
  <2>0. j \in 1..Len(q) /\ r[j] = q[j]
    BY <1>1, <1>3
  <2>1. CASE k \in 1..Len(q)
    BY <1>1, <1>3, <2>0, <2>1 DEF InOrder
  <2>2. CASE k = Len(q) + 1
    BY <1>1, <1>3, <2>0, <2>2
  <2> QED BY <1>1, <2>1, <2>2
<1>4. InOrder(r, l, n)
  BY <1>2, <1>3 DEF InOrder
<1> QED BY <1>4 DEF r

\* Lines that load are those that did, or fewer.
LEMMA OrderReplaced ==
  ASSUME NEW q, NEW r, NEW l, NEW n, InOrder(q, l, n), Len(r) = Len(q),
         \A j \in 1..Len(q) : r[j].loads => q[j].loads /\ r[j].m = q[j].m
  PROVE  InOrder(r, l, n)
BY DEF InOrder

LEMMA OrderWritten ==
  ASSUME NEW q \in Seq(Lines), NEW l \in Seq(Nat), NEW n \in Nat, InOrder(q, l, n),
         NEW x \in Lines, x.loads => x.m = n + 1
  PROVE  InOrder(Write(q, x), Append(l, n + 1), n + 1)
<1> DEFINE k == Append(l, n + 1)
<1>0. InOrder(q, k, n + 1)
  BY OrderKept
<1>1. k \in Seq(Nat) /\ Len(k) = Len(l) + 1 /\ k[Len(l) + 1] = n + 1 /\ Len(l) \in Nat
  OBVIOUS
<1>2. \A j \in 1..Len(q) : q[j].loads => q[j].m < n + 1
  BY DEF InOrder, Lines
<1> HIDE DEF k
<1>3. CASE Open(q)
  <2>1. /\ Len(Write(q, x)) = Len(q)
        /\ \A j \in 1..(Len(q) - 1) : Write(q, x)[j] = q[j]
        /\ ~Write(q, x)[Len(q)].loads
        /\ Len(q) \in Nat
    BY <1>3, WriteLines
  <2>2. \A j \in 1..Len(q) : Write(q, x)[j].loads => q[j].loads /\ Write(q, x)[j].m = q[j].m
    <3> SUFFICES ASSUME NEW j \in 1..Len(q), Write(q, x)[j].loads
                 PROVE  q[j].loads /\ Write(q, x)[j].m = q[j].m
      OBVIOUS
    <3>1. j \in 1..(Len(q) - 1)
      BY <2>1
    <3>2. Write(q, x)[j] = q[j]
      BY <2>1, <3>1
    <3> QED BY <3>2
  <2>3. InOrder(Write(q, x), k, n + 1)
    BY <1>0, <2>1, <2>2, OrderReplaced
  <2> QED BY <2>3 DEF k
<1>4. CASE ~Open(q)
  <2>1. Write(q, x) = Append(q, x)
    BY <1>4, WriteLines
  <2>2. x.loads => /\ x.m \in Nat /\ x.m <= n + 1
                   /\ \E j \in 1..Len(k) : k[j] = x.m
                   /\ \A j \in 1..Len(q) : q[j].loads => q[j].m < x.m
    <3> SUFFICES ASSUME x.loads PROVE /\ n + 1 \in Nat /\ n + 1 <= n + 1 /\ x.m = n + 1
                                      /\ \E j \in 1..Len(k) : k[j] = n + 1
      BY <1>2
    <3>1. Len(l) + 1 \in 1..Len(k)
      BY <1>1
    <3> QED BY <1>1, <3>1
  <2>3. InOrder(Append(q, x), k, n + 1)
    BY <1>0, <2>2, OrderAdded
  <2> QED BY <2>1, <2>3 DEF k
<1> QED BY <1>3, <1>4

LEMMA OrderEnded ==
  ASSUME NEW q \in Seq(Lines), NEW l \in Seq(Nat), NEW n \in Nat, InOrder(q, l, n)
  PROVE  InOrder(EndLine(q), l, n)
<1>1. CASE Open(q)
  BY <1>1, EndLineLines, OrderReplaced
<1>2. CASE ~Open(q)
  <2> DEFINE y == [m |-> None, loads |-> FALSE, end |-> TRUE]
  <2>0. y \in Lines /\ ~y.loads
    BY DEF Lines
  <2>1. EndLine(q) = Append(q, y)
    BY <1>2, EndLineLines
  <2> HIDE DEF y
  <2> QED BY <2>0, <2>1, OrderAdded
<1> QED BY <1>1, <1>2

LEMMA MsgsWritten ==
  ASSUME NEW q \in Seq(Lines), NEW x \in Lines
  PROVE  /\ Msgs(Append(q, x)) = Append(Msgs(q), x.m)
         /\ AllLoad(q) /\ x.loads => AllLoad(Append(q, x))
<1> DEFINE r == Append(q, x)
<1>1. /\ Len(r) = Len(q) + 1
      /\ \A j \in 1..Len(q) : r[j] = q[j]
      /\ r[Len(q) + 1] = x
      /\ Len(q) \in Nat
  OBVIOUS
<1> HIDE DEF r
<1>2. Msgs(q) \in Seq(Nat \cup {None}) /\ Len(Msgs(q)) = Len(q)
  <2>1. \A j \in 1..Len(q) : q[j] \in Lines
    OBVIOUS
  <2>2. \A j \in 1..Len(q) : q[j].m \in Nat \cup {None}
    BY <2>1 DEF Lines
  <2> QED BY <1>1, <2>2 DEF Msgs
<1>3. Msgs(r) = Append(Msgs(q), x.m)
  <2>1. /\ Append(Msgs(q), x.m) = [j \in 1..(Len(q) + 1) |-> IF j <= Len(q) THEN Msgs(q)[j] ELSE x.m]
    BY <1>1, <1>2
  <2>2. \A j \in 1..(Len(q) + 1) : r[j].m = IF j <= Len(q) THEN Msgs(q)[j] ELSE x.m
    BY <1>1 DEF Msgs
  <2> QED BY <1>1, <2>1, <2>2 DEF Msgs
<1>4. AllLoad(q) /\ x.loads => AllLoad(r)
  <2> SUFFICES ASSUME AllLoad(q), x.loads, NEW j \in 1..Len(r) PROVE r[j].loads
    BY DEF AllLoad
  <2>1. CASE j \in 1..Len(q)
    BY <1>1, <2>1 DEF AllLoad
  <2>2. CASE j = Len(q) + 1
    BY <1>1, <2>2
  <2> QED BY <1>1, <2>1, <2>2
<1> QED BY <1>3, <1>4 DEF r

LEMMA MsgsEnded ==
  ASSUME NEW q \in Seq(Lines), Open(q)
  PROVE  /\ Msgs(EndLine(q)) = Msgs(q)
         /\ AllLoad(q) => AllLoad(EndLine(q))
BY EndLineLines DEF Msgs, AllLoad

-----------------------------------------------------------------------------
(* The inductive invariant                                                 *)

\* The cache and the handles lead to objects of conversations.
Linked ==
  /\ \A i \in Ids : cache[i] # None => obj[cache[i]].id = i
  /\ \A c \in Clients : handle[c] # None => obj[handle[c]].id \in Ids

\* Who saves holds an object, whose file is there, and is the only one to save it.
Saving == \A c \in Clients : wr[c] # "no" =>
  /\ handle[c] # None
  /\ wr[c] = "newline" => file[obj[handle[c]].id] # None
  /\ \A d \in Clients : handle[d] = handle[c] /\ wr[d] # "no" => d = c

\* A conversation that is deleted in the hands of a client is not intact.
Undeleted == \A c \in Clients :
  handle[c] # None /\ intact[obj[handle[c]].id] => deleting # obj[handle[c]].id

\* The file of an intact conversation loads, ends with a whole line unless one is
\* being written, and has the messages of the cached object.
Writers(i) == {c \in Clients : Holds(c, i) /\ wr[c] = "newline"}
WholeAt(i) == intact[i] =>
  /\ AllLoad(Lined(i))
  /\ Open(Lined(i)) <=> Writers(i) # {}
  /\ cache[i] # None /\ deleting # i => obj[cache[i]].msgs = Msgs(Lined(i))
Whole == \A i \in Ids : WholeAt(i)

\* An intact conversation, its object and its activities are of its present life.
Alive == \A i \in Ids : intact[i] /\ deleting # i =>
  /\ acts[i] \in {None, life[i]}
  /\ cache[i] # None => obj[cache[i]].born = life[i] /\ obj[cache[i]].acts \in {None, life[i]}

Ordered == \A i \in Ids : InOrder(Lined(i), log[i], count)

Inv == TypeOK /\ Linked /\ Saving /\ OneObject /\ Undeleted /\ Whole /\ Alive /\ Ordered

LEMMA NoneFacts ==
  /\ None \notin Clients /\ None \notin Ids /\ None \notin Objects /\ None \notin Nat
  /\ None \notin Seq(Lines)
  /\ Empty \notin Nat /\ Empty \in Int
BY FileAssumption DEF Empty

LEMMA LinedType ==
  ASSUME TypeOK, NEW i \in Ids
  PROVE  Lined(i) \in Seq(Lines)
BY DEF TypeOK, Lined

\* What Load makes of a file is of the type of an object's fields.
LEMMA LoadType ==
  ASSUME TypeOK, Ordered, NEW i \in Ids
  PROVE  /\ LoadMsgs(Lined(i)) \in Seq(Nat)
         /\ LoadActs(Lined(i), acts[i]) \in {None, acts[i]} /\ LoadActs(Lined(i), acts[i]) \in Nat \cup {None}
<1> DEFINE q == Lined(i)
<1>1. q \in Seq(Lines) /\ InOrder(q, log[i], count)
  BY LinedType DEF Ordered
<1> HIDE DEF q
<1>2. PICK n \in 0..Len(q) : LoadMsgs(q) = [j \in 1..n |-> q[j].m] /\ \A j \in 1..n : q[j].loads
  BY <1>1, LoadedLines
<1>3. \A j \in 1..n : q[j].m \in Nat
  BY <1>1, <1>2 DEF InOrder
<1>4. LoadMsgs(q) \in Seq(Nat)
  BY <1>1, <1>2, <1>3
<1>5. LoadActs(q, acts[i]) \in {None, acts[i]} /\ LoadActs(q, acts[i]) \in Nat \cup {None}
  BY DEF LoadActs, TypeOK
<1> QED BY <1>4, <1>5 DEF q

\* A client without an object that asks for a conversation without one finds a free
\* object: the others use fewer than there are.
LEMMA FreeIsFree ==
  ASSUME TypeOK, NEW c \in Clients, handle[c] = None, NEW i \in Ids, cache[i] = None
  PROVE  /\ Free \in Objects
         /\ \A j \in Ids : cache[j] # Free
         /\ \A d \in Clients : handle[d] # Free
<1> DEFINE J == Ids \ {i}
           D == Clients \ {c}
           f == [j \in J |-> cache[j]]
           g == [d \in D |-> handle[d]]
           U == {cache[j] : j \in J}
           V == {handle[d] : d \in D}
<1>1. /\ IsFiniteSet(J) /\ Cardinality(J) = Cardinality(Ids) - 1
      /\ IsFiniteSet(D) /\ Cardinality(D) = Cardinality(Clients) - 1
      /\ Cardinality(Ids) \in Nat /\ Cardinality(Clients) \in Nat /\ Cardinality(Objects) \in Nat
      /\ Cardinality(Objects) >= Cardinality(Ids) + Cardinality(Clients)
  BY FileAssumption, FS_RemoveElement, FS_CardinalityType
<1>2. f \in Surjection(J, U) /\ g \in Surjection(D, V)
  BY DEF Surjection
<1> HIDE DEF J, D, f, g, U, V
<1>3. /\ IsFiniteSet(U) /\ Cardinality(U) <= Cardinality(J)
      /\ IsFiniteSet(V) /\ Cardinality(V) <= Cardinality(D)
  BY <1>1, <1>2, FS_Surjection
<1>4. /\ Cardinality(U) \in Nat /\ Cardinality(V) \in Nat /\ Cardinality(U \cap V) \in Nat
      /\ IsFiniteSet(U \cup V) /\ Cardinality(U \cup V) = Cardinality(U) + Cardinality(V) - Cardinality(U \cap V)
  BY <1>3, FS_Union, FS_CardinalityType, FS_Intersection
<1>5. \E o \in Objects : o \notin U \cup V
  <2> SUFFICES ASSUME Objects \subseteq U \cup V PROVE FALSE
    OBVIOUS
  <2>1. Cardinality(Objects) <= Cardinality(U \cup V)
    BY <1>4, FS_Subset
  <2> QED BY <1>1, <1>3, <1>4, <2>1
<1>6. \A o \in Objects : o \notin U \cup V => (\A j \in Ids : cache[j] # o) /\ (\A d \in Clients : handle[d] # o)
  BY NoneFacts DEF U, V, J, D
<1> QED BY <1>5, <1>6 DEF Free

-----------------------------------------------------------------------------
(* Each step preserves the invariant                                       *)

\* A conversation is no longer intact when a fault has hit it, and only then.
LEMMA Hits ==
  ASSUME TypeOK, NEW i \in Ids, NEW b \in BOOLEAN, Hit(i, b)
  PROVE  /\ intact' \in [Ids -> BOOLEAN] /\ faults' \in Nat
         /\ \A j \in Ids : intact'[j] => intact[j]
         /\ intact'[i] => ~b
<1>1. CASE b = TRUE
  <2>1. intact' = [intact EXCEPT ![i] = FALSE] /\ faults' = faults + 1
    BY <1>1 DEF Hit
  <2> QED BY <1>1, <2>1 DEF TypeOK
<1>2. CASE b = FALSE
  <2>1. intact' = intact /\ faults' = faults
    BY <1>2 DEF Hit, TypeOK
  <2> QED BY <1>2, <2>1 DEF TypeOK
<1> QED BY <1>1, <1>2

LEMMA WholeKept ==
  ASSUME NEW j \in Ids, WholeAt(j), intact'[j] => intact[j],
         Lined(j)' = Lined(j), Writers(j)' = Writers(j),
         cache'[j] # None /\ deleting' # j =>
           cache'[j] = cache[j] /\ deleting # j /\ obj'[cache[j]].msgs = obj[cache[j]].msgs
  PROVE  WholeAt(j)'
BY DEF WholeAt

\* What is alive stays so, as long as objects keep their life and their activities.
LEMMA AliveKept ==
  ASSUME Alive, UNCHANGED <<acts, cache, deleting, life>>,
         \A j \in Ids : intact'[j] => intact[j],
         \A j \in Ids : cache[j] # None =>
           obj'[cache[j]].born = obj[cache[j]].born /\ obj'[cache[j]].acts = obj[cache[j]].acts
  PROVE  Alive'
<1> SUFFICES ASSUME NEW i \in Ids, intact'[i], deleting # i
             PROVE  /\ acts[i] \in {None, life[i]}
                    /\ cache[i] # None => obj'[cache[i]].born = life[i] /\ obj'[cache[i]].acts \in {None, life[i]}
  BY DEF Alive
<1>1. /\ acts[i] \in {None, life[i]}
      /\ cache[i] # None => obj[cache[i]].born = life[i] /\ obj[cache[i]].acts \in {None, life[i]}
  BY DEF Alive
<1> QED BY <1>1

LEMMA InitInv == Init => Inv
<1> SUFFICES ASSUME Init PROVE Inv
  OBVIOUS
<1>1. TypeOK
  BY DEF Init, TypeOK, Object, Garbage
<1>2. \A i \in Ids : Lined(i) = <<>>
  BY DEF Init, Lined
<1>3. AllLoad(<<>>) /\ ~Open(<<>>) /\ \A l, n : InOrder(<<>>, l, n)
  BY DEF AllLoad, Open, InOrder
<1> QED BY <1>1, <1>2, <1>3 DEF Init, Inv, Linked, Saving, OneObject, Undeleted, Whole, WholeAt, Writers, Alive, Ordered, Holds

LEMMA GetStep ==
  ASSUME Inv, NEW c \in Clients, NEW i \in Ids, NEW create \in BOOLEAN,
         GetConversation(c, i, create)
  PROVE  Inv'
<1> USE NoneFacts
<1>0. wr[c] = "no" /\ handle[c] = None /\ deleting = None
  BY DEF Inv, Saving, GetConversation, TypeOK
<1>1. CASE cache[i] # None
  <2>1. /\ handle' = [handle EXCEPT ![c] = cache[i]]
        /\ UNCHANGED <<file, acts, cache, obj, wr, deleting, life, log, intact, count, crashes, faults>>
    BY <1>1 DEF GetConversation
  <2>2. obj[cache[i]].id = i /\ cache[i] \in Objects
    BY <1>1 DEF Inv, Linked, TypeOK
  <2>3. TypeOK'
    BY <2>1, <2>2 DEF Inv, TypeOK
  <2>4. \A j \in Ids : Lined(j)' = Lined(j)
    BY <2>1 DEF Lined
  <2>5. \A d \in Clients : wr[d] # "no" => handle'[d] = handle[d]
    BY <1>0, <2>1 DEF Inv, TypeOK
  <2>6. Linked' /\ OneObject' /\ Undeleted'
    BY <1>0, <2>1, <2>2 DEF Inv, TypeOK, Linked, OneObject, Undeleted
  <2>7. Saving'
    BY <1>0, <2>1, <2>2, <2>5 DEF Inv, TypeOK, Saving
  <2>8. Whole'
    <3>1. \A j \in Ids : Writers(j)' = Writers(j)
      BY <1>0, <2>1, <2>5 DEF Writers, Holds
    <3> QED BY <2>1, <2>4, <3>1, WholeKept DEF Inv, Whole
  <2>9. Alive' /\ Ordered'
    BY <2>1, <2>4 DEF Inv, Alive, Ordered
  <2> QED BY <2>3, <2>6, <2>7, <2>8, <2>9 DEF Inv
<1>2. CASE cache[i] = None
  <2> DEFINE o == Free
             x == [id |-> i, msgs |-> LoadMsgs(Lined(i)),
                   acts |-> IF file'[i] = None THEN None ELSE LoadActs(Lined(i), acts[i]),
                   born |-> life[i]]
  <2>0. /\ o \in Objects
        /\ \A j \in Ids : cache[j] # o
        /\ \A d \in Clients : handle[d] # o
    BY <1>0, <1>2, FreeIsFree DEF Inv
  <2>1. /\ file' = IF file[i] = None /\ create THEN [file EXCEPT ![i] = <<>>] ELSE file
        /\ cache' = [cache EXCEPT ![i] = o]
        /\ handle' = [handle EXCEPT ![c] = o]
        /\ UNCHANGED <<acts, wr, deleting, life, log, intact, count, crashes, faults>>
    BY <1>2 DEF GetConversation, Cached
  <2>2. file' \in [Ids -> Seq(Lines) \cup {None}]
    BY <2>1 DEF Inv, TypeOK
  <2>3. \A j \in Ids : Lined(j)' = Lined(j) /\ (file[j] # None => file'[j] = file[j])
    BY <2>1 DEF Inv, TypeOK, Lined
  <2>4. LoadMsgs(<<>>) = <<>>
    <3>1. <<>> \in Seq(Lines)
      OBVIOUS
    <3>2. AllLoad(<<>>) /\ Msgs(<<>>) = <<>>
      BY DEF AllLoad, Msgs
    <3> QED BY <3>1, <3>2, LoadedLines
  <2>5. obj' = [obj EXCEPT ![o] = x]
    <3>1. obj' = [obj EXCEPT ![o] = [id |-> i, msgs |-> IF file'[i] = None THEN <<>> ELSE LoadMsgs(file'[i]),
                        acts |-> IF file'[i] = None THEN None ELSE LoadActs(file'[i], acts[i]),
                        born |-> life[i]]]
      BY <1>2 DEF GetConversation
    <3>2. Lined(i) = IF file'[i] = None THEN <<>> ELSE file'[i]
      BY <2>3 DEF Lined
    <3>3. (IF file'[i] = None THEN <<>> ELSE LoadMsgs(file'[i])) = LoadMsgs(Lined(i))
      BY <2>4, <3>2
    <3>4. (IF file'[i] = None THEN None ELSE LoadActs(file'[i], acts[i]))
            = (IF file'[i] = None THEN None ELSE LoadActs(Lined(i), acts[i]))
      BY <3>2
    <3> QED BY <3>1, <3>3, <3>4
  <2>6. x \in Object /\ x.id = i /\ x.msgs = LoadMsgs(Lined(i)) /\ x.born = life[i] /\ x.acts \in {None, acts[i]}
    <3>1. LoadMsgs(Lined(i)) \in Seq(Nat) /\ LoadActs(Lined(i), acts[i]) \in {None, acts[i]}
          /\ LoadActs(Lined(i), acts[i]) \in Nat \cup {None}
      BY LoadType DEF Inv
    <3> QED BY <3>1 DEF Object, Inv, TypeOK
  <2> HIDE DEF o, x
  <2>7. TypeOK'
    BY <2>0, <2>1, <2>2, <2>5, <2>6 DEF Inv, TypeOK
  <2>8. /\ obj'[o] = x
        /\ \A j \in Ids : j # i => cache'[j] = cache[j] /\ (cache[j] # None => obj'[cache[j]] = obj[cache[j]])
        /\ cache'[i] = o
        /\ \A d \in Clients : d # c => handle'[d] = handle[d] /\ (handle[d] # None => obj'[handle[d]] = obj[handle[d]])
        /\ handle'[c] = o
    BY <2>0, <2>1, <2>5 DEF Inv, TypeOK
  <2>9. Linked' /\ Undeleted'
    BY <1>0, <2>1, <2>6, <2>8 DEF Inv, Linked, Undeleted
  <2>10. OneObject'
    <3> SUFFICES ASSUME NEW d \in Clients, handle'[d] # None, intact'[obj'[handle'[d]].id]
                 PROVE  cache'[obj'[handle'[d]].id] = handle'[d]
      BY DEF OneObject
    <3>1. CASE d = c
      BY <2>6, <2>8, <3>1
    <3>2. CASE d # c
      <4>1. handle'[d] = handle[d] /\ obj'[handle'[d]] = obj[handle[d]] /\ handle[d] # None
        BY <2>8, <3>2
      <4>2. cache[obj[handle[d]].id] = handle[d] /\ obj[handle[d]].id \in Ids
        BY <2>1, <4>1 DEF Inv, OneObject, Linked
      <4> QED BY <1>2, <2>8, <4>1, <4>2
    <3> QED BY <3>1, <3>2
  <2>11. Saving'
    BY <1>0, <2>0, <2>1, <2>3, <2>8 DEF Inv, Saving, Linked, TypeOK
  <2>12. Whole'
    <3>1. \A j \in Ids : Writers(j)' = Writers(j)
      BY <1>0, <2>1, <2>8 DEF Writers, Holds
    <3>2. ASSUME NEW j \in Ids, j # i PROVE WholeAt(j)'
      BY <2>1, <2>3, <2>8, <3>1, <3>2, WholeKept DEF Inv, Whole
    <3>3. WholeAt(i)'
      <4>1. AllLoad(Lined(i)) => LoadMsgs(Lined(i)) = Msgs(Lined(i))
        BY LoadedLines, LinedType DEF Inv
      <4> QED BY <2>1, <2>3, <2>6, <2>8, <3>1, <4>1 DEF Inv, Whole, WholeAt
    <3> QED BY <3>2, <3>3 DEF Whole
  <2>13. Alive'
    BY <1>0, <2>1, <2>6, <2>8 DEF Inv, Alive
  <2>14. Ordered'
    BY <2>1, <2>3 DEF Inv, Ordered
  <2> QED BY <2>7, <2>9, <2>10, <2>11, <2>12, <2>13, <2>14 DEF Inv
<1> QED BY <1>1, <1>2

LEMMA DropStep ==
  ASSUME Inv, NEW c \in Clients, Drop(c)
  PROVE  Inv'
<1> USE NoneFacts
<1>1. /\ handle' = [handle EXCEPT ![c] = None]
      /\ wr[c] = "no"
      /\ UNCHANGED <<file, acts, cache, wr, deleting, life, log, intact, count, crashes, faults>>
      /\ obj' = Reachable(cache, handle')
  BY DEF Drop
<1>2. /\ \A j \in Ids : cache[j] # None => obj'[cache[j]] = obj[cache[j]]
      /\ \A d \in Clients : handle'[d] # None => handle'[d] = handle[d] /\ obj'[handle[d]] = obj[handle[d]]
      /\ obj' \in [Objects -> Object]
      /\ handle' \in [Clients -> Objects \cup {None}]
  <2>1. /\ handle' \in [Clients -> Objects \cup {None}]
        /\ \A d \in Clients : handle'[d] # None => handle'[d] = handle[d]
    BY <1>1 DEF Inv, TypeOK
  <2>2. Garbage \in Object
    BY DEF Garbage, Object
  <2>3. obj' \in [Objects -> Object]
    BY <1>1, <2>2 DEF Reachable, Inv, TypeOK
  <2> QED BY <1>1, <2>1, <2>3 DEF Reachable, Inv, TypeOK
<1>3. \A d \in Clients : d # c => handle'[d] = handle[d]
  BY <1>1 DEF Inv, TypeOK
<1>4. \A j \in Ids : Lined(j)' = Lined(j)
  BY <1>1 DEF Lined
<1>5. TypeOK'
  BY <1>1, <1>2 DEF Inv, TypeOK
<1>6. /\ Linked'
      /\ OneObject'
      /\ Undeleted'
  <2>1. Linked'
    BY <1>1, <1>2 DEF Inv, Linked
  <2>2. ASSUME NEW d \in Clients, handle'[d] # None, intact'[obj'[handle'[d]].id]
        PROVE  cache'[obj'[handle'[d]].id] = handle'[d] /\ deleting' # obj'[handle'[d]].id
    <3>1. handle'[d] = handle[d] /\ obj'[handle'[d]].id = obj[handle[d]].id
      BY <1>2, <2>2
    <3>2. handle[d] # None /\ intact[obj[handle[d]].id]
      BY <1>1, <2>2, <3>1
    <3> QED BY <1>1, <3>1, <3>2 DEF Inv, OneObject, Undeleted
  <2>3. OneObject' /\ Undeleted'
    BY <2>2 DEF OneObject, Undeleted
  <2> QED BY <2>1, <2>2, <2>3
<1>7. Saving'
  <2> SUFFICES ASSUME NEW d \in Clients, wr[d] # "no"
               PROVE  /\ handle'[d] # None
                      /\ wr[d] = "newline" => file[obj'[handle'[d]].id] # None
                      /\ \A b \in Clients : handle'[b] = handle'[d] /\ wr[b] # "no" => b = d
    BY <1>1 DEF Saving
  <2>1. d # c /\ handle'[d] = handle[d]
    BY <1>1, <1>3
  <2>2. /\ handle[d] # None
        /\ wr[d] = "newline" => file[obj[handle[d]].id] # None
        /\ \A b \in Clients : handle[b] = handle[d] /\ wr[b] # "no" => b = d
    BY DEF Inv, Saving
  <2>3. obj'[handle'[d]] = obj[handle[d]]
    BY <1>2, <2>1, <2>2
  <2>4. ASSUME NEW b \in Clients, handle'[b] = handle'[d], wr[b] # "no" PROVE b = d
    <3>1. b # c /\ handle'[b] = handle[b]
      BY <1>1, <1>3, <2>4
    <3> QED BY <2>1, <2>2, <2>4, <3>1
  <2> QED BY <2>1, <2>2, <2>3, <2>4
<1>8. \A j \in Ids : Writers(j)' = Writers(j)
  <2> SUFFICES ASSUME NEW j \in Ids, NEW d \in Clients, wr[d] = "newline"
               PROVE  Holds(d, j)' <=> Holds(d, j)
    BY <1>1 DEF Writers
  <2>1. handle'[d] = handle[d]
    BY <1>1, <1>3
  <2>2. handle[d] # None => obj'[handle[d]] = obj[handle[d]]
    BY <1>2, <2>1
  <2> QED BY <2>1, <2>2 DEF Holds
<1>9. Whole'
  BY <1>1, <1>2, <1>4, <1>8, WholeKept DEF Inv, Whole
<1>10. Alive'
  <2>1. \A j \in Ids : cache[j] # None => obj'[cache[j]] = obj[cache[j]]
    BY <1>2
  <2> QED BY <1>1, <2>1, AliveKept DEF Inv
<1>11. Ordered'
  BY <1>1, <1>4 DEF Inv, Ordered
<1> QED BY <1>5, <1>6, <1>7, <1>9, <1>10, <1>11 DEF Inv

LEMMA Remembered ==
  ASSUME TypeOK, NEW o \in Objects, NEW i \in Ids, i = obj[o].id, Remember(o)
  PROVE  /\ count \in Nat /\ count' = count + 1
         /\ log' = [log EXCEPT ![i] = Append(@, count + 1)] /\ log' \in [Ids -> Seq(Nat)]
         /\ obj' \in [Objects -> Object]
         /\ obj'[o].msgs = Append(obj[o].msgs, count + 1)
         /\ \A p \in Objects : p # o => obj'[p] = obj[p]
         /\ \A p \in Objects : obj'[p].id = obj[p].id /\ obj'[p].acts = obj[p].acts /\ obj'[p].born = obj[p].born
<1>1. PICK r \in Object : r = obj[o]
  BY DEF TypeOK
<1>2. count \in Nat /\ count' = count + 1
      /\ log' = [log EXCEPT ![i] = Append(@, count + 1)]
  BY DEF Remember, TypeOK
<1> DEFINE y == [r EXCEPT !.msgs = Append(r.msgs, count + 1)]
<1>3. obj' = [obj EXCEPT ![o] = y]
  BY <1>1 DEF Remember, TypeOK
<1>4. r.msgs \in Seq(Nat)
  BY DEF Object
<1>5. Append(r.msgs, count + 1) \in Seq(Nat)
  BY <1>2, <1>4
<1>6. y \in Object /\ y.id = r.id /\ y.acts = r.acts /\ y.born = r.born
      /\ y.msgs = Append(r.msgs, count + 1)
  BY <1>5 DEF Object
<1> HIDE DEF y
<1>7. log' \in [Ids -> Seq(Nat)]
  BY <1>2 DEF TypeOK
<1>8. obj' \in [Objects -> Object] /\ obj'[o] = y /\ \A p \in Objects : p # o => obj'[p] = obj[p]
  BY <1>3, <1>6 DEF TypeOK
<1> QED BY <1>1, <1>2, <1>6, <1>7, <1>8

\* What holds of a client's object after a step that leaves the handles, the cache
\* and the objects' conversations alone.
LEMMA HandlesKept ==
  ASSUME Inv, UNCHANGED <<cache, handle, deleting>>,
         \A p \in Objects : obj'[p].id = obj[p].id,
         \A j \in Ids : intact'[j] => intact[j]
  PROVE  /\ Linked' /\ OneObject' /\ Undeleted'
         /\ \A d \in Clients, j \in Ids : Holds(d, j)' <=> Holds(d, j)
         /\ \A d \in Clients : handle[d] # None => obj'[handle[d]].id = obj[handle[d]].id /\ obj[handle[d]].id \in Ids
<1> USE NoneFacts
<1>1. \A d \in Clients : handle[d] # None => obj'[handle[d]].id = obj[handle[d]].id /\ obj[handle[d]].id \in Ids
  BY DEF Inv, TypeOK, Linked
<1>2. Linked'
  BY DEF Inv, Linked, TypeOK
<1>3. ASSUME NEW d \in Clients, handle'[d] # None, intact'[obj'[handle'[d]].id]
      PROVE  cache'[obj'[handle'[d]].id] = handle'[d] /\ deleting' # obj'[handle'[d]].id
  <2>1. handle'[d] = handle[d] /\ obj'[handle'[d]].id = obj[handle[d]].id /\ obj[handle[d]].id \in Ids
    BY <1>1, <1>3 DEF Inv, Linked
  <2>2. handle[d] # None /\ intact[obj[handle[d]].id]
    BY <1>3, <2>1
  <2> QED BY <2>1, <2>2 DEF Inv, OneObject, Undeleted
<1>4. OneObject' /\ Undeleted'
  BY <1>3 DEF OneObject, Undeleted
<1>5. \A d \in Clients, j \in Ids : Holds(d, j)' <=> Holds(d, j)
  BY <1>1 DEF Holds
<1> QED BY <1>1, <1>2, <1>4, <1>5

LEMMA AppendStep ==
  ASSUME Inv, NEW c \in Clients, NEW long \in BOOLEAN, AppendMsg(c, long)
  PROVE  Inv'
<1> USE NoneFacts
<1>0. PICK o \in Objects, i \in Ids : o = handle[c] /\ i = obj[o].id
  BY DEF AppendMsg, Inv, TypeOK, Linked
<1> DEFINE x == [m |-> count + 1, loads |-> ~long, end |-> FALSE]
<1>1. Unlocked(o) /\ Remember(o)
  BY <1>0 DEF AppendMsg
<1>2. PICK q \in Seq(Lines) : q = Lined(i)
  BY LinedType DEF Inv
<1>3. /\ file' = [file EXCEPT ![i] = Write(q, x)]
      /\ wr' = [wr EXCEPT ![c] = "newline"]
      /\ intact' = [intact EXCEPT ![i] = @ /\ ~long]
      /\ faults' = IF long THEN faults + 1 ELSE faults
      /\ UNCHANGED <<acts, cache, handle, deleting, life, crashes>>
  BY <1>0, <1>2 DEF AppendMsg, Hit
<1>4. /\ count \in Nat /\ count' = count + 1
      /\ log' = [log EXCEPT ![i] = Append(@, count + 1)] /\ log' \in [Ids -> Seq(Nat)]
      /\ obj' \in [Objects -> Object]
      /\ obj'[o].msgs = Append(obj[o].msgs, count + 1)
      /\ \A p \in Objects : p # o => obj'[p] = obj[p]
      /\ \A p \in Objects : obj'[p].id = obj[p].id /\ obj'[p].acts = obj[p].acts /\ obj'[p].born = obj[p].born
  BY <1>0, <1>1, Remembered DEF Inv
<1>5. x \in Lines /\ x.loads = ~long /\ x.m = count + 1 /\ ~x.end
  BY <1>4 DEF Lines
<1> HIDE DEF x
<1>6. /\ Write(q, x) \in Seq(Lines)
      /\ Open(Write(q, x))
      /\ ~Open(q) => Write(q, x) = Append(q, x)
  BY <1>5, WriteLines
<1>7. /\ Lined(i)' = Write(q, x)
      /\ \A j \in Ids : j # i => Lined(j)' = Lined(j)
      /\ \A j \in Ids : file[j] # None => file'[j] # None
      /\ file'[i] # None
  BY <1>3, <1>6 DEF Lined, Inv, TypeOK
<1>8. /\ \A d \in Clients : d # c => wr'[d] = wr[d]
      /\ wr'[c] = "newline"
      /\ \A j \in Ids : intact'[j] => intact[j]
      /\ intact'[i] => ~long
  BY <1>3 DEF Inv, TypeOK
<1>9. TypeOK'
  <2>1. file' \in [Ids -> Seq(Lines) \cup {None}]
    BY <1>3, <1>6 DEF Inv, TypeOK
  <2>2. intact' \in [Ids -> BOOLEAN] /\ wr' \in [Clients -> {"no", "newline", "gone"}]
    BY <1>3 DEF Inv, TypeOK
  <2>3. {count', crashes', faults'} \subseteq Nat
    BY <1>3, <1>4 DEF Inv, TypeOK
  <2> QED BY <1>3, <1>4, <2>1, <2>2, <2>3 DEF Inv, TypeOK
<1>10. /\ Linked' /\ OneObject' /\ Undeleted'
       /\ \A d \in Clients, j \in Ids : Holds(d, j)' <=> Holds(d, j)
  BY <1>3, <1>4, <1>8, HandlesKept
<1>11. Saving'
  <2> SUFFICES ASSUME NEW d \in Clients, wr'[d] # "no"
               PROVE  /\ handle[d] # None
                      /\ wr'[d] = "newline" => file'[obj'[handle[d]].id] # None
                      /\ \A b \in Clients : handle[b] = handle[d] /\ wr'[b] # "no" => b = d
    BY <1>3 DEF Saving
  <2>1. CASE d = c
    <3>1. handle[d] # None /\ obj'[handle[d]].id = i /\ file'[i] # None
      BY <1>0, <1>3, <1>4, <1>6, <2>1 DEF Inv, TypeOK
    <3>2. ASSUME NEW b \in Clients, handle[b] = handle[d], wr'[b] # "no" PROVE b = d
      <4>1. wr[b] = "no"
        BY <1>0, <1>1, <2>1, <3>2 DEF Unlocked
      <4> QED BY <1>8, <2>1, <3>2, <4>1
    <3> QED BY <3>1, <3>2
  <2>2. CASE d # c
    <3>1. wr'[d] = wr[d]
      BY <1>8, <2>2
    <3>2. /\ handle[d] # None
          /\ wr[d] = "newline" => file[obj[handle[d]].id] # None
          /\ \A b \in Clients : handle[b] = handle[d] /\ wr[b] # "no" => b = d
      BY <2>2, <3>1 DEF Inv, Saving
    <3>3. handle[d] # handle[c]
      BY <1>0, <1>1, <2>2, <3>1 DEF Unlocked
    <3>4. handle[d] \in Objects /\ obj[handle[d]].id \in Ids
      BY <3>2 DEF Inv, TypeOK, Linked
    <3>5. obj'[handle[d]].id = obj[handle[d]].id
      BY <1>4, <3>4
    <3>6. file[obj[handle[d]].id] # None => file'[obj[handle[d]].id] # None
      BY <1>7, <3>4
    <3>7. ASSUME NEW b \in Clients, handle[b] = handle[d], wr'[b] # "no" PROVE b = d
      <4>1. b # c /\ wr'[b] = wr[b]
        BY <1>8, <3>3, <3>7
      <4> QED BY <3>2, <3>7, <4>1
    <3> QED BY <3>1, <3>2, <3>5, <3>6, <3>7
  <2> QED BY <2>1, <2>2
<1>12. ASSUME NEW j \in Ids, j # i PROVE WholeAt(j)'
  <2>1. Writers(j)' = Writers(j)
    BY <1>0, <1>8, <1>10, <1>12 DEF Writers, Holds
  <2>2. cache[j] # None => cache[j] # o /\ cache[j] \in Objects
    BY <1>0, <1>12 DEF Inv, Linked, TypeOK
  <2> QED BY <1>3, <1>4, <1>7, <1>8, <1>12, <2>1, <2>2, WholeKept DEF Inv, Whole
<1>13. WholeAt(i)'
  <2> SUFFICES ASSUME intact'[i]
               PROVE  /\ AllLoad(Write(q, x))
                      /\ Open(Write(q, x)) <=> Writers(i)' # {}
                      /\ cache[i] # None /\ deleting # i => obj'[cache[i]].msgs = Msgs(Write(q, x))
    BY <1>3, <1>7 DEF WholeAt
  <2>1. intact[i] /\ ~long /\ x.loads
    BY <1>5, <1>8
  <2>2. cache[i] = o
    BY <1>0, <2>1 DEF Inv, OneObject
  <2>3. Writers(i) = {}
    <3> SUFFICES ASSUME NEW d \in Writers(i) PROVE FALSE
      OBVIOUS
    <3>1. d \in Clients /\ handle[d] # None /\ obj[handle[d]].id = i /\ wr[d] = "newline"
      BY DEF Writers, Holds
    <3>2. handle[d] = o
      BY <2>1, <2>2, <3>1 DEF Inv, OneObject
    <3> QED BY <1>1, <3>1, <3>2 DEF Unlocked
  <2>4. AllLoad(q) /\ ~Open(q) /\ (deleting # i => obj[o].msgs = Msgs(q))
    BY <1>2, <2>1, <2>2, <2>3 DEF Inv, Whole, WholeAt
  <2>5. AllLoad(Append(q, x)) /\ Msgs(Append(q, x)) = Append(Msgs(q), count + 1)
    BY <1>5, <2>1, <2>4, MsgsWritten
  <2>6. c \in Writers(i)'
    BY <1>0, <1>8, <1>10 DEF Writers, Holds
  <2> QED BY <1>4, <1>6, <2>2, <2>4, <2>5, <2>6
<1>14. Alive'
  <2>1. \A j \in Ids : cache[j] # None => cache[j] \in Objects
    BY DEF Inv, TypeOK
  <2>2. \A j \in Ids : cache[j] # None =>
           obj'[cache[j]].born = obj[cache[j]].born /\ obj'[cache[j]].acts = obj[cache[j]].acts
    BY <1>4, <2>1
  <2> QED BY <1>3, <1>8, <2>2, AliveKept DEF Inv
<1>15. Ordered'
  <2>1. ASSUME NEW j \in Ids PROVE InOrder(Lined(j)', log'[j], count')
    <3>1. InOrder(Lined(j), log[j], count) /\ Lined(j) \in Seq(Lines) /\ log[j] \in Seq(Nat)
      BY LinedType DEF Inv, Ordered, TypeOK
    <3>2. CASE j = i
      <4>1. log'[j] = Append(log[j], count + 1)
        BY <1>4, <3>2 DEF Inv, TypeOK
      <4>2. InOrder(Write(q, x), Append(log[j], count + 1), count + 1)
        BY <1>2, <1>4, <1>5, <3>1, <3>2, OrderWritten
      <4> QED BY <1>4, <1>7, <3>2, <4>1, <4>2
    <3>3. CASE j # i
      <4>1. log'[j] = log[j] /\ Lined(j)' = Lined(j) /\ count' = count + 1
        BY <1>4, <1>7, <3>3 DEF Inv, TypeOK
      <4>2. InOrder(Lined(j), log[j], count + 1)
        BY <1>4, <3>1, OrderLater
      <4> QED BY <4>1, <4>2
    <3> QED BY <3>2, <3>3
  <2> QED BY <2>1 DEF Ordered
<1> QED BY <1>9, <1>10, <1>11, <1>12, <1>13, <1>14, <1>15 DEF Inv, Whole

LEMMA AppendFailsStep ==
  ASSUME Inv, NEW c \in Clients, NEW partly \in BOOLEAN, AppendFails(c, partly)
  PROVE  Inv'
<1> USE NoneFacts
<1>0. PICK o \in Objects, i \in Ids : o = handle[c] /\ i = obj[o].id
  BY DEF AppendFails, Inv, TypeOK, Linked
<1> DEFINE x == [m |-> None, loads |-> FALSE, end |-> FALSE]
<1>1. Remember(o)
  BY <1>0 DEF AppendFails
<1>2. PICK q \in Seq(Lines) : q = Lined(i)
  BY LinedType DEF Inv
<1>3. /\ file' = IF partly THEN [file EXCEPT ![i] = Write(q, x)] ELSE file
      /\ intact' = [intact EXCEPT ![i] = FALSE]
      /\ faults' = faults + 1
      /\ UNCHANGED <<acts, cache, handle, wr, deleting, life, crashes>>
  BY <1>0, <1>2 DEF AppendFails, Hit
<1>4. /\ count \in Nat /\ count' = count + 1
      /\ log' = [log EXCEPT ![i] = Append(@, count + 1)] /\ log' \in [Ids -> Seq(Nat)]
      /\ obj' \in [Objects -> Object]
      /\ \A p \in Objects : p # o => obj'[p] = obj[p]
      /\ \A p \in Objects : obj'[p].id = obj[p].id /\ obj'[p].acts = obj[p].acts /\ obj'[p].born = obj[p].born
  BY <1>0, <1>1, Remembered DEF Inv
<1>5. x \in Lines /\ ~x.loads
  BY DEF Lines
<1> HIDE DEF x
<1>6. Write(q, x) \in Seq(Lines)
  BY <1>5, WriteLines
<1>7. /\ Lined(i)' = IF partly THEN Write(q, x) ELSE q
      /\ \A j \in Ids : j # i => Lined(j)' = Lined(j)
      /\ \A j \in Ids : file[j] # None => file'[j] # None
  BY <1>2, <1>3, <1>6 DEF Lined, Inv, TypeOK
<1>8. ~intact'[i] /\ \A j \in Ids : intact'[j] => intact[j]
  BY <1>3 DEF Inv, TypeOK
<1>9. TypeOK'
  <2>1. file' \in [Ids -> Seq(Lines) \cup {None}]
    BY <1>3, <1>6 DEF Inv, TypeOK
  <2>2. intact' \in [Ids -> BOOLEAN]
    BY <1>3 DEF Inv, TypeOK
  <2>3. {count', crashes', faults'} \subseteq Nat
    BY <1>3, <1>4 DEF Inv, TypeOK
  <2> QED BY <1>3, <1>4, <2>1, <2>2, <2>3 DEF Inv, TypeOK
<1>10. /\ Linked' /\ OneObject' /\ Undeleted'
       /\ \A d \in Clients, j \in Ids : Holds(d, j)' <=> Holds(d, j)
       /\ \A d \in Clients : handle[d] # None => obj'[handle[d]].id = obj[handle[d]].id /\ obj[handle[d]].id \in Ids
  BY <1>3, <1>4, <1>8, HandlesKept
<1>11. Saving'
  BY <1>3, <1>7, <1>10 DEF Inv, Saving
<1>12. ASSUME NEW j \in Ids, j # i PROVE WholeAt(j)'
  <2>1. Writers(j)' = Writers(j)
    BY <1>3, <1>10 DEF Writers
  <2>2. cache[j] # None => cache[j] # o /\ cache[j] \in Objects
    BY <1>0, <1>12 DEF Inv, Linked, TypeOK
  <2> QED BY <1>3, <1>4, <1>7, <1>8, <1>12, <2>1, <2>2, WholeKept DEF Inv, Whole
<1>13. WholeAt(i)'
  BY <1>8 DEF WholeAt
<1>14. Alive'
  <2>1. \A j \in Ids : cache[j] # None => cache[j] \in Objects
    BY DEF Inv, TypeOK
  <2>2. \A j \in Ids : cache[j] # None =>
           obj'[cache[j]].born = obj[cache[j]].born /\ obj'[cache[j]].acts = obj[cache[j]].acts
    BY <1>4, <2>1
  <2> QED BY <1>3, <1>8, <2>2, AliveKept DEF Inv
<1>15. Ordered'
  <2>1. ASSUME NEW j \in Ids PROVE InOrder(Lined(j)', log'[j], count')
    <3>1. InOrder(Lined(j), log[j], count) /\ Lined(j) \in Seq(Lines) /\ log[j] \in Seq(Nat)
      BY LinedType DEF Inv, Ordered, TypeOK
    <3>2. CASE j = i
      <4>1. log'[j] = Append(log[j], count + 1)
        BY <1>4, <3>2 DEF Inv, TypeOK
      <4>2. /\ InOrder(Write(q, x), Append(log[j], count + 1), count + 1)
            /\ InOrder(q, Append(log[j], count + 1), count + 1)
        BY <1>2, <1>4, <1>5, <3>1, <3>2, OrderWritten, OrderKept
      <4> QED BY <1>4, <1>7, <3>2, <4>1, <4>2
    <3>3. CASE j # i
      <4>1. log'[j] = log[j] /\ Lined(j)' = Lined(j) /\ count' = count + 1
        BY <1>4, <1>7, <3>3 DEF Inv, TypeOK
      <4>2. InOrder(Lined(j), log[j], count + 1)
        BY <1>4, <3>1, OrderLater
      <4> QED BY <4>1, <4>2
    <3> QED BY <3>2, <3>3
  <2> QED BY <2>1 DEF Ordered
<1> QED BY <1>9, <1>10, <1>11, <1>12, <1>13, <1>14, <1>15 DEF Inv, Whole

LEMMA NewlineStep ==
  ASSUME Inv, NEW c \in Clients, SaveNewline(c)
  PROVE  Inv'
<1> USE NoneFacts
<1>0. PICK o \in Objects, i \in Ids : o = handle[c] /\ i = obj[o].id
  BY DEF SaveNewline, Inv, TypeOK, Linked, Saving
<1>1. /\ wr' = [wr EXCEPT ![c] = "no"] /\ wr[c] # "no"
      /\ UNCHANGED <<acts, cache, obj, handle, deleting, life, log, count, crashes>>
  BY DEF SaveNewline
<1>2. /\ \A d \in Clients : d # c => wr'[d] = wr[d]
      /\ wr'[c] = "no"
      /\ wr' \in [Clients -> {"no", "newline", "gone"}]
  BY <1>1 DEF Inv, TypeOK
<1>3. PICK q \in Seq(Lines) : q = Lined(i)
  BY LinedType DEF Inv
<1>4. ASSUME NEW j \in Ids, j # i PROVE Writers(j)' = Writers(j)
  BY <1>0, <1>1, <1>2, <1>4 DEF Writers, Holds
<1>5. CASE wr[c] = "newline" /\ file' = [file EXCEPT ![i] = EndLine(@)] /\ UNCHANGED <<intact, faults>>
  <2>1. file[i] = q
    BY <1>0, <1>3, <1>5 DEF Inv, Saving, Lined
  <2>2. EndLine(q) \in Seq(Lines) /\ ~Open(EndLine(q))
    BY EndLineLines
  <2>3. /\ file' \in [Ids -> Seq(Lines) \cup {None}]
        /\ Lined(i)' = EndLine(q)
        /\ \A j \in Ids : j # i => Lined(j)' = Lined(j)
        /\ \A j \in Ids : file[j] # None => file'[j] # None
    BY <1>5, <2>1, <2>2 DEF Lined, Inv, TypeOK
  <2>4. TypeOK'
    BY <1>1, <1>2, <1>5, <2>3 DEF Inv, TypeOK
  <2>5. Linked' /\ OneObject' /\ Undeleted'
    BY <1>1, <1>5, HandlesKept
  <2>6. Saving'
    BY <1>1, <1>2, <2>3 DEF Inv, Saving, Linked
  <2>7. ASSUME NEW j \in Ids, j # i PROVE WholeAt(j)'
    BY <1>1, <1>4, <1>5, <2>3, <2>7, WholeKept DEF Inv, Whole
  <2>8. WholeAt(i)'
    <3> SUFFICES ASSUME intact[i]
                 PROVE  /\ AllLoad(EndLine(q))
                        /\ Open(EndLine(q)) <=> Writers(i)' # {}
                        /\ cache[i] # None /\ deleting # i => obj[cache[i]].msgs = Msgs(EndLine(q))
      BY <1>1, <1>5, <2>3 DEF WholeAt
    <3>1. c \in Writers(i)
      BY <1>0, <1>5 DEF Writers, Holds
    <3>2. /\ AllLoad(q) /\ Open(q)
          /\ cache[i] # None /\ deleting # i => obj[cache[i]].msgs = Msgs(q)
      BY <1>3, <3>1 DEF Inv, Whole, WholeAt
    <3>3. Msgs(EndLine(q)) = Msgs(q) /\ AllLoad(EndLine(q))
      BY <3>2, MsgsEnded
    <3>4. Writers(i)' = {}
      <4> SUFFICES ASSUME NEW d \in Writers(i)' PROVE FALSE
        OBVIOUS
      <4>1. d \in Clients /\ handle[d] # None /\ obj[handle[d]].id = i /\ wr'[d] = "newline"
        BY <1>1 DEF Writers, Holds
      <4>2. d # c /\ wr[d] = "newline"
        BY <1>2, <4>1
      <4>3. handle[d] = o
        BY <1>0, <4>1 DEF Inv, OneObject
      <4> QED BY <1>0, <1>1, <4>1, <4>2, <4>3 DEF Inv, Saving
    <3> QED BY <2>2, <3>2, <3>3, <3>4
  <2>9. Alive'
    BY <1>1, <1>5 DEF Inv, Alive
  <2>10. Ordered'
    <3>1. InOrder(EndLine(q), log[i], count)
      BY <1>3, OrderEnded DEF Inv, Ordered, TypeOK
    <3> QED BY <1>1, <2>3, <3>1 DEF Inv, Ordered
  <2> QED BY <2>4, <2>5, <2>6, <2>7, <2>8, <2>9, <2>10 DEF Inv, Whole
<1>6. CASE \/ wr[c] = "gone" /\ UNCHANGED <<file, intact, faults>>
           \/ Hit(i, TRUE) /\ UNCHANGED file
  <2>1. /\ intact' \in [Ids -> BOOLEAN] /\ faults' \in Nat
        /\ \A j \in Ids : intact'[j] => intact[j]
        /\ ~intact'[i] \/ wr[c] = "gone"
    BY <1>6, Hits DEF Inv, TypeOK
  <2>2. file' = file /\ \A j \in Ids : Lined(j)' = Lined(j)
    BY <1>6 DEF Lined
  <2>3. TypeOK'
    BY <1>1, <1>2, <2>1, <2>2 DEF Inv, TypeOK
  <2>4. Linked' /\ OneObject' /\ Undeleted'
    BY <1>1, <2>1, HandlesKept
  <2>5. Saving'
    BY <1>1, <1>2, <2>2 DEF Inv, Saving
  <2>6. ASSUME NEW j \in Ids, j # i PROVE WholeAt(j)'
    BY <1>1, <1>4, <2>1, <2>2, <2>6, WholeKept DEF Inv, Whole
  <2>7. WholeAt(i)'
    <3>1. CASE ~intact'[i]
      BY <3>1 DEF WholeAt
    <3>2. CASE wr[c] = "gone"
      <4>1. Writers(i)' = Writers(i)
        BY <1>1, <1>2, <3>2 DEF Writers, Holds
      <4> QED BY <1>1, <2>1, <2>2, <4>1, WholeKept DEF Inv, Whole
    <3> QED BY <2>1, <3>1, <3>2
  <2>8. Alive' /\ Ordered'
    BY <1>1, <2>1, <2>2 DEF Inv, Alive, Ordered
  <2> QED BY <2>3, <2>4, <2>5, <2>6, <2>7, <2>8 DEF Inv, Whole
<1> QED BY <1>0, <1>5, <1>6 DEF SaveNewline

LEMMA SetActivitiesStep ==
  ASSUME Inv, NEW c \in Clients, SetActivities(c)
  PROVE  Inv'
<1> USE NoneFacts
<1>0. PICK o \in Objects, i \in Ids : o = handle[c] /\ i = obj[o].id
  BY DEF SetActivities, Inv, TypeOK, Linked
<1>1. PICK r \in Object : r = obj[o]
  BY DEF Inv, TypeOK
<1> DEFINE y == [r EXCEPT !.acts = r.born]
<1>2. /\ obj' = [obj EXCEPT ![o] = y]
      /\ UNCHANGED <<file, cache, handle, wr, deleting, life, log, count, crashes>>
  BY <1>0, <1>1 DEF SetActivities, Inv, TypeOK
<1>3. /\ acts' \in [Ids -> Nat \cup {Empty, None}]
      /\ intact' \in [Ids -> BOOLEAN] /\ faults' \in Nat
      /\ \A j \in Ids : intact'[j] => intact[j]
      /\ \A j \in Ids : j # i => acts'[j] = acts[j]
      /\ intact'[i] => acts'[i] = r.born
  <2>1. r.born \in Nat
    BY DEF Object
  <2>2. CASE acts' = [acts EXCEPT ![i] = r.born] /\ UNCHANGED <<intact, faults>>
    BY <2>1, <2>2 DEF Inv, TypeOK
  <2>3. CASE (acts' = [acts EXCEPT ![i] = Empty] \/ UNCHANGED acts) /\ Hit(i, TRUE)
    <3>1. /\ acts' \in [Ids -> Nat \cup {Empty, None}]
          /\ \A j \in Ids : j # i => acts'[j] = acts[j]
      BY <2>3 DEF Inv, TypeOK
    <3> QED BY <2>3, <3>1, Hits DEF Inv
  <2> QED BY <1>0, <1>1, <2>2, <2>3 DEF SetActivities
<1>4. /\ y \in Object /\ y.id = r.id /\ y.msgs = r.msgs /\ y.born = r.born /\ y.acts = r.born
  BY DEF Object
<1> HIDE DEF y
<1>5. /\ obj' \in [Objects -> Object]
      /\ obj'[o] = y
      /\ \A p \in Objects : p # o => obj'[p] = obj[p]
      /\ \A p \in Objects : obj'[p].id = obj[p].id /\ obj'[p].msgs = obj[p].msgs /\ obj'[p].born = obj[p].born
  BY <1>1, <1>2, <1>4 DEF Inv, TypeOK
<1>6. TypeOK'
  BY <1>2, <1>3, <1>5 DEF Inv, TypeOK
<1>7. /\ Linked' /\ OneObject' /\ Undeleted'
      /\ \A d \in Clients, j \in Ids : Holds(d, j)' <=> Holds(d, j)
      /\ \A d \in Clients : handle[d] # None => obj'[handle[d]].id = obj[handle[d]].id /\ obj[handle[d]].id \in Ids
  BY <1>2, <1>3, <1>5, HandlesKept
<1>8. Saving'
  BY <1>2, <1>7 DEF Inv, Saving
<1>9. \A j \in Ids : Lined(j)' = Lined(j) /\ Writers(j)' = Writers(j)
  BY <1>2, <1>7 DEF Lined, Writers
<1>10. \A j \in Ids : cache[j] # None => cache[j] \in Objects
  BY DEF Inv, TypeOK
<1>11. Whole'
  BY <1>2, <1>3, <1>5, <1>9, <1>10, WholeKept DEF Inv, Whole
<1>12. Alive'
  <2> SUFFICES ASSUME NEW j \in Ids, intact'[j], deleting' # j
               PROVE  /\ acts'[j] \in {None, life'[j]}
                      /\ cache'[j] # None => obj'[cache'[j]].born = life'[j] /\ obj'[cache'[j]].acts \in {None, life'[j]}
    BY DEF Alive
  <2>1. intact[j] /\ deleting # j /\ life'[j] = life[j] /\ cache'[j] = cache[j]
    BY <1>2, <1>3
  <2>2. CASE j # i
    <3>1. cache[j] # None => cache[j] # o
      BY <1>0, <2>2 DEF Inv, Linked
    <3> QED BY <1>3, <1>5, <1>10, <2>1, <2>2, <3>1 DEF Inv, Alive
  <2>3. CASE j = i
    <3>1. cache[i] = o
      BY <1>0, <2>1, <2>3 DEF Inv, OneObject
    <3>2. r.born = life[i]
      BY <1>1, <2>1, <2>3, <3>1 DEF Inv, Alive
    <3> QED BY <1>3, <1>4, <1>5, <2>1, <2>3, <3>1, <3>2
  <2> QED BY <2>2, <2>3
<1>13. Ordered'
  BY <1>2, <1>9 DEF Inv, Ordered
<1> QED BY <1>6, <1>7, <1>8, <1>11, <1>12, <1>13 DEF Inv

LEMMA DeleteFileStep ==
  ASSUME Inv, NEW i \in Ids, DeleteFile(i)
  PROVE  Inv'
<1> USE NoneFacts
<1>1. /\ deleting = None /\ deleting' = i
      /\ file' = [file EXCEPT ![i] = None]
      /\ wr' = [c \in Clients |-> IF Holds(c, i) /\ wr[c] = "newline" THEN "gone" ELSE wr[c]]
      /\ life' = [life EXCEPT ![i] = @ + 1]
      /\ log' = [log EXCEPT ![i] = <<>>]
      /\ UNCHANGED <<acts, cache, obj, handle, count, crashes>>
  BY DEF DeleteFile
<1>2. /\ intact' \in [Ids -> BOOLEAN] /\ faults' \in Nat
      /\ \A j \in Ids : intact'[j] => intact[j]
      /\ intact'[i] => \A c \in Clients : ~Holds(c, i)
  <2>1. PICK b \in BOOLEAN : b = (\E c \in Clients : Holds(c, i))
    OBVIOUS
  <2>2. Hit(i, b)
    BY <2>1 DEF DeleteFile
  <2> QED BY <2>1, <2>2, Hits DEF Inv
<1>3. /\ Lined(i)' = <<>>
      /\ \A j \in Ids : j # i => Lined(j)' = Lined(j) /\ file'[j] = file[j]
      /\ file' \in [Ids -> Seq(Lines) \cup {None}]
  BY <1>1 DEF Lined, Inv, TypeOK
<1>4. /\ wr' \in [Clients -> {"no", "newline", "gone"}]
      /\ \A c \in Clients : wr'[c] # "no" <=> wr[c] # "no"
      /\ \A c \in Clients : ~Holds(c, i) => wr'[c] = wr[c]
      /\ \A c \in Clients : wr'[c] = "newline" => wr[c] = "newline" /\ ~Holds(c, i)
  BY <1>1 DEF Inv, TypeOK
<1>5. TypeOK'
  <2>1. life' \in [Ids -> Nat] /\ log' \in [Ids -> Seq(Nat)]
    BY <1>1 DEF Inv, TypeOK
  <2> QED BY <1>1, <1>2, <1>3, <1>4, <2>1 DEF Inv, TypeOK
<1>6. Linked'
  BY <1>1 DEF Inv, Linked
<1>7. ASSUME NEW d \in Clients, handle'[d] # None, intact'[obj'[handle'[d]].id]
      PROVE  cache'[obj'[handle'[d]].id] = handle'[d] /\ deleting' # obj'[handle'[d]].id
  <2>1. handle[d] # None /\ obj[handle[d]].id \in Ids /\ intact[obj[handle[d]].id]
    BY <1>1, <1>2, <1>7 DEF Inv, Linked
  <2>2. obj[handle[d]].id # i
    BY <1>1, <1>2, <1>7, <2>1 DEF Holds
  <2> QED BY <1>1, <2>1, <2>2 DEF Inv, OneObject
<1>8. OneObject' /\ Undeleted'
  BY <1>7 DEF OneObject, Undeleted
<1>9. Saving'
  <2> SUFFICES ASSUME NEW c \in Clients, wr'[c] # "no"
               PROVE  /\ handle'[c] # None
                      /\ wr'[c] = "newline" => file'[obj'[handle'[c]].id] # None
                      /\ \A d \in Clients : handle'[d] = handle'[c] /\ wr'[d] # "no" => d = c
    BY DEF Saving
  <2>1. wr[c] # "no" /\ handle[c] # None
    BY <1>4 DEF Inv, Saving
  <2>2. wr'[c] = "newline" => file'[obj[handle[c]].id] # None
    BY <1>3, <1>4, <2>1 DEF Inv, Saving, Holds, Linked
  <2> QED BY <1>1, <1>4, <2>1, <2>2 DEF Inv, Saving
<1>10. ASSUME NEW j \in Ids, j # i PROVE WholeAt(j)'
  <2>1. Writers(j)' = Writers(j)
    BY <1>1, <1>4, <1>10 DEF Writers, Holds
  <2> QED BY <1>1, <1>2, <1>3, <1>10, <2>1, WholeKept DEF Inv, Whole
<1>11. WholeAt(i)'
  <2>1. Writers(i)' = {}
    BY <1>1, <1>4 DEF Writers, Holds
  <2>2. AllLoad(<<>>) /\ ~Open(<<>>)
    BY DEF AllLoad, Open
  <2> QED BY <1>1, <1>3, <2>1, <2>2 DEF WholeAt
<1>12. Alive'
  BY <1>1, <1>2 DEF Inv, Alive, TypeOK
<1>13. Ordered'
  <2>1. ASSUME NEW j \in Ids, j # i PROVE log'[j] = log[j]
    BY <1>1, <2>1 DEF Inv, TypeOK
  <2>2. \A l, n : InOrder(<<>>, l, n)
    BY DEF InOrder
  <2> QED BY <1>1, <1>3, <2>1, <2>2 DEF Inv, Ordered
<1> QED BY <1>5, <1>6, <1>8, <1>9, <1>10, <1>11, <1>12, <1>13 DEF Inv, Whole

LEMMA DeleteRestStep ==
  ASSUME Inv, DeleteRest
  PROVE  Inv'
<1> USE NoneFacts
<1>0. PICK i \in Ids : i = deleting
  BY DEF DeleteRest, Inv, TypeOK
<1>1. /\ cache' = [cache EXCEPT ![i] = None]
      /\ deleting' = None
      /\ obj' = Reachable(cache', handle)
      /\ UNCHANGED <<file, handle, wr, life, log, count, crashes>>
  BY <1>0 DEF DeleteRest
<1>2. /\ acts' \in [Ids -> Nat \cup {Empty, None}]
      /\ intact' \in [Ids -> BOOLEAN] /\ faults' \in Nat
      /\ \A j \in Ids : intact'[j] => intact[j]
      /\ \A j \in Ids : j # i => acts'[j] = acts[j]
      /\ intact'[i] => acts'[i] = None
  <2>1. CASE acts' = [acts EXCEPT ![i] = None] /\ UNCHANGED <<intact, faults>>
    BY <2>1 DEF Inv, TypeOK
  <2>2. CASE Hit(i, TRUE) /\ UNCHANGED acts
    BY <2>2, Hits DEF Inv, TypeOK
  <2> QED BY <1>0, <2>1, <2>2 DEF DeleteRest
<1>3. /\ \A j \in Ids : j # i => cache'[j] = cache[j]
      /\ cache'[i] = None
      /\ cache' \in [Ids -> Objects \cup {None}]
  BY <1>1 DEF Inv, TypeOK
<1>4. /\ obj' \in [Objects -> Object]
      /\ \A d \in Clients : handle[d] # None => obj'[handle[d]] = obj[handle[d]]
      /\ \A j \in Ids : cache'[j] # None => cache'[j] = cache[j] /\ obj'[cache[j]] = obj[cache[j]]
  <2>1. Garbage \in Object
    BY DEF Garbage, Object
  <2>2. obj' \in [Objects -> Object]
    BY <1>1, <2>1 DEF Reachable, Inv, TypeOK
  <2> QED BY <1>1, <1>3, <2>2 DEF Reachable, Inv, TypeOK
<1>5. TypeOK'
  BY <1>1, <1>2, <1>3, <1>4 DEF Inv, TypeOK
<1>6. Linked'
  <2>1. \A j \in Ids : cache'[j] # None => obj'[cache'[j]].id = j
    BY <1>4 DEF Inv, Linked
  <2>2. \A d \in Clients : handle'[d] # None => obj'[handle'[d]].id \in Ids
    BY <1>1, <1>4 DEF Inv, Linked
  <2> QED BY <2>1, <2>2 DEF Linked
<1>7. ASSUME NEW d \in Clients, handle'[d] # None, intact'[obj'[handle'[d]].id]
      PROVE  cache'[obj'[handle'[d]].id] = handle'[d] /\ deleting' # obj'[handle'[d]].id
  <2>1. /\ handle'[d] = handle[d] /\ handle[d] # None
        /\ obj'[handle'[d]].id = obj[handle[d]].id /\ obj[handle[d]].id \in Ids
    BY <1>1, <1>4, <1>7 DEF Inv, Linked
  <2>2. intact[obj[handle[d]].id]
    BY <1>2, <1>7, <2>1
  <2>3. obj[handle[d]].id # i /\ cache[obj[handle[d]].id] = handle[d]
    BY <1>0, <2>1, <2>2 DEF Inv, Undeleted, OneObject
  <2> QED BY <1>1, <1>3, <2>1, <2>3
<1>8. OneObject' /\ Undeleted'
  BY <1>7 DEF OneObject, Undeleted
<1>9. Saving'
  <2> SUFFICES ASSUME NEW d \in Clients, wr[d] # "no"
               PROVE  /\ handle[d] # None
                      /\ wr[d] = "newline" => file[obj'[handle[d]].id] # None
                      /\ \A b \in Clients : handle[b] = handle[d] /\ wr[b] # "no" => b = d
    BY <1>1 DEF Saving
  <2>1. /\ handle[d] # None
        /\ wr[d] = "newline" => file[obj[handle[d]].id] # None
        /\ \A b \in Clients : handle[b] = handle[d] /\ wr[b] # "no" => b = d
    BY DEF Inv, Saving
  <2>2. obj'[handle[d]] = obj[handle[d]]
    BY <1>4, <2>1
  <2> QED BY <2>1, <2>2
<1>10. \A j \in Ids : Lined(j)' = Lined(j) /\ Writers(j)' = Writers(j)
  BY <1>1, <1>4 DEF Lined, Writers, Holds
<1>11. Whole'
  <2>1. \A j \in Ids : cache'[j] # None => deleting # j
    BY <1>0, <1>3
  <2> QED BY <1>2, <1>4, <1>10, <2>1, WholeKept DEF Inv, Whole
<1>12. Alive'
  <2> SUFFICES ASSUME NEW j \in Ids, intact'[j]
               PROVE  /\ acts'[j] \in {None, life'[j]}
                      /\ cache'[j] # None => obj'[cache'[j]].born = life'[j] /\ obj'[cache'[j]].acts \in {None, life'[j]}
    BY DEF Alive
  <2>1. CASE j = i
    BY <1>2, <1>3, <2>1
  <2>2. CASE j # i
    <3>1. intact[j] /\ deleting # j /\ acts'[j] = acts[j] /\ life' = life
      BY <1>0, <1>1, <1>2, <2>2
    <3> QED BY <1>4, <3>1 DEF Inv, Alive
  <2> QED BY <2>1, <2>2
<1>13. Ordered'
  BY <1>1, <1>10 DEF Inv, Ordered
<1> QED BY <1>5, <1>6, <1>8, <1>9, <1>11, <1>12, <1>13 DEF Inv

LEMMA CrashStep ==
  ASSUME Inv, Crash
  PROVE  Inv'
<1> USE NoneFacts
<1>1. /\ cache' = [i \in Ids |-> None]
      /\ handle' = [c \in Clients |-> None]
      /\ wr' = [c \in Clients |-> "no"]
      /\ deleting' = None
      /\ obj' = Reachable(cache', handle')
      /\ crashes' = crashes + 1
      /\ UNCHANGED <<file, acts, life, log, count>>
  BY DEF Crash
<1>2. /\ intact' \in [Ids -> BOOLEAN] /\ faults' \in Nat
      /\ \A j \in Ids : intact'[j] =>
            intact[j] /\ deleting # j /\ \A c \in Clients : Holds(c, j) => wr[c] = "no"
  <2>1. PICK busy : /\ busy = {i \in Ids : deleting = i \/ \E c \in Clients : Holds(c, i) /\ wr[c] # "no"}
                    /\ faults' = IF busy = {} THEN faults ELSE faults + 1
                    /\ intact' = [i \in Ids |-> intact[i] /\ i \notin busy]
    BY DEF Crash
  <2>2. faults' \in Nat /\ intact' \in [Ids -> BOOLEAN]
    BY <2>1 DEF Inv, TypeOK
  <2> QED BY <2>1, <2>2 DEF Inv, TypeOK
<1>3. obj' \in [Objects -> Object]
  <2>1. Garbage \in Object
    BY DEF Garbage, Object
  <2> QED BY <1>1, <2>1 DEF Reachable, Inv, TypeOK
<1>4. TypeOK'
  <2>1. /\ cache' \in [Ids -> Objects \cup {None}]
        /\ handle' \in [Clients -> Objects \cup {None}]
        /\ wr' \in [Clients -> {"no", "newline", "gone"}]
    BY <1>1
  <2>2. {count', crashes', faults'} \subseteq Nat
    BY <1>1, <1>2 DEF Inv, TypeOK
  <2> QED BY <1>1, <1>2, <1>3, <2>1, <2>2 DEF Inv, TypeOK
<1>5. Linked' /\ OneObject' /\ Undeleted' /\ Saving'
  BY <1>1 DEF Linked, OneObject, Undeleted, Saving
<1>6. \A j \in Ids : Lined(j)' = Lined(j)
  BY <1>1 DEF Lined
<1>7. Whole'
  <2> SUFFICES ASSUME NEW j \in Ids, intact'[j]
               PROVE  AllLoad(Lined(j)) /\ ~Open(Lined(j)) /\ Writers(j)' = {}
    BY <1>1, <1>6 DEF Whole, WholeAt
  <2>1. Writers(j) = {} /\ Writers(j)' = {}
    BY <1>1, <1>2 DEF Writers, Holds
  <2> QED BY <1>2, <2>1 DEF Inv, Whole, WholeAt
<1>8. Alive' /\ Ordered'
  BY <1>1, <1>2, <1>6 DEF Inv, Alive, Ordered
<1> QED BY <1>4, <1>5, <1>7, <1>8 DEF Inv

LEMMA NextInv == Inv /\ [Next]_vars => Inv'
<1> SUFFICES ASSUME Inv, [Next]_vars PROVE Inv'
  OBVIOUS
<1>1. ASSUME UNCHANGED vars PROVE Inv'
  <2>1. \A i \in Ids : Lined(i)' = Lined(i) /\ Writers(i)' = Writers(i)
    BY <1>1 DEF vars, Lined, Writers, Holds
  <2>2. TypeOK' /\ Linked' /\ Saving' /\ OneObject' /\ Undeleted' /\ Alive' /\ Ordered'
    BY <1>1, <2>1 DEF vars, Inv, TypeOK, Linked, Saving, OneObject, Undeleted, Alive, Ordered
  <2>3. Whole'
    BY <1>1, <2>1, WholeKept DEF vars, Inv, Whole
  <2> QED BY <2>2, <2>3 DEF Inv
<1> QED BY <1>1, GetStep, AppendStep, AppendFailsStep, NewlineStep, SetActivitiesStep, DropStep,
           DeleteFileStep, DeleteRestStep, CrashStep DEF Next

-----------------------------------------------------------------------------
(* Theorems                                                                *)

\* The state of the store has its type: in particular there always is a free object
\* for a conversation that is loaded (file.go:97-149).
THEOREM TypeCorrect == Spec => []TypeOK
<1>1. Inv => TypeOK
  BY DEF Inv
<1> QED BY <1>1, InitInv, NextInv, PTL DEF Spec

\* All clients of a conversation work on the cached object, unless it was deleted in
\* their hands (file.go:97-149).
THEOREM ClientsShareObject == Spec => []OneObject
<1>1. Inv => OneObject
  BY DEF Inv
<1> QED BY <1>1, InitInv, NextInv, PTL DEF Spec

\* Whatever faults hit other conversations, what a conversation shows is what loads
\* from its file (file.go:187-195, 288-340).
THEOREM FilesAgree == Spec => []LoadAgrees
<1>1. Inv => LoadAgrees
  <2> SUFFICES ASSUME Inv, NEW i \in Ids, intact[i], cache[i] # None, deleting # i
               PROVE  obj[cache[i]].msgs = Stored(i)
    BY DEF LoadAgrees
  <2>1. AllLoad(Lined(i)) /\ obj[cache[i]].msgs = Msgs(Lined(i)) /\ Lined(i) \in Seq(Lines)
    BY LinedType DEF Inv, Whole, WholeAt
  <2> QED BY <2>1, LoadedLines DEF Stored
<1> QED BY <1>1, InitInv, NextInv, PTL DEF Spec

\* A conversation begun after a deletion has no activities of its predecessor
\* (file.go:172-185).
THEOREM DeletedForGood == Spec => []NothingSurvivesDeletion
<1>1. Inv => NothingSurvivesDeletion
  BY DEF Inv, Alive, NothingSurvivesDeletion
<1> QED BY <1>1, InitInv, NextInv, PTL DEF Spec

\* Whatever fails, messages load in the order of their appends, none twice and none
\* of a former life (file.go:288-304).
THEOREM OrderedLoads == Spec => []LoadsInOrder
<1>1. Inv => LoadsInOrder
  <2> SUFFICES ASSUME Inv, NEW i \in Ids
               PROVE  /\ \A j, k \in 1..Len(Stored(i)) : j < k => Stored(i)[j] < Stored(i)[k]
                      /\ \A j \in 1..Len(Stored(i)) : \E k \in 1..Len(log[i]) : log[i][k] = Stored(i)[j]
    BY DEF LoadsInOrder
  <2>1. PICK q \in Seq(Lines) : q = Lined(i)
    BY LinedType DEF Inv
  <2>2. InOrder(q, log[i], count)
    BY <2>1 DEF Inv, Ordered
  <2>3. PICK n \in 0..Len(q) : LoadMsgs(q) = [j \in 1..n |-> q[j].m] /\ \A j \in 1..n : q[j].loads
    BY LoadedLines
  <2>4. Stored(i) = [j \in 1..n |-> q[j].m]
    BY <2>1, <2>3 DEF Stored
  <2>5. Len(Stored(i)) = n /\ \A j \in 1..n : Stored(i)[j] = q[j].m
    BY <2>4
  <2>6. \A j \in 1..n : j \in 1..Len(q)
    OBVIOUS
  <2>7. \A j \in 1..n : \E k \in 1..Len(log[i]) : log[i][k] = q[j].m
    BY <2>2, <2>3, <2>6 DEF InOrder
  <2>8. \A j, k \in 1..n : j < k => q[j].m < q[k].m
    BY <2>2, <2>3, <2>6 DEF InOrder
  <2> QED BY <2>5, <2>7, <2>8
<1> QED BY <1>1, InitInv, NextInv, PTL DEF Spec

-----------------------------------------------------------------------------
(* The abstract store                                                      *)

\* A conversation that is being deleted has no file any more.
Removed == deleting # None /\ intact[deleting] => file[deleting] = None

LEMMA RemovedStep ==
  ASSUME Inv, Removed, [Next]_vars
  PROVE  Removed'
<1> USE NoneFacts
<1>1. ASSUME NEW c \in Clients, NEW i \in Ids, NEW create \in BOOLEAN, GetConversation(c, i, create)
      PROVE  Removed'
  BY <1>1 DEF GetConversation, Removed
<1>2. ASSUME NEW c \in Clients, NEW long \in BOOLEAN, AppendMsg(c, long) PROVE Removed'
  BY <1>2 DEF AppendMsg, Hit, Removed, Inv, TypeOK, Undeleted
<1>3. ASSUME NEW c \in Clients, NEW partly \in BOOLEAN, AppendFails(c, partly) PROVE Removed'
  BY <1>3 DEF AppendFails, Hit, Removed, Inv, TypeOK, Undeleted
<1>4. ASSUME NEW c \in Clients, SaveNewline(c) PROVE Removed'
  BY <1>4 DEF SaveNewline, Hit, Removed, Inv, TypeOK, Undeleted, Saving
<1>5. ASSUME NEW c \in Clients, SetActivities(c) \/ Drop(c) PROVE Removed'
  <2>1. /\ UNCHANGED <<file, deleting>>
        /\ \A i \in Ids : intact'[i] => intact[i]
    <3>1. CASE UNCHANGED intact
      BY <1>5, <3>1 DEF SetActivities, Drop
    <3>2. CASE Hit(obj[handle[c]].id, TRUE)
      BY <1>5, <3>2 DEF SetActivities, Drop, Hit, Inv, TypeOK
    <3> QED BY <1>5, <3>1, <3>2 DEF SetActivities, Drop
  <2>2. deleting \in Ids \cup {None}
    BY DEF Inv, TypeOK
  <2> QED BY <2>1, <2>2 DEF Removed
<1>6. ASSUME NEW i \in Ids, DeleteFile(i) PROVE Removed'
  BY <1>6 DEF DeleteFile, Removed, Inv, TypeOK
<1>7. CASE DeleteRest \/ Crash
  BY <1>7 DEF DeleteRest, Crash, Removed
<1>8. CASE UNCHANGED vars
  BY <1>8 DEF vars, Removed
<1> QED BY <1>1, <1>2, <1>3, <1>4, <1>5, <1>6, <1>7, <1>8 DEF Next

\* What an intact conversation shows is what its file holds, at every moment.
Kept(i) == IF intact[i] THEN Msgs(Lined(i)) ELSE <<>>
Lost == {i \in Ids : ~intact[i]}

Showing == Shown = [i \in Ids |-> Kept(i)]

LEMMA ShownIsKept == Inv /\ Removed => Showing
<1> SUFFICES ASSUME Inv, Removed, NEW i \in Ids, intact[i]
             PROVE  Msgs(Lined(i)) = IF deleting = i THEN <<>>
                                     ELSE IF cache[i] # None THEN obj[cache[i]].msgs ELSE Stored(i)
  BY DEF Showing, Shown, Kept
<1>1. Lined(i) \in Seq(Lines) /\ WholeAt(i)
  BY LinedType DEF Inv, Whole
<1>2. CASE deleting = i
  <2>1. Lined(i) = <<>>
    BY <1>2, NoneFacts DEF Removed, Lined
  <2> QED BY <1>2, <2>1 DEF Msgs
<1>3. CASE deleting # i
  BY <1>1, <1>3, LoadedLines DEF WholeAt, Stored
<1> QED BY <1>2, <1>3

\* A step that faults nothing and keeps the messages of intact files is not seen.
LEMMA NotSeen ==
  ASSUME Showing, Showing',
         UNCHANGED <<intact, faults>>,
         \A i \in Ids : intact[i] => Msgs(Lined(i))' = Msgs(Lined(i))
  PROVE  UNCHANGED <<Shown, Lost, faults>>
<1>1. \A i \in Ids : Kept(i)' = Kept(i)
  BY DEF Kept
<1> QED BY <1>1 DEF Lost, Showing

\* A step that faults the conversations of S keeps the messages of the others.
LEMMA FaultSeen ==
  ASSUME TypeOK, Showing, Showing',
         NEW S \in SUBSET Ids, faults < MaxFaults, faults' = faults + 1,
         intact' = [i \in Ids |-> intact[i] /\ i \notin S],
         \A i \in Ids \ S : intact[i] => Msgs(Lined(i))' = Msgs(Lined(i))
  PROVE  Durable!Lose(S)
<1>1. \A i \in Ids : intact'[i] <=> intact[i] /\ i \notin S
  OBVIOUS
<1>2. Lost' = Lost \cup S
  BY <1>1 DEF Lost
<1>3. \A i \in Ids : Kept(i)' = IF i \in S THEN <<>> ELSE Kept(i)
  BY <1>1 DEF Kept
<1>4. Shown' = [i \in Ids |-> IF i \in S THEN <<>> ELSE Shown[i]]
  BY <1>3 DEF Showing
<1> QED BY <1>2, <1>4 DEF Durable!Lose, Lost

LEMMA HitSeen ==
  ASSUME TypeOK, Showing, Showing',
         NEW i \in Ids, Hit(i, TRUE),
         \A j \in Ids : j # i => Lined(j)' = Lined(j)
  PROVE  Durable!Next
<1>1. faults < MaxFaults /\ faults' = faults + 1
  BY DEF Hit
<1>2. intact' = [j \in Ids |-> intact[j] /\ j \notin {i}]
  <2>1. intact' = [intact EXCEPT ![i] = FALSE]
    BY DEF Hit
  <2> QED BY <2>1 DEF TypeOK
<1>3. \A j \in Ids \ {i} : Msgs(Lined(j))' = Msgs(Lined(j))
  BY DEF Msgs
<1>4. Durable!Lose({i})
  BY <1>1, <1>2, <1>3, FaultSeen
<1> QED BY <1>4 DEF Durable!Next

LEMMA NoHit ==
  ASSUME TypeOK, NEW i \in Ids, Hit(i, FALSE)
  PROVE  UNCHANGED <<intact, faults>>
BY DEF TypeOK, Hit

LEMMA DurableAppend ==
  ASSUME Inv, Showing, Showing',
         NEW c \in Clients, NEW long \in BOOLEAN, AppendMsg(c, long)
  PROVE  Durable!Next \/ UNCHANGED <<Shown, Lost, faults>>
<1> USE NoneFacts
<1>0. PICK o \in Objects, i \in Ids : o = handle[c] /\ i = obj[o].id
  BY DEF AppendMsg, Inv, TypeOK, Linked
<1> DEFINE x == [m |-> count + 1, loads |-> ~long, end |-> FALSE]
<1>1. Unlocked(o) /\ count \in Nat /\ count < MaxAppends
  BY <1>0 DEF AppendMsg, Remember, Inv, TypeOK
<1>2. PICK q \in Seq(Lines) : q = Lined(i)
  BY LinedType DEF Inv
<1>3. file' = [file EXCEPT ![i] = Write(q, x)] /\ Hit(i, long)
  BY <1>0, <1>2 DEF AppendMsg
<1>4. x \in Lines /\ x.loads = ~long /\ x.m = count + 1
  BY <1>1 DEF Lines
<1> HIDE DEF x
<1>5. /\ Write(q, x) \in Seq(Lines)
      /\ ~Open(q) => Write(q, x) = Append(q, x)
  BY <1>4, WriteLines
<1>6. Lined(i)' = Write(q, x) /\ \A j \in Ids : j # i => Lined(j)' = Lined(j)
  BY <1>3, <1>5 DEF Lined, Inv, TypeOK
<1>7. CASE long
  BY <1>3, <1>6, <1>7, HitSeen DEF Inv
<1>8. CASE ~long /\ ~intact[i]
  <2>1. UNCHANGED <<intact, faults>>
    BY <1>3, <1>8, NoHit DEF Inv
  <2>2. \A j \in Ids : intact[j] => Msgs(Lined(j))' = Msgs(Lined(j))
    BY <1>6, <1>8 DEF Msgs
  <2> QED BY <2>1, <2>2, NotSeen
<1>9. CASE ~long /\ intact[i]
  <2>1. UNCHANGED <<intact, faults>>
    BY <1>3, <1>9, NoHit DEF Inv
  <2>2. Writers(i) = {}
    <3> SUFFICES ASSUME NEW d \in Writers(i) PROVE FALSE
      OBVIOUS
    <3>1. d \in Clients /\ handle[d] # None /\ obj[handle[d]].id = i /\ wr[d] = "newline"
      BY DEF Writers, Holds
    <3>2. handle[d] = o
      BY <1>0, <1>9, <3>1 DEF Inv, OneObject
    <3> QED BY <1>1, <3>1, <3>2 DEF Unlocked
  <2>3. ~Open(q)
    BY <1>2, <1>9, <2>2 DEF Inv, Whole, WholeAt
  <2>4. Msgs(Lined(i))' = Append(Msgs(q), count + 1)
    <3>1. Msgs(Append(q, x)) = Append(Msgs(q), count + 1)
      BY <1>4, MsgsWritten
    <3> QED BY <1>5, <1>6, <2>3, <3>1 DEF Msgs
  <2>5. \A j \in Ids : Kept(j)' = IF j = i THEN Append(Kept(j), count + 1) ELSE Kept(j)
    BY <1>2, <1>6, <1>9, <2>1, <2>4 DEF Kept, Msgs
  <2>6. Shown' = [Shown EXCEPT ![i] = Append(@, count + 1)]
    BY <2>5 DEF Showing
  <2>7. ASSUME NEW j \in Ids, NEW k \in 1..Len(Shown[j]) PROVE Shown[j][k] < count + 1
    <3>1. intact[j] /\ Shown[j] = Msgs(Lined(j))
      <4>1. Shown[j] = Kept(j)
        BY DEF Showing
      <4> QED BY <2>7, <4>1 DEF Kept
    <3>2. PICK r \in Seq(Lines) : r = Lined(j)
      BY LinedType DEF Inv
    <3>3. k \in 1..Len(r) /\ Shown[j][k] = r[k].m
      BY <3>1, <3>2 DEF Msgs
    <3>4. r[k].loads
      BY <3>1, <3>2, <3>3 DEF Inv, Whole, WholeAt, AllLoad
    <3>5. r[k].m \in Nat /\ r[k].m <= count
      BY <3>2, <3>3, <3>4 DEF Inv, Ordered, InOrder
    <3> QED BY <1>1, <3>3, <3>5
  <2>8. Lost' = Lost /\ i \notin Lost
    BY <1>9, <2>1 DEF Lost
  <2>9. Durable!Add(i, count + 1)
    BY <2>1, <2>6, <2>7, <2>8 DEF Durable!Add, Lost
  <2>10. count + 1 \in 1..MaxAppends
    BY <1>1, FileAssumption
  <2> QED BY <2>9, <2>10 DEF Durable!Next
<1> QED BY <1>7, <1>8, <1>9

LEMMA DurableDelete ==
  ASSUME Inv, Showing, Showing',
         NEW i \in Ids, DeleteFile(i)
  PROVE  Durable!Next \/ UNCHANGED <<Shown, Lost, faults>>
<1> USE NoneFacts
<1>1. file' = [file EXCEPT ![i] = None] /\ Hit(i, \E c \in Clients : Holds(c, i))
  BY DEF DeleteFile
<1>2. Lined(i)' = <<>> /\ \A j \in Ids : j # i => Lined(j)' = Lined(j)
  BY <1>1 DEF Lined, Inv, TypeOK
<1>3. CASE \E c \in Clients : Holds(c, i)
  BY <1>1, <1>2, <1>3, HitSeen DEF Inv
<1>4. CASE ~\E c \in Clients : Holds(c, i)
  <2>1. UNCHANGED <<intact, faults>>
    BY <1>1, <1>4, NoHit DEF Inv
  <2>2. \A j \in Ids : Kept(j)' = IF j = i THEN <<>> ELSE Kept(j)
    BY <1>2, <2>1 DEF Kept, Msgs
  <2>3. Shown' = [Shown EXCEPT ![i] = <<>>]
    BY <2>2 DEF Showing
  <2>4. Durable!Clear(i)
    BY <2>1, <2>3 DEF Durable!Clear, Lost
  <2> QED BY <2>4 DEF Durable!Next
<1> QED BY <1>3, <1>4

LEMMA DurableNewline ==
  ASSUME Inv, Showing, Showing',
         NEW c \in Clients, SaveNewline(c)
  PROVE  Durable!Next \/ UNCHANGED <<Shown, Lost, faults>>
<1> USE NoneFacts
<1>0. PICK o \in Objects, i \in Ids : o = handle[c] /\ i = obj[o].id
  BY DEF SaveNewline, Inv, TypeOK, Linked, Saving
<1>1. CASE wr[c] = "newline" /\ file' = [file EXCEPT ![i] = EndLine(@)] /\ UNCHANGED <<intact, faults>>
  <2>1. PICK q \in Seq(Lines) : q = Lined(i)
    BY LinedType DEF Inv
  <2>2. file[i] = q
    BY <1>0, <1>1, <2>1 DEF Inv, Saving, Lined
  <2>3. EndLine(q) \in Seq(Lines)
    BY EndLineLines
  <2>4. Lined(i)' = EndLine(q) /\ \A j \in Ids : j # i => Lined(j)' = Lined(j)
    BY <1>1, <2>2, <2>3 DEF Lined, Inv, TypeOK
  <2>5. intact[i] => Open(q)
    <3>1. c \in Writers(i)
      BY <1>0, <1>1 DEF Writers, Holds
    <3> QED BY <2>1, <3>1 DEF Inv, Whole, WholeAt
  <2>6. \A j \in Ids : intact[j] => Msgs(Lined(j))' = Msgs(Lined(j))
    <3>1. intact[i] => Msgs(EndLine(q)) = Msgs(q)
      BY <2>5, MsgsEnded
    <3> QED BY <2>1, <2>4, <3>1 DEF Msgs
  <2> QED BY <1>1, <2>6, NotSeen
<1>2. CASE Hit(i, TRUE) /\ UNCHANGED file
  BY <1>2, HitSeen DEF Inv, Lined
<1>3. CASE UNCHANGED <<file, intact, faults>>
  BY <1>3, NotSeen DEF Lined, Msgs
<1> QED BY <1>0, <1>1, <1>2, <1>3 DEF SaveNewline

LEMMA DurableOthers ==
  ASSUME Inv, Showing, Showing',
         NEW c \in Clients,
         \/ \E i \in Ids, create \in BOOLEAN : GetConversation(c, i, create)
         \/ \E partly \in BOOLEAN : AppendFails(c, partly)
         \/ SetActivities(c) \/ Drop(c)
  PROVE  Durable!Next \/ UNCHANGED <<Shown, Lost, faults>>
<1> USE NoneFacts
<1>1. CASE \E i \in Ids, create \in BOOLEAN : GetConversation(c, i, create)
  \* A file that is created is as empty as one that is missing.
  <2>1. \A j \in Ids : Lined(j)' = Lined(j)
    BY <1>1 DEF GetConversation, Lined, Inv, TypeOK
  <2> QED BY <1>1, <2>1, NotSeen DEF GetConversation, Msgs
<1>2. ASSUME NEW partly \in BOOLEAN, AppendFails(c, partly) PROVE Durable!Next
  <2>1. PICK i \in Ids : i = obj[handle[c]].id
    BY <1>2 DEF AppendFails, Inv, TypeOK, Linked
  <2>2. Hit(i, TRUE)
    BY <1>2, <2>1 DEF AppendFails
  <2>3. \A j \in Ids : j # i => Lined(j)' = Lined(j)
    BY <1>2, <2>1 DEF AppendFails, Lined, Inv, TypeOK
  <2> QED BY <2>2, <2>3, HitSeen DEF Inv
<1>3. CASE SetActivities(c)
  <2>1. PICK i \in Ids : i = obj[handle[c]].id
    BY <1>3 DEF SetActivities, Inv, TypeOK, Linked
  <2>2. file' = file /\ (UNCHANGED <<intact, faults>> \/ Hit(i, TRUE))
    BY <1>3, <2>1 DEF SetActivities
  <2> QED BY <2>2, NotSeen, HitSeen DEF Inv, Lined, Msgs
<1>4. CASE Drop(c)
  BY <1>4, NotSeen DEF Drop, Lined, Msgs
<1> QED BY <1>1, <1>2, <1>3, <1>4

LEMMA DurableRest ==
  ASSUME Inv, Showing, Showing', DeleteRest
  PROVE  Durable!Next \/ UNCHANGED <<Shown, Lost, faults>>
<1>1. file' = file /\ deleting \in Ids /\ (UNCHANGED <<intact, faults>> \/ Hit(deleting, TRUE))
  BY DEF DeleteRest, Inv, TypeOK
<1> QED BY <1>1, NotSeen, HitSeen DEF Inv, Lined, Msgs

\* A stop is not seen, a kill is a fault of what was being written or deleted.
LEMMA DurableCrash ==
  ASSUME Inv, Showing, Showing', Crash
  PROVE  Durable!Next \/ UNCHANGED <<Shown, Lost, faults>>
<1>1. PICK busy : /\ busy = {i \in Ids : deleting = i \/ \E c \in Clients : Holds(c, i) /\ wr[c] # "no"}
                  /\ busy = {} \/ faults < MaxFaults
                  /\ faults' = IF busy = {} THEN faults ELSE faults + 1
                  /\ intact' = [i \in Ids |-> intact[i] /\ i \notin busy]
  BY DEF Crash
<1>2. \A i \in Ids : Msgs(Lined(i))' = Msgs(Lined(i))
  BY DEF Crash, Lined, Msgs
<1>3. CASE busy = {}
  <2>1. intact' = intact
    BY <1>1, <1>3 DEF Inv, TypeOK
  <2> QED BY <1>1, <1>2, <1>3, <2>1, NotSeen
<1>4. CASE busy # {}
  <2>1. busy \in SUBSET Ids
    BY <1>1
  <2>2. Durable!Lose(busy)
    BY <1>1, <1>2, <1>4, <2>1, FaultSeen DEF Inv
  <2> QED BY <2>1, <2>2 DEF Durable!Next
<1> QED BY <1>3, <1>4

LEMMA DurableStep ==
  Inv /\ [Next]_vars /\ Showing /\ Showing' => [Durable!Next]_(Durable!vars)
<1> SUFFICES ASSUME Inv, [Next]_vars, Showing, Showing'
             PROVE  Durable!Next \/ UNCHANGED <<Shown, Lost, faults>>
  BY DEF Durable!vars, Lost
<1>1. CASE UNCHANGED vars
  BY <1>1, NotSeen DEF vars, Lined, Msgs
<1>2. ASSUME NEW c \in Clients,
             \/ \E i \in Ids, create \in BOOLEAN : GetConversation(c, i, create)
             \/ \E long \in BOOLEAN : AppendMsg(c, long)
             \/ \E partly \in BOOLEAN : AppendFails(c, partly)
             \/ SaveNewline(c) \/ SetActivities(c) \/ Drop(c)
      PROVE  Durable!Next \/ UNCHANGED <<Shown, Lost, faults>>
  BY <1>2, DurableAppend, DurableNewline, DurableOthers
<1> QED BY <1>1, <1>2, DurableRest, DurableDelete, DurableCrash DEF Next

\* Each conversation is the sequence of messages added to it since it was last
\* deleted, and only a fault of its own takes anything from it: loading, caching,
\* the two writes of a message, stops and starts are not seen
\* (file.go:97-227, 288-340).
THEOREM StoreIsDurable == Spec => ImplementsDurable
<1>1. Init => Removed /\ Durable!Init
  <2> SUFFICES ASSUME Init PROVE Removed /\ Durable!Init
    OBVIOUS
  <2>1. Removed
    BY DEF Init, Removed
  <2>2. \A i \in Ids : Kept(i) = <<>>
    BY DEF Init, Kept, Lined, Msgs
  <2>3. Shown = [i \in Ids |-> <<>>]
    BY <2>1, <2>2, InitInv, ShownIsKept DEF Showing
  <2>4. {i \in Ids : ~intact[i]} = {} /\ faults = 0
    BY DEF Init
  <2> QED BY <2>1, <2>3, <2>4 DEF Durable!Init
<1>2. Inv /\ Removed /\ [Next]_vars => Removed'
  BY RemovedStep
<1> QED BY <1>1, <1>2, InitInv, NextInv, ShownIsKept, DurableStep, PTL
        DEF Spec, ImplementsDurable, Durable!Spec
=============================================================================
