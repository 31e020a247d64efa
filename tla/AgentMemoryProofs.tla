-------------------------- MODULE AgentMemoryProofs --------------------------
(***************************************************************************)
(* Proofs about the memories of an agent and the file they are kept in,    *)
(* for any runs, facts, similarity, sessions and bounds.                   *)
(***************************************************************************)
EXTENDS AgentMemory, NatSetInduction, FiniteSetTheorems, SequenceTheorems, TLAPS

-----------------------------------------------------------------------------
(* Sequences                                                               *)

\* Of a finite set of numbers, each has a place in their order, and each place is taken.
LEMMA Ranks ==
  ASSUME NEW I, I \subseteq Nat, IsFiniteSet(I)
  PROVE  /\ Cardinality(I) \in Nat
         /\ \A i \in I : Rank(I, i) \in 0..(Cardinality(I) - 1)
         /\ \A i, j \in I : Rank(I, i) = Rank(I, j) => i = j
         /\ \A k \in 0..(Cardinality(I) - 1) : \E i \in I : Rank(I, i) = k
<1> DEFINE B(i) == {j \in I : j < i}
           n == Cardinality(I)
           f == [i \in I |-> Rank(I, i)]
<1>1. n \in Nat
  BY FS_CardinalityType
<1>2. ASSUME NEW i \in I
      PROVE  IsFiniteSet(B(i)) /\ Cardinality(B(i)) \in Nat /\ Cardinality(B(i)) < n
  <2>1. B(i) \in SUBSET I /\ B(i) # I
    OBVIOUS
  <2> HIDE DEF B, n
  <2> QED BY <2>1, <1>1, FS_Subset, FS_CardinalityType DEF n
<1>3. ASSUME NEW i \in I PROVE Rank(I, i) = Cardinality(B(i)) /\ Rank(I, i) \in 0..(n - 1)
  <2>1. Rank(I, i) = Cardinality(B(i))
    BY DEF Rank
  <2> HIDE DEF B, n
  <2> QED BY <1>1, <1>2, <2>1
<1>4. ASSUME NEW i \in I, NEW j \in I, i < j PROVE Rank(I, i) < Rank(I, j)
  <2>1. B(i) \in SUBSET B(j) /\ B(i) # B(j)
    <3>1. \A k \in B(i) : k \in B(j)
      <4> SUFFICES ASSUME NEW k \in I, k < i PROVE k < j
        BY DEF B
      <4> QED BY <1>4
    <3>2. i \in B(j) /\ i \notin B(i)
      BY <1>4
    <3> QED BY <3>1, <3>2, Zenon
  <2>2. IsFiniteSet(B(j)) /\ Rank(I, j) = Cardinality(B(j)) /\ Rank(I, i) = Cardinality(B(i))
    BY <1>2, <1>3
  <2>3. Cardinality(B(j)) \in Nat /\ Cardinality(B(i)) \in Nat
    BY <1>2
  <2> HIDE DEF B, n
  <2> QED BY <2>1, <2>2, <2>3, FS_Subset
<1>5. \A i, j \in I : Rank(I, i) = Rank(I, j) => i = j
  <2> HIDE DEF B, n
  <2> SUFFICES ASSUME NEW i \in I, NEW j \in I, Rank(I, i) = Rank(I, j), i # j PROVE FALSE
    OBVIOUS
  <2>1. i < j \/ j < i
    OBVIOUS
  <2> QED BY <1>1, <1>3, <1>4, <2>1
<1>6. f \in Injection(I, 0..(n - 1))
  <2> HIDE DEF B, n
  <2> QED BY <1>3, <1>5 DEF Injection, IsInjective
<1>7. IsFiniteSet(0..(n - 1)) /\ Cardinality(0..(n - 1)) = n
  <2> HIDE DEF B, n, f
  <2> QED BY <1>1, FS_Interval
<1>8. f \in Surjection(I, 0..(n - 1))
  <2> HIDE DEF B, f
  <2> QED BY <1>6, <1>7, FS_Injection
<1>9. \A k \in 0..(n - 1) : \E i \in I : Rank(I, i) = k
  <2> HIDE DEF n
  <2> QED BY <1>8 DEF Surjection
<1> QED BY <1>1, <1>3, <1>5, <1>9

\* What is picked is what is at those positions.
LEMMA PickedIs ==
  ASSUME NEW S, NEW q \in Seq(S), NEW I \in SUBSET (1..Len(q))
  PROVE  /\ Picked(q, I) \in Seq(S)
         /\ \A k \in 1..Len(Picked(q, I)) : \E i \in I : Picked(q, I)[k] = q[i]
         /\ \A i \in I : \E k \in 1..Len(Picked(q, I)) : Picked(q, I)[k] = q[i]
<1> DEFINE n == Cardinality(I)
           At(k) == CHOOSE i \in I : Rank(I, i) = k - 1
<1>1. IsFiniteSet(I) /\ I \subseteq Nat
  <2>1. IsFiniteSet(1..Len(q))
    BY FS_Interval
  <2>2. I \in SUBSET (1..Len(q)) /\ I \subseteq Nat
    OBVIOUS
  <2> QED BY <2>1, <2>2, FS_Subset
<1>2. /\ n \in Nat
      /\ \A i \in I : Rank(I, i) \in 0..(n - 1)
      /\ \A i, j \in I : Rank(I, i) = Rank(I, j) => i = j
      /\ \A k \in 0..(n - 1) : \E i \in I : Rank(I, i) = k
  BY <1>1, Ranks
<1> HIDE DEF n
<1>3. ASSUME NEW k \in 1..n PROVE At(k) \in I /\ Rank(I, At(k)) = k - 1
  <2>1. k - 1 \in 0..(n - 1)
    BY <1>2
  <2> QED BY <1>2, <2>1
<1>4. ASSUME NEW i \in I PROVE Rank(I, i) + 1 \in 1..n /\ At(Rank(I, i) + 1) = i
  <2>1. Rank(I, i) + 1 \in 1..n /\ (Rank(I, i) + 1) - 1 = Rank(I, i)
    BY <1>2
  <2>2. At(Rank(I, i) + 1) \in I /\ Rank(I, At(Rank(I, i) + 1)) = Rank(I, i)
    BY <1>3, <2>1
  <2> HIDE DEF At
  <2> QED BY <1>2, <2>1, <2>2
<1>5. Picked(q, I) = [k \in 1..n |-> q[At(k)]]
  BY DEF Picked, n
<1> HIDE DEF At
<1>6. ASSUME NEW k \in 1..n PROVE q[At(k)] \in S
  <2>1. At(k) \in 1..Len(q)
    BY <1>3
  <2> QED BY <2>1
<1>7. /\ Picked(q, I) \in Seq(S) /\ Len(Picked(q, I)) = n
      /\ \A k \in 1..n : Picked(q, I)[k] = q[At(k)]
  BY <1>2, <1>5, <1>6
<1> QED BY <1>3, <1>4, <1>7

-----------------------------------------------------------------------------
(* The file store: the last line of an id is the memory that is indexed    *)

HasId(q, id) == \E i \in 1..Len(q) : q[i].id = id

\* The last line of an id, and the only one that is.
LEMMA LastLineIs ==
  ASSUME NEW M, NEW q \in Seq(M), NEW id, HasId(q, id)
  PROVE  /\ \E i \in 1..Len(q) : /\ q[i].id = id /\ LastLine(q, id) = q[i]
                                 /\ \A j \in 1..Len(q) : j > i => q[j].id # id
         /\ \A i \in 1..Len(q) : q[i].id = id /\ (\A j \in 1..Len(q) : j > i => q[j].id # id)
                                   => LastLine(q, id) = q[i]
<1> DEFINE I == {i \in 1..Len(q) : q[i].id = id}
<1>1. I # {} /\ I \subseteq 1..Len(q) /\ Len(q) \in Nat
  BY DEF HasId
<1>2. LastLine(q, id) = q[Max(I)]
  BY <1>1 DEF LastLine, SelectLastInSeq
<1>3. Max(I) \in I /\ \A y \in I : Max(I) >= y
  <2> DEFINE T == {Len(q) - i : i \in I}
  <2>1. T \subseteq Nat /\ T # {}
    BY <1>1
  <2>2. PICK t \in T : \A y \in T : ~(y < t)
    <3> HIDE DEF T
    <3> QED BY <2>1, LeastElement
  <2>3. PICK x \in I : t = Len(q) - x
    OBVIOUS
  <2>4. \A y \in I : x >= y
    <3> SUFFICES ASSUME NEW y \in I, ~(x >= y) PROVE FALSE
      OBVIOUS
    <3>1. Len(q) - y \in T /\ Len(q) - y < t
      BY <1>1, <2>3
    <3> QED BY <2>2, <3>1
  <2> HIDE DEF I
  <2> QED BY <2>4 DEF Max
<1>4. PICK x \in 1..Len(q) : x = Max(I) /\ q[x].id = id /\ \A y \in 1..Len(q) : q[y].id = id => x >= y
  BY <1>3
<1>5. LastLine(q, id) = q[x]
  BY <1>2, <1>4
<1>6. \A j \in 1..Len(q) : j > x => q[j].id # id
  BY <1>4
<1>7. ASSUME NEW i \in 1..Len(q), q[i].id = id, \A j \in 1..Len(q) : j > i => q[j].id # id
      PROVE  i = x
  BY <1>4, <1>7
<1> QED BY <1>4, <1>5, <1>6, <1>7

LEMMA IndexIs ==
  ASSUME NEW M, NEW q \in Seq(M)
  PROVE  /\ \A id : id \in DOMAIN Index(q) <=> HasId(q, id)
         /\ \A id \in DOMAIN Index(q) : /\ Index(q)[id] = LastLine(q, id)
                                        /\ Index(q)[id] \in M /\ Index(q)[id].id = id
<1>1. DOMAIN Index(q) = {q[i].id : i \in 1..Len(q)}
  BY DEF Index
<1>2. \A id : id \in DOMAIN Index(q) <=> HasId(q, id)
  BY <1>1 DEF HasId
<1>3. ASSUME NEW id \in DOMAIN Index(q)
      PROVE  Index(q)[id] = LastLine(q, id) /\ Index(q)[id] \in M /\ Index(q)[id].id = id
  <2>1. Index(q)[id] = LastLine(q, id)
    BY <1>1 DEF Index
  <2>2. HasId(q, id)
    BY <1>2
  <2>3. \E i \in 1..Len(q) : q[i].id = id /\ LastLine(q, id) = q[i]
    BY <2>2, LastLineIs
  <2> QED BY <2>1, <2>3
<1> QED BY <1>2, <1>3

\* The index e is found again in the lines q.
Found(e, q) == \A id \in DOMAIN e : id \in DOMAIN Index(q) /\ Index(q)[id] = e[id]

LEMMA FoundStored ==
  ASSUME NEW M, NEW q \in Seq(M), NEW m \in M, NEW e, Found(e, q)
  PROVE  Found(With(e, m), Append(q, m))
<1> DEFINE r == Append(q, m)
<1>1. /\ r \in Seq(M) /\ Len(r) = Len(q) + 1 /\ Len(q) \in Nat
      /\ \A i \in 1..Len(q) : r[i] = q[i]
      /\ r[Len(q) + 1] = m
  OBVIOUS
<1> HIDE DEF r
<1> SUFFICES ASSUME NEW id \in DOMAIN With(e, m)
             PROVE  id \in DOMAIN Index(r) /\ Index(r)[id] = With(e, m)[id]
  BY DEF Found, r
<1>2. CASE id = m.id
  <2>1. HasId(r, id) /\ LastLine(r, id) = m
    <3>1. Len(q) + 1 \in 1..Len(r) /\ r[Len(q) + 1].id = id /\ \A j \in 1..Len(r) : ~(j > Len(q) + 1)
      BY <1>1, <1>2
    <3>2. HasId(r, id)
      BY <3>1 DEF HasId
    <3> QED BY <1>1, <3>1, <3>2, LastLineIs
  <2>2. With(e, m)[id] = m
    BY <1>2 DEF With
  <2> QED BY <1>1, <2>1, <2>2, IndexIs
<1>3. CASE id # m.id
  <2>1. id \in DOMAIN e /\ With(e, m)[id] = e[id]
    BY <1>3 DEF With
  <2>2. id \in DOMAIN Index(q) /\ Index(q)[id] = e[id]
    BY <2>1 DEF Found
  <2>3. HasId(q, id) /\ LastLine(q, id) = e[id]
    BY <2>2, IndexIs
  <2>4. PICK i \in 1..Len(q) : /\ q[i].id = id /\ LastLine(q, id) = q[i]
                               /\ \A j \in 1..Len(q) : j > i => q[j].id # id
    BY <2>3, LastLineIs
  <2>5. i \in 1..Len(r) /\ r[i] = q[i]
    BY <1>1
  <2>6. \A j \in 1..Len(r) : j > i => r[j].id # id
    <3> SUFFICES ASSUME NEW j \in 1..Len(r), j > i PROVE r[j].id # id
      OBVIOUS
    <3>1. CASE j \in 1..Len(q)
      BY <1>1, <2>4, <3>1
    <3>2. CASE j = Len(q) + 1
      BY <1>1, <1>3, <3>2
    <3> QED BY <1>1, <3>1, <3>2
  <2>7. HasId(r, id)
    BY <2>4, <2>5 DEF HasId
  <2>8. LastLine(r, id) = r[i]
    BY <1>1, <2>4, <2>5, <2>6, <2>7, LastLineIs
  <2> QED BY <1>1, <2>1, <2>3, <2>4, <2>5, <2>7, <2>8, IndexIs
<1> QED BY <1>2, <1>3

LEMMA FoundRewritten ==
  ASSUME NEW M, NEW e, \A id \in DOMAIN e : e[id] \in M /\ e[id].id = id,
         NEW X, NEW ids \in Seq(X), Range(ids) = DOMAIN e
  PROVE  Rewritten(e, ids) \in Seq(M) /\ Found(e, Rewritten(e, ids))
<1> DEFINE r == Rewritten(e, ids)
<1>1. /\ Len(ids) \in Nat
      /\ \A i \in 1..Len(ids) : ids[i] \in DOMAIN e
      /\ \A id \in DOMAIN e : \E i \in 1..Len(ids) : ids[i] = id
  BY DEF Range
<1>2. /\ r \in Seq(M) /\ Len(r) = Len(ids)
      /\ \A i \in 1..Len(ids) : r[i] = e[ids[i]]
  BY <1>1 DEF Rewritten
<1> HIDE DEF r
<1>3. \A i \in 1..Len(r) : r[i].id = ids[i] /\ r[i] = e[r[i].id]
  BY <1>1, <1>2
<1>4. ASSUME NEW id \in DOMAIN e PROVE id \in DOMAIN Index(r) /\ Index(r)[id] = e[id]
  <2>1. HasId(r, id)
    BY <1>1, <1>2, <1>3 DEF HasId
  <2>2. PICK i \in 1..Len(r) : r[i].id = id /\ LastLine(r, id) = r[i]
    BY <1>2, <2>1, LastLineIs
  <2>3. LastLine(r, id) = e[id]
    BY <1>3, <2>2
  <2> QED BY <1>2, <2>1, <2>3, IndexIs
<1> QED BY <1>2, <1>4 DEF Found, r

\* An id that is taken out of the order is the only one.
LEMMA OthersAre ==
  ASSUME NEW X, NEW ids \in Seq(X), NEW id
  PROVE  Others(ids, id) \in Seq(X) /\ Range(Others(ids, id)) = Range(ids) \ {id}
<1> DEFINE I == {i \in 1..Len(ids) : ids[i] # id}
           t == Others(ids, id)
<1>1. I \subseteq 1..Len(ids) /\ t = Picked(ids, I)
  BY DEF Others
<1>2. /\ t \in Seq(X)
      /\ \A k \in 1..Len(t) : \E i \in I : t[k] = ids[i]
      /\ \A i \in I : \E k \in 1..Len(t) : t[k] = ids[i]
  <2>1. /\ Picked(ids, I) \in Seq(X)
        /\ \A k \in 1..Len(Picked(ids, I)) : \E i \in I : Picked(ids, I)[k] = ids[i]
        /\ \A i \in I : \E k \in 1..Len(Picked(ids, I)) : Picked(ids, I)[k] = ids[i]
    <3>1. I \in SUBSET (1..Len(ids))
      OBVIOUS
    <3> HIDE DEF I
    <3> QED BY <3>1, PickedIs
  <2> QED BY <1>1, <2>1
<1> HIDE DEF t
<1>3. DOMAIN t = 1..Len(t) /\ DOMAIN ids = 1..Len(ids)
  BY <1>2
<1>4. \A x : x \in Range(t) <=> \E k \in 1..Len(t) : t[k] = x
  BY <1>3 DEF Range
<1>5. \A x : x \in Range(ids) <=> \E k \in 1..Len(ids) : ids[k] = x
  BY <1>3 DEF Range
<1>6. ASSUME NEW x \in Range(t) PROVE x \in Range(ids) \ {id}
  <2>1. PICK k \in 1..Len(t) : t[k] = x
    BY <1>4
  <2>2. PICK i \in I : t[k] = ids[i]
    BY <1>2
  <2> QED BY <1>5, <2>1, <2>2
<1>7. ASSUME NEW x \in Range(ids) \ {id} PROVE x \in Range(t)
  <2>1. PICK i \in 1..Len(ids) : ids[i] = x
    BY <1>5
  <2>2. i \in I
    BY <2>1
  <2>3. PICK k \in 1..Len(t) : t[k] = ids[i]
    BY <1>2, <2>2
  <2> QED BY <1>4, <2>1, <2>3
<1>8. t \in Seq(X) /\ Range(t) = Range(ids) \ {id}
  BY <1>2, <1>6, <1>7
<1> QED BY <1>8 DEF t

LEMMA SeqSub ==
  ASSUME NEW S, NEW T, S \subseteq T, NEW q \in Seq(S)
  PROVE  q \in Seq(T)
OBVIOUS

-----------------------------------------------------------------------------
(* Runs and EndSession                                                     *)

RunInv ==
  /\ phase \in [Runs -> {"idle", "running", "learning", "extracting", "done"}]
  /\ sess \in [Runs -> Sessions]
  /\ ended \in [Runs -> BOOLEAN]
  /\ finish \in {"idle", "stopping", "waiting", "compacting", "done"}
  /\ due \subseteq Runs
  /\ \A r \in Runs : ended[r] \/ r \in due => phase[r] \in {"extracting", "done"}
  /\ EndSessionSeesRuns

LEMMA RunInit == Init => RunInv
BY AgentAssumption DEF Init, RunInv, EndSessionSeesRuns

LEMMA RunStep == RunInv /\ [Next]_vars => RunInv'
<1> SUFFICES ASSUME RunInv, [Next]_vars PROVE RunInv'
  OBVIOUS
<1> USE DEF RunInv, EndSessionSeesRuns
<1>1. ASSUME NEW r \in Runs, NEW s \in Sessions, Begin(r, s) PROVE RunInv'
  BY <1>1 DEF Begin, workVars, history
<1>2. ASSUME NEW r \in Runs, RunEnds(r) PROVE RunInv'
  BY <1>2 DEF RunEnds, workVars, history
<1>3. ASSUME NEW r \in Runs, Close(r) PROVE RunInv'
  BY <1>3 DEF Close, workVars, history
<1>4. ASSUME NEW r \in Runs, Learn(r) PROVE RunInv'
  BY <1>4 DEF Learn, workVars
<1>5. ASSUME UNCHANGED <<phase, sess, ended, finish, due>> PROVE RunInv'
  BY <1>5
<1>6. ASSUME UNCHANGED vars PROVE RunInv'
  BY <1>5, <1>6 DEF vars, runVars, workVars, history
<1>7. ASSUME NEW m \in Maintainers, StartPass(m) \/ ListOld(m) \/ EndPass(m) PROVE RunInv'
  BY <1>5, <1>7 DEF StartPass, ListOld, EndPass, runVars, history
<1>8. ASSUME NEW m \in Maintainers, NEW fails1 \in BOOLEAN,
             \/ PassMerges(m, fails1) \/ PassDeletes(m, fails1) \/ CleanupDeletes(m, fails1)
      PROVE  RunInv'
  BY <1>5, <1>8 DEF PassMerges, PassDeletes, CleanupDeletes, runVars, history
<1>9. ASSUME NEW fails1 \in BOOLEAN, EndMerges(fails1) \/ EndDeletes(fails1) PROVE RunInv'
  BY <1>5, <1>9 DEF EndMerges, EndDeletes, runVars, history
<1>15. ASSUME Tick PROVE RunInv'
  BY <1>5, <1>15 DEF Tick, runVars, workVars, history
<1>10. ASSUME CallEnd PROVE RunInv'
  BY <1>10 DEF CallEnd, runVars
<1>11. ASSUME Stopped PROVE RunInv'
  BY <1>11 DEF Stopped, runVars, history
<1>12. ASSUME ListSession PROVE RunInv'
  BY <1>12 DEF ListSession, runVars, history, Counted
<1>13. ASSUME EndReturns PROVE RunInv'
  BY <1>13 DEF EndReturns, runVars, history
<1>14. ASSUME Restart PROVE RunInv'
  BY <1>14 DEF Restart
<1> QED BY <1>1, <1>2, <1>3, <1>4, <1>6, <1>7, <1>8, <1>9, <1>10, <1>11, <1>12, <1>13, <1>14, <1>15
    DEF Next

-----------------------------------------------------------------------------
(* Memories and the store                                                  *)

Ids(n) == Facts \cup 1..n

\* The memories there may be after n merges, at time t.
Mem(n, t) ==
  {m \in [id : Ids(n), facts : (SUBSET Facts) \ {{}}, sess : Sessions, born : 0..t] :
     m.id \in Facts => m.facts = {m.id}}

GroupsOf(M) == {g \in Seq(M) : Len(g) > 1}

\* The index e, the order o and the file q fit together.
Kept(e, o, q, n, t) ==
  /\ o \in Seq(Ids(n))
  /\ q \in Seq(Mem(n, t))
  /\ \A id \in DOMAIN e : e[id] \in Mem(n, t) /\ e[id].id = id
  /\ Range(o) = DOMAIN e
  /\ Found(e, q)

LEMMA MemLater ==
  ASSUME NEW n \in Nat, NEW t \in Nat, NEW k \in Nat, NEW u \in Nat, n <= k, t <= u
  PROVE  /\ Ids(n) \subseteq Ids(k) /\ Mem(n, t) \subseteq Mem(k, u)
         /\ GroupsOf(Mem(n, t)) \subseteq GroupsOf(Mem(k, u))
<1>1. 1..n \subseteq 1..k /\ 0..t \subseteq 0..u
  OBVIOUS
<1>2. Ids(n) \subseteq Ids(k)
  BY <1>1 DEF Ids
<1>3. Mem(n, t) \subseteq Mem(k, u)
  BY <1>1, <1>2 DEF Mem
<1> HIDE DEF Mem
<1>4. GroupsOf(Mem(n, t)) \subseteq GroupsOf(Mem(k, u))
  BY <1>3, SeqSub DEF GroupsOf
<1> QED BY <1>2, <1>3, <1>4

LEMMA KeptLater ==
  ASSUME NEW e, NEW o, NEW q, NEW n \in Nat, NEW t \in Nat, NEW k \in Nat, NEW u \in Nat,
         n <= k, t <= u, Kept(e, o, q, n, t)
  PROVE  Kept(e, o, q, k, u)
<1>1. Ids(n) \subseteq Ids(k) /\ Mem(n, t) \subseteq Mem(k, u)
  BY MemLater
<1>2. o \in Seq(Ids(k)) /\ q \in Seq(Mem(k, u))
  BY <1>1, SeqSub DEF Kept
<1> QED BY <1>1, <1>2 DEF Kept

LEMMA RangeAppended ==
  ASSUME NEW X, NEW o \in Seq(X), NEW x \in X
  PROVE  Range(Append(o, x)) = Range(o) \cup {x}
<1> DEFINE p == Append(o, x)
<1>1. /\ DOMAIN p = 1..(Len(o) + 1) /\ DOMAIN o = 1..Len(o) /\ Len(o) \in Nat
      /\ \A i \in 1..Len(o) : p[i] = o[i]
      /\ p[Len(o) + 1] = x
  OBVIOUS
<1> HIDE DEF p
<1>2. \A y : y \in Range(p) <=> \E i \in 1..(Len(o) + 1) : p[i] = y
  BY <1>1 DEF Range
<1>3. \A y : y \in Range(o) <=> \E i \in 1..Len(o) : o[i] = y
  BY <1>1 DEF Range
<1>4. ASSUME NEW y \in Range(p) PROVE y \in Range(o) \cup {x}
  <2>1. PICK i \in 1..(Len(o) + 1) : p[i] = y
    BY <1>2
  <2>2. i \in 1..Len(o) \/ i = Len(o) + 1
    BY <1>1
  <2> QED BY <1>1, <1>3, <2>1, <2>2
<1>5. ASSUME NEW y \in Range(o) \cup {x} PROVE y \in Range(p)
  <2>1. CASE y = x
    BY <1>1, <1>2, <2>1
  <2>2. CASE y \in Range(o)
    <3>1. PICK i \in 1..Len(o) : o[i] = y
      BY <1>3, <2>2
    <3> QED BY <1>1, <1>2, <3>1
  <2> QED BY <2>1, <2>2
<1> QED BY <1>4, <1>5 DEF p

LEMMA KeptStored ==
  ASSUME NEW e, NEW o, NEW q, NEW n, NEW t, Kept(e, o, q, n, t), NEW m \in Mem(n, t)
  PROVE  Kept(With(e, m), Append(o, m.id), Append(q, m), n, t)
<1> DEFINE M == Mem(n, t)
<1>1. m.id \in Ids(n)
  BY DEF Mem
<1> HIDE DEF M
<1>2. m \in M /\ q \in Seq(M) /\ o \in Seq(Ids(n)) /\ Found(e, q) /\ Range(o) = DOMAIN e
      /\ \A id \in DOMAIN e : e[id] \in M /\ e[id].id = id
  BY DEF Kept, M
<1>3. Append(q, m) \in Seq(M) /\ Append(o, m.id) \in Seq(Ids(n))
  BY <1>1, <1>2
<1>4. Found(With(e, m), Append(q, m))
  BY <1>2, FoundStored
<1>5. Range(Append(o, m.id)) = DOMAIN e \cup {m.id}
  BY <1>1, <1>2, RangeAppended
<1>6. DOMAIN With(e, m) = DOMAIN e \cup {m.id}
  BY DEF With
<1>7. \A id \in DOMAIN With(e, m) : With(e, m)[id] \in M /\ With(e, m)[id].id = id
  BY <1>2 DEF With
<1> QED BY <1>3, <1>4, <1>5, <1>6, <1>7 DEF Kept, M

LEMMA KeptDeleted ==
  ASSUME NEW e, NEW o, NEW q, NEW n, NEW t, Kept(e, o, q, n, t), NEW id
  PROVE  /\ Kept(Without(e, id), Others(o, id), q, n, t)
         /\ Kept(Without(e, id), Others(o, id), Rewritten(Without(e, id), Others(o, id)), n, t)
<1> DEFINE M == Mem(n, t)
           d == Without(e, id)
           p == Others(o, id)
<1> HIDE DEF M
<1>1. q \in Seq(M) /\ o \in Seq(Ids(n)) /\ Found(e, q) /\ Range(o) = DOMAIN e
      /\ \A x \in DOMAIN e : e[x] \in M /\ e[x].id = x
  BY DEF Kept, M
<1>2. DOMAIN d = DOMAIN e \ {id} /\ \A x \in DOMAIN d : d[x] = e[x]
  BY DEF Without
<1>3. p \in Seq(Ids(n)) /\ Range(p) = Range(o) \ {id}
  BY <1>1, OthersAre
<1> HIDE DEF d, p
<1>4. Range(p) = DOMAIN d /\ \A x \in DOMAIN d : d[x] \in M /\ d[x].id = x
  BY <1>1, <1>2, <1>3
<1>5. Found(d, q)
  BY <1>1, <1>2 DEF Found
<1>6. Rewritten(d, p) \in Seq(M) /\ Found(d, Rewritten(d, p))
  BY <1>3, <1>4, FoundRewritten
<1>7. Kept(d, p, q, n, t) /\ Kept(d, p, Rewritten(d, p), n, t)
  BY <1>1, <1>3, <1>4, <1>5, <1>6 DEF Kept, M
<1> QED BY <1>7 DEF d, p

LEMMA KeptLoaded ==
  ASSUME NEW n, NEW t, NEW q \in Seq(Mem(n, t))
  PROVE  Kept(Index(q), [i \in 1..Len(q) |-> q[i].id], q, n, t)
<1> DEFINE M == Mem(n, t)
           p == [i \in 1..Len(q) |-> q[i].id]
<1>1. \A m \in M : m.id \in Ids(n)
  BY DEF Mem
<1> HIDE DEF M
<1>2. q \in Seq(M) /\ Len(q) \in Nat /\ \A i \in 1..Len(q) : q[i] \in M
  BY DEF M
<1>3. p \in Seq(Ids(n))
  BY <1>1, <1>2
<1>4. Range(p) = DOMAIN Index(q)
  BY DEF Range, Index
<1>5. \A id \in DOMAIN Index(q) : Index(q)[id] \in M /\ Index(q)[id].id = id
  BY <1>2, IndexIs
<1>6. Found(Index(q), q)
  BY DEF Found
<1> HIDE DEF p
<1> QED BY <1>2, <1>3, <1>4, <1>5, <1>6 DEF Kept, M, p

-----------------------------------------------------------------------------
(* Listing and grouping                                                    *)

Indexed == {entries[id] : id \in DOMAIN entries}

LEMMA ListIs ==
  ASSUME NEW n, NEW t, Kept(entries, order, file, n, t)
  PROVE  List \in Seq(Indexed) /\ Indexed \subseteq Mem(n, t)
         /\ \A m \in Indexed : m.id \in DOMAIN entries /\ entries[m.id] = m
<1> DEFINE I == {i \in 1..Len(order) : order[i] \in DOMAIN entries}
           ids == Picked(order, I)
<1>1. I \subseteq 1..Len(order) /\ order \in Seq(Ids(n))
  BY DEF Kept
<1>2. ids \in Seq(Ids(n)) /\ \A k \in 1..Len(ids) : \E i \in I : ids[k] = order[i]
  <2>0. PICK J : J = I
    OBVIOUS
  <2>1. PICK o \in Seq(Ids(n)) : o = order /\ J = I /\ J \subseteq 1..Len(o)
    BY <1>1, <2>0
  <2>2. /\ Picked(o, J) \in Seq(Ids(n))
        /\ \A k \in 1..Len(Picked(o, J)) : \E i \in J : Picked(o, J)[k] = o[i]
        /\ \A i \in J : \E k \in 1..Len(Picked(o, J)) : Picked(o, J)[k] = o[i]
    <3>1. J \in SUBSET (1..Len(o))
      BY <2>1
    <3> QED BY <3>1, PickedIs
  <2>3. ids = Picked(o, J)
    BY <2>1
  <2> HIDE DEF ids, I
  <2> QED BY <2>1, <2>2, <2>3
<1>3. \A k \in 1..Len(ids) : ids[k] \in DOMAIN entries
  <2> HIDE DEF ids
  <2> QED BY <1>2
<1>4. List = [k \in 1..Len(ids) |-> entries[ids[k]]]
  BY DEF List
<1> HIDE DEF ids
<1>5. \A k \in 1..Len(ids) : entries[ids[k]] \in Indexed
  BY <1>3 DEF Indexed
<1>6. List \in Seq(Indexed)
  BY <1>2, <1>4, <1>5
<1>7. Indexed \subseteq Mem(n, t) /\ \A m \in Indexed : m.id \in DOMAIN entries /\ entries[m.id] = m
  BY DEF Indexed, Kept
<1> QED BY <1>6, <1>7

LEMMA PickedOf ==
  ASSUME NEW S, NEW q \in Seq(S), NEW T, NEW I, I \subseteq 1..Len(q), \A i \in I : q[i] \in T
  PROVE  Picked(q, I) \in Seq(T)
<1>1. /\ Picked(q, I) \in Seq(S)
      /\ \A k \in 1..Len(Picked(q, I)) : \E i \in I : Picked(q, I)[k] = q[i]
      /\ \A i \in I : \E k \in 1..Len(Picked(q, I)) : Picked(q, I)[k] = q[i]
  <2>1. I \in SUBSET (1..Len(q))
    OBVIOUS
  <2> QED BY <2>1, PickedIs
<1> DEFINE p == Picked(q, I)
<1>2. p \in Seq(S) /\ \A k \in 1..Len(p) : p[k] \in T
  <2>1. ASSUME NEW k \in 1..Len(p) PROVE p[k] \in T
    <3>1. PICK i \in I : p[k] = q[i]
      BY <1>1
    <3> QED BY <3>1
  <2> QED BY <1>1, <2>1
<1> HIDE DEF p
<1>3. p \in Seq(T)
  BY <1>2
<1> QED BY <1>3 DEF p

LEMMA GroupsIs ==
  ASSUME NEW M, NEW docs \in Seq(M)
  PROVE  Groups(docs) \in Seq(GroupsOf(M))
<1> DEFINE all == [n \in 1..Len(docs) |-> GroupOf(docs, n)]
           I == {n \in 1..Len(docs) : Len(all[n]) > 1}
<1>1. ASSUME NEW n \in 1..Len(docs) PROVE GroupOf(docs, n) \in Seq(M)
  <2> DEFINE J == {i \in 1..Len(docs) : i \in Taken(docs)[n] \ Taken(docs)[n - 1]}
  <2>1. J \in SUBSET (1..Len(docs)) /\ GroupOf(docs, n) = Picked(docs, J)
    BY DEF GroupOf
  <2> HIDE DEF J
  <2> QED BY <2>1, PickedIs
<1>2. all \in Seq(Seq(M)) /\ Len(all) = Len(docs) /\ Len(docs) \in Nat
  BY <1>1
<1>3. I \subseteq 1..Len(all) /\ \A n \in I : all[n] \in GroupsOf(M)
  BY <1>1, <1>2 DEF GroupsOf
<1>4. Groups(docs) = Picked(all, I)
  BY DEF Groups
<1> HIDE DEF all, I
<1>5. Picked(all, I) \in Seq(GroupsOf(M))
  BY <1>2, <1>3, PickedOf
<1> QED BY <1>4, <1>5

LEMMA IdsOfIs ==
  ASSUME NEW n, NEW t, NEW g \in Seq(Mem(n, t))
  PROVE  IdsOf(g) \in Seq(Ids(n)) /\ Len(IdsOf(g)) = Len(g) /\ \A i \in 1..Len(g) : IdsOf(g)[i] = g[i].id
<1>1. \A m \in Mem(n, t) : m.id \in Ids(n)
  BY DEF Mem
<1>2. Len(g) \in Nat /\ \A i \in 1..Len(g) : g[i].id \in Ids(n)
  BY <1>1
<1> QED BY <1>2 DEF IdsOf

-----------------------------------------------------------------------------
(* Compactions and the pass                                                *)

\* The groups td to merge and the ids dm to delete, after n merges, at time t.
Work(td, dm, n, t) ==
  /\ td \in [Workers -> Seq(GroupsOf(Mem(n, t)))]
  /\ dm \in [Workers -> Seq(Ids(n))]

LEMMA WorkLater ==
  ASSUME NEW td, NEW dm, NEW n \in Nat, NEW t \in Nat, NEW k \in Nat, NEW u \in Nat,
         n <= k, t <= u, Work(td, dm, n, t)
  PROVE  Work(td, dm, k, u)
<1>1. Ids(n) \subseteq Ids(k) /\ GroupsOf(Mem(n, t)) \subseteq GroupsOf(Mem(k, u))
  BY MemLater
<1> DEFINE G == GroupsOf(Mem(n, t))
           H == GroupsOf(Mem(k, u))
<1> HIDE DEF G, H
<1>2. \A w \in Workers : td[w] \in Seq(H) /\ dm[w] \in Seq(Ids(k))
  <2> SUFFICES ASSUME NEW w \in Workers PROVE td[w] \in Seq(H) /\ dm[w] \in Seq(Ids(k))
    OBVIOUS
  <2>1. td[w] \in Seq(G) /\ dm[w] \in Seq(Ids(n))
    BY DEF Work, G
  <2>2. G \subseteq H /\ Ids(n) \subseteq Ids(k)
    BY <1>1 DEF G, H
  <2> QED BY <2>1, <2>2, SeqSub
<1> QED BY <1>2 DEF Work, H

\* EndSession is no maintainer.
LEMMA WorkersAre ==
  /\ Workers = Maintainers \cup {"end"} /\ "end" \in Workers /\ "own" \in Maintainers
  /\ \A m \in Maintainers : m \in Workers /\ m # "end"
BY AgentAssumption DEF Workers, Maintainers

\* A compaction only ever has something to do while it is under way.
RestInv ==
  /\ DOMAIN todo = Workers /\ DOMAIN doomed = Workers
  /\ pass \in [Maintainers -> {"idle", "compact", "cleanup"}]
  /\ \A m \in Maintainers : pass[m] = "idle" => Settled(m)
  /\ \A m \in Maintainers : pass[m] = "cleanup" => todo[m] = <<>>
  /\ finish # "compacting" => Settled("end")

LEMMA RestInit == Init => RestInv
BY WorkersAre DEF Init, RestInv, Settled

LEMMA RestStep == RestInv /\ [Next]_vars => RestInv'
<1> SUFFICES ASSUME RestInv, [Next]_vars PROVE RestInv'
  OBVIOUS
<1> USE DEF RestInv, Settled
<1>1. "end" \in Workers /\ \A m \in Maintainers : m \in Workers /\ m # "end"
  BY WorkersAre
<1>2. ASSUME UNCHANGED workVars PROVE RestInv'
  BY <1>2 DEF workVars
<1>3. ASSUME NEW r \in Runs,
             \/ \E s \in Sessions : Begin(r, s)
             \/ RunEnds(r) \/ Learn(r) \/ Close(r)
      PROVE  RestInv'
  BY <1>2, <1>3 DEF Begin, RunEnds, Learn, Close
<1>4. ASSUME UNCHANGED vars \/ Tick PROVE RestInv'
  BY <1>2, <1>4 DEF Tick, vars
<1>5. ASSUME NEW m \in Maintainers, StartPass(m) PROVE RestInv'
  <2>1. pass' = [pass EXCEPT ![m] = "compact"] /\ UNCHANGED <<finish, doomed>>
        /\ todo' = [todo EXCEPT ![m] = Groups(List)]
    BY <1>5 DEF StartPass
  <2>2. DOMAIN todo' = Workers /\ \A w \in Workers \ {m} : todo'[w] = todo[w]
    BY <1>1, <2>1
  <2> QED BY <1>1, <2>1, <2>2
<1>6. ASSUME NEW m \in Maintainers, NEW fails1 \in BOOLEAN, PassMerges(m, fails1) PROVE RestInv'
  <2>1. UNCHANGED finish /\ pass[m] = "compact" /\ pass' = IF fails1 THEN [pass EXCEPT ![m] = "idle"] ELSE pass
    BY <1>6 DEF PassMerges
  <2>2. /\ doomed[m] = <<>>
        /\ fails1 => UNCHANGED doomed /\ todo' = [todo EXCEPT ![m] = <<>>]
        /\ ~fails1 => /\ doomed' = [doomed EXCEPT ![m] = IdsOf(Head(todo[m]))]
                      /\ todo' = [todo EXCEPT ![m] = Tail(@)]
    BY <1>1, <1>6 DEF PassMerges, MergeGroup
  <2>3. DOMAIN todo' = Workers /\ DOMAIN doomed' = Workers
        /\ \A w \in Workers \ {m} : todo'[w] = todo[w] /\ doomed'[w] = doomed[w]
    BY <1>1, <2>2
  <2>4. fails1 => todo'[m] = <<>> /\ doomed'[m] = <<>>
    BY <1>1, <2>2
  <2>5. pass' \in [Maintainers -> {"idle", "compact", "cleanup"}]
        /\ (\A x \in Maintainers \ {m} : pass'[x] = pass[x])
        /\ pass'[m] = IF fails1 THEN "idle" ELSE "compact"
    BY <2>1
  <2> QED BY <1>1, <2>1, <2>3, <2>4, <2>5
<1>7. ASSUME NEW m \in Maintainers, NEW fails1 \in BOOLEAN,
             PassDeletes(m, fails1) \/ CleanupDeletes(m, fails1)
      PROVE  RestInv'
  <2>1. UNCHANGED <<finish, pass, todo>> /\ doomed' = [doomed EXCEPT ![m] = Tail(@)]
        /\ pass[m] # "idle"
    BY <1>7 DEF PassDeletes, CleanupDeletes, DeleteOne
  <2> QED BY <1>1, <2>1
<1>8. ASSUME NEW m \in Maintainers, ListOld(m) PROVE RestInv'
  <2>1. /\ todo[m] = <<>> /\ pass' = [pass EXCEPT ![m] = "cleanup"]
        /\ UNCHANGED <<finish, todo>>
        /\ DOMAIN doomed' = DOMAIN doomed /\ \A w \in Workers \ {m} : doomed'[w] = doomed[w]
    BY <1>1, <1>8 DEF ListOld
  <2> QED BY <1>1, <2>1
<1>9. ASSUME NEW m \in Maintainers, EndPass(m) PROVE RestInv'
  BY <1>1, <1>9 DEF EndPass
<1>10. ASSUME CallEnd \/ Stopped \/ EndReturns PROVE RestInv'
  BY <1>10 DEF CallEnd, Stopped, EndReturns
<1>11. ASSUME ListSession PROVE RestInv'
  BY <1>1, <1>11 DEF ListSession
<1>12. ASSUME NEW fails1 \in BOOLEAN, EndMerges(fails1) \/ EndDeletes(fails1) PROVE RestInv'
  <2>1. UNCHANGED <<finish, pass>> /\ finish = "compacting"
    BY <1>12 DEF EndMerges, EndDeletes
  <2>2. /\ DOMAIN todo' = DOMAIN todo /\ \A w \in Workers \ {"end"} : todo'[w] = todo[w]
        /\ DOMAIN doomed' = DOMAIN doomed /\ \A w \in Workers \ {"end"} : doomed'[w] = doomed[w]
    BY <1>1, <1>12 DEF EndMerges, EndDeletes, MergeGroup, KeepFirst, DeleteOne
  <2> QED BY <1>1, <2>1, <2>2
<1>13. ASSUME Restart PROVE RestInv'
  BY <1>1, <1>13 DEF Restart
<1> QED BY <1>3, <1>4, <1>5, <1>6, <1>7, <1>8, <1>9, <1>10, <1>11, <1>12, <1>13 DEF Next

-----------------------------------------------------------------------------
(* The store under the compactions                                         *)

StoreInv ==
  /\ merges \in 0..MaxMerges /\ now \in Nat
  /\ Kept(entries, order, file, merges, now)
  /\ Work(todo, doomed, merges, now)
  /\ learned \subseteq Facts /\ aged \subseteq Facts

LEMMA StoreInit == Init => StoreInv
<1> SUFFICES ASSUME Init PROVE StoreInv
  OBVIOUS
<1>1. /\ entries = <<>> /\ order = <<>> /\ file = <<>> /\ merges = 0 /\ now = 0
      /\ todo = [w \in Workers |-> <<>>] /\ doomed = [w \in Workers |-> <<>>]
      /\ learned = {} /\ aged = {}
  BY DEF Init, InitStore
<1>2. merges \in 0..MaxMerges /\ now \in Nat
  BY <1>1, AgentAssumption
<1>3. DOMAIN entries = {}
  BY <1>1
<1>4. Range(order) = {}
  BY <1>1 DEF Range
<1>5. Kept(entries, order, file, merges, now)
  BY <1>1, <1>3, <1>4 DEF Kept, Found
<1>6. Work(todo, doomed, merges, now)
  BY <1>1 DEF Work
<1> QED BY <1>1, <1>2, <1>5, <1>6 DEF StoreInv

\* What the memories of a group say.
FactsOf(g) == UNION {g[i].facts : i \in 1..Len(g)}

\* A merged memory takes a new id.
LEMMA MergedIs ==
  ASSUME NEW n \in Nat, NEW t \in Nat, n = merges, NEW g \in GroupsOf(Mem(n, t))
  PROVE  /\ Merged(g) \in Mem(n + 1, t) /\ Merged(g).id = n + 1 /\ n + 1 \notin Facts
         /\ Merged(g).facts = FactsOf(g)
<1>1. n + 1 \in Ids(n + 1) /\ n + 1 \notin Facts
  BY AgentAssumption DEF Ids
<1>2. g \in Seq(Mem(n, t)) /\ Len(g) > 1
  BY DEF GroupsOf
<1>3. \A i \in 1..Len(g) : g[i] \in Mem(n, t)
  BY <1>2
<1>4. \A i \in 1..Len(g) : g[i].facts \in (SUBSET Facts) \ {{}} /\ g[i].sess \in Sessions /\ g[i].born \in 0..t
  BY <1>3 DEF Mem
<1> DEFINE F == FactsOf(g)
<1>5. 1 \in 1..Len(g)
  BY <1>2
<1>6. F \in (SUBSET Facts) \ {{}}
  BY <1>4, <1>5 DEF FactsOf
<1>7. Merged(g) = [id |-> n + 1, facts |-> F, sess |-> g[1].sess, born |-> g[1].born]
  BY DEF Merged, Memory, FactsOf
<1> HIDE DEF F
<1> QED BY <1>1, <1>4, <1>5, <1>6, <1>7 DEF Mem, F

LEMMA StoreKept ==
  ASSUME NEW n, NEW t, Kept(entries, order, file, n, t), NEW m \in Mem(n, t), Store(m)
  PROVE  Kept(entries', order', file', n, t)
<1>1. entries' = With(entries, m) /\ order' = Append(order, m.id) /\ file' = Append(file, m)
  BY DEF Store
<1>2. PICK e, o, q : e = entries /\ o = order /\ q = file
  OBVIOUS
<1>3. Kept(With(e, m), Append(o, m.id), Append(q, m), n, t)
  BY <1>2, KeptStored
<1> QED BY <1>1, <1>2, <1>3

LEMMA DeleteKept ==
  ASSUME NEW n, NEW t, Kept(entries, order, file, n, t), NEW id, NEW fails1, Delete(id, fails1)
  PROVE  Kept(entries', order', file', n, t)
<1>1. CASE id \notin DOMAIN entries
  BY <1>1 DEF Delete, storeVars
<1>2. CASE id \in DOMAIN entries
  <2>1. PICK e, o, q : e = entries /\ o = order /\ q = file
    OBVIOUS
  <2>2. /\ entries' = Without(e, id) /\ order' = Others(o, id)
        /\ file' = IF fails1 THEN q ELSE Rewritten(Without(e, id), Others(o, id))
    BY <1>2, <2>1 DEF Delete
  <2>3. /\ Kept(Without(e, id), Others(o, id), q, n, t)
        /\ Kept(Without(e, id), Others(o, id), Rewritten(Without(e, id), Others(o, id)), n, t)
    BY <2>1, KeptDeleted
  <2> QED BY <2>2, <2>3
<1> QED BY <1>1, <1>2

LEMMA LoadKept ==
  ASSUME NEW n, NEW t, Kept(entries, order, file, n, t), Load
  PROVE  Kept(entries', order', file', n, t)
<1>1. PICK q \in Seq(Mem(n, t)) : q = file
  BY DEF Kept
<1>2. entries' = Index(q) /\ order' = [i \in 1..Len(q) |-> q[i].id] /\ file' = q
  BY <1>1 DEF Load
<1>3. Kept(Index(q), [i \in 1..Len(q) |-> q[i].id], q, n, t)
  BY KeptLoaded
<1> QED BY <1>2, <1>3

\* What a compaction is given to do.
LEMMA WorkGiven ==
  ASSUME NEW td, NEW dm, NEW n, NEW t, Work(td, dm, n, t), NEW w \in Workers,
         NEW gs \in Seq(GroupsOf(Mem(n, t))), NEW ids \in Seq(Ids(n))
  PROVE  /\ Work([td EXCEPT ![w] = gs], dm, n, t)
         /\ Work(td, [dm EXCEPT ![w] = ids], n, t)
         /\ Work([td EXCEPT ![w] = gs], [dm EXCEPT ![w] = ids], n, t)
<1> DEFINE G == GroupsOf(Mem(n, t))
<1>1. td \in [Workers -> Seq(G)] /\ dm \in [Workers -> Seq(Ids(n))] /\ gs \in Seq(G)
  BY DEF Work
<1> HIDE DEF G
<1>2. /\ [td EXCEPT ![w] = gs] \in [Workers -> Seq(G)]
      /\ [dm EXCEPT ![w] = ids] \in [Workers -> Seq(Ids(n))]
  BY <1>1
<1> QED BY <1>1, <1>2 DEF Work, G

\* The rest of a sequence that is not empty.
LEMMA TailIs ==
  ASSUME NEW S, NEW q \in Seq(S), q # <<>>
  PROVE  /\ Head(q) \in S /\ Tail(q) \in Seq(S) /\ Len(q) \in Nat /\ Len(q) > 0 /\ Head(q) = q[1]
         /\ Len(Tail(q)) = Len(q) - 1 /\ \A i \in 1..(Len(q) - 1) : Tail(q)[i] = q[i + 1]
OBVIOUS

LEMMA GroupTail ==
  ASSUME NEW n, NEW t, NEW g \in GroupsOf(Mem(n, t))
  PROVE  /\ g \in Seq(Mem(n, t)) /\ Len(g) > 1 /\ g[1] \in Mem(n, t)
         /\ IdsOf(g) \in Seq(Ids(n)) /\ IdsOf(Tail(g)) \in Seq(Ids(n))
<1> DEFINE M == Mem(n, t)
<1>1. g \in Seq(M) /\ Len(g) > 1
  BY DEF GroupsOf
<1> HIDE DEF M
<1>2. g # <<>> /\ g[1] \in M
  BY <1>1
<1>3. Tail(g) \in Seq(M)
  BY <1>1, <1>2, TailIs
<1> QED BY <1>1, <1>2, <1>3, IdsOfIs DEF M

\* The part of the invariant that a compaction changes.
KeptInv ==
  /\ merges \in 0..MaxMerges /\ now \in Nat
  /\ Kept(entries, order, file, merges, now)
  /\ Work(todo, doomed, merges, now)

LEMMA MergeKept ==
  ASSUME KeptInv, NEW w \in Workers, NEW fails1 \in BOOLEAN, MergeGroup(w, fails1), UNCHANGED now
  PROVE  KeptInv'
<1>0. PICK td, dm, gs, g : td = todo /\ dm = doomed /\ gs = todo[w] /\ g = Head(gs)
  OBVIOUS
<1>1. PICK n \in Nat, t \in Nat :
        /\ n = merges /\ t = now /\ n <= MaxMerges
        /\ td = todo /\ dm = doomed /\ gs = todo[w] /\ g = Head(gs)
  BY <1>0, AgentAssumption DEF KeptInv
<1>2. Kept(entries, order, file, n, t) /\ Work(td, dm, n, t)
  BY <1>1 DEF KeptInv
<1>3. gs \in Seq(GroupsOf(Mem(n, t))) /\ gs # <<>>
  BY <1>1, <1>2 DEF Work, MergeGroup
<1>4. g \in GroupsOf(Mem(n, t)) /\ Tail(gs) \in Seq(GroupsOf(Mem(n, t)))
  BY <1>1, <1>3, TailIs
<1>5. <<>> \in Seq(GroupsOf(Mem(n, t))) /\ n < MaxMerges /\ t = now'
  BY <1>1 DEF MergeGroup
<1>6. CASE fails1
  <2>1. merges' = n /\ UNCHANGED <<entries, order, file>> /\ doomed' = dm
        /\ (todo' = [td EXCEPT ![w] = <<>>] \/ todo' = [td EXCEPT ![w] = Tail(gs)])
    BY <1>1, <1>6 DEF MergeGroup, storeVars
  <2>2. <<>> \in Seq(Ids(n))
    OBVIOUS
  <2>3. Work([td EXCEPT ![w] = <<>>], dm, n, t) /\ Work([td EXCEPT ![w] = Tail(gs)], dm, n, t)
    BY <1>2, <1>4, <1>5, <2>2, WorkGiven
  <2> QED BY <1>1, <1>2, <1>5, <2>1, <2>3 DEF KeptInv
<1>7. CASE ~fails1
  <2>1. /\ merges' = n + 1 /\ Store(Merged(g))
        /\ todo' = [td EXCEPT ![w] = Tail(gs)] /\ doomed' = [dm EXCEPT ![w] = IdsOf(g)]
    BY <1>1, <1>7 DEF MergeGroup
  <2>2. n + 1 \in Nat /\ n <= n + 1 /\ t <= t /\ n + 1 \in 0..MaxMerges
    BY <1>5, AgentAssumption
  <2>3. PICK m \in Mem(n + 1, t) : m = Merged(g)
    BY <1>1, <1>4, MergedIs
  <2>4. Kept(entries, order, file, n + 1, t)
    <3>1. PICK e, o, q : e = entries /\ o = order /\ q = file
      OBVIOUS
    <3>2. Kept(e, o, q, n + 1, t)
      BY <1>2, <2>2, <3>1, KeptLater
    <3> QED BY <3>1, <3>2
  <2>5. Kept(entries', order', file', n + 1, t)
    BY <2>1, <2>3, <2>4, StoreKept
  <2>6. IdsOf(g) \in Seq(Ids(n))
    BY <1>4, GroupTail
  <2>7. Work([td EXCEPT ![w] = Tail(gs)], [dm EXCEPT ![w] = IdsOf(g)], n, t)
    BY <1>2, <1>4, <2>6, WorkGiven
  <2>8. Work([td EXCEPT ![w] = Tail(gs)], [dm EXCEPT ![w] = IdsOf(g)], n + 1, t)
    BY <2>2, <2>7, WorkLater
  <2> QED BY <1>5, <2>1, <2>2, <2>5, <2>8 DEF KeptInv
<1> QED BY <1>6, <1>7

LEMMA KeepFirstKept ==
  ASSUME KeptInv, NEW fails1 \in BOOLEAN, KeepFirst(fails1), UNCHANGED now
  PROVE  KeptInv'
<1>0. PICK td, dm, gs, g : td = todo /\ dm = doomed /\ gs = todo["end"] /\ g = Head(gs)
  OBVIOUS
<1>1. PICK n \in Nat, t \in Nat :
        /\ n = merges /\ t = now /\ n \in 0..MaxMerges
        /\ td = todo /\ dm = doomed /\ gs = todo["end"] /\ g = Head(gs)
  BY <1>0, AgentAssumption DEF KeptInv
<1>2. Kept(entries, order, file, n, t) /\ Work(td, dm, n, t) /\ "end" \in Workers
  BY <1>1 DEF KeptInv, Workers
<1>3. gs \in Seq(GroupsOf(Mem(n, t))) /\ gs # <<>>
  BY <1>1, <1>2 DEF Work, KeepFirst
<1>4. g \in GroupsOf(Mem(n, t)) /\ Tail(gs) \in Seq(GroupsOf(Mem(n, t)))
  BY <1>1, <1>3, TailIs
<1>5. /\ merges' = n /\ now' = t /\ IF fails1 THEN UNCHANGED storeVars ELSE Store(g[1])
      /\ todo' = [td EXCEPT !["end"] = Tail(gs)] /\ doomed' = [dm EXCEPT !["end"] = IdsOf(Tail(g))]
  BY <1>1 DEF KeepFirst
<1>6. g[1] \in Mem(n, t) /\ IdsOf(Tail(g)) \in Seq(Ids(n))
  BY <1>4, GroupTail
<1>7. Kept(entries', order', file', n, t)
  <2>1. CASE fails1
    BY <1>2, <1>5, <2>1 DEF storeVars
  <2>2. CASE ~fails1
    BY <1>2, <1>5, <1>6, <2>2, StoreKept
  <2> QED BY <2>1, <2>2
<1>8. Work([td EXCEPT !["end"] = Tail(gs)], [dm EXCEPT !["end"] = IdsOf(Tail(g))], n, t)
  BY <1>2, <1>4, <1>6, WorkGiven
<1> QED BY <1>1, <1>5, <1>7, <1>8 DEF KeptInv

LEMMA DeleteOneKept ==
  ASSUME KeptInv, NEW w \in Workers, NEW fails1 \in BOOLEAN, DeleteOne(w, fails1),
         UNCHANGED <<todo, now, merges>>
  PROVE  KeptInv'
<1>0. PICK td, dm, ids : td = todo /\ dm = doomed /\ ids = doomed[w]
  OBVIOUS
<1>1. PICK n \in Nat, t \in Nat :
        /\ n = merges /\ t = now /\ n \in 0..MaxMerges
        /\ td = todo /\ dm = doomed /\ ids = doomed[w]
  BY <1>0, AgentAssumption DEF KeptInv
<1>2. Kept(entries, order, file, n, t) /\ Work(td, dm, n, t)
  BY <1>1 DEF KeptInv
<1>3. ids \in Seq(Ids(n)) /\ ids # <<>>
  BY <1>1, <1>2 DEF Work, DeleteOne
<1>4. Tail(ids) \in Seq(Ids(n))
  BY <1>3, TailIs
<1>5. PICK id : id = Head(ids) /\ Delete(id, fails1) /\ doomed' = [dm EXCEPT ![w] = Tail(ids)]
  BY <1>1 DEF DeleteOne
<1>6. Kept(entries', order', file', n, t)
  BY <1>2, <1>5, DeleteKept
<1>7. <<>> \in Seq(GroupsOf(Mem(n, t)))
  OBVIOUS
<1>8. Work(td, [dm EXCEPT ![w] = Tail(ids)], n, t)
  BY <1>2, <1>4, <1>7, WorkGiven
<1> QED BY <1>1, <1>5, <1>6, <1>8 DEF KeptInv

\* What is listed is what is indexed, all of it or some.
LEMMA ListedIs ==
  ASSUME NEW n, NEW t, Kept(entries, order, file, n, t)
  PROVE  /\ Groups(List) \in Seq(GroupsOf(Indexed))
         /\ \A I \in SUBSET (1..Len(List)) : /\ Picked(List, I) \in Seq(Indexed)
                                            /\ Groups(Picked(List, I)) \in Seq(GroupsOf(Indexed))
         /\ GroupsOf(Indexed) \subseteq GroupsOf(Mem(n, t)) /\ Indexed \subseteq Mem(n, t)
         /\ \A m \in Indexed : m.id \in DOMAIN entries /\ entries[m.id] = m
<1>1. PICK M : M = Indexed
  OBVIOUS
<1>2. M \subseteq Mem(n, t) /\ \A m \in M : m.id \in DOMAIN entries /\ entries[m.id] = m
  BY <1>1, ListIs
<1>3. PICK q \in Seq(M) : q = List
  BY <1>1, ListIs
<1>4. GroupsOf(M) \subseteq GroupsOf(Mem(n, t))
  BY <1>2, SeqSub DEF GroupsOf
<1>5. Groups(q) \in Seq(GroupsOf(M))
  BY GroupsIs
<1>6. ASSUME NEW I \in SUBSET (1..Len(q))
      PROVE  Picked(q, I) \in Seq(M) /\ Groups(Picked(q, I)) \in Seq(GroupsOf(M))
  <2>1. PICK p \in Seq(M) : p = Picked(q, I)
    BY PickedIs
  <2>2. Groups(p) \in Seq(GroupsOf(M))
    BY GroupsIs
  <2> QED BY <2>1, <2>2
<1> QED BY <1>1, <1>2, <1>3, <1>4, <1>5, <1>6

LEMMA StoreStep == StoreInv /\ RunInv /\ [Next]_vars => StoreInv'
<1> SUFFICES ASSUME StoreInv, RunInv, [Next]_vars PROVE StoreInv'
  OBVIOUS
<1>1. KeptInv /\ learned \subseteq Facts /\ aged \subseteq Facts
  BY DEF StoreInv, KeptInv
<1>0. PICK td, dm, e, o, q : td = todo /\ dm = doomed /\ e = entries /\ o = order /\ q = file
  OBVIOUS
<1>2. PICK n \in Nat, t \in Nat :
        /\ n = merges /\ t = now /\ n \in 0..MaxMerges
        /\ td = todo /\ dm = doomed /\ e = entries /\ o = order /\ q = file
  BY <1>0, AgentAssumption DEF StoreInv
<1>3. Kept(entries, order, file, n, t) /\ Kept(e, o, q, n, t) /\ Work(td, dm, n, t)
  BY <1>2 DEF StoreInv
<1>4. "end" \in Workers /\ \A m \in Maintainers : m \in Workers
  BY WorkersAre
<1>5. ASSUME KeptInv', UNCHANGED <<learned, aged>> PROVE StoreInv'
  BY <1>1, <1>5 DEF StoreInv, KeptInv
<1>6. ASSUME UNCHANGED <<entries, order, file, todo, doomed, merges, now>> PROVE KeptInv'
  BY <1>1, <1>6 DEF KeptInv
<1>7. ASSUME NEW r \in Runs, (\E s \in Sessions : Begin(r, s)) \/ RunEnds(r) \/ Close(r) PROVE StoreInv'
  BY <1>5, <1>6, <1>7 DEF Begin, RunEnds, Close, storeVars, workVars, counts, history
<1>8. ASSUME (\E m \in Maintainers : EndPass(m)) \/ CallEnd \/ Stopped \/ EndReturns \/ UNCHANGED vars
      PROVE  StoreInv'
  BY <1>5, <1>6, <1>8 DEF EndPass, CallEnd, Stopped, EndReturns, vars, storeVars, workVars, counts, history
<1>9. ASSUME NEW r \in Runs, Learn(r) PROVE StoreInv'
  <2>1. UNCHANGED <<todo, doomed, merges, now, aged>>
    BY <1>9 DEF Learn, workVars, counts
  <2>2. CASE UNCHANGED <<storeVars, learned>>
    BY <1>5, <1>6, <2>1, <2>2 DEF storeVars
  <2>3. ASSUME NEW f \in Facts, Store(Memory(f, {f}, sess[r], now)), learned' = learned \cup {f}
        PROVE  StoreInv'
    <3>1. PICK m \in Mem(n, t) : m = Memory(f, {f}, sess[r], now)
      <4>1. sess[r] \in Sessions /\ now \in 0..t /\ f \in Ids(n) /\ {f} \in (SUBSET Facts) \ {{}}
        BY <1>2 DEF RunInv, Ids
      <4>2. Memory(f, {f}, sess[r], now) \in Mem(n, t)
        BY <4>1 DEF Mem, Memory
      <4> QED BY <4>2
    <3>2. Kept(entries', order', file', n, t)
      BY <1>3, <2>3, <3>1, StoreKept
    <3> QED BY <1>1, <1>2, <1>3, <2>1, <2>3, <3>2 DEF StoreInv
  <2> QED BY <1>9, <2>2, <2>3 DEF Learn
<1>10. ASSUME NEW m \in Maintainers, StartPass(m) PROVE StoreInv'
  <2>1. /\ UNCHANGED <<entries, order, file, doomed, merges, now, learned, aged>>
        /\ todo' = [td EXCEPT ![m] = Groups(List)]
    BY <1>2, <1>10 DEF StartPass, storeVars, history
  <2>2. PICK gs \in Seq(GroupsOf(Mem(n, t))) : gs = Groups(List)
    BY <1>3, ListedIs, SeqSub
  <2>3. <<>> \in Seq(Ids(n))
    OBVIOUS
  <2>4. Work([td EXCEPT ![m] = gs], dm, n, t)
    BY <1>3, <1>4, <2>3, WorkGiven
  <2>5. KeptInv'
    BY <1>2, <1>3, <2>1, <2>2, <2>4 DEF KeptInv
  <2> QED BY <1>5, <2>1, <2>5
<1>11. ASSUME ListSession PROVE StoreInv'
  <2> DEFINE I == {i \in 1..Len(List) : List[i].sess = Session}
  <2>1. /\ UNCHANGED <<entries, order, file, doomed, merges, now, learned, aged>>
        /\ todo' = [td EXCEPT !["end"] = Groups(Picked(List, I))]
    BY <1>2, <1>11 DEF ListSession, storeVars, counts, history
  <2>2. PICK gs \in Seq(GroupsOf(Mem(n, t))) : gs = Groups(Picked(List, I))
    <3>1. I \in SUBSET (1..Len(List))
      OBVIOUS
    <3> HIDE DEF I
    <3> QED BY <1>3, <3>1, ListedIs, SeqSub
  <2> HIDE DEF I
  <2>3. <<>> \in Seq(Ids(n))
    OBVIOUS
  <2>4. Work([td EXCEPT !["end"] = gs], dm, n, t)
    BY <1>3, <1>4, <2>3, WorkGiven
  <2>5. KeptInv'
    BY <1>2, <1>3, <2>1, <2>2, <2>4 DEF KeptInv
  <2> QED BY <1>5, <2>1, <2>5
<1>12. ASSUME NEW m \in Maintainers, ListOld(m) PROVE StoreInv'
  <2> DEFINE I == {i \in 1..Len(List) : Old(List[i])}
  <2>1. /\ UNCHANGED <<entries, order, file, todo, merges, now, learned, aged>>
        /\ doomed' = [dm EXCEPT ![m] = IdsOf(Picked(List, I))]
    BY <1>2, <1>12 DEF ListOld, storeVars, counts, history
  <2>2. PICK ids \in Seq(Ids(n)) : ids = IdsOf(Picked(List, I))
    <3>1. I \in SUBSET (1..Len(List))
      OBVIOUS
    <3> HIDE DEF I
    <3>2. Picked(List, I) \in Seq(Indexed) /\ Indexed \subseteq Mem(n, t)
      BY <1>3, <3>1, ListedIs
    <3>3. PICK p \in Seq(Mem(n, t)) : p = Picked(List, I)
      BY <3>2, SeqSub
    <3>4. IdsOf(p) \in Seq(Ids(n))
      BY IdsOfIs
    <3> QED BY <3>3, <3>4
  <2> HIDE DEF I
  <2>3. <<>> \in Seq(GroupsOf(Mem(n, t)))
    OBVIOUS
  <2>4. Work(td, [dm EXCEPT ![m] = ids], n, t)
    BY <1>3, <1>4, <2>3, WorkGiven
  <2>5. KeptInv'
    BY <1>2, <1>3, <2>1, <2>2, <2>4 DEF KeptInv
  <2> QED BY <1>5, <2>1, <2>5
<1>13. ASSUME NEW m \in Maintainers, NEW fails1 \in BOOLEAN, PassMerges(m, fails1) PROVE StoreInv'
  <2>1. MergeGroup(m, fails1) /\ UNCHANGED <<now, learned, aged>>
    BY <1>13 DEF PassMerges, history
  <2> QED BY <1>1, <1>4, <1>5, <2>1, MergeKept
<1>14. ASSUME NEW fails1 \in BOOLEAN, EndMerges(fails1) PROVE StoreInv'
  <2>1. (MergeGroup("end", fails1) \/ KeepFirst(fails1)) /\ UNCHANGED <<now, learned, aged>>
    BY <1>14 DEF EndMerges, history
  <2> QED BY <1>1, <1>4, <1>5, <2>1, MergeKept, KeepFirstKept
<1>15. ASSUME NEW m \in Maintainers, NEW fails1 \in BOOLEAN, PassDeletes(m, fails1) PROVE StoreInv'
  <2>1. DeleteOne(m, fails1) /\ UNCHANGED <<todo, now, merges, learned, aged>>
    BY <1>15 DEF PassDeletes, history
  <2> QED BY <1>1, <1>4, <1>5, <2>1, DeleteOneKept
<1>16. ASSUME NEW fails1 \in BOOLEAN, EndDeletes(fails1) PROVE StoreInv'
  <2>1. DeleteOne("end", fails1) /\ UNCHANGED <<todo, now, merges, learned, aged>>
    BY <1>16 DEF EndDeletes, history
  <2> QED BY <1>1, <1>4, <1>5, <2>1, DeleteOneKept
<1>17. ASSUME NEW m \in Maintainers, NEW fails1 \in BOOLEAN, CleanupDeletes(m, fails1) PROVE StoreInv'
  <2>1. DeleteOne(m, fails1) /\ UNCHANGED <<todo, now, merges, learned>>
    BY <1>17 DEF CleanupDeletes
  <2>2. aged' = aged \/ \E id \in DOMAIN entries : aged' = aged \cup entries[id].facts
    BY <1>17 DEF CleanupDeletes
  <2>3. \A id \in DOMAIN entries : entries[id].facts \subseteq Facts
    BY <1>3 DEF Kept, Mem
  <2>4. KeptInv'
    BY <1>1, <1>4, <2>1, DeleteOneKept
  <2> QED BY <1>1, <2>1, <2>2, <2>3, <2>4 DEF StoreInv, KeptInv
<1>18. ASSUME Tick PROVE StoreInv'
  <2>1. /\ UNCHANGED <<entries, order, file, todo, doomed, merges, learned, aged>>
        /\ now' = t + 1 /\ t + 1 \in Nat /\ t <= t + 1 /\ n <= n
    BY <1>2, <1>18 DEF Tick, storeVars, workVars, history
  <2>2. Kept(e, o, q, n, t + 1)
    BY <1>3, <2>1, KeptLater
  <2>3. Work(td, dm, n, t + 1)
    BY <1>3, <2>1, WorkLater
  <2>4. KeptInv'
    BY <1>2, <2>1, <2>2, <2>3 DEF KeptInv
  <2> QED BY <1>5, <2>1, <2>4
<1>19. ASSUME Restart PROVE StoreInv'
  <2>1. Load /\ UNCHANGED <<now, merges, learned, aged>>
        /\ todo' = [w \in Workers |-> <<>>] /\ doomed' = [w \in Workers |-> <<>>]
    BY <1>19 DEF Restart
  <2>2. Kept(entries', order', file', n, t)
    BY <1>3, <2>1, LoadKept
  <2>3. Work(todo', doomed', n, t)
    BY <2>1 DEF Work
  <2>4. KeptInv'
    BY <1>2, <2>1, <2>2, <2>3 DEF KeptInv
  <2> QED BY <1>5, <2>1, <2>4
<1> QED BY <1>7, <1>8, <1>9, <1>10, <1>11, <1>12, <1>13, <1>14, <1>15, <1>16, <1>17, <1>18, <1>19
    DEF Next

-----------------------------------------------------------------------------
(* Theorems about the store                                                *)

\* Whatever runs, compactions, failures and restarts there are, every value is of its
\* kind: among them, a memory has its own id and says something, what was learned under a
\* fact says that fact only, and a compaction deletes only ids that were given out.
THEOREM TypeCorrect == Spec => []TypeOK
<1>1. Init => RunInv /\ RestInv /\ StoreInv
  BY RunInit, RestInit, StoreInit
<1>2. RunInv /\ RestInv /\ StoreInv /\ [Next]_vars => (RunInv /\ RestInv /\ StoreInv)'
  BY RunStep, RestStep, StoreStep
<1>3. RunInv /\ RestInv /\ StoreInv => TypeOK
  <2> SUFFICES ASSUME RunInv, RestInv, StoreInv PROVE TypeOK
    OBVIOUS
  <2>1. PICK n \in Nat : n = merges /\ n <= MaxMerges
    BY AgentAssumption DEF StoreInv
  <2>2. \A id \in DOMAIN entries : entries[id] \in Mem(n, now) /\ entries[id].id = id
    BY <2>1 DEF StoreInv, Kept
  <2>3. \A id \in DOMAIN entries :
          /\ id \in Facts \cup 1..MaxMerges
          /\ entries[id].id = id /\ entries[id].facts \in (SUBSET Facts) \ {{}}
          /\ entries[id].sess \in Sessions /\ entries[id].born \in 0..now
          /\ id \in Facts => entries[id].facts = {id}
    BY <2>1, <2>2, AgentAssumption DEF Mem, Ids
  <2>4. ASSUME NEW w \in Workers
        PROVE  /\ \A i \in 1..Len(todo[w]) : Len(todo[w][i]) > 1
               /\ \A i \in 1..Len(doomed[w]) : doomed[w][i] \in Facts \cup 1..merges
    <3>1. todo[w] \in Seq(GroupsOf(Mem(n, now))) /\ doomed[w] \in Seq(Ids(n))
      BY <2>1 DEF StoreInv, Work
    <3>2. \A i \in 1..Len(todo[w]) : todo[w][i] \in GroupsOf(Mem(n, now))
      BY <3>1
    <3>3. \A i \in 1..Len(doomed[w]) : doomed[w][i] \in Ids(n)
      BY <3>1
    <3> QED BY <2>1, <3>2, <3>3 DEF GroupsOf, Ids
  <2>5. DOMAIN entries \subseteq Facts \cup 1..MaxMerges
    BY <2>3
  <2> QED BY <2>3, <2>4, <2>5 DEF TypeOK, RunInv, RestInv, StoreInv
<1> QED BY <1>1, <1>2, <1>3, PTL DEF Spec

\* The order of the file store names exactly the memories it has indexed, whatever deletes
\* and failed rewrites there were (store.go:398-420).
THEOREM EnumeratedAlways == Spec => []Enumerated
<1>1. Init => RunInv /\ StoreInv
  BY RunInit, StoreInit
<1>2. RunInv /\ StoreInv /\ [Next]_vars => (RunInv /\ StoreInv)'
  BY RunStep, StoreStep
<1>3. RunInv /\ StoreInv => Enumerated
  BY DEF StoreInv, Kept, Enumerated
<1> QED BY <1>1, <1>2, <1>3, PTL DEF Spec

\* A restart at any moment finds every memory of the index as it is (store.go:86-145).
THEOREM DurableAlways == Spec => []Durable
<1>1. Init => RunInv /\ StoreInv
  BY RunInit, StoreInit
<1>2. RunInv /\ StoreInv /\ [Next]_vars => (RunInv /\ StoreInv)'
  BY RunStep, StoreStep
<1>3. RunInv /\ StoreInv => Durable
  BY DEF StoreInv, Kept, Found, Durable
<1> QED BY <1>1, <1>2, <1>3, PTL DEF Spec

\* EndSession compacts only when every run whose end the caller saw before the call has
\* been learned from (agent.go:649-651).
THEOREM EndSessionComplete == Spec => []EndSessionSeesRuns
<1>1. RunInv => EndSessionSeesRuns
  BY DEF RunInv
<1> QED BY <1>1, RunInit, RunStep, PTL DEF Spec

-----------------------------------------------------------------------------
(* Nothing is forgotten: whatever a compaction is about to delete is said  *)
(* by a memory of a higher number, and the highest that says something is  *)
(* nowhere among those to be deleted.                                      *)

\* How late a memory was merged; as learned, it is 0.
Number(id) == IF id \in Facts THEN 0 ELSE id

\* The index e has a memory that says f.
KnownBy(e) == UNION {e[id].facts : id \in DOMAIN e}

\* The memory d says f, or will do so when it is learned again.
Says(e, d, f) == (d \in Facts /\ f = d) \/ (d \in DOMAIN e /\ f \in e[d].facts)

\* A memory of a higher number than d says f.
Over(e, d, f) == \E x \in DOMAIN e : Number(x) > Number(d) /\ f \in e[x].facts

\* All that the memories ids say is said by memories of a higher number, unless aged.
Covers(e, ag, ids) ==
  \A i \in 1..Len(ids) : \A f \in Facts \ ag : Says(e, ids[i], f) => Over(e, ids[i], f)

\* The merged memories of the group g, if there are any left, still say what they did.
Agrees(e, g) ==
  \A j \in 1..Len(g) : g[j].id \in DOMAIN e \ Facts => e[g[j].id].facts = g[j].facts
SameAs(e, td) == \A w \in Workers : \A i \in 1..Len(td[w]) : Agrees(e, td[w][i])

\* The index e after n merges, at time t.
Indexes(e, n, t) == \A id \in DOMAIN e : e[id] \in Mem(n, t) /\ e[id].id = id

LEMMA NumberIs ==
  ASSUME NEW n \in Nat, NEW d \in Ids(n)
  PROVE  Number(d) \in 0..n
BY DEF Number, Ids

LEMMA IndexesIs ==
  ASSUME NEW e, NEW n, NEW t, Indexes(e, n, t), NEW id \in DOMAIN e
  PROVE  id \in Ids(n) /\ e[id].facts \subseteq Facts /\ (id \in Facts => e[id].facts = {id})
BY DEF Indexes, Mem

\* Storing what was learned, or a new merged memory, loses nothing.
LEMMA StoredSays ==
  ASSUME NEW e, NEW n, NEW t, Indexes(e, n, t), NEW m,
         (m.id \in Facts /\ m.facts = {m.id}) \/ m.id \notin Ids(n)
  PROVE  /\ \A d \in Ids(n) : \A f : Says(With(e, m), d, f) => Says(e, d, f)
         /\ \A d, f : Over(e, d, f) => Over(With(e, m), d, f)
         /\ KnownBy(e) \cup m.facts \subseteq KnownBy(With(e, m))
         /\ \A g \in Seq(Mem(n, t)) : Agrees(e, g) => Agrees(With(e, m), g)
<1> DEFINE c == With(e, m)
<1>1. /\ DOMAIN c = DOMAIN e \cup {m.id} /\ c[m.id] = m
      /\ \A x \in DOMAIN e : x # m.id => c[x] = e[x]
  BY DEF With
<1> HIDE DEF c
<1>2. \A x \in DOMAIN e : x \in Ids(n) /\ (x \in Facts => e[x].facts = {x})
  BY IndexesIs
<1>3. \A x \in DOMAIN e : c[x].facts = e[x].facts
  BY <1>1, <1>2
<1>4. \A d \in Ids(n) : \A f : Says(c, d, f) => Says(e, d, f)
  BY <1>1, <1>3 DEF Says
<1>5. \A d, f : Over(e, d, f) => Over(c, d, f)
  BY <1>1, <1>3 DEF Over
<1>6. KnownBy(e) \cup m.facts \subseteq KnownBy(c)
  BY <1>1, <1>3 DEF KnownBy
<1>7. ASSUME NEW g \in Seq(Mem(n, t)), Agrees(e, g) PROVE Agrees(c, g)
  <2>1. \A j \in 1..Len(g) : g[j] \in Mem(n, t)
    OBVIOUS
  <2>2. \A j \in 1..Len(g) : g[j].id \in Ids(n)
    BY <2>1 DEF Mem
  <2> QED BY <1>1, <1>3, <1>7, <2>2 DEF Agrees
<1> QED BY <1>4, <1>5, <1>6, <1>7 DEF c

\* What deleting d loses is at most what d said, and nothing that is said over d.
LEMMA DroppedSays ==
  ASSUME NEW e, NEW n \in Nat, NEW t, Indexes(e, n, t), NEW d \in DOMAIN e
  PROVE  /\ \A x, f : Says(Without(e, d), x, f) => Says(e, x, f)
         /\ \A g : Agrees(e, g) => Agrees(Without(e, d), g)
         /\ \A f \in KnownBy(e) : f \in KnownBy(Without(e, d)) \/ f \in e[d].facts
         /\ \A f : Over(e, d, f) => f \in KnownBy(Without(e, d))
         /\ \A x \in Ids(n) : \A f : Over(e, x, f) =>
               Over(Without(e, d), x, f) \/ (f \in e[d].facts /\ Number(d) > Number(x))
         /\ \A x \in Ids(n) : \A f : Over(e, d, f) /\ Number(d) > Number(x) => Over(Without(e, d), x, f)
<1> DEFINE c == Without(e, d)
<1>1. DOMAIN c = DOMAIN e \ {d} /\ \A x \in DOMAIN c : c[x] = e[x]
  BY DEF Without
<1> HIDE DEF c
<1>2. \A x \in Ids(n) : Number(x) \in 0..n
  BY NumberIs
<1>3. DOMAIN e \subseteq Ids(n)
  BY IndexesIs
<1>4. \A x, f : Says(c, x, f) => Says(e, x, f)
  BY <1>1 DEF Says
<1>5. \A g : Agrees(e, g) => Agrees(c, g)
  BY <1>1 DEF Agrees
<1>6. \A f \in KnownBy(e) : f \in KnownBy(c) \/ f \in e[d].facts
  BY <1>1 DEF KnownBy
<1>7. ASSUME NEW f, Over(e, d, f)
      PROVE  \E y \in DOMAIN c : Number(y) > Number(d) /\ f \in c[y].facts
  <2>1. PICK y \in DOMAIN e : Number(y) > Number(d) /\ f \in e[y].facts
    BY <1>7 DEF Over
  <2>2. y # d
    BY <1>2, <1>3, <2>1
  <2> QED BY <1>1, <2>1, <2>2
<1>8. \A f : Over(e, d, f) => f \in KnownBy(c)
  BY <1>7 DEF KnownBy
<1>9. ASSUME NEW x \in Ids(n), NEW f, Over(e, x, f)
      PROVE  Over(c, x, f) \/ (f \in e[d].facts /\ Number(d) > Number(x))
  BY <1>1, <1>9 DEF Over
<1>10. ASSUME NEW x \in Ids(n), NEW f, Over(e, d, f), Number(d) > Number(x) PROVE Over(c, x, f)
  <2>1. PICK y \in DOMAIN c : Number(y) > Number(d) /\ f \in c[y].facts
    BY <1>7, <1>10
  <2>2. Number(y) > Number(x)
    BY <1>1, <1>2, <1>3, <1>10, <2>1
  <2> QED BY <2>1, <2>2 DEF Over
<1> QED BY <1>4, <1>5, <1>6, <1>8, <1>9, <1>10 DEF c

\* Fewer to delete, or to merge.
LEMMA FewerCovers ==
  ASSUME NEW e, NEW ag, NEW S, NEW ids \in Seq(S), ids # <<>>, Covers(e, ag, ids)
  PROVE  Covers(e, ag, Tail(ids)) /\ \A f \in Facts \ ag : Says(e, Head(ids), f) => Over(e, Head(ids), f)
<1>1. Len(ids) \in Nat /\ Len(ids) > 0 /\ Head(ids) = ids[1] /\ Len(Tail(ids)) = Len(ids) - 1
      /\ \A i \in 1..(Len(ids) - 1) : Tail(ids)[i] = ids[i + 1]
  BY TailIs
<1>2. \A i \in 1..(Len(ids) - 1) : i + 1 \in 1..Len(ids)
  BY <1>1
<1>3. Covers(e, ag, Tail(ids))
  BY <1>1, <1>2 DEF Covers
<1>4. 1 \in 1..Len(ids)
  BY <1>1
<1> QED BY <1>1, <1>3, <1>4 DEF Covers

LEMMA FewerSame ==
  ASSUME NEW e, NEW td, NEW S, td \in [Workers -> Seq(S)], SameAs(e, td), NEW w \in Workers
  PROVE  /\ SameAs(e, [td EXCEPT ![w] = <<>>])
         /\ td[w] # <<>> => SameAs(e, [td EXCEPT ![w] = Tail(@)]) /\ Agrees(e, Head(td[w]))
<1>1. \A v \in Workers \ {w} : [td EXCEPT ![w] = <<>>][v] = td[v] /\ [td EXCEPT ![w] = Tail(@)][v] = td[v]
  OBVIOUS
<1>2. [td EXCEPT ![w] = <<>>][w] = <<>> /\ [td EXCEPT ![w] = Tail(@)][w] = Tail(td[w])
  OBVIOUS
<1>3. SameAs(e, [td EXCEPT ![w] = <<>>])
  BY <1>1, <1>2 DEF SameAs
<1>4. ASSUME td[w] # <<>> PROVE SameAs(e, [td EXCEPT ![w] = Tail(@)]) /\ Agrees(e, Head(td[w]))
  <2>1. PICK q \in Seq(S) : q = td[w] /\ q # <<>>
    BY <1>4
  <2>2. Len(q) \in Nat /\ Len(q) > 0 /\ Head(q) = q[1] /\ Len(Tail(q)) = Len(q) - 1
        /\ \A i \in 1..(Len(q) - 1) : Tail(q)[i] = q[i + 1]
    BY <2>1, TailIs
  <2>3. \A i \in 1..Len(q) : Agrees(e, q[i])
    BY <2>1 DEF SameAs
  <2>4. \A i \in 1..(Len(q) - 1) : i + 1 \in 1..Len(q)
    BY <2>2
  <2>5. \A i \in 1..Len(Tail(q)) : Agrees(e, Tail(q)[i])
    BY <2>2, <2>3, <2>4
  <2>6. Agrees(e, Head(q))
    <3>1. 1 \in 1..Len(q)
      BY <2>2
    <3> QED BY <2>2, <2>3, <3>1
  <2> QED BY <1>1, <1>2, <2>1, <2>5, <2>6 DEF SameAs
<1> QED BY <1>3, <1>4

\* Who deletes what has been merged, the passes of the maintainers being at at.
Merging(at) == {"end"} \cup {m \in Maintainers : at[m] = "compact"}

\* The inductive invariant, of the facts l learned, the index e, the facts ag aged, the
\* compactions' groups td and ids dm, and where the passes are.
Cover(l, e, ag, td, dm, at) ==
  /\ l \subseteq KnownBy(e) \cup ag
  /\ SameAs(e, td)
  /\ \A w \in Merging(at) : Covers(e, ag, dm[w])

CoverInv == maintained => Cover(learned, entries, aged, todo, doomed, pass)

LEMMA CoverInit == Init => CoverInv
<1> SUFFICES ASSUME Init PROVE CoverInv
  OBVIOUS
<1>1. learned = {} /\ todo = [w \in Workers |-> <<>>] /\ doomed = [w \in Workers |-> <<>>]
  BY DEF Init
<1>2. \A w \in Workers : todo[w] = <<>> /\ doomed[w] = <<>>
  BY <1>1
<1>3. \A w \in Merging(pass) : w \in Workers
  BY WorkersAre DEF Merging
<1> QED BY <1>1, <1>2, <1>3 DEF CoverInv, Cover, SameAs, Covers

\* Fewer who merge.
LEMMA CoverMoved ==
  ASSUME NEW l, NEW e, NEW ag, NEW td, NEW dm, NEW at, NEW an, Cover(l, e, ag, td, dm, at),
         \A w \in Merging(an) : w \in Merging(at) \/ dm[w] = <<>>
  PROVE  Cover(l, e, ag, td, dm, an)
<1>1. \A w \in Merging(an) : Covers(e, ag, dm[w])
  BY DEF Cover, Covers
<1> QED BY <1>1 DEF Cover

\* A merge that stores its memory: what it goes on to delete is in the merged one.
LEMMA MergeCovers ==
  ASSUME NEW e, NEW n \in Nat, NEW t \in Nat, Indexes(e, n, t), NEW g \in GroupsOf(Mem(n, t)),
         Agrees(e, g), NEW m, m.id = n + 1, n + 1 \notin Facts,
         m.facts = FactsOf(g), NEW ag
  PROVE  Covers(With(e, m), ag, IdsOf(g))
<1>1. g \in Seq(Mem(n, t))
  BY DEF GroupsOf
<1>2. Len(IdsOf(g)) = Len(g) /\ \A i \in 1..Len(g) : IdsOf(g)[i] = g[i].id
  BY <1>1, IdsOfIs
<1> DEFINE c == With(e, m)
<1>3. n + 1 \in DOMAIN c /\ c[n + 1] = m
  BY DEF With
<1>4. n + 1 \notin Ids(n)
  BY DEF Ids
<1>5. \A d \in Ids(n) : \A f : Says(c, d, f) => Says(e, d, f)
  BY <1>4, StoredSays
<1> HIDE DEF c
<1> SUFFICES ASSUME NEW i \in 1..Len(g), NEW f, Says(c, g[i].id, f)
             PROVE  Over(c, g[i].id, f)
  BY <1>2 DEF Covers, c
<1>6. g[i] \in Mem(n, t)
  BY <1>1
<1>7. PICK d \in Ids(n) : d = g[i].id /\ (d \in Facts => g[i].facts = {d})
  BY <1>6 DEF Mem
<1>8. Says(e, d, f)
  BY <1>5, <1>7
<1>9. f \in g[i].facts
  <2>1. CASE d \in Facts
    <3>1. d \in DOMAIN e => e[d].facts = {d}
      BY <2>1, IndexesIs
    <3> QED BY <1>7, <1>8, <2>1, <3>1 DEF Says
  <2>2. CASE d \notin Facts
    BY <1>7, <1>8, <2>2 DEF Says, Agrees
  <2> QED BY <2>1, <2>2
<1>10. f \in m.facts
  BY <1>9 DEF FactsOf
<1>11. Number(d) \in 0..n
  BY NumberIs
<1>12. Number(n + 1) = n + 1
  BY DEF Number
<1>13. Number(n + 1) > Number(d)
  BY <1>11, <1>12
<1> QED BY <1>3, <1>7, <1>10, <1>13 DEF Over

\* A compaction that deletes the first of ids, which are covered: other ids covered stay so.
LEMMA DeleteCovers ==
  ASSUME NEW e, NEW n \in Nat, NEW t, Indexes(e, n, t), NEW d \in DOMAIN e, NEW ag,
         \A f \in Facts \ ag : Says(e, d, f) => Over(e, d, f),
         NEW more \in Seq(Ids(n)), Covers(e, ag, more)
  PROVE  Covers(Without(e, d), ag, more)
<1> DEFINE c == Without(e, d)
<1>1. /\ \A x, f : Says(c, x, f) => Says(e, x, f)
      /\ \A x \in Ids(n) : \A f : Over(e, x, f) => Over(c, x, f) \/ (f \in e[d].facts /\ Number(d) > Number(x))
      /\ \A x \in Ids(n) : \A f : Over(e, d, f) /\ Number(d) > Number(x) => Over(c, x, f)
  BY DroppedSays
<1> HIDE DEF c
<1> SUFFICES ASSUME NEW i \in 1..Len(more), NEW f \in Facts \ ag, Says(c, more[i], f)
             PROVE  Over(c, more[i], f)
  BY DEF Covers, c
<1>2. PICK x \in Ids(n) : x = more[i]
  OBVIOUS
<1>3. Over(e, x, f)
  BY <1>1, <1>2 DEF Covers
<1>4. CASE f \in e[d].facts /\ Number(d) > Number(x)
  <2>1. Says(e, d, f)
    BY <1>4 DEF Says
  <2> QED BY <1>1, <1>2, <1>4, <2>1
<1> QED BY <1>1, <1>2, <1>3, <1>4

\* A cleanup that deletes d: what d said is aged.
LEMMA CleanupCovers ==
  ASSUME NEW e, NEW n \in Nat, NEW t, Indexes(e, n, t), NEW d \in DOMAIN e, NEW ag,
         NEW more \in Seq(Ids(n)), Covers(e, ag, more)
  PROVE  Covers(Without(e, d), ag \cup e[d].facts, more)
<1> DEFINE c == Without(e, d)
<1>1. /\ \A x, f : Says(c, x, f) => Says(e, x, f)
      /\ \A x \in Ids(n) : \A f : Over(e, x, f) => Over(c, x, f) \/ (f \in e[d].facts /\ Number(d) > Number(x))
  BY DroppedSays
<1> HIDE DEF c
<1> SUFFICES ASSUME NEW i \in 1..Len(more), NEW f \in Facts \ (ag \cup e[d].facts), Says(c, more[i], f)
             PROVE  Over(c, more[i], f)
  BY DEF Covers, c
<1>2. PICK x \in Ids(n) : x = more[i]
  OBVIOUS
<1>3. Over(e, x, f)
  BY <1>1, <1>2 DEF Covers
<1> QED BY <1>1, <1>2, <1>3

\* Storing a memory that takes no other's place.
LEMMA CoverStored ==
  ASSUME NEW e, NEW n, NEW t, Indexes(e, n, t), NEW m,
         (m.id \in Facts /\ m.facts = {m.id}) \/ m.id \notin Ids(n),
         NEW l, NEW ag, NEW td, NEW dm, NEW at, Work(td, dm, n, t), Cover(l, e, ag, td, dm, at)
  PROVE  Cover(l \cup m.facts, With(e, m), ag, td, dm, at)
<1> DEFINE c == With(e, m)
<1>1. /\ \A d \in Ids(n) : \A f : Says(c, d, f) => Says(e, d, f)
      /\ \A d, f : Over(e, d, f) => Over(c, d, f)
      /\ KnownBy(e) \cup m.facts \subseteq KnownBy(c)
      /\ \A g \in Seq(Mem(n, t)) : Agrees(e, g) => Agrees(c, g)
  BY StoredSays
<1> HIDE DEF c
<1>2. ASSUME NEW ids \in Seq(Ids(n)), Covers(e, ag, ids) PROVE Covers(c, ag, ids)
  BY <1>1, <1>2 DEF Covers
<1>3. \A w \in Merging(at) : dm[w] \in Seq(Ids(n))
  BY WorkersAre DEF Work, Merging
<1>4. ASSUME NEW w \in Workers, NEW i \in 1..Len(td[w]) PROVE Agrees(c, td[w][i])
  <2>1. td[w] \in Seq(GroupsOf(Mem(n, t)))
    BY DEF Work
  <2>2. td[w][i] \in Seq(Mem(n, t))
    BY <2>1 DEF GroupsOf
  <2>3. Agrees(e, td[w][i])
    BY DEF Cover, SameAs
  <2> QED BY <1>1, <2>2, <2>3
<1> QED BY <1>1, <1>2, <1>3, <1>4 DEF Cover, SameAs, c

\* Nothing, or the rest, is left to merge.
LEMMA CoverFewer ==
  ASSUME NEW e, NEW n, NEW t, NEW l, NEW ag, NEW td, NEW dm, NEW at, Work(td, dm, n, t),
         Cover(l, e, ag, td, dm, at), NEW w \in Workers
  PROVE  /\ Cover(l, e, ag, [td EXCEPT ![w] = <<>>], dm, at)
         /\ td[w] # <<>> => Cover(l, e, ag, [td EXCEPT ![w] = Tail(@)], dm, at) /\ Agrees(e, Head(td[w]))
<1>1. PICK S : td \in [Workers -> Seq(S)]
  BY DEF Work
<1>2. /\ SameAs(e, [td EXCEPT ![w] = <<>>])
      /\ td[w] # <<>> => SameAs(e, [td EXCEPT ![w] = Tail(@)]) /\ Agrees(e, Head(td[w]))
  BY <1>1, FewerSame DEF Cover
<1> QED BY <1>2 DEF Cover

\* Ids to delete that are covered.
LEMMA CoverDoomed ==
  ASSUME NEW e, NEW n, NEW t, NEW l, NEW ag, NEW td, NEW dm, NEW at, Work(td, dm, n, t),
         Cover(l, e, ag, td, dm, at), NEW w \in Workers, NEW ids, Covers(e, ag, ids)
  PROVE  Cover(l, e, ag, td, [dm EXCEPT ![w] = ids], at)
<1> DEFINE dn == [dm EXCEPT ![w] = ids]
<1>1. \A v \in Workers : dn[v] = IF v = w THEN ids ELSE dm[v]
  BY DEF Work
<1>2. \A v \in Merging(at) : v \in Workers
  BY WorkersAre DEF Merging
<1> HIDE DEF dn
<1>3. \A v \in Merging(at) : Covers(e, ag, dn[v])
  BY <1>1, <1>2 DEF Cover
<1> QED BY <1>3 DEF Cover, dn

LEMMA CoverMerged ==
  ASSUME NEW e, NEW n \in Nat, NEW t \in Nat, Indexes(e, n, t), NEW w \in Workers,
         NEW l, NEW ag, NEW td, NEW dm, NEW at, Work(td, dm, n, t), Cover(l, e, ag, td, dm, at),
         td[w] # <<>>, NEW g \in GroupsOf(Mem(n, t)), g = Head(td[w]),
         NEW m, m.id = n + 1, n + 1 \notin Facts,
         m.facts = FactsOf(g)
  PROVE  Cover(l, With(e, m), ag, [td EXCEPT ![w] = Tail(@)], [dm EXCEPT ![w] = IdsOf(g)], at)
<1> DEFINE tn == [td EXCEPT ![w] = Tail(@)]
<1>1. Cover(l, e, ag, tn, dm, at) /\ Agrees(e, g)
  BY CoverFewer
<1>2. PICK c : c = With(e, m)
  OBVIOUS
<1>3. Covers(c, ag, IdsOf(g))
  BY <1>1, <1>2, MergeCovers
<1>4. m.id \notin Ids(n)
  BY DEF Ids
<1>5. Work(tn, dm, n, t)
  <2>1. td[w] \in Seq(GroupsOf(Mem(n, t))) /\ td \in [Workers -> Seq(GroupsOf(Mem(n, t)))]
    BY DEF Work
  <2>2. Tail(td[w]) \in Seq(GroupsOf(Mem(n, t)))
    BY <2>1, TailIs
  <2> QED BY <2>1, <2>2 DEF Work
<1> HIDE DEF tn
<1>6. Cover(l \cup m.facts, c, ag, tn, dm, at)
  BY <1>1, <1>2, <1>4, <1>5, CoverStored
<1>7. Cover(l, c, ag, tn, dm, at)
  BY <1>6 DEF Cover
<1>8. Cover(l, c, ag, tn, [dm EXCEPT ![w] = IdsOf(g)], at)
  BY <1>3, <1>5, <1>7, CoverDoomed
<1> QED BY <1>2, <1>8 DEF tn

\* A delete by a compaction that merges.
LEMMA CoverDeleted ==
  ASSUME NEW e, NEW n \in Nat, NEW t \in Nat, Indexes(e, n, t), NEW w \in Workers,
         NEW l, NEW ag, NEW td, NEW dm, NEW at, Work(td, dm, n, t), Cover(l, e, ag, td, dm, at),
         l \subseteq Facts, w \in Merging(at), dm[w] # <<>>,
         NEW d, d = Head(dm[w])
  PROVE  /\ Cover(l, e, ag, td, [dm EXCEPT ![w] = Tail(@)], at)
         /\ d \in DOMAIN e => Cover(l, Without(e, d), ag, td, [dm EXCEPT ![w] = Tail(@)], at)
<1>1. PICK ids \in Seq(Ids(n)) : ids = dm[w] /\ ids # <<>>
  BY DEF Work
<1>2. Covers(e, ag, ids)
  BY <1>1 DEF Cover
<1>3. Covers(e, ag, Tail(ids)) /\ \A f \in Facts \ ag : Says(e, d, f) => Over(e, d, f)
  BY <1>1, <1>2, FewerCovers
<1>4. PICK dn : dn = [dm EXCEPT ![w] = Tail(@)]
  OBVIOUS
<1>5. Cover(l, e, ag, td, dn, at) /\ \A v \in Merging(at) : dn[v] \in Seq(Ids(n))
  <2>1. PICK rest : rest = Tail(ids)
    OBVIOUS
  <2>2. Cover(l, e, ag, td, [dm EXCEPT ![w] = rest], at)
    BY <1>3, <2>1, CoverDoomed
  <2>3. dn = [dm EXCEPT ![w] = rest]
    BY <1>1, <1>4, <2>1
  <2>4. rest \in Seq(Ids(n))
    BY <1>1, <2>1, TailIs
  <2>5. \A v \in Merging(at) : dn[v] \in Seq(Ids(n))
    BY <2>3, <2>4, WorkersAre DEF Work, Merging
  <2> QED BY <2>2, <2>3, <2>5
<1>6. ASSUME d \in DOMAIN e PROVE Cover(l, Without(e, d), ag, td, dn, at)
  <2>1. PICK c : c = Without(e, d)
    OBVIOUS
  <2>2. /\ \A g : Agrees(e, g) => Agrees(c, g)
        /\ \A f \in KnownBy(e) : f \in KnownBy(c) \/ f \in e[d].facts
        /\ \A f : Over(e, d, f) => f \in KnownBy(c)
    BY <1>6, <2>1, DroppedSays
  <2>3. l \subseteq KnownBy(c) \cup ag
    <3> SUFFICES ASSUME NEW f \in l, f \notin ag PROVE f \in KnownBy(c)
      OBVIOUS
    <3>1. f \in KnownBy(e) /\ f \in Facts
      BY DEF Cover
    <3>2. f \in e[d].facts => Says(e, d, f)
      BY <1>6 DEF Says
    <3> QED BY <1>3, <2>2, <3>1, <3>2
  <2>4. SameAs(c, td)
    BY <2>2 DEF Cover, SameAs
  <2>5. \A more \in Seq(Ids(n)) : Covers(e, ag, more) => Covers(c, ag, more)
    BY <1>3, <1>6, <2>1, DeleteCovers
  <2> QED BY <1>5, <2>1, <2>3, <2>4, <2>5 DEF Cover
<1> QED BY <1>4, <1>5, <1>6

\* A delete by cleanup.
LEMMA CoverCleaned ==
  ASSUME NEW e, NEW n \in Nat, NEW t \in Nat, Indexes(e, n, t), NEW d \in DOMAIN e,
         NEW l, NEW ag, NEW td, NEW dm, NEW at, Work(td, dm, n, t), Cover(l, e, ag, td, dm, at)
  PROVE  Cover(l, Without(e, d), ag \cup e[d].facts, td, dm, at)
<1>1. PICK c : c = Without(e, d)
  OBVIOUS
<1>2. /\ \A g : Agrees(e, g) => Agrees(c, g)
      /\ \A f \in KnownBy(e) : f \in KnownBy(c) \/ f \in e[d].facts
  BY <1>1, DroppedSays
<1>3. ASSUME NEW w \in Merging(at) PROVE Covers(c, ag \cup e[d].facts, dm[w])
  <2>1. PICK ids \in Seq(Ids(n)) : ids = dm[w]
    BY WorkersAre DEF Work, Merging
  <2>2. Covers(e, ag, ids)
    BY <2>1 DEF Cover
  <2> QED BY <1>1, <2>1, <2>2, CleanupCovers
<1>4. l \subseteq KnownBy(c) \cup (ag \cup e[d].facts) /\ SameAs(c, td)
  BY <1>2 DEF Cover, SameAs
<1> QED BY <1>1, <1>3, <1>4 DEF Cover

\* Groups of memories as they are indexed.
LEMMA CoverListed ==
  ASSUME NEW e, NEW n, NEW t, NEW l, NEW ag, NEW td, NEW dm, NEW at, Work(td, dm, n, t),
         Cover(l, e, ag, td, dm, at), NEW w \in Workers,
         NEW M, \A m \in M : m.id \in DOMAIN e /\ e[m.id] = m, NEW gs \in Seq(GroupsOf(M))
  PROVE  Cover(l, e, ag, [td EXCEPT ![w] = gs], dm, at)
<1>1. ASSUME NEW i \in 1..Len(gs) PROVE Agrees(e, gs[i])
  <2>1. PICK g \in Seq(M) : g = gs[i]
    BY DEF GroupsOf
  <2>2. \A j \in 1..Len(g) : g[j] \in M
    OBVIOUS
  <2> QED BY <2>1, <2>2 DEF Agrees
<1> DEFINE tn == [td EXCEPT ![w] = gs]
<1>2. \A v \in Workers : tn[v] = IF v = w THEN gs ELSE td[v]
  BY DEF Work
<1> HIDE DEF tn
<1>3. SameAs(e, tn)
  BY <1>1, <1>2 DEF SameAs, Cover
<1> QED BY <1>3 DEF Cover, tn

LEMMA CoverStep == RunInv /\ RestInv /\ StoreInv /\ CoverInv /\ [Next]_vars => CoverInv'
<1> SUFFICES ASSUME RunInv, RestInv, StoreInv, CoverInv, [Next]_vars, maintained'
             PROVE  Cover(learned', entries', aged', todo', doomed', pass')
  BY DEF CoverInv
<1>1. maintained
  BY DEF Next, vars, config, Begin, RunEnds, Learn, Close, StartPass, PassMerges, PassDeletes,
    CleanupDeletes, EndMerges, EndDeletes, ListOld, EndPass, CallEnd, Stopped, ListSession, EndReturns,
    Tick, Restart
<1>0. PICK td, dm, e, l, ag, at : td = todo /\ dm = doomed /\ e = entries /\ l = learned /\ ag = aged /\ at = pass
  OBVIOUS
<1>2. PICK n \in Nat, t \in Nat :
        /\ n = merges /\ t = now
        /\ td = todo /\ dm = doomed /\ e = entries /\ l = learned /\ ag = aged /\ at = pass
  BY <1>0, AgentAssumption DEF StoreInv
<1>3. Cover(l, e, ag, td, dm, at) /\ Work(td, dm, n, t) /\ l \subseteq Facts
  BY <1>1, <1>2 DEF CoverInv, StoreInv
<1>4. Indexes(e, n, t) /\ Kept(entries, order, file, n, t)
  BY <1>2 DEF StoreInv, Kept, Indexes
<1>5. /\ "end" \in Workers /\ \A m \in Maintainers : m \in Workers /\ m # "end"
      /\ at \in [Maintainers -> {"idle", "compact", "cleanup"}]
  BY <1>2, WorkersAre DEF RestInv
<1>6. ASSUME NEW m \in Maintainers, NEW x \in {"idle", "cleanup"}
      PROVE  \A w \in Merging([at EXCEPT ![m] = x]) : w # m /\ w \in Merging(at)
  BY <1>5 DEF Merging
<1>8. ASSUME NEW r \in Runs, (\E s \in Sessions : Begin(r, s)) \/ RunEnds(r) \/ Close(r)
      PROVE  Cover(learned', entries', aged', todo', doomed', pass')
  <2>1. UNCHANGED <<learned, entries, aged, todo, doomed, pass>>
    BY <1>8 DEF Begin, RunEnds, Close, storeVars, workVars, history
  <2> QED BY <1>2, <1>3, <2>1
<1>9. ASSUME CallEnd \/ Stopped \/ EndReturns \/ Tick \/ UNCHANGED vars
      PROVE  Cover(learned', entries', aged', todo', doomed', pass')
  <2>1. UNCHANGED <<learned, entries, aged, todo, doomed, pass>>
    BY <1>9 DEF CallEnd, Stopped, EndReturns, Tick, vars, storeVars, workVars, history
  <2> QED BY <1>2, <1>3, <2>1
<1>10. ASSUME NEW r \in Runs, Learn(r)
       PROVE  Cover(learned', entries', aged', todo', doomed', pass')
  <2>1. UNCHANGED <<aged, todo, doomed, pass>>
    BY <1>10 DEF Learn, workVars
  <2>2. CASE UNCHANGED <<storeVars, learned>>
    BY <1>2, <1>3, <2>1, <2>2 DEF storeVars
  <2>3. ASSUME NEW f \in Facts, Store(Memory(f, {f}, sess[r], now)), learned' = learned \cup {f}
        PROVE  Cover(learned', entries', aged', todo', doomed', pass')
    <3>0. PICK m : m = Memory(f, {f}, sess[r], now)
      OBVIOUS
    <3>1. m = Memory(f, {f}, sess[r], now) /\ m.id = f /\ m.facts = {f}
      BY <3>0 DEF Memory
    <3>2. entries' = With(e, m) /\ learned' = l \cup m.facts
      BY <1>2, <2>3, <3>1 DEF Store
    <3>3. m.id \in Facts /\ m.facts = {m.id}
      BY <3>1
    <3>4. Cover(l \cup m.facts, With(e, m), ag, td, dm, at)
      BY <1>3, <1>4, <3>3, CoverStored
    <3> QED BY <1>2, <2>1, <3>2, <3>4
  <2> QED BY <1>10, <2>2, <2>3 DEF Learn
<1>11. ASSUME NEW m \in Maintainers, StartPass(m)
       PROVE  Cover(learned', entries', aged', todo', doomed', pass')
  <2>1. /\ UNCHANGED <<learned, entries, aged, doomed>> /\ pass[m] = "idle"
        /\ pass' = [at EXCEPT ![m] = "compact"]
        /\ todo' = [td EXCEPT ![m] = Groups(List)]
    BY <1>2, <1>11 DEF StartPass, storeVars, history
  <2>2. dm[m] = <<>>
    BY <1>2, <2>1 DEF RestInv, Settled
  <2>3. PICK M : M = Indexed
    OBVIOUS
  <2>4. PICK gs \in Seq(GroupsOf(M)) : gs = Groups(List)
    BY <1>4, <2>3, ListedIs
  <2>5. \A x \in M : x.id \in DOMAIN e /\ e[x.id] = x
    BY <1>2, <1>4, <2>3, ListedIs
  <2>6. PICK an : an = [at EXCEPT ![m] = "compact"]
    OBVIOUS
  <2>7. \A w \in Merging(an) : w \in Merging(at) \/ dm[w] = <<>>
    BY <1>5, <2>2, <2>6 DEF Merging
  <2>8. Cover(l, e, ag, td, dm, an)
    BY <1>3, <2>7, CoverMoved
  <2>9. Cover(l, e, ag, [td EXCEPT ![m] = gs], dm, an)
    BY <1>3, <1>5, <2>5, <2>8, CoverListed
  <2> QED BY <1>2, <2>1, <2>4, <2>6, <2>9
<1>12. ASSUME ListSession
       PROVE  Cover(learned', entries', aged', todo', doomed', pass')
  <2> DEFINE I == {i \in 1..Len(List) : List[i].sess = Session}
  <2>1. /\ UNCHANGED <<learned, entries, aged, doomed, pass>>
        /\ todo' = [td EXCEPT !["end"] = Groups(Picked(List, I))]
    BY <1>2, <1>12 DEF ListSession, storeVars, history
  <2>2. I \in SUBSET (1..Len(List))
    OBVIOUS
  <2> HIDE DEF I
  <2>3. PICK M : M = Indexed
    OBVIOUS
  <2>4. PICK gs \in Seq(GroupsOf(M)) : gs = Groups(Picked(List, I))
    BY <1>4, <2>2, <2>3, ListedIs
  <2>5. \A m \in M : m.id \in DOMAIN e /\ e[m.id] = m
    BY <1>2, <1>4, <2>3, ListedIs
  <2>6. Cover(l, e, ag, [td EXCEPT !["end"] = gs], dm, at)
    BY <1>3, <1>5, <2>5, CoverListed
  <2> QED BY <1>2, <2>1, <2>4, <2>6
<1>13. ASSUME NEW m \in Maintainers, ListOld(m)
       PROVE  Cover(learned', entries', aged', todo', doomed', pass')
  <2>1. /\ UNCHANGED <<learned, entries, aged, todo>> /\ pass' = [at EXCEPT ![m] = "cleanup"]
        /\ \A w \in Workers \ {m} : doomed'[w] = dm[w]
    BY <1>2, <1>5, <1>13 DEF ListOld, storeVars, history, RestInv
  <2>2. PICK an : an = [at EXCEPT ![m] = "cleanup"]
    OBVIOUS
  <2>3. \A w \in Merging(an) : w # m /\ w \in Merging(at)
    BY <1>6, <2>2
  <2>4. Cover(l, e, ag, td, dm, an)
    BY <1>3, <2>3, CoverMoved
  <2>5. \A w \in Merging(an) : doomed'[w] = dm[w]
    BY <1>5, <2>1, <2>3 DEF Merging
  <2> QED BY <1>2, <2>1, <2>2, <2>4, <2>5 DEF Cover
<1>14. ASSUME NEW m \in Maintainers, EndPass(m)
       PROVE  Cover(learned', entries', aged', todo', doomed', pass')
  <2>1. UNCHANGED <<learned, entries, aged, todo, doomed>> /\ pass' = [at EXCEPT ![m] = "idle"]
    BY <1>2, <1>14 DEF EndPass, storeVars, history
  <2>2. PICK an : an = [at EXCEPT ![m] = "idle"]
    OBVIOUS
  <2>3. \A w \in Merging(an) : w \in Merging(at)
    BY <1>6, <2>2
  <2>4. Cover(l, e, ag, td, dm, an)
    BY <1>3, <2>3, CoverMoved
  <2> QED BY <1>2, <2>1, <2>2, <2>4
<1>15. ASSUME NEW w \in Workers, NEW fails1 \in BOOLEAN, MergeGroup(w, fails1), UNCHANGED <<learned, aged>>
       PROVE  /\ Cover(learned', entries', aged', todo', doomed', at)
              /\ fails1 => UNCHANGED doomed
              /\ dm[w] = <<>>
  <2>1. td[w] # <<>> /\ dm[w] = <<>>
    BY <1>2, <1>15 DEF MergeGroup
  <2>2. CASE fails1
    <3>1. /\ UNCHANGED <<entries, doomed>>
          /\ todo' = [td EXCEPT ![w] = <<>>] \/ todo' = [td EXCEPT ![w] = Tail(@)]
      BY <1>2, <1>15, <2>2 DEF MergeGroup, storeVars
    <3>2. /\ Cover(l, e, ag, [td EXCEPT ![w] = <<>>], dm, at)
          /\ Cover(l, e, ag, [td EXCEPT ![w] = Tail(@)], dm, at)
      BY <1>3, <2>1, CoverFewer
    <3> QED BY <1>2, <1>15, <2>1, <3>1, <3>2
  <2>3. CASE ~fails1
    <3>1. PICK g \in GroupsOf(Mem(n, t)) : g = Head(td[w])
      <4>1. td[w] \in Seq(GroupsOf(Mem(n, t)))
        BY <1>3 DEF Work
      <4> QED BY <2>1, <4>1, TailIs
    <3>2. PICK m : m = Merged(g)
      OBVIOUS
    <3>3. m.id = n + 1 /\ n + 1 \notin Facts /\ m.facts = FactsOf(g)
      BY <1>2, <3>2, MergedIs
    <3>4. /\ entries' = With(e, m)
          /\ todo' = [td EXCEPT ![w] = Tail(@)] /\ doomed' = [dm EXCEPT ![w] = IdsOf(g)]
      BY <1>2, <1>15, <2>3, <3>1, <3>2 DEF MergeGroup, Store
    <3>5. Cover(l, With(e, m), ag, [td EXCEPT ![w] = Tail(@)], [dm EXCEPT ![w] = IdsOf(g)], at)
      BY <1>3, <1>4, <2>1, <3>1, <3>3, CoverMerged
    <3> QED BY <1>2, <1>15, <2>1, <2>3, <3>4, <3>5
  <2> QED BY <2>2, <2>3
<1>16. ASSUME NEW m \in Maintainers, NEW fails1 \in BOOLEAN, PassMerges(m, fails1)
       PROVE  Cover(learned', entries', aged', todo', doomed', pass')
  <2>1. /\ MergeGroup(m, fails1) /\ UNCHANGED <<learned, aged>>
        /\ pass' = IF fails1 THEN [at EXCEPT ![m] = "idle"] ELSE at
    BY <1>2, <1>16 DEF PassMerges, history
  <2>2. Cover(learned', entries', aged', todo', doomed', at)
    BY <1>5, <1>15, <2>1
  <2>3. PICK tn, dn, en, ln, gn : tn = todo' /\ dn = doomed' /\ en = entries' /\ ln = learned' /\ gn = aged'
    OBVIOUS
  <2>4. PICK an : an = [at EXCEPT ![m] = "idle"]
    OBVIOUS
  <2>5. \A w \in Merging(an) : w \in Merging(at)
    BY <1>6, <2>4
  <2>6. Cover(ln, en, gn, tn, dn, an)
    BY <2>2, <2>3, <2>5, CoverMoved
  <2> QED BY <2>1, <2>2, <2>3, <2>4, <2>6
<1>17. ASSUME NEW fails1 \in BOOLEAN, EndMerges(fails1)
       PROVE  Cover(learned', entries', aged', todo', doomed', pass')
  <2>1. MergeGroup("end", fails1) /\ UNCHANGED <<learned, aged, pass>>
    BY <1>1, <1>17 DEF EndMerges, history
  <2> QED BY <1>2, <1>5, <1>15, <2>1
<1>18. ASSUME NEW w \in Workers, NEW fails1 \in BOOLEAN, DeleteOne(w, fails1),
              w \in Merging(at), UNCHANGED <<learned, aged, todo, pass>>
       PROVE  Cover(learned', entries', aged', todo', doomed', pass')
  <2>1. PICK d : d = Head(dm[w])
    OBVIOUS
  <2>2. dm[w] # <<>> /\ doomed' = [dm EXCEPT ![w] = Tail(@)] /\ Delete(d, fails1)
    BY <1>2, <1>18, <2>1 DEF DeleteOne
  <2>3. IF d \in DOMAIN e THEN entries' = Without(e, d) ELSE entries' = e
    BY <1>2, <2>2 DEF Delete, storeVars
  <2>4. /\ Cover(l, e, ag, td, [dm EXCEPT ![w] = Tail(@)], at)
        /\ d \in DOMAIN e => Cover(l, Without(e, d), ag, td, [dm EXCEPT ![w] = Tail(@)], at)
    BY <1>3, <1>4, <1>18, <2>1, <2>2, CoverDeleted
  <2> QED BY <1>2, <1>18, <2>2, <2>3, <2>4
<1>19. ASSUME NEW fails1 \in BOOLEAN, EndDeletes(fails1) \/ \E m \in Maintainers : PassDeletes(m, fails1)
       PROVE  Cover(learned', entries', aged', todo', doomed', pass')
  <2>1. /\ UNCHANGED <<learned, aged, todo, pass>>
        /\ \E w \in Workers : DeleteOne(w, fails1) /\ w \in Merging(at)
    BY <1>2, <1>5, <1>19 DEF PassDeletes, EndDeletes, history, Merging
  <2> QED BY <1>18, <2>1
<1>20. ASSUME NEW m \in Maintainers, NEW fails1 \in BOOLEAN, CleanupDeletes(m, fails1)
       PROVE  Cover(learned', entries', aged', todo', doomed', pass')
  <2>1. PICK d : d = Head(dm[m])
    OBVIOUS
  <2>2. /\ UNCHANGED <<learned, todo, pass>> /\ at[m] = "cleanup" /\ Delete(d, fails1)
        /\ doomed' = [dm EXCEPT ![m] = Tail(@)]
        /\ aged' = IF d \in DOMAIN e THEN ag \cup e[d].facts ELSE ag
    BY <1>2, <1>20, <2>1 DEF CleanupDeletes, DeleteOne
  <2>3. IF d \in DOMAIN e THEN entries' = Without(e, d) ELSE entries' = e
    BY <1>2, <2>2 DEF Delete, storeVars
  <2>4. \A w \in Merging(at) : doomed'[w] = dm[w]
    BY <1>2, <1>5, <2>2 DEF RestInv, Merging
  <2>5. Cover(l, e, ag, td, dm, at)
        /\ (d \in DOMAIN e => Cover(l, Without(e, d), ag \cup e[d].facts, td, dm, at))
    BY <1>3, <1>4, CoverCleaned
  <2>6. Cover(l, entries', aged', td, dm, at)
    BY <2>2, <2>3, <2>5
  <2> QED BY <1>2, <2>2, <2>4, <2>6 DEF Cover
<1>21. ASSUME Restart
       PROVE  Cover(learned', entries', aged', todo', doomed', pass')
  <2>1. /\ entries' = Index(file) /\ UNCHANGED <<learned, aged>>
        /\ todo' = [w \in Workers |-> <<>>] /\ doomed' = [w \in Workers |-> <<>>]
    BY <1>21 DEF Restart, Load
  <2>2. \A id \in DOMAIN e : id \in DOMAIN entries' /\ entries'[id] = e[id]
    BY <1>2, <1>4, <2>1 DEF Kept, Found
  <2>3. KnownBy(e) \subseteq KnownBy(entries')
    BY <2>2 DEF KnownBy
  <2>4. \A w \in Workers : todo'[w] = <<>> /\ doomed'[w] = <<>>
    BY <2>1
  <2>5. \A w \in Merging(pass') : doomed'[w] = <<>>
    BY <1>5, <2>4 DEF Merging
  <2> QED BY <1>2, <1>3, <2>1, <2>3, <2>4, <2>5 DEF Cover, SameAs, Covers
<1> QED BY <1>8, <1>9, <1>10, <1>11, <1>12, <1>13, <1>14, <1>16, <1>17, <1>19, <1>20, <1>21 DEF Next

\* With a maintainer, whatever a run has stored stays known, in some memory of the store,
\* until cleanup drops a memory that says it: passes of several maintainers and EndSession
\* that compact the same memories side by side, store failures between a merge and its
\* deletes, memories learned again while they are being merged, and restarts lose nothing
\* (maintainer.go:156-158).
THEOREM NothingIsForgotten == Spec => []NothingForgotten
<1>1. Init => RunInv /\ RestInv /\ StoreInv /\ CoverInv
  BY RunInit, RestInit, StoreInit, CoverInit
<1>2. RunInv /\ RestInv /\ StoreInv /\ CoverInv /\ [Next]_vars => (RunInv /\ RestInv /\ StoreInv /\ CoverInv)'
  BY RunStep, RestStep, StoreStep, CoverStep
<1>3. RunInv /\ RestInv /\ StoreInv /\ CoverInv => NothingForgotten
  BY DEF CoverInv, Cover, KnownBy, NothingForgotten, Known
<1> QED BY <1>1, <1>2, <1>3, PTL DEF Spec
=============================================================================
