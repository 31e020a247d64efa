------------------------- MODULE ActivityBusProofs -------------------------
(***************************************************************************)
(* Proofs about the activity bus, for every value of its constants.        *)
(***************************************************************************)
EXTENDS ActivityBus, NatSetInduction, SequenceTheorems, FiniteSetTheorems, TLAPS

-----------------------------------------------------------------------------
(* What the replay loop returns.                                           *)

\* f is the loop of Newer over the first k events of r.
Loop(f, r, after, k) ==
  f = [i \in 0..k |-> IF i = 0 THEN <<>>
                      ELSE IF r[i] > after THEN Append(f[i - 1], r[i])
                      ELSE f[i - 1]]

\* The loop is defined for a ring of any length.
LEMMA LoopExists ==
  ASSUME NEW r, NEW after, NEW n \in Nat
  PROVE  \E f : Loop(f, r, after, n)
<1> DEFINE S == {k \in Nat : \E f : Loop(f, r, after, k)}
<1>1. 0 \in S
  <2>1. Loop([i \in 0..0 |-> <<>>], r, after, 0)
    BY DEF Loop
  <2> QED BY <2>1
<1>2. ASSUME NEW k \in 0..(n - 1), k \in S PROVE k + 1 \in S
  <2>1. PICK f : Loop(f, r, after, k)
    BY <1>2
  <2> DEFINE g == [i \in 0..(k + 1) |->
                     IF i <= k THEN f[i]
                     ELSE IF r[i] > after THEN Append(f[i - 1], r[i])
                     ELSE f[i - 1]]
  <2>2. \A i \in 0..k : f[i] = IF i = 0 THEN <<>>
                               ELSE IF r[i] > after THEN Append(f[i - 1], r[i])
                               ELSE f[i - 1]
    BY <2>1 DEF Loop
  <2>3. \A i \in 0..(k + 1) : g[i] = IF i = 0 THEN <<>>
                                     ELSE IF r[i] > after THEN Append(g[i - 1], r[i])
                                     ELSE g[i - 1]
    BY <2>2
  <2>4. Loop(g, r, after, k + 1)
    BY <2>3, Zenon DEF Loop
  <2> QED BY <2>4
<1>3. n \in S
  <2> HIDE DEF S
  <2> QED BY <1>1, <1>2, BoundedInduction
<1> QED BY <1>3

\* The replay is a sequence of the ring's events, no longer than the ring.
LEMMA NewerType ==
  ASSUME NEW r \in Seq(Ids), NEW after \in Int
  PROVE  Newer(r, after) \in Seq(Ids) /\ Len(Newer(r, after)) <= Len(r)
<1> DEFINE f == CHOOSE g : Loop(g, r, after, Len(r))
           S == {i \in 0..Len(r) : f[i] \in Seq(Ids) /\ Len(f[i]) <= i}
<1>1. Len(r) \in Nat
  OBVIOUS
<1>2. Loop(f, r, after, Len(r))
  BY <1>1, LoopExists
<1> HIDE DEF f
<1>3. \A i \in 0..Len(r) : f[i] = IF i = 0 THEN <<>>
                                  ELSE IF r[i] > after THEN Append(f[i - 1], r[i])
                                  ELSE f[i - 1]
  BY <1>2 DEF Loop
<1>4. 0 \in S
  <2>1. f[0] = <<>>
    BY <1>1, <1>3
  <2>2. f[0] \in Seq(Ids) /\ Len(f[0]) <= 0
    BY <2>1, EmptySeq
  <2> QED BY <1>1, <2>2
<1>5. ASSUME NEW k \in 0..(Len(r) - 1), k \in S PROVE k + 1 \in S
  <2>1. k + 1 \in 1..Len(r) /\ r[k + 1] \in Ids
    BY <1>1, ElementOfSeq
  <2>2. f[k + 1] = IF r[k + 1] > after THEN Append(f[k], r[k + 1]) ELSE f[k]
    BY <1>3, <2>1
  <2>3. f[k] \in Seq(Ids) /\ Len(f[k]) <= k
    BY <1>5
  <2>4. f[k + 1] \in Seq(Ids) /\ Len(f[k + 1]) <= k + 1
    <3> HIDE DEF S
    <3>1. Append(f[k], r[k + 1]) \in Seq(Ids) /\ Len(Append(f[k], r[k + 1])) = Len(f[k]) + 1
      BY <2>1, <2>3, AppendProperties
    <3>2. Len(f[k]) \in Nat
      BY <2>3, LenProperties
    <3> QED BY <2>2, <2>3, <3>1, <3>2
  <2> QED BY <2>1, <2>4
<1>6. Len(r) \in S
  <2> HIDE DEF S
  <2>1. \A k \in 0..Len(r) : k \in S
    BY <1>1, <1>4, <1>5, BoundedInduction
  <2> QED BY <1>1, <2>1
<1>7. Newer(r, after) = IF after = NoID THEN <<>> ELSE f[Len(r)]
  BY Zenon DEF Newer, Loop, f
<1> QED BY <1>6, <1>7

-----------------------------------------------------------------------------
(* The helpers of the session table.                                       *)

\* Recording keeps a ring a sequence of ids within BufferSize.
LEMMA RecordType ==
  ASSUME NEW r \in Seq(Ids), NEW e \in Ids
  PROVE  /\ Record(r, e) \in Seq(Ids)
         /\ Len(r) <= BufferSize => Len(Record(r, e)) <= BufferSize
<1> DEFINE q == Append(r, e)
<1>1. q \in Seq(Ids) /\ Len(q) = Len(r) + 1 /\ Len(r) \in Nat
  BY AppendProperties, LenProperties
<1>2. BufferSize \in Nat /\ BufferSize > 0
  BY ConfigAssumption
<1> HIDE DEF q
<1>3. CASE Len(q) > BufferSize
  <2> DEFINE m == Len(q) - BufferSize + 1
  <2>1. Record(r, e) = SubSeq(q, m, Len(q))
    BY <1>3 DEF Record, q
  <2>2. \A i \in m..Len(q) : q[i] \in Ids
    BY <1>1, <1>2, <1>3, ElementOfSeq
  <2>3. m \in Int /\ Len(q) \in Int
    BY <1>1, <1>2
  <2> HIDE DEF m
  <2>4. SubSeq(q, m, Len(q)) \in Seq(Ids)
        /\ Len(SubSeq(q, m, Len(q))) = IF m <= Len(q) THEN Len(q) - m + 1 ELSE 0
    BY <2>2, <2>3, SubSeqProperties
  <2> QED BY <1>1, <1>2, <1>3, <2>1, <2>4 DEF m
<1>4. CASE ~ (Len(q) > BufferSize)
  BY <1>1, <1>2, <1>4 DEF Record, q
<1> QED BY <1>3, <1>4

\* An updated column of the session table keeps its type.
LEMMA SetType ==
  ASSUME NEW T, NEW f \in [Sessions -> T], NEW fresh \in T, NEW gone, NEW s, NEW x \in T
  PROVE  Set(f, fresh, gone, s, x) \in [Sessions -> T]
BY DEF Set

\* Only idle sessions of the table are evicted.
LEMMA EvictionsIdle ==
  ASSUME NEW s, NEW gone \in Evictions(s)
  PROVE  /\ gone \subseteq Idle
         /\ s \in known => gone = {}
BY DEF Evictions, Evictable, Oldest

\* Stamps are natural numbers.
LEMMA NowType ==
  ASSUME TypeOK
  PROVE  Now \in Nat
<1>1. IsFiniteSet(Called)
  BY BoundAssumption, FS_Subset DEF Called
<1>2. Cardinality(Called) \in Nat
  BY <1>1, FS_CardinalityType
<1> QED BY <1>2 DEF TypeOK, Now

-----------------------------------------------------------------------------
(* Type correctness.                                                       *)

\* A Last-Event-ID is an integer.
LEMMA LastEventIDType ==
  ASSUME TypeOK, NEW s \in Sessions
  PROVE  LastEventIDs(s) \subseteq Int
<1> SUFFICES ASSUME NEW g \in Subscribers, got[g] # <<>>
             PROVE  got[g][Len(got[g])] \in Int
  BY DEF LastEventIDs, NoID
<1>1. got[g] \in Seq(Ids)
  BY DEF TypeOK
<1>2. Len(got[g]) \in 1..Len(got[g])
  BY <1>1
<1>3. got[g][Len(got[g])] \in Ids
  BY <1>1, <1>2, ElementOfSeq
<1> QED BY <1>3, BoundAssumption DEF Ids

\* The initial state is type correct.
LEMMA TypeInit == Init => TypeOK
<1> SUFFICES ASSUME Init PROVE TypeOK
  OBVIOUS
<1>1. counter \in 0..MaxEvents
  BY BoundAssumption DEF Init
<1>0. closed \in BOOLEAN
  BY Zenon DEF Init
<1>2. /\ ring \in [Sessions -> Seq(Ids)]
      /\ buf \in [Subscribers -> Seq(Ids)]
      /\ got \in [Subscribers -> Seq(Ids)]
      /\ log \in [Sessions -> Seq(Ids)]
  BY EmptySeq DEF Init
<1>3. /\ inflight = {} /\ known = {}
      /\ subs \in [Sessions -> SUBSET Subscribers]
      /\ nextSubID \in [Sessions -> Nat]
      /\ lastActive \in [Sessions -> Nat]
      /\ sid \in [Subscribers -> Sessions \cup {NoSession}]
      /\ slot \in [Subscribers -> Nat]
      /\ open \in [Subscribers -> BOOLEAN]
      /\ once \in [Subscribers -> {"idle", "running", "done"}]
      /\ watcher \in [Subscribers -> {"none", "waiting", "cancelled", "exited"}]
  BY DEF Init
<1> QED BY <1>0, <1>1, <1>2, <1>3 DEF TypeOK

\* Publish is type correct.
LEMMA TypePublish ==
  ASSUME TypeOK, NEW e \in inflight, PublishLocked(e)
  PROVE  TypeOK'
<1>1. e.id \in Ids /\ e.sid \in Sessions /\ e.at \in Nat
  BY DEF TypeOK
<1>2. CASE closed
  BY <1>2 DEF PublishLocked, TypeOK
<1>3. CASE ~closed
  <2> DEFINE s == e.sid
             out == Severed(s)
  <2>1. PICK gone \in Evictions(s) :
          /\ known' = (known \ gone) \cup {s}
          /\ ring' = Set(ring, <<>>, gone, s, Record(ring[s], e.id))
          /\ subs' = Set(subs, {}, gone, s, subs[s] \ out)
          /\ nextSubID' = Set(nextSubID, 0, gone, s, nextSubID[s])
          /\ lastActive' = Set(lastActive, 0, gone, s, e.at)
          /\ buf' = [h \in Subscribers |->
                       IF h \in Reached(s) THEN Append(buf[h], e.id) ELSE buf[h]]
          /\ open' = [h \in Subscribers |-> open[h] /\ h \notin out]
          /\ log' = [log EXCEPT ![s] = Append(@, e.id)]
    BY <1>3 DEF PublishLocked
  <2>2. known' \subseteq Sessions
    BY <1>1, <2>1 DEF TypeOK
  <2>3. ring' \in [Sessions -> Seq(Ids)]
    <3>1. Record(ring[s], e.id) \in Seq(Ids)
      BY <1>1, RecordType DEF TypeOK
    <3> QED BY <2>1, <3>1, SetType, EmptySeq DEF TypeOK
  <2>4. subs' \in [Sessions -> SUBSET Subscribers]
    <3>1. subs[s] \ out \in SUBSET Subscribers
      BY <1>1 DEF TypeOK
    <3> QED BY <2>1, <3>1, SetType DEF TypeOK
  <2>5. nextSubID' \in [Sessions -> Nat] /\ lastActive' \in [Sessions -> Nat]
    <3>1. nextSubID[s] \in Nat
      BY <1>1 DEF TypeOK
    <3> QED BY <1>1, <2>1, <3>1, SetType DEF TypeOK
  <2>6. buf' \in [Subscribers -> Seq(Ids)]
    BY <1>1, <2>1, AppendProperties DEF TypeOK
  <2>7. open' \in [Subscribers -> BOOLEAN]
    BY <2>1, Zenon DEF TypeOK
  <2>8. log' \in [Sessions -> Seq(Ids)]
    BY <1>1, <2>1, AppendProperties DEF TypeOK
  <2>9. inflight' \subseteq inflight /\ UNCHANGED <<counter, closed, sid, slot, once, watcher, got>>
    BY DEF PublishLocked
  <2> QED BY <2>2, <2>3, <2>4, <2>5, <2>6, <2>7, <2>8, <2>9 DEF TypeOK
<1> QED BY <1>2, <1>3

\* Subscribe is type correct.
LEMMA TypeSubscribe ==
  ASSUME TypeOK, NEW h \in Subscribers, NEW s \in Sessions,
         NEW after \in LastEventIDs(s), NEW hasCtx \in BOOLEAN,
         Subscribe(h, s, after, hasCtx)
  PROVE  TypeOK'
<1> DEFINE id == nextSubID[s]
<1>1. PICK gone \in Evictions(s) :
        /\ known' = (known \ gone) \cup {s}
        /\ ring' = Set(ring, <<>>, gone, s, ring[s])
        /\ subs' = Set(subs, {}, gone, s, {g \in subs[s] : slot[g] # id} \cup {h})
        /\ nextSubID' = Set(nextSubID, 0, gone, s, id + 1)
        /\ lastActive' = Set(lastActive, 0, gone, s, Now)
        /\ slot' = [slot EXCEPT ![h] = id]
        /\ buf' = [buf EXCEPT ![h] = Newer(ring[s], after)]
  BY DEF Subscribe
<1>2. id \in Nat /\ id + 1 \in Nat /\ Now \in Nat
  <2>1. Now \in Nat
    BY NowType
  <2>2. nextSubID[s] \in Nat
    BY DEF TypeOK
  <2> QED BY <2>1, <2>2
<1>3. known' \subseteq Sessions
  BY <1>1 DEF TypeOK
<1>4. ring' \in [Sessions -> Seq(Ids)]
  <2>1. ring[s] \in Seq(Ids)
    BY DEF TypeOK
  <2> QED BY <1>1, <2>1, SetType, EmptySeq DEF TypeOK
<1>5. subs' \in [Sessions -> SUBSET Subscribers]
  <2>1. {g \in subs[s] : slot[g] # id} \cup {h} \in SUBSET Subscribers
    BY DEF TypeOK
  <2> QED BY <1>1, <2>1, SetType DEF TypeOK
<1>6. nextSubID' \in [Sessions -> Nat] /\ lastActive' \in [Sessions -> Nat]
  BY <1>1, <1>2, SetType DEF TypeOK
<1>7. slot' \in [Subscribers -> Nat]
  BY <1>1, <1>2 DEF TypeOK
<1>8. buf' \in [Subscribers -> Seq(Ids)]
  <2>1. Newer(ring[s], after) \in Seq(Ids)
    BY LastEventIDType, NewerType DEF TypeOK
  <2> QED BY <1>1, <2>1 DEF TypeOK
<1>9. /\ sid' \in [Subscribers -> Sessions \cup {NoSession}]
      /\ open' \in [Subscribers -> BOOLEAN]
      /\ watcher' \in [Subscribers -> {"none", "waiting", "cancelled", "exited"}]
      /\ UNCHANGED <<counter, inflight, closed, once, got, log>>
  BY DEF Subscribe, TypeOK, history
<1> QED BY <1>3, <1>4, <1>5, <1>6, <1>7, <1>8, <1>9 DEF TypeOK

\* Every step is type correct.
LEMMA TypeStep == TypeOK /\ [Next]_vars => TypeOK'
<1> SUFFICES ASSUME TypeOK, [Next]_vars PROVE TypeOK'
  OBVIOUS
<1>1. ASSUME NEW s \in Sessions, AssignID(s) PROVE TypeOK'
  <2>1. Now \in Nat
    BY NowType
  <2>2. counter + 1 \in Ids /\ counter + 1 \in 0..MaxEvents
    BY <1>1, BoundAssumption DEF AssignID, TypeOK, Ids
  <2>3. inflight' \subseteq [id : Ids, sid : Sessions, at : Nat]
    BY <1>1, <2>1, <2>2 DEF AssignID, TypeOK
  <2> QED BY <1>1, <2>2, <2>3 DEF AssignID, TypeOK, subVars, history
<1>2. ASSUME NEW e \in inflight, PublishLocked(e) PROVE TypeOK'
  BY <1>2, TypePublish
<1>3. ASSUME NEW h \in Subscribers, NEW s \in Sessions, SubscribeClosed(h, s) PROVE TypeOK'
  BY <1>3 DEF SubscribeClosed, TypeOK, busVars, history
<1>4. ASSUME NEW h \in Subscribers, NEW s \in Sessions,
             NEW after \in LastEventIDs(s), NEW hasCtx \in BOOLEAN,
             Subscribe(h, s, after, hasCtx)
      PROVE  TypeOK'
  BY <1>4, TypeSubscribe
<1>5. ASSUME NEW h \in Subscribers, BeginUnsub(h) PROVE TypeOK'
  BY <1>5 DEF BeginUnsub, TypeOK, busVars, history
<1>6. ASSUME NEW h \in Subscribers, UnsubLocked(h) PROVE TypeOK'
  BY <1>6 DEF UnsubLocked, TypeOK, history
<1>7. ASSUME NEW h \in Subscribers, CancelCtx(h) \/ WatcherExit(h) PROVE TypeOK'
  BY <1>7 DEF CancelCtx, WatcherExit, TypeOK, busVars, history
<1>8. ASSUME NEW h \in Subscribers, Receive(h) PROVE TypeOK'
  <2>1. buf[h] \in Seq(Ids) /\ buf[h] # <<>> /\ got[h] \in Seq(Ids)
    BY <1>8 DEF Receive, TypeOK
  <2>2. Head(buf[h]) \in Ids /\ Tail(buf[h]) \in Seq(Ids)
    BY <2>1, HeadTailProperties
  <2>3. Append(got[h], Head(buf[h])) \in Seq(Ids)
    BY <2>1, <2>2, AppendProperties
  <2> QED BY <1>8, <2>2, <2>3 DEF Receive, TypeOK, busVars
<1>9. ASSUME Close PROVE TypeOK'
  <2>1. ring' \in [Sessions -> Seq(Ids)]
    BY <1>9, EmptySeq DEF Close
  <2>2. open' \in [Subscribers -> BOOLEAN]
    BY <1>9, Zenon DEF Close, TypeOK
  <2> QED BY <1>9, <2>1, <2>2 DEF Close, TypeOK, history
<1>10. CASE UNCHANGED vars
  BY <1>10 DEF vars, busVars, subVars, history, TypeOK
<1> QED BY <1>1, <1>2, <1>3, <1>4, <1>5, <1>6, <1>7, <1>8, <1>9, <1>10
        DEF Next, ClientUnsub, WatcherUnsub

\* Every state of the bus has the types TypeOK gives: ids in range, channels and
\* rings sequences of ids (bus.go:76-102).
THEOREM TypeCorrect == Spec => []TypeOK
BY TypeInit, TypeStep, PTL DEF Spec

-----------------------------------------------------------------------------
(* Open channels are exactly the registered ones.                          *)

\* Publish keeps the registry: the sessions it evicts are idle, and what it
\* severs is closed and leaves the table in the same step.
LEMMA RegistryPublish ==
  ASSUME TypeOK, Registry, NEW e \in inflight, PublishLocked(e)
  PROVE  Registry'
<1>1. e.sid \in Sessions
  BY DEF TypeOK
<1>2. CASE closed
  BY <1>2 DEF PublishLocked, Registry
<1>3. CASE ~closed
  <2> DEFINE s == e.sid
             out == Severed(s)
  <2>1. PICK gone \in Evictions(s) :
          /\ known' = (known \ gone) \cup {s}
          /\ subs' = Set(subs, {}, gone, s, subs[s] \ out)
          /\ nextSubID' = Set(nextSubID, 0, gone, s, nextSubID[s])
          /\ open' = [h \in Subscribers |-> open[h] /\ h \notin out]
    BY <1>3 DEF PublishLocked
  <2>2. gone \subseteq Idle
    BY <2>1, EvictionsIdle
  <2>3. out \subseteq subs[s]
    BY DEF Severed
  <2> HIDE DEF out
  <2>4. \A t \in Sessions : subs'[t] = subs[t] \ out
    <3> SUFFICES ASSUME NEW t \in Sessions PROVE subs'[t] = subs[t] \ out
      OBVIOUS
    <3>1. CASE t = s
      BY <2>1, <3>1 DEF Set
    <3>2. CASE t # s /\ t \in gone
      BY <2>1, <2>2, <3>2 DEF Set, Idle
    <3>3. CASE t # s /\ t \notin gone
      <4>1. subs[t] \cap out = {}
        BY <1>1, <2>3, <3>3 DEF Registry
      <4> QED BY <2>1, <3>3, <4>1 DEF Set
    <3> QED BY <3>1, <3>2, <3>3
  <2>5. \A t \in Sessions : subs[t] # {} => nextSubID'[t] = nextSubID[t]
    BY <2>1, <2>2 DEF Set, Idle
  <2>6. sid' = sid /\ slot' = slot /\ once' = once /\ closed' = closed
    BY DEF PublishLocked
  <2>7. \A h \in Subscribers : open'[h] <=> open[h] /\ h \notin out
    BY <2>1, Zenon
  <2>8. \A t \in Sessions \ known' : subs'[t] = {}
    <3> SUFFICES ASSUME NEW t \in Sessions, t \notin known' PROVE subs[t] = {}
      BY <2>4
    <3>1. CASE t \in known
      <4>1. t \in gone
        BY <2>1, <3>1
      <4> QED BY <2>2, <4>1 DEF Idle
    <3>2. CASE t \notin known
      BY <1>1, <3>2 DEF Registry
    <3> QED BY <3>1, <3>2
  <2>9. \A t \in Sessions : \A h \in subs'[t] :
           /\ sid'[h] = t /\ open'[h] /\ slot'[h] < nextSubID'[t]
           /\ \A g \in subs'[t] : slot'[g] = slot'[h] => g = h
    <3> SUFFICES ASSUME NEW t \in Sessions, NEW h \in subs'[t]
                 PROVE  /\ sid'[h] = t /\ open'[h] /\ slot'[h] < nextSubID'[t]
                        /\ \A g \in subs'[t] : slot'[g] = slot'[h] => g = h
      OBVIOUS
    <3>1. h \in subs[t] /\ h \notin out /\ h \in Subscribers
      BY <2>4 DEF TypeOK
    <3>2. open'[h]
      BY <2>7, <3>1 DEF Registry
    <3>3. sid'[h] = t /\ slot'[h] < nextSubID'[t]
      BY <2>5, <2>6, <3>1 DEF Registry
    <3>4. \A g \in subs'[t] : slot'[g] = slot'[h] => g = h
      BY <2>4, <2>6, <3>1 DEF Registry
    <3> QED BY <3>2, <3>3, <3>4
  <2>10. \A h \in Subscribers : open'[h] => sid'[h] # NoSession /\ h \in subs'[sid'[h]]
    BY <2>4, <2>6, <2>7 DEF Registry, TypeOK
  <2> QED BY <1>3, <2>6, <2>8, <2>9, <2>10 DEF Registry
<1> QED BY <1>2, <1>3

\* Subscribe keeps the registry: the id it allocates is larger than every id the
\* session holds, so no entry is replaced.
LEMMA RegistrySubscribe ==
  ASSUME TypeOK, Registry, NEW h \in Subscribers, NEW s \in Sessions,
         NEW after \in LastEventIDs(s), NEW hasCtx \in BOOLEAN,
         Subscribe(h, s, after, hasCtx)
  PROVE  Registry'
<1> DEFINE id == nextSubID[s]
<1>1. PICK gone \in Evictions(s) :
        /\ known' = (known \ gone) \cup {s}
        /\ subs' = Set(subs, {}, gone, s, {g \in subs[s] : slot[g] # id} \cup {h})
        /\ nextSubID' = Set(nextSubID, 0, gone, s, id + 1)
        /\ slot' = [slot EXCEPT ![h] = id]
  BY DEF Subscribe
<1>2. /\ ~closed /\ closed' = closed /\ once' = once
      /\ sid[h] = NoSession
      /\ sid' = [sid EXCEPT ![h] = s]
      /\ open' = [open EXCEPT ![h] = TRUE]
  BY DEF Subscribe
<1>3. gone \subseteq Idle
  BY <1>1, EvictionsIdle
<1>4. id \in Nat /\ \A g \in subs[s] : slot[g] \in Nat /\ slot[g] < id
  BY DEF Registry, TypeOK
<1>5. \A t \in Sessions : h \notin subs[t]
  BY <1>2, NoSessionAssumption DEF Registry
<1>6. subs'[s] = subs[s] \cup {h}
  BY <1>1, <1>4 DEF Set
<1>7. \A t \in Sessions \ {s} : subs'[t] = subs[t]
  BY <1>1, <1>3 DEF Set, Idle
<1>8. nextSubID'[s] = id + 1 /\ \A t \in Sessions \ {s} : subs[t] # {} => nextSubID'[t] = nextSubID[t]
  BY <1>1, <1>3 DEF Set, Idle
<1>9. /\ sid'[h] = s /\ slot'[h] = id /\ open'[h]
      /\ \A g \in Subscribers \ {h} :
           sid'[g] = sid[g] /\ slot'[g] = slot[g] /\ (open'[g] <=> open[g])
  BY <1>1, <1>2, Zenon DEF TypeOK
<1>10. \A t \in Sessions \ known' : subs'[t] = {}
  BY <1>1, <1>3, <1>7 DEF Registry, Idle
<1>11. \A t \in Sessions : \A g \in subs'[t] :
         /\ sid'[g] = t /\ open'[g] /\ slot'[g] < nextSubID'[t]
         /\ \A k \in subs'[t] : slot'[k] = slot'[g] => k = g
  <2>1. ASSUME NEW t \in Sessions \ {s}, NEW g \in subs'[t]
        PROVE  /\ sid'[g] = t /\ open'[g] /\ slot'[g] < nextSubID'[t]
               /\ \A k \in subs'[t] : slot'[k] = slot'[g] => k = g
    <3>1. g \in subs[t] /\ g \in Subscribers \ {h}
      BY <1>5, <1>7, <2>1 DEF TypeOK
    <3>2. open'[g] /\ sid'[g] = t
      BY <1>9, <3>1 DEF Registry
    <3>3. slot'[g] < nextSubID'[t]
      BY <1>8, <1>9, <3>1 DEF Registry
    <3>4. \A k \in subs'[t] : slot'[k] = slot'[g] => k = g
      BY <1>5, <1>7, <1>9, <3>1 DEF Registry, TypeOK
    <3> QED BY <3>2, <3>3, <3>4
  <2>2. ASSUME NEW g \in subs'[s]
        PROVE  /\ sid'[g] = s /\ open'[g] /\ slot'[g] < nextSubID'[s]
               /\ \A k \in subs'[s] : slot'[k] = slot'[g] => k = g
    BY <1>4, <1>5, <1>6, <1>8, <1>9, <2>2 DEF Registry, TypeOK
  <2> QED BY <2>1, <2>2
<1>12. \A g \in Subscribers : open'[g] => sid'[g] # NoSession /\ g \in subs'[sid'[g]]
  BY <1>2, <1>6, <1>7, <1>9, NoSessionAssumption DEF Registry, TypeOK
<1>13. \A g \in Subscribers : once'[g] # "idle" => sid'[g] # NoSession
  BY <1>2, <1>9, NoSessionAssumption DEF Registry
<1> QED BY <1>2, <1>10, <1>11, <1>12, <1>13 DEF Registry

\* unsub keeps the registry: what its lookup finds is closed and removed together.
LEMMA RegistryUnsub ==
  ASSUME TypeOK, Registry, NEW h \in Subscribers, UnsubLocked(h)
  PROVE  Registry'
<1> DEFINE out == SubsAt(h)
<1>1. sid[h] \in Sessions
  BY DEF Registry, TypeOK, UnsubLocked
<1>2. out \subseteq subs[sid[h]]
  BY DEF SubsAt
<1>3. /\ subs' = [subs EXCEPT ![sid[h]] = @ \ out]
      /\ open' = [g \in Subscribers |-> open[g] /\ g \notin out]
      /\ \A g \in Subscribers : once'[g] # "idle" => sid[g] # NoSession
      /\ UNCHANGED <<closed, known, sid, slot, nextSubID>>
  BY DEF UnsubLocked, Registry, TypeOK
<1> HIDE DEF out
<1>4. \A t \in Sessions : subs'[t] = subs[t] \ out
  BY <1>1, <1>2, <1>3 DEF Registry, TypeOK
<1>5. \A g \in Subscribers : open'[g] <=> open[g] /\ g \notin out
  BY <1>3, Zenon
<1>6. \A t \in Sessions : \A g \in subs'[t] :
         /\ sid'[g] = t /\ open'[g] /\ slot'[g] < nextSubID'[t]
         /\ \A k \in subs'[t] : slot'[k] = slot'[g] => k = g
  BY <1>3, <1>4, <1>5 DEF Registry, TypeOK
<1>7. \A g \in Subscribers : open'[g] => sid'[g] # NoSession /\ g \in subs'[sid'[g]]
  BY <1>3, <1>4, <1>5 DEF Registry, TypeOK
<1> QED BY <1>3, <1>4, <1>6, <1>7 DEF Registry

\* Every step keeps the registry.
LEMMA RegistryStep == TypeOK /\ Registry /\ [Next]_vars => Registry'
<1> SUFFICES ASSUME TypeOK, Registry, [Next]_vars PROVE Registry'
  OBVIOUS
<1>1. ASSUME NEW s \in Sessions, AssignID(s) PROVE Registry'
  BY <1>1 DEF AssignID, Registry, subVars
<1>2. ASSUME NEW e \in inflight, PublishLocked(e) PROVE Registry'
  BY <1>2, RegistryPublish
<1>3. ASSUME NEW h \in Subscribers, NEW s \in Sessions, SubscribeClosed(h, s) PROVE Registry'
  <2>1. ~open[h] /\ \A t \in Sessions : h \notin subs[t]
    BY <1>3, NoSessionAssumption DEF SubscribeClosed, Registry
  <2>2. /\ \A g \in Subscribers \ {h} : sid'[g] = sid[g] /\ once'[g] = once[g]
        /\ sid'[h] = s
        /\ UNCHANGED <<closed, known, subs, nextSubID, slot, open>>
    BY <1>3 DEF SubscribeClosed, TypeOK, busVars
  <2>3. \A t \in Sessions : \A g \in subs[t] : g \in Subscribers \ {h}
    BY <2>1 DEF TypeOK
  <2>4. \A g \in Subscribers : once'[g] # "idle" => sid'[g] # NoSession
    BY <2>2, NoSessionAssumption DEF Registry
  <2> QED BY <2>1, <2>2, <2>3, <2>4 DEF Registry
<1>4. ASSUME NEW h \in Subscribers, NEW s \in Sessions,
             NEW after \in LastEventIDs(s), NEW hasCtx \in BOOLEAN,
             Subscribe(h, s, after, hasCtx)
      PROVE  Registry'
  BY <1>4, RegistrySubscribe
<1>5. ASSUME NEW h \in Subscribers, BeginUnsub(h) PROVE Registry'
  <2>1. \A g \in Subscribers : once'[g] # "idle" => sid[g] # NoSession
    BY <1>5 DEF BeginUnsub, Registry, TypeOK
  <2> QED BY <1>5, <2>1 DEF BeginUnsub, Registry, busVars
<1>6. ASSUME NEW h \in Subscribers, UnsubLocked(h) PROVE Registry'
  BY <1>6, RegistryUnsub
<1>7. ASSUME NEW h \in Subscribers, CancelCtx(h) \/ WatcherExit(h) \/ Receive(h) PROVE Registry'
  BY <1>7 DEF CancelCtx, WatcherExit, Receive, Registry, busVars
<1>8. ASSUME Close PROVE Registry'
  <2>1. \A h \in Subscribers : ~open'[h]
    <3> SUFFICES ASSUME NEW h \in Subscribers, open[h]
                 PROVE  h \in UNION {subs[s] : s \in known}
      BY <1>8, Zenon DEF Close
    <3>1. sid[h] \in Sessions /\ h \in subs[sid[h]]
      BY DEF Registry, TypeOK
    <3>2. sid[h] \in known
      BY <3>1 DEF Registry
    <3> QED BY <3>1, <3>2
  <2>2. closed' /\ known' = {} /\ \A t \in Sessions : subs'[t] = {}
    BY <1>8 DEF Close
  <2>3. \A g \in Subscribers : once'[g] # "idle" => sid'[g] # NoSession
    BY <1>8 DEF Close, Registry
  <2> QED BY <2>1, <2>2, <2>3, Zenon DEF Registry
<1>9. CASE UNCHANGED vars
  BY <1>9 DEF vars, busVars, subVars, Registry
<1> QED BY <1>1, <1>2, <1>3, <1>4, <1>5, <1>6, <1>7, <1>8, <1>9
        DEF Next, ClientUnsub, WatcherUnsub

LEMMA RegistryInit == Init => Registry
BY Zenon DEF Init, Registry

\* A channel is open exactly while its subscriber is in the table: no send on a
\* closed channel, no open channel out of reach (bus.go:175-183, 285-295).
THEOREM OpenChannelsAreRegistered == Spec => []OpenIffRegistered
<1>1. TypeOK /\ Registry => OpenIffRegistered
  <2> SUFFICES ASSUME TypeOK, Registry, NEW h \in Subscribers
               PROVE  open[h] <=> \E s \in known : h \in subs[s] /\ sid[h] = s
    BY Zenon DEF OpenIffRegistered
  <2>1. ASSUME open[h] PROVE \E s \in known : h \in subs[s] /\ sid[h] = s
    <3>1. sid[h] \in Sessions /\ h \in subs[sid[h]]
      BY <2>1 DEF Registry, TypeOK
    <3>2. sid[h] \in known
      BY <3>1 DEF Registry
    <3> QED BY <3>1, <3>2
  <2>2. ASSUME NEW s \in known, h \in subs[s] PROVE open[h]
    BY <2>2 DEF Registry, TypeOK
  <2> QED BY <2>1, <2>2
<1> QED BY <1>1, TypeInit, TypeStep, RegistryInit, RegistryStep, PTL DEF Spec

-----------------------------------------------------------------------------
(* The replay fits in the channel.                                         *)

\* Every step keeps rings within BufferSize and queues within their capacity.
LEMMA BoundsStep ==
  TypeOK /\ RingBounded /\ ReplayNeverBlocks /\ [Next]_vars => (RingBounded /\ ReplayNeverBlocks)'
<1> SUFFICES ASSUME TypeOK, RingBounded, ReplayNeverBlocks, [Next]_vars
             PROVE  RingBounded' /\ ReplayNeverBlocks'
  OBVIOUS
<1>0. /\ BufferSize \in Nat /\ Capacity \in Nat /\ BufferSize <= Capacity
      /\ Len(<<>>) = 0
  BY ConfigAssumption DEF Capacity
<1>1. ASSUME NEW e \in inflight, PublishLocked(e) PROVE RingBounded' /\ ReplayNeverBlocks'
  <2>1. CASE closed
    BY <1>1, <2>1 DEF PublishLocked, RingBounded, ReplayNeverBlocks
  <2>2. CASE ~closed
    <3>1. e.id \in Ids /\ e.sid \in Sessions
      BY DEF TypeOK
    <3>2. PICK gone \in Evictions(e.sid) :
            /\ ring' = Set(ring, <<>>, gone, e.sid, Record(ring[e.sid], e.id))
            /\ buf' = [h \in Subscribers |->
                         IF h \in Reached(e.sid) THEN Append(buf[h], e.id) ELSE buf[h]]
      BY <1>1, <2>2 DEF PublishLocked
    <3>3. Len(Record(ring[e.sid], e.id)) <= BufferSize
      BY <3>1, RecordType DEF TypeOK, RingBounded
    <3>4. RingBounded'
      BY <1>0, <3>2, <3>3 DEF RingBounded, Set
    <3>5. ASSUME NEW h \in Subscribers PROVE Len(buf'[h]) <= Capacity
      <4>1. buf[h] \in Seq(Ids) /\ Len(buf[h]) \in Nat
        BY LenProperties DEF TypeOK
      <4>2. CASE h \in Reached(e.sid)
        <5>1. Len(buf'[h]) = Len(buf[h]) + 1 /\ Len(buf[h]) < Capacity
          BY <3>1, <3>2, <4>1, <4>2, AppendProperties DEF Reached, Fits
        <5> QED BY <1>0, <4>1, <5>1
      <4>3. CASE h \notin Reached(e.sid)
        BY <3>2, <4>3 DEF ReplayNeverBlocks
      <4> QED BY <4>2, <4>3
    <3> QED BY <3>4, <3>5 DEF ReplayNeverBlocks
  <2> QED BY <2>1, <2>2
<1>2. ASSUME NEW h \in Subscribers, NEW s \in Sessions,
             NEW after \in LastEventIDs(s), NEW hasCtx \in BOOLEAN,
             Subscribe(h, s, after, hasCtx)
      PROVE  RingBounded' /\ ReplayNeverBlocks'
  <2>1. PICK gone \in Evictions(s) :
          /\ ring' = Set(ring, <<>>, gone, s, ring[s])
          /\ buf' = [buf EXCEPT ![h] = Newer(ring[s], after)]
    BY <1>2 DEF Subscribe
  <2>2. RingBounded'
    BY <1>0, <2>1 DEF RingBounded, Set
  <2>3. Newer(ring[s], after) \in Seq(Ids) /\ Len(Newer(ring[s], after)) <= Len(ring[s])
    BY LastEventIDType, NewerType DEF TypeOK
  <2>4. Len(ring[s]) \in Nat /\ Len(ring[s]) <= BufferSize
        /\ Len(Newer(ring[s], after)) \in Nat
    BY <2>3, LenProperties DEF TypeOK, RingBounded
  <2>5. Len(Newer(ring[s], after)) <= Capacity
    BY <1>0, <2>3, <2>4
  <2>6. ReplayNeverBlocks'
    BY <2>1, <2>5 DEF ReplayNeverBlocks, TypeOK
  <2> QED BY <2>2, <2>6
<1>3. ASSUME NEW h \in Subscribers, Receive(h) PROVE RingBounded' /\ ReplayNeverBlocks'
  <2>1. buf[h] \in Seq(Ids) /\ buf[h] # <<>> /\ buf' = [buf EXCEPT ![h] = Tail(@)]
    BY <1>3 DEF Receive, TypeOK
  <2>2. Len(Tail(buf[h])) = Len(buf[h]) - 1 /\ Len(buf[h]) \in Nat
    BY <2>1, HeadTailProperties, LenProperties
  <2>3. Len(Tail(buf[h])) <= Capacity
    BY <1>0, <2>2 DEF ReplayNeverBlocks
  <2> QED BY <1>3, <2>1, <2>3 DEF Receive, RingBounded, ReplayNeverBlocks, TypeOK, busVars
<1>4. ASSUME Close PROVE RingBounded' /\ ReplayNeverBlocks'
  BY <1>0, <1>4 DEF Close, RingBounded, ReplayNeverBlocks
<1>5. ASSUME UNCHANGED <<ring, buf>> PROVE RingBounded' /\ ReplayNeverBlocks'
  BY <1>5 DEF RingBounded, ReplayNeverBlocks
<1> QED BY <1>1, <1>2, <1>3, <1>4, <1>5
        DEF Next, AssignID, SubscribeClosed, ClientUnsub, WatcherUnsub, BeginUnsub,
            UnsubLocked, CancelCtx, WatcherExit, vars, busVars, subVars

\* The replay Subscribe sends under the lock never fills the channel, so the bus
\* is never stopped by it (bus.go:235-243).
THEOREM ReplayFits == Spec => []ReplayNeverBlocks
<1>1. Init => RingBounded /\ ReplayNeverBlocks
  <2> SUFFICES ASSUME Init PROVE RingBounded /\ ReplayNeverBlocks
    OBVIOUS
  <2>1. Len(<<>>) = 0 /\ 0 <= BufferSize /\ 0 <= Capacity
    BY ConfigAssumption DEF Capacity
  <2> QED BY <2>1 DEF Init, RingBounded, ReplayNeverBlocks
<1> QED BY <1>1, TypeInit, TypeStep, BoundsStep, PTL DEF Spec

-----------------------------------------------------------------------------
(* Under DropEvent a subscription ends only through its own unsub or Close. *)

\* The unsub of h finds h alone: ids are not shared in a session.
LEMMA UnsubFindsItself ==
  ASSUME TypeOK, Registry, Attached, NEW h \in Subscribers, UnsubLocked(h)
  PROVE  \A g \in SubsAt(h) : g = h
<1>1. sid[h] \in Sessions /\ once[h] = "running"
  BY DEF UnsubLocked, Registry, TypeOK
<1>2. CASE closed
  BY <1>1, <1>2 DEF Registry, SubsAt
<1>3. CASE ~closed
  <2>1. h \in subs[sid[h]]
    BY <1>1, <1>3, NoSessionAssumption DEF Attached
  <2> QED BY <1>1, <2>1 DEF Registry, SubsAt
<1> QED BY <1>2, <1>3

\* Under DropEvent every step keeps a subscriber in the table until its unsub.
LEMMA AttachedStep ==
  ASSUME SlowPolicy = "DropEvent", TypeOK, Registry, Attached, [Next]_vars
  PROVE  Attached'
<1>1. ASSUME NEW e \in inflight, PublishLocked(e) PROVE Attached'
  <2>1. CASE closed
    BY <1>1, <2>1 DEF PublishLocked, Attached
  <2>2. CASE ~closed
    <3>1. PICK gone \in Evictions(e.sid) :
            subs' = Set(subs, {}, gone, e.sid, subs[e.sid] \ Severed(e.sid))
      BY <1>1, <2>2 DEF PublishLocked
    <3>2. gone \subseteq Idle /\ Severed(e.sid) = {}
      BY <3>1, EvictionsIdle DEF Severed
    <3>3. \A t \in Sessions : subs'[t] = subs[t]
      BY <3>1, <3>2 DEF Set, Idle
    <3>4. UNCHANGED <<closed, sid, once>>
      BY <1>1 DEF PublishLocked
    <3> QED BY <3>3, <3>4 DEF Attached, TypeOK
  <2> QED BY <2>1, <2>2
<1>2. ASSUME NEW h \in Subscribers, NEW s \in Sessions,
             NEW after \in LastEventIDs(s), NEW hasCtx \in BOOLEAN,
             Subscribe(h, s, after, hasCtx)
      PROVE  Attached'
  <2>1. PICK gone \in Evictions(s) :
          subs' = Set(subs, {}, gone, s, {g \in subs[s] : slot[g] # nextSubID[s]} \cup {h})
    BY <1>2 DEF Subscribe
  <2>2. gone \subseteq Idle
    BY <2>1, EvictionsIdle
  <2>3. \A g \in subs[s] : slot[g] # nextSubID[s]
    <3>1. \A g \in subs[s] : slot[g] \in Nat /\ slot[g] < nextSubID[s] /\ nextSubID[s] \in Nat
      BY DEF Registry, TypeOK
    <3> QED BY <3>1
  <2>4. \A t \in Sessions : subs[t] \subseteq subs'[t]
    BY <2>1, <2>2, <2>3 DEF Set, Idle
  <2>5. h \in subs'[s]
    BY <2>1 DEF Set
  <2>6. sid' = [sid EXCEPT ![h] = s] /\ once' = once /\ closed' = closed
    BY <1>2 DEF Subscribe
  <2> QED BY <2>4, <2>5, <2>6 DEF Attached, TypeOK
<1>3. ASSUME NEW h \in Subscribers, UnsubLocked(h) PROVE Attached'
  <2>1. \A g \in SubsAt(h) : g = h
    BY <1>3, UnsubFindsItself
  <2>2. /\ subs' = [subs EXCEPT ![sid[h]] = @ \ SubsAt(h)]
        /\ once' = [once EXCEPT ![h] = "done"]
        /\ UNCHANGED <<closed, sid>>
    BY <1>3 DEF UnsubLocked
  <2>3. \A t \in Sessions : \A g \in subs[t] : g # h => g \in subs'[t]
    BY <2>1, <2>2 DEF TypeOK
  <2> QED BY <2>2, <2>3 DEF Attached, TypeOK
<1>4. ASSUME NEW h \in Subscribers, NEW s \in Sessions, SubscribeClosed(h, s) PROVE Attached'
  BY <1>4 DEF SubscribeClosed, Attached, TypeOK, busVars
<1>5. ASSUME NEW h \in Subscribers, BeginUnsub(h) PROVE Attached'
  BY <1>5 DEF BeginUnsub, Attached, TypeOK, busVars
<1>6. ASSUME Close PROVE Attached'
  BY <1>6 DEF Close, Attached
<1>7. ASSUME UNCHANGED <<closed, subs, sid, once>> PROVE Attached'
  BY <1>7 DEF Attached
<1> QED BY <1>1, <1>2, <1>3, <1>4, <1>5, <1>6, <1>7
        DEF Next, AssignID, ClientUnsub, WatcherUnsub, CancelCtx, WatcherExit, Receive,
            vars, busVars, subVars

\* On a bus whose policy is DropEvent the channel of a subscriber closes only
\* because of its own unsub or because of Close: eviction, other subscribers'
\* unsubs and publishers never sever it (bus.go:40-42, 203-220, 255-268).
THEOREM ClosedForCause ==
  ASSUME SlowPolicy = "DropEvent"
  PROVE  Spec => ClosedOnlyForCause
<1> DEFINE Cause == \A h \in Subscribers :
             open[h] /\ ~open'[h] =>
               \/ once[h] = "running"
               \/ closed'
               \/ SlowPolicy = "DropSubscriber" /\ ~Fits(h)
<1>1. ASSUME TypeOK, Registry, Attached, [Next]_vars PROVE Cause
  <2> SUFFICES ASSUME NEW h \in Subscribers, open[h], ~open'[h]
               PROVE  once[h] = "running" \/ closed'
    OBVIOUS
  <2>1. ASSUME NEW e \in inflight, PublishLocked(e) PROVE FALSE
    <3>1. Severed(e.sid) = {}
      BY DEF Severed
    <3> QED BY <2>1, <3>1, Zenon DEF PublishLocked
  <2>2. ASSUME NEW g \in Subscribers, NEW s \in Sessions,
               NEW after \in LastEventIDs(s), NEW hasCtx \in BOOLEAN,
               Subscribe(g, s, after, hasCtx)
        PROVE  FALSE
    <3>1. open' = [open EXCEPT ![g] = TRUE]
      BY <2>2 DEF Subscribe
    <3>2. open'[h] = IF h = g THEN TRUE ELSE open[h]
      BY <3>1 DEF TypeOK
    <3> QED BY <3>2, Zenon
  <2>3. ASSUME NEW g \in Subscribers, UnsubLocked(g) PROVE once[h] = "running"
    <3>1. h \in SubsAt(g)
      BY <2>3, Zenon DEF UnsubLocked
    <3>2. h = g
      BY <1>1, <2>3, <3>1, UnsubFindsItself
    <3> QED BY <2>3, <3>2 DEF UnsubLocked
  <2>4. ASSUME Close PROVE closed'
    BY <2>4 DEF Close
  <2>5. ASSUME UNCHANGED open PROVE FALSE
    BY <2>5, Zenon
  <2> QED BY <1>1, <2>1, <2>2, <2>3, <2>4, <2>5
          DEF Next, AssignID, SubscribeClosed, ClientUnsub, WatcherUnsub, BeginUnsub,
              CancelCtx, WatcherExit, Receive, vars, subVars
<1>2. TypeOK /\ Registry /\ Attached /\ [Next]_vars => [Cause]_vars /\ Attached'
  BY <1>1, AttachedStep
<1>3. Init => Attached
  BY DEF Init, Attached
<1> QED BY <1>2, <1>3, TypeInit, TypeStep, RegistryInit, RegistryStep, PTL
        DEF Spec, ClosedOnlyForCause

-----------------------------------------------------------------------------
(* A client that resumes is replayed all it missed.                        *)

\* A sequence up to k, and one more element.
LEMMA SubSeqAppend ==
  ASSUME NEW r \in Seq(Ids), NEW i \in 1..Len(r), NEW k \in i..(Len(r) - 1)
  PROVE  Append(SubSeq(r, i + 1, k), r[k + 1]) = SubSeq(r, i + 1, k + 1)
<1>1. Len(r) \in Nat
  OBVIOUS
<1>2. /\ SubSeq(r, i + 1, k) = [j \in 1..(k - i) |-> r[i + j]]
      /\ Len(SubSeq(r, i + 1, k)) = k - i
  OBVIOUS
<1>3. SubSeq(r, i + 1, k + 1) = [j \in 1..(k + 1 - i) |-> r[i + j]]
  OBVIOUS
<1> QED BY <1>1, <1>2, <1>3

\* Of a ring in the order of its ids the loop sends what follows the event at i.
LEMMA NewerIsRest ==
  ASSUME NEW r \in Seq(Ids), Ascending(r), NEW i \in 1..Len(r)
  PROVE  Newer(r, r[i]) = SubSeq(r, i + 1, Len(r))
<1> DEFINE after == r[i]
           Rest(k) == SubSeq(r, i + 1, k)
           f == CHOOSE g : Loop(g, r, after, Len(r))
           S == {k \in 0..Len(r) : f[k] = IF k <= i THEN <<>> ELSE Rest(k)}
<1>1. Len(r) \in Nat /\ r[i] \in Ids /\ i \in Nat
  BY ElementOfSeq
<1>2. Loop(f, r, after, Len(r))
  BY <1>1, LoopExists
<1>0. /\ Rest(i) = <<>>
      /\ \A k \in i..(Len(r) - 1) : Append(Rest(k), r[k + 1]) = Rest(k + 1)
  BY <1>1, SubSeqAppend
<1> HIDE DEF f, Rest
<1>3. \A k \in 0..Len(r) : f[k] = IF k = 0 THEN <<>>
                                  ELSE IF r[k] > after THEN Append(f[k - 1], r[k])
                                  ELSE f[k - 1]
  BY <1>2 DEF Loop
<1>4. 0 \in S
  BY <1>1, <1>3
<1>5. ASSUME NEW k \in 0..(Len(r) - 1), k \in S PROVE k + 1 \in S
  <2>1. k + 1 \in 1..Len(r) /\ r[k + 1] \in Ids
    BY <1>1, ElementOfSeq
  <2>2. f[k + 1] = IF r[k + 1] > r[i] THEN Append(f[k], r[k + 1]) ELSE f[k]
    BY <1>3, <2>1
  <2>3. r[k + 1] > r[i] <=> k + 1 > i
    BY <1>1, <2>1, BoundAssumption DEF Ascending, Ids
  <2>4. CASE k + 1 <= i
    BY <1>1, <1>5, <2>1, <2>2, <2>3, <2>4
  <2>5. CASE k + 1 > i
    <3>1. k \in i..(Len(r) - 1)
      BY <1>1, <2>5
    <3>2. f[k] = Rest(k)
      BY <1>0, <1>1, <1>5, <3>1
    <3>3. f[k + 1] = Rest(k + 1)
      BY <1>0, <2>2, <2>3, <2>5, <3>1, <3>2
    <3> QED BY <1>1, <2>1, <2>5, <3>3
  <2> QED BY <1>1, <2>1, <2>4, <2>5
<1>6. Len(r) \in S
  <2> HIDE DEF S
  <2>1. \A k \in 0..Len(r) : k \in S
    BY <1>1, <1>4, <1>5, BoundedInduction
  <2> QED BY <1>1, <2>1
<1>7. f[Len(r)] = Rest(Len(r))
  BY <1>0, <1>1, <1>6
<1>8. after # NoID
  BY <1>1, BoundAssumption DEF Ids, NoID
<1>9. Newer(r, after) = IF after = NoID THEN <<>> ELSE f[Len(r)]
  BY Zenon DEF Newer, Loop, f
<1> QED BY <1>7, <1>8, <1>9 DEF Rest

\* A client that resumes after an event still in a ring in the order of its ids is
\* replayed every event recorded after it (bus.go:25-26, 230-243).
THEOREM ResumesWithoutLoss == Spec => ResumeMissesNothing
<1> DEFINE Resume == \A h \in Subscribers, s \in Sessions, after \in Ids :
             /\ \E i \in 1..Len(ring[s]) : ring[s][i] = after
             /\ Ascending(ring[s])
             /\ Subscribe(h, s, after, TRUE)
             => buf'[h] = After(ring[s], after)
<1>1. ASSUME TypeOK PROVE Resume
  <2> SUFFICES ASSUME NEW h \in Subscribers, NEW s \in Sessions, NEW after \in Ids,
                      \E i \in 1..Len(ring[s]) : ring[s][i] = after,
                      Ascending(ring[s]), Subscribe(h, s, after, TRUE)
               PROVE  buf'[h] = After(ring[s], after)
    OBVIOUS
  <2>1. PICK r \in Seq(Ids) : r = ring[s]
    BY <1>1 DEF TypeOK
  <2> DEFINE i == CHOOSE i \in 1..Len(r) : r[i] = after
  <2>2. i \in 1..Len(r) /\ r[i] = after
    BY <2>1
  <2>3. After(r, after) = SubSeq(r, i + 1, Len(r))
    BY DEF After
  <2> HIDE DEF i
  <2>4. Newer(r, after) = After(r, after)
    BY <2>1, <2>2, <2>3, NewerIsRest
  <2>5. buf' = [buf EXCEPT ![h] = Newer(ring[s], after)]
    BY DEF Subscribe
  <2> QED BY <1>1, <2>1, <2>4, <2>5 DEF TypeOK
<1>2. TypeOK /\ [Next]_vars => [Resume]_vars
  BY <1>1
<1> QED BY <1>2, TypeInit, TypeStep, PTL DEF Spec, ResumeMissesNothing

-----------------------------------------------------------------------------
(* The table grows beyond its cap only when every session is busy.         *)

\* How the table changes: it stays, it is emptied, or a session is added after
\* evictions.
LEMMA KnownStep ==
  ASSUME TypeOK, [Next]_vars
  PROVE  \/ known' = known
         \/ known' = {}
         \/ \E s \in Sessions : \E gone \in Evictions(s) : known' = (known \ gone) \cup {s}
<1>1. ASSUME NEW e \in inflight, PublishLocked(e)
      PROVE  \/ known' = known
             \/ \E s \in Sessions : \E gone \in Evictions(s) : known' = (known \ gone) \cup {s}
  <2>1. e.sid \in Sessions
    BY DEF TypeOK
  <2>2. CASE closed
    BY <1>1, <2>2 DEF PublishLocked
  <2>3. CASE ~closed
    <3>1. \E gone \in Evictions(e.sid) : known' = (known \ gone) \cup {e.sid}
      BY <1>1, <2>3 DEF PublishLocked
    <3> QED BY <2>1, <3>1
  <2> QED BY <2>2, <2>3
<1>2. ASSUME NEW h \in Subscribers, NEW s \in Sessions,
             NEW after \in LastEventIDs(s), NEW hasCtx \in BOOLEAN,
             Subscribe(h, s, after, hasCtx)
      PROVE  \E gone \in Evictions(s) : known' = (known \ gone) \cup {s}
  BY <1>2 DEF Subscribe
<1>3. ASSUME Close PROVE known' = {}
  BY <1>3 DEF Close
<1> QED BY <1>1, <1>2, <1>3
        DEF Next, AssignID, SubscribeClosed, ClientUnsub, WatcherUnsub, BeginUnsub,
            UnsubLocked, CancelCtx, WatcherExit, Receive, vars, busVars

\* With a finite table, adding a session beyond the cap while one is idle evicts
\* one first.
LEMMA EvictsFirst ==
  ASSUME IsFiniteSet(known), NEW s, NEW gone \in Evictions(s), Idle # {}
  PROVE  LET after == (known \ gone) \cup {s}
         IN  Cardinality(after) > Cardinality(known) => Cardinality(after) <= MaxSessions
<1>0. MaxSessions \in Nat /\ Cardinality(known) \in Nat
  BY ConfigAssumption, FS_CardinalityType
<1>1. CASE s \in known
  <2>1. (known \ gone) \cup {s} = known
    BY <1>1, EvictionsIdle
  <2> QED BY <1>0, <2>1
<1>2. CASE s \notin known /\ Cardinality(known) < MaxSessions
  <2>1. (known \ gone) \cup {s} = known \cup {s}
    BY <1>2 DEF Evictions
  <2>2. Cardinality(known \cup {s}) = Cardinality(known) + 1
    BY <1>2, FS_AddElement
  <2> QED BY <1>0, <1>2, <2>1, <2>2
<1>3. CASE s \notin known /\ ~ (Cardinality(known) < MaxSessions)
  <2>1. PICK v \in known : gone = {v}
    BY <1>3 DEF Evictions, Evictable, Oldest, Idle
  <2>2. IsFiniteSet(known \ {v}) /\ Cardinality(known \ {v}) = Cardinality(known) - 1
    BY <2>1, FS_RemoveElement
  <2>3. Cardinality((known \ {v}) \cup {s}) = Cardinality(known \ {v}) + 1
    BY <1>3, <2>2, FS_AddElement
  <2> QED BY <1>0, <2>1, <2>2, <2>3
<1> QED BY <1>1, <1>2, <1>3

\* The table grows beyond MaxSessions only when every session it holds has a
\* subscriber (bus.go:58-62, 203-220).
THEOREM CapHolds == Spec => GrowsPastCapOnlyWhenBusy
<1> DEFINE Capped == Cardinality(known') > Cardinality(known) /\ Cardinality(known') > MaxSessions
                       => Idle = {}
           Finite == IsFiniteSet(known)
<1>1. Init => Finite
  BY FS_EmptySet DEF Init
<1>2. ASSUME TypeOK, Finite, [Next]_vars PROVE Finite' /\ Capped
  <2>0. MaxSessions \in Nat /\ Cardinality(known) \in Nat
    BY <1>2, ConfigAssumption, FS_CardinalityType
  <2>1. CASE known' = known
    BY <1>2, <2>0, <2>1
  <2>2. CASE known' = {}
    <3>1. IsFiniteSet({}) /\ Cardinality({}) = 0
      BY FS_EmptySet
    <3> QED BY <2>0, <2>2, <3>1
  <2>3. ASSUME NEW s \in Sessions, NEW gone \in Evictions(s), known' = (known \ gone) \cup {s}
        PROVE  Finite' /\ Capped
    <3>1. IsFiniteSet(known \ gone)
      BY <1>2, FS_Subset
    <3>2. Finite'
      BY <2>3, <3>1, FS_AddElement
    <3>3. Cardinality(known') \in Nat
      BY <3>2, FS_CardinalityType
    <3>4. CASE Idle = {}
      BY <3>2, <3>4
    <3>5. CASE Idle # {}
      <4>1. Cardinality(known') > Cardinality(known) => Cardinality(known') <= MaxSessions
        BY <1>2, <2>3, <3>5, EvictsFirst
      <4> QED BY <2>0, <3>2, <3>3, <4>1
    <3> QED BY <3>4, <3>5
  <2> QED BY <1>2, <2>1, <2>2, <2>3, KnownStep
<1>3. TypeOK /\ Finite /\ [Next]_vars => Finite' /\ [Capped]_vars
  BY <1>2
<1> QED BY <1>1, <1>3, TypeInit, TypeStep, PTL DEF Spec, GrowsPastCapOnlyWhenBusy

-----------------------------------------------------------------------------
(* What is recorded is delivered.                                          *)

\* Receiving and sending move along the end of what was delivered.
LEMMA DeliveredMoves ==
  ASSUME NEW p \in Seq(Ids), NEW q \in Seq(Ids), NEW n \in Ids
  PROVE  /\ p \o Append(q, n) = Append(p \o q, n)
         /\ q # <<>> => Append(p, Head(q)) \o Tail(q) = p \o q
         /\ <<>> \o q = q
<1>1. p \o Append(q, n) = Append(p \o q, n)
  OBVIOUS
<1>2. ASSUME q # <<>> PROVE Append(p, Head(q)) \o Tail(q) = p \o q
  BY <1>2
<1>3. <<>> \o q = q
  OBVIOUS
<1> QED BY <1>1, <1>2, <1>3

\* Only Publish changes a log.
LEMMA LogStep ==
  ASSUME [Next]_vars, ~ \E e \in inflight : PublishLocked(e)
  PROVE  log' = log
BY DEF Next, AssignID, SubscribeClosed, Subscribe, ClientUnsub, WatcherUnsub, BeginUnsub,
       UnsubLocked, CancelCtx, WatcherExit, Receive, Close, vars, history

\* While its channel stays open a subscriber gets each event recorded for its
\* session; only a full channel under DropEvent loses one (bus.go:174-183).
THEOREM OpenMeansNoGap == Spec => NoGapWhileOpen
<1> DEFINE NoGap == \A h \in Subscribers :
             /\ open[h] /\ open'[h]
             /\ log'[sid[h]] # log[sid[h]]
             /\ SlowPolicy = "DropSubscriber" \/ Fits(h)
             => got'[h] \o buf'[h]
                  = Append(got[h] \o buf[h], log'[sid[h]][Len(log'[sid[h]])])
<1>1. ASSUME TypeOK, Registry, [Next]_vars PROVE NoGap
  <2> SUFFICES ASSUME NEW h \in Subscribers, open[h], open'[h],
                      log'[sid[h]] # log[sid[h]],
                      SlowPolicy = "DropSubscriber" \/ Fits(h)
               PROVE  got'[h] \o buf'[h]
                        = Append(got[h] \o buf[h], log'[sid[h]][Len(log'[sid[h]])])
    BY Zenon
  <2>1. PICK e \in inflight : PublishLocked(e)
    BY <1>1, LogStep
  <2>2. ~closed
    BY <2>1 DEF PublishLocked
  <2>3. e.id \in Ids /\ e.sid \in Sessions
    BY <1>1 DEF TypeOK
  <2>4. /\ buf' = [g \in Subscribers |->
                     IF g \in Reached(e.sid) THEN Append(buf[g], e.id) ELSE buf[g]]
        /\ open' = [g \in Subscribers |-> open[g] /\ g \notin Severed(e.sid)]
        /\ log' = [log EXCEPT ![e.sid] = Append(@, e.id)]
        /\ got' = got
    BY <2>1, <2>2 DEF PublishLocked
  <2>5. sid[h] \in Sessions /\ h \in subs[sid[h]]
    BY <1>1 DEF Registry, TypeOK
  <2>6. sid[h] = e.sid
    BY <1>1, <2>4, <2>5 DEF TypeOK
  <2>7. h \notin Severed(e.sid)
    BY <2>4, Zenon
  <2>8. h \in Reached(e.sid)
    BY <2>5, <2>6, <2>7 DEF Severed, Reached
  <2>9. log'[sid[h]][Len(log'[sid[h]])] = e.id
    <3>1. log[e.sid] \in Seq(Ids) /\ log'[e.sid] = Append(log[e.sid], e.id)
      BY <1>1, <2>3, <2>4 DEF TypeOK
    <3> QED BY <2>3, <2>6, <3>1, AppendProperties
  <2>10. got[h] \in Seq(Ids) /\ buf[h] \in Seq(Ids)
    BY <1>1 DEF TypeOK
  <2>11. got[h] \o Append(buf[h], e.id) = Append(got[h] \o buf[h], e.id)
    BY <2>3, <2>10, DeliveredMoves
  <2> QED BY <2>4, <2>8, <2>9, <2>11
<1>2. TypeOK /\ Registry /\ [Next]_vars => [NoGap]_vars
  BY <1>1
<1> QED BY <1>2, TypeInit, TypeStep, RegistryInit, RegistryStep, PTL DEF Spec, NoGapWhileOpen

-----------------------------------------------------------------------------
(* The replay is a subsequence of the session's log.                       *)

\* f picks elements of the first m of q, in their order.
Picks(f, q, m) ==
  \E n \in 0..m : \E pos \in Feed!Increasing(n, m) : f = [j \in 1..n |-> q[pos[j]]]

\* One picks nothing, skips an element, or takes the next one.
LEMMA PickOn ==
  ASSUME NEW f, NEW q \in Seq(Ids), NEW m \in Nat, m + 1 <= Len(q), Picks(f, q, m)
  PROVE  /\ Picks(f, q, m + 1)
         /\ Picks(Append(f, q[m + 1]), q, m + 1)
<1>1. PICK n \in 0..m : \E pos \in Feed!Increasing(n, m) : f = [j \in 1..n |-> q[pos[j]]]
  BY DEF Picks
<1>2. PICK pos \in [1..n -> 1..m] :
        /\ \A i, j \in 1..n : i < j => pos[i] < pos[j]
        /\ f = [j \in 1..n |-> q[pos[j]]]
  BY <1>1 DEF Feed!Increasing
<1>3. Picks(f, q, m + 1)
  <2>1. n \in 0..(m + 1) /\ pos \in Feed!Increasing(n, m + 1)
    BY <1>2 DEF Feed!Increasing
  <2> QED BY <1>2, <2>1 DEF Picks
<1>4. Picks(Append(f, q[m + 1]), q, m + 1)
  <2> DEFINE p == [j \in 1..(n + 1) |-> IF j <= n THEN pos[j] ELSE m + 1]
  <2>1. p \in [1..(n + 1) -> 1..(m + 1)]
    BY <1>2
  <2>2. \A i, j \in 1..(n + 1) : i < j => p[i] < p[j]
    BY <1>2
  <2>3. p \in Feed!Increasing(n + 1, m + 1)
    BY <2>1, <2>2 DEF Feed!Increasing
  <2>4. f \in Seq(Ids) /\ Len(f) = n
    <3>1. \A j \in 1..n : q[pos[j]] \in Ids
      BY <1>2
    <3> QED BY <1>2, <3>1
  <2>5. Append(f, q[m + 1]) = [j \in 1..(n + 1) |-> q[p[j]]]
    BY <1>2, <2>4
  <2>6. n + 1 \in 0..(m + 1)
    OBVIOUS
  <2> HIDE DEF p
  <2> QED BY <2>3, <2>5, <2>6 DEF Picks
<1> QED BY <1>3, <1>4

\* Of a ring that is the end of a log, the loop sends a subsequence of the log.
LEMMA NewerIsSubsequence ==
  ASSUME NEW r \in Seq(Ids), NEW after \in Int, NEW q \in Seq(Ids), NEW d \in Nat,
         d + Len(r) = Len(q), \A i \in 1..Len(r) : r[i] = q[d + i]
  PROVE  Newer(r, after) \in Feed!Subsequences(q)
<1> DEFINE f == CHOOSE g : Loop(g, r, after, Len(r))
           S == {k \in 0..Len(r) : Picks(f[k], q, d + k)}
<1>1. Len(r) \in Nat /\ Len(q) \in Nat
  OBVIOUS
<1>2. Loop(f, r, after, Len(r))
  BY <1>1, LoopExists
<1> HIDE DEF f
<1>3. \A i \in 0..Len(r) : f[i] = IF i = 0 THEN <<>>
                                  ELSE IF r[i] > after THEN Append(f[i - 1], r[i])
                                  ELSE f[i - 1]
  BY <1>2 DEF Loop
<1>0. ASSUME NEW m \in Nat PROVE Picks(<<>>, q, m)
  <2> DEFINE none == [j \in 1..0 |-> 1]
  <2>1. none \in Feed!Increasing(0, m)
    BY DEF Feed!Increasing
  <2>2. <<>> = [j \in 1..0 |-> q[none[j]]]
    OBVIOUS
  <2> QED BY <2>1, <2>2 DEF Picks
<1>4. 0 \in S
  BY <1>0, <1>1, <1>3
<1>5. ASSUME NEW k \in 0..(Len(r) - 1), k \in S PROVE k + 1 \in S
  <2>1. k + 1 \in 1..Len(r) /\ r[k + 1] = q[d + k + 1] /\ d + k \in Nat /\ d + k + 1 <= Len(q)
    BY <1>1
  <2>2. f[k + 1] = IF r[k + 1] > after THEN Append(f[k], r[k + 1]) ELSE f[k]
    BY <1>3, <2>1
  <2>3. Picks(f[k], q, d + k)
    BY <1>5
  <2>4. Picks(f[k], q, d + k + 1) /\ Picks(Append(f[k], r[k + 1]), q, d + k + 1)
    BY <2>1, <2>3, PickOn
  <2>5. Picks(f[k + 1], q, d + k + 1) /\ d + (k + 1) = d + k + 1
    BY <2>2, <2>4
  <2> QED BY <2>1, <2>5
<1>6. Len(r) \in S
  <2> HIDE DEF S
  <2>1. \A k \in 0..Len(r) : k \in S
    BY <1>1, <1>4, <1>5, BoundedInduction
  <2> QED BY <1>1, <2>1
<1>7. Newer(r, after) = IF after = NoID THEN <<>> ELSE f[Len(r)]
  BY Zenon DEF Newer, Loop, f
<1>8. Picks(Newer(r, after), q, Len(q))
  BY <1>0, <1>1, <1>6, <1>7
<1>9. PICK n \in 0..Len(q) : \E pos \in Feed!Increasing(n, Len(q)) :
                               Newer(r, after) = [j \in 1..n |-> q[pos[j]]]
  BY <1>8 DEF Picks
<1> DEFINE Of(m) == {[j \in 1..m |-> q[pos[j]]] : pos \in Feed!Increasing(m, Len(q))}
<1>10. Newer(r, after) \in Of(n)
  BY <1>9, Zenon
<1>11. Feed!Subsequences(q) = UNION {Of(m) : m \in 0..Len(q)}
  BY DEF Feed!Subsequences
<1> HIDE DEF Of
<1> QED BY <1>10, <1>11

-----------------------------------------------------------------------------
(* The inductive invariant of the refinement.                              *)

\* r is the end of q.
EndOf(r, q) ==
  /\ Len(r) <= Len(q)
  /\ \A i \in 1..Len(r) : r[i] = q[Len(q) - Len(r) + i]

\* Each ring is the end of its session's log; evicted sessions keep their log.
RingsEndLogs == \A s \in Sessions : EndOf(ring[s], log[s])

\* An event that waits for the lock is in no log, and ids are not shared.
Logged(n) == \E s \in Sessions : \E i \in 1..Len(log[s]) : log[s][i] = n
WaitingIsNew ==
  /\ \A e \in inflight : e.id <= counter /\ ~Logged(e.id)
  /\ \A e, f \in inflight : e.id = f.id => e = f
  /\ \A n \in Ids : Logged(n) => n <= counter

\* Nothing is delivered before Subscribe.
SilentBefore == \A h \in Subscribers : sid[h] = NoSession => got[h] = <<>> /\ buf[h] = <<>>

FeedInv == TypeOK /\ Registry /\ RingsEndLogs /\ WaitingIsNew /\ SilentBefore

\* Recording keeps the ring the end of the log.
LEMMA RecordEnds ==
  ASSUME NEW r \in Seq(Ids), NEW q \in Seq(Ids), NEW n \in Ids, EndOf(r, q)
  PROVE  EndOf(Record(r, n), Append(q, n))
<1> DEFINE a == Append(r, n)
<1>0. BufferSize \in Nat /\ BufferSize > 0
  BY ConfigAssumption
<1>1. /\ a \in Seq(Ids) /\ Len(a) = Len(r) + 1
      /\ Append(q, n) \in Seq(Ids) /\ Len(Append(q, n)) = Len(q) + 1
      /\ Len(r) \in Nat /\ Len(q) \in Nat
  BY AppendProperties, LenProperties
<1>2. ASSUME NEW i \in 1..Len(a) PROVE a[i] = Append(q, n)[Len(q) - Len(r) + i]
  <2>1. CASE i <= Len(r)
    <3>1. i \in 1..Len(r) /\ Len(q) - Len(r) + i \in 1..Len(q)
      BY <1>1, <2>1 DEF EndOf
    <3>2. a[i] = r[i] /\ Append(q, n)[Len(q) - Len(r) + i] = q[Len(q) - Len(r) + i]
      BY <3>1, AppendProperties
    <3> QED BY <3>1, <3>2 DEF EndOf
  <2>2. CASE i > Len(r)
    <3>1. i = Len(r) + 1 /\ Len(q) - Len(r) + i = Len(q) + 1
      BY <1>1, <2>2
    <3> QED BY <3>1, AppendProperties
  <2>3. i <= Len(r) \/ i > Len(r)
    BY <1>1
  <2> QED BY <2>1, <2>2, <2>3, Zenon
<1>3. CASE ~ (Len(a) > BufferSize)
  <2>1. Record(r, n) = a
    BY <1>3 DEF Record
  <2> DEFINE c == Append(q, n)
  <2>2. Len(a) <= Len(c) /\ Len(c) - Len(a) = Len(q) - Len(r)
    BY <1>1 DEF EndOf
  <2>3. \A i \in 1..Len(a) : a[i] = c[Len(c) - Len(a) + i]
    BY <1>2, <2>2
  <2> HIDE DEF a, c
  <2>4. EndOf(a, c)
    BY <2>2, <2>3 DEF EndOf
  <2> QED BY <2>1, <2>4 DEF c
<1>4. CASE Len(a) > BufferSize
  <2> DEFINE m == Len(a) - BufferSize
             b == SubSeq(a, m + 1, Len(a))
  <2>1. Record(r, n) = b
    BY <1>4 DEF Record
  <2>2. m \in Nat /\ m < Len(a) /\ m = Len(r) + 1 - BufferSize
    BY <1>0, <1>1, <1>4
  <2> HIDE DEF a, m
  <2>3. Len(b) = BufferSize /\ \A i \in 1..BufferSize : b[i] = a[m + i]
    BY <1>0, <1>1, <2>2
  <2> HIDE DEF b
  <2>4. \A i \in 1..BufferSize : m + i \in 1..Len(a)
    BY <1>0, <1>1, <2>2
  <2>5. \A i \in 1..BufferSize : b[i] = Append(q, n)[Len(q) - Len(r) + (m + i)]
    BY <1>2, <2>3, <2>4
  <2>6. \A i \in 1..BufferSize : Len(q) - Len(r) + (m + i) = Len(q) + 1 - BufferSize + i
    BY <1>0, <1>1, <2>2
  <2>7. Len(b) <= Len(q) + 1
    BY <1>0, <1>1, <2>2, <2>3 DEF EndOf
  <2> QED BY <1>1, <2>1, <2>3, <2>5, <2>6, <2>7 DEF EndOf
<1> QED BY <1>3, <1>4

\* The logs of a step that is not Publish, or that is, on a closed bus, stay.
LEMMA PublishOpen ==
  ASSUME TypeOK, NEW e \in inflight, PublishLocked(e), ~closed
  PROVE  /\ e.id \in Ids /\ e.sid \in Sessions
         /\ log' = [log EXCEPT ![e.sid] = Append(@, e.id)]
         /\ log[e.sid] \in Seq(Ids)
         /\ \E gone \in Evictions(e.sid) :
              ring' = Set(ring, <<>>, gone, e.sid, Record(ring[e.sid], e.id))
         /\ buf' = [h \in Subscribers |->
                      IF h \in Reached(e.sid) THEN Append(buf[h], e.id) ELSE buf[h]]
         /\ open' = [h \in Subscribers |-> open[h] /\ h \notin Severed(e.sid)]
         /\ UNCHANGED <<counter, sid, got>>
         /\ inflight' = inflight \ {e}
<1>1. e.id \in Ids /\ e.sid \in Sessions
  BY DEF TypeOK
<1>2. log[e.sid] \in Seq(Ids)
  BY <1>1 DEF TypeOK
<1> QED BY <1>1, <1>2 DEF PublishLocked

\* The empty ring ends every log.
LEMMA EmptyEnds ==
  ASSUME NEW q \in Seq(Ids)
  PROVE  EndOf(<<>>, q)
BY DEF EndOf

\* Rings stay the ends of the logs.
LEMMA RingsStep ==
  ASSUME TypeOK, RingsEndLogs, [Next]_vars
  PROVE  RingsEndLogs'
<1>0. \A s \in Sessions : ring[s] \in Seq(Ids) /\ log[s] \in Seq(Ids)
  BY DEF TypeOK
<1>1. ASSUME NEW e \in inflight, PublishLocked(e) PROVE RingsEndLogs'
  <2>1. CASE closed
    BY <1>1, <2>1 DEF PublishLocked, RingsEndLogs
  <2>2. CASE ~closed
    <3>1. /\ e.id \in Ids /\ e.sid \in Sessions
          /\ log' = [log EXCEPT ![e.sid] = Append(@, e.id)]
      BY <1>1, <2>2, PublishOpen
    <3>2. PICK gone \in Evictions(e.sid) :
            ring' = Set(ring, <<>>, gone, e.sid, Record(ring[e.sid], e.id))
      BY <1>1, <2>2, PublishOpen
    <3> SUFFICES ASSUME NEW s \in Sessions PROVE EndOf(ring'[s], log'[s])
      BY DEF RingsEndLogs
    <3>3. CASE s = e.sid
      <4>1. ring'[s] = Record(ring[s], e.id) /\ log'[s] = Append(log[s], e.id)
        BY <3>1, <3>2, <3>3 DEF Set, TypeOK
      <4>2. EndOf(ring[s], log[s])
        BY DEF RingsEndLogs
      <4> QED BY <1>0, <3>1, <4>1, <4>2, RecordEnds
    <3>4. CASE s # e.sid
      <4>1. (ring'[s] = <<>> \/ ring'[s] = ring[s]) /\ log'[s] = log[s]
        BY <3>1, <3>2, <3>4 DEF Set, TypeOK
      <4> QED BY <1>0, <4>1, EmptyEnds DEF RingsEndLogs
    <3> QED BY <3>3, <3>4
  <2> QED BY <2>1, <2>2
<1>2. ASSUME NEW h \in Subscribers, NEW s \in Sessions,
             NEW after \in LastEventIDs(s), NEW hasCtx \in BOOLEAN,
             Subscribe(h, s, after, hasCtx)
      PROVE  RingsEndLogs'
  <2>1. PICK gone \in Evictions(s) : ring' = Set(ring, <<>>, gone, s, ring[s])
    BY <1>2 DEF Subscribe
  <2>2. log' = log
    BY <1>2 DEF Subscribe, history
  <2>3. \A t \in Sessions : ring'[t] = <<>> \/ ring'[t] = ring[t]
    BY <2>1 DEF Set
  <2> QED BY <1>0, <2>2, <2>3, EmptyEnds DEF RingsEndLogs
<1>3. ASSUME Close PROVE RingsEndLogs'
  <2>1. log' = log /\ \A t \in Sessions : ring'[t] = <<>>
    BY <1>3 DEF Close, history
  <2> QED BY <1>0, <2>1, EmptyEnds DEF RingsEndLogs
<1>4. ASSUME UNCHANGED <<ring, log>> PROVE RingsEndLogs'
  BY <1>4 DEF RingsEndLogs
<1> QED BY <1>1, <1>2, <1>3, <1>4
        DEF Next, AssignID, SubscribeClosed, ClientUnsub, WatcherUnsub, BeginUnsub,
            UnsubLocked, CancelCtx, WatcherExit, Receive, vars, busVars, history

\* Waiting events stay new.
LEMMA WaitingStep ==
  ASSUME TypeOK, WaitingIsNew, [Next]_vars
  PROVE  WaitingIsNew'
<1>0. counter \in Nat /\ Ids \subseteq Nat /\ \A e \in inflight : e.id \in Ids
  BY BoundAssumption DEF TypeOK, Ids
<1>1. ASSUME NEW s \in Sessions, AssignID(s) PROVE WaitingIsNew'
  <2>1. PICK e : /\ e.id = counter + 1
                 /\ inflight' = inflight \cup {e}
                 /\ counter' = counter + 1
                 /\ counter + 1 \in Ids
    <3>1. counter + 1 \in Ids
      BY <1>1, BoundAssumption DEF AssignID, TypeOK, Ids
    <3> QED BY <1>1, <3>1 DEF AssignID
  <2>2. \A n : Logged(n)' <=> Logged(n)
    BY <1>1 DEF AssignID, Logged, history
  <2>3. ~Logged(e.id)
    BY <1>0, <2>1 DEF WaitingIsNew
  <2>4. \A f \in inflight : f.id \in Nat /\ f.id <= counter /\ f.id # e.id /\ ~Logged(f.id)
    <3> SUFFICES ASSUME NEW f \in inflight
                 PROVE  f.id \in Nat /\ f.id <= counter /\ f.id # e.id /\ ~Logged(f.id)
      OBVIOUS
    <3>1. f.id <= counter /\ ~Logged(f.id)
      BY Zenon DEF WaitingIsNew
    <3>2. f.id \in Nat
      BY <1>0
    <3>3. f.id # e.id
      BY <1>0, <2>1, <3>1, <3>2
    <3> QED BY <3>1, <3>2, <3>3
  <2>5. \A f \in inflight' : f.id <= counter' /\ ~Logged(f.id)'
    BY <1>0, <2>1, <2>2, <2>3, <2>4
  <2>6. \A f, g \in inflight' : f.id = g.id => f = g
    BY <2>1, <2>4 DEF WaitingIsNew
  <2>7. \A n \in Ids : Logged(n)' => n <= counter'
    BY <1>0, <2>1, <2>2 DEF WaitingIsNew
  <2> QED BY <2>5, <2>6, <2>7 DEF WaitingIsNew
<1>2. ASSUME NEW e \in inflight, PublishLocked(e) PROVE WaitingIsNew'
  <2>1. inflight' = inflight \ {e} /\ counter' = counter
    BY <1>2 DEF PublishLocked
  <2>2. \A n : Logged(n)' => Logged(n) \/ n = e.id
    <3>1. CASE closed
      BY <1>2, <3>1 DEF PublishLocked, Logged
    <3>2. CASE ~closed
      <4>1. /\ e.id \in Ids /\ e.sid \in Sessions
            /\ log' = [log EXCEPT ![e.sid] = Append(@, e.id)]
            /\ log[e.sid] \in Seq(Ids)
        BY <1>2, <3>2, PublishOpen
      <4> SUFFICES ASSUME NEW s \in Sessions, NEW i \in 1..Len(log'[s])
                   PROVE  Logged(log'[s][i]) \/ log'[s][i] = e.id
        BY DEF Logged
      <4>2. CASE s # e.sid
        BY <4>1, <4>2 DEF Logged, TypeOK
      <4>3. CASE s = e.sid
        <5>1. log'[s] = Append(log[s], e.id)
          BY <4>1, <4>3 DEF TypeOK
        <5>2. \/ i \in 1..Len(log[s]) /\ log'[s][i] = log[s][i]
              \/ log'[s][i] = e.id
          BY <4>1, <4>3, <5>1
        <5> QED BY <5>2 DEF Logged
      <4> QED BY <4>2, <4>3
    <3> QED BY <3>1, <3>2
  <2>3. \A f \in inflight' : f.id # e.id
    BY <2>1 DEF WaitingIsNew
  <2> QED BY <1>0, <2>1, <2>2, <2>3 DEF WaitingIsNew
<1>3. ASSUME UNCHANGED <<counter, inflight, log>> PROVE WaitingIsNew'
  BY <1>3 DEF WaitingIsNew, Logged
<1> QED BY <1>1, <1>2, <1>3
        DEF Next, SubscribeClosed, Subscribe, ClientUnsub, WatcherUnsub, BeginUnsub,
            UnsubLocked, CancelCtx, WatcherExit, Receive, Close, vars, busVars, history

\* A subscriber that is not there yet has nothing.
LEMMA SilentStep ==
  ASSUME TypeOK, Registry, SilentBefore, [Next]_vars
  PROVE  SilentBefore'
<1>1. ASSUME NEW e \in inflight, PublishLocked(e) PROVE SilentBefore'
  <2>1. CASE closed
    BY <1>1, <2>1 DEF PublishLocked, SilentBefore
  <2>2. CASE ~closed
    <3>1. /\ e.sid \in Sessions
          /\ buf' = [h \in Subscribers |->
                       IF h \in Reached(e.sid) THEN Append(buf[h], e.id) ELSE buf[h]]
          /\ UNCHANGED <<sid, got>>
      BY <1>1, <2>2, PublishOpen
    <3>2. \A h \in Reached(e.sid) : sid[h] # NoSession
      BY <3>1, NoSessionAssumption DEF Reached, Registry
    <3> QED BY <3>1, <3>2 DEF SilentBefore
  <2> QED BY <2>1, <2>2
<1>2. ASSUME NEW h \in Subscribers, NEW s \in Sessions,
             NEW after \in LastEventIDs(s), NEW hasCtx \in BOOLEAN,
             Subscribe(h, s, after, hasCtx)
      PROVE  SilentBefore'
  BY <1>2, NoSessionAssumption DEF Subscribe, SilentBefore, TypeOK, history
<1>3. ASSUME NEW h \in Subscribers, NEW s \in Sessions, SubscribeClosed(h, s) PROVE SilentBefore'
  BY <1>3, NoSessionAssumption DEF SubscribeClosed, SilentBefore, TypeOK, history
<1>4. ASSUME NEW h \in Subscribers, Receive(h) PROVE SilentBefore'
  <2>1. sid[h] # NoSession
    BY <1>4 DEF Receive, SilentBefore
  <2> QED BY <1>4, <2>1 DEF Receive, SilentBefore, TypeOK
<1>5. ASSUME UNCHANGED <<sid, got, buf>> PROVE SilentBefore'
  BY <1>5 DEF SilentBefore
<1> QED BY <1>1, <1>2, <1>3, <1>4, <1>5
        DEF Next, AssignID, ClientUnsub, WatcherUnsub, BeginUnsub,
            UnsubLocked, CancelCtx, WatcherExit, Close, vars, subVars, history

LEMMA FeedInvInit == Init => FeedInv
<1> SUFFICES ASSUME Init PROVE FeedInv
  OBVIOUS
<1>1. TypeOK /\ Registry
  BY TypeInit, RegistryInit
<1>2. RingsEndLogs
  <2>1. \A s \in Sessions : ring[s] = <<>> /\ log[s] \in Seq(Ids)
    BY <1>1 DEF Init, TypeOK
  <2> QED BY <2>1, EmptyEnds DEF RingsEndLogs
<1>3. WaitingIsNew
  <2>1. \A s \in Sessions : Len(log[s]) = 0
    BY DEF Init
  <2> QED BY <2>1 DEF Init, WaitingIsNew, Logged
<1>4. SilentBefore
  BY DEF Init, SilentBefore
<1> QED BY <1>1, <1>2, <1>3, <1>4 DEF FeedInv

LEMMA FeedInvStep == FeedInv /\ [Next]_vars => FeedInv'
BY TypeStep, RegistryStep, RingsStep, WaitingStep, SilentStep DEF FeedInv

-----------------------------------------------------------------------------
(* Every step of the bus is a step of the feed, or none.                   *)

\* The status and the deliveries the refinement gives the feed.
Status == [h \in Subscribers |->
             IF sid[h] = NoSession THEN "new" ELSE IF open[h] THEN "open" ELSE "closed"]
Delivered == [h \in Subscribers |-> got[h] \o buf[h]]

\* The table's subscribers are open subscriptions of the feed.
LEMMA SubsOpen ==
  ASSUME TypeOK, Registry, NEW s \in Sessions, NEW h \in subs[s]
  PROVE  h \in Subscribers /\ sid[h] = s /\ open[h] /\ Status[h] = "open"
<1>1. h \in Subscribers /\ sid[h] = s /\ open[h]
  BY DEF TypeOK, Registry
<1> QED BY <1>1, NoSessionAssumption DEF Status

\* Publish is the feed's Record, or nothing on a closed bus.
LEMMA FeedPublish ==
  ASSUME FeedInv, NEW e \in inflight, PublishLocked(e)
  PROVE  \/ UNCHANGED <<log, sid, Status, Delivered>>
         \/ e.sid \in Sessions /\ e.id \in Ids /\ Feed!Record(e.sid, e.id)
<1> USE DEF FeedInv
<1>1. CASE closed
  BY <1>1 DEF PublishLocked, Status, Delivered
<1>2. CASE ~closed
  <2> DEFINE s == e.sid
             n == e.id
  <2>1. /\ n \in Ids /\ s \in Sessions
        /\ log' = [log EXCEPT ![s] = Append(@, n)]
        /\ buf' = [h \in Subscribers |->
                     IF h \in Reached(s) THEN Append(buf[h], n) ELSE buf[h]]
        /\ open' = [h \in Subscribers |-> open[h] /\ h \notin Severed(s)]
        /\ UNCHANGED <<counter, sid, got>>
    BY <1>2, PublishOpen
  <2> HIDE DEF s, n
  <2>2. \A t \in Sessions : \A i \in 1..Len(log[t]) : log[t][i] # n
    BY DEF WaitingIsNew, Logged, n
  <2>3. Reached(s) \subseteq subs[s] /\ Severed(s) \subseteq subs[s] /\ Reached(s) \cap Severed(s) = {}
    BY DEF Reached, Severed
  <2>4. subs[s] \subseteq Feed!OpenOn(s)
    BY <2>1, SubsOpen DEF Feed!OpenOn, Status
  <2>5. Reached(s) \in SUBSET Feed!OpenOn(s) /\ Severed(s) \in SUBSET Feed!OpenOn(s)
    BY <2>3, <2>4
  <2>6. Delivered' = [h \in Subscribers |->
                        IF h \in Reached(s) THEN Append(Delivered[h], n) ELSE Delivered[h]]
    <3>1. ASSUME NEW h \in Subscribers
          PROVE  got'[h] \o buf'[h] = IF h \in Reached(s) THEN Append(Delivered[h], n) ELSE Delivered[h]
      <4>1. got[h] \in Seq(Ids) /\ buf[h] \in Seq(Ids)
        BY DEF TypeOK
      <4>2. got[h] \o Append(buf[h], n) = Append(got[h] \o buf[h], n)
        BY <2>1, <4>1, DeliveredMoves
      <4>3. Delivered[h] = got[h] \o buf[h] /\ got'[h] = got[h]
            /\ buf'[h] = IF h \in Reached(s) THEN Append(buf[h], n) ELSE buf[h]
        BY <2>1, Zenon DEF Delivered
      <4> QED BY <4>2, <4>3, Zenon
    <3> QED BY <3>1, Zenon DEF Delivered
  <2>7. Status' = [h \in Subscribers |-> IF h \in Severed(s) THEN "closed" ELSE Status[h]]
    <3>1. ASSUME NEW h \in Subscribers
          PROVE  (IF sid'[h] = NoSession THEN "new" ELSE IF open'[h] THEN "open" ELSE "closed")
                   = IF h \in Severed(s) THEN "closed" ELSE Status[h]
      <4>1. sid'[h] = sid[h] /\ (open'[h] <=> open[h] /\ h \notin Severed(s))
        BY <2>1, Zenon
      <4>2. Status[h] = IF sid[h] = NoSession THEN "new" ELSE IF open[h] THEN "open" ELSE "closed"
        BY Zenon DEF Status
      <4>3. h \in Severed(s) => sid[h] # NoSession
        BY <2>1, <2>3, SubsOpen, NoSessionAssumption
      <4> QED BY <4>1, <4>2, <4>3
    <3> QED BY <3>1, Zenon DEF Status
  <2>8. Feed!Record(s, n)
    BY <2>1, <2>2, <2>3, <2>5, <2>6, <2>7 DEF Feed!Record, Status, Delivered
  <2> QED BY <2>1, <2>8 DEF s, n
<1> QED BY <1>1, <1>2

\* Subscribe is the feed's Open: with a subsequence of the log as its replay, or
\* refused on a closed bus.
LEMMA FeedSubscribe ==
  ASSUME FeedInv, NEW h \in Subscribers, NEW s \in Sessions,
         NEW after \in LastEventIDs(s), NEW hasCtx \in BOOLEAN,
         Subscribe(h, s, after, hasCtx)
  PROVE  Feed!Open(h, s)
<1> USE DEF FeedInv
<1> DEFINE replay == Newer(ring[s], after)
<1>1. /\ sid[h] = NoSession
      /\ sid' = [sid EXCEPT ![h] = s]
      /\ open' = [open EXCEPT ![h] = TRUE]
      /\ buf' = [buf EXCEPT ![h] = replay]
      /\ got' = got /\ log' = log
  BY DEF Subscribe, history
<1>2. replay \in Feed!Subsequences(log[s]) /\ replay \in Seq(Ids)
  <2>1. ring[s] \in Seq(Ids) /\ log[s] \in Seq(Ids) /\ after \in Int
    BY LastEventIDType DEF TypeOK
  <2>2. EndOf(ring[s], log[s])
    BY DEF RingsEndLogs
  <2>3. PICK r \in Seq(Ids), q \in Seq(Ids) : r = ring[s] /\ q = log[s]
    BY <2>1
  <2> DEFINE d == Len(q) - Len(r)
  <2>4. d \in Nat /\ d + Len(r) = Len(q) /\ \A i \in 1..Len(r) : r[i] = q[d + i]
    <3>1. Len(r) \in Nat /\ Len(q) \in Nat
      BY LenProperties
    <3>2. EndOf(r, q)
      BY <2>2, <2>3, Zenon
    <3>3. d \in Nat /\ d + Len(r) = Len(q)
      BY <3>1, <3>2 DEF EndOf
    <3>4. \A i \in 1..Len(r) : r[i] = q[d + i]
      BY <3>2, Zenon DEF EndOf
    <3> QED BY <3>3, <3>4
  <2> HIDE DEF d
  <2>5. Newer(r, after) \in Feed!Subsequences(q)
    BY <2>1, <2>4, NewerIsSubsequence
  <2> QED BY <2>1, <2>3, <2>5, NewerType
<1> HIDE DEF replay
<1>3. Status[h] = "new"
  BY <1>1 DEF Status
<1>4. Status' = [Status EXCEPT ![h] = "open"]
  <2>1. ASSUME NEW g \in Subscribers
        PROVE  (IF sid'[g] = NoSession THEN "new" ELSE IF open'[g] THEN "open" ELSE "closed")
                 = IF g = h THEN "open" ELSE Status[g]
    <3>1. CASE g = h
      <4>1. sid'[g] = s /\ open'[g]
        BY <1>1, <3>1 DEF TypeOK
      <4> QED BY <3>1, <4>1, NoSessionAssumption
    <3>2. CASE g # h
      <4>1. sid'[g] = sid[g] /\ open'[g] = open[g]
        BY <1>1, <3>2 DEF TypeOK
      <4> QED BY <3>2, <4>1, Zenon DEF Status
    <3> QED BY <3>1, <3>2
  <2>2. [Status EXCEPT ![h] = "open"]
          = [g \in Subscribers |-> IF g = h THEN "open" ELSE Status[g]]
    BY DEF Status
  <2> QED BY <2>1, <2>2, Zenon DEF Status
<1>5. Delivered' = [Delivered EXCEPT ![h] = replay]
  <2>1. ASSUME NEW g \in Subscribers
        PROVE  got'[g] \o buf'[g] = IF g = h THEN replay ELSE Delivered[g]
    <3>1. CASE g = h
      <4>1. got'[g] = <<>> /\ buf'[g] = replay
        BY <1>1, <3>1 DEF TypeOK, SilentBefore
      <4>2. <<>> \o replay = replay
        BY <1>2, EmptySeq, ConcatProperties
      <4> QED BY <3>1, <4>1, <4>2
    <3>2. CASE g # h
      <4>1. got'[g] = got[g] /\ buf'[g] = buf[g]
        BY <1>1, <3>2 DEF TypeOK
      <4> QED BY <3>2, <4>1, Zenon DEF Delivered
    <3> QED BY <3>1, <3>2
  <2>2. [Delivered EXCEPT ![h] = replay]
          = [g \in Subscribers |-> IF g = h THEN replay ELSE Delivered[g]]
    BY DEF Delivered
  <2> QED BY <2>1, <2>2, Zenon DEF Delivered
<1> QED BY <1>1, <1>2, <1>3, <1>4, <1>5 DEF Feed!Open, Status, Delivered

\* The feed refuses a subscription on a closed bus.
LEMMA FeedRefuse ==
  ASSUME FeedInv, NEW h \in Subscribers, NEW s \in Sessions, SubscribeClosed(h, s)
  PROVE  Feed!Open(h, s)
<1> USE DEF FeedInv
<1>1. /\ sid[h] = NoSession
      /\ sid' = [sid EXCEPT ![h] = s]
      /\ UNCHANGED <<open, buf, got, log>>
  BY DEF SubscribeClosed, history
<1>2. ~open[h]
  BY <1>1, Zenon DEF Registry
<1>3. Status[h] = "new"
  BY <1>1 DEF Status
<1>4. Status' = [Status EXCEPT ![h] = "closed"]
  <2>1. ASSUME NEW g \in Subscribers
        PROVE  (IF sid'[g] = NoSession THEN "new" ELSE IF open'[g] THEN "open" ELSE "closed")
                 = IF g = h THEN "closed" ELSE Status[g]
    <3>1. CASE g = h
      <4>1. sid'[g] = s /\ ~open'[g]
        BY <1>1, <1>2, <3>1 DEF TypeOK
      <4> QED BY <3>1, <4>1, NoSessionAssumption
    <3>2. CASE g # h
      <4>1. sid'[g] = sid[g] /\ open'[g] = open[g]
        BY <1>1, <3>2 DEF TypeOK
      <4> QED BY <3>2, <4>1, Zenon DEF Status
    <3> QED BY <3>1, <3>2
  <2>2. [Status EXCEPT ![h] = "closed"]
          = [g \in Subscribers |-> IF g = h THEN "closed" ELSE Status[g]]
    BY DEF Status
  <2> QED BY <2>1, <2>2, Zenon DEF Status
<1>5. Delivered' = Delivered
  BY <1>1 DEF Delivered
<1> QED BY <1>1, <1>3, <1>4, <1>5 DEF Feed!Open, Status, Delivered

\* Closing registered subscribers closes open subscriptions of the feed.
LEMMA FeedClose ==
  ASSUME FeedInv, NEW H, \A h \in H : \E s \in Sessions : h \in subs[s],
         open' = [h \in Subscribers |-> open[h] /\ h \notin H],
         UNCHANGED <<log, sid, got, buf>>
  PROVE  Feed!CloseSome
<1> USE DEF FeedInv
<1>1. \A h \in H : h \in Subscribers /\ Status[h] = "open" /\ sid[h] # NoSession
  BY SubsOpen, NoSessionAssumption
<1>2. H \in SUBSET {h \in Subscribers : Status[h] = "open"}
  BY <1>1
<1>3. Status' = [h \in Subscribers |-> IF h \in H THEN "closed" ELSE Status[h]]
  <2>1. ASSUME NEW h \in Subscribers
        PROVE  (IF sid'[h] = NoSession THEN "new" ELSE IF open'[h] THEN "open" ELSE "closed")
                 = IF h \in H THEN "closed" ELSE Status[h]
    <3>1. sid'[h] = sid[h] /\ (open'[h] <=> open[h] /\ h \notin H)
      BY Zenon
    <3>2. Status[h] = IF sid[h] = NoSession THEN "new" ELSE IF open[h] THEN "open" ELSE "closed"
      BY Zenon DEF Status
    <3> QED BY <1>1, <3>1, <3>2
  <2> QED BY <2>1, Zenon DEF Status
<1>4. UNCHANGED <<log, sid, Delivered>>
  BY DEF Delivered
<1> QED BY <1>2, <1>3, <1>4 DEF Feed!CloseSome, Status, Delivered

\* Every step of the bus maps to a step of the feed or to none.
LEMMA FeedStep == FeedInv /\ [Next]_vars => [Feed!Next]_(Feed!vars)
<1> SUFFICES ASSUME FeedInv, [Next]_vars PROVE Feed!Next \/ UNCHANGED <<log, sid, Status, Delivered>>
  BY DEF Feed!vars, Status, Delivered
<1>1. ASSUME NEW e \in inflight, PublishLocked(e)
      PROVE  Feed!Next \/ UNCHANGED <<log, sid, Status, Delivered>>
  BY <1>1, FeedPublish DEF Feed!Next
<1>2. ASSUME NEW h \in Subscribers, NEW s \in Sessions,
             NEW after \in LastEventIDs(s), NEW hasCtx \in BOOLEAN,
             Subscribe(h, s, after, hasCtx)
      PROVE  Feed!Next
  BY <1>2, FeedSubscribe DEF Feed!Next
<1>3. ASSUME NEW h \in Subscribers, NEW s \in Sessions, SubscribeClosed(h, s) PROVE Feed!Next
  BY <1>3, FeedRefuse DEF Feed!Next
<1>4. ASSUME NEW h \in Subscribers, UnsubLocked(h) PROVE Feed!Next
  <2>1. sid[h] \in Sessions
    BY <1>4 DEF UnsubLocked, FeedInv, Registry, TypeOK
  <2>2. \A g \in SubsAt(h) : \E s \in Sessions : g \in subs[s]
    BY <2>1 DEF SubsAt
  <2>3. /\ open' = [g \in Subscribers |-> open[g] /\ g \notin SubsAt(h)]
        /\ UNCHANGED <<log, sid, got, buf>>
    BY <1>4 DEF UnsubLocked, history
  <2> QED BY <2>2, <2>3, FeedClose DEF Feed!Next
<1>5. ASSUME Close PROVE Feed!Next
  <2>1. \A g \in UNION {subs[s] : s \in known} : \E s \in Sessions : g \in subs[s]
    BY DEF FeedInv, TypeOK
  <2>2. /\ open' = [g \in Subscribers |-> open[g] /\ g \notin UNION {subs[s] : s \in known}]
        /\ UNCHANGED <<log, sid, got, buf>>
    BY <1>5 DEF Close, history
  <2> QED BY <2>1, <2>2, FeedClose DEF Feed!Next
<1>6. ASSUME NEW h \in Subscribers, Receive(h) PROVE UNCHANGED <<log, sid, Status, Delivered>>
  <2>1. /\ buf[h] # <<>>
        /\ got' = [got EXCEPT ![h] = Append(@, Head(buf[h]))]
        /\ buf' = [buf EXCEPT ![h] = Tail(@)]
        /\ UNCHANGED <<log, sid, open>>
    BY <1>6 DEF Receive
  <2>2. ASSUME NEW g \in Subscribers PROVE got'[g] \o buf'[g] = got[g] \o buf[g]
    <3>1. CASE g = h
      <4>1. got[h] \in Seq(Ids) /\ buf[h] \in Seq(Ids)
        BY DEF FeedInv, TypeOK
      <4>2. Append(got[h], Head(buf[h])) \o Tail(buf[h]) = got[h] \o buf[h]
        BY <2>1, <4>1, HeadTailProperties, DeliveredMoves
      <4> QED BY <2>1, <3>1, <4>2 DEF FeedInv, TypeOK
    <3>2. CASE g # h
      BY <2>1, <3>2 DEF FeedInv, TypeOK
    <3> QED BY <3>1, <3>2
  <2> QED BY <2>1, <2>2, Zenon DEF Status, Delivered
<1>7. ASSUME UNCHANGED <<log, sid, open, got, buf>> PROVE UNCHANGED <<log, sid, Status, Delivered>>
  BY <1>7 DEF Status, Delivered
<1> QED BY <1>1, <1>2, <1>3, <1>4, <1>5, <1>6, <1>7
        DEF Next, AssignID, ClientUnsub, WatcherUnsub, BeginUnsub, CancelCtx, WatcherExit,
            vars, busVars, subVars, history

\* The bus implements the abstract feed: a subscription delivers events of its own
\* session only, in the order of the log and at most once, first some already
\* logged and then, until it is closed for good, each new one or a gap
\* (bus.go:143-184, 222-283).
THEOREM BusImplementsFeed == Spec => ImplementsFeed
<1>1. Init => Feed!Init
  <2> SUFFICES ASSUME Init PROVE Feed!Init
    OBVIOUS
  <2>1. Status = [h \in Subscribers |-> "new"]
    BY DEF Init, Status
  <2>2. Delivered = [h \in Subscribers |-> <<>>]
    <3>1. <<>> \o <<>> = <<>>
      OBVIOUS
    <3> QED BY <3>1 DEF Init, Delivered
  <2> QED BY <2>1, <2>2 DEF Init, Feed!Init, Status, Delivered
<1> QED BY <1>1, FeedInvInit, FeedInvStep, FeedStep, PTL DEF Spec, ImplementsFeed, Feed!Spec
=============================================================================
