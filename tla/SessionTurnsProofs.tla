------------------------- MODULE SessionTurnsProofs -------------------------
(***************************************************************************)
(* Proofs about the session locks, for any number of calls and sessions.   *)
(* An entry of the lock map lives exactly as long as some call refers to   *)
(* it, so a call that looks its lock up again finds the one it locked.     *)
(***************************************************************************)
EXTENDS SessionTurns, FiniteSetTheorems, TLAPS

-----------------------------------------------------------------------------
(* The inductive invariant                                                 *)

Refs(l) == {p \in Procs : lk[p] = l}

\* What a call refers to is what the map holds under its key.
Linked == \A p \in Procs : lk[p] # None => key[p] \in Keys /\ entry[key[p]] = lk[p]

\* What the map holds is what some call refers to.
Used == \A k \in Keys : entry[k] # None => \E p \in Procs : key[p] = k /\ lk[p] = entry[k]

Apart == \A k, j \in Keys : entry[k] # None /\ entry[k] = entry[j] => k = j

Owned == \A p \in Procs : Held(p) => holder[lk[p]] = p

Counted == \A l \in Locks : refs[l] = Cardinality(Refs(l))

\* A call refers to a lock from the moment it asks for it until it gives it back.
Stages == \A p \in Procs :
  /\ pc[p] = "idle" => lk[p] = None
  /\ pc[p] \in {"idle", "waiting"} => rel[p] = "no"
  /\ pc[p] = "waiting" \/ rel[p] \in {"held", "mutex", "deref"} => lk[p] # None

LockInv == Linked /\ Used /\ Apart /\ Owned /\ Counted /\ Stages

-----------------------------------------------------------------------------
(* Helpers                                                                 *)

LEMMA LocksFacts ==
  /\ Locks \subseteq Nat
  /\ None \notin Locks
  /\ None \notin Procs
  /\ None \notin Keys
BY SessionAssumption, FS_CardinalityType DEF Locks

LEMMA RefsFinite ==
  ASSUME NEW l
  PROVE  IsFiniteSet(Refs(l)) /\ Cardinality(Refs(l)) \in Nat
<1>1. Refs(l) \in SUBSET Procs
  BY DEF Refs
<1> QED BY <1>1, SessionAssumption, FS_Subset, FS_CardinalityType

\* There are as many locks as calls, and the idle call refers to none: one is free.
LEMMA FreshIsFree ==
  ASSUME TypeOK, LockInv, NEW p \in Procs, pc[p] = "idle"
  PROVE  /\ Fresh \in Locks
         /\ \A k \in Keys : entry[k] # Fresh
         /\ \A q \in Procs : lk[q] # Fresh
<1> DEFINE Others == Procs \ {p}
<1>1. \E l \in Locks : (\A k \in Keys : entry[k] # l) /\ (\A q \in Procs : lk[q] # l)
  <2> SUFFICES ASSUME \A l \in Locks : (\E k \in Keys : entry[k] = l) \/ (\E q \in Procs : lk[q] = l)
               PROVE  FALSE
    OBVIOUS
  <2>1. \A l \in Locks : \E q \in Others : lk[q] = l
    <3> SUFFICES ASSUME NEW l \in Locks PROVE \E q \in Others : lk[q] = l
      OBVIOUS
    <3>1. \E q \in Procs : lk[q] = l
      BY LocksFacts DEF LockInv, Used
    <3> QED BY <3>1, LocksFacts DEF LockInv, Stages
  <2> DEFINE f == [l \in Locks |-> CHOOSE q \in Others : lk[q] = l]
  <2>2. f \in [Locks -> Others] /\ \A l \in Locks : lk[f[l]] = l
    BY <2>1
  <2>3. Cardinality(Procs) \in Nat /\ Cardinality(Procs) >= 1
    BY SessionAssumption, FS_CardinalityType, FS_EmptySet
  <2>4. IsFiniteSet(Others) /\ Cardinality(Others) = Cardinality(Procs) - 1
    BY SessionAssumption, FS_RemoveElement
  <2>5. IsFiniteSet(Locks) /\ Cardinality(Locks) = Cardinality(Procs)
    BY <2>3, FS_Interval DEF Locks
  <2> HIDE DEF f, Others
  <2>6. \E x, y \in Locks : x # y /\ f[x] = f[y]
    BY <2>2, <2>3, <2>4, <2>5, FS_PigeonHole
  <2> QED BY <2>2, <2>6
<1> QED BY <1>1 DEF Fresh

-----------------------------------------------------------------------------
(* Each step preserves the lock invariant                                  *)

LEMMA LockEnterStep ==
  ASSUME TypeOK, LockInv, NEW p \in Procs, NEW k \in Keys, NEW o, LockEnter(p, k, o)
  PROVE  LockInv'
<1>1. PICK l \in Locks :
      /\ l = IF entry[k] = None THEN Fresh ELSE entry[k]
      /\ l # None
      /\ lk[p] = None
      /\ rel[p] = "no"
      /\ entry[k] = None => \A j \in Keys : entry[j] # l
      /\ entry[k] = None => \A q \in Procs : lk[q] # l
  BY FreshIsFree, LocksFacts DEF LockEnter, LockInv, Stages, TypeOK
<1>2. /\ entry' = [entry EXCEPT ![k] = l]
      /\ refs' = [refs EXCEPT ![l] = IF entry[k] = None THEN 1 ELSE @ + 1]
      /\ holder' = [holder EXCEPT ![l] = IF entry[k] = None THEN None ELSE @]
      /\ lk' = [lk EXCEPT ![p] = l]
      /\ key' = [key EXCEPT ![p] = k]
      /\ pc' = [pc EXCEPT ![p] = "waiting"]
      /\ rel' = rel
      /\ Refs(l)' = Refs(l) \cup {p}
      /\ \A m \in Locks : m # l => Refs(m)' = Refs(m)
  BY <1>1, LocksFacts DEF LockEnter, TypeOK, Refs
<1>3. Linked'
  BY <1>1, <1>2 DEF LockInv, Linked, TypeOK
<1>4. Used'
  <2> SUFFICES ASSUME NEW j \in Keys, entry'[j] # None
               PROVE  \E q \in Procs : key'[q] = j /\ lk'[q] = entry'[j]
    BY DEF Used
  <2>1. CASE j = k
    <3>1. key'[p] = k /\ lk'[p] = l /\ entry'[k] = l
      BY <1>2 DEF TypeOK
    <3> QED BY <2>1, <3>1
  <2>2. CASE j # k
    <3>1. entry'[j] = entry[j]
      BY <1>2, <2>2 DEF TypeOK
    <3>2. PICK q \in Procs : key[q] = j /\ lk[q] = entry[j]
      BY <3>1 DEF LockInv, Used
    <3>3. q # p
      BY <1>1, <3>1, <3>2
    <3> QED BY <1>2, <3>1, <3>2, <3>3 DEF TypeOK
  <2> QED BY <2>1, <2>2
<1>5. Apart'
  BY <1>1, <1>2 DEF LockInv, Apart, TypeOK
<1>6. Owned'
  BY <1>1, <1>2 DEF LockInv, Owned, Held, Stages, TypeOK
<1>7. Counted'
  <2>1. \A m \in Locks : m # l => refs'[m] = Cardinality(Refs(m)')
    BY <1>1, <1>2 DEF LockInv, Counted, TypeOK
  <2>2. p \notin Refs(l)
    BY <1>1 DEF Refs
  <2>3. Cardinality(Refs(l)') = Cardinality(Refs(l)) + 1
    BY <1>2, <2>2, RefsFinite, FS_AddElement
  <2>4. entry[k] = None => Refs(l) = {}
    BY <1>1 DEF Refs
  <2>5. refs'[l] = IF entry[k] = None THEN 1 ELSE refs[l] + 1
    BY <1>2 DEF TypeOK
  <2>6. refs'[l] = Cardinality(Refs(l)')
    <3>1. CASE entry[k] = None
      BY <2>3, <2>4, <2>5, <3>1, FS_EmptySet
    <3>2. CASE entry[k] # None
      BY <2>3, <2>5, <3>2 DEF LockInv, Counted
    <3> QED BY <3>1, <3>2
  <2> QED BY <2>1, <2>6 DEF Counted
<1>8. Stages'
  BY <1>1, <1>2 DEF LockInv, Stages, TypeOK
<1> QED BY <1>3, <1>4, <1>5, <1>6, <1>7, <1>8 DEF LockInv

LEMMA AcquireStep ==
  ASSUME TypeOK, LockInv, NEW p \in Procs, Acquire(p)
  PROVE  LockInv'
<1>1. lk[p] # None /\ lk[p] \in Locks
  BY DEF Acquire, LockInv, Stages, TypeOK
<1>2. Owned'
  BY <1>1, LocksFacts DEF Acquire, LockInv, Owned, Held, Linked, Stages, TypeOK
<1>3. Stages'
  BY <1>1 DEF Acquire, LockInv, Stages, TypeOK
<1> QED BY <1>2, <1>3 DEF Acquire, LockInv, Linked, Used, Apart, Counted, Refs

LEMMA UnlockMutexStep ==
  ASSUME TypeOK, LockInv, NEW p \in Procs, UnlockMutex(p)
  PROVE  LockInv'
<1>1. lk[p] # None /\ entry[key[p]] = lk[p] /\ holder[lk[p]] = p
  BY DEF UnlockMutex, LockInv, Stages, Linked, Owned, Held
<1>2. Owned'
  BY <1>1, LocksFacts DEF UnlockMutex, LockInv, Owned, Held, Stages, TypeOK
<1>3. Stages'
  BY <1>1 DEF UnlockMutex, LockInv, Stages, TypeOK
<1> QED BY <1>2, <1>3 DEF UnlockMutex, LockInv, Linked, Used, Apart, Counted, Refs

\* The step that drops an entry: the reference count being exact, nobody else
\* refers to it.
LEMMA UnlockDerefStep ==
  ASSUME TypeOK, LockInv, NEW p \in Procs, UnlockDeref(p)
  PROVE  LockInv' /\ refs' \in [Locks -> Nat]
<1>1. PICK l \in Locks, k \in Keys :
      /\ lk[p] = l
      /\ key[p] = k
      /\ l # None
      /\ entry[k] = l
      /\ p \in Refs(l)
  BY DEF UnlockDeref, LockInv, Stages, Linked, TypeOK, Refs
<1>2. /\ refs' = [refs EXCEPT ![l] = @ - 1]
      /\ entry' = IF refs[l] <= 1 THEN [entry EXCEPT ![k] = None] ELSE entry
      /\ lk' = [lk EXCEPT ![p] = None]
      /\ rel' = [rel EXCEPT ![p] = "done"]
      /\ UNCHANGED <<holder, key, pc>>
      /\ Refs(l)' = Refs(l) \ {p}
      /\ \A m \in Locks : m # l => Refs(m)' = Refs(m)
  BY <1>1, LocksFacts DEF UnlockDeref, LastRef, TypeOK, Refs
<1>3. refs[l] = Cardinality(Refs(l)) /\ refs[l] \in Nat
  BY <1>1 DEF LockInv, Counted, TypeOK
<1>4. Cardinality(Refs(l)') = refs[l] - 1 /\ Cardinality(Refs(l)') \in Nat
  <2>1. Cardinality(Refs(l) \ {p}) = Cardinality(Refs(l)) - 1
    BY <1>1, RefsFinite, FS_RemoveElement
  <2>2. Cardinality(Refs(l) \ {p}) \in Nat
    BY RefsFinite, FS_RemoveElement, FS_CardinalityType
  <2> QED BY <1>2, <1>3, <2>1, <2>2
<1>5. \A q \in Procs : q # p /\ lk[q] = l => refs[l] > 1
  <2> SUFFICES ASSUME NEW q \in Procs, q # p, lk[q] = l PROVE refs[l] > 1
    OBVIOUS
  <2>1. q \in Refs(l)'
    BY <1>2 DEF Refs
  <2>2. IsFiniteSet(Refs(l)')
    BY <1>2, RefsFinite, FS_RemoveElement
  <2>3. Cardinality(Refs(l)') # 0
    BY <2>1, <2>2, FS_EmptySet
  <2> QED BY <1>3, <1>4, <2>3
<1>6. refs[l] > 1 => \E q \in Procs : q # p /\ lk[q] = l
  <2> SUFFICES ASSUME refs[l] > 1 PROVE \E q \in Procs : q # p /\ lk[q] = l
    OBVIOUS
  <2>1. Refs(l)' # {}
    BY <1>3, <1>4, FS_EmptySet
  <2> QED BY <1>2, <2>1 DEF Refs
<1>7. Linked'
  BY <1>1, <1>2, <1>3, <1>5 DEF LockInv, Linked, Apart, TypeOK
<1>8. Used'
  <2> SUFFICES ASSUME NEW j \in Keys, entry'[j] # None
               PROVE  \E q \in Procs : key'[q] = j /\ lk'[q] = entry'[j]
    BY DEF Used
  <2>1. entry'[j] = entry[j] /\ entry[j] # None
    BY <1>1, <1>2 DEF TypeOK
  <2>2. CASE j = k
    <3>1. refs[l] > 1
      BY <1>1, <1>2, <1>3, <2>2 DEF TypeOK
    <3>2. PICK q \in Procs : q # p /\ lk[q] = l
      BY <1>6, <3>1
    <3>3. key[q] = k
      BY <1>1, <3>2 DEF LockInv, Linked, Apart
    <3> QED BY <1>1, <1>2, <2>1, <2>2, <3>2, <3>3 DEF TypeOK
  <2>3. CASE j # k
    <3>1. PICK q \in Procs : key[q] = j /\ lk[q] = entry[j]
      BY <2>1 DEF LockInv, Used
    <3>2. q # p
      BY <1>1, <2>3, <3>1
    <3> QED BY <1>2, <2>1, <3>1, <3>2 DEF TypeOK
  <2> QED BY <2>2, <2>3
<1>9. Apart'
  BY <1>1, <1>2 DEF LockInv, Apart, TypeOK
<1>10. Owned'
  BY <1>1, <1>2 DEF LockInv, Owned, Held, TypeOK
<1>11. Counted'
  BY <1>1, <1>2, <1>3, <1>4 DEF LockInv, Counted, TypeOK
<1>12. Stages'
  BY <1>1, <1>2 DEF UnlockDeref, LockInv, Stages, TypeOK
<1>13. refs' \in [Locks -> Nat]
  BY <1>1, <1>2, <1>3, <1>4 DEF TypeOK
<1> QED BY <1>7, <1>8, <1>9, <1>10, <1>11, <1>12, <1>13 DEF LockInv

\* Every other step leaves the lock map alone; the most it does to the release is
\* to begin it.
QuietStep(p) ==
  /\ UNCHANGED <<entry, refs, holder, key, lk>>
  /\ rel' = rel \/ rel' = Released(p)
  /\ pc' = pc \/ /\ pc[p] \notin {"idle", "waiting"}
                 /\ \E x : x \notin {"idle", "waiting"} /\ pc' = [pc EXCEPT ![p] = x]

LEMMA QuietPreserves ==
  ASSUME TypeOK, LockInv, NEW p \in Procs, QuietStep(p)
  PROVE  LockInv'
<1>1. \A q \in Procs : rel'[q] = rel[q] \/ (rel[q] = "held" /\ rel'[q] = "mutex")
  BY DEF QuietStep, Released, TypeOK
<1>2. \A q \in Procs : pc'[q] = pc[q] \/ (pc[q] \notin {"idle", "waiting"} /\ pc'[q] \notin {"idle", "waiting"})
  BY DEF QuietStep, TypeOK
<1>3. Stages'
  BY <1>1, <1>2 DEF QuietStep, LockInv, Stages
<1>4. Owned'
  BY <1>1 DEF QuietStep, LockInv, Owned, Held
<1> QED BY <1>3, <1>4 DEF QuietStep, LockInv, Linked, Used, Apart, Counted, Refs
-----------------------------------------------------------------------------
(* Types and locks of every reachable state                                *)

LEMMA InitLocks == Init => TypeOK /\ LockInv
<1> SUFFICES ASSUME Init PROVE TypeOK /\ LockInv
  OBVIOUS
<1>1. TypeOK
  BY DEF Init, TypeOK
<1>2. Counted
  <2>1. \A l \in Locks : Refs(l) = {}
    BY LocksFacts DEF Init, Refs
  <2> QED BY <2>1, FS_EmptySet DEF Init, Counted
<1> QED BY <1>1, <1>2 DEF Init, LockInv, Linked, Used, Apart, Owned, Held, Stages

LEMMA ReleasedType ==
  ASSUME TypeOK, NEW p \in Procs
  PROVE  Released(p) \in [Procs -> {"no", "held", "mutex", "deref", "done"}]
BY DEF TypeOK, Released

\* A call past its BeginTurn works on a real key.
LEMMA QuietSteps ==
  ASSUME TypeOK, NEW p \in Procs,
         \/ OpenConversation(p) \/ OpenFails(p) \/ Delete(p) \/ Condense(p)
         \/ Abort(p) \/ StartRun(p) \/ HandlerReturn(p)
         \/ \E c \in Chunks : ProxySends(p, c)
         \/ ProxyEnds(p) \/ Persist(p)
  PROVE  QuietStep(p)
BY DEF QuietStep, OpenConversation, OpenFails, Delete, Condense, Abort, StartRun,
       HandlerReturn, ProxySends, ProxyEnds, Persist, PersistReceives, PersistEOF,
       PersistDiscards, CommitChecks, CommitUser, CommitAnswer,
       lockVars, turnVars, runVars

LEMMA LocksStep ==
  TypeOK /\ LockInv /\ [Next]_vars => LockInv'
<1> SUFFICES ASSUME TypeOK, LockInv, [Next]_vars PROVE LockInv'
  OBVIOUS
<1>1. ASSUME NEW p \in Procs, NEW k \in Keys, NEW o \in {"turn", "delete"}, LockEnter(p, k, o)
      PROVE  LockInv'
  BY <1>1, LockEnterStep
<1>2. ASSUME NEW p \in Procs, Acquire(p) PROVE LockInv'
  BY <1>2, AcquireStep
<1>3. ASSUME NEW p \in Procs, Unlock(p) PROVE LockInv'
  BY <1>3, UnlockMutexStep, UnlockDerefStep DEF Unlock
<1>4. ASSUME NEW p \in Procs, QuietStep(p) PROVE LockInv'
  BY <1>4, QuietPreserves
<1>5. CASE UNCHANGED vars
  BY <1>5 DEF vars, lockVars, turnVars, LockInv, Linked, Used, Apart, Owned, Held,
              Counted, Refs, Stages
<1> QED BY <1>1, <1>2, <1>3, <1>4, <1>5, QuietSteps DEF Next, Handler

LEMMA AppendType ==
  ASSUME TypeOK, NEW p \in Procs, NEW m \in Message,
         conv' = [conv EXCEPT ![key[p]] = Append(@, m)]
  PROVE  conv' \in [Keys -> Seq(Message)]
<1> HIDE DEF Message
<1>1. \A k \in Keys : conv'[k] = IF k = key[p] THEN Append(conv[k], m) ELSE conv[k]
  BY DEF TypeOK
<1>2. \A k \in Keys : conv[k] \in Seq(Message)
  BY DEF TypeOK
<1>3. \A k \in Keys : Append(conv[k], m) \in Seq(Message)
  BY <1>2
<1>4. \A k \in Keys : conv'[k] \in Seq(Message)
  BY <1>1, <1>2, <1>3, Zenon
<1>5. conv' = [k \in Keys |-> conv'[k]]
  BY DEF TypeOK
<1> QED BY <1>4, <1>5, Zenon

LEMMA TypeStep ==
  TypeOK /\ LockInv /\ [Next]_vars => TypeOK'
<1> SUFFICES ASSUME TypeOK, LockInv, [Next]_vars PROVE TypeOK'
  OBVIOUS
<1>1. ASSUME NEW p \in Procs, NEW k \in Keys, NEW o \in {"turn", "delete"}, LockEnter(p, k, o)
      PROVE  TypeOK'
  <2>1. PICK l \in Locks : l = IF entry[k] = None THEN Fresh ELSE entry[k]
    BY <1>1, FreshIsFree DEF LockEnter, TypeOK
  <2>2. /\ entry' \in [Keys -> Locks \cup {None}]
        /\ refs' \in [Locks -> Nat]
        /\ holder' \in [Locks -> Procs \cup {None}]
        /\ lk' \in [Procs -> Locks \cup {None}]
    BY <1>1, <2>1 DEF LockEnter, TypeOK
  <2> QED BY <1>1, <2>2 DEF LockEnter, TypeOK, runVars
<1>2. ASSUME NEW p \in Procs, Acquire(p) PROVE TypeOK'
  BY <1>2 DEF Acquire, TypeOK, runVars
<1>3. ASSUME NEW p \in Procs, UnlockMutex(p) PROVE TypeOK'
  BY <1>3 DEF UnlockMutex, TypeOK, runVars
<1>4. ASSUME NEW p \in Procs, UnlockDeref(p) PROVE TypeOK'
  <2>1. refs' \in [Locks -> Nat]
    BY <1>4, UnlockDerefStep
  <2> QED BY <1>4, <2>1 DEF UnlockDeref, TypeOK, runVars
<1>5. ASSUME NEW p \in Procs, OpenConversation(p) \/ OpenFails(p) \/ Abort(p) \/ StartRun(p) \/ HandlerReturn(p)
      PROVE  TypeOK'
  <2> USE ReleasedType DEF TypeOK, lockVars, runVars
  <2>1. CASE OpenConversation(p)
    BY <2>1 DEF OpenConversation
  <2>2. CASE OpenFails(p)
    BY <2>2 DEF OpenFails
  <2>3. CASE Abort(p)
    BY <2>3 DEF Abort
  <2>4. CASE StartRun(p)
    BY <2>4 DEF StartRun
  <2>5. CASE HandlerReturn(p)
    <3>1. pending' \in [Procs -> BOOLEAN]
      BY <2>5 DEF HandlerReturn
    <3>2. rel' \in [Procs -> {"no", "held", "mutex", "deref", "done"}]
      BY <2>5 DEF HandlerReturn
    <3> QED BY <2>5, <3>1, <3>2 DEF HandlerReturn
  <2> QED BY <1>5, <2>1, <2>2, <2>3, <2>4, <2>5
<1>6. ASSUME NEW p \in Procs, Delete(p) \/ Condense(p) PROVE TypeOK'
  <2>1. Summary \in Message
    BY DEF Message
  <2>2. conv' \in [Keys -> Seq(Message)]
    <3>1. CASE UNCHANGED conv
      BY <3>1 DEF TypeOK
    <3>2. CASE conv' = [conv EXCEPT ![key[p]] = <<>>]
      <4>1. <<>> \in Seq(Message)
        OBVIOUS
      <4>2. conv \in [Keys -> Seq(Message)]
        BY DEF TypeOK
      <4> QED BY <3>2, <4>1, <4>2, Zenon
    <3>3. CASE conv' = [conv EXCEPT ![key[p]] = Append(@, Summary)]
      BY <2>1, <3>3, AppendType
    <3> QED BY <1>6, <3>1, <3>2, <3>3 DEF Delete, Condense
  <2>3. rel' \in [Procs -> {"no", "held", "mutex", "deref", "done"}]
    BY <1>6, ReleasedType DEF Delete, Condense, TypeOK
  <2>4. pc' \in [Procs -> {"idle", "waiting", "locked", "turn", "condensed", "streaming", "returned"}]
    <3>1. pc' = [pc EXCEPT ![p] = "returned"] \/ pc' = [pc EXCEPT ![p] = "condensed"]
      BY <1>6, Zenon DEF Delete, Condense
    <3>2. pc \in [Procs -> {"idle", "waiting", "locked", "turn", "condensed", "streaming", "returned"}]
      BY DEF TypeOK
    <3> QED BY <3>1, <3>2
  <2>5. UNCHANGED <<lockVars, pending, runVars>>
    BY <1>6 DEF Delete, Condense
  <2> QED BY <2>2, <2>3, <2>4, <2>5 DEF TypeOK, lockVars, runVars
<1>7. ASSUME NEW p \in Procs, NEW c \in Chunks, ProxySends(p, c) PROVE TypeOK'
  BY <1>7 DEF ProxySends, TypeOK, lockVars, turnVars
<1>8. ASSUME NEW p \in Procs, ProxyEnds(p) \/ PersistReceives(p) \/ PersistEOF(p) \/ CommitChecks(p)
      PROVE  TypeOK'
  <2> USE DEF TypeOK, lockVars, turnVars
  <2>1. CASE ProxyEnds(p)
    BY <2>1 DEF ProxyEnds
  <2>2. CASE PersistReceives(p)
    <3>1. stream[p] \in Seq(Chunks) /\ Tail(stream[p]) \in Seq(Chunks) /\ <<>> \in Seq(Chunks)
      BY <2>2 DEF PersistReceives
    <3>2. stream' \in [Procs -> Seq(Chunks)]
      BY <2>2, <3>1 DEF PersistReceives
    <3>3. answer' \in [Procs -> Nat]
      BY <2>2 DEF PersistReceives
    <3>4. incomplete' \in [Procs -> BOOLEAN]
      BY <2>2 DEF PersistReceives
    <3>5. bg' \in [Procs -> {"none", "draining", "drained", "user", "assistant", "finished"}]
      <4>1. bg' = bg \/ bg' = [bg EXCEPT ![p] = "drained"]
        BY <2>2, Zenon DEF PersistReceives
      <4> QED BY <4>1
    <3>6. UNCHANGED <<lockVars, turnVars, ended, sent, conv>>
      BY <2>2 DEF PersistReceives
    <3> QED BY <3>2, <3>3, <3>4, <3>5, <3>6
  <2>3. CASE PersistEOF(p)
    BY <2>3 DEF PersistEOF
  <2>4. CASE CommitChecks(p)
    BY <2>4 DEF CommitChecks
  <2> QED BY <1>8, <2>1, <2>2, <2>3, <2>4
<1>9. ASSUME NEW p \in Procs, PersistDiscards(p) PROVE TypeOK'
  BY <1>9, ReleasedType DEF PersistDiscards, TypeOK, lockVars
<1>10. ASSUME NEW p \in Procs, CommitUser(p) \/ CommitAnswer(p) PROVE TypeOK'
  <2>1. /\ User(p) \in Message /\ Nil \in Message
        /\ \A w \in BOOLEAN : Answer(p, w) \in Message
    BY DEF Message
  <2>3. \E m \in Message : conv' = [conv EXCEPT ![key[p]] = Append(@, m)]
    <3>1. CASE CommitUser(p)
      BY <2>1, <3>1 DEF CommitUser
    <3>2. CASE CommitAnswer(p)
      <4>1. (~incomplete[p]) \in BOOLEAN
        BY Zenon
      <4>2. Answer(p, ~incomplete[p]) \in Message
        BY <2>1, <4>1, Zenon
      <4> HIDE DEF Answer
      <4> QED BY <3>2, <4>2, Zenon DEF CommitAnswer
    <3> QED BY <1>10, <3>1, <3>2
  <2>4. conv' \in [Keys -> Seq(Message)]
    BY <2>3, AppendType
  <2>5. pending' \in [Procs -> BOOLEAN]
    <3>1. pending' = pending \/ pending' = [pending EXCEPT ![p] = FALSE]
      BY <1>10, Zenon DEF CommitUser, CommitAnswer
    <3>2. pending \in [Procs -> BOOLEAN]
      BY DEF TypeOK
    <3> QED BY <3>1, <3>2
  <2>6. rel' \in [Procs -> {"no", "held", "mutex", "deref", "done"}]
    BY <1>10, ReleasedType DEF CommitUser, CommitAnswer, TypeOK
  <2>7. bg' \in [Procs -> {"none", "draining", "drained", "user", "assistant", "finished"}]
    <3>1. bg' = [bg EXCEPT ![p] = "assistant"] \/ bg' = [bg EXCEPT ![p] = "finished"]
      BY <1>10, Zenon DEF CommitUser, CommitAnswer
    <3>2. bg \in [Procs -> {"none", "draining", "drained", "user", "assistant", "finished"}]
      BY DEF TypeOK
    <3> QED BY <3>1, <3>2
  <2>8. UNCHANGED <<lockVars, pc, stream, ended, incomplete, answer, sent>>
    BY <1>10 DEF CommitUser, CommitAnswer
  <2> QED BY <2>4, <2>5, <2>6, <2>7, <2>8 DEF TypeOK, lockVars
<1>11. CASE UNCHANGED vars
  BY <1>11 DEF vars, lockVars, turnVars, runVars, TypeOK
<1> QED BY <1>1, <1>2, <1>3, <1>4, <1>5, <1>6, <1>7, <1>8, <1>9, <1>10, <1>11
        DEF Next, Handler, Unlock, Persist

LEMMA Invariants == Spec => [](TypeOK /\ LockInv)
BY InitLocks, LocksStep, TypeStep, PTL DEF Spec

\* Every reachable state has its types: a reference count never goes negative and
\* an allocation always finds a lock (session.go:113-146).
THEOREM TypeCorrect == Spec => []TypeOK
BY Invariants, PTL

\* For any number of calls on any sessions, two calls never own one session at the
\* same time (session.go:113-146).
THEOREM Exclusion == Spec => []MutualExclusion
<1>1. TypeOK /\ LockInv => MutualExclusion
  BY DEF LockInv, Linked, Owned, Stages, Held, MutualExclusion
<1> QED BY <1>1, Invariants, PTL

\* unlock finds the lock its own call locked (session.go:130-138).
THEOREM UnlocksOwnLock == Spec => []UnlockFindsOwnLock
<1>1. TypeOK /\ LockInv => UnlockFindsOwnLock
  BY DEF LockInv, Linked, Owned, Stages, Held, UnlockFindsOwnLock
<1> QED BY <1>1, Invariants, PTL

\* The lock map neither leaks an entry nor drops one in use (session.go:78-84).
THEOREM ExactReferences == Spec => []RefsExact
<1>1. TypeOK /\ LockInv => RefsExact
  <2> SUFFICES ASSUME TypeOK, LockInv PROVE RefsExact
    OBVIOUS
  <2>1. \A l \in Locks : refs[l] = Cardinality({p \in Procs : lk[p] = l})
    BY DEF LockInv, Counted, Refs
  <2>2. \A k \in Keys, l \in Locks : entry[k] = l <=> \E p \in Procs : key[p] = k /\ lk[p] = l
    BY LocksFacts DEF LockInv, Linked, Used
  <2> QED BY <2>1, <2>2 DEF RefsExact
<1> QED BY <1>1, Invariants, PTL

-----------------------------------------------------------------------------
(* Writes of the store                                                     *)

\* A call holds its session from the lock to the end of what works on its turn,
\* provided the handler leaves the release to the bridge.
Working == \A p \in Procs :
  /\ pc[p] \in {"idle", "waiting", "locked", "turn", "condensed"} => bg[p] = "none"
  /\ pc[p] \in {"locked", "turn", "condensed"} => rel[p] = "held"
  /\ bg[p] \in {"draining", "drained", "user", "assistant"} => rel[p] = "held"

LEMMA WorkingStep ==
  ASSUME ~DeferDiscard, TypeOK, LockInv, Working, [Next]_vars
  PROVE  Working'
<1>1. ASSUME NEW p \in Procs, NEW k \in Keys, NEW o \in {"turn", "delete"}, LockEnter(p, k, o)
      PROVE  Working'
  BY <1>1 DEF LockEnter, Working, TypeOK, runVars
<1>2. ASSUME NEW p \in Procs, Acquire(p) \/ Unlock(p) PROVE Working'
  BY <1>2 DEF Acquire, Unlock, UnlockMutex, UnlockDeref, Working, TypeOK, runVars
<1>3. ASSUME NEW p \in Procs,
             OpenConversation(p) \/ OpenFails(p) \/ Delete(p) \/ Condense(p) \/ Abort(p)
      PROVE  Working'
  BY <1>3 DEF OpenConversation, OpenFails, Delete, Condense, Abort, Released, Working,
              TypeOK, runVars, lockVars
<1>4. ASSUME NEW p \in Procs, StartRun(p) \/ HandlerReturn(p) PROVE Working'
  BY <1>4 DEF StartRun, HandlerReturn, Working, TypeOK, runVars, lockVars
<1>5. ASSUME NEW p \in Procs, NEW c \in Chunks, ProxySends(p, c) PROVE Working'
  BY <1>5 DEF ProxySends, Working, turnVars
<1>6. ASSUME NEW p \in Procs, ProxyEnds(p) \/ Persist(p) PROVE Working'
  BY <1>6 DEF ProxyEnds, Persist, PersistReceives, PersistEOF, PersistDiscards, CommitChecks,
              CommitUser, CommitAnswer, Released, Working, TypeOK, turnVars
<1>7. CASE UNCHANGED vars
  BY <1>7 DEF vars, turnVars, runVars, Working
<1> QED BY <1>1, <1>2, <1>3, <1>4, <1>5, <1>6, <1>7 DEF Next, Handler

\* When handlers leave the release of a bridged turn to the bridge, a conversation
\* changes only in the hands of the call that owns its session
\* (session.go:5-7, runner.go:49-52).
THEOREM WritesAreOwned ==
  ASSUME ~DeferDiscard
  PROVE  Spec => WritesUnderLock
<1> DEFINE Write == \A k \in Keys :
                      conv'[k] # conv[k] => \E p \in Procs : key[p] = k /\ rel[p] = "held"
<1>1. ASSUME TypeOK, Working, Next PROVE Write
  <2> SUFFICES ASSUME NEW k \in Keys, conv'[k] # conv[k]
               PROVE  \E p \in Procs : key[p] = k /\ rel[p] = "held"
    OBVIOUS
  <2>1. PICK p \in Procs : Delete(p) \/ Condense(p) \/ CommitUser(p) \/ CommitAnswer(p)
    BY <1>1 DEF Next, Handler, Persist, Unlock, LockEnter, Acquire, UnlockMutex, UnlockDeref,
                OpenConversation, OpenFails, Abort, StartRun, HandlerReturn, ProxySends,
                ProxyEnds, PersistReceives, PersistEOF, PersistDiscards, CommitChecks
  <2>2. rel[p] = "held"
    BY <1>1, <2>1 DEF Working, Delete, Condense, CommitUser, CommitAnswer
  <2>3. key[p] = k
    BY <1>1, <2>1 DEF TypeOK, Delete, Condense, CommitUser, CommitAnswer
  <2> QED BY <2>2, <2>3
<1>2. TypeOK /\ Working /\ [Next]_vars => [Write]_vars
  BY <1>1
<1>3. Init => Working
  BY DEF Init, Working
<1>4. TypeOK /\ LockInv /\ Working /\ [Next]_vars => Working'
  BY WorkingStep
<1> QED BY <1>2, <1>3, <1>4, Invariants, PTL DEF Spec, WritesUnderLock

-----------------------------------------------------------------------------
(* No lock is forgotten                                                    *)

\* A lock that is taken is the one its holder took and has not unlocked yet.
Taken == \A l \in Locks : holder[l] # None => Held(holder[l]) /\ lk[holder[l]] = l

\* Whoever has the release before him still has work before it.
Busy == \A p \in Procs : rel[p] = "held" => AtWork(p)

LEMMA TakenStep ==
  ASSUME TypeOK, LockInv, Taken, [Next]_vars
  PROVE  Taken'
<1> USE DEF Held
<1>1. ASSUME NEW p \in Procs, NEW k \in Keys, NEW o \in {"turn", "delete"}, LockEnter(p, k, o)
      PROVE  Taken'
  <2>1. rel[p] = "no" /\ rel' = rel
    BY <1>1 DEF LockEnter, LockInv, Stages
  <2>2. \A l \in Locks : holder'[l] = None \/ holder'[l] = holder[l]
    BY <1>1 DEF LockEnter, TypeOK
  <2>3. \A q \in Procs : q # p => lk'[q] = lk[q]
    BY <1>1 DEF LockEnter, TypeOK
  <2> SUFFICES ASSUME NEW l \in Locks, holder'[l] # None
               PROVE  rel'[holder'[l]] \in {"held", "mutex"} /\ lk'[holder'[l]] = l
    BY DEF Taken
  <2>4. holder'[l] = holder[l] /\ holder[l] \in Procs
    BY <2>2 DEF TypeOK
  <2>5. rel[holder[l]] \in {"held", "mutex"} /\ lk[holder[l]] = l
    BY <2>4 DEF Taken
  <2> QED BY <2>1, <2>3, <2>4, <2>5
<1>2. ASSUME NEW p \in Procs, Acquire(p) PROVE Taken'
  BY <1>2 DEF Acquire, Taken, TypeOK
<1>3. ASSUME NEW p \in Procs, UnlockMutex(p) PROVE Taken'
  \* What p unlocks is what it locked, so it holds nothing afterwards.
  <2>1. lk[p] # None /\ entry[key[p]] = lk[p]
    BY <1>3 DEF UnlockMutex, LockInv, Linked, Stages
  <2>2. holder' = [holder EXCEPT ![lk[p]] = None] /\ rel' = [rel EXCEPT ![p] = "deref"] /\ lk' = lk
    BY <1>3, <2>1 DEF UnlockMutex
  <2> SUFFICES ASSUME NEW l \in Locks, holder'[l] # None
               PROVE  rel'[holder'[l]] \in {"held", "mutex"} /\ lk'[holder'[l]] = l
    BY DEF Taken
  <2>3. l # lk[p] /\ holder'[l] = holder[l]
    BY <2>2 DEF TypeOK
  <2>4. lk[holder[l]] = l /\ holder[l] # p /\ holder[l] \in Procs /\ rel[holder[l]] \in {"held", "mutex"}
    BY <2>3 DEF Taken, TypeOK
  <2> QED BY <2>2, <2>3, <2>4 DEF TypeOK
<1>4. ASSUME NEW p \in Procs, UnlockDeref(p) PROVE Taken'
  BY <1>4 DEF UnlockDeref, Taken, TypeOK
<1>5. ASSUME UNCHANGED <<holder, lk>>,
             \A q \in Procs : rel'[q] = rel[q] \/ (rel[q] = "held" /\ rel'[q] = "mutex")
      PROVE  Taken'
  BY <1>5 DEF Taken, TypeOK
<1>6. ASSUME NEW p \in Procs, QuietStep(p) PROVE Taken'
  <2>1. UNCHANGED <<holder, lk>>
    BY <1>6 DEF QuietStep, lockVars
  <2>2. \A q \in Procs : rel'[q] = rel[q] \/ (rel[q] = "held" /\ rel'[q] = "mutex")
    BY <1>6 DEF QuietStep, Released, TypeOK
  <2> QED BY <1>5, <2>1, <2>2
<1>7. CASE UNCHANGED vars
  BY <1>5, <1>7 DEF vars, lockVars, turnVars
<1> QED BY <1>1, <1>2, <1>3, <1>4, <1>6, <1>7, QuietSteps DEF Next, Handler, Unlock

LEMMA BusyStep ==
  ASSUME TypeOK, LockInv, Busy, [Next]_vars
  PROVE  Busy'
<1> USE DEF AtWork
<1>1. ASSUME NEW p \in Procs, NEW k \in Keys, NEW o \in {"turn", "delete"}, LockEnter(p, k, o)
      PROVE  Busy'
  BY <1>1 DEF LockEnter, Busy, LockInv, Stages, TypeOK, runVars
<1>2. ASSUME NEW p \in Procs, Acquire(p) \/ Unlock(p) PROVE Busy'
  BY <1>2 DEF Acquire, Unlock, UnlockMutex, UnlockDeref, Busy, TypeOK, runVars
<1>3. ASSUME NEW p \in Procs,
             OpenConversation(p) \/ OpenFails(p) \/ Delete(p) \/ Condense(p) \/ Abort(p)
      PROVE  Busy'
  <2> USE DEF Busy, TypeOK, runVars
  <2>1. CASE OpenConversation(p)
    BY <2>1 DEF OpenConversation
  <2>2. CASE OpenFails(p)
    BY <2>2 DEF OpenFails, Released
  <2>3. CASE Delete(p)
    BY <2>3 DEF Delete, Released
  <2>4. CASE Condense(p)
    BY <2>4 DEF Condense
  <2>5. CASE Abort(p)
    BY <2>5 DEF Abort, Released
  <2> QED BY <1>3, <2>1, <2>2, <2>3, <2>4, <2>5
<1>4. ASSUME NEW p \in Procs, StartRun(p) \/ HandlerReturn(p) PROVE Busy'
  <2> USE DEF Busy, TypeOK, runVars
  <2>1. CASE StartRun(p)
    BY <2>1 DEF StartRun
  <2>2. CASE HandlerReturn(p)
    BY <2>2 DEF HandlerReturn, Released
  <2> QED BY <1>4, <2>1, <2>2
<1>5. ASSUME NEW p \in Procs, NEW c \in Chunks, ProxySends(p, c) PROVE Busy'
  BY <1>5 DEF ProxySends, Busy, turnVars
<1>6. ASSUME NEW p \in Procs, ProxyEnds(p) \/ Persist(p) PROVE Busy'
  <2> USE DEF Busy, TypeOK, turnVars
  <2>1. CASE ProxyEnds(p) \/ PersistEOF(p) \/ CommitChecks(p)
    BY <2>1 DEF ProxyEnds, PersistEOF, CommitChecks
  <2>2. CASE PersistReceives(p)
    BY <2>2 DEF PersistReceives
  <2>3. CASE PersistDiscards(p)
    BY <2>3 DEF PersistDiscards, Released
  <2>4. CASE CommitUser(p)
    BY <2>4 DEF CommitUser
  <2>5. CASE CommitAnswer(p)
    BY <2>5 DEF CommitAnswer, Released
  <2> QED BY <1>6, <2>1, <2>2, <2>3, <2>4, <2>5 DEF Persist
<1>7. CASE UNCHANGED vars
  BY <1>7 DEF vars, turnVars, runVars, Busy
<1> QED BY <1>1, <1>2, <1>3, <1>4, <1>5, <1>6, <1>7 DEF Next, Handler

\* Whatever fails and whatever handlers do with their turns, a session is locked only
\* by a call that works for it or unlocks it: the safety half of CallsRelease
\* (session.go:162-172, 185-194, 305-314, runner.go:197-216).
THEOREM LocksAreWorkedFor == Spec => []NoLockForgotten
<1>1. Init => Taken /\ Busy
  BY DEF Init, Taken, Busy
<1>2. TypeOK /\ LockInv /\ Taken /\ Busy /\ [Next]_vars => (Taken /\ Busy)'
  BY TakenStep, BusyStep
<1>3. TypeOK /\ Taken /\ Busy => NoLockForgotten
  BY DEF TypeOK, Taken, Busy, Held, NoLockForgotten
<1> QED BY <1>1, <1>2, <1>3, Invariants, PTL DEF Spec
=============================================================================
