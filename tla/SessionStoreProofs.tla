------------------------- MODULE SessionStoreProofs -------------------------
(***************************************************************************)
(* Proofs about what the store of conversations holds, for any number of   *)
(* calls, sessions and chunks: whole turns, and answers that are whole     *)
(* unless they are marked.                                                 *)
(***************************************************************************)
EXTENDS SessionTurnsProofs, FunctionTheorems

\* The text chunks of a stream.
TextAt(s) == {i \in 1..Len(s) : s[i] = "text"}
Texts(s) == Cardinality(TextAt(s))

LEMMA TextsType ==
  ASSUME NEW s \in Seq(Chunks)
  PROVE  IsFiniteSet(TextAt(s)) /\ Texts(s) \in Nat
<1>1. IsFiniteSet(1..Len(s))
  BY FS_Interval
<1>2. TextAt(s) \in SUBSET (1..Len(s))
  BY DEF TextAt
<1> QED BY <1>1, <1>2, FS_Subset, FS_CardinalityType DEF Texts

LEMMA TextsEmpty == Texts(<<>>) = 0
<1>1. TextAt(<<>>) = {}
  BY DEF TextAt
<1> QED BY <1>1, FS_EmptySet DEF Texts

LEMMA TextsAppend ==
  ASSUME NEW s \in Seq(Chunks), NEW c \in Chunks
  PROVE  Texts(Append(s, c)) = IF c = "text" THEN Texts(s) + 1 ELSE Texts(s)
<1>1. Len(s) \in Nat /\ Len(Append(s, c)) = Len(s) + 1
  OBVIOUS
<1>2. \A i \in 1..Len(s) : Append(s, c)[i] = s[i]
  OBVIOUS
<1>3. Append(s, c)[Len(s) + 1] = c
  OBVIOUS
<1>4. CASE c = "text"
  <2>1. TextAt(Append(s, c)) = TextAt(s) \cup {Len(s) + 1}
    BY <1>1, <1>2, <1>3, <1>4 DEF TextAt
  <2>2. Len(s) + 1 \notin TextAt(s)
    BY <1>1 DEF TextAt
  <2> QED BY <1>4, <2>1, <2>2, TextsType, FS_AddElement DEF Texts
<1>5. CASE c # "text"
  <2>1. TextAt(Append(s, c)) = TextAt(s)
    BY <1>1, <1>2, <1>3, <1>5 DEF TextAt
  <2> QED BY <1>5, <2>1 DEF Texts
<1> QED BY <1>4, <1>5

LEMMA TextsTail ==
  ASSUME NEW s \in Seq(Chunks), s # <<>>
  PROVE  Texts(s) = IF Head(s) = "text" THEN Texts(Tail(s)) + 1 ELSE Texts(Tail(s))
<1>1. /\ Len(s) \in Nat \ {0} /\ Tail(s) \in Seq(Chunks) /\ Len(Tail(s)) = Len(s) - 1
      /\ Head(s) = s[1]
      /\ \A i \in 1..(Len(s) - 1) : Tail(s)[i] = s[i + 1]
  OBVIOUS
<1> DEFINE Rest == TextAt(s) \ {1}
           f == [i \in TextAt(Tail(s)) |-> i + 1]
<1>2. IsFiniteSet(Rest) /\ IsFiniteSet(TextAt(Tail(s)))
  BY <1>1, TextsType, FS_Difference
<1>3. f \in Bijection(TextAt(Tail(s)), Rest)
  <2>1. f \in [TextAt(Tail(s)) -> Rest]
    BY <1>1 DEF TextAt
  <2>2. \A i, j \in TextAt(Tail(s)) : f[i] = f[j] => i = j
    BY <1>1 DEF TextAt
  <2>3. \A j \in Rest : \E i \in TextAt(Tail(s)) : f[i] = j
    <3> SUFFICES ASSUME NEW j \in Rest PROVE \E i \in TextAt(Tail(s)) : f[i] = j
      OBVIOUS
    <3>1. j - 1 \in TextAt(Tail(s)) /\ f[j - 1] = j
      BY <1>1 DEF TextAt
    <3> QED BY <3>1
  <2> HIDE DEF f, Rest
  <2> QED BY <2>1, <2>2, <2>3, Fun_IsBij
<1>4. Cardinality(Rest) = Texts(Tail(s))
  <2> HIDE DEF f, Rest
  <2> QED BY <1>2, <1>3, FS_Bijection DEF ExistsBijection, Texts
<1>5. CASE Head(s) = "text"
  <2>1. 1 \in TextAt(s)
    BY <1>1, <1>5 DEF TextAt
  <2>2. Cardinality(Rest) = Texts(s) - 1
    BY <2>1, TextsType, FS_RemoveElement DEF Texts
  <2> QED BY <1>1, <1>4, <1>5, <2>2, TextsType
<1>6. CASE Head(s) # "text"
  <2>1. Rest = TextAt(s)
    BY <1>1, <1>6 DEF TextAt
  <2> QED BY <1>4, <1>6, <2>1 DEF Texts
<1> QED BY <1>5, <1>6

-----------------------------------------------------------------------------
(* Unmarked answers                                                        *)

\* What the proxy has forwarded, persist has collected or has still before it;
\* once it has stopped without a mark, it has collected everything.
Flow == \A p \in Procs :
  /\ bg[p] = "none" => sent[p] = 0 /\ answer[p] = 0 /\ stream[p] = <<>>
  /\ bg[p] = "draining" => answer[p] + Texts(stream[p]) = sent[p]
  /\ bg[p] \in {"drained", "user", "assistant"} /\ ~incomplete[p] =>
       ended[p] /\ answer[p] = sent[p]

\* A run begins with the end of BeginTurn and Condense.
Unbegun == \A p \in Procs :
  pc[p] \in {"idle", "waiting", "locked", "turn", "condensed"} => bg[p] = "none"

\* A stored answer is that of a call whose run is over.
Answered == \A k \in Keys : \A i \in 1..Len(conv[k]) :
  LET m == conv[k][i] IN
  m.kind = "assistant" =>
    /\ m.by \in Procs
    /\ bg[m.by] = "finished"
    /\ m.whole => ended[m.by] /\ answer[m.by] = sent[m.by]

\* The steps that do not touch a run.
LEMMA FlowUntouched ==
  ASSUME TypeOK, Flow, UNCHANGED <<stream, ended, incomplete, answer, sent>>,
         \A p \in Procs :
           \/ bg'[p] = bg[p]
           \/ bg[p] = "none" /\ bg'[p] = "draining"
           \/ bg[p] \in {"drained", "user"} /\ bg'[p] \in {"user", "assistant", "finished"}
           \/ bg'[p] = "finished"
  PROVE  Flow'
<1> SUFFICES ASSUME NEW p \in Procs
             PROVE  /\ bg'[p] = "none" => sent'[p] = 0 /\ answer'[p] = 0 /\ stream'[p] = <<>>
                    /\ bg'[p] = "draining" => answer'[p] + Texts(stream'[p]) = sent'[p]
                    /\ bg'[p] \in {"drained", "user", "assistant"} /\ ~incomplete'[p] =>
                         ended'[p] /\ answer'[p] = sent'[p]
  BY DEF Flow
<1>1. CASE bg[p] = "none" /\ bg'[p] = "draining"
  BY <1>1, TextsEmpty DEF Flow
<1>2. CASE bg'[p] = bg[p]
  BY <1>2 DEF Flow
<1>3. CASE bg[p] \in {"drained", "user"} /\ bg'[p] \in {"user", "assistant", "finished"}
  BY <1>3 DEF Flow
<1> QED BY <1>1, <1>2, <1>3

LEMMA FlowStep ==
  ASSUME TypeOK, Unbegun, Flow, [Next]_vars
  PROVE  Flow'
<1>1. ASSUME NEW p \in Procs, NEW c \in Chunks, ProxySends(p, c) PROVE Flow'
  <2> SUFFICES ASSUME NEW q \in Procs
               PROVE  /\ bg'[q] = "none" => sent'[q] = 0 /\ answer'[q] = 0 /\ stream'[q] = <<>>
                      /\ bg'[q] = "draining" => answer'[q] + Texts(stream'[q]) = sent'[q]
                      /\ bg'[q] \in {"drained", "user", "assistant"} /\ ~incomplete'[q] =>
                           ended'[q] /\ answer'[q] = sent'[q]
    BY DEF Flow
  <2>1. CASE q # p
    BY <1>1, <2>1 DEF ProxySends, Flow, TypeOK
  <2>2. CASE q = p /\ bg[p] = "draining"
    <3>1. stream[p] \in Seq(Chunks) /\ answer[p] \in Nat /\ sent[p] \in Nat
      BY DEF TypeOK
    <3>2. /\ stream'[p] = Append(stream[p], c)
          /\ sent'[p] = IF c = "text" THEN sent[p] + 1 ELSE sent[p]
          /\ answer'[p] = answer[p] /\ bg'[p] = bg[p]
      BY <1>1, <2>2 DEF ProxySends, TypeOK
    <3>3. answer[p] + Texts(stream[p]) = sent[p]
      BY <2>2 DEF Flow
    <3> QED BY <2>2, <3>1, <3>2, <3>3, TextsAppend, TextsType
  <2>3. CASE q = p /\ bg[p] # "draining"
    \* Had persist stopped without a mark, the stream would have ended.
    <3>1. bg[p] # "none" /\ ~ended[p] /\ bg'[p] = bg[p]
      BY <1>1 DEF ProxySends
    <3>2. bg[p] \in {"drained", "user", "assistant"} => incomplete[p]
      BY <3>1 DEF Flow
    <3>3. incomplete[p] => incomplete'[p]
      BY <1>1 DEF ProxySends, TypeOK
    <3> QED BY <2>3, <3>1, <3>2, <3>3
  <2> QED BY <2>1, <2>2, <2>3
<1>2. ASSUME NEW p \in Procs, ProxyEnds(p) PROVE Flow'
  BY <1>2 DEF ProxyEnds, Flow, TypeOK
<1>3. ASSUME NEW p \in Procs, PersistReceives(p) PROVE Flow'
  <2> SUFFICES ASSUME NEW q \in Procs
               PROVE  /\ bg'[q] = "none" => sent'[q] = 0 /\ answer'[q] = 0 /\ stream'[q] = <<>>
                      /\ bg'[q] = "draining" => answer'[q] + Texts(stream'[q]) = sent'[q]
                      /\ bg'[q] \in {"drained", "user", "assistant"} /\ ~incomplete'[q] =>
                           ended'[q] /\ answer'[q] = sent'[q]
    BY DEF Flow
  <2>1. CASE q # p
    <3>1. /\ bg'[q] = bg[q] /\ sent'[q] = sent[q] /\ answer'[q] = answer[q]
          /\ stream'[q] = stream[q] /\ ended'[q] = ended[q]
      BY <1>3, <2>1 DEF PersistReceives, TypeOK
    <3>2. incomplete'[q] = incomplete[q]
      BY <1>3, <2>1 DEF PersistReceives, TypeOK
    <3> QED BY <3>1, <3>2 DEF Flow
  <2>2. CASE q = p /\ Head(stream[p]) = "error"
    <3>1. bg'[p] = "drained"
      BY <1>3, <2>2 DEF PersistReceives, TypeOK
    <3>2. incomplete'[p]
      BY <1>3, <2>2 DEF PersistReceives, TypeOK
    <3> QED BY <2>2, <3>1, <3>2
  <2>3. CASE q = p /\ Head(stream[p]) # "error"
    <3>1. /\ stream[p] \in Seq(Chunks) /\ stream[p] # <<>> /\ Tail(stream[p]) \in Seq(Chunks)
          /\ answer[p] \in Nat /\ sent[p] \in Nat
      BY <1>3 DEF PersistReceives, TypeOK
    <3>2. /\ stream'[p] = Tail(stream[p])
          /\ answer'[p] = IF Head(stream[p]) = "text" THEN answer[p] + 1 ELSE answer[p]
          /\ sent'[p] = sent[p] /\ bg'[p] = "draining"
      BY <1>3, <2>3 DEF PersistReceives, TypeOK
    <3>3. answer[p] + Texts(stream[p]) = sent[p]
      BY <1>3 DEF PersistReceives, Flow
    <3>4. /\ Texts(stream[p]) = IF Head(stream[p]) = "text" THEN Texts(Tail(stream[p])) + 1
                                                           ELSE Texts(Tail(stream[p]))
          /\ Texts(Tail(stream[p])) \in Nat
      BY <3>1, TextsTail, TextsType
    <3> QED BY <2>3, <3>1, <3>2, <3>3, <3>4
  <2> QED BY <2>1, <2>2, <2>3
<1>4. ASSUME NEW p \in Procs, PersistEOF(p) PROVE Flow'
  <2>1. ended[p] /\ answer[p] = sent[p]
    <3>1. answer[p] + Texts(<<>>) = sent[p] /\ answer[p] \in Nat
      BY <1>4 DEF PersistEOF, Flow, TypeOK
    <3> QED BY <1>4, <3>1, TextsEmpty DEF PersistEOF
  <2> QED BY <1>4, <2>1 DEF PersistEOF, Flow, TypeOK
<1>5. ASSUME NEW p \in Procs,
             PersistDiscards(p) \/ CommitChecks(p) \/ CommitUser(p) \/ CommitAnswer(p)
      PROVE  Flow'
  <2>1. UNCHANGED <<stream, ended, incomplete, answer, sent>>
    BY <1>5 DEF PersistDiscards, CommitChecks, CommitUser, CommitAnswer
  <2>2. \A q \in Procs :
           \/ bg'[q] = bg[q]
           \/ bg[q] \in {"drained", "user"} /\ bg'[q] \in {"user", "assistant", "finished"}
           \/ bg'[q] = "finished"
    BY <1>5 DEF PersistDiscards, CommitChecks, CommitUser, CommitAnswer, TypeOK
  <2> QED BY <2>1, <2>2, FlowUntouched
<1>6. ASSUME NEW p \in Procs, StartRun(p) PROVE Flow'
  <2>1. UNCHANGED <<stream, ended, incomplete, answer, sent>>
    BY <1>6 DEF StartRun
  <2>2. \A q \in Procs : bg'[q] = bg[q] \/ (bg[q] = "none" /\ bg'[q] = "draining")
    BY <1>6 DEF StartRun, Unbegun, TypeOK
  <2> QED BY <2>1, <2>2, FlowUntouched
<1>7. CASE UNCHANGED runVars
  BY <1>7 DEF runVars, Flow
<1> QED BY <1>1, <1>2, <1>3, <1>4, <1>5, <1>6, <1>7
        DEF Next, Handler, Unlock, Persist, LockEnter, Acquire, UnlockMutex, UnlockDeref,
            OpenConversation, OpenFails, Delete, Condense, Abort, HandlerReturn, vars

LEMMA UnbegunStep ==
  ASSUME TypeOK, Unbegun, [Next]_vars
  PROVE  Unbegun'
<1>1. ASSUME NEW p \in Procs, NEW k \in Keys, NEW o \in {"turn", "delete"}, LockEnter(p, k, o)
      PROVE  Unbegun'
  BY <1>1 DEF LockEnter, Unbegun, TypeOK, runVars
<1>2. ASSUME NEW p \in Procs, Handler(p) \/ Unlock(p) \/ Condense(p) PROVE Unbegun'
  BY <1>2 DEF Handler, Unlock, Acquire, UnlockMutex, UnlockDeref, OpenConversation, OpenFails,
              Delete, Condense, Abort, StartRun, HandlerReturn, Unbegun, TypeOK, runVars
<1>3. ASSUME NEW p \in Procs, NEW c \in Chunks, ProxySends(p, c) PROVE Unbegun'
  BY <1>3 DEF ProxySends, Unbegun, turnVars
<1>4. ASSUME NEW p \in Procs, ProxyEnds(p) \/ Persist(p) PROVE Unbegun'
  BY <1>4 DEF ProxyEnds, Persist, PersistReceives, PersistEOF, PersistDiscards, CommitChecks,
              CommitUser, CommitAnswer, Unbegun, TypeOK, turnVars
<1>5. CASE UNCHANGED vars
  BY <1>5 DEF vars, turnVars, runVars, Unbegun
<1> QED BY <1>1, <1>2, <1>3, <1>4, <1>5 DEF Next

\* A run that is over stays so, and what it has counted stays.
LEMMA Settled ==
  ASSUME TypeOK, Unbegun, [Next]_vars, NEW q \in Procs, bg[q] = "finished"
  PROVE  /\ bg'[q] = "finished" /\ answer'[q] = answer[q]
         /\ ended[q] => ended'[q] /\ sent'[q] = sent[q]
<1>1. ASSUME NEW p \in Procs, NEW c \in Chunks, ProxySends(p, c)
      PROVE  /\ bg'[q] = "finished" /\ answer'[q] = answer[q]
             /\ ended[q] => ended'[q] /\ sent'[q] = sent[q]
  BY <1>1 DEF ProxySends, TypeOK
<1>2. ASSUME NEW p \in Procs, StartRun(p) \/ ProxyEnds(p) \/ Persist(p)
      PROVE  /\ bg'[q] = "finished" /\ answer'[q] = answer[q]
             /\ ended[q] => ended'[q] /\ sent'[q] = sent[q]
  <2> USE DEF TypeOK
  <2>1. CASE StartRun(p)
    BY <2>1 DEF StartRun, Unbegun
  <2>2. CASE ProxyEnds(p)
    BY <2>2 DEF ProxyEnds
  <2>3. CASE PersistReceives(p)
    BY <2>3 DEF PersistReceives
  <2>4. CASE PersistEOF(p) \/ PersistDiscards(p) \/ CommitChecks(p)
    BY <2>4 DEF PersistEOF, PersistDiscards, CommitChecks
  <2>5. CASE CommitUser(p) \/ CommitAnswer(p)
    BY <2>5 DEF CommitUser, CommitAnswer
  <2> QED BY <1>2, <2>1, <2>2, <2>3, <2>4, <2>5 DEF Persist
<1>3. CASE UNCHANGED runVars
  BY <1>3 DEF runVars
<1> QED BY <1>1, <1>2, <1>3
        DEF Next, Handler, Unlock, LockEnter, Acquire, UnlockMutex, UnlockDeref,
            OpenConversation, OpenFails, Delete, Condense, Abort, HandlerReturn, vars

\* What a step can do to the store: nothing, delete a conversation, or append one
\* message to one.
Appends(p, m) == conv' = [conv EXCEPT ![key[p]] = Append(@, m)]

LEMMA StoreSteps ==
  ASSUME TypeOK, [Next]_vars
  PROVE  \/ UNCHANGED conv
         \/ \E p \in Procs :
              \/ Delete(p) /\ conv' = [conv EXCEPT ![key[p]] = <<>>]
              \/ Condense(p) /\ Appends(p, Summary)
              \/ CommitUser(p) /\ Appends(p, IF pending[p] THEN User(p) ELSE Nil)
              \/ CommitAnswer(p) /\ Appends(p, Answer(p, ~incomplete[p]))
<1>1. ASSUME NEW p \in Procs, Delete(p)
      PROVE  UNCHANGED conv \/ conv' = [conv EXCEPT ![key[p]] = <<>>]
  BY <1>1 DEF Delete
<1>2. ASSUME NEW p \in Procs PROVE Condense(p) => Appends(p, Summary)
  BY DEF Condense, Appends
<1>3. ASSUME NEW p \in Procs PROVE CommitUser(p) => Appends(p, IF pending[p] THEN User(p) ELSE Nil)
  BY DEF CommitUser, Appends
<1>4. ASSUME NEW p \in Procs PROVE CommitAnswer(p) => Appends(p, Answer(p, ~incomplete[p]))
  BY DEF CommitAnswer, Appends
<1>5. UNCHANGED conv \/ \E p \in Procs : Delete(p) \/ Condense(p) \/ CommitUser(p) \/ CommitAnswer(p)
  BY DEF Next, Handler, Persist, Unlock, LockEnter, Acquire, UnlockMutex, UnlockDeref,
         OpenConversation, OpenFails, Abort, StartRun, HandlerReturn, ProxySends,
         ProxyEnds, PersistReceives, PersistEOF, PersistDiscards, CommitChecks, vars
<1> QED BY <1>1, <1>2, <1>3, <1>4, <1>5

\* An append leaves what was there and adds one message at the end.
LEMMA AppendedAt ==
  ASSUME TypeOK, NEW p \in Procs, NEW m, Appends(p, m), NEW k \in Keys
  PROVE  /\ Len(conv[k]) \in Nat
         /\ \A i \in 1..Len(conv[k]) : conv'[k][i] = conv[k][i]
         /\ k = key[p] => Len(conv'[k]) = Len(conv[k]) + 1 /\ conv'[k][Len(conv[k]) + 1] = m
         /\ k # key[p] => conv'[k] = conv[k]
<1> HIDE DEF Message
<1>1. conv[k] \in Seq(Message)
  BY DEF TypeOK
<1>2. conv'[k] = IF k = key[p] THEN Append(conv[k], m) ELSE conv[k]
  BY DEF Appends, TypeOK
<1>3. Len(conv[k]) \in Nat
  BY <1>1
<1>4. /\ Len(Append(conv[k], m)) = Len(conv[k]) + 1
      /\ Append(conv[k], m)[Len(conv[k]) + 1] = m
      /\ \A i \in 1..Len(conv[k]) : Append(conv[k], m)[i] = conv[k][i]
  BY <1>1
<1> QED BY <1>2, <1>3, <1>4

LEMMA AnsweredStep ==
  ASSUME TypeOK, Unbegun, Flow, Answered, [Next]_vars
  PROVE  Answered'
<1> DEFINE Fine(m) == m.kind = "assistant" =>
                        /\ m.by \in Procs
                        /\ bg'[m.by] = "finished"
                        /\ m.whole => ended'[m.by] /\ answer'[m.by] = sent'[m.by]
<1>1. ASSUME NEW k \in Keys, NEW i \in 1..Len(conv[k]) PROVE Fine(conv[k][i])
  BY <1>1, Settled DEF Answered
<1>2. ASSUME NEW p \in Procs, NEW m, Appends(p, m), Fine(m) PROVE Answered'
  <2> SUFFICES ASSUME NEW k \in Keys, NEW i \in 1..Len(conv'[k]) PROVE Fine(conv'[k][i])
    BY DEF Answered
  <2> HIDE DEF Fine
  <2>1. /\ Len(conv[k]) \in Nat
        /\ \A j \in 1..Len(conv[k]) : conv'[k][j] = conv[k][j]
        /\ k = key[p] => Len(conv'[k]) = Len(conv[k]) + 1 /\ conv'[k][Len(conv[k]) + 1] = m
        /\ k # key[p] => conv'[k] = conv[k]
    BY <1>2, AppendedAt
  <2>2. CASE i \in 1..Len(conv[k])
    BY <1>1, <2>1, <2>2
  <2>3. CASE i \notin 1..Len(conv[k])
    <3>1. k = key[p] /\ i = Len(conv[k]) + 1
      BY <2>1, <2>3
    <3> QED BY <1>2, <2>1, <3>1
  <2> QED BY <2>2, <2>3
<1>3. CASE UNCHANGED conv
  BY <1>1, <1>3 DEF Answered
<1>4. ASSUME NEW p \in Procs, conv' = [conv EXCEPT ![key[p]] = <<>>] PROVE Answered'
  <2> SUFFICES ASSUME NEW k \in Keys, NEW i \in 1..Len(conv'[k]) PROVE Fine(conv'[k][i])
    BY DEF Answered
  <2>1. conv'[k] = <<>> \/ conv'[k] = conv[k]
    BY <1>4 DEF TypeOK
  <2> HIDE DEF Fine
  <2> QED BY <1>1, <2>1
<1>5. Fine(Summary) /\ Fine(Nil) /\ \A p \in Procs : Fine(User(p))
  BY DEF Summary, Nil, User
<1>6. ASSUME NEW p \in Procs, CommitAnswer(p) PROVE Fine(Answer(p, ~incomplete[p]))
  <2>1. bg'[p] = "finished" /\ UNCHANGED <<ended, answer, sent>>
    BY <1>6 DEF CommitAnswer, TypeOK
  <2>2. ~incomplete[p] => ended[p] /\ answer[p] = sent[p]
    BY <1>6 DEF CommitAnswer, Flow
  <2> QED BY <2>1, <2>2 DEF Answer
<1> HIDE DEF Fine
<1>7. ASSUME NEW p \in Procs, CommitUser(p), Appends(p, IF pending[p] THEN User(p) ELSE Nil)
      PROVE  Answered'
  BY <1>2, <1>5, <1>7
<1> QED BY <1>2, <1>3, <1>4, <1>5, <1>6, <1>7, StoreSteps

\* An answer stored without the incomplete mark has all the text the client was
\* sent, whatever a handler does with its turn meanwhile (runner.go:18-19).
THEOREM UnmarkedAnswers == Spec => []UntaggedAnswersAreWhole
<1>1. Init => Unbegun /\ Flow /\ Answered
  <2> SUFFICES ASSUME Init PROVE Unbegun /\ Flow /\ Answered
    OBVIOUS
  <2>1. Unbegun /\ Flow
    BY DEF Init, Unbegun, Flow
  <2>2. Answered
    BY DEF Init, Answered
  <2> QED BY <2>1, <2>2
<1>2. TypeOK /\ Unbegun /\ Flow /\ Answered /\ [Next]_vars => (Unbegun /\ Flow /\ Answered)'
  BY UnbegunStep, FlowStep, AnsweredStep
<1>3. Answered => UntaggedAnswersAreWhole
  BY DEF Answered, UntaggedAnswersAreWhole
<1> QED BY <1>1, <1>2, <1>3, Invariants, PTL DEF Spec

-----------------------------------------------------------------------------
(* Whole turns                                                             *)

\* The user message is held back until the answer is there to be stored with it.
HeldBack == \A p \in Procs :
  /\ pc[p] \in {"turn", "condensed"} => pending[p]
  /\ bg[p] \in {"draining", "drained", "user"} => pending[p]

\* Who wrote a stored message, to which conversation and when.
Authored == \A k \in Keys : \A i \in 1..Len(conv[k]) :
  LET m == conv[k][i] IN
  m.kind = "user" => /\ m.by \in Procs
                     /\ key[m.by] = k
                     /\ bg[m.by] \in {"assistant", "finished"}

\* Between the two appends of a commit nothing comes in between.
Halfway == \A p \in Procs : bg[p] = "assistant" =>
  /\ key[p] \in Keys
  /\ Len(conv[key[p]]) > 0
  /\ conv[key[p]][Len(conv[key[p]])] = User(p)

TurnInv == Working /\ HeldBack /\ Authored /\ Halfway /\ WholeTurns

LEMMA HeldBackStep ==
  ASSUME ~DeferDiscard, TypeOK, LockInv, Working, HeldBack, [Next]_vars
  PROVE  HeldBack'
<1>1. ASSUME NEW p \in Procs, NEW k \in Keys, NEW o \in {"turn", "delete"}, LockEnter(p, k, o)
      PROVE  HeldBack'
  BY <1>1 DEF LockEnter, HeldBack, TypeOK, runVars
<1>2. ASSUME NEW p \in Procs, Acquire(p) \/ Unlock(p) PROVE HeldBack'
  BY <1>2 DEF Acquire, Unlock, UnlockMutex, UnlockDeref, HeldBack, TypeOK, runVars
<1>3. ASSUME NEW p \in Procs,
             OpenConversation(p) \/ OpenFails(p) \/ Delete(p) \/ Condense(p) \/ Abort(p)
      PROVE  HeldBack'
  BY <1>3 DEF OpenConversation, OpenFails, Delete, Condense, Abort, Working, HeldBack,
              TypeOK, runVars
<1>4. ASSUME NEW p \in Procs, StartRun(p) \/ HandlerReturn(p) PROVE HeldBack'
  BY <1>4 DEF StartRun, HandlerReturn, HeldBack, TypeOK, runVars
<1>5. ASSUME NEW p \in Procs, NEW c \in Chunks, ProxySends(p, c) PROVE HeldBack'
  BY <1>5 DEF ProxySends, HeldBack, turnVars
<1>6. ASSUME NEW p \in Procs, ProxyEnds(p) \/ Persist(p) PROVE HeldBack'
  BY <1>6 DEF ProxyEnds, Persist, PersistReceives, PersistEOF, PersistDiscards, CommitChecks,
              CommitUser, CommitAnswer, Working, HeldBack, TypeOK, turnVars
<1>7. CASE UNCHANGED vars
  BY <1>7 DEF vars, turnVars, runVars, HeldBack
<1> QED BY <1>1, <1>2, <1>3, <1>4, <1>5, <1>6, <1>7 DEF Next, Handler

\* A call that has begun to store its turn stays with its conversation, and comes
\* on only by the commit.
LEMMA Committing ==
  ASSUME TypeOK, Working, HeldBack, [Next]_vars, NEW q \in Procs
  PROVE  /\ bg[q] \in {"assistant", "finished"} =>
              key'[q] = key[q] /\ bg'[q] \in {"assistant", "finished"}
         /\ bg[q] = "assistant" /\ ~CommitAnswer(q) => bg'[q] = "assistant"
         /\ bg'[q] = "assistant" => bg[q] = "assistant" \/ CommitUser(q)
<1> DEFINE Goal == /\ bg[q] \in {"assistant", "finished"} =>
                        key'[q] = key[q] /\ bg'[q] \in {"assistant", "finished"}
                   /\ bg[q] = "assistant" /\ ~CommitAnswer(q) => bg'[q] = "assistant"
                   /\ bg'[q] = "assistant" => bg[q] = "assistant" \/ CommitUser(q)
<1>1. ASSUME NEW p \in Procs, NEW k \in Keys, NEW o \in {"turn", "delete"}, LockEnter(p, k, o)
      PROVE  Goal
  BY <1>1 DEF LockEnter, Working, TypeOK, runVars
<1>2. ASSUME NEW p \in Procs, Handler(p) \/ Unlock(p) \/ Condense(p) PROVE Goal
  BY <1>2 DEF Handler, Unlock, Acquire, UnlockMutex, UnlockDeref, OpenConversation, OpenFails,
              Delete, Condense, Abort, StartRun, HandlerReturn, Working, TypeOK, runVars, lockVars
<1>3. ASSUME NEW p \in Procs, NEW c \in Chunks, ProxySends(p, c) PROVE Goal
  BY <1>3 DEF ProxySends, lockVars
<1>4. ASSUME NEW p \in Procs, ProxyEnds(p) \/ PersistReceives(p) \/ PersistEOF(p)
                              \/ PersistDiscards(p) \/ CommitChecks(p)
      PROVE  Goal
  BY <1>4 DEF ProxyEnds, PersistReceives, PersistEOF, PersistDiscards, CommitChecks,
              HeldBack, TypeOK, lockVars
<1>5. ASSUME NEW p \in Procs, CommitUser(p) PROVE Goal
  <2>1. key' = key /\ bg[p] = "user" /\ bg' = [bg EXCEPT ![p] = "assistant"]
    BY <1>5 DEF CommitUser, lockVars
  <2>2. CASE q = p
    BY <1>5, <2>1, <2>2 DEF TypeOK
  <2>3. CASE q # p
    BY <2>1, <2>3 DEF TypeOK
  <2> QED BY <2>2, <2>3
<1>6. ASSUME NEW p \in Procs, CommitAnswer(p) PROVE Goal
  <2>1. key' = key /\ bg[p] = "assistant" /\ bg' = [bg EXCEPT ![p] = "finished"]
    BY <1>6 DEF CommitAnswer, lockVars
  <2>2. CASE q = p
    BY <1>6, <2>1, <2>2 DEF TypeOK
  <2>3. CASE q # p
    BY <2>1, <2>3 DEF TypeOK
  <2> QED BY <2>2, <2>3
<1>7. CASE UNCHANGED vars
  BY <1>7 DEF vars, lockVars, runVars
<1> QED BY <1>1, <1>2, <1>3, <1>4, <1>5, <1>6, <1>7 DEF Next, Persist

\* The call that changes a conversation is the only one between two appends, if
\* any is.
LEMMA SoleWriter ==
  ASSUME TypeOK, LockInv, Working, NEW p \in Procs, NEW q \in Procs,
         Delete(p) \/ Condense(p) \/ CommitUser(p) \/ CommitAnswer(p),
         bg[q] = "assistant", key[q] = key[p]
  PROVE  q = p /\ CommitAnswer(p)
<1>1. rel[p] = "held" /\ rel[q] = "held"
  BY DEF Working, Delete, Condense, CommitUser, CommitAnswer
<1>2. MutualExclusion
  BY DEF LockInv, Linked, Owned, Stages, Held, MutualExclusion
<1>3. q = p
  BY <1>1, <1>2 DEF MutualExclusion, Held
<1> QED BY <1>3 DEF Working, Delete, Condense, CommitUser, CommitAnswer

\* The turns of one conversation, b being where the persistence goroutines are.
TurnsIn(q, b) == \A i \in 1..Len(q) :
  /\ q[i].kind # "nil"
  /\ q[i].kind = "assistant" => i > 1 /\ q[i - 1] = User(q[i].by)
  /\ q[i].kind = "user" =>
       /\ IF i = Len(q) THEN b[q[i].by] = "assistant"
          ELSE q[i + 1].kind = "assistant" /\ q[i + 1].by = q[i].by
       /\ \A j \in 1..Len(q) : q[j] = q[i] => j = i

\* r is q and one message more, which suits its place.
Grown(q, r, m, b) ==
  /\ Len(q) \in Nat /\ Len(r) = Len(q) + 1 /\ r[Len(q) + 1] = m
  /\ \A i \in 1..Len(q) : r[i] = q[i]
  /\ m.kind # "nil"
  /\ m.kind = "assistant" => Len(q) > 0 /\ q[Len(q)] = User(m.by)
  /\ m.kind = "user" => b[m.by] = "assistant" /\ \A j \in 1..Len(q) : q[j] # m
  /\ Len(q) > 0 /\ q[Len(q)].kind = "user" => m.kind = "assistant" /\ m.by = q[Len(q)].by

LEMMA AppendKeepsTurns ==
  ASSUME NEW q, NEW r, NEW m, NEW a, NEW b, TurnsIn(q, a), Grown(q, r, m, b)
  PROVE  TurnsIn(r, b)
<1> DEFINE n == Len(q)
<1> USE DEF Grown
<1> SUFFICES ASSUME NEW i \in 1..(n + 1)
             PROVE  /\ r[i].kind # "nil"
                    /\ r[i].kind = "assistant" => i > 1 /\ r[i - 1] = User(r[i].by)
                    /\ r[i].kind = "user" =>
                         /\ IF i = n + 1 THEN b[r[i].by] = "assistant"
                            ELSE r[i + 1].kind = "assistant" /\ r[i + 1].by = r[i].by
                         /\ \A j \in 1..(n + 1) : r[j] = r[i] => j = i
  BY DEF TurnsIn
<1> HIDE DEF User
<1>1. CASE i = n + 1
  BY <1>1
<1>2. CASE i \in 1..n
  <2>1. /\ q[i].kind # "nil"
        /\ q[i].kind = "assistant" => i > 1 /\ q[i - 1] = User(q[i].by)
        /\ q[i].kind = "user" =>
             /\ i # n => q[i + 1].kind = "assistant" /\ q[i + 1].by = q[i].by
             /\ \A j \in 1..n : q[j] = q[i] => j = i
    BY <1>2 DEF TurnsIn
  <2>2. r[i].kind = "assistant" => i > 1 /\ r[i - 1] = User(r[i].by)
    BY <1>2, <2>1
  <2>3. r[i].kind = "user" => r[i + 1].kind = "assistant" /\ r[i + 1].by = r[i].by
    BY <1>2, <2>1
  <2>4. ASSUME r[i].kind = "user" PROVE \A j \in 1..(n + 1) : r[j] = r[i] => j = i
    BY <1>2, <2>1, <2>4
  <2> QED BY <1>2, <2>1, <2>2, <2>3, <2>4
<1> QED BY <1>1, <1>2
LEMMA TurnsOf ==
  /\ WholeTurns <=> \A k \in Keys : TurnsIn(conv[k], bg)
  /\ WholeTurns' <=> \A k \in Keys : TurnsIn(conv'[k], bg')
BY DEF WholeTurns, TurnsIn

\* A conversation that is left alone keeps its turns.
LEMMA KeptTurns ==
  ASSUME NEW q, NEW a, NEW b, TurnsIn(q, a),
         \A i \in 1..Len(q) : q[i].kind = "user" /\ a[q[i].by] = "assistant"
                                => b[q[i].by] = "assistant" \/ i # Len(q)
  PROVE  TurnsIn(q, b)
BY DEF TurnsIn

LEMMA TurnStep ==
  ASSUME ~DeferDiscard, TypeOK, LockInv, TurnInv, [Next]_vars
  PROVE  TurnInv'
<1> USE DEF TurnInv
<1>1. Working' /\ HeldBack'
  BY WorkingStep, HeldBackStep
<1>2. \A k \in Keys : TurnsIn(conv[k], bg)
  BY TurnsOf
\* What is left of a conversation keeps its authors.
<1>3. ASSUME NEW k \in Keys, NEW i \in 1..Len(conv[k]), conv[k][i].kind = "user"
      PROVE  /\ conv[k][i].by \in Procs
             /\ key'[conv[k][i].by] = k
             /\ bg'[conv[k][i].by] \in {"assistant", "finished"}
  BY <1>3, Committing DEF Authored
\* A conversation nobody answers in keeps its turns.
<1>4. ASSUME NEW k \in Keys, \A p \in Procs : CommitAnswer(p) => key[p] # k
      PROVE  TurnsIn(conv[k], bg')
  <2>1. \A i \in 1..Len(conv[k]) :
           conv[k][i].kind = "user" /\ bg[conv[k][i].by] = "assistant"
             => bg'[conv[k][i].by] = "assistant"
    BY <1>4, Committing DEF Authored
  <2> QED BY <1>2, <2>1, KeptTurns
\* And so does its last message.
<1>5. ASSUME NEW q \in Procs, bg[q] = "assistant", ~CommitAnswer(q), conv'[key[q]] = conv[key[q]]
      PROVE  /\ key'[q] \in Keys
             /\ Len(conv'[key'[q]]) > 0
             /\ conv'[key'[q]][Len(conv'[key'[q]])] = User(q)
  BY <1>5, Committing DEF Halfway
<1>6. ASSUME NEW p \in Procs, Delete(p) \/ Condense(p) \/ CommitUser(p) \/ CommitAnswer(p)
      PROVE  key[p] \in Keys
  <2>1. rel[p] = "held"
    BY <1>6 DEF Working, Delete, Condense, CommitUser, CommitAnswer
  <2> QED BY <2>1 DEF LockInv, Stages, Linked
<1>7. ASSUME NEW p \in Procs, CommitUser(p) \/ CommitAnswer(p) PROVE conv' # conv
  <2>1. PICK m : Appends(p, m)
    BY <1>7 DEF CommitUser, CommitAnswer, Appends
  <2>2. Len(conv'[key[p]]) = Len(conv[key[p]]) + 1 /\ Len(conv[key[p]]) \in Nat
    BY <1>6, <1>7, <2>1, AppendedAt
  <2> QED BY <2>2
<1>8. CASE UNCHANGED conv
  <2>1. ASSUME NEW p \in Procs PROVE ~CommitAnswer(p) /\ ~CommitUser(p)
    BY <1>7, <1>8
  <2>2. Authored'
    BY <1>3, <1>8 DEF Authored
  <2>3. WholeTurns'
    BY <1>4, <1>8, <2>1, TurnsOf
  <2>4. Halfway'
    BY <1>5, <1>8, <2>1, Committing DEF Halfway
  <2> QED BY <1>1, <2>2, <2>3, <2>4
<1>9. ASSUME NEW p \in Procs, Delete(p), conv' = [conv EXCEPT ![key[p]] = <<>>] PROVE TurnInv'
  <2>1. \A k \in Keys : conv'[k] = IF k = key[p] THEN <<>> ELSE conv[k]
    BY <1>9 DEF TypeOK
  <2>2. bg' = bg /\ key' = key
    BY <1>9 DEF Delete, runVars, lockVars
  <2>3. Authored'
    BY <1>3, <2>1 DEF Authored
  <2>4. WholeTurns'
    <3>1. TurnsIn(<<>>, bg')
      BY DEF TurnsIn
    <3>2. \A k \in Keys : TurnsIn(conv'[k], bg')
      BY <1>2, <2>1, <2>2, <3>1
    <3> QED BY <3>2, TurnsOf
  <2>5. Halfway'
    <3> SUFFICES ASSUME NEW q \in Procs, bg'[q] = "assistant"
                 PROVE  /\ key'[q] \in Keys
                        /\ Len(conv'[key'[q]]) > 0
                        /\ conv'[key'[q]][Len(conv'[key'[q]])] = User(q)
      BY DEF Halfway
    <3>1. bg[q] = "assistant" /\ key[q] \in Keys
      BY <2>2 DEF Halfway
    <3>2. key[q] # key[p] /\ ~CommitAnswer(q)
      <4>1. ~CommitAnswer(q)
        BY <2>2, <3>1 DEF CommitAnswer, TypeOK
      <4>2. ~CommitAnswer(p)
        BY <1>9 DEF Delete, CommitAnswer, Working
      <4> QED BY <1>9, <3>1, <4>1, <4>2, SoleWriter
    <3> QED BY <1>5, <2>1, <3>1, <3>2
  <2> QED BY <1>1, <2>3, <2>4, <2>5
\* A message is appended.
<1>10. ASSUME NEW p \in Procs, NEW m,
              Condense(p) \/ CommitUser(p) \/ CommitAnswer(p), Appends(p, m),
              m.kind = "user" => m.by = p /\ bg'[p] = "assistant",
              CommitUser(p) => m = User(p),
              CommitAnswer(p) => m.kind = "assistant" /\ m.by = p,
              Condense(p) => m.kind = "summary"
       PROVE  TurnInv'
  <2> DEFINE k == key[p]
             n == Len(conv[k])
  <2>1. k \in Keys /\ n \in Nat
    BY <1>6, <1>10, AppendedAt
  <2>2. /\ \A i \in 1..n : conv'[k][i] = conv[k][i]
        /\ Len(conv'[k]) = n + 1 /\ conv'[k][n + 1] = m
        /\ \A j \in Keys : j # k => conv'[j] = conv[j]
    BY <1>10, <2>1, AppendedAt
  <2>3. key' = key
    BY <1>10 DEF Condense, CommitUser, CommitAnswer, lockVars
  <2>4. ASSUME NEW q \in Procs, q # p PROVE ~CommitAnswer(q) /\ ~CommitUser(q)
    <3>1. bg'[p] # bg[p] \/ pc'[p] # pc[p]
      BY <1>10 DEF Condense, CommitUser, CommitAnswer, TypeOK
    <3>2. ~CommitAnswer(q) /\ ~CommitUser(q)
      BY <2>4, <3>1 DEF CommitUser, CommitAnswer, TypeOK
    <3> QED BY <3>2
  <2>5. CommitUser(p) => ~CommitAnswer(p)
    BY DEF CommitUser, CommitAnswer
  <2>6. n > 0 /\ conv[k][n].kind = "user" => CommitAnswer(p) /\ conv[k][n].by = p
    <3> SUFFICES ASSUME n > 0, conv[k][n].kind = "user"
                 PROVE  CommitAnswer(p) /\ conv[k][n].by = p
      OBVIOUS
    <3>1. n \in 1..Len(conv[k])
      BY <2>1
    <3>2. conv[k][n].by \in Procs /\ key[conv[k][n].by] = k
      BY <2>1, <3>1 DEF Authored
    <3>3. bg[conv[k][n].by] = "assistant"
      BY <1>2, <2>1, <3>1 DEF TurnsIn
    <3> QED BY <1>10, <3>2, <3>3, SoleWriter
  <2>7. m.kind = "assistant" => n > 0 /\ conv[k][n] = User(m.by)
    <3>1. m.kind = "assistant" => CommitAnswer(p)
      BY <1>10 DEF User
    <3>2. CommitAnswer(p) => n > 0 /\ conv[k][n] = User(p)
      BY DEF CommitAnswer, Halfway
    <3> QED BY <1>10, <3>1, <3>2
  <2>8. m.kind = "user" => CommitUser(p) /\ \A j \in 1..n : conv[k][j] # m
    <3> SUFFICES ASSUME m.kind = "user" PROVE CommitUser(p) /\ \A j \in 1..n : conv[k][j] # m
      OBVIOUS
    <3>1. CommitUser(p) /\ bg[p] = "user"
      BY <1>10 DEF CommitUser
    <3>2. ASSUME NEW j \in 1..n, conv[k][j] = m PROVE FALSE
      BY <1>10, <2>1, <3>1, <3>2 DEF Authored
    <3> QED BY <3>1, <3>2
  <2>9. m.kind # "nil"
    BY <1>10 DEF User
  <2>10. TurnsIn(conv'[k], bg')
    <3> HIDE DEF User
    <3>1. TurnsIn(conv[k], bg) /\ n = Len(conv[k])
      BY <1>2, <2>1
    <3>2. n > 0 /\ conv[k][n].kind = "user" => m.kind = "assistant" /\ m.by = conv[k][n].by
      BY <1>10, <2>6
    <3>3. m.kind = "user" => bg'[m.by] = "assistant" /\ \A j \in 1..n : conv[k][j] # m
      BY <1>10, <2>8
    <3>4. Len(conv'[k]) = n + 1 /\ conv'[k][n + 1] = m /\ \A i \in 1..n : conv'[k][i] = conv[k][i]
      BY <2>2
    <3>5. Grown(conv[k], conv'[k], m, bg')
      BY <2>1, <2>7, <2>9, <3>1, <3>2, <3>3, <3>4 DEF Grown
    <3> QED BY <3>1, <3>5, AppendKeepsTurns
  <2>11. WholeTurns'
    <3>1. ASSUME NEW j \in Keys, j # k PROVE TurnsIn(conv'[j], bg')
      BY <1>4, <2>2, <2>4, <3>1
    <3> QED BY <2>10, <3>1, TurnsOf
  <2>12. Authored'
    <3> SUFFICES ASSUME NEW j \in Keys, NEW i \in 1..Len(conv'[j]), conv'[j][i].kind = "user"
                 PROVE  /\ conv'[j][i].by \in Procs
                        /\ key'[conv'[j][i].by] = j
                        /\ bg'[conv'[j][i].by] \in {"assistant", "finished"}
      BY DEF Authored
    <3>1. CASE j # k \/ i # n + 1
      <4>1. i \in 1..Len(conv[j]) /\ conv'[j][i] = conv[j][i]
        BY <2>1, <2>2, <3>1
      <4> QED BY <1>3, <4>1
    <3>2. CASE j = k /\ i = n + 1
      BY <1>10, <2>2, <2>3, <3>2
    <3> QED BY <3>1, <3>2
  <2>13. Halfway'
    <3> SUFFICES ASSUME NEW q \in Procs, bg'[q] = "assistant"
                 PROVE  /\ key'[q] \in Keys
                        /\ Len(conv'[key'[q]]) > 0
                        /\ conv'[key'[q]][Len(conv'[key'[q]])] = User(q)
      BY DEF Halfway
    <3>1. CASE q # p
      <4>1. bg[q] = "assistant" /\ ~CommitAnswer(q)
        BY <2>4, <3>1, Committing
      <4>2. key[q] # k /\ key[q] \in Keys
        BY <1>10, <3>1, <4>1, SoleWriter DEF Halfway
      <4> QED BY <1>5, <2>2, <4>1, <4>2
    <3>2. CASE q = p
      <4>1. CommitUser(p)
        <5>1. ~CommitAnswer(p)
          BY <3>2 DEF CommitAnswer, TypeOK
        <5>2. ~Condense(p)
          BY <3>2 DEF Condense, Working, runVars
        <5> QED BY <1>10, <5>1, <5>2
      <4> HIDE DEF User
      <4> QED BY <1>10, <2>1, <2>2, <2>3, <3>2, <4>1
    <3> QED BY <3>1, <3>2
  <2> QED BY <1>1, <2>11, <2>12, <2>13
<1>11. ASSUME NEW p \in Procs, Condense(p), Appends(p, Summary) PROVE TurnInv'
  <2>1. ~CommitUser(p) /\ ~CommitAnswer(p)
    BY <1>11 DEF Condense, CommitUser, CommitAnswer, Working
  <2>2. Summary.kind = "summary"
    BY DEF Summary
  <2> HIDE DEF Summary, TurnInv
  <2> QED BY <1>10, <1>11, <2>1, <2>2
<1>12. ASSUME NEW p \in Procs, CommitUser(p), Appends(p, IF pending[p] THEN User(p) ELSE Nil)
       PROVE  TurnInv'
  <2>1. pending[p] /\ bg'[p] = "assistant"
    BY <1>12 DEF CommitUser, HeldBack, TypeOK
  <2>2. ~Condense(p) /\ ~CommitAnswer(p)
    BY <1>12 DEF Condense, CommitUser, CommitAnswer, Working
  <2>3. User(p).kind = "user" /\ User(p).by = p
    BY DEF User
  <2>4. Appends(p, User(p))
    BY <1>12, <2>1
  <2> HIDE DEF User, TurnInv
  <2> QED BY <1>10, <1>12, <2>1, <2>2, <2>3, <2>4
<1>13. ASSUME NEW p \in Procs, CommitAnswer(p), Appends(p, Answer(p, ~incomplete[p]))
       PROVE  TurnInv'
  <2>1. ~Condense(p) /\ ~CommitUser(p)
    BY <1>13 DEF Condense, CommitUser, CommitAnswer, Working
  <2>2. Answer(p, ~incomplete[p]).kind = "assistant" /\ Answer(p, ~incomplete[p]).by = p
    BY DEF Answer
  <2> HIDE DEF Answer, TurnInv
  <2> QED BY <1>10, <1>13, <2>1, <2>2
<1> HIDE DEF TurnInv
<1> QED BY <1>8, <1>9, <1>11, <1>12, <1>13, StoreSteps

\* When handlers leave the release of a bridged turn to the bridge, conversations
\* consist of whole turns: every stored answer directly follows the user message of
\* its turn, no user message is left without its answer but by a commit under way,
\* and none is stored twice (session.go:156-160, runner.go:15-17, 49-52).
THEOREM TurnsAreWhole ==
  ASSUME ~DeferDiscard
  PROVE  Spec => []WholeTurns
<1>1. Init => TurnInv
  <2> SUFFICES ASSUME Init PROVE TurnInv
    OBVIOUS
  <2>1. Working /\ HeldBack /\ Halfway
    BY DEF Init, Working, HeldBack, Halfway
  <2>2. Authored /\ WholeTurns
    BY DEF Init, Authored, WholeTurns
  <2> QED BY <2>1, <2>2 DEF TurnInv
<1>2. TypeOK /\ LockInv /\ TurnInv /\ [Next]_vars => TurnInv'
  BY TurnStep
<1>3. TurnInv => WholeTurns
  BY DEF TurnInv
<1> QED BY <1>1, <1>2, <1>3, Invariants, PTL DEF Spec

-----------------------------------------------------------------------------
(* One call after another                                                  *)

\* What a call came for, it does.
Kinds == \A p \in Procs :
  /\ pc[p] # "idle" => op[p] \in {"turn", "delete"}
  /\ pc[p] \in {"turn", "condensed"} \/ bg[p] # "none" => op[p] = "turn"

SerialInv == TypeOK /\ LockInv /\ TurnInv /\ Kinds

LEMMA KindsStep ==
  ASSUME TypeOK, Working, Kinds, [Next]_vars
  PROVE  Kinds'
<1>1. ASSUME NEW p \in Procs, NEW k \in Keys, NEW o \in {"turn", "delete"}, LockEnter(p, k, o)
      PROVE  Kinds'
  BY <1>1 DEF LockEnter, Kinds, Working, TypeOK, runVars
<1>2. ASSUME NEW p \in Procs, Handler(p) \/ Unlock(p) \/ Condense(p) PROVE Kinds'
  BY <1>2 DEF Handler, Unlock, Acquire, UnlockMutex, UnlockDeref, OpenConversation, OpenFails,
              Delete, Condense, Abort, StartRun, HandlerReturn, Kinds, TypeOK, runVars, lockVars
<1>3. ASSUME NEW p \in Procs, NEW c \in Chunks, ProxySends(p, c) PROVE Kinds'
  BY <1>3 DEF ProxySends, Kinds, turnVars, lockVars
<1>4. ASSUME NEW p \in Procs, ProxyEnds(p) \/ Persist(p) PROVE Kinds'
  BY <1>4 DEF ProxyEnds, Persist, PersistReceives, PersistEOF, PersistDiscards, CommitChecks,
              CommitUser, CommitAnswer, Kinds, TypeOK, turnVars, lockVars
<1>5. CASE UNCHANGED vars
  BY <1>5 DEF vars, turnVars, runVars, lockVars, Kinds
<1> QED BY <1>1, <1>2, <1>3, <1>4, <1>5 DEF Next

\* A call that holds its session is at work on it, as what it came for.
LEMMA HeldAtWork ==
  ASSUME SerialInv, NEW p \in Procs, rel[p] = "held"
  PROVE  /\ key[p] \in Keys /\ op[p] \in {"turn", "delete"}
         /\ Stage[p] = op[p] /\ On[p] = key[p]
<1>1. pc[p] # "idle" /\ lk[p] # None
  BY DEF SerialInv, LockInv, Stages
<1>2. key[p] \in Keys /\ op[p] \in {"turn", "delete"}
  BY <1>1 DEF SerialInv, LockInv, Linked, Kinds
<1> QED BY <1>2 DEF Stage, On

LEMMA ShownFunction ==
  Shown = [k \in Keys |-> Shown[k]] /\ Shown' = [k \in Keys |-> Shown'[k]]
BY DEF Shown

\* What a step leaves of the commits under way.
SameCommits == \A p \in Procs :
  /\ bg'[p] = "assistant" <=> bg[p] = "assistant"
  /\ bg[p] = "assistant" => key'[p] = key[p]

LEMMA ShownSame ==
  ASSUME SameCommits, NEW k \in Keys, conv'[k] = conv[k]
  PROVE  Shown'[k] = Shown[k]
BY DEF SameCommits, Shown

\* A conversation nobody is storing a turn in is as it stands.
LEMMA ShownWhole ==
  ASSUME NEW k \in Keys, \A q \in Procs : bg[q] = "assistant" => key[q] # k
  PROVE  Shown[k] = conv[k]
BY DEF Shown

\* A step that takes p from its work ends its call.
LEMMA SerialEnd ==
  ASSUME SerialInv, NEW p \in Procs, rel[p] = "held", rel' = Released(p), UNCHANGED lockVars
  PROVE  Serial!AtWork(p) /\ Serial!End(p)
<1>1. rel' = [rel EXCEPT ![p] = "mutex"]
  BY DEF Released
<1>2. Stage' = [Stage EXCEPT ![p] = "over"]
  BY <1>1 DEF SerialInv, TypeOK, Stage, lockVars
<1>3. On' = On
  BY <1>1 DEF SerialInv, TypeOK, On, lockVars
<1>4. Serial!AtWork(p)
  BY HeldAtWork DEF Serial!AtWork
<1> QED BY <1>2, <1>3, <1>4 DEF Serial!End

LEMMA SerialStutter ==
  ASSUME SerialInv, SameCommits, UNCHANGED conv,
         \A q \in Procs :
           \/ rel'[q] = rel[q] /\ (rel[q] = "no" \/ (op'[q] = op[q] /\ key'[q] = key[q]))
           \/ /\ rel[q] \in {"mutex", "deref"} /\ rel'[q] \in {"deref", "done"}
              /\ key'[q] = key[q]
  PROVE  UNCHANGED <<Stage, On, Shown>>
<1>1. Stage' = Stage
  BY DEF SerialInv, TypeOK, Stage
<1>2. On' = On
  BY DEF SerialInv, TypeOK, On
<1>3. Shown' = Shown
  BY ShownSame DEF Shown
<1> QED BY <1>1, <1>2, <1>3

\* Nobody else is at work on the session whose lock a call gets.
LEMMA SerialBegin ==
  ASSUME SerialInv, NEW p \in Procs, Acquire(p)
  PROVE  Serial!Begin(p, key[p], op[p]) /\ key[p] \in Keys /\ op[p] \in {"turn", "delete"}
<1>1. rel[p] = "no" /\ lk[p] # None /\ lk[p] \in Locks
  BY DEF Acquire, SerialInv, LockInv, Stages, TypeOK
<1>2. key[p] \in Keys /\ entry[key[p]] = lk[p] /\ op[p] \in {"turn", "delete"}
  BY <1>1 DEF Acquire, SerialInv, LockInv, Linked, Kinds
<1>3. ASSUME NEW q \in Procs, Serial!AtWork(q) PROVE On[q] # key[p]
  <2>1. rel[q] = "held"
    BY <1>3 DEF Serial!AtWork, Stage
  <2>2. On[q] = key[q] /\ lk[q] # None /\ entry[key[q]] = lk[q] /\ holder[lk[q]] = q
    BY <2>1 DEF On, Held, SerialInv, LockInv, Stages, Linked, Owned
  <2>3. holder[lk[p]] = None /\ q # None
    BY LocksFacts DEF Acquire
  <2> QED BY <1>2, <2>2, <2>3
<1>4. rel' = [rel EXCEPT ![p] = "held"] /\ UNCHANGED <<op, key, conv, bg>>
  BY DEF Acquire, runVars
<1>5. Stage[p] = "new" /\ Stage' = [Stage EXCEPT ![p] = op[p]]
  BY <1>1, <1>4 DEF SerialInv, TypeOK, Stage
<1>6. On' = [On EXCEPT ![p] = key[p]]
  BY <1>1, <1>4 DEF SerialInv, TypeOK, On
<1>7. Shown' = Shown
  BY <1>4 DEF Shown
<1> QED BY <1>2, <1>3, <1>5, <1>6, <1>7 DEF Serial!Begin

\* No turn of the conversation is half stored when it is summarised or deleted.
LEMMA NoneHalfway ==
  ASSUME SerialInv, NEW p \in Procs, Delete(p) \/ Condense(p)
  PROVE  \A q \in Procs : bg[q] = "assistant" => key[q] # key[p]
<1> SUFFICES ASSUME NEW q \in Procs, bg[q] = "assistant", key[q] = key[p] PROVE FALSE
  OBVIOUS
<1>1. q = p
  BY SoleWriter DEF SerialInv, TurnInv
<1> QED BY <1>1 DEF SerialInv, TurnInv, Working, Delete, Condense

LEMMA SerialSummarise ==
  ASSUME SerialInv, NEW p \in Procs, Condense(p)
  PROVE  Serial!Summarise(p)
<1>1. rel[p] = "held" /\ op[p] = "turn"
  BY DEF Condense, SerialInv, TurnInv, Working, Kinds
<1>2. key[p] \in Keys /\ Stage[p] = "turn" /\ On[p] = key[p]
  BY <1>1, HeldAtWork
<1>3. conv[key[p]] # <<>>
  <2> SUFFICES ASSUME conv[key[p]] = <<>> PROVE Window(key[p]) = <<>>
    BY DEF Condense
  <2>1. Len(conv[key[p]]) = 0 /\ {i \in 1..Len(conv[key[p]]) : conv[key[p]][i].kind = "summary"} = {}
    OBVIOUS
  <2> QED BY <2>1 DEF Window
<1>4. conv' = [conv EXCEPT ![key[p]] = Append(@, Summary)] /\ UNCHANGED <<rel, op, key, bg>>
  BY DEF Condense, lockVars, runVars
<1>5. Stage' = Stage /\ On' = On /\ SameCommits
  BY <1>4 DEF Stage, On, SameCommits
<1>6. ASSUME NEW k \in Keys
      PROVE  Shown'[k] = IF k = key[p] THEN Append(Shown[k], Summary) ELSE Shown[k]
  <2>1. CASE k = key[p]
    <3>1. Shown[k] = conv[k] /\ Shown'[k] = conv'[k]
      BY <1>4, <2>1, NoneHalfway DEF Shown
    <3>2. conv'[k] = Append(conv[k], Summary)
      BY <1>4, <2>1 DEF SerialInv, TypeOK
    <3> QED BY <2>1, <3>1, <3>2
  <2>2. CASE k # key[p]
    BY <1>4, <1>5, <2>2, ShownSame DEF SerialInv, TypeOK
  <2> QED BY <2>1, <2>2
<1>7. Shown' = [Shown EXCEPT ![key[p]] = Append(@, Summary)]
  BY <1>2, <1>6, ShownFunction
<1>8. Shown[key[p]] # <<>>
  BY <1>2, <1>3, NoneHalfway DEF Shown
<1>9. Serial!Summary = Summary
  BY DEF Serial!Summary, Summary
<1> QED BY <1>2, <1>5, <1>7, <1>8, <1>9 DEF Serial!Summarise

LEMMA SerialDelete ==
  ASSUME SerialInv, NEW p \in Procs, Delete(p)
  PROVE  Serial!Clear(p) \/ Serial!GiveUp(p)
<1>1. rel[p] = "held" /\ op[p] = "delete" /\ rel' = Released(p) /\ UNCHANGED lockVars
      /\ UNCHANGED <<key, bg>>
  BY DEF Delete, SerialInv, TurnInv, Working, lockVars, runVars
<1>2. key[p] \in Keys /\ Stage[p] = "delete" /\ On[p] = key[p]
  BY <1>1, HeldAtWork
<1>3. Serial!AtWork(p) /\ Serial!End(p) /\ SameCommits
  BY <1>1, SerialEnd DEF SameCommits
<1>4. CASE UNCHANGED conv
  <2>1. Shown' = Shown
    BY <1>1, <1>4 DEF Shown
  <2> QED BY <1>3, <2>1 DEF Serial!GiveUp
<1>5. CASE conv' = [conv EXCEPT ![key[p]] = <<>>]
  <2>1. ASSUME NEW k \in Keys
        PROVE  Shown'[k] = IF k = key[p] THEN <<>> ELSE Shown[k]
    <3>1. CASE k = key[p]
      BY <1>1, <1>5, <3>1, NoneHalfway DEF Shown, SerialInv, TypeOK
    <3>2. CASE k # key[p]
      BY <1>3, <1>5, <3>2, ShownSame DEF SerialInv, TypeOK
    <3> QED BY <3>1, <3>2
  <2>2. Shown' = [Shown EXCEPT ![key[p]] = <<>>]
    BY <1>2, <2>1, ShownFunction
  <2> QED BY <1>2, <1>3, <2>2 DEF Serial!Clear
<1> QED BY <1>4, <1>5 DEF Delete

\* The first append of a commit is not seen: the question waits for its answer.
LEMMA SerialCommitUser ==
  ASSUME ~DeferDiscard, SerialInv, [Next]_vars, NEW p \in Procs, CommitUser(p)
  PROVE  UNCHANGED <<Stage, On, Shown>>
<1>1. /\ conv' = [conv EXCEPT ![key[p]] = Append(@, User(p))]
      /\ bg' = [bg EXCEPT ![p] = "assistant"] /\ bg[p] = "user"
      /\ UNCHANGED <<rel, op, key>>
  BY DEF CommitUser, SerialInv, TurnInv, HeldBack, lockVars
<1>2. key[p] \in Keys
  BY HeldAtWork, <1>1 DEF SerialInv, TurnInv, Working
<1>3. \A q \in Procs : bg[q] = "assistant" => key[q] # key[p]
  <2> SUFFICES ASSUME NEW q \in Procs, bg[q] = "assistant", key[q] = key[p] PROVE FALSE
    OBVIOUS
  <2>1. q = p
    BY SoleWriter DEF SerialInv, TurnInv
  <2> QED BY <1>1, <2>1
<1>4. ASSUME NEW k \in Keys PROVE Shown'[k] = Shown[k]
  <2>1. CASE k = key[p]
    <3>1. conv[k] \in Seq(Message) /\ conv'[k] = Append(conv[k], User(p))
      BY <1>1, <2>1 DEF SerialInv, TypeOK
    <3>2. Shown'[k] = SubSeq(conv'[k], 1, Len(conv'[k]) - 1)
      BY <1>1, <2>1 DEF Shown, SerialInv, TypeOK
    <3>3. SubSeq(Append(conv[k], User(p)), 1, Len(Append(conv[k], User(p))) - 1) = conv[k]
      <4> HIDE DEF Message, User
      <4> QED BY <3>1
    <3> QED BY <1>3, <2>1, <3>1, <3>2, <3>3, ShownWhole
  <2>2. CASE k # key[p]
    <3>1. conv'[k] = conv[k]
      BY <1>1, <2>2 DEF SerialInv, TypeOK
    <3>2. \A q \in Procs : key'[q] = k /\ bg'[q] = "assistant" <=> key[q] = k /\ bg[q] = "assistant"
      BY <1>1, <2>2 DEF SerialInv, TypeOK
    <3> QED BY <3>1, <3>2 DEF Shown
  <2> QED BY <2>1, <2>2
<1>5. Shown' = Shown
  BY <1>4, ShownFunction
<1>6. Stage' = Stage /\ On' = On
  BY <1>1 DEF Stage, On
<1> QED BY <1>5, <1>6

\* With the second the whole turn appears.
LEMMA SerialCommitAnswer ==
  ASSUME SerialInv, NEW p \in Procs, CommitAnswer(p)
  PROVE  Serial!Commit(p)
<1>0. PICK w \in BOOLEAN : w = ~incomplete[p]
  OBVIOUS
<1> DEFINE u == User(p)
           a == Answer(p, w)
<1>1. /\ conv' = [conv EXCEPT ![key[p]] = Append(@, a)]
      /\ bg' = [bg EXCEPT ![p] = "finished"] /\ bg[p] = "assistant"
      /\ rel' = Released(p) /\ UNCHANGED lockVars /\ UNCHANGED key
  BY <1>0 DEF CommitAnswer, lockVars
<1>2. rel[p] = "held" /\ op[p] = "turn"
  BY <1>1 DEF SerialInv, TurnInv, Working, Kinds
<1>3. key[p] \in Keys /\ Stage[p] = "turn" /\ On[p] = key[p]
  BY <1>2, HeldAtWork
<1>4. \A q \in Procs : bg[q] = "assistant" /\ key[q] = key[p] => q = p
  BY SoleWriter DEF SerialInv, TurnInv
<1>5. ASSUME NEW k \in Keys
      PROVE  Shown'[k] = IF k = key[p] THEN Shown[k] \o <<u, a>> ELSE Shown[k]
  <2>1. CASE k = key[p]
    <3>1. conv[k] \in Seq(Message) /\ Len(conv[k]) > 0 /\ conv[k][Len(conv[k])] = u
      BY <1>1, <2>1 DEF SerialInv, TypeOK, TurnInv, Halfway
    <3>2. conv'[k] = Append(conv[k], a)
      BY <1>1, <2>1 DEF SerialInv, TypeOK
    <3>3. Shown[k] = SubSeq(conv[k], 1, Len(conv[k]) - 1)
      BY <1>1, <2>1 DEF Shown
    <3>4. Shown'[k] = conv'[k]
      BY <1>1, <1>4, <2>1 DEF Shown, SerialInv, TypeOK
    <3>5. Append(conv[k], a) = SubSeq(conv[k], 1, Len(conv[k]) - 1) \o <<u, a>>
      <4>1. u \in Message /\ a \in Message
        BY DEF Message
      <4> HIDE DEF Message, u, a
      <4> QED BY <3>1, <4>1
    <3> QED BY <2>1, <3>2, <3>3, <3>4, <3>5
  <2>2. CASE k # key[p]
    <3>1. conv'[k] = conv[k]
      BY <1>1, <2>2 DEF SerialInv, TypeOK
    <3>2. \A q \in Procs : key'[q] = k /\ bg'[q] = "assistant" <=> key[q] = k /\ bg[q] = "assistant"
      BY <1>1, <2>2 DEF SerialInv, TypeOK
    <3> QED BY <2>2, <3>1, <3>2 DEF Shown
  <2> QED BY <2>1, <2>2
<1>6. Shown' = [Shown EXCEPT ![key[p]] = @ \o <<u, a>>]
  BY <1>3, <1>5, ShownFunction
<1>7. Serial!User(p) = u /\ Serial!Answer(p, w) = a
  BY DEF Serial!User, Serial!Answer, User, Answer
<1>8. Serial!End(p)
  BY <1>1, <1>2, SerialEnd
<1> HIDE DEF u, a
<1> QED BY <1>3, <1>6, <1>7, <1>8 DEF Serial!Commit

\* A call that ends without a word to the store.
LEMMA SerialGiveUp ==
  ASSUME SerialInv, NEW p \in Procs, OpenFails(p) \/ Abort(p) \/ PersistDiscards(p)
  PROVE  Serial!GiveUp(p)
<1>1. rel[p] = "held" /\ rel' = Released(p) /\ UNCHANGED lockVars /\ UNCHANGED conv
  BY DEF OpenFails, Abort, PersistDiscards, SerialInv, TurnInv, Working
<1>2. SameCommits
  BY DEF OpenFails, Abort, PersistDiscards, SameCommits, SerialInv, TypeOK, lockVars, runVars
<1>3. Shown' = Shown
  BY <1>1, <1>2, ShownSame, ShownFunction
<1> QED BY <1>1, <1>3, SerialEnd DEF Serial!GiveUp

LEMMA SerialStep ==
  ASSUME ~DeferDiscard, SerialInv, [Next]_vars
  PROVE  [Serial!Next]_(Serial!vars)
<1> SUFFICES Serial!Next \/ UNCHANGED <<Stage, On, Shown>>
  BY DEF Serial!vars
<1>1. ASSUME NEW p \in Procs, NEW k \in Keys, NEW o \in {"turn", "delete"}, LockEnter(p, k, o)
      PROVE  UNCHANGED <<Stage, On, Shown>>
  <2>1. rel[p] = "no" /\ bg[p] = "none" /\ UNCHANGED <<rel, bg, conv>>
    BY <1>1 DEF LockEnter, SerialInv, LockInv, Stages, TurnInv, Working, runVars
  <2>2. \A q \in Procs : q # p => key'[q] = key[q] /\ op'[q] = op[q]
    BY <1>1 DEF LockEnter, SerialInv, TypeOK
  <2>3. SameCommits
    BY <2>1, <2>2 DEF SameCommits
  <2> QED BY <2>1, <2>2, <2>3, SerialStutter
<1>2. ASSUME NEW p \in Procs, Acquire(p) PROVE Serial!Next
  BY <1>2, SerialBegin DEF Serial!Next
<1>3. ASSUME NEW p \in Procs, Unlock(p) PROVE UNCHANGED <<Stage, On, Shown>>
  <2>1. UNCHANGED <<op, key, bg, conv>>
    BY <1>3 DEF Unlock, UnlockMutex, UnlockDeref, runVars
  <2>2. \A q \in Procs : rel'[q] = rel[q] \/ (rel[q] \in {"mutex", "deref"} /\ rel'[q] \in {"deref", "done"})
    BY <1>3 DEF Unlock, UnlockMutex, UnlockDeref, SerialInv, TypeOK
  <2> QED BY <2>1, <2>2, SerialStutter DEF SameCommits
<1>4. ASSUME NEW p \in Procs, OpenConversation(p) \/ StartRun(p) \/ HandlerReturn(p)
      PROVE  UNCHANGED <<Stage, On, Shown>>
  <2>1. UNCHANGED <<op, key, rel, conv>>
    BY <1>4 DEF OpenConversation, StartRun, HandlerReturn, lockVars
  <2>2. SameCommits
    BY <1>4 DEF OpenConversation, StartRun, HandlerReturn, SameCommits, SerialInv, TypeOK,
                TurnInv, Working, lockVars, runVars
  <2> QED BY <2>1, <2>2, SerialStutter
<1>5. ASSUME NEW p \in Procs, NEW c \in Chunks, ProxySends(p, c)
      PROVE  UNCHANGED <<Stage, On, Shown>>
  BY <1>5, SerialStutter DEF ProxySends, SameCommits, lockVars, turnVars
<1>6. ASSUME NEW p \in Procs, ProxyEnds(p) \/ PersistReceives(p) \/ PersistEOF(p) \/ CommitChecks(p)
      PROVE  UNCHANGED <<Stage, On, Shown>>
  <2>1. UNCHANGED <<op, key, rel, conv>>
    BY <1>6 DEF ProxyEnds, PersistReceives, PersistEOF, CommitChecks, lockVars, turnVars
  <2>2. SameCommits
    BY <1>6 DEF ProxyEnds, PersistReceives, PersistEOF, CommitChecks, SameCommits, SerialInv,
                TypeOK, TurnInv, HeldBack, lockVars
  <2> QED BY <2>1, <2>2, SerialStutter
<1>7. CASE UNCHANGED vars
  BY <1>7 DEF vars, lockVars, turnVars, runVars, Stage, On, Shown
<1>8. ASSUME NEW p \in Procs, Condense(p) \/ CommitAnswer(p) \/ Delete(p) \/ OpenFails(p)
                              \/ Abort(p) \/ PersistDiscards(p)
      PROVE  Serial!Next
  BY <1>8, SerialSummarise, SerialCommitAnswer, SerialDelete, SerialGiveUp DEF Serial!Next
<1> QED BY <1>1, <1>2, <1>3, <1>4, <1>5, <1>6, <1>7, <1>8, SerialCommitUser
        DEF Next, Handler, Persist

\* Where handlers leave the release of a bridged turn to the bridge, the calls on a
\* session come one after another, and each turn is stored in one step or not at
\* all, to whoever reads the store between them: the locks, the goroutines and
\* the two appends of a commit are an implementation of that
\* (session.go:5-7, 113-160, 285-300, runner.go:49-52).
THEOREM TurnsAreSerial ==
  ASSUME ~DeferDiscard
  PROVE  Spec => ImplementsSerialTurns
<1>1. Init => SerialInv /\ Serial!Init
  <2> SUFFICES ASSUME Init PROVE SerialInv /\ Serial!Init
    OBVIOUS
  <2>1. Working /\ HeldBack /\ Halfway
    BY DEF Init, Working, HeldBack, Halfway
  <2>2. Authored /\ WholeTurns /\ Kinds
    BY DEF Init, Authored, WholeTurns, Kinds
  <2>3. Serial!Init
    BY DEF Init, Serial!Init, Stage, On, Shown
  <2> QED BY <2>1, <2>2, <2>3, InitLocks DEF SerialInv, TurnInv
<1>2. SerialInv /\ [Next]_vars => SerialInv'
  BY TurnStep, KindsStep, LocksStep, TypeStep DEF SerialInv, TurnInv
<1>3. SerialInv /\ [Next]_vars => [Serial!Next]_(Serial!vars)
  BY SerialStep
<1> QED BY <1>1, <1>2, <1>3, PTL DEF Spec, ImplementsSerialTurns, Serial!Spec
=============================================================================
