---------------------------- MODULE SessionTurns ----------------------------
(***************************************************************************)
(* Turns of conversations: the per-session locks of SessionManager         *)
(* (components/memory/session), the life of a Turn, and the runner bridge  *)
(* (components/memory/runner) whose proxy and persistence goroutines work  *)
(* on the turn after the request handler has handed it over.               *)
(*                                                                         *)
(* A process is one call: a request that runs a turn, or a deletion.  A    *)
(* conversation is what its store keeps: the messages in the order they    *)
(* were appended (an append to a deleted conversation creates it again).   *)
(***************************************************************************)
EXTENDS Integers, Sequences, FiniteSets

CONSTANTS
  Procs,         \* the calls: requests and deletions
  Keys,          \* sessionKey(userId, id)
  Threshold,     \* Config.CondenseThreshold, in messages; 0 disables
  MaxChunks,     \* bound: chunks the proxy forwards in a run
  DeferDiscard,  \* do handlers `defer turn.Discard()` around a bridged run?
  None

ASSUME SessionAssumption ==
  /\ IsFiniteSet(Procs)
  /\ Threshold \in Nat /\ MaxChunks \in Nat /\ DeferDiscard \in BOOLEAN
  /\ None \notin Procs \cup Keys \cup Nat

VARIABLES
  entry,       \* SessionManager.locks: the refLock of each key
  refs,        \* refLock.refs
  holder,      \* refLock.mu: who holds it
  op, key, lk, \* of each call: what it does, on which key, with which refLock
  pc,          \* where the calling goroutine is
  rel,         \* how far unlock has come: "no", "held", "mutex", "deref", "done"
  pending,     \* Turn.pendingUser is set
  bg,          \* where the persistence goroutine is
  stream,      \* chunks its copy of the stream still holds
  ended,       \* the proxy has closed the stream
  incomplete,  \* the atomic flag shared by proxy and persist
  answer,      \* how many text chunks persist has collected
  sent,        \* history: how many text chunks the proxy has forwarded
  conv         \* the store: the messages of each conversation

lockVars == <<entry, refs, holder, op, key, lk>>
turnVars == <<pc, rel, pending>>
runVars  == <<bg, stream, ended, incomplete, answer, sent>>
vars     == <<lockVars, turnVars, runVars, conv>>

Locks == 1..Cardinality(Procs)   \* enough refLocks: a call refers to one at most

Chunks == {"text", "aside", "error"}   \* aside: an ephemeral notice, a tool call

User(p)      == [by |-> p, kind |-> "user", whole |-> TRUE]
Nil          == [by |-> None, kind |-> "nil", whole |-> TRUE]
Answer(p, w) == [by |-> p, kind |-> "assistant", whole |-> w]
Summary      == [by |-> None, kind |-> "summary", whole |-> TRUE]

Message == {Nil, Summary} \cup {User(p) : p \in Procs}
             \cup {Answer(p, w) : p \in Procs, w \in BOOLEAN}

Init ==
  /\ entry = [k \in Keys |-> None]
  /\ refs = [l \in Locks |-> 0]
  /\ holder = [l \in Locks |-> None]
  /\ op = [p \in Procs |-> "none"]
  /\ key = [p \in Procs |-> None]
  /\ lk = [p \in Procs |-> None]
  /\ pc = [p \in Procs |-> "idle"]
  /\ rel = [p \in Procs |-> "no"]
  /\ pending = [p \in Procs |-> FALSE]
  /\ bg = [p \in Procs |-> "none"]
  /\ stream = [p \in Procs |-> <<>>]
  /\ ended = [p \in Procs |-> FALSE]
  /\ incomplete = [p \in Procs |-> FALSE]
  /\ answer = [p \in Procs |-> 0]
  /\ sent = [p \in Procs |-> 0]
  /\ conv = [k \in Keys |-> <<>>]

-----------------------------------------------------------------------------
(* lock and unlock                                                         *)

\* A refLock nothing refers to: the next one allocated.
Fresh == CHOOSE l \in Locks :
           (\A k \in Keys : entry[k] # l) /\ (\A p \in Procs : lk[p] # l)

\* lock, under sm.mu: find or create the entry and count the reference.
LockEnter(p, k, o) ==
  /\ pc[p] = "idle"
  /\ LET l == IF entry[k] = None THEN Fresh ELSE entry[k] IN
     /\ entry' = [entry EXCEPT ![k] = l]
     /\ refs' = [refs EXCEPT ![l] = IF entry[k] = None THEN 1 ELSE @ + 1]
     /\ holder' = [holder EXCEPT ![l] = IF entry[k] = None THEN None ELSE @]
     /\ lk' = [lk EXCEPT ![p] = l]
  /\ op' = [op EXCEPT ![p] = o]
  /\ key' = [key EXCEPT ![p] = k]
  /\ pc' = [pc EXCEPT ![p] = "waiting"]
  /\ UNCHANGED <<rel, pending, runVars, conv>>

\* Mutant: the wait for the mutex is missing.
AcquireUnchecked(p) ==
  /\ pc[p] = "waiting"
  /\ holder' = [holder EXCEPT ![lk[p]] = p]
  /\ rel' = [rel EXCEPT ![p] = "held"]
  /\ pc' = [pc EXCEPT ![p] = "locked"]
  /\ UNCHANGED <<entry, refs, op, key, lk, pending, runVars, conv>>

\* lock, outside sm.mu: rl.mu.Lock() returns.
Acquire(p) ==
  /\ pc[p] = "waiting"
  /\ holder[lk[p]] = None
  /\ holder' = [holder EXCEPT ![lk[p]] = p]
  /\ rel' = [rel EXCEPT ![p] = "held"]
  /\ pc' = [pc EXCEPT ![p] = "locked"]
  /\ UNCHANGED <<entry, refs, op, key, lk, pending, runVars, conv>>

\* Turn.release: releaseOnce lets one unlock begin.
Released(p) == IF rel[p] = "held" THEN [rel EXCEPT ![p] = "mutex"] ELSE rel

\* unlock: rl is looked up under sm.mu, then rl.mu.Unlock().
UnlockMutex(p) ==
  /\ rel[p] = "mutex"
  /\ entry[key[p]] # None
  /\ holder' = [holder EXCEPT ![entry[key[p]]] = None]
  /\ rel' = [rel EXCEPT ![p] = "deref"]
  /\ UNCHANGED <<entry, refs, op, key, lk, pc, pending, runVars, conv>>

\* Mutant: the entry is dropped although one more call refers to it.
LastRefOffByOne(l) == refs[l] <= 2

\* Is this dereference the last one?
LastRef(l) == refs[l] <= 1

\* unlock, under sm.mu again: drop the reference, and the entry with the last one.
UnlockDeref(p) ==
  /\ rel[p] = "deref"
  /\ refs' = [refs EXCEPT ![lk[p]] = @ - 1]
  /\ entry' = IF LastRef(lk[p]) THEN [entry EXCEPT ![key[p]] = None] ELSE entry
  /\ lk' = [lk EXCEPT ![p] = None]
  /\ rel' = [rel EXCEPT ![p] = "done"]
  /\ UNCHANGED <<holder, op, key, pc, pending, runVars, conv>>

-----------------------------------------------------------------------------
(* The calling goroutine                                                   *)

\* BeginTurn after lock: GetConversation, creating it; the user message is held.
OpenConversation(p) ==
  /\ pc[p] = "locked" /\ op[p] = "turn"
  /\ pc' = [pc EXCEPT ![p] = "turn"]
  /\ pending' = [pending EXCEPT ![p] = TRUE]
  /\ UNCHANGED <<lockVars, rel, runVars, conv>>

\* Mutant: the error path keeps the lock.
OpenFailsLocked(p) ==
  /\ pc[p] = "locked" /\ op[p] = "turn"
  /\ pc' = [pc EXCEPT ![p] = "returned"]
  /\ UNCHANGED <<lockVars, rel, pending, runVars, conv>>

\* BeginTurn when GetConversation fails: unlock, no turn.
OpenFails(p) ==
  /\ pc[p] = "locked" /\ op[p] = "turn"
  /\ pc' = [pc EXCEPT ![p] = "returned"]
  /\ rel' = Released(p)
  /\ UNCHANGED <<lockVars, pending, runVars, conv>>

\* SessionManager.DeleteConversation: the store deletes, or fails to.
Delete(p) ==
  /\ pc[p] = "locked" /\ op[p] = "delete"
  /\ pc' = [pc EXCEPT ![p] = "returned"]
  /\ rel' = Released(p)
  /\ \/ conv' = [conv EXCEPT ![key[p]] = <<>>]
     \/ UNCHANGED conv
  /\ UNCHANGED <<lockVars, pending, runVars>>

\* The stored messages a window shows: the last summary and what follows it.
Window(k) ==
  LET q == conv[k]
      S == {i \in 1..Len(q) : q[i].kind = "summary"}
      first == IF S = {} THEN 1 ELSE CHOOSE i \in S : \A j \in S : j <= i
  IN  SubSeq(q, first, Len(q))

\* Condense: at or above the threshold a summary is appended (or Summarize fails
\* and nothing is).  The pending user message counts but is not summarized.
Condense(p) ==
  /\ pc[p] = "turn"
  /\ Threshold > 0
  /\ Len(Window(key[p])) + (IF pending[p] THEN 1 ELSE 0) >= Threshold
  /\ Window(key[p]) # <<>>
  /\ conv' = [conv EXCEPT ![key[p]] = Append(@, Summary)]
  /\ pc' = [pc EXCEPT ![p] = "condensed"]
  /\ UNCHANGED <<lockVars, rel, pending, runVars>>

\* The handler gives the turn up before the run: Discard.
Abort(p) ==
  /\ pc[p] \in {"turn", "condensed"}
  /\ pending' = [pending EXCEPT ![p] = FALSE]
  /\ rel' = Released(p)
  /\ pc' = [pc EXCEPT ![p] = "returned"]
  /\ UNCHANGED <<lockVars, runVars, conv>>

\* runner.Run: the proxy and persistence goroutines are started.
StartRun(p) ==
  /\ pc[p] \in {"turn", "condensed"}
  /\ pc' = [pc EXCEPT ![p] = "streaming"]
  /\ bg' = [bg EXCEPT ![p] = "draining"]
  /\ UNCHANGED <<lockVars, rel, pending, stream, ended, incomplete, answer, sent, conv>>

\* The handler returns, at the end of its stream or because the client has gone;
\* a deferred Discard runs.
HandlerReturn(p) ==
  /\ pc[p] = "streaming"
  /\ pc' = [pc EXCEPT ![p] = "returned"]
  /\ IF DeferDiscard
     THEN pending' = [pending EXCEPT ![p] = FALSE] /\ rel' = Released(p)
     ELSE UNCHANGED <<pending, rel>>
  /\ UNCHANGED <<lockVars, runVars, conv>>

-----------------------------------------------------------------------------
(* The bridge                                                              *)

\* proxy and proxyStream forward one chunk or one error of the run (the bridge
\* goes on after an error).
ProxySends(p, c) ==
  /\ bg[p] # "none" /\ ~ended[p]
  /\ sent[p] < MaxChunks /\ Len(stream[p]) < MaxChunks
  /\ incomplete' = [incomplete EXCEPT ![p] = @ \/ c = "error"]
  /\ stream' = [stream EXCEPT ![p] = IF bg[p] = "draining" THEN Append(@, c) ELSE @]
  /\ sent' = [sent EXCEPT ![p] = IF c = "text" THEN @ + 1 ELSE @]
  /\ UNCHANGED <<lockVars, turnVars, bg, ended, answer, conv>>

\* The iterator is exhausted: sw.Close().
ProxyEnds(p) ==
  /\ bg[p] # "none" /\ ~ended[p]
  /\ ended' = [ended EXCEPT ![p] = TRUE]
  /\ UNCHANGED <<lockVars, turnVars, bg, stream, incomplete, answer, sent, conv>>

\* persist receives a chunk; asides are skipped, an error ends the loop (and
\* closes persist's copy of the stream).
PersistReceives(p) ==
  /\ bg[p] = "draining"
  /\ stream[p] # <<>>
  /\ stream' = [stream EXCEPT ![p] = IF Head(@) = "error" THEN <<>> ELSE Tail(@)]
  /\ answer' = [answer EXCEPT ![p] = IF Head(stream[p]) = "text" THEN @ + 1 ELSE @]
  /\ IF Head(stream[p]) = "error"
     THEN /\ incomplete' = [incomplete EXCEPT ![p] = TRUE]
          /\ bg' = [bg EXCEPT ![p] = "drained"]
     ELSE UNCHANGED <<incomplete, bg>>
  /\ UNCHANGED <<lockVars, turnVars, ended, sent, conv>>

\* persist receives io.EOF.
PersistEOF(p) ==
  /\ bg[p] = "draining"
  /\ stream[p] = <<>> /\ ended[p]
  /\ bg' = [bg EXCEPT ![p] = "drained"]
  /\ UNCHANGED <<lockVars, turnVars, stream, ended, incomplete, answer, sent, conv>>

\* persist discards: no assistant content, or the chunks do not concatenate.
PersistDiscards(p) ==
  /\ bg[p] = "drained"
  /\ pending' = [pending EXCEPT ![p] = FALSE]
  /\ rel' = Released(p)
  /\ bg' = [bg EXCEPT ![p] = "finished"]
  /\ UNCHANGED <<lockVars, pc, stream, ended, incomplete, answer, sent, conv>>

\* CommitAssistant finds the pending user message, or not.
CommitChecks(p) ==
  /\ bg[p] = "drained"
  /\ answer[p] > 0
  /\ bg' = [bg EXCEPT ![p] = IF pending[p] THEN "user" ELSE "assistant"]
  /\ UNCHANGED <<lockVars, turnVars, stream, ended, incomplete, answer, sent, conv>>

\* Mutant: the turn is released before the answer is appended.
CommitUserReleasing(p) ==
  /\ bg[p] = "user"
  /\ conv' = [conv EXCEPT ![key[p]] = Append(@, IF pending[p] THEN User(p) ELSE Nil)]
  /\ pending' = [pending EXCEPT ![p] = FALSE]
  /\ rel' = Released(p)
  /\ bg' = [bg EXCEPT ![p] = "assistant"]
  /\ UNCHANGED <<lockVars, pc, stream, ended, incomplete, answer, sent>>

\* CommitAssistant appends t.pendingUser, which a Discard racing it has cleared.
CommitUser(p) ==
  /\ bg[p] = "user"
  /\ conv' = [conv EXCEPT ![key[p]] = Append(@, IF pending[p] THEN User(p) ELSE Nil)]
  /\ pending' = [pending EXCEPT ![p] = FALSE]
  /\ bg' = [bg EXCEPT ![p] = "assistant"]
  /\ UNCHANGED <<lockVars, pc, rel, stream, ended, incomplete, answer, sent>>

\* Mutant: the answer is not tagged.
CommitUntagged(p) ==
  /\ bg[p] = "assistant"
  /\ conv' = [conv EXCEPT ![key[p]] = Append(@, Answer(p, TRUE))]
  /\ rel' = Released(p)
  /\ bg' = [bg EXCEPT ![p] = "finished"]
  /\ UNCHANGED <<lockVars, pc, pending, stream, ended, incomplete, answer, sent>>

\* CommitAssistant appends the answer, tagged when incomplete, and releases.
CommitAnswer(p) ==
  /\ bg[p] = "assistant"
  /\ conv' = [conv EXCEPT ![key[p]] = Append(@, Answer(p, ~incomplete[p]))]
  /\ rel' = Released(p)
  /\ bg' = [bg EXCEPT ![p] = "finished"]
  /\ UNCHANGED <<lockVars, pc, pending, stream, ended, incomplete, answer, sent>>

-----------------------------------------------------------------------------
Handler(p) ==
  \/ Acquire(p) \/ OpenConversation(p) \/ OpenFails(p) \/ Delete(p)
  \/ Abort(p) \/ StartRun(p) \/ HandlerReturn(p)
Unlock(p) == UnlockMutex(p) \/ UnlockDeref(p)
Persist(p) ==
  \/ PersistReceives(p) \/ PersistEOF(p) \/ PersistDiscards(p)
  \/ CommitChecks(p) \/ CommitUser(p) \/ CommitAnswer(p)

Next ==
  \E p \in Procs :
    \/ \E k \in Keys, o \in {"turn", "delete"} : LockEnter(p, k, o)
    \/ Handler(p)
    \/ Condense(p)
    \/ Unlock(p)
    \/ \E c \in Chunks : ProxySends(p, c)
    \/ ProxyEnds(p)
    \/ Persist(p)

Spec == Init /\ [][Next]_vars

\* Goroutines that can go on do, Go mutexes do not starve a waiter (strong
\* fairness of Acquire), and a run of the agent ends.
Fairness ==
  \A p \in Procs :
    /\ WF_vars(Handler(p)) /\ SF_vars(Acquire(p)) /\ WF_vars(Unlock(p))
    /\ WF_vars(ProxyEnds(p)) /\ WF_vars(Persist(p))

FairSpec == Spec /\ Fairness

-----------------------------------------------------------------------------
(* Properties                                                              *)

TypeOK ==
  /\ entry \in [Keys -> Locks \cup {None}]
  /\ refs \in [Locks -> Nat]
  /\ holder \in [Locks -> Procs \cup {None}]
  /\ op \in [Procs -> {"none", "turn", "delete"}]
  /\ key \in [Procs -> Keys \cup {None}]
  /\ lk \in [Procs -> Locks \cup {None}]
  /\ pc \in [Procs -> {"idle", "waiting", "locked", "turn", "condensed", "streaming", "returned"}]
  /\ rel \in [Procs -> {"no", "held", "mutex", "deref", "done"}]
  /\ pending \in [Procs -> BOOLEAN]
  /\ bg \in [Procs -> {"none", "draining", "drained", "user", "assistant", "finished"}]
  /\ stream \in [Procs -> Seq(Chunks)]
  /\ ended \in [Procs -> BOOLEAN]
  /\ incomplete \in [Procs -> BOOLEAN]
  /\ answer \in [Procs -> Nat]
  /\ sent \in [Procs -> Nat]
  /\ conv \in [Keys -> Seq(Message)]

Held(p) == rel[p] \in {"held", "mutex"}

\* Two calls never own one session at the same time, although the refLock of a
\* session comes and goes (session.go:113-146).
MutualExclusion ==
  \A p, q \in Procs : Held(p) /\ Held(q) /\ key[p] = key[q] => p = q

\* unlock finds the refLock its own call locked, still locked by that call:
\* anything else is a fatal error of sync.Mutex, or frees somebody else's turn
\* (session.go:128-146).
UnlockFindsOwnLock ==
  \A p \in Procs : Held(p) => entry[key[p]] = lk[p] /\ holder[lk[p]] = p

\* The lock map holds exactly the sessions some call refers to, with the number of
\* those calls: it neither leaks an entry nor drops one in use (session.go:78-84).
RefsExact ==
  /\ \A l \in Locks : refs[l] = Cardinality({p \in Procs : lk[p] = l})
  /\ \A k \in Keys, l \in Locks : entry[k] = l <=> \E p \in Procs : key[p] = k /\ lk[p] = l

\* A stored answer directly follows the user message of its turn, a stored user
\* message is followed by its answer unless the commit is under way, and no user
\* message is stored twice (session.go:156-160, runner.go:15-17).
WholeTurns ==
  \A k \in Keys : LET q == conv[k] IN \A i \in 1..Len(q) :
    /\ q[i].kind # "nil"
    /\ q[i].kind = "assistant" => i > 1 /\ q[i - 1] = User(q[i].by)
    /\ q[i].kind = "user" =>
         /\ IF i = Len(q) THEN bg[q[i].by] = "assistant"
            ELSE q[i + 1].kind = "assistant" /\ q[i + 1].by = q[i].by
         /\ \A j \in 1..Len(q) : q[j] = q[i] => j = i

\* A conversation changes only in the hands of a call that owns its session
\* (session.go:5-7).
WritesUnderLock ==
  [][\A k \in Keys : conv'[k] # conv[k] => \E p \in Procs : key[p] = k /\ rel[p] = "held"]_vars

\* An answer stored without the incomplete mark has all the text the client was
\* sent (runner.go:18-19).
UntaggedAnswersAreWhole ==
  \A k \in Keys : \A i \in 1..Len(conv[k]) :
    LET m == conv[k][i] IN
    m.kind = "assistant" /\ m.whole => ended[m.by] /\ answer[m.by] = sent[m.by]

\* A call's work is not done while its handler or its bridge still has the turn.
AtWork(p) ==
  \/ pc[p] \in {"locked", "turn", "condensed"}
  \/ bg[p] \in {"draining", "drained", "user", "assistant"}

\* A session is locked only by a call that still works for it or is unlocking it: no
\* path out of BeginTurn, a deletion or the bridge leaves the lock behind
\* (session.go:162-172, 185-194, 305-314, runner.go:197-216).
NoLockForgotten ==
  \A l \in Locks : holder[l] # None =>
    /\ lk[holder[l]] = l
    /\ rel[holder[l]] = "mutex" \/ (rel[holder[l]] = "held" /\ AtWork(holder[l]))

\* Every call that asked for a session lock gets it and gives it back
\* (session.go:162-163).
CallsRelease == \A p \in Procs : pc[p] = "waiting" ~> rel[p] = "done"

-----------------------------------------------------------------------------
(* Refinement                                                              *)

\* A call is at work while the lock is its own to release.
Stage ==
  [p \in Procs |-> IF rel[p] = "no" THEN "new" ELSE IF rel[p] = "held" THEN op[p] ELSE "over"]

On == [p \in Procs |-> IF rel[p] = "no" THEN None ELSE key[p]]

\* A question still without the answer that is being stored is not there yet.
Shown ==
  [k \in Keys |-> IF \E p \in Procs : key[p] = k /\ bg[p] = "assistant"
                  THEN SubSeq(conv[k], 1, Len(conv[k]) - 1) ELSE conv[k]]

Serial == INSTANCE SerialTurns WITH stage <- Stage, on <- On, conv <- Shown

\* To who reads the store between calls, calls on a session come one after another
\* and a turn is stored in one step or not at all, whatever locks, goroutines and
\* failing runs are behind it (session.go:5-7, 113-160, runner.go:15-19).
ImplementsSerialTurns == Serial!Spec
=============================================================================
