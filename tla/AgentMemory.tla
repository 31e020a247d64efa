----------------------------- MODULE AgentMemory -----------------------------
(***************************************************************************)
(* The agent with a long-term memory (components/agent/memory): runs whose *)
(* answers a model turns into memories, before or after the caller sees    *)
(* the end of the run, the maintainers that merge similar memories and     *)
(* drop old ones, EndSession, which merges those of its session, and the   *)
(* restart of the process.  All of them work on one file store at once.    *)
(*                                                                         *)
(* A memory says a set of facts: the one it was learned as, or all those   *)
(* of the memories it was merged from (what the deduplication model is     *)
(* asked to preserve).  Memories are of one category and one user.         *)
(***************************************************************************)
EXTENDS FileMemories

CONSTANTS
  Runs,          \* calls of Agent.Run
  Facts,         \* what can be learned: also the ids of memories as learned
  Alike,         \* pairs of facts whose texts are similar
  Sessions, Session,    \* session ids; the default one of the agent
  OtherMaintainers,  \* maintainers of the same store that are not the agent's own
  MaxMerges, MaxTicks, MaxPasses, MaxFails, MaxRestarts   \* bounds

ASSUME AgentAssumption ==
  /\ \A f \in Facts : <<f, f>> \in Alike
  /\ \A f, g \in Facts : <<f, g>> \in Alike => <<g, f>> \in Alike
  /\ Session \in Sessions
  /\ \A f \in Facts : f \notin Nat
  /\ OtherMaintainers \cap {"own", "end"} = {}
  /\ {MaxMerges, MaxTicks, MaxPasses, MaxFails, MaxRestarts} \subseteq Nat

VARIABLES
  maintained,   \* Agent.maintainer is set
  asynchronous, \* Agent.asyncExtract
  phase,        \* where each run is
  sess,         \* the session each run resolved
  ended,        \* the caller has seen the end of the run
  pass,         \* where the pass of each maintainer is
  finish,       \* EndSession: where it is
  todo,         \* groups still to be merged, per compaction
  doomed,       \* ids still to be deleted, per compaction
  now,          \* time, in units of MaxAge
  merges, passes, fails, restarts,
  learned,      \* history: facts stored by a run
  aged,         \* history: facts that some memory deleted by cleanup said
  due           \* history: runs whose end the caller saw before EndSession

runVars == <<phase, sess, ended>>
workVars == <<pass, finish, todo, doomed>>
config == <<maintained, asynchronous>>
counts == <<now, merges, passes, fails, restarts>>
history == <<learned, aged, due>>
vars == <<storeVars, runVars, workVars, config, counts, history>>

\* Who compacts: the agent's maintainer, others of its store, and EndSession.
Maintainers == {"own"} \cup OtherMaintainers
Workers == Maintainers \cup {"end"}

Init ==
  /\ InitStore
  /\ maintained \in BOOLEAN /\ asynchronous \in BOOLEAN
  /\ phase = [r \in Runs |-> "idle"]
  /\ sess = [r \in Runs |-> Session]
  /\ ended = [r \in Runs |-> FALSE]
  /\ pass = [m \in Maintainers |-> "idle"]
  /\ finish = "idle"
  /\ todo = [w \in Workers |-> <<>>]
  /\ doomed = [w \in Workers |-> <<>>]
  /\ now = 0 /\ merges = 0 /\ passes = 0 /\ fails = 0 /\ restarts = 0
  /\ learned = {} /\ aged = {} /\ due = {}

\* A failure of the store's file.
Fail(fails1) ==
  /\ fails1 => fails < MaxFails
  /\ fails' = IF fails1 THEN fails + 1 ELSE fails

-----------------------------------------------------------------------------
(* Runs                                                                    *)

\* runInternal: the identity is read under a.mu, which EndSession holds while it
\* compacts.
Begin(r, s) ==
  /\ phase[r] = "idle" /\ finish # "compacting"
  /\ phase' = [phase EXCEPT ![r] = "running"]
  /\ sess' = [sess EXCEPT ![r] = s]
  /\ UNCHANGED <<storeVars, ended, workVars, config, counts, history>>

\* Mutant: extractWG.Add is left to the goroutine.
RunEndsUncounted(r) ==
  /\ phase[r] = "running"
  /\ phase' = [phase EXCEPT ![r] = IF asynchronous THEN "uncounted" ELSE "learning"]
  /\ UNCHANGED <<storeVars, sess, ended, workVars, config, counts, history>>

\* The inner agent is done: monitorRun learns from the run itself, or has it done by a
\* goroutine that extractWG counts.
RunEnds(r) ==
  /\ phase[r] = "running"
  /\ phase' = [phase EXCEPT ![r] = IF asynchronous THEN "extracting" ELSE "learning"]
  /\ UNCHANGED <<storeVars, sess, ended, workVars, config, counts, history>>

\* outGen.Close, deferred by monitorRun.
Close(r) ==
  /\ phase[r] \in {"extracting", "uncounted", "done"} /\ ~ended[r]
  /\ ended' = [ended EXCEPT ![r] = TRUE]
  /\ UNCHANGED <<storeVars, phase, sess, workVars, config, counts, history>>

Memory(id, facts, s, born) == [id |-> id, facts |-> facts, sess |-> s, born |-> born]

\* Learn: what the model extracts is stored under the id its text determines, if it
\* extracts anything and the store can.
Learn(r) ==
  /\ phase[r] \in {"learning", "extracting", "uncounted"}
  /\ phase' = [phase EXCEPT ![r] = "done"]
  /\ \/ \E f \in Facts :
          /\ Store(Memory(f, {f}, sess[r], now))
          /\ learned' = learned \cup {f}
     \/ UNCHANGED <<storeVars, learned>>
  /\ UNCHANGED <<sess, ended, workVars, config, counts, aged, due>>

-----------------------------------------------------------------------------
(* Grouping and merging                                                    *)

Similar(m, n) == \E f \in m.facts, g \in n.facts : <<f, g>> \in Alike

\* clusterByTextOverlap: the positions taken when the first n memories have been
\* looked at.  One that is not taken yet takes all similar ones after it.
Taken(docs) ==
  LET taken[n \in 0..Len(docs)] ==
        IF n = 0 THEN {}
        ELSE IF n \in taken[n - 1] THEN taken[n - 1]
        ELSE taken[n - 1] \cup {n} \cup {j \in n + 1..Len(docs) : Similar(docs[n], docs[j])}
  IN  taken

\* The group of the n-th memory, if it leads one.
GroupOf(docs, n) ==
  Picked(docs, {i \in 1..Len(docs) : i \in Taken(docs)[n] \ Taken(docs)[n - 1]})

\* The groups worth merging, in order.
Groups(docs) ==
  LET all == [n \in 1..Len(docs) |-> GroupOf(docs, n)]
  IN  Picked(all, {n \in 1..Len(docs) : Len(all[n]) > 1})

\* The merged memory takes the rest from the first of its group.
Merged(group) ==
  Memory(merges + 1, UNION {group[i].facts : i \in 1..Len(group)}, group[1].sess, group[1].born)

IdsOf(group) == [i \in 1..Len(group) |-> group[i].id]

\* Mutant: the originals are deleted even when the merged memory was not stored.
MergeGroupRegardless(w, fails1) ==
  /\ todo[w] # <<>> /\ doomed[w] = <<>> /\ merges < MaxMerges
  /\ Fail(fails1)
  /\ merges' = IF fails1 THEN merges ELSE merges + 1
  /\ IF fails1 THEN UNCHANGED storeVars ELSE Store(Merged(Head(todo[w])))
  /\ todo' = [todo EXCEPT ![w] = Tail(@)]
  /\ doomed' = [doomed EXCEPT ![w] = IdsOf(Head(todo[w]))]

\* mergeGroup: store the merged memory, and if that worked go on to delete the
\* originals.  A pass ends with the error, EndSession goes on to the next group.
MergeGroup(w, fails1) ==
  /\ todo[w] # <<>> /\ doomed[w] = <<>> /\ merges < MaxMerges
  /\ Fail(fails1)
  /\ merges' = IF fails1 THEN merges ELSE merges + 1
  /\ IF fails1
     THEN /\ UNCHANGED <<storeVars, doomed>>
          /\ todo' = [todo EXCEPT ![w] = IF w = "end" THEN Tail(@) ELSE <<>>]
     ELSE /\ Store(Merged(Head(todo[w])))
          /\ doomed' = [doomed EXCEPT ![w] = IdsOf(Head(todo[w]))]
          /\ todo' = [todo EXCEPT ![w] = Tail(@)]

\* EndSession without a maintainer: the first of the group is stored again, whose
\* error is dropped, and the rest go.
KeepFirst(fails1) ==
  LET group == Head(todo["end"]) IN
  /\ todo["end"] # <<>> /\ doomed["end"] = <<>>
  /\ Fail(fails1)
  /\ IF fails1 THEN UNCHANGED storeVars ELSE Store(group[1])
  /\ todo' = [todo EXCEPT !["end"] = Tail(@)]
  /\ doomed' = [doomed EXCEPT !["end"] = IdsOf(Tail(group))]
  /\ UNCHANGED merges

\* One Delete of a compaction, whose error is dropped.
DeleteOne(w, fails1) ==
  /\ doomed[w] # <<>>
  /\ Fail(fails1)
  /\ Delete(Head(doomed[w]), fails1)
  /\ doomed' = [doomed EXCEPT ![w] = Tail(@)]

Settled(w) == todo[w] = <<>> /\ doomed[w] = <<>>

-----------------------------------------------------------------------------
(* The maintainers                                                         *)

\* TriggerFullPass: by the loop of the agent's own maintainer, which Stop may find at
\* work, or by the loop or a caller of another.  m.mu lets each maintainer make one
\* pass at a time.  compact lists all.
StartPass(m) ==
  /\ pass[m] = "idle" /\ passes < MaxPasses
  /\ m = "own" => maintained /\ finish \in {"idle", "stopping"}
  /\ passes' = passes + 1
  /\ pass' = [pass EXCEPT ![m] = "compact"]
  /\ todo' = [todo EXCEPT ![m] = Groups(List)]
  /\ UNCHANGED <<storeVars, runVars, finish, doomed, config, now, merges, fails, restarts, history>>

PassMerges(m, fails1) ==
  /\ pass[m] = "compact"
  /\ MergeGroup(m, fails1)
  /\ pass' = IF fails1 THEN [pass EXCEPT ![m] = "idle"] ELSE pass
  /\ UNCHANGED <<runVars, finish, config, now, passes, restarts, history>>

PassDeletes(m, fails1) ==
  /\ pass[m] = "compact"
  /\ DeleteOne(m, fails1)
  /\ UNCHANGED <<runVars, pass, finish, todo, config, now, merges, passes, restarts, history>>

Old(memory) == memory.born < now

\* cleanup lists all and picks the old ones.
ListOld(m) ==
  /\ pass[m] = "compact" /\ Settled(m)
  /\ pass' = [pass EXCEPT ![m] = "cleanup"]
  /\ doomed' = [doomed EXCEPT ![m] = IdsOf(Picked(List, {i \in 1..Len(List) : Old(List[i])}))]
  /\ UNCHANGED <<storeVars, runVars, finish, todo, config, counts, history>>

CleanupDeletes(m, fails1) ==
  LET id == Head(doomed[m]) IN
  /\ pass[m] = "cleanup"
  /\ DeleteOne(m, fails1)
  /\ aged' = IF id \in DOMAIN entries THEN aged \cup entries[id].facts ELSE aged
  /\ UNCHANGED <<runVars, pass, finish, todo, config, now, merges, passes, restarts, learned, due>>

EndPass(m) ==
  /\ pass[m] = "cleanup" /\ Settled(m)
  /\ pass' = [pass EXCEPT ![m] = "idle"]
  /\ UNCHANGED <<storeVars, runVars, finish, todo, doomed, config, counts, history>>

-----------------------------------------------------------------------------
(* EndSession                                                              *)

\* Called once: with a maintainer, a second call closes its channel a second time.
CallEnd ==
  /\ finish = "idle"
  /\ finish' = "stopping"
  /\ due' = {r \in Runs : ended[r]}
  /\ UNCHANGED <<storeVars, runVars, pass, todo, doomed, config, counts, learned, aged>>

\* Maintainer.Stop has returned: its loop is at an end; passes of others go on.
Stopped ==
  /\ finish = "stopping" /\ pass["own"] = "idle"
  /\ finish' = "waiting"
  /\ UNCHANGED <<storeVars, runVars, pass, todo, doomed, config, counts, history>>

Counted == {r \in Runs : phase[r] = "extracting"}

\* extractWG.Wait has returned: list, and compact what is of the session, under a.mu.
ListSession ==
  /\ finish = "waiting" /\ Counted = {}
  /\ finish' = "compacting"
  /\ todo' = [todo EXCEPT !["end"] = Groups(Picked(List, {i \in 1..Len(List) : List[i].sess = Session}))]
  /\ UNCHANGED <<storeVars, runVars, pass, doomed, config, counts, history>>

EndMerges(fails1) ==
  /\ finish = "compacting"
  /\ IF maintained THEN MergeGroup("end", fails1) ELSE KeepFirst(fails1)
  /\ UNCHANGED <<runVars, pass, finish, config, now, passes, restarts, history>>

EndDeletes(fails1) ==
  /\ finish = "compacting"
  /\ DeleteOne("end", fails1)
  /\ UNCHANGED <<runVars, pass, finish, todo, config, now, merges, passes, restarts, history>>

EndReturns ==
  /\ finish = "compacting" /\ Settled("end")
  /\ finish' = "done"
  /\ UNCHANGED <<storeVars, runVars, pass, todo, doomed, config, counts, history>>

-----------------------------------------------------------------------------
\* Time passes.
Tick ==
  /\ now < MaxTicks
  /\ now' = now + 1
  /\ UNCHANGED <<storeVars, runVars, workVars, config, merges, passes, fails, restarts, history>>

\* The process ends and starts again: runs and compactions under way are gone.
Restart ==
  /\ restarts < MaxRestarts
  /\ restarts' = restarts + 1
  /\ Load
  /\ phase' = [r \in Runs |-> IF phase[r] = "idle" THEN "idle" ELSE "done"]
  /\ ended' = [r \in Runs |-> phase[r] # "idle"]
  /\ pass' = [m \in Maintainers |-> "idle"] /\ finish' = "idle"
  /\ todo' = [w \in Workers |-> <<>>] /\ doomed' = [w \in Workers |-> <<>>]
  /\ due' = {}
  /\ UNCHANGED <<sess, config, now, merges, passes, fails, learned, aged>>

Next ==
  \/ \E r \in Runs :
       \/ \E s \in Sessions : Begin(r, s)
       \/ RunEnds(r) \/ Learn(r) \/ Close(r)
  \/ \E m \in Maintainers : StartPass(m) \/ ListOld(m) \/ EndPass(m)
  \/ \E m \in Maintainers, fails1 \in BOOLEAN :
       PassMerges(m, fails1) \/ PassDeletes(m, fails1) \/ CleanupDeletes(m, fails1)
  \/ \E fails1 \in BOOLEAN : EndMerges(fails1) \/ EndDeletes(fails1)
  \/ CallEnd \/ Stopped \/ ListSession \/ EndReturns
  \/ Tick \/ Restart

Spec == Init /\ [][Next]_vars

-----------------------------------------------------------------------------
(* Properties                                                              *)

TypeOK ==
  /\ DOMAIN entries \subseteq Facts \cup 1..MaxMerges
  /\ \A id \in DOMAIN entries :
       /\ entries[id].id = id /\ entries[id].facts \in (SUBSET Facts) \ {{}}
       /\ entries[id].sess \in Sessions /\ entries[id].born \in 0..now
       /\ id \in Facts => entries[id].facts = {id}
  /\ phase \in [Runs -> {"idle", "running", "learning", "extracting", "done"}]
  /\ sess \in [Runs -> Sessions]
  /\ ended \in [Runs -> BOOLEAN]
  /\ pass \in [Maintainers -> {"idle", "compact", "cleanup"}]
  /\ finish \in {"idle", "stopping", "waiting", "compacting", "done"}
  /\ \A w \in Workers : \A i \in 1..Len(todo[w]) : Len(todo[w][i]) > 1
  /\ \A w \in Workers : \A i \in 1..Len(doomed[w]) : doomed[w][i] \in Facts \cup 1..merges
  /\ learned \cup aged \subseteq Facts /\ due \subseteq Runs

\* What some memory says.
Known == UNION {entries[id].facts : id \in DOMAIN entries}

\* With a maintainer, what was learned stays known unless cleanup has dropped it:
\* compactions that run side by side, fail midway or are cut off by a restart, and
\* memories learned again meanwhile, lose nothing (maintainer.go:156-158).
NothingForgotten == maintained => learned \subseteq Known \cup aged

\* EndSession compacts after every run has been learned from whose end the caller saw
\* before (agent.go:649-651).
EndSessionSeesRuns ==
  finish \in {"compacting", "done"} => \A r \in due : phase[r] = "done"

\* Without one, EndSession keeps of each group of similar memories the first
\* (agent.go:686): what was learned stays known in its own words or similar ones.
SimilarStays ==
  ~maintained => \A f \in learned : \E g \in Known : <<f, g>> \in Alike
=============================================================================
