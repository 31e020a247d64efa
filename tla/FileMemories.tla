---------------------------- MODULE FileMemories ----------------------------
(***************************************************************************)
(* The long-term memory store on a file (components/agent/memory/file): an *)
(* index of memories by id, the order in which they are enumerated, and    *)
(* the JSONL file both are loaded from.  s.mu makes each call one action.  *)
(*                                                                         *)
(* A memory is a record with an id; what else it holds is up to the module *)
(* that uses the store.  A write that fails here leaves the file as it     *)
(* was.                                                                    *)
(***************************************************************************)
EXTENDS Integers, Sequences, SequencesExt, FiniteSets

VARIABLES
  entries,    \* Store.entries: the memory stored under each id
  order,      \* Store.order: an id once for each time it was stored
  file        \* memories.jsonl: its lines

storeVars == <<entries, order, file>>

InitStore == entries = <<>> /\ order = <<>> /\ file = <<>>

-----------------------------------------------------------------------------
\* The elements of q at the positions I, in their order.
Rank(I, i) == Cardinality({j \in I : j < i})
Picked(q, I) == [k \in 1..Cardinality(I) |-> q[CHOOSE i \in I : Rank(I, i) = k - 1]]

With(index, m) == [id \in DOMAIN index \cup {m.id} |-> IF id = m.id THEN m ELSE index[id]]
Others(ids, id) == Picked(ids, {i \in 1..Len(ids) : ids[i] # id})
Without(index, id) == [other \in DOMAIN index \ {id} |-> index[other]]

\* Mutant: a memory known already is not written again.
StoreNewOnly(m) ==
  /\ file' = IF m.id \in DOMAIN entries THEN file ELSE Append(file, m)
  /\ entries' = With(entries, m)
  /\ order' = Append(order, m.id)

\* Store: append to the file, then index it.
Store(m) ==
  /\ file' = Append(file, m)
  /\ entries' = With(entries, m)
  /\ order' = Append(order, m.id)

\* rewriteLocked: a line for each id of the order, in a new file put in place of the
\* old one.
Rewritten(index, ids) == [i \in 1..Len(ids) |-> index[ids[i]]]

\* Mutant: the order is not told.
DeleteFromIndex(id, fails) ==
  IF id \notin DOMAIN entries THEN UNCHANGED storeVars
  ELSE /\ entries' = Without(entries, id)
       /\ order' = order
       /\ file' = IF fails THEN file
                  ELSE Rewritten(entries', Others(order, id))

\* Delete: out of the index, then the rewrite, which may fail.
Delete(id, fails) ==
  IF id \notin DOMAIN entries THEN UNCHANGED storeVars
  ELSE /\ entries' = Without(entries, id)
       /\ order' = Others(order, id)
       /\ file' = IF fails THEN file ELSE Rewritten(entries', order')

\* load: the last line of an id counts, and each of its lines is in the order.
LastLine(q, id) == q[SelectLastInSeq(q, LAMBDA m : m.id = id)]
Index(q) == [id \in {q[i].id : i \in 1..Len(q)} |-> LastLine(q, id)]
Load ==
  /\ entries' = Index(file)
  /\ order' = [i \in 1..Len(file) |-> file[i].id]
  /\ UNCHANGED file

\* List of everything: an id as often as it is in the order.
List ==
  LET ids == Picked(order, {i \in 1..Len(order) : order[i] \in DOMAIN entries})
  IN  [i \in 1..Len(ids) |-> entries[ids[i]]]

-----------------------------------------------------------------------------
(* Properties                                                              *)

\* Every memory of the index is enumerated, and nothing else (store.go:398-420).
Enumerated == Range(order) = DOMAIN entries

\* Whatever writes failed, a restart finds each memory of the index as it is now:
\* an older version of it, or none, is never what the file has (store.go:86-145).
Durable ==
  \A id \in DOMAIN entries : id \in DOMAIN Index(file) /\ Index(file)[id] = entries[id]
=============================================================================
