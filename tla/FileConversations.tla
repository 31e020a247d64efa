-------------------------- MODULE FileConversations --------------------------
(***************************************************************************)
(* The conversation store on files (components/memory/file): one user's    *)
(* directory with a message file and an activities file per conversation,  *)
(* the cache of conversation objects in front of it, and the clients that  *)
(* hold such objects.  Disks may fail and processes stop or are killed, as *)
(* far as Faults says.                                                     *)
(*                                                                         *)
(* Messages are numbered in the order in which they are appended.  Stored  *)
(* activities are told apart only by the life of the conversation (how     *)
(* often it had been deleted) in which they were set.                      *)
(***************************************************************************)
EXTENDS Integers, Sequences, SequencesExt

CONSTANTS
  Clients, Ids,
  Objects,       \* FileConversation objects
  Faults,        \* subset of {"kill", "write", "long"}
  MaxAppends, MaxDeletes, MaxCrashes, MaxFaults,   \* bounds
  None

Lines == [m : Nat \cup {None}, loads : BOOLEAN, end : BOOLEAN]

ASSUME FileAssumption ==
  /\ Faults \subseteq {"kill", "write", "long"}
  /\ {MaxAppends, MaxDeletes, MaxCrashes, MaxFaults} \subseteq Nat
  /\ None \notin Clients \cup Ids \cup Objects \cup Nat \cup Seq(Lines)
  /\ IsFiniteSet(Clients) /\ IsFiniteSet(Ids) /\ IsFiniteSet(Objects)
  /\ Cardinality(Objects) >= Cardinality(Ids) + Cardinality(Clients)   \* memory suffices

VARIABLES
  file,      \* <id>.jsonl: its lines, None when there is no such file
  acts,      \* <id>.jsonl.activities: the life they stem from, Empty, or None
  cache,     \* FileMemory.conversations
  obj,       \* the conversation objects
  handle,    \* the object a client works with
  wr,        \* where its Save is: "no", "newline" to come, or file "gone"
  deleting,  \* the conversation DeleteConversation is removing, under m.mu
  life,      \* history: deletions of each conversation
  log,       \* history: messages appended to each conversation in this life
  intact,    \* history: no fault has hit this conversation
  count, crashes, faults

vars == <<file, acts, cache, obj, handle, wr, deleting, life, log, intact, count, crashes, faults>>

Empty == -1

Object == [id : Ids \cup {None}, msgs : Seq(Nat), acts : Nat \cup {None}, born : Nat]

Garbage == [id |-> None, msgs |-> <<>>, acts |-> None, born |-> 0]

Init ==
  /\ file = [i \in Ids |-> None]
  /\ acts = [i \in Ids |-> None]
  /\ cache = [i \in Ids |-> None]
  /\ obj = [o \in Objects |-> Garbage]
  /\ handle = [c \in Clients |-> None]
  /\ wr = [c \in Clients |-> "no"]
  /\ deleting = None
  /\ life = [i \in Ids |-> 0]
  /\ log = [i \in Ids |-> <<>>]
  /\ intact = [i \in Ids |-> TRUE]
  /\ count = 0 /\ crashes = 0 /\ faults = 0

Holds(c, i) == handle[c] # None /\ obj[handle[c]].id = i

\* A fault hits the conversation i, if one does.
Hit(i, fault) ==
  /\ fault => faults < MaxFaults
  /\ faults' = IF fault THEN faults + 1 ELSE faults
  /\ intact' = [intact EXCEPT ![i] = @ /\ ~fault]

\* c.mu is free: nobody is in the Save of this object.
Unlocked(o) == \A c \in Clients : handle[c] = o => wr[c] = "no"

-----------------------------------------------------------------------------
(* Files                                                                   *)

\* A write of O_APPEND: it joins a last line that has no end yet, and two messages
\* on a line are none.
Write(q, line) ==
  IF q # <<>> /\ ~Last(q).end
  THEN Append(Front(q), [m |-> None, loads |-> FALSE, end |-> FALSE])
  ELSE Append(q, line)

\* Mutant: the newline is forgotten.
EndLineMissing(q) == q

\* The write of the newline.
EndLine(q) ==
  IF q = <<>> \/ Last(q).end
  THEN Append(q, [m |-> None, loads |-> FALSE, end |-> TRUE])
  ELSE Append(Front(q), [Last(q) EXCEPT !.end = TRUE])

Lined(i) == IF file[i] = None THEN <<>> ELSE file[i]   \* O_CREATE

\* The first line that does not scan or unmarshal, 0 if all do.
BadLine(q) == SelectInSeq(q, LAMBDA l : ~l.loads)

\* Load of messages: the lines before the bad one.
LoadMsgs(q) ==
  LET n == IF BadLine(q) = 0 THEN Len(q) ELSE BadLine(q) - 1
  IN  [j \in 1..n |-> q[j].m]

\* Load of activities: not reached when the messages fail to load.
LoadActs(q, a) == IF BadLine(q) = 0 /\ a # Empty THEN a ELSE None

-----------------------------------------------------------------------------
(* FileMemory                                                              *)

\* The objects that are still reachable.
Reachable(cached, handles) ==
  [o \in Objects |->
     IF (\E i \in Ids : cached[i] = o) \/ (\E c \in Clients : handles[c] = o)
     THEN obj[o] ELSE Garbage]

Free == CHOOSE o \in Objects :
          (\A i \in Ids : cache[i] # o) /\ (\A c \in Clients : handle[c] # o)

\* Mutant: the object loaded is not cached.
NotCached(i, o) == cache

\* The cache with the object just loaded.
Cached(i, o) == [cache EXCEPT ![i] = o]

\* The cached object, or a new one whose Load's error is ignored.  The file is
\* created when asked for; without it Load fails before it gets to the activities.
GetConversation(c, i, create) ==
  /\ deleting = None /\ handle[c] = None
  /\ IF cache[i] # None
     THEN handle' = [handle EXCEPT ![c] = cache[i]] /\ UNCHANGED <<file, cache, obj>>
     ELSE /\ file' = IF file[i] = None /\ create THEN [file EXCEPT ![i] = <<>>] ELSE file
          /\ obj' = [obj EXCEPT ![Free] =
                       [id |-> i, msgs |-> IF file'[i] = None THEN <<>> ELSE LoadMsgs(file'[i]),
                        acts |-> IF file'[i] = None THEN None ELSE LoadActs(file'[i], acts[i]),
                        born |-> life[i]]]
          /\ cache' = Cached(i, Free)
          /\ handle' = [handle EXCEPT ![c] = Free]
  /\ UNCHANGED <<acts, wr, deleting, life, log, intact, count, crashes, faults>>

\* Mutant: the conversation is only forgotten.
DeleteFileKept(i) ==
  /\ deleting = None /\ file[i] # None
  /\ life[i] < MaxDeletes
  /\ deleting' = i
  /\ life' = [life EXCEPT ![i] = @ + 1]
  /\ log' = [log EXCEPT ![i] = <<>>]
  /\ Hit(i, \E c \in Clients : Holds(c, i))
  /\ UNCHANGED <<file, wr, acts, cache, obj, handle, count, crashes>>

\* DeleteConversation, first half: os.Remove of the message file (without one it
\* returns the error and changes nothing).  A Save under way writes on to the
\* removed file.  A client that still holds the conversation is a fault: it works on
\* an object that is no longer in the cache.
DeleteFile(i) ==
  /\ deleting = None /\ file[i] # None
  /\ life[i] < MaxDeletes
  /\ file' = [file EXCEPT ![i] = None]
  /\ wr' = [c \in Clients |-> IF Holds(c, i) /\ wr[c] = "newline" THEN "gone" ELSE wr[c]]
  /\ deleting' = i
  /\ life' = [life EXCEPT ![i] = @ + 1]
  /\ log' = [log EXCEPT ![i] = <<>>]
  /\ Hit(i, \E c \in Clients : Holds(c, i))
  /\ UNCHANGED <<acts, cache, obj, handle, count, crashes>>

\* Mutant: the activities stay.
DeleteRestPartly ==
  /\ deleting # None
  /\ cache' = [cache EXCEPT ![deleting] = None]
  /\ deleting' = None
  /\ obj' = Reachable(cache', handle)
  /\ UNCHANGED <<file, acts, handle, wr, life, log, intact, count, crashes, faults>>

\* Mutant: the cached object stays.
DeleteRestCached ==
  /\ deleting # None
  /\ acts' = [acts EXCEPT ![deleting] = None]
  /\ deleting' = None
  /\ UNCHANGED <<file, cache, obj, handle, wr, life, log, intact, count, crashes, faults>>

\* DeleteConversation, second half: the activities (an error is ignored), the cache.
DeleteRest ==
  /\ deleting # None
  /\ \/ acts' = [acts EXCEPT ![deleting] = None] /\ UNCHANGED <<intact, faults>>
     \/ "write" \in Faults /\ Hit(deleting, TRUE) /\ UNCHANGED acts
  /\ cache' = [cache EXCEPT ![deleting] = None]
  /\ deleting' = None
  /\ obj' = Reachable(cache', handle)
  /\ UNCHANGED <<file, handle, wr, life, log, count, crashes>>

-----------------------------------------------------------------------------
(* FileConversation                                                        *)

Remember(o) ==
  /\ count < MaxAppends
  /\ count' = count + 1
  /\ obj' = [obj EXCEPT ![o].msgs = Append(@, count + 1)]
  /\ log' = [log EXCEPT ![obj[o].id] = Append(@, count + 1)]

\* Append: in memory, then Save's first write.
AppendMsg(c, long) ==
  LET o == handle[c]  i == obj[o].id IN
  /\ o # None /\ Unlocked(o)
  /\ long => "long" \in Faults
  /\ Remember(o)
  /\ file' = [file EXCEPT ![i] = Write(Lined(i), [m |-> count + 1, loads |-> ~long, end |-> FALSE])]
  /\ wr' = [wr EXCEPT ![c] = "newline"]
  /\ Hit(i, long)
  /\ UNCHANGED <<acts, cache, handle, deleting, life, crashes>>

\* Save fails, having written nothing or a part: Append ignores it.
AppendFails(c, partly) ==
  LET o == handle[c]  i == obj[o].id IN
  /\ "write" \in Faults
  /\ o # None /\ Unlocked(o)
  /\ Remember(o)
  /\ file' = IF partly
             THEN [file EXCEPT ![i] = Write(Lined(i), [m |-> None, loads |-> FALSE, end |-> FALSE])]
             ELSE file
  /\ Hit(i, TRUE)
  /\ UNCHANGED <<acts, cache, handle, wr, deleting, life, crashes>>

\* Save's second write.
SaveNewline(c) ==
  /\ wr[c] # "no"
  /\ wr' = [wr EXCEPT ![c] = "no"]
  /\ \/ /\ wr[c] = "newline"
        /\ file' = [file EXCEPT ![obj[handle[c]].id] = EndLine(@)]
        /\ UNCHANGED <<intact, faults>>
     \/ wr[c] = "gone" /\ UNCHANGED <<file, intact, faults>>
     \/ "write" \in Faults /\ Hit(obj[handle[c]].id, TRUE) /\ UNCHANGED file
  /\ UNCHANGED <<acts, cache, obj, handle, deleting, life, log, count, crashes>>

\* SetActivities: in memory, then os.WriteFile, whose error is ignored.
SetActivities(c) ==
  LET o == handle[c]  i == obj[o].id IN
  /\ o # None /\ Unlocked(o)
  /\ obj' = [obj EXCEPT ![o].acts = obj[o].born]
  /\ \/ acts' = [acts EXCEPT ![i] = obj[o].born] /\ UNCHANGED <<intact, faults>>
     \/ /\ "write" \in Faults
        /\ acts' = [acts EXCEPT ![i] = Empty] \/ UNCHANGED acts
        /\ Hit(i, TRUE)
  /\ UNCHANGED <<file, cache, handle, wr, deleting, life, log, count, crashes>>

\* The client is done with the conversation.
Drop(c) ==
  /\ handle[c] # None /\ wr[c] = "no"
  /\ handle' = [handle EXCEPT ![c] = None]
  /\ obj' = Reachable(cache, handle')
  /\ UNCHANGED <<file, acts, cache, wr, deleting, life, log, intact, count, crashes, faults>>

\* The process is stopped when nothing is under way, or killed at any moment,
\* which is a fault for the conversations being written or deleted.
Crash ==
  LET busy == {i \in Ids : deleting = i \/ \E c \in Clients : Holds(c, i) /\ wr[c] # "no"} IN
  /\ crashes < MaxCrashes
  /\ busy = {} \/ ("kill" \in Faults /\ faults < MaxFaults)
  /\ faults' = IF busy = {} THEN faults ELSE faults + 1
  /\ intact' = [i \in Ids |-> intact[i] /\ i \notin busy]
  /\ crashes' = crashes + 1
  /\ cache' = [i \in Ids |-> None]
  /\ handle' = [c \in Clients |-> None]
  /\ wr' = [c \in Clients |-> "no"]
  /\ deleting' = None
  /\ obj' = Reachable(cache', handle')
  /\ UNCHANGED <<file, acts, life, log, count>>

Next ==
  \/ \E c \in Clients :
       \/ \E i \in Ids, create \in BOOLEAN : GetConversation(c, i, create)
       \/ \E long \in BOOLEAN : AppendMsg(c, long)
       \/ \E partly \in BOOLEAN : AppendFails(c, partly)
       \/ SaveNewline(c)
       \/ SetActivities(c)
       \/ Drop(c)
  \/ \E i \in Ids : DeleteFile(i)
  \/ DeleteRest
  \/ Crash

Spec == Init /\ [][Next]_vars

-----------------------------------------------------------------------------
(* Properties                                                              *)

TypeOK ==
  /\ file \in [Ids -> Seq(Lines) \cup {None}]
  /\ acts \in [Ids -> Nat \cup {Empty, None}]
  /\ cache \in [Ids -> Objects \cup {None}]
  /\ obj \in [Objects -> Object]
  /\ handle \in [Clients -> Objects \cup {None}]
  /\ wr \in [Clients -> {"no", "newline", "gone"}]
  /\ deleting \in Ids \cup {None}
  /\ life \in [Ids -> Nat]
  /\ log \in [Ids -> Seq(Nat)]
  /\ intact \in [Ids -> BOOLEAN]
  /\ {count, crashes, faults} \subseteq Nat

Stored(i) == LoadMsgs(Lined(i))

\* What a conversation shows is what it will show after a restart: each message of
\* the cached object, once its Append has returned, and nothing else loads from the
\* file (file.go:187-195, 288-340).  A fault in one conversation, a kill between
\* its two writes, say, leaves the others so.
LoadAgrees ==
  \A i \in Ids :
    intact[i] /\ cache[i] # None /\ Unlocked(cache[i]) /\ deleting # i
      => obj[cache[i]].msgs = Stored(i)

\* All clients of a conversation work on one object, the cached one, unless it was
\* deleted in their hands (file.go:97-149).
OneObject ==
  \A c \in Clients :
    handle[c] # None /\ intact[obj[handle[c]].id] => cache[obj[handle[c]].id] = handle[c]

\* A conversation begun after a deletion has no activities of its predecessor
\* (file.go:172-185).
NothingSurvivesDeletion ==
  \A i \in Ids : intact[i] /\ cache[i] # None /\ deleting # i =>
    LET o == obj[cache[i]] IN o.born = life[i] /\ o.acts \in {None, o.born}

\* Whatever fails, messages load in the order of their appends, none twice and
\* none of a former life (file.go:288-304).
LoadsInOrder ==
  \A i \in Ids :
    LET s == Stored(i) IN
    /\ \A j, k \in 1..Len(s) : j < k => s[j] < s[k]
    /\ \A j \in 1..Len(s) : \E k \in 1..Len(log[i]) : log[i][k] = s[j]

-----------------------------------------------------------------------------
(* Refinement                                                              *)

\* What a conversation shows, or would if it were opened.
Shown ==
  [i \in Ids |->
     IF ~intact[i] \/ deleting = i THEN <<>>
     ELSE IF cache[i] # None THEN obj[cache[i]].msgs ELSE Stored(i)]

Durable == INSTANCE DurableConversations WITH
  Messages <- 1..MaxAppends, msgs <- Shown, lost <- {i \in Ids : ~intact[i]}

\* To its clients the store is a sequence of messages for each conversation that only
\* an Append and a deletion change, each in one step: loading, caching, saving in two
\* writes, stopping and starting change nothing, and a fault nothing but the
\* conversation it hits (file.go:97-227, 288-340).
ImplementsDurable == Durable!Spec
=============================================================================
