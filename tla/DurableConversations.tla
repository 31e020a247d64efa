------------------------ MODULE DurableConversations ------------------------
(***************************************************************************)
(* What the conversation store on files promises, without files, caches,   *)
(* objects, clients, restarts and the two writes of a message: each        *)
(* conversation is the sequence of messages added to it since it was last  *)
(* deleted, whatever becomes of the process.  Only a fault takes that      *)
(* away, and only from the conversations it hits: of these nothing is      *)
(* promised from then on (they are lost, and count as empty).              *)
(***************************************************************************)
EXTENDS Naturals, Sequences

CONSTANTS
  Ids,
  Messages,    \* a set of numbers
  MaxFaults    \* bound

VARIABLES
  msgs,   \* what each conversation has to show
  lost,   \* the conversations faults have hit
  faults

vars == <<msgs, lost, faults>>

Init ==
  /\ msgs = [i \in Ids |-> <<>>]
  /\ lost = {}
  /\ faults = 0

\* A message is added: newer than all there are.
Add(i, m) ==
  /\ i \notin lost
  /\ \A j \in Ids : \A k \in 1..Len(msgs[j]) : msgs[j][k] < m
  /\ msgs' = [msgs EXCEPT ![i] = Append(@, m)]
  /\ UNCHANGED <<lost, faults>>

\* A conversation is deleted.
Clear(i) ==
  /\ msgs' = [msgs EXCEPT ![i] = <<>>]
  /\ UNCHANGED <<lost, faults>>

\* A fault hits the conversations of S.
Lose(S) ==
  /\ faults < MaxFaults
  /\ faults' = faults + 1
  /\ lost' = lost \cup S
  /\ msgs' = [i \in Ids |-> IF i \in S THEN <<>> ELSE msgs[i]]

Next ==
  \/ \E i \in Ids, m \in Messages : Add(i, m)
  \/ \E i \in Ids : Clear(i)
  \/ \E S \in SUBSET Ids : Lose(S)

Spec == Init /\ [][Next]_vars
=============================================================================
