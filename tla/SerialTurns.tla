---------------------------- MODULE SerialTurns -----------------------------
(***************************************************************************)
(* What the session locks and the bridge promise, without locks, counts,   *)
(* goroutines and streams: the calls on one conversation come one after    *)
(* another, and each leaves all of its effect or none.  A turn stores its  *)
(* question and its answer in one step, a deletion empties a conversation, *)
(* and only the turn whose turn it is may add a summary of what is there.  *)
(***************************************************************************)
EXTENDS Naturals, Sequences

CONSTANTS Procs, Keys, None

VARIABLES
  stage,   \* of each call: "new", at work as "turn" or "delete", or "over"
  on,      \* the conversation it works or worked on
  conv     \* the messages of each conversation

vars == <<stage, on, conv>>

User(p)      == [by |-> p, kind |-> "user", whole |-> TRUE]
Answer(p, w) == [by |-> p, kind |-> "assistant", whole |-> w]
Summary      == [by |-> None, kind |-> "summary", whole |-> TRUE]

AtWork(p) == stage[p] \in {"turn", "delete"}

Init ==
  /\ stage = [p \in Procs |-> "new"]
  /\ on = [p \in Procs |-> None]
  /\ conv = [k \in Keys |-> <<>>]

\* A call begins when no other is at work on its conversation.
Begin(p, k, o) ==
  /\ stage[p] = "new"
  /\ \A q \in Procs : AtWork(q) => on[q] # k
  /\ stage' = [stage EXCEPT ![p] = o]
  /\ on' = [on EXCEPT ![p] = k]
  /\ UNCHANGED conv

\* What is there is summarised.
Summarise(p) ==
  /\ stage[p] = "turn"
  /\ conv[on[p]] # <<>>
  /\ conv' = [conv EXCEPT ![on[p]] = Append(@, Summary)]
  /\ UNCHANGED <<stage, on>>

End(p) == stage' = [stage EXCEPT ![p] = "over"] /\ UNCHANGED on

\* A turn is stored: its question and its answer, which may be a part.
Commit(p) ==
  /\ stage[p] = "turn"
  /\ \E w \in BOOLEAN :
       conv' = [conv EXCEPT ![on[p]] = @ \o <<User(p), Answer(p, w)>>]
  /\ End(p)

\* A conversation is deleted.
Clear(p) ==
  /\ stage[p] = "delete"
  /\ conv' = [conv EXCEPT ![on[p]] = <<>>]
  /\ End(p)

\* A call ends and leaves nothing.
GiveUp(p) == AtWork(p) /\ End(p) /\ UNCHANGED conv

Next ==
  \E p \in Procs :
    \/ \E k \in Keys, o \in {"turn", "delete"} : Begin(p, k, o)
    \/ Summarise(p)
    \/ Commit(p)
    \/ Clear(p)
    \/ GiveUp(p)

Spec == Init /\ [][Next]_vars
=============================================================================
