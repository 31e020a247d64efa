---------------------------- MODULE ActivityFeed ----------------------------
(***************************************************************************)
(* What the activity bus promises, without rings, channels, locks, ids or  *)
(* eviction: each session has a log; a subscription delivers events of its *)
(* own session only, in log order and at most once - some of those already *)
(* logged when it opens, and from then on each new one or, when the client *)
(* is slow, not; once closed it delivers nothing more and never reopens.   *)
(***************************************************************************)
EXTENDS Naturals, Sequences

CONSTANTS Sessions, Subscribers, Ids, NoSession

VARIABLES
  log,        \* per session, the events recorded
  sid,        \* the session of each subscription
  status,     \* "new", "open" or "closed"
  delivered   \* what each subscription has put in its client's channel

vars == <<log, sid, status, delivered>>

Init ==
  /\ log = [s \in Sessions |-> <<>>]
  /\ sid = [h \in Subscribers |-> NoSession]
  /\ status = [h \in Subscribers |-> "new"]
  /\ delivered = [h \in Subscribers |-> <<>>]

OpenOn(s) == {h \in Subscribers : status[h] = "open" /\ sid[h] = s}

\* The subsequences of q: its elements at increasing positions.
Increasing(n, m) == {pos \in [1..n -> 1..m] : \A i, j \in 1..n : i < j => pos[i] < pos[j]}
Subsequences(q) ==
  UNION {{[j \in 1..n |-> q[pos[j]]] : pos \in Increasing(n, Len(q))} : n \in 0..Len(q)}

\* An event new to every log is recorded; each open subscription of the session
\* gets it, misses it, or is closed.
Record(s, n) ==
  /\ \A t \in Sessions : \A i \in 1..Len(log[t]) : log[t][i] # n
  /\ log' = [log EXCEPT ![s] = Append(@, n)]
  /\ \E reached \in SUBSET OpenOn(s), dropped \in SUBSET OpenOn(s) :
       /\ reached \cap dropped = {}
       /\ delivered' = [h \in Subscribers |->
            IF h \in reached THEN Append(delivered[h], n) ELSE delivered[h]]
       /\ status' = [h \in Subscribers |-> IF h \in dropped THEN "closed" ELSE status[h]]
  /\ UNCHANGED sid

\* A subscription opens with a replay, or is refused (it is closed from the start).
Open(h, s) ==
  /\ status[h] = "new"
  /\ sid' = [sid EXCEPT ![h] = s]
  /\ \/ /\ status' = [status EXCEPT ![h] = "open"]
        /\ \E replay \in Subsequences(log[s]) : delivered' = [delivered EXCEPT ![h] = replay]
     \/ status' = [status EXCEPT ![h] = "closed"] /\ UNCHANGED delivered
  /\ UNCHANGED log

\* Open subscriptions are closed.
CloseSome ==
  /\ \E H \in SUBSET {h \in Subscribers : status[h] = "open"} :
       status' = [h \in Subscribers |-> IF h \in H THEN "closed" ELSE status[h]]
  /\ UNCHANGED <<log, sid, delivered>>

Next ==
  \/ \E s \in Sessions, n \in Ids : Record(s, n)
  \/ \E h \in Subscribers, s \in Sessions : Open(h, s)
  \/ CloseSome

Spec == Init /\ [][Next]_vars
=============================================================================
