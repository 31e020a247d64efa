---------------------------- MODULE ActivityBus ----------------------------
(***************************************************************************)
(* The in-memory activity bus (callbacks/activity/bus.go): publishers of   *)
(* typed events, per-session replay rings, live subscribers behind bounded *)
(* channels, eviction of idle sessions, unsubscription by the caller or by *)
(* its context, and Close.                                                 *)
(*                                                                         *)
(* b.mu makes each critical section one action.  What is not under b.mu is *)
(* a step of its own: the event id is taken before the lock, the unsub     *)
(* closure passes its sync.Once before the lock, the context watcher is a  *)
(* goroutine, and a client receives from its channel whenever it likes.    *)
(***************************************************************************)
EXTENDS Integers, Sequences, FiniteSets

CONSTANTS
  Sessions,       \* session ids
  Subscribers,    \* one value per call of Subscribe
  BufferSize,     \* Config.BufferSize
  QueueSize,      \* Config.SubscriberQueueSize
  MaxSessions,    \* Config.MaxSessions
  SlowPolicy,     \* Config.SlowPolicy
  MaxEvents,      \* bound: events published in a behaviour
  MaxInflight,    \* bound: Publish calls between the id and the lock
  NoSession       \* "Subscribe not called yet"

ASSUME ConfigAssumption ==
  /\ BufferSize \in Nat \ {0}
  /\ QueueSize \in Nat \ {0}
  /\ MaxSessions \in Nat \ {0}
  /\ SlowPolicy \in {"DropEvent", "DropSubscriber"}

ASSUME BoundAssumption ==
  MaxEvents \in Nat /\ MaxInflight \in Nat /\ IsFiniteSet(Subscribers)

ASSUME NoSessionAssumption == NoSession \notin Sessions

VARIABLES
  counter,     \* memBus.counter
  inflight,    \* events that have their id and wait for b.mu
  closed,      \* memBus.closed
  known,       \* the keys of memBus.sessions
  ring,        \* sessionState.ring: event ids, oldest first
  subs,        \* sessionState.subs: the subscribers registered
  nextSubID,   \* sessionState.nextSubID
  lastActive,  \* sessionState.lastActive
  sid,         \* the session each Subscribe call named
  slot,        \* the subscriber id each Subscribe call was given
  buf, open,   \* subscriber.ch: its queue, and whether it is open
  once,        \* the sync.Once of unsub
  watcher,     \* the goroutine that waits for the context
  got,         \* history: what the client received from its channel
  log          \* history: events recorded per session, in b.mu order

busVars  == <<counter, inflight, closed, known, ring, subs, nextSubID, lastActive>>
subVars  == <<sid, slot, buf, open, once, watcher>>
history  == <<got, log>>
vars     == <<busVars, subVars, history>>

NoID     == -1                       \* a Last-Event-ID parseID rejects
Capacity == BufferSize + QueueSize   \* of a subscriber's channel
Ids      == 1..MaxEvents
Called   == {h \in Subscribers : sid[h] # NoSession}

\* b.clock(): strictly later at each stamp of an event or of a subscription.
Now == counter + Cardinality(Called) + 1

-----------------------------------------------------------------------------
Init ==
  /\ counter = 0
  /\ inflight = {}
  /\ closed = FALSE
  /\ known = {}
  /\ ring = [s \in Sessions |-> <<>>]
  /\ subs = [s \in Sessions |-> {}]
  /\ nextSubID = [s \in Sessions |-> 0]
  /\ lastActive = [s \in Sessions |-> 0]
  /\ sid = [h \in Subscribers |-> NoSession]
  /\ slot = [h \in Subscribers |-> 0]
  /\ buf = [h \in Subscribers |-> <<>>]
  /\ open = [h \in Subscribers |-> FALSE]
  /\ once = [h \in Subscribers |-> "idle"]
  /\ watcher = [h \in Subscribers |-> "none"]
  /\ got = [h \in Subscribers |-> <<>>]
  /\ log = [s \in Sessions |-> <<>>]

-----------------------------------------------------------------------------
(* The session table.  An absent session has the fields of a fresh one.    *)

Idle == {s \in known : subs[s] = {}}
Oldest(S) == {s \in S : \A t \in S : lastActive[s] <= lastActive[t]}

\* Mutant: sessions with subscribers are evicted too.
EvictableAny == {{v} : v \in Oldest(known)}

\* evictIdleSessionLocked: the sets of keys it may delete.
Evictable == IF Idle = {} THEN {{}} ELSE {{v} : v \in Oldest(Idle)}

\* Mutant: the table is allowed one session more than MaxSessions.
EvictionsOffByOne(s) ==
  IF s \in known \/ Cardinality(known) <= MaxSessions THEN {{}} ELSE Evictable

\* getOrCreateSessionLocked: the sets of keys deleted on the way to session s.
Evictions(s) ==
  IF s \in known \/ Cardinality(known) < MaxSessions THEN {{}} ELSE Evictable

\* Mutant: the ring is never trimmed.
RecordUntrimmed(r, e) == Append(r, e)

\* Append to the ring, dropping the oldest event beyond BufferSize.
Record(r, e) ==
  LET q == Append(r, e)
  IN  IF Len(q) > BufferSize THEN SubSeq(q, Len(q) - BufferSize + 1, Len(q)) ELSE q

\* A map of the session table after gone is deleted and s is set to x.
Set(f, fresh, gone, s, x) ==
  [t \in Sessions |-> IF t = s THEN x ELSE IF t \in gone THEN fresh ELSE f[t]]

-----------------------------------------------------------------------------
(* Publish                                                                 *)

\* nextID and clock(), before b.mu.
AssignID(s) ==
  /\ counter < MaxEvents
  /\ Cardinality(inflight) < MaxInflight
  /\ counter' = counter + 1
  /\ inflight' = inflight \cup {[id |-> counter + 1, sid |-> s, at |-> Now]}
  /\ UNCHANGED <<closed, known, ring, subs, nextSubID, lastActive, subVars, history>>

Fits(h) == Len(buf[h]) < Capacity

\* Mutant: the fan-out goes to the subscribers of every session.
ReachedAnywhere(s) == {h \in UNION {subs[t] : t \in known} : Fits(h)}

\* The subscribers the non-blocking fan-out sends to.
Reached(s) == {h \in subs[s] : Fits(h)}

\* Mutant: a slow subscriber is dropped whatever the policy.
SeveredUnderAnyPolicy(s) == {h \in subs[s] : ~Fits(h)}

\* The subscribers the non-blocking fan-out drops because it cannot send.
Severed(s) == IF SlowPolicy = "DropSubscriber" THEN {h \in subs[s] : ~Fits(h)} ELSE {}

PublishLocked(e) ==
  /\ e \in inflight
  /\ inflight' = inflight \ {e}
  /\ IF closed
     THEN UNCHANGED <<known, ring, subs, nextSubID, lastActive, buf, open, log>>
     ELSE \E gone \in Evictions(e.sid) :
            LET s == e.sid
                out == Severed(s) IN
            /\ known' = (known \ gone) \cup {s}
            /\ ring' = Set(ring, <<>>, gone, s, Record(ring[s], e.id))
            /\ subs' = Set(subs, {}, gone, s, subs[s] \ out)
            /\ nextSubID' = Set(nextSubID, 0, gone, s, nextSubID[s])
            /\ lastActive' = Set(lastActive, 0, gone, s, e.at)
            /\ buf' = [h \in Subscribers |->
                         IF h \in Reached(s) THEN Append(buf[h], e.id) ELSE buf[h]]
            /\ open' = [h \in Subscribers |-> open[h] /\ h \notin out]
            /\ log' = [log EXCEPT ![s] = Append(@, e.id)]
  /\ UNCHANGED <<counter, closed, sid, slot, once, watcher, got>>

-----------------------------------------------------------------------------
(* Subscribe, unsub, the context watcher                                   *)

\* Mutant: the event the client already has is replayed again.
NewerOrSame(r, after) == IF after = NoID THEN <<>> ELSE SelectSeq(r, LAMBDA n : n >= after)

\* The loop of Subscribe over the ring: the events it replays after a Last-Event-ID.
Newer(r, after) ==
  LET sent[i \in 0..Len(r)] ==
        IF i = 0 THEN <<>>
        ELSE IF r[i] > after THEN Append(sent[i - 1], r[i])
        ELSE sent[i - 1]
  IN  IF after = NoID THEN <<>> ELSE sent[Len(r)]

\* The Last-Event-IDs a client may present: none, "evt_0", or the last event it
\* received on an earlier subscription to the session.
LastEventIDs(s) ==
  {NoID, 0} \cup {got[g][Len(got[g])] : g \in {x \in Subscribers : sid[x] = s /\ got[x] # <<>>}}

\* The call on a closed bus: a closed channel and an unsub that does nothing.
SubscribeClosed(h, s) ==
  /\ closed
  /\ sid[h] = NoSession
  /\ sid' = [sid EXCEPT ![h] = s]
  /\ once' = [once EXCEPT ![h] = "done"]
  /\ UNCHANGED <<busVars, slot, buf, open, watcher, history>>

\* hasCtx: the context can be cancelled, so a watcher is started.
Subscribe(h, s, after, hasCtx) ==
  /\ ~closed
  /\ sid[h] = NoSession
  /\ after \in LastEventIDs(s)
  /\ \E gone \in Evictions(s) :
       LET id == nextSubID[s] IN
       /\ known' = (known \ gone) \cup {s}
       /\ ring' = Set(ring, <<>>, gone, s, ring[s])
       /\ subs' = Set(subs, {}, gone, s, {g \in subs[s] : slot[g] # id} \cup {h})
       /\ nextSubID' = Set(nextSubID, 0, gone, s, id + 1)
       /\ lastActive' = Set(lastActive, 0, gone, s, Now)
       /\ slot' = [slot EXCEPT ![h] = id]
       /\ buf' = [buf EXCEPT ![h] = Newer(ring[s], after)]
  /\ sid' = [sid EXCEPT ![h] = s]
  /\ open' = [open EXCEPT ![h] = TRUE]
  /\ watcher' = [watcher EXCEPT ![h] = IF hasCtx THEN "waiting" ELSE "none"]
  /\ UNCHANGED <<counter, inflight, closed, once, history>>

\* unsub passes once.Do and closes stop, before b.mu.
BeginUnsub(h) ==
  /\ sid[h] # NoSession
  /\ once[h] = "idle"
  /\ once' = [once EXCEPT ![h] = "running"]
  /\ UNCHANGED <<busVars, sid, slot, buf, open, watcher, history>>

\* The client calls unsub.
ClientUnsub(h) == BeginUnsub(h)

\* The watcher calls unsub because its context is done.
WatcherUnsub(h) == watcher[h] = "cancelled" /\ BeginUnsub(h)

\* What unsub's map lookup finds: the subscribers under h's id in h's session.
SubsAt(h) == {g \in subs[sid[h]] : slot[g] = slot[h]}

\* The part of unsub under b.mu, ending in removeSubLocked.
UnsubLocked(h) ==
  /\ once[h] = "running"
  /\ once' = [once EXCEPT ![h] = "done"]
  /\ subs' = [subs EXCEPT ![sid[h]] = @ \ SubsAt(h)]
  /\ open' = [g \in Subscribers |-> open[g] /\ g \notin SubsAt(h)]
  /\ UNCHANGED <<counter, inflight, closed, known, ring, nextSubID, lastActive,
                 sid, slot, buf, watcher, history>>

\* The environment cancels the context given to Subscribe.
CancelCtx(h) ==
  /\ watcher[h] = "waiting"
  /\ watcher' = [watcher EXCEPT ![h] = "cancelled"]
  /\ UNCHANGED <<busVars, sid, slot, buf, open, once, history>>

\* Mutant: the watcher waits for the context only, not for stop.
WatcherExitOnCancel(h) ==
  /\ watcher[h] = "cancelled"
  /\ once[h] # "idle"
  /\ watcher' = [watcher EXCEPT ![h] = "exited"]
  /\ UNCHANGED <<busVars, sid, slot, buf, open, once, history>>

\* The watcher ends: stop is closed, or the unsub it called has returned.
WatcherExit(h) ==
  /\ watcher[h] \in {"waiting", "cancelled"}
  /\ once[h] # "idle"
  /\ watcher' = [watcher EXCEPT ![h] = "exited"]
  /\ UNCHANGED <<busVars, sid, slot, buf, open, once, history>>

\* A client receives the next event of its channel (also once it is closed).
Receive(h) ==
  /\ buf[h] # <<>>
  /\ got' = [got EXCEPT ![h] = Append(@, Head(buf[h]))]
  /\ buf' = [buf EXCEPT ![h] = Tail(@)]
  /\ UNCHANGED <<busVars, sid, slot, open, once, watcher, log>>

\* Mutant: the subscribers' channels are left open.
CloseLeavingChannels ==
  /\ ~closed
  /\ closed' = TRUE
  /\ known' = {}
  /\ ring' = [s \in Sessions |-> <<>>]
  /\ subs' = [s \in Sessions |-> {}]
  /\ nextSubID' = [s \in Sessions |-> 0]
  /\ lastActive' = [s \in Sessions |-> 0]
  /\ UNCHANGED <<counter, inflight, subVars, history>>

\* Close: every subscriber of every session is removed, and the table emptied.
Close ==
  /\ ~closed
  /\ closed' = TRUE
  /\ known' = {}
  /\ ring' = [s \in Sessions |-> <<>>]
  /\ subs' = [s \in Sessions |-> {}]
  /\ nextSubID' = [s \in Sessions |-> 0]
  /\ lastActive' = [s \in Sessions |-> 0]
  /\ open' = [h \in Subscribers |-> open[h] /\ h \notin UNION {subs[s] : s \in known}]
  /\ UNCHANGED <<counter, inflight, sid, slot, buf, once, watcher, history>>

-----------------------------------------------------------------------------
Next ==
  \/ \E s \in Sessions : AssignID(s)
  \/ \E e \in inflight : PublishLocked(e)
  \/ \E h \in Subscribers, s \in Sessions :
       \/ SubscribeClosed(h, s)
       \/ \E after \in LastEventIDs(s), hasCtx \in BOOLEAN : Subscribe(h, s, after, hasCtx)
  \/ \E h \in Subscribers :
       \/ ClientUnsub(h)
       \/ WatcherUnsub(h)
       \/ UnsubLocked(h)
       \/ CancelCtx(h)
       \/ WatcherExit(h)
       \/ Receive(h)
  \/ Close

Spec == Init /\ [][Next]_vars

\* Goroutines that are ready run, and b.mu is never held for ever; nothing makes
\* a client call unsub, receive, or cancel its context.
Fairness ==
  \A h \in Subscribers :
    WF_vars(WatcherUnsub(h)) /\ WF_vars(UnsubLocked(h)) /\ WF_vars(WatcherExit(h))

FairSpec == Spec /\ Fairness

-----------------------------------------------------------------------------
(* Properties                                                              *)

TypeOK ==
  /\ counter \in 0..MaxEvents
  /\ inflight \subseteq [id : Ids, sid : Sessions, at : Nat]
  /\ closed \in BOOLEAN
  /\ known \subseteq Sessions
  /\ ring \in [Sessions -> Seq(Ids)]
  /\ subs \in [Sessions -> SUBSET Subscribers]
  /\ nextSubID \in [Sessions -> Nat]
  /\ lastActive \in [Sessions -> Nat]
  /\ sid \in [Subscribers -> Sessions \cup {NoSession}]
  /\ slot \in [Subscribers -> Nat]
  /\ buf \in [Subscribers -> Seq(Ids)]
  /\ open \in [Subscribers -> BOOLEAN]
  /\ once \in [Subscribers -> {"idle", "running", "done"}]
  /\ watcher \in [Subscribers -> {"none", "waiting", "cancelled", "exited"}]
  /\ got \in [Subscribers -> Seq(Ids)]
  /\ log \in [Sessions -> Seq(Ids)]

\* A channel is open exactly while the table holds its subscriber under the
\* session it asked for: Publish never sends on a closed channel (a panic) and no
\* open channel is out of reach of unsub and Close (bus.go:175-183, 285-295).
OpenIffRegistered ==
  \A h \in Subscribers : open[h] <=> \E s \in known : h \in subs[s] /\ sid[h] = s

\* Publish trims the ring at once (bus.go:168-172).
RingBounded == \A s \in Sessions : Len(ring[s]) <= BufferSize

\* Subscribe sends the replay under b.mu: it must fit in the channel, or the bus
\* stops for everyone (bus.go:235-243).
ReplayNeverBlocks == \A h \in Subscribers : Len(buf[h]) <= Capacity

\* Why: the table's subscribers are open and under distinct ids of their own
\* session, absent sessions have none, and whatever is open is in the table.
Registry ==
  /\ closed => known = {}
  /\ \A s \in Sessions \ known : subs[s] = {}
  /\ \A s \in Sessions : \A h \in subs[s] :
       /\ sid[h] = s /\ open[h] /\ slot[h] < nextSubID[s]
       /\ \A g \in subs[s] : slot[g] = slot[h] => g = h
  /\ \A h \in Subscribers : open[h] => sid[h] # NoSession /\ h \in subs[sid[h]]
  /\ \A h \in Subscribers : once[h] # "idle" => sid[h] # NoSession

\* Why a DropEvent bus severs nobody: until its unsub is done, or the bus is
\* closed, a subscriber is in the table.
Attached ==
  \A h \in Subscribers :
    sid[h] # NoSession /\ once[h] # "done" /\ ~closed => h \in subs[sid[h]]

\* A channel that closes is closed by its own unsub, by Close, or, where the
\* policy is DropSubscriber, because its client fell behind (bus.go:40-45, 200-202).
ClosedOnlyForCause ==
  [][\A h \in Subscribers :
       open[h] /\ ~open'[h] =>
         \/ once[h] = "running"
         \/ closed'
         \/ SlowPolicy = "DropSubscriber" /\ ~Fits(h)]_vars

\* The table grows beyond MaxSessions only when every session it holds has a
\* subscriber (bus.go:58-62).
GrowsPastCapOnlyWhenBusy ==
  [][Cardinality(known') > Cardinality(known) /\ Cardinality(known') > MaxSessions
       => Idle = {}]_vars

\* The cap on retained sessions (callbacks/activity/README.md:101-104): a session
\* created on a table at or over MaxSessions leaves no idle one beside it, unless the
\* table is then within the cap.  False of the code, which evicts one session for each it
\* creates: see README.md, section 5.
NewSessionsRestoreCap ==
  [][known' \ known # {} /\ Cardinality(known') > MaxSessions => Idle \cap known' = {}]_vars

\* While its channel stays open a subscriber gets each event recorded for its
\* session; only a full channel under DropEvent loses one (bus.go:174-183).
NoGapWhileOpen ==
  [][\A h \in Subscribers :
       /\ open[h] /\ open'[h]
       /\ log'[sid[h]] # log[sid[h]]
       /\ SlowPolicy = "DropSubscriber" \/ Fits(h)
       => got'[h] \o buf'[h]
            = Append(got[h] \o buf[h], log'[sid[h]][Len(log'[sid[h]])])]_vars

\* "buffered events newer than it are replayed first" (bus.go:25-26): a client that
\* resumes after an event still in the ring is replayed all that was recorded
\* after it, if racing publishers have not recorded events out of the order of
\* their ids (bus.go:153 takes the id before the lock).
After(q, n) == LET i == CHOOSE i \in 1..Len(q) : q[i] = n IN SubSeq(q, i + 1, Len(q))
Ascending(q) == \A i, j \in 1..Len(q) : i < j => q[i] < q[j]
ResumeMissesNothing ==
  [][\A h \in Subscribers, s \in Sessions, after \in Ids :
       /\ \E i \in 1..Len(ring[s]) : ring[s][i] = after
       /\ Ascending(ring[s])
       /\ Subscribe(h, s, after, TRUE)
       => buf'[h] = After(ring[s], after)]_vars

\* The replay of missed events (callbacks/activity/sse/README.md:26-27), also when
\* racing publishers recorded events out of the order of their ids: a client that
\* resumes after an event still in the ring is replayed what was recorded after it.
\* False of the code, which compares ids: see README.md, section 5.
ResumeReplaysMissed ==
  [][\A h \in Subscribers, s \in Sessions, after \in Ids :
       /\ \E i \in 1..Len(ring[s]) : ring[s][i] = after
       /\ Subscribe(h, s, after, TRUE)
       => buf'[h] = After(ring[s], after)]_vars

\* The bus implements the abstract feed (ActivityFeed): what a subscription has
\* delivered is what its client received and what waits in its channel.
Feed == INSTANCE ActivityFeed WITH
  status <- [h \in Subscribers |->
               IF sid[h] = NoSession THEN "new" ELSE IF open[h] THEN "open" ELSE "closed"],
  delivered <- [h \in Subscribers |-> got[h] \o buf[h]]
ImplementsFeed == Feed!Spec

\* A cancelled context ends the subscription: the channel is closed and the
\* watcher goroutine returns (bus.go:270-279).
CancelReleases ==
  \A h \in Subscribers :
    watcher[h] = "cancelled" ~> watcher[h] = "exited" /\ once[h] = "done" /\ ~open[h]

\* unsub ends the watcher even when the context is never cancelled (bus.go:251-252).
UnsubEndsWatcher ==
  \A h \in Subscribers : once[h] = "running" ~> watcher[h] \in {"none", "exited"}
=============================================================================
