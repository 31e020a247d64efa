# Specifications of eino-ext

eino-ext extends the eino agent framework with chat models, tools, middlewares,
callbacks, conversation stores and a long-term memory. Part of it keeps state while
goroutines, requests, crashes and failing disks work on it; the larger part are
tools, each one call in and one answer out, that change systems others change as
well, behind a gate that decides whether they may. This project is about both. It
holds TLA+ modules
translated from the Go code, TLC runs on small instances, and TLAPS proofs for
instances of any size.

`PROJECT.json` is the index: components, runs, the lines each definition models
(`map`), hazards, findings, theorems, and for each checked property a mutant of
the code that breaks it.

To check a run: `tlc -config bus.cfg MCActivityBus`. To check the proofs:
`tlapm ActivityBusProofs.tla`.

## 1. Inventory

| Component | Source | State | Operations | What is hard |
|---|---|---|---|---|
| Activity bus | `callbacks/activity/bus.go` | sessions with a replay ring, subscribers with a bounded channel, an id counter, all under `b.mu` | Publish, Subscribe, unsub, Replay, HasSubscribers, Close | publishers racing unsubscription, eviction and Close; replay under the lock; ids taken before the lock; goroutines that wait for a context |
| SSE transport | `callbacks/activity/sse` | none: it is a client of the bus | subscribe with Last-Event-ID, receive, deferred unsub | reconnection |
| Activity handler | `callbacks/activity/handler.go` | last agent of a session, ids of calls and texts | start, end, error and stream callbacks | started without ended, agent switches in the wrong order |
| Conversation sessions | `components/memory/session` | a lock with a count of references for each session, the pending user message of a turn | BeginTurn, Condense, CommitAssistant, Discard, DeleteConversation | locks that come and go; release exactly once; two goroutines on one turn |
| Run bridge | `components/memory/runner` | the pipe between run, client and persistence, the incomplete flag | Run, proxy, persist | the client leaves, the run fails midway, the persistence outlives the handler |
| File conversation store | `components/memory/file` | a message file and an activities file per conversation, a cache of objects | GetConversation, Append/Save, SetActivities, Load, DeleteConversation, ListConversations | two writes per message, kills, failing writes, deletion while in use |
| OpenSearch conversation store | `components/memory/opensearch` | one document per conversation, a cache | the same | whole-document writes by several processes, swallowed errors |
| Conversation window | `components/memory/conversation.go`, `markers.go`, `libs/counter` | none | SelectWindow, LastSummaryIndex, DefaultTokenCounter | boundaries of the bisection |
| Memory agent | `components/agent/memory/agent.go` | identity, pending extractions (`extractWG`), the maintainer | Run, extraction, EndSession | asynchronous extraction against EndSession |
| Memory maintainer | `components/agent/memory/maintainer.go` | a loop, one pass at a time of each maintainer; several may share a store | TriggerFullPass, compact, cleanup, Stop | compactions side by side on one store, failures between store and delete |
| Memory stores | `components/agent/memory/file`, `.../opensearch` | index, order and a JSONL file; documents | Store, Delete, Retrieve, List, load | failing rewrites, restarts |
| Context optimiser | `components/middleware/contextopt` | none between calls | selection of the tail, pruning, summarising | a tool's result without its call |
| Copilot model | `components/model/copilot` | API token, session token, resolved automatic model, refreshing goroutines | Generate, Stream, WithTools, refresh | tokens shared by copies and goroutines, expiry, unfinished streams |
| Safety | `components/middleware/safety`, `libs/toolkit/safety`, `confirm` | the authorisation in a context, the audit sink | policy, dry run, confirmation, authorisation, audit | several ways to a tool, one audit event for each call, streams that end early |
| Cost tracker | `libs/costtrack`, `libs/modelsdev` | totals of sessions and models | record, snapshot, end | sums over models |
| Kubernetes, Grafana, GitHub, Argo CD, Alertmanager, Prometheus, S3 tools | `components/tool/*` | clients by instance; clones of sessions | 66 tools, a health check and constructors for each package | what is checked before what is changed, requests that fail after they were carried out, changes by others in between |
| File tools | `components/tool/file`, `libs/toolkit/fileutil` | session directories | read, write, delete, copy, move, sweep | paths, moves between devices, the sweep against use |
| Shell and pipe tools | `components/tool/shell`, `pipe`, `libs/toolkit/dagger`, `egress`, `profile` | a container for each profile | commands, pipelines of commands and tools | a pipeline that stops in the middle, tools as steps |
| Search tools | `components/tool/opensearch`, `opensearch_retriever`, `websearch`, `convertor` | none | searches, fetches | points in time, retries |
| OpenSearch clients | `components/memory/opensearch`, `agent/memory/opensearch`, `indexer`, `retriever`, `document/*` | documents and indices | store, load, delete, reconcile, retrieve | creation races, batches that fail in the middle |
| Toolkit, prompts, compression, logging, tracing, metrics | `libs/*`, `callbacks/log`, `callbacks/oteltrace` | none or counters | pure functions | none |

How they interact. A request handler calls `SessionManager.BeginTurn`, which locks
the session and opens the conversation in a store; asks the turn for its window
(`SelectWindow`) and condenses it when it is long; runs the agent; and gives the
run and the turn to `runner.Run`, whose two goroutines forward the answer to the
client and store it. While the agent runs, eino calls the activity handler, which
publishes to the bus; SSE clients subscribe to the bus. The memory agent wraps an
agent, learns from its runs and shares its store with its maintainer. `HasSubscribers`
and `Replay` are read-only uses of the bus by the handler and by the cost saver.
An agent's tool calls pass the safety middleware, which evaluates policies, lets
reads through, holds writing tools back until the host or the model's confirmation
opens the gate, marks the context of an authorised execution, and audits the call
when the tool has returned or its stream has ended. A writing tool looks at its
context once more by itself. `pipe_exec` is a tool that runs other tools, each past
the same gate.

What makes each part correct:

* bus: no send on a closed channel, no channel out of reach, nobody severed without
  cause, no event missing from an open subscription, no goroutine left behind;
* sessions and bridge: one call owns a session at a time, every call releases it,
  and a stored conversation is made of whole turns, marked where the answer is not;
* file store: what is shown is what a restart finds; nothing outlives a deletion;
  a fault costs no more than the conversation it hits;
* window: the longest that fits, with the summary and the last message;
* long-term memory: compaction loses nothing that was learned, and EndSession
  works on all of it;
* tools and gate: nothing is changed without authorisation or in a dry run, nor, but for
  the directories above a path, by a call that is refused; a protected target stays;
  the answer and the audit trail say what was done; a failure in the middle of a move
  loses nothing;
* Copilot sessions: no request is refused for a token the client could have renewed.

## 2. Modules

| Module | Models | Composed with |
|---|---|---|
| `ActivityBus` | bus.go and its client sse.go | refines `ActivityFeed` |
| `ActivityFeed` | abstract: logs and subscriptions, nothing else | |
| `SessionTurns` | session.go and runner.go on one abstract store | refines `SerialTurns` |
| `SerialTurns` | abstract: calls one after another, a turn stored in one step | |
| `FileConversations` | file/file.go | refines `DurableConversations` |
| `DurableConversations` | abstract: sequences of messages that only appends, deletions and faults change | |
| `ConversationWindow`, `TokenCounter` | conversation.go, markers.go, counter.go | the counter is a parameter |
| `FileMemories` | agent/memory/file/store.go | |
| `AgentMemory` | agent.go and maintainer.go | extends `FileMemories`: both act on its store |
| `ToolSteps` | the vocabulary of tools: checks, requests, answers; confirm and fileutil | |
| `SafetyGate` | policies, gate and authorisation, by middleware, pipeline or neither | extends `ToolSteps` |
| `ToolCalls` | one call of a tool: the middleware's wrappers, the tool's steps, the system it works on, others, the stream and its relay | extends `SafetyGate`; the tools are parameters |
| `KubernetesTools`, `GrafanaTools`, `GithubTools`, `MonitoringTools`, `SearchTools`, `FileTools`, `ShellTools` | the handlers, health checks and constructors of `components/tool/*` | extend `ToolSteps` |
| `OpenSearchClients` | the stores, indexer, retriever and loader on OpenSearch | extends `ToolSteps` |
| `Toolbox` | all of these by name | given to `ToolCalls` by `MCToolCalls` |
| `ToolDiscipline` | what a tool has to do for `ToolCalls` to keep its promises, as conditions on its steps | extends `ToolCalls` |
| `CopilotSessions` | session.go, and how requests of copilot_chat.go and copilot_stream.go use it | |
| `MC...` | constants for TLC | |
| `ActivityBusProofs`, `SessionTurnsProofs`, `SessionStoreProofs`, `FileConversationsProofs`, `ConversationWindowProofs`, `AgentMemoryProofs`, `ToolCallsProofs` | proofs | extend what they are about; `SessionStoreProofs` rests on `SessionTurnsProofs`, `ToolCallsProofs` on `ToolDiscipline` |
| `NatSetInduction` | least elements and induction for sets of naturals | used by the proofs |

Definitions that start with a comment "Mutant:" are broken variants of the
definition that follows them; nothing uses them but the mutants of `PROJECT.json`.

### ActivityBus

Every section under `b.mu` is one action: `PublishLocked`, `Subscribe`,
`UnsubLocked`, `Close`. What happens outside it is a step of its own: `AssignID`
(`nextID` before the lock, so two publishers can overtake each other), `ClientUnsub`
and `WatcherUnsub` (the `sync.Once` of unsub), `CancelCtx`, `WatcherExit`, and
`Receive`, the client's loop in sse.go. A channel is `buf` and `open`. The session
table is `known` with a function per field; `Set` deletes the evicted session and
sets the fields of another. `slot` is the number unsub uses to find its subscriber,
because that it may find somebody else's matters. `lastActive` is a logical clock
that never stands still; eviction may take any of the oldest idle sessions. `got` and
`log` are history.

`ActivityFeed` keeps a log per session and, per subscription, what it delivered: a
subsequence of the log when it opens, and then each new event or none until it is
closed. Under the mapping `status`/`delivered` in `ActivityBus`, ring, channel,
eviction, ids and locks are invisible.

### SessionTurns

A process is a call: a turn or a deletion. `LockEnter` is the part of `lock` under
`sm.mu`, `Acquire` the wait for the session's own mutex, `UnlockMutex` and
`UnlockDeref` the two halves of `unlock`, between which `sm.mu` is free. A `refLock` is
a number taken from a pool as large as the set of calls. `rel` is how far the
release has come, guarded by `releaseOnce`. After `StartRun` three goroutines share a
turn: the handler (`HandlerReturn`), the proxy (`ProxySends`, `ProxyEnds`) and the
persistence (`PersistReceives` ... `CommitAnswer`). `CommitAssistant` is three steps,
because a racing Discard can clear the pending message between them. `DeferDiscard`
says whether handlers defer a Discard. A message is its author, kind and whether it
was marked incomplete.

`SerialTurns` has none of this: a call begins when no other is at work on its
conversation, and leaves all of its effect or none. Under the mapping
`Stage`/`On`/`Shown` a call is at work while it holds its lock, and a question whose answer is still
to be stored is not there yet, so that the turn appears with its answer, in one step.

### FileConversations

A file is a sequence of lines; a line knows whether it loads and whether its newline
was written, so that a write after a cut-off one joins it. `AppendMsg` and
`SaveNewline` are the two writes of `Save`; `DeleteFile` and `DeleteRest` the halves of
`DeleteConversation`; `GetConversation` loads, caches and creates. Objects are
allocated from a pool, because clients keep objects that the cache has dropped. Faults
("kill" between two writes, a failing or partial "write", a line too "long" for the
scanner) are bounded by `MaxFaults` and clear `intact` of the conversation they hit: the
properties say what holds of the others, and `LoadsInOrder` what holds of all.

`DurableConversations` is the store as its clients see it: one sequence of messages for
each conversation. Under the mapping `Shown` it is the cached object's messages or,
where there is none, those that would load, so that a restart, which swaps the one
for the other, has to be invisible. A conversation a fault has hit is shown as empty.

### ConversationWindow

One action per probe of the bisection, plus what comes before the loop (`Begin`, one
disjunct per early return) and after it (`Finish`). The token counter is an operator
parameter, assumed monotone; `TokenCounter` is the repository's default counter, with
its rounding, for which TLC evaluates the assumption and a theorem states it.

### FileMemories and AgentMemory

`FileMemories` has no Next: `Store`, `Delete`, `Load` and `List` are used by the actions of
`AgentMemory`. The order lists an id once for each time it was stored, as in the code.
A memory says a set of facts; a merged one says all facts of its group, which is what
the model that merges texts is asked to do. Runs learn synchronously or not;
EndSession is four steps (stop the maintainer, wait, list, compact); a maintenance
pass lists, merges group by group and deletes one by one, then lists again and drops
the old. A mutex lets each maintainer make one pass at a time, but a store may be given to
several: the agent's own, whose loop EndSession stops, and `OtherMaintainers`, which it does
not know. `Workers` are these and EndSession, and their compactions interleave. Without a
maintainer EndSession falls back to `KeepFirst`, which drops the error of storing the first
memory of a group again and deletes the rest. Any write may fail, within `MaxFails`.

### ToolSteps, SafetyGate, ToolCalls and the tools

A handler of a tool is, apart from formatting, a sequence: it checks its arguments
and returns early, asks for a confirmation, looks up a client, sends requests one
after the other, and answers. So a tool is an operator that gives this sequence
(`kubernetes_resource_delete(p, seen)`), in the order of the code, and reads like the
code without its texts. What comes later may depend on what earlier requests have
seen. `ToolCalls` runs any such tool, step by step: `FailCheck` is an early return,
`Learn` and `Carry` a request that is answered, `LearnFails` and `CarryFails` one that
is not, because it was refused, did not arrive, or was carried out and its answer was
lost. `Elsewhere` lets somebody else change, create or remove what the call works on
between any two steps, and `SweepStaleDirs` is the collector of session directories.
All other calls, of this process and of others, are somebody else to this one: two
calls share nothing but the systems they work on.

Data is reduced to what the properties tell apart. A system is up to three objects: a
target; for tools that copy, move or push, a second one; and for tools that make the
directories above a path, these directories (`parents`), without which nothing lies below
them. Their contents are named for who wrote them, `part` is what a failure in the middle
leaves, and `pruned` a copy that is not whole. Arguments are a mode, the two flags of a writing tool, whether the place
they name is one the configuration allows, and at most one flaw: the check they fail.
`Flaws` collects, from the tool itself, every check it makes of its arguments, so that
TLC runs into every early return of every tool.

The code's order is kept where it is not the one expected. `ResolveSymlinkSafe` with
`createDirs` makes missing directories, and the tools that call it still refuse afterwards
(`ResolveCreating`: the GitHub tools compare paths and kinds, and look at the base branch,
after it). `CopyDir` leaves out symbolic links and, in clones, `.git`, so that moving
such a directory to another device (`linked directory`) loses them with the source; a copy that
fails removes its destination, if there was none before and the removal succeeds. Saving
a dashboard looks for its predecessor, and at its protection, only where the call names a
uid, whatever its mode; a create with a uid reads one dashboard and may write another. The
streamed `kubernetes_pod_exec` answers before its command runs: the command is `behind` the
answer, and may run or fail while the stream is read (`CarryBehind`).

`SafetyGate` is what stands before the tool. `preflight` is the middleware's,
`runToolStep` the pipeline's, which passes the gate and asks no policy; the third way is none, as for a host that calls a tool
directly. A way may also have a list of writing tools that does not have this tool on
it: `NewAllToolsWithSafety` fills a list only when it is empty, so of two packages
built with one configuration the second is not listed. `RequireConfirmationCtx` in
the tools themselves is what stops such a call.

A streamed answer is relayed by a goroutine (`Relay`, `StreamEnds`) over a bounded
pipe to a consumer who reads, closes or leaves. The event of the call is written at
the end of the stream.

What the sets of `MCToolCalls` say: `DirectTools` are documented to execute without
confirmation (the tools on a session's clone, shell and pipe) or are not called by a
model (the OpenSearch clients); `RehearsingTools` answer a dry run as an execution
(`argocd_application_sync`); `LateChecks` are those a handler makes of what a change
has answered, such as the exit code of a pipeline's first command.

### ToolDiscipline

A promise of `ToolCalls` has two parts. One is about the machinery, which is the same for
all tools: gate, failures, others, streams, audit. The other is about each handler: what it
has checked before it changes something. `ToolDiscipline` states the second part, of one
tool with one set of arguments that has seen one thing:

* `Formed`: its program is a sequence of steps;
* `Causal`: what a read finds does not alter the steps before it;
* `Cleared`: a change is asked for in no dry run, in no forbidden place and, but for
  `DirectTools`, only with confirmation and authorisation;
* `Late`: nothing is refused after the first change, but for `LateChecks`; where only the
  directories above a path were made, anything but the confirmation may be;
* `Kept`: a target that may be protected is changed by a request the server refuses for
  another version, or, in `BlindModes`, by the first change after a look that found it
  unprotected;
* `Truthful`: "done" comes after a change other than of directories, "data" and "preview"
  come after none;
* `Careful`: a move makes the new object, as whole as its mode allows, before it touches
  the old one.

Each condition looks only at steps a call can be at (`At`): those before them have passed
with what was seen. `ToolCallsProofs` proves the promises for every toolbox that obeys,
and the run `tools` evaluates the conditions for this one, in every situation of every
tool (`CallsAndSituations`: either a call, or one situation to look at).

### CopilotSessions

A request takes the steps of `ensureSessionToken` or `ensureAutoModel` and is sent with the
token of that moment. The token is shared by the copies `WithTools` makes, the resolved
model and the functions that end goroutines are not. The API may give a token without an expiry
(`NoExpiry`): it starts no goroutine, and is good until it is replaced. A goroutine is named for the
request that started it, whose context it lives in. Time is a counter that does not
pass the expiry a live goroutine waits for, so that a token expires only where nobody
is left to refresh it.

## 3. Runs

| Run | Asks | Instance |
|---|---|---|
| `bus` | Does the bus implement `ActivityFeed`? Do table, channels and rings agree, whoever publishes, unsubscribes, evicts or closes? What ends a subscription? What does a resumed one get? | 2 sessions over a table of 1, 2 subscriptions, ring 2, queue 1, 4 events, DropEvent; 2.5 million states |
| `bus_feed` | Does it still when publishers overtake each other and slow clients are dropped? Is nothing missed, are subscriptions and watchers released? | 1 subscription, 2 sessions, 4 events, 2 publishers at once, DropSubscriber, fairness; 0.25 million states |
| `bus_stale_unsub` | Finding: unsub of a dropped subscriber closes another's channel | 3 subscriptions, DropSubscriber |
| `turns` | Exclusion, exact references, no lock left behind, whole turns, marked answers; does all of it implement `SerialTurns`? | 3 calls on 1 session, up to 2 chunks, condensation at 2 messages; 1.9 million states |
| `turns_live` | Does every call that waits for a session give it back? | 2 calls on 2 sessions, deferred Discards, fairness |
| `turns_discard_race` | Finding: a deferred Discard tears a turn | 2 calls on 1 session |
| `file_store` | Is what is shown what a restart finds, under faults? Does the store implement `DurableConversations`? | 2 clients, 2 conversations, 3 messages, a deletion, a crash and a fault; 1.4 million states |
| `window` | Is the bisection right, and does it end? | all conversations of up to 5 messages of 4 kinds, 6 budgets, 2 store budgets |
| `memory` | Does maintenance lose a memory? Does EndSession see the runs? | 2 runs, 2 facts, 2 sessions, 2 passes of 2 maintainers, 3 merges, a failing write, a restart; 2.4 million states |
| `memory_fallback` | Finding: EndSession without a maintainer deletes the memory it keeps | 2 runs |
| `tools` | Is anything changed that should not be, or a protected target? Is each call audited once and answered truly, whatever fails and whoever else works on the system? Does every tool obey `ToolDiscipline`? | 131 tools, checks, constructors and client calls, all modes, flags and flaws, up to 12 ways to each, one change by others, streams of up to 2 chunks, a pipe of 1; of the discipline all arguments and all that may be seen, which is no bound; 0.22 million states |
| `copilot_expiry` | Finding: a request is refused for a token nobody refreshes | 2 requests, 2 copies, time up to 4 |

Why the bounds are enough. In `bus` the ring wraps at the third event and a channel is
full after three, so that dropping, trimming and resuming past the ring all
happen with four; two sessions over a table of one make every second creation an
eviction; two subscriptions meet in one session and in two. In `bus_feed` a channel of three overflows at the
fourth event and two publishers overtake each other; one subscription is enough
there, because it is `bus` that is about the company of others (a reconnecting client
is a second subscription). Three calls are what the lock map needs: an owner, a waiter that
keeps the entry alive, and a newcomer that finds it or not. Two chunks and an error are
a complete, a cut and an empty answer. One conversation hit by a fault beside one that
is not is what `file_store` compares; four objects are more than two clients and the cache
can hold. Five messages give the bisection up to three probes with and without a
summary. Two passes, of one maintainer after the other or of two at once, and EndSession over two
memories that are learned again between them are the smallest races of the compactions with
each other and with everything else. In `tools`
a call is the only actor but for the others it does not see, and one change at any
moment is enough to make what it has read stale; two chunks over a pipe of one make
the relay wait, and the guidance after a dry run wait once more. The capacity of 100 in
the code only makes that rarer.
`MaxInflight`, `MaxEvents`, `MaxChunks`, `MaxAppends`, `MaxDeletes`, `MaxCrashes`, `MaxFaults`,
`MaxMerges`, `MaxTicks`, `MaxPasses`, `MaxFails`, `MaxRestarts`, `MaxOthers`, `MaxClock` and
`MaxFailures` are bounds of the models;
the other constants are of the code.

Symmetry is used for safety runs only, over sets whose members nothing tells apart.
Deadlock is not checked: a situation of a tool that `tools` looks at is the last state, and all these systems may come to rest when the clients are done
or a bound is reached, and a consumer may leave a stream for good; that nobody waits
for ever is what the liveness properties say, and of the relay of a stream
`AuditWaitsForReaderOnly`.

Fairness. `bus_feed`: weak fairness of the watcher goroutine and of an unsub that
waits for `b.mu`, since no section under it blocks (`ReplayNeverBlocks`); none for
clients. `turns_live`: weak fairness of every goroutine that can go on, and of the end of
the agent's run; strong fairness of `Acquire`, since a Go mutex hands itself to a waiter
that starves. Condensing is optional and not fair. `window`: weak fairness of a loop.

## 4. Proofs

Each theorem holds for every value of the constants that satisfies the named assumptions
of its modules. All safety properties of the passing runs but two are theorems
(below, "Only model-checked"): what a run shows on a small instance, these show of any. In each
module the argument is an inductive invariant made of named parts, and one lemma for each
action and part that the action can disturb.

### The bus (`ActivityBusProofs`)

Assumed: positive sizes, a policy that is one of the two, finitely many subscribers.

`OpenIffRegistered` is not inductive: `Registry` adds that absent sessions are empty, that
numbers within a session are distinct and below `nextSubID`, and that a closed bus has no
sessions. Without distinct numbers unsub could remove a neighbour. `ReplayNeverBlocks` rests on
`RingBounded` and the channel's capacity. `ClosedOnlyForCause`, of a DropEvent bus, needs
`Attached`: until its unsub is done a subscriber is in the table, so its session is not
evicted and its number is still its own. This is the fact that DropSubscriber breaks
(finding 1). `GrowsPastCapOnlyWhenBusy` is a count: a section that adds a session to a full
table removes an idle one if there is any.

`ImplementsFeed`: every section of the bus is a step of `ActivityFeed`, or none, for both
policies. `FeedInv` adds to `Registry` that each ring is the end of its session's log
(`RingsEndLogs`: an evicted session keeps its log and has an empty ring), that an id
that waits for the lock is in no log and no other publisher's (`WaitingIsNew`), and that
a subscription that has not been made has delivered nothing (`SilentBefore`). What is left
is the replay loop of Subscribe, which the model writes as the code does, event by event:
that it gives a subsequence of the ring, and of a ring in id order exactly what
is newer (`ResumeMissesNothing`), is an induction on the positions of the ring.

### Turns and sessions (`SessionTurnsProofs`, `SessionStoreProofs`)

Assumed: finitely many calls.

Locks: the invariant `LockInv` says that a call and the map refer to the same lock (`Linked`), that
no entry is unused (`Used`), that keys do not share locks (`Apart`), that the holder is the
owner (`Owned`), that counts are cardinalities (`Counted`) and when a call refers to a lock
(`Stages`). That a fresh lock exists is the pigeonhole principle on the calls.
`MutualExclusion`, `UnlockFindsOwnLock` and `RefsExact` follow. `NoLockForgotten`, with deferred Discards
as without, needs two facts more: a lock that is held is held by a call that refers to it and has not
released it (`Taken`), and a call that has not released still has its handler or its
persistence at work (`Busy`). It is the safety half of `CallsRelease`.

`UntaggedAnswersAreWhole` is about three goroutines and a pipe: `Flow` says how many of the
chunks sent to the client are in the answer so far and how many are in the pipe, so that
an answer stored after the pipe's regular end has all of them. It holds with deferred
Discards as without.

`WholeTurns` assumes `~DeferDiscard`, as does `WritesUnderLock`: with a deferred Discard both
are false (finding 2). `TurnInv` says that who works on a conversation owns its session
(`Working`), that a question is held back by its own turn and stored by none
(`HeldBack`), that a turn that has stored its question and not its answer has it at the
end of the conversation (`Halfway`), and that no author comes back after its turn
(`Authored`).

`ImplementsSerialTurns` assumes the same and is the sum of all: every step of locks,
goroutines and pipes is a step of `SerialTurns` or none. `SerialInv` puts the two invariants
together and adds that only turns run and only turns commit (`Kinds`). Exclusion lets the
other call begin only when this one has ended, `SoleWriter` says that between question and
answer nobody else writes, and `Halfway` that the question is the one message `Shown`
leaves out.

### The file store (`FileConversationsProofs`)

Assumed: there are at least as many objects as conversations and clients, since that
is how many are in use at once (the pool stands for Go's heap), and the model's `None` is
nothing else.

One invariant, `Inv`, gives types and all safety properties: which objects are whose (`Linked`), what a
save between its two writes has done (`Saving`), one object for a conversation (`OneObject`), nobody
saves under a deletion (`Undeleted`), the lines of an intact conversation all load
and are the messages of its object but for the newline of whoever is between the two
writes (`Whole`), they are of this life (`Alive`), and, of every conversation whatever
has hit it, what loads is in the order of the appends (`Ordered`). `Ordered` is the only
part that faults take nothing from: that a write after a cut-off one destroys both lines and
never makes a third one is its core.

`ImplementsDurable`: every step is a step of `DurableConversations` or none. `Inv` and
`Removed` (while a deletion that no fault has hit is between its halves the file is gone) give
`ShownIsKept`: what a conversation shows is what its file would load once the newline of whoever
is writing is there. From there each action is looked at in the file alone: opening,
the second write and a restart change nothing of it, an append adds one message, and a
fault touches the conversations it takes `intact` from and no others.

### The window (`ConversationWindowProofs`)

Assumed: a monotone counter. The bisection stays bracketed (`Bracketed`), the window is the
longest that fits and begins at the last summary, for conversations of any length.

`DefaultCounterSuits` says that the counter of the repository is such a counter, so that for it nothing is
assumed but sizes: `Default` is the module with the default counter, and its assumption is
proved for any messages that have a size. `Totals` are the sums of a window from its
beginning. What a cut counts is a difference of two of them, to which the summary is added
again where it stays: it is among the messages the cut takes away.

### Long-term memory (`AgentMemoryProofs`)

Assumed: similarity is reflexive and symmetric, and `Facts` are not numbers (ids of
learned memories are named for their facts, those of merged ones for numbers). There may be any
number of maintainers.

`RunInv` is about runs, extractions and EndSession and gives `EndSessionSeesRuns`; `RestInv` says
that each worker has work only while its pass or EndSession is under way; `StoreInv` that order, index and file agree (`Kept`)
after each write, failed or not, and that compactions hold and delete memories that were given
out (`Work`). `Enumerated` is part of it. `Durable` is what reading the file line by line
gives (`Found`).

`NothingForgotten` needs an argument about compactions of any number of workers side by side,
each on a list that may be stale. `CoverInv`: of a memory that a worker who merges
(`Merging`, those who clean up may delete what is old) is to delete, all that it says, or
will say when it is learned again under the same id, is said by a memory of the index with a
higher number; and a merged memory in a group that waits still says what it did when it was
listed. Memories as learned have the number 0, merged ones count up. A merge stores its
result, with the highest number so far, before anything of its group is deleted; so
of the memories that say a fact the one with the highest number is never to be deleted. Without the maintainer
the property is false (finding 3).

### Tool calls (`ToolCallsProofs`)

Assumed: bounds are numbers, the pipe is not empty. Hypotheses of the theorems: the
conditions of `ToolDiscipline` each needs, for all tools. The run `tools` evaluates
them (`EveryToolObeys`) of every tool, all its arguments and all it may see, so that for this
repository's tools nothing is left assumed. Of a tool that is added only this has to be
evaluated.

`CallInv` (from `FormedTools`) says that a call at step i has passed every step before it, has seen what
they read, and has asked for the changes among them (`Done`), that its authorisation is what
the gate gave (`Gated`), and that only a stream has a change left behind its answer. The
lemma `Advances` gives, for each step of the specification, what becomes of a call; each
promise is then one step per outcome:

* `AuditedOnce` from `AuditInv`, whichever way a call or its stream ends;
* `OnlyAuthorizedChanges` from `Cleared` and `GateSound`: a gate, a pipeline or a bare call
  authorises nothing that was not confirmed and allowed. That the policies allow it as well is
  part of the promise only behind the middleware, because a pipeline asks none (section 5);
* `RefusedCallsChangeNothing` from `Cleared` and `Late`, whatever others do meanwhile: directories
  above a path are the only thing a refused call may have made;
* `AnswersAreTrue` from `Truthful`;
* `MovesLoseNothing` from `Careful`, by `MoveInv`: until the copy has been asked for the object is as
  it was found, a move that goes on has its copy, and one that has ended has one of the two
  (all this where nobody else has changed the object). The copy is whole, or `pruned` where the
  mode says that there is something a copy leaves out: the theorem does not say that links
  arrive, and they do not;
* `ProtectedTargetsStay` from `Kept`, by `KeepInv`: where nobody has interfered, what the call has
  seen of its target is what is there, so a change that compares no version does not hit a
  protected target; with others at work only the server's comparison protects it.

They hold for any number of changes by others, of chunks, and any pipe: the bounds of
`tools` play no part.

### What helps the proofs

`NatSetInduction` states induction through the least element of a set of naturals, since the
library's induction theorems take an operator, which the provers cannot instantiate. For the
same reason `Picked` and `Increasing` choose from a sequence by its indices, where
`SelectSeq` would have to be unfolded.

### Only model-checked

* Liveness: `CancelReleases`, `UnsubEndsWatcher`, `CallsRelease`, `Returns`. It rests on fairness
  and so on ENABLED, which the provers do not know.
* `AuditWaitsForReaderOnly`, which speaks of ENABLED.
* `EveryToolObeys`: a fact about 131 concrete tools, which TLC decides completely.
* `CopilotSessions`, whose property is false of the code, and the other findings.

The other way round, `TypeOK` of the bus, of the turns, of the file store, of the window and of the
memory, and `Bracketed` of the window, are proved and in no run.

## 5. Where code and documents disagree

Shown by runs:

1. `bus_stale_unsub`: bus.go:201-202 says a delivering stream is never severed by an
   eviction. After DropSubscriber has removed a subscriber, its session can be
   evicted and created again, and the late unsub closes the channel of the new
   subscriber with the same number.
2. `turns_discard_race`: runner.go:51-52 says `defer turn.Discard()` stays safe around a
   bridged run. It clears the pending user message of a run that is still being
   stored, and frees the session.
3. `memory_fallback`: agent.go:686 says the first of a group is kept. A memory learned
   twice is a group of two with one id, and deleting the second deletes both.
4. `copilot_expiry`: components/model/copilot/README.md:226 says "Refresh ~60s before
   `expires_at`; re-acquire on 401/`mc_session_token_expired`". The refresher ends with
   the request that started it, only the presence of a token is looked at, and
   nothing is acquired again when the API refuses it.

Stated in a module as the documents say it, and violated. The property of the passing runs
named last has a condition instead, which says where the code departs; to see the
counterexample, check the first property with the run's constants, changed as told:

| Property | What is said, and what the code does | Instance | Condition of |
|---|---|---|---|
| `UnbudgetedIsUncut` | conversation.go:51-53: with a budget <= 0 `GetWindow` "only applies the last-summary trimming without a token cap". `SelectWindow` puts the store's maximum in its place (93-95, and so its own comment, 84-90) | `window` | `LongestFit` |
| `ResumeReplaysMissed` | sse/README.md:26-27: the handler "asks the bus to replay missed events". An event whose publisher took its id early and the lock late is not replayed to who received a later id (bus.go:153, 239) | `bus`, `MaxInflight = 2` | `ResumeMissesNothing` (rings in id order) |
| `NewSessionsRestoreCap` | callbacks/activity/README.md:101-104: retained sessions are capped by `MaxSessions`. A new session evicts one idle session (bus.go:192), so a table that grew while all were busy stays too large | `bus`, `ThreeSessions` | `GrowsPastCapOnlyWhenBusy` (growth only) |
| `PoliciesBindEveryCall` | components/middleware/safety/README.md:13-14: "all tool calls are evaluated against CEL expressions". The configuration of a pipeline has no policy, and the middleware's is asked about `pipe_exec`, not about the tools of its steps (pipe.go:227-281) | `tools` | `OnlyAuthorizedChanges` (policies bind what is behind the middleware) |
| `ProtectedTargetsNeverChange` | dashboard_write.go:64-65: protected dashboards "cannot be modified or deleted". Protection is looked at in one request (162-174); the save with overwrite (259) and the deletion compare no version, so a dashboard protected in between is changed | `tools` | `ProtectedTargetsStay` (`BlindModes` that others have overtaken) |

Met while modelling, and described by the conditions of the properties or by the models:

* A kill between the two writes of `Save` glues the next message to the cut one, and
  neither loads; a line over 64 KiB hides itself and all later ones at the next start; a
  kill between the two removals of a deletion leaves the activities to the successor
  (`intact` is lost in each case, so `LoadAgrees`, `OneObject`, `NothingSurvivesDeletion` and
  `ImplementsDurable` promise nothing of that conversation any more; `LoadsInOrder` still does).
* `ListConversations` also lists `.jsonl.activities` files; `GetConversation` without
  `create` creates and caches the object all the same.
* `Retrieve` of the memory file store with as many results as memories can omit one when
  the order has an id twice; `load` does not end on a torn line; a second EndSession
  closes a closed channel; a merged memory keeps the age of its first original; ids
  are determined by text alone, so users share them; EndSession's fallback drops the error of
  storing the memory it keeps.
* The GitHub tools that copy, move or write a file make the directories above the destination
  before they refuse a transfer into itself, between kinds or over a link, or a base branch that
  is not there (helper.go:286-313, file_write.go:111-147).
* A move of a directory to another device leaves its symbolic links, and in a clone its `.git`
  directories, out of the copy and then removes the source (fileutil.go:324-336, move.go:112-115);
  a failed `file_copy` removes the file that was at its destination.
* A create of a dashboard ignores its parameter `uid`, as documented, but reads that dashboard,
  refuses when it is protected, and takes its version (dashboard_write.go:162-174, 234-245); an
  update with a uid whose model is the JSON `null` assigns to a nil map.
* `argocd_application_sync` answers a dry run as it answers a sync (`RehearsingTools`);
  `github_repo_clone` removes the clone that is there before it has another; the streamed
  `kubernetes_pod_exec` reads stderr only after stdout has been closed, which a command
  that writes to stderr never gets to; a profile of the shell is found in the order of a
  Go map; `Append` of the conversation store on OpenSearch cannot report a failed save; what a
  file tool has written may be swept away with its session after it has answered, which no
  property excludes.

## 6. Plan

Done: `ActivityBus` and `ActivityFeed`, `SessionTurns` and `SerialTurns`, `FileConversations` and
`DurableConversations`,
`ConversationWindow`, `FileMemories` and `AgentMemory`, `ToolCalls` with `SafetyGate` and all
tools, `ToolDiscipline`, `OpenSearchClients`, `CopilotSessions`, and proofs of every safety
property of theirs that holds, but for `AuditWaitsForReaderOnly`. Next:

1. `TailSelection` (contextopt): no tool result loses its call, or which condition on the
   budget ensures it; `ToolCallStream`: chunks of both Copilot protocols against the calls
   the server meant; `ActivityHandler` over `ActivityFeed`; `CostSessions`.
2. Proofs about these: that a tail begins at a turn, and that the handler's events are
   delivered to a subscriber of the feed in an order its client can nest.

## 7. Not modelled

The components with status `not_modelled` in `PROJECT.json`, each with its reason. They
are of two kinds: planned above; and formatting, templates and pure text processing,
where a call keeps nothing for the next. Within the modelled parts: heartbeats and
encoding of SSE, ids set by publishers of events (no caller sets one), traces and prompts
of the memory agent, ranking in `Retrieve`, several users and categories of memories, and
the text of messages; what a tool prints; the audit sinks; the commands a container of
dagger is made of; the exchange and refresh of the GitHub token, which lives in the
context of the host, and a session token the host has configured.
