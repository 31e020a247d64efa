------------------------------ MODULE ToolCalls ------------------------------
(***************************************************************************)
(* One tool call from the request of a model to its audit event.  The call *)
(* passes the gate (SafetyGate), runs the steps of its tool against the    *)
(* system the tool works on, which others change meanwhile, and returns an *)
(* answer, or a stream that a goroutine of the middleware relays and       *)
(* audits at its end.  A request fails before or after the server has      *)
(* carried it out.                                                         *)
(*                                                                         *)
(* Calls of the same tools that run at the same time are the others of one *)
(* another: nothing is shared between two calls but the systems they work  *)
(* on.                                                                     *)
(***************************************************************************)
EXTENDS SafetyGate

CONSTANTS
    Tools,              \* the names of the tools
    WriteTools,         \* the ones the registries declare as writing
    DryRunTools,        \* the ones with a dryRun flag
    DirectTools,        \* the ones documented to execute without confirmation
    CopyTools,          \* the ones that work on a second object
    MoveTools,          \* the ones of them that move the first to the second
    PushTools,          \* the ones whose second object is a remote branch
    HeldTools,          \* the ones whose second object the process holds
    RehearsingTools,    \* the ones that answer a dry run as an execution
    ScopedTools,        \* the ones whose places a configuration restricts
    GuardedTools,       \* the ones whose targets a configuration protects
    SessionTools,       \* the ones on the directory of a session
    PathTools,          \* the ones that make the directories above a path
    Probes,             \* the health checks and the constructors, which the
                        \* host calls directly
    LateChecks,         \* the checks of what a server has answered to a change
    StreamModes,        \* the modes whose answer is a stream
    BlindModes,         \* the modes that change whatever is there by then
    PrunedModes,        \* the modes that copy a directory not whole
    Steps(_, _, _),     \* the steps of a tool, given arguments and views
    Modes(_),           \* the operations a tool distinguishes
    MaxOthers,          \* bound: changes by others during a call
    MaxChunks,          \* bound: chunks of a stream
    PipeSize            \* the capacity of the middleware's pipe

ASSUME BoundsAssumption ==
    /\ MaxOthers \in Nat
    /\ MaxChunks \in Nat
    /\ PipeSize \in Nat \ {0}
ASSUME WriteToolsAssumption == WriteTools \subseteq Tools

\* The objects a tool works on, the one of them that lies in the directories it
\* makes, and the contents each may have.
ObjectsOf(t) ==
    {"target"} \cup (IF t \in CopyTools THEN {"copy"} ELSE {})
               \cup (IF t \in PathTools THEN {"parents"} ELSE {})
Below(t) == IF t \in CopyTools \ PushTools THEN "copy" ELSE "target"
Possible(t, o) ==
    CASE o \notin ObjectsOf(t) -> {"none"}
      [] o \in ObjectsOf(t) /\ o = "parents" -> {"none", "old", "ours"}
      [] o \in ObjectsOf(t) /\ o = "copy" -> Contents \ {"guarded"}
      [] OTHER -> Contents \ (IF t \in GuardedTools THEN {"pruned"} ELSE {"pruned", "guarded"})

VARIABLES
    store,      \* the objects of the system the call works on
    call,       \* the call
    trail       \* the events of this call that the audit sink was handed

vars == <<store, call, trail>>

Stages == {"idle", "running", "streaming", "over"}

Idle == [stage |-> "idle", reader |-> "none"]

\* The framework decodes the arguments before the tool sees them.
Program(c) == Check(c.p, "json") \o Steps(c.tool, c.p, c.seen)

\* The step that is next: the checks from c.pc on have passed up to the next
\* step that is a request, an answer or a check that fails.
Ahead(c) ==
    LET prog == Program(c)
    IN {i \in c.pc .. Len(prog) :
            /\ prog[i].op = "check" => ~prog[i].ok
            /\ \A j \in c.pc .. (i - 1) : prog[j].op = "check" /\ prog[j].ok}

Event(c, failed) == [phase |-> c.phase, failed |-> failed]

\* The middleware audits a call when its tool has returned.
Audit(c, failed) ==
    trail' = IF c.way.via = "bare" THEN trail ELSE Append(trail, Event(c, failed))

-----------------------------------------------------------------------------
Init ==
    /\ store = [o \in Objects |-> "none"]
    /\ call = Idle
    /\ trail = <<>>

\* A call arrives: the middleware or the pipeline looks at it, and audits it
\* when it is refused.
Begin(t, p, w, before) ==
    LET v == Verdict(w, t, p, WriteTools)
        c == [stage |-> "running", tool |-> t, way |-> w,
              p |-> [p EXCEPT !.granted = v.granted], phase |-> v.phase,
              found |-> before, pc |-> 1, seen |-> Unread, asked |-> {}, took |-> {}, behind |-> {},
              others |-> 0, result |-> "none", why |-> "none",
              left |-> 0, queue |-> 0, reader |-> "none", broken |-> FALSE]
    IN /\ store' = before
       /\ IF v.phase = "rejected" \/ StepRefused(w, t, p, WriteTools)
          THEN /\ call' = [c EXCEPT !.stage = "over", !.result = "error", !.why = "gate"]
               /\ trail' = <<Event(c, TRUE)>>
          ELSE call' = c /\ trail' = <<>>

Fail(why) ==
    /\ call' = [call EXCEPT !.stage = "over", !.result = "error", !.why = why]
    /\ Audit(call, TRUE)

\* The actions of a running call, whose step s is the i-th of its program.  An
\* early return: the first check that does not hold.
FailCheck(i, s) ==
    /\ s.op = "check"
    /\ Fail(s.why)
    /\ UNCHANGED store

\* A request that changes nothing is answered.
Learn(i, s) ==
    /\ s.op \in {"ask", "read"}
    /\ call' = [call EXCEPT !.pc = i + 1,
                            !.seen = IF s.op = "read"
                                     THEN [@ EXCEPT ![s.obj] = store[s.obj]]
                                     ELSE @]
    /\ UNCHANGED <<store, trail>>

\* Such a request fails: the call ends, unless the tool goes on without it.
LearnFails(i, s) ==
    /\ s.op \in {"ask", "read"}
    /\ ~s.sure
    /\ IF s.lenient
       THEN /\ call' = [call EXCEPT !.pc = i + 1,
                                    !.seen = IF s.op = "read"
                                             THEN [@ EXCEPT ![s.obj] = "error"]
                                             ELSE @]
            /\ UNCHANGED trail
       ELSE Fail("request")
    /\ UNCHANGED store

\* What a request that changes objects is taken by, what it makes of them, and
\* what it leaves when it fails: it is refused, or does not reach the server, or is
\* carried out and the answer does not arrive, or breaks off in between.
Taken(s) == /\ store[s.obj] \in s.accepts
            /\ \A o \in s.from \cup s.under : store[o] # "none"
Changed(s) == [o \in Objects |-> IF o = s.obj THEN s.val
                                 ELSE IF o \in s.from THEN "none" ELSE store[o]]
Left(s) ==
    {store} \cup (IF s.leaves = {} /\ Taken(s) THEN {Changed(s)} ELSE {})
            \cup {[store EXCEPT ![s.obj] = x] : x \in {y \in s.leaves : y = "none" \/ Taken(s)}}

\* Such a request is carried out and answered.
Carry(i, s) ==
    /\ s.op = "write"
    /\ Taken(s)
    /\ store' = Changed(s)
    /\ call' = [call EXCEPT !.pc = i + 1,
                            !.asked = @ \cup {s.obj},
                            !.took = @ \cup {s.obj}]
    /\ UNCHANGED trail

\* It fails.  The call ends, unless the tool does not mind.
CarryFails(i, s) ==
    /\ s.op = "write"
    /\ ~s.sure
    /\ store' \in Left(s)
    /\ IF s.lenient
       THEN /\ call' = [call EXCEPT !.pc = i + 1, !.asked = @ \cup {s.obj}]
            /\ UNCHANGED trail
       ELSE /\ call' = [call EXCEPT !.stage = "over", !.result = "error", !.why = "request",
                                    !.asked = @ \cup {s.obj}]
            /\ Audit(call, TRUE)

\* The tool returns, with its answer or with a stream of chunks that may break,
\* and behind which a change may still be made.
Return(i, s) ==
    /\ s.op = "answer"
    /\ IF call.p.mode \in StreamModes /\ call.way.via = "middleware"
       THEN \E n \in 0 .. MaxChunks, b \in BOOLEAN :
                /\ call' = [call EXCEPT !.stage = "streaming", !.result = s.kind,
                                        !.left = n, !.broken = b, !.reader = "reading",
                                        !.behind = s.behind]
                /\ UNCHANGED trail
       ELSE /\ call' = [call EXCEPT !.stage = "over", !.result = s.kind]
            /\ Audit(call, FALSE)
    /\ UNCHANGED store

-----------------------------------------------------------------------------
\* wrapStreamAudit: a goroutine receives from the tool's stream and sends to a
\* pipe of its own, whose sends block while it is full and not closed.
Room == call.queue < PipeSize \/ call.reader = "closed"
Queued == IF call.reader = "closed" THEN call.queue ELSE call.queue + 1

\* Mutant: the relay stops when the consumer has closed the stream.
RelayWhileOpen ==
    /\ call.stage = "streaming"
    /\ call.left > 0
    /\ call.reader # "closed" /\ Room
    /\ call' = [call EXCEPT !.left = @ - 1, !.queue = Queued]
    /\ UNCHANGED <<store, trail>>

\* Mutant: the sends do not wait for room.
RelayAtOnce ==
    /\ call.stage = "streaming"
    /\ call.left > 0
    /\ call' = [call EXCEPT !.left = @ - 1, !.queue = Queued]
    /\ UNCHANGED <<store, trail>>

Relay ==
    /\ call.stage = "streaming"
    /\ call.left > 0
    /\ Room
    /\ call' = [call EXCEPT !.left = @ - 1, !.queue = Queued]
    /\ UNCHANGED <<store, trail>>

\* Mutant: a broken stream is closed without an event.
StreamBreaksUnseen ==
    /\ call.stage = "streaming"
    /\ call.left = 0 /\ call.behind = {}
    /\ call' = [call EXCEPT !.stage = "over", !.result = IF call.broken THEN "error" ELSE @]
    /\ IF call.broken THEN UNCHANGED trail ELSE Audit(call, FALSE)
    /\ UNCHANGED store

\* The change behind a stream is made, or fails and breaks the stream.
CarryBehind ==
    /\ call.stage = "streaming"
    /\ \E s \in call.behind :
          \/ /\ Taken(s)
             /\ store' = Changed(s)
             /\ call' = [call EXCEPT !.behind = {}, !.asked = @ \cup {s.obj},
                                     !.took = @ \cup {s.obj}]
          \/ /\ store' \in Left(s)
             /\ call' = [call EXCEPT !.behind = {}, !.asked = @ \cup {s.obj}, !.broken = TRUE]
    /\ UNCHANGED trail

\* The end of the stream, which comes when what is behind it has ended.  After a
\* dry run the guidance is sent before the event is written; after an error the
\* event is written first.
StreamEnds ==
    /\ call.stage = "streaming"
    /\ call.left = 0 /\ call.behind = {}
    /\ (call.phase = "dry_run" /\ ~call.broken) => Room
    /\ call' = [call EXCEPT !.stage = "over",
                            !.result = IF call.broken THEN "error" ELSE @,
                            !.why = IF call.broken THEN "stream" ELSE @]
    /\ Audit(call, call.broken)
    /\ UNCHANGED store

\* The consumer of the stream takes a chunk, closes the stream, or leaves it.
Consume ==
    /\ call.stage = "streaming"
    /\ call.reader = "reading"
    /\ call.queue > 0
    /\ call' = [call EXCEPT !.queue = @ - 1]
    /\ UNCHANGED <<store, trail>>

StopReading(how) ==
    /\ call.stage = "streaming"
    /\ call.reader = "reading"
    /\ call' = [call EXCEPT !.reader = how, !.queue = IF how = "closed" THEN 0 ELSE @]
    /\ UNCHANGED <<store, trail>>

-----------------------------------------------------------------------------
\* Somebody else changes an object while the call is under way; below directories
\* only where there are these directories.
UnderWay == call.stage = "running" \/ (call.stage = "streaming" /\ call.behind # {})

Elsewhere(o, v) ==
    /\ UnderWay
    /\ call.others < MaxOthers
    /\ v # store[o]
    /\ o \in ObjectsOf(call.tool) \ {"parents"}
    /\ o = "copy" => call.tool \notin HeldTools
    /\ v \in Possible(call.tool, o)
    /\ call.tool \in PathTools /\ o = Below(call.tool) => store["parents"] # "none"
    /\ store' = [store EXCEPT ![o] = v]
    /\ call' = [call EXCEPT !.others = @ + 1]
    /\ UNCHANGED trail

\* The collector of old sessions removes the directory of one that was not used
\* for long.  It looks at the time of the last use before it removes, so that a
\* use in between does not save the directory.
SweepStaleDirs ==
    /\ UnderWay
    /\ call.tool \in SessionTools
    /\ call.others < MaxOthers
    /\ store' = [o \in Objects |-> IF o = "copy" /\ call.tool \in PushTools
                                   THEN store[o] ELSE "none"]
    /\ call' = [call EXCEPT !.others = @ + 1]
    /\ UNCHANGED trail

Forget ==
    /\ call.stage = "over"
    /\ call' = Idle
    /\ trail' = <<>>
    /\ store' = [o \in Objects |-> "none"]

-----------------------------------------------------------------------------
\* The arguments a call may have.  Sound ones pass the checks of their values,
\* whatever flags and place they name; flawed ones fail one check that the
\* tool makes on the way they take.
Sound(t) ==
    [mode : Modes(t), flaw : {"none"}, granted : {FALSE},
     scope : IF t \in ScopedTools THEN {"open", "closed"} ELSE {"open"},
     dryRun : IF t \in DryRunTools THEN BOOLEAN ELSE {FALSE},
     confirmed : IF t \in WriteTools THEN BOOLEAN ELSE {FALSE}]

Sights == {Unread, [o \in Objects |-> "none"], [o \in Objects |-> "old"]}
ChecksOf(steps) == {steps[i].why : i \in {j \in DOMAIN steps : /\ steps[j].op = "check"
                                                               /\ steps[j].arg}}
Flaws(t, p) == {"json"} \cup UNION {ChecksOf(Steps(t, p, v)) : v \in Sights}
Flawed(t) ==
    UNION {{[p EXCEPT !.flaw = f] : f \in Flaws(t, p)} :
              p \in {q \in Sound(t) : /\ q.scope = "open"
                                      /\ q.confirmed = (t \in WriteTools)}}

\* The ways to a tool that the gate tells apart: with an authorizer that agrees,
\* disagrees or is not set; with the model's confirmation; against a policy;
\* as a step of a pipeline, which is no stream; past a list it is missing from;
\* without any of them.
Way(via, policy, model, host) ==
    [via |-> via, policy |-> policy, model |-> model, host |-> host, listed |-> TRUE]
Unlisted(via) == [Way(via, TRUE, TRUE, "yes") EXCEPT !.listed = FALSE]
Approved == Way("middleware", TRUE, FALSE, "yes")
Bare == Way("bare", TRUE, FALSE, "unset")
WaysTo(t) ==
    IF t \in Probes THEN {Bare} ELSE
    {Approved, Way("middleware", FALSE, FALSE, "yes"), Way("pipe", TRUE, FALSE, "yes"),
     Way("pipe", FALSE, FALSE, "yes"), Bare}
        \cup IF t \notin WriteTools THEN {}
             ELSE {Way("middleware", TRUE, FALSE, "no"), Way("middleware", TRUE, FALSE, "unset"),
                   Way("middleware", TRUE, TRUE, "unset"), Way("pipe", TRUE, FALSE, "no"),
                   Way("pipe", TRUE, TRUE, "unset"), Unlisted("middleware"), Unlisted("pipe")}

\* The system as a call finds it; what lies in a directory has that directory.
Before(t) ==
    {b \in [Objects -> {"none", "old", "guarded"}] :
        /\ \A o \in Objects : b[o] \in Possible(t, o)
        /\ t \in PathTools /\ b["parents"] = "none" => b[Below(t)] = "none"}

Advance ==
    /\ call.stage = "running"
    /\ \E i \in Ahead(call) :
          LET s == Program(call)[i]
          IN \/ FailCheck(i, s) \/ Learn(i, s) \/ LearnFails(i, s)
             \/ Carry(i, s) \/ CarryFails(i, s) \/ Return(i, s)

Arrive ==
    /\ call.stage = "idle"
    /\ \E t \in Tools : \E b \in Before(t) :
          \/ \E p \in Sound(t), w \in WaysTo(t) :
                /\ w.via = "pipe" => p.mode \notin StreamModes
                /\ Begin(t, p, w, b)
          \/ \E p \in Flawed(t) : Begin(t, p, IF t \in Probes THEN Bare ELSE Approved, b)

Next ==
    \/ Arrive
    \/ Advance
    \/ Relay \/ CarryBehind \/ StreamEnds \/ Consume
    \/ \E how \in {"closed", "gone"} : StopReading(how)
    \/ \E o \in Objects, v \in {"none", "guarded", "theirs"} : Elsewhere(o, v)
    \/ SweepStaleDirs
    \/ Forget

Spec == Init /\ [][Next]_vars

-----------------------------------------------------------------------------
Results == {"none", "error", "preview", "data", "done", "opened"}

TypeOK ==
    /\ store \in [Objects -> Contents]
    /\ call.stage \in Stages
    /\ call.stage # "idle" =>
          /\ call.tool \in Tools
          /\ call.way \in Ways
          /\ call.p.mode \in Modes(call.tool)
          /\ call.phase \in Phases
          /\ call.pc \in Nat \ {0}
          /\ call.seen \in [Objects -> Views]
          /\ call.asked \subseteq Objects
          /\ call.took \subseteq call.asked
          /\ call.found \in [Objects -> Contents]
          /\ call.result \in Results
          /\ call.left \in 0 .. MaxChunks
          /\ call.queue \in 0 .. PipeSize
    /\ trail \in Seq([phase : Phases, failed : BOOLEAN])

Busy == call.stage # "idle"
Wrote == Busy /\ call.asked # {}

\* A change is asked for only outside dry runs, and, but for the tools that say
\* of themselves that they execute directly, only when the call was confirmed and
\* the host (or, where it is configured so, the model's confirmation) authorised
\* this very tool: whichever way the tool was reached, and also where nothing
\* stands before it.  Behind the middleware no policy has denied it, whether the
\* tool is direct or not, and it is a call whose event will say that it was an
\* execution, unless the tool is a direct one.  A pipeline asks no policy.
OnlyAuthorizedChanges ==
    Wrote => /\ ~call.p.dryRun
             /\ call.way.via = "middleware" => call.way.policy
             /\ call.tool \notin DirectTools =>
                    /\ call.p.confirmed
                    /\ call.way.via # "bare"
                    /\ call.way.model \/ call.way.host = "yes"
                    /\ call.way.via = "middleware" => call.phase = "execute"

\* A call that a check has refused has changed nothing, except that it may have
\* made the directories above a path, and those only when the gate and the tool's
\* own confirmation were passed: no tool has begun to change anything else when it
\* finds its arguments wrong, its place forbidden or its target protected.
RefusedCallsChangeNothing ==
    Wrote => /\ call.p.scope # "closed"
             /\ \/ call.why \in {"none", "request", "stream"} \cup LateChecks
                \/ call.asked = {"parents"} /\ call.why \notin {"gate", "confirmation"}

\* A call leaves one event with the sink, whatever way it takes to its end:
\* none before it has ended, one when it has, and that one says in which phase
\* it was and whether it failed.
AuditedOnce ==
    /\ call.stage \in {"running", "streaming"} => trail = <<>>
    /\ call.stage = "over" /\ call.way.via # "bare" =>
          trail = <<Event(call, call.result = "error")>>

\* The answer of a call says what it did: "done" only when a change other than of
\* the directories above a path was carried out, a preview or data only when none
\* was asked for.
AnswersAreTrue ==
    call.stage \in {"streaming", "over"} =>
        /\ call.result = "done" => \/ call.took \ {"parents"} # {}
                                   \/ call.tool \in RehearsingTools /\ call.p.dryRun
        /\ call.result \in {"preview", "data"} => call.asked = {}

\* A move loses no more than its copy leaves out: whatever fails on its way, what
\* was to be moved is at its old place, or it is at its new one, unless somebody
\* else has changed them.  Whole, but for a directory with links (in a clone, with
\* .git directories), which are not carried over to another device.
MovesLoseNothing ==
    (Busy /\ call.tool \in MoveTools /\ call.others = 0 /\ call.found["target"] # "none") =>
        \/ store["target"] = call.found["target"]
        \/ store["copy"] = "ours"
        \/ store["copy"] = "pruned" /\ call.p.mode \in PrunedModes

\* No step of a call changes a target that is protected at that moment, even if
\* others had replaced it after the call looked at it: the change is refused for its
\* version.  Where the call asks to overwrite, or deletes, no version is compared:
\* it may hit a target that others have put there since it looked.
ProtectedTargetsStay ==
    [][(/\ call.stage \in {"running", "streaming"}
        /\ call'.others = call.others
        /\ store["target"] = "guarded") =>
          \/ store'["target"] = "guarded"
          \/ call.p.mode \in BlindModes /\ call.others > 0]_vars

\* What the tool's description says: a protected target cannot be changed.  False of
\* the code, where BlindModes compare no version: see README.md, section 5.
ProtectedTargetsNeverChange ==
    [][(/\ call.stage \in {"running", "streaming"}
        /\ call'.others = call.others
        /\ store["target"] = "guarded") => store'["target"] = "guarded"]_vars

\* What the documentation says: every call of a tool is evaluated by the policies.
\* False of the code for the steps of a pipeline: see README.md, section 5.
PoliciesBindEveryCall == Wrote => call.way.policy

\* The event of a streamed call is held up by a consumer only that has left the
\* stream without closing it: while one reads, and also when it has closed the
\* stream early, the goroutine that relays the stream can go on to its end.
AuditWaitsForReaderOnly ==
    (call.stage = "streaming" /\ call.reader # "gone") =>
        ENABLED (Relay \/ CarryBehind \/ StreamEnds \/ Consume)
=============================================================================
