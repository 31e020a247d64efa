--------------------------- MODULE ToolCallsProofs ---------------------------
(***************************************************************************)
(* Proofs about tool calls, for every toolbox whose tools obey the         *)
(* conditions of ToolDiscipline.                                           *)
(***************************************************************************)
EXTENDS ToolDiscipline, SequenceTheorems, TLAPS

\* The conditions on a whole toolbox.
FormedTools ==
    \A t \in Tools : \A p \in Args(t), v \in ViewsOf(t) : Formed(t, p, v) /\ Causal(t, p, v)
ClearedTools == \A t \in Tools : \A p \in Args(t), v \in ViewsOf(t) : Cleared(t, p, v)
LateTools == \A t \in Tools : \A p \in Args(t), v \in ViewsOf(t) : Late(t, p, v)
TruthfulTools == \A t \in Tools : \A p \in Args(t), v \in ViewsOf(t) : Truthful(t, p, v)
KeptTools == \A t \in Tools : \A p \in Args(t), v \in ViewsOf(t) : Kept(t, p, v)
CarefulTools == \A t \in Tools : \A p \in Args(t), v \in ViewsOf(t) : Careful(t, p, v)

-----------------------------------------------------------------------------
(* The gate.                                                               *)

\* An authorisation is given to a confirmed execution only, by the host or where the
\* model's confirmation is enough, and never without a gate.  The middleware lets no call
\* pass that a policy denies.
LEMMA GateSound ==
  ASSUME NEW w \in Ways, NEW t, NEW p, p.dryRun \in BOOLEAN, p.confirmed \in BOOLEAN
  PROVE  LET v == Verdict(w, t, p, WriteTools)
         IN  /\ v.phase \in Phases /\ v.granted \in BOOLEAN
             /\ v.granted => /\ w.via # "bare"
                             /\ w.model \/ w.host = "yes"
                             /\ p.confirmed /\ ~p.dryRun
                             /\ w.via = "middleware" => v.phase = "execute"
             /\ w.via = "middleware" /\ v.phase # "rejected" => w.policy
<1>0. w.policy \in BOOLEAN /\ w.model \in BOOLEAN /\ w.listed \in BOOLEAN
  BY DEF Ways
<1>1. /\ Gate(w, p).phase \in Phases /\ Gate(w, p).granted \in BOOLEAN
      /\ Gate(w, p).granted => /\ w.model \/ w.host = "yes"
                               /\ p.confirmed /\ ~p.dryRun
                               /\ Gate(w, p).phase = "execute"
  <2>1. CASE p.flaw = "json" \/ ~GateOpens(w, p)
    <3>1. Gate(w, p) = Rejected
      BY <2>1 DEF Gate
    <3> QED BY <3>1 DEF Rejected, Phases
  <2>2. CASE p.flaw # "json" /\ GateOpens(w, p) /\ p.dryRun
    <3>1. Gate(w, p) = [phase |-> "dry_run", granted |-> FALSE]
      BY <2>2 DEF Gate
    <3> QED BY <3>1 DEF Phases
  <2>3. CASE p.flaw # "json" /\ GateOpens(w, p) /\ ~p.dryRun
    <3>1. Gate(w, p) = [phase |-> "execute", granted |-> TRUE]
      BY <2>3 DEF Gate
    <3>2. (w.model \/ w.host = "yes") /\ p.confirmed
      BY <2>3 DEF GateOpens, ShouldGateWithAuthorization
    <3> QED BY <2>3, <3>1, <3>2 DEF Phases
  <2> QED BY <2>1, <2>2, <2>3
<1> DEFINE v == Verdict(w, t, p, WriteTools)
<1> SUFFICES /\ v.phase \in Phases /\ v.granted \in BOOLEAN
             /\ v.granted => /\ w.via # "bare"
                             /\ w.model \/ w.host = "yes"
                             /\ p.confirmed /\ ~p.dryRun
                             /\ w.via = "middleware" => v.phase = "execute"
             /\ w.via = "middleware" /\ v.phase # "rejected" => w.policy
  OBVIOUS
<1> DEFINE reads == [phase |-> "read", granted |-> FALSE]
<1>5. Rejected.phase = "rejected" /\ Rejected.granted = FALSE
  BY DEF Rejected
<1>6. reads.phase = "read" /\ reads.granted = FALSE
  OBVIOUS
<1>2. CASE w.via = "middleware"
  <2>1. v = IF ~w.policy THEN Rejected
            ELSE IF ~Listed(w, t, WriteTools) THEN reads ELSE Gate(w, p)
    BY <1>2 DEF Verdict, preflight, PolicyPasses
  <2>2. v = Rejected \/ v = reads \/ (w.policy /\ v = Gate(w, p))
    BY <1>0, <2>1
  <2>3. v # Rejected => w.policy
    BY <1>0, <2>1
  <2> HIDE DEF v, reads
  <2>4. CASE v = Rejected
    BY <1>5, <2>4 DEF Phases
  <2>5. CASE v = reads /\ v # Rejected
    BY <1>6, <2>3, <2>5 DEF Phases
  <2>6. CASE w.policy /\ v = Gate(w, p)
    BY <1>1, <1>2, <2>6
  <2> QED BY <2>2, <2>4, <2>5, <2>6
<1>3. CASE w.via = "pipe"
  <2> DEFINE step == [phase |-> "read", granted |-> Listed(w, t, WriteTools) /\ Gate(w, p).granted]
  <2>1. v = step
    BY <1>3 DEF Verdict, runToolStep
  <2>2. step.phase = "read" /\ step.granted \in BOOLEAN /\ (step.granted => Gate(w, p).granted)
    BY <1>0, <1>1 DEF Listed
  <2> HIDE DEF v, step
  <2> QED BY <1>1, <1>3, <2>1, <2>2 DEF Phases
<1>4. CASE w.via \notin {"middleware", "pipe"}
  BY <1>4 DEF Verdict, Phases
<1> QED BY <1>2, <1>3, <1>4

-----------------------------------------------------------------------------
(* What a call is.                                                         *)

\* The arguments, the reasons for an error, and the calls there may be.
Params == UNION {Args(t) : t \in Tools}

Reasons == STRING \cup {"none", "gate", "request", "stream"}

Calls ==
  [stage : {"running", "streaming", "over"}, tool : Tools, way : Ways, p : Params,
   phase : Phases, found : [Objects -> Contents], pc : Nat \ {0}, seen : [Objects -> Views],
   asked : SUBSET Objects, took : SUBSET Objects, behind : SUBSET ChangeStep, others : Nat,
   result : Results, why : Reasons, left : 0 .. MaxChunks, queue : 0 .. PipeSize,
   reader : {"none", "reading", "closed", "gone"}, broken : BOOLEAN]

\* The arguments and the views are those of the call's tool.
Apt(c) == c.p \in Args(c.tool) /\ c.seen \in ViewsOf(c.tool)

\* The objects are as those of the call's tool may be.
Fits(c, s) == \A o \in Objects : s[o] \in Possible(c.tool, o)

\* The authorisation of a call comes from the gate, and no policy of the middleware has
\* denied it.
Gated(c) ==
  /\ c.p.granted => /\ c.way.via # "bare"
                    /\ c.way.model \/ c.way.host = "yes"
                    /\ c.way.via = "middleware" => c.phase = "execute"
  /\ c.way.via = "middleware" /\ c.stage # "over" => c.way.policy

\* A call was answered only the changes it has asked for, and a change is to come only
\* behind the answer of a stream.
Tidy(c) ==
  /\ c.took \subseteq c.asked
  /\ c.behind # {} => c.stage = "streaming" /\ c.result = "opened" /\ c.why = "none"
  /\ \A s \in c.behind : Fitting(c.tool, s)

\* What a call has done of its program q: it passed the steps before pc, has seen what
\* they read, and has asked for the changes among them.
Done(c, q) ==
  /\ c.pc <= Len(q) + 1
  /\ \A j \in 1 .. (c.pc - 1) : q[j] \in Step /\ Passed(c.seen, q[j])
  /\ \A o \in Objects : c.seen[o] # "unread" => ReadBefore(q, c.pc, o)
  /\ c.asked = {q[j].obj : j \in Changes(q, c.pc)}
  /\ \A j \in Changes(q, c.pc) : ~q[j].lenient => q[j].obj \in c.took
  /\ c.result = "none" /\ c.why = "none"

ProgramAt(c) == ProgramOf(c.tool, c.p, c.seen)

CallInv ==
  /\ store \in [Objects -> Contents]
  /\ trail \in Seq([phase : Phases, failed : BOOLEAN])
  /\ \/ call = Idle
     \/ call \in Calls /\ Apt(call) /\ Fits(call, store) /\ Gated(call) /\ Tidy(call)
  /\ call.stage = "running" => Done(call, ProgramAt(call))

\* The program of a call depends on its tool, its arguments and what it has seen.
LEMMA ProgramIs ==
  ASSUME NEW c
  PROVE  Program(c) = ProgramAt(c)
BY DEF Program, ProgramAt, ProgramOf

\* The contents an object may have.
LEMMA PossibleType ==
  ASSUME NEW t, NEW o
  PROVE  /\ Possible(t, o) \subseteq Contents /\ "none" \in Possible(t, o)
         /\ "guarded" \in Possible(t, o) => t \in GuardedTools
BY DEF Possible, Contents

\* A view is one of each object.
LEMMA ViewIs ==
  ASSUME NEW t, NEW v \in ViewsOf(t)
  PROVE  v \in [Objects -> Views] /\ \A o \in Objects : v[o] \in SightsOf(t, o)
<1>1. PICK a \in SightsOf(t, "target"), b \in SightsOf(t, "copy"), c \in SightsOf(t, "parents") :
         v = [o \in Objects |-> CASE o = "target" -> a [] o = "copy" -> b [] OTHER -> c]
  BY DEF ViewsOf
<1>2. v["target"] = a /\ v["copy"] = b /\ v["parents"] = c /\ DOMAIN v = Objects
  BY <1>1 DEF Objects
<1>3. \A o \in Objects : SightsOf(t, o) \subseteq Views
  BY PossibleType DEF SightsOf, Views
<1>4. \A o \in Objects : v[o] \in SightsOf(t, o)
  BY <1>2 DEF Objects
<1>5. v = [o \in Objects |-> v[o]]
  BY <1>1
<1> QED BY <1>3, <1>4, <1>5

\* And one of each object is a view.
LEMMA ViewFrom ==
  ASSUME NEW t, NEW v, v = [o \in Objects |-> v[o]], \A o \in Objects : v[o] \in SightsOf(t, o)
  PROVE  v \in ViewsOf(t)
<1>1. PICK a, b, c : a = v["target"] /\ b = v["copy"] /\ c = v["parents"]
  OBVIOUS
<1>2. a \in SightsOf(t, "target") /\ b \in SightsOf(t, "copy") /\ c \in SightsOf(t, "parents")
  BY <1>1 DEF Objects
<1>3. \A o \in Objects : v[o] = CASE o = "target" -> a [] o = "copy" -> b [] OTHER -> c
  BY <1>1 DEF Objects
<1>4. v = [o \in Objects |-> CASE o = "target" -> a [] o = "copy" -> b [] OTHER -> c]
  BY <1>3
<1> QED BY <1>2, <1>4 DEF ViewsOf

\* What a read finds makes a view of another.
LEMMA ViewWith ==
  ASSUME NEW t, NEW v \in ViewsOf(t), NEW o \in Objects, NEW x \in SightsOf(t, o)
  PROVE  [v EXCEPT ![o] = x] \in ViewsOf(t)
<1>1. v \in [Objects -> Views] /\ \A u \in Objects : v[u] \in SightsOf(t, u)
  BY ViewIs
<1>2. PICK w : w = [v EXCEPT ![o] = x]
  OBVIOUS
<1>3. w = [u \in Objects |-> w[u]] /\ \A u \in Objects : w[u] \in SightsOf(t, u)
  BY <1>1, <1>2
<1> QED BY <1>2, <1>3, ViewFrom

\* The flags of arguments, and an authorisation added to them.
LEMMA ArgsType ==
  ASSUME NEW t \in Tools, NEW p \in Sound(t) \cup Flawed(t), NEW g \in BOOLEAN
  PROVE  /\ [p EXCEPT !.granted = g] \in Args(t)
         /\ p.dryRun \in BOOLEAN /\ p.confirmed \in BOOLEAN /\ p.mode \in Modes(t)
         /\ LET r == [p EXCEPT !.granted = g]
            IN  /\ r.dryRun = p.dryRun /\ r.confirmed = p.confirmed /\ r.mode = p.mode
                /\ r.granted = g
<1>1. ASSUME NEW s \in Sound(t)
      PROVE  /\ s.dryRun \in BOOLEAN /\ s.confirmed \in BOOLEAN /\ s.mode \in Modes(t)
             /\ DOMAIN s = {"mode", "flaw", "granted", "scope", "dryRun", "confirmed"}
  BY DEF Sound
<1>2. /\ p.dryRun \in BOOLEAN /\ p.confirmed \in BOOLEAN /\ p.mode \in Modes(t)
      /\ DOMAIN p = {"mode", "flaw", "granted", "scope", "dryRun", "confirmed"}
  <2>1. CASE p \in Sound(t)
    BY <1>1, <2>1
  <2>2. CASE p \in Flawed(t)
    <3>1. PICK s \in Sound(t) : \E f : p = [s EXCEPT !.flaw = f]
      BY <2>2 DEF Flawed
    <3> QED BY <1>1, <3>1
  <2> QED BY <2>1, <2>2
<1> QED BY <1>2 DEF Args

\* The mode of arguments is one of the tool's.
LEMMA ArgsMode ==
  ASSUME NEW t \in Tools, NEW p \in Args(t)
  PROVE  p.mode \in Modes(t) /\ p.dryRun \in BOOLEAN /\ p.confirmed \in BOOLEAN
<1>1. PICK r \in Sound(t) \cup Flawed(t), g \in BOOLEAN : p = [r EXCEPT !.granted = g]
  BY DEF Args
<1> QED BY <1>1, ArgsType

\* A call that is not idle is a record.
LEMMA CallCases ==
  ASSUME CallInv, call.stage # "idle"
  PROVE  call \in Calls /\ Apt(call) /\ Fits(call, store) /\ Gated(call) /\ Tidy(call)
BY DEF CallInv, Idle

\* What a call is includes its type.
LEMMA TypeFromInv == CallInv => TypeOK
<1> SUFFICES ASSUME CallInv PROVE TypeOK
  OBVIOUS
<1>1. CASE call = Idle
  BY <1>1 DEF CallInv, TypeOK, Idle, Stages
<1>2. CASE call # Idle
  <2>1. call \in Calls /\ Apt(call) /\ Tidy(call)
    BY <1>2 DEF CallInv
  <2>2. PICK c \in Calls : c = call
    BY <2>1
  <2>3. c.p.mode \in Modes(c.tool)
    BY <2>1, <2>2, ArgsMode DEF Apt, Calls
  <2>4. /\ c.stage \in Stages /\ c.tool \in Tools /\ c.way \in Ways /\ c.phase \in Phases
        /\ c.pc \in Nat \ {0} /\ c.seen \in [Objects -> Views]
        /\ c.asked \subseteq Objects /\ c.took \subseteq c.asked
        /\ c.found \in [Objects -> Contents] /\ c.result \in Results
        /\ c.left \in 0 .. MaxChunks /\ c.queue \in 0 .. PipeSize
    BY <2>1, <2>2 DEF Calls, Stages, Tidy
  <2>5. store \in [Objects -> Contents] /\ trail \in Seq([phase : Phases, failed : BOOLEAN])
    BY DEF CallInv
  <2> QED BY <2>2, <2>3, <2>4, <2>5 DEF TypeOK
<1> QED BY <1>1, <1>2

-----------------------------------------------------------------------------
(* The progress of a call through its program.                             *)

\* The step that is next: everything before it was passed, and no change is asked for on
\* the way to it.
LEMMA NextStep ==
  ASSUME FormedTools, NEW c \in Calls, Apt(c), NEW q, q = ProgramAt(c), Done(c, q),
         NEW i \in Ahead(c)
  PROVE  /\ Len(q) \in Nat /\ i \in At(q, c.seen) /\ q[i] \in Step /\ c.pc <= i
         /\ \A j \in 1 .. (i - 1) : q[j] \in Step /\ Passed(c.seen, q[j])
         /\ Changes(q, i) = Changes(q, c.pc)
         /\ q[i].op = "check" => ~q[i].ok
<1>0. c.tool \in Tools /\ c.p \in Args(c.tool) /\ c.seen \in ViewsOf(c.tool) /\ c.pc \in Nat \ {0}
  BY DEF Calls, Apt
<1>1. Len(q) \in Nat /\ \A k \in At(q, c.seen) : q[k] \in Step
  <2>1. Formed(c.tool, c.p, c.seen)
    BY <1>0, Zenon DEF FormedTools
  <2> QED BY <2>1, Zenon DEF Formed, ProgramAt
<1>2. /\ i \in c.pc .. Len(q)
      /\ q[i].op = "check" => ~q[i].ok
      /\ \A j \in c.pc .. (i - 1) : q[j].op = "check" /\ q[j].ok
  BY ProgramIs DEF Ahead
<1>3. i \in Nat /\ c.pc <= i /\ i \in 1 .. Len(q)
  BY <1>0, <1>1, <1>2
<1>4. \A j \in 1 .. (i - 1) : Passed(c.seen, q[j])
  <2> SUFFICES ASSUME NEW j \in 1 .. (i - 1) PROVE Passed(c.seen, q[j])
    OBVIOUS
  <2>1. CASE j \in 1 .. (c.pc - 1)
    BY <2>1, Zenon DEF Done
  <2>2. CASE j \in c.pc .. (i - 1)
    <3>1. q[j].op = "check" /\ q[j].ok
      BY <1>2, <2>2
    <3> QED BY <3>1 DEF Passed
  <2>3. j \in 1 .. (c.pc - 1) \/ j \in c.pc .. (i - 1)
    BY <1>0, <1>3
  <2> QED BY <2>1, <2>2, <2>3
<1>5. ASSUME NEW k \in c.pc .. i PROVE k \in At(q, c.seen)
  <2>1. k \in 1 .. Len(q) /\ 1 .. (k - 1) \subseteq 1 .. (i - 1)
    BY <1>0, <1>1, <1>3
  <2>2. 1 .. (c.pc - 1) \subseteq 1 .. (k - 1)
    BY <1>0
  <2>3. \A o \in Objects : c.seen[o] # "unread" => ReadBefore(q, k, o)
    BY <2>2 DEF Done, ReadBefore
  <2> QED BY <1>4, <2>1, <2>3, Zenon DEF At
<1>6. \A j \in 1 .. (i - 1) : q[j] \in Step
  <2> SUFFICES ASSUME NEW j \in 1 .. (i - 1) PROVE q[j] \in Step
    OBVIOUS
  <2>1. CASE j \in 1 .. (c.pc - 1)
    BY <2>1, Zenon DEF Done
  <2>2. CASE j \in c.pc .. i
    BY <1>1, <1>5, <2>2, Zenon
  <2>3. j \in 1 .. (c.pc - 1) \/ j \in c.pc .. i
    BY <1>0, <1>3
  <2> QED BY <2>1, <2>2, <2>3
<1>7. Changes(q, i) = Changes(q, c.pc)
  <2>1. \A j \in 1 .. (i - 1) : q[j].op = "write" => j \in 1 .. (c.pc - 1)
    BY <1>0, <1>2, <1>3
  <2>2. 1 .. (c.pc - 1) \subseteq 1 .. (i - 1)
    BY <1>0, <1>3
  <2> QED BY <2>1, <2>2 DEF Changes
<1>8. i \in At(q, c.seen) /\ q[i] \in Step
  <2>1. i \in c.pc .. i
    BY <1>0, <1>3
  <2> QED BY <1>1, <1>5, <2>1, Zenon
<1> QED BY <1>1, <1>2, <1>3, <1>4, <1>6, <1>7, <1>8

\* A call d that has passed step i of q, with the changes that were asked for and carried
\* out noted, and whose own program r agrees with q up to there.
Extends(d, r, q, i) ==
  /\ Len(r) \in Nat /\ Len(r) >= i
  /\ \A j \in 1 .. i : r[j] = q[j]
  /\ d.pc = i + 1 /\ d.result = "none" /\ d.why = "none"
  /\ \A j \in 1 .. i : q[j] \in Step /\ Passed(d.seen, q[j])
  /\ \A o \in Objects : d.seen[o] # "unread" =>
        ReadBefore(q, i, o) \/ (q[i].op = "read" /\ q[i].obj = o)
  /\ d.asked = {q[j].obj : j \in Changes(q, i)} \cup IF q[i].op = "write" THEN {q[i].obj} ELSE {}
  /\ \A j \in Changes(q, i) : ~q[j].lenient => q[j].obj \in d.took
  /\ q[i].op = "write" /\ ~q[i].lenient => q[i].obj \in d.took

\* It has done the first i steps of its program.
LEMMA OneMore ==
  ASSUME NEW q, NEW r, NEW i \in Nat \ {0}, NEW d, Extends(d, r, q, i)
  PROVE  Done(d, r)
<1> USE DEF Extends
<1>1. d.pc <= Len(r) + 1 /\ d.pc - 1 = i
  OBVIOUS
<1>2. \A j \in 1 .. i : r[j] \in Step /\ Passed(d.seen, r[j])
  BY Zenon
<1>3. ASSUME NEW o \in Objects, d.seen[o] # "unread" PROVE ReadBefore(r, d.pc, o)
  <2>1. CASE ReadBefore(q, i, o)
    BY <1>1, <2>1 DEF ReadBefore
  <2>2. CASE q[i].op = "read" /\ q[i].obj = o
    <3>1. i \in 1 .. i
      OBVIOUS
    <3> QED BY <1>1, <2>2, <3>1 DEF ReadBefore
  <2> QED BY <1>3, <2>1, <2>2, Zenon
<1>4. \A j : j \in Changes(r, d.pc) <=> j \in Changes(q, i) \/ (j = i /\ q[i].op = "write")
  BY <1>1 DEF Changes
<1>7. \A j \in Changes(r, d.pc) : r[j] = q[j]
  BY <1>1 DEF Changes
<1>5. d.asked = {r[j].obj : j \in Changes(r, d.pc)}
  <2>1. \A o : o \in d.asked <=> \E j \in Changes(r, d.pc) : o = q[j].obj
    <3>1. \A o : o \in d.asked <=> (\E j \in Changes(q, i) : o = q[j].obj)
                                    \/ (q[i].op = "write" /\ o = q[i].obj)
      OBVIOUS
    <3> QED BY <1>4, <3>1
  <2>2. \A o : o \in {r[j].obj : j \in Changes(r, d.pc)} <=>
               \E j \in Changes(r, d.pc) : o = q[j].obj
    BY <1>7
  <2>3. \A o : o \in d.asked <=> o \in {r[j].obj : j \in Changes(r, d.pc)}
    BY <2>1, <2>2, Zenon
  <2> QED
    <3> HIDE DEF Extends
    <3> QED BY <2>3
<1>6. \A j \in Changes(r, d.pc) : ~r[j].lenient => r[j].obj \in d.took
  <2> SUFFICES ASSUME NEW j \in Changes(r, d.pc), ~r[j].lenient PROVE r[j].obj \in d.took
    OBVIOUS
  <2>1. r[j] = q[j]
    BY <1>1 DEF Changes
  <2> QED BY <1>4, <2>1
<1> QED BY <1>1, <1>2, <1>3, <1>5, <1>6 DEF Done

\* The parts of a step.
LEMMA StepType ==
  ASSUME NEW s \in Step
  PROVE  /\ s.op \in {"check", "ask", "read", "write", "answer"}
         /\ s.op = "check" => s.ok \in BOOLEAN /\ s.why \in STRING
         /\ s.op \in {"ask", "read", "write"} => s.lenient \in BOOLEAN /\ s.sure \in BOOLEAN
         /\ s.op \in {"read", "write"} => s.obj \in Objects
         /\ s.op = "write" => s \in ChangeStep
         /\ s.op = "answer" => /\ s.kind \in {"preview", "data", "done", "opened"}
                               /\ s.behind \in SUBSET ChangeStep
BY DEF Step, ChangeStep

\* The parts of a change.
LEMMA ChangeType ==
  ASSUME NEW s \in ChangeStep
  PROVE  /\ s.obj \in Objects /\ s.val \in Contents \ {"guarded"} /\ s.accepts \in SUBSET Contents
         /\ s.from \in SUBSET Objects /\ s.under \in SUBSET Objects
         /\ s.leaves \in SUBSET Contents /\ s.lenient \in BOOLEAN /\ s.sure \in BOOLEAN
BY DEF ChangeStep

\* How the step a call may be at fits the call's tool.
LEMMA StepFits ==
  ASSUME FormedTools, NEW c \in Calls, Apt(c), NEW q, q = ProgramAt(c), NEW i \in At(q, c.seen)
  PROVE  /\ q[i] \in Step
         /\ q[i].op = "write" => Fitting(c.tool, q[i])
         /\ q[i].op = "read" =>
               q[i].obj \in ObjectsOf(c.tool) /\ (q[i].lenient => c.tool \notin PathTools)
         /\ q[i].op = "answer" =>
               /\ \A s \in q[i].behind : Fitting(c.tool, s)
               /\ q[i].behind # {} => q[i].kind = "opened"
<1>1. c.tool \in Tools /\ c.p \in Args(c.tool) /\ c.seen \in ViewsOf(c.tool)
  BY DEF Calls, Apt
<1>2. Formed(c.tool, c.p, c.seen)
  BY <1>1, Zenon DEF FormedTools
<1>3. q = ProgramOf(c.tool, c.p, c.seen)
  BY DEF ProgramAt
<1> QED BY <1>2, <1>3, Zenon DEF Formed

\* What does not change when a call d goes on after step i of c.
GoesOn(c, d, i) ==
  /\ d.tool = c.tool /\ d.p = c.p /\ d.pc = i + 1 /\ d.result = c.result /\ d.why = c.why
  /\ d.way = c.way /\ d.phase = c.phase /\ d.stage = c.stage /\ d.behind = c.behind

\* A read is answered, or fails and is done without: the call goes on with a view w.
LEMMA DoneRead ==
  ASSUME FormedTools, NEW c \in Calls, Apt(c), NEW q, q = ProgramAt(c), Done(c, q),
         NEW i \in Ahead(c), q[i].op = "read",
         NEW x \in SightsOf(c.tool, q[i].obj) \ {"unread"},
         x = "error" => q[i].lenient,
         NEW d \in Calls, GoesOn(c, d, i),
         d.seen = [c.seen EXCEPT ![q[i].obj] = x], d.asked = c.asked, d.took = c.took,
         NEW r, r = ProgramAt(d), NEW o, o = q[i].obj
  PROVE  Apt(d) /\ Done(d, r)
<1> USE DEF GoesOn
<1>0. /\ c.tool \in Tools /\ c.p \in Args(c.tool) /\ c.seen \in ViewsOf(c.tool)
      /\ c.seen \in [Objects -> Views] /\ d.seen \in [Objects -> Views]
  BY DEF Calls, Apt
<1>1. /\ Len(q) \in Nat /\ i \in At(q, c.seen) /\ q[i] \in Step
      /\ \A j \in 1 .. (i - 1) : q[j] \in Step /\ Passed(c.seen, q[j])
      /\ Changes(q, i) = Changes(q, c.pc)
  BY NextStep
<1>2. o \in Objects /\ q[i].lenient \in BOOLEAN /\ x \in SightsOf(c.tool, o) /\ x # "unread"
  BY <1>1, StepType
<1>3. d.seen \in ViewsOf(d.tool) /\ d.seen[o] = x
      /\ \A u \in Objects : u # o => d.seen[u] = c.seen[u]
  <2>1. [c.seen EXCEPT ![o] = x] \in ViewsOf(c.tool)
    BY <1>0, <1>2, ViewWith
  <2> QED BY <1>0, <1>2, <2>1
<1>4. Apt(d) /\ x \in Views
  <2>1. x \in Views
    BY <1>2, PossibleType DEF SightsOf, Views
  <2> QED BY <1>0, <1>3, <2>1 DEF Apt
<1>5. /\ q[i].lenient => ~ReadBefore(q, i, o)
      /\ Len(r) >= i /\ \A j \in 1 .. i : r[j] = q[j]
  <2>1. Causal(c.tool, c.p, c.seen)
    BY <1>0, Zenon DEF FormedTools
  <2>2. q = ProgramOf(c.tool, c.p, c.seen)
        /\ r = ProgramOf(c.tool, c.p, Finding(c.seen, q[i].obj, x))
    BY DEF ProgramAt, Finding
  <2> DEFINE Keeps(y) == LET w == ProgramOf(c.tool, c.p, Finding(c.seen, q[i].obj, y))
                         IN Len(w) >= i /\ \A j \in 1 .. i : w[j] = q[j]
  <2>3. (q[i].lenient => ~ReadBefore(q, i, q[i].obj)) /\ \A y \in SightsOf(c.tool, q[i].obj) : Keeps(y)
    <3> DEFINE CausalIn(u) ==
                  \A k \in At(u, c.seen) : u[k].op = "read" =>
                     /\ u[k].lenient => ~ReadBefore(u, k, u[k].obj)
                     /\ \A y \in SightsOf(c.tool, u[k].obj) :
                           LET w == ProgramOf(c.tool, c.p, Finding(c.seen, u[k].obj, y))
                           IN Len(w) >= k /\ \A j \in 1 .. k : w[j] = u[j]
    <3>2. CausalIn(ProgramOf(c.tool, c.p, c.seen))
      BY <2>1, Zenon DEF Causal
    <3>1. CausalIn(q)
      <4> HIDE DEF CausalIn
      <4> QED BY <2>2, <3>2, Zenon
    <3> QED BY <1>1, <3>1, Zenon
  <2> QED BY <1>2, <2>2, <2>3
<1>6. Len(r) \in Nat
  <2>1. Formed(d.tool, d.p, d.seen)
    BY <1>0, <1>3, Zenon DEF FormedTools
  <2> QED BY <2>1, Zenon DEF Formed, ProgramAt
<1>7. i \in Nat \ {0}
  BY <1>1 DEF At
<1>8. ASSUME NEW j \in 1 .. i PROVE q[j] \in Step /\ Passed(d.seen, q[j])
  <2>1. d.seen[o] = x /\ \A u \in Objects : u # o => d.seen[u] = c.seen[u]
    BY <1>3
  <2>2. CASE j = i
    BY <1>1, <1>2, <1>4, <2>1, <2>2 DEF Passed, Views
  <2>3. CASE j \in 1 .. (i - 1)
    <3>1. q[j] \in Step /\ Passed(c.seen, q[j])
      BY <1>1, <2>3
    <3>2. q[j].op = "read" => q[j].obj \in Objects /\ q[j].lenient \in BOOLEAN
      BY <3>1, StepType
    <3>3. CASE q[j].op # "read"
      BY <3>1, <3>3 DEF Passed
    <3>4. CASE q[j].op = "read" /\ q[j].obj # o
      BY <2>1, <3>1, <3>2, <3>4 DEF Passed
    <3>5. CASE q[j].op = "read" /\ q[j].obj = o
      <4>1. ReadBefore(q, i, o)
        BY <2>3, <3>5 DEF ReadBefore
      <4>2. x # "error"
        BY <1>2, <1>5, <4>1
      <4>3. x \in Contents
        BY <1>2, <1>4, <4>2 DEF Views
      <4> QED BY <2>1, <3>1, <3>2, <3>5, <4>3 DEF Passed, Views, Contents
    <3> QED BY <3>1, <3>3, <3>4, <3>5
  <2> QED BY <1>7, <2>2, <2>3
<1>9. ASSUME NEW u \in Objects, d.seen[u] # "unread"
      PROVE  ReadBefore(q, i, u) \/ (q[i].op = "read" /\ q[i].obj = u)
  <2>1. CASE u = o
    BY <2>1
  <2>2. CASE u # o
    <3>1. c.seen[u] # "unread"
      BY <1>3, <1>9, <2>2
    <3> QED BY <1>1, <3>1, Zenon DEF At
  <2> QED BY <2>1, <2>2
<1>10. d.asked = {q[j].obj : j \in Changes(q, i)} \cup IF q[i].op = "write" THEN {q[i].obj} ELSE {}
  BY <1>1 DEF Done
<1>11. \A j \in Changes(q, i) : ~q[j].lenient => q[j].obj \in d.took
  BY <1>1 DEF Done
<1>12. d.result = "none" /\ d.why = "none"
  BY DEF Done
<1>13. Done(d, r)
  <2>1. \A j \in 1 .. i : q[j] \in Step /\ Passed(d.seen, q[j])
    BY <1>8
  <2>2. \A u \in Objects : d.seen[u] # "unread" =>
           ReadBefore(q, i, u) \/ (q[i].op = "read" /\ q[i].obj = u)
    BY <1>9
  <2>3. q[i].op = "write" /\ ~q[i].lenient => q[i].obj \in d.took
    OBVIOUS
  <2>4. d.pc = i + 1
    OBVIOUS
  <2>5. Extends(d, r, q, i)
    BY <1>5, <1>6, <1>10, <1>11, <1>12, <2>1, <2>2, <2>3, <2>4, Zenon DEF Extends
  <2> QED BY <1>7, <2>5, OneMore
<1> QED BY <1>4, <1>13

\* Any other request is answered, or fails and is done without.
LEMMA DoneOther ==
  ASSUME FormedTools, NEW c \in Calls, Apt(c), NEW q, q = ProgramAt(c), Done(c, q),
         NEW i \in Ahead(c), q[i].op \in {"ask", "write"},
         NEW d \in Calls, GoesOn(c, d, i), d.seen = c.seen,
         d.asked = c.asked \cup (IF q[i].op = "write" THEN {q[i].obj} ELSE {}),
         c.took \subseteq d.took,
         q[i].op = "write" /\ ~q[i].lenient => q[i].obj \in d.took
  PROVE  Apt(d) /\ Done(d, ProgramAt(d))
<1> USE DEF GoesOn
<1>1. /\ Len(q) \in Nat /\ i \in At(q, c.seen) /\ q[i] \in Step
      /\ \A j \in 1 .. (i - 1) : q[j] \in Step /\ Passed(c.seen, q[j])
      /\ Changes(q, i) = Changes(q, c.pc)
  BY NextStep
<1>2. ProgramAt(d) = q /\ Apt(d)
  BY DEF ProgramAt, Apt
<1>3. i \in Nat \ {0} /\ i <= Len(q)
  BY <1>1 DEF At
<1>4. \A j \in 1 .. i : q[j] \in Step /\ Passed(d.seen, q[j])
  <2>1. Passed(c.seen, q[i])
    BY DEF Passed
  <2> QED BY <1>1, <1>3, <2>1
<1>5. \A o \in Objects : d.seen[o] # "unread" => ReadBefore(q, i, o)
  <2>1. \A o \in Objects : c.seen[o] # "unread" => ReadBefore(q, i, o)
    BY <1>1, Zenon DEF At
  <2> QED BY <2>1
<1>6. d.asked = {q[j].obj : j \in Changes(q, i)} \cup IF q[i].op = "write" THEN {q[i].obj} ELSE {}
  BY <1>1 DEF Done
<1>7. \A j \in Changes(q, i) : ~q[j].lenient => q[j].obj \in d.took
  BY <1>1 DEF Done
<1>8. d.result = "none" /\ d.why = "none"
  BY DEF Done
<1>9. Done(d, q)
  <2>1. \A o \in Objects : d.seen[o] # "unread" =>
           ReadBefore(q, i, o) \/ (q[i].op = "read" /\ q[i].obj = o)
    BY <1>5
  <2>2. Extends(d, q, q, i)
    BY <1>1, <1>3, <1>4, <1>6, <1>7, <1>8, <2>1 DEF Extends
  <2> QED BY <1>3, <2>2, OneMore
<1> QED BY <1>2, <1>9

-----------------------------------------------------------------------------
(* Every step preserves what a call is.                                    *)

\* A call that begins has done nothing.
LEMMA InvBegin ==
  ASSUME FormedTools, CallInv, NEW t \in Tools, NEW b \in Before(t),
         NEW p \in Sound(t) \cup Flawed(t), NEW w \in Ways, Begin(t, p, w, b)
  PROVE  CallInv' /\ (call' \in Calls /\ call'.asked = {} /\ call'.behind = {} /\ call'.others = 0
                      /\ call'.found = store' /\ call'.seen = Unread
                      /\ \/ call'.stage = "running" /\ trail' = <<>>
                         \/ /\ call'.stage = "over" /\ call'.result = "error"
                            /\ trail' = <<Event(call', TRUE)>>)
<1> DEFINE v == Verdict(w, t, p, WriteTools)
           r == [p EXCEPT !.granted = v.granted]
           c == [stage |-> "running", tool |-> t, way |-> w,
                 p |-> r, phase |-> v.phase,
                 found |-> b, pc |-> 1, seen |-> Unread, asked |-> {}, took |-> {},
                 behind |-> {}, others |-> 0, result |-> "none", why |-> "none",
                 left |-> 0, queue |-> 0, reader |-> "none", broken |-> FALSE]
           e == [c EXCEPT !.stage = "over", !.result = "error", !.why = "gate"]
<1>1. /\ store' = b
      /\ \/ call' = e /\ trail' = <<Event(c, TRUE)>>
         \/ call' = c /\ trail' = <<>> /\ v.phase # "rejected"
  BY DEF Begin
<1>2. p.dryRun \in BOOLEAN /\ p.confirmed \in BOOLEAN
  BY ArgsType
<1>3. /\ v.phase \in Phases /\ v.granted \in BOOLEAN
      /\ v.granted => /\ w.via # "bare"
                      /\ w.model \/ w.host = "yes"
                      /\ p.confirmed /\ ~p.dryRun
                      /\ w.via = "middleware" => v.phase = "execute"
      /\ w.via = "middleware" /\ v.phase # "rejected" => w.policy
  BY <1>2, GateSound
<1> HIDE DEF v
<1>4. r \in Args(t) /\ r.granted = v.granted
  BY <1>3, ArgsType
<1> HIDE DEF r
<1>5. b \in [Objects -> Contents] /\ \A o \in Objects : b[o] \in Possible(t, o)
  BY DEF Before, Contents
<1>6. Unread \in ViewsOf(t) /\ Unread \in [Objects -> Views]
      /\ \A o \in Objects : Unread[o] = "unread"
  <2>1. Unread = [o \in Objects |-> Unread[o]] /\ \A o \in Objects : Unread[o] = "unread"
    BY DEF Unread
  <2>2. \A o \in Objects : Unread[o] \in SightsOf(t, o)
    BY <2>1 DEF SightsOf
  <2> QED BY <2>1, <2>2, ViewFrom, ViewIs
<1>7. r \in Params
  BY <1>4 DEF Params
<1>8. /\ 0 \in 0 .. MaxChunks /\ 0 \in 0 .. PipeSize
      /\ "none" \in Results /\ "error" \in Results
  BY BoundsAssumption DEF Results
<1>9. c \in Calls /\ e \in Calls
  <2>1. c \in Calls
    BY <1>3, <1>5, <1>6, <1>7, <1>8 DEF Calls, Reasons
  <2>2. [c EXCEPT !.stage = "over", !.result = "error", !.why = "gate"] \in Calls
    <3> HIDE DEF c
    <3> QED BY <1>8, <2>1 DEF Calls, Reasons
  <2> QED BY <2>1, <2>2
<1>10. /\ Apt(c) /\ Apt(e) /\ Fits(c, b) /\ Fits(e, b) /\ Tidy(c) /\ Tidy(e)
       /\ Gated(e) /\ (v.phase # "rejected" => Gated(c))
  BY <1>3, <1>4, <1>5, <1>6 DEF Apt, Fits, Gated, Tidy
<1>11. Done(c, ProgramAt(c))
  <2>1. Formed(t, r, Unread)
    BY <1>4, <1>6, Zenon DEF FormedTools
  <2>2. PICK q : q = ProgramAt(c)
    OBVIOUS
  <2>3. Len(q) \in Nat
    BY <2>1, <2>2 DEF Formed, ProgramAt
  <2> QED BY <1>6, <2>2, <2>3 DEF Done, Changes
<1>12. <<>> \in Seq([phase : Phases, failed : BOOLEAN])
       /\ Event(c, TRUE) = Event(e, TRUE)
       /\ <<Event(c, TRUE)>> \in Seq([phase : Phases, failed : BOOLEAN])
  BY <1>3 DEF Event
<1>13. /\ c.stage = "running" /\ e.stage = "over" /\ e.result = "error"
       /\ c.asked = {} /\ e.asked = {} /\ c.others = 0 /\ e.others = 0
       /\ c.behind = {} /\ e.behind = {} /\ c.found = b /\ e.found = b
       /\ c.seen = Unread /\ e.seen = Unread
  OBVIOUS
<1> HIDE DEF c, e
<1>14. CASE call' = c /\ trail' = <<>> /\ v.phase # "rejected"
  BY <1>1, <1>5, <1>9, <1>10, <1>11, <1>12, <1>13, <1>14 DEF CallInv
<1>15. CASE call' = e /\ trail' = <<Event(c, TRUE)>>
  BY <1>1, <1>5, <1>9, <1>10, <1>11, <1>12, <1>13, <1>15 DEF CallInv
<1> QED BY <1>1, <1>14, <1>15

\* What the trail consists of.
Events == Seq([phase : Phases, failed : BOOLEAN])

\* A new state of a call that has its type and its progress.
LEMMA InvTo ==
  ASSUME NEW d \in Calls, call' = d, Apt(d), Gated(d), Tidy(d), Fits(d, store'),
         store' \in [Objects -> Contents], trail' \in Events,
         d.stage = "running" => Done(d, ProgramAt(d))
  PROVE  CallInv'
BY DEF CallInv, Events

\* A call after step i: after a request that changes nothing and has left it with view v,
\* and after a change to object o which leaves it with the objects u as taken.
Learnt(c, i, v) == [c EXCEPT !.pc = i + 1, !.seen = v]
Carried(c, i, o, u) == [c EXCEPT !.pc = i + 1, !.asked = c.asked \cup {o}, !.took = u]

\* What has changed about such a call, and what has not.
LEMMA LearntType ==
  ASSUME NEW c \in Calls, NEW i \in Nat \ {0}, NEW v \in [Objects -> Views]
  PROVE  LET d == Learnt(c, i, v)
         IN  /\ d \in Calls /\ GoesOn(c, d, i)
             /\ d.asked = c.asked /\ d.seen = v /\ d.took = c.took
             /\ d.others = c.others /\ d.found = c.found
<1>1. i + 1 \in Nat \ {0}
  OBVIOUS
<1> QED BY <1>1 DEF Calls, GoesOn, Learnt

\* The same after a change.
LEMMA CarriedType ==
  ASSUME NEW c \in Calls, NEW i \in Nat \ {0}, NEW o \in Objects, NEW u \in SUBSET Objects
  PROVE  LET d == Carried(c, i, o, u)
         IN  /\ d \in Calls /\ GoesOn(c, d, i)
             /\ d.asked = c.asked \cup {o} /\ d.seen = c.seen /\ d.took = u
             /\ d.others = c.others /\ d.found = c.found
<1>1. i + 1 \in Nat \ {0} /\ c.asked \cup {o} \in SUBSET Objects
  BY DEF Calls
<1> QED BY <1>1 DEF Calls, GoesOn, Carried

\* Its authorisation goes with it, the objects stay as they may be, and it stays tidy.
LEMMA GoesOnKeeps ==
  ASSUME NEW c, NEW d, NEW i, GoesOn(c, d, i)
  PROVE  /\ Gated(c) => Gated(d)
         /\ \A s : Fits(c, s) => Fits(d, s)
         /\ Tidy(c) /\ d.took \subseteq d.asked => Tidy(d)
BY DEF GoesOn, Gated, Fits, Tidy

\* A call that runs, as a constant.
LEMMA RunningCall ==
  ASSUME CallInv, call.stage # "idle"
  PROVE  \E c \in Calls :
            /\ c = call /\ Apt(c) /\ Gated(c) /\ Tidy(c) /\ Fits(c, store)
            /\ store \in [Objects -> Contents] /\ trail \in Events
            /\ c.stage = "running" => Done(c, ProgramAt(c))
BY CallCases DEF CallInv, Events

\* A call c that runs and is at step i of its program q, which is z.
AtStep(c, z, q, i) ==
  /\ c = call /\ c.stage = "running" /\ Apt(c) /\ Gated(c) /\ Tidy(c) /\ Fits(c, store)
  /\ store \in [Objects -> Contents] /\ trail \in Events
  /\ q = ProgramAt(c) /\ Done(c, q) /\ i \in Ahead(c) /\ i \in Nat \ {0}
  /\ z = q[i] /\ z = Program(call)[i]

\* A running call that advances is at a step.
LEMMA RunningStep ==
  ASSUME FormedTools, CallInv, call.stage = "running", NEW i \in Ahead(call)
  PROVE  \E c \in Calls, z \in Step : \E q : AtStep(c, z, q, i)
<1>1. PICK c \in Calls :
            /\ c = call /\ Apt(c) /\ Gated(c) /\ Tidy(c) /\ Fits(c, store)
            /\ store \in [Objects -> Contents] /\ trail \in Events
            /\ c.stage = "running" /\ Done(c, ProgramAt(c))
  BY RunningCall
<1>2. PICK q : q = ProgramAt(c)
  OBVIOUS
<1>3. q = Program(c) /\ i \in Ahead(c) /\ Done(c, q)
  BY <1>1, <1>2, ProgramIs
<1>4. q[i] \in Step /\ i \in Nat \ {0}
  <2>1. i \in At(q, c.seen) /\ q[i] \in Step /\ Len(q) \in Nat
    BY <1>1, <1>2, <1>3, NextStep
  <2> QED BY <2>1 DEF At
<1>5. PICK z \in Step : z = q[i]
  BY <1>4
<1> QED BY <1>1, <1>2, <1>3, <1>4, <1>5 DEF AtStep

\* What does not change with the stage of a call.
LEMMA SameCall ==
  ASSUME NEW c \in Calls, Apt(c), Gated(c), Tidy(c), NEW d \in Calls,
         d.tool = c.tool, d.p = c.p, d.seen = c.seen, d.way = c.way, d.phase = c.phase,
         d.stage = "over" \/ c.stage # "over",
         d.took \subseteq d.asked, d.behind \subseteq c.behind,
         d.behind # {} => d.stage = "streaming" /\ d.result = c.result /\ d.why = c.why
  PROVE  /\ Apt(d) /\ Gated(d) /\ Tidy(d) /\ ProgramAt(d) = ProgramAt(c)
         /\ \A s : Fits(c, s) => Fits(d, s)
<1>1. Apt(d) /\ Gated(d) /\ ProgramAt(d) = ProgramAt(c) /\ \A s : Fits(c, s) => Fits(d, s)
  BY DEF Apt, Gated, Fits, ProgramAt
<1>2. Tidy(d)
  BY DEF Tidy
<1> QED BY <1>1, <1>2

\* The event that the middleware writes.
LEMMA AuditType ==
  ASSUME NEW c \in Calls, NEW f \in BOOLEAN, trail \in Events, Audit(c, f)
  PROVE  trail' \in Events
<1>1. Event(c, f) \in [phase : Phases, failed : BOOLEAN]
  BY DEF Calls, Event
<1>2. trail' = trail \/ trail' = Append(trail, Event(c, f))
  BY DEF Audit
<1>3. ASSUME NEW E, NEW e \in E, NEW s \in Seq(E) PROVE Append(s, e) \in Seq(E)
  OBVIOUS
<1> QED BY <1>1, <1>2, <1>3, Zenon DEF Events

\* A call that ends with an error.
LEMMA InvFail ==
  ASSUME CallInv, call.stage = "running", NEW y \in Reasons, Fail(y), UNCHANGED store
  PROVE  CallInv'
<1>1. PICK c \in Calls :
            /\ c = call /\ Apt(c) /\ Gated(c) /\ Tidy(c) /\ Fits(c, store)
            /\ store \in [Objects -> Contents] /\ trail \in Events
            /\ c.took \subseteq c.asked /\ c.behind = {}
  BY RunningCall DEF Tidy
<1> DEFINE d == [c EXCEPT !.stage = "over", !.result = "error", !.why = y]
<1>2. call' = d /\ Audit(c, TRUE)
  BY <1>1 DEF Fail
<1>3. /\ d \in Calls /\ d.stage = "over" /\ d.tool = c.tool /\ d.p = c.p /\ d.seen = c.seen
      /\ d.way = c.way /\ d.phase = c.phase
      /\ d.took = c.took /\ d.asked = c.asked /\ d.behind = c.behind
  BY DEF Calls, Results
<1> HIDE DEF d
<1>4. Apt(d) /\ Gated(d) /\ Tidy(d) /\ Fits(d, store)
  BY <1>1, <1>3, SameCall
<1>5. trail' \in Events
  BY <1>1, <1>2, AuditType
<1> QED BY <1>1, <1>2, <1>3, <1>4, <1>5, InvTo

\* A request that changes nothing is answered.
LEMMA InvLearn ==
  ASSUME FormedTools, CallInv, call.stage = "running", NEW i \in Ahead(call),
         Learn(i, Program(call)[i])
  PROVE  CallInv'
<1>0. PICK c \in Calls, z \in Step : \E q : AtStep(c, z, q, i)
  BY RunningStep
<1>1. PICK q :
            /\ c = call /\ c.stage = "running" /\ Apt(c) /\ Gated(c) /\ Tidy(c) /\ Fits(c, store)
            /\ store \in [Objects -> Contents] /\ trail \in Events
            /\ q = ProgramAt(c) /\ Done(c, q) /\ i \in Ahead(c) /\ i \in Nat \ {0}
            /\ z = q[i] /\ z = Program(call)[i]
  BY <1>0 DEF AtStep
<1>2. z \in Step /\ z.op \in {"ask", "read"} /\ Learn(i, z)
  BY <1>1 DEF Learn
<1>3. z.op = "read" => z.obj \in Objects
  BY <1>2, StepType
<1>4. PICK v : v = IF z.op = "read" THEN [c.seen EXCEPT ![z.obj] = store[z.obj]] ELSE c.seen
  OBVIOUS
<1>5. /\ v \in [Objects -> Views]
      /\ z.op = "ask" => v = c.seen
      /\ z.op = "read" => /\ v[z.obj] = store[z.obj]
                          /\ \A u \in Objects : u # z.obj => v[u] = c.seen[u]
  BY <1>1, <1>2, <1>3, <1>4 DEF Calls, Views
<1>6. PICK d : d = Learnt(c, i, v)
  OBVIOUS
<1>7. d \in Calls /\ GoesOn(c, d, i) /\ d.asked = c.asked /\ d.seen = v /\ d.took = c.took
  BY <1>1, <1>5, <1>6, LearntType
<1>8. call' = d /\ UNCHANGED <<store, trail>>
  BY <1>1, <1>2, <1>4, <1>6 DEF Learn, Learnt
<1>9. Apt(d) /\ Done(d, ProgramAt(d))
  <2>0. Apt(c) /\ Done(c, q) /\ q = ProgramAt(c) /\ i \in Ahead(c)
    BY <1>1, Zenon
  <2>1. CASE z.op = "ask"
    <3>1. /\ q[i].op \in {"ask", "write"} /\ q[i].op # "write" /\ d.seen = c.seen
          /\ d.asked = c.asked \cup (IF q[i].op = "write" THEN {q[i].obj} ELSE {})
          /\ c.took \subseteq d.took
      BY <1>1, <1>5, <1>7, <2>1
    <3> QED BY <1>7, <2>0, <3>1, DoneOther
  <2>2. CASE z.op = "read"
    <3>1. PICK x : x = store[z.obj]
      OBVIOUS
    <3>2. x \in SightsOf(c.tool, q[i].obj) \ {"unread"} /\ x # "error"
      <4>1. z.obj \in ObjectsOf(c.tool)
        BY <1>1, <2>0, <2>2, NextStep, StepFits
      <4>2. x \in Possible(c.tool, z.obj) /\ x \in Contents
        BY <1>1, <1>3, <2>2, <3>1 DEF Fits
      <4> QED BY <1>1, <4>1, <4>2 DEF SightsOf, Contents
    <3>3. /\ q[i].op = "read" /\ d.asked = c.asked /\ d.took = c.took
          /\ d.seen = [c.seen EXCEPT ![q[i].obj] = x]
      BY <1>1, <1>4, <1>7, <2>2, <3>1
    <3> QED BY <1>7, <2>0, <3>2, <3>3, DoneRead
  <2> QED BY <1>2, <2>1, <2>2
<1>10. Gated(d) /\ Tidy(d) /\ Fits(d, store)
  BY <1>1, <1>7, GoesOnKeeps DEF Tidy
<1> QED BY <1>1, <1>7, <1>8, <1>9, <1>10, InvTo

\* Such a request fails: the call ends, or goes on without it.
LEMMA InvLearnFails ==
  ASSUME FormedTools, CallInv, call.stage = "running", NEW i \in Ahead(call),
         LearnFails(i, Program(call)[i])
  PROVE  CallInv'
<1>0. PICK c \in Calls, z \in Step : \E q : AtStep(c, z, q, i)
  BY RunningStep
<1>1. PICK q :
            /\ c = call /\ c.stage = "running" /\ Apt(c) /\ Gated(c) /\ Tidy(c) /\ Fits(c, store)
            /\ store \in [Objects -> Contents] /\ trail \in Events
            /\ q = ProgramAt(c) /\ Done(c, q) /\ i \in Ahead(c) /\ i \in Nat \ {0}
            /\ z = q[i] /\ z = Program(call)[i]
  BY <1>0 DEF AtStep
<1>2. z \in Step /\ z.op \in {"ask", "read"} /\ LearnFails(i, z)
  BY <1>1 DEF LearnFails
<1>3. CASE ~z.lenient
  <2>1. Fail("request") /\ UNCHANGED store
    BY <1>2, <1>3 DEF LearnFails
  <2>2. "request" \in Reasons
    BY DEF Reasons
  <2> QED BY <2>1, <2>2, InvFail
<1>4. CASE z.lenient
  <2>1. z.op = "read" => z.obj \in Objects
    BY <1>2, StepType
  <2>2. PICK v : v = IF z.op = "read" THEN [c.seen EXCEPT ![z.obj] = "error"] ELSE c.seen
    OBVIOUS
  <2>3. /\ v \in [Objects -> Views]
        /\ z.op = "ask" => v = c.seen
        /\ z.op = "read" => /\ v[z.obj] = "error"
                            /\ \A u \in Objects : u # z.obj => v[u] = c.seen[u]
    BY <1>2, <2>1, <2>2 DEF Calls, Views
  <2>4. PICK d : d = Learnt(c, i, v)
    OBVIOUS
  <2>5. d \in Calls /\ GoesOn(c, d, i) /\ d.asked = c.asked /\ d.seen = v /\ d.took = c.took
    BY <1>1, <2>3, <2>4, LearntType
  <2>6. call' = d /\ UNCHANGED <<store, trail>>
    BY <1>1, <1>2, <1>4, <2>2, <2>4 DEF LearnFails, Learnt
  <2>7. Apt(d) /\ Done(d, ProgramAt(d))
    <3>0. Apt(c) /\ Done(c, q) /\ q = ProgramAt(c) /\ i \in Ahead(c)
      BY <1>1, Zenon
    <3>1. CASE z.op = "ask"
      <4>1. /\ q[i].op \in {"ask", "write"} /\ q[i].op # "write" /\ d.seen = c.seen
            /\ d.asked = c.asked \cup (IF q[i].op = "write" THEN {q[i].obj} ELSE {})
            /\ c.took \subseteq d.took
        BY <1>1, <2>3, <2>5, <3>1
      <4> QED BY <2>5, <3>0, <4>1, DoneOther
    <3>2. CASE z.op = "read"
      <4>1. PICK x : x = "error"
        OBVIOUS
      <4>2. x \in SightsOf(c.tool, q[i].obj) \ {"unread"} /\ q[i].lenient
        <5>1. z.obj \in ObjectsOf(c.tool) /\ c.tool \notin PathTools
          <6>1. i \in At(q, c.seen) /\ q[i] = z
            BY <1>1, <3>0, NextStep
          <6>2. q[i].op = "read" =>
                   q[i].obj \in ObjectsOf(c.tool) /\ (q[i].lenient => c.tool \notin PathTools)
            BY <3>0, <6>1, StepFits
          <6> QED BY <1>4, <3>2, <6>1, <6>2
        <5> QED BY <1>1, <1>4, <4>1, <5>1 DEF SightsOf
      <4>3. /\ q[i].op = "read" /\ d.asked = c.asked /\ d.took = c.took
            /\ d.seen = [c.seen EXCEPT ![q[i].obj] = x]
        BY <1>1, <2>2, <2>5, <3>2, <4>1
      <4> QED BY <2>5, <3>0, <4>2, <4>3, DoneRead
    <3> QED BY <1>2, <3>1, <3>2
  <2>8. Gated(d) /\ Tidy(d) /\ Fits(d, store)
    BY <1>1, <2>5, GoesOnKeeps DEF Tidy
  <2> QED BY <1>1, <2>5, <2>6, <2>7, <2>8, InvTo
<1> QED BY <1>3, <1>4

\* What a change makes of the objects, and what it leaves of them when it fails.
LEMMA ChangedType ==
  ASSUME store \in [Objects -> Contents], NEW s \in ChangeStep, NEW c, Fits(c, store),
         Fitting(c.tool, s)
  PROVE  /\ Changed(s) \in [Objects -> Contents] /\ Fits(c, Changed(s))
         /\ \A x \in Left(s) : x \in [Objects -> Contents] /\ Fits(c, x)
<1>1. /\ s.obj \in Objects /\ s.val \in Contents /\ s.leaves \in SUBSET Contents
      /\ s.val \in Possible(c.tool, s.obj) /\ s.leaves \subseteq Possible(c.tool, s.obj)
  BY ChangeType DEF Fitting
<1>2. \A o \in Objects : "none" \in Possible(c.tool, o) /\ store[o] \in Possible(c.tool, o)
  BY PossibleType DEF Fits
<1>3. Changed(s) \in [Objects -> Contents] /\ Fits(c, Changed(s))
  BY <1>1, <1>2 DEF Changed, Fits, Contents
<1>4. ASSUME NEW y \in s.leaves
      PROVE  /\ [store EXCEPT ![s.obj] = y] \in [Objects -> Contents]
             /\ Fits(c, [store EXCEPT ![s.obj] = y])
  BY <1>1, <1>2 DEF Fits
<1>5. ASSUME NEW x \in Left(s) PROVE x \in [Objects -> Contents] /\ Fits(c, x)
  <2>1. x = store \/ x = Changed(s) \/ \E y \in s.leaves : x = [store EXCEPT ![s.obj] = y]
    BY DEF Left
  <2> QED BY <1>3, <1>4, <2>1
<1> QED BY <1>3, <1>5

\* The change that is next.
LEMMA ChangeNext ==
  ASSUME FormedTools, NEW c \in Calls, NEW z \in Step, NEW q, NEW i, AtStep(c, z, q, i),
         z.op = "write"
  PROVE  /\ z \in ChangeStep /\ Fitting(c.tool, z) /\ z.obj \in Objects
         /\ Changed(z) \in [Objects -> Contents] /\ Fits(c, Changed(z))
         /\ \A x \in Left(z) : x \in [Objects -> Contents] /\ Fits(c, x)
<1>1. z \in ChangeStep /\ z.obj \in Objects
  BY StepType
<1>2. /\ Apt(c) /\ q = ProgramAt(c) /\ Done(c, q) /\ i \in Ahead(c) /\ z = q[i]
      /\ Fits(c, store) /\ store \in [Objects -> Contents]
  BY DEF AtStep
<1>3. i \in At(q, c.seen)
  BY <1>2, NextStep
<1>4. Fitting(c.tool, z)
  BY <1>2, <1>3, StepFits
<1> QED BY <1>1, <1>2, <1>4, ChangedType

\* A change is carried out and answered.
LEMMA InvCarry ==
  ASSUME FormedTools, CallInv, call.stage = "running", NEW i \in Ahead(call),
         Carry(i, Program(call)[i])
  PROVE  CallInv'
<1>0. PICK c \in Calls, z \in Step : \E q : AtStep(c, z, q, i)
  BY RunningStep
<1>1. PICK q : AtStep(c, z, q, i)
  BY <1>0
<1>2. /\ c = call /\ c.stage = "running" /\ Apt(c) /\ Gated(c) /\ Tidy(c) /\ Fits(c, store)
      /\ store \in [Objects -> Contents] /\ trail \in Events
      /\ q = ProgramAt(c) /\ Done(c, q) /\ i \in Ahead(c) /\ i \in Nat \ {0}
      /\ z = q[i] /\ z = Program(call)[i]
  BY <1>1 DEF AtStep
<1>3. z.op = "write" /\ Carry(i, z)
  BY <1>2 DEF Carry
<1>4. /\ z.obj \in Objects /\ Changed(z) \in [Objects -> Contents] /\ Fits(c, Changed(z))
  BY <1>1, <1>3, ChangeNext
<1>5. PICK d : d = Carried(c, i, z.obj, c.took \cup {z.obj})
  OBVIOUS
<1>6. /\ d \in Calls /\ GoesOn(c, d, i)
      /\ d.asked = c.asked \cup {z.obj} /\ d.seen = c.seen /\ d.took = c.took \cup {z.obj}
  <2>1. c.took \cup {z.obj} \in SUBSET Objects
    BY <1>4 DEF Calls
  <2> QED BY <1>2, <1>4, <1>5, <2>1, CarriedType
<1>7. call' = d /\ store' = Changed(z) /\ trail' = trail
  BY <1>2, <1>3, <1>5 DEF Carry, Carried
<1>8. Apt(d) /\ Done(d, ProgramAt(d))
  <2>1. /\ q[i].op \in {"ask", "write"} /\ d.seen = c.seen /\ q[i].obj \in d.took
        /\ d.asked = c.asked \cup (IF q[i].op = "write" THEN {q[i].obj} ELSE {})
        /\ c.took \subseteq d.took
    BY <1>2, <1>3, <1>6
  <2>2. Apt(c) /\ Done(c, q) /\ q = ProgramAt(c) /\ i \in Ahead(c)
    BY <1>2, Zenon
  <2> QED BY <1>6, <2>1, <2>2, DoneOther
<1>9. Gated(d) /\ Tidy(d) /\ Fits(d, Changed(z))
  <2>1. d.took \subseteq d.asked
    BY <1>2, <1>6 DEF Tidy
  <2> QED BY <1>2, <1>4, <1>6, <2>1, GoesOnKeeps
<1> QED BY <1>2, <1>4, <1>6, <1>7, <1>8, <1>9, InvTo

\* A change fails, with what it leaves, and the call ends, or goes on without it.
LEMMA InvCarryFails ==
  ASSUME FormedTools, CallInv, call.stage = "running", NEW i \in Ahead(call),
         CarryFails(i, Program(call)[i])
  PROVE  CallInv'
<1>0. PICK c \in Calls, z \in Step : \E q : AtStep(c, z, q, i)
  BY RunningStep
<1>1. PICK q : AtStep(c, z, q, i)
  BY <1>0
<1>2. /\ c = call /\ c.stage = "running" /\ Apt(c) /\ Gated(c) /\ Tidy(c) /\ Fits(c, store)
      /\ store \in [Objects -> Contents] /\ trail \in Events
      /\ q = ProgramAt(c) /\ Done(c, q) /\ i \in Ahead(c) /\ i \in Nat \ {0}
      /\ z = q[i] /\ z = Program(call)[i]
  BY <1>1 DEF AtStep
<1>3. z.op = "write" /\ CarryFails(i, z)
  BY <1>2 DEF CarryFails
<1>4. z.obj \in Objects /\ store' \in [Objects -> Contents] /\ Fits(c, store')
  <2>1. store' \in Left(z)
    BY <1>3 DEF CarryFails
  <2> QED BY <1>1, <1>3, <2>1, ChangeNext
<1>5. c.took \subseteq c.asked /\ c.behind = {} /\ c.asked \cup {z.obj} \in SUBSET Objects
  BY <1>2, <1>4 DEF Tidy, Calls
<1>6. CASE ~z.lenient
  <2>1. PICK d : d = [c EXCEPT !.stage = "over", !.result = "error", !.why = "request",
                                !.asked = c.asked \cup {z.obj}]
    OBVIOUS
  <2>2. call' = d /\ Audit(c, TRUE)
    BY <1>2, <1>3, <1>6, <2>1 DEF CarryFails
  <2>3. /\ d \in Calls /\ d.stage = "over" /\ d.tool = c.tool /\ d.p = c.p /\ d.seen = c.seen
        /\ d.way = c.way /\ d.phase = c.phase /\ d.took = c.took /\ d.behind = c.behind
        /\ d.asked = c.asked \cup {z.obj}
    BY <1>5, <2>1 DEF Calls, Results, Reasons
  <2>4. Apt(d) /\ Gated(d) /\ Tidy(d) /\ Fits(d, store')
    <3>1. d.took \subseteq d.asked
      BY <1>5, <2>3
    <3> QED BY <1>2, <1>4, <1>5, <2>3, <3>1, SameCall
  <2>5. trail' \in Events
    BY <1>2, <2>2, AuditType
  <2> QED BY <1>4, <2>2, <2>3, <2>4, <2>5, InvTo
<1>7. CASE z.lenient
  <2>1. PICK d : d = Carried(c, i, z.obj, c.took)
    OBVIOUS
  <2>2. /\ d \in Calls /\ GoesOn(c, d, i)
        /\ d.asked = c.asked \cup {z.obj} /\ d.seen = c.seen /\ d.took = c.took
    <3>1. c.took \in SUBSET Objects
      BY DEF Calls
    <3> QED BY <1>2, <1>4, <2>1, <3>1, CarriedType
  <2>3. call' = d /\ trail' = trail
    <3>1. call' = [c EXCEPT !.pc = i + 1, !.asked = c.asked \cup {z.obj}] /\ trail' = trail
      BY <1>2, <1>3, <1>7 DEF CarryFails
    <3>2. [c EXCEPT !.pc = i + 1, !.asked = c.asked \cup {z.obj}] = Carried(c, i, z.obj, c.took)
      BY DEF Calls, Carried
    <3> QED BY <2>1, <3>1, <3>2
  <2>4. Apt(d) /\ Done(d, ProgramAt(d))
    <3>1. /\ q[i].op \in {"ask", "write"} /\ d.seen = c.seen /\ q[i].lenient
          /\ d.asked = c.asked \cup (IF q[i].op = "write" THEN {q[i].obj} ELSE {})
          /\ c.took \subseteq d.took
      BY <1>2, <1>3, <1>7, <2>2
    <3>2. Apt(c) /\ Done(c, q) /\ q = ProgramAt(c) /\ i \in Ahead(c)
      BY <1>2, Zenon
    <3> QED BY <2>2, <3>1, <3>2, DoneOther
  <2>5. Gated(d) /\ Tidy(d) /\ Fits(d, store')
    <3>1. d.took \subseteq d.asked
      BY <1>5, <2>2
    <3> QED BY <1>2, <1>4, <2>2, <3>1, GoesOnKeeps
  <2> QED BY <1>2, <1>4, <2>2, <2>3, <2>4, <2>5, InvTo
<1> QED BY <1>6, <1>7

\* A call whose tool has returned with answer z, which is or is not a stream.
Streamed(c, z, n, b) ==
  [c EXCEPT !.stage = "streaming", !.result = z.kind, !.left = n, !.broken = b,
            !.reader = "reading", !.behind = z.behind]
Returned(c, z) == [c EXCEPT !.stage = "over", !.result = z.kind]

LEMMA ReturnCases ==
  ASSUME NEW i, NEW z, Return(i, z), NEW c, c = call
  PROVE  /\ z.op = "answer" /\ store' = store
         /\ \/ /\ \E n \in 0 .. MaxChunks, b \in BOOLEAN : call' = Streamed(c, z, n, b)
               /\ trail' = trail
            \/ call' = Returned(c, z) /\ Audit(c, FALSE)
<1> DEFINE Long == call.p.mode \in StreamModes /\ call.way.via = "middleware"
<1>1. /\ z.op = "answer" /\ store' = store
      /\ Long => /\ \E n \in 0 .. MaxChunks, b \in BOOLEAN : call' = Streamed(call, z, n, b)
                 /\ trail' = trail
      /\ ~Long => call' = Returned(call, z) /\ Audit(call, FALSE)
  BY Zenon DEF Return, Streamed, Returned
<1> HIDE DEF Long
<1> QED BY <1>1

\* The tool returns.
LEMMA InvReturn ==
  ASSUME FormedTools, CallInv, call.stage = "running", NEW i \in Ahead(call),
         Return(i, Program(call)[i])
  PROVE  CallInv'
<1>0. PICK c \in Calls, z \in Step : \E q : AtStep(c, z, q, i)
  BY RunningStep
<1>1. PICK q :
            /\ c = call /\ c.stage = "running" /\ Apt(c) /\ Gated(c) /\ Tidy(c) /\ Fits(c, store)
            /\ store \in [Objects -> Contents] /\ trail \in Events
            /\ q = ProgramAt(c) /\ Done(c, q) /\ i \in Ahead(c) /\ i \in Nat \ {0}
            /\ z = q[i] /\ z = Program(call)[i]
  BY <1>0 DEF AtStep
<1>8. Return(i, z)
  BY <1>1
<1>2. /\ z.op = "answer" /\ store' = store
      /\ \/ /\ \E n \in 0 .. MaxChunks, b \in BOOLEAN : call' = Streamed(c, z, n, b)
            /\ trail' = trail
         \/ call' = Returned(c, z) /\ Audit(c, FALSE)
  BY <1>1, <1>8, ReturnCases
<1>3. z.kind \in Results \ {"none", "error"} /\ z.behind \in SUBSET ChangeStep
  BY <1>2, StepType DEF Results
<1>6. (\A s \in z.behind : Fitting(c.tool, s)) /\ (z.behind # {} => z.kind = "opened")
  <2>1. i \in At(q, c.seen) /\ q[i] = z
    BY <1>1, NextStep
  <2>2. q[i].op = "answer" =>
           /\ \A s \in q[i].behind : Fitting(c.tool, s)
           /\ q[i].behind # {} => q[i].kind = "opened"
    BY <1>1, <2>1, StepFits
  <2> QED BY <1>2, <2>1, <2>2
<1>7. c.took \subseteq c.asked /\ c.behind = {} /\ c.why = "none"
  BY <1>1 DEF Tidy, Done
<1>4. ASSUME NEW n \in 0 .. MaxChunks, NEW b \in BOOLEAN, call' = Streamed(c, z, n, b),
             trail' = trail
      PROVE  CallInv'
  <2>1. PICK d : d = Streamed(c, z, n, b)
    OBVIOUS
  <2>2. /\ d \in Calls /\ d.stage = "streaming" /\ d.tool = c.tool /\ d.p = c.p
        /\ d.seen = c.seen /\ d.way = c.way /\ d.phase = c.phase /\ d.result = z.kind
        /\ d.took = c.took /\ d.asked = c.asked /\ d.behind = z.behind /\ d.why = c.why
    BY <1>3, <2>1 DEF Calls, Streamed
  <2>3. Apt(d) /\ Gated(d) /\ Tidy(d) /\ Fits(d, store')
    BY <1>1, <1>2, <1>6, <1>7, <2>2 DEF Apt, Gated, Tidy, Fits
  <2> QED BY <1>1, <1>2, <1>4, <2>1, <2>2, <2>3, InvTo
<1>5. CASE call' = Returned(c, z) /\ Audit(c, FALSE)
  <2>1. PICK d : d = Returned(c, z)
    OBVIOUS
  <2>2. /\ d \in Calls /\ d.stage = "over" /\ d.tool = c.tool /\ d.p = c.p
        /\ d.seen = c.seen /\ d.way = c.way /\ d.phase = c.phase
        /\ d.took = c.took /\ d.asked = c.asked /\ d.behind = c.behind
    BY <1>3, <2>1 DEF Calls, Returned
  <2>3. Apt(d) /\ Gated(d) /\ Tidy(d) /\ Fits(d, store')
    BY <1>1, <1>2, <1>7, <2>2, SameCall
  <2>4. trail' \in Events
    BY <1>1, <1>5, AuditType
  <2> QED BY <1>1, <1>2, <1>5, <2>1, <2>2, <2>3, <2>4, InvTo
<1> QED BY <1>2, <1>4, <1>5

\* A call of a tool advances.
LEMMA InvAdvance ==
  ASSUME FormedTools, CallInv, Advance
  PROVE  CallInv'
<1>1. PICK i \in Ahead(call) :
         LET s == Program(call)[i]
         IN \/ FailCheck(i, s) \/ Learn(i, s) \/ LearnFails(i, s)
            \/ Carry(i, s) \/ CarryFails(i, s) \/ Return(i, s)
  BY DEF Advance
<1>2. call.stage = "running"
  BY DEF Advance
<1>3. CASE FailCheck(i, Program(call)[i])
  <2>0. PICK c \in Calls, z \in Step : \E q : AtStep(c, z, q, i)
    BY <1>2, RunningStep
  <2>1. z = Program(call)[i]
    BY <2>0 DEF AtStep
  <2>2. z.op = "check" /\ Fail(z.why) /\ UNCHANGED store
    BY <1>3, <2>1 DEF FailCheck
  <2>3. z.why \in Reasons
    BY <2>2, StepType DEF Reasons
  <2> QED BY <1>2, <2>2, <2>3, InvFail
<1> QED BY <1>1, <1>2, <1>3, InvLearn, InvLearnFails, InvCarry, InvCarryFails, InvReturn

\* The steps of a stream, whose relay never has more than the pipe holds.
LEMMA InvStream ==
  ASSUME CallInv,
         Relay \/ StreamEnds \/ Consume \/ \E how \in {"closed", "gone"} : StopReading(how)
  PROVE  CallInv'
<1>1. call.stage = "streaming" /\ store' = store
  BY DEF Relay, StreamEnds, Consume, StopReading
<1>2. PICK c \in Calls :
            /\ c = call /\ Apt(c) /\ Gated(c) /\ Tidy(c) /\ Fits(c, store)
            /\ store \in [Objects -> Contents] /\ trail \in Events
  BY <1>1, RunningCall
<1>3. ASSUME NEW d \in Calls, call' = d, d.stage # "running",
             d.tool = c.tool, d.p = c.p, d.seen = c.seen, d.way = c.way, d.phase = c.phase,
             d.took = c.took, d.asked = c.asked, d.behind = c.behind,
             c.behind = {} \/ (d.stage = "streaming" /\ d.result = c.result /\ d.why = c.why),
             trail' \in Events
      PROVE  CallInv'
  <2>1. c.stage = "streaming" /\ c.took \subseteq c.asked
    BY <1>1, <1>2 DEF Tidy
  <2>2. Apt(d) /\ Gated(d) /\ Tidy(d) /\ Fits(d, store')
    BY <1>1, <1>2, <1>3, <2>1, SameCall
  <2> QED BY <1>1, <1>2, <1>3, <2>2, InvTo
<1>4. c.queue \in 0 .. PipeSize /\ c.left \in 0 .. MaxChunks /\ MaxChunks \in Nat /\ PipeSize \in Nat
  BY BoundsAssumption DEF Calls
<1>5. CASE Relay
  <2>1. /\ c.left > 0 /\ (c.queue < PipeSize \/ c.reader = "closed") /\ trail' = trail
        /\ call' = [call EXCEPT !.left = call.left - 1, !.queue = Queued]
    BY <1>2, <1>5 DEF Relay, Room
  <2>2. PICK k : k = Queued
    OBVIOUS
  <2>3. k \in 0 .. PipeSize
    BY <1>2, <1>4, <2>1, <2>2 DEF Queued
  <2>4. PICK l : l = c.left - 1
    OBVIOUS
  <2>5. l \in 0 .. MaxChunks
    BY <1>4, <2>1, <2>4
  <2>6. PICK d : d = [c EXCEPT !.left = l, !.queue = k]
    OBVIOUS
  <2>7. /\ d \in Calls /\ d.stage = c.stage /\ d.tool = c.tool /\ d.p = c.p
        /\ d.seen = c.seen /\ d.way = c.way /\ d.phase = c.phase /\ d.took = c.took
        /\ d.asked = c.asked /\ d.behind = c.behind /\ d.result = c.result /\ d.why = c.why
    BY <2>3, <2>5, <2>6 DEF Calls
  <2>8. call' = d
    BY <1>2, <2>1, <2>2, <2>4, <2>6
  <2> QED BY <1>1, <1>2, <1>3, <2>1, <2>7, <2>8
<1>6. CASE StreamEnds
  <2>1. PICK r, y : /\ r = IF c.broken THEN "error" ELSE c.result
                    /\ y = IF c.broken THEN "stream" ELSE c.why
    OBVIOUS
  <2>2. r \in Results /\ y \in Reasons /\ c.broken \in BOOLEAN
    BY <2>1 DEF Calls, Results, Reasons
  <2>3. PICK d : d = [c EXCEPT !.stage = "over", !.result = r, !.why = y]
    OBVIOUS
  <2>4. /\ d \in Calls /\ d.stage = "over" /\ d.tool = c.tool /\ d.p = c.p
        /\ d.seen = c.seen /\ d.way = c.way /\ d.phase = c.phase /\ d.took = c.took
        /\ d.asked = c.asked /\ d.behind = c.behind
    BY <2>2, <2>3 DEF Calls
  <2>5. call' = d /\ Audit(c, c.broken)
    <3>1. /\ call' = [call EXCEPT !.stage = "over",
                                  !.result = IF call.broken THEN "error" ELSE call.result,
                                  !.why = IF call.broken THEN "stream" ELSE call.why]
          /\ Audit(call, call.broken)
      BY <1>6 DEF StreamEnds
    <3> QED BY <1>2, <2>1, <2>3, <3>1
  <2>6. trail' \in Events
    BY <1>2, <2>2, <2>5, AuditType
  <2>7. c.behind = {}
    BY <1>2, <1>6 DEF StreamEnds
  <2> QED BY <1>3, <2>4, <2>5, <2>6, <2>7
<1>7. CASE Consume
  <2>1. c.queue > 0 /\ trail' = trail /\ call' = [call EXCEPT !.queue = call.queue - 1]
    BY <1>2, <1>7 DEF Consume
  <2>2. PICK k : k = c.queue - 1
    OBVIOUS
  <2>3. k \in 0 .. PipeSize
    BY <1>4, <2>1, <2>2
  <2>4. PICK d : d = [c EXCEPT !.queue = k]
    OBVIOUS
  <2>5. /\ d \in Calls /\ d.stage = c.stage /\ d.tool = c.tool /\ d.p = c.p
        /\ d.seen = c.seen /\ d.way = c.way /\ d.phase = c.phase /\ d.took = c.took
        /\ d.asked = c.asked /\ d.behind = c.behind /\ d.result = c.result /\ d.why = c.why
    BY <2>3, <2>4 DEF Calls
  <2>6. call' = d
    BY <1>2, <2>1, <2>2, <2>4
  <2> QED BY <1>1, <1>2, <1>3, <2>1, <2>5, <2>6
<1>8. ASSUME NEW how \in {"closed", "gone"}, StopReading(how) PROVE CallInv'
  <2>1. /\ trail' = trail
        /\ call' = [call EXCEPT !.reader = how,
                                !.queue = IF how = "closed" THEN 0 ELSE call.queue]
    BY <1>8 DEF StopReading
  <2>2. PICK k : k = IF how = "closed" THEN 0 ELSE c.queue
    OBVIOUS
  <2>3. k \in 0 .. PipeSize
    BY <1>4, <2>2
  <2>4. PICK d : d = [c EXCEPT !.reader = how, !.queue = k]
    OBVIOUS
  <2>5. /\ d \in Calls /\ d.stage = c.stage /\ d.tool = c.tool /\ d.p = c.p
        /\ d.seen = c.seen /\ d.way = c.way /\ d.phase = c.phase /\ d.took = c.took
        /\ d.asked = c.asked /\ d.behind = c.behind /\ d.result = c.result /\ d.why = c.why
    BY <2>3, <2>4 DEF Calls
  <2>6. call' = d
    BY <1>2, <2>1, <2>2, <2>4
  <2> QED BY <1>1, <1>2, <1>3, <2>1, <2>5, <2>6
<1> QED BY <1>5, <1>6, <1>7, <1>8

\* A call whose change behind the stream was made, or has failed.
Made(c, s) == [c EXCEPT !.behind = {}, !.asked = c.asked \cup {s.obj}, !.took = c.took \cup {s.obj}]
Unmade(c, s) == [c EXCEPT !.behind = {}, !.asked = c.asked \cup {s.obj}, !.broken = TRUE]

LEMMA BehindCases ==
  ASSUME CarryBehind, NEW c, c = call
  PROVE  /\ c.stage = "streaming" /\ trail' = trail
         /\ \E s \in c.behind : \/ (store' = Changed(s) /\ call' = Made(c, s))
                               \/ (store' \in Left(s) /\ call' = Unmade(c, s))
<1>1. \E s \in call.behind : \/ (store' = Changed(s) /\ call' = Made(call, s))
                            \/ (store' \in Left(s) /\ call' = Unmade(call, s))
  BY Zenon DEF CarryBehind, Made, Unmade
<1>2. call.stage = "streaming" /\ trail' = trail
  BY DEF CarryBehind
<1> QED BY <1>1, <1>2

\* The change behind a stream is made, or fails.
LEMMA InvBehind ==
  ASSUME CallInv, CarryBehind
  PROVE  CallInv'
<1>1. PICK c \in Calls :
            /\ c = call /\ Apt(c) /\ Gated(c) /\ Tidy(c) /\ Fits(c, store)
            /\ store \in [Objects -> Contents] /\ trail \in Events /\ c.stage = "streaming"
  BY RunningCall DEF CarryBehind
<1>2. PICK s \in c.behind : \/ (store' = Changed(s) /\ call' = Made(c, s))
                           \/ (store' \in Left(s) /\ call' = Unmade(c, s))
  BY <1>1, BehindCases
<1>3. s \in ChangeStep /\ Fitting(c.tool, s) /\ s.obj \in Objects
  BY <1>1, ChangeType DEF Tidy, Calls
<1>4. store' \in [Objects -> Contents] /\ Fits(c, store')
  BY <1>1, <1>2, <1>3, ChangedType
<1>5. /\ c.asked \cup {s.obj} \in SUBSET Objects /\ c.took \cup {s.obj} \in SUBSET Objects
      /\ c.took \subseteq c.asked
  BY <1>1, <1>3 DEF Calls, Tidy
<1>6. PICK d : d = call'
  OBVIOUS
<1>7. /\ d \in Calls /\ d.stage = c.stage /\ d.tool = c.tool /\ d.p = c.p /\ d.seen = c.seen
      /\ d.way = c.way /\ d.phase = c.phase /\ d.behind = {} /\ d.took \subseteq d.asked
  <2>1. CASE d = Made(c, s)
    BY <1>5, <2>1 DEF Calls, Made
  <2>2. CASE d = Unmade(c, s)
    BY <1>5, <2>2 DEF Calls, Unmade
  <2> QED BY <1>2, <1>6, <2>1, <2>2
<1>8. Apt(d) /\ Gated(d) /\ Tidy(d) /\ Fits(d, store')
  BY <1>1, <1>4, <1>7, SameCall
<1>9. trail' = trail
  BY DEF CarryBehind
<1> QED BY <1>1, <1>4, <1>6, <1>7, <1>8, <1>9, InvTo

\* What others do to the objects.
LEMMA InvOthers ==
  ASSUME CallInv,
         \/ \E o \in Objects, v \in {"none", "guarded", "theirs"} : Elsewhere(o, v)
         \/ SweepStaleDirs
  PROVE  /\ CallInv' /\ trail' = trail /\ call.stage \in {"running", "streaming"}
         /\ call' = [call EXCEPT !.others = call.others + 1]
<1>1. /\ call.stage \in {"running", "streaming"} /\ trail' = trail
      /\ call' = [call EXCEPT !.others = call.others + 1]
  BY DEF Elsewhere, SweepStaleDirs, UnderWay
<1>2. PICK c \in Calls :
            /\ c = call /\ Apt(c) /\ Gated(c) /\ Tidy(c) /\ Fits(c, store)
            /\ store \in [Objects -> Contents] /\ trail \in Events
            /\ c.stage = "running" => Done(c, ProgramAt(c))
  BY <1>1, RunningCall
<1>3. store' \in [Objects -> Contents] /\ Fits(c, store')
  <2>1. ASSUME NEW o \in Objects, NEW v \in {"none", "guarded", "theirs"}, Elsewhere(o, v)
        PROVE  store' \in [Objects -> Contents] /\ Fits(c, store')
    <3>1. v \in Possible(c.tool, o) /\ v \in Contents /\ store' = [store EXCEPT ![o] = v]
      BY <1>2, <2>1, PossibleType DEF Elsewhere
    <3> QED BY <1>2, <3>1 DEF Fits
  <2>2. CASE SweepStaleDirs
    <3>1. store' \in [Objects -> Contents] /\ \A o \in Objects : store'[o] \in {"none", store[o]}
      BY <1>2, <2>2 DEF SweepStaleDirs, Contents
    <3> QED BY <1>2, <3>1, PossibleType DEF Fits
  <2> QED BY <2>1, <2>2
<1>4. c.others + 1 \in Nat
  BY DEF Calls
<1>5. PICK d : d = [c EXCEPT !.others = c.others + 1]
  OBVIOUS
<1>6. /\ d \in Calls /\ d.stage = c.stage /\ d.tool = c.tool /\ d.p = c.p
      /\ d.seen = c.seen /\ d.way = c.way /\ d.phase = c.phase
      /\ d.pc = c.pc /\ d.asked = c.asked /\ d.took = c.took /\ d.behind = c.behind
      /\ d.result = c.result /\ d.why = c.why
  BY <1>4, <1>5 DEF Calls
<1>7. call' = d
  BY <1>1, <1>2, <1>5
<1>8. Apt(d) /\ Gated(d) /\ Tidy(d) /\ Fits(d, store') /\ ProgramAt(d) = ProgramAt(c)
  <2>1. /\ c.took \subseteq c.asked /\ c.stage # "over"
        /\ c.behind # {} => c.stage = "streaming"
    BY <1>1, <1>2 DEF Tidy
  <2> QED BY <1>2, <1>3, <1>6, <2>1, SameCall
<1>9. d.stage = "running" => Done(d, ProgramAt(d))
  BY <1>1, <1>2, <1>6, <1>8 DEF Done
<1> QED BY <1>1, <1>2, <1>3, <1>6, <1>7, <1>8, <1>9, InvTo

\* The next call is another one.
LEMMA InvForget ==
  ASSUME CallInv, Forget
  PROVE  CallInv'
<1>1. call' = Idle /\ trail' = <<>> /\ store' = [o \in Objects |-> "none"]
  BY DEF Forget
<1>2. /\ [o \in Objects |-> "none"] \in [Objects -> Contents] /\ Idle.stage # "running"
      /\ <<>> \in Seq([phase : Phases, failed : BOOLEAN])
  BY DEF Contents, Idle
<1> QED BY <1>1, <1>2 DEF CallInv

\* At first there is none.
LEMMA InvInit == Init => CallInv
<1>1. /\ [o \in Objects |-> "none"] \in [Objects -> Contents] /\ Idle.stage # "running"
      /\ <<>> \in Seq([phase : Phases, failed : BOOLEAN])
  BY DEF Contents, Idle
<1> QED BY <1>1 DEF Init, CallInv

\* Every way to a tool is one of the gate's.
LEMMA WaysType ==
  ASSUME NEW t
  PROVE  WaysTo(t) \subseteq Ways /\ Bare \in Ways /\ Approved \in Ways
<1>1. ASSUME NEW via \in {"middleware", "pipe", "bare"}, NEW policy \in BOOLEAN,
             NEW model \in BOOLEAN, NEW host \in {"yes", "no", "unset"}
      PROVE  Way(via, policy, model, host) \in Ways
  BY DEF Way, Ways
<1>2. Bare \in Ways /\ Approved \in Ways
  BY <1>1 DEF Bare, Approved
<1>3. ASSUME NEW via \in {"middleware", "pipe"} PROVE Unlisted(via) \in Ways
  <2>1. PICK w \in Ways : w = Way(via, TRUE, TRUE, "yes")
    BY <1>1
  <2> QED BY <2>1 DEF Unlisted, Ways
<1>4. ASSUME NEW w \in WaysTo(t) PROVE w \in Ways
  BY <1>1, <1>2, <1>3 DEF WaysTo
<1> QED BY <1>2, <1>4

\* The steps of a tool call.
LEMMA NextCases ==
  ASSUME Next
  PROVE  \/ /\ call.stage = "idle"
            /\ \E t \in Tools : \E b \in Before(t), p \in Sound(t) \cup Flawed(t), w \in Ways :
                  Begin(t, p, w, b)
         \/ Advance
         \/ Relay \/ StreamEnds \/ Consume \/ \E how \in {"closed", "gone"} : StopReading(how)
         \/ CarryBehind
         \/ \/ \E o \in Objects, v \in {"none", "guarded", "theirs"} : Elsewhere(o, v)
            \/ SweepStaleDirs
         \/ Forget
<1>1. ASSUME NEW t \in Tools, NEW b \in Before(t), NEW p \in Sound(t), NEW w \in WaysTo(t),
             Begin(t, p, w, b)
      PROVE  \E u \in Ways : Begin(t, p, u, b)
  BY <1>1, WaysType
<1>2. ASSUME NEW t \in Tools, NEW b \in Before(t), NEW p \in Flawed(t),
             Begin(t, p, IF t \in Probes THEN Bare ELSE Approved, b)
      PROVE  \E u \in Ways : Begin(t, p, u, b)
  BY <1>2, WaysType
<1>3. CASE Arrive
  BY <1>1, <1>2, <1>3 DEF Arrive
<1> QED BY <1>3 DEF Next

\* All steps together.
LEMMA InvNext ==
  ASSUME FormedTools, CallInv, [Next]_vars
  PROVE  CallInv'
<1>1. CASE UNCHANGED vars
  BY <1>1 DEF vars, CallInv, Fits
<1>2. CASE Next
  BY <1>2, NextCases, InvBegin, InvAdvance, InvStream, InvBehind, InvOthers, InvForget
<1> QED BY <1>1, <1>2

\* Every call is at a step of its program that its arguments, its authorisation and what it
\* has seen lead to, with the changes before that step asked for and no others.
THEOREM CallInvariant ==
  ASSUME FormedTools
  PROVE  Spec => []CallInv
<1>1. CallInv /\ [Next]_vars => CallInv'
  BY InvNext
<1> QED BY <1>1, InvInit, PTL DEF Spec

\* The first: the type of the state, whatever the tools of the toolbox are, as long as they
\* are sequences of steps that do not depend on what is yet to be read.
THEOREM TypeCorrect ==
  ASSUME FormedTools
  PROVE  Spec => []TypeOK
BY CallInvariant, TypeFromInv, PTL

-----------------------------------------------------------------------------
(* What a step leaves of a call, for the theorems below.                   *)

\* What a call keeps while it runs.
Same(c, d) ==
  /\ d.tool = c.tool /\ d.p = c.p /\ d.way = c.way /\ d.phase = c.phase /\ d.found = c.found

\* It ends with an error, or goes on.
Halts(c, d, y) ==
  /\ d.stage = "over" /\ d.result = "error" /\ d.why = y
  /\ d.seen = c.seen /\ d.took = c.took /\ d.behind = c.behind /\ Audit(c, TRUE)
Continues(c, d) ==
  /\ d.stage = "running" /\ d.result = c.result /\ d.why = c.why
  /\ d.behind = c.behind /\ trail' = trail

\* What becomes of a running call at step z: it is refused; gives up a request that changes
\* nothing, or goes on after it; goes on after a change, or misses its answer; or answers.
Refused(c, d, z) ==
  z.op = "check" /\ Halts(c, d, z.why) /\ store' = store /\ d.asked = c.asked
GivesUp(c, d, z) ==
  z.op \in {"ask", "read"} /\ Halts(c, d, "request") /\ store' = store /\ d.asked = c.asked
Learns(c, d, z) ==
  /\ z.op \in {"ask", "read"} /\ Continues(c, d) /\ store' = store
  /\ d.asked = c.asked /\ d.took = c.took
  /\ \A o \in Objects : \/ d.seen[o] = c.seen[o]
                        \/ z.op = "read" /\ z.obj = o /\ d.seen[o] \in {"error", store[o]}
Carries(c, d, z) ==
  /\ z.op = "write" /\ Taken(z) /\ Continues(c, d) /\ store' = Changed(z)
  /\ d.asked = c.asked \cup {z.obj} /\ d.seen = c.seen /\ d.took = c.took \cup {z.obj}
Misses(c, d, z) ==
  /\ z.op = "write" /\ store' \in Left(z)
  /\ d.asked = c.asked \cup {z.obj} /\ d.seen = c.seen /\ d.took = c.took
  /\ IF z.lenient THEN Continues(c, d) ELSE Halts(c, d, "request")
Answers(c, d, z) ==
  /\ z.op = "answer" /\ store' = store
  /\ d.asked = c.asked /\ d.seen = c.seen /\ d.took = c.took
  /\ d.why = c.why /\ d.result = z.kind
  /\ \/ d.stage = "streaming" /\ d.behind = z.behind /\ trail' = trail
     \/ d.stage = "over" /\ d.behind = c.behind /\ Audit(c, FALSE)
Outcome(c, d, z) ==
  /\ Same(c, d) /\ d.others = c.others
  /\ \/ Refused(c, d, z) \/ GivesUp(c, d, z) \/ Learns(c, d, z)
     \/ Carries(c, d, z) \/ Misses(c, d, z) \/ Answers(c, d, z)

\* Every step of a running call has one of these outcomes.
LEMMA Advances ==
  ASSUME FormedTools, CallInv, Advance
  PROVE  \E c \in Calls, z \in Step : \E q, d : \E i \in Ahead(call) :
            AtStep(c, z, q, i) /\ call' = d /\ Outcome(c, d, z)
<1>1. PICK i \in Ahead(call) :
         LET s == Program(call)[i]
         IN \/ FailCheck(i, s) \/ Learn(i, s) \/ LearnFails(i, s)
            \/ Carry(i, s) \/ CarryFails(i, s) \/ Return(i, s)
  BY DEF Advance
<1>2. PICK c \in Calls, z \in Step : \E q : AtStep(c, z, q, i)
  BY RunningStep DEF Advance
<1>3. PICK q : AtStep(c, z, q, i)
  BY <1>2
<1>4. c = call /\ c.stage = "running" /\ z = Program(call)[i]
      /\ store \in [Objects -> Contents]
  BY <1>3 DEF AtStep
<1>5. PICK d : d = call'
  OBVIOUS
<1> SUFFICES Outcome(c, d, z)
  BY <1>3, <1>5
<1>6. ASSUME NEW y, d = [c EXCEPT !.stage = "over", !.result = "error", !.why = y], Audit(c, TRUE)
      PROVE  Halts(c, d, y) /\ Same(c, d) /\ d.others = c.others /\ d.asked = c.asked
  BY <1>6 DEF Halts, Same, Calls
<1>7. CASE FailCheck(i, z)
  <2>1. z.op = "check" /\ Fail(z.why) /\ store' = store
    BY <1>7 DEF FailCheck
  <2>2. d = [c EXCEPT !.stage = "over", !.result = "error", !.why = z.why] /\ Audit(c, TRUE)
    BY <1>4, <1>5, <2>1 DEF Fail
  <2>3. Halts(c, d, z.why) /\ Same(c, d) /\ d.others = c.others /\ d.asked = c.asked
    BY <1>6, <2>2
  <2> QED BY <2>1, <2>3 DEF Outcome, Refused
<1>8. CASE Learn(i, z)
  <2>1. z.op \in {"ask", "read"} /\ UNCHANGED <<store, trail>>
    BY <1>8 DEF Learn
  <2>2. d = [c EXCEPT !.pc = i + 1,
                      !.seen = IF z.op = "read" THEN [c.seen EXCEPT ![z.obj] = store[z.obj]]
                               ELSE c.seen]
    BY <1>4, <1>5, <1>8 DEF Learn
  <2>3. /\ Same(c, d) /\ d.others = c.others /\ Continues(c, d)
        /\ d.asked = c.asked /\ d.took = c.took
        /\ d.seen = IF z.op = "read" THEN [c.seen EXCEPT ![z.obj] = store[z.obj]] ELSE c.seen
    BY <1>4, <2>1, <2>2 DEF Same, Continues, Calls
  <2>4. c.seen \in [Objects -> Views]
    BY DEF Calls
  <2>5. \A o \in Objects : \/ d.seen[o] = c.seen[o]
                           \/ z.op = "read" /\ z.obj = o /\ d.seen[o] \in {"error", store[o]}
    BY <2>1, <2>3, <2>4
  <2> QED BY <2>1, <2>3, <2>5 DEF Outcome, Learns
<1>9. CASE LearnFails(i, z)
  <2>1. z.op \in {"ask", "read"} /\ store' = store
    BY <1>9 DEF LearnFails
  <2>2. CASE ~z.lenient
    <3>1. Fail("request")
      BY <1>9, <2>2 DEF LearnFails
    <3>2. d = [c EXCEPT !.stage = "over", !.result = "error", !.why = "request"] /\ Audit(c, TRUE)
      BY <1>4, <1>5, <3>1 DEF Fail
    <3>3. Halts(c, d, "request") /\ Same(c, d) /\ d.others = c.others /\ d.asked = c.asked
      BY <1>6, <3>2
    <3> QED BY <2>1, <3>3 DEF Outcome, GivesUp
  <2>3. CASE z.lenient
    <3>1. /\ d = [c EXCEPT !.pc = i + 1,
                           !.seen = IF z.op = "read" THEN [c.seen EXCEPT ![z.obj] = "error"]
                                    ELSE c.seen]
          /\ trail' = trail
      BY <1>4, <1>5, <1>9, <2>3 DEF LearnFails
    <3>2. /\ Same(c, d) /\ d.others = c.others /\ Continues(c, d)
          /\ d.asked = c.asked /\ d.took = c.took
          /\ d.seen = IF z.op = "read" THEN [c.seen EXCEPT ![z.obj] = "error"] ELSE c.seen
      BY <1>4, <3>1 DEF Same, Continues, Calls
    <3>3. c.seen \in [Objects -> Views]
      BY DEF Calls
    <3>4. \A o \in Objects : \/ d.seen[o] = c.seen[o]
                             \/ z.op = "read" /\ z.obj = o /\ d.seen[o] \in {"error", store[o]}
      BY <2>1, <3>2, <3>3
    <3> QED BY <2>1, <3>2, <3>4 DEF Outcome, Learns
  <2> QED BY <2>2, <2>3
<1>10. CASE Carry(i, z)
  <2>1. /\ z.op = "write" /\ Taken(z) /\ store' = Changed(z) /\ trail' = trail
        /\ d = [c EXCEPT !.pc = i + 1, !.asked = c.asked \cup {z.obj}, !.took = c.took \cup {z.obj}]
    BY <1>4, <1>5, <1>10 DEF Carry
  <2>2. /\ Same(c, d) /\ d.others = c.others /\ Continues(c, d)
        /\ d.asked = c.asked \cup {z.obj} /\ d.took = c.took \cup {z.obj} /\ d.seen = c.seen
    BY <1>4, <2>1 DEF Same, Continues, Calls
  <2> QED BY <2>1, <2>2 DEF Outcome, Carries
<1>11. CASE CarryFails(i, z)
  <2>2. z.op = "write" /\ store' \in Left(z)
    BY <1>11 DEF CarryFails
  <2>3. CASE ~z.lenient
    <3>1. /\ d = [c EXCEPT !.stage = "over", !.result = "error", !.why = "request",
                           !.asked = c.asked \cup {z.obj}]
          /\ Audit(c, TRUE)
      BY <1>4, <1>5, <1>11, <2>3 DEF CarryFails
    <3>2. /\ Same(c, d) /\ d.others = c.others /\ Halts(c, d, "request")
          /\ d.asked = c.asked \cup {z.obj} /\ d.took = c.took /\ d.seen = c.seen
      BY <3>1 DEF Same, Halts, Calls
    <3> QED BY <2>2, <2>3, <3>2 DEF Outcome, Misses
  <2>4. CASE z.lenient
    <3>1. d = [c EXCEPT !.pc = i + 1, !.asked = c.asked \cup {z.obj}] /\ trail' = trail
      BY <1>4, <1>5, <1>11, <2>4 DEF CarryFails
    <3>2. /\ Same(c, d) /\ d.others = c.others /\ Continues(c, d)
          /\ d.asked = c.asked \cup {z.obj} /\ d.took = c.took /\ d.seen = c.seen
      BY <1>4, <3>1 DEF Same, Continues, Calls
    <3>3. Misses(c, d, z)
      BY <2>2, <2>4, <3>2 DEF Misses
    <3> QED BY <3>2, <3>3 DEF Outcome
  <2> QED BY <2>3, <2>4
<1>12. CASE Return(i, z)
  <2>1. /\ z.op = "answer" /\ store' = store
        /\ \/ /\ \E n \in 0 .. MaxChunks, b \in BOOLEAN : call' = Streamed(c, z, n, b)
              /\ trail' = trail
           \/ call' = Returned(c, z) /\ Audit(c, FALSE)
    BY <1>4, <1>12, ReturnCases
  <2>2. ASSUME NEW n, NEW b, d = Streamed(c, z, n, b), trail' = trail PROVE Outcome(c, d, z)
    <3>1. /\ Same(c, d) /\ d.others = c.others /\ d.stage = "streaming" /\ d.behind = z.behind
          /\ d.asked = c.asked /\ d.seen = c.seen /\ d.took = c.took
          /\ d.why = c.why /\ d.result = z.kind
      BY <2>2 DEF Streamed, Same, Calls
    <3> QED BY <2>1, <2>2, <3>1 DEF Outcome, Answers
  <2>3. CASE d = Returned(c, z) /\ Audit(c, FALSE)
    <3>1. /\ Same(c, d) /\ d.others = c.others /\ d.stage = "over" /\ d.behind = c.behind
          /\ d.asked = c.asked /\ d.seen = c.seen /\ d.took = c.took
          /\ d.why = c.why /\ d.result = z.kind
      BY <2>3 DEF Returned, Same, Calls
    <3> QED BY <2>1, <2>3, <3>1 DEF Outcome, Answers
  <2> QED BY <1>5, <2>1, <2>2, <2>3
<1> QED BY <1>1, <1>4, <1>7, <1>8, <1>9, <1>10, <1>11, <1>12

\* A stream changes nothing but the result of its call, when it breaks.
LEMMA Streams ==
  ASSUME CallInv,
         Relay \/ StreamEnds \/ Consume \/ \E how \in {"closed", "gone"} : StopReading(how)
  PROVE  \E c \in Calls : \E d :
            /\ c = call /\ c.stage = "streaming" /\ call' = d /\ Same(c, d) /\ d.others = c.others
            /\ store' = store /\ d.asked = c.asked /\ d.seen = c.seen /\ d.took = c.took
            /\ d.behind = c.behind
            /\ \/ /\ d.stage = "streaming" /\ d.result = c.result /\ d.why = c.why
                  /\ trail' = trail
               \/ /\ d.stage = "over" /\ c.behind = {} /\ c.broken \in BOOLEAN
                  /\ Audit(c, c.broken)
                  /\ d.result = IF c.broken THEN "error" ELSE c.result
                  /\ d.why = IF c.broken THEN "stream" ELSE c.why
<1>1. call.stage = "streaming" /\ store' = store
  BY DEF Relay, StreamEnds, Consume, StopReading
<1>2. PICK c \in Calls : c = call
  BY <1>1, RunningCall
<1>3. PICK d : d = call'
  OBVIOUS
<1> DEFINE Stayed == /\ Same(c, d) /\ d.others = c.others /\ d.behind = c.behind
                     /\ d.asked = c.asked /\ d.seen = c.seen /\ d.took = c.took
           Stays == /\ d.stage = "streaming" /\ d.result = c.result /\ d.why = c.why
                    /\ trail' = trail
           Ends == /\ d.stage = "over" /\ c.behind = {} /\ c.broken \in BOOLEAN
                   /\ Audit(c, c.broken)
                   /\ d.result = IF c.broken THEN "error" ELSE c.result
                   /\ d.why = IF c.broken THEN "stream" ELSE c.why
<1> SUFFICES Stayed /\ (Stays \/ Ends)
  BY <1>1, <1>2, <1>3
<1>4. CASE Relay
  <2>1. PICK l, k : d = [c EXCEPT !.left = l, !.queue = k]
    BY <1>2, <1>3, <1>4 DEF Relay
  <2>2. trail' = trail
    BY <1>4 DEF Relay
  <2> QED BY <1>1, <1>2, <2>1, <2>2 DEF Same, Calls
<1>5. CASE Consume
  <2>1. PICK k : d = [c EXCEPT !.queue = k]
    BY <1>2, <1>3, <1>5 DEF Consume
  <2>2. trail' = trail
    BY <1>5 DEF Consume
  <2> QED BY <1>1, <1>2, <2>1, <2>2 DEF Same, Calls
<1>6. CASE \E how \in {"closed", "gone"} : StopReading(how)
  <2>1. PICK r, k : d = [c EXCEPT !.reader = r, !.queue = k]
    BY <1>2, <1>3, <1>6 DEF StopReading
  <2>2. trail' = trail
    BY <1>6 DEF StopReading
  <2> QED BY <1>1, <1>2, <2>1, <2>2 DEF Same, Calls
<1>7. CASE StreamEnds
  <2>1. /\ d = [c EXCEPT !.stage = "over",
                         !.result = IF c.broken THEN "error" ELSE c.result,
                         !.why = IF c.broken THEN "stream" ELSE c.why]
        /\ c.behind = {} /\ Audit(c, c.broken)
    BY <1>2, <1>3, <1>7 DEF StreamEnds
  <2> QED BY <2>1 DEF Same, Calls
<1> QED BY <1>4, <1>5, <1>6, <1>7

\* The change behind a stream is made or not, and the stream goes on.
LEMMA Behinds ==
  ASSUME CallInv, CarryBehind
  PROVE  \E c \in Calls : \E d : \E s \in c.behind :
            /\ c = call /\ c.stage = "streaming" /\ Tidy(c) /\ Apt(c) /\ Gated(c)
            /\ store \in [Objects -> Contents]
            /\ c.result = "opened" /\ c.why = "none"
            /\ call' = d /\ Same(c, d) /\ d.others = c.others /\ trail' = trail
            /\ d.stage = "streaming" /\ d.result = c.result /\ d.why = c.why /\ d.behind = {}
            /\ d.seen = c.seen /\ d.asked = c.asked \cup {s.obj} /\ c.took \subseteq d.took
<1>1. PICK c \in Calls : /\ c = call /\ Tidy(c) /\ Apt(c) /\ Gated(c) /\ c.stage = "streaming"
                         /\ store \in [Objects -> Contents]
  BY RunningCall DEF CarryBehind
<1>2. PICK s \in c.behind : call' = Made(c, s) \/ call' = Unmade(c, s)
  BY <1>1, BehindCases
<1>3. PICK d : d = call'
  OBVIOUS
<1>4. /\ Same(c, d) /\ d.others = c.others
      /\ d.stage = "streaming" /\ d.result = c.result /\ d.why = c.why /\ d.behind = {}
      /\ d.seen = c.seen /\ d.asked = c.asked \cup {s.obj} /\ c.took \subseteq d.took
  <2>1. CASE d = Made(c, s)
    BY <1>1, <2>1 DEF Made, Same, Calls
  <2>2. CASE d = Unmade(c, s)
    BY <1>1, <2>2 DEF Unmade, Same, Calls
  <2> QED BY <1>2, <1>3, <2>1, <2>2
<1>5. c.result = "opened" /\ c.why = "none" /\ trail' = trail
  BY <1>1, <1>2 DEF Tidy, CarryBehind
<1> QED BY <1>1, <1>2, <1>3, <1>4, <1>5

\* What others do changes nothing of a running call but their number.
LEMMA Others ==
  ASSUME CallInv,
         \/ \E o \in Objects, v \in {"none", "guarded", "theirs"} : Elsewhere(o, v)
         \/ SweepStaleDirs
  PROVE  \E c \in Calls : \E d :
            /\ c = call /\ c.stage \in {"running", "streaming"} /\ call' = d /\ Same(c, d)
            /\ trail' = trail /\ d.others = c.others + 1 /\ d.stage = c.stage
            /\ d.result = c.result /\ d.why = c.why /\ d.behind = c.behind
            /\ d.asked = c.asked /\ d.seen = c.seen /\ d.took = c.took
<1>1. /\ call.stage \in {"running", "streaming"} /\ trail' = trail
      /\ call' = [call EXCEPT !.others = call.others + 1]
  BY InvOthers
<1>2. PICK c \in Calls : c = call
  BY <1>1, RunningCall
<1>3. PICK d : d = [c EXCEPT !.others = c.others + 1]
  OBVIOUS
<1>4. /\ Same(c, d) /\ d.others = c.others + 1 /\ d.stage = c.stage
      /\ d.result = c.result /\ d.why = c.why /\ d.behind = c.behind
      /\ d.asked = c.asked /\ d.seen = c.seen /\ d.took = c.took
  BY <1>3 DEF Same, Calls
<1> QED BY <1>1, <1>2, <1>3, <1>4

-----------------------------------------------------------------------------
(* The audit.                                                              *)

\* The answer of a stream is no error before the stream has broken.
AuditInv == AuditedOnce /\ (call.stage = "streaming" => call.result # "error")

\* There is nothing to audit at first.
LEMMA AuditInit == Init => AuditInv
BY DEF Init, AuditInv, AuditedOnce, Idle

\* A call that was not audited and ends is audited once.
LEMMA AuditEnd ==
  ASSUME NEW c, NEW d, NEW f \in BOOLEAN, call' = d, d.stage = "over", d.way = c.way,
         d.phase = c.phase, trail = <<>>, Audit(c, f), f <=> d.result = "error"
  PROVE  AuditInv'
<1>1. d.way.via # "bare" => trail' = <<Event(c, f)>>
  BY DEF Audit
<1>2. Event(c, f) = Event(d, d.result = "error")
  BY DEF Event
<1> QED BY <1>1, <1>2 DEF AuditInv, AuditedOnce

\* Every step keeps the audit right.
LEMMA AuditNext ==
  ASSUME FormedTools, CallInv, AuditInv, [Next]_vars
  PROVE  AuditInv'
<1>1. CASE UNCHANGED vars
  BY <1>1 DEF vars, AuditInv, AuditedOnce, Event
<1>2. ASSUME NEW t \in Tools, NEW b \in Before(t), NEW p \in Sound(t) \cup Flawed(t),
             NEW w \in Ways, Begin(t, p, w, b)
      PROVE  AuditInv'
  <2>1. \/ call'.stage = "running" /\ trail' = <<>>
        \/ call'.stage = "over" /\ call'.result = "error" /\ trail' = <<Event(call', TRUE)>>
    BY <1>2, InvBegin
  <2> QED BY <2>1 DEF AuditInv, AuditedOnce
<1>3. CASE Advance
  <2>1. PICK c \in Calls, z \in Step : \E q, d : \E i \in Ahead(call) :
            AtStep(c, z, q, i) /\ call' = d /\ Outcome(c, d, z)
    BY <1>3, Advances
  <2>2. PICK q, d : \E i \in Ahead(call) : AtStep(c, z, q, i) /\ call' = d /\ Outcome(c, d, z)
    BY <2>1
  <2>3. c = call /\ c.stage = "running" /\ call' = d /\ Outcome(c, d, z)
    BY <2>2 DEF AtStep
  <2>4. trail = <<>>
    BY <2>3 DEF AuditInv, AuditedOnce
  <2>5. Same(c, d)
    BY <2>3 DEF Outcome
  <2>6. ASSUME NEW y, Halts(c, d, y) PROVE AuditInv'
    <3>1. d.stage = "over" /\ d.result = "error" /\ Audit(c, TRUE)
      BY <2>6 DEF Halts
    <3> QED BY <2>3, <2>4, <2>5, <3>1, AuditEnd DEF Same
  <2>7. ASSUME Continues(c, d) PROVE AuditInv'
    BY <2>3, <2>4, <2>7 DEF Continues, AuditInv, AuditedOnce
  <2>8. CASE Answers(c, d, z)
    <3>1. d.result # "error"
      BY <2>8, StepType DEF Answers
    <3>2. CASE d.stage = "streaming" /\ trail' = trail
      BY <2>3, <2>4, <3>1, <3>2 DEF AuditInv, AuditedOnce
    <3>3. CASE d.stage = "over" /\ Audit(c, FALSE)
      BY <2>3, <2>4, <2>5, <3>1, <3>3, AuditEnd DEF Same
    <3> QED BY <2>8, <3>2, <3>3 DEF Answers
  <2> QED BY <2>3, <2>6, <2>7, <2>8 DEF Outcome, Refused, GivesUp, Learns, Carries, Misses
<1>4. CASE Relay \/ StreamEnds \/ Consume \/ \E how \in {"closed", "gone"} : StopReading(how)
  <2>0. PICK c \in Calls : c = call
    BY <1>4, Streams
  <2>1. PICK d :
            /\ c = call /\ c.stage = "streaming" /\ call' = d /\ Same(c, d)
            /\ \/ /\ d.stage = "streaming" /\ d.result = c.result
                  /\ trail' = trail
               \/ /\ d.stage = "over" /\ c.broken \in BOOLEAN /\ Audit(c, c.broken)
                  /\ d.result = IF c.broken THEN "error" ELSE c.result
    BY <1>4, <2>0, Streams
  <2>2. trail = <<>> /\ c.result # "error"
    BY <2>1 DEF AuditInv, AuditedOnce
  <2>3. CASE d.stage = "streaming" /\ d.result = c.result /\ trail' = trail
    BY <2>1, <2>2, <2>3 DEF AuditInv, AuditedOnce
  <2>4. CASE /\ d.stage = "over" /\ c.broken \in BOOLEAN /\ Audit(c, c.broken)
             /\ d.result = IF c.broken THEN "error" ELSE c.result
    <3>1. c.broken <=> d.result = "error"
      BY <2>2, <2>4
    <3> QED BY <2>1, <2>2, <2>4, <3>1, AuditEnd DEF Same
  <2> QED BY <2>1, <2>3, <2>4
<1>5. CASE \/ \E o \in Objects, v \in {"none", "guarded", "theirs"} : Elsewhere(o, v)
           \/ SweepStaleDirs
  <2>1. /\ call.stage \in {"running", "streaming"} /\ call'.stage = call.stage
        /\ call'.result = call.result /\ trail' = trail
    BY <1>5, Others
  <2> QED BY <2>1 DEF AuditInv, AuditedOnce
<1>6. CASE Forget
  BY <1>6 DEF Forget, Idle, AuditInv, AuditedOnce
<1>7. CASE CarryBehind
  <2>1. /\ call.stage = "streaming" /\ call'.stage = "streaming"
        /\ call'.result = call.result /\ trail' = trail
    BY <1>7, Behinds
  <2> QED BY <2>1 DEF AuditInv, AuditedOnce
<1> QED BY <1>1, <1>2, <1>3, <1>4, <1>5, <1>6, <1>7, NextCases

\* A call leaves one event with the sink, whatever way it takes to its end: through a
\* refusal, an early return, a failed request, an answer, or a stream that ends or breaks.
THEOREM OneEventPerCall ==
  ASSUME FormedTools
  PROVE  Spec => []AuditedOnce
<1>1. CallInv /\ AuditInv /\ [Next]_vars => AuditInv'
  BY AuditNext
<1>2. AuditInv => AuditedOnce
  BY DEF AuditInv
<1> QED BY <1>1, <1>2, AuditInit, CallInvariant, PTL DEF Spec

-----------------------------------------------------------------------------
(* The changes a call asks for.                                            *)

\* What is known of a call and its program when it is at step i.
LEMMA StepFacts ==
  ASSUME FormedTools, NEW c \in Calls, NEW z, NEW q, NEW i, AtStep(c, z, q, i)
  PROVE  /\ c.tool \in Tools /\ c.p \in Args(c.tool) /\ c.seen \in ViewsOf(c.tool)
         /\ q = ProgramOf(c.tool, c.p, c.seen) /\ i \in At(q, c.seen) /\ z = q[i]
         /\ z.op = "check" => ~z.ok
         /\ c.asked = {q[j].obj : j \in Changes(q, i)} /\ c.behind = {}
         /\ \A j \in Changes(q, i) : ~q[j].lenient => q[j].obj \in c.took
         /\ c.result = "none" /\ c.why = "none"
<1>1. /\ Apt(c) /\ q = ProgramAt(c) /\ Done(c, q) /\ i \in Ahead(c) /\ z = q[i]
      /\ c.stage = "running" /\ Tidy(c)
  BY DEF AtStep
<1>2. /\ i \in At(q, c.seen) /\ Changes(q, i) = Changes(q, c.pc)
      /\ q[i].op = "check" => ~q[i].ok
  BY <1>1, NextStep
<1>3. c.tool \in Tools /\ c.p \in Args(c.tool) /\ c.seen \in ViewsOf(c.tool)
  BY <1>1 DEF Apt, Calls
<1>4. /\ c.asked = {q[j].obj : j \in Changes(q, c.pc)}
      /\ \A j \in Changes(q, c.pc) : ~q[j].lenient => q[j].obj \in c.took
      /\ c.result = "none" /\ c.why = "none"
  BY <1>1, Zenon DEF Done
<1>5. q = ProgramOf(c.tool, c.p, c.seen)
  BY <1>1 DEF ProgramAt
<1>6. c.behind = {}
  BY <1>1 DEF Tidy
<1> QED BY <1>1, <1>2, <1>3, <1>4, <1>5, <1>6

\* A call asks for a change, or leaves one behind its answer.
Changing(z) == z.op = "write" \/ (z.op = "answer" /\ z.behind # {})
Meant(c) == c.asked # {} \/ c.behind # {}

\* The situation of a call that does.
LEMMA ClearedStep ==
  ASSUME FormedTools, ClearedTools, NEW c \in Calls, NEW z, NEW q, NEW i, AtStep(c, z, q, i),
         Changing(z)
  PROVE  /\ ~c.p.dryRun
         /\ c.tool \notin DirectTools => c.p.confirmed /\ c.p.granted
         /\ c.p.scope # "closed"
<1>1. /\ c.tool \in Tools /\ c.p \in Args(c.tool) /\ c.seen \in ViewsOf(c.tool)
      /\ q = ProgramOf(c.tool, c.p, c.seen) /\ i \in At(q, c.seen) /\ z = q[i]
  BY StepFacts
<1>2. Cleared(c.tool, c.p, c.seen)
  BY <1>1, Zenon DEF ClearedTools
<1>3. q[i].op = "write" \/ (q[i].op = "answer" /\ q[i].behind # {}) =>
         /\ ~c.p.dryRun
         /\ c.tool \notin DirectTools => c.p.confirmed /\ c.p.granted
         /\ c.p.scope # "closed"
  BY <1>1, <1>2, Zenon DEF Cleared
<1> QED BY <1>1, <1>3 DEF Changing

\* The steps after which a call has asked for a change, or is to.
LEMMA Asks ==
  ASSUME NEW c, NEW d, NEW z, Outcome(c, d, z), Meant(d)
  PROVE  Meant(c) \/ Changing(z)
BY DEF Outcome, Refused, GivesUp, Learns, Carries, Misses, Answers, Halts, Continues,
       Meant, Changing

\* What stands behind a change: no dry run, no policy of the middleware, and for most tools
\* a confirmation and an authorisation.
Authorized(c) ==
  /\ ~c.p.dryRun
  /\ c.way.via = "middleware" => c.way.policy
  /\ c.tool \notin DirectTools =>
       /\ c.p.confirmed
       /\ c.way.via # "bare"
       /\ c.way.model \/ c.way.host = "yes"
       /\ c.way.via = "middleware" => c.phase = "execute"
AuthInv == call.stage # "idle" /\ Meant(call) => Authorized(call)

\* It does not change with the state of the call.
LEMMA SameAuthorized ==
  ASSUME NEW c, NEW d, Same(c, d)
  PROVE  Authorized(c) => Authorized(d)
BY DEF Same, Authorized

\* Every step keeps changes authorised: the handler's own checks have been passed at the
\* first change, and the authorisation they look at comes from the gate.
LEMMA AuthNext ==
  ASSUME FormedTools, ClearedTools, CallInv, AuthInv, [Next]_vars
  PROVE  AuthInv'
<1>1. CASE UNCHANGED vars
  <2>1. call' = call
    BY <1>1 DEF vars
  <2> QED BY <2>1 DEF AuthInv
<1>2. ASSUME NEW t \in Tools, NEW b \in Before(t), NEW p \in Sound(t) \cup Flawed(t),
             NEW w \in Ways, Begin(t, p, w, b)
      PROVE  AuthInv'
  <2>1. call'.asked = {} /\ call'.behind = {}
    BY <1>2, InvBegin
  <2> QED BY <2>1 DEF AuthInv, Meant
<1>3. CASE Advance
  <2>1. PICK c \in Calls, z \in Step : \E q, d : \E i \in Ahead(call) :
            AtStep(c, z, q, i) /\ call' = d /\ Outcome(c, d, z)
    BY <1>3, Advances
  <2>2. PICK q, d : \E i \in Ahead(call) : AtStep(c, z, q, i) /\ call' = d /\ Outcome(c, d, z)
    BY <2>1
  <2>3. PICK i \in Ahead(call) : AtStep(c, z, q, i) /\ call' = d /\ Outcome(c, d, z)
    BY <2>2
  <2>4. c = call /\ c.stage = "running" /\ Gated(c) /\ Same(c, d)
    BY <2>3 DEF AtStep, Outcome
  <2>5. CASE Meant(c)
    BY <2>3, <2>4, <2>5, SameAuthorized DEF AuthInv
  <2>6. CASE Changing(z)
    <3>1. ~c.p.dryRun /\ (c.tool \notin DirectTools => c.p.confirmed /\ c.p.granted)
      BY <2>3, <2>6, ClearedStep
    <3>2. Authorized(c)
      BY <2>4, <3>1 DEF Gated, Authorized
    <3> QED BY <2>3, <2>4, <3>2, SameAuthorized DEF AuthInv
  <2>7. CASE ~Meant(d)
    BY <2>3, <2>7 DEF AuthInv
  <2> QED BY <2>3, <2>5, <2>6, <2>7, Asks
<1>4. CASE Relay \/ StreamEnds \/ Consume \/ \E how \in {"closed", "gone"} : StopReading(how)
  <2>1. PICK c \in Calls : \E d : /\ c = call /\ c.stage = "streaming" /\ call' = d /\ Same(c, d)
                                  /\ d.asked = c.asked /\ d.behind = c.behind
    BY <1>4, Streams
  <2> QED BY <2>1, SameAuthorized DEF AuthInv, Meant
<1>5. CASE \/ \E o \in Objects, v \in {"none", "guarded", "theirs"} : Elsewhere(o, v)
           \/ SweepStaleDirs
  <2>1. PICK c \in Calls : \E d : /\ c = call /\ c.stage # "idle" /\ call' = d /\ Same(c, d)
                                  /\ d.asked = c.asked /\ d.behind = c.behind
    BY <1>5, Others
  <2> QED BY <2>1, SameAuthorized DEF AuthInv, Meant
<1>6. CASE Forget
  <2>1. call'.stage = "idle"
    BY <1>6 DEF Forget, Idle
  <2> QED BY <2>1 DEF AuthInv
<1>7. CASE CarryBehind
  <2>1. PICK c \in Calls : \E d : /\ c = call /\ c.stage = "streaming" /\ call' = d /\ Same(c, d)
                                  /\ c.behind # {}
    BY <1>7, Behinds
  <2> QED BY <2>1, SameAuthorized DEF AuthInv, Meant
<1> QED BY <1>1, <1>2, <1>3, <1>4, <1>5, <1>6, <1>7, NextCases

\* A change is asked for only by a call that is no dry run, and, but for the direct tools, is
\* confirmed and authorised, whichever way the tool was reached and also behind a stream: the
\* gate and the handler together, for any such toolbox.  That no policy has denied the call
\* is certain only behind the middleware: a pipeline asks none.
THEOREM ChangesAreAuthorized ==
  ASSUME FormedTools, ClearedTools
  PROVE  Spec => []OnlyAuthorizedChanges
<1>1. CallInv /\ AuthInv /\ [Next]_vars => AuthInv'
  BY AuthNext
<1>2. Init => AuthInv
  BY DEF Init, AuthInv, Idle
<1>3. AuthInv => OnlyAuthorizedChanges
  BY DEF AuthInv, Authorized, Meant, OnlyAuthorizedChanges, Wrote, Busy
<1> QED BY <1>1, <1>2, <1>3, CallInvariant, PTL DEF Spec

\* What a call is refused for after its first change.
LEMMA LateStep ==
  ASSUME FormedTools, LateTools, NEW c \in Calls, NEW z, NEW q, NEW i, AtStep(c, z, q, i),
         z.op = "check", c.asked # {}
  PROVE  \/ z.why \in LateChecks
         \/ c.asked = {"parents"} /\ z.why \notin {"gate", "confirmation"}
<1>1. /\ c.tool \in Tools /\ c.p \in Args(c.tool) /\ c.seen \in ViewsOf(c.tool)
      /\ q = ProgramOf(c.tool, c.p, c.seen) /\ i \in At(q, c.seen) /\ z = q[i] /\ ~z.ok
      /\ c.asked = {q[j].obj : j \in Changes(q, i)}
  BY StepFacts
<1>2. Changes(q, i) # {}
  BY <1>1
<1>3. Late(c.tool, c.p, c.seen)
  BY <1>1, Zenon DEF LateTools
<1>4. q[i].op = "check" /\ ~q[i].ok /\ Changes(q, i) # {} =>
         \/ q[i].why \in LateChecks
         \/ /\ q[i].why \notin {"gate", "confirmation"}
            /\ \A j \in Changes(q, i) : q[j].obj = "parents"
  BY <1>1, <1>3, Zenon DEF Late
<1>5. (\A j \in Changes(q, i) : q[j].obj = "parents") => c.asked = {"parents"}
  BY <1>1, <1>2
<1> QED BY <1>1, <1>2, <1>4, <1>5

\* What a call may have ended for that has asked for changes.
Harmless(c) ==
  c.asked # {} => \/ c.why \in {"none", "request", "stream"} \cup LateChecks
                  \/ c.asked = {"parents"} /\ c.why \notin {"gate", "confirmation"}
RefuseInv ==
  call.stage # "idle" => /\ Meant(call) => call.p.scope # "closed"
                         /\ Harmless(call)

\* Every step keeps refusals before changes.
LEMMA RefusedNext ==
  ASSUME FormedTools, ClearedTools, LateTools, CallInv, RefuseInv, [Next]_vars
  PROVE  RefuseInv'
<1>1. CASE UNCHANGED vars
  <2>1. call' = call
    BY <1>1 DEF vars
  <2> QED BY <2>1 DEF RefuseInv
<1>2. ASSUME NEW t \in Tools, NEW b \in Before(t), NEW p \in Sound(t) \cup Flawed(t),
             NEW w \in Ways, Begin(t, p, w, b)
      PROVE  RefuseInv'
  <2>1. call'.asked = {} /\ call'.behind = {}
    BY <1>2, InvBegin
  <2> QED BY <2>1 DEF RefuseInv, Meant, Harmless
<1>3. CASE Advance
  <2>1. PICK c \in Calls, z \in Step : \E q, d : \E i \in Ahead(call) :
            AtStep(c, z, q, i) /\ call' = d /\ Outcome(c, d, z)
    BY <1>3, Advances
  <2>2. PICK q, d : \E i \in Ahead(call) : AtStep(c, z, q, i) /\ call' = d /\ Outcome(c, d, z)
    BY <2>1
  <2>3. PICK i \in Ahead(call) : AtStep(c, z, q, i) /\ call' = d /\ Outcome(c, d, z)
    BY <2>2
  <2>4. c = call /\ c.stage = "running" /\ d.p = c.p /\ c.why = "none"
    BY <2>3, StepFacts DEF AtStep, Outcome, Same
  <2>5. Meant(d) => d.p.scope # "closed"
    <3>1. Meant(c) => c.p.scope # "closed"
      BY <2>4 DEF RefuseInv
    <3>2. Changing(z) => c.p.scope # "closed"
      BY <2>3, ClearedStep
    <3> QED BY <2>3, <2>4, <3>1, <3>2, Asks
  <2>6. Harmless(d)
    <3>1. CASE Refused(c, d, z)
      <4>1. z.op = "check" /\ d.asked = c.asked /\ d.why = z.why
        BY <3>1 DEF Refused, Halts
      <4> QED BY <2>3, <4>1, LateStep DEF Harmless
    <3>2. ASSUME Halts(c, d, "request") PROVE Harmless(d)
      BY <3>2 DEF Halts, Harmless
    <3>3. ASSUME Continues(c, d) \/ Answers(c, d, z) PROVE Harmless(d)
      BY <2>4, <3>3 DEF Continues, Answers, Harmless
    <3> QED BY <2>3, <3>1, <3>2, <3>3 DEF Outcome, GivesUp, Learns, Carries, Misses
  <2> QED BY <2>3, <2>5, <2>6 DEF RefuseInv
<1>4. CASE Relay \/ StreamEnds \/ Consume \/ \E how \in {"closed", "gone"} : StopReading(how)
  <2>1. PICK c \in Calls : \E d :
            /\ c = call /\ c.stage = "streaming" /\ call' = d /\ Same(c, d)
            /\ d.asked = c.asked /\ d.behind = c.behind /\ d.why \in {c.why, "stream"}
    BY <1>4, Streams
  <2> QED BY <2>1 DEF RefuseInv, Meant, Harmless, Same
<1>5. CASE \/ \E o \in Objects, v \in {"none", "guarded", "theirs"} : Elsewhere(o, v)
           \/ SweepStaleDirs
  <2>1. PICK c \in Calls : \E d :
            /\ c = call /\ c.stage # "idle" /\ call' = d /\ Same(c, d)
            /\ d.asked = c.asked /\ d.behind = c.behind /\ d.why = c.why
    BY <1>5, Others
  <2> QED BY <2>1 DEF RefuseInv, Meant, Harmless, Same
<1>6. CASE Forget
  <2>1. call'.stage = "idle"
    BY <1>6 DEF Forget, Idle
  <2> QED BY <2>1 DEF RefuseInv
<1>7. CASE CarryBehind
  <2>1. PICK c \in Calls : \E d :
            /\ c = call /\ c.stage = "streaming" /\ call' = d /\ Same(c, d)
            /\ c.behind # {} /\ d.why = c.why /\ c.why = "none"
    BY <1>7, Behinds
  <2> QED BY <2>1 DEF RefuseInv, Meant, Harmless, Same
<1> QED BY <1>1, <1>2, <1>3, <1>4, <1>5, <1>6, <1>7, NextCases

\* No tool has begun to change anything but the directories above a path when it finds its
\* arguments wrong, its place forbidden or its target protected, and not even these when it
\* misses its confirmation.
THEOREM RefusalsComeFirst ==
  ASSUME FormedTools, ClearedTools, LateTools
  PROVE  Spec => []RefusedCallsChangeNothing
<1>1. CallInv /\ RefuseInv /\ [Next]_vars => RefuseInv'
  BY RefusedNext
<1>2. Init => RefuseInv
  BY DEF Init, RefuseInv, Idle
<1>3. RefuseInv => RefusedCallsChangeNothing
  BY DEF RefuseInv, RefusedCallsChangeNothing, Wrote, Busy, Meant, Harmless
<1> QED BY <1>1, <1>2, <1>3, CallInvariant, PTL DEF Spec

-----------------------------------------------------------------------------
(* The answer.                                                             *)

\* What a call has done when it answers.
LEMMA TruthfulStep ==
  ASSUME FormedTools, TruthfulTools, NEW c \in Calls, NEW z, NEW q, NEW i, AtStep(c, z, q, i),
         z.op = "answer"
  PROVE  /\ z.kind = "done" => \/ c.took \ {"parents"} # {}
                               \/ c.tool \in RehearsingTools /\ c.p.dryRun
         /\ z.kind \in {"preview", "data"} => c.asked = {}
<1>1. /\ c.tool \in Tools /\ c.p \in Args(c.tool) /\ c.seen \in ViewsOf(c.tool)
      /\ q = ProgramOf(c.tool, c.p, c.seen) /\ i \in At(q, c.seen) /\ z = q[i]
      /\ c.asked = {q[j].obj : j \in Changes(q, i)}
      /\ \A j \in Changes(q, i) : ~q[j].lenient => q[j].obj \in c.took
  BY StepFacts
<1>2. Truthful(c.tool, c.p, c.seen)
  BY <1>1, Zenon DEF TruthfulTools
<1>3. /\ q[i].kind = "done" => \/ \E j \in Changes(q, i) : ~q[j].lenient /\ q[j].obj # "parents"
                               \/ c.tool \in RehearsingTools /\ c.p.dryRun
      /\ q[i].kind \in {"preview", "data"} => Changes(q, i) = {}
  BY <1>1, <1>2, Zenon DEF Truthful
<1> QED BY <1>1, <1>3

\* What the result of a call says is so.
Honest(c) ==
  /\ c.result = "done" => \/ c.took \ {"parents"} # {}
                          \/ c.tool \in RehearsingTools /\ c.p.dryRun
  /\ c.result \in {"preview", "data"} => c.asked = {}

\* Every step keeps answers true: behind the answer of a stream no change is made but where
\* it says nothing of changes.
LEMMA AnswerNext ==
  ASSUME FormedTools, TruthfulTools, CallInv, AnswersAreTrue, [Next]_vars
  PROVE  AnswersAreTrue'
<1>0. /\ AnswersAreTrue <=> (call.stage \in {"streaming", "over"} => Honest(call))
      /\ AnswersAreTrue' <=> (call'.stage \in {"streaming", "over"} => Honest(call'))
  BY DEF AnswersAreTrue, Honest
<1>1. CASE UNCHANGED vars
  <2>1. call' = call
    BY <1>1 DEF vars
  <2> QED BY <1>0, <2>1
<1>2. ASSUME NEW t \in Tools, NEW b \in Before(t), NEW p \in Sound(t) \cup Flawed(t),
             NEW w \in Ways, Begin(t, p, w, b)
      PROVE  AnswersAreTrue'
  <2>1. call'.stage = "running" \/ call'.result = "error"
    BY <1>2, InvBegin
  <2> QED BY <1>0, <2>1 DEF Honest
<1>3. CASE Advance
  <2>1. PICK c \in Calls, z \in Step : \E q, d : \E i \in Ahead(call) :
            AtStep(c, z, q, i) /\ call' = d /\ Outcome(c, d, z)
    BY <1>3, Advances
  <2>2. PICK q, d : \E i \in Ahead(call) : AtStep(c, z, q, i) /\ call' = d /\ Outcome(c, d, z)
    BY <2>1
  <2>3. PICK i \in Ahead(call) : AtStep(c, z, q, i) /\ call' = d /\ Outcome(c, d, z)
    BY <2>2
  <2>4. \/ d.stage = "running" \/ d.result = "error" \/ Answers(c, d, z)
    BY <2>3 DEF Outcome, Refused, GivesUp, Learns, Carries, Misses, Halts, Continues
  <2>5. CASE Answers(c, d, z)
    <3>1. /\ z.kind = "done" => \/ c.took \ {"parents"} # {}
                                \/ c.tool \in RehearsingTools /\ c.p.dryRun
          /\ z.kind \in {"preview", "data"} => c.asked = {}
      BY <2>3, <2>5, TruthfulStep DEF Answers
    <3>2. d.tool = c.tool /\ d.p = c.p /\ d.took = c.took /\ d.asked = c.asked /\ d.result = z.kind
      BY <2>3, <2>5 DEF Outcome, Same, Answers
    <3> QED BY <1>0, <2>3, <3>1, <3>2 DEF Honest
  <2> QED BY <1>0, <2>3, <2>4, <2>5 DEF Honest
<1>4. CASE Relay \/ StreamEnds \/ Consume \/ \E how \in {"closed", "gone"} : StopReading(how)
  <2>1. PICK c \in Calls : \E d :
            /\ c = call /\ c.stage = "streaming" /\ call' = d /\ Same(c, d)
            /\ d.asked = c.asked /\ d.took = c.took /\ d.result \in {c.result, "error"}
    BY <1>4, Streams
  <2> QED BY <1>0, <2>1 DEF Honest, Same
<1>5. CASE \/ \E o \in Objects, v \in {"none", "guarded", "theirs"} : Elsewhere(o, v)
           \/ SweepStaleDirs
  <2>1. PICK c \in Calls : \E d :
            /\ c = call /\ call' = d /\ Same(c, d) /\ d.stage = c.stage
            /\ d.asked = c.asked /\ d.took = c.took /\ d.result = c.result
    BY <1>5, Others
  <2> QED BY <1>0, <2>1 DEF Honest, Same
<1>6. CASE Forget
  <2>1. call'.stage = "idle"
    BY <1>6 DEF Forget, Idle
  <2> QED BY <1>0, <2>1
<1>7. CASE CarryBehind
  <2>1. call'.result = "opened"
    BY <1>7, Behinds
  <2> QED BY <1>0, <2>1 DEF Honest
<1> QED BY <1>1, <1>2, <1>3, <1>4, <1>5, <1>6, <1>7, NextCases

\* "done" is answered only after a change that was carried out, other than of the
\* directories above a path; a preview or data only when none was asked for.
THEOREM AnswersTellWhatWasDone ==
  ASSUME FormedTools, TruthfulTools
  PROVE  Spec => []AnswersAreTrue
<1>1. CallInv /\ AnswersAreTrue /\ [Next]_vars => AnswersAreTrue'
  BY AnswerNext
<1>2. Init => AnswersAreTrue
  BY DEF Init, AnswersAreTrue, Idle
<1> QED BY <1>1, <1>2, CallInvariant, PTL DEF Spec

-----------------------------------------------------------------------------
(* Moves.                                                                  *)

\* The objects a change does not touch, and what it makes of the one it names.
LEMMA ChangeKeeps ==
  ASSUME store \in [Objects -> Contents], NEW z, z.obj \in Objects, NEW x \in Left(z) \cup {Changed(z)}
  PROVE  /\ \A o \in Objects \ z.from : o # z.obj => x[o] = store[o]
         /\ Changed(z)[z.obj] = z.val
         /\ x[z.obj] = z.val \/ \A o \in Objects : o # z.obj => x[o] = store[o]
<1>1. /\ Changed(z)[z.obj] = z.val
      /\ \A o \in Objects \ z.from : o # z.obj => Changed(z)[o] = store[o]
  BY DEF Changed
<1>2. x = store \/ x = Changed(z) \/ \E y : x = [store EXCEPT ![z.obj] = y]
  BY DEF Left
<1> QED BY <1>1, <1>2

\* The steps of a move: the directories and the new object first, and nothing behind its
\* answer.
LEMMA CarefulStep ==
  ASSUME FormedTools, CarefulTools, NEW c \in Calls, NEW z, NEW q, NEW i, AtStep(c, z, q, i),
         c.tool \in MoveTools
  PROVE  /\ z.op = "write" =>
               \/ /\ z.obj = "parents" /\ z.from = {} /\ "copy" \notin c.asked
               \/ /\ z.obj = "copy" /\ "copy" \notin c.asked /\ ~z.lenient
                  /\ z.val = "ours" \/ (z.val = "pruned" /\ c.p.mode \in PrunedModes)
               \/ /\ z.obj \notin {"parents", "copy"} /\ "copy" \in c.asked /\ z.from = {}
         /\ z.op = "answer" => z.behind = {}
<1>1. /\ c.tool \in Tools /\ c.p \in Args(c.tool) /\ c.seen \in ViewsOf(c.tool)
      /\ q = ProgramOf(c.tool, c.p, c.seen) /\ i \in At(q, c.seen) /\ z = q[i]
      /\ c.asked = {q[j].obj : j \in Changes(q, i)}
  BY StepFacts
<1>2. Careful(c.tool, c.p, c.seen)
  BY <1>1, Zenon DEF CarefulTools
<1>3. Copied(q, i) <=> "copy" \in c.asked
  BY <1>1 DEF Copied
<1>4. /\ q[i].op = "write" =>
            CASE q[i].obj = "parents" -> q[i].from = {} /\ ~Copied(q, i)
              [] q[i].obj = "copy" ->
                    /\ ~Copied(q, i) /\ ~q[i].lenient
                    /\ \/ q[i].val = "ours"
                       \/ /\ q[i].val = "pruned" /\ c.p.mode \in PrunedModes
                          /\ q[i].from = {}
              [] OTHER -> Copied(q, i) /\ q[i].from = {}
      /\ q[i].op = "answer" => q[i].behind = {}
  BY <1>1, <1>2, Zenon DEF Careful
<1> QED BY <1>1, <1>3, <1>4

\* While nobody else interferes: before the copy the object is at its old place, and after it
\* a move that goes on has its copy, as whole as it makes one.  One that has ended has one of
\* the two.
Whole(c, s) == s["copy"] = "ours" \/ (s["copy"] = "pruned" /\ c.p.mode \in PrunedModes)
Moved(c, s) ==
  c.tool \in MoveTools /\ c.others = 0 =>
     IF c.stage # "running" THEN s["target"] = c.found["target"] \/ Whole(c, s)
     ELSE IF "copy" \in c.asked THEN Whole(c, s)
     ELSE s["target"] = c.found["target"]
MoveInv == call.stage # "idle" => /\ Moved(call, store)
                                  /\ call.tool \in MoveTools => call.behind = {}

\* A change of a move keeps it so.
LEMMA MoveChanges ==
  ASSUME FormedTools, CarefulTools, store \in [Objects -> Contents],
         NEW c \in Calls, NEW z \in Step, NEW q, NEW i, AtStep(c, z, q, i),
         NEW d, Outcome(c, d, z), z.op = "write", Moved(c, store)
  PROVE  Moved(d, store')
<1> SUFFICES ASSUME d.tool \in MoveTools, d.others = 0 PROVE Moved(d, store')
  BY DEF Moved
<1>1. /\ c.stage = "running" /\ c.tool \in MoveTools /\ c.others = 0
      /\ d.found = c.found /\ d.p = c.p
  BY DEF AtStep, Outcome, Same
<1>2. /\ Carries(c, d, z) \/ Misses(c, d, z)
      /\ d.asked = c.asked \cup {z.obj}
  BY DEF Outcome, Refused, GivesUp, Learns, Carries, Misses, Answers
<1>3. "target" \in Objects /\ "copy" \in Objects /\ "parents" \in Objects /\ z.obj \in Objects
  BY StepType DEF Objects
<1>4. PICK s : s = store'
  OBVIOUS
<1>5. s \in Left(z) \cup {Changed(z)}
  BY <1>2, <1>4 DEF Carries, Misses
<1>6. /\ \A o \in Objects \ z.from : o # z.obj => s[o] = store[o]
      /\ Changed(z)[z.obj] = z.val
      /\ s[z.obj] = z.val \/ \A o \in Objects : o # z.obj => s[o] = store[o]
  BY <1>3, <1>5, ChangeKeeps
<1>7. CASE z.obj = "parents" /\ z.from = {} /\ "copy" \notin c.asked
  <2>1. s["target"] = c.found["target"] /\ "copy" \notin d.asked
    BY <1>1, <1>2, <1>3, <1>6, <1>7 DEF Moved
  <2> QED BY <1>1, <1>4, <2>1 DEF Moved
<1>8. CASE /\ z.obj = "copy" /\ "copy" \notin c.asked /\ ~z.lenient
           /\ z.val = "ours" \/ (z.val = "pruned" /\ c.p.mode \in PrunedModes)
  <2>1. store["target"] = c.found["target"] /\ "copy" \in d.asked
    BY <1>1, <1>2, <1>8 DEF Moved
  <2>2. CASE Carries(c, d, z)
    <3>1. Whole(d, s)
      BY <1>1, <1>4, <1>6, <1>8, <2>2 DEF Carries, Whole
    <3> QED BY <1>4, <2>1, <3>1 DEF Moved
  <2>3. CASE Misses(c, d, z)
    <3>1. d.stage = "over"
      BY <1>8, <2>3 DEF Misses, Halts
    <3>2. Whole(d, s) \/ s["target"] = d.found["target"]
      BY <1>1, <1>3, <1>6, <1>8, <2>1 DEF Whole
    <3> QED BY <1>4, <3>1, <3>2 DEF Moved
  <2> QED BY <1>2, <2>2, <2>3
<1>9. CASE z.obj \notin {"parents", "copy"} /\ "copy" \in c.asked /\ z.from = {}
  <2>1. Whole(d, s) /\ "copy" \in d.asked
    BY <1>1, <1>2, <1>3, <1>6, <1>9 DEF Moved, Whole
  <2> QED BY <1>4, <2>1 DEF Moved
<1> QED BY <1>1, <1>7, <1>8, <1>9, CarefulStep

\* Every step of a move keeps the object.
LEMMA MoveNext ==
  ASSUME FormedTools, CarefulTools, CallInv, MoveInv, [Next]_vars
  PROVE  MoveInv'
<1>1. CASE UNCHANGED vars
  BY <1>1 DEF vars, MoveInv, Moved, Whole
<1>2. ASSUME NEW t \in Tools, NEW b \in Before(t), NEW p \in Sound(t) \cup Flawed(t),
             NEW w \in Ways, Begin(t, p, w, b)
      PROVE  MoveInv'
  <2>1. call'.asked = {} /\ call'.found = store' /\ call'.behind = {}
    BY <1>2, InvBegin
  <2>2. "copy" \notin call'.asked /\ store'["target"] = call'.found["target"]
    BY <2>1
  <2> QED BY <2>1, <2>2 DEF MoveInv, Moved
<1>3. CASE Advance
  <2>1. PICK c \in Calls, z \in Step : \E q, d : \E i \in Ahead(call) :
            AtStep(c, z, q, i) /\ call' = d /\ Outcome(c, d, z)
    BY <1>3, Advances
  <2>2. PICK q, d : \E i \in Ahead(call) : AtStep(c, z, q, i) /\ call' = d /\ Outcome(c, d, z)
    BY <2>1
  <2>3. PICK i \in Ahead(call) : AtStep(c, z, q, i) /\ call' = d /\ Outcome(c, d, z)
    BY <2>2
  <2>4. /\ c = call /\ c.stage = "running" /\ store \in [Objects -> Contents]
        /\ Same(c, d) /\ d.others = c.others
    BY <2>3 DEF AtStep, Outcome
  <2>5. Moved(c, store) /\ (c.tool \in MoveTools => c.behind = {})
    BY <2>4 DEF MoveInv
  <2>6. Moved(d, store')
    <3>1. CASE z.op = "write"
      BY <2>3, <2>4, <2>5, <3>1, MoveChanges
    <3>2. CASE z.op # "write"
      <4>1. store' = store /\ d.asked = c.asked
        BY <2>3, <3>2 DEF Outcome, Refused, GivesUp, Learns, Carries, Misses, Answers
      <4> QED BY <2>4, <2>5, <4>1 DEF Moved, Same, Whole
    <3> QED BY <3>1, <3>2
  <2>7. d.tool \in MoveTools => d.behind = {}
    <3>1. CASE Answers(c, d, z)
      <4>1. d.tool = c.tool /\ z.op = "answer" /\ d.behind \in {c.behind, z.behind}
        BY <2>4, <3>1 DEF Same, Answers
      <4> QED BY <2>3, <2>5, <4>1, CarefulStep
    <3>2. CASE d.behind = c.behind
      BY <2>4, <2>5, <3>2 DEF Same
    <3> QED BY <2>3, <3>1, <3>2
          DEF Outcome, Refused, GivesUp, Learns, Carries, Misses, Halts, Continues
  <2> QED BY <2>3, <2>6, <2>7 DEF MoveInv
<1>4. CASE Relay \/ StreamEnds \/ Consume \/ \E how \in {"closed", "gone"} : StopReading(how)
  <2>1. PICK c \in Calls : \E d :
            /\ c = call /\ c.stage = "streaming" /\ call' = d /\ Same(c, d)
            /\ d.others = c.others /\ store' = store /\ d.stage \in {"streaming", "over"}
            /\ d.behind = c.behind
    BY <1>4, Streams
  <2>2. ASSUME NEW d, Same(c, d), d.others = c.others, c.stage = "streaming",
               d.stage \in {"streaming", "over"}, Moved(c, store)
        PROVE  Moved(d, store)
    BY <2>2 DEF Same, Moved, Whole
  <2>3. Moved(c, store) /\ (c.tool \in MoveTools => c.behind = {})
    BY <2>1 DEF MoveInv
  <2> HIDE DEF Moved
  <2> QED BY <2>1, <2>2, <2>3 DEF MoveInv, Same
<1>5. CASE \/ \E o \in Objects, v \in {"none", "guarded", "theirs"} : Elsewhere(o, v)
           \/ SweepStaleDirs
  <2>1. PICK c \in Calls : \E d :
            /\ c = call /\ c.stage # "idle" /\ call' = d /\ Same(c, d)
            /\ d.others = c.others + 1 /\ d.behind = c.behind
    BY <1>5, Others
  <2>2. call'.others # 0
    BY <2>1 DEF Calls
  <2> QED BY <2>1, <2>2 DEF MoveInv, Moved, Same
<1>6. CASE Forget
  BY <1>6 DEF Forget, Idle, MoveInv
<1>7. CASE CarryBehind
  <2>1. PICK c \in Calls : \E d :
            /\ c = call /\ c.stage = "streaming" /\ call' = d /\ Same(c, d)
            /\ c.behind # {} /\ d.behind = {}
    BY <1>7, Behinds
  <2> QED BY <2>1 DEF MoveInv, Moved, Same
<1> QED BY <1>1, <1>2, <1>3, <1>4, <1>5, <1>6, <1>7, NextCases

\* A move keeps its object at the old place, or has it at the new one as whole as a copy of
\* its mode is, whichever of its requests fails, is lost, or breaks off: the source is
\* touched only after the copy was answered.
THEOREM MovesAreSafe ==
  ASSUME FormedTools, CarefulTools
  PROVE  Spec => []MovesLoseNothing
<1>1. CallInv /\ MoveInv /\ [Next]_vars => MoveInv'
  BY MoveNext
<1>2. Init => MoveInv
  BY DEF Init, MoveInv, Idle
<1>3. MoveInv => MovesLoseNothing
  BY DEF MoveInv, Moved, Whole, MovesLoseNothing, Busy
<1> QED BY <1>1, <1>2, <1>3, CallInvariant, PTL DEF Spec

-----------------------------------------------------------------------------
(* Protection.                                                             *)

\* The changes of a tool whose target may be protected, and nothing behind its answers.
LEMMA KeptStep ==
  ASSUME FormedTools, KeptTools, NEW c \in Calls, NEW z, NEW q, NEW i, AtStep(c, z, q, i),
         c.tool \in GuardedTools
  PROVE  /\ z.op = "write" /\ (z.obj = "target" \/ "target" \in z.from) =>
              /\ z.obj = "target" /\ z.leaves = {}
              /\ "guarded" \in z.accepts =>
                    /\ c.p.mode \in BlindModes
                    /\ c.seen["target"] \in Contents \ {"guarded"}
                    /\ c.asked = {}
         /\ z.op = "answer" => z.behind = {}
<1>1. /\ c.tool \in Tools /\ c.p \in Args(c.tool) /\ c.seen \in ViewsOf(c.tool)
      /\ q = ProgramOf(c.tool, c.p, c.seen) /\ i \in At(q, c.seen) /\ z = q[i]
      /\ c.asked = {q[j].obj : j \in Changes(q, i)}
  BY StepFacts
<1>2. Kept(c.tool, c.p, c.seen)
  BY <1>1, Zenon DEF KeptTools
<1>3. /\ q[i].op = "write" /\ (q[i].obj = "target" \/ "target" \in q[i].from) =>
            /\ q[i].obj = "target" /\ q[i].leaves = {}
            /\ "guarded" \in q[i].accepts =>
                  /\ c.p.mode \in BlindModes
                  /\ c.seen["target"] \in Contents \ {"guarded"}
                  /\ Changes(q, i) = {}
      /\ q[i].op = "answer" => q[i].behind = {}
  BY <1>1, <1>2, Zenon DEF Kept
<1> QED BY <1>1, <1>3

\* As long as a running call has asked for no change and nobody else has made one, the target
\* is what the call knows of it.  Behind the answers of such tools nothing is changed.
KeepInv ==
  call.stage \in {"running", "streaming"} =>
     /\ call.tool \in GuardedTools => call.behind = {}
     /\ call.stage = "running" /\ call.others = 0 /\ call.asked = {} =>
           call.seen["target"] \in {"unread", "error", store["target"]}

LEMMA KeepNext ==
  ASSUME FormedTools, KeptTools, CallInv, KeepInv, [Next]_vars
  PROVE  KeepInv'
<1>1. CASE UNCHANGED vars
  BY <1>1 DEF vars, KeepInv
<1>2. ASSUME NEW t \in Tools, NEW b \in Before(t), NEW p \in Sound(t) \cup Flawed(t),
             NEW w \in Ways, Begin(t, p, w, b)
      PROVE  KeepInv'
  <2>1. call'.seen = Unread /\ call'.behind = {}
    BY <1>2, InvBegin
  <2>2. call'.seen["target"] = "unread"
    BY <2>1 DEF Unread, Objects
  <2> QED BY <2>1, <2>2 DEF KeepInv
<1>3. CASE Advance
  <2>1. PICK c \in Calls, z \in Step : \E q, d : \E i \in Ahead(call) :
            AtStep(c, z, q, i) /\ call' = d /\ Outcome(c, d, z)
    BY <1>3, Advances
  <2>2. PICK q, d : \E i \in Ahead(call) : AtStep(c, z, q, i) /\ call' = d /\ Outcome(c, d, z)
    BY <2>1
  <2>3. PICK i \in Ahead(call) : AtStep(c, z, q, i) /\ call' = d /\ Outcome(c, d, z)
    BY <2>2
  <2>4. /\ c = call /\ c.stage = "running" /\ d.tool = c.tool /\ d.others = c.others
        /\ c.tool \in GuardedTools => c.behind = {}
        /\ c.others = 0 /\ c.asked = {} =>
              c.seen["target"] \in {"unread", "error", store["target"]}
    BY <2>3 DEF AtStep, Outcome, Same, KeepInv
  <2>5. d.tool \in GuardedTools => d.behind = {}
    <3>1. CASE Answers(c, d, z)
      <4>1. z.op = "answer" /\ d.behind \in {c.behind, z.behind}
        BY <3>1 DEF Answers
      <4> QED BY <2>3, <2>4, <4>1, KeptStep
    <3>2. CASE d.behind = c.behind
      BY <2>4, <3>2
    <3> QED BY <2>3, <3>1, <3>2
          DEF Outcome, Refused, GivesUp, Learns, Carries, Misses, Halts, Continues
  <2>6. d.stage = "running" /\ d.others = 0 /\ d.asked = {} =>
           d.seen["target"] \in {"unread", "error", store'["target"]}
    <3>1. CASE Learns(c, d, z)
      <4>1. \/ d.seen["target"] = c.seen["target"]
            \/ d.seen["target"] \in {"error", store["target"]}
        BY <3>1 DEF Learns, Objects
      <4> QED BY <2>4, <3>1, <4>1 DEF Learns
    <3>2. CASE Carries(c, d, z) \/ Misses(c, d, z)
      <4>1. d.asked # {}
        BY <3>2 DEF Carries, Misses
      <4> QED BY <4>1
    <3>3. CASE Refused(c, d, z) \/ GivesUp(c, d, z) \/ Answers(c, d, z)
      <4>1. d.stage # "running"
        BY <3>3 DEF Refused, GivesUp, Answers, Halts
      <4> QED BY <4>1
    <3> QED BY <2>3, <3>1, <3>2, <3>3 DEF Outcome
  <2> QED BY <2>3, <2>5, <2>6 DEF KeepInv
<1>4. CASE Relay \/ StreamEnds \/ Consume \/ \E how \in {"closed", "gone"} : StopReading(how)
  <2>1. PICK c \in Calls : \E d :
            /\ c = call /\ c.stage = "streaming" /\ call' = d /\ Same(c, d)
            /\ d.behind = c.behind /\ d.stage # "running"
    BY <1>4, Streams
  <2> QED BY <2>1 DEF KeepInv, Same
<1>5. CASE \/ \E o \in Objects, v \in {"none", "guarded", "theirs"} : Elsewhere(o, v)
           \/ SweepStaleDirs
  <2>1. PICK c \in Calls : \E d :
            /\ c = call /\ c.stage \in {"running", "streaming"} /\ call' = d /\ Same(c, d)
            /\ d.others = c.others + 1 /\ d.behind = c.behind
    BY <1>5, Others
  <2>2. call'.others # 0
    BY <2>1 DEF Calls
  <2> QED BY <2>1, <2>2 DEF KeepInv, Same
<1>6. CASE Forget
  BY <1>6 DEF Forget, Idle, KeepInv
<1>7. CASE CarryBehind
  <2>1. call'.stage = "streaming" /\ call'.behind = {}
    BY <1>7, Behinds
  <2> QED BY <2>1 DEF KeepInv
<1> QED BY <1>1, <1>2, <1>3, <1>4, <1>5, <1>6, <1>7, NextCases

\* What a step of a call does to a target that is protected at that moment.
Spares ==
  (/\ call.stage \in {"running", "streaming"}
   /\ call'.others = call.others
   /\ store["target"] = "guarded") =>
     \/ store'["target"] = "guarded"
     \/ call.p.mode \in BlindModes /\ call.others > 0

LEMMA KeepStep ==
  ASSUME FormedTools, KeptTools, CallInv, KeepInv, [Next]_vars
  PROVE  Spares
<1> SUFFICES ASSUME call.stage \in {"running", "streaming"}, call'.others = call.others,
                    store["target"] = "guarded", store' # store
             PROVE  \/ store'["target"] = "guarded"
                    \/ call.p.mode \in BlindModes /\ call.others > 0
  BY DEF Spares
<1>1. PICK c \in Calls : c = call /\ Fits(c, store)
  BY RunningCall
<1>2. c.tool \in GuardedTools
  BY <1>1, PossibleType DEF Fits, Objects
<1>3. CASE UNCHANGED vars
  BY <1>3 DEF vars
<1>4. CASE Advance
  <2>0. PICK z \in Step : \E q, d : \E i \in Ahead(call) :
            AtStep(c, z, q, i) /\ call' = d /\ Outcome(c, d, z)
    BY <1>1, <1>4, Advances DEF AtStep
  <2>1. PICK q, d : \E i \in Ahead(call) : AtStep(c, z, q, i) /\ call' = d /\ Outcome(c, d, z)
    BY <2>0
  <2>2. PICK i \in Ahead(call) : AtStep(c, z, q, i) /\ call' = d /\ Outcome(c, d, z)
    BY <2>1
  <2>3. /\ c.stage = "running" /\ store \in [Objects -> Contents]
        /\ c.others = 0 /\ c.asked = {} =>
              c.seen["target"] \in {"unread", "error", "guarded"}
    BY <1>1, <2>2 DEF AtStep, KeepInv
  <2>4. z.op = "write" /\ z.obj \in Objects /\ "target" \in Objects
    BY <2>2, StepType
      DEF Outcome, Refused, GivesUp, Learns, Carries, Misses, Answers, Objects
  <2>5. \/ Taken(z) /\ store' = Changed(z)
        \/ store' \in Left(z)
    BY <2>2, <2>4 DEF Outcome, Refused, GivesUp, Learns, Carries, Misses, Answers
  <2>6. CASE z.obj # "target" /\ "target" \notin z.from
    <3>1. PICK s : s = store'
      OBVIOUS
    <3>2. s \in Left(z) \cup {Changed(z)}
      BY <2>5, <3>1
    <3>3. s["target"] = store["target"]
      BY <2>3, <2>4, <2>6, <3>2, ChangeKeeps
    <3> QED BY <3>1, <3>3
  <2>7. CASE z.obj = "target" \/ "target" \in z.from
    <3>1. /\ z.obj = "target" /\ z.leaves = {}
          /\ "guarded" \in z.accepts =>
                /\ c.p.mode \in BlindModes
                /\ c.seen["target"] \in Contents \ {"guarded"}
                /\ c.asked = {}
      BY <1>2, <2>2, <2>4, <2>7, KeptStep
    <3>2. Taken(z)
      BY <2>5, <3>1 DEF Left
    <3>3. "guarded" \in z.accepts
      BY <3>1, <3>2 DEF Taken
    <3>4. c.p.mode \in BlindModes /\ c.others # 0
      BY <2>3, <3>1, <3>3 DEF Contents
    <3>5. c.others > 0
      BY <3>4 DEF Calls
    <3> QED BY <1>1, <3>4, <3>5
  <2> QED BY <2>6, <2>7
<1>5. CASE Relay \/ StreamEnds \/ Consume \/ \E how \in {"closed", "gone"} : StopReading(how)
  BY <1>5, Streams
<1>6. CASE \/ \E o \in Objects, v \in {"none", "guarded", "theirs"} : Elsewhere(o, v)
           \/ SweepStaleDirs
  <2>1. call'.others = c.others + 1
    BY <1>1, <1>6, Others
  <2> QED BY <1>1, <2>1 DEF Calls
<1>7. CASE Forget
  BY <1>7 DEF Forget
<1>8. CASE CarryBehind
  <2>1. c.behind # {} /\ c.stage = "streaming"
    BY <1>1, <1>8, Behinds
  <2> QED BY <1>1, <1>2, <2>1 DEF KeepInv
<1> QED BY <1>3, <1>4, <1>5, <1>6, <1>7, <1>8, NextCases

\* No step of a call changes a target that is protected when the change arrives, even when
\* others had put it there after the call looked, but for a call that overwrites or deletes
\* whatever it finds: that one is sure of the target only as long as nobody else changes it.
THEOREM ProtectionHolds ==
  ASSUME FormedTools, KeptTools
  PROVE  Spec => ProtectedTargetsStay
<1>1. CallInv /\ KeepInv /\ [Next]_vars => KeepInv'
  BY KeepNext
<1>2. Init => KeepInv
  BY DEF Init, KeepInv, Idle
<1>3. CallInv /\ KeepInv /\ [Next]_vars => [Spares]_vars
  BY KeepStep
<1> QED BY <1>1, <1>2, <1>3, CallInvariant, PTL DEF Spec, ProtectedTargetsStay, Spares
=============================================================================
