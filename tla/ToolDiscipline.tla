--------------------------- MODULE ToolDiscipline ---------------------------
(***************************************************************************)
(* What a tool has to do for ToolCalls to keep its promises: conditions on *)
(* the sequence of its steps, for any arguments and whatever it has seen.  *)
(* The gate, requests that fail, others who change the system, and streams *)
(* are not in them: that these do no harm where every tool obeys is proved *)
(* in ToolCallsProofs.                                                     *)
(***************************************************************************)
EXTENDS ToolCalls

ChangeStep ==
    [op : {"write"}, obj : Objects, val : Contents \ {"guarded"}, accepts : SUBSET Contents,
     from : SUBSET Objects, under : SUBSET Objects, leaves : SUBSET Contents,
     lenient : BOOLEAN, sure : BOOLEAN]
Step ==
    [op : {"check"}, ok : BOOLEAN, why : STRING, arg : BOOLEAN]
        \cup [op : {"ask"}, what : STRING, lenient : BOOLEAN, sure : BOOLEAN]
        \cup [op : {"read"}, obj : Objects, lenient : BOOLEAN, sure : BOOLEAN]
        \cup ChangeStep
        \cup [op : {"answer"}, kind : {"preview", "data", "done", "opened"},
              behind : SUBSET ChangeStep]

\* The arguments of a call, with and without the authorisation in its context.
Args(t) == {[p EXCEPT !.granted = g] : p \in Sound(t) \cup Flawed(t), g \in BOOLEAN}

\* What a call of the tool may have seen: of its objects the contents they may have, or,
\* where a tool goes on without, that asking for them failed.
SightsOf(t, o) ==
    {"unread"} \cup (IF o \in ObjectsOf(t) THEN Possible(t, o) ELSE {})
               \cup (IF o \in ObjectsOf(t) /\ t \notin PathTools THEN {"error"} ELSE {})
ViewsOf(t) ==
    {[o \in Objects |-> CASE o = "target" -> a [] o = "copy" -> b [] OTHER -> c] :
        a \in SightsOf(t, "target"), b \in SightsOf(t, "copy"), c \in SightsOf(t, "parents")}

\* What a call has seen when it finds o to be x.
Finding(v, o, x) == [v EXCEPT ![o] = x]

\* The program of a call of tool t with arguments p that has seen v.
ProgramOf(t, p, v) == Program([tool |-> t, p |-> p, seen |-> v])

\* The steps of program q that a call which has seen v may be at: it has passed the
\* checks and was answered the reads before it, and has seen nothing else.
Passed(v, s) ==
    /\ s.op # "answer"
    /\ s.op = "check" => s.ok
    /\ s.op = "read" => v[s.obj] \in IF s.lenient THEN Views \ {"unread"} ELSE Contents
ReadBefore(q, i, o) == \E j \in 1 .. (i - 1) : q[j].op = "read" /\ q[j].obj = o
At(q, v) ==
    {i \in 1 .. Len(q) :
        /\ \A j \in 1 .. (i - 1) : Passed(v, q[j])
        /\ \A o \in Objects : v[o] # "unread" => ReadBefore(q, i, o)}
Changes(q, i) == {j \in 1 .. (i - 1) : q[j].op = "write"}

\* A program is a sequence of steps on the tool's objects.  Only a stream has a change
\* behind it.
Fitting(t, s) ==
    /\ s.obj \in ObjectsOf(t)
    /\ s.val \in Possible(t, s.obj)
    /\ s.leaves \subseteq Possible(t, s.obj)
    /\ s.from \subseteq ObjectsOf(t)
Formed(t, p, v) ==
    LET q == ProgramOf(t, p, v)
    IN /\ Len(q) \in Nat
       /\ \A i \in At(q, v) :
             /\ q[i] \in Step
             /\ q[i].op = "write" => Fitting(t, q[i])
             /\ q[i].op = "read" =>
                   q[i].obj \in ObjectsOf(t) /\ (q[i].lenient => t \notin PathTools)
             /\ q[i].op = "answer" =>
                   /\ \A s \in q[i].behind : Fitting(t, s)
                   /\ q[i].behind # {} => q[i].kind = "opened" /\ p.mode \in StreamModes

\* What a read finds does not change what was done before it, and what may be missing is
\* not looked for a second time.
Causal(t, p, v) ==
    LET q == ProgramOf(t, p, v)
    IN \A i \in At(q, v) : q[i].op = "read" =>
          /\ q[i].lenient => ~ReadBefore(q, i, q[i].obj)
          /\ \A x \in SightsOf(t, q[i].obj) :
                LET r == ProgramOf(t, p, Finding(v, q[i].obj, x))
                IN Len(r) >= i /\ \A j \in 1 .. i : r[j] = q[j]

\* A change is asked for, or left behind a stream, in no dry run, where the tool does not
\* execute directly only when it is confirmed and authorised, and in no forbidden place.
Cleared(t, p, v) ==
    LET q == ProgramOf(t, p, v)
    IN \A i \in At(q, v) :
          q[i].op = "write" \/ (q[i].op = "answer" /\ q[i].behind # {}) =>
             /\ ~p.dryRun
             /\ t \notin DirectTools => p.confirmed /\ p.granted
             /\ p.scope # "closed"

\* Nothing is refused after the first change but for what a change has answered, and,
\* where only the directories above a path were made, but for want of a confirmation.
Late(t, p, v) ==
    LET q == ProgramOf(t, p, v)
    IN \A i \in At(q, v) :
          q[i].op = "check" /\ ~q[i].ok /\ Changes(q, i) # {} =>
             \/ q[i].why \in LateChecks
             \/ /\ q[i].why \notin {"gate", "confirmation"}
                /\ \A j \in Changes(q, i) : q[j].obj = "parents"

\* A target that may be protected is changed only by a request that names it, in one
\* piece, and that is refused for protected contents, or is the first change, of a mode
\* that overwrites or deletes whatever is there, and comes after a look that has found
\* no protected contents.  Nothing is changed behind the answer.
Kept(t, p, v) ==
    LET q == ProgramOf(t, p, v)
    IN t \in GuardedTools =>
          \A i \in At(q, v) :
             /\ q[i].op = "write" /\ (q[i].obj = "target" \/ "target" \in q[i].from) =>
                   /\ q[i].obj = "target" /\ q[i].leaves = {}
                   /\ "guarded" \in q[i].accepts =>
                         /\ p.mode \in BlindModes
                         /\ v["target"] \in Contents \ {"guarded"}
                         /\ Changes(q, i) = {}
             /\ q[i].op = "answer" => q[i].behind = {}

\* The answer agrees with the changes before it.
Truthful(t, p, v) ==
    LET q == ProgramOf(t, p, v)
    IN \A i \in At(q, v) : q[i].op = "answer" =>
          /\ q[i].kind = "done" =>
                \/ \E j \in Changes(q, i) : ~q[j].lenient /\ q[j].obj # "parents"
                \/ t \in RehearsingTools /\ p.dryRun
          /\ q[i].kind \in {"preview", "data"} => Changes(q, i) = {}

\* A move makes the directories it needs, then the second object, as whole as its mode
\* makes it, and only then touches the first.
Copied(q, i) == \E j \in Changes(q, i) : q[j].obj = "copy"
Careful(t, p, v) ==
    LET q == ProgramOf(t, p, v)
    IN t \in MoveTools =>
          \A i \in At(q, v) :
             /\ q[i].op = "write" =>
                   CASE q[i].obj = "parents" -> q[i].from = {} /\ ~Copied(q, i)
                     [] q[i].obj = "copy" ->
                           /\ ~Copied(q, i) /\ ~q[i].lenient
                           /\ \/ q[i].val = "ours"
                              \/ /\ q[i].val = "pruned" /\ p.mode \in PrunedModes
                                 /\ q[i].from = {}
                     [] OTHER -> Copied(q, i) /\ q[i].from = {}
             /\ q[i].op = "answer" => q[i].behind = {}

-----------------------------------------------------------------------------
(* For TLC: instead of making a call, look at one situation of one tool.   *)

VARIABLE posed   \* the situation that is looked at, if any

Situation(t, p, v) == [tool |-> t, p |-> p, seen |-> v]

Pose ==
    /\ call.stage = "idle" /\ posed = {}
    /\ \E t \in Tools : \E p \in Args(t), v \in ViewsOf(t) :
          /\ At(ProgramOf(t, p, v), v) # {}
          /\ posed' = {Situation(t, p, v)}
    /\ UNCHANGED vars

CallOrPose == Pose \/ (posed = {} /\ Next /\ UNCHANGED posed)
Unposed == Init /\ posed = {}
CallsAndSituations == Unposed /\ [][CallOrPose]_<<vars, posed>>

\* In every situation a call of a tool can be in, the tool's handler has asked for its
\* confirmation and made its checks before its first change, but for the making of the
\* directories above a path; answers what it did; leaves to the server, or looks for
\* itself, whether a target is protected; and moves by copying first (the handlers of
\* components/tool).
EveryToolObeys ==
    \A s \in posed :
        /\ Formed(s.tool, s.p, s.seen)
        /\ Causal(s.tool, s.p, s.seen)
        /\ Cleared(s.tool, s.p, s.seen)
        /\ Late(s.tool, s.p, s.seen)
        /\ Kept(s.tool, s.p, s.seen)
        /\ Truthful(s.tool, s.p, s.seen)
        /\ Careful(s.tool, s.p, s.seen)
=============================================================================
