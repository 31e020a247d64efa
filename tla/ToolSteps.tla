----------------------------- MODULE ToolSteps -----------------------------
(***************************************************************************)
(* The vocabulary in which the tools are described.  A tool's handler is   *)
(* the sequence of its steps, in the order of the code: checks, each one   *)
(* an early return with an error; requests to the system the tool works    *)
(* on, each of which may fail; and the answer it returns.  What a later    *)
(* step does may depend on what an earlier request has seen.               *)
(*                                                                         *)
(* A call's arguments are abstracted to a record p:                        *)
(*   p.mode       which of the tool's operations is asked for              *)
(*   p.dryRun, p.confirmed   the two flags of a write tool                 *)
(*   p.scope      where the target lies: "open", "closed" (a place the     *)
(*                configuration forbids) or "none" (no place named)        *)
(*   p.flaw       the check the arguments fail, or "none"                  *)
(*   p.granted    the context carries an authorisation for this tool       *)
(*                                                                         *)
(* A call works on at most three objects: its target; for tools that copy  *)
(* or move or work on two things, a second one; and for tools that make    *)
(* the directories above a path, these directories ("parents").  The       *)
(* contents of an object are named for who wrote them: "old" was there     *)
(* before the call, "guarded" as well and protected by the configuration,  *)
(* "theirs" was written by somebody else during the call, "ours" by the    *)
(* call, "part" is what a failure has left, "pruned" a copy without what   *)
(* the copying of directories leaves out, "none" means there is no object. *)
(***************************************************************************)
EXTENDS Integers, Sequences, FiniteSets

Objects == {"target", "copy", "parents"}
Contents == {"none", "old", "guarded", "theirs", "ours", "part", "pruned"}
Present == Contents \ {"none"}

\* What the call knows of an object: nothing yet, that asking for it failed,
\* or the contents it has read.
Views == Contents \cup {"unread", "error"}
Unread == [o \in Objects |-> "unread"]

\* A check of the arguments that fails on arguments with that flaw, and a
\* check of any other condition.
Check(p, why) == <<[op |-> "check", ok |-> p.flaw # why, why |-> why, arg |-> TRUE]>>
Require(ok, why) == <<[op |-> "check", ok |-> ok, why |-> why, arg |-> FALSE]>>

\* RequireConfirmationCtx: a dry run passes, else the call must be confirmed
\* and its context must carry the host's authorisation for the tool.
RequireConfirmationCtx(p) ==
    Require(p.dryRun \/ (p.confirmed /\ p.granted), "confirmation")

\* RequireConfirmationForActionCtx: the same after the dry run was dealt with.
RequireConfirmationForActionCtx(p) ==
    Require(p.confirmed /\ p.granted, "confirmation")

\* A request that reads an object.  An error ends the call; Peek notes it and
\* goes on; Recall looks at what the process holds, or takes an error for an
\* absence, and cannot fail.  A missing object is not an error of the request: the
\* steps after it say what the tool makes of it.
Read(o) == <<[op |-> "read", obj |-> o, lenient |-> FALSE, sure |-> FALSE]>>
Peek(o) == <<[op |-> "read", obj |-> o, lenient |-> TRUE, sure |-> FALSE]>>
Recall(o) == <<[op |-> "read", obj |-> o, lenient |-> FALSE, sure |-> TRUE]>>
MustExist(seen, o) == Require(seen[o] # "none", "not found")

\* A request that reads something else than the call's objects (a list, a
\* search, a resolution), one whose failure the tool lives with, and one that
\* the server evaluates without carrying it out.
Ask(what) == <<[op |-> "ask", what |-> what, lenient |-> FALSE, sure |-> FALSE]>>
Try(what) == <<[op |-> "ask", what |-> what, lenient |-> TRUE, sure |-> FALSE]>>
Rehearse(what) == Ask(what)

\* A request that gives object o the contents v; it is refused unless the
\* object's contents are in the set accepts and the objects in from and under are
\* there.  Those in from it takes away.  When it fails it has done nothing or, if
\* leaves is empty, all, else it may leave the object with contents in leaves.
\* Attempt and Discard go on when they fail; Keep changes what the process holds
\* and cannot fail.
Change(o, v, accepts) ==
    [op |-> "write", obj |-> o, val |-> v, accepts |-> accepts, from |-> {},
     under |-> {}, leaves |-> {}, lenient |-> FALSE, sure |-> FALSE]
Write(o, v, accepts) == <<Change(o, v, accepts)>>
Attempt(o, v) == <<[Change(o, v, Contents) EXCEPT !.lenient = TRUE]>>
Keep(o, v) == <<[Change(o, v, Contents) EXCEPT !.sure = TRUE]>>
Discard(o) == <<[Change(o, "none", Contents) EXCEPT !.lenient = TRUE, !.leaves = {"part"}]>>

\* The end of a call: "preview" of a dry run, "data" that was read, "done", and
\* "opened" where a change is made only if one is needed, or, in Opened, behind
\* the answer.
Answer(kind) == <<[op |-> "answer", kind |-> kind, behind |-> {}]>>
Opened(change) == <<[op |-> "answer", kind |-> "opened", behind |-> {change}]>>

When(cond, steps) == IF cond THEN steps ELSE <<>>

\* Every tool of several instances looks its instance up by name, and some ask
\* for a session that the host has put into the context.
InstanceKnown(p) == Check(p, "unknown instance")
SessionFromContext(p) == Check(p, "no session")

\* The validation of the arguments by the tags of their type, and the filter of
\* the output: a selector of fields or a regular expression, which must compile.
ValidateStruct(p) == Check(p, "validate")
CompileMatcher(p) == Check(p, "filter")

\* fileutil, for a path below a root: it names nothing in .git, does not leave
\* the root, and meets no symbolic link on its way.
RejectDotGitPath(p, what) == Check(p, what \o " in .git")
ValidateRelativePath(p, what) == Check(p, what \o " outside the root")
ResolveSymlinkSafe(p, what) == Check(p, what \o " by a symlink")

\* With createDirs it makes the directories on the way that are missing; one that
\* somebody else has made meanwhile does as well.
ResolveCreating(p, what, seen) ==
    ResolveSymlinkSafe(p, what) \o Read("parents")
        \o When(seen["parents"] = "none", Write("parents", "ours", Contents))

\* os.WriteFile: the file is truncated first, and a failure leaves what there is.
WriteFile ==
    <<[Change("target", "ours", Contents) EXCEPT !.under = {"parents"}, !.leaves = {"part"}]>>

\* os.RemoveAll takes a directory away entry by entry, os.Remove a file at once.
RemoveAll(accepts) == <<[Change("target", "none", accepts) EXCEPT !.leaves = {"part"}]>>
Directories == {"directory", "linked directory"}
RemoveContents(p) ==
    IF p.mode \in Directories THEN RemoveAll(Contents) ELSE Write("target", "none", Present)

\* A file is copied into the truncated destination, which is removed, whatever it
\* was, when that fails.
CopyFile ==
    <<[Change("copy", "ours", Contents) EXCEPT !.under = {"target", "parents"},
                                               !.leaves = {"none", "part"}]>>

\* A directory is merged into the destination, whose parents are made where they
\* are missing.  Symbolic links, and in a clone the .git directories, are left
\* out.  A failure removes the destination when there was none at the beginning,
\* as far as that succeeds, else it stays half merged.
CopyDir(p, seen) ==
    <<[Change("copy", IF p.mode = "linked directory" THEN "pruned" ELSE "ours", Contents)
          EXCEPT !.under = {"target"},
                 !.leaves = IF seen["copy"] = "none" THEN {"none", "part"} ELSE {"part"}]>>

CopyContents(p, seen) ==
    IF p.mode \in Directories THEN Recall("copy") \o CopyDir(p, seen) ELSE CopyFile

\* os.Rename replaces a file, or an empty directory, at the destination.
Rename == <<[Change("copy", "ours", Contents) EXCEPT !.from = {"target"}, !.under = {"parents"}]>>

\* Mutant: the source is removed before it is copied.
MoveAway(p, seen) ==
    IF p.mode = "rename" THEN Rename ELSE RemoveContents(p) \o CopyContents(p, seen)

\* A move renames, or, between two devices, copies and then removes the source.
MoveContents(p, seen) ==
    IF p.mode = "rename" THEN Rename ELSE CopyContents(p, seen) \o RemoveContents(p)

\* NewAllToolsWithSafety: all tools or none, and the middleware from its
\* configuration.
WithSafety(p) == Check(p, "tool") \o Check(p, "safety configuration") \o Answer("data")
=============================================================================
