------------------------------ MODULE ShellTools ------------------------------
(***************************************************************************)
(* The tools of components/tool/shell and components/tool/pipe.  The       *)
(* target is the container of the profile, in which every command of the   *)
(* session is run after the ones before it; both tools are declared not to *)
(* write and are run without confirmation.  A tool that a pipeline runs as *)
(* a step is a call of its own, reached by the way "pipe" of SafetyGate.   *)
(***************************************************************************)
EXTENDS ToolSteps

shellTools == {"shell_exec", "pipe_exec"}

\* The profile that is asked for, or one that a file of the project stands for
\* (of several, one in an order that changes from call to call), or the default
\* one, and its image.
DetectProfiles(p) == Check(p, "no working directory") \o Try("marker files")
ResolveProfile(p) == When(p.mode # "profile", DetectProfiles(p))

\* A container for each profile and image, made at its first use, from the image
\* with its caches and the working directory.
Container == Ask("container")
GetOrCreate == Container

\* A command must match no pattern of the blocklist.
CheckCommand(p, what) == Check(p, what)

\* The command is added to the container's commands, run, and its output asked
\* for; the container keeps the command when running it has failed.
Exec == Write("target", "ours", Contents) \o Ask("stdout") \o Ask("stderr") \o Ask("exit code")

\* Whatever the exit code is, the answer of shell_exec is its output.
shell_exec(p) ==
    ValidateStruct(p) \o CheckCommand(p, "blocked command")
        \o When(p.dryRun, Answer("preview"))
        \o ResolveProfile(p) \o CompileMatcher(p) \o GetOrCreate \o Exec
        \o Answer("done")

\* RawExec, for the steps of a pipeline.
RawExec(p, nth) ==
    Check(p, nth \o " no command") \o CheckCommand(p, nth \o " blocked command")
        \o ResolveProfile(p) \o GetOrCreate \o Exec

\* A command that fails ends the pipeline, and so does an output too large; the
\* commands before it have been run.
RunShellStep(p, nth) ==
    RawExec(p, nth) \o Check(p, nth \o " exit code") \o Check(p, nth \o " output too large")

ValidateParams(p) == ValidateStruct(p) \o Check(p, "no steps") \o Check(p, "step")

pipe_exec(p) ==
    ValidateParams(p)
        \o When(p.dryRun, Answer("preview"))
        \o RunShellStep(p, "first") \o RunShellStep(p, "second") \o Answer("done")

shell_check(p) ==
    Check(p, "no configuration") \o Check(p, "no working directory") \o Ask("engine")
        \o Ask("container") \o Ask("exec") \o Ask("stdout") \o Answer("data")

pipe_check(p) ==
    Check(p, "no configuration") \o Check(p, "no shell") \o Check(p, "no authorizer")
        \o Answer("data")

\* A shell tool opens the engine and closes it again when it cannot be built.
NewShellTool(p) ==
    Check(p, "configuration") \o Check(p, "blocklist") \o Ask("engine") \o Check(p, "tool")
shell_new(p) == NewShellTool(p) \o Check(p, "safety configuration") \o Answer("data")
pipe_new(p) ==
    Check(p, "pipe configuration") \o NewShellTool(p) \o Check(p, "pipe tool")
        \o Check(p, "safety configuration") \o Answer("data")

\* The egress proxy: a connection is opened when the policy allows every address
\* of its host, by a list of hosts and networks or, where nothing is denied, all.
Allows(p) == Check(p, "local network") \o Check(p, "not in the allowlist")
egress_connect(p) ==
    Check(p, "method") \o Check(p, "no host") \o Ask("lookup") \o Allows(p)
        \o Ask("dial") \o Check(p, "hijack") \o Answer("data")

ShellSteps(t, p, seen) ==
    CASE t = "shell_exec" -> shell_exec(p)
      [] t = "pipe_exec" -> pipe_exec(p)
      [] t = "shell_check" -> shell_check(p)
      [] t = "pipe_check" -> pipe_check(p)
      [] t = "shell_new" -> shell_new(p)
      [] t = "pipe_new" -> pipe_new(p)
      [] t = "egress_connect" -> egress_connect(p)

ShellModes(t) == IF t \in shellTools THEN {"plain", "profile", "stream"} ELSE {"plain"}
=============================================================================
