----------------------------- MODULE SafetyGate -----------------------------
(***************************************************************************)
(* What happens before a tool is run: the middleware of                    *)
(* components/middleware/safety, or a pipeline that runs the tool as one   *)
(* of its steps, decides whether the call goes on and whether its context  *)
(* carries an authorisation to execute.                                    *)
(*                                                                         *)
(* A way to reach a tool is a record                                       *)
(*   via     "middleware", "pipe" (a step of pipe_exec) or "bare"          *)
(*   policy  the configured policies, asked about it, allow the call       *)
(*   model   AllowModelConfirmation: the model's confirmation is enough    *)
(*   host    what the host's authorizer says: "yes", "no" or "unset"       *)
(*   listed  the tool is in the list of writing tools the middleware or    *)
(*           the pipeline was given                                        *)
(***************************************************************************)
EXTENDS ToolSteps

Ways == [via : {"middleware", "pipe", "bare"}, policy : BOOLEAN,
         model : BOOLEAN, host : {"yes", "no", "unset"}, listed : BOOLEAN]

Phases == {"read", "dry_run", "execute", "rejected", "none"}

\* A chain of policies, and the rules of one, deny at the first that denies.
PolicyPasses(w) == w.policy

\* Mutant: the authorizer is asked and its answer not looked at.
ShouldGateWithAuthorizer(w, p) == p.dryRun \/ (p.confirmed /\ w.host # "unset")

\* ShouldGateWithAuthorization for a tool that writes: a dry run is allowed,
\* else the call must be confirmed, an authorizer be set, and agree.
ShouldGateWithAuthorization(w, p) ==
    p.dryRun \/ (p.confirmed /\ w.host # "unset" /\ w.host = "yes")

\* The gate with and without AllowModelConfirmation.
GateOpens(w, p) ==
    IF w.model THEN p.dryRun \/ p.confirmed ELSE ShouldGateWithAuthorization(w, p)

\* NewAllToolsWithSafety fills an empty list with the names of its own writing
\* tools; a list that is not empty, such as the one another package has filled
\* in the same configuration, is left as it is.
Listed(w, t, writes) == w.listed /\ t \in writes

Rejected == [phase |-> "rejected", granted |-> FALSE]

\* The arguments of a writing tool must parse before the gate looks at its
\* flags; WithExecutionAuthorized marks the context of a real execution only.
Gate(w, p) ==
    CASE p.flaw = "json" -> Rejected
      [] p.flaw # "json" /\ ~GateOpens(w, p) -> Rejected
      [] p.flaw # "json" /\ GateOpens(w, p) /\ p.dryRun ->
            [phase |-> "dry_run", granted |-> FALSE]
      [] OTHER -> [phase |-> "execute", granted |-> TRUE]

\* The middleware: policies for every tool, the gate for those that write.
preflight(w, t, p, writes) ==
    IF ~PolicyPasses(w) THEN Rejected
    ELSE IF ~Listed(w, t, writes) THEN [phase |-> "read", granted |-> FALSE]
    ELSE Gate(w, p)

\* A step of a pipeline: pipe_exec itself is no writing tool, so it passed the
\* middleware as a read; the step's tool passes the same gate.  No policy is asked
\* about it: a pipeline has none, and the middleware's was asked about pipe_exec.
runToolStep(w, t, p, writes) ==
    [phase |-> "read", granted |-> Listed(w, t, writes) /\ Gate(w, p).granted]

\* The pipeline refuses the step where the gate does.
StepRefused(w, t, p, writes) ==
    w.via = "pipe" /\ Listed(w, t, writes) /\ Gate(w, p).phase = "rejected"

Verdict(w, t, p, writes) ==
    CASE w.via = "middleware" -> preflight(w, t, p, writes)
      [] w.via = "pipe" -> runToolStep(w, t, p, writes)
      [] OTHER -> [phase |-> "none", granted |-> FALSE]
=============================================================================
