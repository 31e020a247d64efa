--------------------------- MODULE KubernetesTools ---------------------------
(***************************************************************************)
(* The tools of components/tool/kubernetes.  The target of a call is the   *)
(* resource, the pod or the list it names; p.scope is its namespace, which *)
(* the configuration of the cluster may disallow ("closed").               *)
(***************************************************************************)
EXTENDS ToolSteps

\* Which tools the registry builds, and which of them it declares as writing.
kubernetesReadTools == {"kubernetes_cluster_list", "kubernetes_list",
                        "kubernetes_describe", "kubernetes_pod_logs"}
kubernetesWriteTools == {"kubernetes_pod_exec", "kubernetes_resource_create",
                         "kubernetes_resource_patch", "kubernetes_resource_delete",
                         "kubernetes_resource_apply"}

\* dynamicClient, clientset and restConfig look the cluster up in their maps.
ClusterKnown(p) == Check(p, "unknown cluster")

\* Mutant: only an empty namespace is refused.
CheckNamespaceNamed(p) == Require(p.scope # "none", "disallowed namespace")

\* A write names no namespace, or one the cluster's configuration allows.
CheckNamespace(p) == Require(p.scope # "closed", "disallowed namespace")

\* A bare kind that several API groups have is ambiguous unless exactly one of
\* them is built in.
PreferredCandidates(p) == Check(p, "unknown kind") \o Check(p, "ambiguous kind")

\* Resolve asks the server's discovery for the kind, again after a reset, and
\* with retries.
ResolveKind(p) == ClusterKnown(p) \o Ask("discovery") \o PreferredCandidates(p)

CheckBlocklist(p) == Check(p, "blocked kind") \o Check(p, "blocked resource")

\* The pod template of a Pod, a Job or a CronJob: the namespaces of the host
\* first, then every container with its mounts, then the volumes.
ValidateManifestSecurity(p) ==
    Check(p, "host namespace")
        \o Check(p, "privileged container") \o Check(p, "privilege escalation")
        \o Check(p, "dangerous capability")
        \o Check(p, "dangerous mount") \o Check(p, "dangerous subPath")
        \o Check(p, "hostPath volume")

ResourceDiff(p) == Check(p, "cannot normalise for the diff")

kubernetes_cluster_list(p) == Answer("data")

\* The token of a filtered list is an offset into the matches.
DecodeOffsetToken(p) == Check(p, "paginate token")

\* Without a filter one page is asked for; with one, all pages are.
kubernetes_list(p) ==
    ValidateStruct(p) \o CompileMatcher(p) \o ResolveKind(p) \o ClusterKnown(p)
        \o Check(p, "labels selector")
        \o (IF p.mode = "filtered"
            THEN DecodeOffsetToken(p) \o Ask("page") \o Ask("next page")
            ELSE Ask("page"))
        \o Answer("data")

\* What was read is returned without a secret's data, unless the fields to
\* leave out are unknown ones.
kubernetes_describe(p, seen) ==
    ValidateStruct(p) \o ResolveKind(p) \o ClusterKnown(p)
        \o Read("target") \o MustExist(seen, "target")
        \o Check(p, "excludeFieldsOutput") \o Answer("data")

\* The log is read line by line, either into one answer or into a stream, which
\* breaks at a line that is too long.
kubernetes_pod_logs(p, seen) ==
    ValidateStruct(p) \o CompileMatcher(p) \o ClusterKnown(p)
        \o Read("target") \o MustExist(seen, "target")
        \o When(p.mode # "stream", Check(p, "line too long")) \o Answer("data")

BlockedCommand(p) == Check(p, "blocked command")

\* As a stream the call is answered before the command is run, whose failure then
\* breaks the stream.
ExecAsStream == Opened(Change("target", "ours", Present))

\* The command is looked at before the dry run, the confirmation after it; a
\* command on a running pod may change anything in it, also when its output
\* cannot be read.
kubernetes_pod_exec(p) ==
    ValidateStruct(p) \o BlockedCommand(p) \o CheckNamespace(p)
        \o When(p.dryRun, Answer("preview"))
        \o RequireConfirmationCtx(p) \o ClusterKnown(p) \o CompileMatcher(p)
        \o When(p.mode = "stream", ExecAsStream)
        \o Write("target", "ours", Present) \o Check(p, "output line too long")
        \o Answer("done")

\* What apply and create do with the manifest before they send anything.
Manifest(p) ==
    Check(p, "manifest") \o ResolveKind(p) \o Check(p, "missing fields")
        \o Check(p, "kind mismatch") \o CheckBlocklist(p) \o ValidateManifestSecurity(p)

\* A dry run creates nothing: the server is asked to try.
kubernetes_resource_create(p) ==
    ValidateStruct(p) \o RequireConfirmationCtx(p) \o CheckNamespace(p)
        \o ClusterKnown(p) \o Manifest(p)
        \o (IF p.dryRun THEN Rehearse("create") \o Answer("preview")
            ELSE Write("target", "ours", {"none"}) \o Answer("done"))

\* A dry run compares the resource with the one the server would make of it,
\* and asks nothing more when there is none yet.
kubernetes_resource_apply(p, seen) ==
    ValidateStruct(p) \o RequireConfirmationCtx(p) \o CheckNamespace(p)
        \o ClusterKnown(p) \o Manifest(p)
        \o (IF p.dryRun
            THEN Read("target") \o When(seen["target"] = "none", Answer("preview"))
                     \o Rehearse("apply") \o ResourceDiff(p) \o Answer("preview")
            ELSE Write("target", "ours", Contents) \o Answer("done"))

kubernetes_resource_delete(p, seen) ==
    ValidateStruct(p) \o RequireConfirmationCtx(p) \o CheckNamespace(p)
        \o ResolveKind(p) \o CheckBlocklist(p) \o ClusterKnown(p)
        \o (IF p.dryRun
            THEN Read("target") \o MustExist(seen, "target") \o Answer("preview")
            ELSE Write("target", "none", Present) \o Answer("done"))

\* A dry run that cannot read the resource has the server try the patch.
kubernetes_resource_patch(p, seen) ==
    ValidateStruct(p) \o RequireConfirmationCtx(p) \o CheckNamespace(p)
        \o ResolveKind(p) \o CheckBlocklist(p) \o ClusterKnown(p)
        \o (IF p.dryRun
            THEN Peek("target") \o Rehearse("patch")
                     \o When(seen["target"] \in Present,
                             Check(p, "patch") \o ResourceDiff(p))
                     \o Answer("preview")
            ELSE Write("target", "ours", Present) \o Answer("done"))

\* The health check: each core kind is resolved, listed, and its first item is
\* asked for again by its name.
ProbeKind(seen) ==
    Try("discovery") \o Peek("target") \o When(seen["target"] \in Present, Try("item"))
kubernetes_check(p, seen) ==
    Check(p, "no clusters") \o Check(p, "client") \o Check(p, "mapper")
        \o ProbeKind(seen) \o Answer("data")

\* The clients of all clusters, a dynamic one and the mapper of kinds for each.
kubernetesClients(p) == Check(p, "no configuration") \o Check(p, "client")
kubernetesBase(p) == kubernetesClients(p) \o Check(p, "dynamic client") \o Check(p, "mapper")
kubernetes_new(p) == kubernetesBase(p) \o WithSafety(p)

KubernetesSteps(t, p, seen) ==
    CASE t = "kubernetes_cluster_list" -> kubernetes_cluster_list(p)
      [] t = "kubernetes_list" -> kubernetes_list(p)
      [] t = "kubernetes_describe" -> kubernetes_describe(p, seen)
      [] t = "kubernetes_pod_logs" -> kubernetes_pod_logs(p, seen)
      [] t = "kubernetes_pod_exec" -> kubernetes_pod_exec(p)
      [] t = "kubernetes_resource_create" -> kubernetes_resource_create(p)
      [] t = "kubernetes_resource_apply" -> kubernetes_resource_apply(p, seen)
      [] t = "kubernetes_resource_delete" -> kubernetes_resource_delete(p, seen)
      [] t = "kubernetes_resource_patch" -> kubernetes_resource_patch(p, seen)
      [] t = "kubernetes_check" -> kubernetes_check(p, seen)
      [] t = "kubernetes_new" -> kubernetes_new(p)

KubernetesModes(t) ==
    CASE t = "kubernetes_list" -> {"plain", "filtered"}
      [] t \in {"kubernetes_pod_logs", "kubernetes_pod_exec"} -> {"plain", "stream"}
      [] OTHER -> {"plain"}
=============================================================================
