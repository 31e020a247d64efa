---------------------------- MODULE MonitoringTools ----------------------------
(***************************************************************************)
(* The tools of components/tool/argocd, alertmanager, prometheus and s3.   *)
(* The target of a call is the application, or whatever else it names.     *)
(***************************************************************************)
EXTENDS ToolSteps

argocdReadTools == {"argocd_instance_list", "argocd_application_list",
                    "argocd_application_describe", "argocd_certificate_list",
                    "argocd_cluster_list", "argocd_cluster_describe", "argocd_project_list",
                    "argocd_project_describe", "argocd_repository_list",
                    "argocd_repository_describe"}
argocdWriteTools == {"argocd_application_create", "argocd_application_sync",
                     "argocd_application_delete"}

argocd_instance_list(p) == Answer("data")

\* A list is asked for whole; the filter is applied to what has come.
ListOf(p) ==
    ValidateStruct(p) \o CompileMatcher(p) \o InstanceKnown(p) \o Ask("list")
        \o Answer("data")
argocd_application_list(p) == ListOf(p)
argocd_certificate_list(p) == ListOf(p)
argocd_cluster_list(p) == ListOf(p)
argocd_project_list(p) == ListOf(p)
argocd_repository_list(p) == ListOf(p)

Described(p, seen) ==
    ValidateStruct(p) \o InstanceKnown(p) \o Read("target") \o MustExist(seen, "target")
        \o Check(p, "excludeFieldsOutput") \o Answer("data")
argocd_application_describe(p, seen) == Described(p, seen)
argocd_cluster_describe(p, seen) == Described(p, seen)
argocd_project_describe(p, seen) == Described(p, seen)
argocd_repository_describe(p, seen) == Described(p, seen)

\* Here the client is looked up before the confirmation is asked for.
argocd_application_create(p) ==
    ValidateStruct(p) \o InstanceKnown(p)
        \o When(p.dryRun, Answer("preview"))
        \o RequireConfirmationCtx(p)
        \o Write("target", "ours", IF p.mode = "upsert" THEN Contents ELSE {"none"})
        \o Answer("done")

\* Mutant: the error of the deletion is dropped.
ApplicationDeleteUnchecked(p, seen) ==
    ValidateStruct(p) \o InstanceKnown(p)
        \o When(p.dryRun, Read("target") \o MustExist(seen, "target") \o Answer("preview"))
        \o RequireConfirmationCtx(p)
        \o Discard("target") \o Answer("done")

argocd_application_delete(p, seen) ==
    ValidateStruct(p) \o InstanceKnown(p)
        \o When(p.dryRun, Read("target") \o MustExist(seen, "target") \o Answer("preview"))
        \o RequireConfirmationCtx(p)
        \o Write("target", "none", Present) \o Answer("done")

\* The dry run of a sync is the server's, and answered like a real one.
argocd_application_sync(p) ==
    ValidateStruct(p) \o InstanceKnown(p) \o RequireConfirmationCtx(p)
        \o (IF p.dryRun THEN Rehearse("sync") ELSE Write("target", "ours", Present))
        \o Answer("done")

\* Each list, and where it has an item, that item by its name.
probeListed(list, item) == Try(list) \o Try(item)
argocd_check(p) ==
    Check(p, "no instances") \o Check(p, "client")
        \o probeListed("applications", "application") \o probeListed("clusters", "cluster")
        \o probeListed("projects", "project") \o probeListed("repositories", "repository")
        \o Try("certificates") \o Answer("data")

-----------------------------------------------------------------------------
\* Alertmanager: alertmanager_alert_write changes nothing, it returns manifests
\* for other tools to apply, and the registry builds it read-only.
alertmanagerReadTools == {"alertmanager_instance_list", "alertmanager_alert",
                          "alertmanager_alert_write"}

alertmanager_instance_list(p) == Answer("data")

\* The token of a page is an index into what was found this time.
PaginateWindow(p) == Check(p, "paginate token")

alertmanager_alert(p) ==
    ValidateStruct(p) \o CompileMatcher(p) \o InstanceKnown(p) \o Ask("alerts")
        \o PaginateWindow(p) \o Answer("data")

buildRuleGuidance == Answer("data")
buildDeleteGuidance == Answer("data")
alertmanager_alert_write(p) ==
    ValidateStruct(p) \o InstanceKnown(p) \o Check(p, "no alertname")
        \o Check(p, "unsupported operation")
        \o (IF p.mode = "delete" THEN buildDeleteGuidance ELSE buildRuleGuidance)

alertmanager_check(p) ==
    Check(p, "no instances") \o Check(p, "client") \o Try("alerts") \o Answer("data")

-----------------------------------------------------------------------------
prometheusReadTools == {"prometheus_instance_list", "prometheus_metric",
                        "prometheus_target_list"}

prometheus_instance_list(p) == Answer("data")

\* A query that looks too far back, or a range that is too long or too fine, is
\* refused before it is sent.
RangeOf(p) ==
    Check(p, "start, end or step missing") \o Check(p, "start") \o Check(p, "end")
        \o Check(p, "step") \o Check(p, "step too short") \o Check(p, "window too long")
prometheus_metric(p) ==
    ValidateStruct(p) \o Check(p, "subquery too long") \o CompileMatcher(p)
        \o InstanceKnown(p) \o Check(p, "unsupported mode")
        \o (IF p.mode = "range" THEN RangeOf(p) ELSE Check(p, "time"))
        \o Ask("query") \o Check(p, "type of the result") \o Answer("data")

prometheus_target_list(p) == ListOf(p)

prometheus_check(p) ==
    Check(p, "no instances") \o Check(p, "client") \o Try("query") \o Try("targets")
        \o Answer("data")

-----------------------------------------------------------------------------
s3ReadTools == {"s3_list_buckets", "s3_list_objects", "s3_get_usage",
                "s3_list_objects_with_size", "s3_get_lifecycle"}

s3_list_buckets(p) == Answer("data")

\* Pages are asked for as long as the server says that there are more.
AllPages == Ask("page") \o Ask("next page")
s3_list_objects(p) ==
    ValidateStruct(p) \o CompileMatcher(p) \o InstanceKnown(p) \o AllPages
        \o Answer("data")
s3_list_objects_with_size(p) ==
    ValidateStruct(p) \o CompileMatcher(p) \o InstanceKnown(p) \o AllPages
        \o Answer("data")
s3_get_usage(p) == ValidateStruct(p) \o InstanceKnown(p) \o AllPages \o Answer("data")

\* A bucket without a lifecycle is an answer, not an error.
s3_get_lifecycle(p) ==
    ValidateStruct(p) \o InstanceKnown(p) \o Read("target") \o Answer("data")

s3_check(p) ==
    Check(p, "no instances") \o Check(p, "client") \o Try("list") \o Try("lifecycle")
        \o Answer("data")

-----------------------------------------------------------------------------
\* The clients of all instances, and the tools on them.
argocdClients(p) == Check(p, "configuration") \o Check(p, "URL scheme") \o Check(p, "client")
argocd_new(p) == Check(p, "no instances") \o argocdClients(p) \o WithSafety(p)

alertmanagerClients(p) ==
    Check(p, "configuration") \o Check(p, "URL scheme") \o Check(p, "timeout") \o Check(p, "URL")
alertmanager_new(p) == alertmanagerClients(p) \o WithSafety(p)

prometheusClients(p) == Check(p, "configuration") \o Check(p, "transport") \o Check(p, "client")
prometheus_new(p) == prometheusClients(p) \o WithSafety(p)

s3Clients(p) == Check(p, "configuration") \o Check(p, "certificate") \o Check(p, "AWS configuration")
s3_new(p) == s3Clients(p) \o WithSafety(p)

MonitoringSteps(t, p, seen) ==
    CASE t = "argocd_instance_list" -> argocd_instance_list(p)
      [] t = "argocd_application_list" -> argocd_application_list(p)
      [] t = "argocd_certificate_list" -> argocd_certificate_list(p)
      [] t = "argocd_cluster_list" -> argocd_cluster_list(p)
      [] t = "argocd_project_list" -> argocd_project_list(p)
      [] t = "argocd_repository_list" -> argocd_repository_list(p)
      [] t = "argocd_application_describe" -> argocd_application_describe(p, seen)
      [] t = "argocd_cluster_describe" -> argocd_cluster_describe(p, seen)
      [] t = "argocd_project_describe" -> argocd_project_describe(p, seen)
      [] t = "argocd_repository_describe" -> argocd_repository_describe(p, seen)
      [] t = "argocd_application_create" -> argocd_application_create(p)
      [] t = "argocd_application_delete" -> argocd_application_delete(p, seen)
      [] t = "argocd_application_sync" -> argocd_application_sync(p)
      [] t = "argocd_check" -> argocd_check(p)
      [] t = "alertmanager_instance_list" -> alertmanager_instance_list(p)
      [] t = "alertmanager_alert" -> alertmanager_alert(p)
      [] t = "alertmanager_alert_write" -> alertmanager_alert_write(p)
      [] t = "alertmanager_check" -> alertmanager_check(p)
      [] t = "prometheus_instance_list" -> prometheus_instance_list(p)
      [] t = "prometheus_metric" -> prometheus_metric(p)
      [] t = "prometheus_target_list" -> prometheus_target_list(p)
      [] t = "prometheus_check" -> prometheus_check(p)
      [] t = "s3_list_buckets" -> s3_list_buckets(p)
      [] t = "s3_list_objects" -> s3_list_objects(p)
      [] t = "s3_list_objects_with_size" -> s3_list_objects_with_size(p)
      [] t = "s3_get_usage" -> s3_get_usage(p)
      [] t = "s3_get_lifecycle" -> s3_get_lifecycle(p)
      [] t = "s3_check" -> s3_check(p)
      [] t = "argocd_new" -> argocd_new(p)
      [] t = "alertmanager_new" -> alertmanager_new(p)
      [] t = "prometheus_new" -> prometheus_new(p)
      [] t = "s3_new" -> s3_new(p)

MonitoringModes(t) ==
    CASE t = "argocd_application_create" -> {"plain", "upsert"}
      [] t = "alertmanager_alert_write" -> {"rule", "delete"}
      [] t = "prometheus_metric" -> {"instant", "range"}
      [] OTHER -> {"plain"}
=============================================================================
