----------------------------- MODULE GrafanaTools -----------------------------
(***************************************************************************)
(* The tools of components/tool/grafana.  The target of a call is the      *)
(* dashboard or the datasource it names; a dashboard that the instance's   *)
(* configuration protects has the contents "guarded".  The second object   *)
(* is the dashboard that a create writes beside the one it has read.       *)
(***************************************************************************)
EXTENDS ToolSteps

\* Which tools the registry builds, and which of them it declares as writing.
grafanaReadTools == {"grafana_instance_list", "grafana_dashboard", "grafana_datasource",
                     "grafana_query", "grafana_dashboard_validate"}
grafanaWriteTools == {"grafana_dashboard_write"}

grafana_instance_list(p) == Answer("data")

\* The requests of the client.  A status other than 2xx is an error; the one for
\* a version that was overtaken has an error of its own.
SearchDashboards == Ask("search")
GetDashboard(seen) == Read("target") \o MustExist(seen, "target")
GetDataSource(seen) == Read("target") \o MustExist(seen, "target")
ListDataSources == Ask("list")
PostDashboard(versions) == Write("target", "ours", versions)

\* One dashboard by its uid, or a search whose matches are filtered.
grafana_dashboard(p, seen) ==
    ValidateStruct(p) \o InstanceKnown(p)
        \o (IF p.mode = "get"
            THEN GetDashboard(seen) \o Check(p, "excludeFieldsOutput")
            ELSE CompileMatcher(p) \o SearchDashboards)
        \o Answer("data")

grafana_datasource(p, seen) ==
    ValidateStruct(p) \o InstanceKnown(p)
        \o (IF p.mode = "get"
            THEN GetDataSource(seen)
            ELSE CompileMatcher(p) \o ListDataSources)
        \o Answer("data")

\* The times of a query: each empty, "now", relative, RFC 3339 or Unix seconds.
ParseQueryTime(p) == Check(p, "time") \o When(p.mode = "range", Check(p, "start"))

\* The query goes through Grafana's proxy; the type of the result must be one of
\* those the two APIs return.
QueryProxy == Ask("proxy query")
ParseProxyQueryResult(p) == Check(p, "proxy response") \o Check(p, "unsupported result type")

\* Without a hint the datasource is read for its type, which selects the API.
ExecuteQuery(p, seen) ==
    InstanceKnown(p)
        \o When(p.mode # "hinted", GetDataSource(seen))
        \o Check(p, "unsupported datasource") \o QueryProxy \o ParseProxyQueryResult(p)

grafana_query(p, seen) ==
    ValidateStruct(p) \o ParseQueryTime(p) \o ExecuteQuery(p, seen) \o Answer("data")

\* The panels, those of rows and of the old layout too, and of each its queries;
\* a query that fails is a verdict about its panel, and no error of the call.
CollectPanels(p) == Check(p, "no such panel")
PanelQueries(nth) == Try(nth \o " panel query")
ValidatePanel(nth) == PanelQueries(nth)
grafana_dashboard_validate(p, seen) ==
    ValidateStruct(p) \o ParseQueryTime(p) \o InstanceKnown(p)
        \o GetDashboard(seen) \o CollectPanels(p)
        \o ValidatePanel("first") \o ValidatePanel("second") \o Answer("data")

\* Mutant: a protected dashboard is let through.
LetProtectedThrough(seen) == <<>>

\* isProtected, by uid, by title and by folder, of the dashboard as it is and of
\* the model that would replace it.
CheckProtectedDashboard(seen) == Require(seen["target"] # "guarded", "protected dashboard")
CheckProtectedModel(p) == Check(p, "protected model")

\* What a call that saves names and asks for.  "new": no uid, in the call or in the
\* model.  "beside": a create whose call names another uid than its model, or one
\* that its model does not name.  Changes come without a model, and, like
\* everything but these two, with one uid, also for a create whose model has one.
Changing == {"changes", "overwrite changes"}
Overwriting == {"overwrite", "overwrite changes"}

\* A uid has the dashboard read first, for its protection, for the changes to be
\* applied to it and for its version, which the server compares unless the call
\* overwrites.
ExistingDashboard(p, seen) ==
    Check(p, "uid") \o Read("target") \o CheckProtectedDashboard(seen)

\* The save goes to the uid of the model: with a create beside, not to the dashboard
\* that was read, whose version it may carry.
Save(p, seen) ==
    CASE p.mode = "new" -> PostDashboard({"none"})
      [] p.mode = "beside" -> Write("copy", "ours", Contents)
      [] p.mode \in Overwriting -> PostDashboard(Contents)
      [] OTHER -> PostDashboard({seen["target"]})

SaveDashboard(p, seen) ==
    Check(p, "no dashboard and no changes")
        \o When(p.mode \notin Changing, Check(p, "changes need an update"))
        \o Check(p, "changes") \o Check(p, "dashboard JSON")
        \o (IF p.mode = "new" THEN Check(p, "changes without a uid")
            ELSE ExistingDashboard(p, seen))
        \o When(p.mode \in Changing, MustExist(seen, "target"))
        \o Check(p, "title") \o CheckProtectedModel(p)
        \o When(p.dryRun, Answer("preview"))
        \o Save(p, seen) \o Check(p, "save response") \o Answer("done")

DeleteDashboard(p, seen) ==
    Check(p, "uid") \o GetDashboard(seen) \o CheckProtectedDashboard(seen)
        \o When(p.dryRun, Answer("preview"))
        \o Write("target", "none", Present)
        \o Check(p, "delete response") \o Answer("done")

grafana_dashboard_write(p, seen) ==
    ValidateStruct(p) \o RequireConfirmationCtx(p) \o InstanceKnown(p)
        \o Check(p, "unsupported operation")
        \o (IF p.mode = "delete" THEN DeleteDashboard(p, seen) ELSE SaveDashboard(p, seen))

\* The health check searches and lists, asks for the first that was found, and
\* runs a query and a validation on it.
probeDashboard(seen) == Peek("target") \o When(seen["target"] \in Present, Try("dashboard"))
probeDataSource == Try("datasources") \o Try("datasource")
probeQuery == Try("datasources") \o Try("query")
probeDashboardValidate == Try("search") \o Try("panels")
grafana_check(p, seen) ==
    Check(p, "no instances") \o Check(p, "client") \o probeDashboard(seen) \o probeDataSource
        \o probeQuery \o probeDashboardValidate \o Answer("data")

\* The clients and the protections of all instances.
grafanaClients(p) == Check(p, "configuration") \o Check(p, "URL scheme") \o Check(p, "timeout")
grafanaBase(p) == Check(p, "no instances") \o grafanaClients(p)
grafana_new(p) == grafanaBase(p) \o WithSafety(p)

GrafanaSteps(t, p, seen) ==
    CASE t = "grafana_instance_list" -> grafana_instance_list(p)
      [] t = "grafana_dashboard" -> grafana_dashboard(p, seen)
      [] t = "grafana_datasource" -> grafana_datasource(p, seen)
      [] t = "grafana_query" -> grafana_query(p, seen)
      [] t = "grafana_dashboard_validate" -> grafana_dashboard_validate(p, seen)
      [] t = "grafana_dashboard_write" -> grafana_dashboard_write(p, seen)
      [] t = "grafana_check" -> grafana_check(p, seen)
      [] t = "grafana_new" -> grafana_new(p)

GrafanaModes(t) ==
    CASE t \in {"grafana_dashboard", "grafana_datasource"} -> {"get", "list"}
      [] t = "grafana_query" -> {"instant", "range", "hinted"}
      [] t = "grafana_dashboard_write" -> {"new", "update", "beside", "delete"}
                                               \cup Changing \cup Overwriting
      [] OTHER -> {"plain"}
=============================================================================
