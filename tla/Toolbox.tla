------------------------------- MODULE Toolbox -------------------------------
(***************************************************************************)
(* All tools together: for each its steps and its modes, by package.       *)
(***************************************************************************)
EXTENDS KubernetesTools, GrafanaTools, GithubTools, MonitoringTools, SearchTools,
        FileTools, ShellTools, OpenSearchClients

kubernetesTools == kubernetesReadTools \cup kubernetesWriteTools
                       \cup {"kubernetes_check", "kubernetes_new"}
grafanaTools == grafanaReadTools \cup grafanaWriteTools \cup {"grafana_check", "grafana_new"}
githubTools == githubReadTools \cup githubWriteTools \cup githubDirectTools
                   \cup {"github_check", "github_new"}
monitoringTools == argocdReadTools \cup argocdWriteTools \cup alertmanagerReadTools
                       \cup prometheusReadTools \cup s3ReadTools
                       \cup {"argocd_check", "alertmanager_check", "prometheus_check", "s3_check",
                             "argocd_new", "alertmanager_new", "prometheus_new", "s3_new"}
searchAndConvertTools == searchTools
                       \cup {"opensearch_check", "opensearch_retriever_check", "websearch_check",
                             "opensearch_new", "opensearch_retriever_new"}
fileTools == fileReadTools \cup fileWriteTools \cup {"file_check", "file_new"}
shellAndPipeTools == shellTools \cup {"shell_check", "pipe_check", "shell_new", "pipe_new",
                                    "egress_connect"}

clientCalls == conversationCalls \cup memoryStoreCalls \cup documentCalls \cup clientChecks

ToolboxSteps(t, p, seen) ==
    CASE t \in kubernetesTools -> KubernetesSteps(t, p, seen)
      [] t \in grafanaTools -> GrafanaSteps(t, p, seen)
      [] t \in githubTools -> GithubSteps(t, p, seen)
      [] t \in monitoringTools -> MonitoringSteps(t, p, seen)
      [] t \in searchAndConvertTools -> SearchSteps(t, p, seen)
      [] t \in fileTools -> FileSteps(t, p, seen)
      [] t \in shellAndPipeTools -> ShellSteps(t, p, seen)
      [] t \in clientCalls -> ClientSteps(t, p, seen)

ToolboxModes(t) ==
    CASE t \in kubernetesTools -> KubernetesModes(t)
      [] t \in grafanaTools -> GrafanaModes(t)
      [] t \in githubTools -> GithubModes(t)
      [] t \in monitoringTools -> MonitoringModes(t)
      [] t \in searchAndConvertTools -> SearchModes(t)
      [] t \in fileTools -> FileModes(t)
      [] t \in shellAndPipeTools -> ShellModes(t)
      [] t \in clientCalls -> ClientModes(t)
=============================================================================
