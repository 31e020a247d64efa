----------------------------- MODULE MCToolCalls -----------------------------
EXTENDS ToolDiscipline, Toolbox

AllTools == kubernetesTools \cup grafanaTools \cup githubTools \cup monitoringTools
                \cup searchAndConvertTools \cup fileTools \cup shellAndPipeTools \cup clientCalls
AllWriteTools == kubernetesWriteTools \cup grafanaWriteTools \cup githubWriteTools
                     \cup argocdWriteTools \cup fileWriteTools
AllDirectTools == githubDirectTools \cup shellTools \cup clientCalls
AllDryRunTools == AllWriteTools \cup githubDirectTools \cup shellTools
AllHeldTools == {"conversation_get", "conversation_delete", "conversation_append",
                 "conversation_load"}
AllMoveTools == {"github_file_move", "file_move"}
AllCopyTools == AllMoveTools \cup {"github_file_write", "github_file_copy", "file_copy",
                                  "grafana_dashboard_write"}
                    \cup AllHeldTools
AllPathTools == AllMoveTools \cup {"github_file_write", "github_file_copy", "file_write",
                                  "file_copy"}
AllBlindModes == {"delete"} \cup Overwriting
AllPushTools == {"github_file_write"}
AllRehearsingTools == {"argocd_application_sync"}
AllGuardedTools == {"grafana_dashboard_write"}
AllProbes == {"kubernetes_check", "grafana_check", "github_check", "argocd_check",
              "alertmanager_check", "prometheus_check", "s3_check", "opensearch_check",
              "opensearch_retriever_check", "websearch_check", "file_check", "shell_check",
              "pipe_check", "kubernetes_new", "grafana_new", "github_new", "argocd_new",
              "alertmanager_new", "prometheus_new", "s3_new", "opensearch_new",
              "opensearch_retriever_new", "file_new", "shell_new", "pipe_new",
              "egress_connect"}
                 \cup clientCalls
AllSessionTools == fileReadTools \cup fileWriteTools \cup githubDirectTools
                       \cup {"github_file_read", "github_file_list", "github_file_search"}
AllLateChecks == {"output line too long", "save response", "delete response", "unknown instance at the push",
                  "first exit code", "first output too large", "second no command",
                  "second blocked command", "second exit code", "second output too large",
                  "first refused documents", "second nil document", "second fields",
                  "second refused documents", "failures", "indexer", "retriever", "document"}
=============================================================================
