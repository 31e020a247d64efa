----------------------------- MODULE GithubTools -----------------------------
(***************************************************************************)
(* The tools of components/tool/github.  The target of a call is the       *)
(* issue, the pull request, the hook or the settings it names, or, for the *)
(* tools on a clone, a file of it or the clone itself; the second object   *)
(* is the destination of a copy or a move, and for a write to a file the   *)
(* branch of the remote repository it is pushed to.                        *)
(***************************************************************************)
EXTENDS ToolSteps

\* Which tools the registry builds read-only: the ones that work on a clone in
\* the session's directory are among them, and say that they execute directly.
githubReadTools == {"github_instance_list", "github_issue_list", "github_issue_get",
                    "github_pr_list", "github_pr_get", "github_org_repo_list",
                    "github_repo_search", "github_file_read", "github_file_search",
                    "github_file_list"}
githubDirectTools == {"github_repo_clone", "github_repo_pull", "github_file_write",
                      "github_file_delete", "github_file_copy", "github_file_move"}

\* The tools the registry declares as writing.
githubWriteTools == {"github_branch_create", "github_release_create", "github_issue_create",
                     "github_issue_comment", "github_pr_create", "github_pr_comment",
                     "github_pr_review", "github_pr_suggest_change",
                     "github_pr_request_reviewers", "github_repo_settings_update",
                     "github_webhook_upsert"}

github_instance_list(p) == Answer("data")

\* Pages are asked for until there is no next one or their number is reached.
PaginateList == Ask("page") \o Ask("next page")

GithubList(p) ==
    ValidateStruct(p) \o CompileMatcher(p) \o InstanceKnown(p) \o PaginateList
        \o Answer("data")
github_issue_list(p) == GithubList(p)
github_pr_list(p) == GithubList(p)
github_org_repo_list(p) == GithubList(p)
github_repo_search(p) == GithubList(p)

\* applyExcludes: the fields to leave out must be ones the tool knows.
ApplyExcludes(p) == Check(p, "excludeFieldsOutput")

github_issue_get(p, seen) ==
    ValidateStruct(p) \o InstanceKnown(p) \o Read("target") \o MustExist(seen, "target")
        \o ApplyExcludes(p) \o Answer("data")
github_pr_get(p, seen) == github_issue_get(p, seen)

-----------------------------------------------------------------------------
\* A tool that adds something to a repository: the dry run answers before
\* anything else is looked at, the confirmation is asked for before the client.
Guarded(p) ==
    ValidateStruct(p) \o When(p.dryRun, Answer("preview"))
        \o RequireConfirmationForActionCtx(p)
Creation(p) ==
    Guarded(p) \o InstanceKnown(p) \o Write("target", "ours", {"none"}) \o Answer("done")

github_issue_create(p) == Creation(p)
github_issue_comment(p) == Creation(p)
github_pr_create(p) == Creation(p)
github_pr_comment(p) == Creation(p)
github_pr_review(p) == Creation(p)
github_pr_suggest_change(p) == Creation(p)
github_pr_request_reviewers(p) == Creation(p)
github_release_create(p) == Creation(p)

\* A remote branch starts at the base or at the default branch, whose commit is
\* asked for; a local one is checked out of the session's clone.
github_branch_create(p, seen) ==
    Guarded(p)
        \o (IF p.mode = "local"
            THEN SessionFromContext(p) \o Check(p, "not cloned") \o Check(p, "base branch")
            ELSE InstanceKnown(p)
                     \o When(p.mode = "remote", Ask("default branch"))
                     \o Ask("base ref"))
        \o Write("target", "ours", {"none"}) \o Answer("done")

\* The settings are read, changed where the arguments say so, and written back
\* whole, without a version: what others have changed meanwhile is overwritten.
github_repo_settings_update(p, seen) ==
    Guarded(p) \o InstanceKnown(p) \o Read("target") \o MustExist(seen, "target")
        \o Write("target", "ours", Present) \o Answer("done")

\* The address must be https and, also after a lookup, lie outside the private
\* networks; a lookup that fails is let through.
ValidateWebhookURL(p) ==
    Check(p, "not https") \o Check(p, "URL") \o Check(p, "private address")
        \o Try("lookup") \o Check(p, "private address by lookup")

github_webhook_upsert(p) ==
    ValidateStruct(p) \o ValidateWebhookURL(p)
        \o When(p.dryRun, Answer("preview"))
        \o RequireConfirmationForActionCtx(p) \o InstanceKnown(p)
        \o Write("target", "ours", IF p.mode = "edit" THEN Present ELSE {"none"})
        \o Answer("done")

-----------------------------------------------------------------------------
\* The directory of the session's clone, which must exist; using it touches it.
ClonePathForSession(p) == SessionFromContext(p)
EnsureCloneExists(p) == Check(p, "not cloned")
TouchCloneSession == Ask("touch the session's directory")
OpenClone(p) == ClonePathForSession(p) \o EnsureCloneExists(p) \o TouchCloneSession

\* A clone replaces the one that was there: it is removed first, and a clone
\* that fails leaves none.
github_repo_clone(p) ==
    ValidateStruct(p) \o ClonePathForSession(p)
        \o When(p.dryRun, Answer("preview"))
        \o InstanceKnown(p) \o Discard("target")
        \o Write("target", "ours", {"none"})
        \o TouchCloneSession \o Answer("done")

\* A pull wants a clean worktree and only winds it forward.
github_repo_pull(p, seen) ==
    ValidateStruct(p) \o ClonePathForSession(p)
        \o When(p.dryRun, Peek("target") \o Answer("preview"))
        \o InstanceKnown(p) \o Read("target") \o MustExist(seen, "target")
        \o Require(seen["target"] # "theirs", "uncommitted changes")
        \o Check(p, "detached HEAD")
        \o Write("target", "ours", {"old"})
        \o TouchCloneSession \o Answer("done")

\* Reading, searching and listing stay below the clone and outside .git.
github_file_read(p, seen) ==
    ValidateStruct(p) \o Check(p, "line range") \o OpenClone(p)
        \o RejectDotGitPath(p, "path") \o ValidateRelativePath(p, "path")
        \o ResolveSymlinkSafe(p, "path") \o Check(p, "directory")
        \o Read("target") \o MustExist(seen, "target")
        \o Check(p, "binary") \o Answer("data")

Walk(p) ==
    OpenClone(p) \o RejectDotGitPath(p, "path") \o ValidateRelativePath(p, "path")
        \o Check(p, "symlink") \o Ask("walk") \o Answer("data")
github_file_list(p) == ValidateStruct(p) \o Walk(p)
github_file_search(p) == ValidateStruct(p) \o Check(p, "pattern") \o Walk(p)

\* The file is written, staged and committed in the clone, on a branch that is
\* created where it is missing, and pushed without force.  The directories above
\* it are made before the branch is looked for.  The instance is
\* looked up for the push only, when the commit is already there.
github_file_write(p, seen) ==
    ValidateStruct(p) \o When(p.dryRun, Answer("preview"))
        \o Check(p, "too large") \o OpenClone(p)
        \o RejectDotGitPath(p, "path") \o ValidateRelativePath(p, "path")
        \o ResolveCreating(p, "path", seen) \o Check(p, "directory")
        \o Ask("checkout") \o Check(p, "base branch")
        \o WriteFile \o Ask("commit")
        \o Check(p, "unknown instance at the push")
        \o Write("copy", "ours", {"none", "old"}) \o Answer("done")

RejectCloneRootPath(p) == Check(p, "clone root")

\* A dry run makes the same checks, but does not touch the session.
github_file_delete(p, seen) ==
    ValidateStruct(p) \o ClonePathForSession(p) \o EnsureCloneExists(p)
        \o When(~p.dryRun, TouchCloneSession)
        \o RejectDotGitPath(p, "path") \o RejectCloneRootPath(p)
        \o ValidateRelativePath(p, "path") \o ResolveSymlinkSafe(p, "path")
        \o Read("target") \o MustExist(seen, "target")
        \o When(p.dryRun, Answer("preview"))
        \o RemoveContents(p) \o Answer("done")

\* The preview of a copy or a move looks at less than the transfer itself: not
\* at what the destination is, nor whether it lies inside the source.
TransferDryRunPreview(p, seen) ==
    RejectDotGitPath(p, "source") \o RejectDotGitPath(p, "destination")
        \o ValidateRelativePath(p, "source") \o ValidateRelativePath(p, "destination")
        \o ResolveSymlinkSafe(p, "source")
        \o Read("target") \o MustExist(seen, "target") \o Answer("preview")

\* The directories above the destination are made before the paths are compared
\* and before it is looked at what the destination is.
ValidateTransferPaths(p, seen) ==
    RejectDotGitPath(p, "source") \o RejectDotGitPath(p, "destination")
        \o ValidateRelativePath(p, "source") \o ResolveSymlinkSafe(p, "source")
        \o Read("target") \o MustExist(seen, "target")
        \o ValidateRelativePath(p, "destination") \o ResolveCreating(p, "destination", seen)
        \o Check(p, "same path") \o Check(p, "inside the source")
        \o Check(p, "destination is a symlink") \o Check(p, "file and directory")

Transfer(p, seen) ==
    ValidateStruct(p) \o Check(p, "same name")
        \o ClonePathForSession(p) \o EnsureCloneExists(p)
        \o When(p.dryRun, TransferDryRunPreview(p, seen))
        \o TouchCloneSession \o ValidateTransferPaths(p, seen)

github_file_copy(p, seen) == Transfer(p, seen) \o CopyContents(p, seen) \o Answer("done")

github_file_move(p, seen) == Transfer(p, seen) \o MoveContents(p, seen) \o Answer("done")

\* The health check: what is found first is asked for again by its name, in the
\* repository that a search has found.
probeIssues == Try("issues") \o Try("issue")
probePRs == Try("pull requests") \o Try("pull request")
github_check(p, seen) ==
    Check(p, "no instances") \o Check(p, "client") \o Peek("target")
        \o When(seen["target"] \in {"none", "error"}, Answer("data"))
        \o probeIssues \o probePRs \o Try("repositories of the owner") \o Answer("data")

\* The instances must agree on the directory of the clones, on whether a session
\* is required and on the size of a copy.
githubClients(p) == Check(p, "no configuration") \o Check(p, "configuration") \o Check(p, "URL")
githubBase(p) ==
    Check(p, "no instances") \o Check(p, "two directories") \o Check(p, "two session rules")
        \o Check(p, "two sizes") \o Check(p, "directory of the clones") \o githubClients(p)
github_new(p) == githubBase(p) \o WithSafety(p)

GithubSteps(t, p, seen) ==
    CASE t = "github_instance_list" -> github_instance_list(p)
      [] t = "github_issue_list" -> github_issue_list(p)
      [] t = "github_issue_get" -> github_issue_get(p, seen)
      [] t = "github_pr_list" -> github_pr_list(p)
      [] t = "github_pr_get" -> github_pr_get(p, seen)
      [] t = "github_org_repo_list" -> github_org_repo_list(p)
      [] t = "github_repo_search" -> github_repo_search(p)
      [] t = "github_repo_clone" -> github_repo_clone(p)
      [] t = "github_repo_pull" -> github_repo_pull(p, seen)
      [] t = "github_file_read" -> github_file_read(p, seen)
      [] t = "github_file_list" -> github_file_list(p)
      [] t = "github_file_search" -> github_file_search(p)
      [] t = "github_file_write" -> github_file_write(p, seen)
      [] t = "github_file_delete" -> github_file_delete(p, seen)
      [] t = "github_file_copy" -> github_file_copy(p, seen)
      [] t = "github_file_move" -> github_file_move(p, seen)
      [] t = "github_branch_create" -> github_branch_create(p, seen)
      [] t = "github_release_create" -> github_release_create(p)
      [] t = "github_issue_create" -> github_issue_create(p)
      [] t = "github_issue_comment" -> github_issue_comment(p)
      [] t = "github_pr_create" -> github_pr_create(p)
      [] t = "github_pr_comment" -> github_pr_comment(p)
      [] t = "github_pr_review" -> github_pr_review(p)
      [] t = "github_pr_suggest_change" -> github_pr_suggest_change(p)
      [] t = "github_pr_request_reviewers" -> github_pr_request_reviewers(p)
      [] t = "github_repo_settings_update" -> github_repo_settings_update(p, seen)
      [] t = "github_webhook_upsert" -> github_webhook_upsert(p)
      [] t = "github_check" -> github_check(p, seen)
      [] t = "github_new" -> github_new(p)

GithubModes(t) ==
    CASE t = "github_branch_create" -> {"local", "remote", "remote with a base"}
      [] t = "github_webhook_upsert" -> {"create", "edit"}
      [] t = "github_file_delete" -> {"file", "directory"}
      [] t = "github_file_copy" -> {"file"} \cup Directories
      [] t = "github_file_move" -> {"rename", "file"} \cup Directories
      [] OTHER -> {"plain"}
=============================================================================
