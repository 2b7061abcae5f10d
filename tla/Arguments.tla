------------------------------- MODULE Arguments -------------------------------
(***************************************************************************)
(* What the arguments of an upload mean (upload/helpers.py): the branch,   *)
(* the pull request and the commit it is for, the repository it goes to,   *)
(* and, when there is no token, whether the build that the arguments name  *)
(* is one of the repository that runs now (upload/tokenless).  And what    *)
(* those of a task mean (services/task): whose plan it is routed by.       *)
(*                                                                         *)
(* A branch is [prefix, name, pull]: "origin/", "refs/heads/" or none, the *)
(* rest, and the number after "pull/" or "pr/" in it, or Nothing.  Times   *)
(* are minutes; a build's are minutes ago.                                 *)
(***************************************************************************)
EXTENDS Absent, Integers, Sequences, FiniteSets, TLC

-----------------------------------------------------------------------------
(***************************************************************************)
(* parse_params: cerberus takes the defaults first, then coerces           *)
(***************************************************************************)
Branch(b) ==
    IF b = Nothing \/ (b.prefix = "" /\ b.name = "HEAD") THEN Nothing ELSE [b EXCEPT !.prefix = ""]

Pr(a) ==
    LET pr == IF a.pr = Nothing THEN a.pull_request ELSE a.pr
    IN IF pr \in {"false", "null", "undefined"} THEN Nothing ELSE pr

\* bug: the branch stays although it names a pull request
KeepsBranch(branch, pr, default) ==
    IF branch = Nothing /\ pr = Nothing THEN default ELSE branch

determine_upload_branch_to_use(branch, pr, default) ==
    IF branch = Nothing /\ pr = Nothing THEN default
    ELSE IF branch # Nothing /\ branch.pull = Nothing THEN branch ELSE Nothing

determine_upload_pr_to_use(branch, pr) ==
    IF branch # Nothing /\ branch.pull # Nothing THEN branch.pull
    ELSE IF pr = "true" THEN Nothing ELSE pr

-----------------------------------------------------------------------------
(***************************************************************************)
(* Tokenless uploads.  A build is what the CI says of the build named:     *)
(* [slug, sha, prsha, pull, public, number, status, finished, host],  *)
(* slug, sha, prsha and number saying whether it has those of the upload.  *)
(***************************************************************************)
\* a build that had finished four, or ten, minutes ago is still taken
Within(minutes, b) == b.finished # Nothing /\ b.finished <= minutes
Over(b) == b.finished # Nothing

\* jobs of the build that are not finished; the commit is not asked for
Appveyor(b, a) == "job" \in a.given /\ b.number /\ ~Over(b)

Azure(b, a) ==
    /\ {"job", "project", "server_uri"} \subseteq a.given
    /\ IF b.status = "completed" THEN Within(4, b) ELSE b.status = "inprogress"
    /\ b.number /\ (b.sha \/ b.prsha)

Circleci(b, a) == {"build", "owner", "repo"} \subseteq a.given /\ b.sha /\ ~Over(b)

\* bug: a build that does not execute is taken whenever it ended
CirrusAny(b, a) == {"owner", "repo", "commit"} \subseteq a.given /\ b.slug /\ b.sha

\* finished is the creation and the duration together
Cirrus(b, a) ==
    /\ {"owner", "repo", "commit"} \subseteq a.given
    /\ b.slug /\ b.sha
    /\ b.status # "executing" => Within(4, b)

GithubActions(b, a) ==
    /\ {"owner", "repo"} \subseteq a.given
    /\ b.public /\ b.slug /\ (b.sha \/ "pr" \in a.given)
    /\ b.status \notin {"inprogress", "queued"} => Within(10, b)

Travis(b, a) ==
    /\ b.slug /\ (b.sha \/ b.pull)
    /\ IF Over(b) THEN Within(4, b) ELSE b.status = "started"

Hosts == {"github", "gitlab", "bitbucket"}

\* TokenlessUploadHandler: the git host of a verified build, or Nothing (NotFound)
verify_upload(ci, b, a) ==
    CASE ci = "appveyor" -> IF Appveyor(b, a) /\ b.host \in Hosts THEN b.host ELSE Nothing
      [] ci = "azure_pipelines" -> IF Azure(b, a) /\ b.host \in Hosts THEN b.host ELSE Nothing
      [] ci = "circleci" -> IF Circleci(b, a) THEN b.host ELSE Nothing
      [] ci = "cirrus_ci" -> IF Cirrus(b, a) THEN "github" ELSE Nothing
      [] ci = "github_actions" -> IF GithubActions(b, a) THEN "github" ELSE Nothing
      [] ci = "travis" -> IF Travis(b, a) THEN "github" ELSE Nothing
      [] OTHER -> Nothing

-----------------------------------------------------------------------------
(***************************************************************************)
(* determine_repo_for_upload: a row is [token, host, slug]                 *)
(***************************************************************************)
One(S) == IF Cardinality(S) = 1 THEN CHOOSE x \in S : TRUE ELSE Nothing

\* bug: a service named besides a token takes its place
ByService(a, rows, host) ==
    IF host # Nothing THEN One({r \in rows : r.host = host /\ r.slug = a.slug})
    ELSE IF a.token # Nothing THEN One({r \in rows : r.token = a.token})
    ELSE Nothing

\* host is what verify_upload, or the global token's service, says
determine_repo_for_upload(a, rows, host) ==
    IF a.token # Nothing THEN One({r \in rows : r.token = a.token})
    ELSE IF host # Nothing THEN One({r \in rows : r.host = host /\ r.slug = a.slug})
    ELSE Nothing

-----------------------------------------------------------------------------
(***************************************************************************)
(* determine_upload_commit_to_use.  A credential is Nothing or a token.    *)
(***************************************************************************)
\* bug: the shared bot is used for private repositories as well
AnyBot(r) ==
    IF r.bot # Nothing THEN r.bot
    ELSE IF r.orgbot # Nothing THEN r.orgbot
    ELSE IF r.author # Nothing THEN r.author ELSE "shared"

try_to_get_best_possible_bot_token(r) ==
    IF r.bot # Nothing THEN r.bot
    ELSE IF r.orgbot # Nothing THEN r.orgbot
    ELSE IF r.author # Nothing THEN r.author
    ELSE IF ~r.private THEN "shared" ELSE Nothing

\* the provider's answer is Nothing when it cannot be had, and the first of the two commits
\* that a merge commit names, if it is one
determine_upload_commit_to_use(commit, host, changed, r, merged) ==
    IF /\ host = "github" /\ ~changed
       /\ try_to_get_best_possible_bot_token(r) # Nothing /\ merged # Nothing
    THEN merged ELSE commit

-----------------------------------------------------------------------------
(***************************************************************************)
(* TaskService sends the tasks with their arguments (task.py), the router  *)
(* finds a plan for them (task_router.py).  The map from plans to queues,  *)
(* and the names of the tasks, are of the shared library.                  *)
(***************************************************************************)
\* What each task is sent with: the arguments that name a row, and the table it is of.
\* The other arguments do not matter to the router.
AnalysisTasks ==
    [compute_comparison |-> [comparison_id |-> "comparison"],
     profiling_normalization |-> [profiling_upload_id |-> "profiling_upload"],
     profiling_collection |-> [profiling_id |-> "profiling"],
     label_analysis |-> [request_id |-> "label_request"],
     static_analysis |-> [suite_id |-> "suite"]]

GitTasks ==
    [status_set_pending |-> [repoid |-> "repository"],
     upload |-> [repoid |-> "repository"],
     notify |-> [repoid |-> "repository"],
     pulls |-> [repoid |-> "repository"],
     sync_teams |-> [ownerid |-> "owner"],
     sync_repos |-> [ownerid |-> "owner"],
     ghm_sync_plans |-> [account |-> Nothing],
     delete_owner |-> [ownerid |-> "owner"]]

SeriesTasks ==
    [timeseries_backfill |-> [repoid |-> "repository"],
     timeseries_backfill_dataset |-> [dataset_id |-> "dataset"],
     timeseries_delete |-> [repository_id |-> "repository"]]

ReportTasks ==
    [commit_update |-> [repoid |-> "repository"],
     save_report_results |-> [repoid |-> "repository"],
     http_request |-> [url |-> Nothing],
     flush_repo |-> [repoid |-> "repository"],
     manual_upload_completion_trigger |-> [repoid |-> "repository"]]

SentWith == AnalysisTasks @@ GitTasks @@ SeriesTasks @@ ReportTasks
Tasks == DOMAIN SentWith

Looks(parameter, table) == [parameter |-> parameter, table |-> table]

\* owner_plan_lookup_funcs: the parameter of the function, and the table it looks in
Lookup ==
    [delete_owner |-> Looks("ownerid", "owner"),
     sync_repos |-> Looks("ownerid", "owner"),
     sync_teams |-> Looks("ownerid", "owner"),
     upload |-> Looks("repoid", "repository"),
     notify |-> Looks("repoid", "repository"),
     status_set_error |-> Looks("repoid", "repository"),
     status_set_pending |-> Looks("repoid", "repository"),
     pulls |-> Looks("repoid", "repository"),
     profiling_collection |-> Looks("profiling_id", "profiling"),
     profiling_normalization |-> Looks("profiling_upload_id", "profiling_upload"),
     compute_comparison |-> Looks("comparison_id", "comparison"),
     label_analysis |-> Looks("request_id", "label_request"),
     static_analysis |-> Looks("suite_id", "suite")]

\* bug: the function for profiling commits does for their uploads as well
LookupOfCommits ==
    [Lookup EXCEPT !.profiling_normalization = Looks("profiling_id", "profiling")]

LookedUp == Lookup

\* What the functions follow from a row to its owner
Path ==
    [owner |-> <<"owner">>,
     repository |-> <<"repository", "owner">>,
     profiling |-> <<"profiling", "repository", "owner">>,
     profiling_upload |-> <<"profiling_upload", "profiling", "repository", "owner">>,
     comparison |-> <<"comparison", "compare_commit", "repository", "owner">>,
     label_request |-> <<"label_request", "head_commit", "repository", "owner">>,
     suite |-> <<"suite", "commit", "repository", "owner">>]

(***************************************************************************)
(* An input: [task, plan, gone], where gone are the tables in which the    *)
(* row that is to be followed is not found.                                *)
(***************************************************************************)
RoutingInputs(plans) ==
    [task : Tasks, plan : plans, gone : SUBSET {"owner", "repository", "suite"}]

Follows(task) == LET p == Path[LookedUp[task].table] IN {p[k] : k \in DOMAIN p}

\* _get_user_plan_from_task: also the plan by which compute_comparisons routes a batch,
\* whose comparisons are of one repository
PlanOfTask(i) ==
    IF i.task \notin DOMAIN LookedUp \/ Follows(i.task) \cap i.gone # {}
    THEN "users-basic" ELSE i.plan

-----------------------------------------------------------------------------
\* Every upload goes to a branch or a pull request, unless it says that it is for a pull
\* request and not which; and no upload that names a pull request in its branch is put on a
\* branch besides, or on another pull request.
UploadIsPlaced(a, default) ==
    LET branch == Branch(a.branch)
        on == determine_upload_branch_to_use(branch, Pr(a), default)
        for == determine_upload_pr_to_use(branch, Pr(a))
    IN /\ on = Nothing /\ for = Nothing => Pr(a) = "true"
       /\ branch # Nothing /\ branch.pull # Nothing => on = Nothing /\ for = branch.pull
       /\ Pr(a) = Nothing /\ (branch = Nothing \/ branch.pull = Nothing) =>
              on # Nothing /\ for = Nothing

\* A build is taken for an upload only while it runs or for ten minutes after, four except
\* for GitHub Actions; and whatever the CI, a build that runs, of the repository and the
\* commit of the upload, is taken when all arguments are there and its host is known.
BuildIsCurrent(ci, b, a) ==
    LET host == verify_upload(ci, b, a)
        all == {"job", "build", "owner", "repo", "commit", "project", "server_uri"}
    IN /\ host # Nothing /\ Over(b) =>
              b.finished <= (IF ci = "github_actions" THEN 10 ELSE 4)
       /\ /\ all \subseteq a.given /\ b.slug /\ b.sha /\ b.number /\ b.public /\ ~Over(b)
          /\ b.host \in Hosts
          /\ b.status = (CASE ci = "cirrus_ci" -> "executing" [] ci = "travis" -> "started"
                           [] OTHER -> "inprogress")
          => host # Nothing

\* A token names its repository whatever else is given; without one nothing is found that
\* is not the repository of the slug at the host of the build.
RepositoryIsFound(a, rows, host) ==
    LET r == determine_repo_for_upload(a, rows, host)
    IN /\ a.token # Nothing => \A x \in rows : x.token = a.token => r = x
       /\ r # Nothing /\ r.token # a.token =>
              a.token = Nothing /\ host # Nothing /\ r.host = host /\ r.slug = a.slug

\* The provider is never asked about a private repository with the credentials that all
\* repositories share, and without credentials the commit is the one of the upload.
BotIsEntitled(r, commit, merged) ==
    /\ r.private => try_to_get_best_possible_bot_token(r) # "shared"
    /\ r.private /\ {r.bot, r.orgbot, r.author} = {Nothing} =>
           determine_upload_commit_to_use(commit, "github", FALSE, r, merged) = commit

\* Every task that has a lookup is sent with the argument that its lookup needs, which
\* names a row of the table that is looked in; and what an owner with a paid plan asks
\* for is routed by this plan, unless a row on the way is gone.
PlanIsFound(i) ==
    i.task \in DOMAIN LookedUp =>
        /\ LookedUp[i.task].parameter \in DOMAIN SentWith[i.task]
        /\ SentWith[i.task][LookedUp[i.task].parameter] = LookedUp[i.task].table
        /\ PlanOfTask(i) # i.plan => i.plan # "users-basic" /\ Follows(i.task) \cap i.gone # {}
=============================================================================
