# A formal model of codecov-api

codecov-api is the Django service behind Codecov: a REST and a GraphQL API, the
upload endpoint, webhook handlers for GitHub, GitLab, Bitbucket and Stripe, and a
producer of Celery tasks for the worker. It keeps its state in Postgres, redis and
an object store. Several gunicorn processes serve requests at once. Nearly every
handler follows the same pattern: load a row, decide on what was loaded, call
another service, save the row, often the *whole* row. There are few transactions
and no row locks. What is hard about this code is what happens between those steps.

This directory holds TLA+ modules for the parts of the service that have such a
protocol, TLC configurations that check them on small instances, and proofs of
their main properties.

## Inventory

| Component | State | Operations | Interacts with | Hard behaviour | What makes it correct |
|---|---|---|---|---|---|
| Billing (`billing/views.py`, `services/billing.py`, `plan/service.py`) | plan, seats, customer and subscription ids, delinquency and trial dates of the owner row; the subscription and schedule at Stripe | change of plan, cancellation, checkout, trials, 9 kinds of Stripe notification | Stripe (calls out, notifications in), seats, repositories | notifications late, repeated, out of order; crash between Stripe and the save; whole-row saves | the row agrees with Stripe when nothing is under way; no plan that was not bought; an ended subscription is forgotten |
| Seats in the cloud (`codecov_auth/models.py`, `services/activation.py`) | `plan_activated_users`, `plan_user_count`, `plan_auto_activate` of the owner row | activate, deactivate, admins, auto-activation, member_removed, login | billing, GitHub webhooks, REST and GraphQL | lost updates by whole-row and one-column saves | holders that count fit the seats; no seat without membership |
| Seats of a self-hosted instance (`services/self_hosted.py`) | lists and flags of all owner rows, the license | activate, deactivate, auto-activation for the instance, first login | login, GitHub webhooks | count and update in two statements | license never exceeded; the instance is a pool of seats |
| Comparison loader (`graphql_api/dataloader/comparison.py`, `CommitComparisonService`) | rows of `compare_commitcomparison`, task queue | load, create, mark pending, enqueue | worker | crash between create and enqueue, stale timestamps | an out-of-date comparison is eventually recomputed |
| Upload API (`upload/`) | commit, report, session and repository rows, redis lists, archive | create commit, report, upload, complete | worker, repository settings, limits | check then act on limits, redis then task, reactivation | every accepted upload is processed; a limit is kept up to the requests under way |
| Repository webhooks and settings (`webhook_handlers/views`, `api/internal/repo`) | repository, branch, commit, pull rows, the integration of an organization | push, pull, status, repository, installation events; hooks, tokens, activation | worker, upload, providers, database triggers | overlapping handlers, triggers that rename other rows | rows agree with the provider once events are handled |
| Comparison engine (`services/comparison.py`, `api/shared/compare`, `graphql_api/types/comparison`) | a list of changed files in redis | traverse two reports and a diff, cut changed lines into segments, answer comparisons of pull requests | reports, provider, redis | off-by-one in line numbers, renamed files, the list of an older head | every line once; segments cover every change; a file is hidden only by a list that is stale |
| Reports and paths (`services/report.py`, `services/path.py`, `api/public/v2/report`) | none kept | sessions and flags, tree of a directory, part asked for, walk back to an ancestor | reports | prefixes, several report rows | what is shown was uploaded; totals of a directory are the sums of its files |
| Timeseries and charts (`timeseries`, `services/task/task.py`, `api/internal/chart`) | datasets, measurements | backfill, fill gaps, aggregate, group | worker | boundaries of intervals, two sources for one answer | intervals meet and cover; both sources agree |
| Listings (`core/managers.py`, `graphql_api/helpers/connection.py`, `graphql_api/actions`) | none kept | who sees which rows, order, pages, coverage of a list | database | cursors over ties and NULL | every row is on one page; nothing private is listed |
| Login and sessions (`codecov_auth/views`, `middleware.py`) | redis state, cookies, owner and user rows | login, impersonate, logout | providers, refresh | expiry, linking accounts, overlapping callbacks | an account acts as its own owner only |
| Tokens (`org_level_token_service.py`, `authentication/`) | tokens | create, refresh, delete | upload | get-or-create | one token per organization, a revoked one stays so |
| Permissions (`api/shared/permissions.py`, `repository_accessors.py`) | the list in the owner's row | ask the provider, remember, revoke | provider webhooks, seats | whole-row saves of a list | nobody sees what the provider does not let see |
| Refresh (`services/refresh.py`) | redis key per owner | trigger, is refreshing | worker | check then set | one refresh at a time |
| Configurations (`services/yaml.py`, `empty_upload.py`) | the owner's configuration, a cache in the process | fetch, merge, save | provider | cache that outlives a change | read by who may read the commit |
| Static and label analysis, profiling | suites, snapshots, presigned files, profilings | create, complete, summarize | worker, archive | requests that fail half way, repeated announcements | a complete suite is analysed; the worker's columns survive |
| Archive (`utils/model_utils.py`, `services/archive.py`) | files, a cache of one entry | read and assign a field | object store | file written before the row, stale cache | the row has its value |
| Graphs and badges (`graphs`) | none kept | which commit, who sees it, divide a frame | database | fractions, empty files | rectangles tile the frame |
| Task routing and arguments of uploads (`services/task`, `upload/helpers.py`, `upload/tokenless`) | none kept | place an upload, verify a build, pick a queue | CI providers | many optional arguments | an upload goes where its arguments say |
| Sentry and segment, read-only resolvers and serializers, validation endpoints, migrations, settings | | | | | I/O and rendering |

`PROJECT.json` lists the same components with their sources and status, and, under
`hazards`, the lines at which this code is hard to test.

## Modules

| Module | Models |
|---|---|
| `Plans` | the plan catalogue of `plan/constants.py` and the decisions `_is_upgrading_seats`, `_is_extending_term`, `_is_similar_plan`, `_get_proration_params` |
| `Billing` | one organization, its Stripe subscriptions, the notifications and requests about them |
| `MCBilling` | the instances of `Billing` |
| `BillingProofs` | its theorems |
| `Seats` | the seats of one organization in the cloud |
| `MCSeats`, `SeatsProofs` | instances and theorems |
| `SeatPool` | what a license promises, in the abstract |
| `SelfHostedSeats` | the seats of a self-hosted instance |
| `MCSelfHostedSeats`, `SelfHostedProofs` | instances and theorems |
| `ComparisonQueue` | what readers of a comparison rely on, in the abstract |
| `ComparisonLoader` | requests that create, check and enqueue comparisons, and the worker |
| `MCComparisonLoader`, `ComparisonProofs` | instances and theorems, those about `FileComparison` among them |
| `Uploads` | one repository, its commits, their reports and uploads, and the webhooks and requests that change its row |
| `MCUploads`, `UploadsProofs` | instances and theorems |
| `GitEvents` | what pushes, pull requests, statuses and deletions of all providers do to commits, branches and pulls, with the triggers and the tasks they start |
| `Absent` | `Nothing`, the value that is none |
| `Login` | accounts, users, sessions and who a request acts as |
| `Tokens` | tokens of organizations, repositories and users |
| `OwnerRows` | onboarding, Sentry link, admins and the provider's token, all in one row |
| `Refresh` | the key and the chain of tasks of a refresh |
| `Access` | the list of repositories an owner may see, with a proof |
| `UploadSessions` | flags, stored reports and completion of the uploads of a commit |
| `Analysis`, `ReportResults`, `Profilings` | suites and label analyses; results of a report; profiling commits |
| `RepositoryRows`, `Installations`, `RepositorySettings` | repositories at the provider and their names; the app of an organization; hooks, upload tokens and credits |
| `AccountDetails`, `Configurations`, `Archive` | discount and payment method; configuration of a commit; fields in the archive |
| `PullCompare`, `ComparisonQuery`, `Datasets` | comparison of a pull request; a GraphQL query over comparisons; which source answers a chart |
| `Services` | the eighteen before, each alone, with theorems about who is who, who sees what, what arrives and what is seen |
| `FileComparison` | one file of a comparison, its segments, impacted files, renames |
| `Reports` | sessions, tree, ancestors, parts of a report |
| `Timeseries` | series, fallback, backfill, charts |
| `Listings` | lists, pages, coverage of a list, repositories of a chart |
| `Badges` | badges and graphs |
| `Arguments` | arguments of uploads and tasks |
| `MCCoverage` | the six before, and the pure part of `PullCompare`, over all small inputs |

Many modules keep, next to a definition, a variant of it under a comment that begins with
`bug:`, of the kind a later change could bring in: a dropped guard, a stale copy, an
off-by-one. With the variant in its place the run that checks the property fails. Each
property of a run, and each named part of one that is a conjunction, has at least one;
`PROJECT.json` lists one for each property of a run.

### Billing

`owner` is the organization's row and `reposOn` the flag of its repositories;
`stripe[s]` the subscription `s` with the state of its schedule; `checkouts` the
open checkout sessions; `events` the notifications not yet acknowledged; `job[w]`
what the worker `w` is doing, with the row *it loaded*. `bought` and `budget` are
bookkeeping: the terms a subscription has had, and the bounds.

A handler is a chain of actions, one for each save or call to Stripe. `Receive(w)`
takes a notification (`StripeWebhookHandler.post`), loads the row and goes to the
first step of its handler; `SaveIds`, `SaveTerms`, `SaveTrial`, `SaveDefault`,
`SwitchReposOff`, `SaveCustomer`, `SavePaid`, `PaymentFailed` are those steps;
`Finish` answers, or loses the answer, in which case Stripe delivers the notification
again. A change of plan is `AskPlan` (with the checks of `PlanSerializer.validate`),
then `UpdateToDefault`, `OpenCheckout` or `ChooseCall`, which picks between
`ModifySubscription` and a schedule (`CreateSchedule`, `ModifySchedule`), or for the
free plan `ReleaseSchedule` and `CancelAtPeriodEnd`, and at the end `SaveLocal` and
`SaveAccount`. `Crash(w)` loses what a worker was doing between any two of them.
Every save of a whole row writes the row as loaded, except for the columns changed:
that is how two workers overwrite each other.

Stripe is external and modelled from what the code expects of it: a subscription
is incomplete, trialing, active, then ended; a schedule runs through its phases and
releases the subscription; each change produces its notification.

The branch of `BillingService.update_plan` that warns about an unknown plan is left
out: the serializer lets only available plans through. Payment methods, coupons,
billing addresses and segment events are left out.

### Seats

`owner` holds the seats, the activated users (NULL until the first activation) and
the auto-activation flag. REST (`AskRest`) activates a member; GraphQL (`AskGraphQL`)
activates whoever may view the repository (`Viewers`) and then looks for the user in
the row loaded *before* (`Answer`). `AskUser` is the administrator's PATCH, which
activates or deactivates and then may save the same row for the admins list.
`MemberRemoved`, `SaveMember`, `SaveSeat` are GitHub's event: the only handler that
saves single columns. `AskPlan`, `Released` stand for what `Billing` models in detail.

`CoreNext` leaves out member_removed, logins (a student may stop being one) and scheduled
changes; `Next` has them. The last two may take seats away from under their holders, which
the auxiliary `lowered` records: the cover of the seats is claimed until then.

### SelfHostedSeats

All organizations share one license. `activate_owner` counts (`Recheck`), then updates
(`ActivateOwner`), and the caller in `services/activation.py` has counted once more
before (`CanActivateUser`). The two queries of `can_activate_owner` are one step.
A first login (`LoginOrgs`, `CheckUserCount`, `SaveLogin`) creates rows; the saves of
the user's row and of its organizations list are one step. `login_owner` may then save
the *whole* row with the user in it, and so do the profile, the onboarding and the
configuration of an owner: `LoadOwner` and `SaveOwner`, with every column as it was loaded.
That is how a row comes to be off after auto-activation was enabled for all, and why
`EnabledForAll` allows as many such rows as there are other workers. The license check at
login is the one for licenses that bill per pull request author.

`SeatPool` is the abstract specification: users take and give back seats of a pool.

### ComparisonLoader

`rows` are the comparisons of one repository; `queue` and `task` the tasks that wait and
the one that runs; `job[w]` a GraphQL request with the commits it has read (`cache`) and
the comparisons (`found`). `Ask` is `batch_load_fn` up to the end of the commit loader;
`Fetch`, `Create`, `Refetch`, `Refresh`, `Mark` are the statements of
`_load_comparisons`, and `Enqueue` sends one task of the group. Between two of them
anything else may happen. `Upload`, `SaveCommit` change what the comparison depends on.

Commits are read through the database router, possibly from a replica, and a request
keeps those it has read; `batch_queryset` insists on the primary. `replica` is any
earlier content of the commits table, and `Replicate` brings it up to date; without
replica (`DATABASE_READ_REPLICA_ENABLED` is off by default) it stands for what the request
read earlier. The other modules assume reads from the primary.

`Start` and `Finish` are external: what the worker reads, and when it stamps the row.
The error state of a comparison is `processed` here, like every result.

`ComparisonQueue` is the abstract specification: a comparison is pending only while
somebody owes its computation, and what is owed is computed.

### Uploads

`repo` is the row of the repository, `known` and `reports` the commits and how many
default reports each has, `sessions` how many uploads of a commit are in each state, `list`
and `tasks` the redis list `uploads/<repo>/<commit>` and the upload tasks sent. `job[w]` is
a request with the row it read. `metered` records the commits whose first upload was
charged to the plan.

An upload of the newer endpoint is `AskUpload` (`UploadsPerCommitThrottle`), `CheckWindow`
(`UploadsPerWindowThrottle`), then `UploadViews.perform_create`: `Validate`,
`CreateSession`, `Push`, `Send`, `Activate`. The older endpoint (`AskLegacy`) checks the
limit of the commit in the request, reactivates the row, inserts the commit that the request
*merges*, asks the plan (`Constrain`) and dispatches; its session is created by the worker.
`Process` is the task of the worker (external): it takes the whole list. The row is saved in
three ways: whole, by `SaveVisibility` and `SavePatch`; the columns of an upload, by
`Activate` and `Reactivate`; the columns of a deletion, by `SaveDeleted`. `SwitchOff` is the
update of `Billing!SwitchReposOff`.

A report is created in two statements (`AskReport`, `InsertReport`). Left out: the expiry of
uploads after thirty days, other repositories of the owner, carried-forward sessions, named
reports, the blocked repositories in redis and credits of legacy plans, the state of the
commit, tokenless uploads. Web workers do not die here.

### GitEvents

`remote` is the state of the pull requests at the provider, `queue` what it sent and nobody
handled; `commits`, `heads` and `pulls` are the rows, `tasks` what the worker was asked for.
`PullEvent`, `Push`, `DeleteBranch`, `StatusEvent` are the handlers of the four providers, which
differ in the actions they know (`Synced`, `Written`). A push to the default branch has two
statements, and another push may come between them (`PushMerged`). A commit that is written also runs the trigger
that moves the head of its branch and pull (`commits_update_heads`). An upload through the older
endpoint puts a complete commit back to pending (`InsertAgain`). GitHub's events write no state:
`Work` is the task that asks the provider for it. Uploads insert commits and the worker
completes them (`Insert`; `Complete`, external).

### Who is who: Login, Tokens, OwnerRows, Refresh, Access

A `Login` callback checks the state (`ticket`) and looks at the session, counts the users of the
license (`CountUsers`), creates or updates the owner (`Modify`), looks whether the session's user has
another account of the provider (`LookForOther`), and links the owner to a user from what it has
read. A license without a number of users, or with 0, limits nobody (`Limited`). Sentry's callback
is one more kind. Only `ActsAsTheAccount` needs that no two callbacks of one browser, account or
user overlapped (`tangled`): then the one that is saved last decides. `OneOwnerPerService` and
`UsersWithinLicense` allow one more for each callback that was under way at once.

`Tokens` has a look-up and a write for each interactor, so `mixed` says of a kind whether two of them
overlapped; then there may be a token for each request at once, and one of the form's, and no more
come later. `OwnerRows` has the handlers that save one row as they read it; GitLab's token refresh
makes the token before unusable, so the question is whether the row's token still works. The list of
admins has three writers: the is-admin query, which adds who is an admin by the provider; the
PATCH of a user, by which *any* member of the organization makes a user an admin or takes
one off (`AddAdmin`, `RemoveAdmin`); and the form of the administration site (`EnterAdmins`).
`wereAdmins` is whom any of them, or the provider, named. `Refresh` reads the key, starts the chain
and stores the key, with the expiry of the key in between; `crossed` counts how often a request met
another or the key expired, and no more refreshes than that run besides the first. `Access` is a
list of repositories that requests extend and webhooks shorten, loaded at the start and saved at the
end.

### What is sent: UploadSessions, Analysis, ReportResults, Profilings

`UploadSessions` follows an upload from the request through flags, session and stored file to
the task, for each endpoint in its own order (the older ones create the session in the
worker), with a deletion of flags and the count at completion among them. `Analysis` has
suites whose files arrive by presigned links, and label analyses that need two suites.
`ReportResults` and `Profilings` are rows that a client announces repeatedly while the worker
fills them in.

### What the provider has: RepositoryRows, Installations, RepositorySettings

`RepositoryRows` has the repositories at the provider (`projects`) and their rows, events in
order whose handlers overlap, and the triggers that take a name from another row
(`TakeName`). `Installations` is the GitHub app of one organization: installed, changed,
removed, installed again, while logins save the same row and the account is renamed; `excused`
collects the ways the row may end up wrong. `RepositorySettings` makes and deletes
hooks at the provider in separate calls, and activates private repositories within credits.

### What is kept: AccountDetails, Configurations, Archive

`AccountDetails` gives the cancellation discount (coupon made, saved in the row, applied, in
this order) and replaces the payment method. `Configurations` merges the owner's configuration
with the one fetched on behalf of the reader, keeps the result in the process, and decides empty
uploads by it. Visitors, and owners without a token for the provider, have it fetched with the key of
Codecov's bot (`AsksAs`). `Archive` is `ArchiveField`: the file is written on assignment and the row on save,
and the last file read is cached in each process.

### What readers are told

`PullCompare` keeps the list of changed files in redis under a key without the head.
`ComparisonQuery` has the resolvers of one query take turns over `info.context`. `Datasets`
decides whether measurements or commits answer.

The others keep no state of their own, and are operators that `MCCoverage` checks against
what they promise, over all inputs up to a size. `FileComparison` still is a state machine:
`FileComparisonTraverseManager.apply` is one step per line, over all edit scripts of up to five
lines, with the provider's diff computed from the script. `Timeseries` and `Listings` compute what
the SQL does; NULL ordering is PostgreSQL's. `Badges` computes with exact fractions. `Arguments`
has what an upload says of itself and whether a CI build confirms it.

## Checks

Every run has `CHECK_DEADLOCK FALSE`: the budgets run out, and the system may rest.

| Run | Shows | Bounds |
|---|---|---|
| `billing_ordered` | types; when quiet the row agrees with Stripe and has forgotten what ended; a paid plan names a subscription, whose customer is the row's; delinquency follows the last invoice; trials are had once | 1 worker, 2 subscriptions one after the other; either 3 plan changes among 5, one repeated delivery and one crash, or 2 plan changes, 1 trial mutation, 2 invoices and 1 edit by staff |
| `billing_race` | nothing but bought terms, no subscription without customer, under whole-row saves that overwrite each other | 2 workers, 2 subscriptions that may overlap, any order, one repeated delivery |
| `billing_late` | whatever the order, an ended subscription is let go of and its repositories switched off | 1 fair worker, 3 plan changes, 1 seat, any order, one repeated delivery (of the creation after the end nothing is claimed), no crash |
| `seats` | the holders that count fit the seats; nobody but a viewer keeps a seat after leaving | two modes: `many`, 2 workers and the core of the actions; `one`, every action, one request at a time; 3 users, up to 2 or 3 seats |
| `selfhosted` | refinement of a pool with one seat more per additional worker; the license kept to when requests do not overlap; auto-activation, once enabled, is off on fewer rows than there are workers | two modes: `pool`, 2 workers and 1 organization; `serial`, 2 organizations and member_removed; 3 users, 1 seat |
| `comparisons` | refinement of the queue, with its liveness; outdated results are recognized, unless a report changed while it was computed | 2 requests at once, 3 commits and 2 comparisons that share one, 1 upload or save |
| `uploads` | limits are exceeded by no more than the requests under way; every open session is listed, every list has a task; a deleted repository stays off | 2 web workers, 3 commits, 4 requests of any kind, 1 report, limits of 1 |
| `coverage` | `FileIsCompared`, `ReportsAreTrue`, `HistoryIsTrue`, `RequestsAreAnswered`: the algorithms, each over all small inputs | files of 5 lines, 1 line of context; 2 impacted files, 3 sessions, paths and commits of a chart, 4 ancestors; requests as `MCCoverage` lists them |
| `webhooks` | heads are not stale and pulls are the provider's when quiet; merged commits are never moved; every pull told of comes to have its state | 2 commits, 2 branches, 1 pull, 2 events at a time, every provider |
| `services` | the six properties below | 2 requests, accounts, files or values, 3 uploads; counters up to 2 or 3 |
| `comparisons_late`, `uploads_reports` | the two violations below | |

The properties of `coverage` and `services` are conjunctions; `MCCoverage` and `Services` say
which property of which module each is made of, and the modules say it in words:

* `OwnersAreThemselves`: `OneOwnerPerService`, `ActsAsTheAccount`, `UsersWithinLicense`;
  `OneTokenPerOwner`, `RevokedStaysRevoked`; `TokenWorks`, `OnboardedOnce`, `AdminsWereAdmins`;
  `StoppedMeansReady`, `OneRefreshAtATime`.
* `AccessIsGranted`: `GrantedByProvider`, `QuietRevoked`; `ReadByReaders`.
* `UploadsArriveWhole`: `OldestRowHasTheRest`, `ReportsAreFound`, `CompletionIsCautious`;
  `QuietSuitesAreAnalysed`, `LabelsHaveSuites`; `QuietResultsAreDone`; `PassIsJustified`.
* `RowsAndProvidersAgree`: `QuietRowsAgree`; `QuietInstallationIsNamed`; `HookIsTheOnly`,
  `HookCanBeReset`, `WithinCredits`; `DiscountIsNamed`, `OneDiscount`, `CardIsAttached`.
* `ReadersSeeWhatIs`: `RowHasItsValue`; `HiddenOnlyWhenStale`, `ListIsOfItsVersion`;
  `AnswersAreAboutProcessed`; `BackfilledOnce`, `AnsweredWhenBackfilled`.
* `NothingIsTakenBack`: `OwnWritesAreRead`; `SummariesAreKept`, `CriticalFilesAreStable`.

Three users, two workers and two subscriptions are the least with which one actor
overtakes another *and* somebody else is affected: a third user to find the pool full,
a second subscription for a late notification to be about the first. Two plan changes
are enough to change what is already changing; the ordered run has a third. Three commits
and limits of one are the least with which two uploads that were counted at once go beyond
what the plan includes, and four requests let a commit reach its limit and two more pass
the check together. `Budget`
bounds the number of requests, trial mutations, seats, invoices, edits, repeated
deliveries and crashes; nothing else of `Billing` is bounded.

The services need two requests that overlap, and two things to confuse; uploads
need a third, for a row that is neither the oldest nor the newest. Counters of keys, hooks,
coupons, installations and tokens are bounded by `Max...`, large enough for one to be
replaced while the old one is in somebody's hands. Five lines and one line of context let
two hunks be apart, touch, begin at the first line and end at the last. `Bounded`, the
constraint of `services`, stops where a property has nothing more to say: it leaves out what follows
a stale save of a member's own row, an excused installation or a repeated discount, and these
are listed below. Logins, saves of an organization's row, tokens and refreshes that overlap are
explored: two callbacks and two requests at a time, with a license of one user, and after two
callbacks met as long as there is one user. An organization has one other member there, who is
its only admin by the provider. The parts of `services` and `coverage`
are chosen in the first state, so that one run checks them all: they share no state.

### Where code and documentation disagree

Two runs end in a counterexample.

* `comparisons_late`: a commit is new, and a request has not read it yet. The batch of this
  request holds the comparison of the new commit, which another request has created, and
  one that it creates itself. `needs_recompute` raises `AttributeError` for the first, the
  second is never enqueued, and as it is neither missing nor outdated no later request
  enqueues it either. `graphql_api/dataloader/comparison.py:117` has seen "some instances of
  commit comparisons being created but no corresponding compute comparisons task being
  enqueued".

* `uploads_reports`: `0007_auto_20230220_1245.py` puts a unique constraint on commit and code
  of a report. The default report has no code, to which the constraint does not apply: two
  requests that create it at once (two CI jobs of the same commit) leave
  two, and every later upload to the commit ends in `MultipleObjectsReturned`.

The same reading showed the following, for which there is no run:

* After a crash between the two statements of `customer_subscription_deleted` the
  repositories stay active, and the retry does nothing, because it no longer finds the owner
  by its subscription. (`QuietReposOff` fails once the budget allows a crash.)
* `customer_subscription_created` looks at nothing but the plan: a creation that is delivered again
  after the deletion of the same subscription writes the ended id into the row, and nothing
  takes it out again (`Outlived` in `Billing`, which `EndedIsForgotten` excepts).
* A trial may begin again when the mutation and the notification about a Sentry plan are
  handled by two workers: each decides on its own copy of the row. `TrialOnce` is about one worker.
* `member_removed` that overlaps another handler brings back a seat that was given up
  meanwhile: `QuietHoldersAreMembers` is checked for one request at a time.
* A commit or a report that changes while its comparison is computed goes unnoticed until the next
  change: the row is stamped when the task ends (`overlapped`, which `StaleIsDetected` excepts).
* Two activations at once exceed the "max number of seats allowed by the current license"
  (`services/self_hosted.py:78`): `WithinLicense` is checked for requests that do not overlap, and
  the pool of `selfhosted` shows that one seat per further worker is the worst.
* A deleted repository that a late upload with its token reactivates keeps the name with
  `-deleted`, under which the newer endpoint does not find it; a repeated deletion appends it
  once more.
* `publicized` clears `activated` and leaves `active`: until somebody activates the
  repository, uploads are refused as if it had been deactivated.
* Both limits of uploads to a commit compare with `>`, so that one more than the limit is
  accepted even when requests are handled one at a time.
* Owners on a plan that is not in `USER_PLAN_REPRESENTATIONS` get an `AttributeError` from
  `.get(owner.plan, {}).monthly_uploads_limit` for private repositories
  (`upload/throttles.py:51`, `upload/helpers.py:397`) when throttling is on.
* `services/billing.py:189`, "We only immediately invoice a user if the user increases
  the number of seats or if the plan changes from monthly to yearly": a swap of two
  plans of the same term with the same seats is invoiced too (`_is_similar_plan`), and a
  change to yearly takes seats away at once, although line 200 says "Scheduled updates:
  when the user decreases seats or plan".
* `api/internal/owner/serializers.py:146`, "Quantity cannot be lower than currently
  activated user count": seats activated while a decrease is scheduled are not counted
  again when it takes effect (`lowered` in `Seats`).
* A scheduled change of a subscription on a legacy plan creates a schedule and then
  raises `KeyError` (`services/billing.py:291`); the schedule stays without the change
  (`RequestFails` after `CreateSchedule`).
* The GraphQL repository query of a private repository raises `TypeError` when nobody was
  ever activated and auto-activation is off (`Answer` and `ReportError` in `Seats`); the
  test that expects `OwnerNotActivatedError` mocks `is_activated`.
* Disabling auto-activation "for the entire instance" lasts until a login creates a row. Enabling
  it "for all owners" leaves out a row that a login, or any other save of a whole row, had loaded before.
* On a self-hosted instance REST asks for a seat in *this* organization
  (`api/shared/permissions.py:56`) and GraphQL for one in any (`services/self_hosted.py:69`).

*Accounts and tokens*

* "Only 1 token per Owner" (`org_level_token_service.py:18`, `admin.py:68`) holds while requests
  do not overlap; two rows make every later `get` and every save of an owner on a legacy plan raise
  `MultipleObjectsReturned`. A token row saved after its deletion comes back.
  `regenerate_org_upload_token` ignores the plan and finds the owner by a display name.
* The limit of users on a self-hosted instance compares with `>`: one more than
  `number_allowed_users` logs in, and with 0 everybody does; and the users are counted before the row is saved, so that
  first logins that overlap exceed it further. Two first logins at once create two users, and two overlapping
  logins in one session can link two owners of one provider to a user.
* GitLab's callback saves the owner before it checks the state; a state that has expired raises 400
  when the session is already there; the branch for an account linked already sets no
  `current_owner_id` and starts no refresh.
* A refreshed GitLab token, `permission`, `plan_activated_users`, the profile, the admins and the
  Sentry link are columns of one row that is saved whole: whichever request read first wins.
  A revoked entry of the permission list comes back by the save of another request.
* Onboarding is two saves; cut between them it can never be repeated. The is-admin query
  fails when `admins` is NULL, may append one id twice, and keeps an admin whom the provider has revoked.
  PATCH of a user asks for membership of the organization only: any member makes any user of it an
  admin, themselves included (`api/internal/owner/serializers.py:328`).
* `user_remove_from_team` for a repository that is not on the list raises `KeyError`.
* `RepositoryArtifactPermissions` may take a seat before the permission to read is denied.
* `trigger_refresh` passes `sync_repos, sync_teams` by position in the opposite order of
  `TaskService.refresh` (both are the same at every call). A key of a finished chain is deleted whatever it holds by then.

*Uploads and analyses*

* A `pr` of "true" without a branch puts an upload on neither a branch nor a pull request.
  `upload/tokenless/github_actions.py` says "within the last 4 minutes" and tests 10.
* Flags have no unique constraint: overlapping uploads create two rows of a name, deleting the flag
  hides the oldest only, and new uploads go to the hidden one. Completion may count fewer
  successes than there are, below zero too. The oldest endpoint sends its task before the client
  knows where to put the report.
* A request that fails half way leaves a suite without files, which label analysis accepts.
  Label analyses are found by their external id in every repository.
* A profiling looks its commit up by sha in all repositories: a fork makes it raise.
* Tasks without a look-up are routed as those of the free plan, whatever the plan.
* An empty upload, and REST of version 2, pass the request's user, which is not an owner, to the
  configuration: the commit's own file is then not fetched. A visitor, who passes none, gets it with the
  key of Codecov's bot. The cache keeps a failed fetch.
* The older endpoint puts a commit that is complete, and was notified about, back to pending; the newer
  one leaves it complete while new uploads are processed.
* `set_yaml` escapes `&`, so that aliases are refused, and catches `ScannerError` only.

*Webhooks and settings*

* GitHub: a deletion of the app that is handled while an earlier event still holds the row is
  overtaken, and the row names an installation that is gone (`excused` in `Installations`); an event
  after the account was renamed violates `owner_service_ids` and is lost; a suspension or fewer
  repositories are handled as if something had been installed; a deletion may switch off
  the repositories of the next installation.
* A merge or close of a pull request before its row exists is lost; GitLab's and Bitbucket Server's
  reopening and Bitbucket Server's `pr:deleted` are not handled; Bitbucket Server's
  `refs_changed` deletes the row of a branch on any push to it; a push to the default
  branch does not mark commits whose `merged` is NULL.
* A second deletion of a repository, or the reuse of its name, strips the older row of its name;
  `publicized` saves the whole row and so takes back a name that was given away, upon which the
  trigger deletes the repository that has it now; of two overlapping GitLab transfers one is
  refused by `repos_slug`, and its event is lost.
* A webhook reset that stops between the deletion and the save leaves a hook id that the provider does not
  know, and every later reset fails. The check of credits and the save may overlap.
* The cancellation discount can be given twice after a stale save; overlapping discounts leave the
  row naming a coupon that is not applied. `update_payment_method` asks for a subscription, uses the
  customer, and sets only the customer's default, against its comment.
* Notifications about the subscription of a cancelled trial can put the paid plan back on a row that names no subscription.
* `ArchiveField` caches one value under the primary key, so that another instance reads an old
  one; the old file is gone before the row is saved; `Commit` has no `external_id`, without
  which its report cannot be written.

*Comparisons, reports and charts*

* The list of changed files has no head in its key: after a push it hides changes in files
  without a diff, and rewrites itself. A missing report of a pseudo-comparison is a 500 instead of a
  404; flags without a report of the base fail; two resolvers disagree on the base when
  pseudo-comparison is not allowed; all comparisons of one query share one
  `info.context["comparison"]`.
* A file renamed to a name that the base knows is compared with the file that had the name:
  two that swap are each compared with the old contents of the other.
* `impacted_file.py` speaks of "segments with no diff changes and at least 1 unintended change",
  the code keeps those that have both. The change of coverage is none when either side is 0 %. Sorting by
  name fails if a file was deleted. Unchanged lines that begin with a sign are left out of the summary.
  `Comparison.files` is a generator that is cached: whoever comes second sees nothing.
* `build_report_from_commit` takes the first report row whatever its code; with a path or a flag the
  patterns of the component are not applied, against the documentation; a component none of whose flags were uploaded has all flags.
* The path of a nested file sends the tree into an endless recursion. The walk back goes past
  `oldest_sha` when it starts there.
* Weighted coverage sums over different repositories for the latest and the previous value. Commits
  and branches are paged by a time that is not unique, so that ties at the end of a page are skipped.
* Charts divide by zero when there are no lines; partial hits count as hits; NULL sorts first
  for the maximum; "latest commits" are the oldest 1000; `coverage_timestamp_order` is
  validated under another name; deleted commits count in an organization's chart. A chart silently leaves out deleted
  public repositories.
* The fallback series cuts the intervals at its ends; `FlagCoverageViewSet` does not include the older
  measurement that the inherited documentation promises; a request that dies between the row of a
  dataset and its backfill leaves one that counts as backfilled after an hour. `backfill_repo` is
  called by nothing.
* A stored flare of a private repository's pull request is served without the token; a pull without a flare has
  the default branch's graph; a graph of no width divides by zero.

Some hazards have no property. A change of a subscription on a legacy plan raises
`KeyError` after its schedule was made; a decrease of seats takes effect after others were
activated; two checkout sessions may both be completed; `member_removed` may stop between its two saves;
`core/managers.py:273` finds a repository by a name that another has by now; two handlers of
payment and subscription notifications answer each other's rows. The first three are described above or in `Billing`
and `Seats`; the others need states that the modules leave out.

### Fairness

`Billing!FairSpec`: weak fairness of the steps of handlers that have
started and of the receipt of notifications. gunicorn goes on with a request it has
accepted, and Stripe repeats a notification until it is answered. Nothing is assumed of
customers, administrators, staff, time or crashes (the run of `EndedIsForgotten` has
no crash in its budget).

`ComparisonLoader!FairSpec`: weak fairness of the steps of a request and of the running
task, strong fairness of the start of a task for each comparison: tasks compete for the
worker, and Celery takes each of them in its turn. Nothing is assumed of new requests,
uploads and the replica.

`GitEvents!GitSpec`: weak fairness of handling what was delivered and of the worker's
tasks, one after the other. Nothing is assumed of pushes, pull requests, uploads or their
completion. The services and the algorithms claim safety only.

## Proofs

The theorems hold for every value of the constants that satisfies the named
assumptions of the module (finite sets of users, natural numbers for limits).

* `BillingProofs`: every invariant of the three runs of `Billing`, and `TrialOnce`.
  `TypeCorrect`, `OnlyBought`, `HasCustomer` assume nothing. A job carries a row and
  the terms asked for, so the invariant says of *every copy* what the properties say of
  the row: the row of each job shows bought terms and no subscription without customer;
  the terms a job is about to save locally have been bought; each notification under way
  and each subscription alive at Stripe shows bought terms. Without the clauses on
  copies a stale save would break the property in one step. `OneTrial` is about one worker,
  with any number of subscriptions and notifications in any order: whatever a handler has
  loaded of the trial is what the row has, also after the trial has lapsed meanwhile, and a
  handler that is about to start one knows that there was none.

  `CustomersMatch`, `PaidNamesSubscription`, `ForgetsEnded`, `InSync`, `Delinquency` assume what
  `billing_ordered` does, and no bound: one worker, notifications in order, no checkout completed
  while a subscription is live. They are not claimed for two workers, which overwrite each
  other's rows, or for late notifications, which are copied all the same. The row
  is behind Stripe most of the time, so the invariant `OrderInv` says what the notifications that
  wait will make of it, in three parts. *The queue*: a subscription is told of from its creation
  to its end, and after the last that is told of its terms, or of its invoice, neither has
  changed. *Row and queue*: what the row names is live or its end is announced, and the end comes
  before anything about the next subscription; terms that differ from Stripe's are shown by a
  notification that waits; a live subscription is named, or its creation waits. *The worker*: it
  holds the row as it is and the front of the queue, and the terms it is about to copy are true
  or will be told again. The notification stays in the queue until it is answered, so that a
  crash only makes the worker begin again: repetition is covered by the same clauses.

  `ReposSwitchedOff` assumes one worker, no crash and no trial that is cancelled, and neither
  order nor an end to overlaps. Its invariant `OffInv`: active repositories without a
  subscription mean that the creation of every subscription there was is still to be handled, or
  that the worker is about to switch them off. A crash between the save that takes the
  subscription from the row and the update of the repositories breaks it for good: when the
  notification is repeated no owner has that subscription any more. Who cancels a trial loses the
  subscription from the row as well, and the repositories are left as they are.
* `SeatsProofs`: `TypeCorrect`, `Covered` (about `CoreSpec`, any number of
  workers) and `Removals` (about `SerialSpec`, every action, one request at a time). The
  invariant says that the row *and each loaded copy* are covered, and that a job in `activate` or
  `save` has a copy that stays covered by its change. The rest is cardinality: adding an element
  adds at most one. `SerialInv`, for `Removals`, has in addition that whoever holds a seat is
  entitled to it or is being taken off by a member_removed under way (`Leaving`), and that a
  request that works alone holds the row as it is.
* `SelfHostedProofs`: `TypeCorrect`, `Serial`, `Implements`, `Enabled`. The invariant
  bounds the users that hold a seat *together with those that have been counted* and
  wait for their update: one more per worker beyond the first. `Serial` is about one request
  at a time, with the two saves of member_removed: the second save is of the whole row, and
  brings nobody back as the row has not changed since it was read (`SerialInv`). For the refinement a step that updates takes one seat, and all
  others give one back or stutter. `Enabled` (with member_removed and whole-row saves as well) counts the rows that are
  off *together with those of which a request has an old copy* (`Off`): enabling leaves only the
  latter, at most one per other worker (`OffBound`), and a save exchanges one for the other.
* `ComparisonProofs`: `TypeCorrect`, `Detected`, `Served`, `ImplementsSafely`, the last two
  for `Late = {}`. What a request owes changes its form twice, from the missing keys to ids
  and from ids to tasks. The invariant that makes the first change lossless is that every
  key a request missed is in the table when it has created them, and in what it found when
  it has read them back, whoever inserted the row; this needs rows never to disappear
  (`RowsStay`) and every commit to be known. Each action is shown to be one `Promise`, one
  `Compute` or a stutter, and `Served` follows from the queue alone. For `Detected` no
  comparison may be dated in the future, so that whatever is written to a commit is younger
  than all of them, and a running task that nothing has overlapped has read the reports as
  they are.
  The second half is about `FileComparison`: `WalkIsTrue` and `EveryFileIsCompared`, for every edit
  of a file, every coverage of its lines, any context of the diff and any padding and distance of
  segments. `WalkInv` says where in the edit script the walk is: it has shown a prefix of it, and
  the two counters are those of the next line of either side (`FirstBase` and `FirstHead` say what they start
  from, which is 0 for a side without any line). Of the hunks of the diff,
  the first ones are behind, the others still in the list, the first of them without the lines that
  were popped. From git's numbers of the hunks ahead it follows that `traversing_diff` is
  true exactly where the next line is in a hunk, so no line is popped where there is none, and
  `apply` ends only when no hunk, no line of the source and no covered line is ahead. The rest is
  counting over what has been shown: the summary is the difference of two counts of unchanged lines, a header
  covers the lines of its slice, and the runs of lines that lie within `LineDistance` of each
  other, padded, do not meet. It takes that the diff has at least one line of context, that
  `2 * PaddingLines <= LineDistance`, as it is in the code, and that a report covers lines of its own side only.
* `UploadsProofs`: `TypeCorrect`, `CommitLimit`, `PlanLimit`, `Remembers`, `DeletionHolds`. The limit
  counts the sessions of a commit *together with the uploads that have passed the check*
  and not yet created theirs; that sum is what the check bounds, at most one per web worker
  beyond it. `PlanLimit` adds up the commits whose first upload was charged and the requests that
  have asked the plan and not yet charged it (`PlanInv`). What the throttle counts are the uploads of
  all commits (`Uploaded`), a set that has an element of its own for each commit that was charged:
  so the count is never below what was charged, and the check bounds both. Types rest on `NothingForgotten`: the task subtracts from the open sessions
  what the list holds. A deletion survives because every copy of the row that a request
  holds is off if it is deleted, and the copy of an edit is not deleted.
* `GitEvents`: `Followed`, `Merged`, in the module itself, for every provider. `GitInv` says of
  what is *on the way* what the rows need: the last event under way that changes
  the state of a pull request tells the present one, and without such an event its row agrees,
  a task will make it agree, or nobody has told of it; a commit that is
  there has a branch, and its pull request a row; a head is not older than any complete commit of
  its branch, which is what the trigger compares. `HeadsAreNotStale` needs a maximum
  of finitely many timestamps, which is well-founded induction over the naturals by a least counterexample.
* `Access`: `OnlyGranted` and `Revocations`, in the module itself. A list of repositories is loaded, changed
  and saved in steps of its own, so the invariant says of the row, of each loaded copy, of
  each notification on its way that adds a repository and of each request about to append
  one that the provider had let the user see it; that is never taken back, as what the
  provider once showed is remembered.
  What is taken from a user is gone again only if the webhook that says so is handled while
  nothing else is (`QuietRevoked`); `RevokedInv` says of every private repository the
  user may not see that the last of its webhooks on its way removes it, and that the row, or what a
  worker has loaded or is about to add, shows it only while such a webhook is on its way or at work.

* `Services`: `WhoIsWho`, that is `OwnersAreThemselves`, the properties of `Login`, `Tokens`,
  `OwnerRows` and `Refresh`, in the module that composes them; each has its inductive invariant in its
  own module, and a step of the whole is a step of the part that was chosen. What is claimed of
  overlapping requests rests on counts of what they may still add, the rest on what a request
  that overlaps with none knows while it is under way.
  *Login* (`LoginInv`): the accounts that were counted but not yet saved, together with those that were, fit
  the license (`Admitted`), and the accounts of a user together with those that callbacks found free
  are no more than callbacks (`Linking`); without overlap (`Untangled`) a callback that is about to log
  in has what the row says of the user of its account, and is the only one about it. *Tokens*
  (`TokensInv`): no key opens two things or is one that was replaced, whatever overlaps; rows that are there
  or may be written back, and requests that will insert one, are at most one for each request and one of
  the form's (`Few`); of a kind that was never `mixed` there is one token, one request, and
  that request found the token (`Alone`). *Rows of owners* (`RowsInv`): every copy that a request holds is of
  the row as it was, with admins that somebody named; the row of an owner that was not saved over has the
  last token unless it is being refreshed, and has been onboarded if and only if its answers
  were saved. *Refresh* (`RefreshInv`): chains that run and of which no request is about to see the
  results, requests that may start one, and the next request if nothing keeps it, are at most one
  more than what met or expired (`FewChains`). `RevokedStaysRevoked`, `AdminsWereAdmins` and
  `StoppedMeansReady` need no flag at all. The assumptions are that the bounds are natural numbers,
  interactors and callers finite sets, and `Nothing` none of the values.
  `WhoSeesWhat` is `AccessIsGranted`: the two theorems of `Access`, and of `Configurations` that
  every copy and answer that shows a commit's own configuration is of an owner who could read the commit,
  or of a visitor when the bot could (`ConfigurationsInv`).
  `WhatArrives` is `UploadsArriveWhole`. *Uploads of a commit* (`SessionsInv`): the flags
  of an upload are rows of different names that it asked for, so they are as many as the names; a row
  that is not the first of its name has exactly the request that created it, and the first remains the
  first when rows are appended; and what a completion counted is at most what there is, as sessions
  only go on. *Analyses* (`AnalysisInv`): what a suite knows or has linked has a snapshot, and a suite
  that is complete is in the archive to its last file and waits for its task or is analysed; the
  fallback is the nearest commit for any set of suites. *Results* (`ResultsInv`): a result that is due
  has a task, a request that will send one, or one that failed. *Profilings*
  (`ProfilingsInv`): codes are different, and a row that was read is the row of its code.
  `WhatIsSeen` is `ReadersSeeWhatIs`. *Archive* (`ArchiveInv`): each kept copy and each
  file is of a value that was assigned, and what a process keeps is as recent as what it wrote;
  *pull requests* (`PullInv`), *queries* (`QueryInv`) and *datasets* (`DatasetsInv`): what a request
  holds between two steps is what it read, or it is known to be older.
  `WhatIsKept` is the action property `NothingIsTakenBack`, by the same invariants.
  `WhatProvidersSay` is `RowsAndProvidersAgree`. *Rows of repositories* (`RowsInv` of `RepositoryRows`):
  as long as nothing was raced there is a history, from what was told before the events on their way to
  what the provider has, each event leading from one to the next, and no two repositories have
  one name at any time of it; the rows say its beginning, except those that a handler is about
  to write. So the trigger takes names only from rows of repositories that are gone. *Installations*
  (`InstallInv`): the event that is read and those on their way lead, in this order, from the installation
  that the row names to the one that GitHub has, and repositories use it or a task will see to it.
  *Settings* (`SettingsInv`): the provider has the hook that the row names and those that requests
  have made and not yet saved, except the one that a request has deleted; each number is given
  once. *Payment details* (`AccountInv`): the row's coupon is the only one ever in force, and if it is not yet,
  a request is about to apply it. The first three are claimed for requests and handlers that do not
  overtake each other (`raced`, `excused`, `overlapped`), the last for rows that were not saved over (`behind`).

Liveness (`EndedIsForgotten`, `PullsConverge`, the fairness of `ComparisonQueue`) is beyond the
prover and model-checked only. So are `ReportsAreTrue`, `HistoryIsTrue` and `RequestsAreAnswered`
of `coverage`: what they are about is recursive, sorts or folds over data, for which induction
would be needed, and recursion keeps a module from being proved about at all. Every other
property that a passing run checks is stated by a theorem, of `ImplementsQueue` its safety.

`Removals` and `Serial` hold for one request at a time and are claimed so: with
two, a save of a stale list can bring a holder back after the seats were lowered.

## What was planned and what is left

The plan went from the rows that cost money or lose data to those that only show something:
billing and seats with their proofs; comparisons and uploads with their proofs; the
algorithms over reports and time; the other services; the events of the git providers.
All of that is there. Left are

* crashes of web workers in `Uploads`, and its named reports;
* the composition of `Access` with `Login`, and of `RepositoryRows` with `Uploads`.

## Not modelled

Sentry and segment events, which nothing reads back. Rendering, serialization and resolvers that
hand out a column; colours and markup of graphs. Administration and migrations, except the
triggers, which `GitEvents` and `RepositoryRows` have. Settings, URL tables, logging.
The lists of the REST API, which differ from those in `Listings` in their ordering only. The
object store, the provider APIs other than what is read from them, and the worker other than
what it does to the rows the service reads; they are external. `PROJECT.json` says for each
component what is left out.
