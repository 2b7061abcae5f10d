------------------------------ MODULE MCCoverage ------------------------------
(***************************************************************************)
(* The algorithms that show coverage, each over all small inputs: a file   *)
(* of a comparison, the impacted files, the sessions, paths and ancestors  *)
(* of a report, coverage over time, and the charts.  The input grows item  *)
(* by item; which algorithm it is for is chosen first.  A request is asked *)
(* as a whole.                                                             *)
(***************************************************************************)
EXTENDS FileComparison, Timeseries

CONSTANTS Names, MaxDepth

R == INSTANCE Reports
L == INSTANCE Listings WITH HourLength <- 3, DaySpan <- 100
G == INSTANCE Badges
U == INSTANCE Arguments
P == INSTANCE PullCompare WITH
        ComparedFiles <- {}, Readers <- {}, MaxVersion <- 0,
        versions <- <<>>, listed <- Nothing, listedOf <- {}, reading <- <<>>

VARIABLES
    part,       \* the algorithm
    items       \* its input

Parts == {"file", "impacted", "sessions", "paths", "ancestors", "series", "chart"}
Bound == [file |-> 0, impacted |-> 2, sessions |-> 3, paths |-> 3, ancestors |-> 4,
          series |-> 3, chart |-> 3]

-----------------------------------------------------------------------------
Cell(op, base, head, signed) == [op |-> op, base |-> base, head |-> head, signed |-> signed]
MCCells == {Cell("keep", "hit", "hit", FALSE), Cell("keep", "hit", "miss", TRUE),
            Cell("keep", "hit", "miss", FALSE), Cell("keep", Nothing, "hit", FALSE),
            Cell("add", Nothing, "hit", FALSE), Cell("del", "hit", Nothing, FALSE)}

T(h, m, p) == [hits |-> h, misses |-> m, partials |-> p]
File == [base_name : {1}, head_name : {1, 2, Nothing}, new : {FALSE}, gone : {FALSE},
         base : {Nothing, T(0, 1, 0), T(3, 0, 1)}, head : {Nothing, T(0, 1, 0), T(1, 1, 0)},
         added : {<<>>, <<"h", "m">>}, removed : {<<>>}, unexpected : {<<>>, <<<<"h", "m">>>>}]

Upload == [order : 1..2, type : {"uploaded", "carriedforward"}, flags : SUBSET {"x", "y"},
           state : {"processed", "error"}]

Path == {<<"a">>, <<"b">>, <<"b", "a">>, <<"b", "b">>, <<"b", "a", "a">>, <<"a", "b">>}
Weight == [p \in Path |-> IF Len(p) = 3 THEN 4 ELSE IF p[1] = "a" THEN 1 ELSE 2]

Ancestor == [complete : BOOLEAN, has : BOOLEAN]

\* times in half intervals; the chart's day is one of them
Measurement == [time : {0, 1, 2, 5}, repo : {1, 2}, branch : {"main"},
                coverage : {Nothing, 1, 3}]

Commit == [time : {1, 3, 4, 9}, repo : {1, 2}, complete : BOOLEAN, deleted : {FALSE},
           complexity : {Nothing}, totals : {Nothing, T(0, 0, 0), T(1, 0, 0), T(1, 1, 2)}]
          \cup [time : {1, 4}, repo : {1}, complete : {TRUE}, deleted : BOOLEAN,
                complexity : {1, 2}, totals : {T(1, 0, 0)}]

Item == [file |-> {}, impacted |-> File, sessions |-> Upload, paths |-> Path,
         ancestors |-> Ancestor, series |-> Measurement, chart |-> Commit]

\* commits come in the order of their times, paths each once
Follows(item) ==
    LET last == items[Len(items)]
    IN items # <<>> =>
        /\ part = "paths" => item \notin {items[i] : i \in DOMAIN items}
        /\ part = "series" => last.time <= item.time
        /\ part = "chart" => last.time < item.time

-----------------------------------------------------------------------------
(***************************************************************************)
(* Small inputs for the operators that answer one request: listings,       *)
(* reports, badges and graphs, pull requests, the arguments of an upload   *)
(* and the routing of a task.  An input carries the tag of what it is for. *)
(***************************************************************************)
(* Listings *)

Name == <<3, 1, 2>>
Row(k, private, deleted, name) ==
    [id |-> k, author |-> 1, private |-> private, deleted |-> deleted, name |-> name,
     branch |-> "main", active |-> TRUE]
Totals(hits, of) ==
    IF hits = Nothing THEN Nothing ELSE [c |-> (100 * hits) \div of, hits |-> hits, lines |-> of]
CommitRow(k, r, branch, complete, time, totals) ==
    [id |-> k, repo |-> r, branch |-> branch, complete |-> complete, deleted |-> FALSE,
     merged |-> FALSE, time |-> time, totals |-> totals]
Owner == [id |-> 1, permission |-> {}, organizations |-> {}]

\* Three repositories, of which each has a commit or none; coverage and times may tie
Pages == [tag : {"pages"}, seen : [1..3 -> {Nothing, 3, 5, 9}], hidden : BOOLEAN,
          ordering : {"coverage", "latest_commit_at", "repoid", "name"},
          direction : {"ascending", "descending"}, first : 1..2]
RowsOf(i) ==
    {Row(k, i.hidden, FALSE, IF i.hidden /\ k = 2 THEN Nothing ELSE Name[k]) : k \in 1..3}
NewestOf(i) ==
    {CommitRow(k, k, "main", TRUE, IF i.seen[k] = 9 THEN 10 ELSE k,
            Totals(IF i.seen[k] = 9 THEN 4 ELSE i.seen[k], 10)) : k \in {j \in 1..3 : i.seen[j] # Nothing}}

\* Four commits of one branch, the last perhaps deleted
Ties == [tag : {"ties"}, time : [1..4 -> 1..3], deleted : BOOLEAN, first : 1..3]
TiesOf(i) ==
    {[CommitRow(k, 1, "main", TRUE, i.time[k], Totals(1, 10)) EXCEPT !.deleted = (k = 4 /\ i.deleted)]
        : k \in 1..4}

\* Up to three commits, some of them younger than an hour
Recent == [tag : {"recent"}, now : {3, 5, 8},
           commit : [1..3 -> {Nothing} \cup [complete : BOOLEAN, branch : {"main", "dev"},
                                             hits : {Nothing, 1, 2}]]]
RecentOf(i) ==
    {CommitRow(k, 1, i.commit[k].branch, i.commit[k].complete, 2 * k, Totals(i.commit[k].hits, 10))
        : k \in {j \in 1..3 : i.commit[j] # Nothing}}

\* Two repositories with up to two commits of two or four lines
Sums == [tag : {"sums"}, hits : [1..2 -> [1..2 -> {Nothing} \cup (0..2)]], half : [1..2 -> {1, 2}],
         have : [1..2 -> 0..2]]
SumsOf(i) ==
    {CommitRow(10 * r + k, r, "main", TRUE, k, Totals(i.hits[r][k], 2 * i.half[r]))
        : <<r, k>> \in {q \in (1..2) \X (1..2) : q[2] <= i.have[q[1]]}}

Fetches == [tag : {"fetches"}, permission : SUBSET {1, 2}, organizations : SUBSET {1, 2},
            row : [1..2 -> [author : 1..2, private : BOOLEAN, deleted : BOOLEAN, name : {1, Nothing}]],
            current : {Nothing, 1, 3}]
FetchRows(i) ==
    {[Row(k, i.row[k].private, i.row[k].deleted, i.row[k].name) EXCEPT !.author = i.row[k].author,
                                                                       !.active = (k = 1)]
        : k \in 1..2}
Current(i) ==
    IF i.current = Nothing THEN Nothing
    ELSE [id |-> i.current, permission |-> i.permission, organizations |-> i.organizations]
\* repos_slug
UniqueNames(rows) ==
    \A r, s \in rows : r.author = s.author /\ r.name = s.name /\ r.name # Nothing => r = s

BranchesIn == [tag : {"branches"}, dev : 1..2, main : 1..2, merged : BOOLEAN, known : BOOLEAN]

Listed(i) ==
    /\ i.tag = "pages" => L!PagesAreComplete(RowsOf(i), Owner, NewestOf(i), 10, i.ordering, i.direction, i.first)
    /\ i.tag = "ties" =>
         L!OnlyTiesAreMissed(TiesOf(i), 1, [branch_name |-> Nothing, complete |-> FALSE], i.first)
    /\ i.tag = "recent" => L!RecentIsSettled(Row(1, FALSE, FALSE, 1), RecentOf(i), i.now)
    /\ i.tag = "sums" => L!AggregateFollows({Row(k, FALSE, FALSE, k) : k \in 1..2}, SumsOf(i), 5)
    /\ i.tag = "fetches" /\ UniqueNames(FetchRows(i)) =>
         \A owner \in 1..2 :
            /\ L!FetchedIsListed(FetchRows(i), Current(i), owner, 1)
            /\ \A names \in {{}, {1}, {1, 3}}, open \in SUBSET {1, 2} :
                 L!ChartIsOfReadable(FetchRows(i), Current(i), owner, names, open)
    /\ i.tag = "branches" =>
         L!UnmergedAreListed(Row(1, FALSE, FALSE, 1),
             IF i.known THEN {[CommitRow(1, 1, "dev", TRUE, 1, Totals(1, 10)) EXCEPT !.merged = i.merged]} ELSE {},
             [b \in {"dev", "main"} |-> IF b = "dev" THEN i.dev ELSE i.main])

-----------------------------------------------------------------------------
(* Files of two reports, some of them renamed *)

FileNames == {"a", "b", "c"}
Renamings == [tag : {"renames"}, base : SUBSET FileNames, head : SUBSET FileNames,
              before : {before \in UNION {[D -> FileNames] : D \in SUBSET FileNames} :
                            \A f, g \in DOMAIN before : before[f] = before[g] => f = g}]

-----------------------------------------------------------------------------
(* Reports as the public endpoints put them together *)

Lines == [file : {"a/x", "a/y", "b"}, flag : {"f", "g"}]

Filters == [tag : {"filters"}, report : SUBSET Lines,
            path : {Nothing} \cup [files : {{"a/x", "a/y"}, {"b"}, {}}, matches : BOOLEAN],
            flag : {Nothing, "f"},
            component : {Nothing} \cup [exists : BOOLEAN, files : {{"a/x"}, {"a/x", "b"}},
                                        regexes : {TRUE}, flags : {{}, {"f"}, {"g"}}]
                                  \cup [exists : BOOLEAN, files : {{"a/x"}, {"a/x", "b"}},
                                        regexes : {FALSE}, flags : {{}}]]

ReportRow == [code : {Nothing, "local"}, details : {Nothing, {"b"}, {"a/x", "b"}},
              sessions : {{"f"}, {"f", "g"}}]
\* up to two rows of reports, in either order
ReportRows ==
    {{}} \cup {{[id |-> 1, code |-> r.code, details |-> r.details, sessions |-> r.sessions]} : r \in ReportRow}
         \cup {{[id |-> 1, code |-> r.code, details |-> r.details, sessions |-> r.sessions],
                [id |-> 2, code |-> s.code, details |-> s.details, sessions |-> s.sessions]}
                    : r, s \in ReportRow}
Builds == [tag : {"builds"}, rows : ReportRows, lines : {Lines, {[file |-> "b", flag |-> "g"]}},
           report : {Nothing} \cup [details : {{"b"}, {"a/x", "b"}}, sessions : {{"f"}, {"f", "g"}}]]

Reported(i) ==
    /\ i.tag = "filters" => R!PartIsAskedFor(i.report, i)
    /\ i.tag = "builds" => R!BuildersAgree(i)

-----------------------------------------------------------------------------
(* Badges and graphs *)

Leaf(n) == [lines |-> n, children |-> <<>>]
Directory(s) == [lines |-> G!TotalLines(s), children |-> s]
Files == {Leaf(n) : n \in {0, 1, 3}}
Lists(S, n) == UNION {[1..k -> S] : k \in 1..n}
Trees == [tag : {"trees"},
          items : Lists(Files \cup {Directory(s) : s \in Lists(Files, 2)}, 2)
                  \cup [1..4 -> Files]
                  \cup {<<Directory(<<Directory(s), Leaf(2)>>), Leaf(1)>> : s \in Lists(Files, 2)}]

Commits == {[c1 |-> [c |-> 50, flags |-> [f1 |-> 70]], c2 |-> [c |-> 20, flags |-> Nothing]],
            [c1 |-> [c |-> Nothing, flags |-> Nothing], c3 |-> [c |-> 0, flags |-> [f1 |-> Nothing]]]}
Badges == [tag : {"badges"}, token : BOOLEAN, branch : {Nothing, "dev"},
           repo : {Nothing} \cup [private : BOOLEAN, branch : {"main"}, commits : Commits,
                                  heads : {[main |-> "c1", dev |-> "c2"], [main |-> "c3"]}],
           commit : {Nothing, "c1", "c4"}, pull : {Nothing, "p1", "p2"}, flag : {Nothing, "f1", "f2"},
           flares : {{}, {"p1"}}]

Drawn(i) ==
    /\ i.tag = "trees" =>
         G!StripsNest(i.items) /\ \A w \in {2, 3}, h \in {2, 5} : G!FilesTileTheFrame(i.items, w, h)
    /\ i.tag = "badges" => G!TokenIsNeeded(i) /\ G!BadgeHasGraph(i)

-----------------------------------------------------------------------------
(* Comparisons of pull requests, arguments of uploads, tasks *)

Present == {"there", Nothing, "lost"}
Pulls == [tag : {"pulls"}, pull : BOOLEAN, compared_to : {Nothing, "base", "other"},
          pseudo : BOOLEAN, offsets : BOOLEAN, moves : BOOLEAN,
          commits : SUBSET {"base", "other", "head"}, base_report : Present, head_report : Present]

BranchNames == {Nothing} \cup [prefix : {"", "origin/"}, name : {"HEAD", "dev"}, pull : {Nothing, 7}]
Arguments == [tag : {"arguments"}, branch : BranchNames, pr : {Nothing, "false", "true", "3"},
              pull_request : {Nothing, "null", "4"}]

CIs == {"appveyor", "azure_pipelines", "circleci", "cirrus_ci", "github_actions", "travis"}
AllGiven == {"job", "build", "owner", "repo", "commit", "project", "server_uri", "pr"}
\* a build has finished exactly when its status is that it is completed
Status == {[status |-> s, finished |-> Nothing] : s \in {"inprogress", "executing", "started", "queued"}}
          \cup {[status |-> "completed", finished |-> n] : n \in {4, 5, 10, 11}}
Runs == [tag : {"runs"}, ci : CIs, slug : BOOLEAN, sha : BOOLEAN, prsha : BOOLEAN, pull : BOOLEAN,
         public : BOOLEAN, number : BOOLEAN, host : {"github", "none"}, at : Status]
RunOf(i) ==
    [slug |-> i.slug, sha |-> i.sha, prsha |-> i.prsha, pull |-> i.pull, public |-> i.public,
     number |-> i.number, host |-> i.host, status |-> i.at.status,
     finished |-> i.at.finished]

Slugs == [token : {"t1", "t2"}, host : {"github", "gitlab"}, slug : {"o/r", "o/s"}]
Finds == [tag : {"finds"}, token : {Nothing, "t1", "t3"}, slug : {"o/r"},
          rows : {rows \in SUBSET Slugs : /\ Cardinality(rows) <= 3
                                          /\ \A r, s \in rows : r.token = s.token => r = s},
          host : {Nothing, "github", "gitlab"}]

Bots == [tag : {"bots"}, bot : {Nothing, "bot"}, orgbot : {Nothing, "orgbot"},
         author : {Nothing, "author"}, private : BOOLEAN, merged : {Nothing, "merged"}]

Tasks == {[tag |-> "tasks", task |-> i.task, plan |-> i.plan, gone |-> i.gone]
            : i \in U!RoutingInputs({"paid", "users-basic"})}

Understood(i) ==
    /\ i.tag = "pulls" => P!PullIsAnswered(i)
    /\ i.tag = "arguments" => U!UploadIsPlaced(i, [prefix |-> "", name |-> "main", pull |-> Nothing])
    /\ i.tag = "runs" =>
         \A given \in {AllGiven} \cup {AllGiven \ {a} : a \in AllGiven} :
             U!BuildIsCurrent(i.ci, RunOf(i), [given |-> given])
    /\ i.tag = "finds" => U!RepositoryIsFound(i, i.rows, i.host)
    /\ i.tag = "bots" => U!BotIsEntitled(i, "commit", i.merged)
    /\ i.tag = "tasks" => U!PlanIsFound(i)

-----------------------------------------------------------------------------
Asked == [pages |-> Pages, ties |-> Ties, recent |-> Recent, sums |-> Sums, fetches |-> Fetches,
          branches |-> BranchesIn, filters |-> Filters, builds |-> Builds, trees |-> Trees,
          badges |-> Badges, pulls |-> Pulls, arguments |-> Arguments, renames |-> Renamings,
          runs |-> Runs, finds |-> Finds, bots |-> Bots, tasks |-> Tasks]

Init == part \in Parts \cup DOMAIN Asked /\ items = <<>> /\ FileInit

Add(p) ==
    /\ part = p /\ Len(items) < Bound[p]
    /\ \E item \in Item[p] : Follows(item) /\ items' = Append(items, item)
    /\ UNCHANGED <<part, fileVars>>

Ask(tag) ==
    /\ part = tag
    /\ part' = "request"
    /\ items' \in Asked[tag]
    /\ UNCHANGED fileVars

Next ==
    \/ part = "file" /\ FileNext /\ UNCHANGED <<part, items>>
    \/ \E p \in Parts \ {"file"} : Add(p)
    \/ \E tag \in DOMAIN Asked : Ask(tag)

Spec == Init /\ [][Next]_<<part, items, fileVars>>

-----------------------------------------------------------------------------
\* FetchIsSorted for every filter, parameter and direction (FetchImpactedFiles).
ImpactedFilesSorted ==
    part = "impacted" =>
        \A filter \in {Nothing, "unintended", "direct"}, p \in {Nothing} \cup Parameters,
           d \in {"ascending", "descending"} : FetchIsSorted(items, filter, p, d)

\* FlagsAreTrue of every sequence of uploads (build_sessions).
ReportFlags == part = "sessions" => R!FlagsAreTrue(items)

\* TreeIsTrue of every set of files below every path (ReportPaths.single_directory).
ReportTree ==
    part = "paths" =>
        \A path \in {<<>>, <<"b">>, <<"b", "a">>} :
            R!TreeIsTrue({items[i] : i \in DOMAIN items}, path, Weight)

\* WalkIsNearest for every number of steps (FileReportViewSet.get_object).
NearestReport ==
    part = "ancestors" /\ items # <<>> =>
        \A steps \in 0..4, oldest \in 0..5 : R!WalkIsNearest(items, steps, oldest)

Start == {Nothing, 0, 1, 3}
End == {3, 4, 5}
Repos == {{<<1, "main">>}, {<<1, "main">>, <<2, "main">>}}
Delta == 2

\* SeriesIsTrue for every range of dates and repositories (coverage_measurements).
MeasuredSeries ==
    part = "series" =>
        \A s \in Start, e \in End, r \in Repos : SeriesIsTrue(items, Delta, s, e, r)

\* FallbackAgrees for every range (coverage_fallback_query).
FallbackSeries ==
    part = "series" =>
        \A s \in Start, e \in End, r \in Repos : FallbackAgrees(items, Delta, s, e, r)

\* FlagAgrees for every range (flag_measurements).
FlagSeries == part = "series" => \A s \in {0, 1, 3}, e \in End : FlagAgrees(items, Delta, s, e)

\* BackfillCovers for batches of every length (TaskService.backfill_repo).
BackfillBatches == part = "series" => \A length \in 1..5 : BackfillCovers(items, length)

\* ChartIsTrue for every range and direction (ChartQueryRunner).
OrganizationChart ==
    part = "chart" =>
        \A s \in {Nothing, 3}, e \in {2, 5}, o \in {"DESC", "ASC"} :
            ChartIsTrue(items, {1, 2}, Delta, s, e, o)

\* OnlyFirstIsEmpty for every range (ChartQueryRunner).
ChartFailure ==
    part = "chart" =>
        \A s \in {Nothing, 3}, e \in {2, 5} : OnlyFirstIsEmpty(items, {1, 2}, Delta, s, e)

\* GroupingIsTrue for every function, value and direction (apply_grouping).
RepositoryChart ==
    part = "chart" =>
        \A f \in {"min", "max"}, o \in {"decreasing", "increasing"},
           v \in {"complexity_ratio", "coverage"} : GroupingIsTrue(items, Delta, f, v, o)

-----------------------------------------------------------------------------
\* What is shown of a report is what was uploaded for it: its flags, its files as a tree, the
\* part that was asked for, and the nearest ancestor's when it lacks a file.
\* (services/report.py, services/path.py, api/public/v2/report/views.py)
ReportsAreTrue ==
    /\ ReportFlags /\ ReportTree /\ NearestReport
    /\ part = "request" => Reported(items)

\* Coverage over time is of the commits that were measured, in order, without a gap at a
\* date that ends no interval, and the same whether it comes from the measurements or from
\* the commits. (timeseries/helpers.py, api/internal/chart/helpers.py, services/task)
HistoryIsTrue ==
    /\ MeasuredSeries /\ FallbackSeries /\ FlagSeries /\ BackfillBatches
    /\ OrganizationChart /\ ChartFailure /\ RepositoryChart

\* Of the files that changed, those that were asked for are listed in the order that was
\* asked for, each compared with what it was before; a list of pages misses nothing but ties
\* and shows nothing that may not be seen; badges and graphs are of one commit and fill
\* their frame; a pull request, the arguments of an upload and a task are taken for what
\* they are of. (fetch_impacted_files.py, services/comparison.py, graphs/, services/task/,
\* graphql_api/helpers/connection.py, api/shared/compare/mixins.py, upload/helpers.py)
RequestsAreAnswered ==
    /\ ImpactedFilesSorted
    /\ part = "request" =>
         /\ Listed(items) /\ Drawn(items) /\ Understood(items)
         /\ items.tag = "renames" => RenamesAreFollowed(items.base, items.head, items.before)
=============================================================================
