------------------------------- MODULE Listings -------------------------------
(***************************************************************************)
(* Lists of repositories, commits and branches: the queries of             *)
(* core/managers.py and graphql_api/actions, their ordering, and the pages *)
(* that a client of the GraphQL API follows from cursor to cursor          *)
(* (graphql_api/helpers/connection.py).                                    *)
(*                                                                         *)
(* A repository is [id, author, private, deleted, name, branch, active], a *)
(* commit [id, repo, branch, complete, deleted, merged, time, totals],     *)
(* where totals is Nothing or [c, hits, lines]; an owner is Nothing or     *)
(* [id, permission, organizations].  Times are minutes, all different in   *)
(* a repository except where a definition says otherwise.                  *)
(***************************************************************************)
EXTENDS Absent, Integers, Sequences, FiniteSets, SequencesExt, FiniteSetsExt

CONSTANTS
    HourLength,     \* minutes in an hour
    DaySpan         \* minutes in a day

\* What the constants must be
SpansAssumption == HourLength \in Nat /\ DaySpan \in Nat \ {0}

-----------------------------------------------------------------------------
(* RepositoryQuerySet *)

viewable_repos(rows, owner) ==
    {r \in rows : /\ r.name # Nothing
                  /\ \/ ~r.private /\ ~r.deleted
                     \/ owner # Nothing /\ (r.author = owner.id \/ r.id \in owner.permission)}

Newest(commits) == CHOOSE c \in commits : \A d \in commits : d.time <= c.time

TotalsOf(commits) == IF commits = {} THEN Nothing ELSE Newest(commits).totals

CoverageOf(totals) == IF totals = Nothing THEN Nothing ELSE totals.c

\* bug: the commits of the last hour count
OfAnyAge(r, commits, now) ==
    {c \in commits : c.repo = r.id /\ c.complete /\ c.branch = r.branch /\ c.time <= now}

Settled(r, commits, now) ==
    {c \in commits : /\ c.repo = r.id /\ c.complete /\ c.branch = r.branch
                     /\ c.time <= now - HourLength}

\* recent_coverage, and coverage, which orders the list
recent_coverage(r, commits, now) == CoverageOf(TotalsOf(Settled(r, commits, now)))

with_recent_coverage(r, commits, now) ==
    LET c == recent_coverage(r, commits, now) IN IF c = Nothing THEN -1 ELSE c

\* latest_commit_totals and prev_commit_totals
CommitsBefore(r, commits, before, branch) ==
    {c \in commits : /\ c.repo = r.id /\ c.complete
                     /\ c.branch = (IF branch = Nothing THEN r.branch ELSE branch)
                     /\ c.time \div DaySpan <= before \div DaySpan}

latest_commit_totals(r, commits, before, branch) == TotalsOf(CommitsBefore(r, commits, before, branch))

prev_commit_totals(r, commits, before, branch) ==
    LET all == CommitsBefore(r, commits, before, branch)
    IN IF all = {} THEN Nothing ELSE TotalsOf(all \ {Newest(all)})

exclude_uncovered(rows, commits, before, branch) ==
    {r \in rows : latest_commit_totals(r, commits, before, branch) # Nothing}

\* bug: the previous coverage comes first
ChangeBackwards(r, commits, before, branch) ==
    LET now == CoverageOf(latest_commit_totals(r, commits, before, branch))
        prev == CoverageOf(prev_commit_totals(r, commits, before, branch))
    IN IF Nothing \in {now, prev} THEN Nothing ELSE prev - now

latest_coverage_change(r, commits, before, branch) ==
    LET now == CoverageOf(latest_commit_totals(r, commits, before, branch))
        prev == CoverageOf(prev_commit_totals(r, commits, before, branch))
    IN IF Nothing \in {now, prev} THEN Nothing ELSE now - prev

\* get_aggregated_coverage: sums leave out NULL, and a sum of nothing is NULL, as
\* is the fraction of a sum that is NULL; no lines at all are a division by zero.
Weighted(totals) ==
    LET known == {r \in DOMAIN totals : totals[r] # Nothing}
    IN IF known = {} THEN Nothing
       ELSE <<MapThenSumSet(LAMBDA r : totals[r].hits, known),
              MapThenSumSet(LAMBDA r : totals[r].lines, known)>>

get_aggregated_coverage(rows, commits, before, branch) ==
    LET latest == Weighted([r \in rows |-> latest_commit_totals(r, commits, before, branch)])
        prev == Weighted([r \in rows |-> prev_commit_totals(r, commits, before, branch)])
    IN [weighted_coverage |-> latest, prev |-> prev,
        fails |-> \E w \in {latest, prev} : w # Nothing /\ w[2] = 0]

\* The newest commit, whatever its state, and also one that is deleted; 1900 without one
latest_commit_at(r, commits) ==
    LET all == {c \in commits : c.repo = r.id} IN IF all = {} THEN -1 ELSE Newest(all).time

-----------------------------------------------------------------------------
(* graphql_api/actions/repository.py, and FetchRepositoryInteractor *)

apply_filters_to_queryset(rows, filters) ==
    {r \in rows : /\ filters.repo_names # {} => r.name \in filters.repo_names
                  /\ filters.active # Nothing => r.active = filters.active}

list_repository_for_owner(rows, current, owner, filters) ==
    apply_filters_to_queryset({r \in viewable_repos(rows, current) : r.author = owner}, filters)

search_repos(rows, current, filters) ==
    apply_filters_to_queryset({r \in viewable_repos(rows, current) :
                                  r.author \in {current.id} \cup current.organizations}, filters)

\* bug: deleted and private repositories are found by their names
FetchAny(rows, current, owner, name) ==
    LET found == {r \in rows : r.author = owner /\ r.name = name}
    IN IF found = {} THEN Nothing ELSE CHOOSE r \in found : TRUE

FetchRepository(rows, current, owner, name) ==
    LET found == {r \in viewable_repos(rows, current) : r.author = owner /\ r.name = name}
    IN IF found = {} THEN Nothing ELSE CHOOSE r \in found : TRUE

-----------------------------------------------------------------------------
(* graphql_api/actions/commits.py, FetchRepoBranchesInteractor *)

repo_commits(commits, repo, filters) ==
    {c \in commits : /\ c.repo = repo /\ ~c.deleted
                     /\ filters.branch_name # Nothing => c.branch = filters.branch_name
                     /\ filters.complete => c.complete}

\* bug: the head must be known not to be merged
KnownUnmerged(r, commits, heads, merged_branches) ==
    {b \in DOMAIN heads : \/ merged_branches \/ b = r.branch
                          \/ \E c \in commits : c.repo = r.id /\ c.id = heads[b] /\ ~c.merged}

\* heads gives the id of the head of each branch
fetch_branches(r, commits, heads, merged_branches) ==
    {b \in DOMAIN heads : \/ merged_branches \/ b = r.branch
                          \/ \A c \in commits : c.repo = r.id /\ c.id = heads[b] => ~c.merged}

-----------------------------------------------------------------------------
(***************************************************************************)
(* queryset_to_connection.  A cursor is the key of a row: the values of    *)
(* the fields that order the list, all in one direction.                   *)
(***************************************************************************)
\* bug: the row that the cursor names is behind it
LessOrSame(k, l) == \/ k[1] < l[1]
                    \/ k[1] = l[1] /\ (Len(k) > 1 => k[2] <= l[2])

Less(k, l) == \/ k[1] < l[1]
              \/ k[1] = l[1] /\ Len(k) > 1 /\ k[2] < l[2]

\* bug: a repository without coverage has no value to be ordered by
KeyWithoutDefault(ordering, commits, now, r) ==
    <<CASE ordering = "coverage" -> recent_coverage(r, commits, now)
        [] ordering = "latest_commit_at" -> latest_commit_at(r, commits)
        [] ordering = "repoid" -> r.id
        [] ordering = "name" -> r.name,
      r.id>>

\* The key of a row: the ordering asked for, then the id, which breaks ties
RepositoryKey(ordering, commits, now, r) ==
    <<CASE ordering = "coverage" -> with_recent_coverage(r, commits, now)
        [] ordering = "latest_commit_at" -> latest_commit_at(r, commits)
        [] ordering = "repoid" -> r.id
        [] ordering = "name" -> r.name,
      r.id>>

\* The rows behind the cursor.  A key that is NULL is not behind anything.
Behind(rows, key, after, direction) ==
    {r \in rows : \/ after = Nothing
                  \/ /\ Nothing \notin {key[r][1], after[1]}
                     /\ IF direction = "ascending" THEN Less(after, key[r]) ELSE Less(key[r], after)}

\* One page: at most first rows, in order; ties as they come
Page(rows, key, after, direction, first) ==
    LET before(r, s) == LET k == key[r] l == key[s]
                        IN \/ l[1] = Nothing /\ k[1] # Nothing
                           \/ Nothing \notin {k[1], l[1]}
                              /\ IF direction = "ascending" THEN Less(k, l) ELSE Less(l, k)
        all == SetToSortSeq(Behind(rows, key, after, direction), before)
    IN SubSeq(all, 1, Min({first, Len(all)}))

\* What a client has seen after following so many cursors; it stops at an empty page.
Pages(rows, key, direction, first) ==
    LET seen[n \in 0..Cardinality(rows)] ==
            IF n = 0 THEN <<>>
            ELSE LET s == seen[n - 1]
                     after == IF s = <<>> THEN Nothing ELSE key[Last(s)]
                 IN IF n > 1 /\ Len(s) < (n - 1) * first THEN s
                    ELSE s \o Page(rows, key, after, direction, first)
    IN seen[Cardinality(rows)]

-----------------------------------------------------------------------------
(***************************************************************************)
(* Which repositories a chart is made of: ChartPermissions asks for each   *)
(* repository that is named, apply_simple_filters and ChartQueryRunner     *)
(* leave out what is not viewable.  open are the repositories that the     *)
(* provider lets the user see (external).                                  *)
(***************************************************************************)
Readable(r, current, open) ==
    ~r.private \/ (current # Nothing /\ (\/ r.author = current.id
                                        \/ r.id \in current.permission \cup open))

\* RepositoriesMixin.repositories
repositories(rows, owner, names) == {r \in rows : r.author = owner /\ r.name \in names}

\* _fetch_provider_permissions: who was let in by the provider has the permission from
\* then on, also in the request itself
WithPermissions(named, current, open) ==
    IF current = Nothing THEN Nothing
    ELSE [current EXCEPT !.permission = @ \cup
            {r.id : r \in {q \in named : q.private /\ q.author # current.id /\ q.id \in open}}]

\* bug: the permission is asked for, and is enough
NamedOnly(rows, current, owner, names) ==
    {r \in rows : r.name # Nothing /\ r.author = owner /\ (names # {} => r.name \in names)}

apply_simple_filters(rows, current, owner, names) ==
    {r \in viewable_repos(rows, current) : r.author = owner /\ (names # {} => r.name \in names)}

\* RepositoryChartHandler.post; Nothing is a 404
RepositoryChart(rows, current, owner, names, open) ==
    LET named == repositories(rows, owner, names)
    IN IF \E r \in named : ~Readable(r, current, open) THEN Nothing
       ELSE apply_simple_filters(rows, WithPermissions(named, current, open), owner, names)

\* ChartQueryRunner.repoids
OrganizationChart(rows, current, owner, names) ==
    {r \in viewable_repos(rows, current) :
        r.author = owner /\ r.active /\ (names # {} => r.name \in names)}

-----------------------------------------------------------------------------
(* Properties *)

\* A client that follows the cursors of a list of repositories sees each that it may see
\* once, whatever the order and the size of the pages, also those without coverage or
\* commits (repository.py:36, "the NULL would end up last").
PagesAreComplete(rows, owner, commits, now, ordering, direction, first) ==
    LET visible == viewable_repos(rows, owner)
        pages == Pages(visible, [r \in visible |-> RepositoryKey(ordering, commits, now, r)],
                       direction, first)
    IN Len(pages) = Cardinality(visible) /\ {pages[k] : k \in DOMAIN pages} = visible

\* Commits have only their time to be ordered by.  Of several with one time those are
\* missed that the page before ends within, and no others; none is listed twice.
OnlyTiesAreMissed(commits, repo, filters, first) ==
    LET all == repo_commits(commits, repo, filters)
        pages == Pages(all, [c \in all |-> <<c.time>>], "descending", first)
        ends == {pages[k].time : k \in {n \in DOMAIN pages : n % first = 0}}
    IN /\ \A c \in all : (\A k \in DOMAIN pages : pages[k] # c) => c.time \in ends
       /\ \A k, l \in DOMAIN pages : k # l => pages[k] # pages[l]

\* The coverage in the list does not move while the newest commit's reports come in:
\* nothing that happens in an hour after a commit changes it; once a branch was quiet for
\* an hour it is that of the newest complete commit, the one of the list of totals.
RecentIsSettled(r, commits, now) ==
    LET old == {c \in commits : c.time <= now - HourLength}
    IN /\ recent_coverage(r, commits, now) = recent_coverage(r, old, now)
       /\ old = commits =>
            recent_coverage(r, commits, now)
              = CoverageOf(latest_commit_totals(r, commits, now, Nothing))

\* The change of an organization's coverage is that of its repositories: when no file
\* gained or lost a line it falls only if that of a repository fell.  (Not so when a
\* repository has no previous commit, which counts in one of the sums only.)
AggregateFollows(rows, commits, before) ==
    LET a == get_aggregated_coverage(rows, commits, before, Nothing)
        now(r) == latest_commit_totals(r, commits, before, Nothing)
        prev(r) == prev_commit_totals(r, commits, before, Nothing)
    IN /\ \A r \in rows : /\ (now(r) = Nothing) = (prev(r) = Nothing)
                          /\ now(r) # Nothing => now(r).lines = prev(r).lines
       /\ a.weighted_coverage # Nothing
       => /\ a.weighted_coverage[2] = a.prev[2]
          /\ a.weighted_coverage[1] < a.prev[1] =>
                \E r \in rows : LET d == latest_coverage_change(r, commits, before, Nothing)
                                IN d # Nothing /\ d < 0

\* A repository is found by its name exactly if the list of its owner shows it, and if
\* the owner is the user or an organization of the user, the search does.
FetchedIsListed(rows, current, owner, name) ==
    LET r == FetchRepository(rows, current, owner, name)
        named == [repo_names |-> {name}, active |-> Nothing]
    IN /\ list_repository_for_owner(rows, current, owner, named) = IF r = Nothing THEN {} ELSE {r}
       /\ current # Nothing =>
            ((r # Nothing /\ owner \in {current.id} \cup current.organizations)
               <=> \E s \in search_repos(rows, current, named) : s.author = owner)

\* The default branch is always listed, and every branch whose head is of a pull request
\* that was not merged; a merged one comes back when a new commit becomes its head.
UnmergedAreListed(r, commits, heads) ==
    \A b \in DOMAIN heads :
        b \notin fetch_branches(r, commits, heads, FALSE) =>
            b # r.branch /\ \E c \in commits : c.merged /\ c.id = heads[b]

\* A chart shows no repository that the user may not read, named or not; of those that are
\* named it leaves out deleted ones at most, or is refused because of one that is private;
\* and the chart of an organization is of the active ones among those of the list.
\* (api/internal/chart/filters.py:42-45, api/shared/permissions.py:109-125)
ChartIsOfReadable(rows, current, owner, names, open) ==
    LET shown == RepositoryChart(rows, current, owner, names, open)
        named == repositories(rows, owner, names)
    IN /\ IF shown = Nothing THEN \E r \in named : r.private
          ELSE /\ \A r \in shown : Readable(r, current, open)
               /\ \A r \in named \ shown : r.deleted
       /\ OrganizationChart(rows, current, owner, names)
            = list_repository_for_owner(rows, current, owner, [repo_names |-> names, active |-> TRUE])
       /\ shown # Nothing => OrganizationChart(rows, current, owner, names) \subseteq shown
=============================================================================
