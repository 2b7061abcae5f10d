------------------------------ MODULE Timeseries ------------------------------
(***************************************************************************)
(* Coverage over time (timeseries/helpers.py and the resolvers and views   *)
(* that call it): the aggregates of TimescaleDB, the fallback that asks    *)
(* the commits instead, the series without gaps made of either, and the    *)
(* range of a backfill.                                                    *)
(*                                                                         *)
(* Times are integers counted from TimescaleDB's origin, 2000-01-03; an    *)
(* interval is a number of such units.  A commit has a time, a repository, *)
(* a branch and a coverage; each commit that has a coverage has also been  *)
(* measured (by the worker, external).                                     *)
(***************************************************************************)
EXTENDS Absent, Integers, Sequences, FiniteSets, SequencesExt, FiniteSetsExt

CONSTANTS
    Day,            \* units of time in a day, of the measurements
    DayLength,      \* units of time in a day, of the charts
    MaxCommits      \* max_num_commits of the repository's chart

ASSUME DayAssumption == Day \in Nat \ {0}
ASSUME DayLengthAssumption == DayLength \in Nat \ {0} /\ MaxCommits \in Nat \ {0}

\* TimescaleDB aligns its bins on the origin, before it as well as after it.
aligned_start_date(delta, date) == (date \div delta) * delta

-----------------------------------------------------------------------------
(* Aggregates: [bin, min, max, sum, count]; the average is sum / count *)

Summary(commits, S, bin) ==
    [bin |-> bin,
     min |-> Min({commits[i].coverage : i \in S}),
     max |-> Max({commits[i].coverage : i \in S}),
     sum |-> MapThenSumSet(LAMBDA i : commits[i].coverage, S),
     count |-> Cardinality(S)]

\* a continuous aggregate: one row for each bin, repository and branch
MeasurementSummary(commits, delta) ==
    LET key(i) == <<aligned_start_date(delta, commits[i].time),
                    commits[i].repo, commits[i].branch>>
        measured == {i \in DOMAIN commits : commits[i].coverage # Nothing}
    IN {[repo |-> k[2], branch |-> k[3],
         row |-> Summary(commits, {i \in measured : key(i) = k}, k[1])] :
            k \in {key(i) : i \in measured}}

\* bug: the averages of the rows are averaged
aggregate_averages(rows) ==
    {LET S == {r \in rows : r.row.bin = b}
     IN [bin |-> b,
         min |-> Min({r.row.min : r \in S}),
         max |-> Max({r.row.max : r \in S}),
         sum |-> MapThenSumSet(LAMBDA r : r.row.sum \div r.row.count, S),
         count |-> Cardinality(S)] :
     b \in {r.row.bin : r \in rows}}

\* one row for each bin: averages are weighted with their counts
aggregate_measurements(rows) ==
    {LET S == {r \in rows : r.row.bin = b}
     IN [bin |-> b,
         min |-> Min({r.row.min : r \in S}),
         max |-> Max({r.row.max : r \in S}),
         sum |-> MapThenSumSet(LAMBDA r : r.row.sum, S),
         count |-> MapThenSumSet(LAMBDA r : r.row.count, S)] :
     b \in {r.row.bin : r \in rows}}

\* repos is a set of pairs; an empty one filters nothing
_filter_repos(rows, repos) ==
    {r \in rows : repos # {} => <<r.repo, r.branch>> \in repos}

\* the one with the newest bin
Newest(rows) == {r \in rows : \A s \in rows : s.bin <= r.bin}

coverage_measurements(commits, delta, start, end, repos) ==
    LET rows == _filter_repos(MeasurementSummary(commits, delta), repos)
        range == {r \in rows : /\ start # Nothing => r.row.bin >= start
                               /\ r.row.bin <= end}
        older == {r \in rows : start # Nothing /\ r.row.bin < start}
    IN aggregate_measurements(range) \cup Newest(aggregate_measurements(older))

-----------------------------------------------------------------------------
(* The same from the commits *)

_commits_coverage(commits, S, delta) ==
    LET covered == {i \in S : commits[i].coverage # Nothing}
        bin(i) == aligned_start_date(delta, commits[i].time)
    IN {Summary(commits, {i \in covered : bin(i) = b}, b) : b \in {bin(i) : i \in covered}}

coverage_fallback_query(commits, delta, start, end, repos) ==
    LET wanted == {i \in DOMAIN commits :
                      repos # {} => <<commits[i].repo, commits[i].branch>> \in repos}
        range == {i \in wanted : /\ start # Nothing => commits[i].time >= start
                                 /\ commits[i].time <= end}
        older == {i \in wanted : start # Nothing /\ commits[i].time < start}
    IN _commits_coverage(commits, range, delta)
         \cup Newest(_commits_coverage(commits, older, delta))

-----------------------------------------------------------------------------
(* Series: sequences of rows, one for each interval *)

Gap(bin) == [bin |-> bin, min |-> Nothing, max |-> Nothing, sum |-> 0, count |-> 0]

\* Rows by their bin: of two with the same bin the later one in an order that
\* does not tell them apart is kept.
ByTimestamp(rows) ==
    {by \in [{r.bin : r \in rows} -> rows] : \A b \in DOMAIN by : by[b].bin = b}

\* bug: only a measurement of the first interval itself is carried
fill_sparse_nothing_carried(by, delta, start, end) ==
    LET first == aligned_start_date(delta, IF start = Nothing THEN Min(DOMAIN by) ELSE start)
        Interval(k) == first + (k - 1) * delta
    IN IF DOMAIN by = {} \/ end < first THEN <<>>
       ELSE [k \in 1..((end - first) \div delta + 1) |->
                IF Interval(k) \in DOMAIN by THEN by[Interval(k)] ELSE Gap(Interval(k))]

\* by is one of ByTimestamp(rows); an end of None is the present
fill_sparse_measurements(by, delta, start, end) ==
    LET first == aligned_start_date(delta, IF start = Nothing THEN Min(DOMAIN by) ELSE start)
        oldest == Min(DOMAIN by)
        Interval(k) == first + (k - 1) * delta
        Row(k) ==
            IF Interval(k) \in DOMAIN by THEN by[Interval(k)]
            ELSE IF k = 1 /\ oldest <= first THEN [by[oldest] EXCEPT !.bin = first]
            ELSE Gap(Interval(k))
    IN IF DOMAIN by = {} \/ end < first THEN <<>>
       ELSE [k \in 1..((end - first) \div delta + 1) |-> Row(k)]

\* resolve_measurements of a repository and of an owner
Series(rows, delta, start, end) ==
    {fill_sparse_measurements(by, delta, start, end) : by \in ByTimestamp(rows)}

\* bug: the interval that the start cuts is left out
flag_measurements_inside(commits, delta, after, before) ==
    aggregate_measurements({r \in MeasurementSummary(commits, delta) :
        after <= r.row.bin /\ r.row.bin <= before})

\* flag_measurements, with the commits of one flag: from the aligned start on,
\* and nothing older
flag_measurements(commits, delta, after, before) ==
    aggregate_measurements({r \in MeasurementSummary(commits, delta) :
        aligned_start_date(delta, after) <= r.row.bin /\ r.row.bin <= before})

\* percentCovered and percentChange, the latter as a pair of rows
PercentCovered(rows) == Newest(rows)
PercentChange(rows) ==
    IF Cardinality(rows) <= 1 THEN {}
    ELSE {<<r, s>> \in rows \X rows : \A x \in rows : x.bin <= r.bin /\ s.bin <= x.bin}

\* FlagCoverageViewSet.get_queryset: the start is not aligned
FlagCoverage(commits, delta, start, end) ==
    aggregate_measurements({r \in MeasurementSummary(commits, delta) :
        /\ start # Nothing => r.row.bin >= start
        /\ end # Nothing => r.row.bin <= end})

-----------------------------------------------------------------------------
(* Backfills *)

\* trigger_backfill: from the day of the oldest commit to the day after that of
\* the newest; Nothing without a commit
trigger_backfill(commits) ==
    IF commits = <<>> THEN Nothing
    ELSE LET times == {commits[i].time : i \in DOMAIN commits}
         IN <<aligned_start_date(Day, Min(times)), aligned_start_date(Day, Max(times)) + Day>>

\* bug: every batch has the full length
FullBatches(start, end, length) ==
    [k \in 1..((end - start + length - 1) \div length) |->
        <<end - k * length, end - (k - 1) * length>>]

\* TaskService.backfill_repo: batches from the end to the start
backfill_repo(start, end, length) ==
    [k \in 1..((end - start + length - 1) \div length) |->
        <<Max({end - k * length, start}), end - (k - 1) * length>>]

-----------------------------------------------------------------------------
(* Properties *)

Measured(commits, repos) ==
    {i \in DOMAIN commits : /\ commits[i].coverage # Nothing
                            /\ <<commits[i].repo, commits[i].branch>> \in repos}

\* A series has every interval between the dates once; each shows the commits that
\* were measured in it, and the first one, if there are none, those of the newest
\* measured interval before it (coverage_measurements, fill_sparse_measurements).
SeriesIsTrue(commits, delta, start, end, repos) ==
    repos # {} =>
    \A series \in Series(coverage_measurements(commits, delta, start, end, repos),
                         delta, start, end) :
        LET bin(i) == aligned_start_date(delta, commits[i].time)
            In(b) == {i \in Measured(commits, repos) : bin(i) = b}
            before(b) == {bin(i) : i \in {j \in Measured(commits, repos) : bin(j) <= b}}
            first == IF start # Nothing THEN aligned_start_date(delta, start)
                     ELSE Min(before(end))
        IN IF before(end) = {} THEN series = <<>>
           ELSE /\ end >= first => Len(series) = (end - first) \div delta + 1
                /\ \A k \in DOMAIN series :
                     LET b == first + (k - 1) * delta
                         source == IF k = 1 /\ before(b) # {} THEN Max(before(b)) ELSE b
                     IN series[k] = IF In(source) = {} THEN Gap(b)
                                    ELSE [Summary(commits, In(source), source) EXCEPT !.bin = b]

\* While the backfill runs the commits answer, and the series is the same on every
\* interval that lies between the dates as a whole (coverage_fallback_query); on an
\* interval that a date cuts, only the commits on one side of the date are counted.
FallbackAgrees(commits, delta, start, end, repos) ==
    LET At(series, b) == LET here == {k \in DOMAIN series : series[k].bin = b}
                         IN IF here = {} THEN Gap(b) ELSE series[CHOOSE k \in here : TRUE]
        whole == {b \in {aligned_start_date(delta, t) :
                            t \in {commits[i].time : i \in DOMAIN commits} \cup ({start} \ {Nothing})} :
                     (start # Nothing => b >= start) /\ b + delta - 1 <= end}
    IN \A s \in Series(coverage_measurements(commits, delta, start, end, repos), delta, start, end),
          t \in Series(coverage_fallback_query(commits, delta, start, end, repos), delta, start, end) :
            \A b \in whole : At(s, b) = At(t, b)

\* What a flag says of itself is what its series shows: the coverage is the last
\* value in it, the change is between its first and its last value; REST lists the
\* same rows, but for the interval that the start cuts.  No measurement between the
\* two dates is missing.
FlagAgrees(commits, delta, after, before) ==
    LET rows == flag_measurements(commits, delta, after, before)
        shown(series) == {k \in DOMAIN series : series[k].count # 0}
    IN /\ \A series \in Series(rows, delta, after, before) :
            shown(series) # {} =>
                LET last == series[Max(shown(series))]
                    first == series[Min(shown(series))]
                IN /\ PercentCovered(rows) = {last}
                   /\ PercentChange(rows) =
                        IF Cardinality(shown(series)) > 1 THEN {<<last, first>>} ELSE {}
       /\ rows # {} /\ after <= before =>
            \A series \in Series(rows, delta, after, before) : shown(series) # {}
       /\ FlagCoverage(commits, delta, after, before)
            = {r \in rows : r.bin >= after}
       /\ \A i \in DOMAIN commits :
            commits[i].coverage # Nothing /\ after <= commits[i].time /\ commits[i].time <= before =>
                \E r \in rows : r.bin <= commits[i].time /\ commits[i].time < r.bin + delta

\* Every commit is in exactly one batch of the backfill of its repository, and no
\* batch is longer than asked for or goes beyond the range.
BackfillCovers(commits, length) ==
    commits # <<>> =>
        LET range == trigger_backfill(commits)
            batches == backfill_repo(range[1], range[2], length)
        IN /\ \A i \in DOMAIN commits :
                Cardinality({k \in DOMAIN batches :
                    batches[k][1] <= commits[i].time /\ commits[i].time < batches[k][2]}) = 1
           /\ \A k \in DOMAIN batches :
                /\ range[1] <= batches[k][1] /\ batches[k][2] <= range[2]
                /\ 0 < batches[k][2] - batches[k][1] /\ batches[k][2] - batches[k][1] <= length

-----------------------------------------------------------------------------
(***************************************************************************)
(* The charts of the internal API (api/internal/chart): one of an          *)
(* organization, computed by one SQL query that carries each repository's  *)
(* totals forward along a spine of dates, and one of a repository, which   *)
(* picks one commit for each unit of time.                                 *)
(*                                                                         *)
(* A grouping unit is a number of days, the same for all its periods.  A   *)
(* commit is a record [repo, time, complete, deleted, totals, complexity]: *)
(* its totals are Nothing or [hits, misses, partials], its complexity      *)
(* ratio Nothing or a number.  The commits given are those of the branch   *)
(* and repositories that the request may see, no two of the same time.     *)
(***************************************************************************)
Date(time) == time \div DayLength
Trunc(unit, time) == (Date(time) \div unit) * unit

LineCount(t) == t.hits + t.misses + t.partials

\* a percentage as a fraction; none of no lines
Share(t) == IF LineCount(t) = 0 THEN Nothing ELSE <<t.hits, LineCount(t)>>

-----------------------------------------------------------------------------
(* ChartQueryRunner *)

Complete(commits) == {i \in DOMAIN commits : commits[i].complete}

first_complete_commit_date(commits, unit) ==
    Trunc(unit, Min({commits[i].time : i \in Complete(commits)}))

\* date_series: from the first commit's unit to the end, whatever the start
Spine(commits, unit, end) ==
    LET first == first_complete_commit_date(commits, unit)
    IN {first + k * unit : k \in 0..((end - first) \div unit)}

\* commits_spine: totals of the last complete commit of the unit, if any
TotalsOn(commits, unit, repo, date) ==
    LET S == {i \in Complete(commits) :
                 commits[i].repo = repo /\ Trunc(unit, commits[i].time) = date}
    IN IF S = {} THEN Nothing
       ELSE (CHOOSE c \in {commits[i] : i \in S} : \A i \in S : commits[i].time <= c.time).totals

\* grouped: how many dates up to this one have totals
grp_commit(commits, unit, end, repo, date) ==
    Cardinality({d \in Spine(commits, unit, end) :
                    d <= date /\ TotalsOn(commits, unit, repo, d) # Nothing})

\* bug: a unit without a commit has no totals
totals_without_carry(commits, unit, end, repo, date) ==
    LET t == TotalsOn(commits, unit, repo, date)
    IN IF t = Nothing THEN [hits |-> 0, misses |-> 0, partials |-> 0] ELSE t

\* corrected, parsed_totals: those of the first date of the group
corrected_totals(commits, unit, end, repo, date) ==
    LET group == {d \in Spine(commits, unit, end) :
                     grp_commit(commits, unit, end, repo, d)
                       = grp_commit(commits, unit, end, repo, date)}
        t == TotalsOn(commits, unit, repo, Min(group))
    IN IF t = Nothing THEN [hits |-> 0, misses |-> 0, partials |-> 0] ELSE t

\* summed_totals, from the unit of the start on.  The share of hits and partials
\* in no lines is a division by zero, and the query fails.
run_query(commits, repos, unit, start, end, ordering) ==
    IF repos = {} \/ Complete(commits) = {} THEN [error |-> FALSE, rows |-> <<>>]
    ELSE LET from == IF start = Nothing THEN first_complete_commit_date(commits, unit) ELSE start
             dates == SetToSortSeq({d \in Spine(commits, unit, end) :
                                       d >= (from \div unit) * unit},
                                   LAMBDA d, e : IF ordering = "DESC" THEN d > e ELSE d < e)
             of(r, d) == corrected_totals(commits, unit, end, r, d)
             row(d) == [date |-> d,
                        hits |-> MapThenSumSet(LAMBDA r : of(r, d).hits, repos),
                        misses |-> MapThenSumSet(LAMBDA r : of(r, d).misses, repos),
                        partials |-> MapThenSumSet(LAMBDA r : of(r, d).partials, repos)]
             rows == [k \in DOMAIN dates |-> row(dates[k])]
         IN [error |-> \E k \in DOMAIN rows : LineCount(rows[k]) = 0, rows |-> rows]

-----------------------------------------------------------------------------
(* RepositoryChartHandler *)

apply_default_filters(commits) ==
    SelectSeq(commits, LAMBDA c : c.complete /\ c.totals # Nothing /\ ~c.deleted)

apply_simple_filters(commits, start, end) ==
    SelectSeq(commits, LAMBDA c : /\ start # Nothing => Date(c.time) >= start
                                  /\ end # Nothing => Date(c.time) <= end)

\* annotate_commits_with_totals, and timestamp: the values that commits are
\* ordered by, as fractions
AggValue(c, agg_value) ==
    CASE agg_value = "timestamp" -> <<c.time, 1>>
      [] agg_value = "coverage" -> Share(c.totals)
      [] agg_value = "complexity_ratio" ->
            IF c.complexity = Nothing THEN Nothing ELSE <<c.complexity, 1>>

Smaller(x, y) == x[1] * y[2] < y[1] * x[2]

\* bug: the direction is ignored
AlwaysAscending(x, y, agg_function) == y = Nothing \/ (x # Nothing /\ ~Smaller(y, x))

\* Whether x may come before y: PostgreSQL puts NULL behind all values in
\* ascending order and before them in descending order.
MayPrecede(x, y, agg_function) ==
    IF agg_function = "min" THEN y = Nothing \/ (x # Nothing /\ ~Smaller(y, x))
    ELSE x = Nothing \/ (y # Nothing /\ ~Smaller(x, y))

\* One commit for each unit and repository, in the order of the units; a tie may
\* go either way.  The result is the set of sequences that may come out.
apply_grouping(commits, unit, agg_function, agg_value, ordering) ==
    LET all == {commits[i] : i \in DOMAIN commits}
        keys == {<<Trunc(unit, c.time), c.repo>> : c \in all}
        of(k) == {c \in all : <<Trunc(unit, c.time), c.repo>> = k}
        Before(k, l) == \/ IF ordering = "decreasing" THEN k[1] > l[1] ELSE k[1] < l[1]
                        \/ k[1] = l[1] /\ k[2] < l[2]
        order == SetToSortSeq(keys, Before)
        v(c) == AggValue(c, agg_value)
        firsts(k) == {c \in of(k) : \A d \in of(k) : MayPrecede(v(c), v(d), agg_function)}
    IN {picked \in [DOMAIN order -> all] : \A n \in DOMAIN order : picked[n] \in firsts(order[n])}

\* grouping by commit: at most so many, in the order of their times.  The order is
\* read from coverage_timestamp_order, which the validation knows under another name.
by_commit(commits, coverage_timestamp_order) ==
    LET sorted == SortSeq(commits, LAMBDA c, d :
                            IF coverage_timestamp_order = "increasing" THEN c.time < d.time
                            ELSE c.time > d.time)
    IN SubSeq(sorted, 1, Min({Len(sorted), MaxCommits}))

post_by_commit(commits, coverage_timestamp_ordering) ==
    by_commit(commits, "increasing")

\* Each coverage is subtracted from the one before it: TypeError when one is None.
coverage_fails(picked) == \E n \in DOMAIN picked : Share(picked[n].totals) = Nothing

complexity_entries(picked) == SelectSeq(picked, LAMBDA c : c.complexity # Nothing)

-----------------------------------------------------------------------------
(* Properties *)

\* The chart of an organization has each unit once between the start (or the first
\* commit) and the end, in the order asked for, and shows for each the sum over the
\* repositories of what the newest unit knew whose last complete commit has totals.
ChartIsTrue(commits, repos, unit, start, end, ordering) ==
    LET rows == run_query(commits, repos, unit, start, end, ordering).rows
        known(r, d) == {e \in {Trunc(unit, commits[i].time) : i \in Complete(commits)} :
                            e <= d /\ TotalsOn(commits, unit, r, e) # Nothing}
        value(r, d) == IF known(r, d) = {} THEN [hits |-> 0, misses |-> 0, partials |-> 0]
                       ELSE TotalsOn(commits, unit, r, Max(known(r, d)))
    IN /\ \A k \in DOMAIN rows :
            /\ rows[k].hits = MapThenSumSet(LAMBDA r : value(r, rows[k].date).hits, repos)
            /\ rows[k].misses = MapThenSumSet(LAMBDA r : value(r, rows[k].date).misses, repos)
            /\ rows[k].partials = MapThenSumSet(LAMBDA r : value(r, rows[k].date).partials, repos)
            /\ k > 1 => rows[k].date - rows[k - 1].date
                            = IF ordering = "DESC" THEN -unit ELSE unit
       /\ \A i \in Complete(commits) :
            repos # {} /\ Date(commits[i].time) <= end
              /\ (start # Nothing => Date(commits[i].time) >= start) =>
                \E k \in DOMAIN rows : rows[k].date = Trunc(unit, commits[i].time)

\* The query divides by zero exactly while no repository has a line yet: it fails
\* only if the last complete commits of the first unit shown know no lines.
OnlyFirstIsEmpty(commits, repos, unit, start, end) ==
    LET q == run_query(commits, repos, unit, start, end, "")
    IN (q.error /\ \A i \in Complete(commits) :
                      commits[i].totals # Nothing => LineCount(commits[i].totals) > 0)
         => LineCount(q.rows[1]) = 0

\* The chart of a repository shows every unit that has a commit once for each
\* repository, with a commit that has the value asked for: the least, or if all have
\* one the greatest.  By the least coverage it fails only if all commits of a unit
\* have no lines; a unit is missing from the complexities if one commit (for the
\* greatest) or all (for the least) have none.
GroupingIsTrue(commits, unit, agg_function, agg_value, ordering) ==
    LET kept == apply_default_filters(commits)
        all == {kept[i] : i \in DOMAIN kept}
        key(c) == <<Trunc(unit, c.time), c.repo>>
        v(c) == AggValue(c, agg_value)
    IN \A picked \in apply_grouping(kept, unit, agg_function, agg_value, ordering) :
        /\ {key(picked[n]) : n \in DOMAIN picked} = {key(c) : c \in all}
        /\ \A m, n \in DOMAIN picked : m < n =>
             IF ordering = "decreasing" THEN key(picked[m])[1] >= key(picked[n])[1]
             ELSE key(picked[m])[1] <= key(picked[n])[1]
        /\ \A m, n \in DOMAIN picked : m # n => key(picked[m]) # key(picked[n])
        /\ \A n \in DOMAIN picked, c \in all :
             key(c) = key(picked[n]) /\ v(c) # Nothing /\ v(picked[n]) # Nothing =>
                IF agg_function = "min" THEN ~Smaller(v(c), v(picked[n]))
                ELSE ~Smaller(v(picked[n]), v(c))
        /\ agg_value = "coverage" /\ agg_function = "min" /\ coverage_fails(picked)
             => \E c \in all : \A d \in all : key(d) = key(c) => v(d) = Nothing
        /\ agg_value = "complexity_ratio" =>
             {key(complexity_entries(picked)[n]) : n \in DOMAIN complexity_entries(picked)}
                = {key(c) : c \in {d \in all : \A e \in all : key(e) = key(d) =>
                                    IF agg_function = "min" THEN \E f \in all : key(f) = key(d) /\ v(f) # Nothing
                                    ELSE v(e) # Nothing}}
=============================================================================
