--------------------------- MODULE ComparisonLoader ---------------------------
(***************************************************************************)
(* The rows of compare_commitcomparison of one repository: requests create *)
(* the missing ones and send the worker to compute those that are new or   *)
(* out of date (graphql_api/dataloader/comparison.py).                     *)
(*                                                                         *)
(* A request reads the commits first, and may read them from a replica     *)
(* that lags behind; the comparisons it reads from the primary database.   *)
(* Each query is one step, and so is each message to the worker.           *)
(***************************************************************************)
EXTENDS Naturals, FiniteSets

CONSTANTS
    Workers,   \* request threads
    Commits,
    Keys,      \* pairs of commits that are compared
    Late,      \* commits that are not in the database at first
    None,      \* no comparison
    Budget     \* how many requests there are, and uploads or saves of a commit

BudgetKeys == {"ask", "write"}

ASSUME KeysAssumption   == Keys \subseteq Commits \X Commits
ASSUME NoneAssumption   == None \notin Keys
ASSUME LateAssumption   == Late \subseteq Commits
ASSUME BudgetAssumption == Budget \in [BudgetKeys -> Nat]

VARIABLES
    commits,     \* the commits table, with the report details
    replica,     \* what the replica has of it
    rows,        \* the comparison of each key
    queue,       \* number of compute_comparison tasks waiting for each key
    task,        \* what the Celery worker is computing
    job,         \* what each request is doing
    clock,       \* time of the next write
    overlapped,  \* auxiliary: keys whose reports changed during their last
                 \* computation
    budget

vars == <<commits, replica, rows, queue, task, job, clock, overlapped, budget>>
database == <<commits, replica>>
celery   == <<queue, task, overlapped>>

\* saved: updatestamp; details: updated_at of the report details, 0 if none
Commit == [here : BOOLEAN, saved : Nat, details : Nat]

\* of: the reports the result was computed from; processed stands for error too
Row == [state : {"none", "pending", "processed"}, updated : Nat, of : Nat \X Nat]

Job == [pc : {"idle", "fetch", "create", "refetch", "refresh", "mark", "enqueue"},
        want : SUBSET Keys, cache : [Commits -> Commit], found : [Keys -> Row],
        missing : SUBSET Keys, ids : SUBSET Keys]

TypeOK ==
    /\ commits \in [Commits -> Commit]
    /\ replica \in [Commits -> Commit]
    /\ rows \in [Keys -> Row]
    /\ queue \in [Keys -> Nat]
    /\ task \in [key : Keys \cup {None}, of : Nat \X Nat, overlap : BOOLEAN]
    /\ job \in [Workers -> Job]
    /\ clock \in Nat
    /\ overlapped \subseteq Keys
    /\ budget \in [BudgetKeys -> Nat]

NoRow  == [state |-> "none", updated |-> 0, of |-> <<0, 0>>]
NoRows == [k \in Keys |-> NoRow]
NoTask == [key |-> None, of |-> <<0, 0>>, overlap |-> FALSE]

FirstCommits ==
    [c \in Commits |-> [here |-> c \notin Late, saved |-> 0, details |-> 0]]

NoJob == [pc |-> "idle", want |-> {}, cache |-> FirstCommits, found |-> NoRows,
          missing |-> {}, ids |-> {}]

Init ==
    /\ commits = FirstCommits
    /\ replica = FirstCommits
    /\ rows = NoRows
    /\ queue = [k \in Keys |-> 0]
    /\ task = NoTask
    /\ job = [w \in Workers |-> NoJob]
    /\ clock = 1
    /\ overlapped = {}
    /\ budget = Budget

Spend(b) == budget[b] > 0 /\ budget' = [budget EXCEPT ![b] = @ - 1]
Tick == clock' = clock + 1

\* bug: the report of the base may change as it likes
NeedsRecomputeOfHead(row, cs, k) ==
    \/ row.updated < cs[k[1]].saved \/ row.updated < cs[k[2]].saved
    \/ row.updated < cs[k[2]].details

\* needs_recompute: is the row older than either commit or its report details?
NeedsRecompute(row, cs, k) ==
    \E i \in 1..2 : row.updated < cs[k[i]].saved \/ row.updated < cs[k[i]].details

\* needs_recompute asks the compare commit for its updatestamp first, then the
\* base, and raises AttributeError for one that the request has not read.
Raises(row, cs, k) ==
    ~cs[k[2]].here \/ (~cs[k[1]].here /\ row.updated >= cs[k[2]].saved)

Reports(k) == <<commits[k[1]].details, commits[k[2]].details>>

Known(cs, k) == cs[k[1]].here /\ cs[k[2]].here

-----------------------------------------------------------------------------
(* A request: ComparisonLoader.batch_load_fn *)

\* CommitLoader.load_many: reads go to the replica.
Ask(w) ==
    /\ job[w].pc = "idle" /\ Spend("ask")
    /\ \E want \in (SUBSET Keys) \ {{}} :
          job' = [job EXCEPT ![w] = [NoJob EXCEPT !.pc = "fetch", !.want = want,
                                                  !.cache = replica]]
    /\ UNCHANGED <<database, celery, rows, clock>>

\* batch_queryset: the comparisons there are
Fetch(w) ==
    LET there == {k \in job[w].want : rows[k].state # "none"} IN
    /\ job[w].pc = "fetch"
    /\ job' = [job EXCEPT
          ![w].found = [k \in Keys |-> IF k \in there THEN rows[k] ELSE NoRow],
          ![w].want = {}, ![w].missing = job[w].want \ there,
          ![w].pc = IF job[w].want \subseteq there THEN "refresh" ELSE "create"]
    /\ UNCHANGED <<database, celery, rows, clock, budget>>

\* bulk_create with ignore_conflicts, where both commits are known
Create(w) ==
    LET new == {k \in job[w].missing :
                   Known(job[w].cache, k) /\ rows[k].state = "none"}
    IN
    /\ job[w].pc = "create"
    /\ rows' = [k \in Keys |-> IF k \in new
                               THEN [NoRow EXCEPT !.state = "pending", !.updated = clock]
                               ELSE rows[k]]
    /\ job' = [job EXCEPT ![w].pc = "refetch"]
    /\ Tick
    /\ UNCHANGED <<database, celery, budget>>

\* ... and read them back, whoever created them
Refetch(w) ==
    /\ job[w].pc = "refetch"
    /\ job' = [job EXCEPT
          ![w].found = [k \in Keys |-> IF k \in job[w].missing THEN rows[k] ELSE @[k]],
          ![w].pc = "refresh"]
    /\ UNCHANGED <<database, celery, rows, clock, budget>>

\* bug: new comparisons are taken to be as good as old ones
RefreshOutdated(w) ==
    LET ids == {k \in Keys : /\ job[w].found[k].state # "none"
                             /\ NeedsRecompute(job[w].found[k], job[w].cache, k)}
    IN
    /\ job[w].pc = "refresh"
    /\ job' = [job EXCEPT ![w] = IF ids = {} THEN NoJob
                                 ELSE [NoJob EXCEPT !.pc = "mark", !.ids = ids]]
    /\ UNCHANGED <<database, celery, rows, clock, budget>>

\* _refresh_comparisons, up to the update; an AttributeError ends the request.
Refresh(w) ==
    LET j   == job[w]
        old == {k \in Keys \ j.missing : j.found[k].state # "none"}
        ids == {k \in j.missing : j.found[k].state # "none"}
               \cup {k \in old : NeedsRecompute(j.found[k], j.cache, k)}
    IN
    /\ j.pc = "refresh"
    /\ job' = IF ids = {} \/ \E k \in old : Raises(j.found[k], j.cache, k)
              THEN [job EXCEPT ![w] = NoJob]
              ELSE [job EXCEPT ![w] = [NoJob EXCEPT !.pc = "mark", !.ids = ids]]
    /\ UNCHANGED <<database, celery, rows, clock, budget>>

\* One update, which leaves updated_at alone.
Mark(w) ==
    /\ job[w].pc = "mark"
    /\ rows' = [k \in Keys |-> IF k \in job[w].ids
                               THEN [rows[k] EXCEPT !.state = "pending"] ELSE rows[k]]
    /\ job' = [job EXCEPT ![w].pc = "enqueue"]
    /\ UNCHANGED <<database, celery, clock, budget>>

\* bug: only one task of the group is sent
EnqueueFirst(w) ==
    /\ job[w].pc = "enqueue"
    /\ \E k \in job[w].ids : queue' = [queue EXCEPT ![k] = @ + 1]
    /\ job' = [job EXCEPT ![w] = NoJob]
    /\ UNCHANGED <<database, rows, task, overlapped, clock, budget>>

\* compute_comparisons: a group, sent task by task
Enqueue(w) ==
    /\ job[w].pc = "enqueue"
    /\ \E k \in job[w].ids :
          /\ queue' = [queue EXCEPT ![k] = @ + 1]
          /\ job' = [job EXCEPT ![w] = IF job[w].ids = {k} THEN NoJob
                                       ELSE [job[w] EXCEPT !.ids = @ \ {k}]]
    /\ UNCHANGED <<database, rows, task, overlapped, clock, budget>>

-----------------------------------------------------------------------------
(* The worker, the uploads and the replica *)

\* bug: the worker does not wait for a task
StartUnasked(k) ==
    /\ task.key = None
    /\ queue' = [queue EXCEPT ![k] = @ - 1]
    /\ task' = [key |-> k, of |-> Reports(k), overlap |-> FALSE]
    /\ UNCHANGED <<database, rows, job, clock, overlapped, budget>>

\* The worker takes a task and reads both reports ...
Start(k) ==
    /\ task.key = None /\ queue[k] > 0
    /\ queue' = [queue EXCEPT ![k] = @ - 1]
    /\ task' = [key |-> k, of |-> Reports(k), overlap |-> FALSE]
    /\ UNCHANGED <<database, rows, job, clock, overlapped, budget>>

\* ... and saves the result, with the time of the save.
Finish(k) ==
    /\ task.key = k
    /\ rows' = [rows EXCEPT ![k] = [state |-> "processed", updated |-> clock,
                                    of |-> task.of]]
    /\ overlapped' = IF task.overlap THEN overlapped \cup {k} ELSE overlapped \ {k}
    /\ task' = NoTask
    /\ Tick
    /\ UNCHANGED <<database, queue, job, budget>>

\* An upload has been processed: the report details of the commit change.
Upload(c) ==
    /\ commits[c].here /\ Spend("write")
    /\ commits' = [commits EXCEPT ![c].details = clock]
    /\ task' = [task EXCEPT !.overlap = @ \/ \E k \in Keys :
                                  task.key = k /\ (k[1] = c \/ k[2] = c)]
    /\ Tick
    /\ UNCHANGED <<replica, rows, queue, job, overlapped>>

\* A commit is created, or saved again.
SaveCommit(c) ==
    /\ Spend("write")
    /\ commits' = [commits EXCEPT ![c].here = TRUE, ![c].saved = clock]
    /\ Tick
    /\ UNCHANGED <<replica, rows, celery, job>>

Replicate ==
    /\ replica' = commits
    /\ UNCHANGED <<commits, rows, celery, job, clock, budget>>

-----------------------------------------------------------------------------
Handle(w) == \/ Fetch(w) \/ Create(w) \/ Refetch(w) \/ Refresh(w)
             \/ Mark(w) \/ Enqueue(w)

Next == \/ \E w \in Workers : Ask(w) \/ Handle(w)
        \/ \E k \in Keys : Start(k) \/ Finish(k)
        \/ \E c \in Commits : Upload(c) \/ SaveCommit(c)
        \/ Replicate

Spec == Init /\ [][Next]_vars

\* Requests are served to their end, and Celery consumes every task in turn.
FairSpec == /\ Spec
            /\ \A w \in Workers : WF_vars(Handle(w))
            /\ \A k \in Keys : SF_vars(Start(k)) /\ WF_vars(Finish(k))

-----------------------------------------------------------------------------
(* Properties *)

\* A request that will send a task for k if nothing stops it
Owes(w, k) ==
    \/ job[w].pc \in {"refetch", "refresh"} /\ k \in job[w].missing
    \/ job[w].pc \in {"mark", "enqueue"} /\ k \in job[w].ids

Owed == {k \in Keys : queue[k] > 0 \/ task.key = k \/ \E w \in Workers : Owes(w, k)}

\* "We've been seeing some instances of commit comparisons being created but no
\* corresponding compute comparisons task being enqueued" (_create_comparisons):
\* a pending comparison has a task, or a request about to send one.
PendingIsServed == \A k \in Keys : rows[k].state = "pending" => k \in Owed

\* A result computed from other reports than the present ones is seen to be out
\* of date by needs_recompute, unless a report changed during the computation:
\* updated_at is then younger than the report, which the result has not seen.
StaleIsDetected ==
    \A k \in Keys : rows[k].state = "processed" /\ rows[k].of # Reports(k) =>
        NeedsRecompute(rows[k], commits, k) \/ k \in overlapped

\* Whoever interleaves, a comparison is pending only while it is owed, and what
\* is owed is computed in the end.
Queue == INSTANCE ComparisonQueue WITH state <- [k \in Keys |-> rows[k].state],
                                      owed <- Owed
ImplementsQueue == Queue!Spec
=============================================================================
