-------------------------------- MODULE Uploads --------------------------------
(***************************************************************************)
(* One repository, its commits, and the uploads of coverage reports to     *)
(* them (upload/), with the webhooks and requests that change the row of   *)
(* the repository (webhook_handlers/views/github.py, api/internal/repo).   *)
(*                                                                         *)
(* An upload is throttled, validated, gets a session in the database, an   *)
(* entry in a redis list and a task for the worker, and activates the      *)
(* repository, each in a statement of its own.  The older endpoint keeps   *)
(* to another order, and leaves the session to the worker.                 *)
(***************************************************************************)
EXTENDS Naturals, FiniteSets

CONSTANTS
    Workers,       \* web workers
    Commits,
    MaxPerCommit,  \* max_upload_limit of the owner, and max_sessions
    Monthly,       \* uploads of private repositories that the plan includes
    Budget         \* how many reports are created, and other requests made

BudgetKeys == {"report", "request"}

ASSUME WorkersAssumption == IsFiniteSet(Workers)
ASSUME CommitsAssumption == IsFiniteSet(Commits)
ASSUME LimitAssumption   == MaxPerCommit \in Nat /\ Monthly \in Nat
ASSUME BudgetAssumption  == Budget \in [BudgetKeys -> Nat]

VARIABLES
    repo,      \* row of the repository
    known,     \* commits in the database
    reports,   \* number of reports without code of each commit
    sessions,  \* of each commit, how many there are in each state
    list,      \* entries in the redis list of each commit
    tasks,     \* upload tasks that wait for each commit
    metered,   \* auxiliary: commits whose first upload the plan was asked for
    job,       \* what each web worker is doing
    budget

vars == <<repo, known, reports, sessions, list, tasks, metered, job, budget>>
queue == <<list, tasks>>
database == <<known, reports, sessions, metered>>

\* renamed: how often "-deleted" was appended to the name
Row == [private : BOOLEAN, active : BOOLEAN, activated : BOOLEAN,
        deleted : BOOLEAN, renamed : Nat]

\* open, done: uploads of the newer endpoint; legacy: sessions the worker created
Sessions == [open : Nat, done : Nat, legacy : Nat, failed : Nat]

Hooks == {"publicized", "privatized", "deleted"}

Job == [pc : {"idle", "report", "window", "validate", "session", "push", "send",
              "activate", "reactivate", "insert", "constrain", "patch"} \cup Hooks,
        kind : {"v4", "legacy", "other"}, row : Row,
        commit : Commits \cup {"none"}, meter : BOOLEAN]

TypeOK ==
    /\ repo \in Row
    /\ known \subseteq Commits
    /\ reports \in [Commits -> Nat]
    /\ sessions \in [Commits -> Sessions]
    /\ list \in [Commits -> [v4 : Nat, legacy : Nat]]
    /\ tasks \in [Commits -> Nat]
    /\ metered \subseteq Commits
    /\ job \in [Workers -> Job]
    /\ budget \in [BudgetKeys -> Nat]

NewRow == [private |-> TRUE, active |-> FALSE, activated |-> FALSE,
           deleted |-> FALSE, renamed |-> 0]

NoJob == [pc |-> "idle", kind |-> "other", row |-> NewRow, commit |-> "none",
          meter |-> FALSE]

\* Some commits may have been announced before, with their reports.
Init ==
    /\ repo = NewRow
    /\ known \in SUBSET Commits
    /\ reports = [c \in Commits |-> IF c \in known THEN 1 ELSE 0]
    /\ sessions = [c \in Commits |-> [open |-> 0, done |-> 0, legacy |-> 0, failed |-> 0]]
    /\ list = [c \in Commits |-> [v4 |-> 0, legacy |-> 0]]
    /\ tasks = [c \in Commits |-> 0]
    /\ metered = {}
    /\ job = [w \in Workers |-> NoJob]
    /\ budget = Budget

Spend(b) == budget[b] > 0 /\ budget' = [budget EXCEPT ![b] = @ - 1]

\* The worker w begins a request, goes on, or is done.
Begin(w, j) == job[w].pc = "idle" /\ job' = [job EXCEPT ![w] = j]
Go(w, from, to) == job[w].pc = from /\ job' = [job EXCEPT ![w].pc = to]
Done(w) == job' = [job EXCEPT ![w] = NoJob]

-----------------------------------------------------------------------------
(* Limits *)

\* Sessions that are not in error and not carried forward
Count(c) == sessions[c].open + sessions[c].done + sessions[c].legacy

Started(c) == Count(c) + sessions[c].failed

\* bug: one more
TooManyLate(c) == Count(c) > MaxPerCommit + 1

\* UploadsPerCommitThrottle, and the first part of validate_upload
TooMany(c) == Count(c) > MaxPerCommit

\* The sessions of the private repositories of the owner: of this one
Uploaded == IF repo.private THEN UNION {{c} \X (1..Started(c)) : c \in Commits} ELSE {}

Used == Cardinality(Uploaded)

\* Is the plan to be asked? Not if uploads to this commit have started already.
Meters(private, c) == private /\ Started(c) = 0

\* bug: the last upload the plan includes is counted twice
UsedUpTwice == Used > Monthly

\* UploadsPerWindowThrottle and check_commit_upload_constraints
UsedUp == Used >= Monthly

\* "This repository has been deactivated"
Deactivated(row) == row.active /\ ~row.activated

-----------------------------------------------------------------------------
(* Commits and reports: upload/views/commits.py, reports.py *)

\* The newer endpoints find the repository by its name.
Slug == repo.renamed = 0

\* Unique in the database: who comes second finds it, or fails.
CreateCommit(c) ==
    /\ Slug /\ c \notin known
    /\ known' = known \cup {c}
    /\ UNCHANGED <<repo, reports, sessions, metered, queue, job, budget>>

\* CommitReportSerializer.create looks for a report of the commit ...
AskReport(w, c) ==
    /\ Slug /\ c \in known /\ Spend("report")
    /\ reports[c] = 0
    /\ Begin(w, [NoJob EXCEPT !.pc = "report", !.commit = c])
    /\ UNCHANGED <<repo, database, queue>>

\* ... and creates it. The code is NULL: the unique index does not apply.
InsertReport(w) ==
    /\ job[w].pc = "report"
    /\ reports' = [reports EXCEPT ![job[w].commit] = @ + 1]
    /\ Done(w)
    /\ UNCHANGED <<repo, known, sessions, metered, queue, budget>>

-----------------------------------------------------------------------------
(* An upload: UploadViews.perform_create, after its throttles *)

AskUpload(w, c) ==
    /\ Slug /\ c \in known /\ Spend("request")
    /\ ~TooMany(c)
    /\ Begin(w, [NoJob EXCEPT !.pc = "window", !.kind = "v4", !.commit = c])
    /\ UNCHANGED <<repo, database, queue>>

CheckWindow(w) ==
    LET asked == Meters(repo.private, job[w].commit) IN
    /\ job[w].pc = "window"
    /\ IF Slug /\ ~(asked /\ UsedUp)
       THEN job' = [job EXCEPT ![w].pc = "validate", ![w].meter = asked]
       ELSE Done(w)
    /\ UNCHANGED <<repo, database, queue, budget>>

\* get_repo, validate_activated_repo, get_report: there must be exactly one
Validate(w) ==
    /\ job[w].pc = "validate"
    /\ IF Slug /\ ~Deactivated(repo) /\ reports[job[w].commit] = 1
       THEN job' = [job EXCEPT ![w].pc = "session", ![w].row = repo]
       ELSE Done(w)
    /\ UNCHANGED <<repo, database, queue, budget>>

CreateSession(w) ==
    LET c == job[w].commit IN
    /\ Go(w, "session", "push")
    /\ sessions' = [sessions EXCEPT ![c].open = @ + 1]
    /\ metered' = IF job[w].meter THEN metered \cup {c} ELSE metered
    /\ UNCHANGED <<repo, known, reports, queue, budget>>

\* dispatch_upload_task: first the arguments ...
Push(w) ==
    LET c == job[w].commit IN
    /\ Go(w, "push", "send")
    /\ list' = IF job[w].kind = "v4" THEN [list EXCEPT ![c].v4 = @ + 1]
               ELSE [list EXCEPT ![c].legacy = @ + 1]
    /\ UNCHANGED <<repo, database, tasks, budget>>

\* bug: only for the first entry, as the list is by now
SendIfFirst(w) ==
    LET c == job[w].commit IN
    /\ job[w].pc = "send"
    /\ tasks' = IF list[c].v4 + list[c].legacy = 1 THEN [tasks EXCEPT ![c] = @ + 1] ELSE tasks
    /\ IF job[w].kind = "v4" THEN Go(w, "send", "activate") ELSE Done(w)
    /\ UNCHANGED <<repo, database, list, budget>>

\* ... then the task
Send(w) ==
    /\ job[w].pc = "send"
    /\ tasks' = [tasks EXCEPT ![job[w].commit] = @ + 1]
    /\ IF job[w].kind = "v4" THEN Go(w, "send", "activate") ELSE Done(w)
    /\ UNCHANGED <<repo, database, list, budget>>

\* bug: it is not undeleted
ActivatedOnly(row) == [row EXCEPT !.activated = TRUE, !.active = TRUE]

\* The columns that an upload saves
Activated(row) == [row EXCEPT !.activated = TRUE, !.active = TRUE, !.deleted = FALSE]

\* activate_repo, unless the row as it was read needs no update
Activate(w) ==
    /\ job[w].pc = "activate"
    /\ repo' = IF Activated(job[w].row) = job[w].row THEN repo ELSE Activated(repo)
    /\ Done(w)
    /\ UNCHANGED <<database, queue, budget>>

-----------------------------------------------------------------------------
(* An upload to the older endpoint: UploadHandler.post *)

\* The repository is found by its token, whatever its name; the limit is that of
\* the commit in the request, the upload goes to the one it merges.
AskLegacy(w, asked, c) ==
    /\ Spend("request")
    /\ ~Deactivated(repo) /\ ~(asked \in known /\ TooMany(asked))
    /\ Begin(w, [NoJob EXCEPT !.pc = "reactivate", !.kind = "legacy",
                              !.commit = c, !.row = repo])
    /\ UNCHANGED <<repo, database, queue>>

Reactivate(w) ==
    /\ Go(w, "reactivate", "insert")
    /\ repo' = Activated(repo)
    /\ UNCHANGED <<database, queue, budget>>

\* A new commit has the repository it was created with, another one loads it.
InsertCommit(w) ==
    LET c == job[w].commit IN
    /\ job[w].pc = "insert"
    /\ job' = [job EXCEPT ![w].pc = "constrain",
                          ![w].row = IF c \in known THEN repo ELSE @]
    /\ known' = known \cup {c}
    /\ UNCHANGED <<repo, reports, sessions, metered, queue, budget>>

\* check_commit_upload_constraints
Constrain(w) ==
    /\ job[w].pc = "constrain"
    /\ IF Meters(job[w].row.private, job[w].commit) /\ UsedUp
       THEN Done(w) ELSE Go(w, "constrain", "push")
    /\ UNCHANGED <<repo, database, queue, budget>>

-----------------------------------------------------------------------------
(* The row of the repository *)

\* GithubWebhookHandler reads the row, changed it and saves
Hook(w, e) ==
    /\ Spend("request")
    /\ Begin(w, [NoJob EXCEPT !.pc = e, !.row = repo])
    /\ UNCHANGED <<repo, database, queue>>

\* all of it ...
SaveVisibility(w) ==
    /\ job[w].pc \in {"publicized", "privatized"}
    /\ repo' = IF job[w].pc = "publicized"
               THEN [job[w].row EXCEPT !.private = FALSE, !.activated = FALSE]
               ELSE [job[w].row EXCEPT !.private = TRUE]
    /\ Done(w)
    /\ UNCHANGED <<database, queue, budget>>

\* ... or what a deletion changes
SaveDeleted(w) ==
    /\ job[w].pc = "deleted"
    /\ repo' = [repo EXCEPT !.deleted = TRUE, !.activated = FALSE, !.active = FALSE,
                            !.renamed = job[w].row.renamed + 1]
    /\ Done(w)
    /\ UNCHANGED <<database, queue, budget>>

\* A member edits the settings: the provider must still know the repository.
AskPatch(w) ==
    /\ Spend("request")
    /\ Slug /\ ~repo.deleted
    /\ Begin(w, [NoJob EXCEPT !.pc = "patch", !.row = repo])
    /\ UNCHANGED <<repo, database, queue>>

\* active, activated, the default branch, or a new upload token: all is saved.
SavePatch(w) ==
    /\ job[w].pc = "patch"
    /\ \E active, activated \in BOOLEAN :
          repo' = [job[w].row EXCEPT !.active = active, !.activated = activated]
    /\ Done(w)
    /\ UNCHANGED <<database, queue, budget>>

\* The plan of the owner has ended.
SwitchOff ==
    /\ Spend("request")
    /\ repo' = [repo EXCEPT !.active = FALSE, !.activated = FALSE]
    /\ UNCHANGED <<database, queue, job>>

-----------------------------------------------------------------------------
(* The upload task of the worker: all that is in the list *)

\* bug: sessions that the worker creates are counted as if they had been open
ProcessAll(c) ==
    /\ tasks[c] > 0
    /\ tasks' = [tasks EXCEPT ![c] = @ - 1]
    /\ sessions' = [sessions EXCEPT ![c].open = @ - list[c].v4 - list[c].legacy,
                                    ![c].done = @ + list[c].v4,
                                    ![c].legacy = @ + list[c].legacy]
    /\ list' = [list EXCEPT ![c] = [v4 |-> 0, legacy |-> 0]]
    /\ UNCHANGED <<repo, known, reports, metered, job, budget>>

Process(c) ==
    /\ tasks[c] > 0
    /\ tasks' = [tasks EXCEPT ![c] = @ - 1]
    /\ \E ok \in 0..list[c].v4, legacyOk \in 0..list[c].legacy :
          sessions' = [sessions EXCEPT
             ![c].open = @ - list[c].v4, ![c].done = @ + ok,
             ![c].legacy = @ + legacyOk,
             ![c].failed = @ + (list[c].v4 - ok) + (list[c].legacy - legacyOk)]
    /\ reports' = IF list[c].legacy > 0 /\ reports[c] = 0
                  THEN [reports EXCEPT ![c] = 1] ELSE reports
    /\ list' = [list EXCEPT ![c] = [v4 |-> 0, legacy |-> 0]]
    /\ UNCHANGED <<repo, known, metered, job, budget>>

-----------------------------------------------------------------------------
Upload(w) == \/ CheckWindow(w) \/ Validate(w) \/ CreateSession(w)
             \/ Push(w) \/ Send(w) \/ Activate(w)
Legacy(w) == Reactivate(w) \/ InsertCommit(w) \/ Constrain(w)
Handle(w) == \/ Upload(w) \/ Legacy(w) \/ InsertReport(w)
             \/ SaveVisibility(w) \/ SaveDeleted(w) \/ SavePatch(w)

Ask(w) == \/ \E c \in Commits : AskReport(w, c) \/ AskUpload(w, c)
          \/ \E asked, c \in Commits : AskLegacy(w, asked, c)
          \/ \E e \in Hooks : Hook(w, e)
          \/ AskPatch(w)

Next == \/ \E w \in Workers : Ask(w) \/ Handle(w)
        \/ \E c \in Commits : CreateCommit(c) \/ Process(c)
        \/ SwitchOff

Spec == Init /\ [][Next]_vars

-----------------------------------------------------------------------------
(* Properties *)

\* A commit never has more uploads of the newer endpoint than its limit, one for
\* the comparison with ">", and one for each further web worker that counted
\* before the others created theirs.
WithinCommitLimit ==
    \A c \in Commits :
        sessions[c].open + sessions[c].done <= MaxPerCommit + Cardinality(Workers)

\* No more commits get their first upload on the plan's account than it includes,
\* but for the web workers that counted at once; whatever legacy uploads, changes
\* of visibility and failures do to the count.
WithinPlan == metered # {} => Cardinality(metered) < Monthly + Cardinality(Workers)

\* An open session has an entry in the list, or a request about to push it; and a
\* list with entries has a task, or a request about to send one.
Pushing(c) == {w \in Workers : /\ job[w].pc = "push" /\ job[w].kind = "v4"
                               /\ job[w].commit = c}
Sending(c) == {w \in Workers : job[w].pc = "send" /\ job[w].commit = c}

NothingForgotten ==
    \A c \in Commits :
        /\ sessions[c].open = list[c].v4 + Cardinality(Pushing(c))
        /\ list[c].v4 + list[c].legacy > 0 => tasks[c] > 0 \/ Sending(c) # {}

\* A repository that counts as deleted is off and has given up its name, however
\* uploads, webhooks and edits overwrite each other.
DeletedIsGone ==
    repo.deleted => ~repo.active /\ ~repo.activated /\ repo.renamed > 0

\* "unique_commit_id_code": a commit has one report for each code, none included
\* (test_create_report_already_exists).
OneReport == \A c \in Commits : reports[c] <= 1
=============================================================================
