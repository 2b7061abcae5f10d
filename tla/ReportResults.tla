----------------------------- MODULE ReportResults -----------------------------
(***************************************************************************)
(* The results of a report (upload/views/reports.py, ReportResultsView): a *)
(* client asks for them to be computed, and polls for the state.  Requests *)
(* overlap with each other and with the worker, which is external, as is   *)
(* what it computes.                                                       *)
(***************************************************************************)
EXTENDS Absent, Naturals, FiniteSets

CONSTANTS Askers, MaxResult

\* What the constants must be
ResultAssumption == MaxResult \in Nat \ {0}

VARIABLES
    results,    \* row of ReportResults
    asker,      \* what each request has read, or Nothing
    waiting,    \* tasks
    at,         \* auxiliary: how often the report has changed
    sentAt,     \* auxiliary: at, when the last task was sent
    failed      \* auxiliary: requests that died before they sent their task

resultVars == <<results, asker, waiting, at, sentAt, failed>>

\* result: which version of the report it is of
ResultRow == [state : {"pending", "completed"}, result : 0..MaxResult]
Asker == [step : {"idle", "first", "second", "done"}, row : ResultRow \cup {Nothing}]

ResultsTypeOK ==
    /\ results \in ResultRow \cup {Nothing}
    /\ asker \in [Askers -> Asker]
    /\ waiting \subseteq Askers /\ failed \subseteq Askers
    /\ at \in 0..MaxResult /\ sentAt \in 0..MaxResult

ResultsInit ==
    /\ results = Nothing /\ waiting = {} /\ at = 1 /\ sentAt = 0 /\ failed = {}
    /\ asker = [a \in Askers |-> [step |-> "idle", row |-> Nothing]]

\* filter(report=report).first()
AskResults(a) ==
    /\ asker[a].step = "idle"
    /\ asker' = [asker EXCEPT ![a] = [step |-> "first", row |-> results]]
    /\ UNCHANGED <<results, waiting, at, sentAt, failed>>

\* bug: the task is sent before the row is saved
SentFirst == [first |-> "send", second |-> "save"]

\* perform_create: the order of what it does
Order == [first |-> "save", second |-> "send"]

Turn(a, what) ==
    /\ asker[a].step \in {"first", "second"} /\ Order[asker[a].step] = what
    /\ asker' = [asker EXCEPT ![a].step = IF @ = "first" THEN "second" ELSE "done"]

\* A new row, or all of the row as it was read.
SaveResults(a) ==
    /\ Turn(a, "save")
    /\ asker[a].row = Nothing => results = Nothing
    /\ results' = [state |-> "pending",
                   result |-> IF asker[a].row = Nothing THEN 0 ELSE asker[a].row.result]
    /\ UNCHANGED <<waiting, at, sentAt, failed>>

\* Another request has created the row since: there is one for each report.
RefuseResults(a) ==
    /\ \E s \in {"first", "second"} : asker[a].step = s /\ Order[s] = "save"
    /\ asker[a].row = Nothing /\ results # Nothing
    /\ asker' = [asker EXCEPT ![a].step = "done"]
    /\ UNCHANGED <<results, waiting, at, sentAt, failed>>

\* TaskService().create_report_results
SendResults(a) ==
    /\ Turn(a, "send")
    /\ waiting' = waiting \cup {a} /\ sentAt' = at
    /\ UNCHANGED <<results, at, failed>>

DieAsking(a) ==
    /\ asker[a].step = "second"
    /\ asker' = [asker EXCEPT ![a].step = "done"] /\ failed' = failed \cup {a}
    /\ UNCHANGED <<results, waiting, at, sentAt>>

\* the worker: save_report_results, in one transaction
ComputeResults(a) ==
    /\ a \in waiting /\ waiting' = waiting \ {a}
    /\ results' = IF results = Nothing THEN Nothing ELSE [state |-> "completed", result |-> at]
    /\ UNCHANGED <<asker, at, sentAt, failed>>

\* The report changes.
ChangeReport ==
    /\ at < MaxResult /\ at' = at + 1
    /\ UNCHANGED <<results, asker, waiting, sentAt, failed>>

ResultsNext ==
    \/ \E a \in Askers : \/ AskResults(a) \/ SaveResults(a) \/ RefuseResults(a)
                         \/ SendResults(a) \/ DieAsking(a) \/ ComputeResults(a)
    \/ ChangeReport

ResultsSpec == ResultsInit /\ [][ResultsNext]_resultVars

-----------------------------------------------------------------------------
\* When no task waits and no request is under way, results that were asked for are
\* completed, of the report as it was when the last of the requests was answered or
\* later: no request puts them back to pending for good, or to an older result, though
\* each saves the whole row it read.  Unless one died between the row and its task.
QuietResultsAreDone ==
    (/\ waiting = {} /\ failed = {} /\ results # Nothing
     /\ \A a \in Askers : asker[a].step \in {"idle", "done"})
    => results.state = "completed" /\ results.result >= sentAt

-----------------------------------------------------------------------------
(* The inductive invariant *)

\* Results that are not of the report that the last task was sent for are on their way,
\* unless a request died: a task waits, or a request is about to send one.
Due == results # Nothing /\ (results.state = "pending" \/ results.result < sentAt)

ResultsInv ==
    /\ ResultsTypeOK /\ sentAt <= at
    /\ failed = {} /\ Due => waiting # {} \/ \E a \in Askers : asker[a].step = "second"
=============================================================================
