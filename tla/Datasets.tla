------------------------------- MODULE Datasets -------------------------------
(***************************************************************************)
(* When coverage over time is taken from the measurements and when from    *)
(* the commits (timeseries/helpers.py, timeseries/models.py, and the       *)
(* interactor ActivateMeasurements): a repository has a dataset or none,   *)
(* the first request for it creates one and sends its backfill, and from   *)
(* an hour after its creation on a dataset counts as backfilled.           *)
(*                                                                         *)
(* The backfill itself is a task of the worker (external).                 *)
(***************************************************************************)
EXTENDS Absent, Naturals, FiniteSets

CONSTANTS
    Measured,       \* repositories with commits: without any there is nothing to send
    Viewers         \* requests

VARIABLES
    dataset,    \* of each repository: "none", "new", or "old" after an hour
    sent,       \* the number of backfills that were sent for each
    viewer,     \* the requests
    broken      \* auxiliary: whose request died between the row and its backfill

\* What the constants must be
ViewerAssumption == Nothing # "measurements"

datasetVars == <<dataset, sent, viewer, broken>>

Viewer == [step : {"idle", "create", "send", "answered"}, of : SUBSET Measured,
           missing : SUBSET Measured, from : {Nothing, "measurements", "commits", "error"}]
Idle == [step |-> "idle", of |-> {}, missing |-> {}, from |-> Nothing]

DatasetsTypeOK ==
    /\ dataset \in [Measured -> {"none", "new", "old"}]
    /\ sent \in [Measured -> Nat]
    /\ viewer \in [Viewers -> Viewer]
    /\ broken \subseteq Measured

DatasetsInit ==
    /\ dataset = [r \in Measured |-> "none"]
    /\ sent = [r \in Measured |-> 0]
    /\ viewer = [v \in Viewers |-> Idle]
    /\ broken = {}

-----------------------------------------------------------------------------
\* is_backfilled: nothing but the age of the row
is_backfilled(r) == dataset[r] = "old"

\* bug: repositories without a dataset do not count
NoneIsBehind(R) == \A r \in R : dataset[r] # "none" => is_backfilled(r)

all_backfilled(R) == \A r \in R : is_backfilled(r)

\* repository_coverage_measurements_with_fallback of one repository and
\* owner_coverage_measurements_with_fallback of several: the datasets are looked up ...
AskMeasurements(v, R) ==
    LET missing == {r \in R : dataset[r] = "none"} IN
    /\ viewer[v] = Idle
    /\ viewer' = [viewer EXCEPT ![v] =
            [step |-> IF missing = {} \/ all_backfilled(R) THEN "answered" ELSE "create",
             of |-> R, missing |-> missing,
             from |-> IF all_backfilled(R) THEN "measurements" ELSE "commits"]]
    /\ UNCHANGED <<dataset, sent, broken>>

\* bug: a row that another request created meanwhile is taken for one's own
TakenForOwn(v) == viewer[v].missing

\* name_repository_id_unique: all of the rows are created, or none of them
Refused(v) == \E r \in viewer[v].missing : dataset[r] # "none"
Created(v) == IF Refused(v) THEN {} ELSE viewer[v].missing

\* ... and created where there are none
CreateDatasets(v) ==
    /\ viewer[v].step = "create"
    /\ dataset' = [r \in Measured |->
                     IF r \in Created(v) /\ dataset[r] = "none" THEN "new" ELSE dataset[r]]
    /\ viewer' = [viewer EXCEPT ![v].step = IF Created(v) = {} THEN "answered" ELSE "send",
                                ![v].from = IF Created(v) = {} THEN "error" ELSE "commits"]
    /\ UNCHANGED <<sent, broken>>

\* get_or_create: a row that is there is left as it is
ActivateMeasurements(v, r) ==
    /\ viewer[v] = Idle /\ dataset[r] = "none"
    /\ dataset' = [dataset EXCEPT ![r] = "new"]
    /\ viewer' = [viewer EXCEPT ![v] = [step |-> "send", of |-> {r}, missing |-> {r}, from |-> Nothing]]
    /\ UNCHANGED <<sent, broken>>

\* trigger_backfill of one of the rows
SendBackfill(v, r) ==
    LET left == viewer[v].missing \ {r} IN
    /\ viewer[v].step = "send" /\ r \in viewer[v].missing
    /\ sent' = [sent EXCEPT ![r] = @ + 1]
    /\ viewer' = [viewer EXCEPT ![v].missing = left,
                                ![v].step = IF left = {} THEN "answered" ELSE "send"]
    /\ UNCHANGED <<dataset, broken>>

\* the process dies, or the queue does not take the task
Break(v) ==
    /\ viewer[v].step = "send"
    /\ broken' = broken \cup viewer[v].missing
    /\ viewer' = [viewer EXCEPT ![v] = Idle]
    /\ UNCHANGED <<dataset, sent>>

EndRequest(v) ==
    /\ viewer[v].step = "answered" /\ viewer' = [viewer EXCEPT ![v] = Idle]
    /\ UNCHANGED <<dataset, sent, broken>>

\* An hour is longer than a request.
Age(r) ==
    /\ dataset[r] = "new" /\ \A v \in Viewers : viewer[v].step \in {"create", "send"} => r \notin viewer[v].missing
    /\ dataset' = [dataset EXCEPT ![r] = "old"]
    /\ UNCHANGED <<sent, viewer, broken>>

DatasetsNext ==
    \/ \E v \in Viewers :
        \/ \E R \in (SUBSET Measured) \ {{}} : AskMeasurements(v, R)
        \/ CreateDatasets(v) \/ Break(v) \/ EndRequest(v)
        \/ \E r \in Measured : ActivateMeasurements(v, r) \/ SendBackfill(v, r)
    \/ \E r \in Measured : Age(r)

DatasetsSpec == DatasetsInit /\ [][DatasetsNext]_datasetVars

-----------------------------------------------------------------------------
\* However requests overlap, a repository is backfilled once, and one whose dataset is
\* there and whose request is over has been, unless that request died; then nothing ever
\* sends the backfill again.  (timeseries/helpers.py:358-363, 411-422)
BackfilledOnce ==
    \A r \in Measured :
        LET sending == \E v \in Viewers : viewer[v].step = "send" /\ r \in viewer[v].missing
        IN /\ sent[r] <= 1
           /\ dataset[r] # "none" /\ ~sending /\ r \notin broken => sent[r] = 1

\* Measurements answer only when every one of the repositories that were asked for has
\* been sent to be backfilled, unless the request that was to send it died.
\* (timeseries/helpers.py:345-347, 394-403)
AnsweredWhenBackfilled ==
    \A v \in Viewers : viewer[v].from = "measurements" =>
        \A r \in viewer[v].of : sent[r] = 1 \/ r \in broken

-----------------------------------------------------------------------------
(* The inductive invariant *)

\* A repository is being sent to be backfilled by one request only, its row is new, and
\* nothing was sent before.
Sending(v, r) == viewer[v].step = "send" /\ r \in viewer[v].missing

SendersAreFirst ==
    \A v \in Viewers, r \in Measured : Sending(v, r) =>
        /\ dataset[r] = "new" /\ sent[r] = 0 /\ r \notin broken
        /\ \A w \in Viewers : Sending(w, r) => w = v

\* Without a row nothing was sent.
NothingBefore == \A r \in Measured : dataset[r] = "none" => sent[r] = 0 /\ r \notin broken

DatasetsInv ==
    /\ DatasetsTypeOK /\ SendersAreFirst /\ NothingBefore
    /\ BackfilledOnce /\ AnsweredWhenBackfilled
=============================================================================
