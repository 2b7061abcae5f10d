---------------------------- MODULE UploadSessions ----------------------------
(***************************************************************************)
(* The uploads of one commit, from the request to the worker: the flags an *)
(* upload is put under (upload/serializers.py), where its report is when   *)
(* the worker looks for it (upload/views/legacy.py, uploads.py), deleting  *)
(* a flag, and counting the uploads when the client says that there are no *)
(* more (upload/views/upload_completion.py).                               *)
(*                                                                         *)
(* The worker, the expiry of redis, and the client are external.           *)
(***************************************************************************)
EXTENDS Absent, Integers, Sequences, FiniteSets, FiniteSetsExt

CONSTANTS
    Requests,       \* uploads
    FlagNames,
    Kinds           \* of the endpoint: "v2", "v4", "cli"

\* What the constants must be
RequestsAssumption == IsFiniteSet(Requests)

VARIABLES
    flags,          \* rows of RepositoryFlag in the order of their ids
    upload,         \* each request, and the session it creates
    stored,         \* requests whose report is in redis or in the archive
    lapsed,         \* requests whose report expired, or that never were put in time
    deletion,       \* the flag that a request is about to mark as deleted: its id
    completion      \* the request that says that there are no more uploads

sessionVars == <<flags, upload, stored, lapsed, deletion, completion>>

UploadRow == [step : {"none", "session", "looked", "report", "dispatch", "sent", "done"},
              kind : Kinds \cup {Nothing}, names : SUBSET FlagNames, flags : SUBSET Nat,
              missing : FlagNames \cup {Nothing}, state : {"none", "", "processed", "error"}]
NoUpload == [step |-> "none", kind |-> Nothing, names |-> {}, flags |-> {},
             missing |-> Nothing, state |-> "none"]
Completion == [step : {"none", "counted", "listed", "answered"}, total : Nat,
               processing : Nat, failed : Nat]

SessionsTypeOK ==
    /\ flags \in Seq([name : FlagNames, deleted : BOOLEAN])
    /\ upload \in [Requests -> UploadRow]
    /\ stored \subseteq Requests /\ lapsed \subseteq Requests
    /\ deletion \in Nat /\ completion \in Completion

SessionsInit ==
    /\ flags = <<>>
    /\ upload = [u \in Requests |-> NoUpload]
    /\ stored = {} /\ lapsed = {} /\ deletion = 0
    /\ completion = [step |-> "none", total |-> 0, processing |-> 0, failed |-> 0]

-----------------------------------------------------------------------------
(***************************************************************************)
(* UploadSerializer.create, and the rest of UploadViews.perform_create     *)
(***************************************************************************)
StartUpload(u, N) ==
    /\ upload[u].step = "none" /\ "cli" \in Kinds
    /\ upload' = [upload EXCEPT ![u] = [NoUpload EXCEPT !.step = "session", !.kind = "cli",
                                                        !.names = N, !.state = ""]]
    /\ UNCHANGED <<flags, stored, lapsed, deletion, completion>>

Rows(n) == {i \in DOMAIN flags : flags[i].name = n}

\* bug: the newest row
Newest(n) == IF Rows(n) = {} THEN 0 ELSE Max(Rows(n))

\* first(): by the id, deleted or not
First(n) == IF Rows(n) = {} THEN 0 ELSE Min(Rows(n))

Placed(u) == {flags[i].name : i \in upload[u].flags}

\* one name of the list after the other
FindFlag(u, n) ==
    /\ upload[u].step = "session" /\ n \in upload[u].names \ Placed(u)
    /\ upload' = IF First(n) = 0
                 THEN [upload EXCEPT ![u].step = "looked", ![u].missing = n]
                 ELSE [upload EXCEPT ![u].flags = @ \cup {First(n)}]
    /\ UNCHANGED <<flags, stored, lapsed, deletion, completion>>

CreateFlag(u) ==
    /\ upload[u].step = "looked"
    /\ flags' = Append(flags, [name |-> upload[u].missing, deleted |-> FALSE])
    /\ upload' = [upload EXCEPT ![u].step = "session", ![u].missing = Nothing,
                                ![u].flags = @ \cup {Len(flags) + 1}]
    /\ UNCHANGED <<stored, lapsed, deletion, completion>>

\* upload.flags.set, then the path of the report
SetFlags(u) ==
    /\ upload[u].step = "session" /\ Placed(u) = upload[u].names
    /\ upload' = [upload EXCEPT ![u].step = "dispatch"]
    /\ UNCHANGED <<flags, stored, lapsed, deletion, completion>>

-----------------------------------------------------------------------------
(***************************************************************************)
(* UploadHandler.post: the older endpoints, whose session the worker       *)
(* creates                                                                 *)
(***************************************************************************)
StartLegacy(u, kind) ==
    /\ upload[u].step = "none" /\ kind \in Kinds \ {"cli"}
    /\ upload' = [upload EXCEPT ![u] = [NoUpload EXCEPT !.step = "report", !.kind = kind]]
    /\ UNCHANGED <<flags, stored, lapsed, deletion, completion>>

\* bug: the task first
NothingStored(u) == stored

\* v2: the body of the request goes to redis
AfterStoring(u) == IF upload[u].kind = "v2" THEN stored \cup {u} ELSE stored

\* v4: a location is signed, or the request ends in an error
StoreReport(u) ==
    /\ upload[u].step = "report"
    /\ stored' = AfterStoring(u)
    /\ \/ upload' = [upload EXCEPT ![u].step = "dispatch"]
       \/ upload[u].kind = "v4" /\ upload' = [upload EXCEPT ![u].step = "done"]
    /\ UNCHANGED <<flags, lapsed, deletion, completion>>

\* dispatch_upload_task, then the answer
Dispatch(u) ==
    /\ upload[u].step = "dispatch"
    /\ upload' = [upload EXCEPT ![u].step = "sent"]
    /\ UNCHANGED <<flags, stored, lapsed, deletion, completion>>

-----------------------------------------------------------------------------
\* The client puts the report to the location of the answer, after the task was sent
\* (and matters only before it runs) ...
PutReport(u) ==
    /\ upload[u].step = "sent" /\ upload[u].kind # "v2"
    /\ u \notin stored \cup lapsed
    /\ stored' = stored \cup {u}
    /\ UNCHANGED <<flags, upload, lapsed, deletion, completion>>

\* ... or the location, or the body in redis, expires
Lapse(u) ==
    /\ upload[u].step = "sent" /\ u \notin lapsed
    /\ lapsed' = lapsed \cup {u}
    /\ stored' = IF upload[u].kind = "v2" THEN stored \ {u} ELSE stored
    /\ UNCHANGED <<flags, upload, deletion, completion>>

\* the worker: an upload without its report ends in an error
ProcessUpload(u) ==
    /\ upload[u].step = "sent"
    /\ upload' = [upload EXCEPT ![u].step = "done",
                                ![u].state = IF u \in stored THEN "processed" ELSE "error"]
    /\ UNCHANGED <<flags, stored, lapsed, deletion, completion>>

-----------------------------------------------------------------------------
(***************************************************************************)
(* DeleteFlagInteractor                                                    *)
(***************************************************************************)
FindDeleted(n) ==
    /\ deletion = 0 /\ First(n) # 0
    /\ deletion' = First(n)
    /\ UNCHANGED <<flags, upload, stored, lapsed, completion>>

MarkDeleted ==
    /\ deletion # 0 /\ deletion' = 0
    /\ flags' = [flags EXCEPT ![deletion].deleted = TRUE]
    /\ UNCHANGED <<upload, stored, lapsed, completion>>

\* flags_for_repo
Listed == {flags[i].name : i \in {j \in DOMAIN flags : ~flags[j].deleted}}

-----------------------------------------------------------------------------
(***************************************************************************)
(* UploadCompletionView.post                                               *)
(***************************************************************************)
InState(s) == Cardinality({u \in Requests : upload[u].state = s})
Uploaded == InState("") + InState("processed") + InState("error")

\* bug: the rows are read first and counted afterwards
CountedLast(c) == [c EXCEPT !.total = IF c.step = "none" THEN 0 ELSE Uploaded]

\* uploads_count: one query
Counted(c) == [c EXCEPT !.total = IF c.step = "none" THEN Uploaded ELSE @]

CountUploads ==
    /\ completion.step = "none" /\ Uploaded > 0
    /\ completion' = [Counted(completion) EXCEPT !.step = "counted"]
    /\ UNCHANGED <<flags, upload, stored, lapsed, deletion>>

\* the rows: a query of its own
ListUploads ==
    /\ completion.step = "counted"
    /\ completion' = [completion EXCEPT !.step = "listed", !.processing = InState(""),
                                        !.failed = InState("error")]
    /\ UNCHANGED <<flags, upload, stored, lapsed, deletion>>

\* the worker is told, and the client
AnswerCompletion ==
    /\ completion.step = "listed"
    /\ completion' = [Counted(completion) EXCEPT !.step = "answered"]
    /\ UNCHANGED <<flags, upload, stored, lapsed, deletion>>

SessionsNext ==
    \/ \E u \in Requests :
        \/ \E N \in SUBSET FlagNames : StartUpload(u, N)
        \/ \E n \in FlagNames : FindFlag(u, n)
        \/ CreateFlag(u) \/ SetFlags(u)
        \/ \E kind \in Kinds : StartLegacy(u, kind)
        \/ StoreReport(u) \/ Dispatch(u) \/ PutReport(u) \/ Lapse(u) \/ ProcessUpload(u)
    \/ \E n \in FlagNames : FindDeleted(n)
    \/ MarkDeleted \/ CountUploads \/ ListUploads \/ AnswerCompletion

SessionsSpec == SessionsInit /\ [][SessionsNext]_sessionVars

-----------------------------------------------------------------------------
\* Requests that overlap may create several rows of one flag, but these never share
\* the uploads between them: all but the oldest row have the one upload that created
\* them, and as many rows as there are requests bound them.  A flag that has one row
\* is one row of every upload that names it.
OldestRowHasTheRest ==
    /\ \A i \in DOMAIN flags :
        i # First(flags[i].name) => Cardinality({u \in Requests : i \in upload[u].flags}) = 1
    /\ \A u \in Requests :
        upload[u].step \in {"dispatch", "sent", "done"} =>
            /\ Placed(u) = upload[u].names
            /\ Cardinality(upload[u].flags) = Cardinality(upload[u].names)

\* A report that the client sent with its request is there when the worker looks for
\* it, unless it has expired; one that is put later is missed only if the worker was
\* faster.  (The task is sent before the client has the location.)
ReportsAreFound ==
    \A u \in Requests :
        upload[u].kind = "v2" /\ (upload[u].state = "error" \/ upload[u].step = "sent") =>
            u \in stored \cup lapsed

\* A completion never counts more successful uploads than there are, whatever is
\* uploaded or processed between its two queries.  (It may count fewer, even less than
\* none.)
CompletionIsCautious ==
    completion.step = "answered" =>
        completion.total - completion.processing - completion.failed <= InState("processed")

-----------------------------------------------------------------------------
(* The inductive invariant *)

\* The flags that a request has found or created are rows of different names that it asked
\* for, and the one that it is about to create is of another.
FlagsAreNamed ==
    \A u \in Requests :
        /\ upload[u].flags \subseteq DOMAIN flags /\ Placed(u) \subseteq upload[u].names
        /\ \A i, j \in upload[u].flags : flags[i].name = flags[j].name => i = j
        /\ upload[u].step = "looked" => upload[u].missing \in upload[u].names \ Placed(u)
        /\ upload[u].step \in {"report", "dispatch", "sent", "done"} => Placed(u) = upload[u].names

\* A row that is not the first of its name has the request that created it.
LaterRowsHaveOne ==
    \A i \in DOMAIN flags : i # First(flags[i].name) =>
        \E u \in Requests : \A v \in Requests : i \in upload[v].flags <=> v = u

\* What the steps of a request say of it.
StepsAreInOrder ==
    \A u \in Requests :
        /\ upload[u].step = "none" => upload[u] = NoUpload
        /\ upload[u].step \in {"session", "looked"} => upload[u].kind = "cli"
        /\ upload[u].state \in {"processed", "error"} => upload[u].step = "done"
        /\ upload[u].kind = "v2" /\ upload[u].step \in {"dispatch", "sent", "done"} =>
              u \in stored \cup lapsed

\* What was counted first is not more than what there is.
CountsAreBehind ==
    /\ completion.step = "counted" => completion.total <= Uploaded
    /\ completion.step \in {"listed", "answered"} =>
          completion.total <= completion.processing + completion.failed + InState("processed")

SessionsInv ==
    /\ SessionsTypeOK /\ FlagsAreNamed /\ LaterRowsHaveOne /\ StepsAreInOrder /\ CountsAreBehind
    /\ deletion \in {0} \cup DOMAIN flags
=============================================================================
