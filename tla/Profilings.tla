------------------------------ MODULE Profilings ------------------------------
(***************************************************************************)
(* Profiling commits of one repository (profiling/, services/profiling.py):*)
(* a client announces one under a code, again and again, with an           *)
(* environment and a version or without; it sends uploads; the worker      *)
(* summarizes them; and readers ask for the critical files.                *)
(*                                                                         *)
(* The worker, which writes only the columns of the summary, is external.  *)
(***************************************************************************)
EXTENDS Absent, Naturals, Sequences, FiniteSets, FiniteSetsExt

CONSTANTS
    Codes, Announcers, Shas,
    MaxRows     \* rows, which are numbered in the order of their ids

\* What the constants must be
RowsAssumption == MaxRows \in Nat

VARIABLES
    profiling,  \* rows of ProfilingCommit in the order of their ids
    announcer,  \* requests
    copies,     \* how many repositories have a commit with this sha
    unreadable  \* rows whose summary is not in the archive

profilingVars == <<profiling, announcer, copies, unreadable>>

Fields == {"environment", "version"}
ProfilingRow == [code : Codes, environment : Announcers \cup {Nothing},
                 version : Announcers \cup {Nothing}, uploaded : BOOLEAN,
                 summarized : BOOLEAN, sha : Shas \cup {Nothing}]
Announcer == [step : {"idle", "read", "done"}, row : ProfilingRow \cup {Nothing},
              given : SUBSET Fields]

ProfilingsTypeOK ==
    /\ profiling \in Seq(ProfilingRow)
    /\ \A i, j \in DOMAIN profiling : profiling[i].code = profiling[j].code => i = j
    /\ announcer \in [Announcers -> Announcer]
    /\ copies \in [Shas -> 0..2]
    /\ unreadable \subseteq DOMAIN profiling

\* a sha is of one commit, of several (a fork), or the commit is not there
ProfilingsInit ==
    /\ profiling = <<>> /\ unreadable = {}
    /\ announcer = [a \in Announcers |-> [step |-> "idle", row |-> Nothing, given |-> {}]]
    /\ copies \in [Shas -> 0..2]

Blank(c) == [code |-> c, environment |-> Nothing, version |-> Nothing, uploaded |-> FALSE,
             summarized |-> FALSE, sha |-> Nothing]

IdOf(c) == CHOOSE i \in DOMAIN profiling : profiling[i].code = c

-----------------------------------------------------------------------------
\* ProfilingCommitCreateView.perform_create: get_or_create ...
GetOrCreate(a, c, given) ==
    LET there == {i \in DOMAIN profiling : profiling[i].code = c} IN
    /\ announcer[a].step = "idle" /\ (there # {} \/ Len(profiling) < MaxRows)
    /\ profiling' = IF there = {} THEN Append(profiling, Blank(c)) ELSE profiling
    /\ announcer' = [announcer EXCEPT ![a] =
                        [step |-> "read", given |-> given,
                         row |-> IF there = {} THEN Blank(c) ELSE profiling[IdOf(c)]]]
    /\ UNCHANGED <<copies, unreadable>>

\* bug: all of the row, as it was read, is saved
Whole(a, row) ==
    [announcer[a].row EXCEPT
        !.environment = IF "environment" \in announcer[a].given THEN a ELSE @,
        !.version = IF "version" \in announcer[a].given THEN a ELSE @]

\* ... then ProfilingCommitSerializer.update
Updated(a, row) ==
    [row EXCEPT !.environment = IF "environment" \in announcer[a].given THEN a ELSE @,
                !.version = IF "version" \in announcer[a].given THEN a ELSE @]

SaveGiven(a) ==
    /\ announcer[a].step = "read"
    /\ profiling' = [profiling EXCEPT ![IdOf(announcer[a].row.code)] = Updated(a, @)]
    /\ announcer' = [announcer EXCEPT ![a].step = "done"]
    /\ UNCHANGED <<copies, unreadable>>

\* ProfilingUploadCreateView: the profiling commit must be there
UploadProfile(i) ==
    /\ ~profiling[i].uploaded
    /\ profiling' = [profiling EXCEPT ![i].uploaded = TRUE]
    /\ UNCHANGED <<announcer, copies, unreadable>>

\* the worker, with the commit that the uploads are about or none
Summarize(i, sha) ==
    /\ profiling[i].uploaded /\ ~profiling[i].summarized
    /\ profiling' = [profiling EXCEPT ![i].summarized = TRUE, ![i].sha = sha]
    /\ UNCHANGED <<announcer, copies, unreadable>>

\* summary_data: any error while it is read
LoseSummary(i) ==
    /\ profiling[i].summarized /\ unreadable' = unreadable \cup {i}
    /\ UNCHANGED <<profiling, announcer, copies>>

-----------------------------------------------------------------------------
(***************************************************************************)
(* ProfilingSummary                                                        *)
(***************************************************************************)
\* bug: the newest row, if it is summarized
NewestRow(sha) ==
    IF profiling = <<>> \/ ~profiling[Len(profiling)].summarized THEN 0 ELSE Len(profiling)

LatestProfiling(sha) ==
    Max({0} \cup {i \in DOMAIN profiling : /\ profiling[i].summarized
                                           /\ sha \in {Nothing, profiling[i].sha}})

\* The files of the report of a commit that the yaml marks as critical.  The commit is
\* looked up by its sha in all repositories, and must be there once.
FromYaml(sha) ==
    IF sha = Nothing THEN {} ELSE IF copies[sha] # 1 THEN {<<"error", sha>>} ELSE {<<"yaml", sha>>}

\* critical_files: of the summary with this number, and of the yaml
CriticalFiles(sha) ==
    LET i == LatestProfiling(sha) IN
    (IF i = 0 \/ i \in unreadable THEN {} ELSE {<<"summary", i>>})
    \cup FromYaml(IF sha # Nothing \/ i = 0 THEN sha ELSE profiling[i].sha)

ProfilingsNext ==
    \/ \E a \in Announcers :
        \/ \E c \in Codes, given \in SUBSET Fields : GetOrCreate(a, c, given)
        \/ SaveGiven(a)
    \/ \E i \in DOMAIN profiling :
        UploadProfile(i) \/ LoseSummary(i) \/ \E sha \in Shas \cup {Nothing} : Summarize(i, sha)

ProfilingsSpec == ProfilingsInit /\ [][ProfilingsNext]_profilingVars

-----------------------------------------------------------------------------
\* Of every step: what the worker has written is never taken back by a request that read the row
\* before, and a request that leaves a field out leaves it as others have set it.
SummariesAreKept ==
    \A i \in DOMAIN profiling :
        /\ profiling[i].summarized => /\ profiling'[i].summarized
                                      /\ profiling'[i].sha = profiling[i].sha
        /\ profiling[i].uploaded => profiling'[i].uploaded
        /\ \A a \in Announcers :
            announcer[a].step = "read" /\ announcer'[a].step = "done" =>
                /\ "environment" \notin announcer[a].given =>
                        profiling'[i].environment = profiling[i].environment
                /\ "version" \notin announcer[a].given =>
                        profiling'[i].version = profiling[i].version

\* Of every step: the critical files change only when a summary is written or lost: a profiling that
\* is announced, or uploaded to, does not hide those of the one before it, neither for
\* the repository nor for a commit.
CriticalFilesAreStable ==
    {i \in DOMAIN profiling' : profiling'[i].summarized}
            = {i \in DOMAIN profiling : profiling[i].summarized} /\ unreadable' = unreadable
        => \A sha \in Shas \cup {Nothing} : CriticalFiles(sha)' = CriticalFiles(sha)

-----------------------------------------------------------------------------
(* The inductive invariant *)

\* What a request has read is a row, and the row of this code stays.
ReadRows ==
    \A a \in Announcers : announcer[a].step = "read" =>
        /\ announcer[a].row \in ProfilingRow
        /\ \E i \in DOMAIN profiling : profiling[i].code = announcer[a].row.code

ProfilingsInv == ProfilingsTypeOK /\ ReadRows
=============================================================================
