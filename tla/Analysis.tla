-------------------------------- MODULE Analysis --------------------------------
(***************************************************************************)
(* Static analysis and label analysis of one repository (staticanalysis,   *)
(* labelanalysis): a client announces the files of a commit as a suite,    *)
(* puts those that the archive does not have yet, says that it is done,    *)
(* and asks for the labels to run between two commits that have a suite.   *)
(*                                                                         *)
(* Files are their hashes.  Commits are numbers, each the child of the one *)
(* before.  The client and the worker are external.                        *)
(***************************************************************************)
EXTENDS Absent, Integers, FiniteSets, FiniteSetsExt

CONSTANTS
    Suites,     \* requests that create a suite
    Hashes,
    LastCommit, \* the commits are 1..LastCommit
    Attempts    \* commits that are looked at for the base of a label analysis: 10

\* What the constants must be
AnalysisAssumption == LastCommit \in Nat /\ Attempts \in Nat /\ Nothing \notin Nat

VARIABLES
    snapshot,   \* StaticAnalysisSingleFileSnapshot of each hash
    archived,   \* hashes in the archive
    suite,      \* the suites and the requests that create them
    scheduled,  \* static analysis tasks
    complete,   \* auxiliary: suites that the client finished after its last put
    labels      \* label analyses that were accepted: [asked, base, head]

analysisVars == <<snapshot, archived, suite, scheduled, complete, labels>>

Suite == [step : {"none", "created", "mapped", "listed", "answered", "dead"},
          commit : 0..LastCommit, files : SUBSET Hashes, known : SUBSET Hashes,
          linked : SUBSET Hashes]
NoSuite == [step |-> "none", commit |-> 0, files |-> {}, known |-> {}, linked |-> {}]

AnalysisTypeOK ==
    /\ snapshot \in [Hashes -> {"none", "created", "valid"}]
    /\ archived \subseteq Hashes
    /\ suite \in [Suites -> Suite]
    /\ scheduled \subseteq Suites /\ complete \subseteq Suites
    /\ labels \subseteq [asked : 1..LastCommit, base : 1..LastCommit, head : 1..LastCommit]

AnalysisInit ==
    /\ snapshot = [h \in Hashes |-> "none"] /\ archived = {}
    /\ suite = [s \in Suites |-> NoSuite]
    /\ scheduled = {} /\ complete = {} /\ labels = {}

-----------------------------------------------------------------------------
(***************************************************************************)
(* StaticAnalysisSuiteSerializer.create, one statement after the other     *)
(***************************************************************************)
CreateSuite(s, c, F) ==
    /\ suite[s].step = "none"
    /\ suite' = [suite EXCEPT ![s] = [NoSuite EXCEPT !.step = "created", !.commit = c, !.files = F]]
    /\ UNCHANGED <<snapshot, archived, scheduled, complete, labels>>

\* existing_values_mapping
MapExisting(s) ==
    /\ suite[s].step = "created"
    /\ suite' = [suite EXCEPT ![s].step = "mapped",
                              ![s].known = {h \in suite[s].files : snapshot[h] # "none"}]
    /\ UNCHANGED <<snapshot, archived, scheduled, complete, labels>>

\* _dict_to_suite_filepath: get_or_create, should another request have created it since
LinkFile(s, h) ==
    /\ suite[s].step = "mapped" /\ h \in suite[s].files \ suite[s].linked
    /\ suite' = [suite EXCEPT ![s].linked = @ \cup {h}]
    /\ snapshot' = IF h \in suite[s].known \/ snapshot[h] # "none" THEN snapshot
                   ELSE [snapshot EXCEPT ![h] = "created"]
    /\ UNCHANGED <<archived, scheduled, complete, labels>>

ListFiles(s) ==
    /\ suite[s].step = "mapped" /\ suite[s].linked = suite[s].files
    /\ suite' = [suite EXCEPT ![s].step = "listed"]
    /\ UNCHANGED <<snapshot, archived, scheduled, complete, labels>>

\* perform_create: the first task, for clients that do not call finish
Announce(s) ==
    /\ suite[s].step = "listed"
    /\ suite' = [suite EXCEPT ![s].step = "answered"]
    /\ scheduled' = scheduled \cup {s}
    /\ UNCHANGED <<snapshot, archived, complete, labels>>

\* The rows that are there already stay.
Fail(s) ==
    /\ suite[s].step \in {"created", "mapped", "listed"}
    /\ suite' = [suite EXCEPT ![s].step = "dead"]
    /\ UNCHANGED <<snapshot, archived, scheduled, complete, labels>>

\* The client has a location for each file of its suite.
Put(s, h) ==
    /\ suite[s].step = "answered" /\ s \notin complete
    /\ h \in suite[s].files \ archived
    /\ archived' = archived \cup {h}
    /\ UNCHANGED <<snapshot, suite, scheduled, complete, labels>>

\* bug: the task of the announcement is left to do the work
LeftToAnnounce(s) == scheduled

Rescheduled(s) == scheduled \cup {s}

Finish(s) ==
    /\ suite[s].step = "answered"
    /\ scheduled' = Rescheduled(s)
    /\ complete' = IF suite[s].files \subseteq archived THEN complete \cup {s} ELSE complete
    /\ UNCHANGED <<snapshot, archived, suite, labels>>

\* the task: files that are in the archive are analysed
Analyse(s) ==
    /\ s \in scheduled /\ scheduled' = scheduled \ {s}
    /\ snapshot' = [h \in Hashes |->
                        IF h \in suite[s].files \cap archived THEN "valid" ELSE snapshot[h]]
    /\ UNCHANGED <<archived, suite, complete, labels>>

-----------------------------------------------------------------------------
(***************************************************************************)
(* LabelAnalysisRequestSerializer                                          *)
(***************************************************************************)
\* staticanalysissuite_set.exists(): a suite without its files as well
HasSuite(c) == \E s \in Suites : suite[s].step # "none" /\ suite[s].commit = c

\* bug: the first commit takes one of the attempts
OneAttemptLess(c) ==
    LET near == {d \in 1..c : HasSuite(d) /\ c - d < Attempts}
    IN IF near = {} THEN Nothing ELSE Max(near)

\* CommitFromShaSerializerField: the commit itself, then its ancestors
Fallback(c) ==
    LET near == {d \in 1..c : HasSuite(d) /\ c - d <= Attempts}
    IN IF near = {} THEN Nothing ELSE Max(near)

RequestLabels(base, head) ==
    /\ HasSuite(head) /\ Fallback(base) \notin {Nothing, head}
    /\ labels' = labels \cup {[asked |-> base, base |-> Fallback(base), head |-> head]}
    /\ UNCHANGED <<snapshot, archived, suite, scheduled, complete>>

AnalysisNext ==
    \/ \E s \in Suites :
        \/ \E c \in 1..LastCommit, F \in (SUBSET Hashes) \ {{}} : CreateSuite(s, c, F)
        \/ MapExisting(s) \/ ListFiles(s) \/ Announce(s) \/ Fail(s) \/ Finish(s) \/ Analyse(s)
        \/ \E h \in Hashes : LinkFile(s, h) \/ Put(s, h)
    \/ \E base, head \in 1..LastCommit : RequestLabels(base, head)

AnalysisSpec == AnalysisInit /\ [][AnalysisNext]_analysisVars

-----------------------------------------------------------------------------
\* A suite that was answered has a snapshot for each of its files, whichever of the
\* requests that overlapped created it; and when no task waits, every suite that its
\* client finished with all files in the archive is analysed to the last file, whoever
\* put the files and whenever the first task ran.
QuietSuitesAreAnalysed ==
    \A s \in Suites :
        /\ suite[s].step \in {"listed", "answered"} =>
             \A h \in suite[s].files : snapshot[h] # "none"
        /\ scheduled = {} /\ s \in complete => \A h \in suite[s].files : snapshot[h] = "valid"

\* A label analysis compares two different commits that both have a suite.  Its base is
\* the commit asked for or one of its nearest Attempts ancestors, and one is found
\* whenever any of these has a suite, be it one whose request failed half way.
LabelsHaveSuites ==
    /\ \A l \in labels :
        /\ l.base # l.head /\ HasSuite(l.base) /\ HasSuite(l.head)
        /\ l.base \in (l.asked - Attempts)..l.asked
    /\ \A c \in 1..LastCommit :
        (Fallback(c) = Nothing) = (\A d \in 1..c : HasSuite(d) => d < c - Attempts)

-----------------------------------------------------------------------------
(* The inductive invariant *)

\* A file that a suite knows of or has linked has a snapshot, and a suite that is listed has
\* linked all of its files.
LinksHaveSnapshots ==
    \A s \in Suites :
        /\ \A h \in suite[s].known \cup suite[s].linked : snapshot[h] # "none"
        /\ suite[s].step \in {"listed", "answered"} => suite[s].linked = suite[s].files

\* A suite that is complete is answered and in the archive, and waits for its task or is
\* analysed.
CompleteAreDue ==
    \A s \in complete :
        /\ suite[s].step = "answered" /\ suite[s].files \subseteq archived
        /\ s \in scheduled \/ \A h \in suite[s].files : snapshot[h] = "valid"

AnalysisInv == AnalysisTypeOK /\ LinksHaveSnapshots /\ CompleteAreDue /\ LabelsHaveSuites
=============================================================================
