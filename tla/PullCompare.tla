------------------------------ MODULE PullCompare ------------------------------
(***************************************************************************)
(* The comparison of a pull request (services/comparison.py, Comparison    *)
(* and PullRequestComparison; api/shared/compare): the list of files with  *)
(* changes that every full comparison of the pull request reads from redis *)
(* and writes back, and how a request for a comparison is answered.        *)
(*                                                                         *)
(* A version is a head of the pull request with its reports; base and head *)
(* differ in it by a diff in some files and by unexpected changes in some. *)
(***************************************************************************)
EXTENDS Absent, Integers, Sequences, FiniteSets

CONSTANTS
    ComparedFiles,  \* the files of the head report
    Readers,        \* requests that look at the comparison
    MaxVersion      \* bound on pushes and new reports

\* What the constants must be
VersionAssumption == MaxVersion \in Nat \ {0} /\ \A F \in SUBSET ComparedFiles : F # Nothing

VARIABLES
    versions,   \* [diff, changed] of each version
    listed,     \* redis, compare-changed-files: a set of files; Nothing
    listedOf,   \* the versions that this list was narrowed by
    reading     \* the requests

pullVars == <<versions, listed, listedOf, reading>>

Version == [diff : SUBSET ComparedFiles, changed : SUBSET ComparedFiles]
Reading == [step : {"idle", "read", "walk", "done"}, all : BOOLEAN, of : 0..MaxVersion,
            list : (SUBSET ComparedFiles) \cup {Nothing}, listOf : SUBSET (1..MaxVersion),
            found : SUBSET ComparedFiles]
Idle == [step |-> "idle", all |-> FALSE, of |-> 0, list |-> Nothing, listOf |-> {}, found |-> {}]

PullTypeOK ==
    /\ versions \in Seq(Version) /\ Len(versions) \in 1..MaxVersion
    /\ listed \in (SUBSET ComparedFiles) \cup {Nothing}
    /\ listedOf \subseteq 1..MaxVersion
    /\ reading \in [Readers -> Reading]

PullInit ==
    /\ versions \in {<<v>> : v \in Version}
    /\ listed = Nothing /\ listedOf = {}
    /\ reading = [r \in Readers |-> Idle]

-----------------------------------------------------------------------------
(***************************************************************************)
(* The list of files with changes                                          *)
(***************************************************************************)
\* a push to the pull request, or a report of its head or base
Push(v) ==
    /\ Len(versions) < MaxVersion /\ versions' = Append(versions, v)
    /\ UNCHANGED <<listed, listedOf, reading>>

\* after a day
ExpireList ==
    /\ listed # Nothing /\ listed' = Nothing /\ listedOf' = {}
    /\ UNCHANGED <<versions, reading>>

\* get_object, head_report and git_comparison.  The internal endpoint iterates over
\* files, the public one asks for each file of the head report.
Open(r, all) ==
    /\ reading[r].step = "idle"
    /\ reading' = [reading EXCEPT ![r] =
                        [Idle EXCEPT !.step = "read", !.all = all, !.of = Len(versions)]]
    /\ UNCHANGED <<versions, listed, listedOf>>

\* _files_with_changes, before the first file; nothing when redis does not answer
ReadList(r) ==
    /\ reading[r].step = "read"
    /\ \E answers \in BOOLEAN :
         reading' = [reading EXCEPT ![r].step = "walk",
                                    ![r].list = IF answers THEN listed ELSE Nothing,
                                    ![r].listOf = IF answers THEN listedOf ELSE {}]
    /\ UNCHANGED <<versions, listed, listedOf>>

\* bug: the list is taken for all files
ListedOnly(q, f) == q.list = Nothing \/ f \in q.list

\* _calculated_changes_and_lines: a file with a diff is looked at in any case
Searched(q, f) == f \in versions[q.of].diff \/ q.list = Nothing \/ f \in q.list

Found(q) == {f \in versions[q.of].changed : Searched(q, f)}

\* bug: the files without a diff are filtered out before the list is written
WithDiffOnly(q) == Found(q) \cap versions[q.of].diff

FilesWithChanges(q) == Found(q)

\* the files are compared, and the list is written when all of them are
Walk(r) ==
    LET q == reading[r] IN
    /\ q.step = "walk"
    /\ reading' = [reading EXCEPT ![r].step = "done", ![r].found = Found(q)]
    /\ IF q.all THEN /\ listed' = FilesWithChanges(q)
                     /\ listedOf' = q.listOf \cup {q.of}
       ELSE UNCHANGED <<listed, listedOf>>
    /\ UNCHANGED <<versions>>

Answer(r) ==
    /\ reading[r].step = "done" /\ reading' = [reading EXCEPT ![r] = Idle]
    /\ UNCHANGED <<versions, listed, listedOf>>

PullNext ==
    \/ \E v \in Version : Push(v)
    \/ ExpireList
    \/ \E r \in Readers :
        (\E all \in BOOLEAN : Open(r, all)) \/ ReadList(r) \/ Walk(r) \/ Answer(r)

PullSpec == PullInit /\ [][PullNext]_pullVars

-----------------------------------------------------------------------------
(***************************************************************************)
(* One request.  Its input says whether it is for a pull request, what     *)
(* compared_to is, what the settings allow, whether the commits and the    *)
(* reports are there, and whether the diff between compared_to and base    *)
(* moves lines that are tracked (shared library, external).                *)
(***************************************************************************)
\* bug: compared_to replaces the base whatever the settings say
IfComparedTo(i) == i.pull /\ i.compared_to # Nothing

is_pseudo_comparison(i) == i.pull /\ i.pseudo /\ i.compared_to # Nothing

base_commit(i) == IF is_pseudo_comparison(i) THEN i.compared_to ELSE "base"

\* pseudo_diff_adjusts_tracked_lines: looks at both reports if the commits differ
Looks(i) == is_pseudo_comparison(i) /\ i.compared_to # "base"
Adjusts(i) == Looks(i) /\ i.base_report # Nothing /\ i.head_report # Nothing /\ i.moves

\* get_object
Known(i) == i.pull => {base_commit(i), "head"} \subseteq i.commits

Lost(i) == i.base_report = "lost" \/ i.head_report = "lost"

\* retrieve: a report that is lost is caught only after pseudo_diff_adjusts_tracked_lines
\* has looked for it, a head without a report never
Retrieve(i) ==
    CASE ~Known(i) -> 404
      [] i.head_report = Nothing /\ i.base_report # "lost" -> 500
      [] Looks(i) /\ i.base_report # Nothing /\ Lost(i) -> 500
      [] Adjusts(i) /\ ~i.offsets -> 400
      [] Lost(i) -> 404
      [] OTHER -> 200

\* flags: a report without any flag has nothing to compare; the base report is asked for
\* the others even when there is none, and nothing is caught
Flags(i) ==
    CASE ~Known(i) -> 404
      [] Lost(i) \/ i.head_report = Nothing \/ i.base_report = Nothing -> 500
      [] OTHER -> 200

\* the lines of the base report in the comparison: those of this commit
LinesOf(i) ==
    IF Adjusts(i) /\ i.offsets THEN "base" ELSE base_commit(i)

-----------------------------------------------------------------------------
\* A change that a request does not show is one in a file without a diff, and was
\* left out because the list of another version was taken for this one, be it
\* through any number of requests that wrote the list again.  So without a push
\* since the list expired every change is shown (_files_with_changes has no head in
\* its key and lives a day).
HiddenOnlyWhenStale ==
    \A r \in Readers : reading[r].step = "done" =>
        LET q == reading[r]
            hidden == versions[q.of].changed \ q.found
        IN /\ q.found \subseteq versions[q.of].changed
           /\ hidden # {} => ~(q.listOf \subseteq {q.of}) /\ hidden \cap versions[q.of].diff = {}

\* A list in redis that only one version has narrowed names exactly the files of that
\* version with changes: requests for several versions that overlap do not mix.
ListIsOfItsVersion ==
    \A v \in 1..Len(versions) : listed # Nothing /\ listedOf = {v} => listed = versions[v].changed

\* A comparison that is shown has a base report with the line numbers of the pull
\* request's base, or of a commit between which and the base no tracked line moved;
\* a comparison of two commits or without the setting is one with the base.  Only a
\* missing report of a pseudo-comparison, or of a head without any, is not answered
\* with the 404 the view has for it.
PullIsAnswered(i) ==
    /\ Retrieve(i) = 200 =>
        /\ LinesOf(i) # "base" => i.pseudo /\ (~i.moves \/ i.base_report = Nothing)
        /\ i.head_report = "there" /\ i.base_report # "lost"
    /\ Retrieve(i) = 500 => Looks(i) \/ i.head_report = Nothing
    /\ Flags(i) = 200 => Retrieve(i) \in {200, 400}

-----------------------------------------------------------------------------
(* The inductive invariant *)

\* A list, with the versions it was narrowed by: there are some, and if there is one only
\* the list has all files that changed in it.
Narrowed(list, listOf) ==
    /\ listOf \subseteq 1..Len(versions)
    /\ list = Nothing <=> listOf = {}
    /\ \A v \in 1..Len(versions) : listOf = {v} => list = versions[v].changed

\* A request has such a list, and has hidden nothing else when it is done.
Hides(q) ==
    LET hidden == versions[q.of].changed \ q.found IN
    /\ q.found \subseteq versions[q.of].changed
    /\ hidden # {} => ~(q.listOf \subseteq {q.of}) /\ hidden \cap versions[q.of].diff = {}

PullInv ==
    /\ PullTypeOK /\ Narrowed(listed, listedOf)
    /\ \A r \in Readers : reading[r].step # "idle" =>
          /\ reading[r].of \in 1..Len(versions)
          /\ Narrowed(reading[r].list, reading[r].listOf)
          /\ reading[r].step = "done" => Hides(reading[r])
=============================================================================
