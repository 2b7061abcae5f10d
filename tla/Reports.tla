-------------------------------- MODULE Reports --------------------------------
(***************************************************************************)
(* What is read out of the report of a commit: its sessions and flags      *)
(* (services/report.py), the tree of its paths (services/path.py and the   *)
(* GraphQL and REST views on it), and the search for the report of a file  *)
(* among the ancestors of a commit (api/public/v2/report/views.py).        *)
(*                                                                         *)
(* Then the public endpoints for reports: the commit asked for, its report *)
(* as it is put together from the database, and the part that is asked     *)
(* for.  There a report is a set of lines [file, flag], or Nothing.        *)
(***************************************************************************)
EXTENDS Absent, Integers, Sequences, FiniteSets, SequencesExt, FiniteSetsExt

CONSTANTS
    Names,      \* the names of files and directories
    MaxDepth    \* more directories than Python's recursion gets along with

-----------------------------------------------------------------------------
(***************************************************************************)
(* Sessions: uploads is the sequence of a report's uploads, each with the  *)
(* order number it was processed under, its type, flags and state.         *)
(***************************************************************************)
Processed(uploads) ==
    {i \in DOMAIN uploads : uploads[i].state \in {"complete", "processed"}}
Carried(uploads) == {i \in Processed(uploads) : uploads[i].type = "carriedforward"}

UploadedFlags(uploads) ==
    UNION {uploads[i].flags : i \in Processed(uploads) \ Carried(uploads)}

\* the last of the uploads in S that have the same order number
LastOf(uploads, S) ==
    {i \in S : \A j \in S : uploads[j].order = uploads[i].order => j <= i}

\* bug: a flag that was uploaded again is carried forward all the same
build_all_sessions(uploads) ==
    LET direct == LastOf(uploads, Processed(uploads) \ Carried(uploads))
        kept == LastOf(uploads, Carried(uploads))
    IN {i \in direct : \A j \in kept : uploads[j].order # uploads[i].order} \cup kept

\* carried-forward sessions come second, and replace what has their number
build_sessions(uploads) ==
    LET direct == LastOf(uploads, Processed(uploads) \ Carried(uploads))
        kept == {i \in LastOf(uploads, Carried(uploads)) :
                    uploads[i].flags \cap UploadedFlags(uploads) = {}}
    IN {i \in direct : \A j \in kept : uploads[j].order # uploads[i].order} \cup kept

\* ReportMixin.flags: whether each flag is carried forward, by the session
\* that was inserted last
flags(uploads) ==
    LET sessions == build_sessions(uploads)
    IN [f \in UNION {uploads[i].flags : i \in sessions} |->
            \E i \in sessions : uploads[i].type = "carriedforward" /\ f \in uploads[i].flags]

-----------------------------------------------------------------------------
(***************************************************************************)
(* PrefixedPath and ReportPaths: a path is the sequence of its names       *)
(***************************************************************************)
is_subpath(full, path) == IsPrefix(path, full)

\* Only a prefix that a slash follows is cut off: the path of the prefix
\* itself stays whole.
relative_path(full, prefix) ==
    IF IsStrictPrefix(prefix, full) THEN SubSeq(full, Len(prefix) + 1, Len(full)) ELSE full

\* bug: a file of a directory below as well
is_file_below(full, prefix) == Len(relative_path(full, prefix)) \in {1, 2}

is_file(full, prefix) == Len(relative_path(full, prefix)) = 1

basename(full, prefix) == Append(prefix, relative_path(full, prefix)[1])

\* the term is looked for in what follows the path; Nothing is no search
ReportPaths(files, path, term) ==
    {f \in files : /\ is_subpath(f, path)
                   /\ term # Nothing => \E i \in DOMAIN relative_path(f, path) :
                                            relative_path(f, path)[i] = term}

\* The nodes of one directory; weight says how many lines a file has.
RecursionError == [kind |-> "error", path |-> <<>>, children |-> {}, lines |-> 0]
single_directory(files, path, weight) ==
    LET Nodes[S \in SUBSET files, prefix \in Seq(Names)] ==
            IF Len(prefix) > MaxDepth THEN {RecursionError}
            ELSE {LET group == {f \in S : basename(f, prefix) = b}
                      children == Nodes[group, b]
                      one == CHOOSE f \in group : TRUE
                  IN IF Cardinality(group) = 1 /\ is_file(one, prefix)
                     THEN [kind |-> "file", path |-> one, children |-> {}, lines |-> weight[one]]
                     ELSE [kind |-> "dir", path |-> b, children |-> children,
                           lines |-> MapThenSumSet(LAMBDA n : n.lines, children)] :
                  b \in {basename(f, prefix) : f \in S}}
    IN Nodes[files, path]

\* the nodes at any depth
Below(nodes) ==
    LET All[k \in Nat] == IF k = 0 THEN nodes
                          ELSE All[k - 1] \cup UNION {n.children : n \in All[k - 1]}
    IN All[MaxDepth + 1]

\* resolve_path_contents: exists is what the provider answers about the path,
\* Nothing when it fails
path_contents(files, path, term, listed, exists, weight) ==
    LET found == ReportPaths(files, path, term)
    IN CASE found = {} /\ exists = FALSE -> [type |-> "UnknownPath", nodes |-> {}]
         [] found = {} /\ exists # FALSE -> [type |-> "MissingCoverage", nodes |-> {}]
         [] OTHER ->
              [type |-> "PathContents",
               nodes |-> IF term # Nothing \/ listed
                         THEN {[kind |-> "file", path |-> f, children |-> {},
                                lines |-> weight[f]] : f \in found}
                         ELSE single_directory(found, path, weight)]

-----------------------------------------------------------------------------
(***************************************************************************)
(* FileReportViewSet.get_object: commits is the commit asked for and its   *)
(* ancestors, each [complete, has] (its state; whether its report has the  *)
(* file); the last of them has no parent, or one that is unknown.  The     *)
(* result is the position of a commit, 0 for NotFound.                     *)
(***************************************************************************)
\* bug: a commit that is still being processed is accepted
KnowsFileByNow(commit) == commit.has

KnowsFile(commit) == commit.complete /\ commit.has

walk_back(commits, steps, oldest) ==
    LET Walk[k \in Nat] ==
            IF k = 0 THEN [at |-> 1, stop |-> FALSE]
            ELSE LET w == Walk[k - 1]
                 IN IF w.stop \/ w.at = 0 THEN w
                    ELSE IF KnowsFile(commits[w.at])
                    THEN [w EXCEPT !.stop = TRUE]
                    ELSE IF w.at = Len(commits) THEN [at |-> 0, stop |-> TRUE]
                    ELSE [at |-> w.at + 1, stop |-> w.at + 1 = oldest]
        last == Walk[steps].at
    IN IF last # 0 /\ commits[last].has THEN last ELSE 0

-----------------------------------------------------------------------------
(***************************************************************************)
(* RepoPropertyMixin.get_commit.  The repository: [branch, heads,          *)
(* commits], heads the commit of each branch, commits the rows by id.      *)
(***************************************************************************)
get_commit(repo, sha, branch) ==
    LET named == IF branch = Nothing THEN repo.branch ELSE branch
        id == IF sha # Nothing THEN sha
              ELSE IF named \in DOMAIN repo.heads THEN repo.heads[named] ELSE Nothing
    IN IF id \in DOMAIN repo.commits THEN id ELSE Nothing

-----------------------------------------------------------------------------
(***************************************************************************)
(* build_report_from_commit.  A commit has rows of reports [id, code,      *)
(* details, sessions], where details is the set of its files or Nothing    *)
(* without a row of them, sessions the flags, and perhaps a report of its  *)
(* own.  The chunks in the archive are those of the commit: all its lines. *)
(***************************************************************************)
\* bug: the newest row
NewestRow(rows) == CHOOSE r \in rows : \A s \in rows : s.id <= r.id

\* The first row, whatever its code is
FirstRow(rows) == CHOOSE r \in rows : \A s \in rows : r.id <= s.id

Chunks(lines, files, sessions) == {l \in lines : l.file \in files /\ l.flag \in sessions}

build_files(row) == IF row.details = Nothing THEN {} ELSE row.details

build_report_from_commit(commit, enabled) ==
    IF commit.rows # {} /\ enabled
    THEN LET row == FirstRow(commit.rows) IN Chunks(commit.lines, build_files(row), row.sessions)
    ELSE IF commit.report = Nothing THEN Nothing
         ELSE Chunks(commit.lines, commit.report.details, commit.report.sessions)

-----------------------------------------------------------------------------
(***************************************************************************)
(* BaseReportViewSet.filter_report.  Asked for are [path, flag,            *)
(* component]: path is Nothing or [files, matches], the files whose names  *)
(* begin with it and whether the component's patterns match it; component  *)
(* is Nothing or [exists, files, regexes, flags]: the files of its         *)
(* patterns, whether it names flags, and which those are.                  *)
(***************************************************************************)
\* Report.filter: no flags are all flags
Filtered(report, wanted, files) ==
    {l \in report : (wanted = {} \/ l.flag \in wanted) /\ l.file \in files}

FilesOf(report) == {l.file : l \in report}

get_matching_flags(component, report) == component.flags \cap {l.flag : l \in report}

\* bug: the path is forgotten when a flag is given
PathForgotten(report, asked) ==
    CASE asked.flag # Nothing -> Filtered(report, {asked.flag}, FilesOf(report))
      [] asked.path # Nothing -> Filtered(report, {}, asked.path.files)
      [] asked.component # Nothing ->
           Filtered(report, get_matching_flags(asked.component, report), asked.component.files)
      [] OTHER -> report

\* The component's own patterns count only when neither a path nor a flag is given.
Selected(report, asked) ==
    CASE asked.path # Nothing ->
           Filtered(report, IF asked.flag = Nothing THEN {} ELSE {asked.flag}, asked.path.files)
      [] asked.path = Nothing /\ asked.flag # Nothing ->
           Filtered(report, {asked.flag}, FilesOf(report))
      [] asked.path = Nothing /\ asked.flag = Nothing /\ asked.component # Nothing ->
           Filtered(report, get_matching_flags(asked.component, report), asked.component.files)
      [] OTHER -> report

Outside(report, asked) ==
    /\ asked.component # Nothing
    /\ \/ asked.path # Nothing /\ ~asked.path.matches
       \/ /\ asked.flag # Nothing /\ asked.component.regexes
          /\ asked.flag \notin get_matching_flags(asked.component, report)

\* Nothing is a NotFound.
filter_report(report, asked) ==
    IF asked.component # Nothing /\ ~asked.component.exists THEN Nothing
    ELSE IF Outside(report, asked) THEN {}
    ELSE IF asked.path # Nothing /\ FilesOf(report) \cap asked.path.files = {} THEN Nothing
    ELSE Selected(report, asked)

-----------------------------------------------------------------------------
\* Every flag of a processed upload is a flag of the report, unless a session was
\* replaced by one of the same number, and it is marked as carried forward exactly
\* if no upload of this commit has it (a carried-forward session has one flag).
FlagsAreTrue(uploads) ==
    LET own == \A i, j \in Processed(uploads) :
                    i # j => uploads[i].order # uploads[j].order
    IN (own /\ \A i \in Carried(uploads) : Cardinality(uploads[i].flags) = 1) =>
        /\ DOMAIN flags(uploads) = UNION {uploads[i].flags : i \in Processed(uploads)}
        /\ \A f \in DOMAIN flags(uploads) : flags(uploads)[f] <=> f \notin UploadedFlags(uploads)

\* The tree of a directory holds every file below it once, and the lines of every
\* directory in it are those of the files below, each node in the directory that its
\* path names; the path of a file below the root,
\* or a file that is also a directory, is beyond it (the recursion does not end).
TreeIsTrue(files, path, weight) ==
    LET found == ReportPaths(files, path, Nothing)
        nodes == single_directory(found, path, weight)
        all == Below(nodes)
        nested == \/ path \in found /\ Len(path) > 1
                  \/ \E f, g \in found : IsStrictPrefix(f, g)
    IN ~nested =>
        /\ RecursionError \notin all
        /\ {n.path : n \in {m \in all : m.kind = "file"}} = found
        /\ MapThenSumSet(LAMBDA n : n.lines, nodes) = MapThenSumSet(LAMBDA f : weight[f], found)
        /\ \A n \in nodes : path \in {n.path, Front(n.path)}
        /\ \A n \in all : \A child \in n.children : Front(child.path) = n.path
        /\ \A n \in all : n.kind = "dir" /\ n.path \notin found =>
             n.lines = MapThenSumSet(LAMBDA f : weight[f], {f \in found : IsPrefix(n.path, f)})

\* The search among ancestors answers with the nearest complete commit that knows
\* the file, or with the last one it may look at if this one knows the file; it says
\* NotFound only if it has seen no such commit, and goes beyond neither the number of
\* steps nor the oldest commit (unless it started there).
WalkIsNearest(commits, steps, oldest) ==
    LET r == walk_back(commits, steps, oldest)
        good == {i \in DOMAIN commits : commits[i].complete /\ commits[i].has}
        limit == IF oldest \in 2..(steps + 1) THEN oldest ELSE steps + 1
    IN /\ r <= limit
       /\ \A i \in good : i <= limit => (r # 0 /\ r <= i)
       /\ r # 0 => commits[r].has /\ (r \in good \/ r = limit)

\* Which of the two ways a report is put together makes no difference where the worker
\* wrote both, unless the commit has an older row of another upload, or none of the files.
\* (services/report.py:57-110; other queries ask for the row without a code)
BuildersAgree(commit) ==
    /\ \E row \in commit.rows :
          /\ row.code = Nothing /\ row.details # Nothing
          /\ \A other \in commit.rows : other # row => other.id > row.id
          /\ commit.report = [details |-> row.details, sessions |-> row.sessions]
    => build_report_from_commit(commit, TRUE) = build_report_from_commit(commit, FALSE)

\* What is shown of a report is of the path and the flag given, and of the component
\* when neither is; and nothing is held back that is of all three. (With a path or a flag
\* what is shown need not be of the component, and a component none of whose flags is in
\* the report has all flags.) (views.py:88-131)
PartIsAskedFor(report, asked) ==
    LET shown == filter_report(report, asked)
        known == asked.component # Nothing
    IN shown # Nothing =>
         /\ shown \subseteq report
         /\ asked.path # Nothing => FilesOf(shown) \subseteq asked.path.files
         /\ asked.flag # Nothing => \A l \in shown : l.flag = asked.flag
         /\ known /\ asked.path = Nothing /\ asked.flag = Nothing =>
               \A l \in shown : /\ l.file \in asked.component.files
                                /\ get_matching_flags(asked.component, report) # {} =>
                                      l.flag \in asked.component.flags
         /\ \A l \in report :
               /\ asked.path # Nothing => l.file \in asked.path.files /\ (known => asked.path.matches)
               /\ asked.flag # Nothing => l.flag = asked.flag
               /\ known => /\ l.file \in asked.component.files
                           /\ asked.component.regexes => l.flag \in asked.component.flags
               => l \in shown
=============================================================================
