---------------------------- MODULE FileComparison ----------------------------
(***************************************************************************)
(* How one file of a comparison is shown (services/comparison.py):         *)
(* FileComparisonTraverseManager walks the lines of the base and the head  *)
(* file along the hunks of the provider's diff, two visitors join them     *)
(* with the coverage of both reports, and Segment cuts out what changed.   *)
(*                                                                         *)
(* A file is an edit script: each of its elements is a line that is kept,  *)
(* added or deleted, with its coverage on both sides.  The diff of the     *)
(* provider (external) is computed from the script with Context lines of   *)
(* context, as git does.                                                   *)
(***************************************************************************)
EXTENDS Absent, Integers, Sequences, FiniteSets, SequencesExt, FiniteSetsExt

CONSTANTS
    Cells,          \* what a line may be: [op, base, head, signed]
    MaxScript,      \* bound on the length of a script
    Context,        \* lines of context in a hunk
    PaddingLines,   \* Segment.padding_lines
    LineDistance    \* Segment.line_distance

Coverage == {"hit", "miss", "partial"}

(***************************************************************************)
(* A signed line is one whose text begins with + or -.                     *)
(***************************************************************************)
ASSUME CellsAssumption ==
    Cells \subseteq [op : {"keep", "add", "del"}, signed : BOOLEAN,
                     base : Coverage \cup {Nothing},
                     head : Coverage \cup {Nothing}]

\* a report has coverage of the lines of its own side only
ASSUME SidesAssumption ==
    \A cell \in Cells :
        /\ cell.op = "add" => cell.base = Nothing
        /\ cell.op = "del" => cell.head = Nothing

ASSUME DistanceAssumption ==
    /\ PaddingLines \in Nat
    /\ LineDistance \in Nat
    /\ 2 * PaddingLines <= LineDistance

\* the diffs of the providers have context
ASSUME BoundsAssumption ==
    MaxScript \in Nat /\ Context \in Nat \ {0} /\ Nothing \notin Nat

VARIABLES
    script,     \* the lines of both files, in the order of a diff
    with_src,   \* whether the source of the head file was fetched
    phase,      \* "edit" while the input is chosen, "apply", "done", "error"
    segments,   \* the hunks not yet consumed
    base_ln,
    head_ln,
    visits      \* what the visitors were called with

fileVars == <<script, with_src, phase, segments, base_ln, head_ln, visits>>

-----------------------------------------------------------------------------
(***************************************************************************)
(* The two files, their reports and the diff between them                  *)
(***************************************************************************)
InBase(i) == script[i].op # "add"
InHead(i) == script[i].op # "del"

BaseLines(n) == Cardinality({i \in 1..n : InBase(i)})
HeadLines(n) == Cardinality({i \in 1..n : InHead(i)})

\* the element that is line ln of the base file, of the head file
BaseIndex(ln) == CHOOSE i \in DOMAIN script : InBase(i) /\ BaseLines(i) = ln
HeadIndex(ln) == CHOOSE i \in DOMAIN script : InHead(i) /\ HeadLines(i) = ln

\* A report knows the lines up to the last one with coverage; eof is one more.
\* A file without any coverage is not in the report.
base_file_eof ==
    LET covered == {BaseLines(i) : i \in {j \in DOMAIN script : script[j].base # Nothing}}
    IN IF covered = {} THEN 0 ELSE Max(covered) + 1
head_file_eof ==
    LET covered == {HeadLines(i) : i \in {j \in DOMAIN script : script[j].head # Nothing}}
    IN IF covered = {} THEN 0 ELSE Max(covered) + 1

\* The source of an empty file is an empty list, which counts as no source.
src == IF with_src THEN HeadLines(Len(script)) ELSE 0

InHunk(i) == \E j \in DOMAIN script : script[j].op # "keep" /\ j - i \in -Context..Context

\* git leaves out a count of 1, which reaches the header as an empty string;
\* the start of an empty range is the line before it
Omitted == -1
Count(n) == IF n = 1 THEN Omitted ELSE n
Hunk(a, z) ==
    LET b == BaseLines(z) - BaseLines(a - 1)
        h == HeadLines(z) - HeadLines(a - 1)
    IN [header |-> <<BaseLines(a - 1) + Min({b, 1}), Count(b),
                     HeadLines(a - 1) + Min({h, 1}), Count(h)>>,
        lines |-> [k \in 1..(z - a + 1) |-> a + k - 1]]

HunkStarts == {i \in DOMAIN script : InHunk(i) /\ (i = 1 \/ ~InHunk(i - 1))}
HunkEnd(a) ==
    Min({z \in a..Len(script) : z = Len(script) \/ ~InHunk(z + 1)})

\* the k-th of a set of numbers
Nth(S, k) == CHOOSE x \in S : Cardinality({y \in S : y < x}) = k - 1

Diff == [k \in 1..Cardinality(HunkStarts) |->
            LET a == Nth(HunkStarts, k) IN Hunk(a, HunkEnd(a))]

-----------------------------------------------------------------------------
(***************************************************************************)
(* FileComparisonTraverseManager                                           *)
(***************************************************************************)
traverse_finished ==
    /\ segments = <<>>
    /\ IF src > 0 THEN head_ln > src
       ELSE head_ln >= head_file_eof /\ base_ln >= base_file_eof

\* bug: a count that is left out is taken for none
WithinGivenCount(ln, start, count) == start <= ln /\ ln < start + count

Within(ln, start, count) ==
    start <= ln /\ ln < start + (IF count = Omitted THEN 1 ELSE count)

traversing_diff ==
    /\ segments # <<>>
    /\ LET header == segments[1].header IN
        \/ Within(base_ln, header[1], header[2])
        \/ Within(head_ln, header[3], header[4])

\* the line at a negative index of the source is counted from its end
LineValue ==
    IF traversing_diff THEN segments[1].lines[1]
    ELSE IF src = 0 THEN Nothing
    ELSE HeadIndex(IF head_ln = 0 THEN src ELSE head_ln)

\* a list popped when empty, a line beyond the end of the source
IndexError ==
    \/ traversing_diff /\ segments[1].lines = <<>>
    \/ ~traversing_diff /\ src > 0 /\ head_ln > src

FileInit ==
    /\ script = <<>> /\ with_src = FALSE /\ phase = "edit"
    /\ segments = <<>> /\ base_ln = 1 /\ head_ln = 1 /\ visits = <<>>

\* the input: one more line
Extend(cell) ==
    /\ phase = "edit" /\ Len(script) < MaxScript
    /\ script' = Append(script, cell)
    /\ UNCHANGED <<with_src, phase, segments, base_ln, head_ln, visits>>

\* bug: the counters start before the first line of the hunk
BeforeHunk(start) == start - 1

FirstLine(start) == Min({1, start})

\* __init__: the counters start at 0 for a file that is new or deleted
Begin(source) ==
    /\ phase = "edit" /\ phase' = "apply"
    /\ with_src' = source
    /\ segments' = Diff
    /\ base_ln' = IF Diff = <<>> THEN 1 ELSE FirstLine(Diff[1].header[1])
    /\ head_ln' = IF Diff = <<>> THEN 1 ELSE FirstLine(Diff[1].header[3])
    /\ UNCHANGED <<script, visits>>

\* one iteration of the loop in apply
Visit ==
    /\ phase = "apply" /\ ~traverse_finished /\ ~IndexError
    /\ LET value == LineValue
           added == traversing_diff /\ script[value].op = "add"
           removed == traversing_diff /\ script[value].op = "del"
           rest == IF traversing_diff
                   THEN <<[segments[1] EXCEPT !.lines = Tail(@)]>> \o Tail(segments)
                   ELSE segments
       IN /\ visits' = Append(visits,
                [base |-> IF added THEN Nothing ELSE base_ln,
                 head |-> IF removed THEN Nothing ELSE head_ln,
                 value |-> value, is_diff |-> traversing_diff])
          /\ head_ln' = IF removed THEN head_ln ELSE head_ln + 1
          /\ base_ln' = IF added THEN base_ln ELSE base_ln + 1
          /\ segments' = IF rest # <<>> /\ rest[1].lines = <<>> THEN Tail(rest) ELSE rest
    /\ UNCHANGED <<script, with_src, phase>>

EndOfApply ==
    /\ phase = "apply"
    /\ \/ traverse_finished /\ phase' = "done"
       \/ ~traverse_finished /\ IndexError /\ phase' = "error"
    /\ UNCHANGED <<script, with_src, segments, base_ln, head_ln, visits>>

FileNext ==
    \/ \E cell \in Cells : Extend(cell)
    \/ \E source \in BOOLEAN : Begin(source)
    \/ Visit
    \/ EndOfApply

FileSpec == FileInit /\ [][FileNext]_fileVars

-----------------------------------------------------------------------------
(***************************************************************************)
(* The visitors: _get_line, CreateLineComparisonVisitor and                *)
(* CreateChangeSummaryVisitor                                              *)
(***************************************************************************)
BaseLine(ln) ==
    IF ln = Nothing \/ ln >= base_file_eof \/ base_file_eof = 0 THEN Nothing
    ELSE script[BaseIndex(IF ln = 0 THEN base_file_eof - 1 ELSE ln)].base
HeadLine(ln) ==
    IF ln = Nothing \/ ln >= head_file_eof \/ head_file_eof = 0 THEN Nothing
    ELSE script[HeadIndex(IF ln = 0 THEN head_file_eof - 1 ELSE ln)].head

\* LineComparison
Line(v) ==
    LET added == v.is_diff /\ script[v.value].op = "add"
        removed == v.is_diff /\ script[v.value].op = "del"
    IN [value |-> v.value, added |-> added, removed |-> removed,
        base_ln |-> v.base, head_ln |-> v.head,
        base |-> IF added THEN Nothing ELSE BaseLine(v.base),
        head |-> IF removed THEN Nothing ELSE HeadLine(v.head)]

lines == LET shown == {i \in DOMAIN visits : visits[i].value # Nothing}
         IN [k \in 1..Cardinality(shown) |-> Line(visits[Nth(shown, k)])]

\* A line is left out when its text begins with a sign, be it one of the
\* diff or one of the source.
BeginsWithSign(v) ==
    /\ v.value # Nothing
    /\ IF v.is_diff THEN script[v.value].op # "keep" ELSE script[v.value].signed

\* bug: a line that only one side has counts as changed
UnexpectedOrNew(v) == ~BeginsWithSign(v) /\ BaseLine(v.base) # HeadLine(v.head)

Unexpected(v) ==
    /\ ~BeginsWithSign(v)
    /\ BaseLine(v.base) # Nothing /\ HeadLine(v.head) # Nothing
    /\ BaseLine(v.base) # HeadLine(v.head)

change_summary ==
    [c \in Coverage |->
        LET changed == {i \in DOMAIN visits : Unexpected(visits[i])}
        IN Cardinality({i \in changed : HeadLine(visits[i].head) = c})
           - Cardinality({i \in changed : BaseLine(visits[i].base) = c})]

-----------------------------------------------------------------------------
(***************************************************************************)
(* Segment, over lines with the fields added, removed, base and head       *)
(***************************************************************************)
OfInterest(line) == line.base # line.head \/ line.added \/ line.removed

GroupStarts(ls) ==
    {i \in DOMAIN ls : /\ OfInterest(ls[i])
                       /\ \A j \in DOMAIN ls :
                            OfInterest(ls[j]) => ~(j < i /\ i - j <= LineDistance)}
\* bug: a group ends one line too early to reach the next line of interest
GroupEndTooEarly(ls, a) ==
    Min({z \in DOMAIN ls : /\ z >= a /\ OfInterest(ls[z])
                           /\ \A j \in DOMAIN ls :
                                OfInterest(ls[j]) => ~(j > z /\ j - z < LineDistance)})

GroupEnd(ls, a) ==
    Min({z \in DOMAIN ls : /\ z >= a /\ OfInterest(ls[z])
                           /\ \A j \in DOMAIN ls :
                                OfInterest(ls[j]) => ~(j > z /\ j - z <= LineDistance)})

\* the first and the last line of each segment, padding included
Segments(ls) ==
    {<<Max({a - PaddingLines, 1}), Min({GroupEnd(ls, a) + PaddingLines, Len(ls)})>> :
        a \in GroupStarts(ls)}

Slice(ls, s) == SubSeq(ls, s[1], s[2])

\* bug: both counts are those of all lines shown
HeaderOfAllLines(ls) ==
    LET base == {i \in DOMAIN ls : ~ls[i].added /\ ls[i].base_ln # Nothing}
        head == {i \in DOMAIN ls : ~ls[i].removed /\ ls[i].head_ln # Nothing}
    IN [base_start |-> IF base = {} THEN 0 ELSE ls[Min(base)].base_ln,
        base_count |-> Len(ls),
        head_start |-> IF head = {} THEN 0 ELSE ls[Min(head)].head_ln,
        head_count |-> Len(ls)]

SegmentHeader(ls) ==
    LET base == {i \in DOMAIN ls : ~ls[i].added /\ ls[i].base_ln # Nothing}
        head == {i \in DOMAIN ls : ~ls[i].removed /\ ls[i].head_ln # Nothing}
        changed == {i \in DOMAIN ls : ls[i].added \/ ls[i].removed}
        context == Len(ls) - Cardinality(changed)
    IN [base_start |-> IF base = {} THEN 0 ELSE ls[Min(base)].base_ln,
        base_count |-> context + Cardinality({i \in DOMAIN ls : ls[i].removed}),
        head_start |-> IF head = {} THEN 0 ELSE ls[Min(head)].head_ln,
        head_count |-> context + Cardinality({i \in changed : ls[i].added})]

has_diff_changes(ls) == \E i \in DOMAIN ls : ls[i].added \/ ls[i].removed
has_unintended_changes(ls) ==
    \E i \in DOMAIN ls : ~ls[i].added /\ ~ls[i].removed /\ ls[i].base # ls[i].head

\* resolve_segments: the filter has_unintended_changes
ShownSegments(ls, filter) ==
    {s \in Segments(ls) : IF filter THEN has_unintended_changes(Slice(ls, s))
                          ELSE has_diff_changes(Slice(ls, s))}

-----------------------------------------------------------------------------
(***************************************************************************)
(* Properties                                                              *)
(***************************************************************************)

\* Types of the counters and the calls of the visitors.
FileTypeOK ==
    /\ script \in Seq(Cells) /\ with_src \in BOOLEAN
    /\ phase \in {"edit", "apply", "done", "error"}
    /\ base_ln \in Nat /\ head_ln \in Nat
    /\ \A i \in DOMAIN visits :
          visits[i] \in [base : Nat \cup {Nothing}, head : Nat \cup {Nothing},
                        value : Nat \cup {Nothing}, is_diff : BOOLEAN]

\* What the visitors shall be told of the k-th line of the two files: its numbers, and
\* its text, which without the source is known in a hunk only
Told(k) ==
    [base |-> IF InBase(k) THEN BaseLines(k) ELSE Nothing,
     head |-> IF InHead(k) THEN HeadLines(k) ELSE Nothing,
     value |-> IF src > 0 \/ InHunk(k) THEN k ELSE Nothing, is_diff |-> InHunk(k)]

\* apply visits the lines of both files once, in order, with their numbers on both
\* sides: with the source all of them, without it at least those of the hunks.  It
\* never pops a line that is not there.
EachLineOnce ==
    /\ phase # "error"
    /\ DOMAIN visits \subseteq DOMAIN script
    /\ \A k \in DOMAIN visits : visits[k] = Told(k)
    /\ phase = "done" =>
         \A k \in DOMAIN script : Told(k).value # Nothing => k \in DOMAIN visits

\* The change summary counts every unchanged line whose coverage changed, lines
\* of the source that begin with a sign excepted: also those between, before and
\* behind the hunks, and those that only the longer of the reports reaches.
SummaryIsTrue ==
    phase = "done" =>
        LET changed == {i \in DOMAIN script :
                /\ script[i].op = "keep"
                /\ src > 0 /\ ~InHunk(i) => ~script[i].signed
                /\ script[i].base # Nothing /\ script[i].head # Nothing
                /\ script[i].base # script[i].head}
        IN \A c \in Coverage :
             change_summary[c] =
                Cardinality({i \in changed : script[i].head = c})
                - Cardinality({i \in changed : script[i].base = c})

\* The header of a segment says which lines of the two files it shows.
HeaderIsTrue ==
    phase = "done" /\ src > 0 =>
        \A s \in Segments(lines) :
            LET part == Slice(lines, s)
                h == SegmentHeader(part)
            IN /\ {part[i].base_ln : i \in DOMAIN part} \ {Nothing}
                    = h.base_start .. (h.base_start + h.base_count - 1)
               /\ {part[i].head_ln : i \in DOMAIN part} \ {Nothing}
                    = h.head_start .. (h.head_start + h.head_count - 1)

\* Segments do not overlap, every line of interest is in one, each shows one, and
\* each is shown under at least one value of the filter.
SegmentsCoverChanges(ls) ==
    /\ \A i \in DOMAIN ls : OfInterest(ls[i]) =>
            \E s \in Segments(ls) : i \in s[1]..s[2]
    /\ \A s, t \in Segments(ls) : s # t => s[2] < t[1] \/ t[2] < s[1]
    /\ \A s \in Segments(ls) : \E filter \in BOOLEAN : s \in ShownSegments(ls, filter)

\* A file of a comparison shows each line of both sides once, and its summary, headers and
\* segments are those of its changes, whatever the edit and whatever the two reports cover.
\* (services/comparison.py:61-611)
FileIsCompared ==
    /\ FileTypeOK /\ EachLineOnce /\ SummaryIsTrue /\ HeaderIsTrue
    /\ phase = "done" => SegmentsCoverChanges(lines)

-----------------------------------------------------------------------------
(***************************************************************************)
(* Comparison.get_file_comparison: which file of the base report a file of *)
(* the head report is compared with.  before gives the old name of each    *)
(* file that the diff says was renamed.                                    *)
(***************************************************************************)
\* bug: a file is looked for under its name only
SameName(base, before, f) == IF f \in base THEN f ELSE Nothing

base_file(base, before, f) ==
    IF f \in base THEN f
    ELSE IF f \in DOMAIN before /\ before[f] \in base THEN before[f] ELSE Nothing

\* Two files are compared with one only where the one has its name, kept or taken anew, and
\* the other was renamed from it; and a renamed file is compared with what it was, unless
\* the base knows its new name: then with the file that had it, as when two files swap.
\* (services/comparison.py:638-647)
RenamesAreFollowed(base, head, before) ==
    LET of(f) == base_file(base, before, f) IN
    /\ \A f, g \in head : f # g /\ of(f) # Nothing /\ of(f) = of(g) => of(f) \in {f, g}
    /\ \A f \in head : f \in DOMAIN before /\ before[f] \in base =>
          of(f) \in {before[f], f} /\ (of(f) = f => f \in base)

-----------------------------------------------------------------------------
(***************************************************************************)
(* The files of a comparison that the worker has computed, as GraphQL      *)
(* lists them: ImpactedFile and ComparisonReport of services/comparison.py *)
(* and the interactor FetchImpactedFiles.                                  *)
(*                                                                         *)
(* A file has a name on each side (Nothing if it is not there), totals     *)
(* [hits, misses, partials] on each side, the coverage of its added and    *)
(* removed lines, the unexpected changes as pairs, and whether the diff    *)
(* added or removed it.  Names are numbers, ordered as strings are.        *)
(***************************************************************************)
\* ImpactedFile.Totals: the percentage as a fraction, none without any line
Percent(t) ==
    IF t = Nothing \/ t.hits + t.misses + t.partials = 0 THEN Nothing
    ELSE <<100 * t.hits, t.hits + t.misses + t.partials>>

Less(x, y) == x[1] * y[2] < y[1] * x[2]
Minus(x, y) == <<x[1] * y[2] - y[1] * x[2], x[2] * y[2]>>

CountOf(s, c) == Cardinality({i \in DOMAIN s : s[i] = c})

has_diff(f) == f.added # <<>> \/ f.removed # <<>> \/ f.new \/ f.gone
has_changes(f) == f.unexpected # <<>>

misses_count(f) ==
    CountOf(f.added, "m") + CountOf([i \in DOMAIN f.unexpected |-> f.unexpected[i][2]], "m")

patch_coverage(f) ==
    IF f.added = <<>> THEN Nothing
    ELSE [hits |-> CountOf(f.added, "h"), misses |-> CountOf(f.added, "m"),
          partials |-> CountOf(f.added, "p")]

\* a percentage of zero is as false as none
Truthy(p) == p # Nothing /\ p[1] # 0
change_coverage(f) ==
    IF Truthy(Percent(f.base)) /\ Truthy(Percent(f.head))
    THEN Minus(Percent(f.head), Percent(f.base)) ELSE Nothing

is_new_file(f) == f.base_name = Nothing /\ f.head_name # Nothing
is_renamed_file(f) ==
    f.base_name # Nothing /\ f.head_name # Nothing /\ f.base_name # f.head_name
is_deleted_file(f) == f.base_name # Nothing /\ f.head_name = Nothing

-----------------------------------------------------------------------------
(***************************************************************************)
(* FetchImpactedFiles                                                      *)
(***************************************************************************)
Parameters == {"file_name", "change_coverage", "head_coverage", "misses_count",
               "patch_coverage"}

\* get_attribute, as a fraction
Attribute(f, parameter) ==
    CASE parameter = "file_name" -> <<f.head_name, 1>>
      [] parameter = "change_coverage" -> change_coverage(f)
      [] parameter = "head_coverage" -> Percent(f.head)
      [] parameter = "misses_count" -> <<misses_count(f), 1>>
      [] parameter = "patch_coverage" -> Percent(patch_coverage(f))

\* the name of a deleted file cannot be split: AttributeError
CanSort(files, parameter) ==
    parameter = "file_name" => \A i \in DOMAIN files : files[i].head_name # Nothing

\* bug: a file without the attribute is sorted as if it were zero
sort_with_zeros(files, parameter, direction) ==
    LET value(i) == IF Attribute(files[i], parameter) = Nothing THEN <<0, 1>>
                    ELSE Attribute(files[i], parameter)
        Before(i, j) ==
            \/ IF direction = "descending" THEN Less(value(j), value(i))
               ELSE Less(value(i), value(j))
            \/ ~Less(value(i), value(j)) /\ ~Less(value(j), value(i)) /\ i < j
        order == SetToSortSeq(DOMAIN files, Before)
    IN [k \in DOMAIN order |-> files[order[k]]]

\* sorted is stable, in both directions
sort_impacted_files(files, parameter, direction) ==
    LET value(i) == Attribute(files[i], parameter)
        with == {i \in DOMAIN files : value(i) # Nothing}
        Before(i, j) ==
            \/ IF direction = "descending" THEN Less(value(j), value(i))
               ELSE Less(value(i), value(j))
            \/ ~Less(value(i), value(j)) /\ ~Less(value(j), value(i)) /\ i < j
        order == SetToSortSeq(with, Before) \o SetToSortSeq(DOMAIN files \ with, <)
    IN [k \in DOMAIN order |-> files[order[k]]]

\* which changes a file shall have; no filter lets every file through
Passes(f, filter) ==
    /\ filter = "unintended" => has_changes(f)
    /\ filter = "direct" => has_diff(f)

FetchImpactedFiles(files, filter, parameter, direction) ==
    LET kept == SelectSeq(files, LAMBDA f : Passes(f, filter))
    IN IF parameter = Nothing THEN kept ELSE sort_impacted_files(kept, parameter, direction)

-----------------------------------------------------------------------------
\* Whatever the order asked for, the list holds the files that the filter lets
\* through, each as often as the worker reported it, sorted by the attribute as
\* far as they have one, and those without it at the end in both directions.
FetchIsSorted(files, filter, parameter, direction) ==
    LET result == FetchImpactedFiles(files, filter, parameter, direction)
        value(i) == Attribute(result[i], parameter)
    IN CanSort(files, parameter) =>
        /\ \A f \in {files[i] : i \in DOMAIN files} \cup {result[i] : i \in DOMAIN result} :
             CountOf(result, f) = IF Passes(f, filter) THEN CountOf(files, f) ELSE 0
        /\ parameter # Nothing => \A i, j \in DOMAIN result : i < j =>
             \/ value(j) = Nothing
             \/ /\ value(i) # Nothing
                /\ IF direction = "descending" THEN ~Less(value(i), value(j))
                   ELSE ~Less(value(j), value(i))
=============================================================================
