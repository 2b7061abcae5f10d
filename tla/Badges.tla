-------------------------------- MODULE Badges --------------------------------
(***************************************************************************)
(* Badges and graphs of a repository (graphs/): which commit they are of,  *)
(* who may see them, and how the graphs divide their frame among the files *)
(* of a report.  Lengths are exact fractions here.                         *)
(*                                                                         *)
(* An item of a graph is [lines, children]: a file has none, a directory   *)
(* as many lines as its children together.                                 *)
(***************************************************************************)
EXTENDS Absent, Integers, Sequences, SequencesExt

-----------------------------------------------------------------------------
(* BadgeHandler, GraphHandler *)

\* The row of a repository: [private, branch, heads, commits], where heads gives the commit
\* of each branch and commits those that there are: id |-> [c, flags], c Nothing without
\* totals, flags Nothing without a report.  A request: [repo, token, branch, commit, pull,
\* flag, flares], with Nothing for what is not given; token is whether the right one is,
\* flares the pulls that have a stored graph.

NamedBranch(i) == IF i.branch = Nothing THEN i.repo.branch ELSE i.branch

HeadOf(i) == IF NamedBranch(i) \in DOMAIN i.repo.heads THEN i.repo.heads[NamedBranch(i)] ELSE Nothing

Known(i, id) == IF id \in DOMAIN i.repo.commits THEN id ELSE Nothing

\* bug: the token is not compared
EveryoneSees(i) == i.repo # Nothing

Sees(i) == i.repo # Nothing /\ (i.repo.private => i.token)

flag_coverage(i, commit) ==
    LET flags == i.repo.commits[commit].flags
    IN IF flags = Nothing THEN Nothing
       ELSE IF i.flag \in DOMAIN flags THEN flags[i.flag] ELSE Nothing

\* Nothing is the gray badge that says unknown.
get_coverage(i) ==
    LET commit == IF Sees(i) THEN Known(i, HeadOf(i)) ELSE Nothing
    IN IF commit = Nothing THEN Nothing
       ELSE IF i.flag # Nothing THEN flag_coverage(i, commit) ELSE i.repo.commits[commit].c

\* bug: the branch that is asked for is forgotten
OfDefault(i) ==
    IF ~Sees(i) THEN Nothing
    ELSE Known(i, IF i.commit # Nothing THEN i.commit
                  ELSE IF i.repo.branch \in DOMAIN i.repo.heads THEN i.repo.heads[i.repo.branch] ELSE Nothing)

get_commit(i) ==
    IF ~Sees(i) THEN Nothing
    ELSE Known(i, IF i.commit # Nothing THEN i.commit ELSE HeadOf(i))

\* What the graph is made of: a stored flare, a commit, or Nothing when it is refused.
\* A pull without a flare, or one that there is not, has the graph of the default branch.
get_flare(i) ==
    IF i.pull # Nothing /\ i.repo # Nothing /\ i.pull \in i.flares
    THEN <<"flare", i.pull>>
    ELSE IF get_commit(i) = Nothing THEN Nothing ELSE <<"commit", get_commit(i)>>

-----------------------------------------------------------------------------
(* Fractions: <<n, d>>, in lowest terms *)

RECURSIVE Gcd(_, _)
Gcd(m, n) == IF n = 0 THEN m ELSE Gcd(n, m % n)

\* Nothing divided by zero is an error of TLC's, as it is of the program's.
Frac(n, d) == LET g == Gcd(n, d) IN <<n \div g, d \div g>>
Plus(x, y) == Frac(x[1] * y[2] + y[1] * x[2], x[2] * y[2])
Minus(x, y) == Frac(x[1] * y[2] - y[1] * x[2], x[2] * y[2])
Times(x, y) == Frac(x[1] * y[1], x[2] * y[2])
Over(x, y) == Frac(x[1] * y[2], x[2] * y[1])
AtMost(x, y) == x[1] * y[2] <= y[1] * x[2]
Zero == <<0, 1>>

Total(xs) == FoldLeft(Plus, Zero, xs)
TotalLines(items) == FoldLeft(LAMBDA n, item : n + item.lines, 0, items)

-----------------------------------------------------------------------------
(* graph_utils.py and tree; a rectangle is [left, top, width, height] *)

Wide(r) == AtMost(r.height, r.width)

\* A column of rectangles at the left, or a row at the top
Laid(lengths, across, r) ==
    LET before(k) == Total(SubSeq(lengths, 1, k - 1))
    IN [k \in DOMAIN lengths |->
          IF Wide(r)
          THEN [left |-> r.left, top |-> Plus(r.top, before(k)), width |-> across, height |-> lengths[k]]
          ELSE [left |-> Plus(r.left, before(k)), top |-> r.top, width |-> lengths[k], height |-> across]]

Across(areas, r) == Over(Total(areas), IF Wide(r) THEN r.height ELSE r.width)

LayoutRectangles(areas, r) ==
    LET along(across) == Laid([k \in DOMAIN areas |-> Over(areas[k], across)], across, r)
    IN along(Across(areas, r))

\* bug: the space that is left begins where the column did
LeftoverInPlace(across, r) ==
    IF Wide(r) THEN [r EXCEPT !.width = Minus(@, across)] ELSE [r EXCEPT !.height = Minus(@, across)]

Leftover(across, r) ==
    IF Wide(r) THEN [r EXCEPT !.left = Plus(@, across), !.width = Minus(@, across)]
    ELSE [r EXCEPT !.top = Plus(@, across), !.height = Minus(@, across)]

Larger(x, y) == IF AtMost(x, y) THEN y ELSE x

max_aspect_ratio(r) ==
    LET ratio(x, y) == IF y = Zero THEN Zero ELSE Over(x, y)
    IN Larger(ratio(r.width, r.height), ratio(r.height, r.width))

worst_ratio(areas, r) ==
    FoldLeft(LAMBDA w, s : Larger(w, max_aspect_ratio(s)), Zero, LayoutRectangles(areas, r))

\* How many go into the first column or row: until one more would be worse
RECURSIVE InFirst(_, _, _)
InFirst(areas, r, n) ==
    IF n < Len(areas) /\ AtMost(worst_ratio(SubSeq(areas, 1, n + 1), r), worst_ratio(SubSeq(areas, 1, n), r))
    THEN InFirst(areas, r, n + 1) ELSE n

RECURSIVE squarify(_, _)
squarify(areas, r) ==
    LET beginning(first) ==
            LayoutRectangles(first, r)
            \o squarify(SubSeq(areas, Len(first) + 1, Len(areas)), Leftover(Across(first, r), r))
    IN IF areas = <<>> THEN <<>> ELSE beginning(SubSeq(areas, 1, InFirst(areas, r, 1)))

\* The largest first, of equal ones the earlier
Descending(items) ==
    LET order == SetToSortSeq(DOMAIN items, LAMBDA j, k : \/ items[j].lines > items[k].lines
                                                          \/ items[j].lines = items[k].lines /\ j < k)
    IN [k \in DOMAIN items |-> items[order[k]]]

\* The rectangles of the files: [lines, at]
RECURSIVE tree(_, _)
tree(items, r) ==
    LET total == TotalLines(items)
        area(item) == Over(Times(<<item.lines, 1>>, Times(r.width, r.height)), <<total, 1>>)
        placed(item, at) ==
            IF item.children # <<>> THEN tree(item.children, at)
            ELSE <<[lines |-> item.lines, at |-> at]>>
        each(sorted, rectangles) == [k \in DOMAIN sorted |-> placed(sorted[k], rectangles[k])]
        all(sorted) == each(sorted, squarify([k \in DOMAIN sorted |-> area(sorted[k])], r))
    IN IF total = 0 THEN <<>> ELSE FlattenSeq(all(Descending(items)))

-----------------------------------------------------------------------------
(* icicle, whose strips are rectangles, and sunburst, whose strips are arcs *)

\* bug: the height of the first subtree
RECURSIVE FirstHeight(_)
FirstHeight(items) == IF items = <<>> THEN 0 ELSE 1 + FirstHeight(items[1].children)

RECURSIVE tree_height(_)
tree_height(items) ==
    IF items = <<>> THEN 0
    ELSE 1 + FoldLeft(LAMBDA n, item : IF n < tree_height(item.children)
                                       THEN tree_height(item.children) ELSE n, 0, items)

\* The strips of the items between start and end, and those of their children on the next
\* level: [level, start, end, lines]
RECURSIVE strips(_, _, _, _)
strips(items, level, start, end) ==
    LET total == TotalLines(items)
        width(k) == Over(Times(<<items[k].lines, 1>>, Minus(end, start)), <<total, 1>>)
        from(k) == Plus(start, Total([j \in 1..k - 1 |-> width(j)]))
        to(k) == Plus(from(k), width(k))
    IN IF total = 0 THEN <<>>
       ELSE FlattenSeq([k \in DOMAIN items |->
              <<[level |-> level, start |-> from(k), end |-> to(k), lines |-> items[k].lines]>>
              \o strips(items[k].children, level + 1, from(k), to(k))])

\* The strips as they are drawn, in a frame that is one wide and one high
Scaled(all, height) ==
    [k \in DOMAIN all |->
        [start |-> all[k].start, end |-> all[k].end, lines |-> all[k].lines,
         top |-> Frac(all[k].level, height), bottom |-> Frac(all[k].level + 1, height)]]

Drawn(items) == Scaled(strips(items, 0, Zero, <<1, 1>>), tree_height(items))

-----------------------------------------------------------------------------
(* Properties *)

\* Without the token nothing of a private repository is seen on a badge or in a graph,
\* except the stored graph of a pull, which is given to everyone.
\* (graphs/views.py:85-90, 212-229)
TokenIsNeeded(i) ==
    i.repo # Nothing /\ i.repo.private /\ ~i.token =>
        /\ get_coverage(i) = Nothing
        /\ get_flare(i) \in {Nothing, <<"flare", i.pull>>}

\* The badge and the graph of a branch are of one commit, its head: where there is a badge
\* there is a graph, and who is refused the graph sees no coverage of any flag.
BadgeHasGraph(i) ==
    i.commit = Nothing /\ i.pull = Nothing /\ get_coverage(i) # Nothing =>
        /\ get_flare(i) = <<"commit", HeadOf(i)>>
        /\ LET commit == i.repo.commits[HeadOf(i)]
           IN get_coverage(i) = IF i.flag = Nothing THEN commit.c ELSE commit.flags[i.flag]

Apart(s, t) ==
    \/ AtMost(Plus(s.left, s.width), t.left) \/ AtMost(Plus(t.left, t.width), s.left)
    \/ AtMost(Plus(s.top, s.height), t.top) \/ AtMost(Plus(t.top, t.height), s.top)

\* The rectangles of the tree graph divide the frame: one for each file of a directory that
\* has lines, within the frame, none over another, each as large as its share of the lines.
\* Nothing is divided by zero, although files may have no lines. (graph_utils.py:18-59)
FilesTileTheFrame(items, width, height) ==
    LET frame == [left |-> Zero, top |-> Zero, width |-> <<width, 1>>, height |-> <<height, 1>>]
        inside(at) ==
            /\ AtMost(Zero, at.left) /\ AtMost(Plus(at.left, at.width), frame.width)
            /\ AtMost(Zero, at.top) /\ AtMost(Plus(at.top, at.height), frame.height)
        tiled(drawn, lines) ==
            /\ \A k \in DOMAIN drawn :
                  /\ inside(drawn[k].at)
                  /\ Times(drawn[k].at.width, drawn[k].at.height)
                       = Frac(drawn[k].lines * width * height, lines)
            /\ \A k, j \in DOMAIN drawn :
                  k # j /\ drawn[k].lines # 0 /\ drawn[j].lines # 0 => Apart(drawn[k].at, drawn[j].at)
            /\ TotalLines(drawn) = lines
    IN tiled(tree(items, frame), TotalLines(items))

\* The strips of icicle and sunburst stay in their frame, and those of one level are apart;
\* each is as wide as its share of all the lines, and is drawn below one that contains it,
\* its directory's. (graphs.py:108-130, 154-180)
StripsNest(items) ==
    LET within(s, t) == AtMost(t.start, s.start) /\ AtMost(s.end, t.end)
        nested(drawn) == \A k \in DOMAIN drawn :
          /\ AtMost(drawn[k].bottom, <<1, 1>>)
          /\ Minus(drawn[k].end, drawn[k].start) = Frac(drawn[k].lines, TotalLines(items))
          /\ drawn[k].top = Zero
             \/ \E j \in 1..k - 1 : drawn[j].bottom = drawn[k].top /\ within(drawn[k], drawn[j])
          /\ \A j \in 1..k - 1 : drawn[j].top = drawn[k].top => AtMost(drawn[j].end, drawn[k].start)
    IN nested(Drawn(items))
=============================================================================
