---------------------------- MODULE ComparisonQuery ----------------------------
(***************************************************************************)
(* One GraphQL query for several comparisons, of pull requests with their  *)
(* bases or of commits with their parents (graphql_api/types/comparison,   *)
(* pull, commit and component_comparison).  The resolvers of the query     *)
(* take turns and share info.context.                                      *)
(*                                                                         *)
(* The report-level totals of a commit are there or not.                   *)
(***************************************************************************)
EXTENDS Absent, Integers, FiniteSets

CONSTANT Compared   \* the comparisons of the query

\* What the constants must be
ComparedAssumption ==
    /\ Nothing # "unasked" /\ Compared \cap {"unasked", "listed", Nothing} = {}

VARIABLES
    row,        \* the row of each: "none" or its state, with the reports it misses
    context,    \* info.context: [comparison, components]
    node        \* what was resolved of each

queryVars == <<row, context, node>>

RowStates == {"none", "pending", "processed", "error", "missing_base_report",
              "missing_head_report"}
Node == [result : {"unasked", "Comparison", "MissingComparison", "MissingBaseReport",
                   "MissingHeadReport"},
         different : {"unasked", Nothing} \cup Compared,
         components : {"unasked", "listed"} \cup Compared]
Unasked == [result |-> "unasked", different |-> "unasked", components |-> "unasked"]

QueryTypeOK ==
    /\ row \in [Compared -> RowStates]
    /\ context \in [comparison : Compared \cup {Nothing}, components : Compared \cup {Nothing}]
    /\ node \in [Compared -> Node]

QueryInit ==
    /\ row \in [Compared -> RowStates]
    /\ context = [comparison |-> Nothing, components |-> Nothing]
    /\ node = [c \in Compared |-> Unasked]

-----------------------------------------------------------------------------
\* validate_commit_comparison; an error other than a missing report leaves the state
Validated(state) ==
    CASE state \in {"none", "error"} -> "MissingComparison"
      [] state = "missing_base_report" -> "MissingBaseReport"
      [] state = "missing_head_report" -> "MissingHeadReport"
      [] OTHER -> "Comparison"

\* bug: the comparison is stored before the worker has processed it
StoredInAnyCase(c) == Validated(row[c]) = "Comparison"

Stored(c) == row[c] = "processed"

\* resolve_compare_with_base, resolve_compare_with_parent: behind the await of the loader
CompareWith(c) ==
    /\ node[c].result = "unasked"
    /\ node' = [node EXCEPT ![c].result = Validated(row[c])]
    /\ context' = IF Stored(c) THEN [context EXCEPT !.comparison = c] ELSE context
    /\ UNCHANGED row

\* resolve_has_different_number_of_head_and_base_reports: whose reports are counted.
\* Without a comparison in the context, or without its reports, the answer is false.
HasDifferent(c) ==
    /\ node[c].result = "Comparison" /\ node[c].different = "unasked"
    /\ node' = [node EXCEPT ![c].different = context.comparison]
    /\ UNCHANGED <<row, context>>

\* resolve_component_comparisons
ListComponents(c) ==
    /\ node[c].result = "Comparison" /\ node[c].components = "unasked"
    /\ node' = [node EXCEPT ![c].components = "listed"]
    /\ context' = [context EXCEPT !.components = c]
    /\ UNCHANGED row

\* resolve_name of a component: whose yaml the name is looked up in
NameComponents(c) ==
    /\ node[c].components = "listed"
    /\ node' = [node EXCEPT ![c].components = context.components]
    /\ UNCHANGED <<row, context>>

QueryNext ==
    \E c \in Compared : CompareWith(c) \/ HasDifferent(c) \/ ListComponents(c) \/ NameComponents(c)

QuerySpec == QueryInit /\ [][QueryNext]_queryVars

-----------------------------------------------------------------------------
\* What is said of a comparison is about itself if the query asks for one comparison
\* at most.  With several, a comparison whose row is processed is at least not told
\* that nothing differs because none was looked at, and what is counted is always a
\* comparison that the worker has processed, never one that it could not compute.
AnswersAreAboutProcessed ==
    \A c \in Compared :
        LET others == {d \in Compared \ {c} : node[d].result # "unasked"} IN
        /\ node[c].different \in Compared => row[node[c].different] = "processed"
        /\ node[c].different = Nothing => row[c] # "processed"
        /\ others = {} => /\ node[c].different \in {"unasked", Nothing, c}
                          /\ node[c].components \in {"unasked", "listed", c}

-----------------------------------------------------------------------------
(* The inductive invariant *)

\* What the context names was processed and asked for.
ContextIsAsked ==
    /\ context.comparison # Nothing =>
          row[context.comparison] = "processed" /\ node[context.comparison].result # "unasked"
    /\ context.components # Nothing => node[context.components].result # "unasked"

\* What was said of c came out of a context, to which c had added what it has.
AnswersOf(c) ==
    /\ node[c].result # "unasked" /\ row[c] = "processed" => context.comparison # Nothing
    /\ node[c].components # "unasked" => node[c].result # "unasked" /\ context.components # Nothing
    /\ node[c].different = Nothing => row[c] # "processed"
    /\ node[c].different \in Compared =>
          row[node[c].different] = "processed" /\ node[node[c].different].result # "unasked"
    /\ node[c].components \in Compared => node[node[c].components].result # "unasked"

QueryInv == QueryTypeOK /\ ContextIsAsked /\ \A c \in Compared : AnswersOf(c)
=============================================================================
