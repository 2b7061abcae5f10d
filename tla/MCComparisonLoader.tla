-------------------------- MODULE MCComparisonLoader --------------------------
(***************************************************************************)
(* Instances of ComparisonLoader for TLC: three commits in a line, each    *)
(* compared with its parent.                                               *)
(***************************************************************************)
EXTENDS ComparisonLoader

Line == {<<"a", "b">>, <<"b", "c">>}
B(ask, write) == [ask |-> ask, write |-> write]
BudgetSmall == B(2, 1)
BudgetLate == B(2, 1)
NoLate == {}
=============================================================================
