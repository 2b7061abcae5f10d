------------------------------- MODULE MCUploads -------------------------------
(***************************************************************************)
(* Instances of Uploads for TLC.                                           *)
(***************************************************************************)
EXTENDS Uploads, TLC

BudgetAll == [report |-> 1, request |-> 4]
BudgetReports == [report |-> 2, request |-> 2]
Sym == Permutations(Workers) \cup Permutations(Commits)
=============================================================================
