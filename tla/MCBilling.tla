------------------------------ MODULE MCBilling ------------------------------
(***************************************************************************)
(* Instances of Billing for TLC: what admins ask for and what is bounded.  *)
(***************************************************************************)
EXTENDS Billing, TLC

T(p, q) == [plan |-> p, qty |-> q]

B(req, trial, seat, invoice, staff, dup, crash) ==
    [req |-> req, trial |-> trial, seat |-> seat, invoice |-> invoice,
     staff |-> staff, dup |-> dup, crash |-> crash]

\* up, down, longer term, free, and plans with a trial
WantsCore == {T("users-pr-inappm", 2), T("users-pr-inappm", 3),
              T("users-pr-inappy", 2), T(BasicPlan, 1)}
WantsOrdered == WantsCore \cup {T("users-sentryy", 2)}
BudgetOrdered == B(3, 0, 0, 0, 0, 1, 1)
StaffLegacy == {"users-inappm"}
NoStaff == {}

\* the same with trials, invoices and staff edits instead of repetitions and crashes
BudgetTrial == B(2, 1, 0, 2, 1, 0, 0)
OrderedInit == Blank /\ budget \in {Budget, BudgetTrial}
OrderedSpec == OrderedInit /\ [][Next]_vars

\* one worker, any order, and an answer that does not reach Stripe
BudgetLate == B(3, 0, 1, 0, 0, 1, 0)

\* two workers, any order
WantsRace == {T("users-pr-inappm", 2), T("users-pr-inappm", 3), T(BasicPlan, 1)}
BudgetRace == B(2, 0, 0, 0, 0, 1, 0)
Sym == Permutations(Workers) \cup Permutations(Subs)

=============================================================================
