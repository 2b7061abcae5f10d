---------------------------- MODULE ComparisonQueue ----------------------------
(***************************************************************************)
(* What whoever looks at a comparison relies on: it may be pending only    *)
(* while its computation is owed, and what is owed is computed.            *)
(***************************************************************************)
CONSTANT Keys

VARIABLES
    state,   \* of the comparison of each pair of commits
    owed     \* comparisons whose computation somebody has promised

vars == <<state, owed>>

Init == state = [k \in Keys |-> "none"] /\ owed = {}

\* Some computations are promised, and some of the promised become pending.
Promise ==
    \E more, now \in SUBSET Keys :
        /\ owed' = owed \cup more
        /\ now \subseteq owed'
        /\ state' = [k \in Keys |-> IF k \in now THEN "pending" ELSE state[k]]

\* A computation ends; another of the same comparison may have been promised.
Compute(k) ==
    /\ k \in owed
    /\ state' = [state EXCEPT ![k] = "processed"]
    /\ owed' \in {owed, owed \ {k}}

Next == Promise \/ \E k \in Keys : Compute(k)

Spec == Init /\ [][Next]_vars /\ \A k \in Keys : WF_vars(Compute(k))
=============================================================================
