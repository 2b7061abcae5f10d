------------------------------- MODULE SeatPool -------------------------------
(***************************************************************************)
(* What a seat license promises: a pool of Capacity seats, each taken and  *)
(* given back by one user at a time.                                       *)
(***************************************************************************)
EXTENDS Naturals, FiniteSets

CONSTANTS Users, Capacity

VARIABLE used   \* who holds a seat

Init == used = {}

Take(u) ==
    /\ u \notin used
    /\ used' = used \cup {u}
    /\ Cardinality(used') <= Capacity

GiveBack(u) == u \in used /\ used' = used \ {u}

Next == \E u \in Users : Take(u) \/ GiveBack(u)

Spec == Init /\ [][Next]_used
=============================================================================
