------------------------------- MODULE MCSeats -------------------------------
(***************************************************************************)
(* An instance of Seats for TLC, in two modes.  "many": requests of all    *)
(* workers, the core of the actions.  "one": every action, one request at  *)
(* a time.                                                                 *)
(***************************************************************************)
EXTENDS Seats, TLC

VARIABLE mode

TwoOrThree == {2, 3}
Sym == Permutations(Users \ Viewers) \cup Permutations(Workers)

\* bound on the seats sold while many requests are handled at once
ManySeats == 2

MCInit ==
    /\ Init
    /\ \/ mode = "many" /\ member = {} /\ Cardinality(student) <= 1
       \/ mode = "one"

MCNext ==
    /\ UNCHANGED mode
    /\ \/ /\ mode = "many" /\ CoreNext
          /\ \A w \in Workers : job'[w].row.seats <= ManySeats /\ job'[w].then # "answer"
       \/ mode = "one" /\ SerialNext

MCSpec == MCInit /\ [][MCNext]_<<vars, mode>>
=============================================================================
