-------------------------- MODULE MCSelfHostedSeats --------------------------
(***************************************************************************)
(* An instance of SelfHostedSeats for TLC, in two modes.  "pool": requests *)
(* of all workers, on one organization.  "serial": one request at a time,  *)
(* the saves that put back a list of seats included.                       *)
(***************************************************************************)
EXTENDS SelfHostedSeats, TLC

VARIABLE mode

\* bound on the organizations while requests are handled at once
PoolOrgs == 1

Sym == Permutations(Users) \cup Permutations(Workers) \cup Permutations(Orgs)

MCInit == Init /\ mode \in {"pool", "serial"}

MCNext ==
    /\ UNCHANGED mode
    /\ \/ mode = "pool" /\ Next /\ Cardinality(rows' \cap Orgs) <= PoolOrgs
       \/ mode = "serial" /\ SerialNext

MCSpec == MCInit /\ [][MCNext]_<<vars, mode>>

\* The license is kept by requests that are handled one at a time: the count of
\* the seats and the UPDATE then belong together (activate_owner).
SerialWithinLicense == mode = "serial" => WithinLicense
=============================================================================
