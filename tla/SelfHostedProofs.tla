--------------------------- MODULE SelfHostedProofs ---------------------------
(***************************************************************************)
(* Proofs about SelfHostedSeats, for any number of workers, users and      *)
(* organizations and any license: the instance never uses more seats than  *)
(* the license and the other workers' simultaneous decisions allow.        *)
(*                                                                         *)
(* Counting the holders alone is not inductive: a worker that has counted  *)
(* the seats will take one later, whatever happens in between.  The        *)
(* invariant counts holders and those about to become holders TOGETHER; a  *)
(* decision is made below the limit, and at most one per worker is open.   *)
(***************************************************************************)
EXTENDS MCSelfHostedSeats, FiniteSetTheorems, TLAPS

\* A busy worker works for a user, activates only one that has a row, and saves
\* a row that is there.
JobOK(j) ==
    /\ j.pc \notin {"idle", "save"} => j.user \in Users
    /\ j.pc \in {"can", "recheck", "update"} => j.user \in rows
    /\ j.pc = "save" => j.owner \in rows

Spoken == Activated \cup Counted

Capacity == Limit + Cardinality(Workers) - 1

WithinCapacity == Cardinality(Spoken) <= Capacity

Inv ==
    /\ TypeOK
    /\ \A w \in Workers : JobOK(job[w])
    /\ WithinCapacity

\* The rows that are saved whole are those of users (Next, not RemovalNext).
UserRows == \A w \in Workers : job[w].pc = "save" => job[w].owner \notin Orgs

-----------------------------------------------------------------------------
LEMMA CapacityNat == Capacity \in Nat
<1>1. Cardinality(Workers) \in Nat /\ Cardinality(Workers) # 0
  BY WorkersAssumption, FS_CardinalityType, FS_EmptySet
<1>2. QED
  BY <1>1, LimitAssumption DEF Capacity

\* Seats are few: the sets that are counted are finite.
LEMMA Finite ==
    ASSUME NEW S, S \subseteq Users
    PROVE  IsFiniteSet(S) /\ Cardinality(S) \in Nat
  BY UsersAssumption, FS_Subset, FS_CardinalityType

\* Set S in place of a larger set within capacity stays within capacity.
LEMMA Shrinks ==
    ASSUME NEW T, T \subseteq Users, NEW S, S \subseteq T,
           Cardinality(T) <= Capacity
    PROVE  Cardinality(S) <= Capacity
<1>1. IsFiniteSet(T) /\ Cardinality(T) \in Nat /\ Cardinality(S) \in Nat
  BY Finite
<1>2. Cardinality(S) <= Cardinality(T)
  BY <1>1, FS_Subset
<1>3. QED
  BY <1>1, <1>2, CapacityNat

\* At most one open decision per worker.
LEMMA FewDecisions ==
    ASSUME NEW j, NEW W, W \subseteq Workers
    PROVE  /\ IsFiniteSet({j[w].user : w \in W})
           /\ Cardinality({j[w].user : w \in W}) \in Nat
           /\ Cardinality({j[w].user : w \in W}) <= Cardinality(Workers)
<1> DEFINE T == {j[w].user : w \in W}
<1> DEFINE f == [w \in W |-> j[w].user]
<1>1. IsFiniteSet(W) /\ Cardinality(W) <= Cardinality(Workers)
  BY WorkersAssumption, FS_Subset
<1>2. f \in Surjection(W, T)
  BY DEF Surjection
<1> HIDE DEF f
<1>3. IsFiniteSet(T) /\ Cardinality(T) <= Cardinality(W)
  BY <1>1, <1>2, FS_Surjection
<1>4. Cardinality(T) \in Nat /\ Cardinality(W) \in Nat /\ Cardinality(Workers) \in Nat
  BY <1>1, <1>3, WorkersAssumption, FS_CardinalityType
<1> HIDE DEF T
<1>5. Cardinality(T) <= Cardinality(Workers)
  BY <1>1, <1>3, <1>4
<1>6. QED
  BY <1>3, <1>4, <1>5 DEF T

\* Holders and open decisions are users.
LEMMA SpokenUsers ==
    ASSUME TypeOK, \A w \in Workers : JobOK(job[w])
    PROVE  /\ Activated \subseteq Users /\ Counted \subseteq Users
           /\ Activated \subseteq rows
<1>1. Activated \subseteq Users /\ Activated \subseteq rows
  BY DEF TypeOK, Activated
<1>2. Counted \subseteq Users
  BY DEF Counted, JobOK
<1>3. QED
  BY <1>1, <1>2

-----------------------------------------------------------------------------
(* A step of a worker that leaves the seats alone and is not a decision *)
LEMMA QuietStep ==
    ASSUME Inv, NEW w \in Workers, NEW j, j \in Job,
           j.pc # "update",
           job' = [job EXCEPT ![w] = j],
           activated' = activated
    PROVE  /\ job' \in [Workers -> Job]
           /\ Counted' \subseteq Counted
           /\ WithinCapacity'
<1>1. job' \in [Workers -> Job]
  BY DEF Inv, TypeOK
<1>2. Counted' \subseteq Counted
  <2> SUFFICES ASSUME NEW x \in Workers, job'[x].pc = "update"
               PROVE  job'[x].user \in Counted
    BY DEF Counted
  <2>1. x # w
    BY DEF Inv, TypeOK
  <2>2. QED
    BY <2>1 DEF Counted, Inv, TypeOK
<1>3. Spoken' \subseteq Spoken
  BY <1>2 DEF Spoken, Activated
<1>4. QED
  BY <1>1, <1>2, <1>3, SpokenUsers, Shrinks DEF Inv, WithinCapacity, Spoken, Capacity

\* A decision: the seats have been counted and one was left, or the user holds
\* one already.
LEMMA DecisionStep ==
    ASSUME Inv, NEW w \in Workers, job[w].pc = "recheck",
           CanActivateOwner(job[w].user), Goto(w, "update"),
           activated' = activated
    PROVE  WithinCapacity'
<1> DEFINE u == job[w].user
<1>1. Counted' \subseteq Counted \cup {u}
  BY DEF Goto, Counted, Inv, TypeOK, Job
<1>2. Activated' = Activated
  BY DEF Activated
<1>3. u \in Users /\ Activated \subseteq Users /\ Counted \subseteq Users
  BY SpokenUsers DEF Inv, JobOK
<1>4. CASE u \in Activated
  <2>1. Spoken' \subseteq Spoken
    BY <1>1, <1>2, <1>4 DEF Spoken
  <2>2. QED
    BY <1>3, <2>1, Shrinks DEF Inv, WithinCapacity, Spoken, Capacity
<1>5. CASE u \notin Activated
  <2>1. Cardinality(Activated) < Limit
    BY <1>5 DEF CanActivateOwner
  <2>2. /\ IsFiniteSet(Counted') /\ Cardinality(Counted') \in Nat
        /\ Cardinality(Counted') <= Cardinality(Workers)
    <3>1. {x \in Workers : job'[x].pc = "update"} \subseteq Workers
      OBVIOUS
    <3>2. QED
      BY <3>1, FewDecisions DEF Counted
  <2>3. IsFiniteSet(Activated) /\ Cardinality(Activated) \in Nat
    BY <1>3, Finite
  <2>4. Cardinality(Activated \cup Counted')
           = Cardinality(Activated) + Cardinality(Counted')
             - Cardinality(Activated \cap Counted')
    BY <2>2, <2>3, FS_Union
  <2>5. Cardinality(Activated \cap Counted') \in Nat
    BY <2>3, FS_Intersection, FS_CardinalityType
  <2>6. Cardinality(Workers) \in Nat
    BY WorkersAssumption, FS_CardinalityType
  <2>7. Cardinality(Activated \cup Counted') <= Limit + Cardinality(Workers) - 1
    BY <2>1, <2>2, <2>3, <2>4, <2>5, <2>6, LimitAssumption
  <2>8. QED
    BY <1>2, <2>7 DEF WithinCapacity, Spoken, Capacity
<1>6. QED
  BY <1>4, <1>5

-----------------------------------------------------------------------------
(* Every step preserves the invariant. *)

\* Rows come, flags and organizations change, and w goes on to j.
LEMMA OtherStep ==
    ASSUME Inv, NEW w \in Workers, NEW j, j \in Job, j.pc # "update",
           job' = [job EXCEPT ![w] = j], activated' = activated,
           rows \subseteq rows', rows' \subseteq Owners, auto' \subseteq rows',
           orgsOf' \in [Users -> SUBSET Orgs],
           \A u \in Users : orgsOf'[u] \subseteq rows',
           setting' \in BOOLEAN,
           j.orgs \cup j.holders \subseteq rows',
           j.pc \notin {"idle", "save"} => j.user \in Users,
           j.pc \in {"can", "recheck"} => j.user \in rows',
           j.pc = "save" => j.owner \in rows'
    PROVE  Inv'
<1>1. job' \in [Workers -> Job] /\ WithinCapacity'
  BY QuietStep
<1>2. \A x \in Workers : job'[x] = IF x = w THEN j ELSE job[x]
  BY DEF Inv, TypeOK
<1>3. TypeOK'
  <2>1. \A o \in Orgs : activated[o] \subseteq rows' /\ (o \notin rows' => activated[o] = {})
    BY DEF Inv, TypeOK
  <2>2. \A x \in Workers : job'[x].orgs \cup job'[x].holders \subseteq rows'
    BY <1>2 DEF Inv, TypeOK
  <2>3. activated \in [Orgs -> SUBSET Users]
    BY DEF Inv, TypeOK
  <2>4. QED
    BY <1>1, <2>1, <2>2, <2>3 DEF TypeOK, Owners
<1>4. \A x \in Workers : JobOK(job[x])'
  BY <1>2 DEF Inv, JobOK
<1>5. QED
  BY <1>1, <1>3, <1>4 DEF Inv

LEMMA NoJobOK == NoJob \in Job /\ NoJob.pc = "idle" /\ NoJob.orgs = {} /\ NoJob.holders = {}
  BY DEF NoJob, Job

\* The steps of a request before its UPDATE, its refusal, and the decision.
LEMMA RequestStep ==
    ASSUME Inv, NEW w \in Workers,
           \/ CanActivateUser(w) \/ Recheck(w)
           \/ \E u \in Users : AutoActivate(w, u) \/ AskActivate(w, u)
    PROVE  Inv'
<1>1. ASSUME NEW pc, pc \in {"can", "recheck"}, NEW u \in Users, u \in rows,
             Begin(w, pc, u, orgsOf[u]),
             UNCHANGED <<rows, activated, auto, orgsOf, setting>>
      PROVE  Inv'
  <2> DEFINE j == [NoJob EXCEPT !.pc = pc, !.user = u, !.orgs = orgsOf[u]]
  <2>1. /\ j \in Job /\ j.pc = pc /\ j.user = u
        /\ j.orgs \cup j.holders \subseteq rows
    BY <1>1 DEF NoJob, Job, Inv, TypeOK
  <2>2. job' = [job EXCEPT ![w] = j]
    BY <1>1 DEF Begin
  <2> HIDE DEF j
  <2>3. QED
    BY <1>1, <2>1, <2>2, OtherStep DEF Inv, TypeOK
<1>2. ASSUME Idle(w), UNCHANGED <<rows, activated, auto, orgsOf, setting>>
      PROVE  Inv'
  BY <1>2, NoJobOK, OtherStep DEF Idle, Inv, TypeOK
<1>3. CASE CanActivateUser(w)
  <2>1. CASE Goto(w, "recheck")
    <3> DEFINE j == [job[w] EXCEPT !.pc = "recheck"]
    <3>1. /\ j \in Job /\ j.pc = "recheck" /\ j.user = job[w].user
          /\ j.orgs \cup j.holders \subseteq rows
      BY DEF Job, Inv, TypeOK
    <3>2. job[w].user \in Users /\ job[w].user \in rows
      BY <1>3 DEF CanActivateUser, Inv, JobOK
    <3>3. job' = [job EXCEPT ![w] = j]
      BY <2>1 DEF Goto, Inv, TypeOK
    <3> HIDE DEF j
    <3>4. QED
      BY <1>3, <3>1, <3>2, <3>3, OtherStep DEF CanActivateUser, Inv, TypeOK
  <2>2. QED
    BY <1>2, <1>3, <2>1 DEF CanActivateUser
<1>4. CASE Recheck(w)
  <2>1. CASE CanActivateOwner(job[w].user) /\ Goto(w, "update")
    <3> DEFINE j == [job[w] EXCEPT !.pc = "update"]
    <3>1. /\ j \in Job /\ j.pc = "update" /\ j.user = job[w].user
          /\ j.orgs \cup j.holders \subseteq rows
      BY DEF Job, Inv, TypeOK
    <3>2. job[w].user \in Users /\ job[w].user \in rows
      BY <1>4 DEF Recheck, Inv, JobOK
    <3>3. job' = [job EXCEPT ![w] = j]
      BY <2>1 DEF Goto, Inv, TypeOK
    <3>4. WithinCapacity'
      BY <1>4, <2>1, DecisionStep DEF Recheck
    <3> HIDE DEF j
    <3>5. job' \in [Workers -> Job]
          /\ \A x \in Workers : job'[x] = IF x = w THEN j ELSE job[x]
      BY <3>1, <3>3 DEF Inv, TypeOK
    <3>6. TypeOK'
      BY <1>4, <3>1, <3>5 DEF Recheck, Inv, TypeOK, Owners
    <3>7. \A x \in Workers : JobOK(job[x])'
      BY <1>4, <3>1, <3>2, <3>5 DEF Recheck, Inv, JobOK
    <3>8. QED
      BY <3>4, <3>6, <3>7 DEF Inv
  <2>2. QED
    BY <1>2, <1>4, <2>1 DEF Recheck
<1>5. QED
  BY <1>1, <1>3, <1>4 DEF AutoActivate, AskActivate

\* The UPDATE gives a seat to a user who was spoken for.
LEMMA ActivateStep ==
    ASSUME Inv, NEW w \in Workers, ActivateOwner(w)
    PROVE  Inv'
<1> DEFINE u == job[w].user
<1>1. u \in Users /\ u \in rows /\ u \in Counted
  BY DEF ActivateOwner, Inv, JobOK, Counted
<1>2. /\ activated' \in [Orgs -> SUBSET Users]
      /\ \A o \in Orgs : activated'[o] \subseteq activated[o] \cup {u}
      /\ \A o \in Orgs : o \notin rows => activated'[o] = activated[o]
  BY <1>1 DEF ActivateOwner, Inv, TypeOK
<1>3. job' = [job EXCEPT ![w] = NoJob]
  BY DEF ActivateOwner, Idle
<1>4. \A x \in Workers : job'[x] = IF x = w THEN NoJob ELSE job[x]
  BY <1>3 DEF Inv, TypeOK
<1>5. TypeOK'
  <2>1. job' \in [Workers -> Job]
    BY <1>3, NoJobOK DEF Inv, TypeOK
  <2>2. \A x \in Workers : job'[x].orgs \cup job'[x].holders \subseteq rows
    BY <1>4, NoJobOK DEF Inv, TypeOK
  <2>3. \A o \in Orgs : activated'[o] \subseteq rows /\ (o \notin rows => activated'[o] = {})
    BY <1>1, <1>2 DEF Inv, TypeOK
  <2>4. QED
    BY <1>2, <2>1, <2>2, <2>3 DEF ActivateOwner, Inv, TypeOK, Owners
<1>6. \A x \in Workers : JobOK(job[x])'
  BY <1>4, NoJobOK DEF ActivateOwner, Inv, JobOK
<1>7. WithinCapacity'
  <2>1. Activated' \subseteq Activated \cup {u}
    BY <1>2 DEF Activated
  <2>2. Counted' \subseteq Counted
    <3>1. \A x \in Workers : job'[x].pc = "update" => job'[x] = job[x]
      BY <1>4, NoJobOK
    <3>2. QED
      BY <3>1 DEF Counted
  <2>3. Spoken' \subseteq Spoken
    BY <1>1, <2>1, <2>2 DEF Spoken
  <2>4. QED
    BY <2>3, SpokenUsers, Shrinks DEF Inv, WithinCapacity, Spoken, Capacity
<1>8. QED
  BY <1>5, <1>6, <1>7 DEF Inv

LEMMA DeactivateStep ==
    ASSUME Inv, NEW w \in Workers, NEW u \in Users, DeactivateOwner(w, u)
    PROVE  Inv'
<1>1. activated' \in [Orgs -> SUBSET Users]
      /\ \A o \in Orgs : activated'[o] = activated[o] \ {u}
  BY DEF DeactivateOwner, Inv, TypeOK
<1>2. TypeOK' /\ \A x \in Workers : JobOK(job[x])'
  BY <1>1 DEF DeactivateOwner, Inv, TypeOK, JobOK, Owners
<1>3. Activated' \subseteq Activated
  BY <1>1 DEF Activated
<1>4. Counted' = Counted
  BY DEF DeactivateOwner, Counted
<1>5. WithinCapacity'
  BY <1>3, <1>4, SpokenUsers, Shrinks DEF Inv, WithinCapacity, Spoken, Capacity
<1>6. QED
  BY <1>2, <1>5 DEF Inv

\* Settings and SyncTeams do not touch the seats.
LEMMA AsideStep ==
    ASSUME Inv,
           \/ \E w \in Workers : Settings(w)
           \/ \E u \in Users : SyncTeams(u)
    PROVE  Inv'
<1>1. UNCHANGED <<rows, activated, job>> /\ auto' \subseteq rows /\ setting' \in BOOLEAN
  BY DEF Settings, EnableAutoactivation, DisableAutoactivation, SyncTeams, Inv, TypeOK
<1>2. orgsOf' \in [Users -> SUBSET Orgs] /\ \A u \in Users : orgsOf'[u] \subseteq rows
  BY DEF Settings, EnableAutoactivation, DisableAutoactivation, SyncTeams, Inv, TypeOK
<1>3. TypeOK' /\ \A x \in Workers : JobOK(job[x])'
  BY <1>1, <1>2 DEF Inv, TypeOK, JobOK, Owners
<1>4. WithinCapacity'
  BY <1>1 DEF Inv, WithinCapacity, Spoken, Activated, Counted, Capacity
<1>5. QED
  BY <1>3, <1>4 DEF Inv

LEMMA LoginStep ==
    ASSUME Inv, NEW w \in Workers, Logging(w)
    PROVE  Inv'
<1>1. CASE CheckUserCount(w)
  <2>1. CASE Goto(w, "owner")
    <3> DEFINE j == [job[w] EXCEPT !.pc = "owner"]
    <3>1. /\ j \in Job /\ j.pc = "owner" /\ j.user = job[w].user
          /\ j.orgs \cup j.holders \subseteq rows
      BY DEF Job, Inv, TypeOK
    <3>2. job[w].user \in Users
      BY <1>1 DEF CheckUserCount, Inv, JobOK
    <3>3. job' = [job EXCEPT ![w] = j]
      BY <2>1 DEF Goto, Inv, TypeOK
    <3> HIDE DEF j
    <3>4. QED
      BY <1>1, <3>1, <3>2, <3>3, OtherStep DEF CheckUserCount, Inv, TypeOK
  <2>2. CASE Idle(w)
    BY <1>1, <2>2, NoJobOK, OtherStep DEF CheckUserCount, Idle, Inv, TypeOK
  <2>3. QED
    BY <1>1, <2>1, <2>2 DEF CheckUserCount
<1>2. CASE SaveLogin(w)
  <2> DEFINE u == job[w].user
  <2> DEFINE orgs == IF u \in rows THEN orgsOf[u] ELSE job[w].orgs
  <2> DEFINE on == u \in auto \cup ({u} \ rows)
  <2> DEFINE j == [NoJob EXCEPT !.pc = "save", !.owner = u, !.on = on, !.orgs = orgs]
  <2>1. job[w].user \in Users /\ job[w].orgs \subseteq rows /\ job[w].orgs \subseteq Orgs
    BY <1>2 DEF SaveLogin, Inv, JobOK, TypeOK, Job
  <2>2. /\ rows' = rows \cup {job[w].user} /\ auto' \subseteq rows'
        /\ activated' = activated /\ setting' = setting
    BY <1>2 DEF SaveLogin, AddRows, Inv, TypeOK
  <2>3. orgsOf' \in [Users -> SUBSET Orgs] /\ \A x \in Users : orgsOf'[x] \subseteq rows'
    BY <1>2, <2>1, <2>2 DEF SaveLogin, Inv, TypeOK
  <2>4. rows' \subseteq Owners /\ setting' \in BOOLEAN
    BY <2>1, <2>2 DEF Owners, Inv, TypeOK
  <2>5. /\ j \in Job /\ j.pc = "save" /\ j.owner = u
        /\ j.orgs \cup j.holders \subseteq rows
    <3>1. on \in BOOLEAN /\ orgs \subseteq Orgs /\ orgs \subseteq rows
      BY <2>1 DEF Inv, TypeOK
    <3> HIDE DEF on, orgs
    <3>2. QED
      BY <2>1, <3>1 DEF NoJob, Job, Owners
  <2>6. job' = [job EXCEPT ![w] = NoJob] \/ job' = [job EXCEPT ![w] = j]
    <3>1. orgsOf'[u] = orgs /\ (u \in auto') = on
      BY <1>2, <2>1 DEF SaveLogin, AddRows, Inv, TypeOK
    <3>2. QED
      BY <1>2, <3>1 DEF SaveLogin, Idle
  <2> HIDE DEF j
  <2>7. QED
    BY <2>1, <2>2, <2>3, <2>4, <2>5, <2>6, NoJobOK, OtherStep
<1>3. ASSUME NEW u \in Users, NEW orgs \in SUBSET Orgs, LoginOrgs(w, u, orgs)
      PROVE  Inv'
  <2> DEFINE j == [NoJob EXCEPT !.pc = "limit", !.user = u, !.orgs = orgs]
  <2>1. /\ j \in Job /\ j.pc = "limit" /\ j.user = u
        /\ j.orgs = orgs /\ j.holders = {}
    BY DEF NoJob, Job
  <2>2. job' = [job EXCEPT ![w] = j]
    BY <1>3 DEF LoginOrgs, Begin
  <2>3. /\ rows' = rows \cup orgs /\ auto' \subseteq rows'
        /\ UNCHANGED <<activated, orgsOf, setting>>
    BY <1>3 DEF LoginOrgs, AddRows, Inv, TypeOK
  <2>4. /\ rows' \subseteq Owners
        /\ \A x \in Users : orgsOf'[x] \subseteq rows'
        /\ orgsOf' \in [Users -> SUBSET Orgs] /\ setting' \in BOOLEAN
    BY <2>3 DEF Owners, Inv, TypeOK
  <2> HIDE DEF j
  <2>5. QED
    BY <2>1, <2>2, <2>3, <2>4, OtherStep
<1>4. QED
  BY <1>1, <1>2, <1>3 DEF Logging

\* A whole row is loaded, of whichever owner.
LEMMA LoadStep ==
    ASSUME Inv, NEW w \in Workers, NEW o \in Owners, LoadOwner(w, o)
    PROVE  Inv'
<1> DEFINE orgs == IF o \in Users THEN orgsOf[o] ELSE {}
<1> DEFINE holders == IF o \in Orgs THEN activated[o] ELSE {}
<1> DEFINE on == o \in auto
<1> DEFINE j == [NoJob EXCEPT !.pc = "save", !.owner = o, !.on = on,
                              !.orgs = orgs, !.holders = holders]
<1>1. /\ orgs \subseteq Orgs /\ orgs \subseteq rows
      /\ holders \subseteq Users /\ holders \subseteq rows /\ on \in BOOLEAN
  BY DEF Inv, TypeOK
<1>2. /\ job' = [job EXCEPT ![w] = j] /\ o \in rows
      /\ UNCHANGED <<rows, activated, auto, orgsOf, setting>>
  BY DEF LoadOwner
<1> HIDE DEF orgs, holders, on
<1>3. /\ j \in Job /\ j.pc = "save" /\ j.owner = o
      /\ j.orgs \cup j.holders \subseteq rows
  BY <1>1 DEF NoJob, Job
<1> HIDE DEF j
<1>4. QED
  BY <1>2, <1>3, OtherStep DEF Inv, TypeOK

\* It is saved, and no list of seats is put back.
LEMMA SaveStep ==
    ASSUME Inv, NEW w \in Workers, SaveOwner(w), job[w].owner \notin Orgs
    PROVE  Inv'
<1>1. job[w] \in Job /\ job[w].owner \in rows /\ job[w].orgs \subseteq rows
  BY DEF SaveOwner, Inv, TypeOK, JobOK
<1>2. /\ activated' = activated /\ rows' = rows /\ setting' = setting
      /\ auto' \subseteq rows /\ job' = [job EXCEPT ![w] = NoJob]
  BY <1>1 DEF SaveOwner, Idle, Inv, TypeOK
<1>3. orgsOf' \in [Users -> SUBSET Orgs] /\ \A u \in Users : orgsOf'[u] \subseteq rows
  BY <1>1 DEF SaveOwner, Inv, TypeOK, Job
<1>4. QED
  BY <1>2, <1>3, NoJobOK, OtherStep DEF Inv, TypeOK

-----------------------------------------------------------------------------
LEMMA InvInit == Init => Inv /\ UserRows
<1> SUFFICES ASSUME Init PROVE Inv /\ UserRows
  OBVIOUS
<1>1. TypeOK /\ \A w \in Workers : JobOK(job[w])
  BY NoJobOK DEF Init, TypeOK, JobOK
<1>2. Spoken = {}
  BY NoJobOK DEF Init, Spoken, Activated, Counted
<1>3. WithinCapacity
  BY <1>2, FS_EmptySet, CapacityNat DEF WithinCapacity
<1>4. UserRows
  BY NoJobOK DEF Init, UserRows
<1>5. QED
  BY <1>1, <1>3, <1>4 DEF Inv

\* Every step that does not save a whole row
LEMMA NextStep ==
    ASSUME Inv, Next, \A w \in Workers : ~SaveOwner(w)
    PROVE  Inv'
<1>1. CASE \E w \in Workers : Activation(w)
  BY <1>1, RequestStep, ActivateStep, DeactivateStep DEF Activation
<1>2. CASE \E w \in Workers : Saving(w)
  BY <1>2, LoadStep DEF Saving, Owners
<1>3. QED
  BY <1>1, <1>2, AsideStep, LoginStep DEF Next

\* What a step makes of the jobs: those that save a row are old, or load a user's.
LEMMA UserRowsStep ==
    ASSUME Inv, UserRows, Next
    PROVE  UserRows'
<1> SUFFICES ASSUME NEW x \in Workers, job'[x].pc = "save", job'[x] # job[x]
             PROVE  job'[x].owner \in Users
  BY OrgsAssumption DEF UserRows
<1> DEFINE T == [Workers -> Job]
<1>1. job \in [Workers -> Job]
  BY DEF Inv, TypeOK
<1>2. ASSUME NEW w \in Workers, NEW j, job' = [job EXCEPT ![w] = j], j.pc # "save"
      PROVE  FALSE
  BY <1>1, <1>2
<1>3. ASSUME NEW w \in Workers, Idle(w) PROVE FALSE
  BY <1>2, <1>3, NoJobOK DEF Idle
<1>4. ASSUME NEW w \in Workers, NEW pc, pc # "save", Goto(w, pc) PROVE FALSE
  <2>1. job' = [job EXCEPT ![w] = [job[w] EXCEPT !.pc = pc]]
    BY <1>1, <1>4 DEF Goto
  <2>2. [job[w] EXCEPT !.pc = pc].pc = pc
    BY <1>1 DEF Job
  <2>3. QED
    BY <1>2, <1>4, <2>1, <2>2
<1>5. ASSUME NEW w \in Workers, NEW pc, pc # "save", NEW u, NEW orgs, Begin(w, pc, u, orgs)
      PROVE  FALSE
  <2> DEFINE j == [NoJob EXCEPT !.pc = pc, !.user = u, !.orgs = orgs]
  <2>1. job' = [job EXCEPT ![w] = j] /\ j.pc = pc
    BY <1>5 DEF Begin, NoJob
  <2> HIDE DEF j
  <2>2. QED
    BY <1>2, <1>5, <2>1
<1>6. CASE \E w \in Workers : Activation(w) \/ Settings(w)
  BY <1>3, <1>4, <1>5, <1>6 DEF Activation, CanActivateUser, Recheck, ActivateOwner,
     AutoActivate, AskActivate, DeactivateOwner, Settings, EnableAutoactivation,
     DisableAutoactivation
<1>7. ASSUME NEW w \in Workers, SaveLogin(w) PROVE job'[x].owner \in Users
  <2>1. job[w].user \in Users
    BY <1>7 DEF SaveLogin, Inv, JobOK
  <2>2. PICK on, orgs : job' = [job EXCEPT ![w] =
            [NoJob EXCEPT !.pc = "save", !.owner = job[w].user, !.on = on, !.orgs = orgs]]
    BY <1>3, <1>7 DEF SaveLogin
  <2> DEFINE j == [NoJob EXCEPT !.pc = "save", !.owner = job[w].user, !.on = on,
                                !.orgs = orgs]
  <2>3. job' = [job EXCEPT ![w] = j] /\ j.owner = job[w].user
    BY <2>2 DEF NoJob
  <2> HIDE DEF j
  <2>4. QED
    BY <1>1, <2>1, <2>3
<1>8. CASE \E w \in Workers : Logging(w)
  BY <1>3, <1>4, <1>5, <1>7, <1>8 DEF Logging, CheckUserCount, LoginOrgs
<1>9. ASSUME NEW w \in Workers, NEW u \in Users, LoadOwner(w, u)
      PROVE  job'[x].owner \in Users
  <2>1. PICK on, orgs, holders : job' = [job EXCEPT ![w] =
            [NoJob EXCEPT !.pc = "save", !.owner = u, !.on = on, !.orgs = orgs,
                          !.holders = holders]]
    BY <1>9 DEF LoadOwner
  <2> DEFINE j == [NoJob EXCEPT !.pc = "save", !.owner = u, !.on = on, !.orgs = orgs,
                                !.holders = holders]
  <2>2. job' = [job EXCEPT ![w] = j] /\ j.owner = u
    BY <2>1 DEF NoJob
  <2> HIDE DEF j
  <2>3. QED
    BY <1>1, <2>2
<1>10. CASE \E w \in Workers : Saving(w)
  BY <1>3, <1>9, <1>10 DEF Saving, SaveOwner
<1>11. CASE \E u \in Users : SyncTeams(u)
  BY <1>11 DEF SyncTeams
<1>12. QED
  BY <1>6, <1>8, <1>10, <1>11 DEF Next

LEMMA InvStep == Inv /\ UserRows /\ [Next]_vars => Inv' /\ UserRows'
<1> SUFFICES ASSUME Inv, UserRows, [Next]_vars PROVE Inv' /\ UserRows'
  OBVIOUS
<1>1. CASE UNCHANGED vars
  BY <1>1 DEF vars, Inv, TypeOK, JobOK, WithinCapacity, Spoken, Activated,
              Counted, Capacity, Owners, UserRows
<1>2. ASSUME NEW w \in Workers, SaveOwner(w) PROVE Inv'
  <2>1. job[w].owner \notin Orgs
    BY <1>2 DEF SaveOwner, UserRows
  <2>2. QED
    BY <1>2, <2>1, SaveStep
<1>3. ASSUME Next, \A w \in Workers : ~SaveOwner(w) PROVE Inv'
  BY <1>3, NextStep
<1>4. Next => UserRows'
  BY UserRowsStep
<1>5. QED
  BY <1>1, <1>2, <1>3, <1>4

\* Inv in every reachable state.
THEOREM Invariance == Spec => [](Inv /\ UserRows)
  BY InvInit, InvStep, PTL DEF Spec

\* Every variable keeps its type, and no id names a missing row.
THEOREM TypeCorrect == Spec => []TypeOK
<1>1. Inv => TypeOK
  BY DEF Inv
<1>2. QED
  BY <1>1, Invariance, PTL

-----------------------------------------------------------------------------
(* One request at a time *)

\* The seats a request is about to take, or to put back with a list it has loaded
Claim(j) == IF j.pc = "update" THEN {j.user}
            ELSE IF j.pc \in {"seat", "save"} THEN j.holders ELSE {}

AloneAtWork ==
    \A w, x \in Workers : job[w].pc # "idle" /\ job[x].pc # "idle" => w = x

\* The license covers what is held together with what the request will make of it.
SerialInv ==
    /\ TypeOK
    /\ \A w \in Workers : JobOK(job[w])
    /\ AloneAtWork
    /\ \A w \in Workers : Cardinality(Activated \cup Claim(job[w])) <= Limit

LEMMA ClaimsAreUsers ==
    ASSUME TypeOK, \A w \in Workers : JobOK(job[w]), NEW w \in Workers
    PROVE  Activated \cup Claim(job[w]) \subseteq Users
<1>1. Activated \subseteq Users
  BY SpokenUsers
<1>2. Claim(job[w]) \subseteq Users
  BY DEF Claim, JobOK, TypeOK, Job
<1>3. QED
  BY <1>1, <1>2

LEMMA Covered ==
    ASSUME SerialInv, NEW w \in Workers, NEW S, S \subseteq Activated \cup Claim(job[w])
    PROVE  Cardinality(S) <= Limit
<1> DEFINE T == Activated \cup Claim(job[w])
<1>1. T \subseteq Users /\ Cardinality(T) <= Limit
  BY ClaimsAreUsers DEF SerialInv
<1> HIDE DEF T
<1>2. Cardinality(T) \in Nat /\ Cardinality(S) \in Nat /\ Cardinality(S) <= Cardinality(T)
  BY <1>1, Finite, FS_Subset DEF T
<1>3. QED
  BY <1>1, <1>2, LimitAssumption

\* Whoever works is alone before and after the step.
LEMMA Alone ==
    ASSUME SerialNext
    PROVE  /\ AloneAtWork'
           /\ \A w, x \in Workers : job[w].pc # "idle" /\ job'[x].pc # "idle" => w = x
  BY DEF SerialNext, AloneAtWork

\* Without removals the capacity covers what the license does.
LEMMA SerialIsInv == SerialInv => Inv
<1> SUFFICES ASSUME SerialInv PROVE Inv
  OBVIOUS
<1>1. PICK w \in Workers : Counted \subseteq Claim(job[w])
  <2>1. CASE \E w \in Workers : job[w].pc = "update"
    <3>1. PICK w \in Workers : job[w].pc = "update"
      BY <2>1
    <3>2. \A x \in Workers : job[x].pc = "update" => x = w
      BY <3>1 DEF SerialInv, AloneAtWork
    <3>3. Counted \subseteq Claim(job[w])
      BY <3>1, <3>2 DEF Counted, Claim
    <3>4. QED
      BY <3>3
  <2>2. CASE ~\E w \in Workers : job[w].pc = "update"
    BY <2>2, WorkersAssumption DEF Counted
  <2>3. QED
    BY <2>1, <2>2
<1>2. Spoken \subseteq Activated \cup Claim(job[w])
  BY <1>1 DEF Spoken
<1>3. Cardinality(Spoken) <= Limit
  BY <1>2, Covered
<1>4. Spoken \subseteq Users
  BY SpokenUsers DEF SerialInv, Spoken
<1>5. Cardinality(Spoken) \in Nat /\ Cardinality(Workers) \in Nat /\ Cardinality(Workers) # 0
  BY <1>4, Finite, WorkersAssumption, FS_CardinalityType, FS_EmptySet
<1>6. WithinCapacity
  BY <1>3, <1>5, LimitAssumption DEF WithinCapacity, Capacity
<1>7. QED
  BY <1>6 DEF SerialInv, Inv

\* A step that leaves each request within what some request covered already
LEMMA ClaimsStep ==
    ASSUME SerialInv, SerialNext, TypeOK', \A w \in Workers : JobOK(job[w])',
           \A x \in Workers : \E y \in Workers :
               Activated' \cup Claim(job'[x]) \subseteq Activated \cup Claim(job[y])
    PROVE  SerialInv'
<1>1. ASSUME NEW x \in Workers
      PROVE  Cardinality(Activated' \cup Claim(job'[x])) <= Limit
  <2>1. PICK y \in Workers :
          Activated' \cup Claim(job'[x]) \subseteq Activated \cup Claim(job[y])
    OBVIOUS
  <2>2. QED
    BY <2>1, Covered
<1>2. (\A w \in Workers : Cardinality(Activated \cup Claim(job[w])) <= Limit)'
  BY <1>1 DEF Claim
<1>3. QED
  BY <1>2, Alone DEF SerialInv

\* The seats stay, and w goes on to j, which takes and puts back nothing new.
LEMMA SameSeats ==
    ASSUME SerialInv, SerialNext, TypeOK', \A w \in Workers : JobOK(job[w])',
           activated' = activated,
           NEW w \in Workers, NEW j, job' = [job EXCEPT ![w] = j],
           Claim(j) \subseteq Activated
    PROVE  SerialInv'
<1>1. Activated' = Activated
  BY DEF Activated
<1>2. ASSUME NEW x \in Workers
      PROVE  Activated' \cup Claim(job'[x]) \subseteq Activated \cup Claim(job[x])
  <2>1. CASE x = w
    BY <1>1, <2>1 DEF SerialInv, TypeOK
  <2>2. CASE x # w
    BY <1>1, <2>2 DEF SerialInv, TypeOK
  <2>3. QED
    BY <2>1, <2>2
<1>3. QED
  BY <1>2, ClaimsStep

\* The seats become some of those that the request of w covered, and w is done.
LEMMA LastStep ==
    ASSUME SerialInv, SerialNext, TypeOK', \A w \in Workers : JobOK(job[w])',
           NEW w \in Workers, job[w].pc # "idle", Idle(w),
           Activated' \subseteq Activated \cup Claim(job[w])
    PROVE  SerialInv'
<1>1. ASSUME NEW x \in Workers
      PROVE  Claim(job'[x]) = {}
  <2>1. CASE x = w
    BY <2>1, NoJobOK DEF Idle, Claim, SerialInv, TypeOK
  <2>2. CASE x # w
    <3>1. job[x].pc = "idle" /\ job'[x] = job[x]
      BY <2>2 DEF SerialInv, AloneAtWork, Idle, TypeOK
    <3>2. QED
      BY <3>1 DEF Claim
  <2>3. QED
    BY <2>1, <2>2
<1>2. \A x \in Workers : Activated' \cup Claim(job'[x]) \subseteq Activated \cup Claim(job[w])
  BY <1>1
<1>3. QED
  BY <1>2, ClaimsStep

LEMMA SerialActivation ==
    ASSUME SerialInv, SerialNext, TypeOK', \A x \in Workers : JobOK(job[x])',
           NEW w \in Workers, Activation(w)
    PROVE  SerialInv'
<1>1. job[w] \in Job /\ JobOK(job[w])
  BY DEF SerialInv, TypeOK
<1>2. ASSUME NEW j, job' = [job EXCEPT ![w] = j], activated' = activated,
             j.pc \in {"idle", "can", "recheck"}
      PROVE  SerialInv'
  BY <1>2, SameSeats DEF Claim
<1>3. CASE CanActivateUser(w)
  <2>1. CASE Goto(w, "recheck")
    <3>1. job' = [job EXCEPT ![w] = [job[w] EXCEPT !.pc = "recheck"]]
      BY <2>1 DEF Goto, SerialInv, TypeOK
    <3>2. [job[w] EXCEPT !.pc = "recheck"].pc = "recheck"
      BY <1>1 DEF Job
    <3>3. QED
      BY <1>2, <1>3, <3>1, <3>2 DEF CanActivateUser
  <2>2. QED
    BY <1>2, <1>3, <2>1, NoJobOK DEF CanActivateUser, Idle
<1>4. CASE Recheck(w)
  <2>1. CASE CanActivateOwner(job[w].user) /\ Goto(w, "update")
    <3> DEFINE u == job[w].user
    <3>1. u \in Users /\ Activated \subseteq Users /\ Cardinality(Activated) <= Limit
      BY <1>1, <1>4, SpokenUsers, Covered DEF Recheck, JobOK, SerialInv
    <3>2. IsFiniteSet(Activated) /\ Cardinality(Activated) \in Nat
      BY <3>1, Finite
    <3>3. Cardinality(Activated \cup {u}) <= Limit
      <4>1. CASE u \in Activated
        <5>1. Activated \cup {u} = Activated
          BY <4>1
        <5>2. QED
          BY <3>1, <5>1
      <4>2. CASE u \notin Activated
        <5>1. Cardinality(Activated \cup {u}) = Cardinality(Activated) + 1
          BY <3>2, <4>2, FS_AddElement
        <5>2. Cardinality(Activated) < Limit
          BY <2>1, <4>2 DEF CanActivateOwner
        <5>3. QED
          BY <3>2, <5>1, <5>2, LimitAssumption
      <4>3. QED
        BY <4>1, <4>2
    <3>4. Activated' = Activated
      BY <1>4 DEF Recheck, Activated
    <3>5. /\ job'[w].pc = "update" /\ job'[w].user = u
          /\ \A x \in Workers : x # w => job'[x] = job[x]
      BY <1>1, <2>1 DEF Goto, SerialInv, TypeOK, Job
    <3>6. ASSUME NEW x \in Workers
          PROVE  Cardinality(Activated' \cup Claim(job'[x])) <= Limit
      BY <3>3, <3>4, <3>5 DEF SerialInv, Claim
    <3>7. (\A x \in Workers : Cardinality(Activated \cup Claim(job[x])) <= Limit)'
      BY <3>6 DEF Claim
    <3>8. QED
      BY <3>7, Alone DEF SerialInv
  <2>2. CASE Idle(w)
    BY <1>2, <1>4, <2>2, NoJobOK DEF Recheck, Idle
  <2>3. QED
    BY <1>4, <2>1, <2>2 DEF Recheck
<1>5. CASE ActivateOwner(w)
  <2>1. Activated' \subseteq Activated \cup {job[w].user}
    BY <1>5 DEF ActivateOwner, Activated
  <2>2. Claim(job[w]) = {job[w].user} /\ job[w].pc # "idle" /\ Idle(w)
    BY <1>5 DEF ActivateOwner, Claim
  <2>3. QED
    BY <2>1, <2>2, LastStep
<1>6. ASSUME NEW u \in Users, AutoActivate(w, u) \/ AskActivate(w, u)
      PROVE  SerialInv'
  <2>1. PICK pc \in {"can", "recheck"} : Begin(w, pc, u, orgsOf[u])
    BY <1>6 DEF AutoActivate, AskActivate
  <2> DEFINE j == [NoJob EXCEPT !.pc = pc, !.user = u, !.orgs = orgsOf[u]]
  <2>2. j.pc = pc
    BY DEF NoJob
  <2>3. job' = [job EXCEPT ![w] = j] /\ activated' = activated
    BY <1>6, <2>1 DEF Begin, AutoActivate, AskActivate
  <2> HIDE DEF j
  <2>4. QED
    BY <1>2, <2>2, <2>3
<1>7. ASSUME NEW u \in Users, DeactivateOwner(w, u)
      PROVE  SerialInv'
  <2>1. Activated' \subseteq Activated /\ job' = job
    BY <1>7 DEF DeactivateOwner, Activated
  <2>2. \A x \in Workers : Activated' \cup Claim(job'[x]) \subseteq Activated \cup Claim(job[x])
    BY <2>1
  <2>3. QED
    BY <2>2, ClaimsStep
<1>8. QED
  BY <1>3, <1>4, <1>5, <1>6, <1>7 DEF Activation

LEMMA SerialRest ==
    ASSUME SerialInv, SerialNext, TypeOK', \A x \in Workers : JobOK(job[x])',
           \/ \E w \in Workers : Settings(w) \/ Logging(w)
           \/ \E u \in Users : SyncTeams(u)
    PROVE  SerialInv'
<1>1. Activated' = Activated
  BY DEF Settings, EnableAutoactivation, DisableAutoactivation, Logging, CheckUserCount,
     SaveLogin, LoginOrgs, SyncTeams, Activated
<1>2. ASSUME NEW x \in Workers
      PROVE  Claim(job'[x]) \subseteq Claim(job[x])
  <2>1. CASE job'[x] = job[x]
    BY <2>1
  <2>2. CASE job'[x] # job[x]
    <3>1. PICK w \in Workers : Logging(w)
      BY <2>2 DEF Settings, EnableAutoactivation, DisableAutoactivation, SyncTeams
    <3>2. \E j : job' = [job EXCEPT ![w] = j] /\ Claim(j) = {}
      <4>1. job[w] \in Job
        BY DEF SerialInv, TypeOK
      <4>2. ASSUME Goto(w, "owner")
            PROVE  \E j : job' = [job EXCEPT ![w] = j] /\ Claim(j) = {}
        <5>1. /\ job' = [job EXCEPT ![w] = [job[w] EXCEPT !.pc = "owner"]]
              /\ [job[w] EXCEPT !.pc = "owner"].pc = "owner"
          BY <4>1, <4>2 DEF Goto, SerialInv, TypeOK, Job
        <5>2. QED
          BY <5>1 DEF Claim
      <4>3. ASSUME NEW u, NEW on, NEW orgs,
                   \/ Begin(w, "limit", u, orgs)
                   \/ job' = [job EXCEPT ![w] = [NoJob EXCEPT !.pc = "save", !.owner = u,
                                                   !.on = on, !.orgs = orgs]]
            PROVE  \E j : job' = [job EXCEPT ![w] = j] /\ Claim(j) = {}
        <5> DEFINE k == [NoJob EXCEPT !.pc = "limit", !.user = u, !.orgs = orgs]
        <5> DEFINE l == [NoJob EXCEPT !.pc = "save", !.owner = u, !.on = on, !.orgs = orgs]
        <5>1. Claim(k) = {} /\ Claim(l) = {}
          BY DEF NoJob, Claim
        <5>2. job' = [job EXCEPT ![w] = k] \/ job' = [job EXCEPT ![w] = l]
          BY <4>3 DEF Begin
        <5> HIDE DEF k, l
        <5>3. QED
          BY <5>1, <5>2
      <4>4. ASSUME Idle(w)
            PROVE  \E j : job' = [job EXCEPT ![w] = j] /\ Claim(j) = {}
        BY <4>4, NoJobOK DEF Idle, Claim
      <4>5. CASE SaveLogin(w)
        <5>1. \/ Idle(w)
              \/ job' = [job EXCEPT ![w] =
                    [NoJob EXCEPT !.pc = "save", !.owner = job[w].user,
                       !.on = job[w].user \in auto', !.orgs = orgsOf'[job[w].user]]]
          BY <4>5 DEF SaveLogin
        <5>2. QED
          BY <4>3, <4>4, <5>1
      <4>6. QED
        BY <3>1, <4>2, <4>3, <4>4, <4>5 DEF Logging, CheckUserCount, LoginOrgs
    <3>3. Claim(job'[x]) = {}
      BY <2>2, <3>2 DEF SerialInv, TypeOK
    <3>4. QED
      BY <3>3
  <2>3. QED
    BY <2>1, <2>2
<1>3. QED
  BY <1>1, <1>2, ClaimsStep

\* member_removed, whose list is not old when nobody else works
LEMMA SerialRemoval ==
    ASSUME SerialInv, SerialNext, NEW w \in Workers,
           SaveSeat(w) \/ \E u \in Users, o \in Orgs : MemberRemoved(w, u, o)
    PROVE  SerialInv'
<1>1. TypeOK /\ job[w] \in Job /\ \A x \in Workers : JobOK(job[x])
  BY DEF SerialInv, TypeOK
<1>2. CASE SaveSeat(w)
  <2> DEFINE j == job[w]
  <2>1. /\ j.holders \subseteq Users /\ j.holders \subseteq rows /\ j.orgs \subseteq rows
        /\ job' = [job EXCEPT ![w] = NoJob] /\ UNCHANGED <<rows, auto, orgsOf, setting>>
    BY <1>1, <1>2 DEF SaveSeat, Idle, TypeOK, Job
  <2>2. \A o \in Orgs : /\ activated'[o] \subseteq activated[o] \cup j.holders
                        /\ o \notin j.orgs => activated'[o] = activated[o]
    BY <1>2 DEF SaveSeat
  <2>3. activated' \in [Orgs -> SUBSET Users]
    BY <1>1, <1>2, <2>1 DEF SaveSeat, TypeOK
  <2>4. /\ \A o \in Orgs : activated'[o] \subseteq rows
        /\ \A o \in Orgs : o \notin rows => activated'[o] = {}
    BY <1>1, <2>1, <2>2 DEF TypeOK
  <2>5. job' \in [Workers -> Job]
        /\ \A x \in Workers : job'[x].orgs \cup job'[x].holders \subseteq rows
    BY <1>1, <2>1, NoJobOK DEF TypeOK
  <2>6. TypeOK'
    BY <1>1, <2>1, <2>3, <2>4, <2>5 DEF TypeOK, Owners
  <2>7. \A x \in Workers : JobOK(job[x])'
    BY <1>1, <2>1, NoJobOK DEF JobOK, TypeOK
  <2>8. Activated' \subseteq Activated \cup Claim(job[w])
    BY <1>2, <2>2 DEF SaveSeat, Activated, Claim
  <2>9. job[w].pc # "idle" /\ Idle(w)
    BY <1>2 DEF SaveSeat
  <2>10. QED
    BY <2>6, <2>7, <2>8, <2>9, LastStep
<1>3. ASSUME NEW u \in Users, NEW o \in Orgs, MemberRemoved(w, u, o) PROVE SerialInv'
  <2> DEFINE j == [NoJob EXCEPT !.pc = "seat", !.user = u, !.orgs = {o},
                                !.holders = activated[o]]
  <2>1. /\ job' = [job EXCEPT ![w] = j] /\ UNCHANGED <<rows, activated, auto, setting>>
        /\ o \in rows
    BY <1>3 DEF MemberRemoved, NoJob
  <2>2. j \in Job /\ j.orgs \cup j.holders \subseteq rows /\ JobOK(j)
    BY <1>1, <1>3, <2>1 DEF NoJob, Job, TypeOK, JobOK
  <2>3. Claim(j) \subseteq Activated
    BY DEF NoJob, Claim, Activated
  <2>4. orgsOf' \in [Users -> SUBSET Orgs] /\ \A x \in Users : orgsOf'[x] \subseteq orgsOf[x]
    BY <1>1, <1>3 DEF MemberRemoved, TypeOK
  <2> HIDE DEF j
  <2>5. job' \in [Workers -> Job]
        /\ \A x \in Workers : job'[x].orgs \cup job'[x].holders \subseteq rows
    BY <1>1, <2>1, <2>2 DEF TypeOK
  <2>6. TypeOK'
    BY <1>1, <2>1, <2>4, <2>5 DEF TypeOK, Owners
  <2>7. \A x \in Workers : JobOK(job[x])'
    BY <1>1, <2>1, <2>2 DEF JobOK, TypeOK
  <2>8. QED
    BY <2>1, <2>3, <2>6, <2>7, SameSeats
<1>4. QED
  BY <1>2, <1>3

\* A whole row, whose list is not old either
LEMMA SerialSaving ==
    ASSUME SerialInv, SerialNext, NEW w \in Workers,
           SaveOwner(w) \/ \E o \in Owners : LoadOwner(w, o)
    PROVE  SerialInv'
<1>1. TypeOK /\ job[w] \in Job /\ \A x \in Workers : JobOK(job[x])
  BY DEF SerialInv, TypeOK
<1>2. CASE SaveOwner(w)
  <2> DEFINE j == job[w]
  <2>1. /\ j.holders \subseteq Users /\ j.holders \subseteq rows
        /\ j.orgs \subseteq Orgs /\ j.orgs \subseteq rows /\ j.owner \in rows
        /\ job' = [job EXCEPT ![w] = NoJob] /\ UNCHANGED <<rows, setting>>
    BY <1>1, <1>2 DEF SaveOwner, Idle, TypeOK, JobOK, Job
  <2>2. \A o \in Orgs : /\ activated'[o] \subseteq activated[o] \cup j.holders
                        /\ o # j.owner => activated'[o] = activated[o]
    BY <1>2 DEF SaveOwner
  <2>3. activated' \in [Orgs -> SUBSET Users]
    BY <1>1, <1>2, <2>1 DEF SaveOwner, TypeOK
  <2>4. /\ \A o \in Orgs : activated'[o] \subseteq rows
        /\ \A o \in Orgs : o \notin rows => activated'[o] = {}
    BY <1>1, <2>1, <2>2 DEF TypeOK
  <2>5. /\ auto' \subseteq rows /\ orgsOf' \in [Users -> SUBSET Orgs]
        /\ \A u \in Users : orgsOf'[u] \subseteq rows
    BY <1>1, <1>2, <2>1 DEF SaveOwner, TypeOK
  <2>6. job' \in [Workers -> Job]
        /\ \A x \in Workers : job'[x].orgs \cup job'[x].holders \subseteq rows
    BY <1>1, <2>1, NoJobOK DEF TypeOK
  <2>7. TypeOK'
    BY <1>1, <2>1, <2>3, <2>4, <2>5, <2>6 DEF TypeOK, Owners
  <2>8. \A x \in Workers : JobOK(job[x])'
    BY <1>1, <2>1, NoJobOK DEF JobOK, TypeOK
  <2>9. Activated' \subseteq Activated \cup Claim(job[w])
    BY <1>2, <2>2 DEF SaveOwner, Activated, Claim
  <2>10. job[w].pc # "idle" /\ Idle(w)
    BY <1>2 DEF SaveOwner
  <2>11. QED
    BY <2>7, <2>8, <2>9, <2>10, LastStep
<1>3. ASSUME NEW o \in Owners, LoadOwner(w, o) PROVE SerialInv'
  <2>1. TypeOK' /\ \A x \in Workers : JobOK(job[x])'
    BY <1>3, SerialIsInv, LoadStep DEF Inv
  <2> DEFINE holders == IF o \in Orgs THEN activated[o] ELSE {}
  <2> DEFINE j == [NoJob EXCEPT !.pc = "save", !.owner = o, !.on = o \in auto,
                     !.orgs = IF o \in Users THEN orgsOf[o] ELSE {}, !.holders = holders]
  <2>2. job' = [job EXCEPT ![w] = j] /\ activated' = activated
    BY <1>3 DEF LoadOwner
  <2>3. holders \subseteq Activated
    BY DEF Activated
  <2> HIDE DEF holders
  <2>4. Claim(j) \subseteq Activated
    BY <2>3 DEF NoJob, Claim
  <2> HIDE DEF j
  <2>5. QED
    BY <2>1, <2>2, <2>4, SameSeats
<1>4. QED
  BY <1>2, <1>3

LEMMA SerialStep == SerialInv /\ [SerialNext]_vars => SerialInv'
<1> SUFFICES ASSUME SerialInv, [SerialNext]_vars PROVE SerialInv'
  OBVIOUS
<1>1. CASE UNCHANGED vars
  BY <1>1 DEF vars, SerialInv, TypeOK, JobOK, AloneAtWork, Activated, Claim, Owners
<1>2. ASSUME SerialNext, NEW w \in Workers, Saving(w) \/ Restoring(w) PROVE SerialInv'
  BY <1>2, SerialRemoval, SerialSaving DEF Saving, Restoring, Owners
<1>3. ASSUME SerialNext, Next, \A w \in Workers : ~Saving(w) PROVE SerialInv'
  <2>1. TypeOK' /\ \A x \in Workers : JobOK(job[x])'
    BY <1>3, SerialIsInv, NextStep DEF Inv, Saving
  <2>2. QED
    BY <1>3, <2>1, SerialActivation, SerialRest DEF Next
<1>4. SerialNext => RemovalNext
  BY DEF SerialNext
<1>5. QED
  BY <1>1, <1>2, <1>3, <1>4 DEF RemovalNext

\* Requests handled one at a time never exceed the license, member_removed with its
\* two saves included.
THEOREM Serial == MCSpec => []SerialWithinLicense
<1> DEFINE J == mode = "serial" => SerialInv
<1>1. MCInit => J
  <2>1. Init => SerialInv
    <3> SUFFICES ASSUME Init PROVE SerialInv
      OBVIOUS
    <3>1. TypeOK /\ \A w \in Workers : JobOK(job[w])
      BY InvInit DEF Inv
    <3>2. \A w \in Workers : job[w].pc = "idle" /\ Activated \cup Claim(job[w]) = {}
      BY NoJobOK DEF Init, Activated, Claim
    <3>3. QED
      BY <3>1, <3>2, FS_EmptySet, LimitAssumption DEF SerialInv, AloneAtWork
  <2>2. QED
    BY <2>1 DEF MCInit
<1>2. J /\ [MCNext]_<<vars, mode>> => J'
  <2> SUFFICES ASSUME J, [MCNext]_<<vars, mode>>, mode' = "serial" PROVE SerialInv'
    OBVIOUS
  <2>1. mode = "serial" /\ [SerialNext]_vars
    BY DEF MCNext
  <2>2. QED
    BY <2>1, SerialStep
<1>3. J => SerialWithinLicense
  <2> SUFFICES ASSUME SerialInv PROVE WithinLicense
    BY DEF SerialWithinLicense
  <2>1. PICK w \in Workers : TRUE
    BY WorkersAssumption
  <2>2. QED
    BY <2>1, Covered DEF WithinLicense
<1>4. QED
  BY <1>1, <1>2, <1>3, PTL DEF MCSpec

\* The seats change only one user at a time, and never past the capacity: with
\* any number of workers the instance is a pool of Limit + Cardinality(Workers)
\* - 1 seats.
THEOREM Implements == Spec => ImplementsPool
<1>1. Init => Pool!Init
  BY DEF Init, Pool!Init, Activated
<1>2. Inv /\ UserRows /\ Inv' /\ [Next]_vars => [Pool!Next]_Activated
  <2> SUFFICES ASSUME Inv, UserRows, Inv', [Next]_vars, Activated' # Activated
               PROVE  Pool!Next
    OBVIOUS
  <2>1. Cardinality(Activated') <= Capacity
    <3>1. Spoken' \subseteq Users /\ Activated' \subseteq Spoken'
      <4>1. (Activated \subseteq Users /\ Counted \subseteq Users)'
        BY DEF Inv, TypeOK, JobOK, Activated, Counted
      <4>2. QED
        BY <4>1 DEF Spoken
    <3>2. Cardinality(Spoken') <= Capacity
      BY DEF Inv, WithinCapacity, Capacity
    <3>3. QED
      BY <3>1, <3>2, Shrinks
  <2>2. ASSUME activated' = activated PROVE FALSE
    BY <2>2 DEF Activated
  <2>3. CASE \E w \in Workers : ActivateOwner(w)
    <3>1. PICK w \in Workers : ActivateOwner(w)
      BY <2>3
    <3>2. job[w].user \in Users
      BY <3>1 DEF ActivateOwner, Inv, JobOK
    <3>3. /\ Activated \subseteq Activated'
          /\ Activated' \subseteq Activated \cup {job[w].user}
      BY <3>1, <3>2 DEF ActivateOwner, Activated, Inv, TypeOK
    <3>4. job[w].user \notin Activated /\ Activated' = Activated \cup {job[w].user}
      BY <3>3
    <3>5. Pool!Take(job[w].user)
      <4>1. Pool!Cardinality(Activated') = Cardinality(Activated')
        BY DEF Pool!Cardinality, Cardinality
      <4>2. QED
        BY <2>1, <3>4, <4>1 DEF Pool!Take, Capacity
    <3>6. QED
      BY <3>2, <3>5 DEF Pool!Next
  <2>4. CASE \E w \in Workers, u \in Users : DeactivateOwner(w, u)
    <3>1. PICK w \in Workers, u \in Users : DeactivateOwner(w, u)
      BY <2>4
    <3>2. Activated' = Activated \ {u}
      BY <3>1 DEF DeactivateOwner, Activated, Inv, TypeOK
    <3>3. Pool!GiveBack(u)
      BY <3>2 DEF Pool!GiveBack
    <3>4. QED
      BY <3>3 DEF Pool!Next
  <2>5. ASSUME NEW w \in Workers, Saving(w) PROVE FALSE
    <3>1. CASE SaveOwner(w)
      BY <2>2, <3>1 DEF SaveOwner, UserRows, Inv, TypeOK
    <3>2. QED
      BY <2>2, <2>5, <3>1 DEF Saving, LoadOwner
  <2>6. QED
    BY <2>2, <2>3, <2>4, <2>5 DEF Next, Activation, CanActivateUser, Recheck,
       AutoActivate, AskActivate, Settings, EnableAutoactivation,
       DisableAutoactivation, Logging, CheckUserCount, SaveLogin, LoginOrgs,
       SyncTeams, vars
<1>3. QED
  BY <1>1, <1>2, Invariance, PTL DEF Spec, ImplementsPool, Pool!Spec

-----------------------------------------------------------------------------
(* Auto-activation: a row that is off, or will be once a request saves it as it *)
(* was loaded, costs one worker that is not the one that enabled it.            *)

Stale == {w \in Workers : job[w].pc = "save" /\ ~job[w].on}

Off == (rows \ auto) \cup {job[w].owner : w \in Stale}

OffBound == setting => /\ IsFiniteSet(Off)
                       /\ Cardinality(Off) < Cardinality(Workers)

JobsOK == job \in [Workers -> Job]

\* Fewer rows are off than before.
LEMMA LessOff ==
    ASSUME OffBound, setting' => setting, Off' \subseteq Off
    PROVE  OffBound'
<1> SUFFICES ASSUME setting' PROVE IsFiniteSet(Off') /\ Cardinality(Off') < Cardinality(Workers)
  BY DEF OffBound
<1>1. IsFiniteSet(Off) /\ Cardinality(Off) < Cardinality(Workers)
  BY DEF OffBound
<1>2. IsFiniteSet(Off') /\ Cardinality(Off') <= Cardinality(Off)
  BY <1>1, FS_Subset
<1>3. /\ Cardinality(Off') \in Nat /\ Cardinality(Off) \in Nat
      /\ Cardinality(Workers) \in Nat
  BY <1>1, <1>2, WorkersAssumption, FS_CardinalityType
<1>4. QED
  BY <1>1, <1>2, <1>3

\* Enabling leaves the rows that OTHER workers have loaded.
LEMMA EnableStep ==
    ASSUME JobsOK, NEW w \in Workers, EnableAutoactivation(w)
    PROVE  OffBound'
<1> DEFINE f == [x \in Stale |-> job[x].owner]
<1>1. Off' = {job[x].owner : x \in Stale}
  BY DEF EnableAutoactivation, Off, Stale
<1>2. Stale \subseteq Workers \ {w}
  BY DEF Stale, EnableAutoactivation
<1>3. /\ IsFiniteSet(Workers \ {w}) /\ Cardinality(Workers) \in Nat
      /\ Cardinality(Workers \ {w}) = Cardinality(Workers) - 1
  BY WorkersAssumption, FS_RemoveElement, FS_CardinalityType
<1>4. IsFiniteSet(Stale) /\ Cardinality(Stale) <= Cardinality(Workers \ {w})
  BY <1>2, <1>3, FS_Subset
<1>5. f \in Surjection(Stale, Off')
  BY <1>1 DEF Surjection
<1> HIDE DEF f
<1>6. IsFiniteSet(Off') /\ Cardinality(Off') <= Cardinality(Stale)
  BY <1>4, <1>5, FS_Surjection
<1>7. Cardinality(Off') \in Nat /\ Cardinality(Stale) \in Nat
  BY <1>4, <1>6, FS_CardinalityType
<1>8. Cardinality(Off') < Cardinality(Workers)
  BY <1>3, <1>4, <1>6, <1>7
<1>9. QED
  BY <1>6, <1>8 DEF OffBound

\* A worker goes on to j; a stale job of its own is of a row that is off now.
LEMMA OffStep ==
    ASSUME JobsOK, OffBound, setting' => setting,
           rows' \ auto' \subseteq Off, NEW w \in Workers, NEW j,
           job' = [job EXCEPT ![w] = j],
           j.pc = "save" /\ ~j.on => j.owner \in Off
    PROVE  OffBound'
<1>1. ASSUME NEW x \in Stale' PROVE job'[x].owner \in Off
  <2>1. CASE x = w
    BY <2>1 DEF Stale, JobsOK
  <2>2. CASE x # w
    <3>1. x \in Workers /\ job'[x] = job[x]
      BY <2>2 DEF Stale, JobsOK
    <3>2. x \in Stale
      BY <3>1 DEF Stale
    <3>3. QED
      BY <3>1, <3>2 DEF Off
  <2>3. QED
    BY <2>1, <2>2
<1>2. Off' \subseteq Off
  BY <1>1 DEF Off
<1>3. QED
  BY <1>2, LessOff

LEMMA OffActivation ==
    ASSUME JobsOK, OffBound, NEW w \in Workers, Activation(w)
    PROVE  OffBound'
<1>1. UNCHANGED <<rows, auto, setting>> /\ rows \ auto \subseteq Off
  BY DEF Activation, CanActivateUser, Recheck, ActivateOwner, AutoActivate, AskActivate,
     DeactivateOwner, Off
<1>2. ASSUME NEW j, job' = [job EXCEPT ![w] = j], j.pc # "save"
      PROVE  OffBound'
  BY <1>1, <1>2, OffStep
<1>3. ASSUME Idle(w) PROVE OffBound'
  BY <1>2, <1>3, NoJobOK DEF Idle
<1>4. ASSUME NEW pc, pc # "save", Goto(w, pc) PROVE OffBound'
  <2>1. /\ job' = [job EXCEPT ![w] = [job[w] EXCEPT !.pc = pc]]
        /\ [job[w] EXCEPT !.pc = pc].pc = pc
    BY <1>4 DEF Goto, JobsOK, Job
  <2>2. QED
    BY <1>2, <1>4, <2>1
<1>5. ASSUME NEW pc, pc # "save", NEW u, NEW orgs, Begin(w, pc, u, orgs)
      PROVE  OffBound'
  <2> DEFINE j == [NoJob EXCEPT !.pc = pc, !.user = u, !.orgs = orgs]
  <2>1. job' = [job EXCEPT ![w] = j] /\ j.pc = pc
    BY <1>5 DEF Begin, NoJob
  <2> HIDE DEF j
  <2>2. QED
    BY <1>2, <1>5, <2>1
<1>6. ASSUME job' = job PROVE OffBound'
  BY <1>1, <1>6, LessOff DEF Off, Stale
<1>7. QED
  BY <1>3, <1>4, <1>5, <1>6 DEF Activation, CanActivateUser, Recheck, ActivateOwner,
     AutoActivate, AskActivate, DeactivateOwner

LEMMA OffLogging ==
    ASSUME JobsOK, OffBound, NEW w \in Workers, Logging(w)
    PROVE  OffBound'
<1>1. ASSUME NEW new, AddRows(new) PROVE rows' \ auto' \subseteq rows \ auto
  BY <1>1 DEF AddRows
<1>2. setting' = setting /\ rows' \ auto' \subseteq rows \ auto
  BY <1>1 DEF Logging, CheckUserCount, SaveLogin, LoginOrgs
<1>3. ASSUME NEW j, job' = [job EXCEPT ![w] = j],
             j.pc = "save" /\ ~j.on => j.owner \in rows \ auto
      PROVE  OffBound'
  BY <1>2, <1>3, OffStep DEF Off
<1>4. ASSUME Idle(w) PROVE OffBound'
  BY <1>3, <1>4, NoJobOK DEF Idle
<1>5. CASE CheckUserCount(w)
  <2>1. /\ [job EXCEPT ![w].pc = "owner"] = [job EXCEPT ![w] = [job[w] EXCEPT !.pc = "owner"]]
        /\ [job[w] EXCEPT !.pc = "owner"].pc = "owner"
    BY DEF JobsOK, Job
  <2>2. QED
    BY <1>3, <1>4, <1>5, <2>1 DEF CheckUserCount, Goto
<1>6. ASSUME NEW u \in Users, NEW orgs \in SUBSET Orgs, LoginOrgs(w, u, orgs)
      PROVE  OffBound'
  <2> DEFINE j == [NoJob EXCEPT !.pc = "limit", !.user = u, !.orgs = orgs]
  <2>1. job' = [job EXCEPT ![w] = j] /\ j.pc = "limit"
    BY <1>6 DEF LoginOrgs, Begin, NoJob
  <2> HIDE DEF j
  <2>2. QED
    BY <1>3, <2>1
<1>7. CASE SaveLogin(w)
  <2> DEFINE u == job[w].user
  <2>1. CASE Idle(w)
    BY <1>4, <2>1
  <2>2. PICK on, orgs :
            /\ on = (u \in auto')
            /\ ~Idle(w) => job' = [job EXCEPT ![w] = [NoJob EXCEPT !.pc = "save",
                                     !.owner = u, !.on = on, !.orgs = orgs]]
    BY <1>7 DEF SaveLogin
  <2> DEFINE j == [NoJob EXCEPT !.pc = "save", !.owner = u, !.on = on, !.orgs = orgs]
  <2>3. j.owner = u /\ j.on = on
    BY DEF NoJob
  <2>4. u \notin auto' => u \in rows \ auto
    BY <1>7 DEF SaveLogin, AddRows
  <2>5. ~Idle(w) => job' = [job EXCEPT ![w] = j]
    BY <2>2
  <2> HIDE DEF j
  <2>6. QED
    BY <1>3, <2>1, <2>2, <2>3, <2>4, <2>5
<1>8. QED
  BY <1>5, <1>6, <1>7 DEF Logging

LEMMA OffSaving ==
    ASSUME JobsOK, OffBound, NEW w \in Workers, Saving(w) \/ Restoring(w)
    PROVE  OffBound'
<1>1. rows \ auto \subseteq Off
  BY DEF Off
<1>2. ASSUME NEW o, LoadOwner(w, o) PROVE OffBound'
  <2> DEFINE j == [NoJob EXCEPT !.pc = "save", !.owner = o, !.on = o \in auto,
                     !.orgs = IF o \in Users THEN orgsOf[o] ELSE {},
                     !.holders = IF o \in Orgs THEN activated[o] ELSE {}]
  <2>1. /\ job' = [job EXCEPT ![w] = j] /\ o \in rows
        /\ UNCHANGED <<rows, auto, setting>>
    BY <1>2 DEF LoadOwner
  <2>2. j.owner = o /\ j.on = (o \in auto)
    BY DEF NoJob
  <2> HIDE DEF j
  <2>3. QED
    BY <1>1, <2>1, <2>2, OffStep
<1>3. CASE SaveOwner(w)
  <2>1. job[w].on \in BOOLEAN /\ job' = [job EXCEPT ![w] = NoJob]
    BY <1>3 DEF SaveOwner, Idle, JobsOK, Job
  <2>2. ~job[w].on => job[w].owner \in Off
    BY <1>3 DEF SaveOwner, Off, Stale
  <2>3. rows' = rows /\ setting' = setting /\ rows \ auto' \subseteq Off
    BY <1>1, <1>3, <2>2 DEF SaveOwner
  <2>4. QED
    BY <2>1, <2>3, NoJobOK, OffStep
<1>4. CASE SaveSeat(w)
  BY <1>1, <1>4, NoJobOK, OffStep DEF SaveSeat, Idle
<1>5. ASSUME NEW u \in Users, NEW o \in Orgs, MemberRemoved(w, u, o) PROVE OffBound'
  <2> DEFINE j == [NoJob EXCEPT !.pc = "seat", !.user = u, !.orgs = {o},
                                !.holders = activated[o]]
  <2>1. /\ job' = [job EXCEPT ![w] = j] /\ j.pc = "seat"
        /\ UNCHANGED <<rows, auto, setting>>
    BY <1>5 DEF MemberRemoved, NoJob
  <2> HIDE DEF j
  <2>2. QED
    BY <1>1, <2>1, OffStep
<1>6. QED
  BY <1>2, <1>3, <1>4, <1>5 DEF Saving, Restoring

\* The types, with the saves that put back a list of seats among the steps.
Typed == {j \in Job : j.pc \notin {"idle", "save"} => j.user \in Users}

Types ==
    /\ job \in [Workers -> Typed]
    /\ activated \in [Orgs -> SUBSET Users]
    /\ orgsOf \in [Users -> SUBSET Orgs]

LEMMA TypesStep == Types /\ [RemovalNext]_vars => Types'
<1> SUFFICES ASSUME Types, [RemovalNext]_vars PROVE Types'
  OBVIOUS
<1>1. job \in [Workers -> Typed] /\ \A w \in Workers : job[w] \in Typed /\ job[w] \in Job
  BY DEF Types, Typed
<1>2. ASSUME NEW w \in Workers, NEW j \in Typed, job' = [job EXCEPT ![w] = j]
      PROVE  job' \in [Workers -> Typed]
  BY <1>1, <1>2
<1>3. ASSUME NEW w \in Workers, Idle(w) PROVE job' \in [Workers -> Typed]
  BY <1>2, <1>3, NoJobOK DEF Idle, Typed
<1>4. ASSUME NEW w \in Workers, NEW pc \in {"recheck", "update", "owner"}, Goto(w, pc),
             job[w].pc \in {"can", "recheck", "limit"}
      PROVE  job' \in [Workers -> Typed]
  <2>1. [job[w] EXCEPT !.pc = pc] \in Typed
    BY <1>1, <1>4 DEF Typed, Job
  <2>2. job' = [job EXCEPT ![w] = [job[w] EXCEPT !.pc = pc]]
    BY <1>1, <1>4 DEF Goto
  <2>3. QED
    BY <1>2, <2>1, <2>2
<1>5. ASSUME NEW w \in Workers, NEW pc \in {"can", "recheck", "limit"},
             NEW u \in Users, NEW orgs \in SUBSET Orgs, Begin(w, pc, u, orgs)
      PROVE  job' \in [Workers -> Typed]
  <2>1. [NoJob EXCEPT !.pc = pc, !.user = u, !.orgs = orgs] \in Typed
    BY DEF NoJob, Typed, Job
  <2>2. QED
    BY <1>2, <1>5, <2>1 DEF Begin
<1>6. \A u \in Users : orgsOf[u] \in SUBSET Orgs
  BY DEF Types
<1>7. CASE UNCHANGED vars
  BY <1>7 DEF vars, Types
<1>8. ASSUME NEW w \in Workers, Activation(w) PROVE Types'
  <2>1. CASE ActivateOwner(w)
    <3>1. job[w].user \in Users
      BY <1>1, <2>1 DEF ActivateOwner, Typed
    <3>2. activated' \in [Orgs -> SUBSET Users] /\ orgsOf' = orgsOf
      BY <2>1, <3>1 DEF ActivateOwner, Types
    <3>3. QED
      BY <1>3, <2>1, <3>2 DEF ActivateOwner, Types
  <2>2. ASSUME NEW u \in Users, DeactivateOwner(w, u) PROVE Types'
    BY <2>2 DEF DeactivateOwner, Types
  <2>3. CASE CanActivateUser(w) \/ Recheck(w)
    BY <1>3, <1>4, <2>3 DEF CanActivateUser, Recheck, Types
  <2>4. ASSUME NEW u \in Users, AutoActivate(w, u) \/ AskActivate(w, u) PROVE Types'
    BY <1>5, <1>6, <2>4 DEF AutoActivate, AskActivate, Types
  <2>5. QED
    BY <1>8, <2>1, <2>2, <2>3, <2>4 DEF Activation
<1>9. ASSUME NEW w \in Workers, Logging(w) PROVE Types'
  <2>1. CASE CheckUserCount(w)
    BY <1>3, <1>4, <2>1 DEF CheckUserCount, Types
  <2>2. ASSUME NEW u \in Users, NEW orgs \in SUBSET Orgs, LoginOrgs(w, u, orgs) PROVE Types'
    BY <1>5, <2>2 DEF LoginOrgs, Types
  <2>3. CASE SaveLogin(w)
    <3>0. job[w].user \in Users
      BY <1>1, <2>3 DEF SaveLogin, Typed
    <3>1. orgsOf' \in [Users -> SUBSET Orgs] /\ activated' = activated
      BY <1>1, <2>3 DEF SaveLogin, Types, Job
    <3>2. CASE ~Idle(w)
      <4> DEFINE on == job[w].user \in auto'
      <4> DEFINE orgs == orgsOf'[job[w].user]
      <4> DEFINE j == [NoJob EXCEPT !.pc = "save", !.owner = job[w].user, !.on = on,
                                    !.orgs = orgs]
      <4>1. job' = [job EXCEPT ![w] = j]
        BY <2>3, <3>2 DEF SaveLogin
      <4>2. on \in BOOLEAN /\ orgs \in SUBSET Orgs
        BY <3>0, <3>1
      <4> HIDE DEF on, orgs
      <4>4. j \in Typed
        BY <3>0, <4>2 DEF NoJob, Typed, Job, Owners
      <4> HIDE DEF j
      <4>5. QED
        BY <1>2, <3>1, <4>1, <4>4 DEF Types
    <3>3. QED
      BY <1>3, <3>1, <3>2 DEF Types
  <2>4. QED
    BY <1>9, <2>1, <2>2, <2>3 DEF Logging
<1>10. ASSUME NEW w \in Workers, NEW o \in Owners, LoadOwner(w, o) PROVE Types'
  <2> DEFINE orgs == IF o \in Users THEN orgsOf[o] ELSE {}
  <2> DEFINE holders == IF o \in Orgs THEN activated[o] ELSE {}
  <2> DEFINE on == o \in auto
  <2> DEFINE j == [NoJob EXCEPT !.pc = "save", !.owner = o, !.on = on,
                                !.orgs = orgs, !.holders = holders]
  <2>1. orgs \in SUBSET Orgs /\ holders \in SUBSET Users /\ on \in BOOLEAN
    BY DEF Types
  <2>2. job' = [job EXCEPT ![w] = j] /\ UNCHANGED <<activated, orgsOf>>
    BY <1>10 DEF LoadOwner
  <2> HIDE DEF orgs, holders, on
  <2>3. j \in Typed
    BY <2>1 DEF NoJob, Typed, Job
  <2> HIDE DEF j
  <2>4. QED
    BY <1>2, <2>2, <2>3 DEF Types
<1>11. ASSUME NEW w \in Workers, SaveOwner(w) PROVE Types'
  <2>1. job[w].orgs \in SUBSET Orgs /\ job[w].holders \in SUBSET Users
    BY <1>1 DEF Job
  <2>2. orgsOf' \in [Users -> SUBSET Orgs] /\ activated' \in [Orgs -> SUBSET Users]
    BY <1>11, <2>1 DEF SaveOwner, Types
  <2>3. QED
    BY <1>3, <1>11, <2>2 DEF SaveOwner, Types
<1>12. ASSUME NEW w \in Workers, SaveSeat(w) PROVE Types'
  <2>1. job[w].holders \in SUBSET Users
    BY <1>1 DEF Job
  <2>2. activated' \in [Orgs -> SUBSET Users] /\ orgsOf' = orgsOf
    BY <1>12, <2>1 DEF SaveSeat, Types
  <2>3. QED
    BY <1>3, <1>12, <2>2 DEF SaveSeat, Types
<1>13. ASSUME NEW w \in Workers, NEW u \in Users, NEW o \in Orgs, MemberRemoved(w, u, o)
       PROVE  Types'
  <2> DEFINE j == [NoJob EXCEPT !.pc = "seat", !.user = u, !.orgs = {o},
                                !.holders = activated[o]]
  <2>1. activated[o] \in SUBSET Users /\ activated' = activated
        /\ orgsOf' \in [Users -> SUBSET Orgs]
    BY <1>13 DEF MemberRemoved, Types
  <2>2. j \in Typed
    BY <2>1 DEF NoJob, Typed, Job
  <2>3. job' = [job EXCEPT ![w] = j]
    BY <1>13 DEF MemberRemoved
  <2> HIDE DEF j
  <2>4. QED
    BY <1>2, <2>1, <2>2, <2>3 DEF Types
<1>14. ASSUME NEW w \in Workers, Settings(w) PROVE Types'
  BY <1>14 DEF Settings, EnableAutoactivation, DisableAutoactivation, Types
<1>15. ASSUME NEW u \in Users, SyncTeams(u) PROVE Types'
  BY <1>15 DEF SyncTeams, Types
<1>16. QED
  BY <1>7, <1>8, <1>9, <1>10, <1>11, <1>12, <1>13, <1>14, <1>15
     DEF RemovalNext, Restoring, Next, Saving, Owners

\* While auto-activation is enabled, no more rows are off than there are other
\* workers, whoever logs in, whichever members leave and whatever else is saved
\* as it was loaded: enable_autoactivation reaches all owners but those that a
\* request has in its hands.
THEOREM Enabled == RemovalSpec => []EnabledForAll
<1> DEFINE J == Types /\ OffBound
<1>1. Init => J
  <2> SUFFICES ASSUME Init PROVE J
    OBVIOUS
  <2>1. Types
    BY NoJobOK DEF Init, Types, Typed
  <2>2. Off = {}
    BY NoJobOK DEF Init, Off, Stale
  <2>3. Cardinality(Workers) \in Nat /\ Cardinality(Workers) # 0
    BY WorkersAssumption, FS_CardinalityType, FS_EmptySet
  <2>4. QED
    BY <2>1, <2>2, <2>3, FS_EmptySet DEF OffBound
<1>2. J /\ [RemovalNext]_vars => J'
  <2> SUFFICES ASSUME Types, OffBound, [RemovalNext]_vars PROVE OffBound'
    BY TypesStep
  <2>1. JobsOK
    BY DEF Types, Typed, JobsOK
  <2>2. CASE UNCHANGED <<rows, auto, setting, job>>
    BY <2>2, LessOff DEF Off, Stale
  <2>3. ASSUME NEW w \in Workers, Settings(w) PROVE OffBound'
    <3>1. CASE DisableAutoactivation(w)
      BY <3>1 DEF DisableAutoactivation, OffBound
    <3>2. QED
      BY <2>1, <2>3, <3>1, EnableStep DEF Settings
  <2>4. ASSUME NEW u \in Users, SyncTeams(u) PROVE OffBound'
    BY <2>2, <2>4 DEF SyncTeams
  <2>5. QED
    BY <2>1, <2>2, <2>3, <2>4, OffActivation, OffLogging, OffSaving
       DEF RemovalNext, Next, vars
<1>3. J => EnabledForAll
  <2> SUFFICES ASSUME OffBound, setting PROVE Cardinality(rows \ auto) < Cardinality(Workers)
    BY DEF EnabledForAll
  <2>1. rows \ auto \subseteq Off
    BY DEF Off
  <2>2. /\ IsFiniteSet(Off) /\ Cardinality(Off) < Cardinality(Workers)
        /\ Cardinality(rows \ auto) <= Cardinality(Off)
        /\ IsFiniteSet(rows \ auto)
    BY <2>1, FS_Subset DEF OffBound
  <2>3. /\ Cardinality(rows \ auto) \in Nat /\ Cardinality(Off) \in Nat
        /\ Cardinality(Workers) \in Nat
    BY <2>2, WorkersAssumption, FS_CardinalityType
  <2>4. QED
    BY <2>2, <2>3
<1>4. QED
  BY <1>1, <1>2, <1>3, PTL DEF RemovalSpec
=============================================================================
