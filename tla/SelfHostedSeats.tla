---------------------------- MODULE SelfHostedSeats ----------------------------
(***************************************************************************)
(* Seats of a self-hosted instance (services/self_hosted.py): one license  *)
(* for all organizations.  A seat is used by whoever is in the             *)
(* plan_activated_users of ANY owners row, and auto-activation, having no  *)
(* place of its own, is a flag on EVERY owners row.                        *)
(*                                                                         *)
(* Each read and each UPDATE is one statement under READ COMMITTED: the    *)
(* transaction of activate_owner keeps nobody out between its count of the *)
(* seats and its UPDATE.                                                   *)
(***************************************************************************)
EXTENDS Naturals, FiniteSets

CONSTANTS
    Workers,   \* request threads
    Orgs,      \* organizations
    Users,     \* users
    None,      \* no user
    Limit      \* license_seats()

ASSUME WorkersAssumption == IsFiniteSet(Workers) /\ Workers # {}
ASSUME UsersAssumption   == IsFiniteSet(Users) /\ None \notin Users
ASSUME OrgsAssumption    == Orgs \cap Users = {}
ASSUME LimitAssumption   == Limit \in Nat

VARIABLES
    rows,       \* owners that have a row, organizations and users
    activated,  \* plan_activated_users of each organization
    auto,       \* owners whose plan_auto_activate is set
    orgsOf,     \* organizations column of each user
    setting,    \* auxiliary: what the administrator last asked for
    job         \* what each worker is doing

vars == <<rows, activated, auto, orgsOf, setting, job>>

Owners == Orgs \cup Users

\* on, orgs and holders: the columns of the owner's row as it was loaded
Job == [pc : {"idle", "can", "recheck", "update", "limit", "owner", "seat", "save"},
        user : Users \cup {None}, owner : Owners \cup {None},
        on : BOOLEAN, orgs : SUBSET Orgs, holders : SUBSET Users]

\* Types, and no id that names a missing row
TypeOK ==
    /\ rows \subseteq Owners
    /\ activated \in [Orgs -> SUBSET Users]
    /\ auto \subseteq rows
    /\ orgsOf \in [Users -> SUBSET Orgs]
    /\ setting \in BOOLEAN
    /\ job \in [Workers -> Job]
    /\ \A o \in Orgs : activated[o] \subseteq rows
    /\ \A o \in Orgs : o \notin rows => activated[o] = {}
    /\ \A u \in Users : orgsOf[u] \subseteq rows
    /\ \A w \in Workers : job[w].orgs \cup job[w].holders \subseteq rows

NoJob == [pc |-> "idle", user |-> None, owner |-> None,
          on |-> FALSE, orgs |-> {}, holders |-> {}]

Init ==
    /\ rows = {}
    /\ activated = [o \in Orgs |-> {}]
    /\ auto = {}
    /\ orgsOf = [u \in Users |-> {}]
    /\ setting = TRUE
    /\ job = [w \in Workers |-> NoJob]

\* activated_owners
Activated == UNION {activated[o] : o \in Orgs}

Begin(w, pc, u, orgs) ==
    /\ job[w].pc = "idle"
    /\ job' = [job EXCEPT ![w] = [NoJob EXCEPT !.pc = pc, !.user = u,
                                               !.orgs = orgs]]

Goto(w, pc) == job' = [job EXCEPT ![w].pc = pc]
Idle(w) == job' = [job EXCEPT ![w] = NoJob]

-----------------------------------------------------------------------------
(* Activation *)

\* bug: the last seat is given twice
CanActivateOwnerOffByOne(u) == u \in Activated \/ Cardinality(Activated) <= Limit

\* can_activate_owner
CanActivateOwner(u) == u \in Activated \/ Cardinality(Activated) < Limit

\* try_auto_activate, for a user who looks at a private repository: is
\* auto-activation on for ANY owner?
AutoActivate(w, u) ==
    /\ u \in rows /\ auto # {}
    /\ Begin(w, "can", u, orgsOf[u])
    /\ UNCHANGED <<rows, activated, auto, orgsOf, setting>>

\* SelfHostedActivator.can_activate_user, before anything is locked or updated
CanActivateUser(w) ==
    /\ job[w].pc = "can"
    /\ IF CanActivateOwner(job[w].user) THEN Goto(w, "recheck") ELSE Idle(w)
    /\ UNCHANGED <<rows, activated, auto, orgsOf, setting>>

\* PATCH users/:user {"activated": true} of an administrator, or of the user
AskActivate(w, u) ==
    /\ u \in rows
    /\ Begin(w, "recheck", u, orgsOf[u])
    /\ UNCHANGED <<rows, activated, auto, orgsOf, setting>>

\* bug: the caller's look at the seats is believed
TrustCaller(w) ==
    /\ job[w].pc = "recheck"
    /\ Goto(w, "update")
    /\ UNCHANGED <<rows, activated, auto, orgsOf, setting>>

\* activate_owner counts for itself and raises LicenseException ...
Recheck(w) ==
    /\ job[w].pc = "recheck"
    /\ IF CanActivateOwner(job[w].user) THEN Goto(w, "update") ELSE Idle(w)
    /\ UNCHANGED <<rows, activated, auto, orgsOf, setting>>

\* ... or adds the user to ALL organizations it has just loaded, in one UPDATE.
ActivateOwner(w) ==
    /\ job[w].pc = "update"
    /\ activated' = [o \in Orgs |->
                        IF o \in job[w].orgs \cap rows
                        THEN activated[o] \cup {job[w].user}
                        ELSE activated[o]]
    /\ Idle(w)
    /\ UNCHANGED <<rows, auto, orgsOf, setting>>

\* deactivate_owner: one UPDATE, across all organizations
DeactivateOwner(w, u) ==
    /\ job[w].pc = "idle"
    /\ u \in rows \cup Activated
    /\ activated' = [o \in Orgs |-> activated[o] \ {u}]
    /\ UNCHANGED <<rows, auto, orgsOf, setting, job>>

-----------------------------------------------------------------------------
(* Settings and logins *)

\* bug: organizations only
EnableOrgs(w) ==
    /\ job[w].pc = "idle"
    /\ auto' = auto \cup (rows \cap Orgs)
    /\ setting' = TRUE
    /\ UNCHANGED <<rows, activated, orgsOf, job>>

EnableAutoactivation(w) ==
    /\ job[w].pc = "idle"
    /\ auto' = rows
    /\ setting' = TRUE
    /\ UNCHANGED <<rows, activated, orgsOf, job>>

DisableAutoactivation(w) ==
    /\ job[w].pc = "idle"
    /\ auto' = {}
    /\ setting' = FALSE
    /\ UNCHANGED <<rows, activated, orgsOf, job>>

\* A new row has the default of its column: plan_auto_activate is set.
AddRows(new) ==
    /\ rows' = rows \cup new
    /\ auto' = auto \cup (new \ rows)

\* bug: the organizations are listed and get no row
LoginOrgsUnsaved(w, u, orgs) ==
    /\ Begin(w, "limit", u, orgs)
    /\ UNCHANGED <<rows, auto, activated, orgsOf, setting>>

\* get_and_modify_owner: the organizations of whoever knocks get their rows ...
LoginOrgs(w, u, orgs) ==
    /\ Begin(w, "limit", u, orgs)
    /\ AddRows(orgs)
    /\ UNCHANGED <<activated, orgsOf, setting>>

\* ... before _check_user_count_limitations looks at the license (of the kind
\* that bills per pull request) ...
CheckUserCount(w) ==
    /\ job[w].pc = "limit"
    /\ IF \/ Limit = 0   \* number_allowed_users is not given
          \/ job[w].user \in rows /\ job[w].user \in Activated
          \/ Cardinality(Activated) <= Limit
       THEN Goto(w, "owner")
       ELSE Idle(w)
    /\ UNCHANGED <<rows, activated, auto, orgsOf, setting>>

\* ... and the owner gets its row (get_or_create) and, the first time, its
\* organizations.  login_owner then saves the WHOLE row with its User, when it has
\* none yet; whether it has one is not modelled.
SaveLogin(w) ==
    LET u == job[w].user IN
    /\ job[w].pc = "owner"
    /\ AddRows({u})
    /\ orgsOf' = IF u \in rows THEN orgsOf
                 ELSE [orgsOf EXCEPT ![u] = job[w].orgs]
    /\ \/ Idle(w)
       \/ job' = [job EXCEPT ![w] = [NoJob EXCEPT !.pc = "save", !.owner = u,
                                         !.on = u \in auto', !.orgs = orgsOf'[u]]]
    /\ UNCHANGED <<activated, setting>>

-----------------------------------------------------------------------------
(* Whole rows: the profile, the terms and the onboarding of a user, the yaml and *)
(* the installation of an organization are saved with every column as loaded.    *)

LoadOwner(w, o) ==
    /\ job[w].pc = "idle" /\ o \in rows
    /\ job' = [job EXCEPT ![w] = [NoJob EXCEPT !.pc = "save", !.owner = o,
                  !.on = o \in auto,
                  !.orgs = IF o \in Users THEN orgsOf[o] ELSE {},
                  !.holders = IF o \in Orgs THEN activated[o] ELSE {}]]
    /\ UNCHANGED <<rows, activated, auto, orgsOf, setting>>

SaveOwner(w) ==
    LET j == job[w] IN
    /\ j.pc = "save"
    /\ auto' = IF j.on THEN auto \cup {j.owner} ELSE auto \ {j.owner}
    /\ orgsOf' = [u \in Users |-> IF u = j.owner THEN j.orgs ELSE orgsOf[u]]
    /\ activated' = [o \in Orgs |-> IF o = j.owner THEN j.holders ELSE activated[o]]
    /\ Idle(w)
    /\ UNCHANGED <<rows, setting>>

-----------------------------------------------------------------------------
(* Teams *)

\* SyncTeams keeps a user's organizations up to date.
SyncTeams(u) ==
    /\ u \in rows
    /\ \E orgs \in SUBSET (Orgs \cap rows) : orgsOf' = [orgsOf EXCEPT ![u] = orgs]
    /\ UNCHANGED <<rows, activated, auto, setting, job>>

\* organization / member_removed: both rows are loaded, the user's is saved ...
MemberRemoved(w, u, o) ==
    /\ job[w].pc = "idle" /\ u \in rows /\ o \in orgsOf[u] \cap rows
    /\ orgsOf' = [orgsOf EXCEPT ![u] = @ \ {o}]
    /\ job' = [job EXCEPT ![w] = [NoJob EXCEPT !.pc = "seat", !.user = u,
                                     !.orgs = {o}, !.holders = activated[o]]]
    /\ UNCHANGED <<rows, activated, auto, setting>>

\* ... and then the list of the organization AS IT WAS LOADED, minus the user.
SaveSeat(w) ==
    LET j == job[w] IN
    /\ j.pc = "seat"
    /\ activated' = [o \in Orgs |->
                        IF o \in j.orgs /\ j.user \in j.holders
                        THEN j.holders \ {j.user} ELSE activated[o]]
    /\ Idle(w)
    /\ UNCHANGED <<rows, auto, orgsOf, setting>>

-----------------------------------------------------------------------------
Activation(w) ==
    \/ CanActivateUser(w) \/ Recheck(w) \/ ActivateOwner(w)
    \/ \E u \in Users : \/ AutoActivate(w, u) \/ AskActivate(w, u)
                        \/ DeactivateOwner(w, u)

Settings(w) == EnableAutoactivation(w) \/ DisableAutoactivation(w)

Logging(w) == \/ CheckUserCount(w) \/ SaveLogin(w)
              \/ \E u \in Users, orgs \in SUBSET Orgs : LoginOrgs(w, u, orgs)

Saving(w) == SaveOwner(w) \/ \E u \in Users : LoadOwner(w, u)

Next == \/ \E w \in Workers : Activation(w) \/ Settings(w) \/ Logging(w) \/ Saving(w)
        \/ \E u \in Users : SyncTeams(u)

Spec == Init /\ [][Next]_vars

\* With the saves that put back a list of seats: GitHub's member_removed, and
\* the whole rows of organizations.
Restoring(w) ==
    \/ SaveSeat(w)
    \/ \E u \in Users, o \in Orgs : MemberRemoved(w, u, o)
    \/ \E o \in Orgs : LoadOwner(w, o)

RemovalNext == Next \/ \E w \in Workers : Restoring(w)

RemovalSpec == Init /\ [][RemovalNext]_vars

\* One request is handled at a time.
SerialNext ==
    /\ RemovalNext
    /\ \E w \in Workers : \A x \in Workers \ {w} : job[x].pc = "idle" /\ job'[x].pc = "idle"

-----------------------------------------------------------------------------
(* Properties *)

\* "Max number of seats allowed by the current license" (license_seats): true
\* of requests handled one at a time, false of two at once.
WithinLicense == Cardinality(Activated) <= Limit

\* Activations that have counted the seats and not yet taken one
Counted == {job[w].user : w \in {x \in Workers : job[x].pc = "update"}}

\* As many requests as there are workers may take the last seat together, and
\* no more: the instance implements a pool with that many extra seats.  (Not
\* with the saves that put back a list of seats of any age.)
Pool == INSTANCE SeatPool WITH used <- Activated,
                               Capacity <- Limit + Cardinality(Workers) - 1
ImplementsPool == Pool!Spec

\* enable_autoactivation is one UPDATE "for all owners", and a new row has the
\* default of the column; what still turns a row off afterwards is a request
\* that had loaded the whole row before, a login among them.  So no more rows
\* are off than there are other workers, however many there are and whatever
\* comes later; with one worker none is.  Nothing of the kind holds of
\* disabling: is_autoactivation_enabled asks for any row.
EnabledForAll == setting => Cardinality(rows \ auto) < Cardinality(Workers)
=============================================================================
