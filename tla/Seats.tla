-------------------------------- MODULE Seats --------------------------------
(***************************************************************************)
(* Seats of one organization in the cloud: the columns                     *)
(* plan_activated_users, plan_user_count and plan_auto_activate of its     *)
(* owners row (codecov_auth/models.py), and who may take a seat.  The      *)
(* admins column is abstracted: only the save that changes it is kept.     *)
(*                                                                         *)
(* A request loads the row, decides on what it loaded, and saves the WHOLE *)
(* row; member_removed saves one column of it.  Nothing locks the row, so  *)
(* requests of several workers overwrite each other.                       *)
(***************************************************************************)
EXTENDS Naturals, FiniteSets

CONSTANTS
    Workers,      \* request threads
    Users,        \* codecov users
    None,         \* no user
    Free,         \* Owner.free, seats on the house
    Counts,       \* seat counts a paid plan may be given
    Viewers       \* users whose permission list names a private repository

ASSUME UsersAssumption   == IsFiniteSet(Users) /\ None \notin Users
ASSUME FreeAssumption    == Free \in Nat
ASSUME CountsAssumption  == Counts \subseteq Nat \ {0, 1}
ASSUME ViewersAssumption == Viewers \subseteq Users

VARIABLES
    owner,     \* the organization's row
    member,    \* users whose organizations column holds the organization
    student,   \* users GitHub calls students
    lowered,   \* auxiliary: a scheduled decrease, or the end of a student's
               \* status, may have taken seats from under their holders
    job        \* what each worker is doing

vars == <<owner, member, student, lowered, job>>

\* plan_activated_users is NULL (null) until the first activation
Row == [seats : Nat, activated : SUBSET Users, null : BOOLEAN,
        auto : BOOLEAN]

Job == [pc : {"idle", "check", "activate", "answer", "error", "off", "admin",
              "member", "seat", "save"},
        user : Users \cup {None}, row : Row,
        then : {"done", "answer", "admin"}]

TypeOK ==
    /\ owner \in Row
    /\ owner.null => owner.activated = {}
    /\ member \subseteq Users
    /\ student \subseteq Users
    /\ lowered \in BOOLEAN
    /\ job \in [Workers -> Job]

NewRow == [seats |-> 1, activated |-> {}, null |-> TRUE, auto |-> TRUE]

NoJob == [pc |-> "idle", user |-> None, row |-> NewRow, then |-> "done"]

Init ==
    /\ owner = NewRow
    /\ member \in SUBSET Users
    /\ student \in SUBSET Users
    /\ lowered = FALSE
    /\ job = [w \in Workers |-> NoJob]

-----------------------------------------------------------------------------
(* Owner's methods on a loaded row *)

\* activated_user_count asks the database which of the holders are students now.
ActivatedUserCount(r) == Cardinality(r.activated \ student)

\* bug: one seat too many
CanActivateUserOffByOne(r, u) ==
    u \in student \/ ActivatedUserCount(r) <= r.seats + Free

CanActivateUser(r, u) == u \in student \/ ActivatedUserCount(r) < r.seats + Free

WithUser(r, u) == [r EXCEPT !.activated = @ \cup {u}, !.null = FALSE]

WithoutUser(r, u) == [r EXCEPT !.activated = @ \ {u}]

\* bug: the list is cleared and its holders are not
DefaultPlanNullOnly(r) == [r EXCEPT !.seats = 1, !.null = TRUE]

DefaultPlan(r) == [r EXCEPT !.seats = 1, !.activated = {}, !.null = TRUE]

Idle(w) == job' = [job EXCEPT ![w] = NoJob]

Load(w, pc, u, then) ==
    /\ job[w].pc = "idle"
    /\ job' = [job EXCEPT ![w] = [pc |-> pc, user |-> u, row |-> owner,
                                  then |-> then]]
    /\ UNCHANGED <<owner, member, student, lowered>>

\* where a request goes after its activation step, with the saved row
After(w, r) ==
    IF job[w].then = "done" THEN Idle(w)
    ELSE job' = [job EXCEPT ![w].row = r, ![w].pc = job[w].then]

-----------------------------------------------------------------------------
(* Requests *)

\* user_is_activated: a member without a seat looks at a private repository.
\* (With a seat, or with auto-activation off, nothing happens.)
AskRest(w, u) ==
    /\ u \in member /\ u \notin owner.activated /\ owner.auto
    /\ Load(w, "check", u, "done")

\* resolve_repository: try_auto_activate for whoever may view the repository,
\* then is_activated on the row loaded before.
AskGraphQL(w, u) ==
    /\ u \in Viewers
    /\ Load(w, IF owner.auto THEN "check" ELSE "answer", u, "answer")

\* PATCH users/:user, which finds members and holders of a seat only
AskUser(w, u) ==
    /\ u \in member \cup owner.activated
    /\ \/ \E pc \in {"check", "off"}, then \in {"done", "admin"} :
             Load(w, pc, u, then)
       \/ Load(w, "admin", u, "done")

\* Seats are counted in the loaded row; PATCH answers 403 when none is left.
CheckSeat(w) ==
    LET j == job[w] IN
    /\ j.pc = "check"
    /\ \/ /\ CanActivateUser(j.row, j.user)
          /\ job' = [job EXCEPT ![w].pc = "activate"]
       \/ /\ ~CanActivateUser(j.row, j.user)
          /\ IF j.then = "answer" THEN job' = [job EXCEPT ![w].pc = "answer"]
             ELSE Idle(w)
    /\ UNCHANGED <<owner, member, student, lowered>>

ActivateUser(w) ==
    /\ job[w].pc = "activate"
    /\ owner' = WithUser(job[w].row, job[w].user)
    /\ After(w, owner')
    /\ UNCHANGED <<member, student, lowered>>

DeactivateUser(w) ==
    /\ job[w].pc = "off"
    /\ owner' = WithoutUser(job[w].row, job[w].user)
    /\ After(w, owner')
    /\ UNCHANGED <<member, student, lowered>>

\* add_admin and remove_admin: a second save of the same loaded row
SaveAdmin(w) ==
    /\ job[w].pc = "admin"
    /\ owner' = job[w].row
    /\ Idle(w)
    /\ UNCHANGED <<member, student, lowered>>

\* CloudActivator.is_activated: owner.pk in org.plan_activated_users
Answer(w) ==
    /\ job[w].pc = "answer"
    /\ IF job[w].row.null
       THEN job' = [job EXCEPT ![w].pc = "error"]
       ELSE Idle(w)
    /\ UNCHANGED <<owner, member, student, lowered>>

\* TypeError: the resolver's error is reported and the worker goes on.
ReportError(w) ==
    /\ job[w].pc = "error"
    /\ Idle(w)
    /\ UNCHANGED <<owner, member, student, lowered>>

\* A plan change through the account page: PlanSerializer.validate compares the
\* quantity with the row it loaded.  Or the default plan.  Or PATCH of
\* plan_auto_activate, or start_trial, which switches it on.
AskPlan(w) ==
    /\ job[w].pc = "idle"
    /\ \E r \in
          {[owner EXCEPT !.seats = n] : n \in {c \in Counts : c >= ActivatedUserCount(owner)}}
          \cup {DefaultPlan(owner)}
          \cup {[owner EXCEPT !.auto = b] : b \in BOOLEAN} :
          job' = [job EXCEPT ![w] = [pc |-> "save", user |-> None, row |-> r,
                                     then |-> "done"]]
    /\ UNCHANGED <<owner, member, student, lowered>>

SaveRow(w) ==
    /\ job[w].pc = "save"
    /\ owner' = job[w].row
    /\ Idle(w)
    /\ UNCHANGED <<member, student, lowered>>

-----------------------------------------------------------------------------
(* organization / member_removed, from GitHub *)

MemberRemoved(w, u) == u \in member /\ Load(w, "member", u, "done")

\* member.save(update_fields=["organizations"])
SaveMember(w) ==
    /\ job[w].pc = "member"
    /\ member' = member \ {job[w].user}
    /\ job' = [job EXCEPT ![w].pc = "seat"]
    /\ UNCHANGED <<owner, student, lowered>>

\* bug: the list is searched for the wrong id, and ValueError is suppressed
SaveSeatMissed(w) ==
    /\ job[w].pc = "seat"
    /\ Idle(w)
    /\ UNCHANGED <<owner, member, student, lowered>>

\* org.save(update_fields=["plan_activated_users"]), if there was a seat
SaveSeat(w) ==
    LET j == job[w] IN
    /\ j.pc = "seat"
    /\ owner' = IF j.user \in j.row.activated
                THEN [owner EXCEPT !.activated = j.row.activated \ {j.user},
                                   !.null = FALSE]
                ELSE owner
    /\ Idle(w)
    /\ UNCHANGED <<member, student, lowered>>

-----------------------------------------------------------------------------
(* The rest of the world *)

\* SyncTeams, or the first login, adds the organization to a user.
Join(u) ==
    /\ member' = member \cup {u}
    /\ UNCHANGED <<owner, student, lowered, job>>

\* A login tells whether GitHub still calls the user a student.
Login(u) ==
    /\ \/ student' = student \cup {u} /\ UNCHANGED lowered
       \/ student' = student \ {u} /\ lowered' = (lowered \/ u \in student)
    /\ UNCHANGED <<owner, member, job>>

\* The end of a scheduled downgrade: subscription_schedule_released saves the
\* quantity Stripe has, whoever holds a seat by then.
Released(w) ==
    /\ job[w].pc = "idle"
    /\ \E n \in Counts :
          /\ job' = [job EXCEPT ![w] = [pc |-> "save", user |-> None,
                       row |-> [owner EXCEPT !.seats = n], then |-> "done"]]
          /\ lowered' = (lowered \/ n < owner.seats)
    /\ UNCHANGED <<owner, member, student>>

Handle(w) == \/ CheckSeat(w) \/ ActivateUser(w) \/ DeactivateUser(w)
             \/ SaveAdmin(w) \/ Answer(w) \/ ReportError(w) \/ SaveRow(w)

Ask(w) == AskPlan(w) \/ \E u \in Users : AskRest(w, u) \/ AskGraphQL(w, u) \/ AskUser(w, u)

\* Requests and joining users: every save is a save of the whole row.
CoreNext == \/ \E w \in Workers : Ask(w) \/ Handle(w)
            \/ \E u \in Users : Join(u)

Removal(w) == SaveMember(w) \/ SaveSeat(w) \/ \E u \in Users : MemberRemoved(w, u)

\* With member_removed, logins and scheduled changes as well.
Next == CoreNext \/ \E w \in Workers : Removal(w) \/ Released(w)
                 \/ \E u \in Users : Login(u)

CoreSpec == Init /\ [][CoreNext]_vars
Spec     == Init /\ [][Next]_vars

\* One request is handled at a time.
SerialNext ==
    /\ Next
    /\ \E w \in Workers : \A x \in Workers \ {w} : job[x].pc = "idle" /\ job'[x].pc = "idle"

SerialSpec == Init /\ [][SerialNext]_vars

-----------------------------------------------------------------------------
(* Properties *)

\* Unless seats are taken from under their holders, those paid for or given
\* cover the users that count: a lost update loses a seat or a seat count, never
\* the fit between the two (can_activate_user, PlanSerializer.validate,
\* set_default_plan_data).
SeatsCovered == lowered \/ ActivatedUserCount(owner) <= owner.seats + Free

\* Handled one at a time, removals leave no seat behind: whoever holds one is a
\* member (member_removed edits the member's row and the organization's) or may
\* view a private repository (resolve_repository asks for nothing else).
QuietHoldersAreMembers ==
    (\A w \in Workers : job[w].pc = "idle") => owner.activated \subseteq member \cup Viewers
=============================================================================
