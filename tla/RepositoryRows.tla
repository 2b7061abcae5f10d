---------------------------- MODULE RepositoryRows ----------------------------
(***************************************************************************)
(* The rows of the table repos that webhooks create, rename, move and      *)
(* delete (webhook_handlers/views/github.py and gitlab.py), with the       *)
(* triggers that keep the names of an owner's repositories apart           *)
(* (legacy_migrations/.../main/triggers/repos.py).                         *)
(*                                                                         *)
(* A handler loads the row and writes it in a later step; events arrive in *)
(* order, but handlers overlap.  A name is a sequence, so that a deleted   *)
(* repository's name has a suffix.                                         *)
(***************************************************************************)
EXTENDS Absent, Integers, Sequences, FiniteSets, SequencesExt

CONSTANTS Projects, Accounts, Names, MaxSent

VARIABLES
    host,       \* the provider: "github" (with the app installed) or "gitlab"
    rows,       \* [owner, name, private, deleted, active, activated], or Nothing
    projects,   \* what the provider knows: [owner, name, private], or Nothing
    hooks,      \* events on their way
    handling,   \* handlers that have loaded a row
    told,       \* how many events were sent
    raced       \* whether two handlers of one repository overlapped, a row changed under
                \* one, or an index refused what one wrote

rowVars == <<host, rows, projects, hooks, handling, told, raced>>

Name(n) == <<n>>
Project == [owner : Accounts, name : {Name(n) : n \in Names}, private : BOOLEAN]
RowName == {Nothing} \cup Seq(Names \cup {"None", "deleted"})
ProjectRow == [owner : Accounts, name : RowName, private : BOOLEAN, deleted : BOOLEAN,
               active : BOOLEAN, activated : BOOLEAN]

\* What the constants must be
MaxSentAssumption ==
    /\ MaxSent \in Nat
    /\ Nothing \notin Project \cup ProjectRow \cup Seq(Names \cup {"None", "deleted"})

Gone(name) == IF name = Nothing THEN <<"None", "deleted">> ELSE Append(name, "deleted")

RowsInit ==
    /\ host \in {"github", "gitlab"}
    /\ rows = [p \in Projects |-> Nothing] /\ projects = [p \in Projects |-> Nothing]
    /\ hooks = <<>> /\ handling = {} /\ told = 0 /\ raced = FALSE

-----------------------------------------------------------------------------
(***************************************************************************)
(* Triggers                                                                *)
(***************************************************************************)
\* bug: the rows of other owners lose the name as well
TakeNameFromAll(table, p, row) ==
    [q \in Projects |->
        IF table[q] # Nothing /\ q # p /\ table[q].name = row.name
        THEN [table[q] EXCEPT !.name = Nothing, !.deleted = TRUE, !.active = FALSE,
                              !.activated = FALSE]
        ELSE table[q]]

\* repos_before_insert_or_update: who had the name loses it and is deleted
TakeName(table, p, row) ==
    [q \in Projects |->
        IF /\ table[q] # Nothing /\ q # p
           /\ table[q].owner = row.owner /\ table[q].name = row.name
        THEN [table[q] EXCEPT !.name = Nothing, !.deleted = TRUE, !.active = FALSE,
                              !.activated = FALSE]
        ELSE table[q]]

\* a write of the row of p, which fires the trigger if the name changes
Written(table, p, row) ==
    [(IF row.name # Nothing /\ (table[p] = Nothing \/ table[p].name # row.name)
      THEN TakeName(table, p, row) ELSE table) EXCEPT ![p] = row]

\* repos_slug: the write fails
Conflict(table) ==
    \E p, q \in Projects : /\ p # q /\ table[p] # Nothing /\ table[q] # Nothing
                           /\ table[p].name # Nothing
                           /\ table[p].owner = table[q].owner /\ table[p].name = table[q].name

NewRow(owner, name, private) ==
    [owner |-> owner, name |-> name, private |-> private, deleted |-> FALSE,
     active |-> FALSE, activated |-> FALSE]

-----------------------------------------------------------------------------
(***************************************************************************)
(* The provider.  GitHub tells of a new repository with its first event    *)
(* and of a new name or owner with one that is not handled.                *)
(***************************************************************************)
Free(owner, name) == \A p \in Projects :
    projects[p] # Nothing => projects[p].owner # owner \/ projects[p].name # name

Tell(kind, p, project) ==
    /\ told < MaxSent /\ told' = told + 1
    /\ hooks' = Append(hooks, [kind |-> kind, on |-> p, project |-> project])
    /\ UNCHANGED <<host, rows, handling, raced>>

NewProject(p, owner, name, private) ==
    /\ projects[p] = Nothing /\ Free(owner, name)
    /\ \A i \in DOMAIN hooks : hooks[i].on # p
    /\ rows[p] = Nothing
    /\ LET project == [owner |-> owner, name |-> name, private |-> private] IN
        /\ projects' = [projects EXCEPT ![p] = project]
        /\ Tell("create", p, project)

Rename(p, owner, name) ==
    /\ host = "gitlab" /\ projects[p] # Nothing /\ Free(owner, name)
    /\ owner = projects[p].owner \/ name = projects[p].name
    /\ projects' = [projects EXCEPT ![p].owner = owner, ![p].name = name]
    /\ Tell(IF owner = projects[p].owner THEN "rename" ELSE "transfer", p, projects'[p])

Publicize(p, private) ==
    /\ host = "github" /\ projects[p] # Nothing /\ projects[p].private # private
    /\ projects' = [projects EXCEPT ![p].private = private]
    /\ Tell("visibility", p, projects'[p])

Destroy(p) ==
    /\ projects[p] # Nothing
    /\ projects' = [projects EXCEPT ![p] = Nothing]
    /\ Tell("destroy", p, projects[p])

-----------------------------------------------------------------------------
(***************************************************************************)
(* The handlers                                                            *)
(***************************************************************************)
\* _get_repo and get_object_or_404: a row that is missing is created by GitHub's
\* handler with what the event says, as is a new one by project_create
Load ==
    /\ hooks # <<>> /\ hooks' = Tail(hooks)
    /\ LET e == Head(hooks)
           p == e.on
           missing == rows[p] = Nothing /\ (host = "github" \/ e.kind = "create")
           table == IF missing
                    THEN Written(rows, p, NewRow(e.project.owner, e.project.name, e.project.private))
                    ELSE rows
       IN /\ rows' = table
          /\ handling' = IF e.kind = "create" \/ table[p] = Nothing THEN handling
                         ELSE handling \cup {[kind |-> e.kind, on |-> p, row |-> table[p],
                                              project |-> e.project]}
          /\ raced' = (raced \/ \E h \in handling : h.on = p)
    /\ UNCHANGED <<host, projects, told>>

Stale(h) == raced \/ rows[h.on] # h.row

\* repository and public: the whole row is written
SaveVisibility(h) ==
    /\ h.kind = "visibility"
    /\ rows' = Written(rows, h.on,
                 [h.row EXCEPT !.private = h.project.private,
                               !.activated = IF h.project.private THEN @ ELSE FALSE])
    /\ raced' = Stale(h)

\* repository (deleted) and project_destroy: these fields only
SaveDestroyed(h) ==
    /\ h.kind = "destroy"
    /\ rows' = Written(rows, h.on,
                 [rows[h.on] EXCEPT !.deleted = TRUE, !.active = FALSE, !.activated = FALSE,
                                    !.name = Gone(h.row.name)])
    /\ raced' = Stale(h)

\* project_rename and project_transfer: the name, and the owner.  A name that the new
\* owner's other repository still has is refused by the index: the event is lost.
SaveName(h) ==
    /\ h.kind \in {"rename", "transfer"}
    /\ LET new == Written(rows, h.on,
                     [rows[h.on] EXCEPT !.name = h.project.name,
                                        !.owner = IF h.kind = "transfer" THEN h.project.owner ELSE @])
       IN /\ rows' = IF Conflict(new) THEN rows ELSE new
          /\ raced' = (Stale(h) \/ Conflict(new))

Save(h) ==
    /\ h \in handling /\ handling' = handling \ {h}
    /\ SaveVisibility(h) \/ SaveDestroyed(h) \/ SaveName(h)
    /\ UNCHANGED <<host, projects, hooks, told>>

\* An upload to a repository that exists finds it by its token, whatever its row says,
\* and makes it active (module Uploads).
Upload(p) ==
    /\ rows[p] # Nothing /\ projects[p] # Nothing /\ (~rows[p].active \/ rows[p].deleted)
    /\ rows' = [rows EXCEPT ![p].active = TRUE, ![p].activated = TRUE, ![p].deleted = FALSE]
    /\ UNCHANGED <<host, projects, hooks, handling, told, raced>>

RowsNext ==
    \/ \E p \in Projects, a \in Accounts, n \in Names, b \in BOOLEAN : NewProject(p, a, Name(n), b)
    \/ \E p \in Projects, a \in Accounts, n \in Names : Rename(p, a, Name(n))
    \/ \E p \in Projects, b \in BOOLEAN : Publicize(p, b)
    \/ \E p \in Projects : Destroy(p) \/ Upload(p)
    \/ Load
    \/ \E h \in handling : Save(h)

RowsSpec == RowsInit /\ [][RowsNext]_rowVars

-----------------------------------------------------------------------------
\* When all events are handled, and no handler has written a row that something else
\* had changed or was about to change, the table says of every repository what the provider says:
\* its owner, its name, whether it is deleted and, for GitHub, whether it is private.
\* In particular a name that went from one repository to another is with the right
\* one, and nobody else was deleted.
QuietRowsAgree ==
    hooks = <<>> /\ handling = {} /\ ~raced =>
        \A p \in Projects : rows[p] # Nothing =>
            IF projects[p] = Nothing THEN rows[p].deleted /\ ~rows[p].active /\ ~rows[p].activated
            ELSE /\ rows[p].owner = projects[p].owner /\ rows[p].name = projects[p].name
                 /\ ~rows[p].deleted
                 /\ host = "github" => rows[p].private = projects[p].private

-----------------------------------------------------------------------------
(* Why: an inductive invariant.  "known" is what was told of every repository. *)

Known == [Projects -> {Nothing} \cup Project]

Unique(known) == \A p, q \in Projects :
    p # q /\ known[p] # Nothing /\ known[q] # Nothing =>
        known[p].owner # known[q].owner \/ known[p].name # known[q].name

\* What an event makes of a repository, and what there was before it
After(e) == IF e.kind = "destroy" THEN Nothing ELSE e.project

Follows(e, was) ==
    /\ (e.kind = "create") <=> (was = Nothing)
    /\ e.kind = "destroy" => e.project = was
    /\ e.kind = "visibility" =>
          host = "github" /\ e.project.owner = was.owner /\ e.project.name = was.name
    /\ e.kind \in {"rename", "transfer"} => host = "gitlab"
    /\ e.kind = "rename" => e.project.owner = was.owner

\* The events on their way lead from what was told before them to the provider's projects,
\* and no two repositories ever had one name.
Leads(past) ==
    /\ hooks \in Seq([kind : {"create", "destroy", "visibility", "rename", "transfer"},
                      on : Projects, project : Project])
    /\ past \in [0..Len(hooks) -> Known] /\ past[Len(hooks)] = projects
    /\ \A i \in 0..Len(hooks) : Unique(past[i])
    /\ \A i \in 1..Len(hooks) :
          /\ Follows(hooks[i], past[i - 1][hooks[i].on])
          /\ past[i] = [past[i - 1] EXCEPT ![hooks[i].on] = After(hooks[i])]

\* A repository is created once and destroyed at last.
CreatedOnce ==
    \A i, j \in 1..Len(hooks) : hooks[i].on = hooks[j].on =>
          /\ i < j => hooks[j].kind # "create" /\ hooks[i].kind # "destroy"
          /\ hooks[i].kind = "create" => rows[hooks[i].on] = Nothing
          /\ hooks[i].kind = "destroy" => projects[hooks[i].on] = Nothing

\* A row says what is known.
Shows(r, known) ==
    IF known = Nothing THEN r.deleted /\ ~r.active /\ ~r.activated
    ELSE /\ r.owner = known.owner /\ r.name = known.name /\ ~r.deleted
         /\ host = "github" => r.private = known.private

\* A handler makes a row of the one it has loaded that says what its event told.
Handles(h) ==
    /\ h.on \in Projects /\ h.row \in ProjectRow /\ h.project \in Project
    /\ h.kind \in {"destroy", "visibility", "rename", "transfer"}
    /\ h.kind = "destroy" => h.row.name = h.project.name
    /\ h.kind # "destroy" => ~h.row.deleted
    /\ h.kind = "visibility" =>
          host = "github" /\ h.row.owner = h.project.owner /\ h.row.name = h.project.name
    /\ h.kind \in {"rename", "transfer"} => host = "gitlab"
    /\ h.kind = "rename" => h.row.owner = h.project.owner

\* What was told before the events on their way is in the rows, or is being written.
Said(known) ==
    /\ rows \in [Projects -> {Nothing} \cup ProjectRow]
    /\ \A h \in handling : Handles(h) /\ rows[h.on] # Nothing /\ known[h.on] = After(h)
    /\ \A g, h \in handling : g.on = h.on => g = h
    /\ \A p \in Projects :
          /\ rows[p] = Nothing => known[p] = Nothing
          /\ rows[p] # Nothing /\ (\A h \in handling : h.on # p) => Shows(rows[p], known[p])
          /\ rows[p] # Nothing /\ known[p] = Nothing =>
                projects[p] = Nothing /\ \A i \in 1..Len(hooks) : hooks[i].on # p

\* Unless two handlers of one repository overlapped, or a row changed under one
RowsInv == ~raced => CreatedOnce /\ \E past : Leads(past) /\ Said(past[0])
=============================================================================
