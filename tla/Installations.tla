----------------------------- MODULE Installations -----------------------------
(***************************************************************************)
(* The GitHub app of an organization (webhook_handlers/views/github.py,    *)
(* _handle_installation_events): events of its installation create the row *)
(* of the organization, give the row the installation's id or take it      *)
(* away, switch its repositories, and start a refresh.                     *)
(*                                                                         *)
(* Events are handled from the order they were sent in, but handlers       *)
(* overlap, with each other and with requests that save the row for other  *)
(* reasons.  GitHub and the tasks of the worker are external.              *)
(***************************************************************************)
EXTENDS Absent, Integers, Sequences, FiniteSets

CONSTANTS
    Handlers,       \* what may be handled at a time
    MaxInstall,     \* bound: installations are numbered up to this
    MaxDelivered    \* bound: events

VARIABLES
    app,        \* the installation there is at GitHub, 0 for none
    installs,   \* how many there were
    events,     \* [action, id, name] on their way; name: of the account, 1 or 2
    delivered,  \* how many were sent
    name,       \* the account's name at GitHub
    row,        \* of the organization: Nothing, or [id, name], id Nothing or an installation's
    using,      \* whether its repositories use the integration
    handler,    \* [pc, event, row]: the row as it was read
    refreshes,  \* tasks on their way
    excused     \* auxiliary: why the row may disagree with GitHub

installVars == <<app, installs, events, delivered, name, row, using, handler, refreshes, excused>>
atGithub == <<app, installs, events, delivered, name>>

Names == {1, 2}
Actions == {"created", "deleted", "suspend", "added", "removed"}
Event == [action : Actions, id : 1..MaxInstall, name : Names]
InstallRow == [id : {Nothing} \cup 1..MaxInstall, name : Names]
Handler == [pc : {"idle", "read", "switch", "refresh", "other"}, event : {Nothing} \cup Event,
            row : {Nothing} \cup InstallRow]
Free == [pc |-> "idle", event |-> Nothing, row |-> Nothing]

\* What the constants must be
InstallAssumption ==
    /\ MaxInstall \in Nat /\ MaxDelivered \in Nat /\ IsFiniteSet(Handlers)
    /\ Nothing \notin Nat \cup Event \cup InstallRow

InstallTypeOK ==
    /\ app \in 0..installs /\ installs \in 0..MaxInstall /\ delivered \in 0..MaxDelivered
    /\ events \in Seq(Event) /\ name \in Names
    /\ row \in {Nothing} \cup InstallRow /\ using \in BOOLEAN
    /\ handler \in [Handlers -> Handler]
    /\ refreshes \in 0..MaxDelivered
    /\ excused \subseteq {"overtaken", "stale", "late", "died", "renamed"}

\* Nobody has heard of the organization, or somebody has logged in before the app came.
InstallInit ==
    /\ app = 0 /\ installs = 0 /\ events = <<>> /\ delivered = 0 /\ name = 1
    /\ row \in {Nothing, [id |-> Nothing, name |-> 1]} /\ using = FALSE
    /\ handler = [h \in Handlers |-> Free]
    /\ refreshes = 0 /\ excused = {}

-----------------------------------------------------------------------------
(***************************************************************************)
(* GitHub                                                                  *)
(***************************************************************************)
Deliver(action, id) ==
    /\ delivered < MaxDelivered
    /\ delivered' = delivered + 1
    /\ events' = Append(events, [action |-> action, id |-> id, name |-> name])

Install ==
    /\ app = 0 /\ installs < MaxInstall
    /\ app' = installs + 1 /\ installs' = installs + 1
    /\ Deliver("created", app')
    /\ UNCHANGED <<name, row, using, handler, refreshes, excused>>

Uninstall ==
    /\ app # 0 /\ app' = 0
    /\ Deliver("deleted", app)
    /\ UNCHANGED <<installs, name, row, using, handler, refreshes, excused>>

\* Suspended and resumed, more repositories or fewer
ChangeInstallation ==
    /\ app # 0
    /\ \E action \in {"suspend", "added", "removed"} : Deliver(action, app)
    /\ UNCHANGED <<app, installs, name, row, using, handler, refreshes, excused>>

RenameAccount ==
    /\ name = 1 /\ name' = 2
    /\ UNCHANGED <<app, installs, events, delivered, row, using, handler, refreshes, excused>>

-----------------------------------------------------------------------------
(***************************************************************************)
(* _handle_installation_events                                             *)
(***************************************************************************)
\* get_or_create of the row with the id of the account and this name.  There is a row of
\* the account with another name: the database refuses a second one, and the event is lost.
ReadEvent(h) ==
    LET event == Head(events)
        known == row # Nothing /\ row.name = event.name
        new == [id |-> Nothing, name |-> event.name]
    IN /\ handler[h] = Free /\ events # <<>>
       /\ events' = Tail(events)
       /\ IF row # Nothing /\ ~known
          THEN /\ excused' = excused \cup {"renamed"}
               /\ UNCHANGED <<row, handler>>
          ELSE /\ row' = IF known THEN row ELSE new
               /\ handler' = [handler EXCEPT ![h] = [pc |-> "read", event |-> event, row |-> row']]
               /\ excused' = IF \E g \in Handlers : handler[g].pc = "read"
                             THEN excused \cup {"overtaken"} ELSE excused
       /\ UNCHANGED <<app, installs, delivered, name, using, refreshes>>

\* bug: the row keeps the id of an installation that was deleted
Kept(was, event) ==
    IF event.action # "deleted" /\ was.id = Nothing THEN [was EXCEPT !.id = event.id] ELSE was

\* What an event makes of the row that was read: any event but a deletion gives an id to a
\* row that has none.
Changed(was, event) ==
    IF event.action = "deleted" THEN [was EXCEPT !.id = Nothing]
    ELSE IF was.id = Nothing THEN [was EXCEPT !.id = event.id] ELSE was

\* The whole row is saved, unless there is nothing to change.
SaveInstallation(h) ==
    LET event == handler[h].event
        was == handler[h].row
    IN /\ handler[h].pc = "read"
       /\ row' = IF event.action # "deleted" /\ was.id # Nothing THEN row ELSE Changed(was, event)
       /\ excused' = IF row = was THEN excused ELSE excused \cup {"stale"}
       /\ handler' = [handler EXCEPT ![h].pc = IF event.action = "deleted" THEN "switch" ELSE "refresh",
                                     ![h].row = row']
       /\ UNCHANGED <<atGithub, using, refreshes>>

\* bug: the repositories are left as they are
StillUsing == using

Unused == FALSE

\* repository_set.update(using_integration=False, bot=None)
SwitchRepositories(h) ==
    /\ handler[h].pc = "switch"
    /\ using' = Unused
    /\ excused' = IF row.id = handler[h].row.id THEN excused ELSE excused \cup {"late"}
    /\ handler' = [handler EXCEPT ![h] = Free]
    /\ UNCHANGED <<atGithub, row, refreshes>>

\* TaskService.refresh, for the organization and whatever happened to the installation
StartSync(h) ==
    /\ handler[h].pc = "refresh"
    /\ refreshes' = refreshes + 1
    /\ handler' = [handler EXCEPT ![h] = Free]
    /\ UNCHANGED <<atGithub, row, using, excused>>

DieHandling(h) ==
    /\ handler[h].pc \in {"read", "switch", "refresh"}
    /\ excused' = excused \cup {"died"}
    /\ handler' = [handler EXCEPT ![h] = Free]
    /\ UNCHANGED <<atGithub, row, using, refreshes>>

-----------------------------------------------------------------------------
\* Any other request that reads the row and saves it whole, and a login, which renames it
ReadRow(h) ==
    /\ handler[h] = Free /\ row # Nothing
    /\ handler' = [handler EXCEPT ![h] = [Free EXCEPT !.pc = "other", !.row = row]]
    /\ UNCHANGED <<atGithub, row, using, refreshes, excused>>

SaveRead(h) ==
    /\ handler[h].pc = "other"
    /\ row' \in {handler[h].row, [handler[h].row EXCEPT !.name = name]}
    /\ excused' = IF row = handler[h].row THEN excused ELSE excused \cup {"stale"}
    /\ handler' = [handler EXCEPT ![h] = Free]
    /\ UNCHANGED <<atGithub, using, refreshes>>

\* The task lists the repositories of the installation that the row names (external).
SyncRepositories ==
    /\ refreshes > 0 /\ refreshes' = refreshes - 1
    /\ using' = (using \/ row.id # Nothing)
    /\ UNCHANGED <<atGithub, row, handler, excused>>

InstallNext ==
    \/ Install \/ Uninstall \/ ChangeInstallation \/ RenameAccount \/ SyncRepositories
    \/ \E h \in Handlers :
        \/ ReadEvent(h) \/ SaveInstallation(h) \/ SwitchRepositories(h) \/ StartSync(h)
        \/ DieHandling(h) \/ ReadRow(h) \/ SaveRead(h)

InstallSpec == InstallInit /\ [][InstallNext]_installVars

-----------------------------------------------------------------------------
Handled == events = <<>> /\ \A h \in Handlers : handler[h] = Free

\* When every event is handled the row names the installation there is at GitHub, also one
\* that was deleted and made anew, and its repositories use it when the tasks are done and
\* only then: unless a handler died, or was refused because the account had been renamed,
\* two events were read before the row was saved for the first, a row was saved that had
\* changed since it was read, or the repositories were switched off after another handler
\* had named a new installation.  (webhook_handlers/views/github.py:396-446)
QuietInstallationIsNamed ==
    Handled /\ excused = {} =>
        /\ app = 0 => (row # Nothing => row.id = Nothing) /\ ~using
        /\ app # 0 => row # Nothing /\ row.id = app /\ (refreshes = 0 => using)

-----------------------------------------------------------------------------
(* Why: an inductive invariant *)

RowId == IF row = Nothing THEN Nothing ELSE row.id

Reads(h) == handler[h].pc = "read"

\* The row is as it was at GitHub before the event, an event may come after another, and
\* GitHub is as it was after the event.
Suits(event) == RowId = IF event.action = "created" THEN Nothing ELSE event.id
Follows(event, next) ==
    IF event.action = "deleted" THEN next.action = "created"
    ELSE next.action # "created" /\ next.id = event.id
Leaves(event) == app = IF event.action = "deleted" THEN 0 ELSE event.id

\* While nothing excuses the row, the event that is read, if any, and those on their way
\* lead in their order from the installation the row names to the one there is at GitHub.
EventsLeadThere ==
    /\ \A g, h \in Handlers : Reads(g) /\ Reads(h) => g = h
    /\ \A h \in Handlers : Reads(h) => Suits(handler[h].event)
    /\ \A i \in 1..Len(events) - 1 : Follows(events[i], events[i + 1])
    /\ events # <<>> =>
          /\ Leaves(events[Len(events)])
          /\ \A h \in Handlers : Reads(h) => Follows(handler[h].event, events[1])
          /\ (\A h \in Handlers : ~Reads(h)) => Suits(events[1])
    /\ events = <<>> =>
          /\ \A h \in Handlers : Reads(h) => Leaves(handler[h].event)
          /\ (\A h \in Handlers : ~Reads(h)) => RowId = IF app = 0 THEN Nothing ELSE app

\* The repositories use the integration while the row names an installation, or are about to.
RepositoriesFollow ==
    /\ using /\ RowId = Nothing => \E h \in Handlers : handler[h].pc = "switch"
    /\ ~using /\ RowId # Nothing => refreshes > 0 \/ \E h \in Handlers : handler[h].pc = "refresh"

\* What a handler has read, and there is a row when one has been read.
HandlersHold ==
    /\ \A h \in Handlers :
          /\ handler[h].pc = "idle" => handler[h] = Free
          /\ handler[h].pc # "idle" => handler[h].row # Nothing /\ row # Nothing
          /\ handler[h].pc \in {"read", "switch", "refresh"} => handler[h].event # Nothing
          /\ handler[h].pc = "switch" => handler[h].row.id = Nothing
    /\ refreshes > 0 => row # Nothing

\* Every task is of an event.
Busy == {h \in Handlers : handler[h].pc \in {"read", "refresh"}}
TasksAreOfEvents == refreshes + Len(events) + Cardinality(Busy) <= delivered

InstallInv ==
    /\ InstallTypeOK /\ HandlersHold /\ TasksAreOfEvents
    /\ excused = {} => EventsLeadThere /\ RepositoriesFollow
=============================================================================
