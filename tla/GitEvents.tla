------------------------------- MODULE GitEvents -------------------------------
(***************************************************************************)
(* What the webhooks of the four git providers do to the commits, branches *)
(* and pull requests of one repository (webhook_handlers/views), together  *)
(* with the triggers PostgreSQL runs on each of these writes               *)
(* (legacy_migrations/.../main/triggers).                                  *)
(*                                                                         *)
(* Events arrive in order and none is lost.  Commits are numbers, in the   *)
(* order of their timestamps.  Uploads insert commits and the worker       *)
(* completes them and synchronizes pull requests (both external).          *)
(***************************************************************************)
EXTENDS Absent, Integers, Sequences, FiniteSets, FiniteSetsExt,
        WellFoundedInduction, TLAPS

CONSTANTS
    MaxCommit,  \* the commits are 1..MaxCommit
    Branches,
    Default,    \* repo.branch
    Pulls,
    MaxEvents   \* bound on the events the provider sends

ASSUME EventsAssumption ==
    /\ MaxCommit \in Nat /\ MaxEvents \in Nat
    /\ Default \in Branches

ASSUME NothingAssumption ==
    /\ Nothing \notin 1..MaxCommit \cup Branches \cup Pulls
    /\ Nothing \notin [head : 1..MaxCommit \cup {Nothing}, state : {"open", "merged", "closed"}]

Commits == 1..MaxCommit
Services == {"github", "gitlab", "bitbucket", "bitbucket_server"}

VARIABLES
    service,    \* the provider
    active,     \* repo.active
    commits,    \* rows of commits: [state, branch, pullid, merged]
    heads,      \* rows of branches: the head of each; Nothing without a row
    pulls,      \* rows of pulls: [head, state]; Nothing without a row
    remote,     \* the pull requests as the provider knows them
    queue,      \* events on their way
    pushing,    \* push events between their two updates
    tasks,      \* tasks for the worker
    sent,       \* how many events were sent
    dropped,    \* branches that an event has deleted
    unseen      \* pull requests with an event that nothing handled

gitVars == <<service, active, commits, heads, pulls, remote, queue, pushing, tasks,
             sent, dropped, unseen>>

\* merged is NULL until somebody knows
Absence == [state |-> "absent", branch |-> Nothing, pullid |-> Nothing, merged |-> "unknown"]

GitTypeOK ==
    /\ service \in Services /\ active \in BOOLEAN
    /\ commits \in [Commits -> [state : {"absent", "pending", "complete"},
                                branch : Branches \cup {Nothing},
                                pullid : Pulls \cup {Nothing},
                                merged : {"unknown", "no", "yes"}]]
    /\ heads \in [Branches -> Commits \cup {Nothing}]
    /\ pulls \in [Pulls -> [head : Commits \cup {Nothing}, state : {"open", "merged", "closed"}]
                            \cup {Nothing}]
    /\ remote \in [Pulls -> {"none", "open", "merged", "closed"}]
    /\ dropped \subseteq Branches /\ unseen \subseteq Pulls
    /\ \A t \in tasks : t.name = "notify" => commits[t.on].state # "absent"

GitInit ==
    /\ service \in Services /\ active \in BOOLEAN
    /\ commits = [c \in Commits |-> Absence]
    /\ heads = [b \in Branches |-> Nothing]
    /\ pulls = [p \in Pulls |-> Nothing]
    /\ remote = [p \in Pulls |-> "none"]
    /\ queue = <<>> /\ pushing = {} /\ tasks = {} /\ sent = 0
    /\ dropped = {} /\ unseen = {}

-----------------------------------------------------------------------------
(***************************************************************************)
(* The triggers on commits                                                 *)
(***************************************************************************)
\* bug: the last commits written give the head
LastWritten(head, S) == IF S = {} THEN head ELSE Max(S)

\* The head of a branch or a pull request is not replaced by an older commit: when
\* the commits of S are written, in whatever order, the newest remains.
NewHead(head, S) == IF S = {} \/ (head # Nothing /\ head > Max(S)) THEN head ELSE Max(S)

\* commits_update_heads: the complete rows of S
commits_update_heads(rows, S) ==
    LET fired == {c \in S : rows[c].state = "complete" /\ rows[c] # commits[c]}
        On(b) == {c \in fired : rows[c].branch = b}
        Of(p) == {c \in fired : rows[c].pullid = p /\ rows[c].merged # "yes"}
    IN /\ heads' = [b \in Branches |-> NewHead(heads[b], On(b))]
       /\ pulls' = [p \in Pulls |->
                        IF pulls[p] = Nothing THEN Nothing
                        ELSE [pulls[p] EXCEPT !.head = NewHead(@, Of(p))]]

\* commits_insert_pr_branch: rows that are missing, with this commit as their head
commits_insert_pr_branch(c, row) ==
    /\ pulls' = IF row.pullid = Nothing \/ pulls[row.pullid] # Nothing THEN pulls
                ELSE [pulls EXCEPT ![row.pullid] = [head |-> c, state |-> "open"]]
    /\ heads' = IF row.branch = Nothing \/ heads[row.branch] # Nothing THEN heads
                ELSE [heads EXCEPT ![row.branch] = c]

\* An upload inserts the commit, and makes the repository active; the older endpoint
\* says of a commit of a pull request that it is not merged, the newer one nothing.
Insert(c, branch, pullid, merged) ==
    /\ commits[c].state = "absent"
    /\ merged = "no" => pullid # Nothing
    /\ LET row == [state |-> "pending", branch |-> branch, pullid |-> pullid, merged |-> merged]
       IN commits' = [commits EXCEPT ![c] = row] /\ commits_insert_pr_branch(c, row)
    /\ active' = TRUE
    /\ UNCHANGED <<service, remote, queue, pushing, tasks, sent, dropped, unseen>>

\* An upload for a commit that is there: the older endpoint makes it pending again,
\* complete or not (insert_commit), the newer one leaves the row alone.  No trigger
\* looks at a row that is pending.
InsertAgain(c) ==
    /\ commits[c].state # "absent"
    /\ \E state \in {"pending", commits[c].state} :
          commits' = [commits EXCEPT ![c].state = state]
    /\ active' = TRUE
    /\ UNCHANGED <<service, heads, pulls, remote, queue, pushing, tasks, sent, dropped, unseen>>

\* The worker has processed the uploads of the commit, and may have asked the provider.
Complete(c) ==
    /\ commits[c].state = "pending"
    /\ \E merged \in {"no", commits[c].merged} :
          commits' = [commits EXCEPT ![c].state = "complete",
                                     ![c].merged = IF @ = "unknown" THEN merged ELSE @]
    /\ commits_update_heads(commits', {c})
    /\ UNCHANGED <<service, active, remote, queue, pushing, tasks, sent, dropped, unseen>>

-----------------------------------------------------------------------------
(***************************************************************************)
(* The provider                                                            *)
(***************************************************************************)
Send(e) == sent < MaxEvents /\ sent' = sent + 1 /\ queue' = Append(queue, e)

Transitions == [open |-> {"none"}, synchronize |-> {"open"}, merge |-> {"open"},
                close |-> {"open"}, reopen |-> {"closed"}]
After == [open |-> "open", synchronize |-> "open", merge |-> "merged",
          close |-> "closed", reopen |-> "open"]

ChangePull(p, action) ==
    /\ remote[p] \in Transitions[action]
    /\ remote' = [remote EXCEPT ![p] = After[action]]
    /\ Send([kind |-> "pull", action |-> action, on |-> p])
    /\ UNCHANGED <<service, active, commits, heads, pulls, pushing, tasks, dropped, unseen>>

SendPush(b, S) ==
    /\ service = "github"
    /\ Send([kind |-> "push", branch |-> b, ids |-> S])
    /\ UNCHANGED <<service, active, commits, heads, pulls, remote, pushing, tasks, dropped,
                   unseen>>

\* The branch is deleted; for Bitbucket Server also any push to it: the handler does
\* not tell the two apart.
SendDelete(b) ==
    /\ Send([kind |-> "delete", on |-> b])
    /\ UNCHANGED <<service, active, commits, heads, pulls, remote, pushing, tasks, dropped,
                   unseen>>

SendStatus(c) ==
    /\ service # "bitbucket_server"
    /\ Send([kind |-> "status", on |-> c])
    /\ UNCHANGED <<service, active, commits, heads, pulls, remote, pushing, tasks, dropped,
                   unseen>>

-----------------------------------------------------------------------------
(***************************************************************************)
(* The handlers                                                            *)
(***************************************************************************)
Receive(kind) ==
    /\ queue # <<>> /\ Head(queue).kind = kind
    /\ queue' = Tail(queue)
    /\ UNCHANGED <<service, active, commits, remote, sent>>

Event == Head(queue)

\* GitLab does not ask whether the repository is active.
Ignored == ~active /\ service # "gitlab"

Synced == CASE service = "github" -> {"open", "synchronize", "merge", "close", "reopen"}
            [] service = "gitlab" -> {"open", "synchronize", "merge"}
            [] OTHER -> {"open"}

\* bug: a merge request that was merged is closed
ClosedInAnyCase == CASE service = "github" -> <<>>
                     [] service = "gitlab" -> [close |-> "closed"]
                     [] OTHER -> [merge |-> "closed", close |-> "closed"]

\* the states that are written without asking the provider
Written == CASE service = "github" -> <<>>
             [] service = "gitlab" -> [close |-> "closed"]
             [] OTHER -> [merge |-> "merged", close |-> "closed"]

\* bug: a pull request without a row is not synchronized
SyncKnown(p) == IF pulls[p] = Nothing THEN {} ELSE {[name |-> "pulls_sync", on |-> p]}

SyncTask(p) == {[name |-> "pulls_sync", on |-> p]}

\* pull_request, _handle_merge_request_event, _handle_pull_request_created_event and
\* _handle_pull_request_state_change: a state that is written needs a row
PullEvent ==
    /\ Receive("pull")
    /\ LET p == Event.on
           action == Event.action
           sync == ~Ignored /\ action \in Synced
           write == ~Ignored /\ action \in DOMAIN Written /\ pulls[p] # Nothing
       IN
        /\ tasks' = IF sync THEN tasks \cup SyncTask(p) ELSE tasks
        /\ pulls' = IF write THEN [pulls EXCEPT ![p].state = Written[action]] ELSE pulls
        /\ unseen' = IF sync \/ write THEN unseen \ {p}
                     ELSE IF action = "synchronize" THEN unseen ELSE unseen \cup {p}
    /\ UNCHANGED <<heads, pushing, dropped>>

\* bug: commits that are merged follow a push to another branch
EvenMerged(S) == {c \in S : commits[c].merged # "unknown"}

\* commits_queryset of push: not those of which merged is NULL
Unmerged(S) == {c \in S : commits[c].merged = "no"}

\* push, its first update
Push ==
    /\ queue # <<>> /\ Event.kind = "push" /\ queue' = Tail(queue)
    /\ IF ~active \/ Event.ids = {} THEN UNCHANGED <<commits, heads, pulls, pushing>>
       ELSE /\ commits' = [c \in Commits |-> IF c \in Unmerged(Event.ids)
                                THEN [commits[c] EXCEPT !.branch = Event.branch] ELSE commits[c]]
            /\ commits_update_heads(commits', Event.ids)
            /\ pushing' = pushing \cup {[branch |-> Event.branch, ids |-> Event.ids]}
    /\ UNCHANGED <<service, active, remote, tasks, sent, dropped, unseen>>

\* push, its second update, which looks for unmerged commits again
PushMerged(e) ==
    /\ e \in pushing /\ pushing' = pushing \ {e}
    /\ commits' = [c \in Commits |-> IF e.branch = Default /\ c \in Unmerged(e.ids)
                        THEN [commits[c] EXCEPT !.merged = "yes"] ELSE commits[c]]
    /\ commits_update_heads(commits', e.ids)
    /\ \E pending \in BOOLEAN :     \* whether the repository is in beta.pending
        tasks' = IF pending THEN tasks \cup {[name |-> "status_set_pending", on |-> Max(e.ids)]}
                 ELSE tasks
    /\ UNCHANGED <<service, active, remote, queue, sent, dropped, unseen>>

\* delete of GitHub, _handle_repo_push_event, _handle_repo_refs_change; GitLab's push
\* event does nothing
DeleteBranch ==
    /\ Receive("delete")
    /\ LET gone == service = "github" \/ (service # "gitlab" /\ active) IN
        /\ heads' = IF gone THEN [heads EXCEPT ![Event.on] = Nothing] ELSE heads
        /\ dropped' = IF gone THEN dropped \cup {Event.on} ELSE dropped
    /\ UNCHANGED <<pulls, pushing, tasks, unseen>>

Notifiable(c) == commits[c].state = "complete"

\* status, _handle_job_event, _handle_repo_commit_status_change
StatusEvent ==
    /\ Receive("status")
    /\ tasks' = IF active /\ Notifiable(Event.on)
                THEN tasks \cup {[name |-> "notify", on |-> Event.on]} ELSE tasks
    /\ UNCHANGED <<heads, pulls, pushing, dropped, unseen>>

\* The worker: pulls_sync asks the provider and writes what it says.
Work(t) ==
    /\ t \in tasks /\ tasks' = tasks \ {t}
    /\ pulls' = IF t.name # "pulls_sync" THEN pulls
                ELSE [pulls EXCEPT ![t.on] =
                        [head |-> IF @ = Nothing THEN Nothing ELSE @.head,
                         state |-> remote[t.on]]]
    /\ UNCHANGED <<service, active, commits, heads, remote, queue, pushing, sent, dropped, unseen>>

Handle == PullEvent \/ Push \/ DeleteBranch \/ StatusEvent

GitNext ==
    \/ \E c \in Commits, b \in Branches, p \in Pulls \cup {Nothing}, merged \in {"unknown", "no"} :
          Insert(c, b, p, merged)
    \/ \E c \in Commits : InsertAgain(c) \/ Complete(c) \/ SendStatus(c)
    \/ \E p \in Pulls, action \in DOMAIN After : ChangePull(p, action)
    \/ \E b \in Branches, S \in SUBSET Commits : SendPush(b, S)
    \/ \E b \in Branches : SendDelete(b)
    \/ Handle
    \/ \E e \in pushing : PushMerged(e)
    \/ \E t \in tasks : Work(t)

\* Events are delivered and the worker works off its queue (both external).
GitFairness == WF_gitVars(Handle) /\ WF_gitVars(\E t \in tasks : Work(t))

GitSpec == GitInit /\ [][GitNext]_gitVars /\ GitFairness

-----------------------------------------------------------------------------
(***************************************************************************)
(* Properties                                                              *)
(***************************************************************************)

\* Whatever the order in which commits complete, are pushed to other branches and
\* merged, a branch whose row was never deleted has a head that is not older than
\* any complete commit on it, and so has a pull request for its unmerged commits.
HeadsAreNotStale ==
    \A c \in Commits : commits[c].state = "complete" =>
        /\ commits[c].branch \notin dropped =>
             heads[commits[c].branch] # Nothing /\ heads[commits[c].branch] >= c
        /\ commits[c].pullid # Nothing /\ commits[c].merged # "yes" =>
             pulls[commits[c].pullid].head # Nothing /\ pulls[commits[c].pullid].head >= c

\* A commit that was merged stays merged and on its branch: no later push moves it,
\* not even between the two updates of another push.
MergedIsFinal ==
    [][\A c \in Commits : commits[c].merged = "yes" =>
            commits'[c].merged = "yes" /\ commits'[c].branch = commits[c].branch]_gitVars

\* When all events are handled and all tasks done, a pull request has the state it
\* has at the provider, unless the last change was one that the handlers of its
\* provider do not know, or that came before there was a row to write or while the
\* repository was not active.
QuietPullsAgree ==
    queue = <<>> /\ tasks = {} =>
        \A p \in Pulls : pulls[p] # Nothing /\ remote[p] # "none" /\ p \notin unseen =>
            pulls[p].state = remote[p]

\* And there is such a moment after every change: once the provider sends nothing
\* more, every pull request that GitHub has told of while the repository is active
\* comes to have its row and its state.
PullsConverge ==
    \A p \in Pulls :
        [](sent = MaxEvents /\ service = "github" =>
            <>[](p \in unseen \/ remote[p] = "none"
               \/ (pulls[p] # Nothing /\ pulls[p].state = remote[p])))

\* GitTypeOK, HeadsAreNotStale and QuietPullsAgree: the rows of branches and pull requests
\* are what the events that were handled say of them, in whatever order these were handled.
\* (webhook_handlers/views/, core/models.py, the triggers of the migrations)
RowsFollowEvents == GitTypeOK /\ HeadsAreNotStale /\ QuietPullsAgree

-----------------------------------------------------------------------------
(***************************************************************************)
(* Proofs, for any number of commits, branches, pull requests and events.  *)
(*                                                                         *)
(* Heads: a commit that is complete has its branch, and its pull request   *)
(* has a row; every write of a complete commit moves the heads.            *)
(* States: either an event that changed the pull request is on its way,    *)
(* and the last such tells its state; or a task will ask for it, or the    *)
(* row has it, or the change was one that no handler writes.               *)
(***************************************************************************)
Events == [kind : {"pull"}, action : DOMAIN After, on : Pulls]
          \cup [kind : {"push"}, branch : Branches, ids : SUBSET Commits]
          \cup [kind : {"delete"}, on : Branches]
          \cup [kind : {"status"}, on : Commits]

CommitRow == [state : {"absent", "pending", "complete"}, branch : Branches \cup {Nothing},
              pullid : Pulls \cup {Nothing}, merged : {"unknown", "no", "yes"}]

PullRow == [head : Commits \cup {Nothing}, state : {"open", "merged", "closed"}]

\* The queue
Delivers ==
    /\ queue \in Seq(Events)
    /\ \A i \in DOMAIN queue : queue[i].kind = "pull" => remote[queue[i].on] # "none"

\* Events and tasks are about pull requests that the provider has.
OnTheWay ==
    /\ Delivers
    /\ \A e \in pushing : e.branch \in Branches /\ e.ids \subseteq Commits
    /\ \A t \in tasks : /\ t.name = "pulls_sync" => t.on \in Pulls /\ remote[t.on] # "none"
                        /\ t.name = "notify" => t.on \in Commits

RowsAreWhole ==
    \A c \in Commits :
        /\ commits[c].state = "absent" => commits[c].merged = "unknown"
        /\ commits[c].state # "absent" => commits[c].branch \in Branches
        /\ commits[c].pullid # Nothing => pulls[commits[c].pullid] # Nothing

Changes(e, p) == e.kind = "pull" /\ e.on = p /\ e.action # "synchronize"

\* The last change of p is on its way.
OnItsWay(p) ==
    \E i \in DOMAIN queue :
        /\ Changes(queue[i], p) /\ After[queue[i].action] = remote[p]
        /\ \A k \in DOMAIN queue : k > i => ~Changes(queue[k], p)

Quiet(p) == \A i \in DOMAIN queue : ~Changes(queue[i], p)

\* No change of p is on its way, and what was told of p is known, will be or is lost.
Told(p) ==
    /\ Quiet(p)
    /\ \/ p \in unseen
       \/ \E t \in tasks : t.name = "pulls_sync" /\ t.on = p
       \/ pulls[p] # Nothing /\ pulls[p].state = remote[p]

Agrees(p) == remote[p] # "none" => OnItsWay(p) \/ Told(p)

GitInv ==
    /\ GitTypeOK /\ OnTheWay /\ RowsAreWhole /\ HeadsAreNotStale
    /\ \A p \in Pulls : Agrees(p)

-----------------------------------------------------------------------------
LEMMA MaxOf ==
    ASSUME NEW S \in SUBSET Commits, S # {}
    PROVE  Max(S) \in S /\ \A y \in S : Max(S) >= y
<1> DEFINE T == {MaxCommit - x : x \in S}
<1>1. T \subseteq Nat /\ T # {}
  BY EventsAssumption DEF Commits
<1>2. PICK m \in T : \A y \in T : ~(<<y, m>> \in OpToRel(<, Nat))
  BY <1>1, NatLessThanWellFounded, WFMin
<1>3. PICK x \in S : m = MaxCommit - x
  BY <1>2
<1>4. ASSUME NEW y \in S PROVE x >= y
  <2>1. MaxCommit - y \in T
    OBVIOUS
  <2>2. ~(MaxCommit - y < m)
    BY <1>1, <1>2, <2>1 DEF OpToRel
  <2>3. x \in Int /\ y \in Int /\ MaxCommit \in Int
    BY EventsAssumption DEF Commits
  <2>4. QED
    BY <1>3, <2>2, <2>3
<1>5. QED
  BY <1>4 DEF Max

LEMMA NewHeadIsNewest ==
    ASSUME NEW head \in Commits \cup {Nothing}, NEW S \in SUBSET Commits
    PROVE  /\ NewHead(head, S) \in Commits \cup {Nothing}
           /\ head # Nothing => NewHead(head, S) # Nothing /\ NewHead(head, S) >= head
           /\ \A c \in S : NewHead(head, S) # Nothing /\ NewHead(head, S) >= c
<1>1. Commits \subseteq Int /\ Nothing \notin Commits
  BY NothingAssumption DEF Commits
<1>2. CASE S = {}
  BY <1>1, <1>2 DEF NewHead
<1>3. CASE S # {}
  <2> DEFINE m == Max(S)
  <2>1. m \in Commits /\ \A y \in S : m >= y
    BY <1>3, MaxOf
  <2>0. /\ m \in Int /\ m # Nothing /\ \A y \in S : y \in Int
        /\ head # Nothing => head \in Int
    BY <1>1, <2>1
  <2> HIDE DEF m
  <2>2. CASE head # Nothing /\ head > m
    <3>1. NewHead(head, S) = head
      BY <2>2 DEF NewHead, m
    <3>2. QED
      BY <2>0, <2>1, <2>2, <3>1
  <2>3. CASE ~(head # Nothing /\ head > m)
    <3>1. NewHead(head, S) = m
      BY <1>3, <2>3 DEF NewHead, m
    <3>2. QED
      BY <2>0, <2>1, <2>3, <3>1
  <2>4. QED
    BY <2>2, <2>3
<1>4. QED
  BY <1>2, <1>3

LEMMA Actions ==
    /\ \A a \in DOMAIN After : After[a] \in {"open", "merged", "closed"}
    /\ \A a \in DOMAIN Written : /\ a \in DOMAIN After /\ a # "synchronize"
                                 /\ Written[a] = After[a]
    /\ After["synchronize"] = "open" /\ Transitions["synchronize"] = {"open"}
BY DEF After, Written, Transitions

\* What one write of the table of commits does to the heads
LEMMA HeadsFollow ==
    ASSUME GitTypeOK, RowsAreWhole, HeadsAreNotStale,
           NEW rows \in [Commits -> CommitRow], commits' = rows,
           NEW S \in SUBSET Commits, commits_update_heads(commits', S), dropped' = dropped,
           \A c \in Commits : /\ rows[c] # commits[c] => c \in S
                              /\ rows[c].pullid = commits[c].pullid
                              /\ rows[c].state # "absent" => rows[c].branch \in Branches
                              /\ rows[c].state = "absent" => rows[c].merged = "unknown"
                              /\ commits[c].merged = "yes" => rows[c].merged = "yes"
    PROVE  /\ heads' \in [Branches -> Commits \cup {Nothing}]
           /\ pulls' \in [Pulls -> PullRow \cup {Nothing}]
           /\ \A p \in Pulls : /\ pulls[p] = Nothing => pulls'[p] = Nothing
                               /\ pulls[p] # Nothing => /\ pulls'[p] # Nothing
                                                        /\ pulls'[p].state = pulls[p].state
           /\ RowsAreWhole' /\ HeadsAreNotStale'
<1> DEFINE fired == {c \in S : rows[c].state = "complete" /\ rows[c] # commits[c]}
           On(b) == {c \in fired : rows[c].branch = b}
           Of(p) == {c \in fired : rows[c].pullid = p /\ rows[c].merged # "yes"}
<1>1. /\ heads \in [Branches -> Commits \cup {Nothing}]
      /\ pulls \in [Pulls -> PullRow \cup {Nothing}] /\ Nothing \notin PullRow
      /\ Nothing \notin Branches \cup Pulls \cup Commits
  BY NothingAssumption DEF GitTypeOK, PullRow, Commits
<1>2. /\ \A b \in Branches : heads'[b] = NewHead(heads[b], On(b))
      /\ heads' = [b \in Branches |-> NewHead(heads[b], On(b))]
      /\ pulls' = [p \in Pulls |-> IF pulls[p] = Nothing THEN Nothing
                                   ELSE [pulls[p] EXCEPT !.head = NewHead(@, Of(p))]]
  BY DEF commits_update_heads
<1>3. (\A b : On(b) \in SUBSET Commits) /\ \A p : Of(p) \in SUBSET Commits
  OBVIOUS
<1> HIDE DEF On, Of
<1>4. ASSUME NEW b \in Branches
      PROVE  /\ heads'[b] \in Commits \cup {Nothing}
             /\ heads[b] # Nothing => heads'[b] # Nothing /\ heads'[b] >= heads[b]
             /\ \A c \in On(b) : heads'[b] # Nothing /\ heads'[b] >= c
  <2>1. heads[b] \in Commits \cup {Nothing} /\ On(b) \in SUBSET Commits
    BY <1>1, <1>3
  <2>2. QED
    BY <1>2, <2>1, NewHeadIsNewest
<1>5. ASSUME NEW p \in Pulls, pulls[p] # Nothing
      PROVE  /\ pulls'[p] \in PullRow /\ pulls'[p].state = pulls[p].state
             /\ pulls[p].head # Nothing =>
                  pulls'[p].head # Nothing /\ pulls'[p].head >= pulls[p].head
             /\ \A c \in Of(p) : pulls'[p].head # Nothing /\ pulls'[p].head >= c
  <2> DEFINE h == pulls[p].head
             n == NewHead(h, Of(p))
  <2>1. pulls[p] \in PullRow /\ h \in Commits \cup {Nothing}
    BY <1>1, <1>5 DEF PullRow
  <2>2. /\ n \in Commits \cup {Nothing}
        /\ h # Nothing => n # Nothing /\ n >= h
        /\ \A c \in Of(p) : n # Nothing /\ n >= c
    BY <1>3, <2>1, NewHeadIsNewest
  <2>3. pulls'[p] = [pulls[p] EXCEPT !.head = n]
    BY <1>2, <1>5
  <2> HIDE DEF n
  <2>4. pulls'[p] \in PullRow /\ pulls'[p].head = n /\ pulls'[p].state = pulls[p].state
    BY <2>1, <2>2, <2>3 DEF PullRow
  <2>5. QED
    BY <2>2, <2>4
<1>6. \A p \in Pulls : pulls[p] = Nothing => pulls'[p] = Nothing
  BY <1>2
<1>7. \A p \in Pulls : pulls[p] # Nothing => pulls'[p] # Nothing
  BY <1>1, <1>5
<1>8. heads' \in [Branches -> Commits \cup {Nothing}]
  BY <1>2, <1>4
<1>9. pulls' \in [Pulls -> PullRow \cup {Nothing}]
  <2>1. \A p \in Pulls : pulls'[p] \in PullRow \cup {Nothing}
    BY <1>5, <1>6
  <2>2. QED
    BY <1>2, <2>1
<1>10. RowsAreWhole'
  <2> SUFFICES ASSUME NEW c \in Commits
               PROVE  /\ rows[c].state = "absent" => rows[c].merged = "unknown"
                      /\ rows[c].state # "absent" => rows[c].branch \in Branches
                      /\ rows[c].pullid # Nothing => pulls'[rows[c].pullid] # Nothing
    BY DEF RowsAreWhole
  <2>1. rows[c].pullid \in Pulls \cup {Nothing}
    BY DEF CommitRow
  <2>2. QED
    BY <1>7, <2>1 DEF RowsAreWhole
<1>11. HeadsAreNotStale'
  <2> SUFFICES ASSUME NEW c \in Commits, rows[c].state = "complete"
               PROVE  /\ rows[c].branch \notin dropped =>
                           heads'[rows[c].branch] # Nothing /\ heads'[rows[c].branch] >= c
                      /\ rows[c].pullid # Nothing /\ rows[c].merged # "yes" =>
                           /\ pulls'[rows[c].pullid].head # Nothing
                           /\ pulls'[rows[c].pullid].head >= c
    BY DEF HeadsAreNotStale
  <2> DEFINE b == rows[c].branch
             p == rows[c].pullid
  <2>1. b \in Branches /\ p \in Pulls \cup {Nothing}
        /\ (p # Nothing => p \in Pulls /\ pulls[p] # Nothing)
    BY DEF CommitRow, RowsAreWhole
  <2>2. /\ heads[b] \in Commits \cup {Nothing} /\ heads'[b] \in Commits \cup {Nothing}
        /\ p # Nothing => /\ pulls[p].head \in Commits \cup {Nothing}
                          /\ pulls'[p].head \in Commits \cup {Nothing}
    BY <1>1, <1>4, <1>5, <2>1 DEF PullRow
  <2>3. CASE rows[c] # commits[c]
    <3>1. c \in On(b) /\ (p # Nothing /\ rows[c].merged # "yes" => c \in Of(p))
      BY <2>3 DEF On, Of
    <3>2. QED
      BY <1>4, <1>5, <2>1, <3>1
  <2>4. CASE rows[c] = commits[c]
    <3>1. /\ b \notin dropped => heads[b] # Nothing /\ heads[b] >= c
          /\ p # Nothing /\ rows[c].merged # "yes" =>
               pulls[p].head # Nothing /\ pulls[p].head >= c
      BY <2>4 DEF HeadsAreNotStale
    <3>2. c \in Int /\ \A x \in Commits : x \in Int
      BY DEF Commits
    <3>3. b \notin dropped => heads'[b] # Nothing /\ heads'[b] >= c
      <4> SUFFICES ASSUME b \notin dropped PROVE heads'[b] # Nothing /\ heads'[b] >= c
        OBVIOUS
      <4>1. heads[b] # Nothing /\ heads[b] >= c
        BY <3>1
      <4>2. heads'[b] # Nothing /\ heads'[b] >= heads[b]
        BY <1>4, <2>1, <4>1
      <4>3. heads[b] \in Int /\ heads'[b] \in Int
        BY <2>2, <3>2, <4>1, <4>2
      <4>4. QED
        BY <3>2, <4>1, <4>2, <4>3
    <3>4. p # Nothing /\ rows[c].merged # "yes" =>
               pulls'[p].head # Nothing /\ pulls'[p].head >= c
      <4> SUFFICES ASSUME p # Nothing, rows[c].merged # "yes"
                   PROVE  pulls'[p].head # Nothing /\ pulls'[p].head >= c
        OBVIOUS
      <4>1. pulls[p].head # Nothing /\ pulls[p].head >= c
        BY <3>1
      <4>2. pulls'[p].head # Nothing /\ pulls'[p].head >= pulls[p].head
        BY <1>5, <2>1, <4>1
      <4>3. pulls[p].head \in Int /\ pulls'[p].head \in Int
        BY <2>2, <3>2, <4>1, <4>2
      <4>4. QED
        BY <3>2, <4>1, <4>2, <4>3
    <3>5. QED
      BY <3>3, <3>4
  <2>5. QED
    BY <2>3, <2>4
<1>12. QED
  BY <1>1, <1>5, <1>6, <1>7, <1>8, <1>9, <1>10, <1>11

-----------------------------------------------------------------------------
\* The first event is received.
LEMMA EventReceived ==
    ASSUME Delivers, queue # <<>>, queue' = Tail(queue), remote' = remote
    PROVE  /\ Delivers' /\ Event \in Events
           /\ Event.kind = "pull" => remote[Event.on] # "none"
           /\ \A p : Quiet(p) => Quiet(p)' /\ ~Changes(Event, p)
           /\ \A p : OnItsWay(p) =>
                \/ OnItsWay(p)'
                \/ Quiet(p)' /\ Changes(Event, p) /\ After[Event.action] = remote[p]
<1>1. /\ queue \in Seq(Events) /\ Len(queue) \in Nat /\ Len(queue) > 0
      /\ DOMAIN queue = 1..Len(queue)
  BY DEF Delivers
<1>2. Event = queue[1] /\ 1 \in DOMAIN queue /\ Event \in Events
  BY <1>1 DEF Event
<1>3. /\ queue' \in Seq(Events) /\ Len(queue') = Len(queue) - 1
      /\ DOMAIN queue' = 1..Len(queue')
      /\ \A i \in DOMAIN queue' : i + 1 \in DOMAIN queue /\ queue'[i] = queue[i + 1]
  BY <1>1
<1>4. Delivers'
  BY <1>3 DEF Delivers
<1>5. ASSUME NEW p, Quiet(p) PROVE Quiet(p)' /\ ~Changes(Event, p)
  BY <1>2, <1>3, <1>5 DEF Quiet
<1>6. ASSUME NEW p, OnItsWay(p)
      PROVE  \/ OnItsWay(p)'
             \/ Quiet(p)' /\ Changes(Event, p) /\ After[Event.action] = remote[p]
  <2>1. PICK i \in DOMAIN queue :
               /\ Changes(queue[i], p) /\ After[queue[i].action] = remote[p]
               /\ \A k \in DOMAIN queue : k > i => ~Changes(queue[k], p)
    BY <1>6 DEF OnItsWay
  <2>2. CASE i = 1
    <3>1. \A k \in DOMAIN queue' : ~Changes(queue'[k], p)
      BY <1>1, <1>3, <2>1, <2>2
    <3>2. QED
      BY <1>2, <2>1, <2>2, <3>1 DEF Quiet
  <2>3. CASE i # 1
    <3> DEFINE k == i - 1
    <3>1. k \in DOMAIN queue' /\ queue'[k] = queue[i]
      BY <1>1, <1>3, <2>3
    <3>2. \A m \in DOMAIN queue' : m > k => ~Changes(queue'[m], p)
      BY <1>1, <1>3, <2>1
    <3>3. QED
      BY <2>1, <3>1, <3>2 DEF OnItsWay
  <2>4. QED
    BY <2>2, <2>3
<1>7. QED
  BY <1>2, <1>4, <1>5, <1>6 DEF Delivers

\* An event is sent.
LEMMA EventSent ==
    ASSUME Delivers, NEW e \in Events, queue' = Append(queue, e),
           \A q \in Pulls : remote[q] # "none" => remote'[q] # "none",
           e.kind = "pull" => remote'[e.on] # "none"
    PROVE  /\ Delivers'
           /\ \A p : ~Changes(e, p) /\ Quiet(p) => Quiet(p)'
           /\ \A p : ~Changes(e, p) /\ OnItsWay(p) /\ remote'[p] = remote[p] => OnItsWay(p)'
           /\ \A p : Changes(e, p) /\ After[e.action] = remote'[p] => OnItsWay(p)'
<1> DEFINE n == Len(queue) + 1
<1>1. /\ queue \in Seq(Events) /\ Len(queue) \in Nat /\ DOMAIN queue = 1..Len(queue)
  BY DEF Delivers
<1>2. /\ queue' \in Seq(Events) /\ DOMAIN queue' = 1..n /\ n \in DOMAIN queue' /\ queue'[n] = e
      /\ \A i \in DOMAIN queue : i \in DOMAIN queue' /\ queue'[i] = queue[i] /\ i < n
      /\ \A i \in DOMAIN queue' : i = n \/ i \in DOMAIN queue
  BY <1>1
<1>3. ASSUME NEW i \in DOMAIN queue', queue'[i].kind = "pull" PROVE remote'[queue'[i].on] # "none"
  <2>1. CASE i = n
    BY <1>2, <1>3, <2>1
  <2>2. CASE i \in DOMAIN queue
    <3>1. queue'[i] = queue[i] /\ queue[i] \in Events /\ remote[queue[i].on] # "none"
      BY <1>1, <1>2, <1>3, <2>2 DEF Delivers
    <3>2. queue[i].on \in Pulls
      BY <1>3, <3>1 DEF Events
    <3>3. QED
      BY <3>1, <3>2
  <2>3. QED
    BY <1>2, <2>1, <2>2
<1>4. Delivers'
  BY <1>2, <1>3 DEF Delivers
<1>5. ASSUME NEW p, ~Changes(e, p), Quiet(p) PROVE Quiet(p)'
  BY <1>2, <1>5 DEF Quiet
<1>6. ASSUME NEW p, ~Changes(e, p), OnItsWay(p), remote'[p] = remote[p] PROVE OnItsWay(p)'
  BY <1>2, <1>6 DEF OnItsWay
<1>7. ASSUME NEW p, Changes(e, p), After[e.action] = remote'[p] PROVE OnItsWay(p)'
  <2>1. \A k \in DOMAIN queue' : ~(k > n)
    BY <1>1, <1>2
  <2>2. QED
    BY <1>2, <1>7, <2>1 DEF OnItsWay
<1>8. QED
  BY <1>4, <1>5, <1>6, <1>7

\* A step that is about no pull request keeps what was told of them.
LEMMA AgreementStays ==
    ASSUME Delivers, \A p \in Pulls : Agrees(p), remote' = remote, unseen' = unseen,
           \/ queue' = queue
           \/ queue # <<>> /\ Event.kind # "pull" /\ queue' = Tail(queue)
           \/ \E e \in Events : e.kind # "pull" /\ queue' = Append(queue, e),
           \A t \in tasks : t.name = "pulls_sync" => t \in tasks',
           \A p \in Pulls : pulls[p] # Nothing => /\ pulls'[p] # Nothing
                                                 /\ pulls'[p].state = pulls[p].state
    PROVE  Delivers' /\ \A p \in Pulls : Agrees(p)'
<1>1. Delivers' /\ \A p \in Pulls : (OnItsWay(p) => OnItsWay(p)') /\ (Quiet(p) => Quiet(p)')
  <2>1. CASE queue' = queue
    BY <2>1 DEF Delivers, OnItsWay, Quiet
  <2>2. CASE queue # <<>> /\ Event.kind # "pull" /\ queue' = Tail(queue)
    <3>1. \A p : ~Changes(Event, p)
      BY <2>2 DEF Changes
    <3>2. QED
      BY <2>2, <3>1, EventReceived
  <2>3. ASSUME NEW e \in Events, e.kind # "pull", queue' = Append(queue, e)
        PROVE  Delivers' /\ \A p \in Pulls : (OnItsWay(p) => OnItsWay(p)') /\ (Quiet(p) => Quiet(p)')
    <3>1. \A p : ~Changes(e, p)
      BY <2>3 DEF Changes
    <3>2. QED
      BY <2>3, <3>1, EventSent
  <2>4. QED
    BY <2>1, <2>2, <2>3
<1>2. ASSUME NEW p \in Pulls, Agrees(p) PROVE Agrees(p)'
  BY <1>1, <1>2 DEF Agrees, Told, Quiet
<1>3. QED
  BY <1>1, <1>2

-----------------------------------------------------------------------------
\* The table of commits is written, by the worker or by a push.
LEMMA RowsWritten ==
    ASSUME GitInv, NEW rows \in [Commits -> CommitRow], commits' = rows,
           NEW S \in SUBSET Commits, commits_update_heads(commits', S),
           UNCHANGED <<service, active, remote, dropped, unseen>>,
           \A c \in Commits : /\ rows[c] # commits[c] => c \in S
                              /\ rows[c].pullid = commits[c].pullid
                              /\ rows[c].state # "absent" => rows[c].branch \in Branches
                              /\ rows[c].state = "absent" => rows[c].merged = "unknown"
                              /\ commits[c].merged = "yes" => rows[c].merged = "yes"
                              /\ commits[c].state # "absent" => rows[c].state # "absent",
           \/ queue' = queue
           \/ queue # <<>> /\ Event.kind # "pull" /\ queue' = Tail(queue),
           \A e \in pushing' : e.branch \in Branches /\ e.ids \subseteq Commits,
           tasks \subseteq tasks', \A t \in tasks' \ tasks : t.name = "status_set_pending"
    PROVE  GitInv'
<1>1. /\ heads' \in [Branches -> Commits \cup {Nothing}]
      /\ pulls' \in [Pulls -> PullRow \cup {Nothing}]
      /\ \A p \in Pulls : pulls[p] # Nothing => /\ pulls'[p] # Nothing
                                               /\ pulls'[p].state = pulls[p].state
      /\ RowsAreWhole' /\ HeadsAreNotStale'
  BY HeadsFollow DEF GitInv
<1>2. Delivers' /\ \A p \in Pulls : Agrees(p)'
  BY <1>1, AgreementStays DEF GitInv, OnTheWay
<1>3. \A t \in tasks' : t.name = "notify" => commits'[t.on].state # "absent"
  <2> SUFFICES ASSUME NEW t \in tasks', t.name = "notify"
               PROVE  rows[t.on].state # "absent"
    OBVIOUS
  <2>1. t \in tasks /\ commits[t.on].state # "absent"
    BY DEF GitInv, GitTypeOK
  <2>2. t.on \in Commits
    BY <2>1 DEF GitInv, OnTheWay
  <2>3. QED
    BY <2>1, <2>2
<1>4. GitTypeOK'
  BY <1>1, <1>3 DEF GitInv, GitTypeOK, CommitRow, PullRow
<1>5. OnTheWay'
  BY <1>2 DEF GitInv, OnTheWay
<1>6. QED
  BY <1>1, <1>2, <1>4, <1>5 DEF GitInv

\* Nothing is written: a commit is told of, a branch deleted or pushed to.
LEMMA RowsUntouched ==
    ASSUME GitInv, UNCHANGED <<service, active, commits, pulls, remote, pushing, unseen>>,
           \/ heads' = heads
           \/ \E b \in Branches : heads' = [heads EXCEPT ![b] = Nothing] /\ b \in dropped',
           dropped \subseteq dropped', dropped' \subseteq Branches,
           \/ queue' = queue
           \/ queue # <<>> /\ Event.kind # "pull" /\ queue' = Tail(queue)
           \/ \E e \in Events : e.kind # "pull" /\ queue' = Append(queue, e),
           \A t \in tasks : t.name = "pulls_sync" => t \in tasks',
           \A t \in tasks' \ tasks : /\ t.name = "notify" /\ t.on \in Commits
                                   /\ commits[t.on].state # "absent"
    PROVE  GitInv'
<1>1. Delivers' /\ \A p \in Pulls : Agrees(p)'
  BY AgreementStays DEF GitInv, OnTheWay
<1>2. /\ heads' \in [Branches -> Commits \cup {Nothing}]
      /\ \A b \in Branches : b \notin dropped' => heads'[b] = heads[b]
  BY DEF GitInv, GitTypeOK
<1>3. RowsAreWhole'
  BY DEF GitInv, RowsAreWhole
<1>4. HeadsAreNotStale'
  BY <1>2 DEF GitInv, HeadsAreNotStale, RowsAreWhole
<1>5. GitTypeOK'
  BY <1>2 DEF GitInv, GitTypeOK
<1>6. OnTheWay'
  BY <1>1 DEF GitInv, OnTheWay
<1>7. QED
  BY <1>1, <1>3, <1>4, <1>5, <1>6 DEF GitInv

LEMMA InsertKeeps ==
    ASSUME GitInv, NEW c \in Commits, NEW branch \in Branches, NEW pullid \in Pulls \cup {Nothing},
           NEW merged \in {"unknown", "no"}, Insert(c, branch, pullid, merged)
    PROVE  GitInv'
<1> DEFINE row == [state |-> "pending", branch |-> branch, pullid |-> pullid, merged |-> merged]
           new == [head |-> c, state |-> "open"]
<1>1. /\ commits[c].state = "absent" /\ commits' = [commits EXCEPT ![c] = row]
      /\ pulls' = (IF pullid = Nothing \/ pulls[pullid] # Nothing THEN pulls
                   ELSE [pulls EXCEPT ![pullid] = new])
      /\ heads' = (IF branch = Nothing \/ heads[branch] # Nothing THEN heads
                   ELSE [heads EXCEPT ![branch] = c])
      /\ active' = TRUE
      /\ UNCHANGED <<service, remote, queue, pushing, tasks, sent, dropped, unseen>>
  BY DEF Insert, commits_insert_pr_branch
<1>2. /\ commits \in [Commits -> CommitRow] /\ row \in CommitRow
      /\ heads \in [Branches -> Commits \cup {Nothing}]
      /\ pulls \in [Pulls -> PullRow \cup {Nothing}] /\ new \in PullRow
      /\ Nothing \notin PullRow /\ Nothing \notin Branches \cup Pulls \cup Commits
  BY NothingAssumption DEF GitInv, GitTypeOK, CommitRow, PullRow, Commits
<1>3. /\ commits' \in [Commits -> CommitRow] /\ commits'[c] = row
      /\ \A d \in Commits \ {c} : commits'[d] = commits[d]
  BY <1>1, <1>2
<1>4. /\ heads' \in [Branches -> Commits \cup {Nothing}]
      /\ \A b \in Branches : heads[b] # Nothing => heads'[b] = heads[b]
  BY <1>1, <1>2
<1>5. /\ pulls' \in [Pulls -> PullRow \cup {Nothing}]
      /\ \A p \in Pulls : pulls[p] # Nothing => pulls'[p] = pulls[p]
      /\ pullid # Nothing => pulls'[pullid] # Nothing
  BY <1>1, <1>2
<1> HIDE DEF new
<1>6. Delivers' /\ \A p \in Pulls : Agrees(p)'
  BY <1>1, <1>5, AgreementStays DEF GitInv, OnTheWay
<1>7. RowsAreWhole'
  <2> SUFFICES ASSUME NEW d \in Commits
               PROVE  /\ commits'[d].state = "absent" => commits'[d].merged = "unknown"
                      /\ commits'[d].state # "absent" => commits'[d].branch \in Branches
                      /\ commits'[d].pullid # Nothing => pulls'[commits'[d].pullid] # Nothing
    BY DEF RowsAreWhole
  <2>1. CASE d = c
    BY <1>3, <1>5, <2>1
  <2>2. CASE d # c
    <3>1. commits[d].pullid \in Pulls \cup {Nothing}
      BY <1>2 DEF CommitRow
    <3>2. QED
      BY <1>3, <1>5, <2>2, <3>1 DEF GitInv, RowsAreWhole
  <2>3. QED
    BY <2>1, <2>2
<1>8. HeadsAreNotStale'
  <2> SUFFICES ASSUME NEW d \in Commits, commits'[d].state = "complete"
               PROVE  /\ commits'[d].branch \notin dropped =>
                           /\ heads'[commits'[d].branch] # Nothing
                           /\ heads'[commits'[d].branch] >= d
                      /\ commits'[d].pullid # Nothing /\ commits'[d].merged # "yes" =>
                           /\ pulls'[commits'[d].pullid].head # Nothing
                           /\ pulls'[commits'[d].pullid].head >= d
    BY <1>1 DEF HeadsAreNotStale
  <2>1. d # c /\ commits'[d] = commits[d]
    BY <1>3
  <2>2. /\ commits[d].branch \in Branches /\ commits[d].pullid \in Pulls \cup {Nothing}
        /\ commits[d].pullid # Nothing => pulls[commits[d].pullid] # Nothing
    BY <1>2, <2>1 DEF CommitRow, GitInv, RowsAreWhole
  <2>3. QED
    BY <1>4, <1>5, <2>1, <2>2 DEF GitInv, HeadsAreNotStale
<1>9. GitTypeOK'
  <2>1. \A t \in tasks : t.name = "notify" => commits'[t.on].state # "absent"
    BY <1>1, <1>2 DEF GitInv, GitTypeOK
  <2>2. QED
    BY <1>1, <1>3, <1>4, <1>5, <2>1 DEF GitInv, GitTypeOK, CommitRow, PullRow
<1>10. OnTheWay'
  BY <1>1, <1>6 DEF GitInv, OnTheWay
<1>11. QED
  BY <1>6, <1>7, <1>8, <1>9, <1>10 DEF GitInv

LEMMA InsertAgainKeeps ==
    ASSUME GitInv, NEW c \in Commits, InsertAgain(c)
    PROVE  GitInv'
<1>1. /\ commits \in [Commits -> CommitRow] /\ commits[c].state # "absent"
      /\ UNCHANGED <<service, heads, pulls, remote, queue, pushing, tasks, sent, dropped, unseen>>
  BY DEF GitInv, GitTypeOK, CommitRow, InsertAgain
<1>2. PICK state \in {"pending", commits[c].state} :
         commits' = [commits EXCEPT ![c].state = state]
  BY DEF InsertAgain
<1>3. /\ commits' \in [Commits -> CommitRow]
      /\ \A d \in Commits : /\ commits'[d].branch = commits[d].branch
                            /\ commits'[d].pullid = commits[d].pullid
                            /\ commits'[d].merged = commits[d].merged
                            /\ commits[d].state = "absent" <=> commits'[d].state = "absent"
                            /\ commits'[d].state = "complete" => commits[d].state = "complete"
  BY <1>1, <1>2 DEF CommitRow
<1>4. Delivers' /\ \A p \in Pulls : Agrees(p)'
  BY <1>1, AgreementStays DEF GitInv, OnTheWay
<1>5. RowsAreWhole'
  BY <1>1, <1>3 DEF GitInv, RowsAreWhole
<1>6. HeadsAreNotStale'
  BY <1>1, <1>3 DEF GitInv, HeadsAreNotStale
<1>7. active' \in BOOLEAN
  BY DEF InsertAgain
<1>8. GitTypeOK'
  <2>1. \A t \in tasks : t.name = "notify" => commits'[t.on].state # "absent"
    BY <1>3 DEF GitInv, GitTypeOK, OnTheWay
  <2>2. QED
    BY <1>1, <1>3, <1>7, <2>1 DEF GitInv, GitTypeOK, CommitRow
<1>9. OnTheWay'
  BY <1>1, <1>4 DEF GitInv, OnTheWay
<1>10. QED
  BY <1>4, <1>5, <1>6, <1>8, <1>9 DEF GitInv

LEMMA CompleteKeeps ==
    ASSUME GitInv, NEW c \in Commits, Complete(c)
    PROVE  GitInv'
<1>1. commits \in [Commits -> CommitRow] /\ commits[c].state = "pending"
  BY DEF GitInv, GitTypeOK, CommitRow, Complete
<1>2. PICK merged \in {"no", commits[c].merged} :
         commits' = [commits EXCEPT ![c].state = "complete",
                                    ![c].merged = IF @ = "unknown" THEN merged ELSE @]
  BY DEF Complete
<1> DEFINE row == [commits[c] EXCEPT !.state = "complete",
                                     !.merged = IF @ = "unknown" THEN merged ELSE @]
           rows == [commits EXCEPT ![c] = row]
<1>3. commits' = rows
  BY <1>1, <1>2
<1>4. /\ row \in CommitRow /\ row.state = "complete" /\ row.branch = commits[c].branch
      /\ row.pullid = commits[c].pullid /\ (commits[c].merged = "yes" => row.merged = "yes")
  BY <1>1 DEF CommitRow
<1> HIDE DEF row
<1>5. /\ rows \in [Commits -> CommitRow] /\ rows[c] = row
      /\ \A d \in Commits \ {c} : rows[d] = commits[d]
  BY <1>1, <1>4
<1> HIDE DEF rows
<1>6. \A d \in Commits : /\ rows[d] # commits[d] => d \in {c}
                         /\ rows[d].pullid = commits[d].pullid
                         /\ rows[d].state # "absent" => rows[d].branch \in Branches
                         /\ rows[d].state = "absent" => rows[d].merged = "unknown"
                         /\ commits[d].merged = "yes" => rows[d].merged = "yes"
                         /\ commits[d].state # "absent" => rows[d].state # "absent"
  BY <1>1, <1>4, <1>5 DEF GitInv, RowsAreWhole
<1>7. /\ commits_update_heads(commits', {c})
      /\ UNCHANGED <<service, active, remote, queue, pushing, tasks, sent, dropped, unseen>>
  BY DEF Complete
<1>8. \A e \in pushing' : e.branch \in Branches /\ e.ids \subseteq Commits
  BY <1>7 DEF GitInv, OnTheWay
<1>9. {c} \in SUBSET Commits /\ tasks \subseteq tasks' /\ tasks' \ tasks = {}
  BY <1>7
<1>10. QED
  BY <1>3, <1>5, <1>6, <1>7, <1>8, <1>9, RowsWritten

OnBranch(row, b) == [row EXCEPT !.branch = b]
AsMerged(row) == [row EXCEPT !.merged = "yes"]

\* Both updates of a push: unmerged commits get another branch, or are merged.
LEMMA PushedRow ==
    ASSUME GitInv, NEW b \in Branches, NEW c \in Commits, NEW row,
           \/ row = commits[c]
           \/ /\ commits[c].merged = "no"
              /\ row = OnBranch(commits[c], b) \/ row = AsMerged(commits[c])
    PROVE  /\ row \in CommitRow
           /\ row.pullid = commits[c].pullid
           /\ row.state # "absent" => row.branch \in Branches
           /\ row.state = "absent" => row.merged = "unknown"
           /\ commits[c].merged = "yes" => row.merged = "yes"
           /\ commits[c].state # "absent" => row.state # "absent"
<1>1. commits[c] \in CommitRow
  BY DEF GitInv, GitTypeOK, CommitRow
<1>2. /\ commits[c].state = "absent" => commits[c].merged = "unknown"
      /\ commits[c].state # "absent" => commits[c].branch \in Branches
  BY DEF GitInv, RowsAreWhole
<1>3. CASE row = commits[c]
  BY <1>1, <1>2, <1>3
<1>4. CASE row # commits[c]
  BY <1>1, <1>2, <1>4 DEF CommitRow, OnBranch, AsMerged
<1>5. QED
  BY <1>3, <1>4

LEMMA PushKeeps ==
    ASSUME GitInv, Push
    PROVE  GitInv'
<1>1. /\ queue # <<>> /\ Event.kind = "push" /\ queue' = Tail(queue) /\ Event \in Events
      /\ UNCHANGED <<service, active, remote, tasks, sent, dropped, unseen>>
  BY EventReceived DEF Push, GitInv, OnTheWay
<1>2. Event.branch \in Branches /\ Event.ids \in SUBSET Commits
  BY <1>1 DEF Events
<1>3. CASE UNCHANGED <<commits, heads, pulls, pushing>>
  BY <1>1, <1>3, RowsUntouched DEF GitInv, GitTypeOK
<1>4. CASE ~UNCHANGED <<commits, heads, pulls, pushing>>
  <2>1. PICK S \in SUBSET Commits, b \in Branches : S = Event.ids /\ b = Event.branch
    BY <1>2
  <2>2. PICK rows :
        /\ rows = [c \in Commits |-> IF c \in Unmerged(S)
                           THEN [commits[c] EXCEPT !.branch = b] ELSE commits[c]]
        /\ commits' = rows /\ commits_update_heads(commits', S)
        /\ pushing' = pushing \cup {[branch |-> b, ids |-> S]}
    BY <1>4, <2>1 DEF Push
  <2>3. /\ rows \in [Commits -> CommitRow]
        /\ \A c \in Commits : /\ rows[c] # commits[c] => c \in S
                              /\ rows[c].pullid = commits[c].pullid
                              /\ rows[c].state # "absent" => rows[c].branch \in Branches
                              /\ rows[c].state = "absent" => rows[c].merged = "unknown"
                              /\ commits[c].merged = "yes" => rows[c].merged = "yes"
                              /\ commits[c].state # "absent" => rows[c].state # "absent"
    <3>1. \A c \in Commits :
            \/ rows[c] = commits[c]
            \/ /\ c \in S /\ commits[c].merged = "no"
               /\ rows[c] = OnBranch(commits[c], b)
      BY <2>2 DEF Unmerged, OnBranch
    <3>2. \A c \in Commits : /\ rows[c] \in CommitRow
                             /\ rows[c].pullid = commits[c].pullid
                             /\ rows[c].state # "absent" => rows[c].branch \in Branches
                             /\ rows[c].state = "absent" => rows[c].merged = "unknown"
                             /\ commits[c].merged = "yes" => rows[c].merged = "yes"
                             /\ commits[c].state # "absent" => rows[c].state # "absent"
      BY <3>1, PushedRow
    <3>3. rows \in [Commits -> CommitRow]
      BY <2>2, <3>2
    <3>4. QED
      BY <3>1, <3>2, <3>3
  <2>4. \A x \in pushing' : x.branch \in Branches /\ x.ids \subseteq Commits
    BY <2>2 DEF GitInv, OnTheWay
  <2>5. tasks \subseteq tasks' /\ tasks' \ tasks = {}
    BY <1>1
  <2>6. QED
    BY <1>1, <2>2, <2>3, <2>4, <2>5, RowsWritten
<1>5. QED
  BY <1>3, <1>4

LEMMA PushMergedKeeps ==
    ASSUME GitInv, NEW e \in pushing, PushMerged(e)
    PROVE  GitInv'
<1>1. PICK S \in SUBSET Commits, b \in Branches : S = e.ids /\ b = e.branch
  BY DEF GitInv, OnTheWay
<1>2. PICK rows :
      /\ rows = [c \in Commits |-> IF b = Default /\ c \in Unmerged(S)
                                    THEN [commits[c] EXCEPT !.merged = "yes"] ELSE commits[c]]
      /\ commits' = rows /\ commits_update_heads(commits', S) /\ pushing' = pushing \ {e}
      /\ UNCHANGED <<service, active, remote, queue, sent, dropped, unseen>>
  BY <1>1 DEF PushMerged
<1>3. /\ rows \in [Commits -> CommitRow]
      /\ \A c \in Commits : /\ rows[c] # commits[c] => c \in S
                            /\ rows[c].pullid = commits[c].pullid
                            /\ rows[c].state # "absent" => rows[c].branch \in Branches
                            /\ rows[c].state = "absent" => rows[c].merged = "unknown"
                            /\ commits[c].merged = "yes" => rows[c].merged = "yes"
                            /\ commits[c].state # "absent" => rows[c].state # "absent"
  <2>1. \A c \in Commits :
          \/ rows[c] = commits[c]
          \/ /\ c \in S /\ commits[c].merged = "no"
             /\ rows[c] = AsMerged(commits[c])
    BY <1>2 DEF Unmerged, AsMerged
  <2>2. \A c \in Commits : /\ rows[c] \in CommitRow
                           /\ rows[c].pullid = commits[c].pullid
                           /\ rows[c].state # "absent" => rows[c].branch \in Branches
                           /\ rows[c].state = "absent" => rows[c].merged = "unknown"
                           /\ commits[c].merged = "yes" => rows[c].merged = "yes"
                           /\ commits[c].state # "absent" => rows[c].state # "absent"
    BY <2>1, PushedRow
  <2>3. rows \in [Commits -> CommitRow]
    BY <1>2, <2>2
  <2>4. QED
    BY <2>1, <2>2, <2>3
<1>4. \A x \in pushing' : x.branch \in Branches /\ x.ids \subseteq Commits
  BY <1>2 DEF GitInv, OnTheWay
<1>5. \/ tasks' = tasks \cup {[name |-> "status_set_pending", on |-> Max(e.ids)]}
      \/ tasks' = tasks
  BY DEF PushMerged
<1>6. tasks \subseteq tasks' /\ \A t \in tasks' \ tasks : t.name = "status_set_pending"
  BY <1>5
<1>7. QED
  BY <1>2, <1>3, <1>4, <1>6, RowsWritten

LEMMA DeleteKeeps ==
    ASSUME GitInv, DeleteBranch
    PROVE  GitInv'
<1>1. /\ queue # <<>> /\ Event.kind = "delete" /\ queue' = Tail(queue) /\ Event \in Events
      /\ UNCHANGED <<service, active, commits, remote, sent, pulls, pushing, tasks, unseen>>
  BY EventReceived DEF DeleteBranch, Receive, Event, GitInv, OnTheWay
<1>2. Event.on \in Branches /\ dropped \subseteq Branches
  BY <1>1 DEF Events, GitInv, GitTypeOK
<1>3. \/ heads' = heads /\ dropped' = dropped
      \/ /\ heads' = [heads EXCEPT ![Event.on] = Nothing]
         /\ dropped' = dropped \cup {Event.on}
  BY DEF DeleteBranch
<1>4. \/ heads' = heads
      \/ \E b \in Branches : heads' = [heads EXCEPT ![b] = Nothing] /\ b \in dropped'
  BY <1>2, <1>3
<1>5. dropped \subseteq dropped' /\ dropped' \subseteq Branches
  BY <1>2, <1>3
<1>6. QED
  BY <1>1, <1>4, <1>5, RowsUntouched

LEMMA StatusKeeps ==
    ASSUME GitInv, StatusEvent
    PROVE  GitInv'
<1>1. /\ queue # <<>> /\ Event.kind = "status" /\ queue' = Tail(queue) /\ Event \in Events
      /\ UNCHANGED <<service, active, commits, remote, sent, heads, pulls, pushing, dropped,
                     unseen>>
  BY EventReceived DEF StatusEvent, Receive, Event, GitInv, OnTheWay
<1>2. Event.on \in Commits /\ dropped \subseteq Branches
  BY <1>1 DEF Events, GitInv, GitTypeOK
<1>3. /\ tasks \subseteq tasks'
      /\ \A t \in tasks' \ tasks : /\ t.name = "notify" /\ t.on \in Commits
                                   /\ commits[t.on].state # "absent"
  BY <1>2 DEF StatusEvent, Notifiable
<1>4. QED
  BY <1>1, <1>2, <1>3, RowsUntouched

\* An event that is about no pull request is sent.
LEMMA SendKeeps ==
    ASSUME GitInv,
           \/ \E b \in Branches, S \in SUBSET Commits : SendPush(b, S)
           \/ \E b \in Branches : SendDelete(b)
           \/ \E c \in Commits : SendStatus(c)
    PROVE  GitInv'
<1>1. /\ UNCHANGED <<service, active, commits, heads, pulls, remote, pushing, tasks, dropped,
                     unseen>>
      /\ \E e \in Events : e.kind # "pull" /\ queue' = Append(queue, e)
  <2>1. ASSUME NEW b \in Branches, NEW S \in SUBSET Commits, SendPush(b, S)
        PROVE  \E e \in Events : e.kind # "pull" /\ queue' = Append(queue, e)
    <3>1. [kind |-> "push", branch |-> b, ids |-> S] \in Events
      BY DEF Events
    <3>2. QED
      BY <2>1, <3>1 DEF SendPush, Send
  <2>2. ASSUME NEW b \in Branches, SendDelete(b)
        PROVE  \E e \in Events : e.kind # "pull" /\ queue' = Append(queue, e)
    <3>1. [kind |-> "delete", on |-> b] \in Events
      BY DEF Events
    <3>2. QED
      BY <2>2, <3>1 DEF SendDelete, Send
  <2>3. ASSUME NEW c \in Commits, SendStatus(c)
        PROVE  \E e \in Events : e.kind # "pull" /\ queue' = Append(queue, e)
    <3>1. [kind |-> "status", on |-> c] \in Events
      BY DEF Events
    <3>2. QED
      BY <2>3, <3>1 DEF SendStatus, Send
  <2>4. QED
    BY <2>1, <2>2, <2>3 DEF SendPush, SendDelete, SendStatus
<1>2. dropped \subseteq Branches
  BY DEF GitInv, GitTypeOK
<1>3. QED
  BY <1>1, <1>2, RowsUntouched

\* The rows of pull requests change their states.
LEMMA StatesWritten ==
    ASSUME GitInv, UNCHANGED <<service, active, commits, heads, pushing, dropped>>,
           NEW p \in Pulls, NEW state \in {"open", "merged", "closed"},
           \/ pulls' = pulls
           \/ pulls[p] # Nothing /\ pulls' = [pulls EXCEPT ![p].state = state]
           \/ pulls' = [pulls EXCEPT ![p] = [head |-> IF @ = Nothing THEN Nothing ELSE @.head,
                                             state |-> state]]
    PROVE  /\ pulls' \in [Pulls -> PullRow \cup {Nothing}]
           /\ \A q \in Pulls \ {p} : pulls'[q] = pulls[q]
           /\ pulls' = pulls \/ (pulls'[p] # Nothing /\ pulls'[p].state = state)
           /\ RowsAreWhole' /\ HeadsAreNotStale'
<1>1. /\ pulls \in [Pulls -> PullRow \cup {Nothing}] /\ Nothing \notin PullRow
      /\ Nothing \notin Pulls
  BY NothingAssumption DEF GitInv, GitTypeOK, PullRow, Commits
<1>2. CASE pulls' = pulls
  BY <1>1, <1>2 DEF GitInv, RowsAreWhole, HeadsAreNotStale
<1>3. CASE pulls' # pulls
  <2> DEFINE row == [head |-> IF pulls[p] = Nothing THEN Nothing ELSE pulls[p].head,
                     state |-> state]
  <2>1. row \in PullRow /\ row.state = state
        /\ (pulls[p] # Nothing => row.head = pulls[p].head)
    BY <1>1 DEF PullRow
  <2>2. pulls' = [pulls EXCEPT ![p] = row]
    <3>1. CASE pulls[p] # Nothing /\ pulls' = [pulls EXCEPT ![p].state = state]
      <4>1. pulls[p] \in PullRow
        BY <1>1, <3>1
      <4>2. [pulls[p] EXCEPT !.state = state] = row
        BY <3>1, <4>1 DEF PullRow
      <4>3. pulls' = [pulls EXCEPT ![p] = [pulls[p] EXCEPT !.state = state]]
        BY <1>1, <3>1
      <4>4. QED
        BY <4>2, <4>3
    <3>2. CASE pulls' = [pulls EXCEPT ![p] = [head |-> IF @ = Nothing THEN Nothing ELSE @.head,
                                              state |-> state]]
      BY <3>2
    <3>3. QED
      BY <1>3, <3>1, <3>2
  <2> HIDE DEF row
  <2>3. /\ pulls' \in [Pulls -> PullRow \cup {Nothing}] /\ pulls'[p] = row
        /\ \A q \in Pulls \ {p} : pulls'[q] = pulls[q]
    BY <1>1, <2>1, <2>2
  <2>4. \A q \in Pulls : pulls[q] # Nothing =>
          pulls'[q] # Nothing /\ pulls'[q].head = pulls[q].head
    BY <1>1, <2>1, <2>3
  <2>5. \A c \in Commits : commits[c].pullid # Nothing =>
          commits[c].pullid \in Pulls /\ pulls[commits[c].pullid] # Nothing
    BY DEF GitInv, GitTypeOK, RowsAreWhole
  <2>6. RowsAreWhole'
    BY <2>4, <2>5 DEF GitInv, RowsAreWhole
  <2>7. HeadsAreNotStale'
    BY <2>4, <2>5 DEF GitInv, HeadsAreNotStale
  <2>8. QED
    BY <1>1, <2>1, <2>3, <2>6, <2>7
<1>4. QED
  BY <1>2, <1>3

LEMMA WorkKeeps ==
    ASSUME GitInv, NEW t \in tasks, Work(t)
    PROVE  GitInv'
<1>1. /\ tasks' = tasks \ {t}
      /\ pulls' = (IF t.name # "pulls_sync" THEN pulls
                   ELSE [pulls EXCEPT ![t.on] =
                           [head |-> IF @ = Nothing THEN Nothing ELSE @.head,
                            state |-> remote[t.on]]])
      /\ UNCHANGED <<service, active, commits, heads, remote, queue, pushing, sent, dropped,
                     unseen>>
  BY DEF Work
<1>2. CASE t.name # "pulls_sync"
  <2>1. dropped \subseteq Branches
    BY DEF GitInv, GitTypeOK
  <2>2. QED
    BY <1>1, <1>2, <2>1, RowsUntouched
<1>3. CASE t.name = "pulls_sync"
  <2>1. PICK p \in Pulls : p = t.on /\ remote[p] \in {"open", "merged", "closed"}
    BY <1>3 DEF GitInv, OnTheWay, GitTypeOK
  <2>2. /\ pulls' \in [Pulls -> PullRow \cup {Nothing}]
        /\ \A q \in Pulls \ {p} : pulls'[q] = pulls[q]
        /\ pulls' = pulls \/ (pulls'[p] # Nothing /\ pulls'[p].state = remote[p])
        /\ RowsAreWhole' /\ HeadsAreNotStale'
    BY <1>1, <1>3, <2>1, StatesWritten
  <2>3. pulls'[p] # Nothing /\ pulls'[p].state = remote[p]
    <3>1. /\ pulls'[p] = [head |-> IF pulls[p] = Nothing THEN Nothing ELSE pulls[p].head,
                          state |-> remote[p]]
          /\ pulls[p] \in PullRow \cup {Nothing}
      BY <1>1, <1>3, <2>1 DEF GitInv, GitTypeOK, PullRow
    <3>2. [head |-> IF pulls[p] = Nothing THEN Nothing ELSE pulls[p].head,
           state |-> remote[p]] \in PullRow
      BY <2>1, <3>1 DEF PullRow
    <3>3. QED
      BY <3>1, <3>2, NothingAssumption DEF PullRow, Commits
  <2>4. ASSUME NEW q \in Pulls PROVE Agrees(q)'
    <3>1. (OnItsWay(q) => OnItsWay(q)') /\ (Quiet(q) => Quiet(q)') /\ Agrees(q)
      BY <1>1 DEF GitInv, OnItsWay, Quiet
    <3>2. CASE q = p
      BY <1>1, <2>3, <3>1, <3>2 DEF Agrees, Told
    <3>3. CASE q # p
      BY <1>1, <2>1, <2>2, <3>1, <3>3 DEF Agrees, Told
    <3>4. QED
      BY <3>2, <3>3
  <2>5. GitTypeOK' /\ OnTheWay'
    BY <1>1, <2>2 DEF GitInv, GitTypeOK, OnTheWay, Delivers, PullRow
  <2>6. QED
    BY <2>2, <2>4, <2>5 DEF GitInv
<1>4. QED
  BY <1>2, <1>3

LEMMA PullKeeps ==
    ASSUME GitInv, PullEvent
    PROVE  GitInv'
<1>1. /\ queue # <<>> /\ Event.kind = "pull" /\ queue' = Tail(queue)
      /\ UNCHANGED <<service, active, commits, remote, sent, heads, pushing, dropped>>
  BY DEF PullEvent, Receive, Event
<1>2. /\ Delivers' /\ Event \in Events /\ remote[Event.on] # "none"
      /\ \A q : Quiet(q) => Quiet(q)' /\ ~Changes(Event, q)
      /\ \A q : OnItsWay(q) =>
           \/ OnItsWay(q)'
           \/ Quiet(q)' /\ Changes(Event, q) /\ After[Event.action] = remote[q]
  BY <1>1, EventReceived DEF GitInv, OnTheWay
<1>3. PICK p \in Pulls, action \in DOMAIN After : p = Event.on /\ action = Event.action
  BY <1>1, <1>2 DEF Events
<1> DEFINE sync == ~Ignored /\ action \in Synced
           write == ~Ignored /\ action \in DOMAIN Written /\ pulls[p] # Nothing
<1>4. /\ tasks' = (IF sync THEN tasks \cup SyncTask(p) ELSE tasks)
      /\ pulls' = (IF write THEN [pulls EXCEPT ![p].state = Written[action]] ELSE pulls)
      /\ unseen' = (IF sync \/ write THEN unseen \ {p}
                    ELSE IF action = "synchronize" THEN unseen ELSE unseen \cup {p})
  BY <1>3 DEF PullEvent
<1>5. /\ write => /\ pulls[p] # Nothing /\ action # "synchronize"
                  /\ Written[action] = After[action]
      /\ After[action] \in {"open", "merged", "closed"}
  BY Actions
<1>6. /\ pulls' \in [Pulls -> PullRow \cup {Nothing}]
      /\ \A q \in Pulls \ {p} : pulls'[q] = pulls[q]
      /\ pulls' = pulls \/ (pulls'[p] # Nothing /\ pulls'[p].state = After[action])
      /\ RowsAreWhole' /\ HeadsAreNotStale'
  BY <1>1, <1>4, <1>5, StatesWritten
<1>7. write => pulls'[p] # Nothing /\ pulls'[p].state = After[action]
  <2> SUFFICES ASSUME write PROVE pulls'[p] # Nothing /\ pulls'[p].state = After[action]
    OBVIOUS
  <2>1. pulls[p] \in PullRow /\ pulls \in [Pulls -> PullRow \cup {Nothing}]
    BY <1>5 DEF GitInv, GitTypeOK, PullRow
  <2>2. pulls'[p] = [pulls[p] EXCEPT !.state = After[action]]
    BY <1>4, <1>5, <2>1
  <2>3. pulls'[p] \in PullRow /\ pulls'[p].state = After[action]
    BY <1>5, <2>1, <2>2 DEF PullRow
  <2>4. QED
    BY <2>3, NothingAssumption DEF PullRow, Commits
<1> HIDE DEF sync, write
<1>8. /\ \A t \in tasks : t \in tasks'
      /\ sync => \E t \in tasks' : t.name = "pulls_sync" /\ t.on = p
      /\ \A t \in tasks' \ tasks : t.name = "pulls_sync" /\ t.on = p
  <2>1. SyncTask(p) # {} /\ \A t \in SyncTask(p) : t.name = "pulls_sync" /\ t.on = p
    BY DEF SyncTask
  <2>2. tasks' = tasks \/ tasks' = tasks \cup SyncTask(p)
    BY <1>4
  <2>3. sync => tasks' = tasks \cup SyncTask(p)
    BY <1>4
  <2>4. QED
    BY <2>1, <2>2, <2>3
<1>9. ASSUME NEW q \in Pulls PROVE Agrees(q)'
  <2>1. Agrees(q) /\ remote'[q] = remote[q]
    BY <1>1 DEF GitInv
  <2>2. CASE q # p
    <3>1. ~Changes(Event, q) /\ (q \in unseen => q \in unseen') /\ pulls'[q] = pulls[q]
      BY <1>3, <1>4, <1>6, <2>2 DEF Changes
    <3>2. QED
      BY <1>2, <1>8, <2>1, <3>1 DEF Agrees, Told
  <2>3. CASE q = p
    <3>1. CASE OnItsWay(q)'
      BY <2>1, <3>1 DEF Agrees
    <3>2. CASE Quiet(q)' /\ Changes(Event, q) /\ After[Event.action] = remote[q]
      <4>1. CASE sync
        BY <1>8, <2>3, <3>2, <4>1 DEF Agrees, Told
      <4>2. CASE write
        BY <1>3, <1>7, <2>1, <2>3, <3>2, <4>2 DEF Agrees, Told
      <4>3. CASE ~sync /\ ~write
        BY <1>3, <1>4, <2>3, <3>2, <4>3 DEF Agrees, Told, Changes
      <4>4. QED
        BY <4>1, <4>2, <4>3
    <3>3. CASE Told(q)
      <4>1. Quiet(q)' /\ action = "synchronize"
        BY <1>1, <1>2, <1>3, <2>3, <3>3 DEF Told, Changes
      <4>2. ~write /\ pulls' = pulls
        BY <1>4, <1>5, <4>1
      <4>3. CASE sync
        BY <1>8, <2>3, <4>1, <4>3 DEF Agrees, Told
      <4>4. CASE ~sync
        BY <1>4, <1>8, <2>1, <2>3, <3>3, <4>1, <4>2, <4>4 DEF Agrees, Told
      <4>5. QED
        BY <4>3, <4>4
    <3>4. QED
      BY <1>2, <2>1, <3>1, <3>2, <3>3 DEF Agrees
  <2>4. QED
    BY <2>2, <2>3
<1>10. GitTypeOK'
  <2>1. unseen' \subseteq Pulls
    BY <1>4 DEF GitInv, GitTypeOK
  <2>2. \A t \in tasks' : t.name = "notify" => commits[t.on].state # "absent"
    BY <1>8 DEF GitInv, GitTypeOK
  <2>3. QED
    BY <1>1, <1>6, <2>1, <2>2 DEF GitInv, GitTypeOK, PullRow
<1>11. OnTheWay'
  BY <1>1, <1>2, <1>3, <1>8 DEF GitInv, OnTheWay
<1>12. QED
  BY <1>6, <1>9, <1>10, <1>11 DEF GitInv

LEMMA ChangeKeeps ==
    ASSUME GitInv, NEW p \in Pulls, NEW action \in DOMAIN After, ChangePull(p, action)
    PROVE  GitInv'
<1> DEFINE e == [kind |-> "pull", action |-> action, on |-> p]
<1>1. /\ e \in Events /\ e.kind = "pull" /\ e.action = action /\ e.on = p
  BY DEF Events
<1>2. /\ queue' = Append(queue, e) /\ remote[p] \in Transitions[action]
      /\ remote' = [remote EXCEPT ![p] = After[action]]
      /\ UNCHANGED <<service, active, commits, heads, pulls, pushing, tasks, dropped, unseen>>
  BY DEF ChangePull, Send
<1>3. remote \in [Pulls -> {"none", "open", "merged", "closed"}]
  BY DEF GitInv, GitTypeOK
<1>4. /\ remote' \in [Pulls -> {"none", "open", "merged", "closed"}]
      /\ remote'[p] = After[action] /\ remote'[p] # "none"
      /\ \A q \in Pulls \ {p} : remote'[q] = remote[q]
      /\ action = "synchronize" => remote'[p] = remote[p]
  BY <1>2, <1>3, Actions
<1> HIDE DEF e
<1>5. /\ Delivers'
      /\ \A q : ~Changes(e, q) /\ Quiet(q) => Quiet(q)'
      /\ \A q : ~Changes(e, q) /\ OnItsWay(q) /\ remote'[q] = remote[q] => OnItsWay(q)'
      /\ \A q : Changes(e, q) /\ After[e.action] = remote'[q] => OnItsWay(q)'
  BY <1>1, <1>2, <1>4, EventSent DEF GitInv, OnTheWay
<1>6. ASSUME NEW q \in Pulls PROVE Agrees(q)'
  <2>1. CASE Changes(e, q)
    BY <1>1, <1>4, <1>5, <2>1 DEF Changes, Agrees
  <2>2. CASE ~Changes(e, q)
    <3>1. remote'[q] = remote[q] /\ Agrees(q)
      BY <1>1, <1>4, <2>2 DEF Changes, GitInv
    <3>2. QED
      BY <1>2, <1>5, <2>2, <3>1 DEF Agrees, Told
  <2>3. QED
    BY <2>1, <2>2
<1>7. RowsAreWhole' /\ HeadsAreNotStale'
  BY <1>2 DEF GitInv, RowsAreWhole, HeadsAreNotStale
<1>8. GitTypeOK'
  BY <1>2, <1>4 DEF GitInv, GitTypeOK
<1>9. OnTheWay'
  BY <1>2, <1>4, <1>5 DEF GitInv, OnTheWay
<1>10. QED
  BY <1>6, <1>7, <1>8, <1>9 DEF GitInv

-----------------------------------------------------------------------------
LEMMA GitInvFirst == GitInit => GitInv
<1> SUFFICES ASSUME GitInit PROVE GitInv
  OBVIOUS
<1>1. GitTypeOK
  BY DEF GitInit, GitTypeOK, Absence
<1>2. Delivers /\ OnTheWay
  BY DEF GitInit, Delivers, OnTheWay
<1>3. RowsAreWhole /\ HeadsAreNotStale
  BY DEF GitInit, RowsAreWhole, HeadsAreNotStale, Absence
<1>4. \A p \in Pulls : Agrees(p)
  BY DEF GitInit, Agrees
<1>5. QED
  BY <1>1, <1>2, <1>3, <1>4 DEF GitInv

LEMMA GitInvNext == GitInv /\ [GitNext]_gitVars => GitInv'
<1> SUFFICES ASSUME GitInv, [GitNext]_gitVars PROVE GitInv'
  OBVIOUS
<1>1. CASE UNCHANGED gitVars
  BY <1>1 DEF gitVars, GitInv, GitTypeOK, OnTheWay, Delivers, RowsAreWhole, HeadsAreNotStale,
     Agrees, OnItsWay, Told, Quiet
<1>2. CASE GitNext
  BY <1>2, InsertKeeps, InsertAgainKeeps, CompleteKeeps, SendKeeps, ChangeKeeps, PullKeeps,
     PushKeeps, PushMergedKeeps, DeleteKeeps, StatusKeeps, WorkKeeps DEF GitNext, Handle
<1>3. QED
  BY <1>1, <1>2

LEMMA GitInvariant == GitSpec => []GitInv
  BY GitInvFirst, GitInvNext, PTL DEF GitSpec

\* However many commits complete, are pushed and merged, and whatever the provider says of
\* pull requests meanwhile: heads are not stale, and states that were told are known.
THEOREM Followed == GitSpec => []RowsFollowEvents
<1>1. GitInv => RowsFollowEvents
  <2> SUFFICES ASSUME GitInv PROVE QuietPullsAgree
    BY DEF GitInv, RowsFollowEvents
  <2> SUFFICES ASSUME queue = <<>>, tasks = {}, NEW p \in Pulls, pulls[p] # Nothing,
                      remote[p] # "none", p \notin unseen
               PROVE  pulls[p].state = remote[p]
    BY DEF QuietPullsAgree
  <2>1. ~OnItsWay(p)
    BY DEF OnItsWay
  <2>2. QED
    BY <2>1 DEF GitInv, Agrees, Told
<1>2. QED
  BY <1>1, GitInvariant, PTL

\* No event and no upload moves a merged commit, or calls it unmerged.
THEOREM Merged == GitSpec => MergedIsFinal
<1>1. ASSUME GitInv, GitNext, NEW c \in Commits, commits[c].merged = "yes"
      PROVE  commits'[c].merged = "yes" /\ commits'[c].branch = commits[c].branch
  <2>1. commits \in [Commits -> CommitRow] /\ commits[c].state # "absent"
    BY <1>1 DEF GitInv, GitTypeOK, CommitRow, RowsAreWhole
  <2>2. CASE commits' = commits
    BY <1>1, <2>2
  <2>3. ASSUME NEW d \in Commits, Complete(d)
        PROVE  commits'[c].merged = "yes" /\ commits'[c].branch = commits[c].branch
    BY <1>1, <2>1, <2>3 DEF Complete, CommitRow
  <2>4. ASSUME NEW d \in Commits, NEW b, NEW p, NEW merged, Insert(d, b, p, merged)
        PROVE  commits'[c] = commits[c]
    BY <2>1, <2>4 DEF Insert
  <2>7. ASSUME NEW d \in Commits, InsertAgain(d)
        PROVE  commits'[c].merged = "yes" /\ commits'[c].branch = commits[c].branch
    BY <1>1, <2>1, <2>7 DEF InsertAgain, CommitRow
  <2>5. ASSUME Push \/ \E e \in pushing : PushMerged(e)
        PROVE  commits'[c] = commits[c]
    BY <1>1, <2>5 DEF Push, PushMerged, Unmerged
  <2>6. QED
    BY <1>1, <2>2, <2>3, <2>4, <2>5, <2>7 DEF GitNext, SendStatus, ChangePull, SendPush, SendDelete,
       Handle, PullEvent, DeleteBranch, StatusEvent, Receive, Work
<1>2. GitInv /\ [GitNext]_gitVars =>
        [\A c \in Commits : commits[c].merged = "yes" =>
            commits'[c].merged = "yes" /\ commits'[c].branch = commits[c].branch]_gitVars
  BY <1>1
<1>3. QED
  BY <1>2, GitInvariant, PTL DEF GitSpec, MergedIsFinal
=============================================================================
