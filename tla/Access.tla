-------------------------------- MODULE Access --------------------------------
(***************************************************************************)
(* Who may see the repositories of an organization: one user (not the      *)
(* owner of the repositories), the provider who knows what the user may    *)
(* see, the list of repositories that the user's row remembers             *)
(* (owner.permission), the requests that consult and extend it             *)
(* (api/shared/permissions.py, api/shared/repo/mixins.py) and the webhooks *)
(* that change it (github.py member, gitlab.py system hooks).              *)
(*                                                                         *)
(* The list is loaded at the start of a request or webhook and saved as a  *)
(* whole at the end.                                                       *)
(***************************************************************************)
EXTENDS Absent, Naturals, Sequences, FiniteSets, TLAPS

CONSTANTS
    Servers,      \* web workers
    Repos,        \* repositories of the organization
    MaxChanges,   \* bound on the changes at the provider
    MaxAsked      \* bound on the requests

Levels == {"none", "read", "write"}

VARIABLES
    provider,     \* "github" or "gitlab"
    private,      \* which of the repositories are private
    can,          \* what the provider lets the user do
    seen, edited, \* repositories that the provider has let the user see, and edit
    permission,   \* the list in the user's row, or Nothing
    news,         \* webhooks on their way
    ajob,         \* what each worker is doing
    granted,      \* the last request that was granted
    overlap,      \* whether a webhook was handled during something else
    changes, asked

accessVars == <<provider, private, can, seen, edited, permission, news, ajob,
                granted, overlap, changes, asked>>
fixed == <<provider, private>>
truth == <<can, seen, edited, changes>>

Resting == [pc |-> "idle"]

AccessTypeOK ==
    /\ provider \in {"github", "gitlab"} /\ private \subseteq Repos
    /\ overlap \in BOOLEAN
    /\ can \in [Repos -> Levels] /\ edited \subseteq seen /\ seen \subseteq Repos
    /\ permission \in {Nothing} \cup SUBSET Repos
    /\ \A s \in Servers : ajob[s].pc = "append" =>   \* only these are remembered
           ajob[s].on \in private /\ ajob[s].kind = "artifact" /\ ajob[s].safe

AccessInit ==
    /\ provider \in {"github", "gitlab"}
    /\ private \in SUBSET Repos
    /\ can = [r \in Repos |-> "none"] /\ seen = {} /\ edited = {}
    /\ permission = Nothing /\ news = <<>>
    /\ ajob = [s \in Servers |-> Resting] /\ granted = Nothing
    /\ overlap = FALSE /\ changes = 0 /\ asked = 0

Remembered(list) == IF list = Nothing THEN {} ELSE list

\* viewable_repos: what lists of repositories show
viewable_repos == {r \in Repos : r \notin private \/ r \in Remembered(permission)}

-----------------------------------------------------------------------------
(***************************************************************************)
(* The provider                                                            *)
(***************************************************************************)
Change(r, level) ==
    /\ changes < MaxChanges /\ changes' = changes + 1
    /\ level # can[r] /\ can' = [can EXCEPT ![r] = level]
    /\ seen' = IF level = "none" THEN seen ELSE seen \cup {r}
    /\ edited' = IF level = "write" THEN edited \cup {r} ELSE edited
    /\ news' = CASE level = "none" -> Append(news, [on |-> r, added |-> FALSE])
                 [] level # "none" /\ can[r] = "none" /\ provider = "gitlab" ->
                        Append(news, [on |-> r, added |-> TRUE])
                 [] OTHER -> news
    /\ UNCHANGED <<fixed, permission, ajob, granted, overlap, asked>>

-----------------------------------------------------------------------------
(***************************************************************************)
(* Webhooks                                                                *)
(***************************************************************************)
Busy == \E s \in Servers : ajob[s].pc # "idle"
HookRuns == \E s \in Servers : ajob[s].pc = "hook"

\* member of GitHub, user_add_to_team and user_remove_from_team of GitLab, the latter
\* for private repositories only
Hear(s) ==
    /\ ajob[s].pc = "idle" /\ news # <<>> /\ news' = Tail(news)
    /\ IF provider = "github" \/ Head(news).on \in private
       THEN /\ ajob' = [ajob EXCEPT ![s] = [pc |-> "hook", event |-> Head(news),
                                            loaded |-> permission]]
            /\ overlap' = (overlap \/ Busy)
       ELSE UNCHANGED <<ajob, overlap>>
    /\ UNCHANGED <<fixed, truth, permission, granted, asked>>

\* bug: who is removed stays on the list
Kept(list, event) == Remembered(list) \cup {event.on}

\* a repository that is not on the list cannot be removed: ValueError, KeyError
Updated(list, event) ==
    CASE event.added -> Remembered(list) \cup {event.on}
      [] ~event.added /\ event.on \in Remembered(list) -> list \ {event.on}
      [] OTHER -> list

SaveHook(s) ==
    /\ ajob[s].pc = "hook"
    /\ LET list == Updated(ajob[s].loaded, ajob[s].event)
       IN permission' = IF list = ajob[s].loaded THEN permission ELSE list
    /\ ajob' = [ajob EXCEPT ![s] = Resting]
    /\ UNCHANGED <<fixed, truth, news, granted, overlap, asked>>

-----------------------------------------------------------------------------
(***************************************************************************)
(* Requests: "artifact" is for a commit, a branch, a comparison ... of the *)
(* repository (RepositoryArtifactPermissions), "repo" for the repository   *)
(* (RepositoryViewSetMixin).                                               *)
(***************************************************************************)
\* the middleware loads the user's row
Ask(s, kind, r, safe) ==
    /\ ajob[s].pc = "idle" /\ asked < MaxAsked /\ asked' = asked + 1
    /\ ajob' = [ajob EXCEPT ![s] =
                   [pc |-> "activation", kind |-> kind, on |-> r, safe |-> safe,
                    loaded |-> permission, active |-> FALSE]]
    /\ overlap' = (overlap \/ HookRuns)
    /\ UNCHANGED <<fixed, truth, permission, news, granted>>

\* user_is_activated, for private repositories: may take a seat, of which module Seats is
CheckActivation(s) ==
    /\ ajob[s].pc = "activation"
    /\ \E active \in IF ajob[s].on \in private THEN BOOLEAN ELSE {TRUE} :
          ajob' = [ajob EXCEPT ![s].pc = "read", ![s].active = active]
    /\ UNCHANGED <<fixed, truth, permission, news, granted, overlap, asked>>

Reply(s, ok) ==
    /\ ajob' = [ajob EXCEPT ![s] = Resting]
    /\ granted' = IF ok THEN [on |-> ajob[s].on, safe |-> ajob[s].safe] ELSE granted

\* the rest of check_object_permissions, which asks the provider; a deletion asks for an
\* admin besides
AnswerRepo(s) ==
    LET j == ajob[s] IN
    /\ j.pc = "read" /\ j.kind = "repo"
    /\ Reply(s, j.active /\ (j.safe \/ can[j.on] = "write") /\ can[j.on] # "none")
    /\ UNCHANGED <<fixed, truth, permission, news, overlap, asked>>

\* bug: the provider is asked about public repositories as well
OnTheList(j) == j.on \in Remembered(j.loaded)

\* has_read_permissions without the provider
KnownReader(j) == j.on \notin private \/ j.on \in Remembered(j.loaded)

AnswerArtifact(s) ==
    LET j == ajob[s] IN
    /\ j.pc = "read" /\ j.kind = "artifact"
    /\ ~j.safe \/ KnownReader(j)
    /\ Reply(s, j.safe /\ j.active)
    /\ UNCHANGED <<fixed, truth, permission, news, overlap, asked>>

\* bug: the repository is remembered whatever the provider says
Remembers(level) == TRUE

MayView(level) == level # "none"

\* _fetch_provider_permissions; the provider may be down, which torngit_safe answers
Fetch(s) ==
    LET j == ajob[s] IN
    /\ j.pc = "read" /\ j.kind = "artifact" /\ j.safe /\ ~KnownReader(j)
    /\ \/ MayView(can[j.on]) /\ ajob' = [ajob EXCEPT ![s].pc = "append"] /\ UNCHANGED granted
       \/ Reply(s, FALSE)
    /\ UNCHANGED <<fixed, truth, permission, news, overlap, asked>>

SavePermission(s) ==
    /\ ajob[s].pc = "append"
    /\ permission' = Remembered(ajob[s].loaded) \cup {ajob[s].on}
    /\ Reply(s, ajob[s].active)
    /\ UNCHANGED <<fixed, truth, news, overlap, asked>>

AccessNext ==
    \/ \E r \in Repos, level \in Levels : Change(r, level)
    \/ \E s \in Servers, kind \in {"artifact", "repo"}, r \in Repos, safe \in BOOLEAN :
          Ask(s, kind, r, safe)
    \/ \E s \in Servers : \/ Hear(s) \/ SaveHook(s) \/ CheckActivation(s)
                          \/ AnswerRepo(s) \/ AnswerArtifact(s) \/ Fetch(s) \/ SavePermission(s)

AccessSpec == AccessInit /\ [][AccessNext]_accessVars

-----------------------------------------------------------------------------
\* However requests, webhooks and changes at the provider overlap, nobody reads a
\* private repository, or changes any, that the provider has never let them see, or
\* change; and no list of repositories shows such a private one.
GrantedByProvider ==
    /\ viewable_repos \cap private \subseteq seen
    /\ granted # Nothing =>
           /\ granted.on \in private => granted.on \in seen
           /\ ~granted.safe => granted.on \in edited

\* When all webhooks are handled, and none was handled during anything else, no list
\* shows the user a private repository that the provider has taken from them.
QuietRevoked ==
    news = <<>> /\ ~Busy /\ ~overlap =>
        \A r \in viewable_repos \cap private : can[r] # "none"

-----------------------------------------------------------------------------
(***************************************************************************)
(* Proof of the former, for any number of workers and repositories.  A     *)
(* list that is loaded is saved later, and a webhook adds to it what it    *)
(* was sent for: what the row may show is required of every copy of it, of *)
(* every addition on its way, and of what a request is about to append.    *)
(***************************************************************************)
Shown(list) == Remembered(list) \cap private \subseteq seen

Event == [on : Repos, added : BOOLEAN]
Honest(event, known) == event.added => event.on \in known

HookJob(j) == j.pc = "hook" /\ j.event \in Event /\ Honest(j.event, seen) /\ Shown(j.loaded)

RequestJob(j) ==
    /\ j.pc \in {"activation", "read", "append"} /\ Shown(j.loaded)
    /\ j \in [pc : {"activation", "read", "append"}, kind : {"artifact", "repo"},
              on : Repos, safe : BOOLEAN, loaded : {j.loaded}, active : BOOLEAN]
    /\ j.pc = "append" => j.safe /\ j.on \in seen

Working(j) == j.pc = "idle" \/ HookJob(j) \/ RequestJob(j)

Permitted == granted # Nothing => /\ granted.on \in private => granted.on \in seen
                                  /\ ~granted.safe => granted.on \in edited

Truthful ==
    /\ can \in [Repos -> Levels]
    /\ \A r \in Repos : /\ can[r] # "none" => r \in seen
                        /\ can[r] = "write" => r \in edited

AccessInv ==
    /\ Truthful /\ Permitted /\ Shown(permission)
    /\ news \in Seq(Event) /\ \A i \in 1..Len(news) : Honest(news[i], seen)
    /\ ajob = [s \in Servers |-> ajob[s]] /\ \A s \in Servers : Working(ajob[s])

\* The provider lets the user see more and more: nothing that was allowed becomes wrong.
LEMMA SeenGrows ==
    ASSUME AccessInv, seen \subseteq seen', edited \subseteq edited',
           UNCHANGED <<private, permission, granted, ajob>>
    PROVE  /\ Permitted' /\ Shown(permission)'
           /\ \A event : Honest(event, seen) => Honest(event, seen')
           /\ \A s \in Servers : Working(ajob[s])'
<1>1. \A list : Shown(list) => Shown(list)'
  BY DEF Shown
<1>2. \A event : Honest(event, seen) => Honest(event, seen')
  BY DEF Honest
<1>3. ASSUME NEW s \in Servers PROVE Working(ajob[s])'
  <2>1. CASE HookJob(ajob[s])
    BY <1>1, <1>2, <2>1 DEF HookJob, Working
  <2>2. CASE RequestJob(ajob[s])
    BY <1>1, <2>2 DEF RequestJob, Working
  <2>3. QED
    BY <2>1, <2>2 DEF Working, AccessInv
<1>4. QED
  BY <1>1, <1>2, <1>3 DEF AccessInv, Permitted

LEMMA ChangeKeeps ==
    ASSUME AccessInv, NEW r \in Repos, NEW level \in Levels, Change(r, level)
    PROVE  AccessInv'
<1>1. /\ seen \subseteq seen' /\ edited \subseteq edited'
      /\ UNCHANGED <<private, permission, granted, ajob>>
  BY DEF Change, fixed
<1>2. /\ Permitted' /\ Shown(permission)'
      /\ \A event : Honest(event, seen) => Honest(event, seen')
      /\ \A s \in Servers : Working(ajob[s])'
  BY <1>1, SeenGrows
<1>3. Truthful'
  <2>1. can' = [can EXCEPT ![r] = level] /\ can \in [Repos -> Levels]
    BY DEF Change, AccessInv, Truthful
  <2>2. level # "none" => r \in seen'
    BY DEF Change
  <2>3. level = "write" => r \in edited'
    BY DEF Change
  <2>4. QED
    BY <1>1, <2>1, <2>2, <2>3 DEF AccessInv, Truthful
<1>4. \/ news' = news
      \/ \E event \in Event : news' = Append(news, event) /\ Honest(event, seen')
  <2>1. CASE level = "none"
    <3>1. [on |-> r, added |-> FALSE] \in Event /\ Honest([on |-> r, added |-> FALSE], seen')
      BY DEF Event, Honest
    <3>2. QED
      BY <2>1, <3>1 DEF Change
  <2>2. CASE level # "none" /\ can[r] = "none" /\ provider = "gitlab"
    <3>1. [on |-> r, added |-> TRUE] \in Event /\ Honest([on |-> r, added |-> TRUE], seen')
      BY <2>2 DEF Event, Honest, Change
    <3>2. QED
      BY <2>2, <3>1 DEF Change
  <2>3. CASE level # "none" /\ ~(can[r] = "none" /\ provider = "gitlab")
    BY <2>3 DEF Change
  <2>4. QED
    BY <2>1, <2>2, <2>3
<1>5. news' \in Seq(Event) /\ \A i \in 1..Len(news') : Honest(news'[i], seen')
  <2>1. news \in Seq(Event) /\ \A i \in 1..Len(news) : Honest(news[i], seen')
    BY <1>2 DEF AccessInv
  <2>2. CASE news' = news
    BY <2>1, <2>2
  <2>3. ASSUME NEW event \in Event, news' = Append(news, event), Honest(event, seen')
        PROVE  news' \in Seq(Event) /\ \A i \in 1..Len(news') : Honest(news'[i], seen')
    <3>1. /\ news' \in Seq(Event) /\ Len(news') = Len(news) + 1 /\ Len(news) \in Nat
          /\ \A i \in 1..Len(news') : news'[i] = IF i <= Len(news) THEN news[i] ELSE event
      BY <2>1, <2>3
    <3>2. QED
      BY <2>1, <2>3, <3>1
  <2>4. QED
    BY <1>4, <2>2, <2>3
<1>6. QED
  BY <1>1, <1>2, <1>3, <1>5 DEF AccessInv

\* A step of one worker, which leaves the provider alone
LEMMA WorkerKeeps ==
    ASSUME AccessInv, NEW s \in Servers, NEW j, Working(j),
           ajob' = [ajob EXCEPT ![s] = j], UNCHANGED <<private, can, seen, edited>>,
           news' = news \/ (news # <<>> /\ news' = Tail(news)),
           Permitted', Shown(permission)'
    PROVE  AccessInv'
<1>1. news' \in Seq(Event) /\ \A i \in 1..Len(news') : Honest(news'[i], seen)
  <2>1. news \in Seq(Event) /\ \A i \in 1..Len(news) : Honest(news[i], seen)
    BY DEF AccessInv
  <2>2. CASE news # <<>> /\ news' = Tail(news)
    <3>1. /\ news' \in Seq(Event) /\ Len(news) \in Nat /\ Len(news') = Len(news) - 1
          /\ \A i \in 1..Len(news') : news'[i] = news[i + 1] /\ i + 1 \in 1..Len(news)
      BY <2>1, <2>2
    <3>2. QED
      BY <2>1, <3>1
  <2>3. QED
    BY <2>1, <2>2
<1>3. \A x : Working(x) => Working(x)'
  BY DEF Working, HookJob, RequestJob, Honest, Shown
<1>4. /\ ajob' = [x \in Servers |-> ajob'[x]]
      /\ \A x \in Servers : ajob'[x] = IF x = s THEN j ELSE ajob[x]
  BY DEF AccessInv
<1>5. \A x \in Servers : Working(ajob[x])'
  BY <1>3, <1>4 DEF AccessInv
<1>6. Truthful'
  BY DEF AccessInv, Truthful
<1>7. QED
  BY <1>1, <1>4, <1>5, <1>6 DEF AccessInv

LEMMA HooksKeep ==
    ASSUME AccessInv, NEW s \in Servers, Hear(s) \/ SaveHook(s)
    PROVE  AccessInv'
<1>1. CASE Hear(s)
  <2>1. /\ news # <<>> /\ news' = Tail(news)
        /\ UNCHANGED <<private, can, seen, edited, permission, granted>>
    BY <1>1 DEF Hear, fixed, truth, AccessInv
  <2>2. Head(news) \in Event /\ Honest(Head(news), seen)
    BY <2>1 DEF AccessInv
  <2>3. Permitted' /\ Shown(permission)'
    BY <2>1 DEF AccessInv, Permitted, Shown
  <2>4. CASE ajob' = ajob
    <3>1. ajob' = [ajob EXCEPT ![s] = ajob[s]] /\ Working(ajob[s])
      BY <2>4 DEF AccessInv
    <3>2. QED
      BY <2>1, <2>3, <3>1, WorkerKeeps
  <2>5. CASE ajob' = [ajob EXCEPT ![s] = [pc |-> "hook", event |-> Head(news),
                                          loaded |-> permission]]
    <3>1. Working([pc |-> "hook", event |-> Head(news), loaded |-> permission])
      BY <2>2 DEF Working, HookJob, AccessInv
    <3>2. QED
      BY <2>1, <2>3, <2>5, <3>1, WorkerKeeps
  <2>6. QED
    BY <1>1, <2>4, <2>5 DEF Hear
<1>2. CASE SaveHook(s)
  <2> DEFINE list == Updated(ajob[s].loaded, ajob[s].event)
  <2>1. HookJob(ajob[s])
    BY <1>2 DEF SaveHook, AccessInv, Working, RequestJob
  <2>2. Shown(list)
    BY <2>1 DEF HookJob, Shown, Honest, Updated, Remembered, Event
  <2>3. permission' = IF list = ajob[s].loaded THEN permission ELSE list
    BY <1>2 DEF SaveHook
  <2> HIDE DEF list
  <2>4. /\ ajob' = [ajob EXCEPT ![s] = Resting] /\ Working(Resting) /\ news' = news
        /\ UNCHANGED <<private, can, seen, edited, granted>>
    BY <1>2 DEF SaveHook, fixed, truth, Working, Resting
  <2>5. Permitted' /\ Shown(permission)'
    BY <2>2, <2>3, <2>4 DEF AccessInv, Permitted, Shown
  <2>6. QED
    BY <2>4, <2>5, WorkerKeeps
<1>3. QED
  BY <1>1, <1>2

LEMMA AskKeeps ==
    ASSUME AccessInv, NEW s \in Servers, NEW kind \in {"artifact", "repo"},
           NEW r \in Repos, NEW safe \in BOOLEAN, Ask(s, kind, r, safe)
    PROVE  AccessInv'
<1> DEFINE j == [pc |-> "activation", kind |-> kind, on |-> r, safe |-> safe,
                 loaded |-> permission, active |-> FALSE]
<1>1. Working(j)
  BY DEF Working, RequestJob, AccessInv
<1>2. /\ ajob' = [ajob EXCEPT ![s] = j] /\ news' = news
      /\ UNCHANGED <<private, can, seen, edited, permission, granted>>
  BY DEF Ask, fixed, truth
<1> HIDE DEF j
<1>3. Permitted' /\ Shown(permission)'
  BY <1>2 DEF AccessInv, Permitted, Shown
<1>4. QED
  BY <1>1, <1>2, <1>3, WorkerKeeps

LEMMA AnswersKeep ==
    ASSUME AccessInv, NEW s \in Servers,
           \/ CheckActivation(s) \/ AnswerRepo(s) \/ AnswerArtifact(s)
           \/ Fetch(s) \/ SavePermission(s)
    PROVE  AccessInv'
<1> DEFINE j == ajob[s]
<1>0. /\ RequestJob(j) /\ Working(Resting) /\ news' = news
      /\ UNCHANGED <<private, can, seen, edited>>
  <2>1. j.pc \in {"activation", "read", "append"}
    BY DEF CheckActivation, AnswerRepo, AnswerArtifact, Fetch, SavePermission
  <2>2. RequestJob(j)
    BY <2>1 DEF AccessInv, Working, HookJob
  <2>3. news' = news /\ UNCHANGED <<private, can, seen, edited>>
    BY DEF CheckActivation, AnswerRepo, AnswerArtifact, Fetch, SavePermission, fixed, truth
  <2>4. QED
    BY <2>2, <2>3 DEF Working, Resting
<1>1. Permitted /\ Shown(permission) /\ j.on \in Repos /\ j.safe \in BOOLEAN
  BY <1>0 DEF AccessInv, RequestJob
<1>2. ASSUME NEW k, RequestJob(k), ajob' = [ajob EXCEPT ![s] = k],
             UNCHANGED <<permission, granted>>
      PROVE  AccessInv'
  <2>1. Working(k) /\ Permitted' /\ Shown(permission)'
    BY <1>0, <1>1, <1>2 DEF Permitted, Shown, Working
  <2>2. QED
    BY <1>0, <1>2, <2>1, WorkerKeeps
<1>3. ASSUME NEW ok, Reply(s, ok), Shown(permission'),
             ok => /\ j.on \in private => j.on \in seen
                   /\ ~j.safe => j.on \in edited
      PROVE  AccessInv'
  <2>1. /\ ajob' = [ajob EXCEPT ![s] = Resting]
        /\ granted' = IF ok THEN [on |-> j.on, safe |-> j.safe] ELSE granted
    BY <1>3 DEF Reply
  <2>2. Permitted' /\ Shown(permission)'
    BY <1>0, <1>1, <1>3, <2>1 DEF Permitted, Shown
  <2>3. QED
    BY <1>0, <2>1, <2>2, WorkerKeeps
<1>4. CASE CheckActivation(s)
  <2>1. PICK active \in BOOLEAN :
          ajob' = [ajob EXCEPT ![s].pc = "read", ![s].active = active]
    BY <1>4 DEF CheckActivation
  <2> DEFINE k == [j EXCEPT !.pc = "read", !.active = active]
  <2>2. ajob' = [ajob EXCEPT ![s] = k]
    BY <2>1 DEF AccessInv
  <2>3. RequestJob(k)
    BY <1>0 DEF RequestJob
  <2>4. UNCHANGED <<permission, granted>>
    BY <1>4 DEF CheckActivation
  <2> HIDE DEF k
  <2>5. QED
    BY <1>2, <2>2, <2>3, <2>4
<1>5. CASE AnswerRepo(s)
  <2>1. can[j.on] # "none" => j.on \in seen
    BY <1>1 DEF AccessInv, Truthful
  <2>2. can[j.on] = "write" => j.on \in edited
    BY <1>1 DEF AccessInv, Truthful
  <2>3. permission' = permission
    BY <1>5 DEF AnswerRepo
  <2>4. Reply(s, j.active /\ (j.safe \/ can[j.on] = "write") /\ can[j.on] # "none")
    BY <1>5 DEF AnswerRepo
  <2>5. QED
    BY <1>1, <1>3, <2>1, <2>2, <2>3, <2>4
<1>6. CASE AnswerArtifact(s)
  <2>1. Reply(s, j.safe /\ j.active) /\ permission' = permission
    BY <1>6 DEF AnswerArtifact
  <2>2. j.safe => (j.on \in private => j.on \in seen)
    BY <1>0, <1>6 DEF AnswerArtifact, KnownReader, RequestJob, Shown
  <2>3. QED
    BY <1>1, <1>3, <2>1, <2>2
<1>7. CASE Fetch(s)
  <2>1. permission' = permission /\ j.safe /\ j.pc = "read"
    BY <1>7 DEF Fetch
  <2>2. CASE MayView(can[j.on]) /\ ajob' = [ajob EXCEPT ![s].pc = "append"]
             /\ UNCHANGED granted
    <3>1. j.on \in seen
      BY <1>1, <2>2 DEF MayView, AccessInv, Truthful
    <3> DEFINE k == [j EXCEPT !.pc = "append"]
    <3>2. RequestJob(k)
      BY <1>0, <2>1, <3>1 DEF RequestJob
    <3>3. ajob' = [ajob EXCEPT ![s] = k]
      BY <2>2
    <3> HIDE DEF k
    <3>4. QED
      BY <1>2, <2>1, <2>2, <3>2, <3>3
  <2>3. CASE Reply(s, FALSE)
    BY <1>1, <1>3, <2>1, <2>3
  <2>4. QED
    BY <1>7, <2>2, <2>3 DEF Fetch
<1>8. CASE SavePermission(s)
  <2>1. j.safe /\ j.on \in seen /\ Shown(j.loaded)
    BY <1>0, <1>8 DEF SavePermission, RequestJob
  <2>2. permission' = Remembered(j.loaded) \cup {j.on} /\ Reply(s, j.active)
    BY <1>8 DEF SavePermission
  <2>3. Shown(permission')
    BY <2>1, <2>2 DEF Shown, Remembered
  <2>4. QED
    BY <1>3, <2>1, <2>2, <2>3
<1>9. QED
  BY <1>4, <1>5, <1>6, <1>7, <1>8

\* However requests, webhooks and changes at the provider overlap, on any number of
\* workers, nothing is shown or changed that the provider never allowed.
THEOREM OnlyGranted == AccessSpec => []GrantedByProvider
<1>1. AccessInit => AccessInv
  BY DEF AccessInit, AccessInv, Truthful, Permitted, Shown, Remembered, Levels, Working,
     Resting
<1>2. AccessInv /\ [AccessNext]_accessVars => AccessInv'
  <2> SUFFICES ASSUME AccessInv, [AccessNext]_accessVars PROVE AccessInv'
    OBVIOUS
  <2>1. CASE UNCHANGED accessVars
    BY <2>1 DEF accessVars, AccessInv, Truthful, Permitted, Shown, Working, HookJob,
       RequestJob, Honest
  <2>2. CASE AccessNext
    BY <2>2, ChangeKeeps, AskKeeps, HooksKeep, AnswersKeep DEF AccessNext
  <2>3. QED
    BY <2>1, <2>2
<1>3. AccessInv => GrantedByProvider
  BY DEF AccessInv, Permitted, Shown, GrantedByProvider, viewable_repos
<1>4. QED
  BY <1>1, <1>2, <1>3, PTL DEF AccessSpec

\* The types need in addition that the copies are lists.
Lists == {Nothing} \cup SUBSET Repos

TypedJob(j) ==
    /\ j.pc # "idle" => j.loaded \in Lists
    /\ j.pc = "append" => j.on \in private /\ j.kind = "artifact" /\ j.safe

TypedInv == AccessInv /\ AccessTypeOK /\ \A s \in Servers : TypedJob(ajob[s])

LEMMA WorkerTyped ==
    ASSUME TypedInv, NEW s \in Servers, NEW j, TypedJob(j), ajob' = [ajob EXCEPT ![s] = j],
           permission' \in Lists, overlap' \in BOOLEAN,
           UNCHANGED <<provider, private, can, seen, edited>>
    PROVE  AccessTypeOK' /\ \A t \in Servers : TypedJob(ajob[t])'
<1>1. \A t \in Servers : ajob'[t] = IF t = s THEN j ELSE ajob[t]
  BY DEF TypedInv, AccessInv
<1>2. \A t \in Servers : TypedJob(ajob[t])'
  BY <1>1 DEF TypedInv, TypedJob
<1>3. QED
  BY <1>2 DEF TypedInv, AccessTypeOK, TypedJob, Lists

LEMMA TypedStep ==
    ASSUME TypedInv, AccessNext
    PROVE  TypedInv'
<1>1. AccessInv'
  BY ChangeKeeps, AskKeeps, HooksKeep, AnswersKeep DEF AccessNext, TypedInv
<1> DEFINE Typed == AccessTypeOK' /\ \A t \in Servers : TypedJob(ajob[t])'
<1>2. permission \in Lists /\ overlap \in BOOLEAN /\ \A r : r \in seen => r \in Repos
  BY DEF TypedInv, AccessTypeOK, Lists
<1>3. ASSUME NEW r \in Repos, NEW level \in Levels, Change(r, level) PROVE Typed
  BY <1>3 DEF TypedInv, TypedJob, AccessTypeOK, Change, fixed
<1>4. ASSUME NEW s \in Servers, NEW kind \in {"artifact", "repo"}, NEW r \in Repos,
             NEW safe \in BOOLEAN, Ask(s, kind, r, safe)
      PROVE  Typed
  <2> DEFINE j == [pc |-> "activation", kind |-> kind, on |-> r, safe |-> safe,
                   loaded |-> permission, active |-> FALSE]
  <2>1. TypedJob(j)
    BY <1>2 DEF TypedJob
  <2>2. /\ ajob' = [ajob EXCEPT ![s] = j] /\ permission' = permission /\ overlap' \in BOOLEAN
        /\ UNCHANGED <<provider, private, can, seen, edited>>
    BY <1>2, <1>4 DEF Ask, fixed, truth
  <2> HIDE DEF j
  <2>3. QED
    BY <1>2, <2>1, <2>2, WorkerTyped
<1>5. ASSUME NEW s \in Servers, Hear(s) PROVE Typed
  <2>1. /\ permission' = permission /\ overlap' \in BOOLEAN
        /\ UNCHANGED <<provider, private, can, seen, edited>>
    BY <1>2, <1>5 DEF Hear, fixed, truth
  <2>2. CASE ajob' = ajob
    <3>1. ajob' = [ajob EXCEPT ![s] = ajob[s]] /\ TypedJob(ajob[s])
      BY <2>2 DEF TypedInv, AccessInv
    <3>2. QED
      BY <1>2, <2>1, <3>1, WorkerTyped
  <2>3. CASE ajob' = [ajob EXCEPT ![s] = [pc |-> "hook", event |-> Head(news),
                                          loaded |-> permission]]
    <3>1. TypedJob([pc |-> "hook", event |-> Head(news), loaded |-> permission])
      BY <1>2 DEF TypedJob
    <3>2. QED
      BY <1>2, <2>1, <2>3, <3>1, WorkerTyped
  <2>4. QED
    BY <1>5, <2>2, <2>3 DEF Hear
<1>6. ASSUME NEW s \in Servers, SaveHook(s) PROVE Typed
  <2> DEFINE list == Updated(ajob[s].loaded, ajob[s].event)
  <2>1. HookJob(ajob[s]) /\ ajob[s].loaded \in Lists
    BY <1>6 DEF SaveHook, TypedInv, TypedJob, AccessInv, Working, RequestJob
  <2>2. list \in Lists
    BY <2>1 DEF HookJob, Event, Updated, Remembered, Lists
  <2>3. permission' = IF list = ajob[s].loaded THEN permission ELSE list
    BY <1>6 DEF SaveHook
  <2> HIDE DEF list
  <2>4. /\ ajob' = [ajob EXCEPT ![s] = Resting] /\ TypedJob(Resting) /\ overlap' \in BOOLEAN
        /\ UNCHANGED <<provider, private, can, seen, edited>>
    BY <1>2, <1>6 DEF SaveHook, fixed, truth, TypedJob, Resting
  <2>5. permission' \in Lists
    BY <1>2, <2>2, <2>3
  <2>6. QED
    BY <2>4, <2>5, WorkerTyped
<1>7. ASSUME NEW s \in Servers,
             \/ CheckActivation(s) \/ AnswerRepo(s) \/ AnswerArtifact(s)
             \/ Fetch(s) \/ SavePermission(s)
      PROVE  Typed
  <2> DEFINE j == ajob[s]
  <2>1. /\ j.pc \in {"activation", "read", "append"} /\ overlap' \in BOOLEAN
        /\ UNCHANGED <<provider, private, can, seen, edited>>
    BY <1>2, <1>7 DEF CheckActivation, AnswerRepo, AnswerArtifact, Fetch, SavePermission, fixed,
       truth
  <2>2. RequestJob(j) /\ TypedJob(j) /\ j.loaded \in Lists /\ ajob = [t \in Servers |-> ajob[t]]
    BY <2>1 DEF TypedInv, TypedJob, AccessInv, Working, HookJob
  <2>3. ASSUME NEW ok, Reply(s, ok), permission' \in Lists PROVE Typed
    <3>1. ajob' = [ajob EXCEPT ![s] = Resting] /\ TypedJob(Resting)
      BY <2>3 DEF Reply, TypedJob, Resting
    <3>2. QED
      BY <2>1, <2>3, <3>1, WorkerTyped
  <2>4. CASE CheckActivation(s)
    <3>1. PICK active \in BOOLEAN :
            ajob' = [ajob EXCEPT ![s].pc = "read", ![s].active = active]
      BY <2>4 DEF CheckActivation
    <3> DEFINE k == [j EXCEPT !.pc = "read", !.active = active]
    <3>2. ajob' = [ajob EXCEPT ![s] = k] /\ permission' = permission
      BY <2>2, <2>4, <3>1 DEF CheckActivation
    <3>3. TypedJob(k)
      BY <2>2 DEF RequestJob, TypedJob
    <3> HIDE DEF k
    <3>4. QED
      BY <1>2, <2>1, <3>2, <3>3, WorkerTyped
  <2>5. CASE AnswerRepo(s) \/ AnswerArtifact(s)
    BY <1>2, <2>3, <2>5 DEF AnswerRepo, AnswerArtifact
  <2>6. CASE Fetch(s)
    <3>1. permission' = permission /\ j.kind = "artifact" /\ j.safe /\ j.on \in private
      BY <2>6 DEF Fetch, KnownReader
    <3>2. CASE ajob' = [ajob EXCEPT ![s].pc = "append"]
      <4> DEFINE k == [j EXCEPT !.pc = "append"]
      <4>1. ajob' = [ajob EXCEPT ![s] = k]
        BY <2>2, <3>2
      <4>2. TypedJob(k)
        BY <2>2, <3>1 DEF RequestJob, TypedJob
      <4> HIDE DEF k
      <4>3. QED
        BY <1>2, <2>1, <3>1, <4>1, <4>2, WorkerTyped
    <3>3. CASE Reply(s, FALSE)
      BY <1>2, <2>3, <3>1, <3>3
    <3>4. QED
      BY <2>6, <3>2, <3>3 DEF Fetch
  <2>7. CASE SavePermission(s)
    <3>1. permission' = Remembered(j.loaded) \cup {j.on} /\ Reply(s, j.active) /\ j.on \in Repos
      BY <2>2, <2>7 DEF SavePermission, RequestJob
    <3>2. permission' \in Lists
      BY <2>2, <3>1 DEF Lists, Remembered
    <3>3. QED
      BY <2>3, <3>1, <3>2
  <2>8. QED
    BY <1>7, <2>4, <2>5, <2>6, <2>7
<1>8. Typed
  BY <1>3, <1>4, <1>5, <1>6, <1>7 DEF AccessNext
<1>9. QED
  BY <1>1, <1>8 DEF TypedInv

-----------------------------------------------------------------------------
(***************************************************************************)
(* Proof of the latter.  As long as webhooks are handled while nothing     *)
(* else is, a request has nothing on its copy of the list, and is about to *)
(* append nothing, that was taken from the user without a webhook that     *)
(* says so being still on its way, or being handled by the only worker     *)
(* that does anything.                                                     *)
(***************************************************************************)
\* A webhook that removes r is on its way.
Pending(r) == \E k \in 1..Len(news) : news[k].on = r /\ ~news[k].added

\* None that adds r is the last of it.
InOrder(r) ==
    \A i \in 1..Len(news) : news[i].on = r /\ news[i].added =>
        \E k \in (i + 1)..Len(news) : news[k].on = r /\ ~news[k].added

\* What a worker has loaded or is about to add has r.
Carries(j, r) ==
    \/ j.pc # "idle" /\ r \in Remembered(j.loaded)
    \/ j.pc = "append" /\ j.on = r
    \/ j.pc = "hook" /\ j.event.on = r /\ j.event.added

Removes(j, r) == j.pc = "hook" /\ j.event.on = r /\ ~j.event.added

\* The row, or a copy of it, may show r only until it is removed.
Revoked(r) ==
    can[r] = "none" =>
        /\ InOrder(r)
        /\ r \in Remembered(permission) \/ (\E s \in Servers : Carries(ajob[s], r)) =>
              Pending(r) \/ \E s \in Servers : Removes(ajob[s], r)

\* A webhook is handled alone.
Alone ==
    \A s \in Servers : ajob[s].pc = "hook" =>
        ajob[s].loaded = permission /\ \A t \in Servers : t # s => ajob[t].pc = "idle"

RevokedInv ==
    /\ TypedInv
    /\ ~overlap => Alone /\ \A r \in private : Revoked(r)

\* What follows a change at the provider is the last to arrive.
LEMMA NewsGrows ==
    ASSUME NEW event \in Event, NEW r, news \in Seq(Event), news' = Append(news, event)
    PROVE  /\ Pending(r) => Pending(r)'
           /\ event.on # r /\ InOrder(r) => InOrder(r)'
           /\ event.on = r /\ ~event.added => Pending(r)' /\ InOrder(r)'
<1>1. /\ Len(news) \in Nat /\ Len(news') = Len(news) + 1 /\ news'[Len(news) + 1] = event
      /\ \A i \in 1..Len(news) : news'[i] = news[i]
  OBVIOUS
<1>2. Pending(r) => Pending(r)'
  BY <1>1 DEF Pending
<1>3. ASSUME event.on # r, InOrder(r) PROVE InOrder(r)'
  <2>1. ASSUME NEW i \in 1..Len(news'), news'[i].on = r, news'[i].added
        PROVE  \E k \in (i + 1)..Len(news') : news'[k].on = r /\ ~news'[k].added
    <3>1. i \in 1..Len(news) /\ news[i].on = r /\ news[i].added
      BY <1>1, <1>3, <2>1
    <3>2. PICK k \in (i + 1)..Len(news) : news[k].on = r /\ ~news[k].added
      BY <1>3, <3>1 DEF InOrder
    <3>3. k \in (i + 1)..Len(news') /\ news'[k] = news[k]
      BY <1>1, <3>1, <3>2
    <3>4. QED
      BY <3>2, <3>3
  <2>2. QED
    BY <2>1 DEF InOrder
<1>4. ASSUME event.on = r, ~event.added PROVE Pending(r)' /\ InOrder(r)'
  <2>1. Len(news') \in 1..Len(news') /\ news'[Len(news')].on = r /\ ~news'[Len(news')].added
    BY <1>1, <1>4
  <2>2. ASSUME NEW i \in 1..Len(news'), news'[i].on = r, news'[i].added
        PROVE  Len(news') \in (i + 1)..Len(news')
    BY <1>1, <2>1, <2>2
  <2>3. QED
    BY <2>1, <2>2 DEF Pending, InOrder
<1>5. QED
  BY <1>2, <1>3, <1>4

\* The first of them arrives.
LEMMA NewsArrives ==
    ASSUME NEW r, news \in Seq(Event), news # <<>>, news' = Tail(news), InOrder(r)
    PROVE  /\ InOrder(r)'
           /\ Pending(r) => Pending(r)' \/ (news[1].on = r /\ ~news[1].added)
           /\ news[1].on = r /\ news[1].added => Pending(r)'
<1>1. /\ Len(news) \in Nat \ {0} /\ Len(news') = Len(news) - 1
      /\ \A i \in 1..Len(news') : news'[i] = news[i + 1]
  OBVIOUS
<1>2. ASSUME NEW k \in 2..Len(news), news[k].on = r, ~news[k].added
      PROVE  k - 1 \in 1..Len(news') /\ news'[k - 1] = news[k] /\ Pending(r)'
  <2>1. k - 1 \in 1..Len(news') /\ news'[k - 1] = news[k]
    BY <1>1, <1>2
  <2>2. QED
    BY <1>2, <2>1 DEF Pending
<1>3. InOrder(r)'
  <2>1. ASSUME NEW i \in 1..Len(news'), news'[i].on = r, news'[i].added
        PROVE  \E k \in (i + 1)..Len(news') : news'[k].on = r /\ ~news'[k].added
    <3>1. i + 1 \in 1..Len(news) /\ news[i + 1].on = r /\ news[i + 1].added
      BY <1>1, <2>1
    <3>2. PICK k \in (i + 1 + 1)..Len(news) : news[k].on = r /\ ~news[k].added
      BY <3>1 DEF InOrder
    <3>3. k \in 2..Len(news) /\ k - 1 \in (i + 1)..Len(news')
      BY <1>1, <2>1, <3>2
    <3>4. QED
      BY <1>2, <3>2, <3>3
  <2>2. QED
    BY <2>1 DEF InOrder
<1>4. ASSUME Pending(r), ~(news[1].on = r /\ ~news[1].added) PROVE Pending(r)'
  <2>1. PICK k \in 1..Len(news) : news[k].on = r /\ ~news[k].added
    BY <1>4 DEF Pending
  <2>2. k \in 2..Len(news)
    BY <1>1, <1>4, <2>1
  <2>3. QED
    BY <1>2, <2>1, <2>2
<1>5. ASSUME news[1].on = r, news[1].added PROVE Pending(r)'
  <2>1. PICK k \in (1 + 1)..Len(news) : news[k].on = r /\ ~news[k].added
    BY <1>1, <1>5 DEF InOrder
  <2>2. k \in 2..Len(news)
    BY <1>1, <2>1
  <2>3. QED
    BY <1>2, <2>1, <2>2
<1>6. QED
  BY <1>3, <1>4, <1>5

\* A step of a request, which shows nothing that the row or the request did not
LEMMA RequestRevokes ==
    ASSUME RevokedInv, ~overlap, NEW s \in Servers, NEW j, RequestJob(ajob[s]), j.pc # "hook",
           ajob' = [ajob EXCEPT ![s] = j], UNCHANGED <<private, can, news>>,
           \A r \in private :
               can[r] = "none" /\ (r \in Remembered(permission') \/ Carries(j, r)) =>
                   r \in Remembered(permission) \/ Carries(ajob[s], r)
    PROVE  Alone' /\ \A r \in private : Revoked(r)'
<1>1. \A t \in Servers : ajob'[t] = IF t = s THEN j ELSE ajob[t]
  BY DEF RevokedInv, TypedInv, AccessTypeOK, AccessInv
<1>2. \A t \in Servers : ajob[t].pc # "hook"
  BY DEF RevokedInv, Alone, RequestJob
<1>3. Alone'
  BY <1>1, <1>2 DEF Alone
<1>4. ASSUME NEW r \in private, can[r] = "none" PROVE Revoked(r)'
  <2>1. InOrder(r)'
    BY <1>4 DEF RevokedInv, Revoked, InOrder
  <2>2. ASSUME r \in Remembered(permission') \/ \E t \in Servers : Carries(ajob'[t], r)
        PROVE  Pending(r)'
    <3>1. r \in Remembered(permission) \/ \E t \in Servers : Carries(ajob[t], r)
      <4>1. CASE r \in Remembered(permission')
        BY <1>4, <4>1
      <4>2. ASSUME NEW t \in Servers, Carries(ajob'[t], r)
            PROVE  r \in Remembered(permission) \/ \E x \in Servers : Carries(ajob[x], r)
        <5>1. CASE t = s
          BY <1>1, <1>4, <4>2, <5>1
        <5>2. CASE t # s
          BY <1>1, <4>2, <5>2
        <5>3. QED
          BY <5>1, <5>2
      <4>3. QED
        BY <2>2, <4>1, <4>2
    <3>2. Pending(r)
      BY <1>2, <1>4, <3>1 DEF RevokedInv, Revoked, Removes
    <3>3. QED
      BY <3>2 DEF Pending
  <2>3. QED
    BY <2>1, <2>2 DEF Revoked, Carries
<1>5. QED
  BY <1>3, <1>4 DEF Revoked

LEMMA ChangeRevokes ==
    ASSUME RevokedInv, ~overlap, NEW q \in Repos, NEW level \in Levels, Change(q, level)
    PROVE  Alone' /\ \A r \in private : Revoked(r)'
<1>1. /\ UNCHANGED <<private, permission, ajob>> /\ can' = [can EXCEPT ![q] = level]
      /\ news \in Seq(Event) /\ can \in [Repos -> Levels] /\ private \subseteq Repos
  BY DEF Change, fixed, RevokedInv, TypedInv, AccessTypeOK, AccessInv, Truthful
<1>2. Alone'
  BY <1>1 DEF Alone, RevokedInv
<1>3. \/ news' = news /\ level # "none"
      \/ \E added \in BOOLEAN :
            news' = Append(news, [on |-> q, added |-> added]) /\ (added <=> level # "none")
  <2>1. CASE level = "none"
    BY <2>1 DEF Change
  <2>2. CASE level # "none" /\ can[q] = "none" /\ provider = "gitlab"
    BY <2>2 DEF Change
  <2>3. CASE level # "none" /\ ~(can[q] = "none" /\ provider = "gitlab")
    BY <2>3 DEF Change
  <2>4. QED
    BY <2>1, <2>2, <2>3
<1>4. ASSUME NEW r \in private, can'[r] = "none" PROVE Revoked(r)'
  <2>1. \A s \in Servers : ajob'[s] = ajob[s]
    BY <1>1
  <2>2. CASE r = q
    <3>1. level = "none"
      BY <1>1, <1>4, <2>2
    <3>2. /\ [on |-> q, added |-> FALSE] \in Event
          /\ news' = Append(news, [on |-> q, added |-> FALSE])
      BY <1>3, <3>1 DEF Event
    <3>3. Pending(r)' /\ InOrder(r)'
      BY <1>1, <2>2, <3>2, NewsGrows
    <3>4. QED
      BY <3>3 DEF Revoked
  <2>3. CASE r # q
    <3>1. Revoked(r) /\ can[r] = "none"
      BY <1>1, <1>4, <2>3 DEF RevokedInv
    <3>2. (Pending(r) => Pending(r)') /\ (InOrder(r) => InOrder(r)')
      <4>1. CASE news' = news
        BY <4>1 DEF Pending, InOrder
      <4>2. ASSUME NEW added \in BOOLEAN, news' = Append(news, [on |-> q, added |-> added])
            PROVE  (Pending(r) => Pending(r)') /\ (InOrder(r) => InOrder(r)')
        <5>1. [on |-> q, added |-> added] \in Event
          BY DEF Event
        <5>2. QED
          BY <1>1, <2>3, <4>2, <5>1, NewsGrows
      <4>3. QED
        BY <1>3, <4>1, <4>2
    <3>3. QED
      BY <1>1, <2>1, <3>1, <3>2 DEF Revoked
  <2>4. QED
    BY <2>2, <2>3
<1>5. QED
  BY <1>1, <1>2, <1>4 DEF Revoked

LEMMA HearRevokes ==
    ASSUME RevokedInv, ~overlap', NEW s \in Servers, Hear(s)
    PROVE  Alone' /\ \A r \in private : Revoked(r)'
<1>1. /\ news # <<>> /\ news' = Tail(news) /\ news \in Seq(Event) /\ ~overlap
      /\ UNCHANGED <<provider, private, can, permission>> /\ Head(news) = news[1]
      /\ ajob = [t \in Servers |-> ajob[t]]
  <2>1. /\ news # <<>> /\ news' = Tail(news) /\ ~overlap
        /\ UNCHANGED <<provider, private, can, permission>>
    BY DEF Hear, fixed, truth
  <2>2. news \in Seq(Event) /\ ajob = [t \in Servers |-> ajob[t]]
    BY DEF RevokedInv, TypedInv, AccessTypeOK, AccessInv
  <2>3. QED
    BY <2>1, <2>2
<1>2. \A r \in private : Revoked(r) /\ r \in Repos
  BY <1>1 DEF RevokedInv, TypedInv, AccessTypeOK
<1>3. CASE ajob' = ajob /\ news[1].on \notin private
  <2>1. Alone'
    BY <1>1, <1>3 DEF Alone, RevokedInv
  <2>2. ASSUME NEW r \in private, can[r] = "none" PROVE Revoked(r)'
    <3>1. InOrder(r)
      BY <1>2, <2>2 DEF Revoked
    <3>2. InOrder(r)' /\ (Pending(r) => Pending(r)')
      BY <1>1, <1>3, <3>1, NewsArrives
    <3>3. QED
      BY <1>1, <1>2, <1>3, <2>2, <3>2 DEF Revoked
  <2>3. QED
    BY <1>1, <2>1, <2>2 DEF Revoked
<1>4. CASE ajob' = [ajob EXCEPT ![s] = [pc |-> "hook", event |-> Head(news),
                                        loaded |-> permission]] /\ ~Busy
  <2> DEFINE j == [pc |-> "hook", event |-> news[1], loaded |-> permission]
  <2>1. \A t \in Servers : ajob'[t] = IF t = s THEN j ELSE ajob[t]
    BY <1>1, <1>4
  <2>2. \A t \in Servers : ajob[t].pc = "idle"
    BY <1>4 DEF Busy
  <2>3. Alone'
    BY <1>1, <2>1, <2>2 DEF Alone
  <2>4. ASSUME NEW r \in private, can[r] = "none" PROVE Revoked(r)'
    <3>1. /\ InOrder(r)
          /\ r \in Remembered(permission) => Pending(r)
      BY <1>2, <2>2, <2>4 DEF Revoked, Removes
    <3>2. /\ InOrder(r)'
          /\ Pending(r) => Pending(r)' \/ (news[1].on = r /\ ~news[1].added)
          /\ news[1].on = r /\ news[1].added => Pending(r)'
      BY <1>1, <3>1, NewsArrives
    <3>3. ASSUME NEW t \in Servers, Carries(ajob'[t], r)
          PROVE  r \in Remembered(permission) \/ (news[1].on = r /\ news[1].added)
      BY <2>1, <2>2, <3>3 DEF Carries
    <3>4. ASSUME news[1].on = r, ~news[1].added PROVE Removes(ajob'[s], r)
      BY <2>1, <3>4 DEF Removes
    <3>5. QED
      BY <1>1, <3>1, <3>2, <3>3, <3>4 DEF Revoked
  <2>5. QED
    BY <1>1, <2>3, <2>4 DEF Revoked
<1>5. QED
  <2>1. CASE provider = "github" \/ Head(news).on \in private
    BY <1>4, <2>1 DEF Hear
  <2>2. CASE ~(provider = "github" \/ Head(news).on \in private)
    BY <1>1, <1>3, <2>2 DEF Hear
  <2>3. QED
    BY <2>1, <2>2

LEMMA SaveRevokes ==
    ASSUME RevokedInv, ~overlap, NEW s \in Servers, SaveHook(s)
    PROVE  Alone' /\ \A r \in private : Revoked(r)'
<1> DEFINE j == ajob[s]
           list == Updated(j.loaded, j.event)
<1>1. /\ j.pc = "hook" /\ permission' = (IF list = j.loaded THEN permission ELSE list)
      /\ ajob' = [ajob EXCEPT ![s] = Resting] /\ UNCHANGED <<private, can, news>>
      /\ ajob = [t \in Servers |-> ajob[t]]
  BY DEF SaveHook, fixed, truth, RevokedInv, TypedInv, AccessTypeOK, AccessInv
<1>2. j.loaded = permission /\ \A t \in Servers : t # s => ajob[t].pc = "idle"
  BY <1>1 DEF RevokedInv, Alone
<1>3. \A t \in Servers : ajob'[t].pc = "idle"
  BY <1>1, <1>2 DEF Resting
<1>4. Alone'
  BY <1>3 DEF Alone
<1>5. ASSUME NEW r \in private, can[r] = "none" PROVE Revoked(r)'
  <2>1. Revoked(r)
    BY DEF RevokedInv
  <2>2. InOrder(r)' /\ (Pending(r) => Pending(r)')
    BY <1>1, <1>5, <2>1 DEF Revoked, InOrder, Pending
  <2>3. \A t \in Servers : ~Carries(ajob'[t], r)
    BY <1>3 DEF Carries
  <2>4. ASSUME r \in Remembered(permission') PROVE Pending(r)
    <3>1. r \in Remembered(list)
      BY <1>1, <1>2, <2>4
    <3>2. r \in Remembered(permission) \/ (j.event.on = r /\ j.event.added)
      BY <1>2, <3>1 DEF Updated, Remembered
    <3>3. ~Removes(j, r)
      BY <3>1 DEF Removes, Updated, Remembered
    <3>4. Carries(j, r) \/ r \in Remembered(permission)
      BY <1>1, <3>2 DEF Carries
    <3>5. \A t \in Servers : ~Removes(ajob[t], r)
      BY <1>2, <3>3 DEF Removes
    <3>6. QED
      BY <1>5, <2>1, <3>4, <3>5 DEF Revoked
  <2>5. QED
    BY <2>2, <2>3, <2>4 DEF Revoked
<1>6. QED
  BY <1>1, <1>4, <1>5 DEF Revoked

LEMMA AskRevokes ==
    ASSUME RevokedInv, ~overlap', NEW s \in Servers, NEW kind, NEW q, NEW safe,
           Ask(s, kind, q, safe)
    PROVE  Alone' /\ \A r \in private : Revoked(r)'
<1> DEFINE j == [pc |-> "activation", kind |-> kind, on |-> q, safe |-> safe,
                 loaded |-> permission, active |-> FALSE]
<1>1. /\ ajob' = [ajob EXCEPT ![s] = j] /\ ~HookRuns /\ ~overlap
      /\ UNCHANGED <<private, can, permission, news>> /\ ajob = [t \in Servers |-> ajob[t]]
  BY DEF Ask, fixed, truth, RevokedInv, TypedInv, AccessTypeOK, AccessInv
<1>2. \A t \in Servers : ajob'[t] = IF t = s THEN j ELSE ajob[t]
  BY <1>1
<1>3. \A t \in Servers : ajob[t].pc # "hook" /\ ajob'[t].pc # "hook"
  BY <1>1, <1>2 DEF HookRuns
<1>4. Alone'
  BY <1>3 DEF Alone
<1>5. ASSUME NEW r \in private, can[r] = "none" PROVE Revoked(r)'
  <2>1. Revoked(r)
    BY <1>1 DEF RevokedInv
  <2>2. InOrder(r)' /\ (Pending(r) => Pending(r)')
    BY <1>1, <1>5, <2>1 DEF Revoked, InOrder, Pending
  <2>3. ASSUME NEW t \in Servers, Carries(ajob'[t], r)
        PROVE  r \in Remembered(permission) \/ Carries(ajob[t], r)
    BY <1>2, <2>3 DEF Carries
  <2>4. \A t \in Servers : ~Removes(ajob[t], r)
    BY <1>3 DEF Removes
  <2>5. QED
    BY <1>1, <1>5, <2>1, <2>2, <2>3, <2>4 DEF Revoked
<1>6. QED
  BY <1>1, <1>4, <1>5 DEF Revoked

LEMMA AnswersRevoke ==
    ASSUME RevokedInv, ~overlap, NEW s \in Servers,
           \/ CheckActivation(s) \/ AnswerRepo(s) \/ AnswerArtifact(s)
           \/ Fetch(s) \/ SavePermission(s)
    PROVE  Alone' /\ \A r \in private : Revoked(r)'
<1> DEFINE j == ajob[s]
<1>1. j.pc \in {"activation", "read", "append"} /\ UNCHANGED <<private, can, news>>
  BY DEF CheckActivation, AnswerRepo, AnswerArtifact, Fetch, SavePermission, fixed, truth
<1>2. RequestJob(j)
  BY <1>1 DEF RevokedInv, TypedInv, AccessTypeOK, AccessInv, Working, HookJob
<1>3. ASSUME NEW ok, Reply(s, ok), permission' = permission
      PROVE  Alone' /\ \A r \in private : Revoked(r)'
  <2>1. ajob' = [ajob EXCEPT ![s] = Resting] /\ Resting.pc # "hook"
        /\ \A r : ~Carries(Resting, r)
    BY <1>3 DEF Reply, Resting, Carries
  <2>2. QED
    BY <1>1, <1>2, <1>3, <2>1, RequestRevokes
<1>4. CASE CheckActivation(s)
  <2>1. PICK active \in BOOLEAN :
          ajob' = [ajob EXCEPT ![s].pc = "read", ![s].active = active]
    BY <1>4 DEF CheckActivation
  <2> DEFINE k == [j EXCEPT !.pc = "read", !.active = active]
  <2>2. ajob' = [ajob EXCEPT ![s] = k] /\ permission' = permission
    BY <1>4, <2>1 DEF RevokedInv, TypedInv, AccessTypeOK, AccessInv, CheckActivation
  <2>3. k.pc # "hook" /\ \A r : Carries(k, r) => Carries(j, r)
    BY <1>1, <1>2 DEF RequestJob, Carries
  <2> HIDE DEF k
  <2>4. QED
    BY <1>1, <1>2, <2>2, <2>3, RequestRevokes
<1>5. CASE AnswerRepo(s) \/ AnswerArtifact(s)
  BY <1>3, <1>5 DEF AnswerRepo, AnswerArtifact
<1>6. CASE Fetch(s)
  <2>1. permission' = permission
    BY <1>6 DEF Fetch
  <2>2. CASE MayView(can[j.on]) /\ ajob' = [ajob EXCEPT ![s].pc = "append"]
    <3> DEFINE k == [j EXCEPT !.pc = "append"]
    <3>1. ajob' = [ajob EXCEPT ![s] = k]
      BY <2>2 DEF RevokedInv, TypedInv, AccessTypeOK, AccessInv
    <3>2. k.pc # "hook" /\ \A r : can[r] = "none" /\ Carries(k, r) => Carries(j, r)
      BY <1>1, <1>2, <2>2 DEF RequestJob, Carries, MayView
    <3> HIDE DEF k
    <3>3. QED
      BY <1>1, <1>2, <2>1, <3>1, <3>2, RequestRevokes
  <2>3. CASE Reply(s, FALSE)
    BY <1>3, <2>1, <2>3
  <2>4. QED
    BY <1>6, <2>2, <2>3 DEF Fetch
<1>7. CASE SavePermission(s)
  <2>1. /\ permission' = Remembered(j.loaded) \cup {j.on} /\ j.pc = "append"
        /\ ajob' = [ajob EXCEPT ![s] = Resting] /\ Resting.pc # "hook"
    BY <1>7 DEF SavePermission, Reply, Resting
  <2>2. \A r : (r \in Remembered(permission') => Carries(j, r)) /\ ~Carries(Resting, r)
    BY <2>1 DEF Remembered, Carries, Resting
  <2>3. QED
    BY <1>1, <1>2, <2>1, <2>2, RequestRevokes
<1>8. QED
  BY <1>4, <1>5, <1>6, <1>7

LEMMA RevokedStep ==
    ASSUME RevokedInv, AccessNext
    PROVE  RevokedInv'
<1>1. TypedInv'
  BY TypedStep DEF RevokedInv
<1>2. ASSUME ~overlap' PROVE Alone' /\ \A r \in private : Revoked(r)'
  <2>1. ~overlap
    BY <1>2 DEF AccessNext, Change, Ask, Hear, SaveHook, CheckActivation, AnswerRepo,
       AnswerArtifact, Fetch, SavePermission
  <2>2. QED
    BY <1>2, <2>1, ChangeRevokes, HearRevokes, SaveRevokes, AskRevokes, AnswersRevoke
       DEF AccessNext
<1>3. UNCHANGED private
  BY DEF AccessNext, Change, Ask, Hear, SaveHook, CheckActivation, AnswerRepo,
     AnswerArtifact, Fetch, SavePermission, fixed
<1>4. QED
  BY <1>1, <1>2, <1>3 DEF RevokedInv

LEMMA RevokedStarts == AccessInit => RevokedInv
<1>1. AccessInit => AccessInv
  BY DEF AccessInit, AccessInv, Truthful, Permitted, Shown, Remembered, Levels, Working,
     Resting
<1>2. AccessInit => TypedInv
  <2>1. AccessInit => \A s \in Servers : ajob[s].pc = "idle"
    BY DEF AccessInit, Resting
  <2>2. AccessInit => AccessTypeOK
    BY <2>1 DEF AccessInit, AccessTypeOK, Levels
  <2>3. AccessInit => \A s \in Servers : TypedJob(ajob[s])
    BY <2>1 DEF TypedJob
  <2>4. QED
    BY <1>1, <2>2, <2>3 DEF TypedInv
<1>3. QED
  BY <1>2 DEF AccessInit, RevokedInv, Alone, Revoked, InOrder, Pending, Carries, Remembered,
     Resting

LEMMA RevokedStays ==
    ASSUME RevokedInv, UNCHANGED accessVars
    PROVE  RevokedInv'
  BY DEF accessVars, RevokedInv, TypedInv, TypedJob, AccessTypeOK, Lists, AccessInv, Truthful,
     Permitted, Shown, Working, HookJob, RequestJob, Honest, Alone, Revoked, InOrder, Pending,
     Carries, Removes

LEMMA RevokedSafe ==
    ASSUME RevokedInv
    PROVE  AccessTypeOK /\ GrantedByProvider /\ QuietRevoked
<1>1. AccessTypeOK /\ GrantedByProvider
  BY DEF RevokedInv, TypedInv, AccessInv, Permitted, Shown, GrantedByProvider, viewable_repos
<1>2. QuietRevoked
  BY DEF RevokedInv, QuietRevoked, Revoked, Pending, Removes, Busy, viewable_repos
<1>3. QED
  BY <1>1, <1>2

\* However many workers there are: when all webhooks are handled, each of them alone, no
\* list shows a private repository that the provider has taken from the user.
THEOREM Revocations == AccessSpec => []QuietRevoked
<1>1. RevokedInv /\ [AccessNext]_accessVars => RevokedInv'
  BY RevokedStep, RevokedStays
<1>2. QED
  BY <1>1, RevokedStarts, RevokedSafe, PTL DEF AccessSpec
=============================================================================
