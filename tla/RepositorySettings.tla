--------------------------- MODULE RepositorySettings ---------------------------
(***************************************************************************)
(* The requests that change a repository through the internal API          *)
(* (api/internal/repo/views.py): its webhook is reset, its upload token    *)
(* regenerated, it is activated or deactivated.  Each reads the row, asks  *)
(* the provider, and saves the whole row that it read.                     *)
(***************************************************************************)
EXTENDS Absent, Integers, FiniteSets

CONSTANTS
    Settings,       \* requests that may run at a time
    Repositories,   \* private repositories of an owner with a legacy plan
    Credits,        \* active ones that the plan allows
    MaxHook         \* bound: hooks are numbered up to this

\* What the constants must be
HookAssumption == Credits \in Nat /\ MaxHook \in Nat /\ IsFiniteSet(Repositories)

VARIABLES
    repo,           \* the rows: [hookid, active], hookid 0 for NULL;
                    \* the upload token is not told apart
    hooks,          \* the hooks that the provider has for each repository
    setting,        \* the requests: [pc, repo, seen, kind]
    made,           \* how many hooks were made
    overlapped,     \* the kinds of requests behind which the row, or the active ones,
                    \* changed before they saved it
    died            \* whether a reset was cut short

settingVars == <<repo, hooks, setting, made, overlapped, died>>

None3 == [pc |-> "none"]

RepoRow == [hookid : 0..MaxHook, active : BOOLEAN]
Setting == [pc : {"seen", "cleared", "forgotten", "posted", "allowed"}, repo : Repositories,
            seen : RepoRow, kind : {"reset", "token", "activate", "deactivate"},
            made : 0..MaxHook, counted : SUBSET Repositories]

SettingsTypeOK ==
    /\ repo \in [Repositories -> RepoRow]
    /\ hooks \in [Repositories -> SUBSET (1..MaxHook)]
    /\ setting \in [Settings -> {None3} \cup Setting]
    /\ made \in 0..MaxHook /\ died \in BOOLEAN
    /\ overlapped \subseteq {"reset", "token", "activate", "deactivate"}

SettingsInit ==
    /\ repo = [r \in Repositories |-> [hookid |-> 0, active |-> FALSE]]
    /\ hooks = [r \in Repositories |-> {}]
    /\ setting = [q \in Settings |-> None3]
    /\ made = 0 /\ overlapped = {} /\ died = FALSE

End(q) == setting' = [setting EXCEPT ![q] = None3]
Goes(q, pc) == setting' = [setting EXCEPT ![q].pc = pc]

Active(rows) == {r \in Repositories : rows[r].active}

\* The row is saved with all the values that the request read.
Row(q) == setting[q].seen

SaveSeen(q, row) ==
    /\ repo' = [repo EXCEPT ![setting[q].repo] = row]
    /\ overlapped' = IF repo[setting[q].repo] = Row(q) THEN overlapped
                     ELSE overlapped \cup {setting[q].kind}

-----------------------------------------------------------------------------
\* get_object and check_object_permissions, for a user who may edit; those who may not
\* end here and change nothing
LookAtRepository(q, r, kind) ==
    /\ setting[q] = None3
    /\ setting' = [setting EXCEPT ![q] = [pc |-> "seen", repo |-> r, seen |-> repo[r], kind |-> kind,
                                            made |-> 0, counted |-> {}]]
    /\ UNCHANGED <<repo, hooks, made, overlapped, died>>

\* bug: the old hook stays at the provider
LeavesHook(q) == hooks

WithoutHook(q) == [hooks EXCEPT ![setting[q].repo] = @ \ {Row(q).hookid}]

\* delete_webhook_on_provider: an unknown hook is an error, which ends the request
DeleteWebhook(q) ==
    /\ setting[q].pc = "seen" /\ setting[q].kind = "reset" /\ Row(q).hookid # 0
    /\ IF Row(q).hookid \in hooks[setting[q].repo]
       THEN Goes(q, "cleared") /\ hooks' = WithoutHook(q)
       ELSE End(q) /\ UNCHANGED hooks
    /\ UNCHANGED <<repo, made, overlapped, died>>

\* bug: the row is saved only when there is a new hook
StillNamed(q) == Row(q)

Unhooked(q) == [Row(q) EXCEPT !.hookid = 0]

\* hookid = None, and save
ForgetWebhook(q) ==
    /\ setting[q].pc = "cleared"
    /\ SaveSeen(q, Unhooked(q))
    /\ setting' = [setting EXCEPT ![q].pc = "forgotten", ![q].seen.hookid = 0]
    /\ UNCHANGED <<hooks, made, died>>

\* create_webhook_on_provider
PostWebhook(q) ==
    /\ \/ setting[q].pc = "forgotten"
       \/ setting[q].pc = "seen" /\ setting[q].kind = "reset" /\ Row(q).hookid = 0
    /\ made < MaxHook
    /\ made' = made + 1
    /\ hooks' = [hooks EXCEPT ![setting[q].repo] = @ \cup {made + 1}]
    /\ setting' = [setting EXCEPT ![q].pc = "posted", ![q].made = made + 1]
    /\ UNCHANGED <<repo, overlapped, died>>

SaveWebhook(q) ==
    /\ setting[q].pc = "posted"
    /\ SaveSeen(q, [Row(q) EXCEPT !.hookid = setting[q].made])
    /\ End(q)
    /\ UNCHANGED <<hooks, made, died>>

\* The provider does not answer, or the process ends.
CutShort(q) ==
    /\ setting[q] # None3
    /\ End(q)
    /\ died' = (died \/ setting[q].pc \in {"cleared", "posted"})
    /\ UNCHANGED <<repo, hooks, made, overlapped>>

RegenerateToken(q) ==
    /\ setting[q].pc = "seen" /\ setting[q].kind = "token"
    /\ SaveSeen(q, Row(q))
    /\ End(q)
    /\ UNCHANGED <<hooks, made, died>>

\* bug: the last credit may be used twice
OneMore(rows) == Cardinality(Active(rows)) > Credits

NoCredits(rows) == Cardinality(Active(rows)) >= Credits

\* perform_update: counted anew, whatever the row says of itself
CheckCredits(q) ==
    /\ setting[q].pc = "seen" /\ setting[q].kind = "activate"
    /\ IF NoCredits(repo) THEN End(q)
       ELSE setting' = [setting EXCEPT ![q].pc = "allowed", ![q].counted = Active(repo)]
    /\ UNCHANGED <<repo, hooks, made, overlapped, died>>

\* Two activations of different repositories may both be allowed by the last credit.
SaveActive(q) ==
    /\ setting[q].pc = "allowed"
    /\ repo' = [repo EXCEPT ![setting[q].repo] = [Row(q) EXCEPT !.active = TRUE]]
    /\ overlapped' = IF repo[setting[q].repo] = Row(q) /\ setting[q].counted = Active(repo)
                     THEN overlapped ELSE overlapped \cup {"activate"}
    /\ End(q)
    /\ UNCHANGED <<hooks, made, died>>

Deactivate(q) ==
    /\ setting[q].pc = "seen" /\ setting[q].kind = "deactivate"
    /\ SaveSeen(q, [Row(q) EXCEPT !.active = FALSE])
    /\ End(q)
    /\ UNCHANGED <<hooks, made, died>>

SettingsNext ==
    \E q \in Settings :
        \/ \E r \in Repositories, kind \in {"reset", "token", "activate", "deactivate"} :
              LookAtRepository(q, r, kind)
        \/ DeleteWebhook(q) \/ ForgetWebhook(q) \/ PostWebhook(q) \/ SaveWebhook(q)
        \/ CutShort(q) \/ RegenerateToken(q)
        \/ CheckCredits(q) \/ SaveActive(q) \/ Deactivate(q)

SettingsSpec == SettingsInit /\ [][SettingsNext]_settingVars
-----------------------------------------------------------------------------
(* Properties *)

\* Unless requests overlapped or one was cut short: what a row says of its hook is so
\* outside of a reset, and after it the hook is the only one, the older ones being gone.
HookIsTheOnly ==
    overlapped = {} /\ ~died =>
        \A r \in Repositories :
            (\A q \in Settings : setting[q] = None3 \/ setting[q].repo # r
                                  \/ setting[q].pc \in {"seen", "allowed"}) =>
                hooks[r] = {repo[r].hookid} \ {0}

\* No reset alone, however many overlap, leaves a row with a hook that the provider does
\* not have, after which every reset of it would fail: one must have been cut short, or
\* a request of another kind have saved the row as it was before.
HookCanBeReset ==
    \A r \in Repositories :
        repo[r].hookid # 0 /\ repo[r].hookid \notin hooks[r] =>
            \/ died \/ overlapped \ {"reset"} # {}
            \/ \E q \in Settings : setting[q] # None3 /\ setting[q].pc = "cleared" /\ setting[q].repo = r

\* Requests that do not overlap never activate more repositories than the plan pays for.
WithinCredits == overlapped = {} => Cardinality(Active(repo)) <= Credits

-----------------------------------------------------------------------------
(* Why: an inductive invariant *)

\* A request that has deleted the hook of r and not said so, or made one
Clearing(q, r) == setting[q].pc = "cleared" /\ setting[q].repo = r
Posting(q, r) == setting[q].pc = "posted" /\ setting[q].repo = r

\* The number of a hook is used once, and only who made it knows it before the row names it.
HooksAreNumbered ==
    /\ \A r \in Repositories : hooks[r] \subseteq 1..made /\ repo[r].hookid \in 0..made
    /\ \A q \in Settings : setting[q] # None3 =>
          setting[q].seen.hookid \in 0..made /\ setting[q].made \in 0..made
    /\ \A q \in Settings, r \in Repositories : Posting(q, r) =>
          /\ setting[q].made \in hooks[r]
          /\ \A s \in Repositories : repo[s].hookid # setting[q].made
          /\ \A p \in Settings : setting[p] # None3 =>
                /\ setting[p].seen.hookid # setting[q].made
                /\ p # q => setting[p].made # setting[q].made

\* What a request that has gone on knows of the row
RequestsKnow ==
    \A q \in Settings :
        /\ setting[q].pc = "cleared" => setting[q].seen.hookid # 0
        /\ setting[q].pc \in {"forgotten", "posted"} => setting[q].seen.hookid = 0
        /\ setting[q].pc = "allowed" => ~(Cardinality(setting[q].counted) >= Credits)

\* While no request has saved an old row and none was cut short, one request at most has
\* deleted the hook that the row names, and the provider has that hook and those that
\* requests made: no other, and none less.
HooksAreKnown ==
    overlapped = {} /\ ~died => \A r \in Repositories :
        /\ \A q \in Settings : Clearing(q, r) =>
              /\ repo[r].hookid = setting[q].seen.hookid
              /\ \A p \in Settings : Clearing(p, r) => p = q
        /\ \A n \in 1..MaxHook : n \in hooks[r] <=>
              \/ n = repo[r].hookid /\ \A q \in Settings : ~Clearing(q, r)
              \/ \E q \in Settings : Posting(q, r) /\ setting[q].made = n

SettingsInv ==
    /\ SettingsTypeOK /\ HooksAreNumbered /\ RequestsKnow
    /\ HooksAreKnown /\ HookCanBeReset /\ WithinCredits
=============================================================================
