------------------------------- MODULE OwnerRows -------------------------------
(***************************************************************************)
(* What several handlers write in the row of an owner, each saving the     *)
(* whole row as it was when the request began: the profile and the         *)
(* answers of the onboarding (codecov_auth/commands/owner), the link to a  *)
(* Sentry user (services/sentry.py), the list of admins, which members and *)
(* staff edit too (api/internal/owner, codecov_auth/admin.py), and the     *)
(* token for the provider, which GitLab replaces whenever it expired       *)
(* (services/repo_providers.py): the one before is then of no use.         *)
(***************************************************************************)
EXTENDS Absent, Integers, FiniteSets

CONSTANTS
    Members,        \* owners, of a GitLab service
    Tasks,          \* requests that may run at a time
    SentryUsers,
    MaxToken        \* bound: tokens are numbered up to this

\* What the constants must be
TokenAssumption == MaxToken \in Nat \ {0}

VARIABLES
    row,            \* the rows: [token, onboarded, sentry, admins], admins Nothing for NULL
    issued,         \* the provider's: the last token of each owner
    expired,        \* owners whose last token expired
    providerAdmins, \* who are admins of whose organization, by the provider
    wereAdmins,     \* who was once, or was made one by a member or by staff
    answers,        \* owners that have a profile with their answers
    twice,          \* owners whose answers were saved over earlier ones
    request,        \* the requests: [pc, who, of, own, org], own the row of `who` as
                    \* it was read, org that of the organization `of` it asks about
    stale,          \* owners whose row was saved after it had changed since it was read
    cut,            \* owners for whom a request ended between two writes
    organizations   \* the organizations of each owner, which other services write

rowVars == <<row, issued, expired, providerAdmins, wereAdmins, answers, twice, request, stale, cut,
             organizations>>
provider == <<issued, expired, providerAdmins, wereAdmins, organizations>>
profiles == <<answers, twice>>

Idle == [pc |-> "idle"]

OwnerRow == [token : 1..MaxToken, onboarded : BOOLEAN, sentry : SentryUsers \cup {Nothing},
             admins : {Nothing} \cup SUBSET Members]

RowsInit ==
    /\ row \in [Members -> [token : {1}, onboarded : {FALSE}, sentry : {Nothing},
                            admins : {Nothing, {}}]]
    /\ issued = [o \in Members |-> 1] /\ expired = {}
    /\ providerAdmins = {} /\ wereAdmins = {}
    /\ answers = {} /\ twice = {}
    /\ request = [q \in Tasks |-> Idle]
    /\ stale = {} /\ cut = {}
    /\ organizations \in [Members -> SUBSET Members]
    /\ \A o \in Members : o \notin organizations[o]

Done(q) == request' = [request EXCEPT ![q] = Idle]

\* The link to a Sentry user is unique: the database refuses a row that takes another's.
Claimable(o, new) ==
    new.sentry = Nothing \/ \A p \in Members \ {o} : row[p].sentry # new.sentry

\* The whole row of o is written, by one who read it as `was`.  (When it is refused, the
\* request fails: EndEarly.)
SaveRow(o, was, new) ==
    /\ Claimable(o, new)
    /\ row' = [row EXCEPT ![o] = new]
    /\ stale' = IF row[o] = was THEN stale ELSE stale \cup {o}

\* An owner is an admin of its own account without a question.
Asks(q) == request[q].who # request[q].of

-----------------------------------------------------------------------------
\* The rows of the user and of the organization are read when the request begins.
Begin(q, who, of) ==
    /\ request[q] = Idle
    /\ request' = [request EXCEPT ![q] = [pc |-> "begun", who |-> who, of |-> of,
                                          own |-> row[who], org |-> row[of]]]
    /\ UNCHANGED <<row, stale, cut, provider, profiles>>

\* The user's own row is saved with this in it, and the request is over.
SaveOwn(q, new) ==
    /\ request[q].pc = "begun" /\ ~Asks(q)
    /\ SaveRow(request[q].who, request[q].own, new)
    /\ Done(q)
    /\ UNCHANGED <<cut, provider, profiles>>

\* update_profile, save_terms_agreement: they change columns that are not told apart.
UpdateProfile(q) == SaveOwn(q, request[q].own)

\* save_sentry_state
SaveSentryState(q, user) == SaveOwn(q, [request[q].own EXCEPT !.sentry = user])

\* bug: who was onboarded may be once more
Always(q) == TRUE

MayOnboard(q) == ~request[q].own.onboarded

\* OnboardUserInteractor: first the row
Onboard(q) ==
    /\ request[q].pc = "begun" /\ ~Asks(q) /\ MayOnboard(q)
    /\ SaveRow(request[q].who, request[q].own, [request[q].own EXCEPT !.onboarded = TRUE])
    /\ request' = [request EXCEPT ![q].pc = "onboarded"]
    /\ UNCHANGED <<cut, provider, profiles>>

\* and then the profile
SaveAnswers(q) ==
    LET who == request[q].who
    IN /\ request[q].pc = "onboarded"
       /\ answers' = answers \cup {who}
       /\ twice' = twice \cup ({who} \cap answers)
       /\ Done(q)
       /\ UNCHANGED <<row, stale, cut, provider>>

-----------------------------------------------------------------------------
(***************************************************************************)
(* The provider, and a request to it with the token of the user: the one   *)
(* of _is_admin_on_provider.                                               *)
(***************************************************************************)
ExpireToken(o) ==
    /\ o \notin expired /\ issued[o] < MaxToken
    /\ expired' = expired \cup {o}
    /\ UNCHANGED <<row, issued, providerAdmins, wereAdmins, profiles, request, stale, cut,
                   organizations>>

ChangeAdmins(o, p) ==
    /\ o # p
    /\ providerAdmins' = IF <<o, p>> \in providerAdmins THEN providerAdmins \ {<<o, p>>}
                         ELSE providerAdmins \cup {<<o, p>>}
    /\ wereAdmins' = wereAdmins \cup providerAdmins'
    /\ UNCHANGED <<row, issued, expired, profiles, request, stale, cut, organizations>>

\* The adapter replaces a token that expired.  One that was replaced before is refused.
RefreshToken(q) ==
    LET who == request[q].who
    IN /\ request[q].pc = "begun" /\ Asks(q)
       /\ request[q].own.token = issued[who] /\ who \in expired
       /\ issued' = [issued EXCEPT ![who] = @ + 1] /\ expired' = expired \ {who}
       /\ request' = [request EXCEPT ![q].pc = "refreshed"]
       /\ UNCHANGED <<row, stale, cut, providerAdmins, wereAdmins, profiles, organizations>>

\* bug: the row is saved with the token it had
NotSaved(q) == request[q].own

Refreshed(q) == [request[q].own EXCEPT !.token = issued[request[q].who]]

\* The callback of get_token_refresh_callback saves the user's whole row.
SaveToken(q) ==
    /\ request[q].pc = "refreshed"
    /\ SaveRow(request[q].who, request[q].own, Refreshed(q))
    /\ request' = [request EXCEPT ![q].pc = "asking", ![q].own = Refreshed(q)]
    /\ UNCHANGED <<cut, provider, profiles>>

\* bug: whoever asks becomes an admin
Anyone(q) == TRUE

SaidToBe(q) == <<request[q].who, request[q].of>> \in providerAdmins

\* GetIsCurrentUserAnAdmin: an admin by the provider is added to the list of the row read
\* before, which fails when the list is NULL.  (Who is on it already is on it twice then:
\* the list is taken as a set.)  Who is no admin by the provider stays on it.
AskAdmin(q) ==
    LET org == request[q].org
    IN /\ \/ request[q].pc = "asking"
          \/ /\ request[q].pc = "begun" /\ Asks(q) /\ request[q].who \notin expired
             /\ request[q].own.token = issued[request[q].who]
       /\ IF SaidToBe(q) /\ org.admins # Nothing
          THEN SaveRow(request[q].of, org, [org EXCEPT !.admins = @ \cup {request[q].who}])
          ELSE UNCHANGED <<row, stale>>
       /\ Done(q)
       /\ UNCHANGED <<cut, provider, profiles>>

-----------------------------------------------------------------------------
\* MemberOfOrgPermissions: of the organization whose members are edited
MemberOfOrg(q) ==
    request[q].who = request[q].of \/ request[q].of \in organizations[request[q].who]

\* Whose row is edited is of the organization's members or has a seat in it (users_of):
\* seats are the module Seats', and here anybody may have one.
Edits(q) == request[q].pc = "begun" /\ MemberOfOrg(q)

\* The list is saved with the organization's row as the request read it.
SaveAdmins(q, admins) ==
    /\ SaveRow(request[q].of, request[q].org, [request[q].org EXCEPT !.admins = admins])
    /\ Done(q)
    /\ UNCHANGED <<issued, expired, providerAdmins, organizations, cut, profiles>>

\* add_admin, by whichever member of the organization
AddAdmin(q, p) ==
    LET admins == request[q].org.admins
    IN /\ Edits(q)
       /\ SaveAdmins(q, IF admins = Nothing THEN {p} ELSE admins \cup {p})
       /\ wereAdmins' = wereAdmins \cup {<<p, request[q].of>>}

\* remove_admin
RemoveAdmin(q, p) ==
    LET admins == request[q].org.admins
    IN /\ Edits(q)
       /\ SaveAdmins(q, IF admins = Nothing THEN Nothing ELSE admins \ {p})
       /\ UNCHANGED wereAdmins

\* The form of the admin site, whose page has the list and whether the owner is onboarded
\* as they were when it was shown; the rest is read again when it is sent.
EnterAdmins(q, admins) ==
    LET o == request[q].who
    IN /\ request[q].pc = "begun" /\ ~Asks(q)
       /\ SaveRow(o, request[q].own,
                  [row[o] EXCEPT !.admins = admins, !.onboarded = request[q].own.onboarded])
       /\ wereAdmins' = wereAdmins \cup
              IF admins = Nothing THEN {} ELSE {<<p, o>> : p \in admins}
       /\ Done(q)
       /\ UNCHANGED <<issued, expired, providerAdmins, organizations, cut, profiles>>

\* The provider refuses the token, the database refuses the row, or the process ends.
EndEarly(q) ==
    /\ request[q] # Idle
    /\ Done(q)
    /\ cut' = IF request[q].pc \in {"refreshed", "onboarded"} THEN cut \cup {request[q].who} ELSE cut
    /\ UNCHANGED <<row, stale, provider, profiles>>

RowsNext ==
    \/ \E o \in Members : ExpireToken(o)
    \/ \E o, p \in Members : ChangeAdmins(o, p)
    \/ \E q \in Tasks :
          \/ \E who, of \in Members : Begin(q, who, of)
          \/ UpdateProfile(q) \/ Onboard(q) \/ SaveAnswers(q)
          \/ \E user \in SentryUsers : SaveSentryState(q, user)
          \/ RefreshToken(q) \/ SaveToken(q) \/ AskAdmin(q) \/ EndEarly(q)
          \/ \E p \in Members : AddAdmin(q, p) \/ RemoveAdmin(q, p)
          \/ \E admins \in {Nothing} \cup SUBSET Members : EnterAdmins(q, admins)

RowsSpec == RowsInit /\ [][RowsNext]_rowVars

-----------------------------------------------------------------------------
RowsTypeOK ==
    /\ row \in [Members -> OwnerRow] /\ issued \in [Members -> 1..MaxToken]
    /\ \A o \in Members : row[o].token <= issued[o]
    /\ \A ids \in {expired, answers, twice, stale, cut} : ids \subseteq Members
    /\ wereAdmins \subseteq Members \X Members /\ providerAdmins \subseteq wereAdmins
    /\ organizations \in [Members -> SUBSET Members]
    /\ \A q \in Tasks : request[q] # Idle =>
          /\ request[q].pc \in {"begun", "refreshed", "asking", "onboarded"}
          /\ request[q].own \in OwnerRow /\ request[q].org \in OwnerRow

Between(o, pc) == \E q \in Tasks : request[q].pc = pc /\ request[q].who = o

\* An owner can go on asking the provider: the token of its row is the last one the
\* provider gave, unless one is about to be saved, or was lost with a request that ended
\* before it, or with a row that was saved over a later one.
\* (repo_providers.py:39-44)
TokenWorks ==
    \A o \in Members \ (stale \cup cut) :
        Between(o, "refreshed") \/ row[o].token = issued[o]

\* The answers of the onboarding are there for whoever is onboarded, and are saved once:
\* unless a request ended between the two writes, after which they can never be given, or
\* the row was saved over a later one.  (onboard_user.py:26-57)
OnboardedOnce ==
    \A o \in Members \ (stale \cup cut) :
        /\ row[o].onboarded <=> (o \in answers \/ Between(o, "onboarded"))
        /\ o \notin twice

\* Who is on the list of admins of an owner was made one at some time: by the provider, by
\* a member of the organization, who may make any of its members one, or by staff; whatever
\* rows were saved over which.
\* (get_is_current_user_an_admin.py:45-52, api/internal/owner/serializers.py:328-332)
AdminsWereAdmins ==
    \A o \in Members : row[o].admins # Nothing =>
        \A p \in row[o].admins : <<p, o>> \in wereAdmins

-----------------------------------------------------------------------------
(* The inductive invariant *)

\* A row of o as it is or was: the token is the last or one before, and its admins were admins.
KnownRow(o, r) ==
    /\ r \in OwnerRow /\ r.token <= issued[o]
    /\ r.admins # Nothing => \A p \in r.admins : <<p, o>> \in wereAdmins

\* A request under way
Request == [pc : {"begun", "refreshed", "asking", "onboarded"}, who : Members, of : Members,
            own : OwnerRow, org : OwnerRow]

\* The answers of o are being saved by one request, for the first time.
Answering(o) ==
    /\ Between(o, "onboarded") => o \notin answers
    /\ \A p, q \in Tasks :
          /\ request[p].pc = "onboarded" /\ request[q].pc = "onboarded"
          /\ request[p].who = o /\ request[q].who = o
          => p = q

\* What the properties say of an owner whose row was not saved over and whose requests
\* all ended
Right(o) ==
    /\ Between(o, "refreshed") \/ row[o].token = issued[o]
    /\ row[o].onboarded <=> (o \in answers \/ Between(o, "onboarded"))
    /\ o \notin twice
    /\ Answering(o)

\* A token that can expire is not the last that is numbered; the rest is of the rows, and
\* of the copies of them that requests hold.
RowsInv ==
    /\ RowsTypeOK /\ request \in [Tasks -> {Idle} \cup Request]
    /\ \A o \in Members : KnownRow(o, row[o])
    /\ \A q \in Tasks : request[q] # Idle =>
          /\ KnownRow(request[q].who, request[q].own)
          /\ KnownRow(request[q].of, request[q].org)
    /\ \A o \in expired : issued[o] < MaxToken
    /\ \A o \in Members \ (stale \cup cut) : Right(o)
=============================================================================
