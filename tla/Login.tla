--------------------------------- MODULE Login ---------------------------------
(***************************************************************************)
(* Logging in with an account of a git provider or of Sentry               *)
(* (codecov_auth/views) and who a request then acts as                     *)
(* (codecov_auth/middleware.py).  An account has a row of owners; a user   *)
(* links the accounts of one person; a session belongs to a browser.       *)
(*                                                                         *)
(* A callback reads the session when it starts, counts the users of the    *)
(* license, creates or updates the owner's row, and links it to a user,    *)
(* each in a step of its own, from what it has loaded.  Users are numbers  *)
(* in the order of their creation.                                         *)
(***************************************************************************)
EXTENDS Absent, Naturals, FiniteSets

CONSTANTS
    Browsers,
    LoginAccounts,    \* accounts at the providers
    Providers,        \* which provider each may be of: a set of functions
    SentryAccounts,
    MaxUsers,         \* bound on the users created
    MaxLogins,        \* bound on the callbacks at once
    AllowedUsers      \* license.number_allowed_users of a self-hosted instance, 0 for None

\* What the constants must be
LoginAssumption == AllowedUsers \in Nat /\ MaxLogins \in Nat \ {0} /\ Nothing \notin Nat

VARIABLES
    ServiceOf,    \* the provider of each account
    enterprise,   \* settings.IS_ENTERPRISE, with a license that counts who logs in
    signedup,     \* accounts whose row has an oauth_token
    userof,       \* owner.user of each account
    sentryuser,   \* SentryUser.user of each Sentry account
    lastuser,     \* the users are 1..lastuser
    session,      \* of each browser: [user, owner], owner being current_owner_id
    cameas,       \* the account each browser has logged in with last
    ticket,       \* the state or request token each browser was last sent to the provider
                  \* with: "none", "live" or "gone"
    logins,       \* callbacks that have read the session: [browser, account, user, linked, pc]
    tangled       \* whether two callbacks of one browser, account or user overlapped

loginVars == <<ServiceOf, enterprise, signedup, userof, sentryuser, lastuser, session,
               cameas, ticket, logins, tangled>>

given == <<ServiceOf, enterprise>>

Anonymous == [user |-> Nothing, owner |-> Nothing]
Users == 1..lastuser

LoginTypeOK ==
    /\ ServiceOf \in Providers /\ {enterprise, tangled} \subseteq BOOLEAN
    /\ signedup \subseteq LoginAccounts
    /\ userof \in [LoginAccounts -> Users \cup {Nothing}]
    /\ sentryuser \in [SentryAccounts -> Users \cup {Nothing}]
    /\ session \in [Browsers -> [user : Users \cup {Nothing}, owner : LoginAccounts \cup {Nothing}]]
    /\ cameas \in [Browsers -> LoginAccounts \cup {Nothing}]
    /\ ticket \in [Browsers -> {"none", "live", "gone"}]
    /\ \A a \in LoginAccounts : userof[a] # Nothing => a \in signedup
    /\ \A b \in Browsers : session[b].user = Nothing => session[b] = Anonymous

LoginInit ==
    /\ ServiceOf \in Providers /\ enterprise \in BOOLEAN
    /\ signedup = {} /\ userof = [a \in LoginAccounts |-> Nothing]
    /\ sentryuser = [x \in SentryAccounts |-> Nothing] /\ lastuser = 0
    /\ session = [b \in Browsers |-> Anonymous] /\ cameas = [b \in Browsers |-> Nothing]
    /\ ticket = [b \in Browsers |-> "none"]
    /\ logins = {} /\ tangled = FALSE

OwnersOf(user) == {a \in LoginAccounts : userof[a] = user}

\* CurrentOwnerMiddleware for a request to pages of a service: the account in the session
\* if it is the user's, and the user's first account of the service otherwise
CurrentOwners(s, service) ==
    IF s.user = Nothing THEN {}
    ELSE IF s.owner \in OwnersOf(s.user) /\ ServiceOf[s.owner] = service
         THEN {s.owner}
         ELSE {a \in OwnersOf(s.user) : ServiceOf[a] = service}

-----------------------------------------------------------------------------
(***************************************************************************)
(* States, which are in redis for 500 seconds.  Bitbucket's request token  *)
(* is in a cookie instead.                                                 *)
(***************************************************************************)
Redirect(b) ==
    /\ ticket' = [ticket EXCEPT ![b] = "live"]
    /\ UNCHANGED <<given, signedup, userof, sentryuser, lastuser, session, cameas, logins,
                   tangled>>

Expire(b) ==
    /\ ticket[b] = "live" /\ ticket' = [ticket EXCEPT ![b] = "gone"]
    /\ UNCHANGED <<given, signedup, userof, sentryuser, lastuser, session, cameas, logins,
                   tangled>>

\* get_redirection_url_from_state
Honoured(b) == ticket[b] = "live"

\* GitHub's view asks for the state before it does anything, GitLab's after the owner's row
\* is saved, and Bitbucket's two views for the cookie first
GithubStarts(b, a) == ServiceOf[a] = "github" /\ Honoured(b)
GitlabStarts(b, a) == ServiceOf[a] = "gitlab" /\ ticket[b] # "none"
GitlabProceeds(l) == ServiceOf[l.account] = "gitlab" => Honoured(l.browser)
BitbucketStarts(b, a) == ServiceOf[a] = "bitbucket" /\ Honoured(b)
BitbucketServerStarts(b, a) == ServiceOf[a] = "bitbucket_server" /\ Honoured(b)

\* remove_state: at once, or five seconds later (Expire) for GitLab; the cookie is deleted
UsedUp(l) == IF ServiceOf[l.account] = "gitlab" THEN ticket
             ELSE [ticket EXCEPT ![l.browser] = "gone"]

-----------------------------------------------------------------------------
(***************************************************************************)
(* The callback of a provider                                              *)
(***************************************************************************)
Overlaps(b, a, user) ==
    \E l \in logins : l.browser = b \/ l.account = a \/ (user # Nothing /\ l.user = user)

\* the request's user is read
Callback(b, a) ==
    /\ Cardinality(logins) < MaxLogins
    /\ \/ GithubStarts(b, a) \/ GitlabStarts(b, a)
       \/ BitbucketStarts(b, a) \/ BitbucketServerStarts(b, a)
    /\ logins' = logins \cup {[browser |-> b, account |-> a, user |-> session[b].user,
                               linked |-> Nothing, pc |-> "fetch"]}
    /\ logins' # logins
    /\ tangled' = (tangled \/ Overlaps(b, a, session[b].user))
    /\ UNCHANGED <<given, signedup, userof, sentryuser, lastuser, session, cameas,
                   ticket>>

\* The license limits the users when it names a number other than zero.
Limited == enterprise /\ AllowedUsers # 0

\* Who has logged in with the provider of a
SignedUp(a) == {x \in signedup : ServiceOf[x] = ServiceOf[a]}

\* bug: only who has logged in before is counted
RefusedAgain(a) == Limited /\ a \in signedup /\ Cardinality(SignedUp(a)) > AllowedUsers

\* _check_user_count_limitations: more than the allowed users, not as many as
Refused(a) == Limited /\ a \notin signedup /\ Cardinality(SignedUp(a)) > AllowedUsers

\* get_and_modify_owner counts the users first, unless the provider fails.
CountUsers(l) ==
    /\ l.pc = "fetch"
    /\ \/ logins' = logins \ {l}
       \/ /\ ~Refused(l.account)
          /\ logins' = (logins \ {l}) \cup {[l EXCEPT !.pc = "counted"]}
    /\ UNCHANGED <<given, signedup, userof, sentryuser, lastuser, session, cameas, ticket,
                   tangled>>

\* and then saves the row.
Modify(l) ==
    /\ l.pc = "counted"
    /\ signedup' = signedup \cup {l.account}
    /\ logins' = (logins \ {l}) \cup
           IF GitlabProceeds(l) THEN {[l EXCEPT !.pc = "login", !.linked = userof[l.account]]}
           ELSE {}
    /\ UNCHANGED <<given, userof, sentryuser, lastuser, session, cameas, ticket, tangled>>

\* bug: the user may have another account of the service
NeverTaken(user, a) == FALSE

Taken(user, a) == \E x \in OwnersOf(user) : ServiceOf[x] = ServiceOf[a]

\* login_owner looks whether the session's user has another account of the service, for
\* an account that had no user when it was loaded.
LookForOther(l) ==
    /\ l.pc = "login" /\ l.linked = Nothing /\ l.user # Nothing
    /\ logins' = (logins \ {l}) \cup
           {[l EXCEPT !.pc = IF Taken(l.user, l.account) THEN "taken" ELSE "free"]}
    /\ UNCHANGED <<given, signedup, userof, sentryuser, lastuser, session, cameas, ticket,
                   tangled>>

\* bug: the session stays with the user who was logged in
Keeps(l) == [user |-> l.user, owner |-> Nothing]

\* the account belongs to another user: who logs in becomes that user, and no owner is
\* put in the session
Becomes(l) == [user |-> l.linked, owner |-> Nothing]

\* a new user is linked to the account
NewUser(l) ==
    /\ lastuser < MaxUsers /\ lastuser' = lastuser + 1
    /\ userof' = [userof EXCEPT ![l.account] = lastuser']
    /\ session' = [session EXCEPT ![l.browser] = [user |-> lastuser', owner |-> l.account]]

Claim(l) ==
    /\ userof' = [userof EXCEPT ![l.account] = l.user]
    /\ session' = [session EXCEPT ![l.browser] = [user |-> l.user, owner |-> l.account]]
    /\ UNCHANGED lastuser

\* The account has a user, who logs in.
LogIn(l) ==
    /\ session' = [session EXCEPT ![l.browser] =
                       IF l.user \in {Nothing, l.linked}
                       THEN [user |-> l.linked, owner |-> l.account] ELSE Becomes(l)]
    /\ UNCHANGED <<userof, lastuser>>

\* login_owner, from the session's user and the owner's user that were loaded before; then
\* remove_state, which raises when the state has expired: the session is there already.
LoginOwner(l) ==
    /\ \/ l.pc = "login" /\ l.linked = Nothing /\ l.user = Nothing /\ NewUser(l)
       \/ l.pc = "taken" /\ NewUser(l)
       \/ l.pc = "free" /\ Claim(l)
       \/ l.pc = "login" /\ l.linked # Nothing /\ LogIn(l)
    /\ cameas' = [cameas EXCEPT ![l.browser] = l.account]
    /\ logins' = logins \ {l}
    /\ ticket' = UsedUp(l)
    /\ UNCHANGED <<given, signedup, sentryuser, tangled>>

-----------------------------------------------------------------------------
\* Sentry's callback, whose account links to a user without an owner.  The account's user
\* is unique (SentryUser.sentry_id): of two first logins that overlap one fails.
SentryLogin(b, x) ==
    LET here == session[b].user
        known == sentryuser[x]
        user == IF known # Nothing THEN known ELSE IF here # Nothing THEN here ELSE lastuser + 1
    IN /\ user <= MaxUsers /\ lastuser' = IF user \in Users THEN lastuser ELSE user
       /\ sentryuser' = [sentryuser EXCEPT ![x] = user]
       /\ IF here = user
          THEN UNCHANGED <<session, cameas>>
          ELSE /\ session' = [session EXCEPT ![b] = [user |-> user, owner |-> Nothing]]
               /\ cameas' = [cameas EXCEPT ![b] = Nothing]
       /\ tangled' = (tangled \/ \E l \in logins : l.browser = b)
       /\ UNCHANGED <<given, signedup, userof, ticket, logins>>

Logout(b) ==
    /\ session[b] # Anonymous /\ session' = [session EXCEPT ![b] = Anonymous]
    /\ cameas' = [cameas EXCEPT ![b] = Nothing]
    /\ tangled' = (tangled \/ \E l \in logins : l.browser = b)
    /\ UNCHANGED <<given, signedup, userof, sentryuser, lastuser, ticket, logins>>

LoginNext ==
    \/ \E b \in Browsers : Redirect(b) \/ Expire(b) \/ Logout(b)
    \/ \E b \in Browsers, a \in LoginAccounts : Callback(b, a)
    \/ \E b \in Browsers, x \in SentryAccounts : SentryLogin(b, x)
    \/ \E l \in logins : CountUsers(l) \/ Modify(l) \/ LookForOther(l) \/ LoginOwner(l)

LoginSpec == LoginInit /\ [][LoginNext]_loginVars

-----------------------------------------------------------------------------
\* Accounts of one provider that are linked to one user
Linked(user, service) == {a \in OwnersOf(user) : ServiceOf[a] = service}

\* "We're only allowing a single owner of a given service to be linked to any 1 user":
\* as long as no two callbacks of one browser, account or user overlap; and never more
\* than there are callbacks at once.
OneOwnerPerService ==
    \A user \in Users, a \in LoginAccounts :
        Cardinality(Linked(user, ServiceOf[a])) <= IF tangled THEN MaxLogins ELSE 1

\* Whoever has logged in with an account acts as that account on the pages of its
\* provider, whoever they were before and whichever Sentry account they add; again as long
\* as no callbacks overlap.
ActsAsTheAccount ==
    ~tangled => \A b \in Browsers : cameas[b] # Nothing =>
        CurrentOwners(session[b], ServiceOf[cameas[b]]) = {cameas[b]}

\* On a self-hosted instance no more users than the license allows log in with one
\* provider, except for as many as there are callbacks at once: users are counted before
\* the row of a new one is saved, and may be as many as the license allows.
UsersWithinLicense ==
    Limited => \A a \in LoginAccounts : Cardinality(SignedUp(a)) <= AllowedUsers + MaxLogins

-----------------------------------------------------------------------------
(* The inductive invariant *)

\* A callback under way
Logging == [browser : Browsers, account : LoginAccounts, user : Users \cup {Nothing},
            linked : Users \cup {Nothing}, pc : {"fetch", "counted", "login", "taken", "free"}]

LoginRows ==
    /\ lastuser \in Nat /\ logins \subseteq Logging
    /\ \A l \in logins : /\ l.pc \in {"login", "taken", "free"} => l.account \in signedup
                         /\ l.pc \in {"taken", "free"} => l.linked = Nothing /\ l.user # Nothing

\* Accounts that have logged in with the provider of a, or may without being counted again
Admitted(a) == SignedUp(a) \cup
    {x \in LoginAccounts : ServiceOf[x] = ServiceOf[a] /\
        \E l \in logins : l.pc = "counted" /\ l.account = x}

\* Accounts of the provider of a that are linked to the user, or that callbacks which found
\* none are about to link
Linking(user, a) == Linked(user, ServiceOf[a]) \cup
    {x \in LoginAccounts : ServiceOf[x] = ServiceOf[a] /\
        \E l \in logins : l.pc = "free" /\ l.user = user /\ l.account = x}

\* What was not there to be counted is only what callbacks are about to save.
LoginCounts ==
    /\ IsFiniteSet(logins) /\ Cardinality(logins) <= MaxLogins /\ IsFiniteSet(signedup)
    /\ Limited => \A a \in LoginAccounts : Cardinality(Admitted(a)) <= AllowedUsers + MaxLogins
    /\ \A user \in Users, a \in LoginAccounts : Cardinality(Linking(user, a)) <= MaxLogins

\* A callback that is about to log in has what the row says of its account's user, it is
\* the only one of its account and its user, and what it found free is; so a user has one
\* account of each service, and whoever logged in last with an account is its user.
Untangled ==
    /\ \A l \in logins :
          /\ l.pc \in {"login", "taken", "free"} => l.linked = userof[l.account]
          /\ l.pc = "free" => ~Taken(l.user, l.account)
          /\ \A m \in logins :
                m.account = l.account \/ (m.user = l.user /\ m.user # Nothing) => m = l
    /\ \A a, x \in LoginAccounts :
          a # x /\ userof[a] # Nothing /\ userof[a] = userof[x] => ServiceOf[a] # ServiceOf[x]
    /\ \A b \in Browsers : cameas[b] # Nothing =>
          userof[cameas[b]] # Nothing /\ userof[cameas[b]] = session[b].user

LoginInv == LoginTypeOK /\ LoginRows /\ LoginCounts /\ (~tangled => Untangled)
=============================================================================
