------------------------------- MODULE Services -------------------------------
(***************************************************************************)
(* The services around an upload, each alone: who is logged in and what    *)
(* that lets them do, the rows that webhooks, uploads and requests write,  *)
(* and what readers are told.  They share no state that either relies on   *)
(* the other to keep, so which one is checked is chosen first, and         *)
(* v1, v2, ... are its variables.                                          *)
(*                                                                         *)
(* The constants are those of the services.  Proofs are at the end.        *)
(***************************************************************************)
EXTENDS Absent, Integers, Sequences, FiniteSets, TLC, FiniteSetTheorems,
    NaturalsInduction, WellFoundedInduction, TLAPS

CONSTANTS
    Browsers, LoginAccounts, Providers, SentryAccounts, MaxUsers, MaxLogins, AllowedUsers,
    Interactors, MaxKey, Members, Tasks, SentryUsers, MaxToken, Callers, MaxChains,
    Servers, Repos, MaxChanges, MaxAsked,
    Requests, FlagNames, UploadKinds, Suites, Hashes, LastCommit, Attempts, Askers, MaxResult,
    Announcers, Codes, Shas, MaxRows,
    Projects, Accounts, RepositoryNames, MaxSent, Handlers, MaxInstall, MaxDelivered,
    Settings, Repositories, Credits, MaxHook, Visits, Cards, MaxCoupon,
    Workers, YamlReaders, Owners, ByBot, Bot, ChangedFiles, NonTestable, CommitYaml, MaxWritten,
    Processes, Contents, MaxAssigned, ComparedFiles, Readers, MaxVersion,
    Compared, Measured, Viewers

CONSTANTS
    Three, Things,      \* for the symmetry
    Further             \* accounts that log in only where all are of one provider

VARIABLES part, v1, v2, v3, v4, v5, v6, v7, v8, v9, v10, v11, v12

vars == <<part, v1, v2, v3, v4, v5, v6, v7, v8, v9, v10, v11, v12>>

\* Accounts that are GitHub's, the others all of one other provider; or more accounts, all
\* GitHub's, for the license
OneProvider == {[a \in LoginAccounts |-> "github"]}

OnGithub ==
    OneProvider \cup
    {[a \in LoginAccounts |->
        IF a \in Things THEN "github" ELSE IF a \in Further THEN "elsewhere" ELSE s] :
            s \in {"gitlab", "bitbucket", "bitbucket_server"}}

-----------------------------------------------------------------------------
(* Who is who: login, tokens, rows of owners, refresh, permissions *)

Lg == INSTANCE Login WITH
    ServiceOf <- v1, enterprise <- v2, signedup <- v3, userof <- v4, sentryuser <- v5,
    lastuser <- v6, session <- v7, cameas <- v8, ticket <- v9, logins <- v10, tangled <- v11
Tk == INSTANCE Tokens WITH
    plan <- v1, repoactive <- v2, tokens <- v3, retired <- v4, begun <- v5, lastkey <- v6,
    mixed <- v7
Ow == INSTANCE OwnerRows WITH
    row <- v1, issued <- v2, expired <- v3, providerAdmins <- v4, wereAdmins <- v5,
    answers <- v6, twice <- v7, request <- v8, stale <- v9, cut <- v10, organizations <- v11
Rf == INSTANCE Refresh WITH
    chain <- v1, key <- v2, caller <- v3, crossed <- v4
Ac == INSTANCE Access WITH
    provider <- v1, private <- v2, can <- v3, seen <- v4, edited <- v5, permission <- v6,
    news <- v7, ajob <- v8, granted <- v9, overlap <- v10, changes <- v11, asked <- v12

(* What is sent: uploads, analyses, results, profilings, webhooks of repositories *)

Up == INSTANCE UploadSessions WITH
    Kinds <- UploadKinds,
    flags <- v1, upload <- v2, stored <- v3, lapsed <- v4, deletion <- v5, completion <- v6
An == INSTANCE Analysis WITH
    snapshot <- v1, archived <- v2, suite <- v3, scheduled <- v4, complete <- v5, labels <- v6
Rr == INSTANCE ReportResults WITH
    results <- v1, asker <- v2, waiting <- v3, at <- v4, sentAt <- v5, failed <- v6
Pf == INSTANCE Profilings WITH
    profiling <- v1, announcer <- v2, copies <- v3, unreadable <- v4
Rw == INSTANCE RepositoryRows WITH
    Names <- RepositoryNames,
    host <- v1, rows <- v2, projects <- v3, hooks <- v4, handling <- v5, told <- v6,
    raced <- v7
In == INSTANCE Installations WITH
    app <- v1, installs <- v2, events <- v3, delivered <- v4, name <- v5, row <- v6,
    using <- v7, handler <- v8, refreshes <- v9, excused <- v10

(* What is kept and read: settings, payment details, configurations, archive, comparisons *)

St == INSTANCE RepositorySettings WITH
    repo <- v1, hooks <- v2, setting <- v3, made <- v4, overlapped <- v5, died <- v6
Ad == INSTANCE AccountDetails WITH
    account <- v1, customer <- v2, coupons <- v3, visit <- v4, behind <- v5, lostCall <- v6
Cf == INSTANCE Configurations WITH
    Users <- YamlReaders, Changed <- ChangedFiles,
    ownerYaml <- v1, repoYaml <- v2, readers <- v3, cached <- v4, question <- v5,
    written <- v6, outcome <- v7, inForce <- v8, wereReaders <- v9
Ar == INSTANCE Archive WITH
    row <- v1, files <- v2, switch <- v3, cache <- v4, object <- v5, assigned <- v6,
    recent <- v7, stale <- v8, torn <- v9
Pc == INSTANCE PullCompare WITH
    versions <- v1, listed <- v2, listedOf <- v3, reading <- v4
Cq == INSTANCE ComparisonQuery WITH
    row <- v1, context <- v2, node <- v3
Ds == INSTANCE Datasets WITH
    dataset <- v1, sent <- v2, viewer <- v3, broken <- v4

ASSUME Assumptions ==
    /\ Lg!LoginAssumption /\ Tk!KeyAssumption /\ Ow!TokenAssumption /\ Rf!ChainsAssumption
    /\ Up!RequestsAssumption /\ An!AnalysisAssumption /\ Rr!ResultAssumption /\ Pf!RowsAssumption
    /\ Rw!MaxSentAssumption /\ In!InstallAssumption /\ St!HookAssumption /\ Ad!CouponAssumption
    /\ Cf!ConfigurationAssumption /\ Ar!AssignedAssumption /\ Pc!VersionAssumption
    /\ Cq!ComparedAssumption /\ Ds!ViewerAssumption

-----------------------------------------------------------------------------
\* The variables from some one on, which a part does not have
Unused12 == v12 = Nothing
Unused11 == v11 = Nothing /\ Unused12
Unused10 == v10 = Nothing /\ Unused11
Unused8 == v8 = Nothing /\ v9 = Nothing /\ Unused10
Unused7 == v7 = Nothing /\ Unused8
Unused5 == v5 = Nothing /\ v6 = Nothing /\ Unused7
Unused4 == v4 = Nothing /\ Unused5

From12 == <<v12>>
From11 == <<v11, v12>>
From10 == <<v10, v11, v12>>
From8 == <<v8, v9, v10, v11, v12>>
From7 == <<v7, v8, v9, v10, v11, v12>>
From5 == <<v5, v6, v7, v8, v9, v10, v11, v12>>
From4 == <<v4, v5, v6, v7, v8, v9, v10, v11, v12>>

Init ==
    \/ part = "login" /\ Lg!LoginInit /\ Unused12
    \/ part = "tokens" /\ Tk!TokensInit /\ Unused8
    \/ part = "owners" /\ Ow!RowsInit /\ Unused12
    \/ part = "refresh" /\ Rf!RefreshInit /\ Unused5
    \/ part = "access" /\ Ac!AccessInit
    \/ part = "sessions" /\ Up!SessionsInit /\ Unused7
    \/ part = "analysis" /\ An!AnalysisInit /\ Unused7
    \/ part = "results" /\ Rr!ResultsInit /\ Unused7
    \/ part = "profilings" /\ Pf!ProfilingsInit /\ Unused5
    \/ part = "rows" /\ Rw!RowsInit /\ Unused8
    \/ part = "installations" /\ In!InstallInit /\ Unused11
    \/ part = "settings" /\ St!SettingsInit /\ Unused7
    \/ part = "account" /\ Ad!AccountInit /\ Unused7
    \/ part = "configurations" /\ Cf!ConfigurationsInit /\ Unused10
    \/ part = "archive" /\ Ar!ArchiveInit /\ Unused10
    \/ part = "pull" /\ Pc!PullInit /\ Unused5
    \/ part = "query" /\ Cq!QueryInit /\ Unused4
    \/ part = "datasets" /\ Ds!DatasetsInit /\ Unused5

Next ==
    /\ UNCHANGED part
    /\ \/ part = "login" /\ Lg!LoginNext /\ UNCHANGED From12
       \/ part = "tokens" /\ Tk!TokensNext /\ UNCHANGED From8
       \/ part = "owners" /\ Ow!RowsNext /\ UNCHANGED From12
       \/ part = "refresh" /\ Rf!RefreshNext /\ UNCHANGED From5
       \/ part = "access" /\ Ac!AccessNext
       \/ part = "sessions" /\ Up!SessionsNext /\ UNCHANGED From7
       \/ part = "analysis" /\ An!AnalysisNext /\ UNCHANGED From7
       \/ part = "results" /\ Rr!ResultsNext /\ UNCHANGED From7
       \/ part = "profilings" /\ Pf!ProfilingsNext /\ UNCHANGED From5
       \/ part = "rows" /\ Rw!RowsNext /\ UNCHANGED From8
       \/ part = "installations" /\ In!InstallNext /\ UNCHANGED From11
       \/ part = "settings" /\ St!SettingsNext /\ UNCHANGED From7
       \/ part = "account" /\ Ad!AccountNext /\ UNCHANGED From7
       \/ part = "configurations" /\ Cf!ConfigurationsNext /\ UNCHANGED From10
       \/ part = "archive" /\ Ar!ArchiveNext /\ UNCHANGED From10
       \/ part = "pull" /\ Pc!PullNext /\ UNCHANGED From5
       \/ part = "query" /\ Cq!QueryNext /\ UNCHANGED From4
       \/ part = "datasets" /\ Ds!DatasetsNext /\ UNCHANGED From5

Spec == Init /\ [][Next]_vars

-----------------------------------------------------------------------------
\* Bounds.  An organization with one other member and no more logins at once after two
\* callbacks met; two refreshes that met.  And what the properties say nothing of: a member's
\* own row that was saved whole after it had changed, a session created behind two others by
\* the endpoints that create it late, an excuse of an installation, a repeated discount.
Bounded ==
    /\ part = "login" => /\ v2 = (v1 \in OneProvider)
                         /\ v11 => v6 <= 1 /\ ~v2
    /\ part = "owners" => v10 = {} /\ \E p, o \in Members :
                              /\ v11[p] = {o} /\ v11[o] = {} /\ v9 \subseteq {o} /\ o \notin v3
                              /\ v5 \subseteq {<<p, o>>} /\ v1[p].admins = Nothing
    /\ part = "refresh" => v4 <= 2
    /\ part = "sessions" =>
         ((\E u \in Requests : v2[u].kind \in {"v2", "v4"}) => \E u \in Requests : v2[u] = Up!NoUpload)
    /\ part = "installations" => v10 = {}
    /\ part = "settings" => v5 \subseteq {"reset"}
    /\ part = "account" => ~v5

Symmetric == Permutations(Three) \cup Permutations(Things)

-----------------------------------------------------------------------------
\* A provider account logs in to one owner, which is the account's own, and within the
\* license; an owner has one valid token, and a revoked one never works again; a request
\* uses a token of the provider that works; who is told to be an admin was one; one
\* refresh runs at a time, and one that has stopped is over.
\* (codecov_auth/views/base.py, models.py, services/refresh.py)
OwnersAreThemselves ==
    /\ part = "login" =>
         Lg!LoginTypeOK /\ Lg!OneOwnerPerService /\ Lg!ActsAsTheAccount /\ Lg!UsersWithinLicense
    /\ part = "tokens" => Tk!TokensTypeOK /\ Tk!OneTokenPerOwner /\ Tk!RevokedStaysRevoked
    /\ part = "owners" =>
         Ow!RowsTypeOK /\ Ow!TokenWorks /\ Ow!OnboardedOnce /\ Ow!AdminsWereAdmins
    /\ part = "refresh" => Rf!RefreshTypeOK /\ Rf!StoppedMeansReady /\ Rf!OneRefreshAtATime

\* A private repository is shown to whom the provider has let see it, and no more when its
\* webhooks are worked off; a commit's own configuration only to who could read the commit.
\* (api/shared/permissions.py, repository_accessors.py, services/yaml.py)
AccessIsGranted ==
    /\ part = "access" => Ac!AccessTypeOK /\ Ac!GrantedByProvider /\ Ac!QuietRevoked
    /\ part = "configurations" => Cf!ConfigurationsTypeOK /\ Cf!ReadByReaders

\* What was sent is there when its task runs, the rest of it with the oldest row, and an
\* upload is not complete before it is; an analysis that is complete is analysed, the last
\* result of a report is announced, and an empty upload passes only if nothing testable
\* changed.
\* (upload/serializers.py, staticanalysis/, labelanalysis/, upload/views/)
UploadsArriveWhole ==
    /\ part = "sessions" =>
         Up!SessionsTypeOK /\ Up!OldestRowHasTheRest /\ Up!ReportsAreFound /\ Up!CompletionIsCautious
    /\ part = "analysis" => An!AnalysisTypeOK /\ An!QuietSuitesAreAnalysed /\ An!LabelsHaveSuites
    /\ part = "results" => Rr!ResultsTypeOK /\ Rr!QuietResultsAreDone
    /\ part = "profilings" => Pf!ProfilingsTypeOK
    /\ part = "configurations" => Cf!PassIsJustified

\* When all webhooks are handled the rows of repositories are what the provider says, and
\* the organization's names the installation of the app that its repositories use; a
\* repository has the one hook its row names, and one that lost it can be given another;
\* private repositories stay within the plan's credits; a customer has the one coupon and
\* the card that the row and Stripe name.
\* (webhook_handlers/views/, repo/views.py, services/billing.py)
RowsAndProvidersAgree ==
    /\ part = "rows" => Rw!QuietRowsAgree
    /\ part = "installations" => In!InstallTypeOK /\ In!QuietInstallationIsNamed
    /\ part = "settings" =>
         St!SettingsTypeOK /\ St!HookIsTheOnly /\ St!HookCanBeReset /\ St!WithinCredits
    /\ part = "account" =>
         Ad!AccountTypeOK /\ Ad!DiscountIsNamed /\ Ad!OneDiscount /\ Ad!CardIsAttached

\* A field in the archive has the value that was assigned; a pull request hides a file only
\* for a list that an older version made; what a query says of a comparison is of a
\* processed one; measurements answer when they were backfilled.
\* (utils/model_utils.py, services/comparison.py, graphql_api/, timeseries/helpers.py)
ReadersSeeWhatIs ==
    /\ part = "archive" => Ar!ArchiveTypeOK /\ Ar!RowHasItsValue
    /\ part = "pull" => Pc!PullTypeOK /\ Pc!HiddenOnlyWhenStale /\ Pc!ListIsOfItsVersion
    /\ part = "query" => Cq!QueryTypeOK /\ Cq!AnswersAreAboutProcessed
    /\ part = "datasets" =>
         Ds!DatasetsTypeOK /\ Ds!BackfilledOnce /\ Ds!AnsweredWhenBackfilled

\* No step reads another value of an archived field than was written, takes back what the
\* worker wrote of a profiling, or changes the critical files without a new summary.
\* (utils/model_utils.py, profiling/serializers.py, services/profiling.py)
NothingIsTakenBack ==
    [][/\ part = "archive" => Ar!OwnWritesAreRead
       /\ part = "profilings" => Pf!SummariesAreKept /\ Pf!CriticalFilesAreStable]_vars

-----------------------------------------------------------------------------
(* Proofs: logging in *)

ServiceOf == v1
enterprise == v2
signedup == v3
userof == v4
sentryuser == v5
lastuser == v6
session == v7
cameas == v8
ticket == v9
logins == v10
tangled == v11

USE DEF ServiceOf, enterprise, signedup, userof, sentryuser, lastuser, session, cameas,
        ticket, logins, tangled

\* The sets counted there are those counted here.
LEMMA LoginSets ==
    ASSUME NEW S
    PROVE  (Lg!IsFiniteSet(S) <=> IsFiniteSet(S)) /\ Lg!Cardinality(S) = Cardinality(S)
  BY DEF Lg!IsFiniteSet, IsFiniteSet, Lg!Cardinality, Cardinality

\* Accounts of callbacks are no more than the callbacks.
LEMMA FewAccounts ==
    ASSUME NEW S, IsFiniteSet(S), NEW T, \A x \in T : \E l \in S : l.account = x
    PROVE  IsFiniteSet(T) /\ Cardinality(T) <= Cardinality(S)
<1> DEFINE R == {l \in S : l.account \in T}
           f == [l \in R |-> l.account]
<1>1. IsFiniteSet(R) /\ Cardinality(R) <= Cardinality(S)
  BY FS_Subset
<1>2. f \in Surjection(R, T)
  BY DEF Surjection
<1> HIDE DEF R, f
<1>3. IsFiniteSet(T) /\ Cardinality(T) <= Cardinality(R)
  BY <1>1, <1>2, FS_Surjection
<1>4. Cardinality(T) \in Nat /\ Cardinality(R) \in Nat /\ Cardinality(S) \in Nat
  BY <1>1, <1>3, FS_CardinalityType
<1>5. QED
  BY <1>1, <1>3, <1>4

\* Who has logged in or may, and what is linked to a user or may be, are finitely many.
LEMMA LoginsFinite ==
    ASSUME Lg!LoginTypeOK, Lg!LoginRows, Lg!LoginCounts, NEW a
    PROVE  /\ IsFiniteSet(Lg!SignedUp(a)) /\ IsFiniteSet(Lg!Admitted(a))
           /\ \A user \in Lg!Users : IsFiniteSet(Lg!Linking(user, a))
<1>1. IsFiniteSet(signedup) /\ IsFiniteSet(logins)
  BY LoginSets DEF Lg!LoginCounts
<1>2. ASSUME NEW T, \A x \in T : \E l \in logins : l.account = x
      PROVE  IsFiniteSet(T)
  BY <1>1, <1>2, FewAccounts
<1>3. IsFiniteSet(Lg!SignedUp(a))
  BY <1>1, FS_Subset DEF Lg!SignedUp
<1>4. IsFiniteSet(Lg!Admitted(a))
  <2> DEFINE T == {x \in LoginAccounts : ServiceOf[x] = ServiceOf[a] /\
                      \E l \in logins : l.pc = "counted" /\ l.account = x}
  <2>1. IsFiniteSet(T)
    BY <1>2
  <2>2. Lg!Admitted(a) = Lg!SignedUp(a) \cup T
    BY DEF Lg!Admitted
  <2> HIDE DEF T
  <2>3. QED
    BY <1>3, <2>1, <2>2, FS_Union
<1>5. ASSUME NEW user \in Lg!Users PROVE IsFiniteSet(Lg!Linking(user, a))
  <2> DEFINE T == {x \in LoginAccounts : ServiceOf[x] = ServiceOf[a] /\
                      \E l \in logins : l.pc = "free" /\ l.user = user /\ l.account = x}
  <2>1. IsFiniteSet(T)
    BY <1>2
  <2>2. Lg!Linking(user, a) = Lg!Linked(user, ServiceOf[a]) \cup T
    BY DEF Lg!Linking
  <2>3. Lg!Linked(user, ServiceOf[a]) \subseteq signedup
    BY Assumptions DEF Lg!Linked, Lg!OwnersOf, Lg!LoginTypeOK, Lg!Users, Lg!LoginRows, Lg!LoginAssumption
  <2>4. IsFiniteSet(Lg!Linked(user, ServiceOf[a]))
    BY <1>1, <2>3, FS_Subset
  <2> HIDE DEF T
  <2>5. QED
    BY <2>1, <2>2, <2>4, FS_Union
<1>6. QED
  BY <1>3, <1>4, <1>5

LEMMA LoginSafe ==
    ASSUME Lg!LoginInv
    PROVE  Lg!LoginTypeOK /\ Lg!OneOwnerPerService /\ Lg!ActsAsTheAccount /\ Lg!UsersWithinLicense
<1>1. ASSUME ~tangled, NEW b \in Browsers, cameas[b] # Nothing
      PROVE  Lg!CurrentOwners(session[b], ServiceOf[cameas[b]]) = {cameas[b]}
  <2> DEFINE a == cameas[b]
  <2>1. /\ a \in LoginAccounts /\ userof[a] # Nothing /\ userof[a] = session[b].user
    BY <1>1 DEF Lg!LoginInv, Lg!LoginTypeOK, Lg!Untangled
  <2>2. \A x \in Lg!OwnersOf(session[b].user) : ServiceOf[x] = ServiceOf[a] => x = a
    BY <1>1, <2>1 DEF Lg!LoginInv, Lg!Untangled, Lg!OwnersOf
  <2>3. a \in Lg!OwnersOf(session[b].user)
    BY <2>1 DEF Lg!OwnersOf
  <2>4. {x \in Lg!OwnersOf(session[b].user) : ServiceOf[x] = ServiceOf[a]} = {a}
    BY <2>2, <2>3
  <2>5. session[b].user # Nothing
    BY <2>1
  <2>6. CASE session[b].owner \in Lg!OwnersOf(session[b].user) /\ ServiceOf[session[b].owner] = ServiceOf[a]
    BY <2>2, <2>5, <2>6 DEF Lg!CurrentOwners
  <2>7. CASE ~(session[b].owner \in Lg!OwnersOf(session[b].user) /\ ServiceOf[session[b].owner] = ServiceOf[a])
    BY <2>4, <2>5, <2>7 DEF Lg!CurrentOwners
  <2>8. QED
    BY <2>6, <2>7
<1>2. Lg!ActsAsTheAccount
  BY <1>1 DEF Lg!ActsAsTheAccount
<1>3. Lg!UsersWithinLicense
  <2> SUFFICES ASSUME Lg!Limited, NEW a \in LoginAccounts
               PROVE  Lg!Cardinality(Lg!SignedUp(a)) <= AllowedUsers + MaxLogins
    BY DEF Lg!UsersWithinLicense
  <2>1. IsFiniteSet(Lg!SignedUp(a)) /\ IsFiniteSet(Lg!Admitted(a)) /\ Lg!SignedUp(a) \subseteq Lg!Admitted(a)
    BY LoginsFinite DEF Lg!LoginInv, Lg!Admitted
  <2>2. Cardinality(Lg!Admitted(a)) <= AllowedUsers + MaxLogins
    BY LoginSets DEF Lg!LoginInv, Lg!LoginCounts
  <2>3. /\ Cardinality(Lg!SignedUp(a)) <= Cardinality(Lg!Admitted(a))
        /\ Cardinality(Lg!SignedUp(a)) \in Nat /\ Cardinality(Lg!Admitted(a)) \in Nat
    BY <2>1, FS_Subset, FS_CardinalityType
  <2>4. QED
    BY <2>2, <2>3, LoginSets, Assumptions DEF Lg!LoginAssumption
<1>4. Lg!OneOwnerPerService
  <2> SUFFICES ASSUME NEW user \in Lg!Users, NEW a \in LoginAccounts
               PROVE  Lg!Cardinality(Lg!Linked(user, ServiceOf[a])) <= IF tangled THEN MaxLogins ELSE 1
    BY DEF Lg!OneOwnerPerService
  <2> DEFINE L == Lg!Linked(user, ServiceOf[a])
  <2>1. IsFiniteSet(Lg!Linking(user, a)) /\ L \subseteq Lg!Linking(user, a)
    BY LoginsFinite DEF Lg!LoginInv, Lg!Linking
  <2>2. Cardinality(Lg!Linking(user, a)) <= MaxLogins
    BY LoginSets DEF Lg!LoginInv, Lg!LoginCounts
  <2>3. /\ Cardinality(L) <= Cardinality(Lg!Linking(user, a)) /\ IsFiniteSet(L)
        /\ Cardinality(L) \in Nat /\ Cardinality(Lg!Linking(user, a)) \in Nat
    BY <2>1, FS_Subset, FS_CardinalityType
  <2>4. CASE tangled
    BY <2>2, <2>3, <2>4, LoginSets, Assumptions DEF Lg!LoginAssumption
  <2>5. CASE ~tangled
    <3>1. \A x, y \in L : x = y
      BY <2>5, Assumptions DEF Lg!LoginInv, Lg!Untangled, Lg!Linked, Lg!OwnersOf, Lg!Users,
         Lg!LoginAssumption, Lg!LoginRows
    <3>2. L = {} \/ \E x : L = {x}
      BY <3>1
    <3>3. Cardinality(L) <= 1
      <4> HIDE DEF L
      <4>1. CASE L = {}
        BY <4>1, FS_EmptySet
      <4>2. ASSUME NEW x, L = {x} PROVE Cardinality(L) <= 1
        <5>1. Cardinality({x}) = 1
          BY FS_Singleton
        <5>2. QED
          BY <4>2, <5>1
      <4>3. QED
        BY <3>2, <4>1, <4>2
    <3>4. QED
      BY <2>5, <3>3, LoginSets
  <2>6. QED
    BY <2>4, <2>5 DEF Lg!LoginInv, Lg!LoginTypeOK
<1>5. QED
  BY <1>2, <1>3, <1>4 DEF Lg!LoginInv

\* A callback that goes on or ends is not one more.
LEMMA LoginGoesOn ==
    ASSUME Lg!LoginCounts, NEW l \in logins, NEW m, NEW to \in SUBSET {m},
           logins' = (logins \ {l}) \cup to
    PROVE  IsFiniteSet(logins') /\ Cardinality(logins') <= MaxLogins
<1>1. /\ IsFiniteSet(logins) /\ Cardinality(logins) <= MaxLogins /\ Cardinality(logins) \in Nat
  BY LoginSets, FS_CardinalityType DEF Lg!LoginCounts
<1>2. IsFiniteSet(logins \ {l}) /\ Cardinality(logins \ {l}) = Cardinality(logins) - 1
  BY <1>1, FS_RemoveElement
<1>3. CASE to = {}
  BY <1>1, <1>2, <1>3, Assumptions DEF Lg!LoginAssumption
<1>4. CASE to = {m}
  <2>1. /\ IsFiniteSet(logins')
        /\ Cardinality(logins') \in {Cardinality(logins \ {l}), Cardinality(logins \ {l}) + 1}
    BY <1>2, <1>4, FS_AddElement
  <2>2. QED
    BY <1>1, <1>2, <2>1, Assumptions DEF Lg!LoginAssumption
<1>5. QED
  BY <1>3, <1>4

\* Nobody more is admitted, and nothing more is about to be linked except to a new user.
LEMMA FewerCount ==
    ASSUME Lg!LoginTypeOK, Lg!LoginRows, Lg!LoginCounts, UNCHANGED Lg!given,
           IsFiniteSet(logins'), Cardinality(logins') <= MaxLogins, IsFiniteSet(signedup'),
           \A a \in LoginAccounts : Lg!Admitted(a)' \subseteq Lg!Admitted(a),
           \A user \in Lg!Users', a \in LoginAccounts :
               \/ user \in Lg!Users /\ Lg!Linking(user, a)' \subseteq Lg!Linking(user, a)
               \/ \E x : Lg!Linking(user, a)' \subseteq {x}
    PROVE  Lg!LoginCounts'
<1>1. ASSUME Lg!Limited', NEW a \in LoginAccounts
      PROVE  Cardinality(Lg!Admitted(a)') <= AllowedUsers + MaxLogins
  BY <1>1, LoginSets, LoginsFinite, FS_Subset, FS_CardinalityType, Assumptions
    DEF Lg!LoginCounts, Lg!Limited, Lg!given, Lg!LoginAssumption
<1>2. ASSUME NEW user \in Lg!Users', NEW a \in LoginAccounts
      PROVE  Cardinality(Lg!Linking(user, a)') <= MaxLogins
  <2>1. CASE user \in Lg!Users /\ Lg!Linking(user, a)' \subseteq Lg!Linking(user, a)
    <3>1. Cardinality(Lg!Linking(user, a)) <= MaxLogins
      BY <2>1, LoginSets DEF Lg!LoginCounts
    <3>2. IsFiniteSet(Lg!Linking(user, a))
      BY <2>1, LoginsFinite
    <3>3. /\ Cardinality(Lg!Linking(user, a)') <= Cardinality(Lg!Linking(user, a))
          /\ Cardinality(Lg!Linking(user, a)') \in Nat /\ Cardinality(Lg!Linking(user, a)) \in Nat
      BY <2>1, <3>2, FS_Subset, FS_CardinalityType
    <3>4. QED
      BY <3>1, <3>3, Assumptions DEF Lg!LoginAssumption
  <2>2. ASSUME NEW x, Lg!Linking(user, a)' \subseteq {x}
        PROVE  Cardinality(Lg!Linking(user, a)') <= MaxLogins
    <3>1. IsFiniteSet({x}) /\ Cardinality({x}) = 1
      BY FS_Singleton
    <3>2. Cardinality(Lg!Linking(user, a)') <= 1 /\ Cardinality(Lg!Linking(user, a)') \in Nat
      BY <2>2, <3>1, FS_Subset, FS_CardinalityType
    <3>3. QED
      BY <3>2, Assumptions DEF Lg!LoginAssumption
  <2>3. QED
    BY <2>1, <2>2
<1>3. QED
  BY <1>1, <1>2, LoginSets DEF Lg!LoginCounts

\* No row is saved or linked, and no callback is about to.
LEMMA CountsStand ==
    ASSUME Lg!LoginTypeOK, Lg!LoginRows, Lg!LoginCounts,
           UNCHANGED <<Lg!given, signedup, userof>>, lastuser' \in Nat,
           IsFiniteSet(logins'), Cardinality(logins') <= MaxLogins,
           \A m \in logins' : m.pc \in {"counted", "free"} => m \in logins
    PROVE  Lg!LoginCounts'
<1>1. \A a : Lg!Admitted(a)' \subseteq Lg!Admitted(a)
  BY DEF Lg!Admitted, Lg!SignedUp, Lg!given
<1>2. \A a, user : Lg!Linking(user, a)' \subseteq Lg!Linking(user, a)
  BY DEF Lg!Linking, Lg!Linked, Lg!OwnersOf, Lg!given
<1>3. ASSUME NEW user \in Lg!Users', user \notin Lg!Users, NEW a
      PROVE  Lg!Linking(user, a)' = {}
  BY <1>2, <1>3, Assumptions DEF Lg!Linking, Lg!Linked, Lg!OwnersOf, Lg!Users, Lg!LoginTypeOK,
     Lg!LoginRows, Lg!Logging, Lg!LoginAssumption
<1>4. IsFiniteSet(signedup')
  BY LoginSets DEF Lg!LoginCounts
<1>5. QED
  BY <1>1, <1>2, <1>3, <1>4, FewerCount

\* Of those who are counted at once as many are admitted as there are callbacks.
LEMMA CountedIn ==
    ASSUME Lg!LoginTypeOK, Lg!LoginRows, Lg!LoginCounts, NEW l \in logins, ~Lg!Refused(l.account),
           NEW m, m = [l EXCEPT !.pc = "counted"], logins' = (logins \ {l}) \cup {m},
           UNCHANGED <<Lg!given, signedup, userof, lastuser>>
    PROVE  Lg!LoginCounts'
<1>1. IsFiniteSet(logins') /\ Cardinality(logins') <= MaxLogins /\ IsFiniteSet(signedup')
  BY LoginGoesOn, LoginSets DEF Lg!LoginCounts
<1>2. l \in Lg!Logging /\ l.account \in LoginAccounts /\ m.pc = "counted" /\ m.account = l.account
  BY DEF Lg!LoginRows, Lg!Logging
<1>3. \A user, a : Lg!Linking(user, a)' \subseteq Lg!Linking(user, a)
  BY <1>2 DEF Lg!Linking, Lg!Linked, Lg!OwnersOf, Lg!given
<1>4. ASSUME Lg!Limited', NEW a \in LoginAccounts
      PROVE  Cardinality(Lg!Admitted(a)') <= AllowedUsers + MaxLogins
  <2>1. /\ Cardinality(Lg!Admitted(a)) <= AllowedUsers + MaxLogins /\ Lg!Limited
        /\ IsFiniteSet(Lg!Admitted(a)) /\ IsFiniteSet(Lg!SignedUp(a))
    BY <1>4, LoginSets, LoginsFinite DEF Lg!LoginCounts, Lg!Limited, Lg!given
  <2>2. CASE ServiceOf[l.account] # ServiceOf[a] \/ l.account \in signedup
    <3>1. Lg!Admitted(a)' \subseteq Lg!Admitted(a)
      BY <1>2, <2>2 DEF Lg!Admitted, Lg!SignedUp, Lg!given
    <3>2. /\ Cardinality(Lg!Admitted(a)') <= Cardinality(Lg!Admitted(a))
          /\ Cardinality(Lg!Admitted(a)') \in Nat /\ Cardinality(Lg!Admitted(a)) \in Nat
      BY <2>1, <3>1, FS_Subset, FS_CardinalityType
    <3>3. QED
      BY <2>1, <3>2, Assumptions DEF Lg!LoginAssumption
  <2>3. CASE ServiceOf[l.account] = ServiceOf[a] /\ l.account \notin signedup
    <3> DEFINE T == {x \in LoginAccounts : ServiceOf[x] = ServiceOf[a] /\
                        \E k \in logins' : k.pc = "counted" /\ k.account = x}
    <3>1. Lg!Admitted(a)' = Lg!SignedUp(a) \cup T
      BY DEF Lg!Admitted, Lg!SignedUp, Lg!given
    <3>2. IsFiniteSet(T) /\ Cardinality(T) <= Cardinality(logins')
      BY <1>1, FewAccounts
    <3>3. Lg!SignedUp(a) = Lg!SignedUp(l.account)
      BY <2>3 DEF Lg!SignedUp
    <3>4. ~(Cardinality(Lg!SignedUp(a)) > AllowedUsers)
      BY <2>1, <2>3, <3>3, LoginSets DEF Lg!Refused
    <3> HIDE DEF T
    <3>5. /\ Cardinality(Lg!Admitted(a)') =
               Cardinality(Lg!SignedUp(a)) + Cardinality(T) - Cardinality(Lg!SignedUp(a) \cap T)
          /\ IsFiniteSet(Lg!SignedUp(a) \cap T)
      BY <2>1, <3>1, <3>2, FS_Union, FS_Intersection
    <3>6. /\ Cardinality(Lg!SignedUp(a)) \in Nat /\ Cardinality(T) \in Nat
          /\ Cardinality(Lg!SignedUp(a) \cap T) \in Nat /\ Cardinality(logins') \in Nat
      BY <1>1, <2>1, <3>2, <3>5, FS_CardinalityType
    <3>7. QED
      BY <1>1, <3>2, <3>4, <3>5, <3>6, Assumptions DEF Lg!LoginAssumption
  <2>4. QED
    BY <2>2, <2>3
<1>5. ASSUME NEW user \in Lg!Users', NEW a \in LoginAccounts
      PROVE  Cardinality(Lg!Linking(user, a)') <= MaxLogins
  <2>1. user \in Lg!Users /\ IsFiniteSet(Lg!Linking(user, a))
    BY LoginsFinite DEF Lg!Users
  <2>2. Cardinality(Lg!Linking(user, a)) <= MaxLogins
    BY <2>1, LoginSets DEF Lg!LoginCounts
  <2>3. /\ Cardinality(Lg!Linking(user, a)') <= Cardinality(Lg!Linking(user, a))
        /\ Cardinality(Lg!Linking(user, a)') \in Nat /\ Cardinality(Lg!Linking(user, a)) \in Nat
    BY <1>3, <2>1, FS_Subset, FS_CardinalityType
  <2>4. QED
    BY <2>2, <2>3, Assumptions DEF Lg!LoginAssumption
<1>6. QED
  BY <1>1, <1>4, <1>5, LoginSets DEF Lg!LoginCounts

\* Of those who find none at once as many are linked as there are callbacks.
LEMMA FoundFree ==
    ASSUME Lg!LoginTypeOK, Lg!LoginRows, Lg!LoginCounts, NEW l \in logins,
           ~Lg!Taken(l.user, l.account), NEW m, m = [l EXCEPT !.pc = "free"],
           logins' = (logins \ {l}) \cup {m},
           UNCHANGED <<Lg!given, signedup, userof, lastuser>>
    PROVE  Lg!LoginCounts'
<1>1. IsFiniteSet(logins') /\ Cardinality(logins') <= MaxLogins /\ IsFiniteSet(signedup')
  BY LoginGoesOn, LoginSets DEF Lg!LoginCounts
<1>2. /\ l \in Lg!Logging /\ l.account \in LoginAccounts
      /\ m.pc = "free" /\ m.account = l.account /\ m.user = l.user
  BY DEF Lg!LoginRows, Lg!Logging
<1>3. \A a : Lg!Admitted(a)' \subseteq Lg!Admitted(a)
  BY <1>2 DEF Lg!Admitted, Lg!SignedUp, Lg!given
<1>4. ASSUME Lg!Limited', NEW a \in LoginAccounts
      PROVE  Cardinality(Lg!Admitted(a)') <= AllowedUsers + MaxLogins
  BY <1>4, LoginSets, LoginsFinite, <1>3, FS_Subset, FS_CardinalityType, Assumptions
    DEF Lg!LoginCounts, Lg!Limited, Lg!given, Lg!LoginAssumption
<1>5. ASSUME NEW user \in Lg!Users', NEW a \in LoginAccounts
      PROVE  Cardinality(Lg!Linking(user, a)') <= MaxLogins
  <2>1. user \in Lg!Users /\ IsFiniteSet(Lg!Linking(user, a))
    BY LoginsFinite DEF Lg!Users
  <2>2. Cardinality(Lg!Linking(user, a)) <= MaxLogins
    BY <2>1, LoginSets DEF Lg!LoginCounts
  <2>3. CASE user # l.user \/ ServiceOf[l.account] # ServiceOf[a]
    <3>1. Lg!Linking(user, a)' \subseteq Lg!Linking(user, a)
      <4>1. \A x : x \in Lg!Linked(user, ServiceOf[a])' => x \in Lg!Linked(user, ServiceOf[a])
        BY DEF Lg!Linked, Lg!OwnersOf, Lg!given
      <4>2. \A k \in logins' : k.pc = "free" /\ k.user = user /\ ServiceOf[k.account] = ServiceOf[a] =>
                k \in logins
        BY <1>2, <2>3
      <4>3. QED
        BY <4>1, <4>2 DEF Lg!Linking, Lg!given
    <3>2. /\ Cardinality(Lg!Linking(user, a)') <= Cardinality(Lg!Linking(user, a))
          /\ Cardinality(Lg!Linking(user, a)') \in Nat /\ Cardinality(Lg!Linking(user, a)) \in Nat
      BY <2>1, <3>1, FS_Subset, FS_CardinalityType
    <3>3. QED
      BY <2>2, <3>2, Assumptions DEF Lg!LoginAssumption
  <2>4. CASE user = l.user /\ ServiceOf[l.account] = ServiceOf[a]
    BY <2>4, <1>1, FewAccounts, FS_CardinalityType, Assumptions DEF Lg!Linked, Lg!OwnersOf,
       Lg!Taken, Lg!given, Lg!Linking, Lg!LoginAssumption
  <2>5. QED
    BY <2>3, <2>4
<1>6. QED
  BY <1>1, <1>4, <1>5, LoginSets DEF Lg!LoginCounts

\* The account of a login is linked to a user who has none of the service.
LinkedTo(l, user) ==
    /\ userof' = [userof EXCEPT ![l.account] = user]
    /\ session' = [session EXCEPT ![l.browser] = [user |-> user, owner |-> l.account]]
    /\ lastuser' \in Nat /\ lastuser' >= lastuser /\ user \in 1..lastuser'

LEMMA LoginStep ==
    ASSUME Lg!LoginInv, Lg!LoginNext
    PROVE  Lg!LoginInv'
<1> DEFINE Rows == Lg!LoginTypeOK /\ Lg!LoginRows
           Apart == ~tangled => Lg!Untangled
<1>0. /\ Lg!LoginTypeOK /\ Lg!LoginRows /\ Lg!LoginCounts /\ (~tangled => Lg!Untangled)
      /\ IsFiniteSet(logins) /\ Cardinality(logins) <= MaxLogins
  BY LoginSets DEF Lg!LoginInv, Lg!LoginCounts
<1> USE Assumptions DEF Lg!LoginAssumption, Lg!LoginTypeOK, Lg!LoginRows, Lg!Logging, Lg!Users,
   Lg!Untangled, Lg!Anonymous, Lg!given
<1>1. ASSUME NEW b \in Browsers, Lg!Redirect(b) PROVE Lg!LoginInv'
  BY <1>0, <1>1, CountsStand DEF Lg!Redirect, Lg!Taken, Lg!OwnersOf, Lg!LoginInv
<1>2. ASSUME NEW b \in Browsers, Lg!Expire(b) PROVE Lg!LoginInv'
  BY <1>0, <1>2, CountsStand DEF Lg!Expire, Lg!Taken, Lg!OwnersOf, Lg!LoginInv
<1>3. ASSUME NEW b \in Browsers, Lg!Logout(b) PROVE Lg!LoginInv'
  BY <1>0, <1>3, CountsStand DEF Lg!Logout, Lg!Taken, Lg!OwnersOf, Lg!LoginInv
<1>4. ASSUME NEW b \in Browsers, NEW a \in LoginAccounts, Lg!Callback(b, a) PROVE Lg!LoginInv'
  <2> DEFINE l == [browser |-> b, account |-> a, user |-> session[b].user, linked |-> Nothing,
                   pc |-> "fetch"]
  <2>1. /\ logins' = logins \cup {l} /\ logins' # logins /\ Lg!Cardinality(logins) < MaxLogins
        /\ tangled' = (tangled \/ Lg!Overlaps(b, a, session[b].user))
        /\ UNCHANGED <<Lg!given, signedup, userof, sentryuser, lastuser, session, cameas, ticket>>
    BY <1>4 DEF Lg!Callback
  <2>2. l \in Lg!Logging /\ l.pc = "fetch" /\ l.account = a /\ l \notin logins
    BY <1>0, <2>1
  <2>3. ASSUME ~tangled'
        PROVE  ~tangled /\ \A m \in logins : m.account # a /\ (l.user # Nothing => m.user # l.user)
    BY <2>1, <2>3 DEF Lg!Overlaps
  <2>4. Rows'
    BY <1>0, <2>1, <2>2
  <2>5. Apart'
    BY <1>0, <2>1, <2>2, <2>3 DEF Lg!Taken, Lg!OwnersOf
  <2>6. IsFiniteSet(logins') /\ Cardinality(logins') = Cardinality(logins) + 1
    BY <1>0, <2>1, <2>2, FS_AddElement
  <2>7. Cardinality(logins') <= MaxLogins
    BY <1>0, <2>1, <2>6, LoginSets, FS_CardinalityType
  <2>8. \A m \in logins' : m.pc \in {"counted", "free"} => m \in logins
    BY <2>1, <2>2
  <2>9. Lg!LoginCounts'
    <3>1. lastuser' \in Nat
      BY <1>0, <2>1
    <3> HIDE DEF l, Lg!LoginTypeOK, Lg!LoginRows
    <3>2. QED
      BY <1>0, <2>1, <2>6, <2>7, <2>8, <3>1, CountsStand
  <2>10. QED
    BY <2>4, <2>5, <2>9 DEF Lg!LoginInv
<1>5. ASSUME NEW b \in Browsers, NEW x \in SentryAccounts, Lg!SentryLogin(b, x) PROVE Lg!LoginInv'
  <2>1. PICK user \in Nat \ {0} :
           /\ lastuser' = IF user \in 1..lastuser THEN lastuser ELSE user
           /\ user <= lastuser' /\ lastuser <= lastuser' /\ lastuser' \in Nat
           /\ sentryuser' = [sentryuser EXCEPT ![x] = user]
           /\ \/ UNCHANGED <<session, cameas>>
              \/ /\ session' = [session EXCEPT ![b] = [user |-> user, owner |-> Nothing]]
                 /\ cameas' = [cameas EXCEPT ![b] = Nothing]
           /\ tangled' = (tangled \/ \E l \in logins : l.browser = b)
           /\ UNCHANGED <<Lg!given, signedup, userof, ticket, logins>>
    <3> DEFINE u == IF sentryuser[x] # Nothing THEN sentryuser[x]
                    ELSE IF session[b].user # Nothing THEN session[b].user ELSE lastuser + 1
    <3>1. u \in 1..lastuser \/ u = lastuser + 1
      BY <1>0
    <3>2. PICK user \in Nat \ {0} : user = u /\ (user \in 1..lastuser \/ user = lastuser + 1)
      BY <1>0, <3>1
    <3>3. lastuser' = IF user \in 1..lastuser THEN lastuser ELSE user
      BY <1>5, <3>2 DEF Lg!SentryLogin
    <3>4. /\ sentryuser' = [sentryuser EXCEPT ![x] = user]
          /\ \/ UNCHANGED <<session, cameas>>
             \/ /\ session' = [session EXCEPT ![b] = [user |-> user, owner |-> Nothing]]
                /\ cameas' = [cameas EXCEPT ![b] = Nothing]
          /\ tangled' = (tangled \/ \E l \in logins : l.browser = b)
          /\ UNCHANGED <<Lg!given, signedup, userof, ticket, logins>>
      BY <1>5, <3>2 DEF Lg!SentryLogin
    <3>5. user <= lastuser' /\ lastuser <= lastuser' /\ lastuser' \in Nat
      BY <1>0, <3>2, <3>3
    <3>6. QED
      BY <3>3, <3>4, <3>5
  <2>2. Lg!LoginTypeOK' /\ Lg!LoginRows'
    <3>1. user \in 1..lastuser' /\ \A u \in 1..lastuser : u \in 1..lastuser'
      BY <1>0, <2>1
    <3>2. userof' \in [LoginAccounts -> Lg!Users' \cup {Nothing}]
      BY <1>0, <2>1, <3>1
    <3>3. sentryuser' \in [SentryAccounts -> Lg!Users' \cup {Nothing}]
      BY <1>0, <2>1, <3>1
    <3>4. session' \in [Browsers -> [user : Lg!Users' \cup {Nothing}, owner : LoginAccounts \cup {Nothing}]]
      BY <1>0, <2>1, <3>1
    <3>5. cameas' \in [Browsers -> LoginAccounts \cup {Nothing}]
      BY <1>0, <2>1
    <3>6. \A c \in Browsers : session'[c].user = Nothing => session'[c] = Lg!Anonymous
      BY <1>0, <2>1
    <3>7. logins' \subseteq Lg!Logging'
      BY <1>0, <2>1, <3>1
    <3>8. QED
      BY <1>0, <2>1, <3>2, <3>3, <3>4, <3>5, <3>6, <3>7
  <2>3. Apart'
    BY <1>0, <2>1 DEF Lg!Taken, Lg!OwnersOf
  <2>4. Lg!LoginCounts'
    <3> HIDE DEF Lg!LoginTypeOK, Lg!LoginRows
    <3>1. QED
      BY <1>0, <2>1, CountsStand
  <2>5. QED
    BY <2>2, <2>3, <2>4 DEF Lg!LoginInv
<1>6. ASSUME NEW l \in logins, Lg!CountUsers(l) PROVE Lg!LoginInv'
  <2>1. /\ l.pc = "fetch" /\ l \in Lg!Logging
        /\ UNCHANGED <<Lg!given, signedup, userof, sentryuser, lastuser, session, cameas, ticket, tangled>>
    BY <1>0, <1>6 DEF Lg!CountUsers
  <2>2. CASE logins' = logins \ {l}
    <3>1. Rows' /\ Apart'
      BY <1>0, <2>1, <2>2 DEF Lg!Taken, Lg!OwnersOf
    <3>2. logins' = (logins \ {l}) \cup {} /\ {} \in SUBSET {l} /\ lastuser' \in Nat
      BY <1>0, <2>1, <2>2
    <3> HIDE DEF Lg!LoginTypeOK, Lg!LoginRows
    <3>3. IsFiniteSet(logins') /\ Cardinality(logins') <= MaxLogins
      BY <1>0, <3>2, LoginGoesOn
    <3>4. Lg!LoginCounts'
      BY <1>0, <2>1, <2>2, <3>2, <3>3, CountsStand
    <3>5. QED
      BY <3>1, <3>4 DEF Lg!LoginInv
  <2>3. ASSUME NEW m, m = [l EXCEPT !.pc = "counted"], ~Lg!Refused(l.account),
               logins' = (logins \ {l}) \cup {m}
        PROVE  Lg!LoginInv'
    <3>1. /\ m \in Lg!Logging /\ m.pc = "counted" /\ m.account = l.account /\ m.user = l.user
      BY <2>1, <2>3
    <3>2. Rows'
      BY <1>0, <2>1, <2>3, <3>1
    <3>3. Apart'
      BY <1>0, <2>1, <2>3, <3>1 DEF Lg!Taken, Lg!OwnersOf
    <3> HIDE DEF Lg!LoginTypeOK, Lg!LoginRows
    <3>4. Lg!LoginCounts'
      BY <1>0, <2>1, <2>3, CountedIn
    <3>5. QED
      BY <3>2, <3>3, <3>4 DEF Lg!LoginInv
  <2>4. QED
    BY <1>6, <2>2, <2>3 DEF Lg!CountUsers
<1>7. ASSUME NEW l \in logins, Lg!Modify(l) PROVE Lg!LoginInv'
  <2> DEFINE m == [l EXCEPT !.pc = "login", !.linked = userof[l.account]]
             to == IF Lg!GitlabProceeds(l) THEN {m} ELSE {}
  <2>1. /\ l.pc = "counted" /\ l \in Lg!Logging /\ signedup' = signedup \cup {l.account}
        /\ logins' = (logins \ {l}) \cup to /\ to \in SUBSET {m}
        /\ UNCHANGED <<Lg!given, userof, sentryuser, lastuser, session, cameas, ticket, tangled>>
    BY <1>0, <1>7 DEF Lg!Modify
  <2>2. /\ m \in Lg!Logging /\ m.pc = "login" /\ m.account = l.account /\ m.user = l.user
        /\ m.linked = userof[l.account]
    BY <1>0, <2>1
  <2> HIDE DEF m, to
  <2>3. Rows'
    BY <1>0, <2>1, <2>2
  <2>4. Apart'
    BY <2>1, <1>0, <2>2 DEF Lg!Taken, Lg!OwnersOf
  <2>5. Lg!LoginCounts'
    <3> HIDE DEF Lg!LoginTypeOK, Lg!LoginRows
    <3>1. IsFiniteSet(logins') /\ Cardinality(logins') <= MaxLogins
      BY <1>0, <2>1, LoginGoesOn
    <3>2. IsFiniteSet(signedup')
      BY <1>0, <2>1, LoginSets, FS_AddElement DEF Lg!LoginCounts
    <3>3. \A k \in logins' : k.pc \in {"counted", "free"} => k \in logins
      BY <2>1, <2>2
    <3>4. \A a \in LoginAccounts : Lg!Admitted(a)' \subseteq Lg!Admitted(a)
      BY <2>1, <3>3 DEF Lg!Admitted, Lg!SignedUp
    <3>5. \A a, user : Lg!Linking(user, a)' \subseteq Lg!Linking(user, a)
      BY <2>1, <3>3 DEF Lg!Linking, Lg!Linked, Lg!OwnersOf
    <3>6. \A user \in Lg!Users' : user \in Lg!Users
      BY <2>1
    <3>7. QED
      BY <1>0, <2>1, <3>1, <3>2, <3>4, <3>5, <3>6, FewerCount
  <2>6. QED
    BY <2>3, <2>4, <2>5 DEF Lg!LoginInv
<1>8. ASSUME NEW l \in logins, Lg!LookForOther(l) PROVE Lg!LoginInv'
  <2> DEFINE m == [l EXCEPT !.pc = IF Lg!Taken(l.user, l.account) THEN "taken" ELSE "free"]
  <2>1. /\ l.pc = "login" /\ l \in Lg!Logging /\ l.linked = Nothing /\ l.user # Nothing
        /\ logins' = (logins \ {l}) \cup {m}
        /\ UNCHANGED <<Lg!given, signedup, userof, sentryuser, lastuser, session, cameas, ticket, tangled>>
    BY <1>0, <1>8 DEF Lg!LookForOther
  <2>2. /\ m \in Lg!Logging /\ m.account = l.account /\ m.user = l.user /\ m.linked = Nothing
        /\ m.pc = IF Lg!Taken(l.user, l.account) THEN "taken" ELSE "free"
    BY <2>1
  <2>3. Lg!Taken(l.user, l.account) => m = [l EXCEPT !.pc = "taken"]
    OBVIOUS
  <2>4. ~Lg!Taken(l.user, l.account) => m = [l EXCEPT !.pc = "free"]
    OBVIOUS
  <2> HIDE DEF m
  <2>5. Rows'
    BY <1>0, <2>1, <2>2
  <2>6. Apart'
    <3> SUFFICES ASSUME ~tangled PROVE Lg!Untangled'
      BY <2>1
    <3>1. \A k \in logins \ {l} : k.account # l.account /\ (k.user = l.user => k.user = Nothing)
      BY <1>0, <2>1
    <3>2. \A k \in logins' : (k \in logins /\ k # l) \/ k = m
      BY <2>1
    <3>3. \A user, a : Lg!Taken(user, a)' <=> Lg!Taken(user, a)
      BY <2>1 DEF Lg!Taken, Lg!OwnersOf
    <3>4. l.linked = userof[l.account]
      BY <1>0, <2>1
    <3>5. QED
      BY <1>0, <2>1, <2>2, <3>1, <3>2, <3>3, <3>4
  <2>7. Lg!LoginCounts'
    <3>1. lastuser' \in Nat
      BY <1>0, <2>1
    <3> HIDE DEF Lg!LoginTypeOK, Lg!LoginRows
    <3>2. IsFiniteSet(logins') /\ Cardinality(logins') <= MaxLogins
      BY <1>0, <2>1, LoginGoesOn
    <3>3. CASE Lg!Taken(l.user, l.account)
      BY <2>1, <2>2, <3>3, <1>0, <3>1, <3>2, CountsStand
    <3>4. CASE ~Lg!Taken(l.user, l.account)
      BY <1>0, <2>1, <2>4, <3>4, FoundFree
    <3>5. QED
      BY <3>3, <3>4
  <2>8. QED
    BY <2>5, <2>6, <2>7 DEF Lg!LoginInv
<1>9. ASSUME NEW l \in logins, Lg!LoginOwner(l) PROVE Lg!LoginInv'
  <2>1. /\ l.pc \in {"login", "taken", "free"} /\ l \in Lg!Logging /\ l.account \in signedup
        /\ cameas' = [cameas EXCEPT ![l.browser] = l.account]
        /\ logins' = logins \ {l} /\ ticket' \in [Browsers -> {"none", "live", "gone"}]
        /\ UNCHANGED <<Lg!given, signedup, sentryuser, tangled>>
    BY <1>0, <1>9 DEF Lg!LoginOwner, Lg!UsedUp
  <2>2. ~tangled => /\ l.linked = userof[l.account]
                    /\ \A m \in logins' : m.account # l.account /\ (l.user # Nothing => m.user # l.user)
    BY <1>0, <2>1
  <2>3. IsFiniteSet(logins') /\ Cardinality(logins') <= MaxLogins /\ IsFiniteSet(signedup')
    <3>1. logins' = (logins \ {l}) \cup {} /\ {} \in SUBSET {l}
      BY <2>1
    <3>2. QED
      BY <1>0, <2>1, <3>1, LoginGoesOn, LoginSets DEF Lg!LoginCounts
  <2>4. \A a : Lg!Admitted(a)' \subseteq Lg!Admitted(a)
    BY <2>1 DEF Lg!Admitted, Lg!SignedUp
  <2>5. ASSUME NEW user, LinkedTo(l, user), l.linked = Nothing, ~tangled => ~Lg!Taken(user, l.account),
               user = lastuser + 1 \/ (l.pc = "free" /\ user = l.user /\ lastuser' = lastuser),
               \A v \in 1..lastuser' : v \in 1..lastuser \/ v = user
        PROVE  Lg!LoginInv'
    <3> USE <2>5 DEF LinkedTo
    <3>1. Lg!LoginTypeOK' /\ Lg!LoginRows'
      BY <1>0, <2>1
    <3>2. ASSUME ~tangled PROVE Lg!Untangled'
      <4>1. \A a \in LoginAccounts : userof'[a] = IF a = l.account THEN user ELSE userof[a]
        BY <1>0, <2>1
      <4>2. \A x \in LoginAccounts : userof[x] = user => ServiceOf[x] # ServiceOf[l.account]
        BY <1>0, <3>2 DEF Lg!Taken, Lg!OwnersOf
      <4>3. user # Nothing
        BY <1>0
      <4>4. \A a, x \in LoginAccounts :
               a # x /\ userof'[a] # Nothing /\ userof'[a] = userof'[x] => ServiceOf[a] # ServiceOf[x]
        BY <1>0, <2>1, <3>2, <4>1, <4>2, <4>3
      <4>5. \A c \in Browsers : cameas'[c] # Nothing =>
               userof'[cameas'[c]] # Nothing /\ userof'[cameas'[c]] = session'[c].user
        BY <1>0, <2>1, <2>2, <3>2, <4>1, <4>3
      <4>6. \A k \in logins' : k.pc \in {"login", "taken", "free"} => k.linked = userof'[k.account]
        BY <1>0, <2>1, <2>2, <3>2, <4>1
      <4>7. \A k \in logins' : k.pc = "free" => k.user # user /\ k.user # Nothing
        BY <1>0, <2>1, <2>2, <3>2
      <4>8. \A k \in logins' : k.pc = "free" => ~Lg!Taken(k.user, k.account)'
        BY <1>0, <2>1, <3>2, <4>1, <4>7 DEF Lg!Taken, Lg!OwnersOf
      <4>9. \A k, m \in logins' :
                m.account = k.account \/ (m.user = k.user /\ m.user # Nothing) => m = k
        BY <1>0, <2>1, <3>2
      <4>10. QED
        BY <2>1, <4>4, <4>5, <4>6, <4>8, <4>9
    <3>3. \A v \in Lg!Users', a \in LoginAccounts :
               \/ v \in Lg!Users /\ Lg!Linking(v, a)' \subseteq Lg!Linking(v, a)
               \/ \E x : Lg!Linking(v, a)' \subseteq {x}
      <4> SUFFICES ASSUME NEW v \in Lg!Users', NEW a \in LoginAccounts
                   PROVE  \/ v \in Lg!Users /\ Lg!Linking(v, a)' \subseteq Lg!Linking(v, a)
                          \/ Lg!Linking(v, a)' \subseteq {l.account}
        OBVIOUS
      <4>1. \A x \in LoginAccounts : userof'[x] = IF x = l.account THEN user ELSE userof[x]
        BY <1>0, <2>1
      <4>2. CASE v # user
        BY <1>0, <2>1, <4>1, <4>2 DEF Lg!Linking, Lg!Linked, Lg!OwnersOf
      <4>3. CASE v = user /\ user = lastuser + 1
        BY <1>0, <2>1, <4>1, <4>3 DEF Lg!Linking, Lg!Linked, Lg!OwnersOf
      <4>4. CASE v = user /\ l.pc = "free" /\ user = l.user /\ lastuser' = lastuser
        BY <1>0, <2>1, <4>1, <4>4 DEF Lg!Linking, Lg!Linked, Lg!OwnersOf
      <4>5. QED
        BY <4>2, <4>3, <4>4
    <3>4. Lg!LoginCounts'
      <4> HIDE DEF Lg!LoginTypeOK, Lg!LoginRows
      <4>1. QED
        BY <1>0, <2>1, <2>3, <2>4, <3>3, FewerCount
    <3> HIDE DEF Lg!Untangled
    <3>5. QED
      BY <2>1, <3>1, <3>2, <3>4 DEF Lg!LoginInv
  <2>6. CASE l.linked = Nothing /\ Lg!NewUser(l)
    <3>1. ~Lg!Taken(lastuser + 1, l.account)
      BY <1>0 DEF Lg!Taken, Lg!OwnersOf
    <3>2. LinkedTo(l, lastuser + 1) /\ lastuser' = lastuser + 1
      BY <1>0, <2>6 DEF Lg!NewUser, LinkedTo
    <3>3. \A v \in 1..lastuser' : v \in 1..lastuser \/ v = lastuser + 1
      BY <1>0, <3>2
    <3> HIDE DEF Lg!LoginTypeOK, Lg!LoginRows, Lg!Logging, Lg!Untangled, Lg!Users
    <3>4. QED
      BY <2>5, <2>6, <3>1, <3>2, <3>3
  <2>7. CASE l.pc = "free" /\ Lg!Claim(l)
    <3>1. l.linked = Nothing /\ l.user # Nothing /\ l.user \in 1..lastuser
      BY <1>0, <2>1, <2>7
    <3>2. LinkedTo(l, l.user) /\ lastuser' = lastuser
      BY <1>0, <2>7, <3>1 DEF Lg!Claim, LinkedTo
    <3>3. ~tangled => ~Lg!Taken(l.user, l.account)
      BY <1>0, <2>7
    <3>4. QED
      BY <2>5, <2>7, <3>1, <3>2, <3>3
  <2>8. CASE /\ l.linked # Nothing /\ UNCHANGED <<userof, lastuser>>
             /\ \E owner \in {l.account, Nothing} :
                   session' = [session EXCEPT ![l.browser] = [user |-> l.linked, owner |-> owner]]
    <3>1. Lg!LoginTypeOK' /\ Lg!LoginRows'
      BY <1>0, <2>1, <2>8
    <3>2. Apart'
      BY <1>0, <2>1, <2>2, <2>8 DEF Lg!Taken, Lg!OwnersOf
    <3>3. Lg!LoginCounts'
      <4>1. \A k \in logins' : k \in logins
        BY <2>1
      <4>2. lastuser' \in Nat
        BY <1>0, <2>8
      <4> HIDE DEF Lg!LoginTypeOK, Lg!LoginRows
      <4>3. QED
        BY <1>0, <2>1, <2>3, <2>8, <4>1, <4>2, CountsStand
    <3>4. QED
      BY <3>1, <3>2, <3>3 DEF Lg!LoginInv
  <2>9. QED
    <3>1. l.pc \in {"taken", "free"} => l.linked = Nothing
      BY <1>0
    <3>2. QED
      BY <1>9, <2>6, <2>7, <2>8, <3>1 DEF Lg!LoginOwner, Lg!LogIn, Lg!Becomes
<1>10. QED
  BY <1>1, <1>2, <1>3, <1>4, <1>5, <1>6, <1>7, <1>8, <1>9 DEF Lg!LoginNext

LEMMA LoginStarts ==
    ASSUME Lg!LoginInit
    PROVE  Lg!LoginInv
<1>1. IsFiniteSet({}) /\ Cardinality({}) = 0
  BY FS_EmptySet
<1>2. Lg!LoginTypeOK /\ Lg!LoginRows
  BY DEF Lg!LoginInit, Lg!LoginTypeOK, Lg!Users, Lg!Anonymous, Lg!LoginRows
<1>3. logins = {} /\ signedup = {} /\ lastuser = 0
  BY DEF Lg!LoginInit
<1>4. Lg!LoginCounts
  BY <1>3, <1>1, LoginSets, Assumptions DEF Lg!Admitted, Lg!SignedUp, Lg!Users,
     Lg!LoginAssumption, Lg!LoginCounts
<1>5. Lg!Untangled
  BY DEF Lg!LoginInit, Lg!Untangled
<1>6. QED
  BY <1>2, <1>4, <1>5 DEF Lg!LoginInv

LEMMA LoginStays ==
    ASSUME Lg!LoginInv, UNCHANGED Lg!loginVars
    PROVE  Lg!LoginInv'
<1>1. Lg!LoginTypeOK' /\ Lg!LoginRows' /\ (~tangled' => Lg!Untangled')
  BY DEF Lg!LoginInv, Lg!LoginTypeOK, Lg!LoginRows, Lg!Users, Lg!Anonymous, Lg!Untangled,
     Lg!Logging, Lg!Taken, Lg!OwnersOf, Lg!loginVars
<1>2. Lg!LoginCounts'
  BY DEF Lg!LoginInv, Lg!LoginCounts, Lg!Limited, Lg!Admitted, Lg!SignedUp, Lg!Linking, Lg!Linked,
     Lg!OwnersOf, Lg!Users, Lg!loginVars
<1>3. QED
  BY <1>1, <1>2 DEF Lg!LoginInv

-----------------------------------------------------------------------------
(* Proofs: tokens *)

plan == v1
repoactive == v2
tokens == v3
retired == v4
begun == v5
lastkey == v6
mixed == v7

USE DEF plan, repoactive, tokens, retired, begun, lastkey, mixed

\* The sets counted there are those counted here.
LEMMA TokensSets ==
    ASSUME NEW S
    PROVE  (Tk!IsFiniteSet(S) <=> IsFiniteSet(S)) /\ Tk!Cardinality(S) = Cardinality(S)
  BY DEF Tk!IsFiniteSet, IsFiniteSet, Tk!Cardinality, Cardinality

\* Each request will write back one row or insert one.
LEMMA RowsOfRequests ==
    ASSUME NEW B, NEW k, \A b \in B : b.by \in Interactors,
           \A b, c \in B : b.by = c.by => b = c
    PROVE  LET rows == {b.row.id : b \in {c \in B : c.kind = k /\ c.row # Nothing}}
               makers == {b.by : b \in {c \in B : c.kind = k /\ c.row = Nothing}}
           IN  /\ IsFiniteSet(rows) /\ IsFiniteSet(makers)
               /\ Cardinality(rows) + Cardinality(makers) <= Cardinality(Interactors)
<1> DEFINE R == {c \in B : c.kind = k /\ c.row # Nothing}
           M == {c \in B : c.kind = k /\ c.row = Nothing}
           rows == {b.row.id : b \in R}
           writers == {b.by : b \in R}
           makers == {b.by : b \in M}
           Of(i) == CHOOSE b \in R : b.by = i
           f == [i \in writers |-> Of(i).row.id]
<1>1. writers \subseteq Interactors /\ makers \subseteq Interactors /\ writers \cap makers = {}
  OBVIOUS
<1>2. IsFiniteSet(Interactors)
  BY Assumptions, TokensSets DEF Tk!KeyAssumption
<1>3. IsFiniteSet(writers) /\ IsFiniteSet(makers)
  BY <1>1, <1>2, FS_Subset
<1>4. \A b \in R : Of(b.by) = b
  OBVIOUS
<1>5. f \in Surjection(writers, rows)
  <2>1. \A i \in writers : f[i] \in rows
    BY <1>4
  <2>2. \A r \in rows : \E i \in writers : f[i] = r
    <3> SUFFICES ASSUME NEW b \in R PROVE b.by \in writers /\ f[b.by] = b.row.id
      OBVIOUS
    <3>1. b.by \in writers
      OBVIOUS
    <3>2. f[b.by] = Of(b.by).row.id
      BY <3>1
    <3>3. QED
      BY <1>4, <3>1, <3>2
  <2>3. f \in [writers -> rows]
    BY <2>1
  <2> HIDE DEF f, rows, writers
  <2>4. QED
    BY <2>2, <2>3 DEF Surjection
<1> HIDE DEF f, rows, writers, makers
<1>6. IsFiniteSet(rows) /\ Cardinality(rows) <= Cardinality(writers)
  BY <1>3, <1>5, FS_Surjection
<1>7. /\ Cardinality(writers \cup makers) <= Cardinality(Interactors)
      /\ Cardinality(writers \cup makers) = Cardinality(writers) + Cardinality(makers) - 0
  <2>1. Cardinality(writers \cap makers) = 0
    BY <1>1, FS_EmptySet
  <2>2. QED
    BY <1>1, <1>2, <1>3, <2>1, FS_Subset, FS_Union
<1>8. /\ Cardinality(rows) \in Nat /\ Cardinality(writers) \in Nat /\ Cardinality(makers) \in Nat
      /\ Cardinality(Interactors) \in Nat
  BY <1>2, <1>3, <1>6, FS_CardinalityType
<1>9. Cardinality(rows) + Cardinality(makers) <= Cardinality(Interactors)
  BY <1>6, <1>7, <1>8
<1>10. QED
  BY <1>3, <1>6, <1>9 DEF rows, makers

\* The requests that will insert a row of a kind are finitely many.
LEMMA CreatorsFinite ==
    ASSUME Tk!TokensInv, NEW k
    PROVE  /\ IsFiniteSet(Tk!Creators(k)) /\ Cardinality(Tk!Creators(k)) \in Nat
           /\ Cardinality(Interactors) \in Nat
<1>1. IsFiniteSet(Tk!Creators(k)) /\ IsFiniteSet(Interactors)
  <2>1. /\ \A b \in begun : b.by \in Interactors
        /\ \A b, c \in begun : b.by = c.by => b = c
    BY DEF Tk!TokensInv, Tk!Begun
  <2>2. QED
    BY <2>1, RowsOfRequests, Assumptions, TokensSets DEF Tk!Creators, Tk!KeyAssumption
<1>2. QED
  BY <1>1, FS_CardinalityType

LEMMA NoMoreRows ==
    ASSUME Tk!TokensInv, NEW k \in {"org", "repo"},
           Tk!RowIds(k)' \subseteq Tk!RowIds(k), Tk!Creators(k)' \subseteq Tk!Creators(k)
    PROVE  Tk!Few(k)'
<1> DEFINE R == Tk!RowIds(k)  S == Tk!RowIds(k)'  C == Tk!Creators(k)  D == Tk!Creators(k)'
<1>1. /\ IsFiniteSet(R) /\ Cardinality(R) + Cardinality(C) <= Cardinality(Interactors) + 1
      /\ S \subseteq R /\ D \subseteq C
  BY TokensSets DEF Tk!TokensInv, Tk!Few
<1>2. IsFiniteSet(C)
  BY CreatorsFinite
<1> HIDE DEF R, S, C, D
<1>3. /\ IsFiniteSet(S) /\ Cardinality(S) <= Cardinality(R)
      /\ IsFiniteSet(D) /\ Cardinality(D) <= Cardinality(C)
  BY <1>1, <1>2, FS_Subset
<1>4. /\ Cardinality(R) \in Nat /\ Cardinality(S) \in Nat /\ Cardinality(C) \in Nat
      /\ Cardinality(D) \in Nat /\ Cardinality(Interactors) \in Nat
  BY <1>1, <1>2, <1>3, FS_CardinalityType, CreatorsFinite
<1>5. IsFiniteSet(S) /\ Cardinality(S) + Cardinality(D) <= Cardinality(Interactors) + 1
  BY <1>1, <1>3, <1>4
<1>6. Tk!IsFiniteSet(S) /\ Tk!Cardinality(S) + Tk!Cardinality(D) <= Tk!Cardinality(Interactors) + 1
  BY <1>5, TokensSets
<1>7. QED
  BY <1>6 DEF Tk!Few, S, D

\* Rows are the same or fewer, and so are the requests.
LEMMA SameRows ==
    ASSUME Tk!TokensInv, NEW k \in {"org", "repo"}, begun' \subseteq begun,
           \A t \in tokens'[k] : t.id \in Tk!RowIds(k)
    PROVE  Tk!Few(k)'
<1>1. Tk!RowIds(k)' \subseteq Tk!RowIds(k)
  BY DEF Tk!RowIds
<1>2. Tk!Creators(k)' \subseteq Tk!Creators(k)
  BY DEF Tk!Creators
<1>3. QED
  BY <1>1, <1>2, NoMoreRows

\* Where there is no row, a request has looked it up or the form inserts one.
LEMMA FirstRow ==
    ASSUME Tk!TokensInv, NEW k \in {"org", "repo"}, NEW i, begun' \subseteq Tk!Begun',
           \A b, c \in begun' : b.by = c.by => b = c, \A t \in tokens'[k] : t.id = i
    PROVE  Tk!Few(k)'
<1> DEFINE rows == {b.row.id : b \in {c \in begun' : c.kind = k /\ c.row # Nothing}}
           makers == {b.by : b \in {c \in begun' : c.kind = k /\ c.row = Nothing}}
<1>1. \A b \in begun' : b.by \in Interactors
  BY DEF Tk!Begun
<1>2. /\ IsFiniteSet(rows) /\ IsFiniteSet(makers)
      /\ Cardinality(rows) + Cardinality(makers) <= Cardinality(Interactors)
  BY <1>1, RowsOfRequests
<1>3. Tk!RowIds(k)' \subseteq rows \cup {i} /\ Tk!Creators(k)' = makers
  BY DEF Tk!RowIds, Tk!Creators
<1> DEFINE S == Tk!RowIds(k)'
<1> HIDE DEF rows, makers, S
<1>4. /\ IsFiniteSet(rows \cup {i}) /\ Cardinality(rows \cup {i}) <= Cardinality(rows) + 1
      /\ Cardinality(rows) \in Nat /\ Cardinality(makers) \in Nat
  <2>1. Cardinality(rows) \in Nat /\ Cardinality(makers) \in Nat
    BY <1>2, FS_CardinalityType
  <2>2. /\ IsFiniteSet(rows \cup {i})
        /\ Cardinality(rows \cup {i}) = IF i \in rows THEN Cardinality(rows) ELSE Cardinality(rows) + 1
    BY <1>2, FS_AddElement
  <2>3. QED
    BY <2>1, <2>2
<1>5. IsFiniteSet(S) /\ Cardinality(S) <= Cardinality(rows \cup {i})
  BY <1>3, <1>4, FS_Subset DEF S
<1>6. /\ Cardinality(S) \in Nat /\ Cardinality(rows \cup {i}) \in Nat
      /\ Cardinality(Interactors) \in Nat
  BY <1>4, <1>5, FS_CardinalityType, CreatorsFinite
<1>7. IsFiniteSet(S) /\ Cardinality(S) + Cardinality(makers) <= Cardinality(Interactors) + 1
  BY <1>2, <1>4, <1>5, <1>6
<1>8. Tk!IsFiniteSet(S) /\ Tk!Cardinality(S) + Tk!Cardinality(makers) <= Tk!Cardinality(Interactors) + 1
  BY <1>7, TokensSets
<1>9. QED
  BY <1>3, <1>8 DEF Tk!Few, S

\* A request inserts the row that it was going to insert.
LEMMA RowInserted ==
    ASSUME Tk!TokensInv, NEW k \in {"org", "repo"}, NEW b \in begun, NEW i,
           b.kind = k, b.row = Nothing, begun' = begun \ {b},
           \A t \in tokens'[k] : t.id \in Tk!RowIds(k) \cup {i}
    PROVE  Tk!Few(k)'
<1> DEFINE R == Tk!RowIds(k)  S == Tk!RowIds(k)'  C == Tk!Creators(k)  D == Tk!Creators(k)'
<1>1. IsFiniteSet(R) /\ Cardinality(R) + Cardinality(C) <= Cardinality(Interactors) + 1
  BY TokensSets DEF Tk!TokensInv, Tk!Few
<1>2. IsFiniteSet(C)
  BY CreatorsFinite
<1>3. S \subseteq R \cup {i}
  BY DEF Tk!RowIds
<1>4. b.by \in C /\ D \subseteq C \ {b.by}
  BY DEF Tk!Creators, Tk!TokensInv
<1> HIDE DEF R, S, C, D
<1>5. IsFiniteSet(R \cup {i}) /\ Cardinality(R \cup {i}) <= Cardinality(R) + 1
  <2>1. Cardinality(R) \in Nat
    BY <1>1, FS_CardinalityType
  <2>2. /\ IsFiniteSet(R \cup {i})
        /\ Cardinality(R \cup {i}) = IF i \in R THEN Cardinality(R) ELSE Cardinality(R) + 1
    BY <1>1, FS_AddElement
  <2>3. QED
    BY <2>1, <2>2
<1>6. IsFiniteSet(C \ {b.by}) /\ Cardinality(C \ {b.by}) = Cardinality(C) - 1
  BY <1>2, <1>4, FS_RemoveElement
<1>7. /\ IsFiniteSet(S) /\ Cardinality(S) <= Cardinality(R \cup {i})
      /\ IsFiniteSet(D) /\ Cardinality(D) <= Cardinality(C \ {b.by})
  BY <1>3, <1>4, <1>5, <1>6, FS_Subset
<1>8. /\ Cardinality(R) \in Nat /\ Cardinality(S) \in Nat /\ Cardinality(C) \in Nat
      /\ Cardinality(D) \in Nat /\ Cardinality(Interactors) \in Nat
      /\ Cardinality(R \cup {i}) \in Nat /\ Cardinality(C \ {b.by}) \in Nat
  BY <1>1, <1>2, <1>5, <1>6, <1>7, FS_CardinalityType, CreatorsFinite
<1>9. Cardinality(S) + Cardinality(D) <= Cardinality(Interactors) + 1
  BY <1>1, <1>5, <1>6, <1>7, <1>8
<1>10. Tk!IsFiniteSet(S) /\ Tk!Cardinality(S) + Tk!Cardinality(D) <= Tk!Cardinality(Interactors) + 1
  BY <1>7, <1>9, TokensSets
<1>11. QED
  BY <1>10 DEF Tk!Few, S, D

\* The part of the invariant that is about rows and keys
TokenRows == Tk!TokensTypeOK /\ Tk!KeysAreApart

\* A row is inserted or saved with a new key, and those of `old` are replaced.
Drawn(kind, i, old) ==
    /\ kind \in Tk!Kinds /\ old \subseteq tokens[kind] /\ i \in 1..(lastkey + 1)
    /\ \A t \in tokens[kind] \ old : t.id # i
    /\ tokens' = [tokens EXCEPT ![kind] = (@ \ old) \cup {[id |-> i, key |-> lastkey + 1]}]
    /\ lastkey' = lastkey + 1
    /\ retired' = retired \cup {t.key : t \in old}
    /\ mixed' \subseteq Tk!Kinds /\ UNCHANGED <<plan, repoactive>>

LEMMA KeyDrawn ==
    ASSUME Tk!TokensInv, NEW kind, NEW i, NEW old, Drawn(kind, i, old)
    PROVE  /\ TokenRows' /\ lastkey' \in Nat
           /\ \A l \in Tk!Kinds \ {kind} : tokens'[l] = tokens[l]
           /\ tokens'[kind] = (tokens[kind] \ old) \cup {[id |-> i, key |-> lastkey + 1]}
<1> DEFINE new == [id |-> i, key |-> lastkey + 1]
<1> USE DEF Drawn
<1>1. /\ lastkey \in Nat /\ lastkey' = lastkey + 1
      /\ tokens \in [Tk!Kinds -> SUBSET [id : 1..lastkey, key : 1..lastkey]]
      /\ retired \subseteq 1..lastkey
      /\ \A k \in Tk!Kinds : \A t, u \in tokens[k] : t.id = u.id => t = u
  BY DEF Tk!TokensInv, Tk!TokensTypeOK
<1>2. \A l \in Tk!Kinds \ {kind} : tokens'[l] = tokens[l]
  BY <1>1
<1>3. tokens'[kind] = (tokens[kind] \ old) \cup {new}
  BY <1>1
<1>4. 1..lastkey \subseteq 1..lastkey' /\ lastkey + 1 \in 1..lastkey' /\ lastkey' \in Nat
  BY <1>1
<1>5. new \in [id : 1..lastkey', key : 1..lastkey']
  BY <1>1
<1>6. ASSUME NEW k \in Tk!Kinds, NEW t \in tokens[k]
      PROVE  /\ t \in [id : 1..lastkey', key : 1..lastkey'] /\ t.key \in 1..lastkey'
             /\ t.key # lastkey + 1
  BY <1>1, <1>4
<1>7. tokens' \in [Tk!Kinds -> SUBSET [id : 1..lastkey', key : 1..lastkey']]
  BY <1>2, <1>3, <1>5, <1>6, <1>1
<1>8. retired' \subseteq 1..lastkey'
  <2>1. \A t \in old : t.key \in 1..lastkey'
    BY <1>6
  <2>2. QED
    BY <1>1, <1>4, <2>1
<1>9. ASSUME NEW k \in Tk!Kinds, NEW t \in tokens'[k], NEW u \in tokens'[k], t.id = u.id
      PROVE  t = u
  BY <1>1, <1>2, <1>9, <1>3
<1>10. Tk!TokensTypeOK'
  BY <1>7, <1>8, <1>9 DEF Tk!TokensInv, Tk!TokensTypeOK
<1>11. ASSUME NEW k \in Tk!Kinds, NEW t \in tokens'[k]
       PROVE  \/ k = kind /\ t = new
              \/ t \in tokens[k] /\ (k = kind => t \notin old)
  BY <1>2, <1>3, <1>11
<1>12. ASSUME NEW k \in Tk!Kinds, NEW l \in Tk!Kinds, NEW t \in tokens'[k], NEW u \in tokens'[l],
              t.key = u.key
       PROVE  k = l /\ t = u
  BY <1>12, <1>6, <1>11 DEF Tk!TokensInv, Tk!KeysAreApart
<1>13. ASSUME NEW k \in Tk!Kinds, NEW t \in tokens'[k] PROVE t.key \notin retired'
  <2>1. CASE t \in tokens[k] /\ (k = kind => t \notin old)
    BY <2>1 DEF Tk!TokensInv, Tk!KeysAreApart
  <2>2. CASE t = new
    BY <1>1, <1>6, <2>2
  <2>3. QED
    BY <1>11, <2>1, <2>2
<1>14. QED
  BY <1>2, <1>3, <1>4, <1>10, <1>12, <1>13 DEF TokenRows, Tk!KeysAreApart

LEMMA KeysGone ==
    ASSUME Tk!TokensInv, NEW kind \in Tk!Kinds, NEW gone \in SUBSET tokens[kind],
           Tk!Deleted(kind, gone), plan' \in {"listed", "legacy"},
           UNCHANGED <<repoactive, begun, lastkey>>
    PROVE  Tk!TokensInv'
<1>1. /\ tokens' = [tokens EXCEPT ![kind] = @ \ gone]
      /\ retired' = retired \cup {t.key : t \in gone}
      /\ mixed' = IF gone # {} /\ \E b \in begun : b.kind = kind THEN mixed \cup {kind} ELSE mixed
  BY DEF Tk!Deleted
<1>2. /\ tokens \in [Tk!Kinds -> SUBSET [id : 1..lastkey, key : 1..lastkey]]
      /\ retired \subseteq 1..lastkey /\ mixed \subseteq Tk!Kinds
      /\ \A k \in Tk!Kinds : \A t, u \in tokens[k] : t.id = u.id => t = u
  BY DEF Tk!TokensInv, Tk!TokensTypeOK
<1>3. \A k \in Tk!Kinds : tokens'[k] \subseteq tokens[k] /\ (k # kind => tokens'[k] = tokens[k])
  BY <1>1, <1>2
<1>4. tokens'[kind] = tokens[kind] \ gone
  BY <1>1, <1>2
<1>5. \A k \in Tk!Kinds : \A t \in tokens[k] : t.key \in 1..lastkey
  BY <1>2
<1>6. Tk!TokensTypeOK'
  <2>1. tokens' \in [Tk!Kinds -> SUBSET [id : 1..lastkey, key : 1..lastkey]]
    BY <1>1, <1>2
  <2>2. retired' \subseteq 1..lastkey /\ mixed' \subseteq Tk!Kinds
    BY <1>1, <1>2, <1>5
  <2>3. \A k \in Tk!Kinds : \A t, u \in tokens'[k] : t.id = u.id => t = u
    BY <1>2, <1>3
  <2>4. QED
    BY <2>1, <2>2, <2>3 DEF Tk!TokensInv, Tk!TokensTypeOK
<1>7. Tk!KeysAreApart'
  <2>1. \A k, l \in Tk!Kinds : \A t \in tokens'[k], u \in tokens'[l] : t.key = u.key => k = l /\ t = u
    BY <1>3 DEF Tk!TokensInv, Tk!KeysAreApart
  <2>2. ASSUME NEW k \in Tk!Kinds, NEW t \in tokens'[k] PROVE t.key \notin retired'
    BY <1>3, <1>4, <1>1 DEF Tk!TokensInv, Tk!KeysAreApart
  <2>3. QED
    BY <2>1, <2>2 DEF Tk!KeysAreApart
<1>8. ASSUME NEW k \in {"org", "repo"}, k \notin mixed' PROVE Tk!Alone(k)'
  BY <1>1, <1>8, <1>3 DEF Tk!Kinds, Tk!TokensInv, Tk!Alone
<1>9. \A k \in {"org", "repo"} : Tk!Few(k)'
  BY <1>3, SameRows DEF Tk!RowIds, Tk!Kinds
<1>10. begun' \subseteq Tk!Begun'
  BY DEF Tk!TokensInv, Tk!Begun
<1>11. QED
  BY <1>6, <1>7, <1>8, <1>9, <1>10 DEF Tk!TokensInv

\* Tokens of other kinds, and what was begun for them, stay alone.
LEMMA OthersAlone ==
    ASSUME Tk!TokensInv, NEW k \in {"org", "repo"}, k \notin mixed,
           tokens'[k] = tokens[k], \A b \in begun' : b.kind = k => b \in begun
    PROVE  Tk!Alone(k)'
<1>1. Tk!Alone(k)
  BY DEF Tk!TokensInv
<1>2. QED
  BY <1>1 DEF Tk!Alone

LEMMA MoreKeys ==
    ASSUME Tk!TokensInv, lastkey' = lastkey + 1
    PROVE  Tk!Begun \subseteq Tk!Begun'
<1>1. 1..lastkey \subseteq 1..lastkey'
  BY DEF Tk!TokensInv
<1>2. QED
  BY <1>1 DEF Tk!Begun

LEMMA TokensStep ==
    ASSUME Tk!TokensInv, Tk!TokensNext
    PROVE  Tk!TokensInv'
<1>0. /\ Tk!TokensTypeOK /\ lastkey \in Nat /\ Tk!KeysAreApart
      /\ \A k \in Tk!Kinds : tokens[k] \subseteq [id : 1..lastkey, key : 1..lastkey]
      /\ \A k \in Tk!Kinds : \A t, u \in tokens[k] : t.id = u.id => t = u
      /\ "org" \in Tk!Kinds /\ "user" \in Tk!Kinds /\ mixed \subseteq Tk!Kinds
      /\ Nothing \notin [id : Nat, key : Nat] /\ 1..lastkey \subseteq 1..(lastkey + 1)
  BY Assumptions DEF Tk!TokensInv, Tk!TokensTypeOK, Tk!Kinds, Tk!KeyAssumption
<1>1. ASSUME NEW j \in Interactors, NEW kind \in Tk!Kinds, NEW rotates \in BOOLEAN,
             Tk!Begin(j, kind, rotates)
      PROVE  Tk!TokensInv'
  <2>1. /\ kind \in {"org", "repo"} /\ UNCHANGED <<plan, repoactive, tokens, retired, lastkey>>
        /\ mixed' = IF \E b \in begun : b.kind = kind THEN mixed \cup {kind} ELSE mixed
        /\ \A b \in begun : b.by # j
    BY <1>1 DEF Tk!Begin
  <2>2. PICK found : /\ begun' = begun \cup {[by |-> j, kind |-> kind, row |-> found]}
                     /\ \/ found = Nothing /\ tokens[kind] = {}
                        \/ found \in tokens[kind]
    <3>1. CASE tokens[kind] = {}
      <4> WITNESS Nothing
      <4> QED
        BY <1>1, <3>1 DEF Tk!Begin
    <3>2. CASE tokens[kind] # {}
      BY <1>1, <3>2 DEF Tk!Begin
    <3>3. QED
      BY <3>1, <3>2
  <2>3. Tk!TokensTypeOK' /\ Tk!KeysAreApart'
    BY <1>0, <2>1 DEF Tk!TokensTypeOK, Tk!KeysAreApart
  <2>4. begun' \subseteq Tk!Begun' /\ \A b, c \in begun' : b.by = c.by => b = c
    BY <1>0, <2>1, <2>2 DEF Tk!Begun, Tk!TokensInv
  <2>5. ASSUME NEW k \in {"org", "repo"}, k \notin mixed' PROVE Tk!Alone(k)'
    <3>1. k \notin mixed /\ tokens'[k] = tokens[k]
      BY <2>1, <2>5
    <3>2. CASE k # kind
      BY <2>2, <3>1, <3>2, OthersAlone
    <3>3. CASE k = kind
      <4>1. \A b \in begun : b.kind # kind
        BY <2>1, <2>5, <3>3
      <4>2. \A b \in begun' : b.kind = kind => b = [by |-> j, kind |-> kind, row |-> found]
        BY <2>2, <4>1
      <4>3. \A t, u \in tokens[kind] : t = u
        BY <3>1, <3>3 DEF Tk!TokensInv, Tk!Alone
      <4>4. \A t \in tokens[kind] : found # Nothing /\ t.id = found.id
        <5>1. CASE tokens[kind] = {}
          BY <5>1
        <5>2. CASE found \in tokens[kind]
          BY <1>0, <5>2, <4>3
        <5>3. QED
          BY <2>2, <5>1, <5>2
      <4>5. QED
        BY <2>1, <3>3, <4>2, <4>3, <4>4 DEF Tk!Alone
    <3>4. QED
      BY <3>2, <3>3
  <2>6. ASSUME NEW k \in {"org", "repo"} PROVE Tk!Few(k)'
    <3>1. CASE k # kind
      BY <2>1, <2>2, <3>1, NoMoreRows DEF Tk!RowIds, Tk!Creators
    <3>2. CASE k = kind /\ tokens[kind] = {}
      <4>1. \A t \in tokens'[k] : t.id = 0
        BY <2>1, <3>2
      <4>2. QED
        BY <2>4, <4>1, FirstRow
    <3>3. CASE k = kind /\ found \in tokens[kind]
      BY <1>0, <2>1, <3>3, <2>2, NoMoreRows DEF Tk!RowIds, Tk!Creators
    <3>4. QED
      BY <2>2, <3>1, <3>2, <3>3
  <2>7. QED
    BY <1>0, <2>1, <2>3, <2>4, <2>5, <2>6 DEF Tk!TokensInv
<1>2. ASSUME NEW b \in begun, Tk!Finish(b) PROVE Tk!TokensInv'
  <2>1. /\ begun' = begun \ {b} /\ lastkey' = lastkey + 1 /\ UNCHANGED <<plan, repoactive, mixed>>
        /\ b.kind \in {"org", "repo"} /\ b.kind \in Tk!Kinds
        /\ b.row = Nothing \/ b.row \in [id : 1..lastkey, key : 1..lastkey]
    BY <1>2 DEF Tk!Finish, Tk!TokensInv, Tk!Kinds, Tk!Begun
  <2>2. PICK i \in 1..(lastkey + 1), old \in SUBSET tokens[b.kind] :
           /\ \A t \in tokens[b.kind] : t \in old <=> t.id = i
           /\ b.row = Nothing \/ i = b.row.id
           /\ tokens' = [tokens EXCEPT ![b.kind] =
                            (@ \ old) \cup {[id |-> i, key |-> lastkey + 1]}]
           /\ retired' = retired \cup {t.key : t \in old}
    <3>1. CASE Tk!Rotate(b)
      <4> DEFINE old == {t \in tokens[b.kind] : t.id = b.row.id}
      <4>1. /\ b.row.id \in 1..(lastkey + 1) /\ b.row # Nothing
            /\ \A t \in old : t.key # lastkey + 1
        BY <1>0, <2>1, <3>1 DEF Tk!Rotate
      <4>2. {t.key : t \in old} \ {lastkey + 1} = {t.key : t \in old}
        BY <4>1
      <4>3. /\ tokens' = [tokens EXCEPT ![b.kind] =
                             (@ \ old) \cup {[id |-> b.row.id, key |-> lastkey + 1]}]
            /\ retired' = retired \cup {t.key : t \in old}
        BY <3>1, <4>2 DEF Tk!Rotate, Tk!NewKey
      <4>4. \A t \in tokens[b.kind] : t \in old <=> t.id = b.row.id
        OBVIOUS
      <4>5. old \in SUBSET tokens[b.kind]
        OBVIOUS
      <4> HIDE DEF old
      <4>6. QED
        BY <4>1, <4>3, <4>4, <4>5
    <3>2. CASE Tk!Create(b)
      <4>1. /\ \A t \in tokens[b.kind] : t.id # lastkey + 1
            /\ lastkey + 1 \in 1..(lastkey + 1)
        BY <1>0, <2>1
      <4>2. /\ tokens' = [tokens EXCEPT ![b.kind] =
                             (@ \ {}) \cup {[id |-> lastkey + 1, key |-> lastkey + 1]}]
            /\ retired' = retired /\ b.row = Nothing
        BY <3>2 DEF Tk!Create
      <4>3. retired' = retired \cup {t.key : t \in {}}
        BY <4>2
      <4>4. {} \in SUBSET tokens[b.kind] /\ \A t \in tokens[b.kind] : t \in {} <=> t.id = lastkey + 1
        BY <4>1
      <4>5. QED
        BY <4>1, <4>2, <4>3, <4>4
    <3>3. QED
      BY <1>2, <3>1, <3>2 DEF Tk!Finish
  <2>3. /\ TokenRows' /\ lastkey' \in Nat
        /\ \A l \in Tk!Kinds \ {b.kind} : tokens'[l] = tokens[l]
        /\ tokens'[b.kind] = (tokens[b.kind] \ old) \cup {[id |-> i, key |-> lastkey + 1]}
    <3>1. Drawn(b.kind, i, old)
      BY <1>0, <2>1, <2>2 DEF Drawn
    <3>2. QED
      BY <3>1, KeyDrawn
  <2>4. begun' \subseteq Tk!Begun' /\ \A c, d \in begun' : c.by = d.by => c = d
    BY <1>0, <2>1, MoreKeys DEF Tk!TokensInv
  <2>5. ASSUME NEW k \in {"org", "repo"}, k \notin mixed' PROVE Tk!Alone(k)'
    <3>1. k \notin mixed /\ k \in Tk!Kinds
      BY <2>1, <2>5 DEF Tk!Kinds
    <3>2. CASE k # b.kind
      BY <2>1, <2>3, <3>1, <3>2, OthersAlone
    <3>3. CASE k = b.kind
      BY <3>1, <2>1, <3>3, <2>2, <2>3 DEF Tk!TokensInv, Tk!Alone
    <3>4. QED
      BY <3>2, <3>3
  <2>6. ASSUME NEW k \in {"org", "repo"} PROVE Tk!Few(k)'
    <3>1. CASE k # b.kind
      <4>1. tokens'[k] = tokens[k] /\ begun' \subseteq begun
        BY <2>1, <2>3, <3>1 DEF Tk!Kinds
      <4>2. QED
        BY <4>1, SameRows DEF Tk!RowIds
    <3>2. CASE k = b.kind /\ b.row = Nothing
      <4>1. \A t \in tokens'[k] : t.id \in Tk!RowIds(k) \cup {i}
        BY <2>3, <3>2 DEF Tk!RowIds
      <4>2. QED
        BY <2>1, <3>2, <4>1, RowInserted
    <3>3. CASE k = b.kind /\ b.row # Nothing
      <4>1. \A t \in tokens'[k] : t.id \in Tk!RowIds(k)
        BY <2>2, <2>3, <3>3 DEF Tk!RowIds
      <4>2. QED
        BY <2>1, <4>1, SameRows
    <3>4. QED
      BY <3>1, <3>2, <3>3
  <2>7. QED
    BY <2>3, <2>4, <2>5, <2>6 DEF Tk!TokensInv, TokenRows
<1>3. ASSUME NEW t \in tokens["org"], Tk!Refresh(t) PROVE Tk!TokensInv'
  <2>1. /\ lastkey' = lastkey + 1 /\ UNCHANGED <<plan, repoactive, begun, mixed>>
        /\ retired' = retired \cup {t.key} /\ t \in [id : 1..lastkey, key : 1..lastkey]
        /\ tokens' = [tokens EXCEPT !["org"] = (@ \ {t}) \cup {[t EXCEPT !.key = lastkey + 1]}]
    BY <1>0, <1>3 DEF Tk!Refresh, Tk!NewKey
  <2>2. /\ [t EXCEPT !.key = lastkey + 1] = [id |-> t.id, key |-> lastkey + 1]
        /\ t.id \in 1..(lastkey + 1) 
        /\ \A u \in tokens["org"] \ {t} : u.id # t.id
    BY <1>0, <2>1
  <2>3. /\ TokenRows' /\ lastkey' \in Nat
        /\ \A l \in Tk!Kinds \ {"org"} : tokens'[l] = tokens[l]
        /\ tokens'["org"] = (tokens["org"] \ {t}) \cup {[id |-> t.id, key |-> lastkey + 1]}
    <3>1. {u.key : u \in {t}} = {t.key} /\ {t} \subseteq tokens["org"] /\ mixed' \subseteq Tk!Kinds
      BY <1>0, <1>3, <2>1
    <3>2. tokens' = [tokens EXCEPT !["org"] = (@ \ {t}) \cup {[id |-> t.id, key |-> lastkey + 1]}]
      BY <2>1, <2>2
    <3>3. Drawn("org", t.id, {t})
      BY <1>0, <2>1, <2>2, <3>1, <3>2 DEF Drawn
    <3>4. QED
      BY <3>3, KeyDrawn
  <2>4. begun' \subseteq Tk!Begun' /\ \A c, d \in begun' : c.by = d.by => c = d
    BY <1>0, <2>1, MoreKeys DEF Tk!TokensInv
  <2>5. ASSUME NEW k \in {"org", "repo"}, k \notin mixed' PROVE Tk!Alone(k)'
    <3>1. k \notin mixed /\ k \in Tk!Kinds
      BY <2>1, <2>5 DEF Tk!Kinds
    <3>2. CASE k # "org"
      BY <2>1, <2>3, <3>1, <3>2, OthersAlone
    <3>3. CASE k = "org"
      BY <3>1, <2>3, <3>3, <2>1 DEF Tk!TokensInv, Tk!Alone
    <3>4. QED
      BY <3>2, <3>3
  <2>6. ASSUME NEW k \in {"org", "repo"} PROVE Tk!Few(k)'
    BY <2>1, <1>3, <2>3, SameRows DEF Tk!Kinds, Tk!RowIds
  <2>7. QED
    BY <2>3, <2>4, <2>5, <2>6 DEF Tk!TokensInv, TokenRows
<1>4. ASSUME NEW kind \in {"org", "user"}, tokens[kind] = {} \/ kind = "user",
             lastkey' = lastkey + 1, UNCHANGED <<plan, repoactive, retired, begun>>,
             tokens' = [tokens EXCEPT ![kind] = @ \cup {[id |-> lastkey', key |-> lastkey']}],
             mixed' \in {mixed, mixed \cup {kind}},
             (\E b \in begun : b.kind = kind) => kind \in mixed'
      PROVE  Tk!TokensInv'
  <2>1. /\ kind \in Tk!Kinds /\ lastkey + 1 \in 1..(lastkey + 1) /\ mixed' \subseteq Tk!Kinds
        /\ mixed \subseteq mixed'
        /\ \A t \in tokens[kind] \ {} : t.id # lastkey + 1
        /\ tokens' = [tokens EXCEPT ![kind] = (@ \ {}) \cup {[id |-> lastkey + 1, key |-> lastkey + 1]}]
    BY <1>0, <1>4
  <2>2. /\ TokenRows' /\ lastkey' \in Nat
        /\ \A l \in Tk!Kinds \ {kind} : tokens'[l] = tokens[l]
        /\ tokens'[kind] = (tokens[kind] \ {}) \cup {[id |-> lastkey + 1, key |-> lastkey + 1]}
    <3>1. {t.key : t \in {}} = {}
      OBVIOUS
    <3>2. retired' = retired \cup {t.key : t \in {}}
      BY <1>4, <3>1
    <3>3. Drawn(kind, lastkey + 1, {})
      BY <1>0, <1>4, <2>1, <3>2 DEF Drawn
    <3>4. QED
      BY <3>3, KeyDrawn
  <2>3. begun' \subseteq Tk!Begun' /\ \A c, d \in begun' : c.by = d.by => c = d
    BY <1>0, <1>4, MoreKeys DEF Tk!TokensInv
  <2>4. ASSUME NEW k \in {"org", "repo"}, k \notin mixed' PROVE Tk!Alone(k)'
    <3>1. k \notin mixed /\ k \in Tk!Kinds
      BY <2>1, <2>4 DEF Tk!Kinds
    <3>2. CASE k # kind
      BY <1>4, <2>2, <3>1, <3>2, OthersAlone
    <3>3. CASE k = kind
      BY <1>4, <2>2, <2>4, <3>3 DEF Tk!Alone
    <3>4. QED
      BY <3>2, <3>3
  <2>5. ASSUME NEW k \in {"org", "repo"} PROVE Tk!Few(k)'
    <3>1. CASE k # kind
      <4>1. tokens'[k] = tokens[k]
        BY <2>2, <3>1 DEF Tk!Kinds
      <4>2. QED
        BY <1>4, <4>1, SameRows DEF Tk!RowIds
    <3>2. CASE k = kind
      <4>1. \A t \in tokens'[k] : t.id = lastkey + 1
        BY <1>4, <2>2, <3>2
      <4>2. QED
        BY <2>3, <4>1, FirstRow
    <3>3. QED
      BY <3>1, <3>2
  <2>6. QED
    BY <2>2, <2>3, <2>4, <2>5 DEF Tk!TokensInv, TokenRows
<1>5. CASE Tk!Add
  BY <1>5, <1>4 DEF Tk!Add, Tk!MayAdd
<1>6. CASE Tk!CreateUserToken
  BY <1>6, <1>4 DEF Tk!CreateUserToken, Tk!TokensInv, Tk!Begun
<1>7. ASSUME NEW t \in tokens["org"], Tk!Delete(t) PROVE Tk!TokensInv'
  BY <1>0, <1>7, KeysGone DEF Tk!Delete, Tk!TokensTypeOK
<1>8. ASSUME NEW t \in tokens["user"], Tk!RevokeUserToken(t) PROVE Tk!TokensInv'
  BY <1>0, <1>8, KeysGone DEF Tk!RevokeUserToken, Tk!TokensTypeOK
<1>9. ASSUME NEW p \in {"listed", "legacy"}, Tk!SaveOwner(p) PROVE Tk!TokensInv'
  <2>1. plan' = p /\ UNCHANGED <<repoactive, begun, lastkey>>
    BY <1>9 DEF Tk!SaveOwner
  <2>2. CASE UNCHANGED <<tokens, retired, mixed>>
    BY <1>0, <2>1, <2>2 DEF Tk!TokensTypeOK, Tk!KeysAreApart, Tk!TokensInv, Tk!Alone, Tk!Few,
       Tk!RowIds, Tk!Creators, Tk!Begun
  <2>3. CASE Tk!Deleted("org", tokens["org"])
    BY <1>0, <1>9, <2>1, <2>3, KeysGone
  <2>4. QED
    BY <1>9, <2>2, <2>3 DEF Tk!SaveOwner
<1>10. CASE Tk!SetActive
  BY <1>0, <1>10 DEF Tk!SetActive, Tk!TokensTypeOK, Tk!KeysAreApart, Tk!TokensInv, Tk!Alone,
     Tk!Few, Tk!RowIds, Tk!Creators, Tk!Begun
<1>11. QED
  BY <1>1, <1>2, <1>3, <1>5, <1>6, <1>7, <1>8, <1>9, <1>10 DEF Tk!TokensNext

LEMMA TokensSafe ==
    ASSUME Tk!TokensInv
    PROVE  Tk!TokensTypeOK /\ Tk!OneTokenPerOwner /\ Tk!RevokedStaysRevoked
<1>1. ASSUME NEW kind \in {"org", "repo"}, kind \notin mixed
      PROVE  Cardinality(tokens[kind]) <= 1
  <2>1. \A t, u \in tokens[kind] : t = u
    BY <1>1 DEF Tk!TokensInv, Tk!Alone
  <2>2. CASE tokens[kind] = {}
    BY <2>2, FS_EmptySet
  <2>3. CASE tokens[kind] # {}
    BY <2>1, <2>3, FS_Singleton
  <2>4. QED
    BY <2>2, <2>3
<1>2. Tk!RevokedStaysRevoked
  BY DEF Tk!TokensInv, Tk!KeysAreApart, Tk!RevokedStaysRevoked, Tk!Authenticates, Tk!Keys
<1>3. ASSUME NEW kind \in {"org", "repo"}
      PROVE  Cardinality(tokens[kind]) <= Cardinality(Interactors) + 1
  <2> DEFINE T == tokens[kind]
             R == Tk!RowIds(kind)
             C == Tk!Creators(kind)
             f == [t \in T |-> t.id]
  <2>1. IsFiniteSet(R) /\ Cardinality(R) + Cardinality(C) <= Cardinality(Interactors) + 1
    BY TokensSets DEF Tk!TokensInv, Tk!Few
  <2>2. f \in Injection(T, R)
    <3>1. \A t, u \in T : t.id = u.id => t = u
      BY DEF Tk!TokensInv, Tk!TokensTypeOK, Tk!Kinds
    <3>2. \A t \in T : t.id \in R
      BY DEF Tk!RowIds
    <3> HIDE DEF T, R
    <3>3. f \in [T -> R] /\ \A t, u \in T : f[t] = f[u] => t = u
      BY <3>1, <3>2
    <3> HIDE DEF f
    <3>4. QED
      BY <3>3 DEF Injection, IsInjective
  <2>3. Cardinality(C) \in Nat /\ Cardinality(Interactors) \in Nat
    BY CreatorsFinite
  <2> HIDE DEF f, T, R, C
  <2>4. IsFiniteSet(T) /\ Cardinality(T) <= Cardinality(R)
    BY <2>1, <2>2, FS_Injection
  <2>5. Cardinality(T) \in Nat /\ Cardinality(R) \in Nat
    BY <2>1, <2>4, FS_CardinalityType
  <2>6. Cardinality(T) <= Cardinality(Interactors) + 1
    BY <2>1, <2>3, <2>4, <2>5
  <2>7. QED
    BY <2>6 DEF T
<1>4. QED
  BY <1>1, <1>2, <1>3, TokensSets DEF Tk!TokensInv, Tk!OneTokenPerOwner

LEMMA TokensStart ==
    ASSUME Tk!TokensInit
    PROVE  Tk!TokensInv
<1>1. /\ tokens = [k \in Tk!Kinds |-> {}] /\ begun = {} /\ lastkey = 0 /\ retired = {} /\ mixed = {}
      /\ plan \in {"listed", "legacy"} /\ repoactive \in BOOLEAN
  BY DEF Tk!TokensInit
<1>2. ASSUME NEW k \in {"org", "repo"} PROVE Tk!Few(k)
  <2>1. Tk!RowIds(k) = {} /\ Tk!Creators(k) = {}
    BY <1>1 DEF Tk!RowIds, Tk!Creators, Tk!Kinds
  <2>2. IsFiniteSet({}) /\ Cardinality({}) = 0
    BY FS_EmptySet
  <2>3. Cardinality(Interactors) \in Nat
    BY Assumptions, TokensSets, FS_CardinalityType DEF Tk!KeyAssumption
  <2>4. 0 + 0 <= Cardinality(Interactors) + 1
    BY <2>3
  <2>5. /\ Tk!IsFiniteSet({}) /\ Tk!Cardinality({}) = 0
        /\ Tk!Cardinality(Interactors) = Cardinality(Interactors)
    BY <2>2, TokensSets
  <2>6. QED
    BY <2>1, <2>4, <2>5 DEF Tk!Few
<1>3. Tk!TokensTypeOK /\ Tk!KeysAreApart
  BY <1>1 DEF Tk!TokensTypeOK, Tk!KeysAreApart, Tk!Kinds
<1>4. QED
  BY <1>1, <1>2, <1>3 DEF Tk!TokensInv, Tk!Alone, Tk!Kinds

LEMMA TokensStay ==
    ASSUME Tk!TokensInv, UNCHANGED Tk!tokenVars
    PROVE  Tk!TokensInv'
<1>1. UNCHANGED <<plan, repoactive, tokens, retired, begun, lastkey, mixed>>
  BY DEF Tk!tokenVars
<1>2. Tk!TokensTypeOK' /\ Tk!KeysAreApart'
  BY <1>1 DEF Tk!TokensInv, Tk!TokensTypeOK, Tk!KeysAreApart
<1>3. QED
  BY <1>1, <1>2 DEF Tk!TokensInv, Tk!Alone, Tk!Few, Tk!RowIds, Tk!Creators, Tk!Begun

-----------------------------------------------------------------------------
(* Proofs: rows of owners *)

row == v1
issued == v2
expired == v3
providerAdmins == v4
wereAdmins == v5
answers == v6
twice == v7
request == v8
stale == v9
cut == v10
organizations == v11

USE DEF row, issued, expired, providerAdmins, wereAdmins, answers, twice, request,
        stale, cut, organizations

\* A row of o that is or was, whose admins were made admins now if not before
AsKnown(o, r) ==
    /\ r \in Ow!OwnerRow /\ r.token <= issued[o]
    /\ r.admins # Nothing => \A p \in r.admins : <<p, o>> \in wereAdmins'

\* A request ends with a row that says the same of the token and the answers.
LEMMA SavedAndDone ==
    ASSUME Ow!RowsInv, NEW q \in Tasks, request[q].pc \in {"begun", "asking"},
           NEW o \in Members, NEW was, NEW new, Ow!SaveRow(o, was, new), AsKnown(o, new),
           row[o] = was => new.token = was.token /\ new.onboarded = was.onboarded,
           Ow!Done(q), UNCHANGED <<cut, issued, expired, providerAdmins, organizations, Ow!profiles>>,
           wereAdmins \subseteq wereAdmins', wereAdmins' \subseteq Members \X Members
    PROVE  Ow!RowsInv'
<1>1. /\ request' = [request EXCEPT ![q] = Ow!Idle] /\ Ow!Idle.pc = "idle"
      /\ request \in [Tasks -> {Ow!Idle} \cup Ow!Request]
      /\ UNCHANGED <<cut, issued, expired, providerAdmins, organizations, answers, twice>>
      /\ row' = [row EXCEPT ![o] = new] /\ row \in [Members -> Ow!OwnerRow] /\ new \in Ow!OwnerRow
      /\ stale' = IF row[o] = was THEN stale ELSE stale \cup {o}
  BY DEF Ow!RowsInv, Ow!RowsTypeOK, Ow!KnownRow, Ow!SaveRow, Ow!Done, Ow!profiles, Ow!Idle, AsKnown
<1>2. request'[q] = Ow!Idle /\ \A p \in Tasks \ {q} : request'[p] = request[p]
  BY <1>1
<1>3. row'[o] = new /\ \A p \in Members \ {o} : row'[p] = row[p]
  BY <1>1
<1>4. Ow!RowsTypeOK'
  BY <1>1, <1>3, <1>2 DEF Ow!RowsInv, Ow!RowsTypeOK, AsKnown
<1>5. ASSUME NEW p \in Members PROVE Ow!KnownRow(p, row[p])'
  BY <1>1, <1>3 DEF Ow!RowsInv, Ow!KnownRow, AsKnown
<1>6. ASSUME NEW p \in Tasks, request'[p] # Ow!Idle
      PROVE  Ow!KnownRow(request[p].who, request[p].own)' /\ Ow!KnownRow(request[p].of, request[p].org)'
  BY <1>1, <1>2, <1>6 DEF Ow!RowsInv, Ow!KnownRow
<1>7. ASSUME NEW p \in Members \ (stale' \cup cut') PROVE Ow!Right(p)'
  BY <1>1, <1>3, <1>2 DEF Ow!RowsInv, Ow!Between, Ow!Right, Ow!Answering
<1>8. request' \in [Tasks -> {Ow!Idle} \cup Ow!Request]
  BY <1>1
<1>9. \A p \in expired' : issued'[p] < MaxToken
  BY <1>1 DEF Ow!RowsInv
<1>10. QED
  BY <1>4, <1>5, <1>6, <1>7, <1>8, <1>9 DEF Ow!RowsInv

\* A request's step, which is not its last: what it goes on with
LEMMA GoesOn ==
    ASSUME Ow!RowsInv, NEW q \in Tasks, NEW r \in Ow!Request, request' = [request EXCEPT ![q] = r],
           Ow!KnownRow(r.who, r.own)', Ow!KnownRow(r.of, r.org)',
           \A o \in Members : issued'[o] >= issued[o],
           UNCHANGED <<providerAdmins, wereAdmins, answers, twice, cut, organizations>>,
           issued' \in [Members -> 1..MaxToken], expired' \subseteq Members,
           \A o \in expired' : issued'[o] < MaxToken,
           row' \in [Members -> Ow!OwnerRow], stale \subseteq stale', stale' \subseteq Members,
           \A o \in Members : Ow!KnownRow(o, row[o])',
           \A o \in Members \ (stale' \cup cut') : Ow!Right(o)'
    PROVE  Ow!RowsInv'
<1>1. request'[q] = r /\ \A p \in Tasks \ {q} : request'[p] = request[p]
  BY DEF Ow!RowsInv
<1>2. request' \in [Tasks -> {Ow!Idle} \cup Ow!Request]
  BY DEF Ow!RowsInv
<1>3. ASSUME NEW p \in Tasks, request'[p] # Ow!Idle
      PROVE  Ow!KnownRow(request[p].who, request[p].own)' /\ Ow!KnownRow(request[p].of, request[p].org)'
  <2>1. CASE p = q
    BY <1>1, <2>1
  <2>2. CASE p # q
    BY <1>1, <1>3, <2>2, Assumptions DEF Ow!RowsInv, Ow!Request, Ow!RowsTypeOK,
       Ow!TokenAssumption, Ow!KnownRow, Ow!OwnerRow
  <2>3. QED
    BY <2>1, <2>2
<1>4. Ow!RowsTypeOK'
  BY <1>2 DEF Ow!KnownRow, Ow!RowsInv, Ow!RowsTypeOK, Ow!Request
<1>5. QED
  BY <1>2, <1>3, <1>4 DEF Ow!RowsInv

LEMMA RowsStep ==
    ASSUME Ow!RowsInv, Ow!RowsNext
    PROVE  Ow!RowsInv'
<1>0. /\ Ow!RowsTypeOK /\ request \in [Tasks -> {Ow!Idle} \cup Ow!Request] /\ Ow!Idle.pc = "idle"
      /\ \A o \in Members : Ow!KnownRow(o, row[o]) /\ issued[o] \in Nat
  BY Assumptions DEF Ow!RowsInv, Ow!RowsTypeOK, Ow!TokenAssumption, Ow!Idle
<1>1. ASSUME NEW o \in Members, Ow!ExpireToken(o) PROVE Ow!RowsInv'
  BY <1>1 DEF Ow!ExpireToken, Ow!RowsInv, Ow!RowsTypeOK, Ow!KnownRow, Ow!Right, Ow!Answering,
     Ow!Between, Ow!profiles
<1>2. ASSUME NEW o \in Members, NEW p \in Members, Ow!ChangeAdmins(o, p) PROVE Ow!RowsInv'
  BY <1>2 DEF Ow!ChangeAdmins, Ow!RowsInv, Ow!RowsTypeOK, Ow!KnownRow, Ow!Right, Ow!Answering,
     Ow!Between, Ow!profiles
<1>3. ASSUME NEW q \in Tasks, NEW who \in Members, NEW of \in Members, Ow!Begin(q, who, of)
      PROVE  Ow!RowsInv'
  <2>1. PICK r \in Ow!Request :
           /\ r = [pc |-> "begun", who |-> who, of |-> of, own |-> row[who], org |-> row[of]]
           /\ request[q] = Ow!Idle /\ request' = [request EXCEPT ![q] = r]
           /\ UNCHANGED <<row, stale, cut, issued, expired, providerAdmins, wereAdmins,
                          answers, twice, organizations>>
    BY <1>0, <1>3 DEF Ow!Begin, Ow!provider, Ow!profiles, Ow!Request, Ow!RowsTypeOK
  <2>2. request'[q].pc = "begun" /\ \A p \in Tasks \ {q} : request'[p] = request[p]
    BY <1>0, <2>1
  <2>3. \A o \in Members, pc \in {"refreshed", "onboarded"} : Ow!Between(o, pc)' <=> Ow!Between(o, pc)
    BY <1>0, <2>1, <2>2 DEF Ow!Between
  <2>4. \A o \in Members \ (stale' \cup cut') : Ow!Right(o)'
    BY <1>0, <2>1, <2>2, <2>3 DEF Ow!RowsInv, Ow!Right, Ow!Answering
  <2>5. Ow!KnownRow(r.who, r.own)' /\ Ow!KnownRow(r.of, r.org)' /\ \A o \in Members : Ow!KnownRow(o, row[o])'
    BY <1>0, <2>1 DEF Ow!KnownRow
  <2>6. /\ \A o \in Members : issued'[o] >= issued[o]
        /\ issued' \in [Members -> 1..MaxToken] /\ expired' \subseteq Members
        /\ \A o \in expired' : issued'[o] < MaxToken
        /\ row' \in [Members -> Ow!OwnerRow] /\ stale \subseteq stale' /\ stale' \subseteq Members
    BY <1>0, <2>1 DEF Ow!RowsInv, Ow!RowsTypeOK
  <2>7. QED
    BY <2>1, <2>4, <2>5, <2>6, GoesOn
<1>4. ASSUME NEW q \in Tasks, Ow!UpdateProfile(q) PROVE Ow!RowsInv'
  <2>1. /\ request[q].pc = "begun" /\ request[q] \in Ow!Request
        /\ Ow!KnownRow(request[q].who, request[q].own)
    BY <1>0, <1>4 DEF Ow!UpdateProfile, Ow!SaveOwn, Ow!RowsInv
  <2>2. request[q].who \in Members
    BY <2>1 DEF Ow!Request
  <2>3. /\ AsKnown(request[q].who, request[q].own) /\ UNCHANGED <<cut, Ow!profiles>>
        /\ UNCHANGED <<issued, expired, providerAdmins, organizations, wereAdmins>>
    BY <1>4, <2>1 DEF AsKnown, Ow!KnownRow, Ow!UpdateProfile, Ow!SaveOwn, Ow!provider
  <2>4. wereAdmins' \subseteq Members \X Members
    BY <1>0, <2>3 DEF Ow!RowsTypeOK
  <2>5. /\ Ow!SaveRow(request[q].who, request[q].own, request[q].own) /\ Ow!Done(q)
    BY <1>4 DEF Ow!UpdateProfile, Ow!SaveOwn
  <2>6. QED
    BY <2>1, <2>2, <2>3, <2>4, <2>5, SavedAndDone
<1>5. ASSUME NEW q \in Tasks, NEW user \in SentryUsers, Ow!SaveSentryState(q, user)
      PROVE Ow!RowsInv'
  <2> DEFINE new == [request[q].own EXCEPT !.sentry = user]
  <2>1. /\ request[q].pc = "begun" /\ request[q] \in Ow!Request
        /\ Ow!KnownRow(request[q].who, request[q].own)
    BY <1>0, <1>5 DEF Ow!SaveSentryState, Ow!SaveOwn, Ow!RowsInv
  <2>2. /\ AsKnown(request[q].who, new) /\ request[q].who \in Members
        /\ new.token = request[q].own.token /\ new.onboarded = request[q].own.onboarded
    BY <1>5, <2>1 DEF AsKnown, Ow!KnownRow, Ow!Request, Ow!OwnerRow, Ow!SaveSentryState, Ow!SaveOwn,
       Ow!provider
  <2>3. /\ Ow!SaveRow(request[q].who, request[q].own, new)
        /\ Ow!Done(q) /\ UNCHANGED <<cut, Ow!profiles>>
        /\ UNCHANGED <<issued, expired, providerAdmins, organizations, wereAdmins>>
        /\ wereAdmins' \subseteq Members \X Members
    BY <1>0, <1>5 DEF Ow!SaveSentryState, Ow!SaveOwn, Ow!provider, Ow!RowsTypeOK
  <2> HIDE DEF new
  <2>4. QED
    BY <2>1, <2>2, <2>3, SavedAndDone
<1>6. ASSUME NEW q \in Tasks, Ow!Onboard(q) PROVE Ow!RowsInv'
  <2>0. request[q] \in Ow!Request /\ Ow!KnownRow(request[q].who, request[q].own)
    BY <1>0, <1>6 DEF Ow!Onboard, Ow!RowsInv
  <2>1. PICK r \in Ow!Request, who \in Members, own \in Ow!OwnerRow, new \in Ow!OwnerRow :
           /\ who = request[q].who /\ own = request[q].own
           /\ new = [own EXCEPT !.onboarded = TRUE] /\ r = [request[q] EXCEPT !.pc = "onboarded"]
           /\ request[q].pc = "begun" /\ request' = [request EXCEPT ![q] = r]
           /\ Ow!KnownRow(who, own) /\ Ow!KnownRow(request[q].of, request[q].org)
           /\ ~own.onboarded /\ row' = [row EXCEPT ![who] = new]
           /\ stale' = IF row[who] = own THEN stale ELSE stale \cup {who}
           /\ UNCHANGED <<cut, issued, expired, providerAdmins, wereAdmins, answers, twice, organizations>>
    <3>1. /\ [request[q].own EXCEPT !.onboarded = TRUE] \in Ow!OwnerRow
          /\ [request[q] EXCEPT !.pc = "onboarded"] \in Ow!Request
          /\ request[q].who \in Members /\ request[q].own \in Ow!OwnerRow
      BY <2>0 DEF Ow!Request, Ow!OwnerRow
    <3>2. QED
      BY <1>0, <1>6, <3>1 DEF Ow!Onboard, Ow!MayOnboard, Ow!SaveRow, Ow!RowsInv, Ow!provider,
         Ow!profiles
  <2>2. /\ Ow!KnownRow(who, new) /\ new.token = own.token /\ new.onboarded
        /\ r.who = who /\ r.own = own
        /\ r.of = request[q].of /\ r.org = request[q].org /\ r.pc = "onboarded"
        /\ request'[q] = r /\ \A p \in Tasks \ {q} : request'[p] = request[p]
    BY <1>0, <2>0, <2>1 DEF Ow!KnownRow, Ow!Request, Ow!OwnerRow
  <2>3. row'[who] = new /\ \A o \in Members \ {who} : row'[o] = row[o]
    BY <1>0, <2>1, <2>2 DEF Ow!RowsTypeOK
  <2>4. ASSUME NEW o \in Members \ (stale' \cup cut') PROVE Ow!Right(o)'
    <3>1. Ow!Right(o) /\ (o = who => row[o] = own)
      BY <2>1 DEF Ow!RowsInv
    <3>2. Ow!Between(o, "refreshed")' <=> Ow!Between(o, "refreshed")
      BY <2>1, <2>2 DEF Ow!Between
    <3>3. CASE o # who
      BY <2>1, <2>2, <3>3, <3>1, <2>3, <3>2 DEF Ow!Between, Ow!Right, Ow!Answering
    <3>4. CASE o = who
      <4>1. o \notin answers /\ ~Ow!Between(o, "onboarded")
        BY <2>1, <3>1, <3>4 DEF Ow!Right
      <4>2. Ow!Between(o, "onboarded")'
        BY <2>2, <3>4 DEF Ow!Between
      <4>3. Ow!Answering(o)'
        BY <2>1, <2>2, <4>1 DEF Ow!Answering, Ow!Between
      <4>4. row'[o].token = row[o].token /\ row'[o].onboarded
        BY <2>2, <2>3, <3>1, <3>4
      <4>5. QED
        BY <2>1, <3>1, <3>2, <4>2, <4>3, <4>4 DEF Ow!Right
    <3>5. QED
      BY <3>3, <3>4
  <2>5. /\ Ow!KnownRow(r.who, r.own)' /\ Ow!KnownRow(r.of, r.org)'
        /\ \A o \in Members : Ow!KnownRow(o, row[o])'
    BY <1>0, <2>1, <2>2, <2>3 DEF Ow!KnownRow
  <2>6. /\ \A o \in Members : issued'[o] >= issued[o]
        /\ issued' \in [Members -> 1..MaxToken] /\ expired' \subseteq Members
        /\ \A o \in expired' : issued'[o] < MaxToken
        /\ row' \in [Members -> Ow!OwnerRow] /\ stale \subseteq stale' /\ stale' \subseteq Members
    BY <1>0, <2>1, <2>2 DEF Ow!RowsInv, Ow!RowsTypeOK, Ow!KnownRow
  <2>7. QED
    BY <2>1, <2>2, <2>4, <2>5, <2>6, GoesOn
<1>7. ASSUME NEW q \in Tasks, Ow!SaveAnswers(q) PROVE Ow!RowsInv'
  BY <1>7 DEF Ow!SaveAnswers, Ow!RowsInv, Ow!RowsTypeOK, Ow!KnownRow, Ow!Right, Ow!Answering,
     Ow!Between, Ow!Request, Ow!Idle, Ow!Done, Ow!provider
<1>8. ASSUME NEW q \in Tasks, Ow!RefreshToken(q) PROVE Ow!RowsInv'
  <2>0. request[q] \in Ow!Request
    BY <1>0, <1>8 DEF Ow!RefreshToken
  <2>1. PICK r \in Ow!Request, who \in Members :
           /\ who = request[q].who /\ r = [request[q] EXCEPT !.pc = "refreshed"]
           /\ request[q].pc = "begun" /\ request' = [request EXCEPT ![q] = r]
           /\ Ow!KnownRow(who, request[q].own) /\ Ow!KnownRow(request[q].of, request[q].org)
           /\ issued[who] < MaxToken
           /\ issued' = [issued EXCEPT ![who] = @ + 1] /\ expired' = expired \ {who}
           /\ UNCHANGED <<row, stale, cut, providerAdmins, wereAdmins, answers, twice, organizations>>
    BY <2>0, <1>0, <1>8 DEF Ow!Request, Ow!RefreshToken, Ow!RowsInv, Ow!profiles
  <2>2. /\ r.who = who /\ r.own = request[q].own
        /\ r.of = request[q].of /\ r.org = request[q].org /\ r.pc = "refreshed" /\ r.of \in Members
        /\ request'[q] = r /\ \A p \in Tasks \ {q} : request'[p] = request[p]
    BY <1>0, <2>0, <2>1 DEF Ow!Request
  <2>3. /\ \A o \in Members : issued'[o] >= issued[o] /\ issued'[o] \in Nat
        /\ \A o \in Members \ {who} : issued'[o] = issued[o]
        /\ issued' \in [Members -> 1..MaxToken]
    BY <1>0, <2>1, Assumptions DEF Ow!RowsTypeOK, Ow!TokenAssumption
  <2>4. ASSUME NEW o \in Members \ (stale' \cup cut') PROVE Ow!Right(o)'
    <3>1. Ow!Right(o)
      BY <2>1 DEF Ow!RowsInv
    <3>2. Ow!Between(o, "onboarded")' <=> Ow!Between(o, "onboarded")
      BY <2>1, <2>2 DEF Ow!Between
    <3>3. Ow!Between(o, "refreshed")' \/ row[o].token = issued'[o]
      <4>1. CASE o = who
        BY <2>1, <2>2, <4>1 DEF Ow!Between
      <4>2. CASE o # who /\ Ow!Between(o, "refreshed")
        BY <2>1, <2>2, <4>2 DEF Ow!Between
      <4>3. QED
        BY <2>3, <3>1, <4>1, <4>2 DEF Ow!Right
    <3>4. Ow!Answering(o)'
      BY <2>1, <2>2, <3>1, <3>2 DEF Ow!Answering, Ow!Right
    <3>5. QED
      BY <2>1, <3>1, <3>2, <3>3, <3>4 DEF Ow!Right
  <2>5. /\ Ow!KnownRow(r.who, r.own)' /\ Ow!KnownRow(r.of, r.org)'
        /\ \A o \in Members : Ow!KnownRow(o, row[o])'
    BY <1>0, <2>1, <2>2, <2>3 DEF Ow!KnownRow, Ow!OwnerRow
  <2>6. /\ expired' \subseteq Members /\ row' \in [Members -> Ow!OwnerRow]
        /\ \A o \in expired' : issued'[o] < MaxToken
        /\ stale \subseteq stale' /\ stale' \subseteq Members
    BY <1>0, <2>1, <2>3 DEF Ow!RowsInv, Ow!RowsTypeOK
  <2>7. QED
    BY <2>1, <2>2, <2>3, <2>4, <2>5, <2>6, GoesOn
<1>9. ASSUME NEW q \in Tasks, Ow!SaveToken(q) PROVE Ow!RowsInv'
  <2>0. request[q] \in Ow!Request /\ Ow!KnownRow(request[q].who, request[q].own)
    BY <1>0, <1>9 DEF Ow!SaveToken, Ow!RowsInv
  <2>1. PICK r \in Ow!Request, who \in Members, own \in Ow!OwnerRow, new \in Ow!OwnerRow :
           /\ who = request[q].who /\ own = request[q].own
           /\ new = [own EXCEPT !.token = issued[who]]
           /\ r = [request[q] EXCEPT !.pc = "asking", !.own = new]
           /\ request[q].pc = "refreshed" /\ request' = [request EXCEPT ![q] = r]
           /\ Ow!KnownRow(who, own) /\ Ow!KnownRow(request[q].of, request[q].org)
           /\ row' = [row EXCEPT ![who] = new]
           /\ stale' = IF row[who] = own THEN stale ELSE stale \cup {who}
           /\ UNCHANGED <<cut, issued, expired, providerAdmins, wereAdmins, answers, twice, organizations>>
    <3> DEFINE new == [request[q].own EXCEPT !.token = issued[request[q].who]]
    <3>1. request[q].who \in Members /\ request[q].own \in Ow!OwnerRow
      BY <2>0 DEF Ow!Request
    <3>2. new \in Ow!OwnerRow
      BY <1>0, <3>1 DEF Ow!OwnerRow, Ow!RowsTypeOK
    <3>3. [request[q] EXCEPT !.pc = "asking", !.own = new] \in Ow!Request
      BY <2>0, <3>2 DEF Ow!Request
    <3>4. /\ Ow!KnownRow(request[q].who, request[q].own) /\ Ow!KnownRow(request[q].of, request[q].org)
          /\ request[q].pc = "refreshed" /\ row' = [row EXCEPT ![request[q].who] = new]
          /\ stale' = IF row[request[q].who] = request[q].own THEN stale
                      ELSE stale \cup {request[q].who}
          /\ UNCHANGED <<cut, issued, expired, providerAdmins, wereAdmins, answers, twice, organizations>>
      BY <1>0, <1>9 DEF Ow!SaveToken, Ow!Refreshed, Ow!SaveRow, Ow!RowsInv, Ow!provider,
         Ow!profiles
    <3>5. request' = [request EXCEPT ![q] = [request[q] EXCEPT !.pc = "asking", !.own = new]]
      BY <1>0, <1>9 DEF Ow!SaveToken, Ow!Refreshed
    <3> HIDE DEF new
    <3>6. PICK r : r = [request[q] EXCEPT !.pc = "asking", !.own = new]
      OBVIOUS
    <3>7. QED
      BY <3>1, <3>2, <3>3, <3>4, <3>5, <3>6 DEF new
  <2>2. /\ issued[who] \in 1..MaxToken
        /\ Ow!KnownRow(who, new) /\ new.token = issued[who] /\ new.onboarded = own.onboarded
    BY <1>0, <2>1 DEF Ow!KnownRow, Ow!OwnerRow, Ow!RowsTypeOK
  <2>3. /\ r.who = who /\ r.own = new
        /\ r.of = request[q].of /\ r.org = request[q].org /\ r.pc = "asking"
        /\ request'[q] = r /\ \A p \in Tasks \ {q} : request'[p] = request[p]
    BY <1>0, <2>0, <2>1 DEF Ow!Request
  <2>4. row'[who] = new /\ \A o \in Members \ {who} : row'[o] = row[o]
    BY <1>0, <2>1, <2>2 DEF Ow!RowsTypeOK
  <2>5. ASSUME NEW o \in Members \ (stale' \cup cut') PROVE Ow!Right(o)'
    <3>1. Ow!Right(o) /\ (o = who => row[o] = own)
      BY <2>1 DEF Ow!RowsInv
    <3>2. Ow!Between(o, "onboarded")' <=> Ow!Between(o, "onboarded")
      BY <2>1, <2>3 DEF Ow!Between
    <3>3. Ow!Between(o, "refreshed")' \/ row'[o].token = issued'[o]
      <4>1. CASE o = who
        BY <2>1, <2>2, <2>4, <4>1
      <4>2. CASE o # who /\ Ow!Between(o, "refreshed")
        BY <2>1, <2>3, <4>2 DEF Ow!Between
      <4>3. QED
        BY <2>1, <2>4, <3>1, <4>1, <4>2 DEF Ow!Right
    <3>4. Ow!Answering(o)'
      BY <2>1, <2>3, <3>1, <3>2 DEF Ow!Answering, Ow!Right
    <3>5. row'[o].onboarded = row[o].onboarded
      BY <2>2, <2>4, <3>1
    <3>6. QED
      BY <2>1, <3>1, <3>2, <3>3, <3>4, <3>5 DEF Ow!Right
  <2>6. /\ Ow!KnownRow(r.who, r.own)' /\ Ow!KnownRow(r.of, r.org)'
        /\ \A o \in Members : Ow!KnownRow(o, row[o])'
    <3>1. Ow!KnownRow(who, new)' /\ Ow!KnownRow(r.of, r.org)'
      BY <2>1, <2>2, <2>3 DEF Ow!KnownRow
    <3>2. \A o \in Members \ {who} : Ow!KnownRow(o, row[o])'
      BY <1>0, <2>1, <2>4 DEF Ow!KnownRow
    <3>3. QED
      BY <2>3, <2>4, <3>1, <3>2
  <2>7. /\ \A o \in Members : issued'[o] >= issued[o]
        /\ issued' \in [Members -> 1..MaxToken] /\ expired' \subseteq Members
        /\ \A o \in expired' : issued'[o] < MaxToken
        /\ row' \in [Members -> Ow!OwnerRow] /\ stale \subseteq stale' /\ stale' \subseteq Members
    BY <1>0, <2>1, <2>2 DEF Ow!RowsInv, Ow!RowsTypeOK, Ow!KnownRow
  <2>8. QED
    BY <2>1, <2>3, <2>5, <2>6, <2>7, GoesOn
<1>10. ASSUME NEW q \in Tasks, Ow!AskAdmin(q) PROVE Ow!RowsInv'
  <2> DEFINE of == request[q].of
             org == request[q].org
             new == [org EXCEPT !.admins = @ \cup {request[q].who}]
  <2>1. /\ request[q].pc \in {"begun", "asking"} /\ request[q] \in Ow!Request
        /\ Ow!KnownRow(of, org) /\ of \in Members /\ request[q].who \in Members
        /\ Ow!Done(q) /\ UNCHANGED <<cut, Ow!provider, Ow!profiles>>
    BY <1>0, <1>10 DEF Ow!AskAdmin, Ow!RowsInv, Ow!Request
  <2>2. CASE Ow!SaidToBe(q) /\ org.admins # Nothing
    <3>1. /\ org.admins \cup {request[q].who} \in SUBSET Members
          /\ \A p \in org.admins \cup {request[q].who} : <<p, of>> \in wereAdmins
      BY <1>0, <2>1, <2>2 DEF Ow!SaidToBe, Ow!KnownRow, Ow!OwnerRow, Ow!RowsTypeOK
    <3>2. AsKnown(of, new) /\ new.token = org.token /\ new.onboarded = org.onboarded
      BY <2>1, <3>1 DEF AsKnown, Ow!KnownRow, Ow!OwnerRow, Ow!provider
    <3>3. /\ Ow!SaveRow(of, org, new) /\ wereAdmins' \subseteq Members \X Members
          /\ UNCHANGED <<issued, expired, providerAdmins, organizations, wereAdmins>>
      BY <1>0, <1>10, <2>1, <2>2 DEF Ow!AskAdmin, Ow!provider, Ow!RowsTypeOK
    <3> HIDE DEF new
    <3>4. QED
      BY <2>1, <3>2, <3>3, SavedAndDone
  <2>3. CASE UNCHANGED <<row, stale>>
    BY <2>1, <2>3 DEF Ow!RowsInv, Ow!RowsTypeOK, Ow!KnownRow, Ow!Right, Ow!Answering,
       Ow!Between, Ow!Request, Ow!Idle, Ow!Done, Ow!provider, Ow!profiles
  <2>4. QED
    BY <1>10, <2>2, <2>3 DEF Ow!AskAdmin
<1>11. ASSUME NEW q \in Tasks, NEW p \in Members, NEW admins, admins \in {Nothing} \cup SUBSET Members,
              Ow!Edits(q), Ow!SaveAdmins(q, admins), wereAdmins \subseteq wereAdmins',
              wereAdmins' \subseteq wereAdmins \cup {<<p, request[q].of>>},
              admins # Nothing => \A x \in admins : <<x, request[q].of>> \in wereAdmins'
       PROVE  Ow!RowsInv'
  <2> DEFINE of == request[q].of
             org == request[q].org
             new == [org EXCEPT !.admins = admins]
  <2>1. /\ request[q].pc = "begun" /\ request[q] \in Ow!Request
        /\ Ow!KnownRow(of, org) /\ of \in Members
        /\ Ow!Done(q) /\ Ow!SaveRow(of, org, new)
        /\ UNCHANGED <<cut, issued, expired, providerAdmins, organizations, Ow!profiles>>
    BY <1>0, <1>11 DEF Ow!Edits, Ow!SaveAdmins, Ow!RowsInv, Ow!Request
  <2>2. AsKnown(of, new) /\ new.token = org.token /\ new.onboarded = org.onboarded
    BY <1>11, <2>1 DEF AsKnown, Ow!KnownRow, Ow!OwnerRow
  <2>3. wereAdmins' \subseteq Members \X Members
    BY <1>0, <1>11, <2>1 DEF Ow!RowsTypeOK
  <2> HIDE DEF new
  <2>4. QED
    BY <1>11, <2>1, <2>2, <2>3, SavedAndDone
<1>12. ASSUME NEW q \in Tasks, NEW p \in Members, Ow!AddAdmin(q, p) PROVE Ow!RowsInv'
  <2> DEFINE admins == request[q].org.admins
             to == IF admins = Nothing THEN {p} ELSE admins \cup {p}
  <2>1. /\ Ow!Edits(q) /\ Ow!SaveAdmins(q, to)
        /\ wereAdmins' = wereAdmins \cup {<<p, request[q].of>>}
    BY <1>12 DEF Ow!AddAdmin
  <2>2. request[q] \in Ow!Request /\ Ow!KnownRow(request[q].of, request[q].org)
    BY <1>0, <2>1 DEF Ow!Edits, Ow!RowsInv
  <2>3. to \in SUBSET Members /\ \A x \in to : <<x, request[q].of>> \in wereAdmins'
    BY <2>1, <2>2 DEF Ow!KnownRow, Ow!OwnerRow
  <2> HIDE DEF to
  <2>4. QED
    BY <1>11, <2>1, <2>3
<1>13. ASSUME NEW q \in Tasks, NEW p \in Members, Ow!RemoveAdmin(q, p) PROVE Ow!RowsInv'
  <2> DEFINE admins == request[q].org.admins
             to == IF admins = Nothing THEN Nothing ELSE admins \ {p}
  <2>1. Ow!Edits(q) /\ Ow!SaveAdmins(q, to) /\ wereAdmins' = wereAdmins
    BY <1>13 DEF Ow!RemoveAdmin
  <2>2. request[q] \in Ow!Request /\ Ow!KnownRow(request[q].of, request[q].org)
    BY <1>0, <2>1 DEF Ow!Edits, Ow!RowsInv
  <2>3. /\ to \in {Nothing} \cup SUBSET Members
        /\ to # Nothing => \A x \in to : <<x, request[q].of>> \in wereAdmins'
    BY <2>1, <2>2 DEF Ow!KnownRow, Ow!OwnerRow
  <2> HIDE DEF to
  <2>4. QED
    BY <1>11, <2>1, <2>3
<1>14. ASSUME NEW q \in Tasks, NEW admins \in {Nothing} \cup SUBSET Members, Ow!EnterAdmins(q, admins)
       PROVE  Ow!RowsInv'
  <2> DEFINE o == request[q].who
             own == request[q].own
             new == [row[o] EXCEPT !.admins = admins, !.onboarded = own.onboarded]
  <2>1. /\ request[q].pc = "begun" /\ request[q] \in Ow!Request /\ o \in Members
        /\ Ow!KnownRow(o, own) /\ Ow!Done(q) /\ Ow!SaveRow(o, own, new)
        /\ wereAdmins' = wereAdmins \cup IF admins = Nothing THEN {} ELSE {<<p, o>> : p \in admins}
        /\ UNCHANGED <<cut, issued, expired, providerAdmins, organizations, Ow!profiles>>
    BY <1>0, <1>14 DEF Ow!EnterAdmins, Ow!RowsInv, Ow!Request
  <2>2. wereAdmins \subseteq wereAdmins' /\ wereAdmins' \subseteq Members \X Members
        /\ (admins # Nothing => \A p \in admins : <<p, o>> \in wereAdmins')
    BY <1>0, <2>1 DEF Ow!RowsTypeOK
  <2>3. Ow!KnownRow(o, row[o]) /\ row[o] \in Ow!OwnerRow
    BY <1>0, <2>1 DEF Ow!KnownRow
  <2>4. AsKnown(o, new) /\ (row[o] = own => new.token = own.token /\ new.onboarded = own.onboarded)
    BY <2>1, <2>2, <2>3 DEF AsKnown, Ow!KnownRow, Ow!OwnerRow
  <2> HIDE DEF new
  <2>5. QED
    BY <2>1, <2>2, <2>4, SavedAndDone
<1>15. ASSUME NEW q \in Tasks, Ow!EndEarly(q) PROVE Ow!RowsInv'
  BY <1>15 DEF Ow!EndEarly, Ow!RowsInv, Ow!RowsTypeOK, Ow!KnownRow, Ow!Right, Ow!Answering,
     Ow!Between, Ow!Request, Ow!Idle, Ow!Done, Ow!provider, Ow!profiles
<1>16. QED
  BY <1>1, <1>2, <1>3, <1>4, <1>5, <1>6, <1>7, <1>8, <1>9, <1>10, <1>12, <1>13, <1>14, <1>15
     DEF Ow!RowsNext

LEMMA RowsSafe ==
    ASSUME Ow!RowsInv
    PROVE  Ow!RowsTypeOK /\ Ow!TokenWorks /\ Ow!OnboardedOnce /\ Ow!AdminsWereAdmins
  BY DEF Ow!RowsInv, Ow!Right, Ow!KnownRow, Ow!TokenWorks, Ow!OnboardedOnce,
     Ow!AdminsWereAdmins

LEMMA RowsStart ==
    ASSUME Ow!RowsInit
    PROVE  Ow!RowsInv
<1>1. 1 \in 1..MaxToken
  BY Assumptions DEF Ow!TokenAssumption
<1>2. row \in [Members -> Ow!OwnerRow]
  BY <1>1 DEF Ow!RowsInit, Ow!OwnerRow
<1>3. \A o \in Members : row[o].token = 1 /\ ~row[o].onboarded /\ row[o].admins \in {Nothing, {}}
  BY DEF Ow!RowsInit
<1>4. QED
  BY <1>1, <1>2, <1>3, Assumptions DEF Ow!RowsInit, Ow!RowsInv, Ow!RowsTypeOK, Ow!KnownRow,
     Ow!Right, Ow!Answering, Ow!Between, Ow!Idle, Ow!TokenAssumption

LEMMA RowsStay ==
    ASSUME Ow!RowsInv, UNCHANGED Ow!rowVars
    PROVE  Ow!RowsInv'
  BY DEF Ow!RowsInv, Ow!RowsTypeOK, Ow!KnownRow, Ow!Right, Ow!Answering, Ow!Between,
     Ow!rowVars

-----------------------------------------------------------------------------
(* Proofs: refreshes *)

chain == v1
key == v2
caller == v3
crossed == v4

USE DEF chain, key, caller, crossed

LEMMA ChainFacts ==
    ASSUME Rf!RefreshTypeOK
    PROVE  /\ 0 \notin Rf!Chains /\ 0 \in 0..MaxChains /\ Rf!Chains \subseteq 0..MaxChains
           /\ \A n \in 0..MaxChains : n # 0 => n \in Rf!Chains
           /\ Rf!Running \subseteq Rf!Chains /\ chain \in [Rf!Chains -> Rf!Chain]
           /\ key \in 0..MaxChains /\ \A c \in Callers : caller[c].seen \in 0..MaxChains
  BY Assumptions DEF Rf!ChainsAssumption, Rf!Chains, Rf!Running, Rf!RefreshTypeOK

\* The sets counted there are those counted here.
LEMMA RefreshSets ==
    ASSUME NEW S
    PROVE  (Rf!IsFiniteSet(S) <=> IsFiniteSet(S)) /\ Rf!Cardinality(S) = Cardinality(S)
  BY DEF Rf!IsFiniteSet, IsFiniteSet, Rf!Cardinality, Cardinality

LEMMA OneMore ==
    ASSUME NEW S, NEW T, NEW x, IsFiniteSet(S), T \subseteq S \cup {x}
    PROVE  /\ IsFiniteSet(T) /\ Cardinality(S) \in Nat /\ Cardinality(T) \in Nat
           /\ Cardinality(T) <= Cardinality(S) + 1
<1>1. /\ IsFiniteSet(S \cup {x})
      /\ Cardinality(S \cup {x}) = IF x \in S THEN Cardinality(S) ELSE Cardinality(S) + 1
  BY FS_AddElement
<1>2. IsFiniteSet(T) /\ Cardinality(T) <= Cardinality(S \cup {x})
  BY <1>1, FS_Subset
<1>3. Cardinality(S) \in Nat /\ Cardinality(T) \in Nat
  BY <1>2, FS_CardinalityType
<1>4. QED
  BY <1>1, <1>2, <1>3

LEMMA OneLess ==
    ASSUME NEW S, NEW T, NEW x \in S, IsFiniteSet(S), T \subseteq S \ {x}
    PROVE  /\ IsFiniteSet(T) /\ Cardinality(S) \in Nat /\ Cardinality(T) \in Nat
           /\ Cardinality(T) <= Cardinality(S) - 1
<1>1. IsFiniteSet(S \ {x}) /\ Cardinality(S \ {x}) = Cardinality(S) - 1
  BY FS_RemoveElement
<1>2. IsFiniteSet(T) /\ Cardinality(T) <= Cardinality(S \ {x})
  BY <1>1, FS_Subset
<1>3. Cardinality(S) \in Nat /\ Cardinality(T) \in Nat
  BY <1>2, FS_CardinalityType
<1>4. QED
  BY <1>1, <1>2, <1>3

LEMMA NoMore ==
    ASSUME NEW S, NEW T, IsFiniteSet(S), T \subseteq S
    PROVE  /\ IsFiniteSet(T) /\ Cardinality(S) \in Nat /\ Cardinality(T) \in Nat
           /\ Cardinality(T) <= Cardinality(S)
  BY FS_Subset, FS_CardinalityType

\* What FewChains counts
Unasked == Rf!Unasked
Busy == Rf!Busy
Vacant == Rf!Vacant

LEMMA ChainsCounted ==
    ASSUME Rf!RefreshInv
    PROVE  /\ IsFiniteSet(Unasked) /\ IsFiniteSet(Busy) /\ Busy \subseteq Callers
           /\ Cardinality(Unasked) \in Nat /\ Cardinality(Busy) \in Nat /\ crossed \in Nat
           /\ Cardinality(Unasked) + Cardinality(Busy) + (IF Vacant THEN 1 ELSE 0) <= 1 + crossed
<1>1. IsFiniteSet(Callers) /\ MaxChains \in Nat
  BY Assumptions, RefreshSets DEF Rf!ChainsAssumption
<1>2. IsFiniteSet(Rf!Chains)
  BY <1>1, FS_Interval DEF Rf!Chains
<1>3. Unasked \subseteq Rf!Chains /\ Busy \subseteq Callers
  BY DEF Unasked, Busy, Rf!Unasked, Rf!Busy, Rf!Running
<1>4. /\ IsFiniteSet(Unasked) /\ IsFiniteSet(Busy)
      /\ Cardinality(Unasked) \in Nat /\ Cardinality(Busy) \in Nat
  BY <1>1, <1>2, <1>3, NoMore
<1>5. Cardinality(Unasked) + Cardinality(Busy) + (IF Vacant THEN 1 ELSE 0) <= 1 + crossed
  BY RefreshSets DEF Rf!RefreshInv, Rf!FewChains, Unasked, Busy, Vacant
<1>6. QED
  BY <1>3, <1>4, <1>5 DEF Rf!RefreshInv, Rf!RefreshTypeOK

\* A step that changes what FewChains counts in one of four ways keeps it.
LEMMA FewStay ==
    ASSUME Rf!RefreshInv, NEW x, NEW y,
           \/ /\ Unasked' \subseteq Unasked /\ Busy' \subseteq Busy
              /\ (Vacant' => Vacant) /\ crossed' = crossed
           \/ /\ Unasked' \subseteq Unasked /\ Busy' \subseteq Busy \cup {y}
              /\ (Vacant' => Vacant) /\ crossed' = crossed + 1
           \/ /\ Unasked' \subseteq Unasked /\ Busy' \subseteq Busy
              /\ crossed' = crossed + 1
           \/ /\ Unasked' \subseteq Unasked /\ Busy' \subseteq Busy \cup {y}
              /\ Vacant /\ ~Vacant' /\ crossed' = crossed
           \/ /\ x \in Unasked /\ Unasked' \subseteq Unasked \ {x} /\ Busy' \subseteq Busy \cup {y}
              /\ ~Vacant' /\ crossed' = crossed
           \/ /\ x \in Unasked /\ Unasked' \subseteq Unasked \ {x} /\ Busy' \subseteq Busy
              /\ crossed' = crossed
           \/ /\ Unasked' \subseteq Unasked \cup {x} /\ y \in Busy /\ Busy' \subseteq Busy \ {y}
              /\ (Vacant' => Vacant) /\ crossed' = crossed
           \/ /\ Unasked' \subseteq Unasked /\ y \in Busy /\ Busy' \subseteq Busy \ {y}
              /\ crossed' = crossed
    PROVE  Rf!FewChains'
<1> DEFINE N == Cardinality(Unasked)  D == Cardinality(Busy)
           M == Cardinality(Unasked')  E == Cardinality(Busy')
<1>0. /\ IsFiniteSet(Unasked) /\ IsFiniteSet(Busy) /\ N \in Nat /\ D \in Nat /\ crossed \in Nat
      /\ N + D + (IF Vacant THEN 1 ELSE 0) <= 1 + crossed
  BY ChainsCounted
<1>1. Unasked' \subseteq Unasked => M \in Nat /\ M <= N
  BY <1>0, NoMore
<1>2. Busy' \subseteq Busy => E \in Nat /\ E <= D
  BY <1>0, NoMore
<1>3. Unasked' \subseteq Unasked \cup {x} => M \in Nat /\ M <= N + 1
  BY <1>0, OneMore
<1>4. Busy' \subseteq Busy \cup {y} => E \in Nat /\ E <= D + 1
  BY <1>0, OneMore
<1>5. x \in Unasked /\ Unasked' \subseteq Unasked \ {x} => M \in Nat /\ M <= N - 1
  BY <1>0, OneLess
<1>6. y \in Busy /\ Busy' \subseteq Busy \ {y} => E \in Nat /\ E <= D - 1
  BY <1>0, OneLess
<1> HIDE DEF N, D, M, E
<1> DEFINE fewer == Unasked' \subseteq Unasked
           more == Unasked' \subseteq Unasked \cup {x}
           less == x \in Unasked /\ Unasked' \subseteq Unasked \ {x}
           FEWER == Busy' \subseteq Busy
           MORE == Busy' \subseteq Busy \cup {y}
           LESS == y \in Busy /\ Busy' \subseteq Busy \ {y}
<1>7. /\ M \in Nat /\ E \in Nat
      /\ \/ M <= N /\ E <= D /\ (Vacant' => Vacant) /\ crossed' = crossed
         \/ M <= N /\ E <= D + 1 /\ (Vacant' => Vacant) /\ crossed' = crossed + 1
         \/ M <= N /\ E <= D /\ crossed' = crossed + 1
         \/ M <= N /\ E <= D + 1 /\ Vacant /\ ~Vacant' /\ crossed' = crossed
         \/ M <= N - 1 /\ E <= D + 1 /\ ~Vacant' /\ crossed' = crossed
         \/ M <= N - 1 /\ E <= D /\ crossed' = crossed
         \/ M <= N + 1 /\ E <= D - 1 /\ (Vacant' => Vacant) /\ crossed' = crossed
         \/ M <= N /\ E <= D - 1 /\ crossed' = crossed
  <2>1. /\ fewer => M \in Nat /\ M <= N
        /\ FEWER => E \in Nat /\ E <= D
        /\ more => M \in Nat /\ M <= N + 1
        /\ MORE => E \in Nat /\ E <= D + 1
        /\ less => M \in Nat /\ M <= N - 1
        /\ LESS => E \in Nat /\ E <= D - 1
    BY <1>1, <1>2, <1>3, <1>4, <1>5, <1>6, Zenon
  <2>2. \/ fewer /\ FEWER /\ (Vacant' => Vacant) /\ crossed' = crossed
        \/ fewer /\ MORE /\ (Vacant' => Vacant) /\ crossed' = crossed + 1
        \/ fewer /\ FEWER /\ crossed' = crossed + 1
        \/ fewer /\ MORE /\ Vacant /\ ~Vacant' /\ crossed' = crossed
        \/ less /\ MORE /\ ~Vacant' /\ crossed' = crossed
        \/ less /\ FEWER /\ crossed' = crossed
        \/ more /\ LESS /\ (Vacant' => Vacant) /\ crossed' = crossed
        \/ fewer /\ LESS /\ crossed' = crossed
    BY Zenon
  <2> HIDE DEF fewer, more, less, FEWER, MORE, LESS
  <2>3. QED
    BY <2>1, <2>2
<1>8. M + E + (IF Vacant' THEN 1 ELSE 0) <= 1 + crossed'
  <2> DEFINE v == IF Vacant THEN 1 ELSE 0  w == IF Vacant' THEN 1 ELSE 0
  <2>1. v \in {0, 1} /\ w \in {0, 1} /\ (Vacant <=> v = 1) /\ (Vacant' <=> w = 1)
    OBVIOUS
  <2>2. N + D + v <= 1 + crossed
    BY <1>0
  <2> HIDE DEF v, w
  <2>3. M + E + w <= 1 + crossed'
    BY <1>0, <1>7, <2>1, <2>2
  <2>4. QED
    BY <2>3 DEF w
<1>9. QED
  BY <1>8, RefreshSets DEF Rf!FewChains, Unasked, Busy, Vacant, M, E

\* A step of one caller, which forgets nothing of the chains
LEMMA CallerSteps ==
    ASSUME Rf!RefreshInv, NEW c \in Callers, NEW j, caller' = [caller EXCEPT ![c] = j],
           j \in [step : {"idle", "ask", "forget", "start", "store"}, seen : 0..MaxChains],
           chain' \in [Rf!Chains -> Rf!Chain], key' \in 0..MaxChains, crossed' \in Nat,
           \A n \in Rf!Chains : chain[n] # "none" => chain'[n] = chain[n],
           j.step = "store" => chain[j.seen] = "none", j.step = "ask" => j.seen = key,
           key' \in {0, key} \/ (caller[c].step = "store" /\ key' = caller[c].seen),
           key' # 0 => chain'[key'] # "none", Rf!Known(j)', Rf!FewChains'
    PROVE  Rf!RefreshInv'
<1>1. Rf!RefreshTypeOK'
  BY DEF Rf!RefreshInv, Rf!RefreshTypeOK
<1>2. caller'[c] = j /\ \A d \in Callers \ {c} : caller'[d] = caller[d]
  BY DEF Rf!RefreshInv, Rf!RefreshTypeOK
<1>3. ASSUME NEW d \in Callers PROVE Rf!Known(caller[d])'
  <2>1. CASE d = c
    BY <1>2, <2>1
  <2>2. CASE d # c
    BY <2>2, ChainFacts DEF Rf!RefreshInv, Rf!RefreshTypeOK, Rf!Known, Rf!Finished
  <2>3. QED
    BY <2>1, <2>2
<1>4. ASSUME NEW d \in Callers, caller'[d].step = "store" PROVE Rf!Unheard(d)'
  <2>1. \A f \in Callers : caller[f].step \in {"ask", "store"} =>
           chain[caller[f].seen] # "none" /\ caller[f].seen # 0
    BY DEF Rf!RefreshInv, Rf!Known
  <2>2. key # 0 => chain[key] # "none"
    BY DEF Rf!RefreshInv
  <2>3. CASE d = c
    BY <1>2, <1>4, <2>3, <2>1, <2>2 DEF Rf!Known, Rf!Unheard
  <2>4. CASE d # c
    BY <1>2, <1>4, <2>4, <2>1 DEF Rf!RefreshInv, Rf!Unheard
  <2>5. QED
    BY <2>3, <2>4
<1>5. QED
  BY <1>1, <1>3, <1>4 DEF Rf!RefreshInv

LEMMA RefreshStep ==
    ASSUME Rf!RefreshInv, Rf!RefreshNext
    PROVE  Rf!RefreshInv'
<1>0. /\ Rf!RefreshTypeOK /\ crossed \in Nat
      /\ \A c \in Callers : Rf!Known(caller[c]) /\ caller[c].seen \in 0..MaxChains
  BY DEF Rf!RefreshInv, Rf!RefreshTypeOK
<1>1. ASSUME NEW c \in Callers, Rf!AskRefresh(c) PROVE Rf!RefreshInv'
  <2>0. PICK j : j = IF key = 0 THEN [step |-> "start", seen |-> 0]
                     ELSE [step |-> "ask", seen |-> key]
    OBVIOUS
  <2>1. /\ caller[c] = Rf!Idle /\ caller' = [caller EXCEPT ![c] = j]
        /\ UNCHANGED <<chain, key>>
        /\ crossed' = IF \E d \in Callers : caller[d] # Rf!Idle THEN crossed + 1 ELSE crossed
    BY <1>1, <2>0 DEF Rf!AskRefresh
  <2>2. /\ j \in [step : {"idle", "ask", "forget", "start", "store"}, seen : 0..MaxChains]
        /\ j.step \in {"start", "ask"} /\ (j.step = "ask" => j.seen = key)
        /\ (j.step = "start" => key = 0)
    BY <1>0, <2>0, ChainFacts
  <2>3. Rf!Known(j)'
    BY <2>0, <2>1 DEF Rf!RefreshInv, Rf!Known
  <2>4. caller'[c] = j /\ \A d \in Callers \ {c} : caller'[d] = caller[d]
    BY <1>0, <2>1 DEF Rf!RefreshTypeOK
  <2>5. Rf!Running' = Rf!Running
    BY <2>1 DEF Rf!Running
  <2>6. caller[c].step = "idle"
    BY <2>1 DEF Rf!Idle
  <2>7. Unasked' \subseteq Unasked
    BY <2>4, <2>5, <2>6 DEF Unasked, Rf!Unasked
  <2>8. Busy' \subseteq Busy \cup {c}
    BY <2>4, <2>5 DEF Busy, Rf!Busy
  <2>9. Vacant' => Vacant
    BY <2>1, <2>2, <2>4, <2>5, <2>6 DEF Vacant, Rf!Vacant
  <2>10. Rf!FewChains'
    <3>1. CASE \E d \in Callers : caller[d] # Rf!Idle
      <4>1. crossed' = crossed + 1
        BY <2>1, <3>1
      <4>2. QED
        BY <2>7, <2>8, <2>9, <4>1, FewStay
    <3>2. CASE \A d \in Callers : caller[d] = Rf!Idle
      <4>1. crossed' = crossed /\ \A d \in Callers : caller[d].step = "idle"
        BY <2>1, <3>2 DEF Rf!Idle
      <4>2. CASE key \in Rf!Running
        BY <1>0, <2>2, <4>2, ChainFacts, <4>1, <2>4, <2>7, <2>1, <2>5, <2>8, FewStay
          DEF Unasked, Rf!Unasked, Vacant, Rf!Vacant
      <4>3. CASE key \notin Rf!Running
        BY <4>1, <4>3, <2>2, <2>4, <2>5, <2>7, <2>8, FewStay DEF Vacant, Rf!Vacant
      <4>4. QED
        BY <4>2, <4>3
    <3>3. QED
      BY <3>1, <3>2
  <2>11. key' # 0 => chain'[key'] # "none"
    BY <2>1 DEF Rf!RefreshInv
  <2>12. /\ chain' \in [Rf!Chains -> Rf!Chain] /\ key' \in 0..MaxChains /\ key' \in {0, key}
         /\ crossed' \in Nat /\ j.step # "store"
    BY <1>0, <2>1, <2>2, ChainFacts
  <2>13. /\ caller' = [caller EXCEPT ![c] = j]
         /\ \A n \in Rf!Chains : chain[n] # "none" => chain'[n] = chain[n]
         /\ j \in [step : {"idle", "ask", "forget", "start", "store"}, seen : 0..MaxChains]
         /\ j.step = "ask" => j.seen = key
    BY <2>1, <2>2
  <2>14. QED
    BY <2>3, <2>10, <2>11, <2>12, <2>13, CallerSteps
<1>2. ASSUME NEW c \in Callers, Rf!AskResult(c) PROVE Rf!RefreshInv'
  <2>0. caller[c].step = "ask" /\ UNCHANGED <<chain, key, crossed>>
    BY <1>2 DEF Rf!AskResult
  <2>1. PICK j \in [step : {"idle", "ask", "forget", "start", "store"}, seen : 0..MaxChains] :
           /\ caller' = [caller EXCEPT ![c] = j]
           /\ \/ Rf!Finished(caller[c].seen) /\ j.step = "forget" /\ j.seen = caller[c].seen
              \/ ~Rf!Finished(caller[c].seen) /\ j = Rf!Idle
    <3>1. CASE Rf!Finished(caller[c].seen)
      <4> DEFINE k == [caller[c] EXCEPT !.step = "forget"]
      <4>1. caller' = [caller EXCEPT ![c] = k]
        BY <1>2, <3>1 DEF Rf!AskResult
      <4>2. /\ k \in [step : {"idle", "ask", "forget", "start", "store"}, seen : 0..MaxChains]
            /\ k.step = "forget" /\ k.seen = caller[c].seen
        BY <1>0 DEF Rf!RefreshTypeOK
      <4>3. QED
        BY <3>1, <4>1, <4>2
    <3>2. CASE ~Rf!Finished(caller[c].seen)
      BY <1>0, <1>2, <3>2, ChainFacts DEF Rf!AskResult, Rf!Idle
    <3>3. QED
      BY <3>1, <3>2
  <2>2. caller'[c] = j /\ \A d \in Callers \ {c} : caller'[d] = caller[d]
    BY <1>0, <2>1 DEF Rf!RefreshTypeOK
  <2>3. Rf!Running' = Rf!Running
    BY <2>0 DEF Rf!Running
  <2>4. caller[c].seen \in Rf!Chains /\ chain[caller[c].seen] # "none"
    BY <1>0, <2>0, ChainFacts DEF Rf!Known
  <2>5. c \in Busy
    BY <2>0 DEF Busy, Rf!Busy
  <2>6. Rf!FewChains'
    <3>1. CASE Rf!Finished(caller[c].seen)
      <4>1. j.step = "forget" /\ caller[c].seen \notin Rf!Running
        BY <2>1, <3>1 DEF Rf!Running, Rf!Finished
      <4>2. Unasked' \subseteq Unasked
        BY <2>0, <2>2, <2>3, <4>1 DEF Unasked, Rf!Unasked
      <4>3. Busy' \subseteq Busy
        BY <2>2, <2>3, <2>5 DEF Busy, Rf!Busy
      <4>4. ~Vacant'
        BY <2>2, <4>1 DEF Vacant, Rf!Vacant
      <4>5. QED
        BY <2>0, <4>2, <4>3, <4>4, FewStay
    <3>2. CASE ~Rf!Finished(caller[c].seen)
      <4>1. j.step = "idle" /\ caller[c].seen \in Rf!Running
        <5>1. chain[caller[c].seen] \in Rf!Chain
          BY <1>0, <2>4, ChainFacts
        <5>2. j.step = "idle"
          BY <2>1, <3>2 DEF Rf!Idle
        <5>3. QED
          BY <2>4, <3>2, <5>1, <5>2 DEF Rf!Running, Rf!Finished, Rf!Chain
      <4>2. Unasked' \subseteq Unasked \cup {caller[c].seen}
        BY <2>0, <2>2, <2>3 DEF Unasked, Rf!Unasked
      <4>3. Busy' \subseteq Busy \ {c}
        BY <2>2, <2>3, <4>1 DEF Busy, Rf!Busy
      <4>4. Vacant' => Vacant
        BY <2>0, <2>2, <2>3, <4>1 DEF Vacant, Rf!Vacant
      <4>5. QED
        BY <2>0, <2>5, <4>2, <4>3, <4>4, FewStay
    <3>3. QED
      BY <3>1, <3>2
  <2>7. Rf!Known(j)'
    <3>1. CASE j = Rf!Idle
      BY <3>1 DEF Rf!Known, Rf!Idle
    <3>2. CASE j.step = "forget" /\ j.seen = caller[c].seen /\ Rf!Finished(caller[c].seen)
      BY <1>0, <2>0, <3>2 DEF Rf!Known, Rf!Finished
    <3>3. QED
      BY <2>1, <3>1, <3>2
  <2>8. j.step # "store"
    BY <2>1 DEF Rf!Idle
  <2>9. j.step # "ask"
    BY <2>1 DEF Rf!Idle
  <2>10. key' # 0 => chain'[key'] # "none"
    BY <2>0 DEF Rf!RefreshInv
  <2>11. /\ chain' \in [Rf!Chains -> Rf!Chain] /\ key' \in 0..MaxChains /\ key' \in {0, key}
         /\ crossed' \in Nat
    BY <1>0, <2>0, ChainFacts
  <2>12. QED
    BY <2>0, <2>1, <2>6, <2>7, <2>8, <2>9, <2>10, <2>11, CallerSteps
<1>3. ASSUME NEW c \in Callers, Rf!ForgetKey(c) PROVE Rf!RefreshInv'
  <2> DEFINE j == [step |-> "start", seen |-> 0]
  <2>1. /\ caller[c].step = "forget" /\ caller' = [caller EXCEPT ![c] = j]
        /\ key' = 0 /\ UNCHANGED <<chain, crossed>>
    BY <1>3 DEF Rf!ForgetKey
  <2>2. /\ j \in [step : {"idle", "ask", "forget", "start", "store"}, seen : 0..MaxChains]
        /\ j.step = "start"
    BY <1>0, ChainFacts
  <2>3. Rf!Known(j)'
    BY DEF Rf!Known
  <2> HIDE DEF j
  <2>4. caller'[c] = j /\ \A d \in Callers \ {c} : caller'[d] = caller[d]
    BY <1>0, <2>1 DEF Rf!RefreshTypeOK
  <2>5. Rf!Running' = Rf!Running
    BY <2>1 DEF Rf!Running
  <2>6. Rf!FewChains'
    BY <2>1, <2>4, <2>5, <2>2, FewStay DEF Unasked, Rf!Unasked, Busy, Rf!Busy, Vacant, Rf!Vacant
  <2>7. QED
    BY <1>0, <2>1, <2>2, <2>3, <2>6, ChainFacts, CallerSteps
<1>4. ASSUME NEW c \in Callers, Rf!StartRefresh(c) PROVE Rf!RefreshInv'
  <2>1. PICK n \in Rf!Chains :
        /\ caller[c].step = "start" /\ chain[n] = "none"
        /\ caller' = [caller EXCEPT ![c] = [step |-> "store", seen |-> n]]
        /\ chain' = [chain EXCEPT ![n] = "teams"] /\ UNCHANGED <<key, crossed>>
    BY <1>4 DEF Rf!StartRefresh
  <2> DEFINE j == [step |-> "store", seen |-> n]
  <2>2. /\ j \in [step : {"idle", "ask", "forget", "start", "store"}, seen : 0..MaxChains]
        /\ j.step = "store" /\ j.seen = n /\ n # 0
        /\ caller' = [caller EXCEPT ![c] = j]
    BY <1>0, <2>1, ChainFacts
  <2> HIDE DEF j
  <2>3. /\ chain' \in [Rf!Chains -> Rf!Chain] /\ chain'[n] = "teams"
        /\ \A m \in Rf!Chains : m # n => chain'[m] = chain[m]
    BY <1>0, <2>1, ChainFacts DEF Rf!Chain
  <2>4. caller'[c] = j /\ \A d \in Callers \ {c} : caller'[d] = caller[d]
    BY <1>0, <2>2 DEF Rf!RefreshTypeOK
  <2>5. Rf!Running' = Rf!Running \cup {n}
    BY <1>0, <2>3 DEF Rf!Running
  <2>6. Rf!FewChains'
    BY <2>1, <2>4, <2>5, <2>2, FewStay DEF Unasked, Rf!Unasked, Busy, Rf!Busy, Vacant, Rf!Vacant
  <2>7. Rf!Known(j)'
    BY <2>2, <2>3 DEF Rf!Known
  <2>8. key # 0 => chain'[key] # "none"
    BY <1>0, <2>3, ChainFacts DEF Rf!RefreshInv
  <2>9. QED
    BY <1>0, <2>1, <2>2, <2>3, <2>6, <2>7, <2>8, ChainFacts, CallerSteps
<1>5. ASSUME NEW c \in Callers, Rf!StoreKey(c) PROVE Rf!RefreshInv'
  <2>1. /\ caller[c].step = "store" /\ caller' = [caller EXCEPT ![c] = Rf!Idle]
        /\ key' = caller[c].seen /\ UNCHANGED <<chain, crossed>>
    BY <1>5 DEF Rf!StoreKey
  <2>2. /\ Rf!Idle \in [step : {"idle", "ask", "forget", "start", "store"}, seen : 0..MaxChains]
        /\ Rf!Idle.step = "idle"
    BY <1>0, ChainFacts DEF Rf!Idle
  <2>3. Rf!Known(Rf!Idle)'
    BY DEF Rf!Known, Rf!Idle
  <2>4. caller'[c] = Rf!Idle /\ \A d \in Callers \ {c} : caller'[d] = caller[d]
    BY <1>0, <2>1 DEF Rf!RefreshTypeOK
  <2>5. Rf!Running' = Rf!Running
    BY <2>1 DEF Rf!Running
  <2>6. Rf!FewChains'
    <3>1. Unasked' \subseteq Unasked
      BY <2>1, <2>4, <2>5 DEF Unasked, Rf!Unasked
    <3>2. Busy' \subseteq Busy \ {c}
      BY <2>2, <2>4, <2>5 DEF Busy, Rf!Busy
    <3>3. CASE caller[c].seen \in Rf!Running
      <4>1. ~Vacant'
        BY <2>1, <2>5, <3>3 DEF Vacant, Rf!Vacant
      <4>2. QED
        BY <2>1, <3>1, <3>2, <4>1, FewStay
    <3>4. CASE caller[c].seen \notin Rf!Running
      <4>1. c \in Busy
        BY <2>1, <3>4 DEF Busy, Rf!Busy
      <4>2. QED
        BY <2>1, <3>1, <3>2, <4>1, FewStay
    <3>5. QED
      BY <3>3, <3>4
  <2>7. key' # 0 => chain'[key'] # "none"
    BY <1>0, <2>1 DEF Rf!Known
  <2>8. QED
    BY <1>0, <2>1, <2>2, <2>3, <2>6, <2>7, ChainFacts, CallerSteps
<1>6. ASSUME Rf!LapseKey PROVE Rf!RefreshInv'
  <2>1. key' = 0 /\ crossed' = crossed + 1 /\ UNCHANGED <<chain, caller>>
    BY <1>6 DEF Rf!LapseKey
  <2>2. Unasked' = Unasked /\ Busy' = Busy
    BY <2>1 DEF Unasked, Busy, Rf!Unasked, Rf!Busy, Rf!Running
  <2>3. Rf!FewChains'
    BY <2>1, <2>2, FewStay
  <2>4. ASSUME NEW c \in Callers, caller[c].step = "store" PROVE Rf!Unheard(c)'
    <3>1. Rf!Unheard(c) /\ caller[c].seen # 0
      BY <2>4 DEF Rf!RefreshInv, Rf!Known
    <3>2. QED
      BY <2>1, <3>1 DEF Rf!Unheard
  <2>5. Rf!RefreshTypeOK' /\ \A c \in Callers : Rf!Known(caller[c])'
    <3>1. 0 \in 0..MaxChains /\ crossed' \in Nat
      BY <1>0, <2>1, ChainFacts
    <3>2. QED
      BY <1>0, <2>1, <3>1 DEF Rf!RefreshTypeOK, Rf!Known, Rf!Finished
  <2>6. QED
    BY <2>1, <2>3, <2>4, <2>5 DEF Rf!RefreshInv
<1>7. ASSUME NEW n \in Rf!Chains, Rf!Work(n) PROVE Rf!RefreshInv'
  <2>1. PICK s \in {"teams failed", "repos", "repos failed", "synced"} :
          /\ chain' = [chain EXCEPT ![n] = s]
          /\ chain[n] \in {"teams", "repos"} /\ UNCHANGED <<key, caller, crossed>>
    BY <1>7 DEF Rf!Work
  <2>2. /\ chain' \in [Rf!Chains -> Rf!Chain] /\ chain'[n] = s
        /\ \A m \in Rf!Chains : m # n => chain'[m] = chain[m]
    BY <1>0, <2>1, ChainFacts DEF Rf!Chain
  <2>3. Rf!RefreshTypeOK'
    BY <1>0, <2>1, <2>2 DEF Rf!RefreshTypeOK
  <2>4. n \in Rf!Running /\ Rf!Running' \in {Rf!Running, Rf!Running \ {n}}
    BY <2>1, <2>2 DEF Rf!Running
  <2>5. \A m \in Rf!Chains : /\ chain[m] # "none" => chain'[m] # "none"
                             /\ Rf!Finished(m) => Rf!Finished(m)'
    BY <2>1, <2>2 DEF Rf!Finished
  <2>6. ASSUME NEW c \in Callers PROVE Rf!Known(caller[c])'
    BY <1>0, ChainFacts, <2>1, <2>5 DEF Rf!Known
  <2>7. key # 0 => chain'[key] # "none"
    BY <1>0, <2>5, ChainFacts DEF Rf!RefreshInv
  <2>8. Rf!FewChains'
    <3>0. Unasked' \subseteq Unasked
      BY <2>1, <2>4 DEF Unasked, Rf!Unasked
    <3>1. CASE Rf!Running' = Rf!Running
      <4>1. Busy' \subseteq Busy /\ Vacant' = Vacant
        BY <2>1, <3>1 DEF Busy, Rf!Busy, Vacant, Rf!Vacant
      <4>2. QED
        BY <2>1, <3>0, <4>1, FewStay
    <3>2. CASE /\ Rf!Running' = Rf!Running \ {n}
               /\ \E c \in Callers : caller[c].step = "ask" /\ caller[c].seen = n
      BY <2>1, <3>2, <3>0, FewStay DEF Vacant, Rf!Vacant, Rf!RefreshInv, Rf!Unheard, Busy,
         Rf!Busy
    <3>3. CASE /\ Rf!Running' = Rf!Running \ {n}
               /\ \A c \in Callers : caller[c].step = "ask" => caller[c].seen # n
      <4>1. n \in Unasked /\ Unasked' \subseteq Unasked \ {n}
        BY <2>1, <2>4, <3>3 DEF Unasked, Rf!Unasked
      <4>2. CASE \E c \in Callers : caller[c].step = "store" /\ caller[c].seen = n
        <5>1. PICK c \in Callers : caller[c].step = "store" /\ caller[c].seen = n
          BY <4>2
        <5>2. \A d \in Callers \ {c} : caller[d].step = "store" => caller[d].seen # n
          BY <5>1 DEF Rf!RefreshInv, Rf!Unheard
        <5>3. Busy' \subseteq Busy \cup {c}
          BY <2>1, <3>3, <5>2 DEF Busy, Rf!Busy
        <5>4. ~Vacant'
          BY <2>1, <5>1 DEF Vacant, Rf!Vacant
        <5>5. QED
          BY <2>1, <4>1, <5>3, <5>4, FewStay
      <4>3. CASE \A c \in Callers : caller[c].step = "store" => caller[c].seen # n
        <5>1. Busy' \subseteq Busy
          BY <2>1, <3>3, <4>3 DEF Busy, Rf!Busy
        <5>2. QED
          BY <2>1, <4>1, <5>1, FewStay
      <4>4. QED
        BY <4>2, <4>3
    <3>4. QED
      BY <2>4, <3>1, <3>2, <3>3
  <2>9. QED
    BY <2>1, <2>3, <2>6, <2>7, <2>8 DEF Rf!RefreshInv, Rf!Unheard
<1>8. QED
  BY <1>1, <1>2, <1>3, <1>4, <1>5, <1>6, <1>7 DEF Rf!RefreshNext

LEMMA RefreshSafe ==
    ASSUME Rf!RefreshInv
    PROVE  Rf!RefreshTypeOK /\ Rf!StoppedMeansReady /\ Rf!OneRefreshAtATime
<1>0. Rf!RefreshTypeOK
  BY DEF Rf!RefreshInv
<1>1. key # 0 => key \in Rf!Chains
  BY <1>0, ChainFacts
<1>2. Rf!StoppedMeansReady
  BY <1>1 DEF Rf!RefreshInv, Rf!RefreshTypeOK, Rf!StoppedMeansReady, Rf!Running, Rf!Finished,
     Rf!Chain
<1>3. Cardinality(Rf!Running) <= 1 + crossed
  <2> DEFINE Asked == Rf!Running \ Unasked
             Seers == {c \in Callers : caller[c].step = "ask" /\ caller[c].seen \in Asked}
             f == [c \in Seers |-> caller[c].seen]
  <2>1. f \in Surjection(Seers, Asked)
    <3>1. \A n \in Asked : \E c \in Callers : caller[c].step = "ask" /\ caller[c].seen = n
      BY DEF Unasked, Rf!Unasked
    <3>2. \A n \in Asked : \E c \in Seers : f[c] = n
      BY <3>1
    <3>3. f \in [Seers -> Asked]
      OBVIOUS
    <3> HIDE DEF f, Asked, Seers
    <3>4. QED
      BY <3>2, <3>3 DEF Surjection
  <2>2. Seers \subseteq Busy
    BY DEF Busy, Rf!Busy
  <2>3. Rf!Running \subseteq Unasked \cup Asked /\ Unasked \cap Asked = {}
    OBVIOUS
  <2> HIDE DEF f, Asked, Seers
  <2>4. /\ IsFiniteSet(Unasked) /\ IsFiniteSet(Busy) /\ crossed \in Nat
        /\ Cardinality(Unasked) \in Nat /\ Cardinality(Busy) \in Nat
        /\ Cardinality(Unasked) + Cardinality(Busy) + (IF Vacant THEN 1 ELSE 0) <= 1 + crossed
    BY ChainsCounted
  <2>5. /\ IsFiniteSet(Seers) /\ Cardinality(Seers) \in Nat
        /\ Cardinality(Seers) <= Cardinality(Busy)
    BY <2>2, <2>4, NoMore
  <2>6. IsFiniteSet(Asked) /\ Cardinality(Asked) <= Cardinality(Seers)
    BY <2>1, <2>5, FS_Surjection
  <2>7. /\ IsFiniteSet(Unasked \cup Asked)
        /\ Cardinality(Unasked \cup Asked) = Cardinality(Unasked) + Cardinality(Asked) - 0
    BY <2>3, <2>4, <2>6, FS_Union, FS_EmptySet
  <2>8. /\ Cardinality(Rf!Running) \in Nat
        /\ Cardinality(Rf!Running) <= Cardinality(Unasked \cup Asked)
    BY <2>3, <2>7, NoMore
  <2>9. Cardinality(Asked) \in Nat
    BY <2>6, FS_CardinalityType
  <2>10. QED
    BY <2>4, <2>5, <2>6, <2>7, <2>8, <2>9
<1>4. QED
  BY <1>0, <1>2, <1>3, RefreshSets DEF Rf!OneRefreshAtATime

LEMMA RefreshStarts ==
    ASSUME Rf!RefreshInit
    PROVE  Rf!RefreshInv
<1>1. key = 0 /\ 0 \in 0..MaxChains /\ crossed = 0
  BY Assumptions DEF Rf!RefreshInit, Rf!ChainsAssumption
<1>2. \A c \in Callers : caller[c] = Rf!Idle /\ caller[c].step = "idle"
  BY DEF Rf!RefreshInit, Rf!Idle
<1>3. Rf!Unasked = {} /\ Rf!Busy = {}
  BY <1>2 DEF Rf!RefreshInit, Rf!Running, Rf!Unasked, Rf!Busy
<1>4. Rf!RefreshTypeOK
  BY <1>1 DEF Rf!RefreshInit, Rf!RefreshTypeOK, Rf!Chain, Rf!Idle
<1>5. Rf!FewChains
  <2>1. Rf!Cardinality({}) = 0
    BY FS_EmptySet, RefreshSets
  <2>2. QED
    BY <1>1, <1>3, <2>1 DEF Rf!FewChains
<1>6. QED
  BY <1>1, <1>2, <1>4, <1>5 DEF Rf!RefreshInv, Rf!Known

LEMMA RefreshStays ==
    ASSUME Rf!RefreshInv, UNCHANGED Rf!refreshVars
    PROVE  Rf!RefreshInv'
<1>1. UNCHANGED <<chain, key, caller, crossed>>
  BY DEF Rf!refreshVars
<1>2. Rf!FewChains'
  <2>1. Unasked' = Unasked /\ Busy' = Busy /\ Vacant' = Vacant
    BY <1>1 DEF Unasked, Busy, Vacant, Rf!Unasked, Rf!Busy, Rf!Vacant, Rf!Running
  <2>2. QED
    BY <1>1, <2>1, FewStay
<1>3. QED
  BY <1>1, <1>2
  DEF Rf!RefreshInv, Rf!RefreshTypeOK, Rf!Known, Rf!Finished, Rf!Unheard

-----------------------------------------------------------------------------
(* Proofs: who is who *)

OwnersInv ==
    /\ part = "login" => Lg!LoginInv
    /\ part = "tokens" => Tk!TokensInv
    /\ part = "owners" => Ow!RowsInv
    /\ part = "refresh" => Rf!RefreshInv

\* Who logs in is who the account's user is and within the license, a token that was revoked
\* stays so, the row of an owner has what its requests wrote, and one refresh runs at a
\* time: whatever the instance has of browsers, accounts, owners and requests.
THEOREM WhoIsWho == Spec => []OwnersAreThemselves
<1>1. Init => OwnersInv
  BY LoginStarts, TokensStart, RowsStart, RefreshStarts DEF Init, OwnersInv
<1>2. OwnersInv /\ [Next]_vars => OwnersInv'
  <2> SUFFICES ASSUME OwnersInv, [Next]_vars PROVE OwnersInv'
    OBVIOUS
  <2>1. UNCHANGED part
    BY DEF Next, vars
  <2>2. CASE part = "login"
    BY <2>2, LoginStep, LoginStays, <2>1 DEF Next, vars, Lg!loginVars, OwnersInv
  <2>3. CASE part = "tokens"
    BY <2>3, TokensStep, TokensStay, <2>1 DEF Next, vars, Tk!tokenVars, OwnersInv
  <2>4. CASE part = "owners"
    BY <2>4, RowsStep, RowsStay, <2>1 DEF Next, vars, Ow!rowVars, OwnersInv
  <2>5. CASE part = "refresh"
    BY <2>5, RefreshStep, RefreshStays, <2>1 DEF Next, vars, Rf!refreshVars, OwnersInv
  <2>6. CASE part \notin {"login", "tokens", "owners", "refresh"}
    BY <2>1, <2>6 DEF OwnersInv
  <2>7. QED
    BY <2>2, <2>3, <2>4, <2>5, <2>6
<1>3. OwnersInv => OwnersAreThemselves
  BY LoginSafe, TokensSafe, RowsSafe, RefreshSafe DEF OwnersInv, OwnersAreThemselves
<1>4. QED
  BY <1>1, <1>2, <1>3, PTL DEF Spec

-----------------------------------------------------------------------------
(* Proofs: configurations *)

ownerYaml == v1
repoYaml == v2
readers == v3
cached == v4
question == v5
written == v6
outcome == v7
inForce == v8
wereReaders == v9

USE DEF ownerYaml, repoYaml, readers, cached, question, written, outcome, inForce, wereReaders

LEMMA ConfigurationsSafe ==
    ASSUME Cf!ConfigurationsInv
    PROVE  Cf!ConfigurationsTypeOK /\ Cf!ReadByReaders /\ Cf!PassIsJustified
  BY DEF Cf!ConfigurationsInv, Cf!ReadByReaders, Cf!Kept, Cf!Justified

\* A configuration is written, or somebody may read that could not.
LEMMA YamlsGrow ==
    ASSUME Cf!ConfigurationsInv, Cf!ConfigurationsTypeOK',
           inForce \subseteq inForce', wereReaders \subseteq wereReaders',
           readers' \subseteq wereReaders', ownerYaml' \in inForce', repoYaml' \in inForce',
           UNCHANGED <<cached, question, outcome>>
    PROVE  Cf!ConfigurationsInv'
<1>1. \A w \in Workers : question'[w] # Nothing => question'[w].repo \in inForce'
  BY DEF Cf!ConfigurationsInv
<1>2. \A w \in Workers, user \in YamlReaders :
          cached'[w][user] # Nothing => Cf!Justified(cached[w][user], user)'
  BY DEF Cf!ConfigurationsInv, Cf!Justified, Cf!CouldRead
<1>3. outcome' # Nothing /\ outcome'.fetched => Cf!CouldRead(outcome.user)'
  BY DEF Cf!ConfigurationsInv, Cf!CouldRead
<1>4. Cf!PassIsJustified'
  BY DEF Cf!ConfigurationsInv, Cf!PassIsJustified
<1>5. question' = [w \in Workers |-> question'[w]]
  BY DEF Cf!ConfigurationsInv
<1>6. QED
  BY <1>1, <1>2, <1>3, <1>4, <1>5 DEF Cf!ConfigurationsInv

\* A process keeps another entry of a user, or none.
LEMMA EntryIsKept ==
    ASSUME Cf!ConfigurationsInv, NEW w \in Workers, NEW user \in YamlReaders,
           NEW entry \in {Nothing} \cup Cf!Entries,
           entry # Nothing => Cf!Justified(entry, user),
           cached' = [cached EXCEPT ![w][user] = entry],
           question' = [question EXCEPT ![w] = Nothing] \/ UNCHANGED question,
           UNCHANGED <<ownerYaml, repoYaml, readers, written, outcome, inForce, wereReaders>>
    PROVE  Cf!ConfigurationsInv'
<1>1. /\ cached' \in [Workers -> [YamlReaders -> {Nothing} \cup Cf!Entries]]
      /\ \A x \in Workers, u \in YamlReaders :
            cached'[x][u] = IF x = w /\ u = user THEN entry ELSE cached[x][u]
  BY DEF Cf!ConfigurationsInv, Cf!ConfigurationsTypeOK
<1>2. /\ question' = [x \in Workers |-> question'[x]]
      /\ \A x \in Workers : question'[x] = question[x] \/ question'[x] = Nothing
  BY DEF Cf!ConfigurationsInv
<1>3. Cf!ConfigurationsTypeOK'
  BY <1>1, <1>2 DEF Cf!ConfigurationsInv, Cf!ConfigurationsTypeOK, Cf!Yamls, Cf!Entries
<1>4. \A x \in Workers, u \in YamlReaders :
          cached'[x][u] # Nothing => Cf!Justified(cached[x][u], u)'
  BY <1>1 DEF Cf!ConfigurationsInv, Cf!Justified, Cf!CouldRead
<1>5. \A x \in Workers : question'[x] # Nothing => question'[x].repo \in inForce'
  BY <1>2 DEF Cf!ConfigurationsInv
<1>6. Cf!PassIsJustified'
  BY DEF Cf!ConfigurationsInv, Cf!PassIsJustified
<1>7. QED
  BY <1>2, <1>3, <1>4, <1>5, <1>6 DEF Cf!ConfigurationsInv, Cf!CouldRead

LEMMA ConfigurationsStep ==
    ASSUME Cf!ConfigurationsInv, Cf!ConfigurationsNext
    PROVE  Cf!ConfigurationsInv'
<1> USE Assumptions DEF Cf!ConfigurationAssumption
<1>1. ASSUME NEW yaml \in SUBSET ChangedFiles, NEW document \in Cf!Documents,
             Cf!SetYaml(yaml, document)
      PROVE  Cf!ConfigurationsInv'
  BY <1>1, YamlsGrow DEF Cf!SetYaml, Cf!Yamls, Cf!ConfigurationsInv, Cf!ConfigurationsTypeOK,
     Cf!Entries
<1>2. ASSUME NEW yaml \in SUBSET ChangedFiles, Cf!SetRepositoryYaml(yaml)
      PROVE  Cf!ConfigurationsInv'
  BY <1>2, YamlsGrow DEF Cf!SetRepositoryYaml, Cf!Yamls, Cf!ConfigurationsInv,
     Cf!ConfigurationsTypeOK, Cf!Entries
<1>3. CASE Cf!ChangeReaders
  BY <1>3, YamlsGrow DEF Cf!ChangeReaders, Cf!ConfigurationsInv, Cf!ConfigurationsTypeOK,
     Cf!Yamls, Cf!Entries
<1>4. ASSUME NEW w \in Workers, NEW user \in YamlReaders, Cf!AskYaml(w, user)
      PROVE  Cf!ConfigurationsInv'
  <2> DEFINE asked == [user |-> user, repo |-> repoYaml]
  <2>1. /\ question' = [question EXCEPT ![w] = asked]
        /\ UNCHANGED <<ownerYaml, repoYaml, readers, cached, written, outcome, inForce,
                       wereReaders>>
    BY <1>4 DEF Cf!AskYaml
  <2>2. /\ question' = [x \in Workers |-> question'[x]]
        /\ \A x \in Workers : question'[x] = IF x = w THEN asked ELSE question[x]
    BY <2>1 DEF Cf!ConfigurationsInv
  <2>3. asked.user = user /\ asked.repo = repoYaml
    OBVIOUS
  <2> HIDE DEF asked
  <2>4. \A x \in Workers : question'[x] # Nothing =>
            /\ question'[x].user \in YamlReaders /\ question'[x].repo \in Cf!Yamls
            /\ question'[x].repo \in inForce
    BY <2>2, <2>3 DEF Cf!ConfigurationsInv, Cf!ConfigurationsTypeOK
  <2>5. Cf!ConfigurationsTypeOK'
    BY <2>1, <2>4 DEF Cf!ConfigurationsInv, Cf!ConfigurationsTypeOK, Cf!Yamls, Cf!Entries
  <2>6. Cf!PassIsJustified'
    BY <2>1 DEF Cf!ConfigurationsInv, Cf!PassIsJustified
  <2>7. QED
    BY <2>1, <2>2, <2>4, <2>5, <2>6 DEF Cf!ConfigurationsInv, Cf!Justified, Cf!CouldRead
<1>5. ASSUME NEW w \in Workers, NEW user \in YamlReaders, Cf!ForgetYaml(w, user)
      PROVE  Cf!ConfigurationsInv'
  BY <1>5, EntryIsKept DEF Cf!ForgetYaml
<1>6. ASSUME NEW w \in Workers, NEW user \in YamlReaders, Cf!EmptyUpload(w, user)
      PROVE  Cf!ConfigurationsInv'
  <2> DEFINE entry == cached[w][user]
             ignored == IF entry.value = Nothing THEN {} ELSE entry.value
  <2>1. /\ entry # Nothing /\ Cf!Justified(entry, user)
        /\ outcome' = [pass |-> Cf!AllIgnored(ignored), user |-> user, fetched |-> entry.fetched]
        /\ UNCHANGED <<ownerYaml, repoYaml, readers, cached, question, written, inForce,
                       wereReaders>>
    BY <1>6 DEF Cf!EmptyUpload, Cf!Kept, Cf!ConfigurationsInv
  <2>2. ignored \in {{}, CommitYaml} \cup (inForce \ {Nothing})
    BY <2>1 DEF Cf!Justified
  <2>3. Cf!PassIsJustified'
    BY <2>1, <2>2 DEF Cf!PassIsJustified, Cf!AllIgnored
  <2>4. Cf!ConfigurationsTypeOK'
    BY <2>1 DEF Cf!ConfigurationsInv, Cf!ConfigurationsTypeOK, Cf!Yamls, Cf!Entries
  <2>5. outcome'.fetched => Cf!CouldRead(outcome.user)'
    BY <2>1 DEF Cf!Justified, Cf!CouldRead
  <2> HIDE DEF entry, ignored
  <2>6. QED
    BY <2>1, <2>3, <2>4, <2>5 DEF Cf!ConfigurationsInv, Cf!Justified, Cf!CouldRead
<1>7. ASSUME NEW w \in Workers, Cf!FetchYaml(w) PROVE Cf!ConfigurationsInv'
  <2> DEFINE user == question[w].user
  <2>1. /\ question[w] # Nothing /\ question' = [question EXCEPT ![w] = Nothing]
        /\ UNCHANGED <<ownerYaml, repoYaml, readers, written, outcome, inForce, wereReaders>>
    BY <1>7 DEF Cf!FetchYaml
  <2>2. PICK fetched \in IF Cf!AsksAs(user) \cap readers # {} THEN BOOLEAN ELSE {FALSE} :
          cached' = [cached EXCEPT ![w][user] =
                       [value |-> Cf!get_final_yaml(ownerYaml, question[w].repo,
                                                    IF fetched THEN CommitYaml ELSE Nothing),
                        fetched |-> fetched]]
    BY <1>7 DEF Cf!FetchYaml
  <2> DEFINE value == Cf!get_final_yaml(ownerYaml, question[w].repo,
                                        IF fetched THEN CommitYaml ELSE Nothing)
             entry == [value |-> value, fetched |-> fetched]
  <2>3. /\ user \in YamlReaders /\ question[w].repo \in Cf!Yamls /\ ownerYaml \in Cf!Yamls
        /\ question[w].repo \in inForce /\ ownerYaml \in inForce
    BY <2>1 DEF Cf!ConfigurationsInv, Cf!ConfigurationsTypeOK
  <2>4. value \in Cf!Yamls /\ value \in inForce \cup {CommitYaml}
    BY <2>3 DEF Cf!get_final_yaml, Cf!Yamls
  <2>5. fetched \in BOOLEAN /\ (fetched => Cf!CouldRead(user))
    BY DEF Cf!ConfigurationsInv, Cf!AsksAs, Cf!CouldRead
  <2>6. entry \in {Nothing} \cup Cf!Entries /\ Cf!Justified(entry, user)
    BY <2>4, <2>5 DEF Cf!Entries, Cf!Justified
  <2>7. cached' = [cached EXCEPT ![w][user] = entry]
    BY <2>2
  <2> HIDE DEF entry, user
  <2>8. QED
    BY <2>1, <2>3, <2>6, <2>7, EntryIsKept
<1>8. QED
  BY <1>1, <1>2, <1>3, <1>4, <1>5, <1>6, <1>7 DEF Cf!ConfigurationsNext

LEMMA ConfigurationsStart == Cf!ConfigurationsInit => Cf!ConfigurationsInv
  BY Assumptions DEF Cf!ConfigurationAssumption, Cf!ConfigurationsInit, Cf!ConfigurationsInv,
     Cf!ConfigurationsTypeOK, Cf!PassIsJustified, Cf!Yamls

LEMMA ConfigurationsStay ==
    ASSUME Cf!ConfigurationsInv, UNCHANGED Cf!configVars
    PROVE  Cf!ConfigurationsInv'
  BY DEF Cf!ConfigurationsInv, Cf!ConfigurationsTypeOK, Cf!PassIsJustified, Cf!Justified,
     Cf!configVars, Cf!Yamls, Cf!Entries, Cf!CouldRead

-----------------------------------------------------------------------------
(* Proofs: who may see what *)

GrantInv ==
    /\ part = "access" => Ac!RevokedInv
    /\ part = "configurations" => Cf!ConfigurationsInv

\* Whatever the numbers of workers, users and repositories: a private repository is shown
\* only to whom the provider has let see it, and no more once every webhook was handled
\* alone; and a commit's own configuration only to who could read the commit.
THEOREM WhoSeesWhat == Spec => []AccessIsGranted
<1>1. Init => GrantInv
  BY Ac!RevokedStarts, ConfigurationsStart DEF Init, GrantInv
<1>2. GrantInv /\ [Next]_vars => GrantInv'
  <2> SUFFICES ASSUME GrantInv, [Next]_vars PROVE GrantInv'
    OBVIOUS
  <2>1. UNCHANGED part
    BY DEF Next, vars
  <2>2. CASE part = "access"
    BY <2>2, Ac!RevokedStep, Ac!RevokedStays, <2>1 DEF Next, vars, Ac!accessVars, GrantInv
  <2>3. CASE part = "configurations"
    BY <2>3, ConfigurationsStep, ConfigurationsStay, <2>1 DEF Next, vars, Cf!configVars,
       GrantInv
  <2>4. CASE part \notin {"access", "configurations"}
    BY <2>1, <2>4 DEF GrantInv
  <2>5. QED
    BY <2>2, <2>3, <2>4
<1>3. GrantInv => AccessIsGranted
  BY Ac!RevokedSafe, ConfigurationsSafe DEF GrantInv, AccessIsGranted
<1>4. QED
  BY <1>1, <1>2, <1>3, PTL DEF Spec

-----------------------------------------------------------------------------
(* Proofs: datasets *)

dataset == v1
sent == v2
viewer == v3
broken == v4

USE DEF dataset, sent, viewer, broken

LEMMA DatasetsSafe ==
    ASSUME Ds!DatasetsInv
    PROVE  Ds!DatasetsTypeOK /\ Ds!BackfilledOnce /\ Ds!AnsweredWhenBackfilled
  BY DEF Ds!DatasetsInv

\* The request of one viewer goes on, and nothing that is about what others send changes.
LEMMA OneViewer ==
    ASSUME Ds!DatasetsInv, NEW v \in Viewers, NEW next \in Ds!Viewer,
           viewer' = [viewer EXCEPT ![v] = next]
    PROVE  /\ viewer' \in [Viewers -> Ds!Viewer]
           /\ viewer'[v] = next
           /\ \A w \in Viewers : w # v => viewer'[w] = viewer[w]
           /\ \A w \in Viewers, r \in Measured : w # v => (Ds!Sending(w, r)' <=> Ds!Sending(w, r))
           /\ \A r \in Measured : Ds!Sending(v, r)' <=> next.step = "send" /\ r \in next.missing
  BY DEF Ds!DatasetsInv, Ds!DatasetsTypeOK, Ds!Sending

\* What a request says that asks no dataset of its own.
LEMMA DatasetsAsked ==
    ASSUME Ds!DatasetsInv, NEW v \in Viewers, NEW R \in SUBSET Measured,
           Ds!AskMeasurements(v, R)
    PROVE  Ds!DatasetsInv'
<1> DEFINE missing == {r \in R : dataset[r] = "none"}
           next == [step |-> IF missing = {} \/ Ds!all_backfilled(R) THEN "answered" ELSE "create",
                    of |-> R, missing |-> missing,
                    from |-> IF Ds!all_backfilled(R) THEN "measurements" ELSE "commits"]
<1>1. /\ viewer[v] = Ds!Idle /\ viewer' = [viewer EXCEPT ![v] = next]
      /\ next \in Ds!Viewer /\ next.step # "send" /\ next.of = R
      /\ UNCHANGED <<dataset, sent, broken>>
  BY DEF Ds!AskMeasurements, Ds!Viewer
<1>2. next.from = "measurements" => \A r \in R : dataset[r] = "old"
  BY DEF Ds!all_backfilled, Ds!is_backfilled
<1> HIDE DEF next
<1>3. \A w \in Viewers, r \in Measured : Ds!Sending(w, r)' <=> Ds!Sending(w, r)
  BY <1>1, OneViewer DEF Ds!Sending, Ds!Idle
<1>4. Ds!DatasetsTypeOK'
  BY <1>1, OneViewer DEF Ds!DatasetsInv, Ds!DatasetsTypeOK
<1>5. Ds!SendersAreFirst' /\ Ds!NothingBefore'
  BY <1>1, <1>3 DEF Ds!DatasetsInv, Ds!SendersAreFirst, Ds!NothingBefore
<1>6. Ds!BackfilledOnce'
  BY <1>1, <1>3 DEF Ds!DatasetsInv, Ds!BackfilledOnce, Ds!Sending
<1>7. \A r \in R : next.from = "measurements" => sent[r] = 1 \/ r \in broken
  BY <1>2 DEF Ds!DatasetsInv, Ds!BackfilledOnce, Ds!SendersAreFirst, Ds!Sending
<1>8. Ds!AnsweredWhenBackfilled'
  BY <1>1, <1>7, OneViewer DEF Ds!DatasetsInv, Ds!AnsweredWhenBackfilled
<1>9. QED
  BY <1>4, <1>5, <1>6, <1>8 DEF Ds!DatasetsInv

\* A request has made rows where there were none, and is to send their backfills.
LEMMA DatasetsMade ==
    ASSUME Ds!DatasetsInv, NEW v \in Viewers, NEW next \in Ds!Viewer,
           viewer[v].step # "send", next.step = "send", next.from # "measurements",
           \A r \in next.missing : dataset[r] = "none",
           dataset' = [r \in Measured |-> IF r \in next.missing THEN "new" ELSE dataset[r]],
           viewer' = [viewer EXCEPT ![v] = next], UNCHANGED <<sent, broken>>
    PROVE  Ds!DatasetsInv'
<1>1. next.missing \subseteq Measured
  BY DEF Ds!Viewer
<1>2. \A r \in Measured :
          /\ Ds!Sending(v, r)' <=> r \in next.missing
          /\ r \in next.missing => \A w \in Viewers : ~Ds!Sending(w, r)
  BY OneViewer DEF Ds!DatasetsInv, Ds!SendersAreFirst
<1>3. \A w \in Viewers, r \in Measured :
          Ds!Sending(w, r)' <=> Ds!Sending(w, r) \/ (w = v /\ r \in next.missing)
  <2> SUFFICES ASSUME NEW w \in Viewers, NEW r \in Measured
               PROVE  Ds!Sending(w, r)' <=> Ds!Sending(w, r) \/ (w = v /\ r \in next.missing)
    OBVIOUS
  <2>1. CASE w = v
    BY <1>2, <2>1 DEF Ds!Sending
  <2>2. CASE w # v
    BY OneViewer, <2>2
  <2>3. QED
    BY <2>1, <2>2
<1>4. \A r \in Measured : dataset'[r] = IF r \in next.missing THEN "new" ELSE dataset[r]
  OBVIOUS
<1>5. Ds!DatasetsTypeOK'
  BY OneViewer DEF Ds!DatasetsInv, Ds!DatasetsTypeOK
<1>6. Ds!SendersAreFirst'
  BY <1>1, <1>2, <1>3, <1>4 DEF Ds!DatasetsInv, Ds!SendersAreFirst, Ds!NothingBefore
<1>7. Ds!NothingBefore'
  BY <1>4 DEF Ds!DatasetsInv, Ds!NothingBefore
<1>8. Ds!BackfilledOnce'
  BY <1>2, <1>3, <1>4 DEF Ds!DatasetsInv, Ds!BackfilledOnce, Ds!Sending
<1>9. Ds!AnsweredWhenBackfilled'
  BY OneViewer DEF Ds!DatasetsInv, Ds!AnsweredWhenBackfilled
<1>10. QED
  BY <1>5, <1>6, <1>7, <1>8, <1>9 DEF Ds!DatasetsInv

\* A request ends, or answers without having made a row.
LEMMA DatasetsLeft ==
    ASSUME Ds!DatasetsInv, NEW v \in Viewers, NEW next \in Ds!Viewer,
           viewer[v].step # "send", next.step # "send", next.from # "measurements",
           viewer' = [viewer EXCEPT ![v] = next], UNCHANGED <<dataset, sent, broken>>
    PROVE  Ds!DatasetsInv'
<1>1. \A w \in Viewers, r \in Measured : Ds!Sending(w, r)' <=> Ds!Sending(w, r)
  BY OneViewer DEF Ds!Sending
<1>2. Ds!DatasetsTypeOK'
  BY OneViewer DEF Ds!DatasetsInv, Ds!DatasetsTypeOK
<1>3. Ds!SendersAreFirst' /\ Ds!NothingBefore'
  BY <1>1 DEF Ds!DatasetsInv, Ds!SendersAreFirst, Ds!NothingBefore
<1>4. Ds!BackfilledOnce'
  BY <1>1 DEF Ds!DatasetsInv, Ds!BackfilledOnce, Ds!Sending
<1>5. Ds!AnsweredWhenBackfilled'
  BY OneViewer DEF Ds!DatasetsInv, Ds!AnsweredWhenBackfilled
<1>6. QED
  BY <1>2, <1>3, <1>4, <1>5 DEF Ds!DatasetsInv

LEMMA DatasetsStep ==
    ASSUME Ds!DatasetsInv, Ds!DatasetsNext
    PROVE  Ds!DatasetsInv'
<1> USE Assumptions DEF Ds!ViewerAssumption
<1>1. ASSUME NEW v \in Viewers, NEW R \in (SUBSET Measured) \ {{}}, Ds!AskMeasurements(v, R)
      PROVE  Ds!DatasetsInv'
  BY <1>1, DatasetsAsked
<1>2. ASSUME NEW v \in Viewers, Ds!CreateDatasets(v) PROVE Ds!DatasetsInv'
  <2> DEFINE made == Ds!Created(v)
             next == [viewer[v] EXCEPT !.step = IF made = {} THEN "answered" ELSE "send",
                                       !.from = IF made = {} THEN "error" ELSE "commits"]
  <2>1. /\ viewer[v] \in Ds!Viewer /\ viewer[v].step = "create"
        /\ made = {} \/ (made = viewer[v].missing /\ \A r \in made : dataset[r] = "none")
    BY <1>2 DEF Ds!CreateDatasets, Ds!Created, Ds!Refused, Ds!DatasetsInv, Ds!DatasetsTypeOK
  <2>2. /\ dataset' = [r \in Measured |->
                         IF r \in made /\ dataset[r] = "none" THEN "new" ELSE dataset[r]]
        /\ viewer' = [viewer EXCEPT ![v] = next] /\ UNCHANGED <<sent, broken>>
    BY <1>2, <2>1 DEF Ds!CreateDatasets, Ds!DatasetsInv, Ds!DatasetsTypeOK, Ds!Viewer
  <2>3. /\ next \in Ds!Viewer /\ next.from # "measurements" /\ next.missing = viewer[v].missing
        /\ next.step = IF made = {} THEN "answered" ELSE "send"
    BY <2>1 DEF Ds!Viewer
  <2>4. CASE made = {}
    <3>1. UNCHANGED dataset
      BY <2>2, <2>4 DEF Ds!DatasetsInv, Ds!DatasetsTypeOK
    <3> HIDE DEF next, made
    <3>2. QED
      BY <2>1, <2>2, <2>3, <2>4, <3>1, DatasetsLeft
  <2>5. CASE made # {}
    <3>1. dataset' = [r \in Measured |-> IF r \in next.missing THEN "new" ELSE dataset[r]]
      BY <2>1, <2>2, <2>3, <2>5
    <3> HIDE DEF next, made
    <3>2. QED
      BY <2>1, <2>2, <2>3, <2>5, <3>1, DatasetsMade
  <2>6. QED
    BY <2>4, <2>5
<1>3. ASSUME NEW v \in Viewers, NEW r \in Measured, Ds!ActivateMeasurements(v, r)
      PROVE  Ds!DatasetsInv'
  <2> DEFINE next == [step |-> "send", of |-> {r}, missing |-> {r}, from |-> Nothing]
  <2>1. /\ viewer[v].step # "send" /\ dataset[r] = "none"
        /\ dataset' = [q \in Measured |-> IF q \in next.missing THEN "new" ELSE dataset[q]]
        /\ viewer' = [viewer EXCEPT ![v] = next] /\ UNCHANGED <<sent, broken>>
    <3>1. /\ viewer[v].step # "send" /\ dataset[r] = "none"
          /\ dataset' = [dataset EXCEPT ![r] = "new"]
          /\ viewer' = [viewer EXCEPT ![v] = next] /\ UNCHANGED <<sent, broken>>
      BY <1>3 DEF Ds!ActivateMeasurements, Ds!Idle
    <3>2. next.missing = {r}
      OBVIOUS
    <3> HIDE DEF next
    <3>3. dataset = [q \in Measured |-> dataset[q]]
      BY DEF Ds!DatasetsInv, Ds!DatasetsTypeOK
    <3>4. dataset' = [q \in Measured |-> IF q \in next.missing THEN "new" ELSE dataset[q]]
      BY <3>1, <3>2, <3>3
    <3>5. QED
      BY <3>1, <3>4
  <2>2. /\ next \in Ds!Viewer /\ next.step = "send" /\ next.from # "measurements"
        /\ next.missing = {r}
    BY DEF Ds!Viewer
  <2> HIDE DEF next
  <2>3. QED
    BY <2>1, <2>2, DatasetsMade
<1>4. ASSUME NEW v \in Viewers, NEW r \in Measured, Ds!SendBackfill(v, r)
      PROVE  Ds!DatasetsInv'
  <2> DEFINE left == viewer[v].missing \ {r}
             next == [viewer[v] EXCEPT !.missing = left,
                                       !.step = IF left = {} THEN "answered" ELSE "send"]
  <2>1. viewer[v] \in Ds!Viewer /\ Ds!Sending(v, r)
    BY <1>4 DEF Ds!SendBackfill, Ds!Sending, Ds!DatasetsInv, Ds!DatasetsTypeOK
  <2>2. /\ viewer' = [viewer EXCEPT ![v] = next] /\ sent' = [sent EXCEPT ![r] = @ + 1]
        /\ UNCHANGED <<dataset, broken>>
    BY <1>4, <2>1 DEF Ds!SendBackfill, Ds!DatasetsInv, Ds!DatasetsTypeOK, Ds!Viewer
  <2>3. /\ next \in Ds!Viewer /\ next.from = viewer[v].from /\ next.of = viewer[v].of
        /\ \A q \in Measured : next.step = "send" /\ q \in next.missing <=>
                               q # r /\ Ds!Sending(v, q)
    BY <2>1 DEF Ds!Viewer, Ds!Sending
  <2> HIDE DEF next
  <2>4. \A w \in Viewers, q \in Measured : Ds!Sending(w, q)' <=> q # r /\ Ds!Sending(w, q)
    <3>1. \A w \in Viewers : Ds!Sending(w, r) => w = v
      BY <2>1 DEF Ds!DatasetsInv, Ds!SendersAreFirst
    <3>2. \A q \in Measured : Ds!Sending(v, q)' <=> q # r /\ Ds!Sending(v, q)
      BY <2>2, <2>3, OneViewer
    <3>3. \A w \in Viewers, q \in Measured : w # v => (Ds!Sending(w, q)' <=> Ds!Sending(w, q))
      BY <2>2, <2>3, OneViewer
    <3>4. QED
      BY <3>1, <3>2, <3>3
  <2>5. /\ dataset[r] = "new" /\ sent[r] = 0 /\ r \notin broken
        /\ sent' \in [Measured -> Nat]
        /\ \A q \in Measured : sent'[q] = IF q = r THEN 1 ELSE sent[q]
    BY <2>1, <2>2 DEF Ds!DatasetsInv, Ds!DatasetsTypeOK, Ds!SendersAreFirst
  <2>6. Ds!DatasetsTypeOK'
    BY <2>2, <2>3, <2>5, OneViewer DEF Ds!DatasetsInv, Ds!DatasetsTypeOK
  <2>7. Ds!SendersAreFirst' /\ Ds!NothingBefore'
    BY <2>2, <2>4, <2>5 DEF Ds!DatasetsInv, Ds!SendersAreFirst, Ds!NothingBefore
  <2>8. Ds!BackfilledOnce'
    BY <2>2, <2>4, <2>5 DEF Ds!DatasetsInv, Ds!BackfilledOnce, Ds!Sending
  <2>9. Ds!AnsweredWhenBackfilled'
    BY <2>2, <2>3, OneViewer, <2>5 DEF Ds!DatasetsInv, Ds!DatasetsTypeOK, Ds!Viewer,
       Ds!AnsweredWhenBackfilled
  <2>10. QED
    BY <2>6, <2>7, <2>8, <2>9 DEF Ds!DatasetsInv
<1>5. ASSUME NEW v \in Viewers, Ds!Break(v) PROVE Ds!DatasetsInv'
  <2>1. /\ Ds!Idle \in Ds!Viewer /\ Ds!Idle.step = "idle" /\ Ds!Idle.from = Nothing
        /\ viewer' = [viewer EXCEPT ![v] = Ds!Idle]
        /\ broken' = broken \cup viewer[v].missing /\ UNCHANGED <<dataset, sent>>
    BY <1>5 DEF Ds!Break, Ds!Idle, Ds!Viewer
  <2>2. \A r \in viewer[v].missing : r \in Measured /\ Ds!Sending(v, r)
    BY <1>5 DEF Ds!Break, Ds!Sending, Ds!DatasetsInv, Ds!DatasetsTypeOK, Ds!Viewer
  <2>3. \A w \in Viewers, r \in Measured : Ds!Sending(w, r)' <=> w # v /\ Ds!Sending(w, r)
    BY <2>1, OneViewer
  <2>4. Ds!DatasetsTypeOK'
    BY <2>1, <2>2, OneViewer DEF Ds!DatasetsInv, Ds!DatasetsTypeOK
  <2>5. Ds!SendersAreFirst' /\ Ds!NothingBefore'
    BY <2>1, <2>2, <2>3 DEF Ds!DatasetsInv, Ds!SendersAreFirst, Ds!NothingBefore
  <2>6. \A r \in Measured : Ds!Sending(v, r) => r \in broken'
    BY <2>1 DEF Ds!Sending
  <2>7. Ds!BackfilledOnce'
    BY <2>1, <2>3, <2>6 DEF Ds!DatasetsInv, Ds!BackfilledOnce, Ds!Sending
  <2>8. Ds!AnsweredWhenBackfilled'
    BY <2>1, OneViewer DEF Ds!DatasetsInv, Ds!AnsweredWhenBackfilled
  <2>9. QED
    BY <2>4, <2>5, <2>7, <2>8 DEF Ds!DatasetsInv
<1>6. ASSUME NEW v \in Viewers, Ds!EndRequest(v) PROVE Ds!DatasetsInv'
  BY <1>6, DatasetsLeft DEF Ds!EndRequest, Ds!Idle, Ds!Viewer
<1>7. ASSUME NEW r \in Measured, Ds!Age(r) PROVE Ds!DatasetsInv'
  <2>1. /\ dataset[r] = "new" /\ \A v \in Viewers : ~Ds!Sending(v, r)
        /\ dataset' = [dataset EXCEPT ![r] = "old"] /\ UNCHANGED <<sent, viewer, broken>>
    BY <1>7 DEF Ds!Age, Ds!Sending
  <2>2. /\ dataset' \in [Measured -> {"none", "new", "old"}]
        /\ \A q \in Measured : dataset'[q] = IF q = r THEN "old" ELSE dataset[q]
    BY <2>1 DEF Ds!DatasetsInv, Ds!DatasetsTypeOK
  <2>3. \A v \in Viewers, q \in Measured : Ds!Sending(v, q)' <=> Ds!Sending(v, q)
    BY <2>1 DEF Ds!Sending
  <2>4. Ds!DatasetsTypeOK'
    BY <2>1, <2>2 DEF Ds!DatasetsInv, Ds!DatasetsTypeOK
  <2>5. Ds!SendersAreFirst' /\ Ds!NothingBefore'
    BY <2>1, <2>2, <2>3 DEF Ds!DatasetsInv, Ds!SendersAreFirst, Ds!NothingBefore
  <2>6. Ds!BackfilledOnce' /\ Ds!AnsweredWhenBackfilled'
    BY <2>1, <2>2 DEF Ds!DatasetsInv, Ds!BackfilledOnce, Ds!AnsweredWhenBackfilled
  <2>7. QED
    BY <2>4, <2>5, <2>6 DEF Ds!DatasetsInv
<1>8. QED
  BY <1>1, <1>2, <1>3, <1>4, <1>5, <1>6, <1>7 DEF Ds!DatasetsNext

LEMMA DatasetsStart == Ds!DatasetsInit => Ds!DatasetsInv
  BY Assumptions DEF Ds!ViewerAssumption, Ds!DatasetsInit, Ds!DatasetsInv, Ds!DatasetsTypeOK,
     Ds!SendersAreFirst, Ds!NothingBefore, Ds!BackfilledOnce, Ds!AnsweredWhenBackfilled,
     Ds!Sending, Ds!Idle, Ds!Viewer

LEMMA DatasetsStay ==
    ASSUME Ds!DatasetsInv, UNCHANGED Ds!datasetVars
    PROVE  Ds!DatasetsInv'
  BY DEF Ds!datasetVars, Ds!DatasetsInv, Ds!DatasetsTypeOK, Ds!SendersAreFirst,
     Ds!NothingBefore, Ds!BackfilledOnce, Ds!AnsweredWhenBackfilled, Ds!Sending

-----------------------------------------------------------------------------
(* Proofs: queries over comparisons *)

context == v2
node == v3

USE DEF context, node

LEMMA QuerySafe ==
    ASSUME Cq!QueryInv
    PROVE  Cq!QueryTypeOK /\ Cq!AnswersAreAboutProcessed
<1> USE Assumptions DEF Cq!ComparedAssumption
<1>1. Cq!AnswersAreAboutProcessed
  BY DEF Cq!AnswersAreAboutProcessed, Cq!QueryInv, Cq!QueryTypeOK, Cq!Node, Cq!AnswersOf
<1>2. QED
  BY <1>1 DEF Cq!QueryInv

\* Something is resolved of c, and it stays asked for.
LEMMA NodeResolved ==
    ASSUME Cq!QueryInv, NEW c \in Compared, NEW next \in Cq!Node,
           node' = [node EXCEPT ![c] = next], UNCHANGED row, next.result # "unasked",
           context'.comparison \in {context.comparison, c},
           context'.comparison # context.comparison => row[c] = "processed",
           context'.components \in {context.components, c},
           context' \in [comparison : Compared \cup {Nothing}, components : Compared \cup {Nothing}],
           row[c] = "processed" => context'.comparison # Nothing,
           next.different = node[c].different \/ next.different = context.comparison,
           next.different # node[c].different => node[c].result # "unasked",
           next.components # "unasked" => context'.components # Nothing,
           next.components \in {node[c].components, "listed", context.components}
    PROVE  Cq!QueryInv'
<1> USE Assumptions DEF Cq!ComparedAssumption
<1>1. /\ node' \in [Compared -> Cq!Node]
      /\ \A d \in Compared : node'[d] = IF d = c THEN next ELSE node[d]
  BY DEF Cq!QueryInv, Cq!QueryTypeOK
<1>2. Cq!QueryTypeOK'
  BY <1>1 DEF Cq!QueryInv, Cq!QueryTypeOK
<1>3. \A d \in Compared : node[d].result # "unasked" => node'[d].result # "unasked"
  BY <1>1
<1>4. node'[c].result # "unasked"
  BY <1>1
<1>5. /\ context.comparison \in Compared \cup {Nothing}
      /\ context.components \in Compared \cup {Nothing}
  BY DEF Cq!QueryInv, Cq!QueryTypeOK
<1>6. Cq!ContextIsAsked'
  BY <1>2, <1>3, <1>4, <1>5 DEF Cq!QueryInv, Cq!ContextIsAsked, Cq!QueryTypeOK
<1>7. Cq!ContextIsAsked /\ Cq!AnswersOf(c)
  BY DEF Cq!QueryInv
<1>8. Cq!AnswersOf(c)'
  BY <1>1, <1>7, <1>3 DEF Cq!AnswersOf, Cq!ContextIsAsked
<1>9. ASSUME NEW d \in Compared, d # c PROVE Cq!AnswersOf(d)'
  BY <1>1, <1>9, <1>3 DEF Cq!QueryInv, Cq!AnswersOf
<1>10. QED
  BY <1>2, <1>6, <1>8, <1>9 DEF Cq!QueryInv

LEMMA QueryStep ==
    ASSUME Cq!QueryInv, Cq!QueryNext
    PROVE  Cq!QueryInv'
<1> USE Assumptions DEF Cq!ComparedAssumption
<1>1. /\ node \in [Compared -> Cq!Node]
      /\ context \in [comparison : Compared \cup {Nothing}, components : Compared \cup {Nothing}]
  BY DEF Cq!QueryInv, Cq!QueryTypeOK
<1>2. ASSUME NEW c \in Compared, Cq!CompareWith(c) PROVE Cq!QueryInv'
  <2> DEFINE next == [node[c] EXCEPT !.result = Cq!Validated(row[c])]
  <2>1. /\ next \in Cq!Node /\ next.result # "unasked" /\ node' = [node EXCEPT ![c] = next]
        /\ next.different = node[c].different /\ next.components = node[c].components
        /\ node[c].result = "unasked" /\ UNCHANGED row
    BY <1>1, <1>2 DEF Cq!CompareWith, Cq!Validated, Cq!Node
  <2>2. /\ context'.comparison = IF row[c] = "processed" THEN c ELSE context.comparison
        /\ context'.components = context.components
        /\ context' \in [comparison : Compared \cup {Nothing},
                         components : Compared \cup {Nothing}]
    BY <1>1, <1>2 DEF Cq!CompareWith, Cq!Stored
  <2>3. next.components # "unasked" => context.components # Nothing
    BY <2>1 DEF Cq!QueryInv, Cq!AnswersOf
  <2> HIDE DEF next
  <2>4. QED
    BY <2>1, <2>2, <2>3, NodeResolved
<1>3. ASSUME NEW c \in Compared, Cq!HasDifferent(c) PROVE Cq!QueryInv'
  <2> DEFINE next == [node[c] EXCEPT !.different = context.comparison]
  <2>1. /\ next \in Cq!Node /\ next.result # "unasked" /\ node' = [node EXCEPT ![c] = next]
        /\ next.different = context.comparison /\ next.components = node[c].components
        /\ node[c].result # "unasked" /\ UNCHANGED <<row, context>>
    BY <1>1, <1>3 DEF Cq!HasDifferent, Cq!Node
  <2>2. /\ next.components # "unasked" => context.components # Nothing
        /\ row[c] = "processed" => context.comparison # Nothing
    BY <2>1 DEF Cq!QueryInv, Cq!AnswersOf
  <2> HIDE DEF next
  <2>3. QED
    BY <1>1, <2>1, <2>2, NodeResolved
<1>4. ASSUME NEW c \in Compared, Cq!ListComponents(c) PROVE Cq!QueryInv'
  <2> DEFINE next == [node[c] EXCEPT !.components = "listed"]
  <2>1. /\ next \in Cq!Node /\ next.result # "unasked" /\ node' = [node EXCEPT ![c] = next]
        /\ next.different = node[c].different /\ next.components = "listed"
        /\ node[c].result # "unasked" /\ UNCHANGED row
    BY <1>1, <1>4 DEF Cq!ListComponents, Cq!Node
  <2>2. /\ context'.comparison = context.comparison /\ context'.components = c
        /\ context' \in [comparison : Compared \cup {Nothing},
                         components : Compared \cup {Nothing}]
    BY <1>1, <1>4 DEF Cq!ListComponents
  <2>3. row[c] = "processed" => context.comparison # Nothing
    BY <2>1 DEF Cq!QueryInv, Cq!AnswersOf
  <2> HIDE DEF next
  <2>4. QED
    BY <2>1, <2>2, <2>3, NodeResolved
<1>5. ASSUME NEW c \in Compared, Cq!NameComponents(c) PROVE Cq!QueryInv'
  <2> DEFINE next == [node[c] EXCEPT !.components = context.components]
  <2>1. /\ node' = [node EXCEPT ![c] = next] /\ node[c].components = "listed"
        /\ UNCHANGED <<row, context>>
    BY <1>1, <1>5 DEF Cq!NameComponents
  <2>2. /\ context.components \in Compared /\ Cq!ContextIsAsked /\ Cq!AnswersOf(c)
    BY <1>1, <2>1 DEF Cq!QueryInv, Cq!AnswersOf
  <2>3. /\ next \in Cq!Node /\ next.result = node[c].result
        /\ next.different = node[c].different /\ next.components = context.components
    BY <1>1, <2>2 DEF Cq!Node
  <2> HIDE DEF next
  <2>4. node[c].result # "unasked"
    BY <2>1, <2>2 DEF Cq!AnswersOf
  <2>5. row[c] = "processed" => context.comparison # Nothing
    BY <2>2, <2>4 DEF Cq!AnswersOf
  <2>6. QED
    BY <1>1, <2>1, <2>2, <2>3, <2>4, <2>5, NodeResolved
<1>6. QED
  BY <1>2, <1>3, <1>4, <1>5 DEF Cq!QueryNext

LEMMA QueryStart == Cq!QueryInit => Cq!QueryInv
  BY Assumptions DEF Cq!ComparedAssumption, Cq!QueryInit, Cq!QueryInv, Cq!QueryTypeOK,
     Cq!ContextIsAsked, Cq!AnswersOf, Cq!Unasked, Cq!Node

LEMMA QueryStay ==
    ASSUME Cq!QueryInv, UNCHANGED Cq!queryVars
    PROVE  Cq!QueryInv'
  BY DEF Cq!queryVars, Cq!QueryInv, Cq!QueryTypeOK, Cq!ContextIsAsked, Cq!AnswersOf

-----------------------------------------------------------------------------
(* Proofs: comparisons of a pull request *)

versions == v1
listed == v2
listedOf == v3
reading == v4

USE DEF versions, listed, listedOf, reading

LEMMA PullSafe ==
    ASSUME Pc!PullInv
    PROVE  Pc!PullTypeOK /\ Pc!HiddenOnlyWhenStale /\ Pc!ListIsOfItsVersion
  BY DEF Pc!PullInv, Pc!HiddenOnlyWhenStale, Pc!ListIsOfItsVersion, Pc!Narrowed, Pc!Hides

\* What is required of one request.
Reads(q) ==
    /\ q \in Pc!Reading
    /\ q.step # "idle" =>
          /\ q.of \in 1..Len(versions) /\ Pc!Narrowed(q.list, q.listOf)
          /\ q.step = "done" => Pc!Hides(q)

LEMMA ReadersRead ==
    Pc!PullInv <=> /\ Pc!PullTypeOK /\ Pc!Narrowed(listed, listedOf)
                   /\ \A r \in Readers : Reads(reading[r])
  BY DEF Pc!PullInv, Pc!PullTypeOK, Reads

\* A request goes on that does not write the list.
LEMMA OneReader ==
    ASSUME Pc!PullInv, NEW r \in Readers, NEW q, Reads(q),
           reading' = [reading EXCEPT ![r] = q], UNCHANGED <<versions, listed, listedOf>>
    PROVE  Pc!PullInv'
<1>1. /\ reading' \in [Readers -> Pc!Reading]
      /\ \A x \in Readers : reading'[x] = IF x = r THEN q ELSE reading[x]
  BY DEF Pc!PullInv, Pc!PullTypeOK, Reads
<1>2. \A x \in Readers : reading'[x].step # "idle" =>
          /\ reading'[x].of \in 1..Len(versions)
          /\ Pc!Narrowed(reading'[x].list, reading'[x].listOf)
          /\ reading'[x].step = "done" => Pc!Hides(reading'[x])
  BY <1>1 DEF Pc!PullInv, Reads
<1>3. QED
  BY <1>1, <1>2 DEF Pc!PullInv, Pc!PullTypeOK, Pc!Narrowed, Pc!Hides

\* Who has the list of its own version only, or none, finds every change.
LEMMA FindsAll ==
    ASSUME Pc!PullInv, NEW r \in Readers, reading[r].step = "walk",
           reading[r].listOf \subseteq {reading[r].of}
    PROVE  Pc!Found(reading[r]) = versions[reading[r].of].changed
<1> DEFINE q == reading[r]
<1>1. q.of \in 1..Len(versions) /\ Pc!Narrowed(q.list, q.listOf)
  BY DEF Pc!PullInv
<1>2. q.listOf = {} \/ q.listOf = {q.of}
  OBVIOUS
<1>3. q.list = Nothing \/ q.list = versions[q.of].changed
  BY <1>1, <1>2 DEF Pc!Narrowed
<1>4. QED
  BY <1>3 DEF Pc!Found, Pc!Searched

LEMMA PullStep ==
    ASSUME Pc!PullInv, Pc!PullNext
    PROVE  Pc!PullInv'
<1> USE Assumptions DEF Pc!VersionAssumption
<1>1. /\ versions \in Seq(Pc!Version) /\ Len(versions) \in 1..MaxVersion
      /\ \A r \in Readers : Reads(reading[r]) /\ reading[r] \in Pc!Reading
  BY ReadersRead DEF Pc!PullTypeOK, Reads
<1>2. ASSUME NEW v \in Pc!Version, Pc!Push(v) PROVE Pc!PullInv'
  <2>1. /\ versions' \in Seq(Pc!Version) /\ Len(versions') = Len(versions) + 1
        /\ Len(versions') \in 1..MaxVersion
        /\ \A i \in 1..Len(versions) : versions'[i] = versions[i]
        /\ UNCHANGED <<listed, listedOf, reading>>
    BY <1>1, <1>2 DEF Pc!Push
  <2>2. ASSUME NEW list, NEW listOf, Pc!Narrowed(list, listOf)
        PROVE  Pc!Narrowed(list, listOf)'
    <3>1. listOf \subseteq 1..Len(versions')
      BY <1>1, <2>1, <2>2 DEF Pc!Narrowed
    <3>2. ASSUME NEW w \in 1..Len(versions'), listOf = {w}
          PROVE  list = versions'[w].changed
      <4>1. w \in 1..Len(versions)
        BY <2>2, <3>2 DEF Pc!Narrowed
      <4>2. QED
        BY <2>1, <2>2, <3>2, <4>1 DEF Pc!Narrowed
    <3>3. QED
      BY <2>2, <3>1, <3>2 DEF Pc!Narrowed
  <2>3. Pc!Narrowed(listed, listedOf)'
    BY <2>1, <2>2 DEF Pc!PullInv, Pc!Narrowed
  <2>4. ASSUME NEW r \in Readers PROVE Reads(reading[r])'
    <3>1. reading'[r] = reading[r] /\ Reads(reading[r])
      BY <1>1, <2>1
    <3>2. reading[r].step # "idle" => Pc!Narrowed(reading[r].list, reading[r].listOf)'
      <4> DEFINE list == reading[r].list
                 listOf == reading[r].listOf
      <4>1. reading[r].step # "idle" => Pc!Narrowed(list, listOf)
        BY <3>1 DEF Reads
      <4>2. list' = list /\ listOf' = listOf
        BY <2>1
      <4> HIDE DEF list, listOf
      <4>3. reading[r].step # "idle" => Pc!Narrowed(list, listOf)'
        BY <2>1, <4>1, <4>2 DEF Pc!Narrowed
      <4>4. QED
        BY <4>3 DEF list, listOf
    <3>3. reading[r].step # "idle" =>
              versions'[reading[r].of] = versions[reading[r].of] /\ reading[r].of \in 1..Len(versions')
      BY <1>1, <2>1, <3>1 DEF Reads
    <3>4. QED
      BY <2>1, <3>1, <3>2, <3>3 DEF Reads, Pc!Hides
  <2>5. Pc!PullTypeOK'
    BY <1>1, <2>1 DEF Pc!PullInv, Pc!PullTypeOK
  <2>6. QED
    BY <2>1, <2>3, <2>4, <2>5 DEF Pc!PullInv, Reads
<1>3. CASE Pc!ExpireList
  BY <1>3 DEF Pc!ExpireList, Pc!Narrowed, Pc!PullInv, Pc!PullTypeOK, Pc!Hides
<1>4. ASSUME NEW r \in Readers, NEW all \in BOOLEAN, Pc!Open(r, all) PROVE Pc!PullInv'
  <2> DEFINE q == [Pc!Idle EXCEPT !.step = "read", !.all = all, !.of = Len(versions)]
  <2>1. /\ reading' = [reading EXCEPT ![r] = q] /\ UNCHANGED <<versions, listed, listedOf>>
        /\ q.step = "read" /\ q.of = Len(versions) /\ q.list = Nothing /\ q.listOf = {}
    BY <1>4 DEF Pc!Open, Pc!Idle
  <2>2. q \in Pc!Reading
    <3>1. 0 \in 0..MaxVersion /\ Len(versions) \in 0..MaxVersion
      BY <1>1
    <3>2. Pc!Idle \in Pc!Reading
      BY <3>1, Zenon DEF Pc!Idle, Pc!Reading
    <3>3. QED
      BY <3>1, <3>2 DEF Pc!Reading
  <2> HIDE DEF q
  <2>3. Reads(q)
    BY <1>1, <2>1, <2>2 DEF Reads, Pc!Narrowed
  <2>4. QED
    BY <2>1, <2>3, OneReader
<1>5. ASSUME NEW r \in Readers, Pc!ReadList(r) PROVE Pc!PullInv'
  <2>1. PICK replies \in BOOLEAN :
          reading' = [reading EXCEPT ![r].step = "walk",
                                     ![r].list = IF replies THEN listed ELSE Nothing,
                                     ![r].listOf = IF replies THEN listedOf ELSE {}]
    BY <1>5 DEF Pc!ReadList
  <2> DEFINE q == [reading[r] EXCEPT !.step = "walk",
                                     !.list = IF replies THEN listed ELSE Nothing,
                                     !.listOf = IF replies THEN listedOf ELSE {}]
  <2>2. /\ reading' = [reading EXCEPT ![r] = q] /\ reading[r].step = "read"
        /\ UNCHANGED <<versions, listed, listedOf>>
    BY <1>5, <2>1 DEF Pc!ReadList, Pc!PullInv, Pc!PullTypeOK
  <2>3. /\ q \in Pc!Reading /\ q.step = "walk" /\ q.of = reading[r].of
        /\ \/ q.list = listed /\ q.listOf = listedOf
           \/ q.list = Nothing /\ q.listOf = {}
    BY <1>1 DEF Pc!Reading, Pc!PullInv, Pc!PullTypeOK
  <2> HIDE DEF q
  <2>4. Pc!Narrowed(q.list, q.listOf)
    BY <2>3 DEF Pc!PullInv, Pc!Narrowed
  <2>5. Reads(q)
    BY <1>1, <2>2, <2>3, <2>4 DEF Reads
  <2>6. QED
    BY <2>2, <2>5, OneReader
<1>6. ASSUME NEW r \in Readers, Pc!Walk(r) PROVE Pc!PullInv'
  <2> DEFINE o == reading[r]
             found == Pc!Found(o)
             q == [o EXCEPT !.step = "done", !.found = found]
  <2>1. /\ o \in Pc!Reading /\ o.step = "walk" /\ o.of \in 1..Len(versions)
        /\ Pc!Narrowed(o.list, o.listOf) /\ versions[o.of] \in Pc!Version
    BY <1>1, <1>6 DEF Pc!Walk, Reads
  <2>2. /\ reading' = [reading EXCEPT ![r] = q] /\ UNCHANGED versions
        /\ \/ listed' = found /\ listedOf' = o.listOf \cup {o.of}
           \/ UNCHANGED <<listed, listedOf>>
    BY <1>6 DEF Pc!Walk, Pc!FilesWithChanges, Pc!PullInv, Pc!PullTypeOK
  <2>3. /\ found \subseteq versions[o.of].changed /\ found \in SUBSET ComparedFiles
        /\ (versions[o.of].changed \ found) \cap versions[o.of].diff = {}
    BY <2>1 DEF Pc!Found, Pc!Searched, Pc!Version
  <2>4. o.listOf \subseteq {o.of} => found = versions[o.of].changed
    BY <2>1, FindsAll
  <2> HIDE DEF found
  <2>5. /\ q \in Pc!Reading /\ q.step = "done" /\ q.of = o.of /\ q.found = found
        /\ q.list = o.list /\ q.listOf = o.listOf
    BY <2>1, <2>3 DEF Pc!Reading
  <2> HIDE DEF q
  <2>6. Reads(q)
    BY <2>1, <2>3, <2>4, <2>5 DEF Reads, Pc!Hides
  <2>7. Pc!Narrowed(listed, listedOf)'
    <3>1. CASE UNCHANGED <<listed, listedOf>>
      BY <2>2, <3>1 DEF Pc!PullInv, Pc!Narrowed
    <3>2. CASE listed' = found /\ listedOf' = o.listOf \cup {o.of}
      <4>1. listedOf' \subseteq 1..Len(versions) /\ listedOf' # {} /\ listed' # Nothing
        BY <2>1, <2>3, <3>2 DEF Pc!Narrowed
      <4>2. \A v \in 1..Len(versions) : listedOf' = {v} => v = o.of /\ o.listOf \subseteq {o.of}
        <5> SUFFICES ASSUME NEW v \in 1..Len(versions), listedOf' = {v}
                     PROVE  v = o.of /\ o.listOf \subseteq {o.of}
          OBVIOUS
        <5> HIDE DEF o
        <5>1. o.of \in listedOf' /\ o.listOf \subseteq listedOf'
          BY <3>2
        <5>2. QED
          BY <5>1
      <4>3. QED
        BY <2>2, <2>4, <3>2, <4>1, <4>2 DEF Pc!Narrowed
    <3>3. QED
      BY <2>2, <3>1, <3>2
  <2>8. /\ reading' \in [Readers -> Pc!Reading]
        /\ \A x \in Readers : reading'[x] = IF x = r THEN q ELSE reading[x]
    BY <2>2, <2>5 DEF Pc!PullInv, Pc!PullTypeOK
  <2>9. Pc!PullTypeOK'
    <3>1. o.listOf \cup {o.of} \subseteq 1..MaxVersion
      BY <1>1, <2>1 DEF Pc!Reading
    <3>2. listed' \in (SUBSET ComparedFiles) \cup {Nothing} /\ listedOf' \subseteq 1..MaxVersion
      BY <2>2, <2>3, <3>1 DEF Pc!PullInv, Pc!PullTypeOK
    <3>3. QED
      BY <1>1, <2>2, <2>8, <3>2 DEF Pc!PullTypeOK
  <2>10. \A x \in Readers : Reads(reading'[x])
    BY <1>1, <2>6, <2>8
  <2>11. QED
    BY <2>2, <2>7, <2>9, <2>10 DEF Pc!PullInv, Reads, Pc!Narrowed, Pc!Hides
<1>7. ASSUME NEW r \in Readers, Pc!Answer(r) PROVE Pc!PullInv'
  <2>1. 0 \in 0..MaxVersion
    OBVIOUS
  <2>2. Pc!Idle \in Pc!Reading
    BY <2>1, Zenon DEF Pc!Idle, Pc!Reading
  <2>3. Reads(Pc!Idle)
    BY <2>2 DEF Reads, Pc!Idle
  <2>4. QED
    BY <1>7, <2>3, OneReader DEF Pc!Answer
<1>8. QED
  BY <1>2, <1>3, <1>4, <1>5, <1>6, <1>7 DEF Pc!PullNext

LEMMA PullStart == Pc!PullInit => Pc!PullInv
<1> SUFFICES ASSUME Pc!PullInit PROVE Pc!PullInv
  OBVIOUS
<1>1. versions \in Seq(Pc!Version) /\ Len(versions) = 1
  <2>1. PICK v \in Pc!Version : versions = <<v>>
    BY DEF Pc!PullInit
  <2>2. QED
    BY <2>1
<1>2. Pc!Idle \in Pc!Reading /\ Pc!Idle.step = "idle"
  <2>1. 0 \in 0..MaxVersion
    BY Assumptions DEF Pc!VersionAssumption
  <2>2. QED
    BY <2>1, Zenon DEF Pc!Idle, Pc!Reading
<1>3. QED
  BY <1>1, <1>2, Assumptions DEF Pc!VersionAssumption, Pc!PullInit, Pc!PullInv, Pc!PullTypeOK,
     Pc!Narrowed

LEMMA PullStay ==
    ASSUME Pc!PullInv, UNCHANGED Pc!pullVars
    PROVE  Pc!PullInv'
  BY DEF Pc!pullVars, Pc!PullInv, Pc!PullTypeOK, Pc!Narrowed, Pc!Hides

-----------------------------------------------------------------------------
(* Proofs: fields in the archive *)

files == v2
switch == v3
cache == v4
object == v5
assigned == v6
recent == v7
overtaken == v8     \* Archive's stale
torn == v9

USE DEF files, switch, cache, object, assigned, recent, overtaken, torn

LEMMA ArchiveSafe ==
    ASSUME Ar!ArchiveInv
    PROVE  Ar!ArchiveTypeOK /\ Ar!RowHasItsValue
  BY DEF Ar!ArchiveInv

\* What is required of the object of a process, and of its cache.
Holds(o, kept) ==
    /\ o \in Ar!Object
    /\ o.step = "assigned" => Ar!Assigned(o) /\ (o.db = Nothing => kept = Nothing)

CachesAreRecent ==
    ~torn => \A p \in Processes \ overtaken :
        cache[p] # Nothing => cache[p] \in recent \/ row.db # Nothing

LEMMA ProcessesHold ==
    Ar!ArchiveInv <=> /\ Ar!ArchiveTypeOK /\ Ar!RowHasItsValue /\ CachesAreRecent
                      /\ \A p \in Processes : Holds(object[p], cache[p])
  BY DEF Ar!ArchiveInv, Ar!ArchiveTypeOK, Holds, CachesAreRecent

LEMMA ProcessesHoldNext ==
    ASSUME Ar!ArchiveTypeOK', Ar!RowHasItsValue', CachesAreRecent',
           \A p \in Processes : Holds(object[p], cache[p])'
    PROVE  Ar!ArchiveInv'
  BY DEF Ar!ArchiveInv, Holds, CachesAreRecent

\* One process goes on, or forgets what it has cached, and assigns nothing.
LEMMA OneProcess ==
    ASSUME Ar!ArchiveInv, NEW p \in Processes, NEW o \in Ar!Object, NEW kept,
           object' = [object EXCEPT ![p] = o], cache' = [cache EXCEPT ![p] = kept],
           kept \in Ar!Read \cup {Nothing}, Holds(o, kept), overtaken' \subseteq Processes,
           UNCHANGED <<row, files, switch, assigned, recent>>, torn' \in BOOLEAN,
           torn => torn', ~torn' => (o.step = "assigned" <=> object[p].step = "assigned"),
           \A q \in Processes \ {p} : q \in overtaken' <=> q \in overtaken,
           ~torn' /\ p \notin overtaken' => \/ kept \in recent \cup {Nothing} \/ row.db # Nothing
    PROVE  Ar!ArchiveInv'
<1>1. /\ object' \in [Processes -> Ar!Object]
      /\ cache' \in [Processes -> Ar!Read \cup {Nothing}]
      /\ \A q \in Processes : /\ object'[q] = IF q = p THEN o ELSE object[q]
                              /\ cache'[q] = IF q = p THEN kept ELSE cache[q]
  BY DEF Ar!ArchiveInv, Ar!ArchiveTypeOK
<1>2. Ar!ArchiveTypeOK'
  BY <1>1 DEF Ar!ArchiveInv, Ar!ArchiveTypeOK
<1>3. \A q \in Processes : Holds(object'[q], cache'[q])
  BY <1>1, ProcessesHold
<1>4. \A q \in Processes : Holds(object[q], cache[q])'
  BY <1>3 DEF Holds, Ar!Assigned
<1>5. Ar!RowHasItsValue'
  BY <1>1 DEF Ar!ArchiveInv, Ar!RowHasItsValue, Ar!FromArchive
<1>6. CachesAreRecent'
  BY <1>1, ProcessesHold DEF CachesAreRecent
<1>7. QED
  BY <1>2, <1>4, <1>5, <1>6, ProcessesHoldNext

\* What is read is recent, unless somebody has overtaken the reader.
LEMMA ReadsRecent ==
    ASSUME Ar!ArchiveInv, NEW p \in Processes, ~torn, ~Ar!Outdated(object[p])
    PROVE  IF object[p].db # Nothing THEN object[p].db \in recent
           ELSE row.db = Nothing /\ Ar!FromArchive(object[p]) \in recent
  BY DEF Ar!ArchiveInv, Ar!RowHasItsValue, Ar!Outdated, Ar!FromArchive

LEMMA ArchiveReads ==
    ASSUME Ar!ArchiveInv, NEW p \in Processes, Ar!Get(p)
    PROVE  /\ Ar!ArchiveInv'
           /\ \/ p \in overtaken \/ torn \/ Ar!Outdated(object[p])
              \/ object'[p].value \in recent
           /\ \A q \in Processes : q # p => object'[q] = object[q]
<1> USE Assumptions DEF Ar!AssignedAssumption
<1> DEFINE o == object[p]
           v == IF cache[p] = Nothing THEN Ar!FromArchive(o) ELSE cache[p]
<1>1. /\ o \in Ar!Object /\ o.step = "loaded" /\ cache[p] \in Ar!Read \cup {Nothing}
      /\ UNCHANGED <<row, files, switch, assigned, recent, torn>>
      /\ files \in [Ar!Paths -> Contents \cup {Nothing}] /\ torn \in BOOLEAN
      /\ overtaken \subseteq Processes
  BY DEF Ar!Get, Ar!ArchiveInv, Ar!ArchiveTypeOK
<1>2. Ar!FromArchive(o) \in Ar!Read
  BY <1>1 DEF Ar!FromArchive, Ar!Object, Ar!Read, Ar!Default
<1>3. CASE o.db # Nothing
  <2> DEFINE next == [o EXCEPT !.step = "read", !.value = o.db]
  <2>1. object' = [object EXCEPT ![p] = next] /\ UNCHANGED <<cache, overtaken>>
    BY <1>1, <1>3 DEF Ar!Get, Ar!ArchiveInv, Ar!ArchiveTypeOK
  <2>2. next \in Ar!Object /\ next.step = "read" /\ next.value = o.db
    BY <1>1, <1>3 DEF Ar!Object, Ar!Read
  <2> HIDE DEF next
  <2>3. cache' = [cache EXCEPT ![p] = cache[p]]
    BY <2>1 DEF Ar!ArchiveInv, Ar!ArchiveTypeOK
  <2>4. Ar!ArchiveInv'
    BY <2>2, <1>1, <2>1, <2>3, OneProcess DEF Holds, Ar!ArchiveInv
  <2>5. object'[p].value = o.db /\ \A q \in Processes : q # p => object'[q] = object[q]
    BY <2>1, <2>2 DEF Ar!ArchiveInv, Ar!ArchiveTypeOK
  <2>6. QED
    BY <1>3, <2>4, <2>5, ReadsRecent
<1>4. CASE o.db = Nothing
  <2> DEFINE next == [o EXCEPT !.step = "read", !.value = v]
  <2>1. /\ object' = [object EXCEPT ![p] = next] /\ cache' = [cache EXCEPT ![p] = v]
        /\ overtaken' = IF cache[p] # Nothing THEN overtaken
                        ELSE IF Ar!Outdated(o) THEN overtaken \cup {p} ELSE overtaken \ {p}
    BY <1>1, <1>4 DEF Ar!Get, Ar!ArchiveInv, Ar!ArchiveTypeOK
  <2>2. v \in Ar!Read
    BY <1>1, <1>2
  <2>3. cache[p] = Nothing => v = Ar!FromArchive(o)
    OBVIOUS
  <2>4. cache[p] # Nothing => v = cache[p]
    OBVIOUS
  <2> HIDE DEF v
  <2>5. next \in Ar!Object /\ next.step = "read" /\ next.value = v
    BY <1>1, <2>2 DEF Ar!Object
  <2> HIDE DEF next
  <2>6. ~torn /\ p \notin overtaken' => v \in recent \/ row.db # Nothing
    BY <2>1, <2>4, <1>4, <2>3, ReadsRecent DEF Ar!ArchiveInv
  <2>7. Ar!ArchiveInv'
    BY <2>5, <1>1, <2>1, <2>2, <2>6, OneProcess DEF Holds
  <2>8. object'[p].value = v /\ \A q \in Processes : q # p => object'[q] = object[q]
    BY <2>1, <2>5 DEF Ar!ArchiveInv, Ar!ArchiveTypeOK
  <2>9. ~torn /\ p \notin overtaken /\ ~Ar!Outdated(o) => v \in recent
    BY <1>4, <2>4, ReadsRecent, <2>3 DEF Ar!ArchiveInv
  <2>10. QED
    BY <2>7, <2>8, <2>9
<1>5. QED
  BY <1>3, <1>4

LEMMA ArchiveAssigns ==
    ASSUME Ar!ArchiveInv, NEW p \in Processes, NEW v \in Contents, Ar!Set(p, v)
    PROVE  Ar!ArchiveInv' /\ \A q \in Processes : object'[q].step \in {object[q].step, "assigned"}
<1> USE Assumptions DEF Ar!AssignedAssumption
<1> DEFINE o == object[p]
           next == [o EXCEPT !.step = "assigned", !.value = v,
                             !.db = IF switch THEN Nothing ELSE v,
                             !.path = IF switch THEN "own" ELSE @]
<1>1. /\ object \in [Processes -> Ar!Object] /\ o \in Ar!Object
      /\ files \in [Ar!Paths -> Contents \cup {Nothing}]
  BY DEF Ar!ArchiveInv, Ar!ArchiveTypeOK
<1>2. /\ object' = [q \in Processes |->
            IF q # p
            THEN [object[q] EXCEPT !.later = IF object[q].step = "assigned" THEN @ \cup {v} ELSE @]
            ELSE next]
      /\ assigned < MaxAssigned /\ assigned' = assigned + 1 /\ UNCHANGED <<row, switch, torn>>
  BY DEF Ar!Set
<1>3. /\ next \in Ar!Object /\ next.step = "assigned" /\ next.value = v
      /\ next.db = (IF switch THEN Nothing ELSE v) /\ (switch => next.path = "own")
  BY <1>1 DEF Ar!Object, Ar!Read, Ar!Paths
<1> HIDE DEF next
<1>4. ASSUME NEW q \in Processes, q # p
      PROVE  /\ object'[q] \in Ar!Object
             /\ object'[q].step = object[q].step /\ object'[q].value = object[q].value
             /\ object'[q].db = object[q].db /\ object'[q].path = object[q].path
             /\ object[q].step = "assigned" => object'[q].later = object[q].later \cup {v}
  BY <1>2, <1>4, <1>1 DEF Ar!Object
<1>5. object'[p] = next
  BY <1>2
<1>6. /\ files' = (IF switch THEN Ar!Written(o, v) ELSE files)
      /\ cache' = (IF switch THEN Ar!Cleared(p) ELSE cache)
      /\ overtaken' = (IF switch THEN (overtaken \cup {q \in Processes : cache[q] # Nothing}) \ {p}
                       ELSE overtaken)
      /\ recent' = (IF switch THEN recent \cup {v} ELSE recent)
  BY DEF Ar!Set
<1>7. /\ files' \in [Ar!Paths -> Contents \cup {Nothing}]
      /\ files'["own"] = IF switch THEN v ELSE files["own"]
  BY <1>1, <1>6 DEF Ar!Written, Ar!Paths
<1>8. /\ cache' \in [Processes -> Ar!Read \cup {Nothing}]
      /\ \A q \in Processes : cache'[q] = IF switch /\ q = p THEN Nothing ELSE cache[q]
  BY <1>6 DEF Ar!Cleared, Ar!ArchiveInv, Ar!ArchiveTypeOK
<1>9. Ar!ArchiveTypeOK'
  <2>1. object' \in [Processes -> Ar!Object]
    BY <1>2, <1>3, <1>4, <1>5
  <2>2. recent' \subseteq Ar!Read /\ overtaken' \subseteq Processes /\ assigned' \in 0..MaxAssigned
    BY <1>2, <1>6 DEF Ar!ArchiveInv, Ar!ArchiveTypeOK, Ar!Read
  <2>3. QED
    BY <1>2, <1>7, <1>8, <2>1, <2>2 DEF Ar!ArchiveInv, Ar!ArchiveTypeOK
<1>10. Ar!RowHasItsValue'
  BY <1>3, <1>5 DEF Ar!RowHasItsValue
<1>11. CachesAreRecent'
  <2>1. CASE switch
    <3>1. \A q \in Processes \ overtaken' : cache'[q] = Nothing
      BY <1>6, <1>8, <2>1
    <3>2. QED
      BY <3>1 DEF CachesAreRecent
  <2>2. CASE ~switch
    BY <1>2, <1>6, <1>8, <2>2, ProcessesHold DEF CachesAreRecent
  <2>3. QED
    BY <2>1, <2>2
<1>12. ASSUME NEW q \in Processes PROVE Holds(object[q], cache[q])'
  <2>1. CASE q = p
    BY <1>3, <1>5, <1>7, <1>8, <2>1 DEF Holds, Ar!Assigned
  <2>2. CASE q # p
    BY ProcessesHold, <1>4, <1>7, <2>2, <1>8 DEF Holds, Ar!Assigned
  <2>3. QED
    BY <2>1, <2>2
<1>13. Ar!ArchiveInv'
  BY <1>9, <1>10, <1>11, <1>12, ProcessesHoldNext
<1>14. QED
  BY <1>3, <1>4, <1>5, <1>13

LEMMA ArchiveSaves ==
    ASSUME Ar!ArchiveInv, NEW p \in Processes, Ar!Save(p)
    PROVE  Ar!ArchiveInv' /\ \A q \in Processes : object'[q].step \in {object[q].step, "none"}
<1> USE Assumptions DEF Ar!AssignedAssumption
<1> DEFINE o == object[p]
<1>1. /\ o \in Ar!Object /\ o.step = "assigned" /\ Holds(o, cache[p])
      /\ row' = [db |-> o.db, path |-> o.path] /\ recent' = {o.value} \cup o.later
      /\ overtaken' = overtaken \cup {q \in Processes \ {p} : cache[q] # Nothing}
      /\ object' = [object EXCEPT ![p] = Ar!None]
      /\ UNCHANGED <<files, switch, cache, assigned, torn>>
  BY ProcessesHold DEF Ar!Save, Holds
<1>2. Ar!None \in Ar!Object /\ Ar!None.step = "none"
  BY DEF Ar!None, Ar!Object
<1>3. /\ object' \in [Processes -> Ar!Object]
      /\ \A q \in Processes : object'[q] = IF q = p THEN Ar!None ELSE object[q]
  BY <1>1, <1>2 DEF Ar!ArchiveInv, Ar!ArchiveTypeOK
<1>4. /\ o.db \in Contents \cup {Nothing} /\ o.path \in Ar!Paths \cup {Nothing}
      /\ o.value \in Contents /\ o.later \subseteq Contents
      /\ o.db # Nothing => o.db = o.value
      /\ o.db = Nothing => /\ o.path = "own" /\ files["own"] \in {o.value} \cup o.later
                           /\ cache[p] = Nothing
  BY <1>1 DEF Holds, Ar!Assigned, Ar!Object
<1> HIDE DEF o
<1>5. row'.db = o.db /\ row'.path = o.path
  BY <1>1
<1>6. Ar!ArchiveTypeOK'
  BY <1>1, <1>4, <1>3 DEF Ar!ArchiveInv, Ar!ArchiveTypeOK, Ar!Read
<1>7. Ar!RowHasItsValue'
  <2>1. row'.db # Nothing => row'.db \in recent'
    BY <1>1, <1>4, <1>5
  <2>2. row'.db = Nothing => /\ row'.path = "own" /\ files["own"] \in recent'
                             /\ files["own"] # Nothing /\ row'.path # Nothing
    BY <1>4, <1>5, <1>1
  <2>3. files' = files
    BY <1>1
  <2>4. QED
    BY <2>1, <2>2, <2>3 DEF Ar!RowHasItsValue, Ar!FromArchive
<1>8. CachesAreRecent'
  BY <1>1, <1>4, <1>5 DEF CachesAreRecent
<1>9. \A q \in Processes : Holds(object[q], cache[q])'
  <2>1. \A q \in Processes : Holds(object'[q], cache[q])
    BY <1>2, <1>3, ProcessesHold DEF Holds
  <2>2. QED
    BY <1>1, <2>1 DEF Holds, Ar!Assigned
<1>10. QED
  BY <1>2, <1>3, <1>6, <1>7, <1>8, <1>9, ProcessesHoldNext

LEMMA ArchiveStep ==
    ASSUME Ar!ArchiveInv, Ar!ArchiveNext
    PROVE  Ar!ArchiveInv' /\ Ar!OwnWritesAreRead
<1> USE Assumptions DEF Ar!AssignedAssumption
<1>1. object \in [Processes -> Ar!Object] /\ cache \in [Processes -> Ar!Read \cup {Nothing}]
  BY DEF Ar!ArchiveInv, Ar!ArchiveTypeOK
<1>2. Ar!None \in Ar!Object /\ Ar!None.step = "none"
  BY DEF Ar!None, Ar!Object
<1>3. ASSUME NEW p \in Processes, Ar!Load(p)
      PROVE  Ar!ArchiveInv' /\ Ar!OwnWritesAreRead
  <2> DEFINE o == [Ar!None EXCEPT !.step = "loaded", !.db = row.db, !.path = row.path]
  <2>1. /\ object' = [object EXCEPT ![p] = o] /\ object[p].step # "assigned"
        /\ UNCHANGED <<row, files, switch, cache, assigned, recent, overtaken, torn>>
    BY <1>3 DEF Ar!Load
  <2>2. o \in Ar!Object /\ o.step = "loaded"
    BY DEF Ar!None, Ar!Object, Ar!ArchiveInv, Ar!ArchiveTypeOK
  <2> HIDE DEF o
  <2>3. cache' = [cache EXCEPT ![p] = cache[p]]
    BY <1>1, <2>1
  <2>4. Ar!ArchiveInv'
    BY <2>2, <1>1, <2>1, <2>3, OneProcess DEF Holds, Ar!ArchiveInv, Ar!ArchiveTypeOK
  <2>5. \A q \in Processes : object'[q].step \in {object[q].step, "loaded"}
    BY <1>1, <2>1, <2>2
  <2>6. QED
    BY <2>4, <2>5 DEF Ar!OwnWritesAreRead
<1>4. ASSUME NEW p \in Processes, Ar!Get(p)
      PROVE  Ar!ArchiveInv' /\ Ar!OwnWritesAreRead
  BY <1>4, ArchiveReads DEF Ar!OwnWritesAreRead
<1>5. ASSUME NEW p \in Processes, NEW v \in Contents, Ar!Set(p, v)
      PROVE  Ar!ArchiveInv' /\ Ar!OwnWritesAreRead
  BY <1>5, ArchiveAssigns DEF Ar!OwnWritesAreRead
<1>6. ASSUME NEW p \in Processes, Ar!Save(p)
      PROVE  Ar!ArchiveInv' /\ Ar!OwnWritesAreRead
  BY <1>6, ArchiveSaves DEF Ar!OwnWritesAreRead
<1>7. ASSUME NEW p \in Processes, Ar!Die(p)
      PROVE  Ar!ArchiveInv' /\ Ar!OwnWritesAreRead
  BY <1>7, <1>2, <1>1, OneProcess DEF Ar!Die, Holds, Ar!ArchiveInv, Ar!ArchiveTypeOK,
     Ar!OwnWritesAreRead
<1>8. ASSUME NEW p \in Processes, Ar!ReadOther(p)
      PROVE  Ar!ArchiveInv' /\ Ar!OwnWritesAreRead
  <2>1. /\ cache' = [cache EXCEPT ![p] = Nothing] /\ overtaken' = overtaken \ {p}
        /\ UNCHANGED <<row, files, switch, object, assigned, recent, torn>>
    BY <1>8 DEF Ar!ReadOther
  <2>2. object' = [object EXCEPT ![p] = object[p]]
    BY <1>1, <2>1
  <2>3. /\ Holds(object[p], Nothing) /\ object[p] \in Ar!Object /\ overtaken \subseteq Processes
        /\ torn \in BOOLEAN
    BY ProcessesHold DEF Holds, Ar!ArchiveInv, Ar!ArchiveTypeOK
  <2>4. Ar!ArchiveInv'
    BY <1>1, <2>1, <2>2, <2>3, OneProcess
  <2>5. QED
    BY <2>1, <2>4 DEF Ar!OwnWritesAreRead
<1>9. CASE Ar!Reconfigure
  BY <1>9 DEF Ar!Reconfigure, Ar!ArchiveInv, Ar!ArchiveTypeOK, Ar!RowHasItsValue,
     Ar!FromArchive, Ar!Assigned, Ar!OwnWritesAreRead
<1>10. QED
  BY <1>3, <1>4, <1>5, <1>6, <1>7, <1>8, <1>9 DEF Ar!ArchiveNext

LEMMA ArchiveStart == Ar!ArchiveInit => Ar!ArchiveInv
<1> SUFFICES ASSUME Ar!ArchiveInit PROVE Ar!ArchiveInv
  OBVIOUS
<1> USE Assumptions DEF Ar!AssignedAssumption
<1>1. PICK v \in Contents, where \in Ar!Paths \cup {"row", "nowhere"} :
          /\ row = [db |-> IF where = "row" THEN v ELSE Nothing,
                    path |-> IF where \in Ar!Paths THEN where ELSE Nothing]
          /\ files = [p \in Ar!Paths |-> IF p = where THEN v ELSE Nothing]
          /\ recent = IF where = "nowhere" THEN {Ar!Default} ELSE {v}
  BY DEF Ar!ArchiveInit
<1>2. /\ switch \in BOOLEAN /\ cache = [p \in Processes |-> Nothing] /\ assigned = 0
      /\ object = [p \in Processes |-> Ar!None] /\ overtaken = {} /\ torn = FALSE
  BY DEF Ar!ArchiveInit
<1>3. Ar!None \in Ar!Object /\ Ar!None.step = "none"
  BY DEF Ar!None, Ar!Object
<1>4. /\ row.db = (IF where = "row" THEN v ELSE Nothing)
      /\ row.path = (IF where \in Ar!Paths THEN where ELSE Nothing)
      /\ \A p \in Ar!Paths : files[p] = IF p = where THEN v ELSE Nothing
  BY <1>1
<1>5. Ar!ArchiveTypeOK
  <2>1. row \in [db : Contents \cup {Nothing}, path : Ar!Paths \cup {Nothing}]
    BY <1>1
  <2>2. recent \subseteq Ar!Read
    BY <1>1 DEF Ar!Read
  <2>3. files \in [Ar!Paths -> Contents \cup {Nothing}]
    BY <1>1
  <2>4. /\ cache \in [Processes -> Ar!Read \cup {Nothing}] /\ object \in [Processes -> Ar!Object]
        /\ assigned \in 0..MaxAssigned /\ overtaken \subseteq Processes
    BY <1>2, <1>3
  <2>5. torn \in BOOLEAN
    BY <1>2
  <2>6. QED
    BY <1>2, <2>1, <2>2, <2>3, <2>4, <2>5, Zenon DEF Ar!ArchiveTypeOK
<1>6. Ar!RowHasItsValue
  BY <1>1, <1>4 DEF Ar!RowHasItsValue, Ar!FromArchive, Ar!Paths, Ar!Default
<1>7. QED
  BY <1>2, <1>3, <1>5, <1>6 DEF Ar!ArchiveInv

LEMMA ArchiveStay ==
    ASSUME Ar!ArchiveInv, UNCHANGED Ar!archiveVars
    PROVE  Ar!ArchiveInv' /\ Ar!OwnWritesAreRead
  BY DEF Ar!archiveVars, Ar!ArchiveInv, Ar!ArchiveTypeOK, Ar!RowHasItsValue, Ar!FromArchive,
     Ar!Assigned, Ar!OwnWritesAreRead

-----------------------------------------------------------------------------
(* Proofs: what readers see *)

ReadersInv ==
    /\ part = "archive" => Ar!ArchiveInv
    /\ part = "pull" => Pc!PullInv
    /\ part = "query" => Cq!QueryInv
    /\ part = "datasets" => Ds!DatasetsInv

LEMMA ReadersStart == Init => ReadersInv
  BY ArchiveStart, PullStart, QueryStart, DatasetsStart DEF Init, ReadersInv

LEMMA ReadersStep ==
    ASSUME ReadersInv, [Next]_vars
    PROVE  ReadersInv' /\ (part = "archive" => Ar!OwnWritesAreRead)
<1>1. UNCHANGED part
  BY DEF Next, vars
<1>2. CASE part = "archive"
  BY <1>2, ArchiveStep, ArchiveStay, <1>1 DEF Next, vars, Ar!archiveVars, ReadersInv
<1>3. CASE part = "pull"
  BY <1>3, PullStep, PullStay, <1>1 DEF Next, vars, Pc!pullVars, ReadersInv
<1>4. CASE part = "query"
  BY <1>4, QueryStep, QueryStay, <1>1 DEF Next, vars, Cq!queryVars, ReadersInv
<1>5. CASE part = "datasets"
  BY <1>5, DatasetsStep, DatasetsStay, <1>1 DEF Next, vars, Ds!datasetVars, ReadersInv
<1>6. CASE part \notin {"archive", "pull", "query", "datasets"}
  BY <1>1, <1>6 DEF ReadersInv
<1>7. QED
  BY <1>2, <1>3, <1>4, <1>5, <1>6

\* Whatever the numbers of processes, requests, versions and comparisons: a field has a
\* value that was assigned to it, a request hides a change only for the list of another
\* version, what a query says is about comparisons that were processed, and measurements
\* answer for what was sent to be backfilled.
THEOREM WhatIsSeen == Spec => []ReadersSeeWhatIs
<1>1. ReadersInv /\ [Next]_vars => ReadersInv'
  BY ReadersStep
<1>2. ReadersInv => ReadersSeeWhatIs
  BY ArchiveSafe, PullSafe, QuerySafe, DatasetsSafe DEF ReadersInv, ReadersSeeWhatIs
<1>3. QED
  BY ReadersStart, <1>1, <1>2, PTL DEF Spec

-----------------------------------------------------------------------------
(* Proofs: profilings *)

profiling == v1
announcer == v2
copies == v3
unreadable == v4

USE DEF profiling, announcer, copies, unreadable

\* A set of numbers up to some one has a greatest.
LEMMA GreatestIn ==
    ASSUME NEW n \in Nat, NEW S \in SUBSET (0..n), S # {}
    PROVE  \E x \in S : \A y \in S : x >= y
<1> DEFINE T == {n - x : x \in S}
<1>1. T \subseteq Nat /\ T # {}
  <2>1. \A x \in S : n - x \in Nat
    OBVIOUS
  <2>2. QED
    BY <2>1
<1>2. PICK k \in T : \A t \in T : ~(<<t, k>> \in OpToRel(<, Nat))
  BY <1>1, NatLessThanWellFounded, WFMin
<1>3. PICK x \in S : k = n - x
  BY <1>2
<1>4. ASSUME NEW y \in S PROVE x >= y
  <2>1. n - y \in T
    OBVIOUS
  <2>2. ~(n - y < k)
    BY <1>1, <1>2, <2>1 DEF OpToRel
  <2>3. x \in Int /\ y \in Int /\ n \in Int
    OBVIOUS
  <2>4. QED
    BY <1>3, <2>2, <2>3
<1>5. QED
  BY <1>4

LEMMA ProfilingIds ==
    ASSUME Pf!ProfilingsInv
    PROVE  /\ profiling \in Seq(Pf!ProfilingRow) /\ DOMAIN profiling = 1..Len(profiling)
           /\ Len(profiling) \in Nat
           /\ \A i \in DOMAIN profiling : profiling[i] \in Pf!ProfilingRow
           /\ \A i \in DOMAIN profiling : Pf!IdOf(profiling[i].code) = i
<1>1. profiling \in Seq(Pf!ProfilingRow)
  BY DEF Pf!ProfilingsInv, Pf!ProfilingsTypeOK
<1>2. ASSUME NEW i \in DOMAIN profiling PROVE Pf!IdOf(profiling[i].code) = i
  BY DEF Pf!IdOf, Pf!ProfilingsInv, Pf!ProfilingsTypeOK
<1>3. QED
  BY <1>1, <1>2

\* The profilings that are summarized, and with them the critical files, are as before.
LEMMA FilesAreStable ==
    ASSUME Pf!ProfilingsInv, DOMAIN profiling \subseteq DOMAIN profiling',
           \A i \in DOMAIN profiling' : profiling'[i].summarized => i \in DOMAIN profiling,
           \A i \in DOMAIN profiling : /\ profiling'[i].summarized = profiling[i].summarized
                                       /\ profiling'[i].sha = profiling[i].sha,
           UNCHANGED <<copies, unreadable>>
    PROVE  \A sha \in Shas \cup {Nothing} : Pf!CriticalFiles(sha)' = Pf!CriticalFiles(sha)
<1> SUFFICES ASSUME NEW sha \in Shas \cup {Nothing}
             PROVE  Pf!CriticalFiles(sha)' = Pf!CriticalFiles(sha)
  OBVIOUS
<1> DEFINE Chosen == {i \in DOMAIN profiling : /\ profiling[i].summarized
                                               /\ sha \in {Nothing, profiling[i].sha}}
           ChosenNext == {i \in DOMAIN profiling' : /\ profiling'[i].summarized
                                                    /\ sha \in {Nothing, profiling'[i].sha}}
<1>1. Chosen = ChosenNext
  OBVIOUS
<1>2. Pf!LatestProfiling(sha)' = Pf!LatestProfiling(sha)
  BY <1>1 DEF Pf!LatestProfiling
<1>3. Pf!LatestProfiling(sha) \in {0} \cup DOMAIN profiling
  <2>1. {0} \cup Chosen \in SUBSET (0..Len(profiling)) /\ Len(profiling) \in Nat
    BY ProfilingIds
  <2>2. \E x \in {0} \cup Chosen : \A y \in {0} \cup Chosen : x >= y
    <3> HIDE DEF Chosen
    <3>1. QED
      BY <2>1, GreatestIn
  <2>3. QED
    BY <2>2 DEF Pf!LatestProfiling, Pf!Max
<1>4. \A s : Pf!FromYaml(s)' = Pf!FromYaml(s)
  BY DEF Pf!FromYaml
<1>5. QED
  BY <1>2, <1>3, <1>4 DEF Pf!CriticalFiles

LEMMA ProfilingsStep ==
    ASSUME Pf!ProfilingsInv, Pf!ProfilingsNext
    PROVE  Pf!ProfilingsInv' /\ Pf!SummariesAreKept /\ Pf!CriticalFilesAreStable
<1>1. /\ profiling \in Seq(Pf!ProfilingRow) /\ DOMAIN profiling = 1..Len(profiling)
      /\ Len(profiling) \in Nat
      /\ \A i \in DOMAIN profiling : profiling[i] \in Pf!ProfilingRow
      /\ announcer \in [Announcers -> Pf!Announcer] /\ copies \in [Shas -> 0..2]
      /\ unreadable \subseteq DOMAIN profiling
      /\ \A i, j \in DOMAIN profiling : profiling[i].code = profiling[j].code => i = j
  BY ProfilingIds DEF Pf!ProfilingsInv, Pf!ProfilingsTypeOK
<1>2. ASSUME NEW a \in Announcers, NEW c \in Codes, NEW given \in SUBSET Pf!Fields,
             Pf!GetOrCreate(a, c, given)
      PROVE  Pf!ProfilingsInv' /\ Pf!SummariesAreKept /\ Pf!CriticalFilesAreStable
  <2> DEFINE there == {i \in DOMAIN profiling : profiling[i].code = c}
             found == IF there = {} THEN Pf!Blank(c) ELSE profiling[Pf!IdOf(c)]
             next == [step |-> "read", given |-> given, row |-> found]
  <2>1. /\ profiling' = (IF there = {} THEN Append(profiling, Pf!Blank(c)) ELSE profiling)
        /\ announcer' = [announcer EXCEPT ![a] = next] /\ announcer[a].step = "idle"
        /\ UNCHANGED <<copies, unreadable>>
    BY <1>2 DEF Pf!GetOrCreate
  <2>2. Pf!Blank(c) \in Pf!ProfilingRow /\ Pf!Blank(c).code = c /\ ~Pf!Blank(c).summarized
    BY DEF Pf!Blank, Pf!ProfilingRow
  <2>3. /\ profiling' \in Seq(Pf!ProfilingRow) /\ DOMAIN profiling \subseteq DOMAIN profiling'
        /\ \A i \in DOMAIN profiling : profiling'[i] = profiling[i]
        /\ \A i \in DOMAIN profiling' \ DOMAIN profiling :
              profiling'[i] = Pf!Blank(c) /\ there = {} /\ i = Len(profiling) + 1
        /\ \E i \in DOMAIN profiling' : profiling'[i].code = c
    BY <1>1, <2>1, <2>2
  <2>4. found \in Pf!ProfilingRow /\ found.code = c
    <3>1. CASE there = {}
      BY <2>2, <3>1
    <3>2. CASE there # {}
      BY <3>2, ProfilingIds, <1>1
    <3>3. QED
      BY <3>1, <3>2
  <2> HIDE DEF found
  <2>5. next \in Pf!Announcer /\ next.step = "read" /\ next.row = found
    BY <2>4 DEF Pf!Announcer
  <2> HIDE DEF next
  <2>6. /\ announcer' \in [Announcers -> Pf!Announcer]
        /\ \A b \in Announcers : announcer'[b] = IF b = a THEN next ELSE announcer[b]
    BY <1>1, <2>1, <2>5
  <2>7. \A i, j \in DOMAIN profiling' : profiling'[i].code = profiling'[j].code => i = j
    BY <1>1, <2>2, <2>3
  <2>8. Pf!ProfilingsTypeOK'
    BY <1>1, <2>1, <2>3, <2>6, <2>7 DEF Pf!ProfilingsTypeOK
  <2>9. Pf!ReadRows'
    BY <2>3, <2>4, <2>5, <2>6 DEF Pf!ProfilingsInv, Pf!ReadRows
  <2>10. Pf!SummariesAreKept
    BY <2>3, <2>5, <2>6 DEF Pf!SummariesAreKept
  <2>11. \A sha \in Shas \cup {Nothing} : Pf!CriticalFiles(sha)' = Pf!CriticalFiles(sha)
    BY <2>2, <2>3, <2>1, FilesAreStable
  <2>12. QED
    BY <2>8, <2>9, <2>10, <2>11 DEF Pf!ProfilingsInv, Pf!CriticalFilesAreStable
    \* one row changes, and keeps its code
<1>3. ASSUME NEW i \in DOMAIN profiling, NEW row0 \in Pf!ProfilingRow,
             profiling' = [profiling EXCEPT ![i] = row0], row0.code = profiling[i].code,
             announcer' \in [Announcers -> Pf!Announcer],
             \A b \in Announcers : announcer'[b].step = "read" => announcer'[b] = announcer[b],
             UNCHANGED <<copies, unreadable>>
      PROVE  /\ Pf!ProfilingsInv' /\ DOMAIN profiling' = DOMAIN profiling
             /\ \A j \in DOMAIN profiling :
                   profiling'[j] = IF j = i THEN row0 ELSE profiling[j]
  <2>1. /\ profiling' \in Seq(Pf!ProfilingRow) /\ DOMAIN profiling' = DOMAIN profiling
        /\ \A j \in DOMAIN profiling : profiling'[j] = IF j = i THEN row0 ELSE profiling[j]
    BY <1>1, <1>3
  <2>2. \A j \in DOMAIN profiling : profiling'[j].code = profiling[j].code
    BY <1>3, <2>1
  <2>3. Pf!ProfilingsTypeOK'
    BY <1>1, <1>3, <2>1, <2>2 DEF Pf!ProfilingsTypeOK
  <2>4. Pf!ReadRows'
    BY <1>3, <2>1, <2>2 DEF Pf!ProfilingsInv, Pf!ReadRows
  <2>5. QED
    BY <2>1, <2>3, <2>4 DEF Pf!ProfilingsInv
<1>4. ASSUME NEW a \in Announcers, Pf!SaveGiven(a)
      PROVE  Pf!ProfilingsInv' /\ Pf!SummariesAreKept /\ Pf!CriticalFilesAreStable
  <2>1. PICK i \in DOMAIN profiling : profiling[i].code = announcer[a].row.code
    BY <1>4 DEF Pf!SaveGiven, Pf!ProfilingsInv, Pf!ReadRows
  <2> DEFINE new == Pf!Updated(a, profiling[i])
             next == [announcer[a] EXCEPT !.step = "done"]
  <2>2. /\ profiling' = [profiling EXCEPT ![i] = new] /\ announcer[a].step = "read"
        /\ announcer' = [announcer EXCEPT ![a] = next] /\ UNCHANGED <<copies, unreadable>>
    BY <2>1, ProfilingIds, <1>4, <1>1 DEF Pf!SaveGiven
  <2>3. /\ new \in Pf!ProfilingRow /\ new.code = profiling[i].code
        /\ new.summarized = profiling[i].summarized /\ new.sha = profiling[i].sha
        /\ new.uploaded = profiling[i].uploaded
        /\ "environment" \notin announcer[a].given => new.environment = profiling[i].environment
        /\ "version" \notin announcer[a].given => new.version = profiling[i].version
    <3>1. profiling[i] \in Pf!ProfilingRow
      BY <1>1
    <3>2. QED
      BY <3>1 DEF Pf!Updated, Pf!ProfilingRow
  <2>4. next \in Pf!Announcer /\ next.step = "done"
    BY <1>1 DEF Pf!Announcer
  <2> HIDE DEF new, next
  <2>5. /\ announcer' \in [Announcers -> Pf!Announcer]
        /\ \A b \in Announcers : announcer'[b] = IF b = a THEN next ELSE announcer[b]
    BY <1>1, <2>2, <2>4
  <2>6. /\ Pf!ProfilingsInv' /\ DOMAIN profiling' = DOMAIN profiling
        /\ \A j \in DOMAIN profiling : profiling'[j] = IF j = i THEN new ELSE profiling[j]
    BY <1>3, <2>2, <2>3, <2>4, <2>5
  <2>7. Pf!SummariesAreKept
    BY <2>3, <2>4, <2>5, <2>6 DEF Pf!SummariesAreKept
  <2>8. Pf!CriticalFilesAreStable
    BY <2>2, <2>3, <2>6, FilesAreStable DEF Pf!CriticalFilesAreStable
  <2>9. QED
    BY <2>6, <2>7, <2>8
<1>5. ASSUME NEW i \in DOMAIN profiling, Pf!UploadProfile(i)
      PROVE  Pf!ProfilingsInv' /\ Pf!SummariesAreKept /\ Pf!CriticalFilesAreStable
  <2> DEFINE new == [profiling[i] EXCEPT !.uploaded = TRUE]
  <2>1. profiling' = [profiling EXCEPT ![i] = new] /\ UNCHANGED <<announcer, copies, unreadable>>
    BY <1>1, <1>5 DEF Pf!UploadProfile
  <2>2. /\ new \in Pf!ProfilingRow /\ new.code = profiling[i].code /\ new.uploaded
        /\ new.summarized = profiling[i].summarized /\ new.sha = profiling[i].sha
        /\ new.environment = profiling[i].environment /\ new.version = profiling[i].version
    BY <1>1 DEF Pf!ProfilingRow
  <2> HIDE DEF new
  <2>3. /\ Pf!ProfilingsInv' /\ DOMAIN profiling' = DOMAIN profiling
        /\ \A j \in DOMAIN profiling : profiling'[j] = IF j = i THEN new ELSE profiling[j]
    BY <1>1, <1>3, <2>1, <2>2
  <2>4. Pf!SummariesAreKept
    BY <2>1, <2>2, <2>3 DEF Pf!SummariesAreKept
  <2>5. Pf!CriticalFilesAreStable
    BY <2>1, <2>2, <2>3, FilesAreStable DEF Pf!CriticalFilesAreStable
  <2>6. QED
    BY <2>3, <2>4, <2>5
<1>6. ASSUME NEW i \in DOMAIN profiling, Pf!LoseSummary(i)
      PROVE  Pf!ProfilingsInv' /\ Pf!SummariesAreKept /\ Pf!CriticalFilesAreStable
  BY <1>6, <1>1, FilesAreStable DEF Pf!LoseSummary, Pf!ProfilingsInv, Pf!ProfilingsTypeOK,
     Pf!ReadRows, Pf!SummariesAreKept, Pf!CriticalFilesAreStable
<1>7. ASSUME NEW i \in DOMAIN profiling, NEW sha \in Shas \cup {Nothing}, Pf!Summarize(i, sha)
      PROVE  Pf!ProfilingsInv' /\ Pf!SummariesAreKept /\ Pf!CriticalFilesAreStable
  <2> DEFINE new == [profiling[i] EXCEPT !.summarized = TRUE, !.sha = sha]
  <2>1. /\ profiling' = [profiling EXCEPT ![i] = new] /\ UNCHANGED <<announcer, copies, unreadable>>
        /\ ~profiling[i].summarized
    BY <1>1, <1>7 DEF Pf!Summarize
  <2>2. /\ new \in Pf!ProfilingRow /\ new.code = profiling[i].code /\ new.summarized
        /\ new.uploaded = profiling[i].uploaded
        /\ new.environment = profiling[i].environment /\ new.version = profiling[i].version
    BY <1>1 DEF Pf!ProfilingRow
  <2> HIDE DEF new
  <2>3. /\ Pf!ProfilingsInv' /\ DOMAIN profiling' = DOMAIN profiling
        /\ \A j \in DOMAIN profiling : profiling'[j] = IF j = i THEN new ELSE profiling[j]
    BY <1>1, <1>3, <2>1, <2>2
  <2>4. Pf!SummariesAreKept
    BY <2>1, <2>2, <2>3 DEF Pf!SummariesAreKept
  <2>5. /\ i \in {j \in DOMAIN profiling' : profiling'[j].summarized}
        /\ i \notin {j \in DOMAIN profiling : profiling[j].summarized}
    BY <2>1, <2>2, <2>3
  <2>6. QED
    BY <2>3, <2>4, <2>5 DEF Pf!CriticalFilesAreStable
<1>8. QED
  BY <1>2, <1>4, <1>5, <1>6, <1>7 DEF Pf!ProfilingsNext

LEMMA ProfilingsStart == Pf!ProfilingsInit => Pf!ProfilingsInv
  BY DEF Pf!ProfilingsInit, Pf!ProfilingsInv, Pf!ProfilingsTypeOK, Pf!ReadRows, Pf!Announcer

LEMMA ProfilingsStay ==
    ASSUME Pf!ProfilingsInv, UNCHANGED Pf!profilingVars
    PROVE  Pf!ProfilingsInv' /\ Pf!SummariesAreKept /\ Pf!CriticalFilesAreStable
<1>1. Pf!ProfilingsInv' /\ Pf!SummariesAreKept
  BY DEF Pf!profilingVars, Pf!ProfilingsInv, Pf!ProfilingsTypeOK, Pf!ReadRows,
     Pf!SummariesAreKept
<1>2. Pf!CriticalFilesAreStable
  BY FilesAreStable DEF Pf!profilingVars, Pf!CriticalFilesAreStable
<1>3. QED
  BY <1>1, <1>2

-----------------------------------------------------------------------------
(* Proofs: results of a report *)

results == v1
asker == v2
waiting == v3
at == v4
sentAt == v5
failed == v6

USE DEF results, asker, waiting, at, sentAt, failed

LEMMA ResultsSafe ==
    ASSUME Rr!ResultsInv
    PROVE  Rr!ResultsTypeOK /\ Rr!QuietResultsAreDone
<1> SUFFICES ASSUME waiting = {}, failed = {}, results # Nothing,
                    \A a \in Askers : asker[a].step \in {"idle", "done"}
             PROVE  results.state = "completed" /\ results.result >= sentAt
  BY DEF Rr!ResultsInv, Rr!QuietResultsAreDone
<1>1. ~Rr!Due
  BY DEF Rr!ResultsInv
<1>2. results \in Rr!ResultRow /\ sentAt \in Nat
  BY DEF Rr!ResultsInv, Rr!ResultsTypeOK
<1>3. results.state \in {"pending", "completed"} /\ results.result \in Nat
  BY <1>2 DEF Rr!ResultRow
<1>4. QED
  BY <1>1, <1>2, <1>3 DEF Rr!Due

LEMMA OneAsker ==
    ASSUME Rr!ResultsTypeOK, NEW a \in Askers, NEW next \in Rr!Asker,
           asker' = [asker EXCEPT ![a] = next]
    PROVE  /\ asker' \in [Askers -> Rr!Asker]
           /\ \A b \in Askers : asker'[b] = IF b = a THEN next ELSE asker[b]
  BY DEF Rr!ResultsTypeOK

LEMMA TurnTaken ==
    ASSUME Rr!ResultsTypeOK, NEW a \in Askers, NEW what, Rr!Turn(a, what)
    PROVE  /\ what = "save" => /\ asker[a].step = "first"
                               /\ asker' = [asker EXCEPT ![a] = [asker[a] EXCEPT !.step = "second"]]
           /\ what = "send" => /\ asker[a].step = "second"
                               /\ asker' = [asker EXCEPT ![a] = [asker[a] EXCEPT !.step = "done"]]
<1>1. Rr!Order["first"] = "save" /\ Rr!Order["second"] = "send"
  BY DEF Rr!Order
<1> HIDE DEF Rr!Order
<1>2. asker[a].step \in {"first", "second"} /\ Rr!Order[asker[a].step] = what
  BY DEF Rr!Turn
<1>3. asker' = [asker EXCEPT ![a] =
                   [asker[a] EXCEPT !.step = IF asker[a].step = "first" THEN "second" ELSE "done"]]
  BY DEF Rr!Turn, Rr!ResultsTypeOK
<1>4. CASE asker[a].step = "first"
  BY <1>1, <1>2, <1>3, <1>4
<1>5. CASE asker[a].step = "second"
  BY <1>1, <1>2, <1>3, <1>5
<1>6. QED
  BY <1>2, <1>4, <1>5

LEMMA ResultsStep ==
    ASSUME Rr!ResultsInv, Rr!ResultsNext
    PROVE  Rr!ResultsInv'
<1> USE Assumptions DEF Rr!ResultAssumption
<1>1. /\ Rr!ResultsTypeOK /\ sentAt <= at /\ \A a \in Askers : asker[a] \in Rr!Asker
      /\ at \in Nat /\ sentAt \in Nat /\ at \in 0..MaxResult
      /\ results # Nothing => results.result \in 0..MaxResult
  BY DEF Rr!ResultsInv, Rr!ResultsTypeOK, Rr!ResultRow
<1>2. ASSUME NEW a \in Askers, Rr!AskResults(a) PROVE Rr!ResultsInv'
  <2> DEFINE next == [step |-> "first", row |-> results]
  <2>1. /\ asker' = [asker EXCEPT ![a] = next] /\ asker[a].step = "idle"
        /\ UNCHANGED <<results, waiting, at, sentAt, failed>>
    BY <1>2 DEF Rr!AskResults
  <2>2. next \in Rr!Asker
    BY <1>1 DEF Rr!Asker, Rr!ResultsTypeOK
  <2> HIDE DEF next
  <2>3. /\ asker' \in [Askers -> Rr!Asker]
        /\ \A b \in Askers : b # a => asker'[b] = asker[b]
    BY <1>1, <2>1, <2>2, OneAsker
  <2>4. QED
    BY <1>1, <2>1, <2>3 DEF Rr!ResultsInv, Rr!ResultsTypeOK, Rr!Due
<1>3. ASSUME NEW a \in Askers, Rr!SaveResults(a) PROVE Rr!ResultsInv'
  <2> DEFINE next == [asker[a] EXCEPT !.step = "second"]
             number == IF asker[a].row = Nothing THEN 0 ELSE asker[a].row.result
             saved == [state |-> "pending", result |-> number]
  <2>1. /\ asker[a].step = "first" /\ asker' = [asker EXCEPT ![a] = next] /\ results' = saved
        /\ UNCHANGED <<waiting, at, sentAt, failed>>
    BY <1>3, <1>1, TurnTaken DEF Rr!SaveResults
  <2>2. next \in Rr!Asker /\ next.step = "second"
    BY <1>1 DEF Rr!Asker
  <2>3. number \in 0..MaxResult
    BY <1>1 DEF Rr!Asker, Rr!ResultRow
  <2> HIDE DEF number
  <2>4. saved \in Rr!ResultRow
    BY <2>3 DEF Rr!ResultRow
  <2> HIDE DEF next, saved
  <2>5. asker' \in [Askers -> Rr!Asker] /\ asker'[a].step = "second"
    BY <1>1, <2>1, <2>2, OneAsker
  <2>6. QED
    BY <1>1, <2>1, <2>4, <2>5 DEF Rr!ResultsInv, Rr!ResultsTypeOK
<1>4. ASSUME NEW a \in Askers, Rr!RefuseResults(a) PROVE Rr!ResultsInv'
  <2> DEFINE next == [asker[a] EXCEPT !.step = "done"]
  <2>1. /\ asker[a].step = "first" /\ asker' = [asker EXCEPT ![a] = next]
        /\ UNCHANGED <<results, waiting, at, sentAt, failed>>
    BY <1>1, <1>4 DEF Rr!RefuseResults, Rr!Order, Rr!ResultsTypeOK
  <2>2. next \in Rr!Asker
    BY <1>1 DEF Rr!Asker
  <2> HIDE DEF next
  <2>3. /\ asker' \in [Askers -> Rr!Asker]
        /\ \A b \in Askers : b # a => asker'[b] = asker[b]
    BY <1>1, <2>1, <2>2, OneAsker
  <2>4. QED
    BY <1>1, <2>1, <2>3 DEF Rr!ResultsInv, Rr!ResultsTypeOK, Rr!Due
<1>5. ASSUME NEW a \in Askers, Rr!SendResults(a) PROVE Rr!ResultsInv'
  <2> DEFINE next == [asker[a] EXCEPT !.step = "done"]
  <2>1. /\ asker' = [asker EXCEPT ![a] = next] /\ waiting' = waiting \cup {a}
        /\ sentAt' = at /\ UNCHANGED <<results, at, failed>>
    BY <1>1, <1>5, TurnTaken DEF Rr!SendResults
  <2>2. next \in Rr!Asker
    BY <1>1 DEF Rr!Asker
  <2> HIDE DEF next
  <2>3. asker' \in [Askers -> Rr!Asker]
    BY <1>1, <2>1, <2>2, OneAsker
  <2>4. QED
    BY <1>1, <2>1, <2>3 DEF Rr!ResultsInv, Rr!ResultsTypeOK
<1>6. ASSUME NEW a \in Askers, Rr!DieAsking(a) PROVE Rr!ResultsInv'
  <2> DEFINE next == [asker[a] EXCEPT !.step = "done"]
  <2>1. /\ asker' = [asker EXCEPT ![a] = next] /\ failed' = failed \cup {a}
        /\ UNCHANGED <<results, waiting, at, sentAt>>
    BY <1>1, <1>6 DEF Rr!DieAsking, Rr!ResultsTypeOK
  <2>2. next \in Rr!Asker
    BY <1>1 DEF Rr!Asker
  <2> HIDE DEF next
  <2>3. asker' \in [Askers -> Rr!Asker]
    BY <1>1, <2>1, <2>2, OneAsker
  <2>4. QED
    BY <1>1, <2>1, <2>3 DEF Rr!ResultsInv, Rr!ResultsTypeOK
<1>7. ASSUME NEW a \in Askers, Rr!ComputeResults(a) PROVE Rr!ResultsInv'
  <2> DEFINE computed == [state |-> "completed", result |-> at]
  <2>1. /\ waiting' = waiting \ {a} /\ UNCHANGED <<asker, at, sentAt, failed>>
        /\ results' = IF results = Nothing THEN Nothing ELSE computed
    BY <1>7 DEF Rr!ComputeResults
  <2>2. computed \in Rr!ResultRow /\ computed.state = "completed" /\ computed.result = at
    BY <1>1 DEF Rr!ResultRow
  <2> HIDE DEF computed
  <2>3. Rr!ResultsTypeOK'
    BY <1>1, <2>1, <2>2 DEF Rr!ResultsTypeOK
  <2>4. ~Rr!Due'
    BY <1>1, <2>1, <2>2 DEF Rr!Due
  <2>5. QED
    BY <1>1, <2>1, <2>3, <2>4 DEF Rr!ResultsInv
<1>8. CASE Rr!ChangeReport
  BY <1>8, <1>1 DEF Rr!ChangeReport, Rr!ResultsInv, Rr!ResultsTypeOK, Rr!Due
<1>9. QED
  BY <1>2, <1>3, <1>4, <1>5, <1>6, <1>7, <1>8 DEF Rr!ResultsNext

LEMMA ResultsStart == Rr!ResultsInit => Rr!ResultsInv
  BY Assumptions DEF Rr!ResultAssumption, Rr!ResultsInit, Rr!ResultsInv, Rr!ResultsTypeOK,
     Rr!Asker, Rr!Due

LEMMA ResultsStay ==
    ASSUME Rr!ResultsInv, UNCHANGED Rr!resultVars
    PROVE  Rr!ResultsInv'
  BY DEF Rr!resultVars, Rr!ResultsInv, Rr!ResultsTypeOK, Rr!Due

-----------------------------------------------------------------------------
(* Proofs: static and label analysis *)

snapshot == v1
archived == v2
suite == v3
scheduled == v4
complete == v5
labels == v6

USE DEF snapshot, archived, suite, scheduled, complete, labels

LEMMA AnalysisSafe ==
    ASSUME An!AnalysisInv
    PROVE  An!AnalysisTypeOK /\ An!QuietSuitesAreAnalysed /\ An!LabelsHaveSuites
  BY DEF An!AnalysisInv, An!QuietSuitesAreAnalysed, An!LinksHaveSnapshots, An!CompleteAreDue

\* The nearest of the commits H that are within reach of c, if there is any.
Nearest(c, H) ==
    LET near == {d \in 1..c : d \in H /\ c - d <= Attempts}
    IN IF near = {} THEN Nothing ELSE An!Max(near)

LEMMA NearestIsNear ==
    ASSUME NEW c \in 1..LastCommit, NEW H
    PROVE  /\ Nearest(c, H) # Nothing =>
                 Nearest(c, H) \in 1..c /\ Nearest(c, H) \in H /\ c - Nearest(c, H) <= Attempts
           /\ (Nearest(c, H) = Nothing) = (\A d \in 1..c : d \in H => d < c - Attempts)
<1> USE Assumptions DEF An!AnalysisAssumption
<1> DEFINE near == {d \in 1..c : d \in H /\ c - d <= Attempts}
<1>1. CASE near = {}
  <2>1. Nearest(c, H) = Nothing
    BY <1>1 DEF Nearest
  <2>2. \A d \in 1..c : d \in H => ~(c - d <= Attempts)
    BY <1>1
  <2>3. \A d \in 1..c : d \in H => d < c - Attempts
    BY <2>2
  <2>4. QED
    BY <2>1, <2>3
<1>2. CASE near # {}
  <2>1. near \in SUBSET (0..c) /\ c \in Nat
    OBVIOUS
  <2>2. \E x \in near : \A y \in near : x >= y
    <3> HIDE DEF near
    <3>1. QED
      BY <1>2, <2>1, GreatestIn
  <2>3. An!Max(near) \in near
    BY <2>2 DEF An!Max
  <2>4. Nearest(c, H) \in near
    BY <1>2, <2>3 DEF Nearest
  <2>5. Nearest(c, H) # Nothing
    BY <2>4
  <2>6. \E d \in 1..c : d \in H /\ ~(d < c - Attempts)
    BY <2>4
  <2>7. QED
    BY <2>4, <2>5, <2>6
<1>3. QED
  BY <1>1, <1>2

HaveSuites == {d \in 1..LastCommit : An!HasSuite(d)}

LEMMA FallbackIsNearest ==
    ASSUME NEW c \in 1..LastCommit
    PROVE  /\ An!Fallback(c) = Nearest(c, HaveSuites)
           /\ An!Fallback(c)' = Nearest(c, HaveSuites')
<1> USE Assumptions DEF An!AnalysisAssumption
<1>1. {d \in 1..c : An!HasSuite(d) /\ c - d <= Attempts}
        = {d \in 1..c : d \in HaveSuites /\ c - d <= Attempts}
  BY DEF HaveSuites
<1>2. {d \in 1..c : An!HasSuite(d)' /\ c - d <= Attempts}
        = {d \in 1..c : d \in HaveSuites' /\ c - d <= Attempts}
  BY DEF HaveSuites
<1>3. QED
  BY <1>1, <1>2 DEF An!Fallback, Nearest

\* Suites do not go away, and a label analysis is added that has two.
LEMMA LabelsStay ==
    ASSUME An!AnalysisTypeOK, An!LabelsHaveSuites,
           \A c \in 1..LastCommit : An!HasSuite(c) => An!HasSuite(c)',
           \A l \in labels' \ labels :
              /\ l.base \in 1..LastCommit /\ l.head \in 1..LastCommit
              /\ l.base # l.head /\ An!HasSuite(l.base) /\ An!HasSuite(l.head)
              /\ l.base \in (l.asked - Attempts)..l.asked
    PROVE  An!LabelsHaveSuites'
<1>1. ASSUME NEW c \in 1..LastCommit
      PROVE  (An!Fallback(c)' = Nothing) = (\A d \in 1..c : An!HasSuite(d)' => d < c - Attempts)
  <2>1. \A d \in 1..c : An!HasSuite(d)' <=> d \in HaveSuites'
    BY Assumptions DEF An!AnalysisAssumption, HaveSuites
  <2>2. An!Fallback(c)' = Nearest(c, HaveSuites')
    BY FallbackIsNearest
  <2>3. \A H : (Nearest(c, H) = Nothing) = (\A d \in 1..c : d \in H => d < c - Attempts)
    BY NearestIsNear
  <2>4. (Nearest(c, HaveSuites') = Nothing)
          = (\A d \in 1..c : d \in HaveSuites' => d < c - Attempts)
    BY <2>3
  <2>5. (\A d \in 1..c : d \in HaveSuites' => d < c - Attempts)
          = (\A d \in 1..c : An!HasSuite(d)' => d < c - Attempts)
    BY <2>1, Assumptions DEF An!AnalysisAssumption
  <2>6. QED
    BY <2>2, <2>4, <2>5
<1>2. \A l \in labels : l.base \in 1..LastCommit /\ l.head \in 1..LastCommit
  BY DEF An!AnalysisTypeOK
<1>3. \A l \in labels' :
          /\ l.base # l.head /\ An!HasSuite(l.base)' /\ An!HasSuite(l.head)'
          /\ l.base \in (l.asked - Attempts)..l.asked
  BY <1>2 DEF An!LabelsHaveSuites
<1>4. QED
  BY <1>1, <1>3 DEF An!LabelsHaveSuites

\* One suite goes on, without a file of it being taken back.
LEMMA OneSuite ==
    ASSUME An!AnalysisInv, NEW s \in Suites, NEW next \in An!Suite,
           suite' = [suite EXCEPT ![s] = next],
           \/ suite[s].step = "none"
           \/ next.commit = suite[s].commit /\ next.files = suite[s].files,
           next.step # "none", suite[s].step = "answered" => next.step = "answered",
           \A h \in next.known \cup next.linked : snapshot'[h] # "none",
           next.step \in {"listed", "answered"} => next.linked = next.files,
           snapshot' \in [Hashes -> {"none", "created", "valid"}],
           \A h \in Hashes : /\ snapshot[h] # "none" => snapshot'[h] # "none"
                             /\ snapshot[h] = "valid" => snapshot'[h] = "valid",
           scheduled \subseteq scheduled', scheduled' \subseteq Suites,
           UNCHANGED <<archived, complete, labels>>
    PROVE  An!AnalysisInv'
<1>1. /\ suite' \in [Suites -> An!Suite]
      /\ \A t \in Suites : suite'[t] = IF t = s THEN next ELSE suite[t]
      /\ \A t \in Suites : suite[t] \in An!Suite
  BY DEF An!AnalysisInv, An!AnalysisTypeOK
<1>2. An!AnalysisTypeOK'
  BY <1>1 DEF An!AnalysisInv, An!AnalysisTypeOK
<1>3. \A t \in Suites : /\ suite[t].known \cup suite[t].linked \subseteq Hashes
                        /\ suite[t].files \subseteq Hashes
  BY <1>1 DEF An!Suite
<1>4. An!LinksHaveSnapshots'
  BY <1>1, <1>3 DEF An!AnalysisInv, An!LinksHaveSnapshots
<1>5. An!CompleteAreDue'
  BY <1>1, <1>3 DEF An!CompleteAreDue, An!AnalysisInv, An!AnalysisTypeOK
<1>6. \A c \in 1..LastCommit : An!HasSuite(c) => An!HasSuite(c)'
  BY <1>1 DEF An!HasSuite
<1>7. An!LabelsHaveSuites'
  BY <1>6, LabelsStay DEF An!AnalysisInv
<1>8. QED
  BY <1>2, <1>4, <1>5, <1>7 DEF An!AnalysisInv

LEMMA OneStep ==
    ASSUME An!AnalysisTypeOK, NEW s \in Suites, NEW step,
           suite' = [suite EXCEPT ![s].step = step]
    PROVE  suite' = [suite EXCEPT ![s] = [suite[s] EXCEPT !.step = step]]
  BY DEF An!AnalysisTypeOK

LEMMA AnalysisStep ==
    ASSUME An!AnalysisInv, An!AnalysisNext
    PROVE  An!AnalysisInv'
<1>1. /\ An!AnalysisTypeOK /\ \A s \in Suites : suite[s] \in An!Suite
      /\ \A s \in Suites : suite[s].files \subseteq Hashes
      /\ \A s \in Suites : \A h \in suite[s].known \cup suite[s].linked : snapshot[h] # "none"
      /\ \A s \in Suites : suite[s].step \in {"listed", "answered"} =>
                                suite[s].linked = suite[s].files
      /\ snapshot \in [Hashes -> {"none", "created", "valid"}] /\ scheduled \subseteq Suites
  BY DEF An!AnalysisInv, An!AnalysisTypeOK, An!Suite, An!LinksHaveSnapshots
<1>2. ASSUME NEW s \in Suites, NEW c \in 1..LastCommit, NEW F \in SUBSET Hashes,
             An!CreateSuite(s, c, F)
      PROVE  An!AnalysisInv'
  <2> DEFINE next == [An!NoSuite EXCEPT !.step = "created", !.commit = c, !.files = F]
  <2>1. /\ suite[s].step = "none" /\ suite' = [suite EXCEPT ![s] = next]
        /\ UNCHANGED <<snapshot, archived, scheduled, complete, labels>>
    BY <1>2 DEF An!CreateSuite
  <2>2. /\ next \in An!Suite /\ next.step = "created" /\ next.known = {} /\ next.linked = {}
    <3>1. /\ An!NoSuite \in An!Suite /\ An!NoSuite.known = {} /\ An!NoSuite.linked = {}
          /\ c \in 0..LastCommit
      BY Assumptions DEF An!AnalysisAssumption, An!Suite, An!NoSuite
    <3>2. QED
      BY <3>1 DEF An!Suite
  <2> HIDE DEF next
  <2>3. QED
    BY <1>1, <2>1, <2>2, OneSuite
<1>3. ASSUME NEW s \in Suites, An!MapExisting(s)
      PROVE  An!AnalysisInv'
  <2> DEFINE have == {h \in suite[s].files : snapshot[h] # "none"}
             next == [suite[s] EXCEPT !.step = "mapped", !.known = have]
  <2>1. /\ suite[s].step = "created" /\ suite' = [suite EXCEPT ![s] = next]
        /\ UNCHANGED <<snapshot, archived, scheduled, complete, labels>>
    BY <1>1, <1>3 DEF An!MapExisting, An!AnalysisTypeOK
  <2>2. have \subseteq Hashes /\ \A h \in have : snapshot[h] # "none"
    BY <1>1
  <2> HIDE DEF have
  <2>3. /\ next \in An!Suite /\ next.step = "mapped" /\ next.known = have
        /\ next.linked = suite[s].linked /\ next.commit = suite[s].commit
        /\ next.files = suite[s].files
    BY <1>1, <2>2 DEF An!Suite
  <2> HIDE DEF next
  <2>4. QED
    BY <1>1, <2>1, <2>2, <2>3, OneSuite
<1>4. ASSUME NEW s \in Suites, NEW h \in Hashes, An!LinkFile(s, h)
      PROVE  An!AnalysisInv'
  <2> DEFINE next == [suite[s] EXCEPT !.linked = @ \cup {h}]
  <2>1. /\ suite[s].step = "mapped" /\ suite' = [suite EXCEPT ![s] = next]
        /\ UNCHANGED <<archived, scheduled, complete, labels>>
    BY <1>1, <1>4 DEF An!LinkFile, An!AnalysisTypeOK
  <2>2. /\ next \in An!Suite /\ next.step = "mapped" /\ next.known = suite[s].known
        /\ next.linked = suite[s].linked \cup {h} /\ next.commit = suite[s].commit
        /\ next.files = suite[s].files
    BY <1>1, <2>1 DEF An!Suite
  <2> HIDE DEF next
  <2>3. /\ snapshot' \in [Hashes -> {"none", "created", "valid"}] /\ snapshot'[h] # "none"
        /\ \A g \in Hashes : /\ snapshot[g] # "none" => snapshot'[g] # "none"
                             /\ snapshot[g] = "valid" => snapshot'[g] = "valid"
    BY <1>4, <1>1 DEF An!LinkFile
  <2>4. suite[s].known \cup suite[s].linked \subseteq Hashes
    BY <1>1 DEF An!Suite
  <2>5. \A g \in next.known \cup next.linked : snapshot'[g] # "none"
    BY <1>1, <2>4, <2>2, <2>3
  <2>6. QED
    BY <1>1, <2>1, <2>2, <2>3, <2>5, OneSuite
<1>5. ASSUME NEW s \in Suites, NEW step \in {"listed", "answered", "dead"},
             suite[s].step \in {"created", "mapped", "listed"},
             step = "listed" => suite[s].linked = suite[s].files,
             step = "answered" => suite[s].step = "listed",
             suite' = [suite EXCEPT ![s].step = step],
             scheduled \subseteq scheduled', scheduled' \subseteq Suites,
             UNCHANGED <<snapshot, archived, complete, labels>>
      PROVE  An!AnalysisInv'
  <2> DEFINE next == [suite[s] EXCEPT !.step = step]
  <2>1. suite' = [suite EXCEPT ![s] = next]
    BY <1>1, <1>5, OneStep
  <2>2. /\ next \in An!Suite /\ next.step = step /\ next.known = suite[s].known
        /\ next.linked = suite[s].linked /\ next.commit = suite[s].commit
        /\ next.files = suite[s].files
    BY <1>1 DEF An!Suite
  <2> HIDE DEF next
  <2>3. QED
    BY <1>1, <1>5, <2>1, <2>2, OneSuite
<1>6. ASSUME NEW s \in Suites, An!ListFiles(s) \/ An!Announce(s) \/ An!Fail(s)
      PROVE  An!AnalysisInv'
  BY <1>1, <1>5, <1>6 DEF An!ListFiles, An!Announce, An!Fail
<1>7. ASSUME NEW s \in Suites, NEW h \in Hashes, An!Put(s, h)
      PROVE  An!AnalysisInv'
  BY <1>7, LabelsStay DEF An!Put, An!AnalysisInv, An!HasSuite, An!AnalysisTypeOK,
     An!LinksHaveSnapshots, An!CompleteAreDue
<1>8. ASSUME NEW s \in Suites, An!Finish(s)
      PROVE  An!AnalysisInv'
  BY <1>8, LabelsStay DEF An!Finish, An!Rescheduled, An!AnalysisInv, An!HasSuite,
     An!CompleteAreDue, An!AnalysisTypeOK, An!LinksHaveSnapshots
<1>9. ASSUME NEW s \in Suites, An!Analyse(s)
      PROVE  An!AnalysisInv'
  <2>1. /\ scheduled' = scheduled \ {s} /\ UNCHANGED <<archived, suite, complete, labels>>
        /\ snapshot' = [h \in Hashes |->
                            IF h \in suite[s].files \cap archived THEN "valid" ELSE snapshot[h]]
    BY <1>9 DEF An!Analyse
  <2>2. /\ snapshot' \in [Hashes -> {"none", "created", "valid"}]
        /\ \A h \in Hashes : /\ snapshot[h] # "none" => snapshot'[h] # "none"
                             /\ snapshot[h] = "valid" => snapshot'[h] = "valid"
                             /\ h \in suite[s].files \cap archived => snapshot'[h] = "valid"
    BY <1>1, <2>1
  <2>3. An!LabelsHaveSuites'
    BY <2>1, LabelsStay DEF An!AnalysisInv, An!HasSuite
  <2>4. An!LinksHaveSnapshots'
    BY <1>1, <2>1, <2>2 DEF An!Suite, An!LinksHaveSnapshots
  <2>5. An!CompleteAreDue'
    BY <2>1, <1>1, <2>2 DEF An!CompleteAreDue, An!AnalysisInv, An!AnalysisTypeOK
  <2>6. An!AnalysisTypeOK'
    BY <1>1, <2>1, <2>2 DEF An!AnalysisTypeOK
  <2>7. QED
    BY <2>3, <2>4, <2>5, <2>6 DEF An!AnalysisInv
<1>10. ASSUME NEW base \in 1..LastCommit, NEW head \in 1..LastCommit,
              An!RequestLabels(base, head)
       PROVE  An!AnalysisInv'
  <2> DEFINE near == An!Fallback(base)
             new == [asked |-> base, base |-> near, head |-> head]
  <2>1. /\ An!HasSuite(head) /\ near # Nothing /\ near # head /\ labels' = labels \cup {new}
        /\ UNCHANGED <<snapshot, archived, suite, scheduled, complete>>
    BY <1>10 DEF An!RequestLabels
  <2>2. near \in 1..base /\ near \in HaveSuites /\ base - near <= Attempts
    <3>1. near = Nearest(base, HaveSuites)
      BY FallbackIsNearest
    <3>2. QED
      BY <2>1, <3>1, NearestIsNear
  <2>3. /\ near \in 1..LastCommit /\ An!HasSuite(near) /\ near \in (base - Attempts)..base
    BY <2>2, Assumptions DEF HaveSuites, An!AnalysisAssumption
  <2> HIDE DEF near
  <2>4. new \in [asked : 1..LastCommit, base : 1..LastCommit, head : 1..LastCommit]
    BY <2>3
  <2>5. An!LabelsHaveSuites'
    BY <2>1, <2>3, <1>1, LabelsStay DEF An!HasSuite, An!AnalysisInv
  <2>6. QED
    BY <2>1, <2>4, <2>5
    DEF An!AnalysisInv, An!AnalysisTypeOK, An!LinksHaveSnapshots, An!CompleteAreDue
<1>11. QED
  BY <1>2, <1>3, <1>4, <1>6, <1>7, <1>8, <1>9, <1>10 DEF An!AnalysisNext

LEMMA AnalysisStart == An!AnalysisInit => An!AnalysisInv
<1> SUFFICES ASSUME An!AnalysisInit PROVE An!AnalysisInv
  OBVIOUS
<1>1. /\ An!NoSuite \in An!Suite /\ An!NoSuite.step = "none" /\ An!NoSuite.known = {}
      /\ An!NoSuite.linked = {}
  BY Assumptions DEF An!NoSuite, An!Suite, An!AnalysisAssumption
<1>2. \A s \in Suites : suite[s] = An!NoSuite
  BY DEF An!AnalysisInit
<1>3. An!AnalysisTypeOK /\ An!LinksHaveSnapshots /\ An!CompleteAreDue
  BY <1>1, <1>2
  DEF An!AnalysisInit, An!AnalysisTypeOK, An!LinksHaveSnapshots, An!CompleteAreDue
<1>4. \A c \in 1..LastCommit : (An!Fallback(c) = Nothing)
          = (\A d \in 1..c : d \in HaveSuites => d < c - Attempts)
  BY FallbackIsNearest, NearestIsNear
<1>5. HaveSuites = {} /\ \A c \in 1..LastCommit : ~An!HasSuite(c)
  BY <1>1, <1>2 DEF HaveSuites, An!HasSuite
<1>6. \A c \in 1..LastCommit : \A d \in 1..c : d \in 1..LastCommit
  BY Assumptions DEF An!AnalysisAssumption
<1>7. An!LabelsHaveSuites
  BY <1>4, <1>5, <1>6 DEF An!AnalysisInit, An!LabelsHaveSuites
<1>8. QED
  BY <1>3, <1>7 DEF An!AnalysisInv

LEMMA AnalysisStay ==
    ASSUME An!AnalysisInv, UNCHANGED An!analysisVars
    PROVE  An!AnalysisInv'
<1>1. An!LabelsHaveSuites'
  BY LabelsStay DEF An!AnalysisInv, An!analysisVars, An!HasSuite
<1>2. QED
  BY <1>1 DEF An!analysisVars, An!AnalysisInv, An!AnalysisTypeOK, An!LinksHaveSnapshots,
     An!CompleteAreDue

-----------------------------------------------------------------------------
(* Proofs: uploads of a commit *)

flags == v1
upload == v2
stored == v3
lapsed == v4
deletion == v5
completion == v6

USE DEF flags, upload, stored, lapsed, deletion, completion

LEMMA SessionsCount ==
    ASSUME NEW S
    PROVE  (Up!IsFiniteSet(S) <=> IsFiniteSet(S)) /\ Up!Cardinality(S) = Cardinality(S)
  BY DEF Up!IsFiniteSet, IsFiniteSet, Up!Cardinality, Cardinality

\* A set of natural numbers has a least one.
LEMMA LeastIn ==
    ASSUME NEW S \in SUBSET Nat, S # {}
    PROVE  \E x \in S : \A y \in S : x <= y
<1>1. PICK x \in S : \A y \in S : ~(<<y, x>> \in OpToRel(<, Nat))
  BY NatLessThanWellFounded, WFMin
<1>2. \A y \in S : ~(y < x)
  BY <1>1 DEF OpToRel
<1>3. QED
  BY <1>2

\* What FlagsAreNamed says of the upload r.
Named(r) ==
    LET placed == {flags[i].name : i \in r.flags}
    IN /\ r.flags \subseteq DOMAIN flags /\ placed \subseteq r.names
       /\ \A i, j \in r.flags : flags[i].name = flags[j].name => i = j
       /\ r.step = "looked" => r.missing \in r.names \ placed
       /\ r.step \in {"report", "dispatch", "sent", "done"} => placed = r.names

\* What StepsAreInOrder says of the upload r, whose report is there or has expired.
InOrder(r, there) ==
    /\ r.step = "none" => r = Up!NoUpload
    /\ r.step \in {"session", "looked"} => r.kind = "cli"
    /\ r.state \in {"processed", "error"} => r.step = "done"
    /\ r.kind = "v2" /\ r.step \in {"dispatch", "sent", "done"} => there

LEMMA EachUpload ==
    /\ Up!FlagsAreNamed <=> \A u \in Requests : Named(upload[u])
    /\ Up!FlagsAreNamed' <=> \A u \in Requests : Named(upload[u])'
    /\ Up!StepsAreInOrder <=> \A u \in Requests : InOrder(upload[u], u \in stored \cup lapsed)
    /\ Up!StepsAreInOrder'
          <=> \A u \in Requests : InOrder(upload'[u], u \in stored' \cup lapsed')
<1>1. Up!FlagsAreNamed <=> \A u \in Requests : Named(upload[u])
  BY DEF Up!FlagsAreNamed, Named, Up!Placed
<1>2. Up!FlagsAreNamed' <=> \A u \in Requests : Named(upload[u])'
  BY DEF Up!FlagsAreNamed, Named, Up!Placed
<1>3. Up!StepsAreInOrder <=> \A u \in Requests : InOrder(upload[u], u \in stored \cup lapsed)
  BY DEF Up!StepsAreInOrder, InOrder
<1>4. Up!StepsAreInOrder'
          <=> \A u \in Requests : InOrder(upload'[u], u \in stored' \cup lapsed')
  BY DEF Up!StepsAreInOrder, InOrder
<1>5. QED
  BY <1>1, <1>2, <1>3, <1>4

LEMMA SessionTypes ==
    ASSUME Up!SessionsInv
    PROVE  /\ flags \in Seq([name : FlagNames, deleted : BOOLEAN])
           /\ Len(flags) \in Nat /\ DOMAIN flags = 1..Len(flags)
           /\ \A i \in DOMAIN flags : flags[i].name \in FlagNames /\ flags[i].deleted \in BOOLEAN
           /\ upload \in [Requests -> Up!UploadRow]
           /\ \A u \in Requests : upload[u] \in Up!UploadRow
           /\ stored \subseteq Requests /\ lapsed \subseteq Requests
           /\ deletion \in {0} \cup DOMAIN flags /\ completion \in Up!Completion
<1>1. /\ flags \in Seq([name : FlagNames, deleted : BOOLEAN])
      /\ upload \in [Requests -> Up!UploadRow]
      /\ stored \subseteq Requests /\ lapsed \subseteq Requests
      /\ deletion \in {0} \cup DOMAIN flags /\ completion \in Up!Completion
  BY DEF Up!SessionsInv, Up!SessionsTypeOK
<1>2. \A i \in DOMAIN flags : flags[i] \in [name : FlagNames, deleted : BOOLEAN]
  <2> DEFINE Row == [name : FlagNames, deleted : BOOLEAN]
  <2> HIDE DEF Row
  <2>1. flags \in Seq(Row)
    BY <1>1 DEF Row
  <2>2. \A i \in DOMAIN flags : flags[i] \in Row
    BY <2>1
  <2>3. QED
    BY <2>2 DEF Row
<1>3. \A i \in DOMAIN flags : flags[i].name \in FlagNames /\ flags[i].deleted \in BOOLEAN
  BY <1>2
<1>4. Len(flags) \in Nat /\ DOMAIN flags = 1..Len(flags)
  BY <1>1
<1>5. QED
  BY <1>1, <1>3, <1>4

\* The first row of a name is one, and no later than the others.
LEMMA FirstOf ==
    ASSUME NEW rows, NEW n \in Nat, rows \subseteq 1..n, rows # {}
    PROVE  /\ Up!Min(rows) \in rows /\ \A i \in rows : Up!Min(rows) <= i
<1>1. \E x \in rows : \A y \in rows : x <= y
  BY LeastIn
<1>2. QED
  BY <1>1 DEF Up!Min

LEMMA FirstIs ==
    ASSUME Up!SessionsInv, NEW n
    PROVE  /\ Up!First(n) = 0 => Up!Rows(n) = {}
           /\ Up!First(n) # 0 => /\ Up!First(n) \in DOMAIN flags /\ flags[Up!First(n)].name = n
                                 /\ \A i \in Up!Rows(n) : Up!First(n) <= i
<1>1. Up!Rows(n) \subseteq 1..Len(flags) /\ Len(flags) \in Nat
  BY SessionTypes DEF Up!Rows
<1>2. CASE Up!Rows(n) = {}
  BY <1>2 DEF Up!First
<1>3. CASE Up!Rows(n) # {}
  <2>1. /\ Up!First(n) \in Up!Rows(n) /\ \A i \in Up!Rows(n) : Up!First(n) <= i
    BY <1>1, <1>3, FirstOf DEF Up!First
  <2>2. Up!First(n) \in DOMAIN flags /\ flags[Up!First(n)].name = n /\ Up!First(n) # 0
    BY <1>1, <2>1 DEF Up!Rows
  <2>3. QED
    BY <2>1, <2>2
<1>4. QED
  BY <1>2, <1>3

\* As many flags as names, if they are of different names.
LEMMA OneRowPerName ==
    ASSUME NEW n \in Nat, NEW S, S \subseteq 1..n, NEW rows,
           \A i, j \in S : rows[i].name = rows[j].name => i = j
    PROVE  Cardinality({rows[i].name : i \in S}) = Cardinality(S)
<1> DEFINE T == {rows[i].name : i \in S}
           f == [i \in S |-> rows[i].name]
<1>1. IsFiniteSet(S)
  <2>1. IsFiniteSet(1..n)
    BY FS_Interval
  <2>2. QED
    BY <2>1, FS_Subset
<1>2. f \in [S -> T] /\ \A i \in S : f[i] = rows[i].name
  OBVIOUS
<1>3. \A a, b \in DOMAIN f : f[a] = f[b] => a = b
  BY <1>2
<1>4. \A t \in T : \E i \in S : f[i] = t
  BY <1>2
<1> HIDE DEF f, T
<1>5. f \in Bijection(S, T)
  BY <1>2, <1>3, <1>4 DEF Bijection, Injection, Surjection, IsInjective
<1>6. Cardinality(T) = Cardinality(S)
  BY <1>1, <1>5, FS_Bijection DEF ExistsBijection
<1>7. QED
  BY <1>6 DEF T

InState(state, s) == Cardinality({u \in Requests : state[u] = s})
Sessions(state, none) == Cardinality({u \in Requests : state[u] # none})

LEMMA ThreeApart ==
    ASSUME NEW A, NEW B, NEW C, IsFiniteSet(A), IsFiniteSet(B), IsFiniteSet(C),
           A \cap B = {}, (A \cup B) \cap C = {}
    PROVE  Cardinality((A \cup B) \cup C) = Cardinality(A) + Cardinality(B) + Cardinality(C)
<1>1. Cardinality({}) = 0
  BY FS_EmptySet
<1>2. /\ IsFiniteSet(A \cup B)
      /\ Cardinality(A \cup B) = Cardinality(A) + Cardinality(B) - Cardinality(A \cap B)
  BY FS_Union
<1>3. Cardinality((A \cup B) \cup C)
        = Cardinality(A \cup B) + Cardinality(C) - Cardinality((A \cup B) \cap C)
  BY <1>2, FS_Union
<1>4. Cardinality(A \cap B) = 0 /\ Cardinality((A \cup B) \cap C) = 0
  BY <1>1, Zenon
<1>5. Cardinality(A) \in Nat /\ Cardinality(B) \in Nat /\ Cardinality(C) \in Nat
  BY FS_CardinalityType
<1>6. QED
  BY <1>2, <1>3, <1>4, <1>5

Apart(state, none, blank, good, bad) ==
    /\ none \notin {blank, good, bad} /\ blank \notin {good, bad} /\ good # bad
    /\ \A u \in Requests : state[u] \in {none, blank, good, bad}

LEMMA PartsAddUp ==
    ASSUME NEW none, NEW blank, NEW good, NEW bad, NEW state,
           Apart(state, none, blank, good, bad)
    PROVE  /\ \A s : InState(state, s) \in Nat
           /\ InState(state, blank) + InState(state, good) + InState(state, bad)
                 = Sessions(state, none)
<1> DEFINE Those(s) == {u \in Requests : state[u] = s}
           A == Those(blank)
           B == Those(good)
           C == Those(bad)
<1>1. IsFiniteSet(Requests)
  BY Assumptions, SessionsCount DEF Up!RequestsAssumption
<1>2. \A s : IsFiniteSet(Those(s)) /\ Cardinality(Those(s)) \in Nat
  <2>1. \A s : Those(s) \in SUBSET Requests
    OBVIOUS
  <2> HIDE DEF Those
  <2>2. QED
    BY <1>1, <2>1, FS_Subset, FS_CardinalityType
<1>3. A \cap B = {} /\ (A \cup B) \cap C = {}
  BY DEF Apart
<1>4. {u \in Requests : state[u] # none} = (A \cup B) \cup C
  BY DEF Apart
<1>5. \A s : InState(state, s) = Cardinality(Those(s))
  BY DEF InState
<1>6. /\ IsFiniteSet(A) /\ IsFiniteSet(B) /\ IsFiniteSet(C)
      /\ InState(state, blank) = Cardinality(A) /\ InState(state, good) = Cardinality(B)
      /\ InState(state, bad) = Cardinality(C)
  BY <1>2, <1>5
<1>7. \A s : InState(state, s) \in Nat
  BY <1>2, <1>5
<1> HIDE DEF Those, A, B, C
<1>8. Cardinality((A \cup B) \cup C) = Cardinality(A) + Cardinality(B) + Cardinality(C)
  BY <1>3, <1>6, ThreeApart
<1>9. QED
  BY <1>4, <1>6, <1>7, <1>8 DEF Sessions

SessionStates == {"none", "", "processed", "error"}
Begun == ""

\* The uploads that have a session, counted by their states.
LEMMA StatesAddUp ==
    ASSUME NEW state \in [Requests -> SessionStates]
    PROVE  /\ \A s : InState(state, s) \in Nat
           /\ InState(state, Begun) + InState(state, "processed") + InState(state, "error")
                 = Sessions(state, "none")
<1>1. /\ "none" \notin {Begun, "processed", "error"} /\ Begun \notin {"processed", "error"}
      /\ "processed" # "error"
      /\ \A x \in SessionStates : x \in {"none", Begun, "processed", "error"}
  BY Zenon DEF Begun, SessionStates
<1>2. Apart(state, "none", Begun, "processed", "error")
  BY <1>1 DEF Apart
<1>3. QED
  BY <1>2, PartsAddUp

\* Sessions are not taken back: if those of before are still there, and those that were
\* processed are processed, no more is counted of them than before.
LEMMA CountsGrow ==
    ASSUME NEW old \in [Requests -> SessionStates], NEW new \in [Requests -> SessionStates],
           \A u \in Requests : /\ old[u] # "none" => new[u] # "none"
                               /\ old[u] = "processed" => new[u] = "processed"
    PROVE  /\ InState(old, "processed") <= InState(new, "processed")
           /\ InState(old, Begun) + InState(old, "processed") + InState(old, "error")
                 <= InState(new, Begun) + InState(new, "processed") + InState(new, "error")
<1>1. IsFiniteSet(Requests)
  BY Assumptions, SessionsCount DEF Up!RequestsAssumption
<1>2. \A S, T : S \subseteq T /\ T \subseteq Requests => Cardinality(S) <= Cardinality(T)
  BY <1>1, FS_Subset
<1>3. InState(old, "processed") <= InState(new, "processed")
  BY <1>2 DEF InState
<1>4. Cardinality({u \in Requests : old[u] # "none"})
        <= Cardinality({u \in Requests : new[u] # "none"})
  BY <1>2
<1>5. QED
  BY <1>3, <1>4, StatesAddUp DEF Sessions

States == [u \in Requests |-> upload[u].state]

LEMMA CountedStates ==
    ASSUME Up!SessionsInv
    PROVE  /\ States \in [Requests -> SessionStates]
           /\ \A s : Up!InState(s) = InState(States, s)
           /\ Up!Uploaded = InState(States, Begun) + InState(States, "processed")
                                + InState(States, "error")
<1>1. \A u \in Requests : upload[u].state \in SessionStates
  BY SessionTypes DEF Up!UploadRow, SessionStates
<1>2. \A s : {u \in Requests : upload[u].state = s} = {u \in Requests : States[u] = s}
  BY DEF States
<1>3. \A s : Up!InState(s) = InState(States, s)
  BY <1>2, SessionsCount DEF Up!InState, InState
<1>4. Up!Uploaded = InState(States, Begun) + InState(States, "processed")
                       + InState(States, "error")
  BY <1>3, Zenon DEF Up!Uploaded, Begun
<1>5. QED
  BY <1>1, <1>3, <1>4 DEF States

LEMMA CountedNext ==
    ASSUME upload' \in [Requests -> Up!UploadRow]
    PROVE  /\ States' \in [Requests -> SessionStates]
           /\ \A s : Up!InState(s)' = InState(States', s)
           /\ Up!Uploaded' = InState(States', Begun) + InState(States', "processed")
                                 + InState(States', "error")
<1>1. \A u \in Requests : upload'[u].state \in SessionStates
  BY DEF Up!UploadRow, SessionStates
<1>2. \A s : {u \in Requests : upload'[u].state = s} = {u \in Requests : States'[u] = s}
  BY DEF States
<1>3. \A s : Cardinality({u \in Requests : upload'[u].state = s}) = InState(States', s)
  BY <1>2 DEF InState
<1>4. \A s : Up!InState(s)' = InState(States', s)
  BY <1>3, SessionsCount DEF Up!InState
<1>5. Up!Uploaded' = InState(States', Begun) + InState(States', "processed")
                        + InState(States', "error")
  BY <1>4, Zenon DEF Up!Uploaded, Begun
<1>6. QED
  BY <1>1, <1>4, <1>5 DEF States

\* A session goes on.
LEMMA CountsStay ==
    ASSUME Up!SessionsInv, upload' \in [Requests -> Up!UploadRow], UNCHANGED completion,
           \A u \in Requests : /\ upload[u].state # "none" => upload'[u].state # "none"
                               /\ upload[u].state = "processed" => upload'[u].state = "processed"
    PROVE  Up!CountsAreBehind'
<1>1. \A u \in Requests : States[u] = upload[u].state /\ States'[u] = upload'[u].state
  BY DEF States
<1>2. /\ InState(States, "processed") <= InState(States', "processed")
      /\ InState(States, Begun) + InState(States, "processed") + InState(States, "error")
            <= InState(States', Begun) + InState(States', "processed") + InState(States', "error")
  BY <1>1, CountedStates, CountedNext, CountsGrow
<1>3. /\ Up!InState("processed") <= Up!InState("processed")'
      /\ Up!Uploaded <= Up!Uploaded'
  BY <1>2, CountedStates, CountedNext
<1>4. /\ Up!InState("processed") \in Nat /\ Up!InState("processed")' \in Nat
      /\ Up!Uploaded \in Nat /\ Up!Uploaded' \in Nat
  BY CountedStates, CountedNext, StatesAddUp
<1>5. completion.total \in Nat /\ completion.processing \in Nat /\ completion.failed \in Nat
  BY SessionTypes DEF Up!Completion
<1>6. QED
  BY <1>3, <1>4, <1>5 DEF Up!SessionsInv, Up!CountsAreBehind

LEMMA SessionsSafe ==
    ASSUME Up!SessionsInv
    PROVE  /\ Up!SessionsTypeOK /\ Up!OldestRowHasTheRest /\ Up!ReportsAreFound
           /\ Up!CompletionIsCautious
<1>1. Up!SessionsTypeOK
  BY DEF Up!SessionsInv
<1>2. ASSUME NEW i \in DOMAIN flags, i # Up!First(flags[i].name)
      PROVE  Cardinality({u \in Requests : i \in upload[u].flags}) = 1
  <2>1. PICK u \in Requests : \A v \in Requests : i \in upload[v].flags <=> v = u
    BY <1>2 DEF Up!SessionsInv, Up!LaterRowsHaveOne
  <2>2. {v \in Requests : i \in upload[v].flags} = {u}
    BY <2>1
  <2>3. QED
    BY <2>2, FS_Singleton
<1>3. ASSUME NEW u \in Requests, upload[u].step \in {"dispatch", "sent", "done"}
      PROVE  /\ Up!Placed(u) = upload[u].names
             /\ Cardinality(upload[u].flags) = Cardinality(upload[u].names)
  <2>1. /\ upload[u].flags \subseteq DOMAIN flags /\ Up!Placed(u) = upload[u].names
        /\ \A i, j \in upload[u].flags : flags[i].name = flags[j].name => i = j
    BY <1>3 DEF Up!SessionsInv, Up!FlagsAreNamed
  <2>2. Cardinality({flags[i].name : i \in upload[u].flags}) = Cardinality(upload[u].flags)
    <3>1. upload[u].flags \subseteq 1..Len(flags) /\ Len(flags) \in Nat
      BY <2>1, SessionTypes
    <3>2. QED
      BY <2>1, <3>1, OneRowPerName
  <2>3. QED
    BY <2>1, <2>2 DEF Up!Placed
<1>4. Up!ReportsAreFound
  BY DEF Up!SessionsInv, Up!StepsAreInOrder, Up!ReportsAreFound
<1>5. Up!CompletionIsCautious
  BY CountedStates, StatesAddUp, SessionTypes DEF Up!Completion, Up!SessionsInv,
     Up!CountsAreBehind, Up!CompletionIsCautious
<1>6. Up!OldestRowHasTheRest
  BY <1>2, <1>3, SessionsCount DEF Up!OldestRowHasTheRest
<1>7. QED
  BY <1>1, <1>4, <1>5, <1>6

\* One upload goes on, with more flags than before, each the first of its name.
LEMMA OneUpload ==
    ASSUME Up!SessionsInv, NEW u \in Requests, NEW next \in Up!UploadRow,
           upload' = [upload EXCEPT ![u] = next], UNCHANGED <<flags, deletion, completion>>,
           Named(next), upload[u].flags \subseteq next.flags,
           \A i \in next.flags \ upload[u].flags : i = Up!First(flags[i].name),
           stored' \subseteq Requests, lapsed' \subseteq Requests,
           stored \cup lapsed \subseteq stored' \cup lapsed',
           InOrder(next, u \in stored' \cup lapsed'),
           upload[u].state # "none" => next.state # "none",
           upload[u].state = "processed" => next.state = "processed"
    PROVE  Up!SessionsInv'
<1>1. /\ upload' \in [Requests -> Up!UploadRow]
      /\ \A v \in Requests : upload'[v] = IF v = u THEN next ELSE upload[v]
  BY SessionTypes
<1>2. Up!FlagsAreNamed'
  BY EachUpload, <1>1 DEF Up!SessionsInv, Named
<1>3. Up!LaterRowsHaveOne'
  BY <1>1 DEF Up!LaterRowsHaveOne, Up!First, Up!Rows, Up!SessionsInv
<1>4. Up!StepsAreInOrder'
  BY EachUpload, <1>1 DEF Up!SessionsInv, InOrder
<1>5. Up!CountsAreBehind'
  BY <1>1, CountsStay
<1>6. QED
  BY <1>1, <1>2, <1>3, <1>4, <1>5 DEF Up!SessionsInv, Up!SessionsTypeOK

LEMMA OneSession ==
    ASSUME Up!SessionsInv, NEW u \in Requests
    PROVE  /\ upload[u] \in Up!UploadRow /\ Named(upload[u])
           /\ InOrder(upload[u], u \in stored \cup lapsed)
           /\ Up!Placed(u) = {flags[i].name : i \in upload[u].flags}
           /\ upload[u].step = "none" => upload[u].flags = {} /\ upload[u].state = "none"
<1>1. Named(upload[u]) /\ InOrder(upload[u], u \in stored \cup lapsed)
  BY EachUpload DEF Up!SessionsInv
<1>2. upload[u].step = "none" => upload[u].flags = {} /\ upload[u].state = "none"
  BY <1>1 DEF InOrder, Up!NoUpload
<1>3. QED
  BY <1>1, <1>2, SessionTypes DEF Up!Placed

LEMMA StartsInOrder ==
    ASSUME Up!SessionsInv, NEW u \in Requests, NEW next \in Up!UploadRow,
           upload[u].step = "none", upload' = [upload EXCEPT ![u] = next],
           UNCHANGED <<flags, stored, lapsed, deletion, completion>>,
           next.flags = {}, next.state \notin {"processed", "error"},
           \/ next.step = "session" /\ next.kind = "cli"
           \/ next.step = "report" /\ next.names = {}
    PROVE  Up!SessionsInv'
<1>1. /\ Up!SessionsInv /\ upload[u].flags = {} /\ upload[u].state = "none"
      /\ stored \subseteq Requests /\ lapsed \subseteq Requests
  BY OneSession, SessionTypes
<1>2. Named(next) /\ InOrder(next, u \in stored' \cup lapsed')
  BY DEF Named, InOrder
<1>3. QED
  BY <1>1, <1>2, OneUpload

LEMMA SessionOpens ==
    ASSUME Up!SessionsInv, NEW u \in Requests,
           \/ \E N \in SUBSET FlagNames : Up!StartUpload(u, N)
           \/ \E kind \in UploadKinds : Up!StartLegacy(u, kind)
    PROVE  Up!SessionsInv'
<1>1. /\ Up!NoUpload \in Up!UploadRow /\ Up!NoUpload.flags = {} /\ Up!NoUpload.names = {}
      /\ Up!NoUpload.state = "none"
  BY DEF Up!NoUpload, Up!UploadRow
<1>2. ASSUME NEW N \in SUBSET FlagNames, Up!StartUpload(u, N)
      PROVE  Up!SessionsInv'
  <2> DEFINE next == [Up!NoUpload EXCEPT !.step = "session", !.kind = "cli", !.names = N,
                                         !.state = ""]
  <2>1. /\ upload[u].step = "none" /\ "cli" \in UploadKinds
        /\ upload' = [upload EXCEPT ![u] = next]
        /\ UNCHANGED <<flags, stored, lapsed, deletion, completion>>
    BY <1>2, Zenon DEF Up!StartUpload
  <2>2. /\ next \in Up!UploadRow /\ next.flags = {} /\ next.state \notin {"processed", "error"}
        /\ next.step = "session" /\ next.kind = "cli"
    BY <1>1, <2>1 DEF Up!UploadRow
  <2> HIDE DEF next
  <2>3. QED
    BY <2>1, <2>2, StartsInOrder
<1>3. ASSUME NEW kind \in UploadKinds, Up!StartLegacy(u, kind)
      PROVE  Up!SessionsInv'
  <2> DEFINE next == [Up!NoUpload EXCEPT !.step = "report", !.kind = kind]
  <2>1. /\ upload[u].step = "none" /\ upload' = [upload EXCEPT ![u] = next]
        /\ UNCHANGED <<flags, stored, lapsed, deletion, completion>>
    BY <1>3 DEF Up!StartLegacy
  <2>2. /\ next \in Up!UploadRow /\ next.flags = {} /\ next.state \notin {"processed", "error"}
        /\ next.step = "report" /\ next.names = {}
    BY <1>1 DEF Up!UploadRow
  <2> HIDE DEF next
  <2>3. QED
    BY <2>1, <2>2, StartsInOrder
<1>4. QED
  BY <1>2, <1>3

LEMMA FlagFound ==
    ASSUME Up!SessionsInv, NEW u \in Requests, NEW n \in FlagNames, Up!FindFlag(u, n)
    PROVE  Up!SessionsInv'
<1>1. /\ upload[u] \in Up!UploadRow /\ Named(upload[u])
      /\ InOrder(upload[u], u \in stored \cup lapsed)
      /\ upload[u].step = "session" /\ n \in upload[u].names
      /\ n \notin {flags[i].name : i \in upload[u].flags}
      /\ UNCHANGED <<flags, stored, lapsed, deletion, completion>>
      /\ stored \subseteq Requests /\ lapsed \subseteq Requests
      /\ upload \in [Requests -> Up!UploadRow]
  BY OneSession, SessionTypes DEF Up!FindFlag
<1>2. CASE Up!First(n) = 0
  <2> DEFINE next == [upload[u] EXCEPT !.step = "looked", !.missing = n]
  <2>1. upload' = [upload EXCEPT ![u] = next]
    BY <1>1, <1>2 DEF Up!FindFlag
  <2>2. /\ next \in Up!UploadRow /\ next.step = "looked" /\ next.missing = n
        /\ next.flags = upload[u].flags /\ next.names = upload[u].names
        /\ next.kind = upload[u].kind /\ next.state = upload[u].state
    BY <1>1 DEF Up!UploadRow
  <2> HIDE DEF next
  <2>3. Named(next) /\ InOrder(next, u \in stored' \cup lapsed')
    BY <1>1, <2>2 DEF Named, InOrder
  <2>4. QED
    BY <1>1, <2>1, <2>2, <2>3, OneUpload
<1>3. CASE Up!First(n) # 0
  <2> DEFINE f == Up!First(n)
             next == [upload[u] EXCEPT !.flags = @ \cup {f}]
  <2>1. upload' = [upload EXCEPT ![u] = next]
    BY <1>1, <1>3 DEF Up!FindFlag
  <2>2. f \in DOMAIN flags /\ flags[f].name = n /\ f = Up!First(flags[f].name) /\ f \in Nat
    BY <1>3, FirstIs, SessionTypes
  <2> HIDE DEF f
  <2>3. /\ next \in Up!UploadRow /\ next.step = "session" /\ next.names = upload[u].names
        /\ next.flags = upload[u].flags \cup {f}
        /\ next.kind = upload[u].kind /\ next.state = upload[u].state
    BY <1>1, <2>2 DEF Up!UploadRow
  <2> HIDE DEF next
  <2>4. Named(next)
    BY <1>1, <2>2, <2>3 DEF Named
  <2>5. InOrder(next, u \in stored' \cup lapsed')
    BY <1>1, <2>3 DEF InOrder
  <2>6. \A i \in next.flags \ upload[u].flags : i = Up!First(flags[i].name)
    BY <2>2, <2>3
  <2>7. QED
    BY <1>1, <2>1, <2>3, <2>4, <2>5, <2>6, OneUpload
<1>4. QED
  BY <1>2, <1>3

\* A step of an upload that has all of its flags, or whose report comes or goes.
LEMMA UploadGoesOn ==
    ASSUME Up!SessionsInv, NEW u \in Requests,
           \/ Up!SetFlags(u) \/ Up!StoreReport(u) \/ Up!Dispatch(u)
           \/ Up!PutReport(u) \/ Up!Lapse(u) \/ Up!ProcessUpload(u)
    PROVE  Up!SessionsInv'
<1>1. /\ upload[u] \in Up!UploadRow /\ Named(upload[u])
      /\ InOrder(upload[u], u \in stored \cup lapsed)
      /\ Up!Placed(u) = {flags[i].name : i \in upload[u].flags}
      /\ stored \subseteq Requests /\ lapsed \subseteq Requests
      /\ upload \in [Requests -> Up!UploadRow]
  BY OneSession, SessionTypes
<1>2. ASSUME NEW step \in {"dispatch", "sent", "done"},
             upload' = [upload EXCEPT ![u].step = step],
             UNCHANGED <<flags, lapsed, deletion, completion>>,
             stored \subseteq stored', stored' \subseteq stored \cup {u},
             upload[u].step \in {"session", "report", "dispatch"},
             {flags[i].name : i \in upload[u].flags} = upload[u].names,
             upload[u].kind = "v2" => u \in stored' \cup lapsed'
      PROVE  Up!SessionsInv'
  <2> DEFINE next == [upload[u] EXCEPT !.step = step]
  <2>1. upload' = [upload EXCEPT ![u] = next]
    BY <1>1, <1>2
  <2>2. /\ next \in Up!UploadRow /\ next.step = step /\ next.flags = upload[u].flags
        /\ next.names = upload[u].names /\ next.kind = upload[u].kind
        /\ next.state = upload[u].state
    BY <1>1 DEF Up!UploadRow
  <2> HIDE DEF next
  <2>3. Named(next) /\ InOrder(next, u \in stored' \cup lapsed')
    BY <1>1, <1>2, <2>2 DEF Named, InOrder
  <2>4. QED
    BY <1>1, <1>2, <2>1, <2>2, <2>3, OneUpload
<1>3. ASSUME Up!SetFlags(u) PROVE Up!SessionsInv'
  BY <1>3, <1>1, <1>2 DEF Up!SetFlags, InOrder
<1>4. ASSUME Up!StoreReport(u) PROVE Up!SessionsInv'
  BY <1>4, <1>1, <1>2 DEF Up!StoreReport, Up!AfterStoring, Named
<1>5. ASSUME Up!Dispatch(u) PROVE Up!SessionsInv'
  BY <1>5, <1>1, <1>2 DEF Up!Dispatch, Named, InOrder
<1>6. ASSUME Up!PutReport(u) \/ Up!Lapse(u) PROVE Up!SessionsInv'
  BY <1>1, <1>6, OneUpload DEF Up!PutReport, Up!Lapse, InOrder
<1>7. ASSUME Up!ProcessUpload(u) PROVE Up!SessionsInv'
  <2> DEFINE state == IF u \in stored THEN "processed" ELSE "error"
             next == [upload[u] EXCEPT !.step = "done", !.state = state]
  <2>1. /\ upload[u].step = "sent" /\ UNCHANGED <<flags, stored, lapsed, deletion, completion>>
        /\ upload' = [upload EXCEPT ![u] = next]
    BY <1>1, <1>7 DEF Up!ProcessUpload
  <2>2. /\ next \in Up!UploadRow /\ next.step = "done" /\ next.flags = upload[u].flags
        /\ next.names = upload[u].names /\ next.kind = upload[u].kind
        /\ next.state \in {"processed", "error"}
    BY <1>1 DEF Up!UploadRow
  <2> HIDE DEF next
  <2>3. upload[u].state # "processed"
    BY <1>1, <2>1 DEF InOrder
  <2>4. Named(next) /\ InOrder(next, u \in stored' \cup lapsed')
    BY <1>1, <2>1, <2>2 DEF Named, InOrder
  <2>5. QED
    BY <1>1, <2>1, <2>2, <2>3, <2>4, OneUpload
<1>8. QED
  BY <1>3, <1>4, <1>5, <1>6, <1>7

\* Rows are added and marked, but keep their names: the first of a name remains the first.
LEMMA FirstStays ==
    ASSUME Up!SessionsInv, Len(flags') \in Nat, DOMAIN flags' = 1..Len(flags'),
           DOMAIN flags \subseteq DOMAIN flags',
           \A i \in DOMAIN flags : flags'[i].name = flags[i].name,
           \A i \in DOMAIN flags' \ DOMAIN flags : \A j \in DOMAIN flags : j < i,
           NEW n, Up!First(n) # 0
    PROVE  Up!First(n)' = Up!First(n)
<1> DEFINE f == Up!First(n)
           rows == {i \in DOMAIN flags' : flags'[i].name = n}
<1>1. f \in DOMAIN flags /\ flags[f].name = n /\ \A i \in Up!Rows(n) : f <= i
  BY FirstIs
<1>2. /\ f \in rows /\ \A i \in rows : f <= i /\ i \in Nat
      /\ rows \subseteq 1..Len(flags')
  <2>1. ASSUME NEW i \in rows PROVE f <= i
    <3>1. CASE i \in DOMAIN flags
      BY <1>1, <2>1, <3>1 DEF Up!Rows
    <3>2. CASE i \notin DOMAIN flags
      BY <1>1, <2>1, <3>2
    <3>3. QED
      BY <3>1, <3>2
  <2>2. QED
    BY <1>1, <2>1
<1> HIDE DEF f
<1>3. Up!First(n)' = Up!Min(rows)
  BY <1>2 DEF Up!First, Up!Rows
<1> HIDE DEF rows
<1>4. Up!Min(rows) \in rows /\ \A i \in rows : Up!Min(rows) <= i
  BY <1>2, FirstOf
<1>5. Up!Min(rows) = f
  <2>1. f <= Up!Min(rows) /\ Up!Min(rows) <= f
    BY <1>2, <1>4
  <2>2. f \in Nat /\ Up!Min(rows) \in Nat
    BY <1>2, <1>4
  <2>3. QED
    BY <2>1, <2>2
<1>6. QED
  BY <1>3, <1>5 DEF f

LEMMA LaterRowsNext ==
    ASSUME \A i \in DOMAIN flags' : \A n : flags'[i].name = n /\ i # Up!First(n)' =>
              \E w \in Requests : \A v \in Requests : i \in upload'[v].flags <=> v = w
    PROVE  Up!LaterRowsHaveOne'
  BY DEF Up!LaterRowsHaveOne, Up!First, Up!Rows

LEMMA FlagCreated ==
    ASSUME Up!SessionsInv, NEW u \in Requests, Up!CreateFlag(u)
    PROVE  Up!SessionsInv'
<1> DEFINE new == Len(flags) + 1
           entry == [name |-> upload[u].missing, deleted |-> FALSE]
           next == [upload[u] EXCEPT !.step = "session", !.missing = Nothing,
                                     !.flags = @ \cup {new}]
<1>1. /\ upload[u] \in Up!UploadRow /\ Named(upload[u])
      /\ InOrder(upload[u], u \in stored \cup lapsed)
      /\ upload \in [Requests -> Up!UploadRow]
      /\ flags \in Seq([name : FlagNames, deleted : BOOLEAN])
      /\ Len(flags) \in Nat /\ DOMAIN flags = 1..Len(flags) /\ new \in Nat
      /\ \A v \in Requests : Named(upload[v])
  BY OneSession, SessionTypes, EachUpload DEF Up!SessionsInv
<1>2. /\ upload[u].step = "looked" /\ flags' = Append(flags, entry)
      /\ upload' = [upload EXCEPT ![u] = next]
      /\ UNCHANGED <<stored, lapsed, deletion, completion>>
  BY <1>1 DEF Up!CreateFlag
<1>3. /\ upload[u].missing \in upload[u].names /\ upload[u].names \subseteq FlagNames
      /\ upload[u].missing \notin {flags[i].name : i \in upload[u].flags}
      /\ entry \in [name : FlagNames, deleted : BOOLEAN] /\ entry.name = upload[u].missing
  BY <1>1, <1>2 DEF Named, Up!UploadRow
<1>4. /\ next \in Up!UploadRow /\ next.step = "session" /\ next.flags = upload[u].flags \cup {new}
      /\ next.names = upload[u].names /\ next.kind = upload[u].kind
      /\ next.state = upload[u].state
  BY <1>1 DEF Up!UploadRow
<1> HIDE DEF next, entry
<1>5. /\ flags' \in Seq([name : FlagNames, deleted : BOOLEAN])
      /\ Len(flags') = new /\ DOMAIN flags' = 1..new
      /\ \A i \in DOMAIN flags : flags'[i] = flags[i]
      /\ flags'[new] = entry
  <2> DEFINE Row == [name : FlagNames, deleted : BOOLEAN]
  <2> HIDE DEF Row
  <2>1. flags \in Seq(Row) /\ entry \in Row
    BY <1>1, <1>3 DEF Row
  <2>2. flags' \in Seq(Row) /\ Len(flags') = new /\ DOMAIN flags' = 1..new
        /\ (\A i \in DOMAIN flags : flags'[i] = flags[i]) /\ flags'[new] = entry
    BY <1>2, <2>1
  <2>3. QED
    BY <2>2 DEF Row
<1>6. /\ \A i \in DOMAIN flags : i \in DOMAIN flags' /\ flags'[i].name = flags[i].name /\ i # new
      /\ \A i \in DOMAIN flags' : i \in DOMAIN flags \/ i = new
      /\ new \in DOMAIN flags' /\ flags'[new].name = upload[u].missing
      /\ \A j \in DOMAIN flags : j < new
  BY <1>1, <1>3, <1>5
<1>7. /\ upload' \in [Requests -> Up!UploadRow]
      /\ \A v \in Requests : upload'[v] = IF v = u THEN next ELSE upload[v]
  BY <1>1, <1>2, <1>4
<1> HIDE DEF new
<1>8. Up!FlagsAreNamed'
  <2>1. ASSUME NEW v \in Requests, v # u PROVE Named(upload[v])'
    BY <1>1, <1>6, <1>7, <2>1 DEF Named
  <2>2. Named(upload[u])'
    <3>1. /\ upload'[u].flags = upload[u].flags \cup {new} /\ upload'[u].names = upload[u].names
          /\ upload'[u].step = "session"
      BY <1>4, <1>7
    <3>2. QED
      BY <1>1, <1>3, <1>6, <3>1 DEF Named
  <2>3. QED
    BY <2>1, <2>2, EachUpload
<1>9. Up!LaterRowsHaveOne'
  <2> SUFFICES ASSUME NEW i \in DOMAIN flags', NEW n, flags'[i].name = n, i # Up!First(n)'
               PROVE  \E w \in Requests : \A v \in Requests : i \in upload'[v].flags <=> v = w
    BY LaterRowsNext
  <2>1. CASE i = new
    <3>1. \A v \in Requests : new \notin upload[v].flags
      BY <1>1, <1>6 DEF Named
    <3>2. QED
      BY <1>4, <1>7, <2>1, <3>1
  <2>2. CASE i # new
    <3>1. i \in DOMAIN flags /\ flags[i].name = n
      BY <1>6, <2>2
    <3>2. Up!First(n) # 0
      BY <3>1, FirstIs DEF Up!Rows
    <3>3. Up!First(n)' = Up!First(n)
      BY <1>1, <1>5, <1>6, <3>2, FirstStays
    <3>4. PICK w \in Requests : \A v \in Requests : i \in upload[v].flags <=> v = w
      BY <3>1, <3>3 DEF Up!SessionsInv, Up!LaterRowsHaveOne
    <3>5. QED
      BY <1>4, <1>7, <2>2, <3>4
  <2>3. QED
    BY <2>1, <2>2
<1>10. Up!StepsAreInOrder'
  BY EachUpload, <1>1, <1>2, <1>4, <1>7 DEF Up!SessionsInv, InOrder
<1>11. Up!CountsAreBehind'
  BY <1>2, <1>4, <1>7, CountsStay
<1>12. QED
  BY <1>2, <1>5, <1>6, <1>7, <1>8, <1>9, <1>10, <1>11 DEF Up!SessionsInv, Up!SessionsTypeOK

LEMMA RowReplaced ==
    ASSUME NEW Row, NEW s \in Seq(Row), NEW i \in DOMAIN s, NEW entry \in Row,
           NEW t, t = [s EXCEPT ![i] = entry]
    PROVE  /\ t \in Seq(Row) /\ Len(t) = Len(s) /\ DOMAIN t = DOMAIN s
           /\ \A j \in DOMAIN s : t[j] = IF j = i THEN entry ELSE s[j]
<1>1. t \in Seq(Row) /\ DOMAIN t = DOMAIN s /\ Len(t) = Len(s)
  OBVIOUS
<1>2. \A j \in DOMAIN s : t[j] = IF j = i THEN entry ELSE s[j]
  OBVIOUS
<1>3. QED
  BY <1>1, <1>2

LEMMA FlagMarked ==
    ASSUME Up!SessionsInv, Up!MarkDeleted
    PROVE  Up!SessionsInv'
<1>1. /\ flags \in Seq([name : FlagNames, deleted : BOOLEAN])
      /\ Len(flags) \in Nat /\ DOMAIN flags = 1..Len(flags) /\ deletion \in DOMAIN flags
      /\ deletion' = 0 /\ flags' = [flags EXCEPT ![deletion].deleted = TRUE]
      /\ UNCHANGED <<upload, stored, lapsed, completion>>
      /\ upload \in [Requests -> Up!UploadRow]
      /\ \A i \in DOMAIN flags : i \in Nat
  BY SessionTypes DEF Up!MarkDeleted
<1> DEFINE Row == [name : FlagNames, deleted : BOOLEAN]
           entry == [flags[deletion] EXCEPT !.deleted = TRUE]
<1>2. \A r \in Row : [r EXCEPT !.deleted = TRUE] \in Row
                     /\ [r EXCEPT !.deleted = TRUE].name = r.name
  BY Zenon
<1> HIDE DEF Row
<1>3. flags \in Seq(Row)
  BY <1>1 DEF Row
<1>4. entry \in Row /\ entry.name = flags[deletion].name
  <2>1. flags[deletion] \in Row
    BY <1>1, <1>3
  <2>2. QED
    BY <1>2, <2>1
<1>5. flags' = [flags EXCEPT ![deletion] = entry]
  BY <1>1
<1> HIDE DEF entry
<1>6. /\ flags' \in Seq(Row) /\ Len(flags') = Len(flags) /\ DOMAIN flags' = DOMAIN flags
      /\ \A i \in DOMAIN flags : flags'[i] = IF i = deletion THEN entry ELSE flags[i]
  BY <1>1, <1>3, <1>4, <1>5, RowReplaced
<1>7. \A i \in DOMAIN flags : flags'[i].name = flags[i].name
  BY <1>4, <1>6
<1>8. Up!FlagsAreNamed'
  BY EachUpload, <1>1, <1>6, <1>7 DEF Up!SessionsInv, Named
<1>9. Up!LaterRowsHaveOne'
  BY LaterRowsNext, <1>6, <1>7, FirstIs, <1>1, FirstStays DEF Up!Rows, Up!SessionsInv,
     Up!LaterRowsHaveOne
<1>10. Up!StepsAreInOrder'
  BY <1>1 DEF Up!SessionsInv, Up!StepsAreInOrder
<1>11. Up!CountsAreBehind'
  BY <1>1, CountsStay
<1>12. QED
  BY <1>1, <1>6, <1>8, <1>9, <1>10, <1>11 DEF Row, Up!SessionsInv, Up!SessionsTypeOK

LEMMA UploadsCounted ==
    ASSUME Up!SessionsInv, Up!CountUploads \/ Up!ListUploads \/ Up!AnswerCompletion
    PROVE  Up!SessionsInv'
<1>1. /\ completion \in Up!Completion /\ UNCHANGED <<flags, upload, stored, lapsed, deletion>>
      /\ upload' \in [Requests -> Up!UploadRow]
  BY SessionTypes DEF Up!CountUploads, Up!ListUploads, Up!AnswerCompletion
<1>2. /\ \A s : Up!InState(s)' = Up!InState(s)
      /\ Up!Uploaded' = Up!Uploaded
      /\ \A s : Up!InState(s) \in Nat
      /\ Up!Uploaded \in Nat
  <2>1. \A s : Up!InState(s)' = Up!InState(s)
    BY <1>1 DEF Up!InState
  <2>2. Up!Uploaded' = Up!Uploaded
    BY <1>1 DEF Up!Uploaded, Up!InState
  <2>3. \A s : Up!InState(s) \in Nat
    BY CountedStates, StatesAddUp
  <2>4. \A s : InState(States, s) \in Nat
    BY CountedStates, StatesAddUp
  <2>5. Up!Uploaded \in Nat
    BY <2>4, CountedStates
  <2>6. QED
    BY <2>1, <2>2, <2>3, <2>5
<1>3. completion' \in Up!Completion /\ Up!CountsAreBehind'
  <2>1. CASE Up!CountUploads
    <3> DEFINE next == [completion EXCEPT !.total = Up!Uploaded, !.step = "counted"]
    <3>1. completion' = next
      BY <1>1, <2>1, Zenon DEF Up!CountUploads, Up!Counted
    <3>2. next \in Up!Completion /\ next.step = "counted" /\ next.total = Up!Uploaded
      BY <1>1, <1>2 DEF Up!Completion
    <3> HIDE DEF next
    <3>3. QED
      BY <1>2, <3>1, <3>2 DEF Up!CountsAreBehind
  <2>2. CASE Up!ListUploads
    <3> DEFINE next == [completion EXCEPT !.step = "listed", !.processing = Up!InState(Begun),
                                          !.failed = Up!InState("error")]
    <3>1. completion.step = "counted" /\ completion' = next
      BY <2>2, Zenon DEF Up!ListUploads, Begun
    <3>2. /\ next \in Up!Completion /\ next.step = "listed" /\ next.total = completion.total
          /\ next.processing = Up!InState(Begun) /\ next.failed = Up!InState("error")
      BY <1>1, <1>2 DEF Up!Completion
    <3>3. completion.total <= Up!Uploaded /\ completion.total \in Nat
      BY <1>1, <3>1 DEF Up!SessionsInv, Up!CountsAreBehind, Up!Completion
    <3>4. Up!Uploaded = Up!InState(Begun) + Up!InState("processed") + Up!InState("error")
      BY CountedStates
    <3> HIDE DEF next
    <3>5. completion.total
            <= Up!InState(Begun) + Up!InState("error") + Up!InState("processed")
      BY <1>2, <3>3, <3>4
    <3>6. QED
      BY <1>2, <3>1, <3>2, <3>5 DEF Up!CountsAreBehind
  <2>3. CASE Up!AnswerCompletion
    <3> DEFINE next == [completion EXCEPT !.step = "answered"]
    <3>1. completion.step = "listed" /\ completion' = next
      BY <1>1, <2>3 DEF Up!AnswerCompletion, Up!Counted, Up!Completion
    <3>2. /\ next \in Up!Completion /\ next.step = "answered" /\ next.total = completion.total
          /\ next.processing = completion.processing /\ next.failed = completion.failed
      BY <1>1 DEF Up!Completion
    <3> HIDE DEF next
    <3>3. QED
      BY <1>2, <3>1, <3>2 DEF Up!SessionsInv, Up!CountsAreBehind
  <2>4. QED
    BY <2>1, <2>2, <2>3
<1>4. Up!FlagsAreNamed' /\ Up!StepsAreInOrder'
  BY <1>1 DEF Up!SessionsInv, Up!FlagsAreNamed, Up!StepsAreInOrder, Up!Placed
<1>5. Up!LaterRowsHaveOne'
  BY <1>1 DEF Up!SessionsInv, Up!LaterRowsHaveOne, Up!First, Up!Rows
<1>6. QED
  BY <1>1, <1>3, <1>4, <1>5 DEF Up!SessionsInv, Up!SessionsTypeOK

LEMMA SessionsStep ==
    ASSUME Up!SessionsInv, Up!SessionsNext
    PROVE  Up!SessionsInv'
<1>1. ASSUME NEW n \in FlagNames, Up!FindDeleted(n) PROVE Up!SessionsInv'
  <2>1. /\ deletion' \in {0} \cup DOMAIN flags /\ DOMAIN flags \subseteq Nat
        /\ UNCHANGED <<flags, upload, stored, lapsed, completion>>
        /\ upload \in [Requests -> Up!UploadRow]
    BY <1>1, FirstIs, SessionTypes DEF Up!FindDeleted
  <2>2. Up!FlagsAreNamed' /\ Up!StepsAreInOrder'
    BY <2>1 DEF Up!SessionsInv, Up!FlagsAreNamed, Up!StepsAreInOrder, Up!Placed
  <2>3. Up!LaterRowsHaveOne'
    BY <2>1 DEF Up!SessionsInv, Up!LaterRowsHaveOne, Up!First, Up!Rows
  <2>4. Up!CountsAreBehind'
    BY <2>1, CountsStay
  <2>5. QED
    BY <2>1, <2>2, <2>3, <2>4 DEF Up!SessionsInv, Up!SessionsTypeOK
<1>2. QED
  BY <1>1, SessionOpens, FlagFound, FlagCreated, UploadGoesOn, FlagMarked, UploadsCounted
  DEF Up!SessionsNext

LEMMA SessionsStart == Up!SessionsInit => Up!SessionsInv
<1> SUFFICES ASSUME Up!SessionsInit PROVE Up!SessionsInv
  OBVIOUS
<1>1. /\ Up!NoUpload \in Up!UploadRow /\ Up!NoUpload.flags = {} /\ Up!NoUpload.step = "none"
      /\ Up!NoUpload.state = "none"
  BY DEF Up!NoUpload, Up!UploadRow
<1>2. /\ \A u \in Requests : upload[u] = Up!NoUpload
      /\ flags = <<>> /\ stored = {} /\ lapsed = {} /\ deletion = 0
      /\ completion = [step |-> "none", total |-> 0, processing |-> 0, failed |-> 0]
      /\ upload = [u \in Requests |-> Up!NoUpload]
  BY DEF Up!SessionsInit
<1>3. Up!SessionsTypeOK
  BY <1>1, <1>2 DEF Up!SessionsTypeOK, Up!Completion
<1>4. Up!FlagsAreNamed /\ Up!LaterRowsHaveOne /\ Up!StepsAreInOrder
  BY <1>1, <1>2 DEF Up!FlagsAreNamed, Up!LaterRowsHaveOne, Up!StepsAreInOrder, Up!Placed
<1>5. Up!CountsAreBehind
  BY <1>2 DEF Up!CountsAreBehind
<1>6. QED
  BY <1>2, <1>3, <1>4, <1>5 DEF Up!SessionsInv

LEMMA SessionsStay ==
    ASSUME Up!SessionsInv, UNCHANGED Up!sessionVars
    PROVE  Up!SessionsInv'
<1>1. /\ UNCHANGED <<flags, upload, stored, lapsed, deletion, completion>>
      /\ upload \in [Requests -> Up!UploadRow]
  BY SessionTypes DEF Up!sessionVars
<1>2. Up!CountsAreBehind'
  BY <1>1, CountsStay
<1>3. Up!FlagsAreNamed' /\ Up!StepsAreInOrder'
  BY <1>1 DEF Up!SessionsInv, Up!FlagsAreNamed, Up!StepsAreInOrder, Up!Placed
<1>4. Up!LaterRowsHaveOne'
  BY <1>1 DEF Up!SessionsInv, Up!LaterRowsHaveOne, Up!First, Up!Rows
<1>5. QED
  BY <1>1, <1>2, <1>3, <1>4 DEF Up!SessionsInv, Up!SessionsTypeOK

-----------------------------------------------------------------------------
(* Proofs: what was sent arrives whole *)

SentInv ==
    /\ part = "sessions" => Up!SessionsInv
    /\ part = "analysis" => An!AnalysisInv
    /\ part = "results" => Rr!ResultsInv
    /\ part = "profilings" => Pf!ProfilingsInv
    /\ part = "configurations" => Cf!ConfigurationsInv

LEMMA SentStart == Init => SentInv
  BY SessionsStart, AnalysisStart, ResultsStart, ProfilingsStart, ConfigurationsStart
  DEF Init, SentInv

LEMMA SentStep ==
    ASSUME SentInv, [Next]_vars
    PROVE  /\ SentInv'
           /\ part = "profilings" => Pf!SummariesAreKept /\ Pf!CriticalFilesAreStable
<1>1. UNCHANGED part
  BY DEF Next, vars
<1>2. CASE part = "sessions"
  BY <1>2, SessionsStep, SessionsStay, <1>1 DEF Next, vars, Up!sessionVars, SentInv
<1>3. CASE part = "analysis"
  BY <1>3, AnalysisStep, AnalysisStay, <1>1 DEF Next, vars, An!analysisVars, SentInv
<1>4. CASE part = "results"
  BY <1>4, ResultsStep, ResultsStay, <1>1 DEF Next, vars, Rr!resultVars, SentInv
<1>5. CASE part = "profilings"
  BY <1>5, ProfilingsStep, ProfilingsStay, <1>1 DEF Next, vars, Pf!profilingVars, SentInv
<1>6. CASE part = "configurations"
  BY <1>6, ConfigurationsStep, ConfigurationsStay, <1>1 DEF Next, vars, Cf!configVars, SentInv
<1>7. CASE part \notin {"sessions", "analysis", "results", "profilings", "configurations"}
  BY <1>1, <1>7 DEF SentInv
<1>8. QED
  BY <1>2, <1>3, <1>4, <1>5, <1>6, <1>7

\* Whatever the numbers of uploads, flags, suites, files, requests and announcements: the
\* rest of the uploads have the oldest row of a flag, a report that was sent is there for the
\* worker, and a completion does not count too much; what a client finished is analysed, and
\* labels are compared with the nearest suite; the last result is computed after the last
\* request; and an empty upload passes only by one configuration.
THEOREM WhatArrives == Spec => []UploadsArriveWhole
<1>1. SentInv /\ [Next]_vars => SentInv'
  BY SentStep
<1>2. SentInv => UploadsArriveWhole
  BY SessionsSafe, AnalysisSafe, ResultsSafe, ConfigurationsSafe
  DEF SentInv, UploadsArriveWhole, Pf!ProfilingsInv
<1>3. QED
  BY SentStart, <1>1, <1>2, PTL DEF Spec

\* Whoever else assigns, reads or announces: a process reads what it wrote itself, the
\* worker's summaries are not taken back by an announcement, and the critical files change
\* only with a new summary.
THEOREM WhatIsKept == Spec => NothingIsTakenBack
<1>1. Init => SentInv /\ ReadersInv
  BY SentStart, ReadersStart
<1>2. (SentInv /\ ReadersInv) /\ [Next]_vars => (SentInv /\ ReadersInv)'
  BY SentStep, ReadersStep
<1>3. (SentInv /\ ReadersInv) /\ [Next]_vars =>
         [/\ part = "archive" => Ar!OwnWritesAreRead
          /\ part = "profilings" => Pf!SummariesAreKept /\ Pf!CriticalFilesAreStable]_vars
  BY SentStep, ReadersStep
<1>4. QED
  BY <1>1, <1>2, <1>3, PTL DEF Spec, NothingIsTakenBack

-----------------------------------------------------------------------------
(* Proofs: the account of an organization *)

account == v1
customer == v2
coupons == v3
visit == v4
behind == v5
lostCall == v6

USE DEF account, customer, coupons, visit, behind, lostCall

\* The invariant gives what is required of coupons and cards.
LEMMA AccountSafe ==
    ASSUME Ad!AccountInv
    PROVE  Ad!AccountTypeOK /\ Ad!DiscountIsNamed /\ Ad!OneDiscount /\ Ad!CardIsAttached
<1>1. Ad!OneDiscount
  <2>1. SUFFICES ASSUME ~behind PROVE Ad!Cardinality(customer.used) <= 1
    BY DEF Ad!OneDiscount
  <2>2. customer.used = {} \/ customer.used = {account.coupon}
    BY <2>1 DEF Ad!AccountInv
  <2>3. Cardinality({}) = 0 /\ Cardinality({account.coupon}) = 1
    BY FS_EmptySet, FS_Singleton
  <2>4. Ad!Cardinality(customer.used) = Cardinality(customer.used)
    BY DEF Ad!Cardinality, Ad!IsFiniteSet, Cardinality, IsFiniteSet
  <2>5. QED
    BY <2>2, <2>3, <2>4
<1>2. ASSUME NEW v \in Visits, visit[v].pc = "applying" PROVE visit[v] # Ad!NoVisit
  BY <1>2 DEF Ad!NoVisit
<1>3. Ad!DiscountIsNamed
  BY <1>2 DEF Ad!AccountInv, Ad!DiscountIsNamed
<1>4. QED
  BY <1>1, <1>3 DEF Ad!AccountInv

\* Requests about payment details, and Stripe's calls that are lost, keep the invariant.
LEMMA AccountStep ==
    ASSUME Ad!AccountInv, Ad!AccountNext
    PROVE  Ad!AccountInv'
<1> USE Assumptions DEF Ad!CouponAssumption, Ad!AccountInv, Ad!AccountTypeOK, Ad!Row,
    Ad!Customer, Ad!CardIsAttached
<1>1. CASE Ad!ChangeRate
  BY <1>1 DEF Ad!ChangeRate
<1>2. ASSUME NEW v \in Visits, NEW discount \in BOOLEAN, Ad!VisitAccount(v, discount)
      PROVE  Ad!AccountInv'
  BY <1>2 DEF Ad!VisitAccount, Ad!Visit, Ad!NoVisit
<1>3. ASSUME NEW v \in Visits, Ad!SkipDiscount(v) PROVE Ad!AccountInv'
  BY <1>3 DEF Ad!SkipDiscount, Ad!Visit, Ad!NoVisit
<1>4. ASSUME NEW v \in Visits, Ad!CreateCoupon(v) PROVE Ad!AccountInv'
  <2> DEFINE q == [visit[v] EXCEPT !.pc = "made", !.new = coupons + 1]
  <2>1. /\ coupons' = coupons + 1 /\ coupons' \in 1..MaxCoupon
        /\ visit[v] \in Ad!Visit /\ visit[v].row.coupon = 0 /\ visit[v].pc # "applying"
        /\ UNCHANGED <<account, customer, behind, lostCall>>
    BY <1>4 DEF Ad!CreateCoupon, Ad!MayHaveDiscount, Ad!NoVisit
  <2>2. q \in Ad!Visit /\ q.pc = "made" /\ q.row = visit[v].row /\ q.new = coupons'
    BY <2>1 DEF Ad!Visit
  <2>3. \A x \in Visits : visit'[x] = IF x = v THEN q ELSE visit[x]
    BY <1>4 DEF Ad!CreateCoupon
  <2>4. visit' \in [Visits -> {Ad!NoVisit} \cup Ad!Visit]
    <3>1. DOMAIN visit' = Visits /\ visit' = [x \in Visits |-> visit'[x]]
      BY <1>4 DEF Ad!CreateCoupon
    <3> HIDE DEF q
    <3>2. QED
      BY <2>2, <2>3, <3>1
  <2> HIDE DEF q, Ad!Row
  <2>5. QED
    BY <2>1, <2>2, <2>3, <2>4
<1>5. ASSUME NEW v \in Visits, Ad!SaveCoupon(v) PROVE Ad!AccountInv'
  BY <1>5 DEF Ad!SaveCoupon, Ad!SaveAccount, Ad!Visit, Ad!NoVisit
<1>6. ASSUME NEW v \in Visits, Ad!ApplyCoupon(v) PROVE Ad!AccountInv'
  <2> DEFINE q == [visit[v] EXCEPT !.pc = "saving"]
  <2>1. /\ visit' = [visit EXCEPT ![v] = q] /\ visit[v] \in Ad!Visit
        /\ customer' = [customer EXCEPT !.coupon = visit[v].row.coupon,
                                       !.used = @ \cup {visit[v].row.coupon}]
        /\ visit[v].row.coupon # 0 /\ (~behind => account.coupon = visit[v].row.coupon)
        /\ UNCHANGED <<account, coupons, behind, lostCall>>
    BY <1>6 DEF Ad!ApplyCoupon, Ad!CouponOf, Ad!NoVisit
  <2>2. q \in Ad!Visit /\ q.pc = "saving" /\ visit[v].row.coupon \in 1..MaxCoupon
    BY <2>1 DEF Ad!Visit
  <2>3. customer' \in Ad!Customer
    <3> DEFINE coupon == visit[v].row.coupon
               used == customer.used \cup {coupon}
    <3>1. coupon \in 0..MaxCoupon /\ used \in SUBSET (1..MaxCoupon) /\ customer \in Ad!Customer
      BY <2>2 DEF Ad!Customer
    <3>2. customer' = [customer EXCEPT !.coupon = coupon, !.used = used]
      BY <2>1
    <3> HIDE DEF coupon, used, Ad!Row
    <3>3. QED
      BY <3>1, <3>2 DEF Ad!Customer
  <2>4. /\ customer'.coupon = visit[v].row.coupon
        /\ customer'.used = customer.used \cup {visit[v].row.coupon}
        /\ customer'.attached = customer.attached /\ customer'.card = customer.card
    BY <2>1 DEF Ad!Customer
  <2> HIDE DEF q
  <2>5. QED
    BY <2>1, <2>2, <2>3, <2>4
<1>7. ASSUME NEW v \in Visits, Ad!SaveDetails(v) PROVE Ad!AccountInv'
  <2>1. /\ visit' = [visit EXCEPT ![v] = Ad!NoVisit] /\ visit[v].pc = "saving"
        /\ visit[v] \in Ad!Visit
        /\ account' = visit[v].row /\ behind' = (behind \/ account # visit[v].row)
        /\ UNCHANGED <<customer, coupons, lostCall>>
    BY <1>7 DEF Ad!SaveDetails, Ad!Details, Ad!SaveAccount, Ad!Leave, Ad!NoVisit
  <2>2. account' \in Ad!Row /\ (~behind' => ~behind /\ account' = account) /\ behind' \in BOOLEAN
    BY <2>1 DEF Ad!Visit
  <2>3. \A x \in Visits : visit'[x] = IF x = v THEN Ad!NoVisit ELSE visit[x]
    BY <2>1
  <2> HIDE DEF Ad!Row
  <2>4. QED
    BY <2>1, <2>2, <2>3 DEF Ad!NoVisit
<1>8. ASSUME NEW v \in Visits, NEW card \in Cards, Ad!AttachCard(v, card) PROVE Ad!AccountInv'
  BY <1>8 DEF Ad!AttachCard, Ad!Attached, Ad!Visit, Ad!NoVisit
<1>9. ASSUME NEW v \in Visits, Ad!UseCard(v) PROVE Ad!AccountInv'
  BY <1>9 DEF Ad!UseCard, Ad!Leave, Ad!Visit, Ad!NoVisit
<1>10. ASSUME NEW v \in Visits, Ad!LoseCall(v) PROVE Ad!AccountInv'
  BY <1>10 DEF Ad!LoseCall, Ad!Leave, Ad!Visit, Ad!NoVisit
<1>11. QED
  BY <1>1, <1>2, <1>3, <1>4, <1>5, <1>6, <1>7, <1>8, <1>9, <1>10 DEF Ad!AccountNext

\* It holds before the first request,
LEMMA AccountStart ==
    ASSUME Ad!AccountInit
    PROVE  Ad!AccountInv
<1> USE DEF Ad!AccountInit
<1>1. MaxCoupon \in Nat /\ 0 \in 0..MaxCoupon
  BY Assumptions DEF Ad!CouponAssumption
<1>2. account \in Ad!Row /\ account.coupon = 0
  BY <1>1 DEF Ad!Row, Ad!Rates
<1>3. /\ customer \in Ad!Customer
      /\ customer.coupon = 0 /\ customer.used = {} /\ customer.card = Nothing
  BY <1>1 DEF Ad!Customer
<1>4. visit \in [Visits -> {Ad!NoVisit} \cup Ad!Visit] /\ \A v \in Visits : visit[v].pc = "none"
  BY DEF Ad!NoVisit
<1>5. QED
  BY <1>1, <1>2, <1>3, <1>4 DEF Ad!AccountInv, Ad!AccountTypeOK, Ad!CardIsAttached

\* and when nothing happens.
LEMMA AccountStay ==
    ASSUME Ad!AccountInv, UNCHANGED Ad!accountVars
    PROVE  Ad!AccountInv'
  BY DEF Ad!AccountInv, Ad!AccountTypeOK, Ad!CardIsAttached, Ad!accountVars

-----------------------------------------------------------------------------
(* Proofs: settings of a repository *)

repo == v1
webhooks == v2      \* RepositorySettings' hooks
setting == v3
made == v4
overlapped == v5
died == v6

USE DEF repo, webhooks, setting, made, overlapped, died

\* The invariant gives what is required of hooks and credits.
LEMMA SettingsSafe ==
    ASSUME St!SettingsInv
    PROVE  St!SettingsTypeOK /\ St!HookIsTheOnly /\ St!HookCanBeReset /\ St!WithinCredits
<1>1. ASSUME overlapped = {}, ~died, NEW r \in Repositories,
             \A q \in Settings : \/ setting[q] = St!None3 \/ setting[q].repo # r
                                 \/ setting[q].pc \in {"seen", "allowed"}
      PROVE  webhooks[r] = {repo[r].hookid} \ {0}
  BY <1>1, Assumptions DEF St!Clearing, St!Posting, St!None3, St!SettingsInv, St!HooksAreKnown,
     St!SettingsTypeOK, St!RepoRow, St!HookAssumption
<1>2. St!HookIsTheOnly
  BY <1>1 DEF St!HookIsTheOnly
<1>3. QED
  BY <1>2 DEF St!SettingsInv

\* The counting there is the counting here.
LEMMA ActiveCount ==
    ASSUME NEW S \in SUBSET Repositories
    PROVE  /\ IsFiniteSet(S) /\ St!Cardinality(S) = Cardinality(S) /\ Cardinality(S) \in Nat
<1>1. IsFiniteSet(Repositories)
  BY Assumptions DEF St!HookAssumption, St!IsFiniteSet, IsFiniteSet
<1>2. St!Cardinality(S) = Cardinality(S)
  BY DEF St!Cardinality, St!IsFiniteSet, Cardinality, IsFiniteSet
<1>3. QED
  BY <1>1, <1>2, FS_Subset, FS_CardinalityType

\* The active repositories become fewer, or one more than those that were counted.
LEMMA CreditsKept ==
    ASSUME St!SettingsTypeOK, St!WithinCredits,
           overlapped' = {} => overlapped = {},
           \/ St!Active(repo)' \subseteq St!Active(repo)
           \/ overlapped' # {}
           \/ \E r \in Repositories : /\ St!Active(repo)' = St!Active(repo) \cup {r}
                                      /\ ~(St!Cardinality(St!Active(repo)) >= Credits)
    PROVE  St!WithinCredits'
<1> DEFINE A == St!Active(repo)
           B == St!Active(repo)'
<1>1. A \in SUBSET Repositories /\ B \in SUBSET Repositories /\ Credits \in Nat
  BY Assumptions DEF St!Active, St!HookAssumption
<1>2. /\ IsFiniteSet(A) /\ St!Cardinality(A) = Cardinality(A) /\ Cardinality(A) \in Nat
      /\ IsFiniteSet(B) /\ St!Cardinality(B) = Cardinality(B) /\ Cardinality(B) \in Nat
  BY <1>1, ActiveCount
<1>3. SUFFICES ASSUME overlapped' = {} PROVE Cardinality(B) <= Credits
  BY <1>2 DEF St!WithinCredits
<1>4. Cardinality(A) <= Credits
  BY <1>2, <1>3 DEF St!WithinCredits
<1>5. CASE B \subseteq A
  <2>1. Cardinality(B) <= Cardinality(A)
    BY <1>2, <1>5, FS_Subset
  <2>2. QED
    BY <1>1, <1>2, <1>4, <2>1
<1>6. CASE \E r \in Repositories : B = A \cup {r} /\ ~(St!Cardinality(A) >= Credits)
  BY <1>6, <1>2, FS_AddElement, <1>1
<1>7. QED
  BY <1>3, <1>5, <1>6

\* What is required of the hooks
HooksInv == St!HooksAreNumbered /\ St!RequestsKnow /\ St!HooksAreKnown /\ St!HookCanBeReset

\* A request ends that saves what it read of the hook, or nothing.
LEMMA RequestEnds ==
    ASSUME St!SettingsTypeOK, HooksInv, NEW q \in Settings, NEW r \in Repositories, NEW rowsaved \in St!RepoRow,
           setting[q] # St!None3,
           setting' = [setting EXCEPT ![q] = St!None3], repo' = [repo EXCEPT ![r] = rowsaved],
           UNCHANGED <<webhooks, made>>, overlapped \subseteq overlapped', died => died',
           setting[q].pc \in {"cleared", "posted"} => died',
           rowsaved.hookid \in {repo[r].hookid, setting[q].seen.hookid},
           overlapped' \subseteq {"reset"} => rowsaved.hookid = repo[r].hookid
    PROVE  HooksInv'
<1> USE DEF HooksInv
<1>1. /\ \A x \in Settings : setting'[x] = IF x = q THEN St!None3 ELSE setting[x]
      /\ \A y \in Repositories : repo'[y] = IF y = r THEN rowsaved ELSE repo[y]
  BY DEF St!SettingsTypeOK
<1>2. St!None3.pc = "none"
  BY DEF St!None3
<1>3. \A x \in Settings, y \in Repositories :
         /\ St!Posting(x, y)' <=> x # q /\ St!Posting(x, y)
         /\ St!Clearing(x, y)' <=> x # q /\ St!Clearing(x, y)
  BY <1>1, <1>2 DEF St!Posting, St!Clearing
<1>4. \A y \in Repositories : /\ overlapped' \subseteq {"reset"} => repo'[y].hookid = repo[y].hookid
                             /\ repo'[y].hookid \in {repo[y].hookid, setting[q].seen.hookid}
  BY <1>1
<1>5. St!HooksAreNumbered'
  BY <1>1, <1>3, <1>4 DEF St!HooksAreNumbered, St!Posting
<1>6. St!RequestsKnow'
  BY <1>1, <1>2 DEF St!RequestsKnow
<1>7. St!HooksAreKnown'
  BY <1>1, <1>3, <1>4 DEF St!HooksAreKnown, St!Posting, St!Clearing
<1>8. St!HookCanBeReset'
  BY <1>1, <1>4 DEF St!HookCanBeReset
<1>9. QED
  BY <1>5, <1>6, <1>7, <1>8

\* A request reads the row, or is allowed to go on.
LEMMA RequestSees ==
    ASSUME St!SettingsTypeOK, HooksInv, NEW q \in Settings, NEW s \in St!Setting,
           setting' = [setting EXCEPT ![q] = s], UNCHANGED <<repo, webhooks, made, overlapped, died>>,
           setting[q].pc \in {"none", "seen"}, s.pc \in {"seen", "allowed"},
           s.pc = "allowed" => ~(St!Cardinality(s.counted) >= Credits),
           s.made = 0 \/ (setting[q] # St!None3 /\ s.made = setting[q].made),
           \/ \E r \in Repositories : s.seen = repo[r]
           \/ setting[q] # St!None3 /\ s.seen = setting[q].seen
    PROVE  HooksInv'
<1> USE DEF HooksInv
<1>1. \A x \in Settings : setting'[x] = IF x = q THEN s ELSE setting[x]
  BY DEF St!SettingsTypeOK
<1>2. \A x \in Settings, y \in Repositories :
         /\ St!Posting(x, y)' <=> x # q /\ St!Posting(x, y)
         /\ St!Clearing(x, y)' <=> x # q /\ St!Clearing(x, y)
  BY <1>1 DEF St!Posting, St!Clearing
<1>3. St!HooksAreNumbered'
  BY <1>1, <1>2, Assumptions DEF St!HooksAreNumbered, St!SettingsTypeOK, St!Posting, St!HookAssumption
<1>4. St!RequestsKnow'
  BY <1>1 DEF St!RequestsKnow
<1>5. St!HooksAreKnown'
  BY <1>1, <1>2 DEF St!HooksAreKnown, St!Posting, St!Clearing
<1>6. St!HookCanBeReset'
  BY <1>1 DEF St!HookCanBeReset
<1>7. QED
  BY <1>3, <1>4, <1>5, <1>6

\* One request goes on.
LEMMA OneSetting ==
    ASSUME St!SettingsTypeOK, NEW q \in Settings, NEW s \in {St!None3} \cup St!Setting,
           setting' = [setting EXCEPT ![q] = s]
    PROVE  /\ setting' \in [Settings -> {St!None3} \cup St!Setting]
           /\ \A x \in Settings : setting'[x] = IF x = q THEN s ELSE setting[x]
  BY DEF St!SettingsTypeOK

\* One row is saved.
LEMMA OneRepoRow ==
    ASSUME St!SettingsTypeOK, NEW r \in Repositories, NEW rowsaved \in St!RepoRow,
           repo' = [repo EXCEPT ![r] = rowsaved]
    PROVE  /\ repo' \in [Repositories -> St!RepoRow]
           /\ \A y \in Repositories : repo'[y] = IF y = r THEN rowsaved ELSE repo[y]
  BY DEF St!SettingsTypeOK

\* Saving the row, and ending
LEMMA SavesAndEnds ==
    ASSUME St!SettingsInv, NEW q \in Settings, NEW rowsaved \in St!RepoRow,
           setting[q] \in St!Setting, setting[q].pc \in {"seen", "allowed"},
           rowsaved.hookid = setting[q].seen.hookid,
           setting' = [setting EXCEPT ![q] = St!None3],
           repo' = [repo EXCEPT ![setting[q].repo] = rowsaved],
           UNCHANGED <<webhooks, made, died>>,
           overlapped' \in {overlapped, overlapped \cup {"token"}, overlapped \cup {"activate"},
                            overlapped \cup {"deactivate"}},
           overlapped' = overlapped => repo[setting[q].repo] = setting[q].seen \/ overlapped \ {"reset"} # {},
           \/ rowsaved.active => setting[q].seen.active
           \/ overlapped' = {} => ~(St!Cardinality(St!Active(repo)) >= Credits)
    PROVE  St!SettingsInv'
<1> DEFINE r == setting[q].repo
<1> USE DEF St!SettingsInv
<1>1. r \in Repositories /\ setting[q] # St!None3
  BY DEF St!Setting, St!None3
<1>2. overlapped' \subseteq {"reset"} => rowsaved.hookid = repo[r].hookid /\ repo[r] = setting[q].seen
  OBVIOUS
<1>3. HooksInv'
  BY <1>1, <1>2, RequestEnds DEF HooksInv
<1>4. /\ repo' \in [Repositories -> St!RepoRow]
      /\ \A y \in Repositories : repo'[y] = IF y = r THEN rowsaved ELSE repo[y]
      /\ setting' \in [Settings -> {St!None3} \cup St!Setting]
  BY <1>1, OneRepoRow, OneSetting
<1>5. St!SettingsTypeOK'
  BY <1>4 DEF St!SettingsTypeOK
<1>6. overlapped' = {} => overlapped = {} /\ repo[r] = setting[q].seen
  OBVIOUS
<1>7. CASE overlapped' = {} /\ (rowsaved.active => setting[q].seen.active)
  <2>1. St!Active(repo)' \subseteq St!Active(repo)
    BY <1>1, <1>4, <1>6, <1>7 DEF St!Active
  <2>2. QED
    BY <1>3, <1>5, <1>6, <2>1, CreditsKept DEF HooksInv
<1>8. CASE overlapped' = {} /\ ~(rowsaved.active => setting[q].seen.active)
  <2>1. St!Active(repo)' = St!Active(repo) \cup {r}
    BY <1>1, <1>4, <1>6, <1>8 DEF St!Active
  <2>2. QED
    BY <1>1, <1>3, <1>5, <1>6, <1>8, <2>1, CreditsKept DEF HooksInv
<1>9. CASE overlapped' # {}
  BY <1>3, <1>5, <1>6, <1>9, CreditsKept DEF HooksInv
<1>10. QED
  BY <1>7, <1>8, <1>9

\* Ending, with nothing saved
LEMMA EndsOnly ==
    ASSUME St!SettingsInv, NEW q \in Settings, setting[q] \in St!Setting,
           setting' = [setting EXCEPT ![q] = St!None3],
           UNCHANGED <<repo, webhooks, made, overlapped>>, died' \in BOOLEAN,
           died' = (died \/ setting[q].pc \in {"cleared", "posted"})
    PROVE  St!SettingsInv'
<1> DEFINE r == setting[q].repo
<1>1. r \in Repositories /\ setting[q] # St!None3 /\ repo[r] \in St!RepoRow /\ St!SettingsTypeOK
      /\ repo' = [repo EXCEPT ![r] = repo[r]]
  BY DEF St!Setting, St!None3, St!SettingsInv, St!SettingsTypeOK
<1>2. HooksInv'
  BY <1>1, RequestEnds DEF HooksInv, St!SettingsInv
<1>3. St!SettingsTypeOK'
  BY <1>1, OneSetting DEF St!SettingsTypeOK
<1>4. St!WithinCredits'
  BY DEF St!SettingsInv, St!WithinCredits, St!Active
<1>5. QED
  BY <1>2, <1>3, <1>4 DEF HooksInv, St!SettingsInv

\* The hook of a repository changes, or what the row says of it, and a request goes on.
HookChanges(q, r, saved, s, hs) ==
    /\ saved \in St!RepoRow /\ s \in {St!None3} \cup St!Setting /\ hs \in SUBSET (1..MaxHook)
    /\ setting' = [setting EXCEPT ![q] = s] /\ repo' = [repo EXCEPT ![r] = saved]
    /\ webhooks' = [webhooks EXCEPT ![r] = hs]
    /\ made' \in 0..MaxHook /\ died' = died /\ setting[q] \in St!Setting
    /\ overlapped' \in {overlapped, overlapped \cup {setting[q].kind}}
    /\ overlapped' = {} => saved.active = repo[r].active

\* A request that changes the hook keeps what is required of hooks, if the change fits.
LEMMA HookMoves ==
    ASSUME St!SettingsInv, NEW q \in Settings, NEW r \in Repositories, NEW saved, NEW s, NEW hs,
           HookChanges(q, r, saved, s, hs)
    PROVE  /\ St!SettingsTypeOK' /\ St!WithinCredits'
           /\ \A x \in Settings : setting'[x] = IF x = q THEN s ELSE setting[x]
           /\ \A y \in Repositories : /\ repo'[y] = IF y = r THEN saved ELSE repo[y]
                                      /\ webhooks'[y] = IF y = r THEN hs ELSE webhooks[y]
<1> USE DEF HookChanges
<1>1. St!SettingsTypeOK /\ St!WithinCredits
  BY DEF St!SettingsInv
<1>2. /\ setting' \in [Settings -> {St!None3} \cup St!Setting]
      /\ \A x \in Settings : setting'[x] = IF x = q THEN s ELSE setting[x]
      /\ repo' \in [Repositories -> St!RepoRow]
      /\ \A y \in Repositories : repo'[y] = IF y = r THEN saved ELSE repo[y]
  BY <1>1, OneSetting, OneRepoRow
<1>3. /\ webhooks' \in [Repositories -> SUBSET (1..MaxHook)]
      /\ \A y \in Repositories : webhooks'[y] = IF y = r THEN hs ELSE webhooks[y]
  BY <1>1 DEF St!SettingsTypeOK
<1>4. overlapped' \subseteq {"reset", "token", "activate", "deactivate"}
  BY <1>1 DEF St!SettingsTypeOK, St!Setting
<1>5. St!SettingsTypeOK'
  BY <1>1, <1>2, <1>3, <1>4 DEF St!SettingsTypeOK
<1>6. overlapped' = {} => overlapped = {} /\ St!Active(repo)' \subseteq St!Active(repo)
  BY <1>2 DEF St!Active
<1>7. St!WithinCredits'
  BY <1>1, <1>6, CreditsKept
<1>8. QED
  BY <1>2, <1>3, <1>5, <1>7

\* Requests for a repository's settings keep the invariant.
LEMMA SettingsStep ==
    ASSUME St!SettingsInv, St!SettingsNext
    PROVE  St!SettingsInv'
<1> USE Assumptions DEF St!HookAssumption
<1>1. /\ St!SettingsTypeOK /\ St!HooksAreNumbered /\ St!RequestsKnow
      /\ St!HooksAreKnown /\ St!HookCanBeReset /\ St!WithinCredits
  BY DEF St!SettingsInv
<1>2. ASSUME NEW q \in Settings, setting[q] # St!None3
      PROVE  /\ setting[q] \in St!Setting /\ setting[q].repo \in Repositories
             /\ setting[q].seen \in St!RepoRow /\ repo[setting[q].repo] \in St!RepoRow
  BY <1>1, <1>2 DEF St!SettingsTypeOK, St!Setting
<1>3. ASSUME NEW q \in Settings, NEW r \in Repositories,
             NEW kind \in {"reset", "token", "activate", "deactivate"}, St!LookAtRepository(q, r, kind)
      PROVE  St!SettingsInv'
  <2> DEFINE s == [pc |-> "seen", repo |-> r, seen |-> repo[r], kind |-> kind, made |-> 0, counted |-> {}]
  <2>1. /\ setting' = [setting EXCEPT ![q] = s] /\ setting[q].pc = "none"
        /\ UNCHANGED <<repo, webhooks, made, overlapped, died>>
    BY <1>3 DEF St!LookAtRepository, St!None3
  <2>2. s \in St!Setting /\ s.pc = "seen" /\ s.made = 0 /\ s.seen = repo[r]
    BY <1>1 DEF St!Setting, St!SettingsTypeOK
  <2> HIDE DEF s
  <2>3. HooksInv'
    BY <1>1, <2>1, <2>2, RequestSees DEF HooksInv
  <2>4. St!SettingsTypeOK' /\ St!WithinCredits'
    BY <1>1, <2>1, <2>2, OneSetting DEF St!SettingsTypeOK, St!WithinCredits, St!Active
  <2>5. QED
    BY <2>3, <2>4 DEF HooksInv, St!SettingsInv
<1>4. ASSUME NEW q \in Settings, St!DeleteWebhook(q) PROVE St!SettingsInv'
  <2> DEFINE r == setting[q].repo
             s == [setting[q] EXCEPT !.pc = "cleared"]
             h == setting[q].seen.hookid
  <2>1. /\ setting[q] \in St!Setting /\ r \in Repositories /\ setting[q].pc = "seen" /\ h # 0
        /\ setting[q] # St!None3 /\ repo[r] \in St!RepoRow
        /\ UNCHANGED <<repo, made, overlapped, died>>
    BY <1>2, <1>4 DEF St!DeleteWebhook, St!Row, St!None3
  <2>2. CASE h \notin webhooks[r]
    BY <1>4, <2>2, <1>1, <2>1, EndsOnly DEF St!DeleteWebhook, St!Row, St!End, St!SettingsTypeOK
  <2>3. CASE h \in webhooks[r]
    <3>1. /\ setting' = [setting EXCEPT ![q] = s]
          /\ webhooks' = [webhooks EXCEPT ![r] = webhooks[r] \ {h}]
      BY <1>4, <2>3 DEF St!DeleteWebhook, St!Row, St!Goes, St!WithoutHook
    <3>2. s \in St!Setting /\ s.pc = "cleared" /\ s.seen.hookid = h /\ s.repo = r /\ s.made = setting[q].made
      BY <2>1 DEF St!Setting
    <3>3. webhooks[r] \ {h} \in SUBSET (1..MaxHook) /\ repo' = [repo EXCEPT ![r] = repo[r]]
      BY <1>1, <2>1 DEF St!SettingsTypeOK
    <3>4. made' \in 0..MaxHook
      BY <1>1, <2>1 DEF St!SettingsTypeOK
    <3> HIDE DEF s
    <3> DEFINE hs == webhooks[r] \ {h}
    <3>5. HookChanges(q, r, repo[r], s, hs)
      BY <2>1, <3>1, <3>2, <3>3, <3>4 DEF HookChanges
    <3> HIDE DEF hs
    <3>6. /\ St!SettingsTypeOK' /\ St!WithinCredits'
          /\ \A x \in Settings : setting'[x] = IF x = q THEN s ELSE setting[x]
          /\ \A y \in Repositories : webhooks'[y] = IF y = r THEN hs ELSE webhooks[y]
      BY <2>1, <3>5, HookMoves
    <3> USE DEF hs
    <3>7. \A x \in Settings, y \in Repositories :
             /\ St!Posting(x, y)' <=> St!Posting(x, y)
             /\ St!Clearing(x, y)' <=> St!Clearing(x, y) \/ (x = q /\ y = r)
      BY <2>1, <3>2, <3>6 DEF St!Posting, St!Clearing
    <3>8. \A x \in Settings, y \in Repositories : St!Posting(x, y) =>
             x # q /\ setting'[x] = setting[x] /\ setting[x].made # h
      BY <1>1, <2>1, <3>6 DEF St!Posting, St!HooksAreNumbered
    <3>9. \A x \in Settings : /\ setting'[x] # St!None3 => setting[x] # St!None3
                              /\ setting'[x].seen.hookid = setting[x].seen.hookid
                              /\ setting'[x].made = setting[x].made
      BY <2>1, <3>2, <3>6
    <3>10. St!HooksAreNumbered'
      BY <1>1, <2>1, <3>6, <3>7, <3>8, <3>9 DEF St!HooksAreNumbered
    <3>11. St!RequestsKnow'
      BY <1>1, <2>1, <3>2, <3>6 DEF St!RequestsKnow
    <3>12. ASSUME overlapped = {}, ~died
           PROVE  /\ repo[r].hookid = h /\ \A x \in Settings : ~St!Clearing(x, r)
      BY <1>1, <2>1, <2>3, <3>8, <3>12 DEF St!HooksAreKnown, St!SettingsTypeOK
    <3>13. St!HooksAreKnown'
      BY <2>1, <1>1, <3>2, <3>6, <3>7, <3>8, <3>12, <3>9 DEF St!HooksAreKnown
    <3>14. St!HookCanBeReset'
      BY <1>1, <2>1, <3>2, <3>6 DEF St!HookCanBeReset, St!None3
    <3>15. QED
      BY <3>6, <3>10, <3>11, <3>13, <3>14 DEF St!SettingsInv
  <2>4. QED
    BY <2>2, <2>3
<1>5. ASSUME NEW q \in Settings, St!ForgetWebhook(q) PROVE St!SettingsInv'
  <2> DEFINE r == setting[q].repo
             rowsaved == [setting[q].seen EXCEPT !.hookid = 0]
             s == [setting[q] EXCEPT !.pc = "forgotten", !.seen = rowsaved]
  <2>1. /\ setting[q] \in St!Setting /\ r \in Repositories /\ setting[q].pc = "cleared"
        /\ setting[q] # St!None3 /\ setting[q].seen \in St!RepoRow
        /\ repo' = [repo EXCEPT ![r] = rowsaved]
        /\ overlapped' = IF repo[r] = setting[q].seen THEN overlapped ELSE overlapped \cup {setting[q].kind}
        /\ UNCHANGED <<webhooks, made, died>>
    BY <1>2, <1>5 DEF St!ForgetWebhook, St!SaveSeen, St!Unhooked, St!Row, St!None3
  <2>2. rowsaved \in St!RepoRow /\ rowsaved.hookid = 0 /\ rowsaved.active = setting[q].seen.active
    BY <2>1 DEF St!RepoRow
  <2> HIDE DEF rowsaved
  <2>3. s \in St!Setting /\ s.pc = "forgotten" /\ s.seen = rowsaved /\ s.repo = r /\ s.made = setting[q].made
    BY <2>1, <2>2 DEF St!Setting
  <2>4. setting' = [setting EXCEPT ![q] = s]
    BY <1>1, <1>5, <2>1 DEF St!ForgetWebhook, St!SettingsTypeOK, St!Setting, rowsaved
  <2> HIDE DEF s
  <2>5. /\ webhooks' = [webhooks EXCEPT ![r] = webhooks[r]] /\ webhooks[r] \in SUBSET (1..MaxHook)
        /\ made' \in 0..MaxHook
    BY <1>1, <2>1 DEF St!SettingsTypeOK
  <2>6. HookChanges(q, r, rowsaved, s, webhooks[r])
    BY <2>1, <2>2, <2>3, <2>4, <2>5 DEF HookChanges
  <2>7. /\ St!SettingsTypeOK' /\ St!WithinCredits'
        /\ \A x \in Settings : setting'[x] = IF x = q THEN s ELSE setting[x]
        /\ \A y \in Repositories : repo'[y] = IF y = r THEN rowsaved ELSE repo[y]
    BY <2>1, <2>6, HookMoves
  <2>8. \A x \in Settings, y \in Repositories :
           /\ St!Posting(x, y)' <=> St!Posting(x, y)
           /\ St!Clearing(x, y)' <=> St!Clearing(x, y) /\ x # q
           /\ St!Posting(x, y) => x # q
    BY <2>1, <2>3, <2>7 DEF St!Posting, St!Clearing
  <2>9. \A x \in Settings : /\ setting'[x] # St!None3 => setting[x] # St!None3
                            /\ setting'[x].seen.hookid \in {0, setting[x].seen.hookid}
                            /\ setting'[x].made = setting[x].made
                            /\ x # q => setting'[x] = setting[x]
    BY <2>1, <2>2, <2>3, <2>7
  <2>10. \A y \in Repositories : repo'[y].hookid \in {0, repo[y].hookid} /\ (y # r => repo'[y] = repo[y])
    BY <2>2, <2>7
  <2>11. St!HooksAreNumbered'
    BY <1>1, <2>1, <2>8, <2>9, <2>10 DEF St!HooksAreNumbered, St!SettingsTypeOK, St!Posting
  <2>12. St!RequestsKnow'
    BY <1>1, <2>2, <2>3, <2>7 DEF St!RequestsKnow
  <2>13. St!HooksAreKnown'
    <3>1. SUFFICES ASSUME overlapped' = {}, ~died, NEW y \in Repositories
                   PROVE  /\ \A p \in Settings : St!Clearing(p, y)' =>
                               /\ repo'[y].hookid = setting'[p].seen.hookid
                               /\ \A x \in Settings : St!Clearing(x, y)' => x = p
                          /\ \A n \in 1..MaxHook : n \in webhooks[y] <=>
                               \/ n = repo'[y].hookid /\ \A p \in Settings : ~St!Clearing(p, y)'
                               \/ \E p \in Settings : St!Posting(p, y)' /\ setting'[p].made = n
      BY <2>1 DEF St!HooksAreKnown
    <3>2. overlapped = {} /\ St!Clearing(q, r)
      BY <2>1, <3>1 DEF St!Clearing
    <3>3. CASE y = r
      BY <1>1, <2>2, <2>7, <2>8, <2>9, <3>1, <3>2, <3>3 DEF St!HooksAreKnown
    <3>4. CASE y # r
      <4>1. ~St!Clearing(q, y)
        BY <3>4 DEF St!Clearing
      <4>2. QED
        BY <1>1, <2>8, <2>9, <2>10, <3>1, <3>2, <3>4, <4>1 DEF St!HooksAreKnown
    <3>5. QED
      BY <3>3, <3>4
  <2>14. St!HookCanBeReset'
    BY <2>1, <1>1, <2>2, <2>7 DEF St!HookCanBeReset
  <2>15. QED
    BY <2>7, <2>11, <2>12, <2>13, <2>14 DEF St!SettingsInv
<1>6. ASSUME NEW q \in Settings, St!PostWebhook(q) PROVE St!SettingsInv'
  <2> DEFINE r == setting[q].repo
             n == made + 1
             s == [setting[q] EXCEPT !.pc = "posted", !.made = n]
  <2>1. /\ setting[q] \in St!Setting /\ r \in Repositories /\ setting[q].pc \in {"forgotten", "seen"}
        /\ setting[q] # St!None3 /\ setting[q].seen.hookid = 0
        /\ made' = n /\ n \in 1..MaxHook /\ webhooks' = [webhooks EXCEPT ![r] = webhooks[r] \cup {n}]
        /\ UNCHANGED <<repo, overlapped, died>>
    BY <1>1, <1>2, <1>6 DEF St!PostWebhook, St!Row, St!None3, St!RequestsKnow, St!SettingsTypeOK
  <2>2. s \in St!Setting /\ s.pc = "posted" /\ s.seen = setting[q].seen /\ s.repo = r /\ s.made = n
    <3>1. n \in 0..MaxHook
      BY <2>1
    <3> HIDE DEF n
    <3>2. QED
      BY <2>1, <3>1 DEF St!Setting
  <2>3. setting' = [setting EXCEPT ![q] = s]
    <3>1. \A x \in Settings : setting'[x] = IF x = q THEN s ELSE setting[x]
      BY <1>1, <1>6, <2>1 DEF St!PostWebhook, St!SettingsTypeOK, St!Setting
    <3>2. DOMAIN setting' = Settings /\ setting' = [x \in DOMAIN setting' |-> setting'[x]]
      BY <1>1, <1>6 DEF St!PostWebhook, St!SettingsTypeOK
    <3> HIDE DEF s
    <3>3. QED
      BY <1>1, <3>1, <3>2 DEF St!SettingsTypeOK
  <2> HIDE DEF s
  <2>4. /\ webhooks[r] \cup {n} \in SUBSET (1..MaxHook) /\ repo' = [repo EXCEPT ![r] = repo[r]]
        /\ repo[r] \in St!RepoRow /\ made' \in 0..MaxHook
    BY <1>1, <2>1 DEF St!SettingsTypeOK
  <2>5. HookChanges(q, r, repo[r], s, webhooks[r] \cup {n})
    BY <2>1, <2>2, <2>3, <2>4 DEF HookChanges
  <2>6. /\ St!SettingsTypeOK' /\ St!WithinCredits'
        /\ \A x \in Settings : setting'[x] = IF x = q THEN s ELSE setting[x]
        /\ \A y \in Repositories : webhooks'[y] = IF y = r THEN webhooks[r] \cup {n} ELSE webhooks[y]
    BY <2>1, <2>5, HookMoves
  <2>7. \A x \in Settings, y \in Repositories :
           /\ St!Posting(x, y)' <=> St!Posting(x, y) \/ (x = q /\ y = r)
           /\ St!Clearing(x, y)' <=> St!Clearing(x, y)
           /\ St!Posting(x, y) => x # q
           /\ St!Clearing(x, y) => x # q
    BY <2>1, <2>2, <2>6 DEF St!Posting, St!Clearing
  <2>8. \A x \in Settings : /\ setting'[x] # St!None3 => setting[x] # St!None3
                            /\ setting'[x].seen = setting[x].seen
                            /\ x # q => setting'[x] = setting[x]
    BY <2>1, <2>2, <2>6
  <2>9. made \in Nat /\ n = made + 1 /\ \A x \in Settings, y \in Repositories : St!Posting(x, y) =>
           setting[x].made \in 1..made
    BY <1>1 DEF St!HooksAreNumbered, St!SettingsTypeOK
  <2> HIDE DEF n
  <2>10. St!HooksAreNumbered'
    <3>1. \A y \in Repositories : webhooks'[y] \subseteq 1..made' /\ repo'[y].hookid \in 0..made'
      BY <1>1, <2>1, <2>6, <2>9 DEF St!HooksAreNumbered
    <3>2. \A x \in Settings : setting'[x] # St!None3 =>
             setting'[x].seen.hookid \in 0..made' /\ setting'[x].made \in 0..made'
      BY <1>1, <2>1, <2>2, <2>6, <2>8, <2>9 DEF St!HooksAreNumbered
    <3>3. ASSUME NEW x \in Settings, NEW y \in Repositories, St!Posting(x, y), x # q
          PROVE  /\ setting'[x].made \in webhooks'[y]
                 /\ \A z \in Repositories : repo[z].hookid # setting'[x].made
                 /\ \A p \in Settings : setting'[p] # St!None3 =>
                       /\ setting'[p].seen.hookid # setting'[x].made
                       /\ p # x => setting'[p].made # setting'[x].made
      BY <1>1, <2>2, <2>6, <2>8, <2>9, <3>3 DEF St!HooksAreNumbered
    <3>4. \A p \in Settings : setting[p] # St!None3 => setting[p].made \in 0..made
      BY <1>1, <2>9 DEF St!HooksAreNumbered
    <3>5. /\ n \in webhooks'[r] /\ \A z \in Repositories : repo[z].hookid # n
          /\ \A p \in Settings : setting'[p] # St!None3 =>
                /\ setting'[p].seen.hookid # n /\ (p # q => setting'[p].made # n)
      BY <1>1, <2>1, <2>6, <2>8, <2>9, <3>4 DEF St!HooksAreNumbered
    <3>6. QED
      BY <2>1, <2>2, <2>6, <2>7, <3>1, <3>2, <3>3, <3>5 DEF St!HooksAreNumbered
  <2>11. St!RequestsKnow'
    BY <1>1, <2>1, <2>2, <2>6 DEF St!RequestsKnow
  <2>12. St!HooksAreKnown'
    BY <2>1, <1>1, <2>7, <2>8, <2>2, <2>6 DEF St!HooksAreKnown
  <2>13. St!HookCanBeReset'
    BY <1>1, <2>1, <2>2, <2>6 DEF St!HookCanBeReset
  <2>14. QED
    BY <2>6, <2>10, <2>11, <2>12, <2>13 DEF St!SettingsInv
<1>7. ASSUME NEW q \in Settings, St!SaveWebhook(q) PROVE St!SettingsInv'
  <2> DEFINE r == setting[q].repo
             n == setting[q].made
             rowsaved == [setting[q].seen EXCEPT !.hookid = n]
  <2>1. /\ setting[q] \in St!Setting /\ r \in Repositories /\ setting[q].pc = "posted"
        /\ setting[q] # St!None3 /\ setting[q].seen \in St!RepoRow /\ setting[q].seen.hookid = 0
        /\ repo' = [repo EXCEPT ![r] = rowsaved] /\ setting' = [setting EXCEPT ![q] = St!None3]
        /\ overlapped' = IF repo[r] = setting[q].seen THEN overlapped ELSE overlapped \cup {setting[q].kind}
        /\ UNCHANGED <<webhooks, made, died>>
    BY <1>1, <1>2, <1>7 DEF St!SaveWebhook, St!SaveSeen, St!Row, St!None3, St!End, St!RequestsKnow
  <2>2. rowsaved \in St!RepoRow /\ rowsaved.hookid = n /\ rowsaved.active = setting[q].seen.active
    BY <2>1 DEF St!RepoRow, St!Setting
  <2> HIDE DEF rowsaved
  <2>3. St!Posting(q, r) /\ n \in webhooks[r] /\ n \in 1..made /\ n \in 1..MaxHook
    BY <1>1, <2>1 DEF St!HooksAreNumbered, St!Posting, St!SettingsTypeOK
  <2>4. /\ webhooks' = [webhooks EXCEPT ![r] = webhooks[r]] /\ webhooks[r] \in SUBSET (1..MaxHook)
        /\ made' \in 0..MaxHook
    BY <1>1, <2>1 DEF St!SettingsTypeOK
  <2>5. HookChanges(q, r, rowsaved, St!None3, webhooks[r])
    BY <2>1, <2>2, <2>4 DEF HookChanges
  <2>6. /\ St!SettingsTypeOK' /\ St!WithinCredits'
        /\ \A x \in Settings : setting'[x] = IF x = q THEN St!None3 ELSE setting[x]
        /\ \A y \in Repositories : repo'[y] = IF y = r THEN rowsaved ELSE repo[y]
    BY <2>1, <2>5, HookMoves
  <2>7. \A x \in Settings, y \in Repositories :
           /\ St!Posting(x, y)' <=> St!Posting(x, y) /\ x # q
           /\ St!Clearing(x, y)' <=> St!Clearing(x, y)
           /\ St!Clearing(x, y) => x # q
    BY <2>1, <2>6 DEF St!Posting, St!Clearing, St!None3
  <2>8. \A x \in Settings : setting'[x] # St!None3 => x # q /\ setting'[x] = setting[x]
    BY <2>6
  <2>9. \A x \in Settings : x # q => setting'[x] = setting[x]
    BY <2>6
  <2> HIDE DEF n
  <2>10. St!HooksAreNumbered'
    <3>1. \A y \in Repositories : repo'[y].hookid \in {n, repo[y].hookid} /\ webhooks'[y] = webhooks[y]
      BY <2>1, <2>2, <2>6
    <3>2. /\ \A y \in Repositories : webhooks'[y] \subseteq 1..made' /\ repo'[y].hookid \in 0..made'
          /\ \A x \in Settings : setting'[x] # St!None3 =>
               setting'[x].seen.hookid \in 0..made' /\ setting'[x].made \in 0..made'
      BY <1>1, <2>1, <2>3, <2>8, <3>1 DEF St!HooksAreNumbered
    <3>3. ASSUME NEW x \in Settings, NEW y \in Repositories, St!Posting(x, y), x # q
          PROVE  /\ setting'[x].made \in webhooks'[y]
                 /\ \A z \in Repositories : repo'[z].hookid # setting'[x].made
                 /\ \A p \in Settings : setting'[p] # St!None3 =>
                       /\ setting'[p].seen.hookid # setting'[x].made
                       /\ p # x => setting'[p].made # setting'[x].made
      BY <1>1, <2>1, <2>9, <3>3, <2>8, <3>1 DEF St!HooksAreNumbered, n
    <3>4. QED
      BY <2>7, <3>2, <3>3 DEF St!HooksAreNumbered
  <2>11. St!RequestsKnow'
    BY <1>1, <2>6 DEF St!RequestsKnow, St!None3
  <2>12. St!HooksAreKnown'
    <3>1. SUFFICES ASSUME overlapped' = {}, ~died, NEW y \in Repositories
                   PROVE  /\ \A p \in Settings : St!Clearing(p, y)' =>
                               /\ repo'[y].hookid = setting'[p].seen.hookid
                               /\ \A x \in Settings : St!Clearing(x, y)' => x = p
                          /\ \A m \in 1..MaxHook : m \in webhooks[y] <=>
                               \/ m = repo'[y].hookid /\ \A p \in Settings : ~St!Clearing(p, y)'
                               \/ \E p \in Settings : St!Posting(p, y)' /\ setting'[p].made = m
      BY <2>1 DEF St!HooksAreKnown
    <3>2. overlapped = {} /\ repo[r].hookid = 0
      BY <2>1, <3>1
    <3>3. /\ \A p \in Settings : St!Clearing(p, y) => repo[y].hookid = setting[p].seen.hookid
                                                       /\ \A x \in Settings : St!Clearing(x, y) => x = p
          /\ \A m \in 1..MaxHook : m \in webhooks[y] <=>
             \/ m = repo[y].hookid /\ \A p \in Settings : ~St!Clearing(p, y)
             \/ \E p \in Settings : St!Posting(p, y) /\ setting[p].made = m
      BY <1>1, <3>1, <3>2 DEF St!HooksAreKnown
    <3>4. \A p \in Settings : ~St!Clearing(p, r)
      <4>1. ASSUME NEW p \in Settings, St!Clearing(p, r) PROVE FALSE
        BY <1>1, <2>1, <3>1, <3>2, <4>1 DEF St!HooksAreKnown, St!RequestsKnow, St!Clearing
      <4>2. QED
        BY <4>1
    <3>5. CASE y = r
      BY <2>2, <2>3, <2>6, <2>7, <2>9, <3>2, <3>3, <3>4, <3>5 DEF n
    <3>6. CASE y # r
      <4>1. ~St!Posting(q, y)
        BY <3>6 DEF St!Posting
      <4>2. QED
        BY <2>6, <2>7, <2>9, <3>3, <3>6, <4>1
    <3>7. QED
      BY <3>5, <3>6
  <2>13. St!HookCanBeReset'
    BY <2>1, <1>1, <2>2, <2>3, <2>6 DEF St!HookCanBeReset
  <2>14. QED
    BY <2>6, <2>10, <2>11, <2>12, <2>13 DEF St!SettingsInv
<1>8. ASSUME NEW q \in Settings, St!CutShort(q) PROVE St!SettingsInv'
  BY <1>2, <1>8, <1>1, EndsOnly DEF St!CutShort, St!End, St!SettingsTypeOK
<1>9. ASSUME NEW q \in Settings, St!RegenerateToken(q) PROVE St!SettingsInv'
  <2>1. /\ setting[q] \in St!Setting /\ setting[q].pc = "seen" /\ setting[q].seen \in St!RepoRow
        /\ setting' = [setting EXCEPT ![q] = St!None3]
        /\ repo' = [repo EXCEPT ![setting[q].repo] = setting[q].seen]
        /\ overlapped' = IF repo[setting[q].repo] = setting[q].seen THEN overlapped
                         ELSE overlapped \cup {"token"}
        /\ UNCHANGED <<webhooks, made, died>>
    BY <1>2, <1>9 DEF St!RegenerateToken, St!SaveSeen, St!Row, St!None3, St!End
  <2>2. overlapped' = overlapped => repo[setting[q].repo] = setting[q].seen \/ overlapped \ {"reset"} # {}
    BY <2>1
  <2>3. QED
    BY <2>1, <2>2, SavesAndEnds
<1>10. ASSUME NEW q \in Settings, St!CheckCredits(q) PROVE St!SettingsInv'
  <2>1. /\ setting[q] \in St!Setting /\ setting[q].pc = "seen" /\ setting[q] # St!None3
        /\ UNCHANGED <<repo, webhooks, made, overlapped, died>>
    BY <1>2, <1>10 DEF St!CheckCredits, St!None3
  <2>2. CASE St!NoCredits(repo)
    BY <1>10, <2>1, <2>2, <1>1, EndsOnly DEF St!CheckCredits, St!End, St!SettingsTypeOK
  <2>3. CASE ~St!NoCredits(repo)
    <3> DEFINE s == [setting[q] EXCEPT !.pc = "allowed", !.counted = St!Active(repo)]
    <3>1. St!Active(repo) \in SUBSET Repositories
      BY DEF St!Active
    <3>2. /\ s \in St!Setting /\ s.pc = "allowed" /\ s.seen = setting[q].seen /\ s.made = setting[q].made
          /\ s.counted = St!Active(repo)
      BY <2>1, <3>1 DEF St!Setting
    <3>3. setting' = [setting EXCEPT ![q] = s]
      <4>1. \A x \in Settings : setting'[x] = IF x = q THEN s ELSE setting[x]
        BY <1>1, <1>10, <2>1, <2>3 DEF St!CheckCredits, St!SettingsTypeOK, St!Setting
      <4>2. DOMAIN setting' = Settings /\ setting' = [x \in DOMAIN setting' |-> setting'[x]]
        BY <1>1, <1>10, <2>3 DEF St!CheckCredits, St!SettingsTypeOK
      <4> HIDE DEF s
      <4>3. QED
        BY <1>1, <4>1, <4>2 DEF St!SettingsTypeOK
    <3> HIDE DEF s
    <3>4. ~(St!Cardinality(s.counted) >= Credits)
      BY <2>3, <3>2 DEF St!NoCredits
    <3>5. HooksInv'
      BY <1>1, <2>1, <3>2, <3>3, <3>4, RequestSees DEF HooksInv
    <3>6. St!SettingsTypeOK' /\ St!WithinCredits'
      BY <1>1, <2>1, <3>2, <3>3, OneSetting DEF St!SettingsTypeOK, St!WithinCredits, St!Active
    <3>7. QED
      BY <3>5, <3>6 DEF HooksInv, St!SettingsInv
  <2>4. QED
    BY <2>2, <2>3
<1>11. ASSUME NEW q \in Settings, St!SaveActive(q) PROVE St!SettingsInv'
  <2> DEFINE rowsaved == [setting[q].seen EXCEPT !.active = TRUE]
  <2>1. /\ setting[q] \in St!Setting /\ setting[q].pc = "allowed" /\ setting[q].seen \in St!RepoRow
        /\ setting' = [setting EXCEPT ![q] = St!None3]
        /\ repo' = [repo EXCEPT ![setting[q].repo] = rowsaved]
        /\ overlapped' = IF repo[setting[q].repo] = setting[q].seen /\ setting[q].counted = St!Active(repo)
                         THEN overlapped ELSE overlapped \cup {"activate"}
        /\ UNCHANGED <<webhooks, made, died>>
    BY <1>2, <1>11 DEF St!SaveActive, St!Row, St!None3, St!End
  <2>2. overlapped' = overlapped => repo[setting[q].repo] = setting[q].seen \/ overlapped \ {"reset"} # {}
    BY <2>1
  <2>3. rowsaved \in St!RepoRow /\ rowsaved.hookid = setting[q].seen.hookid
    BY <2>1 DEF St!RepoRow
  <2>4. overlapped' = {} => ~(St!Cardinality(St!Active(repo)) >= Credits)
    BY <1>1, <2>1 DEF St!RequestsKnow
  <2> HIDE DEF rowsaved
  <2>5. QED
    BY <2>1, <2>2, <2>3, <2>4, SavesAndEnds
<1>12. ASSUME NEW q \in Settings, St!Deactivate(q) PROVE St!SettingsInv'
  <2> DEFINE rowsaved == [setting[q].seen EXCEPT !.active = FALSE]
  <2>1. /\ setting[q] \in St!Setting /\ setting[q].pc = "seen" /\ setting[q].seen \in St!RepoRow
        /\ setting' = [setting EXCEPT ![q] = St!None3]
        /\ repo' = [repo EXCEPT ![setting[q].repo] = rowsaved]
        /\ overlapped' = IF repo[setting[q].repo] = setting[q].seen THEN overlapped
                         ELSE overlapped \cup {"deactivate"}
        /\ UNCHANGED <<webhooks, made, died>>
    BY <1>2, <1>12 DEF St!Deactivate, St!SaveSeen, St!Row, St!None3, St!End
  <2>2. overlapped' = overlapped => repo[setting[q].repo] = setting[q].seen \/ overlapped \ {"reset"} # {}
    BY <2>1
  <2>3. rowsaved \in St!RepoRow /\ rowsaved.hookid = setting[q].seen.hookid /\ ~rowsaved.active
    BY <2>1 DEF St!RepoRow
  <2> HIDE DEF rowsaved
  <2>4. QED
    BY <2>1, <2>2, <2>3, SavesAndEnds
<1>13. QED
  BY <1>3, <1>4, <1>5, <1>6, <1>7, <1>8, <1>9, <1>10, <1>11, <1>12 DEF St!SettingsNext

\* It holds before the first request,
LEMMA SettingsStart ==
    ASSUME St!SettingsInit
    PROVE  St!SettingsInv
<1> USE Assumptions DEF St!HookAssumption, St!SettingsInit
<1> DEFINE none == [hookid |-> 0, active |-> FALSE]
<1>1. none \in St!RepoRow /\ none.hookid = 0 /\ none.active = FALSE
  BY DEF St!RepoRow
<1> HIDE DEF none
<1>2. St!SettingsTypeOK /\ \A q \in Settings : setting[q] = St!None3 /\ setting[q].pc = "none"
  <2>1. \A q \in Settings : setting[q] = St!None3 /\ setting[q].pc = "none"
    BY DEF St!None3
  <2>2. repo = [r \in Repositories |-> none]
    BY DEF none
  <2>3. repo \in [Repositories -> St!RepoRow] /\ webhooks \in [Repositories -> SUBSET (1..MaxHook)]
    BY <1>1, <2>2
  <2>4. setting \in [Settings -> {St!None3} \cup St!Setting]
    OBVIOUS
  <2>5. made \in 0..MaxHook /\ overlapped = {}
    OBVIOUS
  <2>6. died \in BOOLEAN
    OBVIOUS
  <2>7. QED
    BY <2>1, <2>3, <2>4, <2>5, <2>6 DEF St!SettingsTypeOK
<1>3. \A r \in Repositories : repo[r].hookid = 0 /\ webhooks[r] = {} /\ ~repo[r].active
  OBVIOUS
<1>4. St!WithinCredits
  BY <1>3, ActiveCount, FS_EmptySet DEF St!Active, St!WithinCredits
<1>5. QED
  BY <1>2, <1>3, <1>4 DEF St!SettingsInv, St!HooksAreNumbered, St!RequestsKnow, St!HooksAreKnown,
     St!HookCanBeReset, St!Posting, St!Clearing

\* and when nothing happens.
LEMMA SettingsStay ==
    ASSUME St!SettingsInv, UNCHANGED St!settingVars
    PROVE  St!SettingsInv'
  BY DEF St!SettingsInv, St!settingVars, St!SettingsTypeOK, St!HooksAreNumbered, St!RequestsKnow,
     St!HooksAreKnown, St!HookCanBeReset, St!WithinCredits, St!Posting, St!Clearing, St!Active

-----------------------------------------------------------------------------
(* Proofs: the installation of the app *)

app == v1
installs == v2
events == v3
delivered == v4
accountName == v5       \* Installations' name
organization == v6      \* its row
using == v7
handler == v8
refreshes == v9
excused == v10

USE DEF app, installs, events, delivered, accountName, organization, using, handler, refreshes,
        excused

\* When nothing is on its way the organization names the app's installation.
LEMMA InstallSafe ==
    ASSUME In!InstallInv
    PROVE  In!InstallTypeOK /\ In!QuietInstallationIsNamed
<1>1. SUFFICES ASSUME In!Handled, excused = {}
               PROVE  /\ app = 0 => (organization # Nothing => organization.id = Nothing) /\ ~using
                      /\ app # 0 => /\ organization # Nothing /\ organization.id = app
                                    /\ refreshes = 0 => using
  BY DEF In!InstallInv, In!QuietInstallationIsNamed
<1>2. \A h \in Handlers : ~In!Reads(h) /\ handler[h].pc \notin {"switch", "refresh"}
  BY <1>1 DEF In!Handled, In!Free, In!Reads
<1>3. In!RowId = IF app = 0 THEN Nothing ELSE app
  BY <1>1, <1>2 DEF In!Handled, In!InstallInv, In!EventsLeadThere
<1>4. /\ In!RowId = Nothing => ~using
      /\ In!RowId # Nothing => using \/ refreshes > 0
  BY <1>1, <1>2 DEF In!InstallInv, In!RepositoriesFollow
<1>5. app \in Nat /\ Nothing \notin Nat /\ refreshes \in Nat
  BY Assumptions DEF In!InstallInv, In!InstallTypeOK, In!InstallAssumption
<1>6. CASE app = 0
  BY <1>3, <1>4, <1>6 DEF In!RowId
<1>7. CASE app # 0
  BY <1>3, <1>4, <1>5, <1>7 DEF In!RowId
<1>8. QED
  BY <1>6, <1>7

\* The counting there is the counting here.
LEMMA BusyCount ==
    ASSUME NEW S \in SUBSET Handlers
    PROVE  /\ IsFiniteSet(S) /\ In!Cardinality(S) = Cardinality(S) /\ Cardinality(S) \in Nat
<1>1. IsFiniteSet(Handlers)
  BY Assumptions DEF In!InstallAssumption, In!IsFiniteSet, IsFiniteSet
<1>2. In!Cardinality(S) = Cardinality(S)
  BY DEF In!Cardinality, In!IsFiniteSet, Cardinality, IsFiniteSet
<1>3. QED
  BY <1>1, <1>2, FS_Subset, FS_CardinalityType

\* One handler goes on.
LEMMA HandlerMoves ==
    ASSUME In!InstallTypeOK, NEW h \in Handlers, NEW x \in In!Handler,
           handler' = [handler EXCEPT ![h] = x]
    PROVE  /\ handler' \in [Handlers -> In!Handler]
           /\ \A g \in Handlers : handler'[g] = IF g = h THEN x ELSE handler[g]
           /\ x.pc \notin {"read", "refresh"} /\ handler[h].pc \notin {"read", "refresh"} =>
                In!Cardinality(In!Busy)' = In!Cardinality(In!Busy)
           /\ x.pc \in {"read", "refresh"} /\ handler[h].pc \in {"read", "refresh"} =>
                In!Cardinality(In!Busy)' = In!Cardinality(In!Busy)
           /\ x.pc \in {"read", "refresh"} /\ handler[h].pc \notin {"read", "refresh"} =>
                In!Cardinality(In!Busy)' = In!Cardinality(In!Busy) + 1
           /\ x.pc \notin {"read", "refresh"} /\ handler[h].pc \in {"read", "refresh"} =>
                In!Cardinality(In!Busy)' = In!Cardinality(In!Busy) - 1
           /\ In!Cardinality(In!Busy) \in Nat /\ In!Cardinality(In!Busy)' \in Nat
<1> DEFINE A == In!Busy
           B == {g \in Handlers : handler'[g].pc \in {"read", "refresh"}}
<1>1. /\ handler' \in [Handlers -> In!Handler]
      /\ \A g \in Handlers : handler'[g] = IF g = h THEN x ELSE handler[g]
  BY DEF In!InstallTypeOK
<1>2. A \in SUBSET Handlers /\ B \in SUBSET Handlers
  BY DEF In!Busy
<1>3. In!Cardinality(In!Busy)' = In!Cardinality(B)
  BY DEF In!Busy, In!Cardinality, In!IsFiniteSet
<1>4. /\ IsFiniteSet(A) /\ In!Cardinality(A) = Cardinality(A) /\ Cardinality(A) \in Nat
      /\ IsFiniteSet(B) /\ In!Cardinality(B) = Cardinality(B) /\ Cardinality(B) \in Nat
  BY <1>2, BusyCount
<1>5. CASE (x.pc \in {"read", "refresh"}) <=> (handler[h].pc \in {"read", "refresh"})
  <2>1. A = B
    BY <1>1, <1>5 DEF In!Busy
  <2>2. QED
    BY <1>1, <1>3, <1>4, <1>5, <2>1
<1>6. CASE x.pc \in {"read", "refresh"} /\ handler[h].pc \notin {"read", "refresh"}
  BY <1>1, <1>6, <1>4, FS_AddElement, <1>3 DEF In!Busy
<1>7. CASE x.pc \notin {"read", "refresh"} /\ handler[h].pc \in {"read", "refresh"}
  <2>1. A = B \cup {h} /\ h \notin B
    BY <1>1, <1>7 DEF In!Busy
  <2>2. Cardinality(A) = Cardinality(B) + 1
    BY <1>4, <2>1, FS_AddElement
  <2>3. QED
    BY <1>1, <1>3, <1>4, <1>7, <2>2
<1>8. QED
  BY <1>5, <1>6, <1>7

\* GitHub sends an event.
LEMMA EventSent ==
    ASSUME In!InstallInv, NEW action \in In!Actions, NEW id \in 1..MaxInstall,
           In!Deliver(action, id), UNCHANGED <<accountName, organization, using, handler, refreshes, excused>>,
           IF app = 0 THEN action = "created" ELSE action # "created" /\ id = app,
           app' = (IF action = "deleted" THEN 0 ELSE id),
           app' \in 0..installs', installs' \in 0..MaxInstall
    PROVE  In!InstallInv'
<1>1. PICK e : e = [action |-> action, id |-> id, name |-> accountName]
  OBVIOUS
<1>2. /\ e \in In!Event /\ e.action = action /\ e.id = id
      /\ events \in Seq(In!Event) /\ events' = Append(events, e) /\ delivered' = delivered + 1
      /\ delivered' \in 0..MaxDelivered /\ delivered \in Nat
  BY <1>1, Assumptions DEF In!InstallInv, In!InstallTypeOK, In!Event, In!Deliver, In!InstallAssumption
<1>3. /\ events' \in Seq(In!Event) /\ Len(events') = Len(events) + 1 /\ Len(events) \in Nat
      /\ events' # <<>> /\ events'[Len(events')] = e
      /\ \A i \in 1..Len(events) : events'[i] = events[i] /\ i \in 1..Len(events')
      /\ (events = <<>> <=> Len(events) = 0) /\ (events # <<>> => events'[1] = events[1])
  BY <1>2
<1>4. In!InstallTypeOK'
  BY <1>2, <1>3 DEF In!InstallInv, In!InstallTypeOK
<1>5. In!HandlersHold'
  BY DEF In!InstallInv, In!HandlersHold
<1>6. In!TasksAreOfEvents'
  <2>1. In!Busy' = In!Busy /\ In!Busy \in SUBSET Handlers
    BY DEF In!Busy
  <2>2. In!Cardinality(In!Busy) \in Nat /\ In!Cardinality(In!Busy)' = In!Cardinality(In!Busy)
    BY <2>1, BusyCount DEF In!Cardinality, In!IsFiniteSet
  <2>3. QED
    BY <1>2, <1>3, <2>2 DEF In!InstallInv, In!TasksAreOfEvents, In!InstallTypeOK
<1>7. ASSUME excused = {} PROVE In!EventsLeadThere'
  <2>1. In!EventsLeadThere
    BY <1>7 DEF In!InstallInv
  <2>2. \A h \in Handlers : /\ In!Reads(h)' <=> In!Reads(h)
                            /\ In!Suits(handler[h].event)' <=> In!Suits(handler[h].event)
    BY DEF In!Reads, In!Suits, In!RowId
  <2>3. \A f \in In!Event : In!Leaves(f) => In!Follows(f, e)
    BY <1>2, Assumptions DEF In!Leaves, In!Follows, In!Event, In!InstallAssumption
  <2>4. In!Leaves(e)'
    BY <1>2 DEF In!Leaves
  <2>5. \A h \in Handlers : In!Reads(h) => handler[h].event \in In!Event
    BY DEF In!InstallInv, In!InstallTypeOK, In!Handler, In!HandlersHold, In!Reads
  <2>6. \A i \in 1..Len(events') - 1 : In!Follows(events'[i], events'[i + 1])
    BY <1>3, <1>2, <2>1, <2>3 DEF In!EventsLeadThere
  <2>7. CASE events = <<>>
    BY <1>3, <2>7, <2>1, <2>3, <2>5, <1>2, <2>2, <2>4, <2>6 DEF In!EventsLeadThere, In!Suits,
       In!RowId
  <2>8. CASE events # <<>>
    BY <1>3, <2>8, <2>1, <2>2, <2>4, <2>6 DEF In!Suits, In!RowId, In!EventsLeadThere
  <2>9. QED
    BY <2>7, <2>8
<1>8. In!RepositoriesFollow' <=> In!RepositoriesFollow
  BY DEF In!RepositoriesFollow, In!RowId
<1>9. QED
  BY <1>4, <1>5, <1>6, <1>7, <1>8 DEF In!InstallInv

\* A handler goes on that no event concerns: what leads to GitHub's installation stays.
LEMMA NothingRead ==
    ASSUME In!EventsLeadThere, UNCHANGED <<app, events>>, In!RowId' = In!RowId,
           \A g \in Handlers : /\ In!Reads(g)' <=> In!Reads(g)
                               /\ In!Reads(g) => handler'[g].event = handler[g].event
    PROVE  In!EventsLeadThere'
<1>1. \A e : In!Suits(e)' <=> In!Suits(e)
  BY DEF In!Suits
<1>2. \A e : In!Leaves(e)' <=> In!Leaves(e)
  BY DEF In!Leaves
<1>3. \A g \in Handlers : In!Reads(g) => (In!Suits(handler[g].event)' <=> In!Suits(handler[g].event))
                                         /\ (In!Leaves(handler[g].event)' <=> In!Leaves(handler[g].event))
  BY DEF In!Suits, In!Leaves
<1>4. /\ In!Suits(events[1])' <=> In!Suits(events[1])
      /\ In!Leaves(events[Len(events)])' <=> In!Leaves(events[Len(events)])
  BY DEF In!Suits, In!Leaves
<1>5. QED
  BY <1>3, <1>4 DEF In!EventsLeadThere

\* The conjuncts of the invariant, to cite
LEMMA InstallFacts ==
    ASSUME In!InstallInv
    PROVE  /\ In!InstallTypeOK /\ In!HandlersHold /\ In!TasksAreOfEvents
           /\ events \in Seq(In!Event) /\ handler \in [Handlers -> In!Handler]
           /\ In!Free \in In!Handler /\ In!Free.pc = "idle"
           /\ \A e \in In!Event : e.id \in 1..MaxInstall /\ e.id # Nothing /\ e # Nothing
           /\ \A r \in In!InstallRow : r # Nothing /\ r.id \in {Nothing} \cup 1..MaxInstall
           /\ delivered \in Nat /\ refreshes \in Nat /\ delivered <= MaxDelivered
           /\ Nothing \notin Nat /\ MaxDelivered \in Nat
           /\ organization \in {Nothing} \cup In!InstallRow
           /\ excused \subseteq {"overtaken", "stale", "late", "died", "renamed"}
<1>1. Nothing \notin Nat /\ Nothing \notin In!Event /\ Nothing \notin In!InstallRow /\ MaxDelivered \in Nat
      /\ MaxInstall \in Nat
  BY Assumptions DEF In!InstallAssumption
<1>2. In!InstallTypeOK /\ In!HandlersHold /\ In!TasksAreOfEvents
  BY DEF In!InstallInv
<1>3. In!Free \in In!Handler /\ In!Free.pc = "idle"
  BY DEF In!Free, In!Handler
<1>4. \A e \in In!Event : e.id \in 1..MaxInstall
  BY DEF In!Event
<1>5. \A r \in In!InstallRow : r.id \in {Nothing} \cup 1..MaxInstall
  BY DEF In!InstallRow
<1>6. QED
  BY <1>1, <1>2, <1>3, <1>4, <1>5 DEF In!InstallTypeOK

\* A handler takes the next event.
LEMMA EventRead ==
    ASSUME In!InstallInv, NEW h \in Handlers, In!ReadEvent(h)
    PROVE  In!InstallInv'
<1>1. PICK e : e = Head(events)
  OBVIOUS
<1>2. /\ events # <<>> /\ events' = Tail(events) /\ handler[h] = In!Free
      /\ UNCHANGED <<app, installs, delivered, accountName, using, refreshes>>
  BY DEF In!ReadEvent
<1>3. /\ e \in In!Event /\ events' \in Seq(In!Event) /\ e = events[1]
      /\ Len(events) \in Nat \ {0} /\ Len(events') = Len(events) - 1
      /\ \A i \in 1..Len(events') : events'[i] = events[i + 1]
  BY <1>1, <1>2, InstallFacts
<1>4. handler[h].pc = "idle" /\ ~In!Reads(h)
  BY <1>2, InstallFacts DEF In!Reads
<1>5. CASE organization # Nothing /\ organization.name # e.name
  <2>1. excused' = excused \cup {"renamed"} /\ UNCHANGED <<organization, handler>>
    BY <1>1, <1>5 DEF In!ReadEvent
  <2>2. In!InstallTypeOK'
    BY <1>2, <1>3, <2>1, InstallFacts DEF In!InstallTypeOK
  <2>3. In!HandlersHold'
    BY <1>2, <2>1, InstallFacts DEF In!HandlersHold
  <2>4. In!TasksAreOfEvents'
    <3>1. In!Cardinality(In!Busy)' = In!Cardinality(In!Busy)
      BY <2>1 DEF In!Busy, In!Cardinality, In!IsFiniteSet
    <3>2. In!Cardinality(In!Busy) \in Nat
      <4>1. In!Busy \in SUBSET Handlers
        BY DEF In!Busy
      <4>2. QED
        BY <4>1, BusyCount
    <3>3. QED
      BY <1>2, <1>3, <3>1, <3>2, InstallFacts DEF In!TasksAreOfEvents
  <2>5. QED
    BY <2>1, <2>2, <2>3, <2>4 DEF In!InstallInv
<1>6. CASE ~(organization # Nothing /\ organization.name # e.name)
  <2>1. PICK r : r = IF organization = Nothing THEN [id |-> Nothing, name |-> e.name] ELSE organization
    OBVIOUS
  <2>2. /\ r \in In!InstallRow /\ r # Nothing
        /\ r.id = IF organization = Nothing THEN Nothing ELSE organization.id
    BY <1>3, <2>1, InstallFacts DEF In!InstallRow, In!Event
  <2>3. PICK x : x = [pc |-> "read", event |-> e, row |-> r]
    OBVIOUS
  <2>4. x \in In!Handler /\ x.pc = "read" /\ x.event = e /\ x.row = r
    BY <1>3, <2>2, <2>3 DEF In!Handler
  <2>5. /\ organization' = r /\ handler' = [handler EXCEPT ![h] = x]
        /\ excused' = IF \E g \in Handlers : handler[g].pc = "read"
                      THEN excused \cup {"overtaken"} ELSE excused
    BY <1>1, <1>6, <2>1, <2>3 DEF In!ReadEvent
  <2>6. /\ handler' \in [Handlers -> In!Handler]
        /\ \A g \in Handlers : handler'[g] = IF g = h THEN x ELSE handler[g]
        /\ In!Cardinality(In!Busy)' = In!Cardinality(In!Busy) + 1
        /\ In!Cardinality(In!Busy) \in Nat
    BY <1>4, <2>4, <2>5, HandlerMoves, InstallFacts
  <2>7. In!InstallTypeOK'
    BY <1>2, <1>3, <2>2, <2>5, <2>6, InstallFacts DEF In!InstallTypeOK
  <2>8. In!HandlersHold'
    BY <1>2, <1>3, <2>2, <2>4, <2>5, <2>6, InstallFacts DEF In!HandlersHold
  <2>9. In!TasksAreOfEvents'
    BY <1>2, <1>3, <2>6, InstallFacts DEF In!TasksAreOfEvents
  <2>10. In!RowId' = In!RowId
    BY <2>2, <2>5 DEF In!RowId
  <2>11. ASSUME excused' = {}
         PROVE  In!EventsLeadThere' /\ In!RepositoriesFollow'
    <3>1. excused = {} /\ \A g \in Handlers : ~In!Reads(g)
      BY <2>5, <2>11 DEF In!Reads
    <3>2. In!EventsLeadThere /\ In!RepositoriesFollow
      BY <3>1 DEF In!InstallInv
    <3>3. \A g \in Handlers : In!Reads(g)' <=> g = h
      BY <2>4, <2>6, <3>1 DEF In!Reads
    <3>4. In!Suits(e)' <=> In!Suits(e)
      BY <2>10 DEF In!Suits
    <3>5. In!Suits(e)
      BY <1>2, <1>3, <3>1, <3>2 DEF In!EventsLeadThere
    <3>6. \A i \in 1..Len(events') - 1 : In!Follows(events'[i], events'[i + 1])
      BY <1>3, <3>2 DEF In!EventsLeadThere
    <3>7. \A g \in Handlers : In!Reads(g)' => In!Suits(handler[g].event)'
      BY <2>4, <2>6, <3>3, <3>4, <3>5 DEF In!Suits
    <3>8. ASSUME events' = <<>> PROVE In!EventsLeadThere'
      <4>1. Len(events) = 1
        BY <1>3, <3>8
      <4>2. In!Leaves(e)'
        BY <1>2, <1>3, <3>2, <4>1 DEF In!EventsLeadThere, In!Leaves
      <4>3. \A g \in Handlers : In!Reads(g)' => In!Leaves(handler[g].event)'
        BY <2>4, <2>6, <3>3, <4>2 DEF In!Leaves
      <4>4. QED
        BY <3>3, <3>6, <3>7, <3>8, <4>3 DEF In!EventsLeadThere
    <3>9. ASSUME events' # <<>> PROVE In!EventsLeadThere'
      BY <1>3, <3>9, <1>2, <3>2, <2>4, <2>6, <3>3, <3>6, <3>7 DEF In!EventsLeadThere, In!Leaves
    <3>10. In!RepositoriesFollow'
      BY <1>4, <2>6, <1>2, <2>10, <3>2 DEF In!RepositoriesFollow
    <3>11. QED
      BY <3>8, <3>9, <3>10
  <2>12. QED
    BY <2>7, <2>8, <2>9, <2>11 DEF In!InstallInv
<1>7. QED
  BY <1>5, <1>6

\* A handler saves the organization that it has read.
LEMMA InstallationSaved ==
    ASSUME In!InstallInv, NEW h \in Handlers, In!SaveInstallation(h)
    PROVE  In!InstallInv'
<1>1. PICK e : e = handler[h].event
  OBVIOUS
<1>2. PICK r : r = IF e.action # "deleted" /\ handler[h].row.id # Nothing THEN organization
                   ELSE In!Changed(handler[h].row, e)
  OBVIOUS
<1>3. PICK x : x = [handler[h] EXCEPT !.pc = IF e.action = "deleted" THEN "switch" ELSE "refresh",
                                      !.row = r]
  OBVIOUS
<1>4. /\ handler[h].pc = "read" /\ organization' = r
      /\ excused' = IF organization = handler[h].row THEN excused ELSE excused \cup {"stale"}
      /\ UNCHANGED <<app, installs, events, delivered, accountName, using, refreshes>>
  BY <1>1, <1>2 DEF In!SaveInstallation, In!atGithub
<1>5. /\ handler[h] \in In!Handler /\ e \in In!Event /\ handler[h].row \in In!InstallRow
      /\ organization \in In!InstallRow
  BY <1>1, <1>4, InstallFacts DEF In!HandlersHold, In!Handler
<1>6. /\ r \in In!InstallRow
      /\ r.id = (IF e.action = "deleted" THEN Nothing
                 ELSE IF handler[h].row.id # Nothing THEN organization.id ELSE e.id)
  BY <1>2, <1>5, InstallFacts DEF In!Changed, In!InstallRow
<1>7. /\ x \in In!Handler /\ x.pc = (IF e.action = "deleted" THEN "switch" ELSE "refresh")
      /\ x.row = r /\ x.event = e
  BY <1>1, <1>3, <1>5, <1>6 DEF In!Handler
<1>8. handler' = [handler EXCEPT ![h] = x]
  BY <1>1, <1>2, <1>3, <1>5, InstallFacts DEF In!SaveInstallation, In!Handler
<1>9. /\ handler' \in [Handlers -> In!Handler]
      /\ \A g \in Handlers : handler'[g] = IF g = h THEN x ELSE handler[g]
      /\ In!Cardinality(In!Busy)' <= In!Cardinality(In!Busy)
      /\ In!Cardinality(In!Busy) \in Nat /\ In!Cardinality(In!Busy)' \in Nat
  <2>1. CASE x.pc = "refresh"
    <3>1. x.pc \in {"read", "refresh"} /\ handler[h].pc \in {"read", "refresh"}
      BY <1>4, <2>1
    <3>2. /\ handler' \in [Handlers -> In!Handler]
          /\ \A g \in Handlers : handler'[g] = IF g = h THEN x ELSE handler[g]
          /\ In!Cardinality(In!Busy)' = In!Cardinality(In!Busy)
          /\ In!Cardinality(In!Busy) \in Nat /\ In!Cardinality(In!Busy)' \in Nat
      BY <1>7, <1>8, <3>1, HandlerMoves, InstallFacts
    <3>3. QED
      BY <3>2
  <2>2. CASE x.pc = "switch"
    <3>1. x.pc \notin {"read", "refresh"} /\ handler[h].pc \in {"read", "refresh"}
      BY <1>4, <2>2
    <3>2. /\ handler' \in [Handlers -> In!Handler]
          /\ \A g \in Handlers : handler'[g] = IF g = h THEN x ELSE handler[g]
          /\ In!Cardinality(In!Busy)' = In!Cardinality(In!Busy) - 1
          /\ In!Cardinality(In!Busy) \in Nat /\ In!Cardinality(In!Busy)' \in Nat
      BY <1>7, <1>8, <3>1, HandlerMoves, InstallFacts
    <3>3. QED
      BY <3>2
  <2>3. QED
    BY <1>7, <2>1, <2>2
<1>10. In!InstallTypeOK'
  BY <1>4, <1>6, <1>9, InstallFacts DEF In!InstallTypeOK
<1>11. In!HandlersHold'
  BY <1>4, <1>5, <1>6, <1>7, <1>9, InstallFacts DEF In!HandlersHold
<1>12. In!TasksAreOfEvents'
  <2>1. Len(events) \in Nat
    BY InstallFacts
  <2>2. QED
    BY <1>4, <1>9, <2>1, InstallFacts DEF In!TasksAreOfEvents
<1>13. ASSUME excused' = {}
       PROVE  In!EventsLeadThere' /\ In!RepositoriesFollow'
  <2>1. excused = {} /\ organization = handler[h].row /\ In!EventsLeadThere /\ In!RepositoriesFollow
    BY <1>4, <1>13 DEF In!InstallInv
  <2>2. \A g \in Handlers : (In!Reads(g) <=> g = h) /\ ~In!Reads(g)'
    BY <1>4, <1>7, <1>9, <2>1 DEF In!EventsLeadThere, In!Reads
  <2>3. In!Suits(e)
    BY <1>1, <2>1, <2>2 DEF In!EventsLeadThere
  <2>4. organization # Nothing /\ r # Nothing /\ In!RowId = organization.id /\ In!RowId' = r.id
    BY <1>4, <1>5, <1>6, InstallFacts DEF In!RowId
  <2>5. e.id # Nothing /\ e.id \in 1..MaxInstall /\ e.id # 0
    BY <1>5, InstallFacts, Assumptions DEF In!InstallAssumption
  <2>6. In!RowId' = IF e.action = "deleted" THEN Nothing ELSE e.id
    BY <1>6, <2>1, <2>3, <2>4, <2>5 DEF In!Suits
  <2>7. In!EventsLeadThere'
    <3>1. CASE events = <<>>
      BY <1>1, <2>1, <2>2, <3>1, <2>5, <2>6, <1>4 DEF In!EventsLeadThere, In!Leaves
    <3>2. CASE events # <<>>
      BY <1>1, <2>1, <2>2, <3>2, <1>4, <2>5, <2>6 DEF In!EventsLeadThere, In!Follows, In!Suits,
         In!Leaves
    <3>3. QED
      BY <3>1, <3>2
  <2>8. In!RepositoriesFollow'
    BY <1>7, <1>9, <2>6, <2>5 DEF In!RepositoriesFollow
  <2>9. QED
    BY <2>7, <2>8
<1>14. QED
  BY <1>10, <1>11, <1>12, <1>13 DEF In!InstallInv

\* A handler ends that was not reading an event, or died: the row keeps its id, unless it is
\* excused.
LEMMA HandlerEnds ==
    ASSUME In!InstallInv, NEW h \in Handlers, handler[h].pc # "idle",
           handler' = [handler EXCEPT ![h] = In!Free],
           UNCHANGED <<app, installs, events, delivered, accountName>>,
           organization' \in In!InstallRow, using' \in BOOLEAN,
           refreshes' \in Nat,
           refreshes' = refreshes \/ (handler[h].pc = "refresh" /\ refreshes' = refreshes + 1),
           excused \subseteq excused', excused' \subseteq {"overtaken", "stale", "late", "died", "renamed"},
           excused' = {} => /\ In!RowId' = In!RowId /\ handler[h].pc # "read"
                            /\ handler[h].pc = "refresh" => refreshes' > 0
                            /\ handler[h].pc = "switch" => ~using' /\ In!RowId = Nothing
                            /\ handler[h].pc # "switch" => using' = using
    PROVE  In!InstallInv'
<1>1. /\ handler' \in [Handlers -> In!Handler]
      /\ \A g \in Handlers : handler'[g] = IF g = h THEN In!Free ELSE handler[g]
      /\ In!Cardinality(In!Busy) \in Nat /\ In!Cardinality(In!Busy)' \in Nat
      /\ In!Cardinality(In!Busy)' <= In!Cardinality(In!Busy)
      /\ handler[h].pc = "refresh" => In!Cardinality(In!Busy)' = In!Cardinality(In!Busy) - 1
  <2>1. In!Free.pc \notin {"read", "refresh"} /\ In!Free \in In!Handler
    BY InstallFacts
  <2>2. CASE handler[h].pc \in {"read", "refresh"}
    <3>1. /\ handler' \in [Handlers -> In!Handler]
          /\ \A g \in Handlers : handler'[g] = IF g = h THEN In!Free ELSE handler[g]
          /\ In!Cardinality(In!Busy)' = In!Cardinality(In!Busy) - 1
          /\ In!Cardinality(In!Busy) \in Nat /\ In!Cardinality(In!Busy)' \in Nat
      BY <2>1, <2>2, HandlerMoves, InstallFacts
    <3>2. QED
      BY <3>1
  <2>3. CASE handler[h].pc \notin {"read", "refresh"}
    <3>1. /\ handler' \in [Handlers -> In!Handler]
          /\ \A g \in Handlers : handler'[g] = IF g = h THEN In!Free ELSE handler[g]
          /\ In!Cardinality(In!Busy)' = In!Cardinality(In!Busy)
          /\ In!Cardinality(In!Busy) \in Nat /\ In!Cardinality(In!Busy)' \in Nat
      BY <2>1, <2>3, HandlerMoves, InstallFacts
    <3>2. QED
      BY <2>3, <3>1
  <2>4. QED
    BY <2>2, <2>3
<1>2. In!Free.pc = "idle" /\ organization # Nothing
  BY InstallFacts DEF In!HandlersHold
<1>3. In!TasksAreOfEvents'
  <2>1. Len(events) \in Nat
    BY InstallFacts
  <2>2. QED
    BY <1>1, <2>1, InstallFacts DEF In!TasksAreOfEvents
<1>4. refreshes' \in 0..MaxDelivered
  BY InstallFacts, <1>3, <1>1 DEF In!TasksAreOfEvents
<1>5. In!InstallTypeOK'
  BY <1>1, <1>4, InstallFacts DEF In!InstallTypeOK
<1>6. In!HandlersHold'
  <2>1. organization' # Nothing
    BY InstallFacts
  <2>2. QED
    BY <1>1, <1>2, <2>1, InstallFacts DEF In!HandlersHold
<1>7. ASSUME excused' = {}
      PROVE  In!EventsLeadThere' /\ In!RepositoriesFollow'
  <2>1. excused = {} /\ In!EventsLeadThere /\ In!RepositoriesFollow
    BY <1>7 DEF In!InstallInv
  <2>2. \A g \in Handlers : /\ In!Reads(g)' <=> In!Reads(g)
                            /\ In!Reads(g) => handler'[g].event = handler[g].event
    BY <1>1, <1>2, <1>7 DEF In!Reads
  <2>3. In!EventsLeadThere'
    BY <1>7, <2>1, <2>2, NothingRead
  <2>4. In!RepositoriesFollow'
    BY <1>1, <1>7, <2>1 DEF In!RepositoriesFollow
  <2>5. QED
    BY <2>3, <2>4
<1>8. QED
  BY <1>3, <1>5, <1>6, <1>7 DEF In!InstallInv

\* GitHub and the handlers keep the invariant.
LEMMA InstallStep ==
    ASSUME In!InstallInv, In!InstallNext
    PROVE  In!InstallInv'
<1>1. app \in 0..installs /\ installs \in 0..MaxInstall /\ MaxInstall \in Nat
  BY Assumptions DEF In!InstallInv, In!InstallTypeOK, In!InstallAssumption
<1>2. CASE In!Install
  BY <1>1, <1>2, EventSent DEF In!Install, In!Actions
<1>3. CASE In!Uninstall
  BY <1>1, <1>3, EventSent DEF In!Uninstall, In!Actions
<1>4. CASE In!ChangeInstallation
  BY <1>4, <1>1, EventSent DEF In!ChangeInstallation, In!Actions
<1>5. CASE In!RenameAccount
  <2>1. /\ accountName' \in In!Names
        /\ UNCHANGED <<app, installs, events, delivered, organization, using, handler, refreshes, excused>>
    BY <1>5 DEF In!RenameAccount, In!Names
  <2>2. In!InstallTypeOK' /\ In!HandlersHold'
    BY <2>1 DEF In!InstallInv, In!InstallTypeOK, In!HandlersHold
  <2>3. In!TasksAreOfEvents'
    BY <2>1 DEF In!InstallInv, In!TasksAreOfEvents, In!Busy, In!Cardinality, In!IsFiniteSet
  <2>4. In!RowId' = In!RowId /\ \A g \in Handlers : In!Reads(g)' <=> In!Reads(g)
    BY <2>1 DEF In!RowId, In!Reads
  <2>5. In!EventsLeadThere => In!EventsLeadThere'
    BY <2>1, <2>4, NothingRead
  <2>6. In!RepositoriesFollow => In!RepositoriesFollow'
    BY <2>1, <2>4 DEF In!RepositoriesFollow
  <2>7. QED
    BY <2>1, <2>2, <2>3, <2>5, <2>6 DEF In!InstallInv
<1>6. CASE In!SyncRepositories
  <2>1. /\ refreshes > 0 /\ refreshes' = refreshes - 1 /\ refreshes' \in 0..MaxDelivered
        /\ using' = (using \/ organization.id # Nothing) /\ organization # Nothing
        /\ UNCHANGED <<app, installs, events, delivered, accountName, organization, handler, excused>>
    BY <1>6, InstallFacts DEF In!SyncRepositories, In!atGithub, In!HandlersHold,
       In!InstallTypeOK
  <2>2. using' \in BOOLEAN /\ In!RowId = organization.id
    BY <2>1 DEF In!RowId
  <2>3. In!InstallTypeOK' /\ In!HandlersHold'
    BY <2>1, <2>2, InstallFacts DEF In!InstallTypeOK, In!HandlersHold
  <2>4. In!TasksAreOfEvents'
    <3>1. In!Busy \in SUBSET Handlers /\ In!Busy' = In!Busy
      BY <2>1 DEF In!Busy
    <3>2. In!Cardinality(In!Busy)' = In!Cardinality(In!Busy) /\ In!Cardinality(In!Busy) \in Nat
      BY <3>1, BusyCount DEF In!Cardinality, In!IsFiniteSet
    <3>3. Len(events) \in Nat
      BY InstallFacts
    <3>4. QED
      BY <2>1, <3>2, <3>3, InstallFacts DEF In!TasksAreOfEvents
  <2>5. In!RowId' = In!RowId /\ \A g \in Handlers : In!Reads(g)' <=> In!Reads(g)
    BY <2>1 DEF In!RowId, In!Reads
  <2>6. In!EventsLeadThere => In!EventsLeadThere'
    BY <2>1, <2>5, NothingRead
  <2>7. In!RepositoriesFollow => In!RepositoriesFollow'
    BY <2>1, <2>2, <2>5 DEF In!RepositoriesFollow
  <2>8. QED
    BY <2>1, <2>3, <2>4, <2>6, <2>7 DEF In!InstallInv
<1>7. ASSUME NEW h \in Handlers, In!SwitchRepositories(h) PROVE In!InstallInv'
  BY <1>7, InstallFacts, HandlerEnds DEF In!SwitchRepositories, In!Unused, In!atGithub,
     In!HandlersHold, In!RowId
<1>8. ASSUME NEW h \in Handlers, In!StartSync(h) PROVE In!InstallInv'
  <2>1. /\ handler[h].pc = "refresh" /\ refreshes' = refreshes + 1
        /\ handler' = [handler EXCEPT ![h] = In!Free]
        /\ UNCHANGED <<app, installs, events, delivered, accountName, organization, using, excused>>
    BY <1>8 DEF In!StartSync, In!atGithub
  <2>2. organization \in In!InstallRow /\ refreshes' \in Nat /\ refreshes' > 0 /\ In!RowId' = In!RowId
    BY <2>1, InstallFacts DEF In!HandlersHold, In!RowId
  <2>3. using' \in BOOLEAN
    BY <2>1, InstallFacts DEF In!InstallTypeOK
  <2>4. QED
    BY <2>1, <2>2, <2>3, HandlerEnds, InstallFacts
<1>9. ASSUME NEW h \in Handlers, In!DieHandling(h) PROVE In!InstallInv'
  BY <1>9, InstallFacts, HandlerEnds DEF In!DieHandling, In!atGithub, In!HandlersHold,
     In!InstallTypeOK
<1>10. ASSUME NEW h \in Handlers, In!SaveRead(h) PROVE In!InstallInv'
  <2>1. /\ handler[h].pc = "other" /\ handler' = [handler EXCEPT ![h] = In!Free]
        /\ organization' \in {handler[h].row, [handler[h].row EXCEPT !.name = accountName]}
        /\ excused' = IF organization = handler[h].row THEN excused ELSE excused \cup {"stale"}
        /\ UNCHANGED <<app, installs, events, delivered, accountName, using, refreshes>>
    BY <1>10 DEF In!SaveRead, In!atGithub
  <2>2. handler[h].row \in In!InstallRow /\ organization \in In!InstallRow /\ using' \in BOOLEAN
        /\ accountName \in In!Names
    BY <2>1, InstallFacts DEF In!HandlersHold, In!Handler, In!InstallTypeOK
  <2>3. organization' \in In!InstallRow /\ organization'.id = handler[h].row.id
    BY <2>1, <2>2 DEF In!InstallRow
  <2>4. organization # Nothing /\ organization' # Nothing
    BY <2>2, <2>3, InstallFacts
  <2>5. excused' = {} => In!RowId' = In!RowId
    BY <2>1, <2>3, <2>4 DEF In!RowId
  <2>6. excused \subseteq excused' /\ excused' \subseteq {"overtaken", "stale", "late", "died", "renamed"}
        /\ refreshes' \in Nat
    BY <2>1, InstallFacts
  <2>7. QED
    BY <2>1, <2>2, <2>3, <2>5, <2>6, HandlerEnds
<1>11. ASSUME NEW h \in Handlers, In!ReadRow(h) PROVE In!InstallInv'
  <2>1. PICK x : x = [In!Free EXCEPT !.pc = "other", !.row = organization]
    OBVIOUS
  <2>2. /\ handler[h] = In!Free /\ organization # Nothing /\ handler' = [handler EXCEPT ![h] = x]
        /\ UNCHANGED <<app, installs, events, delivered, accountName, organization, using, refreshes, excused>>
    BY <1>11, <2>1 DEF In!ReadRow, In!atGithub
  <2>3. x \in In!Handler /\ x.pc = "other" /\ x.row = organization
    BY <2>1, <2>2, InstallFacts DEF In!Handler, In!Free
  <2>4. x.pc \notin {"read", "refresh"} /\ handler[h].pc = "idle" /\ handler[h].pc \notin {"read", "refresh"}
    BY <2>2, <2>3, InstallFacts
  <2>5. /\ handler' \in [Handlers -> In!Handler]
        /\ \A g \in Handlers : handler'[g] = IF g = h THEN x ELSE handler[g]
        /\ In!Cardinality(In!Busy)' = In!Cardinality(In!Busy)
    BY <2>2, <2>3, <2>4, HandlerMoves, InstallFacts
  <2>6. In!InstallTypeOK' /\ In!TasksAreOfEvents'
    BY <2>2, <2>5, InstallFacts DEF In!InstallTypeOK, In!TasksAreOfEvents
  <2>7. In!HandlersHold'
    BY <2>2, <2>3, <2>5, InstallFacts DEF In!HandlersHold
  <2>8. In!RowId' = In!RowId
    BY <2>2 DEF In!RowId
  <2>9. \A g \in Handlers : /\ In!Reads(g)' <=> In!Reads(g)
                            /\ In!Reads(g) => handler'[g].event = handler[g].event
    BY <2>3, <2>4, <2>5 DEF In!Reads
  <2>10. In!EventsLeadThere => In!EventsLeadThere'
    BY <2>2, <2>8, <2>9, NothingRead
  <2>11. \A g \in Handlers : handler[g].pc \in {"switch", "refresh"} => handler'[g] = handler[g]
    BY <2>4, <2>5
  <2>12. In!RepositoriesFollow => In!RepositoriesFollow'
    BY <2>2, <2>8, <2>11 DEF In!RepositoriesFollow
  <2>13. QED
    BY <2>2, <2>6, <2>7, <2>10, <2>12 DEF In!InstallInv
<1>12. QED
  BY <1>2, <1>3, <1>4, <1>5, <1>6, <1>7, <1>8, <1>9, <1>10, <1>11, EventRead, InstallationSaved
     DEF In!InstallNext

\* It holds before the app is installed,
LEMMA InstallStart ==
    ASSUME In!InstallInit
    PROVE  In!InstallInv
<1> USE DEF In!InstallInit
<1>1. /\ MaxInstall \in Nat /\ MaxDelivered \in Nat /\ Nothing \notin In!InstallRow
      /\ In!Free \in In!Handler /\ In!Free.pc = "idle"
  BY Assumptions DEF In!InstallAssumption, In!Free, In!Handler
<1>2. organization \in {Nothing} \cup In!InstallRow /\ In!RowId = Nothing
  BY DEF In!InstallRow, In!Names, In!RowId
<1>3. \A h \in Handlers : handler[h] = In!Free
  OBVIOUS
<1>4. In!InstallTypeOK
  <2>1. app \in 0..installs /\ installs \in 0..MaxInstall /\ delivered \in 0..MaxDelivered
        /\ refreshes \in 0..MaxDelivered
    BY <1>1
  <2>2. events \in Seq(In!Event) /\ accountName \in In!Names /\ excused = {}
    BY DEF In!Names
  <2>3. handler \in [Handlers -> In!Handler]
    BY <1>1
  <2>4. using \in BOOLEAN
    OBVIOUS
  <2>5. QED
    BY <1>2, <2>1, <2>2, <2>3, <2>4 DEF In!InstallTypeOK
<1>5. In!HandlersHold
  BY <1>1, <1>3 DEF In!HandlersHold
<1>6. In!TasksAreOfEvents
  BY <1>1, <1>3, BusyCount, FS_EmptySet DEF In!Busy, In!TasksAreOfEvents
<1>7. In!EventsLeadThere
  BY <1>1, <1>2, <1>3 DEF In!EventsLeadThere, In!Reads
<1>8. In!RepositoriesFollow
  BY <1>2 DEF In!RepositoriesFollow
<1>9. QED
  BY <1>4, <1>5, <1>6, <1>7, <1>8 DEF In!InstallInv

\* and when nothing happens.
LEMMA InstallStay ==
    ASSUME In!InstallInv, UNCHANGED In!installVars
    PROVE  In!InstallInv'
<1> USE DEF In!installVars
<1>1. In!RowId' = In!RowId /\ \A g \in Handlers : In!Reads(g)' <=> In!Reads(g)
  BY DEF In!RowId, In!Reads
<1>2. In!EventsLeadThere => In!EventsLeadThere'
  BY <1>1, NothingRead
<1>3. In!RepositoriesFollow => In!RepositoriesFollow'
  BY <1>1 DEF In!RepositoriesFollow
<1>4. In!TasksAreOfEvents'
  BY DEF In!InstallInv, In!TasksAreOfEvents, In!Busy, In!Cardinality, In!IsFiniteSet
<1>5. QED
  BY <1>2, <1>3, <1>4 DEF In!InstallInv, In!InstallTypeOK, In!HandlersHold

-----------------------------------------------------------------------------
(* Proofs: rows and the provider's repositories *)

host == v1
rows == v2
projects == v3
hooks == v4
handling == v5
told == v6
raced == v7

USE DEF host, rows, projects, hooks, handling, told, raced

\* When nothing is on its way, what was told first is what the provider has.
LEMMA ProjectRowsSafe ==
    ASSUME Rw!RowsInv
    PROVE  Rw!QuietRowsAgree
<1>1. SUFFICES ASSUME hooks = <<>>, handling = {}, ~raced, NEW p \in Projects, rows[p] # Nothing
               PROVE  Rw!Shows(rows[p], projects[p])
  BY DEF Rw!QuietRowsAgree, Rw!Shows
<1>2. PICK past : Rw!Leads(past) /\ Rw!Said(past[0])
  BY <1>1 DEF Rw!RowsInv
<1>3. past[0] = projects
  <2>1. past[Len(hooks)] = projects
    BY <1>2 DEF Rw!Leads
  <2>2. Len(hooks) = 0
    BY <1>1
  <2>3. QED
    BY <2>1, <2>2
<1>4. QED
  BY <1>1, <1>2, <1>3 DEF Rw!Said

\* The suffix of a deleted repository's name is no name of one that lives.
LEMMA SuffixTells ==
    ASSUME NEW S, NEW n \in S, NEW m, NEW suffix \in S
    PROVE  /\ <<n>> \in Seq(S) /\ Append(<<n>>, suffix) \in Seq(S)
           /\ Append(<<n>>, suffix) # <<m>>
  OBVIOUS

\* The names of rows, deleted ones among them
LEMMA GoneIsNoName ==
    ASSUME NEW n \in RepositoryNames
    PROVE  /\ Rw!Name(n) \in Rw!RowName /\ Rw!Name(n) # Nothing
           /\ Rw!Gone(Rw!Name(n)) \in Rw!RowName /\ Rw!Gone(Rw!Name(n)) # Nothing
           /\ \A m \in RepositoryNames : Rw!Gone(Rw!Name(n)) # Rw!Name(m)
<1> DEFINE S == RepositoryNames \cup {"None", "deleted"}
<1>1. n \in S /\ "deleted" \in S /\ Seq(S) \subseteq Rw!RowName
  BY DEF Rw!RowName
<1>2. Nothing \notin Seq(S)
  BY Assumptions DEF Rw!MaxSentAssumption
<1> HIDE DEF S
<1>3. <<n>> \in Seq(S) /\ Append(<<n>>, "deleted") \in Seq(S)
  BY <1>1, SuffixTells
<1>4. Rw!Name(n) = <<n>> /\ Rw!Gone(Rw!Name(n)) = Append(<<n>>, "deleted")
  BY <1>2, <1>3 DEF Rw!Gone, Rw!Name
<1>5. \A m \in RepositoryNames : Append(<<n>>, "deleted") # <<m>>
  BY <1>1, SuffixTells
<1>6. QED
  BY <1>1, <1>2, <1>3, <1>4, <1>5 DEF Rw!Name

\* What is known of a repository, and what its row may be
LEMMA RowsAreNotNothing ==
    /\ Nothing \notin Rw!Project /\ Nothing \notin Rw!ProjectRow
    /\ \A r \in Rw!ProjectRow : r.owner \in Accounts /\ r.name \in Rw!RowName
                             /\ r.private \in BOOLEAN /\ r.deleted \in BOOLEAN
                             /\ r.active \in BOOLEAN /\ r.activated \in BOOLEAN
    /\ \A r \in Rw!Project : r.owner \in Accounts /\ r.private \in BOOLEAN
                          /\ \E n \in RepositoryNames : r.name = Rw!Name(n)
  BY Assumptions DEF Rw!MaxSentAssumption, Rw!ProjectRow, Rw!Project

\* A write takes the name from rows of which nothing is known any more, and only these.
LEMMA RowWritten ==
    ASSUME NEW known \in Rw!Known, NEW p \in Projects, NEW r \in Rw!ProjectRow,
           rows \in [Projects -> {Nothing} \cup Rw!ProjectRow],
           rows' = Rw!Written(rows, p, r), host' = host,
           \A q \in Projects : q # p /\ known[q] # Nothing =>
               known[q].owner # r.owner \/ known[q].name # r.name
    PROVE  /\ rows' \in [Projects -> {Nothing} \cup Rw!ProjectRow] /\ rows'[p] = r
           /\ \A q \in Projects : q # p =>
                 /\ (rows'[q] = Nothing) <=> (rows[q] = Nothing)
                 /\ rows[q] # Nothing /\ Rw!Shows(rows[q], known[q]) => Rw!Shows(rows[q], known[q])'
<1> DEFINE Taken(x) == [x EXCEPT !.name = Nothing, !.deleted = TRUE, !.active = FALSE,
                                 !.activated = FALSE]
           table == IF r.name # Nothing /\ (rows[p] = Nothing \/ rows[p].name # r.name)
                    THEN Rw!TakeName(rows, p, r) ELSE rows
<1>1. \A x \in Rw!ProjectRow : /\ Taken(x) \in Rw!ProjectRow
                               /\ Taken(x).deleted /\ ~Taken(x).active /\ ~Taken(x).activated
  BY DEF Rw!ProjectRow, Rw!RowName
<1>2. \A q \in Projects :
         \/ table[q] = rows[q]
         \/ /\ rows[q] # Nothing /\ q # p /\ rows[q].owner = r.owner /\ rows[q].name = r.name
            /\ table[q] = Taken(rows[q])
  BY DEF Rw!TakeName
<1>3. DOMAIN table = Projects /\ table = [q \in Projects |-> table[q]]
  BY DEF Rw!TakeName
<1>4. rows' = [table EXCEPT ![p] = r]
  BY DEF Rw!Written
<1> HIDE DEF Taken, table
<1>5. \A q \in Projects : rows'[q] = IF q = p THEN r ELSE table[q]
  BY <1>3, <1>4
<1>6. rows' = [q \in Projects |-> rows'[q]]
  BY <1>3, <1>4
<1>7. \A q \in Projects : rows'[q] \in {Nothing} \cup Rw!ProjectRow
  BY <1>1, <1>2, <1>5
<1>8. ASSUME NEW q \in Projects, q # p
      PROVE  /\ (rows'[q] = Nothing) <=> (rows[q] = Nothing)
             /\ rows[q] # Nothing /\ Rw!Shows(rows[q], known[q]) => Rw!Shows(rows[q], known[q])'
  <2>1. CASE rows'[q] = rows[q]
    BY <2>1 DEF Rw!Shows
  <2>2. CASE rows'[q] # rows[q]
    BY <1>2, <1>5, <1>8, <2>2, <1>1, RowsAreNotNothing DEF Rw!Shows
  <2>3. QED
    BY <2>1, <2>2
<1>9. rows'[p] = r
  BY <1>5
<1>10. rows' \in [Projects -> {Nothing} \cup Rw!ProjectRow]
  BY <1>6, <1>7
<1>11. QED
  BY <1>8, <1>9, <1>10

\* What is known first, and what events are about
LEMMA KnownFirst ==
    ASSUME NEW past, Rw!Leads(past)
    PROVE  /\ past[0] \in Rw!Known /\ Rw!Unique(past[0])
           /\ \A i \in 1..Len(hooks) : hooks[i].on \in Projects
<1> DEFINE Event == [kind : {"create", "destroy", "visibility", "rename", "transfer"},
                     on : Projects, project : Rw!Project]
<1>1. Len(hooks) \in Nat /\ past \in [0..Len(hooks) -> Rw!Known]
  BY DEF Rw!Leads
<1>2. Rw!Unique(past[0])
  BY <1>1 DEF Rw!Leads
<1>3. hooks \in Seq(Event) /\ \A e \in Event : e.on \in Projects
  BY DEF Rw!Leads
<1> HIDE DEF Event
<1>4. \A i \in 1..Len(hooks) : hooks[i] \in Event
  BY <1>3
<1>5. QED
  BY <1>1, <1>2, <1>3, <1>4

\* A handler that nothing has overtaken ends: its row says what its event told.
LEMMA RowSaved ==
    ASSUME NEW past, Rw!Leads(past), Rw!Said(past[0]), Rw!CreatedOnce, NEW h \in handling,
           handling' = handling \ {h}, UNCHANGED <<host, projects, hooks>>,
           NEW r \in Rw!ProjectRow, rows' = Rw!Written(rows, h.on, r),
           Rw!Shows(r, past[0][h.on]),
           \A q \in Projects : q # h.on /\ past[0][q] # Nothing =>
               past[0][q].owner # r.owner \/ past[0][q].name # r.name
    PROVE  Rw!CreatedOnce' /\ Rw!Leads(past)' /\ Rw!Said(past[0])'
<1>1. PICK known : known = past[0]
  OBVIOUS
<1>2. PICK p : p = h.on
  OBVIOUS
<1>3. known \in Rw!Known
  BY <1>1, KnownFirst
<1>4. Rw!Said(known) /\ Rw!Handles(h) /\ p \in Projects /\ rows[p] # Nothing
  BY <1>1, <1>2 DEF Rw!Said, Rw!Handles
<1>5. rows \in [Projects -> {Nothing} \cup Rw!ProjectRow]
  BY <1>4 DEF Rw!Said
<1>6. \A q \in Projects : q # p /\ known[q] # Nothing =>
         known[q].owner # r.owner \/ known[q].name # r.name
  BY <1>1, <1>2
<1>7. rows' = Rw!Written(rows, p, r) /\ host' = host
  BY <1>2
<1>8. /\ rows' \in [Projects -> {Nothing} \cup Rw!ProjectRow] /\ rows'[p] = r
      /\ \A q \in Projects : q # p =>
            /\ (rows'[q] = Nothing) <=> (rows[q] = Nothing)
            /\ rows[q] # Nothing /\ Rw!Shows(rows[q], known[q]) => Rw!Shows(rows[q], known[q])'
  BY <1>3, <1>4, <1>5, <1>6, <1>7, RowWritten
<1>9. \A q \in Projects : (rows'[q] = Nothing) <=> (rows[q] = Nothing)
  BY <1>4, <1>8, RowsAreNotNothing
<1>10. Rw!Leads(past)'
  BY DEF Rw!Leads, Rw!Follows, Rw!After, Rw!Unique
<1>11. Rw!CreatedOnce'
  <2>1. \A i \in 1..Len(hooks) : hooks[i].on \in Projects
    BY KnownFirst
  <2>2. QED
    BY <1>9, <2>1 DEF Rw!CreatedOnce
<1>12. Rw!Said(known)'
  <2>1. \A g \in handling' : g \in handling /\ g.on # p
    BY <1>2, <1>4 DEF Rw!Said
  <2>2. \A g \in handling' : Rw!Handles(g)' /\ rows'[g.on] # Nothing /\ known[g.on] = Rw!After(g)
    BY <1>4, <1>9, <2>1 DEF Rw!Said, Rw!Handles
  <2>3. ASSUME NEW q \in Projects, rows'[q] # Nothing, \A g \in handling' : g.on # q
        PROVE  Rw!Shows(rows[q], known[q])'
    <3>1. CASE q = p
      BY <1>1, <1>2, <1>8, <3>1 DEF Rw!Shows
    <3>2. CASE q # p
      BY <1>2, <2>3, <3>2, <1>4, <1>9, <1>8 DEF Rw!Said
    <3>3. QED
      BY <3>1, <3>2
  <2>4. \A q \in Projects :
           /\ rows'[q] = Nothing => known[q] = Nothing
           /\ rows'[q] # Nothing /\ known[q] = Nothing =>
                 projects'[q] = Nothing /\ \A i \in 1..Len(hooks') : hooks'[i].on # q
    BY <1>4, <1>9 DEF Rw!Said
  <2>5. \A f, g \in handling' : f.on = g.on => f = g
    BY <1>4, <2>1 DEF Rw!Said
  <2>6. QED
    BY <1>8, <2>2, <2>3, <2>4, <2>5 DEF Rw!Said, Rw!After
<1>13. QED
  BY <1>1, <1>10, <1>11, <1>12

\* Each handler writes a row that its event told, if nothing has overtaken it.
LEMMA HandlerSaves ==
    ASSUME NEW past, Rw!Leads(past), Rw!Said(past[0]), Rw!CreatedOnce, NEW h \in handling,
           Rw!Save(h), ~raced'
    PROVE  Rw!RowsInv'
<1>1. /\ handling' = handling \ {h} /\ UNCHANGED <<host, projects, hooks>>
      /\ Rw!SaveVisibility(h) \/ Rw!SaveDestroyed(h) \/ Rw!SaveName(h)
  BY DEF Rw!Save
<1>2. PICK p : p = h.on
  OBVIOUS
<1>3. PICK known : known = past[0]
  OBVIOUS
<1>4. rows[p] = h.row
  BY <1>1, <1>2 DEF Rw!SaveVisibility, Rw!SaveDestroyed, Rw!SaveName, Rw!Stale
<1>5. /\ p \in Projects /\ h.row \in Rw!ProjectRow /\ h.project \in Rw!Project
      /\ known[p] = Rw!After(h) /\ Rw!Handles(h)
  BY <1>2, <1>3 DEF Rw!Said, Rw!Handles
<1>6. known \in Rw!Known /\ Rw!Unique(known)
  BY <1>3, KnownFirst
<1>7. SUFFICES ASSUME TRUE
               PROVE  \E r \in Rw!ProjectRow :
                         /\ rows' = Rw!Written(rows, p, r) /\ Rw!Shows(r, known[p])
                         /\ \A q \in Projects : q # p /\ known[q] # Nothing =>
                               known[q].owner # r.owner \/ known[q].name # r.name
  BY <1>1, <1>2, <1>3, RowSaved DEF Rw!RowsInv
<1>8. \A q \in Projects : q # p /\ known[q] # Nothing =>
         /\ known[q] \in Rw!Project
         /\ known[p] # Nothing => known[q].owner # known[p].owner \/ known[q].name # known[p].name
  BY <1>5, <1>6 DEF Rw!Unique, Rw!Known
<1>9. PICK n \in RepositoryNames : h.project.name = Rw!Name(n)
  BY <1>5, RowsAreNotNothing
<1>10. /\ h.project # Nothing /\ h.project.private \in BOOLEAN /\ h.project.owner \in Accounts
       /\ h.project.name \in Rw!RowName
  BY <1>5, <1>9, RowsAreNotNothing, GoneIsNoName
<1>11. CASE Rw!SaveVisibility(h)
  <2> DEFINE r == [h.row EXCEPT !.private = h.project.private,
                                !.activated = IF h.project.private THEN @ ELSE FALSE]
  <2>1. h.kind = "visibility" /\ rows' = Rw!Written(rows, p, r)
    BY <1>2, <1>11 DEF Rw!SaveVisibility
  <2>2. /\ r \in Rw!ProjectRow /\ r.owner = h.row.owner /\ r.name = h.row.name
        /\ r.private = h.project.private /\ r.deleted = h.row.deleted
    BY <1>5, <1>10 DEF Rw!ProjectRow
  <2> HIDE DEF r
  <2>3. /\ known[p] = h.project /\ ~h.row.deleted
        /\ h.row.owner = h.project.owner /\ h.row.name = h.project.name
    BY <1>5, <2>1 DEF Rw!Handles, Rw!After
  <2>4. Rw!Shows(r, known[p])
    BY <1>10, <2>2, <2>3 DEF Rw!Shows
  <2>5. QED
    BY <1>8, <1>10, <2>1, <2>2, <2>3, <2>4
<1>12. CASE Rw!SaveDestroyed(h)
  <2> DEFINE r == [h.row EXCEPT !.deleted = TRUE, !.active = FALSE, !.activated = FALSE,
                                !.name = Rw!Gone(h.row.name)]
  <2>1. h.kind = "destroy" /\ rows' = Rw!Written(rows, p, r)
    BY <1>2, <1>4, <1>12 DEF Rw!SaveDestroyed
  <2>2. /\ h.row.name = Rw!Name(n) /\ known[p] = Nothing
    BY <1>5, <1>9, <2>1 DEF Rw!Handles, Rw!After
  <2>3. Rw!Gone(h.row.name) \in Rw!RowName
    BY <2>2, GoneIsNoName
  <2>4. /\ r \in Rw!ProjectRow /\ r.name = Rw!Gone(Rw!Name(n))
        /\ r.deleted /\ ~r.active /\ ~r.activated
    BY <1>5, <2>2, <2>3 DEF Rw!ProjectRow
  <2> HIDE DEF r
  <2>5. Rw!Shows(r, known[p])
    BY <2>2, <2>4 DEF Rw!Shows
  <2>6. \A q \in Projects : q # p /\ known[q] # Nothing => known[q].name # r.name
    BY <1>8, <2>4, GoneIsNoName, RowsAreNotNothing
  <2>7. QED
    BY <2>1, <2>4, <2>5, <2>6
<1>13. CASE Rw!SaveName(h)
  <2> DEFINE owner == IF h.kind = "transfer" THEN h.project.owner ELSE h.row.owner
             r == [h.row EXCEPT !.name = h.project.name, !.owner = owner]
  <2>1. h.kind \in {"rename", "transfer"} /\ rows' = Rw!Written(rows, p, r)
    BY <1>5, <1>2, <1>4, <1>13 DEF Rw!ProjectRow, Rw!SaveName
  <2>2. /\ known[p] = h.project /\ ~h.row.deleted /\ host = "gitlab"
        /\ owner = h.project.owner
    BY <1>5, <2>1 DEF Rw!Handles, Rw!After
  <2>3. owner \in Accounts
    BY <1>10, <2>2
  <2> HIDE DEF owner
  <2>4. /\ r \in Rw!ProjectRow /\ r.owner = owner /\ r.name = h.project.name
        /\ r.deleted = h.row.deleted
    BY <1>5, <1>10, <2>3 DEF Rw!ProjectRow
  <2> HIDE DEF r
  <2>5. Rw!Shows(r, known[p])
    BY <1>10, <2>2, <2>4 DEF Rw!Shows
  <2>6. QED
    BY <1>8, <1>10, <2>1, <2>2, <2>4, <2>5
<1>14. QED
  BY <1>1, <1>11, <1>12, <1>13

\* What a provider's event tells is at the end of what is known.
LEMMA EventTold ==
    ASSUME NEW past, Rw!Leads(past), Rw!Said(past[0]), Rw!CreatedOnce,
           NEW p \in Projects, NEW project \in Rw!Project,
           NEW kind \in {"create", "destroy", "visibility", "rename", "transfer"},
           Rw!Tell(kind, p, project),
           NEW e, e = [kind |-> kind, on |-> p, project |-> project],
           projects' = [projects EXCEPT ![p] = Rw!After(e)],
           Rw!Follows(e, projects[p]),
           \/ kind = "destroy"
           \/ Rw!Free(project.owner, project.name)
           \/ projects[p] # Nothing /\ project.owner = projects[p].owner
                                    /\ project.name = projects[p].name,
           kind = "create" => rows[p] = Nothing /\ \A i \in DOMAIN hooks : hooks[i].on # p
    PROVE  Rw!RowsInv'
<1> DEFINE Event == [kind : {"create", "destroy", "visibility", "rename", "transfer"},
                     on : Projects, project : Rw!Project]
<1>1. PICK n : n = Len(hooks)
  OBVIOUS
<1>2. PICK now : now = projects'
  OBVIOUS
<1>3. e \in Event
  OBVIOUS
<1>4. hooks \in Seq(Event)
  BY DEF Rw!Leads
<1>5. hooks' = Append(hooks, e) /\ UNCHANGED <<host, rows, handling, raced>>
  BY DEF Rw!Tell
<1> HIDE DEF Event
<1>6. /\ n \in Nat /\ DOMAIN hooks = 1..n /\ hooks' \in Seq(Event) /\ Len(hooks') = n + 1
      /\ hooks'[n + 1] = e /\ \A i \in 1..n : hooks'[i] = hooks[i] /\ hooks[i] \in Event
  BY <1>1, <1>3, <1>4, <1>5
<1>7. /\ past \in [0..n -> Rw!Known] /\ past[n] = projects
      /\ \A i \in 0..n : Rw!Unique(past[i])
      /\ \A i \in 1..n : /\ Rw!Follows(hooks[i], past[i - 1][hooks[i].on])
                         /\ past[i] = [past[i - 1] EXCEPT ![hooks[i].on] = Rw!After(hooks[i])]
  BY <1>1 DEF Rw!Leads
<1>8. projects \in Rw!Known /\ Rw!Unique(projects)
  BY <1>6, <1>7
<1>9. /\ now \in Rw!Known /\ now[p] = Rw!After(e)
      /\ \A q \in Projects : q # p => now[q] = projects[q]
  <2>1. Rw!After(e) \in {Nothing} \cup Rw!Project
    BY DEF Rw!After
  <2>2. QED
    BY <1>2, <1>8, <2>1 DEF Rw!Known
<1>10. Rw!Unique(now)
  BY <1>8, <1>9 DEF Rw!Unique, Rw!After, Rw!Free
<1>11. PICK then : then = [i \in 0..(n + 1) |-> IF i = n + 1 THEN now ELSE past[i]]
  OBVIOUS
<1>12. /\ then \in [0..(n + 1) -> Rw!Known] /\ then[n + 1] = now /\ then[n] = projects
       /\ \A i \in 0..n : then[i] = past[i]
  BY <1>6, <1>7, <1>9, <1>11
<1>13. Rw!Leads(then)'
  <2>1. hooks' \in Seq([kind : {"create", "destroy", "visibility", "rename", "transfer"},
                        on : Projects, project : Rw!Project])
    BY <1>6 DEF Event
  <2>2. \A i \in 0..(n + 1) : Rw!Unique(then[i])
    BY <1>6, <1>7, <1>10, <1>12
  <2>3. ASSUME NEW i \in 1..(n + 1)
        PROVE  /\ Rw!Follows(hooks'[i], then[i - 1][hooks'[i].on])
               /\ then[i] = [then[i - 1] EXCEPT ![hooks'[i].on] = Rw!After(hooks'[i])]
    <3>1. CASE i = n + 1
      <4>1. hooks'[i] = e /\ then[i] = now /\ then[i - 1] = projects /\ e.on = p
        BY <1>6, <1>12, <3>1
      <4>2. QED
        BY <1>2, <4>1
    <3>2. CASE i # n + 1
      <4>1. i \in 1..n /\ i - 1 \in 0..n /\ i \in 0..n
        BY <1>6, <2>3, <3>2
      <4>2. hooks'[i] = hooks[i] /\ then[i] = past[i] /\ then[i - 1] = past[i - 1]
        BY <1>6, <1>12, <4>1
      <4>3. QED
        BY <1>7, <4>1, <4>2
    <3>3. QED
      BY <3>1, <3>2
  <2>4. /\ Len(hooks') = n + 1 /\ then \in [0..(n + 1) -> Rw!Known] /\ then[n + 1] = projects'
    BY <1>2, <1>6, <1>12
  <2>5. \A x, was : Rw!Follows(x, was)' <=> Rw!Follows(x, was)
    BY <1>5 DEF Rw!Follows
  <2>6. QED
    BY <2>1, <2>2, <2>3, <2>4, <2>5 DEF Rw!Leads, Rw!Unique, Rw!After
<1>14. /\ (kind = "create") <=> (projects[p] = Nothing)
       /\ e.kind = kind /\ e.on = p
  BY DEF Rw!Follows
<1>15. Rw!CreatedOnce'
  <2>1. SUFFICES ASSUME NEW i \in 1..(n + 1), NEW j \in 1..(n + 1), hooks'[i].on = hooks'[j].on
                 PROVE  /\ i < j => hooks'[j].kind # "create" /\ hooks'[i].kind # "destroy"
                        /\ hooks'[i].kind = "create" => rows'[hooks'[i].on] = Nothing
                        /\ hooks'[i].kind = "destroy" => projects'[hooks'[i].on] = Nothing
    BY <1>6 DEF Rw!CreatedOnce
  <2>2. ASSUME NEW k \in 1..(n + 1)
        PROVE  /\ hooks'[k].kind = "create" => rows'[hooks'[k].on] = Nothing
               /\ hooks'[k].kind = "destroy" => projects'[hooks'[k].on] = Nothing
    <3>1. CASE k = n + 1
      BY <1>2, <1>5, <1>6, <1>9, <1>14, <3>1 DEF Rw!After
    <3>2. CASE k # n + 1
      BY <1>6, <2>2, <3>2, <1>1, <1>14, <1>2, <1>5, <1>9 DEF Rw!CreatedOnce, Event
    <3>3. QED
      BY <3>1, <3>2
  <2>3. ASSUME i < j
        PROVE  hooks'[j].kind # "create" /\ hooks'[i].kind # "destroy"
    <3>1. i \in 1..n /\ hooks'[i] = hooks[i]
      BY <1>6, <2>1, <2>3
    <3>2. CASE j = n + 1
      BY <1>6, <1>14, <2>1, <3>1, <3>2, <1>1 DEF Rw!CreatedOnce
    <3>3. CASE j # n + 1
      <4>1. j \in 1..n /\ hooks'[j] = hooks[j]
        BY <1>6, <2>1, <3>3
      <4>2. QED
        BY <1>1, <2>1, <2>3, <3>1, <4>1 DEF Rw!CreatedOnce
    <3>4. QED
      BY <3>2, <3>3
  <2>4. QED
    BY <2>2, <2>3
<1>16. PICK known : known = past[0]
  OBVIOUS
<1>17. then[0] = known
  BY <1>6, <1>12, <1>16
<1>18. Rw!Said(known)'
  <2>1. \A q \in Projects : rows[q] # Nothing /\ known[q] = Nothing =>
           projects'[q] = Nothing /\ \A i \in 1..(n + 1) : hooks'[i].on # q
    <3>1. SUFFICES ASSUME NEW q \in Projects, rows[q] # Nothing, known[q] = Nothing
                   PROVE  projects'[q] = Nothing /\ \A i \in 1..(n + 1) : hooks'[i].on # q
      OBVIOUS
    <3>2. projects[q] = Nothing /\ \A i \in 1..n : hooks[i].on # q
      BY <1>1, <1>16, <3>1 DEF Rw!Said
    <3>3. q # p
      BY <1>14, <3>1, <3>2
    <3>4. \A i \in 1..(n + 1) : i = n + 1 \/ i \in 1..n
      BY <1>6
    <3>5. QED
      BY <1>2, <1>6, <1>9, <1>14, <3>2, <3>3, <3>4
  <2>2. Rw!Said(known)
    BY <1>16
  <2>3. QED
    BY <1>5, <1>6, <2>1, <2>2 DEF Rw!Said, Rw!Handles, Rw!Shows, Rw!After
<1>19. QED
  BY <1>13, <1>15, <1>17, <1>18 DEF Rw!RowsInv

\* The first event on its way is handled: what it tells is known.
LEMMA EventLoaded ==
    ASSUME NEW past, Rw!Leads(past), Rw!Said(past[0]), Rw!CreatedOnce, Rw!Load, ~raced'
    PROVE  Rw!RowsInv'
<1> DEFINE Event == [kind : {"create", "destroy", "visibility", "rename", "transfer"},
                     on : Projects, project : Rw!Project]
<1>1. PICK n : n = Len(hooks)
  OBVIOUS
<1>2. PICK e : e = Head(hooks)
  OBVIOUS
<1>3. PICK p : p = e.on
  OBVIOUS
<1>4. hooks \in Seq(Event) /\ hooks # <<>> /\ hooks' = Tail(hooks)
  BY DEF Rw!Leads, Rw!Load
<1>5. /\ UNCHANGED <<host, projects>> /\ \A h \in handling : h.on # p
  BY <1>2, <1>3 DEF Rw!Load
<1>6. e \in Event => /\ p \in Projects /\ e.project \in Rw!Project
                     /\ e.kind \in {"create", "destroy", "visibility", "rename", "transfer"}
  BY <1>3
<1> HIDE DEF Event
<1>7. /\ n \in Nat /\ n > 0 /\ hooks[1] = e /\ e \in Event
      /\ hooks' \in Seq(Event) /\ Len(hooks') = n - 1
      /\ \A i \in 1..(n - 1) : hooks'[i] = hooks[i + 1]
  BY <1>1, <1>2, <1>4
<1>8. /\ past \in [0..n -> Rw!Known] /\ past[n] = projects
      /\ \A i \in 0..n : Rw!Unique(past[i])
      /\ \A i \in 1..n : /\ Rw!Follows(hooks[i], past[i - 1][hooks[i].on])
                         /\ past[i] = [past[i - 1] EXCEPT ![hooks[i].on] = Rw!After(hooks[i])]
  BY <1>1 DEF Rw!Leads
<1>9. PICK was : was = past[0]
  OBVIOUS
<1>10. PICK known : known = past[1]
  OBVIOUS
<1>11. /\ was \in Rw!Known /\ Rw!Follows(e, was[p]) /\ known = [was EXCEPT ![p] = Rw!After(e)]
       /\ known \in Rw!Known /\ Rw!Unique(known)
  <2>1. 1 \in 1..n /\ 0 \in 0..n /\ 1 \in 0..n /\ 1 - 1 = 0
    BY <1>7
  <2>2. QED
    BY <1>3, <1>7, <1>8, <1>9, <1>10, <2>1
<1>12. known[p] = Rw!After(e) /\ \A q \in Projects : q # p => known[q] = was[q]
  BY <1>6, <1>7, <1>11 DEF Rw!Known
<1>13. Rw!Said(was)
  BY <1>9
<1>14. PICK then : then = [i \in 0..(n - 1) |-> past[i + 1]]
  OBVIOUS
<1>15. /\ then \in [0..(n - 1) -> Rw!Known] /\ then[n - 1] = projects' /\ then[0] = known
       /\ \A i \in 0..(n - 1) : then[i] = past[i + 1] /\ i + 1 \in 0..n
       /\ \A i \in 1..(n - 1) : i \in 0..(n - 1) /\ i - 1 \in 0..(n - 1) /\ i + 1 \in 1..n
                                /\ (i - 1) + 1 = i /\ (i + 1) - 1 = i
  BY <1>5, <1>7, <1>8, <1>10, <1>14
<1>16. Rw!Leads(then)'
  <2>1. hooks' \in Seq([kind : {"create", "destroy", "visibility", "rename", "transfer"},
                        on : Projects, project : Rw!Project])
    BY <1>7 DEF Event
  <2>2. \A i \in 0..(n - 1) : Rw!Unique(then[i])
    BY <1>8, <1>15
  <2>3. ASSUME NEW i \in 1..(n - 1)
        PROVE  /\ Rw!Follows(hooks'[i], then[i - 1][hooks'[i].on])
               /\ then[i] = [then[i - 1] EXCEPT ![hooks'[i].on] = Rw!After(hooks'[i])]
    <3>1. hooks'[i] = hooks[i + 1] /\ then[i] = past[i + 1] /\ then[i - 1] = past[(i + 1) - 1]
      BY <1>7, <1>15
    <3>2. QED
      BY <1>8, <1>15, <3>1
  <2>4. \A x, y : Rw!Follows(x, y)' <=> Rw!Follows(x, y)
    BY <1>5 DEF Rw!Follows
  <2>5. QED
    BY <1>7, <1>15, <2>1, <2>2, <2>3, <2>4 DEF Rw!Leads, Rw!Unique, Rw!After
<1>17. \A i \in 1..(n - 1) : hooks'[i] = hooks[i + 1] /\ i + 1 \in 1..n /\ 1 < i + 1
  BY <1>7
<1>18. \A i \in 1..n : hooks[i].on = p =>
          /\ i > 1 => hooks[i].kind # "create" /\ e.kind # "destroy"
          /\ e.kind = "create" => rows[p] = Nothing
          /\ e.kind = "destroy" => projects[p] = Nothing
  <2>1. 1 \in 1..n
    BY <1>7
  <2>2. QED
    BY <1>1, <1>3, <1>7, <2>1 DEF Rw!CreatedOnce
<1>19. ASSUME \A q \in Projects : q # p => ((rows'[q] = Nothing) <=> (rows[q] = Nothing))
       PROVE  Rw!CreatedOnce'
  <2>1. SUFFICES ASSUME NEW i \in 1..(n - 1), NEW j \in 1..(n - 1), hooks'[i].on = hooks'[j].on
                 PROVE  /\ i < j => hooks'[j].kind # "create" /\ hooks'[i].kind # "destroy"
                        /\ hooks'[i].kind = "create" => rows'[hooks'[i].on] = Nothing
                        /\ hooks'[i].kind = "destroy" => projects'[hooks'[i].on] = Nothing
    BY <1>7 DEF Rw!CreatedOnce
  <2>2. PICK k \in 1..n : k = i + 1 /\ hooks'[i] = hooks[k] /\ k > 1
    BY <1>17
  <2>3. PICK l \in 1..n : l = j + 1 /\ hooks'[j] = hooks[l]
    BY <1>17
  <2>4. i < j => k < l
    BY <2>2, <2>3
  <2>5. /\ k < l => hooks[l].kind # "create" /\ hooks[k].kind # "destroy"
        /\ hooks[k].kind = "create" => rows[hooks[k].on] = Nothing
        /\ hooks[k].kind = "destroy" => projects[hooks[k].on] = Nothing
    BY <1>1, <2>1, <2>2, <2>3 DEF Rw!CreatedOnce
  <2>6. hooks[k].on \in Projects /\ (hooks[k].kind = "create" => hooks[k].on # p)
    <3>1. hooks[k] \in Event
      BY <1>1, <1>4
    <3>2. QED
      BY <1>18, <2>2, <3>1 DEF Event
  <2>7. QED
    BY <1>5, <1>19, <2>2, <2>3, <2>4, <2>5, <2>6
<1>20. \A q \in Projects : q # p /\ known[q] = Nothing /\ rows[q] # Nothing =>
          projects'[q] = Nothing /\ \A i \in 1..(n - 1) : hooks'[i].on # q
  BY <1>1, <1>5, <1>12, <1>13, <1>17 DEF Rw!Said
<1>21. CASE e.kind = "create"
  <2>1. was[p] = Nothing /\ known[p] = e.project
    BY <1>11, <1>12, <1>21 DEF Rw!Follows, Rw!After
  <2>2. rows[p] = Nothing
    <3>1. 1 \in 1..n
      BY <1>7
    <3>2. QED
      BY <1>3, <1>7, <1>18, <1>21, <3>1
  <2>3. PICK r : r = Rw!NewRow(e.project.owner, e.project.name, e.project.private)
    OBVIOUS
  <2>4. rows' = Rw!Written(rows, p, r) /\ handling' = handling
    BY <1>2, <1>3, <1>21, <2>2, <2>3 DEF Rw!Load
  <2>5. /\ r \in Rw!ProjectRow /\ r.owner = e.project.owner /\ r.name = e.project.name
        /\ Rw!Shows(r, known[p])
    BY <1>6, <1>7, RowsAreNotNothing, GoneIsNoName, <2>1, <2>3 DEF Rw!NewRow, Rw!ProjectRow,
       Rw!Shows
  <2>6. \A q \in Projects : q # p /\ known[q] # Nothing =>
           known[q].owner # r.owner \/ known[q].name # r.name
    BY <1>6, <1>7, <1>11, <2>1, <2>5, RowsAreNotNothing DEF Rw!Unique
  <2>7. rows \in [Projects -> {Nothing} \cup Rw!ProjectRow]
    BY <1>13 DEF Rw!Said
  <2>8. /\ rows' \in [Projects -> {Nothing} \cup Rw!ProjectRow] /\ rows'[p] = r
        /\ \A q \in Projects : q # p =>
              /\ (rows'[q] = Nothing) <=> (rows[q] = Nothing)
              /\ rows[q] # Nothing /\ Rw!Shows(rows[q], known[q]) => Rw!Shows(rows[q], known[q])'
    BY <1>5, <1>6, <1>7, <1>11, <2>4, <2>5, <2>6, <2>7, RowWritten
  <2>9. \A h \in handling : Rw!Handles(h)' /\ rows'[h.on] # Nothing /\ known[h.on] = Rw!After(h)
    BY <1>5, <1>12, <1>13, <2>8 DEF Rw!Said, Rw!Handles
  <2>10. r # Nothing /\ known[p] # Nothing
    BY <1>6, <1>7, <2>1, <2>5, RowsAreNotNothing
  <2>11. ASSUME NEW q \in Projects, rows'[q] # Nothing, \A h \in handling : h.on # q
         PROVE  Rw!Shows(rows[q], known[q])'
    BY <1>5, <2>5, <2>8, <1>12, <1>13, <2>11 DEF Rw!Shows, Rw!Said
  <2>12. Rw!Said(known)'
    BY <1>13, <1>12, <1>20, <2>8, <2>10, <1>7, <2>4, <2>9, <2>11 DEF Rw!Said, Rw!After
  <2>13. QED
    BY <1>15, <1>16, <1>19, <2>8, <2>12 DEF Rw!RowsInv
<1>22. CASE e.kind # "create"
  <2>1. was[p] # Nothing /\ rows[p] # Nothing
    BY <1>6, <1>7, <1>11, <1>13, <1>22 DEF Rw!Follows, Rw!Said
  <2>2. PICK h : h = [kind |-> e.kind, on |-> p, row |-> rows[p], project |-> e.project]
    OBVIOUS
  <2>3. rows' = rows /\ handling' = handling \cup {h}
    BY <1>2, <1>3, <1>22, <2>1, <2>2 DEF Rw!Load
  <2>4. /\ h.kind = e.kind /\ h.on = p /\ h.row = rows[p] /\ h.project = e.project
    BY <2>2
  <2>5. rows[p] \in Rw!ProjectRow /\ Rw!Shows(rows[p], was[p])
    BY <1>5, <1>6, <1>7, <1>13, <2>1 DEF Rw!Said
  <2>6. Rw!Handles(h)
    BY <1>6, <1>7, <1>11, <1>22, <2>1, <2>4, <2>5 DEF Rw!Handles, Rw!Shows, Rw!Follows
  <2>7. known[p] = Rw!After(h)
    BY <1>12, <2>4 DEF Rw!After
  <2>8. known[p] = Nothing => projects'[p] = Nothing /\ \A i \in 1..(n - 1) : hooks'[i].on # p
    <3>1. SUFFICES ASSUME known[p] = Nothing
                   PROVE  projects'[p] = Nothing /\ \A i \in 1..(n - 1) : hooks'[i].on # p
      OBVIOUS
    <3>2. e.kind = "destroy" /\ 1 \in 1..n
      BY <1>6, <1>7, <1>12, <3>1, RowsAreNotNothing DEF Rw!After
    <3>3. QED
      BY <1>3, <1>5, <1>7, <1>17, <1>18, <3>2
  <2>9. \A g \in handling' : Rw!Handles(g)' /\ rows'[g.on] # Nothing /\ known[g.on] = Rw!After(g)
    BY <1>5, <1>12, <1>13, <2>1, <2>3, <2>4, <2>6, <2>7 DEF Rw!Said, Rw!Handles
  <2>10. \A f, g \in handling' : f.on = g.on => f = g
    BY <1>5, <1>13, <2>3, <2>4 DEF Rw!Said
  <2>11. ASSUME NEW q \in Projects, rows'[q] # Nothing, \A g \in handling' : g.on # q
         PROVE  Rw!Shows(rows[q], known[q])'
    BY <2>3, <2>4, <2>11, <1>12, <1>13, <1>5 DEF Rw!Said, Rw!Shows
  <2>12. \A q \in Projects :
            /\ rows'[q] = Nothing => known[q] = Nothing
            /\ rows'[q] # Nothing /\ known[q] = Nothing =>
                  projects'[q] = Nothing /\ \A i \in 1..(n - 1) : hooks'[i].on # q
    BY <1>12, <1>13, <1>20, <2>1, <2>3, <2>8 DEF Rw!Said
  <2>13. Rw!Said(known)'
    BY <1>13, <2>3, <1>7, <2>9, <2>10, <2>11, <2>12 DEF Rw!Said, Rw!After
  <2>14. QED
    BY <1>15, <1>16, <1>19, <2>3, <2>13 DEF Rw!RowsInv
<1>23. QED
  BY <1>21, <1>22

\* An upload shows that the provider has the repository: its row lives.
LEMMA RowUploaded ==
    ASSUME NEW past, Rw!Leads(past), Rw!Said(past[0]), Rw!CreatedOnce,
           NEW p \in Projects, Rw!Upload(p)
    PROVE  Rw!RowsInv'
<1> DEFINE r == [rows[p] EXCEPT !.active = TRUE, !.activated = TRUE, !.deleted = FALSE]
<1>1. PICK known : known = past[0]
  OBVIOUS
<1>2. /\ Rw!Said(known) /\ rows \in [Projects -> {Nothing} \cup Rw!ProjectRow]
      /\ rows[p] # Nothing /\ projects[p] # Nothing /\ rows[p] \in Rw!ProjectRow
      /\ UNCHANGED <<host, projects, hooks, handling, raced>>
  BY <1>1 DEF Rw!Upload, Rw!Said
<1>3. rows' = [rows EXCEPT ![p] = r]
  BY <1>2 DEF Rw!Upload, Rw!ProjectRow
<1>4. /\ r \in Rw!ProjectRow /\ r.owner = rows[p].owner /\ r.name = rows[p].name
      /\ r.private = rows[p].private /\ ~r.deleted
  BY <1>2 DEF Rw!ProjectRow
<1> HIDE DEF r
<1>5. /\ rows' \in [Projects -> {Nothing} \cup Rw!ProjectRow] /\ rows'[p] = r /\ r # Nothing
      /\ \A q \in Projects : q # p => rows'[q] = rows[q]
  BY <1>2, <1>3, <1>4, RowsAreNotNothing
<1>6. known[p] # Nothing
  BY <1>2 DEF Rw!Said
<1>7. ASSUME NEW q \in Projects, rows'[q] # Nothing, \A h \in handling : h.on # q
      PROVE  Rw!Shows(rows[q], known[q])'
  BY <1>2, <1>5, <1>7, <1>4, <1>6 DEF Rw!Said, Rw!Shows
<1>8. Rw!Said(known)'
  BY <1>2, <1>5, <1>6, <1>7 DEF Rw!Said, Rw!Handles, Rw!After
<1>9. Rw!Leads(past)'
  BY <1>2 DEF Rw!Leads, Rw!Follows, Rw!After, Rw!Unique
<1>10. Rw!CreatedOnce'
  <2>1. \A i \in 1..Len(hooks) : hooks[i].on \in Projects
    BY KnownFirst
  <2>2. QED
    BY <1>2, <1>5, <2>1 DEF Rw!CreatedOnce
<1>11. QED
  BY <1>1, <1>8, <1>9, <1>10 DEF Rw!RowsInv

\* The provider, the handlers and uploads keep the invariant.
LEMMA ProjectRowsStep ==
    ASSUME Rw!RowsInv, Rw!RowsNext
    PROVE  Rw!RowsInv'
<1>1. SUFFICES ASSUME ~raced'
               PROVE  Rw!RowsInv'
  BY DEF Rw!RowsInv
<1>2. ~raced
  BY <1>1 DEF Rw!RowsNext, Rw!NewProject, Rw!Rename, Rw!Publicize, Rw!Destroy, Rw!Tell, Rw!Upload,
              Rw!Load, Rw!Save, Rw!SaveVisibility, Rw!SaveDestroyed, Rw!SaveName, Rw!Stale
<1>3. PICK past : Rw!Leads(past) /\ Rw!Said(past[0])
  BY <1>2 DEF Rw!RowsInv
<1>4. Rw!CreatedOnce
  BY <1>2 DEF Rw!RowsInv
<1>5. projects \in Rw!Known
  BY <1>3 DEF Rw!Leads
<1>6. ASSUME NEW p \in Projects, NEW a \in Accounts, NEW n \in RepositoryNames, NEW b \in BOOLEAN,
             Rw!NewProject(p, a, Rw!Name(n), b)
      PROVE  Rw!RowsInv'
  <2>1. PICK project : project = [owner |-> a, name |-> Rw!Name(n), private |-> b]
    OBVIOUS
  <2>2. PICK e : e = [kind |-> "create", on |-> p, project |-> project]
    OBVIOUS
  <2>3. /\ project \in Rw!Project /\ project.owner = a /\ project.name = Rw!Name(n)
        /\ projects[p] = Nothing
        /\ Rw!Free(project.owner, project.name) /\ Rw!Tell("create", p, project)
        /\ rows[p] = Nothing /\ \A i \in DOMAIN hooks : hooks[i].on # p
        /\ projects' = [projects EXCEPT ![p] = project]
    BY <1>6, <2>1 DEF Rw!NewProject, Rw!Project
  <2>4. projects' = [projects EXCEPT ![p] = Rw!After(e)] /\ Rw!Follows(e, projects[p])
    BY <2>2, <2>3 DEF Rw!After, Rw!Follows
  <2>5. QED
    BY <1>3, <1>4, <2>2, <2>3, <2>4, EventTold
<1>7. ASSUME NEW p \in Projects, NEW a \in Accounts, NEW n \in RepositoryNames,
             Rw!Rename(p, a, Rw!Name(n))
      PROVE  Rw!RowsInv'
  <2>1. /\ host = "gitlab" /\ projects[p] # Nothing /\ Rw!Free(a, Rw!Name(n))
        /\ a = projects[p].owner \/ Rw!Name(n) = projects[p].name
        /\ projects' = [projects EXCEPT ![p].owner = a, ![p].name = Rw!Name(n)]
        /\ Rw!Tell(IF a = projects[p].owner THEN "rename" ELSE "transfer", p, projects'[p])
    BY <1>7 DEF Rw!Rename
  <2>2. PICK project : project = [projects[p] EXCEPT !.owner = a, !.name = Rw!Name(n)]
    OBVIOUS
  <2>3. PICK kind : kind = IF a = projects[p].owner THEN "rename" ELSE "transfer"
    OBVIOUS
  <2>4. PICK e : e = [kind |-> kind, on |-> p, project |-> project]
    OBVIOUS
  <2>5. projects[p] \in Rw!Project
    BY <1>5, <2>1 DEF Rw!Known
  <2>6. /\ project \in Rw!Project /\ project.owner = a /\ project.name = Rw!Name(n)
    BY <2>2, <2>5 DEF Rw!Project
  <2>7. projects' = [projects EXCEPT ![p] = project]
    BY <1>5, <2>1, <2>2, <2>5 DEF Rw!Known, Rw!Project
  <2>8. projects'[p] = project
    BY <1>5, <2>7 DEF Rw!Known
  <2>9. kind \in {"rename", "transfer"} /\ Rw!Tell(kind, p, project)
    BY <2>1, <2>3, <2>8
  <2>10. projects' = [projects EXCEPT ![p] = Rw!After(e)] /\ Rw!Follows(e, projects[p])
    BY <2>1, <2>3, <2>4, <2>6, <2>7, <2>9 DEF Rw!After, Rw!Follows
  <2>11. QED
    BY <1>3, <1>4, <2>1, <2>4, <2>6, <2>9, <2>10, EventTold
<1>8. ASSUME NEW p \in Projects, NEW b \in BOOLEAN, Rw!Publicize(p, b)
      PROVE  Rw!RowsInv'
  <2>1. /\ host = "github" /\ projects[p] # Nothing
        /\ projects' = [projects EXCEPT ![p].private = b]
        /\ Rw!Tell("visibility", p, projects'[p])
    BY <1>8 DEF Rw!Publicize
  <2>2. PICK project : project = [projects[p] EXCEPT !.private = b]
    OBVIOUS
  <2>3. PICK e : e = [kind |-> "visibility", on |-> p, project |-> project]
    OBVIOUS
  <2>4. projects[p] \in Rw!Project
    BY <1>5, <2>1 DEF Rw!Known
  <2>5. /\ project \in Rw!Project /\ project.owner = projects[p].owner
        /\ project.name = projects[p].name
    BY <2>2, <2>4 DEF Rw!Project
  <2>6. projects' = [projects EXCEPT ![p] = project]
    BY <2>1, <2>2
  <2>7. projects'[p] = project
    BY <1>5, <2>6 DEF Rw!Known
  <2>8. projects' = [projects EXCEPT ![p] = Rw!After(e)] /\ Rw!Follows(e, projects[p])
    BY <2>1, <2>3, <2>5, <2>6 DEF Rw!After, Rw!Follows
  <2>9. Rw!Tell("visibility", p, project)
    BY <2>1, <2>7
  <2>10. QED
    BY <1>3, <1>4, <2>1, <2>3, <2>5, <2>8, <2>9, EventTold
<1>9. ASSUME NEW p \in Projects, Rw!Destroy(p)
      PROVE  Rw!RowsInv'
  <2>1. /\ projects[p] # Nothing /\ Rw!Tell("destroy", p, projects[p])
        /\ projects' = [projects EXCEPT ![p] = Nothing]
    BY <1>9 DEF Rw!Destroy
  <2>2. PICK project : project = projects[p]
    OBVIOUS
  <2>3. PICK e : e = [kind |-> "destroy", on |-> p, project |-> project]
    OBVIOUS
  <2>4. project \in Rw!Project
    BY <1>5, <2>1, <2>2 DEF Rw!Known
  <2>5. projects' = [projects EXCEPT ![p] = Rw!After(e)] /\ Rw!Follows(e, projects[p])
    BY <2>1, <2>2, <2>3 DEF Rw!After, Rw!Follows
  <2>6. Rw!Tell("destroy", p, project)
    BY <2>1, <2>2
  <2>7. QED
    BY <1>3, <1>4, <2>3, <2>4, <2>5, <2>6, EventTold
<1>10. ASSUME NEW p \in Projects, Rw!Upload(p)
       PROVE  Rw!RowsInv'
  BY <1>3, <1>4, <1>10, RowUploaded
<1>11. CASE Rw!Load
  BY <1>1, <1>3, <1>4, <1>11, EventLoaded
<1>12. ASSUME NEW h \in handling, Rw!Save(h)
       PROVE  Rw!RowsInv'
  BY <1>1, <1>3, <1>4, <1>12, HandlerSaves
<1>13. QED
  BY <1>6, <1>7, <1>8, <1>9, <1>10, <1>11, <1>12 DEF Rw!RowsNext

\* It holds before the first event,
LEMMA ProjectRowsStart ==
    ASSUME Rw!RowsInit
    PROVE  Rw!RowsInv
<1>1. PICK none : none = [p \in Projects |-> Nothing]
  OBVIOUS
<1>2. PICK past : past = [i \in 0..0 |-> none]
  OBVIOUS
<1>3. hooks = <<>> /\ projects = none /\ rows = none /\ handling = {} /\ none \in Rw!Known
  BY <1>1 DEF Rw!RowsInit, Rw!Known
<1>4. /\ hooks \in Seq([kind : {"create", "destroy", "visibility", "rename", "transfer"},
                        on : Projects, project : Rw!Project])
      /\ Len(hooks) = 0
  BY <1>3
<1>5. past \in [0..0 -> Rw!Known] /\ past[0] = none
  BY <1>2, <1>3
<1>6. Rw!Unique(none)
  BY <1>1 DEF Rw!Unique
<1>7. \A i \in 1..0 : FALSE
  OBVIOUS
<1>8. Rw!Leads(past)
  BY <1>3, <1>4, <1>5, <1>6, <1>7 DEF Rw!Leads
<1>9. Rw!Said(past[0])
  BY <1>1, <1>3, <1>5 DEF Rw!Said
<1>10. Rw!CreatedOnce
  BY <1>4, <1>7 DEF Rw!CreatedOnce
<1>11. QED
  BY <1>8, <1>9, <1>10 DEF Rw!RowsInv

\* and when nothing happens.
LEMMA ProjectRowsStay ==
    ASSUME Rw!RowsInv, UNCHANGED Rw!rowVars
    PROVE  Rw!RowsInv'
<1>1. UNCHANGED <<host, rows, projects, hooks, handling, told, raced>>
  BY DEF Rw!rowVars
<1>2. SUFFICES ASSUME ~raced'
               PROVE  Rw!RowsInv'
  BY DEF Rw!RowsInv
<1>3. PICK past : Rw!Leads(past) /\ Rw!Said(past[0])
  BY <1>1, <1>2 DEF Rw!RowsInv
<1>4. PICK known : known = past[0]
  OBVIOUS
<1>5. Rw!Leads(past)'
  BY <1>1, <1>3 DEF Rw!Leads, Rw!Follows, Rw!After, Rw!Unique
<1>6. Rw!Said(known)'
  BY <1>1, <1>3, <1>4 DEF Rw!Said, Rw!Handles, Rw!Shows, Rw!After
<1>7. Rw!CreatedOnce'
  BY <1>1, <1>2 DEF Rw!RowsInv, Rw!CreatedOnce
<1>8. QED
  BY <1>4, <1>5, <1>6, <1>7 DEF Rw!RowsInv

-----------------------------------------------------------------------------
(* Proofs: rows and providers agree *)

AgreeInv ==
    /\ part = "rows" => Rw!RowsInv
    /\ part = "installations" => In!InstallInv
    /\ part = "settings" => St!SettingsInv
    /\ part = "account" => Ad!AccountInv

\* The invariants of the four parts hold at first,
LEMMA AgreeStart == Init => AgreeInv
  BY ProjectRowsStart, InstallStart, SettingsStart, AccountStart DEF Init, AgreeInv

\* and every step keeps them.
LEMMA AgreeStep ==
    ASSUME AgreeInv, [Next]_vars
    PROVE  AgreeInv'
<1>1. UNCHANGED part
  BY DEF Next, vars
<1>2. CASE part = "rows"
  BY <1>2, ProjectRowsStep, ProjectRowsStay, <1>1 DEF Next, vars, Rw!rowVars, AgreeInv
<1>3. CASE part = "installations"
  BY <1>3, InstallStep, InstallStay, <1>1 DEF Next, vars, In!installVars, AgreeInv
<1>4. CASE part = "settings"
  BY <1>4, SettingsStep, SettingsStay, <1>1 DEF Next, vars, St!settingVars, AgreeInv
<1>5. CASE part = "account"
  BY <1>5, AccountStep, AccountStay, <1>1 DEF Next, vars, Ad!accountVars, AgreeInv
<1>6. CASE part \notin {"rows", "installations", "settings", "account"}
  BY <1>1, <1>6 DEF AgreeInv
<1>7. QED
  BY <1>2, <1>3, <1>4, <1>5, <1>6

\* Whatever the numbers of projects, handlers, requests and visits: when every webhook is
\* handled, and none was overtaken, repositories and the installation are in the database as
\* the provider has them; a repository's hook is the one its row names, or can be made again;
\* as many private repositories are active as there are credits; and the coupon and the card
\* that were given are the ones that Stripe has.
THEOREM WhatProvidersSay == Spec => []RowsAndProvidersAgree
<1>1. AgreeInv /\ [Next]_vars => AgreeInv'
  BY AgreeStep
<1>2. AgreeInv => RowsAndProvidersAgree
  BY ProjectRowsSafe, InstallSafe, SettingsSafe, AccountSafe DEF AgreeInv, RowsAndProvidersAgree
<1>3. QED
  BY AgreeStart, <1>1, <1>2, PTL DEF Spec
=============================================================================
