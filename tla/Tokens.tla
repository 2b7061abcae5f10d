-------------------------------- MODULE Tokens --------------------------------
(***************************************************************************)
(* The tokens that authenticate uploads and API requests: the upload token *)
(* of an organization (OrganizationLevelToken), the upload token of one of *)
(* its repositories (RepositoryToken) and the API tokens of a user         *)
(* (UserToken, Session).                                                   *)
(*                                                                         *)
(* Interactors look a token up and write it in a later step.  Nothing in   *)
(* the tables keeps an organization from having two tokens: get_or_create  *)
(* is a look-up and an insertion.  Keys are numbers, each drawn once.      *)
(***************************************************************************)
EXTENDS Absent, Naturals, FiniteSets

CONSTANTS
    Interactors,   \* requests that may have looked up a token at a time
    MaxKey         \* bound on the keys drawn

\* What the constants must be
KeyAssumption ==
    MaxKey \in Nat /\ Nothing \notin [id : Nat, key : Nat] /\ IsFiniteSet(Interactors)

VARIABLES
    plan,       \* whether the organization's plan is "listed" in USER_PLAN_REPRESENTATIONS
    repoactive, \* repo.active
    tokens,     \* rows of each kind: [id, key]
    retired,    \* keys that were replaced or deleted
    begun,      \* requests that have looked up a token: [by, kind, row]
    lastkey,    \* keys 1..lastkey have been drawn
    mixed       \* kinds of which two requests, or a request and a deletion, overlapped

tokenVars == <<plan, repoactive, tokens, retired, begun, lastkey, mixed>>

Kinds == {"org", "repo", "user"}
Keys(kind) == {t.key : t \in tokens[kind]}

TokensTypeOK ==
    /\ plan \in {"listed", "legacy"} /\ repoactive \in BOOLEAN
    /\ tokens \in [Kinds -> SUBSET [id : 1..lastkey, key : 1..lastkey]]
    /\ retired \subseteq 1..lastkey /\ mixed \subseteq Kinds
    /\ \A kind \in Kinds : \A t, u \in tokens[kind] : t.id = u.id => t = u

TokensInit ==
    /\ plan \in {"listed", "legacy"} /\ repoactive \in BOOLEAN
    /\ tokens = [k \in Kinds |-> {}] /\ retired = {} /\ begun = {} /\ lastkey = 0 /\ mixed = {}

\* a request whose header names the key is accepted (repo_auth.py, UserTokenAuthentication)
Authenticates(kind, key) == key \in Keys(kind) /\ (kind = "repo" => repoactive)

-----------------------------------------------------------------------------
\* first() or get(): with two rows get() raises MultipleObjectsReturned.  GetRepositoryToken
\* only returns a token that it finds, and creates one for an active repository only.
Begin(i, kind, rotates) ==
    /\ \A b \in begun : b.by # i
    /\ kind \in {"org", "repo"} /\ (kind = "repo" => repoactive)
    /\ \/ tokens[kind] = {} /\ begun' = begun \cup {[by |-> i, kind |-> kind, row |-> Nothing]}
       \/ /\ rotates /\ Cardinality(tokens[kind]) = 1
          /\ \E t \in tokens[kind] : begun' = begun \cup {[by |-> i, kind |-> kind, row |-> t]}
    /\ mixed' = IF \E b \in begun : b.kind = kind THEN mixed \cup {kind} ELSE mixed
    /\ UNCHANGED <<plan, repoactive, tokens, retired, lastkey>>

\* bug: only the row is saved again
SameKey(row, fresh) == row.key

NewKey(row, fresh) == fresh

\* the row is saved: an update, or an insertion if it was deleted meanwhile
Rotate(b) ==
    LET fresh == lastkey + 1
        old == {t \in tokens[b.kind] : t.id = b.row.id}
    IN /\ b.row # Nothing
       /\ tokens' = [tokens EXCEPT ![b.kind] =
                        (@ \ old) \cup {[id |-> b.row.id, key |-> NewKey(b.row, fresh)]}]
       /\ retired' = retired \cup ({t.key : t \in old} \ {NewKey(b.row, fresh)})

Create(b) ==
    /\ b.row = Nothing
    /\ tokens' = [tokens EXCEPT ![b.kind] = @ \cup {[id |-> lastkey + 1, key |-> lastkey + 1]}]
    /\ UNCHANGED retired

Finish(b) ==
    /\ b \in begun /\ begun' = begun \ {b}
    /\ lastkey < MaxKey /\ lastkey' = lastkey + 1
    /\ Rotate(b) \/ Create(b)
    /\ UNCHANGED <<plan, repoactive, mixed>>

\* The administration's form: refresh_token, which looks up by id, in one step with its
\* saving; a deletion; an addition to an organization that has none.
Refresh(t) ==
    /\ t \in tokens["org"] /\ lastkey < MaxKey /\ lastkey' = lastkey + 1
    /\ tokens' = [tokens EXCEPT !["org"] = (@ \ {t}) \cup {[t EXCEPT !.key = NewKey(t, lastkey')]}]
    /\ retired' = retired \cup {t.key}
    /\ UNCHANGED <<plan, repoactive, begun, mixed>>

\* bug: the count is not taken
AlwaysAdds == TRUE

MayAdd == tokens["org"] = {}

Add ==
    /\ MayAdd /\ lastkey < MaxKey /\ lastkey' = lastkey + 1
    /\ tokens' = [tokens EXCEPT !["org"] = @ \cup {[id |-> lastkey', key |-> lastkey']}]
    /\ mixed' = IF \E b \in begun : b.kind = "org" THEN mixed \cup {"org"} ELSE mixed
    /\ UNCHANGED <<plan, repoactive, retired, begun>>

Deleted(kind, gone) ==
    /\ tokens' = [tokens EXCEPT ![kind] = @ \ gone]
    /\ retired' = retired \cup {t.key : t \in gone}
    /\ mixed' = IF gone # {} /\ \E b \in begun : b.kind = kind THEN mixed \cup {kind} ELSE mixed

Delete(t) ==
    /\ t \in tokens["org"] /\ Deleted("org", {t})
    /\ UNCHANGED <<plan, repoactive, begun, lastkey>>

\* Whoever saves the organization's row, with the plan that it has in mind: the signal
\* deletes the token of a plan that is not listed.  With two tokens it raises.
SaveOwner(p) ==
    /\ plan' = p
    /\ IF p = "legacy" /\ Cardinality(tokens["org"]) = 1
       THEN Deleted("org", tokens["org"])
       ELSE UNCHANGED <<tokens, retired, mixed>>
    /\ UNCHANGED <<repoactive, begun, lastkey>>

\* create_user_token and create_api_token; revoke_user_token and delete_session
CreateUserToken ==
    /\ lastkey < MaxKey /\ lastkey' = lastkey + 1
    /\ tokens' = [tokens EXCEPT !["user"] = @ \cup {[id |-> lastkey', key |-> lastkey']}]
    /\ UNCHANGED <<plan, repoactive, retired, begun, mixed>>

RevokeUserToken(t) ==
    /\ t \in tokens["user"] /\ Deleted("user", {t})
    /\ UNCHANGED <<plan, repoactive, begun, lastkey>>

\* the repository is deactivated or activated (modules RepositoryRows and Uploads)
SetActive == /\ repoactive' = ~repoactive
             /\ UNCHANGED <<plan, tokens, retired, begun, lastkey, mixed>>

TokensNext ==
    \/ \E i \in Interactors, kind \in Kinds, rotates \in BOOLEAN : Begin(i, kind, rotates)
    \/ \E b \in begun : Finish(b)
    \/ \E t \in tokens["org"] : Refresh(t) \/ Delete(t)
    \/ \E t \in tokens["user"] : RevokeUserToken(t)
    \/ \E p \in {"listed", "legacy"} : SaveOwner(p)
    \/ Add \/ CreateUserToken \/ SetActive

TokensSpec == TokensInit /\ [][TokensNext]_tokenVars

-----------------------------------------------------------------------------
\* "Only 1 token per Owner": as long as no two requests for a token of that kind overlap,
\* and none overlaps a deletion (a row saved after it was deleted comes back).  Otherwise
\* there are never more than requests at once, and the form's, can make; later ones add
\* none.
OneTokenPerOwner ==
    \A kind \in {"org", "repo"} :
        Cardinality(tokens[kind]) <= IF kind \in mixed THEN Cardinality(Interactors) + 1 ELSE 1

\* A key that was replaced or deleted never authenticates anything again, even when the
\* row that had it is written back by a request that had loaded it before; and no key
\* opens two things.
RevokedStaysRevoked ==
    /\ \A kind \in Kinds, key \in retired : ~Authenticates(kind, key)
    /\ \A k, l \in Kinds : k # l => Keys(k) \cap Keys(l) = {}

-----------------------------------------------------------------------------
\* A key opens one thing, and none that was replaced or deleted.
KeysAreApart ==
    /\ \A k, l \in Kinds : \A t \in tokens[k], u \in tokens[l] : t.key = u.key => k = l /\ t = u
    /\ \A k \in Kinds : \A t \in tokens[k] : t.key \notin retired

\* As long as nothing of the kind overlaps: there is one token, one request, and the token
\* that it found, or none if it found none.
Alone(kind) ==
    /\ \A t, u \in tokens[kind] : t = u
    /\ \A b, c \in begun : b.kind = kind /\ c.kind = kind => b = c
    /\ \A b \in begun : b.kind = kind =>
          \A t \in tokens[kind] : b.row # Nothing /\ t.id = b.row.id

Begun == [by : Interactors, kind : {"org", "repo"},
          row : {Nothing} \cup [id : 1..lastkey, key : 1..lastkey]]

\* The rows of a kind, those that requests may write back, and the requests that will
\* insert one
RowIds(kind) ==
    {t.id : t \in tokens[kind]} \cup {b.row.id : b \in {c \in begun : c.kind = kind /\ c.row # Nothing}}
Creators(kind) == {b.by : b \in {c \in begun : c.kind = kind /\ c.row = Nothing}}

\* At most one row for each request that there may be at once, and the form's
Few(kind) ==
    /\ IsFiniteSet(RowIds(kind))
    /\ Cardinality(RowIds(kind)) + Cardinality(Creators(kind)) <= Cardinality(Interactors) + 1

TokensInv ==
    /\ TokensTypeOK /\ lastkey \in Nat
    /\ begun \subseteq Begun /\ \A b, c \in begun : b.by = c.by => b = c
    /\ KeysAreApart
    /\ \A kind \in {"org", "repo"} : Few(kind) /\ (kind \notin mixed => Alone(kind))
=============================================================================
