----------------------------- MODULE Configurations -----------------------------
(***************************************************************************)
(* The configuration of a commit: that of its owner, overridden by that of *)
(* the commit itself, which is fetched from the provider on behalf of the  *)
(* user who asks, or with the key of Codecov's own bot (services/yaml.py,  *)
(* services/repo_providers.py).  A process keeps the result for the commit *)
(* and the user for as long as it has room (lru_cache).  An empty upload   *)
(* is decided by it (upload/views/empty_upload.py).                        *)
(*                                                                         *)
(* A configuration is the set of files that it ignores, or Nothing.        *)
(***************************************************************************)
EXTENDS Absent, Integers, FiniteSets

CONSTANTS
    Workers,        \* processes of the server
    Users,          \* those who ask: owners, visitors, plain users, or tokens
    Owners,         \* those that are owners with an oauth_token
    ByBot,          \* visitors (None), and owners without one: organizations, for instance
    Bot,            \* Codecov's account at the provider
    Changed,        \* files that the commit changed
    NonTestable,    \* those of kinds that cannot be tested
    CommitYaml,     \* what the commit's own file ignores
    MaxWritten      \* bound: how often a configuration is written

\* What the constants must be
ConfigurationAssumption ==
    /\ Owners \subseteq Users /\ ByBot \subseteq Users \ Owners
    /\ NonTestable \subseteq Changed /\ CommitYaml \subseteq Changed
    /\ MaxWritten \in Nat

VARIABLES
    ownerYaml,      \* Owner.yaml
    repoYaml,       \* Repository.yaml
    readers,        \* owners, and the bot, whom the provider lets read the repository now
    cached,         \* what each process keeps for each user: Nothing, or the entry
    question,       \* what each process is computing: Nothing, or [user, repo, owner]
    written,        \* how often a configuration was written
    outcome,        \* of the last empty upload: Nothing, or [pass, at]
    inForce,        \* all configurations that the rows had
    wereReaders     \* all who could read once

configVars == <<ownerYaml, repoYaml, readers, cached, question, written, outcome, inForce, wereReaders>>

\* whom the provider may know
Known == Owners \cup {Bot}

Yamls == {Nothing} \cup SUBSET Changed

Entries == [value : Yamls, fetched : BOOLEAN]

ConfigurationsTypeOK ==
    /\ ownerYaml \in Yamls /\ repoYaml \in Yamls
    /\ readers \subseteq Known /\ wereReaders \subseteq Known
    /\ cached \in [Workers -> [Users -> {Nothing} \cup Entries]]
    /\ \A w \in Workers : question[w] # Nothing =>
          question[w].user \in Users /\ question[w].repo \in Yamls
    /\ inForce \subseteq Yamls
    /\ written \in 0..MaxWritten

ConfigurationsInit ==
    /\ ownerYaml = Nothing /\ repoYaml = Nothing
    /\ readers = {} /\ wereReaders = {}
    /\ cached = [w \in Workers |-> [u \in Users |-> Nothing]]
    /\ question = [w \in Workers |-> Nothing]
    /\ written = 0 /\ outcome = Nothing /\ inForce = {Nothing}

-----------------------------------------------------------------------------
(***************************************************************************)
(* What is done with a document, by its kind: "empty" has no bytes,        *)
(* "blank" loads to None, "unreadable" is refused by the reader, "scanner" *)
(* and "parser" by the later stages of the YAML library, "scalar" is no    *)
(* dictionary, "invalid" not of the schema, "anchors" valid and using an   *)
(* alias; "nothing" is the empty dictionary.  The answer is "ok",          *)
(* "refused", or "error" for an exception that is not caught.              *)
(***************************************************************************)
Documents == {"empty", "blank", "unreadable", "scanner", "parser", "scalar", "invalid",
              "anchors", "nothing", "valid"}

\* Escaping makes the alias name an anchor that is not there; what loads to nothing is
\* no configuration; only the scanner's errors are caught.
convert_yaml_to_dict(document) ==
    CASE document \in {"empty", "blank", "nothing", "valid"} -> "ok"
      [] document \in {"anchors", "unreadable", "parser"} -> "error"
      [] OTHER -> "refused"

\* SetYamlOnOwner, of a member of the organization
SetYaml(yaml, document) ==
    /\ convert_yaml_to_dict(document) = "ok" /\ written < MaxWritten
    /\ ownerYaml' = IF document = "valid" THEN yaml ELSE Nothing
    /\ inForce' = inForce \cup {ownerYaml'}
    /\ written' = written + 1
    /\ UNCHANGED <<repoYaml, readers, cached, question, outcome, wereReaders>>

\* The worker, which keeps the configuration of the default branch's newest commit
SetRepositoryYaml(yaml) ==
    /\ written < MaxWritten
    /\ repoYaml' = yaml /\ inForce' = inForce \cup {yaml}
    /\ written' = written + 1
    /\ UNCHANGED <<ownerYaml, readers, cached, question, outcome, wereReaders>>

\* The provider
ChangeReaders ==
    /\ \E o \in Known : readers' = IF o \in readers THEN readers \ {o} ELSE readers \cup {o}
    /\ wereReaders' = wereReaders \cup readers'
    /\ UNCHANGED <<ownerYaml, repoYaml, cached, question, written, outcome, inForce>>

-----------------------------------------------------------------------------
\* UserYaml.get_final_yaml, of the shared library: what comes first overrides
get_final_yaml(owner, repo, commit) ==
    IF commit # Nothing THEN commit ELSE IF repo # Nothing THEN repo ELSE owner

\* bug: whoever asks gets what the process keeps of the commit
KeptForAnyone(w, user) ==
    IF \E u \in Users : cached[w][u] # Nothing
    THEN cached[w][CHOOSE u \in Users : cached[w][u] # Nothing] ELSE Nothing

Kept(w, user) == cached[w][user]

\* final_commit_yaml, for what is not kept: the repository's row is read, then its owner's
AskYaml(w, user) ==
    /\ question[w] = Nothing /\ Kept(w, user) = Nothing
    /\ question' = [question EXCEPT ![w] = [user |-> user, repo |-> repoYaml]]
    /\ UNCHANGED <<ownerYaml, repoYaml, readers, cached, written, outcome, inForce, wereReaders>>

\* get_generic_adapter_params: whose token the provider is asked with.  A plain user and
\* the user of a repository's token have no such attribute, which is an error.
AsksAs(user) ==
    CASE user \in Owners -> {user} [] user \in ByBot -> {Bot} [] OTHER -> {}

\* fetch_commit_yaml: any failure means that there is none.
FetchYaml(w) ==
    /\ question[w] # Nothing
    /\ \E fetched \in IF AsksAs(question[w].user) \cap readers # {} THEN BOOLEAN ELSE {FALSE} :
          cached' = [cached EXCEPT ![w][question[w].user] =
                       [value |-> get_final_yaml(ownerYaml, question[w].repo,
                                                 IF fetched THEN CommitYaml ELSE Nothing),
                        fetched |-> fetched]]
    /\ question' = [question EXCEPT ![w] = Nothing]
    /\ UNCHANGED <<ownerYaml, repoYaml, readers, written, outcome, inForce, wereReaders>>

\* Entries are forgotten when there is no room for them, and when the process starts anew.
ForgetYaml(w, user) ==
    /\ cached[w][user] # Nothing
    /\ cached' = [cached EXCEPT ![w][user] = Nothing]
    /\ UNCHANGED <<ownerYaml, repoYaml, readers, question, written, outcome, inForce, wereReaders>>

-----------------------------------------------------------------------------
\* bug: one ignored file is enough
SomeIgnored(ignored) == Changed \cap (NonTestable \cup ignored) # {}

AllIgnored(ignored) == Changed \subseteq NonTestable \cup ignored

\* EmptyUploadView.post, with the files that the provider says were changed; no file is
\* ignored by a configuration that there is not
EmptyUpload(w, user) ==
    /\ Kept(w, user) # Nothing
    /\ LET value == Kept(w, user).value
           ignored == IF value = Nothing THEN {} ELSE value
       IN outcome' = [pass |-> AllIgnored(ignored), user |-> user, fetched |-> Kept(w, user).fetched]
    /\ UNCHANGED <<ownerYaml, repoYaml, readers, cached, question, written, inForce, wereReaders>>

ConfigurationsNext ==
    \/ \E yaml \in SUBSET Changed : \E document \in Documents : SetYaml(yaml, document)
    \/ \E yaml \in SUBSET Changed : SetRepositoryYaml(yaml)
    \/ ChangeReaders
    \/ \E w \in Workers :
          \/ \E user \in Users : AskYaml(w, user) \/ ForgetYaml(w, user) \/ EmptyUpload(w, user)
          \/ FetchYaml(w)

ConfigurationsSpec == ConfigurationsInit /\ [][ConfigurationsNext]_configVars

-----------------------------------------------------------------------------
(* Properties *)

\* The notification of an empty upload passes only if every file that was changed is of a
\* kind that cannot be tested, or ignored by the commit's own configuration, or by one
\* that the owner or the repository had at some time: perhaps no more, for the process
\* keeps it, but never by a mixture of them.
PassIsJustified ==
    outcome # Nothing /\ outcome.pass =>
        \E yaml \in {{}, CommitYaml} \cup (inForce \ {Nothing}) :
            Changed \subseteq NonTestable \cup yaml

\* Who could read the commit at some time: an owner by the provider's word, visitors and
\* owners without a token only what the bot could read; nobody else.
CouldRead(user) ==
    \/ user \in Owners \cap wereReaders
    \/ user \in ByBot /\ Bot \in wereReaders

\* Nobody is answered with the commit's own configuration who could not read it at some
\* time, whatever the process keeps of others' questions.
ReadByReaders ==
    /\ \A w \in Workers, user \in Users :
          Kept(w, user) # Nothing /\ Kept(w, user).fetched => CouldRead(user)
    /\ outcome # Nothing /\ outcome.fetched => CouldRead(outcome.user)

-----------------------------------------------------------------------------
(* The inductive invariant *)

\* What is kept has the commit's own configuration only if the user could read the commit,
\* and otherwise one that the rows had.
Justified(entry, user) ==
    /\ entry.fetched => CouldRead(user)
    /\ entry.value \in inForce \cup {CommitYaml}

ConfigurationsInv ==
    /\ ConfigurationsTypeOK /\ question = [w \in Workers |-> question[w]]
    /\ readers \subseteq wereReaders
    /\ ownerYaml \in inForce /\ repoYaml \in inForce
    /\ \A w \in Workers : question[w] # Nothing => question[w].repo \in inForce
    /\ \A w \in Workers, user \in Users :
          cached[w][user] # Nothing => Justified(cached[w][user], user)
    /\ outcome # Nothing /\ outcome.fetched => CouldRead(outcome.user)
    /\ PassIsJustified
=============================================================================
