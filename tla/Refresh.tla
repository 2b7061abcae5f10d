------------------------------- MODULE Refresh -------------------------------
(***************************************************************************)
(* Refreshing the teams and the repositories of an owner (services/        *)
(* refresh.py, TaskService.refresh): a login or a click starts a chain of  *)
(* two tasks unless one is under way, and redis remembers which.           *)
(*                                                                         *)
(* The worker and the results of its tasks are external.                   *)
(***************************************************************************)
EXTENDS Naturals, FiniteSets

CONSTANTS Callers, MaxChains

\* What the constants must be
ChainsAssumption == MaxChains \in Nat /\ IsFiniteSet(Callers)

VARIABLES
    chain,      \* the chains that were sent, by number
    key,        \* refresh_{ownerid}: a chain, or 0
    caller,     \* requests
    crossed     \* auxiliary: how often a request met another, or the key expired

refreshVars == <<chain, key, caller, crossed>>

Chains == 1..MaxChains
Chain == {"none", "teams", "teams failed", "repos", "repos failed", "synced"}

RefreshTypeOK ==
    /\ chain \in [Chains -> Chain]
    /\ key \in 0..MaxChains
    /\ caller \in [Callers -> [step : {"idle", "ask", "forget", "start", "store"}, seen : 0..MaxChains]]
    /\ crossed \in Nat

Idle == [step |-> "idle", seen |-> 0]

RefreshInit ==
    /\ chain = [n \in Chains |-> "none"] /\ key = 0
    /\ caller = [c \in Callers |-> Idle] /\ crossed = 0

-----------------------------------------------------------------------------
\* is_refreshing: the key ...
AskRefresh(c) ==
    /\ caller[c] = Idle
    /\ caller' = [caller EXCEPT ![c] = IF key = 0 THEN [step |-> "start", seen |-> 0]
                                       ELSE [step |-> "ask", seen |-> key]]
    /\ crossed' = IF \E d \in Callers : caller[d] # Idle THEN crossed + 1 ELSE crossed
    /\ UNCHANGED <<chain, key>>

\* bug: only the task at the end of the chain is looked at
EndOnly(n) == chain[n] \in {"synced", "repos failed"}

\* bug: the first task is enough
FirstIsEnough(n) == chain[n] \notin {"none", "teams"}

\* res.successful(), res.failed(), res.parent.failed()
Finished(n) == chain[n] \in {"synced", "repos failed", "teams failed"}

\* ... then the results of its chain
AskResult(c) ==
    /\ caller[c].step = "ask"
    /\ caller' = [caller EXCEPT ![c] = IF Finished(caller[c].seen) THEN [@ EXCEPT !.step = "forget"]
                                       ELSE Idle]
    /\ UNCHANGED <<chain, key, crossed>>

\* The key is deleted, whatever it is by now.
ForgetKey(c) ==
    /\ caller[c].step = "forget"
    /\ key' = 0 /\ caller' = [caller EXCEPT ![c] = [step |-> "start", seen |-> 0]]
    /\ UNCHANGED <<chain, crossed>>

\* TaskService.refresh: the teams first, then the repositories
StartRefresh(c) ==
    \E n \in Chains :
        /\ caller[c].step = "start" /\ chain[n] = "none"
        /\ \A o \in Chains : o < n => chain[o] # "none"
        /\ chain' = [chain EXCEPT ![n] = "teams"]
        /\ caller' = [caller EXCEPT ![c] = [step |-> "store", seen |-> n]]
        /\ UNCHANGED <<key, crossed>>

\* setex: for 900 seconds
StoreKey(c) ==
    /\ caller[c].step = "store"
    /\ key' = caller[c].seen /\ caller' = [caller EXCEPT ![c] = Idle]
    /\ UNCHANGED <<chain, crossed>>

LapseKey ==
    /\ key # 0 /\ key' = 0 /\ crossed' = crossed + 1
    /\ UNCHANGED <<chain, caller>>

\* the worker: the second task runs when the first has succeeded
Work(n) ==
    /\ \/ chain[n] = "teams" /\ \E s \in {"teams failed", "repos"} : chain' = [chain EXCEPT ![n] = s]
       \/ chain[n] = "repos" /\ \E s \in {"repos failed", "synced"} : chain' = [chain EXCEPT ![n] = s]
    /\ UNCHANGED <<key, caller, crossed>>

RefreshNext ==
    \/ \E c \in Callers : \/ AskRefresh(c) \/ AskResult(c) \/ ForgetKey(c)
                          \/ StartRefresh(c) \/ StoreKey(c)
    \/ LapseKey
    \/ \E n \in Chains : Work(n)

RefreshSpec == RefreshInit /\ [][RefreshNext]_refreshVars

-----------------------------------------------------------------------------
Running == {n \in Chains : chain[n] \in {"teams", "repos"}}

\* When no chain runs, the next request starts one, however the last one ended: a key
\* never keeps an owner from being refreshed.
StoppedMeansReady == key # 0 /\ key \notin Running => Finished(key)

\* At most one refresh of an owner runs, and one more for each request that came while
\* another was at work and for each time that the key expired.
OneRefreshAtATime == Cardinality(Running) <= 1 + crossed

-----------------------------------------------------------------------------
(* The inductive invariant *)

\* Chains that run, and of which no request is about to see the results
Unasked == {n \in Running : \A c \in Callers : caller[c].step = "ask" => caller[c].seen # n}

\* Requests that may start one, and those whose chain was over before they stored it
Busy == {c \in Callers : \/ caller[c].step \in {"ask", "forget", "start"}
                         \/ caller[c].step = "store" /\ caller[c].seen \notin Running}

\* The next request will start a chain without having met another.
Vacant == /\ key \notin Running
          /\ \A c \in Callers : \/ caller[c].step = "idle"
                                \/ caller[c].step = "ask" /\ caller[c].seen \in Running

FewChains ==
    Cardinality(Unasked) + Cardinality(Busy) + (IF Vacant THEN 1 ELSE 0) <= 1 + crossed

\* The chain that a request knows of was started, and the one it is to forget is over.
Known(j) == /\ j.step = "idle" => j = Idle
            /\ j.step \in {"ask", "forget", "store"} => j.seen # 0 /\ chain[j.seen] # "none"
            /\ j.step = "forget" => Finished(j.seen)

\* Nobody else knows of the chain that a request is about to store.
Unheard(c) == /\ key # caller[c].seen
              /\ \A d \in Callers \ {c} :
                    caller[d].step \in {"ask", "store"} => caller[d].seen # caller[c].seen

RefreshInv ==
    /\ RefreshTypeOK
    /\ key # 0 => chain[key] # "none"
    /\ \A c \in Callers : Known(caller[c])
    /\ \A c \in Callers : caller[c].step = "store" => Unheard(c)
    /\ FewChains
=============================================================================
