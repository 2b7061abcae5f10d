--------------------------- MODULE ComparisonProofs ---------------------------
(***************************************************************************)
(* Proofs about ComparisonLoader, for any number of requests, commits and  *)
(* comparisons: as long as every commit is in the database from the start  *)
(* (Late = {}), requests and worker implement ComparisonQueue, so that     *)
(* whatever is pending is served.                                          *)
(*                                                                         *)
(* What a request owes changes its form, from the missing keys to the ids, *)
(* and to tasks.  Nothing is lost at the second change because the         *)
(* comparisons that were missing have all been found by then, and no       *)
(* commit of the others is unknown.                                        *)
(*                                                                         *)
(* And about FileComparison, for any edit of a file and any lines that two *)
(* reports cover: the walk shows every line once with its numbers, and     *)
(* summary, headers and segments are true of what it has shown.  The edit  *)
(* is a script of lines that are kept, added or removed; the invariant     *)
(* says where in it the walk is, and that the hunks ahead are the ones     *)
(* that the diff makes of the rest.                                        *)
(***************************************************************************)
EXTENDS ComparisonLoader, FileComparison, FiniteSetTheorems, WellFoundedInduction, TLAPS

AllHere(cs) == \A c \in Commits : cs[c].here

\* The comparisons a request missed are there when it has created them.
Created(j) ==
    /\ j.pc = "refetch" => \A k \in j.missing : rows[k].state # "none"
    /\ j.pc = "refresh" => \A k \in j.missing : j.found[k].state # "none"

Inv ==
    /\ TypeOK
    /\ AllHere(FirstCommits) /\ AllHere(commits) /\ AllHere(replica)
    /\ \A w \in Workers : AllHere(job[w].cache) /\ Created(job[w])

States == [k \in Keys |-> rows[k].state]

\* A step of the queue, or none
QueueStep == [Queue!Next]_<<States, Owed>>

-----------------------------------------------------------------------------
LEMMA Typed ==
    ASSUME TypeOK, NEW w \in Workers
    PROVE  /\ job[w] \in Job
           /\ job[w].want \subseteq Keys /\ job[w].missing \subseteq Keys
           /\ job[w].ids \subseteq Keys
           /\ job[w].cache \in [Commits -> Commit] /\ job[w].found \in [Keys -> Row]
  BY DEF TypeOK, Job

LEMMA Fresh ==
    /\ NoRow \in Row /\ NoRows \in [Keys -> Row] /\ NoRow.state = "none"
    /\ FirstCommits \in [Commits -> Commit]
    /\ NoJob \in Job /\ NoJob.pc = "idle" /\ NoTask.key = None
    /\ NoTask \in [key : Keys \cup {None}, of : Nat \X Nat, overlap : BOOLEAN]
<1>1. NoRow \in Row /\ NoRow.state = "none"
  BY DEF NoRow, Row
<1>2. NoRows \in [Keys -> Row]
  BY <1>1 DEF NoRows
<1>3. FirstCommits \in [Commits -> Commit]
  BY DEF FirstCommits, Commit
<1>4. NoJob \in Job /\ NoJob.pc = "idle"
  BY <1>2, <1>3 DEF NoJob, Job
<1>5. QED
  BY <1>1, <1>2, <1>3, <1>4 DEF NoTask

LEMMA FoundKeepsType ==
    ASSUME NEW j \in Job, NEW f \in [Keys -> Row], NEW m \in SUBSET Keys,
           NEW pc \in {"create", "refresh"}
    PROVE  [j EXCEPT !.found = f, !.want = {}, !.missing = m, !.pc = pc] \in Job
  BY DEF Job

LEMMA NextPhaseKeepsType ==
    ASSUME NEW j \in Job, NEW pc \in {"refetch", "enqueue"}
    PROVE  [j EXCEPT !.pc = pc] \in Job
  BY DEF Job

LEMMA RefetchedKeepsType ==
    ASSUME NEW j \in Job, NEW f \in [Keys -> Row]
    PROVE  [j EXCEPT !.found = f, !.pc = "refresh"] \in Job
  BY DEF Job

LEMMA SentKeepsType ==
    ASSUME NEW j \in Job, NEW ids \in SUBSET Keys
    PROVE  [j EXCEPT !.ids = ids] \in Job
  BY DEF Job

LEMMA JobsKeepType ==
    ASSUME job \in [Workers -> Job], NEW w \in Workers, NEW j \in Job,
           job' = [job EXCEPT ![w] = j]
    PROVE  job' \in [Workers -> Job]
  OBVIOUS

LEMMA SpendKeepsType ==
    ASSUME budget \in [BudgetKeys -> Nat], NEW b \in BudgetKeys, Spend(b)
    PROVE  budget' \in [BudgetKeys -> Nat]
  BY DEF Spend

LEMMA TypeStep == TypeOK /\ [Next]_vars => TypeOK'
<1> SUFFICES ASSUME TypeOK, [Next]_vars PROVE TypeOK'
  OBVIOUS
<1> USE DEF TypeOK, database, celery
<1>1. CASE UNCHANGED vars
  BY <1>1 DEF vars
<1>2. ASSUME NEW w \in Workers, Ask(w) PROVE TypeOK'
  <2>1. PICK want \in (SUBSET Keys) \ {{}} :
          job' = [job EXCEPT ![w] = [NoJob EXCEPT !.pc = "fetch", !.want = want,
                                                  !.cache = replica]]
    BY <1>2 DEF Ask
  <2>2. [NoJob EXCEPT !.pc = "fetch", !.want = want, !.cache = replica] \in Job
    BY Fresh DEF Job
  <2>3. budget' \in [BudgetKeys -> Nat]
    BY <1>2, SpendKeepsType DEF Ask, BudgetKeys
  <2>4. job' \in [Workers -> Job]
    BY <2>1, <2>2
  <2>5. QED
    BY <1>2, <2>3, <2>4 DEF Ask
<1>3. ASSUME NEW w \in Workers, Fetch(w) PROVE TypeOK'
  <2> DEFINE there == {k \in job[w].want : rows[k].state # "none"}
             f == [k \in Keys |-> IF k \in there THEN rows[k] ELSE NoRow]
             m == job[w].want \ there
             pc == IF job[w].want \subseteq there THEN "refresh" ELSE "create"
             j == [job[w] EXCEPT !.found = f, !.want = {}, !.missing = m, !.pc = pc]
  <2>1. f \in [Keys -> Row] /\ m \in SUBSET Keys
    BY Fresh, Typed
  <2>2. pc \in {"refresh", "create"}
    OBVIOUS
  <2>3. job' = [job EXCEPT ![w] = j]
    BY <1>3 DEF Fetch
  <2> HIDE DEF f, m, pc
  <2>4. j \in Job
    BY <2>1, <2>2, Typed, FoundKeepsType
  <2> HIDE DEF j
  <2>5. job' \in [Workers -> Job]
    BY <2>3, <2>4
  <2>6. QED
    BY <1>3, <2>5 DEF Fetch
<1>4. ASSUME NEW w \in Workers, Create(w) PROVE TypeOK'
  <2>1. rows' \in [Keys -> Row]
    BY <1>4, Fresh DEF Create, Row
  <2>2. [job[w] EXCEPT !.pc = "refetch"] \in Job
    BY Typed, NextPhaseKeepsType
  <2>3. job' = [job EXCEPT ![w] = [job[w] EXCEPT !.pc = "refetch"]]
    BY <1>4 DEF Create
  <2>4. job' \in [Workers -> Job]
    BY <2>2, <2>3, JobsKeepType
  <2>5. clock' \in Nat /\ UNCHANGED <<database, celery, budget>>
    BY <1>4 DEF Create, Tick
  <2>6. QED
    BY <2>1, <2>4, <2>5
<1>5. ASSUME NEW w \in Workers, Refetch(w) PROVE TypeOK'
  <2> DEFINE f == [k \in Keys |-> IF k \in job[w].missing THEN rows[k]
                                  ELSE job[w].found[k]]
             j == [job[w] EXCEPT !.found = f, !.pc = "refresh"]
  <2>1. f \in [Keys -> Row]
    BY Typed
  <2>2. job' = [job EXCEPT ![w] = j]
    BY <1>5 DEF Refetch
  <2> HIDE DEF f
  <2>3. j \in Job
    BY <2>1, Typed, RefetchedKeepsType
  <2> HIDE DEF j
  <2>4. job' \in [Workers -> Job]
    BY <2>2, <2>3, JobsKeepType
  <2>5. UNCHANGED <<database, celery, rows, clock, budget>>
    BY <1>5 DEF Refetch
  <2>6. QED
    BY <2>4, <2>5
<1>6. ASSUME NEW w \in Workers, Refresh(w) PROVE TypeOK'
  <2>1. ASSUME NEW ids \in SUBSET Keys
        PROVE  [NoJob EXCEPT !.pc = "mark", !.ids = ids] \in Job
    BY Fresh DEF Job
  <2>2. \E j \in Job : job' = [job EXCEPT ![w] = j]
    BY <1>6, <2>1, Fresh, Typed DEF Refresh
  <2>3. job' \in [Workers -> Job]
    BY <2>2, JobsKeepType
  <2>4. UNCHANGED <<database, celery, rows, clock, budget>>
    BY <1>6 DEF Refresh
  <2>5. QED
    BY <2>3, <2>4
<1>7. ASSUME NEW w \in Workers, Mark(w) PROVE TypeOK'
  <2>1. rows' \in [Keys -> Row]
    BY <1>7 DEF Mark, Row
  <2>2. [job[w] EXCEPT !.pc = "enqueue"] \in Job
    BY Typed, NextPhaseKeepsType
  <2>3. job' = [job EXCEPT ![w] = [job[w] EXCEPT !.pc = "enqueue"]]
    BY <1>7 DEF Mark
  <2>4. job' \in [Workers -> Job]
    BY <2>2, <2>3, JobsKeepType
  <2>5. UNCHANGED <<database, celery, clock, budget>>
    BY <1>7 DEF Mark
  <2>6. QED
    BY <2>1, <2>4, <2>5
<1>8. ASSUME NEW w \in Workers, Enqueue(w) PROVE TypeOK'
  <2>1. PICK k \in job[w].ids :
          /\ queue' = [queue EXCEPT ![k] = @ + 1]
          /\ job' = [job EXCEPT ![w] = IF job[w].ids = {k} THEN NoJob
                                       ELSE [job[w] EXCEPT !.ids = @ \ {k}]]
    BY <1>8 DEF Enqueue
  <2>2. [job[w] EXCEPT !.ids = @ \ {k}] \in Job /\ k \in Keys
    BY Typed, SentKeepsType DEF Job
  <2> DEFINE j == IF job[w].ids = {k} THEN NoJob ELSE [job[w] EXCEPT !.ids = @ \ {k}]
  <2>3. j \in Job
    BY <2>2, Fresh
  <2>4. job' = [job EXCEPT ![w] = j]
    BY <2>1
  <2> HIDE DEF j
  <2>5. job' \in [Workers -> Job]
    BY <2>3, <2>4
  <2>6. queue' \in [Keys -> Nat]
    BY <2>1, <2>2
  <2>7. QED
    BY <1>8, <2>5, <2>6 DEF Enqueue
<1>9. ASSUME NEW k \in Keys, Start(k) PROVE TypeOK'
  <2>1. Reports(k) \in Nat \X Nat
    BY KeysAssumption DEF Reports, Commit
  <2>2. QED
    BY <1>9, <2>1 DEF Start
<1>10. ASSUME NEW k \in Keys, Finish(k) PROVE TypeOK'
  <2>1. [state |-> "processed", updated |-> clock, of |-> task.of] \in Row
    BY DEF Row
  <2>2. QED
    BY <1>10, <2>1, Fresh DEF Finish, Tick
<1>11. ASSUME NEW c \in Commits, Upload(c) PROVE TypeOK'
  <2>1. commits' \in [Commits -> Commit]
    BY <1>11 DEF Upload, Commit
  <2>2. task' \in [key : Keys \cup {None}, of : Nat \X Nat, overlap : BOOLEAN]
    BY <1>11 DEF Upload
  <2>3. budget' \in [BudgetKeys -> Nat]
    BY <1>11, SpendKeepsType DEF Upload, BudgetKeys
  <2>4. QED
    BY <1>11, <2>1, <2>2, <2>3 DEF Upload, Tick
<1>12. ASSUME NEW c \in Commits, SaveCommit(c) PROVE TypeOK'
  <2>1. commits' \in [Commits -> Commit]
    <3>1. \A d \in Commits : commits'[d] \in Commit
      <4>1. ASSUME NEW d \in Commits PROVE commits'[d] \in Commit
        <5>1. commits[d] \in Commit
          OBVIOUS
        <5>2. CASE d = c
          BY <1>12, <5>1, <5>2 DEF SaveCommit, Commit
        <5>3. CASE d # c
          BY <1>12, <5>1, <5>3 DEF SaveCommit
        <5>4. QED
          BY <5>2, <5>3
      <4>2. QED
        BY <4>1
    <3>2. commits' = [d \in Commits |-> commits'[d]]
      BY <1>12 DEF SaveCommit
    <3>3. QED
      BY <3>1, <3>2
  <2>2. budget' \in [BudgetKeys -> Nat]
    BY <1>12, SpendKeepsType DEF SaveCommit, BudgetKeys
  <2>3. QED
    BY <1>12, <2>1, <2>2 DEF SaveCommit, Tick
<1>13. CASE Replicate
  BY <1>13 DEF Replicate
<1>14. QED
  BY <1>1, <1>2, <1>3, <1>4, <1>5, <1>6, <1>7, <1>8, <1>9, <1>10, <1>11, <1>12, <1>13
     DEF Next, Handle

-----------------------------------------------------------------------------
(* One request goes from job[w] to j, and nobody else moves. *)
LEMMA JobStep ==
    ASSUME TypeOK, NEW w \in Workers, NEW j, job' = [job EXCEPT ![w] = j]
    PROVE  job'[w] = j /\ \A x \in Workers : x # w => job'[x] = job[x]
  BY DEF TypeOK

LEMMA RowsStay ==
    ASSUME TypeOK, [Next]_vars, NEW k \in Keys, rows[k].state # "none"
    PROVE  rows'[k].state # "none"
<1>1. rows[k] \in Row
  BY DEF TypeOK
<1>2. ASSUME rows' = rows PROVE rows'[k].state # "none"
  BY <1>2
<1>3. ASSUME NEW w \in Workers, Create(w) PROVE rows'[k].state # "none"
  BY <1>3 DEF Create
<1>4. ASSUME NEW w \in Workers, Mark(w) PROVE rows'[k].state # "none"
  BY <1>1, <1>4 DEF Mark, Row
<1>5. ASSUME NEW l \in Keys, Finish(l) PROVE rows'[k].state # "none"
  BY <1>5 DEF Finish, TypeOK
<1>6. QED
  BY <1>2, <1>3, <1>4, <1>5
     DEF Next, Handle, Ask, Fetch, Refetch, Refresh, Enqueue, Start, Upload,
         SaveCommit, Replicate, vars

LEMMA InvInit ==
    ASSUME Init, Late = {}
    PROVE  Inv
<1>1. TypeOK
  BY Fresh, BudgetAssumption DEF Init, TypeOK
<1>2. AllHere(FirstCommits)
  BY DEF AllHere, FirstCommits
<1>3. NoJob.cache = FirstCommits /\ Created(NoJob)
  BY DEF NoJob, Created
<1>4. QED
  BY <1>1, <1>2, <1>3 DEF Init, Inv

\* Only the request w moves, and the commits stay.
LEMMA InvJob ==
    ASSUME Inv, [Next]_vars, NEW w \in Workers, NEW j,
           job' = [job EXCEPT ![w] = j], UNCHANGED <<commits, replica>>,
           AllHere(j.cache),
           j.pc = "refetch" => \A k \in j.missing : rows'[k].state # "none",
           j.pc = "refresh" => \A k \in j.missing : j.found[k].state # "none"
    PROVE  Inv'
<1>1. TypeOK'
  BY TypeStep DEF Inv
<1>2. ASSUME NEW x \in Workers PROVE AllHere(job'[x].cache) /\ Created(job[x])'
  <2>1. CASE x = w
    BY <2>1, JobStep DEF Inv, Created
  <2>2. CASE x # w
    <3>1. job'[x] = job[x] /\ AllHere(job[x].cache) /\ Created(job[x])
          /\ job[x].missing \subseteq Keys
      BY <2>2, JobStep, Typed DEF Inv
    <3>2. QED
      BY <3>1, RowsStay DEF Created, Inv
  <2>3. QED
    BY <2>1, <2>2
<1>3. QED
  BY <1>1, <1>2 DEF Inv

\* No request moves.
LEMMA InvRest ==
    ASSUME Inv, [Next]_vars, job' = job, AllHere(commits'), AllHere(replica')
    PROVE  Inv'
<1>1. TypeOK'
  BY TypeStep DEF Inv
<1>2. ASSUME NEW x \in Workers PROVE AllHere(job'[x].cache) /\ Created(job[x])'
  <2>1. AllHere(job[x].cache) /\ Created(job[x]) /\ job[x].missing \subseteq Keys
    BY Typed DEF Inv
  <2>2. QED
    BY <2>1, RowsStay DEF Created, Inv
<1>3. QED
  BY <1>1, <1>2 DEF Inv

-----------------------------------------------------------------------------
(* What is owed *)

OwesAs(j, k) ==
    \/ j.pc \in {"refetch", "refresh"} /\ k \in j.missing
    \/ j.pc \in {"mark", "enqueue"} /\ k \in j.ids

\* Only the request w moves, and owes the keys in more as well.
LEMMA OwedJob ==
    ASSUME TypeOK, NEW w \in Workers, NEW j, NEW more \in SUBSET Keys,
           job' = [job EXCEPT ![w] = j], UNCHANGED <<queue, task>>,
           \A k \in Keys : OwesAs(j, k) <=> OwesAs(job[w], k) \/ k \in more
    PROVE  Owed' = Owed \cup more
<1>1. ASSUME NEW k \in Keys
      PROVE  (\E x \in Workers : OwesAs(job'[x], k))
             <=> (\E x \in Workers : OwesAs(job[x], k)) \/ k \in more
  <2>1. job'[w] = j /\ \A x \in Workers : x # w => job'[x] = job[x]
    BY JobStep
  <2>2. OwesAs(job'[w], k) <=> OwesAs(job[w], k) \/ k \in more
    BY <2>1
  <2>3. \A x \in Workers : x # w => (OwesAs(job'[x], k) <=> OwesAs(job[x], k))
    BY <2>1
  <2>4. QED
    BY <2>2, <2>3
<1>2. Owed = {k \in Keys : queue[k] > 0 \/ task.key = k
                           \/ \E x \in Workers : OwesAs(job[x], k)}
  BY DEF Owed, Owes, OwesAs
<1>3. Owed' = {k \in Keys : queue'[k] > 0 \/ task'.key = k
                            \/ \E x \in Workers : OwesAs(job'[x], k)}
  BY DEF Owed, Owes, OwesAs
<1>4. QED
  BY <1>1, <1>2, <1>3

\* Keys are promised and some become pending.
LEMMA Promised ==
    ASSUME NEW more \in SUBSET Keys, NEW now \in SUBSET Keys,
           Owed' = Owed \cup more, now \subseteq Owed',
           \A k \in Keys :
              rows'[k].state = IF k \in now THEN "pending" ELSE rows[k].state
    PROVE  QueueStep
<1>1. States' = [k \in Keys |-> IF k \in now THEN "pending" ELSE States[k]]
  BY DEF States
<1>2. Queue!Promise
  BY <1>1 DEF Queue!Promise, States
<1>3. QED
  BY <1>2 DEF QueueStep, Queue!Next

\* Nothing is promised and no row changes its state.
LEMMA Stutters ==
    ASSUME Owed' = Owed, rows' = rows
    PROVE  QueueStep
  BY DEF QueueStep, States

LEMMA AskStep ==
    ASSUME Inv, NEW w \in Workers, Ask(w)
    PROVE  Inv' /\ QueueStep
<1>0. [Next]_vars /\ UNCHANGED <<commits, replica, queue, task, rows>>
  BY DEF Next, Ask, database, celery
<1>1. PICK want \in (SUBSET Keys) \ {{}} :
          job' = [job EXCEPT ![w] = [NoJob EXCEPT !.pc = "fetch", !.want = want,
                                                  !.cache = replica]]
  BY DEF Ask
<1> DEFINE j == [NoJob EXCEPT !.pc = "fetch", !.want = want, !.cache = replica]
<1>2. j.pc = "fetch" /\ j.cache = replica
  BY DEF NoJob
<1>3. job[w].pc = "idle" /\ job' = [job EXCEPT ![w] = j]
  BY <1>1 DEF Ask
<1> HIDE DEF j
<1>4. Inv'
  BY <1>0, <1>2, <1>3, InvJob DEF Inv
<1>5. \A k \in Keys : ~OwesAs(j, k) /\ ~OwesAs(job[w], k)
  BY <1>2, <1>3 DEF OwesAs
<1>6. Owed' = Owed \cup {}
  BY <1>0, <1>3, <1>5, OwedJob DEF Inv
<1>7. QED
  BY <1>0, <1>4, <1>6, Stutters

LEMMA FetchStep ==
    ASSUME Inv, NEW w \in Workers, Fetch(w)
    PROVE  Inv' /\ QueueStep
<1> DEFINE there == {k \in job[w].want : rows[k].state # "none"}
           j == [job[w] EXCEPT
              !.found = [k \in Keys |-> IF k \in there THEN rows[k] ELSE NoRow],
              !.want = {}, !.missing = job[w].want \ there,
              !.pc = IF job[w].want \subseteq there THEN "refresh" ELSE "create"]
<1>0. [Next]_vars /\ UNCHANGED <<commits, replica, queue, task, rows>>
  BY DEF Next, Handle, Fetch, database, celery
<1>1. /\ j.cache = job[w].cache /\ j.pc \in {"refresh", "create"}
      /\ j.pc = "refresh" => j.missing = {}
  BY Typed DEF Inv, Job
<1>2. job[w].pc = "fetch" /\ job' = [job EXCEPT ![w] = j]
  BY DEF Fetch
<1> HIDE DEF j
<1>3. Inv'
  BY <1>0, <1>1, <1>2, InvJob DEF Inv
<1>4. \A k \in Keys : ~OwesAs(j, k) /\ ~OwesAs(job[w], k)
  BY <1>1, <1>2 DEF OwesAs
<1>5. Owed' = Owed \cup {}
  BY <1>0, <1>2, <1>4, OwedJob DEF Inv
<1>6. QED
  BY <1>0, <1>3, <1>5, Stutters

LEMMA CreateStep ==
    ASSUME Inv, NEW w \in Workers, Create(w)
    PROVE  Inv' /\ QueueStep
<1> DEFINE new == {k \in job[w].missing :
                      Known(job[w].cache, k) /\ rows[k].state = "none"}
           j == [job[w] EXCEPT !.pc = "refetch"]
<1>0. [Next]_vars /\ UNCHANGED <<commits, replica, queue, task>>
  BY DEF Next, Handle, Create, database, celery
<1>1. /\ j.cache = job[w].cache /\ j.pc = "refetch" /\ j.missing = job[w].missing
      /\ job[w].missing \in SUBSET Keys /\ new \in SUBSET Keys
  BY Typed DEF Inv, Job
<1>2. /\ job[w].pc = "create" /\ job' = [job EXCEPT ![w] = j]
      /\ \A k \in Keys : rows'[k].state = IF k \in new THEN "pending" ELSE rows[k].state
  BY DEF Create, NoRow
<1>3. \A k \in job[w].missing : rows'[k].state # "none"
  <2>1. ASSUME NEW k \in job[w].missing PROVE rows'[k].state # "none"
    <3>1. k \in Keys /\ k[1] \in Commits /\ k[2] \in Commits
      BY <1>1, KeysAssumption
    <3>2. Known(job[w].cache, k)
      BY <3>1 DEF Inv, AllHere, Known
    <3>3. QED
      BY <1>2, <3>1, <3>2
  <2>2. QED
    BY <2>1
<1> HIDE DEF j
<1>4. Inv'
  BY <1>0, <1>1, <1>2, <1>3, InvJob DEF Inv
<1>5. \A k \in Keys : OwesAs(j, k) <=> OwesAs(job[w], k) \/ k \in job[w].missing
  BY <1>1, <1>2 DEF OwesAs
<1>6. Owed' = Owed \cup job[w].missing
  BY <1>0, <1>1, <1>2, <1>5, OwedJob DEF Inv
<1>7. new \subseteq Owed'
  BY <1>6
<1> HIDE DEF new
<1>8. QED
  BY <1>1, <1>2, <1>4, <1>6, <1>7, Promised

LEMMA RefetchStep ==
    ASSUME Inv, NEW w \in Workers, Refetch(w)
    PROVE  Inv' /\ QueueStep
<1> DEFINE f == [k \in Keys |-> IF k \in job[w].missing THEN rows[k]
                                ELSE job[w].found[k]]
           j == [job[w] EXCEPT !.found = f, !.pc = "refresh"]
<1>0. [Next]_vars /\ UNCHANGED <<commits, replica, queue, task, rows>>
  BY DEF Next, Handle, Refetch, database, celery
<1>1. /\ j.cache = job[w].cache /\ j.pc = "refresh" /\ j.missing = job[w].missing
      /\ j.found = f
  BY Typed DEF Inv, Job
<1>2. job[w].pc = "refetch" /\ job' = [job EXCEPT ![w] = j]
  BY DEF Refetch
<1>3. \A k \in j.missing : j.found[k].state # "none"
  BY <1>1, <1>2, Typed DEF Inv, Created
<1> HIDE DEF j, f
<1>4. Inv'
  BY <1>0, <1>1, <1>2, <1>3, InvJob DEF Inv
<1>5. \A k \in Keys : OwesAs(j, k) <=> OwesAs(job[w], k) \/ k \in {}
  BY <1>1, <1>2 DEF OwesAs
<1>6. Owed' = Owed \cup {}
  BY <1>0, <1>2, <1>5, OwedJob DEF Inv
<1>7. QED
  BY <1>0, <1>4, <1>6, Stutters

LEMMA RefreshStep ==
    ASSUME Inv, NEW w \in Workers, Refresh(w)
    PROVE  Inv' /\ QueueStep
<1> DEFINE o == job[w]
           old == {k \in Keys \ o.missing : o.found[k].state # "none"}
           ids == {k \in o.missing : o.found[k].state # "none"}
                  \cup {k \in old : NeedsRecompute(o.found[k], o.cache, k)}
           j == IF ids = {} THEN NoJob ELSE [NoJob EXCEPT !.pc = "mark", !.ids = ids]
<1>0. [Next]_vars /\ UNCHANGED <<commits, replica, queue, task, rows>>
  BY DEF Next, Handle, Refresh, database, celery
<1>1. o.missing \subseteq Keys /\ ids \in SUBSET Keys
  BY Typed DEF Inv
<1>2. \A k \in old : ~Raises(o.found[k], o.cache, k)
  BY KeysAssumption DEF Inv, AllHere, Raises
<1>3. o.pc = "refresh" /\ job' = [job EXCEPT ![w] = j]
  BY <1>2 DEF Refresh
<1>4. o.missing \subseteq ids
  BY <1>3 DEF Inv, Created
<1>5. /\ AllHere(j.cache) /\ j.pc \in {"idle", "mark"}
      /\ j.pc = "idle" => ids = {}
      /\ j.pc = "mark" => j.ids = ids
  <2>1. AllHere(NoJob.cache)
    BY DEF Inv, NoJob
  <2>2. QED
    BY <2>1 DEF NoJob
<1> HIDE DEF j, ids
<1>6. Inv'
  BY <1>0, <1>3, <1>5, InvJob DEF Inv
<1>7. \A k \in Keys : OwesAs(j, k) <=> OwesAs(job[w], k) \/ k \in ids
  BY <1>3, <1>4, <1>5 DEF OwesAs
<1>8. Owed' = Owed \cup ids
  BY <1>0, <1>1, <1>3, <1>7, OwedJob DEF Inv
<1>9. QED
  <2>1. \A k \in Keys : rows'[k].state = IF k \in {} THEN "pending" ELSE rows[k].state
    BY <1>0
  <2>2. {} \subseteq Owed' /\ {} \in SUBSET Keys
    OBVIOUS
  <2>3. QueueStep
    BY <1>1, <1>8, <2>1, <2>2, Promised
  <2>4. QED
    BY <1>6, <2>3

LEMMA MarkStep ==
    ASSUME Inv, NEW w \in Workers, Mark(w)
    PROVE  Inv' /\ QueueStep
<1> DEFINE j == [job[w] EXCEPT !.pc = "enqueue"]
<1>0. [Next]_vars /\ UNCHANGED <<commits, replica, queue, task>>
  BY DEF Next, Handle, Mark, database, celery
<1>1. /\ j.cache = job[w].cache /\ j.pc = "enqueue" /\ j.ids = job[w].ids
      /\ job[w].ids \in SUBSET Keys
  BY Typed DEF Inv, Job
<1>2. job[w].pc = "mark" /\ job' = [job EXCEPT ![w] = j]
  BY DEF Mark
<1>3. \A k \in Keys : rows'[k].state = IF k \in job[w].ids THEN "pending"
                                       ELSE rows[k].state
  <2>1. \A k \in Keys : rows[k] \in Row
    BY DEF Inv, TypeOK
  <2>2. QED
    BY <2>1 DEF Mark, Row
<1> HIDE DEF j
<1>4. Inv'
  BY <1>0, <1>1, <1>2, InvJob DEF Inv
<1>5. \A k \in Keys : OwesAs(j, k) <=> OwesAs(job[w], k) \/ k \in {}
  BY <1>1, <1>2 DEF OwesAs
<1>6. Owed' = Owed \cup {}
  BY <1>0, <1>2, <1>5, OwedJob DEF Inv
<1>7. job[w].ids \subseteq Owed
  BY <1>1, <1>2 DEF Owed, Owes
<1>8. QED
  BY <1>1, <1>3, <1>4, <1>6, <1>7, Promised

LEMMA EnqueueStep ==
    ASSUME Inv, NEW w \in Workers, Enqueue(w)
    PROVE  Inv' /\ QueueStep
<1>0. [Next]_vars /\ UNCHANGED <<commits, replica, task, rows>>
  BY DEF Next, Handle, Enqueue, database
<1>1. PICK k \in job[w].ids :
         /\ queue' = [queue EXCEPT ![k] = @ + 1]
         /\ job' = [job EXCEPT ![w] = IF job[w].ids = {k} THEN NoJob
                                      ELSE [job[w] EXCEPT !.ids = @ \ {k}]]
  BY DEF Enqueue
<1> DEFINE j == IF job[w].ids = {k} THEN NoJob ELSE [job[w] EXCEPT !.ids = @ \ {k}]
<1>2. job[w].pc = "enqueue" /\ job' = [job EXCEPT ![w] = j] /\ k \in Keys
  BY <1>1, Typed DEF Enqueue, Inv
<1>3. AllHere(j.cache) /\ j.pc \in {"idle", "enqueue"}
      /\ \A l \in Keys : OwesAs(j, l) <=> l \in job[w].ids \ {k}
  <2>1. AllHere(NoJob.cache) /\ NoJob.pc = "idle"
    BY DEF Inv, NoJob
  <2>2. CASE job[w].ids = {k}
    BY <2>1, <2>2 DEF OwesAs
  <2>3. CASE job[w].ids # {k}
    <3>1. j.cache = job[w].cache /\ j.pc = "enqueue" /\ j.ids = job[w].ids \ {k}
      BY <1>2, <2>3, Typed DEF Inv, Job
    <3>2. QED
      BY <3>1 DEF OwesAs, Inv
  <2>4. QED
    BY <2>2, <2>3
<1> HIDE DEF j
<1>4. Inv'
  BY <1>0, <1>2, <1>3, InvJob DEF Inv
<1>5. Owed' = Owed
  <2>1. job'[w] = j /\ \A x \in Workers : x # w => job'[x] = job[x]
    BY <1>2, JobStep DEF Inv
  <2>2. \A l \in Keys : OwesAs(job[w], l) <=> l \in job[w].ids
    BY <1>2 DEF OwesAs
  <2>3. /\ queue'[k] > 0 /\ \A l \in Keys \ {k} : queue'[l] = queue[l]
    BY <1>1, <1>2 DEF Inv, TypeOK
  <2>4. ASSUME NEW l \in Keys, l # k
        PROVE  (\E x \in Workers : OwesAs(job'[x], l)) <=> (\E x \in Workers : OwesAs(job[x], l))
    <3>1. OwesAs(job'[w], l) <=> OwesAs(job[w], l)
      BY <1>3, <2>1, <2>2, <2>4
    <3>2. \A x \in Workers : x # w => (OwesAs(job'[x], l) <=> OwesAs(job[x], l))
      BY <2>1
    <3>3. QED
      BY <3>1, <3>2
  <2>5. Owed = {l \in Keys : queue[l] > 0 \/ task.key = l
                             \/ \E x \in Workers : OwesAs(job[x], l)}
    BY DEF Owed, Owes, OwesAs
  <2>6. Owed' = {l \in Keys : queue'[l] > 0 \/ task'.key = l
                              \/ \E x \in Workers : OwesAs(job'[x], l)}
    BY DEF Owed, Owes, OwesAs
  <2>7. k \in Owed /\ k \in Owed'
    BY <1>1, <1>2, <2>2, <2>3, <2>5, <2>6
  <2>8. \A l \in Keys : l # k => (l \in Owed <=> l \in Owed')
    BY <1>0, <2>3, <2>4, <2>5, <2>6
  <2>9. QED
    BY <2>5, <2>6, <2>7, <2>8
<1>6. QED
  BY <1>0, <1>4, <1>5, Stutters

LEMMA StartStep ==
    ASSUME Inv, NEW k \in Keys, Start(k)
    PROVE  Inv' /\ QueueStep
<1>0. [Next]_vars /\ UNCHANGED <<commits, replica, rows, job>>
  BY DEF Next, Start, database
<1>1. Inv'
  BY <1>0, InvRest DEF Inv
<1>2. /\ queue[k] > 0 /\ \A l \in Keys \ {k} : queue'[l] = queue[l]
      /\ task.key = None /\ task'.key = k
  BY DEF Start, Inv, TypeOK
<1>3. Owed' = Owed
  <2>1. \A l \in Keys : l \in Owed <=> l \in Owed'
    BY <1>0, <1>2, NoneAssumption DEF Owed, Owes
  <2>2. QED
    BY <2>1 DEF Owed
<1>4. QED
  BY <1>0, <1>1, <1>3, Stutters

LEMMA FinishStep ==
    ASSUME Inv, NEW k \in Keys, Finish(k)
    PROVE  Inv' /\ QueueStep
<1>0. [Next]_vars /\ UNCHANGED <<commits, replica, queue, job>>
  BY DEF Next, Finish, database
<1>1. Inv'
  BY <1>0, InvRest DEF Inv
<1>2. task.key = k /\ task'.key = None
  BY Fresh DEF Finish
<1>3. \A l \in Keys : rows'[l].state = IF l = k THEN "processed" ELSE rows[l].state
  BY DEF Finish, Inv, TypeOK
<1>4. k \in Owed /\ \A l \in Keys : l # k => (l \in Owed <=> l \in Owed')
  BY <1>0, <1>2, NoneAssumption DEF Owed, Owes
<1>5. Owed' \in {Owed, Owed \ {k}}
  <2>1. Owed \subseteq Keys /\ Owed' \subseteq Keys
    BY DEF Owed
  <2>2. CASE k \in Owed'
    <3>1. Owed' = Owed
      BY <1>4, <2>1, <2>2
    <3>2. QED
      BY <3>1
  <2>3. CASE k \notin Owed'
    <3>1. Owed' = Owed \ {k}
      BY <1>4, <2>1, <2>3
    <3>2. QED
      BY <3>1
  <2>4. QED
    BY <2>2, <2>3
<1>6. States' = [States EXCEPT ![k] = "processed"]
  BY <1>3 DEF States
<1>7. Queue!Compute(k)
  BY <1>4, <1>5, <1>6 DEF Queue!Compute, States
<1>8. QED
  BY <1>1, <1>7 DEF QueueStep, Queue!Next

\* Uploads, saves of commits, the replica: nobody owes more or less.
LEMMA WorldStep ==
    ASSUME Inv, \/ \E c \in Commits : Upload(c) \/ SaveCommit(c)
                \/ Replicate
    PROVE  Inv' /\ QueueStep
<1>0. [Next]_vars /\ UNCHANGED <<rows, queue, job>> /\ task'.key = task.key
  <2>1. ASSUME NEW c \in Commits, Upload(c) PROVE task'.key = task.key
    BY <2>1 DEF Upload, Inv, TypeOK
  <2>2. ASSUME NEW c \in Commits, SaveCommit(c) PROVE task'.key = task.key
    BY <2>2 DEF SaveCommit, celery
  <2>3. ASSUME Replicate PROVE task'.key = task.key
    BY <2>3 DEF Replicate, celery
  <2>4. QED
    BY <2>1, <2>2, <2>3 DEF Next, Upload, SaveCommit, Replicate, celery
<1>1. AllHere(commits') /\ AllHere(replica')
  <2>1. ASSUME NEW c \in Commits, Upload(c) PROVE AllHere(commits') /\ AllHere(replica')
    <3>1. \A d \in Commits : commits[d].here /\ commits[d] \in Commit
      BY DEF Inv, TypeOK, AllHere
    <3>2. commits \in [Commits -> Commit]
      BY DEF Inv, TypeOK
    <3>3. QED
      BY <2>1, <3>1, <3>2 DEF Upload, AllHere, Inv, Commit
  <2>2. ASSUME NEW c \in Commits, SaveCommit(c)
        PROVE  AllHere(commits') /\ AllHere(replica')
    <3>1. \A d \in Commits : commits[d].here /\ commits[d] \in Commit
      BY DEF Inv, TypeOK, AllHere
    <3>2. commits \in [Commits -> Commit]
      BY DEF Inv, TypeOK
    <3>3. QED
      BY <2>2, <3>1, <3>2 DEF SaveCommit, AllHere, Inv, Commit
  <2>3. ASSUME Replicate PROVE AllHere(commits') /\ AllHere(replica')
    BY <2>3 DEF Replicate, Inv
  <2>4. QED
    BY <2>1, <2>2, <2>3
<1>2. Inv'
  BY <1>0, <1>1, InvRest
<1>3. Owed' = Owed
  BY <1>0 DEF Owed, Owes
<1>4. QED
  BY <1>0, <1>2, <1>3, Stutters

-----------------------------------------------------------------------------
LEMMA NextStep == Inv /\ [Next]_vars => Inv' /\ QueueStep
<1> SUFFICES ASSUME Inv, [Next]_vars PROVE Inv' /\ QueueStep
  OBVIOUS
<1>1. CASE UNCHANGED vars
  <2>1. Inv'
    BY <1>1, InvRest DEF vars, Inv
  <2>2. Owed' = Owed
    BY <1>1 DEF vars, Owed, Owes
  <2>3. QED
    BY <1>1, <2>1, <2>2, Stutters DEF vars
<1>2. ASSUME NEW w \in Workers, Ask(w) \/ Handle(w) PROVE Inv' /\ QueueStep
  BY <1>2, AskStep, FetchStep, CreateStep, RefetchStep, RefreshStep, MarkStep,
     EnqueueStep DEF Handle
<1>3. ASSUME NEW k \in Keys, Start(k) \/ Finish(k) PROVE Inv' /\ QueueStep
  BY <1>3, StartStep, FinishStep
<1>4. QED
  BY <1>1, <1>2, <1>3, WorldStep DEF Next

\* Every variable keeps its type.
THEOREM TypeCorrect == Spec => []TypeOK
<1>1. Init => TypeOK
  BY Fresh, BudgetAssumption DEF Init, TypeOK
<1>2. QED
  BY <1>1, TypeStep, PTL DEF Spec

\* If every commit is there from the start, requests and worker never do what
\* the queue of owed computations does not allow (ComparisonQueue without its
\* fairness, which TLC checks).
THEOREM ImplementsSafely ==
    ASSUME Late = {}
    PROVE  Spec => Queue!Init /\ [][Queue!Next]_<<States, Owed>>
<1>1. Init => Inv
  BY InvInit
<1>2. Init => Queue!Init
  <2> SUFFICES ASSUME Init PROVE Queue!Init
    OBVIOUS
  <2>2. Owed = {}
    <3>1. \A w \in Workers : job[w].pc = "idle"
      BY Fresh DEF Init
    <3>2. \A k \in Keys : queue[k] = 0 /\ task.key # k
      BY Fresh, NoneAssumption DEF Init
    <3>3. QED
      BY <3>1, <3>2 DEF Owed, Owes
  <2>3. \A k \in Keys : rows[k].state = "none"
    BY DEF Init, NoRows, NoRow
  <2>4. QED
    BY <2>2, <2>3 DEF Queue!Init
<1>3. QED
  BY <1>1, <1>2, NextStep, PTL DEF Spec, QueueStep

\* If every commit is there from the start, a pending comparison has a task, or a
\* request that is about to send one, however requests interleave.
THEOREM Served ==
    ASSUME Late = {}
    PROVE  Spec => []PendingIsServed
<1> DEFINE P == \A k \in Keys : States[k] = "pending" => k \in Owed
<1>1. Init => Inv
  BY InvInit
<1>2. Init => P
  BY DEF Init, NoRows, NoRow, States
<1>3. P /\ QueueStep => P'
  <2> SUFFICES ASSUME P, QueueStep PROVE P'
    OBVIOUS
  <2>1. CASE UNCHANGED <<States, Owed>>
    BY <2>1
  <2>2. CASE Queue!Promise
    BY <2>2 DEF Queue!Promise, States
  <2>3. ASSUME NEW k \in Keys, Queue!Compute(k) PROVE P'
    <3>1. States' = [States EXCEPT ![k] = "processed"] /\ Owed' \in {Owed, Owed \ {k}}
      BY <2>3 DEF Queue!Compute, States
    <3>2. \A l \in Keys : States'[l] = IF l = k THEN "processed" ELSE States[l]
      BY <3>1 DEF States
    <3>3. QED
      BY <3>1, <3>2
  <2>4. QED
    BY <2>1, <2>2, <2>3 DEF QueueStep, Queue!Next
<1>4. P <=> PendingIsServed
  BY DEF States, PendingIsServed
<1>5. QED
  BY <1>1, <1>2, <1>3, <1>4, NextStep, PTL DEF Spec

-----------------------------------------------------------------------------
(* Out of date and known to be so *)

\* No time of a comparison is in the future: whatever is written now is
\* younger.  A task that no upload has overlapped has read the present reports.
Dated ==
    /\ \A k \in Keys : rows[k].updated < clock
    /\ \A k \in Keys : task.key = k /\ ~task.overlap => task.of = Reports(k)

StaleInv == TypeOK /\ Dated /\ StaleIsDetected

\* What compares a key now: its row, its commits and whether its computation
\* was overlapped.  It is kept by a step that leaves them alone.
LEMMA DetectedStays ==
    ASSUME StaleIsDetected, NEW k \in Keys,
           rows'[k] = rows[k] \/ rows'[k].state = "pending",
           \A i \in 1..2 : commits'[k[i]] = commits[k[i]],
           k \in overlapped => k \in overlapped',
           rows'[k].state = "processed", rows'[k].of # Reports(k)'
    PROVE  NeedsRecompute(rows'[k], commits', k) \/ k \in overlapped'
<1>1. rows'[k] = rows[k] /\ Reports(k)' = Reports(k)
  BY DEF Reports
<1>2. NeedsRecompute(rows[k], commits, k) \/ k \in overlapped
  BY <1>1 DEF StaleIsDetected
<1>3. QED
  BY <1>1, <1>2 DEF NeedsRecompute

LEMMA AskLeaves ==
    ASSUME NEW w, Ask(w)
    PROVE  UNCHANGED <<commits, rows, task, clock, overlapped>>
  BY DEF Ask, database, celery

LEMMA FetchLeaves ==
    ASSUME NEW w, Fetch(w)
    PROVE  UNCHANGED <<commits, rows, task, clock, overlapped>>
<1>1. UNCHANGED <<database, celery, rows, clock, budget>>
  BY Zenon DEF Fetch
<1>2. QED
  BY <1>1 DEF database, celery

\* Requests make comparisons pending, and read the rest.
LEMMA RequestStaleStep ==
    ASSUME StaleInv, NEW w \in Workers, Ask(w) \/ Handle(w)
    PROVE  Dated' /\ StaleIsDetected'
<1>1. UNCHANGED <<commits, overlapped, task>>
  <2>1. CASE Ask(w) \/ Fetch(w)
    BY <2>1, AskLeaves, FetchLeaves
  <2>2. CASE Create(w) \/ Mark(w)
    BY <2>2 DEF Create, Mark, database, celery
  <2>3. CASE Refetch(w)
    BY <2>3 DEF Refetch, database, celery
  <2>4. CASE Refresh(w)
    BY <2>4 DEF Refresh, database, celery
  <2>5. CASE Enqueue(w)
    BY <2>5 DEF Enqueue, database
  <2>6. QED
    BY <2>1, <2>2, <2>3, <2>4, <2>5 DEF Handle
<1>2. \A k \in Keys : rows[k] \in Row /\ k[1] \in Commits /\ k[2] \in Commits
  BY KeysAssumption DEF StaleInv, TypeOK
<1>3. clock \in Nat
  BY DEF StaleInv, TypeOK
<1>4. /\ clock' \in {clock, clock + 1}
      /\ \A k \in Keys : \/ rows'[k] = rows[k]
                         \/ rows'[k].state = "pending" /\ rows'[k].updated < clock'
  <2>1. CASE Create(w)
    BY <1>2, <1>3, <2>1 DEF Create, NoRow, Tick
  <2>2. CASE Mark(w)
    BY <1>2, <1>3, <2>2 DEF Mark, StaleInv, Dated, Row
  <2>3. CASE Ask(w) \/ Fetch(w)
    BY <2>3, AskLeaves, FetchLeaves
  <2>4. CASE Refetch(w)
    BY <2>4 DEF Refetch
  <2>5. CASE Refresh(w)
    BY <2>5 DEF Refresh
  <2>6. CASE Enqueue(w)
    BY <2>6 DEF Enqueue
  <2>7. QED
    BY <2>1, <2>2, <2>3, <2>4, <2>5, <2>6 DEF Handle
<1>5. Dated'
  BY <1>1, <1>2, <1>3, <1>4 DEF StaleInv, Dated, Reports, Row
<1>6. StaleIsDetected'
  BY <1>1, <1>4, DetectedStays DEF StaleInv, StaleIsDetected
<1>7. QED
  BY <1>5, <1>6

LEMMA StartStaleStep ==
    ASSUME StaleInv, NEW k \in Keys, Start(k)
    PROVE  Dated' /\ StaleIsDetected'
<1>1. UNCHANGED <<commits, rows, overlapped, clock>>
  BY DEF Start, database
<1>2. task'.key = k /\ task'.of = Reports(k) /\ Reports(k)' = Reports(k)
  BY <1>1 DEF Start, Reports
<1>3. QED
  BY <1>1, <1>2, DetectedStays DEF StaleInv, Dated, StaleIsDetected

\* The result is of the present reports, or is known to be overlapped.
LEMMA FinishStaleStep ==
    ASSUME StaleInv, NEW k \in Keys, Finish(k)
    PROVE  Dated' /\ StaleIsDetected'
<1>1. UNCHANGED commits /\ task.key = k /\ task'.key = None
  BY Fresh DEF Finish, database
<1>2. clock \in Nat /\ clock' = clock + 1 /\ rows \in [Keys -> Row]
  BY DEF Finish, Tick, StaleInv, TypeOK
<1>3. /\ rows'[k].updated = clock /\ rows'[k].of = task.of
      /\ \A l \in Keys : l # k => rows'[l] = rows[l]
  BY <1>2 DEF Finish
<1>4. Dated'
  BY <1>1, <1>2, <1>3, NoneAssumption DEF StaleInv, Dated, Row
<1>5. ASSUME NEW l \in Keys, rows'[l].state = "processed", rows'[l].of # Reports(l)'
      PROVE  NeedsRecompute(rows'[l], commits', l) \/ l \in overlapped'
  <2>1. CASE l = k
    <3>1. task.of # Reports(k)
      BY <1>1, <1>3, <1>5, <2>1 DEF Reports
    <3>2. task.overlap
      BY <1>1, <3>1 DEF StaleInv, Dated
    <3>3. QED
      BY <2>1, <3>2 DEF Finish
  <2>2. CASE l # k
    <3>1. l \in overlapped => l \in overlapped'
      BY <2>2 DEF Finish
    <3>2. QED
      BY <1>1, <1>3, <1>5, <2>2, <3>1, DetectedStays DEF StaleInv
  <2>3. QED
    BY <2>1, <2>2
<1>6. QED
  BY <1>4, <1>5 DEF StaleIsDetected

\* A commit that is written now is younger than all of its comparisons.
LEMMA CommitStaleStep ==
    ASSUME StaleInv, NEW c \in Commits, Upload(c) \/ SaveCommit(c)
    PROVE  Dated' /\ StaleIsDetected'
<1>1. UNCHANGED <<rows, overlapped>> /\ task'.key = task.key /\ task'.of = task.of
  BY DEF Upload, SaveCommit, celery, StaleInv, TypeOK
<1>2. clock \in Nat /\ clock' = clock + 1
  BY DEF Upload, SaveCommit, Tick, StaleInv, TypeOK
<1>3. commits \in [Commits -> Commit] /\ rows \in [Keys -> Row]
  BY DEF StaleInv, TypeOK
<1>4. /\ commits'[c].saved = clock \/ commits'[c].details = clock
      /\ \A d \in Commits : d # c => commits'[d] = commits[d]
  BY <1>3 DEF Upload, SaveCommit, Commit
<1>5. \A k \in Keys : k[1] \in Commits /\ k[2] \in Commits
  BY KeysAssumption
<1>6. ASSUME NEW k \in Keys, task'.key = k, ~task'.overlap
      PROVE  task'.of = Reports(k)'
  <2>1. ~task.overlap /\ Reports(k)' = Reports(k)
    <3>1. CASE Upload(c)
      <4> DEFINE hit == \E l \in Keys : task.key = l /\ (l[1] = c \/ l[2] = c)
      <4>1. task' = [task EXCEPT !.overlap = @ \/ hit]
        BY <3>1 DEF Upload
      <4>2. task'.overlap = (task.overlap \/ hit)
        <5> HIDE DEF hit
        <5>1. task \in [key : Keys \cup {None}, of : Nat \X Nat, overlap : BOOLEAN]
          BY DEF StaleInv, TypeOK
        <5>2. QED
          BY <4>1, <5>1
      <4>3. ~task.overlap /\ k[1] # c /\ k[2] # c
        BY <1>1, <1>6, <4>2
      <4>4. QED
        BY <1>4, <1>5, <4>3 DEF Reports
    <3>2. CASE SaveCommit(c)
      <4>1. \A d \in Commits : commits'[d].details = commits[d].details
        BY <1>3, <3>2 DEF SaveCommit, Commit
      <4>2. task' = task
        BY <3>2 DEF SaveCommit, celery
      <4>3. QED
        BY <1>5, <1>6, <4>1, <4>2 DEF Reports
    <3>3. QED
      BY <3>1, <3>2
  <2>2. QED
    BY <1>1, <1>6, <2>1 DEF StaleInv, Dated
<1>7. Dated'
  <2>1. \A k \in Keys : rows'[k].updated < clock'
    BY <1>1, <1>2, <1>3 DEF StaleInv, Dated, Row
  <2>2. QED
    BY <1>6, <2>1 DEF Dated
<1>8. ASSUME NEW k \in Keys, rows'[k].state = "processed", rows'[k].of # Reports(k)'
      PROVE  NeedsRecompute(rows'[k], commits', k) \/ k \in overlapped'
  <2>1. rows'[k].updated < clock
    BY <1>1 DEF StaleInv, Dated
  <2>2. CASE \E i \in 1..2 : k[i] = c
    BY <1>4, <2>1, <2>2 DEF NeedsRecompute
  <2>3. CASE \A i \in 1..2 : k[i] # c
    <3>1. \A i \in 1..2 : commits'[k[i]] = commits[k[i]]
      BY <1>4, <1>5, <2>3
    <3>2. QED
      BY <1>1, <1>8, <3>1, DetectedStays DEF StaleInv
  <2>4. QED
    BY <2>2, <2>3
<1>9. QED
  BY <1>7, <1>8 DEF StaleIsDetected

\* A result computed from other reports than the present ones is seen to be out
\* of date by needs_recompute, unless a report changed during its computation,
\* whether or not every commit is there from the start.
THEOREM Detected == Spec => []StaleIsDetected
<1>1. Init => StaleInv
  <2> SUFFICES ASSUME Init PROVE StaleInv
    OBVIOUS
  <2>1. TypeOK
    BY Fresh, BudgetAssumption DEF Init, TypeOK
  <2>2. Dated /\ StaleIsDetected
    BY Fresh, NoneAssumption DEF Init, Dated, StaleIsDetected, NoRows, NoRow
  <2>3. QED
    BY <2>1, <2>2 DEF StaleInv
<1>2. StaleInv /\ [Next]_vars => StaleInv'
  <2> SUFFICES ASSUME StaleInv, [Next]_vars PROVE StaleInv'
    OBVIOUS
  <2>1. TypeOK'
    BY TypeStep DEF StaleInv
  <2>2. CASE UNCHANGED <<commits, rows, task, clock, overlapped>>
    <3>1. Dated'
      BY <2>2 DEF StaleInv, Dated, Reports
    <3>2. StaleIsDetected'
      BY <2>2, DetectedStays DEF StaleInv, StaleIsDetected
    <3>3. QED
      BY <2>1, <3>1, <3>2 DEF StaleInv
  <2>3. CASE Next
    <3>1. CASE Replicate
      BY <2>2, <3>1 DEF Replicate, celery
    <3>2. ASSUME NEW w \in Workers, Ask(w) \/ Handle(w) PROVE StaleInv'
      BY <2>1, <3>2, RequestStaleStep DEF StaleInv
    <3>3. ASSUME NEW k \in Keys, Start(k) \/ Finish(k) PROVE StaleInv'
      BY <2>1, <3>3, StartStaleStep, FinishStaleStep DEF StaleInv
    <3>4. ASSUME NEW c \in Commits, Upload(c) \/ SaveCommit(c) PROVE StaleInv'
      BY <2>1, <3>4, CommitStaleStep DEF StaleInv
    <3>5. QED
      BY <2>3, <3>1, <3>2, <3>3, <3>4 DEF Next
  <2>4. QED
    BY <2>2, <2>3 DEF vars
<1>3. StaleInv => StaleIsDetected
  BY DEF StaleInv
<1>4. QED
  BY <1>1, <1>2, <1>3, PTL DEF Spec
-----------------------------------------------------------------------------
(***************************************************************************)
(* Sets of numbers: the least, the greatest and the k-th                   *)
(***************************************************************************)
\* A set of natural numbers has a least one.
LEMMA LeastIs ==
    ASSUME NEW S \in SUBSET Nat, S # {}
    PROVE  Min(S) \in S /\ \A y \in S : Min(S) <= y
<1>1. PICK x \in S : \A y \in S : ~(<<y, x>> \in OpToRel(<, Nat))
  BY NatLessThanWellFounded, WFMin
<1>2. \A y \in S : ~(y < x)
  BY <1>1 DEF OpToRel
<1>3. \A y \in S : x <= y
  BY <1>2
<1>4. QED
  BY <1>3 DEF Min

\* A set of numbers up to some one has a greatest.
LEMMA GreatestIs ==
    ASSUME NEW n \in Nat, NEW S \in SUBSET (0..n), S # {}
    PROVE  Max(S) \in S /\ \A y \in S : Max(S) >= y
<1> DEFINE T == {n - x : x \in S}
<1>1. T \subseteq Nat /\ T # {}
  <2>1. \A x \in S : n - x \in Nat
    <3> SUFFICES ASSUME NEW x \in S PROVE n - x \in Nat
      OBVIOUS
    <3>1. x \in 0..n
      OBVIOUS
    <3>2. QED
      BY <3>1
  <2>2. QED
    BY <2>1
<1>2. Min(T) \in T /\ \A t \in T : Min(T) <= t
  BY <1>1, LeastIs
<1>3. PICK x \in S : Min(T) = n - x
  BY <1>2
<1>4. ASSUME NEW y \in S PROVE x >= y
  <2>1. n - y \in T
    OBVIOUS
  <2>2. n - x <= n - y
    BY <1>2, <1>3, <2>1
  <2>3. x \in 0..n /\ y \in 0..n
    OBVIOUS
  <2>4. QED
    BY <2>2, <2>3
<1>5. QED
  BY <1>4 DEF Max

LEMMA UpTo ==
    ASSUME NEW n \in Nat, NEW S \in SUBSET (0..n)
    PROVE  /\ IsFiniteSet(S) /\ Cardinality(S) \in Nat
           /\ S \in SUBSET Nat /\ \A x \in S : x \in Int
<1>1. IsFiniteSet(0..n)
  BY FS_Interval
<1>2. IsFiniteSet(S)
  BY <1>1, FS_Subset
<1>3. Cardinality(S) \in Nat
  BY <1>2, FS_CardinalityType
<1>4. S \in SUBSET Nat
  <2>1. ASSUME NEW x \in S PROVE x \in Nat
    <3>1. x \in 0..n
      OBVIOUS
    <3>2. QED
      BY <3>1
  <2>2. QED
    BY <2>1
<1>5. QED
  BY <1>2, <1>3, <1>4

\* how many of the set are smaller
Rank(S, x) == Cardinality({y \in S : y < x})

\* The numbers below the greatest are one less.
LEMMA WithoutGreatest ==
    ASSUME NEW n \in Nat, NEW S \in SUBSET (0..n), S # {}
    PROVE  \E m \in S : (\A y \in S : m >= y) /\ Cardinality(S) = Rank(S, m) + 1
<1> DEFINE U(m) == {y \in S : y < m}
<1>1. PICK m \in S : \A y \in S : m >= y
  BY GreatestIs
<1>2. IsFiniteSet(S) /\ \A y \in S : y \in Int
  BY UpTo
<1>3. \A y \in S : y = m \/ y < m
  BY <1>1, <1>2
<1>4. S = U(m) \cup {m} /\ m \notin U(m)
  <2>1. ~(m < m)
    BY <1>2
  <2>2. QED
    BY <1>3, <2>1, Zenon
<1>5. IsFiniteSet(U(m))
  BY <1>2, U(m) \in SUBSET S, FS_Subset
<1>6. Cardinality(U(m) \cup {m}) = Cardinality(U(m)) + 1
  BY <1>4, <1>5, FS_AddElement
<1>7. QED
  BY <1>1, <1>4, <1>6 DEF Rank

LEMMA RankIs ==
    ASSUME NEW n \in Nat, NEW S \in SUBSET (0..n), NEW x \in S
    PROVE  Rank(S, x) \in Nat /\ Rank(S, x) < Cardinality(S)
<1> DEFINE T == {y \in S : y < x}
<1>1. IsFiniteSet(S) /\ Cardinality(S) \in Nat /\ x \in Int
  BY UpTo
<1>2. IsFiniteSet(T)
  BY <1>1, T \in SUBSET S, FS_Subset
<1>3. x \notin T
  BY <1>1
<1>4. Cardinality(T \cup {x}) = Cardinality(T) + 1
  BY <1>2, <1>3, FS_AddElement
<1>5. Cardinality(T \cup {x}) <= Cardinality(S)
  BY <1>1, T \cup {x} \in SUBSET S, FS_Subset
<1>6. Cardinality(T) \in Nat
  BY <1>2, FS_CardinalityType
<1>7. QED
  BY <1>1, <1>4, <1>5, <1>6 DEF Rank

LEMMA RankGrows ==
    ASSUME NEW n \in Nat, NEW S \in SUBSET (0..n), NEW x \in S, NEW y \in S, x < y
    PROVE  Rank(S, x) < Rank(S, y)
<1> DEFINE T == {z \in S : z < y}
<1>1. \A z \in S : z \in Int
  BY UpTo
<1>2. {z \in S : z < x} = {z \in T : z < x}
  <2>1. \A z \in S : z < x => z < y
    BY <1>1
  <2>2. QED
    BY <2>1, Zenon
<1>3. x \in T /\ T \in SUBSET (0..n)
  OBVIOUS
<1>4. Rank(T, x) < Cardinality(T)
  BY <1>3, RankIs
<1>5. QED
  BY <1>2, <1>4 DEF Rank

\* The next smaller one has the next smaller rank.
LEMMA RankSteps ==
    ASSUME NEW n \in Nat, NEW S \in SUBSET (0..n), NEW x \in S, Rank(S, x) > 0
    PROVE  \E y \in S : y < x /\ Rank(S, x) = Rank(S, y) + 1
<1> DEFINE T == {y \in S : y < x}
<1>1. T \in SUBSET (0..n)
  OBVIOUS
<1>2. T # {}
  <2>1. Cardinality(T) # 0
    BY DEF Rank
  <2>2. QED
    BY <2>1, FS_EmptySet
<1>3. PICK m \in T : Cardinality(T) = Rank(T, m) + 1
  BY <1>1, <1>2, WithoutGreatest
<1>4. \A z \in S : z \in Int
  BY UpTo
<1>5. m \in S /\ m < x
  BY <1>3
<1>6. {y \in T : y < m} = {y \in S : y < m}
  <2>1. \A y \in S : y < m => y < x
    BY <1>4, <1>5
  <2>2. QED
    BY <2>1, Zenon
<1>7. QED
  BY <1>3, <1>5, <1>6 DEF Rank

\* The k-th is the one that k - 1 others precede.
LEMMA NthIs ==
    ASSUME NEW n \in Nat, NEW S \in SUBSET (0..n), NEW k \in 1..Cardinality(S)
    PROVE  Nth(S, k) \in S /\ Rank(S, Nth(S, k)) = k - 1
<1> DEFINE T == {x \in S : Rank(S, x) >= k - 1}
<1>1. Cardinality(S) \in Nat /\ \A x \in S : Rank(S, x) \in Nat /\ x \in Int
  BY UpTo, RankIs
<1>2. T # {}
  <2>1. S # {}
    BY <1>1, FS_EmptySet
  <2>2. PICK m \in S : Cardinality(S) = Rank(S, m) + 1
    BY <2>1, WithoutGreatest
  <2>3. QED
    BY <1>1, <2>2
<1>3. PICK x \in T : \A y \in T : x <= y
  <2>1. T \in SUBSET Nat
    BY UpTo
  <2>2. QED
    BY <1>2, <2>1, LeastIs
<1>4. Rank(S, x) = k - 1
  <2>1. ASSUME Rank(S, x) > k - 1 PROVE FALSE
    <3>1. Rank(S, x) > 0
      BY <1>1, <1>3, <2>1
    <3>2. PICK y \in S : y < x /\ Rank(S, x) = Rank(S, y) + 1
      BY <1>3, <3>1, RankSteps
    <3>3. y \in T
      BY <1>1, <1>3, <2>1, <3>2
    <3>4. QED
      BY <1>1, <1>3, <3>2, <3>3
  <2>2. QED
    BY <1>1, <1>3, <2>1
<1>5. QED
  BY <1>3, <1>4 DEF Nth, Rank

LEMMA NthGrows ==
    ASSUME NEW n \in Nat, NEW S \in SUBSET (0..n),
           NEW j \in 1..Cardinality(S), NEW k \in 1..Cardinality(S), j < k
    PROVE  Nth(S, j) < Nth(S, k)
<1>1. /\ Nth(S, j) \in S /\ Rank(S, Nth(S, j)) = j - 1
      /\ Nth(S, k) \in S /\ Rank(S, Nth(S, k)) = k - 1
  BY NthIs
<1>2. Cardinality(S) \in Nat /\ Nth(S, j) \in Int /\ Nth(S, k) \in Int
  BY <1>1, UpTo
<1>3. ASSUME Nth(S, k) < Nth(S, j) PROVE FALSE
  <2>1. k - 1 < j - 1
    BY <1>1, <1>3, RankGrows
  <2>2. QED
    BY <1>2, <2>1
<1>4. Nth(S, k) # Nth(S, j)
  BY <1>1, <1>2
<1>5. QED
  BY <1>2, <1>3, <1>4

LEMMA NthReaches ==
    ASSUME NEW n \in Nat, NEW S \in SUBSET (0..n), NEW x \in S
    PROVE  \E k \in 1..Cardinality(S) : x = Nth(S, k)
<1> DEFINE k == Rank(S, x) + 1
<1>1. Rank(S, x) \in Nat /\ Rank(S, x) < Cardinality(S) /\ Cardinality(S) \in Nat
  BY RankIs, UpTo
<1>2. k \in 1..Cardinality(S) /\ k - 1 = Rank(S, x)
  BY <1>1
<1>3. Nth(S, k) \in S /\ Rank(S, Nth(S, k)) = Rank(S, x)
  <2> HIDE DEF k
  <2>1. Nth(S, k) \in S /\ Rank(S, Nth(S, k)) = k - 1
    BY <1>2, NthIs
  <2>2. QED
    BY <1>2, <2>1
<1> HIDE DEF k
<1>4. x \in Int /\ Nth(S, k) \in Int
  BY <1>3, UpTo
<1>5. ~(x < Nth(S, k))
  <2>1. ASSUME x < Nth(S, k) PROVE FALSE
    <3>1. Rank(S, x) < Rank(S, Nth(S, k))
      BY <1>3, <2>1, RankGrows
    <3>2. QED
      BY <1>1, <1>3, <3>1
  <2>2. QED
    BY <2>1
<1>6. ~(Nth(S, k) < x)
  <2>1. ASSUME Nth(S, k) < x PROVE FALSE
    <3>1. Rank(S, Nth(S, k)) < Rank(S, x)
      BY <1>3, <2>1, RankGrows
    <3>2. QED
      BY <1>1, <1>3, <3>1
  <2>2. QED
    BY <2>1
<1>7. QED
  BY <1>2, <1>4, <1>5, <1>6

-----------------------------------------------------------------------------
(***************************************************************************)
(* The numbers of the lines of both files                                  *)
(***************************************************************************)
Upto(S, n) == Cardinality({i \in 1..n : i \in S})

LEMMA UptoIs ==
    ASSUME NEW S
    PROVE  /\ Upto(S, 0) = 0
           /\ \A n \in Nat : IsFiniteSet({i \in 1..n : i \in S}) /\ Upto(S, n) \in Nat
<1>1. {i \in 1..0 : i \in S} = {}
  OBVIOUS
<1>2. ASSUME NEW n \in Nat
      PROVE  IsFiniteSet({i \in 1..n : i \in S}) /\ Upto(S, n) \in Nat
  <2>1. IsFiniteSet(1..n)
    BY FS_Interval
  <2>2. IsFiniteSet({i \in 1..n : i \in S})
    BY <2>1, {i \in 1..n : i \in S} \in SUBSET (1..n), FS_Subset
  <2>3. QED
    BY <2>2, FS_CardinalityType DEF Upto
<1>3. QED
  BY <1>1, <1>2, FS_EmptySet DEF Upto

LEMMA UptoNext ==
    ASSUME NEW S, NEW n \in Nat
    PROVE  Upto(S, n + 1) = IF n + 1 \in S THEN Upto(S, n) + 1 ELSE Upto(S, n)
<1> DEFINE T == {i \in 1..n : i \in S}
           U == {i \in 1..(n + 1) : i \in S}
<1>1. IsFiniteSet(T)
  BY UptoIs
<1>2. 1..(n + 1) = (1..n) \cup {n + 1} /\ n + 1 \notin 1..n
  OBVIOUS
<1>3. CASE n + 1 \in S
  <2>1. U = T \cup {n + 1} /\ n + 1 \notin T
    BY <1>2, <1>3, Zenon
  <2>2. Cardinality(U) = Cardinality(T) + 1
    BY <1>1, <2>1, FS_AddElement
  <2>3. QED
    BY <1>3, <2>2 DEF Upto
<1>4. CASE n + 1 \notin S
  <2>1. U = T
    BY <1>2, <1>4, Zenon
  <2>2. QED
    BY <1>4, <2>1, Zenon DEF Upto
<1>5. QED
  BY <1>3, <1>4

LEMMA UptoGrows ==
    ASSUME NEW S, NEW m \in Nat, NEW n \in Nat, m <= n
    PROVE  Upto(S, m) <= Upto(S, n)
<1> DEFINE T == {i \in 1..m : i \in S}
           U == {i \in 1..n : i \in S}
<1>1. IsFiniteSet(U)
  BY UptoIs
<1>2. T \in SUBSET U
  OBVIOUS
<1>3. Cardinality(T) <= Cardinality(U)
  BY <1>1, <1>2, FS_Subset
<1>4. QED
  BY <1>3 DEF Upto

LEMMA UptoCounts ==
    ASSUME NEW S, NEW m \in Nat, NEW n \in Nat, NEW k \in (m + 1)..n, k \in S
    PROVE  Upto(S, m) < Upto(S, n)
<1>1. k - 1 \in Nat /\ m <= k - 1 /\ k <= n /\ k = (k - 1) + 1 /\ k \in Nat
  OBVIOUS
<1>2. Upto(S, m) <= Upto(S, k - 1) /\ Upto(S, k) <= Upto(S, n)
  BY <1>1, UptoGrows
<1>3. Upto(S, k) = Upto(S, k - 1) + 1
  <2>1. Upto(S, (k - 1) + 1) = Upto(S, k - 1) + 1
    BY <1>1, UptoNext
  <2>2. QED
    BY <1>1, <2>1
<1>4. Upto(S, m) \in Nat /\ Upto(S, k - 1) \in Nat /\ Upto(S, n) \in Nat
  BY <1>1, UptoIs
<1>5. QED
  BY <1>2, <1>3, <1>4

BaseSide == {i \in Nat : InBase(i)}
HeadSide == {i \in Nat : InHead(i)}

LEMMA LinesAre ==
    ASSUME NEW n \in Nat
    PROVE  BaseLines(n) = Upto(BaseSide, n) /\ HeadLines(n) = Upto(HeadSide, n)
<1>1. \A i \in 1..n : i \in Nat
  OBVIOUS
<1>2. {i \in 1..n : InBase(i)} = {i \in 1..n : i \in BaseSide}
  BY <1>1, Zenon DEF BaseSide
<1>3. {i \in 1..n : InHead(i)} = {i \in 1..n : i \in HeadSide}
  BY <1>1, Zenon DEF HeadSide
<1>4. QED
  BY <1>2, <1>3, Zenon DEF BaseLines, HeadLines, Upto

LEMMA LinesCount ==
    /\ BaseLines(0) = 0 /\ HeadLines(0) = 0
    /\ \A n \in Nat : BaseLines(n) \in Nat /\ HeadLines(n) \in Nat
    /\ \A i \in Nat \ {0} :
         /\ BaseLines(i) = IF InBase(i) THEN BaseLines(i - 1) + 1 ELSE BaseLines(i - 1)
         /\ HeadLines(i) = IF InHead(i) THEN HeadLines(i - 1) + 1 ELSE HeadLines(i - 1)
<1>1. BaseLines(0) = 0 /\ HeadLines(0) = 0
  BY LinesAre, UptoIs
<1>2. \A n \in Nat : BaseLines(n) \in Nat /\ HeadLines(n) \in Nat
  BY LinesAre, UptoIs
<1>3. ASSUME NEW i \in Nat \ {0}
      PROVE  /\ BaseLines(i) = IF InBase(i) THEN BaseLines(i - 1) + 1 ELSE BaseLines(i - 1)
             /\ HeadLines(i) = IF InHead(i) THEN HeadLines(i - 1) + 1 ELSE HeadLines(i - 1)
  <2>1. PICK n \in Nat : n = i - 1 /\ i = n + 1
    OBVIOUS
  <2>2. /\ BaseLines(i) = Upto(BaseSide, n + 1) /\ BaseLines(i - 1) = Upto(BaseSide, n)
        /\ HeadLines(i) = Upto(HeadSide, n + 1) /\ HeadLines(i - 1) = Upto(HeadSide, n)
    BY <2>1, LinesAre
  <2>3. (InBase(i) <=> n + 1 \in BaseSide) /\ (InHead(i) <=> n + 1 \in HeadSide)
    BY <2>1 DEF BaseSide, HeadSide
  <2>4. QED
    BY <2>2, <2>3, UptoNext
<1>4. QED
  BY <1>1, <1>2, <1>3

LEMMA LinesGrow ==
    ASSUME NEW m \in Nat, NEW n \in Nat, m <= n
    PROVE  BaseLines(m) <= BaseLines(n) /\ HeadLines(m) <= HeadLines(n)
  BY LinesAre, UptoGrows

LEMMA LinesDiffer ==
    ASSUME NEW m \in Nat, NEW n \in Nat, NEW k \in (m + 1)..n
    PROVE  /\ InBase(k) => BaseLines(m) < BaseLines(n)
           /\ InHead(k) => HeadLines(m) < HeadLines(n)
<1>1. (InBase(k) => k \in BaseSide) /\ (InHead(k) => k \in HeadSide)
  BY DEF BaseSide, HeadSide
<1>2. QED
  BY <1>1, LinesAre, UptoCounts

\* A line is of one side at least, and outside of a hunk of both.
LEMMA Sides ==
    ASSUME script \in Seq(Cells), NEW i \in DOMAIN script
    PROVE  /\ script[i].op \in {"keep", "add", "del"} /\ script[i].signed \in BOOLEAN
           /\ InBase(i) \/ InHead(i)
           /\ ~InHunk(i) => script[i].op = "keep" /\ InBase(i) /\ InHead(i)
           /\ script[i].op = "keep" <=> InBase(i) /\ InHead(i)
           /\ script[i].base # Nothing => InBase(i)
           /\ script[i].head # Nothing => InHead(i)
           /\ script[i].base \in Coverage \cup {Nothing}
           /\ script[i].head \in Coverage \cup {Nothing}
<1>1. script[i] \in Cells
  OBVIOUS
<1>2. /\ script[i].op \in {"keep", "add", "del"} /\ script[i].signed \in BOOLEAN
      /\ script[i].base \in Coverage \cup {Nothing}
      /\ script[i].head \in Coverage \cup {Nothing}
  BY <1>1, CellsAssumption
<1>3. script[i].base # Nothing => InBase(i)
  BY <1>1, SidesAssumption DEF InBase
<1>4. script[i].head # Nothing => InHead(i)
  BY <1>1, SidesAssumption DEF InHead
<1>5. script[i].op # "keep" => InHunk(i)
  <2>1. i - i \in -Context..Context
    BY BoundsAssumption
  <2>2. QED
    BY <2>1 DEF InHunk
<1>6. QED
  BY <1>2, <1>3, <1>4, <1>5 DEF InBase, InHead

-----------------------------------------------------------------------------
(***************************************************************************)
(* The hunks, in the order of their lines                                  *)
(***************************************************************************)
LEMMA LengthIs ==
    ASSUME script \in Seq(Cells)
    PROVE  Len(script) \in Nat /\ DOMAIN script = 1..Len(script)
  OBVIOUS

LEMMA StartsAre ==
    ASSUME script \in Seq(Cells)
    PROVE  /\ HunkStarts \in SUBSET (0..Len(script)) /\ HunkStarts \in SUBSET (1..Len(script))
           /\ Cardinality(HunkStarts) \in Nat
<1>1. HunkStarts \in SUBSET (1..Len(script))
  BY LengthIs, Zenon DEF HunkStarts
<1>2. HunkStarts \in SUBSET (0..Len(script))
  BY <1>1, LengthIs
<1>3. QED
  BY <1>1, <1>2, LengthIs, UpTo

\* A hunk ends where the lines that are in one end.
LEMMA EndIs ==
    ASSUME script \in Seq(Cells), NEW a \in HunkStarts
    PROVE  /\ HunkEnd(a) \in a..Len(script)
           /\ \A i \in a..HunkEnd(a) : InHunk(i)
           /\ HunkEnd(a) = Len(script) \/ ~InHunk(HunkEnd(a) + 1)
<1> DEFINE n == Len(script)
           Ends == {z \in a..n : z = n \/ ~InHunk(z + 1)}
           e == Min(Ends)
<1>1. n \in Nat /\ a \in 1..n
  BY LengthIs, StartsAre
<1>2. n \in Ends
  BY <1>1
<1>3. Ends \in SUBSET Nat
  BY <1>1
<1>4. e \in Ends /\ \A z \in Ends : e <= z
  BY <1>2, <1>3, LeastIs
<1>5. HunkEnd(a) = e
  BY DEF HunkEnd
<1> HIDE DEF e
<1>6. e \in a..n /\ (e = n \/ ~InHunk(e + 1)) /\ e \in Nat
  BY <1>1, <1>4
<1>7. \A i \in a..e : InHunk(i)
  <2> DEFINE Out == {i \in a..e : ~InHunk(i)}
             f == Min(Out)
  <2>1. ASSUME Out # {} PROVE FALSE
    <3>1. Out \in SUBSET Nat
      BY <1>1
    <3>2. f \in Out /\ \A i \in Out : f <= i
      BY <2>1, <3>1, LeastIs
    <3> HIDE DEF f
    <3>3. f \in a..e /\ ~InHunk(f)
      BY <3>2
    <3>4. f # a
      BY <3>3 DEF HunkStarts
    <3>5. f - 1 \in a..n /\ ~InHunk((f - 1) + 1) /\ ~(e <= f - 1)
      <4>1. f - 1 \in a..n /\ (f - 1) + 1 = f /\ ~(e <= f - 1)
        BY <1>1, <1>6, <3>3, <3>4
      <4>2. QED
        BY <3>3, <4>1
    <3>6. f - 1 \in Ends
      BY <3>5
    <3>7. QED
      BY <1>4, <3>5, <3>6
  <2>2. QED
    BY <2>1
<1>8. QED
  BY <1>5, <1>6, <1>7

\* Whatever is in a hunk is in one of these.
LEMMA HunksCover ==
    ASSUME script \in Seq(Cells), NEW i \in DOMAIN script, InHunk(i)
    PROVE  \E a \in HunkStarts : i \in a..HunkEnd(a)
<1> DEFINE n == Len(script)
           From == {b \in 1..i : \A j \in b..i : InHunk(j)}
           a == Min(From)
<1>1. n \in Nat /\ i \in 1..n
  BY LengthIs
<1>2. i \in From
  <2>1. i \in 1..i /\ \A j \in i..i : j = i
    BY <1>1
  <2>2. QED
    BY <2>1
<1>3. From \in SUBSET Nat
  BY <1>1
<1>4. a \in From /\ \A b \in From : a <= b
  BY <1>2, <1>3, LeastIs
<1> HIDE DEF a
<1>5. a \in 1..i /\ \A j \in a..i : InHunk(j)
  BY <1>4
<1>6. InHunk(a)
  BY <1>1, <1>5
<1>7. a = 1 \/ ~InHunk(a - 1)
  <2>1. ASSUME a # 1, InHunk(a - 1) PROVE FALSE
    <3>1. a - 1 \in 1..i
      BY <1>1, <1>5, <2>1
    <3>2. ASSUME NEW j \in (a - 1)..i PROVE InHunk(j)
      <4>1. j = a - 1 \/ j \in a..i
        BY <1>1, <1>5
      <4>2. QED
        BY <1>5, <2>1, <4>1
    <3>3. a - 1 \in From
      BY <3>1, <3>2
    <3>4. QED
      BY <1>1, <1>4, <1>5, <3>3
  <2>2. QED
    BY <2>1
<1>8. a \in HunkStarts
  <2>1. a \in DOMAIN script
    BY <1>1, <1>5
  <2>2. QED
    BY <1>6, <1>7, <2>1 DEF HunkStarts
<1>9. HunkEnd(a) \in a..n /\ (HunkEnd(a) = n \/ ~InHunk(HunkEnd(a) + 1))
  BY <1>8, EndIs
<1>10. i <= HunkEnd(a)
  <2>1. ASSUME HunkEnd(a) < i PROVE FALSE
    <3>1. HunkEnd(a) + 1 \in a..i /\ HunkEnd(a) # n
      BY <1>1, <1>5, <1>9, <2>1
    <3>2. QED
      BY <1>5, <1>9, <3>1
  <2>2. QED
    BY <1>1, <1>9, <2>1
<1>11. QED
  BY <1>1, <1>5, <1>8, <1>9, <1>10

LEMMA HunksApart ==
    ASSUME script \in Seq(Cells), NEW a \in HunkStarts, NEW b \in HunkStarts, a < b
    PROVE  HunkEnd(a) < b
<1> DEFINE n == Len(script)
<1>1. n \in Nat /\ a \in 1..n /\ b \in 1..n
  BY LengthIs, StartsAre
<1>2. HunkEnd(a) \in a..n /\ \A i \in a..HunkEnd(a) : InHunk(i)
  BY EndIs
<1>3. b # 1 /\ ~InHunk(b - 1)
  BY <1>1 DEF HunkStarts
<1>4. ASSUME b <= HunkEnd(a) PROVE FALSE
  <2>1. b - 1 \in a..HunkEnd(a)
    BY <1>1, <1>2, <1>4
  <2>2. QED
    BY <1>2, <1>3, <2>1
<1>5. QED
  BY <1>1, <1>2, <1>4

\* The k-th hunk
Hunks == Cardinality(HunkStarts)
StartOf(k) == Nth(HunkStarts, k)
EndOf(k) == HunkEnd(StartOf(k))

LEMMA HunksAre ==
    ASSUME script \in Seq(Cells)
    PROVE  /\ Hunks \in Nat
           /\ \A k \in 1..Hunks :
                /\ StartOf(k) \in 1..Len(script) /\ EndOf(k) \in StartOf(k)..Len(script)
                /\ StartOf(k) = 1 \/ ~InHunk(StartOf(k) - 1)
                /\ EndOf(k) = Len(script) \/ ~InHunk(EndOf(k) + 1)
                /\ \A i \in StartOf(k)..EndOf(k) : InHunk(i)
           /\ \A j, k \in 1..Hunks : j < k => EndOf(j) < StartOf(k)
           /\ \A i \in DOMAIN script :
                InHunk(i) => \E k \in 1..Hunks : i \in StartOf(k)..EndOf(k)
<1>1. Hunks \in Nat /\ Len(script) \in Nat /\ HunkStarts \in SUBSET (0..Len(script))
  BY StartsAre, LengthIs DEF Hunks
<1>2. \A k \in 1..Hunks : StartOf(k) \in HunkStarts
  BY <1>1, NthIs DEF Hunks, StartOf
<1>3. ASSUME NEW k \in 1..Hunks
      PROVE  /\ StartOf(k) \in 1..Len(script) /\ EndOf(k) \in StartOf(k)..Len(script)
             /\ StartOf(k) = 1 \/ ~InHunk(StartOf(k) - 1)
             /\ EndOf(k) = Len(script) \/ ~InHunk(EndOf(k) + 1)
             /\ \A i \in StartOf(k)..EndOf(k) : InHunk(i)
  <2>1. StartOf(k) = 1 \/ ~InHunk(StartOf(k) - 1)
    BY <1>2 DEF HunkStarts
  <2>2. StartOf(k) \in 1..Len(script)
    BY <1>2, StartsAre
  <2>3. QED
    BY <1>2, <2>1, <2>2, EndIs DEF EndOf
<1>4. ASSUME NEW j \in 1..Hunks, NEW k \in 1..Hunks, j < k PROVE EndOf(j) < StartOf(k)
  <2>1. StartOf(j) < StartOf(k)
    BY <1>1, <1>4, NthGrows DEF Hunks, StartOf
  <2>2. QED
    BY <1>2, <2>1, HunksApart DEF EndOf
<1>5. ASSUME NEW i \in DOMAIN script, InHunk(i)
      PROVE  \E k \in 1..Hunks : i \in StartOf(k)..EndOf(k)
  <2>1. PICK a \in HunkStarts : i \in a..HunkEnd(a)
    BY <1>5, HunksCover
  <2>2. PICK k \in 1..Hunks : a = StartOf(k)
    BY <1>1, NthReaches DEF Hunks, StartOf
  <2>3. QED
    BY <2>1, <2>2 DEF EndOf
<1>6. QED
  BY <1>1, <1>3, <1>4, <1>5

-----------------------------------------------------------------------------
(***************************************************************************)
(* Where the walk is                                                       *)
(*                                                                         *)
(* After v lines the counters are at the next line of either side; a file  *)
(* without any line counts from 0 (FirstBase, FirstHead).  The first c of  *)
(* the hunks are behind, the others are in segments, the first of them     *)
(* without the lines already popped.                                       *)
(***************************************************************************)
FirstBase == IF Len(script) > 0 /\ BaseLines(Len(script)) = 0 THEN 0 ELSE 1
FirstHead == IF Len(script) > 0 /\ HeadLines(Len(script)) = 0 THEN 0 ELSE 1

Begins(k, v) == IF v < StartOf(k) THEN StartOf(k) ELSE v + 1

Rest(k, v) ==
    [header |-> Hunk(StartOf(k), EndOf(k)).header,
     lines |-> [i \in 1..(EndOf(k) - Begins(k, v) + 1) |-> Begins(k, v) + i - 1]]

Behind(c, v) ==
    /\ \A k \in 1..c : EndOf(k) <= v
    /\ \A k \in (c + 1)..Hunks : v < EndOf(k)

At(v, c) ==
    /\ visits = [k \in 1..v |-> Told(k)]
    /\ base_ln = BaseLines(v) + FirstBase
    /\ head_ln = HeadLines(v) + FirstHead
    /\ Behind(c, v)
    /\ segments = [j \in 1..(Hunks - c) |-> Rest(c + j, v)]

WalkInv ==
    /\ script \in Seq(Cells) /\ with_src \in BOOLEAN
    /\ phase \in {"edit", "apply", "done"}
    /\ phase = "edit" => visits = <<>> /\ base_ln = 1 /\ head_ln = 1
    /\ phase # "edit" => \E v \in 0..Len(script), c \in 0..Hunks : At(v, c)
    /\ phase = "done" => traverse_finished

LEMMA MinOfOne ==
    ASSUME NEW n \in Nat
    PROVE  Min({n, 1}) = IF n = 0 THEN 0 ELSE 1
<1>1. Min({n, 1}) \in {n, 1} /\ \A y \in {n, 1} : Min({n, 1}) <= y
  BY LeastIs
<1>2. QED
  BY <1>1

\* Within is true of the numbers of the lines of a hunk.
LEMMA WithinIs ==
    ASSUME NEW x \in Nat, NEW y \in Nat, x <= y, NEW ln \in Nat
    PROVE  Within(ln, x + Min({y - x, 1}), Count(y - x)) <=> x + 1 <= ln /\ ln <= y
<1>1. y - x \in Nat
  OBVIOUS
<1>2. Min({y - x, 1}) = IF y - x = 0 THEN 0 ELSE 1
  BY <1>1, MinOfOne
<1>3. CASE y - x = 1
  BY <1>2, <1>3 DEF Within, Count, Omitted
<1>4. CASE y - x # 1
  <2>1. Count(y - x) = y - x /\ Count(y - x) # Omitted
    BY <1>1, <1>4 DEF Count, Omitted
  <2>2. QED
    BY <1>2, <1>4, <2>1 DEF Within
<1>5. QED
  BY <1>3, <1>4

\* The header of the k-th hunk, read by traversing_diff
LEMMA HeaderIs ==
    ASSUME script \in Seq(Cells), NEW k \in 1..Hunks, NEW ln \in Nat
    PROVE  LET h == Hunk(StartOf(k), EndOf(k)).header IN
           /\ Within(ln, h[1], h[2])
                <=> BaseLines(StartOf(k) - 1) + 1 <= ln /\ ln <= BaseLines(EndOf(k))
           /\ Within(ln, h[3], h[4])
                <=> HeadLines(StartOf(k) - 1) + 1 <= ln /\ ln <= HeadLines(EndOf(k))
<1> DEFINE a == StartOf(k)
           z == EndOf(k)
<1>1. a \in 1..Len(script) /\ z \in a..Len(script) /\ Len(script) \in Nat
  BY HunksAre, LengthIs
<1>2. a - 1 \in Nat /\ z \in Nat /\ a - 1 <= z
  BY <1>1
<1> HIDE DEF a, z
<1>3. /\ BaseLines(a - 1) \in Nat /\ BaseLines(z) \in Nat /\ BaseLines(a - 1) <= BaseLines(z)
      /\ HeadLines(a - 1) \in Nat /\ HeadLines(z) \in Nat /\ HeadLines(a - 1) <= HeadLines(z)
  BY <1>2, LinesCount, LinesGrow
<1> DEFINE h == Hunk(a, z).header
<1>4. /\ h[1] = BaseLines(a - 1) + Min({BaseLines(z) - BaseLines(a - 1), 1})
      /\ h[2] = Count(BaseLines(z) - BaseLines(a - 1))
      /\ h[3] = HeadLines(a - 1) + Min({HeadLines(z) - HeadLines(a - 1), 1})
      /\ h[4] = Count(HeadLines(z) - HeadLines(a - 1))
  BY DEF Hunk
<1> HIDE DEF h
<1>5. Within(ln, h[1], h[2]) <=> BaseLines(a - 1) + 1 <= ln /\ ln <= BaseLines(z)
  BY <1>3, <1>4, WithinIs
<1>6. Within(ln, h[3], h[4]) <=> HeadLines(a - 1) + 1 <= ln /\ ln <= HeadLines(z)
  BY <1>3, <1>4, WithinIs
<1>7. QED
  BY <1>5, <1>6, Zenon DEF a, z, h

\* Between the hunks no line is in one.
LEMMA InNext ==
    ASSUME script \in Seq(Cells), NEW v \in 0..Len(script), NEW c \in 0..Hunks,
           Behind(c, v), v < Len(script)
    PROVE  /\ InHunk(v + 1) <=> c < Hunks /\ StartOf(c + 1) <= v + 1
           /\ v + 1 \in DOMAIN script
<1>1. Len(script) \in Nat /\ v + 1 \in 1..Len(script) /\ DOMAIN script = 1..Len(script)
  BY LengthIs
<1>2. Hunks \in Nat /\ c \in Nat /\ v \in Nat
  BY HunksAre, LengthIs
<1>3. ASSUME c < Hunks, StartOf(c + 1) <= v + 1 PROVE InHunk(v + 1)
  <2>1. c + 1 \in 1..Hunks /\ c + 1 \in (c + 1)..Hunks
    BY <1>2, <1>3
  <2>2. StartOf(c + 1) \in 1..Len(script) /\ EndOf(c + 1) \in StartOf(c + 1)..Len(script)
    BY <2>1, HunksAre
  <2>3. v < EndOf(c + 1)
    BY <2>1 DEF Behind
  <2>4. v + 1 \in StartOf(c + 1)..EndOf(c + 1)
    BY <1>2, <1>3, <2>2, <2>3
  <2>5. QED
    BY <2>1, <2>4, HunksAre
<1>4. ASSUME InHunk(v + 1) PROVE c < Hunks /\ StartOf(c + 1) <= v + 1
  <2>1. PICK k \in 1..Hunks : v + 1 \in StartOf(k)..EndOf(k)
    BY <1>1, <1>4, HunksAre
  <2>2. StartOf(k) \in Int /\ EndOf(k) \in Int
    BY HunksAre
  <2>3. ~(k \in 1..c)
    BY <1>2, <2>1, <2>2 DEF Behind
  <2>4. c < k /\ c + 1 \in 1..Hunks
    BY <1>2, <2>3
  <2>5. StartOf(c + 1) \in Int /\ EndOf(c + 1) \in StartOf(c + 1)..Len(script)
    BY <2>4, HunksAre
  <2>6. k = c + 1 \/ EndOf(c + 1) < StartOf(k)
    BY <1>2, <2>4, HunksAre
  <2>7. QED
    BY <1>1, <1>2, <2>1, <2>2, <2>4, <2>5, <2>6
<1>5. QED
  BY <1>1, <1>3, <1>4

LEMMA FirstAre ==
    /\ FirstBase \in {0, 1} /\ FirstHead \in {0, 1}
    /\ script \in Seq(Cells) =>
         /\ BaseLines(Len(script)) > 0 => FirstBase = 1
         /\ HeadLines(Len(script)) > 0 => FirstHead = 1
<1>1. script \in Seq(Cells) =>
        BaseLines(Len(script)) \in Nat /\ HeadLines(Len(script)) \in Nat
  BY LengthIs, LinesCount
<1>2. QED
  BY <1>1 DEF FirstBase, FirstHead

\* The numbers of the next line, as far as a side has it
LEMMA NextNumbers ==
    ASSUME script \in Seq(Cells), NEW v \in 0..Len(script), v < Len(script)
    PROVE  /\ BaseLines(v) \in Nat /\ HeadLines(v) \in Nat
           /\ InBase(v + 1) => FirstBase = 1 /\ BaseLines(v + 1) = BaseLines(v) + 1
           /\ ~InBase(v + 1) => BaseLines(v + 1) = BaseLines(v)
           /\ InHead(v + 1) => FirstHead = 1 /\ HeadLines(v + 1) = HeadLines(v) + 1
           /\ ~InHead(v + 1) => HeadLines(v + 1) = HeadLines(v)
<1>1. Len(script) \in Nat /\ v \in Nat /\ v + 1 \in Nat \ {0} /\ (v + 1) - 1 = v
  BY LengthIs
<1>2. v + 1 \in (0 + 1)..Len(script) /\ 0 \in Nat
  BY <1>1
<1>3. BaseLines(0) = 0 /\ HeadLines(0) = 0
  BY LinesCount
<1>4. InBase(v + 1) => BaseLines(0) < BaseLines(Len(script))
  BY <1>1, <1>2, LinesDiffer
<1>5. InHead(v + 1) => HeadLines(0) < HeadLines(Len(script))
  BY <1>1, <1>2, LinesDiffer
<1>6. /\ InBase(v + 1) => FirstBase = 1
      /\ InHead(v + 1) => FirstHead = 1
  BY <1>3, <1>4, <1>5, FirstAre
<1>7. BaseLines(v) \in Nat /\ HeadLines(v) \in Nat
  BY <1>1, LinesCount
<1>8. /\ BaseLines(v + 1) = IF InBase(v + 1) THEN BaseLines((v + 1) - 1) + 1
                                              ELSE BaseLines((v + 1) - 1)
      /\ HeadLines(v + 1) = IF InHead(v + 1) THEN HeadLines((v + 1) - 1) + 1
                                              ELSE HeadLines((v + 1) - 1)
  BY <1>1, LinesCount
<1>9. QED
  BY <1>1, <1>6, <1>7, <1>8

-----------------------------------------------------------------------------
(***************************************************************************)
(* What is read where the walk is                                          *)
(***************************************************************************)
LEMMA SegmentsAre ==
    ASSUME script \in Seq(Cells), NEW v \in 0..Len(script), NEW c \in 0..Hunks, At(v, c)
    PROVE  /\ segments \in Seq({Rest(c + j, v) : j \in 1..(Hunks - c)})
           /\ Len(segments) = Hunks - c
           /\ segments = <<>> <=> c = Hunks
           /\ c < Hunks => segments[1] = Rest(c + 1, v)
<1>1. Hunks \in Nat /\ c \in Nat /\ c <= Hunks /\ Hunks - c \in Nat
  BY HunksAre
<1>2. segments = [j \in 1..(Hunks - c) |-> Rest(c + j, v)]
  BY DEF At
<1>3. segments \in Seq({Rest(c + j, v) : j \in 1..(Hunks - c)}) /\ Len(segments) = Hunks - c
  <2> DEFINE n == Hunks - c
             R == {Rest(c + j, v) : j \in 1..n}
  <2>1. segments \in [1..n -> R]
    BY <1>2
  <2> HIDE DEF R, n
  <2>2. n \in Nat
    BY <1>1 DEF n
  <2>3. segments \in Seq(R) /\ Len(segments) = n
    BY <2>1, <2>2
  <2>4. QED
    BY <2>3 DEF R, n
<1>4. segments = <<>> <=> Len(segments) = 0
  BY <1>3
<1>5. QED
  BY <1>1, <1>2, <1>3, <1>4

\* The walk is in a hunk exactly when the next line is in one.
LEMMA TraversingIs ==
    ASSUME script \in Seq(Cells), NEW v \in 0..Len(script), NEW c \in 0..Hunks, At(v, c)
    PROVE  traversing_diff <=> v < Len(script) /\ InHunk(v + 1)
<1>1. Hunks \in Nat /\ c \in Nat /\ c <= Hunks /\ Len(script) \in Nat /\ v \in Nat
  BY HunksAre, LengthIs
<1>2. CASE c = Hunks
  <2>1. segments = <<>>
    BY <1>2, SegmentsAre
  <2>2. v < Len(script) => ~InHunk(v + 1)
    BY <1>1, <1>2, InNext DEF At
  <2>3. QED
    BY <2>1, <2>2 DEF traversing_diff
<1>3. CASE c < Hunks
  <2> DEFINE k == c + 1
             a == StartOf(k)
             z == EndOf(k)
             h == Hunk(a, z).header
  <2>1. k \in 1..Hunks /\ k \in (c + 1)..Hunks
    BY <1>1, <1>3
  <2>2. a \in 1..Len(script) /\ z \in a..Len(script) /\ v < z /\ v < Len(script)
    <3>1. a \in 1..Len(script) /\ z \in a..Len(script)
      BY <2>1, HunksAre
    <3>2. v < z
      BY <2>1 DEF At, Behind
    <3>3. QED
      BY <1>1, <3>1, <3>2
  <2>3. /\ InHunk(v + 1) <=> a <= v + 1
        /\ v + 1 \in DOMAIN script
    BY <1>1, <1>3, <2>2, InNext DEF At
  <2>4. segments # <<>> /\ segments[1].header = h
    <3>1. segments # <<>> /\ segments[1] = Rest(k, v)
      <4>1. c # Hunks
        BY <1>1, <1>3
      <4>2. QED
        BY <1>3, <4>1, SegmentsAre
    <3>2. Rest(k, v).header = h
      BY DEF Rest
    <3>3. QED
      BY <3>1, <3>2
  <2>5. base_ln = BaseLines(v) + FirstBase /\ head_ln = HeadLines(v) + FirstHead
    BY DEF At
  <2>6. BaseLines(v) \in Nat /\ HeadLines(v) \in Nat /\ FirstBase \in {0, 1} /\ FirstHead \in {0, 1}
    BY <1>1, LinesCount, FirstAre
  <2>7. base_ln \in Nat /\ head_ln \in Nat
    BY <2>5, <2>6
  <2>8. /\ Within(base_ln, h[1], h[2])
             <=> BaseLines(a - 1) + 1 <= base_ln /\ base_ln <= BaseLines(z)
        /\ Within(head_ln, h[3], h[4])
             <=> HeadLines(a - 1) + 1 <= head_ln /\ head_ln <= HeadLines(z)
    BY <2>1, <2>7, HeaderIs
  <2>9. traversing_diff <=> \/ Within(base_ln, h[1], h[2])
                            \/ Within(head_ln, h[3], h[4])
    BY <2>4 DEF traversing_diff
  <2> HIDE DEF k, a, z, h
  <2>10. a - 1 \in Nat /\ z \in Nat /\ a - 1 <= z
    BY <1>1, <2>2
  <2>11. /\ BaseLines(a - 1) \in Nat /\ BaseLines(z) \in Nat
         /\ HeadLines(a - 1) \in Nat /\ HeadLines(z) \in Nat
    BY <2>10, LinesCount
  <2>12. CASE a <= v + 1
    <3>1. a - 1 <= v /\ v + 1 \in (v + 1)..z
      BY <1>1, <2>2, <2>12
    <3>2. BaseLines(a - 1) <= BaseLines(v) /\ HeadLines(a - 1) <= HeadLines(v)
      BY <1>1, <2>10, <3>1, LinesGrow
    <3>3. /\ InBase(v + 1) => BaseLines(v) < BaseLines(z)
          /\ InHead(v + 1) => HeadLines(v) < HeadLines(z)
      BY <1>1, <2>10, <3>1, LinesDiffer
    <3>4. InBase(v + 1) \/ InHead(v + 1)
      BY <2>3, Sides
    <3>5. (InBase(v + 1) => FirstBase = 1) /\ (InHead(v + 1) => FirstHead = 1)
      BY <2>2, NextNumbers
    <3>6. CASE InBase(v + 1)
      <4>1. BaseLines(a - 1) + 1 <= base_ln /\ base_ln <= BaseLines(z)
        BY <2>5, <2>6, <2>11, <3>2, <3>3, <3>5, <3>6
      <4>2. QED
        BY <2>2, <2>3, <2>8, <2>9, <2>12, <4>1
    <3>7. CASE InHead(v + 1)
      <4>1. HeadLines(a - 1) + 1 <= head_ln /\ head_ln <= HeadLines(z)
        BY <2>5, <2>6, <2>11, <3>2, <3>3, <3>5, <3>7
      <4>2. QED
        BY <2>2, <2>3, <2>8, <2>9, <2>12, <4>1
    <3>8. QED
      BY <3>4, <3>6, <3>7
  <2>13. CASE ~(a <= v + 1)
    <3>1. ~InHunk(v + 1)
      BY <2>3, <2>13
    <3>2. InBase(v + 1) /\ InHead(v + 1)
      BY <2>3, <3>1, Sides
    <3>3. v + 1 \in (v + 1)..(a - 1)
      BY <1>1, <2>2, <2>10, <2>13
    <3>4. BaseLines(v) < BaseLines(a - 1) /\ HeadLines(v) < HeadLines(a - 1)
      BY <1>1, <2>10, <3>2, <3>3, LinesDiffer
    <3>5. ~(BaseLines(a - 1) + 1 <= base_ln) /\ ~(HeadLines(a - 1) + 1 <= head_ln)
      BY <2>5, <2>6, <2>11, <3>4
    <3>6. QED
      BY <2>8, <2>9, <3>1, <3>5
  <2>14. QED
    BY <2>12, <2>13
<1>4. QED
  BY <1>1, <1>2, <1>3

\* A report ends where its file does, or before.
LEMMA EofIs ==
    ASSUME script \in Seq(Cells)
    PROVE  /\ base_file_eof \in Nat /\ base_file_eof <= BaseLines(Len(script)) + FirstBase
           /\ head_file_eof \in Nat /\ head_file_eof <= HeadLines(Len(script)) + FirstHead
           /\ \A i \in DOMAIN script :
                /\ script[i].base # Nothing => BaseLines(i) < base_file_eof
                /\ script[i].head # Nothing => HeadLines(i) < head_file_eof
<1> DEFINE n == Len(script)
           B == {BaseLines(i) : i \in {j \in DOMAIN script : script[j].base # Nothing}}
           H == {HeadLines(i) : i \in {j \in DOMAIN script : script[j].head # Nothing}}
<1>1. n \in Nat /\ DOMAIN script = 1..n
  BY LengthIs
<1>2. BaseLines(n) \in Nat /\ HeadLines(n) \in Nat
  BY <1>1, LinesCount
<1>3. \A i \in 1..n : /\ BaseLines(i) \in 0..BaseLines(n)
                      /\ HeadLines(i) \in 0..HeadLines(n)
  <2>1. ASSUME NEW i \in 1..n
        PROVE  BaseLines(i) \in 0..BaseLines(n) /\ HeadLines(i) \in 0..HeadLines(n)
    <3>1. i \in Nat /\ i <= n
      BY <1>1
    <3>2. BaseLines(i) \in Nat /\ HeadLines(i) \in Nat
      BY <3>1, LinesCount
    <3>3. BaseLines(i) <= BaseLines(n) /\ HeadLines(i) <= HeadLines(n)
      BY <1>1, <3>1, LinesGrow
    <3>4. QED
      BY <1>2, <3>2, <3>3
  <2>2. QED
    BY <2>1
<1>4. B \in SUBSET (0..BaseLines(n)) /\ H \in SUBSET (0..HeadLines(n))
  BY <1>1, <1>3, Zenon
<1>5. B # {} => BaseLines(n) > 0 /\ FirstBase = 1
  <2>1. ASSUME NEW i \in 1..n, script[i].base # Nothing PROVE BaseLines(n) > 0
    <3>1. InBase(i)
      BY <1>1, <2>1, Sides
    <3>2. i \in (0 + 1)..n
      BY <1>1
    <3>3. BaseLines(0) < BaseLines(n)
      BY <1>1, <3>1, <3>2, LinesDiffer
    <3>4. QED
      BY <1>2, <3>3, LinesCount
  <2>2. QED
    BY <1>1, <2>1, FirstAre
<1>6. H # {} => HeadLines(n) > 0 /\ FirstHead = 1
  <2>1. ASSUME NEW i \in 1..n, script[i].head # Nothing PROVE HeadLines(n) > 0
    <3>1. InHead(i)
      BY <1>1, <2>1, Sides
    <3>2. i \in (0 + 1)..n
      BY <1>1
    <3>3. HeadLines(0) < HeadLines(n)
      BY <1>1, <3>1, <3>2, LinesDiffer
    <3>4. QED
      BY <1>2, <3>3, LinesCount
  <2>2. QED
    BY <1>1, <2>1, FirstAre
<1>7. base_file_eof = IF B = {} THEN 0 ELSE Max(B) + 1
  BY DEF base_file_eof
<1>8. head_file_eof = IF H = {} THEN 0 ELSE Max(H) + 1
  BY DEF head_file_eof
<1>9. B # {} => Max(B) \in 0..BaseLines(n) /\ \A y \in B : Max(B) >= y
  BY <1>2, <1>4, GreatestIs
<1>10. H # {} => Max(H) \in 0..HeadLines(n) /\ \A y \in H : Max(H) >= y
  BY <1>2, <1>4, GreatestIs
<1>11. \A i \in DOMAIN script :
         /\ script[i].base # Nothing => BaseLines(i) \in B
         /\ script[i].head # Nothing => HeadLines(i) \in H
  OBVIOUS
<1> HIDE DEF B, H
<1>12. FirstBase \in {0, 1} /\ FirstHead \in {0, 1}
  BY FirstAre
<1>13. base_file_eof \in Nat /\ base_file_eof <= BaseLines(n) + FirstBase
  BY <1>2, <1>5, <1>7, <1>9, <1>12
<1>14. head_file_eof \in Nat /\ head_file_eof <= HeadLines(n) + FirstHead
  BY <1>2, <1>6, <1>8, <1>10, <1>12
<1>15. ASSUME NEW i \in DOMAIN script
       PROVE  /\ script[i].base # Nothing => BaseLines(i) < base_file_eof
              /\ script[i].head # Nothing => HeadLines(i) < head_file_eof
  <2>1. BaseLines(i) \in Int /\ HeadLines(i) \in Int
    BY <1>1, <1>3
  <2>2. ASSUME script[i].base # Nothing PROVE BaseLines(i) < base_file_eof
    <3>1. BaseLines(i) \in B
      BY <1>11, <2>2
    <3>2. B # {} /\ Max(B) >= BaseLines(i) /\ Max(B) \in Int
      BY <1>9, <3>1
    <3>3. QED
      BY <1>7, <2>1, <3>2
  <2>3. ASSUME script[i].head # Nothing PROVE HeadLines(i) < head_file_eof
    <3>1. HeadLines(i) \in H
      BY <1>11, <2>3
    <3>2. H # {} /\ Max(H) >= HeadLines(i) /\ Max(H) \in Int
      BY <1>10, <3>1
    <3>3. QED
      BY <1>8, <2>1, <3>2
  <2>4. QED
    BY <2>2, <2>3
<1>16. QED
  BY <1>13, <1>14, <1>15

-----------------------------------------------------------------------------
(***************************************************************************)
(* What depends on the script only, it and the request alike               *)
(***************************************************************************)
LEMMA SameLines ==
    ASSUME script' = script
    PROVE  /\ \A i : (InBase(i)' <=> InBase(i)) /\ (InHead(i)' <=> InHead(i))
           /\ \A i : InHunk(i)' <=> InHunk(i)
           /\ \A n : BaseLines(n)' = BaseLines(n) /\ HeadLines(n)' = HeadLines(n)
           /\ FirstBase' = FirstBase /\ FirstHead' = FirstHead
<1>1. \A i : (InBase(i)' <=> InBase(i)) /\ (InHead(i)' <=> InHead(i))
  BY DEF InBase, InHead
<1>2. \A i : InHunk(i)' <=> InHunk(i)
  BY DEF InHunk
<1>3. ASSUME NEW n
      PROVE  BaseLines(n)' = BaseLines(n) /\ HeadLines(n)' = HeadLines(n)
  <2>1. {i \in 1..n : InBase(i)'} = {i \in 1..n : InBase(i)}
    BY <1>1, Zenon
  <2>2. {i \in 1..n : InHead(i)'} = {i \in 1..n : InHead(i)}
    BY <1>1, Zenon
  <2>3. QED
    BY <2>1, <2>2, Zenon DEF BaseLines, HeadLines
<1>4. FirstBase' = FirstBase /\ FirstHead' = FirstHead
  BY <1>3 DEF FirstBase, FirstHead
<1>5. QED
  BY <1>1, <1>2, <1>3, <1>4

LEMMA SameHunks ==
    ASSUME script' = script
    PROVE  /\ Hunks' = Hunks
           /\ \A k : StartOf(k)' = StartOf(k) /\ EndOf(k)' = EndOf(k)
           /\ \A k, v : Begins(k, v)' = Begins(k, v) /\ Rest(k, v)' = Rest(k, v)
           /\ \A c, v : Behind(c, v)' <=> Behind(c, v)
<1>1. HunkStarts' = HunkStarts
  <2>1. \A i : (InHunk(i) /\ (i = 1 \/ ~InHunk(i - 1)))' <=> InHunk(i) /\ (i = 1 \/ ~InHunk(i - 1))
    BY SameLines
  <2>2. QED
    BY <2>1, Zenon DEF HunkStarts
<1>2. \A a : HunkEnd(a)' = HunkEnd(a)
  <2>1. ASSUME NEW a
        PROVE  {z \in a..Len(script) : z = Len(script) \/ ~InHunk(z + 1)}'
                 = {z \in a..Len(script) : z = Len(script) \/ ~InHunk(z + 1)}
    <3>1. \A z : (z = Len(script) \/ ~InHunk(z + 1))' <=> z = Len(script) \/ ~InHunk(z + 1)
      BY SameLines
    <3>2. QED
      BY <3>1, Zenon
  <2>2. QED
    BY <2>1, Zenon DEF HunkEnd
<1>3. \A k : StartOf(k)' = StartOf(k)
  BY <1>1, Zenon DEF StartOf
<1>4. \A k : EndOf(k)' = EndOf(k)
  BY <1>2, <1>3, Zenon DEF EndOf
<1>5. Hunks' = Hunks
  BY <1>1, Zenon DEF Hunks
<1>6. \A k, v : Begins(k, v)' = Begins(k, v)
  BY <1>3, Zenon DEF Begins
<1>7. ASSUME NEW a, NEW z PROVE Hunk(a, z)' = Hunk(a, z)
  <2>1. /\ BaseLines(z)' = BaseLines(z) /\ BaseLines(a - 1)' = BaseLines(a - 1)
        /\ HeadLines(z)' = HeadLines(z) /\ HeadLines(a - 1)' = HeadLines(a - 1)
    BY SameLines, Zenon
  <2>2. QED
    BY <2>1 DEF Hunk
<1>8. \A k, v : Rest(k, v)' = Rest(k, v)
  BY <1>3, <1>4, <1>6, <1>7, Zenon DEF Rest
<1>9. \A c, v : Behind(c, v)' <=> Behind(c, v)
  BY <1>4, <1>5, Zenon DEF Behind
<1>10. QED
  BY <1>3, <1>4, <1>5, <1>6, <1>8, <1>9

LEMMA SameTold ==
    ASSUME script' = script, with_src' = with_src
    PROVE  src' = src /\ \A k : Told(k)' = Told(k)
<1>1. src' = src
  BY SameLines, Zenon DEF src
<1>2. ASSUME NEW k PROVE Told(k)' = Told(k)
  <2>1. /\ BaseLines(k)' = BaseLines(k) /\ HeadLines(k)' = HeadLines(k)
        /\ (InBase(k)' <=> InBase(k)) /\ (InHead(k)' <=> InHead(k))
        /\ (InHunk(k)' <=> InHunk(k))
    BY SameLines, Zenon
  <2>2. InHunk(k)' = InHunk(k)
    BY <2>1, Zenon DEF InHunk
  <2>3. QED
    BY <1>1, <2>1, <2>2 DEF Told
<1>3. QED
  BY <1>1, <1>2

-----------------------------------------------------------------------------
(***************************************************************************)
(* Where the walk ends                                                     *)
(***************************************************************************)
LEMMA SrcIs ==
    ASSUME script \in Seq(Cells), with_src \in BOOLEAN
    PROVE  src \in Nat /\ (src = 0 \/ src = HeadLines(Len(script)))
<1>1. HeadLines(Len(script)) \in Nat
  BY LengthIs, LinesCount
<1>2. QED
  BY <1>1 DEF src

\* As long as a line of a hunk, or with the source any line, is ahead, it goes on.
LEMMA HeadIsAhead ==
    ASSUME script \in Seq(Cells), with_src \in BOOLEAN,
           NEW v \in 0..Len(script), NEW c \in 0..Hunks, At(v, c),
           v < Len(script), ~InHunk(v + 1), src > 0
    PROVE  head_ln <= src /\ head_ln = HeadLines(v + 1) /\ InHead(v + 1)
<1>1. Len(script) \in Nat /\ v \in Nat /\ v + 1 \in Nat /\ v + 1 \in DOMAIN script
  BY LengthIs
<1>2. InHead(v + 1)
  BY <1>1, Sides
<1>3. head_ln = HeadLines(v + 1)
  BY <1>2, NextNumbers DEF At
<1>4. HeadLines(v + 1) <= HeadLines(Len(script))
  BY <1>1, LinesGrow
<1>5. src = HeadLines(Len(script))
  BY SrcIs
<1>6. QED
  BY <1>2, <1>3, <1>4, <1>5

LEMMA EndIsReached ==
    ASSUME script \in Seq(Cells), with_src \in BOOLEAN,
           NEW v \in 0..Len(script), NEW c \in 0..Hunks, At(v, c), v = Len(script)
    PROVE  traverse_finished
<1>1. Len(script) \in Nat /\ v \in Nat /\ c \in Nat /\ Hunks \in Nat
  BY LengthIs, HunksAre
<1>2. c = Hunks
  <2>1. ASSUME c < Hunks PROVE FALSE
    <3>1. c + 1 \in 1..Hunks /\ c + 1 \in (c + 1)..Hunks
      BY <1>1, <2>1
    <3>2. StartOf(c + 1) \in 1..v /\ EndOf(c + 1) \in StartOf(c + 1)..v
      BY <3>1, HunksAre
    <3>3. v < EndOf(c + 1)
      BY <3>1 DEF At, Behind
    <3>4. QED
      BY <1>1, <3>2, <3>3
  <2>2. QED
    BY <1>1, <2>1
<1>3. segments = <<>>
  BY <1>2, SegmentsAre
<1>4. BaseLines(v) \in Nat /\ HeadLines(v) \in Nat /\ FirstHead \in {0, 1} /\ FirstBase \in {0, 1}
  BY <1>1, LinesCount, FirstAre
<1>5. base_ln = BaseLines(v) + FirstBase /\ head_ln = HeadLines(v) + FirstHead
  BY DEF At
<1>6. src > 0 => head_ln > src
  <2>1. ASSUME src > 0 PROVE head_ln > src
    <3>1. src = HeadLines(v)
      BY <2>1, SrcIs
    <3>2. FirstHead = 1
      BY <2>1, <3>1, FirstAre
    <3>3. QED
      BY <1>4, <1>5, <3>1, <3>2
  <2>2. QED
    BY <2>1
<1>7. head_ln >= head_file_eof /\ base_ln >= base_file_eof
  BY <1>4, <1>5, EofIs
<1>8. QED
  BY <1>3, <1>6, <1>7 DEF traverse_finished

LEMMA NothingIsMissed ==
    ASSUME script \in Seq(Cells), with_src \in BOOLEAN,
           NEW v \in 0..Len(script), NEW c \in 0..Hunks, At(v, c), traverse_finished
    PROVE  /\ \A k \in DOMAIN script : InHunk(k) => k <= v
           /\ src > 0 => v = Len(script)
<1>1. /\ Len(script) \in Nat /\ v \in Nat /\ v <= Len(script)
      /\ c \in Nat /\ Hunks \in Nat /\ DOMAIN script = 1..Len(script)
  BY LengthIs, HunksAre
<1>2. segments = <<>>
  BY DEF traverse_finished
<1>3. c = Hunks
  BY <1>2, SegmentsAre
<1>4. ASSUME NEW k \in DOMAIN script, InHunk(k) PROVE k <= v
  <2>1. PICK j \in 1..Hunks : k \in StartOf(j)..EndOf(j)
    BY <1>4, HunksAre
  <2>2. EndOf(j) <= v
    BY <1>3, <2>1 DEF At, Behind
  <2>3. StartOf(j) \in 1..Len(script) /\ EndOf(j) \in StartOf(j)..Len(script)
    BY HunksAre
  <2>4. QED
    BY <1>1, <2>1, <2>2, <2>3
<1>5. ASSUME src > 0, v < Len(script) PROVE FALSE
  <2>1. v < Len(script) /\ v + 1 \in DOMAIN script /\ v + 1 \in Nat /\ ~(v + 1 <= v)
    <3>1. v < Len(script)
      BY <1>1, <1>5
    <3>2. v + 1 \in 1..Len(script)
      BY <1>1, <3>1
    <3>3. QED
      BY <1>1, <3>1, <3>2
  <2>2. ~InHunk(v + 1)
    BY <1>4, <2>1
  <2>3. head_ln <= src /\ head_ln = HeadLines(v + 1)
    BY <1>5, <2>1, <2>2, HeadIsAhead
  <2>4. head_ln > src
    BY <1>5 DEF traverse_finished
  <2>5. HeadLines(v + 1) \in Nat /\ src \in Nat
    BY <2>1, LinesCount, SrcIs
  <2>6. QED
    BY <2>3, <2>4, <2>5
<1>6. v = Len(script) \/ v < Len(script)
  <2>1. \A x, y \in Nat : x <= y => x = y \/ x < y
    OBVIOUS
  <2>2. QED
    BY <1>1, <2>1, Zenon
<1>7. QED
  BY <1>4, <1>5, <1>6

\* No list is popped when it is empty, and no line read beyond the source.
LEMMA NoIndexError ==
    ASSUME script \in Seq(Cells), with_src \in BOOLEAN,
           NEW v \in 0..Len(script), NEW c \in 0..Hunks, At(v, c), v < Len(script)
    PROVE  ~IndexError
<1>1. Len(script) \in Nat /\ v \in Nat /\ c \in Nat /\ Hunks \in Nat
  BY LengthIs, HunksAre
<1>2. ASSUME traversing_diff PROVE segments[1].lines # <<>>
  <2>1. segments # <<>>
    BY <1>2 DEF traversing_diff
  <2>2. c < Hunks /\ c + 1 \in 1..Hunks /\ c + 1 \in (c + 1)..Hunks
    <3>1. c # Hunks
      BY <2>1, SegmentsAre
    <3>2. QED
      BY <1>1, <3>1
  <2>3. segments[1] = Rest(c + 1, v)
    BY <2>2, SegmentsAre
  <2> DEFINE k == c + 1
  <2>4. v < EndOf(k) /\ StartOf(k) \in 1..Len(script) /\ EndOf(k) \in StartOf(k)..Len(script)
    BY <2>2, HunksAre DEF At, Behind
  <2> HIDE DEF k
  <2>5. EndOf(k) - Begins(k, v) + 1 \in Nat \ {0}
    BY <1>1, <2>4 DEF Begins
  <2>6. 1 \in DOMAIN Rest(k, v).lines
    BY <2>5 DEF Rest
  <2>7. QED
    BY <2>3, <2>6 DEF k
<1>3. ASSUME ~traversing_diff, src > 0 PROVE ~(head_ln > src)
  <2>1. ~InHunk(v + 1)
    BY <1>3, TraversingIs
  <2>2. head_ln <= src /\ head_ln = HeadLines(v + 1)
    BY <1>3, <2>1, HeadIsAhead
  <2>3. HeadLines(v + 1) \in Nat /\ src \in Nat
    BY <1>1, v + 1 \in Nat, LinesCount, SrcIs
  <2>4. QED
    BY <2>2, <2>3
<1>4. QED
  BY <1>2, <1>3 DEF IndexError

-----------------------------------------------------------------------------
(***************************************************************************)
(* A step of the walk                                                      *)
(***************************************************************************)
\* The number of a line leads back to it.
LEMMA IndexIs ==
    ASSUME script \in Seq(Cells), NEW i \in DOMAIN script
    PROVE  /\ InBase(i) => BaseIndex(BaseLines(i)) = i
           /\ InHead(i) => HeadIndex(HeadLines(i)) = i
<1>1. Len(script) \in Nat /\ DOMAIN script = 1..Len(script)
  BY LengthIs
<1>2. ASSUME NEW j \in DOMAIN script, NEW k \in DOMAIN script, j < k
      PROVE  /\ InBase(k) => BaseLines(j) < BaseLines(k)
             /\ InHead(k) => HeadLines(j) < HeadLines(k)
  <2>1. j \in Nat /\ k \in Nat /\ k \in (j + 1)..k
    BY <1>1, <1>2
  <2>2. QED
    BY <2>1, LinesDiffer
<1>3. \A j \in DOMAIN script : j \in Nat /\ BaseLines(j) \in Nat /\ HeadLines(j) \in Nat
  BY <1>1, LinesCount
<1>4. ASSUME InBase(i) PROVE BaseIndex(BaseLines(i)) = i
  <2>1. ASSUME NEW j \in DOMAIN script, InBase(j), BaseLines(j) = BaseLines(i) PROVE j = i
    <3>1. ~(j < i)
      BY <1>2, <1>3, <1>4, <2>1
    <3>2. ~(i < j)
      BY <1>2, <1>3, <2>1
    <3>3. QED
      BY <1>3, <3>1, <3>2
  <2>2. QED
    BY <1>4, <2>1 DEF BaseIndex
<1>5. ASSUME InHead(i) PROVE HeadIndex(HeadLines(i)) = i
  <2>1. ASSUME NEW j \in DOMAIN script, InHead(j), HeadLines(j) = HeadLines(i) PROVE j = i
    <3>1. ~(j < i)
      BY <1>2, <1>3, <1>5, <2>1
    <3>2. ~(i < j)
      BY <1>2, <1>3, <2>1
    <3>3. QED
      BY <1>3, <3>1, <3>2
  <2>2. QED
    BY <1>5, <2>1 DEF HeadIndex
<1>6. QED
  BY <1>4, <1>5

\* In a hunk the line is popped from its first segment.
LEMMA PoppedIs ==
    ASSUME script \in Seq(Cells), NEW v \in 0..Len(script), NEW c \in 0..Hunks, At(v, c),
           traversing_diff
    PROVE  /\ c < Hunks /\ c \in Nat /\ c + 1 \in 1..Hunks
           /\ v < Len(script) /\ v < EndOf(c + 1) /\ StartOf(c + 1) <= v + 1
           /\ EndOf(c + 1) \in 1..Len(script) /\ StartOf(c + 1) \in 1..EndOf(c + 1)
           /\ Begins(c + 1, v) = v + 1
           /\ segments[1] = Rest(c + 1, v) /\ segments[1].lines[1] = v + 1
<1>1. Len(script) \in Nat /\ v \in Nat /\ c \in Nat /\ Hunks \in Nat
  BY LengthIs, HunksAre
<1>2. v < Len(script) /\ InHunk(v + 1)
  BY TraversingIs
<1>3. c < Hunks /\ StartOf(c + 1) <= v + 1
  BY <1>2, InNext DEF At
<1> DEFINE k == c + 1
<1>4. k \in 1..Hunks /\ k \in (c + 1)..Hunks
  BY <1>1, <1>3
<1>5. v < EndOf(k) /\ StartOf(k) \in 1..Len(script) /\ EndOf(k) \in StartOf(k)..Len(script)
  BY <1>4, HunksAre DEF At, Behind
<1>6. segments[1] = Rest(k, v)
  BY <1>3, SegmentsAre
<1>7. StartOf(k) <= v + 1
  BY <1>3
<1> HIDE DEF k
<1>8. Begins(k, v) = v + 1
  BY <1>1, <1>5, <1>7 DEF Begins
<1>9. Rest(k, v).lines[1] = v + 1
  <2>1. 1 \in 1..(EndOf(k) - Begins(k, v) + 1)
    BY <1>1, <1>5, <1>8
  <2>2. Rest(k, v).lines[1] = Begins(k, v) + 1 - 1
    BY <2>1 DEF Rest
  <2>3. QED
    BY <1>1, <1>8, <2>2
<1>10. EndOf(k) \in 1..Len(script) /\ StartOf(k) \in 1..EndOf(k)
  BY <1>1, <1>5
<1>11. QED
  BY <1>1, <1>2, <1>3, <1>4, <1>5, <1>6, <1>8, <1>9, <1>10 DEF k

LEMMA ValueIs ==
    ASSUME script \in Seq(Cells), with_src \in BOOLEAN,
           NEW v \in 0..Len(script), NEW c \in 0..Hunks, At(v, c), v < Len(script)
    PROVE  LineValue = Told(v + 1).value
<1>1. Told(v + 1).value = IF src > 0 \/ InHunk(v + 1) THEN v + 1 ELSE Nothing
  BY DEF Told
<1>2. src \in Nat
  BY SrcIs
<1>3. CASE traversing_diff
  <2>1. InHunk(v + 1)
    BY <1>3, TraversingIs
  <2>2. LineValue = v + 1
    BY <1>3, PoppedIs DEF LineValue
  <2>3. QED
    BY <1>1, <2>1, <2>2
<1>4. CASE ~traversing_diff /\ src = 0
  <2>1. ~InHunk(v + 1)
    BY <1>4, TraversingIs
  <2>2. LineValue = Nothing
    BY <1>4 DEF LineValue
  <2>3. QED
    BY <1>1, <1>4, <2>1, <2>2
<1>5. CASE ~traversing_diff /\ src > 0
  <2>1. ~InHunk(v + 1)
    BY <1>5, TraversingIs
  <2>2. head_ln = HeadLines(v + 1) /\ InHead(v + 1)
    BY <1>5, <2>1, HeadIsAhead
  <2>3. HeadLines(v + 1) = HeadLines(v) + 1 /\ HeadLines(v) \in Nat
    BY <2>2, NextNumbers
  <2>4. v + 1 \in DOMAIN script
    BY LengthIs
  <2>5. HeadIndex(head_ln) = v + 1
    BY <2>2, <2>4, IndexIs
  <2>6. head_ln # 0
    BY <2>2, <2>3
  <2>7. LineValue = v + 1
    BY <1>2, <1>5, <2>5, <2>6 DEF LineValue
  <2>8. QED
    BY <1>1, <1>5, <2>7
<1>6. QED
  BY <1>2, <1>3, <1>4, <1>5

\* The sides of the line, as apply finds them
LEMMA SignIs ==
    ASSUME script \in Seq(Cells), with_src \in BOOLEAN,
           NEW v \in 0..Len(script), NEW c \in 0..Hunks, At(v, c), v < Len(script)
    PROVE  /\ traversing_diff /\ script[LineValue].op = "add" <=> ~InBase(v + 1)
           /\ traversing_diff /\ script[LineValue].op = "del" <=> ~InHead(v + 1)
<1>1. v + 1 \in DOMAIN script
  BY LengthIs
<1>2. traversing_diff <=> InHunk(v + 1)
  BY TraversingIs
<1>3. traversing_diff => LineValue = v + 1
  BY PoppedIs DEF LineValue
<1>4. ~InHunk(v + 1) => InBase(v + 1) /\ InHead(v + 1)
  BY <1>1, Sides
<1>5. QED
  BY <1>2, <1>3, <1>4 DEF InBase, InHead

LEMMA TailIs ==
    ASSUME NEW T, NEW s \in Seq(T), s # <<>>
    PROVE  Tail(s) = [j \in 1..(Len(s) - 1) |-> s[j + 1]]
<1>1. Tail(s) \in Seq(T) /\ Len(Tail(s)) = Len(s) - 1
  OBVIOUS
<1>2. \A j \in 1..(Len(s) - 1) : Tail(s)[j] = s[j + 1]
  OBVIOUS
<1>3. Tail(s) = [j \in 1..(Len(s) - 1) |-> Tail(s)[j]]
  <2> DEFINE t == Tail(s)
  <2> HIDE DEF t
  <2>1. t \in Seq(T) /\ Len(t) = Len(s) - 1
    BY <1>1 DEF t
  <2>2. t = [j \in 1..(Len(s) - 1) |-> t[j]]
    BY <2>1
  <2>3. QED
    BY <2>2 DEF t
<1>4. QED
  BY <1>2, <1>3

LEMMA HeadReplaced ==
    ASSUME NEW T, NEW s \in Seq(T), s # <<>>, NEW x
    PROVE  LET r == <<x>> \o Tail(s) IN
           /\ r # <<>> /\ r[1] = x
           /\ r = [j \in 1..Len(s) |-> IF j = 1 THEN x ELSE s[j]]
           /\ Tail(r) = [j \in 1..(Len(s) - 1) |-> s[j + 1]]
<1> DEFINE U == T \cup {x}
           t == Tail(s)
           r == <<x>> \o t
<1>1. Len(s) \in Nat \ {0}
  OBVIOUS
<1>2. t = [j \in 1..(Len(s) - 1) |-> s[j + 1]]
  BY TailIs
<1>3. t \in Seq(T) /\ Len(t) = Len(s) - 1
  OBVIOUS
<1> HIDE DEF t
<1>4. t \in Seq(U) /\ <<x>> \in Seq(U)
  BY <1>3
<1>5. r \in Seq(U) /\ Len(r) = Len(s)
  BY <1>1, <1>3, <1>4
<1>6. r[1] = x
  BY <1>3, <1>4
<1>7. ASSUME NEW j \in 2..Len(s) PROVE r[j] = s[j]
  <2>1. r[j] = t[j - 1]
    BY <1>1, <1>3, <1>4, <1>7
  <2>2. j - 1 \in 1..(Len(s) - 1) /\ (j - 1) + 1 = j
    BY <1>1, <1>7
  <2>3. t[j - 1] = s[j]
    BY <1>2, <2>2
  <2>4. QED
    BY <2>1, <2>3
<1> HIDE DEF r
<1>8. r = [j \in 1..Len(s) |-> r[j]]
  BY <1>5
<1>9. r = [j \in 1..Len(s) |-> IF j = 1 THEN x ELSE s[j]]
  <2>1. \A j \in 1..Len(s) : r[j] = IF j = 1 THEN x ELSE s[j]
    BY <1>1, <1>6, <1>7
  <2>2. QED
    BY <1>8, <2>1
<1>10. r # <<>>
  BY <1>1, <1>5
<1>11. Tail(r) = [j \in 1..(Len(r) - 1) |-> r[j + 1]]
  BY <1>5, <1>10, TailIs
<1>12. \A j \in 1..(Len(s) - 1) : r[j + 1] = s[j + 1]
  <2>1. ASSUME NEW j \in 1..(Len(s) - 1) PROVE r[j + 1] = s[j + 1]
    <3>1. j + 1 \in 2..Len(s)
      BY <1>1
    <3>2. QED
      BY <1>7, <3>1
  <2>2. QED
    BY <2>1
<1>13. Tail(r) = [j \in 1..(Len(s) - 1) |-> s[j + 1]]
  BY <1>5, <1>11, <1>12
<1>14. QED
  BY <1>6, <1>9, <1>10, <1>13 DEF r, t

\* What is left of a hunk after one line more
LEMMA RestNext ==
    ASSUME script \in Seq(Cells), NEW v \in Nat, NEW k \in 1..Hunks, v < EndOf(k)
    PROVE  /\ v + 1 < StartOf(k) => Rest(k, v + 1) = Rest(k, v)
           /\ StartOf(k) <= v + 1 =>
                /\ v + 1 < EndOf(k) =>
                     /\ Rest(k, v + 1) = [Rest(k, v) EXCEPT !.lines = Tail(@)]
                     /\ Rest(k, v + 1).lines # <<>>
                /\ v + 1 = EndOf(k) => Tail(Rest(k, v).lines) = <<>>
<1> DEFINE a == StartOf(k)
           z == EndOf(k)
           h == Hunk(a, z).header
<1>1. a \in Nat /\ z \in Nat /\ a <= z
  <2>1. a \in 1..Len(script) /\ z \in a..Len(script) /\ Len(script) \in Nat
    BY HunksAre, LengthIs
  <2>2. QED
    BY <2>1
<1>2. \A w : /\ Rest(k, w).lines = [i \in 1..(z - Begins(k, w) + 1) |-> Begins(k, w) + i - 1]
             /\ Rest(k, w) = [header |-> h, lines |-> Rest(k, w).lines]
  <2>1. ASSUME NEW w
        PROVE  /\ Rest(k, w).lines
                    = [i \in 1..(z - Begins(k, w) + 1) |-> Begins(k, w) + i - 1]
               /\ Rest(k, w) = [header |-> h, lines |-> Rest(k, w).lines]
    BY DEF Rest
  <2>2. QED
    BY <2>1
<1>3. \A w : Begins(k, w) = IF w < a THEN a ELSE w + 1
  BY DEF Begins
<1>4. v < z
  OBVIOUS
<1> HIDE DEF a, z, h
<1>5. ASSUME v + 1 < a PROVE Rest(k, v + 1) = Rest(k, v)
  <2>1. Begins(k, v + 1) = Begins(k, v)
    BY <1>1, <1>3, <1>5
  <2>2. Rest(k, v + 1).lines = Rest(k, v).lines
    BY <1>2, <2>1, Zenon
  <2>3. /\ Rest(k, v) = [header |-> h, lines |-> Rest(k, v).lines]
        /\ Rest(k, v + 1) = [header |-> h, lines |-> Rest(k, v + 1).lines]
    BY <1>2, Zenon
  <2>4. QED
    BY <2>2, <2>3, Zenon
<1>6. ASSUME a <= v + 1
      PROVE  Begins(k, v) = v + 1 /\ Begins(k, v + 1) = v + 2
  BY <1>1, <1>3, <1>6
<1>7. ASSUME a <= v + 1
      PROVE  Tail(Rest(k, v).lines) = [i \in 1..(z - v - 1) |-> v + 1 + i]
  <2> DEFINE s == [i \in 1..(z - v) |-> v + i]
  <2>1. Rest(k, v).lines = [i \in 1..(z - (v + 1) + 1) |-> v + 1 + i - 1]
    <3>1. Begins(k, v) = v + 1
      BY <1>6, <1>7
    <3>2. QED
      BY <1>2, <3>1, Zenon
  <2>2. z - (v + 1) + 1 = z - v /\ \A i \in 1..(z - v) : v + 1 + i - 1 = v + i
    BY <1>1
  <2>3. Rest(k, v).lines = s
    BY <2>1, <2>2
  <2>4. z - v \in Nat \ {0}
    BY <1>1, <1>4
  <2>5. s \in [1..(z - v) -> Nat]
    BY <1>1
  <2>6. s \in Seq(Nat) /\ Len(s) = z - v /\ s # <<>>
    BY <2>4, <2>5
  <2>7. Tail(s) = [i \in 1..(z - v - 1) |-> s[i + 1]]
    <3> HIDE DEF s
    <3>1. Tail(s) = [i \in 1..(Len(s) - 1) |-> s[i + 1]]
      BY <2>6, TailIs
    <3>2. QED
      BY <2>6, <3>1
  <2>8. \A i \in 1..(z - v - 1) : s[i + 1] = v + 1 + i
    BY <1>1, <2>4
  <2>9. QED
    BY <2>3, <2>7, <2>8
<1>8. ASSUME a <= v + 1, v + 1 < z
      PROVE  /\ Rest(k, v + 1) = [Rest(k, v) EXCEPT !.lines = Tail(@)]
             /\ Rest(k, v + 1).lines # <<>>
  <2>1. Rest(k, v + 1).lines = [i \in 1..(z - (v + 2) + 1) |-> v + 2 + i - 1]
    <3>1. Begins(k, v + 1) = v + 2
      BY <1>6, <1>8
    <3>2. QED
      BY <1>2, <3>1, Zenon
  <2>2. z - (v + 2) + 1 = z - v - 1 /\ \A i \in 1..(z - v - 1) : v + 2 + i - 1 = v + 1 + i
    BY <1>1
  <2>3. Rest(k, v + 1).lines = Tail(Rest(k, v).lines)
    BY <1>7, <1>8, <2>1, <2>2
  <2>4. Rest(k, v + 1) = [header |-> h, lines |-> Tail(Rest(k, v).lines)]
    <3>1. Rest(k, v + 1) = [header |-> h, lines |-> Rest(k, v + 1).lines]
      BY <1>2, Zenon
    <3>2. QED
      BY <2>3, <3>1, Zenon
  <2>5. [Rest(k, v) EXCEPT !.lines = Tail(@)] = [header |-> h, lines |-> Tail(Rest(k, v).lines)]
    <3> DEFINE s == Rest(k, v).lines
    <3>1. Rest(k, v) = [header |-> h, lines |-> s]
      BY <1>2, Zenon
    <3> HIDE DEF s
    <3>2. \A t : [[header |-> h, lines |-> s] EXCEPT !.lines = t] = [header |-> h, lines |-> t]
      OBVIOUS
    <3>3. [Rest(k, v) EXCEPT !.lines = Tail(s)] = [header |-> h, lines |-> Tail(s)]
      BY <3>1, <3>2
    <3>4. QED
      BY <3>3, Zenon DEF s
  <2>6. Rest(k, v + 1).lines # <<>>
    <3>1. 1 \in 1..(z - (v + 2) + 1)
      BY <1>1, <1>8
    <3>2. 1 \in DOMAIN Rest(k, v + 1).lines
      BY <2>1, <3>1
    <3>3. QED
      BY <3>2
  <2>7. QED
    BY <2>4, <2>5, <2>6, Zenon
<1>9. ASSUME a <= v + 1, v + 1 = z PROVE Tail(Rest(k, v).lines) = <<>>
  <2>1. Tail(Rest(k, v).lines) = [i \in 1..(z - v - 1) |-> v + 1 + i] /\ z - v - 1 = 0
    BY <1>1, <1>7, <1>9
  <2>2. QED
    BY <2>1
<1>10. QED
  BY <1>5, <1>8, <1>9 DEF a, z

LEMMA RestIsNotEmpty ==
    ASSUME script \in Seq(Cells), NEW v \in Nat, NEW k \in 1..Hunks, v < EndOf(k)
    PROVE  Rest(k, v).lines # <<>>
<1>1. StartOf(k) \in 1..Len(script) /\ EndOf(k) \in StartOf(k)..Len(script) /\ Len(script) \in Nat
  BY HunksAre, LengthIs
<1>2. EndOf(k) - Begins(k, v) + 1 \in Nat \ {0}
  BY <1>1 DEF Begins
<1>3. 1 \in DOMAIN Rest(k, v).lines
  BY <1>2 DEF Rest
<1>4. QED
  BY <1>3

\* What Visit leaves of segments
Popped ==
    IF traversing_diff
    THEN <<[segments[1] EXCEPT !.lines = Tail(@)]>> \o Tail(segments)
    ELSE segments
Left == IF Popped # <<>> /\ Popped[1].lines = <<>> THEN Tail(Popped) ELSE Popped

LEMMA LeftIs ==
    ASSUME script \in Seq(Cells), NEW v \in 0..Len(script), NEW c \in 0..Hunks, At(v, c),
           v < Len(script)
    PROVE  \E d \in 0..Hunks :
              Behind(d, v + 1) /\ Left = [j \in 1..(Hunks - d) |-> Rest(d + j, v + 1)]
<1>1. Len(script) \in Nat /\ v \in Nat /\ v + 1 \in Nat /\ c \in Nat /\ Hunks \in Nat /\ c <= Hunks
  BY LengthIs, HunksAre
<1>2. \A k \in 1..Hunks :
        /\ StartOf(k) \in Nat /\ EndOf(k) \in Nat /\ StartOf(k) <= EndOf(k)
  <2>1. ASSUME NEW k \in 1..Hunks
        PROVE  StartOf(k) \in Nat /\ EndOf(k) \in Nat /\ StartOf(k) <= EndOf(k)
    <3>1. StartOf(k) \in 1..Len(script) /\ EndOf(k) \in StartOf(k)..Len(script)
      BY HunksAre
    <3>2. QED
      BY <1>1, <3>1
  <2>2. QED
    BY <2>1
<1>3. /\ \A k \in 1..c : EndOf(k) <= v
      /\ \A k \in (c + 1)..Hunks : v < EndOf(k)
  BY DEF At, Behind
<1>4. segments = [j \in 1..(Hunks - c) |-> Rest(c + j, v)]
  BY DEF At
<1>5. CASE ~traversing_diff
  <2>1. ASSUME NEW k \in (c + 1)..Hunks PROVE v + 1 < StartOf(k)
    <3>1. c < Hunks /\ c + 1 \in 1..Hunks /\ k \in 1..Hunks
      BY <1>1, <2>1
    <3>2. ~(StartOf(c + 1) <= v + 1)
      BY <1>5, <3>1, TraversingIs, InNext DEF At
    <3>3. k = c + 1 \/ c + 1 < k
      BY <1>1, <2>1
    <3>4. k = c + 1 \/ EndOf(c + 1) < StartOf(k)
      BY <3>1, <3>3, HunksAre
    <3>5. /\ StartOf(k) \in Nat /\ StartOf(c + 1) \in Nat /\ EndOf(c + 1) \in Nat
          /\ StartOf(c + 1) <= EndOf(c + 1)
      BY <1>2, <3>1
    <3>6. CASE k = c + 1
      BY <1>1, <3>2, <3>5, <3>6
    <3>7. CASE EndOf(c + 1) < StartOf(k)
      BY <1>1, <3>2, <3>5, <3>7
    <3>8. QED
      BY <3>4, <3>6, <3>7
  <2>2. Behind(c, v + 1)
    <3>1. ASSUME NEW k \in 1..c PROVE EndOf(k) <= v + 1
      <4>1. k \in 1..Hunks
        BY <1>1
      <4>2. QED
        BY <1>1, <1>2, <1>3, <4>1
    <3>2. ASSUME NEW k \in (c + 1)..Hunks PROVE v + 1 < EndOf(k)
      <4>1. k \in 1..Hunks
        BY <1>1
      <4>2. QED
        BY <1>1, <1>2, <2>1, <4>1
    <3>3. QED
      BY <3>1, <3>2 DEF Behind
  <2>3. ASSUME NEW j \in 1..(Hunks - c) PROVE Rest(c + j, v + 1) = Rest(c + j, v)
    <3>1. c + j \in 1..Hunks /\ c + j \in (c + 1)..Hunks
      BY <1>1
    <3>2. v + 1 < StartOf(c + j) /\ v < EndOf(c + j)
      BY <1>3, <2>1, <3>1
    <3>3. QED
      BY <1>1, <3>1, <3>2, RestNext
  <2>4. segments = [j \in 1..(Hunks - c) |-> Rest(c + j, v + 1)]
    BY <1>4, <2>3
  <2>5. segments # <<>> => segments[1].lines # <<>>
    <3>1. ASSUME segments # <<>> PROVE segments[1].lines # <<>>
      <4>1. c # Hunks
        BY <3>1, SegmentsAre
      <4>2. c < Hunks /\ c + 1 \in 1..Hunks /\ c + 1 \in (c + 1)..Hunks
        BY <1>1, <4>1
      <4>3. segments[1] = Rest(c + 1, v) /\ v < EndOf(c + 1)
        BY <1>3, <4>2, SegmentsAre
      <4>4. QED
        BY <1>1, <4>2, <4>3, RestIsNotEmpty
    <3>2. QED
      BY <3>1
  <2>6. Left = segments
    BY <1>5, <2>5 DEF Left, Popped
  <2>7. QED
    BY <2>2, <2>4, <2>6
<1>6. CASE traversing_diff
  <2> DEFINE k == c + 1
             x == [segments[1] EXCEPT !.lines = Tail(@)]
             R == {Rest(c + j, v) : j \in 1..(Hunks - c)}
  <2>1. /\ c < Hunks /\ k \in 1..Hunks /\ k \in (c + 1)..Hunks
        /\ v < EndOf(k) /\ StartOf(k) <= v + 1 /\ segments[1] = Rest(k, v)
    BY <1>1, <1>6, PoppedIs
  <2>2. segments \in Seq(R) /\ Len(segments) = Hunks - c /\ segments # <<>>
    <3>1. segments \in Seq(R) /\ Len(segments) = Hunks - c
      BY SegmentsAre
    <3>2. QED
      BY <3>1, <1>6 DEF traversing_diff
  <2>3. Popped = <<x>> \o Tail(segments)
    BY <1>6 DEF Popped
  <2>4. x = [Rest(k, v) EXCEPT !.lines = Tail(@)]
    BY <2>1
  <2>5. ASSUME NEW i \in (k + 1)..Hunks
        PROVE  v + 1 < StartOf(i) /\ v + 1 < EndOf(i) /\ Rest(i, v + 1) = Rest(i, v)
    <3>1. i \in 1..Hunks /\ k < i /\ i \in (c + 1)..Hunks
      BY <1>1, <2>1
    <3>2. EndOf(k) < StartOf(i)
      BY <2>1, <3>1, HunksAre
    <3>3. StartOf(i) \in Nat /\ EndOf(i) \in Nat /\ StartOf(i) <= EndOf(i) /\ EndOf(k) \in Nat
      BY <1>2, <2>1, <3>1
    <3>4. v + 1 < StartOf(i) /\ v + 1 < EndOf(i) /\ v < EndOf(i)
      BY <1>1, <2>1, <3>2, <3>3
    <3>5. QED
      BY <1>1, <3>1, <3>4, RestNext
  <2> HIDE DEF x, R, k
  <2>6. /\ Popped # <<>> /\ Popped[1] = x
        /\ Popped = [j \in 1..(Hunks - c) |-> IF j = 1 THEN x ELSE segments[j]]
        /\ Tail(Popped) = [j \in 1..(Hunks - c - 1) |-> segments[j + 1]]
    <3>1. LET r == <<x>> \o Tail(segments) IN
             /\ r # <<>> /\ r[1] = x
             /\ r = [j \in 1..Len(segments) |-> IF j = 1 THEN x ELSE segments[j]]
             /\ Tail(r) = [j \in 1..(Len(segments) - 1) |-> segments[j + 1]]
      BY <2>2, HeadReplaced
    <3>2. QED
      BY <2>2, <2>3, <3>1, Zenon
  <2>7. EndOf(k) \in Nat
    BY <1>2, <2>1
  <2>8. CASE v + 1 < EndOf(k)
    <3>1. x = Rest(k, v + 1) /\ x.lines # <<>>
      BY <1>1, <2>1, <2>4, <2>8, RestNext
    <3>2. Left = Popped
      BY <2>6, <3>1 DEF Left
    <3>3. ASSUME NEW j \in 1..(Hunks - c)
          PROVE  (IF j = 1 THEN x ELSE segments[j]) = Rest(c + j, v + 1)
      <4>1. CASE j = 1
        BY <3>1, <4>1 DEF k
      <4>2. CASE j # 1
        <5>1. c + j \in (k + 1)..Hunks
          BY <1>1, <4>2 DEF k
        <5>2. segments[j] = Rest(c + j, v)
          BY <1>4
        <5>3. QED
          BY <2>5, <4>2, <5>1, <5>2
      <4>3. QED
        BY <4>1, <4>2
    <3>4. Left = [j \in 1..(Hunks - c) |-> Rest(c + j, v + 1)]
      BY <2>6, <3>2, <3>3
    <3>5. Behind(c, v + 1)
      <4>1. ASSUME NEW i \in 1..c PROVE EndOf(i) <= v + 1
        <5>1. i \in 1..Hunks
          BY <1>1
        <5>2. QED
          BY <1>1, <1>2, <1>3, <5>1
      <4>2. ASSUME NEW i \in (c + 1)..Hunks PROVE v + 1 < EndOf(i)
        <5>1. i = k \/ i \in (k + 1)..Hunks
          BY <1>1 DEF k
        <5>2. QED
          BY <2>5, <2>8, <5>1
      <4>3. QED
        BY <4>1, <4>2 DEF Behind
    <3>6. QED
      BY <3>4, <3>5
  <2>9. CASE ~(v + 1 < EndOf(k))
    <3>1. v + 1 = EndOf(k)
      BY <1>1, <2>1, <2>7, <2>9
    <3>2. x.lines = <<>>
      <4>1. Tail(Rest(k, v).lines) = <<>>
        BY <1>1, <2>1, <3>1, RestNext
      <4>2. x.lines = Tail(Rest(k, v).lines)
        BY <2>4 DEF Rest
      <4>3. QED
        BY <4>1, <4>2
    <3>3. Left = Tail(Popped)
      BY <2>6, <3>2 DEF Left
    <3>4. k \in 0..Hunks /\ Hunks - c - 1 = Hunks - k
      BY <1>1, <2>1 DEF k
    <3>5. ASSUME NEW j \in 1..(Hunks - k) PROVE segments[j + 1] = Rest(k + j, v + 1)
      <4>1. j + 1 \in 1..(Hunks - c) /\ c + (j + 1) = k + j /\ k + j \in (k + 1)..Hunks
        BY <1>1, <2>1 DEF k
      <4>2. segments[j + 1] = Rest(k + j, v)
        BY <1>4, <4>1
      <4>3. QED
        BY <2>5, <4>1, <4>2
    <3>6. Left = [j \in 1..(Hunks - k) |-> Rest(k + j, v + 1)]
      BY <2>6, <3>3, <3>4, <3>5
    <3>7. Behind(k, v + 1)
      <4>1. ASSUME NEW i \in 1..k PROVE EndOf(i) <= v + 1
        <5>1. i \in 1..Hunks /\ (i = k \/ i \in 1..c)
          BY <1>1, <2>1 DEF k
        <5>2. QED
          BY <1>1, <1>2, <1>3, <3>1, <5>1
      <4>2. ASSUME NEW i \in (k + 1)..Hunks PROVE v + 1 < EndOf(i)
        BY <2>5
      <4>3. QED
        BY <4>1, <4>2 DEF Behind
    <3>8. QED
      BY <3>4, <3>6, <3>7
  <2>10. QED
    BY <2>8, <2>9
<1>7. QED
  BY <1>5, <1>6

LEMMA VisitKeepsWalk ==
    ASSUME script \in Seq(Cells), with_src \in BOOLEAN,
           NEW v \in 0..Len(script), NEW c \in 0..Hunks, At(v, c), Visit
    PROVE  \E w \in 0..Len(script), d \in 0..Hunks : At(w, d)'
<1>1. script' = script /\ with_src' = with_src /\ ~traverse_finished
  BY DEF Visit
<1>2. Len(script) \in Nat /\ v \in Nat
  BY LengthIs
<1>3. v < Len(script) /\ v + 1 \in 0..Len(script)
  <2>1. v # Len(script)
    BY <1>1, EndIsReached
  <2>2. QED
    BY <1>2, <2>1
<1> DEFINE n == v + 1
           added == traversing_diff /\ script[LineValue].op = "add"
           removed == traversing_diff /\ script[LineValue].op = "del"
<1>4. (added <=> ~InBase(n)) /\ (removed <=> ~InHead(n))
  BY <1>3, SignIs
<1>5. /\ visits' = Append(visits,
            [base |-> IF added THEN Nothing ELSE base_ln,
             head |-> IF removed THEN Nothing ELSE head_ln,
             value |-> LineValue, is_diff |-> traversing_diff])
      /\ head_ln' = IF removed THEN head_ln ELSE head_ln + 1
      /\ base_ln' = IF added THEN base_ln ELSE base_ln + 1
      /\ segments' = Left
  BY DEF Visit, Left, Popped
<1>6. base_ln = BaseLines(v) + FirstBase /\ head_ln = HeadLines(v) + FirstHead
  BY DEF At
<1>7. /\ BaseLines(v) \in Nat /\ HeadLines(v) \in Nat
      /\ FirstBase \in {0, 1} /\ FirstHead \in {0, 1}
      /\ InBase(n) => FirstBase = 1 /\ BaseLines(n) = BaseLines(v) + 1
      /\ ~InBase(n) => BaseLines(n) = BaseLines(v)
      /\ InHead(n) => FirstHead = 1 /\ HeadLines(n) = HeadLines(v) + 1
      /\ ~InHead(n) => HeadLines(n) = HeadLines(v)
  BY <1>3, FirstAre, NextNumbers
<1>8. LineValue = Told(n).value /\ (traversing_diff <=> InHunk(n))
  BY <1>3, ValueIs, TraversingIs
<1> HIDE DEF n, added, removed
<1>9. base_ln' = BaseLines(n) + FirstBase /\ head_ln' = HeadLines(n) + FirstHead
  BY <1>4, <1>5, <1>6, <1>7
<1>10. visits' = Append(visits, Told(n))
  <2>1. (IF added THEN Nothing ELSE base_ln) = IF InBase(n) THEN BaseLines(n) ELSE Nothing
    BY <1>4, <1>6, <1>7
  <2>2. (IF removed THEN Nothing ELSE head_ln) = IF InHead(n) THEN HeadLines(n) ELSE Nothing
    BY <1>4, <1>6, <1>7
  <2>3. traversing_diff = InHunk(n)
    BY <1>8, Zenon DEF traversing_diff, InHunk
  <2>4. Told(n) = [base |-> IF InBase(n) THEN BaseLines(n) ELSE Nothing,
                   head |-> IF InHead(n) THEN HeadLines(n) ELSE Nothing,
                   value |-> Told(n).value, is_diff |-> InHunk(n)]
    BY DEF Told
  <2>5. QED
    BY <1>5, <1>8, <2>1, <2>2, <2>3, <2>4, Zenon
<1>11. visits' = [k \in 1..n |-> Told(k)]
  <2>1. visits = [k \in 1..v |-> Told(k)]
    BY DEF At
  <2>2. visits \in Seq({Told(k) : k \in 1..n}) /\ Len(visits) = v
    <3> DEFINE T == {Told(k) : k \in 1..n}
    <3>1. \A k \in 1..v : Told(k) \in T
      BY <1>2 DEF n
    <3>2. visits \in [1..v -> T]
      BY <2>1, <3>1
    <3> HIDE DEF T
    <3>3. visits \in Seq(T) /\ Len(visits) = v
      BY <1>2, <3>2
    <3>4. QED
      BY <3>3 DEF T
  <2> DEFINE t == Append(visits, Told(n))
  <2>3. DOMAIN t = 1..n /\ t = [k \in DOMAIN t |-> t[k]]
    BY <1>2, <2>2 DEF n
  <2>4. \A k \in 1..n : t[k] = Told(k)
    <3>1. t[n] = Told(n)
      BY <1>2, <2>2 DEF n
    <3>2. ASSUME NEW k \in 1..v PROVE t[k] = Told(k)
      <4>1. t[k] = visits[k]
        BY <1>2, <2>2
      <4>2. QED
        BY <2>1, <4>1
    <3>3. \A k \in 1..n : k = n \/ k \in 1..v
      BY <1>2 DEF n
    <3>4. QED
      BY <3>1, <3>2, <3>3
  <2> HIDE DEF t
  <2>5. t = [k \in 1..n |-> Told(k)]
    BY <2>3, <2>4
  <2>6. QED
    BY <1>10, <2>5 DEF t
<1>12. PICK d \in 0..Hunks :
         Behind(d, n) /\ Left = [j \in 1..(Hunks - d) |-> Rest(d + j, n)]
  BY <1>3, LeftIs DEF n
<1>13. At(n, d)'
  <2>1. visits' = [k \in 1..n |-> Told(k)']
    BY <1>1, <1>11, SameTold
  <2>2. base_ln' = BaseLines(n)' + FirstBase' /\ head_ln' = HeadLines(n)' + FirstHead'
    BY <1>1, <1>9, SameLines
  <2>3. Behind(d, n)'
    BY <1>1, <1>12, SameHunks
  <2>4. segments' = [j \in 1..(Hunks' - d) |-> Rest(d + j, n)']
    BY <1>1, <1>5, <1>12, SameHunks
  <2>5. QED
    BY <2>1, <2>2, <2>3, <2>4 DEF At
<1>14. QED
  BY <1>3, <1>13 DEF n

\* The walk starts before the first line of either side.
LEMMA FirstNumbers ==
    ASSUME script \in Seq(Cells)
    PROVE  /\ Hunks = 0 => FirstBase = 1 /\ FirstHead = 1
           /\ Hunks > 0 => /\ FirstLine(Hunk(StartOf(1), EndOf(1)).header[1]) = FirstBase
                           /\ FirstLine(Hunk(StartOf(1), EndOf(1)).header[3]) = FirstHead
<1> DEFINE n == Len(script)
<1>1. n \in Nat /\ Hunks \in Nat /\ DOMAIN script = 1..n
  BY LengthIs, HunksAre
<1>2. BaseLines(n) \in Nat /\ HeadLines(n) \in Nat /\ BaseLines(0) = 0 /\ HeadLines(0) = 0
  BY <1>1, LinesCount
<1> HIDE DEF n
<1>3. ASSUME Hunks = 0 PROVE FirstBase = 1 /\ FirstHead = 1
  <2>1. CASE n = 0
    BY <2>1 DEF FirstBase, FirstHead, n
  <2>2. CASE n > 0
    <3>1. 1 \in DOMAIN script /\ 1 \in (0 + 1)..n
      BY <1>1, <2>2
    <3>2. ~InHunk(1)
      BY <1>3, <3>1, HunksAre
    <3>3. InBase(1) /\ InHead(1)
      BY <3>1, <3>2, Sides
    <3>4. BaseLines(0) < BaseLines(n) /\ HeadLines(0) < HeadLines(n)
      BY <1>1, <3>1, <3>3, LinesDiffer
    <3>5. QED
      BY <1>2, <3>4, FirstAre DEF n
  <2>3. QED
    BY <1>1, <2>1, <2>2
<1>4. ASSUME Hunks > 0
      PROVE  /\ FirstLine(Hunk(StartOf(1), EndOf(1)).header[1]) = FirstBase
             /\ FirstLine(Hunk(StartOf(1), EndOf(1)).header[3]) = FirstHead
  <2> DEFINE a == StartOf(1)
             z == EndOf(1)
             b == BaseLines(z) - BaseLines(a - 1)
             h == HeadLines(z) - HeadLines(a - 1)
  <2>1. 1 \in 1..Hunks
    BY <1>1, <1>4
  <2>2. /\ a \in 1..n /\ z \in a..n /\ (z = n \/ ~InHunk(z + 1))
        /\ \A i \in a..z : InHunk(i)
    BY <2>1, HunksAre DEF n
  <2>3. ASSUME NEW i \in 1..(a - 1) PROVE ~InHunk(i)
    <3>1. i \in DOMAIN script /\ i < a
      BY <1>1, <2>2
    <3>2. ASSUME InHunk(i) PROVE FALSE
      <4>1. PICK k \in 1..Hunks : i \in StartOf(k)..EndOf(k)
        BY <3>1, <3>2, HunksAre
      <4>2. k = 1 \/ EndOf(1) < StartOf(k)
        BY <1>1, <2>1, HunksAre
      <4>3. StartOf(k) \in 1..n
        BY HunksAre DEF n
      <4>4. QED
        BY <1>1, <2>2, <3>1, <4>1, <4>2, <4>3
    <3>3. QED
      BY <3>2
  <2> HIDE DEF a, z
  <2>4. a - 1 \in Nat /\ z \in Nat /\ a - 1 <= z /\ z <= n
    BY <1>1, <2>2
  <2>5. /\ BaseLines(a - 1) \in Nat /\ BaseLines(z) \in Nat /\ BaseLines(a - 1) <= BaseLines(z)
        /\ HeadLines(a - 1) \in Nat /\ HeadLines(z) \in Nat /\ HeadLines(a - 1) <= HeadLines(z)
        /\ BaseLines(z) <= BaseLines(n) /\ HeadLines(z) <= HeadLines(n)
    BY <1>1, <2>4, LinesCount, LinesGrow
  <2>6. /\ Hunk(a, z).header[1] = BaseLines(a - 1) + Min({b, 1})
        /\ Hunk(a, z).header[3] = HeadLines(a - 1) + Min({h, 1})
    BY DEF Hunk
  <2>7. b \in Nat /\ h \in Nat
    BY <2>5
  <2>8. Min({b, 1}) = (IF b = 0 THEN 0 ELSE 1) /\ Min({h, 1}) = (IF h = 0 THEN 0 ELSE 1)
    BY <2>7, MinOfOne
  <2>16. /\ b = 0 <=> BaseLines(z) = BaseLines(a - 1)
         /\ h = 0 <=> HeadLines(z) = HeadLines(a - 1)
    BY <2>5
  <2> HIDE DEF b, h
  <2>9. \A s \in Nat : FirstLine(s) = IF s = 0 THEN 0 ELSE 1
    <3>1. \A s : {1, s} = {s, 1}
      OBVIOUS
    <3>2. QED
      BY <3>1, MinOfOne DEF FirstLine
  \* A file with a line before the first hunk has it on both sides, and a hunk that is
  \* not the whole file has context.
  <2>10. /\ BaseLines(z) = 0 => BaseLines(n) = 0
         /\ HeadLines(z) = 0 => HeadLines(n) = 0
    <3>1. CASE z = n
      BY <3>1
    <3>2. CASE z # n
      <4>1. z + 1 \in 1..n /\ z \in 1..n /\ ~InHunk(z + 1)
        BY <1>1, <2>2, <3>2
      <4>2. script[z].op = "keep"
        <5>1. ASSUME script[z].op # "keep" PROVE FALSE
          <6>1. z - (z + 1) \in -Context..Context
            <7>1. z - (z + 1) = -1
              BY <2>4
            <7>2. QED
              BY <7>1, BoundsAssumption
          <6>2. InHunk(z + 1)
            BY <1>1, <4>1, <5>1, <6>1 DEF InHunk
          <6>3. QED
            BY <4>1, <6>2
        <5>2. QED
          BY <5>1
      <4>3. InBase(z) /\ InHead(z)
        BY <4>2 DEF InBase, InHead
      <4>4. z \in (0 + 1)..z
        BY <1>1, <4>1
      <4>5. BaseLines(0) < BaseLines(z) /\ HeadLines(0) < HeadLines(z)
        BY <2>4, <4>3, <4>4, LinesDiffer
      <4>6. QED
        BY <1>2, <2>5, <4>5
    <3>3. QED
      BY <3>1, <3>2
  <2>11. n > 0
    BY <1>1, <2>2
  <2>12. /\ FirstBase = IF BaseLines(n) = 0 THEN 0 ELSE 1
         /\ FirstHead = IF HeadLines(n) = 0 THEN 0 ELSE 1
    BY <2>11 DEF FirstBase, FirstHead, n
  <2>13. FirstLine(Hunk(a, z).header[1]) = FirstBase
    <3>1. BaseLines(a - 1) + Min({b, 1}) \in Nat
      BY <2>5, <2>8
    <3>2. BaseLines(a - 1) + Min({b, 1}) = 0 <=> BaseLines(z) = 0
      BY <2>5, <2>8, <2>16
    <3>3. BaseLines(z) = 0 <=> BaseLines(n) = 0
      BY <1>2, <2>5, <2>10
    <3>4. QED
      BY <2>6, <2>9, <2>12, <3>1, <3>2, <3>3
  <2>14. FirstLine(Hunk(a, z).header[3]) = FirstHead
    <3>1. HeadLines(a - 1) + Min({h, 1}) \in Nat
      BY <2>5, <2>8
    <3>2. HeadLines(a - 1) + Min({h, 1}) = 0 <=> HeadLines(z) = 0
      BY <2>5, <2>8, <2>16
    <3>3. HeadLines(z) = 0 <=> HeadLines(n) = 0
      BY <1>2, <2>5, <2>10
    <3>4. QED
      BY <2>6, <2>9, <2>12, <3>1, <3>2, <3>3
  <2>15. QED
    BY <2>13, <2>14 DEF a, z
<1>5. QED
  BY <1>3, <1>4

LEMMA SameEof ==
    ASSUME script' = script
    PROVE  base_file_eof' = base_file_eof /\ head_file_eof' = head_file_eof
<1>1. {BaseLines(i) : i \in {j \in DOMAIN script : script[j].base # Nothing}}'
        = {BaseLines(i) : i \in {j \in DOMAIN script : script[j].base # Nothing}}
  BY SameLines, Zenon
<1>2. {HeadLines(i) : i \in {j \in DOMAIN script : script[j].head # Nothing}}'
        = {HeadLines(i) : i \in {j \in DOMAIN script : script[j].head # Nothing}}
  BY SameLines, Zenon
<1>3. QED
  BY <1>1, <1>2, Zenon DEF base_file_eof, head_file_eof

LEMMA SamePlace ==
    ASSUME script' = script, with_src' = with_src, segments' = segments,
           base_ln' = base_ln, head_ln' = head_ln, visits' = visits
    PROVE  /\ \A v, c : At(v, c) => At(v, c)'
           /\ Hunks' = Hunks
           /\ traverse_finished => traverse_finished'
<1>1. ASSUME NEW v, NEW c, At(v, c) PROVE At(v, c)'
  <2>1. visits' = [k \in 1..v |-> Told(k)']
    BY <1>1, SameTold DEF At
  <2>2. base_ln' = BaseLines(v)' + FirstBase' /\ head_ln' = HeadLines(v)' + FirstHead'
    BY <1>1, SameLines DEF At
  <2>3. Behind(c, v)'
    BY <1>1, SameHunks DEF At
  <2>4. segments' = [j \in 1..(Hunks' - c) |-> Rest(c + j, v)']
    BY <1>1, SameHunks DEF At
  <2>5. QED
    BY <2>1, <2>2, <2>3, <2>4 DEF At
<1>2. Hunks' = Hunks
  BY SameHunks
<1>3. traverse_finished => traverse_finished'
  BY SameTold, SameEof DEF traverse_finished
<1>4. QED
  BY <1>1, <1>2, <1>3

LEMMA WalkStarts == FileInit => WalkInv
<1>1. <<>> \in Seq(Cells)
  OBVIOUS
<1>2. QED
  BY <1>1 DEF FileInit, WalkInv

LEMMA ExtendKeepsWalk ==
    ASSUME WalkInv, NEW cell \in Cells, Extend(cell)
    PROVE  WalkInv'
<1>1. script' \in Seq(Cells)
  BY DEF Extend, WalkInv
<1>2. /\ phase' = phase /\ phase = "edit" /\ with_src' = with_src
      /\ visits' = visits /\ base_ln' = base_ln /\ head_ln' = head_ln
  BY DEF Extend
<1>3. QED
  BY <1>1, <1>2 DEF WalkInv

LEMMA BeginKeepsWalk ==
    ASSUME WalkInv, NEW source \in BOOLEAN, Begin(source)
    PROVE  WalkInv'
<1>1. /\ script \in Seq(Cells) /\ visits = <<>>
      /\ script' = script /\ visits' = visits /\ phase' = "apply" /\ with_src' = source
      /\ segments' = Diff
      /\ base_ln' = IF Diff = <<>> THEN 1 ELSE FirstLine(Diff[1].header[1])
      /\ head_ln' = IF Diff = <<>> THEN 1 ELSE FirstLine(Diff[1].header[3])
  BY DEF WalkInv, Begin
<1>2. Hunks \in Nat /\ Len(script) \in Nat
  BY <1>1, HunksAre, LengthIs
<1>3. Diff = [k \in 1..Hunks |-> Hunk(StartOf(k), EndOf(k))]
  BY Zenon DEF Diff, Hunks, StartOf, EndOf
<1>4. \A k \in 1..Hunks :
        /\ StartOf(k) \in 1..Len(script) /\ EndOf(k) \in StartOf(k)..Len(script)
        /\ StartOf(k) \in Nat /\ EndOf(k) \in Nat /\ 0 < StartOf(k) /\ 0 < EndOf(k)
  <2>1. ASSUME NEW k \in 1..Hunks
        PROVE  /\ StartOf(k) \in 1..Len(script) /\ EndOf(k) \in StartOf(k)..Len(script)
               /\ StartOf(k) \in Nat /\ EndOf(k) \in Nat /\ 0 < StartOf(k) /\ 0 < EndOf(k)
    <3>1. StartOf(k) \in 1..Len(script) /\ EndOf(k) \in StartOf(k)..Len(script)
      BY <1>1, HunksAre
    <3>2. QED
      BY <1>2, <3>1
  <2>2. QED
    BY <2>1
<1>5. ASSUME NEW k \in 1..Hunks PROVE Rest(k, 0) = Hunk(StartOf(k), EndOf(k))
  <2>1. Begins(k, 0) = StartOf(k)
    BY <1>4 DEF Begins
  <2>2. Hunk(StartOf(k), EndOf(k))
          = [header |-> Hunk(StartOf(k), EndOf(k)).header,
             lines |-> [i \in 1..(EndOf(k) - StartOf(k) + 1) |-> StartOf(k) + i - 1]]
    BY DEF Hunk
  <2>3. QED
    BY <2>1, <2>2, Zenon DEF Rest
<1>6. Diff = [j \in 1..(Hunks - 0) |-> Rest(0 + j, 0)]
  <2>1. Hunks - 0 = Hunks /\ \A j \in 1..Hunks : 0 + j = j
    BY <1>2
  <2>2. QED
    BY <1>3, <1>5, <2>1
<1>7. Diff = <<>> <=> Hunks = 0
  <2>1. DOMAIN Diff = 1..Hunks
    BY <1>3
  <2>2. Hunks # 0 => 1 \in DOMAIN Diff
    BY <1>2, <2>1
  <2>3. Hunks = 0 => Diff = <<>>
    BY <1>3
  <2>4. QED
    BY <2>2, <2>3
<1>8. base_ln' = FirstBase /\ head_ln' = FirstHead
  <2>1. CASE Hunks = 0
    BY <1>1, <1>7, <2>1, FirstNumbers
  <2>2. CASE Hunks # 0
    <3>1. Hunks > 0 /\ Diff[1] = Hunk(StartOf(1), EndOf(1))
      BY <1>2, <1>3, <2>2
    <3>2. QED
      BY <1>1, <1>7, <2>2, <3>1, FirstNumbers
  <2>3. QED
    BY <2>1, <2>2
<1>9. Behind(0, 0)
  BY <1>2, <1>4 DEF Behind
<1>10. At(0, 0)'
  <2>1. visits' = [k \in 1..0 |-> Told(k)']
    BY <1>1
  <2>2. BaseLines(0) = 0 /\ HeadLines(0) = 0 /\ FirstBase \in Nat /\ FirstHead \in Nat
    BY LinesCount, FirstAre
  <2>3. base_ln' = BaseLines(0)' + FirstBase' /\ head_ln' = HeadLines(0)' + FirstHead'
    BY <1>1, <1>8, <2>2, SameLines
  <2>4. Behind(0, 0)'
    BY <1>1, <1>9, SameHunks
  <2>5. segments' = [j \in 1..(Hunks' - 0) |-> Rest(0 + j, 0)']
    BY <1>1, <1>6, SameHunks
  <2>6. QED
    BY <2>1, <2>3, <2>4, <2>5 DEF At
<1>11. 0 \in 0..Len(script') /\ 0 \in 0..Hunks'
  BY <1>1, <1>2, SameHunks
<1>12. QED
  BY <1>1, <1>10, <1>11 DEF WalkInv

LEMMA VisitKeepsInv ==
    ASSUME WalkInv, Visit
    PROVE  WalkInv'
<1>1. /\ script \in Seq(Cells) /\ with_src \in BOOLEAN /\ phase = "apply"
      /\ script' = script /\ with_src' = with_src /\ phase' = phase
  BY DEF WalkInv, Visit
<1>2. PICK v \in 0..Len(script), c \in 0..Hunks : At(v, c)
  BY <1>1 DEF WalkInv
<1>3. PICK w \in 0..Len(script), d \in 0..Hunks : At(w, d)'
  BY <1>1, <1>2, VisitKeepsWalk
<1>4. w \in 0..Len(script') /\ d \in 0..Hunks'
  BY <1>1, SameHunks
<1>5. QED
  BY <1>1, <1>3, <1>4 DEF WalkInv

LEMMA EndKeepsInv ==
    ASSUME WalkInv, EndOfApply
    PROVE  WalkInv'
<1>1. /\ script \in Seq(Cells) /\ with_src \in BOOLEAN /\ phase = "apply"
      /\ script' = script /\ with_src' = with_src /\ segments' = segments
      /\ base_ln' = base_ln /\ head_ln' = head_ln /\ visits' = visits
      /\ \/ traverse_finished /\ phase' = "done"
         \/ ~traverse_finished /\ IndexError /\ phase' = "error"
  BY DEF WalkInv, EndOfApply
<1>2. PICK v \in 0..Len(script), c \in 0..Hunks : At(v, c)
  BY <1>1 DEF WalkInv
<1>3. traverse_finished
  <2>1. ASSUME ~traverse_finished PROVE FALSE
    <3>1. v # Len(script)
      BY <1>1, <1>2, <2>1, EndIsReached
    <3>2. v < Len(script)
      <4>1. v \in Nat /\ Len(script) \in Nat /\ v <= Len(script)
        BY <1>1, LengthIs
      <4>2. \A x, y \in Nat : x <= y => x = y \/ x < y
        OBVIOUS
      <4>3. QED
        BY <3>1, <4>1, <4>2, Zenon
    <3>3. ~IndexError
      BY <1>1, <1>2, <3>2, NoIndexError
    <3>4. QED
      BY <1>1, <2>1, <3>3
  <2>2. QED
    BY <2>1
<1>4. phase' = "done"
  BY <1>1, <1>3
<1>5. traverse_finished' /\ At(v, c)' /\ v \in 0..Len(script') /\ c \in 0..Hunks'
  BY <1>1, <1>2, <1>3, SamePlace
<1>6. QED
  BY <1>1, <1>4, <1>5 DEF WalkInv

LEMMA StutterKeepsInv ==
    ASSUME WalkInv, UNCHANGED fileVars
    PROVE  WalkInv'
<1>1. /\ script' = script /\ with_src' = with_src /\ segments' = segments
      /\ base_ln' = base_ln /\ head_ln' = head_ln /\ visits' = visits /\ phase' = phase
  BY DEF fileVars
<1>2. /\ script' \in Seq(Cells) /\ with_src' \in BOOLEAN
      /\ phase' \in {"edit", "apply", "done"}
      /\ phase' = "edit" => visits' = <<>> /\ base_ln' = 1 /\ head_ln' = 1
  BY <1>1 DEF WalkInv
<1>3. phase' # "edit" => \E v \in 0..Len(script'), c \in 0..Hunks' : At(v, c)'
  <2>1. ASSUME phase # "edit" PROVE \E v \in 0..Len(script'), c \in 0..Hunks' : At(v, c)'
    <3>1. PICK v \in 0..Len(script), c \in 0..Hunks : At(v, c)
      BY <2>1 DEF WalkInv
    <3>2. At(v, c)' /\ v \in 0..Len(script') /\ c \in 0..Hunks'
      BY <1>1, <3>1, SamePlace
    <3>3. QED
      BY <3>2
  <2>2. QED
    BY <1>1, <2>1
<1>4. phase' = "done" => traverse_finished'
  BY <1>1, SamePlace DEF WalkInv
<1>5. QED
  BY <1>2, <1>3, <1>4 DEF WalkInv

LEMMA WalkIsKept == WalkInv /\ [FileNext]_fileVars => WalkInv'
<1> SUFFICES ASSUME WalkInv, [FileNext]_fileVars PROVE WalkInv'
  OBVIOUS
<1>1. ASSUME NEW cell \in Cells, Extend(cell) PROVE WalkInv'
  BY <1>1, ExtendKeepsWalk
<1>2. ASSUME NEW source \in BOOLEAN, Begin(source) PROVE WalkInv'
  BY <1>2, BeginKeepsWalk
<1>3. CASE Visit
  BY <1>3, VisitKeepsInv
<1>4. CASE EndOfApply
  BY <1>4, EndKeepsInv
<1>5. CASE UNCHANGED fileVars
  BY <1>5, StutterKeepsInv
<1>6. QED
  BY <1>1, <1>2, <1>3, <1>4, <1>5 DEF FileNext

\* Between two visits of apply (services/comparison.py:149-170) the counters,
\* the groups of hunks, the visits and the segments are those of one place in
\* the script of the edit, whatever has been popped and read before.
THEOREM WalkIsTrue == FileSpec => []WalkInv
<1>1. QED
  BY WalkStarts, WalkIsKept, PTL DEF FileSpec

-----------------------------------------------------------------------------
(***************************************************************************)
(* What the visitors have been told                                        *)
(***************************************************************************)
LEMMA ToldIs ==
    ASSUME script \in Seq(Cells), with_src \in BOOLEAN, NEW k \in DOMAIN script
    PROVE  /\ k \in Nat \ {0} /\ BaseLines(k) \in Nat /\ HeadLines(k) \in Nat
           /\ InBase(k) => BaseLines(k) > 0
           /\ InHead(k) => HeadLines(k) > 0
           /\ Told(k) \in [base : Nat \cup {Nothing}, head : Nat \cup {Nothing},
                           value : Nat \cup {Nothing}, is_diff : BOOLEAN]
           /\ Told(k).value # Nothing <=> src > 0 \/ InHunk(k)
           /\ Told(k).is_diff = InHunk(k)
           /\ Told(k).base = IF InBase(k) THEN BaseLines(k) ELSE Nothing
           /\ Told(k).head = IF InHead(k) THEN HeadLines(k) ELSE Nothing
           /\ Told(k).value # Nothing => Told(k).value = k
<1>1. k \in Nat \ {0}
  BY LengthIs
<1>2. /\ BaseLines(k) \in Nat /\ HeadLines(k) \in Nat
      /\ BaseLines(k - 1) \in Nat /\ HeadLines(k - 1) \in Nat
  BY <1>1, k - 1 \in Nat, LinesCount
<1>3. (InBase(k) => BaseLines(k) > 0) /\ (InHead(k) => HeadLines(k) > 0)
  <2>1. /\ BaseLines(k) = IF InBase(k) THEN BaseLines(k - 1) + 1 ELSE BaseLines(k - 1)
        /\ HeadLines(k) = IF InHead(k) THEN HeadLines(k - 1) + 1 ELSE HeadLines(k - 1)
    BY <1>1, LinesCount
  <2>2. \A x \in Nat : x + 1 > 0
    OBVIOUS
  <2>3. QED
    BY <1>2, <2>1, <2>2
<1>4. /\ Told(k).value = IF src > 0 \/ InHunk(k) THEN k ELSE Nothing
      /\ Told(k).is_diff = InHunk(k)
      /\ Told(k).base = IF InBase(k) THEN BaseLines(k) ELSE Nothing
      /\ Told(k).head = IF InHead(k) THEN HeadLines(k) ELSE Nothing
  BY DEF Told
<1>5. k # Nothing
  BY <1>1, BoundsAssumption
<1>6. InHunk(k) \in BOOLEAN
  BY DEF InHunk
<1>7. Told(k) \in [base : Nat \cup {Nothing}, head : Nat \cup {Nothing},
                   value : Nat \cup {Nothing}, is_diff : BOOLEAN]
  BY <1>1, <1>2, <1>6 DEF Told
<1>8. QED
  BY <1>1, <1>2, <1>3, <1>4, <1>5, <1>7

LEMMA VisitsAre ==
    ASSUME script \in Seq(Cells), NEW v \in 0..Len(script), NEW c \in 0..Hunks, At(v, c)
    PROVE  /\ DOMAIN visits = 1..v /\ 1..v \subseteq DOMAIN script
           /\ \A k \in DOMAIN visits : visits[k] = Told(k)
<1>1. visits = [k \in 1..v |-> Told(k)]
  BY DEF At
<1>2. 1..v \subseteq DOMAIN script
  BY LengthIs
<1>3. QED
  BY <1>1, <1>2

LEMMA VisitsAreTyped == WalkInv => FileTypeOK /\ EachLineOnce
<1> SUFFICES ASSUME WalkInv PROVE FileTypeOK /\ EachLineOnce
  OBVIOUS
<1>1. script \in Seq(Cells) /\ with_src \in BOOLEAN /\ phase \in {"edit", "apply", "done"}
  BY DEF WalkInv
<1>2. CASE phase = "edit"
  <2>1. visits = <<>> /\ base_ln = 1 /\ head_ln = 1
    BY <1>2 DEF WalkInv
  <2>2. DOMAIN visits = {}
    BY <2>1
  <2>3. base_ln \in Nat /\ head_ln \in Nat
    BY <2>1
  <2>4. FileTypeOK
    BY <1>1, <2>2, <2>3, Zenon DEF FileTypeOK
  <2>5. EachLineOnce
    BY <1>2, <2>2 DEF EachLineOnce
  <2>6. QED
    BY <2>4, <2>5
<1>3. CASE phase # "edit"
  <2>1. PICK v \in 0..Len(script), c \in 0..Hunks : At(v, c)
    BY <1>3 DEF WalkInv
  <2>2. /\ DOMAIN visits = 1..v /\ DOMAIN visits \subseteq DOMAIN script
        /\ \A k \in DOMAIN visits : visits[k] = Told(k)
    BY <1>1, <2>1, VisitsAre
  <2>3. base_ln \in Nat /\ head_ln \in Nat
    <3>1. v \in Nat
      BY <1>1, LengthIs
    <3>2. BaseLines(v) \in Nat /\ HeadLines(v) \in Nat
      BY <3>1, LinesCount
    <3>3. FirstBase \in Nat /\ FirstHead \in Nat
      BY FirstAre
    <3>4. base_ln = BaseLines(v) + FirstBase /\ head_ln = HeadLines(v) + FirstHead
      BY <2>1 DEF At
    <3>5. QED
      BY <3>2, <3>3, <3>4
  <2>4. \A k \in DOMAIN visits :
          visits[k] \in [base : Nat \cup {Nothing}, head : Nat \cup {Nothing},
                         value : Nat \cup {Nothing}, is_diff : BOOLEAN]
    BY <1>1, <2>2, ToldIs, Zenon
  <2>5. FileTypeOK
    BY <1>1, <2>3, <2>4 DEF FileTypeOK
  <2>6. ASSUME phase = "done", NEW k \in DOMAIN script, Told(k).value # Nothing
        PROVE  k \in DOMAIN visits
    <3>1. traverse_finished
      BY <2>6 DEF WalkInv
    <3>2. (InHunk(k) => k <= v) /\ (src > 0 => v = Len(script))
      BY <1>1, <2>1, <3>1, NothingIsMissed
    <3>3. k \in 1..Len(script) /\ Len(script) \in Nat
      BY <1>1, LengthIs
    <3>4. src > 0 \/ InHunk(k)
      BY <1>1, <2>6, ToldIs
    <3>5. k \in 1..v
      BY <3>2, <3>3, <3>4
    <3>6. QED
      BY <2>2, <3>5
  <2>7. EachLineOnce
    BY <1>1, <2>2, <2>6 DEF EachLineOnce
  <2>8. QED
    BY <2>5, <2>7
<1>4. QED
  BY <1>2, <1>3

-----------------------------------------------------------------------------
(***************************************************************************)
(* The change summary                                                      *)
(***************************************************************************)
\* By its number on a side a line is found with its coverage there.
LEMMA CoverIs ==
    ASSUME script \in Seq(Cells), with_src \in BOOLEAN, NEW k \in DOMAIN script
    PROVE  /\ BaseLine(Told(k).base) = script[k].base
           /\ HeadLine(Told(k).head) = script[k].head
<1>1. /\ BaseLines(k) \in Nat /\ HeadLines(k) \in Nat
      /\ InBase(k) => BaseLines(k) > 0
      /\ InHead(k) => HeadLines(k) > 0
      /\ Told(k).base = IF InBase(k) THEN BaseLines(k) ELSE Nothing
      /\ Told(k).head = IF InHead(k) THEN HeadLines(k) ELSE Nothing
  BY ToldIs
<1>2. /\ script[k].base # Nothing => InBase(k)
      /\ script[k].head # Nothing => InHead(k)
  BY Sides
<1>3. /\ base_file_eof \in Nat /\ head_file_eof \in Nat
      /\ script[k].base # Nothing => BaseLines(k) < base_file_eof
      /\ script[k].head # Nothing => HeadLines(k) < head_file_eof
  BY EofIs
<1>4. \A x \in Nat : x # Nothing
  BY BoundsAssumption
<1>5. BaseLine(Told(k).base) = script[k].base
  <2>1. CASE ~InBase(k)
    BY <1>1, <1>2, <2>1 DEF BaseLine
  <2>2. CASE InBase(k)
    <3>1. Told(k).base = BaseLines(k) /\ BaseLines(k) # Nothing /\ BaseLines(k) # 0
      BY <1>1, <1>4, <2>2
    <3>2. BaseIndex(BaseLines(k)) = k
      BY <2>2, IndexIs
    <3>3. BaseLine(BaseLines(k)) =
             IF BaseLines(k) >= base_file_eof \/ base_file_eof = 0 THEN Nothing ELSE script[k].base
      BY <3>1, <3>2 DEF BaseLine
    <3>4. script[k].base # Nothing => ~(BaseLines(k) >= base_file_eof \/ base_file_eof = 0)
      BY <1>1, <1>3
    <3>5. QED
      BY <3>1, <3>3, <3>4, Zenon
  <2>3. QED
    BY <2>1, <2>2
<1>6. HeadLine(Told(k).head) = script[k].head
  <2>1. CASE ~InHead(k)
    BY <1>1, <1>2, <2>1 DEF HeadLine
  <2>2. CASE InHead(k)
    <3>1. Told(k).head = HeadLines(k) /\ HeadLines(k) # Nothing /\ HeadLines(k) # 0
      BY <1>1, <1>4, <2>2
    <3>2. HeadIndex(HeadLines(k)) = k
      BY <2>2, IndexIs
    <3>3. HeadLine(HeadLines(k)) =
             IF HeadLines(k) >= head_file_eof \/ head_file_eof = 0 THEN Nothing ELSE script[k].head
      BY <3>1, <3>2 DEF HeadLine
    <3>4. script[k].head # Nothing => ~(HeadLines(k) >= head_file_eof \/ head_file_eof = 0)
      BY <1>1, <1>3
    <3>5. QED
      BY <3>1, <3>3, <3>4, Zenon
  <2>3. QED
    BY <2>1, <2>2
<1>7. QED
  BY <1>5, <1>6

\* What the walk leaves out no report covers.
LEMMA LeftOut ==
    ASSUME script \in Seq(Cells), with_src \in BOOLEAN,
           NEW v \in 0..Len(script), NEW c \in 0..Hunks, At(v, c), traverse_finished,
           NEW k \in DOMAIN script, v < k
    PROVE  script[k].base = Nothing /\ script[k].head = Nothing
<1>1. /\ v \in Nat /\ k \in Nat /\ Len(script) \in Nat /\ v # Len(script)
      /\ k \in (v + 1)..k
  <2>1. Len(script) \in Nat /\ k \in 1..Len(script) /\ v \in 0..Len(script)
    BY LengthIs
  <2>2. QED
    BY <2>1
<1>2. src = 0 /\ head_ln >= head_file_eof /\ base_ln >= base_file_eof
  <2>1. src \in Nat /\ ~(src > 0)
    BY <1>1, SrcIs, NothingIsMissed
  <2>2. src = 0
    BY <2>1
  <2>3. QED
    BY <2>1, <2>2 DEF traverse_finished
<1>3. base_ln = BaseLines(v) + FirstBase /\ head_ln = HeadLines(v) + FirstHead
  BY DEF At
<1>4. FirstBase \in {0, 1} /\ FirstHead \in {0, 1}
  BY FirstAre
<1>5. /\ BaseLines(v) \in Nat /\ HeadLines(v) \in Nat
      /\ BaseLines(k) \in Nat /\ HeadLines(k) \in Nat
  BY <1>1, LinesCount
<1>6. /\ InBase(k) => BaseLines(v) < BaseLines(k)
      /\ InHead(k) => HeadLines(v) < HeadLines(k)
  BY <1>1, LinesDiffer
<1>7. /\ script[k].base # Nothing => InBase(k)
      /\ script[k].head # Nothing => InHead(k)
  BY Sides
<1>8. /\ base_file_eof \in Nat /\ head_file_eof \in Nat
      /\ script[k].base # Nothing => BaseLines(k) < base_file_eof
      /\ script[k].head # Nothing => HeadLines(k) < head_file_eof
  BY EofIs
<1>9. ASSUME script[k].base # Nothing PROVE FALSE
  <2>1. BaseLines(v) < BaseLines(k) /\ BaseLines(k) < base_file_eof
    BY <1>6, <1>7, <1>8, <1>9
  <2>2. QED
    BY <1>2, <1>3, <1>4, <1>5, <1>8, <2>1
<1>10. ASSUME script[k].head # Nothing PROVE FALSE
  <2>1. HeadLines(v) < HeadLines(k) /\ HeadLines(k) < head_file_eof
    BY <1>6, <1>7, <1>8, <1>10
  <2>2. QED
    BY <1>2, <1>3, <1>4, <1>5, <1>8, <2>1
<1>11. QED
  BY <1>9, <1>10

\* The lines whose coverage changed and that the summary is to count
Changed(i) ==
    /\ script[i].op = "keep"
    /\ src > 0 /\ ~InHunk(i) => ~script[i].signed
    /\ script[i].base # Nothing /\ script[i].head # Nothing
    /\ script[i].base # script[i].head

LEMMA ChangedIs ==
    ASSUME script \in Seq(Cells), with_src \in BOOLEAN, NEW k \in DOMAIN script
    PROVE  Unexpected(Told(k)) <=> Changed(k)
<1>1. /\ BaseLine(Told(k).base) = script[k].base
      /\ HeadLine(Told(k).head) = script[k].head
  BY CoverIs
<1>2. /\ Told(k).value # Nothing <=> src > 0 \/ InHunk(k)
      /\ Told(k).is_diff = InHunk(k)
      /\ Told(k).value # Nothing => Told(k).value = k
  BY ToldIs
<1>3. /\ script[k].op = "keep" <=> InBase(k) /\ InHead(k)
      /\ script[k].base # Nothing => InBase(k)
      /\ script[k].head # Nothing => InHead(k)
  BY Sides
<1>4. CASE script[k].op # "keep"
  <2>1. ~(script[k].base # Nothing /\ script[k].head # Nothing)
    BY <1>3, <1>4
  <2>2. QED
    BY <1>1, <2>1, Zenon DEF Unexpected, Changed
<1>5. CASE script[k].op = "keep"
  <2>1. BeginsWithSign(Told(k)) <=> src > 0 /\ ~InHunk(k) /\ script[k].signed
    <3>1. CASE Told(k).value = Nothing
      BY <1>2, <3>1, Zenon DEF BeginsWithSign
    <3>2. CASE Told(k).value # Nothing /\ InHunk(k)
      BY <1>2, <1>5, <3>2, Zenon DEF BeginsWithSign
    <3>3. CASE Told(k).value # Nothing /\ ~InHunk(k)
      BY <1>2, <3>3, Zenon DEF BeginsWithSign
    <3>4. QED
      BY <3>1, <3>2, <3>3, Zenon
  <2>2. QED
    BY <1>1, <1>5, <2>1, Zenon DEF Unexpected, Changed
<1>6. QED
  BY <1>4, <1>5

LEMMA SummaryIs == WalkInv => SummaryIsTrue
<1> SUFFICES ASSUME WalkInv, phase = "done" PROVE SummaryIsTrue
  BY DEF SummaryIsTrue
<1>1. script \in Seq(Cells) /\ with_src \in BOOLEAN /\ traverse_finished
  BY DEF WalkInv
<1>2. PICK v \in 0..Len(script), c \in 0..Hunks : At(v, c)
  BY DEF WalkInv
<1>3. /\ DOMAIN visits = 1..v /\ DOMAIN visits \subseteq DOMAIN script
      /\ \A k \in DOMAIN visits : visits[k] = Told(k)
  BY <1>1, <1>2, VisitsAre
<1> DEFINE Counted == {i \in DOMAIN visits : Unexpected(visits[i])}
           Due == {i \in DOMAIN script : Changed(i)}
<1>4. ASSUME NEW i \in DOMAIN script, Changed(i) PROVE i \in DOMAIN visits
  <2>1. ~(v < i)
    BY <1>1, <1>2, <1>4, LeftOut DEF Changed
  <2>2. i \in Nat \ {0} /\ v \in Nat
    BY <1>1, LengthIs
  <2>3. QED
    BY <1>3, <2>1, <2>2
<1>5. \A k \in DOMAIN visits : Unexpected(visits[k]) <=> Changed(k)
  BY <1>1, <1>3, ChangedIs, Zenon
<1>6. Counted = Due
  BY <1>3, <1>4, <1>5, Zenon
<1>7. \A i \in Counted : /\ BaseLine(visits[i].base) = script[i].base
                         /\ HeadLine(visits[i].head) = script[i].head
  BY <1>1, <1>3, CoverIs, Zenon
<1>8. Due = {i \in DOMAIN script :
                /\ script[i].op = "keep"
                /\ src > 0 /\ ~InHunk(i) => ~script[i].signed
                /\ script[i].base # Nothing /\ script[i].head # Nothing
                /\ script[i].base # script[i].head}
  BY Zenon DEF Changed
<1>9. change_summary =
        [c1 \in Coverage |->
            Cardinality({i \in Counted : HeadLine(visits[i].head) = c1})
            - Cardinality({i \in Counted : BaseLine(visits[i].base) = c1})]
  BY Zenon DEF change_summary
<1> HIDE DEF Counted, Due
<1>10. ASSUME NEW c1 \in Coverage
       PROVE  change_summary[c1] =
                Cardinality({i \in Due : script[i].head = c1})
                - Cardinality({i \in Due : script[i].base = c1})
  <2>1. {i \in Counted : HeadLine(visits[i].head) = c1} = {i \in Due : script[i].head = c1}
    BY <1>6, <1>7, Zenon
  <2>2. {i \in Counted : BaseLine(visits[i].base) = c1} = {i \in Due : script[i].base = c1}
    BY <1>6, <1>7, Zenon
  <2>3. change_summary[c1] =
            Cardinality({i \in Counted : HeadLine(visits[i].head) = c1})
            - Cardinality({i \in Counted : BaseLine(visits[i].base) = c1})
    BY <1>9, Zenon
  <2>4. QED
    BY <2>1, <2>2, <2>3, Zenon
<1>11. QED
  BY <1>8, <1>10, Zenon DEF SummaryIsTrue

-----------------------------------------------------------------------------
(***************************************************************************)
(* The segments of any lines: the groups of lines of interest, with the    *)
(* padding.                                                                *)
(***************************************************************************)
LEMMA MaxOfOne ==
    ASSUME NEW x \in Int
    PROVE  Max({x, 1}) = IF x >= 1 THEN x ELSE 1
<1> DEFINE m == IF x >= 1 THEN x ELSE 1
<1>1. m \in {x, 1} /\ (\A y \in {x, 1} : m >= y) /\ m \in Int
  OBVIOUS
<1>2. \A z \in {x, 1} : (\A y \in {x, 1} : z >= y) => z = m
  OBVIOUS
<1> HIDE DEF m
<1>3. Max({x, 1}) = m
  BY <1>1, <1>2 DEF Max
<1>4. QED
  BY <1>3 DEF m

LEMMA MinOfTwo ==
    ASSUME NEW x \in Nat, NEW y \in Nat
    PROVE  Min({x, y}) = IF x <= y THEN x ELSE y
<1>1. Min({x, y}) \in {x, y} /\ \A z \in {x, y} : Min({x, y}) <= z
  BY LeastIs
<1>2. QED
  BY <1>1

\* The places of the lines of interest
Interesting(ls) == {i \in DOMAIN ls : OfInterest(ls[i])}

LEMMA InterestingAre ==
    ASSUME NEW X, NEW ls \in Seq(X)
    PROVE  /\ Len(ls) \in Nat /\ DOMAIN ls = 1..Len(ls)
           /\ Interesting(ls) \in SUBSET (1..Len(ls))
           /\ \A S \in SUBSET Interesting(ls) : S \in SUBSET (0..Len(ls)) /\ S \in SUBSET Nat
           /\ \A i \in Interesting(ls) : i \in Nat /\ 1 <= i /\ i <= Len(ls)
           /\ \A i \in DOMAIN ls : OfInterest(ls[i]) <=> i \in Interesting(ls)
<1>1. Len(ls) \in Nat /\ DOMAIN ls = 1..Len(ls)
  OBVIOUS
<1>2. Interesting(ls) \in SUBSET (1..Len(ls))
  BY <1>1, Zenon DEF Interesting
<1>3. \A i \in 1..Len(ls) : i \in 0..Len(ls) /\ i \in Nat /\ 1 <= i /\ i <= Len(ls)
  BY <1>1
<1>4. \A i \in DOMAIN ls : OfInterest(ls[i]) <=> i \in Interesting(ls)
  BY Zenon DEF Interesting
<1>5. \A S \in SUBSET Interesting(ls) : S \in SUBSET (0..Len(ls)) /\ S \in SUBSET Nat
  BY <1>2, <1>3, Zenon
<1>6. \A i \in Interesting(ls) : i \in Nat /\ 1 <= i /\ i <= Len(ls)
  BY <1>2, <1>3, Zenon
<1>7. QED
  BY <1>1, <1>2, <1>4, <1>5, <1>6

\* No line of interest is close before the first of a group.
Alone(ls, a) ==
    \A j \in Interesting(ls) : ~(j < a /\ a - j <= LineDistance)
\* No line of interest is close behind the last of a group.
Ends(ls, z) ==
    \A j \in Interesting(ls) : ~(j > z /\ j - z <= LineDistance)

LEMMA GroupsAre ==
    ASSUME NEW X, NEW ls \in Seq(X)
    PROVE  /\ \A a : a \in GroupStarts(ls) <=> a \in Interesting(ls) /\ Alone(ls, a)
           /\ \A a : GroupEnd(ls, a) = Min({z \in Interesting(ls) : z >= a /\ Ends(ls, z)})
<1>1. \A a : Alone(ls, a) <=>
         \A j \in DOMAIN ls : OfInterest(ls[j]) => ~(j < a /\ a - j <= LineDistance)
  BY Zenon DEF Alone, Interesting
<1>2. \A z : Ends(ls, z) <=>
         \A j \in DOMAIN ls : OfInterest(ls[j]) => ~(j > z /\ j - z <= LineDistance)
  BY Zenon DEF Ends, Interesting
<1>3. \A a : a \in GroupStarts(ls) <=> a \in Interesting(ls) /\ Alone(ls, a)
  BY <1>1, Zenon DEF GroupStarts, Interesting
<1>4. ASSUME NEW a
      PROVE  GroupEnd(ls, a) = Min({z \in Interesting(ls) : z >= a /\ Ends(ls, z)})
  <2>1. {z \in DOMAIN ls : /\ z >= a /\ OfInterest(ls[z])
                           /\ \A j \in DOMAIN ls :
                                OfInterest(ls[j]) => ~(j > z /\ j - z <= LineDistance)}
           = {z \in Interesting(ls) : z >= a /\ Ends(ls, z)}
    BY <1>2, Zenon DEF Interesting
  <2>2. QED
    BY <2>1, Zenon DEF GroupEnd
<1>5. QED
  BY <1>3, <1>4

\* A group ends with its last line of interest; before it none is far from the next.
LEMMA GroupEndIs ==
    ASSUME NEW X, NEW ls \in Seq(X), NEW a \in Interesting(ls)
    PROVE  /\ GroupEnd(ls, a) \in Interesting(ls) /\ a <= GroupEnd(ls, a)
           /\ Ends(ls, GroupEnd(ls, a))
           /\ \A x \in Interesting(ls) : a <= x /\ x < GroupEnd(ls, a) => ~Ends(ls, x)
<1> DEFINE I == Interesting(ls)
           E == {z \in I : z >= a /\ Ends(ls, z)}
<1>1. GroupEnd(ls, a) = Min(E)
  BY GroupsAre
<1>2. I \in SUBSET (0..Len(ls)) /\ Len(ls) \in Nat /\ \A i \in I : i \in Nat
  BY InterestingAre
<1>3. PICK m \in I : \A y \in I : m >= y
  BY <1>2, GreatestIs
<1>4. \A y \in I : ~(y > m)
  BY <1>2, <1>3
<1>5. Ends(ls, m)
  BY <1>4, Zenon DEF Ends
<1>6. m \in E
  BY <1>3, <1>5
<1>7. E \in SUBSET Nat
  BY <1>2, Zenon
<1>8. Min(E) \in E /\ \A y \in E : Min(E) <= y
  BY <1>6, <1>7, LeastIs
<1> DEFINE e == Min(E)
<1> HIDE DEF e
<1>9. e \in I /\ e >= a /\ Ends(ls, e) /\ \A y \in I : y >= a /\ Ends(ls, y) => e <= y
  BY <1>8 DEF e
<1>10. GroupEnd(ls, a) = e
  BY <1>1 DEF e
<1> HIDE DEF E
<1>11. ASSUME NEW x \in I, a <= x, x < e, Ends(ls, x) PROVE FALSE
  <2>1. e <= x
    BY <1>2, <1>9, <1>11
  <2>2. QED
    BY <1>2, <1>9, <1>11, <2>1
<1>12. a <= e
  BY <1>2, <1>9
<1>13. QED
  BY <1>9, <1>10, <1>11, <1>12

\* A group starts far behind the group before it.
LEMMA GroupsApart ==
    ASSUME NEW X, NEW ls \in Seq(X),
           NEW a \in GroupStarts(ls), NEW b \in GroupStarts(ls), a < b
    PROVE  GroupEnd(ls, a) + LineDistance < b
<1> DEFINE I == Interesting(ls)
           e == GroupEnd(ls, a)
<1>1. /\ I \in SUBSET (0..Len(ls)) /\ Len(ls) \in Nat /\ \A i \in I : i \in Nat
      /\ \A S \in SUBSET I : S \in SUBSET (0..Len(ls))
  BY InterestingAre
<1>2. a \in I /\ b \in I /\ Alone(ls, b)
  BY GroupsAre
<1>3. /\ e \in I /\ a <= e
      /\ \A x \in I : a <= x /\ x < e => ~Ends(ls, x)
  BY <1>2, GroupEndIs
<1> HIDE DEF e
<1>4. \A j \in I : ~(j < b /\ b - j <= LineDistance)
  BY <1>2 DEF Alone
<1>5. ASSUME b <= e PROVE FALSE
  <2> DEFINE Before == {x \in I : x < b}
  <2>1. a \in Before /\ Before \in SUBSET (0..Len(ls))
    BY <1>1, <1>2
  <2>2. PICK x \in Before : \A y \in Before : x >= y
    BY <1>1, <2>1, GreatestIs
  <2>3. x \in I /\ x < b /\ a <= x /\ x < e /\ x \in Nat
    BY <1>1, <1>2, <1>3, <1>5, <2>1, <2>2
  <2>4. PICK j \in I : j > x /\ j - x <= LineDistance
    BY <1>3, <2>3, Zenon DEF Ends
  <2>5. ~(j < b)
    <3>1. ~(x >= j)
      BY <1>1, <2>3, <2>4
    <3>2. QED
      BY <2>2, <3>1
  <2>6. b - x <= LineDistance
    BY <1>1, <1>2, <2>3, <2>4, <2>5, DistanceAssumption
  <2>7. QED
    BY <1>4, <2>3, <2>6
<1>6. e < b
  BY <1>1, <1>2, <1>3, <1>5
<1>7. ~(b - e <= LineDistance)
  BY <1>3, <1>4, <1>6
<1>8. e + LineDistance < b
  BY <1>1, <1>2, <1>3, <1>7, DistanceAssumption
<1>9. QED
  BY <1>8 DEF e

\* Every line of interest is in a group.
LEMMA GroupsCover ==
    ASSUME NEW X, NEW ls \in Seq(X), NEW i \in Interesting(ls)
    PROVE  \E a \in GroupStarts(ls) : a <= i /\ i <= GroupEnd(ls, a)
<1> DEFINE I == Interesting(ls)
           Starts == {a \in I : Alone(ls, a) /\ a <= i}
<1>1. /\ I \in SUBSET (0..Len(ls)) /\ Len(ls) \in Nat /\ \A j \in I : j \in Nat
      /\ \A S \in SUBSET I : S \in SUBSET (0..Len(ls)) /\ S \in SUBSET Nat
  BY InterestingAre
<1>2. PICK f \in I : \A y \in I : f <= y
  <2>1. I # {} /\ I \in SUBSET Nat
    BY <1>1
  <2>2. QED
    BY <2>1, LeastIs
<1>3. f \in Starts
  <2>1. f <= i /\ \A j \in I : ~(j < f)
    BY <1>1, <1>2
  <2>2. QED
    BY <2>1, Zenon DEF Alone
<1>4. PICK a \in Starts : \A y \in Starts : a >= y
  <2>1. Starts \in SUBSET I
    OBVIOUS
  <2>2. Starts \in SUBSET (0..Len(ls)) /\ Starts # {}
    BY <1>1, <1>3, <2>1
  <2> HIDE DEF Starts
  <2>3. Max(Starts) \in Starts /\ \A y \in Starts : Max(Starts) >= y
    BY <1>1, <2>2, GreatestIs
  <2>4. QED
    BY <2>3
<1>5. a \in I /\ a <= i /\ a \in GroupStarts(ls)
  BY <1>4, GroupsAre, Zenon
<1> DEFINE e == GroupEnd(ls, a)
<1>6. e \in I /\ a <= e /\ Ends(ls, e)
  BY <1>5, GroupEndIs
<1> HIDE DEF e
<1>7. ASSUME e < i PROVE FALSE
  <2> DEFINE Behind1 == {x \in I : x > e}
  <2>1. i \in Behind1 /\ Behind1 \in SUBSET Nat
    BY <1>1, <1>6, <1>7
  <2>2. PICK j \in Behind1 : \A y \in Behind1 : j <= y
    BY <2>1, LeastIs
  <2>3. j \in I /\ j > e /\ j <= i /\ ~(j - e <= LineDistance)
    BY <1>6, <2>1, <2>2, Zenon DEF Ends
  <2>4. ASSUME NEW x \in I, x < j, j - x <= LineDistance PROVE FALSE
    <3>1. x \in Nat /\ j \in Nat /\ e \in Nat
      BY <1>1, <1>6, <2>3
    <3>2. ~(j <= x)
      BY <2>4, <3>1
    <3>3. ~(x > e)
      BY <2>2, <3>2
    <3>4. j - e <= LineDistance
      BY <2>4, <3>1, <3>3, DistanceAssumption
    <3>5. QED
      BY <2>3, <3>4
  <2>5. j \in Starts
    BY <2>3, <2>4, Zenon DEF Alone
  <2>6. a >= j
    BY <1>4, <2>5
  <2>7. QED
    BY <1>1, <1>5, <1>6, <2>3, <2>6
<1>8. i <= e
  BY <1>1, <1>6, <1>7
<1>9. QED
  BY <1>5, <1>8 DEF e

\* A segment is a group with its padding.
Segment(ls, a) ==
    <<Max({a - PaddingLines, 1}), Min({GroupEnd(ls, a) + PaddingLines, Len(ls)})>>

LEMMA SegmentIs ==
    ASSUME NEW X, NEW ls \in Seq(X), NEW a \in GroupStarts(ls)
    PROVE  LET s == Segment(ls, a)
               e == GroupEnd(ls, a) IN
           /\ s[1] \in 1..a /\ a - PaddingLines <= s[1]
           /\ s[2] \in e..Len(ls) /\ s[2] <= e + PaddingLines
           /\ a \in 1..e /\ e \in a..Len(ls)
<1> DEFINE e == GroupEnd(ls, a)
           n == Len(ls)
           p == Max({a - PaddingLines, 1})
           q == Min({e + PaddingLines, n})
<1>1. a \in Interesting(ls)
  BY GroupsAre
<1>2. e \in Interesting(ls) /\ a <= e
  BY <1>1, GroupEndIs
<1> HIDE DEF e
<1>3. a \in Nat /\ 1 <= a /\ e \in Nat /\ e <= n /\ n \in Nat
  BY <1>1, <1>2, InterestingAre
<1>4. p = IF a - PaddingLines >= 1 THEN a - PaddingLines ELSE 1
  <2>1. a - PaddingLines \in Int
    BY <1>3, DistanceAssumption
  <2>2. QED
    BY <2>1, MaxOfOne
<1>5. q = IF e + PaddingLines <= n THEN e + PaddingLines ELSE n
  <2>1. e + PaddingLines \in Nat
    BY <1>3, DistanceAssumption
  <2>2. QED
    BY <1>3, <2>1, MinOfTwo
<1> HIDE DEF p, q, n
<1>6. p \in 1..a /\ a - PaddingLines <= p
  BY <1>3, <1>4, DistanceAssumption
<1>7. q \in e..n /\ q <= e + PaddingLines
  BY <1>2, <1>3, <1>5, DistanceAssumption
<1>8. Segment(ls, a)[1] = p /\ Segment(ls, a)[2] = q
  BY DEF Segment, p, q, e, n
<1>9. a \in 1..e /\ e \in a..n
  BY <1>2, <1>3
<1>10. QED
  BY <1>6, <1>7, <1>8, <1>9 DEF e, n

LEMMA SegmentsAreGroups ==
    ASSUME NEW ls
    PROVE  \A s : s \in Segments(ls) <=> \E a \in GroupStarts(ls) : s = Segment(ls, a)
  BY Zenon DEF Segments, Segment

LEMMA SliceIs ==
    ASSUME NEW X, NEW ls \in Seq(X), NEW p \in 1..Len(ls), NEW q \in p..Len(ls)
    PROVE  LET part == SubSeq(ls, p, q) IN
           /\ part \in Seq(X) /\ Len(part) = q - p + 1 /\ q - p + 1 \in Nat
           /\ DOMAIN part = 1..(q - p + 1)
           /\ \A i \in 1..(q - p + 1) : part[i] = ls[p + i - 1]
<1>1. Len(ls) \in Nat
  OBVIOUS
<1>2. p \in Nat /\ q \in Nat /\ p >= 1 /\ q >= p /\ q <= Len(ls) /\ q - p + 1 \in Nat
  BY <1>1
<1> DEFINE part == SubSeq(ls, p, q)
<1>3. part = [i \in 1..(q - p + 1) |-> ls[p + i - 1]]
  BY <1>2
<1>4. \A i \in 1..(q - p + 1) : p + i - 1 \in 1..Len(ls)
  BY <1>1, <1>2
<1>5. part \in [1..(q - p + 1) -> X]
  BY <1>3, <1>4
<1> DEFINE n == q - p + 1
<1> HIDE DEF part, n
<1>6. n \in Nat /\ part \in [1..n -> X]
  BY <1>2, <1>5 DEF n
<1>7. part \in Seq(X) /\ Len(part) = n /\ DOMAIN part = 1..n
  BY <1>6
<1>8. QED
  BY <1>2, <1>3, <1>7 DEF part, n

LEMMA SegmentsCover ==
    ASSUME NEW X, NEW ls \in Seq(X)
    PROVE  SegmentsCoverChanges(ls)
<1>1. ASSUME NEW i \in DOMAIN ls, OfInterest(ls[i])
      PROVE  \E s \in Segments(ls) : i \in s[1]..s[2]
  <2>1. i \in Interesting(ls)
    BY <1>1, InterestingAre
  <2>2. PICK a \in GroupStarts(ls) : a <= i /\ i <= GroupEnd(ls, a)
    BY <2>1, GroupsCover
  <2> DEFINE s == Segment(ls, a)
             e == GroupEnd(ls, a)
  <2>3. s[1] \in 1..a /\ s[2] \in e..Len(ls) /\ a \in 1..e /\ e \in a..Len(ls)
    BY SegmentIs
  <2>4. s \in Segments(ls)
    BY SegmentsAreGroups
  <2>5. i \in Nat /\ Len(ls) \in Nat
    BY <2>1, InterestingAre
  <2>6. i <= e
    BY <2>2
  <2> HIDE DEF s, e
  <2>7. i \in s[1]..s[2]
    BY <2>2, <2>3, <2>5, <2>6
  <2>8. QED
    BY <2>4, <2>7
<1>2. ASSUME NEW a \in GroupStarts(ls), NEW b \in GroupStarts(ls), a < b
      PROVE  Segment(ls, a)[2] < Segment(ls, b)[1]
  <2> DEFINE s == Segment(ls, a)
             t == Segment(ls, b)
             e == GroupEnd(ls, a)
  <2>1. s[2] \in e..Len(ls) /\ s[2] <= e + PaddingLines /\ a \in 1..e /\ e \in a..Len(ls)
    BY SegmentIs
  <2>2. t[1] \in 1..b /\ b - PaddingLines <= t[1]
    BY SegmentIs
  <2>3. e + LineDistance < b
    BY <1>2, GroupsApart
  <2>4. b \in Nat /\ Len(ls) \in Nat
    BY GroupsAre, InterestingAre
  <2> HIDE DEF s, t, e
  <2>5. s[2] < t[1]
    BY <2>1, <2>2, <2>3, <2>4, DistanceAssumption
  <2>6. QED
    BY <2>5 DEF s, t
<1>3. ASSUME NEW s \in Segments(ls), NEW t \in Segments(ls), s # t
      PROVE  s[2] < t[1] \/ t[2] < s[1]
  <2>1. PICK a \in GroupStarts(ls) : s = Segment(ls, a)
    BY SegmentsAreGroups
  <2>2. PICK b \in GroupStarts(ls) : t = Segment(ls, b)
    BY SegmentsAreGroups
  <2>3. a \in Nat /\ b \in Nat /\ a # b
    BY <1>3, <2>1, <2>2, GroupsAre, InterestingAre
  <2>4. a < b \/ b < a
    BY <2>3
  <2>5. QED
    BY <1>2, <2>1, <2>2, <2>4
<1>4. ASSUME NEW s \in Segments(ls)
      PROVE  \E filter \in BOOLEAN : s \in ShownSegments(ls, filter)
  <2>1. PICK a \in GroupStarts(ls) : s = Segment(ls, a)
    BY SegmentsAreGroups
  <2>2. a \in Interesting(ls) /\ a \in DOMAIN ls
    BY GroupsAre DEF Interesting
  <2> DEFINE p == s[1]
             q == s[2]
             e == GroupEnd(ls, a)
  <2>3. p \in 1..a /\ q \in e..Len(ls) /\ a \in 1..e /\ e \in a..Len(ls)
    BY <2>1, SegmentIs
  <2>4. a \in Nat /\ Len(ls) \in Nat
    BY <2>2, InterestingAre
  <2> DEFINE part == Slice(ls, s)
             k == a - p + 1
  <2>5. part = SubSeq(ls, p, q)
    BY DEF Slice
  <2> HIDE DEF p, q, e, part
  <2>6. p \in 1..Len(ls) /\ q \in p..Len(ls) /\ k \in 1..(q - p + 1) /\ p + k - 1 = a
    BY <2>3, <2>4
  <2> HIDE DEF k
  <2>7. k \in DOMAIN part /\ part[k] = ls[a]
    BY <2>5, <2>6, SliceIs
  <2>8. OfInterest(part[k])
    BY <2>2, <2>7, InterestingAre
  <2>9. has_diff_changes(part) \/ has_unintended_changes(part)
    BY <2>7, <2>8 DEF OfInterest, has_diff_changes, has_unintended_changes
  <2>10. s \in ShownSegments(ls, TRUE) \/ s \in ShownSegments(ls, FALSE)
    BY <2>9, Zenon DEF ShownSegments, part
  <2>11. QED
    BY <2>10
<1>5. QED
  BY <1>1, <1>3, <1>4 DEF SegmentsCoverChanges

-----------------------------------------------------------------------------
(***************************************************************************)
(* The numbers of some consecutive lines                                   *)
(***************************************************************************)
\* So many of the l numbers behind m are in a set.
LEMMA UptoAdds ==
    ASSUME NEW S, NEW m \in Nat, NEW l \in Nat
    PROVE  Upto(S, m + l) = Upto(S, m) + Cardinality({i \in 1..l : m + i \in S})
<1> DEFINE T == {i \in Nat : m + i \in S}
           Wrong == {k \in Nat : Upto(S, m + k) # Upto(S, m) + Upto(T, k)}
           w == Min(Wrong)
<1>1. Wrong \in SUBSET Nat
  OBVIOUS
<1>2. ASSUME Wrong # {} PROVE FALSE
  <2>1. w \in Wrong /\ \A k \in Wrong : w <= k
    BY <1>1, <1>2, LeastIs
  <2> HIDE DEF w
  <2>2. w \in Nat /\ Upto(S, m + w) # Upto(S, m) + Upto(T, w)
    BY <2>1
  <2>3. Upto(S, m) \in Nat /\ Upto(T, 0) = 0 /\ m + 0 = m
    <3> HIDE DEF T
    <3>1. Upto(S, m) \in Nat /\ Upto(T, 0) = 0
      BY UptoIs, Zenon
    <3>2. QED
      BY <3>1
  <2>4. w # 0
    BY <2>2, <2>3
  <2>5. PICK k \in Nat : w = k + 1
    BY <2>2, <2>4, w - 1 \in Nat
  <2>6. ~(w <= k)
    BY <2>5
  <2>7. Upto(S, m + k) = Upto(S, m) + Upto(T, k)
    BY <2>1, <2>6
  <2>8. Upto(T, k + 1) = IF k + 1 \in T THEN Upto(T, k) + 1 ELSE Upto(T, k)
    BY UptoNext
  <2>9. Upto(S, (m + k) + 1) = IF (m + k) + 1 \in S THEN Upto(S, m + k) + 1 ELSE Upto(S, m + k)
    BY m + k \in Nat, UptoNext
  <2>10. (m + k) + 1 = m + (k + 1) /\ k + 1 \in Nat /\ m + k \in Nat
    OBVIOUS
  <2>11. k + 1 \in T <=> (m + k) + 1 \in S
    BY <2>10
  <2>12. Upto(T, k) \in Nat /\ Upto(S, m + k) \in Nat
    BY <2>10, UptoIs
  <2> HIDE DEF T
  <2>13. Upto(S, m + (k + 1)) = Upto(S, m) + Upto(T, k + 1)
    BY <2>3, <2>7, <2>8, <2>9, <2>10, <2>11, <2>12
  <2>14. QED
    BY <2>2, <2>5, <2>13
<1>3. Upto(S, m + l) = Upto(S, m) + Upto(T, l)
  BY <1>2
<1>4. \A i \in 1..l : i \in Nat
  OBVIOUS
<1>5. {i \in 1..l : i \in T} = {i \in 1..l : m + i \in S}
  BY <1>4, Zenon
<1>6. QED
  BY <1>3, <1>5, Zenon DEF Upto

\* The first of them that is in the set has the next number.
LEMMA FirstNext ==
    ASSUME NEW S, NEW m \in Nat, NEW l \in Nat, NEW f \in 1..l, m + f \in S,
           \A j \in 1..l : m + j \in S => f <= j
    PROVE  Upto(S, m + f) = Upto(S, m) + 1
<1>1. PICK k \in Nat : f = k + 1 /\ m + k \in Nat /\ m + f = (m + k) + 1
  BY f - 1 \in Nat
<1>2. {i \in 1..k : m + i \in S} = {}
  <2>1. \A i \in 1..k : i \in 1..l /\ ~(f <= i)
    BY <1>1
  <2>2. QED
    BY <2>1, Zenon
<1>3. Upto(S, m + k) = Upto(S, m) + 0
  BY <1>2, UptoAdds, FS_EmptySet
<1>4. Upto(S, (m + k) + 1) = IF (m + k) + 1 \in S THEN Upto(S, m + k) + 1 ELSE Upto(S, m + k)
  BY <1>1, UptoNext
<1>5. Upto(S, m) \in Nat
  BY UptoIs
<1>6. QED
  BY <1>1, <1>3, <1>4, <1>5

\* They have the next numbers, each one of them.
LEMMA NumbersBetween ==
    ASSUME NEW S, NEW m \in Nat, NEW l \in Nat
    PROVE  /\ \A i \in 1..l : m + i \in S =>
                 Upto(S, m + i) \in (Upto(S, m) + 1)..Upto(S, m + l)
           /\ \A x \in (Upto(S, m) + 1)..Upto(S, m + l) :
                 \E i \in 1..l : m + i \in S /\ Upto(S, m + i) = x
<1>1. \A k \in Nat : Upto(S, m + k) \in Nat
  <2>1. \A k \in Nat : m + k \in Nat
    OBVIOUS
  <2>2. QED
    BY <2>1, UptoIs, Zenon
<1>2. Upto(S, m) \in Nat /\ m + 0 = m
  <2>1. Upto(S, m) \in Nat
    BY UptoIs, Zenon
  <2>2. QED
    BY <2>1
<1>3. ASSUME NEW i \in 1..l, m + i \in S
      PROVE  Upto(S, m + i) \in (Upto(S, m) + 1)..Upto(S, m + l)
  <2>1. i \in Nat /\ m + i \in Nat /\ m + l \in Nat /\ m + i \in (m + 1)..(m + i) /\ m + i <= m + l
    OBVIOUS
  <2>2. Upto(S, m) < Upto(S, m + i)
    BY <1>3, <2>1, UptoCounts
  <2>3. Upto(S, m + i) <= Upto(S, m + l)
    BY <2>1, UptoGrows
  <2>4. QED
    BY <1>1, <1>2, <2>1, <2>2, <2>3
<1>4. ASSUME NEW x \in (Upto(S, m) + 1)..Upto(S, m + l)
      PROVE  \E i \in 1..l : m + i \in S /\ Upto(S, m + i) = x
  <2> DEFINE Reached == {k \in 0..l : x <= Upto(S, m + k)}
             r == Min(Reached)
  <2>1. l \in Reached
    BY <1>1, <1>2
  <2>2. Reached \in SUBSET Nat
    OBVIOUS
  <2>3. r \in Reached /\ \A k \in Reached : r <= k
    BY <2>1, <2>2, LeastIs
  <2> HIDE DEF r
  <2>4. r \in 0..l /\ x <= Upto(S, m + r)
    BY <2>3
  <2>5. r # 0
    <3>1. ~(x <= Upto(S, m))
      BY <1>1, <1>2
    <3>2. QED
      BY <1>2, <2>4, <3>1
  <2>6. PICK k \in Nat : r = k + 1 /\ k \in 0..l /\ m + k \in Nat /\ m + r = (m + k) + 1
    BY <2>4, <2>5, r - 1 \in Nat
  <2>7. ~(r <= k)
    BY <2>6
  <2>8. ~(x <= Upto(S, m + k))
    BY <2>3, <2>6, <2>7
  <2>9. Upto(S, (m + k) + 1) = IF (m + k) + 1 \in S THEN Upto(S, m + k) + 1 ELSE Upto(S, m + k)
    BY <2>6, UptoNext
  <2>10. Upto(S, m + k) \in Nat /\ x \in Int
    BY <1>1, <1>2
  <2>11. m + r \in S
    BY <2>4, <2>6, <2>8, <2>9
  <2>12. Upto(S, m + r) = Upto(S, m + k) + 1
    BY <2>6, <2>9, <2>11
  <2>13. Upto(S, m + r) = x
    BY <2>4, <2>8, <2>10, <2>12
  <2>14. r \in 1..l
    BY <2>4, <2>5
  <2>15. QED
    BY <2>11, <2>13, <2>14
<1>5. QED
  BY <1>3, <1>4

\* Those of l lines behind m that are on a side, and their numbers
OnSide(S, m, l) == {i \in 1..l : m + i \in S}
Numbers(S, m, l) == {Upto(S, m + i) : i \in OnSide(S, m, l)}
StartNumber(S, m, l) ==
    IF OnSide(S, m, l) = {} THEN 0 ELSE Upto(S, m + Min(OnSide(S, m, l)))

\* A side of a header starts with the number of its first line, and counts them.
LEMMA SideIs ==
    ASSUME NEW S, NEW m \in Nat, NEW l \in Nat
    PROVE  Numbers(S, m, l) =
             StartNumber(S, m, l)
               .. (StartNumber(S, m, l) + Cardinality(OnSide(S, m, l)) - 1)
<1> DEFINE side == OnSide(S, m, l)
           start == StartNumber(S, m, l)
<1>1. Upto(S, m + l) = Upto(S, m) + Cardinality(side)
  BY UptoAdds DEF OnSide
<1>2. Upto(S, m) \in Nat /\ Upto(S, m + l) \in Nat
  BY m + l \in Nat, UptoIs
<1>3. /\ side \in SUBSET Nat /\ side \in SUBSET (0..l)
      /\ \A i : i \in side <=> i \in 1..l /\ m + i \in S
      /\ start = IF side = {} THEN 0 ELSE Upto(S, m + Min(side))
  BY DEF OnSide, StartNumber
<1> DEFINE All == {Upto(S, m + i) : i \in side}
<1>4. All = Numbers(S, m, l)
  BY Zenon DEF Numbers
<1> HIDE DEF side, start
<1>5. CASE side = {}
  <2>1. Cardinality(side) = 0 /\ start = 0 /\ All = {}
    BY <1>3, <1>5, FS_EmptySet
  <2> HIDE DEF All
  <2>2. \A x, y : x = 0 /\ y = 0 => x .. (x + y - 1) = {}
    OBVIOUS
  <2>3. All = start .. (start + Cardinality(side) - 1)
    BY <2>1, <2>2, Zenon
  <2>4. QED
    BY <1>4, <2>3, Zenon DEF side, start
<1>6. CASE side # {}
  <2> DEFINE f == Min(side)
  <2>1. f \in side /\ \A j \in side : f <= j
    BY <1>3, <1>6, LeastIs
  <2>2. start = Upto(S, m + f)
    BY <1>3, <1>6
  <2> HIDE DEF f
  <2>3. f \in 1..l /\ m + f \in S /\ \A j \in 1..l : m + j \in S => f <= j
    BY <1>3, <2>1
  <2>4. Upto(S, m + f) = Upto(S, m) + 1
    BY <2>3, FirstNext
  <2>5. Cardinality(side) \in Nat
    BY <1>3, UpTo
  <2>6. \A x \in All : x \in (Upto(S, m) + 1)..Upto(S, m + l)
    <3>1. \A i \in side : Upto(S, m + i) \in (Upto(S, m) + 1)..Upto(S, m + l)
      <4>1. \A i \in 1..l : m + i \in S =>
                Upto(S, m + i) \in (Upto(S, m) + 1)..Upto(S, m + l)
        BY NumbersBetween
      <4>2. QED
        BY <1>3, <4>1, Zenon
    <3>2. QED
      BY <3>1
  <2>7. \A x \in (Upto(S, m) + 1)..Upto(S, m + l) : x \in All
    <3>1. \A x \in (Upto(S, m) + 1)..Upto(S, m + l) :
            \E i \in 1..l : m + i \in S /\ Upto(S, m + i) = x
      BY NumbersBetween
    <3>2. QED
      BY <1>3, <3>1, Zenon
  <2> HIDE DEF All
  <2>8. All = (Upto(S, m) + 1)..Upto(S, m + l)
    BY <2>6, <2>7
  <2>9. start = Upto(S, m) + 1 /\ start + Cardinality(side) - 1 = Upto(S, m + l)
    BY <1>1, <1>2, <2>2, <2>4, <2>5
  <2>10. QED
    BY <1>4, <2>8, <2>9, Zenon DEF side, start
<1>7. QED
  BY <1>5, <1>6

-----------------------------------------------------------------------------
(***************************************************************************)
(* The lines shown, and the headers of their segments                      *)
(***************************************************************************)
LEMMA ShownAre ==
    ASSUME WalkInv, phase = "done"
    PROVE  \E X : lines \in Seq(X)
<1> DEFINE shown == {i \in DOMAIN visits : visits[i].value # Nothing}
           n == Cardinality(shown)
           X == {lines[k] : k \in 1..n}
<1>1. script \in Seq(Cells)
  BY DEF WalkInv
<1>2. PICK v \in 0..Len(script), c \in 0..Hunks : At(v, c)
  BY DEF WalkInv
<1>3. v \in Nat /\ DOMAIN visits = 1..v
  BY <1>1, <1>2, VisitsAre, LengthIs
<1>4. n \in Nat
  <2>1. shown \in SUBSET (0..v)
    BY <1>3
  <2> HIDE DEF shown
  <2>2. QED
    BY <1>3, <2>1, UpTo
<1>5. lines = [k \in 1..n |-> Line(visits[Nth(shown, k)])]
  BY Zenon DEF lines
<1> HIDE DEF n, shown
<1>6. lines \in [1..n -> X]
  BY <1>5
<1> HIDE DEF X
<1>7. lines \in Seq(X)
  BY <1>4, <1>6
<1>8. QED
  BY <1>7

\* The k-th of the first numbers is k.
LEMMA NthOfAll ==
    ASSUME NEW n \in Nat, NEW k \in 1..n
    PROVE  Cardinality(1..n) = n /\ Nth(1..n, k) = k
<1>1. Cardinality(1..n) = n
  BY FS_Interval
<1>2. 1..n \in SUBSET (0..n)
  OBVIOUS
<1> DEFINE S == 1..n
           j == Nth(S, k)
<1>3. j \in S /\ Rank(S, j) = k - 1
  <2>1. k \in 1..Cardinality(S) /\ S \in SUBSET (0..n)
    BY <1>1, <1>2
  <2> HIDE DEF S
  <2>2. QED
    BY <2>1, NthIs
<1> HIDE DEF j
<1>4. {y \in S : y < j} = 1..(j - 1)
  BY <1>3
<1>5. Cardinality(1..(j - 1)) = j - 1
  BY <1>3, FS_Interval
<1>6. j - 1 = k - 1
  BY <1>3, <1>4, <1>5 DEF Rank
<1>7. j = k
  BY <1>3, <1>6
<1>8. QED
  BY <1>1, <1>7 DEF j

\* With the source all lines are shown.
LEMMA AllAreShown ==
    ASSUME WalkInv, phase = "done", src > 0
    PROVE  /\ script \in Seq(Cells) /\ with_src \in BOOLEAN
           /\ lines = [k \in 1..Len(script) |-> Line(Told(k))]
<1> DEFINE shown == {i \in DOMAIN visits : visits[i].value # Nothing}
           n == Len(script)
<1>1. script \in Seq(Cells) /\ with_src \in BOOLEAN /\ traverse_finished
  BY DEF WalkInv
<1>2. PICK v \in 0..Len(script), c \in 0..Hunks : At(v, c)
  BY DEF WalkInv
<1>3. v = n /\ n \in Nat /\ DOMAIN script = 1..n
  BY <1>1, <1>2, NothingIsMissed, LengthIs
<1>4. DOMAIN visits = 1..n /\ \A k \in 1..n : visits[k] = Told(k)
  BY <1>1, <1>2, <1>3, VisitsAre
<1>5. \A k \in 1..n : Told(k).value # Nothing
  BY <1>1, <1>3, ToldIs
<1>6. shown = 1..n
  BY <1>4, <1>5, Zenon
<1>7. lines = [k \in 1..Cardinality(shown) |-> Line(visits[Nth(shown, k)])]
  BY Zenon DEF lines
<1> HIDE DEF n, shown
<1>8. Cardinality(1..n) = n
  BY <1>3, FS_Interval
<1>9. \A k \in 1..n : Nth(1..n, k) = k
  BY <1>3, NthOfAll
<1>10. lines = [k \in 1..n |-> Line(visits[Nth(1..n, k)])]
  BY <1>6, <1>7, <1>8, Zenon
<1>11. lines = [k \in 1..n |-> Line(Told(k))]
  BY <1>4, <1>9, <1>10
<1>12. QED
  BY <1>1, <1>11 DEF n

\* A line shown is added or removed where it is of one side only.
LEMMA LineIs ==
    ASSUME script \in Seq(Cells), with_src \in BOOLEAN, NEW k \in DOMAIN script
    PROVE  /\ Line(Told(k)).added <=> ~InBase(k)
           /\ Line(Told(k)).removed <=> ~InHead(k)
           /\ InBase(k) \/ InHead(k)
           /\ Line(Told(k)).base_ln = IF InBase(k) THEN BaseLines(k) ELSE Nothing
           /\ Line(Told(k)).head_ln = IF InHead(k) THEN HeadLines(k) ELSE Nothing
           /\ InBase(k) => Line(Told(k)).base_ln \in Nat /\ Line(Told(k)).base_ln # Nothing
           /\ InHead(k) => Line(Told(k)).head_ln \in Nat /\ Line(Told(k)).head_ln # Nothing
<1>1. /\ BaseLines(k) \in Nat /\ HeadLines(k) \in Nat
      /\ Told(k).value # Nothing <=> src > 0 \/ InHunk(k)
      /\ Told(k).is_diff = InHunk(k)
      /\ Told(k).base = IF InBase(k) THEN BaseLines(k) ELSE Nothing
      /\ Told(k).head = IF InHead(k) THEN HeadLines(k) ELSE Nothing
      /\ Told(k).value # Nothing => Told(k).value = k
  BY ToldIs
<1>2. /\ InBase(k) \/ InHead(k)
      /\ ~InHunk(k) => InBase(k) /\ InHead(k)
  BY Sides
<1>3. InHunk(k) => Told(k).value = k
  BY <1>1
<1>4. /\ Line(Told(k)).added <=> Told(k).is_diff /\ script[Told(k).value].op = "add"
      /\ Line(Told(k)).removed <=> Told(k).is_diff /\ script[Told(k).value].op = "del"
      /\ Line(Told(k)).base_ln = Told(k).base
      /\ Line(Told(k)).head_ln = Told(k).head
  BY DEF Line
<1>5. Line(Told(k)).added <=> ~InBase(k)
  BY <1>1, <1>2, <1>3, <1>4 DEF InBase
<1>6. Line(Told(k)).removed <=> ~InHead(k)
  BY <1>1, <1>2, <1>3, <1>4 DEF InHead
<1>7. \A x \in Nat : x # Nothing
  BY BoundsAssumption
<1>8. QED
  BY <1>1, <1>2, <1>4, <1>5, <1>6, <1>7

\* What is left of l when one of two apart is left out, and again counted
LEMMA PartsAre ==
    ASSUME NEW l \in Nat, NEW A \in SUBSET (1..l), NEW B \in SUBSET (1..l), A \cap B = {}
    PROVE  /\ Cardinality(A) \in Nat /\ Cardinality(B) \in Nat
           /\ Cardinality(A \cup B) = Cardinality(A) + Cardinality(B)
           /\ Cardinality((1..l) \ A) = l - Cardinality(A)
<1>1. IsFiniteSet(1..l) /\ Cardinality(1..l) = l
  BY FS_Interval
<1> DEFINE C == (1..l) \ A
<1>2. IsFiniteSet(A) /\ IsFiniteSet(B) /\ IsFiniteSet(C)
  BY <1>1, FS_Subset, C \in SUBSET (1..l)
<1>3. Cardinality(A) \in Nat /\ Cardinality(B) \in Nat /\ Cardinality(C) \in Nat
  BY <1>2, FS_CardinalityType
<1>4. Cardinality({}) = 0
  BY FS_EmptySet
<1>5. Cardinality(A \cup B) = Cardinality(A) + Cardinality(B) - Cardinality(A \cap B)
  BY <1>2, FS_Union
<1>6. A \cup C = 1..l /\ A \cap C = {}
  OBVIOUS
<1>7. Cardinality(A \cup C) = Cardinality(A) + Cardinality(C) - Cardinality(A \cap C)
  BY <1>2, FS_Union
<1> HIDE DEF C
<1>8. Cardinality(A \cup B) = Cardinality(A) + Cardinality(B)
  <2>1. Cardinality(A \cap B) = 0
    BY <1>4, Zenon
  <2>2. \A x, y \in Nat : \A z : z = 0 => x + y - z = x + y
    OBVIOUS
  <2>3. QED
    BY <1>3, <1>5, <2>1, <2>2, Zenon
<1>9. Cardinality(C) = l - Cardinality(A)
  <2>1. Cardinality(A \cap C) = 0 /\ Cardinality(A \cup C) = l
    BY <1>1, <1>4, <1>6, Zenon
  <2>2. \A x, y \in Nat : \A z : z = 0 /\ l = x + y - z => y = l - x
    OBVIOUS
  <2>3. QED
    BY <1>3, <1>7, <2>1, <2>2, Zenon
<1>10. QED
  BY <1>3, <1>8, <1>9 DEF C

\* The header of the lines behind the m-th
LEMMA PartHeaderIs ==
    ASSUME script \in Seq(Cells), with_src \in BOOLEAN, NEW m \in Nat, NEW l \in Nat,
           m + l <= Len(script), NEW part, Len(part) = l, DOMAIN part = 1..l,
           \A i \in 1..l : part[i] = Line(Told(m + i))
    PROVE  LET h == SegmentHeader(part) IN
           /\ {part[i].base_ln : i \in DOMAIN part} \ {Nothing}
                = h.base_start .. (h.base_start + h.base_count - 1)
           /\ {part[i].head_ln : i \in DOMAIN part} \ {Nothing}
                = h.head_start .. (h.head_start + h.head_count - 1)
<1> DEFINE b == OnSide(BaseSide, m, l)
           d == OnSide(HeadSide, m, l)
           added == {i \in 1..l : m + i \notin BaseSide}
           removed == {i \in 1..l : m + i \notin HeadSide}
           h == SegmentHeader(part)
<1>1. ASSUME NEW i \in 1..l
      PROVE  /\ part[i].added <=> m + i \notin BaseSide
             /\ part[i].removed <=> m + i \notin HeadSide
             /\ m + i \in BaseSide \/ m + i \in HeadSide
             /\ part[i].base_ln # Nothing <=> m + i \in BaseSide
             /\ part[i].head_ln # Nothing <=> m + i \in HeadSide
             /\ m + i \in BaseSide => part[i].base_ln = Upto(BaseSide, m + i)
             /\ m + i \in HeadSide => part[i].head_ln = Upto(HeadSide, m + i)
  <2> DEFINE k == m + i
  <2>1. k \in Nat /\ k \in 1..Len(script)
    BY LengthIs
  <2>2. k \in DOMAIN script /\ part[i] = Line(Told(k))
    BY <2>1, LengthIs
  <2> HIDE DEF k
  <2>3. (k \in BaseSide <=> InBase(k)) /\ (k \in HeadSide <=> InHead(k))
    BY <2>1 DEF BaseSide, HeadSide
  <2>4. BaseLines(k) = Upto(BaseSide, k) /\ HeadLines(k) = Upto(HeadSide, k)
    BY <2>1, LinesAre
  <2>5. /\ Line(Told(k)).added <=> ~InBase(k)
        /\ Line(Told(k)).removed <=> ~InHead(k)
        /\ InBase(k) \/ InHead(k)
        /\ Line(Told(k)).base_ln = IF InBase(k) THEN BaseLines(k) ELSE Nothing
        /\ Line(Told(k)).head_ln = IF InHead(k) THEN HeadLines(k) ELSE Nothing
        /\ InBase(k) => Line(Told(k)).base_ln \in Nat /\ Line(Told(k)).base_ln # Nothing
        /\ InHead(k) => Line(Told(k)).head_ln \in Nat /\ Line(Told(k)).head_ln # Nothing
    BY <2>2, LineIs
  <2>6. QED
    BY <2>2, <2>3, <2>4, <2>5, Zenon DEF k
<1> HIDE DEF b, d, added, removed
<1>2. {i \in DOMAIN part : ~part[i].added /\ part[i].base_ln # Nothing} = b
  BY <1>1, Zenon DEF b, OnSide
<1>3. {i \in DOMAIN part : ~part[i].removed /\ part[i].head_ln # Nothing} = d
  BY <1>1, Zenon DEF d, OnSide
<1>4. {i \in DOMAIN part : part[i].added \/ part[i].removed} = added \cup removed
  BY <1>1, Zenon DEF added, removed
<1>5. {i \in DOMAIN part : part[i].removed} = removed
  BY <1>1, Zenon DEF removed
<1>6. {i \in added \cup removed : part[i].added} = added
  BY <1>1, Zenon DEF added, removed
<1>7. /\ h.base_start = IF b = {} THEN 0 ELSE part[Min(b)].base_ln
      /\ h.base_count = l - Cardinality(added \cup removed) + Cardinality(removed)
      /\ h.head_start = IF d = {} THEN 0 ELSE part[Min(d)].head_ln
      /\ h.head_count = l - Cardinality(added \cup removed) + Cardinality(added)
  BY <1>2, <1>3, <1>4, <1>5, <1>6 DEF SegmentHeader
<1> HIDE DEF h
<1>8. /\ added \in SUBSET (1..l) /\ removed \in SUBSET (1..l)
      /\ added \cap removed = {} /\ removed \cap added = {}
      /\ b = (1..l) \ added /\ d = (1..l) \ removed
  BY <1>1, Zenon DEF added, removed, b, d, OnSide
<1>9. /\ Cardinality(added) \in Nat /\ Cardinality(removed) \in Nat
      /\ Cardinality(added \cup removed) = Cardinality(added) + Cardinality(removed)
      /\ Cardinality(b) = l - Cardinality(added)
      /\ Cardinality(d) = l - Cardinality(removed)
  BY <1>8, PartsAre
<1>10. h.base_count = Cardinality(b) /\ h.head_count = Cardinality(d)
  BY <1>7, <1>9
<1>11. /\ b \in SUBSET (1..l) /\ d \in SUBSET (1..l)
       /\ \A i \in b : part[i].base_ln = Upto(BaseSide, m + i)
       /\ \A i \in d : part[i].head_ln = Upto(HeadSide, m + i)
  BY <1>1, Zenon DEF b, d, OnSide
<1>12. /\ b \in SUBSET Nat /\ d \in SUBSET Nat
  BY <1>11
<1>13. h.base_start = StartNumber(BaseSide, m, l)
  BY <1>7, <1>11, <1>12, LeastIs DEF StartNumber, b
<1>14. h.head_start = StartNumber(HeadSide, m, l)
  BY <1>7, <1>11, <1>12, LeastIs DEF StartNumber, d
<1>15. {part[i].base_ln : i \in DOMAIN part} \ {Nothing} = Numbers(BaseSide, m, l)
  <2>1. \A i \in 1..l : i \in b <=> part[i].base_ln # Nothing
    BY <1>1, Zenon DEF b, OnSide
  <2>2. Numbers(BaseSide, m, l) = {Upto(BaseSide, m + i) : i \in b}
    BY Zenon DEF Numbers, b
  <2>3. QED
    BY <1>11, <2>1, <2>2
<1>16. {part[i].head_ln : i \in DOMAIN part} \ {Nothing} = Numbers(HeadSide, m, l)
  <2>1. \A i \in 1..l : i \in d <=> part[i].head_ln # Nothing
    BY <1>1, Zenon DEF d, OnSide
  <2>2. Numbers(HeadSide, m, l) = {Upto(HeadSide, m + i) : i \in d}
    BY Zenon DEF Numbers, d
  <2>3. QED
    BY <1>11, <2>1, <2>2
<1>17. Numbers(BaseSide, m, l) = h.base_start .. (h.base_start + h.base_count - 1)
  <2>1. Numbers(BaseSide, m, l) =
          StartNumber(BaseSide, m, l) .. (StartNumber(BaseSide, m, l) + Cardinality(b) - 1)
    BY SideIs, Zenon DEF b
  <2>2. QED
    BY <1>10, <1>13, <2>1, Zenon
<1>18. Numbers(HeadSide, m, l) = h.head_start .. (h.head_start + h.head_count - 1)
  <2>1. Numbers(HeadSide, m, l) =
          StartNumber(HeadSide, m, l) .. (StartNumber(HeadSide, m, l) + Cardinality(d) - 1)
    BY SideIs, Zenon DEF d
  <2>2. QED
    BY <1>10, <1>14, <2>1, Zenon
<1>19. QED
  BY <1>15, <1>16, <1>17, <1>18, Zenon DEF h

LEMMA HeadersAre == WalkInv => HeaderIsTrue
<1> SUFFICES ASSUME WalkInv, phase = "done", src > 0, NEW s \in Segments(lines)
             PROVE  LET part == Slice(lines, s)
                        h == SegmentHeader(part)
                    IN /\ {part[i].base_ln : i \in DOMAIN part} \ {Nothing}
                            = h.base_start .. (h.base_start + h.base_count - 1)
                       /\ {part[i].head_ln : i \in DOMAIN part} \ {Nothing}
                            = h.head_start .. (h.head_start + h.head_count - 1)
  BY Zenon DEF HeaderIsTrue
<1>1. /\ script \in Seq(Cells) /\ with_src \in BOOLEAN
      /\ lines = [k \in 1..Len(script) |-> Line(Told(k))]
  BY AllAreShown
<1>2. PICK X : lines \in Seq(X)
  BY ShownAre
<1>3. Len(script) \in Nat
  BY <1>1, LengthIs
<1>4. Len(lines) = Len(script)
  <2>1. DOMAIN lines = 1..Len(lines) /\ Len(lines) \in Nat
    BY <1>2
  <2>2. DOMAIN lines = 1..Len(script)
    BY <1>1, Zenon
  <2>3. ASSUME NEW n \in Nat PROVE Cardinality(1..n) = n
    BY FS_Interval
  <2>4. QED
    BY <1>3, <2>1, <2>2, <2>3, Zenon
<1>5. PICK a \in GroupStarts(lines) : s = Segment(lines, a)
  BY SegmentsAreGroups
<1> DEFINE p == s[1]
           q == s[2]
           n == Len(lines)
           e == GroupEnd(lines, a)
<1>6. p \in 1..a /\ q \in e..n /\ a \in 1..e /\ e \in a..n
  BY <1>2, <1>5, SegmentIs
<1>7. n \in Nat
  BY <1>3, <1>4
<1> DEFINE part == Slice(lines, s)
           m == p - 1
           l == q - p + 1
<1>8. part = SubSeq(lines, p, q)
  BY DEF Slice
<1> HIDE DEF p, q, e, part, n
<1>9. p \in 1..n /\ q \in p..n /\ m \in Nat /\ l \in Nat /\ m + l <= n
  BY <1>6, <1>7
<1>10. /\ Len(part) = l /\ DOMAIN part = 1..l
       /\ \A i \in 1..l : part[i] = lines[p + i - 1]
  BY <1>2, <1>8, <1>9, SliceIs DEF n
<1>11. \A i \in 1..l : p + i - 1 = m + i /\ m + i \in 1..n
  BY <1>7, <1>9
<1>12. \A i \in 1..l : part[i] = Line(Told(m + i))
  BY <1>1, <1>4, <1>10, <1>11 DEF n
<1>13. m + l <= Len(script)
  BY <1>4, <1>9 DEF n
<1> HIDE DEF m, l
<1>14. QED
  BY <1>1, <1>9, <1>10, <1>12, <1>13, PartHeaderIs, Zenon DEF part

\* Whatever is compared, when the walk is over each line was shown once, and the summary,
\* the headers and the segments are those of the changes.  (services/comparison.py:61-611)
THEOREM EveryFileIsCompared == FileSpec => []FileIsCompared
<1>1. ASSUME WalkInv, phase = "done" PROVE SegmentsCoverChanges(lines)
  BY <1>1, ShownAre, SegmentsCover
<1>2. WalkInv => FileIsCompared
  BY <1>1, VisitsAreTyped, SummaryIs, HeadersAre DEF FileIsCompared
<1>3. QED
  BY <1>2, WalkIsTrue, PTL
=============================================================================
