----------------------------- MODULE UploadsProofs -----------------------------
(***************************************************************************)
(* Proofs about Uploads, for any number of web workers and commits.        *)
(*                                                                         *)
(* The limit of a commit counts the uploads that have passed the check     *)
(* together with the sessions, and so does what the plan includes with the *)
(* workers that asked it.  A deletion survives because each copy of the    *)
(* row that a request holds is off when it is deleted.                     *)
(***************************************************************************)
EXTENDS Uploads, FiniteSetTheorems, TLAPS

\* What a request does before it creates the session, and for which commit
Passed(j, c) == j.pc \in {"window", "validate", "session"} /\ j.commit = c
Pushes(j, c) == j.pc = "push" /\ j.kind = "v4" /\ j.commit = c
Passing(c) == {w \in Workers : Passed(job[w], c)}

WithinAtOnce ==
    \A c \in Commits :
        sessions[c].open + sessions[c].done + Cardinality(Passing(c))
            <= MaxPerCommit + Cardinality(Workers)

\* Requests about a commit, by the endpoint
ForCommit(j) ==
    /\ j.pc \in {"report", "window", "validate", "session", "push", "send",
                 "activate", "reactivate", "insert", "constrain"} => j.commit \in Commits
    /\ j.pc \in {"window", "validate", "session"} => j.kind = "v4"
    /\ j.pc \in {"reactivate", "insert", "constrain"} => j.kind = "legacy"

Gone(row) == row.deleted => ~row.active /\ ~row.activated /\ row.renamed > 0
Copy(j) == Gone(j.row) /\ (j.pc = "patch" => ~j.row.deleted)

Inv ==
    /\ TypeOK
    /\ \A w \in Workers : ForCommit(job[w])
    /\ WithinAtOnce
    /\ NothingForgotten
    /\ Gone(repo)
    /\ \A w \in Workers : Copy(job[w])

\* How a step of one worker changes the counts
Ind(b) == IF b THEN 1 ELSE 0

-----------------------------------------------------------------------------
(* Counting *)

LEMMA SetsDifferInOne ==
    ASSUME NEW S, NEW T, NEW x, IsFiniteSet(S), T \ {x} = S \ {x}
    PROVE  /\ IsFiniteSet(T) /\ Cardinality(S) \in Nat /\ Cardinality(T) \in Nat
           /\ Cardinality(T) + Ind(x \in S) = Cardinality(S) + Ind(x \in T)
<1> DEFINE R == S \ {x}
<1>1. IsFiniteSet(R)
  BY FS_Subset
<1>2. S = R \/ S = R \cup {x}
  OBVIOUS
<1>3. T = R \/ T = R \cup {x}
  OBVIOUS
<1>4. /\ IsFiniteSet(R \cup {x})
      /\ Cardinality(R \cup {x}) = Cardinality(R) + 1
      /\ Cardinality(R) \in Nat
  <2>1. x \notin R
    OBVIOUS
  <2>2. QED
    BY <1>1, <2>1, FS_AddElement, FS_CardinalityType
<1>5. /\ x \in S => S = R \cup {x}
      /\ x \notin S => S = R
      /\ x \in T => T = R \cup {x}
      /\ x \notin T => T = R
  OBVIOUS
<1> HIDE DEF R
<1>6. CASE x \in S
  <2>1. Cardinality(S) = Cardinality(R) + 1 /\ Ind(x \in S) = 1
    BY <1>4, <1>5, <1>6 DEF Ind
  <2>2. CASE x \in T
    <3>1. T = S
      BY <1>5, <1>6, <2>2
    <3>2. QED
      BY <1>4, <2>1, <3>1 DEF Ind
  <2>3. CASE x \notin T
    <3>1. T = R /\ Ind(x \in T) = 0
      BY <1>5, <2>3 DEF Ind
    <3>2. QED
      BY <1>1, <1>4, <2>1, <3>1
  <2>4. QED
    BY <2>2, <2>3
<1>7. CASE x \notin S
  <2>1. S = R /\ Ind(x \in S) = 0
    BY <1>5, <1>7 DEF Ind
  <2>2. CASE x \in T
    <3>1. Cardinality(T) = Cardinality(R) + 1 /\ IsFiniteSet(T) /\ Ind(x \in T) = 1
      BY <1>4, <1>5, <2>2 DEF Ind
    <3>2. QED
      BY <1>4, <2>1, <3>1
  <2>3. CASE x \notin T
    <3>1. T = R /\ Ind(x \in T) = 0
      BY <1>5, <2>3 DEF Ind
    <3>2. QED
      BY <1>1, <1>4, <2>1, <3>1
  <2>4. QED
    BY <2>2, <2>3
<1>8. QED
  BY <1>6, <1>7

LEMMA CountsOfAJob ==
    ASSUME NEW w \in Workers, \A v \in Workers \ {w} : job'[v] = job[v],
           NEW c \in Commits
    PROVE  /\ Cardinality(Passing(c)) \in Nat /\ Cardinality(Passing(c)') \in Nat
           /\ Cardinality(Pushing(c)) \in Nat /\ Cardinality(Pushing(c)') \in Nat
           /\ Cardinality(Passing(c)') + Ind(Passed(job[w], c))
                = Cardinality(Passing(c)) + Ind(Passed(job'[w], c))
           /\ Cardinality(Pushing(c)') + Ind(Pushes(job[w], c))
                = Cardinality(Pushing(c)) + Ind(Pushes(job'[w], c))
<1>1. IsFiniteSet(Passing(c)) /\ IsFiniteSet(Pushing(c))
  BY FS_Subset, WorkersAssumption DEF Passing, Pushing
<1>2. /\ Passing(c)' \ {w} = Passing(c) \ {w}
      /\ (w \in Passing(c)) = Passed(job[w], c)
      /\ (w \in Passing(c)') = Passed(job'[w], c)
  BY DEF Passing, Passed
<1>3. /\ Pushing(c)' \ {w} = Pushing(c) \ {w}
      /\ (w \in Pushing(c)) = Pushes(job[w], c)
      /\ (w \in Pushing(c)') = Pushes(job'[w], c)
  BY DEF Pushing, Pushes
<1>4. /\ Cardinality(Passing(c)) \in Nat /\ Cardinality(Passing(c)') \in Nat
      /\ Cardinality(Passing(c)') + Ind(w \in Passing(c))
           = Cardinality(Passing(c)) + Ind(w \in Passing(c)')
  BY <1>1, <1>2, SetsDifferInOne
<1>5. /\ Cardinality(Pushing(c)) \in Nat /\ Cardinality(Pushing(c)') \in Nat
      /\ Cardinality(Pushing(c)') + Ind(w \in Pushing(c))
           = Cardinality(Pushing(c)) + Ind(w \in Pushing(c)')
  BY <1>1, <1>3, SetsDifferInOne
<1>6. QED
  BY <1>2, <1>3, <1>4, <1>5

\* If no request moves, the counts stay.
LEMMA CountsStay ==
    ASSUME job' = job, NEW c \in Commits
    PROVE  Passing(c)' = Passing(c) /\ Pushing(c)' = Pushing(c) /\ Sending(c)' = Sending(c)
  BY DEF Passing, Pushing, Sending, Passed

LEMMA SendersStay ==
    ASSUME NEW w \in Workers, \A v \in Workers \ {w} : job'[v] = job[v],
           NEW c \in Commits, Sending(c) # {},
           job[w].pc = "send" /\ job[w].commit = c => job'[w].pc = "send" /\ job'[w].commit = c
    PROVE  Sending(c)' # {}
  BY DEF Sending

\* A step of w that neither creates a session nor touches the queue
LEMMA NoneEnters ==
    ASSUME TypeOK, WithinAtOnce, UNCHANGED sessions,
           NEW w \in Workers, \A v \in Workers \ {w} : job'[v] = job[v],
           \A c \in Commits : Passed(job'[w], c) => Passed(job[w], c)
    PROVE  WithinAtOnce'
<1> SUFFICES ASSUME NEW c \in Commits
             PROVE  (sessions[c].open + sessions[c].done + Cardinality(Passing(c)))'
                      <= MaxPerCommit + Cardinality(Workers)
  BY DEF WithinAtOnce
<1>1. Ind(Passed(job[w], c)) \in Nat /\ Ind(Passed(job'[w], c)) \in Nat
  BY DEF Ind
<1>2. Ind(Passed(job'[w], c)) <= Ind(Passed(job[w], c))
  BY DEF Ind
<1>3. /\ Cardinality(Passing(c)) \in Nat /\ Cardinality(Passing(c)') \in Nat
      /\ Cardinality(Passing(c)') <= Cardinality(Passing(c))
  BY <1>1, <1>2, CountsOfAJob
<1>4. /\ sessions[c].open \in Nat /\ sessions[c].done \in Nat
      /\ sessions[c].open + sessions[c].done + Cardinality(Passing(c))
           <= MaxPerCommit + Cardinality(Workers)
  BY DEF TypeOK, Sessions, WithinAtOnce
<1>5. MaxPerCommit + Cardinality(Workers) \in Nat
  BY LimitAssumption, WorkersAssumption, FS_CardinalityType
<1>6. QED
  BY <1>3, <1>4, <1>5

LEMMA NonePushes ==
    ASSUME NothingForgotten, UNCHANGED <<sessions, list, tasks>>,
           NEW w \in Workers, \A v \in Workers \ {w} : job'[v] = job[v],
           job[w].pc \notin {"push", "send"}, job'[w].pc # "push" \/ job'[w].kind # "v4"
    PROVE  NothingForgotten'
<1> SUFFICES ASSUME NEW c \in Commits
             PROVE  (/\ sessions[c].open = list[c].v4 + Cardinality(Pushing(c))
                     /\ list[c].v4 + list[c].legacy > 0 => tasks[c] > 0 \/ Sending(c) # {})'
  BY DEF NothingForgotten
<1>1. Cardinality(Pushing(c)') = Cardinality(Pushing(c))
  <2>1. Ind(Pushes(job[w], c)) = 0 /\ Ind(Pushes(job'[w], c)) = 0
    BY DEF Ind, Pushes
  <2>2. QED
    BY <2>1, CountsOfAJob
<1>2. Sending(c) # {} => Sending(c)' # {}
  BY SendersStay
<1>3. QED
  BY <1>1, <1>2 DEF NothingForgotten

-----------------------------------------------------------------------------
(* Types *)

LEMMA JobTypes ==
    ASSUME TypeOK, NEW w \in Workers
    PROVE  /\ job[w] \in Job
           /\ job[w].row \in Row /\ job[w].meter \in BOOLEAN
           /\ job[w].commit \in Commits \cup {"none"}
           /\ NewRow \in Row /\ NoJob \in Job
  BY DEF TypeOK, Job, Row, NoJob, NewRow

LEMMA RowTypes ==
    ASSUME NEW row \in Row, NEW b \in BOOLEAN, NEW d \in BOOLEAN, NEW n \in Nat
    PROVE  /\ Activated(row) \in Row
           /\ [row EXCEPT !.private = FALSE, !.activated = FALSE] \in Row
           /\ [row EXCEPT !.private = TRUE] \in Row
           /\ [row EXCEPT !.active = b, !.activated = d] \in Row
           /\ [row EXCEPT !.deleted = TRUE, !.activated = FALSE, !.active = FALSE,
                          !.renamed = n] \in Row
           /\ row.renamed \in Nat
<1>1. Activated(row) \in Row
  BY DEF Activated, Row
<1>2. [row EXCEPT !.private = FALSE, !.activated = FALSE] \in Row
  BY DEF Row
<1>3. [row EXCEPT !.private = TRUE] \in Row
  BY DEF Row
<1>4. [row EXCEPT !.active = b, !.activated = d] \in Row
  BY DEF Row
<1>5. [row EXCEPT !.deleted = TRUE, !.activated = FALSE, !.active = FALSE,
                  !.renamed = n] \in Row
  BY DEF Row
<1>6. row.renamed \in Nat
  BY DEF Row
<1>7. QED
  BY <1>1, <1>2, <1>3, <1>4, <1>5, <1>6

LEMMA FirstTypes ==
    ASSUME Init
    PROVE  TypeOK
<1>1. NewRow \in Row
  BY DEF NewRow, Row
<1>2. NoJob \in Job
  BY <1>1 DEF NoJob, Job
<1>3. sessions \in [Commits -> Sessions]
  BY DEF Init, Sessions
<1>4. QED
  BY <1>1, <1>2, <1>3, BudgetAssumption DEF Init, TypeOK

LEMMA Spent ==
    ASSUME TypeOK, NEW b \in BudgetKeys, Spend(b)
    PROVE  budget' \in [BudgetKeys -> Nat]
  BY DEF TypeOK, Spend

\* An idle worker begins.
LEMMA AskKeepsTypes ==
    ASSUME TypeOK, NEW w \in Workers, Ask(w)
    PROVE  TypeOK'
<1>0. "report" \in BudgetKeys /\ "request" \in BudgetKeys
  BY DEF BudgetKeys
<1>1. ASSUME NEW c \in Commits, AskReport(w, c) PROVE TypeOK'
  <2>1. [NoJob EXCEPT !.pc = "report", !.commit = c] \in Job
    BY JobTypes DEF Job
  <2>2. job' \in [Workers -> Job]
    BY <1>1, <2>1 DEF AskReport, Begin, TypeOK
  <2>3. QED
    BY <1>0, <1>1, <2>2, Spent DEF AskReport, TypeOK, database, queue
<1>2. ASSUME NEW c \in Commits, AskUpload(w, c) PROVE TypeOK'
  <2>1. [NoJob EXCEPT !.pc = "window", !.kind = "v4", !.commit = c] \in Job
    BY JobTypes DEF Job
  <2>2. job' \in [Workers -> Job]
    BY <1>2, <2>1 DEF AskUpload, Begin, TypeOK
  <2>3. QED
    BY <1>0, <1>2, <2>2, Spent DEF AskUpload, TypeOK, database, queue
<1>3. ASSUME NEW asked \in Commits, NEW c \in Commits, AskLegacy(w, asked, c) PROVE TypeOK'
  <2>1. [NoJob EXCEPT !.pc = "reactivate", !.kind = "legacy",
                      !.commit = c, !.row = repo] \in Job
    BY JobTypes DEF Job, TypeOK
  <2>2. job' \in [Workers -> Job]
    BY <1>3, <2>1 DEF AskLegacy, Begin, TypeOK
  <2>3. QED
    BY <1>0, <1>3, <2>2, Spent DEF AskLegacy, TypeOK, database, queue
<1>4. ASSUME NEW e \in Hooks, Hook(w, e) PROVE TypeOK'
  <2>1. [NoJob EXCEPT !.pc = e, !.row = repo] \in Job
    BY JobTypes DEF Job, TypeOK
  <2>2. job' \in [Workers -> Job]
    BY <1>4, <2>1 DEF Hook, Begin, TypeOK
  <2>3. QED
    BY <1>0, <1>4, <2>2, Spent DEF Hook, TypeOK, database, queue
<1>5. ASSUME AskPatch(w) PROVE TypeOK'
  <2>1. [NoJob EXCEPT !.pc = "patch", !.row = repo] \in Job
    BY JobTypes DEF Job, TypeOK
  <2>2. job' \in [Workers -> Job]
    BY <1>5, <2>1 DEF AskPatch, Begin, TypeOK
  <2>3. QED
    BY <1>0, <1>5, <2>2, Spent DEF AskPatch, TypeOK, database, queue
<1>6. QED
  BY <1>1, <1>2, <1>3, <1>4, <1>5 DEF Ask

\* A worker that goes on, or is done, keeps a job of the right type.
LEMMA GoKeepsTypes ==
    ASSUME TypeOK, NEW w \in Workers,
           NEW to \in {"idle", "report", "window", "validate", "session", "push", "send",
                       "activate", "reactivate", "insert", "constrain", "patch"},
           NEW m \in BOOLEAN, NEW row \in Row
    PROVE  /\ [job EXCEPT ![w].pc = to] \in [Workers -> Job]
           /\ [job EXCEPT ![w].pc = to, ![w].meter = m] \in [Workers -> Job]
           /\ [job EXCEPT ![w].pc = to, ![w].row = row] \in [Workers -> Job]
           /\ [job EXCEPT ![w] = NoJob] \in [Workers -> Job]
<1>1. [job[w] EXCEPT !.pc = to] \in Job
  BY JobTypes DEF Job
<1>2. [job[w] EXCEPT !.pc = to, !.meter = m] \in Job
  BY JobTypes DEF Job
<1>3. [job[w] EXCEPT !.pc = to, !.row = row] \in Job
  BY JobTypes DEF Job
<1>4. job \in [Workers -> Job] /\ NoJob \in Job
  BY JobTypes DEF TypeOK
<1>5. QED
  BY <1>1, <1>2, <1>3, <1>4

LEMMA HandleKeepsTypes ==
    ASSUME TypeOK, NEW w \in Workers, ForCommit(job[w]), Handle(w)
    PROVE  TypeOK'
<1> USE DEF database, queue
<1>1. CASE CheckWindow(w)
  <2>1. Meters(repo.private, job[w].commit) \in BOOLEAN
    BY DEF Meters, TypeOK, Row
  <2>2. job' \in [Workers -> Job]
    <3>1. /\ [job EXCEPT ![w].pc = "validate",
                         ![w].meter = Meters(repo.private, job[w].commit)] \in [Workers -> Job]
          /\ [job EXCEPT ![w] = NoJob] \in [Workers -> Job]
      BY <2>1, GoKeepsTypes, JobTypes
    <3>2. QED
      BY <1>1, <3>1 DEF CheckWindow, Done
  <2>3. QED
    BY <1>1, <2>2 DEF CheckWindow, TypeOK
<1>2. CASE Validate(w)
  <2>1. job' \in [Workers -> Job]
    <3>1. /\ [job EXCEPT ![w].pc = "session", ![w].row = repo] \in [Workers -> Job]
          /\ [job EXCEPT ![w] = NoJob] \in [Workers -> Job]
      BY GoKeepsTypes DEF TypeOK
    <3>2. QED
      BY <1>2, <3>1 DEF Validate, Done
  <2>2. QED
    BY <1>2, <2>1 DEF Validate, TypeOK
<1>3. CASE CreateSession(w)
  <2>1. job' \in [Workers -> Job]
    BY <1>3, GoKeepsTypes, JobTypes DEF CreateSession, Go, TypeOK
  <2>2. job[w].commit \in Commits
    BY <1>3 DEF CreateSession, Go, ForCommit
  <2>3. sessions' \in [Commits -> Sessions]
    BY <1>3, <2>2 DEF CreateSession, TypeOK, Sessions
  <2>4. QED
    BY <1>3, <2>1, <2>2, <2>3 DEF CreateSession, TypeOK
<1>4. CASE Push(w)
  <2>1. job' \in [Workers -> Job]
    BY <1>4, GoKeepsTypes, JobTypes DEF Push, Go, TypeOK
  <2>2. job[w].commit \in Commits
    BY <1>4 DEF Push, Go, ForCommit
  <2>3. list' \in [Commits -> [v4 : Nat, legacy : Nat]]
    BY <1>4, <2>2 DEF Push, TypeOK
  <2>4. QED
    BY <1>4, <2>1, <2>3 DEF Push, TypeOK
<1>5. CASE Send(w)
  <2>1. job' \in [Workers -> Job]
    <3>1. /\ [job EXCEPT ![w].pc = "activate"] \in [Workers -> Job]
          /\ [job EXCEPT ![w] = NoJob] \in [Workers -> Job]
      BY GoKeepsTypes, JobTypes
    <3>2. QED
      BY <1>5, <3>1 DEF Send, Go, Done
  <2>2. job[w].commit \in Commits
    BY <1>5 DEF Send, ForCommit
  <2>3. tasks' \in [Commits -> Nat]
    BY <1>5, <2>2 DEF Send, TypeOK
  <2>4. QED
    BY <1>5, <2>1, <2>3 DEF Send, TypeOK
<1>6. CASE Activate(w)
  <2>1. job' \in [Workers -> Job]
    BY <1>6, GoKeepsTypes, JobTypes DEF Activate, Done, TypeOK
  <2>2. repo' \in Row
    BY <1>6, RowTypes DEF Activate, TypeOK
  <2>3. QED
    BY <1>6, <2>1, <2>2 DEF Activate, TypeOK
<1>7. CASE Reactivate(w)
  <2>1. job' \in [Workers -> Job]
    BY <1>7, GoKeepsTypes, JobTypes DEF Reactivate, Go, TypeOK
  <2>2. repo' \in Row
    BY <1>7, RowTypes DEF Reactivate, TypeOK
  <2>3. QED
    BY <1>7, <2>1, <2>2 DEF Reactivate, TypeOK
<1>8. CASE InsertCommit(w)
  <2>1. job[w].commit \in Commits
    BY <1>8 DEF InsertCommit, ForCommit
  <2>2. job' \in [Workers -> Job]
    <3> DEFINE row == IF job[w].commit \in known THEN repo ELSE job[w].row
    <3>1. row \in Row
      BY JobTypes DEF TypeOK
    <3>2. job' = [job EXCEPT ![w].pc = "constrain", ![w].row = row]
      BY <1>8 DEF InsertCommit, TypeOK
    <3>3. QED
      BY <3>1, <3>2, GoKeepsTypes
  <2>3. QED
    BY <1>8, <2>1, <2>2 DEF InsertCommit, TypeOK
<1>9. CASE Constrain(w)
  <2>1. job' \in [Workers -> Job]
    <3>1. /\ [job EXCEPT ![w].pc = "push"] \in [Workers -> Job]
          /\ [job EXCEPT ![w] = NoJob] \in [Workers -> Job]
      BY GoKeepsTypes, JobTypes
    <3>2. QED
      BY <1>9, <3>1 DEF Constrain, Go, Done
  <2>2. QED
    BY <1>9, <2>1 DEF Constrain, TypeOK
<1>10. CASE InsertReport(w)
  <2>1. job' \in [Workers -> Job]
    BY <1>10, GoKeepsTypes, JobTypes DEF InsertReport, Done, TypeOK
  <2>2. reports' \in [Commits -> Nat]
    <3>1. job[w].commit \in Commits
      BY <1>10 DEF InsertReport, ForCommit
    <3>2. QED
      BY <1>10, <3>1 DEF InsertReport, TypeOK
  <2>3. QED
    BY <1>10, <2>1, <2>2 DEF InsertReport, TypeOK
<1>11. CASE SaveVisibility(w)
  <2>1. job' \in [Workers -> Job]
    BY <1>11, GoKeepsTypes, JobTypes DEF SaveVisibility, Done, TypeOK
  <2>2. repo' \in Row
    BY <1>11, RowTypes, JobTypes DEF SaveVisibility, TypeOK
  <2>3. QED
    BY <1>11, <2>1, <2>2 DEF SaveVisibility, TypeOK
<1>12. CASE SaveDeleted(w)
  <2>1. job' \in [Workers -> Job]
    BY <1>12, GoKeepsTypes, JobTypes DEF SaveDeleted, Done, TypeOK
  <2>2. repo' \in Row
    <3>1. job[w].row.renamed + 1 \in Nat
      BY JobTypes DEF Row
    <3>2. QED
      BY <1>12, <3>1, RowTypes, JobTypes DEF SaveDeleted, TypeOK
  <2>3. QED
    BY <1>12, <2>1, <2>2 DEF SaveDeleted, TypeOK
<1>13. CASE SavePatch(w)
  <2>1. job' \in [Workers -> Job]
    BY <1>13, GoKeepsTypes, JobTypes DEF SavePatch, Done, TypeOK
  <2>2. repo' \in Row
    <3>1. \A b, d \in BOOLEAN : [job[w].row EXCEPT !.active = b, !.activated = d] \in Row
      BY JobTypes DEF Row
    <3>2. QED
      BY <1>13, <3>1 DEF SavePatch
  <2>3. QED
    BY <1>13, <2>1, <2>2 DEF SavePatch, TypeOK
<1>14. QED
  BY <1>1, <1>2, <1>3, <1>4, <1>5, <1>6, <1>7, <1>8, <1>9, <1>10, <1>11, <1>12, <1>13
  DEF Handle, Upload, Legacy

\* What is in the list of a commit is open, as NothingForgotten says.
LEMMA ListedIsOpen ==
    ASSUME TypeOK, NothingForgotten, NEW c \in Commits
    PROVE  /\ sessions[c].open \in Nat /\ sessions[c].done \in Nat
           /\ sessions[c].legacy \in Nat /\ sessions[c].failed \in Nat
           /\ list[c].v4 \in Nat /\ list[c].legacy \in Nat
           /\ sessions[c].open - list[c].v4 \in Nat
           /\ sessions[c].open - list[c].v4 = Cardinality(Pushing(c))
<1>1. IsFiniteSet(Pushing(c))
  BY FS_Subset, WorkersAssumption DEF Pushing
<1>2. Cardinality(Pushing(c)) \in Nat
  BY <1>1, FS_CardinalityType
<1>3. /\ sessions[c].open \in Nat /\ sessions[c].done \in Nat
      /\ sessions[c].legacy \in Nat /\ sessions[c].failed \in Nat
      /\ list[c].v4 \in Nat /\ list[c].legacy \in Nat
  BY DEF TypeOK, Sessions
<1>4. sessions[c].open = list[c].v4 + Cardinality(Pushing(c))
  BY DEF NothingForgotten
<1>5. QED
  BY <1>2, <1>3, <1>4

\* The worker's task: what it does to the sessions of the commit
LEMMA ProcessedSessions ==
    ASSUME TypeOK, NothingForgotten, NEW c \in Commits, Process(c)
    PROVE  /\ sessions' \in [Commits -> Sessions]
           /\ \A d \in Commits \ {c} : sessions'[d] = sessions[d]
           /\ sessions'[c].open = sessions[c].open - list[c].v4
           /\ sessions'[c].done \in Nat
           /\ sessions'[c].done <= sessions[c].done + list[c].v4
           /\ Started(c) \in Nat /\ Started(c)' \in Nat /\ Started(c) <= Started(c)'
<1>1. PICK ok \in 0..list[c].v4, legacyOk \in 0..list[c].legacy :
         sessions' = [sessions EXCEPT
             ![c].open = @ - list[c].v4, ![c].done = @ + ok,
             ![c].legacy = @ + legacyOk,
             ![c].failed = @ + (list[c].v4 - ok) + (list[c].legacy - legacyOk)]
  BY DEF Process
<1> DEFINE open   == sessions[c].open - list[c].v4
           done   == sessions[c].done + ok
           legacy == sessions[c].legacy + legacyOk
           failed == sessions[c].failed + (list[c].v4 - ok) + (list[c].legacy - legacyOk)
           s == [sessions[c] EXCEPT !.open = open, !.done = done, !.legacy = legacy,
                                    !.failed = failed]
<1>2. /\ open \in Nat /\ done \in Nat /\ legacy \in Nat /\ failed \in Nat
      /\ done <= sessions[c].done + list[c].v4
      /\ Started(c) \in Nat /\ Started(c) <= open + done + legacy + failed
  BY ListedIsOpen DEF Started, Count
<1>3. sessions \in [Commits -> Sessions] /\ sessions[c] \in Sessions
  BY DEF TypeOK
<1>4. sessions' = [sessions EXCEPT ![c] = s]
  BY <1>1, <1>3 DEF Sessions
<1> HIDE DEF open, done, legacy, failed
<1>5. s \in Sessions /\ s.open = open /\ s.done = done /\ s.legacy = legacy /\ s.failed = failed
  BY <1>2, <1>3 DEF Sessions
<1> HIDE DEF s
<1>6. /\ sessions' \in [Commits -> Sessions] /\ sessions'[c] = s
      /\ \A d \in Commits \ {c} : sessions'[d] = sessions[d]
  BY <1>3, <1>4, <1>5
<1>7. Started(c)' = open + done + legacy + failed
  BY <1>2, <1>5, <1>6 DEF Started, Count
<1>8. QED
  BY <1>2, <1>5, <1>6, <1>7 DEF open

LEMMA OthersKeepTypes ==
    ASSUME TypeOK, NothingForgotten, NEW c \in Commits,
           CreateCommit(c) \/ Process(c)
    PROVE  TypeOK'
<1> USE DEF database, queue
<1>1. CASE CreateCommit(c)
  BY <1>1 DEF CreateCommit, TypeOK
<1>2. CASE Process(c)
  <2>1. tasks' \in [Commits -> Nat]
    <3>1. tasks[c] \in Nat /\ tasks[c] > 0
      BY <1>2 DEF Process, TypeOK
    <3>2. tasks[c] - 1 \in Nat
      BY <3>1
    <3>3. QED
      BY <1>2, <3>2 DEF Process, TypeOK
  <2>2. reports' \in [Commits -> Nat] /\ list' \in [Commits -> [v4 : Nat, legacy : Nat]]
    BY <1>2 DEF Process, TypeOK
  <2>3. QED
    BY <1>2, <2>1, <2>2, ProcessedSessions DEF Process, TypeOK
<1>3. QED
  BY <1>1, <1>2

-----------------------------------------------------------------------------
(* The step of one worker moves no other. *)

LEMMA OnlyOneMoves ==
    ASSUME TypeOK, NEW w \in Workers, Ask(w) \/ Handle(w)
    PROVE  \A v \in Workers \ {w} : job'[v] = job[v]
<1>1. job \in [Workers -> Job]
  BY DEF TypeOK
<1>2. CASE Ask(w)
  BY <1>1, <1>2 DEF Ask, AskReport, AskUpload, AskLegacy, Hook, AskPatch, Begin
<1>3. CASE Upload(w)
  BY <1>1, <1>3 DEF Upload, CheckWindow, Validate, CreateSession, Push, Send, Activate,
                    Go, Done
<1>4. CASE Legacy(w)
  BY <1>1, <1>4 DEF Legacy, Reactivate, InsertCommit, Constrain, Go, Done
<1>5. CASE InsertReport(w) \/ SaveVisibility(w) \/ SaveDeleted(w) \/ SavePatch(w)
  BY <1>1, <1>5 DEF InsertReport, SaveVisibility, SaveDeleted, SavePatch, Done
<1>6. QED
  BY <1>2, <1>3, <1>4, <1>5 DEF Handle

-----------------------------------------------------------------------------
(* Requests stay about their commit, and copies of the row are off. *)

\* What an idle worker begins
LEMMA Begun ==
    ASSUME TypeOK, NEW w \in Workers, Ask(w)
    PROVE  \/ /\ job'[w].pc \in {"report", "window"} /\ job'[w].commit \in Commits
              /\ job'[w].pc = "window" => job'[w].kind = "v4"
              /\ job'[w].row = NewRow
           \/ /\ job'[w].pc = "reactivate" /\ job'[w].commit \in Commits
              /\ job'[w].kind = "legacy" /\ job'[w].row = repo
           \/ job'[w].pc \in Hooks /\ job'[w].row = repo
           \/ job'[w].pc = "patch" /\ job'[w].row = repo /\ ~repo.deleted
<1>1. job \in [Workers -> Job]
  BY DEF TypeOK
<1>2. ASSUME NEW c \in Commits, AskReport(w, c) \/ AskUpload(w, c)
      PROVE  /\ job'[w].pc \in {"report", "window"} /\ job'[w].commit = c
             /\ job'[w].pc = "window" => job'[w].kind = "v4"
             /\ job'[w].row = NewRow
  <2>1. CASE AskReport(w, c)
    BY <1>1, <2>1 DEF AskReport, Begin, NoJob
  <2>2. CASE AskUpload(w, c)
    BY <1>1, <2>2 DEF AskUpload, Begin, NoJob
  <2>3. QED
    BY <1>2, <2>1, <2>2
<1>3. ASSUME NEW asked \in Commits, NEW c \in Commits, AskLegacy(w, asked, c)
      PROVE  /\ job'[w].pc = "reactivate" /\ job'[w].commit = c
             /\ job'[w].kind = "legacy" /\ job'[w].row = repo
  BY <1>1, <1>3 DEF AskLegacy, Begin, NoJob
<1>4. ASSUME NEW e \in Hooks, Hook(w, e)
      PROVE  job'[w].pc = e /\ job'[w].row = repo
  BY <1>1, <1>4 DEF Hook, Begin, NoJob
<1>5. ASSUME AskPatch(w)
      PROVE  job'[w].pc = "patch" /\ job'[w].row = repo /\ ~repo.deleted
  BY <1>1, <1>5 DEF AskPatch, Begin, NoJob
<1>6. QED
  BY <1>2, <1>3, <1>4, <1>5 DEF Ask

LEMMA JobsKeepTheirCommit ==
    ASSUME TypeOK, \A v \in Workers : ForCommit(job[v]), NEW w \in Workers,
           Ask(w) \/ Handle(w)
    PROVE  \A v \in Workers : ForCommit(job'[v])
<1>1. job \in [Workers -> Job] /\ ForCommit(job[w])
  BY DEF TypeOK
<1>2. SUFFICES ForCommit(job'[w])
  BY OnlyOneMoves
<1>3. CASE Ask(w)
  BY <1>3, Begun DEF ForCommit, Hooks
<1>4. CASE Upload(w)
  BY <1>1, <1>4 DEF Upload, CheckWindow, Validate, CreateSession, Push, Send, Activate,
                    Go, Done, NoJob, ForCommit, Job
<1>5. CASE Legacy(w)
  BY <1>1, <1>5 DEF Legacy, Reactivate, InsertCommit, Constrain, Go, Done, NoJob,
                    ForCommit, Job
<1>6. CASE InsertReport(w) \/ SaveVisibility(w) \/ SaveDeleted(w) \/ SavePatch(w)
  <2>1. job'[w] = NoJob
    BY <1>1, <1>6 DEF InsertReport, SaveVisibility, SaveDeleted, SavePatch, Done
  <2>2. QED
    BY <2>1 DEF NoJob, ForCommit
<1>7. QED
  BY <1>3, <1>4, <1>5, <1>6 DEF Handle

LEMMA CopiesStayGone ==
    ASSUME TypeOK, Gone(repo), \A v \in Workers : Copy(job[v]), NEW w \in Workers,
           Ask(w) \/ Handle(w)
    PROVE  \A v \in Workers : Copy(job'[v])
<1>1. job \in [Workers -> Job] /\ Copy(job[w]) /\ Copy(NoJob)
  BY DEF TypeOK, Copy, Gone, NoJob, NewRow
<1>2. SUFFICES Copy(job'[w])
  BY OnlyOneMoves
<1>3. CASE Ask(w)
  BY <1>3, Begun DEF NewRow, Copy, Gone, Hooks
<1>4. CASE Upload(w)
  BY <1>1, <1>4 DEF Upload, CheckWindow, Validate, CreateSession, Push, Send, Activate,
                    Go, Done, Copy, Job
<1>5. CASE Legacy(w)
  BY <1>1, <1>5 DEF Legacy, Reactivate, InsertCommit, Constrain, Go, Done, Copy, Job
<1>6. CASE InsertReport(w) \/ SaveVisibility(w) \/ SaveDeleted(w) \/ SavePatch(w)
  BY <1>1, <1>6 DEF InsertReport, SaveVisibility, SaveDeleted, SavePatch, Done
<1>7. QED
  BY <1>3, <1>4, <1>5, <1>6 DEF Handle

\* Every way the row is saved
LEMMA RowStaysGone ==
    ASSUME TypeOK, Gone(repo), \A v \in Workers : Copy(job[v]),
           (\E w \in Workers : Ask(w) \/ Handle(w)) \/ SwitchOff
    PROVE  Gone(repo')
<1>1. \A w \in Workers : job[w].row \in Row /\ Copy(job[w])
  BY JobTypes
<1>2. ASSUME NEW w \in Workers, Activate(w) \/ Reactivate(w) PROVE Gone(repo')
  BY <1>2 DEF TypeOK, Row, Activate, Reactivate, Activated, Gone
<1>3. ASSUME NEW w \in Workers, SaveVisibility(w) PROVE Gone(repo')
  BY <1>1, <1>3 DEF Row, SaveVisibility, Copy, Gone
<1>4. ASSUME NEW w \in Workers, SaveDeleted(w) PROVE Gone(repo')
  <2>1. job[w].row.renamed \in Nat
    BY <1>1 DEF Row
  <2>2. QED
    BY <1>4, <2>1 DEF TypeOK, Row, SaveDeleted, Gone
<1>5. ASSUME NEW w \in Workers, SavePatch(w) PROVE Gone(repo')
  BY <1>1, <1>5 DEF Row, SavePatch, Copy, Gone
<1>6. CASE SwitchOff
  BY <1>6 DEF TypeOK, Row, SwitchOff, Gone
<1>7. ASSUME NEW w \in Workers,
             \/ Ask(w) \/ CheckWindow(w) \/ Validate(w) \/ CreateSession(w) \/ Push(w)
             \/ Send(w) \/ InsertCommit(w) \/ Constrain(w) \/ InsertReport(w)
      PROVE  Gone(repo')
  BY <1>7 DEF Ask, AskReport, AskUpload, AskLegacy, Hook, AskPatch, CheckWindow, Validate,
              CreateSession, Push, Send, InsertCommit, Constrain, InsertReport
<1>8. QED
  BY <1>2, <1>3, <1>4, <1>5, <1>6, <1>7 DEF Handle, Upload, Legacy

-----------------------------------------------------------------------------
(* The limit of a commit *)

LEMMA HandleKeepsLimit ==
    ASSUME TypeOK, WithinAtOnce, \A v \in Workers : ForCommit(job[v]),
           NEW w \in Workers, Handle(w)
    PROVE  WithinAtOnce'
<1>1. job \in [Workers -> Job] /\ ForCommit(job[w])
  BY DEF TypeOK
<1>2. CASE ~CreateSession(w)
  <2>1. UNCHANGED sessions
    BY <1>2 DEF Handle, Upload, Legacy, CheckWindow, Validate, Push, Send, Activate,
          Reactivate, InsertCommit, Constrain, InsertReport, SaveVisibility, SaveDeleted,
          SavePatch, database
  <2>2. \A c \in Commits : Passed(job'[w], c) => Passed(job[w], c)
    <3>1. CASE Upload(w)
      BY <1>1, <1>2, <3>1 DEF Upload, CheckWindow, Validate, Push, Send, Activate, Go, Done,
            NoJob, Passed, Job
    <3>2. CASE Legacy(w)
      BY <1>1, <3>2 DEF Legacy, Reactivate, InsertCommit, Constrain, Go, Done, NoJob,
            Passed, Job
    <3>3. CASE InsertReport(w) \/ SaveVisibility(w) \/ SaveDeleted(w) \/ SavePatch(w)
      <4>1. job'[w] = NoJob
        BY <1>1, <3>3 DEF InsertReport, SaveVisibility, SaveDeleted, SavePatch, Done
      <4>2. QED
        BY <4>1 DEF NoJob, Passed
    <3>4. QED
      BY <3>1, <3>2, <3>3 DEF Handle
  <2>3. QED
    BY <2>1, <2>2, OnlyOneMoves, NoneEnters
<1>3. CASE CreateSession(w)
  <2> SUFFICES ASSUME NEW c \in Commits
               PROVE  (sessions[c].open + sessions[c].done + Cardinality(Passing(c)))'
                        <= MaxPerCommit + Cardinality(Workers)
    BY DEF WithinAtOnce
  <2>1. Ind(Passed(job'[w], c)) = 0
    BY <1>1, <1>3 DEF CreateSession, Go, Passed, Ind, Job
  <2>2. /\ sessions[c].open \in Nat /\ sessions[c].done \in Nat
        /\ sessions[c].open + sessions[c].done + Cardinality(Passing(c))
             <= MaxPerCommit + Cardinality(Workers)
    BY DEF TypeOK, Sessions, WithinAtOnce
  <2>3. MaxPerCommit + Cardinality(Workers) \in Nat
    BY LimitAssumption, WorkersAssumption, FS_CardinalityType
  <2>4. CASE job[w].commit = c
    <3>1. Ind(Passed(job[w], c)) = 1
      BY <1>3, <2>4 DEF CreateSession, Go, Passed, Ind
    <3>2. /\ Cardinality(Passing(c)) \in Nat
          /\ Cardinality(Passing(c)') = Cardinality(Passing(c)) - 1
      BY <2>1, <3>1, CountsOfAJob, OnlyOneMoves
    <3>3. sessions'[c].open = sessions[c].open + 1 /\ sessions'[c].done = sessions[c].done
      BY <1>3, <2>4 DEF CreateSession, TypeOK, Sessions
    <3>4. QED
      BY <2>2, <2>3, <3>2, <3>3
  <2>5. CASE job[w].commit # c
    <3>1. Ind(Passed(job[w], c)) = 0
      BY <2>5 DEF Passed, Ind
    <3>2. Cardinality(Passing(c)') = Cardinality(Passing(c))
      BY <2>1, <3>1, CountsOfAJob, OnlyOneMoves
    <3>3. sessions'[c] = sessions[c]
      BY <1>3, <2>5 DEF CreateSession, TypeOK
    <3>4. QED
      BY <2>2, <2>3, <3>2, <3>3
  <2>6. QED
    BY <2>4, <2>5
<1>4. QED
  BY <1>2, <1>3

\* The check of the limit, and the entrance of the one that has passed it
LEMMA AskKeepsLimit ==
    ASSUME TypeOK, WithinAtOnce, NEW w \in Workers, Ask(w)
    PROVE  WithinAtOnce'
<1>1. job \in [Workers -> Job]
  BY DEF TypeOK
<1>2. UNCHANGED sessions
  BY DEF Ask, AskReport, AskUpload, AskLegacy, Hook, AskPatch, database
<1>3. ASSUME NEW c \in Commits, AskUpload(w, c) PROVE WithinAtOnce'
  <2> SUFFICES ASSUME NEW d \in Commits
               PROVE  (sessions[d].open + sessions[d].done + Cardinality(Passing(d)))'
                        <= MaxPerCommit + Cardinality(Workers)
    BY DEF WithinAtOnce
  <2>1. sessions[d].open \in Nat /\ sessions[d].done \in Nat /\ sessions[d].legacy \in Nat
    BY DEF TypeOK, Sessions
  <2>2. CASE d = c
    <3>1. sessions[d].open + sessions[d].done <= MaxPerCommit
      BY <1>3, <2>1, <2>2, LimitAssumption DEF AskUpload, TooMany, Count
    <3>2. /\ Cardinality(Passing(d)') <= Cardinality(Workers)
          /\ Cardinality(Passing(d)') \in Nat /\ Cardinality(Workers) \in Nat
      <4>1. Passing(d)' \subseteq Workers
        BY DEF Passing
      <4>2. IsFiniteSet(Passing(d)')
        BY <4>1, FS_Subset, WorkersAssumption
      <4>3. QED
        BY <4>1, <4>2, FS_Subset, FS_CardinalityType, WorkersAssumption
    <3>3. QED
      BY <1>2, <2>1, <3>1, <3>2, LimitAssumption
  <2>3. CASE d # c
    <3>1. Ind(Passed(job'[w], d)) = 0
      BY <1>1, <1>3, <2>3 DEF AskUpload, Begin, NoJob, Passed, Ind
    <3>2. Ind(Passed(job[w], d)) = 0
      BY <1>3 DEF AskUpload, Begin, Passed, Ind
    <3>3. Cardinality(Passing(d)') = Cardinality(Passing(d))
      BY <3>1, <3>2, CountsOfAJob, OnlyOneMoves
    <3>4. QED
      BY <1>2, <3>3 DEF WithinAtOnce
  <2>4. QED
    BY <2>2, <2>3
<1>4. CASE ~\E c \in Commits : AskUpload(w, c)
  <2>1. \A c \in Commits : ~Passed(job'[w], c)
    BY <1>1, <1>4 DEF Ask, AskReport, AskLegacy, Hook, AskPatch, Begin, NoJob, Passed, Hooks
  <2>2. QED
    BY <1>2, <2>1, OnlyOneMoves, NoneEnters
<1>5. QED
  BY <1>3, <1>4

LEMMA ProcessKeepsLimit ==
    ASSUME TypeOK, WithinAtOnce, NothingForgotten, NEW c \in Commits, Process(c)
    PROVE  WithinAtOnce'
<1> SUFFICES ASSUME NEW d \in Commits
             PROVE  (sessions[d].open + sessions[d].done + Cardinality(Passing(d)))'
                      <= MaxPerCommit + Cardinality(Workers)
  BY DEF WithinAtOnce
<1>1. Passing(d)' = Passing(d) /\ Cardinality(Passing(d)) \in Nat
  <2>1. IsFiniteSet(Passing(d))
    BY FS_Subset, WorkersAssumption DEF Passing
  <2>2. QED
    BY <2>1, CountsStay, FS_CardinalityType DEF Process
<1>2. MaxPerCommit + Cardinality(Workers) \in Nat
  BY LimitAssumption, WorkersAssumption, FS_CardinalityType
<1>3. sessions[d].open + sessions[d].done + Cardinality(Passing(d))
        <= MaxPerCommit + Cardinality(Workers)
  BY DEF WithinAtOnce
<1>4. /\ sessions[d].open \in Nat /\ sessions[d].done \in Nat /\ list[d].v4 \in Nat
      /\ sessions[d].open - list[d].v4 \in Nat
  BY ListedIsOpen
<1>5. CASE d = c
  <2>1. /\ sessions'[d].open = sessions[d].open - list[d].v4
        /\ sessions'[d].done <= sessions[d].done + list[d].v4
        /\ sessions'[d].done \in Nat
    BY <1>5, ProcessedSessions
  <2>2. QED
    BY <1>1, <1>2, <1>3, <1>4, <2>1
<1>6. CASE d # c
  BY <1>1, <1>3, <1>6, ProcessedSessions
<1>7. QED
  BY <1>5, <1>6

-----------------------------------------------------------------------------
(* Sessions, the list and the tasks *)

\* What NothingForgotten says of one commit
Remembered(c) ==
    /\ sessions[c].open = list[c].v4 + Cardinality(Pushing(c))
    /\ list[c].v4 + list[c].legacy > 0 => tasks[c] > 0 \/ Sending(c) # {}

\* The three steps of an upload that change the session, the list or the tasks
LEMMA UploadForgetsNothing ==
    ASSUME TypeOK, NothingForgotten, NEW w \in Workers, ForCommit(job[w]),
           CreateSession(w) \/ Push(w) \/ Send(w), NEW c \in Commits
    PROVE  Remembered(c)'
<1>1. job \in [Workers -> Job] /\ Remembered(c)
  BY DEF TypeOK, NothingForgotten, Remembered
<1>2. /\ sessions[c] \in Sessions /\ sessions[c].open \in Nat
      /\ list[c] \in [v4 : Nat, legacy : Nat] /\ list[c].v4 \in Nat
      /\ list[c].legacy \in Nat /\ tasks[c] \in Nat
  BY DEF TypeOK, Sessions
<1>3. /\ Cardinality(Pushing(c)) \in Nat /\ Cardinality(Pushing(c)') \in Nat
      /\ Cardinality(Pushing(c)') + Ind(Pushes(job[w], c))
           = Cardinality(Pushing(c)) + Ind(Pushes(job'[w], c))
      /\ \A v \in Workers \ {w} : job'[v] = job[v]
  BY CountsOfAJob, OnlyOneMoves DEF Handle, Upload
<1>4. CASE CreateSession(w)
  <2>1. /\ job[w].pc = "session" /\ job[w].kind = "v4"
        /\ job'[w].pc = "push" /\ job'[w].kind = "v4" /\ job'[w].commit = job[w].commit
    BY <1>1, <1>4 DEF CreateSession, Go, ForCommit, Job
  <2>2. Ind(Pushes(job[w], c)) = 0
        /\ Ind(Pushes(job'[w], c)) = IF job[w].commit = c THEN 1 ELSE 0
    BY <2>1 DEF Pushes, Ind
  <2>3. sessions'[c].open = sessions[c].open + IF job[w].commit = c THEN 1 ELSE 0
    BY <1>2, <1>4 DEF CreateSession, TypeOK, Sessions
  <2>4. Sending(c) # {} => Sending(c)' # {}
    BY <1>3, <2>1, SendersStay
  <2>5. UNCHANGED <<list, tasks>>
    BY <1>4 DEF CreateSession, queue
  <2>6. QED
    BY <1>1, <1>2, <1>3, <2>2, <2>3, <2>4, <2>5 DEF Remembered
<1>5. CASE Push(w)
  <2>1. /\ job[w].pc = "push" /\ job'[w].pc = "send" /\ job'[w].commit = job[w].commit
    BY <1>1, <1>5 DEF Push, Go, Job
  <2>2. Ind(Pushes(job'[w], c)) = 0
    BY <2>1 DEF Pushes, Ind
  <2>3. UNCHANGED <<sessions, tasks>>
    BY <1>5 DEF Push, database
  <2>4. CASE job[w].commit # c
    <3>1. list'[c] = list[c] /\ Ind(Pushes(job[w], c)) = 0
      BY <1>5, <2>4 DEF Push, TypeOK, Pushes, Ind
    <3>2. Sending(c) # {} => Sending(c)' # {}
      BY <1>3, <2>1, SendersStay
    <3>3. QED
      BY <1>1, <1>3, <2>2, <2>3, <3>1, <3>2 DEF Remembered
  <2>5. CASE job[w].commit = c
    <3>1. w \in Sending(c)'
      BY <2>1, <2>5 DEF Sending
    <3>2. CASE job[w].kind = "v4"
      <4>1. Ind(Pushes(job[w], c)) = 1
        BY <2>1, <2>5, <3>2 DEF Pushes, Ind
      <4>2. list'[c].v4 = list[c].v4 + 1
        BY <1>2, <1>5, <2>5, <3>2 DEF Push, TypeOK
      <4>3. QED
        BY <1>1, <1>2, <1>3, <2>2, <2>3, <3>1, <4>1, <4>2 DEF Remembered
    <3>3. CASE job[w].kind # "v4"
      <4>1. Ind(Pushes(job[w], c)) = 0
        BY <3>3 DEF Pushes, Ind
      <4>2. list'[c].v4 = list[c].v4
        BY <1>2, <1>5, <2>5, <3>3 DEF Push, TypeOK
      <4>3. QED
        BY <1>1, <1>2, <1>3, <2>2, <2>3, <3>1, <4>1, <4>2 DEF Remembered
    <3>4. QED
      BY <3>2, <3>3
  <2>6. QED
    BY <2>4, <2>5
<1>6. CASE Send(w)
  <2>1. job[w].pc = "send" /\ job'[w].pc \in {"activate", "idle"}
    BY <1>1, <1>6 DEF Send, Go, Done, NoJob, Job
  <2>2. Cardinality(Pushing(c)') = Cardinality(Pushing(c))
    <3>1. Ind(Pushes(job[w], c)) = 0 /\ Ind(Pushes(job'[w], c)) = 0
      BY <2>1 DEF Pushes, Ind
    <3>2. QED
      BY <1>3, <3>1
  <2>3. UNCHANGED <<sessions, list>>
    BY <1>6 DEF Send, database
  <2>4. CASE job[w].commit = c
    <3>1. tasks'[c] = tasks[c] + 1
      BY <1>6, <2>4 DEF Send, TypeOK
    <3>2. QED
      BY <1>1, <1>2, <2>2, <2>3, <3>1 DEF Remembered
  <2>5. CASE job[w].commit # c
    <3>1. tasks'[c] = tasks[c]
      BY <1>6, <2>5 DEF Send, TypeOK
    <3>2. Sending(c) # {} => Sending(c)' # {}
      BY <1>3, <2>5, SendersStay
    <3>3. QED
      BY <1>1, <2>2, <2>3, <3>1, <3>2 DEF Remembered
  <2>6. QED
    BY <2>4, <2>5
<1>7. QED
  BY <1>4, <1>5, <1>6

LEMMA WorkersForgetNothing ==
    ASSUME TypeOK, NothingForgotten, \A v \in Workers : ForCommit(job[v]),
           NEW w \in Workers, Ask(w) \/ Handle(w)
    PROVE  NothingForgotten'
<1>1. job \in [Workers -> Job] /\ ForCommit(job[w])
  BY DEF TypeOK
<1>2. CASE CreateSession(w) \/ Push(w) \/ Send(w)
  BY <1>1, <1>2, UploadForgetsNothing DEF NothingForgotten, Remembered
<1>3. CASE ~(CreateSession(w) \/ Push(w) \/ Send(w))
  <2>1. /\ job[w].pc \notin {"push", "send"}
        /\ job'[w].pc # "push" \/ job'[w].kind # "v4"
    <3>1. CASE Ask(w)
      BY <1>1, <3>1 DEF Ask, AskReport, AskUpload, AskLegacy, Hook, AskPatch, Begin, NoJob, Hooks
    <3>2. CASE CheckWindow(w) \/ Validate(w)
      BY <1>1, <3>2 DEF CheckWindow, Validate, Done, NoJob, Job
    <3>3. CASE Legacy(w)
      BY <1>1, <3>3 DEF Legacy, Reactivate, InsertCommit, Constrain, Go, Done, NoJob, Job,
            ForCommit
    <3>4. CASE Activate(w) \/ InsertReport(w) \/ SaveVisibility(w) \/ SaveDeleted(w) \/ SavePatch(w)
      <4>1. job'[w] = NoJob
        BY <1>1, <3>4 DEF Activate, InsertReport, SaveVisibility, SaveDeleted, SavePatch, Done
      <4>2. job[w].pc \notin {"push", "send"}
        BY <3>4 DEF Activate, InsertReport, SaveVisibility, SaveDeleted, SavePatch
      <4>3. QED
        BY <4>1, <4>2 DEF NoJob
    <3>5. QED
      BY <1>3, <3>1, <3>2, <3>3, <3>4 DEF Handle, Upload
  <2>2. UNCHANGED <<sessions, list, tasks>>
    BY <1>3 DEF Ask, Handle, Upload, Legacy, AskReport, AskUpload, AskLegacy, Hook, AskPatch,
          CheckWindow, Validate, Activate, Reactivate, InsertCommit, Constrain, InsertReport,
          SaveVisibility, SaveDeleted, SavePatch, database, queue
  <2>3. QED
    BY <2>1, <2>2, OnlyOneMoves, NonePushes
<1>4. QED
  BY <1>2, <1>3

LEMMA ProcessForgetsNothing ==
    ASSUME TypeOK, NothingForgotten, NEW c \in Commits, Process(c)
    PROVE  NothingForgotten'
<1> SUFFICES ASSUME NEW d \in Commits
             PROVE  Remembered(d)'
  BY DEF NothingForgotten, Remembered
<1>1. Pushing(d)' = Pushing(d) /\ Sending(d)' = Sending(d) /\ Remembered(d)
  BY CountsStay DEF Process, NothingForgotten, Remembered
<1>2. CASE d = c
  <2>1. list'[d].v4 = 0 /\ list'[d].legacy = 0
    BY <1>2 DEF Process, TypeOK
  <2>2. sessions'[d].open = Cardinality(Pushing(d))
    BY <1>2, ProcessedSessions, ListedIsOpen
  <2>3. Cardinality(Pushing(d)) \in Nat
    BY ListedIsOpen
  <2>4. QED
    BY <1>1, <2>1, <2>2, <2>3 DEF Remembered
<1>3. CASE d # c
  <2>1. list'[d] = list[d] /\ tasks'[d] = tasks[d] /\ sessions'[d] = sessions[d]
    BY <1>3, ProcessedSessions DEF Process, TypeOK
  <2>2. QED
    BY <1>1, <2>1 DEF Remembered
<1>4. QED
  BY <1>2, <1>3

-----------------------------------------------------------------------------
(* What the plan includes *)

\* Web workers that asked the plan and have not created the session
Asked == {w \in Workers : job[w].pc \in {"validate", "session"} /\ job[w].meter}

\* A commit is metered with its first upload, and each is on the plan's account.
PlanInv ==
    /\ metered \subseteq {c \in Commits : Started(c) > 0}
    /\ metered # {} \/ Asked # {} =>
          Cardinality(metered) + Cardinality(Asked) < Monthly + Cardinality(Workers)

LEMMA Finiteness ==
    ASSUME TypeOK
    PROVE  /\ IsFiniteSet(metered) /\ Cardinality(metered) \in Nat
           /\ IsFiniteSet(Asked) /\ Cardinality(Asked) \in Nat
           /\ Cardinality(Asked) <= Cardinality(Workers)
           /\ Cardinality(Workers) \in Nat
<1>1. IsFiniteSet(metered)
  BY CommitsAssumption, FS_Subset DEF TypeOK
<1>2. IsFiniteSet(Asked) /\ Cardinality(Asked) <= Cardinality(Workers)
  BY WorkersAssumption, FS_Subset DEF Asked
<1>3. QED
  BY <1>1, <1>2, WorkersAssumption, FS_CardinalityType

LEMMA UploadedIsFinite ==
    ASSUME TypeOK
    PROVE  IsFiniteSet(Uploaded) /\ Used \in Nat
<1> DEFINE rows == [c \in Commits |-> {c} \X (1..Started(c))]
           T == {{c} \X (1..Started(c)) : c \in Commits}
<1>1. rows \in Surjection(Commits, T)
  BY DEF Surjection
<1>2. IsFiniteSet(T)
  BY <1>1, CommitsAssumption, FS_Surjection
<1>3. ASSUME NEW c \in Commits
      PROVE  IsFiniteSet({c} \X (1..Started(c)))
  <2>1. Started(c) \in Int
    BY DEF TypeOK, Sessions, Started, Count
  <2>2. IsFiniteSet({c}) /\ IsFiniteSet(1..Started(c))
    <3>1. IsFiniteSet({c})
      BY FS_Singleton
    <3>2. IsFiniteSet(1..Started(c))
      BY <2>1, FS_Interval
    <3>3. QED
      BY <3>1, <3>2
  <2>3. QED
    BY <2>2, FS_Product
<1>4. IsFiniteSet(UNION T)
  BY <1>2, <1>3, FS_UNION
<1>5. IsFiniteSet(Uploaded)
  BY <1>4, FS_EmptySet DEF Uploaded
<1>6. QED
  BY <1>5, FS_CardinalityType DEF Used

\* Every commit that is metered has a session of its own.
LEMMA MeteredIsUsed ==
    ASSUME TypeOK, PlanInv, repo.private
    PROVE  Cardinality(metered) <= Used
<1> DEFINE first == [c \in metered |-> <<c, 1>>]
<1>1. ASSUME NEW c \in metered
      PROVE  <<c, 1>> \in Uploaded
  <2>1. c \in Commits /\ Started(c) > 0 /\ Started(c) \in Nat
    BY DEF PlanInv, TypeOK, Sessions, Started, Count
  <2>2. <<c, 1>> \in {c} \X (1..Started(c))
    BY <2>1
  <2>3. QED
    BY <2>1, <2>2 DEF Uploaded
<1>2. first \in Injection(metered, Uploaded)
  BY <1>1 DEF Injection, IsInjective
<1>3. QED
  BY <1>2, UploadedIsFinite, FS_Injection DEF Used

LEMMA StartedGrows ==
    ASSUME TypeOK, NothingForgotten, Next, NEW c \in Commits
    PROVE  Started(c) <= Started(c)'
<1>1. Started(c) \in Nat
  BY DEF TypeOK, Sessions, Started, Count
<1>2. CASE UNCHANGED sessions
  BY <1>1, <1>2 DEF Started, Count
<1>3. ASSUME NEW w \in Workers, CreateSession(w)
      PROVE  Started(c) <= Started(c)'
  <2>1. /\ sessions[c] \in Sessions /\ sessions \in [Commits -> Sessions]
        /\ sessions' = [sessions EXCEPT ![job[w].commit].open = @ + 1]
    BY <1>3 DEF CreateSession, TypeOK
  <2>2. QED
    BY <2>1 DEF Sessions, Started, Count
<1>4. ASSUME NEW d \in Commits, Process(d)
      PROVE  Started(c) <= Started(c)'
  BY <1>1, <1>4, ProcessedSessions DEF Started, Count
<1>5. UNCHANGED sessions \/ (\E w \in Workers : CreateSession(w)) \/ \E d \in Commits : Process(d)
  BY DEF Next, Ask, Handle, Upload, Legacy, AskReport, AskUpload, AskLegacy, Hook, AskPatch,
     CheckWindow, Validate, Push, Send, Activate, Reactivate, InsertCommit, Constrain,
     InsertReport, SaveVisibility, SaveDeleted, SavePatch, CreateCommit, SwitchOff,
     database, queue
<1>6. QED
  BY <1>2, <1>3, <1>4, <1>5

\* Who asks the plan, and what is metered, by each kind of step
LEMMA AskedOrMetered ==
    ASSUME TypeOK, Next
    PROVE  \/ metered' = metered /\ Asked' \subseteq Asked
           \/ \E w \in Workers : CreateSession(w)
           \/ /\ \E w \in Workers : CheckWindow(w)
              /\ metered' = metered /\ repo.private /\ ~UsedUp
<1>1. job \in [Workers -> Job]
  BY DEF TypeOK
<1>2. ASSUME NEW w \in Workers, Ask(w)
      PROVE  metered' = metered /\ Asked' \subseteq Asked
  <2>1. metered' = metered
    BY <1>2 DEF Ask, AskReport, AskUpload, AskLegacy, Hook, AskPatch, database
  <2>2. \A v \in Workers : v # w => job'[v] = job[v]
    BY <1>2, OnlyOneMoves
  <2>3. ~job'[w].meter
    BY <1>1, <1>2 DEF Ask, AskReport, AskUpload, AskLegacy, Hook, AskPatch, Begin, NoJob
  <2>4. QED
    BY <2>1, <2>2, <2>3 DEF Asked
<1>3. ASSUME NEW w \in Workers, Handle(w), ~CreateSession(w), ~CheckWindow(w)
      PROVE  metered' = metered /\ Asked' \subseteq Asked
  <2>1. metered' = metered
    BY <1>3 DEF Handle, Upload, Legacy, Validate, Push, Send, Activate, Reactivate,
       InsertCommit, Constrain, InsertReport, SaveVisibility, SaveDeleted, SavePatch, database
  <2>2. \A v \in Workers : v # w => job'[v] = job[v]
    BY <1>3, OnlyOneMoves
  <2>3. CASE Validate(w)
    <3>1. \/ job'[w] = NoJob
          \/ job'[w].meter = job[w].meter /\ job[w].pc = "validate"
      BY <1>1, <2>3 DEF Validate, Done, Job
    <3>2. QED
      BY <2>1, <2>2, <3>1 DEF Asked, NoJob
  <2>4. CASE ~Validate(w)
    <3>1. job'[w].pc \notin {"validate", "session"}
      <4>1. CASE Push(w) \/ Send(w)
        BY <1>1, <4>1 DEF Push, Send, Go, Done, NoJob, Job
      <4>2. CASE Legacy(w)
        BY <1>1, <4>2 DEF Legacy, Reactivate, InsertCommit, Constrain, Go, Done, NoJob, Job
      <4>3. CASE Activate(w) \/ InsertReport(w) \/ SaveVisibility(w) \/ SaveDeleted(w)
                 \/ SavePatch(w)
        <5>1. job'[w] = NoJob
          BY <1>1, <4>3 DEF Activate, InsertReport, SaveVisibility, SaveDeleted, SavePatch, Done
        <5>2. QED
          BY <5>1 DEF NoJob
      <4>4. QED
        BY <1>3, <2>4, <4>1, <4>2, <4>3 DEF Handle, Upload
    <3>2. QED
      BY <2>1, <2>2, <3>1 DEF Asked
  <2>5. QED
    BY <2>3, <2>4
<1>4. ASSUME NEW w \in Workers, CheckWindow(w)
      PROVE  \/ metered' = metered /\ Asked' \subseteq Asked
             \/ metered' = metered /\ repo.private /\ ~UsedUp
  <2>1. metered' = metered /\ \A v \in Workers : v # w => job'[v] = job[v]
    BY <1>4, OnlyOneMoves DEF CheckWindow, database, Handle, Upload
  <2>2. \/ repo.private /\ ~UsedUp
        \/ ~job'[w].meter
    BY <1>1, <1>4 DEF CheckWindow, Meters, Done, NoJob, Job
  <2>3. QED
    BY <2>1, <2>2 DEF Asked
<1>5. ASSUME NEW c \in Commits, CreateCommit(c) \/ Process(c)
      PROVE  metered' = metered /\ Asked' = Asked
  BY <1>5 DEF CreateCommit, Process, Asked
<1>6. CASE SwitchOff
  BY <1>6 DEF SwitchOff, database, Asked
<1>7. QED
  BY <1>2, <1>3, <1>4, <1>5, <1>6 DEF Next

LEMMA PlanStep ==
    ASSUME TypeOK, NothingForgotten, PlanInv, Next, TypeOK',
           \A v \in Workers : ForCommit(job[v])
    PROVE  PlanInv'
<1>1. ASSUME metered' = metered, Asked' \subseteq Asked
      PROVE  PlanInv'
  <2>1. metered' \subseteq {c \in Commits : Started(c)' > 0}
    BY <1>1, StartedGrows DEF PlanInv, TypeOK, Sessions, Started, Count
  <2>2. Cardinality(Asked') <= Cardinality(Asked) /\ Cardinality(Asked') \in Nat
    BY <1>1, Finiteness, FS_Subset, FS_CardinalityType
  <2>3. metered' # {} \/ Asked' # {} =>
          Cardinality(metered') + Cardinality(Asked') < Monthly + Cardinality(Workers)
    BY <1>1, <2>2, Finiteness, LimitAssumption DEF PlanInv
  <2>4. QED
    BY <2>1, <2>3 DEF PlanInv
<1>2. ASSUME metered' = metered, repo.private, ~UsedUp
      PROVE  PlanInv'
  <2>1. metered' \subseteq {c \in Commits : Started(c)' > 0}
    BY <1>2, StartedGrows DEF PlanInv, TypeOK, Sessions, Started, Count
  <2>2. Cardinality(metered) < Monthly
    BY <1>2, MeteredIsUsed, UploadedIsFinite, Finiteness, LimitAssumption DEF UsedUp
  <2>3. Cardinality(Asked') \in Nat /\ Cardinality(Asked') <= Cardinality(Workers)
    <3>1. Asked' \subseteq Workers
      BY DEF Asked
    <3>2. QED
      BY <3>1, WorkersAssumption, FS_Subset, FS_CardinalityType
  <2>4. Cardinality(metered') + Cardinality(Asked') < Monthly + Cardinality(Workers)
    BY <1>2, <2>2, <2>3, Finiteness, LimitAssumption
  <2>5. QED
    BY <2>1, <2>4 DEF PlanInv
<1>3. ASSUME NEW w \in Workers, CreateSession(w)
      PROVE  PlanInv'
  <2>1. PICK c \in Commits :
        /\ c = job[w].commit /\ job[w].pc = "session" /\ job'[w].pc = "push"
        /\ \A v \in Workers : v # w => job'[v] = job[v]
        /\ metered' = IF job[w].meter THEN metered \cup {c} ELSE metered
    <3>1. job \in [Workers -> Job] /\ job[w].pc = "session" /\ job[w].commit \in Commits
      BY <1>3 DEF CreateSession, Go, ForCommit, TypeOK
    <3>2. job'[w].pc = "push"
      BY <1>3, <3>1 DEF CreateSession, Go, Job
    <3>3. \A v \in Workers : v # w => job'[v] = job[v]
      BY <1>3, OnlyOneMoves DEF Handle, Upload
    <3>4. QED
      BY <1>3, <3>1, <3>2, <3>3 DEF CreateSession
  <2>2. Started(c)' > 0
    <3>1. sessions \in [Commits -> Sessions] /\ sessions[c] \in Sessions
          /\ sessions' = [sessions EXCEPT ![c].open = @ + 1]
      BY <1>3, <2>1 DEF CreateSession, TypeOK
    <3>2. QED
      BY <2>1, <3>1 DEF Sessions, Started, Count
  <2>3. metered' \subseteq {d \in Commits : Started(d)' > 0}
    <3>1. \A d \in metered : d \in Commits /\ Started(d)' > 0
      BY StartedGrows DEF PlanInv, TypeOK, Sessions, Started, Count
    <3>2. QED
      BY <2>1, <2>2, <3>1
  <2>4. Asked' = Asked \ {w}
    BY <2>1 DEF Asked
  <2>5. CASE ~job[w].meter
    BY <2>1, <2>3, <2>4, <2>5 DEF PlanInv, Asked
  <2>6. CASE job[w].meter
    <3>1. w \in Asked
      BY <2>1, <2>6 DEF Asked
    <3>2. Cardinality(Asked') = Cardinality(Asked) - 1
      BY <2>4, <3>1, Finiteness, FS_RemoveElement
    <3>3. /\ Cardinality(metered') <= Cardinality(metered) + 1
          /\ Cardinality(metered') \in Nat
      <4>1. metered' = metered \cup {c}
        BY <2>1, <2>6
      <4>2. QED
        <5>1. Cardinality(metered') = Cardinality(metered)
              \/ Cardinality(metered') = Cardinality(metered) + 1
          BY <4>1, Finiteness, FS_AddElement
        <5>2. QED
          BY <5>1, Finiteness
    <3>4. Cardinality(metered) + Cardinality(Asked) < Monthly + Cardinality(Workers)
      BY <3>1 DEF PlanInv
    <3>5. Cardinality(metered') + Cardinality(Asked') < Monthly + Cardinality(Workers)
      BY <3>2, <3>3, <3>4, Finiteness, LimitAssumption
    <3>6. QED
      BY <2>3, <3>5 DEF PlanInv
  <2>7. QED
    BY <2>5, <2>6
<1>4. QED
  BY <1>1, <1>2, <1>3, AskedOrMetered

-----------------------------------------------------------------------------
(* The invariant *)

LEMMA FirstInv ==
    ASSUME Init
    PROVE  Inv
<1>1. TypeOK
  BY FirstTypes
<1>2. \A w \in Workers : ForCommit(job[w]) /\ Copy(job[w])
  BY DEF Init, NoJob, NewRow, ForCommit, Copy, Gone
<1>3. Gone(repo)
  BY DEF Init, NewRow, Gone
<1>4. ASSUME NEW c \in Commits
      PROVE  Passing(c) = {} /\ Pushing(c) = {}
  BY DEF Init, NoJob, Passing, Passed, Pushing
<1>5. WithinAtOnce
  <2>1. MaxPerCommit + Cardinality(Workers) \in Nat
    BY LimitAssumption, WorkersAssumption, FS_CardinalityType
  <2>2. \A c \in Commits : sessions[c].open = 0 /\ sessions[c].done = 0
    BY DEF Init
  <2>3. QED
    BY <1>4, <2>1, <2>2, FS_EmptySet DEF WithinAtOnce
<1>6. NothingForgotten
  BY <1>4, FS_EmptySet DEF Init, NothingForgotten
<1>7. QED
  BY <1>1, <1>2, <1>3, <1>5, <1>6 DEF Inv

\* Requests, answers and steps of handlers
LEMMA WorkersKeepInv ==
    ASSUME Inv, NEW w \in Workers, Ask(w) \/ Handle(w)
    PROVE  Inv'
<1>1. /\ TypeOK /\ WithinAtOnce /\ NothingForgotten /\ Gone(repo)
      /\ \A v \in Workers : ForCommit(job[v]) /\ Copy(job[v])
  BY DEF Inv
<1>2. TypeOK'
  BY <1>1, AskKeepsTypes, HandleKeepsTypes
<1>3. \A v \in Workers : ForCommit(job'[v]) /\ Copy(job'[v])
  BY <1>1, JobsKeepTheirCommit, CopiesStayGone
<1>4. WithinAtOnce'
  BY <1>1, AskKeepsLimit, HandleKeepsLimit
<1>5. NothingForgotten'
  BY <1>1, WorkersForgetNothing
<1>6. Gone(repo')
  BY <1>1, RowStaysGone
<1>7. QED
  BY <1>2, <1>3, <1>4, <1>5, <1>6 DEF Inv, ForCommit, Copy, Gone

\* Steps of no request: jobs stay as they are.
LEMMA OthersKeepInv ==
    ASSUME Inv, NEW c \in Commits, CreateCommit(c) \/ Process(c)
    PROVE  Inv'
<1>1. /\ TypeOK /\ WithinAtOnce /\ NothingForgotten /\ Gone(repo)
      /\ \A v \in Workers : ForCommit(job[v]) /\ Copy(job[v])
  BY DEF Inv
<1>2. TypeOK' /\ UNCHANGED <<job, repo>>
  BY <1>1, OthersKeepTypes DEF CreateCommit, Process
<1>3. WithinAtOnce' /\ NothingForgotten'
  <2>1. CASE CreateCommit(c)
    BY <1>1, <2>1, CountsStay DEF CreateCommit, queue, WithinAtOnce, NothingForgotten
  <2>2. CASE Process(c)
    BY <1>1, <2>2, ProcessKeepsLimit, ProcessForgetsNothing
  <2>3. QED
    BY <2>1, <2>2
<1>4. QED
  BY <1>1, <1>2, <1>3 DEF Inv, ForCommit, Copy, Gone

LEMMA SwitchOffKeepsInv ==
    ASSUME Inv, SwitchOff
    PROVE  Inv'
<1>1. TypeOK /\ Gone(repo) /\ UNCHANGED <<job, sessions, list, tasks>>
  BY DEF Inv, SwitchOff, database, queue
<1>2. TypeOK'
  <2>1. repo' \in Row
    BY <1>1, RowTypes DEF SwitchOff, TypeOK
  <2>2. budget' \in [BudgetKeys -> Nat]
    BY <1>1, Spent DEF SwitchOff, BudgetKeys
  <2>3. QED
    BY <1>1, <2>1, <2>2 DEF SwitchOff, TypeOK, database, queue
<1>3. WithinAtOnce' /\ NothingForgotten'
  BY <1>1, CountsStay DEF Inv, WithinAtOnce, NothingForgotten
<1>4. Gone(repo')
  BY <1>1 DEF SwitchOff, TypeOK, Row, Gone
<1>5. QED
  BY <1>1, <1>2, <1>3, <1>4 DEF Inv, ForCommit, Copy, Gone

LEMMA NextInv ==
    ASSUME Inv, [Next]_vars
    PROVE  Inv'
<1>1. ASSUME NEW w \in Workers, Ask(w) \/ Handle(w) PROVE Inv'
  BY <1>1, WorkersKeepInv
<1>2. ASSUME NEW c \in Commits, CreateCommit(c) \/ Process(c) PROVE Inv'
  BY <1>2, OthersKeepInv
<1>3. CASE SwitchOff
  BY <1>3, SwitchOffKeepsInv
<1>4. CASE UNCHANGED vars
  <2>1. UNCHANGED <<repo, known, reports, sessions, list, tasks, metered, job, budget>>
    BY <1>4 DEF vars
  <2>2. TypeOK'
    BY <2>1 DEF Inv, TypeOK
  <2>3. WithinAtOnce' /\ NothingForgotten'
    BY <2>1, CountsStay DEF Inv, WithinAtOnce, NothingForgotten
  <2>4. QED
    BY <2>1, <2>2, <2>3 DEF Inv, ForCommit, Copy, Gone
<1>5. QED
  BY <1>1, <1>2, <1>3, <1>4 DEF Next

LEMMA Invariant == Spec => []Inv
<1>1. Init => Inv
  BY FirstInv
<1>2. Inv /\ [Next]_vars => Inv'
  BY NextInv
<1>3. QED
  BY <1>1, <1>2, PTL DEF Spec

-----------------------------------------------------------------------------
(* Theorems *)

\* Types, for any web workers, commits, limits and budget.
THEOREM TypeCorrect == Spec => []TypeOK
<1>1. Inv => TypeOK
  BY DEF Inv
<1>2. QED
  BY <1>1, Invariant, PTL

\* However many web workers upload to a commit at once, through whichever endpoint,
\* the limit is exceeded by no more than their number.
THEOREM CommitLimit == Spec => []WithinCommitLimit
<1>1. ASSUME Inv PROVE WithinCommitLimit
  <2> SUFFICES ASSUME NEW c \in Commits
               PROVE  sessions[c].open + sessions[c].done
                        <= MaxPerCommit + Cardinality(Workers)
    BY DEF WithinCommitLimit
  <2>1. Cardinality(Passing(c)) \in Nat
    <3>1. IsFiniteSet(Passing(c))
      BY FS_Subset, WorkersAssumption DEF Passing
    <3>2. QED
      BY <3>1, FS_CardinalityType
  <2>2. sessions[c].open \in Nat /\ sessions[c].done \in Nat
    BY <1>1 DEF Inv, TypeOK, Sessions
  <2>3. MaxPerCommit + Cardinality(Workers) \in Nat
    BY LimitAssumption, WorkersAssumption, FS_CardinalityType
  <2>4. sessions[c].open + sessions[c].done + Cardinality(Passing(c))
          <= MaxPerCommit + Cardinality(Workers)
    BY <1>1 DEF Inv, WithinAtOnce
  <2>5. QED
    BY <2>1, <2>2, <2>3, <2>4
<1>2. QED
  BY <1>1, Invariant, PTL

\* No interleaving of uploads and tasks leaves an open session out of the list, or a
\* list without a task.
THEOREM Remembers == Spec => []NothingForgotten
<1>1. Inv => NothingForgotten
  BY DEF Inv
<1>2. QED
  BY <1>1, Invariant, PTL

\* However uploads, webhooks and edits overwrite each other, a deleted row is off.
THEOREM DeletionHolds == Spec => []DeletedIsGone
<1>1. Inv => DeletedIsGone
  BY DEF Inv, Gone, DeletedIsGone
<1>2. QED
  BY <1>1, Invariant, PTL

\* However many web workers ask at once, no more commits get their first upload on the
\* account of the plan than it includes, but for those the others were asking for.
THEOREM PlanLimit == Spec => []WithinPlan
<1>1. Init => PlanInv
  <2>1. ASSUME Init PROVE metered = {} /\ Asked = {}
    BY <2>1 DEF Init, NoJob, Asked
  <2>2. QED
    BY <2>1 DEF PlanInv
<1>2. Inv /\ Inv' /\ PlanInv /\ [Next]_vars => PlanInv'
  <2> SUFFICES ASSUME Inv, Inv', PlanInv, [Next]_vars PROVE PlanInv'
    OBVIOUS
  <2>1. CASE Next
    BY <2>1, PlanStep DEF Inv
  <2>2. CASE UNCHANGED vars
    BY <2>2 DEF vars, PlanInv, Asked, Started, Count
  <2>3. QED
    BY <2>1, <2>2
<1>3. Inv /\ PlanInv => WithinPlan
  <2> SUFFICES ASSUME Inv, PlanInv, metered # {}
               PROVE  Cardinality(metered) < Monthly + Cardinality(Workers)
    BY DEF WithinPlan
  <2>1. Cardinality(metered) + Cardinality(Asked) < Monthly + Cardinality(Workers)
    BY DEF PlanInv
  <2>2. QED
    BY <2>1, Finiteness, LimitAssumption DEF Inv
<1>4. QED
  BY <1>1, <1>2, <1>3, Invariant, PTL DEF Spec
=============================================================================
