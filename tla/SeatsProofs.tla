----------------------------- MODULE SeatsProofs -----------------------------
(***************************************************************************)
(* Proofs about Seats, for any number of workers, any users and any seat   *)
(* counts.                                                                 *)
(*                                                                         *)
(* CoreSpec, where every save is a save of the whole row: the seats of the *)
(* row alone are not inductive, for a save copies a row that was loaded    *)
(* long ago.  Inv says of EVERY row held by a worker that its own holders  *)
(* fit its own seats, and of a worker about to activate that its row has   *)
(* room.                                                                   *)
(*                                                                         *)
(* SerialSpec, with the removal's save of one column, logins and scheduled *)
(* changes: SerialInv says that the one request at work holds the row as   *)
(* it is, and who leaves between the two saves of a removal.               *)
(***************************************************************************)
EXTENDS Seats, FiniteSetTheorems, TLAPS

\* The holders of a row, students S aside, fit its seats.
Fits(r, S) == Cardinality(r.activated \ S) <= r.seats + Free

GoodRow(r, S) == Fits(r, S) /\ (r.null => r.activated = {})

HasRoom(r, u, S) == u \in S \/ Cardinality(r.activated \ S) < r.seats + Free

GoodJob(j, S) ==
    /\ GoodRow(j.row, S)
    /\ j.pc \in {"check", "activate", "off", "admin"} => j.user \in Users
    /\ j.then = "admin" => j.user \in Users
    /\ j.pc = "activate" => HasRoom(j.row, j.user, S)
    /\ j.pc \notin {"member", "seat"}

Inv ==
    /\ TypeOK
    /\ GoodRow(owner, student)
    /\ \A w \in Workers : GoodJob(job[w], student)

-----------------------------------------------------------------------------
LEMMA Finite ==
    ASSUME NEW r \in Row, NEW S
    PROVE  /\ IsFiniteSet(r.activated \ S) /\ Cardinality(r.activated \ S) \in Nat
           /\ r.seats + Free \in Nat
<1>1. r.activated \subseteq Users /\ r.seats \in Nat
  BY DEF Row
<1>2. IsFiniteSet(r.activated)
  BY <1>1, UsersAssumption, FS_Subset
<1>3. IsFiniteSet(r.activated \ S)
  BY <1>2, FS_Difference
<1>4. QED
  BY <1>1, <1>3, FS_CardinalityType, FreeAssumption

\* One more holder fits where there is room; one fewer always does.
LEMMA WithUserFits ==
    ASSUME NEW r \in Row, NEW S, NEW u \in Users,
           GoodRow(r, S), HasRoom(r, u, S)
    PROVE  WithUser(r, u) \in Row /\ GoodRow(WithUser(r, u), S)
<1> DEFINE q == WithUser(r, u)
<1>1. /\ q \in Row /\ q.seats = r.seats /\ q.null = FALSE
      /\ q.activated = r.activated \cup {u}
  BY DEF WithUser, Row
<1>2. CASE u \in S
  <2>1. q.activated \ S = r.activated \ S
    BY <1>1, <1>2
  <2>2. QED
    BY <1>1, <2>1 DEF GoodRow, Fits
<1>3. CASE u \notin S
  <2>1. q.activated \ S = (r.activated \ S) \cup {u}
    BY <1>1, <1>3
  <2>2. Cardinality(q.activated \ S) <= Cardinality(r.activated \ S) + 1
    <3> DEFINE T == r.activated \ S
    <3>1. IsFiniteSet(T) /\ Cardinality(T) \in Nat
      BY Finite
    <3> HIDE DEF T
    <3>2. Cardinality(T \cup {u}) = IF u \in T THEN Cardinality(T) ELSE Cardinality(T) + 1
      BY <3>1, FS_AddElement
    <3>3. Cardinality(T \cup {u}) <= Cardinality(T) + 1
      BY <3>1, <3>2
    <3>4. QED
      BY <2>1, <3>3 DEF T
  <2>3. Cardinality(r.activated \ S) < r.seats + Free
    BY <1>3 DEF HasRoom
  <2>4. Cardinality(q.activated \ S) <= q.seats + Free
    <3>1. Cardinality(q.activated \ S) \in Nat
      BY <1>1, Finite
    <3>2. Cardinality(r.activated \ S) \in Nat /\ r.seats + Free \in Nat
      BY Finite
    <3> HIDE DEF q
    <3>3. QED
      BY <1>1, <2>2, <2>3, <3>1, <3>2
  <2>5. QED
    BY <1>1, <2>4 DEF GoodRow, Fits
<1>4. QED
  BY <1>2, <1>3

LEMMA WithoutUserFits ==
    ASSUME NEW r \in Row, NEW S, NEW u, GoodRow(r, S)
    PROVE  WithoutUser(r, u) \in Row /\ GoodRow(WithoutUser(r, u), S)
<1> DEFINE q == WithoutUser(r, u)
<1>1. /\ q \in Row /\ q.seats = r.seats /\ q.null = r.null
      /\ q.activated = r.activated \ {u}
  BY DEF WithoutUser, Row
<1>2. q.activated \ S \subseteq r.activated \ S
  BY <1>1
<1>3. Cardinality(q.activated \ S) <= Cardinality(r.activated \ S)
  BY <1>2, Finite, FS_Subset
<1>4. Cardinality(q.activated \ S) \in Nat /\ Cardinality(r.activated \ S) \in Nat
      /\ r.seats + Free \in Nat
  BY <1>1, Finite
<1> HIDE DEF q
<1>5. q.activated = {} \/ ~q.null
  BY <1>1 DEF GoodRow
<1>6. QED
  BY <1>1, <1>3, <1>4, <1>5 DEF GoodRow, Fits, q

LEMMA Fresh ==
    ASSUME NEW S
    PROVE  NewRow \in Row /\ GoodRow(NewRow, S) /\ NoJob \in Job /\ GoodJob(NoJob, S)
<1>1. NewRow \in Row /\ NewRow.activated = {} /\ NewRow.seats = 1
  BY DEF NewRow, Row
<1>2. {} \ S = {} /\ Cardinality({}) = 0
  BY FS_EmptySet
<1>3. GoodRow(NewRow, S)
  BY <1>1, <1>2, FreeAssumption DEF GoodRow, Fits
<1>4. QED
  BY <1>1, <1>3 DEF NoJob, Job, GoodJob

-----------------------------------------------------------------------------
(* Steps *)

\* w goes on to j and the row becomes r.
LEMMA WorkerStep ==
    ASSUME Inv, NEW w \in Workers, NEW j \in Job, GoodJob(j, student),
           NEW r \in Row, GoodRow(r, student),
           job' = [job EXCEPT ![w] = j], owner' = r,
           UNCHANGED <<member, student, lowered>>
    PROVE  Inv'
<1>1. job' \in [Workers -> Job]
      /\ \A x \in Workers : job'[x] = IF x = w THEN j ELSE job[x]
  BY DEF Inv, TypeOK
<1>2. TypeOK'
  BY <1>1 DEF Inv, TypeOK, GoodRow
<1>3. GoodRow(owner', student') /\ \A x \in Workers : GoodJob(job'[x], student')
  BY <1>1 DEF Inv
<1>4. QED
  BY <1>2, <1>3 DEF Inv

\* The row is saved, and the request goes on with it or ends.
LEMMA AfterStep ==
    ASSUME Inv, NEW w \in Workers, job[w].pc \in {"activate", "off"},
           NEW r \in Row, GoodRow(r, student),
           owner' = r, After(w, r), UNCHANGED <<member, student, lowered>>
    PROVE  Inv'
<1>1. CASE job[w].then = "done"
  BY <1>1, Fresh, WorkerStep DEF After, Idle
<1>2. CASE job[w].then # "done"
  <2> DEFINE j == [job[w] EXCEPT !.row = r, !.pc = job[w].then]
  <2>1. job[w] \in Job /\ job[w].then \in {"answer", "admin"}
    BY <1>2 DEF Inv, TypeOK, Job
  <2>2. /\ j \in Job /\ j.row = r /\ j.pc = job[w].then
        /\ j.user = job[w].user /\ j.then = job[w].then
    BY <2>1 DEF Job
  <2>3. job' = [job EXCEPT ![w] = j]
    BY <1>2 DEF After, Inv, TypeOK
  <2>4. job[w].user \in Users
    BY DEF Inv, GoodJob
  <2> HIDE DEF j
  <2>5. GoodJob(j, student)
    BY <2>1, <2>2, <2>4 DEF GoodJob
  <2>6. QED
    BY <2>2, <2>3, <2>5, WorkerStep
<1>3. QED
  BY <1>1, <1>2

LEMMA HandleStep ==
    ASSUME Inv, NEW w \in Workers, Handle(w)
    PROVE  Inv'
<1>1. /\ job[w] \in Job /\ job[w].row \in Row /\ GoodJob(job[w], student)
      /\ GoodRow(job[w].row, student) /\ owner \in Row /\ GoodRow(owner, student)
  BY DEF Inv, TypeOK, Job, GoodJob
<1>2. ASSUME NEW pc \in {"activate", "answer", "error"},
             pc = "activate" => /\ job[w].user \in Users
                                /\ HasRoom(job[w].row, job[w].user, student),
             job' = [job EXCEPT ![w].pc = pc],
             UNCHANGED <<owner, member, student, lowered>>
      PROVE  Inv'
  <2> DEFINE j == [job[w] EXCEPT !.pc = pc]
  <2>1. /\ j \in Job /\ j.row = job[w].row /\ j.pc = pc
        /\ j.user = job[w].user /\ j.then = job[w].then
    BY <1>1 DEF Job
  <2>2. job' = [job EXCEPT ![w] = j]
    BY <1>2 DEF Inv, TypeOK
  <2> HIDE DEF j
  <2>3. GoodJob(j, student)
    BY <1>1, <1>2, <2>1 DEF GoodJob
  <2>4. QED
    BY <1>1, <1>2, <2>1, <2>2, <2>3, WorkerStep
<1>3. ASSUME Idle(w), UNCHANGED <<owner, member, student, lowered>> PROVE Inv'
  BY <1>1, <1>3, Fresh, WorkerStep DEF Idle
<1>4. CASE CheckSeat(w)
  <2>1. CASE CanActivateUser(job[w].row, job[w].user)
             /\ job' = [job EXCEPT ![w].pc = "activate"]
    <3>1. HasRoom(job[w].row, job[w].user, student) /\ job[w].user \in Users
      BY <1>1, <1>4, <2>1 DEF CheckSeat, CanActivateUser, ActivatedUserCount, HasRoom, GoodJob
    <3>2. QED
      BY <1>2, <1>4, <2>1, <3>1 DEF CheckSeat
  <2>2. CASE job' = [job EXCEPT ![w].pc = "answer"]
    BY <1>2, <1>4, <2>2 DEF CheckSeat
  <2>3. QED
    BY <1>3, <1>4, <2>1, <2>2 DEF CheckSeat
<1>5. CASE ActivateUser(w)
  <2>1. job[w].user \in Users /\ HasRoom(job[w].row, job[w].user, student)
    BY <1>1, <1>5 DEF ActivateUser, GoodJob
  <2>2. QED
    BY <1>1, <1>5, <2>1, WithUserFits, AfterStep DEF ActivateUser
<1>6. CASE DeactivateUser(w)
  BY <1>1, <1>6, WithoutUserFits, AfterStep DEF DeactivateUser
<1>7. CASE SaveAdmin(w)
  BY <1>1, <1>7, Fresh, WorkerStep DEF SaveAdmin, Idle
<1>8. CASE Answer(w)
  BY <1>2, <1>3, <1>8 DEF Answer
<1>9. CASE ReportError(w)
  BY <1>3, <1>9 DEF ReportError
<1>10. CASE SaveRow(w)
  BY <1>1, <1>10, Fresh, WorkerStep DEF SaveRow, Idle
<1>11. QED
  BY <1>4, <1>5, <1>6, <1>7, <1>8, <1>9, <1>10 DEF Handle

LEMMA AskStep ==
    ASSUME Inv, NEW w \in Workers, Ask(w)
    PROVE  Inv'
<1>1. owner \in Row /\ GoodRow(owner, student)
  BY DEF Inv, TypeOK
<1>2. ASSUME NEW pc \in {"check", "answer", "off", "admin"}, NEW u \in Users,
             NEW then \in {"done", "answer", "admin"}, Load(w, pc, u, then)
      PROVE  Inv'
  <2> DEFINE j == [pc |-> pc, user |-> u, row |-> owner, then |-> then]
  <2>1. j \in Job /\ GoodJob(j, student)
    BY <1>1 DEF Job, GoodJob
  <2>2. job' = [job EXCEPT ![w] = j] /\ UNCHANGED <<owner, member, student, lowered>>
    BY <1>2 DEF Load
  <2>3. owner' = owner
    BY <2>2
  <2> HIDE DEF j
  <2>4. QED
    BY <1>1, <2>1, <2>2, <2>3, WorkerStep
<1>3. CASE AskPlan(w)
  <2>1. PICK r \in
          {[owner EXCEPT !.seats = n] : n \in {c \in Counts : c >= ActivatedUserCount(owner)}}
          \cup {DefaultPlan(owner)}
          \cup {[owner EXCEPT !.auto = b] : b \in BOOLEAN} :
          job' = [job EXCEPT ![w] = [pc |-> "save", user |-> None, row |-> r,
                                     then |-> "done"]]
    BY <1>3 DEF AskPlan
  <2>2. r \in Row /\ GoodRow(r, student)
    <3>1. ASSUME NEW n \in Counts, n >= ActivatedUserCount(owner),
                 r = [owner EXCEPT !.seats = n]
          PROVE  r \in Row /\ GoodRow(r, student)
      <4>1. r \in Row /\ r.activated = owner.activated /\ r.seats = n /\ r.null = owner.null
        BY <1>1, <3>1, CountsAssumption DEF Row
      <4>2. Cardinality(owner.activated \ student) \in Nat
        BY <1>1, Finite
      <4>3. Fits(r, student)
        BY <3>1, <4>1, <4>2, CountsAssumption, FreeAssumption DEF Fits, ActivatedUserCount
      <4>4. QED
        BY <1>1, <4>1, <4>3 DEF GoodRow
    <3>2. CASE r = DefaultPlan(owner)
      <4>1. r \in Row /\ r.activated = {} /\ r.seats = 1
        BY <1>1, <3>2 DEF DefaultPlan, Row
      <4>2. r.activated \ student = {} /\ Cardinality({}) = 0
        BY <4>1, FS_EmptySet
      <4>3. QED
        BY <4>1, <4>2, FreeAssumption DEF GoodRow, Fits
    <3>3. ASSUME NEW b \in BOOLEAN, r = [owner EXCEPT !.auto = b]
          PROVE  r \in Row /\ GoodRow(r, student)
      <4>1. r \in Row /\ r.activated = owner.activated /\ r.seats = owner.seats
            /\ r.null = owner.null
        BY <1>1, <3>3 DEF Row
      <4>2. QED
        BY <1>1, <4>1 DEF GoodRow, Fits
    <3>4. QED
      BY <2>1, <3>1, <3>2, <3>3
  <2> DEFINE j == [pc |-> "save", user |-> None, row |-> r, then |-> "done"]
  <2>3. j \in Job /\ GoodJob(j, student)
    BY <2>2 DEF Job, GoodJob
  <2>4. owner' = owner /\ UNCHANGED <<member, student, lowered>>
    BY <1>3 DEF AskPlan
  <2>5. job' = [job EXCEPT ![w] = j]
    BY <2>1
  <2> HIDE DEF j
  <2>6. QED
    BY <1>1, <2>3, <2>4, <2>5, WorkerStep
<1>4. ASSUME NEW u \in Users, AskRest(w, u) \/ AskGraphQL(w, u) \/ AskUser(w, u)
      PROVE  Inv'
  <2>1. \E pc \in {"check", "answer", "off", "admin"}, then \in {"done", "answer", "admin"} :
           Load(w, pc, u, then)
    BY <1>4 DEF AskRest, AskGraphQL, AskUser
  <2>2. QED
    BY <1>2, <2>1
<1>5. QED
  BY <1>3, <1>4 DEF Ask

-----------------------------------------------------------------------------
LEMMA InvInit == Init => Inv
  BY Fresh DEF Init, Inv, TypeOK, GoodRow

LEMMA InvStep == Inv /\ [CoreNext]_vars => Inv'
<1> SUFFICES ASSUME Inv, [CoreNext]_vars PROVE Inv'
  OBVIOUS
<1>1. CASE UNCHANGED vars
  BY <1>1 DEF vars, Inv, TypeOK
<1>2. ASSUME NEW u \in Users, Join(u) PROVE Inv'
  BY <1>2 DEF Join, Inv, TypeOK
<1>3. QED
  BY <1>1, <1>2, AskStep, HandleStep DEF CoreNext

\* Inv in every state that requests and joining users reach.
THEOREM Invariance == CoreSpec => []Inv
  BY InvInit, InvStep, PTL DEF CoreSpec

\* Every variable keeps its type, and a NULL list of holders is an empty one.
THEOREM TypeCorrect == CoreSpec => []TypeOK
<1>1. Inv => TypeOK
  BY DEF Inv
<1>2. QED
  BY <1>1, Invariance, PTL

\* However many whole-row saves overwrite each other, whoever holds a seat and
\* counts is covered by the seats sold and given.
THEOREM Covered == CoreSpec => []SeatsCovered
<1>1. Inv => SeatsCovered
  BY DEF Inv, GoodRow, Fits, SeatsCovered, ActivatedUserCount
<1>2. QED
  BY <1>1, Invariance, PTL

-----------------------------------------------------------------------------
(* One request at a time: member_removed, logins and scheduled changes as well *)

\* Who may hold a seat
Entitled == member \cup Viewers

\* Between its load and its save a request that is alone has the row as it is, unless it
\* is about to save one of fewer holders.  m are the members, S the students, and low
\* tells whether seats were taken from under their holders.
SerialJob(j, r, m, S, low) ==
    /\ j.pc \in {"check", "activate", "off", "admin", "member", "seat", "answer"} => j.row = r
    /\ j.pc \in {"check", "activate", "off", "admin", "member", "seat"} => j.user \in Users
    /\ j.then = "admin" => j.user \in Users
    /\ j.pc \in {"check", "activate"} => j.user \in m \cup Viewers
    /\ j.pc = "activate" => low \/ HasRoom(j.row, j.user, S)
    /\ j.pc = "save" => /\ j.row.activated \subseteq r.activated
                        /\ j.row.null => j.row.activated = {}
                        /\ low \/ Fits(j.row, S)

\* The member whose row is saved and whose seat is not yet given back
Leaving(j) == IF j.pc = "seat" THEN {j.user} ELSE {}

AloneAtWork ==
    \A w, x \in Workers : job[w].pc # "idle" /\ job[x].pc # "idle" => w = x

SerialInv ==
    /\ TypeOK
    /\ AloneAtWork
    /\ lowered \/ Fits(owner, student)
    /\ owner.activated \subseteq Entitled \cup UNION {Leaving(job[w]) : w \in Workers}
    /\ \A w \in Workers : SerialJob(job[w], owner, member, student, lowered)

LEMMA FewerFit ==
    ASSUME NEW r \in Row, NEW q \in Row, NEW S, Fits(r, S),
           q.activated \subseteq r.activated, q.seats = r.seats
    PROVE  Fits(q, S)
<1>1. Cardinality(q.activated \ S) <= Cardinality(r.activated \ S)
  BY Finite, FS_Subset
<1>2. /\ Cardinality(q.activated \ S) \in Nat /\ Cardinality(r.activated \ S) \in Nat
      /\ r.seats + Free \in Nat
  BY Finite
<1>3. QED
  BY <1>1, <1>2 DEF Fits

LEMMA MoreStudentsFit ==
    ASSUME NEW r \in Row, NEW S, NEW T, S \subseteq T
    PROVE  /\ Fits(r, S) => Fits(r, T)
           /\ \A u : HasRoom(r, u, S) => HasRoom(r, u, T)
<1>1. r.activated \ T \subseteq r.activated \ S
  OBVIOUS
<1>2. Cardinality(r.activated \ T) <= Cardinality(r.activated \ S)
  BY <1>1, Finite, FS_Subset
<1>3. /\ Cardinality(r.activated \ T) \in Nat /\ Cardinality(r.activated \ S) \in Nat
      /\ r.seats + Free \in Nat
  BY Finite
<1>4. QED
  BY <1>2, <1>3 DEF Fits, HasRoom

\* w, which is alone, goes on to j, and the row becomes r.
LEMMA SerialWorker ==
    ASSUME SerialInv, SerialNext, NEW w \in Workers, NEW j \in Job,
           job[w].pc # "idle" \/ j.pc # "idle", job' = [job EXCEPT ![w] = j],
           NEW r \in Row, r.null => r.activated = {}, owner' = r,
           NEW m \in SUBSET Users, member' = m, student' = student,
           NEW low \in BOOLEAN, lowered' = low, low \/ Fits(r, student),
           r.activated \subseteq m \cup Viewers \cup Leaving(j),
           SerialJob(j, r, m, student, low)
    PROVE  SerialInv'
<1>1. job' \in [Workers -> Job]
      /\ \A x \in Workers : job'[x] = IF x = w THEN j ELSE job[x]
  BY DEF SerialInv, TypeOK
<1>2. \A x \in Workers \ {w} : job'[x].pc = "idle" /\ job'[x] = job[x]
  BY <1>1 DEF SerialNext
<1>3. TypeOK'
  BY <1>1 DEF SerialInv, TypeOK
<1>4. AloneAtWork'
  BY <1>2 DEF AloneAtWork
<1>5. ASSUME NEW x \in Workers
      PROVE  SerialJob(job'[x], owner', member', student', lowered')
  <2>1. CASE x = w
    BY <1>1, <2>1
  <2>2. CASE x # w
    <3>1. job'[x].pc = "idle" /\ SerialJob(job'[x], owner, member, student, lowered)
      BY <1>2, <2>2 DEF SerialInv
    <3>2. QED
      BY <3>1 DEF SerialJob
  <2>3. QED
    BY <2>1, <2>2
<1>6. Leaving(job'[w]) = Leaving(j)
  BY <1>1
<1>7. (owner.activated \subseteq Entitled \cup UNION {Leaving(job[x]) : x \in Workers})'
  BY <1>6 DEF Entitled, Leaving
<1>8. QED
  BY <1>3, <1>4, <1>5, <1>7 DEF SerialInv

\* What a request that is alone knows
LEMMA AtWork ==
    ASSUME SerialInv, NEW w \in Workers, job[w].pc # "idle"
    PROVE  /\ job[w] \in Job /\ job[w].row \in Row
           /\ SerialJob(job[w], owner, member, student, lowered)
           /\ owner.activated \subseteq Entitled \cup Leaving(job[w])
<1>1. \A x \in Workers : x # w => Leaving(job[x]) = {}
  BY DEF SerialInv, AloneAtWork, Leaving
<1>2. job[w] \in Job
  BY DEF SerialInv, TypeOK
<1>3. QED
  BY <1>1, <1>2 DEF SerialInv, Job

\* The same for a row that fits and a request that has nothing to take back
LEMMA SerialSave ==
    ASSUME SerialInv, SerialNext, NEW w \in Workers, NEW j \in Job,
           job[w].pc # "idle" \/ j.pc # "idle", job' = [job EXCEPT ![w] = j],
           NEW r \in Row, r.null => r.activated = {}, owner' = r,
           UNCHANGED <<member, student, lowered>>,
           lowered \/ Fits(r, student), r.activated \subseteq Entitled,
           SerialJob(j, r, member, student, lowered)
    PROVE  SerialInv'
<1>1. member \in SUBSET Users /\ lowered \in BOOLEAN
  BY DEF SerialInv, TypeOK
<1>2. r.activated \subseteq member \cup Viewers \cup Leaving(j)
  BY DEF Entitled
<1>3. QED
  BY <1>1, <1>2, SerialWorker

LEMMA SerialFresh ==
    ASSUME NEW r, NEW m, NEW S, NEW low
    PROVE  NoJob \in Job /\ NoJob.pc = "idle" /\ SerialJob(NoJob, r, m, S, low)
  BY Fresh DEF NoJob, SerialJob

\* A request goes on after its save, or is done.
LEMMA SerialAfter ==
    ASSUME SerialInv, SerialNext, NEW w \in Workers, job[w].pc \in {"activate", "off"},
           NEW r \in Row, r.null => r.activated = {}, owner' = r,
           After(w, r), UNCHANGED <<member, student, lowered>>,
           lowered \/ Fits(r, student), r.activated \subseteq Entitled
    PROVE  SerialInv'
<1>1. CASE job[w].then = "done"
  BY <1>1, SerialFresh, SerialSave DEF After, Idle
<1>2. CASE job[w].then # "done"
  <2> DEFINE j == [job[w] EXCEPT !.row = r, !.pc = job[w].then]
  <2>1. /\ job[w] \in Job /\ job[w].then \in {"answer", "admin"}
        /\ job[w].then = "admin" => job[w].user \in Users
    BY <1>2, AtWork DEF Job, SerialJob
  <2>2. /\ j \in Job /\ j.row = r /\ j.pc = job[w].then
        /\ j.user = job[w].user /\ j.then = job[w].then
    BY <2>1 DEF Job
  <2>3. job' = [job EXCEPT ![w] = j]
    BY <1>2 DEF After, SerialInv, TypeOK
  <2> HIDE DEF j
  <2>4. SerialJob(j, r, member, student, lowered)
    BY <2>1, <2>2 DEF SerialJob
  <2>5. QED
    BY <2>2, <2>3, <2>4, SerialSave
<1>3. QED
  BY <1>1, <1>2

LEMMA SerialHandle ==
    ASSUME SerialInv, SerialNext, NEW w \in Workers, Handle(w)
    PROVE  SerialInv'
<1> DEFINE j == job[w]
<1>1. /\ j \in Job /\ j.row \in Row /\ j.pc # "idle"
      /\ SerialJob(j, owner, member, student, lowered)
      /\ owner.activated \subseteq Entitled \cup Leaving(j)
      /\ UNCHANGED <<member, student, lowered>>
  <2>1. j.pc # "idle" /\ UNCHANGED <<member, student, lowered>>
    BY DEF Handle, CheckSeat, ActivateUser, DeactivateUser, SaveAdmin, Answer, ReportError, SaveRow
  <2>2. QED
    BY <2>1, AtWork
<1>2. owner \in Row /\ (owner.null => owner.activated = {})
      /\ (lowered \/ Fits(owner, student))
  BY DEF SerialInv, TypeOK
<1>3. j.pc # "seat" => owner.activated \subseteq Entitled
  BY <1>1 DEF Leaving
<1>4. ASSUME NEW pc \in {"activate", "answer", "error"}, owner' = owner, j.pc # "seat",
             pc \in {"activate", "answer"} => j.row = owner,
             job' = [job EXCEPT ![w].pc = pc],
             pc = "activate" => /\ j.user \in Users /\ j.user \in member \cup Viewers
                                /\ HasRoom(j.row, j.user, student)
      PROVE  SerialInv'
  <2> DEFINE k == [j EXCEPT !.pc = pc]
  <2>1. /\ k \in Job /\ k.row = j.row /\ k.pc = pc /\ k.user = j.user /\ k.then = j.then
    BY <1>1 DEF Job
  <2>2. job' = [job EXCEPT ![w] = k]
    BY <1>4 DEF SerialInv, TypeOK
  <2> HIDE DEF k
  <2>3. SerialJob(k, owner, member, student, lowered)
    BY <1>1, <1>4, <2>1 DEF SerialJob
  <2>4. QED
    BY <1>1, <1>2, <1>3, <1>4, <2>1, <2>2, <2>3, SerialSave
<1>5. ASSUME Idle(w), NEW r \in Row, r.null => r.activated = {}, owner' = r,
             lowered \/ Fits(r, student), r.activated \subseteq Entitled
      PROVE  SerialInv'
  BY <1>1, <1>5, SerialFresh, SerialSave DEF Idle
<1>6. CASE CheckSeat(w)
  <2>1. CASE CanActivateUser(j.row, j.user) /\ job' = [job EXCEPT ![w].pc = "activate"]
    <3>1. HasRoom(j.row, j.user, student)
      BY <2>1 DEF CanActivateUser, ActivatedUserCount, HasRoom
    <3>2. QED
      BY <1>1, <1>4, <1>6, <2>1, <3>1 DEF CheckSeat, SerialJob
  <2>2. CASE job' = [job EXCEPT ![w].pc = "answer"]
    BY <1>1, <1>4, <1>6, <2>2 DEF CheckSeat, SerialJob
  <2>3. CASE Idle(w)
    BY <1>2, <1>3, <1>5, <1>6, <2>3 DEF CheckSeat
  <2>4. QED
    BY <1>6, <2>1, <2>2, <2>3 DEF CheckSeat
<1>7. CASE ActivateUser(w)
  <2> DEFINE q == WithUser(j.row, j.user)
  <2>1. /\ j.pc = "activate" /\ j.row = owner /\ j.user \in Users
        /\ j.user \in Entitled /\ (lowered \/ HasRoom(j.row, j.user, student))
    BY <1>1, <1>7 DEF ActivateUser, SerialJob, Entitled
  <2>2. q \in Row /\ q.activated = owner.activated \cup {j.user} /\ q.null = FALSE
    BY <1>2, <2>1 DEF WithUser, Row
  <2>3. lowered \/ Fits(q, student)
    BY <1>2, <2>1, WithUserFits DEF GoodRow
  <2> HIDE DEF q
  <2>4. q.activated \subseteq Entitled
    BY <1>3, <2>1, <2>2
  <2>5. owner' = q /\ After(w, q)
    BY <1>7 DEF ActivateUser, q
  <2>6. QED
    BY <1>1, <2>1, <2>2, <2>3, <2>4, <2>5, SerialAfter
<1>8. CASE DeactivateUser(w)
  <2> DEFINE q == WithoutUser(j.row, j.user)
  <2>1. j.pc = "off" /\ j.row = owner
    BY <1>1, <1>8 DEF DeactivateUser, SerialJob
  <2>2. /\ q \in Row /\ q.activated = owner.activated \ {j.user} /\ q.null = owner.null
    BY <1>2, <2>1 DEF WithoutUser, Row
  <2>3. lowered \/ Fits(q, student)
    BY <1>2, <2>1, WithoutUserFits DEF GoodRow
  <2> HIDE DEF q
  <2>4. q.activated \subseteq Entitled /\ (q.null => q.activated = {})
    BY <1>2, <1>3, <2>1, <2>2
  <2>5. owner' = q /\ After(w, q)
    BY <1>8 DEF DeactivateUser, q
  <2>6. QED
    BY <1>1, <2>1, <2>2, <2>3, <2>4, <2>5, SerialAfter
<1>9. CASE SaveAdmin(w)
  <2>1. j.pc = "admin" /\ j.row = owner
    BY <1>1, <1>9 DEF SaveAdmin, SerialJob
  <2>2. QED
    BY <1>2, <1>3, <1>5, <1>9, <2>1 DEF SaveAdmin
<1>10. CASE Answer(w)
  <2>1. j.pc = "answer" /\ owner' = owner
    BY <1>10 DEF Answer
  <2>2. CASE Idle(w)
    BY <1>2, <1>3, <1>5, <2>1, <2>2
  <2>3. CASE job' = [job EXCEPT ![w].pc = "error"]
    BY <1>4, <2>1, <2>3
  <2>4. QED
    BY <1>10, <2>2, <2>3 DEF Answer
<1>11. CASE ReportError(w)
  BY <1>2, <1>3, <1>5, <1>11 DEF ReportError
<1>12. CASE SaveRow(w)
  <2>1. /\ j.pc = "save" /\ j.row.activated \subseteq owner.activated
        /\ (j.row.null => j.row.activated = {}) /\ (lowered \/ Fits(j.row, student))
    BY <1>1, <1>12 DEF SaveRow, SerialJob
  <2>2. QED
    BY <1>1, <1>3, <1>5, <1>12, <2>1 DEF SaveRow
<1>13. QED
  BY <1>6, <1>7, <1>8, <1>9, <1>10, <1>11, <1>12 DEF Handle

\* A plan with another seat count, the default plan, or another automatism
LEMMA PlanFits ==
    ASSUME SerialInv, NEW r, NEW low,
           lowered => low,
           \/ \E n \in Counts : /\ r = [owner EXCEPT !.seats = n]
                               /\ \/ low \/ n >= owner.seats
                                  \/ n >= ActivatedUserCount(owner)
           \/ r = DefaultPlan(owner)
           \/ \E b \in BOOLEAN : r = [owner EXCEPT !.auto = b]
    PROVE  /\ r \in Row /\ r.activated \subseteq owner.activated
           /\ (r.null => r.activated = {}) /\ (low \/ Fits(r, student))
<1>1. /\ owner \in Row /\ (owner.null => owner.activated = {})
      /\ (lowered \/ Fits(owner, student)) /\ owner.seats \in Nat
  BY DEF SerialInv, TypeOK, Row
<1>2. Cardinality(owner.activated \ student) \in Nat
  BY <1>1, Finite
<1>3. ASSUME NEW n \in Counts, r = [owner EXCEPT !.seats = n],
             low \/ n >= owner.seats \/ n >= ActivatedUserCount(owner)
      PROVE  /\ r \in Row /\ r.activated \subseteq owner.activated
             /\ (r.null => r.activated = {}) /\ (low \/ Fits(r, student))
  <2>1. /\ r \in Row /\ r.activated = owner.activated /\ r.seats = n
        /\ r.null = owner.null /\ n \in Nat
    BY <1>1, <1>3, CountsAssumption DEF Row
  <2>2. low \/ Fits(r, student)
    BY <1>1, <1>2, <1>3, <2>1, FreeAssumption DEF Fits, ActivatedUserCount
  <2>3. QED
    BY <1>1, <2>1, <2>2
<1>4. CASE r = DefaultPlan(owner)
  <2>1. r \in Row /\ r.activated = {} /\ r.seats = 1
    BY <1>1, <1>4 DEF DefaultPlan, Row
  <2>2. Fits(r, student)
    <3>1. r.activated \ student = {} /\ Cardinality({}) = 0
      BY <2>1, FS_EmptySet
    <3>2. QED
      BY <2>1, <3>1, FreeAssumption DEF Fits
  <2>3. QED
    BY <2>1, <2>2
<1>5. ASSUME NEW b \in BOOLEAN, r = [owner EXCEPT !.auto = b]
      PROVE  /\ r \in Row /\ r.activated \subseteq owner.activated
             /\ (r.null => r.activated = {}) /\ (low \/ Fits(r, student))
  <2>1. /\ r \in Row /\ r.activated = owner.activated /\ r.seats = owner.seats
        /\ r.null = owner.null
    BY <1>1, <1>5 DEF Row
  <2>2. QED
    BY <1>1, <2>1 DEF Fits
<1>6. QED
  BY <1>3, <1>4, <1>5

LEMMA SerialAsk ==
    ASSUME SerialInv, SerialNext, NEW w \in Workers, job[w].pc = "idle",
           \/ Ask(w) \/ Released(w) \/ \E u \in Users : MemberRemoved(w, u)
    PROVE  SerialInv'
<1>1. /\ owner \in Row /\ (owner.null => owner.activated = {})
      /\ (lowered \/ Fits(owner, student)) /\ member \in SUBSET Users
      /\ lowered \in BOOLEAN
  BY DEF SerialInv, TypeOK
<1>2. UNCHANGED <<owner, member, student>> /\ job'[w].pc # "idle"
  <2>1. /\ UNCHANGED <<owner, member, student>>
        /\ \E pc, u, r, then :
              /\ pc # "idle"
              /\ job' = [job EXCEPT ![w] = [pc |-> pc, user |-> u, row |-> r, then |-> then]]
    <3>1. CASE AskPlan(w)
      BY <3>1 DEF AskPlan
    <3>2. CASE Released(w)
      BY <3>2 DEF Released
    <3>3. ASSUME NEW pc \in {"check", "answer", "off", "admin", "member"}, NEW u, NEW then,
                 Load(w, pc, u, then)
          PROVE  /\ UNCHANGED <<owner, member, student>>
                 /\ pc # "idle"
                 /\ job' = [job EXCEPT ![w] = [pc |-> pc, user |-> u, row |-> owner,
                                               then |-> then]]
      BY <3>3 DEF Load
    <3>4. CASE \E u \in Users : AskRest(w, u) \/ AskGraphQL(w, u) \/ AskUser(w, u)
                               \/ MemberRemoved(w, u)
      <4>1. \E pc \in {"check", "answer", "off", "admin", "member"} :
               \E u, then : Load(w, pc, u, then)
        BY <3>4 DEF AskRest, AskGraphQL, AskUser, MemberRemoved
      <4>2. QED
        BY <3>3, <4>1
    <3>5. QED
      BY <3>1, <3>2, <3>4 DEF Ask
  <2>2. QED
    BY <2>1 DEF SerialInv, TypeOK
<1>3. owner.activated \subseteq Entitled
  <2>1. \A x \in Workers : job[x].pc = "idle"
    BY <1>2 DEF SerialNext
  <2>2. QED
    BY <2>1 DEF SerialInv, Leaving
<1>4. ASSUME NEW pc \in {"check", "answer", "off", "admin", "member"}, NEW u \in Users,
             NEW then \in {"done", "answer", "admin"}, Load(w, pc, u, then),
             pc = "check" => u \in member \cup Viewers
      PROVE  SerialInv'
  <2> DEFINE j == [pc |-> pc, user |-> u, row |-> owner, then |-> then]
  <2>1. j \in Job /\ j.pc # "idle" /\ SerialJob(j, owner, member, student, lowered)
    BY <1>1, <1>4 DEF Job, SerialJob
  <2>2. job' = [job EXCEPT ![w] = j] /\ UNCHANGED <<owner, member, student, lowered>>
    BY <1>4 DEF Load
  <2> HIDE DEF j
  <2>3. QED
    BY <1>1, <1>3, <2>1, <2>2, SerialSave
<1>5. ASSUME NEW r \in Row, r.activated \subseteq owner.activated, r.null => r.activated = {},
             NEW low \in BOOLEAN, lowered' = low, lowered => low, low \/ Fits(r, student),
             job' = [job EXCEPT ![w] = [pc |-> "save", user |-> None, row |-> r,
                                        then |-> "done"]]
      PROVE  SerialInv'
  <2> DEFINE j == [pc |-> "save", user |-> None, row |-> r, then |-> "done"]
  <2>1. j \in Job /\ j.pc = "save" /\ SerialJob(j, owner, member, student, low)
    BY <1>5 DEF Job, SerialJob
  <2>2. job' = [job EXCEPT ![w] = j]
    BY <1>5
  <2>3. Leaving(j) = {} /\ owner.activated \subseteq member \cup Viewers \cup Leaving(j)
    BY <1>3 DEF Leaving, Entitled
  <2> HIDE DEF j
  <2>4. /\ low \/ Fits(owner, student)
        /\ owner \in Row /\ (owner.null => owner.activated = {}) /\ owner' = owner
        /\ member \in SUBSET Users /\ member' = member /\ student' = student
        /\ low \in BOOLEAN /\ lowered' = low /\ j.pc # "idle"
        /\ SerialJob(j, owner, member, student, low)
    BY <1>1, <1>2, <1>5, <2>1
  <2>5. QED
    BY <2>1, <2>2, <2>3, <2>4, SerialWorker
<1>6. CASE AskPlan(w)
  <2>1. lowered' = lowered
    BY <1>6 DEF AskPlan
  <2>2. PICK r :
          /\ \/ \E n \in Counts : /\ r = [owner EXCEPT !.seats = n]
                                 /\ n >= ActivatedUserCount(owner)
             \/ r = DefaultPlan(owner)
             \/ \E b \in BOOLEAN : r = [owner EXCEPT !.auto = b]
          /\ job' = [job EXCEPT ![w] = [pc |-> "save", user |-> None, row |-> r,
                                        then |-> "done"]]
    BY <1>6 DEF AskPlan
  <2>3. QED
    BY <1>1, <1>5, <2>1, <2>2, PlanFits
<1>7. CASE Released(w)
  <2>1. PICK n \in Counts :
          /\ job' = [job EXCEPT ![w] = [pc |-> "save", user |-> None,
                       row |-> [owner EXCEPT !.seats = n], then |-> "done"]]
          /\ lowered' = (lowered \/ n < owner.seats)
    BY <1>7 DEF Released
  <2>2. n \in Nat /\ owner.seats \in Nat
    BY <1>1, CountsAssumption DEF Row
  <2> DEFINE low == lowered \/ n < owner.seats
             r == [owner EXCEPT !.seats = n]
  <2>3. low \in BOOLEAN /\ (lowered => low) /\ (low \/ n >= owner.seats)
    BY <1>1, <2>2
  <2>4. lowered' = low
    BY <2>1
  <2>5. job' = [job EXCEPT ![w] = [pc |-> "save", user |-> None, row |-> r,
                                   then |-> "done"]]
    BY <2>1
  <2>6. r = [owner EXCEPT !.seats = n]
    OBVIOUS
  <2> HIDE DEF low, r
  <2>7. /\ r \in Row /\ r.activated \subseteq owner.activated
        /\ (r.null => r.activated = {}) /\ (low \/ Fits(r, student))
    BY <2>3, <2>6, PlanFits
  <2>8. QED
    BY <1>5, <2>3, <2>4, <2>5, <2>7
<1>8. ASSUME NEW u \in Users, AskRest(w, u) \/ AskGraphQL(w, u) \/ AskUser(w, u)
      PROVE  SerialInv'
  <2>1. u \in member \cup Viewers
    BY <1>3, <1>8 DEF AskRest, AskGraphQL, AskUser, Entitled
  <2>2. \E pc \in {"check", "answer", "off", "admin"}, then \in {"done", "answer", "admin"} :
           Load(w, pc, u, then)
    BY <1>8 DEF AskRest, AskGraphQL, AskUser
  <2>3. QED
    BY <1>4, <2>1, <2>2
<1>9. ASSUME NEW u \in Users, MemberRemoved(w, u)
      PROVE  SerialInv'
  BY <1>4, <1>9 DEF MemberRemoved
<1>10. QED
  BY <1>6, <1>7, <1>8, <1>9 DEF Ask

LEMMA SerialRemoval ==
    ASSUME SerialInv, SerialNext, NEW w \in Workers, SaveMember(w) \/ SaveSeat(w)
    PROVE  SerialInv'
<1> DEFINE j == job[w]
<1>1. /\ j \in Job /\ j.row \in Row /\ j.row = owner /\ j.user \in Users
      /\ j.pc \in {"member", "seat"} /\ j.then \in {"done", "answer", "admin"}
      /\ SerialJob(j, owner, member, student, lowered)
      /\ owner.activated \subseteq Entitled \cup Leaving(j)
  <2>1. j.pc \in {"member", "seat"}
    BY DEF SaveMember, SaveSeat
  <2>2. QED
    BY <2>1, AtWork DEF SerialJob, Job
<1>2. /\ owner \in Row /\ (owner.null => owner.activated = {})
      /\ (lowered \/ Fits(owner, student)) /\ member \in SUBSET Users
      /\ lowered \in BOOLEAN
  BY DEF SerialInv, TypeOK
<1>3. CASE SaveMember(w)
  <2> DEFINE k == [j EXCEPT !.pc = "seat"]
             m == member \ {j.user}
  <2>1. /\ k \in Job /\ k.row = j.row /\ k.pc = "seat" /\ k.user = j.user /\ k.then = j.then
    BY <1>1 DEF Job
  <2>2. /\ job' = [job EXCEPT ![w] = k] /\ member' = m /\ m \in SUBSET Users
        /\ owner' = owner /\ student' = student /\ lowered' = lowered /\ j.pc = "member"
    BY <1>2, <1>3 DEF SaveMember, SerialInv, TypeOK
  <2>3. owner.activated \subseteq m \cup Viewers \cup Leaving(k)
    BY <1>1, <2>1, <2>2 DEF Leaving, Entitled
  <2> HIDE DEF k, m
  <2>4. SerialJob(k, owner, m, student, lowered)
    BY <1>1, <2>1 DEF SerialJob
  <2>5. QED
    BY <1>1, <1>2, <2>1, <2>2, <2>3, <2>4, SerialWorker
<1>4. CASE SaveSeat(w)
  <2>1. j.pc = "seat" /\ Idle(w) /\ UNCHANGED <<member, student, lowered>>
    BY <1>4 DEF SaveSeat
  <2> DEFINE r == IF j.user \in owner.activated
                  THEN [owner EXCEPT !.activated = owner.activated \ {j.user}, !.null = FALSE]
                  ELSE owner
  <2>2. owner' = r
    BY <1>1, <1>4 DEF SaveSeat
  <2>3. /\ r \in Row /\ r.activated = owner.activated \ {j.user} /\ r.seats = owner.seats
        /\ (r.null => r.activated = {})
    BY <1>2 DEF Row
  <2> HIDE DEF r
  <2>4. r.activated \subseteq Entitled
    BY <1>1, <2>1, <2>3 DEF Leaving
  <2>5. lowered \/ Fits(r, student)
    BY <1>2, <2>3, FewerFit
  <2>6. QED
    BY <1>1, <2>1, <2>2, <2>3, <2>4, <2>5, SerialFresh, SerialSave DEF Idle
<1>5. QED
  BY <1>3, <1>4

\* Someone joins the organization, or logs in.
LEMMA SerialWorld ==
    ASSUME SerialInv, NEW u \in Users, Join(u) \/ Login(u)
    PROVE  SerialInv'
<1>1. /\ owner' = owner /\ job' = job /\ owner \in Row
      /\ \A w \in Workers : job[w] \in Job /\ job[w].row \in Row
  BY DEF Join, Login, SerialInv, TypeOK, Job
<1>2. CASE Join(u)
  <2>1. TypeOK' /\ AloneAtWork'
    BY <1>2 DEF Join, SerialInv, TypeOK, AloneAtWork
  <2>2. ASSUME NEW w \in Workers
        PROVE  SerialJob(job[w], owner, member', student, lowered)
    BY <1>2 DEF Join, SerialInv, SerialJob
  <2>3. (owner.activated \subseteq Entitled \cup UNION {Leaving(job[w]) : w \in Workers})'
    BY <1>1, <1>2 DEF Join, SerialInv, Entitled
  <2>4. QED
    BY <1>1, <1>2, <2>1, <2>2, <2>3 DEF SerialInv, Join
<1>3. CASE Login(u)
  <2>1. /\ member' = member /\ lowered' \in BOOLEAN /\ (lowered => lowered')
        /\ lowered' \/ student \subseteq student'
    BY <1>3 DEF Login, SerialInv, TypeOK
  <2>2. TypeOK' /\ AloneAtWork'
    BY <1>3, <2>1 DEF Login, SerialInv, TypeOK, AloneAtWork
  <2>3. ASSUME NEW r \in Row, lowered \/ Fits(r, student)
        PROVE  lowered' \/ Fits(r, student')
    BY <2>1, <2>3, MoreStudentsFit
  <2>4. ASSUME NEW w \in Workers
        PROVE  SerialJob(job[w], owner, member, student', lowered')
    <3>1. SerialJob(job[w], owner, member, student, lowered)
      BY DEF SerialInv
    <3>2. job[w].pc = "activate" => lowered' \/ HasRoom(job[w].row, job[w].user, student')
      BY <1>1, <2>1, <3>1, MoreStudentsFit DEF SerialJob
    <3>3. QED
      BY <1>1, <2>3, <3>1, <3>2 DEF SerialJob
  <2>5. (owner.activated \subseteq Entitled \cup UNION {Leaving(job[w]) : w \in Workers})'
    BY <1>1, <2>1 DEF SerialInv, Entitled
  <2>6. lowered' \/ Fits(owner, student')
    BY <1>1, <2>3 DEF SerialInv
  <2>7. QED
    BY <1>1, <2>1, <2>2, <2>4, <2>5, <2>6 DEF SerialInv
<1>4. QED
  BY <1>2, <1>3

LEMMA SerialStep == SerialInv /\ [SerialNext]_vars => SerialInv'
<1> SUFFICES ASSUME SerialInv, [SerialNext]_vars PROVE SerialInv'
  OBVIOUS
<1>1. CASE UNCHANGED vars
  BY <1>1 DEF vars, SerialInv, TypeOK, AloneAtWork, Entitled
<1>2. CASE SerialNext
  <2>1. ASSUME NEW w \in Workers, Handle(w) PROVE SerialInv'
    BY <1>2, <2>1, SerialHandle
  <2>2. ASSUME NEW w \in Workers, Ask(w) \/ Released(w) \/ \E u \in Users : MemberRemoved(w, u)
        PROVE  SerialInv'
    <3>1. job[w].pc = "idle"
      BY <2>2 DEF Ask, AskPlan, AskRest, AskGraphQL, AskUser, Load, Released, MemberRemoved
    <3>2. QED
      BY <1>2, <2>2, <3>1, SerialAsk
  <2>3. ASSUME NEW w \in Workers, SaveMember(w) \/ SaveSeat(w) PROVE SerialInv'
    BY <1>2, <2>3, SerialRemoval
  <2>4. ASSUME NEW u \in Users, Join(u) \/ Login(u) PROVE SerialInv'
    BY <2>4, SerialWorld
  <2>5. QED
    BY <1>2, <2>1, <2>2, <2>3, <2>4 DEF SerialNext, Next, CoreNext, Removal
<1>3. QED
  BY <1>1, <1>2

LEMMA SerialInit == Init => SerialInv
<1> SUFFICES ASSUME Init PROVE SerialInv
  OBVIOUS
<1>1. TypeOK
  BY InvInit DEF Inv
<1>2. owner = NewRow /\ NewRow \in Row /\ NewRow.activated = {} /\ NewRow.seats = 1
  BY DEF Init, NewRow, Row
<1>3. Fits(owner, student)
  <2>1. owner.activated \ student = {}
    BY <1>2
  <2>2. QED
    BY <1>2, <2>1, FS_EmptySet, FreeAssumption DEF Fits
<1>4. \A w \in Workers : /\ job[w] = NoJob /\ job[w].pc = "idle"
                         /\ SerialJob(job[w], owner, member, student, lowered)
  BY SerialFresh DEF Init
<1>5. QED
  BY <1>1, <1>2, <1>3, <1>4 DEF SerialInv, AloneAtWork

\* Handled one at a time, every request of the organization keeps the row and what it
\* says of the seats: they cover the holders that count, and whoever is removed from the
\* organization leaves no seat behind.
THEOREM Removals == SerialSpec => [](TypeOK /\ SeatsCovered /\ QuietHoldersAreMembers)
<1>1. SerialInv => TypeOK /\ SeatsCovered
  BY DEF SerialInv, SeatsCovered, Fits, ActivatedUserCount
<1>2. SerialInv => QuietHoldersAreMembers
  BY DEF SerialInv, QuietHoldersAreMembers, Leaving, Entitled
<1>3. QED
  BY <1>1, <1>2, SerialInit, SerialStep, PTL DEF SerialSpec

=============================================================================
