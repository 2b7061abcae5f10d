---------------------------- MODULE BillingProofs ----------------------------
(***************************************************************************)
(* Proofs about Billing, for every number of subscriptions and every       *)
(* budget.                                                                 *)
(*                                                                         *)
(* For any number of workers and any order of delivery: type correctness,  *)
(* no paid terms that were not bought, no subscription without a customer. *)
(* A save copies from a row read earlier, from a notification or from a    *)
(* subscription retrieved earlier, so the invariant Inv speaks of all of   *)
(* these sources, not only of the row: that is what makes it inductive.    *)
(*                                                                         *)
(* For one worker: trials are had once (TrialKnown).                       *)
(*                                                                         *)
(* For one worker, notifications in order and subscriptions that do not    *)
(* overlap: the row agrees with Stripe when all is handled, and has        *)
(* forgotten what ended.  InOrder says what the notifications that wait    *)
(* will make of the row.                                                   *)
(*                                                                         *)
(* For one worker, in any order, without crashes: the repositories of who  *)
(* cancelled are switched off (OffInv).                                    *)
(***************************************************************************)
EXTENDS Billing, TLAPS

CallPcs == {"modify", "newsched", "schedule", "release", "cancel"}

\* A row, wherever it is held: no paid terms but bought ones (those in b), no
\* subscription without a customer.
GoodRow(r, b) ==
    /\ r.plan \notin FreePlans => TermsOf(r) \in b
    /\ r.sub # None => r.cust # None

\* A subscription that exists has bought terms and a customer.
GoodSub(st, b) ==
    st.status # "unborn" => TermsOf(st) \in b /\ st.cust # None

\* A notification is about a subscription that exists and shows bought terms.
GoodEvent(e, b, str) ==
    /\ e.sub \in Subs /\ e.cust # None
    /\ TermsOf(e) \in b
    /\ str[e.sub].status # "unborn"

\* A worker holds a good row, calls Stripe only for a subscription, and holds
\* bought terms whenever it is about to save them.
GoodJob(j, b) ==
    /\ GoodRow(j.row, b)
    /\ j.pc \in CallPcs => j.row.sub \in Subs
    /\ j.pc \in {"ids", "apply", "fetched", "local"} => j.want \in b
    /\ j.pc \in {"ids", "customer"} => j.ev.cust # None

Inv ==
    /\ TypeOK
    /\ GoodRow(owner, bought)
    /\ \A w \in Workers : GoodJob(job[w], bought)
    /\ \A s \in Subs : GoodSub(stripe[s], bought)
    /\ \A e \in events : GoodEvent(e, bought, stripe)

-----------------------------------------------------------------------------
\* Buying more terms spoils nothing.
LEMMA Monotone ==
    ASSUME NEW b, NEW c, b \subseteq c
    PROVE  /\ \A r : GoodRow(r, b) => GoodRow(r, c)
           /\ \A j : GoodJob(j, b) => GoodJob(j, c)
           /\ \A st : GoodSub(st, b) => GoodSub(st, c)
  BY DEF GoodRow, GoodJob, GoodSub

\* The constants of the rows and jobs a worker starts from are well typed.
LEMMA Fresh ==
    /\ NewRow \in Row /\ NoTerms \in Terms /\ NoEvent \in Event
    /\ NotSeen \in Seen /\ Idle \in Job /\ Unborn \in Subscription
    /\ \A b : GoodJob(Idle, b) /\ GoodRow(NewRow, b)
<1>1. NewRow \in Row /\ NoTerms \in Terms /\ NotSeen \in Seen
  BY DEF NewRow, Row, NoTerms, Terms, NotSeen, Seen, MaybeSub, BasicPlan,
         AllPlans, FreePlans
<1>2. NoEvent \in Event
  BY DEF NoEvent, Event, EventKinds, MaybeSub, BasicPlan, AllPlans, FreePlans
<1>3. Idle \in Job
  BY <1>1, <1>2 DEF Idle, Job
<1>4. Unborn \in Subscription
  BY <1>1 DEF Unborn, Subscription, MaybeSub, BasicPlan, AllPlans, FreePlans
<1>5. ASSUME NEW b PROVE GoodJob(Idle, b) /\ GoodRow(NewRow, b)
  BY DEF GoodJob, GoodRow, Idle, NewRow, CallPcs, FreePlans, BasicPlan
<1>6. QED
  BY <1>1, <1>2, <1>3, <1>4, <1>5

\* A step of one worker that leaves Stripe alone: it may save a good row, end
\* with a good job and take a notification off the list.
LEMMA LocalStep ==
    ASSUME Inv, NEW w \in Workers, NEW j \in Job, GoodJob(j, bought),
           job' = [job EXCEPT ![w] = j],
           owner' \in Row, GoodRow(owner', bought),
           reposOn' \in BOOLEAN, events' \subseteq events,
           budget' \in [BudgetKeys -> Nat], UNCHANGED stripeSide
    PROVE  Inv'
<1>1. TypeOK'
  BY DEF Inv, TypeOK, stripeSide
<1>2. GoodRow(owner, bought)' /\ (\A x \in Workers : GoodJob(job[x], bought))'
  BY DEF Inv, TypeOK, stripeSide
<1>3. (\A s \in Subs : GoodSub(stripe[s], bought))'
  BY DEF Inv, stripeSide
<1>4. (\A e \in events : GoodEvent(e, bought, stripe))'
  BY DEF Inv, stripeSide
<1>5. QED
  BY <1>1, <1>2, <1>3, <1>4 DEF Inv

\* A step that changes subscription s into st and sends notifications of it.
LEMMA StripeStep ==
    ASSUME Inv, NEW s \in Subs, NEW st \in Subscription,
           st.status # "unborn", st.cust # None,
           NEW kinds \in SUBSET EventKinds, SetSub(s, st, kinds),
           job' \in [Workers -> Job],
           \A w \in Workers : GoodJob(job'[w], bought'),
           checkouts' \subseteq Checkout, budget' \in [BudgetKeys -> Nat],
           UNCHANGED <<owner, reposOn>>
    PROVE  Inv'
<1>1. /\ TermsOf(st) \in Terms /\ TermsOf(st) \in bought'
      /\ bought \subseteq bought' /\ bought' \subseteq Terms
  BY DEF SetSub, Inv, TypeOK, TermsOf, Terms, Subscription
<1>2. stripe' \in [Subs -> Subscription] /\ clock' \in Nat
  BY DEF SetSub, Inv, TypeOK
<1>3. ASSUME NEW k \in kinds
      PROVE  /\ EventOf(k, s, st, clock) \in Event
             /\ GoodEvent(EventOf(k, s, st, clock), bought', stripe')
  <2>1. EventOf(k, s, st, clock) \in Event
    BY DEF EventOf, Event, Subscription, MaybeSub, Inv, TypeOK
  <2>2. TermsOf(EventOf(k, s, st, clock)) = TermsOf(st)
    BY DEF EventOf, TermsOf
  <2>3. stripe'[s] = st
    BY DEF SetSub, Inv, TypeOK
  <2>4. QED
    BY <1>1, <2>1, <2>2, <2>3 DEF GoodEvent, EventOf
<1>4. TypeOK'
  BY <1>1, <1>2, <1>3 DEF Inv, TypeOK, SetSub
<1>5. GoodRow(owner, bought)'
  BY <1>1, Monotone DEF Inv
<1>6. (\A x \in Subs : GoodSub(stripe[x], bought))'
  BY <1>1, Monotone DEF Inv, TypeOK, SetSub, GoodSub
<1>7. (\A e \in events : GoodEvent(e, bought, stripe))'
  <2>1. ASSUME NEW e \in events PROVE GoodEvent(e, bought', stripe')
    BY <1>1 DEF Inv, TypeOK, SetSub, GoodEvent
  <2>2. QED
    BY <2>1, <1>3 DEF SetSub
<1>8. QED
  BY <1>4, <1>5, <1>6, <1>7 DEF Inv

-----------------------------------------------------------------------------
\* The row operations of PlanService keep a row well typed and good.
LEMMA RowSteps ==
    ASSUME NEW r \in Row, NEW b, GoodRow(r, b)
    PROVE  /\ DefaultPlan(r) \in Row /\ GoodRow(DefaultPlan(r), b)
           /\ \A t \in Terms : t \in b =>
                 WithTerms(r, t) \in Row /\ GoodRow(WithTerms(r, t), b)
           /\ \A d \in BOOLEAN : [r EXCEPT !.delinquent = d] \in Row
                                 /\ GoodRow([r EXCEPT !.delinquent = d], b)
           /\ \A x \in {"none", "running", "over"} :
                 [r EXCEPT !.trial = x] \in Row
                 /\ GoodRow([r EXCEPT !.trial = x], b)
           /\ \A c \in Subs : /\ [r EXCEPT !.cust = c] \in Row
                              /\ GoodRow([r EXCEPT !.cust = c], b)
                              /\ \A s \in Subs :
                                    [r EXCEPT !.sub = s, !.cust = c] \in Row
                                    /\ GoodRow([r EXCEPT !.sub = s, !.cust = c], b)
           /\ [r EXCEPT !.active = @ + 1] \in Row
           /\ GoodRow([r EXCEPT !.active = @ + 1], b)
           /\ Lapse(r) \in Row /\ GoodRow(Lapse(r), b)
<1>1. DefaultPlan(r) \in Row /\ GoodRow(DefaultPlan(r), b)
  BY DEF DefaultPlan, Row, GoodRow, TermsOf, MaybeSub, FreePlans, BasicPlan, AllPlans
<1>2. ASSUME NEW t \in Terms, t \in b
      PROVE  WithTerms(r, t) \in Row /\ GoodRow(WithTerms(r, t), b)
  BY <1>2 DEF WithTerms, Row, GoodRow, TermsOf, Terms
<1>3. ASSUME NEW d \in BOOLEAN
      PROVE  [r EXCEPT !.delinquent = d] \in Row
             /\ GoodRow([r EXCEPT !.delinquent = d], b)
  BY DEF Row, GoodRow, TermsOf
<1>4. ASSUME NEW x \in {"none", "running", "over"}
      PROVE  [r EXCEPT !.trial = x] \in Row /\ GoodRow([r EXCEPT !.trial = x], b)
  BY DEF Row, GoodRow, TermsOf
<1>5. ASSUME NEW c \in Subs
      PROVE  /\ [r EXCEPT !.cust = c] \in Row
             /\ GoodRow([r EXCEPT !.cust = c], b)
             /\ \A s \in Subs : [r EXCEPT !.sub = s, !.cust = c] \in Row
                   /\ GoodRow([r EXCEPT !.sub = s, !.cust = c], b)
  BY SubsAssumption DEF Row, GoodRow, TermsOf, MaybeSub
<1>6. [r EXCEPT !.active = @ + 1] \in Row /\ GoodRow([r EXCEPT !.active = @ + 1], b)
  BY DEF Row, GoodRow, TermsOf
<1>7. Lapse(r) \in Row /\ GoodRow(Lapse(r), b)
  BY <1>4 DEF Lapse
<1>8. QED
  BY <1>1, <1>2, <1>3, <1>4, <1>5, <1>6, <1>7

\* Ending a handler: its worker is idle, the notification gone or kept.
LEMMA FinishStep ==
    ASSUME Inv, NEW w \in Workers, Finish(w),
           owner' \in Row, GoodRow(owner', bought),
           reposOn' \in BOOLEAN, UNCHANGED stripeSide
    PROVE  Inv'
<1>1. events' \subseteq events /\ budget' \in [BudgetKeys -> Nat]
  BY DEF Finish, Spend, Inv, TypeOK, BudgetKeys
<1>2. QED
  BY <1>1, Fresh, LocalStep DEF Finish

\* Moving to the next step of a handler with a good row.
LEMMA GotoStep ==
    ASSUME Inv, NEW w \in Workers, NEW r \in Row, GoodRow(r, bought),
           NEW next, [job[w] EXCEPT !.pc = next, !.row = r] \in Job,
           next \in CallPcs => r.sub \in Subs,
           next \in {"ids", "apply", "fetched", "local"} => job[w].want \in bought,
           next \in {"ids", "customer"} => job[w].ev.cust # None,
           Goto(w, next, r),
           owner' \in Row, GoodRow(owner', bought),
           UNCHANGED <<reposOn, events, budget, stripeSide>>
    PROVE  Inv'
<1> DEFINE j == [job[w] EXCEPT !.pc = next, !.row = r]
<1>1. job[w] \in Job
  BY DEF Inv, TypeOK
<1>2. j.pc = next /\ j.row = r /\ j.want = job[w].want /\ j.ev = job[w].ev
  BY <1>1 DEF Job
<1>3. GoodJob(j, bought)
  BY <1>2 DEF GoodJob
<1>4. job' = [job EXCEPT ![w] = j]
  BY DEF Goto, Inv, TypeOK
<1>5. reposOn' \in BOOLEAN /\ events' \subseteq events /\ budget' \in [BudgetKeys -> Nat]
  BY DEF Inv, TypeOK
<1> HIDE DEF j
<1>6. j \in Job
  BY DEF j
<1>7. QED
  BY <1>3, <1>4, <1>5, <1>6, LocalStep DEF stripeSide

-----------------------------------------------------------------------------
\* A worker that starts something: idle before, a good job after.
LEMMA StartStep ==
    ASSUME Inv, NEW w \in Workers, NEW j \in Job, GoodJob(j, bought),
           job' = [job EXCEPT ![w] = j],
           budget' \in [BudgetKeys -> Nat],
           UNCHANGED <<owner, reposOn, events, stripeSide>>
    PROVE  Inv'
  BY LocalStep DEF Inv, TypeOK

\* The webhook handlers preserve the invariant.
LEMMA WebhookStep ==
    ASSUME Inv, NEW w \in Workers, Webhook(w)
    PROVE  Inv'
<1> USE DEF stripeSide
<1>0. /\ owner \in Row /\ GoodRow(owner, bought) /\ reposOn \in BOOLEAN
      /\ job[w] \in Job /\ GoodJob(job[w], bought)
      /\ job[w].row \in Row /\ job[w].want \in Terms /\ job[w].ev \in Event
      /\ GoodRow(job[w].row, bought)
      /\ budget \in [BudgetKeys -> Nat]
  BY DEF Inv, TypeOK, Job, GoodJob
<1>1. CASE Receive(w)
  <2>1. PICK e \in events :
           /\ ~Ignored(e)
           /\ \/ e.kind \in {"paid", "deleted", "updated"}
              \/ e.kind \in {"created", "checkout"}
           /\ job' = [job EXCEPT ![w] = [pc |-> FirstStep(e), ev |-> e,
                        row |-> owner, want |-> TermsOf(e), seen |-> NotSeen]]
    BY <1>1 DEF Receive
  <2> DEFINE j == [pc |-> FirstStep(e), ev |-> e, row |-> owner,
                   want |-> TermsOf(e), seen |-> NotSeen]
  <2>2. e \in Event /\ GoodEvent(e, bought, stripe)
    BY DEF Inv, TypeOK
  <2>3. FirstStep(e) \in {"paid", "default", "apply", "ids", "customer"}
    BY <2>1 DEF FirstStep
  <2>4. j \in Job
    BY <1>0, <2>2, <2>3, Fresh DEF Job, TermsOf, Terms, Event
  <2>5. GoodJob(j, bought)
    BY <1>0, <2>2, <2>3 DEF GoodJob, GoodEvent, CallPcs
  <2> HIDE DEF j
  <2>6. job' = [job EXCEPT ![w] = j]
    BY <2>1 DEF j
  <2>7. QED
    BY <1>0, <1>1, <2>4, <2>5, <2>6, StartStep DEF Receive
<1>2. CASE ReceiveReleased(w)
  <2>1. PICK e \in events :
           job' = [job EXCEPT ![w] = [pc |-> "fetched", ev |-> e,
              row |-> NewRow, want |-> TermsOf(stripe[e.sub]), seen |-> NotSeen]]
    BY <1>2 DEF ReceiveReleased
  <2> DEFINE j == [pc |-> "fetched", ev |-> e, row |-> NewRow,
                   want |-> TermsOf(stripe[e.sub]), seen |-> NotSeen]
  <2>2. e \in Event /\ GoodEvent(e, bought, stripe)
    BY DEF Inv, TypeOK
  <2>3. stripe[e.sub] \in Subscription /\ TermsOf(stripe[e.sub]) \in bought
    BY <2>2 DEF Inv, TypeOK, GoodEvent, GoodSub
  <2>4. j \in Job
    BY <2>2, <2>3, Fresh DEF Job, Inv, TypeOK
  <2>5. GoodJob(j, bought)
    BY <2>3, Fresh DEF GoodJob, CallPcs
  <2> HIDE DEF j
  <2>6. job' = [job EXCEPT ![w] = j]
    BY <2>1 DEF j
  <2>7. QED
    BY <1>0, <1>2, <2>4, <2>5, <2>6, StartStep DEF ReceiveReleased
<1>3. CASE LoadReleased(w)
  <2>1. [job[w] EXCEPT !.pc = "apply", !.row = owner] \in Job
    BY <1>0 DEF Job
  <2>2. job[w].want \in bought
    BY <1>0, <1>3 DEF LoadReleased, GoodJob
  <2>3. QED
    BY <1>0, <1>3, <2>1, <2>2, GotoStep DEF LoadReleased, CallPcs
<1>4. CASE SavePaid(w)
  BY <1>0, <1>4, RowSteps, FinishStep DEF SavePaid
<1>5. CASE SaveDefault(w)
  <2>1. owner' \in Row /\ GoodRow(owner', bought)
    BY <1>0, <1>5, RowSteps DEF SaveDefault
  <2>2. [job[w] EXCEPT !.pc = "repos", !.row = owner'] \in Job
    BY <1>0, <2>1 DEF Job
  <2>3. QED
    BY <1>5, <2>1, <2>2, GotoStep DEF SaveDefault, CallPcs
<1>6. CASE SwitchReposOff(w)
  BY <1>0, <1>6, FinishStep DEF SwitchReposOff
<1>7. CASE SaveIds(w)
  <2>1. job[w].ev.cust # None /\ job[w].want \in bought
    BY <1>0, <1>7 DEF SaveIds, GoodJob
  <2>2. owner' \in Row /\ GoodRow(owner', bought)
    BY <1>0, <1>7, <2>1 DEF SaveIds, Row, Event, GoodRow, TermsOf
  <2>3. [job[w] EXCEPT !.pc = "apply", !.row = owner'] \in Job
    BY <1>0, <2>2 DEF Job
  <2>4. QED
    BY <1>7, <2>1, <2>2, <2>3, GotoStep DEF SaveIds, CallPcs
<1>8. CASE SaveTerms(w)
  <2>1. job[w].want \in bought
    BY <1>0, <1>8 DEF SaveTerms, GoodJob
  <2>2. owner' \in Row /\ GoodRow(owner', bought)
    BY <1>0, <1>8, <2>1, RowSteps DEF SaveTerms
  <2>3. CASE StartsTrial(job[w])
    <3>1. [job[w] EXCEPT !.pc = "trial", !.row = owner'] \in Job
      BY <1>0, <2>2 DEF Job
    <3>2. QED
      BY <1>8, <2>2, <2>3, <3>1, GotoStep DEF SaveTerms, CallPcs
  <2>4. CASE ~StartsTrial(job[w])
    BY <1>0, <1>8, <2>2, <2>4, FinishStep DEF SaveTerms
  <2>5. QED
    BY <2>3, <2>4
<1>9. CASE SaveTrial(w)
  BY <1>0, <1>9, RowSteps, FinishStep DEF SaveTrial
<1>10. CASE SaveCustomer(w)
  <2>1. job[w].ev.cust # None
    BY <1>0, <1>10 DEF SaveCustomer, GoodJob
  <2>2. job[w].ev.cust \in Subs
    BY <1>0, <2>1 DEF Event, MaybeSub
  <2>3. QED
    BY <1>0, <1>10, <2>2, RowSteps, FinishStep DEF SaveCustomer
<1>11. CASE PaymentFailed(w) \/ IgnoreEvent(w) \/ GiveUp(w)
  <2>1. owner' \in Row /\ GoodRow(owner', bought)
    BY <1>0, <1>11, RowSteps DEF PaymentFailed, IgnoreEvent, GiveUp
  <2>2. /\ events' \subseteq events
        /\ UNCHANGED <<reposOn, job, budget, stripeSide>>
    BY <1>11 DEF PaymentFailed, IgnoreEvent, GiveUp
  <2>3. job' = [job EXCEPT ![w] = job[w]]
    BY <2>2 DEF Inv, TypeOK
  <2>4. QED
    BY <1>0, <2>1, <2>2, <2>3, LocalStep
<1>12. QED
  BY <1>1, <1>2, <1>3, <1>4, <1>5, <1>6, <1>7, <1>8, <1>9, <1>10, <1>11
     DEF Webhook

-----------------------------------------------------------------------------
\* A request that changes the subscription its row names and moves on.
LEMMA CallStep ==
    ASSUME Inv, NEW w \in Workers, job[w].pc \in CallPcs, Live(Target(w)),
           NEW st \in Subscription,
           st.status = stripe[Target(w)].status,
           st.cust = stripe[Target(w)].cust,
           NEW kinds \in SUBSET EventKinds,
           SetSub(Target(w), st, kinds),
           NEW next \in {"schedule", "local", "cancel", "save"},
           next = "local" => job[w].want = TermsOf(st),
           Goto(w, next, job[w].row),
           UNCHANGED <<owner, reposOn, checkouts, budget>>
    PROVE  Inv'
<1> DEFINE s == Target(w)
           j == [job[w] EXCEPT !.pc = next, !.row = job[w].row]
<1>1. job[w] \in Job /\ GoodJob(job[w], bought)
  BY DEF Inv, TypeOK
<1>2. s \in Subs
  BY <1>1 DEF Target, GoodJob
<1>3. st.status # "unborn" /\ st.cust # None
  BY <1>2 DEF Live, Inv, GoodSub
<1>4. bought \subseteq bought' /\ TermsOf(st) \in bought'
  BY DEF SetSub
<1>5. j \in Job /\ job' = [job EXCEPT ![w] = j]
  BY <1>1 DEF Goto, Job
<1>6. j.pc = next /\ j.row = job[w].row /\ j.want = job[w].want
  BY <1>1 DEF Job
<1>7. GoodJob(j, bought')
  BY <1>1, <1>2, <1>4, <1>6, Monotone DEF GoodJob, Target, CallPcs
<1> HIDE DEF j
<1>8. \A x \in Workers : GoodJob(job'[x], bought')
  BY <1>4, <1>5, <1>7, Monotone DEF Inv, TypeOK
<1>9. job' \in [Workers -> Job]
  BY <1>5 DEF Inv, TypeOK
<1>10. checkouts' \subseteq Checkout /\ budget' \in [BudgetKeys -> Nat]
  BY DEF Inv, TypeOK
<1>11. QED
  BY <1>2, <1>3, <1>8, <1>9, <1>10, StripeStep

\* A request ends: the worker is idle again, perhaps after a last save.
LEMMA EndStep ==
    ASSUME Inv, NEW w \in Workers, job' = [job EXCEPT ![w] = Idle],
           owner' \in Row, GoodRow(owner', bought),
           budget' \in [BudgetKeys -> Nat],
           UNCHANGED <<reposOn, events, stripeSide>>
    PROVE  Inv'
<1>1. reposOn' \in BOOLEAN /\ events' \subseteq events
  BY DEF Inv, TypeOK
<1>2. QED
  BY <1>1, Fresh, LocalStep DEF stripeSide

\* The account and trial requests preserve the invariant.
LEMMA RequestStep ==
    ASSUME Inv, NEW w \in Workers, Request(w)
    PROVE  Inv'
<1>0. /\ owner \in Row /\ GoodRow(owner, bought) /\ reposOn \in BOOLEAN
      /\ job[w] \in Job /\ GoodJob(job[w], bought)
      /\ job[w].row \in Row /\ job[w].want \in Terms /\ job[w].seen \in Seen
      /\ GoodRow(job[w].row, bought) /\ Target(w) \in MaybeSub
      /\ budget \in [BudgetKeys -> Nat]
  BY DEF Inv, TypeOK, Job, GoodJob, Target, Row
<1>a. \A s \in Subs : stripe[s] \in Subscription
  BY DEF Inv, TypeOK
<1>b. job[w].pc \in CallPcs => Target(w) \in Subs
  BY <1>0 DEF GoodJob, Target
<1>1. CASE UpdateToDefault(w)
  <2>1. owner' \in Row /\ GoodRow(owner', bought)
    BY <1>0, <1>1, RowSteps DEF UpdateToDefault
  <2>2. [job[w] EXCEPT !.pc = "save", !.row = owner'] \in Job
    BY <1>0, <2>1 DEF Job
  <2>3. QED
    BY <1>1, <2>1, <2>2, GotoStep DEF UpdateToDefault, CallPcs
<1>2. CASE OpenCheckout(w)
  <2> DEFINE c == [plan |-> job[w].want.plan, qty |-> job[w].want.qty,
               trial |-> OffersTrial(job[w].want.plan) /\ job[w].row.trial = "none",
               cust |-> job[w].row.cust]
             j == [job[w] EXCEPT !.pc = "save", !.row = job[w].row]
  <2>1. c.trial \in BOOLEAN
    BY Zenon DEF OffersTrial
  <2>2. c \in Checkout
    BY <1>0, <2>1 DEF Checkout, Terms, Row
  <2>3. j \in Job /\ GoodJob(j, bought)
    BY <1>0 DEF Job, GoodJob, CallPcs
  <2>4. /\ checkouts' = checkouts \cup {c} /\ job' = [job EXCEPT ![w] = j]
        /\ UNCHANGED <<owner, reposOn, events, budget, stripe, clock, bought>>
    BY <1>2 DEF OpenCheckout, Goto
  <2> HIDE DEF c, j
  <2>5. TypeOK'
    BY <2>2, <2>3, <2>4 DEF Inv, TypeOK
  <2>6. QED
    BY <2>3, <2>4, <2>5 DEF Inv, TypeOK
<1>3. CASE ChooseCall(w)
  <2>1. Target(w) \in Subs
    BY <1>0, <1>3 DEF ChooseCall, MaybeSub
  <2>2. \/ job[w].want.plan \in FreePlans /\ job[w].want.plan \notin ProPlans
        \/ job[w].want.plan \notin FreePlans /\ job[w].want.plan \in ProPlans
    BY <1>3 DEF ChooseCall, FreePlans, BasicPlan, ProPlans, PrPlans, SentryPlans,
       CloudPlans
  <2> DEFINE choice ==
         CASE job[w].want.plan \in FreePlans ->
                IF stripe[Target(w)].sched # "none" THEN "release" ELSE "cancel"
           [] job[w].want.plan \in ProPlans ->
                IF stripe[Target(w)].sched # "none" THEN "schedule"
                ELSE IF ChargesNow(job[w].row, job[w].want) THEN "modify"
                ELSE "newsched"
  <2>3. choice \in CallPcs
    BY <2>2 DEF CallPcs
  <2>4. job' = [job EXCEPT ![w].pc = choice,
                      ![w].seen = [plan |-> stripe[Target(w)].plan,
                                   qty |-> stripe[Target(w)].qty,
                                   period |-> stripe[Target(w)].period]]
    BY <1>3 DEF ChooseCall
  <2> HIDE DEF choice
  <2>5. PICK call \in CallPcs :
          job' = [job EXCEPT ![w].pc = call,
                      ![w].seen = [plan |-> stripe[Target(w)].plan,
                                   qty |-> stripe[Target(w)].qty,
                                   period |-> stripe[Target(w)].period]]
    BY <2>3, <2>4
  <2> DEFINE sn == [plan |-> stripe[Target(w)].plan,
                    qty |-> stripe[Target(w)].qty,
                    period |-> stripe[Target(w)].period]
             j == [job[w] EXCEPT !.pc = call, !.seen = sn]
  <2>6. sn \in Seen
    BY <1>a, <2>1 DEF Seen, Subscription
  <2> HIDE DEF sn
  <2>7. j \in Job /\ GoodJob(j, bought)
    BY <1>0, <2>1, <2>6 DEF Job, GoodJob, CallPcs, Target
  <2>8. job' = [job EXCEPT ![w] = j]
    BY <2>5 DEF sn, Inv, TypeOK
  <2> HIDE DEF j
  <2>9. QED
    BY <1>0, <1>3, <2>7, <2>8, StartStep DEF ChooseCall
<1>4. CASE ModifySubscription(w)
  <2> DEFINE st == [stripe[Target(w)] EXCEPT !.plan = job[w].want.plan,
                       !.qty = job[w].want.qty, !.cancel = FALSE]
  <2>1. /\ st \in Subscription /\ st.status = stripe[Target(w)].status
        /\ st.cust = stripe[Target(w)].cust /\ TermsOf(st) = job[w].want
    BY <1>0, <1>a, <1>b, <1>4 DEF ModifySubscription, CallPcs, Subscription,
       Terms, TermsOf
  <2>2. SetSub(Target(w), st, {"updated"})
    BY <1>4 DEF ModifySubscription
  <2> HIDE DEF st
  <2>3. QED
    BY <1>4, <2>1, <2>2, CallStep DEF ModifySubscription, CallPcs, EventKinds
<1>5. CASE SaveLocal(w)
  <2>1. job[w].want \in bought
    BY <1>0, <1>5 DEF SaveLocal, GoodJob
  <2>2. owner' \in Row /\ GoodRow(owner', bought)
    BY <1>0, <1>5, <2>1, RowSteps DEF SaveLocal
  <2>3. [job[w] EXCEPT !.pc = "save", !.row = owner'] \in Job
    BY <1>0, <2>2 DEF Job
  <2>4. QED
    BY <1>5, <2>2, <2>3, GotoStep DEF SaveLocal, CallPcs
<1>6. CASE CreateSchedule(w)
  <2> DEFINE st == [stripe[Target(w)] EXCEPT !.sched = "new"]
  <2>1. /\ st \in Subscription /\ st.status = stripe[Target(w)].status
        /\ st.cust = stripe[Target(w)].cust
    BY <1>a, <1>b, <1>6 DEF CreateSchedule, CallPcs, Subscription
  <2>2. SetSub(Target(w), st, {"updated"})
    BY <1>6 DEF CreateSchedule
  <2> HIDE DEF st
  <2>3. QED
    BY <1>6, <2>1, <2>2, CallStep DEF CreateSchedule, CallPcs, EventKinds
<1>7. CASE ModifySchedule(w)
  <2> DEFINE st == [stripe[Target(w)] EXCEPT !.plan = job[w].seen.plan,
                      !.qty = job[w].seen.qty, !.sched = "pending",
                      !.next = job[w].want, !.cancel = FALSE]
  <2>1. /\ st \in Subscription /\ st.status = stripe[Target(w)].status
        /\ st.cust = stripe[Target(w)].cust
    BY <1>0, <1>a, <1>b, <1>7 DEF ModifySchedule, CallPcs, Subscription, Seen
  <2>2. SetSub(Target(w), st, {"updated"})
    BY <1>7 DEF ModifySchedule
  <2> HIDE DEF st
  <2>3. QED
    BY <1>7, <2>1, <2>2, CallStep DEF ModifySchedule, CallPcs, EventKinds
<1>8. CASE ReleaseSchedule(w)
  <2> DEFINE st == [stripe[Target(w)] EXCEPT !.sched = "none", !.next = NoTerms]
  <2>1. /\ st \in Subscription /\ st.status = stripe[Target(w)].status
        /\ st.cust = stripe[Target(w)].cust
    BY <1>a, <1>b, <1>8, Fresh DEF ReleaseSchedule, CallPcs, Subscription
  <2>2. SetSub(Target(w), st, {"released"})
    BY <1>8 DEF ReleaseSchedule
  <2> HIDE DEF st
  <2>3. QED
    BY <1>8, <2>1, <2>2, CallStep DEF ReleaseSchedule, CallPcs, EventKinds
<1>9. CASE CancelAtPeriodEnd(w)
  <2> DEFINE st == [stripe[Target(w)] EXCEPT !.cancel = TRUE]
  <2>1. /\ st \in Subscription /\ st.status = stripe[Target(w)].status
        /\ st.cust = stripe[Target(w)].cust
    BY <1>a, <1>b, <1>9 DEF CancelAtPeriodEnd, CallPcs, Subscription
  <2>2. SetSub(Target(w), st, {"updated"})
    BY <1>9 DEF CancelAtPeriodEnd
  <2> HIDE DEF st
  <2>3. QED
    BY <1>9, <2>1, <2>2, CallStep DEF CancelAtPeriodEnd, CallPcs, EventKinds
<1>10. CASE RequestFails(w)
  BY <1>0, <1>10, EndStep DEF RequestFails
<1>11. CASE SaveAccount(w)
  BY <1>0, <1>11, EndStep DEF SaveAccount
<1>12. CASE SaveCancelTrial(w)
  <2>1. owner' \in Row /\ GoodRow(owner', bought)
    BY <1>0, <1>12, RowSteps DEF SaveCancelTrial
  <2>2. QED
    BY <1>0, <1>12, <2>1, EndStep DEF SaveCancelTrial
<1>13. QED
  BY <1>1, <1>2, <1>3, <1>4, <1>5, <1>6, <1>7, <1>8, <1>9, <1>10, <1>11,
     <1>12 DEF Request

-----------------------------------------------------------------------------
\* Asking for a plan or a trial, and activating a seat.
LEMMA NewRequestStep ==
    ASSUME Inv, NEW w \in Workers, NewRequest(w)
    PROVE  Inv'
<1>0. /\ owner \in Row /\ GoodRow(owner, bought) /\ NoEvent \in Event
      /\ NotSeen \in Seen /\ NoTerms \in Terms
      /\ budget \in [BudgetKeys -> Nat]
  BY Fresh DEF Inv, TypeOK
<1>1. ASSUME NEW pc \in {"update", "trial", "canceltrial"}, NEW t \in Terms,
             Begin(w, pc, t), budget' \in [BudgetKeys -> Nat]
      PROVE  Inv'
  <2> DEFINE j == [pc |-> pc, ev |-> NoEvent, row |-> owner, want |-> t,
                   seen |-> NotSeen]
  <2>1. j \in Job /\ GoodJob(j, bought)
    BY <1>0 DEF Job, GoodJob, CallPcs
  <2>2. job' = [job EXCEPT ![w] = j]
    BY <1>1 DEF Begin
  <2> HIDE DEF j
  <2>3. QED
    BY <1>1, <2>1, <2>2, StartStep DEF Begin
<1>2. \A k \in BudgetKeys : Spend(k) => budget' \in [BudgetKeys -> Nat]
  BY <1>0 DEF Spend
<1>3. CASE AskPlan(w)
  <2>1. PICK t \in Wants : Begin(w, "update", t)
    BY <1>3 DEF AskPlan
  <2>2. t \in Terms
    BY WantsAssumption DEF Terms, AvailablePlans, AllPlans, ProPlans
  <2>3. QED
    BY <1>1, <1>2, <1>3, <2>1, <2>2 DEF AskPlan, BudgetKeys
<1>4. CASE StartTrial(w) \/ CancelTrial(w)
  BY <1>0, <1>1, <1>2, <1>4 DEF StartTrial, CancelTrial, BudgetKeys
<1>5. CASE ActivateSeat(w)
  <2>1. owner' \in Row /\ GoodRow(owner', bought)
    BY <1>0, <1>5, RowSteps DEF ActivateSeat
  <2>2. job' = [job EXCEPT ![w] = job[w]] /\ job[w] \in Job /\ GoodJob(job[w], bought)
    BY <1>5 DEF ActivateSeat, Inv, TypeOK
  <2>3. /\ reposOn' \in BOOLEAN /\ events' \subseteq events
        /\ budget' \in [BudgetKeys -> Nat] /\ UNCHANGED stripeSide
    BY <1>2, <1>5 DEF ActivateSeat, BudgetKeys, Inv, TypeOK
  <2>4. QED
    BY <2>1, <2>2, <2>3, LocalStep
<1>6. QED
  BY <1>3, <1>4, <1>5 DEF NewRequest

\* What Stripe, its customers and Codecov staff do to a subscription.
LEMMA StripeActsStep ==
    ASSUME Inv, NEW s \in Subs, StripeActs(s)
    PROVE  Inv'
<1>0. /\ stripe[s] \in Subscription /\ GoodSub(stripe[s], bought)
      /\ budget \in [BudgetKeys -> Nat] /\ checkouts \subseteq Checkout
      /\ NoTerms \in Terms
  BY Fresh DEF Inv, TypeOK
<1>1. ASSUME NEW st \in Subscription, st.status # "unborn",
             st.cust = stripe[s].cust, stripe[s].status # "unborn",
             NEW kinds \in SUBSET EventKinds, SetSub(s, st, kinds),
             budget' \in [BudgetKeys -> Nat],
             UNCHANGED <<owner, reposOn, job, checkouts>>
      PROVE  Inv'
  <2>1. bought \subseteq bought' /\ st.cust # None
    BY <1>0, <1>1 DEF SetSub, GoodSub
  <2>2. job' \in [Workers -> Job] /\ \A w \in Workers : GoodJob(job'[w], bought')
    BY <1>1, <2>1, Monotone DEF Inv, TypeOK
  <2>3. QED
    BY <1>0, <1>1, <2>1, <2>2, StripeStep
<1>2. \A k \in BudgetKeys : Spend(k) => budget' \in [BudgetKeys -> Nat]
  BY <1>0 DEF Spend
<1>3. CASE BecomeActive(s)
  <2>1. [stripe[s] EXCEPT !.status = "active"] \in Subscription
    BY <1>0 DEF Subscription
  <2>2. QED
    BY <1>0, <1>1, <1>3, <2>1 DEF BecomeActive, EventKinds, Subscription
<1>4. CASE ExpireIncomplete(s)
  <2>1. [stripe[s] EXCEPT !.status = "incomplete_expired", !.sched = "none"] \in Subscription
    BY <1>0 DEF Subscription
  <2>2. QED
    BY <1>0, <1>1, <1>4, <2>1 DEF ExpireIncomplete, EventKinds, Subscription
<1>5. CASE EndSubscription(s)
  <2>1. [stripe[s] EXCEPT !.status = "canceled", !.sched = "none"] \in Subscription
    BY <1>0 DEF Subscription
  <2>2. QED
    BY <1>0, <1>1, <1>5, <2>1 DEF EndSubscription, EventKinds, Subscription
<1>6. CASE SchedulePhase(s)
  <2> DEFINE st == [stripe[s] EXCEPT !.plan = stripe[s].next.plan,
                      !.qty = stripe[s].next.qty, !.sched = "running",
                      !.next = NoTerms, !.period = @ + 1]
  <2>1. /\ stripe[s].next.plan \in AllPlans /\ stripe[s].next.qty \in Nat
        /\ stripe[s].period + 1 \in Nat
    BY <1>0 DEF Subscription, Terms
  <2>2. st \in Subscription
    BY <1>0, <2>1 DEF Subscription
  <2>3. st.status = stripe[s].status /\ st.cust = stripe[s].cust
    BY <1>0 DEF Subscription
  <2>4. SetSub(s, st, {"updated"})
    BY <1>6 DEF SchedulePhase
  <2> HIDE DEF st
  <2>5. QED
    BY <1>0, <1>1, <1>6, <2>2, <2>3, <2>4 DEF SchedulePhase, EventKinds
<1>7. CASE ScheduleEnds(s)
  <2>1. [stripe[s] EXCEPT !.sched = "none"] \in Subscription
    BY <1>0 DEF Subscription
  <2>2. QED
    BY <1>0, <1>1, <1>7, <2>1 DEF ScheduleEnds, Live, EventKinds, Subscription
<1>8. CASE Invoice(s)
  <2>1. PICK result \in {"paid", "failed"} :
           SetSub(s, [stripe[s] EXCEPT !.invoice = result], {result})
    BY <1>8 DEF Invoice
  <2>2. [stripe[s] EXCEPT !.invoice = result] \in Subscription
    BY <1>0 DEF Subscription
  <2>3. QED
    BY <1>0, <1>1, <1>2, <1>8, <2>1, <2>2
       DEF Invoice, EventKinds, Subscription, BudgetKeys
<1>9. CASE StaffEdit(s)
  <2>1. PICK p \in StaffPlans :
           SetSub(s, [stripe[s] EXCEPT !.plan = p], {"updated"})
    BY <1>9 DEF StaffEdit
  <2>2. [stripe[s] EXCEPT !.plan = p] \in Subscription
    BY <1>0, StaffAssumption DEF Subscription
  <2>3. QED
    BY <1>0, <1>1, <1>2, <1>9, <2>1, <2>2
       DEF StaffEdit, Live, EventKinds, Subscription, BudgetKeys
<1>10. QED
  BY <1>3, <1>4, <1>5, <1>6, <1>7, <1>8, <1>9 DEF StripeActs

\* A completed checkout: the new subscription is one the row may come to name.
LEMMA CheckoutStep ==
    ASSUME Inv, CompleteCheckout
    PROVE  Inv'
<1>1. PICK c \in checkouts, s \in Subs,
           status \in {"trialing", "active", "incomplete"} :
        /\ SetSub(s, [Unborn EXCEPT !.status = status, !.plan = c.plan,
                        !.qty = c.qty,
                        !.cust = IF c.cust = None THEN s ELSE c.cust],
                  {"created", "checkout"})
        /\ checkouts' = checkouts \ {c}
        /\ UNCHANGED <<owner, reposOn, job, budget>>
  BY DEF CompleteCheckout
<1> DEFINE cust == IF c.cust = None THEN s ELSE c.cust
           st == [Unborn EXCEPT !.status = status, !.plan = c.plan,
                                !.qty = c.qty, !.cust = cust]
<1>2. c \in Checkout /\ Unborn \in Subscription
  BY Fresh DEF Inv, TypeOK
<1>3. cust \in MaybeSub /\ cust # None
  BY <1>2, SubsAssumption DEF Checkout, MaybeSub
<1> HIDE DEF cust
<1>4. st \in Subscription /\ st.status # "unborn" /\ st.cust # None
  BY <1>2, <1>3 DEF Subscription, Checkout
<1>5. SetSub(s, st, {"created", "checkout"})
  BY <1>1 DEF cust
<1> HIDE DEF st
<1>6. bought \subseteq bought'
  BY <1>5 DEF SetSub
<1>7. job' \in [Workers -> Job] /\ \A w \in Workers : GoodJob(job'[w], bought')
  BY <1>1, <1>6, Monotone DEF Inv, TypeOK
<1>8. checkouts' \subseteq Checkout /\ budget' \in [BudgetKeys -> Nat]
  BY <1>1 DEF Inv, TypeOK
<1>9. QED
  BY <1>1, <1>4, <1>5, <1>7, <1>8, StripeStep DEF EventKinds

\* The end of a trial touches the row and every loaded copy of it.
LEMMA LapseStep ==
    ASSUME Inv, TrialLapses
    PROVE  Inv'
<1>1. owner' \in Row /\ GoodRow(owner', bought)
  BY RowSteps DEF Inv, TypeOK, TrialLapses
<1>2. ASSUME NEW w \in Workers
      PROVE  job'[w] \in Job /\ GoodJob(job'[w], bought)
  <2> DEFINE r == Lapse(job[w].row)
  <2>1. job[w] \in Job /\ GoodJob(job[w], bought)
    BY DEF Inv, TypeOK
  <2>2. job'[w] = [job[w] EXCEPT !.row = r]
    BY DEF TrialLapses
  <2>3. r \in Row /\ GoodRow(r, bought)
    BY <2>1, RowSteps DEF Job, GoodJob
  <2>4. r.sub = job[w].row.sub
    BY <2>1 DEF Lapse, Job, Row
  <2> HIDE DEF r
  <2>5. QED
    BY <2>1, <2>2, <2>3, <2>4 DEF Job, GoodJob
<1>3. job' \in [Workers -> Job]
  BY <1>2 DEF TrialLapses
<1>4. TypeOK'
  BY <1>1, <1>3 DEF Inv, TypeOK, TrialLapses, stripeSide
<1>5. QED
  BY <1>1, <1>2, <1>4 DEF Inv, TrialLapses, stripeSide

-----------------------------------------------------------------------------
\* The invariant holds initially ...
LEMMA InvInit == Init => Inv
  BY Fresh, BudgetAssumption DEF Init, Blank, Inv, TypeOK, GoodSub, Unborn

\* ... and every step preserves it.
LEMMA InvStep == Inv /\ [Next]_vars => Inv'
<1> SUFFICES ASSUME Inv, [Next]_vars PROVE Inv'
  OBVIOUS
<1>1. CASE UNCHANGED vars
  BY <1>1 DEF vars, Inv, TypeOK
<1>2. ASSUME NEW w \in Workers, Crash(w) PROVE Inv'
  <2>1. owner' \in Row /\ GoodRow(owner', bought) /\ budget' \in [BudgetKeys -> Nat]
    BY <1>2 DEF Crash, Spend, Inv, TypeOK, BudgetKeys
  <2>2. QED
    BY <1>2, <2>1, EndStep DEF Crash
<1>3. QED
  BY <1>1, <1>2, WebhookStep, RequestStep, NewRequestStep, StripeActsStep,
     CheckoutStep, LapseStep DEF Next

\* Inv in every reachable state.
THEOREM Invariance == Spec => []Inv
  BY InvInit, InvStep, PTL DEF Spec

\* Every variable keeps its type.
THEOREM TypeCorrect == Spec => []TypeOK
<1>1. Inv => TypeOK
  BY DEF Inv
<1>2. QED
  BY <1>1, Invariance, PTL

\* However many workers handle webhooks and requests, in whatever order
\* notifications arrive and wherever a handler dies, the row never shows a paid
\* plan and seat count that no Stripe subscription has had.
THEOREM OnlyBought == Spec => []OnlyBoughtTerms
<1>1. Inv => OnlyBoughtTerms
  BY DEF Inv, GoodRow, OnlyBoughtTerms
<1>2. QED
  BY <1>1, Invariance, PTL

\* Nor does it ever name a subscription without naming a Stripe customer.
THEOREM HasCustomer == Spec => []SubscriptionHasCustomer
<1>1. Inv => SubscriptionHasCustomer
  BY DEF Inv, GoodRow, SubscriptionHasCustomer
<1>2. QED
  BY <1>1, Invariance, PTL

-----------------------------------------------------------------------------
(* One request at a time *)

\* Worker w has loaded the row.
Holding(w) == job[w].pc \notin {"idle", "fetched"}

\* What a worker holds of the trial is what the row has, and a trial that is about
\* to be started has not been had.
TrialKnown ==
    \A w \in Workers : /\ Holding(w) => job[w].row.trial = owner.trial
                       /\ job[w].pc = "trial" => job[w].row.trial = "none"

TrialInv == Inv /\ TrialKnown

\* No step takes a trial back.
TrialStays == /\ owner.trial # "none" => owner'.trial # "none"
              /\ owner.trial = "over" => owner'.trial = "over"

\* A step of the only worker there is
LEMMA OwnTrial ==
    ASSUME TrialInv, NEW w \in Workers, Workers = {w}, NEW j \in Job,
           job' = [job EXCEPT ![w] = j],
           j.pc \notin {"idle", "fetched"} => j.row.trial = owner'.trial,
           j.pc = "trial" => j.row.trial = "none"
    PROVE  TrialKnown'
<1>1. job'[w] = j
  BY DEF TrialInv, Inv, TypeOK
<1>2. QED
  BY <1>1 DEF TrialKnown, Holding

\* A handler saves its row, changed in other columns, and ends or goes on.
LEMMA SavedTrial ==
    ASSUME TrialInv, NEW w \in Workers, Workers = {w}, NEW r \in Row, owner' = r,
           TrialStays,
           \/ job' = [job EXCEPT ![w] = Idle]
           \/ \E pc \in {"repos", "apply", "trial", "save", "local"} :
                 Goto(w, pc, r) /\ (pc = "trial" => r.trial = "none")
    PROVE  TrialKnown' /\ TrialStays
<1>0. job[w] \in Job /\ Idle \in Job /\ Idle.pc = "idle"
  BY Fresh DEF TrialInv, Inv, TypeOK, Idle
<1>1. CASE job' = [job EXCEPT ![w] = Idle]
  BY <1>0, <1>1, OwnTrial
<1>2. ASSUME NEW pc \in {"repos", "apply", "trial", "save", "local"},
             Goto(w, pc, r), pc = "trial" => r.trial = "none"
      PROVE  TrialKnown'
  <2> DEFINE j == [job[w] EXCEPT !.pc = pc, !.row = r]
  <2>1. j \in Job /\ j.pc = pc /\ j.row = r
    BY <1>0 DEF Job
  <2>2. job' = [job EXCEPT ![w] = j]
    BY <1>2 DEF Goto, TrialInv, Inv, TypeOK
  <2> HIDE DEF j
  <2>3. QED
    BY <1>2, <2>1, <2>2, OwnTrial
<1>3. QED
  BY <1>1, <1>2

LEMMA WebhookTrial ==
    ASSUME TrialInv, NEW w \in Workers, Workers = {w}, Webhook(w)
    PROVE  TrialKnown' /\ TrialStays
<1>0. /\ owner \in Row /\ job[w] \in Job /\ job[w].row \in Row
      /\ job[w].want \in Terms /\ job[w].ev \in Event
      /\ job \in [Workers -> Job]
  BY DEF TrialInv, Inv, TypeOK, Job
<1>a. Inv'
  BY InvStep DEF TrialInv, Next
<1>b. owner' \in Row /\ job' \in [Workers -> Job]
  BY <1>a DEF Inv, TypeOK
<1>c. Holding(w) => job[w].row.trial = owner.trial
  BY DEF TrialInv, TrialKnown
<1>1. CASE Receive(w)
  <2>1. PICK e \in events :
          job' = [job EXCEPT ![w] = [pc |-> FirstStep(e), ev |-> e, row |-> owner,
                                     want |-> TermsOf(e), seen |-> NotSeen]]
               /\ (e.kind \in {"paid", "deleted", "updated", "created", "checkout"})
    BY <1>1 DEF Receive
  <2> DEFINE j == [pc |-> FirstStep(e), ev |-> e, row |-> owner,
                   want |-> TermsOf(e), seen |-> NotSeen]
  <2>2. j.pc # "trial" /\ j.row = owner
    BY <2>1 DEF FirstStep
  <2>3. job'[w] = j
    BY <1>0, <2>1
  <2>4. j \in Job
    BY <1>b, <2>3
  <2> HIDE DEF j
  <2>5. job' = [job EXCEPT ![w] = j] /\ owner' = owner
    BY <1>1, <2>1 DEF Receive, j
  <2>6. QED
    BY <2>2, <2>4, <2>5, OwnTrial DEF TrialStays
<1>2. CASE ReceiveReleased(w)
  <2>1. job'[w].pc = "fetched" /\ owner' = owner
    BY <1>0, <1>2 DEF ReceiveReleased
  <2>2. QED
    BY <2>1 DEF TrialKnown, Holding, TrialStays
<1>3. CASE LoadReleased(w)
  <2>1. owner' = owner /\ Goto(w, "apply", owner)
    BY <1>3 DEF LoadReleased
  <2>2. QED
    BY <1>0, <2>1, SavedTrial DEF TrialStays
<1>4. CASE PaymentFailed(w)
  <2>1. owner'.trial = owner.trial /\ job' = job
    BY <1>0, <1>4 DEF PaymentFailed, Row
  <2>2. QED
    BY <2>1 DEF TrialInv, TrialKnown, Holding, TrialStays
<1>5. CASE IgnoreEvent(w) \/ GiveUp(w)
  <2>1. owner' = owner /\ job' = job
    BY <1>5 DEF IgnoreEvent, GiveUp
  <2>2. QED
    BY <2>1 DEF TrialInv, TrialKnown, Holding, TrialStays
<1>6. ASSUME job[w].pc \in {"paid", "ids", "customer"},
             owner'.trial = job[w].row.trial
      PROVE  TrialStays
  BY <1>6, <1>c DEF Holding, TrialStays
<1>7. CASE SavePaid(w)
  <2>1. owner'.trial = job[w].row.trial /\ job[w].pc = "paid"
        /\ job' = [job EXCEPT ![w] = Idle]
    BY <1>0, <1>7 DEF SavePaid, Finish, Row
  <2>2. QED
    BY <1>6, <1>b, <2>1, SavedTrial
<1>8. CASE SaveDefault(w)
  <2>1. /\ owner'.trial = job[w].row.trial /\ job[w].pc = "default"
        /\ Goto(w, "repos", owner')
    BY <1>0, <1>8 DEF SaveDefault, DefaultPlan, Row
  <2>2. TrialStays
    BY <1>c, <2>1 DEF Holding, TrialStays
  <2>3. QED
    BY <1>b, <2>1, <2>2, SavedTrial
<1>9. CASE SwitchReposOff(w)
  <2>1. owner' = owner /\ job' = [job EXCEPT ![w] = Idle]
    BY <1>9 DEF SwitchReposOff, Finish
  <2>2. QED
    BY <1>0, <2>1, SavedTrial DEF TrialStays
<1>10. CASE SaveIds(w)
  <2>1. /\ owner'.trial = job[w].row.trial /\ job[w].pc = "ids"
        /\ Goto(w, "apply", owner')
    BY <1>0, <1>10 DEF SaveIds, Row
  <2>2. QED
    BY <1>6, <1>b, <2>1, SavedTrial
<1>11. CASE SaveTerms(w)
  <2>1. owner'.trial = job[w].row.trial /\ job[w].pc = "apply"
    BY <1>0, <1>11 DEF SaveTerms, WithTerms, Row
  <2>2. TrialStays
    BY <1>c, <2>1 DEF Holding, TrialStays
  <2>3. CASE StartsTrial(job[w])
    <3>1. Goto(w, "trial", owner') /\ owner'.trial = "none"
      BY <1>11, <2>1, <2>3 DEF SaveTerms, StartsTrial
    <3>2. QED
      BY <1>b, <2>2, <3>1, SavedTrial
  <2>4. CASE ~StartsTrial(job[w])
    <3>1. job' = [job EXCEPT ![w] = Idle]
      BY <1>11, <2>4 DEF SaveTerms, Finish
    <3>2. QED
      BY <1>b, <2>2, <3>1, SavedTrial
  <2>5. QED
    BY <2>3, <2>4
<1>12. CASE SaveTrial(w)
  <2>1. /\ job[w].row.trial = owner.trial /\ job[w].row.trial = "none"
        /\ job' = [job EXCEPT ![w] = Idle]
    BY <1>c, <1>12 DEF SaveTrial, Finish, Holding, TrialInv, TrialKnown
  <2>2. TrialStays
    BY <2>1 DEF TrialStays
  <2>3. QED
    BY <1>b, <2>1, <2>2, SavedTrial
<1>13. CASE SaveCustomer(w)
  <2>1. owner'.trial = job[w].row.trial /\ job[w].pc = "customer"
        /\ job' = [job EXCEPT ![w] = Idle]
    BY <1>0, <1>13 DEF SaveCustomer, Finish, Row
  <2>2. QED
    BY <1>6, <1>b, <2>1, SavedTrial
<1>14. QED
  BY <1>1, <1>2, <1>3, <1>4, <1>5, <1>7, <1>8, <1>9, <1>10, <1>11, <1>12, <1>13
     DEF Webhook

LEMMA RequestTrial ==
    ASSUME TrialInv, NEW w \in Workers, Workers = {w}, Request(w) \/ Crash(w)
    PROVE  TrialKnown' /\ TrialStays
<1>0. /\ owner \in Row /\ job[w] \in Job /\ job[w].row \in Row
      /\ job \in [Workers -> Job]
  BY DEF TrialInv, Inv, TypeOK, Job
<1>a. Inv'
  BY InvStep DEF TrialInv, Next
<1>b. owner' \in Row /\ job' \in [Workers -> Job]
  BY <1>a DEF Inv, TypeOK
<1>c. Holding(w) => job[w].row.trial = owner.trial
  BY DEF TrialInv, TrialKnown
<1>1. ASSUME owner' = owner, NEW pc \in {"local", "schedule", "cancel", "save",
                                         "modify", "newsched", "release"},
             job'[w].pc = pc, job'[w].row = job[w].row, Holding(w)
      PROVE  TrialKnown' /\ TrialStays
  BY <1>1, <1>c DEF TrialKnown, Holding, TrialStays
<1>2. CASE UpdateToDefault(w)
  <2>1. /\ owner'.trial = job[w].row.trial /\ job[w].pc = "update"
        /\ Goto(w, "save", owner')
    BY <1>0, <1>2 DEF UpdateToDefault, DefaultPlan, Row
  <2>2. TrialStays
    BY <1>c, <2>1 DEF Holding, TrialStays
  <2>3. QED
    BY <1>b, <2>1, <2>2, SavedTrial
<1>3. CASE OpenCheckout(w)
  <2>1. /\ owner' = owner /\ job[w].pc = "update"
        /\ job'[w].pc = "save" /\ job'[w].row = job[w].row
    BY <1>0, <1>3 DEF OpenCheckout, Goto, Job
  <2>2. QED
    BY <1>1, <2>1 DEF Holding
<1>4. CASE ChooseCall(w)
  <2> DEFINE choice ==
         CASE job[w].want.plan \in FreePlans ->
                IF stripe[Target(w)].sched # "none" THEN "release" ELSE "cancel"
           [] job[w].want.plan \in ProPlans ->
                IF stripe[Target(w)].sched # "none" THEN "schedule"
                ELSE IF ChargesNow(job[w].row, job[w].want) THEN "modify"
                ELSE "newsched"
             sn == [plan |-> stripe[Target(w)].plan, qty |-> stripe[Target(w)].qty,
                    period |-> stripe[Target(w)].period]
  <2>1. job' = [job EXCEPT ![w].pc = choice, ![w].seen = sn]
        /\ owner' = owner /\ job[w].pc = "update"
    BY <1>4 DEF ChooseCall
  <2>2. choice \in {"release", "cancel", "schedule", "modify", "newsched"}
    <3>1. \/ job[w].want.plan \in FreePlans /\ job[w].want.plan \notin ProPlans
          \/ job[w].want.plan \notin FreePlans /\ job[w].want.plan \in ProPlans
      BY <1>4 DEF ChooseCall, FreePlans, BasicPlan, ProPlans, PrPlans, SentryPlans,
         CloudPlans
    <3>2. QED
      BY <3>1
  <2> HIDE DEF choice, sn
  <2>3. job'[w].pc = choice /\ job'[w].row = job[w].row
    BY <1>0, <2>1 DEF Job
  <2>4. QED
    BY <1>1, <2>1, <2>2, <2>3 DEF Holding
<1>5. CASE ModifySubscription(w) \/ CreateSchedule(w) \/ ModifySchedule(w)
           \/ ReleaseSchedule(w) \/ CancelAtPeriodEnd(w)
  <2>1. /\ owner' = owner
        /\ job[w].pc \in {"modify", "newsched", "schedule", "release", "cancel"}
        /\ \E pc \in {"local", "schedule", "cancel", "save"} : Goto(w, pc, job[w].row)
    BY <1>5 DEF ModifySubscription, CreateSchedule, ModifySchedule, ReleaseSchedule,
       CancelAtPeriodEnd
  <2>2. PICK pc \in {"local", "schedule", "cancel", "save"} : Goto(w, pc, job[w].row)
    BY <2>1
  <2>3. job'[w].pc = pc /\ job'[w].row = job[w].row
    BY <1>0, <2>2 DEF Goto, Job
  <2>4. QED
    BY <1>1, <2>1, <2>3 DEF Holding
<1>6. CASE SaveLocal(w)
  <2>1. /\ owner'.trial = job[w].row.trial /\ job[w].pc = "local"
        /\ Goto(w, "save", owner')
    BY <1>0, <1>6 DEF SaveLocal, WithTerms, Row
  <2>2. TrialStays
    BY <1>c, <2>1 DEF Holding, TrialStays
  <2>3. QED
    BY <1>b, <2>1, <2>2, SavedTrial
<1>7. CASE RequestFails(w) \/ Crash(w)
  <2>1. owner' = owner /\ job' = [job EXCEPT ![w] = Idle]
    BY <1>7 DEF RequestFails, Crash
  <2>2. QED
    BY <1>0, <2>1, SavedTrial DEF TrialStays
<1>8. CASE SaveAccount(w)
  <2>1. owner' = job[w].row /\ job[w].pc = "save" /\ job' = [job EXCEPT ![w] = Idle]
    BY <1>8 DEF SaveAccount
  <2>2. TrialStays
    BY <1>c, <2>1 DEF Holding, TrialStays
  <2>3. QED
    BY <1>0, <2>1, <2>2, SavedTrial
<1>9. CASE SaveCancelTrial(w)
  <2>1. owner'.trial = "over" /\ job' = [job EXCEPT ![w] = Idle]
    BY <1>0, <1>9 DEF SaveCancelTrial, DefaultPlan, Row
  <2>2. TrialStays
    BY <2>1 DEF TrialStays
  <2>3. QED
    BY <1>b, <2>1, <2>2, SavedTrial
<1>10. QED
  BY <1>2, <1>3, <1>4, <1>5, <1>6, <1>7, <1>8, <1>9 DEF Request

LEMMA NewRequestTrial ==
    ASSUME TrialInv, NEW w \in Workers, Workers = {w}, NewRequest(w)
    PROVE  TrialKnown' /\ TrialStays
<1>0. owner \in Row /\ job \in [Workers -> Job]
  BY DEF TrialInv, Inv, TypeOK
<1>1. ASSUME NEW pc, NEW t, Begin(w, pc, t), pc = "trial" => owner.trial = "none"
      PROVE  TrialKnown' /\ TrialStays
  <2>1. job'[w].pc = pc /\ job'[w].row = owner /\ owner' = owner
    BY <1>0, <1>1 DEF Begin
  <2>2. QED
    BY <1>1, <2>1 DEF TrialKnown, Holding, TrialStays
<1>2. CASE AskPlan(w)
  BY <1>1, <1>2 DEF AskPlan
<1>3. CASE StartTrial(w) \/ CancelTrial(w)
  BY <1>1, <1>3 DEF StartTrial, CancelTrial
<1>4. CASE ActivateSeat(w)
  <2>1. job' = job /\ job[w].pc = "idle" /\ owner'.trial = owner.trial
    BY <1>0, <1>4 DEF ActivateSeat, Row
  <2>2. QED
    BY <2>1 DEF TrialKnown, Holding, TrialStays
<1>5. QED
  BY <1>2, <1>3, <1>4 DEF NewRequest

LEMMA StripeLeavesRow ==
    ASSUME NEW s, StripeActs(s)
    PROVE  owner' = owner /\ job' = job
  BY Zenon DEF StripeActs, BecomeActive, ExpireIncomplete, EndSubscription,
     SchedulePhase, ScheduleEnds, Invoice, StaffEdit

LEMMA CheckoutLeavesRow ==
    ASSUME CompleteCheckout
    PROVE  owner' = owner /\ job' = job
  BY Zenon DEF CompleteCheckout

\* Time passes in every copy of the row; Stripe and its customers write none.
LEMMA WorldTrial ==
    ASSUME TrialInv,
           \/ \E s \in Subs : StripeActs(s)
           \/ CompleteCheckout \/ TrialLapses \/ UNCHANGED vars
    PROVE  TrialKnown' /\ TrialStays
<1>1. ASSUME owner' = owner, job' = job PROVE TrialKnown' /\ TrialStays
  BY <1>1 DEF TrialInv, TrialKnown, Holding, TrialStays
<1>2. ASSUME NEW s \in Subs, StripeActs(s) PROVE owner' = owner /\ job' = job
  BY <1>2, StripeLeavesRow
<1>3. CASE CompleteCheckout
  BY <1>1, <1>3, CheckoutLeavesRow
<1>4. CASE TrialLapses
  <2>1. owner.trial = "running" /\ owner'.trial = "over"
    BY <1>4 DEF TrialLapses, Lapse, TrialInv, Inv, TypeOK, Row
  <2>2. ASSUME NEW w \in Workers
        PROVE  /\ job'[w].pc = job[w].pc
               /\ job[w].row.trial = "running" => job'[w].row.trial = "over"
               /\ job[w].row.trial = "none" => job'[w].row.trial = "none"
    <3>1. job[w] \in Job /\ job[w].row \in Row
      BY DEF TrialInv, Inv, TypeOK, Job
    <3>2. job'[w] = [job[w] EXCEPT !.row = Lapse(@)]
      BY <1>4 DEF TrialLapses
    <3>3. QED
      BY <3>1, <3>2 DEF Lapse, Job, Row
  <2>3. QED
    BY <2>1, <2>2 DEF TrialInv, TrialKnown, Holding, TrialStays
<1>5. QED
  BY <1>1, <1>2, <1>3, <1>4 DEF vars

\* Every step of a single worker, and of the rest of the world
LEMMA TrialStep ==
    ASSUME NEW w \in Workers, Workers = {w}
    PROVE  TrialInv /\ [Next]_vars => TrialInv' /\ TrialStays
<1> SUFFICES ASSUME TrialInv, [Next]_vars PROVE TrialInv' /\ TrialStays
  OBVIOUS
<1>1. TrialKnown' /\ TrialStays
  BY WebhookTrial, RequestTrial, NewRequestTrial, WorldTrial DEF Next
<1>2. QED
  BY <1>1, InvStep DEF TrialInv

\* With one request at a time a trial is had once, in whatever order notifications
\* arrive, wherever a handler dies and however often Stripe sends one again: no save
\* takes the dates of a trial back.
THEOREM OneTrial ==
    ASSUME NEW w \in Workers, Workers = {w}
    PROVE  Spec => TrialOnce
<1>1. Init => TrialInv
  <2>1. Init => TrialKnown
    BY Fresh DEF Init, Blank, TrialKnown, Holding, Idle
  <2>2. QED
    BY <2>1, InvInit DEF TrialInv
<1>2. TrialInv /\ [Next]_vars => TrialInv' /\ TrialStays
  BY TrialStep
<1>3. QED
  BY <1>1, <1>2, PTL DEF Spec, TrialOnce, TrialStays

-----------------------------------------------------------------------------
(***************************************************************************)
(* In order: one request at a time, notifications in the order Stripe made *)
(* them, and no checkout completed while a subscription is live.  The      *)
(* invariant has three parts: what the queue of notifications says of      *)
(* Stripe, what row and queue together say of it, and what the worker has  *)
(* in hand.  A notification leaves the queue from its front only, so what  *)
(* a later one tells is never lost with an earlier one.                    *)
(***************************************************************************)

Births == {"created", "checkout"}

\* The kinds of notifications whose handlers copy the terms they show.
Tellers == {"created", "updated", "released"}

\* A notification that its subscription has ended
Ends(e) == \/ e.kind = "deleted"
           \/ e.kind = "updated" /\ e.status = "incomplete_expired"

IsLive(st) == st.status \in {"trialing", "incomplete", "active"}

\* e shows the terms, and whether there is a schedule, as they are.
Shows(e, str) ==
    /\ e.kind \in Tellers
    /\ TermsOf(e) = TermsOf(str[e.sub])
    /\ e.sched <=> str[e.sub].sched # "none"

ShownIn(evs, str, s) == \E g \in evs : g.sub = s /\ Shows(g, str)

ShownLater(e, evs, str) == \E g \in evs : g.sub = e.sub /\ e.n < g.n /\ Shows(g, str)

First(e, evs) == \A f \in evs : e.n <= f.n

EndBefore(n, evs, s) == \E f \in evs : Ends(f) /\ f.sub = s /\ f.n < n

\* The queue: stamps tell notifications apart, except the two of a checkout ...
Stamped(evs, str, clk) ==
    /\ \A e \in evs : e.n < clk /\ e.kind # "none" /\ e.cust = str[e.sub].cust
    /\ \A e, f \in evs : e.n = f.n =>
          e.sub = f.sub /\ (e = f \/ (e.kind \in Births /\ f.kind \in Births))

\* ... a subscription is told of from its creation to its end ...
FromBirthToEnd(evs, str) ==
    /\ \A c, e \in evs : c.kind = "created" /\ c.sub = e.sub => c.n <= e.n
    /\ \A e, f \in evs : Ends(f) /\ e.sub = f.sub => e.n <= f.n
    /\ \A f \in evs : Ends(f) => ~IsLive(str[f.sub]) /\ ~f.sched
    /\ \A c \in evs : c.kind = "created" => c.plan \in ProPlans
    /\ \A x, y \in Subs : IsLive(str[x]) /\ IsLive(str[y]) => x = y

\* ... and the last that is told of its terms and invoices is true.
LastIsTrue(evs, str) ==
    /\ \A e \in evs : e.kind \in Tellers /\ IsLive(str[e.sub]) =>
          Shows(e, str) \/ ShownLater(e, evs, str)
    /\ \A e \in evs : e.kind \in {"paid", "failed"} =>
          \/ e.kind = str[e.sub].invoice
          \/ \E g \in evs : g.sub = e.sub /\ e.n < g.n /\ g.kind = str[e.sub].invoice
    /\ \A c \in evs : c.kind = "created" /\ str[c.sub].invoice # "none" =>
          \E g \in evs : g.sub = c.sub /\ g.kind = str[c.sub].invoice

QueueOK(evs, str, clk) ==
    Stamped(evs, str, clk) /\ FromBirthToEnd(evs, str) /\ LastIsTrue(evs, str)

\* The row names s, or will once the notifications are handled.
Named(o, evs, s) == o.sub = s \/ \E c \in evs : c.kind = "created" /\ c.sub = s

\* The row need not follow, or has followed, the terms of st.
Agrees(o, st) == \/ TermsOf(o) = TermsOf(st)
                 \/ st.sched # "none"
                 \/ st.plan \notin ProPlans

\* Row and queue: whatever is not yet in the row is in the queue.
RowOK(o, evs, str) ==
    /\ o.sub # None => o.cust = str[o.sub].cust
    /\ \A x \in Subs : Named(o, evs, x) =>
          IsLive(str[x]) \/ \E f \in evs : Ends(f) /\ f.sub = x
    /\ \A e \in evs : o.sub # None /\ e.sub # o.sub => EndBefore(e.n, evs, o.sub)
    /\ \A c, e \in evs : c.kind = "created" /\ e.sub # c.sub /\ c.n < e.n =>
          EndBefore(e.n, evs, c.sub)
    /\ o.trial # "over" =>
          /\ o.sub = None => o.plan \in FreePlans
          /\ \A x \in Subs : IsLive(str[x]) => Named(o, evs, x)
          /\ \A e \in evs : e.kind = "released" => Named(o, evs, e.sub)
    /\ o.sub # None /\ IsLive(str[o.sub]) =>
          Agrees(o, str[o.sub]) \/ ShownIn(evs, str, o.sub)
    /\ o.sub # None /\ str[o.sub].invoice # "none" =>
          \/ o.delinquent <=> str[o.sub].invoice = "failed"
          \/ \E g \in evs : g.sub = o.sub /\ g.kind = str[o.sub].invoice

\* What is said of a handler's subscription by the terms t it saves
Copies(t, e, evs, str) ==
    IsLive(str[e.sub]) => t = TermsOf(str[e.sub]) \/ ShownLater(e, evs, str)

\* The step a worker is at fits the notification it handles and the row.
Fits(j, o) ==
    /\ j.pc \notin {"paid", "default", "repos", "ids", "customer", "fetched",
                    "apply", "trial"} => j.ev.kind = "none"
    /\ j.pc = "paid" => j.ev.kind = "paid" /\ o.sub = j.ev.sub
    /\ j.pc = "default" => Ends(j.ev) /\ o.sub = j.ev.sub
    /\ j.pc = "repos" => Ends(j.ev) /\ o.sub = None
    /\ j.pc = "ids" => j.ev.kind = "created"
    /\ j.pc = "customer" => j.ev.kind = "checkout"
    /\ j.pc = "fetched" => j.ev.kind = "released"
    /\ j.pc = "apply" => /\ j.ev.kind \in Tellers /\ ~Ends(j.ev)
                         /\ j.ev.kind # "released" => o.sub = j.ev.sub
    /\ j.pc = "trial" => \/ j.ev.kind = "none"
                         \/ j.ev.kind = "created" /\ o.sub = j.ev.sub
    /\ j.pc \in CallPcs \cup {"local"} => o.sub \in Subs

\* The worker holds the row as it is, handles the front of the queue, and what it
\* is about to save, or has just saved, is true or will be put right.
JobOK(j, o, evs, str) ==
    /\ j.pc \notin {"idle", "fetched"} => j.row = o
    /\ j.ev.kind # "none" => j.ev \in evs /\ First(j.ev, evs)
    /\ Fits(j, o)
    /\ j.pc \in {"ids", "fetched", "apply"} => Copies(j.want, j.ev, evs, str)
    /\ j.pc = "trial" /\ j.ev.kind = "created" => Copies(TermsOf(o), j.ev, evs, str)
    /\ j.pc = "local" /\ IsLive(str[o.sub]) => ShownIn(evs, str, o.sub)

CheckoutsOK == \A c \in checkouts : c.plan \in ProPlans

InOrder ==
    /\ CheckoutsOK
    /\ QueueOK(events, stripe, clock)
    /\ RowOK(owner, events, stripe)
    /\ \A w \in Workers : JobOK(job[w], owner, events, stripe)

OrderInv == Inv /\ TrialKnown /\ InOrder

-----------------------------------------------------------------------------
(* Notifications are added *)

\* What SetSub adds to the queue: the first of the two cases is a checkout.
New(g, s) ==
    /\ g.sub = s /\ g.n = clock /\ g.kind # "none" /\ g.cust = stripe'[s].cust
    /\ g.kind \in Tellers => Shows(g, stripe')
    /\ g.kind \in {"paid", "failed"} => g.kind = stripe'[s].invoice
    /\ Ends(g) => ~IsLive(stripe'[s]) /\ ~g.sched

IsBorn(s) ==
    /\ stripe[s].status = "unborn" /\ \A x \in Subs : ~IsLive(stripe[x])
    /\ IsLive(stripe'[s]) /\ stripe'[s].invoice = "none"
    /\ \A g \in events' : g \in events \/ g.kind \in Births
    /\ \E g \in events' : g.kind = "created" /\ g.sub = s
    /\ \A g \in events' : g \in events \/ g.kind # "created" \/ g.plan \in ProPlans

Changes(s) ==
    /\ IsLive(stripe[s]) /\ stripe'[s].cust = stripe[s].cust
    /\ \A g \in events' : g \in events \/ g.kind \notin Births
    /\ \A e, f \in events' : e \in events \/ f \in events \/ e = f
    /\ IsLive(stripe'[s]) =>
          \/ /\ TermsOf(stripe'[s]) = TermsOf(stripe[s])
             /\ stripe'[s].plan = stripe[s].plan
             /\ stripe'[s].sched # "none" <=> stripe[s].sched # "none"
          \/ \E g \in events' : g \notin events /\ g.kind \in Tellers
    /\ ~IsLive(stripe'[s]) => \E g \in events' : g \notin events /\ Ends(g)
    /\ \/ stripe'[s].invoice = stripe[s].invoice
       \/ \E g \in events' : g \notin events /\ g.kind = stripe'[s].invoice

Grows(s) ==
    /\ events \subseteq events' /\ clock' = clock + 1
    /\ \A g \in events' : g \in events \/ New(g, s)
    /\ \A x \in Subs \ {s} : stripe'[x] = stripe[x]
    /\ IsBorn(s) \/ Changes(s)

\* What the invariant says of one notification or one subscription
LEMMA QueueFacts ==
    ASSUME OrderInv
    PROVE  /\ clock \in Nat /\ stripe \in [Subs -> Subscription] /\ owner \in Row
           /\ events \subseteq Event
           /\ \A e \in events : /\ e.sub \in Subs /\ e.n \in Nat /\ e.n < clock
                                /\ e \in Event /\ e.cust = stripe[e.sub].cust
                                /\ stripe[e.sub].status # "unborn"
                                /\ e.kind # "none"
           /\ owner.sub \in MaybeSub
  BY DEF OrderInv, InOrder, Inv, TypeOK, GoodEvent, QueueOK, Stamped, Event, Row

\* Nothing has been told of an unborn subscription, and nothing names it.
LEMMA UnbornUnknown ==
    ASSUME OrderInv, NEW s \in Subs, stripe[s].status = "unborn"
    PROVE  /\ \A e \in events : e.sub # s
           /\ owner.sub # s
<1>1. \A e \in events : e.sub # s
  BY QueueFacts
<1>2. owner.sub = s => Named(owner, events, s)
  BY DEF Named
<1>3. ~IsLive(stripe[s])
  BY DEF IsLive
<1>4. QED
  BY <1>1, <1>2, <1>3 DEF OrderInv, InOrder, RowOK

\* Old notifications stay as true as they were, or a new one is true.
LEMMA StillShown ==
    ASSUME OrderInv, NEW s \in Subs, Grows(s), NEW x \in Subs, IsLive(stripe'[x]),
           \E e \in events : e.sub = x
    PROVE  \/ /\ TermsOf(stripe'[x]) = TermsOf(stripe[x])
              /\ stripe'[x].plan = stripe[x].plan
              /\ stripe'[x].sched # "none" <=> stripe[x].sched # "none"
              /\ \A g : g.sub = x /\ Shows(g, stripe) => Shows(g, stripe')
              /\ IsLive(stripe[x])
           \/ /\ IsLive(stripe[x])
              /\ \E g \in events' : g.sub = x /\ g.n = clock /\ Shows(g, stripe')
<1>1. CASE x # s
  BY <1>1 DEF Grows, Shows
<1>2. CASE x = s
  <2>1. Changes(s)
    BY <1>2, UnbornUnknown DEF Grows, IsBorn
  <2>2. CASE /\ TermsOf(stripe'[s]) = TermsOf(stripe[s])
             /\ stripe'[s].plan = stripe[s].plan
             /\ stripe'[s].sched # "none" <=> stripe[s].sched # "none"
    BY <1>2, <2>1, <2>2 DEF Shows, Changes
  <2>3. ASSUME NEW g \in events', g \notin events, g.kind \in Tellers
        PROVE  g.sub = x /\ g.n = clock /\ Shows(g, stripe')
    BY <1>2, <2>3 DEF Grows, New
  <2>4. QED
    BY <1>2, <2>1, <2>2, <2>3 DEF Changes
<1>3. QED
  BY <1>1, <1>2

LEMMA StampsGrow ==
    ASSUME OrderInv, NEW s \in Subs, Grows(s)
    PROVE  Stamped(events', stripe', clock')
<1>1. ASSUME NEW e \in events'
      PROVE  e.n < clock' /\ e.kind # "none" /\ e.cust = stripe'[e.sub].cust
  <2>1. CASE e \in events /\ e.sub = s
    <3>1. Changes(s)
      BY <2>1, UnbornUnknown DEF Grows, IsBorn
    <3>2. QED
      BY <2>1, <3>1, QueueFacts DEF Changes, Grows
  <2>2. CASE e \in events /\ e.sub # s
    BY <2>2, QueueFacts DEF Grows
  <2>3. CASE New(e, s)
    BY <2>3, QueueFacts DEF New, Grows
  <2>4. QED
    BY <2>1, <2>2, <2>3 DEF Grows
<1>2. ASSUME NEW e \in events', NEW f \in events', e.n = f.n
      PROVE  e.sub = f.sub /\ (e = f \/ (e.kind \in Births /\ f.kind \in Births))
  <2>1. CASE e \in events /\ f \in events
    BY <1>2, <2>1 DEF OrderInv, InOrder, QueueOK, Stamped
  <2>2. CASE e \notin events /\ f \notin events
    BY <2>2 DEF Grows, New, IsBorn, Changes
  <2>3. CASE e \in events /\ f \notin events
    BY <1>2, <2>3, QueueFacts DEF Grows, New
  <2>4. CASE e \notin events /\ f \in events
    BY <1>2, <2>4, QueueFacts DEF Grows, New
  <2>5. QED
    BY <2>1, <2>2, <2>3, <2>4
<1>3. QED
  BY <1>1, <1>2 DEF Stamped

LEMMA FromBirthGrows ==
    ASSUME OrderInv, NEW s \in Subs, Grows(s)
    PROVE  FromBirthToEnd(events', stripe')
<1>0. FromBirthToEnd(events, stripe)
  BY DEF OrderInv, InOrder, QueueOK
<1>a. ASSUME NEW e \in events, e.sub = s PROVE Changes(s)
  BY <1>a, UnbornUnknown DEF Grows, IsBorn
<1>1. ASSUME NEW c \in events', NEW e \in events', c.kind = "created", c.sub = e.sub
      PROVE  c.n <= e.n
  <2>1. CASE c \in events /\ e \in events
    BY <1>0, <1>1, <2>1 DEF FromBirthToEnd
  <2>2. CASE c \in events /\ e \notin events
    BY <2>2, QueueFacts DEF Grows, New
  <2>3. CASE c \notin events
    <3>1. IsBorn(s) /\ New(c, s)
      BY <1>1, <2>3 DEF Grows, Changes, Births
    <3>2. e \notin events
      BY <1>1, <3>1, UnbornUnknown DEF IsBorn, New
    <3>3. New(e, s)
      BY <3>2 DEF Grows
    <3>4. QED
      BY <3>1, <3>3, QueueFacts DEF New
  <2>4. QED
    BY <2>1, <2>2, <2>3
<1>2. ASSUME NEW e \in events', NEW f \in events', Ends(f), e.sub = f.sub
      PROVE  e.n <= f.n
  <2>1. CASE f \notin events
    BY <2>1, QueueFacts DEF Grows, New
  <2>2. CASE f \in events /\ e \in events
    BY <1>0, <1>2, <2>2 DEF FromBirthToEnd
  <2>3. CASE f \in events /\ e \notin events
    <3>1. f.sub = s
      BY <1>2, <2>3 DEF Grows, New
    <3>2. Changes(s) /\ ~IsLive(stripe[s])
      BY <1>0, <1>2, <1>a, <2>3, <3>1 DEF FromBirthToEnd
    <3>3. QED
      BY <3>2 DEF Changes
  <2>4. QED
    BY <2>1, <2>2, <2>3
<1>3. ASSUME NEW f \in events', Ends(f) PROVE ~IsLive(stripe'[f.sub]) /\ ~f.sched
  <2>1. CASE f \notin events
    BY <1>3, <2>1 DEF Grows, New
  <2>2. CASE f \in events
    <3>1. ~IsLive(stripe[f.sub]) /\ ~f.sched
      BY <1>0, <1>3, <2>2 DEF FromBirthToEnd
    <3>2. f.sub # s
      BY <1>a, <2>2, <3>1 DEF Changes
    <3>3. QED
      BY <2>2, <3>1, <3>2, QueueFacts DEF Grows
  <2>3. QED
    BY <2>1, <2>2
<1>4. ASSUME NEW c \in events', c.kind = "created" PROVE c.plan \in ProPlans
  BY <1>0, <1>4 DEF FromBirthToEnd, Grows, IsBorn, Changes, Births
<1>5. ASSUME NEW x \in Subs, NEW y \in Subs, IsLive(stripe'[x]), IsLive(stripe'[y])
      PROVE  x = y
  BY <1>0, <1>5 DEF FromBirthToEnd, Grows, IsBorn, Changes
<1>6. QED
  BY <1>1, <1>2, <1>3, <1>4, <1>5 DEF FromBirthToEnd

LEMMA TruthGrows ==
    ASSUME OrderInv, NEW s \in Subs, Grows(s)
    PROVE  LastIsTrue(events', stripe')
<1>0. LastIsTrue(events, stripe)
  BY DEF OrderInv, InOrder, QueueOK
<1>1. ASSUME NEW e \in events', e.kind \in Tellers, IsLive(stripe'[e.sub])
      PROVE  Shows(e, stripe') \/ ShownLater(e, events', stripe')
  <2>1. CASE e \notin events
    BY <1>1, <2>1 DEF Grows, New
  <2>2. CASE e \in events
    <3>1. e.sub \in Subs /\ e.n < clock
      BY <2>2, QueueFacts
    <3>2. CASE \E g \in events' : g.sub = e.sub /\ g.n = clock /\ Shows(g, stripe')
      BY <3>1, <3>2 DEF ShownLater
    <3>3. CASE /\ \A g : g.sub = e.sub /\ Shows(g, stripe) => Shows(g, stripe')
               /\ IsLive(stripe[e.sub])
      BY <1>0, <1>1, <2>2, <3>3 DEF LastIsTrue, ShownLater, Grows
    <3>4. QED
      BY <1>1, <2>2, <3>1, <3>2, <3>3, StillShown
  <2>3. QED
    BY <2>1, <2>2
<1>2. ASSUME NEW e \in events'
      PROVE  \/ stripe'[e.sub].invoice = stripe[e.sub].invoice
             \/ \E g \in events' : g.sub = e.sub /\ g.n = clock
                                   /\ g.kind = stripe'[e.sub].invoice
             \/ stripe'[e.sub].invoice = "none"
  <2>1. CASE e.sub = s
    BY <2>1 DEF Grows, IsBorn, Changes, New
  <2>2. CASE e.sub # s
    BY <2>2, QueueFacts DEF Grows, New
  <2>3. QED
    BY <2>1, <2>2
<1>3. ASSUME NEW e \in events', e.kind \in {"paid", "failed"}
      PROVE  \/ e.kind = stripe'[e.sub].invoice
             \/ \E g \in events' : g.sub = e.sub /\ e.n < g.n
                                   /\ g.kind = stripe'[e.sub].invoice
  <2>1. CASE e \notin events
    BY <1>3, <2>1 DEF Grows, New
  <2>2. CASE e \in events
    <3>1. e.sub \in Subs /\ e.n < clock
      BY <2>2, QueueFacts
    <3>2. e.sub = s => Changes(s)
      BY <2>2, UnbornUnknown DEF Grows, IsBorn
    <3>3. \/ stripe'[e.sub].invoice = stripe[e.sub].invoice
          \/ \E g \in events' : g.sub = e.sub /\ g.n = clock
                                /\ g.kind = stripe'[e.sub].invoice
      BY <3>1, <3>2 DEF Grows, Changes, New
    <3>4. QED
      BY <1>0, <1>3, <2>2, <3>1, <3>3 DEF LastIsTrue, Grows
  <2>3. QED
    BY <2>1, <2>2
<1>4. ASSUME NEW c \in events', c.kind = "created", stripe'[c.sub].invoice # "none"
      PROVE  \E g \in events' : g.sub = c.sub /\ g.kind = stripe'[c.sub].invoice
  <2>1. CASE c \notin events
    <3>1. IsBorn(s) /\ c.sub = s
      BY <1>4, <2>1 DEF Grows, Changes, Births, New
    <3>2. QED
      BY <1>4, <3>1 DEF IsBorn
  <2>2. CASE c \in events
    BY <1>0, <1>2, <1>4, <2>2 DEF LastIsTrue, Grows
  <2>3. QED
    BY <2>1, <2>2
<1>5. QED
  BY <1>1, <1>3, <1>4 DEF LastIsTrue

\* The row still follows the queue when Stripe adds to it.
LEMMA RowGrows ==
    ASSUME OrderInv, NEW s \in Subs, Grows(s), owner' = owner
    PROVE  RowOK(owner', events', stripe')
<1> DEFINE o == owner
<1>0. RowOK(o, events, stripe) /\ o.sub \in MaybeSub
  BY QueueFacts DEF OrderInv, InOrder
<1>a. ASSUME NEW x \in Subs, Named(o, events, x)
      PROVE  /\ stripe[x].status # "unborn"
             /\ x = s => Changes(s)
             /\ x # s => EndBefore(clock, events, x)
  <2>1. stripe[x].status # "unborn"
    BY <1>a, UnbornUnknown DEF Named
  <2>2. x = s => Changes(s)
    BY <2>1 DEF Grows, IsBorn
  <2>3. ASSUME x # s PROVE EndBefore(clock, events, x)
    <3>1. ~IsLive(stripe[x])
      BY <2>3 DEF Grows, IsBorn, Changes, OrderInv, InOrder, QueueOK, FromBirthToEnd
    <3>2. PICK f \in events : Ends(f) /\ f.sub = x
      BY <1>0, <1>a, <3>1 DEF RowOK
    <3>3. QED
      BY <3>2, QueueFacts DEF EndBefore
  <2>4. QED
    BY <2>1, <2>2, <2>3
<1>b. ASSUME NEW x \in Subs, Named(o, events', x)
      PROVE  Named(o, events, x) \/ (x = s /\ IsBorn(s))
  BY <1>b DEF Named, Grows, Changes, Births, New
<1>c. \A n, x : EndBefore(n, events, x) => EndBefore(n, events', x)
  BY DEF EndBefore, Grows
<1>d. o.sub # None => o.sub \in Subs /\ Named(o, events, o.sub)
  BY <1>0 DEF MaybeSub, Named
<1>1. o.sub # None => o.cust = stripe'[o.sub].cust
  BY <1>0, <1>a, <1>d DEF RowOK, Grows, Changes
<1>2. ASSUME NEW x \in Subs, Named(o, events', x)
      PROVE  IsLive(stripe'[x]) \/ \E f \in events' : Ends(f) /\ f.sub = x
  <2>1. CASE x = s
    BY <2>1 DEF Grows, IsBorn, Changes, New
  <2>2. CASE x # s
    BY <1>2, <1>a, <1>b, <2>2 DEF EndBefore, Grows
  <2>3. QED
    BY <2>1, <2>2
<1>3. ASSUME NEW e \in events', o.sub # None, e.sub # o.sub
      PROVE  EndBefore(e.n, events', o.sub)
  <2>1. CASE e \in events
    BY <1>0, <1>3, <1>c, <2>1 DEF RowOK
  <2>2. CASE e \notin events
    <3>1. e.sub = s /\ e.n = clock
      BY <2>2 DEF Grows, New
    <3>2. QED
      BY <1>3, <1>a, <1>c, <1>d, <3>1
  <2>3. QED
    BY <2>1, <2>2
<1>4. ASSUME NEW c \in events', NEW e \in events', c.kind = "created",
             e.sub # c.sub, c.n < e.n
      PROVE  EndBefore(e.n, events', c.sub)
  <2>1. CASE c \in events /\ e \in events
    BY <1>0, <1>4, <1>c, <2>1 DEF RowOK
  <2>2. CASE c \in events /\ e \notin events
    <3>1. e.sub = s /\ e.n = clock
      BY <2>2 DEF Grows, New
    <3>2. c.sub \in Subs /\ Named(o, events, c.sub)
      BY <1>4, <2>2, QueueFacts DEF Named
    <3>3. QED
      BY <1>4, <1>a, <1>c, <3>1, <3>2
  <2>3. CASE c \notin events
    <3>1. c.n = clock
      BY <2>3 DEF Grows, New
    <3>2. e \notin events
      BY <1>4, <3>1, QueueFacts
    <3>3. e.n = clock
      BY <3>2 DEF Grows, New
    <3>4. QED
      BY <1>4, <3>1, <3>3, QueueFacts
  <2>4. QED
    BY <2>1, <2>2, <2>3
<1>5. ASSUME o.trial # "over"
      PROVE  /\ o.sub = None => o.plan \in FreePlans
             /\ \A x \in Subs : IsLive(stripe'[x]) => Named(o, events', x)
             /\ \A e \in events' : e.kind = "released" => Named(o, events', e.sub)
  <2>1. o.sub = None => o.plan \in FreePlans
    BY <1>0, <1>5 DEF RowOK
  <2>2. \A x : Named(o, events, x) => Named(o, events', x)
    BY DEF Named, Grows
  <2>3. ASSUME NEW x \in Subs, IsLive(stripe'[x]) PROVE Named(o, events', x)
    <3>1. IsLive(stripe[x]) \/ (x = s /\ IsBorn(s))
      BY <2>3 DEF Grows, Changes
    <3>2. CASE IsLive(stripe[x])
      BY <1>0, <1>5, <2>2, <3>2 DEF RowOK
    <3>3. CASE x = s /\ IsBorn(s)
      BY <3>3 DEF IsBorn, Named
    <3>4. QED
      BY <3>1, <3>2, <3>3
  <2>4. ASSUME NEW e \in events', e.kind = "released" PROVE Named(o, events', e.sub)
    <3>1. CASE e \in events
      BY <1>0, <1>5, <2>2, <2>4, <3>1 DEF RowOK
    <3>2. CASE e \notin events
      <4>1. e.sub = s /\ IsLive(stripe[s])
        BY <2>4, <3>2 DEF Grows, New, IsBorn, Births, Changes
      <4>2. QED
        BY <1>0, <1>5, <2>2, <4>1 DEF RowOK
    <3>3. QED
      BY <3>1, <3>2
  <2>5. QED
    BY <2>1, <2>3, <2>4
<1>6. ASSUME o.sub # None, IsLive(stripe'[o.sub])
      PROVE  Agrees(o, stripe'[o.sub]) \/ ShownIn(events', stripe', o.sub)
  <2>1. CASE o.sub # s
    <3>1. stripe'[o.sub] = stripe[o.sub]
      BY <1>6, <1>d, <2>1 DEF Grows
    <3>2. QED
      BY <1>0, <1>6, <3>1 DEF RowOK, ShownIn, Shows, Grows
  <2>2. CASE o.sub = s
    <3>1. Changes(s)
      BY <1>6, <1>a, <1>d, <2>2
    <3>2. CASE /\ TermsOf(stripe'[s]) = TermsOf(stripe[s])
               /\ stripe'[s].plan = stripe[s].plan
               /\ stripe'[s].sched # "none" <=> stripe[s].sched # "none"
      <4>1. Agrees(o, stripe[s]) \/ ShownIn(events, stripe, s)
        BY <1>0, <1>6, <2>2, <3>1 DEF RowOK, Changes
      <4>2. QED
        BY <2>2, <3>2, <4>1 DEF Agrees, ShownIn, Shows, Grows
    <3>3. CASE \E g \in events' : g \notin events /\ g.kind \in Tellers
      BY <2>2, <3>3 DEF Grows, New, ShownIn
    <3>4. QED
      BY <1>6, <2>2, <3>1, <3>2, <3>3 DEF Changes
  <2>3. QED
    BY <2>1, <2>2
<1>7. ASSUME o.sub # None, stripe'[o.sub].invoice # "none"
      PROVE  \/ o.delinquent <=> stripe'[o.sub].invoice = "failed"
             \/ \E g \in events' : g.sub = o.sub /\ g.kind = stripe'[o.sub].invoice
  <2>1. CASE stripe'[o.sub].invoice = stripe[o.sub].invoice
    BY <1>0, <1>7, <2>1 DEF RowOK, Grows
  <2>2. CASE stripe'[o.sub].invoice # stripe[o.sub].invoice
    <3>1. o.sub = s /\ Changes(s)
      BY <1>7, <1>a, <1>d, <2>2 DEF Grows
    <3>2. QED
      BY <2>2, <3>1 DEF Changes, Grows, New
  <2>3. QED
    BY <2>1, <2>2
<1>8. QED
  BY <1>1, <1>2, <1>3, <1>4, <1>5, <1>6, <1>7 DEF RowOK

\* What a handler copies stays true, or a later notification is.
LEMMA CopiesGrow ==
    ASSUME OrderInv, NEW s \in Subs, Grows(s), NEW e \in events, NEW t,
           Copies(t, e, events, stripe)
    PROVE  Copies(t, e, events', stripe')
<1>1. e.sub \in Subs /\ e.n < clock /\ e.n \in Nat
  BY QueueFacts
<1> SUFFICES ASSUME IsLive(stripe'[e.sub])
             PROVE  t = TermsOf(stripe'[e.sub]) \/ ShownLater(e, events', stripe')
  BY DEF Copies
<1>2. CASE \E g \in events' : g.sub = e.sub /\ g.n = clock /\ Shows(g, stripe')
  BY <1>1, <1>2 DEF ShownLater
<1>3. CASE /\ TermsOf(stripe'[e.sub]) = TermsOf(stripe[e.sub])
           /\ \A g : g.sub = e.sub /\ Shows(g, stripe) => Shows(g, stripe')
           /\ IsLive(stripe[e.sub])
  BY <1>3 DEF Copies, ShownLater, Grows
<1>4. QED
  BY <1>1, <1>2, <1>3, StillShown

LEMMA ShownGrows ==
    ASSUME OrderInv, NEW s \in Subs, Grows(s), NEW x \in Subs, IsLive(stripe'[x]),
           ShownIn(events, stripe, x)
    PROVE  ShownIn(events', stripe', x)
<1>1. PICK g \in events : g.sub = x /\ Shows(g, stripe)
  BY DEF ShownIn
<1>2. CASE \E h \in events' : h.sub = x /\ h.n = clock /\ Shows(h, stripe')
  BY <1>2 DEF ShownIn
<1>3. CASE \A h : h.sub = x /\ Shows(h, stripe) => Shows(h, stripe')
  BY <1>1, <1>3 DEF ShownIn, Grows
<1>4. QED
  BY <1>1, <1>2, <1>3, StillShown

\* A worker is not disturbed by what Stripe adds to the queue.
LEMMA JobGrows ==
    ASSUME OrderInv, NEW s \in Subs, Grows(s), NEW j \in Job,
           JobOK(j, owner, events, stripe)
    PROVE  JobOK(j, owner, events', stripe')
<1>1. j.ev.kind # "none" => j.ev \in events /\ j.ev \in events' /\ First(j.ev, events')
  <2> SUFFICES ASSUME j.ev.kind # "none"
               PROVE  j.ev \in events /\ j.ev \in events' /\ First(j.ev, events')
    OBVIOUS
  <2>1. j.ev \in events /\ First(j.ev, events) /\ j.ev.n < clock /\ j.ev.n \in Nat
    BY QueueFacts DEF JobOK
  <2>2. ASSUME NEW f \in events' PROVE j.ev.n <= f.n
    BY <2>1, QueueFacts DEF Grows, New, First
  <2>3. QED
    BY <2>1, <2>2 DEF Grows, First
<1>2. j.pc \in {"ids", "fetched", "apply"} => Copies(j.want, j.ev, events', stripe')
  <2>1. j.pc \in {"ids", "fetched", "apply"} => j.ev.kind # "none"
    BY DEF JobOK, Fits, Tellers
  <2>2. QED
    BY <1>1, <2>1, CopiesGrow DEF JobOK
<1>3. j.pc = "trial" /\ j.ev.kind = "created" =>
         Copies(TermsOf(owner), j.ev, events', stripe')
  BY <1>1, CopiesGrow DEF JobOK
<1>4. ASSUME j.pc = "local", IsLive(stripe'[owner.sub])
      PROVE  ShownIn(events', stripe', owner.sub)
  <2>1. owner.sub \in Subs
    BY <1>4 DEF JobOK, Fits
  <2>2. IsLive(stripe[owner.sub])
    BY <1>4, <2>1, UnbornUnknown DEF Grows, Changes, IsBorn
  <2>3. QED
    BY <1>4, <2>1, <2>2, ShownGrows DEF JobOK
<1>5. QED
  BY <1>1, <1>2, <1>3, <1>4 DEF JobOK

-----------------------------------------------------------------------------
(* The front of the queue is taken away *)

\* The row o needs e no more.
Handled(e, o) ==
    /\ Ends(e) => o.sub # e.sub
    /\ e.kind = "created" => o.sub = e.sub
    /\ e.kind \in Tellers /\ o.sub = e.sub /\ IsLive(stripe[e.sub]) =>
          Agrees(o, stripe[e.sub]) \/ ShownLater(e, events, stripe)
    /\ e.kind \in {"paid", "failed"} /\ o.sub = e.sub
          /\ e.kind = stripe[e.sub].invoice => (o.delinquent <=> e.kind = "failed")

\* The first notification of a subscription whose creation is not yet handled is
\* of that creation.
LEMMA FrontIsBirth ==
    ASSUME OrderInv, NEW e \in events, First(e, events),
           NEW c \in events, c.kind = "created", c.sub = e.sub
    PROVE  e.kind \in Births /\ e.n = c.n
<1>1. c.n <= e.n /\ e.n <= c.n
  BY DEF First, OrderInv, InOrder, QueueOK, FromBirthToEnd
<1>2. c.n = e.n
  BY <1>1, QueueFacts
<1>3. QED
  BY <1>2 DEF OrderInv, InOrder, QueueOK, Stamped, Births

LEMMA QueueShrinks ==
    ASSUME OrderInv, NEW e \in events, First(e, events)
    PROVE  QueueOK(events \ {e}, stripe, clock)
<1> DEFINE rest == events \ {e}
<1>0. QueueOK(events, stripe, clock)
  BY DEF OrderInv, InOrder
<1>a. \A f \in rest : f \in events /\ e.n <= f.n /\ f.n \in Nat /\ e.n \in Nat
  BY QueueFacts DEF First
<1>1. Stamped(rest, stripe, clock) /\ FromBirthToEnd(rest, stripe)
  BY <1>0 DEF QueueOK, Stamped, FromBirthToEnd
<1>2. ASSUME NEW f \in rest, f.kind \in Tellers, IsLive(stripe[f.sub])
      PROVE  Shows(f, stripe) \/ ShownLater(f, rest, stripe)
  BY <1>0, <1>2, <1>a DEF QueueOK, LastIsTrue, ShownLater
<1>3. ASSUME NEW f \in rest, f.kind \in {"paid", "failed"}
      PROVE  \/ f.kind = stripe[f.sub].invoice
             \/ \E g \in rest : g.sub = f.sub /\ f.n < g.n /\ g.kind = stripe[f.sub].invoice
  BY <1>0, <1>3, <1>a DEF QueueOK, LastIsTrue
<1>4. ASSUME NEW c \in rest, c.kind = "created", stripe[c.sub].invoice # "none"
      PROVE  \E g \in rest : g.sub = c.sub /\ g.kind = stripe[c.sub].invoice
  <2>1. PICK g \in events : g.sub = c.sub /\ g.kind = stripe[c.sub].invoice
    BY <1>0, <1>4 DEF QueueOK, LastIsTrue
  <2>2. stripe[c.sub].invoice \in {"paid", "failed"}
    BY <1>4, QueueFacts DEF Subscription
  <2>3. g # e
    BY <1>4, <2>1, <2>2, FrontIsBirth DEF Births
  <2>4. QED
    BY <2>1, <2>3
<1>5. QED
  BY <1>1, <1>2, <1>3, <1>4 DEF QueueOK, LastIsTrue

LEMMA RowShrinks ==
    ASSUME OrderInv, NEW e \in events, First(e, events), NEW o \in Row,
           RowOK(o, events, stripe), Handled(e, o)
    PROVE  RowOK(o, events \ {e}, stripe)
<1> DEFINE rest == events \ {e}
<1>0. o.sub \in MaybeSub /\ None \notin Subs
  BY SubsAssumption DEF Row
<1>a. \A f \in rest : f \in events /\ e.n <= f.n /\ f.n \in Nat /\ e.n \in Nat
  BY QueueFacts DEF First
<1>b. ASSUME NEW c \in events, c.kind = "created", c.sub = e.sub PROVE ~Ends(e)
  BY <1>b, FrontIsBirth DEF Ends, Births
<1>c. ASSUME NEW n, NEW x, EndBefore(n, events, x), ~(Ends(e) /\ e.sub = x)
      PROVE  EndBefore(n, rest, x)
  BY <1>c DEF EndBefore
<1>d. \A x : Named(o, rest, x) => Named(o, events, x)
  BY DEF Named
<1>e. ASSUME NEW x, Named(o, rest, x) PROVE ~(Ends(e) /\ e.sub = x)
  BY <1>b, <1>e DEF Named, Handled
<1>f. \A x : Named(o, events, x) => Named(o, rest, x)
  BY DEF Named, Handled
<1>1. o.sub # None => o.cust = stripe[o.sub].cust
  BY DEF RowOK
<1>2. ASSUME NEW x \in Subs, Named(o, rest, x)
      PROVE  IsLive(stripe[x]) \/ \E f \in rest : Ends(f) /\ f.sub = x
  BY <1>2, <1>d, <1>e DEF RowOK
<1>3. ASSUME NEW f \in rest, o.sub # None, f.sub # o.sub
      PROVE  EndBefore(f.n, rest, o.sub)
  BY <1>3, <1>c DEF RowOK, Handled
<1>4. ASSUME NEW c \in rest, NEW f \in rest, c.kind = "created",
             f.sub # c.sub, c.n < f.n
      PROVE  EndBefore(f.n, rest, c.sub)
  BY <1>4, <1>b, <1>c DEF RowOK
<1>5. ASSUME o.trial # "over"
      PROVE  /\ o.sub = None => o.plan \in FreePlans
             /\ \A x \in Subs : IsLive(stripe[x]) => Named(o, rest, x)
             /\ \A f \in rest : f.kind = "released" => Named(o, rest, f.sub)
  BY <1>5, <1>f DEF RowOK
<1>6. ASSUME o.sub # None, IsLive(stripe[o.sub])
      PROVE  Agrees(o, stripe[o.sub]) \/ ShownIn(rest, stripe, o.sub)
  <2>1. CASE Agrees(o, stripe[o.sub])
    BY <2>1
  <2>2. ASSUME NEW g \in events, g.sub = o.sub, Shows(g, stripe)
        PROVE  Agrees(o, stripe[o.sub]) \/ ShownIn(rest, stripe, o.sub)
    <3>1. CASE g # e
      BY <2>2, <3>1 DEF ShownIn
    <3>2. CASE g = e
      <4>1. Agrees(o, stripe[o.sub]) \/ ShownLater(e, events, stripe)
        BY <1>6, <2>2, <3>2 DEF Handled, Shows
      <4>2. ASSUME NEW h \in events, h.sub = e.sub, e.n < h.n, Shows(h, stripe)
            PROVE  ShownIn(rest, stripe, o.sub)
        <5>1. h # e
          BY <4>2, QueueFacts
        <5>2. QED
          BY <2>2, <3>2, <4>2, <5>1 DEF ShownIn
      <4>3. QED
        BY <4>1, <4>2 DEF ShownLater
    <3>3. QED
      BY <3>1, <3>2
  <2>3. QED
    BY <1>6, <2>1, <2>2 DEF RowOK, ShownIn
<1>7. ASSUME o.sub # None, stripe[o.sub].invoice # "none"
      PROVE  \/ o.delinquent <=> stripe[o.sub].invoice = "failed"
             \/ \E g \in rest : g.sub = o.sub /\ g.kind = stripe[o.sub].invoice
  <2>1. stripe[o.sub].invoice \in {"paid", "failed"}
    BY <1>0, <1>7, QueueFacts DEF Subscription, MaybeSub
  <2>2. QED
    BY <1>7, <2>1 DEF RowOK, Handled
<1>8. QED
  BY <1>1, <1>2, <1>3, <1>4, <1>5, <1>6, <1>7 DEF RowOK

-----------------------------------------------------------------------------
(* The row is written *)

\* The row names no other subscription than the first notification does.
LEMMA FrontIsOwn ==
    ASSUME OrderInv, NEW e \in events, First(e, events)
    PROVE  owner.sub = None \/ owner.sub = e.sub
<1> SUFFICES ASSUME owner.sub # None, owner.sub # e.sub PROVE FALSE
  OBVIOUS
<1>1. EndBefore(e.n, events, owner.sub)
  BY DEF OrderInv, InOrder, RowOK
<1>2. PICK f \in events : f.n < e.n
  BY <1>1 DEF EndBefore
<1>3. e.n <= f.n
  BY DEF First
<1>4. QED
  BY <1>2, <1>3, QueueFacts

\* The columns RowOK speaks of, except the trial, stay.
LEMMA WriteOther ==
    ASSUME OrderInv, NEW o \in Row, o.sub = owner.sub, o.cust = owner.cust,
           TermsOf(o) = TermsOf(owner), o.delinquent = owner.delinquent,
           o.trial # "over" => owner.trial # "over"
    PROVE  RowOK(o, events, stripe)
<1>1. o.plan = owner.plan
  BY DEF TermsOf
<1>2. \A x : Named(o, events, x) <=> Named(owner, events, x)
  BY DEF Named
<1>3. \A st : Agrees(owner, st) => Agrees(o, st)
  BY DEF Agrees
<1>4. QED
  BY <1>1, <1>2, <1>3 DEF OrderInv, InOrder, RowOK

\* delinquent is written while the notification of the invoice is in the queue.
LEMMA WriteDelinquent ==
    ASSUME OrderInv, NEW e \in events, e.kind \in {"paid", "failed"},
           owner.sub = e.sub, NEW o \in Row,
           o.sub = owner.sub, o.cust = owner.cust,
           TermsOf(o) = TermsOf(owner), o.trial = owner.trial
    PROVE  RowOK(o, events, stripe)
<1>1. o.plan = owner.plan
  BY DEF TermsOf
<1>2. \A x : Named(o, events, x) <=> Named(owner, events, x)
  BY DEF Named
<1>3. \A st : Agrees(owner, st) => Agrees(o, st)
  BY DEF Agrees
<1>4. \E g \in events : g.sub = o.sub /\ g.kind = stripe[o.sub].invoice
  BY DEF OrderInv, InOrder, QueueOK, LastIsTrue
<1>5. QED
  BY <1>1, <1>2, <1>3, <1>4 DEF OrderInv, InOrder, RowOK

\* Terms are written while what is true is in the queue.
LEMMA WriteTerms ==
    ASSUME OrderInv, NEW o \in Row, o.sub = owner.sub, o.cust = owner.cust,
           o.delinquent = owner.delinquent, o.trial = owner.trial,
           o.trial # "over" => o.sub # None,
           o.sub # None /\ IsLive(stripe[o.sub]) => ShownIn(events, stripe, o.sub)
    PROVE  RowOK(o, events, stripe)
<1>1. \A x : Named(o, events, x) <=> Named(owner, events, x)
  BY DEF Named
<1>2. QED
  BY <1>1 DEF OrderInv, InOrder, RowOK

\* The default plan is written when the subscription has ended, or a trial has.
LEMMA WriteDefault ==
    ASSUME OrderInv, NEW o \in Row, o.sub = None, o.plan \in FreePlans,
           \/ o.trial = "over"
           \/ /\ o.trial = owner.trial
              /\ \/ owner.sub = None
                 \/ /\ ~IsLive(stripe[owner.sub])
                    /\ \A e \in events : e.kind = "released" => e.sub # owner.sub
    PROVE  RowOK(o, events, stripe)
<1>1. RowOK(owner, events, stripe) /\ None \notin Subs
  BY SubsAssumption DEF OrderInv, InOrder
<1>2. \A x \in Subs : Named(o, events, x) => Named(owner, events, x)
  BY <1>1 DEF Named
<1>3. \A x : Named(owner, events, x) /\ x # owner.sub => Named(o, events, x)
  BY DEF Named
<1>4. ASSUME o.trial # "over"
      PROVE  /\ \A x \in Subs : IsLive(stripe[x]) => Named(o, events, x)
             /\ \A e \in events : e.kind = "released" => Named(o, events, e.sub)
  BY <1>1, <1>3, <1>4, QueueFacts DEF RowOK
<1>5. QED
  BY <1>1, <1>2, <1>4 DEF RowOK

\* The ids of a new subscription are written when the notification of its
\* creation has come to the front.
LEMMA WriteIds ==
    ASSUME OrderInv, NEW e \in events, First(e, events), e.kind = "created",
           NEW o \in Row, o.sub = e.sub, o.cust = e.cust, o.trial = owner.trial
    PROVE  RowOK(o, events, stripe)
<1>0. /\ RowOK(owner, events, stripe) /\ QueueOK(events, stripe, clock)
      /\ e.sub \in Subs /\ e.sub # None
  BY QueueFacts, SubsAssumption DEF OrderInv, InOrder
<1>1. o.cust = stripe[o.sub].cust
  BY QueueFacts
<1>2. \A x \in Subs : Named(o, events, x) <=> Named(owner, events, x)
  BY <1>0, FrontIsOwn, SubsAssumption DEF Named
<1>3. ASSUME NEW f \in events, f.sub # o.sub PROVE EndBefore(f.n, events, o.sub)
  <2>1. e.n <= f.n /\ e.n # f.n /\ e.n \in Nat /\ f.n \in Nat
    BY <1>0, <1>3, QueueFacts DEF First, QueueOK, Stamped
  <2>2. QED
    BY <1>0, <1>3, <2>1 DEF RowOK
<1>4. IsLive(stripe[o.sub]) => ShownIn(events, stripe, o.sub)
  <2>1. ASSUME IsLive(stripe[o.sub])
        PROVE  Shows(e, stripe) \/ ShownLater(e, events, stripe)
    BY <1>0, <2>1 DEF QueueOK, LastIsTrue, Tellers
  <2>2. QED
    BY <2>1 DEF ShownIn, ShownLater
<1>5. stripe[o.sub].invoice # "none" =>
         \E g \in events : g.sub = o.sub /\ g.kind = stripe[o.sub].invoice
  BY <1>0 DEF QueueOK, LastIsTrue
<1>6. o.trial # "over" =>
          /\ \A x \in Subs : IsLive(stripe[x]) => Named(o, events, x)
          /\ \A f \in events : f.kind = "released" => Named(o, events, f.sub)
  BY <1>0, <1>2, QueueFacts DEF RowOK
<1>7. \A x \in Subs : Named(o, events, x) =>
          IsLive(stripe[x]) \/ \E f \in events : Ends(f) /\ f.sub = x
  BY <1>0, <1>2 DEF RowOK
<1>8. QED
  BY <1>0, <1>1, <1>3, <1>4, <1>5, <1>6, <1>7 DEF RowOK

\* The customer of a checkout is that of the subscription the row names or will.
LEMMA WriteCustomer ==
    ASSUME OrderInv, NEW e \in events, First(e, events),
           NEW o \in Row, o.sub = owner.sub, o.cust = e.cust,
           TermsOf(o) = TermsOf(owner), o.delinquent = owner.delinquent,
           o.trial = owner.trial
    PROVE  RowOK(o, events, stripe)
<1>1. o.plan = owner.plan
  BY DEF TermsOf
<1>2. \A x : Named(o, events, x) <=> Named(owner, events, x)
  BY DEF Named
<1>3. \A st : Agrees(owner, st) => Agrees(o, st)
  BY DEF Agrees
<1>4. o.sub # None => o.cust = stripe[o.sub].cust
  BY FrontIsOwn, QueueFacts
<1>5. QED
  BY <1>1, <1>2, <1>3, <1>4 DEF OrderInv, InOrder, RowOK

-----------------------------------------------------------------------------
(* The steps of the one worker *)

\* The worker goes on, perhaps after a write; the queue stays.
LEMMA GoesOn ==
    ASSUME OrderInv, NEW w \in Workers, Workers = {w}, NEW j \in Job,
           job' = [job EXCEPT ![w] = j],
           RowOK(owner', events, stripe), JobOK(j, owner', events, stripe),
           events' = events, stripe' = stripe, clock' = clock,
           CheckoutsOK'
    PROVE  InOrder'
<1>1. job'[w] = j
  BY DEF OrderInv, Inv, TypeOK
<1>2. QED
  BY <1>1 DEF OrderInv, InOrder

\* An idle worker holds nothing.
LEMMA IdleOK ==
    ASSUME NEW o, NEW evs, NEW str
    PROVE  /\ JobOK(Idle, o, evs, str)
           /\ \A j, p, ev, st : j.pc = "idle" /\ JobOK(j, p, ev, st) =>
                 JobOK(j, o, evs, str)
  BY DEF JobOK, Fits, Idle, NoEvent, CallPcs

\* A worker that only drops the first notification, or writes and drops it
LEMMA Drops ==
    ASSUME OrderInv, NEW w \in Workers, Workers = {w}, job[w].pc = "idle",
           NEW e \in events, First(e, events), events' = events \ {e},
           owner' \in Row, RowOK(owner', events, stripe), Handled(e, owner'),
           job' = job, UNCHANGED stripeSide
    PROVE  InOrder'
<1>1. QueueOK(events', stripe', clock') /\ RowOK(owner', events', stripe')
  BY QueueShrinks, RowShrinks DEF stripeSide
<1>2. JobOK(job[w], owner', events', stripe')
  BY IdleOK DEF OrderInv, InOrder, stripeSide
<1>3. CheckoutsOK'
  BY DEF OrderInv, InOrder, CheckoutsOK, stripeSide
<1>4. QED
  BY <1>1, <1>2, <1>3 DEF InOrder

\* A handler writes and ends; its notification is dropped or comes again.
LEMMA Ending ==
    ASSUME OrderInv, NEW w \in Workers, Workers = {w}, Finish(w),
           owner' \in Row, RowOK(owner', events, stripe),
           job[w].ev.kind # "none" => Handled(job[w].ev, owner'),
           UNCHANGED stripeSide
    PROVE  InOrder'
<1> DEFINE e == job[w].ev
<1>1. JobOK(job[w], owner, events, stripe)
  BY DEF OrderInv, InOrder
<1>2. e.kind # "none" => e \in events /\ First(e, events)
  BY <1>1 DEF JobOK
<1>3. e.kind = "none" => e \notin events
  BY QueueFacts
<1>4. events' = events \/ (e \in events /\ events' = events \ {e})
  BY <1>3 DEF Finish
<1>5. QueueOK(events', stripe', clock') /\ RowOK(owner', events', stripe')
  <2>1. CASE events' = events
    BY <2>1 DEF OrderInv, InOrder, stripeSide
  <2>2. CASE e \in events /\ events' = events \ {e}
    BY <1>2, <1>3, <2>2, QueueShrinks, RowShrinks DEF stripeSide
  <2>3. QED
    BY <1>4, <2>1, <2>2
<1>6. \A x \in Workers : JobOK(job'[x], owner', events', stripe')
  <2>1. job'[w] = Idle
    BY DEF Finish, OrderInv, Inv, TypeOK
  <2>2. QED
    BY <2>1, IdleOK
<1>7. CheckoutsOK'
  BY DEF OrderInv, InOrder, CheckoutsOK, stripeSide
<1>8. QED
  BY <1>5, <1>6, <1>7 DEF InOrder

\* What the invariant says of the worker that takes a step
LEMMA WorkerFacts ==
    ASSUME OrderInv, NEW w \in Workers
    PROVE  /\ job \in [Workers -> Job] /\ job[w] \in Job
           /\ job[w].row \in Row /\ job[w].want \in Terms
           /\ JobOK(job[w], owner, events, stripe)
           /\ RowOK(owner, events, stripe)
           /\ job[w].pc \notin {"idle", "fetched"} => job[w].row = owner
           /\ job[w].ev.kind # "none" =>
                 /\ job[w].ev \in events /\ First(job[w].ev, events)
                 /\ job[w].ev.sub \in Subs /\ job[w].ev.sub # None
  BY QueueFacts, SubsAssumption DEF OrderInv, InOrder, Inv, TypeOK, Job, JobOK

\* A notification is delivered: from the front of the queue, to the idle worker.
LEMMA DeliveredIsFirst ==
    ASSUME OrderInv, Ordered = TRUE, NEW e, Deliverable(e)
    PROVE  /\ e \in events /\ First(e, events) /\ e.sub \in Subs /\ e.sub # None
           /\ ~Found(e) => owner.sub # e.sub
  BY QueueFacts, SubsAssumption DEF Deliverable, First, Found, OrderInv, InOrder, RowOK

\* The terms a notification shows are the subscription's, or a later one's.
LEMMA ToldCopies ==
    ASSUME OrderInv, NEW e \in events, e.kind \in Tellers
    PROVE  Copies(TermsOf(e), e, events, stripe)
  BY DEF OrderInv, InOrder, QueueOK, LastIsTrue, Copies, Shows

\* While a notification that tells terms is in the queue, so are the true terms.
LEMMA ToldIsShown ==
    ASSUME OrderInv, NEW e \in events, e.kind \in Tellers, IsLive(stripe[e.sub])
    PROVE  ShownIn(events, stripe, e.sub)
  BY DEF OrderInv, InOrder, QueueOK, LastIsTrue, ShownIn, ShownLater

\* Notifications that are received
LEMMA ReceiveOrder ==
    ASSUME OrderInv, NEW w \in Workers, Workers = {w}, Ordered = TRUE,
           Receive(w) \/ ReceiveReleased(w) \/ LoadReleased(w)
    PROVE  InOrder'
<1>0. job \in [Workers -> Job] /\ CheckoutsOK
  BY WorkerFacts DEF OrderInv, InOrder
<1>a. Inv'
  BY InvStep DEF OrderInv, Next, Webhook
<1>b. job'[w] \in Job
  BY <1>a DEF Inv, TypeOK
<1>1. CASE Receive(w)
  <2>1. PICK e \in events :
           /\ Deliverable(e) /\ ~Ignored(e)
           /\ \/ e.kind \in {"paid", "deleted", "updated"} /\ Found(e)
              \/ e.kind \in {"created", "checkout"}
           /\ job' = [job EXCEPT ![w] = [pc |-> FirstStep(e), ev |-> e,
                        row |-> owner, want |-> TermsOf(e), seen |-> NotSeen]]
    BY <1>1 DEF Receive
  <2> DEFINE j == [pc |-> FirstStep(e), ev |-> e, row |-> owner,
                   want |-> TermsOf(e), seen |-> NotSeen]
  <2>2. j \in Job /\ job' = [job EXCEPT ![w] = j]
    BY <1>0, <1>b, <2>1
  <2>3. /\ j.pc = FirstStep(e) /\ j.ev = e /\ j.row = owner /\ j.want = TermsOf(e)
    OBVIOUS
  <2> HIDE DEF j
  <2>4. First(e, events) /\ e.sub # None
    BY <2>1, DeliveredIsFirst
  <2>5. /\ e.kind = "paid" => j.pc = "paid" /\ owner.sub = e.sub
        /\ e.kind = "deleted" => j.pc = "default" /\ owner.sub = e.sub
        /\ e.kind = "updated" => /\ owner.sub = e.sub
                                 /\ j.pc = IF Ends(e) THEN "default" ELSE "apply"
        /\ e.kind = "created" => j.pc = "ids"
        /\ e.kind = "checkout" => j.pc = "customer"
    BY <2>1, <2>3 DEF FirstStep, Found, Ends
  <2>6. Fits(j, owner)
    BY <2>1, <2>3, <2>4, <2>5 DEF Fits, Ends, CallPcs, Tellers
  <2>7. j.pc \in {"ids", "fetched", "apply"} => Copies(j.want, j.ev, events, stripe)
    BY <2>1, <2>3, <2>5, ToldCopies DEF Tellers
  <2>8. JobOK(j, owner, events, stripe)
    BY <2>1, <2>3, <2>4, <2>5, <2>6, <2>7 DEF JobOK
  <2>9. QED
    BY <1>0, <1>1, <2>2, <2>8, WorkerFacts, GoesOn
       DEF Receive, stripeSide, CheckoutsOK
<1>2. CASE ReceiveReleased(w)
  <2>1. PICK e \in events :
           /\ Deliverable(e) /\ e.kind = "released"
           /\ job' = [job EXCEPT ![w] = [pc |-> "fetched", ev |-> e,
              row |-> NewRow, want |-> TermsOf(stripe[e.sub]), seen |-> NotSeen]]
    BY <1>2 DEF ReceiveReleased
  <2> DEFINE j == [pc |-> "fetched", ev |-> e, row |-> NewRow,
                   want |-> TermsOf(stripe[e.sub]), seen |-> NotSeen]
  <2>2. j \in Job /\ job' = [job EXCEPT ![w] = j]
    BY <1>0, <1>b, <2>1
  <2>3. j.pc = "fetched" /\ j.ev = e /\ j.want = TermsOf(stripe[e.sub])
    OBVIOUS
  <2> HIDE DEF j
  <2>4. First(e, events)
    BY <2>1, DeliveredIsFirst
  <2>5. JobOK(j, owner, events, stripe)
    BY <2>1, <2>3, <2>4 DEF JobOK, Fits, Copies, CallPcs
  <2>6. QED
    BY <1>0, <1>2, <2>2, <2>5, WorkerFacts, GoesOn
       DEF ReceiveReleased, stripeSide, CheckoutsOK
<1>3. CASE LoadReleased(w)
  <2> DEFINE j == [job[w] EXCEPT !.pc = "apply", !.row = owner]
  <2>1. job[w] \in Job /\ owner \in Row /\ JobOK(job[w], owner, events, stripe)
        /\ job[w].pc = "fetched"
    BY <1>3, WorkerFacts, QueueFacts DEF LoadReleased
  <2>2. /\ j \in Job /\ j.pc = "apply" /\ j.row = owner
        /\ j.ev = job[w].ev /\ j.want = job[w].want
    BY <2>1 DEF Job
  <2>3. job' = [job EXCEPT ![w] = j]
    BY <1>0, <1>3 DEF LoadReleased, Goto
  <2> HIDE DEF j
  <2>4. JobOK(j, owner, events, stripe)
    BY <2>1, <2>2 DEF JobOK, Fits, Ends, Tellers, CallPcs
  <2>5. QED
    BY <1>0, <1>3, <2>2, <2>3, <2>4, WorkerFacts, GoesOn
       DEF LoadReleased, stripeSide, CheckoutsOK
<1>4. QED
  BY <1>1, <1>2, <1>3

\* Notifications that are dropped at once
LEMMA DropOrder ==
    ASSUME OrderInv, NEW w \in Workers, Workers = {w}, Ordered = TRUE,
           PaymentFailed(w) \/ IgnoreEvent(w) \/ GiveUp(w)
    PROVE  InOrder'
<1>0. owner \in Row /\ RowOK(owner, events, stripe)
  BY QueueFacts, WorkerFacts
<1>1. CASE PaymentFailed(w)
  <2>1. PICK e \in events :
           /\ Deliverable(e) /\ e.kind = "failed" /\ events' = events \ {e}
           /\ owner' = IF Found(e) THEN [owner EXCEPT !.delinquent = TRUE] ELSE owner
    BY <1>1 DEF PaymentFailed
  <2>2. CASE Found(e)
    <3>1. /\ owner' \in Row /\ owner'.sub = owner.sub /\ owner'.cust = owner.cust
          /\ TermsOf(owner') = TermsOf(owner) /\ owner'.trial = owner.trial
          /\ owner'.delinquent = TRUE
      BY <1>0, <2>1, <2>2 DEF Row, TermsOf
    <3>2. RowOK(owner', events, stripe)
      BY <2>1, <2>2, <3>1, WriteDelinquent DEF Found
    <3>3. Handled(e, owner')
      BY <2>1, <3>1 DEF Handled, Ends, Tellers
    <3>4. QED
      BY <1>1, <2>1, <3>1, <3>2, <3>3, DeliveredIsFirst, Drops DEF PaymentFailed
  <2>3. CASE ~Found(e)
    <3>1. owner' = owner /\ Handled(e, owner')
      BY <2>1, <2>3, DeliveredIsFirst DEF Handled, Ends, Tellers
    <3>2. QED
      BY <1>0, <1>1, <2>1, <3>1, DeliveredIsFirst, Drops DEF PaymentFailed
  <2>4. QED
    BY <2>2, <2>3
<1>2. CASE IgnoreEvent(w)
  <2>1. PICK e \in events :
           Deliverable(e) /\ Ignored(e) /\ events' = events \ {e}
    BY <1>2 DEF IgnoreEvent
  <2>2. e.kind = "updated" /\ owner.sub = e.sub /\ (e.sched \/ e.plan \notin ProPlans)
    BY <2>1 DEF Ignored, Found, OrderInv, InOrder, QueueOK, FromBirthToEnd
  <2>3. ~Ends(e)
    BY <2>1, <2>2 DEF Ignored, Ends, OrderInv, InOrder, QueueOK, FromBirthToEnd
  <2>4. ASSUME IsLive(stripe[e.sub])
        PROVE  Agrees(owner, stripe[e.sub]) \/ ShownLater(e, events, stripe)
    <3>1. Shows(e, stripe) \/ ShownLater(e, events, stripe)
      BY <2>2, <2>4 DEF OrderInv, InOrder, QueueOK, LastIsTrue, Tellers
    <3>2. Shows(e, stripe) => Agrees(owner, stripe[e.sub])
      BY <2>2 DEF Shows, Agrees, TermsOf
    <3>3. QED
      BY <3>1, <3>2
  <2>5. owner' = owner /\ Handled(e, owner')
    BY <1>2, <2>2, <2>3, <2>4 DEF Handled, IgnoreEvent
  <2>6. QED
    BY <1>0, <1>2, <2>1, <2>5, DeliveredIsFirst, Drops DEF IgnoreEvent
<1>3. CASE GiveUp(w)
  <2>1. PICK e \in events :
           /\ Deliverable(e) /\ e.kind \in {"paid", "deleted", "updated"} /\ ~Found(e)
           /\ events' = events \ {e}
    BY <1>3 DEF GiveUp
  <2>2. owner' = owner /\ Handled(e, owner')
    BY <1>3, <2>1, DeliveredIsFirst DEF Handled, GiveUp
  <2>3. QED
    BY <1>0, <1>3, <2>1, <2>2, DeliveredIsFirst, Drops DEF GiveUp
<1>4. QED
  BY <1>1, <1>2, <1>3

\* A handler saves a row and goes on with it.
LEMMA SavesAndGoesOn ==
    ASSUME OrderInv, NEW w \in Workers, Workers = {w}, NEW r \in Row, NEW pc,
           owner' = r, Goto(w, pc, r), RowOK(r, events, stripe),
           [job[w] EXCEPT !.pc = pc, !.row = r] \in Job,
           Fits([job[w] EXCEPT !.pc = pc, !.row = r], r),
           pc \in {"ids", "fetched", "apply"} =>
               Copies(job[w].want, job[w].ev, events, stripe),
           pc = "trial" /\ job[w].ev.kind = "created" =>
               Copies(TermsOf(r), job[w].ev, events, stripe),
           pc = "local" /\ IsLive(stripe[r.sub]) => ShownIn(events, stripe, r.sub),
           events' = events, UNCHANGED stripeSide
    PROVE  InOrder'
<1> DEFINE j == [job[w] EXCEPT !.pc = pc, !.row = r]
<1>1. j.pc = pc /\ j.row = r /\ j.ev = job[w].ev /\ j.want = job[w].want
  BY WorkerFacts DEF Job
<1>2. job' = [job EXCEPT ![w] = j] /\ j \in Job /\ Fits(j, r)
  BY WorkerFacts DEF Goto
<1> HIDE DEF j
<1>3. JobOK(j, r, events, stripe)
  BY <1>1, <1>2, WorkerFacts DEF JobOK
<1>4. CheckoutsOK'
  BY DEF OrderInv, InOrder, CheckoutsOK, stripeSide
<1>5. QED
  BY <1>2, <1>3, <1>4, GoesOn DEF stripeSide

\* The saves of the handlers of notifications
LEMMA SaveOrder ==
    ASSUME OrderInv, NEW w \in Workers, Workers = {w},
           \/ SavePaid(w) \/ SaveDefault(w) \/ SwitchReposOff(w) \/ SaveIds(w)
           \/ SaveTerms(w) \/ SaveTrial(w) \/ SaveCustomer(w)
    PROVE  InOrder'
<1> DEFINE e == job[w].ev
           r == job[w].row
<1>0. /\ job[w] \in Job /\ r \in Row /\ owner \in Row /\ job[w].want \in Terms
      /\ e \in Event /\ JobOK(job[w], owner, events, stripe)
      /\ RowOK(owner, events, stripe) /\ job[w].pc # "idle"
  BY WorkerFacts, QueueFacts DEF SavePaid, SaveDefault, SwitchReposOff, SaveIds,
     SaveTerms, SaveTrial, SaveCustomer, Job
<1>a. Fits(job[w], owner) /\ (job[w].pc # "fetched" => r = owner)
  BY <1>0 DEF JobOK
<1>b. e.kind # "none" => /\ e \in events /\ First(e, events)
                         /\ e.sub \in Subs /\ e.sub # None
  BY WorkerFacts
<1>c. Inv'
  BY InvStep DEF OrderInv, Next, Webhook
<1>d. owner' \in Row
  BY <1>c DEF Inv, TypeOK
<1>1. CASE SavePaid(w)
  <2>1. r = owner /\ e.kind = "paid" /\ owner.sub = e.sub
    BY <1>1, <1>a DEF SavePaid, Fits
  <2>2. /\ owner'.sub = owner.sub /\ owner'.cust = owner.cust
        /\ TermsOf(owner') = TermsOf(owner) /\ owner'.trial = owner.trial
        /\ owner'.delinquent = FALSE
    BY <1>0, <1>1, <2>1 DEF SavePaid, Row, TermsOf
  <2>3. RowOK(owner', events, stripe)
    BY <1>b, <1>d, <2>1, <2>2, WriteDelinquent
  <2>4. Handled(e, owner')
    BY <2>1, <2>2 DEF Handled, Ends, Tellers
  <2>5. QED
    BY <1>1, <1>d, <2>3, <2>4, Ending DEF SavePaid
<1>2. CASE SaveDefault(w)
  <2>1. r = owner /\ Ends(e) /\ owner.sub = e.sub /\ e.kind # "none"
    BY <1>2, <1>a DEF SaveDefault, Fits, Ends
  <2>2. /\ owner'.sub = None /\ owner'.plan \in FreePlans
        /\ owner'.trial = owner.trial
    BY <1>0, <1>2, <2>1 DEF SaveDefault, DefaultPlan, Row, FreePlans
  <2>3. ~IsLive(stripe[owner.sub])
    BY <1>b, <2>1 DEF OrderInv, InOrder, QueueOK, FromBirthToEnd
  <2>4. ASSUME NEW f \in events, f.kind = "released" PROVE f.sub # owner.sub
    <3> SUFFICES ASSUME f.sub = owner.sub PROVE FALSE
      OBVIOUS
    <3>1. f.n <= e.n /\ e.n <= f.n
      BY <1>b, <2>1 DEF OrderInv, InOrder, QueueOK, FromBirthToEnd, First
    <3>2. f.n = e.n
      BY <1>b, <2>1, <3>1, QueueFacts
    <3>3. f = e \/ f.kind \in Births
      BY <1>b, <2>1, <3>2 DEF OrderInv, InOrder, QueueOK, Stamped
    <3>4. QED
      BY <2>1, <2>4, <3>3 DEF Ends, Births
  <2>5. RowOK(owner', events, stripe)
    BY <1>d, <2>2, <2>3, <2>4, WriteDefault
  <2> DEFINE j == [job[w] EXCEPT !.pc = "repos", !.row = owner']
  <2>6. j \in Job /\ j.pc = "repos" /\ j.ev = e
    BY <1>0, <1>d DEF Job
  <2>7. Fits(j, owner')
    BY <2>1, <2>2, <2>6 DEF Fits, CallPcs
  <2>8. QED
    BY <1>2, <1>d, <2>5, <2>6, <2>7, SavesAndGoesOn DEF SaveDefault
<1>3. CASE SwitchReposOff(w)
  <2>1. Ends(e) /\ owner.sub = None /\ owner' = owner /\ e.kind # "none"
    BY <1>3, <1>a DEF SwitchReposOff, Fits, Ends
  <2>2. Handled(e, owner')
    BY <1>b, <2>1 DEF Handled, Ends
  <2>3. QED
    BY <1>0, <1>3, <2>1, <2>2, Ending DEF SwitchReposOff
<1>4. CASE SaveIds(w)
  <2>1. r = owner /\ e.kind = "created" /\ job[w].pc = "ids"
    BY <1>4, <1>a DEF SaveIds, Fits
  <2>2. owner'.sub = e.sub /\ owner'.cust = e.cust /\ owner'.trial = owner.trial
    BY <1>0, <1>4, <2>1 DEF SaveIds, Row
  <2>3. RowOK(owner', events, stripe)
    BY <1>b, <1>d, <2>1, <2>2, WriteIds
  <2> DEFINE j == [job[w] EXCEPT !.pc = "apply", !.row = owner']
  <2>4. j \in Job /\ j.pc = "apply" /\ j.ev = e
    BY <1>0, <1>d DEF Job
  <2>5. Fits(j, owner')
    BY <2>1, <2>2, <2>4 DEF Fits, CallPcs, Tellers, Ends
  <2>6. Copies(job[w].want, e, events, stripe)
    BY <1>0, <2>1 DEF JobOK
  <2>7. QED
    BY <1>4, <1>d, <2>3, <2>4, <2>5, <2>6, SavesAndGoesOn DEF SaveIds
<1>5. CASE SaveTerms(w)
  <2>1. /\ r = owner /\ e.kind \in Tellers /\ ~Ends(e) /\ e.kind # "none"
        /\ e.kind # "released" => owner.sub = e.sub
        /\ job[w].pc = "apply"
    BY <1>5, <1>a DEF SaveTerms, Fits, Tellers
  <2>2. /\ owner'.sub = owner.sub /\ owner'.cust = owner.cust
        /\ owner'.delinquent = owner.delinquent /\ owner'.trial = owner.trial
        /\ TermsOf(owner') = job[w].want
    BY <1>0, <1>5, <2>1 DEF SaveTerms, WithTerms, Row, TermsOf, Terms
  <2>3. owner.trial # "over" => owner.sub # None
    <3> SUFFICES ASSUME owner.trial # "over", owner.sub = None PROVE FALSE
      OBVIOUS
    <3>1. e.kind = "released" /\ Named(owner, events, e.sub)
      BY <1>0, <1>b, <2>1 DEF RowOK
    <3>2. PICK c \in events : c.kind = "created" /\ c.sub = e.sub
      BY <1>b, <2>1, <3>1 DEF Named
    <3>3. QED
      BY <1>b, <2>1, <3>1, <3>2, FrontIsBirth DEF Births
  <2>4. ASSUME owner.sub # None, IsLive(stripe[owner.sub])
        PROVE  ShownIn(events, stripe, owner.sub)
    BY <1>b, <2>1, <2>4, FrontIsOwn, ToldIsShown
  <2>5. RowOK(owner', events, stripe)
    BY <1>d, <2>2, <2>3, <2>4, WriteTerms
  <2>6. Copies(TermsOf(owner'), e, events, stripe)
    BY <1>0, <2>1, <2>2 DEF JobOK
  <2>7. CASE StartsTrial(job[w])
    <3> DEFINE j == [job[w] EXCEPT !.pc = "trial", !.row = owner']
    <3>1. j \in Job /\ j.pc = "trial" /\ j.ev = e
      BY <1>0, <1>d DEF Job
    <3>2. Fits(j, owner')
      BY <2>1, <2>2, <2>7, <3>1 DEF Fits, CallPcs, StartsTrial
    <3>3. QED
      BY <1>5, <1>d, <2>5, <2>6, <2>7, <3>1, <3>2, SavesAndGoesOn DEF SaveTerms
  <2>8. CASE ~StartsTrial(job[w])
    <3>1. Handled(e, owner')
      BY <2>1, <2>2, <2>6 DEF Handled, Copies, Agrees, Tellers
    <3>2. QED
      BY <1>5, <1>d, <2>5, <2>8, <3>1, Ending DEF SaveTerms
  <2>9. QED
    BY <2>7, <2>8
<1>6. CASE SaveTrial(w)
  <2>1. r = owner /\ job[w].pc = "trial"
    BY <1>6, <1>a DEF SaveTrial
  <2>2. /\ owner'.sub = owner.sub /\ owner'.cust = owner.cust
        /\ TermsOf(owner') = TermsOf(owner) /\ owner'.delinquent = owner.delinquent
        /\ owner'.trial = "running"
    BY <1>0, <1>6, <2>1 DEF SaveTrial, Row, TermsOf
  <2>3. owner.trial = "none"
    BY <2>1 DEF OrderInv, TrialKnown
  <2>4. RowOK(owner', events, stripe)
    BY <1>d, <2>2, <2>3, WriteOther
  <2>5. e.kind # "none" => e.kind = "created" /\ owner.sub = e.sub
    BY <1>a, <2>1 DEF Fits
  <2>6. e.kind # "none" => Copies(TermsOf(owner'), e, events, stripe)
    BY <1>0, <2>1, <2>2, <2>5 DEF JobOK
  <2>7. e.kind # "none" => Handled(e, owner')
    BY <2>2, <2>5, <2>6 DEF Handled, Copies, Agrees, Ends
  <2>8. QED
    BY <1>6, <1>d, <2>4, <2>7, Ending DEF SaveTrial
<1>7. CASE SaveCustomer(w)
  <2>1. r = owner /\ e.kind = "checkout"
    BY <1>7, <1>a DEF SaveCustomer, Fits
  <2>2. /\ owner'.sub = owner.sub /\ owner'.cust = e.cust
        /\ TermsOf(owner') = TermsOf(owner) /\ owner'.delinquent = owner.delinquent
        /\ owner'.trial = owner.trial
    BY <1>0, <1>7, <2>1 DEF SaveCustomer, Row, TermsOf
  <2>3. RowOK(owner', events, stripe)
    BY <1>b, <1>d, <2>1, <2>2, WriteCustomer
  <2>4. Handled(e, owner')
    BY <2>1 DEF Handled, Ends, Tellers
  <2>5. QED
    BY <1>7, <1>d, <2>3, <2>4, Ending DEF SaveCustomer
<1>8. QED
  BY <1>1, <1>2, <1>3, <1>4, <1>5, <1>6, <1>7

\* A live subscription changes its terms or its schedule, has an invoice, or ends,
\* and one notification tells of it.
LEMMA SubChanges ==
    ASSUME OrderInv, NEW s \in Subs, Live(s), NEW st \in Subscription,
           st.cust = stripe[s].cust, NEW k \in EventKinds, SetSub(s, st, {k}),
           \/ /\ k \in {"updated", "released"} /\ IsLive(st)
              /\ st.invoice = stripe[s].invoice
           \/ /\ k \in {"paid", "failed"} /\ st.invoice = k /\ IsLive(st)
              /\ TermsOf(st) = TermsOf(stripe[s]) /\ st.sched = stripe[s].sched
           \/ /\ k = "deleted" \/ (k = "updated" /\ st.status = "incomplete_expired")
              /\ ~IsLive(st) /\ st.sched = "none" /\ st.invoice = stripe[s].invoice
    PROVE  /\ Grows(s)
           /\ k \in Tellers => ShownIn(events', stripe', s)
<1> DEFINE g == EventOf(k, s, st, clock)
<1>1. /\ g.kind = k /\ g.sub = s /\ g.n = clock /\ g.cust = st.cust
      /\ TermsOf(g) = TermsOf(st) /\ g.status = st.status
      /\ g.sched <=> st.sched # "none"
  BY DEF EventOf, TermsOf
<1>2. /\ events' = events \cup {g} /\ clock' = clock + 1
      /\ stripe'[s] = st /\ \A x \in Subs \ {s} : stripe'[x] = stripe[x]
  BY QueueFacts DEF SetSub
<1> HIDE DEF g
<1>3. g \notin events
  BY <1>1, QueueFacts
<1>4. k \in Tellers => Shows(g, stripe')
  BY <1>1, <1>2 DEF Shows
<1>5. New(g, s)
  BY <1>1, <1>2, <1>4 DEF New, Ends, IsLive, EventKinds, Tellers
<1>6. IsLive(stripe[s]) /\ k \notin Births
  BY DEF Live, IsLive, Births
<1>7. TermsOf(st) = TermsOf(stripe[s]) => st.plan = stripe[s].plan
  BY DEF TermsOf
<1>8. Changes(s)
  BY <1>1, <1>2, <1>3, <1>6, <1>7 DEF Changes, Tellers, Ends
<1>9. QED
  BY <1>1, <1>2, <1>4, <1>5, <1>8 DEF Grows, ShownIn

\* A subscription is born of a checkout.
LEMMA SubIsBorn ==
    ASSUME OrderInv, NEW s \in Subs, stripe[s].status = "unborn",
           \A x \in Subs : ~Live(x), NEW st \in Subscription, IsLive(st),
           st.invoice = "none", st.plan \in ProPlans,
           SetSub(s, st, Births)
    PROVE  Grows(s)
<1>1. ASSUME NEW k
      PROVE  /\ EventOf(k, s, st, clock).kind = k
             /\ EventOf(k, s, st, clock).sub = s
             /\ EventOf(k, s, st, clock).n = clock
             /\ EventOf(k, s, st, clock).cust = st.cust
             /\ EventOf(k, s, st, clock).plan = st.plan
             /\ TermsOf(EventOf(k, s, st, clock)) = TermsOf(st)
             /\ EventOf(k, s, st, clock).sched <=> st.sched # "none"
  BY DEF EventOf, TermsOf
<1>2. /\ clock' = clock + 1 /\ events \subseteq events'
      /\ \A g \in events' : g \in events \/ \E k \in Births : g = EventOf(k, s, st, clock)
      /\ EventOf("created", s, st, clock) \in events'
      /\ stripe'[s] = st /\ \A x \in Subs \ {s} : stripe'[x] = stripe[x]
  BY QueueFacts DEF SetSub, Births
<1>3. ASSUME NEW g \in events', g \notin events
      PROVE  New(g, s) /\ g.kind \in Births /\ g.plan \in ProPlans
  <2>1. PICK k \in Births : g = EventOf(k, s, st, clock)
    BY <1>2, <1>3
  <2>2. /\ g.kind = k /\ g.sub = s /\ g.n = clock /\ g.cust = st.cust
        /\ g.plan = st.plan /\ TermsOf(g) = TermsOf(st) /\ (g.sched <=> st.sched # "none")
    BY <1>1, <2>1
  <2>3. Shows(g, stripe') \/ k \notin Tellers
    BY <1>2, <2>2 DEF Shows
  <2>4. QED
    BY <1>2, <2>2, <2>3 DEF New, Births, Ends
<1>4. IsBorn(s)
  BY <1>1, <1>2, <1>3 DEF IsBorn, Live, IsLive
<1>5. QED
  BY <1>2, <1>3, <1>4 DEF Grows

LEMMA QueueGrows ==
    ASSUME OrderInv, NEW s \in Subs, Grows(s)
    PROVE  QueueOK(events', stripe', clock')
  BY StampsGrow, FromBirthGrows, TruthGrows DEF QueueOK

\* A request changes the subscription of its row and goes on.
LEMMA CallOrder ==
    ASSUME OrderInv, NEW w \in Workers, Workers = {w}, job[w].pc \in CallPcs,
           Live(Target(w)), NEW st \in Subscription,
           st.status = stripe[Target(w)].status,
           st.cust = stripe[Target(w)].cust, st.invoice = stripe[Target(w)].invoice,
           NEW k \in {"updated", "released"},
           SetSub(Target(w), st, {k}),
           NEW next \in {"schedule", "local", "cancel", "save"},
           Goto(w, next, job[w].row),
           UNCHANGED <<owner, reposOn, checkouts, budget>>
    PROVE  InOrder'
<1> DEFINE s == Target(w)
           j == [job[w] EXCEPT !.pc = next, !.row = job[w].row]
<1>1. /\ job[w] \in Job /\ JobOK(job[w], owner, events, stripe)
      /\ job[w].row = owner /\ Fits(job[w], owner)
  BY WorkerFacts DEF CallPcs, JobOK
<1>2. s \in Subs /\ s = owner.sub /\ job[w].ev.kind = "none"
  BY <1>1 DEF Target, Fits, CallPcs
<1>3. IsLive(st)
  BY DEF Live, IsLive
<1>4. Grows(s) /\ ShownIn(events', stripe', s)
  BY <1>2, <1>3, SubChanges DEF EventKinds, Tellers
<1>5. /\ j \in Job /\ job' = [job EXCEPT ![w] = j]
      /\ j.pc = next /\ j.row = owner /\ j.ev = job[w].ev
  BY <1>1, WorkerFacts DEF Goto, Job
<1> HIDE DEF j
<1>6. JobOK(j, owner, events', stripe')
  BY <1>2, <1>4, <1>5 DEF JobOK, Fits
<1>7. job'[w] = j
  BY <1>5, WorkerFacts
<1>8. CheckoutsOK'
  BY DEF OrderInv, InOrder, CheckoutsOK
<1>9. QED
  BY <1>2, <1>4, <1>6, <1>7, <1>8, QueueGrows, RowGrows DEF InOrder

\* A request that goes on or ends, perhaps after a save
LEMMA RequestGoesOn ==
    ASSUME OrderInv, NEW w \in Workers, Workers = {w}, owner' \in Row,
           RowOK(owner', events, stripe),
           \/ job' = [job EXCEPT ![w] = Idle]
           \/ /\ job[w].pc \in {"update", "local"} \cup CallPcs
              /\ job'[w] \in Job /\ job'[w].pc \in {"save"} \cup CallPcs
              /\ job'[w].row = owner' /\ job'[w].ev = job[w].ev
              /\ job'[w].pc \in CallPcs => owner'.sub \in Subs,
           events' = events, stripe' = stripe, clock' = clock, CheckoutsOK'
    PROVE  InOrder'
<1>1. Fits(job[w], owner)
  BY WorkerFacts DEF JobOK
<1>2. CASE job' = [job EXCEPT ![w] = Idle]
  <2>1. job'[w] = Idle
    BY <1>2, WorkerFacts
  <2>2. QED
    BY <2>1, IdleOK DEF OrderInv, InOrder
<1>3. CASE /\ job[w].pc \in {"update", "local"} \cup CallPcs
           /\ job'[w] \in Job /\ job'[w].pc \in {"save"} \cup CallPcs
           /\ job'[w].row = owner' /\ job'[w].ev = job[w].ev
           /\ job'[w].pc \in CallPcs => owner'.sub \in Subs
  <2>1. job[w].ev.kind = "none"
    BY <1>1, <1>3 DEF Fits, CallPcs
  <2>2. JobOK(job'[w], owner', events, stripe)
    BY <1>3, <2>1 DEF JobOK, Fits, CallPcs
  <2>3. QED
    BY <2>2 DEF OrderInv, InOrder
<1>4. QED
  BY <1>2, <1>3

\* The account and trial requests
LEMMA RequestOrder ==
    ASSUME OrderInv, NEW w \in Workers, Workers = {w}, Request(w)
    PROVE  InOrder'
<1> DEFINE r == job[w].row
           s == Target(w)
<1>0. /\ job[w] \in Job /\ owner \in Row /\ r \in Row
      /\ RowOK(owner, events, stripe) /\ CheckoutsOK
      /\ JobOK(job[w], owner, events, stripe) /\ Fits(job[w], owner)
      /\ job[w].want \in Terms
  BY WorkerFacts, QueueFacts DEF JobOK, OrderInv, InOrder
<1>a. job[w].pc \notin {"idle", "fetched"} => r = owner /\ s = owner.sub
  BY WorkerFacts DEF Target
<1>b. Inv'
  BY InvStep DEF OrderInv, Next
<1>c. owner' \in Row /\ job'[w] \in Job /\ job \in [Workers -> Job]
  BY <1>b, WorkerFacts DEF Inv, TypeOK
<1>d. job[w].pc \in CallPcs => s \in Subs /\ stripe[s] \in Subscription
  BY <1>0, <1>a, QueueFacts DEF Fits, CallPcs
<1>1. CASE UpdateToDefault(w)
  <2>1. r = owner /\ owner.sub = None /\ job[w].pc = "update"
    BY <1>1, <1>a DEF UpdateToDefault
  <2>2. /\ owner'.sub = None /\ owner'.plan \in FreePlans
        /\ owner'.trial = owner.trial
    BY <1>0, <1>1, <2>1 DEF UpdateToDefault, DefaultPlan, Row, FreePlans
  <2>3. RowOK(owner', events, stripe)
    BY <1>c, <2>1, <2>2, WriteDefault
  <2>4. job'[w].pc = "save" /\ job'[w].row = owner' /\ job'[w].ev = job[w].ev
    BY <1>0, <1>1, <1>c DEF UpdateToDefault, Goto, Job
  <2>5. QED
    BY <1>0, <1>1, <1>c, <2>1, <2>3, <2>4, RequestGoesOn
       DEF UpdateToDefault, stripeSide, CheckoutsOK, CallPcs
<1>2. CASE OpenCheckout(w)
  <2>1. r = owner /\ job[w].pc = "update" /\ owner' = owner
    BY <1>2, <1>a DEF OpenCheckout
  <2>2. job'[w].pc = "save" /\ job'[w].row = r /\ job'[w].ev = job[w].ev
    BY <1>0, <1>2, <1>c DEF OpenCheckout, Goto, Job
  <2>3. CheckoutsOK'
    BY <1>0, <1>2 DEF OpenCheckout, CheckoutsOK
  <2>4. QED
    BY <1>0, <1>2, <1>c, <2>1, <2>2, <2>3, RequestGoesOn DEF OpenCheckout, CallPcs
<1>3. CASE ChooseCall(w)
  <2>1. r = owner /\ job[w].pc = "update" /\ owner' = owner /\ s # None
    BY <1>3, <1>a DEF ChooseCall
  <2> DEFINE choice ==
         CASE job[w].want.plan \in FreePlans ->
                IF stripe[Target(w)].sched # "none" THEN "release" ELSE "cancel"
           [] job[w].want.plan \in ProPlans ->
                IF stripe[Target(w)].sched # "none" THEN "schedule"
                ELSE IF ChargesNow(job[w].row, job[w].want) THEN "modify"
                ELSE "newsched"
             sn == [plan |-> stripe[Target(w)].plan, qty |-> stripe[Target(w)].qty,
                    period |-> stripe[Target(w)].period]
  <2>2. choice \in CallPcs
    <3>1. \/ job[w].want.plan \in FreePlans /\ job[w].want.plan \notin ProPlans
          \/ job[w].want.plan \notin FreePlans /\ job[w].want.plan \in ProPlans
      BY <1>3 DEF ChooseCall, FreePlans, BasicPlan, ProPlans, PrPlans, SentryPlans,
         CloudPlans
    <3>2. QED
      BY <3>1 DEF CallPcs
  <2>3. job' = [job EXCEPT ![w].pc = choice, ![w].seen = sn]
    BY <1>3 DEF ChooseCall
  <2> HIDE DEF choice, sn
  <2>4. job'[w].pc = choice /\ job'[w].row = r /\ job'[w].ev = job[w].ev
    BY <1>0, <1>c, <2>3 DEF Job
  <2>5. owner'.sub \in Subs
    BY <1>a, <2>1, QueueFacts DEF MaybeSub
  <2>6. QED
    BY <1>0, <1>3, <1>c, <2>1, <2>2, <2>4, <2>5, RequestGoesOn
       DEF ChooseCall, stripeSide, CheckoutsOK
<1>4. CASE ModifySubscription(w)
  <2> DEFINE st == [stripe[Target(w)] EXCEPT !.plan = job[w].want.plan,
                       !.qty = job[w].want.qty, !.cancel = FALSE]
  <2>1. /\ st \in Subscription /\ st.status = stripe[s].status
        /\ st.cust = stripe[s].cust /\ st.invoice = stripe[s].invoice
    BY <1>0, <1>d, <1>4 DEF ModifySubscription, CallPcs, Subscription, Terms
  <2>2. SetSub(s, st, {"updated"})
    BY <1>4 DEF ModifySubscription
  <2> HIDE DEF st
  <2>3. QED
    BY <1>4, <2>1, <2>2, CallOrder DEF ModifySubscription, CallPcs
<1>5. CASE SaveLocal(w)
  <2>1. r = owner /\ job[w].pc = "local" /\ owner.sub \in Subs
    BY <1>0, <1>5, <1>a DEF SaveLocal, Fits
  <2>2. /\ owner'.sub = owner.sub /\ owner'.cust = owner.cust
        /\ owner'.delinquent = owner.delinquent /\ owner'.trial = owner.trial
    BY <1>0, <1>5, <2>1 DEF SaveLocal, WithTerms, Row
  <2>3. IsLive(stripe[owner'.sub]) => ShownIn(events, stripe, owner'.sub)
    BY <1>0, <2>1, <2>2 DEF JobOK
  <2>4. RowOK(owner', events, stripe)
    BY <1>c, <2>1, <2>2, <2>3, SubsAssumption, WriteTerms
  <2>5. job'[w].pc = "save" /\ job'[w].row = owner' /\ job'[w].ev = job[w].ev
    BY <1>0, <1>5, <1>c DEF SaveLocal, Goto, Job
  <2>6. QED
    BY <1>0, <1>5, <1>c, <2>1, <2>4, <2>5, RequestGoesOn
       DEF SaveLocal, stripeSide, CheckoutsOK, CallPcs
<1>6. CASE CreateSchedule(w)
  <2> DEFINE st == [stripe[Target(w)] EXCEPT !.sched = "new"]
  <2>1. /\ st \in Subscription /\ st.status = stripe[s].status
        /\ st.cust = stripe[s].cust /\ st.invoice = stripe[s].invoice
    BY <1>d, <1>6 DEF CreateSchedule, CallPcs, Subscription
  <2>2. SetSub(s, st, {"updated"})
    BY <1>6 DEF CreateSchedule
  <2> HIDE DEF st
  <2>3. QED
    BY <1>6, <2>1, <2>2, CallOrder DEF CreateSchedule, CallPcs
<1>7. CASE ModifySchedule(w)
  <2> DEFINE st == [stripe[Target(w)] EXCEPT !.plan = job[w].seen.plan,
                      !.qty = job[w].seen.qty, !.sched = "pending",
                      !.next = job[w].want, !.cancel = FALSE]
  <2>1. /\ st \in Subscription /\ st.status = stripe[s].status
        /\ st.cust = stripe[s].cust /\ st.invoice = stripe[s].invoice
    BY <1>0, <1>d, <1>7 DEF ModifySchedule, CallPcs, Subscription, Job, Seen
  <2>2. SetSub(s, st, {"updated"})
    BY <1>7 DEF ModifySchedule
  <2> HIDE DEF st
  <2>3. QED
    BY <1>7, <2>1, <2>2, CallOrder DEF ModifySchedule, CallPcs
<1>8. CASE ReleaseSchedule(w)
  <2> DEFINE st == [stripe[Target(w)] EXCEPT !.sched = "none", !.next = NoTerms]
  <2>1. /\ st \in Subscription /\ st.status = stripe[s].status
        /\ st.cust = stripe[s].cust /\ st.invoice = stripe[s].invoice
    BY <1>d, <1>8, Fresh DEF ReleaseSchedule, CallPcs, Subscription
  <2>2. SetSub(s, st, {"released"})
    BY <1>8 DEF ReleaseSchedule
  <2> HIDE DEF st
  <2>3. QED
    BY <1>8, <2>1, <2>2, CallOrder DEF ReleaseSchedule, CallPcs
<1>9. CASE CancelAtPeriodEnd(w)
  <2> DEFINE st == [stripe[Target(w)] EXCEPT !.cancel = TRUE]
  <2>1. /\ st \in Subscription /\ st.status = stripe[s].status
        /\ st.cust = stripe[s].cust /\ st.invoice = stripe[s].invoice
    BY <1>d, <1>9 DEF CancelAtPeriodEnd, CallPcs, Subscription
  <2>2. SetSub(s, st, {"updated"})
    BY <1>9 DEF CancelAtPeriodEnd
  <2> HIDE DEF st
  <2>3. QED
    BY <1>9, <2>1, <2>2, CallOrder DEF CancelAtPeriodEnd, CallPcs
<1>10. CASE RequestFails(w)
  BY <1>0, <1>10, RequestGoesOn DEF RequestFails, stripeSide, CheckoutsOK
<1>11. CASE SaveAccount(w)
  <2>1. owner' = owner
    BY <1>11, <1>a DEF SaveAccount
  <2>2. QED
    BY <1>0, <1>11, <2>1, RequestGoesOn DEF SaveAccount, stripeSide, CheckoutsOK
<1>12. CASE SaveCancelTrial(w)
  <2>1. /\ owner'.sub = None /\ owner'.plan \in FreePlans /\ owner'.trial = "over"
    BY <1>0, <1>12 DEF SaveCancelTrial, DefaultPlan, Row, FreePlans
  <2>2. RowOK(owner', events, stripe)
    BY <1>c, <2>1, WriteDefault
  <2>3. QED
    BY <1>0, <1>12, <1>c, <2>2, RequestGoesOn
       DEF SaveCancelTrial, stripeSide, CheckoutsOK
<1>13. QED
  BY <1>1, <1>2, <1>3, <1>4, <1>5, <1>6, <1>7, <1>8, <1>9, <1>10, <1>11,
     <1>12 DEF Request

\* Requests that begin, seats that are activated, and crashes
LEMMA BeginOrder ==
    ASSUME OrderInv, NEW w \in Workers, Workers = {w}, NewRequest(w) \/ Crash(w)
    PROVE  InOrder'
<1>0. /\ job \in [Workers -> Job] /\ owner \in Row /\ CheckoutsOK
      /\ RowOK(owner, events, stripe)
  BY WorkerFacts, QueueFacts DEF OrderInv, InOrder
<1>1. ASSUME NEW pc \in {"update", "trial", "canceltrial"}, NEW t \in Terms,
             Begin(w, pc, t)
      PROVE  InOrder'
  <2> DEFINE j == [pc |-> pc, ev |-> NoEvent, row |-> owner, want |-> t,
                   seen |-> NotSeen]
  <2>1. j \in Job
    BY <1>0, Fresh DEF Job
  <2>2. job' = [job EXCEPT ![w] = j] /\ j.pc = pc /\ j.row = owner /\ j.ev = NoEvent
    BY <1>1 DEF Begin
  <2> HIDE DEF j
  <2>3. JobOK(j, owner, events, stripe)
    BY <2>2 DEF JobOK, Fits, NoEvent, CallPcs
  <2>4. QED
    BY <1>0, <1>1, <2>1, <2>2, <2>3, GoesOn DEF Begin, stripeSide, CheckoutsOK
<1>2. CASE AskPlan(w)
  <2>1. PICK t \in Wants : Begin(w, "update", t)
    BY <1>2 DEF AskPlan
  <2>2. t \in Terms
    BY WantsAssumption DEF Terms, AvailablePlans, AllPlans, ProPlans
  <2>3. QED
    BY <1>1, <2>1, <2>2
<1>3. CASE StartTrial(w) \/ CancelTrial(w)
  BY <1>1, <1>3, Fresh DEF StartTrial, CancelTrial
<1>4. CASE ActivateSeat(w)
  <2>1. /\ owner' \in Row /\ owner'.sub = owner.sub /\ owner'.cust = owner.cust
        /\ TermsOf(owner') = TermsOf(owner) /\ owner'.delinquent = owner.delinquent
        /\ owner'.trial = owner.trial
    BY <1>0, <1>4 DEF ActivateSeat, Row, TermsOf
  <2>2. RowOK(owner', events, stripe)
    BY <2>1, WriteOther
  <2>3. JobOK(job[w], owner', events, stripe) /\ job' = [job EXCEPT ![w] = job[w]]
    BY <1>0, <1>4, WorkerFacts, IdleOK DEF ActivateSeat
  <2>4. QED
    BY <1>0, <1>4, <2>2, <2>3, WorkerFacts, GoesOn
       DEF ActivateSeat, stripeSide, CheckoutsOK
<1>5. CASE Crash(w)
  BY <1>0, <1>5, RequestGoesOn DEF Crash, stripeSide, CheckoutsOK
<1>6. QED
  BY <1>2, <1>3, <1>4, <1>5 DEF NewRequest

\* Whatever Stripe does without the worker
LEMMA StripeOrder ==
    ASSUME OrderInv, NEW s \in Subs, Grows(s), owner' = owner, job' = job, CheckoutsOK'
    PROVE  InOrder'
  BY QueueGrows, RowGrows, JobGrows, WorkerFacts DEF OrderInv, InOrder

LEMMA StripeActsOrder ==
    ASSUME OrderInv, NEW s \in Subs, StripeActs(s)
    PROVE  InOrder'
<1>0. stripe[s] \in Subscription /\ CheckoutsOK /\ NoTerms \in Terms
  BY QueueFacts, Fresh DEF OrderInv, InOrder
<1>1. owner' = owner /\ job' = job
  BY StripeLeavesRow
<1>2. checkouts' = checkouts
  BY Zenon DEF StripeActs, BecomeActive, ExpireIncomplete, EndSubscription,
     SchedulePhase, ScheduleEnds, Invoice, StaffEdit
<1>3. CheckoutsOK'
  BY <1>0, <1>2 DEF CheckoutsOK
<1>4. CASE BecomeActive(s)
  <2> DEFINE st == [stripe[s] EXCEPT !.status = "active"]
  <2>1. /\ st \in Subscription /\ st.cust = stripe[s].cust /\ IsLive(st)
        /\ st.invoice = stripe[s].invoice /\ Live(s) /\ SetSub(s, st, {"updated"})
    BY <1>0, <1>4 DEF BecomeActive, Subscription, IsLive, Live
  <2> HIDE DEF st
  <2>2. QED
    BY <1>1, <1>3, <2>1, SubChanges, StripeOrder DEF EventKinds
<1>5. CASE ExpireIncomplete(s)
  <2> DEFINE st == [stripe[s] EXCEPT !.status = "incomplete_expired", !.sched = "none"]
  <2>1. /\ st \in Subscription /\ st.cust = stripe[s].cust /\ ~IsLive(st)
        /\ st.status = "incomplete_expired" /\ st.sched = "none"
        /\ st.invoice = stripe[s].invoice /\ Live(s) /\ SetSub(s, st, {"updated"})
    BY <1>0, <1>5 DEF ExpireIncomplete, Subscription, IsLive, Live
  <2> HIDE DEF st
  <2>2. QED
    BY <1>1, <1>3, <2>1, SubChanges, StripeOrder DEF EventKinds
<1>6. CASE EndSubscription(s)
  <2> DEFINE st == [stripe[s] EXCEPT !.status = "canceled", !.sched = "none"]
  <2>1. /\ st \in Subscription /\ st.cust = stripe[s].cust /\ ~IsLive(st)
        /\ st.sched = "none"
        /\ st.invoice = stripe[s].invoice /\ Live(s) /\ SetSub(s, st, {"deleted"})
    BY <1>0, <1>6 DEF EndSubscription, Subscription, IsLive, Live
  <2> HIDE DEF st
  <2>2. QED
    BY <1>1, <1>3, <2>1, SubChanges, StripeOrder DEF EventKinds
<1>7. CASE SchedulePhase(s)
  <2> DEFINE st == [stripe[s] EXCEPT !.plan = stripe[s].next.plan,
                      !.qty = stripe[s].next.qty, !.sched = "running",
                      !.next = NoTerms, !.period = @ + 1]
  <2>1. /\ stripe[s].next.plan \in AllPlans /\ stripe[s].next.qty \in Nat
        /\ stripe[s].period + 1 \in Nat
    BY <1>0 DEF Subscription, Terms
  <2>2. st \in Subscription
    BY <1>0, <2>1 DEF Subscription
  <2>3. /\ st.cust = stripe[s].cust /\ IsLive(st)
        /\ st.invoice = stripe[s].invoice /\ Live(s)
    BY <1>0, <1>7 DEF SchedulePhase, Subscription, IsLive, Live
  <2>4. SetSub(s, st, {"updated"})
    BY <1>7 DEF SchedulePhase
  <2> HIDE DEF st
  <2>5. QED
    BY <1>1, <1>3, <2>2, <2>3, <2>4, SubChanges, StripeOrder DEF EventKinds
<1>8. CASE ScheduleEnds(s)
  <2> DEFINE st == [stripe[s] EXCEPT !.sched = "none"]
  <2>1. /\ st \in Subscription /\ st.cust = stripe[s].cust /\ IsLive(st)
        /\ st.invoice = stripe[s].invoice /\ Live(s) /\ SetSub(s, st, {"released"})
    BY <1>0, <1>8 DEF ScheduleEnds, Subscription, IsLive, Live
  <2> HIDE DEF st
  <2>2. QED
    BY <1>1, <1>3, <2>1, SubChanges, StripeOrder DEF EventKinds
<1>9. CASE Invoice(s)
  <2>1. PICK result \in {"paid", "failed"} :
           SetSub(s, [stripe[s] EXCEPT !.invoice = result], {result})
    BY <1>9 DEF Invoice
  <2> DEFINE st == [stripe[s] EXCEPT !.invoice = result]
  <2>2. /\ st \in Subscription /\ st.cust = stripe[s].cust /\ IsLive(st)
        /\ st.invoice = result /\ TermsOf(st) = TermsOf(stripe[s])
        /\ st.sched = stripe[s].sched /\ Live(s) /\ SetSub(s, st, {result})
    BY <1>0, <1>9, <2>1 DEF Invoice, Subscription, IsLive, Live, TermsOf
  <2> HIDE DEF st
  <2>3. QED
    BY <1>1, <1>3, <2>2, SubChanges, StripeOrder DEF EventKinds
<1>10. CASE StaffEdit(s)
  <2>1. PICK p \in StaffPlans : SetSub(s, [stripe[s] EXCEPT !.plan = p], {"updated"})
    BY <1>10 DEF StaffEdit
  <2> DEFINE st == [stripe[s] EXCEPT !.plan = p]
  <2>2. /\ st \in Subscription /\ st.cust = stripe[s].cust /\ IsLive(st)
        /\ st.invoice = stripe[s].invoice /\ Live(s) /\ SetSub(s, st, {"updated"})
    BY <1>0, <1>10, <2>1, StaffAssumption DEF StaffEdit, Subscription, IsLive, Live
  <2> HIDE DEF st
  <2>3. QED
    BY <1>1, <1>3, <2>2, SubChanges, StripeOrder DEF EventKinds
<1>11. QED
  BY <1>4, <1>5, <1>6, <1>7, <1>8, <1>9, <1>10 DEF StripeActs

LEMMA CheckoutOrder ==
    ASSUME OrderInv, Overlap = FALSE, CompleteCheckout
    PROVE  InOrder'
<1>1. PICK c \in checkouts, s \in Subs :
        /\ stripe[s].status = "unborn"
        /\ \A x \in Subs : ~Live(x)
        /\ \E status \in IF c.trial THEN {"trialing"} ELSE {"active", "incomplete"} :
              SetSub(s, [Unborn EXCEPT !.status = status, !.plan = c.plan,
                          !.qty = c.qty,
                          !.cust = IF c.cust = None THEN s ELSE c.cust],
                     {"created", "checkout"})
        /\ checkouts' = checkouts \ {c}
  BY DEF CompleteCheckout
<1>2. PICK status \in {"trialing", "active", "incomplete"} :
        SetSub(s, [Unborn EXCEPT !.status = status, !.plan = c.plan, !.qty = c.qty,
                          !.cust = IF c.cust = None THEN s ELSE c.cust],
               {"created", "checkout"})
  BY <1>1
<1> DEFINE cust == IF c.cust = None THEN s ELSE c.cust
           st == [Unborn EXCEPT !.status = status, !.plan = c.plan,
                                !.qty = c.qty, !.cust = cust]
<1>3. /\ c \in Checkout /\ Unborn \in Subscription /\ Unborn.invoice = "none"
      /\ c.plan \in ProPlans
  BY Fresh DEF OrderInv, InOrder, Inv, TypeOK, CheckoutsOK, Unborn
<1>4. cust \in MaybeSub
  BY <1>3 DEF Checkout, MaybeSub
<1>5. SetSub(s, st, Births)
  BY <1>2 DEF Births
<1> HIDE DEF cust
<1>6. /\ st \in Subscription /\ IsLive(st) /\ st.invoice = "none" /\ st.plan \in ProPlans
  BY <1>3, <1>4 DEF Subscription, Checkout, IsLive
<1> HIDE DEF st
<1>7. Grows(s)
  BY <1>1, <1>5, <1>6, SubIsBorn
<1>8. CheckoutsOK'
  BY <1>1 DEF OrderInv, InOrder, CheckoutsOK
<1>9. QED
  BY <1>7, <1>8, CheckoutLeavesRow, StripeOrder

LEMMA LapseOrder ==
    ASSUME OrderInv, TrialLapses
    PROVE  InOrder'
<1>1. /\ owner \in Row /\ owner' = Lapse(owner) /\ owner.trial = "running"
      /\ UNCHANGED <<events, stripe, clock, checkouts>>
  BY QueueFacts DEF TrialLapses, stripeSide
<1>2. /\ owner' \in Row /\ owner'.sub = owner.sub /\ owner'.cust = owner.cust
      /\ TermsOf(owner') = TermsOf(owner) /\ owner'.delinquent = owner.delinquent
  BY <1>1 DEF Lapse, Row, TermsOf
<1>3. RowOK(owner', events, stripe)
  BY <1>1, <1>2, WriteOther
<1>4. ASSUME NEW w \in Workers PROVE JobOK(job'[w], owner', events, stripe)
  <2>1. job[w] \in Job /\ JobOK(job[w], owner, events, stripe)
    BY WorkerFacts
  <2>2. job'[w] = [job[w] EXCEPT !.row = Lapse(job[w].row)]
    BY DEF TrialLapses
  <2>3. /\ job'[w].pc = job[w].pc /\ job'[w].ev = job[w].ev /\ job'[w].want = job[w].want
        /\ job'[w].row = Lapse(job[w].row)
    BY <2>1, <2>2 DEF Job
  <2>4. QED
    BY <1>1, <1>2, <2>1, <2>3 DEF JobOK, Fits
<1>5. QED
  BY <1>1, <1>3, <1>4 DEF OrderInv, InOrder, CheckoutsOK

LEMMA OrderInit == Init => OrderInv
<1> SUFFICES ASSUME Init PROVE OrderInv
  OBVIOUS
<1>1. Inv /\ TrialKnown
  BY InvInit, Fresh DEF Init, Blank, TrialKnown, Holding, Idle
<1>2. /\ events = {} /\ checkouts = {} /\ owner = NewRow
      /\ \A x \in Subs : ~IsLive(stripe[x])
      /\ \A w \in Workers : job[w] = Idle
  BY DEF Init, Blank, Unborn, IsLive
<1>3. QueueOK(events, stripe, clock) /\ CheckoutsOK
  BY <1>2 DEF QueueOK, Stamped, FromBirthToEnd, LastIsTrue, CheckoutsOK
<1>4. RowOK(owner, events, stripe)
  BY <1>2, SubsAssumption DEF RowOK, Named, NewRow, FreePlans
<1>5. \A w \in Workers : JobOK(job[w], owner, events, stripe)
  BY <1>2, IdleOK
<1>6. QED
  BY <1>1, <1>3, <1>4, <1>5 DEF OrderInv, InOrder

LEMMA OrderStep ==
    ASSUME NEW w \in Workers, Workers = {w}, Ordered = TRUE, Overlap = FALSE
    PROVE  OrderInv /\ [Next]_vars => OrderInv'
<1> SUFFICES ASSUME OrderInv, [Next]_vars PROVE OrderInv'
  OBVIOUS
<1>1. Inv' /\ TrialKnown'
  BY TrialStep DEF OrderInv, TrialInv
<1>2. ASSUME Webhook(w) PROVE InOrder'
  BY <1>2, ReceiveOrder, DropOrder, SaveOrder DEF Webhook
<1>3. ASSUME UNCHANGED vars PROVE InOrder'
  BY <1>3 DEF vars, OrderInv, InOrder, CheckoutsOK
<1>4. InOrder'
  BY <1>2, <1>3, RequestOrder, BeginOrder, StripeActsOrder, CheckoutOrder, LapseOrder
     DEF Next
<1>5. QED
  BY <1>1, <1>4 DEF OrderInv

\* OrderInv in every reachable state, with one request at a time, notifications in
\* order and one live subscription.
LEMMA InOrderAlways ==
    ASSUME NEW w \in Workers, Workers = {w}, Ordered = TRUE, Overlap = FALSE
    PROVE  Spec => []OrderInv
<1>1. OrderInv /\ [Next]_vars => OrderInv'
  BY OrderStep
<1>2. QED
  BY <1>1, OrderInit, PTL DEF Spec

\* Then the customer of the row is always that of its subscription: webhooks never
\* lose their owner, whatever is repeated or cut short by a crash.
THEOREM CustomersMatch ==
    ASSUME NEW w \in Workers, Workers = {w}, Ordered = TRUE, Overlap = FALSE
    PROVE  Spec => []CustomerMatches
<1>1. OrderInv => CustomerMatches
  BY DEF OrderInv, InOrder, RowOK, CustomerMatches
<1>2. QED
  BY <1>1, InOrderAlways, PTL

\* A paid plan is always backed by a subscription id, unless a trial was had: the next
\* change of plan modifies that subscription and opens no second checkout.
THEOREM PaidNamesSubscription ==
    ASSUME NEW w \in Workers, Workers = {w}, Ordered = TRUE, Overlap = FALSE
    PROVE  Spec => []PaidPlanNamesSubscription
<1>1. OrderInv => PaidPlanNamesSubscription
  <2>1. \A p \in FreePlans : p \notin ProPlans
    BY DEF FreePlans, BasicPlan, ProPlans, PrPlans, SentryPlans, CloudPlans
  <2>2. QED
    BY <2>1 DEF OrderInv, InOrder, RowOK, PaidPlanNamesSubscription
<1>2. QED
  BY <1>1, InOrderAlways, PTL

\* When quiet the row names no ended subscription, and none at all leaves a free plan.
THEOREM ForgetsEnded ==
    ASSUME NEW w \in Workers, Workers = {w}, Ordered = TRUE, Overlap = FALSE
    PROVE  Spec => []QuietForgetsEnded
<1>1. OrderInv => QuietForgetsEnded
  <2> SUFFICES ASSUME OrderInv, Quiet
               PROVE  /\ owner.sub # None => Live(owner.sub)
                      /\ owner.sub = None /\ owner.trial # "over" =>
                            owner.plan \in FreePlans
    BY DEF QuietForgetsEnded
  <2>1. RowOK(owner, events, stripe) /\ events = {}
    BY DEF OrderInv, InOrder, Quiet
  <2>2. owner.sub # None => owner.sub \in Subs /\ Named(owner, events, owner.sub)
    BY QueueFacts DEF MaybeSub, Named
  <2>3. QED
    BY <2>1, <2>2 DEF RowOK, Live, IsLive
<1>2. QED
  BY <1>1, InOrderAlways, PTL

\* When quiet the row has the terms of its subscription, unless a schedule makes the
\* updated handler deaf: after immediate and scheduled changes, staff edits, repeated
\* notifications, and crashes between Stripe and the save.
THEOREM InSync ==
    ASSUME NEW w \in Workers, Workers = {w}, Ordered = TRUE, Overlap = FALSE
    PROVE  Spec => []QuietInSync
<1>1. OrderInv => QuietInSync
  <2> SUFFICES ASSUME OrderInv, Quiet, owner.sub # None
               PROVE  Agrees(owner, stripe[owner.sub])
    BY DEF QuietInSync, Agrees
  <2>1. RowOK(owner, events, stripe) /\ events = {}
    BY DEF OrderInv, InOrder, Quiet
  <2>2. owner.sub \in Subs /\ Named(owner, events, owner.sub)
    BY QueueFacts DEF MaybeSub, Named
  <2>3. QED
    BY <2>1, <2>2 DEF RowOK, ShownIn
<1>2. QED
  BY <1>1, InOrderAlways, PTL

\* When quiet the row is delinquent if, and only if, the last invoice failed.
THEOREM Delinquency ==
    ASSUME NEW w \in Workers, Workers = {w}, Ordered = TRUE, Overlap = FALSE
    PROVE  Spec => []QuietDelinquency
<1>1. OrderInv => QuietDelinquency
  BY DEF OrderInv, InOrder, RowOK, Quiet, QuietDelinquency
<1>2. QED
  BY <1>1, InOrderAlways, PTL

-----------------------------------------------------------------------------
(***************************************************************************)
(* The repositories of a customer who left, with one request at a time, no *)
(* crash and no trial that is cancelled, in any order of delivery.         *)
(***************************************************************************)

Announced(s, evs) == \E c \in evs : c.kind = "created" /\ c.sub = s

\* A worker holds the row's subscription, and leaves the notification of a creation
\* only after it has written the ids.
OffJob(j, o) ==
    /\ j.pc # "canceltrial"
    /\ j.pc \notin {"idle", "fetched"} => j.row.sub = o.sub
    /\ j.ev.kind = "created" => j.pc \in {"ids", "apply", "trial"}
    /\ j.pc \in {"apply", "trial"} /\ j.ev.kind = "created" => o.sub # None
    /\ j.pc = "ids" => j.ev.sub # None

\* Active repositories without a subscription: every one is still to be handled, or
\* the repositories are about to be switched off.
StillToCome(on, o, evs, str) ==
    on /\ o.sub = None =>
        \/ \A s \in Subs : str[s].status # "unborn" => Announced(s, evs)
        \/ \E w \in Workers : job[w].pc = "repos"

OffInv ==
    /\ Inv /\ CheckoutsOK
    /\ budget["crash"] = 0 /\ budget["trial"] = 0
    /\ \A e \in events : e.kind = "created" => e.plan \in ProPlans
    /\ \A w \in Workers : OffJob(job[w], owner)
    /\ StillToCome(reposOn, owner, events, stripe)

\* What a step of the one worker has to show
OffRest == /\ CheckoutsOK
           /\ budget["crash"] = 0 /\ budget["trial"] = 0
           /\ \A e \in events : e.kind = "created" => e.plan \in ProPlans
           /\ \A w \in Workers : OffJob(job[w], owner)
           /\ StillToCome(reposOn, owner, events, stripe)

LEMMA OffFacts ==
    ASSUME OffInv, NEW w \in Workers
    PROVE  /\ job \in [Workers -> Job] /\ job[w] \in Job /\ job[w].row \in Row
           /\ owner \in Row /\ OffJob(job[w], owner)
           /\ budget \in [BudgetKeys -> Nat]
           /\ job[w].want \in Terms /\ job[w].ev \in Event
           /\ \A e \in events : e.sub \in Subs /\ e.sub # None
  BY SubsAssumption DEF OffInv, Inv, TypeOK, Job, GoodEvent

\* A step that leaves Stripe alone: it names a subscription, or keeps the row's and
\* drops no notification of a creation, or is about to switch off the repositories,
\* or has.
LEMMA OffLocal ==
    ASSUME OffInv, NEW w \in Workers, Workers = {w}, OffJob(job'[w], owner'),
           events' \subseteq events, UNCHANGED stripeSide,
           budget'["crash"] = 0, budget'["trial"] = 0,
           \/ reposOn' = FALSE
           \/ job'[w].pc = "repos"
           \/ owner'.sub # None
           \/ /\ reposOn' = reposOn /\ owner'.sub = owner.sub /\ job[w].pc # "repos"
              /\ \A c \in events : c.kind = "created" => c \in events'
    PROVE  OffRest'
<1>1. CheckoutsOK'
  BY DEF OffInv, CheckoutsOK, stripeSide
<1>2. \A e \in events' : e.kind = "created" => e.plan \in ProPlans
  BY DEF OffInv
<1>3. StillToCome(reposOn, owner, events, stripe)'
  BY DEF OffInv, StillToCome, Announced, stripeSide
<1>4. QED
  BY <1>1, <1>2, <1>3 DEF OffRest

\* The end of a handler of a notification
LEMMA OffFinish ==
    ASSUME OffInv, NEW w \in Workers, Workers = {w}, Finish(w),
           job[w].pc \in {"paid", "repos", "apply", "trial", "customer"},
           owner'.sub = owner.sub, UNCHANGED stripeSide,
           IF job[w].pc = "repos" THEN reposOn' = FALSE ELSE reposOn' = reposOn
    PROVE  OffRest'
<1>1. OffJob(job[w], owner)
  BY OffFacts
<1>2. job'[w] = Idle
  BY OffFacts DEF Finish
<1>3. OffJob(job'[w], owner')
  BY <1>2 DEF OffJob, Idle, NoEvent
<1>4. /\ events' \subseteq events
      /\ \/ owner.sub # None
         \/ \A c \in events : c.kind = "created" => c \in events'
  BY <1>1 DEF Finish, OffJob
<1>5. budget'["crash"] = 0 /\ budget'["trial"] = 0
  BY OffFacts DEF OffInv, Finish, Spend, BudgetKeys
<1>6. QED
  BY <1>3, <1>4, <1>5, OffLocal

\* A worker that moves on with the row r
LEMMA OffGoto ==
    ASSUME OffInv, NEW w \in Workers, NEW next, NEW r, Goto(w, next, r)
    PROVE  /\ job'[w].pc = next /\ job'[w].row = r
           /\ job'[w].ev = job[w].ev
  BY OffFacts DEF Goto, Job

LEMMA OffWebhook ==
    ASSUME OffInv, NEW w \in Workers, Workers = {w}, Webhook(w)
    PROVE  OffRest'
<1>0. /\ job \in [Workers -> Job] /\ job[w] \in Job /\ job[w].row \in Row
      /\ owner \in Row /\ OffJob(job[w], owner)
      /\ \A e \in events : e.sub # None
      /\ job[w].want \in Terms /\ job[w].ev \in Event
  BY OffFacts
<1>a. budget["crash"] = 0 /\ budget["trial"] = 0
  BY DEF OffInv
<1>1. CASE Receive(w)
  <2>1. PICK e \in events :
           /\ e.kind \in {"paid", "deleted", "updated", "created", "checkout"}
           /\ job' = [job EXCEPT ![w] = [pc |-> FirstStep(e), ev |-> e,
                        row |-> owner, want |-> TermsOf(e), seen |-> NotSeen]]
    BY <1>1 DEF Receive
  <2>2. /\ job'[w].pc = FirstStep(e) /\ job'[w].ev = e /\ job'[w].row = owner
    BY <1>0, <2>1
  <2>3. /\ FirstStep(e) \in {"paid", "default", "apply", "ids", "customer"}
        /\ e.kind = "created" => FirstStep(e) = "ids"
    BY <2>1 DEF FirstStep
  <2>4. OffJob(job'[w], owner)
    BY <1>0, <2>2, <2>3 DEF OffJob
  <2>5. QED
    BY <1>1, <1>a, <2>4, OffLocal DEF Receive
<1>2. CASE ReceiveReleased(w)
  <2>1. PICK e \in events :
           /\ e.kind = "released"
           /\ job' = [job EXCEPT ![w] = [pc |-> "fetched", ev |-> e,
              row |-> NewRow, want |-> TermsOf(stripe[e.sub]), seen |-> NotSeen]]
    BY <1>2 DEF ReceiveReleased
  <2>2. job'[w].pc = "fetched" /\ job'[w].ev = e
    BY <1>0, <2>1
  <2>3. OffJob(job'[w], owner)
    BY <2>1, <2>2 DEF OffJob
  <2>4. QED
    BY <1>2, <1>a, <2>3, OffLocal DEF ReceiveReleased
<1>3. CASE LoadReleased(w)
  <2>1. /\ job'[w].pc = "apply" /\ job'[w].row = owner /\ job'[w].ev = job[w].ev
        /\ job[w].pc = "fetched"
    BY <1>3, OffGoto DEF LoadReleased
  <2>2. OffJob(job'[w], owner)
    BY <1>0, <2>1 DEF OffJob
  <2>3. QED
    BY <1>3, <1>a, <2>1, <2>2, OffLocal DEF LoadReleased
<1>4. CASE SavePaid(w) \/ SaveTrial(w) \/ SaveCustomer(w) \/ SwitchReposOff(w)
  <2>1. owner'.sub = owner.sub
    BY <1>0, <1>4 DEF SavePaid, SaveTrial, SaveCustomer, SwitchReposOff, OffJob, Row
  <2>2. QED
    BY <1>4, <2>1, OffFinish DEF SavePaid, SaveTrial, SaveCustomer, SwitchReposOff
<1>5. CASE SaveDefault(w)
  <2>1. /\ job'[w].pc = "repos" /\ job'[w].row = owner' /\ job'[w].ev = job[w].ev
        /\ job[w].pc = "default"
    BY <1>5, OffGoto DEF SaveDefault
  <2>2. OffJob(job'[w], owner')
    BY <1>0, <2>1 DEF OffJob
  <2>3. QED
    BY <1>5, <1>a, <2>1, <2>2, OffLocal DEF SaveDefault
<1>6. CASE SaveIds(w)
  <2>1. /\ job'[w].pc = "apply" /\ job'[w].row = owner' /\ job'[w].ev = job[w].ev
        /\ job[w].pc = "ids"
    BY <1>6, OffGoto DEF SaveIds
  <2>2. owner'.sub # None
    BY <1>0, <1>6 DEF SaveIds, OffJob, Row
  <2>3. OffJob(job'[w], owner')
    BY <2>1, <2>2 DEF OffJob
  <2>4. QED
    BY <1>6, <1>a, <2>1, <2>2, <2>3, OffLocal DEF SaveIds
<1>7. CASE SaveTerms(w)
  <2>1. owner'.sub = owner.sub /\ job[w].pc = "apply"
    BY <1>0, <1>7 DEF SaveTerms, WithTerms, OffJob, Row
  <2>2. CASE StartsTrial(job[w])
    <3>1. job'[w].pc = "trial" /\ job'[w].row = owner' /\ job'[w].ev = job[w].ev
      BY <1>7, <2>2, OffGoto DEF SaveTerms
    <3>2. OffJob(job'[w], owner')
      BY <1>0, <2>1, <3>1 DEF OffJob
    <3>3. QED
      BY <1>7, <1>a, <2>1, <2>2, <3>1, <3>2, OffLocal DEF SaveTerms
  <2>3. CASE ~StartsTrial(job[w])
    BY <1>7, <2>1, <2>3, OffFinish DEF SaveTerms
  <2>4. QED
    BY <2>2, <2>3
<1>8. CASE PaymentFailed(w) \/ IgnoreEvent(w) \/ GiveUp(w)
  <2>1. owner'.sub = owner.sub /\ job[w].pc = "idle" /\ job' = job /\ budget' = budget
        /\ reposOn' = reposOn /\ UNCHANGED stripeSide
    BY <1>0, <1>8 DEF PaymentFailed, IgnoreEvent, GiveUp, Row
  <2>2. PICK e \in events : events' = events \ {e} /\ e.kind # "created"
    BY <1>8 DEF PaymentFailed, IgnoreEvent, GiveUp, Ignored, OffInv
  <2>3. OffJob(job'[w], owner')
    BY <1>0, <2>1 DEF OffJob
  <2>4. QED
    BY <1>a, <2>1, <2>2, <2>3, OffLocal
<1>9. QED
  BY <1>1, <1>2, <1>3, <1>4, <1>5, <1>6, <1>7, <1>8 DEF Webhook

\* A subscription that exists changes, by the worker or without it.
LEMMA OffGrows ==
    ASSUME OffInv, NEW s \in Subs, stripe[s].status # "unborn", NEW st, NEW k,
           k # "created", SetSub(s, st, {k}),
           owner' = owner, reposOn' = reposOn, checkouts' = checkouts,
           \A w \in Workers : OffJob(job'[w], owner),
           \A w \in Workers : job[w].pc = "repos" => job'[w].pc = "repos",
           budget'["crash"] = 0, budget'["trial"] = 0
    PROVE  OffRest'
<1> DEFINE g == EventOf(k, s, st, clock)
<1>1. g.kind = k
  BY DEF EventOf
<1>2. /\ events' = events \cup {g}
      /\ \A x \in Subs \ {s} : stripe'[x] = stripe[x]
  BY DEF SetSub, OffInv, Inv, TypeOK
<1> HIDE DEF g
<1>3. \A e \in events' : e.kind = "created" => e \in events
  BY <1>1, <1>2
<1>4. StillToCome(reposOn, owner, events, stripe)'
  BY <1>2 DEF OffInv, StillToCome, Announced
<1>5. CheckoutsOK'
  BY DEF OffInv, CheckoutsOK
<1>6. QED
  BY <1>3, <1>4, <1>5 DEF OffRest, OffInv

LEMMA OffRequest ==
    ASSUME OffInv, NEW w \in Workers, Workers = {w}, Request(w)
    PROVE  OffRest'
<1>0. /\ job \in [Workers -> Job] /\ job[w] \in Job /\ job[w].row \in Row
      /\ owner \in Row /\ OffJob(job[w], owner) /\ GoodJob(job[w], bought)
  BY OffFacts DEF OffInv, Inv
<1>a. budget["crash"] = 0 /\ budget["trial"] = 0
  BY DEF OffInv
<1>1. CASE UpdateToDefault(w)
  <2>1. /\ job'[w].pc = "save" /\ job'[w].row = owner' /\ job'[w].ev = job[w].ev
        /\ job[w].pc = "update"
    BY <1>1, OffGoto DEF UpdateToDefault
  <2>2. owner'.sub = owner.sub
    BY <1>0, <1>1 DEF UpdateToDefault, Target, DefaultPlan, OffJob, Row
  <2>3. OffJob(job'[w], owner')
    BY <1>0, <2>1, <2>2 DEF OffJob
  <2>4. QED
    BY <1>1, <1>a, <2>1, <2>2, <2>3, OffLocal DEF UpdateToDefault
<1>2. CASE OpenCheckout(w)
  <2>1. /\ job'[w].pc = "save" /\ job'[w].row = job[w].row /\ job'[w].ev = job[w].ev
        /\ job[w].pc = "update" /\ owner' = owner
    BY <1>2, OffGoto DEF OpenCheckout
  <2>2. OffJob(job'[w], owner')
    BY <1>0, <2>1 DEF OffJob
  <2>3. CheckoutsOK'
    BY <1>2 DEF OpenCheckout, CheckoutsOK, OffInv
  <2>4. StillToCome(reposOn, owner, events, stripe)'
    BY <1>2, <2>1 DEF OpenCheckout, OffInv, StillToCome
  <2>5. QED
    BY <1>2, <1>a, <2>2, <2>3, <2>4 DEF OffRest, OffInv, OpenCheckout
<1>3. CASE ChooseCall(w)
  <2> DEFINE choice ==
         CASE job[w].want.plan \in FreePlans ->
                IF stripe[Target(w)].sched # "none" THEN "release" ELSE "cancel"
           [] job[w].want.plan \in ProPlans ->
                IF stripe[Target(w)].sched # "none" THEN "schedule"
                ELSE IF ChargesNow(job[w].row, job[w].want) THEN "modify"
                ELSE "newsched"
             sn == [plan |-> stripe[Target(w)].plan, qty |-> stripe[Target(w)].qty,
                    period |-> stripe[Target(w)].period]
  <2>1. choice \in CallPcs
    <3>1. \/ job[w].want.plan \in FreePlans /\ job[w].want.plan \notin ProPlans
          \/ job[w].want.plan \notin FreePlans /\ job[w].want.plan \in ProPlans
      BY <1>3 DEF ChooseCall, FreePlans, BasicPlan, ProPlans, PrPlans, SentryPlans,
         CloudPlans
    <3>2. QED
      BY <3>1 DEF CallPcs
  <2>2. job' = [job EXCEPT ![w].pc = choice, ![w].seen = sn]
    BY <1>3 DEF ChooseCall
  <2> HIDE DEF choice, sn
  <2>3. job'[w].pc = choice /\ job'[w].row = job[w].row /\ job'[w].ev = job[w].ev
    BY <1>0, <2>2 DEF Job
  <2>4. OffJob(job'[w], owner) /\ job[w].pc = "update"
    BY <1>0, <1>3, <2>1, <2>3 DEF OffJob, CallPcs, ChooseCall
  <2>5. QED
    BY <1>3, <1>a, <2>4, OffLocal DEF ChooseCall
<1>4. CASE ModifySubscription(w) \/ CreateSchedule(w) \/ ModifySchedule(w)
           \/ ReleaseSchedule(w) \/ CancelAtPeriodEnd(w)
  <2>1. /\ job[w].pc \in CallPcs /\ Live(Target(w))
        /\ \E pc \in {"local", "schedule", "cancel", "save"} : Goto(w, pc, job[w].row)
        /\ \E st, k : k # "created" /\ SetSub(Target(w), st, {k})
        /\ UNCHANGED <<owner, reposOn, checkouts, budget>>
    <3>1. CASE ModifySubscription(w)
      BY <3>1 DEF ModifySubscription, CallPcs
    <3>2. CASE CreateSchedule(w)
      BY <3>2 DEF CreateSchedule, CallPcs
    <3>3. CASE ModifySchedule(w)
      BY <3>3 DEF ModifySchedule, CallPcs
    <3>4. CASE ReleaseSchedule(w)
      BY <3>4 DEF ReleaseSchedule, CallPcs
    <3>5. CASE CancelAtPeriodEnd(w)
      BY <3>5 DEF CancelAtPeriodEnd, CallPcs
    <3>6. QED
      BY <1>4, <3>1, <3>2, <3>3, <3>4, <3>5
  <2>2. PICK pc \in {"local", "schedule", "cancel", "save"} : Goto(w, pc, job[w].row)
    BY <2>1
  <2>3. job'[w].pc = pc /\ job'[w].row = job[w].row /\ job'[w].ev = job[w].ev
    BY <2>2, OffGoto
  <2>4. OffJob(job'[w], owner) /\ job[w].pc # "repos"
    BY <1>0, <2>1, <2>3 DEF OffJob, CallPcs
  <2>5. Target(w) \in Subs /\ stripe[Target(w)].status # "unborn"
    BY <1>0, <2>1 DEF GoodJob, Target, Live
  <2>6. PICK st, k : k # "created" /\ SetSub(Target(w), st, {k})
    BY <2>1
  <2>7. QED
    BY <1>a, <2>1, <2>4, <2>5, <2>6, OffGrows
<1>5. CASE SaveLocal(w)
  <2>1. /\ job'[w].pc = "save" /\ job'[w].row = owner' /\ job'[w].ev = job[w].ev
        /\ job[w].pc = "local"
    BY <1>5, OffGoto DEF SaveLocal
  <2>2. owner'.sub = owner.sub
    BY <1>0, <1>5 DEF SaveLocal, WithTerms, OffJob, Row
  <2>3. OffJob(job'[w], owner')
    BY <1>0, <2>1, <2>2 DEF OffJob
  <2>4. QED
    BY <1>5, <1>a, <2>1, <2>2, <2>3, OffLocal DEF SaveLocal
<1>6. CASE RequestFails(w) \/ SaveAccount(w)
  <2>1. job'[w] = Idle /\ job[w].pc \in {"save"} \cup CallPcs
    BY <1>0, <1>6 DEF RequestFails, SaveAccount, CallPcs
  <2>2. owner'.sub = owner.sub
    BY <1>0, <1>6 DEF RequestFails, SaveAccount, OffJob
  <2>3. OffJob(job'[w], owner')
    BY <2>1 DEF OffJob, Idle, NoEvent
  <2>4. QED
    BY <1>6, <1>a, <2>1, <2>2, <2>3, OffLocal DEF RequestFails, SaveAccount, CallPcs
<1>7. CASE SaveCancelTrial(w)
  BY <1>0, <1>7 DEF SaveCancelTrial, OffJob
<1>8. QED
  BY <1>1, <1>2, <1>3, <1>4, <1>5, <1>6, <1>7 DEF Request

LEMMA OffBegin ==
    ASSUME OffInv, NEW w \in Workers, Workers = {w}, NewRequest(w) \/ Crash(w)
    PROVE  OffRest'
<1>0. /\ job \in [Workers -> Job] /\ owner \in Row /\ OffJob(job[w], owner)
      /\ budget \in [BudgetKeys -> Nat]
      /\ budget["crash"] = 0 /\ budget["trial"] = 0
  BY OffFacts DEF OffInv
<1>1. CASE AskPlan(w)
  <2>1. PICK t \in Wants : Begin(w, "update", t)
    BY <1>1 DEF AskPlan
  <2>2. /\ job'[w].pc = "update" /\ job'[w].row = owner /\ job'[w].ev = NoEvent
        /\ job[w].pc = "idle"
    BY <1>0, <2>1 DEF Begin
  <2>3. OffJob(job'[w], owner)
    BY <2>2 DEF OffJob, NoEvent
  <2>4. budget'["crash"] = 0 /\ budget'["trial"] = 0
    BY <1>0, <1>1 DEF AskPlan, Spend, BudgetKeys
  <2>5. QED
    BY <2>1, <2>2, <2>3, <2>4, OffLocal DEF Begin
<1>2. CASE ActivateSeat(w)
  <2>1. owner'.sub = owner.sub /\ job' = job /\ job[w].pc = "idle"
    BY <1>0, <1>2 DEF ActivateSeat, Row
  <2>2. OffJob(job'[w], owner')
    BY <1>0, <2>1 DEF OffJob
  <2>3. budget'["crash"] = 0 /\ budget'["trial"] = 0
    BY <1>0, <1>2 DEF ActivateSeat, Spend, BudgetKeys
  <2>4. QED
    BY <1>2, <2>1, <2>2, <2>3, OffLocal DEF ActivateSeat
<1>3. CASE StartTrial(w) \/ CancelTrial(w) \/ Crash(w)
  BY <1>0, <1>3 DEF StartTrial, CancelTrial, Crash, Spend
<1>4. QED
  BY <1>1, <1>2, <1>3 DEF NewRequest

LEMMA OffStripe ==
    ASSUME OffInv, NEW s \in Subs, StripeActs(s)
    PROVE  OffRest'
<1>0. /\ \A w \in Workers : OffJob(job[w], owner)
      /\ budget \in [BudgetKeys -> Nat]
      /\ budget["crash"] = 0 /\ budget["trial"] = 0
  BY DEF OffInv, Inv, TypeOK
<1>1. owner' = owner /\ job' = job
  BY StripeLeavesRow
<1>2. reposOn' = reposOn /\ checkouts' = checkouts
  BY Zenon DEF StripeActs, BecomeActive, ExpireIncomplete, EndSubscription,
     SchedulePhase, ScheduleEnds, Invoice, StaffEdit
<1>3. stripe[s].status # "unborn" /\ \E st, k : k # "created" /\ SetSub(s, st, {k})
  <2>1. CASE BecomeActive(s)
    BY <2>1 DEF BecomeActive
  <2>2. CASE ExpireIncomplete(s)
    BY <2>2 DEF ExpireIncomplete
  <2>3. CASE EndSubscription(s)
    BY <2>3 DEF EndSubscription
  <2>4. CASE SchedulePhase(s)
    BY <2>4 DEF SchedulePhase
  <2>5. CASE ScheduleEnds(s)
    BY <2>5 DEF ScheduleEnds, Live
  <2>6. CASE Invoice(s)
    BY <2>6 DEF Invoice
  <2>7. CASE StaffEdit(s)
    BY <2>7 DEF StaffEdit, Live
  <2>8. QED
    BY <2>1, <2>2, <2>3, <2>4, <2>5, <2>6, <2>7 DEF StripeActs
<1>4. budget'["crash"] = 0 /\ budget'["trial"] = 0
  <2>1. budget' = budget \/ \E k \in {"invoice", "staff"} : Spend(k)
    BY Zenon DEF StripeActs, BecomeActive, ExpireIncomplete, EndSubscription,
       SchedulePhase, ScheduleEnds, Invoice, StaffEdit
  <2>2. QED
    BY <1>0, <2>1 DEF Spend, BudgetKeys
<1>5. PICK st, k : k # "created" /\ SetSub(s, st, {k})
  BY <1>3
<1>6. QED
  BY <1>0, <1>1, <1>2, <1>3, <1>4, <1>5, OffGrows

LEMMA OffCheckout ==
    ASSUME OffInv, CompleteCheckout
    PROVE  OffRest'
<1>1. PICK c \in checkouts, s \in Subs : \E st :
        /\ st.plan = c.plan /\ SetSub(s, st, Births)
        /\ checkouts' = checkouts \ {c}
        /\ UNCHANGED <<owner, reposOn, job, budget>>
  <2>1. PICK c \in checkouts, s \in Subs, status \in {"trialing", "active", "incomplete"} :
        /\ SetSub(s, [Unborn EXCEPT !.status = status, !.plan = c.plan,
                        !.qty = c.qty,
                        !.cust = IF c.cust = None THEN s ELSE c.cust],
                  {"created", "checkout"})
        /\ checkouts' = checkouts \ {c}
        /\ UNCHANGED <<owner, reposOn, job, budget>>
    BY DEF CompleteCheckout
  <2> DEFINE st == [Unborn EXCEPT !.status = status, !.plan = c.plan, !.qty = c.qty,
                        !.cust = IF c.cust = None THEN s ELSE c.cust]
  <2>2. st.plan = c.plan
    BY DEF Unborn
  <2> HIDE DEF st
  <2>3. SetSub(s, st, Births)
    BY <2>1 DEF st, Births
  <2>4. QED
    BY <2>1, <2>2, <2>3
<1>2. PICK st : /\ st.plan = c.plan /\ SetSub(s, st, Births)
                /\ checkouts' = checkouts \ {c}
                /\ UNCHANGED <<owner, reposOn, job, budget>>
  BY <1>1
<1>3. c.plan \in ProPlans /\ CheckoutsOK'
  BY <1>2 DEF OffInv, CheckoutsOK
<1>4. ASSUME NEW k
      PROVE  /\ EventOf(k, s, st, clock).sub = s /\ EventOf(k, s, st, clock).kind = k
             /\ EventOf(k, s, st, clock).plan = st.plan
  BY DEF EventOf
<1>5. /\ events \subseteq events' /\ EventOf("created", s, st, clock) \in events'
      /\ \A g \in events' : g \in events \/ \E k \in Births : g = EventOf(k, s, st, clock)
      /\ \A x \in Subs \ {s} : stripe'[x] = stripe[x]
  BY <1>2 DEF SetSub, Births, OffInv, Inv, TypeOK
<1>6. \A g \in events' : g.kind = "created" => g.plan \in ProPlans
  BY <1>2, <1>3, <1>4, <1>5 DEF OffInv
<1>7. Announced(s, events')
  BY <1>4, <1>5 DEF Announced
<1>8. \A x : Announced(x, events) => Announced(x, events')
  BY <1>5 DEF Announced
<1>9. StillToCome(reposOn, owner, events, stripe)'
  BY <1>2, <1>5, <1>7, <1>8 DEF OffInv, StillToCome
<1>10. QED
  BY <1>2, <1>3, <1>6, <1>9 DEF OffRest, OffInv

LEMMA OffLapse ==
    ASSUME OffInv, TrialLapses
    PROVE  OffRest'
<1>1. owner'.sub = owner.sub
  BY DEF TrialLapses, Lapse, OffInv, Inv, TypeOK, Row
<1>2. ASSUME NEW w \in Workers
      PROVE  OffJob(job'[w], owner') /\ job'[w].pc = job[w].pc
  <2>1. job[w] \in Job /\ job[w].row \in Row /\ OffJob(job[w], owner)
    BY OffFacts
  <2>2. job'[w] = [job[w] EXCEPT !.row = Lapse(job[w].row)]
    BY DEF TrialLapses
  <2>3. /\ job'[w].pc = job[w].pc /\ job'[w].ev = job[w].ev
        /\ job'[w].row = Lapse(job[w].row)
    BY <2>1, <2>2 DEF Job
  <2>4. Lapse(job[w].row).sub = job[w].row.sub
    BY <2>1 DEF Lapse, Row
  <2>5. QED
    BY <1>1, <2>1, <2>3, <2>4 DEF OffJob
<1>3. StillToCome(reposOn, owner, events, stripe)'
  BY <1>1, <1>2 DEF OffInv, StillToCome, TrialLapses, stripeSide
<1>4. QED
  BY <1>2, <1>3 DEF OffRest, OffInv, TrialLapses, stripeSide, CheckoutsOK

\* When quiet, an organization that has had a subscription and has none any more has
\* no active repositories: both statements of the deleted handler take effect, however
\* notifications are ordered or repeated, provided that no handler dies between them
\* and that no trial is cancelled, which leaves a subscription without a row.
THEOREM ReposSwitchedOff ==
    ASSUME NEW w \in Workers, Workers = {w}, Budget["crash"] = 0, Budget["trial"] = 0
    PROVE  Spec => []QuietReposOff
<1>1. Init => OffInv
  <2> SUFFICES ASSUME Init PROVE OffInv
    OBVIOUS
  <2>1. /\ events = {} /\ checkouts = {} /\ budget = Budget
        /\ \A x \in Subs : stripe[x].status = "unborn"
        /\ \A v \in Workers : job[v] = Idle
    BY DEF Init, Blank, Unborn
  <2>2. \A v \in Workers : OffJob(job[v], owner)
    BY <2>1 DEF OffJob, Idle, NoEvent
  <2>3. QED
    BY <2>1, <2>2, InvInit DEF OffInv, CheckoutsOK, StillToCome
<1>2. OffInv /\ [Next]_vars => OffInv'
  <2> SUFFICES ASSUME OffInv, [Next]_vars PROVE OffInv'
    OBVIOUS
  <2>1. ASSUME UNCHANGED vars PROVE OffRest'
    BY <2>1 DEF vars, OffInv, OffRest, CheckoutsOK, StillToCome
  <2>2. OffRest'
    BY <2>1, OffWebhook, OffRequest, OffBegin, OffStripe, OffCheckout, OffLapse DEF Next
  <2>3. QED
    BY <2>2, InvStep DEF OffInv, OffRest
<1>3. OffInv => QuietReposOff
  BY DEF OffInv, StillToCome, Announced, Quiet, QuietReposOff
<1>4. QED
  BY <1>1, <1>2, <1>3, PTL DEF Spec
=============================================================================
