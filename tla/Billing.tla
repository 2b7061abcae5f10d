------------------------------- MODULE Billing -------------------------------
(***************************************************************************)
(* The billing row of one organization and its Stripe subscriptions.       *)
(*                                                                         *)
(* Codecov keeps a copy of what Stripe sold: the columns plan,             *)
(* plan_user_count, stripe_customer_id, stripe_subscription_id, delinquent *)
(* and the trial dates of an owners row.  Three kinds of actors write it:  *)
(* webhook handlers (billing/views.py), account-detail requests            *)
(* (api/internal/owner/serializers.py over services/billing.py) and the    *)
(* trial mutations (codecov_auth/commands/owner/interactors).  Each is run *)
(* by a worker that loads the row, perhaps calls Stripe, and saves the     *)
(* WHOLE row back, statement by statement, with no transaction around it.  *)
(*                                                                         *)
(* Stripe is external: its actions change subscriptions and put            *)
(* notifications, each with a snapshot of the subscription, into events.   *)
(***************************************************************************)
EXTENDS Naturals, FiniteSets, Plans

CONSTANTS
    Workers,      \* request threads that can serve this organization at once
    Subs,         \* Stripe subscription ids
    None,         \* SQL NULL
    Wants,        \* plan/quantity pairs an admin may ask for
    StaffPlans,   \* plans Codecov staff may set in the Stripe dashboard
    Ordered,      \* TRUE: notifications arrive in the order Stripe made them
    Overlap,      \* TRUE: a checkout may complete while a subscription is live
    Budget        \* how often each unbounded thing may happen

BudgetKeys == {"req", "trial", "seat", "invoice", "staff", "dup", "crash"}

ASSUME SubsAssumption   == None \notin Subs
ASSUME WantsAssumption  == Wants \subseteq [plan : AvailablePlans(TRUE), qty : Nat]
ASSUME StaffAssumption  == StaffPlans \subseteq AllPlans
ASSUME SwitchAssumption == Ordered \in BOOLEAN /\ Overlap \in BOOLEAN
ASSUME BudgetAssumption == Budget \in [BudgetKeys -> Nat]

VARIABLES
    owner,      \* the owners row
    reposOn,    \* some repository of the organization is active
    stripe,     \* Stripe's record of every subscription
    checkouts,  \* checkout sessions opened and not completed
    events,     \* notifications Stripe has not seen acknowledged
    clock,      \* stamp of the next notification
    job,        \* what each worker is doing
    bought,     \* auxiliary: every plan/quantity a subscription ever had
    budget      \* what is left of Budget

vars == <<owner, reposOn, stripe, checkouts, events, clock, job, bought, budget>>
stripeSide == <<stripe, checkouts, clock, bought>>

-----------------------------------------------------------------------------
(* Types *)

MaybeSub == Subs \cup {None}
Terms    == [plan : AllPlans, qty : Nat]

Row == [plan : AllPlans, qty : Nat, active : Nat, cust : MaybeSub,
        sub : MaybeSub, trial : {"none", "running", "over"},
        delinquent : BOOLEAN]

Subscription ==
    [status : {"unborn", "trialing", "incomplete", "active", "canceled",
               "incomplete_expired"},
     plan : AllPlans, qty : Nat, cust : MaybeSub, cancel : BOOLEAN,
     sched : {"none", "new", "pending", "running"}, next : Terms,
     period : Nat,
     invoice : {"none", "paid", "failed"}]

Checkout == [plan : AllPlans, qty : Nat, trial : BOOLEAN, cust : MaybeSub]

EventKinds == {"none", "created", "updated", "deleted", "released",
               "checkout", "paid", "failed"}
Event == [kind : EventKinds, sub : MaybeSub, cust : MaybeSub,
          plan : AllPlans, qty : Nat, status : {"trialing", "incomplete",
          "active", "canceled", "incomplete_expired", "unborn"},
          sched : BOOLEAN, n : Nat]

\* the parts of a retrieved subscription that are used after the retrieval
Seen == [plan : AllPlans, qty : Nat, period : Nat]

Job == [pc : {"idle", "paid", "default", "repos", "ids", "apply", "trial",
              "customer", "fetched", "update", "modify", "release",
              "cancel", "newsched", "schedule", "local", "canceltrial", "save"},
        ev : Event, row : Row, want : Terms, seen : Seen]

TypeOK ==
    /\ owner \in Row
    /\ reposOn \in BOOLEAN
    /\ stripe \in [Subs -> Subscription]
    /\ checkouts \subseteq Checkout
    /\ events \subseteq Event
    /\ clock \in Nat
    /\ job \in [Workers -> Job]
    /\ bought \subseteq Terms
    /\ budget \in [BudgetKeys -> Nat]

NewRow == [plan |-> BasicPlan, qty |-> 1, active |-> 0, cust |-> None,
           sub |-> None, trial |-> "none", delinquent |-> FALSE]
NoTerms == [plan |-> BasicPlan, qty |-> 0]
NoEvent == [kind |-> "none", sub |-> None, cust |-> None, plan |-> BasicPlan,
            qty |-> 0, status |-> "unborn", sched |-> FALSE, n |-> 0]
NotSeen == [plan |-> BasicPlan, qty |-> 0, period |-> 0]
Idle == [pc |-> "idle", ev |-> NoEvent, row |-> NewRow, want |-> NoTerms,
         seen |-> NotSeen]
Unborn == [status |-> "unborn", plan |-> BasicPlan, qty |-> 0, cust |-> None,
           cancel |-> FALSE, sched |-> "none", next |-> NoTerms,
           period |-> 0, invoice |-> "none"]

Blank ==
    /\ owner = NewRow
    /\ reposOn = TRUE
    /\ stripe = [s \in Subs |-> Unborn]
    /\ checkouts = {}
    /\ events = {}
    /\ clock = 0
    /\ job = [w \in Workers |-> Idle]
    /\ bought = {}

Init == Blank /\ budget = Budget

TermsOf(x) == [plan |-> x.plan, qty |-> x.qty]
Live(s) == stripe[s].status \in {"trialing", "incomplete", "active"}
Spend(k) == budget[k] > 0 /\ budget' = [budget EXCEPT ![k] = @ - 1]

-----------------------------------------------------------------------------
(* What the handlers do to a loaded row *)

\* bugs: the plan is cleared rather than set; a column is forgotten
DefaultPlanNull(r) == [r EXCEPT !.plan = None, !.active = 0, !.qty = 1, !.sub = None]
DefaultPlanKeepsSub(r) == [r EXCEPT !.plan = BasicPlan, !.active = 0, !.qty = 1]
DefaultPlanKeepsPlan(r) == [r EXCEPT !.active = 0, !.qty = 1, !.sub = None]

\* PlanService.set_default_plan_data
DefaultPlan(r) == [r EXCEPT !.plan = BasicPlan, !.active = 0, !.qty = 1,
                            !.sub = None]

\* PlanService.update_plan
WithTerms(r, t) == [r EXCEPT !.plan = t.plan, !.qty = t.qty]

\* PlanSerializer.validate
ValidPlan(r, t) ==
    t.plan \in ProPlans => /\ t.qty > 1
                           /\ t.qty >= r.active
                           /\ t # TermsOf(r)

Goto(w, next, r) == job' = [job EXCEPT ![w].pc = next, ![w].row = r]

\* The handler returned: 2xx for a notification, which Stripe then forgets,
\* or, when the answer is lost, sends once more.
Finish(w) ==
    /\ job' = [job EXCEPT ![w] = Idle]
    /\ \/ events' = events \ {job[w].ev} /\ UNCHANGED budget
       \/ job[w].ev \in events /\ Spend("dup") /\ UNCHANGED events

-----------------------------------------------------------------------------
(* Webhooks: delivery and lookup *)

Deliverable(e) ==
    /\ e \in events
    /\ \A w \in Workers : job[w].ev # e
    /\ Ordered => \A f \in events : e.n <= f.n

\* Owner.objects.get(stripe_customer_id=..., stripe_subscription_id=...)
Found(e) == owner.cust = e.cust /\ owner.sub = e.sub

\* bug: every update is left to the request that caused it
IgnoredUpdate(e) ==
    \/ e.kind = "updated" /\ Found(e) /\ e.status # "incomplete_expired"
    \/ e.kind = "created" /\ e.plan \notin ProPlans

\* customer.subscription.updated: nothing to do while a schedule is attached,
\* nor for a plan that is not a paid one.
Ignored(e) ==
    /\ e.kind \in {"created", "updated"}
    /\ e.kind = "updated" => Found(e)
    /\ \/ e.kind = "updated" /\ e.sched
       \/ e.status # "incomplete_expired" /\ e.plan \notin ProPlans

FirstStep(e) ==
    CASE e.kind = "paid" -> "paid"
      [] e.kind = "deleted" -> "default"
      [] e.kind = "updated" -> IF e.status = "incomplete_expired"
                               THEN "default" ELSE "apply"
      [] e.kind = "created" -> "ids"
      [] e.kind = "checkout" -> "customer"

\* A handler that finds its owner: the row is read here and saved later.
Receive(w) ==
    /\ job[w].pc = "idle"
    /\ \E e \in events :
          /\ Deliverable(e) /\ ~Ignored(e)
          /\ \/ e.kind \in {"paid", "deleted", "updated"} /\ Found(e)
             \/ e.kind \in {"created", "checkout"}
          /\ job' = [job EXCEPT ![w] = [pc |-> FirstStep(e), ev |-> e,
                                        row |-> owner, want |-> TermsOf(e),
                                        seen |-> NotSeen]]
    /\ UNCHANGED <<owner, reposOn, events, budget, stripeSide>>

\* subscription_schedule_released first asks Stripe for the subscription...
ReceiveReleased(w) ==
    /\ job[w].pc = "idle"
    /\ \E e \in events :
          /\ Deliverable(e) /\ e.kind = "released"
          /\ job' = [job EXCEPT ![w] = [pc |-> "fetched", ev |-> e,
                          row |-> NewRow, want |-> TermsOf(stripe[e.sub]),
                          seen |-> NotSeen]]
    /\ UNCHANGED <<owner, reposOn, events, budget, stripeSide>>

\* ... and then loads the owner by the id in the metadata.
LoadReleased(w) ==
    /\ job[w].pc = "fetched"
    /\ Goto(w, "apply", owner)
    /\ UNCHANGED <<owner, reposOn, events, budget, stripeSide>>

\* invoice_payment_failed is one UPDATE ... WHERE: no row is loaded.
PaymentFailed(w) ==
    /\ job[w].pc = "idle"
    /\ \E e \in events :
          /\ Deliverable(e) /\ e.kind = "failed"
          /\ owner' = IF Found(e) THEN [owner EXCEPT !.delinquent = TRUE]
                                  ELSE owner
          /\ events' = events \ {e}
          /\ UNCHANGED <<reposOn, job, budget, stripeSide>>

IgnoreEvent(w) ==
    /\ job[w].pc = "idle"
    /\ \E e \in events :
          /\ Deliverable(e) /\ Ignored(e)
          /\ events' = events \ {e}
          /\ UNCHANGED <<owner, reposOn, job, budget, stripeSide>>

\* Owner.DoesNotExist: a 500, which Stripe retries for days, long after the
\* creation of the subscription has been delivered, and then gives up.
GiveUp(w) ==
    /\ job[w].pc = "idle"
    /\ \E e \in events :
          /\ Deliverable(e)
          /\ e.kind \in {"paid", "deleted", "updated"} /\ ~Found(e)
          /\ \A f \in events : f.kind = "created" => f.sub # e.sub
          /\ events' = events \ {e}
          /\ UNCHANGED <<owner, reposOn, job, budget, stripeSide>>

-----------------------------------------------------------------------------
(* Webhooks: the saves *)

\* bug: a paid invoice does not clear the flag
SavePaidKeepsFlag(w) ==
    /\ job[w].pc = "paid"
    /\ owner' = job[w].row
    /\ Finish(w)
    /\ UNCHANGED <<reposOn, stripeSide>>

\* invoice_payment_succeeded
SavePaid(w) ==
    /\ job[w].pc = "paid"
    /\ owner' = [job[w].row EXCEPT !.delinquent = FALSE]
    /\ Finish(w)
    /\ UNCHANGED <<reposOn, stripeSide>>

\* customer_subscription_deleted, and _updated with incomplete_expired
SaveDefault(w) ==
    /\ job[w].pc = "default"
    /\ owner' = DefaultPlan(job[w].row)
    /\ Goto(w, "repos", owner')
    /\ UNCHANGED <<reposOn, events, budget, stripeSide>>

\* bug: the repositories are forgotten
KeepReposOn(w) ==
    /\ job[w].pc = "repos"
    /\ Finish(w)
    /\ UNCHANGED <<owner, reposOn, stripeSide>>

SwitchReposOff(w) ==
    /\ job[w].pc = "repos"
    /\ reposOn' = FALSE
    /\ Finish(w)
    /\ UNCHANGED <<owner, stripeSide>>

\* bug: the customer is left to checkout_session_completed
SaveSubOnly(w) ==
    /\ job[w].pc = "ids"
    /\ owner' = [job[w].row EXCEPT !.sub = job[w].ev.sub]
    /\ Goto(w, "apply", owner')
    /\ UNCHANGED <<reposOn, events, budget, stripeSide>>

\* customer_subscription_created: the ids, then the plan, then the trial
SaveIds(w) ==
    /\ job[w].pc = "ids"
    /\ owner' = [job[w].row EXCEPT !.sub = job[w].ev.sub,
                                   !.cust = job[w].ev.cust]
    /\ Goto(w, "apply", owner')
    /\ UNCHANGED <<reposOn, events, budget, stripeSide>>

\* bug: the trial status is not asked
StartsTrialAgain(j) == j.ev.kind = "created" /\ j.ev.status = "trialing"

StartsTrial(j) ==
    j.ev.kind = "created" /\ j.ev.status = "trialing" /\ j.row.trial = "none"

SaveTerms(w) ==
    /\ job[w].pc = "apply"
    /\ owner' = WithTerms(job[w].row, job[w].want)
    /\ IF StartsTrial(job[w])
       THEN Goto(w, "trial", owner') /\ UNCHANGED <<events, budget>>
       ELSE Finish(w)
    /\ UNCHANGED <<reposOn, stripeSide>>

\* PlanService.start_trial, from the webhook or from the mutation
SaveTrial(w) ==
    /\ job[w].pc = "trial"
    /\ owner' = [job[w].row EXCEPT !.trial = "running"]
    /\ Finish(w)
    /\ UNCHANGED <<reposOn, stripeSide>>

\* checkout_session_completed
SaveCustomer(w) ==
    /\ job[w].pc = "customer"
    /\ owner' = [job[w].row EXCEPT !.cust = job[w].ev.cust]
    /\ Finish(w)
    /\ UNCHANGED <<reposOn, stripeSide>>

-----------------------------------------------------------------------------
(* Requests: PUT .../account-details and the trial mutations *)

Begin(w, pc, t) ==
    /\ job[w].pc = "idle"
    /\ job' = [job EXCEPT ![w] = [pc |-> pc, ev |-> NoEvent, row |-> owner,
                                  want |-> t, seen |-> NotSeen]]
    /\ UNCHANGED <<owner, reposOn, events, stripeSide>>

AskPlan(w) ==
    /\ Spend("req")
    /\ \E t \in Wants : ValidPlan(owner, t) /\ Begin(w, "update", t)

\* StripeService calls go to the subscription named by the loaded row.
Target(w) == job[w].row.sub

\* BillingService.update_plan: a free plan without a subscription
UpdateToDefault(w) ==
    /\ job[w].pc = "update"
    /\ job[w].want.plan \in FreePlans /\ Target(w) = None
    /\ owner' = DefaultPlan(job[w].row)
    /\ Goto(w, "save", owner')
    /\ UNCHANGED <<reposOn, events, budget, stripeSide>>

\* BillingService.update_plan: a paid plan without a subscription
OpenCheckout(w) ==
    /\ job[w].pc = "update"
    /\ job[w].want.plan \in ProPlans /\ Target(w) = None
    /\ checkouts' = checkouts \cup
          {[plan |-> job[w].want.plan, qty |-> job[w].want.qty,
            trial |-> OffersTrial(job[w].want.plan) /\ job[w].row.trial = "none",
            cust |-> job[w].row.cust]}
    /\ Goto(w, "save", job[w].row)
    /\ UNCHANGED <<owner, reposOn, events, budget, stripe, clock, bought>>

\* delete_subscription and modify_subscription retrieve the subscription and
\* choose; modify_subscription compares the request with the LOADED row.
ChooseCall(w) ==
    LET j == job[w]
        scheduled == stripe[Target(w)].sched # "none"
        call == CASE j.want.plan \in FreePlans ->
                       IF scheduled THEN "release" ELSE "cancel"
                  [] j.want.plan \in ProPlans ->
                       IF scheduled THEN "schedule"
                       ELSE IF ChargesNow(j.row, j.want) THEN "modify"
                       ELSE "newsched"
    IN
    /\ j.pc = "update" /\ Target(w) # None
    /\ j.want.plan \in FreePlans \cup ProPlans
    /\ job' = [job EXCEPT ![w].pc = call,
                          ![w].seen = [plan |-> stripe[Target(w)].plan,
                                       qty |-> stripe[Target(w)].qty,
                                       period |-> stripe[Target(w)].period]]
    /\ UNCHANGED <<owner, reposOn, events, budget, stripeSide>>

\* --- calls that change Stripe -------------------------------------------

EventOf(kind, s, st, n) ==
    [kind |-> kind, sub |-> s, cust |-> st.cust, plan |-> st.plan,
     qty |-> st.qty, status |-> st.status, sched |-> st.sched # "none",
     n |-> n]

\* Stripe's subscription s becomes st and the named notifications go out.
SetSub(s, st, kinds) ==
    /\ stripe' = [stripe EXCEPT ![s] = st]
    /\ events' = events \cup {EventOf(k, s, st, clock) : k \in kinds}
    /\ clock' = clock + 1
    /\ bought' = bought \cup {TermsOf(st)}

\* Subscription.modify(cancel_at_period_end=False, items=..., proration)
ModifySubscription(w) ==
    LET s == Target(w)  j == job[w] IN
    /\ j.pc = "modify" /\ Live(s) /\ stripe[s].sched = "none"
    /\ SetSub(s, [stripe[s] EXCEPT !.plan = j.want.plan, !.qty = j.want.qty,
                                   !.cancel = FALSE], {"updated"})
    /\ Goto(w, "local", j.row)
    /\ UNCHANGED <<owner, reposOn, checkouts, budget>>

\* ... followed by PlanService.update_plan on the loaded row
SaveLocal(w) ==
    /\ job[w].pc = "local"
    /\ owner' = WithTerms(job[w].row, job[w].want)
    /\ Goto(w, "save", owner')
    /\ UNCHANGED <<reposOn, events, budget, stripeSide>>

\* SubscriptionSchedule.create(from_subscription=...) when there is none
CreateSchedule(w) ==
    LET s == Target(w) IN
    /\ job[w].pc = "newsched" /\ Live(s) /\ stripe[s].sched = "none"
    /\ SetSub(s, [stripe[s] EXCEPT !.sched = "new"], {"updated"})
    /\ Goto(w, "schedule", job[w].row)
    /\ UNCHANGED <<owner, reposOn, checkouts, budget>>

\* bug: a scheduled change is granted in the row at once
ModifyScheduleAndGrant(w) ==
    LET s == Target(w)  j == job[w] IN
    /\ j.pc = "schedule" /\ Live(s) /\ stripe[s].sched # "none"
    /\ j.seen.period = stripe[s].period /\ j.seen.plan \in PricedPlans
    /\ SetSub(s, [stripe[s] EXCEPT !.plan = j.seen.plan, !.qty = j.seen.qty,
                                   !.sched = "pending", !.next = j.want,
                                   !.cancel = FALSE], {"updated"})
    /\ Goto(w, "local", j.row)
    /\ UNCHANGED <<owner, reposOn, checkouts, budget>>

\* SubscriptionSchedule.modify: the terms RETRIEVED EARLIER until the period
\* ends, the wanted ones after it, then end_behavior="release"
ModifySchedule(w) ==
    LET s == Target(w)  j == job[w] IN
    /\ j.pc = "schedule" /\ Live(s) /\ stripe[s].sched # "none"
    /\ j.seen.period = stripe[s].period /\ j.seen.plan \in PricedPlans
    /\ SetSub(s, [stripe[s] EXCEPT !.plan = j.seen.plan, !.qty = j.seen.qty,
                                   !.sched = "pending", !.next = j.want,
                                   !.cancel = FALSE], {"updated"})
    /\ Goto(w, "save", j.row)
    /\ UNCHANGED <<owner, reposOn, checkouts, budget>>

\* delete_subscription: SubscriptionSchedule.release ...
ReleaseSchedule(w) ==
    LET s == Target(w) IN
    /\ job[w].pc = "release" /\ Live(s) /\ stripe[s].sched # "none"
    /\ SetSub(s, [stripe[s] EXCEPT !.sched = "none", !.next = NoTerms],
              {"released"})
    /\ Goto(w, "cancel", job[w].row)
    /\ UNCHANGED <<owner, reposOn, checkouts, budget>>

\* ... and Subscription.modify(cancel_at_period_end=True)
CancelAtPeriodEnd(w) ==
    LET s == Target(w) IN
    /\ job[w].pc = "cancel" /\ Live(s) /\ stripe[s].sched = "none"
    /\ SetSub(s, [stripe[s] EXCEPT !.cancel = TRUE], {"updated"})
    /\ Goto(w, "save", job[w].row)
    /\ UNCHANGED <<owner, reposOn, checkouts, budget>>

\* Stripe refuses to change a subscription that has ended, to change its items
\* or its cancellation behind the back of a schedule, to schedule it twice, to
\* touch a schedule it has let go, and to plan a phase of a past period; and
\* STRIPE_PLAN_IDS raises KeyError for the plan of a legacy subscription, which
\* was only just given its schedule.
RequestFails(w) ==
    LET s == Target(w) IN
    /\ \/ /\ job[w].pc \in {"modify", "newsched", "cancel"}
          /\ ~Live(s) \/ stripe[s].sched # "none"
       \/ /\ job[w].pc \in {"schedule", "release"}
          /\ ~Live(s) \/ stripe[s].sched = "none"
       \/ /\ job[w].pc = "schedule"
          /\ \/ job[w].seen.period # stripe[s].period
             \/ job[w].seen.plan \notin PricedPlans
    /\ job' = [job EXCEPT ![w] = Idle]
    /\ UNCHANGED <<owner, reposOn, events, budget, stripeSide>>

\* AccountDetailsSerializer.update ends in ModelSerializer.update: the loaded
\* row is saved once more.
SaveAccount(w) ==
    /\ job[w].pc = "save"
    /\ owner' = job[w].row
    /\ job' = [job EXCEPT ![w] = Idle]
    /\ UNCHANGED <<reposOn, events, budget, stripeSide>>

StartTrial(w) ==
    /\ Spend("trial") /\ owner.trial = "none"
    /\ Begin(w, "trial", NoTerms)

CancelTrial(w) ==
    /\ Spend("trial") /\ owner.trial = "running"
    /\ Begin(w, "canceltrial", NoTerms)

SaveCancelTrial(w) ==
    /\ job[w].pc = "canceltrial"
    /\ owner' = DefaultPlan([job[w].row EXCEPT !.trial = "over"])
    /\ job' = [job EXCEPT ![w] = Idle]
    /\ UNCHANGED <<reposOn, events, budget, stripeSide>>

-----------------------------------------------------------------------------
(* The rest of the world *)

\* The process dies, or a call to Postgres or Stripe raises: the request ends
\* where it stands and a notification being handled stays unacknowledged.
Crash(w) ==
    /\ job[w].pc # "idle"
    /\ Spend("crash")
    /\ job' = [job EXCEPT ![w] = Idle]
    /\ UNCHANGED <<owner, reposOn, events, stripeSide>>

\* fourteen days pass (trial_status is derived from the dates in every copy)
Lapse(r) == IF r.trial = "running" THEN [r EXCEPT !.trial = "over"] ELSE r
TrialLapses ==
    /\ owner.trial = "running"
    /\ owner' = Lapse(owner)
    /\ job' = [w \in Workers |-> [job[w] EXCEPT !.row = Lapse(@)]]
    /\ UNCHANGED <<reposOn, events, budget, stripeSide>>

\* Owner.can_activate_user and activate_user, as the seats module details
ActivateSeat(w) ==
    /\ job[w].pc = "idle"
    /\ owner.active < owner.qty
    /\ Spend("seat")
    /\ owner' = [owner EXCEPT !.active = @ + 1]
    /\ UNCHANGED <<reposOn, events, job, stripeSide>>

\* The customer pays in Stripe Checkout: a subscription is born.
CompleteCheckout ==
    \E c \in checkouts, s \in Subs :
       /\ stripe[s].status = "unborn"
       /\ Overlap \/ \A x \in Subs : ~Live(x)
       /\ \E status \in IF c.trial THEN {"trialing"} ELSE {"active", "incomplete"} :
             SetSub(s, [Unborn EXCEPT !.status = status, !.plan = c.plan,
                          !.qty = c.qty,
                          !.cust = IF c.cust = None THEN s ELSE c.cust],
                    {"created", "checkout"})
       /\ checkouts' = checkouts \ {c}
       /\ UNCHANGED <<owner, reposOn, job, budget>>

\* The first payment goes through after all, or a trial turns into a paid term.
BecomeActive(s) ==
    /\ stripe[s].status \in {"incomplete", "trialing"}
    /\ SetSub(s, [stripe[s] EXCEPT !.status = "active"], {"updated"})
    /\ UNCHANGED <<owner, reposOn, job, checkouts, budget>>

\* A first payment that never arrives.
ExpireIncomplete(s) ==
    /\ stripe[s].status = "incomplete"
    /\ SetSub(s, [stripe[s] EXCEPT !.status = "incomplete_expired",
                                   !.sched = "none"], {"updated"})
    /\ UNCHANGED <<owner, reposOn, job, checkouts, budget>>

\* A trial without a payment method, or a term that was not to be renewed, ends.
EndSubscription(s) ==
    /\ \/ stripe[s].status = "trialing"
       \/ stripe[s].status = "active" /\ stripe[s].cancel
    /\ SetSub(s, [stripe[s] EXCEPT !.status = "canceled", !.sched = "none"],
              {"deleted"})
    /\ UNCHANGED <<owner, reposOn, job, checkouts, budget>>

\* The period ends under a schedule: its second phase begins ...
SchedulePhase(s) ==
    /\ stripe[s].status = "active" /\ stripe[s].sched = "pending"
    /\ SetSub(s, [stripe[s] EXCEPT !.plan = stripe[s].next.plan,
                                   !.qty = stripe[s].next.qty,
                                   !.sched = "running", !.next = NoTerms,
                                   !.period = @ + 1],
              {"updated"})
    /\ UNCHANGED <<owner, reposOn, job, checkouts, budget>>

\* ... and, SCHEDULE_RELEASE_OFFSET seconds later, the schedule lets go; so
\* does a schedule that was created and never given a second phase.
ScheduleEnds(s) ==
    /\ Live(s) /\ stripe[s].sched \in {"new", "running"}
    /\ SetSub(s, [stripe[s] EXCEPT !.sched = "none"], {"released"})
    /\ UNCHANGED <<owner, reposOn, job, checkouts, budget>>

\* An invoice of a live subscription is paid or fails.
Invoice(s) ==
    /\ stripe[s].status = "active"
    /\ Spend("invoice")
    /\ \E result \in {"paid", "failed"} :
          SetSub(s, [stripe[s] EXCEPT !.invoice = result], {result})
    /\ UNCHANGED <<owner, reposOn, job, checkouts>>

\* Codecov staff edit a subscription in the Stripe dashboard.
StaffEdit(s) ==
    /\ Live(s) /\ stripe[s].sched = "none"
    /\ Spend("staff")
    /\ \E p \in StaffPlans :
          SetSub(s, [stripe[s] EXCEPT !.plan = p], {"updated"})
    /\ UNCHANGED <<owner, reposOn, job, checkouts>>

-----------------------------------------------------------------------------
Webhook(w) == \/ Receive(w) \/ ReceiveReleased(w) \/ LoadReleased(w)
              \/ SavePaid(w) \/ SaveDefault(w) \/ SwitchReposOff(w)
              \/ SaveIds(w) \/ SaveTerms(w) \/ SaveTrial(w) \/ SaveCustomer(w)
              \/ PaymentFailed(w) \/ IgnoreEvent(w) \/ GiveUp(w)

Request(w) == \/ UpdateToDefault(w) \/ OpenCheckout(w)
              \/ ChooseCall(w) \/ ModifySubscription(w) \/ SaveLocal(w)
              \/ CreateSchedule(w) \/ ModifySchedule(w) \/ ReleaseSchedule(w)
              \/ CancelAtPeriodEnd(w) \/ RequestFails(w) \/ SaveAccount(w)
              \/ SaveCancelTrial(w)

NewRequest(w) == AskPlan(w) \/ StartTrial(w) \/ CancelTrial(w) \/ ActivateSeat(w)

StripeActs(s) == \/ BecomeActive(s) \/ ExpireIncomplete(s) \/ EndSubscription(s)
                 \/ SchedulePhase(s) \/ ScheduleEnds(s) \/ Invoice(s)
                 \/ StaffEdit(s)

Next == \/ \E w \in Workers : Webhook(w) \/ Request(w) \/ NewRequest(w) \/ Crash(w)
        \/ \E s \in Subs : StripeActs(s)
        \/ CompleteCheckout \/ TrialLapses

Spec == Init /\ [][Next]_vars

\* gunicorn keeps serving what it accepted and Stripe keeps retrying; nothing
\* is assumed of customers, admins, time or crashes.
FairSpec == /\ Spec
            /\ \A w \in Workers : WF_vars(Webhook(w)) /\ WF_vars(Request(w))

-----------------------------------------------------------------------------
(* Properties *)

\* Nothing is under way: no notification undelivered, no handler running.
Quiet == events = {} /\ \A w \in Workers : job[w].pc = "idle"

\* Codecov never shows a paid plan and seat count that no Stripe subscription
\* of the organization has had: whatever is interleaved, delayed, repeated or
\* cut short, a plan change is not granted locally before Stripe has taken it
\* (modify_subscription calls Stripe first, a scheduled change is left to the
\* released webhook, a checkout to the created webhook).
OnlyBoughtTerms == owner.plan \notin FreePlans => TermsOf(owner) \in bought

\* An organization with a subscription also has a Stripe customer, in every
\* interleaving of full-row saves: customer_subscription_created writes both
\* ids in one save and nothing ever clears the customer.
SubscriptionHasCustomer == owner.sub # None => owner.cust # None

\* Once things are quiet and no schedule is attached, the row agrees with the
\* subscription it names: after an immediate change, after a scheduled one has
\* ended, after a crash between Stripe and the save.  (With a schedule attached
\* customer_subscription_updated is deaf, so the row may lag behind Stripe; to
\* a plan outside PRO_PLANS it is deaf always.)
QuietInSync ==
    Quiet /\ owner.sub # None =>
        \/ TermsOf(owner) = TermsOf(stripe[owner.sub])
        \/ stripe[owner.sub].sched # "none"
        \/ stripe[owner.sub].plan \notin ProPlans

\* Once things are quiet the row names no ended subscription, and an ended one
\* has left the default plan behind (customer_subscription_deleted and
\* customer_subscription_updated with incomplete_expired).  A trial that was
\* cancelled leaves a subscription without a row: its notifications may still put
\* a plan back, so the second part is about the others.
QuietForgetsEnded ==
    Quiet => /\ owner.sub # None => Live(owner.sub)
             /\ owner.sub = None /\ owner.trial # "over" => owner.plan \in FreePlans

\* A paid plan is always backed by a subscription id, so the cancel and modify
\* branches of BillingService.update_plan are taken for it, never a second
\* checkout (except after a cancelled trial, as above).
PaidPlanNamesSubscription ==
    owner.plan \in ProPlans /\ owner.trial # "over" => owner.sub # None

\* The customer of the row is the customer of its subscription: the webhooks
\* find their owner by the pair, and lose it for good when the two differ.
CustomerMatches == owner.sub # None => owner.cust = stripe[owner.sub].cust

\* When quiet, delinquent says how the last invoice of the subscription ended
\* (invoice_payment_succeeded and invoice_payment_failed).
QuietDelinquency ==
    Quiet /\ owner.sub # None /\ stripe[owner.sub].invoice # "none" =>
        (owner.delinquent <=> stripe[owner.sub].invoice = "failed")

\* A trial is had once: no save takes the dates of a trial back, so neither the
\* mutation nor the created webhook can start another.
TrialOnce == [][owner.trial # "none" => owner'.trial # "none"
                /\ (owner.trial = "over" => owner'.trial = "over")]_vars

Ended(s) == stripe[s].status \in {"canceled", "incomplete_expired"}

\* the notification that a subscription has ended
IsEnd(e) == \/ e.kind = "deleted"
            \/ e.kind = "updated" /\ e.status = "incomplete_expired"

\* A creation that is still to be delivered, once more, when the end of the same
\* subscription has been dealt with: customer_subscription_created looks at
\* nothing and sets the id again, for ever.
Outlived(s) ==
    /\ Ended(s)
    /\ \E e \in events : e.sub = s /\ e.kind = "created"
    /\ \A e \in events : e.sub = s => ~IsEnd(e)

\* An ended subscription is eventually let go of, in any order of the
\* notifications and when one of them is delivered again, unless that one is its
\* creation and comes after its end.  (An end that overtakes its creation fails
\* until the owner is found: GiveUp takes it that Stripe retries for longer than
\* the creation needs.)
EndedIsForgotten ==
    \A s \in Subs : ([]~Outlived(s)) => (Ended(s) ~> owner.sub # s)

\* A customer who ended up without subscription has no active repositories:
\* the two statements of the deleted handler both take effect.
QuietReposOff ==
    Quiet /\ owner.sub = None /\ (\E s \in Subs : stripe[s].status # "unborn")
        => ~reposOn
=============================================================================
