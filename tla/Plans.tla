-------------------------------- MODULE Plans --------------------------------
(***************************************************************************)
(* The plan tables of plan/constants.py: which plan names exist, how they  *)
(* are grouped, and the three attributes that steer behaviour elsewhere    *)
(* (billing rate, trial days, monthly upload limit).  Names keep their     *)
(* database values.                                                        *)
(***************************************************************************)
EXTENDS Naturals

BasicPlan    == "users-basic"
FreePlans    == {"users-free", BasicPlan}
LegacyPlans  == {"users-inappm", "users-inappy"}
MarketPlans  == {"users"}
PrPlans      == {"users-pr-inappm", "users-pr-inappy"}
SentryPlans  == {"users-sentrym", "users-sentryy"}
CloudPlans   == {"users-enterprisem", "users-enterprisey"}
TrialPlans   == {"users-trial"}

ProPlans == PrPlans \cup SentryPlans \cup CloudPlans
AllPlans == FreePlans \cup LegacyPlans \cup MarketPlans \cup ProPlans \cup TrialPlans

MonthlyPlans == {"users-inappm", "users-pr-inappm", "users-sentrym", "users-enterprisem"}
YearlyPlans  == {"users-inappy", "users-pr-inappy", "users-sentryy", "users-enterprisey"}

\* PlanData.billing_rate; free, marketplace and trial plans have none.
BillingRate(p) == IF p \in MonthlyPlans THEN "monthly"
                  ELSE IF p \in YearlyPlans THEN "annually" ELSE "none"

\* PlanData.trial_days is not None.
OffersTrial(p) == p \in SentryPlans

\* PlanData.monthly_uploads_limit is not None (the only limit is 250).
LimitsUploads(p) == p = BasicPlan

\* billing/helpers.available_plans: what a request may name.
AvailablePlans(isSentryUser) ==
    FreePlans \cup PrPlans \cup (IF isSentryUser THEN SentryPlans ELSE {})

\* The keys of settings.STRIPE_PLAN_IDS, the plans Codecov has a price for.
PricedPlans == PrPlans \cup SentryPlans

\* services/billing._is_upgrading_seats
IsUpgradingSeats(have, want) == have.qty # 0 /\ have.qty < want.qty

\* services/billing._is_extending_term
IsExtendingTerm(have, want) ==
    BillingRate(have.plan) = "monthly" /\ BillingRate(want.plan) = "annually"

\* services/billing._is_similar_plan
IsSimilarPlan(have, want) ==
    /\ BillingRate(have.plan) = BillingRate(want.plan)
    /\ have.qty # 0 /\ have.qty = want.qty

\* services/billing._get_proration_params # "none"
ChargesNow(have, want) ==
    \/ IsUpgradingSeats(have, want)
    \/ IsExtendingTerm(have, want)
    \/ IsSimilarPlan(have, want)
=============================================================================
