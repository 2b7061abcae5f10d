----------------------------- MODULE AccountDetails -----------------------------
(***************************************************************************)
(* The account page of an organization (api/internal/owner): a request     *)
(* reads the owner's row, may apply the discount that is offered against   *)
(* a cancellation (apply_cancellation_discount), and saves the whole row   *)
(* it read with the name and e-mail given (AccountDetailsSerializer).  The *)
(* payment method is replaced by a request that saves nothing.  What a     *)
(* request does to the plan is in Billing.                                 *)
(***************************************************************************)
EXTENDS Absent, Integers, FiniteSets

CONSTANTS
    Visits,         \* requests that may run at a time
    Cards,          \* payment methods
    MaxCoupon       \* bound: coupons made

\* What the constants must be
CouponAssumption == MaxCoupon \in Nat

VARIABLES
    account,        \* the row: [coupon, rate], coupon the stripe_coupon_id or 0, rate the billing
                    \* rate of the plan, or Nothing when the row names no subscription
    customer,       \* Stripe's: [coupon, attached, card, used]: the coupon in force, the payment
                    \* methods attached, the default one, and all coupons that were in force
    coupons,        \* how many coupons were made
    visit,          \* the requests
    behind,         \* whether a request saved the row after it had changed since it was read
    lostCall        \* whether a request ended between two calls

accountVars == <<account, customer, coupons, visit, behind, lostCall>>

NoVisit == [pc |-> "none"]

Rates == {"monthly", "annually", Nothing}

Row == [coupon : 0..MaxCoupon, rate : Rates]
Visit == [pc : {"read", "made", "applying", "saving", "attached"}, row : Row, discount : BOOLEAN,
          new : {Nothing} \cup 1..MaxCoupon \cup Cards]

Customer == [coupon : 0..MaxCoupon, attached : SUBSET Cards, card : Cards \cup {Nothing},
             used : SUBSET (1..MaxCoupon)]

AccountTypeOK ==
    /\ account \in Row
    /\ customer \in Customer
    /\ coupons \in 0..MaxCoupon
    /\ visit \in [Visits -> {NoVisit} \cup Visit]
    /\ behind \in BOOLEAN /\ lostCall \in BOOLEAN

AccountInit ==
    /\ account = [coupon |-> 0, rate |-> Nothing]
    /\ customer = [coupon |-> 0, attached |-> {}, card |-> Nothing, used |-> {}]
    /\ coupons = 0
    /\ visit = [v \in Visits |-> NoVisit]
    /\ behind = FALSE /\ lostCall = FALSE

Leave(v) == visit' = [visit EXCEPT ![v] = NoVisit]

\* All columns are written; those that changed since the row was read are taken back.
SaveAccount(v, row) ==
    /\ account' = row
    /\ behind' = (behind \/ account # visit[v].row)

-----------------------------------------------------------------------------
\* Notifications of Stripe and changes of the plan (see Billing)
ChangeRate ==
    /\ \E rate \in Rates \ {account.rate} : account' = [account EXCEPT !.rate = rate]
    /\ UNCHANGED <<customer, coupons, visit, behind, lostCall>>

VisitAccount(v, discount) ==
    /\ visit[v] = NoVisit
    /\ visit' = [visit EXCEPT ![v] = [pc |-> "read", row |-> account,
                                          discount |-> discount, new |-> Nothing]]
    /\ UNCHANGED <<account, customer, coupons, behind, lostCall>>

\* bug: whoever asks gets another discount
AskedFor(v) == visit[v].discount /\ visit[v].row.rate = "monthly"

MayHaveDiscount(v) ==
    /\ visit[v].discount
    /\ visit[v].row.rate = "monthly" /\ visit[v].row.coupon = 0

SkipDiscount(v) ==
    /\ visit[v].pc = "read" /\ ~MayHaveDiscount(v)
    /\ visit' = [visit EXCEPT ![v].pc = "saving"]
    /\ UNCHANGED <<account, customer, coupons, behind, lostCall>>

CreateCoupon(v) ==
    /\ visit[v].pc = "read" /\ MayHaveDiscount(v) /\ coupons < MaxCoupon
    /\ coupons' = coupons + 1
    /\ visit' = [visit EXCEPT ![v].pc = "made", ![v].new = coupons + 1]
    /\ UNCHANGED <<account, customer, behind, lostCall>>

\* owner.save()
SaveCoupon(v) ==
    /\ visit[v].pc = "made"
    /\ LET row == [visit[v].row EXCEPT !.coupon = visit[v].new]
       IN /\ SaveAccount(v, row)
          /\ visit' = [visit EXCEPT ![v].pc = "applying", ![v].row = row]
    /\ UNCHANGED <<customer, coupons, lostCall>>

CouponOf(v) == visit[v].row.coupon

ApplyCoupon(v) ==
    /\ visit[v].pc = "applying"
    /\ customer' = [customer EXCEPT !.coupon = CouponOf(v), !.used = @ \cup {CouponOf(v)}]
    /\ visit' = [visit EXCEPT ![v].pc = "saving"]
    /\ UNCHANGED <<account, coupons, behind, lostCall>>

\* bug: the coupon is set on another instance of the row than the one saved at the end
FirstRead(v) == IF visit[v].new = Nothing THEN visit[v].row ELSE [visit[v].row EXCEPT !.coupon = 0]

Details(v) == visit[v].row

\* The end of AccountDetailsSerializer.update
SaveDetails(v) ==
    /\ visit[v].pc = "saving"
    /\ SaveAccount(v, Details(v))
    /\ Leave(v)
    /\ UNCHANGED <<customer, coupons, lostCall>>

-----------------------------------------------------------------------------
\* bug: the method is made the default before it is attached
AtOnce(card) == [customer EXCEPT !.card = card]

Attached(card) == [customer EXCEPT !.attached = @ \cup {card}]

\* update_payment_method, when the row names a subscription
AttachCard(v, card) ==
    /\ visit[v] = NoVisit /\ account.rate # Nothing
    /\ customer' = Attached(card)
    /\ visit' = [visit EXCEPT ![v] = [pc |-> "attached", row |-> account,
                                          discount |-> FALSE, new |-> card]]
    /\ UNCHANGED <<account, coupons, behind, lostCall>>

UseCard(v) ==
    /\ visit[v].pc = "attached"
    /\ customer' = [customer EXCEPT !.card = visit[v].new]
    /\ Leave(v)
    /\ UNCHANGED <<account, coupons, behind, lostCall>>

\* Stripe does not answer, or the process ends: a coupon may be made and not named, or
\* named and not applied.
LoseCall(v) ==
    /\ visit[v] # NoVisit
    /\ Leave(v)
    /\ lostCall' = (lostCall \/ visit[v].pc \in {"made", "applying"})
    /\ UNCHANGED <<account, customer, coupons, behind>>

AccountNext ==
    \/ ChangeRate
    \/ \E v \in Visits :
          \/ \E discount \in BOOLEAN : VisitAccount(v, discount)
          \/ SkipDiscount(v) \/ CreateCoupon(v) \/ SaveCoupon(v) \/ ApplyCoupon(v)
          \/ SaveDetails(v)
          \/ \E card \in Cards : AttachCard(v, card)
          \/ UseCard(v) \/ LoseCall(v)

AccountSpec == AccountInit /\ [][AccountNext]_accountVars

-----------------------------------------------------------------------------
(* Properties *)

\* Unless requests overlapped or a call was lost: when no discount is being applied, the
\* coupon in force at Stripe is the one the row names.
DiscountIsNamed ==
    /\ ~behind /\ ~lostCall
    /\ \A v \in Visits : visit[v] = NoVisit \/ visit[v].pc \notin {"made", "applying"}
    => customer.coupon = account.coupon

\* An organization has the discount once, unless a request saved an old row: not again
\* after it expired, nor after it changed its plan and came back, nor when a call to
\* Stripe was lost, even if it had the discount then not at all.
OneDiscount == ~behind => Cardinality(customer.used) <= 1

\* The default payment method is one of the customer's, also if the second call is lost.
CardIsAttached == customer.card # Nothing => customer.card \in customer.attached

-----------------------------------------------------------------------------
\* Why, which is inductive: a coupon is made by a request that read a row without one, and
\* who saved it applies it.  While nobody saved an old row, the row has the only coupon
\* that ever was in force, and if it is not yet in force somebody is applying it.
AccountInv ==
    /\ AccountTypeOK /\ CardIsAttached
    /\ \A v \in Visits :
          /\ visit[v].pc = "made" => visit[v].row.coupon = 0 /\ visit[v].new \in 1..coupons
          /\ visit[v].pc = "applying" =>
                visit[v].row.coupon # 0 /\ (~behind => account.coupon = visit[v].row.coupon)
          /\ visit[v].pc = "attached" => visit[v].new \in customer.attached
    /\ ~behind => customer.used \subseteq {account.coupon} /\ customer.coupon \in {0, account.coupon}
    /\ ~behind /\ ~lostCall /\ customer.coupon # account.coupon =>
          \E v \in Visits : visit[v].pc = "applying"
=============================================================================
