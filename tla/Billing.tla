------------------------------ MODULE Billing ------------------------------
(***************************************************************************)
(* Payments, subscriptions, plan catalogue and coupon redemptions of the   *)
(* backend.  Every `await prisma...` of a handler is a step of its own: no *)
(* handler opens a database transaction, so two HTTP requests interleave   *)
(* between any two of their queries.  An action that begins a request      *)
(* stands for the handler up to its first query and the checks made on the *)
(* row it returns; a request whose check fails throws and leaves no trace, *)
(* so only the passing branch is a step.                                   *)
(***************************************************************************)
EXTENDS Naturals, Sequences, FiniteSets

CONSTANTS
  Users,         \* account ids
  Plans,         \* rows of the plan table
  PlanType,      \* [Plans -> INDIVIDUAL or ACCOUNTANT]
  ListPrice,     \* [Plans -> Nat]: the seeded prices, in kurus
  Prices,        \* prices an administrator may type into the plan editor
  Coupons,       \* coupon codes already created by accountants
  CouponOwner,   \* [Coupons -> Users]
  Requests,      \* HTTP requests that can be in progress at once
  Term,          \* length of the one-year subscription period, in ticks
  Nil,           \* no coupon / no work in progress
  MaxTime,       \* bound on the clock
  MaxPayments,   \* bound on payment rows
  MaxAborts,     \* bound on requests that die between two queries
  MaxPlanEdits   \* bound on edits of the plan catalogue

ASSUME CatalogueAssumption ==
  /\ ListPrice \in [Plans -> Nat]
  /\ Prices \subseteq Nat
  /\ CouponOwner \in [Coupons -> Users]

ASSUME BoundAssumption ==
  /\ Term \in Nat \ {0}
  /\ MaxTime \in Nat
  /\ MaxPayments \in Nat
  /\ MaxAborts \in Nat
  /\ MaxPlanEdits \in Nat
  /\ Nil \notin Coupons

\* A process has finitely many requests open.
ASSUME RequestAssumption == IsFiniteSet(Requests)

VARIABLES
  now,           \* wall clock
  plans,         \* plan table: price and whether it is on sale
  couponActive,  \* CouponCode.isActive
  payments,      \* payment table, in order of creation
  subs,          \* subscription table, in order of creation
  redemptions,   \* coupon_redemptions table
  pc,            \* where each request is: the query it issues next
  work,          \* the locals a request carries across its awaits
  aborts,        \* requests that died so far
  planEdits,     \* catalogue edits so far
  grants,        \* history: periods or plan switches granted per payment
  contested      \* history: payments decided by overlapping requests, or
                 \* whose approval died between its two writes

catalogue == <<now, plans, couponActive, planEdits>>
tables    == <<payments, subs, redemptions>>
history   == <<grants, contested>>
vars      == <<catalogue, tables, pc, work, aborts, history>>

Status == {"PENDING", "COMPLETED", "REJECTED"}

Creating == {"create:subscription", "create:coupon", "create:insert"}
Approving == {"approve:lookup", "approve:activate", "approve:switch", "approve:mark"}
Deciding == Approving \cup {"reject:mark"}
OnPayment == Deciding \cup {"create:redeem", "attach:update"}
Steps == {"idle"} \cup Creating \cup OnPayment

Payment == [user : Users, plan : Plans, amount : Nat, isUpgrade : BOOLEAN,
            status : Status, subscriptionId : Nat, receipt : BOOLEAN,
            quote : Nat]   \* history: the amount before the coupon

Subscription == [user : Users, plan : Plans, startDate : Nat, endDate : Nat]

Redemption == [coupon : Coupons, user : Users, payment : Nat, discount : Nat]

\* Locals of createPayment, and of the handlers that work on one payment.
Draft == [user : Users, plan : Plans, coupon : Coupons \cup {Nil},
          quote : Nat, discount : Nat, isUpgrade : BOOLEAN]
Decision == [payment : Nat, subscription : Nat, coupon : Coupons \cup {Nil}, discount : Nat]
NoSubscription == 0

----------------------------------------------------------------------------
\* Subscriptions that getActiveSubscription may return: the row of the user
\* that ends last among those that have not ended; a tie is broken by the
\* database.
Covering(u) == {s \in DOMAIN subs : subs[s].user = u /\ subs[s].endDate > now}
ActiveSubscription(u) ==
  {s \in Covering(u) : \A t \in Covering(u) : subs[t].endDate <= subs[s].endDate}

DiscountPercent == 15

\* Math.round(amount * percent) on amounts in kurus, halves up.
CouponDiscount(amount) == (2 * amount * DiscountPercent + 100) \div 200

InDecision(p) == {r \in Requests : pc[r] \in Deciding /\ work[r].payment = p}
BeingCreated  == {r \in Requests : pc[r] \in Creating}

Goto(r, step, locals) ==
  /\ pc' = [pc EXCEPT ![r] = step]
  /\ work' = [work EXCEPT ![r] = locals]

Finish(r) == Goto(r, "idle", Nil)

----------------------------------------------------------------------------
\* createPayment

\* Fault: the free plan is not refused.
BeginCreateAnyPrice(r, u, p, c) ==
  /\ pc[r] = "idle"
  /\ Len(payments) + Cardinality(BeingCreated) < MaxPayments
  /\ plans[p].isActive
  /\ Goto(r, "create:subscription",
          [user |-> u, plan |-> p, coupon |-> c, quote |-> plans[p].price,
           discount |-> 0, isUpgrade |-> FALSE])
  /\ UNCHANGED <<catalogue, tables, aborts, history>>

\* The handler has read an active plan with a price.
BeginCreate(r, u, p, c) ==
  /\ pc[r] = "idle"
  /\ Len(payments) + Cardinality(BeingCreated) < MaxPayments
  /\ plans[p].isActive
  /\ plans[p].price # 0
  /\ Goto(r, "create:subscription",
          [user |-> u, plan |-> p, coupon |-> c, quote |-> plans[p].price,
           discount |-> 0, isUpgrade |-> FALSE])
  /\ UNCHANGED <<catalogue, tables, aborts, history>>

AfterQuote(r, d) == Goto(r, IF d.coupon = Nil THEN "create:insert" ELSE "create:coupon", d)

\* The active subscription decides whether this is an upgrade: the full price
\* without one or for the same plan, the price difference for a dearer plan of
\* the same type, and an error for anything else.
QuoteFullPrice(r) ==
  /\ pc[r] = "create:subscription"
  /\ \/ ActiveSubscription(work[r].user) = {}
     \/ \E s \in ActiveSubscription(work[r].user) : subs[s].plan = work[r].plan
  /\ AfterQuote(r, work[r])
  /\ UNCHANGED <<catalogue, tables, aborts, history>>

CanUpgrade(from, to, price) ==
  /\ from # to
  /\ PlanType[from] = PlanType[to]
  /\ price > plans[from].price

QuoteUpgrade(r) ==
  /\ pc[r] = "create:subscription"
  /\ \E s \in ActiveSubscription(work[r].user) :
       /\ CanUpgrade(subs[s].plan, work[r].plan, work[r].quote)
       /\ AfterQuote(r, [work[r] EXCEPT
                           !.isUpgrade = TRUE,
                           !.quote = @ - plans[subs[s].plan].price])
  /\ UNCHANGED <<catalogue, tables, aborts, history>>

RefuseQuote(r) ==
  /\ pc[r] = "create:subscription"
  /\ \E s \in ActiveSubscription(work[r].user) :
       /\ subs[s].plan # work[r].plan
       /\ ~ CanUpgrade(subs[s].plan, work[r].plan, work[r].quote)
  /\ Finish(r)
  /\ UNCHANGED <<catalogue, tables, aborts, history>>

\* validateForRedeem: an active coupon of somebody else.
Redeemable(c, u) == couponActive[c] /\ CouponOwner[c] # u

ApplyCoupon(r) ==
  /\ pc[r] = "create:coupon"
  /\ Redeemable(work[r].coupon, work[r].user)
  /\ Goto(r, "create:insert",
          [work[r] EXCEPT !.discount = CouponDiscount(work[r].quote)])
  /\ UNCHANGED <<catalogue, tables, aborts, history>>

RefuseCoupon(r) ==
  /\ pc[r] = "create:coupon"
  /\ ~ Redeemable(work[r].coupon, work[r].user)
  /\ Finish(r)
  /\ UNCHANGED <<catalogue, tables, aborts, history>>

NewPayment(d) ==
  [user |-> d.user, plan |-> d.plan, amount |-> d.quote - d.discount,
   isUpgrade |-> d.isUpgrade, status |-> "PENDING",
   subscriptionId |-> NoSubscription, receipt |-> FALSE, quote |-> d.quote]

\* Fault: the coupon of an upgrade is not recorded.
InsertUpgradeUnrecorded(r) ==
  /\ pc[r] = "create:insert"
  /\ payments' = Append(payments, NewPayment(work[r]))
  /\ grants' = Append(grants, 0)
  /\ IF work[r].coupon = Nil \/ work[r].isUpgrade
       THEN Finish(r)
       ELSE Goto(r, "create:redeem",
                 [payment |-> Len(payments) + 1, subscription |-> NoSubscription,
                  coupon |-> work[r].coupon, discount |-> work[r].discount])
  /\ UNCHANGED <<catalogue, subs, redemptions, aborts, contested>>

InsertPayment(r) ==
  /\ pc[r] = "create:insert"
  /\ payments' = Append(payments, NewPayment(work[r]))
  /\ grants' = Append(grants, 0)
  /\ IF work[r].coupon = Nil
       THEN Finish(r)
       ELSE Goto(r, "create:redeem",
                 [payment |-> Len(payments) + 1, subscription |-> NoSubscription,
                  coupon |-> work[r].coupon, discount |-> work[r].discount])
  /\ UNCHANGED <<catalogue, subs, redemptions, aborts, contested>>

RecordRedemption(r) ==
  /\ pc[r] = "create:redeem"
  /\ redemptions' = redemptions \cup
       {[coupon |-> work[r].coupon, user |-> payments[work[r].payment].user,
         payment |-> work[r].payment, discount |-> work[r].discount]}
  /\ Finish(r)
  /\ UNCHANGED <<catalogue, payments, subs, aborts, history>>

----------------------------------------------------------------------------
\* Handlers that read a payment, require PENDING and write after an await

\* Fault: the status of the payment is not checked.
BeginOnAny(r, p, step) ==
  /\ pc[r] = "idle"
  /\ p \in DOMAIN payments
  /\ Goto(r, step, [payment |-> p, subscription |-> NoSubscription,
                    coupon |-> Nil, discount |-> 0])

\* Fault: only a completed payment is refused, so a rejected one can come back.
BeginUnlessCompleted(r, p, step) ==
  /\ pc[r] = "idle"
  /\ p \in DOMAIN payments
  /\ payments[p].status # "COMPLETED"
  /\ Goto(r, step, [payment |-> p, subscription |-> NoSubscription,
                    coupon |-> Nil, discount |-> 0])

BeginOnPending(r, p, step) ==
  /\ pc[r] = "idle"
  /\ p \in DOMAIN payments
  /\ payments[p].status = "PENDING"
  /\ Goto(r, step, [payment |-> p, subscription |-> NoSubscription,
                    coupon |-> Nil, discount |-> 0])

\* A second decision that reads the payment while the first is in progress.
NoteOverlap(p) == contested' = IF InDecision(p) = {} THEN contested ELSE contested \cup {p}

BeginAttach(r, p) ==
  /\ BeginOnPending(r, p, "attach:update")
  /\ UNCHANGED <<catalogue, tables, aborts, history>>

AttachReceipt(r) ==
  /\ pc[r] = "attach:update"
  /\ payments' = [payments EXCEPT ![work[r].payment] = [@ EXCEPT !.receipt = TRUE]]
  /\ Finish(r)
  /\ UNCHANGED <<catalogue, subs, redemptions, aborts, history>>

BeginApprove(r, p) ==
  /\ BeginOnPending(r, p, IF payments[p].isUpgrade THEN "approve:lookup" ELSE "approve:activate")
  /\ NoteOverlap(p)
  /\ UNCHANGED <<catalogue, tables, aborts, grants>>

\* Fault: no fallback when the subscription has ended in the meantime.
LookupWithoutFallback(r) ==
  /\ pc[r] = "approve:lookup"
  /\ LET found == ActiveSubscription(payments[work[r].payment].user)
     IN \E s \in (IF found = {} THEN {NoSubscription} ELSE found) :
          Goto(r, "approve:switch", [work[r] EXCEPT !.subscription = s])
  /\ UNCHANGED <<catalogue, tables, aborts, history>>

\* upgradeSubscription reads the active subscription again; without one it
\* falls back to activateSubscription.
LookupForUpgrade(r) ==
  /\ pc[r] = "approve:lookup"
  /\ LET u == payments[work[r].payment].user
     IN \/ /\ ActiveSubscription(u) = {}
           /\ Goto(r, "approve:activate", work[r])
        \/ \E s \in ActiveSubscription(u) :
             Goto(r, "approve:switch", [work[r] EXCEPT !.subscription = s])
  /\ UNCHANGED <<catalogue, tables, aborts, history>>

NewTerm(p) == [user |-> payments[p].user, plan |-> payments[p].plan,
               startDate |-> now, endDate |-> now + Term]

Granted(p) == grants' = [grants EXCEPT ![p] = @ + 1]

Activate(r) ==
  /\ pc[r] = "approve:activate"
  /\ subs' = Append(subs, NewTerm(work[r].payment))
  /\ Granted(work[r].payment)
  /\ Goto(r, "approve:mark", [work[r] EXCEPT !.subscription = Len(subs) + 1])
  /\ UNCHANGED <<catalogue, payments, redemptions, aborts, contested>>

\* Fault: the upgrade restarts the year.
SwitchAndRestart(r) ==
  /\ pc[r] = "approve:switch"
  /\ subs' = [subs EXCEPT ![work[r].subscription] = NewTerm(work[r].payment)]
  /\ Granted(work[r].payment)
  /\ Goto(r, "approve:mark", work[r])
  /\ UNCHANGED <<catalogue, payments, redemptions, aborts, contested>>

SwitchPlan(r) ==
  /\ pc[r] = "approve:switch"
  /\ subs' = [subs EXCEPT ![work[r].subscription].plan = payments[work[r].payment].plan]
  /\ Granted(work[r].payment)
  /\ Goto(r, "approve:mark", work[r])
  /\ UNCHANGED <<catalogue, payments, redemptions, aborts, contested>>

\* Fault: the payment is completed without its subscription.
MarkWithoutSubscription(r) ==
  /\ pc[r] = "approve:mark"
  /\ payments' = [payments EXCEPT ![work[r].payment] = [@ EXCEPT !.status = "COMPLETED"]]
  /\ Finish(r)
  /\ UNCHANGED <<catalogue, subs, redemptions, aborts, history>>

MarkCompleted(r) ==
  /\ pc[r] = "approve:mark"
  /\ payments' = [payments EXCEPT ![work[r].payment] =
                   [@ EXCEPT !.status = "COMPLETED", !.subscriptionId = work[r].subscription]]
  /\ Finish(r)
  /\ UNCHANGED <<catalogue, subs, redemptions, aborts, history>>

\* Fault: a rejection does not look at the status.
BeginRejectAny(r, p) ==
  /\ BeginOnAny(r, p, "reject:mark")
  /\ NoteOverlap(p)
  /\ UNCHANGED <<catalogue, tables, aborts, grants>>

BeginReject(r, p) ==
  /\ BeginOnPending(r, p, "reject:mark")
  /\ NoteOverlap(p)
  /\ UNCHANGED <<catalogue, tables, aborts, grants>>

MarkRejected(r) ==
  /\ pc[r] = "reject:mark"
  /\ payments' = [payments EXCEPT ![work[r].payment] = [@ EXCEPT !.status = "REJECTED"]]
  /\ Finish(r)
  /\ UNCHANGED <<catalogue, subs, redemptions, aborts, history>>

----------------------------------------------------------------------------
\* The environment: a query that rejects or a process restart ends a request
\* between two queries; administrators edit plans and switch coupons; time.

Abort(r) ==
  /\ pc[r] # "idle"
  /\ aborts < MaxAborts
  /\ aborts' = aborts + 1
  /\ contested' = IF pc[r] = "approve:mark" THEN contested \cup {work[r].payment}
                                            ELSE contested
  /\ Finish(r)
  /\ UNCHANGED <<catalogue, tables, grants>>

UpdatePlan(p) ==
  /\ planEdits < MaxPlanEdits
  /\ \E price \in Prices, onSale \in BOOLEAN :
       plans' = [plans EXCEPT ![p] = [price |-> price, isActive |-> onSale]]
  /\ planEdits' = planEdits + 1
  /\ UNCHANGED <<now, couponActive, tables, pc, work, aborts, history>>

SetCouponActive(c) ==
  /\ couponActive' = [couponActive EXCEPT ![c] = ~ @]
  /\ UNCHANGED <<now, plans, planEdits, tables, pc, work, aborts, history>>

Tick ==
  /\ now < MaxTime
  /\ now' = now + 1
  /\ UNCHANGED <<plans, couponActive, planEdits, tables, pc, work, aborts, history>>

----------------------------------------------------------------------------
Init ==
  /\ now = 0
  /\ plans = [p \in Plans |-> [price |-> ListPrice[p], isActive |-> TRUE]]
  /\ couponActive = [c \in Coupons |-> TRUE]
  /\ payments = <<>>
  /\ subs = <<>>
  /\ redemptions = {}
  /\ pc = [r \in Requests |-> "idle"]
  /\ work = [r \in Requests |-> Nil]
  /\ aborts = 0
  /\ planEdits = 0
  /\ grants = <<>>
  /\ contested = {}

CreateStep(r) ==
  \/ \E u \in Users, p \in Plans, c \in Coupons \cup {Nil} : BeginCreate(r, u, p, c)
  \/ QuoteFullPrice(r) \/ QuoteUpgrade(r) \/ RefuseQuote(r)
  \/ ApplyCoupon(r) \/ RefuseCoupon(r)
  \/ InsertPayment(r) \/ RecordRedemption(r)

DecideStep(r) ==
  \/ \E p \in DOMAIN payments : BeginAttach(r, p) \/ BeginApprove(r, p) \/ BeginReject(r, p)
  \/ AttachReceipt(r)
  \/ LookupForUpgrade(r) \/ Activate(r) \/ SwitchPlan(r) \/ MarkCompleted(r)
  \/ MarkRejected(r)

Next ==
  \/ \E r \in Requests : CreateStep(r) \/ DecideStep(r) \/ Abort(r)
  \/ \E p \in Plans : UpdatePlan(p)
  \/ \E c \in Coupons : SetCouponActive(c)
  \/ Tick

Spec == Init /\ [][Next]_vars
----------------------------------------------------------------------------
(* Properties *)

\* Every table row and every request local has the shape of the Prisma schema,
\* and a request between two queries carries the rows it is about.
TypeOK ==
  /\ now \in Nat
  /\ plans \in [Plans -> [price : Nat, isActive : BOOLEAN]]
  /\ couponActive \in [Coupons -> BOOLEAN]
  /\ payments \in Seq(Payment)
  /\ subs \in Seq(Subscription)
  /\ redemptions \subseteq Redemption
  /\ pc \in [Requests -> Steps]
  /\ aborts \in Nat /\ planEdits \in Nat
  /\ grants \in Seq(Nat) /\ Len(grants) = Len(payments)
  /\ contested \subseteq DOMAIN payments
  /\ work \in [Requests -> Draft \cup Decision \cup {Nil}]
  /\ \A r \in Requests :
       /\ pc[r] \in Creating => work[r] \in Draft
       /\ pc[r] \in OnPayment =>
            /\ work[r] \in Decision
            /\ work[r].payment \in DOMAIN payments
       /\ pc[r] = "create:redeem" => work[r].coupon \in Coupons
       /\ pc[r] \in {"approve:switch", "approve:mark"} =>
            work[r].subscription \in DOMAIN subs

Granting(p) == {r \in Requests : pc[r] = "approve:mark" /\ work[r].payment = p}

\* A payment no two decisions overlapped on grants the customer exactly one
\* period or plan switch if it is approved and none if it is rejected or still
\* open; markCompleted and reject check PENDING in one query and write in
\* another, after the subscription is already written.
DecidedOnce ==
  \A p \in DOMAIN payments \ contested :
    LET granted == payments[p].status = "COMPLETED" \/ Granting(p) # {}
    IN grants[p] = IF granted THEN 1 ELSE 0

\* The completed payments, and they alone, name the subscription they bought,
\* and that subscription is the payer's own (again short of an overlap).
CompletedNamesOwnTerm ==
  \A p \in DOMAIN payments \ contested :
    LET s == payments[p].subscriptionId
    IN IF payments[p].status = "COMPLETED"
         THEN s \in DOMAIN subs /\ subs[s].user = payments[p].user
         ELSE s = NoSubscription

\* A decision that nothing overlapped is final: once approved or rejected the
\* payment keeps its status, whatever requests arrive later.
DecisionIsFinal ==
  [][\A p \in DOMAIN payments \ contested' :
       payments[p].status # "PENDING" => payments'[p].status = payments[p].status]_vars

\* No approval moves the period of a subscription that exists: a plan switch
\* leaves startDate and endDate alone and only a row's own user can cause it.
TermFixed ==
  [][\A s \in DOMAIN subs :
       /\ subs'[s].startDate = subs[s].startDate
       /\ subs'[s].endDate = subs[s].endDate
       /\ subs'[s].plan # subs[s].plan =>
            \E r \in Requests :
              /\ pc[r] = "approve:switch"
              /\ payments[work[r].payment].user = subs[s].user
              /\ payments[work[r].payment].isUpgrade]_vars

\* Payments with a discount that no row records and no request is about to.
Unredeemed ==
  {p \in DOMAIN payments :
     /\ payments[p].amount < payments[p].quote
     /\ \A x \in redemptions : x.payment # p
     /\ \A r \in Requests : ~ (pc[r] = "create:redeem" /\ work[r].payment = p)}

\* The coupon discount taken off a payment and the redemption row behind it
\* agree: nobody redeems a coupon of his own, a payment has at most one row, and
\* the missing amount is that row's discount.  A request that dies between the
\* two writes costs one redemption, and nothing else does: not a coupon that is
\* switched off, a plan that is edited or another payment next to it.
CouponAccounted ==
  /\ \A x \in redemptions :
       /\ x.payment \in DOMAIN payments
       /\ x.user = payments[x.payment].user
       /\ x.user # CouponOwner[x.coupon]
       /\ payments[x.payment].amount + x.discount = payments[x.payment].quote
  /\ \A x, y \in redemptions : x.payment = y.payment => x = y
  /\ Cardinality(Unredeemed) <= aborts

\* No row of the payment table is free of charge: the free plan is refused, an
\* upgrade costs more than the plan it leaves at the moment it is quoted, and
\* the coupon never takes the whole amount.
EveryPaymentCharges == \A p \in DOMAIN payments : payments[p].amount > 0

----------------------------------------------------------------------------
(* Claims of the comments and messages that the code does not keep *)

\* "Only pending payments can be approved", "only pending payments can be
\* rejected" (messages of markCompleted and reject).
OnlyPendingDecided ==
  [][\A p \in DOMAIN payments :
       payments'[p].status # payments[p].status => payments[p].status = "PENDING"]_vars

\* activateSubscription "extends/renews the existing subscription by 1 year".
RenewalExtends ==
  [][\A s \in DOMAIN subs' \ DOMAIN subs :
       \A t \in ActiveSubscription(subs'[s].user) :
         subs'[s].endDate >= subs[t].endDate + Term]_vars

\* "Upgrade payment: changes ONLY the plan, does not touch the end date"
\* (markCompleted): approving one opens no new period.
UpgradeOpensNoTerm ==
  [][\A r \in Requests :
       pc[r] = "approve:activate" /\ pc'[r] = "approve:mark" =>
         ~ payments[work[r].payment].isUpgrade]_vars
=============================================================================
