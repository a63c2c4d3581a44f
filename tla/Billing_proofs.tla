-------------------------- MODULE Billing_proofs --------------------------
(***************************************************************************)
(* Proofs about Billing for every set of users, plans, coupons and         *)
(* requests and every bound.                                               *)
(***************************************************************************)
EXTENDS BillingRefinement, FiniteSetTheorems, TLAPS

\* The coupon takes part of a positive amount and never all of it.
LEMMA DiscountBounds ==
  ASSUME NEW a \in Nat, a > 0
  PROVE  CouponDiscount(a) \in Nat /\ CouponDiscount(a) < a
  BY DEF CouponDiscount, DiscountPercent

\* Strengthening of TypeOK: what a draft is about to charge is positive and
\* its discount smaller, and the payments already made are charged.
ChargeInv ==
  /\ \A r \in Requests : pc[r] \in Creating =>
       /\ work[r].quote > 0 /\ work[r].discount < work[r].quote
       /\ pc[r] # "create:insert" => work[r].discount = 0
  /\ EveryPaymentCharges

TypeInv == TypeOK /\ ChargeInv

\* Rows of the two tables are records of the schema.
LEMMA RowTypes ==
  ASSUME TypeOK
  PROVE  /\ \A s \in DOMAIN subs : subs[s] \in Subscription
         /\ \A p \in DOMAIN payments : payments[p] \in Payment
  BY DEF TypeOK

\* The quote of an upgrade: the draft with the price difference.
LEMMA UpgradedDraft ==
  ASSUME NEW d \in Draft, NEW m \in Nat
  PROVE  /\ [d EXCEPT !.isUpgrade = TRUE, !.quote = m] \in Draft
         /\ [d EXCEPT !.isUpgrade = TRUE, !.quote = m].quote = m
         /\ [d EXCEPT !.isUpgrade = TRUE, !.quote = m].discount = d.discount
  BY DEF Draft

\* Updating one column of a row keeps the table typed.
LEMMA SubscriptionUpdate ==
  ASSUME subs \in Seq(Subscription), NEW s \in DOMAIN subs, NEW p \in Plans
  PROVE  [subs EXCEPT ![s].plan = p] \in Seq(Subscription)
  <1>1. subs[s] \in Subscription
    OBVIOUS
  <1>2. [subs[s] EXCEPT !.plan = p] \in Subscription
    BY <1>1 DEF Subscription
  <1> QED BY <1>2

LEMMA RowUpdate ==
  ASSUME payments \in Seq(Payment), NEW p \in DOMAIN payments, NEW e \in Payment,
         payments' = [payments EXCEPT ![p] = e]
  PROVE  /\ payments' \in Seq(Payment) /\ Len(payments') = Len(payments)
         /\ DOMAIN payments' = DOMAIN payments
         /\ payments'[p] = e
         /\ \A q \in DOMAIN payments \ {p} : payments'[q] = payments[q]
  OBVIOUS

LEMMA ActiveIsRow ==
  ASSUME NEW u \in Users, NEW s \in ActiveSubscription(u)
  PROVE  s \in DOMAIN subs /\ subs[s].user = u
  BY DEF ActiveSubscription, Covering

LEMMA TypeInit == Init => TypeInv
  <1> SUFFICES ASSUME Init PROVE TypeInv
    OBVIOUS
  <1>1. TypeOK
    BY CatalogueAssumption DEF Init, TypeOK, Steps, Creating, OnPayment, Deciding, Approving
  <1>2. ChargeInv
    BY DEF Init, ChargeInv, EveryPaymentCharges, Creating
  <1> QED BY <1>1, <1>2 DEF TypeInv

LEMMA CreateType ==
  ASSUME TypeInv, NEW r \in Requests,
         NEW u \in Users, NEW p \in Plans, NEW c \in Coupons \cup {Nil},
         BeginCreate(r, u, p, c)
  PROVE  TypeInv'
  <1> DEFINE d == [user |-> u, plan |-> p, coupon |-> c, quote |-> plans[p].price,
                   discount |-> 0, isUpgrade |-> FALSE]
  <1>1. d \in Draft /\ d.quote > 0 /\ d.discount = 0
    BY DEF BeginCreate, TypeInv, TypeOK, Draft
  <1>2. TypeOK'
    BY <1>1 DEF BeginCreate, TypeInv, TypeOK, Goto, catalogue, tables, history, Steps, Creating,
       OnPayment, Deciding, Approving
  <1>3. ChargeInv'
    BY <1>1 DEF BeginCreate, TypeInv, TypeOK, ChargeInv, EveryPaymentCharges, Goto, catalogue,
       tables, history, Creating
  <1> QED BY <1>2, <1>3 DEF TypeInv

LEMMA QuoteType ==
  ASSUME TypeInv, NEW r \in Requests,
         QuoteFullPrice(r) \/ QuoteUpgrade(r) \/ RefuseQuote(r)
  PROVE  TypeInv'
  <1>0. work[r] \in Draft /\ work[r].quote > 0 /\ work[r].discount = 0 /\ pc[r] = "create:subscription"
    BY DEF TypeInv, TypeOK, ChargeInv, QuoteFullPrice, QuoteUpgrade, RefuseQuote, Creating
  <1> DEFINE Quoted(d) == d \in Draft /\ d.quote > 0 /\ d.discount = 0
  <1>1. ASSUME NEW d, Quoted(d), AfterQuote(r, d), UNCHANGED <<catalogue, tables, aborts, history>>
        PROVE  TypeInv'
    <2>1. TypeOK'
      BY <1>0, <1>1 DEF TypeInv, TypeOK, AfterQuote, Goto, catalogue, tables, history, Steps,
         Creating, OnPayment, Deciding, Approving
    <2>2. ChargeInv'
      BY <1>0, <1>1 DEF TypeInv, TypeOK, ChargeInv, EveryPaymentCharges, AfterQuote, Goto,
         catalogue, tables, history, Creating
    <2> QED BY <2>1, <2>2 DEF TypeInv
  <1>2. CASE QuoteFullPrice(r)
    BY <1>0, <1>1, <1>2 DEF QuoteFullPrice
  <1>3. CASE QuoteUpgrade(r)
    <2>1. PICK s \in ActiveSubscription(work[r].user) :
            /\ CanUpgrade(subs[s].plan, work[r].plan, work[r].quote)
            /\ AfterQuote(r, [work[r] EXCEPT !.isUpgrade = TRUE,
                                             !.quote = @ - plans[subs[s].plan].price])
      BY <1>3 DEF QuoteUpgrade
    <2> DEFINE d == [work[r] EXCEPT !.isUpgrade = TRUE,
                                    !.quote = @ - plans[subs[s].plan].price]
    <2>2. plans[subs[s].plan].price \in Nat /\ work[r].quote > plans[subs[s].plan].price
      <3>1. s \in DOMAIN subs
        BY <1>0, ActiveIsRow DEF Draft
      <3>2. subs[s].plan \in Plans
        BY <3>1, RowTypes DEF TypeInv, Subscription
      <3> QED BY <2>1, <3>2 DEF CanUpgrade, TypeInv, TypeOK
    <2>3. PICK m \in Nat : m = work[r].quote - plans[subs[s].plan].price /\ m > 0
      BY <1>0, <2>2 DEF Draft
    <2>4. d = [work[r] EXCEPT !.isUpgrade = TRUE, !.quote = m]
      BY <2>3
    <2>5. Quoted(d)
      BY <1>0, <2>3, <2>4, UpgradedDraft
    <2> QED BY <1>1, <1>3, <2>1, <2>5 DEF QuoteUpgrade
  <1>4. CASE RefuseQuote(r)
    <2>1. TypeOK'
      BY <1>4 DEF RefuseQuote, TypeInv, TypeOK, Finish, Goto, catalogue, tables, history, Steps,
         Creating, OnPayment, Deciding, Approving
    <2>2. ChargeInv'
      BY <1>4 DEF RefuseQuote, TypeInv, TypeOK, ChargeInv, EveryPaymentCharges, Finish, Goto,
         catalogue, tables, history, Creating
    <2> QED BY <2>1, <2>2 DEF TypeInv
  <1> QED BY <1>2, <1>3, <1>4

LEMMA CouponType ==
  ASSUME TypeInv, NEW r \in Requests, ApplyCoupon(r) \/ RefuseCoupon(r)
  PROVE  TypeInv'
  <1>1. CASE ApplyCoupon(r)
    <2>1. /\ work[r] \in Draft /\ work[r].quote > 0 /\ work[r].quote \in Nat
          /\ pc[r] = "create:coupon"
      BY <1>1 DEF TypeInv, TypeOK, ChargeInv, ApplyCoupon, Creating, Draft
    <2>2. PICK k \in Nat : k = CouponDiscount(work[r].quote) /\ k < work[r].quote
      BY <2>1, DiscountBounds
    <2> DEFINE d == [work[r] EXCEPT !.discount = k]
    <2>3. d \in Draft /\ d.quote = work[r].quote /\ d.discount = k
      BY <2>1, <2>2 DEF Draft
    <2>4. Goto(r, "create:insert", d) /\ UNCHANGED <<catalogue, tables, aborts, history>>
      BY <1>1, <2>2 DEF ApplyCoupon
    <2> HIDE DEF d
    <2>5. TypeOK'
      BY <2>3, <2>4 DEF TypeInv, TypeOK, Goto, catalogue, tables, history, Steps, Creating,
         OnPayment, Deciding, Approving
    <2>6. ChargeInv'
      BY <2>1, <2>2, <2>3, <2>4 DEF TypeInv, TypeOK, ChargeInv, EveryPaymentCharges, Goto,
         catalogue, tables, history, Creating
    <2> QED BY <2>5, <2>6 DEF TypeInv
  <1>2. CASE RefuseCoupon(r)
    <2>1. TypeOK'
      BY <1>2 DEF RefuseCoupon, TypeInv, TypeOK, Finish, Goto, catalogue, tables, history, Steps,
         Creating, OnPayment, Deciding, Approving
    <2>2. ChargeInv'
      BY <1>2 DEF RefuseCoupon, TypeInv, TypeOK, ChargeInv, EveryPaymentCharges, Finish, Goto,
         catalogue, tables, history, Creating
    <2> QED BY <2>1, <2>2 DEF TypeInv
  <1> QED BY <1>1, <1>2

LEMMA InsertType ==
  ASSUME TypeInv, NEW r \in Requests, InsertPayment(r)
  PROVE  TypeInv'
  <1>1. work[r] \in Draft /\ work[r].discount < work[r].quote /\ pc[r] = "create:insert"
    BY DEF TypeInv, TypeOK, ChargeInv, InsertPayment, Creating
  <1>2. PICK m \in Nat : m = work[r].quote - work[r].discount /\ m > 0
    BY <1>1 DEF Draft
  <1> DEFINE new == NewPayment(work[r])
  <1>3. new \in Payment /\ new.amount = m
    BY <1>1, <1>2 DEF NewPayment, Payment, Status, Draft, NoSubscription
  <1>4. /\ payments' = Append(payments, new)
        /\ payments' \in Seq(Payment)
        /\ DOMAIN payments' = DOMAIN payments \cup {Len(payments) + 1}
        /\ Len(payments') = Len(payments) + 1
        /\ payments'[Len(payments) + 1] = new
        /\ \A p \in DOMAIN payments : payments'[p] = payments[p]
    <2> HIDE DEF new
    <2> QED BY <1>3 DEF InsertPayment, TypeInv, TypeOK, new
  <1>5. grants' \in Seq(Nat) /\ Len(grants') = Len(payments')
    BY <1>4 DEF InsertPayment, TypeInv, TypeOK
  <1>6. /\ work' \in [Requests -> Draft \cup Decision \cup {Nil}]
        /\ pc' \in [Requests -> Steps]
        /\ \A q \in Requests \ {r} : pc'[q] = pc[q] /\ work'[q] = work[q]
        /\ \/ pc'[r] = "idle"
           \/ /\ pc'[r] = "create:redeem"
              /\ work'[r] \in Decision
              /\ work'[r].payment = Len(payments) + 1
              /\ work'[r].coupon \in Coupons
    <2>1. CASE work[r].coupon = Nil
      BY <1>1, <2>1 DEF InsertPayment, Finish, Goto, TypeInv, TypeOK, Steps
    <2>2. CASE work[r].coupon # Nil
      <3> DEFINE d == [payment |-> Len(payments) + 1, subscription |-> NoSubscription,
                       coupon |-> work[r].coupon, discount |-> work[r].discount]
      <3>1. d \in Decision /\ d.payment = Len(payments) + 1 /\ d.coupon \in Coupons
        BY <1>1, <2>2 DEF TypeInv, TypeOK, Draft, Decision, NoSubscription
      <3>2. Goto(r, "create:redeem", d)
        BY <2>2 DEF InsertPayment
      <3> HIDE DEF d
      <3> QED BY <3>1, <3>2 DEF Goto, TypeInv, TypeOK, Steps, OnPayment
    <2> QED BY <2>1, <2>2
  <1>7. UNCHANGED <<catalogue, subs, redemptions, aborts, contested>>
    BY DEF InsertPayment
  <1>8. TypeOK'
    BY <1>4, <1>5, <1>6, <1>7 DEF TypeInv, TypeOK, catalogue, Creating, OnPayment, Deciding,
       Approving
  <1>9. ChargeInv'
    BY <1>2, <1>3, <1>4, <1>6, <1>7 DEF TypeInv, TypeOK, ChargeInv, EveryPaymentCharges, Creating
  <1> QED BY <1>8, <1>9 DEF TypeInv

LEMMA RedeemType ==
  ASSUME TypeInv, NEW r \in Requests, RecordRedemption(r)
  PROVE  TypeInv'
  <1>1. /\ work[r] \in Decision /\ work[r].payment \in DOMAIN payments
        /\ work[r].coupon \in Coupons
    BY DEF TypeInv, TypeOK, RecordRedemption, OnPayment
  <1>2. payments[work[r].payment].user \in Users
    BY <1>1, RowTypes DEF TypeInv, Payment
  <1>3. redemptions' \subseteq Redemption
    BY <1>1, <1>2 DEF RecordRedemption, TypeInv, TypeOK, Redemption, Decision
  <1>4. TypeOK'
    BY <1>3 DEF RecordRedemption, Finish, Goto, TypeInv, TypeOK, catalogue, history, Steps,
       Creating, OnPayment, Deciding, Approving
  <1>5. ChargeInv'
    BY DEF RecordRedemption, Finish, Goto, TypeInv, TypeOK, ChargeInv, EveryPaymentCharges, Creating
  <1> QED BY <1>4, <1>5 DEF TypeInv

\* The handlers that start from a pending payment.
LEMMA BeginType ==
  ASSUME TypeInv, NEW r \in Requests, NEW p \in DOMAIN payments,
         BeginAttach(r, p) \/ BeginApprove(r, p) \/ BeginReject(r, p)
  PROVE  TypeInv'
  <1>1. PICK step \in OnPayment \ {"create:redeem", "approve:switch", "approve:mark"} : BeginOnPending(r, p, step)
    BY DEF BeginAttach, BeginApprove, BeginReject, OnPayment, Deciding, Approving
  <1>2. contested' \subseteq DOMAIN payments /\ UNCHANGED <<catalogue, tables, aborts, grants>>
    BY DEF BeginAttach, BeginApprove, BeginReject, NoteOverlap, history, TypeInv, TypeOK
  <1>3. step \notin Creating /\ step \in Steps
    BY <1>1 DEF OnPayment, Creating, Deciding, Approving, Steps
  <1>4. TypeOK'
    BY <1>1, <1>2, <1>3 DEF BeginOnPending, Goto, TypeInv, TypeOK, catalogue, tables, Decision,
       NoSubscription
  <1>5. ChargeInv'
    BY <1>1, <1>2, <1>3 DEF BeginOnPending, Goto, TypeInv, TypeOK, ChargeInv,
       EveryPaymentCharges, tables
  <1> QED BY <1>4, <1>5 DEF TypeInv

LEMMA LookupType ==
  ASSUME TypeInv, NEW r \in Requests, LookupForUpgrade(r)
  PROVE  TypeInv'
  <1>1. /\ work[r] \in Decision /\ work[r].payment \in DOMAIN payments
    BY DEF TypeInv, TypeOK, LookupForUpgrade, OnPayment, Deciding, Approving
  <1>2. payments[work[r].payment].user \in Users
    BY <1>1, RowTypes DEF TypeInv, Payment
  <1>3. PICK step \in {"approve:activate", "approve:switch"}, s \in Nat :
          /\ Goto(r, step, [work[r] EXCEPT !.subscription = s])
          /\ step = "approve:switch" => s \in DOMAIN subs
    <2>1. CASE ActiveSubscription(payments[work[r].payment].user) = {}
      <3>1. work[r] = [work[r] EXCEPT !.subscription = work[r].subscription] /\ work[r].subscription \in Nat
        BY <1>1 DEF Decision
      <3> QED BY <2>1, <3>1 DEF LookupForUpgrade
    <2>2. CASE ActiveSubscription(payments[work[r].payment].user) # {}
      <3>1. PICK s \in ActiveSubscription(payments[work[r].payment].user) :
              Goto(r, "approve:switch", [work[r] EXCEPT !.subscription = s])
        BY <2>2 DEF LookupForUpgrade
      <3>2. s \in DOMAIN subs
        BY <1>2, ActiveIsRow
      <3>3. s \in Nat
        BY <3>2 DEF TypeInv, TypeOK
      <3> QED BY <3>1, <3>2, <3>3
    <2> QED BY <2>1, <2>2
  <1> DEFINE d == [work[r] EXCEPT !.subscription = s]
  <1>4. d \in Decision /\ d.payment = work[r].payment /\ d.subscription = s
    BY <1>1 DEF Decision
  <1>5. Goto(r, step, d) /\ UNCHANGED <<catalogue, tables, aborts, history>>
    BY <1>3 DEF LookupForUpgrade
  <1> HIDE DEF d
  <1>6. TypeOK'
    BY <1>1, <1>3, <1>4, <1>5 DEF TypeInv, TypeOK, Goto, catalogue, tables, history, Steps,
       Creating, OnPayment, Deciding, Approving
  <1>7. ChargeInv'
    BY <1>3, <1>5 DEF TypeInv, TypeOK, ChargeInv, EveryPaymentCharges, Goto, catalogue, tables,
       history, Creating
  <1> QED BY <1>6, <1>7 DEF TypeInv

LEMMA ActivateType ==
  ASSUME TypeInv, NEW r \in Requests, Activate(r)
  PROVE  TypeInv'
  <1>1. /\ work[r] \in Decision /\ work[r].payment \in DOMAIN payments
    BY DEF TypeInv, TypeOK, Activate, OnPayment, Deciding, Approving
  <1>2. NewTerm(work[r].payment) \in Subscription
    <2>1. payments[work[r].payment] \in Payment
      BY <1>1, RowTypes DEF TypeInv
    <2>2. now \in Nat /\ now + Term \in Nat
      BY BoundAssumption DEF TypeInv, TypeOK
    <2> QED BY <2>1, <2>2 DEF NewTerm, Subscription, Payment
  <1>3. /\ subs' \in Seq(Subscription)
        /\ DOMAIN subs' = DOMAIN subs \cup {Len(subs) + 1}
    BY <1>2 DEF Activate, TypeInv, TypeOK
  <1>4. grants' \in Seq(Nat) /\ Len(grants') = Len(payments)
    BY <1>1 DEF Activate, Granted, TypeInv, TypeOK
  <1> DEFINE d == [work[r] EXCEPT !.subscription = Len(subs) + 1]
  <1>5. /\ d \in Decision /\ d.payment = work[r].payment
        /\ d.subscription \in DOMAIN subs'
    <2>1. Len(subs) + 1 \in Nat
      BY DEF TypeInv, TypeOK
    <2>2. d \in Decision /\ d.payment = work[r].payment /\ d.subscription = Len(subs) + 1
      BY <1>1, <2>1 DEF Decision
    <2> QED BY <1>3, <2>2
  <1>6. /\ Goto(r, "approve:mark", d)
        /\ UNCHANGED <<catalogue, payments, redemptions, aborts, contested>>
    BY DEF Activate
  <1> HIDE DEF d
  <1>7. TypeOK'
    BY <1>1, <1>3, <1>4, <1>5, <1>6 DEF TypeInv, TypeOK, Goto, catalogue, Steps, Creating,
       OnPayment, Deciding, Approving
  <1>8. ChargeInv'
    BY <1>6 DEF TypeInv, TypeOK, ChargeInv, EveryPaymentCharges, Goto, Creating
  <1> QED BY <1>7, <1>8 DEF TypeInv

LEMMA SwitchType ==
  ASSUME TypeInv, NEW r \in Requests, SwitchPlan(r)
  PROVE  TypeInv'
  <1>1. /\ work[r] \in Decision /\ work[r].payment \in DOMAIN payments
        /\ work[r].subscription \in DOMAIN subs
    BY DEF TypeInv, TypeOK, SwitchPlan, OnPayment, Deciding, Approving
  <1>2. payments[work[r].payment].plan \in Plans
    BY <1>1, RowTypes DEF TypeInv, Payment
  <1>3. subs' \in Seq(Subscription) /\ DOMAIN subs' = DOMAIN subs
    BY <1>1, <1>2, SubscriptionUpdate DEF SwitchPlan, TypeInv, TypeOK
  <1>4. grants' \in Seq(Nat) /\ Len(grants') = Len(payments)
    BY <1>1 DEF SwitchPlan, Granted, TypeInv, TypeOK
  <1>5. TypeOK'
    BY <1>1, <1>3, <1>4 DEF SwitchPlan, Goto, TypeInv, TypeOK, catalogue, Steps, Creating,
       OnPayment, Deciding, Approving
  <1>6. ChargeInv'
    BY DEF SwitchPlan, Goto, TypeInv, TypeOK, ChargeInv, EveryPaymentCharges, Creating
  <1> QED BY <1>5, <1>6 DEF TypeInv

\* The columns written by the three handlers that update a payment row.
Updates(r, e) ==
  /\ payments' = [payments EXCEPT ![work[r].payment] = e]
  /\ \A f \in {"user", "plan", "amount", "isUpgrade", "quote"} : e[f] = payments[work[r].payment][f]
  /\ AttachReceipt(r) => /\ e.status = payments[work[r].payment].status
                         /\ e.subscriptionId = payments[work[r].payment].subscriptionId
  /\ MarkRejected(r) => /\ e.status = "REJECTED"
                        /\ e.subscriptionId = payments[work[r].payment].subscriptionId
  /\ MarkCompleted(r) => /\ e.status = "COMPLETED"
                         /\ e.subscriptionId = work[r].subscription

LEMMA UpdatedPayment ==
  ASSUME TypeOK, NEW r \in Requests,
         AttachReceipt(r) \/ MarkCompleted(r) \/ MarkRejected(r)
  PROVE  /\ work[r].payment \in DOMAIN payments
         /\ \E e \in Payment : Updates(r, e)
  <1> DEFINE old == payments[work[r].payment]
  <1>1. /\ work[r] \in Decision /\ work[r].payment \in DOMAIN payments
        /\ pc[r] = "approve:mark" => work[r].subscription \in Nat
    BY DEF TypeOK, AttachReceipt, MarkCompleted, MarkRejected, OnPayment, Deciding, Approving,
       Decision
  <1>2. old \in Payment
    BY <1>1, RowTypes
  <1>3. CASE AttachReceipt(r)
    <2> DEFINE e == [old EXCEPT !.receipt = TRUE]
    <2>1. /\ e \in Payment /\ e.status = old.status /\ e.subscriptionId = old.subscriptionId
          /\ e.user = old.user /\ e.plan = old.plan /\ e.amount = old.amount
          /\ e.isUpgrade = old.isUpgrade /\ e.quote = old.quote
      BY <1>2 DEF Payment
    <2>2. payments' = [payments EXCEPT ![work[r].payment] = e] /\ ~ MarkRejected(r) /\ ~ MarkCompleted(r)
      BY <1>3 DEF AttachReceipt, MarkRejected, MarkCompleted
    <2> HIDE DEF e
    <2> QED BY <1>1, <2>1, <2>2 DEF Updates
  <1>4. CASE MarkRejected(r)
    <2> DEFINE e == [old EXCEPT !.status = "REJECTED"]
    <2>1. /\ e \in Payment /\ e.status = "REJECTED" /\ e.subscriptionId = old.subscriptionId
          /\ e.user = old.user /\ e.plan = old.plan /\ e.amount = old.amount
          /\ e.isUpgrade = old.isUpgrade /\ e.quote = old.quote
      BY <1>2 DEF Payment, Status
    <2>2. payments' = [payments EXCEPT ![work[r].payment] = e] /\ ~ AttachReceipt(r) /\ ~ MarkCompleted(r)
      BY <1>4 DEF AttachReceipt, MarkRejected, MarkCompleted
    <2> HIDE DEF e
    <2> QED BY <1>1, <2>1, <2>2 DEF Updates
  <1>5. CASE MarkCompleted(r)
    <2> DEFINE e == [old EXCEPT !.status = "COMPLETED", !.subscriptionId = work[r].subscription]
    <2>0. work[r].subscription \in Nat
      BY <1>1, <1>5 DEF MarkCompleted
    <2>1. /\ e \in Payment /\ e.status = "COMPLETED" /\ e.subscriptionId = work[r].subscription
          /\ e.user = old.user /\ e.plan = old.plan /\ e.amount = old.amount
          /\ e.isUpgrade = old.isUpgrade /\ e.quote = old.quote
      BY <1>2, <2>0 DEF Payment, Status
    <2>2. payments' = [payments EXCEPT ![work[r].payment] = e] /\ ~ AttachReceipt(r) /\ ~ MarkRejected(r)
      BY <1>5 DEF AttachReceipt, MarkRejected, MarkCompleted
    <2> HIDE DEF e
    <2> QED BY <1>1, <2>1, <2>2 DEF Updates
  <1> QED BY <1>3, <1>4, <1>5

LEMMA UpdateType ==
  ASSUME TypeInv, NEW r \in Requests,
         AttachReceipt(r) \/ MarkCompleted(r) \/ MarkRejected(r)
  PROVE  TypeInv'
  <1>1. PICK e \in Payment : Updates(r, e)
    BY UpdatedPayment DEF TypeInv
  <1>2. /\ payments' \in Seq(Payment) /\ Len(payments') = Len(payments)
        /\ DOMAIN payments' = DOMAIN payments
        /\ payments'[work[r].payment] = e
        /\ \A q \in DOMAIN payments \ {work[r].payment} : payments'[q] = payments[q]
    BY <1>1, RowUpdate, UpdatedPayment DEF TypeInv, TypeOK, Updates
  <1>3. \A p \in DOMAIN payments : payments'[p].amount = payments[p].amount
    BY <1>1, <1>2 DEF Updates
  <1>4. Finish(r) /\ UNCHANGED <<catalogue, subs, redemptions, aborts, history>>
    BY DEF AttachReceipt, MarkCompleted, MarkRejected
  <1>5. TypeOK'
    BY <1>2, <1>4 DEF Finish, Goto, TypeInv, TypeOK, catalogue, history, Steps, Creating,
       OnPayment, Deciding, Approving
  <1>6. ChargeInv'
    BY <1>2, <1>3, <1>4 DEF Finish, Goto, TypeInv, TypeOK, ChargeInv, EveryPaymentCharges, Creating
  <1> QED BY <1>5, <1>6 DEF TypeInv

LEMMA AbortType ==
  ASSUME TypeInv, NEW r \in Requests, Abort(r)
  PROVE  TypeInv'
  <1>1. contested' \subseteq DOMAIN payments
    BY DEF Abort, TypeInv, TypeOK, OnPayment, Deciding, Approving
  <1>2. TypeOK'
    BY <1>1 DEF Abort, Finish, Goto, TypeInv, TypeOK, catalogue, tables, Steps, Creating,
       OnPayment, Deciding, Approving
  <1>3. ChargeInv'
    BY DEF Abort, Finish, Goto, TypeInv, TypeOK, ChargeInv, EveryPaymentCharges, tables, Creating
  <1> QED BY <1>2, <1>3 DEF TypeInv

LEMMA EnvironmentType ==
  ASSUME TypeInv,
         (\E p \in Plans : UpdatePlan(p)) \/ (\E c \in Coupons : SetCouponActive(c)) \/ Tick
  PROVE  TypeInv'
  <1>1. UNCHANGED <<tables, pc, work, aborts, history>>
    BY DEF UpdatePlan, SetCouponActive, Tick
  <1>2. /\ now' \in Nat /\ planEdits' \in Nat
        /\ plans' \in [Plans -> [price : Nat, isActive : BOOLEAN]]
        /\ couponActive' \in [Coupons -> BOOLEAN]
    <2>1. CASE \E p \in Plans : UpdatePlan(p)
      BY <2>1, CatalogueAssumption DEF UpdatePlan, TypeInv, TypeOK
    <2>2. CASE \E c \in Coupons : SetCouponActive(c)
      BY <2>2 DEF SetCouponActive, TypeInv, TypeOK
    <2>3. CASE Tick
      BY <2>3 DEF Tick, TypeInv, TypeOK
    <2> QED BY <2>1, <2>2, <2>3
  <1>3. TypeOK'
    BY <1>1, <1>2 DEF TypeInv, TypeOK, tables, history
  <1>4. ChargeInv'
    BY <1>1 DEF TypeInv, TypeOK, ChargeInv, EveryPaymentCharges, tables, history
  <1> QED BY <1>3, <1>4 DEF TypeInv

LEMMA TypeStep == TypeInv /\ [Next]_vars => TypeInv'
  <1> SUFFICES ASSUME TypeInv, [Next]_vars PROVE TypeInv'
    OBVIOUS
  <1>1. CASE UNCHANGED vars
    BY <1>1 DEF vars, catalogue, tables, history, TypeInv, TypeOK, ChargeInv, EveryPaymentCharges
  <1>2. ASSUME NEW r \in Requests, CreateStep(r) PROVE TypeInv'
    BY <1>2, CreateType, QuoteType, CouponType, InsertType, RedeemType DEF CreateStep
  <1>3. ASSUME NEW r \in Requests, DecideStep(r) PROVE TypeInv'
    BY <1>3, BeginType, LookupType, ActivateType, SwitchType, UpdateType DEF DecideStep
  <1> QED BY <1>1, <1>2, <1>3, AbortType, EnvironmentType DEF Next

\* Every table row, request local and history variable keeps its type.
THEOREM TypeCorrect == Spec => []TypeOK
  <1>1. Spec => []TypeInv
    BY TypeInit, TypeStep, PTL DEF Spec
  <1>2. TypeInv => TypeOK
    BY DEF TypeInv
  <1> QED BY <1>1, <1>2, PTL

\* No payment of amount zero is ever recorded.
THEOREM ChargesAlways == Spec => []EveryPaymentCharges
  <1>1. Spec => []TypeInv
    BY TypeInit, TypeStep, PTL DEF Spec
  <1>2. TypeInv => EveryPaymentCharges
    BY DEF TypeInv, ChargeInv
  <1> QED BY <1>1, <1>2, PTL

----------------------------------------------------------------------------
(***************************************************************************)
(* Decisions.  DecidedOnce alone is not inductive: it must also be known   *)
(* that an uncontested payment has at most one decision in progress and    *)
(* that it is still PENDING while that decision runs.                      *)
(***************************************************************************)
Exact(p) ==
  /\ \A q, r \in InDecision(p) : q = r
  /\ InDecision(p) # {} => payments[p].status = "PENDING"
  /\ grants[p] = IF payments[p].status = "COMPLETED" \/ Granting(p) # {} THEN 1 ELSE 0

DecisionInv == \A p \in DOMAIN payments \ contested : Exact(p)

\* Nothing a decision looks at changes for payment p.
Untouched(p) ==
  /\ payments'[p].status = payments[p].status
  /\ grants'[p] = grants[p]
  /\ InDecision(p)' = InDecision(p)
  /\ Granting(p)' = Granting(p)

LEMMA UntouchedExact ==
  ASSUME NEW p, Exact(p), Untouched(p)
  PROVE  Exact(p)'
  BY DEF Exact, Untouched

\* A step of request r that concerns payment p at most leaves the decisions on
\* every other payment alone.
Local(r, p) ==
  /\ pc' \in [Requests -> Steps]
  /\ \A q \in Requests \ {r} : pc'[q] = pc[q] /\ work'[q] = work[q]
  /\ pc[r] \in Deciding => work[r].payment = p
  /\ pc'[r] \in Deciding => work'[r].payment = p

LEMMA LocalOthers ==
  ASSUME NEW r \in Requests, NEW p, Local(r, p), NEW o, o # p
  PROVE  InDecision(o)' = InDecision(o) /\ Granting(o)' = Granting(o)
  BY DEF Local, InDecision, Granting, Deciding, Approving

LEMMA GrantingDeciding == ASSUME NEW p PROVE Granting(p) \subseteq InDecision(p)
  BY DEF Granting, InDecision, Deciding, Approving

\* Steps outside any decision.
LEMMA QuietDecision ==
  ASSUME TypeInv, DecisionInv, NEW r \in Requests,
         Local(r, 0), pc[r] \notin Deciding, pc'[r] \notin Deciding,
         DOMAIN payments' = DOMAIN payments, UNCHANGED history,
         \A p \in DOMAIN payments : payments'[p].status = payments[p].status
  PROVE  DecisionInv'
  <1>1. \A o : InDecision(o)' = InDecision(o) /\ Granting(o)' = Granting(o)
    BY DEF Local, InDecision, Granting, Deciding, Approving
  <1>2. \A p \in DOMAIN payments : Untouched(p)
    BY <1>1 DEF Untouched, history
  <1> QED BY <1>2, UntouchedExact DEF DecisionInv, history

LEMMA CreateDecision ==
  ASSUME TypeInv, DecisionInv, NEW r \in Requests, CreateStep(r)
  PROVE  DecisionInv'
  <1>1. CASE InsertPayment(r)
    <2>0. PICK n \in Nat : n = Len(payments) + 1
      BY DEF TypeInv, TypeOK
    <2>1. /\ DOMAIN payments' = DOMAIN payments \cup {n}
          /\ payments'[n].status = "PENDING" /\ grants'[n] = 0
          /\ \A p \in DOMAIN payments : payments'[p] = payments[p] /\ grants'[p] = grants[p]
      BY <1>1, <2>0 DEF InsertPayment, TypeInv, TypeOK, NewPayment
    <2>2. \A q \in Requests : pc[q] \in Deciding => work[q].payment \in DOMAIN payments
      BY DEF TypeInv, TypeOK, OnPayment
    <2>3. n \notin DOMAIN payments
      BY <2>0 DEF TypeInv, TypeOK
    <2>4. \A o : InDecision(o)' = InDecision(o) /\ Granting(o)' = Granting(o)
      BY <1>1 DEF InsertPayment, Finish, Goto, TypeInv, TypeOK, InDecision, Granting, Deciding,
         Approving
    <2>5. Exact(n)'
      <3>1. InDecision(n) = {} /\ Granting(n) = {}
        BY <2>2, <2>3, GrantingDeciding DEF InDecision
      <3> QED BY <2>1, <2>4, <3>1 DEF Exact
    <2>6. \A p \in DOMAIN payments : Untouched(p)
      BY <2>1, <2>4 DEF Untouched
    <2>7. contested' = contested
      BY <1>1 DEF InsertPayment
    <2> QED BY <2>1, <2>5, <2>6, <2>7, UntouchedExact DEF DecisionInv
  <1>2. CASE ~ InsertPayment(r)
    <2>1. /\ Local(r, 0) /\ pc[r] \notin Deciding /\ pc'[r] \notin Deciding
          /\ UNCHANGED <<payments, history>>
      <3>1. CASE \E u \in Users, p \in Plans, c \in Coupons \cup {Nil} : BeginCreate(r, u, p, c)
        BY <3>1 DEF BeginCreate, Goto, Local, TypeInv, TypeOK, tables, history, Deciding,
           Approving, Steps, Creating
      <3>2. CASE QuoteFullPrice(r)
        BY <3>2 DEF QuoteFullPrice, AfterQuote, Goto, Local, TypeInv, TypeOK, tables, history,
           Deciding, Approving, Steps, Creating
      <3>3. CASE QuoteUpgrade(r)
        BY <3>3 DEF QuoteUpgrade, AfterQuote, Goto, Local, TypeInv, TypeOK, tables, history,
           Deciding, Approving, Steps, Creating
      <3>4. CASE RefuseQuote(r) \/ RefuseCoupon(r)
        BY <3>4 DEF RefuseQuote, RefuseCoupon, Finish, Goto, Local, TypeInv, TypeOK, tables,
           history, Deciding, Approving, Steps
      <3>5. CASE ApplyCoupon(r)
        BY <3>5 DEF ApplyCoupon, Goto, Local, TypeInv, TypeOK, tables, history, Deciding,
           Approving, Steps, Creating
      <3>6. CASE RecordRedemption(r)
        BY <3>6 DEF RecordRedemption, Finish, Goto, Local, TypeInv, TypeOK, history, Deciding,
           Approving, Steps
      <3> QED BY <1>2, <3>1, <3>2, <3>3, <3>4, <3>5, <3>6 DEF CreateStep
    <2> QED BY <2>1, QuietDecision
  <1> QED BY <1>1, <1>2

\* A decision begins: the payment is PENDING, and either nobody else decides
\* it or it becomes contested.
LEMMA BeginDecision ==
  ASSUME TypeInv, DecisionInv, NEW r \in Requests, NEW p \in DOMAIN payments,
         BeginApprove(r, p) \/ BeginReject(r, p)
  PROVE  DecisionInv'
  <1>1. /\ pc[r] = "idle" /\ payments[p].status = "PENDING"
        /\ pc'[r] \in Deciding \ {"approve:mark"} /\ work'[r].payment = p
        /\ Local(r, p) /\ NoteOverlap(p) /\ UNCHANGED <<payments, grants>>
    <2>1. PICK step \in {"approve:lookup", "approve:activate", "reject:mark"} :
            BeginOnPending(r, p, step)
      BY DEF BeginApprove, BeginReject
    <2>2. NoteOverlap(p) /\ UNCHANGED <<payments, grants>>
      BY DEF BeginApprove, BeginReject, tables
    <2> QED BY <2>1, <2>2 DEF BeginOnPending, Goto, Local, TypeInv, TypeOK, Deciding, Approving, Steps, OnPayment
  <1>2. ASSUME NEW o \in DOMAIN payments \ contested', o # p PROVE Exact(o)'
    <2>1. Untouched(o)
      BY <1>1, <1>2, LocalOthers DEF Untouched
    <2>2. Exact(o)
      BY <1>1, <1>2 DEF DecisionInv, NoteOverlap
    <2> QED BY <2>1, <2>2, UntouchedExact
  <1>3. ASSUME p \notin contested' PROVE Exact(p)'
    <2>1. InDecision(p) = {} /\ p \notin contested
      BY <1>1, <1>3 DEF NoteOverlap
    <2>2. InDecision(p)' = {r} /\ Granting(p)' = {}
      BY <1>1, <2>1 DEF Local, InDecision, Granting, Deciding, Approving
    <2>3. Granting(p) = {} /\ Exact(p)
      BY <2>1, GrantingDeciding DEF DecisionInv
    <2>4. grants[p] = 0
      BY <1>1, <2>3 DEF Exact
    <2> QED BY <1>1, <2>2, <2>4 DEF Exact
  <1> QED BY <1>1, <1>2, <1>3 DEF DecisionInv

\* The decision of request r on payment p moves on: what Exact says of the
\* other payments is not disturbed.
LEMMA DecisionMoves ==
  ASSUME TypeInv, DecisionInv, NEW r \in Requests, NEW p \in DOMAIN payments,
         Local(r, p), contested' = contested, DOMAIN payments' = DOMAIN payments,
         \A o \in DOMAIN payments \ {p} :
           payments'[o].status = payments[o].status /\ grants'[o] = grants[o],
         p \notin contested => Exact(p)'
  PROVE  DecisionInv'
  <1>1. ASSUME NEW o \in DOMAIN payments \ contested, o # p PROVE Exact(o)'
    <2>1. Untouched(o)
      BY <1>1, LocalOthers DEF Untouched
    <2> QED BY <1>1, <2>1, UntouchedExact DEF DecisionInv
  <1> QED BY <1>1 DEF DecisionInv

LEMMA LookupDecision ==
  ASSUME TypeInv, DecisionInv, NEW r \in Requests, LookupForUpgrade(r)
  PROVE  DecisionInv'
  <1>0. PICK p \in DOMAIN payments : p = work[r].payment
    BY DEF TypeInv, TypeOK, LookupForUpgrade, OnPayment, Deciding, Approving
  <1>1. work[r] \in Decision /\ pc[r] = "approve:lookup"
    BY DEF TypeInv, TypeOK, LookupForUpgrade, OnPayment, Deciding, Approving
  <1>2. PICK step, d :
          /\ step \in {"approve:activate", "approve:switch"}
          /\ Goto(r, step, d) /\ d.payment = p
    <2>1. \A s : [work[r] EXCEPT !.subscription = s].payment = p
      BY <1>0, <1>1 DEF Decision
    <2>2. \/ Goto(r, "approve:activate", work[r])
          \/ \E s : Goto(r, "approve:switch", [work[r] EXCEPT !.subscription = s])
      BY DEF LookupForUpgrade
    <2>3. CASE Goto(r, "approve:activate", work[r])
      BY <1>0, <2>3
    <2>4. CASE \E s : Goto(r, "approve:switch", [work[r] EXCEPT !.subscription = s])
      <3>1. PICK s : Goto(r, "approve:switch", [work[r] EXCEPT !.subscription = s])
        BY <2>4
      <3> DEFINE d == [work[r] EXCEPT !.subscription = s]
      <3>2. d.payment = p /\ Goto(r, "approve:switch", d)
        BY <2>1, <3>1
      <3> HIDE DEF d
      <3> QED BY <3>2
    <2> QED BY <2>2, <2>3, <2>4
  <1>3. UNCHANGED <<payments, history>>
    BY DEF LookupForUpgrade, tables
  <1>4. Local(r, p) /\ InDecision(p)' = InDecision(p) /\ Granting(p)' = Granting(p)
    BY <1>0, <1>1, <1>2 DEF Goto, Local, TypeInv, TypeOK, Steps, OnPayment, InDecision, Granting,
       Deciding, Approving
  <1>5. p \notin contested => Exact(p)'
    BY <1>3, <1>4, UntouchedExact DEF DecisionInv, Untouched, history
  <1> QED BY <1>3, <1>4, <1>5, DecisionMoves DEF history

\* The subscription is written: the decision in progress is the only one and
\* the payment had granted nothing.
LEMMA GrantDecision ==
  ASSUME TypeInv, DecisionInv, NEW r \in Requests, Activate(r) \/ SwitchPlan(r)
  PROVE  DecisionInv'
  <1>0. PICK p \in DOMAIN payments : p = work[r].payment
    BY DEF TypeInv, TypeOK, Activate, SwitchPlan, OnPayment, Deciding, Approving
  <1>1. work[r] \in Decision /\ pc[r] \in {"approve:activate", "approve:switch"}
    BY DEF TypeInv, TypeOK, Activate, SwitchPlan, OnPayment, Deciding, Approving
  <1>2. PICK d : Goto(r, "approve:mark", d) /\ d.payment = p
    <2>1. \A s : [work[r] EXCEPT !.subscription = s].payment = p
      BY <1>0, <1>1 DEF Decision
    <2> QED BY <1>0, <2>1 DEF Activate, SwitchPlan
  <1>3. Granted(p) /\ UNCHANGED <<payments, contested>>
    BY <1>0 DEF Activate, SwitchPlan
  <1>4. Local(r, p) /\ r \in InDecision(p) /\ r \notin Granting(p)
    BY <1>0, <1>1, <1>2 DEF Goto, Local, TypeInv, TypeOK, Steps, OnPayment, InDecision, Granting,
       Deciding, Approving
  <1>5. InDecision(p)' = InDecision(p) /\ r \in Granting(p)'
    BY <1>0, <1>1, <1>2 DEF Goto, TypeInv, TypeOK, InDecision, Granting, Deciding, Approving
  <1>6. \A o \in DOMAIN payments \ {p} : grants'[o] = grants[o]
    BY <1>3 DEF Granted, TypeInv, TypeOK
  <1>7. ASSUME p \notin contested PROVE Exact(p)'
    <2>1. InDecision(p) = {r} /\ payments[p].status = "PENDING" /\ Granting(p) = {}
      BY <1>4, <1>7, GrantingDeciding DEF DecisionInv, Exact
    <2>2. grants[p] = 0
      BY <1>7, <2>1 DEF DecisionInv, Exact
    <2>3. grants'[p] = 1
      BY <1>3, <2>2 DEF Granted, TypeInv, TypeOK
    <2> QED BY <1>3, <1>5, <2>1, <2>3 DEF Exact
  <1> QED BY <1>3, <1>4, <1>6, <1>7, DecisionMoves

\* The payment row is written: the request leaves, and the status says what
\* the request had done.
LEMMA MarkDecision ==
  ASSUME TypeInv, DecisionInv, NEW r \in Requests, MarkCompleted(r) \/ MarkRejected(r)
  PROVE  DecisionInv'
  <1>0. PICK p \in DOMAIN payments : p = work[r].payment
    BY DEF TypeInv, TypeOK, MarkCompleted, MarkRejected, OnPayment, Deciding, Approving
  <1>1. PICK e \in Payment : Updates(r, e)
    BY UpdatedPayment DEF TypeInv
  <1>2. /\ DOMAIN payments' = DOMAIN payments /\ payments'[p] = e
        /\ \A o \in DOMAIN payments \ {p} : payments'[o] = payments[o]
    BY <1>0, <1>1, RowUpdate DEF TypeInv, TypeOK, Updates
  <1>3. Finish(r) /\ UNCHANGED history
    BY DEF MarkCompleted, MarkRejected
  <1>4. Local(r, p) /\ r \in InDecision(p)
    BY <1>0, <1>3 DEF MarkCompleted, MarkRejected, Finish, Goto, Local, TypeInv, TypeOK, Steps,
       InDecision, Deciding, Approving
  <1>5. ASSUME p \notin contested PROVE Exact(p)'
    <2>1. InDecision(p) = {r} /\ payments[p].status = "PENDING" /\ Exact(p)
      BY <1>4, <1>5 DEF DecisionInv, Exact
    <2>2. InDecision(p)' = {} /\ Granting(p)' = {}
      BY <1>3, <1>4, <2>1 DEF Finish, Goto, Local, TypeInv, TypeOK, InDecision, Granting,
         Deciding, Approving
    <2>3. CASE MarkCompleted(r)
      <3>1. r \in Granting(p) /\ e.status = "COMPLETED"
        BY <1>0, <1>1, <2>3 DEF MarkCompleted, Granting, Updates
      <3>2. grants[p] = 1
        BY <2>1, <3>1 DEF Exact
      <3> QED BY <1>2, <1>3, <2>2, <3>1, <3>2 DEF Exact, history
    <2>4. CASE MarkRejected(r)
      <3>1. Granting(p) = {} /\ e.status = "REJECTED"
        BY <1>0, <1>1, <2>1, <2>4, GrantingDeciding DEF MarkRejected, Granting, Updates
      <3>2. grants[p] = 0
        BY <2>1, <3>1 DEF Exact
      <3> QED BY <1>2, <1>3, <2>2, <3>1, <3>2 DEF Exact, history
    <2> QED BY <2>3, <2>4
  <1> QED BY <1>2, <1>3, <1>4, <1>5, DecisionMoves DEF history

\* A request dies: an approval between its two writes takes its payment out.
LEMMA AbortDecision ==
  ASSUME TypeInv, DecisionInv, NEW r \in Requests, Abort(r)
  PROVE  DecisionInv'
  <1>1. Finish(r) /\ UNCHANGED <<payments, grants>>
    BY DEF Abort, tables
  <1>2. CASE pc[r] \notin Deciding
    <2>1. contested' = contested
      BY <1>2 DEF Abort, Deciding, Approving
    <2>2. Local(r, 0) /\ pc'[r] \notin Deciding
      BY <1>1, <1>2 DEF Finish, Goto, Local, TypeInv, TypeOK, Steps, Deciding, Approving
    <2> QED BY <1>1, <1>2, <2>1, <2>2, QuietDecision DEF history
  <1>3. CASE pc[r] \in Deciding
    <2>0. PICK p \in DOMAIN payments : p = work[r].payment
      BY <1>3 DEF TypeInv, TypeOK, OnPayment
    <2>1. Local(r, p) /\ r \in InDecision(p)
      BY <1>1, <1>3, <2>0 DEF Finish, Goto, Local, TypeInv, TypeOK, Steps, InDecision, Deciding,
         Approving
    <2>2. CASE pc[r] = "approve:mark"
      <3>1. contested' = contested \cup {p}
        BY <2>0, <2>2 DEF Abort
      <3>2. ASSUME NEW o \in DOMAIN payments \ contested' PROVE Exact(o)'
        <4>1. Untouched(o) /\ Exact(o)
          BY <1>1, <2>1, <3>1, <3>2, LocalOthers DEF Untouched, DecisionInv
        <4> QED BY <4>1, UntouchedExact
      <3> QED BY <1>1, <3>2 DEF DecisionInv
    <2>3. CASE pc[r] # "approve:mark"
      <3>1. contested' = contested
        BY <2>3 DEF Abort
      <3>2. ASSUME p \notin contested PROVE Exact(p)'
        <4>1. InDecision(p) = {r} /\ Granting(p) = {} /\ Exact(p)
          BY <2>1, <2>3, <3>2, GrantingDeciding DEF DecisionInv, Exact, Granting
        <4>2. InDecision(p)' = {} /\ Granting(p)' = {}
          BY <1>1, <2>1, <4>1 DEF Finish, Goto, Local, TypeInv, TypeOK, InDecision, Granting,
             Deciding, Approving
        <4> QED BY <1>1, <4>1, <4>2 DEF Exact
      <3> QED BY <1>1, <2>1, <3>1, <3>2, DecisionMoves
    <2> QED BY <2>2, <2>3
  <1> QED BY <1>2, <1>3

LEMMA AttachDecision ==
  ASSUME TypeInv, DecisionInv, NEW r \in Requests,
         AttachReceipt(r) \/ \E p \in DOMAIN payments : BeginAttach(r, p)
  PROVE  DecisionInv'
  <1>1. CASE \E p \in DOMAIN payments : BeginAttach(r, p)
    <2>1. /\ Local(r, 0) /\ pc[r] \notin Deciding /\ pc'[r] \notin Deciding
          /\ UNCHANGED <<payments, history>>
      BY <1>1 DEF BeginAttach, BeginOnPending, Goto, Local, TypeInv, TypeOK, tables, history,
         Steps, OnPayment, Deciding, Approving
    <2> QED BY <2>1, QuietDecision
  <1>2. CASE AttachReceipt(r)
    <2>1. PICK e \in Payment : Updates(r, e)
      BY <1>2, UpdatedPayment DEF TypeInv
    <2>2. /\ DOMAIN payments' = DOMAIN payments
          /\ \A p \in DOMAIN payments : payments'[p].status = payments[p].status
      BY <1>2, <2>1, RowUpdate, UpdatedPayment DEF TypeInv, TypeOK, Updates
    <2>3. Local(r, 0) /\ pc[r] \notin Deciding /\ pc'[r] \notin Deciding /\ UNCHANGED history
      BY <1>2 DEF AttachReceipt, Finish, Goto, Local, TypeInv, TypeOK, Steps, Deciding, Approving
    <2> QED BY <2>2, <2>3, QuietDecision
  <1> QED BY <1>1, <1>2

LEMMA DecisionStep == TypeInv /\ DecisionInv /\ [Next]_vars => DecisionInv'
  <1> SUFFICES ASSUME TypeInv, DecisionInv, [Next]_vars PROVE DecisionInv'
    OBVIOUS
  <1>1. ASSUME UNCHANGED <<tables, pc, work, history>> PROVE DecisionInv'
    BY <1>1 DEF DecisionInv, Exact, InDecision, Granting, tables, history
  <1>2. CASE \/ UNCHANGED vars \/ Tick
             \/ \E p \in Plans : UpdatePlan(p)
             \/ \E c \in Coupons : SetCouponActive(c)
    BY <1>1, <1>2 DEF vars, Tick, UpdatePlan, SetCouponActive
  <1>3. ASSUME NEW r \in Requests, DecideStep(r) PROVE DecisionInv'
    BY <1>3, AttachDecision, BeginDecision, LookupDecision, GrantDecision,
       MarkDecision DEF DecideStep
  <1> QED BY <1>2, <1>3, CreateDecision, AbortDecision DEF Next

LEMMA DecisionInit == Init => DecisionInv
  BY DEF Init, DecisionInv

LEMMA Inductive == Spec => [](TypeInv /\ DecisionInv)
  BY TypeInit, TypeStep, DecisionInit, DecisionStep, PTL DEF Spec

\* Every payment that no two decisions overlapped on, and whose approval did
\* not die between its writes, grants one subscription if it is approved and
\* none otherwise.
THEOREM DecidesOnce == Spec => []DecidedOnce
  <1>1. TypeInv /\ DecisionInv => DecidedOnce
    BY DEF DecisionInv, Exact, DecidedOnce
  <1> QED BY <1>1, Inductive, PTL

\* Only the two marking steps write a status, and each is a decision in
\* progress on its payment.
LEMMA StatusWriters ==
  ASSUME TypeInv, [Next]_vars, NEW p \in DOMAIN payments,
         payments'[p].status # payments[p].status
  PROVE  InDecision(p) # {}
  <1>1. ASSUME UNCHANGED payments PROVE FALSE
    BY <1>1
  <1>2. PICK r \in Requests : \/ CreateStep(r) \/ DecideStep(r)
                              \/ Abort(r)
    BY <1>1 DEF Next, vars, tables, Tick, UpdatePlan, SetCouponActive
  <1>3. CASE CreateStep(r)
    <2>1. InsertPayment(r)
      BY <1>1, <1>3 DEF CreateStep, BeginCreate, QuoteFullPrice, QuoteUpgrade, RefuseQuote,
         ApplyCoupon, RefuseCoupon, RecordRedemption, tables
    <2> QED BY <2>1 DEF InsertPayment, TypeInv, TypeOK
  <1>4. CASE Abort(r)
    BY <1>1, <1>4 DEF Abort, tables
  <1>5. CASE DecideStep(r)
    <2>1. AttachReceipt(r) \/ MarkCompleted(r) \/ MarkRejected(r)
      BY <1>1, <1>5 DEF DecideStep, BeginAttach, BeginApprove, BeginReject, LookupForUpgrade,
         Activate, SwitchPlan, tables
    <2>2. PICK e \in Payment : Updates(r, e)
      BY <2>1, UpdatedPayment DEF TypeInv
    <2>3. p = work[r].payment /\ ~ AttachReceipt(r)
      BY <2>1, <2>2, RowUpdate, UpdatedPayment DEF TypeInv, TypeOK, Updates
    <2>4. r \in InDecision(p)
      BY <2>1, <2>3 DEF MarkCompleted, MarkRejected, InDecision, Deciding, Approving
    <2> QED BY <2>4
  <1> QED BY <1>2, <1>3, <1>4, <1>5

\* A contested payment stays contested.
LEMMA ContestedGrows == ASSUME [Next]_vars PROVE contested \subseteq contested'
  <1>1. CASE UNCHANGED vars
    BY <1>1 DEF vars, history
  <1>2. ASSUME NEW r \in Requests, CreateStep(r) PROVE contested' = contested
    BY <1>2 DEF CreateStep, BeginCreate, QuoteFullPrice, QuoteUpgrade, RefuseQuote, ApplyCoupon,
       RefuseCoupon, InsertPayment, RecordRedemption, history
  <1>3. ASSUME NEW r \in Requests, DecideStep(r) PROVE contested \subseteq contested'
    BY <1>3 DEF DecideStep, BeginAttach, BeginApprove, BeginReject, NoteOverlap, AttachReceipt,
       LookupForUpgrade, Activate, SwitchPlan, MarkCompleted, MarkRejected, history
  <1>4. ASSUME NEW r \in Requests, Abort(r) PROVE contested \subseteq contested'
    BY <1>4 DEF Abort
  <1> QED BY <1>1, <1>2, <1>3, <1>4 DEF Next, UpdatePlan, SetCouponActive, Tick, history

\* An approved or rejected payment keeps its status for ever, as long as no
\* two decisions overlap on it.
THEOREM DecisionsAreFinal == Spec => DecisionIsFinal
  <1>1. TypeInv /\ DecisionInv /\ [Next]_vars =>
          [\A p \in DOMAIN payments \ contested' :
             payments[p].status # "PENDING" => payments'[p].status = payments[p].status]_vars
    <2> SUFFICES ASSUME TypeInv, DecisionInv, [Next]_vars,
                        NEW p \in DOMAIN payments \ contested',
                        payments[p].status # "PENDING"
                 PROVE  payments'[p].status = payments[p].status
      OBVIOUS
    <2>1. InDecision(p) = {}
      BY ContestedGrows DEF DecisionInv, Exact
    <2> QED BY <2>1, StatusWriters
  <1> QED BY <1>1, Inductive, PTL DEF Spec, DecisionIsFinal

----------------------------------------------------------------------------
(***************************************************************************)
(* Terms.  Which subscription an approval is about is read before it is    *)
(* written; it stays right because no handler moves a row to another user. *)
(***************************************************************************)
SamePayment(p) ==
  /\ p \in DOMAIN payments'
  /\ payments'[p].user = payments[p].user /\ payments'[p].plan = payments[p].plan
  /\ payments'[p].amount = payments[p].amount /\ payments'[p].quote = payments[p].quote
  /\ payments'[p].isUpgrade = payments[p].isUpgrade
SameTerm(s) ==
  /\ s \in DOMAIN subs'
  /\ subs'[s].user = subs[s].user
  /\ subs'[s].startDate = subs[s].startDate /\ subs'[s].endDate = subs[s].endDate

\* The handlers that write each table.
LEMMA Writers ==
  ASSUME [Next]_vars
  PROVE  /\ \/ payments' = payments
            \/ \E r \in Requests : \/ InsertPayment(r) \/ AttachReceipt(r)
                                   \/ MarkCompleted(r) \/ MarkRejected(r)
         /\ subs' = subs \/ \E r \in Requests : Activate(r) \/ SwitchPlan(r)
         /\ redemptions' = redemptions \/ \E r \in Requests : RecordRedemption(r)
  <1>1. CASE UNCHANGED vars
    BY <1>1 DEF vars, tables
  <1>2. ASSUME NEW r \in Requests, CreateStep(r)
        PROVE  /\ payments' = payments \/ InsertPayment(r)
               /\ subs' = subs
               /\ redemptions' = redemptions \/ RecordRedemption(r)
    BY <1>2 DEF CreateStep, BeginCreate, QuoteFullPrice, QuoteUpgrade, RefuseQuote, ApplyCoupon,
       RefuseCoupon, InsertPayment, RecordRedemption, tables
  <1>3. ASSUME NEW r \in Requests, DecideStep(r)
        PROVE  /\ payments' = payments \/ AttachReceipt(r) \/ MarkCompleted(r) \/ MarkRejected(r)
               /\ subs' = subs \/ Activate(r) \/ SwitchPlan(r)
               /\ redemptions' = redemptions
    BY <1>3 DEF DecideStep, BeginAttach, BeginApprove, BeginReject, AttachReceipt,
       LookupForUpgrade, Activate, SwitchPlan, MarkCompleted, MarkRejected, tables
  <1>4. CASE \/ \E r \in Requests : Abort(r)
             \/ \E p \in Plans : UpdatePlan(p)
             \/ \E c \in Coupons : SetCouponActive(c)
             \/ Tick
    BY <1>4 DEF Abort, UpdatePlan, SetCouponActive, Tick, tables
  <1> QED BY <1>1, <1>2, <1>3, <1>4 DEF Next

\* No handler changes what a row was created with, but for the plan of a
\* subscription.
LEMMA RowsKeep ==
  ASSUME TypeInv, [Next]_vars
  PROVE  /\ \A p \in DOMAIN payments : SamePayment(p)
         /\ \A s \in DOMAIN subs : SameTerm(s)
  <1>1. ASSUME NEW p \in DOMAIN payments PROVE SamePayment(p)
    <2>1. CASE payments' = payments
      BY <2>1 DEF SamePayment
    <2>2. CASE \E r \in Requests : InsertPayment(r)
      BY <2>2 DEF InsertPayment, SamePayment, TypeInv, TypeOK
    <2>3. ASSUME NEW r \in Requests, AttachReceipt(r) \/ MarkCompleted(r) \/ MarkRejected(r)
          PROVE  SamePayment(p)
      <3>1. PICK e \in Payment : Updates(r, e)
        BY <2>3, UpdatedPayment DEF TypeInv
      <3>2. /\ DOMAIN payments' = DOMAIN payments /\ payments'[work[r].payment] = e
            /\ \A q \in DOMAIN payments \ {work[r].payment} : payments'[q] = payments[q]
        BY <2>3, <3>1, RowUpdate, UpdatedPayment DEF TypeInv, TypeOK, Updates
      <3>3. /\ e.user = payments[work[r].payment].user /\ e.plan = payments[work[r].payment].plan
            /\ e.amount = payments[work[r].payment].amount
            /\ e.quote = payments[work[r].payment].quote
            /\ e.isUpgrade = payments[work[r].payment].isUpgrade
        BY <3>1 DEF Updates
      <3> QED BY <3>2, <3>3 DEF SamePayment
    <2> QED BY <2>1, <2>2, <2>3, Writers
  <1>2. ASSUME NEW s \in DOMAIN subs PROVE SameTerm(s)
    <2>1. CASE subs' = subs
      BY <2>1 DEF SameTerm
    <2>2. CASE \E r \in Requests : Activate(r)
      BY <2>2 DEF Activate, SameTerm, TypeInv, TypeOK
    <2>3. ASSUME NEW r \in Requests, SwitchPlan(r) PROVE SameTerm(s)
      BY <2>3, RowTypes DEF SwitchPlan, SameTerm, TypeInv, TypeOK, Subscription
    <2> QED BY <2>1, <2>2, <2>3, Writers
  <1> QED BY <1>1, <1>2

\* The approval under way on a payment works on a subscription of the payer,
\* and it switches plans only for an upgrade.
OwnTerm(r) ==
  /\ pc[r] \in {"approve:lookup", "approve:switch"} => payments[work[r].payment].isUpgrade
  /\ pc[r] \in {"approve:switch", "approve:mark"} =>
       subs[work[r].subscription].user = payments[work[r].payment].user

TermInv ==
  /\ \A r \in Requests : OwnTerm(r)
  /\ \A p \in DOMAIN payments :
       payments[p].status = "COMPLETED" =>
         LET s == payments[p].subscriptionId
         IN s \in DOMAIN subs /\ subs[s].user = payments[p].user
  /\ \A p \in DOMAIN payments \ contested :
       payments[p].status # "COMPLETED" => payments[p].subscriptionId = NoSubscription

\* A request that does not move keeps its subscription.
LEMMA OwnTermStays ==
  ASSUME TypeInv, [Next]_vars, TermInv, NEW q \in Requests, pc'[q] = pc[q], work'[q] = work[q]
  PROVE  OwnTerm(q)'
  <1>1. pc[q] \in {"approve:lookup", "approve:switch", "approve:mark"} =>
          work[q].payment \in DOMAIN payments
    BY DEF TypeInv, TypeOK, OnPayment, Deciding, Approving
  <1>2. pc[q] \in {"approve:switch", "approve:mark"} => work[q].subscription \in DOMAIN subs
    BY DEF TypeInv, TypeOK
  <1>3. OwnTerm(q)
    BY DEF TermInv
  <1> QED BY <1>1, <1>2, <1>3, RowsKeep DEF OwnTerm, SamePayment, SameTerm

\* Steps of a request that lead nowhere near a subscription.
LEMMA OwnTermElsewhere ==
  ASSUME NEW q \in Requests, pc'[q] \notin {"approve:lookup", "approve:switch", "approve:mark"}
  PROVE  OwnTerm(q)'
  BY DEF OwnTerm

\* What a step of request r makes of the other requests, and of r itself
\* where r does not approve.
LEMMA OneMoves ==
  ASSUME TypeInv, [Next]_vars
  PROVE  \/ UNCHANGED <<pc, work>>
         \/ \E r \in Requests :
              /\ \A q \in Requests \ {r} : pc'[q] = pc[q] /\ work'[q] = work[q]
              /\ \/ pc'[r] \notin {"approve:lookup", "approve:switch", "approve:mark"}
                 \/ \E p \in DOMAIN payments : BeginApprove(r, p)
                 \/ LookupForUpgrade(r) \/ Activate(r) \/ SwitchPlan(r)
  <1> DEFINE Others(r) == \A q \in Requests \ {r} : pc'[q] = pc[q] /\ work'[q] = work[q]
             Away(r) == pc'[r] \notin {"approve:lookup", "approve:switch", "approve:mark"}
  <1>0. /\ \A r \in Requests : \A step, d : Goto(r, step, d) => Others(r) /\ pc'[r] = step
        /\ \A r \in Requests : Finish(r) => Others(r) /\ Away(r)
    BY DEF Goto, Finish, TypeInv, TypeOK
  <1>1. ASSUME NEW r \in Requests, CreateStep(r) PROVE Others(r) /\ Away(r)
    <2>1. CASE \E u \in Users, p \in Plans, c \in Coupons \cup {Nil} : BeginCreate(r, u, p, c)
      BY <1>0, <2>1 DEF BeginCreate
    <2>0. \A d : AfterQuote(r, d) => Others(r) /\ Away(r)
      <3>1. ASSUME NEW d, AfterQuote(r, d) PROVE Others(r) /\ Away(r)
        <4>1. PICK step \in {"create:insert", "create:coupon"} : Goto(r, step, d)
          BY <3>1 DEF AfterQuote
        <4> QED BY <1>0, <4>1
      <3> QED BY <3>1
    <2>2. CASE QuoteFullPrice(r) \/ QuoteUpgrade(r) \/ RefuseQuote(r)
      BY <1>0, <2>0, <2>2 DEF QuoteFullPrice, QuoteUpgrade, RefuseQuote
    <2>3. CASE ApplyCoupon(r) \/ RefuseCoupon(r) \/ InsertPayment(r) \/ RecordRedemption(r)
      BY <1>0, <2>3 DEF ApplyCoupon, RefuseCoupon, InsertPayment, RecordRedemption
    <2> QED BY <1>1, <2>1, <2>2, <2>3 DEF CreateStep
  <1>2. ASSUME NEW r \in Requests, DecideStep(r)
        PROVE  /\ Others(r)
               /\ \/ Away(r)
                  \/ \E p \in DOMAIN payments : BeginApprove(r, p)
                  \/ LookupForUpgrade(r) \/ Activate(r) \/ SwitchPlan(r)
    <2>1. ASSUME NEW p \in DOMAIN payments, BeginAttach(r, p) \/ BeginReject(r, p)
          PROVE  Others(r) /\ Away(r)
      BY <1>0, <2>1 DEF BeginAttach, BeginReject, BeginOnPending
    <2>2. CASE AttachReceipt(r) \/ MarkCompleted(r) \/ MarkRejected(r)
      BY <1>0, <2>2 DEF AttachReceipt, MarkCompleted, MarkRejected
    <2>3. ASSUME NEW p \in DOMAIN payments, BeginApprove(r, p) PROVE Others(r)
      BY <1>0, <2>3 DEF BeginApprove, BeginOnPending
    <2>4. CASE LookupForUpgrade(r) \/ Activate(r) \/ SwitchPlan(r)
      BY <1>0, <2>4 DEF LookupForUpgrade, Activate, SwitchPlan
    <2> QED BY <1>2, <2>1, <2>2, <2>3, <2>4 DEF DecideStep
  <1>3. ASSUME NEW r \in Requests, Abort(r) PROVE Others(r) /\ Away(r)
    BY <1>0, <1>3 DEF Abort
  <1>4. ASSUME \/ UNCHANGED vars \/ Tick
               \/ \E p \in Plans : UpdatePlan(p)
               \/ \E c \in Coupons : SetCouponActive(c)
        PROVE  UNCHANGED <<pc, work>>
    BY <1>4 DEF vars, Tick, UpdatePlan, SetCouponActive
  <1> HIDE DEF Others, Away
  <1>5. \/ UNCHANGED <<pc, work>>
        \/ \E r \in Requests :
             /\ Others(r)
             /\ \/ Away(r)
                \/ \E p \in DOMAIN payments : BeginApprove(r, p)
                \/ LookupForUpgrade(r) \/ Activate(r) \/ SwitchPlan(r)
    BY <1>1, <1>2, <1>3, <1>4 DEF Next
  <1> QED BY <1>5 DEF Others, Away

\* The steps of an approval.
LEMMA ApprovalTerm ==
  ASSUME TypeInv, [Next]_vars, TermInv, NEW r \in Requests,
         \/ \E p \in DOMAIN payments : BeginApprove(r, p)
         \/ LookupForUpgrade(r) \/ Activate(r) \/ SwitchPlan(r)
  PROVE  OwnTerm(r)'
  <1>1. ASSUME NEW p \in DOMAIN payments, BeginApprove(r, p) PROVE OwnTerm(r)'
    <2>1. /\ pc'[r] = IF payments[p].isUpgrade THEN "approve:lookup" ELSE "approve:activate"
          /\ work'[r].payment = p /\ payments' = payments
      BY <1>1 DEF BeginApprove, BeginOnPending, Goto, TypeInv, TypeOK, tables
    <2> QED BY <2>1 DEF OwnTerm
  <1>2. CASE LookupForUpgrade(r)
    <2>1. /\ work[r] \in Decision /\ work[r].payment \in DOMAIN payments
          /\ payments[work[r].payment].isUpgrade
          /\ payments' = payments /\ subs' = subs
      BY <1>2 DEF LookupForUpgrade, TypeInv, TypeOK, TermInv, OwnTerm, OnPayment, Deciding,
         Approving, tables
    <2>2. payments[work[r].payment].user \in Users
      BY <2>1, RowTypes DEF TypeInv, Payment
    <2>3. CASE ActiveSubscription(payments[work[r].payment].user) = {}
      <3>1. pc'[r] = "approve:activate"
        BY <1>2, <2>3 DEF LookupForUpgrade, Goto, TypeInv, TypeOK
      <3> QED BY <3>1 DEF OwnTerm
    <2>4. ASSUME NEW s \in ActiveSubscription(payments[work[r].payment].user),
                 Goto(r, "approve:switch", [work[r] EXCEPT !.subscription = s])
          PROVE  OwnTerm(r)'
      <3>1. subs[s].user = payments[work[r].payment].user
        BY <2>2, ActiveIsRow
      <3>2. /\ [work[r] EXCEPT !.subscription = s].subscription = s
            /\ [work[r] EXCEPT !.subscription = s].payment = work[r].payment
        BY <2>1 DEF Decision
      <3>3. pc'[r] = "approve:switch" /\ work'[r] = [work[r] EXCEPT !.subscription = s]
        BY <2>4 DEF Goto, TypeInv, TypeOK
      <3> QED BY <2>1, <3>1, <3>2, <3>3 DEF OwnTerm
    <2> QED BY <1>2, <2>3, <2>4 DEF LookupForUpgrade
  <1>3. CASE Activate(r)
    <2>1. work[r] \in Decision /\ work[r].payment \in DOMAIN payments
      BY <1>3 DEF Activate, TypeInv, TypeOK, OnPayment, Deciding, Approving
    <2>2. /\ [work[r] EXCEPT !.subscription = Len(subs) + 1].subscription = Len(subs) + 1
          /\ [work[r] EXCEPT !.subscription = Len(subs) + 1].payment = work[r].payment
      BY <2>1 DEF Decision
    <2>3. /\ pc'[r] = "approve:mark" /\ payments' = payments
          /\ work'[r] = [work[r] EXCEPT !.subscription = Len(subs) + 1]
      BY <1>3 DEF Activate, Goto, TypeInv, TypeOK
    <2>4. subs'[Len(subs) + 1] = NewTerm(work[r].payment)
      BY <1>3 DEF Activate, TypeInv, TypeOK
    <2>5. subs'[Len(subs) + 1].user = payments[work[r].payment].user
      BY <2>4 DEF NewTerm
    <2> QED BY <2>2, <2>3, <2>5 DEF OwnTerm
  <1>4. CASE SwitchPlan(r)
    <2>1. /\ pc'[r] = "approve:mark" /\ payments' = payments /\ work'[r] = work[r]
      BY <1>4 DEF SwitchPlan, Goto, TypeInv, TypeOK
    <2>2. /\ work[r].subscription \in DOMAIN subs
          /\ subs[work[r].subscription].user = payments[work[r].payment].user
      BY <1>4 DEF SwitchPlan, TypeInv, TypeOK, TermInv, OwnTerm
    <2>3. subs'[work[r].subscription].user = subs[work[r].subscription].user
      BY <2>2, RowsKeep DEF SameTerm
    <2> QED BY <2>1, <2>2, <2>3 DEF OwnTerm
  <1> QED BY <1>1, <1>2, <1>3, <1>4

LEMMA TermInit == Init => TermInv
  BY DEF Init, TermInv, OwnTerm

LEMMA CompletedStep ==
  ASSUME TypeInv, DecisionInv, TermInv, [Next]_vars, NEW p \in DOMAIN payments'
  PROVE  LET s == payments'[p].subscriptionId IN
         /\ payments'[p].status = "COMPLETED" =>
              s \in DOMAIN subs' /\ subs'[s].user = payments'[p].user
         /\ p \notin contested' /\ payments'[p].status # "COMPLETED" => s = NoSubscription
  <1> DEFINE Kept == /\ p \in DOMAIN payments
                     /\ payments'[p].status = payments[p].status
                     /\ payments'[p].subscriptionId = payments[p].subscriptionId
  <1>1. CASE Kept
    <2>1. SamePayment(p) /\ \A s \in DOMAIN subs : SameTerm(s)
      BY <1>1, RowsKeep
    <2>2. p \notin contested' => p \notin contested
      BY ContestedGrows
    <2> QED BY <1>1, <2>1, <2>2 DEF TermInv, SamePayment, SameTerm
  <1>2. CASE payments' = payments
    BY <1>1, <1>2
  <1>3. ASSUME NEW r \in Requests, InsertPayment(r) PROVE Kept \/ payments'[p] = NewPayment(work[r])
    BY <1>3 DEF InsertPayment, TypeInv, TypeOK
  <1>4. ASSUME NEW r \in Requests, payments'[p] = NewPayment(work[r])
        PROVE  payments'[p].status = "PENDING" /\ payments'[p].subscriptionId = NoSubscription
    BY <1>4 DEF NewPayment
  <1>5. ASSUME NEW r \in Requests, AttachReceipt(r) \/ MarkCompleted(r) \/ MarkRejected(r), ~ Kept
        PROVE  LET s == payments'[p].subscriptionId IN
               /\ payments'[p].status = "COMPLETED" =>
                    s \in DOMAIN subs' /\ subs'[s].user = payments'[p].user
               /\ p \notin contested' /\ payments'[p].status # "COMPLETED" => s = NoSubscription
    <2>1. PICK e \in Payment : Updates(r, e)
      BY <1>5, UpdatedPayment DEF TypeInv
    <2>2. /\ DOMAIN payments' = DOMAIN payments /\ payments'[work[r].payment] = e
          /\ work[r].payment \in DOMAIN payments
          /\ \A q \in DOMAIN payments \ {work[r].payment} : payments'[q] = payments[q]
      BY <1>5, <2>1, RowUpdate, UpdatedPayment DEF TypeInv, TypeOK, Updates
    <2>3. p = work[r].payment
      BY <1>5, <2>2
    <2>4. ~ AttachReceipt(r)
      BY <1>5, <2>1, <2>2, <2>3 DEF Updates
    <2>5. CASE MarkCompleted(r)
      <3>1. /\ e.status = "COMPLETED" /\ e.subscriptionId = work[r].subscription
            /\ e.user = payments[p].user
        BY <2>1, <2>3, <2>5 DEF Updates
      <3>2. /\ work[r].subscription \in DOMAIN subs
            /\ subs[work[r].subscription].user = payments[p].user /\ subs' = subs
        BY <2>3, <2>5 DEF MarkCompleted, TypeInv, TypeOK, TermInv, OwnTerm
      <3> QED BY <2>2, <2>3, <3>1, <3>2
    <2>6. CASE MarkRejected(r)
      <3>1. e.status = "REJECTED" /\ e.subscriptionId = payments[p].subscriptionId
        BY <2>1, <2>3, <2>6 DEF Updates
      <3>2. r \in InDecision(p) /\ contested' = contested
        BY <2>3, <2>6 DEF MarkRejected, InDecision, Deciding, Approving, history
      <3>3. p \notin contested' => payments[p].status = "PENDING"
        BY <2>2, <2>3, <3>2 DEF DecisionInv, Exact
      <3> QED BY <2>2, <2>3, <3>1, <3>2, <3>3 DEF TermInv
    <2> QED BY <1>5, <2>4, <2>5, <2>6
  <1> HIDE DEF Kept
  <1> QED BY <1>1, <1>2, <1>3, <1>4, <1>5, Writers

LEMMA TermStep == TypeInv /\ DecisionInv /\ TermInv /\ [Next]_vars => TermInv'
  <1> SUFFICES ASSUME TypeInv, DecisionInv, TermInv, [Next]_vars PROVE TermInv'
    OBVIOUS
  <1>1. ASSUME NEW q \in Requests PROVE OwnTerm(q)'
    BY OneMoves, OwnTermStays, OwnTermElsewhere, ApprovalTerm
  <1> QED BY <1>1, CompletedStep DEF TermInv

\* A completed payment names a subscription of its payer; another one on which
\* no two decisions overlapped names none.
THEOREM CompletedNameTheirs == Spec => []CompletedNamesOwnTerm
  <1>1. Spec => []TermInv
    BY Inductive, TermInit, TermStep, PTL DEF Spec
  <1>2. TypeInv /\ TermInv => CompletedNamesOwnTerm
    BY DEF TermInv, CompletedNamesOwnTerm
  <1> QED BY <1>1, <1>2, Inductive, PTL

\* No step moves the period of a subscription that exists, and its plan
\* changes only by an upgrade its own user has paid for.
THEOREM TermsStayFixed == Spec => TermFixed
  <1>1. Spec => []TermInv
    BY Inductive, TermInit, TermStep, PTL DEF Spec
  <1>2. TypeInv /\ TermInv /\ [Next]_vars =>
          [\A s \in DOMAIN subs :
             /\ subs'[s].startDate = subs[s].startDate
             /\ subs'[s].endDate = subs[s].endDate
             /\ subs'[s].plan # subs[s].plan =>
                  \E r \in Requests :
                    /\ pc[r] = "approve:switch"
                    /\ payments[work[r].payment].user = subs[s].user
                    /\ payments[work[r].payment].isUpgrade]_vars
    <2> SUFFICES ASSUME TypeInv, TermInv, [Next]_vars, NEW s \in DOMAIN subs
                 PROVE  /\ subs'[s].startDate = subs[s].startDate
                        /\ subs'[s].endDate = subs[s].endDate
                        /\ subs'[s].plan # subs[s].plan =>
                             \E r \in Requests :
                               /\ pc[r] = "approve:switch"
                               /\ payments[work[r].payment].user = subs[s].user
                               /\ payments[work[r].payment].isUpgrade
      OBVIOUS
    <2>1. SameTerm(s)
      BY RowsKeep
    <2>2. ASSUME subs'[s].plan # subs[s].plan
          PROVE  \E r \in Requests : /\ pc[r] = "approve:switch"
                                     /\ payments[work[r].payment].user = subs[s].user
                                     /\ payments[work[r].payment].isUpgrade
      <3>1. PICK r \in Requests : Activate(r) \/ SwitchPlan(r)
        BY <2>2, Writers
      <3>2. ~ Activate(r)
        BY <2>2 DEF Activate, TypeInv, TypeOK
      <3>3. s = work[r].subscription /\ pc[r] = "approve:switch"
        BY <2>2, <3>1, <3>2, RowTypes DEF SwitchPlan, TypeInv, TypeOK, Subscription
      <3> QED BY <3>3 DEF TermInv, OwnTerm
    <2> QED BY <2>1, <2>2 DEF SameTerm
  <1> QED BY <1>1, <1>2, Inductive, PTL DEF Spec, TermFixed

----------------------------------------------------------------------------
(***************************************************************************)
(* Coupons.  The discount is taken off before its redemption is written;   *)
(* between the two the request alone knows of it, and no other request     *)
(* redeems for the payment it has inserted.                                *)
(***************************************************************************)
CouponSteps == {"create:coupon", "create:insert", "create:redeem"}

\* What a request that is to redeem a coupon owes.
Applied(r) ==
  /\ pc[r] = "create:coupon" => work[r].coupon \in Coupons
  /\ pc[r] = "create:insert" =>
       IF work[r].coupon = Nil THEN work[r].discount = 0
                               ELSE CouponOwner[work[r].coupon] # work[r].user
  /\ pc[r] = "create:redeem" =>
       LET p == work[r].payment IN
       /\ CouponOwner[work[r].coupon] # payments[p].user
       /\ payments[p].amount + work[r].discount = payments[p].quote
       /\ \A x \in redemptions : x.payment # p

CouponInv ==
  /\ \A r \in Requests : Applied(r)
  /\ \A q, r \in Requests :
       /\ pc[q] = "create:redeem" /\ pc[r] = "create:redeem"
       /\ work[q].payment = work[r].payment
       => q = r
  /\ CouponAccounted

\* Request r alone moves.
Moves(r) == \A q \in Requests \ {r} : pc'[q] = pc[q] /\ work'[q] = work[q]

LEMMA GotoMoves ==
  ASSUME TypeOK, NEW r \in Requests
  PROVE  /\ \A step, d : Goto(r, step, d) => Moves(r) /\ pc'[r] = step /\ work'[r] = d
         /\ Finish(r) => Moves(r) /\ pc'[r] = "idle"
         /\ \A d : AfterQuote(r, d) =>
              /\ Moves(r) /\ work'[r] = d
              /\ pc'[r] = IF d.coupon = Nil THEN "create:insert" ELSE "create:coupon"
  BY DEF Goto, Finish, AfterQuote, Moves, TypeOK

\* A request that decides or attaches does nothing else, and its payment is
\* there before and after.
LEMMA DecideMoves ==
  ASSUME TypeOK, NEW r \in Requests, DecideStep(r)
  PROVE  /\ Moves(r) /\ pc[r] \in {"idle", "attach:update"} \cup Deciding
         /\ pc'[r] \in {"idle", "attach:update"} \cup Deciding
         /\ redemptions' = redemptions
         /\ DOMAIN payments' = DOMAIN payments /\ Len(payments') = Len(payments)
  <1>1. ASSUME NEW p \in DOMAIN payments,
               BeginAttach(r, p) \/ BeginApprove(r, p) \/ BeginReject(r, p)
        PROVE  /\ \E step \in {"attach:update"} \cup Deciding : BeginOnPending(r, p, step)
               /\ UNCHANGED <<redemptions, payments>>
    BY <1>1 DEF BeginAttach, BeginApprove, BeginReject, Deciding, Approving, tables
  <1>2. CASE \E p \in DOMAIN payments : BeginAttach(r, p) \/ BeginApprove(r, p) \/ BeginReject(r, p)
    BY <1>1, <1>2, GotoMoves DEF BeginOnPending
  <1>3. CASE AttachReceipt(r) \/ MarkCompleted(r) \/ MarkRejected(r)
    <2>1. PICK e \in Payment : Updates(r, e)
      BY <1>3, UpdatedPayment
    <2>2. DOMAIN payments' = DOMAIN payments /\ Len(payments') = Len(payments)
      BY <1>3, <2>1, RowUpdate, UpdatedPayment DEF TypeOK, Updates
    <2>3. /\ Finish(r) /\ redemptions' = redemptions
          /\ pc[r] \in {"attach:update"} \cup Deciding
      BY <1>3 DEF AttachReceipt, MarkCompleted, MarkRejected, Deciding, Approving
    <2> QED BY <2>2, <2>3, GotoMoves
  <1>4. CASE LookupForUpgrade(r) \/ Activate(r) \/ SwitchPlan(r)
    <2>1. /\ \E step \in Deciding : \E d : Goto(r, step, d)
          /\ pc[r] \in Deciding /\ redemptions' = redemptions /\ payments' = payments
      BY <1>4 DEF LookupForUpgrade, Activate, SwitchPlan, Deciding, Approving, tables
    <2> QED BY <2>1, GotoMoves
  <1> QED BY <1>2, <1>3, <1>4 DEF DecideStep

\* Steps that neither apply nor redeem a coupon.
QuietCoupon(r) ==
  /\ Moves(r) /\ pc'[r] \notin CouponSteps
  /\ pc[r] = "create:redeem" => aborts' = aborts + 1
  /\ redemptions' = redemptions /\ DOMAIN payments' = DOMAIN payments

LEMMA AbortsGrow ==
  ASSUME TypeInv, [Next]_vars PROVE aborts \in Nat /\ aborts' \in Nat /\ aborts' >= aborts
  <1>1. aborts' = aborts \/ \E r \in Requests : Abort(r)
    BY DEF Next, vars, CreateStep, BeginCreate, QuoteFullPrice, QuoteUpgrade, RefuseQuote,
       ApplyCoupon, RefuseCoupon, InsertPayment, RecordRedemption, DecideStep, BeginAttach,
       BeginApprove, BeginReject, AttachReceipt, LookupForUpgrade, Activate, SwitchPlan,
       MarkCompleted, MarkRejected, UpdatePlan, SetCouponActive, Tick
  <1> QED BY <1>1 DEF Abort, TypeInv, TypeOK

LEMMA CouponWays ==
  ASSUME TypeInv, [Next]_vars
  PROVE  \/ UNCHANGED <<pc, work, tables>>
         \/ \E r \in Requests :
              \/ QuietCoupon(r)
              \/ QuoteFullPrice(r) \/ QuoteUpgrade(r) \/ ApplyCoupon(r)
              \/ InsertPayment(r) \/ RecordRedemption(r)
  <1>0. TypeOK
    BY DEF TypeInv
  <1>1. ASSUME NEW r \in Requests, CreateStep(r)
        PROVE  \/ QuietCoupon(r)
               \/ QuoteFullPrice(r) \/ QuoteUpgrade(r) \/ ApplyCoupon(r)
               \/ InsertPayment(r) \/ RecordRedemption(r)
    <2>1. CASE \E u \in Users, p \in Plans, c \in Coupons \cup {Nil} : BeginCreate(r, u, p, c)
      BY <1>0, <2>1, GotoMoves DEF BeginCreate, QuietCoupon, CouponSteps, tables
    <2>2. CASE RefuseQuote(r) \/ RefuseCoupon(r)
      BY <1>0, <2>2, GotoMoves DEF RefuseQuote, RefuseCoupon, QuietCoupon, CouponSteps, tables
    <2> QED BY <1>1, <2>1, <2>2 DEF CreateStep
  <1>2. ASSUME NEW r \in Requests, DecideStep(r) PROVE QuietCoupon(r)
    BY <1>0, <1>2, DecideMoves DEF QuietCoupon, CouponSteps, Deciding, Approving
  <1>3. ASSUME NEW r \in Requests, Abort(r) PROVE QuietCoupon(r)
    BY <1>0, <1>3, GotoMoves DEF Abort, QuietCoupon, CouponSteps, tables, TypeOK
  <1>4. ASSUME \/ UNCHANGED vars \/ Tick
               \/ \E p \in Plans : UpdatePlan(p)
               \/ \E c \in Coupons : SetCouponActive(c)
        PROVE  UNCHANGED <<pc, work, tables>>
    BY <1>4 DEF vars, Tick, UpdatePlan, SetCouponActive, tables
  <1> QED BY <1>1, <1>2, <1>3, <1>4 DEF Next

\* What holds of the other requests stays, as long as no redemption is added.
LEMMA OthersApplied ==
  ASSUME TypeInv, CouponInv, [Next]_vars, NEW q \in Requests,
         pc'[q] = pc[q], work'[q] = work[q], redemptions' = redemptions
  PROVE  Applied(q)'
  <1>1. pc[q] = "create:redeem" => work[q].payment \in DOMAIN payments
    BY DEF TypeInv, TypeOK, OnPayment
  <1>2. Applied(q)
    BY DEF CouponInv
  <1> QED BY <1>1, <1>2, RowsKeep DEF Applied, SamePayment

\* The redemptions recorded so far stay right.
LEMMA RowsAccounted ==
  ASSUME TypeInv, CouponInv, [Next]_vars
  PROVE  \A x \in redemptions :
           /\ x.payment \in DOMAIN payments'
           /\ x.user = payments'[x.payment].user
           /\ x.user # CouponOwner[x.coupon]
           /\ payments'[x.payment].amount + x.discount = payments'[x.payment].quote
  BY RowsKeep DEF CouponInv, CouponAccounted, SamePayment

\* A payment already there stays accounted for, unless the request that was to
\* record its redemption leaves without doing so.
Accounted(p) ==
  payments[p].amount < payments[p].quote =>
    \/ \E x \in redemptions : x.payment = p
    \/ \E r \in Requests : pc[r] = "create:redeem" /\ work[r].payment = p

LEMMA PaymentsAccounted ==
  ASSUME TypeInv, CouponInv, [Next]_vars, NEW r \in Requests, Moves(r),
         redemptions \subseteq redemptions', NEW p \in DOMAIN payments, Accounted(p),
         pc[r] = "create:redeem" => work[r].payment # p
  PROVE  Accounted(p)'
  <1>1. SamePayment(p)
    BY RowsKeep
  <1>2. ASSUME NEW q \in Requests, pc[q] = "create:redeem", work[q].payment = p
        PROVE  pc'[q] = "create:redeem" /\ work'[q].payment = p
    BY <1>2 DEF Moves
  <1> QED BY <1>1, <1>2 DEF Accounted, SamePayment

\* The payments not accounted for are counted: there are no more of them than
\* deaths if no step but a death adds one.
LEMMA UnredeemedOnly ==
  TypeOK => /\ Unredeemed = {p \in DOMAIN payments : ~ Accounted(p)}
            /\ IsFiniteSet(Unredeemed) /\ Cardinality(Unredeemed) \in Nat
  <1> SUFFICES ASSUME TypeOK PROVE /\ Unredeemed = {p \in DOMAIN payments : ~ Accounted(p)}
                                   /\ IsFiniteSet(Unredeemed) /\ Cardinality(Unredeemed) \in Nat
    OBVIOUS
  <1>1. Unredeemed = {p \in DOMAIN payments : ~ Accounted(p)}
    BY DEF Unredeemed, Accounted
  <1>2. PICK n \in Nat : DOMAIN payments = 1..n
    BY DEF TypeOK
  <1>3. IsFiniteSet(1..n) /\ Unredeemed \subseteq 1..n
    BY <1>1, <1>2, FS_Interval
  <1>4. IsFiniteSet(Unredeemed)
    BY <1>3, FS_Subset
  <1> QED BY <1>1, <1>4, FS_CardinalityType

LEMMA CountsTyped ==
  ASSUME TypeInv, [Next]_vars
  PROVE  /\ IsFiniteSet(Unredeemed) /\ Cardinality(Unredeemed) \in Nat
         /\ Unredeemed' = {p \in DOMAIN payments' : ~ Accounted(p)'}
         /\ Cardinality(Unredeemed') \in Nat
  <1>1. TypeOK /\ TypeOK'
    BY TypeStep DEF TypeInv
  <1>2. (TypeOK => /\ Unredeemed = {p \in DOMAIN payments : ~ Accounted(p)}
                   /\ IsFiniteSet(Unredeemed) /\ Cardinality(Unredeemed) \in Nat)'
    BY UnredeemedOnly, PTL
  <1> QED BY <1>1, <1>2, UnredeemedOnly

LEMMA CountKept ==
  ASSUME TypeInv, CouponInv, [Next]_vars,
         \A p \in DOMAIN payments' : p \in Unredeemed \/ Accounted(p)'
  PROVE  (Cardinality(Unredeemed) <= aborts)'
  <1>1. /\ IsFiniteSet(Unredeemed) /\ Cardinality(Unredeemed) \in Nat
        /\ Unredeemed' = {p \in DOMAIN payments' : ~ Accounted(p)'}
        /\ Cardinality(Unredeemed') \in Nat
    BY CountsTyped
  <1>2. Unredeemed' \subseteq Unredeemed
    BY <1>1
  <1>3. Cardinality(Unredeemed') <= Cardinality(Unredeemed)
    BY <1>1, <1>2, FS_Subset
  <1>4. Cardinality(Unredeemed) <= aborts
    BY DEF CouponInv, CouponAccounted
  <1> QED BY <1>1, <1>3, <1>4, AbortsGrow

\* A death adds at most the payment of the request that dies.
LEMMA CountGrows ==
  ASSUME TypeInv, CouponInv, [Next]_vars, aborts' = aborts + 1, NEW o,
         \A p \in DOMAIN payments' : p \in Unredeemed \/ p = o \/ Accounted(p)'
  PROVE  (Cardinality(Unredeemed) <= aborts)'
  <1>1. /\ IsFiniteSet(Unredeemed) /\ Cardinality(Unredeemed) \in Nat
        /\ Unredeemed' = {p \in DOMAIN payments' : ~ Accounted(p)'}
        /\ Cardinality(Unredeemed') \in Nat
    BY CountsTyped
  <1>2. Unredeemed' \subseteq Unredeemed \cup {o}
    BY <1>1
  <1>3. /\ IsFiniteSet(Unredeemed \cup {o})
        /\ Cardinality(Unredeemed \cup {o}) \in Nat
        /\ Cardinality(Unredeemed \cup {o}) <= Cardinality(Unredeemed) + 1
    <2>1. /\ IsFiniteSet(Unredeemed \cup {o})
          /\ Cardinality(Unredeemed \cup {o}) = IF o \in Unredeemed THEN Cardinality(Unredeemed)
                                                ELSE Cardinality(Unredeemed) + 1
      BY <1>1, FS_AddElement
    <2> QED BY <1>1, <2>1
  <1>4. Cardinality(Unredeemed') <= Cardinality(Unredeemed \cup {o})
    BY <1>2, <1>3, FS_Subset
  <1>5. Cardinality(Unredeemed) <= aborts
    BY DEF CouponInv, CouponAccounted
  <1> QED BY <1>1, <1>3, <1>4, <1>5, AbortsGrow

LEMMA QuietStep ==
  ASSUME TypeInv, CouponInv, [Next]_vars, NEW r \in Requests, QuietCoupon(r)
  PROVE  CouponInv'
  <1>1. ASSUME NEW q \in Requests PROVE Applied(q)'
    <2>1. CASE q = r
      BY <2>1 DEF QuietCoupon, CouponSteps, Applied
    <2> QED BY <2>1, OthersApplied DEF QuietCoupon, Moves
  <1>2. \A q, o \in Requests :
          /\ pc'[q] = "create:redeem" /\ pc'[o] = "create:redeem"
          /\ work'[q].payment = work'[o].payment
          => q = o
    BY DEF QuietCoupon, CouponSteps, Moves, CouponInv
  <1>3. ASSUME NEW p \in DOMAIN payments', p \notin Unredeemed,
               pc[r] = "create:redeem" => work[r].payment # p
        PROVE  Accounted(p)'
    <2>1. p \in DOMAIN payments /\ Accounted(p)
      BY <1>3, UnredeemedOnly DEF QuietCoupon, TypeInv
    <2> QED BY <1>3, <2>1, PaymentsAccounted DEF QuietCoupon
  <1>4. (Cardinality(Unredeemed) <= aborts)'
    <2>1. CASE pc[r] = "create:redeem"
      <3> DEFINE o == work[r].payment
      <3>1. \A p \in DOMAIN payments' : p \in Unredeemed \/ p = o \/ Accounted(p)'
        BY <1>3
      <3> HIDE DEF o
      <3> QED BY <2>1, <3>1, CountGrows DEF QuietCoupon
    <2>2. CASE pc[r] # "create:redeem"
      BY <1>3, <2>2, CountKept
    <2> QED BY <2>1, <2>2
  <1> QED BY <1>1, <1>2, <1>4, RowsAccounted DEF QuietCoupon, CouponInv, CouponAccounted

\* The price is quoted, or the coupon applied: the request goes on to insert.
LEMMA QuoteStep ==
  ASSUME TypeInv, CouponInv, [Next]_vars, NEW r \in Requests,
         QuoteFullPrice(r) \/ QuoteUpgrade(r) \/ ApplyCoupon(r)
  PROVE  CouponInv'
  <1>0. TypeOK /\ work[r] \in Draft /\ pc[r] \in Creating /\ UNCHANGED <<tables, aborts>>
    BY DEF TypeInv, TypeOK, QuoteFullPrice, QuoteUpgrade, ApplyCoupon, Creating
  <1>1. Moves(r) /\ pc'[r] # "create:redeem" /\ Applied(r)'
    <2>1. CASE ApplyCoupon(r)
      <3> DEFINE d == [work[r] EXCEPT !.discount = CouponDiscount(work[r].quote)]
      <3>1. Moves(r) /\ pc'[r] = "create:insert" /\ work'[r] = d
        BY <1>0, <2>1, GotoMoves DEF ApplyCoupon
      <3>2. d.coupon = work[r].coupon /\ d.user = work[r].user
        BY <1>0 DEF Draft
      <3>3. work[r].coupon \in Coupons /\ CouponOwner[work[r].coupon] # work[r].user
        BY <2>1 DEF ApplyCoupon, Redeemable, CouponInv, Applied
      <3> HIDE DEF d
      <3> QED BY <3>1, <3>2, <3>3, BoundAssumption DEF Applied
    <2>2. CASE QuoteFullPrice(r) \/ QuoteUpgrade(r)
      <3>1. pc[r] = "create:subscription" /\ work[r].discount = 0
        BY <2>2 DEF QuoteFullPrice, QuoteUpgrade, TypeInv, ChargeInv, Creating
      <3>2. PICK d : AfterQuote(r, d) /\ d.discount = 0 /\ d.coupon \in Coupons \cup {Nil}
        <4>1. \A m : /\ [work[r] EXCEPT !.isUpgrade = TRUE, !.quote = m].discount = 0
                     /\ [work[r] EXCEPT !.isUpgrade = TRUE, !.quote = m].coupon = work[r].coupon
          BY <1>0, <3>1 DEF Draft
        <4>2. work[r].coupon \in Coupons \cup {Nil}
          BY <1>0 DEF Draft
        <4>3. CASE QuoteFullPrice(r)
          BY <3>1, <4>2, <4>3 DEF QuoteFullPrice
        <4>4. CASE QuoteUpgrade(r)
          BY <4>1, <4>2, <4>4 DEF QuoteUpgrade
        <4> QED BY <2>2, <4>3, <4>4
      <3> QED BY <1>0, <3>2, GotoMoves DEF Applied
    <2> QED BY <2>1, <2>2
  <1>2. ASSUME NEW q \in Requests PROVE Applied(q)'
    BY <1>0, <1>1, OthersApplied DEF Moves, tables
  <1>3. \A q, o \in Requests :
          /\ pc'[q] = "create:redeem" /\ pc'[o] = "create:redeem"
          /\ work'[q].payment = work'[o].payment
          => q = o
    BY <1>1 DEF Moves, CouponInv
  <1>4. ASSUME NEW p \in DOMAIN payments', p \notin Unredeemed PROVE Accounted(p)'
    <2>1. p \in DOMAIN payments /\ Accounted(p)
      BY <1>0, <1>4, UnredeemedOnly DEF tables
    <2> QED BY <1>0, <1>1, <2>1, PaymentsAccounted DEF Creating, tables
  <1>5. (Cardinality(Unredeemed) <= aborts)'
    BY <1>4, CountKept
  <1> QED BY <1>0, <1>2, <1>3, <1>5, RowsAccounted DEF tables, CouponInv, CouponAccounted

\* The payment is inserted: its redemption is the request's to record.
LEMMA InsertStep ==
  ASSUME TypeInv, CouponInv, [Next]_vars, NEW r \in Requests, InsertPayment(r)
  PROVE  CouponInv'
  <1> DEFINE d == work[r]
  <1>0. PICK n \in Nat : n = Len(payments) + 1
    BY DEF TypeInv, TypeOK
  <1>1. /\ d \in Draft /\ d.quote \in Nat /\ d.discount \in Nat /\ d.discount < d.quote
        /\ pc[r] = "create:insert"
    BY DEF InsertPayment, TypeInv, TypeOK, ChargeInv, Creating, Draft
  <1>2. /\ payments'[n] = NewPayment(d) /\ DOMAIN payments' = DOMAIN payments \cup {n}
        /\ n \notin DOMAIN payments /\ UNCHANGED <<redemptions, aborts>>
    BY <1>0 DEF InsertPayment, TypeInv, TypeOK
  <1>3. /\ payments'[n].user = d.user /\ payments'[n].quote = d.quote
        /\ payments'[n].amount + d.discount = d.quote
        /\ d.discount = 0 => payments'[n].amount = d.quote
    BY <1>1, <1>2 DEF NewPayment
  <1>4. IF d.coupon = Nil THEN d.discount = 0 ELSE CouponOwner[d.coupon] # d.user
    BY <1>1 DEF CouponInv, Applied
  <1>5. /\ Moves(r)
        /\ IF d.coupon = Nil THEN pc'[r] = "idle"
           ELSE /\ pc'[r] = "create:redeem" /\ work'[r].payment = n
                /\ work'[r].coupon = d.coupon /\ work'[r].discount = d.discount
    <2>1. CASE d.coupon = Nil
      BY <2>1, GotoMoves DEF InsertPayment, TypeInv
    <2>2. CASE d.coupon # Nil
      <3>1. Goto(r, "create:redeem",
                 [payment |-> n, subscription |-> NoSubscription,
                  coupon |-> d.coupon, discount |-> d.discount])
        BY <1>0, <2>2 DEF InsertPayment
      <3> QED BY <2>2, <3>1, GotoMoves DEF TypeInv
    <2> QED BY <2>1, <2>2
  <1>6. \A x \in redemptions : x.payment # n
    BY <1>2 DEF CouponInv, CouponAccounted
  <1>7. \A q \in Requests : pc[q] = "create:redeem" => work[q].payment # n
    BY <1>2 DEF TypeInv, TypeOK, OnPayment
  <1> HIDE DEF d
  <1>8. ASSUME NEW q \in Requests PROVE Applied(q)'
    <2>1. CASE q = r
      BY <1>2, <1>3, <1>4, <1>5, <1>6, <2>1 DEF Applied
    <2> QED BY <1>2, <1>5, <2>1, OthersApplied DEF Moves
  <1>9. \A q, o \in Requests :
          /\ pc'[q] = "create:redeem" /\ pc'[o] = "create:redeem"
          /\ work'[q].payment = work'[o].payment
          => q = o
    BY <1>5, <1>7 DEF Moves, CouponInv
  <1>10. ASSUME NEW p \in DOMAIN payments', p \notin Unredeemed PROVE Accounted(p)'
    <2>1. CASE p = n
      <3>1. CASE d.coupon = Nil
        BY <1>1, <1>3, <1>4, <2>1, <3>1 DEF Accounted
      <3>2. CASE d.coupon # Nil
        BY <1>5, <2>1, <3>2 DEF Accounted
      <3> QED BY <3>1, <3>2
    <2>2. CASE p \in DOMAIN payments
      <3>1. Accounted(p)
        BY <1>10, <2>2, UnredeemedOnly DEF TypeInv
      <3> QED BY <1>1, <1>2, <1>5, <2>2, <3>1, PaymentsAccounted
    <2> QED BY <1>2, <2>1, <2>2
  <1>11. (Cardinality(Unredeemed) <= aborts)'
    BY <1>10, CountKept
  <1> QED BY <1>2, <1>8, <1>9, <1>11, RowsAccounted DEF CouponInv, CouponAccounted

\* The redemption is recorded, the first of its payment.
LEMMA RedeemStep ==
  ASSUME TypeInv, CouponInv, [Next]_vars, NEW r \in Requests, RecordRedemption(r)
  PROVE  CouponInv'
  <1> DEFINE p == work[r].payment
             x == [coupon |-> work[r].coupon, user |-> payments[p].user,
                   payment |-> p, discount |-> work[r].discount]
  <1>1. /\ pc[r] = "create:redeem" /\ p \in DOMAIN payments
        /\ redemptions' = redemptions \cup {x} /\ UNCHANGED <<payments, aborts>>
        /\ Moves(r) /\ pc'[r] = "idle"
    BY GotoMoves DEF RecordRedemption, TypeInv, TypeOK, OnPayment
  <1>2. /\ payments[p].user # CouponOwner[work[r].coupon]
        /\ payments[p].amount + work[r].discount = payments[p].quote
        /\ \A y \in redemptions : y.payment # p
    BY <1>1 DEF CouponInv, Applied
  <1>3. /\ x.payment = p /\ x.user = payments[p].user /\ x.coupon = work[r].coupon
        /\ x.discount = work[r].discount
    OBVIOUS
  <1> HIDE DEF x, p
  <1>4. ASSUME NEW q \in Requests PROVE Applied(q)'
    <2>1. CASE q = r
      BY <1>1, <2>1 DEF Applied
    <2>2. CASE q # r
      <3>1. pc'[q] = pc[q] /\ work'[q] = work[q] /\ Applied(q)
        BY <1>1, <2>2 DEF Moves, CouponInv
      <3>2. pc[q] = "create:redeem" => work[q].payment # p
        BY <1>1, <2>2 DEF CouponInv, p
      <3> QED BY <1>1, <1>3, <3>1, <3>2 DEF Applied
    <2> QED BY <2>1, <2>2
  <1>5. \A q, o \in Requests :
          /\ pc'[q] = "create:redeem" /\ pc'[o] = "create:redeem"
          /\ work'[q].payment = work'[o].payment
          => q = o
    BY <1>1 DEF Moves, CouponInv
  <1>6. ASSUME NEW o \in DOMAIN payments', o \notin Unredeemed PROVE Accounted(o)'
    <2>1. CASE o = p
      BY <1>1, <1>3, <2>1 DEF Accounted
    <2>2. CASE o # p
      <3>1. Accounted(o)
        BY <1>1, <1>6, UnredeemedOnly DEF TypeInv
      <3> QED BY <1>1, <2>2, <3>1 DEF Accounted, Moves, p
    <2> QED BY <2>1, <2>2
  <1>7. /\ \A y \in redemptions' :
             /\ y.payment \in DOMAIN payments /\ y.user = payments[y.payment].user
             /\ y.user # CouponOwner[y.coupon]
             /\ payments[y.payment].amount + y.discount = payments[y.payment].quote
        /\ \A y, z \in redemptions' : y.payment = z.payment => y = z
    BY <1>1, <1>2, <1>3 DEF CouponInv, CouponAccounted
  <1>8. (Cardinality(Unredeemed) <= aborts)'
    BY <1>6, CountKept
  <1> QED BY <1>1, <1>4, <1>5, <1>7, <1>8 DEF CouponInv, CouponAccounted

LEMMA CouponStep == TypeInv /\ CouponInv /\ [Next]_vars => CouponInv'
  <1> SUFFICES ASSUME TypeInv, CouponInv, [Next]_vars PROVE CouponInv'
    OBVIOUS
  <1>1. ASSUME UNCHANGED <<pc, work, tables>> PROVE CouponInv'
    <2>1. \A p \in DOMAIN payments' : p \in Unredeemed \/ Accounted(p)'
      BY <1>1, UnredeemedOnly DEF TypeInv, Accounted, tables
    <2>2. (Cardinality(Unredeemed) <= aborts)'
      BY <2>1, CountKept
    <2> QED BY <1>1, <2>2 DEF CouponInv, CouponAccounted, Applied, tables
  <1> QED BY <1>1, CouponWays, QuietStep, QuoteStep, InsertStep, RedeemStep

LEMMA CouponInit == Init => CouponInv
  <1> SUFFICES ASSUME Init PROVE CouponInv
    OBVIOUS
  <1>1. Unredeemed = {}
    BY DEF Init, Unredeemed
  <1>2. Cardinality(Unredeemed) <= aborts
    BY <1>1, FS_EmptySet DEF Init
  <1> QED BY <1>2 DEF Init, CouponInv, CouponAccounted, Applied

\* What is missing of a price was taken off for a redemption that is recorded,
\* once, for a coupon that is not the customer's own, or is about to be, and of
\* no more payments is it not than requests have died.
THEOREM CouponsAccounted == Spec => []CouponAccounted
  <1>1. Spec => []CouponInv
    BY CouponInit, CouponStep, Inductive, PTL DEF Spec
  <1>2. CouponInv => CouponAccounted
    BY DEF CouponInv
  <1> QED BY <1>1, <1>2, PTL

----------------------------------------------------------------------------
(***************************************************************************)
(* Billing implements PaymentLedger.  Each step of a handler is mapped to  *)
(* the step of the ledger it takes for the one payment it concerns, or to  *)
(* none.  The ledger has a place for every payment because a request is    *)
(* counted from its beginning.                                             *)
(***************************************************************************)
Capacity ==
  /\ Cardinality(BeingCreated) \in Nat
  /\ Len(payments) + Cardinality(BeingCreated) <= MaxPayments

LEMMA CreatedFinite == IsFiniteSet(BeingCreated)
  <1>1. BeingCreated \subseteq Requests
    BY DEF BeingCreated
  <1> QED BY <1>1, RequestAssumption, FS_Subset

LEMMA CapacityInit == Init => Capacity
  <1> SUFFICES ASSUME Init PROVE Capacity
    OBVIOUS
  <1>1. BeingCreated = {}
    BY DEF Init, BeingCreated, Creating
  <1>2. Cardinality(BeingCreated) = 0
    BY <1>1, FS_EmptySet
  <1> QED BY <1>2, BoundAssumption DEF Init, Capacity

\* No other request begins to create a payment.
LEMMA CreatedShrinks ==
  ASSUME Capacity, TypeInv, BeingCreated' \subseteq BeingCreated, Len(payments') = Len(payments)
  PROVE  Capacity'
  <1>1. Cardinality(BeingCreated)' <= Cardinality(BeingCreated) /\ Cardinality(BeingCreated)' \in Nat
    BY CreatedFinite, FS_Subset, FS_CardinalityType
  <1> QED BY <1>1, BoundAssumption DEF Capacity, TypeInv, TypeOK

LEMMA CapacityStep == TypeInv /\ Capacity /\ [Next]_vars => Capacity'
  <1> SUFFICES ASSUME TypeInv, Capacity, [Next]_vars PROVE Capacity'
    OBVIOUS
  <1>0. TypeOK /\ Len(payments) \in Nat
    BY DEF TypeInv, TypeOK
  <1>1. ASSUME NEW r \in Requests, Moves(r), pc'[r] \notin Creating \/ pc[r] \in Creating,
               Len(payments') = Len(payments)
        PROVE  Capacity'
    <2>1. BeingCreated' \subseteq BeingCreated
      BY <1>1 DEF BeingCreated, Moves
    <2> QED BY <1>1, <2>1, CreatedShrinks
  <1>2. ASSUME NEW r \in Requests, NEW u \in Users, NEW p \in Plans, NEW c \in Coupons \cup {Nil},
               BeginCreate(r, u, p, c)
        PROVE  Capacity'
    <2>1. Moves(r) /\ pc[r] = "idle" /\ pc'[r] = "create:subscription" /\ payments' = payments
      BY <1>0, <1>2, GotoMoves DEF BeginCreate, tables
    <2>2. BeingCreated' = BeingCreated \cup {r} /\ r \notin BeingCreated
      BY <2>1 DEF BeingCreated, Moves, Creating
    <2>3. Cardinality(BeingCreated)' = Cardinality(BeingCreated) + 1
      BY <2>2, CreatedFinite, FS_AddElement
    <2> QED BY <1>0, <1>2, <2>1, <2>3, BoundAssumption DEF BeginCreate, Capacity
  <1>3. ASSUME NEW r \in Requests, InsertPayment(r) PROVE Capacity'
    <2>1. Moves(r) /\ pc[r] \in Creating /\ pc'[r] \notin Creating
      BY <1>0, <1>3, GotoMoves DEF InsertPayment, Creating
    <2>2. BeingCreated' = BeingCreated \ {r} /\ r \in BeingCreated
      BY <2>1 DEF BeingCreated, Moves
    <2>3. Cardinality(BeingCreated)' = Cardinality(BeingCreated) - 1
      BY <2>2, CreatedFinite, FS_RemoveElement
    <2>4. Cardinality(BeingCreated)' \in Nat
      BY CreatedFinite, <2>2, FS_Subset, FS_CardinalityType
    <2>5. Len(payments') = Len(payments) + 1
      BY <1>0, <1>3 DEF InsertPayment, TypeOK
    <2> QED BY <1>0, <2>3, <2>4, <2>5, BoundAssumption DEF Capacity
  <1>4. ASSUME NEW r \in Requests,
               QuoteFullPrice(r) \/ QuoteUpgrade(r) \/ RefuseQuote(r) \/ ApplyCoupon(r)
                 \/ RefuseCoupon(r)
        PROVE  Capacity'
    <2>1. Moves(r) /\ pc[r] \in Creating /\ payments' = payments
      BY <1>0, <1>4, GotoMoves DEF QuoteFullPrice, QuoteUpgrade, RefuseQuote, ApplyCoupon,
         RefuseCoupon, tables, Creating
    <2> QED BY <1>1, <2>1
  <1>5. ASSUME NEW r \in Requests, RecordRedemption(r) \/ Abort(r) PROVE Capacity'
    BY <1>0, <1>1, <1>5, GotoMoves DEF RecordRedemption, Abort, tables, Creating
  <1>6. ASSUME NEW r \in Requests, DecideStep(r) PROVE Capacity'
    BY <1>0, <1>1, <1>6, DecideMoves DEF Creating, Deciding, Approving
  <1>7. CASE \/ UNCHANGED vars \/ Tick
             \/ \E p \in Plans : UpdatePlan(p)
             \/ \E c \in Coupons : SetCouponActive(c)
    BY <1>7 DEF vars, Tick, UpdatePlan, SetCouponActive, tables, Capacity, BeingCreated
  <1> QED BY <1>2, <1>3, <1>4, <1>5, <1>6, <1>7 DEF Next, CreateStep

\* The entry of the ledger for one payment.
Entry(p) ==
  IF p > Len(payments) THEN "absent"
  ELSE IF p \in contested THEN "contested"
  ELSE IF Granting(p) # {} \/ payments[p].status = "COMPLETED" THEN "approved"
  ELSE IF payments[p].status = "REJECTED" THEN "rejected" ELSE "open"
Entitled(p) == p \in DOMAIN payments \ contested /\ grants[p] = 1

\* The mapping of BillingRefinement, entry by entry.
Mapped ==
  /\ LedgerStatus = [p \in LedgerIds |-> Entry(p)]
  /\ LedgerEntitled = {p \in LedgerIds : Entitled(p)}
  /\ DOMAIN payments \subseteq LedgerIds

LEMMA LedgerEntries == TypeOK /\ Capacity => Mapped
  <1> SUFFICES ASSUME TypeOK, Capacity PROVE Mapped
    OBVIOUS
  <1>1. DOMAIN payments = 1 .. Len(payments) /\ Len(payments) \in Nat
    BY DEF TypeOK
  <1>2. DOMAIN payments \subseteq LedgerIds
    BY <1>1, BoundAssumption DEF Capacity, LedgerIds
  <1> QED BY <1>2 DEF LedgerStatus, LedgerEntitled, Entry, Entitled, Mapped

LEMMA LedgerEntriesNext == TypeOK' /\ Capacity' => Mapped'
  BY LedgerEntries, PTL

\* Steps that leave the ledger as it is, and steps that move one payment.
LEMMA LedgerRests ==
  ASSUME Mapped, Mapped',
         \A o \in LedgerIds : Entry(o)' = Entry(o) /\ (Entitled(o)' <=> Entitled(o))
  PROVE  UNCHANGED Ledger!ledger
  <1> DEFINE was == [p \in LedgerIds |-> Entry(p)]
             then == [p \in LedgerIds |-> Entry(p)']
             had == {p \in LedgerIds : Entitled(p)}
             has == {p \in LedgerIds : Entitled(p)'}
  <1>1. was = then /\ had = has
    OBVIOUS
  <1>2. /\ LedgerStatus = was /\ LedgerEntitled = had
        /\ LedgerStatus' = then /\ LedgerEntitled' = has
    BY DEF Mapped, LedgerIds
  <1> HIDE DEF was, then, had, has
  <1> QED BY <1>1, <1>2 DEF Ledger!ledger

LEMMA LedgerMoves ==
  ASSUME Mapped, Mapped', NEW p \in LedgerIds,
         \A o \in LedgerIds \ {p} : Entry(o)' = Entry(o) /\ (Entitled(o)' <=> Entitled(o)),
         \/ Entry(p) = "absent" /\ Entry(p)' = "open" /\ (Entitled(p)' <=> Entitled(p))
         \/ Entry(p) = "open" /\ Entry(p)' = "approved" /\ Entitled(p)'
         \/ Entry(p) = "open" /\ Entry(p)' = "rejected" /\ (Entitled(p)' <=> Entitled(p))
         \/ Entry(p) \in {"open", "approved"} /\ Entry(p)' = "contested" /\ ~ Entitled(p)'
  PROVE  Ledger!Next
  <1> DEFINE was == [q \in LedgerIds |-> Entry(q)]
             then == [q \in LedgerIds |-> Entry(q)']
             had == {q \in LedgerIds : Entitled(q)}
             has == {q \in LedgerIds : Entitled(q)'}
  <1>1. /\ LedgerStatus = was /\ LedgerStatus' = then
        /\ LedgerEntitled = had /\ LedgerEntitled' = has
    BY DEF Mapped, LedgerIds
  <1>2. then = [was EXCEPT ![p] = Entry(p)'] /\ was[p] = Entry(p)
    OBVIOUS
  <1>3. /\ (Entitled(p)' <=> Entitled(p)) => has = had
        /\ Entitled(p)' => has = had \cup {p}
        /\ ~ Entitled(p)' => has = had \ {p}
    OBVIOUS
  <1> HIDE DEF was, then, had, has
  <1>4. Ledger!Open(p) \/ Ledger!Approve(p) \/ Ledger!Reject(p) \/ Ledger!Contest(p)
    BY <1>1, <1>2, <1>3 DEF Ledger!Open, Ledger!Approve, Ledger!Reject, Ledger!Contest
  <1> QED BY <1>4 DEF Ledger!Next

LEMMA LedgerInit == Init => Ledger!Init
  <1> SUFFICES ASSUME Init PROVE Ledger!Init
    OBVIOUS
  <1>1. TypeOK /\ Capacity
    BY TypeInit, CapacityInit DEF TypeInv
  <1>2. \A p \in LedgerIds : Entry(p) = "absent" /\ ~ Entitled(p)
    BY BoundAssumption DEF Init, LedgerIds, Entry, Entitled
  <1> QED BY <1>1, <1>2, LedgerEntries DEF Ledger!Init, Mapped

SameEntry(o) == Entry(o)' = Entry(o) /\ (Entitled(o)' <=> Entitled(o))

\* The entry of a payment none of whose facts changes.
LEMMA UntouchedEntry ==
  ASSUME TypeOK, NEW o, DOMAIN payments' = DOMAIN payments, Len(payments') = Len(payments),
         o \in contested' <=> o \in contested,
         o \in DOMAIN payments => payments'[o].status = payments[o].status,
         o \in DOMAIN payments => grants'[o] = grants[o],
         Granting(o)' = Granting(o)
  PROVE  o \in LedgerIds => SameEntry(o)
  <1> SUFFICES ASSUME o \in LedgerIds PROVE SameEntry(o)
    OBVIOUS
  <1>1. o \in DOMAIN payments <=> ~ (o > Len(payments))
    BY BoundAssumption DEF TypeOK, LedgerIds
  <1> QED BY <1>1 DEF SameEntry, Entry, Entitled

\* The decision of request r on payment p: the other payments rest, and so
\* does p if it is contested already.
LEMMA OthersRest ==
  ASSUME TypeOK, NEW r \in Requests, NEW p, Local(r, p),
         DOMAIN payments' = DOMAIN payments, Len(payments') = Len(payments),
         contested \subseteq contested', contested' \subseteq contested \cup {p},
         \A o \in DOMAIN payments \ {p} :
           payments'[o].status = payments[o].status /\ grants'[o] = grants[o]
  PROVE  /\ \A o \in LedgerIds \ {p} : SameEntry(o)
         /\ p \in contested => SameEntry(p)
  <1>1. ASSUME NEW o \in LedgerIds \ {p} PROVE SameEntry(o)
    <2>1. Granting(o)' = Granting(o) /\ (o \in contested' <=> o \in contested)
      BY <1>1, LocalOthers
    <2> QED BY <1>1, <2>1, UntouchedEntry
  <1>2. p \in contested => SameEntry(p)
    BY DEF SameEntry, Entry, Entitled
  <1> QED BY <1>1, <1>2

LEMMA LedgerSettles ==
  ASSUME Mapped, Mapped', NEW p \in DOMAIN payments,
         \A o \in LedgerIds \ {p} : SameEntry(o),
         \/ SameEntry(p)
         \/ Entry(p) = "open" /\ Entry(p)' = "approved" /\ Entitled(p)'
         \/ Entry(p) = "open" /\ Entry(p)' = "rejected" /\ (Entitled(p)' <=> Entitled(p))
         \/ Entry(p) \in {"open", "approved"} /\ Entry(p)' = "contested" /\ ~ Entitled(p)'
  PROVE  [Ledger!Next]_(Ledger!ledger)
  <1>1. p \in LedgerIds
    BY DEF Mapped
  <1>2. CASE SameEntry(p)
    <2>1. \A o \in LedgerIds : SameEntry(o)
      BY <1>2
    <2> QED BY <2>1, LedgerRests DEF SameEntry
  <1>3. CASE ~ SameEntry(p)
    <2>1. \A o \in LedgerIds \ {p} : Entry(o)' = Entry(o) /\ (Entitled(o)' <=> Entitled(o))
      BY DEF SameEntry
    <2>2. \/ Entry(p) = "open" /\ Entry(p)' = "approved" /\ Entitled(p)'
          \/ Entry(p) = "open" /\ Entry(p)' = "rejected" /\ (Entitled(p)' <=> Entitled(p))
          \/ Entry(p) \in {"open", "approved"} /\ Entry(p)' = "contested" /\ ~ Entitled(p)'
      BY <1>3
    <2> HIDE DEF Ledger!Next
    <2> QED BY <1>1, <2>1, <2>2, LedgerMoves
  <1> QED BY <1>2, <1>3

\* A row is inserted: the ledger opens it.
LEMMA InsertLedger ==
  ASSUME TypeInv, Mapped, Mapped', NEW r \in Requests, InsertPayment(r)
  PROVE  Ledger!Next
  <1>0. PICK n \in Nat : n = Len(payments) + 1
    BY DEF TypeInv, TypeOK
  <1>1. /\ DOMAIN payments' = DOMAIN payments \cup {n} /\ Len(payments') = n
        /\ payments'[n].status = "PENDING" /\ grants'[n] = 0
        /\ \A p \in DOMAIN payments : payments'[p] = payments[p] /\ grants'[p] = grants[p]
        /\ contested' = contested
    BY <1>0 DEF InsertPayment, TypeInv, TypeOK, NewPayment
  <1>2. n \notin DOMAIN payments /\ n \notin contested /\ Granting(n) = {}
    BY <1>0 DEF TypeInv, TypeOK, Granting, OnPayment, Deciding, Approving
  <1>3. \A o : Granting(o)' = Granting(o)
    BY DEF InsertPayment, Finish, Goto, TypeInv, TypeOK, Granting
  <1>4. n \in LedgerIds
    BY <1>1 DEF Mapped, LedgerIds
  <1>5. ASSUME NEW o \in LedgerIds \ {n} PROVE Entry(o)' = Entry(o) /\ (Entitled(o)' <=> Entitled(o))
    <2>1. /\ o \in DOMAIN payments <=> ~ (o > Len(payments))
          /\ o > n <=> o > Len(payments)
      BY <1>0, BoundAssumption DEF TypeInv, TypeOK, LedgerIds
    <2> QED BY <1>1, <1>3, <2>1 DEF Entry, Entitled
  <1>6. Entry(n) = "absent" /\ Entry(n)' = "open" /\ (Entitled(n)' <=> Entitled(n))
    BY <1>0, <1>1, <1>2, <1>3 DEF Entry, Entitled, TypeInv, TypeOK
  <1> QED BY <1>4, <1>5, <1>6, LedgerMoves

\* A decision begins on an open payment: alone, or over another decision.
LEMMA BeginLedger ==
  ASSUME TypeInv, DecisionInv, Mapped, Mapped', NEW r \in Requests, NEW p \in DOMAIN payments,
         BeginApprove(r, p) \/ BeginReject(r, p)
  PROVE  [Ledger!Next]_(Ledger!ledger)
  <1>1. /\ pc[r] = "idle" /\ payments[p].status = "PENDING"
        /\ pc'[r] \in Deciding \ {"approve:mark"}
        /\ Local(r, p) /\ NoteOverlap(p) /\ UNCHANGED <<payments, grants>>
    <2>1. PICK step \in {"approve:lookup", "approve:activate", "reject:mark"} :
            BeginOnPending(r, p, step)
      BY DEF BeginApprove, BeginReject
    <2>2. NoteOverlap(p) /\ UNCHANGED <<payments, grants>>
      BY DEF BeginApprove, BeginReject, tables
    <2> QED BY <2>1, <2>2 DEF BeginOnPending, Goto, Local, TypeInv, TypeOK, Deciding, Approving, Steps, OnPayment
  <1>2. \A o \in LedgerIds \ {p} : SameEntry(o)
    BY <1>1, OthersRest DEF NoteOverlap, TypeInv
  <1>3. CASE p \in contested
    BY <1>1, <1>2, <1>3, OthersRest, LedgerSettles DEF NoteOverlap, TypeInv
  <1>4. CASE p \notin contested /\ InDecision(p) = {}
    <2>1. Granting(p) = {} /\ Granting(p)' = {} /\ contested' = contested
      BY <1>1, <1>4, GrantingDeciding DEF Local, InDecision, Granting, Deciding, Approving,
         NoteOverlap
    <2>2. SameEntry(p)
      BY <1>1, <2>1, UntouchedEntry DEF TypeInv, Mapped
    <2> QED BY <1>2, <2>2, LedgerSettles
  <1>5. CASE p \notin contested /\ InDecision(p) # {}
    <2>1. p \in contested'
      BY <1>1, <1>5 DEF NoteOverlap
    <2>2. p \in DOMAIN payments /\ ~ (p > Len(payments)) /\ payments' = payments
      BY <1>1 DEF TypeInv, TypeOK
    <2>3. Entry(p)' = "contested" /\ ~ Entitled(p)'
      BY <2>1, <2>2 DEF Entry, Entitled
    <2>4. Entry(p) \in {"open", "approved"}
      BY <1>1, <1>5, <2>2 DEF Entry
    <2> QED BY <1>2, <2>3, <2>4, LedgerSettles
  <1> QED BY <1>3, <1>4, <1>5

\* The subscription is written: an uncontested payment becomes approved.
LEMMA GrantLedger ==
  ASSUME TypeInv, DecisionInv, Mapped, Mapped', NEW r \in Requests,
         Activate(r) \/ SwitchPlan(r)
  PROVE  [Ledger!Next]_(Ledger!ledger)
  <1>0. PICK p \in DOMAIN payments : p = work[r].payment
    BY DEF TypeInv, TypeOK, Activate, SwitchPlan, OnPayment, Deciding, Approving
  <1>1. work[r] \in Decision /\ pc[r] \in {"approve:activate", "approve:switch"}
    BY DEF TypeInv, TypeOK, Activate, SwitchPlan, OnPayment, Deciding, Approving
  <1>2. PICK d : Goto(r, "approve:mark", d) /\ d.payment = p
    <2>1. \A s : [work[r] EXCEPT !.subscription = s].payment = p
      BY <1>0, <1>1 DEF Decision
    <2> QED BY <1>0, <2>1 DEF Activate, SwitchPlan
  <1>3. Granted(p) /\ UNCHANGED <<payments, contested>>
    BY <1>0 DEF Activate, SwitchPlan
  <1>4. Local(r, p) /\ r \in InDecision(p) /\ r \notin Granting(p) /\ r \in Granting(p)'
    BY <1>0, <1>1, <1>2 DEF Goto, Local, TypeInv, TypeOK, Steps, OnPayment, InDecision, Granting,
       Deciding, Approving
  <1>5. \A o \in DOMAIN payments \ {p} : grants'[o] = grants[o]
    BY <1>3 DEF Granted, TypeInv, TypeOK
  <1>6. /\ \A o \in LedgerIds \ {p} : SameEntry(o)
        /\ p \in contested => SameEntry(p)
    BY <1>3, <1>4, <1>5, OthersRest DEF TypeInv
  <1>7. ASSUME p \notin contested
        PROVE  Entry(p) = "open" /\ Entry(p)' = "approved" /\ Entitled(p)'
    <2>1. InDecision(p) = {r} /\ payments[p].status = "PENDING" /\ Granting(p) = {}
      BY <1>4, <1>7, GrantingDeciding DEF DecisionInv, Exact
    <2>2. grants[p] = 0
      BY <1>7, <2>1 DEF DecisionInv, Exact
    <2>3. grants'[p] = 1
      BY <1>3, <2>2 DEF Granted, TypeInv, TypeOK
    <2>4. ~ (p > Len(payments))
      BY DEF TypeInv, TypeOK
    <2> QED BY <1>3, <1>4, <1>7, <2>1, <2>3, <2>4 DEF Entry, Entitled
  <1> QED BY <1>6, <1>7, LedgerSettles

\* The payment row is written: a rejection decides the entry, a completion
\* only catches up with the subscription.
LEMMA MarkLedger ==
  ASSUME TypeInv, DecisionInv, Mapped, Mapped', NEW r \in Requests,
         MarkCompleted(r) \/ MarkRejected(r)
  PROVE  [Ledger!Next]_(Ledger!ledger)
  <1>0. PICK p \in DOMAIN payments : p = work[r].payment
    BY DEF TypeInv, TypeOK, MarkCompleted, MarkRejected, OnPayment, Deciding, Approving
  <1>1. PICK e \in Payment : Updates(r, e)
    BY UpdatedPayment DEF TypeInv
  <1>2. /\ DOMAIN payments' = DOMAIN payments /\ Len(payments') = Len(payments)
        /\ payments'[p] = e
        /\ \A o \in DOMAIN payments \ {p} : payments'[o] = payments[o]
    BY <1>0, <1>1, RowUpdate DEF TypeInv, TypeOK, Updates
  <1>3. Finish(r) /\ UNCHANGED history
    BY DEF MarkCompleted, MarkRejected
  <1>4. Local(r, p) /\ r \in InDecision(p)
    BY <1>0, <1>3 DEF MarkCompleted, MarkRejected, Finish, Goto, Local, TypeInv, TypeOK, Steps,
       InDecision, Deciding, Approving
  <1>5. /\ \A o \in LedgerIds \ {p} : SameEntry(o)
        /\ p \in contested => SameEntry(p)
    BY <1>2, <1>3, <1>4, OthersRest DEF TypeInv, history
  <1>6. ASSUME p \notin contested
        PROVE  \/ SameEntry(p)
               \/ Entry(p) = "open" /\ Entry(p)' = "rejected" /\ (Entitled(p)' <=> Entitled(p))
    <2>1. InDecision(p) = {r} /\ payments[p].status = "PENDING"
      BY <1>4, <1>6 DEF DecisionInv, Exact
    <2>2. Granting(p)' = {}
      BY <1>3, <1>4, <2>1 DEF Finish, Goto, Local, TypeInv, TypeOK, InDecision, Granting,
         Deciding, Approving
    <2>3. ~ (p > Len(payments))
      BY DEF TypeInv, TypeOK
    <2>4. Entitled(p)' <=> Entitled(p)
      BY <1>2, <1>3 DEF Entitled, history
    <2>5. CASE MarkCompleted(r)
      <3>1. r \in Granting(p) /\ e.status = "COMPLETED"
        BY <1>0, <1>1, <2>5 DEF MarkCompleted, Granting, Updates
      <3> QED BY <1>2, <1>3, <1>6, <2>3, <2>4, <3>1 DEF Entry, SameEntry, history
    <2>6. CASE MarkRejected(r)
      <3>1. Granting(p) = {} /\ e.status = "REJECTED"
        BY <1>0, <1>1, <2>1, <2>6, GrantingDeciding DEF MarkRejected, Granting, Updates
      <3> QED BY <1>2, <1>3, <1>6, <2>1, <2>2, <2>3, <2>4, <3>1 DEF Entry, history
    <2> QED BY <2>5, <2>6
  <1> QED BY <1>5, <1>6, LedgerSettles

\* A request dies: between the two writes of an approval that takes its
\* payment out of the ledger, elsewhere the ledger rests.
LEMMA AbortLedger ==
  ASSUME TypeInv, DecisionInv, Mapped, Mapped', NEW r \in Requests, Abort(r)
  PROVE  [Ledger!Next]_(Ledger!ledger)
  <1>1. Finish(r) /\ UNCHANGED <<payments, grants>>
    BY DEF Abort, tables
  <1>2. CASE pc[r] # "approve:mark"
    <2>1. contested' = contested
      BY <1>2 DEF Abort
    <2>2. \A o : Granting(o)' = Granting(o)
      BY <1>1, <1>2 DEF Finish, Goto, TypeInv, TypeOK, Granting
    <2>3. \A o \in LedgerIds : SameEntry(o)
      BY <1>1, <2>1, <2>2, UntouchedEntry DEF TypeInv
    <2> QED BY <2>3, LedgerRests DEF SameEntry
  <1>3. CASE pc[r] = "approve:mark"
    <2>0. PICK p \in DOMAIN payments : p = work[r].payment
      BY <1>3 DEF TypeInv, TypeOK, OnPayment, Deciding, Approving
    <2>1. Local(r, p) /\ r \in Granting(p)
      BY <1>1, <1>3, <2>0 DEF Finish, Goto, Local, TypeInv, TypeOK, Steps, Granting, Deciding,
         Approving
    <2>2. contested' = contested \cup {p}
      BY <1>3, <2>0 DEF Abort
    <2>3. /\ \A o \in LedgerIds \ {p} : SameEntry(o)
          /\ p \in contested => SameEntry(p)
      BY <1>1, <2>1, <2>2, OthersRest DEF TypeInv
    <2>4. ~ (p > Len(payments)) /\ payments' = payments
      BY <1>1 DEF TypeInv, TypeOK
    <2>5. Entry(p)' = "contested" /\ ~ Entitled(p)'
      BY <2>2, <2>4 DEF Entry, Entitled
    <2>6. p \notin contested => Entry(p) = "approved"
      BY <2>1, <2>4 DEF Entry
    <2> QED BY <2>3, <2>5, <2>6, LedgerSettles
  <1> QED BY <1>2, <1>3

\* Steps the ledger does not see: quotes and coupons, receipts, the lookup of
\* the subscription an upgrade is about, and the environment.
LEMMA QuietLedger ==
  ASSUME TypeInv, Mapped, Mapped', UNCHANGED history,
         DOMAIN payments' = DOMAIN payments, Len(payments') = Len(payments),
         \A p \in DOMAIN payments : payments'[p].status = payments[p].status,
         \A o : Granting(o)' = Granting(o)
  PROVE  UNCHANGED Ledger!ledger
  <1>1. \A o \in LedgerIds : SameEntry(o)
    BY UntouchedEntry DEF TypeInv, history
  <1> QED BY <1>1, LedgerRests DEF SameEntry

LEMMA CreateLedger ==
  ASSUME TypeInv, Mapped, Mapped', NEW r \in Requests, CreateStep(r)
  PROVE  [Ledger!Next]_(Ledger!ledger)
  <1>1. CASE ~ InsertPayment(r)
    <2>1. /\ Moves(r) /\ pc[r] # "approve:mark" /\ pc'[r] # "approve:mark"
          /\ UNCHANGED <<payments, history>>
      <3>1. CASE \E u \in Users, p \in Plans, c \in Coupons \cup {Nil} : BeginCreate(r, u, p, c)
        BY <3>1, GotoMoves DEF BeginCreate, tables, TypeInv
      <3>2. CASE QuoteFullPrice(r)
        BY <3>2, GotoMoves DEF QuoteFullPrice, tables, TypeInv
      <3>4. CASE QuoteUpgrade(r)
        BY <3>4, GotoMoves DEF QuoteUpgrade, tables, TypeInv
      <3>5. CASE ApplyCoupon(r)
        BY <3>5, GotoMoves DEF ApplyCoupon, tables, TypeInv
      <3>3. CASE RefuseQuote(r) \/ RefuseCoupon(r) \/ RecordRedemption(r)
        BY <3>3, GotoMoves DEF RefuseQuote, RefuseCoupon, RecordRedemption, tables, TypeInv
      <3> QED BY <1>1, <3>1, <3>2, <3>3, <3>4, <3>5 DEF CreateStep
    <2>2. \A o : Granting(o)' = Granting(o)
      BY <2>1 DEF Moves, Granting
    <2> QED BY <2>1, <2>2, QuietLedger
  <1> QED BY <1>1, InsertLedger

LEMMA ReceiptLedger ==
  ASSUME TypeInv, Mapped, Mapped', NEW r \in Requests,
         \/ AttachReceipt(r) \/ LookupForUpgrade(r)
         \/ \E p \in DOMAIN payments : BeginAttach(r, p)
  PROVE  UNCHANGED Ledger!ledger
  <1>1. /\ Moves(r) /\ pc[r] # "approve:mark" /\ pc'[r] # "approve:mark"
        /\ UNCHANGED history
    <2>1. CASE AttachReceipt(r)
      BY <2>1, GotoMoves DEF AttachReceipt, TypeInv
    <2>2. CASE LookupForUpgrade(r)
      <3>1. \E step \in {"approve:activate", "approve:switch"} : \E d : Goto(r, step, d)
        BY <2>2 DEF LookupForUpgrade
      <3> QED BY <2>2, <3>1, GotoMoves DEF LookupForUpgrade, TypeInv
    <2>3. CASE \E p \in DOMAIN payments : BeginAttach(r, p)
      <3>1. /\ \E d : Goto(r, "attach:update", d)
            /\ pc[r] = "idle" /\ UNCHANGED history
        BY <2>3 DEF BeginAttach, BeginOnPending
      <3> QED BY <3>1, GotoMoves DEF TypeInv
    <2> QED BY <2>1, <2>2, <2>3
  <1>2. \A o : Granting(o)' = Granting(o)
    BY <1>1 DEF Moves, Granting
  <1>3. DOMAIN payments' = DOMAIN payments /\ Len(payments') = Len(payments)
    BY DecideMoves DEF DecideStep, TypeInv
  <1>4. \A p \in DOMAIN payments : payments'[p].status = payments[p].status
    <2>1. CASE AttachReceipt(r)
      <3>1. PICK e \in Payment : Updates(r, e)
        BY <2>1, UpdatedPayment DEF TypeInv
      <3> QED BY <2>1, <3>1, RowUpdate, UpdatedPayment DEF TypeInv, TypeOK, Updates
    <2>2. CASE ~ AttachReceipt(r)
      BY <2>2 DEF LookupForUpgrade, BeginAttach, tables
    <2> QED BY <2>1, <2>2
  <1> QED BY <1>1, <1>2, <1>3, <1>4, QuietLedger

LEMMA LedgerStep ==
  TypeInv /\ DecisionInv /\ Capacity /\ TypeInv' /\ Capacity' /\ [Next]_vars
    => [Ledger!Next]_(Ledger!ledger)
  <1> SUFFICES ASSUME TypeInv, DecisionInv, Capacity, TypeInv', Capacity', [Next]_vars
               PROVE  [Ledger!Next]_(Ledger!ledger)
    OBVIOUS
  <1>0. Mapped /\ Mapped'
    BY LedgerEntries, LedgerEntriesNext DEF TypeInv
  <1>1. CASE \/ UNCHANGED vars \/ Tick
             \/ \E p \in Plans : UpdatePlan(p)
             \/ \E c \in Coupons : SetCouponActive(c)
    <2>1. UNCHANGED <<payments, pc, work, history>>
      BY <1>1 DEF vars, Tick, UpdatePlan, SetCouponActive, tables
    <2>2. \A o : Granting(o)' = Granting(o)
      BY <2>1 DEF Granting
    <2> QED BY <1>0, <2>1, <2>2, QuietLedger
  <1>2. ASSUME NEW r \in Requests, DecideStep(r) PROVE [Ledger!Next]_(Ledger!ledger)
    <2>1. \/ \E p \in DOMAIN payments : BeginApprove(r, p) \/ BeginReject(r, p)
          \/ Activate(r) \/ SwitchPlan(r)
          \/ MarkCompleted(r) \/ MarkRejected(r)
          \/ AttachReceipt(r) \/ LookupForUpgrade(r)
          \/ \E p \in DOMAIN payments : BeginAttach(r, p)
      BY <1>2 DEF DecideStep
    <2> QED BY <1>0, <2>1, BeginLedger, GrantLedger, MarkLedger, ReceiptLedger
  <1> QED BY <1>0, <1>1, <1>2, CreateLedger, AbortLedger DEF Next

\* The handlers keep the promise of PaymentLedger: a payment is opened, decided
\* once and entitles the customer exactly if it was approved, or two decisions
\* contest it.
THEOREM LedgerImplemented == Spec => ImplementsLedger
  <1>1. Spec => []Capacity
    <2>1. TypeInv /\ Capacity /\ [Next]_vars => Capacity'
      BY CapacityStep
    <2> QED BY TypeInit, TypeStep, CapacityInit, <2>1, PTL DEF Spec
  <1> QED BY <1>1, LedgerInit, LedgerStep, Inductive, PTL DEF Spec, ImplementsLedger, Ledger!Spec
=============================================================================
