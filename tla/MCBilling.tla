----------------------------- MODULE MCBilling -----------------------------
(***************************************************************************)
(* Small instances of Billing: one or two customers, the free plan and two *)
(* or three paid ones, and one coupon owned by an accountant.              *)
(***************************************************************************)
EXTENDS BillingRefinement, TLC

CONSTANTS u1, u2, basic, pro, max, acc, k1, r1, r2

MCPlanType == [p \in Plans |-> IF p = acc THEN "ACCOUNTANT" ELSE "INDIVIDUAL"]
MCListPrice == [p \in Plans |-> IF p = basic THEN 100
                             ELSE IF p = pro THEN 230 ELSE 400]
MCCouponOwner == [c \in Coupons |-> u2]

\* A behaviour has one edit of a plan or one death.
OneMishap == aborts + planEdits <= 1

RequestSymmetry == Permutations(Requests)
=============================================================================
