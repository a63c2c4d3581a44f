SPECIFICATION Spec
CONSTANTS
  u1 = u1  u2 = u2
  basic = basic  pro = pro  max = max  acc = acc
  k1 = k1
  r1 = r1  r2 = r2
  Nil = Nil
  Users = {u1, u2}
  Plans = {basic, pro}
  Coupons = {k1}
  Requests = {r1, r2}
  PlanType <- MCPlanType
  ListPrice <- MCListPrice
  CouponOwner <- MCCouponOwner
  Prices = {0}
  Term = 2
  MaxTime = 0
  MaxPayments = 2
  MaxAborts = 1
  MaxPlanEdits = 1
CHECK_DEADLOCK FALSE
CONSTRAINT OneMishap
SYMMETRY RequestSymmetry
INVARIANTS
  CouponAccounted
  EveryPaymentCharges
