SPECIFICATION Spec
CONSTANTS
  u1 = u1  u2 = u2
  basic = basic  pro = pro  max = max  acc = acc
  k1 = k1
  r1 = r1  r2 = r2
  Nil = Nil
  Users = {u1}
  Plans = {basic}
  Coupons = {}
  Requests = {r1}
  PlanType <- MCPlanType
  ListPrice <- MCListPrice
  CouponOwner <- MCCouponOwner
  Prices = {}
  Term = 2
  MaxTime = 2
  MaxPayments = 2
  MaxAborts = 0
  MaxPlanEdits = 0
CHECK_DEADLOCK FALSE
PROPERTIES RenewalExtends
