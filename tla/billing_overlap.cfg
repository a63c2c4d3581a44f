SPECIFICATION Spec
CONSTANTS
  u1 = u1  u2 = u2
  basic = basic  pro = pro  max = max  acc = acc
  k1 = k1
  r1 = r1  r2 = r2
  Nil = Nil
  Users = {u1}
  Plans = {basic, pro, acc}
  Coupons = {}
  Requests = {r1, r2}
  PlanType <- MCPlanType
  ListPrice <- MCListPrice
  CouponOwner <- MCCouponOwner
  Prices = {}
  Term = 1
  MaxTime = 1
  MaxPayments = 2
  MaxAborts = 1
  MaxPlanEdits = 0
SYMMETRY RequestSymmetry
INVARIANTS
  TypeOK
  DecidedOnce
  CompletedNamesOwnTerm
PROPERTIES
  DecisionIsFinal
  TermFixed
  ImplementsLedger
CHECK_DEADLOCK FALSE
