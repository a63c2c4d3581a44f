SPECIFICATION Spec
CONSTANTS
  r1 = r1  r2 = r2
  Requests = {r1, r2}
  Nil = Nil
  MAX_FAILED_LOGINS = 2
  LOCKOUT = 1
  REUSE_GRACE = 1
  REFRESH_EXPIRES = 1
  RESET_EXPIRES = 1
  MaxTime = 2
  Allowances <- MCAllowances
INVARIANTS
  TypeOK
  OneLivePerSession
  SessionsEndWithPassword
  FailuresBounded
  TwoFactorConfirmed
SYMMETRY Interchangeable
CHECK_DEADLOCK FALSE
