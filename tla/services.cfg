SPECIFICATION Spec
CONSTANTS
  r1 = r1  r2 = r2
  Nil = Nil
  ea = ea  eb = eb
  na = na  nb = nb
  pa = pa  pb = pb
  ua = ua  ub = ub  uc = uc
  coin = coin
  Requests = {r1, r2}
  Emails = {ea, eb}
  Usernames = {na, nb}
  Phones = {pa, pb}
  LINK_EXPIRES = 0
  CODE_EXPIRES = 0
  MaxUsers = 2
  Allowances <- MCAllowances
  Users = {ua, ub, uc}
  MaxStaffCalls = 5
  Clients = {ea, eb}
  ClientLimits = {Nil, 1}
  MaxInvitations = 2
  MaxClientCalls = 2
  Coins = {coin}
  Hours = {93, 117}
  WorkDays = {0, 5}
  Markets <- MCMarkets
  TTL = 1
  Today = 5
  MaxDays = 1
  MaxRuns = 3
  MaxErrors = 1
  Recipients = {ua, ub}
  Calendar <- MCCalendar
  MaxFaults = 2
  MaxMessages = 4
  MaxDeskCalls = 2
  MaxDeskAborts = 1
  EXPIRES = 1
  MaxTime = 2
  MaxShares = 3
INVARIANTS
  TypeOK
  AccountsProven
  LimitsKept
  DecidedAsRead
  PricesSound
  TicketsAndLinksHold
SYMMETRY Interchangeable
CHECK_DEADLOCK FALSE
