SPECIFICATION FairSpec
CONSTANTS
  c1 = c1  c2 = c2  a1 = a1  a2 = a2  m1 = m1  i1 = i1  i2 = i2  i3 = i3  k1 = k1  k2 = k2  k3 = k3
  Connections = {c1}
  Accounts = {a1}
  AccountOf <- OneAccount
  Imports = {}
  Items = {i1}
  Malformed = {}
  Keys = {k1}
  Origin <- OfAccount
  KeyOf <- ItsKey
  Requests = {r1, r2}
  Worker = w
  NoRef = noref
  MaxTime = 0
  MaxQueue = 1
  MaxFaults = 2
  MaxRestarts = 1
PROPERTY SyncingEnds
CHECK_DEADLOCK FALSE
