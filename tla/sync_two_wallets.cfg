SPECIFICATION Spec
CONSTANTS
  c1 = c1  c2 = c2  a1 = a1  a2 = a2  m1 = m1  i1 = i1  i2 = i2  i3 = i3  k1 = k1  k2 = k2  k3 = k3
  Connections = {c1, c2}
  Accounts = {a1, a2}
  AccountOf <- TwoAccounts
  Imports = {}
  Items = {i1, i2}
  Malformed = {}
  Keys = {k1}
  Origin <- TwoSides
  KeyOf <- OneHash
  Requests = {r1}
  Worker = w
  NoRef = noref
  MaxTime = 1
  MaxQueue = 1
  MaxFaults = 0
  MaxRestarts = 0
INVARIANT EveryItemStored
CHECK_DEADLOCK FALSE
