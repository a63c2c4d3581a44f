SPECIFICATION Spec
CONSTANTS
  c1 = c1  c2 = c2  a1 = a1  a2 = a2  m1 = m1  i1 = i1  i2 = i2  i3 = i3  k1 = k1  k2 = k2  k3 = k3
  Connections = {c1}
  Accounts = {a1}
  AccountOf <- OneAccount
  Imports = {m1}
  Items = {i1, i2, i3}
  Malformed = {i3}
  Keys = {k1, k2, k3}
  Origin <- AccountAndFile
  KeyOf <- OwnKeys
  Requests = {r1}
  Worker = w
  NoRef = noref
  MaxTime = 1
  MaxQueue = 1
  MaxFaults = 2
  MaxRestarts = 1
INVARIANTS TypeOK LostOnlyKnownWays SyncingTended RowsKnowTheirSource
  AnalysedUnlessInterrupted
CHECK_DEADLOCK FALSE
