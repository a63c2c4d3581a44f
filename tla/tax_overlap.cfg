SPECIFICATION Spec
CONSTANTS
  coin = coin  alt = alt  try = try
  c1 = c1  c2 = c2
  Nil = Nil
  Calcs = {c1, c2}
  Assets = {coin, alt, try}
  Fiat = {try}
  Years <- MCYears
  Histories <- FewHistories
  Late = {1}
  CapitalExemption <- MCCapital
  OccasionalExemption <- MCOccasional
  MaxRuns = 3
  MaxAborts = 1
INVARIANTS
  TypeOK
  RowsFollowBook
  RebuildSound
CHECK_DEADLOCK FALSE
