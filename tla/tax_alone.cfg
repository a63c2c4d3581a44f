SPECIFICATION FairSpec
CONSTANTS
  coin = coin  alt = alt  try = try
  c1 = c1  c2 = c2
  Nil = Nil
  Calcs = {c1}
  Assets = {coin, alt, try}
  Fiat = {try}
  Years <- MCYears
  Histories <- AllHistories
  Late = {}
  CapitalExemption <- MCCapital
  OccasionalExemption <- MCOccasional
  MaxRuns = 1
  MaxAborts = 0
INVARIANTS
  FifoExact
PROPERTIES
  SummaryExact
  CalculationEnds
CHECK_DEADLOCK FALSE
