SPECIFICATION Spec
CONSTANTS
  w1 = w1  w2 = w2  d1 = d1  d2 = d2
  coin = coin  alt = alt  exchange = exchange  wallet = wallet
  i1 = i1  i2 = i2
  Nil = Nil
  Ingests = {i1, i2}
  Rows = {w1, w2, d1, d2}
  Assets = {coin, alt}
  SpamAssets = {alt}
  Sources = {exchange, wallet}
  Removable = {exchange}
  Books <- MCBooks
  YearTurn = 99
  ServerOffset = 0
  MaxRuns = 2
  MaxAborts = 1
INVARIANTS
  TypeOK
  PairsSound
  SearchExhausts
  ReplayExact
CHECK_DEADLOCK FALSE
SYMMETRY InterchangeableIngests
