SPECIFICATION FairSpec
CONSTANTS
  c1 = c1  c2 = c2  c3 = c3  c4 = c4
  Nil = Nil
  Coins <- MCCoins
  CommonQuotes <- MCCommonQuotes
  Accounts <- MCAccounts
  LIMIT = 2
  WINDOW = 1
  LOOKBACK = 3
  SECOND = 2
  DAY = 4
  MAX_RETRIES = 1
  T0 = 4
  MaxTime = 5
  MaxErrors = 2
INVARIANTS
  TypeOK
  RowsHandedOver
  LevelNotUnderstated
PROPERTIES
  PagingEnds
CHECK_DEADLOCK FALSE
