\* Books: two accounts, amounts and balances up to 2.  Keys: two admin caps, two
\* destinations and a delay of two ticks, with amounts of 1.
\* Up to three opens and closes over two days: the long can be liquidated alone or
\* with the other, brackets gap, and each rule can be broken.
SPECIFICATION BothSpec
CONSTANTS
  acc1 = acc1
  acc2 = acc2
  Basic = Basic
  Pro = Pro
  AdminCapIds = {"a1", "a2"}
  ExecutorCapIds = {"e1"}
  FirstAdmin = "a1"
  FirstExecutor = "e1"
  Tiers = {Basic, Pro}
  SeedRows <- MCSeedRows
  RowInputs <- MCRowInputs
  U64_MAX = 2
  AccountIds = {acc1, acc2}
  Amounts = {0, 1, 2}
  Addresses = {"x", "y"}
  NO_PENDING = "0x0"
  FeesAddress = "x"
  EvalFundsAddress = "x"
  address_change_delay_ms = 2
  MaxTime = 3
  BTC = BTC
  ISO = ISO
  Markets <- MCMarkets
  MaxLeverage <- MCMaxLeverage
  OnlyIsolated = {ISO}
  Prices = {161, 200, 260}
  SeedPrices <- MCSeedPrices
  Rates = {20}
  Orders <- MCOrders
  BracketPrices = {180}
  START = 736
  DRAWDOWN = 240
  DAILY_LOSS = 180
  PROFIT_TARGET = 160
  LEVERAGE = 4
  FEE = 9
  SLIP = 9
  SLIP_CAP = 9
  FUNDING_CAP = 13
  RATE_UNIT = 2
  DAY = 2
  FUNDING_INTERVAL = 1
  CENT = 8
  SCALE = 8
  MaxIntents = 3
  MaxNow = 2
SYMMETRY Accounts
INVARIANTS
  TypeOK
  PoolsBalance
  BooksAgree
  PaidWasAccrued
  PaperTypeOK
  BooksReconcile
  OutcomeMatchesEquity
  ExecutorIsNoStricter
  DailyAnchor
PROPERTIES
  OwedStaysCovered
  DestinationWasAnnounced
  LockoutIsPermanent
CHECK_DEADLOCK FALSE
