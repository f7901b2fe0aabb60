\* A page that was just loaded, with an evaluation that may be older.
SPECIFICATION MCPaperSpec
CONSTANTS
  BTC = BTC
  ISO = ISO
  Markets <- MCMarkets
  MaxLeverage <- MCMaxLeverage
  OnlyIsolated = {ISO}
  Prices = {161, 200, 260}
  SeedPrices <- MCSeedPrices
  Rates = {20}
  Orders <- MCOrders
  BracketPrices = {180}
  START = 736
  DRAWDOWN = 240
  DAILY_LOSS = 180
  PROFIT_TARGET = 160
  LEVERAGE = 4
  FEE = 9
  SLIP = 9
  SLIP_CAP = 9
  FUNDING_CAP = 13
  RATE_UNIT = 2
  DAY = 2
  FUNDING_INTERVAL = 1
  CENT = 8
  SCALE = 8
  MaxIntents = 3
  MaxNow = 2
PROPERTY
  TradesOnLivePrices
CHECK_DEADLOCK FALSE
