\* Two providers, or two loans: amounts up to 3 and counters up to 5.
\* Booking: one position that closes whole, two faults, so three requests overlap.
\* Onboarding: one trader, two requests at once.  Usernames: two traders and a name.
SPECIFICATION VSSpec
CONSTANTS
  AdminCapIds = {"a1"}
  ExecutorCapIds = {"e1"}
  FirstAdmin = "a1"
  FirstExecutor = "e1"
  p1 = p1
  p2 = p2
  ProviderCapIds = {p1, p2}
  Venues = {"v"}
  Amounts = {0, 1, 3}
  ApyInputs = {7}
  BufferInputs = {0}
  CeilingInputs = {1}
  InitialBuffer = 5000
  InitialCeiling = 0
  U64_MAX = 5
  MINIMUM_LIQUIDITY = 1
  YIELD_PRECISION = 2
  PRICE_SCALE = 1
  MaxLendings = 2
  MaxApySeq = 1
  Scenes = {"vault", "booking", "onboarding", "usernames"}
  pos1 = pos1
  Positions = {pos1}
  Size = 1
  MaxInFlight = 3
  MaxFaults = 2
  Streams = {1, 2}
  MaxMark = 2
  MaxQueue = 2
  Gains <- MCGains
  PROFIT = 2
  DAILY = 2
  LOSS = 3
  MaxCloses = 2
  MaxCycles = 2
  MaxPosts = 2
  MaxLapses = 1
  Traders = {"t1"}
  OnboardTiers = {"starter"}
  Fees = {1, 2}
  FirstFee = 1
  FirmCoins = 2
  MaxRequests = 2
  MaxPayments = 1
  MaxRetunes = 1
  Claimants = {"t1", "t2"}
  Labels = {"n1"}
  MaxClaims = 2
  MaxMints = 2
  MaxMoves = 1
SYMMETRY Providers
INVARIANTS
  TypeOK
  SharesAgree
  LentIsActive
  YieldNotOverstated
  KeyBooksOnce
  RowBooksOnce
  LedgerIsBooked
  KnownTraderIsNotReopened
  NameWasHeld
PROPERTIES
  ExposureIsGated
  ImplementsSharePool
  ClosedRowsStay
CHECK_DEADLOCK FALSE
