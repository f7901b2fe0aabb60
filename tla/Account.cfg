\* One account on two tiers.  Risk: three trades over two days.  Record: one trade,
\* three months, payouts and reputation moves, with every amount at its limit.
SPECIFICATION MCSpec
CONSTANTS
  Basic = Basic
  Pro = Pro
  AdminCapIds = {"a1"}
  ExecutorCapIds = {"e1"}
  FirstAdmin = "a1"
  FirstExecutor = "e1"
  Tiers <- MCTiers
  SeedRows <- MCSeedRows
  RowInputs <- MCRowInputs
  AccountIds = {"acc"}
  U64_MAX = 26
  Pnls = {0, 2, 3}
  Months = {1, 2, 4}
  RepAmounts = {3}
  PayoutAmounts = {9}
  INITIAL_REPUTATION = 2
  MAX_REPUTATION = 4
  REP_WIN = 1
  REP_LOSS = 1
  REP_BREACH_PENALTY = 2
  REP_STREAK_BONUS = 1
  REP_PASS_BONUS = 2
  MaxTrades = 3
  MaxDay = 1
  MaxBreaches = 2
INVARIANTS
  TypeOK
  RiskGate
  PassIsEarnedThisCycle
  DailyBaseline
  JournalAgrees
  StreaksAgree
PROPERTIES
  TermsAreFrozen
  StoppedAccountIsFrozen
  Lifecycle
CHECK_DEADLOCK FALSE
