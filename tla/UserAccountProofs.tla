------------------------- MODULE UserAccountProofs -------------------------
(***************************************************************************)
(* Theorems about UserAccount for any number of accounts, any tiers,       *)
(* amounts and bounds.  First what each action does to one record: each of *)
(* its stages keeps the record well typed, and the action keeps it inside  *)
(* the inductive invariant AccountInv.  Then Update lifts that to the      *)
(* registry, IInv is shown to be inductive, and the properties of the      *)
(* specification follow from it.                                           *)
(***************************************************************************)
EXTENDS UserAccountHistory, AccessProofs, SumLemmas

\* The assumptions on the constants, as the provers use them.
LEMMA ConstantTypes ==
    /\ U64_MAX \in Nat
    /\ INITIAL_REPUTATION \in 0 .. MAX_REPUTATION
    /\ MAX_REPUTATION \in Nat
    /\ REP_WIN \in Nat
    /\ REP_LOSS \in Nat
    /\ REP_BREACH_PENALTY \in Nat
    /\ REP_STREAK_BONUS \in Nat
    /\ REP_PASS_BONUS \in Nat
    /\ U64 \subseteq Nat
BY TierAssumption, AccountAssumption DEF U64

-----------------------------------------------------------------------------
(* Amounts. *)

\* Multiplying by a ratio of at most one and rounding down does not increase.
LEMMA MulDivBounds ==
    ASSUME NEW f \in Nat, NEW b \in 0 .. BPS_DENOM
    PROVE  mul_div_down(f, b, BPS_DENOM) \in 0 .. f
<1> DEFINE p == f * b
           q == p \div 10000
<1>1. p \in Nat /\ p <= f * 10000
  BY DEF BPS_DENOM
<1> HIDE DEF p
<1>2. q \in Nat /\ 10000 * q <= p
  BY <1>1
<1>3. q <= f
  BY <1>1, <1>2
<1> QED BY <1>2, <1>3 DEF mul_div_down, p, q, BPS_DENOM

LEMMA RepUpType ==
    ASSUME NEW rep \in 0 .. MAX_REPUTATION, NEW delta \in Nat
    PROVE  rep_up(rep, delta) \in 0 .. MAX_REPUTATION
BY ConstantTypes DEF rep_up

LEMMA SubFloorType ==
    ASSUME NEW a \in Nat, NEW b \in Nat
    PROVE  sub_floor(a, b) \in 0 .. a
BY DEF sub_floor

LEMMA SubFloorBelow ==
    ASSUME NEW m \in Nat, NEW a \in 0 .. m, NEW b \in Nat
    PROVE  sub_floor(a, b) \in 0 .. m
BY DEF sub_floor

\* The fields of a record that the stages compute with.
LEMMA FieldTypes ==
    ASSUME NEW a \in AccountState
    PROVE  /\ a.status \in AccountStatus
           /\ a.reputation \in Nat /\ a.reputation \in 0 .. MAX_REPUTATION
           /\ a.funded_size \in Nat /\ a.funded_size \in U64
           /\ a.profit_target \in Nat
           /\ a.max_dd_floor \in Nat
           /\ a.daily_loss_limit \in Nat
           /\ a.equity \in Nat /\ a.equity \in U64
           /\ a.day_start_equity \in Nat
           /\ a.current_day \in Nat
           /\ a.wins \in Nat
           /\ a.losses \in Nat
           /\ a.gross_profit \in Nat
           /\ a.gross_loss \in Nat
           /\ a.breach_count \in Nat
           /\ a.total_paid \in Nat
           /\ a.months_closed \in Nat
           /\ a.last_closed_month \in Nat
           /\ a.profit_streak \in Nat
           /\ a.best_streak \in Nat
<1>1. /\ a.status \in AccountStatus
      /\ a.reputation \in 0 .. MAX_REPUTATION
      /\ a.funded_size \in U64
      /\ a.profit_target \in U64
      /\ a.max_dd_floor \in U64
      /\ a.daily_loss_limit \in U64
      /\ a.equity \in U64
      /\ a.day_start_equity \in U64
      /\ a.gross_profit \in U64
      /\ a.gross_loss \in U64
      /\ a.total_paid \in U64
  BY DEF AccountState
<1>2. /\ a.current_day \in Nat
      /\ a.wins \in Nat
      /\ a.losses \in Nat
      /\ a.breach_count \in Nat
      /\ a.months_closed \in Nat
      /\ a.last_closed_month \in Nat
      /\ a.profit_streak \in Nat
      /\ a.best_streak \in Nat
  BY DEF AccountState
<1>3. /\ a.funded_size \in Nat
      /\ a.profit_target \in Nat
      /\ a.max_dd_floor \in Nat
      /\ a.daily_loss_limit \in Nat
      /\ a.equity \in Nat
      /\ a.day_start_equity \in Nat
      /\ a.gross_profit \in Nat
      /\ a.gross_loss \in Nat
      /\ a.total_paid \in Nat
  BY <1>1, ConstantTypes DEF U64
<1>4. a.reputation \in Nat
  BY <1>1, ConstantTypes
<1> QED BY <1>1, <1>2, <1>3, <1>4

LEMMA SumFits ==
    ASSUME NEW x \in Nat, NEW y \in U64, x + y <= U64_MAX
    PROVE  x + y \in U64
BY ConstantTypes DEF U64

LEMMA Within ==
    ASSUME NEW b \in Nat, NEW m \in Nat, m \in 1 .. b, NEW d \in Nat, d \in 1 .. m
    PROVE  d \in 0 .. b
OBVIOUS

\* The ratios of a valid row are ratios, the daily one because it is below the
\* drawdown one.
LEMMA RatioBounds ==
    ASSUME NEW r \in TierRow, ValidRow(r)
    PROVE  /\ r.profit_target_bps \in 0 .. BPS_DENOM
           /\ r.max_dd_bps \in 0 .. BPS_DENOM
           /\ r.daily_loss_bps \in 0 .. BPS_DENOM
<1>1. r.max_dd_bps \in Nat /\ r.daily_loss_bps \in Nat /\ r.profit_target_bps \in Nat
  BY DEF TierRow
<1>2. /\ r.profit_target_bps \in 1 .. BPS_DENOM
      /\ r.max_dd_bps \in 1 .. BPS_DENOM
      /\ r.daily_loss_bps \in 1 .. r.max_dd_bps
  BY DEF ValidRow
<1>3. BPS_DENOM \in Nat
  BY DEF BPS_DENOM
<1>4. r.daily_loss_bps \in 0 .. BPS_DENOM
  BY <1>1, <1>2, <1>3, Within
<1> QED BY <1>1, <1>2, <1>3, <1>4

\* What an account copies from a valid published row.
LEMMA TermsType ==
    ASSUME RowsOK, NEW t \in Tiers
    PROVE  /\ Terms(t).funded_size \in U64
           /\ Terms(t).max_dd_floor \in 0 .. Terms(t).funded_size
           /\ Terms(t).daily_loss_limit \in U64
           /\ Terms(t).profit_target \in Nat
           /\ Terms(t).user_split_bps \in Nat
           /\ row(t).next_tier \in Tiers
<1> DEFINE r == rows[t]
           f == r.funded_size
<1>1. r \in TierRow /\ ValidRow(r)
  BY DEF RowsOK
<1> HIDE DEF r
<1>2. f \in U64 /\ r.user_split_bps \in Nat /\ r.next_tier \in Tiers
  BY <1>1 DEF TierRow
<1>3. f \in Nat
  BY <1>2, ConstantTypes
<1>4. /\ mul_div_down(f, r.profit_target_bps, BPS_DENOM) \in 0 .. f
      /\ mul_div_down(f, r.max_dd_bps, BPS_DENOM) \in 0 .. f
      /\ mul_div_down(f, r.daily_loss_bps, BPS_DENOM) \in 0 .. f
  BY <1>1, <1>3, RatioBounds, MulDivBounds
<1> QED BY <1>2, <1>3, <1>4, ConstantTypes DEF Terms, row, U64, r

-----------------------------------------------------------------------------
(* Each stage keeps a record well typed. *)

LEMMA NewStateType ==
    ASSUME RowsOK, now_day \in Nat, NEW t \in Tiers,
           Terms(t).profit_target <= U64_MAX
    PROVE  new_state(t) \in AccountState
BY TermsType, ConstantTypes DEF new_state, AccountState, AccountStatus, U64

LEMMA FreshCycleType ==
    ASSUME now_day \in Nat, NEW a \in AccountState
    PROVE  FreshCycle(a) \in AccountState
BY DEF FreshCycle, AccountState

LEMMA ResetCycleType ==
    ASSUME RowsOK, now_day \in Nat, NEW t \in Tiers, NEW a \in AccountState,
           Terms(t).profit_target <= U64_MAX
    PROVE  reset_cycle(a, t) \in AccountState
<1>0. Terms(t).max_dd_floor \in U64 /\ Terms(t).profit_target \in U64
  BY TermsType, ConstantTypes DEF U64
<1>1. OnTerms(a, t) \in AccountState
  BY <1>0, TermsType DEF OnTerms, AccountState
<1>2. FreshCycle(OnTerms(a, t)) \in AccountState
  BY <1>1, FreshCycleType
<1> QED BY <1>2 DEF reset_cycle, AccountState, AccountStatus

LEMMA RollDayType ==
    ASSUME now_day \in Nat, NEW a \in AccountState
    PROVE  RollDay(a) \in AccountState
BY DEF RollDay, AccountState

LEMMA ApplyPnlType ==
    ASSUME NEW a \in AccountState, NEW is_win \in BOOLEAN, NEW pnl \in U64,
           TradeFits(a, is_win, pnl)
    PROVE  ApplyPnl(a, is_win, pnl) \in AccountState
<1>0. pnl \in Nat
  BY ConstantTypes
<1>1. CASE is_win
  <2>1. /\ a.equity + pnl \in U64
        /\ a.gross_profit + pnl \in U64
        /\ a.wins + 1 \in Nat
    BY <1>1, FieldTypes, SumFits DEF TradeFits
  <2>2. rep_up(a.reputation, REP_WIN) \in 0 .. MAX_REPUTATION
    BY RepUpType, FieldTypes, ConstantTypes
  <2> QED BY <1>1, <2>1, <2>2 DEF ApplyPnl, AccountState
<1>2. CASE ~ is_win
  <2>1. a.gross_loss + pnl \in U64 /\ a.losses + 1 \in Nat
    BY <1>2, FieldTypes, SumFits DEF TradeFits
  <2>2. sub_floor(a.reputation, REP_LOSS) \in 0 .. MAX_REPUTATION
    BY SubFloorBelow, FieldTypes, ConstantTypes
  <2>3. sub_floor(a.equity, pnl) \in U64
    BY <1>0, SubFloorBelow, FieldTypes, ConstantTypes DEF U64
  <2> QED BY <1>2, <2>1, <2>2, <2>3 DEF ApplyPnl, AccountState
<1> QED BY <1>1, <1>2

LEMMA SuspendedType ==
    ASSUME NEW a \in AccountState
    PROVE  Suspended(a) \in AccountState
<1>1. sub_floor(a.reputation, REP_BREACH_PENALTY) \in 0 .. MAX_REPUTATION
  BY SubFloorBelow, FieldTypes, ConstantTypes
<1>2. a.breach_count + 1 \in Nat
  BY FieldTypes
<1> QED BY <1>1, <1>2 DEF Suspended, AccountState, AccountStatus

LEMMA JournalType ==
    ASSUME NEW a \in AccountState, NEW is_win \in BOOLEAN, NEW pnl \in U64
    PROVE  Journal(a, is_win, pnl) \in AccountState
<1> DEFINE e == [is_win |-> is_win, pnl |-> pnl, equity_after |-> a.equity,
                 reputation_after |-> a.reputation]
<1>1. e \in TradeEntry
  BY FieldTypes DEF TradeEntry
<1>2. a.trades \in Seq(TradeEntry)
  BY DEF AccountState
<1> HIDE DEF e
<1>3. Append(a.trades, e) \in Seq(TradeEntry)
  BY <1>1, <1>2
<1>4. Journal(a, is_win, pnl) = [a EXCEPT !.trades = Append(a.trades, e)]
  BY DEF Journal, e, AccountState
<1> QED BY <1>3, <1>4 DEF AccountState

LEMMA CloseMonthType ==
    ASSUME NEW a \in AccountState, NEW month \in Nat, NEW p \in BOOLEAN
    PROVE  CloseMonth(a, month, p) \in AccountState
<1> DEFINE streak == IF p THEN a.profit_streak + 1 ELSE 0
           best == IF streak > a.best_streak THEN streak ELSE a.best_streak
           rep == IF p THEN rep_up(a.reputation, REP_STREAK_BONUS) ELSE a.reputation
<1>1. streak \in Nat /\ a.months_closed + 1 \in Nat
  BY FieldTypes
<1>2. best \in Nat
  BY <1>1, FieldTypes
<1>3. rep \in 0 .. MAX_REPUTATION
  BY RepUpType, FieldTypes, ConstantTypes
<1>4. CloseMonth(a, month, p) =
        [a EXCEPT !.last_closed_month = month, !.months_closed = a.months_closed + 1,
                  !.profit_streak = streak, !.best_streak = best, !.reputation = rep]
  BY DEF CloseMonth, AccountState
<1> HIDE DEF streak, best, rep
<1>5. [a EXCEPT !.last_closed_month = month, !.months_closed = a.months_closed + 1,
                !.profit_streak = streak, !.best_streak = best, !.reputation = rep]
        \in AccountState
  BY <1>1, <1>2, <1>3 DEF AccountState
<1> QED BY <1>4, <1>5

-----------------------------------------------------------------------------
(* The inductive invariant of one account.                                 *)

FloorBelowFunded(a) == a.max_dd_floor <= a.funded_size

TradesWithinGates(a) == trading_allowed(a.status) => WithinGates(a)

StreaksOK(a) ==
    /\ a.profit_streak <= a.best_streak
    /\ a.best_streak <= a.months_closed
    /\ a.months_closed <= a.last_closed_month

AccountInv(a) ==
    /\ FloorBelowFunded(a)
    /\ TradesWithinGates(a)
    /\ StreaksOK(a)

IInv == TypeOK /\ \A id \in DOMAIN accounts : AccountInv(accounts[id])

\* A cycle that opens at the funded size is inside every gate.
LEMMA OpeningInv ==
    ASSUME NEW a \in AccountState, FloorBelowFunded(a), StreaksOK(a),
           a.status = "Evaluating", a.equity = a.funded_size,
           a.day_start_equity = a.funded_size
    PROVE  AccountInv(a)
<1>1. daily_drawdown(a) = 0
  BY FieldTypes DEF daily_drawdown, sub_floor
<1>2. a.equity > a.max_dd_floor \/ OnlyJustOpenedOnDust(a)
  BY FieldTypes DEF FloorBelowFunded, OnlyJustOpenedOnDust
<1> QED BY <1>1, <1>2 DEF AccountInv, TradesWithinGates, WithinGates

LEMMA NewStateInv ==
    ASSUME RowsOK, now_day \in Nat, NEW t \in Tiers,
           Terms(t).profit_target <= U64_MAX
    PROVE  AccountInv(new_state(t))
<1> DEFINE a == new_state(t)
<1>1. a \in AccountState
  BY NewStateType
<1>2. FloorBelowFunded(a)
  BY TermsType, ConstantTypes DEF new_state, FloorBelowFunded, U64
<1>3. /\ StreaksOK(a) /\ a.status = "Evaluating"
      /\ a.equity = a.funded_size /\ a.day_start_equity = a.funded_size
  BY DEF new_state, StreaksOK
<1> HIDE DEF a
<1> QED BY <1>1, <1>2, <1>3, OpeningInv DEF a

LEMMA ResetCycleInv ==
    ASSUME RowsOK, now_day \in Nat, NEW t \in Tiers, NEW a \in AccountState,
           AccountInv(a), Terms(t).profit_target <= U64_MAX
    PROVE  AccountInv(reset_cycle(a, t))
<1> DEFINE b == reset_cycle(a, t)
<1>1. b \in AccountState
  BY ResetCycleType
<1>2. /\ b.funded_size = Terms(t).funded_size
      /\ b.max_dd_floor = Terms(t).max_dd_floor
      /\ b.equity = Terms(t).funded_size
      /\ b.day_start_equity = Terms(t).funded_size
      /\ b.status = "Evaluating"
      /\ b.profit_streak = a.profit_streak
      /\ b.best_streak = a.best_streak
      /\ b.months_closed = a.months_closed
      /\ b.last_closed_month = a.last_closed_month
  BY DEF reset_cycle, FreshCycle, OnTerms, AccountState
<1> HIDE DEF b
<1>3. FloorBelowFunded(b)
  BY <1>2, TermsType, ConstantTypes DEF FloorBelowFunded, U64
<1>4. StreaksOK(b)
  BY <1>2 DEF AccountInv, StreaksOK
<1>5. AccountInv(b)
  BY <1>1, <1>2, <1>3, <1>4, OpeningInv
<1> QED BY <1>5 DEF b

LEMMA ReopenInv ==
    ASSUME now_day \in Nat, NEW a \in AccountState, AccountInv(a)
    PROVE  /\ [FreshCycle(a) EXCEPT !.status = "Evaluating"] \in AccountState
           /\ AccountInv([FreshCycle(a) EXCEPT !.status = "Evaluating"])
<1> DEFINE b == [FreshCycle(a) EXCEPT !.status = "Evaluating"]
<1>1. b \in AccountState
  <2>1. PICK f : f = FreshCycle(a) /\ f \in AccountState
    BY FreshCycleType
  <2>2. [f EXCEPT !.status = "Evaluating"] \in AccountState
    BY <2>1 DEF AccountState, AccountStatus
  <2> QED BY <2>1, <2>2
<1>2. /\ b.funded_size = a.funded_size /\ b.max_dd_floor = a.max_dd_floor
      /\ b.equity = a.funded_size /\ b.day_start_equity = a.funded_size
      /\ b.status = "Evaluating"
      /\ b.profit_streak = a.profit_streak /\ b.best_streak = a.best_streak
      /\ b.months_closed = a.months_closed
      /\ b.last_closed_month = a.last_closed_month
  BY DEF FreshCycle, AccountState
<1> HIDE DEF b
<1>3. FloorBelowFunded(b) /\ StreaksOK(b)
  BY <1>2 DEF AccountInv, FloorBelowFunded, StreaksOK
<1>4. AccountInv(b)
  BY <1>1, <1>2, <1>3, OpeningInv
<1> QED BY <1>1, <1>4 DEF b

-----------------------------------------------------------------------------
(* The stages of log_trade keep the invariant.  Between ApplyPnl and        *)
(* EnforceGates the account may stand outside its gates: TradedInv is what  *)
(* holds there.                                                            *)

TradedInv(a) ==
    /\ FloorBelowFunded(a)
    /\ StreaksOK(a)

LEMMA RollDayInv ==
    ASSUME now_day \in Nat, NEW a \in AccountState, AccountInv(a)
    PROVE  TradedInv(RollDay(a))
BY DEF RollDay, AccountState, AccountInv, TradedInv, FloorBelowFunded, StreaksOK

LEMMA ApplyPnlInv ==
    ASSUME NEW a \in AccountState, NEW is_win \in BOOLEAN, NEW pnl \in U64,
           TradedInv(a)
    PROVE  TradedInv(ApplyPnl(a, is_win, pnl))
BY DEF ApplyPnl, AccountState, TradedInv, FloorBelowFunded, StreaksOK

LEMMA SuspendedInv ==
    ASSUME NEW a \in AccountState, TradedInv(a)
    PROVE  AccountInv(Suspended(a))
<1> DEFINE b == Suspended(a)
<1>1. /\ b.status = "Suspended" /\ b.funded_size = a.funded_size
      /\ b.max_dd_floor = a.max_dd_floor
      /\ b.profit_streak = a.profit_streak /\ b.best_streak = a.best_streak
      /\ b.months_closed = a.months_closed
      /\ b.last_closed_month = a.last_closed_month
  BY DEF Suspended, AccountState
<1> HIDE DEF b
<1>2. FloorBelowFunded(b) /\ StreaksOK(b)
  BY <1>1 DEF TradedInv, FloorBelowFunded, StreaksOK
<1>3. AccountInv(b)
  BY <1>1, <1>2 DEF AccountInv, TradesWithinGates, trading_allowed
<1> QED BY <1>3 DEF b

\* An account that is not suspended by the gates is inside them.
LEMMA EnforceGatesInv ==
    ASSUME NEW a \in AccountState, TradedInv(a)
    PROVE  AccountInv(EnforceGates(a)) /\ EnforceGates(a) \in AccountState
<1>1. CASE Breached(a)
  BY <1>1, SuspendedInv, SuspendedType DEF EnforceGates
<1>2. CASE ~ Breached(a)
  <2>1. daily_drawdown(a) \in Nat
    BY FieldTypes, SubFloorType DEF daily_drawdown
  <2>2. WithinGates(a)
    BY <1>2, <2>1, FieldTypes DEF Breached, WithinGates
  <2>3. AccountInv(a)
    BY <2>2 DEF TradedInv, AccountInv, TradesWithinGates
  <2> QED BY <1>2, <2>3 DEF EnforceGates
<1> QED BY <1>1, <1>2

\* Any update that leaves alone the fields AccountInv reads keeps it.
SameGateFields(a, b) ==
    /\ b.status = a.status /\ b.funded_size = a.funded_size
    /\ b.max_dd_floor = a.max_dd_floor
    /\ b.daily_loss_limit = a.daily_loss_limit
    /\ b.equity = a.equity /\ b.day_start_equity = a.day_start_equity

LEMMA SameFieldsInv ==
    ASSUME NEW a \in AccountState, AccountInv(a), NEW b \in AccountState,
           SameGateFields(a, b), StreaksOK(b)
    PROVE  AccountInv(b)
<1>1. daily_drawdown(b) = daily_drawdown(a)
  BY DEF daily_drawdown, SameGateFields
<1>2. FloorBelowFunded(b)
  BY DEF AccountInv, SameGateFields, FloorBelowFunded
<1>3. TradesWithinGates(b)
  BY <1>1 DEF AccountInv, SameGateFields, TradesWithinGates, WithinGates,
              OnlyJustOpenedOnDust
<1> QED BY <1>2, <1>3 DEF AccountInv

LEMMA JournalInv ==
    ASSUME NEW a \in AccountState, AccountInv(a), NEW is_win \in BOOLEAN,
           NEW pnl \in U64
    PROVE  AccountInv(Journal(a, is_win, pnl))
<1> DEFINE b == Journal(a, is_win, pnl)
<1>1. b \in AccountState
  BY JournalType
<1>2. /\ SameGateFields(a, b)
      /\ b.profit_streak = a.profit_streak /\ b.best_streak = a.best_streak
      /\ b.months_closed = a.months_closed
      /\ b.last_closed_month = a.last_closed_month
  BY DEF Journal, AccountState, SameGateFields
<1> HIDE DEF b
<1>3. StreaksOK(b)
  BY <1>2 DEF AccountInv, StreaksOK
<1>4. AccountInv(b)
  BY <1>1, <1>2, <1>3, SameFieldsInv
<1> QED BY <1>4 DEF b

\* The whole of log_trade on one record.
LEMMA AfterTradeInv ==
    ASSUME now_day \in Nat, NEW a \in AccountState, AccountInv(a),
           NEW is_win \in BOOLEAN, NEW pnl \in U64, TradeFits(a, is_win, pnl)
    PROVE  /\ AfterTrade(a, is_win, pnl) \in AccountState
           /\ AccountInv(AfterTrade(a, is_win, pnl))
<1> DEFINE r == RollDay(a)
           p == ApplyPnl(r, is_win, pnl)
           g == EnforceGates(p)
<1>1. r \in AccountState /\ TradedInv(r)
  BY RollDayType, RollDayInv
<1>2. TradeFits(r, is_win, pnl)
  BY DEF RollDay, TradeFits, AccountState
<1> HIDE DEF r
<1>3. p \in AccountState /\ TradedInv(p)
  BY <1>1, <1>2, ApplyPnlType, ApplyPnlInv
<1> HIDE DEF p
<1>4. g \in AccountState /\ AccountInv(g)
  BY <1>3, EnforceGatesInv
<1> HIDE DEF g
<1>5. Journal(g, is_win, pnl) \in AccountState /\ AccountInv(Journal(g, is_win, pnl))
  BY <1>4, JournalType, JournalInv
<1> QED BY <1>5 DEF AfterTrade, r, p, g

-----------------------------------------------------------------------------
(* The other actions on one record. *)

LEMMA StoppedInv ==
    ASSUME NEW a \in AccountState, AccountInv(a), NEW rep \in 0 .. MAX_REPUTATION,
           NEW s \in {"Passed", "Failed"},
           s = "Passed" => trading_allowed(a.status)
    PROVE  /\ [a EXCEPT !.status = s, !.reputation = rep] \in AccountState
           /\ AccountInv([a EXCEPT !.status = s, !.reputation = rep])
<1> DEFINE b == [a EXCEPT !.status = s, !.reputation = rep]
<1>1. b \in AccountState
  BY DEF AccountState, AccountStatus
<1>2. /\ b.status = s /\ b.funded_size = a.funded_size
      /\ b.max_dd_floor = a.max_dd_floor
      /\ b.daily_loss_limit = a.daily_loss_limit
      /\ b.equity = a.equity /\ b.day_start_equity = a.day_start_equity
      /\ b.profit_streak = a.profit_streak /\ b.best_streak = a.best_streak
      /\ b.months_closed = a.months_closed
      /\ b.last_closed_month = a.last_closed_month
  BY DEF AccountState
<1> HIDE DEF b
<1>3. FloorBelowFunded(b) /\ StreaksOK(b)
  BY <1>2 DEF AccountInv, FloorBelowFunded, StreaksOK
<1>4. daily_drawdown(b) = daily_drawdown(a)
  BY <1>2 DEF daily_drawdown
<1>5. TradesWithinGates(b)
  BY <1>2, <1>4 DEF AccountInv, TradesWithinGates, trading_allowed, WithinGates,
                    OnlyJustOpenedOnDust
<1>6. AccountInv(b)
  BY <1>3, <1>5 DEF AccountInv
<1> QED BY <1>1, <1>6 DEF b

LEMMA BreachInv ==
    ASSUME NEW a \in AccountState, AccountInv(a)
    PROVE  Suspended(a) \in AccountState /\ AccountInv(Suspended(a))
<1>1. TradedInv(a)
  BY DEF AccountInv, TradedInv
<1> QED BY <1>1, SuspendedType, SuspendedInv

\* A month later than the last one closed leaves room for one more month.
LEMMA CloseMonthInv ==
    ASSUME NEW a \in AccountState, AccountInv(a), NEW month \in Nat,
           NEW p \in BOOLEAN, month > a.last_closed_month
    PROVE  /\ CloseMonth(a, month, p) \in AccountState
           /\ AccountInv(CloseMonth(a, month, p))
<1> DEFINE b == CloseMonth(a, month, p)
           streak == IF p THEN a.profit_streak + 1 ELSE 0
<1>1. b \in AccountState
  BY CloseMonthType
<1>2. /\ b.last_closed_month = month
      /\ b.months_closed = a.months_closed + 1
      /\ b.profit_streak = streak
      /\ b.best_streak = IF streak > a.best_streak THEN streak ELSE a.best_streak
  BY DEF CloseMonth, AccountState
<1>3. SameGateFields(a, b)
  BY DEF CloseMonth, AccountState, SameGateFields
<1> HIDE DEF b
<1>4. StreaksOK(a)
  BY DEF AccountInv
<1>5. StreaksOK(b)
  BY <1>2, <1>4, FieldTypes DEF StreaksOK
<1>6. AccountInv(b)
  BY <1>1, <1>3, <1>5, SameFieldsInv
<1> QED BY <1>1, <1>6 DEF b

LEMMA ReputationInv ==
    ASSUME NEW a \in AccountState, AccountInv(a), NEW up \in BOOLEAN,
           NEW amount \in Nat
    PROVE  LET b == [a EXCEPT !.reputation = IF up THEN rep_up(@, amount)
                                                   ELSE sub_floor(@, amount)]
           IN  b \in AccountState /\ AccountInv(b)
<1> DEFINE rep == IF up THEN rep_up(a.reputation, amount)
                        ELSE sub_floor(a.reputation, amount)
           b == [a EXCEPT !.reputation = rep]
<1>1. rep \in 0 .. MAX_REPUTATION
  BY RepUpType, SubFloorBelow, FieldTypes, ConstantTypes
<1> HIDE DEF rep
<1>2. b \in AccountState /\ SameGateFields(a, b)
  BY <1>1 DEF AccountState, SameGateFields
<1>3. StreaksOK(b)
  BY DEF AccountInv, StreaksOK, AccountState
<1>4. AccountInv(b)
  BY <1>2, <1>3, SameFieldsInv
<1>5. b = [a EXCEPT !.reputation = IF up THEN rep_up(@, amount)
                                         ELSE sub_floor(@, amount)]
  BY DEF rep
<1> HIDE DEF b
<1> QED BY <1>2, <1>4, <1>5

LEMMA PayoutInv ==
    ASSUME NEW a \in AccountState, AccountInv(a), NEW amount \in U64,
           a.total_paid + amount <= U64_MAX
    PROVE  LET b == [a EXCEPT !.total_paid = @ + amount]
           IN  b \in AccountState /\ AccountInv(b)
<1> DEFINE b == [a EXCEPT !.total_paid = @ + amount]
<1>1. a.total_paid + amount \in U64
  BY FieldTypes, SumFits
<1>2. b \in AccountState /\ SameGateFields(a, b)
  BY <1>1 DEF AccountState, SameGateFields
<1>3. StreaksOK(b)
  BY DEF AccountInv, StreaksOK, AccountState
<1> QED BY <1>2, <1>3, SameFieldsInv

-----------------------------------------------------------------------------
(* The inductive invariant. *)

\* The registry stays in the invariant when one record in it is replaced.
LEMMA UpdateIInv ==
    ASSUME IInv, NEW id \in DOMAIN accounts, NEW a \in AccountState,
           AccountInv(a), Update(id, a)
    PROVE  IInv'
<1>1. /\ AccessTypeOK' /\ RowsOK' /\ now_day' \in Nat
  BY DEF Update, config_vars, access_vars, IInv, TypeOK, AccessTypeOK, RowsOK
<1>2. accounts' = [accounts EXCEPT ![id] = a]
  BY DEF Update
<1>3. accounts \in [DOMAIN accounts -> AccountState]
  BY DEF IInv, TypeOK
<1>4. /\ DOMAIN accounts' = DOMAIN accounts
      /\ accounts' \in [DOMAIN accounts -> AccountState]
      /\ \A x \in DOMAIN accounts : accounts'[x] = IF x = id THEN a ELSE accounts[x]
  BY <1>2, <1>3
<1>5. \A x \in DOMAIN accounts' : AccountInv(accounts'[x])
  BY <1>4 DEF IInv
<1>6. (\A x \in DOMAIN accounts : AccountInv(accounts[x]))'
  BY <1>5 DEF AccountInv, FloorBelowFunded, TradesWithinGates, WithinGates,
              OnlyJustOpenedOnDust, daily_drawdown, StreaksOK
<1> QED BY <1>1, <1>4, <1>6 DEF IInv, TypeOK

LEMMA InitIInv == Init => IInv
<1> SUFFICES ASSUME Init PROVE IInv
  OBVIOUS
<1>1. AccessTypeOK
  BY AccessInitType DEF Init
<1>2. RowsOK
  BY TierAssumption DEF Init, TierInit, RowsOK
<1>3. accounts = [id \in {} |-> {}] /\ now_day = 0
  BY DEF Init, AccountInit
<1>4. DOMAIN accounts = {} /\ accounts \in [DOMAIN accounts -> AccountState]
  BY <1>3
<1> QED BY <1>1, <1>2, <1>3, <1>4 DEF IInv, TypeOK

LEMMA CreateIInv ==
    ASSUME IInv, NEW cap, NEW id \in AccountIds, NEW t \in Tiers,
           create_account(cap, id, t)
    PROVE  IInv'
<1> USE DEF create_account
<1>1. /\ AccessTypeOK' /\ RowsOK' /\ now_day' \in Nat
  BY DEF config_vars, access_vars, IInv, TypeOK, AccessTypeOK, RowsOK
<1>2. new_state(t) \in AccountState /\ AccountInv(new_state(t))
  BY NewStateType, NewStateInv DEF IInv, TypeOK
<1>3. /\ accounts \in [DOMAIN accounts -> AccountState]
      /\ DOMAIN accounts \subseteq AccountIds
  BY DEF IInv, TypeOK
<1>4. /\ DOMAIN accounts' = DOMAIN accounts \cup {id}
      /\ \A x \in DOMAIN accounts' :
            accounts'[x] = IF x = id THEN new_state(t) ELSE accounts[x]
  OBVIOUS
<1>5. accounts' \in [DOMAIN accounts' -> AccountState]
  BY <1>2, <1>3
<1>6. \A x \in DOMAIN accounts' : AccountInv(accounts'[x])
  BY <1>2, <1>4 DEF IInv
<1>7. (\A x \in DOMAIN accounts : AccountInv(accounts[x]))'
  BY <1>6 DEF AccountInv, FloorBelowFunded, TradesWithinGates, WithinGates,
              OnlyJustOpenedOnDust, daily_drawdown, StreaksOK
<1> QED BY <1>1, <1>3, <1>4, <1>5, <1>7 DEF IInv, TypeOK

LEMMA AdminStepIInv ==
    ASSUME IInv, NEW cap, NEW id \in DOMAIN accounts, AdminStep(cap, id)
    PROVE  IInv'
<1> DEFINE a == accounts[id]
<1>1. /\ a \in AccountState /\ AccountInv(a)
      /\ now_day \in Nat /\ RowsOK
  BY DEF IInv, TypeOK
<1>2. CASE reactivate(cap, id)
  BY <1>1, <1>2, ReopenInv, UpdateIInv DEF reactivate
<1>3. CASE promote(cap, id)
  <2>1. row(a.tier).next_tier \in Tiers
    BY <1>1, TermsType DEF AccountState
  <2> QED BY <1>1, <1>3, <2>1, ResetCycleType, ResetCycleInv, UpdateIInv DEF promote
<1> QED BY <1>2, <1>3 DEF AdminStep

LEMMA ExecutorStepIInv ==
    ASSUME IInv, NEW cap, NEW id \in DOMAIN accounts, ExecutorStep(cap, id)
    PROVE  IInv'
<1> DEFINE a == accounts[id]
<1>1. a \in AccountState /\ AccountInv(a) /\ now_day \in Nat
  BY DEF IInv, TypeOK
<1>2. ASSUME NEW is_win \in BOOLEAN, NEW pnl \in Pnls, log_trade(cap, id, is_win, pnl)
      PROVE  IInv'
  <2>1. pnl \in U64
    BY AccountAssumption
  <2> QED BY <1>1, <1>2, <2>1, AfterTradeInv, UpdateIInv DEF log_trade
<1>3. CASE pass_evaluation(cap, id)
  <2> DEFINE rep == rep_up(a.reputation, REP_PASS_BONUS)
  <2>1. rep \in 0 .. MAX_REPUTATION
    BY <1>1, FieldTypes, RepUpType, ConstantTypes
  <2>2. Update(id, [a EXCEPT !.status = "Passed", !.reputation = rep])
    BY <1>1, <1>3 DEF pass_evaluation, AccountState
  <2>3. trading_allowed(a.status)
    BY <1>3 DEF pass_evaluation, trading_allowed
  <2> QED BY <1>1, <2>1, <2>2, <2>3, StoppedInv, UpdateIInv
<1>4. CASE fail_evaluation(cap, id)
  <2>1. a.reputation \in 0 .. MAX_REPUTATION
    BY <1>1, FieldTypes
  <2>2. [a EXCEPT !.status = "Failed", !.reputation = a.reputation]
          = [a EXCEPT !.status = "Failed"]
    BY <1>1 DEF AccountState
  <2> QED BY <1>1, <1>4, <2>1, <2>2, StoppedInv, UpdateIInv DEF fail_evaluation
<1>5. CASE register_dd_breach(cap, id)
  BY <1>1, <1>5, BreachInv, UpdateIInv DEF register_dd_breach
<1>6. ASSUME NEW month \in Months, NEW p \in BOOLEAN, close_month(cap, id, month, p)
      PROVE  IInv'
  <2>1. month \in Nat
    BY AccountAssumption
  <2> QED BY <1>1, <1>6, <2>1, CloseMonthInv, UpdateIInv DEF close_month
<1>7. ASSUME NEW up \in BOOLEAN, NEW amount \in RepAmounts,
             adjust_reputation(cap, id, up, amount)
      PROVE  IInv'
  <2>1. amount \in Nat
    BY AccountAssumption, ConstantTypes
  <2> QED BY <1>1, <1>7, <2>1, ReputationInv, UpdateIInv DEF adjust_reputation
<1> QED BY <1>2, <1>3, <1>4, <1>5, <1>6, <1>7 DEF ExecutorStep

LEMMA PayoutIInv ==
    ASSUME IInv, NEW id \in DOMAIN accounts, NEW amount \in PayoutAmounts,
           record_payout(id, amount)
    PROVE  IInv'
<1>1. accounts[id] \in AccountState /\ AccountInv(accounts[id])
  BY DEF IInv, TypeOK
<1>2. amount \in U64
  BY AccountAssumption
<1> QED BY <1>1, <1>2, PayoutInv, UpdateIInv DEF record_payout

\* IInv does not read the caps' and the rows' values beyond their types.
LEMMA OtherIInv ==
    ASSUME IInv, AccessTypeOK', RowsOK', now_day' \in Nat, UNCHANGED accounts
    PROVE  IInv'
BY DEF IInv, TypeOK, AccountInv, FloorBelowFunded, TradesWithinGates,
       WithinGates, OnlyJustOpenedOnDust, daily_drawdown, StreaksOK

LEMMA NextIInv == IInv /\ [Next]_vars => IInv'
<1> SUFFICES ASSUME IInv, [Next]_vars PROVE IInv'
  OBVIOUS
<1>1. AccessTypeOK /\ RowsOK /\ now_day \in Nat
  BY DEF IInv, TypeOK
<1>2. CASE AccountStep
  <2>1. ASSUME NEW cap \in AdminCapIds, NEW id \in AccountIds, NEW t \in Tiers,
               create_account(cap, id, t)
        PROVE  IInv'
    BY <2>1, CreateIInv
  <2>2. ASSUME NEW id \in DOMAIN accounts, NEW cap \in AdminCapIds, AdminStep(cap, id)
        PROVE  IInv'
    BY <2>2, AdminStepIInv
  <2>3. ASSUME NEW id \in DOMAIN accounts, NEW cap \in ExecutorCapIds,
               ExecutorStep(cap, id)
        PROVE  IInv'
    BY <2>3, ExecutorStepIInv
  <2>4. ASSUME NEW id \in DOMAIN accounts, NEW amount \in PayoutAmounts,
               record_payout(id, amount)
        PROVE  IInv'
    BY <2>4, PayoutIInv
  <2> QED BY <1>2, <2>1, <2>2, <2>3, <2>4 DEF AccountStep
<1>3. CASE ConfigStep
  <2>1. RowsOK'
    BY <1>1, <1>3, TierAssumption DEF ConfigStep, set_tier_row, RowsOK
  <2>2. AccessTypeOK' /\ now_day' \in Nat /\ UNCHANGED accounts
    BY <1>1, <1>3 DEF ConfigStep, access_vars, account_vars, AccessTypeOK
  <2> QED BY <2>1, <2>2, OtherIInv
<1>4. CASE NextDay
  <2>1. AccessTypeOK' /\ RowsOK' /\ now_day' \in Nat /\ UNCHANGED accounts
    BY <1>1, <1>4 DEF NextDay, access_vars, AccessTypeOK, RowsOK
  <2> QED BY <2>1, OtherIInv
<1>5. CASE AccessStep
  <2>1. AccessTypeOK'
    BY <1>1, <1>5, AccessStepType DEF AccessStep
  <2>2. RowsOK' /\ now_day' \in Nat /\ UNCHANGED accounts
    BY <1>1, <1>5 DEF AccessStep, account_vars, RowsOK
  <2> QED BY <2>1, <2>2, OtherIInv
<1>6. CASE UNCHANGED vars
  <2>1. AccessTypeOK' /\ RowsOK' /\ now_day' \in Nat /\ UNCHANGED accounts
    BY <1>1, <1>6 DEF vars, account_vars, access_vars, AccessTypeOK, RowsOK
  <2> QED BY <2>1, OtherIInv
<1> QED BY <1>2, <1>3, <1>4, <1>5, <1>6 DEF Next

\* IInv, the invariant the properties below follow from, is inductive.
THEOREM InductiveInvariant == Spec => []IInv
BY InitIInv, NextIInv, PTL DEF Spec

-----------------------------------------------------------------------------
(* The properties. *)

\* Every reachable state is well typed: in particular equity, the lifetime sums
\* and the total paid fit a u64, and reputation stays within MAX_REPUTATION.
THEOREM TypeCorrect == Spec => []TypeOK
<1>1. IInv => TypeOK
  BY DEF IInv
<1> QED BY <1>1, InductiveInvariant, PTL

\* log_trade lets no account go on trading outside its risk gates, whatever the
\* trades, the days between them and the terms.
THEOREM RiskGateHolds == Spec => []RiskGate
<1>1. IInv => RiskGate
  BY DEF IInv, AccountInv, TradesWithinGates, RiskGate
<1> QED BY <1>1, InductiveInvariant, PTL

\* close_month counts no month twice.
THEOREM StreaksAgreeHolds == Spec => []StreaksAgree
<1>1. IInv => StreaksAgree
  BY DEF IInv, AccountInv, StreaksOK, StreaksAgree
<1> QED BY <1>1, InductiveInvariant, PTL

-----------------------------------------------------------------------------
(* The action properties and the refinement follow from one fact about     *)
(* steps: RecordStep holds of an account before and after an action on it. *)

Moves == ({"Evaluating"} \X {"Passed", "Failed", "Suspended"})
            \cup {<<"Passed", "Suspended">>, <<"Passed", "Evaluating">>}
            \cup ({"Failed", "Suspended"} \X {"Evaluating"})

TermsStep(a, b) ==
    TermsOf(b) # TermsOf(a) => a.status = "Passed" /\ b.status = "Evaluating"

FrozenStep(a, b) ==
    a.status \in {"Failed", "Suspended"} =>
        \/ /\ b.equity = a.equity /\ b.day_start_equity = a.day_start_equity
           /\ b.trades = a.trades /\ b.status = a.status
        \/ b.status = "Evaluating" /\ b.equity = b.funded_size

StatusStep(a, b) ==
    \/ b.total_paid = a.total_paid
       /\ (b.status = a.status \/ <<a.status, b.status>> \in Moves)
    \/ /\ b.status = a.status
       /\ \E amount \in PayoutAmounts :
             /\ amount > 0
             /\ a.total_paid + amount <= U64_MAX
             /\ b.total_paid = a.total_paid + amount

\* What a step does to the cycle of an account: it opens a new one, it logs a trade
\* in it, or it leaves the cycle and the journal alone.
SameJournal(a, b) ==
    /\ b.trades = a.trades /\ b.wins = a.wins /\ b.losses = a.losses
    /\ b.gross_profit = a.gross_profit /\ b.gross_loss = a.gross_loss

OpensCycle(a, b) ==
    /\ a.status # "Evaluating" /\ b.status = "Evaluating"
    /\ b.equity = b.funded_size /\ b.day_start_equity = b.funded_size
    /\ b.current_day = now_day
    /\ SameJournal(a, b)

LogsTrade(a, b) ==
    /\ trading_allowed(a.status) /\ b.status \in {a.status, "Suspended"}
    /\ TermsOf(b) = TermsOf(a)
    /\ IF now_day > a.current_day
       THEN b.day_start_equity = a.equity /\ b.current_day = now_day
       ELSE b.day_start_equity = a.day_start_equity /\ b.current_day = a.current_day
    /\ \E is_win \in BOOLEAN, pnl \in U64 : \E rep :
         /\ b.trades = Append(a.trades, [is_win |-> is_win, pnl |-> pnl,
                                         equity_after |-> b.equity,
                                         reputation_after |-> rep])
         /\ IF is_win
            THEN /\ b.equity = a.equity + pnl
                 /\ b.wins = a.wins + 1 /\ b.gross_profit = a.gross_profit + pnl
                 /\ b.losses = a.losses /\ b.gross_loss = a.gross_loss
            ELSE /\ b.equity = sub_floor(a.equity, pnl)
                 /\ b.losses = a.losses + 1 /\ b.gross_loss = a.gross_loss + pnl
                 /\ b.wins = a.wins /\ b.gross_profit = a.gross_profit

KeepsCycle(a, b) ==
    /\ b.equity = a.equity /\ b.day_start_equity = a.day_start_equity
    /\ b.current_day = a.current_day
    /\ TermsOf(b) = TermsOf(a)
    /\ SameJournal(a, b)
    /\ b.status = "Evaluating" => a.status = "Evaluating"
    /\ b.status = "Passed" => a.status = "Passed" \/ a.equity >= a.profit_target

CycleStep(a, b) == OpensCycle(a, b) \/ LogsTrade(a, b) \/ KeepsCycle(a, b)

RecordStep(a, b) ==
    TermsStep(a, b) /\ FrozenStep(a, b) /\ StatusStep(a, b) /\ CycleStep(a, b)

LEMMA SameIsStep == ASSUME NEW a PROVE RecordStep(a, a)
BY DEF RecordStep, TermsStep, FrozenStep, StatusStep, CycleStep, KeepsCycle, SameJournal

\* The stages of a trade, put together.
LEMMA TradeCycle ==
    ASSUME NEW a \in AccountState, NEW is_win \in BOOLEAN, NEW pnl \in U64,
           trading_allowed(a.status)
    PROVE  LogsTrade(a, AfterTrade(a, is_win, pnl))
<1> DEFINE r == RollDay(a)
           p == ApplyPnl(r, is_win, pnl)
           g == EnforceGates(p)
           j == Journal(g, is_win, pnl)
           Kept(b) == /\ TermsOf(b) = TermsOf(a) /\ DOMAIN b = DOMAIN a
                      /\ b.trades = a.trades
           Rolled(b) ==
             IF now_day > a.current_day
             THEN b.day_start_equity = a.equity /\ b.current_day = now_day
             ELSE b.day_start_equity = a.day_start_equity /\ b.current_day = a.current_day
           Applied(b) ==
             IF is_win
             THEN /\ b.equity = a.equity + pnl
                  /\ b.wins = a.wins + 1 /\ b.gross_profit = a.gross_profit + pnl
                  /\ b.losses = a.losses /\ b.gross_loss = a.gross_loss
             ELSE /\ b.equity = sub_floor(a.equity, pnl)
                  /\ b.losses = a.losses + 1 /\ b.gross_loss = a.gross_loss + pnl
                  /\ b.wins = a.wins /\ b.gross_profit = a.gross_profit
<1>1. /\ Kept(r) /\ Rolled(r) /\ r.status = a.status
      /\ SameJournal(a, r) /\ r.equity = a.equity
  BY DEF RollDay, AccountState, TermsOf, SameJournal
<1> HIDE DEF r
<1>2. Kept(p) /\ Rolled(p) /\ Applied(p) /\ p.status = a.status
  BY <1>1 DEF ApplyPnl, TermsOf, AccountState, SameJournal
<1> HIDE DEF p
<1>3. Kept(g) /\ Rolled(g) /\ Applied(g) /\ g.status \in {a.status, "Suspended"}
  BY <1>2 DEF EnforceGates, Suspended, TermsOf, AccountState
<1> HIDE DEF g
<1>4. /\ TermsOf(j) = TermsOf(a) /\ Rolled(j) /\ Applied(j) /\ j.equity = g.equity
      /\ j.status \in {a.status, "Suspended"}
      /\ j.trades = Append(a.trades, [is_win |-> is_win, pnl |-> pnl,
                                      equity_after |-> g.equity,
                                      reputation_after |-> g.reputation])
  BY <1>3 DEF Journal, TermsOf, AccountState
<1>5. AfterTrade(a, is_win, pnl) = j
  BY DEF AfterTrade, r, p, g
<1> HIDE DEF j
<1>6. LogsTrade(a, j)
  BY <1>4 DEF LogsTrade
<1> QED BY <1>5, <1>6

\* The parts of a trade that no stage of it changes.
LEMMA TradeStep ==
    ASSUME NEW a \in AccountState, NEW is_win \in BOOLEAN, NEW pnl \in U64,
           trading_allowed(a.status)
    PROVE  RecordStep(a, AfterTrade(a, is_win, pnl))
<1> DEFINE Kept(b) == /\ TermsOf(b) = TermsOf(a) /\ b.total_paid = a.total_paid
                      /\ DOMAIN b = DOMAIN a
           r == RollDay(a)
           p == ApplyPnl(r, is_win, pnl)
           g == EnforceGates(p)
           j == Journal(g, is_win, pnl)
<1>1. Kept(r) /\ r.status = a.status
  BY DEF RollDay, AccountState, TermsOf
<1> HIDE DEF r
<1>2. Kept(p) /\ p.status = a.status
  BY <1>1 DEF ApplyPnl, TermsOf, AccountState
<1> HIDE DEF p
<1>3. Kept(g) /\ g.status \in {a.status, "Suspended"}
  BY <1>2 DEF EnforceGates, Suspended, TermsOf, AccountState
<1> HIDE DEF g
<1>4. Kept(j) /\ j.status \in {a.status, "Suspended"}
  BY <1>3 DEF Journal, TermsOf, AccountState
<1>5. AfterTrade(a, is_win, pnl) = j
  BY DEF AfterTrade, r, p, g
<1> HIDE DEF j
<1>6. RecordStep(a, j)
  <2>1. CycleStep(a, j)
    BY <1>5, TradeCycle DEF CycleStep
  <2> QED BY <1>4, <2>1
          DEF RecordStep, TermsStep, FrozenStep, StatusStep, trading_allowed, Moves
<1> QED BY <1>5, <1>6

SameCycle(a, b) ==
    /\ b.equity = a.equity /\ b.day_start_equity = a.day_start_equity
    /\ b.current_day = a.current_day
    /\ SameJournal(a, b)

LEMMA SameCycleStep ==
    ASSUME NEW a, NEW b, SameCycle(a, b), TermsOf(b) = TermsOf(a),
           \/ b.status = a.status
           \/ b.status \in {"Failed", "Suspended"}
           \/ b.status = "Passed" /\ a.equity >= a.profit_target
    PROVE  CycleStep(a, b)
BY DEF SameCycle, CycleStep, KeepsCycle

LEMMA AdminRecordStep ==
    ASSUME IInv, NEW cap, NEW id \in DOMAIN accounts, AdminStep(cap, id)
    PROVE  \E b : Update(id, b) /\ RecordStep(accounts[id], b)
<1> DEFINE a == accounts[id]
<1>1. a \in AccountState
  BY DEF IInv, TypeOK
<1>2. CASE reactivate(cap, id)
  <2> DEFINE b == [FreshCycle(a) EXCEPT !.status = "Evaluating"]
  <2>1. Update(id, b) /\ a.status \in {"Failed", "Suspended"}
    BY <1>2 DEF reactivate
  <2>2. /\ TermsOf(b) = TermsOf(a) /\ b.total_paid = a.total_paid
        /\ b.status = "Evaluating" /\ b.equity = b.funded_size
    BY <1>1 DEF FreshCycle, TermsOf, AccountState
  <2>3. /\ b.day_start_equity = b.funded_size /\ b.current_day = now_day
        /\ SameJournal(a, b)
    BY <1>1 DEF FreshCycle, SameJournal, AccountState
  <2> HIDE DEF b
  <2>4. CycleStep(a, b)
    BY <2>1, <2>2, <2>3 DEF CycleStep, OpensCycle
  <2>5. RecordStep(a, b)
    BY <2>1, <2>2, <2>4 DEF RecordStep, TermsStep, FrozenStep, StatusStep, Moves
  <2> QED BY <2>1, <2>5
<1>3. CASE promote(cap, id)
  <2> DEFINE t == row(a.tier).next_tier
             b == reset_cycle(a, t)
  <2>1. Update(id, b) /\ a.status = "Passed"
    BY <1>3 DEF promote
  <2>2. b.total_paid = a.total_paid /\ b.status = "Evaluating"
    BY <1>1 DEF reset_cycle, OnTerms, FreshCycle, AccountState
  <2>3. /\ b.equity = b.funded_size /\ b.day_start_equity = b.funded_size
        /\ b.current_day = now_day /\ SameJournal(a, b)
    BY <1>1 DEF reset_cycle, OnTerms, FreshCycle, SameJournal, AccountState
  <2> HIDE DEF b
  <2>4. CycleStep(a, b)
    BY <2>1, <2>2, <2>3 DEF CycleStep, OpensCycle
  <2>5. RecordStep(a, b)
    BY <2>1, <2>2, <2>4
       DEF RecordStep, TermsStep, FrozenStep, StatusStep, Moves, trading_allowed
  <2> QED BY <2>1, <2>5
<1> QED BY <1>2, <1>3 DEF AdminStep

LEMMA ExecutorRecordStep ==
    ASSUME IInv, NEW cap, NEW id \in DOMAIN accounts, ExecutorStep(cap, id)
    PROVE  \E b : Update(id, b) /\ RecordStep(accounts[id], b)
<1> DEFINE a == accounts[id]
<1> USE DEF RecordStep, TermsStep, FrozenStep, StatusStep, Moves, trading_allowed
<1>1. a \in AccountState
  BY DEF IInv, TypeOK
<1>2. ASSUME NEW is_win \in BOOLEAN, NEW pnl \in Pnls, log_trade(cap, id, is_win, pnl)
      PROVE  \E b : Update(id, b) /\ RecordStep(a, b)
  <2>1. Update(id, AfterTrade(a, is_win, pnl)) /\ trading_allowed(a.status)
    BY <1>2 DEF log_trade
  <2>2. RecordStep(a, AfterTrade(a, is_win, pnl))
    BY <1>1, <2>1, TradeStep, AccountAssumption
  <2> QED BY <2>1, <2>2
<1>3. CASE pass_evaluation(cap, id)
  <2> DEFINE b == [a EXCEPT !.status = "Passed",
                            !.reputation = rep_up(@, REP_PASS_BONUS)]
  <2>1. Update(id, b) /\ a.status = "Evaluating" /\ a.equity >= a.profit_target
    BY <1>3 DEF pass_evaluation
  <2>2. TermsOf(b) = TermsOf(a) /\ b.total_paid = a.total_paid /\ b.status = "Passed"
    BY <1>1 DEF TermsOf, AccountState
  <2>3. SameCycle(a, b)
    BY <1>1 DEF SameCycle, SameJournal, AccountState
  <2> HIDE DEF b
  <2>4. CycleStep(a, b)
    BY <2>1, <2>2, <2>3, SameCycleStep
  <2> QED BY <2>1, <2>2, <2>4
<1>4. CASE fail_evaluation(cap, id)
  <2> DEFINE b == [a EXCEPT !.status = "Failed"]
  <2>1. Update(id, b) /\ a.status = "Evaluating"
    BY <1>4 DEF fail_evaluation
  <2>2. TermsOf(b) = TermsOf(a) /\ b.total_paid = a.total_paid /\ b.status = "Failed"
    BY <1>1 DEF TermsOf, AccountState
  <2>3. SameCycle(a, b)
    BY <1>1 DEF SameCycle, SameJournal, AccountState
  <2> HIDE DEF b
  <2>4. CycleStep(a, b)
    BY <2>2, <2>3, SameCycleStep
  <2> QED BY <2>1, <2>2, <2>4
<1>5. CASE register_dd_breach(cap, id)
  <2> DEFINE b == Suspended(a)
  <2>1. Update(id, b) /\ a.status \in {"Evaluating", "Passed"}
    BY <1>5 DEF register_dd_breach
  <2>2. TermsOf(b) = TermsOf(a) /\ b.total_paid = a.total_paid /\ b.status = "Suspended"
    BY <1>1 DEF Suspended, TermsOf, AccountState
  <2>3. SameCycle(a, b)
    BY <1>1 DEF Suspended, SameCycle, SameJournal, AccountState
  <2> HIDE DEF b
  <2>4. CycleStep(a, b)
    BY <2>2, <2>3, SameCycleStep
  <2> QED BY <2>1, <2>2, <2>4
<1>6. ASSUME NEW b \in AccountState, Update(id, b), SameCycle(a, b),
             TermsOf(b) = TermsOf(a), b.total_paid = a.total_paid, b.status = a.status
      PROVE  \E c : Update(id, c) /\ RecordStep(a, c)
  <2>1. CycleStep(a, b)
    BY <1>6, SameCycleStep
  <2> QED BY <1>6, <2>1 DEF SameCycle, SameJournal
<1>7. ASSUME NEW month \in Months, NEW q \in BOOLEAN, close_month(cap, id, month, q)
      PROVE  \E b : Update(id, b) /\ RecordStep(a, b)
  <2> DEFINE b == CloseMonth(a, month, q)
  <2>1. Update(id, b)
    BY <1>7 DEF close_month
  <2>2. b \in AccountState
    BY <1>1, CloseMonthType, AccountAssumption
  <2>3. /\ TermsOf(b) = TermsOf(a) /\ b.total_paid = a.total_paid
        /\ SameCycle(a, b) /\ b.status = a.status
    BY <1>1 DEF CloseMonth, TermsOf, SameCycle, SameJournal, AccountState
  <2> HIDE DEF b
  <2> QED BY <2>1, <2>2, <2>3, <1>6
<1>8. ASSUME NEW up \in BOOLEAN, NEW amount \in RepAmounts,
             adjust_reputation(cap, id, up, amount)
      PROVE  \E b : Update(id, b) /\ RecordStep(a, b)
  <2> DEFINE b == [a EXCEPT !.reputation = IF up THEN rep_up(@, amount)
                                                 ELSE sub_floor(@, amount)]
  <2>1. Update(id, b)
    BY <1>8 DEF adjust_reputation
  <2>2. b \in AccountState
    <3>1. amount \in Nat /\ AccountInv(a)
      BY AccountAssumption, ConstantTypes DEF IInv
    <3> QED BY <1>1, <3>1, ReputationInv
  <2>3. /\ TermsOf(b) = TermsOf(a) /\ b.total_paid = a.total_paid
        /\ SameCycle(a, b) /\ b.status = a.status
    BY <1>1 DEF TermsOf, SameCycle, SameJournal, AccountState
  <2> HIDE DEF b
  <2> QED BY <2>1, <2>2, <2>3, <1>6
<1> QED BY <1>2, <1>3, <1>4, <1>5, <1>7, <1>8 DEF ExecutorStep

LEMMA PayoutRecordStep ==
    ASSUME IInv, NEW id \in DOMAIN accounts, NEW amount \in PayoutAmounts,
           record_payout(id, amount)
    PROVE  \E b : Update(id, b) /\ RecordStep(accounts[id], b)
<1> DEFINE a == accounts[id]
           b == [a EXCEPT !.total_paid = @ + amount]
<1>1. a \in AccountState
  BY DEF IInv, TypeOK
<1>2. Update(id, b) /\ amount > 0 /\ a.total_paid + amount <= U64_MAX
  BY DEF record_payout
<1>3. /\ TermsOf(b) = TermsOf(a) /\ b.total_paid = a.total_paid + amount
      /\ SameCycle(a, b) /\ b.status = a.status
  BY <1>1 DEF TermsOf, SameCycle, SameJournal, AccountState
<1> HIDE DEF b
<1>4. RecordStep(a, b)
  <2>1. CycleStep(a, b)
    BY <1>3, SameCycleStep
  <2> QED BY <1>2, <1>3, <2>1
          DEF RecordStep, TermsStep, FrozenStep, StatusStep, SameCycle, SameJournal
<1> QED BY <1>2, <1>4

\* A step opens one account, replaces the record of one account by a legal
\* successor of it, or leaves the registry alone.
LEMMA StepShape ==
    ASSUME IInv, [Next]_vars
    PROVE  \/ \E cap \in AdminCapIds, id \in AccountIds, t \in Tiers :
                  create_account(cap, id, t)
           \/ \E id \in DOMAIN accounts :
                  \E b : Update(id, b) /\ RecordStep(accounts[id], b)
           \/ UNCHANGED accounts
<1>1. CASE AccountStep
  BY <1>1, AdminRecordStep, ExecutorRecordStep, PayoutRecordStep DEF AccountStep
<1>2. CASE ConfigStep \/ NextDay \/ AccessStep \/ UNCHANGED vars
  BY <1>2 DEF ConfigStep, NextDay, AccessStep, vars, account_vars
<1> QED BY <1>1, <1>2 DEF Next

LEMMA EveryRecordSteps ==
    ASSUME IInv, [Next]_vars, NEW id \in DOMAIN accounts
    PROVE  RecordStep(accounts[id], accounts'[id])
<1>1. CASE \E cap \in AdminCapIds, x \in AccountIds, t \in Tiers :
              create_account(cap, x, t)
  <2>1. accounts'[id] = accounts[id]
    BY <1>1 DEF create_account
  <2> QED BY <2>1, SameIsStep
<1>2. ASSUME NEW x \in DOMAIN accounts, NEW b, Update(x, b), RecordStep(accounts[x], b)
      PROVE  RecordStep(accounts[id], accounts'[id])
  <2>1. accounts'[id] = IF id = x THEN b ELSE accounts[id]
    BY <1>2 DEF Update, IInv, TypeOK
  <2> QED BY <1>2, <2>1, SameIsStep
<1>3. CASE UNCHANGED accounts
  BY <1>3, SameIsStep
<1> QED BY <1>1, <1>2, <1>3, StepShape

\* The terms an account was opened on are its terms until a promotion: neither a
\* retuned row nor a reactivation reaches them.
THEOREM TermsAreFrozenHolds == Spec => TermsAreFrozen
<1>1. IInv /\ [Next]_vars =>
        [\A id \in DOMAIN accounts :
            TermsOf(accounts'[id]) # TermsOf(accounts[id]) =>
                accounts[id].status = "Passed" /\ accounts'[id].status = "Evaluating"
        ]_vars
  BY EveryRecordSteps DEF RecordStep, TermsStep
<1> QED BY <1>1, InductiveInvariant, PTL DEF Spec, TermsAreFrozen

\* Nothing but a reactivation moves the equity, baseline, journal or status of a
\* Failed or Suspended account.
THEOREM StoppedAccountIsFrozenHolds == Spec => StoppedAccountIsFrozen
<1>1. IInv /\ [Next]_vars =>
        [\A id \in DOMAIN accounts :
            LET a == accounts[id]
                b == accounts'[id]
            IN  a.status \in {"Failed", "Suspended"} =>
                  \/ /\ b.equity = a.equity /\ b.day_start_equity = a.day_start_equity
                     /\ b.trades = a.trades /\ b.status = a.status
                  \/ b.status = "Evaluating" /\ b.equity = b.funded_size
        ]_vars
  BY EveryRecordSteps DEF RecordStep, FrozenStep
<1> QED BY <1>1, InductiveInvariant, PTL DEF Spec, StoppedAccountIsFrozen

-----------------------------------------------------------------------------
(* UserAccount implements AccountLifecycle. *)

StatusMap ==
    [id \in AccountIds |->
        IF id \in DOMAIN accounts THEN accounts[id].status ELSE "Absent"]

PaidMap ==
    [id \in AccountIds |->
        IF id \in DOMAIN accounts THEN accounts[id].total_paid ELSE 0]

LEMMA InitRefines == Init => L!LifecycleInit
BY DEF Init, AccountInit, L!LifecycleInit

\* An opened account enters the life cycle at "Evaluating" with nothing paid.
LEMMA CreateRefines ==
    ASSUME IInv, NEW cap, NEW id \in AccountIds, NEW t \in Tiers,
           create_account(cap, id, t)
    PROVE  L!Open(id)
<1>1. /\ id \notin DOMAIN accounts
      /\ DOMAIN accounts' = DOMAIN accounts \cup {id}
      /\ \A x \in DOMAIN accounts' :
            accounts'[x] = IF x = id THEN new_state(t) ELSE accounts[x]
  BY DEF create_account
<1>2. new_state(t).status = "Evaluating" /\ new_state(t).total_paid = 0
  BY DEF new_state
<1>3. StatusMap[id] = "Absent"
  BY <1>1 DEF StatusMap
<1>4. StatusMap' = [StatusMap EXCEPT ![id] = "Evaluating"]
  BY <1>1, <1>2 DEF StatusMap
<1>5. PaidMap' = PaidMap
  BY <1>1, <1>2 DEF PaidMap
<1> QED BY <1>3, <1>4, <1>5 DEF L!Open, L!Move, StatusMap, PaidMap

LEMMA RecordRefines ==
    ASSUME IInv, NEW id \in DOMAIN accounts, NEW b, Update(id, b),
           RecordStep(accounts[id], b)
    PROVE  L!LifecycleStep(id) \/ UNCHANGED <<StatusMap, PaidMap>>
<1> DEFINE a == accounts[id]
<1>1. /\ DOMAIN accounts' = DOMAIN accounts
      /\ \A x \in DOMAIN accounts : accounts'[x] = IF x = id THEN b ELSE accounts[x]
      /\ id \in AccountIds
  BY DEF Update, IInv, TypeOK
<1>2. StatusMap' = [StatusMap EXCEPT ![id] = b.status] /\ StatusMap[id] = a.status
  BY <1>1 DEF StatusMap
<1>3. PaidMap' = [PaidMap EXCEPT ![id] = b.total_paid] /\ PaidMap[id] = a.total_paid
  BY <1>1 DEF PaidMap
<1>4. CASE b.total_paid = a.total_paid /\ b.status = a.status
  <2>1. StatusMap' = StatusMap /\ PaidMap' = PaidMap
    BY <1>1, <1>4 DEF StatusMap, PaidMap
  <2> QED BY <2>1
<1>5. CASE b.total_paid = a.total_paid /\ <<a.status, b.status>> \in Moves
  <2>1. PaidMap' = PaidMap
    BY <1>1, <1>5 DEF PaidMap
  <2> QED BY <1>2, <1>5, <2>1
          DEF Moves, StatusMap, PaidMap, L!LifecycleStep, L!Pass, L!Fail, L!Suspend,
              L!Reactivate, L!Promote, L!Move
<1>6. CASE /\ b.status = a.status
           /\ \E amount \in PayoutAmounts :
                 /\ amount > 0
                 /\ a.total_paid + amount <= U64_MAX
                 /\ b.total_paid = a.total_paid + amount
  <2>1. StatusMap' = StatusMap
    BY <1>1, <1>6 DEF StatusMap
  <2>2. StatusMap[id] # "Absent"
    BY <1>2, FieldTypes DEF IInv, TypeOK, AccountStatus
  <2>3. PICK amount \in PayoutAmounts : /\ amount > 0
                                        /\ a.total_paid + amount <= U64_MAX
                                        /\ b.total_paid = a.total_paid + amount
    BY <1>6
  <2>4. L!RecordPayout(id, amount)
    BY <1>3, <2>1, <2>2, <2>3 DEF L!RecordPayout, StatusMap, PaidMap
  <2> QED BY <2>4 DEF L!LifecycleStep
<1> QED BY <1>4, <1>5, <1>6 DEF RecordStep, StatusStep

LEMMA NextRefines == IInv /\ [Next]_vars => [L!LifecycleNext]_(L!lifecycle_vars)
<1> SUFFICES ASSUME IInv, [Next]_vars
             PROVE  L!LifecycleNext \/ UNCHANGED L!lifecycle_vars
  OBVIOUS
<1>1. CASE \E cap \in AdminCapIds, id \in AccountIds, t \in Tiers :
              create_account(cap, id, t)
  BY <1>1, CreateRefines DEF L!LifecycleNext, L!LifecycleStep
<1>2. CASE \E id \in DOMAIN accounts :
              \E b : Update(id, b) /\ RecordStep(accounts[id], b)
  <2>1. PICK id \in DOMAIN accounts :
              \E b : Update(id, b) /\ RecordStep(accounts[id], b)
    BY <1>2
  <2>2. L!LifecycleStep(id) \/ UNCHANGED <<StatusMap, PaidMap>>
    BY <2>1, RecordRefines
  <2>3. id \in AccountIds
    BY DEF IInv, TypeOK
  <2> QED BY <2>2, <2>3 DEF L!LifecycleNext, L!lifecycle_vars, StatusMap, PaidMap
<1>3. CASE UNCHANGED accounts
  BY <1>3 DEF L!lifecycle_vars
<1> QED BY <1>1, <1>2, <1>3, StepShape

\* Whatever its trades, months and terms, an account goes through the life cycle
\* the treasury relies on, and what it has been paid only grows.
THEOREM ImplementsLifecycle == Spec => Lifecycle
BY InitRefines, NextRefines, InductiveInvariant, PTL DEF Spec, Lifecycle, L!LifecycleSpec

-----------------------------------------------------------------------------
(* The journal, the day and the cycle: what a step of the registry does to *)
(* each account is one of the three cases of CycleStep, or its opening.    *)

LEMMA EveryAccountComesFrom ==
    ASSUME IInv, [Next]_vars, NEW id \in DOMAIN accounts'
    PROVE  \/ id \in DOMAIN accounts /\ CycleStep(accounts[id], accounts'[id])
           \/ /\ id \notin DOMAIN accounts /\ now_day' = now_day
              /\ \E t \in Tiers : accounts'[id] = new_state(t)
<1>1. CASE \E cap \in AdminCapIds, x \in AccountIds, t \in Tiers :
              create_account(cap, x, t)
  <2>1. PICK x \in AccountIds, t \in Tiers :
          /\ x \notin DOMAIN accounts /\ DOMAIN accounts' = DOMAIN accounts \cup {x}
          /\ accounts'[x] = new_state(t) /\ now_day' = now_day
    BY <1>1 DEF create_account, config_vars
  <2>2. id \in DOMAIN accounts => CycleStep(accounts[id], accounts'[id])
    BY EveryRecordSteps DEF RecordStep
  <2> QED BY <2>1, <2>2
<1>2. CASE DOMAIN accounts' = DOMAIN accounts
  BY <1>2, EveryRecordSteps DEF RecordStep
<1>3. ASSUME NEW x, NEW b, Update(x, b) PROVE DOMAIN accounts' = DOMAIN accounts
  BY <1>3 DEF Update
<1>4. \/ DOMAIN accounts' = DOMAIN accounts
      \/ \E cap \in AdminCapIds, x \in AccountIds, t \in Tiers : create_account(cap, x, t)
  BY <1>3, StepShape
<1> QED BY <1>1, <1>2, <1>4

LEMMA DaySteps ==
    ASSUME IInv, [Next]_vars
    PROVE  \/ now_day' = now_day
           \/ now_day' = now_day + 1 /\ UNCHANGED accounts
<1>1. CASE AccountStep
  <2>1. \A x, b : Update(x, b) => now_day' = now_day
    BY DEF Update, config_vars
  <2>2. ASSUME NEW cap, NEW x, AdminStep(cap, x)
        PROVE  now_day' = now_day
    BY <2>1, <2>2 DEF AdminStep, reactivate, promote
  <2>3. ASSUME NEW cap, NEW x, ExecutorStep(cap, x)
        PROVE  now_day' = now_day
    BY <2>1, <2>3 DEF ExecutorStep, log_trade, pass_evaluation, fail_evaluation,
                      register_dd_breach, close_month, adjust_reputation
  <2>4. ASSUME NEW x, NEW amount, record_payout(x, amount)
        PROVE  now_day' = now_day
    BY <2>1, <2>4 DEF record_payout
  <2>5. ASSUME NEW cap, NEW x, NEW t, create_account(cap, x, t)
        PROVE  now_day' = now_day
    BY <2>5 DEF create_account, config_vars
  <2> QED BY <1>1, <2>2, <2>3, <2>4, <2>5 DEF AccountStep
<1>2. CASE ConfigStep \/ NextDay \/ AccessStep \/ UNCHANGED vars
  BY <1>2 DEF ConfigStep, NextDay, AccessStep, vars, account_vars
<1> QED BY <1>1, <1>2 DEF Next

-----------------------------------------------------------------------------
(* The journal. *)

JournalOK(a) ==
    /\ a.wins = Cardinality(Won(a))
    /\ a.gross_profit = SumFunctionOnSet(PnlOf(a), Won(a))
    /\ a.losses = Cardinality(Lost(a))
    /\ a.gross_loss = SumFunctionOnSet(PnlOf(a), Lost(a))
    /\ \/ a.equity = a.funded_size
       \/ a.trades # <<>> /\ a.equity = a.trades[Len(a.trades)].equity_after

LEMMA EmptyJournal == ASSUME NEW t PROVE JournalOK(new_state(t))
<1> DEFINE a == new_state(t)
<1>1. /\ a.trades = <<>> /\ a.wins = 0 /\ a.losses = 0
      /\ a.gross_profit = 0 /\ a.gross_loss = 0 /\ a.equity = a.funded_size
  BY DEF new_state
<1> HIDE DEF a
<1>2. Won(a) = {} /\ Lost(a) = {}
  BY <1>1 DEF Won, Lost
<1>3. /\ SumFunctionOnSet(PnlOf(a), Won(a)) = 0 /\ Cardinality(Won(a)) = 0
      /\ SumFunctionOnSet(PnlOf(a), Lost(a)) = 0 /\ Cardinality(Lost(a)) = 0
  BY <1>2, SumOfNothing, FS_EmptySet, Zenon
<1>4. JournalOK(a)
  BY <1>1, <1>3 DEF JournalOK
<1> QED BY <1>4 DEF a

LEMMA JournalFacts ==
    ASSUME NEW a \in AccountState
    PROVE  /\ IsFiniteSet(Won(a)) /\ IsFiniteSet(Lost(a))
           /\ Won(a) \subseteq 1 .. Len(a.trades) /\ Lost(a) \subseteq 1 .. Len(a.trades)
           /\ Len(a.trades) \in Nat
           /\ \A i \in 1 .. Len(a.trades) : PnlOf(a)[i] = a.trades[i].pnl /\ PnlOf(a)[i] \in Nat
<1>1. a.trades \in Seq(TradeEntry)
  BY DEF AccountState
<1>2. Len(a.trades) \in Nat /\ DOMAIN a.trades = 1 .. Len(a.trades)
  BY <1>1
<1>3. IsFiniteSet(1 .. Len(a.trades))
  BY <1>2, FS_Interval
<1>4. Won(a) \subseteq 1 .. Len(a.trades) /\ Lost(a) \subseteq 1 .. Len(a.trades)
  BY <1>2 DEF Won, Lost
<1>5. \A i \in 1 .. Len(a.trades) : PnlOf(a)[i] = a.trades[i].pnl /\ PnlOf(a)[i] \in Nat
  <2> TAKE i \in 1 .. Len(a.trades)
  <2>1. a.trades[i] \in TradeEntry
    BY <1>1, <1>2
  <2>2. a.trades[i].pnl \in Nat
    BY <2>1, ConstantTypes DEF TradeEntry
  <2> QED BY <1>2, <2>2 DEF PnlOf
<1> QED BY <1>2, <1>3, <1>4, <1>5, FS_Subset

\* One entry more, on the side of the wins or of the losses.
LEMMA LoggedJournal ==
    ASSUME NEW a \in AccountState, NEW b \in AccountState, JournalOK(a), LogsTrade(a, b)
    PROVE  JournalOK(b)
<1>0. PICK is_win \in BOOLEAN, pnl \in U64 : \E rep :
         /\ b.trades = Append(a.trades, [is_win |-> is_win, pnl |-> pnl,
                                         equity_after |-> b.equity,
                                         reputation_after |-> rep])
         /\ IF is_win
            THEN /\ b.wins = a.wins + 1 /\ b.gross_profit = a.gross_profit + pnl
                 /\ b.losses = a.losses /\ b.gross_loss = a.gross_loss
            ELSE /\ b.losses = a.losses + 1 /\ b.gross_loss = a.gross_loss + pnl
                 /\ b.wins = a.wins /\ b.gross_profit = a.gross_profit
  BY DEF LogsTrade
<1>1. PICK rep :
         /\ b.trades = Append(a.trades, [is_win |-> is_win, pnl |-> pnl,
                                         equity_after |-> b.equity,
                                         reputation_after |-> rep])
         /\ IF is_win
            THEN /\ b.wins = a.wins + 1 /\ b.gross_profit = a.gross_profit + pnl
                 /\ b.losses = a.losses /\ b.gross_loss = a.gross_loss
            ELSE /\ b.losses = a.losses + 1 /\ b.gross_loss = a.gross_loss + pnl
                 /\ b.wins = a.wins /\ b.gross_profit = a.gross_profit
  BY <1>0
<1> DEFINE e == [is_win |-> is_win, pnl |-> pnl, equity_after |-> b.equity,
                 reputation_after |-> rep]
<1>2. PICK n : n = Len(a.trades) + 1
  OBVIOUS
<1>3. /\ Len(b.trades) = n /\ b.trades # <<>>
      /\ DOMAIN b.trades = DOMAIN a.trades \cup {n} /\ n \notin DOMAIN a.trades
      /\ \A i \in DOMAIN a.trades : b.trades[i] = a.trades[i]
      /\ b.trades[n] = e
      /\ DOMAIN a.trades = 1 .. Len(a.trades)
  <2>1. a.trades \in Seq(TradeEntry) /\ b.trades = Append(a.trades, e)
    BY <1>1 DEF AccountState
  <2>2. PICK s, t : s = a.trades /\ t = b.trades
    OBVIOUS
  <2>3. s \in Seq(TradeEntry) /\ t = Append(s, e) /\ n = Len(s) + 1
    BY <1>2, <2>1, <2>2
  <2> HIDE DEF e
  <2>4. /\ Len(s) \in Nat /\ DOMAIN s = 1 .. Len(s)
        /\ Len(t) = n /\ DOMAIN t = 1 .. n
        /\ \A i \in 1 .. Len(s) : t[i] = s[i]
        /\ t[n] = e
    BY <2>3
  <2>5. DOMAIN t = DOMAIN s \cup {n} /\ n \notin DOMAIN s /\ t # <<>>
    BY <2>3, <2>4
  <2> QED BY <2>2, <2>4, <2>5
<1>4. e.is_win = is_win /\ e.pnl = pnl /\ e.equity_after = b.equity /\ pnl \in Int
  BY ConstantTypes
<1> HIDE DEF e
<1>5. /\ is_win => Won(b) = Won(a) \cup {n} /\ Lost(b) = Lost(a)
      /\ ~ is_win => Lost(b) = Lost(a) \cup {n} /\ Won(b) = Won(a)
      /\ n \notin Won(a) /\ n \notin Lost(a)
  BY <1>3, <1>4 DEF Won, Lost
<1>6. /\ \A i \in DOMAIN a.trades : PnlOf(b)[i] = PnlOf(a)[i]
      /\ PnlOf(b)[n] = pnl
  BY <1>3, <1>4 DEF PnlOf
\* A side that gets the entry, and a side that does not.
<1>7. ASSUME NEW S, NEW T, IsFiniteSet(S), S \subseteq DOMAIN a.trades,
             T = S \cup {n}
      PROVE  /\ SumFunctionOnSet(PnlOf(b), T) = SumFunctionOnSet(PnlOf(a), S) + pnl
             /\ Cardinality(T) = Cardinality(S) + 1
  <2>1. /\ n \notin S
        /\ \A i \in S : PnlOf(a)[i] \in Int /\ PnlOf(b)[i] = PnlOf(a)[i]
    BY <1>3, <1>6, <1>7, JournalFacts
  <2>2. \A i \in T : PnlOf(b)[i] \in Int
    BY <1>4, <1>6, <1>7, <2>1
  <2>3. SumFunctionOnSet(PnlOf(b), T)
          = SumFunctionOnSet(PnlOf(a), S) + PnlOf(b)[n] - (IF n \in S THEN PnlOf(a)[n] ELSE 0)
    <3>1. PICK f, g : f = PnlOf(a) /\ g = PnlOf(b)
      OBVIOUS
    <3>2. /\ \A i \in S : f[i] \in Int
          /\ \A i \in T : g[i] \in Int
          /\ \A i \in S \ {n} : g[i] = f[i]
      BY <2>1, <2>2, <3>1
    <3>3. SumFunctionOnSet(g, T)
            = SumFunctionOnSet(f, S) + g[n] - (IF n \in S THEN f[n] ELSE 0)
      BY <1>7, <3>2, SumPut
    <3> QED BY <3>1, <3>3
  <2>4. SumFunctionOnSet(PnlOf(a), S) \in Int
    BY <1>7, <2>1, SumType
  <2>5. Cardinality(S \cup {n}) = Cardinality(S) + 1
    BY <1>7, <2>1, FS_AddElement
  <2>6. Cardinality(T) = Cardinality(S \cup {n})
    BY <1>7, Zenon
  <2> QED BY <1>4, <1>6, <2>1, <2>3, <2>4, <2>5, <2>6
<1>8. ASSUME NEW S, NEW T, IsFiniteSet(S), S \subseteq DOMAIN a.trades, T = S
      PROVE  /\ SumFunctionOnSet(PnlOf(b), T) = SumFunctionOnSet(PnlOf(a), S)
             /\ Cardinality(T) = Cardinality(S)
  <2>1. \A i \in S : PnlOf(b)[i] = PnlOf(a)[i]
    BY <1>6, <1>8
  <2>2. SumFunctionOnSet(PnlOf(b), S) = SumFunctionOnSet(PnlOf(a), S)
    BY <1>8, <2>1, SumSame
  <2> QED BY <1>8, <2>2, Zenon
<1>9. /\ IsFiniteSet(Won(a)) /\ Won(a) \subseteq DOMAIN a.trades
      /\ IsFiniteSet(Lost(a)) /\ Lost(a) \subseteq DOMAIN a.trades
  BY <1>3, JournalFacts
<1>10. b.trades # <<>> /\ b.equity = b.trades[Len(b.trades)].equity_after
  BY <1>3, <1>4
<1>11. CASE is_win
  <2>1. /\ SumFunctionOnSet(PnlOf(b), Won(b)) = SumFunctionOnSet(PnlOf(a), Won(a)) + pnl
        /\ Cardinality(Won(b)) = Cardinality(Won(a)) + 1
    BY <1>5, <1>7, <1>9, <1>11
  <2>2. /\ SumFunctionOnSet(PnlOf(b), Lost(b)) = SumFunctionOnSet(PnlOf(a), Lost(a))
        /\ Cardinality(Lost(b)) = Cardinality(Lost(a))
    BY <1>5, <1>8, <1>9, <1>11
  <2> QED BY <1>1, <1>10, <1>11, <2>1, <2>2 DEF JournalOK
<1>12. CASE ~ is_win
  <2>1. /\ SumFunctionOnSet(PnlOf(b), Lost(b)) = SumFunctionOnSet(PnlOf(a), Lost(a)) + pnl
        /\ Cardinality(Lost(b)) = Cardinality(Lost(a)) + 1
    BY <1>5, <1>7, <1>9, <1>12
  <2>2. /\ SumFunctionOnSet(PnlOf(b), Won(b)) = SumFunctionOnSet(PnlOf(a), Won(a))
        /\ Cardinality(Won(b)) = Cardinality(Won(a))
    BY <1>5, <1>8, <1>9, <1>12
  <2> QED BY <1>1, <1>10, <1>12, <2>1, <2>2 DEF JournalOK
<1> QED BY <1>11, <1>12

LEMMA JournalStep ==
    ASSUME NEW a \in AccountState, NEW b \in AccountState, JournalOK(a), CycleStep(a, b)
    PROVE  JournalOK(b)
<1>1. CASE LogsTrade(a, b)
  BY <1>1, LoggedJournal
<1>2. CASE OpensCycle(a, b) \/ KeepsCycle(a, b)
  <2>1. /\ b.trades = a.trades /\ b.wins = a.wins /\ b.losses = a.losses
        /\ b.gross_profit = a.gross_profit /\ b.gross_loss = a.gross_loss
    BY <1>2 DEF OpensCycle, KeepsCycle, SameJournal
  <2>2. \/ b.equity = b.funded_size
        \/ b.equity = a.equity /\ b.funded_size = a.funded_size
    BY <1>2 DEF OpensCycle, KeepsCycle, TermsOf
  <2>3. Won(b) = Won(a) /\ Lost(b) = Lost(a) /\ PnlOf(b) = PnlOf(a)
    BY <2>1 DEF Won, Lost, PnlOf
  <2> QED BY <2>1, <2>2, <2>3, Zenon DEF JournalOK
<1> QED BY <1>1, <1>2 DEF CycleStep

\* The lifetime counters of every account are those of its journal, however many
\* trades, cycles and promotions it went through.
THEOREM JournalAgreesHolds == Spec => []JournalAgrees
<1>1. Init => JournalAgrees
  BY DEF Init, AccountInit, JournalAgrees
<1>2. ASSUME IInv, IInv', JournalAgrees, [Next]_vars
      PROVE  JournalAgrees'
  <2>1. ASSUME NEW id \in DOMAIN accounts' PROVE JournalOK(accounts'[id])
    <3>1. accounts'[id] \in AccountState
      BY <1>2 DEF IInv, TypeOK
    <3>2. CASE id \in DOMAIN accounts /\ CycleStep(accounts[id], accounts'[id])
      <4>1. accounts[id] \in AccountState
        BY <1>2, <3>2 DEF IInv, TypeOK
      <4>2. JournalOK(accounts[id])
        BY <1>2, <3>2 DEF JournalAgrees, JournalOK
      <4> QED BY <3>1, <3>2, <4>1, <4>2, JournalStep
    <3> QED BY <1>2, <3>2, EveryAccountComesFrom, EmptyJournal
  <2> QED BY <2>1 DEF JournalAgrees, JournalOK, Won, Lost, PnlOf
<1> QED BY <1>1, <1>2, InductiveInvariant, PTL DEF Spec

-----------------------------------------------------------------------------
(* The history.  Its steps are UserAccount's, so what holds of UserAccount *)
(* holds of it.                                                            *)

LEMMA HistoryImplementsSpec == HistorySpec => Spec
<1>1. HistoryInit => Init
  BY DEF HistoryInit
<1>2. [HistoryNext]_hist_vars => [Next]_vars
  BY DEF HistoryNext, hist_vars
<1> QED BY <1>1, <1>2, PTL DEF HistorySpec, Spec

LEMMA HistoryRecords ==
    ASSUME IInv, IInv', HistoryNext, NEW id \in DOMAIN accounts'
    PROVE  /\ day_open'[id] = IF CycleOpens(id) \/ now_day' # now_day
                               THEN accounts'[id].equity ELSE day_open[id]
           /\ won_before'[id] = IF CycleOpens(id)
                                 THEN accounts'[id].gross_profit ELSE won_before[id]
<1>1. id \in AccountIds
  BY DEF IInv, TypeOK
<1> QED BY <1>1 DEF HistoryNext, History

\* No account was rolled in the future, and the baseline is as DailyBaseline says.
DayInv ==
    /\ \A id \in DOMAIN accounts : accounts[id].current_day <= now_day
    /\ DailyBaseline

DayOK(a, day, opened) ==
    /\ a.current_day <= day
    /\ IF a.current_day = day THEN a.day_start_equity = opened ELSE a.equity = opened

\* On the day, a step opens a cycle, rolls the baseline to the equity it found and
\* trades, or leaves both alone.
LEMMA DayStep ==
    ASSUME IInv, IInv', DayInv, HistoryNext, NEW id \in DOMAIN accounts'
    PROVE  DayOK(accounts'[id], now_day', day_open'[id])
<1> DEFINE a == accounts[id]
           b == accounts'[id]
<1>1. now_day \in Nat
  BY DEF IInv, TypeOK
<1>2. [Next]_vars
  BY DEF HistoryNext
<1>3. ASSUME id \in DOMAIN accounts
      PROVE  /\ a.current_day \in Nat
             /\ DayOK(a, now_day, day_open[id])
  BY <1>3, FieldTypes DEF IInv, TypeOK, DayInv, DailyBaseline, DayOK
<1>4. CASE id \in DOMAIN accounts /\ now_day' # now_day
  <2>1. b = a /\ now_day' = now_day + 1
    BY <1>2, <1>4, DaySteps
  <2>2. day_open'[id] = b.equity
    BY <1>4, HistoryRecords
  <2>3. b.current_day < now_day'
    BY <1>1, <1>3, <1>4, <2>1 DEF DayOK
  <2> QED BY <1>1, <1>3, <1>4, <2>1, <2>2, <2>3 DEF DayOK
<1>5. ASSUME id \in DOMAIN accounts, now_day' = now_day, OpensCycle(a, b)
      PROVE  DayOK(b, now_day', day_open'[id])
  <2>1. CycleOpens(id)
    BY <1>5 DEF OpensCycle, CycleOpens
  <2>2. day_open'[id] = b.equity
    BY <2>1, HistoryRecords
  <2> QED BY <1>1, <1>5, <2>2 DEF OpensCycle, DayOK
<1>6. ASSUME id \in DOMAIN accounts, now_day' = now_day, LogsTrade(a, b)
      PROVE  DayOK(b, now_day', day_open'[id])
  <2>1. ~ CycleOpens(id)
    BY <1>6 DEF LogsTrade, CycleOpens, trading_allowed
  <2>2. day_open'[id] = day_open[id]
    BY <1>6, <2>1, HistoryRecords
  <2>3. IF now_day > a.current_day
        THEN b.day_start_equity = a.equity /\ b.current_day = now_day
        ELSE b.day_start_equity = a.day_start_equity /\ b.current_day = a.current_day
    BY <1>6 DEF LogsTrade
  <2> HIDE DEF a, b
  <2> QED BY <1>1, <1>3, <1>6, <2>2, <2>3 DEF DayOK
<1>7. ASSUME id \in DOMAIN accounts, now_day' = now_day, KeepsCycle(a, b)
      PROVE  DayOK(b, now_day', day_open'[id])
  <2>1. ~ CycleOpens(id)
    BY <1>7 DEF KeepsCycle, CycleOpens
  <2>2. day_open'[id] = day_open[id]
    BY <1>7, <2>1, HistoryRecords
  <2>3. /\ b.equity = a.equity /\ b.day_start_equity = a.day_start_equity
        /\ b.current_day = a.current_day
    BY <1>7 DEF KeepsCycle
  <2> HIDE DEF a, b
  <2> QED BY <1>3, <1>7, <2>2, <2>3 DEF DayOK
<1>8. ASSUME id \notin DOMAIN accounts, now_day' = now_day,
             NEW t \in Tiers, b = new_state(t)
      PROVE  DayOK(b, now_day', day_open'[id])
  <2>1. /\ b.status = "Evaluating" /\ b.current_day = now_day
        /\ b.day_start_equity = b.equity
    BY <1>8 DEF new_state
  <2>2. CycleOpens(id)
    BY <1>8, <2>1 DEF CycleOpens
  <2>3. day_open'[id] = b.equity
    BY <2>2, HistoryRecords
  <2> QED BY <1>1, <1>8, <2>1, <2>3 DEF DayOK
<1> QED BY <1>2, <1>4, <1>5, <1>6, <1>7, <1>8, EveryAccountComesFrom DEF CycleStep

\* The lazy roll of log_trade gives every account the baseline a roll at midnight
\* would have, over any days without trades, reactivations and promotions.
THEOREM DailyBaselineHolds == HistorySpec => []DailyBaseline
<1>1. HistoryInit => DayInv
  BY DEF HistoryInit, Init, AccountInit, DayInv, DailyBaseline
<1>2. ASSUME IInv, IInv', DayInv, [HistoryNext]_hist_vars
      PROVE  DayInv'
  <2>1. CASE UNCHANGED hist_vars
    BY <1>2, <2>1 DEF hist_vars, vars, account_vars, DayInv, DailyBaseline
  <2>2. CASE HistoryNext
    <3>1. \A id \in DOMAIN accounts' : DayOK(accounts'[id], now_day', day_open'[id])
      BY <1>2, <2>2, DayStep
    <3> QED BY <3>1 DEF DayOK, DayInv, DailyBaseline
  <2> QED BY <1>2, <2>1, <2>2
<1>3. DayInv => DailyBaseline
  BY DEF DayInv
<1>4. HistorySpec => []IInv
  BY HistoryImplementsSpec, InductiveInvariant
<1> QED BY <1>1, <1>2, <1>3, <1>4, PTL DEF HistorySpec

-----------------------------------------------------------------------------
(* The cycle: equity above the funded size was won since it opened.        *)

CycleOK(a, before) ==
    /\ before \in Nat
    /\ a.equity <= a.funded_size + a.gross_profit - before
    /\ a.status = "Passed" => a.gross_profit - before >= a.profit_target - a.funded_size

WonInv == \A id \in DOMAIN accounts : CycleOK(accounts[id], won_before[id])

LEMMA WonStep ==
    ASSUME IInv, IInv', WonInv, HistoryNext, NEW id \in DOMAIN accounts'
    PROVE  CycleOK(accounts'[id], won_before'[id])
<1> DEFINE a == accounts[id]
           b == accounts'[id]
<1>1. [Next]_vars
  BY DEF HistoryNext
<1>2. /\ b.funded_size \in Nat /\ b.profit_target \in Nat
      /\ b.gross_profit \in Nat /\ b.equity \in Nat
  BY FieldTypes DEF IInv, TypeOK
<1>3. ASSUME id \in DOMAIN accounts
      PROVE  /\ a.funded_size \in Nat /\ a.profit_target \in Nat
             /\ a.gross_profit \in Nat /\ a.equity \in Nat
             /\ CycleOK(a, won_before[id])
  BY <1>3, FieldTypes DEF IInv, TypeOK, WonInv
<1>4. ASSUME CycleOpens(id), b.equity = b.funded_size, b.status = "Evaluating"
      PROVE  CycleOK(b, won_before'[id])
  <2>1. won_before'[id] = b.gross_profit
    BY <1>4, HistoryRecords
  <2> HIDE DEF b
  <2> QED BY <1>2, <1>4, <2>1 DEF CycleOK
<1>5. ASSUME id \in DOMAIN accounts, OpensCycle(a, b)
      PROVE  CycleOK(b, won_before'[id])
  BY <1>4, <1>5 DEF OpensCycle, CycleOpens
<1>6. ASSUME id \in DOMAIN accounts, LogsTrade(a, b)
      PROVE  CycleOK(b, won_before'[id])
  <2>1. ~ CycleOpens(id)
    BY <1>6 DEF LogsTrade, CycleOpens, trading_allowed
  <2>2. won_before'[id] = won_before[id]
    BY <2>1, HistoryRecords
  <2>3. b.funded_size = a.funded_size /\ b.profit_target = a.profit_target
    BY <1>6 DEF LogsTrade, TermsOf
  <2>4. b.status = "Passed" => a.status = "Passed"
    BY <1>6 DEF LogsTrade
  <2>5. PICK pnl \in U64 :
          \/ b.equity = a.equity + pnl /\ b.gross_profit = a.gross_profit + pnl
          \/ b.equity = sub_floor(a.equity, pnl) /\ b.gross_profit = a.gross_profit
    BY <1>6 DEF LogsTrade
  <2>6. pnl \in Nat
    BY ConstantTypes
  <2>7. sub_floor(a.equity, pnl) \in 0 .. a.equity
    BY <1>3, <1>6, <2>6, SubFloorType
  <2> HIDE DEF a, b
  <2> QED BY <1>2, <1>3, <1>6, <2>2, <2>3, <2>4, <2>5, <2>6, <2>7 DEF CycleOK
<1>7. ASSUME id \in DOMAIN accounts, KeepsCycle(a, b)
      PROVE  CycleOK(b, won_before'[id])
  <2>1. ~ CycleOpens(id)
    BY <1>7 DEF KeepsCycle, CycleOpens
  <2>2. won_before'[id] = won_before[id]
    BY <2>1, HistoryRecords
  <2>3. /\ b.funded_size = a.funded_size /\ b.profit_target = a.profit_target
        /\ b.equity = a.equity /\ b.gross_profit = a.gross_profit
        /\ b.status = "Passed" => a.status = "Passed" \/ a.equity >= a.profit_target
    BY <1>7 DEF KeepsCycle, SameJournal, TermsOf
  <2> HIDE DEF a, b
  <2> QED BY <1>2, <1>3, <1>7, <2>2, <2>3 DEF CycleOK
<1>8. ASSUME id \notin DOMAIN accounts, NEW t \in Tiers, b = new_state(t)
      PROVE  CycleOK(b, won_before'[id])
  <2>1. b.status = "Evaluating" /\ b.equity = b.funded_size
    BY <1>8 DEF new_state
  <2> QED BY <1>4, <1>8, <2>1 DEF CycleOpens
<1> QED BY <1>1, <1>5, <1>6, <1>7, <1>8, EveryAccountComesFrom DEF CycleStep

\* No profit is counted towards two evaluations: what passes an account was won since
\* its last opening, reactivation or promotion.
THEOREM PassIsEarnedThisCycleHolds == HistorySpec => []PassIsEarnedThisCycle
<1>1. HistoryInit => WonInv
  BY DEF HistoryInit, Init, AccountInit, WonInv
<1>2. ASSUME IInv, IInv', WonInv, [HistoryNext]_hist_vars
      PROVE  WonInv'
  <2>1. CASE UNCHANGED hist_vars
    BY <1>2, <2>1 DEF hist_vars, vars, account_vars, WonInv, CycleOK
  <2>2. CASE HistoryNext
    BY <1>2, <2>2, WonStep DEF WonInv, CycleOK
  <2> QED BY <1>2, <2>1, <2>2
<1>3. WonInv => PassIsEarnedThisCycle
  BY DEF WonInv, CycleOK, PassIsEarnedThisCycle
<1>4. HistorySpec => []IInv
  BY HistoryImplementsSpec, InductiveInvariant
<1> QED BY <1>1, <1>2, <1>3, <1>4, PTL DEF HistorySpec

=============================================================================
