---------------------------- MODULE UserAccount ----------------------------
(***************************************************************************)
(* The on-chain evaluation account (accounts.move, module user_account):   *)
(* the registry of accounts, each with its own copy of the tier's          *)
(* economics, its equity, the daily baseline, the trade journal, lifetime  *)
(* statistics and reputation.  The executor logs closed trades and decides *)
(* evaluations, an admin opens, reactivates and promotes.                  *)
(*                                                                         *)
(* A Move call that aborts changes nothing, so every assert! and every     *)
(* checked addition is a guard.  Time is the UTC day, now_ms / DAY_MS: the *)
(* millisecond timestamps are only recorded, never read.  Events, venue    *)
(* and market names and trading_fee_bps are left out.                      *)
(***************************************************************************)
EXTENDS Integers, Sequences, FiniteSets, Functions, TierConfig

CONSTANTS
    AccountIds,          \* object ids an AccountCap may get
    Pnls,                \* absolute pnl of a logged trade
    Months,              \* period identifiers passed to close_month
    RepAmounts,          \* amounts passed to adjust_reputation
    PayoutAmounts,       \* amounts the treasury's claim records
    INITIAL_REPUTATION, MAX_REPUTATION,
    REP_WIN, REP_LOSS, REP_BREACH_PENALTY, REP_STREAK_BONUS, REP_PASS_BONUS,
    MaxTrades,           \* bound: entries in one account's journal
    MaxDay,              \* bound: days the clock advances
    MaxBreaches          \* bound: suspensions of one account

ASSUME AccountAssumption ==
    /\ Pnls \subseteq U64
    /\ Months \subseteq Nat
    /\ RepAmounts \subseteq U64
    /\ PayoutAmounts \subseteq U64
    /\ {INITIAL_REPUTATION, MAX_REPUTATION, REP_WIN, REP_LOSS,
        REP_BREACH_PENALTY, REP_STREAK_BONUS, REP_PASS_BONUS} \subseteq Nat
    /\ INITIAL_REPUTATION <= MAX_REPUTATION
    /\ {MaxTrades, MaxDay, MaxBreaches} \subseteq Nat

VARIABLES
    accounts,   \* AccountRegistry.accounts: a function on the ids opened so far
    now_day     \* clock.timestamp_ms() / DAY_MS

account_vars == <<accounts, now_day>>

vars == <<access_vars, rows, account_vars>>

AccountStatus == {"Evaluating", "Passed", "Failed", "Suspended"}

TradeEntry == [is_win : BOOLEAN, pnl : U64, equity_after : U64,
               reputation_after : Nat]

AccountState ==
    [tier : Tiers, status : AccountStatus, reputation : 0 .. MAX_REPUTATION,
     funded_size : U64, profit_target : U64, max_dd_floor : U64,
     daily_loss_limit : U64, user_split_bps : Nat,
     equity : U64, day_start_equity : U64, current_day : Nat,
     trades : Seq(TradeEntry), wins : Nat, losses : Nat,
     gross_profit : U64, gross_loss : U64, breach_count : Nat,
     total_paid : U64, months_closed : Nat, last_closed_month : Nat,
     profit_streak : Nat, best_streak : Nat]

TypeOK ==
    /\ AccessTypeOK
    /\ RowsOK
    /\ DOMAIN accounts \subseteq AccountIds
    /\ accounts \in [DOMAIN accounts -> AccountState]
    /\ now_day \in Nat

-----------------------------------------------------------------------------
(* Helpers on amounts, reputation and status. *)

sub_floor(a, b) == IF b >= a THEN 0 ELSE a - b

\* A mutant of rep_up: the sum is not clamped.
rep_up_unclamped(rep, delta) == rep + delta

rep_up(rep, delta) ==
    IF delta >= MAX_REPUTATION \/ rep >= MAX_REPUTATION - delta
    THEN MAX_REPUTATION
    ELSE rep + delta

\* A mutant of trading_allowed: a failed account still trades.
trading_allowed_when_failed(s) == s # "Suspended"

trading_allowed(s) == s \in {"Evaluating", "Passed"}

-----------------------------------------------------------------------------
(* The terms an account copies from a published row, and the opening of a  *)
(* cycle on them: new_state for a new account, reset_cycle on promotion.   *)

Terms(t) ==
    LET r == row(t)
        f == r.funded_size
    IN  [funded_size      |-> f,
         profit_target    |-> f + mul_div_down(f, r.profit_target_bps, BPS_DENOM),
         max_dd_floor     |-> f - mul_div_down(f, r.max_dd_bps, BPS_DENOM),
         daily_loss_limit |-> mul_div_down(f, r.daily_loss_bps, BPS_DENOM),
         user_split_bps   |-> r.user_split_bps]

new_state(t) ==
    LET m == Terms(t)
    IN  [tier |-> t, status |-> "Evaluating", reputation |-> INITIAL_REPUTATION,
         funded_size |-> m.funded_size, profit_target |-> m.profit_target,
         max_dd_floor |-> m.max_dd_floor, daily_loss_limit |-> m.daily_loss_limit,
         user_split_bps |-> m.user_split_bps,
         equity |-> m.funded_size, day_start_equity |-> m.funded_size,
         current_day |-> now_day,
         trades |-> <<>>, wins |-> 0, losses |-> 0,
         gross_profit |-> 0, gross_loss |-> 0, breach_count |-> 0,
         total_paid |-> 0, months_closed |-> 0, last_closed_month |-> 0,
         profit_streak |-> 0, best_streak |-> 0]

OnTerms(a, t) ==
    LET m == Terms(t)
    IN  [a EXCEPT !.tier = t, !.funded_size = m.funded_size,
                  !.profit_target = m.profit_target, !.max_dd_floor = m.max_dd_floor,
                  !.daily_loss_limit = m.daily_loss_limit,
                  !.user_split_bps = m.user_split_bps]

\* Equity and the daily baseline restart at the funded size.
\* A mutant of FreshCycle: the equity of the old cycle is carried over.
FreshCycle_keeps_equity(a) ==
    [a EXCEPT !.day_start_equity = a.funded_size, !.current_day = now_day]

FreshCycle(a) ==
    [a EXCEPT !.equity = a.funded_size, !.day_start_equity = a.funded_size,
              !.current_day = now_day]

\* A mutant of reset_cycle: the daily baseline of the old cycle is kept.
reset_cycle_keeps_baseline(a, t) ==
    [OnTerms(a, t) EXCEPT !.status = "Evaluating", !.current_day = now_day,
                          !.equity = Terms(t).funded_size]

reset_cycle(a, t) == [FreshCycle(OnTerms(a, t)) EXCEPT !.status = "Evaluating"]

-----------------------------------------------------------------------------
(* The stages of log_trade on one account, in the order the code runs them. *)

RollDay(a) ==
    IF now_day > a.current_day
    THEN [a EXCEPT !.day_start_equity = a.equity, !.current_day = now_day]
    ELSE a

ApplyPnl(a, is_win, pnl) ==
    IF is_win
    THEN [a EXCEPT !.equity = @ + pnl, !.wins = @ + 1,
                   !.gross_profit = @ + pnl, !.reputation = rep_up(@, REP_WIN)]
    ELSE [a EXCEPT !.equity = sub_floor(@, pnl), !.losses = @ + 1,
                   !.gross_loss = @ + pnl, !.reputation = sub_floor(@, REP_LOSS)]

daily_drawdown(a) == sub_floor(a.day_start_equity, a.equity)

\* A mutant of Breached: a loss of exactly the daily limit is let through.
Breached_off_by_one(a) ==
    \/ daily_drawdown(a) > 0 /\ daily_drawdown(a) > a.daily_loss_limit
    \/ a.equity <= a.max_dd_floor

Breached(a) ==
    \/ daily_drawdown(a) > 0 /\ daily_drawdown(a) >= a.daily_loss_limit
    \/ a.equity <= a.max_dd_floor

Suspended(a) ==
    [a EXCEPT !.status = "Suspended", !.breach_count = @ + 1,
              !.reputation = sub_floor(@, REP_BREACH_PENALTY)]

EnforceGates(a) == IF Breached(a) THEN Suspended(a) ELSE a

Journal(a, is_win, pnl) ==
    [a EXCEPT !.trades = Append(@, [is_win |-> is_win, pnl |-> pnl,
                                    equity_after |-> a.equity,
                                    reputation_after |-> a.reputation])]

\* A mutant of AfterTrade: the entry is written before the pnl is applied.
AfterTrade_stale_journal(a, is_win, pnl) ==
    EnforceGates(ApplyPnl(Journal(RollDay(a), is_win, pnl), is_win, pnl))

AfterTrade(a, is_win, pnl) ==
    Journal(EnforceGates(ApplyPnl(RollDay(a), is_win, pnl)), is_win, pnl)

\* The checked additions of the trade do not overflow.
TradeFits(a, is_win, pnl) ==
    IF is_win
    THEN a.equity + pnl <= U64_MAX /\ a.gross_profit + pnl <= U64_MAX
    ELSE a.gross_loss + pnl <= U64_MAX

-----------------------------------------------------------------------------
(* Admin actions. *)

AccountInit == accounts = [id \in {} |-> {}] /\ now_day = 0

Init == AccessInit /\ TierInit /\ AccountInit

config_vars == <<access_vars, rows, now_day>>

\* The admin opens an account; the public path, treasury::open_account, also
\* takes the fee (module Treasury).
create_account(cap, id, t) ==
    /\ assert_admin(cap)
    /\ id \notin DOMAIN accounts
    /\ Terms(t).profit_target <= U64_MAX
    /\ accounts' = [x \in DOMAIN accounts \cup {id} |->
                        IF x = id THEN new_state(t) ELSE accounts[x]]
    /\ UNCHANGED config_vars

Update(id, a) ==
    /\ accounts' = [accounts EXCEPT ![id] = a]
    /\ UNCHANGED config_vars

\* A mutant of reactivate: the cycle is reset on the published row, as the
\* comment above reset_cycle says, instead of on the account's own terms.
reactivate_on_new_terms(cap, id) ==
    /\ assert_admin(cap)
    /\ accounts[id].status \in {"Failed", "Suspended"}
    /\ Update(id, reset_cycle(accounts[id], accounts[id].tier))

\* Re-opens the cycle on the stored terms: the published row is not read.
reactivate(cap, id) ==
    /\ assert_admin(cap)
    /\ accounts[id].status \in {"Failed", "Suspended"}
    /\ Update(id, [FreshCycle(accounts[id]) EXCEPT !.status = "Evaluating"])

promote(cap, id) ==
    LET a == accounts[id]
        new_tier == row(a.tier).next_tier
    IN  /\ assert_admin(cap)
        /\ a.status = "Passed"
        /\ row(a.tier).scales
        /\ Terms(new_tier).profit_target <= U64_MAX
        /\ Update(id, reset_cycle(a, new_tier))

-----------------------------------------------------------------------------
(* Executor actions. *)

log_trade(cap, id, is_win, pnl) ==
    LET a == accounts[id]
    IN  /\ assert_executor(cap)
        /\ trading_allowed(a.status)
        /\ TradeFits(a, is_win, pnl)
        /\ Len(a.trades) < MaxTrades
        /\ a.breach_count < MaxBreaches
        /\ Update(id, AfterTrade(a, is_win, pnl))

pass_evaluation(cap, id) ==
    LET a == accounts[id]
    IN  /\ assert_executor(cap)
        /\ a.status = "Evaluating"
        /\ a.equity >= a.profit_target
        /\ Update(id, [a EXCEPT !.status = "Passed",
                                !.reputation = rep_up(@, REP_PASS_BONUS)])

fail_evaluation(cap, id) ==
    /\ assert_executor(cap)
    /\ accounts[id].status = "Evaluating"
    /\ Update(id, [accounts[id] EXCEPT !.status = "Failed"])

\* A mutant of register_dd_breach: any account can be suspended.
register_dd_breach_ungated(cap, id) ==
    /\ assert_executor(cap)
    /\ accounts[id].breach_count < MaxBreaches
    /\ Update(id, Suspended(accounts[id]))

register_dd_breach(cap, id) ==
    /\ assert_executor(cap)
    /\ trading_allowed(accounts[id].status)
    /\ accounts[id].breach_count < MaxBreaches
    /\ Update(id, Suspended(accounts[id]))

\* The streaks after a month closes; the account's status is not looked at.
CloseMonth(a, month, was_profitable) ==
    LET streak == IF was_profitable THEN a.profit_streak + 1 ELSE 0
    IN  [a EXCEPT !.last_closed_month = month, !.months_closed = @ + 1,
                  !.profit_streak = streak,
                  !.best_streak = IF streak > @ THEN streak ELSE @,
                  !.reputation = IF was_profitable
                                 THEN rep_up(@, REP_STREAK_BONUS) ELSE @]

\* A mutant of close_month: the last month closed can be closed again.
close_month_replayed(cap, id, month, was_profitable) ==
    /\ assert_executor(cap)
    /\ month >= accounts[id].last_closed_month
    /\ Update(id, CloseMonth(accounts[id], month, was_profitable))

close_month(cap, id, month, was_profitable) ==
    /\ assert_executor(cap)
    /\ month > accounts[id].last_closed_month
    /\ Update(id, CloseMonth(accounts[id], month, was_profitable))

adjust_reputation(cap, id, is_increase, amount) ==
    /\ assert_executor(cap)
    /\ amount > 0
    /\ Update(id, [accounts[id] EXCEPT
                     !.reputation = IF is_increase THEN rep_up(@, amount)
                                                   ELSE sub_floor(@, amount)])

\* Package-visible: only treasury::claim calls it (module Treasury has its guards).
record_payout(id, amount) ==
    /\ amount > 0
    /\ accounts[id].total_paid + amount <= U64_MAX
    /\ Update(id, [accounts[id] EXCEPT !.total_paid = @ + amount])

-----------------------------------------------------------------------------

NextDay == now_day < MaxDay /\ now_day' = now_day + 1
           /\ UNCHANGED <<access_vars, rows, accounts>>

ExecutorStep(cap, id) ==
    \/ \E is_win \in BOOLEAN, pnl \in Pnls : log_trade(cap, id, is_win, pnl)
    \/ pass_evaluation(cap, id)
    \/ fail_evaluation(cap, id)
    \/ register_dd_breach(cap, id)
    \/ \E month \in Months, p \in BOOLEAN : close_month(cap, id, month, p)
    \/ \E up \in BOOLEAN, amount \in RepAmounts :
           adjust_reputation(cap, id, up, amount)

AdminStep(cap, id) == reactivate(cap, id) \/ promote(cap, id)

\* The steps that act on accounts, on the published rows, and on the caps.
AccountStep ==
    \/ \E cap \in AdminCapIds, id \in AccountIds, t \in Tiers :
           create_account(cap, id, t)
    \/ \E id \in DOMAIN accounts :
        \/ \E cap \in AdminCapIds : AdminStep(cap, id)
        \/ \E cap \in ExecutorCapIds : ExecutorStep(cap, id)
        \/ \E amount \in PayoutAmounts : record_payout(id, amount)

ConfigStep ==
    /\ \E cap \in AdminCapIds, t \in Tiers, r \in RowInputs : set_tier_row(cap, t, r)
    /\ UNCHANGED <<access_vars, account_vars>>

AccessStep == AccessNext /\ UNCHANGED <<rows, account_vars>>

Next == AccountStep \/ ConfigStep \/ NextDay \/ AccessStep

Spec == Init /\ [][Next]_vars

-----------------------------------------------------------------------------
(* Properties. *)

\* log_trade enforces both risk gates on every trade, over any number of days,
\* cycles and terms: an account that may still trade stands above its drawdown
\* floor and has lost less than the daily limit since the day's baseline.  The
\* one exception to the floor is an account on a tier so small that the allowed
\* drawdown rounds down to nothing: it opens standing on its floor.
OnlyJustOpenedOnDust(a) ==
    a.max_dd_floor = a.funded_size /\ a.equity = a.funded_size

WithinGates(a) ==
    /\ a.equity > a.max_dd_floor \/ OnlyJustOpenedOnDust(a)
    /\ daily_drawdown(a) = 0 \/ daily_drawdown(a) < a.daily_loss_limit

RiskGate ==
    \A id \in DOMAIN accounts :
        trading_allowed(accounts[id].status) => WithinGates(accounts[id])

\* close_month counts each month once: a streak never exceeds the best one, the
\* best one the months closed, and those the number of the last month closed.
StreaksAgree ==
    \A id \in DOMAIN accounts :
        LET a == accounts[id]
        IN  /\ a.profit_streak <= a.best_streak
            /\ a.best_streak <= a.months_closed
            /\ a.months_closed <= a.last_closed_month

PnlOf(a) == [i \in DOMAIN a.trades |-> a.trades[i].pnl]

Won(a) == {i \in DOMAIN a.trades : a.trades[i].is_win}

Lost(a) == {i \in DOMAIN a.trades : ~ a.trades[i].is_win}

\* The journal explains the account over every cycle it went through: the lifetime
\* counters are those of its entries, and the equity is that of the last entry or
\* of a fresh cycle (log_trade, reset_cycle, reactivate).
JournalAgrees ==
    \A id \in DOMAIN accounts :
        LET a == accounts[id]
        IN  /\ a.wins = Cardinality(Won(a))
            /\ a.gross_profit = SumFunctionOnSet(PnlOf(a), Won(a))
            /\ a.losses = Cardinality(Lost(a))
            /\ a.gross_loss = SumFunctionOnSet(PnlOf(a), Lost(a))
            /\ \/ a.equity = a.funded_size
               \/ a.trades # <<>> /\ a.equity = a.trades[Len(a.trades)].equity_after

TermsOf(a) ==
    <<a.tier, a.funded_size, a.profit_target, a.max_dd_floor, a.daily_loss_limit,
      a.user_split_bps>>

\* "later config edits never retroactively change open accounts": an account's
\* terms change only when an admin promotes it after it passed.
TermsAreFrozen ==
    [][\A id \in DOMAIN accounts :
          TermsOf(accounts'[id]) # TermsOf(accounts[id]) =>
              accounts[id].status = "Passed" /\ accounts'[id].status = "Evaluating"
      ]_vars

\* A Failed or Suspended account keeps its equity, baseline and journal until it
\* is reactivated: no late trade, breach or verdict reaches it.
StoppedAccountIsFrozen ==
    [][\A id \in DOMAIN accounts :
          LET a == accounts[id]
              b == accounts'[id]
          IN  a.status \in {"Failed", "Suspended"} =>
                \/ /\ b.equity = a.equity /\ b.day_start_equity = a.day_start_equity
                   /\ b.trades = a.trades /\ b.status = a.status
                \/ b.status = "Evaluating" /\ b.equity = b.funded_size
      ]_vars

\* An account implements the life cycle the treasury relies on.
L == INSTANCE AccountLifecycle WITH
        PAID_MAX <- U64_MAX,
        status <- [id \in AccountIds |->
                     IF id \in DOMAIN accounts THEN accounts[id].status ELSE "Absent"],
        total_paid <- [id \in AccountIds |->
                     IF id \in DOMAIN accounts THEN accounts[id].total_paid ELSE 0]

Lifecycle == L!LifecycleSpec

=============================================================================
