------------------------------ MODULE Treasury ------------------------------
(***************************************************************************)
(* The firm's treasury (treasury.move): three USDC pools, the payouts owed *)
(* to accounts, a pause switch and two withdrawal destinations that change *)
(* only after a timelock.  Of an account it reads the status and writes    *)
(* the total paid, so it composes with AccountLifecycle, which UserAccount *)
(* implements, and with the caps and the published rows.                   *)
(*                                                                         *)
(* A Move call that aborts changes nothing: every assert! and every        *)
(* checked addition is a guard.  Coins come from outside, so a payment may *)
(* have any amount.  The state before create_treasury, and events, are     *)
(* left out.                                                               *)
(***************************************************************************)
EXTENDS FiniteSets, Functions, TierConfig

CONSTANTS
    AccountIds,               \* object ids an AccountCap may get
    Amounts,                  \* amounts of a payment, an accrual or a withdrawal
    Addresses,                \* addresses funds may be sent to
    NO_PENDING,               \* 0x0: no address change is pending
    FeesAddress,              \* the destinations create_treasury was given
    EvalFundsAddress,
    address_change_delay_ms,  \* the timelock create_treasury was given
    MaxTime                   \* bound: the last time of the clock

ASSUME TreasuryAssumption ==
    /\ Amounts \subseteq U64
    /\ NO_PENDING \notin Addresses
    /\ {FeesAddress, EvalFundsAddress} \subseteq Addresses
    /\ address_change_delay_ms \in Nat
    /\ MaxTime \in Nat
    /\ IsFiniteSet(AccountIds)

Pools == {"fees", "eval_funds", "payout"}

Destinations == {"fees", "eval_funds"}

Counters == {"fees_collected", "eval_fees_collected", "fees_withdrawn",
             "eval_funds_withdrawn", "payouts_funded", "payouts_disbursed",
             "payouts_recovered"}

VARIABLES
    paused,
    address,          \* where each pool is withdrawn to
    pending_address,  \* the change proposed for each destination
    proposed_at_ms,   \* when it was proposed, 0 when none is pending
    balance,          \* the USDC in each pool
    claimable,        \* what each account may claim (0: it has no entry)
    total_claimable,
    total,            \* the lifetime counters
    now_ms,           \* the clock
    status,           \* the accounts, as AccountLifecycle has them
    total_paid

INSTANCE AccountLifecycle WITH PAID_MAX <- U64_MAX, PayoutAmounts <- U64

account_vars == <<status, total_paid>>
timelock_vars == <<address, pending_address, proposed_at_ms>>
money_vars == <<balance, claimable, total_claimable, total>>
treasury_vars == <<paused, timelock_vars, money_vars>>
vars == <<access_vars, rows, account_vars, treasury_vars, now_ms>>

TypeOK ==
    /\ AccessTypeOK
    /\ RowsOK
    /\ LifecycleTypeOK
    /\ paused \in BOOLEAN
    /\ address \in [Destinations -> Addresses]
    /\ pending_address \in [Destinations -> Addresses \cup {NO_PENDING}]
    /\ proposed_at_ms \in [Destinations -> Nat]
    /\ balance \in [Pools -> U64]
    /\ claimable \in [AccountIds -> U64]
    /\ total_claimable \in U64
    /\ total \in [Counters -> U64]
    /\ now_ms \in Nat

TreasuryInit ==
    /\ paused = FALSE
    /\ address = [d \in Destinations |->
                    IF d = "fees" THEN FeesAddress ELSE EvalFundsAddress]
    /\ pending_address = [d \in Destinations |-> NO_PENDING]
    /\ proposed_at_ms = [d \in Destinations |-> 0]
    /\ balance = [p \in Pools |-> 0]
    /\ claimable = [id \in AccountIds |-> 0]
    /\ total_claimable = 0
    /\ total = [c \in Counters |-> 0]

Init == AccessInit /\ TierInit /\ LifecycleInit /\ TreasuryInit /\ now_ms = 0

-----------------------------------------------------------------------------
(* The pause switch. *)

SetPaused(cap, value) ==
    /\ assert_admin(cap)
    /\ paused' = value
    /\ UNCHANGED <<timelock_vars, money_vars, account_vars>>

pause(cap) == SetPaused(cap, TRUE)

unpause(cap) == SetPaused(cap, FALSE)

-----------------------------------------------------------------------------
(* Timelocked address changes.  The code has each function twice, for the  *)
(* fees and for the evaluation funds; the pause switch does not stop them. *)

TimelockOnly == UNCHANGED <<paused, money_vars, account_vars>>

\* A mutant of propose: a change proposed over a pending one keeps its timer.
propose_keeps_timer(cap, d, new) ==
    /\ assert_admin(cap)
    /\ pending_address' = [pending_address EXCEPT ![d] = new]
    /\ proposed_at_ms' = [proposed_at_ms EXCEPT
                            ![d] = IF pending_address[d] = NO_PENDING THEN now_ms ELSE @]
    /\ UNCHANGED address
    /\ TimelockOnly

propose(cap, d, new) ==
    /\ assert_admin(cap)
    /\ pending_address' = [pending_address EXCEPT ![d] = new]
    /\ proposed_at_ms' = [proposed_at_ms EXCEPT ![d] = now_ms]
    /\ UNCHANGED address
    /\ TimelockOnly

NoChangePending(d) ==
    /\ pending_address' = [pending_address EXCEPT ![d] = NO_PENDING]
    /\ proposed_at_ms' = [proposed_at_ms EXCEPT ![d] = 0]

confirm(cap, d) ==
    /\ assert_admin(cap)
    /\ pending_address[d] # NO_PENDING
    /\ now_ms >= proposed_at_ms[d] + address_change_delay_ms
    /\ address' = [address EXCEPT ![d] = pending_address[d]]
    /\ NoChangePending(d)
    /\ TimelockOnly

cancel(cap, d) ==
    /\ assert_admin(cap)
    /\ pending_address[d] # NO_PENDING
    /\ NoChangePending(d)
    /\ UNCHANGED address
    /\ TimelockOnly

propose_fees_address(cap, new)       == propose(cap, "fees", new)
propose_eval_funds_address(cap, new) == propose(cap, "eval_funds", new)
confirm_fees_address(cap)            == confirm(cap, "fees")
confirm_eval_funds_address(cap)      == confirm(cap, "eval_funds")
cancel_fees_address_change(cap)       == cancel(cap, "fees")
cancel_eval_funds_address_change(cap) == cancel(cap, "eval_funds")

-----------------------------------------------------------------------------
(* Deposits and withdrawals of a pool, each with its lifetime counter. *)

Unchanging == UNCHANGED <<paused, timelock_vars>>

Deposit(pool, counter, amount) ==
    /\ ~ paused
    /\ balance[pool] + amount <= U64_MAX
    /\ total[counter] + amount <= U64_MAX
    /\ balance' = [balance EXCEPT ![pool] = @ + amount]
    /\ total' = [total EXCEPT ![counter] = @ + amount]
    /\ UNCHANGED <<claimable, total_claimable>>
    /\ Unchanging

\* A mutant of Withdrawal: more than the pool holds can be taken from it.
Withdrawal_unchecked(pool, counter, amount) ==
    /\ ~ paused
    /\ amount > 0
    /\ total[counter] + amount <= U64_MAX
    /\ balance' = [balance EXCEPT ![pool] = @ - amount]
    /\ total' = [total EXCEPT ![counter] = @ + amount]
    /\ Unchanging

Withdrawal(pool, counter, amount) ==
    /\ ~ paused
    /\ amount > 0
    /\ amount <= balance[pool]
    /\ total[counter] + amount <= U64_MAX
    /\ balance' = [balance EXCEPT ![pool] = @ - amount]
    /\ total' = [total EXCEPT ![counter] = @ + amount]
    /\ Unchanging

withdraw_fees(cap, amount) ==
    /\ assert_admin(cap)
    /\ Withdrawal("fees", "fees_withdrawn", amount)
    /\ UNCHANGED <<claimable, total_claimable, account_vars>>

withdraw_eval_funds(cap, amount) ==
    /\ assert_admin(cap)
    /\ Withdrawal("eval_funds", "eval_funds_withdrawn", amount)
    /\ UNCHANGED <<claimable, total_claimable, account_vars>>

\* A mutant of recover_payout_funds: the whole pool can be recovered.
recover_payout_funds_owed(cap, amount) ==
    /\ assert_admin(cap)
    /\ Withdrawal("payout", "payouts_recovered", amount)
    /\ UNCHANGED <<claimable, total_claimable, account_vars>>

\* Only the surplus over what is owed; the recipient may be any address.
recover_payout_funds(cap, amount) ==
    /\ assert_admin(cap)
    /\ amount + total_claimable <= balance["payout"]
    /\ Withdrawal("payout", "payouts_recovered", amount)
    /\ UNCHANGED <<claimable, total_claimable, account_vars>>

collect_fee(cap, amount) ==
    /\ assert_executor(cap)
    /\ amount > 0
    /\ Deposit("fees", "fees_collected", amount)
    /\ UNCHANGED account_vars

\* A mutant of collect_eval_fee: the fee lands in the fees pool.
collect_eval_fee_misrouted(cap, t, amount) ==
    /\ assert_executor(cap)
    /\ amount > 0
    /\ amount = row(t).eval_fee
    /\ Deposit("fees", "eval_fees_collected", amount)
    /\ UNCHANGED account_vars

collect_eval_fee(cap, t, amount) ==
    /\ assert_executor(cap)
    /\ amount > 0
    /\ amount = row(t).eval_fee
    /\ Deposit("eval_funds", "eval_fees_collected", amount)
    /\ UNCHANGED account_vars

fund_payouts(cap, amount) ==
    /\ assert_executor(cap)
    /\ amount > 0
    /\ Deposit("payout", "payouts_funded", amount)
    /\ UNCHANGED account_vars

\* The fee and the account in one transaction: either both or neither.
open_account(cap, id, t, amount) ==
    /\ assert_admin(cap)
    /\ amount = row(t).eval_fee
    /\ Deposit("eval_funds", "eval_fees_collected", amount)
    /\ Open(id)

-----------------------------------------------------------------------------
(* Payouts. *)

\* Nothing asks that the pool covers what is accrued.
accrue_payout(cap, id, amount) ==
    /\ assert_executor(cap)
    /\ ~ paused
    /\ amount > 0
    /\ status[id] = "Passed"
    /\ claimable[id] + amount <= U64_MAX
    /\ total_claimable + amount <= U64_MAX
    /\ claimable' = [claimable EXCEPT ![id] = @ + amount]
    /\ total_claimable' = total_claimable + amount
    /\ UNCHANGED <<balance, total, account_vars>>
    /\ Unchanging

\* A mutant of claim: the paid entry stays claimable.
claim_keeps_entry(id) ==
    LET amount == claimable[id]
    IN  /\ status[id] \notin {"Absent", "Suspended"}
        /\ Withdrawal("payout", "payouts_disbursed", amount)
        /\ RecordPayout(id, amount)
        /\ UNCHANGED <<claimable, total_claimable>>

\* A mutant of claim: the sum of what is owed is not reduced.
claim_keeps_total(id) ==
    LET amount == claimable[id]
    IN  /\ status[id] \notin {"Absent", "Suspended"}
        /\ Withdrawal("payout", "payouts_disbursed", amount)
        /\ RecordPayout(id, amount)
        /\ claimable' = [claimable EXCEPT ![id] = 0]
        /\ UNCHANGED total_claimable

\* The trader claims everything it is owed, whether it is still Passed or not.
claim(id) ==
    LET amount == claimable[id]
    IN  /\ status[id] \notin {"Absent", "Suspended"}
        /\ amount <= total_claimable
        /\ Withdrawal("payout", "payouts_disbursed", amount)
        /\ RecordPayout(id, amount)
        /\ claimable' = [claimable EXCEPT ![id] = 0]
        /\ total_claimable' = total_claimable - amount

-----------------------------------------------------------------------------

TimelockStep(cap) ==
    \/ \E new \in Addresses :
        \/ propose_fees_address(cap, new)
        \/ propose_eval_funds_address(cap, new)
    \/ confirm_fees_address(cap)
    \/ confirm_eval_funds_address(cap)
    \/ cancel_fees_address_change(cap)
    \/ cancel_eval_funds_address_change(cap)

AdminStep(cap) ==
    \/ pause(cap) \/ unpause(cap)
    \/ \E amount \in Amounts :
        \/ withdraw_fees(cap, amount)
        \/ withdraw_eval_funds(cap, amount)
        \/ recover_payout_funds(cap, amount)
        \/ \E id \in AccountIds, t \in Tiers : open_account(cap, id, t, amount)

ExecutorStep(cap) ==
    \E amount \in Amounts :
        \/ collect_fee(cap, amount)
        \/ \E t \in Tiers : collect_eval_fee(cap, t, amount)
        \/ fund_payouts(cap, amount)
        \/ \E id \in AccountIds : accrue_payout(cap, id, amount)

\* What happens to accounts outside the treasury, with the cap it takes.
AccountStep(id) ==
    /\ \/ live_executors # {} /\ (Pass(id) \/ Fail(id) \/ Suspend(id))
       \/ live_admins # {} /\ (Reactivate(id) \/ Promote(id))
    /\ UNCHANGED treasury_vars

TreasuryStep ==
    /\ \/ \E cap \in AdminCapIds : TimelockStep(cap) \/ AdminStep(cap)
       \/ \E cap \in ExecutorCapIds : ExecutorStep(cap)
       \/ \E id \in AccountIds : claim(id) \/ AccountStep(id)
    /\ UNCHANGED <<access_vars, rows, now_ms>>

ConfigStep ==
    /\ \E cap \in AdminCapIds, t \in Tiers, r \in RowInputs : set_tier_row(cap, t, r)
    /\ UNCHANGED <<access_vars, account_vars, treasury_vars, now_ms>>

AccessStep == AccessNext /\ UNCHANGED <<rows, account_vars, treasury_vars, now_ms>>

Tick == now_ms < MaxTime /\ now_ms' = now_ms + 1
        /\ UNCHANGED <<access_vars, rows, account_vars, treasury_vars>>

Next == TreasuryStep \/ ConfigStep \/ AccessStep \/ Tick

Spec == Init /\ [][Next]_vars

-----------------------------------------------------------------------------
(* Properties. *)

\* What flowed into each pool is what flowed out of it and what is left.
PoolsBalance ==
    /\ balance["fees"] + total["fees_withdrawn"] = total["fees_collected"]
    /\ balance["eval_funds"] + total["eval_funds_withdrawn"]
         = total["eval_fees_collected"]
    /\ balance["payout"] + total["payouts_disbursed"] + total["payouts_recovered"]
         = total["payouts_funded"]

\* The treasury's books and the accounts' agree: what is owed in total is the sum
\* of what each account may claim, and what was disbursed is what the accounts
\* were paid (accrue_payout, claim and user_account::record_payout).
BooksAgree ==
    /\ total_claimable = SumFunctionOnSet(claimable, AccountIds)
    /\ total["payouts_disbursed"] = SumFunctionOnSet(total_paid, AccountIds)

\* "admin recovery can never strand a trader": once the payout pool covers all
\* that is owed, it does until another payout is accrued, whatever is claimed,
\* recovered or withdrawn meanwhile and by whom.
OwedStaysCovered ==
    [][balance["payout"] >= total_claimable /\ total_claimable' <= total_claimable
         => balance'["payout"] >= total_claimable']_vars

\* An admin whose cap is revoked cannot undo it, so when none is live none ever is
\* again: the caps, the destinations, the pause switch and two of the pools are
\* frozen for good (revoke_admin_cap lets the last live admin revoke itself).
LockoutIsPermanent ==
    [][live_admins = {} =>
          /\ live_admins' = {}
          /\ UNCHANGED <<paused, timelock_vars, rows>>
          /\ balance'["eval_funds"] >= balance["eval_funds"]
          /\ balance'["fees"] >= balance["fees"]]_vars

=============================================================================
