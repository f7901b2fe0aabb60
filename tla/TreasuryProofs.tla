--------------------------- MODULE TreasuryProofs ---------------------------
(***************************************************************************)
(* Theorems about Treasury for any accounts, tiers, amounts, addresses,    *)
(* caps and timelock, and about its history.                               *)
(***************************************************************************)
EXTENDS TreasuryHistory, AccessProofs, SumLemmas

LEMMA ConstantTypes ==
    /\ U64_MAX \in Nat
    /\ U64 \subseteq Nat
    /\ Amounts \subseteq Nat
    /\ Amounts \subseteq U64
    /\ FeesAddress \in Addresses
    /\ EvalFundsAddress \in Addresses
    /\ NO_PENDING \notin Addresses
    /\ address_change_delay_ms \in Nat
BY TierAssumption, TreasuryAssumption DEF U64

LEMMA SumFits ==
    ASSUME NEW x \in U64, NEW y \in Nat, x + y <= U64_MAX
    PROVE  x + y \in U64
BY ConstantTypes DEF U64

LEMMA DifferenceFits ==
    ASSUME NEW x \in U64, NEW y \in Nat, y <= x
    PROVE  x - y \in U64
BY ConstantTypes DEF U64

-----------------------------------------------------------------------------
(* The inductive invariant: types, and pools that balance with their       *)
(* lifetime counters.                                                      *)

IInv == TypeOK /\ PoolsBalance

LEMMA InitIInv == Init => IInv
<1> SUFFICES ASSUME Init PROVE IInv
  OBVIOUS
<1> USE DEF Init
<1>1. AccessTypeOK
  BY CapAssumption DEF AccessInit, AccessTypeOK
<1>2. RowsOK
  BY TierAssumption DEF TierInit, RowsOK
<1>3. LifecycleTypeOK
  BY ConstantTypes DEF LifecycleInit, LifecycleTypeOK, U64
<1>4. 0 \in U64
  BY ConstantTypes DEF U64
<1>5. PoolsBalance
  BY DEF TreasuryInit, PoolsBalance, Pools, Counters
<1>6. TypeOK
  BY <1>1, <1>2, <1>3, <1>4, ConstantTypes DEF TypeOK, TreasuryInit
<1> QED BY <1>5, <1>6 DEF IInv

\* What the treasury's steps keep of the types, apart from the money.
OtherTypes ==
    /\ AccessTypeOK /\ RowsOK
    /\ paused \in BOOLEAN
    /\ address \in [Destinations -> Addresses]
    /\ pending_address \in [Destinations -> Addresses \cup {NO_PENDING}]
    /\ proposed_at_ms \in [Destinations -> Nat]
    /\ now_ms \in Nat

MoneyTypes ==
    /\ balance \in [Pools -> U64]
    /\ claimable \in [AccountIds -> U64]
    /\ total_claimable \in U64
    /\ total \in [Counters -> U64]

MoneyInv == MoneyTypes /\ PoolsBalance

LEMMA IInvParts == IInv <=> OtherTypes /\ LifecycleTypeOK /\ MoneyInv
BY DEF IInv, TypeOK, OtherTypes, MoneyInv, MoneyTypes

LEMMA MoneySame == ASSUME MoneyInv, UNCHANGED money_vars PROVE MoneyInv'
BY DEF MoneyInv, MoneyTypes, PoolsBalance, money_vars

\* The three deposits, each into its own pool under its own counter.
DepositPairs == {<<"fees", "fees_collected">>, <<"eval_funds", "eval_fees_collected">>,
                 <<"payout", "payouts_funded">>}

LEMMA DepositMoney ==
    ASSUME MoneyInv, NEW pool, NEW counter, <<pool, counter>> \in DepositPairs,
           NEW amount \in Nat, Deposit(pool, counter, amount)
    PROVE  MoneyInv'
<1>1. pool \in Pools /\ counter \in Counters
  BY DEF DepositPairs, Pools, Counters
<1>2. balance[pool] + amount \in U64 /\ total[counter] + amount \in U64
  BY <1>1, SumFits DEF MoneyInv, MoneyTypes, Deposit
<1>3. MoneyTypes'
  BY <1>1, <1>2 DEF MoneyInv, MoneyTypes, Deposit
<1>4. \A p \in Pools : balance[p] \in Nat
  BY ConstantTypes DEF MoneyInv, MoneyTypes
<1>5. \A c \in Counters : total[c] \in Nat
  BY ConstantTypes DEF MoneyInv, MoneyTypes
<1>6. /\ \A p \in Pools : balance'[p] = IF p = pool THEN balance[p] + amount ELSE balance[p]
      /\ \A c \in Counters : total'[c] = IF c = counter THEN total[c] + amount ELSE total[c]
  BY DEF MoneyInv, MoneyTypes, Deposit
<1>7. PoolsBalance'
  BY <1>4, <1>5, <1>6 DEF MoneyInv, PoolsBalance, DepositPairs, Pools, Counters
<1> QED BY <1>3, <1>7 DEF MoneyInv

WithdrawalPairs ==
    {<<"fees", "fees_withdrawn">>, <<"eval_funds", "eval_funds_withdrawn">>,
     <<"payout", "payouts_recovered">>, <<"payout", "payouts_disbursed">>}

LEMMA WithdrawalMoney ==
    ASSUME MoneyInv, NEW pool, NEW counter, <<pool, counter>> \in WithdrawalPairs,
           NEW amount \in Nat, Withdrawal(pool, counter, amount),
           claimable' \in [AccountIds -> U64], total_claimable' \in U64
    PROVE  MoneyInv'
<1>1. pool \in Pools /\ counter \in Counters
  BY DEF WithdrawalPairs, Pools, Counters
<1>2. balance[pool] - amount \in U64 /\ total[counter] + amount \in U64
  BY <1>1, SumFits, DifferenceFits DEF MoneyInv, MoneyTypes, Withdrawal
<1>3. MoneyTypes'
  BY <1>1, <1>2 DEF MoneyInv, MoneyTypes, Withdrawal
<1>4. \A p \in Pools : balance[p] \in Nat
  BY ConstantTypes DEF MoneyInv, MoneyTypes
<1>5. \A c \in Counters : total[c] \in Nat
  BY ConstantTypes DEF MoneyInv, MoneyTypes
<1>6. /\ \A p \in Pools : balance'[p] = IF p = pool THEN balance[p] - amount ELSE balance[p]
      /\ \A c \in Counters : total'[c] = IF c = counter THEN total[c] + amount ELSE total[c]
  BY DEF MoneyInv, MoneyTypes, Withdrawal
<1>7. PoolsBalance'
  BY <1>4, <1>5, <1>6 DEF MoneyInv, PoolsBalance, WithdrawalPairs, Pools, Counters
<1> QED BY <1>3, <1>7 DEF MoneyInv

\* The lifecycle's own steps keep its types.
LEMMA LifecycleStepType ==
    ASSUME LifecycleTypeOK, NEW id \in AccountIds,
           \/ Open(id) \/ Pass(id) \/ Fail(id) \/ Suspend(id)
           \/ Reactivate(id) \/ Promote(id)
    PROVE  LifecycleTypeOK'
<1>1. PICK to \in AccountStatus : /\ status' = [status EXCEPT ![id] = to]
                                 /\ UNCHANGED total_paid
  BY DEF Open, Pass, Fail, Suspend, Reactivate, Promote, Move, AccountStatus
<1> QED BY <1>1 DEF LifecycleTypeOK

LEMMA RecordPayoutType ==
    ASSUME LifecycleTypeOK, NEW id \in AccountIds, NEW amount \in Nat,
           RecordPayout(id, amount)
    PROVE  LifecycleTypeOK'
<1>1. total_paid[id] \in U64
  BY DEF LifecycleTypeOK, U64
<1>2. total_paid[id] + amount \in 0 .. U64_MAX
  BY <1>1, SumFits DEF RecordPayout, U64
<1> QED BY <1>2 DEF LifecycleTypeOK, RecordPayout

-----------------------------------------------------------------------------
(* Each step of the treasury. *)

\* What a step that only moves money leaves alone.
OtherSame == UNCHANGED <<access_vars, rows, now_ms, paused, timelock_vars>>

LEMMA OtherSameType == ASSUME OtherTypes, OtherSame PROVE OtherTypes'
BY DEF OtherTypes, OtherSame, access_vars, timelock_vars, AccessTypeOK, RowsOK

LEMMA LifecycleSame == ASSUME LifecycleTypeOK, UNCHANGED account_vars
                       PROVE  LifecycleTypeOK'
BY DEF LifecycleTypeOK, account_vars

LEMMA TimelockStepIInv ==
    ASSUME IInv, NEW cap, TimelockStep(cap), UNCHANGED <<access_vars, rows, now_ms>>
    PROVE  IInv'
<1>1. OtherTypes /\ LifecycleTypeOK /\ MoneyInv
  BY IInvParts
<1>2. paused' \in BOOLEAN /\ AccessTypeOK' /\ RowsOK' /\ now_ms' \in Nat
  BY <1>1 DEF TimelockStep, OtherTypes, AccessTypeOK, RowsOK, access_vars, TimelockOnly,
       propose_fees_address, propose_eval_funds_address, confirm_fees_address,
       confirm_eval_funds_address, cancel_fees_address_change,
       cancel_eval_funds_address_change, propose, confirm, cancel
<1>3. TimelockOnly
  BY DEF TimelockStep, propose_fees_address, propose_eval_funds_address,
       confirm_fees_address, confirm_eval_funds_address, cancel_fees_address_change,
       cancel_eval_funds_address_change, propose, confirm, cancel
<1>4. ASSUME NEW d \in Destinations, NEW new \in Addresses, propose(cap, d, new)
      PROVE  OtherTypes'
  BY <1>1, <1>2, <1>4 DEF propose, OtherTypes
<1>5. ASSUME NEW d \in Destinations, confirm(cap, d) \/ cancel(cap, d)
      PROVE  OtherTypes'
  <2>1. address' \in [Destinations -> Addresses]
    BY <1>1, <1>5 DEF confirm, cancel, OtherTypes
  <2>2. NoChangePending(d)
    BY <1>5 DEF confirm, cancel
  <2>3. /\ pending_address' \in [Destinations -> Addresses \cup {NO_PENDING}]
        /\ proposed_at_ms' \in [Destinations -> Nat]
    BY <1>1, <2>2 DEF NoChangePending, OtherTypes
  <2> QED BY <1>2, <2>1, <2>3 DEF OtherTypes
<1>6. OtherTypes'
  BY <1>4, <1>5 DEF TimelockStep, Destinations, propose_fees_address,
       propose_eval_funds_address, confirm_fees_address, confirm_eval_funds_address,
       cancel_fees_address_change, cancel_eval_funds_address_change
<1>7. LifecycleTypeOK' /\ MoneyInv'
  BY <1>1, <1>3, LifecycleSame, MoneySame DEF TimelockOnly
<1> QED BY <1>6, <1>7 DEF IInv, TypeOK, OtherTypes, MoneyInv, MoneyTypes

\* Gathers what a step that moves money must keep.
LEMMA MoneyStepIInv ==
    ASSUME IInv, OtherSame, LifecycleTypeOK', MoneyInv'
    PROVE  IInv'
<1>1. OtherTypes'
  BY IInvParts, OtherSameType
<1> QED BY <1>1 DEF IInv, TypeOK, OtherTypes, MoneyInv, MoneyTypes

LEMMA AdminStepIInv ==
    ASSUME IInv, NEW cap, AdminStep(cap), UNCHANGED <<access_vars, rows, now_ms>>
    PROVE  IInv'
<1>1. OtherTypes /\ LifecycleTypeOK /\ MoneyInv
  BY IInvParts
<1>2. CASE pause(cap) \/ unpause(cap)
  <2>1. LifecycleTypeOK' /\ MoneyInv'
    BY <1>1, <1>2, LifecycleSame, MoneySame DEF pause, unpause, SetPaused
  <2>2. OtherTypes'
    BY <1>1, <1>2 DEF pause, unpause, SetPaused, OtherTypes, access_vars, timelock_vars,
                      AccessTypeOK, RowsOK
  <2> QED BY <2>1, <2>2 DEF IInv, TypeOK, OtherTypes, MoneyInv, MoneyTypes
<1>3. ASSUME NEW amount \in Amounts,
             \/ withdraw_fees(cap, amount)
             \/ withdraw_eval_funds(cap, amount)
             \/ recover_payout_funds(cap, amount)
      PROVE  IInv'
  <2>1. PICK pool, counter :
           <<pool, counter>> \in WithdrawalPairs /\ Withdrawal(pool, counter, amount)
    BY <1>3 DEF withdraw_fees, withdraw_eval_funds, recover_payout_funds, WithdrawalPairs
  <2>2. UNCHANGED <<claimable, total_claimable, account_vars>>
    BY <1>3 DEF withdraw_fees, withdraw_eval_funds, recover_payout_funds
  <2>3. amount \in Nat
    BY ConstantTypes
  <2>4. MoneyInv'
    BY <1>1, <2>1, <2>2, <2>3, WithdrawalMoney DEF MoneyInv, MoneyTypes
  <2>5. OtherSame
    BY <2>1 DEF OtherSame, Withdrawal, Unchanging
  <2> QED BY <1>1, <2>2, <2>4, <2>5, LifecycleSame, MoneyStepIInv
<1>4. ASSUME NEW amount \in Amounts, NEW id \in AccountIds, NEW t \in Tiers,
             open_account(cap, id, t, amount)
      PROVE  IInv'
  <2>1. amount \in Nat
    BY ConstantTypes
  <2>2. Deposit("eval_funds", "eval_fees_collected", amount) /\ Open(id)
    BY <1>4 DEF open_account
  <2>3. MoneyInv'
    BY <1>1, <2>1, <2>2, DepositMoney DEF DepositPairs
  <2>4. OtherSame
    BY <2>2 DEF OtherSame, Deposit, Unchanging
  <2> QED BY <1>1, <2>2, <2>3, <2>4, LifecycleStepType, MoneyStepIInv
<1> QED BY <1>2, <1>3, <1>4 DEF AdminStep

LEMMA ExecutorStepIInv ==
    ASSUME IInv, NEW cap, ExecutorStep(cap), UNCHANGED <<access_vars, rows, now_ms>>
    PROVE  IInv'
<1>1. OtherTypes /\ LifecycleTypeOK /\ MoneyInv
  BY IInvParts
<1>2. PICK amount \in Amounts :
        \/ collect_fee(cap, amount)
        \/ \E t \in Tiers : collect_eval_fee(cap, t, amount)
        \/ fund_payouts(cap, amount)
        \/ \E id \in AccountIds : accrue_payout(cap, id, amount)
  BY DEF ExecutorStep
<1>3. amount \in Nat
  BY ConstantTypes
<1>4. CASE \/ collect_fee(cap, amount)
           \/ \E t \in Tiers : collect_eval_fee(cap, t, amount)
           \/ fund_payouts(cap, amount)
  <2>1. PICK pool, counter :
           <<pool, counter>> \in DepositPairs /\ Deposit(pool, counter, amount)
    BY <1>4 DEF collect_fee, collect_eval_fee, fund_payouts, DepositPairs
  <2>2. UNCHANGED account_vars
    BY <1>4 DEF collect_fee, collect_eval_fee, fund_payouts
  <2>3. MoneyInv' /\ OtherSame
    BY <1>1, <1>3, <2>1, DepositMoney DEF Deposit, Unchanging, OtherSame
  <2> QED BY <1>1, <2>2, <2>3, LifecycleSame, MoneyStepIInv
<1>5. ASSUME NEW id \in AccountIds, accrue_payout(cap, id, amount)
      PROVE  IInv'
  <2>1. claimable[id] + amount \in U64 /\ total_claimable + amount \in U64
    BY <1>1, <1>3, <1>5, SumFits DEF accrue_payout, MoneyInv, MoneyTypes
  <2>2. MoneyTypes'
    BY <1>1, <1>5, <2>1 DEF accrue_payout, MoneyInv, MoneyTypes
  <2>3. PoolsBalance'
    BY <1>1, <1>5 DEF accrue_payout, MoneyInv, PoolsBalance
  <2>4. UNCHANGED account_vars /\ OtherSame
    BY <1>5 DEF accrue_payout, Unchanging, OtherSame
  <2> QED BY <1>1, <2>2, <2>3, <2>4, LifecycleSame, MoneyStepIInv DEF MoneyInv
<1> QED BY <1>2, <1>4, <1>5

LEMMA ClaimIInv ==
    ASSUME IInv, NEW id \in AccountIds, claim(id), UNCHANGED <<access_vars, rows, now_ms>>
    PROVE  IInv'
<1> DEFINE amount == claimable[id]
<1>1. OtherTypes /\ LifecycleTypeOK /\ MoneyInv
  BY IInvParts
<1>2. amount \in Nat /\ total_claimable - amount \in U64
  BY <1>1, ConstantTypes, DifferenceFits DEF MoneyInv, MoneyTypes, claim
<1>3. claimable' \in [AccountIds -> U64] /\ total_claimable' \in U64
  BY <1>1, <1>2, ConstantTypes DEF MoneyInv, MoneyTypes, claim, U64
<1>4. Withdrawal("payout", "payouts_disbursed", amount) /\ RecordPayout(id, amount)
  BY DEF claim
<1> HIDE DEF amount
<1>5. MoneyInv'
  BY <1>1, <1>2, <1>3, <1>4, WithdrawalMoney DEF WithdrawalPairs
<1>6. LifecycleTypeOK'
  BY <1>1, <1>2, <1>4, RecordPayoutType
<1>7. OtherSame
  BY <1>4 DEF OtherSame, Withdrawal, Unchanging
<1> QED BY <1>5, <1>6, <1>7, MoneyStepIInv

LEMMA NextIInv == IInv /\ [Next]_vars => IInv'
<1> SUFFICES ASSUME IInv, [Next]_vars PROVE IInv'
  OBVIOUS
<1>1. OtherTypes /\ LifecycleTypeOK /\ MoneyInv
  BY IInvParts
<1>2. CASE TreasuryStep
  <2>1. ASSUME NEW id \in AccountIds, AccountStep(id),
               UNCHANGED <<access_vars, rows, now_ms>>
        PROVE  IInv'
    <3>1. LifecycleTypeOK'
      BY <1>1, <2>1, LifecycleStepType DEF AccountStep
    <3>2. MoneyInv' /\ OtherSame
      BY <1>1, <2>1, MoneySame DEF AccountStep, treasury_vars, OtherSame
    <3> QED BY <3>1, <3>2, MoneyStepIInv
  <2> QED BY <1>2, <2>1, TimelockStepIInv, AdminStepIInv, ExecutorStepIInv, ClaimIInv
          DEF TreasuryStep
<1>3. CASE ConfigStep \/ AccessStep \/ Tick \/ UNCHANGED vars
  <2>1. UNCHANGED <<account_vars, treasury_vars>>
    BY <1>3 DEF ConfigStep, AccessStep, Tick, vars
  <2>2. MoneyInv' /\ LifecycleTypeOK'
    BY <1>1, <2>1, MoneySame, LifecycleSame DEF treasury_vars
  <2>3. AccessTypeOK'
    BY <1>1, <1>3, AccessStepType DEF ConfigStep, AccessStep, Tick, vars, access_vars,
                                      OtherTypes, AccessTypeOK
  <2>4. RowsOK'
    BY <1>1, <1>3, TierAssumption DEF ConfigStep, set_tier_row, AccessStep, Tick, vars,
                                      OtherTypes, RowsOK
  <2>5. now_ms' \in Nat
    BY <1>1, <1>3 DEF ConfigStep, AccessStep, Tick, vars, OtherTypes
  <2>6. OtherTypes'
    BY <1>1, <2>1, <2>3, <2>4, <2>5 DEF OtherTypes, treasury_vars, timelock_vars
  <2> QED BY <2>2, <2>6 DEF IInv, TypeOK, OtherTypes, MoneyInv, MoneyTypes
<1> QED BY <1>2, <1>3 DEF Next

\* IInv, types and balancing pools together, is inductive: each needs the other.
THEOREM InductiveInvariant == Spec => []IInv
BY InitIInv, NextIInv, PTL DEF Spec

-----------------------------------------------------------------------------
(* The properties. *)

\* Every reachable state is well typed: no pool goes below zero, and no sum of
\* claims or lifetime counter beyond a u64.
THEOREM TypeCorrect == Spec => []TypeOK
<1>1. IInv => TypeOK
  BY DEF IInv
<1> QED BY <1>1, InductiveInvariant, PTL

\* No deposit, withdrawal, recovery or claim creates or loses money, for any pools.
THEOREM PoolsBalanceHolds == Spec => []PoolsBalance
<1>1. IInv => PoolsBalance
  BY DEF IInv
<1> QED BY <1>1, InductiveInvariant, PTL

\* A step either leaves the payout pool and the sum owed alone, deposits into the
\* pool, recovers from its surplus, owes more, or pays what was owed.
LEMMA CoveredStep ==
    ASSUME IInv, TreasuryStep, balance["payout"] >= total_claimable,
           total_claimable' <= total_claimable
    PROVE  balance'["payout"] >= total_claimable'
<1>1. /\ \A p \in Pools : balance[p] \in Nat
      /\ \A id \in AccountIds : claimable[id] \in Nat
      /\ total_claimable \in Nat
      /\ balance \in [Pools -> U64]
      /\ "payout" \in Pools
  BY ConstantTypes DEF IInv, TypeOK, Pools
<1>2. CASE UNCHANGED money_vars
  BY <1>2 DEF money_vars
<1>3. ASSUME NEW amount \in Amounts, NEW pool \in Pools, NEW counter,
             Deposit(pool, counter, amount)
      PROVE  balance'["payout"] >= total_claimable'
  <2>1. amount \in Nat
    BY ConstantTypes
  <2>2. balance'["payout"] \in {balance["payout"], balance["payout"] + amount}
    BY <1>1, <1>3 DEF Deposit
  <2>3. total_claimable' = total_claimable
    BY <1>3 DEF Deposit
  <2> QED BY <1>1, <2>1, <2>2, <2>3
<1>4. ASSUME NEW cap, NEW amount \in Amounts,
             withdraw_fees(cap, amount) \/ withdraw_eval_funds(cap, amount)
      PROVE  balance'["payout"] >= total_claimable'
  BY <1>1, <1>4 DEF withdraw_fees, withdraw_eval_funds, Withdrawal, Pools
<1>5. ASSUME NEW cap, NEW amount \in Amounts, recover_payout_funds(cap, amount)
      PROVE  balance'["payout"] >= total_claimable'
  <2>1. amount \in Nat
    BY ConstantTypes
  <2> QED BY <1>1, <1>5, <2>1 DEF recover_payout_funds, Withdrawal
<1>6. ASSUME NEW cap, NEW id \in AccountIds, NEW amount \in Amounts,
             accrue_payout(cap, id, amount)
      PROVE  balance'["payout"] >= total_claimable'
  <2>1. amount > 0 /\ total_claimable' = total_claimable + amount
    BY <1>6 DEF accrue_payout
  <2>2. amount \in Nat
    BY ConstantTypes
  <2> QED BY <1>1, <2>1, <2>2
<1>7. ASSUME NEW id \in AccountIds, claim(id)
      PROVE  balance'["payout"] >= total_claimable'
  <2>1. /\ balance'["payout"] = balance["payout"] - claimable[id]
        /\ total_claimable' = total_claimable - claimable[id]
    BY <1>1, <1>7 DEF claim, Withdrawal
  <2> QED BY <1>1, <2>1
<1>8. ASSUME NEW cap, TimelockStep(cap) \/ pause(cap) \/ unpause(cap)
      PROVE  UNCHANGED money_vars
  BY <1>8 DEF TimelockStep, TimelockOnly, pause, unpause, SetPaused,
       propose_fees_address, propose_eval_funds_address, confirm_fees_address,
       confirm_eval_funds_address, cancel_fees_address_change,
       cancel_eval_funds_address_change, propose, confirm, cancel
<1>9. ASSUME NEW cap, AdminStep(cap)
      PROVE  balance'["payout"] >= total_claimable'
  <2>1. ASSUME NEW amount \in Amounts, NEW id \in AccountIds, NEW t \in Tiers,
               open_account(cap, id, t, amount)
        PROVE  balance'["payout"] >= total_claimable'
    BY <2>1, <1>3 DEF open_account, Pools
  <2> QED BY <1>2, <1>4, <1>5, <1>8, <1>9, <2>1 DEF AdminStep
<1>10. ASSUME NEW cap, ExecutorStep(cap)
       PROVE  balance'["payout"] >= total_claimable'
  <2>1. ASSUME NEW amount \in Amounts, collect_fee(cap, amount) \/ fund_payouts(cap, amount)
        PROVE  balance'["payout"] >= total_claimable'
    BY <2>1, <1>3 DEF collect_fee, fund_payouts, Pools
  <2>2. ASSUME NEW amount \in Amounts, NEW t \in Tiers, collect_eval_fee(cap, t, amount)
        PROVE  balance'["payout"] >= total_claimable'
    BY <2>2, <1>3 DEF collect_eval_fee, Pools
  <2> QED BY <1>6, <1>10, <2>1, <2>2 DEF ExecutorStep
<1>11. ASSUME NEW id \in AccountIds, AccountStep(id)
       PROVE  UNCHANGED money_vars
  BY <1>11 DEF AccountStep, treasury_vars
<1> QED BY <1>2, <1>7, <1>8, <1>9, <1>10, <1>11 DEF TreasuryStep

\* Once the payout pool covers what is owed, recoveries and other traders' claims
\* cannot uncover it.
THEOREM OwedStaysCoveredHolds == Spec => OwedStaysCovered
<1>1. ASSUME IInv, [Next]_vars, balance["payout"] >= total_claimable,
             total_claimable' <= total_claimable
      PROVE  balance'["payout"] >= total_claimable'
  <2>1. CASE TreasuryStep
    BY <1>1, <2>1, CoveredStep
  <2>2. CASE ConfigStep \/ AccessStep \/ Tick \/ UNCHANGED vars
    BY <1>1, <2>2 DEF ConfigStep, AccessStep, Tick, vars, treasury_vars, money_vars
  <2> QED BY <1>1, <2>1, <2>2 DEF Next
<1>2. IInv /\ [Next]_vars =>
        [balance["payout"] >= total_claimable /\ total_claimable' <= total_claimable
           => balance'["payout"] >= total_claimable']_vars
  BY <1>1
<1> QED BY <1>2, InductiveInvariant, PTL DEF Spec, OwedStaysCovered

\* Once no admin's cap is live, neither the caps nor any admin function of the
\* treasury works again.
THEOREM LockoutIsPermanentHolds == Spec => LockoutIsPermanent
<1>1. ASSUME IInv, [Next]_vars, live_admins = {}
      PROVE  /\ live_admins' = {}
             /\ UNCHANGED <<paused, timelock_vars, rows>>
             /\ balance'["eval_funds"] >= balance["eval_funds"]
             /\ balance'["fees"] >= balance["fees"]
  <2>1. \A cap \in AdminCapIds : ~ assert_admin(cap)
    BY <1>1 DEF live_admins
  <2>2. \A p \in Pools : balance[p] \in Nat
    BY <1>1, ConstantTypes DEF IInv, TypeOK
  <2>3. ASSUME UNCHANGED access_vars
        PROVE  live_admins' = {}
    BY <1>1, <2>3 DEF live_admins, assert_admin, access_vars
  <2>4. CASE TreasuryStep
    <3>1. UNCHANGED <<access_vars, rows>>
      BY <2>4 DEF TreasuryStep
    <3>2. ASSUME NEW pool \in Pools, NEW counter, NEW amount \in Amounts,
                 Deposit(pool, counter, amount)
          PROVE  /\ UNCHANGED <<paused, timelock_vars>>
                 /\ balance'["eval_funds"] >= balance["eval_funds"]
                 /\ balance'["fees"] >= balance["fees"]
      <4>1. amount \in Nat /\ balance \in [Pools -> U64]
        BY <1>1, ConstantTypes DEF IInv, TypeOK
      <4> QED BY <2>2, <3>2, <4>1 DEF Deposit, Unchanging, Pools
    <3>3. ASSUME NEW cap \in ExecutorCapIds, NEW amount \in Amounts,
                 \/ collect_fee(cap, amount)
                 \/ \E t \in Tiers : collect_eval_fee(cap, t, amount)
                 \/ fund_payouts(cap, amount)
                 \/ \E id \in AccountIds : accrue_payout(cap, id, amount)
          PROVE  /\ UNCHANGED <<paused, timelock_vars>>
                 /\ balance'["eval_funds"] >= balance["eval_funds"]
                 /\ balance'["fees"] >= balance["fees"]
      BY <2>2, <3>2, <3>3 DEF collect_fee, collect_eval_fee, fund_payouts, accrue_payout,
                             Pools, Unchanging
    <3>4. ASSUME NEW id \in AccountIds, claim(id)
          PROVE  /\ UNCHANGED <<paused, timelock_vars>>
                 /\ balance'["eval_funds"] >= balance["eval_funds"]
                 /\ balance'["fees"] >= balance["fees"]
      BY <1>1, <2>2, <3>4 DEF claim, Withdrawal, Unchanging, Pools, IInv, TypeOK
    <3>5. ASSUME NEW id \in AccountIds, AccountStep(id)
          PROVE  /\ UNCHANGED <<paused, timelock_vars>>
                 /\ balance'["eval_funds"] >= balance["eval_funds"]
                 /\ balance'["fees"] >= balance["fees"]
      BY <2>2, <3>5 DEF AccountStep, treasury_vars, money_vars, Pools
    <3>6. \A cap \in AdminCapIds : ~ TimelockStep(cap) /\ ~ AdminStep(cap)
      BY <2>1 DEF TimelockStep, AdminStep, pause, unpause, SetPaused, withdraw_fees,
           withdraw_eval_funds, recover_payout_funds, open_account,
           propose_fees_address, propose_eval_funds_address, confirm_fees_address,
           confirm_eval_funds_address, cancel_fees_address_change,
           cancel_eval_funds_address_change, propose, confirm, cancel
    <3> QED BY <2>3, <2>4, <3>1, <3>3, <3>4, <3>5, <3>6 DEF TreasuryStep, ExecutorStep
  <2>5. CASE AccessStep
    BY <1>1, <2>2, <2>5, LockoutStep DEF AccessStep, treasury_vars, money_vars, Pools
  <2>6. CASE ConfigStep
    BY <2>1, <2>6 DEF ConfigStep, set_tier_row
  <2>7. CASE Tick \/ UNCHANGED vars
    BY <2>2, <2>3, <2>7 DEF Tick, vars, treasury_vars, money_vars, Pools
  <2> QED BY <1>1, <2>4, <2>5, <2>6, <2>7 DEF Next
<1>2. IInv /\ [Next]_vars =>
        [live_admins = {} =>
            /\ live_admins' = {}
            /\ UNCHANGED <<paused, timelock_vars, rows>>
            /\ balance'["eval_funds"] >= balance["eval_funds"]
            /\ balance'["fees"] >= balance["fees"]]_vars
  BY <1>1
<1> QED BY <1>2, InductiveInvariant, PTL DEF Spec, LockoutIsPermanent

-----------------------------------------------------------------------------
(* The books.  A step leaves them alone, accrues a payout to one account,  *)
(* or pays one account all it may claim.                                   *)

BooksSame ==
    /\ UNCHANGED <<claimable, total_claimable, total_paid>>
    /\ total'["payouts_disbursed"] = total["payouts_disbursed"]

Accrues(id, amount) ==
    /\ status[id] = "Passed"
    /\ amount > 0
    /\ claimable' = [claimable EXCEPT ![id] = @ + amount]
    /\ total_claimable' = total_claimable + amount
    /\ UNCHANGED total_paid
    /\ total'["payouts_disbursed"] = total["payouts_disbursed"]

PaysOut(id) ==
    /\ claimable' = [claimable EXCEPT ![id] = 0]
    /\ total_claimable' = total_claimable - claimable[id]
    /\ total_paid' = [total_paid EXCEPT ![id] = @ + claimable[id]]
    /\ total'["payouts_disbursed"] = total["payouts_disbursed"] + claimable[id]

BooksStep ==
    \/ BooksSame
    \/ \E id \in AccountIds, amount \in Nat : Accrues(id, amount)
    \/ \E id \in AccountIds : PaysOut(id)

LEMMA LifecycleKeepsPaid ==
    ASSUME NEW id, \/ Open(id) \/ Pass(id) \/ Fail(id) \/ Suspend(id)
                   \/ Reactivate(id) \/ Promote(id)
    PROVE  UNCHANGED total_paid
BY DEF Open, Pass, Fail, Suspend, Reactivate, Promote, Move

LEMMA EveryStepOfTheBooks ==
    ASSUME IInv, [Next]_vars
    PROVE  BooksStep
<1>1. total \in [Counters -> U64] /\ "payouts_disbursed" \in Counters
  BY DEF IInv, TypeOK, Counters
<1>2. ASSUME NEW pool, NEW counter, NEW amount, Deposit(pool, counter, amount),
             counter # "payouts_disbursed", UNCHANGED total_paid
      PROVE  BooksSame
  BY <1>1, <1>2 DEF Deposit, BooksSame
<1>3. ASSUME NEW pool, NEW counter, NEW amount, Withdrawal(pool, counter, amount),
             counter # "payouts_disbursed", UNCHANGED <<claimable, total_claimable, account_vars>>
      PROVE  BooksSame
  BY <1>1, <1>3 DEF Withdrawal, BooksSame, account_vars
<1>4. ASSUME UNCHANGED <<money_vars, account_vars>>
      PROVE  BooksSame
  BY <1>4 DEF BooksSame, money_vars, account_vars
<1>5. ASSUME NEW cap, TimelockStep(cap)
      PROVE  BooksSame
  BY <1>4, <1>5 DEF TimelockStep, TimelockOnly, propose_fees_address,
       propose_eval_funds_address, confirm_fees_address, confirm_eval_funds_address,
       cancel_fees_address_change, cancel_eval_funds_address_change, propose, confirm, cancel
<1>6. ASSUME NEW cap, AdminStep(cap)
      PROVE  BooksSame
  <2>1. CASE pause(cap) \/ unpause(cap)
    BY <1>4, <2>1 DEF pause, unpause, SetPaused
  <2>2. ASSUME NEW amount \in Amounts,
               \/ withdraw_fees(cap, amount)
               \/ withdraw_eval_funds(cap, amount)
               \/ recover_payout_funds(cap, amount)
        PROVE  BooksSame
    BY <1>3, <2>2 DEF withdraw_fees, withdraw_eval_funds, recover_payout_funds
  <2>3. ASSUME NEW amount \in Amounts, NEW id \in AccountIds, NEW t \in Tiers,
               open_account(cap, id, t, amount)
        PROVE  BooksSame
    BY <1>2, <2>3, LifecycleKeepsPaid DEF open_account
  <2> QED BY <1>6, <2>1, <2>2, <2>3 DEF AdminStep
<1>7. ASSUME NEW cap, ExecutorStep(cap)
      PROVE  BooksStep
  <2>1. PICK amount \in Amounts :
          \/ collect_fee(cap, amount)
          \/ \E t \in Tiers : collect_eval_fee(cap, t, amount)
          \/ fund_payouts(cap, amount)
          \/ \E id \in AccountIds : accrue_payout(cap, id, amount)
    BY <1>7 DEF ExecutorStep
  <2>2. CASE \/ collect_fee(cap, amount)
             \/ \E t \in Tiers : collect_eval_fee(cap, t, amount)
             \/ fund_payouts(cap, amount)
    BY <1>2, <2>2 DEF collect_fee, collect_eval_fee, fund_payouts, BooksStep, account_vars
  <2>3. ASSUME NEW id \in AccountIds, accrue_payout(cap, id, amount)
        PROVE  BooksStep
    <3>1. amount \in Nat
      BY ConstantTypes
    <3>2. Accrues(id, amount)
      BY <2>3 DEF accrue_payout, Accrues, account_vars
    <3> QED BY <3>1, <3>2 DEF BooksStep
  <2> QED BY <2>1, <2>2, <2>3
<1>8. ASSUME NEW id \in AccountIds, claim(id)
      PROVE  PaysOut(id)
  BY <1>1, <1>8 DEF claim, Withdrawal, RecordPayout, PaysOut
<1>9. ASSUME NEW id \in AccountIds, AccountStep(id)
      PROVE  BooksSame
  BY <1>9, LifecycleKeepsPaid DEF AccountStep, treasury_vars, money_vars, BooksSame
<1>10. CASE TreasuryStep
  BY <1>5, <1>6, <1>7, <1>8, <1>9, <1>10 DEF TreasuryStep, BooksStep
<1>11. CASE ConfigStep \/ AccessStep \/ Tick \/ UNCHANGED vars
  BY <1>4, <1>11 DEF ConfigStep, AccessStep, Tick, vars, treasury_vars, BooksStep
<1> QED BY <1>10, <1>11 DEF Next

LEMMA BooksTypes ==
    IInv => /\ \A id \in AccountIds : claimable[id] \in Nat /\ total_paid[id] \in Nat
            /\ claimable \in [AccountIds -> U64] /\ total_paid \in [AccountIds -> U64]
            /\ total_claimable \in Nat
            /\ total["payouts_disbursed"] \in Nat
BY ConstantTypes DEF IInv, TypeOK, LifecycleTypeOK, Counters, U64

LEMMA InitBooksAgree == Init => BooksAgree
<1> SUFFICES ASSUME Init PROVE BooksAgree
  OBVIOUS
<1>1. ASSUME NEW f, f = [id \in AccountIds |-> 0]
      PROVE  SumFunctionOnSet(f, AccountIds) = 0
  <2>1. \A id \in AccountIds : f[id] \in Int /\ f[id] = 0 * f[id]
    BY <1>1
  <2>2. SumFunctionOnSet(f, AccountIds) = 0 * SumFunctionOnSet(f, AccountIds)
    BY <2>1, SumScale, TreasuryAssumption
  <2> QED BY <2>1, <2>2, SumType, TreasuryAssumption
<1> QED BY <1>1 DEF Init, TreasuryInit, LifecycleInit, BooksAgree, Counters

LEMMA NextBooksAgree ==
    ASSUME IInv, BooksAgree, BooksStep, IInv'
    PROVE  BooksAgree'
<1>1. IsFiniteSet(AccountIds)
  BY TreasuryAssumption
<1>2. \A id \in AccountIds : /\ claimable[id] \in Int /\ total_paid[id] \in Int
                             /\ claimable'[id] \in Int /\ total_paid'[id] \in Int
  <2>1. claimable' \in [AccountIds -> U64] /\ total_paid' \in [AccountIds -> 0 .. U64_MAX]
    BY DEF IInv, TypeOK, LifecycleTypeOK
  <2>2. \A id \in AccountIds : claimable'[id] \in Int /\ total_paid'[id] \in Int
    BY <2>1, ConstantTypes DEF U64
  <2> QED BY <2>2, BooksTypes
<1>3. CASE BooksSame
  BY <1>3 DEF BooksSame, BooksAgree
<1>4. ASSUME NEW id \in AccountIds, NEW amount \in Nat, Accrues(id, amount)
      PROVE  BooksAgree'
  <2>1. /\ claimable'[id] = claimable[id] + amount
        /\ \A other \in AccountIds \ {id} : claimable'[other] = claimable[other]
    BY <1>4, BooksTypes DEF Accrues
  <2>2. SumFunctionOnSet(claimable', AccountIds)
          = SumFunctionOnSet(claimable, AccountIds) - claimable[id] + claimable'[id]
    BY <1>1, <1>2, <2>1, SumUpdate
  <2>3. total_claimable' = SumFunctionOnSet(claimable', AccountIds)
    BY <1>2, <1>4, <2>1, <2>2, BooksTypes DEF Accrues, BooksAgree
  <2> QED BY <1>4, <2>3 DEF Accrues, BooksAgree
<1>5. ASSUME NEW id \in AccountIds, PaysOut(id)
      PROVE  BooksAgree'
  <2>1. /\ claimable'[id] = 0
        /\ total_paid'[id] = total_paid[id] + claimable[id]
        /\ \A other \in AccountIds \ {id} :
             claimable'[other] = claimable[other] /\ total_paid'[other] = total_paid[other]
    BY <1>5, BooksTypes DEF PaysOut
  <2>2. SumFunctionOnSet(claimable', AccountIds)
          = SumFunctionOnSet(claimable, AccountIds) - claimable[id] + claimable'[id]
    BY <1>1, <1>2, <2>1, SumUpdate
  <2>3. SumFunctionOnSet(total_paid', AccountIds)
          = SumFunctionOnSet(total_paid, AccountIds) - total_paid[id] + total_paid'[id]
    BY <1>1, <1>2, <2>1, SumUpdate
  <2> QED BY <1>2, <1>5, <2>1, <2>2, <2>3, BooksTypes DEF PaysOut, BooksAgree
<1> QED BY <1>3, <1>4, <1>5 DEF BooksStep

\* For any number of accounts, what is owed in total is the sum of the accounts'
\* claims and what was disbursed the sum of what they were paid.
THEOREM BooksAgreeHolds == Spec => []BooksAgree
<1>1. Init => IInv /\ BooksAgree
  BY InitIInv, InitBooksAgree
<1>2. IInv /\ BooksAgree /\ [Next]_vars => IInv' /\ BooksAgree'
  BY NextIInv, NextBooksAgree, EveryStepOfTheBooks
<1> QED BY <1>1, <1>2, PTL DEF Spec

-----------------------------------------------------------------------------
(* The history.  Its steps are Treasury's, so what holds of Treasury holds *)
(* of it.                                                                  *)

LEMMA HistoryImplementsSpec == HistorySpec => Spec
<1>1. HistoryInit => Init
  BY DEF HistoryInit
<1>2. [HistoryNext]_hist_vars => [Next]_vars
  BY DEF HistoryNext, hist_vars
<1> QED BY <1>1, <1>2, PTL DEF HistorySpec, Spec

AccruedInv ==
    /\ accrued \in [AccountIds -> Nat]
    /\ PaidWasAccrued

\* No account is ever paid more than was accrued to it while it was Passed, or loses
\* any of it.
THEOREM PaidWasAccruedHolds == HistorySpec => []PaidWasAccrued
<1>1. HistoryInit => AccruedInv
  BY DEF HistoryInit, Init, TreasuryInit, LifecycleInit, AccruedInv, PaidWasAccrued
<1>2. ASSUME IInv, AccruedInv, [HistoryNext]_hist_vars
      PROVE  AccruedInv'
  <2>1. CASE UNCHANGED hist_vars
    BY <1>2, <2>1 DEF hist_vars, vars, account_vars, treasury_vars, money_vars, AccruedInv,
                      PaidWasAccrued
  <2>2. CASE HistoryNext
    <3>1. BooksStep
      BY <1>2, <2>2, EveryStepOfTheBooks DEF HistoryNext
    <3>2. \A id \in AccountIds :
            accrued'[id] = IF claimable'[id] > claimable[id] /\ status[id] = "Passed"
                           THEN accrued[id] + claimable'[id] - claimable[id]
                           ELSE accrued[id]
      BY <2>2 DEF HistoryNext, History
    <3>3. ASSUME NEW id \in AccountIds
          PROVE  accrued'[id] \in Nat /\ total_paid'[id] + claimable'[id] = accrued'[id]
      <4>1. /\ claimable[id] \in Nat /\ total_paid[id] \in Nat /\ accrued[id] \in Nat
            /\ total_paid[id] + claimable[id] = accrued[id]
            /\ claimable \in [AccountIds -> U64] /\ total_paid \in [AccountIds -> U64]
        BY <1>2, BooksTypes DEF AccruedInv, PaidWasAccrued
      <4>2. CASE claimable'[id] = claimable[id] /\ total_paid'[id] = total_paid[id]
        BY <3>2, <4>1, <4>2
      <4>3. ASSUME NEW amount \in Nat, Accrues(id, amount)
            PROVE  accrued'[id] \in Nat /\ total_paid'[id] + claimable'[id] = accrued'[id]
        <5>1. /\ claimable'[id] = claimable[id] + amount /\ total_paid'[id] = total_paid[id]
              /\ amount > 0 /\ status[id] = "Passed"
          BY <4>1, <4>3 DEF Accrues
        <5> QED BY <3>2, <4>1, <5>1
      <4>4. ASSUME PaysOut(id)
            PROVE  accrued'[id] \in Nat /\ total_paid'[id] + claimable'[id] = accrued'[id]
        <5>1. claimable'[id] = 0 /\ total_paid'[id] = total_paid[id] + claimable[id]
          BY <4>1, <4>4 DEF PaysOut
        <5> QED BY <3>2, <4>1, <5>1
      <4>5. ASSUME NEW other \in AccountIds, other # id,
                   PaysOut(other) \/ \E amount \in Nat : Accrues(other, amount)
            PROVE  claimable'[id] = claimable[id] /\ total_paid'[id] = total_paid[id]
        BY <4>1, <4>5 DEF PaysOut, Accrues
      <4>6. CASE BooksSame
        BY <4>2, <4>6 DEF BooksSame
      <4> QED BY <3>1, <4>2, <4>3, <4>4, <4>5, <4>6 DEF BooksStep
    <3>4. accrued' \in [AccountIds -> Nat]
      BY <2>2, <3>2, <3>3 DEF HistoryNext, History
    <3> QED BY <3>3, <3>4 DEF AccruedInv, PaidWasAccrued
  <2> QED BY <1>2, <2>1, <2>2
<1>3. AccruedInv => PaidWasAccrued
  BY DEF AccruedInv
<1>4. HistorySpec => []IInv
  BY HistoryImplementsSpec, InductiveInvariant
<1> QED BY <1>1, <1>2, <1>3, <1>4, PTL DEF HistorySpec

-----------------------------------------------------------------------------
(* The notice: a pending change has been announced since no later than the *)
(* time its timelock counts from.                                          *)

NoticeInv ==
    /\ announced_at \in [Destinations -> Nat]
    /\ \A d \in Destinations :
         /\ announced_at[d] <= now_ms
         /\ pending_address[d] # NO_PENDING => announced_at[d] <= proposed_at_ms[d]

\* A step leaves a destination's change alone, proposes one, or drops it.
NoticeStep(d) ==
    \/ pending_address'[d] = pending_address[d] /\ proposed_at_ms'[d] = proposed_at_ms[d]
    \/ pending_address'[d] # NO_PENDING /\ proposed_at_ms'[d] = now_ms
    \/ pending_address'[d] = NO_PENDING

LEMMA TimelockCases ==
    ASSUME NEW cap, TimelockStep(cap)
    PROVE  \E d \in Destinations :
             \/ \E new \in Addresses : propose(cap, d, new)
             \/ confirm(cap, d)
             \/ cancel(cap, d)
BY DEF TimelockStep, Destinations, propose_fees_address, propose_eval_funds_address,
       confirm_fees_address, confirm_eval_funds_address, cancel_fees_address_change,
       cancel_eval_funds_address_change

LEMMA OthersKeepTimelocks ==
    ASSUME [Next]_vars, \A cap \in AdminCapIds : ~ TimelockStep(cap)
    PROVE  UNCHANGED timelock_vars
BY DEF Next, TreasuryStep, ConfigStep, AccessStep, Tick, vars, treasury_vars, AdminStep,
       ExecutorStep, pause, unpause, SetPaused, withdraw_fees, withdraw_eval_funds,
       recover_payout_funds, open_account, collect_fee, collect_eval_fee, fund_payouts,
       accrue_payout, claim, AccountStep, Deposit, Withdrawal, Unchanging

LEMMA EveryNoticeStep ==
    ASSUME IInv, [Next]_vars, NEW d \in Destinations
    PROVE  NoticeStep(d)
<1>1. /\ pending_address \in [Destinations -> Addresses \cup {NO_PENDING}]
      /\ proposed_at_ms \in [Destinations -> Nat]
  BY DEF IInv, TypeOK
<1>2. ASSUME NEW cap, NEW e \in Destinations, NEW new \in Addresses, propose(cap, e, new)
      PROVE  NoticeStep(d)
  BY <1>1, <1>2, ConstantTypes DEF propose, NoticeStep
<1>3. ASSUME NEW cap, NEW e \in Destinations, confirm(cap, e) \/ cancel(cap, e)
      PROVE  NoticeStep(d)
  BY <1>1, <1>3 DEF confirm, cancel, NoChangePending, NoticeStep
<1>4. CASE UNCHANGED timelock_vars
  BY <1>4 DEF timelock_vars, NoticeStep
<1> QED BY <1>2, <1>3, <1>4, TimelockCases, OthersKeepTimelocks

LEMMA ClockStep == ASSUME IInv, [Next]_vars PROVE now_ms \in Nat /\ now_ms' \in Nat /\ now_ms' >= now_ms
BY DEF IInv, TypeOK, Next, TreasuryStep, ConfigStep, AccessStep, Tick, vars

LEMMA NextNoticeInv ==
    ASSUME IInv, NoticeInv, [HistoryNext]_hist_vars
    PROVE  NoticeInv'
<1>1. CASE UNCHANGED hist_vars
  BY <1>1 DEF hist_vars, vars, treasury_vars, timelock_vars, NoticeInv
<1>2. CASE HistoryNext
  <2>1. now_ms \in Nat /\ now_ms' \in Nat /\ now_ms' >= now_ms
    BY <1>2, ClockStep DEF HistoryNext
  <2>2. ASSUME NEW d \in Destinations
        PROVE  /\ announced_at'[d] \in Nat
               /\ announced_at'[d] <= now_ms'
               /\ pending_address'[d] # NO_PENDING => announced_at'[d] <= proposed_at_ms'[d]
    <3>1. announced_at'[d] = IF pending_address'[d] # pending_address[d]
                             THEN now_ms ELSE announced_at[d]
      BY <1>2 DEF HistoryNext, History
    <3>2. /\ announced_at[d] \in Nat /\ announced_at[d] <= now_ms
          /\ pending_address[d] # NO_PENDING => announced_at[d] <= proposed_at_ms[d]
      BY DEF NoticeInv
    <3>3. NoticeStep(d)
      BY <1>2, EveryNoticeStep DEF HistoryNext
    <3> QED BY <2>1, <3>1, <3>2, <3>3 DEF NoticeStep
  <2>3. announced_at' \in [Destinations -> Nat]
    BY <1>2, <2>2 DEF HistoryNext, History
  <2> QED BY <2>2, <2>3 DEF NoticeInv
<1> QED BY <1>1, <1>2

\* Whatever the admins propose, cancel and propose again, a destination changes only
\* to an address that has been pending for the whole of the timelock.
THEOREM DestinationWasAnnouncedHolds == HistorySpec => DestinationWasAnnounced
<1>1. HistoryInit => NoticeInv
  BY DEF HistoryInit, Init, TreasuryInit, NoticeInv
<1>2. IInv /\ NoticeInv /\ [HistoryNext]_hist_vars => NoticeInv'
  BY NextNoticeInv
<1>3. ASSUME IInv, NoticeInv, HistoryNext, NEW d \in Destinations, address'[d] # address[d]
      PROVE  /\ address'[d] = pending_address[d]
             /\ now_ms >= announced_at[d] + address_change_delay_ms
  <2>1. PICK cap \in AdminCapIds : TimelockStep(cap)
    BY <1>3, OthersKeepTimelocks DEF HistoryNext, timelock_vars
  <2>2. PICK e \in Destinations : confirm(cap, e)
    BY <1>3, <2>1, TimelockCases DEF propose, cancel
  <2>3. e = d /\ address'[d] = pending_address[d]
    BY <1>3, <2>2 DEF confirm, IInv, TypeOK
  <2>4. /\ announced_at[d] <= proposed_at_ms[d]
        /\ now_ms >= proposed_at_ms[d] + address_change_delay_ms
    BY <1>3, <2>2, <2>3 DEF confirm, NoticeInv
  <2>5. announced_at[d] \in Nat /\ proposed_at_ms[d] \in Nat /\ now_ms \in Nat
    BY <1>3 DEF NoticeInv, IInv, TypeOK
  <2> QED BY <2>3, <2>4, <2>5, ConstantTypes
<1>4. IInv /\ NoticeInv /\ [HistoryNext]_hist_vars =>
        [\A d \in Destinations : address'[d] # address[d] =>
           /\ address'[d] = pending_address[d]
           /\ now_ms >= announced_at[d] + address_change_delay_ms]_hist_vars
  BY <1>3
<1>5. HistorySpec => []IInv
  BY HistoryImplementsSpec, InductiveInvariant
<1> QED BY <1>1, <1>2, <1>4, <1>5, PTL DEF HistorySpec, DestinationWasAnnounced

=============================================================================
